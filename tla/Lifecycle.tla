----------------------------- MODULE Lifecycle -----------------------------
(***************************************************************************)
(* Starting, stopping and dying daemons on one profile, its configuration  *)
(* and the paths of their sockets (main, run and cleanupSocket,            *)
(* cmd/bmd/main.go:22-123; Start and Stop, pkg/ipc/server.go:59-70 and     *)
(* 161-173), while commands of module Config write the configuration.      *)
(*                                                                         *)
(* Nothing but the socket path keeps two daemons apart: a starting daemon  *)
(* removes whatever is at its path, listens, and at its end removes        *)
(* whatever is at the path again.  The supervisor (launchd, KeepAlive)     *)
(* starts a daemon that is down.                                           *)
(***************************************************************************)
EXTENDS Config, Integers, FiniteSets

CONSTANTS
    Daemons,    \* processes that are started on the profile
    MaxCrashes  \* bound: kills and fatal errors in a behaviour

ASSUME LifecycleConstants == None \notin Daemons /\ MaxCrashes \in Nat

VARIABLES
    pc,       \* where a daemon is
    conf,     \* the database and the socket a daemon has loaded
    sock,     \* the daemon that made the socket at a path, dead or alive, or None
    asked,    \* daemons whose context is done (SIGINT, SIGTERM)
    crashes   \* kills and fatal errors so far (bounded by MaxCrashes)

proc == <<pc, conf, sock, asked, crashes>>
vars == <<settings, proc>>

Paths == {"ipc.sock", "own.sock"}
Unset == [db |-> "", sock |-> ""]

Places == {"down", "load", "init", "stat", "remove", "listen", "serving",
           "close", "stat2", "remove2"}

Init ==
    /\ ConfigInit
    /\ pc = [d \in Daemons |-> "down"]
    /\ conf = [d \in Daemons |-> Unset] /\ sock = [p \in Paths |-> None]
    /\ asked = {} /\ crashes = 0

Goto(d, from, to) == pc[d] = from /\ pc' = [pc EXCEPT ![d] = to]

(* The process ends; of its settings nothing is left. *)
Exit(d) ==
    /\ pc' = [pc EXCEPT ![d] = "down"]
    /\ conf' = [conf EXCEPT ![d] = Unset]
    /\ asked' = asked \ {d}

Path(d) == conf[d].sock

-----------------------------------------------------------------------------
(* The supervisor starts the process, and main loads the configuration. *)
Start(d) == Goto(d, "down", "load") /\ UNCHANGED <<conf, sock, asked, crashes>>

LoadConfig(d) ==
    /\ Goto(d, "load", "init")
    /\ Accepted
    /\ conf' = [conf EXCEPT ![d] = [db |-> Loaded.db, sock |-> Loaded.sock]]
    /\ UNCHANGED <<sock, asked, crashes>>

OpenStore(d) == Goto(d, "init", "stat") /\ UNCHANGED <<conf, sock, asked, crashes>>

(* cleanupSocket: os.Stat, then os.Remove of what is there. *)
StatKeeps(d) ==                                                 \* mutant
    Goto(d, "stat", "listen") /\ UNCHANGED <<conf, sock, asked, crashes>>
Stat(d) ==
    /\ Goto(d, "stat", IF sock[Path(d)] = None THEN "listen" ELSE "remove")
    /\ UNCHANGED <<conf, sock, asked, crashes>>

Remove(d) ==
    /\ Goto(d, "remove", "listen")
    /\ sock[Path(d)] # None
    /\ sock' = [sock EXCEPT ![Path(d)] = None]
    /\ UNCHANGED <<conf, asked, crashes>>

(* Fatal: a configuration that is not there, not TOML or not valid, Store.Init under
   a context that is done, os.Remove of a path that is gone by now, and net.Listen
   on one that is taken by now. *)
StartFails(d) ==
    /\ \/ pc[d] = "load" /\ ~Accepted
       \/ pc[d] = "init" /\ d \in asked
       \/ pc[d] = "remove" /\ sock[Path(d)] = None
       \/ pc[d] = "listen" /\ sock[Path(d)] # None
    /\ Exit(d)
    /\ UNCHANGED <<sock, crashes>>

Listen(d) ==
    /\ Goto(d, "listen", "serving")
    /\ sock[Path(d)] = None
    /\ sock' = [sock EXCEPT ![Path(d)] = d]
    /\ UNCHANGED <<conf, asked, crashes>>

(* SIGINT or SIGTERM: past Store.Init, a daemon notices only when it serves. *)
Interrupt(d) ==
    /\ pc[d] \notin {"down", "load"} /\ d \notin asked
    /\ asked' = asked \cup {d}
    /\ UNCHANGED <<pc, conf, sock, crashes>>

ShutDown(d) ==
    /\ Goto(d, "serving", "close")
    /\ d \in asked
    /\ UNCHANGED <<conf, sock, asked, crashes>>

(* srv.Stop closes the listener, which unlinks its path, whoever listens there. *)
CloseKeeps(d) ==                                                \* mutant
    /\ Goto(d, "close", "down")
    /\ UNCHANGED <<conf, sock, asked, crashes>>
Close(d) ==
    /\ Goto(d, "close", "stat2")
    /\ sock' = [sock EXCEPT ![Path(d)] = None]
    /\ UNCHANGED <<conf, asked, crashes>>

(* cleanupSocket once more, its error ignored; then the process ends. *)
StatAgain(d) ==
    /\ pc[d] = "stat2"
    /\ IF sock[Path(d)] = None THEN Exit(d)
       ELSE Goto(d, "stat2", "remove2") /\ UNCHANGED <<conf, asked>>
    /\ UNCHANGED <<sock, crashes>>

RemoveAgain(d) ==
    /\ pc[d] = "remove2"
    /\ sock' = [sock EXCEPT ![Path(d)] = None]
    /\ Exit(d)
    /\ UNCHANGED crashes

(* SIGKILL, a signal before there is a context, or a store that cannot be opened:
   no deferred function runs that would touch the socket. *)
Die(d) ==
    /\ pc[d] # "down" /\ crashes < MaxCrashes
    /\ crashes' = crashes + 1
    /\ Exit(d)
    /\ UNCHANGED sock

Run(d) ==
    \/ LoadConfig(d) \/ OpenStore(d) \/ Stat(d) \/ Remove(d) \/ StartFails(d) \/ Listen(d)
    \/ ShutDown(d) \/ Close(d) \/ StatAgain(d) \/ RemoveAgain(d)

Next ==
    \/ \E d \in Daemons :
          (Start(d) \/ Run(d) \/ Interrupt(d) \/ Die(d)) /\ UNCHANGED settings
    \/ \E c \in Cmds : Command(c) /\ UNCHANGED proc

Spec == Init /\ [][Next]_vars

(* launchd restarts (scripts/install-launchagent.sh, KeepAlive), and a process
   that can go on does. *)
FairSpec == Spec /\ \A d \in Daemons :
                       /\ WF_vars(Start(d) /\ UNCHANGED settings)
                       /\ WF_vars(Run(d) /\ UNCHANGED settings)

-----------------------------------------------------------------------------
(* A daemon is at one place of run, a socket at a path was made by one of them, and
   a context that is done belongs to a process that lives. *)
TypeOK ==
    /\ ConfigTypeOK
    /\ pc \in [Daemons -> Places]
    /\ conf \in [Daemons -> [db : Databases \cup {""}, sock : Paths \cup {""}]]
    /\ sock \in [Paths -> Daemons \cup {None}]
    /\ asked \subseteq Daemons /\ \A d \in asked : pc[d] # "down"
    /\ crashes \in 0 .. MaxCrashes

Serving == {d \in Daemons : pc[d] = "serving"}

(* docs/design_doc_v1.md:416 "Only one daemon may own a given profile at a time" *)
OneDaemonPerProfile == Cardinality(Serving) <= 1

(* Until a daemon dies, a socket is at a path only while the daemon that made it
   serves there or is closing it; an orderly end leaves none, whatever the
   configuration has come to say in the meantime. *)
StaleOnlyAfterDeath ==
    \A p \in Paths : sock[p] # None /\ crashes = 0 =>
        pc[sock[p]] \in {"serving", "close"} /\ Path(sock[p]) = p

(* Past its start, a daemon has a database that the configuration named before the
   commands or that an init set out to save: never one that it made up from a file
   caught between truncation and write, left there, or written by two
   (config.go:79-93, 141-152). *)
ServesItsDatabase ==
    \A d \in Daemons : pc[d] \notin {"down", "load"} => conf[d].db \in named

(* Whatever is left at the path, and however the daemons get in each other's way,
   a profile without a daemon comes back, once its configuration stays a valid one:
   a daemon serves, or is interrupted. *)
ComesUp ==
    <>[]Accepted =>
        ((\A d \in Daemons : pc[d] = "down") ~> (Serving # {} \/ asked # {}))
=============================================================================
