-------------------------- MODULE LifecycleProofs --------------------------
(***************************************************************************)
(* Proofs about Lifecycle for any number of daemons, of commands that      *)
(* write the configuration, and of crashes: the types, the database each   *)
(* daemon serves, and the sockets left behind.                             *)
(*                                                                         *)
(* A daemon has its database from a file that any command may be writing.  *)
(* The link is that whatever the file or a command holds, truncated,       *)
(* garbled or whole, is either refused or has a database named before.     *)
(***************************************************************************)
EXTENDS Lifecycle, TLAPS

(* A configuration that a daemon or a command accepts names a known database, and
   so does each one that a command is about to write. *)
Sound ==
    /\ Accepted => file.db \in named
    /\ \A c \in Cmds : job[c].at \in {"save", "write"} => job[c].text.db \in named

(* Past its start, a daemon has the path of a socket. *)
HasPath == \A d \in Daemons : pc[d] \notin {"down", "load"} => Path(d) \in Paths

IInv == TypeOK /\ Sound /\ HasPath /\ ServesItsDatabase /\ StaleOnlyAfterDeath

-----------------------------------------------------------------------------
(* What Load returns of an accepted file has a database and a socket. *)
LEMMA LoadedSettings ==
    ASSUME file \in Settings \cup {None, Garbled}, Accepted
    PROVE  /\ Loaded \in Settings /\ Loaded.db = file.db /\ Loaded.db # ""
           /\ Loaded.db \in Databases /\ Loaded.sock \in Paths
  <1>1. file \in Settings /\ file.db # ""
    BY DEF Accepted, Valid
  <1>2. CASE file.sock = ""
    BY <1>1, <1>2 DEF Loaded, Settings, Databases, Paths
  <1>3. CASE file.sock # ""
    BY <1>1, <1>3 DEF Loaded, Settings, Databases, Paths
  <1> QED BY <1>2, <1>3

(* The initial states. *)
LEMMA InitIInv == Init => IInv
  <1> SUFFICES ASSUME Init PROVE IInv
    OBVIOUS
  <1>0. crashes \in 0 .. MaxCrashes
    <2>1. crashes = 0
      BY DEF Init
    <2> QED BY <2>1, LifecycleConstants
  <1> USE DEF Init, ConfigInit
  <1>1. Empty \in Settings /\ DefaultProfile \in Settings /\ Edited \subseteq Settings
    <2>1. Empty \in Settings
      BY DEF Empty, Settings
    <2>2. ASSUME NEW db \in Databases \cup {""}, NEW at \in {"", "ipc.sock", "own.sock"}
          PROVE  Naming(db, at) \in Settings
      BY DEF Naming, Settings
    <2>3. DefaultProfile \in Settings
      BY <2>2 DEF DefaultProfile, Databases
    <2>4. Edited \subseteq Settings
      BY <2>2 DEF Edited, Databases
    <2> QED BY <2>1, <2>3, <2>4
  <1>2. ConfigTypeOK
    <2>1. file \in Settings \cup {None, Garbled}
      BY <1>1
    <2>2. file \in Settings => file.db \in Databases \cup {""}
      BY DEF Settings
    <2>3. named \subseteq Databases
      BY <2>2
    <2>4. job \in [Cmds -> Jobs]
      BY <1>1 DEF Jobs
    <2> QED BY <2>1, <2>3, <2>4 DEF ConfigTypeOK
  <1>3. TypeOK
    <2>1. pc \in [Daemons -> Places] /\ asked \subseteq Daemons /\ \A d \in asked : pc[d] # "down"
      BY DEF Places
    <2>2. conf \in [Daemons -> [db : Databases \cup {""}, sock : Paths \cup {""}]]
      <3>1. Unset \in [db : Databases \cup {""}, sock : Paths \cup {""}]
        BY DEF Unset
      <3> QED BY <3>1
    <2>3. sock \in [Paths -> Daemons \cup {None}]
      OBVIOUS
    <2> QED BY <1>0, <1>2, <2>1, <2>2, <2>3 DEF TypeOK
  <1>4. Sound
    BY DEF Sound, Accepted, Valid
  <1> QED BY <1>3, <1>4 DEF IInv, HasPath, ServesItsDatabase, StaleOnlyAfterDeath

-----------------------------------------------------------------------------
(* A command keeps the configuration sound. *)
LEMMA CommandStep ==
    ASSUME IInv, NEW c \in Cmds, Command(c), UNCHANGED proc
    PROVE  IInv'
  <1>1. Empty \in Settings /\ DefaultProfile \in Settings /\ DefaultProfile.db \in Databases
    BY DEF Naming, Empty, DefaultProfile, Settings, Databases
  <1> USE DEF IInv, TypeOK, ConfigTypeOK, Sound
  <1>2. ASSUME named \subseteq named' PROVE HasPath' /\ ServesItsDatabase' /\ StaleOnlyAfterDeath'
    BY <1>2 DEF proc, HasPath, ServesItsDatabase, StaleOnlyAfterDeath, Path
  <1>3. ASSUME ConfigTypeOK', Sound', named \subseteq named' PROVE IInv'
    BY <1>2, <1>3 DEF proc
  <1>4. ASSUME NEW force \in BOOLEAN, InitProfile(c, force) PROVE IInv'
    <2>1. CASE Plans(c, DefaultProfile) /\ named' = named \cup {DefaultProfile.db}
      BY <1>1, <1>3, <1>4, <2>1 DEF InitProfile, Plans, Accepted, Jobs
    <2>2. CASE Ends(c) /\ UNCHANGED named
      BY <1>1, <1>3, <1>4, <2>2 DEF InitProfile, Ends, Accepted, Jobs
    <2> QED BY <1>4, <2>1, <2>2 DEF InitProfile
  <1>5. CASE RemoteSet(c)
    <2>1. CASE Accepted /\ Plans(c, [Loaded EXCEPT !.url = TRUE])
      <3> DEFINE text == [Loaded EXCEPT !.url = TRUE]
      <3>1. text \in Settings /\ text.db \in named
        BY <2>1, LoadedSettings DEF Settings
      <3> HIDE DEF text
      <3>2. Plans(c, text)
        BY <2>1 DEF text
      <3> QED BY <1>3, <1>5, <3>1, <3>2 DEF RemoteSet, Plans, Accepted, Jobs
    <2>2. CASE Ends(c)
      BY <1>1, <1>3, <1>5, <2>2 DEF RemoteSet, Ends, Accepted, Jobs
    <2> QED BY <1>5, <2>1, <2>2 DEF RemoteSet
  <1>6. CASE Truncate(c)
    <2>1. ~Accepted'
      BY <1>6 DEF Truncate, Accepted, Valid, Empty
    <2>2. job' \in [Cmds -> Jobs]
      BY <1>6 DEF Truncate, Jobs
    <2>3. \A e \in Cmds : /\ job'[e].text = job[e].text
                          /\ job'[e].at \in {"save", "write"} => job[e].at \in {"save", "write"}
      BY <1>6 DEF Truncate, Jobs
    <2>4. \A e \in Cmds : job'[e].at \in {"save", "write"} => job'[e].text.db \in named'
      <3>1. named' = named
        BY <1>6 DEF Truncate
      <3> TAKE e \in Cmds
      <3> HAVE job'[e].at \in {"save", "write"}
      <3>2. job[e].text.db \in named
        BY <2>3 DEF Sound
      <3> QED BY <2>3, <3>1, <3>2
    <2>6. Sound'
      BY <2>1, <2>4
    <2>5. ConfigTypeOK'
      BY <1>1, <1>6, <2>2 DEF Truncate
    <2> QED BY <1>3, <1>6, <2>5, <2>6 DEF Truncate
  <1>7. CASE Write(c)
    <2>1. job[c].text \in Settings /\ job[c].text.db \in named
      BY <1>7 DEF Write, Jobs
    <2>2. file' = job[c].text \/ file' = Garbled
      BY <1>7 DEF Write
    <2>3. Accepted' => file'.db \in named
      BY <2>1, <2>2, ConfigConstants DEF Accepted
    <2> QED BY <1>1, <1>3, <1>7, <2>1, <2>2, <2>3 DEF Write, Ends, Jobs
  <1>8. CASE Stops(c)
    BY <1>1, <1>3, <1>8 DEF Stops, Ends, Accepted, Jobs
  <1> QED BY <1>4, <1>5, <1>6, <1>7, <1>8 DEF Command

(* A daemon leaves the configuration alone. *)
LEMMA SoundKept == Sound /\ UNCHANGED settings => Sound'
  BY DEF Sound, settings, Accepted

(* The end of a daemon that does not serve, or has just closed its socket, or is
   the first crash. *)
LEMMA ExitStep ==
    ASSUME IInv, NEW d \in Daemons, Exit(d), UNCHANGED settings,
           \/ crashes' = crashes /\ pc[d] \notin {"serving", "close"}
           \/ crashes' = crashes + 1 /\ crashes < MaxCrashes,
           sock' = sock \/ (sock' = [sock EXCEPT ![Path(d)] = None] /\ Path(d) \in Paths)
    PROVE  IInv'
  <1>0. /\ crashes' \in 0 .. MaxCrashes
        /\ crashes' = 0 => crashes = 0 /\ pc[d] \notin {"serving", "close"}
    <2>1. crashes \in 0 .. MaxCrashes
      BY DEF IInv, TypeOK
    <2> QED BY <2>1, LifecycleConstants
  <1> USE DEF IInv
  <1>1. Sound'
    BY SoundKept
  <1>2. TypeOK'
    <2>1. ConfigTypeOK'
      BY DEF TypeOK, ConfigTypeOK, settings
    <2>2. pc' \in [Daemons -> Places] /\ asked' \subseteq Daemons /\ \A e \in asked' : pc'[e] # "down"
      BY DEF TypeOK, Exit, Places
    <2>3. conf' \in [Daemons -> [db : Databases \cup {""}, sock : Paths \cup {""}]]
      <3>1. Unset \in [db : Databases \cup {""}, sock : Paths \cup {""}]
        BY DEF Unset
      <3> QED BY <3>1 DEF TypeOK, Exit
    <2>4. sock' \in [Paths -> Daemons \cup {None}]
      BY DEF TypeOK
    <2> QED BY <1>0, <2>1, <2>2, <2>3, <2>4 DEF TypeOK
  <1>3. HasPath' /\ ServesItsDatabase'
    BY DEF TypeOK, Exit, HasPath, ServesItsDatabase, Path, settings
  <1>4. StaleOnlyAfterDeath'
    <2> SUFFICES ASSUME NEW p \in Paths, sock'[p] # None, crashes' = 0
                 PROVE  pc'[sock'[p]] \in {"serving", "close"} /\ conf'[sock'[p]].sock = p
      BY DEF StaleOnlyAfterDeath, Path
    <2>1. crashes = 0 /\ pc[d] \notin {"serving", "close"}
      BY <1>0
    <2>2. sock'[p] = sock[p]
      BY DEF TypeOK
    <2>3. pc[sock[p]] \in {"serving", "close"} /\ conf[sock[p]].sock = p
      BY <2>1, <2>2 DEF StaleOnlyAfterDeath, Path
    <2>4. sock[p] \in Daemons /\ sock[p] # d
      BY <2>1, <2>2, <2>3 DEF TypeOK
    <2> QED BY <2>2, <2>3, <2>4 DEF TypeOK, Exit
  <1> QED BY <1>1, <1>2, <1>3, <1>4

(* A daemon past its start goes on, and does not leave its socket. *)
LEMMA GotoStep ==
    ASSUME IInv, NEW d \in Daemons, UNCHANGED <<settings, conf, asked, crashes>>,
           NEW from \in Places \ {"down", "load"}, NEW to \in Places \ {"down", "load"},
           Goto(d, from, to),
           \/ /\ sock' = sock
              /\ from \in {"serving", "close"} => to \in {"serving", "close"}
           \/ sock' = [sock EXCEPT ![Path(d)] = None]
           \/ sock' = [sock EXCEPT ![Path(d)] = d] /\ to = "serving"
    PROVE  IInv'
  <1> USE DEF IInv
  <1>0. Path(d) \in Paths
    BY DEF Goto, HasPath
  <1>1. Sound'
    BY SoundKept
  <1>2. TypeOK'
    BY <1>0 DEF TypeOK, ConfigTypeOK, settings, Goto, Places
  <1>3. HasPath' /\ ServesItsDatabase'
    BY DEF TypeOK, Goto, HasPath, ServesItsDatabase, Path, settings
  <1>4. StaleOnlyAfterDeath'
    <2> SUFFICES ASSUME NEW p \in Paths, sock'[p] # None, crashes' = 0
                 PROVE  pc'[sock'[p]] \in {"serving", "close"} /\ conf'[sock'[p]].sock = p
      BY DEF StaleOnlyAfterDeath, Path
    <2>1. pc' = [pc EXCEPT ![d] = to] /\ pc[d] = from /\ pc \in [Daemons -> Places]
      BY DEF TypeOK, Goto
    <2>2. CASE sock'[p] = sock[p]
      <3>1. sock[p] \in Daemons
        BY <2>2 DEF TypeOK
      <3>2. pc[sock[p]] \in {"serving", "close"} /\ conf[sock[p]].sock = p
        BY <2>2 DEF StaleOnlyAfterDeath, Path
      <3>3. CASE sock[p] # d
        BY <2>1, <2>2, <3>1, <3>2, <3>3
      <3>4. CASE sock[p] = d
        <4>1. p = Path(d) /\ from \in {"serving", "close"}
          BY <2>1, <3>2, <3>4 DEF Path
        <4>2. to \in {"serving", "close"}
          BY <1>0, <2>2, <3>4, <4>1, LifecycleConstants DEF TypeOK
        <4> QED BY <2>1, <2>2, <3>2, <3>4, <4>2
      <3> QED BY <3>3, <3>4
    <2>3. CASE sock'[p] # sock[p]
      <3>1. sock'[p] = d /\ p = Path(d) /\ to = "serving"
        BY <1>0, <2>3 DEF TypeOK
      <3> QED BY <2>1, <3>1 DEF Path
    <2> QED BY <2>2, <2>3
  <1> QED BY <1>1, <1>2, <1>3, <1>4

(* A daemon that starts has no socket yet, so no step of its start disturbs one. *)
LEMMA StartsUnheard ==
    ASSUME IInv, NEW d \in Daemons, pc[d] \in {"down", "load"},
           \A e \in Daemons \ {d} : pc'[e] = pc[e] /\ conf'[e] = conf[e],
           UNCHANGED <<sock, crashes>>
    PROVE  StaleOnlyAfterDeath'
  <1> SUFFICES ASSUME NEW p \in Paths, sock[p] # None, crashes = 0
               PROVE  pc'[sock[p]] \in {"serving", "close"} /\ conf'[sock[p]].sock = p
    BY DEF StaleOnlyAfterDeath, Path
  <1>1. pc[sock[p]] \in {"serving", "close"} /\ conf[sock[p]].sock = p
    BY DEF IInv, StaleOnlyAfterDeath, Path
  <1>2. sock[p] \in Daemons /\ sock[p] # d
    BY <1>1 DEF IInv, TypeOK
  <1> QED BY <1>1, <1>2 DEF IInv, TypeOK

(* A daemon's step keeps the invariant. *)
LEMMA DaemonStep ==
    ASSUME IInv, NEW d \in Daemons, UNCHANGED settings,
           Start(d) \/ Run(d) \/ Interrupt(d) \/ Die(d)
    PROVE  IInv'
  <1> USE DEF IInv
  <1>1. CASE Start(d)
    <2>1. Sound'
      BY SoundKept
    <2>2. TypeOK'
      BY <1>1 DEF Start, Goto, TypeOK, ConfigTypeOK, settings, Places
    <2>3. HasPath' /\ ServesItsDatabase'
      BY <1>1 DEF Start, Goto, TypeOK, HasPath, ServesItsDatabase, Path, settings
    <2>4. StaleOnlyAfterDeath'
      BY <1>1, StartsUnheard DEF Start, Goto, TypeOK
    <2> QED BY <2>1, <2>2, <2>3, <2>4
  <1>2. CASE LoadConfig(d)
    <2>1. Sound'
      BY SoundKept
    <2>2. Loaded.db \in Databases /\ Loaded.sock \in Paths /\ Loaded.db \in named
      BY <1>2, LoadedSettings DEF LoadConfig, Sound, TypeOK, ConfigTypeOK
    <2> DEFINE got == [db |-> Loaded.db, sock |-> Loaded.sock]
    <2>3. got \in [db : Databases \cup {""}, sock : Paths \cup {""}]
          /\ got.db \in named /\ got.sock \in Paths
      BY <2>2
    <2>4. conf' = [conf EXCEPT ![d] = got]
      BY <1>2 DEF LoadConfig
    <2> HIDE DEF got
    <2>5. TypeOK'
      BY <1>2, <2>3, <2>4 DEF LoadConfig, Goto, TypeOK, ConfigTypeOK, settings, Places
    <2>6. HasPath' /\ ServesItsDatabase'
      BY <1>2, <2>3, <2>4 DEF LoadConfig, Goto, TypeOK, HasPath, ServesItsDatabase, Path, settings
    <2>7. StaleOnlyAfterDeath'
      <3>1. \A e \in Daemons \ {d} : pc'[e] = pc[e] /\ conf'[e] = conf[e]
        BY <1>2, <2>4 DEF LoadConfig, Goto, TypeOK
      <3>2. pc[d] \in {"down", "load"} /\ UNCHANGED <<sock, crashes>>
        BY <1>2 DEF LoadConfig, Goto
      <3> QED BY <3>1, <3>2, StartsUnheard
    <2> QED BY <2>1, <2>5, <2>6, <2>7
  <1>3. CASE OpenStore(d)
    BY <1>3, GotoStep DEF OpenStore, Places
  <1>4. CASE Stat(d)
    BY <1>4, GotoStep DEF Stat, Places
  <1>5. CASE Remove(d)
    BY <1>5, GotoStep DEF Remove, Places
  <1>6. CASE StartFails(d)
    BY <1>6, ExitStep DEF StartFails
  <1>7. CASE Listen(d)
    BY <1>7, GotoStep DEF Listen, Places
  <1>8. CASE ShutDown(d)
    BY <1>8, GotoStep DEF ShutDown, Places
  <1>9. CASE Close(d)
    BY <1>9, GotoStep DEF Close, Places
  <1>10. CASE StatAgain(d)
    <2>1. CASE sock[Path(d)] = None
      BY <1>10, <2>1, ExitStep DEF StatAgain
    <2>2. CASE sock[Path(d)] # None
      BY <1>10, <2>2, GotoStep DEF StatAgain, Places, Goto
    <2> QED BY <2>1, <2>2
  <1>11. CASE RemoveAgain(d)
    <2>1. Path(d) \in Paths
      BY <1>11 DEF RemoveAgain, HasPath
    <2> QED BY <1>11, <2>1, ExitStep DEF RemoveAgain
  <1>12. CASE Interrupt(d)
    <2>1. Sound'
      BY SoundKept
    <2>2. TypeOK'
      BY <1>12 DEF Interrupt, TypeOK, ConfigTypeOK, settings
    <2>3. HasPath' /\ ServesItsDatabase' /\ StaleOnlyAfterDeath'
      BY <1>12 DEF Interrupt, HasPath, ServesItsDatabase, StaleOnlyAfterDeath, Path, settings
    <2> QED BY <2>1, <2>2, <2>3
  <1>13. CASE Die(d)
    BY <1>13, ExitStep DEF Die
  <1> QED BY <1>1, <1>2, <1>3, <1>4, <1>5, <1>6, <1>7, <1>8, <1>9, <1>10, <1>11, <1>12,
             <1>13 DEF Run

-----------------------------------------------------------------------------
(* Every step keeps the invariant. *)
LEMMA IInvStep == IInv /\ [Next]_vars => IInv'
  <1> SUFFICES ASSUME IInv, [Next]_vars PROVE IInv'
    OBVIOUS
  <1>1. CASE UNCHANGED vars
    BY <1>1 DEF vars, proc, settings, IInv, TypeOK, ConfigTypeOK, Sound, Accepted, HasPath,
                ServesItsDatabase, StaleOnlyAfterDeath, Path
  <1>2. CASE Next
    BY <1>2, DaemonStep, CommandStep DEF Next
  <1> QED BY <1>1, <1>2

THEOREM LifecycleInductive == Spec => []IInv
  BY InitIInv, IInvStep, PTL DEF Spec

(* The types of configuration, commands, daemons and sockets; no context is done
   but that of a living process. *)
THEOREM LifecycleTypeCorrect == Spec => []TypeOK
  BY LifecycleInductive, PTL DEF IInv

(* However commands truncate, overwrite and garble config.toml, and whenever a daemon
   reads it, it serves a database that somebody named (config.go:57-93). *)
THEOREM DatabaseIsNamed == Spec => []ServesItsDatabase
  BY LifecycleInductive, PTL DEF IInv

(* However daemons of one profile remove each other's sockets, with whatever paths
   they have loaded: while none has died, no socket outlives its daemon
   (main.go:84-123). *)
THEOREM NoSocketOutlives == Spec => []StaleOnlyAfterDeath
  BY LifecycleInductive, PTL DEF IInv
=============================================================================
