------------------------------- MODULE Config -------------------------------
(***************************************************************************)
(* config.toml of a profile and the commands that write it: `s0f init` and *)
(* `s0f remote set` (cmd/s0f/main.go:98-119, 320-340) over Load and Save   *)
(* (pkg/config/config.go:59-93).                                           *)
(*                                                                         *)
(* Save truncates the file, then writes it; nothing keeps two commands, or *)
(* a command and a starting daemon, apart.  The file is smaller than a     *)
(* block of the disk, so one write stores all of it or nothing.            *)
(***************************************************************************)
CONSTANTS
    Cmds,     \* processes of the command line client, each running one command
    None,     \* no config.toml
    Garbled   \* bytes that are not TOML

VARIABLES
    file,   \* content of config.toml
    named,  \* databases it named before the commands, or an init set out to save
    job     \* where a command is, and what it is about to save

settings == <<file, named, job>>

Databases == {"state.db", "own.db"}

(* What the rest of the program tells apart; "" is a setting that is not given. *)
Settings == [name : {"", "dev"}, db : Databases \cup {""},
             url : BOOLEAN, sock : {"", "ipc.sock", "own.sock"}]

ASSUME ConfigConstants == None \notin Settings /\ Garbled \notin Settings

Naming(db, sock) == [name |-> "dev", db |-> db, url |-> FALSE, sock |-> sock]

Empty == [name |-> "", db |-> "", url |-> FALSE, sock |-> ""]
DefaultProfile == Naming("state.db", "ipc.sock")
(* Written by hand, the last two with a setting left out. *)
Edited == {Naming("own.db", "own.sock"), Naming("own.db", ""), Naming("", "ipc.sock")}

Jobs == [at : {"todo", "save", "write", "done"}, text : Settings]

ConfigInit ==
    /\ file \in {None, DefaultProfile} \cup Edited
    /\ named = IF file \in Settings THEN {file.db} \ {""} ELSE {}
    /\ job = [c \in Cmds |-> [at |-> "todo", text |-> Empty]]

-----------------------------------------------------------------------------
(* Load: parse, applyDefaults, validate *)
ValidNameOnly(s) == s.name # ""                                 \* mutant
Valid(s) == s.name # "" /\ s.db # ""

Accepted == file \in Settings /\ Valid(file)

Loaded == IF file.sock = "" THEN [file EXCEPT !.sock = "ipc.sock"] ELSE file

Ends(c) == job' = [job EXCEPT ![c] = [at |-> "done", text |-> Empty]]

Plans(c, text) == job' = [job EXCEPT ![c] = [at |-> "save", text |-> text]]

(* `s0f init`: os.Stat, unless it is told to overwrite *)
InitProfile(c, force) ==
    /\ job[c].at = "todo"
    /\ IF file = None \/ force
       THEN Plans(c, DefaultProfile) /\ named' = named \cup {DefaultProfile.db}
       ELSE Ends(c) /\ UNCHANGED named
    /\ UNCHANGED file

(* `s0f remote set` *)
RemoteSet(c) ==
    /\ job[c].at = "todo"
    /\ IF Accepted THEN Plans(c, [Loaded EXCEPT !.url = TRUE]) ELSE Ends(c)
    /\ UNCHANGED <<file, named>>

(* Save: os.WriteFile opens with O_TRUNC, then writes from the beginning: what
   another command has written since may show behind the end, in a line that
   means nothing or that is no line at all. *)
Truncate(c) ==
    /\ job[c].at = "save" /\ job' = [job EXCEPT ![c].at = "write"]
    /\ file' = Empty
    /\ UNCHANGED named

Write(c) ==
    /\ job[c].at = "write" /\ Ends(c)
    /\ file' \in {job[c].text} \cup (IF file \in {Empty, job[c].text} THEN {} ELSE {Garbled})
    /\ UNCHANGED named

(* The command is killed, or the system call fails. *)
Stops(c) ==
    /\ job[c].at \in {"save", "write"}
    /\ Ends(c)
    /\ UNCHANGED <<file, named>>

Command(c) ==
    \/ \E force \in BOOLEAN : InitProfile(c, force)
    \/ RemoteSet(c) \/ Truncate(c) \/ Write(c) \/ Stops(c)

-----------------------------------------------------------------------------
ConfigTypeOK ==
    /\ file \in Settings \cup {None, Garbled}
    /\ named \subseteq Databases
    /\ job \in [Cmds -> Jobs]
=============================================================================
