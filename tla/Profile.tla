------------------------------ MODULE Profile ------------------------------
(***************************************************************************)
(* A profile: the history of GitRemote together with state.db, the file it *)
(* versions and SQLite has open.  A pull does not write into that file, it *)
(* removes it and creates another one at its path; connections that are    *)
(* open (pkg/storage/sqlite/sqlite.go:30-40, database/sql's pool) keep the  *)
(* removed file.  They read it for ever, and SQLite refuses their writes   *)
(* because the file at the path is not theirs (SQLITE_READONLY_DBMOVED).   *)
(* A pull that fails or is killed on the way leaves no file, or a part of  *)
(* one, at the path.                                                       *)
(*                                                                         *)
(* One client writes, pushes and pulls; another one, which only reads, may *)
(* make the pool open a second connection at any time.                     *)
(***************************************************************************)
EXTENDS GitRemote, FiniteSets

CONSTANT Conns    \* connections the pool can have open at once

VARIABLES
    files,  \* batches in each file that ever was state.db; the last one is at the path
    file,   \* the one at the path is a database, was not created (a connection makes an
            \* empty file of it, without tables), or was written in part
    at,     \* the file a connection has open, 0 if it is not open
    holds,  \* batches in the state.db of each commit
    acked   \* batches a client was told are committed

store == <<files, file, at, holds, acked>>

Batches == 1 .. MaxCommits
File    == Last(files)
Path    == Len(files)

(* Right after a start the pool has the one connection of Store.Init. *)
Opened == {[c \in Conns |-> IF c = d THEN Path ELSE 0] : d \in Conns}

ProfileInit ==
    /\ Init
    /\ files = IF local = <<>> THEN <<{}>> ELSE <<{1}>>
    /\ file = "whole"
    /\ at \in Opened
    /\ holds = [k \in Batches |-> IF k = 1 THEN {1} ELSE {}]
    /\ acked = File

-----------------------------------------------------------------------------
(* Store.ApplyOps on a connection: its statements fail (STORAGE_ERROR, and nothing
   changes) unless the connection has the file at the path, and that one has tables. *)
WriteAnywhere(c) ==                                             \* mutant
    /\ at[c] # 0 /\ file = "whole"
    /\ files' = [files EXCEPT ![at[c]] = @ \cup {made + 1}]
Write(c) ==
    /\ at[c] = Path /\ file = "whole"
    /\ files' = [files EXCEPT ![Path] = @ \cup {made + 1}]

(* handleApplyOps: Repo.Commit stages what is at the path. *)
ApplyCommitted(c) ==
    /\ CommitLocally /\ Write(c)
    /\ holds' = [holds EXCEPT ![made + 1] = Last(files')]
    /\ acked' = acked \cup {made + 1}
    /\ UNCHANGED <<at, file>>

ApplyPending(c) ==
    /\ LeavePending /\ Write(c)
    /\ UNCHANGED <<at, file, holds, acked>>

(* What the state.db of the last commit of a history holds. *)
HoldsOf(history) == IF history = <<>> THEN {} ELSE holds[Last(history)]

(* Another machine applies a batch to what it has pulled, and pushes. *)
ElsewhereApplied(u) ==
    /\ PushElsewhere(u)
    /\ holds' = [holds EXCEPT ![made + 1] = {made + 1} \cup HoldsOf(remotes[u])]
    /\ UNCHANGED <<files, file, at, acked>>

(* A daemon is up: it always has a connection. *)
Up == \E c \in Conns : at[c] # 0

(* database/sql opens a connection when the others are in use. *)
Connect(c) ==
    /\ Up /\ at[c] = 0
    /\ at' = [at EXCEPT ![c] = Path]
    /\ UNCHANGED <<vars, files, file, holds, acked>>

(* The reset of the work tree: remove state.db, create it from the commit. *)
CheckedOutHeadOnly ==                                           \* mutant
    /\ MoveHead
    /\ UNCHANGED store
CheckedOut ==
    /\ MoveHead
    /\ files' = Append(files, HoldsOf(target))
    /\ UNCHANGED <<file, at, holds, acked>>

(* What a move cut short leaves at the path: once index and work tree differ, which
   were the same, state.db is untouched still, removed, created in part, or whole with
   snapshot.json to come. *)
Left ==
    LET new  == Append(files, HoldsOf(target))
        none == Append(files, {})
    IN  IF local' = local \/ changes = "unstaged" \/ changes' = "staged" THEN {<<files, file>>}
        ELSE IF changes' = "none" THEN {<<new, "whole">>}
        ELSE {<<files, file>>, <<none, "gone">>, <<none, "torn">>, <<new, "whole">>}

CheckoutFailed ==
    /\ MoveFails
    /\ \E left \in Left : files' = left[1] /\ file' = left[2]
    /\ UNCHANGED <<at, holds, acked>>

(* The next daemon makes a database of an empty file, and does not start on a torn one. *)
Restarted ==
    /\ Restart
    /\ \E left \in IF pc = "move" THEN Left ELSE {<<files, file>>} :
          /\ files' = left[1]
          /\ file' = IF left[2] = "gone" THEN "whole" ELSE left[2]
    /\ at' \in IF file' = "torn" THEN {[c \in Conns |-> 0]} ELSE Opened'
    /\ UNCHANGED <<holds, acked>>

(* Everything else happens beside the file. *)
Beside ==
    /\ \/ Up /\ (Status \/ \E op \in {"push", "fetch"} : Request(op))
       \/ Push \/ Fetch \/ Compare \/ Merge \/ Load \/ Fails
    /\ UNCHANGED store

ProfileNext ==
    \/ \E c \in Conns : ApplyCommitted(c) \/ ApplyPending(c) \/ Connect(c)
    \/ \E u \in Urls : ElsewhereApplied(u)
    \/ CheckedOut \/ CheckoutFailed \/ Restarted \/ Beside

ProfileStep == CheckedOut \/ CheckoutFailed \/ (Step /\ UNCHANGED store)

ProfileSpec == ProfileInit /\ [][ProfileNext]_<<vars, store>>
                           /\ WF_<<vars, store>>(ProfileStep)

-----------------------------------------------------------------------------
Sync == INSTANCE SyncService WITH
            Remotes <- Urls, Commits <- Batches, mine <- local, theirs <- remotes

(* Whatever the steps of fetch, comparison, merge and push, and whatever happens on
   either side meanwhile, HEAD and the remotes change as if each commit, push and
   pull were one step: no history loses or reorders a commit. *)
SyncIsAtomic == Sync!Spec

(* No batch a client was told is committed is ever lost: the history has a commit
   whose state.db holds it, whatever was pulled, removed, left in part or left staged
   since, and whichever file the connection wrote to (rpc.go:61-72, 127). *)
CommittedIsRecoverable ==
    \A b \in acked : \E k \in DOMAIN local : b \in holds[local[k]]

(* A batch leaves the state.db at the path only while a pull moves HEAD.  One that a
   client was told is committed leaves it only when that move is cut short, by the
   daemon's death or by a checkout that fails: the pull is never answered ok, and the
   commit HEAD is at has the batch (git.go:136-143, rpc.go:115-126). *)
BatchesStay ==
    [][\A b \in File \ Last(files') :
          pc = "move" /\ (b \in acked => pc' = "idle" /\ reply' # "ok" /\ b \in HoldsOf(local)')
      ]_<<vars, store>>

(* With nothing left to commit, the file a restarted daemon opens is the one HEAD
   has: what was read from a removed file was stale only until then. *)
RestartServesHead ==
    changes = "none" => file = "whole" /\ File = HoldsOf(local)
=============================================================================
