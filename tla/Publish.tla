------------------------------ MODULE Publish ------------------------------
(***************************************************************************)
(* What happens to a batch once it is valid: the database file, then       *)
(* snapshot.json, then the Git index and HEAD, then the tree_changed event  *)
(* and the reply (handleApplyOps, cmd/bmd/rpc.go:54-79; writeSnapshot;     *)
(* Repo.Commit).  The tree is abstracted to its version, the number of     *)
(* batches committed so far; module ApplyOps has the trees themselves.     *)
(*                                                                         *)
(* Every file is changed in the steps the program changes it in, any step  *)
(* may fail, and the daemon may die between any two of them.               *)
(***************************************************************************)
EXTENDS Integers, Sequences, SequencesExt

CONSTANTS
    Handlers,     \* client connections, one goroutine each
    MaxVersion,   \* bound: batches committed in a behaviour
    MaxRestarts   \* bound: crashes in a behaviour

ASSUME PublishConstants == MaxVersion \in Nat /\ MaxRestarts \in Nat

Versions == 0 .. MaxVersion
Missing  == -1     \* no such file, no such index entry
Torn     == -2     \* bytes of no single version: truncated, mixed or half written
Contents == Versions \cup {Missing, Torn}
Entries  == [db : Contents, snap : Contents]

VARIABLES
    db,        \* the committed version, what every LoadTree returns
    dbFile,    \* the bytes of state.db, as a reader that takes no lock finds them
    snapFile,  \* the bytes of snapshot.json
    index,     \* the Git index: the staged content of the two files
    head,      \* the history HEAD points to, oldest commit first
    pc,        \* where a handler is
    batch,     \* the version the handler's batch made
    tree,      \* the version the handler loaded after its commit
    copy,      \* the index, and the history, the handler has read
    status,    \* the vcsStatus of a handler's reply
    events,    \* versions announced by tree_changed, in order
    restarts   \* crashes so far (bounded by MaxRestarts)

files == <<db, dbFile, snapFile>>
git   == <<index, head>>
local == <<batch, tree, copy, status>>
vars  == <<files, git, pc, local, events, restarts>>

Places   == {"idle", "commit", "reload", "create", "encode", "add_db", "add_db_write",
             "add_snap", "add_snap_write", "build", "update_head", "broadcast"}
Statuses == {"none", "pending", "committed", "error"}

Init ==
    /\ db = 0 /\ dbFile = 0 /\ snapFile = Missing
    /\ index = [db |-> Missing, snap |-> Missing] /\ head = <<>>
    /\ pc = [h \in Handlers |-> "idle"]
    /\ batch = [h \in Handlers |-> 0] /\ tree = [h \in Handlers |-> 0]
    /\ copy = [h \in Handlers |-> [index |-> index, head |-> head]]
    /\ status = [h \in Handlers |-> "none"]
    /\ events = <<>> /\ restarts = 0

Goto(h, from, to) == pc[h] = from /\ pc' = [pc EXCEPT ![h] = to]

-----------------------------------------------------------------------------
(* Store.ApplyOps: SQLite rewrites pages of state.db in place, under its write
   lock, before the transaction counts as committed. *)

BeginWrite(h) ==
    /\ Goto(h, "idle", "commit")
    /\ db < MaxVersion
    /\ \A g \in Handlers : pc[g] # "commit"
    /\ dbFile' = Torn
    /\ status' = [status EXCEPT ![h] = "none"]
    /\ UNCHANGED <<db, snapFile, git, batch, tree, copy, events, restarts>>

Commit(h) ==
    /\ Goto(h, "commit", "reload")
    /\ db' = db + 1
    /\ dbFile' = db + 1
    /\ batch' = [batch EXCEPT ![h] = db + 1]
    /\ UNCHANGED <<snapFile, git, tree, copy, status, events, restarts>>

CommitFailsAnnounced(h) ==                                      \* mutant
    /\ Goto(h, "commit", "broadcast")
    /\ dbFile' = db
    /\ status' = [status EXCEPT ![h] = "error"]
    /\ UNCHANGED <<db, snapFile, git, batch, tree, copy, events, restarts>>
CommitFails(h) ==
    /\ Goto(h, "commit", "idle")
    /\ dbFile' = db
    /\ status' = [status EXCEPT ![h] = "error"]
    /\ UNCHANGED <<db, snapFile, git, batch, tree, copy, events, restarts>>

(* The LoadTree that follows the commit. *)
Reload(h) ==
    /\ Goto(h, "reload", "create")
    /\ tree' = [tree EXCEPT ![h] = db]
    /\ UNCHANGED <<files, git, batch, copy, status, events, restarts>>

(* Its failure is reported as STORAGE_ERROR, though the batch is durable:
   neither snapshot nor commit nor event follows. *)
ReloadFailsIgnored(h) ==                                        \* mutant
    /\ Goto(h, "reload", "create")
    /\ tree' = [tree EXCEPT ![h] = Missing]
    /\ UNCHANGED <<files, git, batch, copy, status, events, restarts>>
ReloadFails(h) ==
    /\ Goto(h, "reload", "idle")
    /\ status' = [status EXCEPT ![h] = "error"]
    /\ UNCHANGED <<files, git, batch, tree, copy, events, restarts>>

-----------------------------------------------------------------------------
(* writeSnapshot *)

Pending(h) == status' = [status EXCEPT ![h] = "pending"]

CreateSnapshot(h) ==
    /\ Goto(h, "create", "encode")
    /\ snapFile' = Torn
    /\ UNCHANGED <<db, dbFile, git, local, events, restarts>>

(* The encoder writes from the start of the file.  When another handler has the
   file open as well, or has just written it, bytes of both may remain. *)
EncodeSnapshot(h) ==
    /\ Goto(h, "encode", "add_db")
    /\ snapFile' \in {tree[h]} \cup (IF snapFile \in {Torn, tree[h]} THEN {} ELSE {Torn})
    /\ UNCHANGED <<db, dbFile, git, local, events, restarts>>

CreateFailsIgnored(h) ==                                        \* mutant
    /\ Goto(h, "create", "add_db")
    /\ UNCHANGED <<files, git, local, events, restarts>>
CreateFails(h) ==
    /\ Goto(h, "create", "broadcast")
    /\ Pending(h)
    /\ UNCHANGED <<files, git, batch, tree, copy, events, restarts>>

EncodeFailsIgnored(h) ==                                        \* mutant
    /\ Goto(h, "encode", "add_db")
    /\ snapFile' = Torn
    /\ UNCHANGED <<db, dbFile, git, local, events, restarts>>
EncodeFails(h) ==
    /\ Goto(h, "encode", "broadcast")
    /\ Pending(h)
    /\ snapFile' = Torn
    /\ UNCHANGED <<db, dbFile, git, batch, tree, copy, events, restarts>>

-----------------------------------------------------------------------------
(* Repo.Commit: each wt.Add reads the index and the file, then writes the whole
   index; wt.Commit reads HEAD and the index, then moves HEAD. *)

AddDb(h) ==
    /\ Goto(h, "add_db", "add_db_write")
    /\ copy' = [copy EXCEPT ![h].index = [index EXCEPT !.db = dbFile]]
    /\ UNCHANGED <<files, git, batch, tree, status, events, restarts>>

AddSnapshot(h) ==
    /\ Goto(h, "add_snap", "add_snap_write")
    /\ copy' = [copy EXCEPT ![h].index = [index EXCEPT !.snap = snapFile]]
    /\ UNCHANGED <<files, git, batch, tree, status, events, restarts>>

WriteIndex(h) ==
    /\ Goto(h, "add_db_write", "add_snap") \/ Goto(h, "add_snap_write", "build")
    /\ index' = copy[h].index
    /\ UNCHANGED <<files, head, local, events, restarts>>

BuildCommitAmends(h) ==                                         \* mutant
    /\ Goto(h, "build", "update_head")
    /\ head # <<>> => Last(head) # index
    /\ copy' = [copy EXCEPT ![h] = [index |-> index,
                                   head |-> IF head = <<>> THEN head ELSE Front(head)]]
    /\ UNCHANGED <<files, git, batch, tree, status, events, restarts>>
BuildCommit(h) ==
    /\ Goto(h, "build", "update_head")
    /\ head # <<>> => Last(head) # index     \* go-git refuses an empty commit
    /\ copy' = [copy EXCEPT ![h] = [index |-> index, head |-> head]]
    /\ UNCHANGED <<files, git, batch, tree, status, events, restarts>>

UpdateHead(h) ==
    /\ Goto(h, "update_head", "broadcast")
    /\ head' = Append(copy[h].head, copy[h].index)
    /\ status' = [status EXCEPT ![h] = "committed"]
    /\ UNCHANGED <<files, index, batch, tree, copy, events, restarts>>

(* Any of these may fail; the error is logged and the reply says pending. *)
GitFailsIgnored(h) ==                                           \* mutant
    /\ \E from \in {"add_db", "add_db_write", "add_snap", "add_snap_write", "build",
                    "update_head"} : Goto(h, from, "broadcast")
    /\ status' = [status EXCEPT ![h] = "committed"]
    /\ UNCHANGED <<files, git, batch, tree, copy, events, restarts>>
GitFails(h) ==
    /\ \E from \in {"add_db", "add_db_write", "add_snap", "add_snap_write", "build",
                    "update_head"} : Goto(h, from, "broadcast")
    /\ Pending(h)
    /\ UNCHANGED <<files, git, batch, tree, copy, events, restarts>>

-----------------------------------------------------------------------------
(* broadcastTreeChanged and the reply: whatever became of snapshot and commit *)
BroadcastCommitted(h) ==                                        \* mutant
    /\ Goto(h, "broadcast", "idle")
    /\ status[h] = "committed"
    /\ events' = Append(events, tree[h])
    /\ UNCHANGED <<files, git, local, restarts>>
Broadcast(h) ==
    /\ Goto(h, "broadcast", "idle")
    /\ events' = Append(events, tree[h])
    /\ UNCHANGED <<files, git, local, restarts>>

(* The daemon dies and starts again.  SQLite rolls a half-written batch back
   from its journal; nothing looks at snapshot.json, the index or HEAD. *)
Restart ==
    /\ restarts < MaxRestarts
    /\ restarts' = restarts + 1
    /\ dbFile' = db
    /\ pc' = [h \in Handlers |-> "idle"]
    /\ status' = [h \in Handlers |-> "none"]
    /\ UNCHANGED <<db, snapFile, git, batch, tree, copy, events>>

Step(h) ==
    \/ Commit(h) \/ CommitFails(h) \/ Reload(h) \/ ReloadFails(h)
    \/ CreateSnapshot(h) \/ CreateFails(h) \/ EncodeSnapshot(h) \/ EncodeFails(h)
    \/ AddDb(h) \/ AddSnapshot(h) \/ WriteIndex(h) \/ BuildCommit(h) \/ UpdateHead(h)
    \/ GitFails(h) \/ Broadcast(h)

Next == (\E h \in Handlers : BeginWrite(h) \/ Step(h)) \/ Restart
Spec == Init /\ [][Next]_vars
FairSpec == Spec /\ \A h \in Handlers : WF_vars(Step(h))

-----------------------------------------------------------------------------
(* The state has the types of the files and variables it stands for. *)
TypeOK ==
    /\ db \in Versions /\ dbFile \in Contents /\ snapFile \in Contents
    /\ index \in Entries /\ head \in Seq(Entries)
    /\ pc \in [Handlers -> Places]
    /\ batch \in [Handlers -> Versions] /\ tree \in [Handlers -> Versions]
    /\ copy \in [Handlers -> [index : Entries, head : Seq(Entries)]]
    /\ status \in [Handlers -> Statuses]
    /\ events \in Seq(Versions) /\ restarts \in 0 .. MaxRestarts

(* Every commit of the history has state.db and snapshot.json of one and the
   same version (docs/design_doc_v1.md:225).  Holds while one client is connected. *)
CommitsCoherent == \A k \in DOMAIN head : head[k].db \in Versions /\ head[k].snap = head[k].db

(* No commit is dropped from the history: docs/supplementary_design_doc.md:77
   "After each `s0f add` or `move`, a new commit appears".  Holds while one client
   is connected. *)
HistoryKept == [][IsPrefix(head, head')]_head

(* A reply that says committed is right: the history holds the batch. *)
CommittedIsInHistory == \A h \in Handlers :
    status[h] = "committed" => \E k \in DOMAIN head : head[k].db >= batch[h]

(* The snapshot is the committed tree when no handler is at work and the last
   step of writing it did not fail (design_doc_v1.md 4.5). *)
SnapshotCurrent ==
    (\A h \in Handlers : pc[h] = "idle" /\ status[h] = "committed") => snapFile = db

(* What the commits HEAD reaches have of state.db, and the events, are a journal. *)
J == INSTANCE Journal WITH
        version <- db, history <- [k \in DOMAIN head |-> head[k].db], announced <- events

(* Through all the steps of writing, staging and committing, any of which may fail
   or be the last one of a daemon, a batch is recorded at most once, before its
   event, and its event is sent at most once, before the next batch is durable
   (rpc.go:54-79).  Holds while one client is connected. *)
KeepsJournal == J!Spec

(* Every request that got the write lock is answered, whatever fails on the way
   (or lost with the daemon). *)
EveryRequestEnds == \A h \in Handlers : pc[h] # "idle" ~> pc[h] = "idle"
=============================================================================
