--------------------------- MODULE PublishProofs ---------------------------
(***************************************************************************)
(* Proofs about Publish: the types for any number of clients, and, for the *)
(* one client the properties are about, that commits are coherent and      *)
(* never dropped, that a reply that says committed is right, and that the  *)
(* history and the events are the journal of module Journal.  Any step may *)
(* fail and the daemon may die at any time.                                *)
(***************************************************************************)
EXTENDS Publish, SequenceTheorems, TLAPS

OneClient == \E h \in Handlers : Handlers = {h}

(* A transaction that is being written has the write lock to itself, and room for
   the version it makes. *)
Writing == \A h \in Handlers : pc[h] = "commit" =>
              db < MaxVersion /\ \A g \in Handlers : pc[g] = "commit" => g = h

-----------------------------------------------------------------------------
(* The types *)

LEMMA InitTyped == Init => TypeOK /\ Writing
  <1> SUFFICES ASSUME Init PROVE TypeOK /\ Writing
    OBVIOUS
  <1> USE PublishConstants
  <1>1. index \in Entries /\ head \in Seq(Entries) /\ copy \in [Handlers -> [index : Entries, head : Seq(Entries)]]
    BY DEF Init, Entries, Contents
  <1> QED BY <1>1 DEF Init, TypeOK, Writing, Versions, Contents, Places, Statuses

LEMMA TypedStep == TypeOK /\ Writing /\ [Next]_vars => TypeOK' /\ Writing'
  <1> SUFFICES ASSUME TypeOK, Writing, [Next]_vars PROVE TypeOK' /\ Writing'
    OBVIOUS
  <1> USE PublishConstants DEF TypeOK
  <1>1. ASSUME NEW h \in Handlers, BeginWrite(h) PROVE TypeOK' /\ Writing'
    BY <1>1 DEF BeginWrite, Goto, Writing, git, Places, Statuses, Contents
  <1>2. ASSUME NEW h \in Handlers, Commit(h) PROVE TypeOK' /\ Writing'
    BY <1>2 DEF Commit, Goto, Writing, git, Places, Contents, Versions
  <1>3. ASSUME NEW h \in Handlers, CommitFails(h) PROVE TypeOK' /\ Writing'
    BY <1>3 DEF CommitFails, Goto, Writing, git, Places, Statuses, Contents, Versions
  <1>4. ASSUME NEW h \in Handlers, Reload(h) \/ ReloadFails(h) \/ CreateFails(h) \/ GitFails(h)
        PROVE  TypeOK' /\ Writing'
    BY <1>4 DEF Reload, ReloadFails, CreateFails, GitFails, Pending, Goto, Writing, git, files,
                Places, Statuses
  <1>5. ASSUME NEW h \in Handlers, CreateSnapshot(h) \/ EncodeSnapshot(h) \/ EncodeFails(h)
        PROVE  TypeOK' /\ Writing'
    <2>1. tree[h] \in Contents /\ Torn \in Contents
      BY DEF Contents
    <2>2. snapFile' \in Contents
      BY <1>5, <2>1 DEF CreateSnapshot, EncodeSnapshot, EncodeFails
    <2>3. pc' \in [Handlers -> Places] /\ Writing'
      BY <1>5 DEF CreateSnapshot, EncodeSnapshot, EncodeFails, Goto, Writing, Places
    <2>4. status' \in [Handlers -> Statuses]
      BY <1>5 DEF CreateSnapshot, EncodeSnapshot, EncodeFails, Pending, local, Statuses
    <2> QED
      BY <1>5, <2>2, <2>3, <2>4 DEF CreateSnapshot, EncodeSnapshot, EncodeFails, git, local
  <1>6. ASSUME NEW h \in Handlers, AddDb(h) \/ AddSnapshot(h) PROVE TypeOK' /\ Writing'
    <2>1. PICK i \in Entries : copy' = [copy EXCEPT ![h].index = i]
      BY <1>6 DEF AddDb, AddSnapshot, Entries
    <2>2. [copy[h] EXCEPT !.index = i] \in [index : Entries, head : Seq(Entries)]
      OBVIOUS
    <2>3. copy' \in [Handlers -> [index : Entries, head : Seq(Entries)]]
      BY <2>1, <2>2
    <2>4. pc' \in [Handlers -> Places] /\ Writing'
      BY <1>6 DEF AddDb, AddSnapshot, Goto, Writing, Places, files
    <2> QED
      BY <1>6, <2>3, <2>4 DEF AddDb, AddSnapshot, git, files
  <1>7. ASSUME NEW h \in Handlers, WriteIndex(h) PROVE TypeOK' /\ Writing'
    BY <1>7 DEF WriteIndex, Goto, Writing, files, local, Places, Entries
  <1>8. ASSUME NEW h \in Handlers, BuildCommit(h) PROVE TypeOK' /\ Writing'
    BY <1>8 DEF BuildCommit, Goto, Writing, git, files, Places
  <1>9. ASSUME NEW h \in Handlers, UpdateHead(h) PROVE TypeOK' /\ Writing'
    BY <1>9 DEF UpdateHead, Goto, Writing, files, Places, Statuses
  <1>10. ASSUME NEW h \in Handlers, Broadcast(h) PROVE TypeOK' /\ Writing'
    BY <1>10 DEF Broadcast, Goto, Writing, git, files, local, Places
  <1>11. CASE Restart
    BY <1>11 DEF Restart, Writing, git, Places, Statuses, Contents
  <1>12. CASE UNCHANGED vars
    BY <1>12 DEF vars, files, git, local, Writing
  <1> QED BY <1>1, <1>2, <1>3, <1>4, <1>5, <1>6, <1>7, <1>8, <1>9, <1>10, <1>11, <1>12
          DEF Next, Step

(* For any number of clients, files, index and history hold contents of the declared
   kinds, and versions stay within their bound. *)
THEOREM PublishTypeCorrect == Spec => []TypeOK
  <1>1. Spec => [](TypeOK /\ Writing)
    BY InitTyped, TypedStep, PTL DEF Spec
  <1> QED BY <1>1, PTL

-----------------------------------------------------------------------------
(* One client.  What holds at each step of its handler of the files, of what it has
   read, of the history and the events, and of its last reply. *)

Staging == {"add_db", "add_db_write", "add_snap", "add_snap_write", "build", "update_head"}
Loaded  == Staging \cup {"create", "encode", "broadcast"}
Durable == Loaded \cup {"reload"}

Recorded == [k \in DOMAIN head |-> head[k].db]
Both     == [db |-> db, snap |-> db]     \* what the next commit is to hold

NewestRecord == J!Newest(Recorded)
NewestEvent  == J!Newest(events)

Files == \A h \in Handlers :
    /\ pc[h] # "commit" => dbFile = db
    /\ pc[h] = "encode" => snapFile = Torn
    /\ pc[h] \in Staging => snapFile = db

Holds == \A h \in Handlers :
    /\ pc[h] \in Loaded => tree[h] = db
    /\ pc[h] \in Durable => batch[h] = db

Staged == \A h \in Handlers :
    /\ pc[h] = "add_db_write" => copy[h].index.db = db
    /\ pc[h] = "add_snap" => index.db = db
    /\ pc[h] = "add_snap_write" => copy[h].index = Both
    /\ pc[h] = "build" => index = Both
    /\ pc[h] = "update_head" => copy[h] = [index |-> Both, head |-> head]

NotYet == \A h \in Handlers :
    /\ NewestRecord \in Int /\ NewestRecord <= db
    /\ NewestEvent \in Int /\ NewestEvent <= db
    /\ pc[h] \in Durable \ {"broadcast"} => NewestRecord < db
    /\ pc[h] \in Durable => NewestEvent < db

Honest == \A h \in Handlers : status[h] = "committed" =>
    /\ pc[h] \in {"idle", "broadcast"}
    /\ head # <<>> /\ Last(head).db = batch[h]
    /\ batch[h] = db /\ snapFile = db

PublishInv == Files /\ Holds /\ Staged /\ CommitsCoherent /\ NotYet /\ Honest

LEMMA InitInv == ASSUME Init PROVE PublishInv
  <1>1. Recorded = <<>> /\ events = <<>>
    BY DEF Init, Recorded
  <1>2. NotYet
    BY <1>1 DEF Init, NotYet, NewestRecord, NewestEvent, J!Newest, Durable, Loaded, Staging
  <1> QED
    BY <1>2 DEF Init, PublishInv, Files, Holds, Staged, CommitsCoherent, Honest,
                Durable, Loaded, Staging

(* What a commit adds to the history is what it adds to the recorded versions. *)
LEMMA RecordedAppend ==
  ASSUME NEW s \in Seq(Entries), NEW e \in Entries
  PROVE  /\ [k \in DOMAIN Append(s, e) |-> Append(s, e)[k].db]
              = Append([k \in DOMAIN s |-> s[k].db], e.db)
         /\ [k \in DOMAIN s |-> s[k].db] \in Seq(Contents)
         /\ Append([k \in DOMAIN s |-> s[k].db], e.db) # <<>>
         /\ J!Newest(Append([k \in DOMAIN s |-> s[k].db], e.db)) = e.db
  <1> DEFINE d == [k \in DOMAIN s |-> s[k].db]
  <1>1. DOMAIN s = 1 .. Len(s) /\ Len(s) \in Nat /\ \A k \in 1 .. Len(s) : s[k] \in Entries
    OBVIOUS
  <1>2. \A k \in 1 .. Len(s) : s[k].db \in Contents
    BY <1>1 DEF Entries
  <1>3. d \in Seq(Contents) /\ Len(d) = Len(s)
    <2>1. d = [k \in 1 .. Len(s) |-> s[k].db]
      BY <1>1
    <2>2. d \in [1 .. Len(s) -> Contents]
      BY <2>1, <1>2
    <2>3. d \in Seq(Contents)
      BY <1>1, <2>2, IsASeq
    <2> QED BY <1>1, <2>1, <2>3, LenProperties
  <1>4. \A k \in 1 .. Len(s) : d[k] = s[k].db
    OBVIOUS
  <1>5. e.db \in Contents
    BY DEF Entries
  <1> HIDE DEF d
  <1>6. Append(d, e.db) \in Seq(Contents) /\ Len(Append(d, e.db)) = Len(s) + 1
    BY <1>3, <1>5
  <1>7. \A k \in 1 .. Len(s) + 1 : Append(d, e.db)[k] = Append(s, e)[k].db
    BY <1>1, <1>3, <1>4, <1>5
  <1>8. DOMAIN Append(s, e) = 1 .. Len(s) + 1 /\ DOMAIN Append(d, e.db) = 1 .. Len(s) + 1
    BY <1>3, <1>5, <1>6
  <1>9. [k \in DOMAIN Append(s, e) |-> Append(s, e)[k].db] = Append(d, e.db)
    BY <1>6, <1>7, <1>8
  <1>10. Append(d, e.db) # <<>> /\ J!Newest(Append(d, e.db)) = e.db
    BY <1>3, <1>5, <1>6 DEF J!Newest
  <1> QED
    BY <1>3, <1>9, <1>10 DEF d

LEMMA NewestAppend ==
  ASSUME NEW s \in Seq(Versions), NEW v \in Versions
  PROVE  Append(s, v) # <<>> /\ J!Newest(Append(s, v)) = v
  BY DEF J!Newest

(* Steps that change neither file, index, history nor events. *)
LEMMA InvLocalStep ==
  ASSUME NEW c \in Handlers, Handlers = {c}, TypeOK, PublishInv, TypeOK',
         Reload(c) \/ ReloadFails(c) \/ CreateFails(c) \/ GitFails(c)
  PROVE  PublishInv'
  <1>1. UNCHANGED <<db, dbFile, snapFile, index, head, copy, events, batch>>
    BY DEF Reload, ReloadFails, CreateFails, GitFails, git, files
  <1> USE DEF Reload, ReloadFails, CreateFails, GitFails, Pending, Goto
  <1>2. Files'
    BY <1>1 DEF TypeOK, PublishInv, Files, Staging
  <1>3. Holds'
    BY <1>1 DEF TypeOK, PublishInv, Holds, Durable, Loaded, Staging
  <1>4. Staged'
    BY <1>1 DEF TypeOK, PublishInv, Staged, Both
  <1>5. CommitsCoherent'
    BY <1>1 DEF PublishInv, CommitsCoherent
  <1>6. NewestRecord' = NewestRecord /\ NewestEvent' = NewestEvent
    BY <1>1 DEF NewestRecord, NewestEvent, Recorded
  <1>7. NotYet'
    BY <1>1, <1>6 DEF TypeOK, PublishInv, NotYet, Durable, Loaded, Staging
  <1>8. Honest'
    BY <1>1 DEF TypeOK, PublishInv, Honest
  <1> QED BY <1>2, <1>3, <1>4, <1>5, <1>7, <1>8 DEF PublishInv

(* Steps that write state.db or snapshot.json. *)
LEMMA InvFileStep ==
  ASSUME NEW c \in Handlers, Handlers = {c}, TypeOK, PublishInv, TypeOK',
         \/ BeginWrite(c) \/ Commit(c) \/ CommitFails(c)
         \/ CreateSnapshot(c) \/ EncodeSnapshot(c) \/ EncodeFails(c)
  PROVE  PublishInv'
  <1>1. UNCHANGED <<index, head, copy, events, tree>>
    BY DEF BeginWrite, Commit, CommitFails, CreateSnapshot, EncodeSnapshot, EncodeFails,
           git, local
  <1> USE DEF BeginWrite, Commit, CommitFails, CreateSnapshot, EncodeSnapshot, EncodeFails,
              Pending, Goto, local
  <1>2. Files'
    BY <1>1 DEF TypeOK, PublishInv, Files, Holds, Loaded, Staging
  <1>3. Holds'
    BY <1>1 DEF TypeOK, PublishInv, Holds, Durable, Loaded, Staging
  <1>4. Staged'
    BY <1>1 DEF TypeOK, PublishInv, Staged, Both
  <1>5. CommitsCoherent'
    BY <1>1 DEF PublishInv, CommitsCoherent
  <1>6. NewestRecord' = NewestRecord /\ NewestEvent' = NewestEvent
    BY <1>1 DEF NewestRecord, NewestEvent, Recorded
  <1>7. db \in Int /\ db' \in {db, db + 1} /\ (db' # db => Commit(c))
    BY DEF TypeOK, Versions
  <1>8. NotYet'
    BY <1>1, <1>6, <1>7 DEF TypeOK, PublishInv, NotYet, Durable, Loaded, Staging
  <1>9. Honest'
    BY <1>1 DEF TypeOK, PublishInv, Honest
  <1> QED BY <1>2, <1>3, <1>4, <1>5, <1>8, <1>9 DEF PublishInv

(* Steps of Repo.Commit that read and write the index. *)
LEMMA InvIndexStep ==
  ASSUME NEW c \in Handlers, Handlers = {c}, TypeOK, PublishInv, TypeOK',
         AddDb(c) \/ AddSnapshot(c) \/ WriteIndex(c) \/ BuildCommit(c)
  PROVE  PublishInv'
  <1>1. UNCHANGED <<db, dbFile, snapFile, head, events, tree, batch, status>>
    BY DEF AddDb, AddSnapshot, WriteIndex, BuildCommit, git, files, local
  <1>2. pc[c] \in Staging /\ pc' \in [Handlers -> Staging]
    BY DEF AddDb, AddSnapshot, WriteIndex, BuildCommit, Goto, TypeOK, Staging
  <1>3. Files'
    BY <1>1, <1>2 DEF PublishInv, Files, Staging
  <1>4. Holds'
    BY <1>1, <1>2 DEF PublishInv, Holds, Durable, Loaded
  <1>5. Staged'
    <2>1. dbFile = db /\ snapFile = db
      BY <1>2 DEF PublishInv, Files, Staging
    <2>2. CASE AddDb(c)
      BY <1>1, <2>1, <2>2 DEF AddDb, Goto, TypeOK, Entries, PublishInv, Staged
    <2>3. CASE AddSnapshot(c)
      <3>1. [index EXCEPT !.snap = snapFile] = Both
        BY <2>1, <2>3 DEF AddSnapshot, Goto, TypeOK, Entries, PublishInv, Staged, Both
      <3>2. copy'[c].index = Both
        BY <2>3, <3>1 DEF AddSnapshot, TypeOK
      <3>3. pc'[c] = "add_snap_write" /\ Both' = Both
        BY <1>1, <2>3 DEF AddSnapshot, Goto, TypeOK, Both
      <3> QED BY <3>2, <3>3 DEF Staged
    <2>4. CASE WriteIndex(c)
      <3>1. Both' = Both /\ Both.db = db
        BY <1>1 DEF Both
      <3> QED BY <1>1, <2>4, <3>1 DEF WriteIndex, Goto, TypeOK, PublishInv, Staged
    <2>5. CASE BuildCommit(c)
      <3>1. Both' = Both
        BY <1>1 DEF Both
      <3> QED BY <1>1, <2>5, <3>1 DEF BuildCommit, Goto, TypeOK, PublishInv, Staged
    <2> QED BY <2>2, <2>3, <2>4, <2>5
  <1>6. CommitsCoherent'
    BY <1>1 DEF PublishInv, CommitsCoherent
  <1>7. NewestRecord' = NewestRecord /\ NewestEvent' = NewestEvent
    BY <1>1 DEF NewestRecord, NewestEvent, Recorded
  <1>8. NotYet'
    BY <1>1, <1>2, <1>7 DEF PublishInv, NotYet, Durable, Loaded, Staging
  <1>9. Honest'
    BY <1>1, <1>2 DEF PublishInv, Honest, Staging
  <1> QED BY <1>3, <1>4, <1>5, <1>6, <1>8, <1>9 DEF PublishInv

(* The commit. *)
LEMMA InvUpdateHead ==
  ASSUME NEW c \in Handlers, Handlers = {c}, TypeOK, PublishInv, TypeOK', UpdateHead(c)
  PROVE  /\ PublishInv'
         /\ head' = Append(head, Both)
         /\ Recorded' = Append(Recorded, db)
         /\ db > NewestRecord /\ db > NewestEvent
  <1>1. UNCHANGED <<db, dbFile, snapFile, index, copy, events, tree, batch>>
    BY DEF UpdateHead, files
  <1>2. pc[c] = "update_head" /\ pc' = [pc EXCEPT ![c] = "broadcast"] /\ pc'[c] = "broadcast"
    BY DEF UpdateHead, Goto, TypeOK
  <1>3. copy[c] = [index |-> Both, head |-> head]
    BY <1>2 DEF PublishInv, Staged
  <1>4. head' = Append(head, Both)
    BY <1>3 DEF UpdateHead
  <1>5. Both \in Entries /\ Both.db = db /\ Both.snap = db /\ db \in Versions /\ db \in Int
    BY DEF Both, Entries, TypeOK, Contents, Versions
  <1>6. head \in Seq(Entries) /\ head' \in Seq(Entries)
    BY DEF TypeOK
  <1>7. Recorded' = Append(Recorded, db) /\ NewestRecord' = db
    <2>1. [k \in DOMAIN Append(head, Both) |-> Append(head, Both)[k].db] = Append(Recorded, db)
      BY <1>5, <1>6, RecordedAppend DEF Recorded
    <2>2. Recorded' = [k \in DOMAIN Append(head, Both) |-> Append(head, Both)[k].db]
      BY <1>4 DEF Recorded
    <2>3. Recorded' = Append(Recorded, db)
      BY <2>1, <2>2
    <2>4. J!Newest(Append(Recorded, db)) = db
      BY <1>5, <1>6, RecordedAppend DEF Recorded
    <2> HIDE DEF Recorded
    <2> QED BY <2>3, <2>4 DEF NewestRecord
  <1>8. NewestEvent' = NewestEvent
    BY <1>1 DEF NewestEvent
  <1>9. batch[c] = db /\ tree[c] = db /\ snapFile = db /\ dbFile = db
    BY <1>2 DEF PublishInv, Holds, Files, Durable, Loaded, Staging
  <1>10. NewestRecord < db /\ NewestEvent < db /\ NewestEvent \in Int
    BY <1>2 DEF PublishInv, NotYet, Durable, Loaded, Staging
  <1>11. Len(head') = Len(head) + 1 /\ Last(head') = Both /\ head' # <<>>
    BY <1>4, <1>5, <1>6, AppendProperties DEF Last
  <1>12. \A k \in 1 .. Len(head) : head'[k] = head[k]
    BY <1>4, <1>5, <1>6, AppendProperties
  <1>13. Files' /\ Holds'
    BY <1>1, <1>2, <1>9 DEF Files, Holds, Staging
  <1>14. Staged'
    BY <1>2 DEF Staged
  <1>15. CommitsCoherent'
    <2>1. DOMAIN head = 1 .. Len(head) /\ DOMAIN head' = 1 .. Len(head) + 1 /\ Len(head) \in Nat
      BY <1>6, <1>11
    <2>2. head'[Len(head) + 1] = Both
      BY <1>11 DEF Last
    <2>3. ASSUME NEW k \in DOMAIN head'
          PROVE  head'[k].db \in Versions /\ head'[k].snap = head'[k].db
      BY <1>5, <1>12, <2>1, <2>2, <2>3 DEF PublishInv, CommitsCoherent
    <2> QED BY <2>3 DEF CommitsCoherent, Versions
  <1>16. NotYet'
    BY <1>1, <1>2, <1>5, <1>7, <1>8, <1>10 DEF NotYet, Durable, Loaded
  <1>17. Honest'
    BY <1>1, <1>2, <1>5, <1>9, <1>11 DEF Honest
  <1> QED BY <1>4, <1>5, <1>7, <1>10, <1>13, <1>14, <1>15, <1>16, <1>17 DEF PublishInv

(* The event. *)
LEMMA InvBroadcast ==
  ASSUME NEW c \in Handlers, Handlers = {c}, TypeOK, PublishInv, TypeOK', Broadcast(c)
  PROVE  /\ PublishInv'
         /\ events' = Append(events, db)
         /\ db > NewestEvent
  <1>1. UNCHANGED <<db, dbFile, snapFile, index, head, batch, tree, copy, status>>
    BY DEF Broadcast, files, git, local
  <1>2. pc[c] = "broadcast" /\ pc'[c] = "idle"
    BY DEF Broadcast, Goto, TypeOK
  <1>3. tree[c] = db /\ db > NewestEvent
    BY <1>2 DEF PublishInv, Holds, NotYet, TypeOK, Versions, Durable, Loaded
  <1>4. events' = Append(events, db)
    BY <1>3 DEF Broadcast
  <1>5. NewestRecord' = NewestRecord /\ NewestEvent' = db /\ db \in Int
    BY <1>1, <1>4, NewestAppend DEF NewestRecord, NewestEvent, Recorded, TypeOK, Versions
  <1>6. Files' /\ Holds' /\ Staged'
    BY <1>1, <1>2 DEF PublishInv, Files, Holds, Staged, Durable, Loaded, Staging
  <1>7. CommitsCoherent' /\ Honest'
    BY <1>1, <1>2 DEF PublishInv, CommitsCoherent, Honest
  <1>8. NotYet'
    BY <1>1, <1>2, <1>5 DEF PublishInv, NotYet, Durable, Loaded, Staging
  <1> QED BY <1>3, <1>4, <1>6, <1>7, <1>8 DEF PublishInv

LEMMA InvRestart == ASSUME TypeOK, PublishInv, Restart PROVE PublishInv'
  <1>1. UNCHANGED <<db, snapFile, index, head, batch, tree, copy, events>> /\ dbFile' = db
    BY DEF Restart, git
  <1>2. \A h \in Handlers : pc'[h] = "idle" /\ status'[h] = "none"
    BY DEF Restart
  <1>3. Files' /\ Holds' /\ Staged' /\ Honest'
    BY <1>1, <1>2 DEF Files, Holds, Staged, Honest, Durable, Loaded, Staging
  <1>4. CommitsCoherent'
    BY <1>1 DEF PublishInv, CommitsCoherent
  <1>5. NewestRecord' = NewestRecord /\ NewestEvent' = NewestEvent
    BY <1>1 DEF NewestRecord, NewestEvent, Recorded
  <1>6. NotYet'
    BY <1>1, <1>2, <1>5 DEF PublishInv, NotYet, Durable, Loaded, Staging
  <1> QED BY <1>3, <1>4, <1>6 DEF PublishInv

LEMMA InvStutter == ASSUME PublishInv, UNCHANGED vars PROVE PublishInv'
  <1>1. UNCHANGED <<db, dbFile, snapFile, index, head, pc, batch, tree, copy, status, events>>
    BY DEF vars, files, git, local
  <1> QED
    BY <1>1 DEF PublishInv, Files, Holds, Staged, CommitsCoherent, NotYet, Honest,
                NewestRecord, NewestEvent, Recorded, Both, Durable, Loaded, Staging

-----------------------------------------------------------------------------
(* What the handler of the only client can do, and nothing else. *)
LEMMA OneStep ==
  ASSUME NEW c \in Handlers, Handlers = {c}, Next
  PROVE  \/ BeginWrite(c) \/ Commit(c) \/ CommitFails(c)
         \/ CreateSnapshot(c) \/ EncodeSnapshot(c) \/ EncodeFails(c)
         \/ Reload(c) \/ ReloadFails(c) \/ CreateFails(c) \/ GitFails(c)
         \/ AddDb(c) \/ AddSnapshot(c) \/ WriteIndex(c) \/ BuildCommit(c)
         \/ UpdateHead(c) \/ Broadcast(c) \/ Restart
  BY DEF Next, Step

LEMMA InvStep == ASSUME OneClient PROVE TypeOK /\ TypeOK' /\ PublishInv /\ [Next]_vars => PublishInv'
  <1> PICK c \in Handlers : Handlers = {c}
    BY DEF OneClient
  <1> SUFFICES ASSUME TypeOK, TypeOK', PublishInv, [Next]_vars PROVE PublishInv'
    OBVIOUS
  <1>1. CASE UNCHANGED vars
    BY <1>1, InvStutter
  <1>2. CASE Next
    BY <1>2, OneStep, InvFileStep, InvLocalStep, InvIndexStep, InvUpdateHead, InvBroadcast, InvRestart
  <1> QED BY <1>1, <1>2

LEMMA PublishInvariant == ASSUME OneClient PROVE Spec => [](TypeOK /\ PublishInv)
  <1>1. Spec => []TypeOK
    BY PublishTypeCorrect
  <1>2. Init => PublishInv
    BY InitInv
  <1>3. TypeOK /\ TypeOK' /\ PublishInv /\ [Next]_vars => PublishInv'
    BY InvStep
  <1> QED BY <1>1, <1>2, <1>3, PTL DEF Spec

(* With one client connected every commit has state.db and snapshot.json of one version
   (rpc.go:54-79, git.go Repo.Commit). *)
THEOREM CommitsAreCoherent == ASSUME OneClient PROVE Spec => []CommitsCoherent
  <1>1. PublishInv => CommitsCoherent
    BY DEF PublishInv
  <1> QED BY <1>1, PublishInvariant, PTL

(* A reply that says committed is right, whatever failed before it. *)
THEOREM CommittedIsRight == ASSUME OneClient PROVE Spec => []CommittedIsInHistory
  <1>1. TypeOK /\ PublishInv => CommittedIsInHistory
    <2> SUFFICES ASSUME TypeOK, PublishInv, NEW h \in Handlers, status[h] = "committed"
                 PROVE  \E k \in DOMAIN head : head[k].db >= batch[h]
      BY DEF CommittedIsInHistory
    <2>1. head \in Seq(Entries) /\ head # <<>> /\ head[Len(head)].db = batch[h] /\ batch[h] \in Int
      BY DEF PublishInv, Honest, TypeOK, Versions, Last
    <2>2. Len(head) \in DOMAIN head
      BY <2>1
    <2> QED BY <2>1, <2>2
  <1> QED BY <1>1, PublishInvariant, PTL

(* After a batch that was answered committed the snapshot is the tree. *)
THEOREM SnapshotIsCurrent == ASSUME OneClient PROVE Spec => []SnapshotCurrent
  <1>1. PublishInv => SnapshotCurrent
    BY DEF PublishInv, Honest, SnapshotCurrent, OneClient
  <1> QED BY <1>1, PublishInvariant, PTL

(* No commit is ever dropped from the history or changed. *)
THEOREM HistoryIsKept == ASSUME OneClient PROVE Spec => HistoryKept
  <1> PICK c \in Handlers : Handlers = {c}
    BY DEF OneClient
  <1>1. TypeOK /\ TypeOK' /\ PublishInv /\ [Next]_vars => [IsPrefix(head, head')]_head
    <2> SUFFICES ASSUME TypeOK, TypeOK', PublishInv, Next, head' # head
                 PROVE  IsPrefix(head, head')
      BY DEF vars, git
    <2>1. UpdateHead(c)
      BY OneStep DEF BeginWrite, Commit, CommitFails, CreateSnapshot, EncodeSnapshot, EncodeFails,
                     Reload, ReloadFails, CreateFails, GitFails, AddDb, AddSnapshot, WriteIndex,
                     BuildCommit, Broadcast, Restart, git
    <2>2. head' = Append(head, Both) /\ head \in Seq(Entries) /\ Both \in Entries
      BY <2>1, InvUpdateHead DEF TypeOK, Both, Entries, Contents
    <2>3. Len(head) <= Len(head') /\ \A k \in 1 .. Len(head) : head'[k] = head[k]
      BY <2>2, AppendProperties
    <2>4. SubSeq(head', 1, Len(head)) = head
      BY <2>2, <2>3
    <2> QED BY <2>3, <2>4 DEF IsPrefix
  <1> QED BY <1>1, PublishInvariant, PTL DEF Spec, HistoryKept

-----------------------------------------------------------------------------
(* The history and the events implement the journal of module Journal: a batch is
   recorded at most once, before its event, and announced at most once, both while
   it is the latest, whichever of the steps between fail. *)
THEOREM JournalIsKept == ASSUME OneClient PROVE Spec => KeepsJournal
  <1> PICK c \in Handlers : Handlers = {c}
    BY DEF OneClient
  <1> DEFINE mapped == <<db, Recorded, events>>
  <1>1. Init => J!Init
    BY DEF Init, J!Init
  <1>2. TypeOK /\ TypeOK' /\ PublishInv /\ [Next]_vars
           => [J!Next]_<<db, [k \in DOMAIN head |-> head[k].db], events>>
    <2> SUFFICES ASSUME TypeOK, TypeOK', PublishInv, [Next]_vars, ~ UNCHANGED mapped
                 PROVE  J!Next
      BY DEF Recorded
    <2>1. head' # head \/ UNCHANGED Recorded
      BY DEF Recorded
    <2>2. Next /\ (Commit(c) \/ UpdateHead(c) \/ Broadcast(c))
      BY <2>1, OneStep
         DEF BeginWrite, CommitFails, CreateSnapshot, EncodeSnapshot, EncodeFails,
             Reload, ReloadFails, CreateFails, GitFails, AddDb, AddSnapshot, WriteIndex,
             BuildCommit, Restart, git, files, local, vars
    <2>3. CASE Commit(c)
      <3>1. db' = db + 1 /\ UNCHANGED <<head, events>>
        BY <2>3 DEF Commit, git
      <3> QED BY <3>1 DEF J!Next, J!Apply
    <2>4. CASE UpdateHead(c)
      <3>1. UNCHANGED <<db, events>>
        BY <2>4 DEF UpdateHead, files
      <3>2. Recorded' = Append(Recorded, db) /\ db > NewestRecord /\ db > NewestEvent
        BY <2>4, InvUpdateHead
      <3> QED BY <3>1, <3>2 DEF J!Next, J!Record, NewestRecord, NewestEvent, Recorded
    <2>5. CASE Broadcast(c)
      <3>1. UNCHANGED <<db, head>>
        BY <2>5 DEF Broadcast, files, git
      <3>2. events' = Append(events, db) /\ db > NewestEvent
        BY <2>5, InvBroadcast
      <3> QED BY <3>1, <3>2 DEF J!Next, J!Announce, NewestEvent
    <2> QED BY <2>2, <2>3, <2>4, <2>5
  <1> QED BY <1>1, <1>2, PublishInvariant, PTL DEF Spec, KeepsJournal, J!Spec
=============================================================================
