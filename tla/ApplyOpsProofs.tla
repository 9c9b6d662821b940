--------------------------- MODULE ApplyOpsProofs ---------------------------
(***************************************************************************)
(* Proofs about ApplyOps for any number of clients, any batches, any       *)
(* initial tree and either setting of the driver's foreign keys: the types *)
(* of the state, and the three invariants of the stored tree that survive  *)
(* the gap between validation and transaction.                             *)
(*                                                                         *)
(* None of them is inductive alone.  IInv adds that one map from ids to    *)
(* kinds fits the committed rows, the writer's rows and every tree a       *)
(* validator holds, and that each validated operation was accepted on the  *)
(* validator's tree of its own position.                                   *)
(***************************************************************************)
EXTENDS ApplyOps, BookmarkTreeProofs, SequenceTheorems

(* Requests, replies, ids and the write lock *)
Typed ==
    /\ nextId \in Nat
    /\ writer \in Handlers \cup {Nil, Stuck}
    /\ ops \in [Handlers -> Batches \cup {<<>>}]
    /\ at \in [Handlers -> Nat]
    /\ reply \in [Handlers -> Replies]
    /\ served \in 0 .. MaxRequests

(* Places and connections: a handler holds one exactly inside a query or a
   transaction. *)
Pooled ==
    /\ free \in Seq(Connections) /\ Len(free) <= MaxIdle
    /\ pc \in [Handlers -> Places]
    /\ conn \in [Handlers -> Connections \cup {Nil}]
    /\ \A h \in Handlers : pc[h] \in Holding <=> conn[h] # Nil

(* The holder of the write lock: a handler in its transaction, or exactly one
   Stuck connection, idle or lent out *)
Locked ==
    /\ writer \in Handlers => pc[writer] = "tx" /\ conn[writer] \in BOOLEAN
    /\ \A k \in DOMAIN free : free[k] = Stuck => writer = Stuck
    /\ \A h \in Handlers : conn[h] = Stuck => writer = Stuck
    /\ writer = Stuck => \/ \E k \in DOMAIN free : free[k] = Stuck
                         \/ \E h \in Handlers : conn[h] = Stuck
    /\ \A j, k \in DOMAIN free : free[j] = Stuck /\ free[k] = Stuck => j = k
    /\ \A g, h \in Handlers : conn[g] = Stuck /\ conn[h] = Stuck => g = h
    /\ \A k \in DOMAIN free, h \in Handlers : ~ (free[k] = Stuck /\ conn[h] = Stuck)

(* A validator's trees: none outside of validation and transaction, then one,
   and one more for each operation accepted so far.  A handler is past
   validation with all of them accepted. *)
Accepted(h) ==
    /\ plan[h] \in Seq({plan[h][k] : k \in DOMAIN plan[h]})
    /\ \A k \in 1 .. Len(plan[h]) - 1 : k <= Len(ops[h]) /\ OpOK(plan[h][k], ops[h][k])
    /\ pc[h] \notin {"validate", "spin", "begin", "tx"} => plan[h] = <<>>
    /\ pc[h] = "validate" => Len(plan[h]) > 0
    /\ pc[h] \in {"begin", "tx"} => Len(plan[h]) = Len(ops[h]) + 1

Plans == DOMAIN plan = Handlers /\ \A h \in Handlers : Accepted(h)

AllFit(K) ==
    /\ Fits(db, K, nextId)
    /\ Fits(work, K, nextId)
    /\ \A h \in Handlers : \A k \in DOMAIN plan[h] : Fits(plan[h][k], K, nextId)

IInv == Typed /\ Pooled /\ Locked /\ Plans /\ \E K \in KindMap : AllFit(K)

-----------------------------------------------------------------------------
(* A sequence is one of its own elements. *)
LEMMA SeqOfElements ==
    ASSUME NEW S, NEW s \in Seq(S)
    PROVE  s \in Seq({s[k] : k \in DOMAIN s})
  OBVIOUS

(* A batch in service is a finite sequence of operations, known or not. *)
LEMMA BatchOps ==
    ASSUME NEW b \in Batches \cup {<<>>}
    PROVE  /\ b \in Seq(Op \cup UnknownOp)
           /\ Len(b) \in Nat
           /\ \A k \in 1 .. Len(b) : b[k] \in Op \cup UnknownOp
  <1>1. <<>> \in Seq(Op \cup UnknownOp)
    OBVIOUS
  <1>2. b \in Seq(Op \cup UnknownOp)
    BY <1>1, ApplyConstants DEF Batch
  <1> HIDE DEF Op, UnknownOp
  <1> QED BY <1>2

(* A tree the database may start with fits the kinds of its own rows. *)
LEMMA InitialFits ==
    ASSUME NEW t \in InitialTrees
    PROVE  \E K \in KindMap : Fits(t, K, FirstId)
  <1> DEFINE K == [i \in Nat |-> IF i \in DOMAIN t THEN t[i].kind ELSE "folder"]
  <1>1. /\ IsTree(t) /\ WellFormed(t) /\ \A n \in DOMAIN t : n < FirstId
        /\ FirstId \in Nat
    BY ApplyConstants
  <1>2. \A m \in DOMAIN t : m \in Nat /\ t[m] \in Row /\ t[m].kind \in Kinds
    BY <1>1 DEF IsTree, Row, Id
  <1>3. K \in KindMap
    BY <1>2 DEF KindMap, Kinds
  <1>4. \A m \in DOMAIN t \ {Root} : t[m].parent \in DOMAIN t
    <2> SUFFICES ASSUME NEW m \in DOMAIN t \ {Root}
                 PROVE  t[m].parent \in DOMAIN t
      OBVIOUS
    <2>1. {m} \in SUBSET (DOMAIN t \ {Root}) /\ {m} # {}
      OBVIOUS
    <2>2. \E n \in {m} : t[n].parent \in DOMAIN t \ {m}
      BY <1>1, <2>1 DEF WellFormed, Rooted
    <2> QED BY <2>2
  <1>5. UnderFolders(t, K, FirstId)
    BY <1>1, <1>2, <1>4 DEF UnderFolders, WellFormed, FolderParents
  <1>6. KindsAgree(t, K) /\ RowsBelow(t, FirstId)
    BY <1>1, <1>2 DEF KindsAgree, RowsBelow
  <1> HIDE DEF K
  <1>7. Fits(t, K, FirstId)
    BY <1>1, <1>5, <1>6 DEF Fits, WellFormed
  <1> QED BY <1>3, <1>7

(* The strengthened invariant holds when the daemon starts (main.go:66-111). *)
LEMMA InitIInv == Init => IInv
  <1> SUFFICES ASSUME Init PROVE IInv
    OBVIOUS
  <1>1. Typed /\ Pooled
    BY ApplyConstants DEF Init, Typed, Pooled, Places, Waiting, Holding, Replies, Connections
  <1>l. Locked
    <2>1. DOMAIN <<TRUE>> = {1} /\ <<TRUE>>[1] = TRUE
      OBVIOUS
    <2> QED BY <2>1, ApplyConstants DEF Init, Locked
  <1>2. Plans
    BY DEF Init, Plans, Accepted
  <1>3. PICK K \in KindMap : Fits(db, K, FirstId)
    BY InitialFits DEF Init
  <1>4. AllFit(K)
    BY <1>3 DEF Init, AllFit
  <1> QED BY <1>1, <1>l, <1>2, <1>4 DEF IInv

-----------------------------------------------------------------------------
(* The parts of the assumption on the constants that are about the pool *)
LEMMA SmallConstants ==
    /\ DriverForeignKeys \in BOOLEAN /\ MaxIdle \in Nat /\ MaxRequests \in Nat
    /\ Nil \notin Handlers /\ Nil \notin BOOLEAN
    /\ Stuck \notin Handlers /\ Stuck \notin BOOLEAN /\ Stuck # Nil
  BY ApplyConstants

(* Moving one handler on, and giving it a connection exactly if it holds one now *)
LEMMA MovedOn ==
    ASSUME NEW p \in [Handlers -> Places], NEW c \in [Handlers -> Connections \cup {Nil}],
           \A g \in Handlers : p[g] \in Holding <=> c[g] # Nil,
           NEW h \in Handlers, NEW x \in Places, NEW y \in Connections \cup {Nil},
           x \in Holding <=> y # Nil
    PROVE  /\ [p EXCEPT ![h] = x] \in [Handlers -> Places]
           /\ [c EXCEPT ![h] = y] \in [Handlers -> Connections \cup {Nil}]
           /\ \A g \in Handlers :
                 [p EXCEPT ![h] = x][g] \in Holding <=> [c EXCEPT ![h] = y][g] # Nil
  OBVIOUS

(* A connection that is put back leaves a pool of at most MaxIdle settings, and
   so does one that is taken. *)
LEMMA PutBackPool ==
    ASSUME NEW S, NEW f \in Seq(S), Len(f) <= MaxIdle, NEW y \in S
    PROVE  LET r == IF Len(f) < MaxIdle THEN Append(f, y) ELSE f
           IN  r \in Seq(S) /\ Len(r) <= MaxIdle
  <1>1. Append(f, y) \in Seq(S) /\ Len(Append(f, y)) = Len(f) + 1 /\ Len(f) \in Nat
    OBVIOUS
  <1> QED BY <1>1, SmallConstants

(* The pool without its last connection, and that connection *)
LEMMA TakeLast ==
    ASSUME NEW S, NEW f \in Seq(S), f # <<>>, Len(f) <= MaxIdle
    PROVE  /\ f[Len(f)] \in S
           /\ SubSeq(f, 1, Len(f) - 1) \in Seq(S)
           /\ Len(SubSeq(f, 1, Len(f) - 1)) <= MaxIdle
  <1>1. Len(f) \in Nat \ {0} /\ MaxIdle \in Nat
    BY SmallConstants, EmptySeq
  <1>2. \A i \in 1 .. Len(f) : f[i] \in S
    OBVIOUS
  <1>3. /\ SubSeq(f, 1, Len(f) - 1) \in Seq(S)
        /\ Len(SubSeq(f, 1, Len(f) - 1)) =
              IF 1 <= Len(f) - 1 THEN (Len(f) - 1) - 1 + 1 ELSE 0
    BY <1>1, <1>2, SubSeqProperties
  <1> QED BY <1>1, <1>2, <1>3

-----------------------------------------------------------------------------
(* The return of a handler keeps the types. *)
LEMMA AnswerTyped ==
    ASSUME Typed, NEW h \in Handlers, NEW code \in Replies, Answer(h, code),
           UNCHANGED <<nextId, served>>, writer' \in Handlers \cup {Nil, Stuck}
    PROVE  Typed'
  BY DEF Typed, Answer

(* Every step keeps the types of requests, replies, ids and the write lock. *)
LEMMA TypedStep == Typed /\ [Next]_vars => Typed'
  <1> SUFFICES ASSUME Typed, [Next]_vars PROVE Typed'
    OBVIOUS
  <1> USE SmallConstants DEF Typed, Replies
  <1>1. CASE UNCHANGED vars
    BY <1>1 DEF vars, tx, pool
  <1>2. CASE Restart
    BY <1>2 DEF Restart
  <1>3. ASSUME NEW h \in Handlers, Receive(h) PROVE Typed'
    <2>1. served' \in 0 .. MaxRequests
      BY <1>3 DEF Receive
    <2>2. ops' \in [Handlers -> Batches \cup {<<>>}] /\ reply' \in [Handlers -> Replies]
      BY <1>3 DEF Receive
    <2>3. UNCHANGED <<nextId, writer, at>>
      BY <1>3 DEF Receive, tx
    <2> QED BY <2>1, <2>2, <2>3
  <1>4. ASSUME NEW h \in Handlers, Acquire(h) PROVE Typed'
    BY <1>4 DEF Acquire, tx
  <1>5. ASSUME NEW h \in Handlers, Loaded(h) PROVE Typed'
    <2>1. UNCHANGED <<nextId, served>> /\ writer' \in Handlers \cup {Nil, Stuck}
      BY <1>5 DEF Loaded, Release, Strand
    <2>2. CASE Answer(h, "ok") \/ Answer(h, "INVALID_REQUEST")
      BY <2>1, <2>2, AnswerTyped
    <2>3. CASE UNCHANGED <<ops, at, reply>>
      BY <2>1, <2>3
    <2> QED BY <1>5, <2>2, <2>3 DEF Loaded
  <1>6. ASSUME NEW h \in Handlers, LoadFails(h) PROVE Typed'
    BY <1>6, AnswerTyped DEF LoadFails, Release, Strand
  <1>7. ASSUME NEW h \in Handlers, Accept(h) PROVE Typed'
    BY <1>7 DEF Accept, tx
  <1>8. ASSUME NEW h \in Handlers, Refuse(h) PROVE Typed'
    BY <1>8, AnswerTyped DEF Refuse
  <1>9. ASSUME NEW h \in Handlers, Hang(h) PROVE Typed'
    BY <1>9 DEF Hang, tx
  <1>10. ASSUME NEW h \in Handlers, Validated(h) PROVE Typed'
    BY <1>10 DEF Validated, tx
  <1>11. ASSUME NEW h \in Handlers, Execute(h) PROVE Typed'
    <2> DEFINE op == ops[h][at[h] + 1]
    <2>1. ops[h] \in Batches \cup {<<>>} /\ at[h] \in Nat /\ at[h] < Len(ops[h])
      BY <1>11 DEF Execute
    <2>2. op \in Op \cup UnknownOp
      BY <2>1, BatchOps
    <2>3. NewIds(op) \in Nat
      <3> DEFINE K == [i \in Nat |-> "folder"]
      <3>1. K \in KindMap
        BY DEF KindMap, Kinds
      <3> HIDE DEF op, K
      <3> QED BY <2>2, <3>1, KindsAfterLater
    <2>4. nextId' \in Nat /\ writer' \in Handlers \cup {Nil, Stuck}
      <3> HIDE DEF op
      <3> QED BY <1>11, <2>3 DEF Execute, op
    <2> QED BY <1>11, <2>4 DEF Execute
  <1>12. ASSUME NEW h \in Handlers, Rollback(h) PROVE Typed'
    BY <1>12, AnswerTyped DEF Rollback, Unlock
  <1>13. ASSUME NEW h \in Handlers, Commit(h) PROVE Typed'
    BY <1>13 DEF Commit, Unlock
  <1>14. ASSUME NEW h \in Handlers, BeginFails(h) PROVE Typed'
    BY <1>14, AnswerTyped DEF BeginFails, Release, Strand
  <1>15. ASSUME NEW h \in Handlers, CommitRefused(h) PROVE Typed'
    BY <1>15, AnswerTyped DEF CommitRefused, Strand
  <1> QED BY <1>1, <1>2, <1>3, <1>4, <1>5, <1>6, <1>7, <1>8, <1>9, <1>10, <1>11, <1>12,
             <1>13, <1>14, <1>15 DEF Next, Step

(* A handler that puts its connection back is outside of queries from then on. *)
LEMMA PutBackPooled ==
    ASSUME Pooled, NEW h \in Handlers, NEW c \in Connections, PutBack(h, c),
           NEW x \in Places \ Holding, pc' = [pc EXCEPT ![h] = x]
    PROVE  Pooled'
  <1>2. free' \in Seq(Connections) /\ Len(free') <= MaxIdle
    BY PutBackPool DEF Pooled, PutBack
  <1>3. /\ pc' \in [Handlers -> Places]
        /\ conn' \in [Handlers -> Connections \cup {Nil}]
        /\ \A g \in Handlers : pc'[g] \in Holding <=> conn'[g] # Nil
    BY MovedOn DEF Pooled, PutBack
  <1> QED BY <1>2, <1>3 DEF Pooled

LEMMA ReleasePooled ==
    ASSUME Pooled, NEW h \in Handlers, pc[h] \in Holding, PutBack(h, conn[h]),
           NEW x \in Places \ Holding, pc' = [pc EXCEPT ![h] = x]
    PROVE  Pooled'
  <1>1. conn[h] \in Connections
    BY DEF Pooled
  <1> QED BY <1>1, PutBackPooled

(* A handler without a connection that moves to another place without one *)
LEMMA KeepPooled ==
    ASSUME Pooled, NEW h \in Handlers, pc[h] \notin Holding, UNCHANGED pool,
           NEW x \in Places \ Holding, pc' = [pc EXCEPT ![h] = x]
    PROVE  Pooled'
  BY DEF Pooled, pool

(* Every step keeps a connection with exactly the handlers inside a query
   or a transaction. *)
LEMMA PooledStep == Pooled /\ [Next]_vars => Pooled'
  <1> SUFFICES ASSUME Pooled, [Next]_vars PROVE Pooled'
    OBVIOUS
  <1>0. {"idle", "load", "read", "validate", "spin", "begin", "reload"} \subseteq Places \ Holding
    BY DEF Places, Waiting, Holding
  <1>a. pc \in [Handlers -> Places]
    BY DEF Pooled
  <1>1. CASE UNCHANGED vars
    BY <1>1 DEF vars, pool, Pooled
  <1>2. CASE Restart
    BY <1>2, ApplyConstants DEF Restart, Pooled, Places, Holding, Connections
  <1>3. ASSUME NEW h \in Handlers, Receive(h) PROVE Pooled'
    <2>1. CASE UNCHANGED pc
      BY <1>3, <2>1 DEF Receive, Pooled, pool
    <2>2. CASE pc' = [pc EXCEPT ![h] = "read"] \/ pc' = [pc EXCEPT ![h] = "load"]
      BY <1>0, <1>3, <2>2, KeepPooled DEF Receive, Holding
    <2> QED BY <1>3, <2>1, <2>2 DEF Receive
  <1>4. ASSUME NEW h \in Handlers, Acquire(h) PROVE Pooled'
    <2> DEFINE x == CASE pc[h] = "read"   -> "reading"
                      [] pc[h] = "load"   -> "loading"
                      [] pc[h] = "begin"  -> "tx"
                      [] pc[h] = "reload" -> "reloading"
               y == IF free = <<>> THEN DriverForeignKeys ELSE free[Len(free)]
    <2>1. x \in Places /\ x \in Holding
      BY <1>4 DEF Acquire, Waiting, Holding, Places
    <2>2. y \in Connections
      BY SmallConstants, TakeLast DEF Pooled, Connections
    <2>3. free' \in Seq(Connections) /\ Len(free') <= MaxIdle
      BY <1>4, SmallConstants, TakeLast DEF Pooled, Acquire
    <2>4. pc' = [pc EXCEPT ![h] = x] /\ conn' = [conn EXCEPT ![h] = y]
      BY <1>4 DEF Acquire
    <2> HIDE DEF x, y
    <2>5. y \in Connections \cup {Nil} /\ y # Nil
      BY <2>2, SmallConstants DEF Connections
    <2>6. /\ pc' \in [Handlers -> Places]
          /\ conn' \in [Handlers -> Connections \cup {Nil}]
          /\ \A g \in Handlers : pc'[g] \in Holding <=> conn'[g] # Nil
      BY <2>1, <2>4, <2>5, MovedOn DEF Pooled
    <2> QED BY <2>3, <2>6 DEF Pooled
  <1>5. ASSUME NEW h \in Handlers, Loaded(h) PROVE Pooled'
    <2>1. pc[h] \in Holding /\ PutBack(h, conn[h])
      BY <1>5 DEF Loaded, Holding, Release
    <2>2. pc' = [pc EXCEPT ![h] = "idle"] \/ pc' = [pc EXCEPT ![h] = "validate"]
      BY <1>5 DEF Loaded, Answer
    <2> QED BY <1>0, <2>1, <2>2, ReleasePooled
  <1>6. ASSUME NEW h \in Handlers, LoadFails(h) PROVE Pooled'
    <2>1. pc[h] \in Holding /\ PutBack(h, conn[h])
      BY <1>6 DEF LoadFails, Holding, Release
    <2>2. pc' = [pc EXCEPT ![h] = "idle"]
      BY <1>6 DEF LoadFails, Answer
    <2> QED BY <1>0, <2>1, <2>2, ReleasePooled
  <1>7. ASSUME NEW h \in Handlers, Accept(h) PROVE Pooled'
    BY <1>7 DEF Accept, pool, Pooled
  <1>8. ASSUME NEW h \in Handlers, Refuse(h) PROVE Pooled'
    BY <1>0, <1>8, KeepPooled DEF Refuse, Checking, Answer, Holding
  <1>9. ASSUME NEW h \in Handlers, Hang(h) PROVE Pooled'
    BY <1>0, <1>9, KeepPooled DEF Hang, Checking, Holding
  <1>10. ASSUME NEW h \in Handlers, Validated(h) PROVE Pooled'
    BY <1>0, <1>10, KeepPooled DEF Validated, Holding
  <1>11. ASSUME NEW h \in Handlers, Execute(h) PROVE Pooled'
    BY <1>11 DEF Execute, pool, Pooled
  <1>12. ASSUME NEW h \in Handlers, Rollback(h) PROVE Pooled'
    BY <1>0, <1>12, ReleasePooled DEF Rollback, Answer, Holding
  <1>13. ASSUME NEW h \in Handlers, Commit(h) PROVE Pooled'
    BY <1>0, <1>13, ReleasePooled DEF Commit, Holding
  <1>14. ASSUME NEW h \in Handlers, BeginFails(h) PROVE Pooled'
    BY <1>0, <1>14, ReleasePooled DEF BeginFails, Release, Answer, Holding
  <1>15. ASSUME NEW h \in Handlers, CommitRefused(h) PROVE Pooled'
    <2>1. Stuck \in Connections /\ PutBack(h, Stuck) /\ pc' = [pc EXCEPT ![h] = "idle"]
      BY <1>15 DEF CommitRefused, Answer, Connections
    <2> QED BY <1>0, <2>1, PutBackPooled
  <1> QED BY <1>1, <1>2, <1>3, <1>4, <1>5, <1>6, <1>7, <1>8, <1>9, <1>10, <1>11, <1>12,
             <1>13, <1>14, <1>15 DEF Next, Step

-----------------------------------------------------------------------------
(* A pool that got one more connection, if there was room for it *)
LEMMA PooledOne ==
    ASSUME NEW S, NEW f \in Seq(S), NEW c \in S, NEW r,
           r = IF Len(f) < MaxIdle THEN Append(f, c) ELSE f
    PROVE  /\ \A k \in DOMAIN r : \/ k \in DOMAIN f /\ r[k] = f[k]
                                  \/ k = Len(f) + 1 /\ k \notin DOMAIN f /\ r[k] = c
           /\ \A k \in DOMAIN f : k \in DOMAIN r /\ r[k] = f[k]
           /\ Len(f) < MaxIdle => \E k \in DOMAIN r : r[k] = c
           /\ ~ (Len(f) < MaxIdle) => r = f
  <1>1. /\ Len(f) \in Nat /\ DOMAIN f = 1 .. Len(f)
        /\ DOMAIN Append(f, c) = 1 .. Len(f) + 1
        /\ \A k \in 1 .. Len(f) : Append(f, c)[k] = f[k]
        /\ Append(f, c)[Len(f) + 1] = c
    OBVIOUS
  <1>2. CASE Len(f) < MaxIdle
    <2>1. r = Append(f, c)
      BY <1>2
    <2>2. Len(f) + 1 \in DOMAIN r /\ r[Len(f) + 1] = c
      BY <1>1, <2>1
    <2> DEFINE n == Len(f)
    <2>3. /\ DOMAIN f = 1 .. n /\ DOMAIN r = 1 .. n + 1 /\ n \in Nat
          /\ \A k \in 1 .. n : r[k] = f[k]
      BY <1>1, <2>1
    <2> HIDE DEF n
    <2>4. ASSUME NEW k \in DOMAIN r
          PROVE  \/ k \in DOMAIN f /\ r[k] = f[k]
                 \/ k = n + 1 /\ k \notin DOMAIN f /\ r[k] = c
      <3>1. k \in 1 .. n + 1
        BY <2>3
      <3>2. CASE k = n + 1
        <4>1. k \notin DOMAIN f
          BY ONLY <2>3, <3>2
        <4> QED BY <2>2, <3>2, <4>1 DEF n
      <3>3. CASE k \in 1 .. n
        BY <2>3, <3>3
      <3>4. k = n + 1 \/ k \in 1 .. n
        BY ONLY <2>3, <3>1
      <3> QED BY <3>2, <3>3, <3>4
    <2>5. \A k \in DOMAIN f : k \in DOMAIN r /\ r[k] = f[k]
      BY <2>3
    <2>6. \A k \in DOMAIN r : \/ k \in DOMAIN f /\ r[k] = f[k]
                              \/ k = Len(f) + 1 /\ k \notin DOMAIN f /\ r[k] = c
      BY ONLY <2>4 DEF n
    <2> QED BY ONLY <1>2, <2>2, <2>5, <2>6, Zenon
  <1>3. CASE ~ (Len(f) < MaxIdle)
    <2>1. r = f
      BY <1>3
    <2>2. \A k \in DOMAIN r : k \in DOMAIN f /\ r[k] = f[k]
      BY ONLY <2>1
    <2>3. \A k \in DOMAIN f : k \in DOMAIN r /\ r[k] = f[k]
      BY ONLY <2>1
    <2> QED BY ONLY <1>3, <2>1, <2>2, <2>3, Zenon
  <1> QED BY <1>2, <1>3

(* A connection that is sound, or closed with its last transaction done, goes
   back. *)
LEMMA SoundBack ==
    ASSUME Pooled, Locked, NEW h \in Handlers, conn[h] # Stuck, pc[h] \in Holding,
           PutBack(h, conn[h]), writer' = (IF writer = h THEN Nil ELSE writer),
           \E x : pc' = [pc EXCEPT ![h] = x]
    PROVE  Locked'
  <1>1. conn[h] \in Connections /\ conn \in [Handlers -> Connections \cup {Nil}]
        /\ free \in Seq(Connections) /\ pc \in [Handlers -> Places]
    BY DEF Pooled
  <1>2. /\ \A k \in DOMAIN free' : free'[k] = Stuck => k \in DOMAIN free /\ free[k] = Stuck
        /\ \A k \in DOMAIN free : k \in DOMAIN free' /\ free'[k] = free[k]
    BY <1>1, PooledOne DEF PutBack
  <1>3. conn'[h] = Nil /\ \A g \in Handlers \ {h} : conn'[g] = conn[g] /\ pc'[g] = pc[g]
    BY <1>1 DEF PutBack
  <1>4. writer' # h /\ (writer' \in Handlers => writer' = writer)
        /\ (writer' = Stuck <=> writer = Stuck)
    BY SmallConstants
  <1> QED BY <1>2, <1>3, <1>4, SmallConstants DEF Locked

(* A connection with an open transaction goes back: it is the only one. *)
LEMMA StuckBack ==
    ASSUME Pooled, Locked, NEW h \in Handlers, conn[h] = Stuck \/ writer = h,
           PutBack(h, Stuck), Strand, \E x : pc' = [pc EXCEPT ![h] = x]
    PROVE  Locked'
  <1>1. Stuck \in Connections /\ conn \in [Handlers -> Connections \cup {Nil}]
        /\ free \in Seq(Connections) /\ pc \in [Handlers -> Places]
    BY DEF Pooled, Connections
  <1>2. /\ \A k \in DOMAIN free : free[k] # Stuck
        /\ \A g \in Handlers \ {h} : conn[g] # Stuck
    BY SmallConstants DEF Locked
  <1>3. conn'[h] = Nil /\ \A g \in Handlers \ {h} : conn'[g] = conn[g]
    BY <1>1 DEF PutBack
  <1>4. \A g \in Handlers : conn'[g] # Stuck
    BY <1>2, <1>3, SmallConstants
  <1>5. /\ \A k \in DOMAIN free' : free'[k] = Stuck => k = Len(free) + 1
        /\ Len(free) < MaxIdle => \E k \in DOMAIN free' : free'[k] = Stuck
        /\ ~ (Len(free) < MaxIdle) => free' = free
    BY <1>1, <1>2, PooledOne DEF PutBack
  <1>6. CASE Len(free) < MaxIdle /\ writer' = Stuck
    BY <1>4, <1>5, <1>6, SmallConstants DEF Locked
  <1>7. CASE Len(free) >= MaxIdle /\ writer' = Nil
    <2>1. Len(free) \in Nat
      BY <1>1
    <2>2. free' = free
      BY <1>5, <1>7, <2>1, SmallConstants
    <2> QED BY <1>2, <1>4, <1>7, <2>2, SmallConstants DEF Locked
  <1> QED BY <1>6, <1>7 DEF Strand

(* Either of the two, as Release does it *)
LEMMA ReleaseLocked ==
    ASSUME Pooled, Locked, NEW h \in Handlers, pc[h] \in Holding, Release(h),
           writer # h, \E x : pc' = [pc EXCEPT ![h] = x]
    PROVE  Locked'
  <1>1. CASE conn[h] = Stuck
    BY <1>1, StuckBack DEF Release
  <1>2. CASE conn[h] # Stuck
    BY <1>2, SoundBack DEF Release
  <1> QED BY <1>1, <1>2

(* A step that leaves the connections and the holder of the lock alone *)
LEMMA KeepLocked ==
    ASSUME Pooled, Locked, UNCHANGED <<pool, writer>>,
           UNCHANGED pc \/ \E h \in Handlers : pc[h] # "tx" /\ \E x : pc' = [pc EXCEPT ![h] = x]
    PROVE  Locked'
  <1>1. writer \in Handlers => pc'[writer] = pc[writer]
    BY DEF Pooled, Locked
  <1>2. UNCHANGED <<free, conn, writer>>
    BY DEF pool
  <1> QED BY <1>1, <1>2 DEF Locked

(* Every step accounts for the write lock: what a refused COMMIT leaves is passed
   on with its connection, and ends when that is closed (sqlite.go:166-216). *)
LEMMA LockedStep == Typed /\ Pooled /\ Locked /\ [Next]_vars => Locked'
  <1> SUFFICES ASSUME Typed, Pooled, Locked, [Next]_vars PROVE Locked'
    OBVIOUS
  <1>1. CASE UNCHANGED vars
    BY <1>1, KeepLocked DEF vars, tx
  <1>2. CASE Restart
    <2>1. DOMAIN <<TRUE>> = {1} /\ <<TRUE>>[1] = TRUE
      OBVIOUS
    <2> QED BY <1>2, <2>1, SmallConstants DEF Restart, Locked
  <1>3. ASSUME NEW h \in Handlers, Receive(h) PROVE Locked'
    <2>1. UNCHANGED <<pool, writer>> /\ pc[h] # "tx"
      BY <1>3 DEF Receive, tx
    <2>2. UNCHANGED pc \/ \E x : pc' = [pc EXCEPT ![h] = x]
      BY <1>3 DEF Receive
    <2> QED BY <2>1, <2>2, KeepLocked
  <1>4. ASSUME NEW h \in Handlers, Acquire(h) PROVE Locked'
    <2>1. pc[h] # "tx" /\ writer' = writer /\ writer # h /\ conn[h] = Nil
      BY <1>4 DEF Acquire, tx, Locked, Waiting, Pooled, Holding
    <2>2. /\ conn \in [Handlers -> Connections \cup {Nil}] /\ free \in Seq(Connections)
          /\ pc \in [Handlers -> Places]
      BY DEF Pooled
    <2>3. \A g \in Handlers \ {h} : pc'[g] = pc[g]
      BY <1>4, <2>2 DEF Acquire
    <2>4. CASE free = <<>>
      <3>1. conn' = [conn EXCEPT ![h] = DriverForeignKeys] /\ free' = free
        BY <1>4, <2>4 DEF Acquire
      <3>2. conn'[h] # Stuck /\ \A g \in Handlers \ {h} : conn'[g] = conn[g]
        BY <2>2, <3>1, SmallConstants
      <3> QED BY <2>1, <2>3, <3>1, <3>2, SmallConstants DEF Locked
    <2>5. CASE free # <<>>
      <3>1. conn' = [conn EXCEPT ![h] = free[Len(free)]] /\ free' = SubSeq(free, 1, Len(free) - 1)
        BY <1>4, <2>5 DEF Acquire
      <3>2. Len(free) \in Nat /\ Len(free) # 0 /\ DOMAIN free = 1 .. Len(free)
        BY <2>2, <2>5, EmptySeq
      <3>3. /\ DOMAIN free' = 1 .. Len(free) - 1
            /\ \A k \in 1 .. Len(free) - 1 : free'[k] = free[k]
        BY <2>2, <3>1, <3>2, SubSeqProperties
      <3>4. /\ Len(free) \in DOMAIN free
            /\ \A k \in DOMAIN free' : k \in DOMAIN free /\ k # Len(free) /\ free'[k] = free[k]
            /\ \A k \in DOMAIN free : k = Len(free) \/ k \in DOMAIN free'
        BY <3>2, <3>3
      <3>5. conn'[h] = free[Len(free)] /\ \A g \in Handlers \ {h} : conn'[g] = conn[g]
        BY <2>2, <3>1
      <3> DEFINE n == Len(free)
      <3>6. /\ n \in DOMAIN free /\ conn'[h] = free[n]
            /\ \A k \in DOMAIN free' : k \in DOMAIN free /\ k # n /\ free'[k] = free[k]
            /\ \A k \in DOMAIN free : k = n \/ k \in DOMAIN free'
        BY <3>4, <3>5
      <3> HIDE DEF n
      <3> QED BY <2>1, <2>3, <3>5, <3>6, SmallConstants DEF Locked
    <2> QED BY <2>4, <2>5
  <1>5. ASSUME NEW h \in Handlers, Loaded(h) PROVE Locked'
    <2>1. pc[h] \in Holding /\ pc[h] # "tx" /\ Release(h)
      BY <1>5 DEF Loaded, Holding
    <2>2. \E x : pc' = [pc EXCEPT ![h] = x]
      BY <1>5 DEF Loaded, Answer
    <2>3. writer # h
      BY <2>1 DEF Locked
    <2> QED BY <2>1, <2>2, <2>3, ReleaseLocked
  <1>6. ASSUME NEW h \in Handlers, LoadFails(h) PROVE Locked'
    <2>1. pc[h] \in Holding /\ pc[h] # "tx" /\ Release(h)
      BY <1>6 DEF LoadFails, Holding
    <2>2. \E x : pc' = [pc EXCEPT ![h] = x]
      BY <1>6 DEF LoadFails, Answer
    <2>3. writer # h
      BY <2>1 DEF Locked
    <2> QED BY <2>1, <2>2, <2>3, ReleaseLocked
  <1>7. ASSUME NEW h \in Handlers, Accept(h) PROVE Locked'
    BY <1>7, KeepLocked DEF Accept, tx
  <1>8. ASSUME NEW h \in Handlers, Refuse(h) PROVE Locked'
    BY <1>8, KeepLocked DEF Refuse, Checking, Answer
  <1>9. ASSUME NEW h \in Handlers, Hang(h) PROVE Locked'
    BY <1>9, KeepLocked DEF Hang, Checking, tx
  <1>10. ASSUME NEW h \in Handlers, Validated(h) PROVE Locked'
    BY <1>10, KeepLocked DEF Validated, tx
  <1>11. ASSUME NEW h \in Handlers, Execute(h) PROVE Locked'
    <2>1. CASE UNCHANGED writer
      BY <1>11, <2>1, KeepLocked DEF Execute
    <2>2. CASE writer \in {h, Nil} /\ writer' = h
      <3>1. pc'[h] = "tx" /\ conn' = conn /\ free' = free /\ conn[h] \in BOOLEAN
        BY <1>11 DEF Execute, pool, Pooled, Connections, Holding
      <3> QED BY <2>2, <3>1, SmallConstants DEF Locked
    <2> QED BY <1>11, <2>1, <2>2 DEF Execute
  <1>12. ASSUME NEW h \in Handlers, Rollback(h) PROVE Locked'
    BY <1>12, SoundBack DEF Rollback, Unlock, Answer, Holding
  <1>13. ASSUME NEW h \in Handlers, Commit(h) PROVE Locked'
    BY <1>13, SoundBack DEF Commit, Unlock, Holding
  <1>14. ASSUME NEW h \in Handlers, BeginFails(h) PROVE Locked'
    <2>1. writer # h
      BY <1>14, SmallConstants DEF BeginFails, Locked
    <2> QED BY <1>14, <2>1, ReleaseLocked DEF BeginFails, Answer, Holding
  <1>15. ASSUME NEW h \in Handlers, CommitRefused(h) PROVE Locked'
    BY <1>15, StuckBack DEF CommitRefused, Answer
  <1> QED BY <1>1, <1>2, <1>3, <1>4, <1>5, <1>6, <1>7, <1>8, <1>9, <1>10, <1>11, <1>12,
             <1>13, <1>14, <1>15 DEF Next, Step

-----------------------------------------------------------------------------
(* A step that leaves a handler alone leaves what it has accepted. *)
LEMMA AcceptedKept ==
    ASSUME NEW g \in Handlers, Accepted(g),
           plan'[g] = plan[g], ops'[g] = ops[g], pc'[g] = pc[g]
    PROVE  Accepted(g)'
  BY DEF Accepted

(* A handler with no tree in hand has accepted nothing yet. *)
LEMMA AcceptedNone ==
    ASSUME NEW g \in Handlers, plan'[g] = <<>>, pc'[g] \notin {"validate", "begin", "tx"}
    PROVE  Accepted(g)'
  <1>1. plan'[g] \in Seq({plan'[g][k] : k \in DOMAIN plan'[g]}) /\ Len(plan'[g]) = 0
    BY EmptySeq
  <1> QED BY <1>1 DEF Accepted

(* A step of h leaves what the other handlers have accepted as it is. *)
LEMMA OthersAccepted ==
    ASSUME Typed, Pooled, Plans, NEW h \in Handlers,
           UNCHANGED pc \/ (\E x : pc' = [pc EXCEPT ![h] = x]),
           UNCHANGED ops \/ (\E x : ops' = [ops EXCEPT ![h] = x]),
           UNCHANGED plan \/ (\E x : plan' = [plan EXCEPT ![h] = x]),
           Accepted(h)'
    PROVE  Plans'
  <1>1. DOMAIN plan' = Handlers
    BY DEF Plans
  <1>2. ASSUME NEW g \in Handlers, g # h PROVE Accepted(g)'
    <2>1. pc'[g] = pc[g] /\ ops'[g] = ops[g] /\ plan'[g] = plan[g]
      BY <1>2 DEF Typed, Pooled, Plans
    <2>2. Accepted(g)
      BY DEF Plans
    <2> QED BY <2>1, <2>2, AcceptedKept
  <1> QED BY <1>1, <1>2 DEF Plans

(* The return of a handler leaves the validators' trees in order. *)
LEMMA AnswerPlans ==
    ASSUME Typed, Pooled, Plans, NEW h \in Handlers, NEW code, Answer(h, code)
    PROVE  Plans'
  <1>1. /\ pc' = [pc EXCEPT ![h] = "idle"]
        /\ ops' = [ops EXCEPT ![h] = <<>>]
        /\ plan' = [plan EXCEPT ![h] = <<>>]
    BY DEF Answer
  <1>2. plan'[h] = <<>> /\ pc'[h] = "idle"
    BY <1>1 DEF Pooled, Plans
  <1>3. Accepted(h)'
    BY <1>2, AcceptedNone
  <1> QED BY <1>1, <1>3, OthersAccepted

(* Every step keeps the validators' trees in order: a transaction is only opened
   for a batch whose operations were all accepted (rpc.go:51-54). *)
LEMMA PlansStep == Typed /\ Pooled /\ Plans /\ [Next]_vars => Plans'
  <1> SUFFICES ASSUME Typed, Pooled, Plans, [Next]_vars PROVE Plans'
    OBVIOUS
  <1>0. /\ pc \in [Handlers -> Places] /\ ops \in [Handlers -> Batches \cup {<<>>}]
        /\ DOMAIN plan = Handlers /\ \A h \in Handlers : Accepted(h)
    BY DEF Typed, Pooled, Plans
  <1>1. CASE UNCHANGED vars
    <2>1. UNCHANGED <<pc, ops, plan>>
      BY <1>1 DEF vars
    <2> QED BY <1>0, <2>1, AcceptedKept DEF Plans
  <1>2. CASE Restart
    <2>1. \A h \in Handlers : plan'[h] = <<>> /\ pc'[h] = "idle"
      BY <1>2 DEF Restart
    <2>2. DOMAIN plan' = Handlers
      BY <1>2 DEF Restart
    <2> QED BY <2>1, <2>2, AcceptedNone DEF Plans
  <1>3. ASSUME NEW h \in Handlers, Receive(h) PROVE Plans'
    <2>1. plan[h] = <<>> /\ UNCHANGED plan
      BY <1>0, <1>3 DEF Receive, Accepted
    <2>2. \/ UNCHANGED pc /\ pc[h] = "idle"
          \/ pc' = [pc EXCEPT ![h] = "read"]
          \/ pc' = [pc EXCEPT ![h] = "load"]
      BY <1>3 DEF Receive
    <2>3. UNCHANGED ops \/ \E x : ops' = [ops EXCEPT ![h] = x]
      BY <1>3 DEF Receive
    <2>4. Accepted(h)'
      BY <1>0, <2>1, <2>2, AcceptedNone
    <2> QED BY <2>1, <2>2, <2>3, <2>4, OthersAccepted
  <1>4. ASSUME NEW h \in Handlers, Acquire(h) PROVE Plans'
    <2> DEFINE x == CASE pc[h] = "read"   -> "reading"
                      [] pc[h] = "load"   -> "loading"
                      [] pc[h] = "begin"  -> "tx"
                      [] pc[h] = "reload" -> "reloading"
    <2>1. pc' = [pc EXCEPT ![h] = x] /\ UNCHANGED <<ops, plan>>
      BY <1>4 DEF Acquire
    <2>2. IF pc[h] = "begin" THEN x = "tx"
          ELSE x \in {"reading", "loading", "reloading"} /\ pc[h] \in {"read", "load", "reload"}
      BY <1>4 DEF Acquire, Waiting
    <2> HIDE DEF x
    <2>3. pc'[h] = x
      BY <1>0, <2>1
    <2>4. Accepted(h)'
      BY <1>0, <2>1, <2>2, <2>3 DEF Accepted
    <2> QED BY <2>1, <2>4, OthersAccepted
  <1>5. ASSUME NEW h \in Handlers, Loaded(h) PROVE Plans'
    <2>1. CASE Answer(h, "ok") \/ Answer(h, "INVALID_REQUEST")
      BY <2>1, AnswerPlans
    <2>2. CASE /\ pc' = [pc EXCEPT ![h] = "validate"]
               /\ plan' = [plan EXCEPT ![h] = <<Seen(h)>>]
               /\ UNCHANGED ops
      <3> DEFINE t == Seen(h)
      <3>1. pc'[h] = "validate" /\ plan'[h] = <<t>>
        BY <1>0, <2>2
      <3> HIDE DEF t
      <3>2. Len(plan'[h]) = 1 /\ plan'[h] \in Seq({plan'[h][k] : k \in DOMAIN plan'[h]})
        <4>1. <<t>> \in Seq({t}) /\ Len(<<t>>) = 1
          OBVIOUS
        <4>2. <<t>> \in Seq({<<t>>[k] : k \in DOMAIN <<t>>})
          BY <4>1, SeqOfElements
        <4> QED BY <3>1, <4>1, <4>2
      <3>3. Accepted(h)'
        BY <3>1, <3>2 DEF Accepted
      <3> QED BY <2>2, <3>3, OthersAccepted
    <2> QED BY <1>5, <2>1, <2>2 DEF Loaded
  <1>6. ASSUME NEW h \in Handlers, LoadFails(h) PROVE Plans'
    BY <1>6, AnswerPlans DEF LoadFails
  <1>7. ASSUME NEW h \in Handlers, Accept(h) PROVE Plans'
    <2> DEFINE p == plan[h]
               v == Simulate(Current(h), Due(h))
    <2>1. /\ plan' = [plan EXCEPT ![h] = Append(p, v)] /\ UNCHANGED <<pc, ops>>
          /\ pc[h] = "validate" /\ Len(p) <= Len(ops[h])
          /\ OpOK(p[Len(p)], ops[h][Len(p)])
      BY <1>7 DEF Accept, Checking, Current, Due
    <2>2. plan'[h] = Append(p, v)
      BY <1>0, <2>1
    <2>3. /\ p \in Seq({p[k] : k \in DOMAIN p})
          /\ \A k \in 1 .. Len(p) - 1 : k <= Len(ops[h]) /\ OpOK(p[k], ops[h][k])
      BY <1>0 DEF Accepted
    <2> HIDE DEF p, v
    <2>4. Append(p, v) \in Seq({p[k] : k \in DOMAIN p} \cup {v})
      BY <2>3
    <2>5. /\ Append(p, v) \in Seq({Append(p, v)[k] : k \in DOMAIN Append(p, v)})
          /\ Len(Append(p, v)) = Len(p) + 1 /\ Len(p) \in Nat
          /\ \A k \in 1 .. Len(p) : Append(p, v)[k] = p[k]
      <3>1. Append(p, v) \in Seq({Append(p, v)[k] : k \in DOMAIN Append(p, v)})
        BY <2>4, SeqOfElements
      <3>2. /\ p \in Seq({p[k] : k \in DOMAIN p} \cup {v}) /\ v \in {p[k] : k \in DOMAIN p} \cup {v}
            /\ Len(p) \in Nat
        BY <2>3
      <3> QED BY <3>1, <3>2, AppendProperties
    <2>6. \A k \in 1 .. Len(p) : k <= Len(ops[h]) /\ OpOK(p[k], ops[h][k])
      <3> SUFFICES ASSUME NEW k \in 1 .. Len(p)
                   PROVE  k <= Len(ops[h]) /\ OpOK(p[k], ops[h][k])
        OBVIOUS
      <3>1. k = Len(p) \/ k \in 1 .. Len(p) - 1
        BY <2>5
      <3> QED BY <2>1, <2>3, <3>1
    <2>7. Accepted(h)'
      <3>1. \A k \in 1 .. Len(plan'[h]) - 1 :
                k <= Len(ops'[h]) /\ OpOK(plan'[h][k], ops'[h][k])
        BY <2>1, <2>2, <2>5, <2>6
      <3>2. /\ plan'[h] \in Seq({plan'[h][k] : k \in DOMAIN plan'[h]})
            /\ Len(plan'[h]) > 0 /\ pc'[h] = "validate"
        BY <2>1, <2>2, <2>5
      <3> QED BY <3>1, <3>2 DEF Accepted
    <2> QED BY <2>1, <2>7, OthersAccepted
  <1>8. ASSUME NEW h \in Handlers, Refuse(h) PROVE Plans'
    BY <1>8, AnswerPlans DEF Refuse
  <1>9. ASSUME NEW h \in Handlers, Hang(h) PROVE Plans'
    <2>1. /\ pc[h] = "validate" /\ pc' = [pc EXCEPT ![h] = "spin"] /\ UNCHANGED <<ops, plan>>
      BY <1>9 DEF Hang, Checking
    <2>2. Accepted(h)'
      BY <1>0, <2>1 DEF Accepted
    <2> QED BY <2>1, <2>2, OthersAccepted
  <1>10. ASSUME NEW h \in Handlers, Validated(h) PROVE Plans'
    <2>1. /\ pc[h] = "validate" /\ pc' = [pc EXCEPT ![h] = "begin"] /\ UNCHANGED <<ops, plan>>
          /\ Len(plan[h]) > Len(ops[h])
      BY <1>10 DEF Validated
    <2>2. Len(plan[h]) \in Nat /\ Len(ops[h]) \in Nat
      <3>1. ops[h] \in Batches \cup {<<>>}
        BY <1>0
      <3> QED BY <1>0, <3>1, BatchOps DEF Accepted
    <2>3. \A k \in 1 .. Len(plan[h]) - 1 : k <= Len(ops[h])
      BY <1>0 DEF Accepted
    <2>4. Len(plan[h]) = Len(ops[h]) + 1
      BY <2>1, <2>2, <2>3
    <2>5. Accepted(h)'
      BY <1>0, <2>1, <2>4 DEF Accepted
    <2> QED BY <2>1, <2>5, OthersAccepted
  <1>11. ASSUME NEW h \in Handlers, Execute(h) PROVE Plans'
    <2>1. UNCHANGED <<pc, ops, plan>>
      BY <1>11 DEF Execute
    <2> QED BY <1>0, <2>1, AcceptedKept DEF Plans
  <1>12. ASSUME NEW h \in Handlers, Rollback(h) PROVE Plans'
    BY <1>12, AnswerPlans DEF Rollback
  <1>13. ASSUME NEW h \in Handlers, Commit(h) PROVE Plans'
    <2>1. /\ pc' = [pc EXCEPT ![h] = "reload"]
          /\ ops' = [ops EXCEPT ![h] = <<>>]
          /\ plan' = [plan EXCEPT ![h] = <<>>]
      BY <1>13 DEF Commit
    <2>2. plan'[h] = <<>> /\ pc'[h] = "reload"
      BY <1>0, <2>1
    <2>3. Accepted(h)'
      BY <2>2, AcceptedNone
    <2> QED BY <2>1, <2>3, OthersAccepted
  <1>14. ASSUME NEW h \in Handlers, BeginFails(h) PROVE Plans'
    BY <1>14, AnswerPlans DEF BeginFails
  <1>15. ASSUME NEW h \in Handlers, CommitRefused(h) PROVE Plans'
    BY <1>15, AnswerPlans DEF CommitRefused
  <1> QED BY <1>1, <1>2, <1>3, <1>4, <1>5, <1>6, <1>7, <1>8, <1>9, <1>10, <1>11, <1>12,
             <1>13, <1>14, <1>15 DEF Next, Step

-----------------------------------------------------------------------------
(* A step that hands out no id and gives validators no new tree *)
LEMMA FitKept ==
    ASSUME NEW K \in KindMap, AllFit(K), DOMAIN plan = Handlers,
           UNCHANGED nextId, db' \in {db, work}, work' \in {db, work},
           UNCHANGED plan \/ (\E h \in Handlers : plan' = [plan EXCEPT ![h] = <<>>])
    PROVE  AllFit(K)'
  <1>1. Fits(db', K, nextId') /\ Fits(work', K, nextId')
    BY DEF AllFit
  <1>2. ASSUME NEW g \in Handlers, NEW k \in DOMAIN plan'[g]
        PROVE  Fits(plan'[g][k], K, nextId')
    <2>1. plan'[g] = plan[g] \/ plan'[g] = <<>>
      OBVIOUS
    <2>2. plan'[g] = plan[g]
      BY <2>1, <1>2
    <2> QED BY <1>2, <2>2 DEF AllFit
  <1> QED BY <1>1, <1>2 DEF AllFit

(* One statement: the operation was accepted on the validator's tree of its
   position, and changes the transaction's view, whatever that is by now. *)
LEMMA ExecuteFits ==
    ASSUME Typed, Plans, NEW K \in KindMap, AllFit(K), NEW h \in Handlers, Execute(h),
           pc[h] = "tx"
    PROVE  \E K2 \in KindMap : AllFit(K2)'
  <1> DEFINE i  == at[h] + 1
             op == ops[h][i]
             K2 == KindsAfter(K, op, nextId)
  <1>1. /\ at[h] \in Nat /\ at[h] < Len(ops[h]) /\ ops[h] \in Batches \cup {<<>>}
        /\ UNCHANGED <<db, ops, plan>>
    BY DEF Execute, Typed
  <1>2. /\ Len(ops[h]) \in Nat /\ op \in Op \cup UnknownOp
    BY <1>1, BatchOps
  <1>3. /\ Len(plan[h]) = Len(ops[h]) + 1 /\ Accepted(h)
        /\ plan[h] \in Seq({plan[h][k] : k \in DOMAIN plan[h]})
    BY DEF Plans, Accepted
  <1>4. i \in 1 .. Len(plan[h]) - 1 /\ i \in DOMAIN plan[h]
    BY <1>1, <1>2, <1>3
  <1>5. OpOK(plan[h][i], op) /\ Fits(plan[h][i], K, nextId)
    BY <1>3, <1>4 DEF Accepted, AllFit
  <1>6. Fits(View(h), K, nextId)
    BY DEF View, AllFit
  <1>7. nextId \in Nat
    BY DEF Typed
  <1>8. CASE UNCHANGED <<work, writer, nextId>>
    <2>1. DOMAIN plan = Handlers
      BY DEF Plans
    <2> QED BY <1>1, <1>8, <2>1, FitKept
  <1>9. CASE /\ ~NoStatement(op)
             /\ ~StoreFails(View(h), op, conn[h])
             /\ work' = StoreResult(View(h), op, nextId, conn[h])
             /\ nextId' = nextId + NewIds(op)
    <2> HIDE DEF i, op
    <2>1. Fits(work', K2, nextId')
      BY <1>2, <1>5, <1>6, <1>7, <1>9, StoreFits
    <2>2. /\ K2 \in KindMap /\ nextId' \in Nat /\ nextId <= nextId'
          /\ \A j \in Nat : j < nextId => K2[j] = K[j]
      BY <1>2, <1>7, <1>9, KindsAfterLater
    <2> HIDE DEF K2
    <2>3. \A t : Fits(t, K, nextId) => Fits(t, K2, nextId')
      BY <1>7, <2>2, FitsLater
    <2>4. PICK K3 \in KindMap : K3 = K2
      BY <2>2
    <2>5. AllFit(K3)'
      BY <1>1, <2>1, <2>3, <2>4 DEF AllFit
    <2> QED BY <2>5
  <1> QED BY <1>8, <1>9 DEF Execute

(* Every step leaves one map of kinds that fits all trees: the ids a statement
   takes are new to each of them (ulid.go:17, sqlite.go:218-301). *)
LEMMA FitStep ==
    ASSUME Typed, Plans, [Next]_vars, NEW K \in KindMap, AllFit(K)
    PROVE  \E K2 \in KindMap : AllFit(K2)'
  <1>0. DOMAIN plan = Handlers /\ \A h \in Handlers : Accepted(h)
    BY DEF Plans
  <1>1. CASE UNCHANGED vars
    BY <1>0, <1>1, FitKept DEF vars, tx
  <1>2. CASE Restart
    <2>1. \A h \in Handlers : DOMAIN plan'[h] = {}
      BY <1>2 DEF Restart
    <2>2. db' = db /\ work' = db /\ nextId' = nextId
      BY <1>2 DEF Restart
    <2>3. AllFit(K)'
      BY <2>1, <2>2 DEF AllFit
    <2> QED BY <2>3
  <1>3. ASSUME NEW h \in Handlers, Receive(h) PROVE AllFit(K)'
    BY <1>0, <1>3, FitKept DEF Receive, tx
  <1>4. ASSUME NEW h \in Handlers, Acquire(h) PROVE AllFit(K)'
    BY <1>0, <1>4, FitKept DEF Acquire, tx
  <1>5. ASSUME NEW h \in Handlers, Loaded(h) PROVE AllFit(K)'
    <2>1. UNCHANGED <<db, nextId>> /\ work' \in {db, work}
      BY <1>5 DEF Loaded, Release, Strand
    <2>2. CASE plan' = [plan EXCEPT ![h] = <<>>]
      BY <1>0, <2>1, <2>2, FitKept
    <2>3. CASE plan' = [plan EXCEPT ![h] = <<Seen(h)>>]
      <3> DEFINE t == Seen(h)
      <3>0. Fits(t, K, nextId)
        BY DEF AllFit, Seen
      <3>1. ASSUME NEW g \in Handlers, NEW k \in DOMAIN plan'[g]
            PROVE  Fits(plan'[g][k], K, nextId)
        <4>1. CASE g = h
          <5>1. plan'[g] = <<t>>
            BY <1>0, <2>3, <4>1
          <5> HIDE DEF t
          <5>2. k = 1 /\ plan'[g][k] = t
            BY <3>1, <5>1
          <5> QED BY <3>0, <5>2
        <4>2. CASE g # h
          <5>1. plan'[g] = plan[g]
            BY <1>0, <2>3, <4>2
          <5> QED BY <3>1, <5>1 DEF AllFit
        <4> QED BY <4>1, <4>2
      <3> QED BY <2>1, <3>1 DEF AllFit
    <2> QED BY <1>5, <2>2, <2>3 DEF Loaded, Answer
  <1>6. ASSUME NEW h \in Handlers, LoadFails(h) PROVE AllFit(K)'
    BY <1>0, <1>6, FitKept DEF LoadFails, Release, Strand, Answer
  <1>7. ASSUME NEW h \in Handlers, Accept(h) PROVE AllFit(K)'
    <2> DEFINE p == plan[h]
               v == Simulate(Current(h), Due(h))
    <2>1. /\ plan' = [plan EXCEPT ![h] = Append(p, v)] /\ UNCHANGED <<db, work, nextId>>
          /\ pc[h] = "validate" /\ Len(p) <= Len(ops[h])
          /\ OpOK(p[Len(p)], Due(h))
      BY <1>7 DEF Accept, Checking, Current, tx
    <2>2. p \in Seq({p[k] : k \in DOMAIN p}) /\ Len(p) > 0
      BY <1>0, <2>1 DEF Accepted
    <2>3. Len(p) \in Nat /\ DOMAIN p = 1 .. Len(p)
      BY <2>2
    <2>4. Due(h) \in Op \cup UnknownOp
      <3>1. ops[h] \in Batches \cup {<<>>}
        BY DEF Typed
      <3>2. Len(ops[h]) \in Nat /\ \A k \in 1 .. Len(ops[h]) : ops[h][k] \in Op \cup UnknownOp
        BY <3>1, BatchOps
      <3> QED BY <2>1, <2>2, <2>3, <3>2 DEF Due
    <2>5. Fits(p[Len(p)], K, nextId) /\ nextId \in Nat
      BY <2>2, <2>3 DEF AllFit, Typed
    <2>6. Fits(v, K, nextId)
      BY <2>1, <2>4, <2>5, SimulateFits DEF Current
    <2>7. /\ \A k \in 1 .. Len(p) : Append(p, v)[k] = p[k]
          /\ Append(p, v)[Len(p) + 1] = v
          /\ DOMAIN Append(p, v) = 1 .. Len(p) + 1
      <3> HIDE DEF v
      <3>1. p \in Seq({p[k] : k \in DOMAIN p} \cup {v}) /\ v \in {p[k] : k \in DOMAIN p} \cup {v}
        BY <2>2
      <3>2. Append(p, v) \in Seq({p[k] : k \in DOMAIN p} \cup {v})
        BY <3>1
      <3> QED BY <3>1, <3>2, AppendProperties, LenProperties
    <2> HIDE DEF v
    <2>8. ASSUME NEW g \in Handlers, NEW k \in DOMAIN plan'[g]
          PROVE  Fits(plan'[g][k], K, nextId)
      <3>1. CASE g = h
        <4>1. plan'[g] = Append(p, v)
          BY <1>0, <2>1, <3>1
        <4>2. k \in 1 .. Len(p) \/ k = Len(p) + 1
          BY <2>3, <2>7, <2>8, <4>1
        <4>3. CASE k \in 1 .. Len(p)
          BY <2>3, <2>7, <4>1, <4>3 DEF AllFit
        <4>4. CASE k = Len(p) + 1
          BY <2>6, <2>7, <4>1, <4>4
        <4> QED BY <4>2, <4>3, <4>4
      <3>2. CASE g # h
        <4>1. plan'[g] = plan[g]
          BY <1>0, <2>1, <3>2
        <4> QED BY <2>8, <4>1 DEF AllFit
      <3> QED BY <3>1, <3>2
    <2> QED BY <2>1, <2>8 DEF AllFit
  <1>8. ASSUME NEW h \in Handlers, Refuse(h) PROVE AllFit(K)'
    BY <1>0, <1>8, FitKept DEF Refuse, Answer
  <1>9. ASSUME NEW h \in Handlers, Hang(h) PROVE AllFit(K)'
    BY <1>0, <1>9, FitKept DEF Hang, tx
  <1>10. ASSUME NEW h \in Handlers, Validated(h) PROVE AllFit(K)'
    BY <1>0, <1>10, FitKept DEF Validated, tx
  <1>11. ASSUME NEW h \in Handlers, Execute(h) PROVE \E K2 \in KindMap : AllFit(K2)'
    BY <1>11, ExecuteFits DEF Execute
  <1>12. ASSUME NEW h \in Handlers, Rollback(h) PROVE AllFit(K)'
    BY <1>0, <1>12, FitKept DEF Rollback, Unlock, Answer
  <1>13. ASSUME NEW h \in Handlers, Commit(h) PROVE AllFit(K)'
    BY <1>0, <1>13, FitKept DEF Commit, Unlock, View
  <1>14. ASSUME NEW h \in Handlers, BeginFails(h) PROVE AllFit(K)'
    BY <1>0, <1>14, FitKept DEF BeginFails, Release, Strand, Answer
  <1>15. ASSUME NEW h \in Handlers, CommitRefused(h) PROVE AllFit(K)'
    BY <1>0, <1>15, FitKept DEF CommitRefused, Strand, Answer
  <1> QED BY <1>1, <1>2, <1>3, <1>4, <1>5, <1>6, <1>7, <1>8, <1>9, <1>10, <1>11, <1>12,
             <1>13, <1>14, <1>15 DEF Next, Step

-----------------------------------------------------------------------------
(* Every step keeps the strengthened invariant. *)
LEMMA IInvStep == IInv /\ [Next]_vars => IInv'
  BY TypedStep, PooledStep, LockedStep, PlansStep, FitStep DEF IInv

(* The strengthened invariant holds in every reachable state. *)
THEOREM Inductive == Spec => []IInv
  BY InitIInv, IInvStep, PTL DEF Spec

(* The strengthened invariant has the type invariant in it ... *)
LEMMA IInvTypeOK == IInv => TypeOK
  <1> SUFFICES ASSUME IInv PROVE TypeOK
    OBVIOUS
  <1>1. PICK K \in KindMap : AllFit(K)
    BY DEF IInv
  <1>2. IsTree(db) /\ IsTree(work)
    BY <1>1 DEF AllFit, Fits
  <1>3. \A h \in Handlers : \A k \in DOMAIN plan[h] : IsTree(plan[h][k])
    BY <1>1 DEF AllFit, Fits
  <1>4. /\ DOMAIN plan = Handlers
        /\ \A h \in Handlers : plan[h] \in Seq({plan[h][k] : k \in DOMAIN plan[h]})
    BY DEF IInv, Plans, Accepted
  <1> QED BY <1>2, <1>3, <1>4 DEF IInv, Typed, Pooled, TypeOK

(* ... the account of the write lock ... *)
LEMMA IInvLock == IInv => LockAccounted
  <1> SUFFICES ASSUME IInv PROVE LockAccounted
    OBVIOUS
  <1> DEFINE idle == {k \in DOMAIN free : free[k] = Stuck}
             lent == {h \in Handlers : conn[h] = Stuck}
  <1>1. Pooled /\ Locked
    BY DEF IInv
  <1>2. CASE writer # Stuck
    <2>1. idle = {} /\ lent = {}
      BY <1>1, <1>2 DEF Locked
    <2> QED BY <1>1, <1>2, <2>1 DEF LockAccounted, Locked, Pooled
  <1>3. ASSUME writer = Stuck, NEW k \in DOMAIN free, free[k] = Stuck PROVE LockAccounted
    <2>1. idle = {k} /\ lent = {}
      BY <1>1, <1>3 DEF Locked
    <2> QED BY <1>1, <1>3, <2>1 DEF LockAccounted, Locked, Pooled
  <1>4. ASSUME writer = Stuck, NEW h \in Handlers, conn[h] = Stuck PROVE LockAccounted
    <2>1. idle = {} /\ lent = {h}
      BY <1>1, <1>4 DEF Locked
    <2> QED BY <1>1, <1>4, <2>1 DEF LockAccounted, Locked, Pooled
  <1> QED BY <1>1, <1>2, <1>3, <1>4 DEF Locked

(* ... and the three invariants of the stored tree. *)
LEMMA IInvTree == IInv => RootImmutable /\ ParentsAreFolders /\ UrlsFollowKind
  <1> SUFFICES ASSUME IInv PROVE RootImmutable /\ ParentsAreFolders /\ UrlsFollowKind
    OBVIOUS
  <1>1. PICK K \in KindMap : AllFit(K)
    BY DEF IInv
  <1>2. Fits(db, K, nextId) /\ nextId \in Nat
    BY <1>1 DEF AllFit, IInv, Typed
  <1>3. FolderParents(db)
    BY <1>2, FitsFolderParents
  <1> QED BY <1>2, <1>3 DEF Fits, RootImmutable, ParentsAreFolders, UrlsFollowKind

(* The types of the handlers' and the store's state, for any number of clients
   and requests: the pool never keeps more than MaxIdle idle connections
   (sqlite.go:110-216). *)
THEOREM TypeCorrect == Spec => []TypeOK
  BY Inductive, IInvTypeOK, PTL

(* A handler holds a connection exactly while it is inside a query or a transaction,
   and the write lock is held by a handler still in its transaction or, after a
   COMMIT that was refused and not rolled back, by exactly one connection of the
   pool (sqlite.go:166-216). *)
THEOREM LockIsAccounted == Spec => []LockAccounted
  BY Inductive, IInvLock, PTL

(* The root row survives every interleaving of validated batches, with foreign
   keys enforced on the connection or not (validate.go:50,58,79). *)
THEOREM RootIsImmutable == Spec => []RootImmutable
  BY Inductive, IInvTree, PTL

(* No row ever hangs below a bookmark, although the parent's kind was read from
   a tree that may be out of date (validate.go:162-171, rpc.go:43-54). *)
THEOREM ParentsStayFolders == Spec => []ParentsAreFolders
  BY Inductive, IInvTree, PTL

(* Bookmarks keep web urls and folders none, although update_bookmark's check of
   the kind was made on a tree that may be out of date (validate.go:83-95). *)
THEOREM UrlsStayWithKind == Spec => []UrlsFollowKind
  BY Inductive, IInvTree, PTL
=============================================================================
