------------------------------ MODULE ApplyOps ------------------------------
(***************************************************************************)
(* The apply_ops and get_tree handlers of the daemon (cmd/bmd/rpc.go) over  *)
(* the SQLite store, one handler per client connection.                    *)
(*                                                                         *)
(* A handler loads the tree, validates the batch against that copy, and    *)
(* only then opens a transaction: nothing is held in between, and there is *)
(* no mutex around the whole.  The store gives one transaction at a time   *)
(* the write lock and shows the others the committed tree.                 *)
(*                                                                         *)
(* Statements run on the connections of database/sql's pool.  Store.Init   *)
(* sets PRAGMA foreign_keys on the one connection open at startup; a       *)
(* connection opened later has the driver's own setting.  A COMMIT that    *)
(* SQLite refuses is not followed by a rollback: the connection goes back  *)
(* to the pool with the transaction open, and is Stuck from then on.       *)
(***************************************************************************)
EXTENDS BookmarkTree

CONSTANTS
    Handlers,           \* client connections, one goroutine each
    Batches,            \* the batches clients may send
    InitialTrees,       \* what the database holds when the daemon starts
    FirstId,            \* the first id handed out from then on
    DriverForeignKeys,  \* foreign_keys of a connection no PRAGMA was run on
    MaxIdle,            \* idle connections the pool keeps
    Stuck,              \* a connection whose COMMIT was refused
    MaxRequests         \* bound: requests served in a behaviour

ASSUME ApplyConstants ==
    /\ Nil \notin Handlers \cup BOOLEAN
    /\ Stuck \notin Handlers \cup BOOLEAN \cup {Nil}
    /\ DriverForeignKeys \in BOOLEAN
    /\ MaxIdle \in Nat \ {0}
    /\ MaxRequests \in Nat
    /\ FirstId \in Nat
    /\ Batches \subseteq Batch
    /\ \A t \in InitialTrees :
          /\ IsFiniteSet(DOMAIN t)
          /\ IsTree(t) /\ \A n \in DOMAIN t : n < FirstId
          /\ WellFormed(t)

VARIABLES
    db,       \* the committed rows
    nextId,   \* every smaller id may have been handed out by core.NewNodeID
    work,     \* the rows as the writing transaction sees them
    writer,   \* whose transaction has the write lock: a handler's, Stuck or Nil
    free,     \* idle pooled connections: their foreign_keys settings, or Stuck
    conn,     \* the connection a handler holds, likewise, or Nil
    pc,       \* where a handler is
    ops,      \* the batch a handler serves
    plan,     \* the validator's trees: the loaded one, then one per operation
    at,       \* operations executed in the transaction
    reply,    \* the outcome of the last request
    served    \* requests received (bounded by MaxRequests)

tx   == <<work, writer, at>>
pool == <<free, conn>>
vars == <<db, nextId, tx, pool, pc, ops, plan, reply, served>>

Replies == {"none", "ok", "INVALID_REQUEST", "VALIDATION_FAILED", "STORAGE_ERROR"}
Waiting == {"read", "load", "begin", "reload"}      \* about to take a connection
Holding == {"reading", "loading", "tx", "reloading"}
Places  == {"idle", "validate", "spin"} \cup Waiting \cup Holding
Connections == BOOLEAN \cup {Stuck}

Init ==
    /\ db \in InitialTrees
    /\ nextId = FirstId
    /\ work = db /\ writer = Nil /\ at = [h \in Handlers |-> 0]
    /\ free = <<TRUE>> /\ conn = [h \in Handlers |-> Nil]
    /\ pc = [h \in Handlers |-> "idle"]
    /\ ops = [h \in Handlers |-> <<>>]
    /\ plan = [h \in Handlers |-> <<>>]
    /\ reply = [h \in Handlers |-> "none"]
    /\ served = 0

-----------------------------------------------------------------------------
(* Requests and replies *)

(* Ids a batch names: a client knows the ids the daemon has handed out. *)
Known(op) ==
    /\ op.type \in OpTypes
    /\ "node"   \in DOMAIN op => op.node < nextId
    /\ "parent" \in DOMAIN op => op.parent < nextId

Receive(h) ==
    /\ pc[h] = "idle" /\ served < MaxRequests
    /\ served' = served + 1
    /\ \/ /\ pc' = [pc EXCEPT ![h] = "read"]
          /\ UNCHANGED <<ops, reply>>
       \/ \E b \in Batches :
             /\ \A k \in DOMAIN b : b[k].type \in OpTypes => Known(b[k])
             /\ IF b = <<>>
                THEN /\ reply' = [reply EXCEPT ![h] = "INVALID_REQUEST"]
                     /\ UNCHANGED <<pc, ops>>
                ELSE /\ pc' = [pc EXCEPT ![h] = "load"]
                     /\ ops' = [ops EXCEPT ![h] = b]
                     /\ UNCHANGED reply
    /\ UNCHANGED <<db, nextId, tx, pool, plan>>

(* The handler returns: what it held in memory is gone. *)
Answer(h, code) ==
    /\ pc' = [pc EXCEPT ![h] = "idle"]
    /\ reply' = [reply EXCEPT ![h] = code]
    /\ ops' = [ops EXCEPT ![h] = <<>>]
    /\ plan' = [plan EXCEPT ![h] = <<>>]
    /\ at' = [at EXCEPT ![h] = 0]

-----------------------------------------------------------------------------
(* The connection pool: the last connection put back is the first one reused,
   and at most MaxIdle are kept. *)

Acquire(h) ==
    /\ pc[h] \in Waiting
    /\ IF free = <<>>
       THEN conn' = [conn EXCEPT ![h] = DriverForeignKeys] /\ UNCHANGED free
       ELSE /\ conn' = [conn EXCEPT ![h] = free[Len(free)]]
            /\ free' = SubSeq(free, 1, Len(free) - 1)
    /\ pc' = [pc EXCEPT ![h] = CASE pc[h] = "read"   -> "reading"
                                 [] pc[h] = "load"   -> "loading"
                                 [] pc[h] = "begin"  -> "tx"
                                 [] pc[h] = "reload" -> "reloading"]
    /\ UNCHANGED <<db, nextId, tx, ops, plan, reply, served>>

PutBackAll(h, c) ==                                             \* mutant
    /\ conn' = [conn EXCEPT ![h] = Nil]
    /\ free' = Append(free, c)
PutBack(h, c) ==
    /\ conn' = [conn EXCEPT ![h] = Nil]
    /\ free' = IF Len(free) < MaxIdle THEN Append(free, c) ELSE free

(* The transaction left open on a connection that is put back: it stays open in
   the pool, and is rolled back when the pool closes the connection instead. *)
Strand ==
    \/ /\ Len(free) < MaxIdle
       /\ writer' = Stuck /\ UNCHANGED work
    \/ /\ Len(free) >= MaxIdle
       /\ writer' = Nil /\ work' = db

Release(h) ==
    /\ PutBack(h, conn[h])
    /\ IF conn[h] = Stuck THEN Strand ELSE UNCHANGED <<work, writer>>

-----------------------------------------------------------------------------
(* handleGetTree, and the LoadTree calls of handleApplyOps and Store.ApplyOps *)

(* The rows a query reads: on a Stuck connection the ones of its transaction *)
Seen(h) == IF conn[h] = Stuck THEN work ELSE db

Loaded(h) ==
    /\ Release(h)
    /\ \/ pc[h] \in {"reading", "reloading"} /\ Answer(h, "ok")
       \/ /\ pc[h] = "loading"
          /\ IF \A k \in DOMAIN ops[h] : ops[h][k].type \in OpTypes
             THEN /\ pc' = [pc EXCEPT ![h] = "validate"]
                  /\ plan' = [plan EXCEPT ![h] = <<Seen(h)>>]
                  /\ UNCHANGED <<ops, at, reply>>
             ELSE Answer(h, "INVALID_REQUEST")
    /\ UNCHANGED <<db, nextId, served>>

LoadFails(h) ==
    /\ pc[h] \in {"reading", "loading", "reloading"}
    /\ Release(h)
    /\ Answer(h, "STORAGE_ERROR")
    /\ UNCHANGED <<db, nextId, served>>

-----------------------------------------------------------------------------
(* core.ValidateOps, one operation of the batch at a time *)

Checking(h) == pc[h] = "validate" /\ Len(plan[h]) <= Len(ops[h])
Current(h)  == plan[h][Len(plan[h])]
Due(h)      == ops[h][Len(plan[h])]

Accept(h) ==
    /\ Checking(h) /\ ~NeverValidated(Current(h), Due(h)) /\ OpOK(Current(h), Due(h))
    /\ plan' = [plan EXCEPT ![h] = Append(@, Simulate(Current(h), Due(h)))]
    /\ UNCHANGED <<db, nextId, tx, pool, pc, ops, reply, served>>

RefuseFirstOnly(h) ==                                           \* mutant
    /\ Checking(h) /\ ~NeverValidated(Current(h), Due(h)) /\ ~OpOK(Current(h), Due(h))
    /\ Len(plan[h]) = 1
    /\ Answer(h, "VALIDATION_FAILED")
    /\ UNCHANGED <<db, nextId, work, writer, pool, served>>
Refuse(h) ==
    /\ Checking(h) /\ ~NeverValidated(Current(h), Due(h)) /\ ~OpOK(Current(h), Due(h))
    /\ Answer(h, "VALIDATION_FAILED")
    /\ UNCHANGED <<db, nextId, work, writer, pool, served>>

(* The loop of isDescendant that never ends *)
Hang(h) ==
    /\ Checking(h) /\ NeverValidated(Current(h), Due(h))
    /\ pc' = [pc EXCEPT ![h] = "spin"]
    /\ UNCHANGED <<db, nextId, tx, pool, ops, plan, reply, served>>

Validated(h) ==
    /\ pc[h] = "validate" /\ Len(plan[h]) > Len(ops[h])
    /\ pc' = [pc EXCEPT ![h] = "begin"]
    /\ UNCHANGED <<db, nextId, tx, pool, ops, plan, reply, served>>

-----------------------------------------------------------------------------
(* Store.ApplyOps *)

(* BEGIN inside of the transaction a refused COMMIT left open is an error. *)
BeginFails(h) ==
    /\ pc[h] = "tx" /\ conn[h] = Stuck
    /\ Release(h)
    /\ Answer(h, "STORAGE_ERROR")
    /\ UNCHANGED <<db, nextId, served>>

(* What the transaction of h reads *)
View(h) == IF writer = h THEN work ELSE db

(* One operation: the first one that runs a statement takes the write lock. *)
Execute(h) ==
    /\ pc[h] = "tx" /\ conn[h] # Stuck /\ at[h] < Len(ops[h])
    /\ LET op == ops[h][at[h] + 1]
       IN  \/ NoStatement(op) /\ UNCHANGED <<work, writer, nextId>>
           \/ /\ ~NoStatement(op)
              /\ writer \in {h, Nil}
              /\ ~StoreFails(View(h), op, conn[h])
              /\ work' = StoreResult(View(h), op, nextId, conn[h])
              /\ writer' = h
              /\ nextId' = nextId + NewIds(op)
    /\ at' = [at EXCEPT ![h] = @ + 1]
    /\ UNCHANGED <<db, pool, pc, ops, plan, reply, served>>

Unlock(h, t) ==
    /\ writer' = IF writer = h THEN Nil ELSE writer
    /\ work' = IF writer = h THEN t ELSE work

(* An operation matches no row or breaks a foreign key, or SQLite refuses a
   statement of it (SQLITE_BUSY, I/O): tx.Rollback.  So ends a COMMIT as well
   that fails in a way SQLite itself answers with a rollback (a full disk). *)
RollbackLeaks(h) ==                                             \* mutant
    /\ pc[h] = "tx" /\ conn[h] # Stuck
    /\ Unlock(h, db)
    /\ Answer(h, "STORAGE_ERROR")
    /\ UNCHANGED <<db, nextId, pool, served>>
RollbackKeeps(h) ==                                             \* mutant
    /\ pc[h] = "tx" /\ conn[h] # Stuck
    /\ db' = View(h)
    /\ Unlock(h, work)
    /\ PutBack(h, conn[h])
    /\ Answer(h, "STORAGE_ERROR")
    /\ UNCHANGED <<nextId, served>>
Rollback(h) ==
    /\ pc[h] = "tx" /\ conn[h] # Stuck
    /\ Unlock(h, db)
    /\ PutBack(h, conn[h])
    /\ Answer(h, "STORAGE_ERROR")
    /\ UNCHANGED <<db, nextId, served>>

Commit(h) ==
    /\ pc[h] = "tx" /\ conn[h] # Stuck /\ at[h] = Len(ops[h])
    /\ db' = View(h)
    /\ Unlock(h, work)
    /\ PutBack(h, conn[h])
    /\ pc' = [pc EXCEPT ![h] = "reload"]
    /\ ops' = [ops EXCEPT ![h] = <<>>]       \* neither is read again
    /\ plan' = [plan EXCEPT ![h] = <<>>]
    /\ at' = [at EXCEPT ![h] = 0]
    /\ UNCHANGED <<nextId, reply, served>>

(* COMMIT waits for a reader and gives up (SQLITE_BUSY): ApplyOps returns without
   a rollback, and database/sql takes the transaction for ended. *)
CommitRefused(h) ==
    /\ pc[h] = "tx" /\ at[h] = Len(ops[h]) /\ writer = h
    /\ PutBack(h, Stuck)
    /\ Strand
    /\ Answer(h, "STORAGE_ERROR")
    /\ UNCHANGED <<db, nextId, served>>

-----------------------------------------------------------------------------
(* The daemon dies and is started again: the open transaction is rolled back,
   the requests in flight are lost, Store.Init runs its PRAGMAs on the first
   connection of a new pool and finds the root in place. *)
Restart ==
    /\ work' = db /\ writer' = Nil /\ at' = [h \in Handlers |-> 0]
    /\ free' = <<TRUE>> /\ conn' = [h \in Handlers |-> Nil]
    /\ pc' = [h \in Handlers |-> "idle"]
    /\ ops' = [h \in Handlers |-> <<>>]
    /\ plan' = [h \in Handlers |-> <<>>]
    /\ reply' = [h \in Handlers |-> "none"]
    /\ UNCHANGED <<db, nextId, served>>

Step(h) ==
    \/ Acquire(h)
    \/ Loaded(h)
    \/ LoadFails(h)
    \/ Accept(h)
    \/ Refuse(h)
    \/ Hang(h)
    \/ Validated(h)
    \/ BeginFails(h)
    \/ Execute(h)
    \/ Rollback(h)
    \/ Commit(h)
    \/ CommitRefused(h)

Next == (\E h \in Handlers : Receive(h) \/ Step(h)) \/ Restart

Spec == Init /\ [][Next]_vars

(* The Go scheduler runs every handler that can run; a statement that waits
   for the write lock gives up after busy_timeout. *)
FairSpec == Spec /\ \A h \in Handlers : WF_vars(Step(h))

-----------------------------------------------------------------------------
(* The state of the handlers and of the store has the types of the code's, and
   the pool keeps MaxIdle idle connections at most. *)
TypeOK ==
    /\ IsTree(db) /\ IsTree(work)
    /\ nextId \in Nat
    /\ writer \in Handlers \cup {Nil, Stuck}
    /\ free \in Seq(Connections) /\ Len(free) <= MaxIdle
    /\ pc \in [Handlers -> Places]
    /\ conn \in [Handlers -> Connections \cup {Nil}]
    /\ ops \in [Handlers -> Batches \cup {<<>>}]
    /\ DOMAIN plan = Handlers
    /\ \A h \in Handlers : /\ plan[h] \in Seq({plan[h][k] : k \in DOMAIN plan[h]})
                           /\ \A k \in DOMAIN plan[h] : IsTree(plan[h][k])
    /\ at \in [Handlers -> Nat]
    /\ reply \in [Handlers -> Replies]
    /\ served \in 0 .. MaxRequests

(* A handler holds a connection exactly while it is inside a query or a
   transaction, and the write lock is in good hands or known to be lost: its
   holder is a handler still in its transaction, or the one connection, idle or
   lent out, that a refused COMMIT left with the transaction open
   (sqlite.go:166-216). *)
LockAccounted ==
    LET idle == {k \in DOMAIN free : free[k] = Stuck}
        lent == {h \in Handlers : conn[h] = Stuck}
    IN  /\ \A h \in Handlers : pc[h] \in Holding <=> conn[h] # Nil
        /\ writer \in Handlers => pc[writer] = "tx" /\ conn[writer] \in BOOLEAN
        /\ IF writer = Stuck
           THEN \/ lent = {} /\ \E k \in DOMAIN free : idle = {k}
                \/ idle = {} /\ \E h \in Handlers : lent = {h}
           ELSE idle = {} /\ lent = {}

(* Whatever the handlers interleave and whichever connections run their
   statements, the root row stays a folder without a parent: ValidateOps checks
   a stale tree, but the root is in every tree (validate.go:50,58,79). *)
RootImmutable == RootKept(db)

(* No interleaving puts a row below a bookmark: the parent's kind was read from
   an older tree, the parent may be gone by now, but no row changes its kind
   and no id is used twice (validate.go:162-171, ulid.go:17). *)
ParentsAreFolders == FolderParents(db)

(* A bookmark in the store has a web url and a folder has none, although
   update_bookmark writes the url of a row whose kind was read from an older
   tree (validate.go:83-95, sqlite.go:261-280). *)
UrlsFollowKind == UrlsMatchKinds(db)

(* Every row is reached from the root: neither a cycle nor a row whose parent
   is gone (design_doc_v1.md 3.4).  Holds while one client is connected. *)
TreeIsRooted == Rooted(db)

(* docs/design_doc_v1.md:126 "Moves cannot create cycles" *)
NoCycle == Acyclic(db)

(* docs/design_doc_v1.md:143 foreign_keys = ON: a row's parent is a row. *)
NoDangling == NoDanglingParent(db)

(* A validator caught in the walk of isDescendant is one whose loaded tree had
   a cycle: it never hangs on a tree without one (validate.go:181-195). *)
SpinOnlyOnCycle == \A h \in Handlers : pc[h] = "spin" => ~Acyclic(plan[h][1])

(* Batches change the tree one after the other, each valid against the tree it
   changes and with foreign keys enforced: apply_ops is serialized
   (docs/design_doc_v1.md:314).  Holds while one client is connected. *)
Serial == INSTANCE TreeService WITH tree <- db, Serialized <- TRUE
SerialService == Serial!Spec

(* Every change of the database is one whole batch, applied in order from the
   first operation to the last: what the transactions give in any case. *)
Atomic == INSTANCE TreeService WITH tree <- db, Serialized <- FALSE
AtomicService == Atomic!Spec

(* Every request is answered (or lost with the daemon).  Holds while one client
   is connected: no cycle is stored then, and only a validator on one spins. *)
EveryRequestEnds == \A h \in Handlers : pc[h] # "idle" ~> pc[h] = "idle"
=============================================================================
