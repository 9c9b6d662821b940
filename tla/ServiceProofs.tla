---------------------------- MODULE ServiceProofs ----------------------------
(***************************************************************************)
(* What apply_ops gives its clients, proved for any batches and any        *)
(* initial tree.  With any number of clients: the database changes by      *)
(* whole batches in order, and a validator spins only on a tree that was   *)
(* loaded with a cycle.  With one client: the daemon is the serialized     *)
(* service of the design document, and every row is reached from the root. *)
(*                                                                         *)
(* A batch is a recursive function over its operations in TreeService and  *)
(* a history of steps in ApplyOps; the two meet by induction on the length *)
(* of the batch.                                                           *)
(***************************************************************************)
EXTENDS ApplyOpsProofs, WellFoundedInduction

(* Induction on the natural numbers, for a set in place of a predicate *)
LEMMA NatSetInduction ==
    ASSUME NEW S, 0 \in S, \A n \in Nat : n \in S => n + 1 \in S
    PROVE  Nat \subseteq S
  <1> DEFINE T == Nat \ S
             R == OpToRel(<, Nat)
  <1> SUFFICES ASSUME T # {} PROVE FALSE
    OBVIOUS
  <1>1. PICK x \in T : \A y \in T : ~ (<<y, x>> \in R)
    <2>1. IsWellFoundedOn(R, Nat)
      BY NatLessThanWellFounded
    <2>2. T \subseteq Nat
      OBVIOUS
    <2> HIDE DEF T, R
    <2> QED BY <2>1, <2>2, WFMin
  <1>2. x # 0 /\ x - 1 \in Nat /\ x - 1 \in T
    OBVIOUS
  <1>3. <<x - 1, x>> \in R
    BY <1>2 DEF OpToRel
  <1> QED BY <1>1, <1>2, <1>3

-----------------------------------------------------------------------------
(* The instances speak of trees in the same words as the model they stand in. *)
LEMMA AtomicTerms ==
    ASSUME NEW t, NEW op, NEW id, NEW fk
    PROVE  /\ Atomic!StoreFails(t, op, fk) = StoreFails(t, op, fk)
           /\ Atomic!StoreResult(t, op, id, fk) = StoreResult(t, op, id, fk)
           /\ Atomic!NewIds(op) = NewIds(op)
  <1>1. Atomic!StoreFails(t, op, fk) = StoreFails(t, op, fk)
    BY Zenon DEF Atomic!StoreFails, StoreFails, Atomic!NoStatement, NoStatement
  <1>2. Atomic!StoreResult(t, op, id, fk) = StoreResult(t, op, id, fk)
    BY Zenon DEF Atomic!StoreResult, StoreResult, Atomic!Inserted, Inserted,
         Atomic!Folder, Folder, Atomic!Bookmark, Bookmark, Atomic!Given, Given,
         Atomic!NoStatement, NoStatement, Atomic!SessionSaved, SessionSaved,
         Atomic!Deleted, Deleted, Atomic!Subtree, Subtree,
         Atomic!IsDescendant, IsDescendant, Atomic!ParentClosed, ParentClosed
  <1>3. Atomic!NewIds(op) = NewIds(op)
    BY Zenon DEF Atomic!NewIds, NewIds
  <1> QED BY <1>1, <1>2, <1>3

LEMMA SerialTerms ==
    ASSUME NEW t, NEW op, NEW id, NEW fk
    PROVE  /\ Serial!StoreFails(t, op, fk) = StoreFails(t, op, fk)
           /\ Serial!StoreResult(t, op, id, fk) = StoreResult(t, op, id, fk)
           /\ Serial!NewIds(op) = NewIds(op)
           /\ Serial!OpOK(t, op) <=> OpOK(t, op)
           /\ Serial!Simulate(t, op) = Simulate(t, op)
  <1>1. Serial!StoreFails(t, op, fk) = StoreFails(t, op, fk)
    BY Zenon DEF Serial!StoreFails, StoreFails, Serial!NoStatement, NoStatement
  <1>2. Serial!StoreResult(t, op, id, fk) = StoreResult(t, op, id, fk)
    BY Zenon DEF Serial!StoreResult, StoreResult, Serial!Inserted, Inserted,
         Serial!Folder, Folder, Serial!Bookmark, Bookmark, Serial!Given, Given,
         Serial!NoStatement, NoStatement, Serial!SessionSaved, SessionSaved,
         Serial!Deleted, Deleted, Serial!Subtree, Subtree,
         Serial!IsDescendant, IsDescendant, Serial!ParentClosed, ParentClosed
  <1>3. Serial!NewIds(op) = NewIds(op)
    BY Zenon DEF Serial!NewIds, NewIds
  <1>4. Serial!OpOK(t, op) <=> OpOK(t, op)
    <2>1. \A S : Serial!Cardinality(S) = Cardinality(S)
      BY Zenon DEF Serial!Cardinality, Cardinality
    <2>2. Serial!Place(t, op) <=> Place(t, op)
      BY <2>1, Zenon DEF Serial!Place, Place, Serial!RequireParentFolder,
           RequireParentFolder, Serial!ValidIndex, ValidIndex, Serial!Children, Children
    <2>3. Serial!Editable(t, op.node) <=> Editable(t, op.node)
      BY Zenon DEF Serial!Editable, Editable, Serial!Root, Root
    <2>4. Serial!MoveOK(t, op) <=> MoveOK(t, op)
      BY <2>2, <2>3, Zenon DEF Serial!MoveOK, MoveOK, Serial!WalksUp, WalksUp,
           Serial!RequireParentFolder, RequireParentFolder,
           Serial!IsDescendant, IsDescendant, Serial!ParentClosed, ParentClosed
    <2>5. Serial!UpdateOK(t, op) <=> UpdateOK(t, op)
      BY Zenon DEF Serial!UpdateOK, UpdateOK
    <2> QED BY <2>2, <2>3, <2>4, <2>5 DEF Serial!OpOK, OpOK
  <1>5. Serial!Simulate(t, op) = Simulate(t, op)
    BY Zenon DEF Serial!Simulate, Simulate
  <1> QED BY <1>1, <1>2, <1>3, <1>4, <1>5

-----------------------------------------------------------------------------
(* Where a transaction stands before and after one operation, as Applied of
   TreeService counts it *)
Before(t, first) == [fails |-> FALSE, tree |-> t, id |-> first]

After(s, op, fk) ==
    IF s.fails \/ StoreFails(s.tree, op, fk)
    THEN [s EXCEPT !.fails = TRUE]
    ELSE [fails |-> FALSE,
          tree  |-> StoreResult(s.tree, op, s.id, fk),
          id    |-> s.id + NewIds(op)]

(* f is the history of the first k operations of b. *)
IsRun(f, t, b, k, first, fk) ==
    f = [j \in 0 .. k |-> IF j = 0 THEN Before(t, first) ELSE After(f[j - 1], b[j], fk)]

(* A batch has one history. *)
LEMMA OneRun ==
    ASSUME NEW t, NEW b, NEW k \in Nat, NEW first, NEW fk,
           NEW f, IsRun(f, t, b, k, first, fk), NEW g, IsRun(g, t, b, k, first, fk)
    PROVE  f = g
  <1> DEFINE S == {j \in Nat : j <= k => f[j] = g[j]}
  <1>0. /\ DOMAIN f = 0 .. k /\ DOMAIN g = 0 .. k
        /\ f = [j \in 0 .. k |-> f[j]] /\ g = [j \in 0 .. k |-> g[j]]
    BY Zenon DEF IsRun
  <1>1. \A j \in 0 .. k :
           /\ f[j] = IF j = 0 THEN Before(t, first) ELSE After(f[j - 1], b[j], fk)
           /\ g[j] = IF j = 0 THEN Before(t, first) ELSE After(g[j - 1], b[j], fk)
    BY Zenon DEF IsRun
  <1>2. 0 \in S
    BY <1>1
  <1>3. ASSUME NEW n \in Nat, n \in S PROVE n + 1 \in S
    <2>1. SUFFICES ASSUME n + 1 <= k PROVE f[n + 1] = g[n + 1]
      OBVIOUS
    <2>2. n + 1 \in 0 .. k /\ n + 1 # 0 /\ (n + 1) - 1 = n /\ f[n] = g[n]
      BY <1>3, <2>1
    <2> QED BY <1>1, <2>2
  <1>4. Nat \subseteq S
    <2> HIDE DEF S
    <2> QED BY <1>2, <1>3, NatSetInduction
  <1>5. \A j \in 0 .. k : f[j] = g[j]
    BY <1>4
  <1> QED BY <1>0, <1>5

(* A batch whose history is f is applied as f says. *)
LEMMA AppliedAtomic ==
    ASSUME NEW t, NEW b, Len(b) \in Nat, NEW first, NEW fk,
           NEW f, IsRun(f, t, b, Len(b), first, fk)
    PROVE  Atomic!Applied(t, b, first, fk) = f[Len(b)]
  <1> DEFINE Good(r) == r = [k \in 0 .. Len(b) |->
            IF k = 0 THEN [fails |-> FALSE, tree |-> t, id |-> first]
            ELSE LET s == r[k - 1]
                 IN  IF s.fails \/ Atomic!StoreFails(s.tree, b[k], fk)
                     THEN [s EXCEPT !.fails = TRUE]
                     ELSE [fails |-> FALSE,
                           tree  |-> Atomic!StoreResult(s.tree, b[k], s.id, fk),
                           id    |-> s.id + Atomic!NewIds(b[k])]]
  <1>1. Atomic!Applied(t, b, first, fk) = (CHOOSE r : Good(r))[Len(b)]
    BY Zenon DEF Atomic!Applied
  <1>2. ASSUME NEW r PROVE Good(r) <=> IsRun(r, t, b, Len(b), first, fk)
    <2>1. ASSUME NEW k
          PROVE  LET s == r[k - 1]
                 IN  After(s, b[k], fk) =
                        IF s.fails \/ Atomic!StoreFails(s.tree, b[k], fk)
                        THEN [s EXCEPT !.fails = TRUE]
                        ELSE [fails |-> FALSE,
                              tree  |-> Atomic!StoreResult(s.tree, b[k], s.id, fk),
                              id    |-> s.id + Atomic!NewIds(b[k])]
      BY AtomicTerms, Zenon DEF After
    <2> QED BY <2>1, Zenon DEF IsRun, Before
  <1> HIDE DEF Good
  <1>3. Good(CHOOSE r : Good(r))
    BY <1>2
  <1>4. (CHOOSE r : Good(r)) = f
    BY <1>2, <1>3, OneRun
  <1> QED BY <1>1, <1>4

LEMMA AppliedSerial ==
    ASSUME NEW t, NEW b, Len(b) \in Nat, NEW first, NEW fk,
           NEW f, IsRun(f, t, b, Len(b), first, fk)
    PROVE  Serial!Applied(t, b, first, fk) = f[Len(b)]
  <1> DEFINE Good(r) == r = [k \in 0 .. Len(b) |->
            IF k = 0 THEN [fails |-> FALSE, tree |-> t, id |-> first]
            ELSE LET s == r[k - 1]
                 IN  IF s.fails \/ Serial!StoreFails(s.tree, b[k], fk)
                     THEN [s EXCEPT !.fails = TRUE]
                     ELSE [fails |-> FALSE,
                           tree  |-> Serial!StoreResult(s.tree, b[k], s.id, fk),
                           id    |-> s.id + Serial!NewIds(b[k])]]
  <1>1. Serial!Applied(t, b, first, fk) = (CHOOSE r : Good(r))[Len(b)]
    BY Zenon DEF Serial!Applied
  <1>2. ASSUME NEW r PROVE Good(r) <=> IsRun(r, t, b, Len(b), first, fk)
    <2>1. ASSUME NEW k
          PROVE  LET s == r[k - 1]
                 IN  After(s, b[k], fk) =
                        IF s.fails \/ Serial!StoreFails(s.tree, b[k], fk)
                        THEN [s EXCEPT !.fails = TRUE]
                        ELSE [fails |-> FALSE,
                              tree  |-> Serial!StoreResult(s.tree, b[k], s.id, fk),
                              id    |-> s.id + Serial!NewIds(b[k])]
      BY SerialTerms, Zenon DEF After
    <2> QED BY <2>1, Zenon DEF IsRun, Before
  <1> HIDE DEF Good
  <1>3. Good(CHOOSE r : Good(r))
    BY <1>2
  <1>4. (CHOOSE r : Good(r)) = f
    BY <1>2, <1>3, OneRun
  <1> QED BY <1>1, <1>4

(* A batch whose operations were accepted one by one, each on the tree the one before
   left in the validator, is valid. *)
LEMMA AcceptedIsValid ==
    ASSUME NEW t, NEW b, Len(b) \in Nat, NEW p, p[1] = t,
           \A k \in 1 .. Len(b) : OpOK(p[k], b[k]) /\ p[k + 1] = Simulate(p[k], b[k])
    PROVE  Serial!ValidBatch(t, b)
  <1> DEFINE Good(r) == r = [k \in 0 .. Len(b) |->
                IF k = 0 THEN t ELSE Serial!Simulate(r[k - 1], b[k])]
             f == [k \in 0 .. Len(b) |-> p[k + 1]]
             c == CHOOSE r : Good(r)
             S == {j \in Nat : j <= Len(b) => c[j] = p[j + 1]}
  <1>1. Serial!ValidBatch(t, b) <=> \A k \in 1 .. Len(b) : Serial!OpOK(c[k - 1], b[k])
    BY Zenon DEF Serial!ValidBatch
  <1>2. Good(f)
    <2>1. ASSUME NEW k \in 0 .. Len(b)
          PROVE  p[k + 1] = IF k = 0 THEN t ELSE Serial!Simulate(f[k - 1], b[k])
      <3>1. CASE k = 0
        BY <3>1
      <3>2. CASE k # 0
        <4>1. k \in 1 .. Len(b) /\ k - 1 \in 0 .. Len(b) /\ (k - 1) + 1 = k
          BY <3>2
        <4>2. f[k - 1] = p[k]
          BY <4>1
        <4>3. Serial!Simulate(p[k], b[k]) = Simulate(p[k], b[k])
          BY SerialTerms
        <4> HIDE DEF f
        <4> QED BY <3>2, <4>1, <4>2, <4>3
      <3> QED BY <3>1, <3>2
    <2> QED BY <2>1, Zenon
  <1>3. Good(c)
    <2> HIDE DEF Good, f
    <2> QED BY <1>2
  <1>4. \A j \in 0 .. Len(b) : c[j] = IF j = 0 THEN t ELSE Serial!Simulate(c[j - 1], b[j])
    <2> HIDE DEF c
    <2> QED BY <1>3, Zenon
  <1> HIDE DEF c, Good, f
  <1>5. 0 \in S
    BY <1>4
  <1>6. ASSUME NEW n \in Nat, n \in S PROVE n + 1 \in S
    <2>1. SUFFICES ASSUME n + 1 <= Len(b) PROVE c[n + 1] = p[(n + 1) + 1]
      OBVIOUS
    <2>2. /\ n + 1 \in 0 .. Len(b) /\ n + 1 \in 1 .. Len(b) /\ n + 1 # 0
          /\ (n + 1) - 1 = n /\ c[n] = p[n + 1]
      BY <1>6, <2>1
    <2>3. Serial!Simulate(p[n + 1], b[n + 1]) = Simulate(p[n + 1], b[n + 1])
      BY SerialTerms
    <2> QED BY <1>4, <2>2, <2>3
  <1>7. Nat \subseteq S
    <2> HIDE DEF S
    <2> QED BY <1>5, <1>6, NatSetInduction
  <1>8. ASSUME NEW k \in 1 .. Len(b) PROVE Serial!OpOK(c[k - 1], b[k])
    <2>1. k - 1 \in Nat /\ k - 1 <= Len(b) /\ (k - 1) + 1 = k
      OBVIOUS
    <2>2. c[k - 1] = p[k]
      BY <1>7, <2>1
    <2>3. Serial!OpOK(p[k], b[k]) <=> OpOK(p[k], b[k])
      BY SerialTerms
    <2> QED BY <2>2, <2>3
  <1> QED BY <1>1, <1>8

-----------------------------------------------------------------------------
(* What a step does to the trees of a validator: it drops them, leaves them, loads
   the first one, or adds the one that an accepted operation gives. *)
PlanMoves(g) ==
    \/ plan'[g] = <<>>
    \/ plan'[g] = plan[g] /\ ops'[g] = ops[g]
    \/ plan'[g] = <<Seen(g)>> /\ conn[g] # Nil
    \/ /\ plan'[g] = Append(plan[g], Simulate(Current(g), Due(g)))
       /\ ops'[g] = ops[g]
       /\ plan[g] # <<>> /\ OpOK(Current(g), Due(g))

LEMMA PlansMove ==
    ASSUME IInv, [Next]_vars, NEW g \in Handlers
    PROVE  PlanMoves(g)
  <1>0. /\ pc \in [Handlers -> Places] /\ ops \in [Handlers -> Batches \cup {<<>>}]
        /\ DOMAIN plan = Handlers /\ \A h \in Handlers : Accepted(h)
    BY DEF IInv, Typed, Pooled, Plans
  <1>1. CASE UNCHANGED <<plan, ops>>
    BY <1>1 DEF PlanMoves
  <1>2. CASE Restart
    BY <1>2 DEF Restart, PlanMoves
  <1>3. ASSUME NEW h \in Handlers, plan' = [plan EXCEPT ![h] = <<>>],
               ops' = [ops EXCEPT ![h] = <<>>]
        PROVE  PlanMoves(g)
    BY <1>0, <1>3 DEF PlanMoves
  <1>4. ASSUME NEW h \in Handlers, Receive(h) PROVE PlanMoves(g)
    <2>1. plan[h] = <<>> /\ UNCHANGED plan
      BY <1>0, <1>4 DEF Receive, Accepted
    <2>2. g # h => ops'[g] = ops[g]
      BY <1>0, <1>4 DEF Receive
    <2> QED BY <2>1, <2>2 DEF PlanMoves
  <1>5. ASSUME NEW h \in Handlers, Loaded(h) PROVE PlanMoves(g)
    <2>1. conn[h] # Nil
      BY <1>5 DEF Loaded, Holding, IInv, Pooled
    <2>2. CASE plan' = [plan EXCEPT ![h] = <<Seen(h)>>] /\ UNCHANGED ops
      BY <1>0, <2>1, <2>2 DEF PlanMoves
    <2> QED BY <1>3, <1>5, <2>2 DEF Loaded, Answer
  <1>6. ASSUME NEW h \in Handlers, Accept(h) PROVE PlanMoves(g)
    <2>1. /\ plan' = [plan EXCEPT ![h] = Append(plan[h], Simulate(Current(h), Due(h)))]
          /\ UNCHANGED ops /\ OpOK(Current(h), Due(h)) /\ pc[h] = "validate"
      BY <1>6 DEF Accept, Checking
    <2>2. plan[h] # <<>>
      <3>1. Len(plan[h]) > 0
        BY <1>0, <2>1 DEF Accepted
      <3>2. Len(<<>>) = 0
        OBVIOUS
      <3> QED BY <3>1, <3>2
    <2> QED BY <1>0, <2>1, <2>2 DEF PlanMoves
  <1>7. ASSUME NEW h \in Handlers, LoadFails(h) \/ Refuse(h) \/ BeginFails(h) \/ Rollback(h)
                                  \/ Commit(h) \/ CommitRefused(h)
        PROVE  PlanMoves(g)
    BY <1>3, <1>7 DEF LoadFails, Refuse, BeginFails, Rollback, Commit, CommitRefused, Answer
  <1>8. ASSUME NEW h \in Handlers, Acquire(h) \/ Hang(h) \/ Validated(h) \/ Execute(h)
        PROVE  UNCHANGED <<plan, ops>>
    BY <1>8 DEF Acquire, Hang, Validated, Execute
  <1>9. UNCHANGED vars => UNCHANGED <<plan, ops>>
    BY DEF vars
  <1> QED BY <1>1, <1>2, <1>4, <1>5, <1>6, <1>7, <1>8, <1>9 DEF Next, Step

(* The trees of a validator and one more *)
LEMMA PlanAppended ==
    ASSUME IInv, NEW g \in Handlers, NEW v
    PROVE  /\ Len(plan[g]) \in Nat
           /\ DOMAIN plan[g] = 1 .. Len(plan[g])
           /\ plan[g] # <<>> => 1 <= Len(plan[g])
           /\ Len(Append(plan[g], v)) = Len(plan[g]) + 1
           /\ DOMAIN Append(plan[g], v) = 1 .. Len(plan[g]) + 1
           /\ \A k \in 1 .. Len(plan[g]) : Append(plan[g], v)[k] = plan[g][k]
           /\ Append(plan[g], v)[Len(plan[g]) + 1] = v
  <1> DEFINE p == plan[g]
             S == {p[k] : k \in DOMAIN p} \cup {v}
  <1>1. p \in Seq({p[k] : k \in DOMAIN p})
    BY DEF IInv, Plans, Accepted
  <1>2. p \in Seq(S) /\ v \in S
    BY <1>1
  <1> HIDE DEF p, S
  <1>3. /\ Len(p) \in Nat /\ DOMAIN p = 1 .. Len(p)
        /\ p # <<>> => 1 <= Len(p)
    BY <1>2, LenProperties, EmptySeq
  <1>4. /\ Append(p, v) \in Seq(S) /\ Len(Append(p, v)) = Len(p) + 1
        /\ \A k \in 1 .. Len(p) : Append(p, v)[k] = p[k]
        /\ Append(p, v)[Len(p) + 1] = v
    BY <1>2, AppendProperties
  <1>5. DOMAIN Append(p, v) = 1 .. Len(p) + 1
    BY <1>4, LenProperties
  <1> QED BY <1>3, <1>4, <1>5 DEF p

(* The trees of a validator are trees. *)
LEMMA PlanTrees == IInv => \A h \in Handlers : \A k \in DOMAIN plan[h] : IsTree(plan[h][k])
  BY IInvTypeOK DEF TypeOK

-----------------------------------------------------------------------------
(* A validator spins only on a cycle it loaded: its own operations make none. *)
AcyclicSoFar(h) ==
    \A k \in DOMAIN plan[h] : Acyclic(plan[h][1]) => Acyclic(plan[h][k])

Caught(h) == pc[h] = "spin" => plan[h] # <<>> /\ ~ Acyclic(Current(h))

SpinInv == \A h \in Handlers : AcyclicSoFar(h) /\ Caught(h)

LEMMA AcyclicSoFarStep ==
    ASSUME IInv, [Next]_vars, NEW g \in Handlers, AcyclicSoFar(g)
    PROVE  AcyclicSoFar(g)'
  <1>1. CASE plan'[g] = <<>> \/ plan'[g] = plan[g] \/ plan'[g] = <<Seen(g)>>
    BY <1>1 DEF AcyclicSoFar
  <1>2. CASE /\ plan'[g] = Append(plan[g], Simulate(Current(g), Due(g)))
             /\ plan[g] # <<>> /\ OpOK(Current(g), Due(g))
    <2> DEFINE v == Simulate(Current(g), Due(g))
               n == Len(plan[g])
    <2>1. /\ n \in Nat /\ 1 <= n /\ DOMAIN plan[g] = 1 .. n
          /\ DOMAIN plan'[g] = 1 .. n + 1
          /\ \A k \in 1 .. n : plan'[g][k] = plan[g][k]
          /\ plan'[g][n + 1] = v
      BY <1>2, PlanAppended
    <2>2. n \in DOMAIN plan[g] /\ Current(g) = plan[g][n]
      BY <2>1 DEF Current
    <2>3. Acyclic(Current(g)) => Acyclic(v)
      BY <1>2, <2>2, PlanTrees, SimulateAcyclic
    <2>4. SUFFICES ASSUME NEW k \in 1 .. n + 1, Acyclic(plan[g][1])
                   PROVE  Acyclic(plan'[g][k])
      BY <2>1 DEF AcyclicSoFar
    <2>5. k \in 1 .. n \/ k = n + 1
      BY <2>1
    <2> HIDE DEF n, v
    <2> QED BY <2>1, <2>2, <2>3, <2>4, <2>5 DEF AcyclicSoFar
  <1> QED BY <1>1, <1>2, PlansMove DEF PlanMoves

LEMMA CaughtStep ==
    ASSUME IInv, [Next]_vars, NEW g \in Handlers, Caught(g)
    PROVE  Caught(g)'
  <1>0. pc \in [Handlers -> Places] /\ DOMAIN plan = Handlers /\ \A h \in Handlers : Accepted(h)
    BY DEF IInv, Pooled, Plans
  <1>1. CASE pc'[g] # "spin"
    BY <1>1 DEF Caught
  <1>2. CASE pc'[g] = pc[g] /\ plan'[g] = plan[g]
    BY <1>2 DEF Caught, Current
  <1>3. CASE Hang(g)
    <2>1. /\ pc[g] = "validate" /\ NeverValidated(Current(g), Due(g)) /\ UNCHANGED plan
      BY <1>3 DEF Hang, Checking
    <2>2. plan[g] # <<>>
      BY <1>0, <2>1, EmptySeq DEF Accepted
    <2>3. ~ Acyclic(Current(g))
      BY <2>1, AcyclicEnds
    <2> QED BY <2>1, <2>2, <2>3 DEF Caught, Current
  <1>4. ASSUME NEW h \in Handlers, Receive(h) \/ Step(h), h # g
        PROVE  pc'[g] = pc[g] /\ plan'[g] = plan[g]
    BY <1>0, <1>4 DEF Step, Receive, Acquire, Loaded, LoadFails, Accept, Refuse, Hang,
         Validated, BeginFails, Execute, Rollback, Commit, CommitRefused, Answer
  <1>5. CASE Receive(g) \/ Acquire(g) \/ Loaded(g) \/ LoadFails(g) \/ Refuse(g) \/ Accept(g)
             \/ Validated(g) \/ BeginFails(g) \/ Execute(g) \/ Rollback(g) \/ Commit(g)
             \/ CommitRefused(g)
    <2>1. pc'[g] # "spin"
      BY <1>0, <1>5 DEF Receive, Acquire, Waiting, Loaded, LoadFails, Refuse, Accept, Checking,
           Validated, BeginFails, Execute, Rollback, Commit, CommitRefused, Answer
    <2> QED BY <1>1, <2>1
  <1>6. CASE UNCHANGED vars
    BY <1>2, <1>6 DEF vars
  <1>7. CASE Restart
    BY <1>1, <1>7 DEF Restart
  <1> QED BY <1>2, <1>3, <1>4, <1>5, <1>6, <1>7 DEF Next, Step

(* In every reachable state a validator's operations have made no cycle. *)
THEOREM SpinInductive == Spec => []SpinInv
  <1>1. Init => SpinInv
    BY DEF Init, SpinInv, AcyclicSoFar, Caught
  <1>2. IInv /\ SpinInv /\ [Next]_vars => SpinInv'
    BY AcyclicSoFarStep, CaughtStep DEF SpinInv
  <1> QED BY <1>1, <1>2, Inductive, PTL DEF Spec

(* A validator caught in the endless walk of isDescendant has loaded a tree with a
   cycle, whatever the other clients do meanwhile (validate.go:181-195). *)
THEOREM SpinsOnlyOnCycle == Spec => []SpinOnlyOnCycle
  <1>1. IInv /\ SpinInv => SpinOnlyOnCycle
    <2> SUFFICES ASSUME IInv, SpinInv, NEW h \in Handlers, pc[h] = "spin"
                 PROVE  ~ Acyclic(plan[h][1])
      BY DEF SpinOnlyOnCycle
    <2>1. plan[h] # <<>> /\ ~ Acyclic(plan[h][Len(plan[h])])
      BY DEF SpinInv, Caught, Current
    <2>2. Len(plan[h]) \in DOMAIN plan[h]
      BY <2>1, PlanAppended
    <2> QED BY <2>1, <2>2 DEF SpinInv, AcyclicSoFar
  <1> QED BY <1>1, Inductive, SpinInductive, PTL

-----------------------------------------------------------------------------
(* The first k operations of b take the rows t to u, and the ids from first on to
   those below id. *)
Leads(t, b, k, first, fk, u, id) == \E f :
    IsRun(f, t, b, k, first, fk) /\ f[k] = [fails |-> FALSE, tree |-> u, id |-> id]

(* Operations that run no statement lead nowhere ... *)
LEMMA QuietLeads ==
    ASSUME NEW t, NEW b, NEW k \in Nat, NEW first \in Nat, NEW fk,
           \A j \in 1 .. k : NoStatement(b[j])
    PROVE  Leads(t, b, k, first, fk, t, first)
  <1> DEFINE f == [j \in 0 .. k |-> Before(t, first)]
  <1>1. ASSUME NEW op, NoStatement(op)
        PROVE  After(Before(t, first), op, fk) = Before(t, first)
    <2>1. ~ StoreFails(t, op, fk)
      BY <1>1 DEF StoreFails, NoStatement
    <2>2. StoreResult(t, op, first, fk) = t
      BY <1>1 DEF StoreResult, NoStatement
    <2>3. NewIds(op) = 0
      BY <1>1 DEF NewIds, NoStatement
    <2> DEFINE s == Before(t, first)
    <2>4. s.fails = FALSE /\ s.tree = t /\ s.id = first
      BY DEF Before
    <2>5. first + NewIds(op) = first
      BY <2>3
    <2> HIDE DEF s
    <2>6. After(s, op, fk) = [fails |-> FALSE, tree |-> t, id |-> first]
      BY <2>1, <2>2, <2>4, <2>5, Zenon DEF After
    <2> QED BY <2>6 DEF s, Before
  <1>2. ASSUME NEW j \in 0 .. k
        PROVE  f[j] = IF j = 0 THEN Before(t, first) ELSE After(f[j - 1], b[j], fk)
    <2>1. j # 0 => j \in 1 .. k /\ j - 1 \in 0 .. k
      OBVIOUS
    <2>2. j # 0 => f[j - 1] = Before(t, first)
      BY <2>1
    <2> QED BY <1>1, <2>1, <2>2
  <1>3. f = [j \in 0 .. k |-> f[j]]
    OBVIOUS
  <1> HIDE DEF f
  <1>4. IsRun(f, t, b, k, first, fk)
    BY <1>2, <1>3, Zenon DEF IsRun
  <1>5. f[k] = [fails |-> FALSE, tree |-> t, id |-> first]
    BY DEF f, Before
  <1> QED BY <1>4, <1>5 DEF Leads

(* ... and one more operation leads on to what the store makes of it. *)
LEMMA LeadsOn ==
    ASSUME NEW t, NEW b, NEW k \in Nat, NEW first, NEW fk, NEW u, NEW id,
           Leads(t, b, k, first, fk, u, id), ~ StoreFails(u, b[k + 1], fk)
    PROVE  Leads(t, b, k + 1, first, fk, StoreResult(u, b[k + 1], id, fk),
                 id + NewIds(b[k + 1]))
  <1>1. PICK f : IsRun(f, t, b, k, first, fk) /\ f[k] = [fails |-> FALSE, tree |-> u, id |-> id]
    BY DEF Leads
  <1> DEFINE last == After(f[k], b[k + 1], fk)
             g == [j \in 0 .. k + 1 |-> IF j = k + 1 THEN last ELSE f[j]]
  <1>2. last = [fails |-> FALSE, tree |-> StoreResult(u, b[k + 1], id, fk),
                id |-> id + NewIds(b[k + 1])]
    BY <1>1 DEF After
  <1>3. \A j \in 0 .. k :
           f[j] = IF j = 0 THEN Before(t, first) ELSE After(f[j - 1], b[j], fk)
    BY <1>1, Zenon DEF IsRun
  <1>4. g[k + 1] = last /\ \A j \in 0 .. k : g[j] = f[j]
    OBVIOUS
  <1>5. g = [j \in 0 .. k + 1 |-> g[j]]
    OBVIOUS
  <1> HIDE DEF g
  <1>6. ASSUME NEW j \in 0 .. k + 1
        PROVE  g[j] = IF j = 0 THEN Before(t, first) ELSE After(g[j - 1], b[j], fk)
    <2>1. CASE j = k + 1
      <3>1. j # 0 /\ j - 1 = k /\ k \in 0 .. k
        BY <2>1
      <3>2. g[j - 1] = f[k]
        BY <1>4, <3>1
      <3> QED BY <1>4, <2>1, <3>1, <3>2
    <2>2. CASE j # k + 1
      <3>1. j \in 0 .. k /\ (j # 0 => j - 1 \in 0 .. k)
        BY <2>2
      <3> HIDE DEF last
      <3> QED BY <1>3, <1>4, <3>1
    <2> QED BY <2>1, <2>2
  <1>7. IsRun(g, t, b, k + 1, first, fk)
    BY <1>5, <1>6, Zenon DEF IsRun
  <1> QED BY <1>2, <1>4, <1>7 DEF Leads

-----------------------------------------------------------------------------
(* A transaction without the write lock has run no statement.  One with it has
   taken the committed rows to the rows it works on, by its operations so far; the
   ids of its new rows are the last ones handed out. *)
Quiet(h) == \A k \in 1 .. at[h] : NoStatement(ops[h][k])

HalfDone(h) == \E first \in 0 .. nextId :
    /\ \A n \in DOMAIN db : n < first
    /\ Leads(db, ops[h], at[h], first, conn[h], work, nextId)

Begun(h) ==
    /\ writer = h => pc[h] = "tx" /\ HalfDone(h)
    /\ pc[h] = "tx" /\ writer # h => Quiet(h)
    /\ pc[h] # "tx" => at[h] = 0

TxInv == \A h \in Handlers : Begun(h)

(* A step of another client does not touch the transaction of the writer, nor the
   batch of anyone. *)
LEMMA OthersLeave ==
    ASSUME IInv, NEW g \in Handlers, NEW h \in Handlers, g # h, Receive(g) \/ Step(g)
    PROVE  /\ pc'[h] = pc[h] /\ ops'[h] = ops[h] /\ at'[h] = at[h] /\ conn'[h] = conn[h]
           /\ writer' = h => writer = h
           /\ writer = h => UNCHANGED <<db, work, writer, nextId>>
  <1>0. /\ pc \in [Handlers -> Places] /\ ops \in [Handlers -> Batches \cup {<<>>}]
        /\ at \in [Handlers -> Nat] /\ conn \in [Handlers -> Connections \cup {Nil}]
        /\ writer \in Handlers \cup {Nil, Stuck} /\ Nil \notin Handlers /\ Stuck \notin Handlers
        /\ conn[g] = Stuck => writer = Stuck
    BY SmallConstants DEF IInv, Typed, Pooled, Locked
  <1>1. CASE Receive(g)
    BY <1>0, <1>1 DEF Receive, tx, pool
  <1>2. CASE Acquire(g)
    BY <1>0, <1>2 DEF Acquire, tx
  <1>3. CASE Loaded(g) \/ LoadFails(g) \/ BeginFails(g)
    <2>1. /\ PutBack(g, conn[g]) /\ UNCHANGED <<db, nextId>>
          /\ (conn[g] = Stuck /\ Strand) \/ UNCHANGED <<work, writer>>
      BY <1>3 DEF Loaded, LoadFails, BeginFails, Release
    <2>2. writer' = h => writer = h
      BY <1>0, <2>1 DEF Strand
    <2>3. writer = h => UNCHANGED <<db, work, writer, nextId>>
      BY <1>0, <2>1
    <2>4. pc'[h] = pc[h] /\ ops'[h] = ops[h] /\ at'[h] = at[h]
      BY <1>0, <1>3 DEF Loaded, LoadFails, BeginFails, Answer
    <2> QED BY <1>0, <2>1, <2>2, <2>3, <2>4 DEF PutBack
  <1>4. CASE Accept(g) \/ Hang(g) \/ Validated(g)
    BY <1>0, <1>4 DEF Accept, Hang, Validated, tx, pool
  <1>5. CASE Refuse(g)
    BY <1>0, <1>5 DEF Refuse, Answer, pool
  <1>6. CASE Execute(g)
    BY <1>0, <1>6 DEF Execute, pool
  <1>7. CASE Rollback(g)
    BY <1>0, <1>7 DEF Rollback, Unlock, PutBack, Answer
  <1>8. CASE Commit(g)
    BY <1>0, <1>8 DEF Commit, View, Unlock, PutBack
  <1>9. CASE CommitRefused(g)
    <2>1. writer' \in {Nil, Stuck} /\ writer = g
      BY <1>9 DEF CommitRefused, Strand
    <2>2. pc'[h] = pc[h] /\ ops'[h] = ops[h] /\ at'[h] = at[h] /\ conn'[h] = conn[h]
      BY <1>0, <1>9 DEF CommitRefused, PutBack, Answer
    <2> QED BY <1>0, <2>1, <2>2
  <1> QED BY <1>1, <1>2, <1>3, <1>4, <1>5, <1>6, <1>7, <1>8, <1>9 DEF Step

(* An operation hands out ids, never takes them back. *)
LEMMA IdsGrow ==
    ASSUME IInv, NEW h \in Handlers, Execute(h)
    PROVE  nextId \in Nat /\ nextId' \in Nat /\ nextId' >= nextId
  <1> DEFINE op == ops[h][at[h] + 1]
  <1>1. ops[h] \in Batches \cup {<<>>} /\ at[h] \in Nat /\ at[h] < Len(ops[h]) /\ nextId \in Nat
    BY DEF Execute, IInv, Typed
  <1>2. op \in Op \cup UnknownOp
    BY <1>1, BatchOps
  <1>3. NewIds(op) \in Nat
    <2> DEFINE K == [i \in Nat |-> "folder"]
    <2>1. K \in KindMap
      BY DEF KindMap, Kinds
    <2> HIDE DEF op, K
    <2> QED BY <1>2, <2>1, KindsAfterLater
  <1>4. nextId' = nextId \/ nextId' = nextId + NewIds(op)
    BY DEF Execute
  <1> HIDE DEF op
  <1> QED BY <1>1, <1>3, <1>4

LEMMA BegunKept ==
    ASSUME NEW h \in Handlers, Begun(h),
           pc'[h] = pc[h], ops'[h] = ops[h], at'[h] = at[h], conn'[h] = conn[h],
           writer' = h => writer = h,
           writer = h => UNCHANGED <<db, work, writer, nextId>>
    PROVE  Begun(h)'
  BY DEF Begun, HalfDone, Quiet

LEMMA BegunStep ==
    ASSUME IInv, TxInv, [Next]_vars, NEW h \in Handlers
    PROVE  Begun(h)'
  <1>0. /\ pc \in [Handlers -> Places] /\ ops \in [Handlers -> Batches \cup {<<>>}]
        /\ at \in [Handlers -> Nat] /\ conn \in [Handlers -> Connections \cup {Nil}]
        /\ writer \in Handlers \cup {Nil, Stuck} /\ nextId \in Nat
        /\ Nil \notin Handlers /\ Stuck \notin Handlers
        /\ Begun(h)
    BY SmallConstants DEF IInv, Typed, Pooled, TxInv
  <1>1. CASE UNCHANGED vars
    BY <1>0, <1>1, BegunKept DEF vars, tx, pool
  <1>2. CASE Restart
    BY <1>0, <1>2 DEF Restart, Begun
  <1>3. ASSUME NEW g \in Handlers, g # h, Receive(g) \/ Step(g) PROVE Begun(h)'
    BY <1>0, <1>3, OthersLeave, BegunKept
  <1>4. CASE /\ pc[h] # "tx" /\ pc'[h] # "tx"
             /\ writer' = h => writer = h
             /\ at'[h] \in {0, at[h]}
    BY <1>0, <1>4 DEF Begun
  <1>5. CASE Receive(h) \/ Loaded(h) \/ LoadFails(h) \/ Accept(h) \/ Refuse(h) \/ Hang(h)
             \/ Validated(h)
    <2>1. pc[h] # "tx" /\ pc'[h] # "tx"
      BY <1>0, <1>5 DEF Receive, Loaded, LoadFails, Accept, Checking, Refuse, Hang, Validated, Answer
    <2>2. (writer' = h => writer = h) /\ at'[h] \in {0, at[h]}
      BY <1>0, <1>5 DEF Receive, Loaded, LoadFails, Release, Strand, Accept, Refuse, Hang,
           Validated, Answer, tx
    <2> QED BY <1>4, <2>1, <2>2
  <1>6. CASE Acquire(h)
    <2>1. pc[h] # "tx" /\ UNCHANGED <<writer, at>>
      BY <1>6 DEF Acquire, Waiting, tx
    <2>2. at[h] = 0 /\ writer # h
      BY <1>0, <2>1 DEF Begun
    <2> QED BY <2>1, <2>2 DEF Begun, Quiet
  <1>7. CASE BeginFails(h) \/ Rollback(h) \/ Commit(h) \/ CommitRefused(h)
    <2>1. pc'[h] # "tx" /\ at'[h] = 0
      BY <1>0, <1>7 DEF BeginFails, Rollback, Commit, CommitRefused, Answer
    <2>2. writer' # h
      BY <1>0, <1>7 DEF BeginFails, Release, Strand, Rollback, Commit, CommitRefused, Unlock
    <2> QED BY <2>1, <2>2 DEF Begun
  <1>8. CASE Execute(h)
    <2> DEFINE k == at[h]
               op == ops[h][k + 1]
    <2>1. /\ pc[h] = "tx" /\ pc'[h] = "tx" /\ at'[h] = k + 1 /\ k \in Nat
          /\ ops'[h] = ops[h] /\ conn'[h] = conn[h] /\ UNCHANGED db
      BY <1>0, <1>8 DEF Execute, pool
    <2>2. CASE NoStatement(op) /\ UNCHANGED <<work, writer, nextId>>
      <3>1. CASE writer = h
        <4>1. PICK first \in 0 .. nextId : /\ \A n \in DOMAIN db : n < first
                                           /\ Leads(db, ops[h], k, first, conn[h], work, nextId)
          BY <1>0, <3>1 DEF Begun, HalfDone
        <4>2. ~ StoreFails(work, op, conn[h])
          BY <2>2 DEF StoreFails, NoStatement
        <4>3. StoreResult(work, op, nextId, conn[h]) = work /\ NewIds(op) = 0
          BY <2>2 DEF StoreResult, NewIds, NoStatement
        <4>4. Leads(db, ops[h], k + 1, first, conn[h], work, nextId + 0)
          BY <2>1, <4>1, <4>2, <4>3, LeadsOn
        <4>5. HalfDone(h)'
          BY <1>0, <2>1, <2>2, <4>1, <4>4 DEF HalfDone
        <4> QED BY <2>1, <2>2, <3>1, <4>5 DEF Begun
      <3>2. CASE writer # h
        <4>1. \A j \in 1 .. k : NoStatement(ops[h][j])
          BY <1>0, <2>1, <3>2 DEF Begun, Quiet
        <4>2. \A j \in 1 .. k + 1 : NoStatement(ops[h][j])
          <5> SUFFICES ASSUME NEW j \in 1 .. k + 1 PROVE NoStatement(ops[h][j])
            OBVIOUS
          <5>1. j \in 1 .. k \/ j = k + 1
            BY <2>1
          <5> QED BY <2>2, <4>1, <5>1
        <4> QED BY <2>1, <2>2, <3>2, <4>2 DEF Begun, Quiet
      <3> QED BY <3>1, <3>2
    <2>3. CASE /\ writer \in {h, Nil}
               /\ ~ StoreFails(View(h), op, conn[h])
               /\ work' = StoreResult(View(h), op, nextId, conn[h])
               /\ writer' = h
               /\ nextId' = nextId + NewIds(op)
      <3>1. PICK first \in 0 .. nextId : /\ \A n \in DOMAIN db : n < first
                                         /\ Leads(db, ops[h], k, first, conn[h], View(h), nextId)
        <4>1. CASE writer = h
          BY <1>0, <4>1 DEF Begun, HalfDone, View
        <4>2. CASE writer # h
          <5>1. View(h) = db /\ Quiet(h)
            BY <1>0, <2>1, <4>2 DEF View, Begun
          <5>2. Leads(db, ops[h], k, nextId, conn[h], db, nextId)
            BY <1>0, <2>1, <5>1, QuietLeads DEF Quiet
          <5>3. \A n \in DOMAIN db : n < nextId
            BY DEF IInv, AllFit, Fits, RowsBelow
          <5>4. nextId \in 0 .. nextId
            BY <1>0
          <5> QED BY <5>1, <5>2, <5>3, <5>4
        <4> QED BY <4>1, <4>2
      <3>2. Leads(db, ops[h], k + 1, first, conn[h], work', nextId')
        BY <2>1, <2>3, <3>1, LeadsOn
      <3>3. nextId' \in Nat /\ first \in 0 .. nextId'
        <4>1. nextId' \in Nat
          BY TypedStep DEF IInv, Typed
        <4>2. nextId' >= nextId
          BY <1>8, IdsGrow
        <4> QED BY <1>0, <4>1, <4>2
      <3>4. HalfDone(h)'
        BY <2>1, <3>1, <3>2, <3>3 DEF HalfDone
      <3> QED BY <2>1, <2>3, <3>4 DEF Begun
    <2> QED BY <1>8, <2>2, <2>3 DEF Execute
  <1> QED BY <1>1, <1>2, <1>3, <1>5, <1>6, <1>7, <1>8 DEF Next, Step

LEMMA InitTxInv == Init => TxInv
  BY SmallConstants DEF Init, TxInv, Begun

LEMMA TxInvStep == IInv /\ TxInv /\ [Next]_vars => TxInv'
  BY BegunStep DEF TxInv

(* In every reachable state a transaction has done whole operations, in order. *)
THEOREM TransactionsInOrder == Spec => []TxInv
  BY InitTxInv, TxInvStep, Inductive, PTL DEF Spec

(* The step that changes the database is a commit, of the whole batch. *)
LEMMA CommitApplies ==
    ASSUME IInv, TxInv, NEW h \in Handlers, Commit(h), db' # db
    PROVE  /\ UNCHANGED nextId /\ ops[h] \in Batches
           /\ writer = h /\ conn[h] \in BOOLEAN
           /\ \E first \in 0 .. nextId :
                 /\ \A n \in DOMAIN db : n < first
                 /\ Leads(db, ops[h], Len(ops[h]), first, conn[h], db', nextId)
  <1>0. /\ ops[h] \in Batches \cup {<<>>} /\ conn[h] \in BOOLEAN
        /\ pc[h] = "tx" /\ at[h] = Len(ops[h]) /\ UNCHANGED nextId
    BY DEF IInv, Typed, Pooled, Connections, Commit, Holding
  <1>1. writer = h /\ db' = work
    BY DEF Commit, View
  <1>2. PICK first \in 0 .. nextId : /\ \A n \in DOMAIN db : n < first
                                     /\ Leads(db, ops[h], at[h], first, conn[h], work, nextId)
    BY <1>1 DEF TxInv, Begun, HalfDone
  <1>3. ops[h] # <<>>
    <2> SUFFICES ASSUME ops[h] = <<>> PROVE work = db
      BY <1>1
    <2>1. Len(ops[h]) = 0
      OBVIOUS
    <2>2. PICK f : /\ IsRun(f, db, ops[h], 0, first, conn[h])
                   /\ f[0] = [fails |-> FALSE, tree |-> work, id |-> nextId]
      BY <1>0, <1>2, <2>1 DEF Leads
    <2>3. f[0] = Before(db, first)
      <3>1. 0 \in 0 .. 0
        OBVIOUS
      <3> QED BY <2>2, <3>1 DEF IsRun
    <2>4. f[0].tree = work /\ Before(db, first).tree = db
      BY <2>2 DEF Before
    <2> QED BY <2>3, <2>4
  <1> QED BY <1>0, <1>1, <1>2, <1>3

(* No other step changes the database, and ids only grow. *)
LEMMA OnlyCommits ==
    ASSUME IInv, [Next]_vars, \A h \in Handlers : ~ Commit(h)
    PROVE  /\ UNCHANGED db
           /\ nextId' = nextId \/ nextId' > nextId
  <1>1. CASE UNCHANGED vars \/ Restart
    BY <1>1 DEF vars, Restart
  <1>2. ASSUME NEW h \in Handlers, Execute(h)
        PROVE  UNCHANGED db /\ (nextId' = nextId \/ nextId' > nextId)
    <2>1. UNCHANGED db
      BY <1>2 DEF Execute
    <2>2. nextId \in Nat /\ nextId' \in Nat /\ nextId' >= nextId
      BY <1>2, IdsGrow
    <2> QED BY <2>1, <2>2
  <1>3. ASSUME NEW h \in Handlers, Receive(h) \/ Step(h), ~ Execute(h)
        PROVE  UNCHANGED <<db, nextId>>
    BY <1>3 DEF Step, Receive, Acquire, Loaded, LoadFails, Accept, Refuse, Hang, Validated,
         BeginFails, Rollback, CommitRefused
  <1> QED BY <1>1, <1>2, <1>3 DEF Next, Step

(* Whatever the clients interleave, the daemon implements the service whose tree
   changes by whole batches, each applied in order from its first operation to its
   last, with ids that were never used (sqlite.go:138-216). *)
THEOREM AtomicImplemented == Spec => AtomicService
  <1>1. Init => Atomic!Init
    BY ApplyConstants DEF Init, Atomic!Init
  <1>2. IInv /\ TxInv /\ [Next]_vars => [Atomic!Next]_<<db, nextId>>
    <2> SUFFICES ASSUME IInv, TxInv, [Next]_vars PROVE [Atomic!Next]_<<db, nextId>>
      OBVIOUS
    <2>1. CASE \A h \in Handlers : ~ Commit(h)
      BY <2>1, OnlyCommits DEF Atomic!Next, Atomic!HandOut
    <2>2. ASSUME NEW h \in Handlers, Commit(h), db' # db PROVE Atomic!ApplyBatch(ops[h])
      <3>1. PICK first \in 0 .. nextId :
                /\ \A n \in DOMAIN db : n < first
                /\ Leads(db, ops[h], Len(ops[h]), first, conn[h], db', nextId)
        BY <2>2, CommitApplies
      <3>2. PICK f : /\ IsRun(f, db, ops[h], Len(ops[h]), first, conn[h])
                     /\ f[Len(ops[h])] = [fails |-> FALSE, tree |-> db', id |-> nextId]
        BY <3>1 DEF Leads
      <3>3. Len(ops[h]) \in Nat
        BY <2>2, CommitApplies, BatchOps
      <3>4. Atomic!Applied(db, ops[h], first, conn[h])
               = [fails |-> FALSE, tree |-> db', id |-> nextId]
        BY <3>2, <3>3, AppliedAtomic
      <3>5. UNCHANGED nextId /\ conn[h] \in BOOLEAN
        BY <2>2, CommitApplies
      <3> QED BY <2>2, <3>1, <3>4, <3>5 DEF Atomic!ApplyBatch
    <2>3. ASSUME NEW h \in Handlers, Commit(h) PROVE [Atomic!Next]_<<db, nextId>>
      <3>1. CASE db' = db
        BY <2>3, <3>1 DEF Commit
      <3>2. CASE db' # db
        BY <2>2, <2>3, <3>2, CommitApplies DEF Atomic!Next
      <3> QED BY <3>1, <3>2
    <2> QED BY <2>1, <2>3
  <1> QED BY <1>1, <1>2, Inductive, TransactionsInOrder, PTL
          DEF Spec, AtomicService, Atomic!Spec

-----------------------------------------------------------------------------
(* One client: the tree the validator loaded is still the database's when the
   transaction runs, every statement runs on the connection the PRAGMA was run on,
   and the tree the validator simulates follows the one the store changes. *)
OneClient == \E h \in Handlers : Handlers = {h}

SamePool(h) == \E c \in {TRUE, Stuck} :
    \/ conn[h] = Nil /\ free = <<c>>
    \/ conn[h] = c   /\ free = <<>>

(* The rows the one connection shows: after a COMMIT that was refused, those that
   were not committed *)
Base == IF writer = Stuck THEN work ELSE db

Chained(h) ==
    /\ plan[h] # <<>> => plan[h][1] = Base
    /\ \A k \in 1 .. Len(plan[h]) - 1 : plan[h][k + 1] = Simulate(plan[h][k], ops[h][k])

Bounded(h) == \A k \in DOMAIN plan[h] : Within(plan[h][k], Base)

Following(h) == pc[h] = "tx" /\ conn[h] # Stuck =>
    /\ at[h] <= Len(ops[h])
    /\ Mirrors(View(h), plan[h][at[h] + 1], db)
    /\ Rooted(View(h))

AloneInv ==
    /\ Rooted(db) /\ Rooted(Base)
    /\ \A h \in Handlers : SamePool(h) /\ Chained(h) /\ Bounded(h) /\ Following(h)

LEMMA InitAlone == Init => AloneInv
  <1> SUFFICES ASSUME Init PROVE AloneInv
    OBVIOUS
  <1>1. Rooted(db) /\ Base = db
    BY ApplyConstants DEF Init, WellFormed, Base
  <1> QED BY <1>1, EmptySeq DEF Init, AloneInv, SamePool, Chained, Bounded, Following

(* A connection goes back to the pool of one. *)
LEMMA BackAlone ==
    ASSUME NEW h \in Handlers, IInv, conn[h] # Nil, NEW c \in {TRUE, Stuck},
           PutBack(h, c), SamePool(h)
    PROVE  free = <<>> /\ Len(free) = 0 /\ 0 < MaxIdle /\ free' = <<c>> /\ conn'[h] = Nil
  <1>1. free = <<>> /\ conn \in [Handlers -> Connections \cup {Nil}]
    BY DEF SamePool, IInv, Pooled
  <1>2. Len(<<>>) = 0 /\ Append(<<>>, c) = <<c>>
    OBVIOUS
  <1>3. Len(free) = 0 /\ 0 < MaxIdle
    BY <1>1, <1>2, ApplyConstants
  <1> QED BY <1>1, <1>2, <1>3 DEF PutBack

(* The pool has one connection, and it is the one of Store.Init. *)
LEMMA SamePoolStep ==
    ASSUME OneClient, IInv, [Next]_vars, NEW h \in Handlers, SamePool(h)
    PROVE  SamePool(h)'
  <1>0. /\ pc \in [Handlers -> Places] /\ conn \in [Handlers -> Connections \cup {Nil}]
        /\ pc[h] \in Holding <=> conn[h] # Nil
        /\ Nil # TRUE /\ Nil # Stuck
    BY ApplyConstants DEF IInv, Pooled
  <1>1. CASE UNCHANGED pool
    BY <1>1 DEF pool, SamePool
  <1>2. CASE Restart
    BY <1>2 DEF Restart, SamePool
  <1>3. ASSUME NEW c \in {TRUE, Stuck}, PutBack(h, c), pc[h] \in Holding PROVE SamePool(h)'
    <2>1. free' = <<c>> /\ conn'[h] = Nil
      BY <1>0, <1>3, BackAlone
    <2> QED BY <2>1 DEF SamePool
  <1>4. CASE Acquire(h)
    <2>1. conn[h] = Nil
      BY <1>0, <1>4 DEF Acquire, Waiting, Holding
    <2>2. PICK c \in {TRUE, Stuck} : free = <<c>>
      BY <2>1, <1>0 DEF SamePool
    <2>3. <<c>> # <<>> /\ Len(<<c>>) = 1 /\ <<c>>[1] = c /\ SubSeq(<<c>>, 1, 1 - 1) = <<>>
      OBVIOUS
    <2>4. free' = <<>> /\ conn' = [conn EXCEPT ![h] = c]
      BY <1>4, <2>2, <2>3 DEF Acquire
    <2> QED BY <1>0, <2>4 DEF SamePool
  <1>5. CASE Receive(h) \/ Accept(h) \/ Refuse(h) \/ Hang(h) \/ Validated(h) \/ Execute(h)
             \/ UNCHANGED vars
    <2>1. UNCHANGED pool
      BY <1>5 DEF Receive, Accept, Refuse, Hang, Validated, Execute, vars
    <2> QED BY <1>1, <2>1
  <1>6. CASE Loaded(h) \/ LoadFails(h) \/ BeginFails(h) \/ Rollback(h) \/ Commit(h)
    <2>1. PutBack(h, conn[h]) /\ pc[h] \in Holding
      BY <1>6 DEF Loaded, LoadFails, BeginFails, Release, Rollback, Commit, Holding
    <2>2. conn[h] \in {TRUE, Stuck}
      BY <1>0, <2>1 DEF SamePool
    <2> QED BY <1>3, <2>1, <2>2
  <1>7. CASE CommitRefused(h)
    BY <1>3, <1>7 DEF CommitRefused, Holding
  <1> QED BY <1>2, <1>4, <1>5, <1>6, <1>7 DEF OneClient, Next, Step

(* What the one client's connection shows, sound or Stuck *)
LEMMA SeenAlone ==
    ASSUME OneClient, IInv, NEW h \in Handlers, SamePool(h), conn[h] # Nil
    PROVE  /\ conn[h] \in {TRUE, Stuck} /\ Seen(h) = Base
           /\ conn[h] = TRUE <=> writer # Stuck
  <1>0. DOMAIN <<>> = {} /\ Handlers = {h}
    BY DEF OneClient
  <1>1. DOMAIN free = {} /\ Handlers = {h} /\ conn[h] \in {TRUE, Stuck}
    BY <1>0 DEF SamePool
  <1>2. writer = Stuck <=> conn[h] = Stuck
    BY <1>1 DEF IInv, Locked
  <1> QED BY <1>1, <1>2, ApplyConstants DEF Seen, Base

(* The rows the connection shows are rows of a tree with a root. *)
LEMMA BaseTree == IInv => IsTree(Base) /\ RootKept(Base)
  BY DEF IInv, AllFit, Fits, Base

(* Only a COMMIT, done or refused, changes what the connection shows, and a restart,
   which is back at the committed rows. *)
LEMMA BaseMoves ==
    ASSUME OneClient, IInv, [Next]_vars, NEW h \in Handlers, SamePool(h),
           ~ Commit(h), ~ CommitRefused(h)
    PROVE  Base' = Base \/ (Base' = db /\ plan'[h] = <<>>)
  <1>0. /\ DOMAIN plan = Handlers /\ Handlers = {h} /\ Nil # Stuck /\ Stuck # h
        /\ pc[h] \in Holding <=> conn[h] # Nil
    BY ApplyConstants DEF IInv, Plans, Pooled, OneClient
  <1>2. CASE Restart
    BY <1>0, <1>2 DEF Restart, Base
  <1>3. CASE UNCHANGED <<db, work, writer>>
    BY <1>3 DEF Base
  <1>4. CASE Loaded(h) \/ LoadFails(h) \/ BeginFails(h)
    <2>1. /\ PutBack(h, conn[h]) /\ UNCHANGED db /\ conn[h] # Nil
          /\ IF conn[h] = Stuck THEN Strand ELSE UNCHANGED <<work, writer>>
      BY <1>0, <1>4 DEF Loaded, LoadFails, BeginFails, Release, Holding
    <2>2. CASE conn[h] # Stuck
      BY <1>3, <2>1, <2>2
    <2>3. CASE conn[h] = Stuck
      <3>1. writer = Stuck
        BY <2>3 DEF IInv, Locked
      <3>2. Len(free) = 0 /\ 0 < MaxIdle
        BY <2>1, <2>3, BackAlone
      <3>3. writer' = Stuck /\ work' = work
        BY <2>1, <2>3, <3>2, SmallConstants DEF Strand
      <3> QED BY <2>1, <3>1, <3>3 DEF Base
    <2> QED BY <2>2, <2>3
  <1>5. CASE Execute(h) \/ Rollback(h)
    <2>1. UNCHANGED db /\ conn[h] # Stuck /\ conn[h] # Nil
      BY <1>0, <1>5 DEF Execute, Rollback, Holding
    <2>2. writer # Stuck
      BY <2>1, SeenAlone
    <2>3. writer' # Stuck
      BY <1>0, <1>5, <2>2 DEF Execute, Rollback, Unlock
    <2> QED BY <2>1, <2>2, <2>3 DEF Base
  <1>6. CASE Receive(h) \/ Acquire(h) \/ Accept(h) \/ Refuse(h) \/ Hang(h) \/ Validated(h)
             \/ UNCHANGED vars
    <2>1. UNCHANGED <<db, work, writer>>
      BY <1>6 DEF Receive, Acquire, Accept, Refuse, Hang, Validated, vars, tx
    <2> QED BY <1>3, <2>1
  <1> QED BY <1>0, <1>2, <1>4, <1>5, <1>6 DEF Next, Step

(* While the one client's validator holds trees, its connection shows the same
   rows: nothing is committed, and no COMMIT is refused. *)
LEMMA BaseKept ==
    ASSUME OneClient, IInv, [Next]_vars, NEW h \in Handlers, SamePool(h)
    PROVE  plan'[h] # <<>> => Base' = Base
  <1>1. CASE Commit(h) \/ CommitRefused(h)
    BY <1>1 DEF Commit, CommitRefused, Answer, IInv, Plans
  <1> QED BY <1>1, BaseMoves

LEMMA ChainedStep ==
    ASSUME OneClient, IInv, [Next]_vars, NEW h \in Handlers, SamePool(h), Chained(h)
    PROVE  Chained(h)'
  <1>1. CASE plan'[h] = <<>>
    <2>1. Len(<<>>) = 0 /\ 1 .. 0 - 1 = {}
      OBVIOUS
    <2> QED BY <1>1, <2>1 DEF Chained
  <1>2. CASE plan'[h] # <<>> /\ plan'[h] = plan[h] /\ ops'[h] = ops[h]
    BY <1>2, BaseKept DEF Chained
  <1>3. CASE plan'[h] = <<Base>>
    <2> DEFINE t == Base
    <2>0. Base' = t /\ plan'[h] = <<t>>
      BY <1>3, BaseKept
    <2> HIDE DEF t
    <2>1. <<t>> # <<>> /\ Len(<<t>>) = 1 /\ <<t>>[1] = t /\ 1 .. 1 - 1 = {}
      OBVIOUS
    <2> QED BY <2>0, <2>1 DEF Chained
  <1>4. CASE /\ plan'[h] = Append(plan[h], Simulate(Current(h), Due(h)))
             /\ ops'[h] = ops[h] /\ plan[h] # <<>>
    <2> DEFINE n == Len(plan[h])
               v == Simulate(Current(h), Due(h))
    <2>1. /\ n \in Nat /\ 1 <= n
          /\ plan'[h] # <<>> /\ Len(plan'[h]) = n + 1
          /\ \A k \in 1 .. n : plan'[h][k] = plan[h][k]
          /\ plan'[h][n + 1] = v
      <3>1. Len(<<>>) = 0
        OBVIOUS
      <3> QED BY <1>4, <3>1, PlanAppended
    <2>2. v = Simulate(plan[h][n], ops[h][n])
      BY DEF Current, Due
    <2> HIDE DEF n, v
    <2>3. plan'[h][1] = Base'
      BY <1>4, <2>1, BaseKept DEF Chained
    <2>4. ASSUME NEW k \in 1 .. (n + 1) - 1
          PROVE  plan'[h][k + 1] = Simulate(plan'[h][k], ops'[h][k])
      <3>1. CASE k = n
        BY <1>4, <2>1, <2>2, <3>1
      <3>2. CASE k # n
        <4>1. k \in 1 .. n /\ k + 1 \in 1 .. n /\ k \in 1 .. n - 1
          BY <2>1, <3>2
        <4> QED BY <1>4, <2>1, <4>1 DEF Chained, n
      <3> QED BY <3>1, <3>2
    <2> QED BY <2>1, <2>3, <2>4 DEF Chained
  <1> QED BY <1>1, <1>2, <1>3, <1>4, PlansMove, SeenAlone DEF PlanMoves

LEMMA BoundedStep ==
    ASSUME OneClient, IInv, Rooted(Base), [Next]_vars, NEW h \in Handlers, SamePool(h),
           Bounded(h)
    PROVE  Bounded(h)'
  <1>1. CASE plan'[h] = <<>>
    <2>1. DOMAIN <<>> = {}
      OBVIOUS
    <2> QED BY <1>1, <2>1 DEF Bounded
  <1>2. CASE plan'[h] # <<>> /\ plan'[h] = plan[h]
    BY <1>2, BaseKept DEF Bounded
  <1>3. CASE plan'[h] = <<Base>>
    <2> DEFINE t == Base
    <2>0. Base' = t /\ plan'[h] = <<t>> /\ Within(t, t)
      BY <1>3, BaseKept, BaseTree, WithinItself
    <2> HIDE DEF t
    <2>1. <<t>> # <<>> /\ DOMAIN <<t>> = {1} /\ <<t>>[1] = t
      OBVIOUS
    <2> QED BY <2>0, <2>1 DEF Bounded
  <1>4. CASE /\ plan'[h] = Append(plan[h], Simulate(Current(h), Due(h)))
             /\ plan[h] # <<>> /\ OpOK(Current(h), Due(h))
    <2> DEFINE n == Len(plan[h])
               v == Simulate(Current(h), Due(h))
    <2>1. /\ n \in Nat /\ 1 <= n /\ DOMAIN plan[h] = 1 .. n
          /\ DOMAIN plan'[h] = 1 .. n + 1
          /\ \A k \in 1 .. n : plan'[h][k] = plan[h][k]
          /\ plan'[h][n + 1] = v
      BY <1>4, PlanAppended
    <2>2. Base' = Base
      <3>1. DOMAIN <<>> = {}
        OBVIOUS
      <3>2. n + 1 \in DOMAIN plan'[h]
        BY <2>1
      <3> QED BY <3>1, <3>2, BaseKept
    <2>3. n \in DOMAIN plan[h] /\ Current(h) = plan[h][n]
      BY <2>1 DEF Current
    <2>4. Within(v, Base)
      BY <1>4, <2>3, PlanTrees, WithinSimulated DEF Bounded
    <2>5. SUFFICES ASSUME NEW k \in 1 .. n + 1 PROVE Within(plan'[h][k], Base')
      BY <2>1 DEF Bounded
    <2>6. k \in 1 .. n \/ k = n + 1
      BY <2>1
    <2> HIDE DEF n, v
    <2> QED BY <2>1, <2>2, <2>4, <2>6 DEF Bounded
  <1> QED BY <1>1, <1>2, <1>3, <1>4, PlansMove, SeenAlone DEF PlanMoves

(* What a validated batch is, once the handler has opened its transaction *)
LEMMA Planned ==
    ASSUME IInv, NEW h \in Handlers, pc[h] = "tx", Chained(h)
    PROVE  /\ Len(ops[h]) \in Nat /\ DOMAIN plan[h] = 1 .. Len(ops[h]) + 1
           /\ plan[h] # <<>> /\ plan[h][1] = Base
           /\ \A k \in 1 .. Len(ops[h]) : /\ ops[h][k] \in Op \cup UnknownOp
                                          /\ OpOK(plan[h][k], ops[h][k])
                                          /\ plan[h][k + 1] = Simulate(plan[h][k], ops[h][k])
  <1>1. ops[h] \in Batches \cup {<<>>} /\ Accepted(h)
    BY DEF IInv, Typed, Plans
  <1>2. /\ Len(ops[h]) \in Nat
        /\ \A k \in 1 .. Len(ops[h]) : ops[h][k] \in Op \cup UnknownOp
    BY <1>1, BatchOps
  <1>3. Len(plan[h]) = Len(ops[h]) + 1 /\ DOMAIN plan[h] = 1 .. Len(plan[h])
    BY <1>1, PlanAppended DEF Accepted
  <1>4. plan[h] # <<>>
    <2>1. Len(<<>>) = 0
      OBVIOUS
    <2> QED BY <1>2, <1>3, <2>1
  <1>5. ASSUME NEW k \in 1 .. Len(ops[h])
        PROVE  /\ OpOK(plan[h][k], ops[h][k])
               /\ plan[h][k + 1] = Simulate(plan[h][k], ops[h][k])
    <2>1. k \in 1 .. Len(plan[h]) - 1
      BY <1>2, <1>3
    <2> QED BY <1>1, <2>1 DEF Accepted, Chained
  <1> QED BY <1>2, <1>3, <1>4, <1>5 DEF Chained

LEMMA FollowingStep ==
    ASSUME OneClient, IInv, TxInv, Rooted(Base), [Next]_vars, NEW h \in Handlers,
           SamePool(h), Chained(h), Bounded(h), Following(h)
    PROVE  Following(h)'
  <1>0. /\ pc \in [Handlers -> Places] /\ at \in [Handlers -> Nat]
        /\ ops \in [Handlers -> Batches \cup {<<>>}]
        /\ pc[h] = "tx" => conn[h] # Nil
    BY DEF IInv, Pooled, Typed, Holding
  <1>1. CASE UNCHANGED vars
    BY <1>1 DEF vars, tx, pool, Following, View
  <1>2. CASE pc'[h] # "tx"
    BY <1>2 DEF Following
  <1>c. CASE conn'[h] = Stuck
    BY <1>c DEF Following
  <1>3. CASE Acquire(h) /\ pc[h] = "begin" /\ conn'[h] # Stuck
    <2>1. /\ at'[h] = 0 /\ writer' # h /\ UNCHANGED <<db, work, writer, ops, plan>>
      BY <1>3 DEF Acquire, TxInv, Begun, tx
    <2>a. writer # Stuck /\ Base = db
      <3>1. IInv' /\ SamePool(h)' /\ conn'[h] # Nil /\ Handlers = {h} /\ DOMAIN <<>> = {}
        <4>1. pc'[h] = "tx"
          BY <1>0, <1>3 DEF Acquire
        <4> QED BY <4>1, IInvStep, SamePoolStep DEF IInv, Pooled, Holding, OneClient
      <3>2. free' = <<>>
        BY <3>1 DEF SamePool
      <3>3. writer' # Stuck
        BY <1>3, <3>1, <3>2 DEF IInv, Locked
      <3> QED BY <2>1, <3>3 DEF Base
    <2>2. View(h)' = db
      BY <2>1 DEF View
    <2>3. plan[h][1] = db
      <3>1. Len(plan[h]) = Len(ops[h]) + 1 /\ Len(ops[h]) \in Nat /\ Len(<<>>) = 0
        BY <1>0, <1>3, BatchOps DEF IInv, Plans, Accepted
      <3>2. plan[h] # <<>>
        BY <3>1
      <3> QED BY <2>a, <3>2 DEF Chained
    <2>4. Mirrors(db, db, db)
      BY DEF Mirrors
    <2>5. 0 <= Len(ops[h])
      BY <1>0, BatchOps
    <2> QED BY <2>a, <2>1, <2>2, <2>3, <2>4, <2>5 DEF Following
  <1>4. CASE Execute(h)
    <2> DEFINE k == at[h] + 1
               op == ops[h][k]
               s == plan[h][k]
    <2>1. /\ pc[h] = "tx" /\ at[h] < Len(ops[h]) /\ at'[h] = at[h] + 1
          /\ UNCHANGED <<db, ops, plan, pc>> /\ conn[h] = TRUE /\ UNCHANGED conn
      BY <1>0, <1>4, SeenAlone DEF Execute, pool
    <2>b. Base = db
      BY <1>0, <2>1, SeenAlone DEF Base
    <2>2. k \in 1 .. Len(ops[h]) /\ k \in DOMAIN plan[h] /\ at'[h] <= Len(ops'[h]) /\ at'[h] + 1 = k + 1
      BY <1>0, <2>1, Planned
    <2>3. op \in Op \cup UnknownOp /\ OpOK(s, op) /\ plan'[h][k + 1] = Simulate(s, op)
      BY <2>1, <2>2, Planned
    <2>4. Mirrors(View(h), s, db) /\ Rooted(View(h)) /\ Within(s, db) /\ IsTree(s)
      BY <2>1, <2>2, <2>b, PlanTrees, ApplyConstants DEF Following, Bounded
    <2> HIDE DEF k, op, s
    <2>5. CASE NoStatement(op) /\ UNCHANGED <<work, writer, nextId>>
      <3>1. View(h)' = View(h)
        BY <2>1, <2>5 DEF View
      <3>2. Simulate(s, op) = s
        BY <2>5 DEF Simulate, NoStatement
      <3> QED BY <2>1, <2>2, <2>3, <2>4, <3>1, <3>2 DEF Following
    <2>6. CASE /\ ~ StoreFails(View(h), op, TRUE)
               /\ work' = StoreResult(View(h), op, nextId, TRUE)
               /\ writer' = h
      <3>1. nextId \in Nat /\ IsTree(View(h)) /\ RowsBelow(View(h), nextId) /\ RowsBelow(db, nextId)
        BY DEF IInv, Typed, AllFit, Fits, View
      <3>2. Mirrors(work', plan'[h][k + 1], db)
        BY <2>3, <2>4, <2>6, <3>1, MirrorsStored
      <3>3. Rooted(work')
        BY <2>3, <2>4, <2>6, <3>1, RootedStored
      <3>4. View(h)' = work'
        BY <2>6 DEF View
      <3> QED BY <2>1, <2>2, <3>2, <3>3, <3>4 DEF Following
    <2> QED BY <1>4, <2>1, <2>5, <2>6 DEF Execute, op, k
  <1>5. CASE Acquire(h) /\ pc[h] # "begin"
    <2>1. pc'[h] # "tx"
      BY <1>0, <1>5 DEF Acquire, Waiting
    <2> QED BY <1>2, <2>1
  <1>6. CASE Restart \/ Receive(h) \/ Loaded(h) \/ LoadFails(h) \/ Accept(h) \/ Refuse(h)
             \/ Hang(h) \/ Validated(h) \/ BeginFails(h) \/ Rollback(h) \/ Commit(h)
             \/ CommitRefused(h)
    <2>1. pc'[h] # "tx"
      BY <1>0, <1>6 DEF Restart, Receive, Loaded, LoadFails, Accept, Checking, Refuse, Hang,
           Validated, BeginFails, Rollback, Commit, CommitRefused, Answer
    <2> QED BY <1>2, <2>1
  <1> QED BY <1>1, <1>c, <1>3, <1>4, <1>5, <1>6 DEF OneClient, Next, Step

LEMMA RootedStep ==
    ASSUME OneClient, IInv, TxInv, [Next]_vars, AloneInv
    PROVE  Rooted(db)' /\ Rooted(Base)'
  <1>0. PICK h \in Handlers : Handlers = {h} /\ SamePool(h) /\ Following(h)
    BY DEF OneClient, AloneInv
  <1>1. ASSUME Commit(h) PROVE Rooted(db)' /\ Rooted(Base)'
    <2>1. pc[h] = "tx" /\ conn[h] # Stuck /\ db' = View(h) /\ work' \in {work, db}
          /\ writer' = IF writer = h THEN Nil ELSE writer
      BY <1>1 DEF Commit, Unlock
    <2>2. writer # Stuck /\ writer' # Stuck
      <3>1. conn[h] # Nil
        BY <2>1 DEF IInv, Pooled, Holding
      <3> QED BY <1>0, <2>1, <3>1, SeenAlone, SmallConstants
    <2> QED BY <1>0, <2>1, <2>2 DEF Following, Base
  <1>2. ASSUME CommitRefused(h) PROVE Rooted(db)' /\ Rooted(Base)'
    <2>1. /\ pc[h] = "tx" /\ writer = h /\ UNCHANGED db /\ conn[h] \in BOOLEAN
          /\ PutBack(h, Stuck) /\ Strand
      BY <1>2 DEF CommitRefused, IInv, Locked
    <2>2. Len(free) = 0 /\ 0 < MaxIdle
      <3>1. conn[h] # Nil
        BY <2>1, SmallConstants
      <3> QED BY <1>0, <2>1, <3>1, BackAlone
    <2>3. work' = work /\ View(h) = work
      BY <2>1, <2>2, SmallConstants DEF Strand, View
    <2>4. Rooted(work)
      BY <1>0, <2>1, <2>3, SmallConstants DEF Following
    <2> QED BY <2>1, <2>3, <2>4 DEF AloneInv, Base
  <1>3. CASE ~ Commit(h) /\ ~ CommitRefused(h)
    <2>1. UNCHANGED db
      BY <1>0, <1>3, OnlyCommits
    <2>2. Base' \in {Base, db}
      BY <1>0, <1>3, BaseMoves
    <2> QED BY <2>1, <2>2 DEF AloneInv
  <1> QED BY <1>1, <1>2, <1>3

LEMMA AloneStep ==
    ASSUME OneClient, IInv, TxInv, AloneInv, [Next]_vars
    PROVE  AloneInv'
  <1>1. ASSUME NEW h \in Handlers
        PROVE  SamePool(h)' /\ Chained(h)' /\ Bounded(h)' /\ Following(h)'
    BY SamePoolStep, ChainedStep, BoundedStep, FollowingStep DEF AloneInv
  <1> QED BY <1>1, RootedStep DEF AloneInv

THEOREM ServedAlone ==
    ASSUME OneClient
    PROVE  Spec => []AloneInv
  <1>1. IInv /\ TxInv /\ AloneInv /\ [Next]_vars => AloneInv'
    BY OneClient, AloneStep
  <1> QED BY <1>1, InitAlone, Inductive, TransactionsInOrder, PTL DEF Spec

(* With one client every row is reached from the root: the cycle check of a move and
   the cascade of a delete do their work, because the validator's tree, which lacks
   a deleted row's descendants, never disagrees with the store about a row that is
   left (validate.go:55-81,181-195, sqlite.go:226-236). *)
THEOREM TreeStaysRooted ==
    ASSUME OneClient
    PROVE  Spec => []TreeIsRooted
  <1>1. AloneInv => TreeIsRooted
    BY DEF AloneInv, TreeIsRooted
  <1> QED BY <1>1, ServedAlone, PTL

(* So none of the three things that two clients can make happen happens with one: no
   cycle is stored, no row is left without its parent, and no validator spins. *)
THEOREM OneClientIsSafe ==
    ASSUME OneClient
    PROVE  Spec => [](NoCycle /\ NoDangling /\ \A h \in Handlers : pc[h] # "spin")
  <1>1. IInv /\ AloneInv /\ SpinInv /\ SpinOnlyOnCycle
           => NoCycle /\ NoDangling /\ \A h \in Handlers : pc[h] # "spin"
    <2> SUFFICES ASSUME IInv, AloneInv, SpinInv, SpinOnlyOnCycle
                 PROVE  NoCycle /\ NoDangling /\ \A h \in Handlers : pc[h] # "spin"
      OBVIOUS
    <2>1. IsTree(db) /\ RootKept(db) /\ Rooted(db)
      BY IInvTypeOK, IInvTree DEF TypeOK, RootImmutable, AloneInv
    <2>2. Acyclic(db) /\ NoDanglingParent(db)
      BY <2>1, RootedNoCycle
    <2>3. ASSUME NEW h \in Handlers, pc[h] = "spin" PROVE FALSE
      <3>1. ~ Acyclic(plan[h][1])
        BY <2>3 DEF SpinOnlyOnCycle
      <3>2. plan[h] # <<>>
        BY <2>3 DEF SpinInv, Caught
      <3>3. plan[h][1] = Base
        BY <3>2 DEF AloneInv, Chained
      <3>4. Acyclic(Base)
        BY BaseTree, RootedNoCycle DEF AloneInv
      <3> QED BY <3>1, <3>3, <3>4
    <2> QED BY <2>2, <2>3 DEF NoCycle, NoDangling
  <1> QED BY <1>1, ServedAlone, Inductive, SpinInductive, SpinsOnlyOnCycle, PTL

(* With one client the daemon is the serialized service: every batch is valid against
   the very tree it changes, and foreign keys are enforced on it
   (docs/design_doc_v1.md 4.1 and 6.7; rpc.go:43-54). *)
THEOREM SerialImplemented ==
    ASSUME OneClient
    PROVE  Spec => SerialService
  <1>1. Init => Serial!Init
    BY ApplyConstants DEF Init, Serial!Init
  <1>2. IInv /\ TxInv /\ AloneInv /\ [Next]_vars => [Serial!Next]_<<db, nextId>>
    <2> SUFFICES ASSUME IInv, TxInv, AloneInv, [Next]_vars
                 PROVE  [Serial!Next]_<<db, nextId>>
      OBVIOUS
    <2>1. CASE \A h \in Handlers : ~ Commit(h)
      BY <2>1, OnlyCommits DEF Serial!Next, Serial!HandOut
    <2>2. ASSUME NEW h \in Handlers, Commit(h), db' # db PROVE Serial!ApplyBatch(ops[h])
      <3>1. PICK first \in 0 .. nextId :
                /\ \A n \in DOMAIN db : n < first
                /\ Leads(db, ops[h], Len(ops[h]), first, conn[h], db', nextId)
        BY <2>2, CommitApplies
      <3>2. PICK f : /\ IsRun(f, db, ops[h], Len(ops[h]), first, conn[h])
                     /\ f[Len(ops[h])] = [fails |-> FALSE, tree |-> db', id |-> nextId]
        BY <3>1 DEF Leads
      <3>3. Len(ops[h]) \in Nat /\ pc[h] = "tx" /\ Chained(h)
        BY <2>2, CommitApplies, BatchOps DEF Commit, AloneInv
      <3>a. conn[h] = TRUE /\ Base = db
        BY <2>2, CommitApplies, SmallConstants, SeenAlone DEF AloneInv, Base
      <3>4. Serial!Applied(db, ops[h], first, conn[h])
               = [fails |-> FALSE, tree |-> db', id |-> nextId]
        BY <3>2, <3>3, AppliedSerial
      <3>5. UNCHANGED nextId /\ conn[h] = TRUE
        BY <2>2, CommitApplies, <3>a
      <3>6. Serial!ValidBatch(db, ops[h])
        BY <3>3, <3>a, Planned, AcceptedIsValid
      <3> DEFINE done == Serial!Applied(db, ops[h], first, TRUE)
      <3>7. done = [fails |-> FALSE, tree |-> db', id |-> nextId]
        BY <3>4, <3>5
      <3> HIDE DEF done
      <3>8. ~ done.fails /\ done.id = nextId /\ db' = done.tree
        BY <3>7
      <3> QED BY <2>2, <3>1, <3>5, <3>6, <3>8 DEF Serial!ApplyBatch, done
    <2>3. ASSUME NEW h \in Handlers, Commit(h) PROVE [Serial!Next]_<<db, nextId>>
      <3>1. CASE db' = db
        BY <2>3, <3>1 DEF Commit
      <3>2. CASE db' # db
        BY <2>2, <2>3, <3>2, CommitApplies DEF Serial!Next
      <3> QED BY <3>1, <3>2
    <2> QED BY <2>1, <2>3
  <1> QED BY <1>1, <1>2, Inductive, TransactionsInOrder, ServedAlone, PTL
          DEF Spec, SerialService, Serial!Spec
=============================================================================
