------------------------------- MODULE OrdKeys -------------------------------
(***************************************************************************)
(* The ord column: how the rows of one folder are kept in the order the    *)
(* clients asked for (calcOrd and its callers, pkg/storage/sqlite).        *)
(*                                                                         *)
(* A key is a float64.  Within one binade floats are evenly spaced, so a   *)
(* key is modelled as a number of steps of that spacing, Unit steps to 1:  *)
(* 2^52 of them in the interval [1, 2), a small power of 2 in the runs.    *)
(* The midpoint of neighbouring floats is rounded to one of the two, the   *)
(* one with the even mantissa.                                             *)
(***************************************************************************)
EXTENDS Integers, Sequences, FiniteSets, SequencesExt

CONSTANTS
    Nil,        \* no index given
    Unit,       \* float steps to 1
    MaxRows,    \* bound: rows ever put in the folder
    MaxOps      \* bound: operations in a behaviour

ASSUME OrdConstants == /\ Nil \notin Int
                       /\ Unit \in Nat \ {0}
                       /\ MaxRows \in Nat /\ MaxOps \in Nat

VARIABLES
    ord,      \* the keys of the folder's rows, by row id
    want,     \* the ids in the order the accepted requests describe
    nextId,   \* the next row id (bounded by MaxRows)
    count     \* operations so far (bounded by MaxOps)

vars == <<ord, want, nextId, count>>

Halves(a, b)   == (a + b) \div 2
Mid(a, b) ==
    IF (a + b) % 2 = 0 \/ Halves(a, b) % 2 = 0 THEN Halves(a, b) ELSE Halves(a, b) + 1

(* SELECT ord ... ORDER BY ord: the keys the rows have, smallest first *)
Sorted(k) == LET pos(n) == {m \in DOMAIN k : k[m] < k[n] \/ (k[m] = k[n] /\ m < n)}
             IN  [i \in 1 .. Cardinality(DOMAIN k) |->
                    k[CHOOSE n \in DOMAIN k : Cardinality(pos(n)) = i - 1]]

(* The position an index asks for among n keys *)
Position(i, n) == IF i = Nil \/ i > n THEN n ELSE IF i < 0 THEN 0 ELSE i

CalcOrdOffByOne(keys, i) ==                                     \* mutant
    LET n == Len(keys)
        p == Position(i, n)
    IN  IF n = 0 THEN 0
        ELSE IF p = 0 THEN keys[1] - Unit
        ELSE IF p >= n - 1 THEN keys[n] + Unit
        ELSE Mid(keys[p + 1], keys[p + 2])
CalcOrd(keys, i) ==
    LET n == Len(keys)
        p == Position(i, n)
    IN  CASE n = 0 -> 0
          [] n > 0 /\ p = 0 -> keys[1] - Unit
          [] n > 0 /\ p = n -> keys[n] + Unit
          [] n > 0 /\ p \notin {0, n} -> Mid(keys[p], keys[p + 1])

(* The validator lets these through (core.validateIndex). *)
Indexes == {Nil} \cup 0 .. Len(want)

-----------------------------------------------------------------------------
Init == ord = <<>> /\ want = <<>> /\ nextId = 1 /\ count = 0

Tick == count < MaxOps /\ count' = count + 1

(* add_folder, add_bookmark, save_session, or move_node from another folder:
   a row enters the folder at an index. *)
Enter(i) ==
    /\ Tick /\ nextId <= MaxRows
    /\ ord' = [n \in DOMAIN ord \cup {nextId} |->
                 IF n = nextId THEN CalcOrd(Sorted(ord), i) ELSE ord[n]]
    /\ want' = InsertAt(want, Position(i, Len(want)) + 1, nextId)
    /\ nextId' = nextId + 1

(* save_session: the tabs of a new folder are keyed 0, 1, 2, ... *)
SessionKeepsId(k) ==                                            \* mutant
    /\ Tick /\ ord = <<>> /\ nextId + k - 1 <= MaxRows
    /\ ord' = [n \in nextId .. nextId + k - 1 |-> (n - nextId) * Unit]
    /\ want' = [n \in 1 .. k |-> nextId + n - 1]
    /\ UNCHANGED nextId
SessionDense(k) ==                                              \* mutant
    /\ Tick /\ ord = <<>> /\ nextId + k - 1 <= MaxRows
    /\ ord' = [n \in nextId .. nextId + k - 1 |-> n - nextId]
    /\ want' = [n \in 1 .. k |-> nextId + n - 1]
    /\ nextId' = nextId + k
Session(k) ==
    /\ Tick /\ ord = <<>> /\ nextId + k - 1 <= MaxRows
    /\ ord' = [n \in nextId .. nextId + k - 1 |-> (n - nextId) * Unit]
    /\ want' = [n \in 1 .. k |-> nextId + n - 1]
    /\ nextId' = nextId + k

PlaceOf(n) == CHOOSE i \in DOMAIN want : want[i] = n

(* move_node within the folder: the index counts the moving row itself, which
   the SELECT still finds at its old place. *)
Reorder(n, i) ==
    /\ Tick /\ n \in DOMAIN ord
    /\ ord' = [ord EXCEPT ![n] = CalcOrd(Sorted(ord), i)]
    /\ want' = LET p == Position(i, Len(want))
                   q == PlaceOf(n)
               IN  InsertAt(RemoveAt(want, q), IF q <= p THEN p ELSE p + 1, n)
    /\ UNCHANGED nextId

(* delete_node, or move_node to another folder *)
Leave(n) ==
    /\ Tick /\ n \in DOMAIN ord
    /\ ord' = [m \in DOMAIN ord \ {n} |-> ord[m]]
    /\ want' = RemoveAt(want, PlaceOf(n))
    /\ UNCHANGED nextId

Next ==
    \/ \E i \in Indexes : Enter(i)
    \/ \E k \in 2 .. 3 : Session(k)
    \/ \E n \in DOMAIN ord, i \in Indexes : Reorder(n, i)
    \/ \E n \in DOMAIN ord : Leave(n)

Spec == Init /\ [][Next]_vars

-----------------------------------------------------------------------------
(* The rows are those the requests put there, each once. *)
TypeOK ==
    /\ ord \in [DOMAIN ord -> Int]
    /\ Len(want) = Cardinality(DOMAIN ord) /\ ToSet(want) = DOMAIN ord
    /\ nextId \in 1 .. MaxRows + 1 /\ count \in 0 .. MaxOps

(* LoadTree's ORDER BY ord lists a folder in the order the requests describe,
   with no two rows of equal rank: while gaps last (sqlite.go:303-340). *)
OrderAsRequested ==
    \A i, j \in DOMAIN want : i < j => ord[want[i]] < ord[want[j]]

(* What keeps it so: neighbours are so far apart that each operation that is still
   to come may halve what is between them. *)
Room[n \in 0 .. MaxOps] == IF n = 0 THEN 1 ELSE 2 * Room[n - 1]
RoomLeft ==
    \A i, j \in DOMAIN want : i < j =>
        ord[want[j]] - ord[want[i]] >= Room[MaxOps - count]
=============================================================================
