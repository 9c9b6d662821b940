---------------------------- MODULE OrdKeysProofs ----------------------------
(***************************************************************************)
(* Proofs about OrdKeys, for any number of rows and operations: the types  *)
(* for every float; and, for a float fine enough to halve a gap once for   *)
(* each operation, that a folder is listed in the order asked for.         *)
(*                                                                         *)
(* OrderAsRequested is not inductive: two keys in order may leave no room  *)
(* for a third.  RoomLeft says how much room there is, and each operation  *)
(* uses up half of it at most.                                             *)
(***************************************************************************)
EXTENDS OrdKeys, FiniteSetTheorems, SequenceTheorems, WellFoundedInduction, TLAPS

(* A float as fine as the number of operations asks for: with the 2^52 steps to 1
   of the first binade, 52 operations. *)
FineEnough == Unit >= Room[MaxOps]

-----------------------------------------------------------------------------
(* Room is what its recursion says. *)

(* Induction on the natural numbers, for a set in place of a predicate *)
LEMMA SetInduction ==
    ASSUME NEW S, 0 \in S, \A n \in Nat : n \in S => n + 1 \in S
    PROVE  Nat \subseteq S
  <1> DEFINE T == Nat \ S
             R == OpToRel(<, Nat)
  <1> SUFFICES ASSUME T # {} PROVE FALSE
    OBVIOUS
  <1>1. PICK x \in T : \A y \in T : ~ (<<y, x>> \in R)
    <2>1. IsWellFoundedOn(R, Nat)
      BY NatLessThanWellFounded
    <2>2. T \subseteq Nat
      OBVIOUS
    <2> HIDE DEF T, R
    <2> QED BY <2>1, <2>2, WFMin
  <1>2. x # 0 /\ x - 1 \in Nat /\ x - 1 \in T
    OBVIOUS
  <1>3. <<x - 1, x>> \in R
    BY <1>2 DEF OpToRel
  <1> QED BY <1>1, <1>2, <1>3

IsRoom(f, m) == f = [n \in 0 .. m |-> IF n = 0 THEN 1 ELSE 2 * f[n - 1]]

LEMMA RoomExists == ASSUME NEW m \in Nat PROVE \E f : IsRoom(f, m)
  <1> DEFINE S == {n \in Nat : \E f : IsRoom(f, n)}
  <1>1. 0 \in S
    <2> DEFINE f == [n \in 0 .. 0 |-> 1]
    <2>1. f = [n \in 0 .. 0 |-> IF n = 0 THEN 1 ELSE 2 * f[n - 1]]
      OBVIOUS
    <2> HIDE DEF f
    <2> QED BY <2>1 DEF IsRoom
  <1>2. ASSUME NEW k \in Nat, k \in S PROVE k + 1 \in S
    <2>1. PICK f : IsRoom(f, k)
      BY <1>2
    <2> DEFINE g == [n \in 0 .. k + 1 |-> IF n <= k THEN f[n] ELSE 2 * f[k]]
    <2>2. \A n \in 0 .. k : f[n] = IF n = 0 THEN 1 ELSE 2 * f[n - 1]
      BY <2>1, Zenon DEF IsRoom
    <2>3. ASSUME NEW n \in 0 .. k + 1
          PROVE  (IF n <= k THEN f[n] ELSE 2 * f[k]) = IF n = 0 THEN 1 ELSE 2 * g[n - 1]
      <3>1. CASE n = 0
        BY <2>2, <3>1
      <3>2. CASE n # 0 /\ n <= k
        <4>1. n \in 0 .. k /\ n - 1 \in 0 .. k + 1 /\ n - 1 <= k
          BY <3>2
        <4>2. g[n - 1] = f[n - 1]
          BY <4>1
        <4> QED BY <2>2, <3>2, <4>1, <4>2
      <3>3. CASE ~ (n <= k)
        <4>1. n # 0 /\ n - 1 = k /\ k \in 0 .. k + 1 /\ k <= k
          BY <3>3
        <4>2. g[n - 1] = f[k]
          BY <4>1
        <4> QED BY <3>3, <4>1, <4>2
      <3> QED BY <3>1, <3>2, <3>3
    <2>4. g = [n \in 0 .. k + 1 |-> IF n = 0 THEN 1 ELSE 2 * g[n - 1]]
      BY <2>3, Zenon
    <2> HIDE DEF g
    <2>5. IsRoom(g, k + 1)
      BY <2>4 DEF IsRoom
    <2> QED BY <2>5
  <1>3. Nat \subseteq S
    <2> HIDE DEF S
    <2> QED BY <1>1, <1>2, SetInduction
  <1> QED BY <1>3

LEMMA RoomHalves ==
    /\ Room[0] = 1
    /\ \A n \in 0 .. MaxOps : n # 0 => Room[n] = 2 * Room[n - 1]
  <1>1. Room = CHOOSE f : IsRoom(f, MaxOps)
    BY Zenon DEF Room, IsRoom
  <1>2. IsRoom(Room, MaxOps)
    BY <1>1, OrdConstants, RoomExists
  <1>3. \A n \in 0 .. MaxOps : Room[n] = IF n = 0 THEN 1 ELSE 2 * Room[n - 1]
    BY <1>2, Zenon DEF IsRoom
  <1>4. 0 \in 0 .. MaxOps
    BY OrdConstants
  <1> QED BY <1>3, <1>4

LEMMA RoomGrows ==
    \A n \in 0 .. MaxOps : Room[n] \in Nat \ {0} /\ Room[n] <= Room[MaxOps]
  <1>0. MaxOps \in Nat
    BY OrdConstants
  <1> DEFINE S == {n \in Nat : n <= MaxOps => Room[n] \in Nat \ {0}}
             T == {n \in Nat : n <= MaxOps => Room[MaxOps - n] <= Room[MaxOps]}
  <1>1. 0 \in S
    BY RoomHalves
  <1>2. ASSUME NEW n \in Nat, n \in S PROVE n + 1 \in S
    <2>1. SUFFICES ASSUME n + 1 <= MaxOps PROVE Room[n + 1] \in Nat \ {0}
      OBVIOUS
    <2>2. n + 1 \in 0 .. MaxOps /\ n + 1 # 0 /\ (n + 1) - 1 = n
      BY <1>0, <2>1
    <2>3. Room[n] \in Nat \ {0}
      BY <1>0, <1>2, <2>1
    <2>4. Room[n + 1] = 2 * Room[n]
      BY <2>2, RoomHalves
    <2> QED BY <2>3, <2>4
  <1>3. Nat \subseteq S
    <2> HIDE DEF S
    <2> QED BY <1>1, <1>2, SetInduction
  <1>4. \A n \in 0 .. MaxOps : Room[n] \in Nat \ {0}
    BY <1>0, <1>3
  <1>5. 0 \in T
    BY <1>0, <1>4
  <1>6. ASSUME NEW n \in Nat, n \in T PROVE n + 1 \in T
    <2>1. SUFFICES ASSUME n + 1 <= MaxOps PROVE Room[MaxOps - (n + 1)] <= Room[MaxOps]
      OBVIOUS
    <2> DEFINE a == MaxOps - n
               b == MaxOps - (n + 1)
    <2>2. /\ a \in 0 .. MaxOps /\ b \in 0 .. MaxOps /\ MaxOps \in 0 .. MaxOps /\ a # 0 /\ a - 1 = b
          /\ Room[a] <= Room[MaxOps]
      BY <1>0, <1>6, <2>1
    <2> HIDE DEF a, b
    <2>3. Room[a] = 2 * Room[b]
      BY <2>2, RoomHalves
    <2>4. Room[b] \in Nat /\ Room[MaxOps] \in Nat
      BY <1>4, <2>2
    <2>5. Room[b] <= Room[MaxOps]
      BY <2>2, <2>3, <2>4
    <2> QED BY <2>5 DEF b
  <1>7. Nat \subseteq T
    <2> HIDE DEF T
    <2> QED BY <1>5, <1>6, SetInduction
  <1>8. ASSUME NEW n \in 0 .. MaxOps PROVE Room[n] <= Room[MaxOps]
    <2>1. MaxOps - n \in Nat /\ MaxOps - n <= MaxOps /\ MaxOps - (MaxOps - n) = n
      BY <1>0
    <2> QED BY <1>7, <2>1
  <1> QED BY <1>4, <1>8

-----------------------------------------------------------------------------
(* The midpoint of two keys is rounded, but never past half of what is between. *)
LEMMA MidBetween ==
    ASSUME NEW a \in Int, NEW b \in Int, NEW g \in Int, b - a >= 2 * g
    PROVE  Mid(a, b) \in Int /\ Mid(a, b) - a >= g /\ b - Mid(a, b) >= g
  <1> DEFINE h == Halves(a, b)
  <1>1. h \in Int /\ (a + b = 2 * h \/ a + b = 2 * h + 1)
    BY DEF Halves
  <1>2. (a + b) % 2 = 0 => a + b = 2 * h
    BY DEF Halves
  <1>3. Mid(a, b) = h \/ (a + b = 2 * h + 1 /\ Mid(a, b) = h + 1)
    <2>1. (a + b) % 2 # 0 => a + b = 2 * h + 1
      BY DEF Halves
    <2> QED BY <2>1 DEF Mid
  <1> HIDE DEF h
  <1> QED BY <1>1, <1>3

LEMMA MidIsKey == ASSUME NEW a \in Int, NEW b \in Int PROVE Mid(a, b) \in Int
  BY DEF Mid, Halves

-----------------------------------------------------------------------------
(* SELECT ord ... ORDER BY ord *)
Smaller(k, n) == {m \in DOMAIN k : k[m] < k[n] \/ (k[m] = k[n] /\ m < n)}
Rank(k, n)    == Cardinality(Smaller(k, n))

LEMMA SortedByRank ==
    ASSUME NEW k
    PROVE  /\ DOMAIN Sorted(k) = 1 .. Cardinality(DOMAIN k)
           /\ Sorted(k) = [i \in 1 .. Cardinality(DOMAIN k) |->
                              k[CHOOSE n \in DOMAIN k : Rank(k, n) = i - 1]]
  BY Zenon DEF Sorted, Rank, Smaller

(* Every rank is some row's, so a folder's keys are read whole. *)
LEMMA EveryRank ==
    ASSUME NEW k, IsFiniteSet(DOMAIN k), DOMAIN k \subseteq Int, \A n \in DOMAIN k : k[n] \in Int,
           NEW i \in 1 .. Cardinality(DOMAIN k)
    PROVE  \E n \in DOMAIN k : Rank(k, n) = i - 1
  <1> DEFINE D == DOMAIN k
             N == Cardinality(D)
             f == [n \in D |-> Rank(k, n)]
  <1>0. N \in Nat
    BY FS_CardinalityType
  <1>1. ASSUME NEW n \in D PROVE IsFiniteSet(Smaller(k, n)) /\ Rank(k, n) \in 0 .. N - 1
    <2>1. Smaller(k, n) \in SUBSET D /\ n \notin Smaller(k, n)
      BY DEF Smaller
    <2>2. /\ IsFiniteSet(Smaller(k, n)) /\ Cardinality(Smaller(k, n)) <= N
          /\ Cardinality(Smaller(k, n)) # N
      BY <2>1, FS_Subset
    <2>3. Cardinality(Smaller(k, n)) \in Nat
      BY <2>2, FS_CardinalityType
    <2> QED BY <1>0, <2>2, <2>3 DEF Rank
  <1>2. ASSUME NEW m \in D, NEW n \in D, m \in Smaller(k, n) PROVE Rank(k, m) # Rank(k, n)
    <2>1. Smaller(k, m) \subseteq Smaller(k, n)
      BY <1>2 DEF Smaller
    <2>2. m \notin Smaller(k, m)
      BY DEF Smaller
    <2>3. Smaller(k, m) \in SUBSET Smaller(k, n) /\ Smaller(k, m) # Smaller(k, n)
      BY <1>2, <2>1, <2>2
    <2> QED BY <1>1, <2>3, FS_Subset DEF Rank
  <1>3. ASSUME NEW m \in D, NEW n \in D, m # n PROVE Rank(k, m) # Rank(k, n)
    <2>1. m \in Smaller(k, n) \/ n \in Smaller(k, m)
      BY <1>3 DEF Smaller
    <2> QED BY <1>2, <2>1
  <1>4. f \in Injection(D, 0 .. N - 1)
    <2>1. f \in [D -> 0 .. N - 1]
      BY <1>1
    <2>2. \A m, n \in D : f[m] = f[n] => m = n
      BY <1>3
    <2> HIDE DEF f, D, N
    <2> QED BY <2>1, <2>2 DEF Injection, IsInjective
  <1>5. IsFiniteSet(0 .. N - 1) /\ Cardinality(0 .. N - 1) = N
    <2> HIDE DEF N
    <2>1. 0 \in Int /\ N - 1 \in Int /\ (0 > N - 1 => N = 0) /\ (N - 1) - 0 + 1 = N
      BY <1>0
    <2>2. /\ IsFiniteSet(0 .. N - 1)
          /\ Cardinality(0 .. N - 1) = IF 0 > N - 1 THEN 0 ELSE (N - 1) - 0 + 1
      BY <2>1, FS_Interval
    <2> QED BY <2>1, <2>2
  <1>6. f \in Surjection(D, 0 .. N - 1)
    <2> HIDE DEF f, D, N
    <2> QED BY <1>4, <1>5, FS_Injection DEF N
  <1>7. i - 1 \in 0 .. N - 1
    BY <1>0
  <1>8. PICK n \in D : f[n] = i - 1
    <2> HIDE DEF f, D, N
    <2> QED BY <1>6, <1>7 DEF Surjection
  <1> QED BY <1>8

LEMMA SortedKeys ==
    ASSUME NEW k, IsFiniteSet(DOMAIN k), DOMAIN k \subseteq Int, \A n \in DOMAIN k : k[n] \in Int
    PROVE  /\ Sorted(k) \in Seq(Int) /\ Len(Sorted(k)) = Cardinality(DOMAIN k)
           /\ Cardinality(DOMAIN k) \in Nat
  <1> DEFINE N == Cardinality(DOMAIN k)
             at(i) == CHOOSE n \in DOMAIN k : Rank(k, n) = i - 1
  <1>0. N \in Nat
    BY FS_CardinalityType
  <1>1. ASSUME NEW i \in 1 .. N PROVE k[at(i)] \in Int
    <2>1. at(i) \in DOMAIN k
      BY EveryRank
    <2> HIDE DEF at
    <2> QED BY <2>1
  <1>2. Sorted(k) = [i \in 1 .. N |-> k[at(i)]]
    BY SortedByRank
  <1> HIDE DEF N, at
  <1>3. Sorted(k) \in [1 .. N -> Int]
    BY <1>1, <1>2
  <1>4. Sorted(k) \in Seq(Int) /\ Len(Sorted(k)) = N
    BY <1>0, <1>3
  <1> QED BY <1>0, <1>4 DEF N

(* A list without repetitions *)
Once(w) == \A i, j \in DOMAIN w : w[i] = w[j] => i = j

LEMMA CountOnce ==
    ASSUME NEW w \in Seq(Nat), Once(w), NEW n \in 0 .. Len(w)
    PROVE  LET T == {w[j] : j \in 1 .. n} IN IsFiniteSet(T) /\ Cardinality(T) = n
  <1> DEFINE T == {w[j] : j \in 1 .. n}
             f == [j \in 1 .. n |-> w[j]]
  <1>0. Len(w) \in Nat /\ DOMAIN w = 1 .. Len(w)
    BY LenProperties
  <1>1. f \in Bijection(1 .. n, T)
    <2>1. f \in [1 .. n -> T]
      OBVIOUS
    <2>2. \A x, y \in 1 .. n : f[x] = f[y] => x = y
      BY <1>0 DEF Once
    <2>3. \A t \in T : \E x \in 1 .. n : f[x] = t
      OBVIOUS
    <2> HIDE DEF f, T
    <2> QED BY <2>1, <2>2, <2>3 DEF Bijection, Injection, Surjection, IsInjective
  <1>2. IsFiniteSet(1 .. n) /\ Cardinality(1 .. n) = n
    <2>1. 1 \in Int /\ n \in Int /\ n \in Nat
      BY <1>0
    <2>2. IsFiniteSet(1 .. n) /\ Cardinality(1 .. n) = IF 1 > n THEN 0 ELSE n - 1 + 1
      BY <2>1, FS_Interval
    <2> QED BY <2>1, <2>2
  <1> HIDE DEF f, T
  <1>3. ExistsBijection(1 .. n, T)
    BY <1>1 DEF ExistsBijection
  <1>4. IsFiniteSet(T) /\ Cardinality(T) = n
    BY <1>2, <1>3, FS_Bijection
  <1> QED BY <1>4 DEF T

(* Rows that are listed with growing keys are read in the order of the list. *)
LEMMA SortedAsListed ==
    ASSUME NEW w \in Seq(Nat), NEW k, DOMAIN k = {w[i] : i \in DOMAIN w},
           \A n \in DOMAIN k : k[n] \in Int,
           \A i, j \in DOMAIN w : i < j => k[w[i]] < k[w[j]]
    PROVE  /\ Sorted(k) = [i \in 1 .. Len(w) |-> k[w[i]]]
           /\ IsFiniteSet(DOMAIN k) /\ Cardinality(DOMAIN k) = Len(w)
  <1> DEFINE N == Len(w)
  <1>0. N \in Nat /\ DOMAIN w = 1 .. N /\ \A i \in 1 .. N : w[i] \in Nat /\ w[i] \in DOMAIN k
    <2>1. N \in Nat /\ DOMAIN w = 1 .. N
      BY LenProperties
    <2> QED BY <2>1, ElementOfSeq
  <1>1. \A i, j \in 1 .. N : i # j => w[i] # w[j]
    <2> SUFFICES ASSUME NEW i \in 1 .. N, NEW j \in 1 .. N, i # j PROVE w[i] # w[j]
      OBVIOUS
    <2>1. i \in DOMAIN w /\ j \in DOMAIN w /\ (i < j \/ j < i)
      BY <1>0
    <2>2. k[w[i]] \in Int /\ (k[w[i]] < k[w[j]] \/ k[w[j]] < k[w[i]])
      BY <1>0, <2>1
    <2>3. \A x \in Int : ~ (x < x)
      OBVIOUS
    <2> QED BY <2>2, <2>3, Zenon
  <1>2. ASSUME NEW n \in 0 .. N
        PROVE  LET T == {w[j] : j \in 1 .. n} IN IsFiniteSet(T) /\ Cardinality(T) = n
    BY <1>0, <1>1, CountOnce DEF Once
  <1>3. IsFiniteSet(DOMAIN k) /\ Cardinality(DOMAIN k) = N
    <2>1. N \in 0 .. N /\ DOMAIN k = {w[j] : j \in 1 .. N}
      BY <1>0
    <2> QED BY <1>2, <2>1
  <1>4. ASSUME NEW i \in 1 .. N PROVE Rank(k, w[i]) = i - 1
    <2>1. Smaller(k, w[i]) = {w[j] : j \in 1 .. i - 1}
      <3>1. ASSUME NEW j \in 1 .. N
            PROVE  (k[w[j]] < k[w[i]] \/ (k[w[j]] = k[w[i]] /\ w[j] < w[i])) <=> j < i
        <4>1. k[w[i]] \in Int /\ k[w[j]] \in Int /\ w[i] \in Nat /\ w[j] \in Nat
          BY <1>0
        <4>2. CASE j < i
          BY <1>0, <4>1, <4>2
        <4>3. CASE i < j
          <5>1. k[w[i]] < k[w[j]]
            BY <1>0, <4>3
          <5> QED BY <4>1, <4>3, <5>1
        <4>4. CASE i = j
          BY <4>1, <4>4
        <4>5. i \in Int /\ j \in Int
          BY <1>0
        <4> QED BY <4>2, <4>3, <4>4, <4>5
      <3>2. \A j \in 1 .. N : j < i <=> j \in 1 .. i - 1
        BY <1>0
      <3>3. \A j \in 1 .. i - 1 : j \in 1 .. N
        BY <1>0
      <3>4. DOMAIN k = {w[j] : j \in 1 .. N}
        BY <1>0
      <3> HIDE DEF N
      <3>5. ASSUME NEW m \in Smaller(k, w[i]) PROVE m \in {w[j] : j \in 1 .. i - 1}
        <4>1. PICK j \in 1 .. N : m = w[j]
          BY <3>4 DEF Smaller
        <4>2. j < i
          BY <3>1, <4>1 DEF Smaller
        <4> QED BY <3>2, <4>1, <4>2
      <3>6. ASSUME NEW j \in 1 .. i - 1 PROVE w[j] \in Smaller(k, w[i])
        <4>1. j \in 1 .. N /\ j < i
          BY <3>2, <3>3
        <4> QED BY <3>1, <3>4, <4>1 DEF Smaller
      <3> QED BY <3>5, <3>6
    <2>2. i - 1 \in 0 .. N
      BY <1>0
    <2> QED BY <1>2, <2>1, <2>2 DEF Rank
  <1>5. ASSUME NEW i \in 1 .. N
        PROVE  (CHOOSE n \in DOMAIN k : Rank(k, n) = i - 1) = w[i]
    <2> HIDE DEF N
    <2>1. \A n \in DOMAIN k : \E j \in 1 .. N : n = w[j] /\ Rank(k, n) = j - 1
      BY <1>0, <1>4
    <2>2. ASSUME NEW n \in DOMAIN k, Rank(k, n) = i - 1 PROVE n = w[i]
      <3>1. PICK j \in 1 .. N : n = w[j] /\ Rank(k, n) = j - 1
        BY <2>1
      <3>2. j = i
        BY <1>0, <2>2, <3>1
      <3> QED BY <3>1, <3>2
    <2> QED BY <1>0, <1>4, <2>2
  <1>6. Sorted(k) = [i \in 1 .. N |-> k[w[i]]]
    <2>1. Sorted(k) = [i \in 1 .. N |-> k[CHOOSE n \in DOMAIN k : Rank(k, n) = i - 1]]
      BY <1>3, SortedByRank
    <2> HIDE DEF N
    <2> QED BY <1>5, <2>1, Zenon
  <1> QED BY <1>3, <1>6

-----------------------------------------------------------------------------
(* Lists: an element more, an element less *)
LEMMA Insertion ==
    ASSUME NEW w \in Seq(Nat), NEW n \in Nat, NEW p \in 0 .. Len(w)
    PROVE  LET v == InsertAt(w, p + 1, n)
           IN  /\ v \in Seq(Nat) /\ Len(v) = Len(w) + 1 /\ DOMAIN v = 1 .. Len(w) + 1
               /\ \A j \in 1 .. Len(w) + 1 :
                     v[j] = IF j <= p THEN w[j] ELSE IF j = p + 1 THEN n ELSE w[j - 1]
  <1> DEFINE N == Len(w)
             a == SubSeq(w, 1, p)
             b == SubSeq(w, p + 1, N)
             v == InsertAt(w, p + 1, n)
  <1>0. N \in Nat /\ DOMAIN w = 1 .. N /\ \A i \in 1 .. N : w[i] \in Nat
    BY LenProperties, ElementOfSeq
  <1>p. p \in 0 .. N
    OBVIOUS
  <1>1. p \in Int /\ p + 1 \in Int /\ N \in Int /\ (p + 1) - 1 = p
    BY <1>0
  <1>2. a \in Seq(Nat) /\ Len(a) = p /\ \A i \in 1 .. p : a[i] = w[i]
    <2>1. \A i \in 1 .. p : w[i] \in Nat
      BY <1>0
    <2>2. /\ a \in Seq(Nat) /\ Len(a) = (IF 1 <= p THEN p - 1 + 1 ELSE 0)
          /\ \A i \in 1 .. p - 1 + 1 : a[i] = w[1 + i - 1]
      BY <1>1, <2>1, SubSeqProperties
    <2> HIDE DEF a, N
    <2>3. \A i \in 1 .. p : 1 + i - 1 = i /\ i \in 1 .. p - 1 + 1
      BY <1>0
    <2>4. \A i \in 1 .. p : a[i] = w[i]
      BY <2>2, <2>3, Zenon
    <2>5. Len(a) = p
      BY <1>0, <2>2 DEF N
    <2> QED BY <2>2, <2>4, <2>5
  <1>3. b \in Seq(Nat) /\ Len(b) = N - p /\ \A i \in 1 .. N - p : b[i] = w[p + i]
    <2>1. \A i \in p + 1 .. N : w[i] \in Nat
      BY <1>0
    <2>2. /\ b \in Seq(Nat) /\ Len(b) = (IF p + 1 <= N THEN N - (p + 1) + 1 ELSE 0)
          /\ \A i \in 1 .. N - (p + 1) + 1 : b[i] = w[p + 1 + i - 1]
      BY <1>1, <2>1, SubSeqProperties
    <2>3. \A i \in 1 .. N - p : p + 1 + i - 1 = p + i /\ i \in 1 .. N - (p + 1) + 1
      BY <1>0
    <2> HIDE DEF b, N
    <2>5. Len(b) = N - p
      <3>1. CASE p + 1 <= N
        <4>1. Len(b) = N - (p + 1) + 1
          BY <2>2, <3>1
        <4>2. N - (p + 1) + 1 = N - p
          BY <1>0, <1>p
        <4> QED BY <4>1, <4>2
      <3>2. CASE ~ (p + 1 <= N)
        <4>1. Len(b) = 0
          BY <2>2, <3>2
        <4>2. N - p = 0
          BY <1>0, <1>p, <3>2
        <4> QED BY <4>1, <4>2
      <3> QED BY <3>1, <3>2
    <2>4. \A i \in 1 .. N - p : b[i] = w[p + i]
      BY <2>2, <2>3, Zenon
    <2> QED BY <2>2, <2>4, <2>5
  <1>4. v = a \o <<n>> \o b
    BY <1>1 DEF InsertAt
  <1> HIDE DEF a, b, v, N
  <1>5. <<n>> \in Seq(Nat) /\ Len(<<n>>) = 1 /\ <<n>>[1] = n
    OBVIOUS
  <1>6. /\ a \o <<n>> \in Seq(Nat) /\ Len(a \o <<n>>) = p + 1
        /\ \A i \in 1 .. p + 1 : (a \o <<n>>)[i] = IF i <= p THEN w[i] ELSE n
    <2>1. /\ a \o <<n>> \in Seq(Nat) /\ Len(a \o <<n>>) = p + 1
          /\ \A i \in 1 .. p + 1 : (a \o <<n>>)[i] = IF i <= p THEN a[i] ELSE <<n>>[i - p]
      BY <1>2, <1>5, ConcatProperties
    <2> DEFINE c == a \o <<n>>
    <2> HIDE DEF c
    <2>2. \A i \in 1 .. p + 1 : (i <= p => i \in 1 .. p) /\ (~ (i <= p) => i - p = 1)
      BY <1>0, <1>p
    <2> QED BY <1>2, <1>5, <2>1, <2>2
  <1>7. /\ v \in Seq(Nat) /\ Len(v) = N + 1
        /\ \A i \in 1 .. N + 1 : v[i] = IF i <= p + 1 THEN (a \o <<n>>)[i] ELSE b[i - (p + 1)]
    <2> DEFINE c == a \o <<n>>
    <2>1. c \in Seq(Nat) /\ Len(c) = p + 1 /\ v = c \o b
      BY <1>4, <1>6
    <2> HIDE DEF c
    <2>2. /\ v \in Seq(Nat) /\ Len(v) = Len(c) + Len(b)
          /\ \A i \in 1 .. Len(c) + Len(b) : v[i] = IF i <= Len(c) THEN c[i] ELSE b[i - Len(c)]
      BY <1>3, <2>1, ConcatProperties
    <2>3. Len(c) + Len(b) = N + 1
      BY <1>0, <1>p, <1>3, <2>1
    <2> QED BY <2>1, <2>2, <2>3 DEF c
  <1>9. ASSUME NEW j \in 1 .. N + 1
        PROVE  v[j] = IF j <= p THEN w[j] ELSE IF j = p + 1 THEN n ELSE w[j - 1]
    <2>1. CASE j <= p + 1
      <3>0. j \in 1 .. p + 1
        BY <1>0, <1>p, <2>1
      <3>1. j \in 1 .. p + 1 /\ v[j] = (a \o <<n>>)[j]
        BY <1>7, <2>1, <3>0, Zenon
      <3>2. v[j] = IF j <= p THEN w[j] ELSE n
        BY <1>6, <3>1
      <3>3. ~ (j <= p) => j = p + 1
        BY <1>0, <1>p, <2>1
      <3> QED BY <3>2, <3>3
    <2>2. CASE ~ (j <= p + 1)
      <3>1. /\ j - (p + 1) \in 1 .. N - p /\ p + (j - (p + 1)) = j - 1
            /\ ~ (j <= p) /\ j # p + 1
        BY <1>0, <1>p, <2>2
      <3>2. v[j] = b[j - (p + 1)]
        BY <1>7, <2>2
      <3> QED BY <1>3, <3>1, <3>2
    <2> QED BY <2>1, <2>2
  <1>10. Len(v) = N + 1 /\ DOMAIN v = 1 .. N + 1
    BY <1>7, LenProperties
  <1> QED BY <1>7, <1>9, <1>10 DEF v, N

LEMMA Removal ==
    ASSUME NEW w \in Seq(Nat), NEW q \in 1 .. Len(w)
    PROVE  LET v == RemoveAt(w, q)
           IN  /\ v \in Seq(Nat) /\ Len(v) = Len(w) - 1 /\ DOMAIN v = 1 .. Len(w) - 1
               /\ \A j \in 1 .. Len(w) - 1 : v[j] = IF j < q THEN w[j] ELSE w[j + 1]
  <1> DEFINE N == Len(w)
             a == SubSeq(w, 1, q - 1)
             b == SubSeq(w, q + 1, N)
             v == RemoveAt(w, q)
  <1>0. N \in Nat /\ DOMAIN w = 1 .. N /\ \A i \in 1 .. N : w[i] \in Nat
    BY LenProperties, ElementOfSeq
  <1>q. q \in 1 .. N
    OBVIOUS
  <1>1. q - 1 \in Int /\ q + 1 \in Int /\ N \in Int
    BY <1>0
  <1>2. a \in Seq(Nat) /\ Len(a) = q - 1 /\ \A i \in 1 .. q - 1 : a[i] = w[i]
    <2>1. \A i \in 1 .. q - 1 : w[i] \in Nat
      BY <1>0
    <2>2. /\ a \in Seq(Nat) /\ Len(a) = (IF 1 <= q - 1 THEN q - 1 - 1 + 1 ELSE 0)
          /\ \A i \in 1 .. q - 1 - 1 + 1 : a[i] = w[1 + i - 1]
      BY <1>1, <2>1, SubSeqProperties
    <2>3. \A i \in 1 .. q - 1 : 1 + i - 1 = i /\ i \in 1 .. q - 1 - 1 + 1
      BY <1>0
    <2>5. Len(a) = q - 1
      <3> HIDE DEF a
      <3> QED BY <1>0, <2>2
    <2> HIDE DEF a, N
    <2>4. \A i \in 1 .. q - 1 : a[i] = w[i]
      BY <2>2, <2>3, Zenon
    <2> QED BY <2>2, <2>4, <2>5
  <1>3. b \in Seq(Nat) /\ Len(b) = N - q /\ \A i \in 1 .. N - q : b[i] = w[q + i]
    <2>1. \A i \in q + 1 .. N : w[i] \in Nat
      BY <1>0
    <2>2. /\ b \in Seq(Nat) /\ Len(b) = (IF q + 1 <= N THEN N - (q + 1) + 1 ELSE 0)
          /\ \A i \in 1 .. N - (q + 1) + 1 : b[i] = w[q + 1 + i - 1]
      BY <1>1, <2>1, SubSeqProperties
    <2>3. \A i \in 1 .. N - q : q + 1 + i - 1 = q + i /\ i \in 1 .. N - (q + 1) + 1
      BY <1>0
    <2> HIDE DEF b, N
    <2>5. Len(b) = N - q
      <3>1. CASE q + 1 <= N
        <4>1. Len(b) = N - (q + 1) + 1
          BY <2>2, <3>1
        <4>2. N - (q + 1) + 1 = N - q
          BY <1>0, <1>q
        <4> QED BY <4>1, <4>2
      <3>2. CASE ~ (q + 1 <= N)
        <4>1. Len(b) = 0
          BY <2>2, <3>2
        <4>2. N - q = 0
          BY <1>0, <1>q, <3>2
        <4> QED BY <4>1, <4>2
      <3> QED BY <3>1, <3>2
    <2>4. \A i \in 1 .. N - q : b[i] = w[q + i]
      BY <2>2, <2>3, Zenon
    <2> QED BY <2>2, <2>4, <2>5
  <1>4. v = a \o b
    BY DEF RemoveAt
  <1> HIDE DEF a, b, v, N
  <1>5. /\ v \in Seq(Nat) /\ Len(v) = N - 1
        /\ \A i \in 1 .. N - 1 : v[i] = IF i <= q - 1 THEN a[i] ELSE b[i - (q - 1)]
    <2>1. /\ v \in Seq(Nat) /\ Len(v) = Len(a) + Len(b)
          /\ \A i \in 1 .. Len(a) + Len(b) : v[i] = IF i <= Len(a) THEN a[i] ELSE b[i - Len(a)]
      BY <1>2, <1>3, <1>4, ConcatProperties
    <2>2. Len(a) + Len(b) = N - 1
      BY <1>0, <1>q, <1>2, <1>3
    <2> QED BY <1>2, <2>1, <2>2
  <1>7. ASSUME NEW j \in 1 .. N - 1 PROVE v[j] = IF j < q THEN w[j] ELSE w[j + 1]
    <2>1. CASE j < q
      <3>1. j \in 1 .. q - 1 /\ j <= q - 1
        BY <1>0, <1>q, <2>1
      <3>2. v[j] = a[j]
        BY <1>5, <3>1
      <3> QED BY <1>2, <2>1, <3>1, <3>2
    <2>2. CASE ~ (j < q)
      <3>1. j - (q - 1) \in 1 .. N - q /\ q + (j - (q - 1)) = j + 1 /\ ~ (j <= q - 1)
        BY <1>0, <1>q, <2>2
      <3>2. v[j] = b[j - (q - 1)]
        BY <1>5, <3>1
      <3> QED BY <1>3, <2>2, <3>1, <3>2
    <2> QED BY <2>1, <2>2
  <1>8. Len(v) = N - 1 /\ DOMAIN v = 1 .. N - 1
    BY <1>5, LenProperties
  <1> QED BY <1>5, <1>7, <1>8 DEF v, N

(* The keys k of the list w grow by g at least from one to the next. *)
Spaced(w, k, g) == \A i, j \in DOMAIN w : i < j => k[w[j]] - k[w[i]] >= g

LEMMA ListLonger ==
    ASSUME NEW w \in Seq(Nat), Once(w), NEW n \in Nat, n \notin ToSet(w), NEW p \in 0 .. Len(w)
    PROVE  LET v == InsertAt(w, p + 1, n)
           IN  v \in Seq(Nat) /\ Once(v) /\ ToSet(v) = ToSet(w) \cup {n}
  <1> DEFINE v == InsertAt(w, p + 1, n)
             N == Len(w)
  <1>0. N \in Nat /\ DOMAIN w = 1 .. N /\ p \in 0 .. N
    BY LenProperties
  <1>1. /\ v \in Seq(Nat) /\ DOMAIN v = 1 .. N + 1
        /\ \A j \in 1 .. N + 1 :
              v[j] = IF j <= p THEN w[j] ELSE IF j = p + 1 THEN n ELSE w[j - 1]
    BY Insertion
  <1> HIDE DEF v, N
  <1>2. \A i \in 1 .. N : w[i] # n
    BY <1>0 DEF ToSet
  <1>3. \A j \in 1 .. N + 1 : \/ j <= p /\ j \in 1 .. N /\ v[j] = w[j]
                              \/ j = p + 1 /\ v[j] = n
                              \/ j > p + 1 /\ j - 1 \in 1 .. N /\ v[j] = w[j - 1]
    BY <1>0, <1>1
  <1>4. ASSUME NEW i \in 1 .. N + 1, NEW j \in 1 .. N + 1, v[i] = v[j] PROVE i = j
    <2>1. \A x, y \in 1 .. N : w[x] = w[y] => x = y
      BY <1>0 DEF Once
    <2> QED BY <1>0, <1>2, <1>3, <1>4, <2>1
  <1>5. ASSUME NEW i \in 1 .. N PROVE \E j \in 1 .. N + 1 : v[j] = w[i]
    <2>1. CASE i <= p
      <3>1. i \in 1 .. N + 1
        BY <1>0
      <3> QED BY <1>1, <2>1, <3>1
    <2>2. CASE ~ (i <= p)
      <3>1. i + 1 \in 1 .. N + 1 /\ ~ (i + 1 <= p) /\ i + 1 # p + 1 /\ (i + 1) - 1 = i
        BY <1>0, <2>2
      <3> QED BY <1>1, <3>1
    <2> QED BY <2>1, <2>2
  <1>6. \E j \in 1 .. N + 1 : v[j] = n
    <2>1. p + 1 \in 1 .. N + 1 /\ ~ (p + 1 <= p)
      BY <1>0
    <2> QED BY <1>1, <2>1
  <1>7. Once(v)
    BY <1>1, <1>4 DEF Once
  <1>8. ToSet(v) = ToSet(w) \cup {n}
    <2>1. \A j \in 1 .. N + 1 : v[j] = n \/ \E i \in 1 .. N : v[j] = w[i]
      BY <1>3
    <2>2. ToSet(v) = {v[j] : j \in 1 .. N + 1} /\ ToSet(w) = {w[i] : i \in 1 .. N}
      BY <1>0, <1>1 DEF ToSet
    <2>3. ToSet(v) \subseteq ToSet(w) \cup {n}
      BY <2>1, <2>2
    <2>4. ToSet(w) \cup {n} \subseteq ToSet(v)
      BY <1>5, <1>6, <2>2
    <2> QED BY <2>3, <2>4
  <1> QED BY <1>1, <1>7, <1>8 DEF v

LEMMA ListShorter ==
    ASSUME NEW w \in Seq(Nat), Once(w), NEW q \in 1 .. Len(w)
    PROVE  LET v == RemoveAt(w, q)
           IN  v \in Seq(Nat) /\ Once(v) /\ ToSet(v) = ToSet(w) \ {w[q]}
  <1> DEFINE v == RemoveAt(w, q)
             N == Len(w)
  <1>0. N \in Nat /\ DOMAIN w = 1 .. N /\ q \in 1 .. N
    BY LenProperties
  <1>1. /\ v \in Seq(Nat) /\ DOMAIN v = 1 .. N - 1
        /\ \A j \in 1 .. N - 1 : v[j] = IF j < q THEN w[j] ELSE w[j + 1]
    BY Removal
  <1> HIDE DEF v, N
  <1>2. \A j \in 1 .. N - 1 : \/ j < q /\ j \in 1 .. N /\ v[j] = w[j]
                              \/ j >= q /\ j + 1 \in 1 .. N /\ v[j] = w[j + 1]
    BY <1>0, <1>1
  <1>3. \A x, y \in 1 .. N : w[x] = w[y] => x = y
    BY <1>0 DEF Once
  <1>4. \A i, j \in 1 .. N - 1 : v[i] = v[j] => i = j
    BY <1>0, <1>2, <1>3
  <1>5. ASSUME NEW i \in 1 .. N, i # q PROVE \E j \in 1 .. N - 1 : v[j] = w[i]
    <2>1. CASE i < q
      <3>1. i \in 1 .. N - 1
        BY <1>0, <2>1
      <3> QED BY <1>1, <2>1, <3>1
    <2>2. CASE ~ (i < q)
      <3>1. i - 1 \in 1 .. N - 1 /\ ~ (i - 1 < q) /\ (i - 1) + 1 = i
        BY <1>0, <1>5, <2>2
      <3> QED BY <1>1, <3>1
    <2> QED BY <2>1, <2>2
  <1>6. \A j \in 1 .. N - 1 : v[j] # w[q]
    BY <1>0, <1>2, <1>3
  <1>7. Once(v)
    BY <1>1, <1>4 DEF Once
  <1>8. ToSet(v) = ToSet(w) \ {w[q]}
    <2>1. \A j \in 1 .. N - 1 : \E i \in 1 .. N : v[j] = w[i]
      BY <1>2
    <2>2. ToSet(v) = {v[j] : j \in 1 .. N - 1} /\ ToSet(w) = {w[i] : i \in 1 .. N}
      BY <1>0, <1>1 DEF ToSet
    <2>3. ToSet(v) \subseteq ToSet(w) \ {w[q]}
      BY <1>6, <2>1, <2>2
    <2>4. ToSet(w) \ {w[q]} \subseteq ToSet(v)
      BY <1>5, <2>2
    <2> QED BY <2>3, <2>4
  <1> QED BY <1>1, <1>7, <1>8 DEF v

(* A key that is g away from all others keeps the list spaced. *)
LEMMA SpacedLonger ==
    ASSUME NEW w \in Seq(Nat), NEW n \in Nat, NEW p \in 0 .. Len(w), NEW k, NEW g \in Int,
           Spaced(w, k, g),
           \A j \in 1 .. Len(w) : j <= p => k[n] - k[w[j]] >= g,
           \A j \in 1 .. Len(w) : j > p => k[w[j]] - k[n] >= g
    PROVE  Spaced(InsertAt(w, p + 1, n), k, g)
  <1> DEFINE v == InsertAt(w, p + 1, n)
             N == Len(w)
  <1>0. N \in Nat /\ DOMAIN w = 1 .. N /\ p \in 0 .. N
    BY LenProperties
  <1>t. w \in Seq(Nat) /\ n \in Nat /\ p \in 0 .. Len(w)
    OBVIOUS
  <1>1. /\ DOMAIN v = 1 .. N + 1
        /\ \A j \in 1 .. N + 1 :
              v[j] = IF j <= p THEN w[j] ELSE IF j = p + 1 THEN n ELSE w[j - 1]
    BY ONLY <1>t, Insertion
  <1>a. /\ \A j \in 1 .. N : j <= p => k[n] - k[w[j]] >= g
        /\ \A j \in 1 .. N : j > p => k[w[j]] - k[n] >= g
    OBVIOUS
  <1> HIDE DEF v, N
  <1>2. \A x, y \in 1 .. N : x < y => k[w[y]] - k[w[x]] >= g
    BY <1>0 DEF Spaced
  <1>3. \A j \in 1 .. N + 1 : \/ j <= p /\ j \in 1 .. N /\ v[j] = w[j]
                              \/ j = p + 1 /\ v[j] = n
                              \/ j > p + 1 /\ j - 1 \in 1 .. N /\ v[j] = w[j - 1]
    BY <1>0, <1>1
  <1>4. ASSUME NEW i \in 1 .. N + 1, NEW j \in 1 .. N + 1, i < j PROVE k[v[j]] - k[v[i]] >= g
    <2>1. CASE j <= p
      BY <1>0, <1>2, <1>3, <1>4, <2>1
    <2>2. CASE j = p + 1
      <3>1. i <= p /\ i \in 1 .. N /\ v[i] = w[i] /\ v[j] = n
        BY <1>0, <1>3, <1>4, <2>2
      <3> QED BY <1>a, <3>1
    <2>3. CASE j > p + 1
      <3>1. j - 1 \in 1 .. N /\ v[j] = w[j - 1] /\ j - 1 > p
        BY <1>0, <1>3, <2>3
      <3>2. CASE i <= p
        <4>1. i \in 1 .. N /\ v[i] = w[i] /\ i < j - 1
          BY <1>0, <1>3, <2>3, <3>2
        <4> QED BY <1>2, <3>1, <4>1
      <3>3. CASE i = p + 1
        <4>1. v[i] = n
          BY <1>0, <1>3, <3>3
        <4> QED BY <1>a, <3>1, <4>1
      <3>4. CASE i > p + 1
        <4>1. i - 1 \in 1 .. N /\ v[i] = w[i - 1] /\ i - 1 < j - 1
          BY <1>0, <1>3, <1>4, <3>4
        <4> QED BY <1>2, <3>1, <4>1
      <3> QED BY <1>0, <3>2, <3>3, <3>4
    <2> QED BY <1>0, <2>1, <2>2, <2>3
  <1>5. Spaced(v, k, g)
    BY <1>1, <1>4 DEF Spaced
  <1> QED BY <1>5 DEF v

LEMMA SpacedShorter ==
    ASSUME NEW w \in Seq(Nat), NEW q \in 1 .. Len(w), NEW k, NEW g, Spaced(w, k, g)
    PROVE  Spaced(RemoveAt(w, q), k, g)
  <1> DEFINE v == RemoveAt(w, q)
             N == Len(w)
  <1>0. N \in Nat /\ DOMAIN w = 1 .. N /\ q \in 1 .. N
    BY LenProperties
  <1>1. /\ DOMAIN v = 1 .. N - 1
        /\ \A j \in 1 .. N - 1 : v[j] = IF j < q THEN w[j] ELSE w[j + 1]
    BY Removal
  <1> HIDE DEF v, N
  <1>2. \A j \in 1 .. N - 1 : \/ j < q /\ j \in 1 .. N /\ v[j] = w[j]
                              \/ j >= q /\ j + 1 \in 1 .. N /\ v[j] = w[j + 1]
    BY <1>0, <1>1
  <1>3. \A x, y \in 1 .. N : x < y => k[w[y]] - k[w[x]] >= g
    BY <1>0 DEF Spaced
  <1>4. ASSUME NEW i \in 1 .. N - 1, NEW j \in 1 .. N - 1, i < j PROVE k[v[j]] - k[v[i]] >= g
    <2>1. PICK x \in 1 .. N : v[i] = w[x] /\ ((x = i /\ i < q) \/ (x = i + 1 /\ i >= q))
      BY <1>2
    <2>2. PICK y \in 1 .. N : v[j] = w[y] /\ ((y = j /\ j < q) \/ (y = j + 1 /\ j >= q))
      BY <1>2
    <2>3. x < y
      BY <1>0, <1>4, <2>1, <2>2
    <2> QED BY <1>3, <2>1, <2>2, <2>3
  <1>5. Spaced(v, k, g)
    BY <1>1, <1>4 DEF Spaced
  <1> QED BY <1>5 DEF v

-----------------------------------------------------------------------------
(* calcOrd *)
LEMMA PositionInList ==
    ASSUME NEW n \in Nat, NEW i \in {Nil} \cup 0 .. n
    PROVE  Position(i, n) \in 0 .. n
  <1>1. CASE i = Nil
    BY <1>1 DEF Position
  <1>2. CASE i # Nil
    BY <1>2 DEF Position
  <1> QED BY <1>1, <1>2

LEMMA CalcOrdIsKey ==
    ASSUME NEW keys \in Seq(Int), NEW i \in {Nil} \cup 0 .. Len(keys)
    PROVE  CalcOrd(keys, i) \in Int
  <1> DEFINE n == Len(keys)
             p == Position(i, n)
  <1>1. n \in Nat /\ \A j \in 1 .. n : keys[j] \in Int
    BY LenProperties, ElementOfSeq
  <1>2. p \in 0 .. n
    BY <1>1, PositionInList
  <1>3. Unit \in Nat
    BY OrdConstants
  <1>4. /\ n = 0 => CalcOrd(keys, i) = 0
        /\ n > 0 /\ p = 0 => CalcOrd(keys, i) = keys[1] - Unit
        /\ n > 0 /\ p = n => CalcOrd(keys, i) = keys[n] + Unit
        /\ n > 0 /\ p \notin {0, n} => CalcOrd(keys, i) = Mid(keys[p], keys[p + 1])
    <2> HIDE DEF n, p
    <2> QED BY <1>1, <1>2 DEF CalcOrd, n, p
  <1> HIDE DEF n, p
  <1>5. CASE n = 0
    BY <1>4, <1>5
  <1>6. CASE n > 0 /\ p = 0
    BY <1>1, <1>3, <1>4, <1>6
  <1>7. CASE n > 0 /\ p = n
    BY <1>1, <1>3, <1>4, <1>7
  <1>8. CASE n > 0 /\ p \notin {0, n}
    <2>1. p \in 1 .. n /\ p + 1 \in 1 .. n
      BY <1>1, <1>2, <1>8
    <2> QED BY <1>1, <1>4, <1>8, <2>1, MidIsKey
  <1> QED BY <1>1, <1>5, <1>6, <1>7, <1>8

(* Where keys are 2g apart, the key that is computed for an index is g away from
   all keys, on the right side of each. *)
LEMMA KeyFits ==
    ASSUME NEW keys \in Seq(Int), NEW i \in {Nil} \cup 0 .. Len(keys), NEW g \in Nat \ {0},
           g <= Unit,
           \A x, y \in 1 .. Len(keys) : x < y => keys[y] - keys[x] >= 2 * g
    PROVE  LET key == CalcOrd(keys, i)
               p   == Position(i, Len(keys))
           IN  \A j \in 1 .. Len(keys) : /\ j <= p => key - keys[j] >= g
                                         /\ j > p => keys[j] - key >= g
  <1> DEFINE n == Len(keys)
             p == Position(i, n)
             key == CalcOrd(keys, i)
  <1>1. n \in Nat /\ \A j \in 1 .. n : keys[j] \in Int
    BY LenProperties, ElementOfSeq
  <1>2. p \in 0 .. n
    BY <1>1, PositionInList
  <1>3. Unit \in Nat /\ g \in Nat /\ g <= Unit
    BY OrdConstants
  <1>4. /\ n > 0 /\ p = 0 => key = keys[1] - Unit
        /\ n > 0 /\ p = n => key = keys[n] + Unit
        /\ n > 0 /\ p \notin {0, n} => key = Mid(keys[p], keys[p + 1])
    <2> HIDE DEF n, p
    <2> QED BY <1>1, <1>2 DEF CalcOrd, n, p
  <1>5. \A x, y \in 1 .. n : x < y => keys[y] - keys[x] >= 2 * g
    OBVIOUS
  <1> SUFFICES ASSUME NEW j \in 1 .. n
               PROVE  (j <= p => key - keys[j] >= g) /\ (j > p => keys[j] - key >= g)
    OBVIOUS
  <1> HIDE DEF n, p, key
  <1>6. CASE p = 0
    <2>1. 1 \in 1 .. n /\ key = keys[1] - Unit /\ keys[1] \in Int /\ keys[j] \in Int
      BY <1>1, <1>4, <1>6
    <2>2. keys[j] >= keys[1]
      <3>1. CASE j = 1
        BY <2>1, <3>1
      <3>2. CASE 1 < j
        <4>1. keys[j] - keys[1] >= 2 * g
          BY <1>5, <2>1, <3>2
        <4> QED BY <1>3, <2>1, <4>1
      <3> QED BY <1>1, <3>1, <3>2
    <2> QED BY <1>1, <1>3, <1>6, <2>1, <2>2
  <1>7. CASE p = n /\ p # 0
    <2>1. n \in 1 .. n /\ key = keys[n] + Unit /\ keys[n] \in Int /\ keys[j] \in Int
      BY <1>1, <1>2, <1>4, <1>7
    <2>2. keys[n] >= keys[j]
      <3>1. CASE j = n
        BY <2>1, <3>1
      <3>2. CASE j < n
        <4>1. keys[n] - keys[j] >= 2 * g
          BY <1>5, <2>1, <3>2
        <4> QED BY <1>3, <2>1, <4>1
      <3> QED BY <1>1, <3>1, <3>2
    <2> QED BY <1>1, <1>3, <1>7, <2>1, <2>2
  <1>8. CASE p \notin {0, n}
    <2>1. p \in 1 .. n /\ p + 1 \in 1 .. n /\ key = Mid(keys[p], keys[p + 1]) /\ p < p + 1
      BY <1>1, <1>2, <1>4, <1>8
    <2> DEFINE a == keys[p]
               b == keys[p + 1]
               c == keys[j]
    <2>2. a \in Int /\ b \in Int /\ c \in Int /\ b - a >= 2 * g
      BY <1>1, <1>5, <2>1
    <2>3. key \in Int /\ key - a >= g /\ b - key >= g
      <3> HIDE DEF a, b
      <3>1. g \in Int /\ key = Mid(a, b)
        BY <2>1 DEF a, b
      <3> QED BY <2>2, <3>1, MidBetween
    <2>4. j <= p => c <= a
      <3>1. j < p => a - c >= 2 * g
        BY <1>5, <2>1
      <3>2. j = p => c = a
        OBVIOUS
      <3> HIDE DEF a, b, c
      <3>3. j <= p => j < p \/ j = p
        BY <1>1, <2>1
      <3> QED BY <1>3, <2>2, <3>1, <3>2, <3>3
    <2>5. j > p => c >= b
      <3>1. p + 1 < j => c - b >= 2 * g
        BY <1>5, <2>1
      <3>2. j = p + 1 => c = b
        OBVIOUS
      <3> HIDE DEF a, b, c
      <3>3. j > p => p + 1 < j \/ j = p + 1
        BY <1>1, <2>1
      <3> QED BY <1>3, <2>2, <3>1, <3>2, <3>3
    <2>6. (j <= p => key - c >= g) /\ (j > p => c - key >= g)
      <3> HIDE DEF a, b, c
      <3> QED BY <1>3, <2>2, <2>3, <2>4, <2>5
    <2> QED BY <2>6
  <1> QED BY <1>6, <1>7, <1>8

-----------------------------------------------------------------------------
(* The rows of the folder are the listed ids, each once, and every id was given
   out before. *)
Listed ==
    /\ want \in Seq(Nat) /\ Once(want) /\ ToSet(want) = DOMAIN ord
    /\ ord = [n \in DOMAIN ord |-> ord[n]]
    /\ \A n \in DOMAIN ord : ord[n] \in Int /\ n < nextId
    /\ nextId \in 1 .. MaxRows + 1 /\ count \in 0 .. MaxOps

LEMMA ListedKeys ==
    ASSUME Listed
    PROVE  /\ IsFiniteSet(DOMAIN ord) /\ Cardinality(DOMAIN ord) = Len(want)
           /\ DOMAIN ord = {want[j] : j \in DOMAIN want} /\ DOMAIN ord \subseteq Nat
           /\ Len(want) \in Nat /\ DOMAIN want = 1 .. Len(want)
           /\ Sorted(ord) \in Seq(Int) /\ Len(Sorted(ord)) = Len(want)
  <1> DEFINE N == Len(want)
  <1>0. want \in Seq(Nat) /\ Once(want) /\ ToSet(want) = DOMAIN ord
    BY DEF Listed
  <1>1. N \in Nat /\ DOMAIN want = 1 .. N /\ \A j \in 1 .. N : want[j] \in Nat
    BY <1>0, LenProperties, ElementOfSeq
  <1>2. DOMAIN ord = {want[j] : j \in DOMAIN want} /\ DOMAIN ord = {want[j] : j \in 1 .. N}
    <2> HIDE DEF N
    <2> QED BY <1>0, <1>1 DEF ToSet
  <1>3. DOMAIN ord \subseteq Nat
    BY <1>1, <1>2
  <1>4. IsFiniteSet(DOMAIN ord) /\ Cardinality(DOMAIN ord) = N
    <2>1. N \in 0 .. Len(want)
      BY <1>1
    <2>2. LET T == {want[j] : j \in 1 .. N} IN IsFiniteSet(T) /\ Cardinality(T) = N
      <3> HIDE DEF N
      <3> QED BY <1>0, <2>1, CountOnce
    <2> QED BY <1>2, <2>2
  <1>5. Sorted(ord) \in Seq(Int) /\ Len(Sorted(ord)) = Cardinality(DOMAIN ord)
    <2>1. DOMAIN ord \subseteq Int /\ \A n \in DOMAIN ord : ord[n] \in Int
      BY <1>3 DEF Listed
    <2> QED BY <1>4, <2>1, SortedKeys
  <1> QED BY <1>1, <1>2, <1>3, <1>4, <1>5

LEMMA PlaceInList ==
    ASSUME Listed, NEW n \in DOMAIN ord
    PROVE  PlaceOf(n) \in 1 .. Len(want) /\ want[PlaceOf(n)] = n /\ n \in Nat
  <1>1. \E i \in DOMAIN want : want[i] = n
    BY ListedKeys
  <1>2. PlaceOf(n) \in DOMAIN want /\ want[PlaceOf(n)] = n
    BY <1>1 DEF PlaceOf
  <1> QED BY <1>2, ListedKeys

LEMMA ListedInit == Init => Listed
  <1> SUFFICES ASSUME Init PROVE Listed
    OBVIOUS
  <1>1. want = <<>> /\ ord = <<>> /\ nextId = 1 /\ count = 0
    BY DEF Init
  <1>2. DOMAIN <<>> = {} /\ <<>> \in Seq(Nat)
    OBVIOUS
  <1>3. Once(want) /\ ToSet(want) = DOMAIN ord /\ ord = [n \in DOMAIN ord |-> ord[n]]
    BY <1>1, <1>2 DEF Once, ToSet
  <1>4. nextId \in 1 .. MaxRows + 1 /\ count \in 0 .. MaxOps
    BY <1>1, OrdConstants
  <1> QED BY <1>1, <1>2, <1>3, <1>4 DEF Listed

LEMMA Ticking ==
    ASSUME Listed, Tick
    PROVE  count \in 0 .. MaxOps /\ count' \in 0 .. MaxOps /\ count' = count + 1
  BY OrdConstants DEF Listed, Tick

LEMMA EnterListed ==
    ASSUME Listed, NEW i \in Indexes, Enter(i) PROVE Listed'
  <1> DEFINE key == CalcOrd(Sorted(ord), i)
             p == Position(i, Len(want))
  <1>0. want \in Seq(Nat) /\ Once(want) /\ ToSet(want) = DOMAIN ord /\ nextId \in Nat
        /\ \A n \in DOMAIN ord : ord[n] \in Int /\ n < nextId
    BY DEF Listed
  <1>1. key \in Int /\ p \in 0 .. Len(want)
    <2>1. i \in {Nil} \cup 0 .. Len(want)
      BY DEF Indexes
    <2>2. Sorted(ord) \in Seq(Int) /\ Len(Sorted(ord)) = Len(want) /\ Len(want) \in Nat
      BY ListedKeys
    <2>3. i \in {Nil} \cup 0 .. Len(Sorted(ord))
      BY <2>1, <2>2
    <2>4. p \in 0 .. Len(want)
      BY ONLY <2>1, <2>2, PositionInList
    <2> QED BY ONLY <2>2, <2>3, <2>4, CalcOrdIsKey
  <1>2. nextId \notin ToSet(want)
    BY <1>0, ListedKeys
  <1> HIDE DEF key, p
  <1>3. /\ ord' = [n \in DOMAIN ord \cup {nextId} |-> IF n = nextId THEN key ELSE ord[n]]
        /\ want' = InsertAt(want, p + 1, nextId) /\ nextId' = nextId + 1 /\ nextId <= MaxRows
    BY DEF Enter, key, p
  <1>4. want' \in Seq(Nat) /\ Once(want') /\ ToSet(want') = ToSet(want) \cup {nextId}
    BY <1>0, <1>1, <1>2, <1>3, ListLonger
  <1>5. DOMAIN ord' = DOMAIN ord \cup {nextId} /\ ord' = [n \in DOMAIN ord' |-> ord'[n]]
    BY <1>3
  <1>6. \A n \in DOMAIN ord' : ord'[n] \in Int /\ n < nextId'
    BY <1>0, <1>1, <1>3, <1>5, ListedKeys
  <1>7. nextId' \in 1 .. MaxRows + 1 /\ count' \in 0 .. MaxOps
    BY <1>0, <1>3, Ticking, OrdConstants DEF Enter
  <1> QED BY <1>0, <1>4, <1>5, <1>6, <1>7 DEF Listed

LEMMA SessionListed ==
    ASSUME Listed, NEW k \in 2 .. 3, Session(k) PROVE Listed'
  <1>0. nextId \in Nat \ {0} /\ Unit \in Nat /\ k \in Nat
    BY OrdConstants DEF Listed
  <1>1. /\ ord' = [n \in nextId .. nextId + k - 1 |-> (n - nextId) * Unit]
        /\ want' = [n \in 1 .. k |-> nextId + n - 1]
        /\ nextId' = nextId + k /\ nextId + k - 1 <= MaxRows
    BY DEF Session
  <1>2. /\ DOMAIN ord' = nextId .. nextId + k - 1 /\ ord' = [n \in DOMAIN ord' |-> ord'[n]]
        /\ DOMAIN want' = 1 .. k /\ \A n \in 1 .. k : want'[n] = nextId + n - 1
    BY <1>1
  <1>3. want' \in Seq(Nat)
    <2>1. \A n \in 1 .. k : nextId + n - 1 \in Nat
      BY <1>0
    <2> QED BY <1>0, <1>1, <2>1
  <1>4. Once(want')
    BY <1>0, <1>2 DEF Once
  <1>5. ToSet(want') = DOMAIN ord'
    <2>1. ASSUME NEW m \in nextId .. nextId + k - 1 PROVE \E n \in 1 .. k : want'[n] = m
      <3>1. m - nextId + 1 \in 1 .. k /\ nextId + (m - nextId + 1) - 1 = m
        BY <1>0
      <3> QED BY <1>2, <3>1
    <2>2. \A n \in 1 .. k : want'[n] \in nextId .. nextId + k - 1
      BY <1>0, <1>2
    <2>3. ToSet(want') = {want'[n] : n \in 1 .. k}
      BY <1>2 DEF ToSet
    <2> QED BY <1>2, <2>1, <2>2, <2>3
  <1>6. \A n \in DOMAIN ord' : ord'[n] \in Int /\ n < nextId'
    <2> SUFFICES ASSUME NEW n \in nextId .. nextId + k - 1 PROVE ord'[n] \in Int /\ n < nextId'
      BY <1>2
    <2>1. ord'[n] = (n - nextId) * Unit
      BY <1>1
    <2> QED BY <1>0, <1>1, <2>1
  <1>7. nextId' \in 1 .. MaxRows + 1 /\ count' \in 0 .. MaxOps
    BY <1>0, <1>1, Ticking, OrdConstants DEF Session
  <1> QED BY <1>2, <1>3, <1>4, <1>5, <1>6, <1>7 DEF Listed

(* A row is taken out of the list and put back elsewhere: nothing else moves. *)
LEMMA ReorderPlace ==
    ASSUME Listed, NEW n \in DOMAIN ord, NEW i \in Indexes
    PROVE  LET p == Position(i, Len(want))
               q == PlaceOf(n)
               s == IF q <= p THEN p - 1 ELSE p
           IN  /\ p \in 0 .. Len(want) /\ q \in 1 .. Len(want) /\ s \in 0 .. Len(want) - 1
               /\ RemoveAt(want, q) \in Seq(Nat) /\ Len(RemoveAt(want, q)) = Len(want) - 1
               /\ Once(RemoveAt(want, q)) /\ ToSet(RemoveAt(want, q)) = DOMAIN ord \ {n}
               /\ (IF q <= p THEN p ELSE p + 1) = s + 1
               /\ CalcOrd(Sorted(ord), i) \in Int
  <1> DEFINE p == Position(i, Len(want))
             q == PlaceOf(n)
             s == IF q <= p THEN p - 1 ELSE p
             N == Len(want)
  <1>0. want \in Seq(Nat) /\ Once(want) /\ ToSet(want) = DOMAIN ord
    BY DEF Listed
  <1>1. N \in Nat /\ Sorted(ord) \in Seq(Int) /\ Len(Sorted(ord)) = N
    BY ListedKeys
  <1>2. i \in {Nil} \cup 0 .. N
    BY DEF Indexes
  <1>3. p \in 0 .. N
    <2> HIDE DEF N
    <2>1. Position(i, N) \in 0 .. N
      BY ONLY <1>1, <1>2, PositionInList
    <2> QED BY <2>1 DEF N
  <1>4. CalcOrd(Sorted(ord), i) \in Int
    BY ONLY <1>1, <1>2, CalcOrdIsKey
  <1>5. q \in 1 .. N /\ want[q] = n
    BY PlaceInList
  <1>6. RemoveAt(want, q) \in Seq(Nat) /\ Len(RemoveAt(want, q)) = N - 1
    <2> HIDE DEF q, p, s
    <2> QED BY ONLY <1>0, <1>5, Removal
  <1>7. /\ Once(RemoveAt(want, q)) /\ ToSet(RemoveAt(want, q)) = ToSet(want) \ {want[q]}
    <2> HIDE DEF q, p, s
    <2> QED BY ONLY <1>0, <1>5, ListShorter
  <1>8. s \in 0 .. N - 1 /\ (IF q <= p THEN p ELSE p + 1) = s + 1
    <2> HIDE DEF q, p, N
    <2>1. CASE q <= p
      BY <1>1, <1>3, <1>5, <2>1
    <2>2. CASE ~ (q <= p)
      BY <1>1, <1>3, <1>5, <2>2
    <2> QED BY <2>1, <2>2
  <1> QED BY <1>0, <1>3, <1>4, <1>5, <1>6, <1>7, <1>8

LEMMA ReorderListed ==
    ASSUME Listed, NEW n \in DOMAIN ord, NEW i \in Indexes, Reorder(n, i) PROVE Listed'
  <1> DEFINE p == Position(i, Len(want))
             q == PlaceOf(n)
             s == IF q <= p THEN p - 1 ELSE p
             v == RemoveAt(want, q)
             key == CalcOrd(Sorted(ord), i)
  <1>1. /\ s \in 0 .. Len(want) - 1 /\ v \in Seq(Nat) /\ Len(v) = Len(want) - 1
        /\ Once(v) /\ ToSet(v) = DOMAIN ord \ {n}
        /\ (IF q <= p THEN p ELSE p + 1) = s + 1 /\ key \in Int
    BY ReorderPlace, Zenon
  <1>2. /\ want' = InsertAt(v, IF q <= p THEN p ELSE p + 1, n)
        /\ ord' = [ord EXCEPT ![n] = key] /\ nextId' = nextId
    BY DEF Reorder
  <1>3. n \in Nat
    BY PlaceInList
  <1> HIDE DEF p, q, s, v, key
  <1>4. want' = InsertAt(v, s + 1, n) /\ s \in 0 .. Len(v) /\ n \notin ToSet(v)
    BY <1>1, <1>2
  <1>5. want' \in Seq(Nat) /\ Once(want') /\ ToSet(want') = ToSet(v) \cup {n}
    BY ONLY <1>1, <1>3, <1>4, ListLonger
  <1>6. DOMAIN ord' = DOMAIN ord /\ ord' = [m \in DOMAIN ord' |-> ord'[m]]
        /\ \A m \in DOMAIN ord : ord'[m] = IF m = n THEN key ELSE ord[m]
    BY <1>2
  <1>7. ToSet(want') = DOMAIN ord'
    BY <1>1, <1>5, <1>6
  <1>8. \A m \in DOMAIN ord' : ord'[m] \in Int /\ m < nextId'
    BY <1>1, <1>2, <1>6 DEF Listed
  <1>9. nextId' \in 1 .. MaxRows + 1 /\ count' \in 0 .. MaxOps
    BY <1>2, Ticking DEF Reorder, Listed
  <1> QED BY <1>5, <1>6, <1>7, <1>8, <1>9 DEF Listed

LEMMA LeaveListed ==
    ASSUME Listed, NEW n \in DOMAIN ord, Leave(n) PROVE Listed'
  <1> DEFINE q == PlaceOf(n)
  <1>0. want \in Seq(Nat) /\ Once(want) /\ ToSet(want) = DOMAIN ord
    BY DEF Listed
  <1>1. q \in 1 .. Len(want) /\ want[q] = n
    BY PlaceInList
  <1>2. /\ want' = RemoveAt(want, q) /\ nextId' = nextId
        /\ ord' = [m \in DOMAIN ord \ {n} |-> ord[m]]
    BY DEF Leave
  <1> HIDE DEF q
  <1>3. want' \in Seq(Nat) /\ Once(want') /\ ToSet(want') = ToSet(want) \ {n}
    BY <1>0, <1>1, <1>2, ListShorter
  <1>4. DOMAIN ord' = DOMAIN ord \ {n} /\ ord' = [m \in DOMAIN ord' |-> ord'[m]]
    BY <1>2
  <1>5. \A m \in DOMAIN ord' : ord'[m] \in Int /\ m < nextId'
    BY <1>2, <1>4 DEF Listed
  <1>6. nextId' \in 1 .. MaxRows + 1 /\ count' \in 0 .. MaxOps
    BY <1>2, Ticking DEF Leave, Listed
  <1> QED BY <1>0, <1>3, <1>4, <1>5, <1>6 DEF Listed

LEMMA ListedStep == Listed /\ [Next]_vars => Listed'
  <1> SUFFICES ASSUME Listed, [Next]_vars PROVE Listed'
    OBVIOUS
  <1>1. ASSUME NEW i \in Indexes, Enter(i) PROVE Listed'
    BY <1>1, EnterListed
  <1>2. ASSUME NEW k \in 2 .. 3, Session(k) PROVE Listed'
    BY <1>2, SessionListed
  <1>3. ASSUME NEW n \in DOMAIN ord, NEW i \in Indexes, Reorder(n, i) PROVE Listed'
    BY <1>3, ReorderListed
  <1>4. ASSUME NEW n \in DOMAIN ord, Leave(n) PROVE Listed'
    BY <1>4, LeaveListed
  <1>5. CASE UNCHANGED vars
    BY <1>5 DEF vars, Listed, Once
  <1> QED BY <1>1, <1>2, <1>3, <1>4, <1>5 DEF Next

(* The rows of a folder are exactly those that requests put there and did not
   take away, each listed once and each with a key, whatever the requests
   (addFolder, addBookmark, moveNode, deleteNode, saveSession). *)
THEOREM OrdKeysTypeCorrect == Spec => []TypeOK
  <1>1. Listed => TypeOK
    <2> SUFFICES ASSUME Listed PROVE TypeOK
      OBVIOUS
    <2>1. Cardinality(DOMAIN ord) = Len(want)
      BY ListedKeys
    <2>2. ord \in [DOMAIN ord -> Int]
      BY DEF Listed
    <2> QED BY <2>1, <2>2 DEF Listed, TypeOK
  <1> QED BY <1>1, ListedInit, ListedStep, PTL DEF Spec

-----------------------------------------------------------------------------
(* Each operation that counts leaves half the room for those that follow. *)
LEMMA RoomBefore ==
    ASSUME FineEnough, Listed, RoomLeft, Tick
    PROVE  LET g == Room[MaxOps - count']
           IN  /\ g \in Nat \ {0} /\ g \in Int /\ g <= Unit /\ count' \in 0 .. MaxOps
               /\ \A x, y \in 1 .. Len(want) : x < y => ord[want[y]] - ord[want[x]] >= 2 * g
               /\ Spaced(want, ord, g)
  <1> DEFINE a == MaxOps - count
             b == MaxOps - count'
             N == Len(want)
  <1>1. a \in 0 .. MaxOps /\ a # 0 /\ a - 1 = b /\ b \in 0 .. MaxOps /\ count' \in 0 .. MaxOps
    BY Ticking, OrdConstants
  <1>2. N \in Nat /\ DOMAIN want = 1 .. N /\ \A j \in 1 .. N : ord[want[j]] \in Int
    <2>1. N \in Nat /\ DOMAIN want = 1 .. N /\ DOMAIN ord = {want[j] : j \in DOMAIN want}
      BY ListedKeys
    <2> QED BY <2>1 DEF Listed
  <1>3. \A x, y \in 1 .. N : x < y => ord[want[y]] - ord[want[x]] >= Room[a]
    BY <1>2 DEF RoomLeft
  <1> HIDE DEF a, b, N
  <1>4. Room[a] = 2 * Room[b]
    BY <1>1, RoomHalves
  <1>5. Room[b] \in Nat \ {0} /\ Room[b] <= Room[MaxOps]
    BY <1>1, RoomGrows
  <1>6. Unit \in Nat /\ Room[MaxOps] \in Nat /\ Room[MaxOps] <= Unit
    <2>1. MaxOps \in 0 .. MaxOps
      BY OrdConstants
    <2> QED BY <2>1, RoomGrows, OrdConstants DEF FineEnough
  <1> DEFINE g == Room[b]
  <1>7. g \in Nat \ {0} /\ g \in Int /\ g <= Unit /\ Room[a] = 2 * g
    BY <1>4, <1>5, <1>6
  <1> HIDE DEF g
  <1>8. \A x, y \in 1 .. N : x < y => ord[want[y]] - ord[want[x]] >= 2 * g
    BY <1>3, <1>7
  <1>9. \A x, y \in 1 .. N : x < y => ord[want[y]] - ord[want[x]] >= g
    <2> SUFFICES ASSUME NEW x \in 1 .. N, NEW y \in 1 .. N, x < y
                 PROVE  ord[want[y]] - ord[want[x]] >= g
      OBVIOUS
    <2>1. ord[want[y]] - ord[want[x]] >= 2 * g /\ ord[want[y]] \in Int /\ ord[want[x]] \in Int
      BY <1>2, <1>8
    <2> QED BY <1>7, <2>1
  <1>10. Spaced(want, ord, g)
    BY <1>2, <1>9 DEF Spaced
  <1> QED BY <1>1, <1>7, <1>8, <1>10 DEF b, g, N

(* The key of a row that is put at an index is between the keys of the rows that
   the request puts it between. *)
LEMMA KeyAmongRows ==
    ASSUME FineEnough, Listed, RoomLeft, Tick, NEW i \in Indexes
    PROVE  LET g   == Room[MaxOps - count']
               key == CalcOrd(Sorted(ord), i)
               p   == Position(i, Len(want))
           IN  \A j \in 1 .. Len(want) : /\ j <= p => key - ord[want[j]] >= g
                                         /\ j > p => ord[want[j]] - key >= g
  <1> DEFINE g == Room[MaxOps - count']
             N == Len(want)
             keys == Sorted(ord)
  <1>1. /\ g \in Nat \ {0} /\ g <= Unit
        /\ \A x, y \in 1 .. N : x < y => ord[want[y]] - ord[want[x]] >= 2 * g
    BY RoomBefore, Zenon
  <1>2. /\ want \in Seq(Nat) /\ N \in Nat /\ DOMAIN want = 1 .. N
        /\ DOMAIN ord = {want[j] : j \in DOMAIN want}
        /\ keys \in Seq(Int) /\ Len(keys) = N
        /\ \A n \in DOMAIN ord : ord[n] \in Int
    BY ListedKeys DEF Listed
  <1>3. \A j \in 1 .. N : ord[want[j]] \in Int
    BY <1>2
  <1>4. i \in {Nil} \cup 0 .. N
    BY DEF Indexes
  <1> HIDE DEF g, N, keys
  <1>5. \A x, y \in 1 .. N : x < y => ord[want[x]] < ord[want[y]]
    <2> SUFFICES ASSUME NEW x \in 1 .. N, NEW y \in 1 .. N, x < y
                 PROVE  ord[want[x]] < ord[want[y]]
      OBVIOUS
    <2>1. ord[want[y]] - ord[want[x]] >= 2 * g /\ ord[want[y]] \in Int /\ ord[want[x]] \in Int
      BY <1>1, <1>3
    <2> QED BY <1>1, <2>1
  <1>6. keys = [j \in 1 .. N |-> ord[want[j]]]
    <2>1. \A x, y \in DOMAIN want : x < y => ord[want[x]] < ord[want[y]]
      BY <1>2, <1>5
    <2>2. Sorted(ord) = [j \in 1 .. Len(want) |-> ord[want[j]]]
      BY ONLY <1>2, <2>1, SortedAsListed
    <2> QED BY <2>2 DEF keys, N
  <1>7. \A x, y \in 1 .. Len(keys) : x < y => keys[y] - keys[x] >= 2 * g
    BY <1>1, <1>2, <1>6
  <1> DEFINE key == CalcOrd(keys, i)
             p == Position(i, Len(keys))
  <1>8. \A j \in 1 .. Len(keys) : (j <= p => key - keys[j] >= g) /\ (j > p => keys[j] - key >= g)
    <2>1. i \in {Nil} \cup 0 .. Len(keys)
      BY <1>2, <1>4
    <2> QED BY ONLY <1>1, <1>2, <1>7, <2>1, KeyFits
  <1> HIDE DEF key, p
  <1>9. \A j \in 1 .. N : /\ j <= p => key - ord[want[j]] >= g
                          /\ j > p => ord[want[j]] - key >= g
    BY <1>2, <1>6, <1>8
  <1> QED BY <1>2, <1>9 DEF g, N, keys, key, p

LEMMA RoomInit == ASSUME Init PROVE RoomLeft
  <1>1. want = <<>> /\ DOMAIN <<>> = {}
    BY DEF Init
  <1> QED BY <1>1 DEF RoomLeft

LEMMA EnterRoom ==
    ASSUME FineEnough, Listed, RoomLeft, NEW i \in Indexes, Enter(i) PROVE RoomLeft'
  <1> DEFINE g == Room[MaxOps - count']
             key == CalcOrd(Sorted(ord), i)
             p == Position(i, Len(want))
             N == Len(want)
  <1>0. Tick
    BY DEF Enter
  <1>1. g \in Int /\ Spaced(want, ord, g)
    BY <1>0, RoomBefore, Zenon
  <1>2. \A j \in 1 .. N : /\ j <= p => key - ord[want[j]] >= g
                          /\ j > p => ord[want[j]] - key >= g
    BY <1>0, KeyAmongRows, Zenon
  <1>3. /\ want \in Seq(Nat) /\ N \in Nat /\ DOMAIN want = 1 .. N
        /\ \A j \in 1 .. N : want[j] \in DOMAIN ord /\ want[j] # nextId
        /\ nextId \in Nat
    <2>1. /\ want \in Seq(Nat) /\ N \in Nat /\ DOMAIN want = 1 .. N
          /\ \A j \in 1 .. N : want[j] \in DOMAIN ord
      BY ListedKeys DEF Listed
    <2>2. nextId \in Nat /\ \A n \in DOMAIN ord : n \in Nat /\ n < nextId
      BY ListedKeys DEF Listed
    <2> QED BY <2>1, <2>2
  <1>4. p \in 0 .. N
    <2>1. i \in {Nil} \cup 0 .. N
      BY DEF Indexes
    <2> QED BY ONLY <1>3, <2>1, PositionInList
  <1>5. /\ ord' = [n \in DOMAIN ord \cup {nextId} |-> IF n = nextId THEN key ELSE ord[n]]
        /\ want' = InsertAt(want, p + 1, nextId)
    BY DEF Enter
  <1> HIDE DEF g, key, p, N
  <1>6. ord'[nextId] = key /\ \A j \in 1 .. N : ord'[want[j]] = ord[want[j]]
    BY <1>3, <1>5
  <1>7. Spaced(want, ord', g)
    BY <1>1, <1>3, <1>6 DEF Spaced
  <1>8. /\ \A j \in 1 .. N : j <= p => ord'[nextId] - ord'[want[j]] >= g
        /\ \A j \in 1 .. N : j > p => ord'[want[j]] - ord'[nextId] >= g
    BY <1>2, <1>6
  <1>9. Spaced(want', ord', g)
    <2>1. p \in 0 .. Len(want) /\ g \in Int /\ want \in Seq(Nat) /\ nextId \in Nat
      BY <1>1, <1>3, <1>4 DEF N
    <2>2. /\ \A j \in 1 .. Len(want) : j <= p => ord'[nextId] - ord'[want[j]] >= g
          /\ \A j \in 1 .. Len(want) : j > p => ord'[want[j]] - ord'[nextId] >= g
      BY <1>8 DEF N
    <2> DEFINE k == ord'
    <2>3. /\ Spaced(want, k, g)
          /\ \A j \in 1 .. Len(want) : j <= p => k[nextId] - k[want[j]] >= g
          /\ \A j \in 1 .. Len(want) : j > p => k[want[j]] - k[nextId] >= g
      BY <1>7, <2>2
    <2> HIDE DEF k
    <2>4. Spaced(InsertAt(want, p + 1, nextId), k, g)
      BY ONLY <2>1, <2>3, SpacedLonger
    <2> QED BY <1>5, <2>4 DEF k
  <1> QED BY <1>9 DEF Spaced, RoomLeft, g

LEMMA ReorderRoom ==
    ASSUME FineEnough, Listed, RoomLeft, NEW n \in DOMAIN ord, NEW i \in Indexes, Reorder(n, i)
    PROVE  RoomLeft'
  <1> DEFINE g == Room[MaxOps - count']
             key == CalcOrd(Sorted(ord), i)
             p == Position(i, Len(want))
             q == PlaceOf(n)
             s == IF q <= p THEN p - 1 ELSE p
             v == RemoveAt(want, q)
             N == Len(want)
  <1>0. Tick
    BY DEF Reorder
  <1>1. g \in Int /\ Spaced(want, ord, g)
    BY <1>0, RoomBefore, Zenon
  <1>2. \A j \in 1 .. N : /\ j <= p => key - ord[want[j]] >= g
                          /\ j > p => ord[want[j]] - key >= g
    BY <1>0, KeyAmongRows, Zenon
  <1>3. /\ p \in 0 .. N /\ q \in 1 .. N /\ s \in 0 .. N - 1 /\ v \in Seq(Nat) /\ Len(v) = N - 1
        /\ ToSet(v) = DOMAIN ord \ {n} /\ (IF q <= p THEN p ELSE p + 1) = s + 1
    BY ReorderPlace, Zenon
  <1>4. want \in Seq(Nat) /\ N \in Nat /\ n \in Nat
    BY ListedKeys, PlaceInList DEF Listed
  <1>5. /\ ord' = [ord EXCEPT ![n] = key]
        /\ want' = InsertAt(v, IF q <= p THEN p ELSE p + 1, n)
    BY DEF Reorder
  <1>s. (q <= p /\ s = p - 1) \/ (q > p /\ s = p)
    <2> HIDE DEF p, q, N
    <2> QED BY <1>3, <1>4
  <1>6. DOMAIN v = 1 .. N - 1 /\ \A j \in 1 .. N - 1 : v[j] = IF j < q THEN want[j] ELSE want[j + 1]
    <2> HIDE DEF q, p, s
    <2>1. q \in 1 .. Len(want) /\ want \in Seq(Nat)
      BY <1>3, <1>4
    <2> QED BY ONLY <2>1, Removal
  <1>7. Spaced(v, ord, g)
    <2> HIDE DEF q, p, s, g
    <2>1. q \in 1 .. Len(want) /\ want \in Seq(Nat) /\ Spaced(want, ord, g)
      BY <1>1, <1>3, <1>4
    <2> QED BY ONLY <2>1, SpacedShorter
  <1> HIDE DEF g, key, p, q, s, v, N
  <1>8. \A j \in 1 .. N - 1 : v[j] \in DOMAIN ord \ {n}
    BY <1>3, <1>6 DEF ToSet
  <1>9. ord'[n] = key /\ \A j \in 1 .. N - 1 : ord'[v[j]] = ord[v[j]]
    BY <1>5, <1>8
  <1>10. /\ \A j \in 1 .. N - 1 : j <= s => key - ord[v[j]] >= g
         /\ \A j \in 1 .. N - 1 : j > s => ord[v[j]] - key >= g
    <2> SUFFICES ASSUME NEW j \in 1 .. N - 1
                 PROVE  (j <= s => key - ord[v[j]] >= g) /\ (j > s => ord[v[j]] - key >= g)
      OBVIOUS
    <2>1. PICK x \in 1 .. N : v[j] = want[x] /\ ((x = j /\ j < q) \/ (x = j + 1 /\ j >= q))
      <3>1. CASE j < q
        BY <1>4, <1>6, <3>1
      <3>2. CASE ~ (j < q)
        <4>1. j + 1 \in 1 .. N /\ j >= q
          BY <1>3, <1>4, <3>2
        <4> QED BY <1>6, <3>2, <4>1
      <3> QED BY <3>1, <3>2
    <2>2. (j <= s => x <= p) /\ (j > s => x > p)
      BY <1>3, <1>4, <1>s, <2>1
    <2> QED BY <1>2, <2>1, <2>2
  <1>11. Spaced(v, ord', g)
    BY <1>6, <1>7, <1>9 DEF Spaced
  <1>12. Spaced(want', ord', g)
    <2> DEFINE k == ord'
    <2>1. /\ s \in 0 .. Len(v) /\ v \in Seq(Nat) /\ n \in Nat /\ g \in Int
          /\ Spaced(v, k, g)
          /\ \A j \in 1 .. Len(v) : j <= s => k[n] - k[v[j]] >= g
          /\ \A j \in 1 .. Len(v) : j > s => k[v[j]] - k[n] >= g
      BY <1>1, <1>3, <1>4, <1>9, <1>10, <1>11
    <2> HIDE DEF k
    <2>2. Spaced(InsertAt(v, s + 1, n), k, g)
      BY ONLY <2>1, SpacedLonger
    <2> QED BY <1>3, <1>5, <2>2 DEF k
  <1> QED BY <1>12 DEF Spaced, RoomLeft, g

LEMMA LeaveRoom ==
    ASSUME FineEnough, Listed, RoomLeft, NEW n \in DOMAIN ord, Leave(n) PROVE RoomLeft'
  <1> DEFINE g == Room[MaxOps - count']
             q == PlaceOf(n)
  <1>0. Tick
    BY DEF Leave
  <1>1. g \in Int /\ Spaced(want, ord, g)
    BY <1>0, RoomBefore, Zenon
  <1>2. q \in 1 .. Len(want) /\ want \in Seq(Nat)
    BY PlaceInList DEF Listed
  <1>3. want' = RemoveAt(want, q) /\ ord' = [m \in DOMAIN ord \ {n} |-> ord[m]]
    BY DEF Leave
  <1> HIDE DEF g, q
  <1>4. Spaced(want', ord, g)
    BY <1>1, <1>2, <1>3, SpacedShorter
  <1>5. \A j \in DOMAIN want' : ord'[want'[j]] = ord[want'[j]]
    <2>1. ToSet(want') = DOMAIN ord'
      BY LeaveListed DEF Listed
    <2> QED BY <1>3, <2>1 DEF ToSet
  <1>6. Spaced(want', ord', g)
    BY <1>4, <1>5 DEF Spaced
  <1> QED BY <1>6 DEF Spaced, RoomLeft, g

LEMMA SessionRoom ==
    ASSUME FineEnough, Listed, RoomLeft, NEW k \in 2 .. 3, Session(k) PROVE RoomLeft'
  <1> DEFINE g == Room[MaxOps - count']
  <1>0. Tick
    BY DEF Session
  <1>1. g \in Nat \ {0} /\ g <= Unit
    BY <1>0, RoomBefore, Zenon
  <1>2. nextId \in Nat /\ Unit \in Nat
    BY OrdConstants DEF Listed
  <1>3. /\ ord' = [n \in nextId .. nextId + k - 1 |-> (n - nextId) * Unit]
        /\ want' = [n \in 1 .. k |-> nextId + n - 1]
    BY DEF Session
  <1> HIDE DEF g
  <1>4. \A j \in 1 .. k : ord'[want'[j]] = (j - 1) * Unit
    <2> SUFFICES ASSUME NEW j \in 1 .. k PROVE ord'[want'[j]] = (j - 1) * Unit
      OBVIOUS
    <2>1. want'[j] = nextId + j - 1 /\ nextId + j - 1 \in nextId .. nextId + k - 1
          /\ (nextId + j - 1) - nextId = j - 1
      BY <1>2, <1>3
    <2> QED BY <1>3, <2>1
  <1>5. \A x, y \in 1 .. k : x < y => ord'[want'[y]] - ord'[want'[x]] >= g
    <2> SUFFICES ASSUME NEW x \in 1 .. k, NEW y \in 1 .. k, x < y
                 PROVE  (y - 1) * Unit - (x - 1) * Unit >= g
      BY <1>4
    <2>1. (x = 1 /\ y = 2) \/ (x = 1 /\ y = 3) \/ (x = 2 /\ y = 3)
      OBVIOUS
    <2>2. CASE x = 1 /\ y = 2
      BY <1>1, <1>2, <2>2
    <2>3. CASE x = 1 /\ y = 3
      BY <1>1, <1>2, <2>3
    <2>4. CASE x = 2 /\ y = 3
      BY <1>1, <1>2, <2>4
    <2> QED BY <2>1, <2>2, <2>3, <2>4
  <1>6. DOMAIN want' = 1 .. k
    BY <1>3
  <1> QED BY <1>5, <1>6 DEF RoomLeft, g

LEMMA RoomStep == ASSUME FineEnough PROVE Listed /\ RoomLeft /\ [Next]_vars => RoomLeft'
  <1> SUFFICES ASSUME Listed, RoomLeft, [Next]_vars PROVE RoomLeft'
    OBVIOUS
  <1>1. ASSUME NEW i \in Indexes, Enter(i) PROVE RoomLeft'
    BY <1>1, EnterRoom
  <1>2. ASSUME NEW k \in 2 .. 3, Session(k) PROVE RoomLeft'
    BY <1>2, SessionRoom
  <1>3. ASSUME NEW n \in DOMAIN ord, NEW i \in Indexes, Reorder(n, i) PROVE RoomLeft'
    BY <1>3, ReorderRoom
  <1>4. ASSUME NEW n \in DOMAIN ord, Leave(n) PROVE RoomLeft'
    BY <1>4, LeaveRoom
  <1>5. CASE UNCHANGED vars
    BY <1>5 DEF vars, RoomLeft
  <1> QED BY <1>1, <1>2, <1>3, <1>4, <1>5 DEF Next

(* Neighbouring keys never come closer than the operations still to come can halve:
   no request takes more than half of a gap, wherever it inserts (calcOrd). *)
THEOREM RoomStaysLeft == ASSUME FineEnough PROVE Spec => []RoomLeft
  <1>1. Init => Listed /\ RoomLeft
    BY ListedInit, RoomInit
  <1>2. Listed /\ RoomLeft /\ [Next]_vars => (Listed /\ RoomLeft)'
    BY ListedStep, RoomStep
  <1> QED BY <1>1, <1>2, PTL DEF Spec

(* With a float fine enough for the behaviour, LoadTree lists a folder in the order
   the requests describe, and no two rows have the same rank. *)
THEOREM OrderIsAsRequested == ASSUME FineEnough PROVE Spec => []OrderAsRequested
  <1>1. Listed /\ RoomLeft => OrderAsRequested
    <2> SUFFICES ASSUME Listed, RoomLeft, NEW x \in DOMAIN want, NEW y \in DOMAIN want, x < y
                 PROVE  ord[want[x]] < ord[want[y]]
      BY DEF OrderAsRequested
    <2>1. MaxOps - count \in 0 .. MaxOps
      BY OrdConstants DEF Listed
    <2>2. Room[MaxOps - count] \in Nat \ {0}
      BY <2>1, RoomGrows
    <2>3. ord[want[y]] - ord[want[x]] >= Room[MaxOps - count]
      BY DEF RoomLeft
    <2>4. ord[want[x]] \in Int /\ ord[want[y]] \in Int
      BY ListedKeys DEF Listed
    <2> QED BY <2>2, <2>3, <2>4
  <1>2. Init => Listed /\ RoomLeft
    BY ListedInit, RoomInit
  <1>3. Listed /\ RoomLeft /\ [Next]_vars => (Listed /\ RoomLeft)'
    BY ListedStep, RoomStep
  <1> QED BY <1>1, <1>2, <1>3, PTL DEF Spec
=============================================================================
