----------------------------- MODULE SlotLemmas -----------------------------
(***************************************************************************)
(* Facts about the linear scans of the kernel's static tables, shared by    *)
(* the proofs: a scan from index 0 stops at the least matching slot, and a  *)
(* loop that keeps some of the entries moves them without changing their    *)
(* order.                                                                   *)
(***************************************************************************)
EXTENDS Integers, Sequences, FiniteSetsExt, Ranks, WellFoundedInduction,
        FiniteSetTheorems, TLAPS

\* A non-empty set of table indices has a least element, so the scan loops
\* ("while (i < MAX) { if (match) return i; i++; }") find one.
LEMMA LeastSlot ==
    ASSUME NEW T, T \subseteq Nat, T # {}
    PROVE  \E x \in T : \A y \in T : x <= y
<1> DEFINE Less == {ss \in Nat \X Nat : ss[1] < ss[2]}
<1>1. IsWellFoundedOn(Less, Nat)
  BY NatLessThanWellFounded DEF OpToRel
<1>2. PICK x \in T : \A y \in T : ~ (<<y, x>> \in Less)
  <2> HIDE DEF Less
  <2> QED
    BY <1>1, WFMin
<1>3. \A y \in T : ~ (y < x)
  BY <1>2
<1> QED
  BY <1>3

\* So Min, which the specifications use for the scans, is a matching slot.
LEMMA MinIn ==
    ASSUME NEW T, T \subseteq Nat, T # {}
    PROVE  Min(T) \in T
<1>1. \E x \in T : \A y \in T : x <= y
  BY LeastSlot
<1> QED BY <1>1 DEF Min

\* The wrapping index of the round-robin cursors, without modulo.
LEMMA WrapOnce ==
    ASSUME NEW n \in Nat \ {0}, NEW a \in Nat, NEW b \in Nat, a < n, b <= n
    PROVE  (a + b) % n = IF a + b < n THEN a + b ELSE a + b - n
<1>1. CASE a + b < n
  BY <1>1
<1>2. CASE a + b >= n
  BY <1>2
<1> QED BY <1>1, <1>2

\* The scan down from the highest level finds one, too.
LEMMA MaxIn ==
    ASSUME NEW n \in Nat, NEW T, T \subseteq 0 .. n, T # {}
    PROVE  Max(T) \in T
<1> DEFINE U == {n - x : x \in T}
<1>1. U \subseteq Nat /\ U # {}
  <2>1. \A x \in T : n - x \in Nat
    OBVIOUS
  <2> QED BY <2>1
<1>2. PICK u \in U : \A v \in U : u <= v
  <2> HIDE DEF U
  <2> QED BY <1>1, LeastSlot
<1>3. PICK x \in T : u = n - x
  OBVIOUS
<1>4. \A y \in T : x >= y
  <2> TAKE y \in T
  <2>1. n - x <= n - y
    BY <1>2, <1>3
  <2>2. x \in Int /\ y \in Int
    OBVIOUS
  <2> QED BY <2>1, <2>2
<1> QED BY <1>4 DEF Max

\* A sequence is the function of its places: how the ring of workqueue.c:33-51 is
\* compared with the sequence it stands for.
LEMMA SeqOfPlaces ==
    ASSUME NEW S, NEW q \in Seq(S), NEW n, Len(q) = n
    PROVE  q = [i \in 1 .. n |-> q[i]]
OBVIOUS
----------------------------------------------------------------------------
\* The place of an element in a table of kept entries, and how places compare.
LEMMA RankBounds ==
    ASSUME NEW S, S \subseteq Nat, IsFiniteSet(S)
    PROVE  /\ Cardinality(S) \in Nat
           /\ \A i \in S : RankIn(S, i) \in 1 .. Cardinality(S)
           /\ \A i, j \in S : i < j => RankIn(S, i) < RankIn(S, j)
<1>1. Cardinality(S) \in Nat
  BY FS_CardinalityType
<1>2. ASSUME NEW i \in S PROVE RankIn(S, i) \in 1 .. Cardinality(S)
  <2> DEFINE A == {k \in S : k <= i}
  <2>1. A \subseteq S /\ i \in A
    OBVIOUS
  <2> HIDE DEF A
  <2>2. IsFiniteSet(A) /\ Cardinality(A) \in Nat /\ Cardinality(A) <= Cardinality(S)
    BY <2>1, FS_Subset, FS_CardinalityType
  <2>3. Cardinality(A) # 0
    BY <2>1, <2>2, FS_EmptySet
  <2>4. Cardinality(A) \in 1 .. Cardinality(S)
    BY <1>1, <2>2, <2>3
  <2> QED BY <2>4 DEF A, RankIn
<1>3. ASSUME NEW i \in S, NEW j \in S, i < j PROVE RankIn(S, i) < RankIn(S, j)
  <2> DEFINE A == {k \in S : k <= i}
             B == {k \in S : k <= j}
  <2>1. A \subseteq B /\ B \subseteq S /\ j \in B /\ j \notin A
    <3>1. i \in Nat /\ j \in Nat /\ \A k \in S : k \in Nat
      OBVIOUS
    <3>2. \A k \in S : k <= i => k <= j
      BY <1>3, <3>1
    <3>3. ~ (j <= i) /\ j <= j
      BY <1>3, <3>1
    <3> QED BY <3>2, <3>3
  <2> HIDE DEF A, B
  <2>2. IsFiniteSet(B) /\ Cardinality(B) \in Nat
    BY <2>1, FS_Subset, FS_CardinalityType
  <2>3. Cardinality(A) \in Nat /\ Cardinality(A) <= Cardinality(B)
    BY <2>1, <2>2, FS_Subset, FS_CardinalityType
  <2>4. Cardinality(A) # Cardinality(B)
    BY <2>1, <2>2, FS_Subset
  <2>5. Cardinality(A) < Cardinality(B)
    BY <2>2, <2>3, <2>4
  <2> QED BY <2>5 DEF A, B, RankIn
<1> QED BY <1>1, <1>2, <1>3

\* No two elements have the same place.
LEMMA RankDistinct ==
    ASSUME NEW S, S \subseteq Nat, IsFiniteSet(S), NEW i \in S, NEW j \in S,
           RankIn(S, i) = RankIn(S, j)
    PROVE  i = j
<1>1. /\ \A k \in S : RankIn(S, k) \in 1 .. Cardinality(S)
      /\ \A k, l \in S : k < l => RankIn(S, k) < RankIn(S, l)
  BY RankBounds
<1>2. i \in Nat /\ j \in Nat /\ RankIn(S, i) \in Int /\ RankIn(S, j) \in Int
  BY <1>1
<1>3. ~ (i < j) /\ ~ (j < i)
  BY <1>1, <1>2
<1> QED BY <1>2, <1>3

\* Every place is taken: the write index of a loop that keeps the elements of S
\* has every value up to their number once.
LEMMA RankTaken ==
    ASSUME NEW S, S \subseteq Nat, IsFiniteSet(S), NEW n \in 1 .. Cardinality(S)
    PROVE  \E i \in S : RankIn(S, i) = n
<1> SUFFICES ASSUME \A i \in S : RankIn(S, i) # n PROVE FALSE
  OBVIOUS
<1> DEFINE T == (1 .. Cardinality(S)) \ {n}
           f == [i \in S |-> RankIn(S, i)]
<1>1. Cardinality(S) \in Nat
  BY RankBounds
<1>2. f \in [S -> T]
  BY RankBounds
<1>3. IsFiniteSet(1 .. Cardinality(S)) /\ Cardinality(1 .. Cardinality(S)) = Cardinality(S)
  BY <1>1, FS_Interval
<1>4. IsFiniteSet(T) /\ Cardinality(T) = Cardinality(S) - 1
  BY <1>3, FS_RemoveElement
<1> HIDE DEF T
<1>5. PICK x, y \in S : x # y /\ f[x] = f[y]
  <2> HIDE DEF f
  <2>1. Cardinality(T) < Cardinality(S)
    BY <1>1, <1>4
  <2> QED BY <1>2, <1>4, <2>1, FS_PigeonHole
<1>6. RankIn(S, x) = RankIn(S, y)
  BY <1>5
<1> QED BY <1>5, <1>6, RankDistinct

\* Nth is the inverse of RankIn, and increasing.
LEMMA NthPlace ==
    ASSUME NEW S, S \subseteq Nat, IsFiniteSet(S)
    PROVE  /\ \A n \in 1 .. Cardinality(S) : Nth(S, n) \in S /\ RankIn(S, Nth(S, n)) = n
           /\ \A i \in S : Nth(S, RankIn(S, i)) = i
<1>1. ASSUME NEW n \in 1 .. Cardinality(S)
      PROVE  Nth(S, n) \in S /\ RankIn(S, Nth(S, n)) = n
  BY RankTaken DEF Nth
<1>2. ASSUME NEW i \in S PROVE Nth(S, RankIn(S, i)) = i
  <2>1. RankIn(S, i) \in 1 .. Cardinality(S)
    BY RankBounds
  <2>2. Nth(S, RankIn(S, i)) \in S /\ RankIn(S, Nth(S, RankIn(S, i))) = RankIn(S, i)
    BY <1>1, <2>1
  <2> QED BY <2>2, RankDistinct
<1> QED BY <1>1, <1>2

\* f moves the elements of S to those of T without changing their order.
Moves(f, S, T) ==
    /\ f \in [S -> T]
    /\ \A i, j \in S : i < j => f[i] < f[j]
    /\ \A t \in T : \E i \in S : f[i] = t

\* Elements that are moved without changing their order keep their places.
LEMMA NthMoved ==
    ASSUME NEW S, S \subseteq Nat, IsFiniteSet(S), NEW T, T \subseteq Nat,
           NEW f, Moves(f, S, T)
    PROVE  /\ IsFiniteSet(T) /\ Cardinality(T) = Cardinality(S)
           /\ \A i \in S : RankIn(T, f[i]) = RankIn(S, i)
           /\ \A n \in 1 .. Cardinality(S) : Nth(T, n) = f[Nth(S, n)]
<1>0. /\ f \in [S -> T] /\ \A i, j \in S : i < j => f[i] < f[j]
      /\ \A t \in T : \E i \in S : f[i] = t
  BY DEF Moves
<1>1. \A i, j \in S : i # j => f[i] # f[j]
  <2> SUFFICES ASSUME NEW i \in S, NEW j \in S, i # j PROVE f[i] # f[j]
    OBVIOUS
  <2>1. i \in Nat /\ j \in Nat /\ f[i] \in Nat /\ f[j] \in Nat
    BY <1>0
  <2>2. i < j \/ j < i
    BY <2>1
  <2> QED BY <1>0, <2>1, <2>2
<1>2. f \in Bijection(S, T)
  BY <1>0, <1>1 DEF Bijection, Injection, Surjection, IsInjective
<1>3. IsFiniteSet(T) /\ Cardinality(T) = Cardinality(S)
  BY <1>2, FS_Bijection DEF ExistsBijection
<1>4. ASSUME NEW i \in S PROVE RankIn(T, f[i]) = RankIn(S, i)
  <2> DEFINE A == {k \in S : k <= i}
             B == {k \in T : k <= f[i]}
             g == [k \in A |-> f[k]]
  <2>1. \A k \in S : k <= i <=> f[k] <= f[i]
    <3> TAKE k \in S
    <3>1. i \in Nat /\ k \in Nat /\ f[i] \in Nat /\ f[k] \in Nat
      BY <1>0
    <3>2. k < i \/ k = i \/ i < k
      BY <3>1
    <3>3. k < i => f[k] < f[i]
      BY <1>0
    <3>4. i < k => f[i] < f[k]
      BY <1>0
    <3> QED BY <3>1, <3>2, <3>3, <3>4
  <2>2. g \in [A -> B] /\ \A k, l \in A : k # l => g[k] # g[l]
    BY <1>0, <1>1, <2>1
  <2>3. \A t \in B : \E k \in A : g[k] = t
    BY <1>0, <2>1
  <2>4. g \in Bijection(A, B)
    <3> HIDE DEF A, B, g
    <3> QED BY <2>2, <2>3 DEF Bijection, Injection, Surjection, IsInjective
  <2>5. A \subseteq S
    OBVIOUS
  <2> HIDE DEF A, B, g
  <2>6. IsFiniteSet(A)
    BY <2>5, FS_Subset
  <2>7. Cardinality(B) = Cardinality(A)
    BY <2>4, <2>6, FS_Bijection DEF ExistsBijection
  <2> QED BY <2>7 DEF A, B, RankIn
<1>5. ASSUME NEW n \in 1 .. Cardinality(S) PROVE Nth(T, n) = f[Nth(S, n)]
  <2>1. Nth(S, n) \in S /\ RankIn(S, Nth(S, n)) = n
    BY NthPlace
  <2>2. f[Nth(S, n)] \in T /\ RankIn(T, f[Nth(S, n)]) = n
    BY <1>0, <1>4, <2>1
  <2>3. \A t \in T : Nth(T, RankIn(T, t)) = t
    BY <1>3, NthPlace
  <2> QED BY <2>2, <2>3
<1> QED BY <1>3, <1>4, <1>5

\* An element behind all others takes the next place.
LEMMA NthAppended ==
    ASSUME NEW S, S \subseteq Nat, IsFiniteSet(S), NEW m \in Nat, \A i \in S : i < m
    PROVE  LET T == S \cup {m}
           IN  /\ IsFiniteSet(T) /\ Cardinality(T) = Cardinality(S) + 1
               /\ \A n \in 1 .. Cardinality(S) : Nth(T, n) = Nth(S, n)
               /\ Nth(T, Cardinality(S) + 1) = m
<1> DEFINE T == S \cup {m}
<1>1. m \notin S
  OBVIOUS
<1>2. IsFiniteSet(T) /\ Cardinality(T) = Cardinality(S) + 1
  BY <1>1, FS_AddElement
<1>3. T \subseteq Nat
  OBVIOUS
<1>4. ASSUME NEW i \in S PROVE RankIn(T, i) = RankIn(S, i)
  <2>1. {k \in T : k <= i} = {k \in S : k <= i}
    OBVIOUS
  <2> QED BY <2>1 DEF RankIn
<1>5. RankIn(T, m) = Cardinality(S) + 1
  <2>0. \A k \in T : k <= m
    OBVIOUS
  <2> HIDE DEF T
  <2>1. {k \in T : k <= m} = T
    BY <2>0
  <2> QED BY <1>2, <2>1 DEF RankIn
<1>6. S \subseteq T /\ m \in T
  OBVIOUS
<1> HIDE DEF T
<1>7. ASSUME NEW n \in 1 .. Cardinality(S) PROVE Nth(T, n) = Nth(S, n)
  <2>1. Nth(S, n) \in S /\ RankIn(S, Nth(S, n)) = n
    BY NthPlace
  <2>2. RankIn(T, Nth(S, n)) = n
    BY <1>4, <2>1
  <2> QED BY <1>2, <1>3, <1>6, <2>1, <2>2, NthPlace
<1>8. Nth(T, Cardinality(S) + 1) = m
  BY <1>2, <1>3, <1>5, <1>6, NthPlace
<1> QED BY <1>2, <1>7, <1>8 DEF T

\* Without its least element every other one moves up by a place.
LEMMA NthRemoved ==
    ASSUME NEW S, S \subseteq Nat, IsFiniteSet(S), NEW m \in S, \A i \in S : m <= i
    PROVE  LET T == S \ {m}
           IN  /\ IsFiniteSet(T) /\ Cardinality(T) = Cardinality(S) - 1
               /\ \A n \in 1 .. Cardinality(T) : Nth(T, n) = Nth(S, n + 1)
               /\ Nth(S, 1) = m
<1> DEFINE T == S \ {m}
<1>1. IsFiniteSet(T) /\ Cardinality(T) = Cardinality(S) - 1
  BY FS_RemoveElement
<1>2. T \subseteq Nat /\ T \subseteq S /\ Cardinality(S) \in Nat
  BY RankBounds
<1>3. ASSUME NEW i \in T PROVE RankIn(S, i) = RankIn(T, i) + 1
  <2> DEFINE A == {k \in S : k <= i}
             B == {k \in T : k <= i}
  <2>1. A \subseteq S /\ m \in A /\ B = A \ {m}
    OBVIOUS
  <2> HIDE DEF A, B
  <2>2. IsFiniteSet(A) /\ Cardinality(A) \in Nat
    BY <2>1, FS_Subset, FS_CardinalityType
  <2>3. Cardinality(B) = Cardinality(A) - 1
    BY <2>1, <2>2, FS_RemoveElement
  <2>4. Cardinality(A) = Cardinality(B) + 1
    BY <2>2, <2>3
  <2> QED BY <2>4 DEF A, B, RankIn
<1>4. RankIn(S, m) = 1
  <2>0. \A k \in S : k <= m <=> k = m
    OBVIOUS
  <2>1. {k \in S : k <= m} = {m}
    BY <2>0
  <2> QED BY <2>1, FS_Singleton DEF RankIn
<1> HIDE DEF T
<1>5. ASSUME NEW n \in 1 .. Cardinality(T) PROVE Nth(T, n) = Nth(S, n + 1)
  <2>1. Nth(T, n) \in T /\ RankIn(T, Nth(T, n)) = n
    BY <1>1, <1>2, NthPlace
  <2>2. Nth(T, n) \in S /\ RankIn(S, Nth(T, n)) = n + 1
    BY <1>2, <1>3, <2>1
  <2> QED BY <2>2, NthPlace
<1>6. Nth(S, 1) = m
  BY <1>4, NthPlace
<1> QED BY <1>1, <1>5, <1>6 DEF T
============================================================================
