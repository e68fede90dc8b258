--------------------------- MODULE Regions_proofs ---------------------------
(***************************************************************************)
(* What the operators that the models share return: the elements selected  *)
(* from a sequence, sequences joined one after another, and those of       *)
(* Regions, for every byte array and every list of regions: setSubData     *)
(* keeps the size of the data, and its pruning loses neither a changed     *)
(* position nor the newest change to one.  Climb and the lemmas on least   *)
(* and greatest positions take the place of induction over positions.      *)
(***************************************************************************)
EXTENDS Regions, SequencesExt, FiniteSetTheorems, FunctionTheorems, SequenceTheorems, TLAPS

-----------------------------------------------------------------------------
(***************************************************************************)
(* Selections                                                              *)
(***************************************************************************)

\* The rank of a member is a position in 1..Cardinality(K).
LEMMA RankType ==
  ASSUME NEW n \in Nat, NEW K, K \subseteq 1..n
  PROVE  /\ IsFiniteSet(K)
         /\ Cardinality(K) \in Nat
         /\ \A i \in K : Rank(K, i) \in 1..Cardinality(K)
<1>1. IsFiniteSet(1..n)
  BY FS_Interval
<1>2. IsFiniteSet(K)
  BY <1>1, FS_Subset
<1>3. Cardinality(K) \in Nat
  BY <1>2, FS_CardinalityType
<1>4. ASSUME NEW i \in K PROVE Rank(K, i) \in 1..Cardinality(K)
  <2> DEFINE L == {j \in K : j =< i}
  <2>1. L \in SUBSET K
    OBVIOUS
  <2>2. IsFiniteSet(L) /\ Cardinality(L) =< Cardinality(K)
    BY <1>2, <2>1, FS_Subset
  <2>3. i \in L
    OBVIOUS
  <2>4. Cardinality(L) # 0 /\ Cardinality(L) \in Nat
    BY <2>2, <2>3, FS_EmptySet, FS_CardinalityType
  <2>5. Rank(K, i) = Cardinality(L)
    BY DEF Rank
  <2> QED
    BY <1>3, <2>2, <2>4, <2>5
<1> QED
  BY <1>2, <1>3, <1>4

\* Ranks grow with the members.
LEMMA RankMonotone ==
  ASSUME NEW n \in Nat, NEW K, K \subseteq 1..n, NEW i \in K, NEW j \in K, i < j
  PROVE  Rank(K, i) < Rank(K, j)
<1> DEFINE Li == {h \in K : h =< i}
           Lj == {h \in K : h =< j}
<1>1. IsFiniteSet(K)
  BY RankType
<1>2. IsFiniteSet(Lj)
  BY <1>1, FS_Subset
<1>3. Li \in SUBSET Lj /\ j \in Lj /\ j \notin Li
  <2>1. i \in Int /\ j \in Int /\ \A h \in K : h \in Int
    OBVIOUS
  <2>2. \A h \in Int : h =< i => h =< j
    BY <2>1
  <2>3. j =< j /\ ~(j =< i)
    BY <2>1
  <2> QED
    BY <2>1, <2>2, <2>3
<1>4. /\ Cardinality(Li) =< Cardinality(Lj)
      /\ Cardinality(Li) = Cardinality(Lj) => Li = Lj
  BY <1>2, <1>3, FS_Subset
<1>5. IsFiniteSet(Li) /\ Cardinality(Li) \in Nat /\ Cardinality(Lj) \in Nat
  BY <1>2, <1>3, FS_Subset, FS_CardinalityType
<1>6. Rank(K, i) = Cardinality(Li) /\ Rank(K, j) = Cardinality(Lj)
  BY DEF Rank
<1> QED
  BY <1>3, <1>4, <1>5, <1>6

\* Equal ranks, equal members; and a smaller rank is a smaller member.
LEMMA RankOrder ==
  ASSUME NEW n \in Nat, NEW K, K \subseteq 1..n, NEW i \in K, NEW j \in K
  PROVE  /\ Rank(K, i) = Rank(K, j) => i = j
         /\ Rank(K, i) < Rank(K, j) => i < j
<1>1. i \in Int /\ j \in Int
  OBVIOUS
<1>2. Rank(K, i) \in Int /\ Rank(K, j) \in Int
  <2>1. /\ Rank(K, i) \in 1..Cardinality(K) /\ Rank(K, j) \in 1..Cardinality(K)
        /\ Cardinality(K) \in Nat
    BY RankType
  <2> QED
    BY <2>1
<1>3. i < j => Rank(K, i) < Rank(K, j)
  BY RankMonotone
<1>4. j < i => Rank(K, j) < Rank(K, i)
  BY RankMonotone
<1> QED
  BY <1>1, <1>2, <1>3, <1>4

\* Every position is the rank of a member, so Nth enumerates K in order.
LEMMA NthEnumerates ==
  ASSUME NEW n \in Nat, NEW K, K \subseteq 1..n
  PROVE  /\ \A k \in 1..Cardinality(K) : Nth(K, k) \in K /\ Rank(K, Nth(K, k)) = k
         /\ \A i \in K : Nth(K, Rank(K, i)) = i
         /\ \A k, l \in 1..Cardinality(K) : k < l => Nth(K, k) < Nth(K, l)
<1> DEFINE f == [i \in K |-> Rank(K, i)]
           T == 1..Cardinality(K)
<1>1. f \in [K -> T]
  BY RankType
<1>2. \A a, b \in K : f[a] = f[b] => a = b
  BY RankOrder
<1>3. f \in Injection(K, T)
  BY <1>1, <1>2, Fun_IsInj
<1>4. IsFiniteSet(T) /\ Cardinality(T) = Cardinality(K)
  <2>1. Cardinality(K) \in Nat
    BY RankType
  <2>2. /\ IsFiniteSet(T)
        /\ Cardinality(T) = IF 1 > Cardinality(K) THEN 0 ELSE Cardinality(K) - 1 + 1
    BY <2>1, FS_Interval
  <2> QED
    BY <2>1, <2>2
<1>5. f \in Surjection(K, T)
  BY <1>3, <1>4, FS_Injection
<1>6. \A k \in T : \E i \in K : Rank(K, i) = k
  <2> HIDE DEF f, T
  <2>1. \A k \in T : \E i \in K : f[i] = k
    BY <1>5, Fun_SurjectionProperties
  <2> QED
    BY <2>1 DEF f
<1>7. \A k \in T : Nth(K, k) \in K /\ Rank(K, Nth(K, k)) = k
  BY <1>6 DEF Nth
<1>8. \A i \in K : Nth(K, Rank(K, i)) = i
  <2> SUFFICES ASSUME NEW i \in K PROVE Nth(K, Rank(K, i)) = i
    OBVIOUS
  <2>1. Rank(K, i) \in T
    BY RankType
  <2>2. Nth(K, Rank(K, i)) \in K /\ Rank(K, Nth(K, Rank(K, i))) = Rank(K, i)
    BY <1>7, <2>1
  <2> QED
    BY <2>2, RankOrder
<1>9. ASSUME NEW k \in T, NEW l \in T, k < l PROVE Nth(K, k) < Nth(K, l)
  <2>1. Nth(K, k) \in K /\ Nth(K, l) \in K
    BY <1>7
  <2>2. Rank(K, Nth(K, k)) < Rank(K, Nth(K, l))
    BY <1>7, <1>9
  <2> QED
    BY <2>1, <2>2, RankOrder
<1> QED
  BY <1>7, <1>8, <1>9

\* A nonempty set of indices has a greatest member.
LEMMA GreatestIndex ==
  ASSUME NEW n \in Nat, NEW K, K \subseteq 1..n, K # {}
  PROVE  \E m \in K : \A i \in K : i =< m
<1> DEFINE c == Cardinality(K)
           m == Nth(K, c)
<1>1. IsFiniteSet(K) /\ c \in Nat /\ c # 0
  BY RankType, FS_EmptySet
<1>2. c \in 1..Cardinality(K)
  BY <1>1
<1>3. m \in K /\ Rank(K, m) = c
  BY <1>2, NthEnumerates
<1>4. ASSUME NEW i \in K PROVE i =< m
  <2>1. Rank(K, i) \in 1..c
    BY RankType
  <2>2. Rank(K, i) = Rank(K, m) \/ Rank(K, i) < Rank(K, m)
    BY <1>1, <1>3, <2>1
  <2>3. i = m \/ i < m
    BY <1>3, <2>2, RankOrder
  <2> HIDE DEF m
  <2>4. i \in Int /\ m \in Int
    BY <1>3
  <2> QED
    BY <2>3, <2>4
<1> QED
  BY <1>3, <1>4

\* Of numbers up to n, one is the least.
LEMMA LeastIndex ==
  ASSUME NEW n \in Nat, NEW K, K \subseteq 1..n, K # {}
  PROVE  \E m \in K : \A i \in K : m =< i
<1> DEFINE T == {i \in 1..n : \E k \in K : i = n + 1 - k}
<1>1. T \subseteq 1..n /\ T # {}
  <2>1. PICK k \in K : k \in 1..n
    OBVIOUS
  <2>2. n + 1 - k \in 1..n
    BY <2>1
  <2> QED BY <2>1, <2>2
<1> HIDE DEF T
<1>2. PICK m \in T : \A i \in T : i =< m
  BY <1>1, GreatestIndex
<1>3. PICK k \in K : m = n + 1 - k
  BY DEF T
<1>4. ASSUME NEW i \in K PROVE k =< i
  <2>1. n + 1 - i \in T
    BY DEF T
  <2>2. n + 1 - i =< n + 1 - k /\ i \in Int /\ k \in Int
    BY <1>2, <1>3, <2>1
  <2> QED BY <2>2
<1> QED BY <1>4

\* Induction over positions, of the set of those that have what is to be shown.
LEMMA Climb ==
  ASSUME NEW n \in Nat, NEW P, n > 0 => 1 \in P,
         \A k \in 1..n : k < n /\ k \in P => k + 1 \in P
  PROVE  \A k \in 1..n : k \in P
<1> DEFINE K == {k \in 1..n : k \notin P}
<1> SUFFICES ASSUME K # {} PROVE FALSE
  OBVIOUS
<1>1. PICK m \in K : \A i \in K : m =< i
  <2>1. K \subseteq 1..n
    OBVIOUS
  <2> HIDE DEF K
  <2> QED BY <2>1, LeastIndex
<1>2. m \in 1..n /\ m \notin P
  BY <1>1
<1>3. m # 1
  BY <1>2
<1>4. m - 1 \in 1..n /\ m - 1 < n /\ m - 1 + 1 = m
  BY <1>2, <1>3
<1>5. m - 1 \notin K
  <2>1. ~(m =< m - 1)
    BY <1>2
  <2> QED BY <1>1, <2>1
<1>6. m - 1 \in P
  BY <1>4, <1>5
<1> QED BY <1>2, <1>4, <1>6

\* What a selection returns: the chosen elements, in their order.
THEOREM SelectedEnumerates ==
  ASSUME NEW S, NEW s \in Seq(S), NEW K, K \subseteq DOMAIN s
  PROVE  /\ Selected(s, K) \in Seq(S)
         /\ Len(Selected(s, K)) = Cardinality(K)
         /\ DOMAIN Selected(s, K) = 1..Cardinality(K)
         /\ \A k \in DOMAIN Selected(s, K) :
              Nth(K, k) \in K /\ Selected(s, K)[k] = s[Nth(K, k)]
         /\ \A k, l \in DOMAIN Selected(s, K) : k < l => Nth(K, k) < Nth(K, l)
         /\ \A i \in K : Rank(K, i) \in DOMAIN Selected(s, K) /\ Nth(K, Rank(K, i)) = i
         /\ K \subseteq DOMAIN s
<1>1. Len(s) \in Nat /\ DOMAIN s = 1..Len(s) /\ K \subseteq 1..Len(s)
  OBVIOUS
<1>2. Cardinality(K) \in Nat /\ \A i \in K : Rank(K, i) \in 1..Cardinality(K)
  BY <1>1, RankType
<1>3. /\ \A k \in 1..Cardinality(K) : Nth(K, k) \in K
      /\ \A i \in K : Nth(K, Rank(K, i)) = i
      /\ \A k, l \in 1..Cardinality(K) : k < l => Nth(K, k) < Nth(K, l)
  BY <1>1, NthEnumerates
<1>4. Selected(s, K) = [k \in 1..Cardinality(K) |-> s[Nth(K, k)]]
  BY DEF Selected
<1>5. \A i \in K : s[i] \in S
  BY <1>1
<1>6. Selected(s, K) \in [1..Cardinality(K) -> S]
  BY <1>3, <1>4, <1>5
<1>7. Selected(s, K) \in Seq(S) /\ Len(Selected(s, K)) = Cardinality(K)
  BY <1>2, <1>6, IsASeq, LenProperties
<1> QED
  BY <1>1, <1>2, <1>3, <1>4, <1>7

-----------------------------------------------------------------------------
(***************************************************************************)
(* Recursion that leaps back                                               *)
(***************************************************************************)

\* Induction where each number may need any of those below it.
LEMMA LeapClimb ==
  ASSUME NEW n \in Nat, NEW P, \A k \in 1..n : (\A j \in 1..n : j < k => j \in P) => k \in P
  PROVE  \A k \in 1..n : k \in P
<1> DEFINE K == {k \in 1..n : k \notin P}
<1> SUFFICES ASSUME K # {} PROVE FALSE
  OBVIOUS
<1>1. PICK m \in K : \A i \in K : m =< i
  <2>1. K \subseteq 1..n
    OBVIOUS
  <2> HIDE DEF K
  <2> QED BY <2>1, LeastIndex
<1>2. m \in 1..n /\ m \notin P
  OBVIOUS
<1>3. ASSUME NEW j \in 1..n, j < m PROVE j \in P
  <2>1. ~(m =< j)
    BY <1>2, <1>3
  <2>2. j \notin K
    BY <1>1, <2>1
  <2> QED BY <2>2
<1> QED BY <1>2, <1>3

\* A recursion in which each value comes from that of one smaller number, or none.
Solutions(n, D, back, step, base) ==
  {f \in [1..n -> D] : \A i \in 1..n : f[i] = step[i][IF back[i] = 0 THEN base ELSE f[back[i]]]}

\* It has a solution.
LEMMA LeapRecursion ==
  ASSUME NEW n \in Nat, NEW D, NEW back \in [1..n -> Nat], \A i \in 1..n : back[i] < i,
         NEW step \in [1..n -> [D -> D]], NEW base \in D
  PROVE  Solutions(n, D, back, step, base) # {}
<1> DEFINE P == {m \in 1..n : Solutions(m, D, back, step, base) # {}}
           Value(f, i) == step[i][IF back[i] = 0 THEN base ELSE f[back[i]]]
<1>1. n > 0 => 1 \in P
  <2>1. SUFFICES ASSUME n > 0 PROVE 1 \in P
    OBVIOUS
  <2>2. 1 \in 1..n /\ back[1] = 0
    BY <2>1
  <2>3. step[1][base] \in D
    BY <2>2
  <2>4. PICK f : f = [i \in 1..1 |-> step[1][base]]
    OBVIOUS
  <2>5. f \in Solutions(1, D, back, step, base)
    BY <2>2, <2>3, <2>4 DEF Solutions
  <2> QED BY <2>2, <2>5
<1>2. ASSUME NEW k \in 1..n, k < n, k \in P PROVE k + 1 \in P
  <2>1. PICK m \in 1..n : m = k + 1 /\ \A i \in 1..m : i # m => i \in 1..k
    BY <1>2
  <2>2. PICK f : f \in [1..k -> D] /\ \A i \in 1..k : f[i] = Value(f, i)
    BY <1>2 DEF Solutions
  <2>3. Value(f, m) \in D
    <3>1. back[m] \in Nat /\ back[m] < m /\ step[m] \in [D -> D]
      OBVIOUS
    <3>2. back[m] # 0 => back[m] \in 1..k
      BY <2>1, <3>1
    <3>3. (IF back[m] = 0 THEN base ELSE f[back[m]]) \in D
      BY <2>2, <3>2
    <3> QED BY <3>1, <3>3
  <2> DEFINE h == [i \in 1..m |-> IF i = m THEN Value(f, m) ELSE f[i]]
  <2>4. h \in [1..m -> D]
    <3> HIDE DEF Value
    <3> QED BY <2>1, <2>2, <2>3
  <2>5. ASSUME NEW i \in 1..m PROVE h[i] = Value(h, i)
    <3>1. i \in 1..n /\ back[i] \in Nat /\ back[i] < i /\ (back[i] # 0 => back[i] \in 1..k /\ back[i] \in 1..m /\ back[i] # m)
      BY <2>1
    <3>2. back[i] # 0 => h[back[i]] = f[back[i]]
      <4> HIDE DEF Value
      <4> QED BY <3>1
    <3>3. Value(h, i) = Value(f, i)
      <4> HIDE DEF h
      <4> QED BY <3>2
    <3>4. h[i] = Value(f, i)
      <4> HIDE DEF Value
      <4> QED BY <2>1, <2>2
    <3> QED BY <3>3, <3>4
  <2> HIDE DEF h
  <2>6. h \in Solutions(m, D, back, step, base)
    BY <2>4, <2>5 DEF Solutions
  <2> QED BY <2>1, <2>6
<1>3. \A k \in 1..n : k \in P
  <2> HIDE DEF P
  <2> QED BY <1>1, <1>2, Climb
<1>4. CASE n = 0
  <2>1. [i \in 1..0 |-> base] \in Solutions(0, D, back, step, base)
    BY DEF Solutions
  <2> QED BY <1>4, <2>1
<1>5. CASE n # 0
  <2>1. n \in 1..n
    BY <1>5
  <2> QED BY <1>3, <2>1
<1> QED BY <1>4, <1>5

-----------------------------------------------------------------------------
(***************************************************************************)
(* Sequences of sequences, joined                                          *)
(***************************************************************************)

\* What the first i sequences make, for each i.
SoFar(ss, S) ==
  {f \in [1..Len(ss) -> Seq(S)] :
     /\ FlattenSeq(ss) = f[Len(ss)]
     /\ f[1] = ss[1]
     /\ \A i \in 1..Len(ss) : i > 1 => f[i] = f[i - 1] \o ss[i]}

\* The recursion of FlattenSeq has a solution.
LEMMA JoinedSoFar ==
  ASSUME NEW S, NEW ss \in Seq(Seq(S)), Len(ss) > 0
  PROVE  SoFar(ss, S) # {}
<1> DEFINE n == Len(ss)
           Solves(g, m) == g = [i \in 1..m |-> IF i = 1 THEN ss[i] ELSE g[i - 1] \o ss[i]]
           P == {m \in 1..n : \E g \in [1..m -> Seq(S)] : Solves(g, m)}
<1>1. n \in Nat /\ n > 0 /\ \A i \in 1..n : ss[i] \in Seq(S)
  OBVIOUS
<1>2. 1 \in P
  <2> DEFINE g == [i \in 1..1 |-> ss[1]]
  <2>1. g \in [1..1 -> Seq(S)]
    BY <1>1
  <2>2. g = [i \in 1..1 |-> IF i = 1 THEN ss[i] ELSE g[i - 1] \o ss[i]]
    OBVIOUS
  <2> HIDE DEF g
  <2>3. 1 \in 1..n
    BY <1>1
  <2> QED BY <2>1, <2>2, <2>3
<1>3. ASSUME NEW m \in 1..n, m < n, m \in P PROVE m + 1 \in P
  <2>1. PICK g \in [1..m -> Seq(S)] : Solves(g, m)
    BY <1>3
  <2> DEFINE h == [i \in 1..m + 1 |-> IF i = m + 1 THEN g[m] \o ss[m + 1] ELSE g[i]]
  <2>2. m \in 1..m /\ m + 1 \in 1..n /\ m \in Nat
    BY <1>1, <1>3
  <2>3. g[m] \o ss[m + 1] \in Seq(S)
    BY <1>1, <2>2
  <2>4. \A i \in 1..m + 1 : i = m + 1 \/ i \in 1..m
    BY <2>2
  <2>5. h \in [1..m + 1 -> Seq(S)]
    BY <2>3, <2>4
  <2>6. ASSUME NEW i \in 1..m + 1
        PROVE  h[i] = IF i = 1 THEN ss[i] ELSE h[i - 1] \o ss[i]
    <3>1. CASE i = m + 1
      <4>1. i # 1 /\ i - 1 = m /\ i - 1 \in 1..m + 1 /\ i - 1 # m + 1
        BY <2>2, <3>1
      <4>2. h[i - 1] = g[m]
        BY <4>1
      <4> QED BY <3>1, <4>1, <4>2
    <3>2. CASE i # m + 1
      <4>1. i \in 1..m /\ h[i] = g[i]
        BY <2>4, <3>2
      <4>2. g[i] = IF i = 1 THEN ss[i] ELSE g[i - 1] \o ss[i]
        BY <2>1, <4>1
      <4>3. CASE i = 1
        BY <4>1, <4>2, <4>3
      <4>4. CASE i # 1
        <5>1. i - 1 \in 1..m + 1 /\ i - 1 # m + 1
          BY <2>2, <4>1, <4>4
        <5>2. h[i - 1] = g[i - 1]
          BY <5>1
        <5> QED BY <4>1, <4>2, <4>4, <5>2
      <4> QED BY <4>3, <4>4
    <3> QED BY <3>1, <3>2
  <2> HIDE DEF h
  <2>7. Solves(h, m + 1)
    <3>1. h = [i \in 1..m + 1 |-> h[i]]
      BY <2>5
    <3> QED BY <2>6, <3>1
  <2> QED BY <2>2, <2>5, <2>7
<1>4. n \in P
  <2> HIDE DEF P, n
  <2>1. \A k \in 1..n : k \in P
    BY <1>1, <1>2, <1>3, Climb
  <2> QED BY <1>1, <2>1
<1>5. PICK g \in [1..n -> Seq(S)] : Solves(g, n)
  BY <1>4
<1> DEFINE f == CHOOSE flat : flat = [i \in 1..n |-> IF i = 1 THEN ss[i] ELSE flat[i - 1] \o ss[i]]
<1>6. f = [i \in 1..n |-> IF i = 1 THEN ss[i] ELSE f[i - 1] \o ss[i]]
  BY <1>5
<1>7. FlattenSeq(ss) = f[n]
  <2>1. Len(ss) # 0
    BY <1>1
  <2> QED BY <2>1 DEF FlattenSeq
<1> HIDE DEF f
<1>8. f[1] = ss[1] /\ \A i \in 1..n : i > 1 => f[i] = f[i - 1] \o ss[i]
  <2>1. 1 \in 1..n
    BY <1>1
  <2>2. ASSUME NEW i \in 1..n PROVE f[i] = IF i = 1 THEN ss[i] ELSE f[i - 1] \o ss[i]
    BY <1>6
  <2>3. f[1] = ss[1]
    BY <2>1, <2>2
  <2>4. ASSUME NEW i \in 1..n, i > 1 PROVE f[i] = f[i - 1] \o ss[i]
    <3>1. i # 1
      BY <2>4
    <3> QED BY <2>2, <3>1
  <2> QED BY <2>3, <2>4
<1>9. \A i \in 1..n : f[i] \in Seq(S)
  <2> DEFINE Q == {i \in 1..n : f[i] \in Seq(S)}
  <2>1. 1 \in Q
    BY <1>1, <1>8
  <2>2. ASSUME NEW k \in 1..n, k < n, k \in Q PROVE k + 1 \in Q
    <3>1. PICK i \in 1..n : i = k + 1 /\ i > 1 /\ i - 1 = k
      BY <1>1, <2>2
    <3>2. f[i] = f[k] \o ss[i]
      BY <1>8, <3>1
    <3>3. f[k] \in Seq(S) /\ ss[i] \in Seq(S)
      BY <1>1, <2>2
    <3>4. f[i] \in Seq(S)
      BY <3>2, <3>3
    <3> QED BY <3>1, <3>4
  <2> HIDE DEF Q
  <2>3. \A k \in 1..n : k \in Q
    BY <1>1, <2>1, <2>2, Climb
  <2> QED BY <2>3 DEF Q
<1>10. f \in [1..n -> Seq(S)]
  BY <1>6, <1>9
<1>11. f \in SoFar(ss, S)
  BY <1>7, <1>8, <1>10 DEF SoFar
<1> QED BY <1>11

-----------------------------------------------------------------------------
(***************************************************************************)
(* Regions                                                                 *)
(***************************************************************************)

-----------------------------------------------------------------------------
(***************************************************************************)
(* Pruning                                                                 *)
(***************************************************************************)

\* A covered position has a newest region that covers it.
LEMMA LastCoverExists ==
  ASSUME NEW B, NEW rs \in Seq(RegionOf(B)), NEW p, Covered(rs, p)
  PROVE  \E m \in DOMAIN rs : IsLastCover(rs, m, p)
<1> DEFINE K == {i \in 1..Len(rs) : Covers(rs[i], p)}
<1>1. Len(rs) \in Nat /\ DOMAIN rs = 1..Len(rs)
  OBVIOUS
<1>2. K # {} /\ K \subseteq 1..Len(rs)
  BY <1>1 DEF Covered
<1>3. PICK m \in K : \A i \in K : i =< m
  <2> HIDE DEF K
  <2> QED
    BY <1>1, <1>2, GreatestIndex
<1>4. ASSUME NEW j \in DOMAIN rs, j > m PROVE ~Covers(rs[j], p)
  <2>1. j \in Int /\ m \in Int
    BY <1>1
  <2>2. j \notin K
    BY <1>3, <1>4, <2>1
  <2> QED
    BY <1>1, <2>2
<1> QED
  BY <1>1, <1>4 DEF IsLastCover

\* What pruning returns: the kept regions, in their order.
LEMMA PruneEnumerates ==
  ASSUME NEW B, NEW rs \in Seq(RegionOf(B))
  PROVE  LET K == Kept(rs) IN
         /\ Prune(rs) \in Seq(RegionOf(B))
         /\ Len(Prune(rs)) = Cardinality(K)
         /\ DOMAIN Prune(rs) = 1..Cardinality(K)
         /\ \A k \in DOMAIN Prune(rs) :
              Nth(K, k) \in K /\ Prune(rs)[k] = rs[Nth(K, k)]
         /\ \A k, l \in DOMAIN Prune(rs) : k < l => Nth(K, k) < Nth(K, l)
         /\ \A i \in K : Rank(K, i) \in DOMAIN Prune(rs) /\ Nth(K, Rank(K, i)) = i
         /\ K \subseteq DOMAIN rs
<1> DEFINE K == Kept(rs)
<1>1. K \subseteq DOMAIN rs
  BY DEF Kept
<1>2. Prune(rs) = Selected(rs, K)
  BY DEF Prune
<1> HIDE DEF K
<1> QED
  BY <1>1, <1>2, SelectedEnumerates DEF K

\* The newest region to cover a position is never pruned: a newer region
\* around it would cover the position too.
LEMMA LastCoverIsKept ==
  ASSUME NEW B, NEW rs \in Seq(RegionOf(B)), NEW p \in Int,
         NEW m \in DOMAIN rs, IsLastCover(rs, m, p)
  PROVE  m \in Kept(rs)
<1> SUFFICES ASSUME NEW j \in DOMAIN rs, j > m, Contained(rs[m], rs[j])
             PROVE  FALSE
  BY DEF Kept
<1>1. /\ rs[m].position \in Int /\ EndOf(rs[m]) \in Int
      /\ rs[j].position \in Int /\ EndOf(rs[j]) \in Int
  <2>1. rs[m] \in RegionOf(B) /\ rs[j] \in RegionOf(B)
    OBVIOUS
  <2>2. /\ rs[m].position \in Nat /\ Len(rs[m].bytes) \in Nat
        /\ rs[j].position \in Nat /\ Len(rs[j].bytes) \in Nat
    BY <2>1 DEF RegionOf
  <2> QED
    BY <2>2 DEF EndOf, SizeOf
<1>2. Covers(rs[j], p)
  BY <1>1 DEF IsLastCover, Covers, Contained
<1> QED
  BY <1>2 DEF IsLastCover

\* Pruning a list loses no covered position, adds none, and the newest
\* region over a position of the pruned list is the newest of the old one.
THEOREM PruneKeepsCover ==
  ASSUME NEW B, NEW rs \in Seq(RegionOf(B)), NEW p \in Int
  PROVE  /\ Covered(Prune(rs), p) <=> Covered(rs, p)
         /\ \A k \in DOMAIN Prune(rs) :
              IsLastCover(Prune(rs), k, p) =>
                \E i \in DOMAIN rs : IsLastCover(rs, i, p) /\ rs[i] = Prune(rs)[k]
<1> DEFINE K == Kept(rs)
<1>1. /\ Prune(rs) \in Seq(RegionOf(B))
      /\ DOMAIN Prune(rs) = 1..Cardinality(K)
      /\ \A k \in DOMAIN Prune(rs) :
           Nth(K, k) \in K /\ Prune(rs)[k] = rs[Nth(K, k)]
      /\ \A k, l \in DOMAIN Prune(rs) : k < l => Nth(K, k) < Nth(K, l)
      /\ \A i \in K : Rank(K, i) \in DOMAIN Prune(rs) /\ Nth(K, Rank(K, i)) = i
      /\ K \subseteq DOMAIN rs
  BY PruneEnumerates
<1>2. ASSUME NEW m \in DOMAIN rs, IsLastCover(rs, m, p)
      PROVE  /\ Rank(K, m) \in DOMAIN Prune(rs)
             /\ Prune(rs)[Rank(K, m)] = rs[m]
             /\ m \in K
             /\ Nth(K, Rank(K, m)) = m
  <2>1. m \in K
    BY <1>2, LastCoverIsKept
  <2> HIDE DEF K
  <2> QED
    BY <1>1, <2>1
<1>3. Covered(rs, p) => Covered(Prune(rs), p)
  <2> SUFFICES ASSUME Covered(rs, p) PROVE Covered(Prune(rs), p)
    OBVIOUS
  <2>1. PICK m \in DOMAIN rs : IsLastCover(rs, m, p)
    BY LastCoverExists
  <2>2. Rank(K, m) \in DOMAIN Prune(rs) /\ Prune(rs)[Rank(K, m)] = rs[m]
    BY <1>2, <2>1
  <2> QED
    BY <2>1, <2>2 DEF Covered, IsLastCover
<1> HIDE DEF K
<1>4. Covered(Prune(rs), p) => Covered(rs, p)
  BY <1>1 DEF Covered
<1>5. ASSUME NEW k \in DOMAIN Prune(rs), IsLastCover(Prune(rs), k, p)
      PROVE  \E i \in DOMAIN rs : IsLastCover(rs, i, p) /\ rs[i] = Prune(rs)[k]
  <2>1. Covered(rs, p)
    BY <1>4, <1>5 DEF Covered, IsLastCover
  <2>2. PICK m \in DOMAIN rs : IsLastCover(rs, m, p)
    BY <2>1, LastCoverExists
  <2> DEFINE l == Rank(K, m)
  <2>3. l \in DOMAIN Prune(rs) /\ Prune(rs)[l] = rs[m] /\ Nth(K, l) = m
    BY <1>2, <2>2
  <2>4. Covers(Prune(rs)[l], p)
    BY <2>2, <2>3 DEF IsLastCover
  <2>5. Nth(K, k) \in DOMAIN rs /\ Covers(rs[Nth(K, k)], p)
    BY <1>1, <1>5 DEF IsLastCover
  <2>6. k \in Int /\ l \in Int /\ m \in Int /\ Nth(K, k) \in Int
    <3>1. DOMAIN Prune(rs) = 1..Len(Prune(rs)) /\ DOMAIN rs = 1..Len(rs)
      BY <1>1
    <3> HIDE DEF l
    <3> QED
      BY <2>3, <2>5, <3>1
  <2>7. ~(l > k)
    BY <1>5, <2>3, <2>4 DEF IsLastCover
  <2>8. ~(Nth(K, k) > m)
    BY <2>2, <2>5 DEF IsLastCover
  <2>9. l < k => m < Nth(K, k)
    BY <1>1, <2>3
  <2>10. l = k
    <3> HIDE DEF l
    <3> QED
      BY <2>6, <2>7, <2>8, <2>9
  <2> QED
    BY <2>2, <2>3, <2>10
<1> QED
  BY <1>3, <1>4, <1>5

\* No region of a pruned list lies inside a newer one.
THEOREM PruneLeavesNoNesting ==
  ASSUME NEW B, NEW rs \in Seq(RegionOf(B))
  PROVE  \A k, l \in DOMAIN Prune(rs) :
           k < l => ~Contained(Prune(rs)[k], Prune(rs)[l])
<1> SUFFICES ASSUME NEW k \in DOMAIN Prune(rs), NEW l \in DOMAIN Prune(rs), k < l
             PROVE  ~Contained(Prune(rs)[k], Prune(rs)[l])
  OBVIOUS
<1> DEFINE K == Kept(rs)
<1>1. /\ Nth(K, k) \in K /\ Prune(rs)[k] = rs[Nth(K, k)]
      /\ Nth(K, l) \in K /\ Prune(rs)[l] = rs[Nth(K, l)]
      /\ Nth(K, k) < Nth(K, l)
      /\ K \subseteq DOMAIN rs
  BY PruneEnumerates
<1>2. Nth(K, l) \in DOMAIN rs /\ Nth(K, l) > Nth(K, k)
  <2>1. Nth(K, k) \in 1..Len(rs) /\ Nth(K, l) \in 1..Len(rs)
    BY <1>1
  <2> HIDE DEF K
  <2> QED
    BY <1>1, <2>1
<1> QED
  BY <1>1, <1>2 DEF Kept

-----------------------------------------------------------------------------
(***************************************************************************)
(* setSubData                                                              *)
(***************************************************************************)

\* A region appended to a list covers its positions last.
LEMMA AppendCover ==
  ASSUME NEW B, NEW rs \in Seq(RegionOf(B)), NEW r \in RegionOf(B), NEW p \in Int
  PROVE  LET rs1 == Append(rs, r) IN
         /\ rs1 \in Seq(RegionOf(B))
         /\ Covered(rs1, p) <=> Covered(rs, p) \/ Covers(r, p)
         /\ \A i \in DOMAIN rs1 : IsLastCover(rs1, i, p) =>
              IF Covers(r, p) THEN rs1[i] = r
              ELSE i \in DOMAIN rs /\ IsLastCover(rs, i, p) /\ rs1[i] = rs[i]
         /\ \A i \in DOMAIN rs1 : rs1[i] = r \/ \E j \in DOMAIN rs : rs1[i] = rs[j]
<1> DEFINE rs1 == Append(rs, r)
           n == Len(rs)
<1>1. /\ rs1 \in Seq(RegionOf(B))
      /\ n \in Nat
      /\ DOMAIN rs = 1..n
      /\ DOMAIN rs1 = 1..(n + 1)
      /\ \A i \in 1..n : rs1[i] = rs[i]
      /\ rs1[n + 1] = r
  OBVIOUS
<1> HIDE DEF rs1, n
<1>2. DOMAIN rs1 = DOMAIN rs \cup {n + 1} /\ n + 1 \notin DOMAIN rs
  BY <1>1
<1>3. Covered(rs1, p) <=> Covered(rs, p) \/ Covers(r, p)
  BY <1>1, <1>2 DEF Covered
<1>4. ASSUME NEW i \in DOMAIN rs1, IsLastCover(rs1, i, p)
      PROVE  IF Covers(r, p) THEN rs1[i] = r
             ELSE i \in DOMAIN rs /\ IsLastCover(rs, i, p) /\ rs1[i] = rs[i]
  <2>1. CASE Covers(r, p)
    <3>1. n + 1 \in DOMAIN rs1 /\ Covers(rs1[n + 1], p)
      BY <1>1, <1>2, <2>1
    <3>2. ~(n + 1 > i)
      BY <1>4, <3>1 DEF IsLastCover
    <3>3. i = n + 1
      BY <1>1, <3>2
    <3> QED
      BY <1>1, <2>1, <3>3
  <2>2. CASE ~Covers(r, p)
    <3>1. i # n + 1
      BY <1>1, <1>4, <2>2 DEF IsLastCover
    <3>2. i \in DOMAIN rs /\ rs1[i] = rs[i]
      BY <1>1, <1>2, <3>1
    <3>3. \A j \in DOMAIN rs : j \in DOMAIN rs1 /\ rs1[j] = rs[j]
      BY <1>1, <1>2
    <3>4. IsLastCover(rs, i, p)
      BY <1>4, <3>2, <3>3 DEF IsLastCover
    <3> QED
      BY <2>2, <3>2, <3>4
  <2> QED
    BY <2>1, <2>2
<1>5. \A i \in DOMAIN rs1 : rs1[i] = r \/ \E j \in DOMAIN rs : rs1[i] = rs[j]
  BY <1>1, <1>2
<1> QED
  BY <1>1, <1>3, <1>4, <1>5 DEF rs1

\* The newest region is always kept, so a pruned list is not empty.
LEMMA NewestIsKept ==
  ASSUME NEW B, NEW rs \in Seq(RegionOf(B)), rs # <<>>
  PROVE  Prune(rs) # <<>>
<1>1. Len(rs) \in Nat /\ DOMAIN rs = 1..Len(rs) /\ Len(rs) # 0
  BY EmptySeq
<1>2. Len(rs) \in DOMAIN rs /\ \A j \in DOMAIN rs : ~(j > Len(rs))
  BY <1>1
<1>3. Len(rs) \in Kept(rs)
  BY <1>2 DEF Kept
<1>4. Rank(Kept(rs), Len(rs)) \in DOMAIN Prune(rs)
  BY <1>3, PruneEnumerates
<1> QED
  BY <1>4

\* QByteArray::replace inside the array: same size, the new bytes in the
\* replaced stretch, the old ones around it.
LEMMA ReplaceInside ==
  ASSUME NEW B, NEW d \in Seq(B), NEW sub \in Seq(B), NEW pos \in Nat,
         pos + Len(sub) =< Len(d)
  PROVE  /\ Replace(d, pos, sub) \in Seq(B)
         /\ Len(Replace(d, pos, sub)) = Len(d)
         /\ \A k \in 1..Len(d) :
              Replace(d, pos, sub)[k] =
                IF pos < k /\ k =< pos + Len(sub) THEN sub[k - pos] ELSE d[k]
<1> DEFINE new == [k \in 1..Len(d) |->
                     IF pos < k /\ k =< pos + Len(sub) THEN sub[k - pos] ELSE d[k]]
<1>1. Len(d) \in Nat /\ Len(sub) \in Nat
  OBVIOUS
<1>2. Replace(d, pos, sub) = new
  BY <1>1 DEF Replace
<1>3. ASSUME NEW k \in 1..Len(d)
      PROVE  (IF pos < k /\ k =< pos + Len(sub) THEN sub[k - pos] ELSE d[k]) \in B
  <2>1. CASE pos < k /\ k =< pos + Len(sub)
    <3>1. k - pos \in 1..Len(sub)
      BY <1>1, <2>1
    <3> QED
      BY <2>1, <3>1
  <2>2. CASE ~(pos < k /\ k =< pos + Len(sub))
    BY <2>2
  <2> QED
    BY <2>1, <2>2
<1>4. new \in [1..Len(d) -> B]
  BY <1>3
<1>5. new \in Seq(B) /\ Len(new) = Len(d)
  <2> HIDE DEF new
  <2> QED
    BY <1>1, <1>4, IsASeq, LenProperties
<1> QED
  BY <1>2, <1>5

\* What setSubData does when it is given bytes that fit at their position:
\* the covered bytes and only they change, the list then covers what it
\* covered and the new bytes, the new region is the newest over its bytes,
\* no region lies inside a newer one, and the section counts as modified.
THEOREM SetSubDataEffect ==
  ASSUME NEW B, NEW d \in Seq(B), NEW rs \in Seq(RegionOf(B)), NEW sub \in Seq(B),
         NEW pos \in Nat, pos < Len(d), pos + Len(sub) =< Len(d)
  PROVE  LET d2 == SubDataData(d, sub, pos)
             rs2 == SubDataRegions(d, rs, sub, pos)
             new == [position |-> pos, bytes |-> sub]
         IN
         /\ d2 \in Seq(B) /\ Len(d2) = Len(d)
         /\ \A p \in 0..Len(d) - 1 :
              d2[p + 1] = IF Covers(new, p) THEN ByteAt(new, p) ELSE d[p + 1]
         /\ rs2 \in Seq(RegionOf(B)) /\ rs2 # <<>>
         /\ \A i \in DOMAIN rs2 : rs2[i] = new \/ \E j \in DOMAIN rs : rs2[i] = rs[j]
         /\ \A p \in Int : Covered(rs2, p) <=> Covered(rs, p) \/ Covers(new, p)
         /\ \A p \in Int : \A k \in DOMAIN rs2 : IsLastCover(rs2, k, p) =>
              IF Covers(new, p) THEN rs2[k] = new
              ELSE \E i \in DOMAIN rs : IsLastCover(rs, i, p) /\ rs[i] = rs2[k]
         /\ \A k, l \in DOMAIN rs2 : k < l => ~Contained(rs2[k], rs2[l])
<1> DEFINE d2 == SubDataData(d, sub, pos)
           rs2 == SubDataRegions(d, rs, sub, pos)
           new == [position |-> pos, bytes |-> sub]
           rs1 == Append(rs, new)
<1>1. Len(d) \in Nat /\ Len(sub) \in Nat
  OBVIOUS
<1>2. AcceptsSub(d, sub, pos)
  BY <1>1 DEF AcceptsSub
<1>3. d2 = Replace(d, pos, sub) /\ rs2 = Prune(rs1)
  BY <1>2 DEF SubDataData, SubDataRegions
<1>4. new \in RegionOf(B)
  BY DEF RegionOf
<1>5. d2 \in Seq(B) /\ Len(d2) = Len(d)
  BY <1>3, ReplaceInside
<1>6. ASSUME NEW p \in 0..Len(d) - 1
      PROVE  d2[p + 1] = IF Covers(new, p) THEN ByteAt(new, p) ELSE d[p + 1]
  <2>1. p + 1 \in 1..Len(d)
    BY <1>1
  <2>2. d2[p + 1] = IF pos < p + 1 /\ p + 1 =< pos + Len(sub)
                    THEN sub[p + 1 - pos] ELSE d[p + 1]
    BY <1>3, <2>1, ReplaceInside
  <2>3. Covers(new, p) <=> pos < p + 1 /\ p + 1 =< pos + Len(sub)
    BY <1>1 DEF Covers, EndOf, SizeOf
  <2>4. ByteAt(new, p) = sub[p + 1 - pos]
    BY DEF ByteAt
  <2> QED
    BY <2>2, <2>3, <2>4
<1> HIDE DEF new, d2, rs2
<1>7. rs1 \in Seq(RegionOf(B)) /\ rs1 # <<>>
  BY <1>4
<1>8. rs2 \in Seq(RegionOf(B)) /\ rs2 # <<>>
  BY <1>3, <1>7, PruneEnumerates, NewestIsKept
<1>9. \A p \in Int : Covered(rs2, p) <=> Covered(rs, p) \/ Covers(new, p)
  BY <1>3, <1>4, <1>7, PruneKeepsCover, AppendCover
<1>10. \A i \in DOMAIN rs2 : rs2[i] = new \/ \E j \in DOMAIN rs : rs2[i] = rs[j]
  <2> TAKE i \in DOMAIN rs2
  <2>1. PICK j \in DOMAIN rs1 : rs2[i] = rs1[j]
    BY <1>3, <1>7, PruneEnumerates
  <2> QED
    BY <1>4, <2>1, AppendCover
<1>11. ASSUME NEW p \in Int, NEW k \in DOMAIN rs2, IsLastCover(rs2, k, p)
       PROVE  IF Covers(new, p) THEN rs2[k] = new
              ELSE \E i \in DOMAIN rs : IsLastCover(rs, i, p) /\ rs[i] = rs2[k]
  <2>1. PICK j \in DOMAIN rs1 : IsLastCover(rs1, j, p) /\ rs1[j] = rs2[k]
    BY <1>3, <1>7, <1>11, PruneKeepsCover
  <2> QED
    BY <1>4, <2>1, AppendCover
<1>12. \A k, l \in DOMAIN rs2 : k < l => ~Contained(rs2[k], rs2[l])
  BY <1>3, <1>7, PruneLeavesNoNesting
<1> QED
  BY <1>5, <1>6, <1>8, <1>9, <1>10, <1>11, <1>12 DEF new, d2, rs2

\* QByteArray::mid of a stretch inside the array.
LEMMA MidInside ==
  ASSUME NEW B, NEW d \in Seq(B), NEW pos \in Nat, NEW n \in Nat, pos + n =< Len(d)
  PROVE  /\ Mid(d, pos, n) \in Seq(B)
         /\ Len(Mid(d, pos, n)) = n
         /\ \A k \in 1..n : Mid(d, pos, n)[k] = d[pos + k]
<1>1. Len(d) \in Nat
  OBVIOUS
<1>2. Mid(d, pos, n) = SubSeq(d, pos + 1, pos + n)
  BY <1>1 DEF Mid
<1>3. \A i \in pos + 1..pos + n : d[i] \in B
  BY <1>1
<1> DEFINE m == [k \in 1..n |-> d[pos + k]]
<1>4. SubSeq(d, pos + 1, pos + n) = m
  BY <1>1, <1>3, SMTT(30)
<1>5. m \in [1..n -> B] /\ \A k \in 1..n : m[k] = d[pos + k]
  BY <1>1
<1> HIDE DEF m
<1>6. m \in Seq(B) /\ Len(m) = n
  BY <1>5, IsASeq, LenProperties
<1> QED
  BY <1>2, <1>4, <1>5, <1>6
=============================================================================
