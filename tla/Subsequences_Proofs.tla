------------------------ MODULE Subsequences_Proofs -------------------------
(***************************************************************************)
(* What the operators of Subsequences return, for sequences of any length. *)
(* Ascending(S) is well defined because the rank of a number in S is an    *)
(* injection of S into 1..Cardinality(S), hence onto it: no induction.     *)
(***************************************************************************)
EXTENDS Subsequences, SequencesExt, FiniteSetTheorems, TLAPS

\* A function on 1..n is a sequence of length n.
LEMMA FunctionIsSeq ==
    ASSUME NEW n \in Nat, NEW T, NEW f \in [1..n -> T]
    PROVE  f \in Seq(T) /\ Len(f) = n /\ DOMAIN f = 1..n
OBVIOUS

\* A sequence is a function on its places.
LEMMA SeqIsFunction ==
    ASSUME NEW T, NEW s \in Seq(T)
    PROVE  /\ Len(s) \in Nat /\ DOMAIN s = 1..Len(s) /\ s \in [1..Len(s) -> T]
           /\ ToSet(s) \subseteq T /\ \A i \in DOMAIN s : s[i] \in T /\ s[i] \in ToSet(s)
BY DEF ToSet

\* The rank of an element of a finite set of numbers grows with it.
LEMMA RankGrows ==
    ASSUME NEW S \in SUBSET Nat, IsFiniteSet(S), NEW i \in S, NEW j \in S
    PROVE  /\ Cardinality({x \in S : x <= i}) \in 1..Cardinality(S)
           /\ i < j <=> Cardinality({x \in S : x <= i}) < Cardinality({x \in S : x <= j})
<1>. DEFINE Below(y) == {x \in S : x <= y}
<1>1. ASSUME NEW y \in S
      PROVE  /\ IsFiniteSet(Below(y)) /\ Cardinality(Below(y)) \in 1..Cardinality(S)
             /\ Cardinality(S) \in Nat
  <2>1. Below(y) \in SUBSET S /\ y \in Below(y)
    OBVIOUS
  <2>2. /\ IsFiniteSet(Below(y)) /\ Cardinality(Below(y)) <= Cardinality(S)
        /\ Cardinality(Below(y)) \in Nat /\ Cardinality(S) \in Nat
    BY <2>1, FS_Subset, FS_CardinalityType
  <2>3. Cardinality(Below(y)) # 0
    BY <2>1, <2>2, FS_EmptySet
  <2>. QED
    BY <2>2, <2>3
<1>2. ASSUME NEW y \in S, NEW z \in S, y < z
      PROVE  Cardinality(Below(y)) < Cardinality(Below(z))
  <2>1. Below(y) \in SUBSET Below(z)
    <3>1. y \in Nat /\ z \in Nat /\ y < z
      BY <1>2
    <3>2. \A x \in S : x \in Nat /\ (x <= y => x <= z)
      BY <3>1
    <3>. QED
      BY <3>2
  <2>2. Below(y) # Below(z)
    <3>1. z \in Below(z) /\ z \notin Below(y)
      BY <1>2
    <3>. QED
      BY <3>1
  <2>3. Cardinality(Below(y)) <= Cardinality(Below(z)) /\ Cardinality(Below(y)) # Cardinality(Below(z))
    BY <1>1, <2>1, <2>2, FS_Subset
  <2>4. Cardinality(Below(y)) \in Nat /\ Cardinality(Below(z)) \in Nat
    BY <1>1
  <2>. QED
    BY <2>3, <2>4
<1>3. Cardinality(Below(i)) \in Nat /\ Cardinality(Below(j)) \in Nat
  BY <1>1
<1>4. i < j => Cardinality(Below(i)) < Cardinality(Below(j))
  BY <1>2
<1>5. j < i => Cardinality(Below(j)) < Cardinality(Below(i))
  BY <1>2
<1>6. j = i => Cardinality(Below(j)) = Cardinality(Below(i))
  OBVIOUS
<1>. HIDE DEF Below
<1>7. i < j <=> Cardinality(Below(i)) < Cardinality(Below(j))
  BY <1>3, <1>4, <1>5, <1>6
<1>. QED
  BY <1>1, <1>7 DEF Below

\* Ascending(S) lists every number of S once, each behind the smaller ones.
LEMMA AscendingIs ==
    ASSUME NEW S \in SUBSET Nat, IsFiniteSet(S)
    PROVE  /\ Cardinality(S) \in Nat /\ Ascending(S) \in [1..Cardinality(S) -> S]
           /\ \A i, j \in 1..Cardinality(S) : i < j <=> Ascending(S)[i] < Ascending(S)[j]
           /\ \A x \in S : \E i \in 1..Cardinality(S) : Ascending(S)[i] = x
           /\ \A i \in 1..Cardinality(S) :
                 Cardinality({j \in S : j <= Ascending(S)[i]}) = i
<1>. DEFINE n == Cardinality(S)
            Rank == [x \in S |-> Cardinality({j \in S : j <= x})]
<1>1. n \in Nat
  BY FS_CardinalityType
<1>2. Rank \in [S -> 1..n] /\ \A x, y \in S : x < y <=> Rank[x] < Rank[y]
  BY RankGrows
<1>3. \A x, y \in S : Rank[x] = Rank[y] => x = y
  BY <1>1, <1>2
<1>4. \A k \in 1..n : \E x \in S : Rank[x] = k
  <2>. HIDE DEF Rank, n
  <2>1. Rank \in Injection(S, 1..n)
    BY <1>2, <1>3 DEF Injection, IsInjective
  <2>2. IsFiniteSet(1..n) /\ Cardinality(1..n) = n
    BY <1>1, FS_Interval
  <2>3. Rank \in Surjection(S, 1..n)
    BY <2>1, <2>2, FS_Injection DEF n
  <2>. QED
    BY <2>3 DEF Surjection
<1>5. \A k \in 1..n : Ascending(S)[k] \in S /\ Rank[Ascending(S)[k]] = k
  BY <1>4 DEF Ascending
<1>6. Ascending(S) \in [1..n -> S]
  BY <1>5 DEF Ascending
<1>. HIDE DEF Rank, n
<1>7. \A x \in S : \E i \in 1..n : Ascending(S)[i] = x
  BY <1>2, <1>3, <1>5
<1>8. \A i, j \in 1..n : i < j <=> Ascending(S)[i] < Ascending(S)[j]
  <2>1. ASSUME NEW i \in 1..n, NEW j \in 1..n, NEW x \in S, NEW y \in S,
               Rank[x] = i, Rank[y] = j
        PROVE  i < j <=> x < y
    BY <1>2, <2>1
  <2>. QED
    BY <1>5, <2>1
<1>. QED
  BY <1>1, <1>5, <1>6, <1>7, <1>8 DEF Rank, n

\* At(s, I) holds the elements of s at I and no others, in their order.
LEMMA AtIs ==
    ASSUME NEW T, NEW s \in Seq(T), NEW I \in SUBSET DOMAIN s
    PROVE  /\ IsFiniteSet(I) /\ Cardinality(I) \in 0..Len(s)
           /\ At(s, I) \in Seq(T) /\ Len(At(s, I)) = Cardinality(I)
           /\ \A k \in 1..Cardinality(I) :
                 Ascending(I)[k] \in I /\ At(s, I)[k] = s[Ascending(I)[k]]
           /\ ToSet(At(s, I)) = {s[i] : i \in I}
<1>1. DOMAIN s = 1..Len(s) /\ Len(s) \in Nat /\ s \in [1..Len(s) -> T]
  BY SeqIsFunction
<1>2. I \in SUBSET Nat /\ IsFiniteSet(I) /\ Cardinality(I) <= Len(s)
  <2>1. IsFiniteSet(1..Len(s)) /\ Cardinality(1..Len(s)) = Len(s)
    <3>1. \A m \in Nat : IsFiniteSet(1..m) /\ Cardinality(1..m) = m
      BY FS_Interval
    <3>. QED
      BY <1>1, <3>1
  <2>2. I \in SUBSET (1..Len(s))
    BY <1>1
  <2>. QED
    BY <2>1, <2>2, FS_Subset
<1>. DEFINE n == Cardinality(I)
            a == Ascending(I)
<1>3. n \in Nat /\ a \in [1..n -> I] /\ \A x \in I : \E i \in 1..n : a[i] = x
  BY <1>2, AscendingIs
<1>4. At(s, I) = [k \in 1..n |-> s[a[k]]]
  BY <1>3 DEF At
<1>. HIDE DEF n, a
<1>5. At(s, I) \in [1..n -> T]
  BY <1>1, <1>3, <1>4
<1>6. At(s, I) \in Seq(T) /\ Len(At(s, I)) = n /\ DOMAIN At(s, I) = 1..n
  BY <1>3, <1>5, FunctionIsSeq
<1>7. ToSet(At(s, I)) = {s[i] : i \in I}
  <2>1. \A k \in 1..n : At(s, I)[k] = s[a[k]] /\ a[k] \in I
    BY <1>3, <1>4
  <2>2. \A i \in I : \E k \in 1..n : At(s, I)[k] = s[i]
    BY <1>3, <2>1
  <2>3. ToSet(At(s, I)) = {At(s, I)[k] : k \in 1..n}
    BY <1>6 DEF ToSet
  <2>. QED
    BY <2>1, <2>2, <2>3
<1>. QED
  BY <1>2, <1>3, <1>4, <1>6, <1>7 DEF n, a

\* Elements that stand once in s stand once in At(s, I).
LEMMA AtIsInjective ==
    ASSUME NEW T, NEW s \in Seq(T), NEW I \in SUBSET DOMAIN s,
           \A i, j \in I : s[i] = s[j] => i = j
    PROVE  IsInjective(At(s, I))
<1>1. DOMAIN s = 1..Len(s) /\ Len(s) \in Nat
  BY SeqIsFunction
<1>2. I \in SUBSET Nat /\ IsFiniteSet(I)
  BY <1>1, AtIs
<1>. DEFINE n == Cardinality(I)
            a == Ascending(I)
<1>3. /\ n \in Nat /\ a \in [1..n -> I]
      /\ \A i, j \in 1..n : i < j <=> a[i] < a[j]
  BY <1>2, AscendingIs
<1>4. DOMAIN At(s, I) = 1..n /\ \A k \in 1..n : At(s, I)[k] = s[a[k]]
  BY AtIs, <1>3 DEF At
<1>. HIDE DEF n, a
<1>5. \A i, j \in 1..n : a[i] = a[j] => i = j
  BY <1>2, <1>3
<1>6. \A i, j \in 1..n : At(s, I)[i] = At(s, I)[j] => i = j
  BY <1>3, <1>4, <1>5
<1>. QED
  BY <1>4, <1>6 DEF IsInjective

\* Filter keeps the elements in S, and none of them twice that stood once.
LEMMA FilterIs ==
    ASSUME NEW T, NEW s \in Seq(T), NEW S
    PROVE  /\ Filter(s, S) \in Seq(T) /\ Len(Filter(s, S)) \in 0..Len(s)
           /\ ToSet(Filter(s, S)) = ToSet(s) \cap S
           /\ IsInjective(s) => IsInjective(Filter(s, S))
<1>. DEFINE I == {i \in DOMAIN s : s[i] \in S}
<1>1. I \in SUBSET DOMAIN s
  OBVIOUS
<1>2. Filter(s, S) = At(s, I)
  BY DEF Filter
<1>3. /\ At(s, I) \in Seq(T) /\ Len(At(s, I)) \in 0..Len(s)
      /\ ToSet(At(s, I)) = {s[i] : i \in I}
  BY <1>1, AtIs
<1>4. {s[i] : i \in I} = ToSet(s) \cap S
  BY DEF ToSet
<1>5. IsInjective(s) => IsInjective(At(s, I))
  <2>1. IsInjective(s) => \A i, j \in I : s[i] = s[j] => i = j
    BY DEF IsInjective
  <2>. QED
    BY <1>1, <2>1, AtIsInjective
<1>. QED
  BY <1>2, <1>3, <1>4, <1>5

\* A set of numbers has a smallest.
LEMMA SmallestIs ==
    ASSUME NEW S \in SUBSET Nat, IsFiniteSet(S), S # {}
    PROVE  \E x \in S : \A y \in S : x <= y
<1>. DEFINE n == Cardinality(S)
            a == Ascending(S)
<1>1. n \in Nat /\ n # 0
  BY FS_CardinalityType, FS_EmptySet
<1>2. /\ a \in [1..n -> S]
      /\ \A i, j \in 1..n : i < j <=> a[i] < a[j]
      /\ \A x \in S : \E i \in 1..n : a[i] = x
  BY AscendingIs
<1>. HIDE DEF n, a
<1>3. ASSUME NEW i \in 1..n
      PROVE  a[1] <= a[i]
  <2>1. 1 \in 1..n /\ a[1] \in Nat /\ a[i] \in Nat
    <3>1. 1 \in 1..n
      BY <1>1
    <3>2. a[1] \in S /\ a[i] \in S
      BY <1>2, <3>1
    <3>. QED
      BY <3>1, <3>2
  <2>2. i = 1 \/ 1 < i
    BY <1>1
  <2>. QED
    BY <1>2, <2>1, <2>2
<1>4. a[1] \in S
  BY <1>1, <1>2
<1>. QED
  BY <1>2, <1>3, <1>4

\* What stands in s stands for the first time at a place that is not later.
LEMMA FirstsAre ==
    ASSUME NEW T, NEW s \in Seq(T), NEW p \in DOMAIN s
    PROVE  \E f \in Firsts(s) : f <= p /\ s[f] = s[p]
<1>. DEFINE S == {x \in 1..p : s[x] = s[p]}
<1>1. DOMAIN s = 1..Len(s) /\ Len(s) \in Nat /\ p \in Nat \ {0} /\ p <= Len(s)
  BY SeqIsFunction
<1>2. S \in SUBSET Nat /\ p \in S
  BY <1>1
<1>3. IsFiniteSet(S)
  <2>1. \A m \in Nat : IsFiniteSet(1..m)
    BY FS_Interval
  <2>2. IsFiniteSet(1..p) /\ S \in SUBSET (1..p)
    BY <1>1, <2>1
  <2>. QED
    BY <2>2, FS_Subset
<1>4. PICK f \in S : \A y \in S : f <= y
  <2>. HIDE DEF S
  <2>. QED
    BY <1>2, <1>3, SmallestIs
<1>5. \A j \in 1..(f - 1) : s[j] # s[f]
  BY <1>1, <1>4
<1>. QED
  BY <1>1, <1>4, <1>5 DEF Firsts

-----------------------------------------------------------------------------
(* Bounds *)

\* The smaller of two numbers.
LEMMA MinOfTwo ==
    ASSUME NEW x \in Int, NEW y \in Int
    PROVE  Min({x, y}) = IF x <= y THEN x ELSE y
BY DEF Min

\* The larger of two numbers.
LEMMA MaxOfTwo ==
    ASSUME NEW x \in Int, NEW y \in Int
    PROVE  Max({x, y}) = IF x >= y THEN x ELSE y
BY DEF Max
=============================================================================
