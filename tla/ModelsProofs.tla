---------------------------- MODULE ModelsProofs ----------------------------
(***************************************************************************)
(* What every generated model keeps, whatever the tables, the foreign keys  *)
(* and their order, the filters, the aliases, the declared relationships    *)
(* and the overrides: relations agree on both sides and name nothing that   *)
(* was dropped, keys identify rows, the catalog's order leaves no trace,    *)
(* and a cell reads back as itself or not at all.                           *)
(*                                                                         *)
(* The state of a run is a schema and what is computed from it, so most of  *)
(* this is about functions: the filters and sorts of Resolve by the length  *)
(* of a list, and the fold that adds one relation after the other by an     *)
(* invariant of its own, Consistent and Balanced.                           *)
(***************************************************************************)
EXTENDS Models, FiniteSetTheorems, SequenceTheorems, WellFoundedInduction, TLAPS

-----------------------------------------------------------------------------
(* Induction over the naturals, as facts about sets.                        *)

\* Every inhabited set of naturals has a least element.
LEMMA LeastNatural ==
  ASSUME NEW T, T \subseteq Nat, T # {}
  PROVE  \E n \in T : \A k \in T : n <= k
<1> DEFINE R == OpToRel(<, Nat)
<1>1. IsWellFoundedOn(R, Nat)
  BY NatLessThanWellFounded
<1>2. \A i, j \in Nat : i < j => <<i, j>> \in R
  BY DEF OpToRel
<1> HIDE DEF R
<1>3. PICK n \in T : \A k \in T : ~(<<k, n>> \in R)
  BY <1>1, WFMin, Zenon
<1>4. ASSUME NEW k \in T  PROVE n <= k
  <2>1. k \in Nat /\ n \in Nat /\ ~(<<k, n>> \in R)
    BY <1>3
  <2>2. ~(k < n)
    BY <1>2, <2>1
  <2>3. QED  BY <2>1, <2>2
<1>5. QED  BY <1>4

\* What holds of 0 and of each number after one it holds of holds up to N.
LEMMA Upwards ==
  ASSUME NEW N \in Nat, NEW T, 0 \in T,
         \A n \in 0..N : n < N /\ n \in T => n + 1 \in T
  PROVE  \A n \in 0..N : n \in T
<1> DEFINE Missing == {n \in 0..N : n \notin T}
<1>1. SUFFICES ASSUME Missing # {}  PROVE FALSE
  OBVIOUS
<1>2. Missing \subseteq Nat
  OBVIOUS
<1>3. PICK n \in Missing : \A k \in Missing : n <= k
  BY <1>1, <1>2, LeastNatural
<1>4. n \in 0..N /\ n \notin T /\ n # 0
  BY <1>3
<1>5. n - 1 \in 0..N /\ n - 1 < N /\ (n - 1) + 1 = n /\ ~(n <= n - 1)
  BY <1>4
<1>6. n - 1 \in T
  BY <1>3, <1>5
<1>7. QED  BY <1>4, <1>5, <1>6

-----------------------------------------------------------------------------
(* Filters.                                                                 *)

\* The steps of Subsequence.
IsFilter(f, s, I) ==
    /\ DOMAIN f = 0..Len(s)
    /\ f[0] = <<>>
    /\ \A n \in 1..Len(s) : f[n] = IF n \in I THEN Append(f[n - 1], s[n]) ELSE f[n - 1]

LEMMA SubsequenceUnfolds ==
  ASSUME NEW s, NEW I, Len(s) \in Nat
  PROVE  \E f : IsFilter(f, s, I) /\ Subsequence(s, I) = f[Len(s)]
<1> DEFINE N == Len(s)
           Step(f, n) == IF n = 0 THEN <<>>
                         ELSE IF n \in I THEN Append(f[n - 1], s[n]) ELSE f[n - 1]
           Runs(f, n) == f = [i \in 0..n |-> Step(f, i)]
           T == {n \in 0..N : \E f : Runs(f, n)}
<1>1. 0 \in T
  <2> DEFINE f == [i \in 0..0 |-> <<>>]
  <2>1. Runs(f, 0)
    OBVIOUS
  <2> HIDE DEF f, Runs
  <2>2. QED  BY <2>1
<1>2. ASSUME NEW n \in 0..N, n < N, n \in T  PROVE n + 1 \in T
  <2>1. PICK f : Runs(f, n)
    BY <1>2
  <2>a. \A i \in 0..n : f[i] = Step(f, i)
    BY <2>1
  <2> DEFINE g == [i \in 0..(n + 1) |-> IF i <= n THEN f[i] ELSE Step(f, i)]
  <2>2. ASSUME NEW i \in 0..(n + 1)  PROVE g[i] = Step(g, i)
    <3>1. CASE i = 0
      BY <3>1, <2>a
    <3>2. CASE i # 0
      <4>1. i - 1 \in 0..n /\ i - 1 <= n /\ i - 1 \in 0..(n + 1)
        BY <3>2
      <4>2. g[i - 1] = f[i - 1]
        BY <4>1
      <4>3. g[i] = Step(f, i)
        BY <2>a
      <4>4. QED  BY <3>2, <4>2, <4>3
    <3>3. QED  BY <3>1, <3>2
  <2>3. Runs(g, n + 1)
    BY <2>2
  <2>4. n + 1 \in 0..N
    BY <1>2
  <2> HIDE DEF g, Runs
  <2>5. QED  BY <2>3, <2>4
<1>3. PICK e : Runs(e, N)
  <2> HIDE DEF T
  <2>1. N \in 0..N
    OBVIOUS
  <2> HIDE DEF N
  <2>2. N \in T
    BY <1>1, <1>2, <2>1, Upwards
  <2>3. QED  BY <2>2 DEF T
<1> DEFINE g == CHOOSE h : h = [i \in 0..N |-> Step(h, i)]
<1>4. g = [i \in 0..N |-> Step(g, i)]
  BY <1>3
<1>5. Subsequence(s, I) = g[N]
  BY DEF Subsequence
<1> HIDE DEF g
<1>6. DOMAIN g = 0..N /\ \A n \in 0..N : g[n] = Step(g, n)
  BY <1>4
<1>7. g[0] = <<>>
  BY <1>6
<1>8. \A n \in 1..N : g[n] = IF n \in I THEN Append(g[n - 1], s[n]) ELSE g[n - 1]
  <2>1. SUFFICES ASSUME NEW n \in 1..N
                 PROVE  g[n] = IF n \in I THEN Append(g[n - 1], s[n]) ELSE g[n - 1]
    OBVIOUS
  <2>2. n \in 0..N /\ n # 0
    OBVIOUS
  <2>3. QED  BY <1>6, <2>2
<1>9. IsFilter(g, s, I)
  BY <1>6, <1>7, <1>8 DEF IsFilter
<1>10. QED  BY <1>5, <1>9

LEMMA RangeAppend ==
  ASSUME NEW S, NEW s \in Seq(S), NEW x \in S
  PROVE  Range(Append(s, x)) = Range(s) \cup {x}
<1> DEFINE t == Append(s, x)
<1>1. /\ Len(s) \in Nat /\ DOMAIN s = 1..Len(s) /\ DOMAIN t = 1..(Len(s) + 1)
      /\ \A i \in 1..Len(s) : t[i] = s[i]
      /\ t[Len(s) + 1] = x
  OBVIOUS
<1> HIDE DEF t
<1>2. ASSUME NEW y \in Range(t)  PROVE y \in Range(s) \cup {x}
  <2>1. PICK i \in 1..(Len(s) + 1) : y = t[i]
    BY <1>1, <1>2 DEF Range
  <2>2. i \in 1..Len(s) \/ i = Len(s) + 1
    BY <1>1
  <2>3. QED  BY <1>1, <2>1, <2>2 DEF Range
<1>3. ASSUME NEW y \in Range(s) \cup {x}  PROVE y \in Range(t)
  <2>1. CASE y = x
    <3>1. Len(s) + 1 \in DOMAIN t
      BY <1>1
    <3>2. QED  BY <1>1, <2>1, <3>1 DEF Range
  <2>2. CASE y \in Range(s)
    <3>1. PICK i \in 1..Len(s) : y = s[i]
      BY <1>1, <2>2 DEF Range
    <3>2. i \in DOMAIN t
      BY <1>1
    <3>3. QED  BY <1>1, <3>1, <3>2 DEF Range
  <2>3. QED  BY <1>3, <2>1, <2>2
<1>4. QED  BY <1>2, <1>3 DEF t

\* What is kept is what the index set names, in a sequence of its own.
LEMMA SubsequenceKeeps ==
  ASSUME NEW S, NEW s \in Seq(S), NEW I
  PROVE  /\ Subsequence(s, I) \in Seq(S)
         /\ Range(Subsequence(s, I)) = {s[i] : i \in (1..Len(s)) \cap I}
<1> DEFINE N == Len(s)
<1>1. N \in Nat /\ DOMAIN s = 1..N /\ \A i \in 1..N : s[i] \in S
  OBVIOUS
<1>2. PICK f : IsFilter(f, s, I) /\ Subsequence(s, I) = f[N]
  BY <1>1, SubsequenceUnfolds
<1> DEFINE T == {n \in 0..N : f[n] \in Seq(S) /\ Range(f[n]) = {s[i] : i \in (1..n) \cap I}}
<1>3. 0 \in T
  <2>1. f[0] = <<>>
    BY <1>2 DEF IsFilter
  <2>2. Range(<<>>) = {}
    BY DEF Range
  <2>3. {s[i] : i \in (1..0) \cap I} = {}
    OBVIOUS
  <2>4. <<>> \in Seq(S)
    OBVIOUS
  <2>5. 0 \in 0..N
    BY <1>1
  <2>6. QED  BY <2>1, <2>2, <2>3, <2>4, <2>5
<1>4. ASSUME NEW n \in 0..N, n < N, n \in T  PROVE n + 1 \in T
  <2>1. n + 1 \in 1..N /\ (n + 1) - 1 = n /\ 1..(n + 1) = (1..n) \cup {n + 1}
    BY <1>4, <1>1
  <2>2. f[n + 1] = IF n + 1 \in I THEN Append(f[n], s[n + 1]) ELSE f[n]
    BY <1>2, <2>1 DEF IsFilter
  <2>3. f[n] \in Seq(S) /\ Range(f[n]) = {s[i] : i \in (1..n) \cap I}
    BY <1>4
  <2>4. s[n + 1] \in S
    BY <1>1, <2>1
  <2>5. CASE n + 1 \in I
    <3>1. Append(f[n], s[n + 1]) \in Seq(S)
      BY <2>3, <2>4
    <3>2. Range(Append(f[n], s[n + 1])) = Range(f[n]) \cup {s[n + 1]}
      BY <2>3, <2>4, RangeAppend
    <3>3. {s[i] : i \in (1..(n + 1)) \cap I} = {s[i] : i \in (1..n) \cap I} \cup {s[n + 1]}
      BY <2>1, <2>5
    <3>4. /\ f[n + 1] \in Seq(S) /\ n + 1 \in 0..N
          /\ Range(f[n + 1]) = {s[i] : i \in (1..(n + 1)) \cap I}
      BY <2>1, <2>2, <2>3, <2>5, <3>1, <3>2, <3>3
    <3>5. QED  BY <3>4
  <2>6. CASE n + 1 \notin I
    <3>1. {s[i] : i \in (1..(n + 1)) \cap I} = {s[i] : i \in (1..n) \cap I}
      BY <2>1, <2>6
    <3>2. QED  BY <2>1, <2>2, <2>3, <2>6, <3>1, <1>4
  <2>7. QED  BY <2>5, <2>6
<1>5. N \in T
  <2> HIDE DEF T, N
  <2>1. QED  BY <1>1, <1>3, <1>4, Upwards
<1>6. QED  BY <1>2, <1>5

\* A filter nothing fails changes nothing.
LEMMA SubsequenceWhole ==
  ASSUME NEW S, NEW s \in Seq(S), NEW I, 1..Len(s) \subseteq I
  PROVE  Subsequence(s, I) = s
<1> DEFINE N == Len(s)
<1>1. N \in Nat /\ DOMAIN s = 1..N /\ \A i \in 1..N : s[i] \in S
  OBVIOUS
<1>2. PICK f : IsFilter(f, s, I) /\ Subsequence(s, I) = f[N]
  BY <1>1, SubsequenceUnfolds
<1> DEFINE T == {n \in 0..N : f[n] = [i \in 1..n |-> s[i]]}
<1>3. 0 \in T
  BY <1>1, <1>2 DEF IsFilter
<1>4. ASSUME NEW n \in 0..N, n < N, n \in T  PROVE n + 1 \in T
  <2>1. n + 1 \in 1..N /\ (n + 1) - 1 = n
    BY <1>4, <1>1
  <2>2. f[n + 1] = Append(f[n], s[n + 1])
    BY <1>2, <2>1 DEF IsFilter
  <2>3. f[n] = [i \in 1..n |-> s[i]]
    BY <1>4
  <2>4. f[n] \in Seq(S) /\ Len(f[n]) = n
    BY <1>1, <2>1, <2>3
  <2>5. Append(f[n], s[n + 1]) = [i \in 1..(n + 1) |-> s[i]]
    BY <1>1, <2>1, <2>3, <2>4
  <2>6. QED  BY <2>1, <2>2, <2>5
<1>5. N \in T
  <2> HIDE DEF T, N
  <2>1. QED  BY <1>1, <1>3, <1>4, Upwards
<1>6. f[N] = [i \in 1..N |-> s[i]]
  BY <1>5
<1>7. QED  BY <1>1, <1>2, <1>6

-----------------------------------------------------------------------------
(* Sorts.                                                                   *)

Precedes(less, j, i) == <<j, i>> \in less \/ (<<i, j>> \notin less /\ j < i)
Place(s, less, i)    == 1 + Cardinality({j \in DOMAIN s : Precedes(less, j, i)})
Taken1(s, less, n)   == s[CHOOSE i \in DOMAIN s : Place(s, less, i) = n]

\* The order is that of a comparison: strict, and what lies between two
\* elements that differ differs from one of them.
IsOrder(less, D) ==
    /\ \A i, j \in D : <<i, j>> \in less => <<j, i>> \notin less
    /\ \A i, j, k \in D : <<i, k>> \in less => <<i, j>> \in less \/ <<j, k>> \in less

LEMMA SortedIs ==
  ASSUME NEW s, NEW less, Len(s) \in Nat
  PROVE  Sorted(s, less) = [n \in 1..Len(s) |-> Taken1(s, less, n)]
<1> DEFINE N == Len(s)
           W == {Taken1(s, less, n) : n \in 1..N}
           Step(f, n) == IF n = 0 THEN <<>> ELSE Append(f[n - 1], Taken1(s, less, n))
           Made(n) == [i \in 1..n |-> Taken1(s, less, i)]
           made == [n \in 0..N |-> Made(n)]
<1>1. \A n \in 0..N : Made(n) \in Seq(W) /\ Len(Made(n)) = n
  OBVIOUS
<1>2. ASSUME NEW n \in 0..N  PROVE Made(n) = Step(made, n)
  <2>1. CASE n = 0
    BY <2>1
  <2>2. CASE n # 0
    <3>1. n - 1 \in 0..N /\ (n - 1) + 1 = n /\ n \in 1..N
      BY <2>2
    <3>2. Made(n - 1) \in Seq(W) /\ Len(Made(n - 1)) = n - 1
      BY <3>1, <1>1
    <3>3. Append(Made(n - 1), Taken1(s, less, n)) = Made(n)
      BY <3>1, <3>2
    <3>4. made[n - 1] = Made(n - 1)
      BY <3>1
    <3>5. QED  BY <2>2, <3>3, <3>4
  <2>3. QED  BY <2>1, <2>2
<1>3. made = [n \in 0..N |-> Step(made, n)]
  BY <1>2
<1> DEFINE g == CHOOSE h : h = [n \in 0..N |-> Step(h, n)]
<1>4. g = [n \in 0..N |-> Step(g, n)]
  <2> HIDE DEF made
  <2>1. QED  BY <1>3
<1>5. Sorted(s, less) = g[N]
  BY DEF Sorted, Taken1, Place, Precedes
<1> HIDE DEF g
<1> DEFINE T == {n \in 0..N : g[n] = Made(n)}
<1>6. \A n \in 0..N : g[n] = Step(g, n)
  BY <1>4
<1>7. 0 \in T
  <2>1. 0 \in 0..N
    OBVIOUS
  <2>2. g[0] = <<>> /\ Made(0) = <<>>
    BY <1>6, <2>1
  <2>3. QED  BY <2>1, <2>2
<1>8. ASSUME NEW n \in 0..N, n < N, n \in T  PROVE n + 1 \in T
  <2>1. n + 1 \in 0..N /\ n + 1 # 0 /\ (n + 1) - 1 = n /\ n + 1 \in 1..N
    BY <1>8
  <2>2. g[n + 1] = Append(g[n], Taken1(s, less, n + 1))
    BY <1>6, <2>1
  <2>3. g[n] = Made(n)
    BY <1>8
  <2>4. made[n] = Made(n) /\ Made(n + 1) = Step(made, n + 1)
    BY <2>1, <1>2
  <2>5. Made(n + 1) = Append(Made(n), Taken1(s, less, n + 1))
    BY <2>1, <2>4
  <2>6. QED  BY <2>1, <2>2, <2>3, <2>5
<1>9. N \in T
  <2>1. N \in 0..N
    OBVIOUS
  <2> HIDE DEF T, N
  <2>2. QED  BY <1>7, <1>8, <2>1, Upwards
<1>10. QED  BY <1>5, <1>9

LEMMA PrecedesIsTotal ==
  ASSUME NEW D, D \subseteq Nat, NEW less, IsOrder(less, D)
  PROVE  /\ \A i \in D : ~Precedes(less, i, i)
         /\ \A i, j \in D : i # j => Precedes(less, i, j) \/ Precedes(less, j, i)
         /\ \A i, j, k \in D : Precedes(less, i, j) /\ Precedes(less, j, k) => Precedes(less, i, k)
<1>1. \A i \in D : i \in Nat
  OBVIOUS
<1>2. \A i \in D : ~Precedes(less, i, i)
  BY <1>1 DEF IsOrder, Precedes
<1>3. ASSUME NEW i \in D, NEW j \in D, i # j
      PROVE  Precedes(less, i, j) \/ Precedes(less, j, i)
  <2>1. i < j \/ j < i
    BY <1>1, <1>3
  <2>2. QED  BY <2>1 DEF Precedes
<1>4. ASSUME NEW i \in D, NEW j \in D, NEW k \in D,
             Precedes(less, i, j), Precedes(less, j, k)
      PROVE  Precedes(less, i, k)
  <2>1. i \in Nat /\ j \in Nat /\ k \in Nat
    BY <1>1
  <2>2. CASE <<i, k>> \in less
    BY <2>2 DEF Precedes
  <2>3. CASE <<i, k>> \notin less
    <3>1. <<k, i>> \notin less
      BY <1>4, <2>3 DEF Precedes, IsOrder
    <3>2. <<i, j>> \notin less /\ <<j, k>> \notin less
      BY <1>4, <2>3, <3>1 DEF Precedes, IsOrder
    <3>3. i < j /\ j < k
      BY <1>4, <3>2 DEF Precedes
    <3>4. QED  BY <2>1, <3>1, <3>3 DEF Precedes
  <2>4. QED  BY <2>2, <2>3
<1>5. QED  BY <1>2, <1>3, <1>4

\* Under an order no two elements have the same place and every place is taken.
LEMMA Places ==
  ASSUME NEW S, NEW s \in Seq(S), NEW less, IsOrder(less, DOMAIN s)
  PROVE  /\ \A i \in DOMAIN s : Place(s, less, i) \in 1..Len(s)
         /\ \A i, k \in DOMAIN s : Place(s, less, i) = Place(s, less, k) => i = k
         /\ \A n \in 1..Len(s) : \E i \in DOMAIN s : Place(s, less, i) = n
<1> DEFINE D == DOMAIN s
           N == Len(s)
           Below(i) == {j \in D : Precedes(less, j, i)}
<1>1. N \in Nat /\ D = 1..N /\ D \subseteq Nat
  OBVIOUS
<1>2. IsFiniteSet(D) /\ Cardinality(D) = N
  BY <1>1, FS_Interval
<1>3. /\ \A i \in D : ~Precedes(less, i, i)
      /\ \A i, j \in D : i # j => Precedes(less, i, j) \/ Precedes(less, j, i)
      /\ \A i, j, k \in D : Precedes(less, i, j) /\ Precedes(less, j, k) => Precedes(less, i, k)
  BY <1>1, PrecedesIsTotal
<1>4. \A i \in D : Place(s, less, i) = 1 + Cardinality(Below(i))
  BY DEF Place
<1>5. \A i \in D : IsFiniteSet(Below(i)) /\ Cardinality(Below(i)) \in Nat
  BY <1>2, FS_Subset, FS_CardinalityType
<1> HIDE DEF D, N
<1>6. ASSUME NEW i \in D  PROVE Place(s, less, i) \in 1..N
  <2>1. Below(i) \subseteq D \ {i}
    BY <1>3
  <2>2. IsFiniteSet(D \ {i}) /\ Cardinality(D \ {i}) = N - 1
    BY <1>2, FS_RemoveElement
  <2>3. Cardinality(Below(i)) <= N - 1
    BY <2>1, <2>2, FS_Subset
  <2> HIDE DEF Below
  <2>4. QED  BY <1>1, <1>4, <1>5, <2>3
<1>7. ASSUME NEW i \in D, NEW k \in D, Precedes(less, i, k)
      PROVE  Place(s, less, i) < Place(s, less, k)
  <2>1. Below(i) \cup {i} \subseteq Below(k) /\ i \notin Below(i)
    BY <1>3, <1>7
  <2>2. /\ IsFiniteSet(Below(i) \cup {i})
        /\ Cardinality(Below(i) \cup {i}) = Cardinality(Below(i)) + 1
    BY <1>5, <2>1, FS_AddElement
  <2>3. Cardinality(Below(i) \cup {i}) <= Cardinality(Below(k))
    BY <1>5, <2>1, FS_Subset
  <2>4. Cardinality(Below(i)) \in Nat /\ Cardinality(Below(k)) \in Nat
    BY <1>5
  <2>5. QED  BY <1>4, <2>2, <2>3, <2>4
<1>8. ASSUME NEW i \in D, NEW k \in D, Place(s, less, i) = Place(s, less, k)  PROVE i = k
  <2>1. Place(s, less, i) \in Nat
    BY <1>1, <1>6
  <2>2. ~Precedes(less, i, k) /\ ~Precedes(less, k, i)
    BY <1>7, <1>8, <2>1
  <2>3. QED  BY <1>3, <2>2
<1> DEFINE place == [i \in D |-> Place(s, less, i)]
<1>9. place \in Injection(D, 1..N)
  BY <1>6, <1>8 DEF Injection, IsInjective
<1>10. IsFiniteSet(1..N) /\ Cardinality(1..N) = N
  BY <1>1, <1>2
<1>11. place \in Surjection(D, 1..N)
  BY <1>2, <1>9, <1>10, FS_Injection
<1>12. \A n \in 1..N : \E i \in D : place[i] = n
  BY <1>11 DEF Surjection
<1>13. QED  BY <1>6, <1>8, <1>12 DEF D, N

\* Sorting is a rearrangement.
LEMMA SortedPermutes ==
  ASSUME NEW S, NEW s \in Seq(S), NEW less, IsOrder(less, DOMAIN s)
  PROVE  /\ Sorted(s, less) \in Seq(S) /\ Len(Sorted(s, less)) = Len(s)
         /\ \E at \in Bijection(1..Len(s), 1..Len(s)) :
               \A n \in 1..Len(s) : Sorted(s, less)[n] = s[at[n]]
<1> DEFINE N == Len(s)
           At1(n) == CHOOSE i \in DOMAIN s : Place(s, less, i) = n
           at == [n \in 1..N |-> At1(n)]
<1>1. N \in Nat /\ DOMAIN s = 1..N /\ \A i \in 1..N : s[i] \in S
  OBVIOUS
<1>2. /\ \A i \in DOMAIN s : Place(s, less, i) \in 1..N
      /\ \A i, k \in DOMAIN s : Place(s, less, i) = Place(s, less, k) => i = k
      /\ \A n \in 1..N : \E i \in DOMAIN s : Place(s, less, i) = n
  BY Places
<1>3. \A n \in 1..N : At1(n) \in 1..N /\ Place(s, less, At1(n)) = n
  BY <1>1, <1>2
<1>4. Sorted(s, less) = [n \in 1..N |-> Taken1(s, less, n)]
  BY <1>1, SortedIs
<1>5. \A n \in 1..N : Taken1(s, less, n) = s[At1(n)]
  BY DEF Taken1
<1> HIDE DEF At1
<1>6. Sorted(s, less) = [n \in 1..N |-> s[At1(n)]]
  BY <1>4, <1>5
<1>7. Sorted(s, less) \in Seq(S) /\ Len(Sorted(s, less)) = N
  BY <1>1, <1>3, <1>6
<1>8. at \in [1..N -> 1..N]
  BY <1>3
<1>9. IsInjective(at)
  BY <1>3 DEF IsInjective
<1>10. \A m \in 1..N : \E n \in 1..N : at[n] = m
  <2>1. SUFFICES ASSUME NEW m \in 1..N  PROVE \E n \in 1..N : at[n] = m
    OBVIOUS
  <2>2. Place(s, less, m) \in 1..N
    BY <1>1, <1>2
  <2>3. Place(s, less, At1(Place(s, less, m))) = Place(s, less, m)
    BY <1>3, <2>2
  <2>4. At1(Place(s, less, m)) = m
    BY <1>1, <1>2, <1>3, <2>2, <2>3
  <2>5. QED  BY <2>2, <2>4
<1>11. at \in Bijection(1..N, 1..N)
  BY <1>8, <1>9, <1>10 DEF Bijection, Injection, Surjection
<1>12. \A n \in 1..N : Sorted(s, less)[n] = s[at[n]]
  BY <1>6
<1>13. QED  BY <1>7, <1>11, <1>12

-----------------------------------------------------------------------------
(* The order of names.                                                      *)

LEMMA AtIsInt == ASSUME NEW a, NEW i  PROVE At(a, i) \in Int
<1>1. Rank \in [DOMAIN Rank -> Nat]
  BY RankAssumption
<1>2. Lookup(Rank, a[i], 0) \in Nat
  BY <1>1 DEF Lookup
<1>3. QED  BY <1>2 DEF At

\* Strings compare strictly, and a third lies on one side of two that differ.
LEMMA NamesCompare ==
  /\ \A a, b : NameBefore(a, b) => ~NameBefore(b, a)
  /\ \A a, b, c : NameBefore(a, c) => NameBefore(a, b) \/ NameBefore(b, c)
<1>1. ASSUME NEW a, NEW b, NameBefore(a, b), NameBefore(b, a)  PROVE FALSE
  <2>1. PICK i \in 1..MaxWords :
           At(a, i) < At(b, i) /\ \A j \in 1..(i - 1) : At(a, j) = At(b, j)
    BY <1>1 DEF NameBefore
  <2>2. PICK k \in 1..MaxWords :
           At(b, k) < At(a, k) /\ \A j \in 1..(k - 1) : At(b, j) = At(a, j)
    BY <1>1 DEF NameBefore
  <2>3. /\ At(a, i) \in Int /\ At(b, i) \in Int
        /\ At(a, k) \in Int /\ At(b, k) \in Int
    BY AtIsInt
  <2>4. i = k \/ i \in 1..(k - 1) \/ k \in 1..(i - 1)
    BY DEF MaxWords
  <2>5. QED  BY <2>1, <2>2, <2>3, <2>4
<1>2. ASSUME NEW a, NEW b, NEW c, NameBefore(a, c)
      PROVE  NameBefore(a, b) \/ NameBefore(b, c)
  <2>1. PICK i \in 1..MaxWords :
           At(a, i) < At(c, i) /\ \A j \in 1..(i - 1) : At(a, j) = At(c, j)
    BY <1>2 DEF NameBefore
  <2> DEFINE Differ == {j \in 1..(i - 1) : At(a, j) # At(b, j)}
  <2>2. i \in Nat /\ 1..(i - 1) \subseteq 1..MaxWords
    BY DEF MaxWords
  <2>3. CASE Differ = {}
    <3>1. /\ \A j \in 1..(i - 1) : At(a, j) = At(b, j)
          /\ \A j \in 1..(i - 1) : At(b, j) = At(c, j)
      BY <2>1, <2>3
    <3>2. At(a, i) \in Int /\ At(b, i) \in Int /\ At(c, i) \in Int
      BY AtIsInt
    <3>3. At(a, i) < At(b, i) \/ At(b, i) < At(c, i)
      BY <2>1, <3>2
    <3>4. QED  BY <3>1, <3>3 DEF NameBefore
  <2>4. CASE Differ # {}
    <3>1. PICK d \in Differ : \A j \in Differ : d <= j
      <4>1. Differ \subseteq Nat
        BY <2>2
      <4>2. QED  BY <2>4, <4>1, LeastNatural
    <3>2. d \in 1..(i - 1) /\ d \in 1..MaxWords /\ At(a, d) # At(b, d)
      BY <2>2, <3>1
    <3>3. \A j \in 1..(d - 1) : j \in 1..(i - 1) /\ ~(d <= j)
      BY <2>2, <3>2
    <3>4. \A j \in 1..(d - 1) : At(a, j) = At(b, j) /\ At(b, j) = At(c, j)
      BY <2>1, <3>1, <3>3
    <3>5. At(a, d) = At(c, d) /\ At(a, d) \in Int /\ At(b, d) \in Int
      BY <2>1, <3>2, AtIsInt
    <3>6. At(a, d) < At(b, d) \/ At(b, d) < At(c, d)
      BY <3>2, <3>5
    <3>7. QED  BY <3>2, <3>4, <3>6 DEF NameBefore
  <2>5. QED  BY <2>3, <2>4
<1>3. QED  BY <1>1, <1>2

LEMMA BackReferencesCompare ==
  /\ \A g, h : HasManyBefore(g, h) => ~HasManyBefore(h, g)
  /\ \A g, h, k : HasManyBefore(g, k) => HasManyBefore(g, h) \/ HasManyBefore(h, k)
<1>1. ASSUME NEW g, NEW h, HasManyBefore(g, h), HasManyBefore(h, g)  PROVE FALSE
  BY <1>1, NamesCompare DEF HasManyBefore
<1>2. ASSUME NEW g, NEW h, NEW k, HasManyBefore(g, k),
             ~HasManyBefore(g, h), ~HasManyBefore(h, k)
      PROVE  FALSE
  <2>1. ~NameBefore(g.child, h.child) /\ ~NameBefore(h.child, k.child)
    BY <1>2 DEF HasManyBefore
  <2>2. ~NameBefore(g.child, k.child)
    BY <2>1, NamesCompare
  <2>3. ~NameBefore(k.child, g.child) /\ NameBefore(g.name, k.name)
    BY <1>2, <2>2 DEF HasManyBefore
  <2>4. ~NameBefore(h.child, g.child) /\ ~NameBefore(k.child, h.child)
    BY <2>1, <2>3, NamesCompare
  <2>5. ~NameBefore(g.name, h.name) /\ ~NameBefore(h.name, k.name)
    BY <1>2, <2>4 DEF HasManyBefore
  <2>6. QED  BY <2>3, <2>5, NamesCompare
<1>3. QED  BY <1>1, <1>2

\* The trailing sort of the back-references rearranges them.
LEMMA BackReferencesPermuted ==
  ASSUME NEW model, NEW S, model.has_many \in Seq(S), "has_many" \in DOMAIN model
  PROVE  LET s == model.has_many
             r == HasManySorted(model).has_many
         IN  /\ r \in Seq(S) /\ Len(r) = Len(s)
             /\ \E at \in Bijection(1..Len(s), 1..Len(s)) : \A n \in 1..Len(s) : r[n] = s[at[n]]
<1> DEFINE s == model.has_many
           D == DOMAIN s
           less == {p \in D \X D : HasManyBefore(s[p[1]], s[p[2]])}
<1>1. HasManySorted(model) = [model EXCEPT !.has_many = Sorted(s, less)]
  BY DEF HasManySorted
<1>2. HasManySorted(model).has_many = Sorted(s, less)
  BY <1>1
<1>3. IsOrder(less, D)
  <2>1. \A i, j \in D : <<i, j>> \in less <=> HasManyBefore(s[i], s[j])
    OBVIOUS
  <2> HIDE DEF less, D, s
  <2>2. QED  BY <2>1, BackReferencesCompare DEF IsOrder
<1> HIDE DEF less
<1>4. QED  BY <1>2, <1>3, SortedPermutes

-----------------------------------------------------------------------------
(* Lists: sequences of no set in particular.                                *)

IsList(s) == s \in Seq(Range(s))

LEMMA ListMade ==
  ASSUME NEW n \in Nat, NEW s, DOMAIN s = 1..n, s = [i \in 1..n |-> s[i]]
  PROVE  IsList(s) /\ Len(s) = n
<1>1. \A i \in 1..n : s[i] \in Range(s)
  BY DEF Range
<1>2. s \in [1..n -> Range(s)]
  BY <1>1
<1>3. QED  BY <1>2 DEF IsList

LEMMA ListOf == ASSUME NEW S, NEW s \in Seq(S)  PROVE IsList(s) /\ Range(s) \subseteq S
<1>1. Len(s) \in Nat /\ DOMAIN s = 1..Len(s) /\ s = [i \in 1..Len(s) |-> s[i]]
  OBVIOUS
<1>2. IsList(s)
  BY <1>1, ListMade
<1>3. QED  BY <1>1, <1>2 DEF Range

LEMMA ListAppend ==
  ASSUME NEW s, IsList(s), NEW x
  PROVE  LET t == Append(s, x)
         IN  /\ IsList(t) /\ Len(s) \in Nat /\ Len(t) = Len(s) + 1
             /\ DOMAIN s = 1..Len(s) /\ DOMAIN t = 1..(Len(s) + 1)
             /\ \A i \in 1..Len(s) : t[i] = s[i]
             /\ t[Len(s) + 1] = x
             /\ Range(t) = Range(s) \cup {x}
<1> DEFINE S == Range(s) \cup {x}
           t == Append(s, x)
<1>1. s \in Seq(S)
  BY DEF IsList
<1>2. /\ Len(s) \in Nat /\ DOMAIN s = 1..Len(s) /\ DOMAIN t = 1..(Len(s) + 1)
      /\ Len(t) = Len(s) + 1 /\ t \in Seq(S)
      /\ \A i \in 1..Len(s) : t[i] = s[i]
      /\ t[Len(s) + 1] = x
  BY <1>1
<1>3. Range(t) = Range(s) \cup {x}
  BY <1>1, RangeAppend
<1>4. IsList(t)
  BY <1>2, ListOf
<1>5. QED  BY <1>2, <1>3, <1>4

-----------------------------------------------------------------------------
(* The fold over the relations.                                             *)

\* The steps of Relate.
IsRelating(f, config_, start, specs) ==
    /\ DOMAIN f = 0..Len(specs)
    /\ f[0] = start
    /\ \A n \in 1..Len(specs) : f[n] = AddRelation(f[n - 1], config_, specs[n])

LEMMA RelateUnfolds ==
  ASSUME NEW c, NEW start, NEW specs, Len(specs) \in Nat
  PROVE  \E f : IsRelating(f, c, start, specs) /\ Relate(c, start, specs) = f[Len(specs)]
<1> DEFINE N == Len(specs)
           Step(f, n) == IF n = 0 THEN start ELSE AddRelation(f[n - 1], c, specs[n])
           Runs(f, n) == f = [i \in 0..n |-> Step(f, i)]
           T == {n \in 0..N : \E f : Runs(f, n)}
<1>1. 0 \in T
  <2> DEFINE f == [i \in 0..0 |-> start]
  <2>1. Runs(f, 0)
    OBVIOUS
  <2> HIDE DEF f, Runs
  <2>2. QED  BY <2>1
<1>2. ASSUME NEW n \in 0..N, n < N, n \in T  PROVE n + 1 \in T
  <2>1. PICK f : Runs(f, n)
    BY <1>2
  <2>a. \A i \in 0..n : f[i] = Step(f, i)
    BY <2>1
  <2> DEFINE g == [i \in 0..(n + 1) |-> IF i <= n THEN f[i] ELSE Step(f, i)]
  <2>2. ASSUME NEW i \in 0..(n + 1)  PROVE g[i] = Step(g, i)
    <3>1. CASE i = 0
      BY <3>1, <2>a
    <3>2. CASE i # 0
      <4>1. i - 1 \in 0..n /\ i - 1 <= n /\ i - 1 \in 0..(n + 1)
        BY <3>2
      <4>2. g[i - 1] = f[i - 1]
        BY <4>1
      <4>3. g[i] = Step(f, i)
        BY <2>a
      <4>4. QED  BY <3>2, <4>2, <4>3
    <3>3. QED  BY <3>1, <3>2
  <2>3. Runs(g, n + 1)
    BY <2>2
  <2>4. n + 1 \in 0..N
    BY <1>2
  <2> HIDE DEF g, Runs
  <2>5. QED  BY <2>3, <2>4
<1>3. PICK e : Runs(e, N)
  <2> HIDE DEF T
  <2>1. N \in 0..N
    OBVIOUS
  <2> HIDE DEF N
  <2>2. N \in T
    BY <1>1, <1>2, <2>1, Upwards
  <2>3. QED  BY <2>2 DEF T
<1> DEFINE g == CHOOSE h : h = [i \in 0..N |-> Step(h, i)]
<1>4. g = [i \in 0..N |-> Step(g, i)]
  BY <1>3
<1>5. Relate(c, start, specs) = g[N]
  BY DEF Relate
<1> HIDE DEF g
<1>6. DOMAIN g = 0..N /\ \A n \in 0..N : g[n] = Step(g, n)
  BY <1>4
<1>7. g[0] = start
  BY <1>6
<1>8. \A n \in 1..N : g[n] = AddRelation(g[n - 1], c, specs[n])
  <2>1. SUFFICES ASSUME NEW n \in 1..N
                 PROVE  g[n] = AddRelation(g[n - 1], c, specs[n])
    OBVIOUS
  <2>2. n \in 0..N /\ n # 0
    OBVIOUS
  <2>3. QED  BY <1>6, <2>2
<1>9. IsRelating(g, c, start, specs)
  BY <1>6, <1>7, <1>8 DEF IsRelating
<1>10. QED  BY <1>5, <1>9

-----------------------------------------------------------------------------
(* What one relation adds.                                                  *)

ModelFields == {"table", "marker", "row", "kind", "writable", "columns", "pk",
                "belongs_to", "has_many", "hooks"}
Base(c, child) == Either(Aliases(c, child).plural, child)

\* Nothing but these fields of this model differs.
OnlyIn(models, later, name, field) ==
    /\ DOMAIN later = DOMAIN models
    /\ \A t \in DOMAIN models : DOMAIN later[t] = DOMAIN models[t]
    /\ \A t \in DOMAIN models : \A f \in ModelFields :
          t # name \/ f # field => later[t][f] = models[t][f]

LEMMA BelongsToDoes ==
  ASSUME NEW models, NEW c, NEW spec, spec.child \in DOMAIN models,
         \A t \in DOMAIN models : DOMAIN models[t] = ModelFields
  PROVE  LET later == BelongsTo(models, c, spec)
         IN  /\ OnlyIn(models, later, spec.child, "belongs_to")
             /\ later[spec.child].belongs_to =
                  Append(models[spec.child].belongs_to,
                         [name |-> RelationName(c, spec), fk_column |-> spec.column,
                          target |-> spec.parent, ref_column |-> spec.ref])
<1> DEFINE new == [name |-> RelationName(c, spec), fk_column |-> spec.column,
                   target |-> spec.parent, ref_column |-> spec.ref]
           k == spec.child
           list == Append(models[k].belongs_to, new)
           later == BelongsTo(models, c, spec)
<1>1. later = [models EXCEPT ![k] = [models[k] EXCEPT !.belongs_to = list]]
  BY DEF BelongsTo
<1> HIDE DEF later, list
<1>2. /\ later[k] = [models[k] EXCEPT !.belongs_to = list]
      /\ DOMAIN later = DOMAIN models
      /\ \A t \in DOMAIN models : t # k => later[t] = models[t]
  BY <1>1
<1>3. DOMAIN models[k] = ModelFields
  OBVIOUS
<1>4. /\ later[k].belongs_to = list /\ DOMAIN later[k] = DOMAIN models[k]
      /\ \A f \in ModelFields : f # "belongs_to" => later[k][f] = models[k][f]
  BY <1>2, <1>3 DEF ModelFields
<1>5. OnlyIn(models, later, k, "belongs_to")
  BY <1>2, <1>4 DEF OnlyIn
<1>6. QED  BY <1>4, <1>5 DEF later, list

LEMMA HasManyDoes ==
  ASSUME NEW models, NEW c, NEW spec, spec.parent \in DOMAIN models,
         \A t \in DOMAIN models : DOMAIN models[t] = ModelFields,
         IsList(models[spec.parent].has_many),
         \A i \in DOMAIN models[spec.parent].has_many :
            "name" \in DOMAIN models[spec.parent].has_many[i]
  PROVE  LET later   == HasMany(models, c, spec)
             earlier == models[spec.parent].has_many
             hs      == later[spec.parent].has_many
             n       == Len(earlier)
             base    == Base(c, spec.child)
             clashes == \E h \in Range(earlier) : h.child = spec.child
         IN  /\ OnlyIn(models, later, spec.parent, "has_many")
             /\ n \in Nat /\ IsList(hs) /\ Len(hs) = n + 1
             /\ DOMAIN earlier = 1..n /\ DOMAIN hs = 1..(n + 1)
             /\ \A i \in 1..n :
                  /\ "name" \in DOMAIN hs[i]
                  /\ hs[i].child = earlier[i].child
                  /\ hs[i].child_fk = earlier[i].child_fk
                  /\ hs[i].parent_key = earlier[i].parent_key
                  /\ hs[i].name =
                       IF clashes /\ earlier[i].child = spec.child /\ earlier[i].name = base
                       THEN Via(base, NameOver(models[spec.child], earlier[i].child_fk))
                       ELSE earlier[i].name
             /\ "name" \in DOMAIN hs[n + 1]
             /\ hs[n + 1].child = spec.child
             /\ hs[n + 1].child_fk = spec.column
             /\ hs[n + 1].parent_key = spec.ref
             /\ hs[n + 1].name =
                  Renamed(c, spec.parent,
                          IF clashes THEN Via(base, RelationName(c, spec)) ELSE base)
<1> DEFINE p       == spec.parent
           earlier == models[p].has_many
           n       == Len(earlier)
           base    == Base(c, spec.child)
           clashes == \E h \in Range(earlier) : h.child = spec.child
           told(h) == clashes /\ h.child = spec.child /\ h.name = base
           apart(h) == IF told(h)
                       THEN [h EXCEPT !.name = Via(base, NameOver(models[spec.child], h.child_fk))]
                       ELSE h
           new == [name |-> Renamed(c, p, IF clashes THEN Via(base, RelationName(c, spec)) ELSE base),
                   child |-> spec.child, child_fk |-> spec.column, parent_key |-> spec.ref,
                   to_one |-> spec.to_one]
           named == [i \in DOMAIN earlier |-> apart(earlier[i])]
           list == Append(named, new)
           later == HasMany(models, c, spec)
<1>1. later = [models EXCEPT ![p] = [models[p] EXCEPT !.has_many = list]]
  BY DEF HasMany, Base
<1>2. n \in Nat /\ DOMAIN earlier = 1..n
  BY DEF IsList
<1>3. IsList(named) /\ Len(named) = n
  <2>1. DOMAIN named = 1..n /\ named = [i \in 1..n |-> named[i]]
    BY <1>2
  <2> HIDE DEF named, n
  <2>2. QED  BY <1>2, <2>1, ListMade
<1>4. \A i \in 1..n :
        /\ "name" \in DOMAIN named[i]
        /\ named[i].child = earlier[i].child
        /\ named[i].child_fk = earlier[i].child_fk
        /\ named[i].parent_key = earlier[i].parent_key
        /\ named[i].name = IF told(earlier[i])
                           THEN Via(base, NameOver(models[spec.child], earlier[i].child_fk))
                           ELSE earlier[i].name
  <2>1. SUFFICES ASSUME NEW i \in 1..n
                 PROVE  /\ "name" \in DOMAIN named[i]
                        /\ named[i].child = earlier[i].child
                        /\ named[i].child_fk = earlier[i].child_fk
                        /\ named[i].parent_key = earlier[i].parent_key
                        /\ named[i].name = IF told(earlier[i])
                             THEN Via(base, NameOver(models[spec.child], earlier[i].child_fk))
                             ELSE earlier[i].name
    OBVIOUS
  <2> DEFINE h == earlier[i]
             v == Via(base, NameOver(models[spec.child], earlier[i].child_fk))
  <2>2. named[i] = IF told(h) THEN [h EXCEPT !.name = v] ELSE h
    BY <1>2
  <2>3. "name" \in DOMAIN h
    BY <1>2
  <2> HIDE DEF h, v, named, told, n
  <2>4. /\ "name" \in DOMAIN named[i] /\ named[i].child = h.child
        /\ named[i].child_fk = h.child_fk /\ named[i].parent_key = h.parent_key
        /\ named[i].name = IF told(h) THEN v ELSE h.name
    <3>1. CASE told(h)
      <4>1. DOMAIN [h EXCEPT !.name = v] = DOMAIN h /\ [h EXCEPT !.name = v].name = v
        BY <2>3
      <4>2. /\ [h EXCEPT !.name = v].child = h.child
            /\ [h EXCEPT !.name = v].child_fk = h.child_fk
            /\ [h EXCEPT !.name = v].parent_key = h.parent_key
        OBVIOUS
      <4>3. QED  BY <2>2, <2>3, <3>1, <4>1, <4>2
    <3>2. CASE ~told(h)
      BY <2>2, <2>3, <3>2
    <3>3. QED  BY <3>1, <3>2
  <2>5. QED  BY <2>4 DEF h, v
<1>5. /\ "name" \in DOMAIN new /\ new.child = spec.child /\ new.child_fk = spec.column
      /\ new.parent_key = spec.ref
      /\ new.name = Renamed(c, p, IF clashes THEN Via(base, RelationName(c, spec)) ELSE base)
  OBVIOUS
<1> HIDE DEF named, new
<1>6. /\ IsList(list) /\ Len(list) = n + 1 /\ DOMAIN list = 1..(n + 1)
      /\ \A i \in 1..n : list[i] = named[i]
      /\ list[n + 1] = new
  <2> HIDE DEF n
  <2>1. QED  BY <1>3, ListAppend
<1> HIDE DEF later, list
<1>7. /\ later[p] = [models[p] EXCEPT !.has_many = list]
      /\ DOMAIN later = DOMAIN models
      /\ \A t \in DOMAIN models : t # p => later[t] = models[t]
  BY <1>1
<1>8. DOMAIN models[p] = ModelFields
  OBVIOUS
<1>9. /\ later[p].has_many = list /\ DOMAIN later[p] = DOMAIN models[p]
      /\ \A f \in ModelFields : f # "has_many" => later[p][f] = models[p][f]
  BY <1>7, <1>8 DEF ModelFields
<1>10. OnlyIn(models, later, p, "has_many")
  BY <1>7, <1>9 DEF OnlyIn
<1> HIDE DEF told, n, clashes, base
<1>11. /\ IsList(later[p].has_many) /\ Len(later[p].has_many) = n + 1
       /\ DOMAIN later[p].has_many = 1..(n + 1)
  BY <1>6, <1>9
<1>12. /\ \A i \in 1..n :
        /\ "name" \in DOMAIN later[p].has_many[i]
        /\ later[p].has_many[i].child = earlier[i].child
        /\ later[p].has_many[i].child_fk = earlier[i].child_fk
        /\ later[p].has_many[i].parent_key = earlier[i].parent_key
        /\ later[p].has_many[i].name = IF told(earlier[i])
                           THEN Via(base, NameOver(models[spec.child], earlier[i].child_fk))
                           ELSE earlier[i].name
       /\ later[p].has_many[n + 1] = new
  BY <1>4, <1>6, <1>9
<1>13. QED  BY <1>2, <1>5, <1>10, <1>11, <1>12 DEF later, n, base, told, clashes

-----------------------------------------------------------------------------
(* The inductive invariant of the fold.                                     *)

WellFormed(models, single) ==
    /\ DOMAIN models = DOMAIN single
    /\ \A t \in DOMAIN single :
         /\ DOMAIN models[t] = ModelFields
         /\ models[t].columns = single[t].columns
         /\ models[t].pk = single[t].pk
         /\ models[t].writable = single[t].writable
         /\ IsList(models[t].belongs_to)
         /\ IsList(models[t].has_many)
         /\ \A i \in DOMAIN models[t].has_many : "name" \in DOMAIN models[t].has_many[i]

EndsThere(models) ==
    \A t \in DOMAIN models :
      /\ \A b \in Range(models[t].belongs_to) :
            /\ b.fk_column \in ModelColumns(models[t])
            /\ b.target \in DOMAIN models
            /\ b.ref_column \in ModelColumns(models[b.target])
      /\ \A h \in Range(models[t].has_many) :
            /\ h.parent_key \in ModelColumns(models[t])
            /\ h.child \in DOMAIN models
            /\ h.child_fk \in ModelColumns(models[h.child])

Mirrored(models) ==
    \A t \in DOMAIN models : \A h \in Range(models[t].has_many) :
      \E b \in Range(models[h.child].belongs_to) :
         b.fk_column = h.child_fk /\ b.target = t /\ b.ref_column = h.parent_key

NamedApart(models, c, h) ==
    \E b \in Range(models[h.child].belongs_to) :
       /\ b.fk_column = h.child_fk
       /\ h.name = Via(Base(c, h.child), b.name)

\* What one back-reference of a child alone may be called is its plain name.
ToldApart(models, c) ==
    \A t \in DOMAIN models : Aliases(c, t).relationships = <<>> =>
      LET hs == models[t].has_many
      IN  \A j \in DOMAIN hs :
            /\ hs[j].name = Base(c, hs[j].child) \/ NamedApart(models, c, hs[j])
            /\ (\E i \in DOMAIN hs : i # j /\ hs[i].child = hs[j].child)
               => NamedApart(models, c, hs[j])

Consistent(models, single, c) ==
    /\ WellFormed(models, single)
    /\ EndsThere(models)
    /\ Mirrored(models)
    /\ ToldApart(models, c)

Balanced(models) ==
    \A t \in DOMAIN models : \A b :
      b.target \in DOMAIN models
      => Cardinality(Answering(models[b.target].has_many, t, b))
         = Cardinality(Answered(models[t].belongs_to, b))

LEMMA ColumnsStay ==
  ASSUME NEW models, NEW later, NEW name, NEW field, field # "columns",
         OnlyIn(models, later, name, field)
  PROVE  \A t \in DOMAIN models : ModelColumns(later[t]) = ModelColumns(models[t])
<1>1. \A t \in DOMAIN models : later[t]["columns"] = models[t]["columns"]
  BY DEF OnlyIn, ModelFields
<1>2. QED  BY <1>1 DEF ModelColumns

LEMMA BelongsToConsistent ==
  ASSUME NEW models, NEW single, NEW c, NEW spec, Consistent(models, single, c),
         EndsKept(models, spec)
  PROVE  LET later == BelongsTo(models, c, spec)
         IN  /\ Consistent(later, single, c)
             /\ OnlyIn(models, later, spec.child, "belongs_to")
             /\ \E b \in Range(later[spec.child].belongs_to) :
                  /\ b.name = RelationName(c, spec) /\ b.fk_column = spec.column
                  /\ b.target = spec.parent /\ b.ref_column = spec.ref
<1> DEFINE k == spec.child
           new == [name |-> RelationName(c, spec), fk_column |-> spec.column,
                   target |-> spec.parent, ref_column |-> spec.ref]
           later == BelongsTo(models, c, spec)
<1>1. /\ k \in DOMAIN models /\ spec.parent \in DOMAIN models
      /\ spec.column \in ModelColumns(models[k])
      /\ spec.ref \in ModelColumns(models[spec.parent])
  BY DEF EndsKept
<1>2. /\ WellFormed(models, single) /\ EndsThere(models) /\ Mirrored(models)
      /\ ToldApart(models, c)
  BY DEF Consistent
<1>3. \A t \in DOMAIN models : DOMAIN models[t] = ModelFields
  BY <1>2 DEF WellFormed
<1>4. /\ OnlyIn(models, later, k, "belongs_to")
      /\ later[k].belongs_to = Append(models[k].belongs_to, new)
  BY <1>1, <1>3, BelongsToDoes
<1>5. /\ new.name = RelationName(c, spec) /\ new.fk_column = spec.column
      /\ new.target = spec.parent /\ new.ref_column = spec.ref
  OBVIOUS
<1> HIDE DEF new, later, k
<1>6. \A t \in DOMAIN models : ModelColumns(later[t]) = ModelColumns(models[t])
  BY <1>4, ColumnsStay
<1>7. IsList(models[k].belongs_to)
  BY <1>1, <1>2 DEF WellFormed
<1>8. /\ IsList(later[k].belongs_to)
      /\ Range(later[k].belongs_to) = Range(models[k].belongs_to) \cup {new}
  BY <1>4, <1>7, ListAppend
<1>9. /\ DOMAIN later = DOMAIN models
      /\ \A t \in DOMAIN models :
           /\ DOMAIN later[t] = ModelFields
           /\ later[t].has_many = models[t].has_many
           /\ later[t].columns = models[t].columns
           /\ later[t].pk = models[t].pk
           /\ later[t].writable = models[t].writable
           /\ t # k => later[t].belongs_to = models[t].belongs_to
  BY <1>3, <1>4 DEF OnlyIn, ModelFields
<1>10. \A t \in DOMAIN models :
         /\ Range(models[t].belongs_to) \subseteq Range(later[t].belongs_to)
         /\ IsList(models[t].belongs_to) => IsList(later[t].belongs_to)
  BY <1>8, <1>9
<1>11. WellFormed(later, single)
  <2>1. DOMAIN later = DOMAIN single
    BY <1>2, <1>9 DEF WellFormed
  <2>2. ASSUME NEW t \in DOMAIN single
        PROVE  /\ DOMAIN later[t] = ModelFields
               /\ later[t].columns = single[t].columns
               /\ later[t].pk = single[t].pk
               /\ later[t].writable = single[t].writable
               /\ IsList(later[t].belongs_to)
               /\ IsList(later[t].has_many)
               /\ \A i \in DOMAIN later[t].has_many : "name" \in DOMAIN later[t].has_many[i]
    <3>1. t \in DOMAIN models
      BY <1>2 DEF WellFormed
    <3>2. /\ models[t].columns = single[t].columns
          /\ models[t].pk = single[t].pk
          /\ models[t].writable = single[t].writable
          /\ IsList(models[t].belongs_to)
          /\ IsList(models[t].has_many)
          /\ \A i \in DOMAIN models[t].has_many : "name" \in DOMAIN models[t].has_many[i]
      BY <1>2 DEF WellFormed
    <3>3. /\ DOMAIN later[t] = ModelFields
          /\ later[t].has_many = models[t].has_many
          /\ later[t].columns = models[t].columns
          /\ later[t].pk = models[t].pk
          /\ later[t].writable = models[t].writable
          /\ IsList(later[t].belongs_to)
      BY <1>9, <1>10, <3>1, <3>2
    <3>4. QED  BY <3>2, <3>3
  <2>3. QED  BY <2>1, <2>2 DEF WellFormed
<1>12. EndsThere(later)
  <2>1. ASSUME NEW t \in DOMAIN later, NEW b \in Range(later[t].belongs_to)
        PROVE  /\ b.fk_column \in ModelColumns(later[t])
               /\ b.target \in DOMAIN later
               /\ b.ref_column \in ModelColumns(later[b.target])
    <3>1. CASE b \in Range(models[t].belongs_to)
      BY <1>2, <1>6, <1>9, <2>1, <3>1 DEF EndsThere
    <3>2. CASE b \notin Range(models[t].belongs_to)
      <4>1. t = k /\ b = new
        BY <1>8, <1>9, <2>1, <3>2
      <4>2. QED  BY <1>1, <1>5, <1>6, <1>9, <4>1 DEF k
    <3>3. QED  BY <3>1, <3>2
  <2>2. ASSUME NEW t \in DOMAIN later, NEW h \in Range(later[t].has_many)
        PROVE  /\ h.parent_key \in ModelColumns(later[t])
               /\ h.child \in DOMAIN later
               /\ h.child_fk \in ModelColumns(later[h.child])
    BY <1>2, <1>6, <1>9, <2>2 DEF EndsThere
  <2>3. QED  BY <2>1, <2>2 DEF EndsThere
<1>13. \A t \in DOMAIN models : \A h \in Range(models[t].has_many) : h.child \in DOMAIN models
  BY <1>2 DEF EndsThere
<1>14. Mirrored(later)
  <2>1. SUFFICES ASSUME NEW t \in DOMAIN later, NEW h \in Range(later[t].has_many)
                 PROVE  \E b \in Range(later[h.child].belongs_to) :
                           b.fk_column = h.child_fk /\ b.target = t /\ b.ref_column = h.parent_key
    BY DEF Mirrored
  <2>2. t \in DOMAIN models /\ h \in Range(models[t].has_many)
    BY <1>9
  <2>3. PICK b \in Range(models[h.child].belongs_to) :
           b.fk_column = h.child_fk /\ b.target = t /\ b.ref_column = h.parent_key
    BY <1>2, <2>2 DEF Mirrored
  <2>4. h.child \in DOMAIN models
    BY <1>13, <2>2
  <2>5. b \in Range(later[h.child].belongs_to)
    BY <1>10, <2>4
  <2>6. QED  BY <2>3, <2>5
<1>15. ASSUME NEW h, h.child \in DOMAIN models, NamedApart(models, c, h)
       PROVE  NamedApart(later, c, h)
  <2>1. PICK b \in Range(models[h.child].belongs_to) :
           b.fk_column = h.child_fk /\ h.name = Via(Base(c, h.child), b.name)
    BY <1>15 DEF NamedApart
  <2>2. b \in Range(later[h.child].belongs_to)
    BY <1>10, <1>15
  <2>3. QED  BY <2>1, <2>2 DEF NamedApart
<1>16. ToldApart(later, c)
  <2>1. SUFFICES ASSUME NEW t \in DOMAIN later, Aliases(c, t).relationships = <<>>,
                        NEW j \in DOMAIN later[t].has_many
                 PROVE  LET hs == later[t].has_many
                        IN  /\ hs[j].name = Base(c, hs[j].child) \/ NamedApart(later, c, hs[j])
                            /\ (\E i \in DOMAIN hs : i # j /\ hs[i].child = hs[j].child)
                               => NamedApart(later, c, hs[j])
    BY DEF ToldApart
  <2> DEFINE hs == models[t].has_many
  <2>2. t \in DOMAIN models /\ later[t].has_many = hs /\ j \in DOMAIN hs
    BY <1>9, <2>1
  <2>3. /\ hs[j].name = Base(c, hs[j].child) \/ NamedApart(models, c, hs[j])
        /\ (\E i \in DOMAIN hs : i # j /\ hs[i].child = hs[j].child)
           => NamedApart(models, c, hs[j])
    BY <1>2, <2>1, <2>2 DEF ToldApart
  <2>4. hs[j].child \in DOMAIN models
    BY <1>13, <2>2 DEF Range
  <2>5. NamedApart(models, c, hs[j]) => NamedApart(later, c, hs[j])
    BY <1>15, <2>4
  <2> HIDE DEF hs
  <2>6. QED  BY <2>2, <2>3, <2>5
<1>17. Consistent(later, single, c)
  BY <1>11, <1>12, <1>14, <1>16 DEF Consistent
<1>18. new \in Range(later[k].belongs_to)
  BY <1>8
<1>19. QED  BY <1>4, <1>5, <1>17, <1>18 DEF later, k

\* Over a column with a belongs-to, the name of one of them.
LEMMA NameOverIs ==
  ASSUME NEW model, IsList(model.belongs_to), NEW column,
         \E b \in Range(model.belongs_to) : b.fk_column = column
  PROVE  \E b \in Range(model.belongs_to) :
            b.fk_column = column /\ NameOver(model, column) = b.name
<1> DEFINE bs   == model.belongs_to
           over == {i \in DOMAIN bs : bs[i].fk_column = column}
           n    == Len(bs)
           back == {n - i : i \in over}
<1>1. n \in Nat /\ DOMAIN bs = 1..n
  BY DEF IsList
<1>2. over # {} /\ over \subseteq 1..n
  BY <1>1 DEF Range
<1>3. back \subseteq Nat /\ back # {}
  <2>1. \A i \in over : n - i \in Nat
    BY <1>1, <1>2
  <2> HIDE DEF over, n
  <2>2. QED  BY <1>2, <2>1
<1>4. PICK k \in back : \A m \in back : k <= m
  BY <1>3, LeastNatural
<1>5. PICK i \in over : k = n - i
  BY <1>4
<1>6. \A j \in over : j <= i
  <2>1. SUFFICES ASSUME NEW j \in over  PROVE j <= i
    OBVIOUS
  <2>2. n - i <= n - j
    BY <1>4, <1>5
  <2>3. i \in Nat /\ j \in Nat
    BY <1>2
  <2>4. QED  BY <1>1, <2>2, <2>3
<1> HIDE DEF over
<1> DEFINE last == CHOOSE m \in over : \A j \in over : j <= m
<1>7. last \in over
  BY <1>6
<1>8. NameOver(model, column) = bs[last].name
  BY <1>2 DEF NameOver, over
<1> HIDE DEF last
<1>9. bs[last] \in Range(bs) /\ bs[last].fk_column = column
  BY <1>7 DEF over, Range
<1>10. QED  BY <1>8, <1>9

LEMMA HasManyConsistent ==
  ASSUME NEW models, NEW single, NEW c, NEW spec, Consistent(models, single, c),
         EndsKept(models, spec),
         \E b \in Range(models[spec.child].belongs_to) :
            /\ b.name = RelationName(c, spec) /\ b.fk_column = spec.column
            /\ b.target = spec.parent /\ b.ref_column = spec.ref
  PROVE  /\ Consistent(HasMany(models, c, spec), single, c)
         /\ OnlyIn(models, HasMany(models, c, spec), spec.parent, "has_many")
<1> DEFINE p       == spec.parent
           later   == HasMany(models, c, spec)
           earlier == models[p].has_many
           hs      == later[p].has_many
           n       == Len(earlier)
           base    == Base(c, spec.child)
           clashes == \E h \in Range(earlier) : h.child = spec.child
           told(h) == clashes /\ h.child = spec.child /\ h.name = base
<1>1. /\ spec.child \in DOMAIN models /\ p \in DOMAIN models
      /\ spec.column \in ModelColumns(models[spec.child])
      /\ spec.ref \in ModelColumns(models[p])
  BY DEF EndsKept
<1>2. /\ WellFormed(models, single) /\ EndsThere(models) /\ Mirrored(models)
      /\ ToldApart(models, c)
  BY DEF Consistent
<1>3. /\ \A t \in DOMAIN models : DOMAIN models[t] = ModelFields
      /\ IsList(earlier) /\ \A i \in DOMAIN earlier : "name" \in DOMAIN earlier[i]
  BY <1>1, <1>2 DEF WellFormed
<1>4. /\ OnlyIn(models, later, p, "has_many")
      /\ n \in Nat /\ IsList(hs) /\ Len(hs) = n + 1
      /\ DOMAIN earlier = 1..n /\ DOMAIN hs = 1..(n + 1)
      /\ \A i \in 1..n :
           /\ "name" \in DOMAIN hs[i]
           /\ hs[i].child = earlier[i].child
           /\ hs[i].child_fk = earlier[i].child_fk
           /\ hs[i].parent_key = earlier[i].parent_key
           /\ hs[i].name =
                IF told(earlier[i])
                THEN Via(base, NameOver(models[spec.child], earlier[i].child_fk))
                ELSE earlier[i].name
      /\ "name" \in DOMAIN hs[n + 1]
      /\ hs[n + 1].child = spec.child
      /\ hs[n + 1].child_fk = spec.column
      /\ hs[n + 1].parent_key = spec.ref
      /\ hs[n + 1].name = Renamed(c, p, IF clashes THEN Via(base, RelationName(c, spec)) ELSE base)
  BY <1>1, <1>3, HasManyDoes
<1> HIDE DEF later, n, told, base, p, clashes
<1>5. \A t \in DOMAIN models : ModelColumns(later[t]) = ModelColumns(models[t])
  BY <1>4, ColumnsStay
<1>6. /\ DOMAIN later = DOMAIN models
      /\ \A t \in DOMAIN models :
           /\ DOMAIN later[t] = ModelFields
           /\ later[t].belongs_to = models[t].belongs_to
           /\ later[t].columns = models[t].columns
           /\ later[t].pk = models[t].pk
           /\ later[t].writable = models[t].writable
           /\ t # p => later[t].has_many = models[t].has_many
  BY <1>3, <1>4 DEF OnlyIn, ModelFields
<1>7. \A i \in 1..(n + 1) : i \in 1..n \/ i = n + 1
  BY <1>4
<1>8. WellFormed(later, single)
  <2>1. DOMAIN later = DOMAIN single
    BY <1>2, <1>6 DEF WellFormed
  <2>2. ASSUME NEW t \in DOMAIN single
        PROVE  /\ DOMAIN later[t] = ModelFields
               /\ later[t].columns = single[t].columns
               /\ later[t].pk = single[t].pk
               /\ later[t].writable = single[t].writable
               /\ IsList(later[t].belongs_to)
               /\ IsList(later[t].has_many)
               /\ \A i \in DOMAIN later[t].has_many : "name" \in DOMAIN later[t].has_many[i]
    <3>1. t \in DOMAIN models
      BY <1>2 DEF WellFormed
    <3>2. /\ models[t].columns = single[t].columns
          /\ models[t].pk = single[t].pk
          /\ models[t].writable = single[t].writable
          /\ IsList(models[t].belongs_to)
          /\ IsList(models[t].has_many)
          /\ \A i \in DOMAIN models[t].has_many : "name" \in DOMAIN models[t].has_many[i]
      BY <1>2 DEF WellFormed
    <3>3. /\ DOMAIN later[t] = ModelFields
          /\ later[t].belongs_to = models[t].belongs_to
          /\ later[t].columns = models[t].columns
          /\ later[t].pk = models[t].pk
          /\ later[t].writable = models[t].writable
          /\ t # p => later[t].has_many = models[t].has_many
      BY <1>6, <3>1
    <3>4. t = p => IsList(later[t].has_many)
                   /\ \A i \in DOMAIN later[t].has_many : "name" \in DOMAIN later[t].has_many[i]
      BY <1>4, <1>7
    <3>5. QED  BY <3>2, <3>3, <3>4
  <2>3. QED  BY <2>1, <2>2 DEF WellFormed
\* A back-reference of the later models is an earlier one but for its name, or the new one.
<1>9. ASSUME NEW t \in DOMAIN models, NEW h \in Range(later[t].has_many)
      PROVE  \/ \E g \in Range(models[t].has_many) :
                  h.child = g.child /\ h.child_fk = g.child_fk /\ h.parent_key = g.parent_key
             \/ t = p /\ h.child = spec.child /\ h.child_fk = spec.column /\ h.parent_key = spec.ref
  <2>1. CASE t # p
    BY <1>6, <1>9, <2>1
  <2>2. CASE t = p
    <3>1. PICK i \in 1..(n + 1) : h = hs[i]
      BY <1>4, <1>9, <2>2 DEF Range
    <3>2. CASE i \in 1..n
      <4>1. earlier[i] \in Range(earlier)
        BY <1>4, <3>2 DEF Range
      <4>2. QED  BY <1>4, <2>2, <3>1, <3>2, <4>1
    <3>3. CASE i = n + 1
      BY <1>4, <2>2, <3>1, <3>3
    <3>4. QED  BY <1>7, <3>2, <3>3
  <2>3. QED  BY <2>1, <2>2
<1>10. EndsThere(later)
  <2>1. ASSUME NEW t \in DOMAIN later, NEW b \in Range(later[t].belongs_to)
        PROVE  /\ b.fk_column \in ModelColumns(later[t])
               /\ b.target \in DOMAIN later
               /\ b.ref_column \in ModelColumns(later[b.target])
    BY <1>2, <1>5, <1>6, <2>1 DEF EndsThere
  <2>2. ASSUME NEW t \in DOMAIN later, NEW h \in Range(later[t].has_many)
        PROVE  /\ h.parent_key \in ModelColumns(later[t])
               /\ h.child \in DOMAIN later
               /\ h.child_fk \in ModelColumns(later[h.child])
    <3>1. t \in DOMAIN models
      BY <1>6
    <3>2. CASE \E g \in Range(models[t].has_many) :
                  h.child = g.child /\ h.child_fk = g.child_fk /\ h.parent_key = g.parent_key
      <4>1. PICK g \in Range(models[t].has_many) :
                  h.child = g.child /\ h.child_fk = g.child_fk /\ h.parent_key = g.parent_key
        BY <3>2
      <4>2. /\ g.parent_key \in ModelColumns(models[t])
            /\ g.child \in DOMAIN models
            /\ g.child_fk \in ModelColumns(models[g.child])
        BY <1>2, <3>1, <4>1 DEF EndsThere
      <4>3. QED  BY <1>5, <1>6, <3>1, <4>1, <4>2
    <3>3. CASE t = p /\ h.child = spec.child /\ h.child_fk = spec.column /\ h.parent_key = spec.ref
      BY <1>1, <1>5, <1>6, <3>3
    <3>4. QED  BY <1>9, <2>2, <3>1, <3>2, <3>3
  <2>3. QED  BY <2>1, <2>2 DEF EndsThere
<1>11. Mirrored(later)
  <2>1. SUFFICES ASSUME NEW t \in DOMAIN later, NEW h \in Range(later[t].has_many)
                 PROVE  \E b \in Range(later[h.child].belongs_to) :
                           b.fk_column = h.child_fk /\ b.target = t /\ b.ref_column = h.parent_key
    BY DEF Mirrored
  <2>2. t \in DOMAIN models
    BY <1>6
  <2>3. CASE \E g \in Range(models[t].has_many) :
                h.child = g.child /\ h.child_fk = g.child_fk /\ h.parent_key = g.parent_key
    <3>1. PICK g \in Range(models[t].has_many) :
                h.child = g.child /\ h.child_fk = g.child_fk /\ h.parent_key = g.parent_key
      BY <2>3
    <3>2. g.child \in DOMAIN models
      BY <1>2, <2>2, <3>1 DEF EndsThere
    <3>3. \E b \in Range(models[g.child].belongs_to) :
             b.fk_column = g.child_fk /\ b.target = t /\ b.ref_column = g.parent_key
      BY <1>2, <2>2, <3>1 DEF Mirrored
    <3>4. later[g.child].belongs_to = models[g.child].belongs_to
      BY <1>6, <3>2
    <3>5. QED  BY <3>1, <3>3, <3>4
  <2>4. CASE t = p /\ h.child = spec.child /\ h.child_fk = spec.column /\ h.parent_key = spec.ref
    <3>1. later[spec.child].belongs_to = models[spec.child].belongs_to
      BY <1>1, <1>6
    <3>2. QED  BY <2>4, <3>1 DEF p
  <2>5. QED  BY <1>9, <2>2, <2>3, <2>4
<1>12. ASSUME NEW g, NEW h, h.child \in DOMAIN models,
              g.child = h.child, g.child_fk = h.child_fk, g.name = h.name,
              NamedApart(models, c, h)
       PROVE  NamedApart(later, c, g)
  <2>1. later[h.child].belongs_to = models[h.child].belongs_to
    BY <1>6, <1>12
  <2>2. QED  BY <1>12, <2>1 DEF NamedApart
<1>13. ASSUME Aliases(c, p).relationships = <<>>, NEW j \in 1..(n + 1)
       PROVE  /\ hs[j].name = Base(c, hs[j].child) \/ NamedApart(later, c, hs[j])
              /\ (\E i \in 1..(n + 1) : i # j /\ hs[i].child = hs[j].child)
                 => NamedApart(later, c, hs[j])
  <2>1. \A i \in 1..n : earlier[i] \in Range(earlier)
    BY <1>4 DEF Range
  <2>2. CASE j \in 1..n
    <3> DEFINE h == earlier[j]
               g == hs[j]
    <3>1. /\ g.child = h.child /\ g.child_fk = h.child_fk
          /\ g.name = IF told(h) THEN Via(base, NameOver(models[spec.child], h.child_fk)) ELSE h.name
      BY <1>4, <2>2
    <3>2. /\ h.name = Base(c, h.child) \/ NamedApart(models, c, h)
          /\ (\E i \in 1..n : i # j /\ earlier[i].child = h.child) => NamedApart(models, c, h)
      BY <1>1, <1>2, <1>4, <1>13, <2>2 DEF ToldApart, p
    <3>3. h \in Range(earlier) /\ h.child \in DOMAIN models
      BY <1>1, <1>2, <2>1, <2>2 DEF EndsThere
    <3> HIDE DEF g, h
    <3>4. CASE told(h)
      <4>1. h.child = spec.child
        BY <3>4 DEF told
      <4>2. \E b \in Range(models[spec.child].belongs_to) : b.fk_column = h.child_fk
        BY <1>1, <1>2, <3>3, <4>1 DEF Mirrored
      <4>3. IsList(models[spec.child].belongs_to)
        BY <1>1, <1>2 DEF WellFormed
      <4>4. PICK b \in Range(models[spec.child].belongs_to) :
               b.fk_column = h.child_fk /\ NameOver(models[spec.child], h.child_fk) = b.name
        BY <4>2, <4>3, NameOverIs
      <4>5. g.name = Via(base, b.name)
        BY <3>1, <3>4, <4>4
      <4>6. later[spec.child].belongs_to = models[spec.child].belongs_to
        BY <1>1, <1>6
      <4>7. NamedApart(later, c, g)
        BY <3>1, <4>1, <4>4, <4>5, <4>6 DEF NamedApart, base
      <4>8. QED  BY <4>7 DEF g
    <3>5. CASE ~told(h)
      <4>1. g.name = h.name
        BY <3>1, <3>5
      <4>2. NamedApart(models, c, h) => NamedApart(later, c, g)
        BY <1>12, <3>1, <3>3, <4>1
      <4>3. ASSUME NEW i \in 1..(n + 1), i # j, hs[i].child = g.child
            PROVE  NamedApart(models, c, h)
        <5>1. CASE i \in 1..n
          BY <1>4, <3>1, <3>2, <4>3, <5>1
        <5>2. CASE i = n + 1
          <6>1. spec.child = h.child
            BY <1>4, <3>1, <4>3, <5>2
          <6>2. clashes
            BY <3>3, <6>1 DEF clashes
          <6>3. h.name # Base(c, h.child)
            BY <3>5, <6>1, <6>2 DEF told, base
          <6>4. QED  BY <3>2, <6>3
        <5>3. QED  BY <1>7, <5>1, <5>2
      <4>4. g.name = Base(c, g.child) \/ NamedApart(later, c, g)
        BY <3>1, <3>2, <4>1, <4>2
      <4>5. QED  BY <4>2, <4>3, <4>4 DEF g
    <3>6. QED  BY <3>4, <3>5
  <2>3. CASE j = n + 1
    <3> DEFINE g == hs[n + 1]
    <3>1. \A name : Renamed(c, p, name) = name
      <4>1. DOMAIN <<>> = {}
        OBVIOUS
      <4>2. QED  BY <1>13, <4>1 DEF Renamed, Lookup
    <3>2. /\ g.child = spec.child /\ g.child_fk = spec.column
          /\ g.name = IF clashes THEN Via(base, RelationName(c, spec)) ELSE base
      BY <1>4, <3>1
    <3> HIDE DEF g
    <3>3. ASSUME clashes  PROVE NamedApart(later, c, g)
      <4>1. later[spec.child].belongs_to = models[spec.child].belongs_to
        BY <1>1, <1>6
      <4>2. g.name = Via(base, RelationName(c, spec))
        BY <3>2, <3>3
      <4>3. QED  BY <3>2, <4>1, <4>2 DEF NamedApart, base
    <3>4. ~clashes => g.name = Base(c, g.child)
      BY <3>2 DEF base
    <3>5. ASSUME NEW i \in 1..(n + 1), i # n + 1, hs[i].child = g.child  PROVE clashes
      <4>1. i \in 1..n
        BY <1>7, <3>5
      <4>2. earlier[i].child = spec.child
        BY <1>4, <3>2, <3>5, <4>1
      <4>3. QED  BY <2>1, <4>1, <4>2 DEF clashes
    <3>6. QED  BY <2>3, <3>3, <3>4, <3>5 DEF g
  <2>4. QED  BY <1>7, <2>2, <2>3
<1>14. ToldApart(later, c)
  <2>1. SUFFICES ASSUME NEW t \in DOMAIN later, Aliases(c, t).relationships = <<>>,
                        NEW j \in DOMAIN later[t].has_many
                 PROVE  LET ks == later[t].has_many
                        IN  /\ ks[j].name = Base(c, ks[j].child) \/ NamedApart(later, c, ks[j])
                            /\ (\E i \in DOMAIN ks : i # j /\ ks[i].child = ks[j].child)
                               => NamedApart(later, c, ks[j])
    BY DEF ToldApart
  <2>2. CASE t = p
    BY <1>4, <1>13, <2>1, <2>2
  <2>3. CASE t # p
    <3> DEFINE ks == models[t].has_many
    <3>1. t \in DOMAIN models /\ later[t].has_many = ks /\ j \in DOMAIN ks
      BY <1>6, <2>1, <2>3
    <3>2. /\ ks[j].name = Base(c, ks[j].child) \/ NamedApart(models, c, ks[j])
          /\ (\E i \in DOMAIN ks : i # j /\ ks[i].child = ks[j].child)
             => NamedApart(models, c, ks[j])
      BY <1>2, <2>1, <3>1 DEF ToldApart
    <3>3. ks[j].child \in DOMAIN models
      BY <1>2, <3>1 DEF EndsThere, Range
    <3>4. NamedApart(models, c, ks[j]) => NamedApart(later, c, ks[j])
      BY <1>12, <3>3
    <3> HIDE DEF ks
    <3>5. QED  BY <3>1, <3>2, <3>4
  <2>4. QED  BY <2>2, <2>3
<1>15. QED  BY <1>4, <1>8, <1>10, <1>11, <1>14 DEF Consistent, later, p

\* Both sides of the balance are counted alike.
LEMMA CountedOnce ==
  ASSUME NEW n \in Nat, NEW I, I \subseteq 1..n, NEW J, NEW q \in BOOLEAN,
         J = I \cup (IF q THEN {n + 1} ELSE {})
  PROVE  Cardinality(J) = Cardinality(I) + (IF q THEN 1 ELSE 0)
<1>1. IsFiniteSet(1..n)
  BY FS_Interval
<1>2. IsFiniteSet(I) /\ Cardinality(I) \in Nat
  BY <1>1, FS_Subset, FS_CardinalityType
<1>3. n + 1 \notin I
  OBVIOUS
<1>4. Cardinality(I \cup {n + 1}) = Cardinality(I) + 1
  BY <1>2, <1>3, FS_AddElement
<1>5. CASE q
  BY <1>4, <1>5
<1>6. CASE ~q
  <2>1. J = I
    BY <1>6
  <2>2. QED  BY <1>2, <1>6, <2>1
<1>7. QED  BY <1>5, <1>6

One(spec, t, p, b) ==
    IF /\ t = spec.child /\ p = spec.parent
       /\ b.fk_column = spec.column /\ b.ref_column = spec.ref THEN 1 ELSE 0

LEMMA BelongsToCounted ==
  ASSUME NEW models, NEW single, NEW c, NEW spec, Consistent(models, single, c),
         EndsKept(models, spec), NEW t \in DOMAIN models, NEW b
  PROVE  Cardinality(Answered(BelongsTo(models, c, spec)[t].belongs_to, b)) =
           Cardinality(Answered(models[t].belongs_to, b))
           + One(spec, t, b.target, b)
<1> DEFINE later == BelongsTo(models, c, spec)
           bs  == models[t].belongs_to
           cs  == later[t].belongs_to
           n   == Len(bs)
           new == [name |-> RelationName(c, spec), fk_column |-> spec.column,
                   target |-> spec.parent, ref_column |-> spec.ref]
           q   == /\ b.target = spec.parent
                  /\ b.fk_column = spec.column /\ b.ref_column = spec.ref
<1>1. /\ spec.child \in DOMAIN models
      /\ \A k \in DOMAIN models : DOMAIN models[k] = ModelFields
      /\ IsList(bs)
  BY DEF EndsKept, Consistent, WellFormed
<1>2. /\ OnlyIn(models, later, spec.child, "belongs_to")
      /\ t = spec.child => cs = Append(bs, new)
  BY <1>1, BelongsToDoes
<1>3. t # spec.child => cs = bs
  BY <1>1, <1>2 DEF OnlyIn, ModelFields
<1>4. n \in Nat /\ DOMAIN bs = 1..n
  BY <1>1 DEF IsList
<1>5. new.target = spec.parent /\ new.fk_column = spec.column /\ new.ref_column = spec.ref
  OBVIOUS
<1> HIDE DEF later, n, new, q
<1>6. Answered(bs, b) \subseteq 1..n
  BY <1>4 DEF Answered
<1>7. CASE t = spec.child
  <2>1. /\ DOMAIN cs = 1..(n + 1) /\ \A i \in 1..n : cs[i] = bs[i]
        /\ cs[n + 1] = new
    BY <1>1, <1>2, <1>7, ListAppend DEF n
  <2>2. \A i : i \in 1..(n + 1) <=> i \in 1..n \/ i = n + 1
    BY <1>4
  <2>3. q \in BOOLEAN
    BY DEF q
  <2>4. n + 1 \in Answered(cs, b) <=> q
    BY <1>5, <2>1, <2>2 DEF Answered, q
  <2>5. \A i \in 1..n : i \in Answered(cs, b) <=> i \in Answered(bs, b)
    BY <1>4, <2>1, <2>2 DEF Answered
  <2>6. Answered(cs, b) \subseteq 1..(n + 1)
    BY <2>1 DEF Answered
  <2> DEFINE I == Answered(bs, b)
             J == Answered(cs, b)
  <2> HIDE DEF I, J
  <2>7. J = I \cup (IF q THEN {n + 1} ELSE {})
    BY <1>6, <2>2, <2>4, <2>5, <2>6 DEF I, J
  <2>8. Cardinality(J) = Cardinality(I) + (IF q THEN 1 ELSE 0)
    BY <1>4, <1>6, <2>3, <2>7, CountedOnce DEF I
  <2>9. QED  BY <1>7, <2>8 DEF I, J, q, later, One
<1>8. CASE t # spec.child
  <2>1. IsFiniteSet(1..n)
    BY <1>4, FS_Interval
  <2>2. Cardinality(Answered(bs, b)) \in Nat
    BY <1>6, <2>1, FS_Subset, FS_CardinalityType
  <2>3. QED  BY <1>3, <1>8, <2>2 DEF later, One
<1>9. QED  BY <1>7, <1>8

LEMMA HasManyCounted ==
  ASSUME NEW models, NEW single, NEW c, NEW spec, Consistent(models, single, c),
         EndsKept(models, spec), NEW p \in DOMAIN models, NEW t, NEW b
  PROVE  Cardinality(Answering(HasMany(models, c, spec)[p].has_many, t, b)) =
           Cardinality(Answering(models[p].has_many, t, b))
           + One(spec, t, p, b)
<1> DEFINE later == HasMany(models, c, spec)
           hs  == models[p].has_many
           gs  == later[p].has_many
           n   == Len(hs)
           q   == /\ t = spec.child
                  /\ b.fk_column = spec.column /\ b.ref_column = spec.ref
<1>1. /\ spec.parent \in DOMAIN models
      /\ \A k \in DOMAIN models : DOMAIN models[k] = ModelFields
      /\ IsList(hs)
      /\ IsList(models[spec.parent].has_many)
      /\ \A i \in DOMAIN models[spec.parent].has_many :
            "name" \in DOMAIN models[spec.parent].has_many[i]
  BY DEF EndsKept, Consistent, WellFormed
<1>2. /\ OnlyIn(models, later, spec.parent, "has_many")
      /\ p = spec.parent =>
            /\ DOMAIN gs = 1..(n + 1)
            /\ \A i \in 1..n : /\ gs[i].child = hs[i].child
                               /\ gs[i].child_fk = hs[i].child_fk
                               /\ gs[i].parent_key = hs[i].parent_key
            /\ gs[n + 1].child = spec.child
            /\ gs[n + 1].child_fk = spec.column
            /\ gs[n + 1].parent_key = spec.ref
  <2> DEFINE ks == models[spec.parent].has_many
             ls == later[spec.parent].has_many
  <2>1. /\ OnlyIn(models, later, spec.parent, "has_many")
        /\ DOMAIN ls = 1..(Len(ks) + 1)
        /\ \A i \in 1..Len(ks) : /\ ls[i].child = ks[i].child
                                 /\ ls[i].child_fk = ks[i].child_fk
                                 /\ ls[i].parent_key = ks[i].parent_key
        /\ ls[Len(ks) + 1].child = spec.child
        /\ ls[Len(ks) + 1].child_fk = spec.column
        /\ ls[Len(ks) + 1].parent_key = spec.ref
    BY <1>1, HasManyDoes
  <2> HIDE DEF later
  <2>2. p = spec.parent => ks = hs /\ ls = gs /\ Len(ks) = n
    OBVIOUS
  <2> HIDE DEF ks, ls, hs, gs, n
  <2>3. QED  BY <2>1, <2>2
<1> HIDE DEF later, q
<1>3. p # spec.parent => gs = hs
  BY <1>1, <1>2 DEF OnlyIn, ModelFields
<1>4. n \in Nat /\ DOMAIN hs = 1..n
  BY <1>1 DEF IsList
<1> HIDE DEF n
<1>6. Answering(hs, t, b) \subseteq 1..n
  BY <1>4 DEF Answering
<1>7. CASE p = spec.parent
  <2>1. /\ DOMAIN gs = 1..(n + 1)
        /\ \A i \in 1..n : /\ gs[i].child = hs[i].child
                           /\ gs[i].child_fk = hs[i].child_fk
                           /\ gs[i].parent_key = hs[i].parent_key
        /\ gs[n + 1].child = spec.child
        /\ gs[n + 1].child_fk = spec.column
        /\ gs[n + 1].parent_key = spec.ref
    BY <1>2, <1>7
  <2>2. \A i : i \in 1..(n + 1) <=> i \in 1..n \/ i = n + 1
    BY <1>4
  <2>3. q \in BOOLEAN
    BY DEF q
  <2>4. n + 1 \in Answering(gs, t, b) <=> q
    BY <2>1, <2>2 DEF Answering, q
  <2>5. \A i \in 1..n : i \in Answering(gs, t, b) <=> i \in Answering(hs, t, b)
    BY <1>4, <2>1, <2>2 DEF Answering
  <2>6. Answering(gs, t, b) \subseteq 1..(n + 1)
    BY <2>1 DEF Answering
  <2> DEFINE I == Answering(hs, t, b)
             J == Answering(gs, t, b)
  <2> HIDE DEF I, J
  <2>7. J = I \cup (IF q THEN {n + 1} ELSE {})
    BY <1>6, <2>2, <2>4, <2>5, <2>6 DEF I, J
  <2>8. Cardinality(J) = Cardinality(I) + (IF q THEN 1 ELSE 0)
    BY <1>4, <1>6, <2>3, <2>7, CountedOnce DEF I
  <2>9. QED  BY <1>7, <2>8 DEF I, J, q, later, One
<1>8. CASE p # spec.parent
  <2>1. IsFiniteSet(1..n)
    BY <1>4, FS_Interval
  <2>2. Cardinality(Answering(hs, t, b)) \in Nat
    BY <1>6, <2>1, FS_Subset, FS_CardinalityType
  <2>3. QED  BY <1>3, <1>8, <2>2 DEF later, One
<1>9. QED  BY <1>7, <1>8

LEMMA RelationBalanced ==
  ASSUME NEW models, NEW single, NEW c, NEW spec, Consistent(models, single, c),
         EndsKept(models, spec), Balanced(models)
  PROVE  Balanced(HasMany(BelongsTo(models, c, spec), c, spec))
<1> DEFINE mid   == BelongsTo(models, c, spec)
           later == HasMany(mid, c, spec)
<1>1. /\ Consistent(mid, single, c)
      /\ OnlyIn(models, mid, spec.child, "belongs_to")
      /\ \E b \in Range(mid[spec.child].belongs_to) :
           /\ b.name = RelationName(c, spec) /\ b.fk_column = spec.column
           /\ b.target = spec.parent /\ b.ref_column = spec.ref
  BY BelongsToConsistent
<1>2. DOMAIN mid = DOMAIN models
  BY <1>1 DEF OnlyIn
<1>3. \A t \in DOMAIN models : ModelColumns(mid[t]) = ModelColumns(models[t])
  BY <1>1, ColumnsStay
<1>4. EndsKept(mid, spec)
  BY <1>2, <1>3 DEF EndsKept
<1>5. OnlyIn(mid, later, spec.parent, "has_many")
  BY <1>1, <1>4, HasManyConsistent
<1>6. DOMAIN later = DOMAIN models
  BY <1>2, <1>5 DEF OnlyIn
<1>7. /\ \A t \in DOMAIN models : mid[t].has_many = models[t].has_many
      /\ \A t \in DOMAIN models : later[t].belongs_to = mid[t].belongs_to
  BY <1>1, <1>2, <1>5 DEF OnlyIn, ModelFields
<1> HIDE DEF mid, later
<1>8. ASSUME NEW t \in DOMAIN models, NEW b, b.target \in DOMAIN models
      PROVE  Cardinality(Answering(later[b.target].has_many, t, b))
             = Cardinality(Answered(later[t].belongs_to, b))
  <2> DEFINE one == One(spec, t, b.target, b)
  <2>1. Cardinality(Answered(mid[t].belongs_to, b))
          = Cardinality(Answered(models[t].belongs_to, b)) + one
    BY BelongsToCounted DEF mid
  <2>2. Cardinality(Answering(later[b.target].has_many, t, b))
          = Cardinality(Answering(mid[b.target].has_many, t, b)) + one
    <3>1. b.target \in DOMAIN mid
      BY <1>2, <1>8
    <3> DEFINE p == b.target
    <3> HIDE DEF p
    <3>2. p \in DOMAIN mid
      BY <3>1 DEF p
    <3>3. Cardinality(Answering(HasMany(mid, c, spec)[p].has_many, t, b))
            = Cardinality(Answering(mid[p].has_many, t, b)) + One(spec, t, p, b)
      BY <1>1, <1>4, <3>2, HasManyCounted
    <3>4. QED  BY <3>3 DEF later, p
  <2>3. Cardinality(Answering(models[b.target].has_many, t, b))
          = Cardinality(Answered(models[t].belongs_to, b))
    BY <1>8 DEF Balanced
  <2> HIDE DEF one
  <2>4. QED  BY <1>7, <1>8, <2>1, <2>2, <2>3
<1>9. Balanced(later)
  BY <1>6, <1>8 DEF Balanced
<1>10. QED  BY <1>9 DEF later, mid

\* One relation keeps the invariant and takes no refusal back.
LEMMA AddRelationConsistent ==
  ASSUME NEW r, NEW single, NEW c, NEW spec,
         DOMAIN r = {"refusals", "models"}, Consistent(r.models, single, c)
  PROVE  LET later == AddRelation(r, c, spec)
         IN  /\ DOMAIN later = {"refusals", "models"}
             /\ r.refusals \subseteq later.refusals
             /\ Consistent(later.models, single, c)
             /\ ~c.no_back_referencing /\ ~spec.no_back_reference /\ Balanced(r.models)
                => Balanced(later.models)
<1> DEFINE later == AddRelation(r, c, spec)
           mid   == BelongsTo(r.models, c, spec)
           off   == c.no_back_referencing \/ spec.no_back_reference
<1>1. CASE ~EndsKept(r.models, spec)
  <2>1. later = [r EXCEPT !.refusals = @ \cup Where("declared end filtered", spec.declared)]
    BY <1>1 DEF AddRelation
  <2> HIDE DEF later
  <2>2. /\ DOMAIN later = {"refusals", "models"} /\ later.models = r.models
        /\ later.refusals = r.refusals \cup Where("declared end filtered", spec.declared)
    BY <2>1
  <2>3. QED  BY <2>2 DEF later
<1>2. CASE EndsKept(r.models, spec)
  <2>1. later = [r EXCEPT !.models = IF off THEN mid ELSE HasMany(mid, c, spec)]
    BY <1>2 DEF AddRelation
  <2> HIDE DEF later
  <2>2. /\ DOMAIN later = {"refusals", "models"} /\ later.refusals = r.refusals
        /\ later.models = IF off THEN mid ELSE HasMany(mid, c, spec)
    BY <2>1
  <2>3. /\ Consistent(mid, single, c)
        /\ OnlyIn(r.models, mid, spec.child, "belongs_to")
        /\ \E b \in Range(mid[spec.child].belongs_to) :
             /\ b.name = RelationName(c, spec) /\ b.fk_column = spec.column
             /\ b.target = spec.parent /\ b.ref_column = spec.ref
    BY <1>2, BelongsToConsistent
  <2>4. \A t \in DOMAIN r.models : ModelColumns(mid[t]) = ModelColumns(r.models[t])
    BY <2>3, ColumnsStay
  <2>5. EndsKept(mid, spec)
    BY <1>2, <2>3, <2>4 DEF EndsKept, OnlyIn
  <2>6. Consistent(HasMany(mid, c, spec), single, c)
    BY <2>3, <2>5, HasManyConsistent
  <2>7. ~off /\ Balanced(r.models) => Balanced(HasMany(mid, c, spec))
    BY <1>2, RelationBalanced
  <2> HIDE DEF mid
  <2>8. QED  BY <2>2, <2>3, <2>6, <2>7 DEF later
<1>3. QED  BY <1>1, <1>2

LEMMA RelateConsistent ==
  ASSUME NEW c, NEW start, NEW specs, Len(specs) \in Nat, NEW single,
         DOMAIN start = {"refusals", "models"}, Consistent(start.models, single, c)
  PROVE  LET later == Relate(c, start, specs)
         IN  /\ start.refusals \subseteq later.refusals
             /\ Consistent(later.models, single, c)
             /\ /\ ~c.no_back_referencing
                /\ \A i \in 1..Len(specs) : ~specs[i].no_back_reference
                /\ Balanced(start.models)
                => Balanced(later.models)
<1> DEFINE N   == Len(specs)
           all == /\ ~c.no_back_referencing
                  /\ \A i \in 1..Len(specs) : ~specs[i].no_back_reference
                  /\ Balanced(start.models)
<1>1. PICK f : IsRelating(f, c, start, specs) /\ Relate(c, start, specs) = f[N]
  BY RelateUnfolds
<1> DEFINE Good(r) == /\ DOMAIN r = {"refusals", "models"}
                      /\ start.refusals \subseteq r.refusals
                      /\ Consistent(r.models, single, c)
                      /\ all => Balanced(r.models)
           T == {n \in 0..N : Good(f[n])}
<1>2. 0 \in T
  <2>1. f[0] = start /\ 0 \in 0..N
    BY <1>1 DEF IsRelating
  <2>2. Good(start)
    OBVIOUS
  <2> HIDE DEF Good
  <2>3. QED  BY <2>1, <2>2
<1>3. ASSUME NEW n \in 0..N, n < N, n \in T  PROVE n + 1 \in T
  <2>1. n + 1 \in 1..N /\ (n + 1) - 1 = n /\ n + 1 \in 0..N
    BY <1>3
  <2>2. f[n + 1] = AddRelation(f[n], c, specs[n + 1])
    BY <1>1, <2>1 DEF IsRelating
  <2>3. Good(f[n])
    BY <1>3
  <2> DEFINE r == f[n]
             q == f[n + 1]
             spec == specs[n + 1]
  <2> HIDE DEF r, q, spec, all
  <2>4. Good(r) /\ q = AddRelation(r, c, spec)
    BY <2>2, <2>3 DEF r, q, spec
  <2>5. all => ~c.no_back_referencing /\ ~spec.no_back_reference
    BY <2>1 DEF all, spec
  <2>6. Consistent(r.models, single, c) /\ DOMAIN r = {"refusals", "models"}
    BY <2>4
  <2>7. /\ DOMAIN q = {"refusals", "models"}
        /\ r.refusals \subseteq q.refusals
        /\ Consistent(q.models, single, c)
        /\ ~c.no_back_referencing /\ ~spec.no_back_reference /\ Balanced(r.models)
           => Balanced(q.models)
    BY <2>4, <2>6, AddRelationConsistent
  <2>8. Good(q)
    BY <2>4, <2>5, <2>7
  <2> HIDE DEF Good
  <2>9. QED  BY <2>1, <2>8 DEF q
<1>4. N \in T
  <2>1. N \in Nat /\ N \in 0..N
    OBVIOUS
  <2> HIDE DEF T, N
  <2>2. \A n \in 0..N : n \in T
    BY <1>2, <1>3, <2>1, Upwards
  <2>3. QED  BY <2>1, <2>2
<1>5. Good(f[N])
  BY <1>4
<1> HIDE DEF N
<1>6. QED  BY <1>1, <1>5

-----------------------------------------------------------------------------
(* The trailing sort of the back-references.                                *)

\* t rearranges s.
Rearranges(t, s) ==
    /\ IsList(s) /\ IsList(t) /\ Len(t) = Len(s)
    /\ \E at \in Bijection(1..Len(s), 1..Len(s)) : \A n \in 1..Len(s) : t[n] = s[at[n]]

LEMMA RearrangedRange ==
  ASSUME NEW s, NEW t, Rearranges(t, s)
  PROVE  Range(t) = Range(s)
<1> DEFINE N == Len(s)
<1>1. /\ N \in Nat /\ DOMAIN s = 1..N /\ DOMAIN t = 1..N
  BY DEF Rearranges, IsList
<1>2. PICK at \in Bijection(1..N, 1..N) : \A n \in 1..N : t[n] = s[at[n]]
  BY DEF Rearranges
<1>3. /\ at \in [1..N -> 1..N]
      /\ \A m \in 1..N : \E n \in 1..N : at[n] = m
  BY <1>2 DEF Bijection, Injection, Surjection
<1> HIDE DEF N
<1>4. ASSUME NEW x \in Range(t)  PROVE x \in Range(s)
  <2>1. PICK n \in 1..N : x = t[n]
    BY <1>1, <1>4 DEF Range
  <2>2. x = s[at[n]] /\ at[n] \in 1..N
    BY <1>2, <1>3, <2>1
  <2>3. QED  BY <1>1, <2>2 DEF Range
<1>5. ASSUME NEW x \in Range(s)  PROVE x \in Range(t)
  <2>1. PICK m \in 1..N : x = s[m]
    BY <1>1, <1>5 DEF Range
  <2>2. PICK n \in 1..N : at[n] = m
    BY <1>3
  <2>3. x = t[n]
    BY <1>2, <2>1, <2>2
  <2>4. QED  BY <1>1, <2>3 DEF Range
<1>6. QED  BY <1>4, <1>5

LEMMA RearrangedCount ==
  ASSUME NEW s, NEW t, Rearranges(t, s), NEW child, NEW b
  PROVE  Cardinality(Answering(t, child, b)) = Cardinality(Answering(s, child, b))
<1> DEFINE N == Len(s)
           A == Answering(t, child, b)
           B == Answering(s, child, b)
<1>1. /\ N \in Nat /\ DOMAIN s = 1..N /\ DOMAIN t = 1..N
  BY DEF Rearranges, IsList
<1>2. PICK at \in Bijection(1..N, 1..N) : \A n \in 1..N : t[n] = s[at[n]]
  BY DEF Rearranges
<1>3. /\ at \in [1..N -> 1..N]
      /\ \A i, j \in 1..N : at[i] = at[j] => i = j
      /\ \A m \in 1..N : \E n \in 1..N : at[n] = m
  BY <1>2 DEF Bijection, Injection, IsInjective, Surjection
<1> HIDE DEF N
<1>4. \A n \in 1..N : n \in A <=> at[n] \in B
  BY <1>1, <1>2, <1>3 DEF Answering
<1>5. A \subseteq 1..N /\ B \subseteq 1..N
  BY <1>1 DEF Answering
<1> HIDE DEF A, B
<1> DEFINE f == [n \in A |-> at[n]]
<1>6. f \in [A -> B]
  BY <1>3, <1>4, <1>5
<1>7. f \in Injection(A, B)
  BY <1>3, <1>5, <1>6 DEF Injection, IsInjective
<1>8. \A m \in B : \E n \in A : f[n] = m
  BY <1>3, <1>4, <1>5
<1>9. f \in Bijection(A, B)
  BY <1>6, <1>7, <1>8 DEF Bijection, Surjection
<1>10. IsFiniteSet(A)
  <2>1. IsFiniteSet(1..N)
    BY <1>1, FS_Interval
  <2>2. QED  BY <1>5, <2>1, FS_Subset
<1>11. Cardinality(A) = Cardinality(B)
  BY <1>9, <1>10, FS_Bijection DEF ExistsBijection
<1>12. QED  BY <1>11 DEF A, B

LEMMA SortingConsistent ==
  ASSUME NEW models, NEW single, NEW c, Consistent(models, single, c)
  PROVE  LET later == [t \in DOMAIN models |-> HasManySorted(models[t])]
         IN  /\ Consistent(later, single, c)
             /\ Balanced(models) => Balanced(later)
<1> DEFINE later == [t \in DOMAIN models |-> HasManySorted(models[t])]
<1>1. /\ WellFormed(models, single) /\ EndsThere(models) /\ Mirrored(models)
      /\ ToldApart(models, c)
  BY DEF Consistent
<1>2. ASSUME NEW t \in DOMAIN models
      PROVE  /\ DOMAIN later[t] = ModelFields
             /\ later[t].belongs_to = models[t].belongs_to
             /\ later[t].columns = models[t].columns
             /\ later[t].pk = models[t].pk
             /\ later[t].writable = models[t].writable
             /\ Rearranges(later[t].has_many, models[t].has_many)
  <2> DEFINE m == models[t]
             s == m.has_many
             r == HasManySorted(m).has_many
  <2>1. later[t] = HasManySorted(m)
    OBVIOUS
  <2>2. DOMAIN m = ModelFields /\ IsList(s)
    BY <1>1, <1>2 DEF WellFormed
  <2> HIDE DEF m, later
  <2>3. /\ DOMAIN HasManySorted(m) = ModelFields
        /\ HasManySorted(m).belongs_to = m.belongs_to
        /\ HasManySorted(m).columns = m.columns
        /\ HasManySorted(m).pk = m.pk
        /\ HasManySorted(m).writable = m.writable
    BY <2>2 DEF HasManySorted
  <2>4. /\ r \in Seq(Range(s)) /\ Len(r) = Len(s)
        /\ \E at \in Bijection(1..Len(s), 1..Len(s)) : \A n \in 1..Len(s) : r[n] = s[at[n]]
    <3>1. s \in Seq(Range(s)) /\ "has_many" \in DOMAIN m
      BY <2>2 DEF IsList, ModelFields
    <3> DEFINE S == Range(s)
    <3> HIDE DEF S
    <3>2. s \in Seq(S)
      BY <3>1 DEF S
    <3>3. /\ r \in Seq(S) /\ Len(r) = Len(s)
          /\ \E at \in Bijection(1..Len(s), 1..Len(s)) : \A n \in 1..Len(s) : r[n] = s[at[n]]
      BY <3>1, <3>2, BackReferencesPermuted
    <3>4. QED  BY <3>3 DEF S
  <2>5. IsList(r)
    BY <2>4, ListOf
  <2>6. Rearranges(r, s)
    BY <2>2, <2>4, <2>5 DEF Rearranges
  <2>7. QED  BY <2>1, <2>3, <2>6 DEF m
<1>3. DOMAIN later = DOMAIN models
  OBVIOUS
<1> HIDE DEF later
<1>4. \A t \in DOMAIN models : Range(later[t].has_many) = Range(models[t].has_many)
  BY <1>2, RearrangedRange
<1>5. \A t \in DOMAIN models : ModelColumns(later[t]) = ModelColumns(models[t])
  BY <1>2 DEF ModelColumns
<1>6. WellFormed(later, single)
  <2>1. DOMAIN later = DOMAIN single
    BY <1>1, <1>3 DEF WellFormed
  <2>2. ASSUME NEW t \in DOMAIN single
        PROVE  /\ DOMAIN later[t] = ModelFields
               /\ later[t].columns = single[t].columns
               /\ later[t].pk = single[t].pk
               /\ later[t].writable = single[t].writable
               /\ IsList(later[t].belongs_to)
               /\ IsList(later[t].has_many)
               /\ \A i \in DOMAIN later[t].has_many : "name" \in DOMAIN later[t].has_many[i]
    <3> DEFINE s == models[t].has_many
               r == later[t].has_many
    <3>1. t \in DOMAIN models
      BY <1>1 DEF WellFormed
    <3>2. /\ models[t].columns = single[t].columns
          /\ models[t].pk = single[t].pk
          /\ models[t].writable = single[t].writable
          /\ IsList(models[t].belongs_to)
          /\ \A i \in DOMAIN s : "name" \in DOMAIN s[i]
      BY <1>1 DEF WellFormed
    <3>3. /\ DOMAIN later[t] = ModelFields
          /\ later[t].belongs_to = models[t].belongs_to
          /\ later[t].columns = models[t].columns
          /\ later[t].pk = models[t].pk
          /\ later[t].writable = models[t].writable
          /\ Rearranges(r, s)
      BY <1>2, <3>1
    <3>4. \A x \in Range(s) : "name" \in DOMAIN x
      BY <3>2 DEF Range
    <3>5. IsList(r) /\ \A i \in DOMAIN r : "name" \in DOMAIN r[i]
      <4>1. Range(r) = Range(s)
        BY <3>3, RearrangedRange
      <4> HIDE DEF r, s
      <4>2. \A i \in DOMAIN r : r[i] \in Range(r)
        BY DEF Range
      <4>3. QED  BY <3>3, <3>4, <4>1, <4>2 DEF Rearranges
    <3> HIDE DEF r, s
    <3>6. QED  BY <3>2, <3>3, <3>5 DEF r
  <2>3. QED  BY <2>1, <2>2 DEF WellFormed
<1>7. EndsThere(later)
  <2>1. ASSUME NEW t \in DOMAIN later, NEW b \in Range(later[t].belongs_to)
        PROVE  /\ b.fk_column \in ModelColumns(later[t])
               /\ b.target \in DOMAIN later
               /\ b.ref_column \in ModelColumns(later[b.target])
    <3>1. t \in DOMAIN models /\ b \in Range(models[t].belongs_to)
      BY <1>2, <1>3, <2>1
    <3>2. /\ b.fk_column \in ModelColumns(models[t])
          /\ b.target \in DOMAIN models
          /\ b.ref_column \in ModelColumns(models[b.target])
      BY <1>1, <3>1 DEF EndsThere
    <3>3. QED  BY <1>3, <1>5, <3>1, <3>2
  <2>2. ASSUME NEW t \in DOMAIN later, NEW h \in Range(later[t].has_many)
        PROVE  /\ h.parent_key \in ModelColumns(later[t])
               /\ h.child \in DOMAIN later
               /\ h.child_fk \in ModelColumns(later[h.child])
    <3>1. t \in DOMAIN models /\ h \in Range(models[t].has_many)
      BY <1>3, <1>4, <2>2
    <3>2. /\ h.parent_key \in ModelColumns(models[t])
          /\ h.child \in DOMAIN models
          /\ h.child_fk \in ModelColumns(models[h.child])
      BY <1>1, <3>1 DEF EndsThere
    <3>3. QED  BY <1>3, <1>5, <3>1, <3>2
  <2>3. QED  BY <2>1, <2>2 DEF EndsThere
<1>8. Mirrored(later)
  <2>1. SUFFICES ASSUME NEW t \in DOMAIN later, NEW h \in Range(later[t].has_many)
                 PROVE  \E b \in Range(later[h.child].belongs_to) :
                           b.fk_column = h.child_fk /\ b.target = t /\ b.ref_column = h.parent_key
    BY DEF Mirrored
  <2>2. t \in DOMAIN models /\ h \in Range(models[t].has_many)
    BY <1>3, <1>4
  <2>3. h.child \in DOMAIN models
    BY <1>1, <2>2 DEF EndsThere
  <2>4. later[h.child].belongs_to = models[h.child].belongs_to
    BY <1>2, <2>3
  <2>5. \E b \in Range(models[h.child].belongs_to) :
           b.fk_column = h.child_fk /\ b.target = t /\ b.ref_column = h.parent_key
    BY <1>1, <2>2 DEF Mirrored
  <2>6. QED  BY <2>4, <2>5
<1>9. ASSUME NEW h, h.child \in DOMAIN models, NamedApart(models, c, h)
      PROVE  NamedApart(later, c, h)
  <2>1. later[h.child].belongs_to = models[h.child].belongs_to
    BY <1>2, <1>9
  <2>2. QED  BY <1>9, <2>1 DEF NamedApart
<1>10. ToldApart(later, c)
  <2>1. SUFFICES ASSUME NEW t \in DOMAIN later, Aliases(c, t).relationships = <<>>,
                        NEW j \in DOMAIN later[t].has_many
                 PROVE  LET ks == later[t].has_many
                        IN  /\ ks[j].name = Base(c, ks[j].child) \/ NamedApart(later, c, ks[j])
                            /\ (\E i \in DOMAIN ks : i # j /\ ks[i].child = ks[j].child)
                               => NamedApart(later, c, ks[j])
    BY DEF ToldApart
  <2> DEFINE s == models[t].has_many
             r == later[t].has_many
             N == Len(s)
  <2>2. t \in DOMAIN models /\ Rearranges(r, s)
    BY <1>2, <1>3
  <2>3. /\ \A k \in DOMAIN s : s[k].name = Base(c, s[k].child) \/ NamedApart(models, c, s[k])
        /\ \A k, i \in DOMAIN s : i # k /\ s[i].child = s[k].child => NamedApart(models, c, s[k])
    BY <1>1, <2>1, <2>2 DEF ToldApart
  <2>4. \A k \in DOMAIN s : s[k].child \in DOMAIN models
    BY <1>1, <2>2 DEF EndsThere, Range
  <2>5. j \in DOMAIN r
    OBVIOUS
  <2> HIDE DEF s, r
  <2>6. \A k \in DOMAIN s : NamedApart(models, c, s[k]) => NamedApart(later, c, s[k])
    BY <1>9, <2>4
  <2>7. DOMAIN s = 1..N /\ DOMAIN r = 1..N
    BY <2>2 DEF Rearranges, IsList
  <2>8. PICK at \in Bijection(1..N, 1..N) : \A n \in 1..N : r[n] = s[at[n]]
    BY <2>2 DEF Rearranges
  <2>9. /\ at \in [1..N -> 1..N]
        /\ \A i, k \in 1..N : at[i] = at[k] => i = k
    BY <2>8 DEF Bijection, Injection, IsInjective
  <2>10. at[j] \in DOMAIN s /\ r[j] = s[at[j]]
    BY <2>5, <2>7, <2>8, <2>9
  <2>11. r[j].name = Base(c, r[j].child) \/ NamedApart(later, c, r[j])
    BY <2>3, <2>6, <2>10
  <2>12. ASSUME NEW i \in DOMAIN r, i # j, r[i].child = r[j].child
         PROVE  NamedApart(later, c, r[j])
    <3>1. at[i] \in DOMAIN s /\ r[i] = s[at[i]] /\ at[i] # at[j]
      BY <2>5, <2>7, <2>8, <2>9, <2>12
    <3>2. NamedApart(models, c, s[at[j]])
      BY <2>3, <2>10, <2>12, <3>1
    <3>3. QED  BY <2>6, <2>10, <3>2
  <2>13. QED  BY <2>11, <2>12 DEF r
<1>11. ASSUME Balanced(models)  PROVE Balanced(later)
  <2>1. SUFFICES ASSUME NEW t \in DOMAIN later, NEW b, b.target \in DOMAIN later
                 PROVE  Cardinality(Answering(later[b.target].has_many, t, b))
                        = Cardinality(Answered(later[t].belongs_to, b))
    BY DEF Balanced
  <2>2. t \in DOMAIN models /\ b.target \in DOMAIN models
    BY <1>3, <2>1
  <2>3. later[t].belongs_to = models[t].belongs_to
    BY <1>2, <2>2
  <2>4. Rearranges(later[b.target].has_many, models[b.target].has_many)
    BY <1>2, <2>2
  <2>5. Cardinality(Answering(later[b.target].has_many, t, b))
          = Cardinality(Answering(models[b.target].has_many, t, b))
    BY <2>4, RearrangedCount
  <2>6. QED  BY <1>11, <2>2, <2>3, <2>5 DEF Balanced
<1>12. QED  BY <1>6, <1>7, <1>8, <1>10, <1>11 DEF Consistent, later

-----------------------------------------------------------------------------
(* The relations to add.                                                    *)

LEMMA FlattenIsSeq ==
  ASSUME NEW S, NEW seqs \in Seq(Seq(S))
  PROVE  FlattenSeq(seqs) \in Seq(S)
<1> DEFINE N == Len(seqs)
           Step(f, n) == IF n = 1 THEN seqs[n] ELSE f[n - 1] \o seqs[n]
           Runs(f, n) == f = [i \in 1..n |-> Step(f, i)]
           T == {n \in 0..N : \E f : Runs(f, n)}
<1>1. N \in Nat /\ \A i \in 1..N : seqs[i] \in Seq(S)
  OBVIOUS
<1>2. CASE N = 0
  <2>1. FlattenSeq(seqs) = seqs /\ seqs = <<>>
    BY <1>2 DEF FlattenSeq
  <2>2. QED  BY <2>1
<1>3. CASE N # 0
  <2>1. 0 \in T
    <3> DEFINE f == [i \in 1..0 |-> seqs]
    <3>1. Runs(f, 0)
      OBVIOUS
    <3>2. 0 \in 0..N
      BY <1>1
    <3> HIDE DEF f, Runs, N
    <3>3. QED  BY <3>1, <3>2
  <2>2. ASSUME NEW n \in 0..N, n < N, n \in T  PROVE n + 1 \in T
    <3>1. PICK f : Runs(f, n)
      BY <2>2
    <3>2. \A i \in 1..n : f[i] = Step(f, i)
      BY <3>1
    <3> DEFINE g == [i \in 1..(n + 1) |-> IF i <= n THEN f[i] ELSE Step(f, i)]
    <3>3. ASSUME NEW i \in 1..(n + 1)  PROVE g[i] = Step(g, i)
      <4>1. CASE i = 1
        <5>1. g[i] = Step(f, i)
          BY <3>2, <4>1
        <5>2. QED  BY <4>1, <5>1
      <4>2. CASE i # 1
        <5>1. i - 1 \in 1..n /\ i - 1 <= n /\ i - 1 \in 1..(n + 1)
          BY <4>2
        <5>2. g[i - 1] = f[i - 1]
          BY <5>1
        <5>3. g[i] = Step(f, i)
          BY <3>2
        <5>4. QED  BY <4>2, <5>2, <5>3
      <4>3. QED  BY <4>1, <4>2
    <3>4. Runs(g, n + 1)
      BY <3>3
    <3>5. n + 1 \in 0..N
      BY <2>2
    <3> HIDE DEF g, Runs
    <3>6. QED  BY <3>4, <3>5
  <2>3. N \in T
    <3>1. N \in 0..N
      BY <1>1
    <3> HIDE DEF T, N
    <3>2. \A n \in 0..N : n \in T
      BY <1>1, <2>1, <2>2, Upwards
    <3>3. QED  BY <3>1, <3>2
  <2>4. \E e : Runs(e, N)
    BY <2>3
  <2> DEFINE g == CHOOSE h : h = [i \in 1..N |-> Step(h, i)]
  <2>5. g = [i \in 1..N |-> Step(g, i)]
    BY <2>4
  <2>6. FlattenSeq(seqs) = g[N]
    BY <1>3 DEF FlattenSeq
  <2> HIDE DEF g
  <2>7. \A i \in 1..N : g[i] = Step(g, i)
    BY <2>5
  <2> DEFINE U == {n \in 0..N : n = 0 \/ g[n] \in Seq(S)}
  <2>8. 0 \in U
    BY <1>1
  <2>9. ASSUME NEW n \in 0..N, n < N, n \in U  PROVE n + 1 \in U
    <3>1. n + 1 \in 1..N /\ n + 1 \in 0..N /\ (n + 1) - 1 = n
      BY <1>1, <2>9
    <3>2. g[n + 1] = IF n + 1 = 1 THEN seqs[n + 1] ELSE g[n] \o seqs[n + 1]
      BY <2>7, <3>1
    <3>3. seqs[n + 1] \in Seq(S)
      BY <1>1, <3>1
    <3>4. g[n + 1] \in Seq(S)
      <4>1. CASE n = 0
        BY <3>2, <3>3, <4>1
      <4>2. CASE n # 0
        <5>1. g[n] \in Seq(S) /\ n + 1 # 1
          BY <2>9, <4>2
        <5>2. QED  BY <3>2, <3>3, <5>1
      <4>3. QED  BY <4>1, <4>2
    <3>5. QED  BY <3>1, <3>4
  <2>10. N \in U
    <3>1. N \in 0..N
      BY <1>1
    <3> HIDE DEF U, N
    <3>2. \A n \in 0..N : n \in U
      BY <1>1, <2>8, <2>9, Upwards
    <3>3. QED  BY <3>1, <3>2
  <2>11. QED  BY <1>3, <2>6, <2>10
<1>4. QED  BY <1>2, <1>3

\* A relation of the catalog always has its back-reference.
LEMMA RelationSpecsAre ==
  ASSUME NEW S, NEW kept \in Seq(S), NEW c, IsList(c.relationships),
         \A t \in Range(kept) : IsList(t.foreign_keys)
  PROVE  LET specs == RelationSpecs(kept, c)
         IN  /\ Len(specs) \in Nat
             /\ (\A r \in Range(c.relationships) : ~r.no_back_reference)
                => \A i \in 1..Len(specs) : ~specs[i].no_back_reference
<1> DEFINE R == c.relationships
           One1 == UNION {{FromForeignKey(t, k) : k \in Range(KeysToRelate(t))} : t \in Range(kept)}
           Two1 == {FromDeclared(r) : r \in Range(R)}
           keys(t) == [j \in DOMAIN KeysToRelate(t) |-> FromForeignKey(t, KeysToRelate(t)[j])]
           lists == [i \in DOMAIN kept |-> keys(kept[i])]
           stated == [i \in DOMAIN R |-> FromDeclared(R[i])]
           specs == RelationSpecs(kept, c)
<1>1. \A t \in Range(kept) : IsList(KeysToRelate(t))
  <2>1. SUFFICES ASSUME NEW t \in Range(kept)  PROVE IsList(KeysToRelate(t))
    OBVIOUS
  <2>2. t.foreign_keys \in Seq(Range(t.foreign_keys))
    BY DEF IsList
  <2> DEFINE F == Range(t.foreign_keys)
             I == {i \in DOMAIN t.foreign_keys : Len(t.foreign_keys[i].columns) = 1}
  <2>3. KeysToRelate(t) = Subsequence(t.foreign_keys, I)
    BY DEF KeysToRelate
  <2> HIDE DEF I, F
  <2>4. Subsequence(t.foreign_keys, I) \in Seq(F)
    BY <2>2, SubsequenceKeeps DEF F
  <2>5. QED  BY <2>3, <2>4, ListOf
<1>2. \A t \in Range(kept) : keys(t) \in Seq(One1)
  <2>1. SUFFICES ASSUME NEW t \in Range(kept)  PROVE keys(t) \in Seq(One1)
    OBVIOUS
  <2> DEFINE K == KeysToRelate(t)
  <2>2. Len(K) \in Nat /\ DOMAIN K = 1..Len(K)
    BY <1>1 DEF IsList
  <2>3. \A j \in 1..Len(K) : FromForeignKey(t, K[j]) \in One1
    <3>1. SUFFICES ASSUME NEW j \in 1..Len(K)  PROVE FromForeignKey(t, K[j]) \in One1
      OBVIOUS
    <3>2. K[j] \in Range(K)
      BY <2>2 DEF Range
    <3>3. QED  BY <3>2
  <2> HIDE DEF One1, K
  <2>4. [j \in 1..Len(K) |-> FromForeignKey(t, K[j])] \in Seq(One1)
    BY <2>2, <2>3
  <2>5. QED  BY <2>2, <2>4 DEF K
<1>3. /\ Len(kept) \in Nat /\ DOMAIN kept = 1..Len(kept)
      /\ \A i \in 1..Len(kept) : kept[i] \in Range(kept)
  BY DEF Range
<1>4. lists \in Seq(Seq(One1))
  <2>1. \A i \in 1..Len(kept) : keys(kept[i]) \in Seq(One1)
    BY <1>2, <1>3
  <2> HIDE DEF One1, keys
  <2>2. QED  BY <1>3, <2>1
<1>5. FlattenSeq(lists) \in Seq(One1)
  <2> HIDE DEF lists, One1
  <2>1. QED  BY <1>4, FlattenIsSeq
<1>6. Len(R) \in Nat /\ DOMAIN R = 1..Len(R) /\ \A i \in 1..Len(R) : R[i] \in Range(R)
  BY DEF IsList, Range
<1>7. stated \in Seq(Two1)
  <2>1. \A i \in 1..Len(R) : FromDeclared(R[i]) \in Two1
    BY <1>6
  <2> HIDE DEF Two1, R
  <2>2. QED  BY <1>6, <2>1
<1>8. specs = FlattenSeq(lists) \o stated
  BY DEF RelationSpecs
<1> HIDE DEF lists, stated, One1, Two1, specs, R
<1> DEFINE m == Len(FlattenSeq(lists))
           n == Len(stated)
<1>9. /\ m \in Nat /\ n \in Nat /\ Len(specs) = m + n
      /\ \A i \in 1..m : specs[i] = FlattenSeq(lists)[i] /\ FlattenSeq(lists)[i] \in One1
      /\ \A i \in (m + 1)..(m + n) : specs[i] = stated[i - m] /\ stated[i - m] \in Two1
  BY <1>5, <1>7, <1>8
<1>10. \A x \in One1 : x.no_back_reference = FALSE
  BY DEF One1, FromForeignKey
<1>11. ASSUME \A r \in Range(R) : ~r.no_back_reference
       PROVE  \A x \in Two1 : ~x.no_back_reference
  <2>1. SUFFICES ASSUME NEW x \in Two1  PROVE ~x.no_back_reference
    OBVIOUS
  <2>2. PICK r \in Range(R) : x = FromDeclared(r)
    BY DEF Two1
  <2>3. x.no_back_reference = r.no_back_reference
    BY <2>2 DEF FromDeclared
  <2>4. QED  BY <1>11, <2>3
<1>12. ASSUME \A r \in Range(R) : ~r.no_back_reference
       PROVE  \A i \in 1..Len(specs) : ~specs[i].no_back_reference
  <2>1. SUFFICES ASSUME NEW i \in 1..Len(specs)  PROVE ~specs[i].no_back_reference
    OBVIOUS
  <2>2. i \in 1..m \/ i \in (m + 1)..(m + n)
    <3> HIDE DEF m, n
    <3>1. QED  BY <1>9
  <2>3. specs[i] \in One1 \/ specs[i] \in Two1
    BY <1>9, <2>2
  <2>4. QED  BY <1>10, <1>11, <1>12, <2>3
<1>13. Len(specs) \in Nat
  BY <1>9
<1>14. QED  BY <1>12, <1>13 DEF R, specs

-----------------------------------------------------------------------------
(* The models of a schema.                                                  *)

Alone(kept, c) == [name \in TableNames(kept) |-> ResolveTable(c, Find(kept, name))]

LEMMA AloneConsistent ==
  ASSUME NEW kept, NEW c
  PROVE  LET single == Alone(kept, c)
         IN  Consistent(single, single, c) /\ Balanced(single)
<1> DEFINE single == Alone(kept, c)
<1>1. \A t : /\ DOMAIN ResolveTable(c, t) = ModelFields
             /\ ResolveTable(c, t).belongs_to = <<>>
             /\ ResolveTable(c, t).has_many = <<>>
  BY DEF ResolveTable, ModelFields
<1>2. \A t \in DOMAIN single : /\ DOMAIN single[t] = ModelFields
                               /\ single[t].belongs_to = <<>>
                               /\ single[t].has_many = <<>>
  BY <1>1 DEF Alone
<1> HIDE DEF single
<1>3. IsList(<<>>) /\ DOMAIN <<>> = {} /\ Range(<<>>) = {}
  BY DEF IsList, Range
<1>4. WellFormed(single, single)
  BY <1>2, <1>3 DEF WellFormed
<1>5. EndsThere(single)
  BY <1>2, <1>3 DEF EndsThere
<1>6. Mirrored(single)
  BY <1>2, <1>3 DEF Mirrored
<1>7. ToldApart(single, c)
  BY <1>2, <1>3 DEF ToldApart
<1>8. Balanced(single)
  <2>1. SUFFICES ASSUME NEW t \in DOMAIN single, NEW b, b.target \in DOMAIN single
                 PROVE  Cardinality(Answering(single[b.target].has_many, t, b))
                        = Cardinality(Answered(single[t].belongs_to, b))
    BY DEF Balanced
  <2>2. /\ Answering(single[b.target].has_many, t, b) = {}
        /\ Answered(single[t].belongs_to, b) = {}
    BY <1>2, <1>3, <2>1 DEF Answering, Answered
  <2>3. QED  BY <2>2
<1>9. QED  BY <1>4, <1>5, <1>6, <1>7, <1>8 DEF Consistent, single

LEMMA KeptAre ==
  ASSUME NEW S, NEW sch \in Seq(S), NEW c
  PROVE  /\ KeptTables(sch, c) \in Seq(S)
         /\ Range(KeptTables(sch, c)) = {t \in Range(sch) : IncludesTable(c, t.name)}
<1> DEFINE I == {i \in DOMAIN sch : IncludesTable(c, sch[i].name)}
<1>1. DOMAIN sch = 1..Len(sch)
  OBVIOUS
<1>2. KeptTables(sch, c) = Subsequence(sch, I)
  BY DEF KeptTables
<1>3. {sch[i] : i \in (1..Len(sch)) \cap I} = {t \in Range(sch) : IncludesTable(c, t.name)}
  BY <1>1 DEF Range
<1> HIDE DEF I
<1>4. /\ Subsequence(sch, I) \in Seq(S)
      /\ Range(Subsequence(sch, I)) = {sch[i] : i \in (1..Len(sch)) \cap I}
  BY SubsequenceKeeps
<1>5. QED  BY <1>2, <1>3, <1>4

\* What resolving answers, when every table's keys and the declared
\* relationships are lists.
LEMMA ResolvedIs ==
  ASSUME NEW S, NEW sch \in Seq(S), NEW c, IsList(c.relationships),
         \A t \in Range(sch) : IsList(t.foreign_keys)
  PROVE  LET kept == KeptTables(sch, c)
             r    == Resolved(sch, c)
         IN  /\ Consistent(r.models, Alone(kept, c), c)
             /\ ~c.no_back_referencing /\ (\A q \in Range(c.relationships) : ~q.no_back_reference)
                => Balanced(r.models)
             /\ \A t \in Range(kept) : TableRefusals(c, t) \subseteq r.refusals
<1> DEFINE kept     == KeptTables(sch, c)
           single   == Alone(kept, c)
           refusals == UNION {TableRefusals(c, t) : t \in Tables(kept)}
                       \cup UNION {DeclaredRefusals(sch, c, q) : q \in Range(c.relationships)}
           start    == [refusals |-> refusals, models |-> single]
           specs    == RelationSpecs(kept, c)
           related  == Relate(c, start, specs)
           models   == [t \in DOMAIN related.models |-> HasManySorted(related.models[t])]
           r        == Resolved(sch, c)
<1>1. r = [refusals |-> related.refusals \cup UNION {NameRefusals(m) : m \in Range(models)},
           models |-> models]
  BY DEF Resolved, Alone
<1> HIDE DEF r
<1>2. r.models = models /\ related.refusals \subseteq r.refusals
  BY <1>1
<1>3. /\ DOMAIN start = {"refusals", "models"} /\ start.models = single
      /\ start.refusals = refusals
  OBVIOUS
<1>4. Consistent(single, single, c) /\ Balanced(single)
  BY AloneConsistent
<1>5. kept \in Seq(S) /\ \A t \in Range(kept) : IsList(t.foreign_keys)
  BY KeptAre
<1> HIDE DEF kept
<1>6. /\ Len(specs) \in Nat
      /\ (\A q \in Range(c.relationships) : ~q.no_back_reference)
         => \A i \in 1..Len(specs) : ~specs[i].no_back_reference
  BY <1>5, RelationSpecsAre
<1> HIDE DEF specs, start, single
<1>7. /\ start.refusals \subseteq related.refusals
      /\ Consistent(related.models, single, c)
      /\ ~c.no_back_referencing /\ (\A i \in 1..Len(specs) : ~specs[i].no_back_reference)
         => Balanced(related.models)
  BY <1>3, <1>4, <1>6, RelateConsistent
<1> HIDE DEF related
<1>8. /\ Consistent(models, single, c)
      /\ Balanced(related.models) => Balanced(models)
  BY <1>7, SortingConsistent
<1> HIDE DEF models
<1>9. \A t \in Range(kept) : TableRefusals(c, t) \subseteq refusals
  BY DEF Tables
<1> HIDE DEF refusals
<1>10. Consistent(r.models, single, c)
  BY <1>2, <1>8
<1>11. ~c.no_back_referencing /\ (\A q \in Range(c.relationships) : ~q.no_back_reference)
       => Balanced(r.models)
  BY <1>2, <1>6, <1>7, <1>8
<1>12. \A t \in Range(kept) : TableRefusals(c, t) \subseteq r.refusals
  BY <1>2, <1>3, <1>7, <1>9
<1>13. QED  BY <1>10, <1>11, <1>12 DEF kept, single, r

-----------------------------------------------------------------------------
(* What a schema may become.                                                *)

TableFields == {"name", "kind", "columns", "primary_key", "foreign_keys", "unique_keys"}

\* A table as a migration creates it, but for the foreign keys added since.
OfShape(t, s) ==
    /\ DOMAIN t = TableFields
    /\ t.name = s.name /\ t.kind = s.kind /\ t.columns = s.columns
    /\ t.primary_key = s.primary_key /\ t.unique_keys = s.unique_keys

\* Foreign keys of the references, no two over the same columns.
KeysOK(keys) ==
    /\ IsList(keys)
    /\ \A i \in DOMAIN keys : \E r \in References : keys[i] = r.key
    /\ \A i, j \in DOMAIN keys : keys[i].columns = keys[j].columns => i = j

TableOK(t, dialect) ==
    /\ \E s \in Shapes[dialect] : OfShape(t, s)
    /\ KeysOK(t.foreign_keys)

SchemaOK ==
    /\ config \in Configs
    /\ IsList(schema)
    /\ \A t \in Range(schema) : TableOK(t, config.dialect)
    /\ \A i, j \in DOMAIN schema : schema[i].name = schema[j].name => i = j
    /\ output = ResolveAll(schema, config)

LEMMA InsertedIs ==
  ASSUME NEW s, IsList(s), NEW i \in 1..(Len(s) + 1), NEW e
  PROVE  LET t == InsertAt(s, i, e)
         IN  /\ Len(s) \in Nat /\ DOMAIN s = 1..Len(s)
             /\ IsList(t) /\ DOMAIN t = 1..(Len(s) + 1)
             /\ \A k \in 1..(Len(s) + 1) :
                   t[k] = IF k < i THEN s[k] ELSE IF k = i THEN e ELSE s[k - 1]
<1> DEFINE S == Range(s) \cup {e}
           n == Len(s)
           a == SubSeq(s, 1, i - 1)
           b == SubSeq(s, i, n)
           t == InsertAt(s, i, e)
<1>1. s \in Seq(S) /\ n \in Nat /\ DOMAIN s = 1..n /\ \A k \in 1..n : s[k] \in S
  <2>1. s \in Seq(Range(s))
    BY DEF IsList
  <2>2. QED  BY <2>1
<1>2. t = (a \o <<e>>) \o b
  BY DEF InsertAt
<1> HIDE DEF S, n
<1>3. a \in Seq(S) /\ Len(a) = i - 1 /\ \A k \in 1..(i - 1) : a[k] = s[k]
  <2>1. a = [k \in 1..(i - 1) |-> s[k]]
    BY <1>1 DEF n
  <2>2. \A k \in 1..(i - 1) : s[k] \in S
    BY <1>1 DEF n
  <2>3. i - 1 \in Nat
    BY <1>1 DEF n
  <2>4. QED  BY <2>1, <2>2, <2>3
<1>4. b \in Seq(S) /\ Len(b) = (n + 1) - i /\ \A k \in 1..((n + 1) - i) : b[k] = s[(i + k) - 1]
  <2>1. b = [k \in 1..((n + 1) - i) |-> s[(i + k) - 1]]
    BY <1>1 DEF n
  <2>2. \A k \in 1..((n + 1) - i) : s[(i + k) - 1] \in S
    BY <1>1 DEF n
  <2>3. (n + 1) - i \in Nat
    BY <1>1 DEF n
  <2>4. QED  BY <2>1, <2>2, <2>3
<1> HIDE DEF a, b, t
<1>5. e \in S
  BY DEF S
<1> DEFINE c == a \o <<e>>
<1>6. c \in Seq(S) /\ Len(c) = i /\ (\A k \in 1..(i - 1) : c[k] = s[k]) /\ c[i] = e
  BY <1>1, <1>3, <1>5
<1> HIDE DEF c
<1>7. t \in Seq(S) /\ Len(t) = n + 1 /\ DOMAIN t = 1..(n + 1)
  <2>1. t = c \o b
    BY <1>2 DEF c
  <2>2. t \in Seq(S) /\ Len(t) = Len(c) + Len(b)
    <3>1. c \in Seq(S) /\ b \in Seq(S)
      BY <1>4, <1>6
    <3>2. c \o b \in Seq(S) /\ Len(c \o b) = Len(c) + Len(b)
      BY <3>1
    <3>3. QED  BY <2>1, <3>2
  <2>3. i + ((n + 1) - i) = n + 1
    BY <1>1 DEF n
  <2>4. Len(t) = n + 1
    BY <1>4, <1>6, <2>2, <2>3
  <2>5. QED  BY <2>2, <2>4
<1>8. ASSUME NEW k \in 1..(n + 1)
      PROVE  t[k] = IF k < i THEN s[k] ELSE IF k = i THEN e ELSE s[k - 1]
  <2>1. t = c \o b
    BY <1>2 DEF c
  <2>2. CASE k <= i
    <3>1. t[k] = c[k]
      BY <1>1, <1>4, <1>6, <2>1, <2>2 DEF n
    <3>2. QED  BY <1>1, <1>6, <2>2, <3>1 DEF n
  <2>3. CASE ~(k <= i)
    <3>1. k - i \in 1..((n + 1) - i) /\ (i + (k - i)) - 1 = k - 1
      BY <1>1, <2>3 DEF n
    <3>2. t[k] = b[k - i]
      BY <1>1, <1>4, <1>6, <2>1, <2>3, <3>1 DEF n
    <3>3. t[k] = s[k - 1]
      BY <1>4, <3>1, <3>2
    <3>4. ~(k < i) /\ k # i
      BY <1>1, <2>3 DEF n
    <3>5. QED  BY <3>3, <3>4
  <2>4. QED  BY <2>2, <2>3
<1>9. IsList(t)
  BY <1>7, ListOf
<1>10. QED  BY <1>1, <1>7, <1>8, <1>9 DEF t, n

LEMMA FollowsFew ==
  ASSUME IsList(schema), NEW name
  PROVE  Len(schema) + 1 - Cardinality(Follows(name)) \in 1..(Len(schema) + 1)
<1>1. Len(schema) \in Nat /\ DOMAIN schema = 1..Len(schema)
  BY DEF IsList
<1>2. IsFiniteSet(1..Len(schema)) /\ Cardinality(1..Len(schema)) = Len(schema)
  <2> DEFINE n == Len(schema)
  <2> HIDE DEF n
  <2>1. n \in Nat
    BY <1>1 DEF n
  <2>2. IsFiniteSet(1..n) /\ Cardinality(1..n) = n
    BY <2>1, FS_Interval
  <2>3. QED  BY <2>2 DEF n
<1>3. Follows(name) \subseteq 1..Len(schema)
  BY <1>1 DEF Follows
<1>4. /\ Cardinality(Follows(name)) \in Nat
      /\ Cardinality(Follows(name)) <= Len(schema)
  BY <1>2, <1>3, FS_Subset, FS_CardinalityType
<1>5. QED  BY <1>1, <1>4

LEMMA CreateTableKeeps ==
  ASSUME SchemaOK, NEW shape \in Shapes[config.dialect], CreateTable(shape)
  PROVE  /\ IsList(schema')
         /\ \A t \in Range(schema') : TableOK(t, config.dialect)
         /\ \A i, j \in DOMAIN schema' : schema'[i].name = schema'[j].name => i = j
<1> DEFINE n == Len(schema)
           at == n + 1 - Cardinality(Follows(shape.name))
<1>1. /\ IsList(schema) /\ config.dialect \in Dialects
      /\ \A t \in Range(schema) : TableOK(t, config.dialect)
      /\ \A i, j \in DOMAIN schema : schema[i].name = schema[j].name => i = j
  BY ConfigsAssumption DEF SchemaOK
<1>2. at \in 1..(n + 1)
  BY <1>1, FollowsFew
<1>3. schema' = InsertAt(schema, at, shape) /\ shape.name \notin TableNames(schema)
  BY DEF CreateTable
<1> HIDE DEF at, n
<1>4. /\ n \in Nat /\ DOMAIN schema = 1..n
      /\ IsList(schema') /\ DOMAIN schema' = 1..(n + 1)
      /\ \A k \in 1..(n + 1) :
            schema'[k] = IF k < at THEN schema[k] ELSE IF k = at THEN shape ELSE schema[k - 1]
  BY <1>1, <1>2, <1>3, InsertedIs DEF n
<1>5. ASSUME NEW k \in 1..(n + 1)
      PROVE  \/ k = at /\ schema'[k] = shape
             \/ \E m \in 1..n : /\ schema'[k] = schema[m]
                                /\ (k < at /\ m = k) \/ (at < k /\ m = k - 1)
  <2>1. CASE k < at
    <3>1. k \in 1..n /\ schema'[k] = schema[k]
      BY <1>2, <1>4, <2>1
    <3>2. QED  BY <2>1, <3>1
  <2>2. CASE k = at
    BY <1>2, <1>4, <2>2
  <2>3. CASE at < k
    <3>1. k - 1 \in 1..n /\ schema'[k] = schema[k - 1]
      BY <1>2, <1>4, <2>3
    <3>2. QED  BY <2>3, <3>1
  <2>4. QED  BY <1>2, <1>4, <2>1, <2>2, <2>3
<1>6. TableOK(shape, config.dialect)
  <2>1. /\ DOMAIN shape = TableFields /\ shape.foreign_keys = <<>>
    BY <1>1, ShapesAssumption DEF TableFields
  <2>2. OfShape(shape, shape)
    BY <2>1 DEF OfShape
  <2>3. IsList(<<>>) /\ DOMAIN <<>> = {}
    BY DEF IsList, Range
  <2>4. KeysOK(shape.foreign_keys)
    BY <2>1, <2>3 DEF KeysOK
  <2>5. QED  BY <2>2, <2>4 DEF TableOK
<1>7. \A m \in 1..n : schema[m] \in Range(schema) /\ schema[m].name # shape.name
  BY <1>3, <1>4 DEF Range, TableNames, Tables
<1>8. \A t \in Range(schema') : TableOK(t, config.dialect)
  <2>1. SUFFICES ASSUME NEW k \in 1..(n + 1)  PROVE TableOK(schema'[k], config.dialect)
    BY <1>4 DEF Range
  <2>2. QED  BY <1>1, <1>5, <1>6, <1>7
<1>9. ASSUME NEW i \in 1..(n + 1), NEW j \in 1..(n + 1), schema'[i].name = schema'[j].name
      PROVE  i = j
  <2>1. CASE i = at
    BY <1>5, <1>7, <1>9, <2>1
  <2>2. CASE j = at
    BY <1>5, <1>7, <1>9, <2>2
  <2>3. CASE i # at /\ j # at
    <3>1. PICK m \in 1..n : /\ schema'[i] = schema[m]
                            /\ (i < at /\ m = i) \/ (at < i /\ m = i - 1)
      BY <1>5, <2>3
    <3>2. PICK k \in 1..n : /\ schema'[j] = schema[k]
                            /\ (j < at /\ k = j) \/ (at < j /\ k = j - 1)
      BY <1>5, <2>3
    <3>3. m = k
      BY <1>1, <1>4, <1>9, <3>1, <3>2
    <3>4. QED  BY <1>2, <1>4, <3>1, <3>2, <3>3
  <2>4. QED  BY <2>1, <2>2, <2>3
<1>10. QED  BY <1>4, <1>8, <1>9

LEMMA KeyListed ==
  ASSUME NEW keys, KeysOK(keys), NEW r \in References,
         \A fk \in Range(keys) : fk.columns # r.key.columns,
         NEW listed \in {<<r.key>> \o keys, keys \o <<r.key>>}
  PROVE  KeysOK(listed)
<1> DEFINE n == Len(keys)
           S == Range(keys) \cup {r.key}
           k == r.key
<1>1. /\ keys \in Seq(Range(keys)) /\ n \in Nat /\ DOMAIN keys = 1..n
      /\ \A i \in 1..n : \E q \in References : keys[i] = q.key
      /\ \A i, j \in 1..n : keys[i].columns = keys[j].columns => i = j
  BY DEF KeysOK, IsList
<1>2. keys \in Seq(S) /\ k \in S
  BY <1>1
<1>3. \A i \in 1..n : keys[i].columns # k.columns
  BY <1>1 DEF Range
<1> HIDE DEF S, n, k
<1>4. CASE listed = <<k>> \o keys
  <2>1. /\ listed \in Seq(S) /\ Len(listed) = n + 1 /\ DOMAIN listed = 1..(n + 1)
        /\ listed[1] = k /\ \A i \in 2..(n + 1) : listed[i] = keys[i - 1]
    BY <1>1, <1>2, <1>4 DEF n
  <2>2. \A i \in 1..(n + 1) : i = 1 \/ (i \in 2..(n + 1) /\ i - 1 \in 1..n)
    BY <1>1
  <2>3. IsList(listed)
    BY <2>1, ListOf
  <2>4. \A i \in 1..(n + 1) : \E q \in References : listed[i] = q.key
    <3>1. SUFFICES ASSUME NEW i \in 1..(n + 1)  PROVE \E q \in References : listed[i] = q.key
      OBVIOUS
    <3>2. CASE i = 1
      BY <2>1, <3>2 DEF k
    <3>3. CASE i # 1
      <4>1. i - 1 \in 1..n /\ listed[i] = keys[i - 1]
        BY <2>1, <2>2, <3>3
      <4>2. QED  BY <1>1, <4>1
    <3>4. QED  BY <3>2, <3>3
  <2>5. ASSUME NEW i \in 1..(n + 1), NEW j \in 1..(n + 1), listed[i].columns = listed[j].columns
        PROVE  i = j
    <3>1. CASE i = 1 \/ j = 1
      BY <1>3, <2>1, <2>2, <2>5, <3>1
    <3>2. CASE i # 1 /\ j # 1
      <4>1. i - 1 \in 1..n /\ j - 1 \in 1..n /\ listed[i] = keys[i - 1] /\ listed[j] = keys[j - 1]
        BY <2>1, <2>2, <3>2
      <4>2. i - 1 = j - 1
        BY <1>1, <2>5, <4>1
      <4>3. QED  BY <4>2
    <3>3. QED  BY <3>1, <3>2
  <2>6. QED  BY <2>1, <2>3, <2>4, <2>5 DEF KeysOK
<1>5. CASE listed = keys \o <<k>>
  <2>1. /\ listed \in Seq(S) /\ Len(listed) = n + 1 /\ DOMAIN listed = 1..(n + 1)
        /\ listed[n + 1] = k /\ \A i \in 1..n : listed[i] = keys[i]
    BY <1>1, <1>2, <1>5 DEF n
  <2>2. \A i \in 1..(n + 1) : i = n + 1 \/ i \in 1..n
    BY <1>1
  <2>3. IsList(listed)
    BY <2>1, ListOf
  <2>4. \A i \in 1..(n + 1) : \E q \in References : listed[i] = q.key
    <3>1. \A i \in 1..n : \E q \in References : listed[i] = q.key
      BY <1>1, <2>1
    <3>2. listed[n + 1] = r.key
      BY <2>1 DEF k
    <3>3. QED  BY <2>2, <3>1, <3>2
  <2>5. ASSUME NEW i \in 1..(n + 1), NEW j \in 1..(n + 1), listed[i].columns = listed[j].columns
        PROVE  i = j
    BY <1>1, <1>3, <2>1, <2>2, <2>5
  <2>6. QED  BY <2>1, <2>3, <2>4, <2>5 DEF KeysOK
<1>6. QED  BY <1>4, <1>5 DEF k

LEMMA AddForeignKeyKeeps ==
  ASSUME SchemaOK, NEW r \in References, AddForeignKey(r.table, r.key)
  PROVE  /\ IsList(schema')
         /\ \A t \in Range(schema') : TableOK(t, config.dialect)
         /\ \A i, j \in DOMAIN schema' : schema'[i].name = schema'[j].name => i = j
<1> DEFINE n == Len(schema)
           name == r.table
           old == Find(schema, name)
<1>1. /\ IsList(schema)
      /\ \A t \in Range(schema) : TableOK(t, config.dialect)
      /\ \A i, j \in DOMAIN schema : schema[i].name = schema[j].name => i = j
  BY DEF SchemaOK
<1>2. PICK listed \in {<<r.key>> \o old.foreign_keys, old.foreign_keys \o <<r.key>>} :
         schema' = [i \in DOMAIN schema |->
                      IF schema[i].name = name
                      THEN [schema[i] EXCEPT !.foreign_keys = listed] ELSE schema[i]]
  BY DEF AddForeignKey
<1>3. \A fk \in Range(old.foreign_keys) : fk.columns # r.key.columns
  BY DEF AddForeignKey
<1>4. old \in Range(schema)
  <2>1. \E t \in Range(schema) : t.name = name
    BY DEF AddForeignKey, Has, TableNames, Tables
  <2>2. QED  BY <2>1 DEF Find, Tables
<1>5. KeysOK(old.foreign_keys)
  BY <1>1, <1>4 DEF TableOK
<1> HIDE DEF old
<1>6. KeysOK(listed)
  BY <1>3, <1>5, KeyListed
<1>7. n \in Nat /\ DOMAIN schema = 1..n
  BY <1>1 DEF IsList
<1> HIDE DEF n
<1>8. DOMAIN schema' = 1..n /\ schema' = [i \in 1..n |-> schema'[i]]
  BY <1>2, <1>7
<1>9. IsList(schema')
  BY <1>7, <1>8, ListMade
<1>10. ASSUME NEW i \in 1..n
       PROVE  TableOK(schema'[i], config.dialect) /\ schema'[i].name = schema[i].name
  <2> DEFINE t == schema[i]
             u == schema'[i]
  <2>1. TableOK(t, config.dialect)
    BY <1>1, <1>7 DEF Range
  <2>2. u = IF t.name = name THEN [t EXCEPT !.foreign_keys = listed] ELSE t
    BY <1>2, <1>7
  <2> HIDE DEF t, u
  <2>3. CASE t.name = name
    <3>1. PICK s \in Shapes[config.dialect] : OfShape(t, s)
      BY <2>1 DEF TableOK
    <3>2. u = [t EXCEPT !.foreign_keys = listed]
      BY <2>2, <2>3
    <3>3. OfShape(u, s) /\ u.foreign_keys = listed /\ u.name = t.name
      BY <3>1, <3>2 DEF OfShape, TableFields
    <3>4. TableOK(u, config.dialect)
      BY <1>6, <3>3 DEF TableOK
    <3>5. QED  BY <3>3, <3>4 DEF t, u
  <2>4. CASE t.name # name
    BY <2>1, <2>2, <2>4 DEF t, u
  <2>5. QED  BY <2>3, <2>4
<1>11. \A t \in Range(schema') : TableOK(t, config.dialect)
  BY <1>8, <1>10 DEF Range
<1>12. \A i, j \in DOMAIN schema' : schema'[i].name = schema'[j].name => i = j
  BY <1>1, <1>7, <1>8, <1>10
<1>13. QED  BY <1>9, <1>11, <1>12

LEMMA SchemaStays == Spec => []SchemaOK
<1>1. Init => SchemaOK
  <2>1. SUFFICES ASSUME Init  PROVE SchemaOK
    OBVIOUS
  <2>2. schema = <<>> /\ config \in Configs /\ output = ResolveAll(schema, config)
    BY <2>1 DEF Init
  <2>3. IsList(<<>>) /\ DOMAIN <<>> = {} /\ Range(<<>>) = {}
    BY DEF IsList, Range
  <2>4. QED  BY <2>2, <2>3 DEF SchemaOK
<1>2. SchemaOK /\ [Next]_vars => SchemaOK'
  <2>1. SUFFICES ASSUME SchemaOK, [Next]_vars  PROVE SchemaOK'
    OBVIOUS
  <2>2. CASE Next
    <3>1. config' = config /\ output' = ResolveAll(schema', config') /\ Migrate
      BY <2>2 DEF Next
    <3>2. /\ IsList(schema')
          /\ \A t \in Range(schema') : TableOK(t, config.dialect)
          /\ \A i, j \in DOMAIN schema' : schema'[i].name = schema'[j].name => i = j
      <4>1. CASE \E shape \in Shapes[config.dialect] : CreateTable(shape)
        BY <2>1, <4>1, CreateTableKeeps
      <4>2. CASE \E r \in References : AddForeignKey(r.table, r.key)
        BY <2>1, <4>2, AddForeignKeyKeeps
      <4>3. QED  BY <3>1, <4>1, <4>2 DEF Migrate
    <3>3. config \in Configs
      BY <2>1 DEF SchemaOK
    <3>4. QED  BY <3>1, <3>2, <3>3 DEF SchemaOK
  <2>3. CASE UNCHANGED vars
    BY <2>1, <2>3 DEF SchemaOK, vars
  <2>4. QED  BY <2>1, <2>2, <2>3
<1>3. QED  BY <1>1, <1>2, PTL DEF Spec

-----------------------------------------------------------------------------
(* The schema the generator sees.                                           *)

LEMMA KeysSortedIsList ==
  ASSUME NEW keys, IsList(keys)
  PROVE  IsList(KeysSorted(keys))
<1> DEFINE D == DOMAIN keys
           less == {p \in D \X D : ColumnsBefore(keys[p[1]].columns, keys[p[2]].columns)}
           n == Len(keys)
           t == Sorted(keys, less)
<1>1. n \in Nat
  BY DEF IsList
<1>2. KeysSorted(keys) = t
  BY DEF KeysSorted
<1> HIDE DEF less
<1>3. t = [m \in 1..n |-> Taken1(keys, less, m)]
  BY <1>1, SortedIs
<1> HIDE DEF t, n
<1>4. DOMAIN t = 1..n /\ t = [m \in 1..n |-> t[m]]
  BY <1>3
<1>5. QED  BY <1>1, <1>2, <1>4, ListMade

LEMMA CanonicalIs ==
  ASSUME NEW sch, IsList(sch),
         \A t \in Range(sch) : DOMAIN t = TableFields /\ IsList(t.foreign_keys)
  PROVE  LET can == Canonical(sch)
         IN  /\ IsList(can) /\ DOMAIN can = DOMAIN sch
             /\ \A i \in DOMAIN sch :
                  /\ DOMAIN can[i] = TableFields
                  /\ \A f \in TableFields : f # "foreign_keys" => can[i][f] = sch[i][f]
             /\ \A t \in Range(can) : IsList(t.foreign_keys)
             /\ TableNames(can) = TableNames(sch)
<1> DEFINE can == Canonical(sch)
           n == Len(sch)
<1>1. n \in Nat /\ DOMAIN sch = 1..n
  BY DEF IsList
<1>2. can = [i \in 1..n |-> [sch[i] EXCEPT !.foreign_keys = KeysSorted(@)]]
  BY <1>1 DEF Canonical
<1> HIDE DEF can, n
<1>3. DOMAIN can = 1..n /\ can = [i \in 1..n |-> can[i]]
  BY <1>2
<1>4. IsList(can)
  BY <1>1, <1>3, ListMade
<1>5. ASSUME NEW i \in 1..n
      PROVE  /\ DOMAIN can[i] = TableFields
             /\ \A f \in TableFields : f # "foreign_keys" => can[i][f] = sch[i][f]
             /\ IsList(can[i].foreign_keys)
             /\ can[i].name = sch[i].name
  <2> DEFINE t == sch[i]
             u == can[i]
  <2>1. DOMAIN t = TableFields /\ IsList(t.foreign_keys)
    BY <1>1 DEF Range
  <2>2. u = [t EXCEPT !.foreign_keys = KeysSorted(t.foreign_keys)]
    BY <1>2
  <2>3. IsList(KeysSorted(t.foreign_keys))
    BY <2>1, KeysSortedIsList
  <2> HIDE DEF t, u
  <2>4. /\ DOMAIN u = TableFields /\ u.foreign_keys = KeysSorted(t.foreign_keys)
        /\ u.name = t.name
        /\ \A f \in TableFields : f # "foreign_keys" => u[f] = t[f]
    BY <2>1, <2>2 DEF TableFields
  <2>5. QED  BY <2>3, <2>4 DEF t, u
<1>6. \A t \in Range(can) : IsList(t.foreign_keys)
  BY <1>3, <1>5 DEF Range
<1>7. TableNames(can) = TableNames(sch)
  <2>1. TableNames(can) = {can[i].name : i \in 1..n}
    BY <1>3 DEF TableNames, Tables, Range
  <2>2. TableNames(sch) = {sch[i].name : i \in 1..n}
    BY <1>1 DEF TableNames, Tables, Range
  <2>3. QED  BY <1>5, <2>1, <2>2
<1>8. QED  BY <1>1, <1>3, <1>4, <1>5, <1>6, <1>7 DEF can

\* Of the output, under the invariant of the schema.
LEMMA OutputIs ==
  ASSUME SchemaOK
  PROVE  LET can  == Canonical(schema)
             kept == KeptTables(can, config)
         IN  /\ IsList(can)
             /\ \A t \in Range(schema) : DOMAIN t = TableFields /\ IsList(t.foreign_keys)
             /\ Consistent(Generated, Alone(kept, config), config)
             /\ BackReferencing => Balanced(Generated)
             /\ \A t \in Range(kept) : TableRefusals(config, t) \subseteq output.refusals
             /\ DOMAIN Generated = TableNames(kept)
             /\ Range(kept) = {t \in Range(can) : IncludesTable(config, t.name)}
             /\ TableNames(kept) \subseteq TableNames(schema)
<1> DEFINE can  == Canonical(schema)
           kept == KeptTables(can, config)
           S    == Range(can)
<1>1. /\ config \in Configs /\ IsList(schema)
      /\ \A t \in Range(schema) : TableOK(t, config.dialect)
      /\ output = Resolved(can, config)
  BY DEF SchemaOK, ResolveAll
<1>2. \A t \in Range(schema) : DOMAIN t = TableFields /\ IsList(t.foreign_keys)
  BY <1>1 DEF TableOK, OfShape, KeysOK
<1>3. /\ IsList(can) /\ (\A t \in Range(can) : IsList(t.foreign_keys))
      /\ TableNames(can) = TableNames(schema)
  BY <1>1, <1>2, CanonicalIs
<1>4. IsList(config.relationships)
  BY <1>1, ConfigsAssumption DEF IsList
<1> HIDE DEF can
<1>5. can \in Seq(S)
  BY <1>3 DEF IsList
<1> HIDE DEF S
<1>6. Range(kept) = {t \in Range(can) : IncludesTable(config, t.name)}
  BY <1>5, KeptAre
<1>7. /\ Consistent(output.models, Alone(kept, config), config)
      /\ ~config.no_back_referencing
         /\ (\A q \in Range(config.relationships) : ~q.no_back_reference)
         => Balanced(output.models)
      /\ \A t \in Range(kept) : TableRefusals(config, t) \subseteq output.refusals
  BY <1>1, <1>3, <1>4, <1>5, ResolvedIs
<1> HIDE DEF kept
<1>8. DOMAIN output.models = TableNames(kept)
  BY <1>7 DEF Consistent, WellFormed, Alone
<1>9. TableNames(kept) \subseteq TableNames(can)
  BY <1>6 DEF TableNames, Tables
<1>10. BackReferencing => Balanced(Generated)
  BY <1>7 DEF BackReferencing, Generated
<1>11. QED
  BY <1>2, <1>3, <1>6, <1>7, <1>8, <1>9, <1>10 DEF Generated, can, kept

\* Nothing a generated module names was filtered out of the tree, whatever
\* the filters keep and whatever relations are declared (resolve.rs, the ends
\* add_relation checks).
THEOREM NothingNamed == Spec => []NothingNamedIsMissing
<1>1. SchemaOK => NothingNamedIsMissing
  <2>1. SUFFICES ASSUME SchemaOK  PROVE NothingNamedIsMissing
    OBVIOUS
  <2>2. EndsThere(Generated)
    BY <2>1, OutputIs DEF Consistent
  <2>3. QED  BY <2>2 DEF EndsThere, NothingNamedIsMissing
<1>2. QED  BY <1>1, SchemaStays, PTL

\* A list without repetitions has as many elements as places.
LEMMA OnceIs ==
  ASSUME NEW s, IsList(s), \A i, j \in DOMAIN s : s[i] = s[j] => i = j
  PROVE  Once(s)
<1> DEFINE n == Len(s)
           R == Range(s)
<1>1. n \in Nat /\ DOMAIN s = 1..n
  BY DEF IsList
<1> HIDE DEF n
<1>2. IsFiniteSet(1..n) /\ Cardinality(1..n) = n
  BY <1>1, FS_Interval
<1> DEFINE f == [i \in 1..n |-> s[i]]
<1>3. f \in [1..n -> R]
  BY <1>1 DEF Range
<1>4. \A i, j \in 1..n : f[i] = f[j] => i = j
  BY <1>1
<1>5. \A x \in R : \E i \in 1..n : f[i] = x
  BY <1>1 DEF Range
<1> HIDE DEF f, R
<1>6. f \in Bijection(1..n, R)
  BY <1>3, <1>4, <1>5 DEF Bijection, Injection, IsInjective, Surjection
<1>7. Cardinality(R) = n
  BY <1>2, <1>6, FS_Bijection DEF ExistsBijection
<1>8. QED  BY <1>7 DEF Once, R, n

\* Names, and the two sides of every relation, agree.
THEOREM RelationsMirrored == Spec => []RelationsMirror
<1>1. SchemaOK => RelationsMirror
  <2>1. SUFFICES ASSUME SchemaOK  PROVE RelationsMirror
    OBVIOUS
  <2>2. /\ config \in Configs /\ config.dialect \in Dialects
        /\ \A t \in Range(schema) : TableOK(t, config.dialect)
        /\ \A i, j \in DOMAIN schema : schema[i].name = schema[j].name => i = j
    BY <2>1, ConfigsAssumption DEF SchemaOK
  <2>3. /\ EndsThere(Generated) /\ Mirrored(Generated) /\ ToldApart(Generated, config)
        /\ BackReferencing => Balanced(Generated)
        /\ DOMAIN Generated \subseteq TableNames(schema)
    BY <2>1, OutputIs DEF Consistent
  <2>4. ASSUME NEW t \in Tables(schema)  PROVE t.columns # <<>> /\ Once(t.columns)
    <3>1. PICK s \in Shapes[config.dialect] : OfShape(t, s)
      BY <2>2 DEF Tables, TableOK
    <3>2. /\ s.columns \in Seq(Range(s.columns)) /\ s.columns # <<>>
          /\ \A i, j \in DOMAIN s.columns : s.columns[i].name = s.columns[j].name => i = j
      BY <2>2, ShapesAssumption
    <3>3. t.columns = s.columns
      BY <3>1 DEF OfShape
    <3>4. IsList(t.columns) /\ \A i, j \in DOMAIN t.columns : t.columns[i] = t.columns[j] => i = j
      BY <3>2, <3>3 DEF IsList
    <3>5. QED  BY <3>2, <3>3, <3>4, OnceIs
  <2>5. TypeOK
    BY <2>2, <2>3, <2>4 DEF TypeOK
  <2>6. NeitherIsPlain
    <3>1. SUFFICES ASSUME NEW t \in DOMAIN Generated,
                          NEW g \in Range(Generated[t].has_many),
                          NEW h \in Range(Generated[t].has_many),
                          g # h, g.child = h.child, Aliases(config, t).relationships = <<>>
                   PROVE  NamedApart(Generated, config, h)
      BY DEF NeitherIsPlain, NamedApart, Base
    <3> DEFINE hs == Generated[t].has_many
    <3>2. PICK i \in DOMAIN hs : g = hs[i]
      BY DEF Range
    <3>3. PICK j \in DOMAIN hs : h = hs[j]
      BY DEF Range
    <3>4. (\E k \in DOMAIN hs : k # j /\ hs[k].child = hs[j].child)
          => NamedApart(Generated, config, hs[j])
      BY <2>3, <3>1, <3>3 DEF ToldApart
    <3> HIDE DEF hs
    <3>5. QED  BY <3>1, <3>2, <3>3, <3>4
  <2>7. ASSUME NEW t \in DOMAIN Generated, NEW h \in Range(Generated[t].has_many)
        PROVE  \E b \in Range(Generated[h.child].belongs_to) :
                 b.fk_column = h.child_fk /\ b.target = t /\ b.ref_column = h.parent_key
    BY <2>3 DEF Mirrored
  <2>8. ASSUME BackReferencing, NEW t \in DOMAIN Generated, NEW b \in Range(Generated[t].belongs_to)
        PROVE  Cardinality(Answering(Generated[b.target].has_many, t, b))
               = Cardinality(Answered(Generated[t].belongs_to, b))
    <3>1. b.target \in DOMAIN Generated
      BY <2>3 DEF EndsThere
    <3>2. QED  BY <2>3, <2>8, <3>1 DEF Balanced
  <2>9. QED  BY <2>5, <2>6, <2>7, <2>8 DEF RelationsMirror
<1>2. QED  BY <1>1, SchemaStays, PTL

-----------------------------------------------------------------------------
(* The columns and the key of a model.                                      *)

\* The table a model stands for, as the catalog and as the generator sees it.
LEMMA TableOfModel ==
  ASSUME SchemaOK, NEW name \in DOMAIN Generated
  PROVE  LET table == Find(schema, name)
             seen  == Find(KeptTables(Canonical(schema), config), name)
         IN  /\ \E s \in Shapes[config.dialect] : OfShape(table, s)
             /\ table.name = name /\ seen.name = name
             /\ \A f \in TableFields : f # "foreign_keys" => seen[f] = table[f]
             /\ TableRefusals(config, seen) \subseteq output.refusals
             /\ Generated[name].columns = ResolveTable(config, seen).columns
             /\ Generated[name].pk = ResolveTable(config, seen).pk
             /\ Generated[name].writable = ResolveTable(config, seen).writable
<1> DEFINE can   == Canonical(schema)
           kept  == KeptTables(can, config)
           table == Find(schema, name)
           seen  == Find(kept, name)
<1>1. /\ IsList(schema) /\ \A t \in Range(schema) : TableOK(t, config.dialect)
      /\ \A i, j \in DOMAIN schema : schema[i].name = schema[j].name => i = j
  BY DEF SchemaOK
<1>2. /\ IsList(can)
      /\ \A t \in Range(schema) : DOMAIN t = TableFields /\ IsList(t.foreign_keys)
      /\ Consistent(Generated, Alone(kept, config), config)
      /\ \A t \in Range(kept) : TableRefusals(config, t) \subseteq output.refusals
      /\ DOMAIN Generated = TableNames(kept)
      /\ Range(kept) = {t \in Range(can) : IncludesTable(config, t.name)}
      /\ TableNames(kept) \subseteq TableNames(schema)
  BY OutputIs
<1>3. /\ DOMAIN can = DOMAIN schema
      /\ \A i \in DOMAIN schema :
            /\ DOMAIN can[i] = TableFields
            /\ \A f \in TableFields : f # "foreign_keys" => can[i][f] = schema[i][f]
  BY <1>1, <1>2, CanonicalIs
<1> HIDE DEF can, kept
<1>4. seen \in Range(kept) /\ seen.name = name
  <2>1. \E t \in Range(kept) : t.name = name
    BY <1>2 DEF TableNames, Tables
  <2>2. QED  BY <2>1 DEF Find, Tables
<1>5. table \in Range(schema) /\ table.name = name
  <2>1. \E t \in Range(schema) : t.name = name
    BY <1>2 DEF TableNames, Tables
  <2>2. QED  BY <2>1 DEF Find, Tables
<1> HIDE DEF seen, table
<1>6. PICK i \in DOMAIN can : seen = can[i]
  BY <1>2, <1>4 DEF Range
<1>7. PICK j \in DOMAIN schema : table = schema[j]
  BY <1>5 DEF Range
<1>8. i \in DOMAIN schema /\ schema[i].name = name
  <2>1. seen["name"] = schema[i]["name"]
    BY <1>3, <1>6 DEF TableFields
  <2>2. QED  BY <1>3, <1>4, <1>6, <2>1
<1>9. i = j
  BY <1>1, <1>5, <1>7, <1>8
<1>10. \A f \in TableFields : f # "foreign_keys" => seen[f] = table[f]
  BY <1>3, <1>6, <1>7, <1>9
<1>11. \E s \in Shapes[config.dialect] : OfShape(table, s)
  BY <1>1, <1>5 DEF TableOK
<1>12. /\ Generated[name].columns = ResolveTable(config, seen).columns
       /\ Generated[name].pk = ResolveTable(config, seen).pk
       /\ Generated[name].writable = ResolveTable(config, seen).writable
  <2>1. name \in TableNames(kept)
    BY <1>2
  <2>2. name \in DOMAIN Alone(kept, config) /\ Alone(kept, config)[name] = ResolveTable(config, seen)
    BY <2>1 DEF Alone, seen
  <2>3. QED  BY <1>2, <2>2 DEF Consistent, WellFormed
<1>13. TableRefusals(config, seen) \subseteq output.refusals
  BY <1>2, <1>4
<1>14. QED  BY <1>4, <1>5, <1>10, <1>11, <1>12, <1>13 DEF seen, table, kept, can

\* A generated column is a kept column of the table, and each of these has one.
LEMMA ModelColumnsAre ==
  ASSUME NEW c, NEW table, IsList(table.columns)
  PROVE  LET columns == ResolveTable(c, table).columns
         IN  /\ \A m \in Range(columns) :
                  /\ m.nullable \in BOOLEAN
                  /\ \E f \in Range(Fields(c, table)) : m.rust_type = f.rust_type
                  /\ \E column \in Range(table.columns) :
                       /\ m.db_name = column.name /\ m.db_type = column.db_type
                       /\ m.rust_type = RustType(c.dialect, c.types, table.name, column).rust
                       /\ m.nullable = (column.nullable /\ column.name \notin Asserted(c, table))
             /\ \A n \in Kept(c, table) : \E m \in Range(columns) : m.db_name = n
<1> DEFINE I      == {i \in DOMAIN table.columns : IncludesColumn(c, table.name, table.columns[i].name)}
           S      == Range(table.columns)
           kept   == KeptColumns(c, table)
           fields == Fields(c, table)
           col(i) == [fields[i] EXCEPT !.nullable = @ /\ fields[i].db_name \notin Asserted(c, table)]
           columns == ResolveTable(c, table).columns
<1>1. kept \in Seq(S)
  <2>1. kept = Subsequence(table.columns, I)
    BY DEF KeptColumns
  <2>2. table.columns \in Seq(S)
    BY DEF IsList
  <2> HIDE DEF I, S, kept
  <2>3. QED  BY <2>1, <2>2, SubsequenceKeeps
<1>2. /\ \A i \in DOMAIN kept : kept[i] \in S
      /\ fields = [i \in DOMAIN kept |-> ResolveColumn(c, table, kept[i])]
  BY <1>1 DEF Fields
<1>3. columns = [i \in DOMAIN fields |-> col(i)]
  BY DEF ResolveTable
<1> HIDE DEF kept, fields, columns, S
<1>4. DOMAIN fields = DOMAIN kept /\ DOMAIN columns = DOMAIN kept
  BY <1>2, <1>3
<1>5. ASSUME NEW i \in DOMAIN kept
      PROVE  LET m == columns[i]
                 column == kept[i]
             IN  /\ m.nullable \in BOOLEAN
                 /\ m.rust_type = fields[i].rust_type
                 /\ m.db_name = column.name /\ m.db_type = column.db_type
                 /\ m.rust_type = RustType(c.dialect, c.types, table.name, column).rust
                 /\ m.nullable = (column.nullable /\ column.name \notin Asserted(c, table))
  <2> DEFINE column == kept[i]
             f == ResolveColumn(c, table, column)
             m == [f EXCEPT !.nullable = @ /\ f.db_name \notin Asserted(c, table)]
  <2>1. fields[i] = f /\ columns[i] = m
    BY <1>2, <1>3, <1>4
  <2>2. /\ DOMAIN f = {"db_name", "field", "rust_type", "overridden", "nullable", "db_type",
                       "default", "autoincrement", "unique"}
        /\ f.db_name = column.name /\ f.db_type = column.db_type /\ f.nullable = column.nullable
        /\ f.rust_type = RustType(c.dialect, c.types, table.name, column).rust
    BY DEF ResolveColumn
  <2> DEFINE nullable == f.nullable /\ f.db_name \notin Asserted(c, table)
  <2>3. m = [f EXCEPT !.nullable = nullable]
    OBVIOUS
  <2>4. nullable \in BOOLEAN
    OBVIOUS
  <2>5. nullable = (column.nullable /\ column.name \notin Asserted(c, table))
    BY <2>2
  <2> HIDE DEF f, m, nullable
  <2>6. /\ m.db_name = f.db_name /\ m.db_type = f.db_type /\ m.rust_type = f.rust_type
        /\ m.nullable = nullable
    BY <2>2, <2>3
  <2>7. QED  BY <2>1, <2>2, <2>4, <2>5, <2>6
<1>6. ASSUME NEW m \in Range(columns)
      PROVE  \E i \in DOMAIN kept : m = columns[i] /\ kept[i] \in S /\ fields[i] \in Range(fields)
  BY <1>2, <1>4, <1>6 DEF Range
<1>7. \A n \in Kept(c, table) : \E m \in Range(columns) : m.db_name = n
  <2>1. SUFFICES ASSUME NEW n \in Kept(c, table)  PROVE \E m \in Range(columns) : m.db_name = n
    OBVIOUS
  <2>2. PICK i \in DOMAIN kept : n = kept[i].name
    BY DEF Kept, kept, Range
  <2>3. columns[i] \in Range(columns) /\ columns[i].db_name = n
    BY <1>4, <1>5, <2>2 DEF Range
  <2>4. QED  BY <2>3
<1>8. ASSUME NEW m \in Range(columns)
      PROVE  /\ m.nullable \in BOOLEAN
             /\ \E f \in Range(fields) : m.rust_type = f.rust_type
             /\ \E column \in S :
                  /\ m.db_name = column.name /\ m.db_type = column.db_type
                  /\ m.rust_type = RustType(c.dialect, c.types, table.name, column).rust
                  /\ m.nullable = (column.nullable /\ column.name \notin Asserted(c, table))
  <2>1. PICK i \in DOMAIN kept : m = columns[i] /\ kept[i] \in S /\ fields[i] \in Range(fields)
    BY <1>6
  <2> DEFINE column == kept[i]
  <2>2. /\ m.nullable \in BOOLEAN
        /\ m.rust_type = fields[i].rust_type
        /\ m.db_name = column.name /\ m.db_type = column.db_type
        /\ m.rust_type = RustType(c.dialect, c.types, table.name, column).rust
        /\ m.nullable = (column.nullable /\ column.name \notin Asserted(c, table))
    BY <1>5, <2>1
  <2>3. column \in S
    BY <2>1
  <2> HIDE DEF column
  <2>4. QED  BY <2>1, <2>2, <2>3
<1>9. QED  BY <1>7, <1>8 DEF columns, S, fields

\* What no refusal of check_declared_key says of a declared key.
LEMMA DeclaredKeyChecked ==
  ASSUME NEW c, NEW table, TableRefusals(c, table) = {}, DeclaredKey(c, table) # <<>>
  PROVE  /\ table.primary_key = <<>>
         /\ Range(DeclaredKey(c, table)) \subseteq Kept(c, table)
<1>1. KeyRefusals(c, table) = {}
  BY DEF TableRefusals
<1>2. /\ Where("already has a primary key", table.primary_key # <<>>) = {}
      /\ Where("key names no generated column",
               ~(Range(DeclaredKey(c, table)) \subseteq Kept(c, table))) = {}
  BY <1>1 DEF KeyRefusals
<1>3. QED  BY <1>2 DEF Where

\* What a model writes through is what identifies a row (resolve_table,
\* check_declared_key): the catalog's key untouched by the filters, or the
\* declared one, its columns generated and never NULL.
THEOREM KeyIdentifies == Spec => []KeyIdentifiesRows
<1>1. SchemaOK => KeyIdentifiesRows
  <2>1. SUFFICES ASSUME SchemaOK, Generates, NEW name \in DOMAIN Generated,
                        Generated[name].writable
                 PROVE  LET table == Find(schema, name)
                        IN  /\ Generated[name].pk # <<>>
                            /\ table.primary_key # <<>> => Generated[name].pk = table.primary_key
                            /\ table.primary_key = <<>> => Generated[name].pk = Options(config, name).key
                            /\ \A n \in Range(Generated[name].pk) :
                                 /\ n \in ModelColumns(Generated[name])
                                 /\ ~ModelColumn(Generated[name], n).nullable
    BY DEF KeyIdentifiesRows
  <2> DEFINE table == Find(schema, name)
             seen  == Find(KeptTables(Canonical(schema), config), name)
             model == Generated[name]
             key   == DeclaredKey(config, seen)
  <2>2. /\ \E s \in Shapes[config.dialect] : OfShape(table, s)
        /\ table.name = name /\ seen.name = name
        /\ \A f \in TableFields : f # "foreign_keys" => seen[f] = table[f]
        /\ TableRefusals(config, seen) \subseteq output.refusals
        /\ model.columns = ResolveTable(config, seen).columns
        /\ model.pk = ResolveTable(config, seen).pk
        /\ model.writable = ResolveTable(config, seen).writable
    BY <2>1, TableOfModel
  <2> HIDE DEF table, seen, model
  <2>3. /\ seen.primary_key = table.primary_key /\ seen.columns = table.columns
        /\ TableRefusals(config, seen) = {}
    BY <2>1, <2>2 DEF TableFields, Generates
  <2>4. PICK s \in Shapes[config.dialect] : OfShape(table, s)
    BY <2>2
  <2>5. config.dialect \in Dialects
    BY <2>1, ConfigsAssumption DEF SchemaOK
  <2>6. /\ IsList(seen.columns) /\ IsList(seen.primary_key)
        /\ \A column \in Range(seen.columns) :
              column.name \in Range(seen.primary_key) => ~column.nullable
    BY <2>3, <2>4, <2>5, ShapesAssumption DEF OfShape, IsList
  <2>7. /\ model.writable <=> CatalogKey(config, seen) \/ key # <<>>
        /\ model.pk = ModelKey(config, seen)
    BY <2>2 DEF ResolveTable, Writable
  <2>8. /\ \A m \in Range(model.columns) :
             \E column \in Range(seen.columns) :
                /\ m.db_name = column.name
                /\ m.nullable = (column.nullable /\ column.name \notin Asserted(config, seen))
        /\ \A n \in Kept(config, seen) : \E m \in Range(model.columns) : m.db_name = n
    BY <2>2, <2>6, ModelColumnsAre
  <2>9. ASSUME NEW n \in Kept(config, seen),
               n \in Range(seen.primary_key) \/ n \in Asserted(config, seen)
        PROVE  n \in ModelColumns(model) /\ ~ModelColumn(model, n).nullable
    <3>1. \E m \in Range(model.columns) : m.db_name = n
      BY <2>8
    <3> DEFINE m == ModelColumn(model, n)
    <3>2. m \in Range(model.columns) /\ m.db_name = n
      BY <3>1 DEF ModelColumn
    <3> HIDE DEF m
    <3>3. PICK column \in Range(seen.columns) :
             /\ m.db_name = column.name
             /\ m.nullable = (column.nullable /\ column.name \notin Asserted(config, seen))
      BY <2>8, <3>2
    <3>4. ~column.nullable \/ column.name \in Asserted(config, seen)
      BY <2>6, <2>9, <3>2, <3>3
    <3>5. ~m.nullable
      BY <3>3, <3>4
    <3>6. QED  BY <3>1, <3>5 DEF ModelColumns, m
  <2>10. CASE CatalogKey(config, seen)
    <3>1. seen.primary_key # <<>> /\ Range(seen.primary_key) \subseteq Kept(config, seen)
      BY <2>10 DEF CatalogKey
    <3> DEFINE pk == seen.primary_key
               S == Range(pk)
               I == {i \in DOMAIN pk : pk[i] \in Kept(config, seen)}
    <3>2. model.pk = Subsequence(pk, I)
      BY <2>7, <2>10 DEF ModelKey
    <3>3. pk \in Seq(S)
      BY <2>6 DEF IsList
    <3>4. 1..Len(pk) \subseteq I
      BY <3>1, <3>3 DEF Range
    <3> HIDE DEF I, S, pk
    <3>5. model.pk = pk
      BY <3>2, <3>3, <3>4, SubsequenceWhole
    <3>6. \A n \in Range(model.pk) : n \in Kept(config, seen) /\ n \in Range(seen.primary_key)
      BY <3>1, <3>5 DEF pk
    <3>7. \A n \in Range(model.pk) : n \in ModelColumns(model) /\ ~ModelColumn(model, n).nullable
      BY <2>9, <3>6
    <3>8. QED  BY <2>3, <3>1, <3>5, <3>7 DEF pk, table, model
  <2>11. CASE ~CatalogKey(config, seen)
    <3>1. key # <<>>
      BY <2>1, <2>7, <2>11 DEF model
    <3>2. seen.primary_key = <<>> /\ Range(key) \subseteq Kept(config, seen)
      BY <2>3, <3>1, DeclaredKeyChecked
    <3>3. model.pk = key /\ Asserted(config, seen) = Range(key)
      BY <2>7, <2>11 DEF ModelKey, Asserted
    <3>4. key = Options(config, name).key
      BY <2>2 DEF DeclaredKey
    <3> HIDE DEF key
    <3>5. \A n \in Range(model.pk) : n \in ModelColumns(model) /\ ~ModelColumn(model, n).nullable
      BY <2>9, <3>2, <3>3
    <3>6. QED  BY <2>3, <3>1, <3>2, <3>3, <3>4, <3>5 DEF table, model
  <2>12. QED  BY <2>10, <2>11
<1>2. QED  BY <1>1, SchemaStays, PTL

-----------------------------------------------------------------------------
(* The order of the foreign keys.                                           *)

\* Of two names with ranked words, one comes before the other.
LEMMA NamesAreTotal ==
  ASSUME NEW a, IsName(a), NEW b, IsName(b), a # b
  PROVE  NameBefore(a, b) \/ NameBefore(b, a)
<1>1. /\ a \in Seq(DOMAIN Rank) /\ Len(a) \in 1..MaxWords /\ DOMAIN a = 1..Len(a)
      /\ b \in Seq(DOMAIN Rank) /\ Len(b) \in 1..MaxWords /\ DOMAIN b = 1..Len(b)
  BY DEF IsName
<1>2. ASSUME NEW s, s \in Seq(DOMAIN Rank), NEW i \in 1..MaxWords
      PROVE  /\ i \in 1..Len(s) => At(s, i) = Rank[s[i]] /\ At(s, i) \in Nat
             /\ i \notin 1..Len(s) => At(s, i) = -1
  <2>1. DOMAIN s = 1..Len(s)
    BY <1>2
  <2>2. CASE i \in 1..Len(s)
    <3>1. s[i] \in DOMAIN Rank
      BY <1>2, <2>2
    <3>2. Rank[s[i]] \in Nat
      BY <3>1, RankAssumption
    <3>3. QED  BY <2>1, <2>2, <3>1, <3>2 DEF At, Lookup
  <2>3. CASE i \notin 1..Len(s)
    BY <2>1, <2>3 DEF At
  <2>4. QED  BY <2>2, <2>3
<1> DEFINE Differ == {i \in 1..MaxWords : At(a, i) # At(b, i)}
<1>3. Differ # {}
  <2>1. SUFFICES ASSUME \A i \in 1..MaxWords : At(a, i) = At(b, i)  PROVE FALSE
    OBVIOUS
  <2>2. Len(a) = Len(b)
    <3>1. MaxWords = 6
      BY DEF MaxWords
    <3>2. CASE Len(a) < Len(b)
      <4>1. Len(b) \in 1..MaxWords /\ Len(b) \in 1..Len(b) /\ Len(b) \notin 1..Len(a)
        BY <1>1, <3>1, <3>2
      <4>2. At(b, Len(b)) \in Nat /\ At(a, Len(b)) = -1
        BY <1>1, <1>2, <4>1
      <4>3. QED  BY <2>1, <4>1, <4>2
    <3>3. CASE Len(b) < Len(a)
      <4>1. Len(a) \in 1..MaxWords /\ Len(a) \in 1..Len(a) /\ Len(a) \notin 1..Len(b)
        BY <1>1, <3>1, <3>3
      <4>2. At(a, Len(a)) \in Nat /\ At(b, Len(a)) = -1
        BY <1>1, <1>2, <4>1
      <4>3. QED  BY <2>1, <4>1, <4>2
    <3>4. Len(a) \in Nat /\ Len(b) \in Nat
      BY <1>1
    <3>5. QED  BY <3>2, <3>3, <3>4
  <2>3. ASSUME NEW i \in 1..Len(a)  PROVE a[i] = b[i]
    <3>1. i \in 1..MaxWords /\ i \in 1..Len(b)
      <4>1. Len(a) \in 1..MaxWords /\ MaxWords \in Nat
        BY <1>1 DEF MaxWords
      <4> DEFINE n == Len(a)
      <4> HIDE DEF n
      <4>2. n \in 1..MaxWords /\ i \in 1..n
        BY <4>1 DEF n
      <4>3. i \in 1..MaxWords
        BY <4>1, <4>2
      <4>4. QED  BY <2>2, <4>3
    <3>2. At(a, i) = Rank[a[i]] /\ At(b, i) = Rank[b[i]]
      BY <1>1, <1>2, <3>1
    <3>3. a[i] \in DOMAIN Rank /\ b[i] \in DOMAIN Rank
      BY <1>1, <3>1
    <3>4. QED  BY <2>1, <3>1, <3>2, <3>3, RankAssumption
  <2>4. a = b
    BY <1>1, <2>2, <2>3
  <2>5. QED  BY <2>4
<1>4. Differ \subseteq Nat
  OBVIOUS
<1>5. PICK d \in Differ : \A k \in Differ : d <= k
  BY <1>3, <1>4, LeastNatural
<1>6. /\ d \in 1..MaxWords /\ At(a, d) # At(b, d)
      /\ At(a, d) \in Int /\ At(b, d) \in Int
  BY <1>5, AtIsInt
<1>7. \A j \in 1..(d - 1) : At(a, j) = At(b, j)
  <2>1. SUFFICES ASSUME NEW j \in 1..(d - 1)  PROVE At(a, j) = At(b, j)
    OBVIOUS
  <2>2. j \in 1..MaxWords /\ ~(d <= j)
    BY <1>6 DEF MaxWords
  <2>3. QED  BY <1>5, <2>2
<1>8. At(a, d) < At(b, d) \/ At(b, d) < At(a, d)
  BY <1>6
<1>9. QED  BY <1>6, <1>7, <1>8 DEF NameBefore

\* No name comes before none, and none before every name.
LEMMA NoneComesFirst ==
  /\ \A a : ~NameBefore(a, Unnamed)
  /\ \A b : IsName(b) => NameBefore(Unnamed, b)
<1>1. \A i : At(Unnamed, i) = -1
  <2>1. DOMAIN Unnamed = {}
    BY DEF Unnamed
  <2>2. QED  BY <2>1 DEF At
<1>2. \A a, i : At(a, i) \in Int /\ At(a, i) >= -1
  <2>1. SUFFICES ASSUME NEW a, NEW i  PROVE At(a, i) \in Int /\ At(a, i) >= -1
    OBVIOUS
  <2>2. Lookup(Rank, a[i], 0) \in Nat
    BY RankAssumption DEF Lookup
  <2>3. QED  BY <2>2 DEF At
<1>3. \A a : ~NameBefore(a, Unnamed)
  <2>1. SUFFICES ASSUME NEW a, NEW i, At(a, i) < At(Unnamed, i)  PROVE FALSE
    BY DEF NameBefore
  <2>2. QED  BY <1>1, <1>2, <2>1
<1>4. ASSUME NEW b, IsName(b)  PROVE NameBefore(Unnamed, b)
  <2>1. b \in Seq(DOMAIN Rank) /\ Len(b) \in 1..MaxWords
    BY <1>4 DEF IsName
  <2>2. 1 \in DOMAIN b /\ b[1] \in DOMAIN Rank
    BY <2>1
  <2>3. Rank[b[1]] \in Nat
    BY <2>2, RankAssumption
  <2>4. At(b, 1) \in Nat
    BY <2>2, <2>3 DEF At, Lookup
  <2>5. At(Unnamed, 1) < At(b, 1)
    BY <1>1, <2>4
  <2>6. 1 \in 1..MaxWords /\ 1..(1 - 1) = {}
    BY DEF MaxWords
  <2>7. QED  BY <2>5, <2>6 DEF NameBefore
<1>5. QED  BY <1>3, <1>4

Nth(a, i)    == Lookup(a, i, Unnamed)
ColumnsOK(a) == IsList(a) /\ \A i \in DOMAIN a : IsName(a[i])

LEMMA NthIs ==
  ASSUME NEW a, ColumnsOK(a), NEW i
  PROVE  /\ i \in DOMAIN a => Nth(a, i) = a[i] /\ IsName(Nth(a, i)) /\ Nth(a, i) # Unnamed
         /\ i \notin DOMAIN a => Nth(a, i) = Unnamed
<1>1. ASSUME i \in DOMAIN a  PROVE Nth(a, i) = a[i] /\ IsName(a[i]) /\ a[i] # Unnamed
  <2>1. Nth(a, i) = a[i] /\ IsName(a[i])
    BY <1>1 DEF Nth, Lookup, ColumnsOK
  <2>2. Len(a[i]) # 0
    BY <2>1 DEF IsName
  <2>3. QED  BY <2>1, <2>2 DEF Unnamed
<1>2. QED  BY <1>1 DEF Nth, Lookup

\* Two columns in their places, one of them perhaps missing.
LEMMA NthCompare ==
  ASSUME NEW a, ColumnsOK(a), NEW b, ColumnsOK(b), NEW i, Nth(a, i) # Nth(b, i)
  PROVE  NameBefore(Nth(a, i), Nth(b, i)) \/ NameBefore(Nth(b, i), Nth(a, i))
<1>1. CASE i \in DOMAIN a /\ i \in DOMAIN b
  BY <1>1, NthIs, NamesAreTotal
<1>2. CASE i \in DOMAIN a /\ i \notin DOMAIN b
  BY <1>2, NthIs, NoneComesFirst
<1>3. CASE i \notin DOMAIN a /\ i \in DOMAIN b
  BY <1>3, NthIs, NoneComesFirst
<1>4. CASE i \notin DOMAIN a /\ i \notin DOMAIN b
  BY <1>4, NthIs
<1>5. QED  BY <1>1, <1>2, <1>3, <1>4

FirstBefore(a, b, i) ==
    /\ NameBefore(Nth(a, i), Nth(b, i))
    /\ \A j \in 1..(i - 1) : Nth(a, j) = Nth(b, j)

LEMMA ColumnsBeforeIs ==
  ASSUME NEW a, ColumnsOK(a), NEW b, ColumnsOK(b)
  PROVE  ColumnsBefore(a, b) <=> \E i \in Nat \ {0} : FirstBefore(a, b, i)
<1>1. Len(b) \in Nat /\ DOMAIN b = 1..Len(b)
  BY DEF ColumnsOK, IsList
<1>2. ASSUME ColumnsBefore(a, b)  PROVE \E i \in Nat \ {0} : FirstBefore(a, b, i)
  <2>1. PICK i \in DOMAIN b :
           /\ NameBefore(Lookup(a, i, Unnamed), b[i])
           /\ \A j \in 1..(i - 1) : Lookup(a, j, Unnamed) = b[j]
    BY <1>2 DEF ColumnsBefore
  <2>2. i \in Nat \ {0} /\ \A j \in 1..(i - 1) : j \in DOMAIN b
    BY <1>1
  <2>3. Nth(b, i) = b[i] /\ \A j \in 1..(i - 1) : Nth(b, j) = b[j]
    BY <2>2, NthIs
  <2>4. FirstBefore(a, b, i)
    BY <2>1, <2>3 DEF FirstBefore, Nth
  <2>5. QED  BY <2>2, <2>4
<1>3. ASSUME NEW i \in Nat \ {0}, FirstBefore(a, b, i)  PROVE ColumnsBefore(a, b)
  <2>1. Nth(b, i) # Unnamed
    BY <1>3, NoneComesFirst DEF FirstBefore
  <2>2. i \in DOMAIN b
    BY <2>1, NthIs
  <2>3. \A j \in 1..(i - 1) : j \in DOMAIN b
    BY <1>1, <2>2
  <2>4. Nth(b, i) = b[i] /\ \A j \in 1..(i - 1) : Nth(b, j) = b[j]
    BY <2>2, <2>3, NthIs
  <2>5. /\ NameBefore(Lookup(a, i, Unnamed), b[i])
        /\ \A j \in 1..(i - 1) : Lookup(a, j, Unnamed) = b[j]
    BY <1>3, <2>4 DEF FirstBefore, Nth
  <2>6. QED  BY <2>2, <2>5 DEF ColumnsBefore
<1>4. QED  BY <1>2, <1>3

LEMMA ColumnsCompare ==
  /\ \A a, b : ColumnsOK(a) /\ ColumnsOK(b) /\ ColumnsBefore(a, b) => ~ColumnsBefore(b, a)
  /\ \A a, b, c : /\ ColumnsOK(a) /\ ColumnsOK(b) /\ ColumnsOK(c)
                  /\ ColumnsBefore(a, c)
                  => ColumnsBefore(a, b) \/ ColumnsBefore(b, c)
  /\ \A a, b : ColumnsOK(a) /\ ColumnsOK(b) /\ a # b => ColumnsBefore(a, b) \/ ColumnsBefore(b, a)
<1>1. ASSUME NEW a, ColumnsOK(a), NEW b, ColumnsOK(b), ColumnsBefore(a, b), ColumnsBefore(b, a)
      PROVE  FALSE
  <2>1. PICK i \in Nat \ {0} : FirstBefore(a, b, i)
    BY <1>1, ColumnsBeforeIs
  <2>2. PICK k \in Nat \ {0} : FirstBefore(b, a, k)
    BY <1>1, ColumnsBeforeIs
  <2>3. i = k \/ i \in 1..(k - 1) \/ k \in 1..(i - 1)
    OBVIOUS
  <2>4. \A x : ~NameBefore(x, x)
    BY NamesCompare
  <2>5. CASE i = k
    BY <2>1, <2>2, <2>5, NamesCompare DEF FirstBefore
  <2>6. CASE i \in 1..(k - 1)
    BY <2>1, <2>2, <2>4, <2>6 DEF FirstBefore
  <2>7. CASE k \in 1..(i - 1)
    BY <2>1, <2>2, <2>4, <2>7 DEF FirstBefore
  <2>8. QED  BY <2>3, <2>5, <2>6, <2>7
<1>2. ASSUME NEW a, ColumnsOK(a), NEW b, ColumnsOK(b), NEW c, ColumnsOK(c), ColumnsBefore(a, c)
      PROVE  ColumnsBefore(a, b) \/ ColumnsBefore(b, c)
  <2>1. PICK i \in Nat \ {0} : FirstBefore(a, c, i)
    BY <1>2, ColumnsBeforeIs
  <2>2. /\ NameBefore(Nth(a, i), Nth(c, i))
        /\ \A j \in 1..(i - 1) : Nth(a, j) = Nth(c, j)
    BY <2>1 DEF FirstBefore
  <2> DEFINE Differ == {j \in 1..(i - 1) : Nth(a, j) # Nth(b, j)}
  <2>3. CASE Differ = {}
    <3>1. /\ \A j \in 1..(i - 1) : Nth(a, j) = Nth(b, j)
          /\ \A j \in 1..(i - 1) : Nth(b, j) = Nth(c, j)
      BY <2>2, <2>3
    <3>2. NameBefore(Nth(a, i), Nth(b, i)) \/ NameBefore(Nth(b, i), Nth(c, i))
      BY <2>2, NamesCompare
    <3>3. FirstBefore(a, b, i) \/ FirstBefore(b, c, i)
      BY <3>1, <3>2 DEF FirstBefore
    <3>4. QED  BY <1>2, <3>3, ColumnsBeforeIs
  <2>4. CASE Differ # {}
    <3>1. PICK d \in Differ : \A j \in Differ : d <= j
      <4>1. Differ \subseteq Nat
        OBVIOUS
      <4>2. QED  BY <2>4, <4>1, LeastNatural
    <3>2. d \in 1..(i - 1) /\ d \in Nat \ {0} /\ Nth(a, d) # Nth(b, d)
      BY <3>1
    <3>3. \A j \in 1..(d - 1) : j \in 1..(i - 1) /\ ~(d <= j)
      BY <3>2
    <3>4. \A j \in 1..(d - 1) : Nth(a, j) = Nth(b, j) /\ Nth(b, j) = Nth(c, j)
      BY <2>2, <3>1, <3>3
    <3>5. Nth(a, d) = Nth(c, d)
      BY <2>2, <3>2
    <3>6. NameBefore(Nth(a, d), Nth(b, d)) \/ NameBefore(Nth(b, d), Nth(c, d))
      BY <1>2, <3>2, <3>5, NthCompare
    <3>7. FirstBefore(a, b, d) \/ FirstBefore(b, c, d)
      BY <3>4, <3>6 DEF FirstBefore
    <3>8. QED  BY <1>2, <3>2, <3>7, ColumnsBeforeIs
  <2>5. QED  BY <2>3, <2>4
<1>3. ASSUME NEW a, ColumnsOK(a), NEW b, ColumnsOK(b), a # b
      PROVE  ColumnsBefore(a, b) \/ ColumnsBefore(b, a)
  <2> DEFINE Differ == {j \in Nat \ {0} : Nth(a, j) # Nth(b, j)}
  <2>1. /\ Len(a) \in Nat /\ DOMAIN a = 1..Len(a) /\ a = [i \in 1..Len(a) |-> a[i]]
        /\ Len(b) \in Nat /\ DOMAIN b = 1..Len(b) /\ b = [i \in 1..Len(b) |-> b[i]]
    BY <1>3 DEF ColumnsOK, IsList
  <2>2. Differ # {}
    <3>1. SUFFICES ASSUME \A j \in Nat \ {0} : Nth(a, j) = Nth(b, j)  PROVE FALSE
      OBVIOUS
    <3>2. \A j \in Nat \ {0} : j \in DOMAIN a <=> j \in DOMAIN b
      BY <1>3, <3>1, NthIs
    <3>3. \A j \in 1..Len(a) : j \in Nat \ {0} /\ j \in DOMAIN b
      BY <2>1, <3>2
    <3>4. \A j \in 1..Len(b) : j \in Nat \ {0} /\ j \in DOMAIN a
      BY <2>1, <3>2
    <3>5. Len(a) = Len(b)
      <4>1. CASE Len(a) < Len(b)
        <5>1. Len(b) \in 1..Len(b) /\ Len(b) \notin 1..Len(a)
          BY <2>1, <4>1
        <5>2. QED  BY <2>1, <3>4, <5>1
      <4>2. CASE Len(b) < Len(a)
        <5>1. Len(a) \in 1..Len(a) /\ Len(a) \notin 1..Len(b)
          BY <2>1, <4>2
        <5>2. QED  BY <2>1, <3>3, <5>1
      <4>3. Len(a) \in Nat /\ Len(b) \in Nat
        BY <2>1
      <4>4. Len(a) = Len(b) \/ Len(a) < Len(b) \/ Len(b) < Len(a)
        BY <4>3
      <4>5. QED  BY <4>1, <4>2, <4>4
    <3>6. \A j \in 1..Len(a) : a[j] = b[j]
      <4>1. SUFFICES ASSUME NEW j \in 1..Len(a)  PROVE a[j] = b[j]
        OBVIOUS
      <4>2. j \in Nat \ {0} /\ j \in DOMAIN a /\ j \in DOMAIN b
        BY <2>1, <3>3
      <4>3. Nth(a, j) = a[j] /\ Nth(b, j) = b[j]
        BY <1>3, <4>2, NthIs
      <4>4. QED  BY <3>1, <4>2, <4>3
    <3>7. QED  BY <1>3, <2>1, <3>5, <3>6
  <2>3. PICK d \in Differ : \A j \in Differ : d <= j
    <3>1. Differ \subseteq Nat
      OBVIOUS
    <3>2. QED  BY <2>2, <3>1, LeastNatural
  <2>4. d \in Nat \ {0} /\ Nth(a, d) # Nth(b, d)
    BY <2>3
  <2>5. \A j \in 1..(d - 1) : Nth(a, j) = Nth(b, j)
    <3>1. \A j \in 1..(d - 1) : j \in Nat \ {0} /\ ~(d <= j)
      BY <2>4
    <3>2. QED  BY <2>3, <3>1
  <2>6. NameBefore(Nth(a, d), Nth(b, d)) \/ NameBefore(Nth(b, d), Nth(a, d))
    BY <1>3, <2>4, NthCompare
  <2>7. FirstBefore(a, b, d) \/ FirstBefore(b, a, d)
    BY <2>5, <2>6 DEF FirstBefore
  <2>8. QED  BY <1>3, <2>4, <2>7, ColumnsBeforeIs
<1>4. QED  BY <1>1, <1>2, <1>3

\* Under an order without ties, a rearranged list sorts to the same list.
LEMMA SortForgets ==
  ASSUME NEW s, IsList(s), NEW t, IsList(t), Len(t) = Len(s),
         NEW at \in Bijection(1..Len(s), 1..Len(s)),
         \A n \in 1..Len(s) : t[n] = s[at[n]],
         NEW less, IsOrder(less, DOMAIN s),
         \A i, j \in DOMAIN s : i # j => <<i, j>> \in less \/ <<j, i>> \in less,
         NEW lest, \A i, j \in DOMAIN s : <<i, j>> \in lest <=> <<at[i], at[j]>> \in less
  PROVE  Sorted(t, lest) = Sorted(s, less)
<1> DEFINE N == Len(s)
<1>1. N \in Nat /\ DOMAIN s = 1..N /\ DOMAIN t = 1..N
  BY DEF IsList
<1>2. /\ at \in [1..N -> 1..N]
      /\ \A i, j \in 1..N : at[i] = at[j] => i = j
      /\ \A m \in 1..N : \E n \in 1..N : at[n] = m
  BY DEF Bijection, Injection, IsInjective, Surjection
<1>3. Len(t) = N
  OBVIOUS
<1> HIDE DEF N
<1>4. \A i \in 1..N : <<i, i>> \notin less /\ <<i, i>> \notin lest
  <2>1. \A i \in DOMAIN s : <<i, i>> \notin less
    BY DEF IsOrder
  <2>2. SUFFICES ASSUME NEW i \in 1..N  PROVE <<i, i>> \notin less /\ <<i, i>> \notin lest
    OBVIOUS
  <2>3. i \in DOMAIN s /\ at[i] \in DOMAIN s
    BY <1>1, <1>2
  <2>4. <<i, i>> \in lest <=> <<at[i], at[i]>> \in less
    BY <2>3
  <2>5. QED  BY <2>1, <2>3, <2>4
<1>5. \A i, j \in 1..N : Precedes(less, j, i) <=> <<j, i>> \in less
  <2>1. SUFFICES ASSUME NEW i \in 1..N, NEW j \in 1..N
                 PROVE  Precedes(less, j, i) <=> <<j, i>> \in less
    OBVIOUS
  <2>2. CASE i = j
    BY <1>1, <1>4, <2>2 DEF Precedes
  <2>3. CASE i # j
    <3>1. <<i, j>> \in less \/ <<j, i>> \in less
      BY <1>1, <2>3
    <3>2. QED  BY <3>1 DEF Precedes
  <2>4. QED  BY <2>2, <2>3
<1>6. \A i, j \in 1..N : Precedes(lest, j, i) <=> <<at[j], at[i]>> \in less
  <2>1. SUFFICES ASSUME NEW i \in 1..N, NEW j \in 1..N
                 PROVE  Precedes(lest, j, i) <=> <<at[j], at[i]>> \in less
    OBVIOUS
  <2>2. /\ <<i, j>> \in lest <=> <<at[i], at[j]>> \in less
        /\ <<j, i>> \in lest <=> <<at[j], at[i]>> \in less
    BY <1>1
  <2>3. CASE i = j
    BY <1>1, <1>4, <2>2, <2>3 DEF Precedes
  <2>4. CASE i # j
    <3>1. at[i] \in 1..N /\ at[j] \in 1..N /\ at[i] # at[j]
      BY <1>2, <2>4
    <3>2. <<at[i], at[j]>> \in less \/ <<at[j], at[i]>> \in less
      BY <1>1, <3>1
    <3>3. QED  BY <2>2, <3>2 DEF Precedes
  <2>5. QED  BY <2>3, <2>4
<1>7. ASSUME NEW i \in 1..N  PROVE Place(t, lest, i) = Place(s, less, at[i])
  <2> DEFINE A == {j \in DOMAIN t : Precedes(lest, j, i)}
             B == {j \in DOMAIN s : Precedes(less, j, at[i])}
             f == [j \in A |-> at[j]]
  <2>1. at[i] \in 1..N
    BY <1>2
  <2>2. A \subseteq 1..N /\ B \subseteq 1..N
    BY <1>1
  <2>3. \A j \in 1..N : j \in A <=> at[j] \in B
    BY <1>1, <1>2, <1>5, <1>6, <2>1
  <2> HIDE DEF A, B
  <2>4. f \in [A -> B]
    BY <1>2, <2>2, <2>3
  <2>5. f \in Injection(A, B)
    BY <1>2, <2>2, <2>4 DEF Injection, IsInjective
  <2>6. \A m \in B : \E j \in A : f[j] = m
    BY <1>2, <2>2, <2>3
  <2>7. f \in Bijection(A, B)
    BY <2>4, <2>5, <2>6 DEF Bijection, Surjection
  <2>8. IsFiniteSet(A)
    <3>1. IsFiniteSet(1..N)
      BY <1>1, FS_Interval
    <3>2. QED  BY <2>2, <3>1, FS_Subset
  <2>9. Cardinality(A) = Cardinality(B)
    BY <2>7, <2>8, FS_Bijection DEF ExistsBijection
  <2>10. QED  BY <2>9 DEF Place, A, B
<1>8. /\ \A i \in 1..N : Place(s, less, i) \in 1..N
      /\ \A i, k \in 1..N : Place(s, less, i) = Place(s, less, k) => i = k
      /\ \A n \in 1..N : \E i \in 1..N : Place(s, less, i) = n
  <2> DEFINE S == Range(s)
  <2>1. s \in Seq(S)
    BY DEF IsList
  <2> HIDE DEF S
  <2>2. QED  BY <1>1, <2>1, Places DEF N
<1>9. ASSUME NEW n \in 1..N  PROVE Taken1(t, lest, n) = Taken1(s, less, n)
  <2> DEFINE k == CHOOSE i \in DOMAIN s : Place(s, less, i) = n
             m == CHOOSE i \in DOMAIN t : Place(t, lest, i) = n
  <2>1. k \in 1..N /\ Place(s, less, k) = n
    BY <1>1, <1>8
  <2> HIDE DEF k
  <2>2. PICK i \in 1..N : at[i] = k
    BY <1>2, <2>1
  <2>3. Place(t, lest, i) = n
    BY <1>7, <2>1, <2>2
  <2>4. m \in 1..N /\ Place(t, lest, m) = n
    BY <1>1, <2>3
  <2> HIDE DEF m
  <2>5. at[m] \in 1..N /\ Place(s, less, at[m]) = n
    BY <1>2, <1>7, <2>4
  <2>6. at[m] = k
    <3>1. \A x, y \in 1..N : Place(s, less, x) = Place(s, less, y) => x = y
      BY <1>8
    <3>2. Place(s, less, at[m]) = Place(s, less, k)
      BY <2>1, <2>5
    <3>3. k \in 1..N /\ at[m] \in 1..N
      BY <2>1, <2>5
    <3> DEFINE p == at[m]
    <3>4. Place(s, less, p) = Place(s, less, k) => p = k
      <4> HIDE DEF p
      <4>1. p \in 1..N
        BY <3>3 DEF p
      <4>2. QED  BY <3>1, <3>3, <4>1
    <3>5. QED  BY <3>2, <3>4
  <2>7. t[m] = s[k]
    BY <2>4, <2>6 DEF N
  <2>8. QED  BY <2>7 DEF Taken1, k, m
<1>10. Sorted(s, less) = [n \in 1..N |-> Taken1(s, less, n)]
  BY <1>1, SortedIs DEF N
<1>11. Sorted(t, lest) = [n \in 1..N |-> Taken1(t, lest, n)]
  BY <1>1, <1>3, SortedIs
<1>12. QED  BY <1>9, <1>10, <1>11


\* The order an engine lists a table's foreign keys in leaves no trace.
LEMMA KeysReversed ==
  ASSUME NEW keys, KeysOK(keys)
  PROVE  KeysSorted(Reverse(keys)) = KeysSorted(keys)
<1> DEFINE N == Len(keys)
           t == Reverse(keys)
           D == DOMAIN keys
           at == [i \in 1..N |-> (N - i) + 1]
           less == {p \in D \X D : ColumnsBefore(keys[p[1]].columns, keys[p[2]].columns)}
           lest == {p \in (DOMAIN t) \X (DOMAIN t) : ColumnsBefore(t[p[1]].columns, t[p[2]].columns)}
<1>1. N \in Nat /\ DOMAIN keys = 1..N /\ IsList(keys)
  BY DEF KeysOK, IsList
<1>2. KeysSorted(keys) = Sorted(keys, less) /\ KeysSorted(t) = Sorted(t, lest)
  BY DEF KeysSorted
<1>3. t = [i \in 1..N |-> keys[(N - i) + 1]]
  BY DEF Reverse
<1>4. \A i \in D : ColumnsOK(keys[i].columns)
  <2>1. SUFFICES ASSUME NEW i \in D  PROVE ColumnsOK(keys[i].columns)
    OBVIOUS
  <2>2. PICK r \in References : keys[i] = r.key
    BY DEF KeysOK
  <2>3. /\ r.key.columns \in Seq(Range(r.key.columns))
        /\ \A n \in Range(r.key.columns) : IsName(n)
    BY ReferencesAssumption
  <2>4. \A k \in DOMAIN r.key.columns : r.key.columns[k] \in Range(r.key.columns)
    BY DEF Range
  <2>5. QED  BY <2>2, <2>3, <2>4 DEF ColumnsOK, IsList
<1>5. \A i, j \in D : keys[i].columns = keys[j].columns => i = j
  BY DEF KeysOK
<1>6. \A i, j \in D : <<i, j>> \in less <=> ColumnsBefore(keys[i].columns, keys[j].columns)
  OBVIOUS
<1>7. \A i, j \in DOMAIN t : <<i, j>> \in lest <=> ColumnsBefore(t[i].columns, t[j].columns)
  OBVIOUS
<1> HIDE DEF N, t, less, lest, D
<1>8. DOMAIN t = 1..N /\ t = [i \in 1..N |-> t[i]] /\ D = 1..N
  BY <1>1, <1>3 DEF D
<1>9. IsList(t) /\ Len(t) = N
  BY <1>1, <1>8, ListMade
<1>10. at \in [1..N -> 1..N] /\ \A i \in 1..N : at[i] = (N - i) + 1
  BY <1>1
<1> HIDE DEF at
<1>11. at \in Bijection(1..N, 1..N)
  <2>1. \A i, j \in 1..N : at[i] = at[j] => i = j
    BY <1>1, <1>10
  <2>2. \A m \in 1..N : (N - m) + 1 \in 1..N /\ at[(N - m) + 1] = m
    BY <1>1, <1>10
  <2>3. \A m \in 1..N : \E n \in 1..N : at[n] = m
    BY <2>2
  <2>4. QED  BY <1>10, <2>1, <2>3 DEF Bijection, Injection, IsInjective, Surjection
<1>12. \A n \in 1..N : at[n] \in 1..N /\ t[n] = keys[at[n]]
  BY <1>3, <1>10
<1>13. IsOrder(less, D)
  <2>1. \A i, j \in D : <<i, j>> \in less => <<j, i>> \notin less
    BY <1>4, <1>6, ColumnsCompare
  <2>2. \A i, j, k \in D : <<i, k>> \in less => <<i, j>> \in less \/ <<j, k>> \in less
    BY <1>4, <1>6, ColumnsCompare
  <2>3. QED  BY <2>1, <2>2 DEF IsOrder
<1>14. \A i, j \in D : i # j => <<i, j>> \in less \/ <<j, i>> \in less
  BY <1>4, <1>5, <1>6, ColumnsCompare
<1>15. \A i, j \in D : <<i, j>> \in lest <=> <<at[i], at[j]>> \in less
  <2>1. SUFFICES ASSUME NEW i \in D, NEW j \in D
                 PROVE  <<i, j>> \in lest <=> <<at[i], at[j]>> \in less
    OBVIOUS
  <2>2. at[i] \in D /\ at[j] \in D /\ t[i] = keys[at[i]] /\ t[j] = keys[at[j]]
    BY <1>8, <1>12
  <2>3. <<i, j>> \in lest <=> ColumnsBefore(t[i].columns, t[j].columns)
    BY <1>7, <1>8
  <2>4. <<at[i], at[j]>> \in less <=> ColumnsBefore(keys[at[i]].columns, keys[at[j]].columns)
    BY <1>6, <2>2
  <2>5. QED  BY <2>2, <2>3, <2>4
<1>16. Sorted(t, lest) = Sorted(keys, less)
  <2>1. at \in Bijection(1..Len(keys), 1..Len(keys)) /\ Len(t) = Len(keys)
    BY <1>9, <1>11 DEF N
  <2>2. \A n \in 1..Len(keys) : t[n] = keys[at[n]]
    BY <1>12 DEF N
  <2>3. /\ IsOrder(less, DOMAIN keys)
        /\ \A i, j \in DOMAIN keys : i # j => <<i, j>> \in less \/ <<j, i>> \in less
        /\ \A i, j \in DOMAIN keys : <<i, j>> \in lest <=> <<at[i], at[j]>> \in less
    BY <1>13, <1>14, <1>15 DEF D
  <2>4. QED  BY <1>1, <1>9, <2>1, <2>2, <2>3, SortForgets
<1>17. QED  BY <1>2, <1>16 DEF t

\* Same schema and configuration, same files: canonicalise sorts what the
\* engine listed in an order of its own, and no two keys compare equal
\* (introspect's contract of determinism).
THEOREM OrderForgotten == Spec => []CatalogOrderForgotten
<1>1. SchemaOK => CatalogOrderForgotten
  <2> DEFINE reversed == [i \in DOMAIN schema |->
                             [schema[i] EXCEPT !.foreign_keys = Reverse(@)]]
             can(sch, i) == [sch[i] EXCEPT !.foreign_keys = KeysSorted(@)]
  <2>1. SUFFICES ASSUME SchemaOK  PROVE CatalogOrderForgotten
    OBVIOUS
  <2>2. /\ output = ResolveAll(schema, config)
        /\ \A i \in DOMAIN schema : DOMAIN schema[i] = TableFields /\ KeysOK(schema[i].foreign_keys)
    <3>1. \A t \in Range(schema) : DOMAIN t = TableFields /\ KeysOK(t.foreign_keys)
      BY <2>1 DEF SchemaOK, TableOK, OfShape
    <3>2. QED  BY <2>1, <3>1 DEF SchemaOK, Range
  <2>3. \A i \in DOMAIN schema : can(reversed, i) = can(schema, i)
    <3>1. SUFFICES ASSUME NEW i \in DOMAIN schema  PROVE can(reversed, i) = can(schema, i)
      OBVIOUS
    <3> DEFINE t == schema[i]
               k == t.foreign_keys
               u == [t EXCEPT !.foreign_keys = Reverse(k)]
    <3>2. DOMAIN t = TableFields /\ KeysSorted(Reverse(k)) = KeysSorted(k)
      BY <2>2, KeysReversed
    <3>3. reversed[i] = u
      OBVIOUS
    <3> HIDE DEF reversed, t
    <3>4. u.foreign_keys = Reverse(k)
      BY <3>2 DEF TableFields
    <3>5. can(reversed, i) = [u EXCEPT !.foreign_keys = KeysSorted(Reverse(k))]
      BY <3>3, <3>4
    <3>6. can(schema, i) = [t EXCEPT !.foreign_keys = KeysSorted(k)]
      BY DEF t
    <3> HIDE DEF k, can
    <3>7. QED  BY <3>2, <3>5, <3>6
  <2>4. Canonical(reversed) = [i \in DOMAIN schema |-> can(reversed, i)]
    BY DEF Canonical
  <2>5. Canonical(schema) = [i \in DOMAIN schema |-> can(schema, i)]
    BY DEF Canonical
  <2> HIDE DEF can, reversed
  <2>6. Canonical(reversed) = Canonical(schema)
    BY <2>3, <2>4, <2>5
  <2>7. ResolveAll(reversed, config) = output
    BY <2>2, <2>6 DEF ResolveAll
  <2>8. QED  BY <2>7 DEF CatalogOrderForgotten, reversed
<1>2. QED  BY <1>1, SchemaStays, PTL


-----------------------------------------------------------------------------
\* The types of fields, and what a value becomes on its way.

LEMMA BuiltIn ==
  /\ \A i \in DOMAIN PsqlTypes : PsqlTypes[i].rust \in RustTypes
  /\ \A i \in DOMAIN MysqlTypes : MysqlTypes[i].rust \in RustTypes \ {"Uuid"}
  /\ \A i \in DOMAIN SqliteNamed : SqliteNamed[i].rust \in RustTypes
<1> USE DEF RustTypes, Integral, Signed, Unsigned, Floats, Texty
<1>1. \A i \in DOMAIN PsqlTypes : PsqlTypes[i].rust \in RustTypes
  <2>1. DOMAIN PsqlTypes = 1..15
    BY DEF PsqlTypes
  <2>2. /\ PsqlTypes[1].rust = "i16" /\ PsqlTypes[2].rust = "i32"
        /\ PsqlTypes[3].rust = "i64" /\ PsqlTypes[4].rust = "f32"
        /\ PsqlTypes[5].rust = "f64" /\ PsqlTypes[6].rust = "bool"
        /\ PsqlTypes[7].rust = "String" /\ PsqlTypes[8].rust = "Vec<u8>"
        /\ PsqlTypes[9].rust = "NaiveDate" /\ PsqlTypes[10].rust = "NaiveTime"
        /\ PsqlTypes[11].rust = "NaiveDateTime" /\ PsqlTypes[12].rust = "DateTime<Utc>"
        /\ PsqlTypes[13].rust = "Uuid" /\ PsqlTypes[14].rust = "Decimal"
        /\ PsqlTypes[15].rust = "Json"
    BY DEF PsqlTypes
  <2>3. \A i \in 1..15 : i = 1 \/ i = 2 \/ i = 3 \/ i = 4 \/ i = 5 \/ i = 6 \/ i = 7 \/ i = 8 \/ i = 9 \/ i = 10 \/ i = 11 \/ i = 12 \/ i = 13 \/ i = 14 \/ i = 15
    OBVIOUS
  <2>4. QED  BY <2>1, <2>2, <2>3
<1>2. \A i \in DOMAIN MysqlTypes : MysqlTypes[i].rust \in RustTypes \ {"Uuid"}
  <2>1. DOMAIN MysqlTypes = 1..19
    BY DEF MysqlTypes
  <2>2. /\ MysqlTypes[1].rust = "bool" /\ MysqlTypes[2].rust = "i8"
        /\ MysqlTypes[3].rust = "i16" /\ MysqlTypes[4].rust = "i32"
        /\ MysqlTypes[5].rust = "i64" /\ MysqlTypes[6].rust = "u8"
        /\ MysqlTypes[7].rust = "u16" /\ MysqlTypes[8].rust = "u32"
        /\ MysqlTypes[9].rust = "u64" /\ MysqlTypes[10].rust = "f32"
        /\ MysqlTypes[11].rust = "f64" /\ MysqlTypes[12].rust = "Decimal"
        /\ MysqlTypes[13].rust = "String" /\ MysqlTypes[14].rust = "Vec<u8>"
        /\ MysqlTypes[15].rust = "NaiveDate" /\ MysqlTypes[16].rust = "NaiveTime"
        /\ MysqlTypes[17].rust = "NaiveDateTime" /\ MysqlTypes[18].rust = "DateTime<Utc>"
        /\ MysqlTypes[19].rust = "Json"
    BY DEF MysqlTypes
  <2>3. \A i \in 1..19 : i = 1 \/ i = 2 \/ i = 3 \/ i = 4 \/ i = 5 \/ i = 6 \/ i = 7 \/ i = 8 \/ i = 9 \/ i = 10 \/ i = 11 \/ i = 12 \/ i = 13 \/ i = 14 \/ i = 15 \/ i = 16 \/ i = 17 \/ i = 18 \/ i = 19
    OBVIOUS
  <2>4. QED  BY <2>1, <2>2, <2>3
<1>3. \A i \in DOMAIN SqliteNamed : SqliteNamed[i].rust \in RustTypes
  BY DEF SqliteNamed
<1>4. QED  BY <1>1, <1>2, <1>3

LEMMA FirstSpelledIs ==
  ASSUME NEW table, \A i \in DOMAIN table : table[i].rust \in RustTypes, NEW norm
  PROVE  FirstSpelled(table, norm) \in RustTypes \cup {Unmapped}
BY DEF FirstSpelled

\* A field's type is one Values tells apart, or none.
LEMMA RustTypeIs ==
  ASSUME NEW c \in Configs, NEW table, NEW column
  PROVE  RustType(c.dialect, c.types, table, column).rust \in RustTypes \cup {Unmapped}
<1> DEFINE types   == c.types
           fitting == {i \in DOMAIN types.overrides : Fits(types.overrides[i], table, column)}
           norm    == Normalise(column.db_type)
           first   == CHOOSE i \in fitting : \A j \in fitting : i <= j
<1>1. /\ c.dialect \in Dialects /\ Range(types.map) \subseteq RustTypes
      /\ types.overrides \in Seq(Range(types.overrides))
      /\ \A o \in Range(types.overrides) : o.rust_type \in RustTypes
  BY ConfigsAssumption
<1>2. \A i \in DOMAIN types.overrides : i \in Nat /\ types.overrides[i].rust_type \in RustTypes
  BY <1>1 DEF Range
<1>3. CASE fitting # {}
  <2>1. fitting \subseteq Nat /\ fitting \subseteq DOMAIN types.overrides
    BY <1>2
  <2>2. RustType(c.dialect, types, table, column).rust = types.overrides[first].rust_type
    BY <1>3 DEF RustType
  <2> HIDE DEF fitting, types
  <2>3. first \in fitting
    BY <1>3, <2>1, LeastNatural
  <2> HIDE DEF first
  <2>4. QED  BY <1>2, <2>1, <2>2, <2>3 DEF types
<1>4. CASE fitting = {} /\ norm \in DOMAIN types.map
  <2>1. RustType(c.dialect, types, table, column).rust = types.map[norm]
    BY <1>4 DEF RustType
  <2>2. types.map[norm] \in Range(types.map)
    BY <1>4 DEF Range
  <2>3. QED  BY <1>1, <2>1, <2>2
<1>5. CASE fitting = {} /\ norm \notin DOMAIN types.map
  <2>1. RustType(c.dialect, types, table, column).rust = DefaultType(c.dialect, column)
    BY <1>5 DEF RustType
  <2>2. CASE c.dialect = "psql"
    BY <2>1, <2>2, BuiltIn, FirstSpelledIs DEF DefaultType
  <2>3. CASE c.dialect = "mysql"
    <3>1. DefaultType(c.dialect, column) = MysqlDefault(column.db_type)
      BY <2>3 DEF DefaultType
    <3>2. "bool" \in RustTypes
      BY DEF RustTypes
    <3>3. QED  BY <2>1, <3>1, <3>2, BuiltIn, FirstSpelledIs DEF MysqlDefault
  <2>4. CASE c.dialect = "sqlite"
    <3>1. DefaultType(c.dialect, column) = SqliteDefault(norm, column.default)
      BY <2>4 DEF DefaultType
    <3>2. {"i64", "NaiveDateTime", "String", "Vec<u8>", "f64", "Decimal"} \subseteq RustTypes
      BY DEF RustTypes, Integral, Signed, Floats, Texty
    <3>3. FirstSpelled(SqliteNamed, norm) \in RustTypes \cup {Unmapped}
      BY BuiltIn, FirstSpelledIs
    <3> HIDE DEF norm
    <3>4. QED  BY <2>1, <3>1, <3>2, <3>3 DEF SqliteDefault
  <2>5. QED  BY <1>1, <2>2, <2>3, <2>4 DEF Dialects
<1>6. QED  BY <1>3, <1>4, <1>5


\* What a value may be once bound, and what its field may be handed.
Number == Integral \cup Floats \cup {"bool"}

\* A value of a Rust type.
Of(v, t) ==
    /\ v = [type |-> t, v |-> v.v] /\ v.type = t
    /\ t \in Integral \cup {"bool"} => v.v = Whole(v.v[1])
    /\ t = "f32" => Short(v.v) = v.v
    /\ t \in Texty => v.v \in {"a", "b"}
    /\ t = "Decimal" => v.v \in Numerals
    /\ t = "String" => v.v \in Numerals \cup {<<"words">>}

\* The value, or the same number of another type, or the text of one.
Bound(t, v, p) ==
    \/ p = Refused \/ p = v
    \/ t \in Number /\ \E k \in Number : p = [type |-> k, v |-> v.v]
    \/ t \in Texty /\ p = [type |-> "String", v |-> <<t, v.v, "ISO">>]
    \/ t = "Decimal" /\ p = [type |-> "String", v |-> v.v]

\* Of a type the field refuses.
Alien(t, h) ==
    /\ h.type \notin {t, "String", "Null", "refused"}
    /\ ~(t \in Integral \cup Floats /\ h.type \in Integral \cup Floats)
    /\ ~(t = "Decimal" /\ h.type \in Integral)

Arrives(t, v, h) ==
    \/ Bound(t, v, h)
    \/ h.type = "String" /\ t \in Number
    \/ t \in Texty /\ h = [type |-> "String", v |-> <<t, v.v, "the engine's">>]
    \/ t = "Vec<u8>" /\ h = [type |-> "String", v |-> v.v]
    \/ t = "Decimal" /\ h = [type |-> "i64", v |-> v.v]
    \/ Alien(t, h)

LEMMA NumeralsAre ==
  /\ \A n : Whole(n) = <<n, "">> /\ Whole(n)[1] = n /\ Whole(n)[2] = ""
  /\ \A n : Short(Whole(n)) = Whole(n)
  /\ \A x, y, z : <<x, y, z>> \notin Numerals
  /\ \A x : <<x>> \notin Numerals
<1>1. \A n : Whole(n) = <<n, "">> /\ Whole(n)[1] = n /\ Whole(n)[2] = ""
  BY DEF Whole
<1>2. \A n : Whole(n) # Tenth("f64")
  BY <1>1 DEF Tenth
<1>3. \A x, y, z : Len(<<x, y, z>>) = 3 /\ Len(<<x>>) = 1 /\ Len(<<x, y>>) = 2
  OBVIOUS
<1>4. \A q \in Numerals : Len(q) = 2
  BY <1>1, <1>3 DEF Numerals
<1>5. \A n : Short(Whole(n)) = Whole(n)
  BY <1>2 DEF Short
<1>6. \A x, y, z : <<x, y, z>> \notin Numerals
  BY <1>3, <1>4
<1>7. \A x : <<x>> \notin Numerals
  BY <1>3, <1>4
<1>8. QED  BY <1>1, <1>5, <1>6, <1>7

LEMMA ShortNumerals ==
  ASSUME NEW q \in Numerals
  PROVE  Short(q) = q
<1>1. q[1] = 1
  <2>1. <<1, "0.99">>[1] = 1 /\ Whole(1)[1] = 1
    BY NumeralsAre
  <2>2. QED  BY <2>1 DEF Numerals
<1>2. Tenth("f64")[1] = 0
  BY DEF Tenth
<1>3. QED  BY <1>1, <1>2 DEF Short

LEMMA RustValuesAre ==
  ASSUME NEW t \in RustTypes, NEW v \in RustValues(t)
  PROVE  Of(v, t)
<1> USE DEF Of
<1>1. CASE t \in Integral
  <2>1. PICK n : v = [type |-> t, v |-> Whole(n)]
    BY <1>1 DEF RustValues, Integral, Signed, Unsigned, Floats, Texty
  <2>2. v.v = Whole(n) /\ v.v[1] = n
    BY <2>1, NumeralsAre
  <2>3. QED  BY <1>1, <2>1, <2>2 DEF Integral, Signed, Unsigned, Texty
<1>2. CASE t \in Floats
  <2>1. PICK x \in {Whole(-1), Whole(0), Whole(1), Tenth(t)} : v = [type |-> t, v |-> x]
    BY <1>2 DEF RustValues, Integral, Signed, Unsigned, Floats, Texty
  <2>2. t = "f32" => Short(x) = x
    <3>1. Short(Tenth("f32")) = Tenth("f32")
      BY DEF Short, Tenth
    <3>2. QED  BY <2>1, <3>1, NumeralsAre
  <2>3. QED  BY <1>2, <2>1, <2>2 DEF Integral, Signed, Unsigned, Floats, Texty
<1>3. CASE t = "bool"
  <2>1. PICK n : v = [type |-> t, v |-> Whole(n)]
    BY <1>3 DEF RustValues, Integral, Signed, Unsigned, Floats, Texty
  <2>2. v.v = Whole(n) /\ v.v[1] = n
    BY <2>1, NumeralsAre
  <2>3. QED  BY <1>3, <2>1, <2>2 DEF Texty
<1>4. CASE t \in {"Decimal", "String", "Vec<u8>"}
  BY <1>4 DEF RustValues, Integral, Signed, Unsigned, Floats, Texty
<1>5. CASE t \in Texty
  BY <1>5 DEF RustValues, Integral, Signed, Unsigned, Floats, Texty
<1>6. QED  BY <1>1, <1>2, <1>3, <1>4, <1>5 DEF RustTypes

LEMMA TextOfIs ==
  ASSUME NEW t \in RustTypes, NEW v, Of(v, t)
  PROVE  /\ t \in Texty => TextOf(v) = [type |-> "String", v |-> <<t, v.v, "ISO">>]
         /\ t \in {"Decimal", "String", "Vec<u8>"} => TextOf(v) = [type |-> "String", v |-> v.v]
BY DEF Of, TextOf, Numbers, Integral, Signed, Unsigned, Floats, Texty

LEMMA ParametersAre ==
  ASSUME NEW dialect \in Dialects, NEW t \in RustTypes, NEW v, Of(v, t)
  PROVE  Bound(t, v, Parameter(dialect, v))
<1> USE DEF Integral, Signed, Unsigned, Floats, Texty, Number, Refused
<1>0. v = [type |-> t, v |-> v.v] /\ v.type = t
  BY DEF Of
<1>1. \A k \in Number : Widen(v, k) = Refused \/ Widen(v, k) = [type |-> k, v |-> v.v]
  BY DEF Widen
<1>2. CASE dialect = "psql"
  <2>1. Parameter(dialect, v) = PsqlParameter(v)
    BY <1>2 DEF Parameter
  <2>2. CASE t \in {"i8", "u8", "u16", "u32", "u64"}
    BY <1>0, <1>1, <2>1, <2>2 DEF PsqlParameter, Bound
  <2>3. CASE t \notin {"i8", "u8", "u16", "u32", "u64"}
    BY <1>0, <2>1, <2>3 DEF PsqlParameter, Bound
  <2>4. QED  BY <2>2, <2>3
<1>3. CASE dialect = "sqlite"
  <2>1. Parameter(dialect, v) = SqliteParameter(v)
    BY <1>3 DEF Parameter
  <2>2. CASE t \in Integral \cup {"bool"}
    BY <1>0, <1>1, <2>1, <2>2 DEF SqliteParameter, Bound
  <2>3. CASE t = "f32"
    <3>1. [v EXCEPT !.type = "f64"] = [type |-> "f64", v |-> v.v]
      BY <1>0
    <3>2. QED  BY <1>0, <2>1, <2>3, <3>1 DEF SqliteParameter, Bound
  <2>4. CASE t \in {"Decimal"} \cup Texty
    <3>1. Parameter(dialect, v) = TextOf(v)
      BY <1>0, <2>1, <2>4 DEF SqliteParameter
    <3>2. QED  BY <2>4, <3>1, TextOfIs DEF Bound
  <2>5. CASE t \in {"f64", "String", "Vec<u8>"}
    BY <1>0, <2>1, <2>5 DEF SqliteParameter, Bound
  <2>6. QED  BY <2>2, <2>3, <2>4, <2>5 DEF RustTypes
<1>4. CASE dialect = "mysql"
  <2>1. Parameter(dialect, v) \in {v, TextOf(v)} /\ (t # "Uuid" => Parameter(dialect, v) = v)
    BY <1>0, <1>4 DEF Parameter, MysqlParameter
  <2>2. QED  BY <2>1, TextOfIs DEF Bound
<1>5. QED  BY <1>2, <1>3, <1>4 DEF Dialects


\* What is bound: nothing, a number still itself, a text, or the value.
LEMMA BoundIs ==
  ASSUME NEW t \in RustTypes, NEW v, Of(v, t), NEW p, Bound(t, v, p)
  PROVE  \/ p = Refused
         \/ t \in Number /\ p.type \in Number /\ p = [type |-> p.type, v |-> v.v]
         \/ /\ t \notin Number /\ p = [type |-> "String", v |-> p.v]
            /\ \/ t \in {"Decimal", "String"} /\ p.v = v.v
               \/ t \in Texty /\ p.v = <<t, v.v, "ISO">> /\ p.v \notin Numerals
         \/ t \notin Number /\ t # "String" /\ p = v
<1> USE DEF Integral, Signed, Unsigned, Floats, Texty, Number
<1>0. v = [type |-> t, v |-> v.v] /\ v.type = t
  BY DEF Of
<1>1. CASE p = v
  BY <1>0, <1>1 DEF RustTypes
<1>2. CASE t \in Number /\ \E k \in Number : p = [type |-> k, v |-> v.v]
  BY <1>0, <1>2
<1>3. CASE t \in Texty /\ p = [type |-> "String", v |-> <<t, v.v, "ISO">>]
  BY <1>3, NumeralsAre
<1>4. CASE t = "Decimal" /\ p = [type |-> "String", v |-> v.v]
  BY <1>4
<1>5. QED  BY <1>0, <1>1, <1>2, <1>3, <1>4 DEF Bound

\* The server engines are bound the value, a wider integer, or a Uuid's text.
ServerBound(dialect, t, v, p) ==
    \/ p = Refused \/ p = v
    \/ t \in Integral /\ \E k \in Integral : p = [type |-> k, v |-> v.v]
    \/ dialect = "mysql" /\ t = "Uuid" /\ p = [type |-> "String", v |-> <<t, v.v, "ISO">>]

LEMMA ServerParametersAre ==
  ASSUME NEW dialect \in {"psql", "mysql"}, NEW t \in RustTypes, NEW v, Of(v, t)
  PROVE  ServerBound(dialect, t, v, Parameter(dialect, v))
<1> USE DEF Integral, Signed, Unsigned, Refused
<1>0. v = [type |-> t, v |-> v.v] /\ v.type = t
  BY DEF Of
<1>1. \A k \in Integral : Widen(v, k) = Refused \/ Widen(v, k) = [type |-> k, v |-> v.v]
  BY DEF Widen
<1>2. CASE dialect = "psql"
  <2>1. Parameter(dialect, v) = PsqlParameter(v)
    BY <1>2 DEF Parameter
  <2>2. CASE t \in {"i8", "u8", "u16", "u32", "u64"}
    BY <1>0, <1>1, <2>1, <2>2 DEF PsqlParameter, ServerBound
  <2>3. CASE t \notin {"i8", "u8", "u16", "u32", "u64"}
    BY <1>0, <2>1, <2>3 DEF PsqlParameter, ServerBound
  <2>4. QED  BY <2>2, <2>3
<1>3. CASE dialect = "mysql"
  <2>1. Parameter(dialect, v) = IF t = "Uuid" THEN TextOf(v) ELSE v
    BY <1>0, <1>3 DEF Parameter, MysqlParameter
  <2>2. t = "Uuid" => TextOf(v) = [type |-> "String", v |-> <<t, v.v, "ISO">>]
    BY TextOfIs DEF Texty
  <2>3. QED  BY <1>3, <2>1, <2>2 DEF ServerBound
<1>4. QED  BY <1>2, <1>3

LEMMA HeldAsIs ==
  ASSUME NEW dialect \in {"psql", "mysql"}, NEW type
  PROVE  /\ HeldAs(dialect, type) \in RustTypes \cup {Unmapped}
         /\ dialect = "mysql" => HeldAs(dialect, type) # "Uuid"
<1>1. CASE dialect = "psql"
  BY <1>1, BuiltIn, FirstSpelledIs DEF HeldAs
<1>2. CASE dialect = "mysql"
  <2>1. FirstSpelled(MysqlTypes, Plain(type)) \in (RustTypes \ {"Uuid"}) \cup {Unmapped}
    BY BuiltIn DEF FirstSpelled, Unmapped
  <2>2. "bool" \in RustTypes \ {"Uuid"}
    BY DEF RustTypes
  <2>3. QED  BY <1>2, <2>1, <2>2 DEF HeldAs, Unmapped
<1>3. QED  BY <1>1, <1>2

LEMMA AssignedIs ==
  ASSUME NEW dialect, NEW held, NEW p
  PROVE  /\ held = p.type => Assigned(dialect, held, p) = p
         /\ held # p.type /\ held \in Numbers /\ p.type \in Numbers
            => Assigned(dialect, held, p) = AsNumber(held, p.v)
         /\ held # p.type /\ (held \notin Numbers \/ p.type \notin Numbers) /\ held = "String"
            => Assigned(dialect, held, p) = Written(dialect, p)
         /\ held # p.type /\ (held \notin Numbers \/ p.type \notin Numbers) /\ held # "String"
            => Assigned(dialect, held, p) \in {Refused, [type |-> held, v |-> "converted"]}
BY DEF Assigned

LEMMA WrittenIs ==
  ASSUME NEW dialect, NEW p
  PROVE  /\ Written(dialect, p).type = "String"
         /\ Written(dialect, p)
              \in {TextOf(p), [type |-> "String", v |-> <<p.type, p.v, "the engine's">>]}
         /\ p.type # "DateTime<Utc>" /\ ~(dialect = "psql" /\ p.type = "Vec<u8>")
            => Written(dialect, p) = TextOf(p)
BY DEF Written, TextOf

\* What a server engine holds of it, the narrowing columns apart.
LEMMA ServerHeldIs ==
  ASSUME NEW dialect \in {"psql", "mysql"}, NEW t \in RustTypes, NEW v, Of(v, t),
         NEW p, ServerBound(dialect, t, v, p), p # Refused,
         NEW held \in RustTypes \cup {Unmapped}, dialect = "mysql" => held # "Uuid",
         ~(held \in Integral /\ t \in Floats \cup {"Decimal"}),
         ~(held = "f32" /\ t = "f64"),
         ~(dialect = "psql" /\ held = "String" /\ t = "Vec<u8>")
  PROVE  Arrives(t, v, Assigned(dialect, held, p))
<1> DEFINE h == Assigned(dialect, held, p)
             w == Written(dialect, p)
<1>a. /\ held = p.type => h = p
      /\ held # p.type /\ held \in Numbers /\ p.type \in Numbers => h = AsNumber(held, p.v)
      /\ held # p.type /\ (held \notin Numbers \/ p.type \notin Numbers) /\ held = "String" => h = w
      /\ held # p.type /\ (held \notin Numbers \/ p.type \notin Numbers) /\ held # "String"
         => h \in {Refused, [type |-> held, v |-> "converted"]}
  BY AssignedIs
<1>b. /\ w.type = "String"
      /\ w \in {TextOf(p), [type |-> "String", v |-> <<p.type, p.v, "the engine's">>]}
      /\ p.type # "DateTime<Utc>" /\ ~(dialect = "psql" /\ p.type = "Vec<u8>") => w = TextOf(p)
  BY WrittenIs
<1> HIDE DEF h, w
<1>c. SUFFICES Arrives(t, v, h)
  BY DEF h
<1> USE DEF Integral, Signed, Unsigned, Floats, Texty, Number, Numbers, RustTypes, Unmapped
<1>0. v = [type |-> t, v |-> v.v] /\ v.type = t
  BY DEF Of
<1>1. Arrives(t, v, v) /\ Arrives(t, v, Refused)
  BY DEF Arrives, Bound
\* A type that is not the field's, nor a text, nor a number for a number.
<1>2. ASSUME NEW x, held # t, held # "String", ~(t \in Integral \cup Floats /\ held \in Integral \cup Floats),
             ~(t = "Decimal" /\ held \in Integral)
      PROVE  Arrives(t, v, [type |-> held, v |-> x])
  <2>1. held \notin {"Null", "refused"}
    OBVIOUS
  <2>2. QED  BY <1>2, <2>1 DEF Arrives, Alien
<1>3. CASE t \in Integral \cup Floats /\ p = [type |-> p.type, v |-> v.v]
           /\ p.type \in Integral \cup Floats /\ (t \in Integral => p.type \in Integral)
           /\ (t \in Floats => p = v)
  <2>1. \A k \in Integral \cup Floats : Arrives(t, v, [type |-> k, v |-> v.v])
    BY <1>3 DEF Arrives, Bound
  <2>a. p.v = v.v
    <3>1. [type |-> p.type, v |-> v.v].v = v.v
      OBVIOUS
    <3>2. QED  BY <1>3, <3>1, Zenon
  <2>2. CASE held = p.type
    <3>1. h = p
      BY <2>2, <1>a
    <3>2. QED  BY <1>3, <2>1, <3>1
  <2>3. CASE held # p.type /\ held \in Integral
    <3>1. h = AsNumber(held, v.v)
      <4>1. held \in Numbers /\ p.type \in Numbers
        BY <1>3, <2>3
      <4>2. QED  BY <1>a, <2>a, <2>3, <4>1
    <3>2. v.v = Whole(v.v[1])
      BY <1>3, <2>3 DEF Of
    <3>3. h \in {[type |-> held, v |-> v.v], Refused}
      BY <2>3, <3>1, <3>2 DEF AsNumber
    <3>4. QED  BY <1>1, <2>1, <2>3, <3>3
  <2>4. CASE held # p.type /\ held = "f32"
    <3>1. h = AsNumber(held, v.v)
      BY <1>3, <2>4, <1>a
    <3>2. Short(v.v) = v.v
      <4>1. CASE t = "f32"
        BY <4>1 DEF Of
      <4>2. CASE t \in Integral
        <5>1. v.v = Whole(v.v[1])
          BY <4>2 DEF Of
        <5>2. Short(Whole(v.v[1])) = Whole(v.v[1])
          BY NumeralsAre
        <5>3. QED  BY <5>1, <5>2
      <4>3. QED  BY <1>3, <2>4, <4>1, <4>2
    <3>3. h = [type |-> held, v |-> v.v]
      BY <2>4, <3>1, <3>2 DEF AsNumber
    <3>4. QED  BY <2>1, <2>4, <3>3
  <2>5. CASE held # p.type /\ held \in {"f64", "Decimal"}
    <3>1. h = [type |-> held, v |-> v.v]
      <4>1. held \in Numbers /\ p.type \in Numbers
        BY <1>3, <2>5
      <4>2. h = AsNumber(held, v.v)
        BY <1>a, <2>a, <2>5, <4>1
      <4>3. QED  BY <2>5, <4>2 DEF AsNumber
    <3>2. QED  BY <1>2, <1>3, <2>1, <2>5, <3>1
  <2>6. CASE held = "String"
    <3>1. h = w
      BY <1>3, <2>6, <1>a
    <3>2. h.type = "String"
      BY <1>b, <3>1
    <3>3. QED  BY <1>3, <3>2 DEF Arrives
  <2>7. CASE held \notin Numbers \cup {"String"}
    <3>1. h \in {Refused, [type |-> held, v |-> "converted"]}
      BY <1>3, <2>7, <1>a
    <3>2. QED  BY <1>1, <1>2, <1>3, <2>7, <3>1
  <2>8. QED  BY <2>2, <2>3, <2>4, <2>5, <2>6, <2>7
<1>4. CASE t \notin Integral \cup Floats /\ p = v
  <2>1. CASE held = t
    BY <1>0, <1>1, <1>4, <2>1, <1>a
  <2>2. CASE held # t /\ held = "String"
    <3>1. h = w
      BY <1>0, <1>4, <2>2, <1>a
    <3>2. CASE t = "bool"
      <4>1. h.type = "String"
        BY <1>b, <3>1
      <4>2. QED  BY <3>2, <4>1 DEF Arrives
    <3>3. CASE t \in {"Decimal", "Vec<u8>"}
      <4>1. h = TextOf(v)
        BY <1>0, <1>4, <2>2, <3>1, <3>3, <1>b
      <4>2. QED  BY <3>3, <4>1, TextOfIs DEF Arrives, Bound
    <3>4. CASE t \in Texty
      <4>1. h \in {TextOf(v), [type |-> "String", v |-> <<t, v.v, "the engine's">>]}
        BY <1>0, <1>b, <1>4, <3>1
      <4>2. QED  BY <3>4, <4>1, TextOfIs DEF Arrives, Bound
    <3>5. QED  BY <1>4, <2>2, <3>2, <3>3, <3>4
  <2>3. CASE held # t /\ held # "String" /\ t = "Decimal" /\ held \in Numbers
    <3>1. h = [type |-> held, v |-> v.v]
      <4>1. held \in Floats
        BY <2>3
      <4>2. h = AsNumber(held, v.v)
        BY <1>0, <1>4, <2>3, <1>a
      <4>3. v.v \in Numerals
        BY <2>3 DEF Of
      <4>4. Short(v.v) = v.v
        BY <4>3, ShortNumerals
      <4>5. QED  BY <4>1, <4>2, <4>4 DEF AsNumber
    <3>2. QED  BY <1>2, <2>3, <3>1
  <2>4. CASE held # t /\ held # "String" /\ ~(t = "Decimal" /\ held \in Numbers)
    <3>1. h \in {Refused, [type |-> held, v |-> "converted"]}
      BY <1>0, <1>4, <2>4, <1>a
    <3>2. ~(t \in Integral \cup Floats /\ held \in Integral \cup Floats) /\ ~(t = "Decimal" /\ held \in Integral)
      BY <1>4, <2>4
    <3>3. QED  BY <1>1, <1>2, <2>4, <3>1, <3>2
  <2>5. QED  BY <2>1, <2>2, <2>3, <2>4
<1>5. CASE dialect = "mysql" /\ t = "Uuid" /\ p = [type |-> "String", v |-> <<t, v.v, "ISO">>]
  <2>1. CASE held = "String"
    <3>1. h = p
      BY <1>5, <2>1, <1>a
    <3>2. QED  BY <1>5, <3>1 DEF Arrives, Bound
  <2>2. CASE held # "String"
    <3>1. h \in {Refused, [type |-> held, v |-> "converted"]}
      BY <1>5, <2>2, <1>a
    <3>2. QED  BY <1>1, <1>2, <1>5, <2>2, <3>1
  <2>3. QED  BY <2>1, <2>2
<1>6. CASE p = v
  BY <1>0, <1>3, <1>4, <1>6
<1>7. CASE t \in Integral /\ \E k \in Integral : p = [type |-> k, v |-> v.v]
  <2>1. p = [type |-> p.type, v |-> v.v] /\ p.type \in Integral
    <3>1. PICK k \in Integral : p = [type |-> k, v |-> v.v]
      BY <1>7
    <3>2. [type |-> k, v |-> v.v].type = k
      OBVIOUS
    <3>3. p.type = k
      BY <3>1, <3>2, Zenon
    <3>4. QED  BY <3>1, <3>3
  <2>2. t \notin Floats
    BY <1>7
  <2>3. QED  BY <1>3, <1>7, <2>1, <2>2
<1>8. QED  BY <1>5, <1>6, <1>7 DEF ServerBound

\* What SQLite makes of a parameter by the column's affinity.
Stays(t, v, h) ==
    \/ Bound(t, v, h)
    \/ h.type = "String" /\ t \in Number
    \/ t = "Decimal" /\ h = [type |-> "i64", v |-> v.v]
    \/ t = "String" /\ h = [type |-> "i64", v |-> v.v]
    \/ t \in {"Decimal", "String"} /\ h = [type |-> "f64", v |-> v.v]

LEMMA SqliteHeldIs ==
  ASSUME NEW type, NEW t \in RustTypes, NEW v, Of(v, t), NEW p, Bound(t, v, p), p # Refused
  PROVE  Stays(t, v, SqliteHeld(type, p))
<1> USE DEF Integral, Signed, Unsigned, Floats, Texty, Number
<1>0. v = [type |-> t, v |-> v.v] /\ v.type = t
  BY DEF Of
<1>1. CASE t \in Number /\ p.type \in Number /\ p = [type |-> p.type, v |-> v.v]
  <2>1. \A k \in Number : Stays(t, v, [type |-> k, v |-> v.v])
    BY <1>1 DEF Stays, Bound
  <2>2. \A k : [p EXCEPT !.type = k] = [type |-> k, v |-> v.v]
    BY <1>1
  <2>3. Stays(t, v, p)
    BY <1>1, <2>1
  <2>4. Stays(t, v, TextOf(p))
    BY <1>1 DEF Stays, TextOf
  <2>5. SqliteHeld(type, p) \in {p, TextOf(p), [p EXCEPT !.type = "i64"], [p EXCEPT !.type = "f64"]}
    BY <1>1 DEF SqliteHeld
  <2>6. QED  BY <2>1, <2>2, <2>3, <2>4, <2>5
<1>2. CASE /\ t \notin Number /\ p = [type |-> "String", v |-> p.v]
           /\ \/ t \in {"Decimal", "String"} /\ p.v = v.v
              \/ t \in Texty /\ p.v = <<t, v.v, "ISO">> /\ p.v \notin Numerals
  <2> DEFINE number == Numeral(p.v)
  <2>1. Stays(t, v, p)
    BY DEF Stays
  <2>2. \/ number = p
        \/ t \in {"Decimal", "String"} /\ number = [type |-> "i64", v |-> v.v]
        \/ t \in {"Decimal", "String"} /\ number = [type |-> "f64", v |-> v.v]
    BY <1>2 DEF Numeral
  <2>3. Stays(t, v, number)
    BY <2>1, <2>2 DEF Stays
  <2>4. \/ SqliteHeld(type, p) \in {p, number}
        \/ number.type = "i64" /\ SqliteHeld(type, p) = [number EXCEPT !.type = "f64"]
    <3>1. p.type = "String"
      BY <1>2
    <3> HIDE <1>2
    <3>2. QED  BY <3>1 DEF SqliteHeld
  <2>5. ASSUME number.type = "i64"
        PROVE  Stays(t, v, [number EXCEPT !.type = "f64"])
    <3>1. t \in {"Decimal", "String"} /\ number = [type |-> "i64", v |-> v.v]
      BY <1>2, <2>2, <2>5
    <3> HIDE DEF number
    <3>2. [number EXCEPT !.type = "f64"] = [type |-> "f64", v |-> v.v]
      BY <3>1
    <3>3. QED  BY <3>1, <3>2 DEF Stays
  <2> HIDE DEF number
  <2>6. QED  BY <2>1, <2>3, <2>4, <2>5
<1>3. CASE t \notin Number /\ t # "String" /\ p = v
  <2>1. t \in {"Decimal", "Vec<u8>"} \cup Texty
    BY <1>3 DEF RustTypes
  <2>2. SqliteHeld(type, v) = v
    BY <1>0, <2>1 DEF SqliteHeld
  <2>3. QED  BY <1>3, <2>2 DEF Stays, Bound
<1>4. QED  BY <1>1, <1>2, <1>3, BoundIs

LEMMA SqliteDecodedIs ==
  ASSUME NEW type, NEW t \in RustTypes, NEW v, Of(v, t), NEW h, Stays(t, v, h)
  PROVE  Arrives(t, v, h) /\ Arrives(t, v, SqliteDecoded(type, h))
<1> USE DEF Integral, Signed, Unsigned, Floats, Texty, Number
<1>0. v = [type |-> t, v |-> v.v] /\ v.type = t
  BY DEF Of
<1>1. Arrives(t, v, Refused)
  BY DEF Arrives, Bound
<1>2. Arrives(t, v, h)
  <2>1. CASE t = "String" /\ h = [type |-> "i64", v |-> v.v]
    <3>1. h.type = "i64"
      BY <2>1
    <3>2. QED  BY <2>1, <3>1 DEF Arrives, Alien
  <2>2. CASE t \in {"Decimal", "String"} /\ h = [type |-> "f64", v |-> v.v]
    <3>1. h.type = "f64"
      BY <2>2
    <3>2. QED  BY <2>2, <3>1 DEF Arrives, Alien
  <2>3. QED  BY <2>1, <2>2 DEF Stays, Arrives
<1>3. \/ SqliteDecoded(type, h) \in {h, Refused}
      \/ h.type = "i64" /\ SqliteDecoded(type, h) = [h EXCEPT !.type = "bool"]
      \/ /\ h.type \in {"String", "Vec<u8>"}
         /\ SqliteDecoded(type, h) = [type |-> "Vec<u8>", v |-> h.v]
  BY DEF SqliteDecoded
<1>4. ASSUME h.type = "i64"
      PROVE  Arrives(t, v, [h EXCEPT !.type = "bool"])
  <2>1. /\ t \in Number \cup {"Decimal", "String"}
        /\ h = [type |-> "i64", v |-> v.v]
    BY <1>0, <1>4 DEF Stays, Bound, Refused
  <2>2. [h EXCEPT !.type = "bool"] = [type |-> "bool", v |-> v.v]
    BY <2>1
  <2>3. CASE t \in Number
    BY <2>2, <2>3 DEF Arrives, Bound
  <2>4. CASE t \in {"Decimal", "String"}
    <3>1. [type |-> "bool", v |-> v.v].type = "bool"
      OBVIOUS
    <3>2. QED  BY <2>2, <2>4, <3>1 DEF Arrives, Alien
  <2>5. QED  BY <2>1, <2>3, <2>4
<1>5. ASSUME h.type \in {"String", "Vec<u8>"}
      PROVE  Arrives(t, v, [type |-> "Vec<u8>", v |-> h.v])
  <2>1. CASE t = "Vec<u8>"
    <3>1. h = v
      BY <1>0, <1>5, <2>1 DEF Stays, Bound, Refused
    <3>2. QED  BY <1>0, <2>1, <3>1 DEF Arrives, Bound
  <2>2. CASE t # "Vec<u8>"
    BY <2>2 DEF Arrives, Alien
  <2>3. QED  BY <2>1, <2>2
<1>6. QED  BY <1>1, <1>2, <1>3, <1>4, <1>5

LEMMA ReadIs ==
  ASSUME NEW t \in RustTypes, NEW nullable, NEW v, Of(v, t), NEW h, Arrives(t, v, h)
  PROVE  FromNullable(t, nullable, h) \in {v, Refused}
<1> USE DEF Integral, Signed, Unsigned, Floats, Texty, Number
<1>0. v = [type |-> t, v |-> v.v] /\ v.type = t
  BY DEF Of
<1>1. SUFFICES FromValue(t, h) \in {v, Refused}
  BY DEF FromNullable
<1>2. \A x : FitsIn(t, [type |-> x, v |-> v.v]) \in {v, Refused}
  BY <1>0 DEF FitsIn
<1>3. CASE h = Refused
  BY <1>3 DEF FromValue, Refused, RustTypes
<1>4. CASE h.type \in Number /\ t \in Number /\ h = [type |-> h.type, v |-> v.v]
  <2>1. FitsIn(t, h) \in {v, Refused}
    BY <1>2, <1>4
  <2>2. t = "f32" => Short(h.v) = v.v
    BY <1>4 DEF Of
  <2>3. h.type = t => h = v
    BY <1>0, <1>4
  <2>4. CASE t \in Integral
    BY <1>4, <2>1, <2>3, <2>4 DEF FromValue
  <2>5. CASE t = "f32"
    BY <1>0, <1>4, <2>2, <2>5 DEF FromValue
  <2>6. CASE t = "f64"
    BY <1>0, <1>4, <2>3, <2>6 DEF FromValue
  <2>7. CASE t = "bool"
    BY <1>4, <2>3, <2>7 DEF FromValue
  <2>8. QED  BY <1>4, <2>4, <2>5, <2>6, <2>7
<1>5. CASE h.type = "String" /\ t \in Number
  BY <1>5 DEF FromValue, Spelled
<1>6. ASSUME h.type = "String", t # "String"
      PROVE  FromValue(t, h) = Spelled(t, h.v)
  BY <1>6 DEF FromValue
<1>7. CASE t \in Texty /\ h = [type |-> "String", v |-> <<t, v.v, "ISO">>]
  <2>1. FromValue(t, h) = Spelled(t, <<t, v.v, "ISO">>)
    BY <1>6, <1>7
  <2>2. <<t, v.v, "ISO">>[2] = v.v /\ v.v \in {"a", "b"}
    BY <1>7 DEF Of
  <2>3. Spelled(t, <<t, v.v, "ISO">>) = [type |-> t, v |-> v.v]
    BY <1>7, <2>2 DEF Spelled
  <2>4. QED  BY <1>0, <2>1, <2>3
<1>8. CASE t \in Texty /\ h = [type |-> "String", v |-> <<t, v.v, "the engine's">>]
  <2>1. FromValue(t, h) = Spelled(t, <<t, v.v, "the engine's">>)
    BY <1>6, <1>8
  <2>2. <<t, v.v, "the engine's">>[3] = "the engine's" /\ \A x : <<t, x, "ISO">>[3] = "ISO"
    OBVIOUS
  <2>3. <<t, v.v, "the engine's">> \notin {<<t, x, "ISO">> : x \in {"a", "b"}}
    BY <2>2
  <2>4. QED  BY <1>8, <2>1, <2>3 DEF Spelled
<1>9. CASE t \in {"Decimal", "Vec<u8>"} /\ h = [type |-> "String", v |-> v.v]
  <2>1. FromValue(t, h) = Spelled(t, v.v)
    BY <1>6, <1>9
  <2>2. t = "Decimal" => v.v \in Numerals
    BY DEF Of
  <2>3. QED  BY <1>0, <1>9, <2>1, <2>2 DEF Spelled
<1>10. CASE h = v
  BY <1>0, <1>10 DEF FromValue
<1>11. CASE t = "Decimal" /\ h = [type |-> "i64", v |-> v.v]
  BY <1>0, <1>11 DEF FromValue
<1>12. CASE Alien(t, h)
  <2>1. /\ h.type \notin {t, "String", "Null", "refused"}
        /\ ~(t \in Integral \cup Floats /\ h.type \in Integral \cup Floats)
        /\ ~(t = "Decimal" /\ h.type \in Integral)
    BY <1>12 DEF Alien
  <2>2. QED  BY <2>1 DEF FromValue
<1>13. CASE t \in Number /\ \E k \in Number : h = [type |-> k, v |-> v.v]
  <2>1. PICK k \in Number : h = [type |-> k, v |-> v.v]
    BY <1>13
  <2>2. h.type = k
    BY <2>1
  <2>3. QED  BY <1>4, <1>13, <2>1, <2>2
<1>14. CASE Bound(t, v, h)
  <2>1. CASE t = "Decimal" /\ h = [type |-> "String", v |-> v.v]
    BY <1>9, <2>1
  <2>2. QED  BY <1>3, <1>7, <1>10, <1>13, <1>14, <2>1 DEF Bound
<1>15. CASE t = "Vec<u8>" /\ h = [type |-> "String", v |-> v.v]
  BY <1>9, <1>15
<1>16. QED  BY <1>5, <1>8, <1>11, <1>12, <1>14, <1>15 DEF Arrives


\* A NULL travels as itself.
LEMMA NullReadsBack ==
  ASSUME NEW dialect \in Dialects, NEW c, c.rust_type \in RustTypes, c.nullable
  PROVE  ReadBack(dialect, c, Null) = Null
<1> USE DEF RustTypes, Integral, Signed, Unsigned, Floats, Texty, Null
<1>1. Parameter(dialect, Null) = Null
  BY DEF Parameter, PsqlParameter, SqliteParameter, MysqlParameter, Dialects
<1>2. Stored(dialect, c, Null) = Null
  BY <1>1 DEF Stored, ToValue, Held
<1>3. ReadBack(dialect, c, Null) = FromNullable(c.rust_type, c.nullable, Null)
  <2>1. Decoded(dialect, c.db_type, Null) = Null
    BY DEF Decoded
  <2> HIDE DEF Null
  <2>2. QED  BY <1>2, <2>1 DEF ReadBack
<1>4. FromValue(c.rust_type, Null) = Null
  BY DEF FromValue
<1>5. QED  BY <1>3, <1>4 DEF FromNullable

LEMMA CellReadsBack ==
  ASSUME NEW dialect \in Dialects, NEW c, c.rust_type \in RustTypes, NEW v \in CellValues(c),
         ~Narrows(dialect, c)
  PROVE  ReadBack(dialect, c, v) \in {v, Refused}
<1>1. CASE v \in RustValues(c.rust_type)
  <2> DEFINE t == c.rust_type
             p == Parameter(dialect, v)
             h == Stored(dialect, c, v)
  <2>1. Of(v, t)
    BY <1>1, RustValuesAre
  <2>2. h = Held(dialect, c.db_type, p)
    BY DEF Stored, ToValue
  <2>3. Arrives(t, v, Decoded(dialect, c.db_type, h))
    <3>1. CASE p = Refused
      <4>1. h = Refused
        BY <2>2, <3>1 DEF Held, Refused
      <4>2. Decoded(dialect, c.db_type, h) = Refused
        BY <4>1 DEF Decoded, Refused
      <4>3. QED  BY <4>2 DEF Arrives, Bound
    <3>2. CASE p # Refused /\ dialect = "sqlite"
      <4>1. Bound(t, v, p)
        BY <2>1, ParametersAre
      <4>2. p.type \notin {"refused", "Null"}
        BY <2>1, <3>2, <4>1, BoundIs DEF Of, RustTypes, Number, Integral, Signed, Unsigned, Floats, Texty
      <4>3. h = SqliteHeld(c.db_type, p)
        BY <2>2, <3>2, <4>2 DEF Held
      <4> HIDE DEF h, p, t
      <4>4. Stays(t, v, h)
        BY <1>1, <2>1, <3>2, <4>1, <4>3, SqliteHeldIs DEF t
      <4>5. Decoded(dialect, c.db_type, h) \in {h, SqliteDecoded(c.db_type, h)}
        BY <3>2 DEF Decoded
      <4>6. QED  BY <2>1, <4>4, <4>5, SqliteDecodedIs DEF t
    <3>3. CASE p # Refused /\ dialect \in {"psql", "mysql"}
      <4> DEFINE held == HeldAs(dialect, c.db_type)
      <4>1. ServerBound(dialect, t, v, p)
        BY <2>1, <3>3, ServerParametersAre
      <4>2. p.type \notin {"refused", "Null"}
        BY <2>1, <3>3, <4>1 DEF ServerBound, Of, RustTypes, Integral, Signed, Unsigned, Floats, Texty
      <4>3. h = Assigned(dialect, held, p)
        BY <2>2, <3>3, <4>2 DEF Held
      <4>4. /\ ~(held \in Integral /\ t \in Floats \cup {"Decimal"})
            /\ ~(held = "f32" /\ t = "f64")
            /\ ~(dialect = "psql" /\ held = "String" /\ t = "Vec<u8>")
        BY <3>3 DEF Narrows
      <4>5. held \in RustTypes \cup {Unmapped} /\ (dialect = "mysql" => held # "Uuid")
        BY <3>3, HeldAsIs
      <4> HIDE DEF held, h, p, t
      <4>6. Arrives(t, v, h)
        BY <2>1, <3>3, <4>1, <4>3, <4>4, <4>5, ServerHeldIs DEF t
      <4>7. Decoded(dialect, c.db_type, h) \in {h, Refused}
        BY <3>3 DEF Decoded, PsqlDecoded
      <4>8. QED  BY <4>6, <4>7 DEF Arrives, Bound
    <3>4. QED  BY <3>1, <3>2, <3>3 DEF Dialects
  <2> HIDE DEF h, t
  <2>4. FromNullable(t, c.nullable, Decoded(dialect, c.db_type, h)) \in {v, Refused}
    BY <2>1, <2>3, ReadIs DEF t
  <2>5. QED  BY <2>4 DEF ReadBack, h, t
<1>2. CASE v \notin RustValues(c.rust_type)
  <2>1. c.nullable /\ v = Null
    BY <1>2 DEF CellValues
  <2>2. QED  BY <2>1, NullReadsBack
<1>3. QED  BY <1>1, <1>2

\* A value written through a generated setter and read back through the
\* generated row is itself or an error, the fields apart to which an override
\* gave a type their column narrows (Narrows): whatever the driver widens to
\* and the engine's affinity, assignment or text makes of it (FromValue of
\* keelson-core, bind_args and decode_value of the drivers).
THEOREM ReadsBack == Spec => []ReadsBackOrRefuses
<1>1. SchemaOK => ReadsBackOrRefuses
  <2>1. SUFFICES ASSUME SchemaOK, Generates, NEW name \in DOMAIN Generated,
                        NEW m \in Range(Generated[name].columns), NEW v \in CellValues(m),
                        ~Narrows(config.dialect, m)
                 PROVE  ReadBack(config.dialect, m, v) \in {v, Refused}
    BY DEF ReadsBackOrRefuses
  <2> DEFINE table == Find(schema, name)
             seen  == Find(KeptTables(Canonical(schema), config), name)
             model == Generated[name]
  <2>2. /\ \E s \in Shapes[config.dialect] : OfShape(table, s)
        /\ \A f \in TableFields : f # "foreign_keys" => seen[f] = table[f]
        /\ TableRefusals(config, seen) \subseteq output.refusals
        /\ model.columns = ResolveTable(config, seen).columns
    BY <2>1, TableOfModel
  <2>3. config \in Configs /\ config.dialect \in Dialects
    BY <2>1, ConfigsAssumption DEF SchemaOK
  <2> HIDE DEF table, seen
  <2>4. seen.columns = table.columns /\ TableRefusals(config, seen) = {}
    BY <2>1, <2>2 DEF TableFields, Generates
  <2>5. IsList(seen.columns)
    BY <2>2, <2>3, <2>4, ShapesAssumption DEF OfShape, IsList
  <2>6. /\ \E f \in Range(Fields(config, seen)) : m.rust_type = f.rust_type
        /\ \E column \in Range(seen.columns) :
              m.rust_type = RustType(config.dialect, config.types, seen.name, column).rust
    BY <2>1, <2>2, <2>5, ModelColumnsAre
  <2>7. m.rust_type # Unmapped
    BY <2>4, <2>6 DEF TableRefusals, Where
  <2>8. m.rust_type \in RustTypes
    BY <2>3, <2>6, <2>7, RustTypeIs
  <2>9. QED  BY <2>1, <2>3, <2>8, CellReadsBack
<1>2. QED  BY <1>1, SchemaStays, PTL

============================================================================
