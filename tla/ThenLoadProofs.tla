---------------------------- MODULE ThenLoadProofs ----------------------------
(***************************************************************************)
(* What loading relations keeps, whatever the levels, the batch sizes and   *)
(* the rows, and whatever other sessions write meanwhile: children hang     *)
(* under parents with their key, after_select sees each model once and      *)
(* before or after the loads as documented, and a level asks for each of    *)
(* its keys once, in as few statements as its batch size allows.  Where     *)
(* nobody else writes, what is loaded is the join of parents and children.  *)
(*                                                                          *)
(* The first invariant is about a frame of the stack and the one below it,  *)
(* so that a step says nothing of the frames further down.  The second ties *)
(* the statements asked so far to where each frame is in its batches.  The  *)
(* third says that a frame's rows carry the levels it is done with, all the *)
(* way down: a set of pairs of a row and a level, closed under going down,  *)
(* stands for a recursion over what has been loaded.                        *)
(***************************************************************************)
EXTENDS LoadedJoin, FiniteSetTheorems, SequenceTheorems, WellFoundedInduction, TLAPS

-----------------------------------------------------------------------------
(* What the frames hold.                                                    *)

Listed(s) == s \in Seq(ToSet(s))

\* A model, and what is attached to it.
Paired(m, r) ==
    /\ r \in Relation /\ (~r.many => Len(m.rel[r]) <= 1)
    /\ \A c \in ToSet(m.rel[r]) :
         m[r.parent] = c[r.child] /\ c[r.child] # Null /\ c.seen = <<{}>>
Sound(m) ==
    /\ DOMAIN m = {"id", "ref", "rel", "seen"}
    /\ m.id \in Id /\ m.ref \in Id \union {Null}
    /\ \A r \in DOMAIN m.rel : Paired(m, r)

Rows(rows)         == Listed(rows) /\ \A m \in ToSet(rows) : Sound(m)
Seen(rows, s)      == \A m \in ToSet(rows) : m.seen = s
Bare(rows)         == \A m \in ToSet(rows) : m.rel = [r \in {} |-> <<>>] /\ m.seen = <<>>
Keyed(rows, column) == \A m \in ToSet(rows) : m[column] # Null

\* The query's own frame; a level's; that of one keyed statement of a level.
Root(F) ==
    /\ DOMAIN F = {"is", "at", "path", "from", "rows", "loaders", "done"}
    /\ F.is = "all" /\ F.path = <<>> /\ F.from \in Seq(Id)
    /\ F.loaders \in Seq(Levels) /\ F.done \in 0..Len(F.loaders)
    /\ Rows(F.rows) /\ Seen(F.rows, <<>>)

Working(F) ==
    /\ DOMAIN F = {"is", "at", "path", "level", "rows", "chunks", "children", "done"}
    /\ F.is = "run" /\ F.at = "chunks" /\ F.path \in Seq(Nat) /\ F.path # <<>>
    /\ F.level \in Levels /\ F.done \in 0..Len(F.level.then)
    /\ Listed(F.chunks) /\ \A keys \in ToSet(F.chunks) : Null \notin ToSet(keys)
    /\ Rows(F.rows)
    /\ Rows(F.children) /\ Seen(F.children, <<{}>>) /\ Keyed(F.children, F.level.rel.child)

Fetching(F) ==
    /\ DOMAIN F = {"is", "at", "path", "from", "rows", "loaders", "done"}
    /\ F.is = "all" /\ F.at \in {"hooks", "statement", "load"}
    /\ F.path # <<>> /\ F.loaders = <<>> /\ F.done = 0
    /\ DOMAIN F.from = {"keys", "column", "keep"} /\ Null \notin ToSet(F.from.keys)
    /\ Rows(F.rows) /\ Bare(F.rows)
    /\ F.at = "load" => Keyed(F.rows, F.from.column)

\* A frame over the one that awaits it.
Over(F, G) ==
    IF F.is = "run"
    THEN /\ Working(F) /\ F.path = Append(G.path, G.done)
         /\ G.is = "all" => Seen(F.rows, <<>>)
         /\ G.is = "run" => Seen(F.rows, <<{}>>) /\ Keyed(F.rows, G.level.rel.child)
    ELSE /\ Fetching(F) /\ G.is = "run" /\ F.path = G.path
         /\ F.from.column = G.level.rel.child

Frames ==
    /\ Listed(stack)
    /\ stack # <<>> =>
         /\ Root(stack[Len(stack)])
         /\ \A f \in 1..Len(stack)-1 :
              Over(stack[f], stack[f+1]) /\ (f > 1 => stack[f].is = "run")

Returns ==
    /\ Rows(result) /\ outcome \in Outcomes
    /\ \A m \in ToSet(result) : m.seen = <<DOMAIN m.rel>>

Shape ==
    /\ query \in Queries /\ writes \in 0..MaxWrites
    /\ DOMAIN table \subseteq Id /\ \A i \in DOMAIN table : table[i] \in Id \union {Null}

IInv == Shape /\ Frames /\ Returns

-----------------------------------------------------------------------------
(* What has been asked.                                                     *)

\* The keys of a level, and the first m statements that ask for keys in batches.
Due(F) == ToSet(Keys(F.rows, F.level.rel.parent)) \ {Null}
Statements(path, keys, batch, m) ==
    {[path |-> path, keys |-> Chunks(Sorted(keys), batch)[c], batch |-> batch] : c \in 1..m}
At(log, path) == {q \in log : q.path = path}
Number(keys, batch) == Len(Chunks(Sorted(keys), batch))

\* The keys of the batch in hand, whose statement has not run.
InHand(f) ==
    IF f = 2 /\ stack[1].is = "all" /\ stack[1].at \in {"hooks", "statement"}
    THEN <<stack[1].from.keys>> ELSE <<>>

\* A level has taken some of its batches, and their statements have been asked,
\* but for the one in hand.
Sent(F, hand, log) ==
    LET all == Chunks(Sorted(Due(F)), F.level.batch)
        taken == Len(all) - Len(F.chunks)
    IN  /\ taken \in 0..Len(all) /\ F.chunks = SubSeq(all, taken + 1, Len(all))
        /\ hand # <<>> => taken > 0 /\ hand = <<all[taken]>>
        /\ At(log, F.path) =
             Statements(F.path, Due(F), F.level.batch, IF hand = <<>> THEN taken ELSE taken - 1)
Progress(f) == stack[f].is = "run" => Sent(stack[f], InHand(f), asked)

Live(path) == \E f \in DOMAIN stack : stack[f].is = "run" /\ stack[f].path = path

\* What a path has asked: all of some keys in batches, or the first of them while
\* the level is at work, or where the query has failed.
Batched(path) ==
    \E keys \in SUBSET Id, l \in Levels : \E m \in 0..Number(keys, l.batch) :
      /\ At(asked, path) = Statements(path, keys, l.batch, m)
      /\ m = Number(keys, l.batch) \/ outcome = "error" \/ Live(path)

\* A path below another, and the one of its levels that it goes through.
Below(p, q)   == Len(q) < Len(p) /\ \A j \in 1..Len(q) : p[j] = q[j]
Through(p, q) == p[Len(q) + 1]

\* Levels run in order: the frames above one are at its latest level, and nothing
\* has been asked of a later one.
IsLevel(F) == F.is = "run" \/ F.path = <<>>
Latest ==
    \A f, g \in DOMAIN stack : f < g /\ stack[f].is = "run" =>
      Below(stack[f].path, stack[g].path) /\ Through(stack[f].path, stack[g].path) = stack[g].done
NoneLater ==
    \A q \in asked, g \in DOMAIN stack : IsLevel(stack[g]) /\ Below(q.path, stack[g].path) =>
      Through(q.path, stack[g].path) <= stack[g].done

Asked ==
    /\ again = {}
    /\ stack # <<>> => outcome = "running"
    /\ \A q \in asked : q.path \in Seq(Nat) /\ Batched(q.path)
    /\ Latest /\ NoneLater
    /\ \A f \in DOMAIN stack : Progress(f)

-----------------------------------------------------------------------------
(* Lemmas about sequences and sets of numbers.                              *)

LEMMA ListFacts ==
  ASSUME NEW s, Listed(s)
  PROVE  /\ Len(s) \in Nat /\ DOMAIN s = 1..Len(s) /\ s = [i \in 1..Len(s) |-> s[i]]
         /\ \A i \in 1..Len(s) : s[i] \in ToSet(s)
         /\ s # <<>> <=> Len(s) > 0
  <1>1. s \in Seq(ToSet(s))  BY DEF Listed
  <1>2. Len(s) \in Nat /\ DOMAIN s = 1..Len(s) /\ s = [i \in 1..Len(s) |-> s[i]]  BY <1>1
  <1>3. s # <<>> <=> Len(s) > 0  BY <1>1, EmptySeq
  <1>4. \A i \in 1..Len(s) : s[i] \in ToSet(s)  BY <1>2 DEF ToSet
  <1> QED  BY <1>2, <1>3, <1>4

LEMMA ListByIndex ==
  ASSUME NEW n \in Nat, NEW s, DOMAIN s = 1..n, s = [i \in 1..n |-> s[i]]
  PROVE  Listed(s) /\ Len(s) = n
  <1>1. \A i \in 1..n : s[i] \in ToSet(s)  BY DEF ToSet
  <1>2. s \in [1..n -> ToSet(s)]  BY <1>1
  <1>3. s \in Seq(ToSet(s))  BY <1>2, SeqDef
  <1>4. Len(s) = n  BY <1>2, <1>3
  <1> QED  BY <1>3, <1>4 DEF Listed

LEMMA ListOf ==
  ASSUME NEW S, NEW s \in Seq(S)
  PROVE  Listed(s) /\ ToSet(s) \subseteq S
  <1>1. DOMAIN s = 1..Len(s) /\ Len(s) \in Nat /\ s = [i \in 1..Len(s) |-> s[i]] /\ \A i \in 1..Len(s) : s[i] \in S  OBVIOUS
  <1> QED  BY <1>1, ListByIndex DEF ToSet

\* Concatenation: what is in it, and where.
LEMMA Joined ==
  ASSUME NEW s, NEW t, Listed(s), Listed(t)
  PROVE  /\ Listed(s \o t) /\ Len(s \o t) = Len(s) + Len(t)
         /\ \A i \in 1..Len(s) : (s \o t)[i] = s[i]
         /\ \A i \in 1..Len(t) : (s \o t)[Len(s) + i] = t[i]
         /\ ToSet(s \o t) = ToSet(s) \union ToSet(t)
  <1> DEFINE A == ToSet(s) \union ToSet(t)
  <1>1. s \in Seq(ToSet(s)) /\ t \in Seq(ToSet(t))  BY DEF Listed
  <1>2. s \in Seq(A) /\ t \in Seq(A)  BY <1>1, SeqDef
  <1> HIDE DEF A
  <1>3. s \o t \in Seq(A) /\ Len(s \o t) = Len(s) + Len(t)  BY <1>2
  <1>4. /\ \A i \in 1..Len(s) : (s \o t)[i] = s[i]
        /\ \A i \in 1..Len(t) : (s \o t)[Len(s) + i] = t[i]
    BY <1>2
  <1>5. Listed(s \o t)  BY <1>3, ListOf
  <1>6. ToSet(s \o t) = ToSet(s) \union ToSet(t)
    <2>1. Len(s) \in Nat /\ Len(t) \in Nat /\ DOMAIN s = 1..Len(s) /\ DOMAIN t = 1..Len(t)  BY <1>2
    <2>2. DOMAIN (s \o t) = 1..(Len(s) + Len(t))  BY <1>3, <2>1
    <2>3. ASSUME NEW i \in 1..(Len(s) + Len(t))  PROVE (s \o t)[i] \in ToSet(s) \union ToSet(t)
      <3>1. CASE i \in 1..Len(s)  BY <3>1, <1>4, <2>1 DEF ToSet
      <3>2. CASE i \notin 1..Len(s)
        <4>1. i - Len(s) \in 1..Len(t) /\ Len(s) + (i - Len(s)) = i  BY <3>2, <2>1
        <4> QED  BY <4>1, <1>4, <2>1 DEF ToSet
      <3> QED  BY <3>1, <3>2
    <2>4. \A i \in 1..Len(s) : s[i] \in ToSet(s \o t)
      <3>1. \A i \in 1..Len(s) : i \in 1..(Len(s) + Len(t))  BY <2>1
      <3> QED  BY <3>1, <1>4, <2>2 DEF ToSet
    <2>5. \A i \in 1..Len(t) : t[i] \in ToSet(s \o t)
      <3>1. \A i \in 1..Len(t) : Len(s) + i \in 1..(Len(s) + Len(t))  BY <2>1
      <3> QED  BY <3>1, <1>4, <2>2 DEF ToSet
    <2> QED  BY <2>1, <2>2, <2>3, <2>4, <2>5 DEF ToSet
  <1> QED  BY <1>3, <1>4, <1>5, <1>6

LEMMA One ==
  ASSUME NEW x
  PROVE  Listed(<<x>>) /\ Len(<<x>>) = 1 /\ <<x>>[1] = x /\ ToSet(<<x>>) = {x}
  <1>1. <<x>> \in Seq({x})  OBVIOUS
  <1>2. DOMAIN <<x>> = 1..1 /\ <<x>>[1] = x /\ Len(<<x>>) = 1  OBVIOUS
  <1>3. ToSet(<<x>>) = {x}
    <2>1. 1 \in 1..1 /\ \A i \in 1..1 : i = 1  OBVIOUS
    <2> QED  BY <2>1, <1>2 DEF ToSet
  <1> QED  BY <1>1, <1>2, <1>3, ListOf

LEMMA Part ==
  ASSUME NEW s, Listed(s), NEW m \in 1..(Len(s) + 1)
  PROVE  LET t == SubSeq(s, m, Len(s))
         IN  /\ Listed(t) /\ Len(t) = Len(s) - m + 1
             /\ \A i \in 1..Len(t) : t[i] = s[m + i - 1]
             /\ ToSet(t) \subseteq ToSet(s)
  <1> DEFINE t == SubSeq(s, m, Len(s))
  <1>1. Len(s) \in Nat /\ s \in Seq(ToSet(s))  BY ListFacts DEF Listed
  <1>2. t \in Seq(ToSet(s)) /\ Len(t) = Len(s) - m + 1 /\ \A i \in 1..Len(t) : t[i] = s[m + i - 1]
    BY <1>1
  <1>3. Listed(t) /\ ToSet(t) \subseteq ToSet(s)  BY <1>2, ListOf
  <1> QED  BY <1>2, <1>3

LEMMA TailOf ==
  ASSUME NEW s, Listed(s), s # <<>>
  PROVE  /\ Listed(Tail(s)) /\ Len(Tail(s)) = Len(s) - 1
         /\ \A i \in 1..Len(s)-1 : Tail(s)[i] = s[i+1]
         /\ Head(s) = s[1] /\ ToSet(Tail(s)) \subseteq ToSet(s)
  <1>1. s \in Seq(ToSet(s)) /\ Len(s) \in Nat /\ Len(s) > 0  BY ListFacts DEF Listed
  <1>2. Tail(s) \in Seq(ToSet(s)) /\ Len(Tail(s)) = Len(s) - 1 /\ Head(s) = s[1]  BY <1>1
  <1>3. \A i \in 1..Len(s)-1 : Tail(s)[i] = s[i+1]  BY <1>1
  <1> QED  BY <1>2, <1>3, ListOf

\* Sorted numbers the elements of a set: each has a rank of its own.
LEMMA SortedNumbers ==
  ASSUME NEW S \in SUBSET Nat, IsFiniteSet(S)
  PROVE  /\ Listed(Sorted(S)) /\ Len(Sorted(S)) = Cardinality(S) /\ Cardinality(S) \in Nat
         /\ ToSet(Sorted(S)) = S
         /\ \A i, j \in 1..Len(Sorted(S)) : Sorted(S)[i] = Sorted(S)[j] => i = j
  <1> DEFINE n == Cardinality(S)
             below(k) == {j \in S : j < k}
             rank == [k \in S |-> Cardinality(below(k)) + 1]
             s == Sorted(S)
  <1>1. n \in Nat  BY FS_CardinalityType
  <1>2. ASSUME NEW k \in S
        PROVE  IsFiniteSet(below(k)) /\ Cardinality(below(k)) \in Nat /\ Cardinality(below(k)) < n
    <2>1. below(k) \in SUBSET S  OBVIOUS
    <2>2. IsFiniteSet(below(k)) /\ Cardinality(below(k)) <= n /\ (n = Cardinality(below(k)) => S = below(k))
      BY <2>1, FS_Subset, Zenon
    <2>3. Cardinality(below(k)) \in Nat  BY <2>2, FS_CardinalityType
    <2>4. k \notin below(k)  OBVIOUS
    <2> QED  BY <1>1, <2>2, <2>3, <2>4
  <1>3. ASSUME NEW k \in S, NEW l \in S, k < l
        PROVE  Cardinality(below(k)) < Cardinality(below(l))
    <2>1. below(k) \in SUBSET below(l)
      <3>1. ASSUME NEW j \in S, j < k  PROVE j < l
        <4>1. k \in Nat /\ l \in Nat /\ j \in Nat  OBVIOUS
        <4> QED  BY <1>3, <3>1, <4>1
      <3> QED  BY <3>1, Zenon
    <2>2. k \in below(l) /\ k \notin below(k)  BY <1>3
    <2>3. IsFiniteSet(below(l)) /\ Cardinality(below(l)) \in Nat /\ Cardinality(below(k)) \in Nat  BY <1>2
    <2> HIDE DEF below
    <2>4. Cardinality(below(k)) <= Cardinality(below(l))
          /\ (Cardinality(below(l)) = Cardinality(below(k)) => below(l) = below(k))
      BY <2>1, <2>3, FS_Subset
    <2> QED  BY <2>2, <2>3, <2>4
  <1>4. ASSUME NEW k \in S, NEW l \in S, Cardinality(below(k)) = Cardinality(below(l))
        PROVE  k = l
    <2>1. k \in Nat /\ l \in Nat  OBVIOUS
    <2>2. Cardinality(below(k)) \in Nat /\ Cardinality(below(l)) \in Nat  BY <1>2
    <2>3. k < l \/ l < k \/ k = l  BY <2>1
    <2> HIDE DEF below
    <2> QED  BY <1>3, <1>4, <2>2, <2>3
  <1>5. \A k \in S : rank[k] \in 1..n
    <2> HIDE DEF below, n
    <2> QED  BY <1>1, <1>2
  <1>6. rank \in Injection(S, 1..n)
    <2>1. ASSUME NEW k \in S, NEW l \in S, rank[k] = rank[l]  PROVE k = l
      <3>1. Cardinality(below(k)) \in Nat /\ Cardinality(below(l)) \in Nat  BY <1>2
      <3>2. rank[k] = Cardinality(below(k)) + 1 /\ rank[l] = Cardinality(below(l)) + 1  OBVIOUS
      <3>3. Cardinality(below(k)) + 1 = Cardinality(below(l)) + 1  BY <2>1, <3>2, Zenon
      <3>4. Cardinality(below(k)) = Cardinality(below(l))
        <4> HIDE DEF below, rank
        <4> QED  BY <3>1, <3>3
      <3> QED  BY <1>4, <3>4
    <2>2. rank \in [S -> 1..n]  BY <1>5
    <2> QED  BY <2>1, <2>2 DEF Injection, IsInjective
  <1>7. IsFiniteSet(1..n) /\ Cardinality(1..n) = n
    <2>1. 1 \in Int /\ n \in Int  BY <1>1
    <2>2. IsFiniteSet(1..n) /\ Cardinality(1..n) = IF 1 > n THEN 0 ELSE n-1+1  BY <2>1, FS_Interval
    <2> HIDE DEF n
    <2> QED  BY <1>1, <2>2
  <1>8. rank \in Surjection(S, 1..n)
    <2> HIDE DEF rank
    <2> QED  BY <1>6, <1>7, FS_Injection
  <1>9. ASSUME NEW i \in 1..n
        PROVE  s[i] \in S /\ Cardinality(below(s[i])) = i - 1
    <2>1. PICK k \in S : rank[k] = i  BY <1>8 DEF Surjection
    <2>2. Cardinality(below(k)) \in Nat /\ i = Cardinality(below(k)) + 1  BY <1>2, <2>1
    <2>3. Cardinality(below(k)) = i - 1
      <3> HIDE DEF below
      <3> QED  BY <2>2
    <2>4. s[i] = CHOOSE j \in S : Cardinality(below(j)) = i - 1  BY DEF Sorted
    <2> HIDE DEF below, s
    <2> QED  BY <2>3, <2>4, Zenon
  <1>10. DOMAIN s = 1..n /\ s = [i \in 1..n |-> s[i]]
    <2> DEFINE pick(i) == CHOOSE k \in S : Cardinality({j \in S : j < k}) = i - 1
    <2>1. s = [i \in 1..n |-> pick(i)]  BY DEF Sorted
    <2> HIDE DEF s, n, pick
    <2> QED  BY <2>1
  <1> HIDE DEF s, n
  <1>11. Listed(s) /\ Len(s) = n  BY <1>1, <1>10, ListByIndex
  <1>12. ASSUME NEW i \in 1..n, NEW j \in 1..n, s[i] = s[j]  PROVE i = j
    <2>1. Cardinality(below(s[i])) = i - 1 /\ Cardinality(below(s[j])) = j - 1  BY <1>9
    <2>2. i - 1 = j - 1  BY <1>12, <2>1
    <2> QED  BY <2>2, <1>1
  <1>13. ASSUME NEW k \in S  PROVE \E i \in 1..n : s[i] = k
    <2>1. rank[k] \in 1..n /\ rank[k] = Cardinality(below(k)) + 1  BY <1>5
    <2>2. Cardinality(below(k)) \in Nat  BY <1>2
    <2>3. s[rank[k]] \in S /\ Cardinality(below(s[rank[k]])) = rank[k] - 1  BY <1>9, <2>1
    <2>4. rank[k] - 1 = Cardinality(below(k))
      <3> HIDE DEF rank, below
      <3> QED  BY <2>1, <2>2
    <2> HIDE DEF rank, below
    <2> QED  BY <1>4, <2>1, <2>3, <2>4
  <1>14. ToSet(s) = S
    <2>1. \A i \in 1..n : s[i] \in S  BY <1>9
    <2> QED  BY <1>10, <1>13, <2>1 DEF ToSet
  <1> QED  BY <1>1, <1>11, <1>12, <1>14 DEF s, n

-----------------------------------------------------------------------------
(* Batches: the chunks of the sorted keys are full but for the last one.    *)

LEMMA Ceiling ==
  ASSUME NEW k \in Nat, NEW n \in Nat \ {0}
  PROVE  LET c == (k + n - 1) \div n
         IN  /\ c \in Nat /\ k <= c * n
             /\ \A i \in 1..c : (i - 1) * n + 1 <= k
             /\ \A i \in 1..k : \E d \in 1..c : (d - 1) * n < i /\ i <= d * n
  <1> DEFINE c == (k + n - 1) \div n
             r == (k + n - 1) % n
  <1>1. k + n - 1 \in Nat  OBVIOUS
  <1>2. c \in Nat /\ r \in 0..(n-1) /\ k + n - 1 = n * c + r  BY <1>1
  <1> HIDE DEF c, r
  <1>3. k <= c * n  BY <1>2
  <1>4. ASSUME NEW i \in 1..c  PROVE (i - 1) * n + 1 <= k
    <2>1. (i - 1) * n <= (c - 1) * n  BY <1>2
    <2>2. (c - 1) * n = n * c - n  BY <1>2
    <2>3. n * c - n <= k - 1  BY <1>2
    <2> QED  BY <2>1, <2>2, <2>3, <1>2
  <1>5. ASSUME NEW i \in 1..k  PROVE \E d \in 1..c : (d - 1) * n < i /\ i <= d * n
    <2> DEFINE d == (i - 1) \div n
               e == (i - 1) % n
    <2>1. i - 1 \in Nat  OBVIOUS
    <2>2. d \in Nat /\ e \in 0..(n-1) /\ i - 1 = n * d + e  BY <2>1
    <2> HIDE DEF d, e
    <2>3. d * n < i /\ i <= (d + 1) * n  BY <2>2
    <2>4. d < c
      <3>1. d * n < c * n  BY <2>2, <2>3, <1>2, <1>3
      <3>2. SUFFICES ASSUME c <= d  PROVE FALSE  BY <2>2, <1>2
      <3>3. c * n <= d * n  BY <3>2, <2>2, <1>2
      <3> QED  BY <3>1, <3>3, <2>2, <1>2
    <2>5. d + 1 \in 1..c /\ (d + 1) - 1 = d  BY <2>2, <2>4, <1>2
    <2> QED  BY <2>3, <2>5
  <1> QED  BY <1>2, <1>3, <1>4, <1>5 DEF c

LEMMA ChunkFacts ==
  ASSUME NEW keys, Listed(keys), NEW n \in Nat \ {0}
  PROVE  LET all == Chunks(keys, n)
         IN  /\ Listed(all) /\ Len(all) = (Len(keys) + n - 1) \div n /\ Len(all) \in Nat
             /\ \A c \in 1..Len(all) :
                  /\ Listed(all[c]) /\ Len(all[c]) \in 1..n /\ all[c] # <<>>
                  /\ (c - 1) * n + Len(all[c]) <= Len(keys) /\ (c - 1) * n \in Nat
                  /\ \A j \in 1..Len(all[c]) : all[c][j] = keys[(c - 1) * n + j]
                  /\ c * n < Len(keys) => Len(all[c]) = n
                  /\ ~(c * n < Len(keys)) => (c - 1) * n + Len(all[c]) = Len(keys)
  <1> DEFINE all == Chunks(keys, n)
             k == Len(keys)
             count == (k + n - 1) \div n
             end(c) == IF c * n < k THEN c * n ELSE k
             chunk(c) == SubSeq(keys, (c - 1) * n + 1, end(c))
  <1>1. k \in Nat /\ keys \in Seq(ToSet(keys))  BY ListFacts DEF Listed
  <1>2. count \in Nat /\ k <= count * n /\ \A c \in 1..count : (c - 1) * n + 1 <= k  BY <1>1, Ceiling
  <1>3. all = [c \in 1..count |-> chunk(c)]  BY DEF Chunks
  <1>4. Listed(all) /\ Len(all) = count
    <2> HIDE DEF all, count, chunk
    <2>1. DOMAIN all = 1..count /\ all = [c \in 1..count |-> all[c]]  BY <1>3
    <2> QED  BY <2>1, <1>2, ListByIndex
  <1>5. \A c \in 1..count : all[c] = chunk(c)  BY <1>3
  <1> HIDE DEF all, count
  <1>6. ASSUME NEW c \in 1..count
        PROVE  /\ Listed(all[c]) /\ Len(all[c]) \in 1..n /\ all[c] # <<>>
               /\ (c - 1) * n + Len(all[c]) <= k /\ (c - 1) * n \in Nat
               /\ \A j \in 1..Len(all[c]) : all[c][j] = keys[(c - 1) * n + j]
               /\ c * n < k => Len(all[c]) = n
               /\ ~(c * n < k) => (c - 1) * n + Len(all[c]) = k
    <2> DEFINE m == (c - 1) * n
               e == end(c)
    <2>1. c \in Nat /\ c - 1 \in Nat  BY <1>2
    <2>2. m \in Nat /\ c * n \in Nat /\ c * n = m + n  BY <2>1
    <2>3. m + 1 <= k  BY <1>2
    <2>4. e = IF m + n < k THEN m + n ELSE k  BY <2>2
    <2>5. all[c] = SubSeq(keys, m + 1, e)  BY <1>5
    <2> HIDE DEF m, e, k
    <2>6. m + 1 \in 1..k /\ e \in m+1..k  BY <2>2, <2>3, <2>4, <1>1
    <2>7. all[c] \in Seq(ToSet(keys)) /\ Len(all[c]) = e - (m + 1) + 1
          /\ \A j \in 1..(e - (m + 1) + 1) : all[c][j] = keys[(m + 1) + j - 1]
      <3>1. m + 1 \in 1..Len(keys) /\ e \in m+1..Len(keys)  BY <2>6 DEF k
      <3>2. SubSeq(keys, m + 1, e) \in Seq(ToSet(keys))  BY <1>1, <3>1
      <3>3. Len(SubSeq(keys, m + 1, e)) = e - (m + 1) + 1  BY <1>1, <3>1, <2>2
      <3>4. \A j \in 1..(e - (m + 1) + 1) : SubSeq(keys, m + 1, e)[j] = keys[(m + 1) + j - 1]
        BY <1>1, <3>1, <2>2
      <3> QED  BY <2>5, <3>2, <3>3, <3>4
    <2>8. Len(all[c]) = e - m  BY <2>7, <2>6, <2>2
    <2>9. e - m \in 1..n  BY <2>2, <2>4, <2>6, <1>1
    <2>10. \A j \in 1..Len(all[c]) : all[c][j] = keys[m + j]
      <3>1. \A j \in 1..Len(all[c]) : j \in 1..(e - (m+1) + 1) /\ (m + 1) + j - 1 = m + j  BY <2>8, <2>9, <2>6, <2>2
      <3> QED  BY <2>7, <3>1
    <2>11. Listed(all[c])  BY <2>7, ListOf
    <2>12. all[c] # <<>>  BY <2>8, <2>9, <2>11, ListFacts
    <2>13. m + Len(all[c]) <= k  BY <2>8, <2>6, <2>2, <1>1
    <2>14. (c * n < k => Len(all[c]) = n) /\ (~(c * n < k) => m + Len(all[c]) = k)
      BY <2>8, <2>4, <2>2, <1>1
    <2>15. Len(all[c]) \in 1..n  BY <2>8, <2>9
    <2> QED  BY <2>2, <2>10, <2>11, <2>12, <2>13, <2>14, <2>15 DEF m
  <1> QED  BY <1>2, <1>4, <1>6 DEF all, count

\* Of keys that are all different, no two batches share one, and together they are
\* all of the keys.
LEMMA ChunksPartition ==
  ASSUME NEW keys, Listed(keys), NEW n \in Nat \ {0},
         \A i, j \in 1..Len(keys) : keys[i] = keys[j] => i = j
  PROVE  LET all == Chunks(keys, n)
         IN  /\ \A c, d \in 1..Len(all) : c # d => ToSet(all[c]) \intersect ToSet(all[d]) = {}
             /\ \A c, d \in 1..Len(all) : c # d => all[c] # all[d]
             /\ UNION {ToSet(all[c]) : c \in 1..Len(all)} = ToSet(keys)
             /\ Listed(all) /\ Len(all) = (Len(keys) + n - 1) \div n /\ Len(all) \in Nat
             /\ \A c \in 1..Len(all) : Listed(all[c]) /\ Len(all[c]) \in 1..n /\ all[c] # <<>>
  <1> DEFINE all == Chunks(keys, n)
             k == Len(keys)
  <1>1. k \in Nat /\ DOMAIN keys = 1..k  BY ListFacts
  <1>2. /\ Listed(all) /\ Len(all) = (k + n - 1) \div n /\ Len(all) \in Nat
        /\ \A c \in 1..Len(all) :
             /\ Listed(all[c]) /\ Len(all[c]) \in 1..n /\ all[c] # <<>>
             /\ (c - 1) * n + Len(all[c]) <= k /\ (c - 1) * n \in Nat
             /\ \A j \in 1..Len(all[c]) : all[c][j] = keys[(c - 1) * n + j]
             /\ c * n < k => Len(all[c]) = n
             /\ ~(c * n < k) => (c - 1) * n + Len(all[c]) = k
    BY ChunkFacts
  <1> HIDE DEF all, k
  <1>3. ASSUME NEW c \in 1..Len(all)
        PROVE  /\ DOMAIN all[c] = 1..Len(all[c])
               /\ \A x \in ToSet(all[c]) : \E i \in 1..k : keys[i] = x /\ (c - 1) * n < i /\ i <= c * n
    <2>1. Listed(all[c])  BY <1>2
    <2>2. DOMAIN all[c] = 1..Len(all[c]) /\ Len(all[c]) \in Nat  BY <2>1, ListFacts
    <2>3. ASSUME NEW j \in 1..Len(all[c])
          PROVE  \E i \in 1..k : keys[i] = all[c][j] /\ (c - 1) * n < i /\ i <= c * n
      <3> DEFINE m == (c - 1) * n
      <3>1. m \in Nat /\ m + Len(all[c]) <= k /\ Len(all[c]) \in 1..n /\ all[c][j] = keys[m + j]  BY <1>2
      <3>2. c * n = m + n  BY <1>2
      <3> HIDE DEF m
      <3>3. m + j \in 1..k /\ m < m + j /\ m + j <= c * n  BY <3>1, <3>2, <1>1
      <3> QED  BY <3>1, <3>3 DEF m
    <2> QED  BY <2>2, <2>3 DEF ToSet
  <1>4. ASSUME NEW c \in 1..Len(all), NEW d \in 1..Len(all), c < d
        PROVE  ToSet(all[c]) \intersect ToSet(all[d]) = {}
    <2> SUFFICES ASSUME NEW x \in ToSet(all[c]), x \in ToSet(all[d])  PROVE FALSE
      OBVIOUS
    <2>1. PICK i \in 1..k : keys[i] = x /\ i <= c * n  BY <1>3
    <2>2. PICK j \in 1..k : keys[j] = x /\ (d - 1) * n < j  BY <1>3
    <2>3. i = j  BY <2>1, <2>2 DEF k
    <2>4. c * n <= (d - 1) * n
      <3>1. c \in Nat /\ d - 1 \in Nat /\ c <= d - 1  BY <1>4, <1>2
      <3> QED  BY <3>1
    <2>5. c * n \in Nat /\ (d - 1) * n \in Nat  BY <1>2
    <2> QED  BY <2>1, <2>2, <2>3, <2>4, <2>5, <1>1
  <1>5. ASSUME NEW c \in 1..Len(all), NEW d \in 1..Len(all), c # d
        PROVE  ToSet(all[c]) \intersect ToSet(all[d]) = {}
    <2>1. c < d \/ d < c  BY <1>5, <1>2
    <2> QED  BY <2>1, <1>4
  <1>6. ASSUME NEW c \in 1..Len(all), NEW d \in 1..Len(all), c # d
        PROVE  all[c] # all[d]
    <2>1. Listed(all[c]) /\ Len(all[c]) \in 1..n  BY <1>2
    <2>2. all[c][1] \in ToSet(all[c])  BY <2>1, <1>3 DEF ToSet
    <2> QED  BY <2>2, <1>5, <1>6
  <1>7. ASSUME NEW c \in 1..Len(all)  PROVE ToSet(all[c]) \subseteq ToSet(keys)
    BY <1>3, <1>1 DEF ToSet
  <1>8. ASSUME NEW i \in 1..k  PROVE \E c \in 1..Len(all) : keys[i] \in ToSet(all[c])
    <2>1. PICK c \in 1..Len(all) : (c - 1) * n < i /\ i <= c * n  BY <1>1, <1>2, Ceiling
    <2> DEFINE m == (c - 1) * n
    <2>2. m \in Nat /\ (c * n < k => Len(all[c]) = n) /\ (~(c * n < k) => m + Len(all[c]) = k)
          /\ Len(all[c]) \in 1..n
      BY <1>2
    <2>3. c * n = m + n  BY <1>2
    <2>4. m < i /\ i <= c * n  BY <2>1
    <2>5. \A j \in 1..Len(all[c]) : all[c][j] = keys[m + j]  BY <1>2
    <2> HIDE DEF m
    <2>6. i - m \in 1..Len(all[c]) /\ m + (i - m) = i  BY <2>2, <2>3, <2>4, <1>1
    <2>7. all[c][i - m] = keys[i]  BY <2>5, <2>6
    <2> QED  BY <2>6, <2>7, <1>3 DEF ToSet
  <1>9. UNION {ToSet(all[c]) : c \in 1..Len(all)} = ToSet(keys)
    <2>1. \A x \in ToSet(keys) : \E c \in 1..Len(all) : x \in ToSet(all[c])  BY <1>8, <1>1 DEF ToSet
    <2> QED  BY <1>7, <2>1
  <1> QED  BY <1>2, <1>5, <1>6, <1>9 DEF all, k

-----------------------------------------------------------------------------
(* What is done to rows.                                                    *)

\* Decoding: a model as the statement found it.
LEMMA Decoded ==
  ASSUME Shape, NEW n \in Nat, NEW ids, \A k \in 1..n : ids[k] \in DOMAIN table
  PROVE  LET rows == [k \in 1..n |-> Model(ids[k])]
         IN  /\ Rows(rows) /\ Bare(rows) /\ Seen(rows, <<>>)
             /\ \A m \in ToSet(rows) : \E k \in 1..n : m = Model(ids[k])
  <1> DEFINE rows == [k \in 1..n |-> Model(ids[k])]
  <1>1. ASSUME NEW i \in DOMAIN table
        PROVE  Sound(Model(i)) /\ Model(i).rel = [r \in {} |-> <<>>] /\ Model(i).seen = <<>>
    <2>1. i \in Id /\ table[i] \in Id \union {Null}  BY DEF Shape
    <2> DEFINE none == [r \in {} |-> <<>>]
    <2>2. DOMAIN none = {}  OBVIOUS
    <2>3. Model(i) = [id |-> i, ref |-> table[i], rel |-> none, seen |-> <<>>]  BY DEF Model
    <2> HIDE DEF none
    <2>4. /\ DOMAIN Model(i) = {"id", "ref", "rel", "seen"} /\ Model(i).id = i /\ Model(i).ref = table[i]
          /\ Model(i).rel = none /\ Model(i).seen = <<>>
      BY <2>3
    <2> QED  BY <2>1, <2>2, <2>4 DEF Sound, none
  <1>2. DOMAIN rows = 1..n /\ rows = [k \in 1..n |-> rows[k]] /\ \A k \in 1..n : rows[k] = Model(ids[k])
    <2> DEFINE row(k) == Model(ids[k])
    <2>1. rows = [k \in 1..n |-> row(k)]  OBVIOUS
    <2> HIDE DEF row, rows
    <2>2. DOMAIN rows = 1..n /\ rows = [k \in 1..n |-> rows[k]] /\ \A k \in 1..n : rows[k] = row(k)  BY <2>1
    <2> QED  BY <2>2 DEF row
  <1> HIDE DEF rows
  <1>3. Listed(rows)  BY <1>2, ListByIndex
  <1>4. \A m \in ToSet(rows) : \E k \in 1..n : m = Model(ids[k])  BY <1>2 DEF ToSet
  <1>5. \A m \in ToSet(rows) : Sound(m) /\ m.rel = [r \in {} |-> <<>>] /\ m.seen = <<>>
    <2>1. TAKE m \in ToSet(rows)
    <2>2. PICK k \in 1..n : m = Model(ids[k])  BY <1>4
    <2>3. ids[k] \in DOMAIN table  OBVIOUS
    <2> QED  BY <1>1, <2>2, <2>3, Zenon
  <1> QED  BY <1>3, <1>4, <1>5 DEF rows, Rows, Bare, Seen

\* after_select leaves a model what it was, but for having seen it.
LEMMA HookedRows ==
  ASSUME NEW rows, Rows(rows)
  PROVE  /\ Rows(Hooked(rows)) /\ Len(Hooked(rows)) = Len(rows)
         /\ Seen(rows, <<>>) => \A m \in ToSet(Hooked(rows)) : m.seen = <<DOMAIN m.rel>>
         /\ Bare(rows) => Seen(Hooked(rows), <<{}>>)
         /\ \A column \in Columns : Keyed(rows, column) => Keyed(Hooked(rows), column)
  <1> DEFINE after == Hooked(rows)
             hook(m) == [m EXCEPT !.seen = Append(@, DOMAIN m.rel)]
  <1>1. Listed(rows) /\ Len(rows) \in Nat /\ DOMAIN rows = 1..Len(rows) /\ \A i \in 1..Len(rows) : rows[i] \in ToSet(rows)
    BY ListFacts DEF Rows
  <1>2. after = [i \in DOMAIN rows |-> hook(rows[i])]  BY DEF Hooked
  <1>3. DOMAIN after = 1..Len(rows) /\ after = [i \in 1..Len(rows) |-> after[i]]
        /\ \A i \in 1..Len(rows) : after[i] = hook(rows[i])
    <2> HIDE DEF after, hook
    <2> QED  BY <1>1, <1>2
  <1>4. Listed(after) /\ Len(after) = Len(rows)
    <2> HIDE DEF after
    <2> QED  BY <1>1, <1>3, ListByIndex
  <1>5. \A m \in ToSet(after) : \E l \in ToSet(rows) : m = hook(l)
    <2> HIDE DEF after, hook
    <2> QED  BY <1>1, <1>3 DEF ToSet
  <1>6. ASSUME NEW l \in ToSet(rows)
        PROVE  /\ Sound(hook(l)) /\ hook(l).rel = l.rel /\ hook(l).id = l.id /\ hook(l).ref = l.ref
               /\ hook(l).seen = Append(l.seen, DOMAIN l.rel)
    <2>1. Sound(l)  BY DEF Rows
    <2>2. DOMAIN l = {"id", "ref", "rel", "seen"}  BY <2>1 DEF Sound
    <2> DEFINE after_l == hook(l)
    <2>3. /\ DOMAIN after_l = {"id", "ref", "rel", "seen"} /\ after_l.id = l.id /\ after_l.ref = l.ref
          /\ after_l.rel = l.rel /\ after_l.seen = Append(l.seen, DOMAIN l.rel)
      BY <2>2
    <2> HIDE DEF after_l
    <2>4. ASSUME NEW r \in DOMAIN after_l.rel  PROVE Paired(after_l, r)
      <3>1. Paired(l, r)  BY <2>1, <2>3 DEF Sound
      <3>2. r.parent \in {"id", "ref"}  BY <3>1 DEF Paired, Relation, Columns
      <3>3. after_l[r.parent] = l[r.parent]  BY <3>2, <2>3
      <3> QED  BY <3>1, <3>3, <2>3 DEF Paired
    <2>5. Sound(after_l)  BY <2>1, <2>3, <2>4 DEF Sound
    <2> QED  BY <2>3, <2>5 DEF after_l
  <1> HIDE DEF after, hook
  <1>7. Rows(after)
    <2>1. \A m \in ToSet(after) : Sound(m)  BY <1>5, <1>6
    <2> QED  BY <1>4, <2>1 DEF Rows
  <1>8. ASSUME Seen(rows, <<>>), NEW m \in ToSet(after)  PROVE m.seen = <<DOMAIN m.rel>>
    <2>1. PICK l \in ToSet(rows) : m = hook(l)  BY <1>5
    <2>2. m.seen = Append(l.seen, DOMAIN l.rel) /\ l.seen = <<>> /\ m.rel = l.rel  BY <1>6, <1>8, <2>1 DEF Seen
    <2>3. \A x : Append(<<>>, x) = <<x>>  OBVIOUS
    <2> QED  BY <2>2, <2>3
  <1>9. ASSUME Bare(rows), NEW m \in ToSet(after)  PROVE m.seen = <<{}>>
    <2>1. PICK l \in ToSet(rows) : m = hook(l)  BY <1>5
    <2>2. m.seen = Append(l.seen, DOMAIN l.rel) /\ l.seen = <<>> /\ l.rel = [r \in {} |-> <<>>]
      BY <1>6, <1>9, <2>1 DEF Bare
    <2>3. DOMAIN l.rel = {}  BY <2>2
    <2>4. \A x : Append(<<>>, x) = <<x>>  OBVIOUS
    <2> QED  BY <2>2, <2>3, <2>4
  <1>10. ASSUME NEW column \in Columns, Keyed(rows, column), NEW m \in ToSet(after)  PROVE m[column] # Null
    <2>1. PICK l \in ToSet(rows) : m = hook(l)  BY <1>5
    <2>2. m.id = l.id /\ m.ref = l.ref /\ l[column] # Null  BY <1>6, <1>10, <2>1 DEF Keyed
    <2> QED  BY <2>2 DEF Columns
  <1> QED  BY <1>4, <1>7, <1>8, <1>9, <1>10 DEF after, Seen, Keyed

\* The children with a key are children, and have it.
LEMMA WithKey ==
  ASSUME NEW children, Listed(children), NEW key, NEW column
  PROVE  LET own == With(key, children, column)
         IN  Listed(own) /\ \A c \in ToSet(own) : c \in ToSet(children) /\ c[column] = key
  <1> DEFINE S == {i \in DOMAIN children : children[i][column] = key}
             places == Sorted(S)
             own == With(key, children, column)
  <1>1. Len(children) \in Nat /\ DOMAIN children = 1..Len(children)  BY ListFacts
  <1>2. S \in SUBSET Nat /\ IsFiniteSet(S)
    <2>1. S \in SUBSET (1..Len(children))  BY <1>1
    <2>2. IsFiniteSet(1..Len(children))  BY <1>1, FS_Interval
    <2> HIDE DEF S
    <2>3. IsFiniteSet(S)  BY <2>1, <2>2, FS_Subset
    <2>4. \A i \in 1..Len(children) : i \in Nat  BY <1>1
    <2> QED  BY <2>1, <2>3, <2>4
  <1>3. own = [n \in DOMAIN places |-> children[places[n]]]  BY DEF With
  <1>4. \A i \in S : i \in DOMAIN children /\ children[i][column] = key  OBVIOUS
  <1> HIDE DEF S, own
  <1>5. Listed(places) /\ ToSet(places) = S  BY <1>2, SortedNumbers
  <1> HIDE DEF places
  <1>6. Len(places) \in Nat /\ DOMAIN places = 1..Len(places) /\ \A i \in 1..Len(places) : places[i] \in S  BY <1>5, ListFacts
  <1>7. DOMAIN own = 1..Len(places) /\ own = [i \in 1..Len(places) |-> own[i]]
        /\ \A i \in 1..Len(places) : own[i] = children[places[i]]
    BY <1>3, <1>6
  <1>8. Listed(own)  BY <1>6, <1>7, ListByIndex
  <1>9. ASSUME NEW c \in ToSet(own)  PROVE c \in ToSet(children) /\ c[column] = key
    <2>1. PICK i \in 1..Len(places) : c = own[i]  BY <1>7 DEF ToSet
    <2>2. c = children[places[i]] /\ places[i] \in DOMAIN children /\ children[places[i]][column] = key
      BY <1>4, <1>6, <1>7, <2>1
    <2> QED  BY <2>2 DEF ToSet
  <1> QED  BY <1>8, <1>9 DEF own

LEMMA AttachedRows ==
  ASSUME NEW parents, Rows(parents), NEW rel \in Relation,
         NEW children, Rows(children), Seen(children, <<{}>>), Keyed(children, rel.child)
  PROVE  LET after == Attached(parents, children, rel)
         IN  /\ Rows(after)
             /\ \A s : Seen(parents, s) => Seen(after, s)
             /\ \A column \in Columns : Keyed(parents, column) => Keyed(after, column)
  <1> DEFINE after == Attached(parents, children, rel)
             key(i) == parents[i][rel.parent]
             own == IF rel.many THEN AttachMany(parents, children, rel)
                    ELSE AttachOne(parents, children, rel)
             rels(i) == [r \in DOMAIN parents[i].rel \union {rel} |->
                           IF r = rel THEN own[i] ELSE parents[i].rel[r]]
             with(i) == With(key(i), children, rel.child)
             row(i) == [parents[i] EXCEPT !.rel = rels(i)]
  <1>1. Listed(parents) /\ Len(parents) \in Nat /\ DOMAIN parents = 1..Len(parents)
        /\ \A i \in 1..Len(parents) : parents[i] \in ToSet(parents) /\ Sound(parents[i])
    BY ListFacts DEF Rows
  <1>2. Listed(children) /\ DOMAIN children = 1..Len(children)  BY ListFacts DEF Rows
  <1>3. ASSUME NEW i \in 1..Len(parents)
        PROVE  /\ ~rel.many => Len(own[i]) <= 1
               /\ \A c \in ToSet(own[i]) : c \in ToSet(children) /\ c[rel.child] = key(i)
    <2>1. Listed(with(i)) /\ \A c \in ToSet(with(i)) : c \in ToSet(children) /\ c[rel.child] = key(i)
      BY <1>2, WithKey
    <2>2. Listed(<<>>) /\ Len(<<>>) = 0 /\ ToSet(<<>>) = {}
      <3>1. <<>> \in Seq({}) /\ Len(<<>>) = 0 /\ DOMAIN <<>> = {}  OBVIOUS
      <3> QED  BY <3>1, ListOf, ZenonT(60) DEF ToSet
    <2>3. CASE rel.many
      <3> DEFINE taken == \E j \in 1 .. i - 1 : parents[j][rel.parent] = parents[i][rel.parent]
      <3>1. own[i] = IF taken THEN <<>> ELSE with(i)  BY <1>1, <2>3 DEF AttachMany
      <3> HIDE DEF own, with, taken
      <3> QED  BY <3>1, <2>1, <2>2, <2>3
    <2>4. CASE ~rel.many
      <3>1. own[i] = IF with(i) = <<>> THEN <<>> ELSE <<Last(with(i))>>  BY <1>1, <2>4 DEF AttachOne
      <3> HIDE DEF own, with
      <3>2. CASE with(i) = <<>>  BY <3>1, <3>2, <2>2
      <3>3. CASE with(i) # <<>>
        <4>1. own[i] = <<Last(with(i))>>  BY <3>1, <3>3
        <4>2. Len(own[i]) = 1 /\ ToSet(own[i]) = {Last(with(i))}  BY <4>1, One
        <4>3. Len(with(i)) \in 1..Len(with(i))  BY <2>1, <3>3, ListFacts
        <4>4. Last(with(i)) \in ToSet(with(i))  BY <2>1, <4>3, ListFacts DEF Last
        <4> QED  BY <2>1, <4>2, <4>4
      <3> QED  BY <3>2, <3>3
    <2> QED  BY <2>3, <2>4
  <1>4. after = [i \in DOMAIN parents |-> row(i)]  BY DEF Attached
  <1> HIDE DEF own, after
  <1>5. ASSUME NEW i \in 1..Len(parents)
        PROVE  /\ Sound(row(i)) /\ row(i).id = parents[i].id /\ row(i).ref = parents[i].ref
               /\ row(i).seen = parents[i].seen
    <2>1. Sound(parents[i])  BY <1>1
    <2>2. DOMAIN parents[i] = {"id", "ref", "rel", "seen"}  BY <2>1 DEF Sound
    <2> DEFINE m == row(i)  all == rels(i)
    <2>3. /\ DOMAIN all = DOMAIN parents[i].rel \union {rel}
          /\ all[rel] = own[i] /\ \A r \in DOMAIN parents[i].rel : r # rel => all[r] = parents[i].rel[r]
      OBVIOUS
    <2> HIDE DEF all
    <2>4. m = [parents[i] EXCEPT !.rel = all]  BY DEF all
    <2> HIDE DEF m
    <2>5. /\ DOMAIN m = {"id", "ref", "rel", "seen"} /\ m.id = parents[i].id /\ m.ref = parents[i].ref
          /\ m.rel = all /\ m.seen = parents[i].seen
      BY <2>2, <2>4
    <2>6. ASSUME NEW r \in DOMAIN parents[i].rel, r # rel  PROVE Paired(m, r)
      <3>1. Paired(parents[i], r)  BY <2>1 DEF Sound
      <3>2. r.parent \in {"id", "ref"}  BY <3>1 DEF Paired, Relation, Columns
      <3>3. m[r.parent] = parents[i][r.parent] /\ m.rel[r] = parents[i].rel[r]  BY <3>2, <2>5, <2>3, <2>6
      <3> QED  BY <3>1, <3>3 DEF Paired
    <2>7. Paired(m, rel)
      <3>1. rel.parent \in {"id", "ref"}  BY DEF Relation, Columns
      <3>2. m[rel.parent] = key(i) /\ m.rel[rel] = own[i]  BY <3>1, <2>5, <2>3
      <3>3. \A c \in ToSet(own[i]) : c[rel.child] = key(i) /\ c[rel.child] # Null /\ c.seen = <<{}>>
        BY <1>3 DEF Seen, Keyed
      <3> HIDE DEF key
      <3> QED  BY <1>3, <3>2, <3>3 DEF Paired
    <2>8. \A r \in DOMAIN m.rel : Paired(m, r)  BY <2>3, <2>5, <2>6, <2>7
    <2>9. Sound(m)  BY <2>1, <2>5, <2>8 DEF Sound
    <2> QED  BY <2>5, <2>9 DEF m
  <1> HIDE DEF row
  <1>6. DOMAIN after = 1..Len(parents) /\ after = [i \in 1..Len(parents) |-> after[i]]
        /\ \A i \in 1..Len(parents) : after[i] = row(i)
    BY <1>1, <1>4
  <1>7. Listed(after)  BY <1>1, <1>6, ListByIndex
  <1>8. \A m \in ToSet(after) : \E i \in 1..Len(parents) : m = row(i)  BY <1>6 DEF ToSet
  <1>9. Rows(after)  BY <1>5, <1>7, <1>8 DEF Rows
  <1>10. ASSUME NEW s, Seen(parents, s)  PROVE Seen(after, s)
    BY <1>1, <1>5, <1>8, <1>10 DEF Seen
  <1>11. ASSUME NEW column \in Columns, Keyed(parents, column)  PROVE Keyed(after, column)
    <2>1. \A i \in 1..Len(parents) : row(i)[column] = parents[i][column]  BY <1>5 DEF Columns
    <2> QED  BY <1>1, <1>8, <1>11, <2>1 DEF Keyed
  <1> QED  BY <1>9, <1>10, <1>11 DEF after

-----------------------------------------------------------------------------
(* The stack: what each step does to it.                                    *)

LEMMA TopReplaced ==
  ASSUME NEW s, Listed(s), s # <<>>, NEW x
  PROVE  LET t == <<x>> \o Tail(s)
         IN  /\ Listed(t) /\ Len(t) = Len(s) /\ t # <<>> /\ t[1] = x
             /\ \A i \in 2..Len(s) : t[i] = s[i]
  <1> DEFINE t == <<x>> \o Tail(s)
             A == ToSet(s) \union {x}
  <1>1. Len(s) \in Nat /\ Len(s) > 0 /\ s \in Seq(ToSet(s))  BY ListFacts DEF Listed
  <1>2. s \in Seq(A) /\ x \in A  BY <1>1, SeqDef
  <1> HIDE DEF A
  <1>3. Tail(s) \in Seq(A) /\ <<x>> \in Seq(A) /\ Len(Tail(s)) = Len(s) - 1  BY <1>1, <1>2
  <1>4. t \in Seq(A) /\ Len(t) = Len(s)  BY <1>1, <1>3
  <1>5. t[1] = x  BY <1>3
  <1>6. ASSUME NEW i \in 2..Len(s)  PROVE t[i] = s[i]
    <2>1. t[i] = Tail(s)[i - 1]  BY <1>1, <1>3
    <2>2. Tail(s)[i - 1] = s[i]
      <3>1. i - 1 \in 1..Len(s)-1 /\ (i - 1) + 1 = i  BY <1>1
      <3> QED  BY <3>1, TailOf
    <2> QED  BY <2>1, <2>2
  <1>7. Listed(t)  BY <1>4, ListOf
  <1>8. t # <<>>  BY <1>1, <1>4, <1>7, ListFacts
  <1> QED  BY <1>4, <1>5, <1>6, <1>7, <1>8

LEMMA Pushed ==
  ASSUME NEW s, Listed(s), s # <<>>, NEW x, NEW y
  PROVE  LET t == <<x, y>> \o Tail(s)
         IN  /\ Listed(t) /\ Len(t) = Len(s) + 1 /\ t # <<>> /\ t[1] = x /\ t[2] = y
             /\ \A i \in 2..Len(s) : t[i+1] = s[i]
  <1> DEFINE t == <<x, y>> \o Tail(s)
             A == ToSet(s) \union {x, y}
  <1>1. Len(s) \in Nat /\ Len(s) > 0 /\ s \in Seq(ToSet(s))  BY ListFacts DEF Listed
  <1>2. s \in Seq(A) /\ x \in A /\ y \in A  BY <1>1, SeqDef
  <1> HIDE DEF A
  <1>3. Tail(s) \in Seq(A) /\ <<x, y>> \in Seq(A) /\ Len(Tail(s)) = Len(s) - 1 /\ Len(<<x, y>>) = 2
    BY <1>1, <1>2
  <1>4. t \in Seq(A) /\ Len(t) = Len(s) + 1  BY <1>1, <1>3
  <1>5. t[1] = x /\ t[2] = y  BY <1>3
  <1>6. ASSUME NEW i \in 2..Len(s)  PROVE t[i+1] = s[i]
    <2>1. t[i+1] = Tail(s)[i - 1]  BY <1>1, <1>3
    <2>2. Tail(s)[i - 1] = s[i]
      <3>1. i - 1 \in 1..Len(s)-1 /\ (i - 1) + 1 = i  BY <1>1
      <3> QED  BY <3>1, TailOf
    <2> QED  BY <2>1, <2>2
  <1>7. Listed(t)  BY <1>4, ListOf
  <1>8. t # <<>>  BY <1>1, <1>4, <1>7, ListFacts
  <1> QED  BY <1>4, <1>5, <1>6, <1>7, <1>8

LEMMA Popped ==
  ASSUME NEW s, Listed(s), Len(s) > 1, NEW x
  PROVE  LET t == <<x>> \o SubSeq(s, 3, Len(s))
         IN  /\ Listed(t) /\ Len(t) = Len(s) - 1 /\ t # <<>> /\ t[1] = x
             /\ \A i \in 2..Len(t) : t[i] = s[i+1]
  <1> DEFINE t == <<x>> \o SubSeq(s, 3, Len(s))
             A == ToSet(s) \union {x}
             p == SubSeq(s, 3, Len(s))
  <1>1. Len(s) \in Nat /\ s \in Seq(ToSet(s))  BY ListFacts DEF Listed
  <1>2. s \in Seq(A) /\ x \in A  BY <1>1, SeqDef
  <1> HIDE DEF A
  <1>3. p \in Seq(A) /\ Len(p) = Len(s) - 2 /\ \A i \in 1..Len(p) : p[i] = s[i + 2]
    <2>1. 3 \in 1..(Len(s) + 1)  BY <1>1
    <2>2. Listed(p) /\ Len(p) = Len(s) - 3 + 1 /\ \A i \in 1..Len(p) : p[i] = s[3 + i - 1]  BY <2>1, Part
    <2>3. p \in Seq(A)  BY <1>1, <1>2
    <2> HIDE DEF p
    <2>4. Len(p) = Len(s) - 2  BY <2>2, <1>1
    <2>5. \A i \in 1..Len(p) : 3 + i - 1 = i + 2  BY <2>4, <1>1
    <2> QED  BY <2>2, <2>3, <2>4, <2>5
  <1>4. t = <<x>> \o p  OBVIOUS
  <1> HIDE DEF p
  <1>5. <<x>> \in Seq(A) /\ Len(<<x>>) = 1  BY <1>2
  <1>6. t \in Seq(A) /\ Len(t) = Len(s) - 1
    <2>1. p \in Seq(A) /\ Len(p) = Len(s) - 2  BY <1>3
    <2>2. \A q \in Seq(A) : <<x>> \o q \in Seq(A) /\ Len(<<x>> \o q) = 1 + Len(q)  BY <1>5
    <2>3. <<x>> \o p \in Seq(A) /\ Len(<<x>> \o p) = 1 + Len(p)  BY <2>1, <2>2
    <2>4. t \in Seq(A) /\ Len(t) = 1 + Len(p)  BY <2>3, <1>4, Zenon
    <2> QED  BY <1>1, <2>1, <2>4
  <1>7. t[1] = x  BY <1>3, <1>4, <1>5
  <1>8. ASSUME NEW i \in 2..Len(t)  PROVE t[i] = s[i+1]
    <2>1. t[i] = p[i - 1]  BY <1>1, <1>3, <1>4, <1>5, <1>6, SMTT(30)
    <2>2. i - 1 \in 1..Len(p) /\ (i - 1) + 2 = i + 1  BY <1>1, <1>3, <1>6
    <2> QED  BY <2>1, <2>2, <1>3
  <1>9. Listed(t)  BY <1>6, ListOf
  <1>10. t # <<>>  BY <1>1, <1>6, <1>9, ListFacts
  <1> QED  BY <1>6, <1>7, <1>8, <1>9, <1>10

\* The frames after a step, from those it puts on top.
LEMMA FramesReplaced ==
  ASSUME Frames, stack # <<>>, NEW F, stack' = <<F>> \o Tail(stack),
         Len(stack) = 1 => Root(F), Len(stack) > 1 => Over(F, stack[2])
  PROVE  Frames'
  <1>1. Listed(stack) /\ Root(stack[Len(stack)])
        /\ \A f \in 1..Len(stack)-1 : Over(stack[f], stack[f+1]) /\ (f > 1 => stack[f].is = "run")
    BY DEF Frames
  <1> DEFINE t == stack'  n == Len(stack)
  <1>2. n \in Nat /\ n > 0  BY <1>1, ListFacts
  <1>3. /\ Listed(t) /\ Len(t) = n /\ t # <<>> /\ t[1] = F
        /\ \A i \in 2..n : t[i] = stack[i]
    <2>1. t = <<F>> \o Tail(stack) /\ Listed(stack) /\ stack # <<>>  BY <1>1
    <2> HIDE DEF t
    <2> QED  BY <2>1, TopReplaced
  <1> HIDE DEF t, n
  <1>4. Root(t[n])
    <2>1. CASE n = 1  BY <2>1, <1>3 DEF n
    <2>2. CASE n > 1  BY <2>2, <1>1, <1>2, <1>3 DEF n
    <2> QED  BY <2>1, <2>2, <1>2
  <1>5. ASSUME NEW f \in 1..n-1  PROVE Over(t[f], t[f+1]) /\ (f > 1 => t[f].is = "run")
    <2>1. f + 1 \in 2..n /\ t[f+1] = stack[f+1]  BY <1>2, <1>3
    <2>2. CASE f = 1
      <3>1. n > 1 /\ t[f] = F /\ t[f+1] = stack[2]  BY <2>1, <2>2, <1>2, <1>3
      <3> QED  BY <3>1, <2>2 DEF n
    <2>3. CASE f # 1
      <3>1. t[f] = stack[f]  BY <2>3, <1>2, <1>3
      <3> QED  BY <3>1, <2>1, <1>1 DEF n
    <2> QED  BY <2>2, <2>3
  <1> QED  BY <1>3, <1>4, <1>5 DEF Frames, t

LEMMA FramesPushed ==
  ASSUME Frames, stack # <<>>, NEW F, NEW G, stack' = <<F, G>> \o Tail(stack), Over(F, G),
         Len(stack) = 1 => Root(G), Len(stack) > 1 => Over(G, stack[2]) /\ G.is = "run"
  PROVE  Frames'
  <1>1. Listed(stack) /\ Root(stack[Len(stack)])
        /\ \A f \in 1..Len(stack)-1 : Over(stack[f], stack[f+1]) /\ (f > 1 => stack[f].is = "run")
    BY DEF Frames
  <1> DEFINE t == stack'  n == Len(stack)
  <1>2. n \in Nat /\ n > 0  BY <1>1, ListFacts
  <1>3. /\ Listed(t) /\ Len(t) = n + 1 /\ t # <<>> /\ t[1] = F /\ t[2] = G
        /\ \A i \in 2..n : t[i+1] = stack[i]
    <2>1. t = <<F, G>> \o Tail(stack) /\ Listed(stack) /\ stack # <<>>  BY <1>1
    <2> HIDE DEF t
    <2> QED  BY <2>1, Pushed
  <1> HIDE DEF t, n
  <1>4. Root(t[n+1])
    <2>1. CASE n = 1  BY <2>1, <1>3 DEF n
    <2>2. CASE n > 1
      <3>1. n \in 2..n  BY <2>2, <1>2
      <3> QED  BY <3>1, <1>1, <1>3 DEF n
    <2> QED  BY <2>1, <2>2, <1>2
  <1>5. ASSUME NEW f \in 1..n  PROVE Over(t[f], t[f+1]) /\ (f > 1 => t[f].is = "run")
    <2>1. CASE f = 1  BY <2>1, <1>3
    <2>2. CASE f = 2
      <3>1. n > 1 /\ 2 \in 2..n  BY <2>2, <1>2
      <3>2. t[f] = G /\ t[f+1] = stack[2]  BY <3>1, <2>2, <1>3
      <3> QED  BY <3>1, <3>2 DEF n
    <2>3. CASE f > 2
      <3>1. f \in 2..n /\ f - 1 \in 2..n /\ (f - 1) + 1 = f /\ f - 1 \in 1..n-1 /\ f - 1 > 1  BY <2>3, <1>2
      <3>2. t[f] = stack[f - 1] /\ t[f+1] = stack[f]  BY <3>1, <1>3
      <3>3. Over(stack[f - 1], stack[(f - 1) + 1]) /\ stack[f - 1].is = "run"  BY <3>1, <1>1 DEF n
      <3> QED  BY <3>1, <3>2, <3>3
    <2> QED  BY <2>1, <2>2, <2>3, <1>2
  <1>6. Len(t) - 1 = n  BY <1>2, <1>3
  <1> QED  BY <1>3, <1>4, <1>5, <1>6 DEF Frames, t

LEMMA FramesPopped ==
  ASSUME Frames, Len(stack) > 1, NEW G, stack' = <<G>> \o SubSeq(stack, 3, Len(stack)),
         Len(stack) = 2 => Root(G), Len(stack) > 2 => Over(G, stack[3])
  PROVE  Frames'
  <1>1. Listed(stack)  BY DEF Frames
  <1>2. Len(stack) \in Nat /\ stack # <<>>  BY <1>1, ListFacts
  <1>3. Root(stack[Len(stack)])
        /\ \A f \in 1..Len(stack)-1 : Over(stack[f], stack[f+1]) /\ (f > 1 => stack[f].is = "run")
    BY <1>2 DEF Frames
  <1> DEFINE t == stack'  n == Len(stack) - 1
  <1>4. n \in Nat /\ n > 0 /\ Len(stack) = n + 1  BY <1>2
  <1>5. /\ Listed(t) /\ Len(t) = n /\ t # <<>> /\ t[1] = G
        /\ \A i \in 2..Len(t) : t[i] = stack[i+1]
    <2>1. t = <<G>> \o SubSeq(stack, 3, Len(stack)) /\ Listed(stack) /\ Len(stack) > 1  BY <1>1
    <2> HIDE DEF t
    <2> QED  BY <2>1, Popped
  <1> HIDE DEF t, n
  <1>6. Root(t[n])
    <2>1. CASE n = 1  BY <2>1, <1>4, <1>5
    <2>2. CASE n > 1
      <3>1. n \in 2..n  BY <2>2, <1>4
      <3> QED  BY <3>1, <1>3, <1>4, <1>5
    <2> QED  BY <2>1, <2>2, <1>4
  <1>7. ASSUME NEW f \in 1..n-1  PROVE Over(t[f], t[f+1]) /\ (f > 1 => t[f].is = "run")
    <2>1. f + 1 \in 2..n /\ t[f+1] = stack[(f+1)+1] /\ (f+1)+1 = f + 2  BY <1>4, <1>5
    <2>2. CASE f = 1
      <3>1. Len(stack) > 2 /\ t[f] = G /\ t[f+1] = stack[3]  BY <2>1, <2>2, <1>4, <1>5
      <3> QED  BY <3>1, <2>2
    <2>3. CASE f # 1
      <3>1. f \in 2..n /\ f + 1 \in 1..Len(stack)-1 /\ f + 1 > 1  BY <2>3, <1>4
      <3>2. t[f] = stack[f + 1]  BY <3>1, <1>5
      <3>3. Over(stack[f + 1], stack[(f + 1) + 1]) /\ stack[f + 1].is = "run"  BY <3>1, <1>3
      <3> QED  BY <3>2, <3>3, <2>1
    <2> QED  BY <2>2, <2>3
  <1> QED  BY <1>5, <1>6, <1>7 DEF Frames, t

LEMMA Depths ==
  ASSUME Frames, stack # <<>>
  PROVE  /\ Len(stack) \in Nat /\ Len(stack) > 0
         /\ Len(stack) = 1 \/ Len(stack) > 1
         /\ Len(stack) = 1 => ~(Len(stack) > 1)
         /\ Len(stack) > 1 => Len(stack) = 2 \/ Len(stack) > 2
         /\ Len(stack) = 2 => ~(Len(stack) > 2) /\ Len(stack) > 1
         /\ Len(stack) > 2 => Len(stack) > 1
  <1>1. Len(stack) \in Nat /\ Len(stack) > 0  BY ListFacts DEF Frames
  <1> DEFINE n == Len(stack)
  <1>2. n \in Nat /\ n > 0  BY <1>1
  <1> HIDE DEF n
  <1>3. /\ n = 1 \/ n > 1
        /\ n = 1 => ~(n > 1)
        /\ n > 1 => n = 2 \/ n > 2
        /\ n = 2 => ~(n > 2) /\ n > 1
        /\ n > 2 => n > 1
    BY <1>2
  <1> QED  BY <1>2, <1>3 DEF n

LEMMA Tops ==
  ASSUME Frames, stack # <<>>
  PROVE  /\ Top = stack[1] /\ Len(stack) \in Nat /\ Len(stack) > 0 /\ Listed(stack)
         /\ Len(stack) = 1 => Root(stack[1])
         /\ Len(stack) > 1 => Over(stack[1], stack[2])
         /\ Len(stack) = 2 => Root(stack[2])
         /\ Len(stack) > 2 => Over(stack[2], stack[3]) /\ stack[2].is = "run" /\ Working(stack[2])
         /\ stack[1].is = "run" => Len(stack) > 1 /\ Working(stack[1])
         /\ stack[1].is # "run" /\ Len(stack) > 1 => Fetching(stack[1]) /\ Len(stack) > 2
         /\ stack[1].is = "all" => (stack[1].path = <<>> <=> Len(stack) = 1)
  <1>1. Listed(stack) /\ Root(stack[Len(stack)])
        /\ \A f \in 1..Len(stack)-1 : Over(stack[f], stack[f+1]) /\ (f > 1 => stack[f].is = "run")
    BY DEF Frames
  <1>2. Len(stack) \in Nat /\ Len(stack) > 0  BY <1>1, ListFacts
  <1>3. Top = stack[1]  BY <1>1, TailOf DEF Top
  <1>4. Len(stack) = 1 => Root(stack[1])  BY <1>1
  <1>5. Len(stack) = 2 => Root(stack[2])  BY <1>1
  <1>6. Len(stack) > 1 => Over(stack[1], stack[2])
    <2>1. Len(stack) > 1 => 1 \in 1..Len(stack)-1 /\ 1 + 1 = 2  BY <1>2
    <2> QED  BY <2>1, <1>1
  <1>7. Len(stack) > 2 => Over(stack[2], stack[3]) /\ stack[2].is = "run"
    <2>1. Len(stack) > 2 => 2 \in 1..Len(stack)-1 /\ 2 + 1 = 3 /\ 2 > 1  BY <1>2
    <2> QED  BY <2>1, <1>1
  <1>8. stack[1].is = "run" => Len(stack) > 1 /\ Working(stack[1])
    <2>1. Root(stack[1]) => stack[1].is = "all"  BY DEF Root
    <2>2. stack[1].is = "run" => Len(stack) > 1  BY <2>1, <1>4, <1>2
    <2> QED  BY <2>2, <1>6 DEF Over
  <1>9. stack[1].is # "run" /\ Len(stack) > 1 => Fetching(stack[1]) /\ Len(stack) > 2
    <2> SUFFICES ASSUME stack[1].is # "run", Len(stack) > 1
                 PROVE  Fetching(stack[1]) /\ Len(stack) > 2
      OBVIOUS
    <2>1. Fetching(stack[1]) /\ stack[2].is = "run"  BY <1>6 DEF Over
    <2>2. ~Root(stack[2])  BY <2>1 DEF Root
    <2>3. Len(stack) # 2  BY <2>2, <1>5
    <2> QED  BY <2>1, <2>3, <1>2
  <1>11. (Len(stack) = 1 \/ Len(stack) > 1) /\ ~(Len(stack) = 1 /\ Len(stack) > 1)  BY <1>2
  <1>10. stack[1].is = "all" => (stack[1].path = <<>> <=> Len(stack) = 1)
    <2> SUFFICES ASSUME stack[1].is = "all"  PROVE stack[1].path = <<>> <=> Len(stack) = 1
      OBVIOUS
    <2>1. Len(stack) = 1 => stack[1].path = <<>>  BY <1>4 DEF Root
    <2>2. Len(stack) > 1 => stack[1].path # <<>>  BY <1>9 DEF Fetching
    <2> QED  BY <2>1, <2>2, <1>11, Zenon
  <1> QED  BY <1>1, <1>2, <1>3, <1>4, <1>5, <1>6, <1>7, <1>8, <1>9, <1>10 DEF Over

\* The keys of a level's parents.
LEMMA DueFacts ==
  ASSUME NEW rows, Rows(rows), NEW column \in Columns
  PROVE  LET keys == ToSet(Keys(rows, column)) \ {Null}
         IN  keys \in SUBSET Id /\ keys \in SUBSET Nat /\ IsFiniteSet(keys) /\ Null \notin keys
  <1> DEFINE keys == ToSet(Keys(rows, column)) \ {Null}
  <1>1. DOMAIN Keys(rows, column) = DOMAIN rows
        /\ \A i \in DOMAIN rows : Keys(rows, column)[i] = rows[i][column]
    BY DEF Keys
  <1>2. \A i \in DOMAIN rows : rows[i][column] \in Id \union {Null}
    <2>1. TAKE i \in DOMAIN rows
    <2>2. Sound(rows[i])  BY DEF Rows, ToSet
    <2> QED  BY <2>2 DEF Sound, Columns
  <1>3. keys \in SUBSET Id  BY <1>1, <1>2 DEF ToSet
  <1>4. Null \notin keys  OBVIOUS
  <1> HIDE DEF keys
  <1>5. IsFiniteSet(keys)  BY <1>3, IdAssumption, FS_Subset
  <1>6. keys \in SUBSET Nat  BY <1>3, IdAssumption
  <1> QED  BY <1>3, <1>4, <1>5, <1>6 DEF keys

LEMMA SortedDue ==
  ASSUME NEW keys \in SUBSET Id, NEW n \in Nat \ {0}
  PROVE  LET all == Chunks(Sorted(keys), n)
         IN  /\ Listed(all) /\ Len(all) \in Nat
             /\ \A c \in 1..Len(all) :
                  Listed(all[c]) /\ Len(all[c]) \in 1..n /\ all[c] # <<>> /\ ToSet(all[c]) \subseteq keys
             /\ \A c, d \in 1..Len(all) :
                  c # d => all[c] # all[d] /\ ToSet(all[c]) \intersect ToSet(all[d]) = {}
             /\ UNION {ToSet(all[c]) : c \in 1..Len(all)} = keys
             /\ IsFiniteSet(keys) /\ Len(all) = (Cardinality(keys) + n - 1) \div n
             /\ \A batch \in ToSet(all) : Null \notin ToSet(batch)
  <1> DEFINE s == Sorted(keys)  all == Chunks(s, n)
  <1>1. keys \in SUBSET Nat /\ Null \notin keys  BY IdAssumption
  <1>2. IsFiniteSet(keys)  BY IdAssumption, FS_Subset
  <1>3. /\ Listed(s) /\ Len(s) = Cardinality(keys) /\ ToSet(s) = keys
        /\ \A i, j \in 1..Len(s) : s[i] = s[j] => i = j
    BY <1>1, <1>2, SortedNumbers
  <1> HIDE DEF s
  <1>5. /\ Listed(all) /\ Len(all) = (Len(s) + n - 1) \div n /\ Len(all) \in Nat
        /\ \A c \in 1..Len(all) : Listed(all[c]) /\ Len(all[c]) \in 1..n /\ all[c] # <<>>
    BY <1>3, ChunksPartition
  <1>6. /\ \A c, d \in 1..Len(all) : c # d => ToSet(all[c]) \intersect ToSet(all[d]) = {}
        /\ \A c, d \in 1..Len(all) : c # d => all[c] # all[d]
        /\ UNION {ToSet(all[c]) : c \in 1..Len(all)} = keys
    BY <1>3, ChunksPartition
  <1> HIDE DEF all
  <1>7. \A c \in 1..Len(all) : ToSet(all[c]) \subseteq keys  BY <1>6
  <1>8. \A batch \in ToSet(all) : Null \notin ToSet(batch)
    <2>1. DOMAIN all = 1..Len(all)  BY <1>5, ListFacts
    <2>2. \A c \in 1..Len(all) : Null \notin ToSet(all[c])  BY <1>7, <1>1
    <2> QED  BY <2>1, <2>2 DEF ToSet
  <1> QED  BY <1>2, <1>3, <1>5, <1>6, <1>7, <1>8 DEF all, s

\* A new level's frame.
Fresh(path, level, rows) ==
    Run(path, level, rows, Chunks(Distinct(Keys(rows, level.rel.parent)), level.batch))

LEMMA NewRun ==
  ASSUME NEW path \in Seq(Nat), path # <<>>, NEW level \in Levels, NEW rows, Rows(rows)
  PROVE  LET F == Fresh(path, level, rows)
         IN  Working(F) /\ F.rows = rows /\ F.path = path /\ F.level = level /\ F.done = 0 /\ F.is = "run"
  <1> DEFINE chunks == Chunks(Distinct(Keys(rows, level.rel.parent)), level.batch)
             keys == ToSet(Keys(rows, level.rel.parent)) \ {Null}
             F == Run(path, level, rows, chunks)
  <1>1. level.rel \in Relation /\ level.batch \in Nat \ {0} /\ level.then \in Seq(Levels)  BY LevelsAssumption
  <1>2. level.rel.parent \in Columns  BY <1>1 DEF Relation
  <1>3. keys \in SUBSET Id  BY <1>2, DueFacts
  <1>4. chunks = Chunks(Sorted(keys), level.batch)  BY DEF Distinct
  <1> HIDE DEF chunks, keys
  <1>5. Listed(chunks) /\ \A batch \in ToSet(chunks) : Null \notin ToSet(batch)  BY <1>1, <1>3, <1>4, SortedDue
  <1>6. /\ DOMAIN F = {"is", "at", "path", "level", "rows", "chunks", "children", "done"}
        /\ F.is = "run" /\ F.at = "chunks" /\ F.path = path /\ F.level = level /\ F.rows = rows
        /\ F.chunks = chunks /\ F.children = <<>> /\ F.done = 0
    BY DEF Run
  <1> HIDE DEF F
  <1>7. Listed(<<>>) /\ ToSet(<<>>) = {}
    <2>1. <<>> \in Seq({}) /\ DOMAIN <<>> = {}  OBVIOUS
    <2> QED  BY <2>1, ListOf DEF ToSet
  <1>8. Rows(<<>>) /\ Seen(<<>>, <<{}>>) /\ Keyed(<<>>, level.rel.child)  BY <1>7 DEF Rows, Seen, Keyed
  <1>9. 0 \in 0..Len(level.then)  BY <1>1
  <1>10. Working(F)  BY <1>5, <1>6, <1>8, <1>9 DEF Working
  <1> QED  BY <1>6, <1>10 DEF F, chunks, Fresh

LEMMA EnterFrames ==
  ASSUME Frames, stack # <<>>, NEW frame, NEW path \in Seq(Nat), path # <<>>, NEW level \in Levels, NEW rows, Rows(rows),
         Enter(frame, path, level, rows),
         frame.is = "all" => Seen(rows, <<>>),
         frame.is = "run" => Seen(rows, <<{}>>) /\ Keyed(rows, frame.level.rel.child),
         Len(stack) = 1 => Root(frame),
         Len(stack) > 1 => Over(frame, stack[2]) /\ frame.is = "run"
  PROVE  path = Append(frame.path, frame.done) => Frames'
  <1> DEFINE keys == Distinct(Keys(rows, level.rel.parent))
             F == Fresh(path, level, rows)
  <1>1. Working(F) /\ F.rows = rows /\ F.path = path /\ F.is = "run"
    BY NewRun
  <1>2. keys # <<>> => stack' = <<F, frame>> \o Tail(stack)  BY DEF Enter, Fresh
  <1>3. keys = <<>> => stack' = <<frame>> \o Tail(stack)  BY DEF Enter
  <1> HIDE DEF F, keys
  <1> SUFFICES ASSUME path = Append(frame.path, frame.done)  PROVE Frames'
    OBVIOUS
  <1>4. Over(F, frame)  BY <1>1 DEF Over
  <1>5. CASE keys # <<>>  BY <1>2, <1>4, <1>5, FramesPushed
  <1>6. CASE keys = <<>>  BY <1>3, <1>6, FramesReplaced
  <1> QED  BY <1>5, <1>6

-----------------------------------------------------------------------------
(* Each step keeps the frames.                                              *)

LEMMA Untouched ==
  ASSUME IInv, UNCHANGED <<query, writes, table>>, UNCHANGED ended, Frames'
  PROVE  IInv'
  BY DEF IInv, Shape, Returns, ended

LEMMA RunHooksKeeps ==
  ASSUME IInv, RunHooks
  PROVE  IInv'
  <1>1. Frames /\ stack # <<>> /\ Top.is = "all"  BY DEF IInv, RunHooks, In
  <1> DEFINE F == [Top EXCEPT !.at = "statement"]
  <1>2. stack' = <<F>> \o Tail(stack)  BY DEF RunHooks, Replace
  <1>3. Top = stack[1]  BY <1>1, Tops
  <1>4. ASSUME Root(Top)  PROVE Root(F)
    <2>1. DOMAIN Top = {"is", "at", "path", "from", "rows", "loaders", "done"}  BY <1>4 DEF Root
    <2>2. DOMAIN F = DOMAIN Top /\ F.is = Top.is /\ F.path = Top.path /\ F.from = Top.from /\ F.rows = Top.rows
          /\ F.loaders = Top.loaders /\ F.done = Top.done
      BY <2>1
    <2> HIDE DEF F
    <2> QED  BY <1>4, <2>1, <2>2 DEF Root
  <1>5. ASSUME NEW G, Over(Top, G)  PROVE Over(F, G)
    <2>1. Fetching(Top) /\ G.is = "run" /\ Top.path = G.path /\ Top.from.column = G.level.rel.child
      BY <1>1, <1>5 DEF Over
    <2>2. DOMAIN Top = {"is", "at", "path", "from", "rows", "loaders", "done"}  BY <2>1 DEF Fetching
    <2>3. DOMAIN F = DOMAIN Top /\ F.is = Top.is /\ F.path = Top.path /\ F.from = Top.from /\ F.rows = Top.rows
          /\ F.loaders = Top.loaders /\ F.done = Top.done /\ F.at = "statement"
      BY <2>2
    <2> HIDE DEF F
    <2>4. Fetching(F)  BY <2>1, <2>2, <2>3 DEF Fetching
    <2> QED  BY <1>1, <2>1, <2>3, <2>4 DEF Over
  <1> HIDE DEF F
  <1>6. Len(stack) = 1 => Root(F)  BY <1>1, <1>3, <1>4, Tops
  <1>7. Len(stack) > 1 => Over(F, stack[2])  BY <1>1, <1>3, <1>5, Tops
  <1>8. Frames'  BY <1>1, <1>2, <1>6, <1>7, FramesReplaced
  <1> QED  BY <1>8, Untouched DEF RunHooks

LEMMA SelectKeeps ==
  ASSUME IInv, Select
  PROVE  IInv'
  <1>1. Frames /\ Shape /\ stack # <<>> /\ Top.is = "all" /\ Top.path = <<>>  BY DEF IInv, Select, In
  <1>2. Top = stack[1]  BY <1>1, Tops
  <1>3. Len(stack) = 1 /\ Root(Top)  BY <1>1, <1>2, Tops
  <1> DEFINE S == {k \in DOMAIN Top.from : Top.from[k] \in DOMAIN table}
             found == Sorted(S)
             ids == [n \in DOMAIN found |-> Top.from[found[n]]]
             rows == [n \in DOMAIN found |-> Model(Top.from[found[n]])]
             F == [Top EXCEPT !.at = "load", !.rows = rows]
  <1>4. stack' = <<F>> \o Tail(stack)  BY DEF Select, Replace
  <1>5. S \in SUBSET Nat /\ IsFiniteSet(S)
    <2>1. Top.from \in Seq(Id)  BY <1>3 DEF Root
    <2>2. Len(Top.from) \in Nat /\ DOMAIN Top.from = 1..Len(Top.from)  BY <2>1
    <2>3. S \in SUBSET (1..Len(Top.from))  BY <2>2
    <2>4. IsFiniteSet(1..Len(Top.from))  BY <2>2, FS_Interval
    <2> HIDE DEF S
    <2>5. IsFiniteSet(S)  BY <2>3, <2>4, FS_Subset
    <2>6. \A i \in 1..Len(Top.from) : i \in Nat  BY <2>2
    <2> QED  BY <2>3, <2>5, <2>6
  <1>6. Listed(found) /\ ToSet(found) = S  BY <1>5, SortedNumbers
  <1>7. \A k \in S : Top.from[k] \in DOMAIN table  OBVIOUS
  <1> HIDE DEF S, found
  <1>8. Len(found) \in Nat /\ DOMAIN found = 1..Len(found) /\ \A n \in 1..Len(found) : found[n] \in S
    BY <1>6, ListFacts
  <1>9. Rows(rows) /\ Seen(rows, <<>>)
    <2>1. \A n \in 1..Len(found) : ids[n] \in DOMAIN table  BY <1>7, <1>8
    <2>2. rows = [n \in 1..Len(found) |-> Model(ids[n])]  BY <1>8
    <2> HIDE DEF rows, ids
    <2> QED  BY <1>1, <1>8, <2>1, <2>2, Decoded
  <1> HIDE DEF rows
  <1>10. Root(F)
    <2>1. DOMAIN Top = {"is", "at", "path", "from", "rows", "loaders", "done"}  BY <1>3 DEF Root
    <2>2. DOMAIN F = DOMAIN Top /\ F.is = Top.is /\ F.path = Top.path /\ F.from = Top.from /\ F.rows = rows
          /\ F.loaders = Top.loaders /\ F.done = Top.done
      BY <2>1
    <2> HIDE DEF F
    <2> QED  BY <1>3, <1>9, <2>1, <2>2 DEF Root
  <1> HIDE DEF F
  <1>11. Frames'  BY <1>1, <1>3, <1>4, <1>10, FramesReplaced
  <1> QED  BY <1>11, Untouched DEF Select

LEMMA SelectKeyedKeeps ==
  ASSUME IInv, SelectKeyed
  PROVE  IInv'
  <1>1. Frames /\ Shape /\ stack # <<>> /\ Top.is = "all" /\ Top.path # <<>>  BY DEF IInv, SelectKeyed, In
  <1>2. Top = stack[1]  BY <1>1, Tops
  <1>3. Len(stack) > 1 /\ Len(stack) # 1 /\ Over(Top, stack[2])
    <2>1. Len(stack) # 1  BY <1>1, <1>2, Tops
    <2>2. Len(stack) = 1 \/ Len(stack) > 1  BY <1>1, Depths, Zenon
    <2>3. Len(stack) > 1  BY <2>1, <2>2, Zenon
    <2> QED  BY <1>1, <1>2, <2>1, <2>3, Tops
  <1>4. Fetching(Top) /\ stack[2].is = "run" /\ Top.path = stack[2].path /\ Top.from.column = stack[2].level.rel.child
    BY <1>1, <1>3 DEF Over
  <1>5. PICK ids \in SetToSeqs(Matching(Top.from)) :
          Replace([Top EXCEPT !.at = "load", !.rows = [k \in DOMAIN ids |-> Model(ids[k])]])
    BY DEF SelectKeyed
  <1> DEFINE n == Cardinality(Matching(Top.from))
             rows == [k \in DOMAIN ids |-> Model(ids[k])]
             F == [Top EXCEPT !.at = "load", !.rows = rows]
  <1>6. stack' = <<F>> \o Tail(stack)  BY <1>5 DEF Replace
  <1>7. n \in Nat
    <2>1. Matching(Top.from) \in SUBSET Id  BY <1>1 DEF Matching, Shape
    <2>2. IsFiniteSet(Matching(Top.from))  BY <2>1, IdAssumption, FS_Subset
    <2> QED  BY <2>2, FS_CardinalityType
  <1>8. DOMAIN ids = 1..n /\ \A k \in 1..n : ids[k] \in Matching(Top.from)  BY DEF SetToSeqs
  <1> HIDE DEF n
  <1>9. \A k \in 1..n : ids[k] \in DOMAIN table /\ Model(ids[k])[Top.from.column] # Null
    <2>1. TAKE k \in 1..n
    <2>2. ids[k] \in DOMAIN table /\ Model(ids[k])[Top.from.column] \in ToSet(Top.from.keys)  BY <1>8 DEF Matching
    <2>3. Null \notin ToSet(Top.from.keys)  BY <1>4 DEF Fetching
    <2> QED  BY <2>2, <2>3
  <1>10. Rows(rows) /\ Bare(rows) /\ \A m \in ToSet(rows) : \E k \in 1..n : m = Model(ids[k])
    <2>1. rows = [k \in 1..n |-> Model(ids[k])]  BY <1>8
    <2> HIDE DEF rows
    <2> QED  BY <1>1, <1>7, <1>9, <2>1, Decoded
  <1> HIDE DEF rows
  <1>11. Keyed(rows, Top.from.column)  BY <1>9, <1>10 DEF Keyed
  <1>12. Over(F, stack[2])
    <2>1. DOMAIN Top = {"is", "at", "path", "from", "rows", "loaders", "done"}  BY <1>4 DEF Fetching
    <2>2. DOMAIN F = DOMAIN Top /\ F.is = Top.is /\ F.path = Top.path /\ F.from = Top.from /\ F.rows = rows
          /\ F.loaders = Top.loaders /\ F.done = Top.done /\ F.at = "load"
      BY <2>1
    <2> HIDE DEF F
    <2>3. Fetching(F)  BY <1>4, <1>10, <1>11, <2>1, <2>2 DEF Fetching
    <2> QED  BY <1>1, <1>4, <2>2, <2>3 DEF Over
  <1> HIDE DEF F
  <1>13. Frames'  BY <1>1, <1>3, <1>6, <1>12, FramesReplaced
  <1> QED  BY <1>13, Untouched DEF SelectKeyed

LEMMA RunLoaderKeeps ==
  ASSUME IInv, RunLoader
  PROVE  IInv'
  <1>1. Frames /\ stack # <<>> /\ Top.is = "all" /\ Top.done < Len(Top.loaders)  BY DEF IInv, RunLoader, In
  <1>2. Top = stack[1] /\ Len(stack) \in Nat /\ Len(stack) > 0  BY <1>1, Tops
  <1>3. Len(stack) = 1 /\ Root(Top)
    <2>1. Len(<<>>) = 0  OBVIOUS
    <2>2. ~Fetching(Top)  BY <1>1, <2>1 DEF Fetching
    <2>3. ~(Len(stack) > 1)  BY <1>1, <1>2, <2>2, Tops
    <2>4. Len(stack) = 1  BY <1>1, <2>3, Depths, Zenon
    <2> QED  BY <1>1, <1>2, <2>4, Tops
  <1> DEFINE n == Top.done + 1
             F == [Top EXCEPT !.done = n]
  <1>4. Enter(F, Append(Top.path, n), Top.loaders[n], Top.rows)  BY DEF RunLoader
  <1>5. Top.loaders \in Seq(Levels) /\ Top.done \in 0..Len(Top.loaders) /\ Top.path = <<>>  BY <1>3 DEF Root
  <1>6. n \in 1..Len(Top.loaders) /\ n \in Nat /\ n \in 0..Len(Top.loaders)  BY <1>1, <1>5
  <1>7. Top.loaders[n] \in Levels  BY <1>5, <1>6
  <1>8. /\ DOMAIN F = {"is", "at", "path", "from", "rows", "loaders", "done"}
        /\ F.is = Top.is /\ F.path = Top.path /\ F.from = Top.from /\ F.rows = Top.rows
        /\ F.loaders = Top.loaders /\ F.done = n
    <2>1. DOMAIN Top = {"is", "at", "path", "from", "rows", "loaders", "done"}  BY <1>3 DEF Root
    <2> HIDE DEF n
    <2> QED  BY <2>1
  <1> HIDE DEF n, F
  <1>9. Root(F)  BY <1>3, <1>6, <1>8 DEF Root
  <1>10. Append(Top.path, n) \in Seq(Nat) /\ Append(Top.path, n) # <<>>  BY <1>5, <1>6
  <1>11. Append(Top.path, n) = Append(F.path, F.done)  BY <1>8
  <1>12. Rows(Top.rows) /\ Seen(Top.rows, <<>>) /\ F.is = "all"  BY <1>3, <1>8 DEF Root
  <1>13. F.is # "run" /\ ~(Len(stack) > 1)  BY <1>3, <1>12
  <1>14. Frames'
    <2> DEFINE path == Append(Top.path, n)  level == Top.loaders[n]  rows == Top.rows
    <2>1. Enter(F, path, level, rows) /\ path \in Seq(Nat) /\ path # <<>> /\ path = Append(F.path, F.done)
          /\ level \in Levels /\ Rows(rows) /\ Seen(rows, <<>>)
      BY <1>4, <1>7, <1>10, <1>11, <1>12
    <2> HIDE DEF path, level, rows
    <2> QED  BY <1>1, <1>9, <1>13, <2>1, EnterFrames
  <1> QED  BY <1>14, Untouched DEF RunLoader, history

LEMMA LoadDeeperKeeps ==
  ASSUME IInv, LoadDeeper
  PROVE  IInv'
  <1>1. Frames /\ stack # <<>> /\ Top.is = "run" /\ Top.done < Len(Top.level.then)  BY DEF IInv, LoadDeeper, In
  <1>2. Top = stack[1] /\ Working(Top) /\ Len(stack) > 1 /\ Len(stack) # 1 /\ Over(Top, stack[2])
    <2>1. Top = stack[1] /\ Len(stack) \in Nat  BY <1>1, Tops
    <2>2. Len(stack) > 1 /\ Working(Top)  BY <1>1, <2>1, Tops
    <2>3. Len(stack) # 1  BY <1>1, <2>2, Depths, Zenon
    <2> QED  BY <1>1, <2>1, <2>2, <2>3, Tops
  <1> DEFINE n == Top.done + 1
             F == [Top EXCEPT !.done = n]
  <1>3. Enter(F, Append(Top.path, n), Top.level.then[n], Top.children)
    <2>1. Enter([Top EXCEPT !.done = Advance(@)], Append(Top.path, n), Top.level.then[n], Top.children)
      BY DEF LoadDeeper
    <2> QED  BY <2>1 DEF Advance
  <1>4. Top.level \in Levels /\ Top.level.then \in Seq(Levels) /\ Top.done \in 0..Len(Top.level.then) /\ Top.path \in Seq(Nat)
    BY <1>2, LevelsAssumption DEF Working
  <1>5. n \in 1..Len(Top.level.then) /\ n \in Nat /\ n \in 0..Len(Top.level.then)  BY <1>1, <1>4
  <1>6. Top.level.then[n] \in Levels  BY <1>4, <1>5
  <1>7. /\ DOMAIN F = {"is", "at", "path", "level", "rows", "chunks", "children", "done"}
        /\ F.is = Top.is /\ F.at = Top.at /\ F.path = Top.path /\ F.level = Top.level /\ F.rows = Top.rows
        /\ F.chunks = Top.chunks /\ F.children = Top.children /\ F.done = n
    <2>1. DOMAIN Top = {"is", "at", "path", "level", "rows", "chunks", "children", "done"}  BY <1>2 DEF Working
    <2> HIDE DEF n
    <2> QED  BY <2>1
  <1> HIDE DEF n, F
  <1>8. Working(F)  BY <1>2, <1>5, <1>7 DEF Working
  <1>9. Over(F, stack[2]) /\ F.is = "run" /\ F.is # "all"  BY <1>1, <1>2, <1>7, <1>8 DEF Over
  <1>10. Append(Top.path, n) \in Seq(Nat) /\ Append(Top.path, n) # <<>>
    <2>1. \A p \in Seq(Nat), k \in Nat : Append(p, k) \in Seq(Nat) /\ Append(p, k) # <<>>
      BY AppendProperties
    <2> QED  BY <1>4, <1>5, <2>1, Zenon
  <1>11. Append(Top.path, n) = Append(F.path, F.done)  BY <1>7
  <1>12. Rows(Top.children) /\ Seen(Top.children, <<{}>>) /\ Keyed(Top.children, F.level.rel.child)
    BY <1>2, <1>7 DEF Working
  <1>13. Frames'
    <2> DEFINE path == Append(Top.path, n)  level == Top.level.then[n]  rows == Top.children
    <2>1. Enter(F, path, level, rows) /\ path \in Seq(Nat) /\ path # <<>> /\ path = Append(F.path, F.done)
          /\ level \in Levels /\ Rows(rows) /\ Seen(rows, <<{}>>) /\ Keyed(rows, F.level.rel.child)
      BY <1>3, <1>6, <1>10, <1>11, <1>12
    <2> HIDE DEF path, level, rows
    <2> QED  BY <1>1, <1>2, <1>9, <2>1, EnterFrames
  <1> QED  BY <1>13, Untouched DEF LoadDeeper, history

LEMMA RunBatchKeeps ==
  ASSUME IInv, RunBatch
  PROVE  IInv'
  <1>1. Frames /\ stack # <<>> /\ Top.is = "run" /\ Top.chunks # <<>>  BY DEF IInv, RunBatch, In
  <1>2. Top = stack[1] /\ Working(Top) /\ Len(stack) > 1 /\ Len(stack) # 1 /\ Over(Top, stack[2])
    <2>1. Top = stack[1] /\ Len(stack) \in Nat  BY <1>1, Tops
    <2>2. Len(stack) > 1 /\ Working(Top)  BY <1>1, <2>1, Tops
    <2>3. Len(stack) # 1  BY <1>1, <2>2, Depths, Zenon
    <2> QED  BY <1>1, <2>1, <2>2, <2>3, Tops
  <1> DEFINE from == [keys |-> Head(Top.chunks), column |-> Top.level.rel.child, keep |-> Top.level.keep]
             F == All(Top.path, from, <<>>)
             G == [Top EXCEPT !.chunks = Tail(@)]
  <1>3. stack' = <<F, G>> \o Tail(stack)  BY DEF RunBatch
  <1>4. /\ DOMAIN G = {"is", "at", "path", "level", "rows", "chunks", "children", "done"}
        /\ G.is = Top.is /\ G.at = Top.at /\ G.path = Top.path /\ G.level = Top.level /\ G.rows = Top.rows
        /\ G.chunks = Tail(Top.chunks) /\ G.children = Top.children /\ G.done = Top.done
    <2>1. DOMAIN Top = {"is", "at", "path", "level", "rows", "chunks", "children", "done"}  BY <1>2 DEF Working
    <2> QED  BY <2>1
  <1>5. /\ DOMAIN F = {"is", "at", "path", "from", "rows", "loaders", "done"}
        /\ F.is = "all" /\ F.at = "hooks" /\ F.path = Top.path /\ F.from = from /\ F.rows = <<>>
        /\ F.loaders = <<>> /\ F.done = 0
    BY DEF All
  <1>6. DOMAIN from = {"keys", "column", "keep"} /\ from.keys = Head(Top.chunks) /\ from.column = Top.level.rel.child
    OBVIOUS
  <1> HIDE DEF F, G, from
  <1>7. Listed(Top.chunks) /\ \A keys \in ToSet(Top.chunks) : Null \notin ToSet(keys)  BY <1>2 DEF Working
  <1>8. Listed(Tail(Top.chunks)) /\ ToSet(Tail(Top.chunks)) \subseteq ToSet(Top.chunks)
        /\ Head(Top.chunks) \in ToSet(Top.chunks)
    <2>1. Head(Top.chunks) = Top.chunks[1] /\ 1 \in 1..Len(Top.chunks)  BY <1>1, <1>7, TailOf, ListFacts
    <2>2. Head(Top.chunks) \in ToSet(Top.chunks)  BY <1>7, <2>1, ListFacts
    <2> QED  BY <1>1, <1>7, <2>2, TailOf
  <1>9. Working(G)  BY <1>2, <1>4, <1>7, <1>8 DEF Working
  <1>10. Over(G, stack[2]) /\ G.is = "run"  BY <1>1, <1>2, <1>4, <1>9 DEF Over
  <1>11. Rows(<<>>) /\ Bare(<<>>)
    <2>1. <<>> \in Seq({}) /\ DOMAIN <<>> = {}  OBVIOUS
    <2>2. Listed(<<>>) /\ ToSet(<<>>) = {}  BY <2>1, ListOf DEF ToSet
    <2> QED  BY <2>2 DEF Rows, Bare
  <1>12. Fetching(F)
    <2>1. Top.path # <<>>  BY <1>2 DEF Working
    <2>2. Null \notin ToSet(from.keys)  BY <1>6, <1>7, <1>8
    <2> QED  BY <1>5, <1>6, <1>11, <2>1, <2>2 DEF Fetching
  <1>13. Over(F, G)  BY <1>1, <1>4, <1>5, <1>6, <1>12 DEF Over
  <1>14. Frames'  BY <1>1, <1>2, <1>3, <1>10, <1>13, FramesPushed
  <1> QED  BY <1>14, Untouched DEF RunBatch, history

LEMMA AttachChildrenKeeps ==
  ASSUME IInv, AttachChildren
  PROVE  IInv'
  <1>1. Frames /\ stack # <<>> /\ Top.is = "run"  BY DEF IInv, AttachChildren, In
  <1>2. Top = stack[1] /\ Working(Top) /\ Len(stack) > 1 /\ Len(stack) \in Nat /\ Over(Top, stack[2])
    <2>1. Top = stack[1] /\ Len(stack) \in Nat  BY <1>1, Tops
    <2>2. Len(stack) > 1 /\ Working(Top)  BY <1>1, <2>1, Tops
    <2> QED  BY <1>1, <2>1, <2>2, Tops
  <1> DEFINE parents == Attached(Top.rows, Top.children, Top.level.rel)
             B == stack[2]
             G == IF B.is = "all" THEN [B EXCEPT !.rows = parents] ELSE [B EXCEPT !.children = parents]
  <1>3. stack' = <<G>> \o SubSeq(stack, 3, Len(stack))  BY DEF AttachChildren
  <1>4. /\ Rows(Top.rows) /\ Rows(Top.children) /\ Seen(Top.children, <<{}>>)
        /\ Keyed(Top.children, Top.level.rel.child) /\ Top.level.rel \in Relation
    BY <1>2, LevelsAssumption DEF Working
  <1>5. /\ Rows(parents) /\ \A s : Seen(Top.rows, s) => Seen(parents, s)
        /\ \A column \in Columns : Keyed(Top.rows, column) => Keyed(parents, column)
    BY <1>4, AttachedRows
  <1> HIDE DEF parents
  <1>6. Len(stack) = 2 => Root(G)
    <2> SUFFICES ASSUME Len(stack) = 2  PROVE Root(G)
      OBVIOUS
    <2>1. Root(B)  BY <1>1, Tops
    <2>2. DOMAIN B = {"is", "at", "path", "from", "rows", "loaders", "done"} /\ B.is = "all"  BY <2>1 DEF Root
    <2>3. Seen(parents, <<>>)  BY <1>1, <1>2, <1>5, <2>2 DEF Over
    <2>4. G = [B EXCEPT !.rows = parents]  BY <2>2
    <2>5. DOMAIN G = DOMAIN B /\ G.is = B.is /\ G.path = B.path /\ G.from = B.from /\ G.rows = parents
          /\ G.loaders = B.loaders /\ G.done = B.done
      BY <2>2, <2>4
    <2> HIDE DEF G, B
    <2> QED  BY <1>5, <2>1, <2>2, <2>3, <2>5 DEF Root
  <1>7. Len(stack) > 2 => Over(G, stack[3])
    <2> SUFFICES ASSUME Len(stack) > 2  PROVE Over(G, stack[3])
      OBVIOUS
    <2>1. Over(B, stack[3]) /\ B.is = "run" /\ Working(B)  BY <1>1, Tops
    <2>2. DOMAIN B = {"is", "at", "path", "level", "rows", "chunks", "children", "done"}  BY <2>1 DEF Working
    <2>3. Seen(Top.rows, <<{}>>) /\ Keyed(Top.rows, B.level.rel.child)  BY <1>1, <1>2, <2>1 DEF Over
    <2>4. B.level.rel.child \in Columns  BY <2>1, LevelsAssumption DEF Working, Relation
    <2>5. Seen(parents, <<{}>>) /\ Keyed(parents, B.level.rel.child)  BY <1>5, <2>3, <2>4
    <2>6. G = [B EXCEPT !.children = parents]  BY <2>1
    <2>7. DOMAIN G = DOMAIN B /\ G.is = B.is /\ G.at = B.at /\ G.path = B.path /\ G.level = B.level /\ G.rows = B.rows
          /\ G.chunks = B.chunks /\ G.children = parents /\ G.done = B.done
      BY <2>2, <2>6
    <2> HIDE DEF G, B
    <2>8. Working(G)  BY <1>5, <2>1, <2>2, <2>5, <2>7 DEF Working
    <2> QED  BY <2>1, <2>7, <2>8 DEF Over
  <1> HIDE DEF G
  <1>8. Frames'  BY <1>1, <1>2, <1>3, <1>6, <1>7, FramesPopped
  <1> QED  BY <1>8, Untouched DEF AttachChildren, history

LEMMA NoFrames ==
  ASSUME stack' = <<>>
  PROVE  Frames'
  <1>1. <<>> \in Seq({})  OBVIOUS
  <1>2. Listed(<<>>)  BY <1>1, ListOf
  <1> QED  BY <1>2 DEF Frames

LEMMA AfterSelectKeeps ==
  ASSUME IInv, AfterSelect
  PROVE  IInv'
  <1>1. Frames /\ stack # <<>> /\ Top.is = "all" /\ Top.at = "load"  BY DEF IInv, AfterSelect, In
  <1>2. Top = stack[1] /\ Listed(stack)  BY <1>1, Tops
  <1> DEFINE rows == Hooked(Top.rows)
             G == [stack[2] EXCEPT !.children = Extend(@, rows)]
  <1>3. CASE Len(stack) = 1
    <2>1. Root(Top)  BY <1>1, <1>2, <1>3, Tops
    <2>2. stack' = <<>> /\ outcome' = Verdict(rows) /\ result' = IF Verdict(rows) = "ok" THEN rows ELSE <<>>
      BY <1>3 DEF AfterSelect
    <2>3. UNCHANGED <<table, query, writes>>  BY DEF AfterSelect
    <2>4. Rows(Top.rows) /\ Seen(Top.rows, <<>>)  BY <2>1 DEF Root
    <2>5. Rows(rows) /\ \A m \in ToSet(rows) : m.seen = <<DOMAIN m.rel>>  BY <2>4, HookedRows
    <2>6. Rows(<<>>) /\ \A m \in ToSet(<<>>) : m.seen = <<DOMAIN m.rel>>
      <3>1. <<>> \in Seq({}) /\ DOMAIN <<>> = {}  OBVIOUS
      <3>2. Listed(<<>>) /\ ToSet(<<>>) = {}  BY <3>1, ListOf DEF ToSet
      <3> QED  BY <3>2 DEF Rows
    <2>7. Verdict(rows) \in Outcomes
      <3> DEFINE a == query.verb = "all"
                 b == Len(rows) > 1
                 c == query.verb = "one" /\ rows = <<>>
      <3>1. Verdict(rows) = CASE a -> "ok" [] b -> "too_many_rows" [] c -> "row_not_found" [] OTHER -> "ok"
        BY DEF Verdict
      <3> HIDE DEF a, b, c
      <3> QED  BY <3>1 DEF Outcomes
    <2> HIDE DEF rows
    <2>8. Returns'  BY <2>2, <2>5, <2>6, <2>7 DEF Returns, Outcomes
    <2>9. Shape'  BY <2>3 DEF IInv, Shape
    <2>10. Frames'  BY <2>2, NoFrames
    <2> QED  BY <2>8, <2>9, <2>10 DEF IInv
  <1>4. CASE Len(stack) > 1
    <2>1. Len(stack) # 1 /\ Len(stack) > 2 /\ ~(Len(stack) = 2)
      <3>1. Len(stack) > 2  BY <1>1, <1>2, <1>4, Tops
      <3> QED  BY <3>1, <1>1, <1>4, Depths, Zenon
    <2>2. Fetching(Top) /\ Over(Top, stack[2]) /\ Over(stack[2], stack[3]) /\ stack[2].is = "run" /\ Working(stack[2])
      BY <1>1, <1>2, <1>4, <2>1, Tops
    <2>3. stack' = <<G>> \o SubSeq(stack, 3, Len(stack)) /\ UNCHANGED ended  BY <2>1 DEF AfterSelect
    <2> DEFINE B == stack[2]
    <2>4. Rows(Top.rows) /\ Bare(Top.rows) /\ Keyed(Top.rows, B.level.rel.child)
      BY <1>1, <2>2 DEF Fetching, Over
    <2>5. B.level.rel.child \in Columns  BY <2>2, LevelsAssumption DEF Working, Relation
    <2> HIDE DEF B
    <2>6. Rows(rows) /\ Seen(rows, <<{}>>) /\ Keyed(rows, B.level.rel.child)  BY <2>4, <2>5, HookedRows
    <2> HIDE DEF rows
    <2>7. Rows(B.children) /\ Seen(B.children, <<{}>>) /\ Keyed(B.children, B.level.rel.child)
      BY <2>2 DEF Working, B
    <2> DEFINE all == B.children \o rows
    <2>8. Listed(all) /\ ToSet(all) = ToSet(B.children) \union ToSet(rows)  BY <2>6, <2>7, Joined DEF Rows
    <2> HIDE DEF all
    <2>9. Rows(all) /\ Seen(all, <<{}>>) /\ Keyed(all, B.level.rel.child)
      BY <2>6, <2>7, <2>8 DEF Rows, Seen, Keyed
    <2>10. DOMAIN B = {"is", "at", "path", "level", "rows", "chunks", "children", "done"}  BY <2>2 DEF Working, B
    <2>11. G = [B EXCEPT !.children = all]  BY DEF Extend, B, all
    <2>12. DOMAIN G = DOMAIN B /\ G.is = B.is /\ G.at = B.at /\ G.path = B.path /\ G.level = B.level /\ G.rows = B.rows
           /\ G.chunks = B.chunks /\ G.children = all /\ G.done = B.done
      BY <2>10, <2>11
    <2> HIDE DEF G
    <2>13. Working(B) /\ B.is = "run" /\ Over(B, stack[3])  BY <2>2 DEF B
    <2>14. Working(G)  BY <2>9, <2>10, <2>12, <2>13 DEF Working
    <2>15. Over(G, stack[3])  BY <2>12, <2>13, <2>14 DEF Over
    <2>16. Frames'  BY <1>1, <1>4, <2>1, <2>3, <2>15, FramesPopped
    <2> QED  BY <2>3, <2>16, Untouched DEF AfterSelect
  <1> QED  BY <1>1, <1>3, <1>4, Depths

LEMMA OthersKeep ==
  ASSUME IInv, Fail \/ WriteElsewhere \/ Returned \/ UNCHANGED vars
  PROVE  IInv'
  <1>1. CASE Fail
    <2>1. stack' = <<>> /\ outcome' = "error" /\ UNCHANGED <<table, query, result, writes>>  BY <1>1 DEF Fail
    <2>2. Frames'  BY <2>1, NoFrames
    <2>3. Shape'  BY <2>1 DEF IInv, Shape
    <2>4. Returns'  BY <2>1 DEF IInv, Returns, Outcomes
    <2> QED  BY <2>2, <2>3, <2>4 DEF IInv
  <1>2. CASE WriteElsewhere
    <2>1. UNCHANGED <<query, stack, result, outcome>> /\ writes < MaxWrites /\ writes' = writes + 1
      BY <1>2 DEF WriteElsewhere, ended
    <2>2. writes' \in 0..MaxWrites  BY <2>1, WriteAssumption DEF IInv, Shape
    <2>3. DOMAIN table' \subseteq Id /\ \A i \in DOMAIN table' : table'[i] \in Id \union {Null}
      <3>1. PICK i \in Id :
              \/ \E ref \in Id \union {Null} :
                   table' = [k \in DOMAIN table \union {i} |-> IF k = i THEN ref ELSE table[k]]
              \/ table' = [k \in DOMAIN table \ {i} |-> table[k]]
        BY <1>2 DEF WriteElsewhere
      <3>2. DOMAIN table \subseteq Id /\ \A k \in DOMAIN table : table[k] \in Id \union {Null}  BY DEF IInv, Shape
      <3>3. CASE \E ref \in Id \union {Null} :
                   table' = [k \in DOMAIN table \union {i} |-> IF k = i THEN ref ELSE table[k]]
        BY <3>2, <3>3
      <3>4. CASE table' = [k \in DOMAIN table \ {i} |-> table[k]]  BY <3>2, <3>4
      <3> QED  BY <3>1, <3>3, <3>4
    <2>4. Shape'  BY <2>1, <2>2, <2>3 DEF IInv, Shape
    <2>5. Frames' /\ Returns'  BY <2>1 DEF IInv, Frames, Returns
    <2> QED  BY <2>4, <2>5 DEF IInv
  <1>3. CASE Returned \/ UNCHANGED vars
    <2>1. UNCHANGED vars  BY <1>3 DEF Returned
    <2> QED  BY <2>1 DEF vars, IInv, Shape, Frames, Returns
  <1> QED  BY <1>1, <1>2, <1>3

LEMMA StartsRight ==
  ASSUME Init
  PROVE  IInv
  <1> DEFINE F == All(<<>>, query.rows, query.loaders)
  <1>1. stack = <<F>> /\ query \in Queries /\ table \in Tables /\ result = <<>> /\ outcome = "running" /\ writes = 0
    BY DEF Init
  <1>2. Rows(<<>>) /\ Seen(<<>>, <<>>) /\ ToSet(<<>>) = {}
    <2>1. <<>> \in Seq({}) /\ DOMAIN <<>> = {}  OBVIOUS
    <2>2. Listed(<<>>) /\ ToSet(<<>>) = {}  BY <2>1, ListOf DEF ToSet
    <2> QED  BY <2>2 DEF Rows, Seen
  <1>3. query.rows \in Seq(Id) /\ query.loaders \in Seq(Levels)  BY <1>1, QueriesAssumption
  <1>4. Root(F)
    <2>1. /\ DOMAIN F = {"is", "at", "path", "from", "rows", "loaders", "done"}
          /\ F.is = "all" /\ F.path = <<>> /\ F.from = query.rows /\ F.rows = <<>>
          /\ F.loaders = query.loaders /\ F.done = 0
      BY DEF All
    <2>2. 0 \in 0..Len(query.loaders)  BY <1>3
    <2> HIDE DEF F
    <2> QED  BY <1>2, <1>3, <2>1, <2>2 DEF Root
  <1> HIDE DEF F
  <1>5. Listed(stack) /\ Len(stack) = 1 /\ stack[1] = F  BY <1>1, One
  <1>6. Frames
    <2>1. Root(stack[Len(stack)])  BY <1>4, <1>5
    <2>2. 1..Len(stack)-1 = {}  BY <1>5
    <2> QED  BY <1>5, <2>1, <2>2 DEF Frames
  <1>7. Shape  BY <1>1, TablesAssumption, WriteAssumption DEF Shape
  <1>8. Returns  BY <1>1, <1>2 DEF Returns, Outcomes
  <1> QED  BY <1>6, <1>7, <1>8 DEF IInv

LEMMA Invariance ==
  ASSUME IInv, [Next]_vars
  PROVE  IInv'
  <1>1. CASE RunHooks  BY <1>1, RunHooksKeeps
  <1>2. CASE Select  BY <1>2, SelectKeeps
  <1>3. CASE SelectKeyed  BY <1>3, SelectKeyedKeeps
  <1>4. CASE RunLoader  BY <1>4, RunLoaderKeeps
  <1>5. CASE AfterSelect  BY <1>5, AfterSelectKeeps
  <1>6. CASE RunBatch  BY <1>6, RunBatchKeeps
  <1>7. CASE LoadDeeper  BY <1>7, LoadDeeperKeeps
  <1>8. CASE AttachChildren  BY <1>8, AttachChildrenKeeps
  <1>9. CASE Fail \/ WriteElsewhere \/ Returned \/ UNCHANGED vars  BY <1>9, OthersKeep
  <1> QED  BY <1>1, <1>2, <1>3, <1>4, <1>5, <1>6, <1>7, <1>8, <1>9 DEF Next, Step

\* What a frame holds are models, each with children that are its own.
LEMMA HoldingsSound ==
  ASSUME IInv, NEW rows \in Holdings
  PROVE  Rows(rows)
  <1>1. Frames /\ Rows(result)  BY DEF IInv, Returns
  <1>2. CASE rows = result  BY <1>1, <1>2
  <1>3. ASSUME NEW f \in DOMAIN stack  PROVE Rows(Held(stack[f]))
    <2>1. Listed(stack)  BY <1>1 DEF Frames
    <2>2. Len(stack) \in Nat /\ DOMAIN stack = 1..Len(stack)  BY <2>1, ListFacts
    <2>3. stack # <<>>  BY <2>2
    <2>4. f = Len(stack) \/ f \in 1..Len(stack)-1  BY <2>2
    <2>5. CASE f = Len(stack)
      <3>1. Root(stack[f])  BY <1>1, <2>3, <2>5 DEF Frames
      <3>2. Rows(stack[f].rows) /\ stack[f].is # "run"  BY <3>1 DEF Root
      <3>3. Listed(stack[f].rows)  BY <3>2 DEF Rows
      <3>4. stack[f].rows \o <<>> = stack[f].rows  BY <3>3 DEF Listed
      <3> QED  BY <3>2, <3>4 DEF Held
    <2>6. CASE f \in 1..Len(stack)-1
      <3>1. Over(stack[f], stack[f+1])  BY <1>1, <2>3, <2>6 DEF Frames
      <3>2. CASE stack[f].is = "run"
        <4>1. Rows(stack[f].rows) /\ Rows(stack[f].children)  BY <3>1, <3>2 DEF Over, Working
        <4> DEFINE all == stack[f].rows \o stack[f].children
        <4>2. Listed(all) /\ ToSet(all) = ToSet(stack[f].rows) \union ToSet(stack[f].children)
          BY <4>1, Joined DEF Rows
        <4>3. Held(stack[f]) = all  BY <3>2 DEF Held
        <4> HIDE DEF all
        <4> QED  BY <4>1, <4>2, <4>3 DEF Rows
      <3>3. CASE stack[f].is # "run"
        <4>1. Rows(stack[f].rows)  BY <3>1, <3>3 DEF Over, Fetching
        <4>2. Listed(stack[f].rows)  BY <4>1 DEF Rows
        <4>3. stack[f].rows \o <<>> = stack[f].rows  BY <4>2 DEF Listed
        <4> QED  BY <3>3, <4>1, <4>3 DEF Held
      <3> QED  BY <3>2, <3>3
    <2> QED  BY <2>4, <2>5, <2>6
  <1> QED  BY <1>2, <1>3 DEF Holdings

\* Every model in hand, in the result or in a frame of the futures in progress, has
\* decoded columns, a to-one field holds one child at most, a verb ends in one of
\* its outcomes, and a child is found under a parent only if their keys are equal
\* and not NULL: whatever the levels, the batches, the order in which the rows come
\* and the writes of other sessions between the statements (ThenLoad::run,
\* attach_to_one, attach_to_many).
THEOREM ChildrenMatchTheirParents == Spec => []AttachedByKey
  <1>1. Init => IInv  BY StartsRight
  <1>2. IInv /\ [Next]_vars => IInv'  BY Invariance
  <1>3. IInv => AttachedByKey
    <2> SUFFICES ASSUME IInv  PROVE AttachedByKey
      OBVIOUS
    <2>1. ASSUME NEW rows \in Holdings, NEW i \in DOMAIN rows  PROVE Sound(rows[i])
      BY HoldingsSound DEF Rows, ToSet
    <2>2. ASSUME NEW rows \in Holdings, NEW i \in DOMAIN rows  PROVE IsModel(rows[i])
      BY <2>1 DEF Sound, Paired, IsModel
    <2>3. TypeOK
      <3>1. Shape /\ outcome \in Outcomes  BY DEF IInv, Returns
      <3> QED  BY <2>2, <3>1 DEF TypeOK, Shape
    <2>4. ASSUME NEW rows \in Holdings, NEW i \in DOMAIN rows, NEW r \in DOMAIN rows[i].rel,
                 NEW c \in ToSet(rows[i].rel[r])
          PROVE  rows[i][r.parent] = c[r.child] /\ c[r.child] # Null
      <3>1. Paired(rows[i], r)  BY <2>1 DEF Sound
      <3> QED  BY <3>1 DEF Paired
    <2> QED  BY <2>3, <2>4 DEF AttachedByKey
  <1> QED  BY <1>1, <1>2, <1>3, PTL DEF Spec

\* after_select sees each model once: a child before anything is loaded onto it, a
\* model of the query's own after everything is (ModelSelect::all; the note
\* "Ordering within a level" of load.rs).
THEOREM HooksSeeEachModelOnce == Spec => []HookedOnceInOrder
  <1>1. Init => IInv  BY StartsRight
  <1>2. IInv /\ [Next]_vars => IInv'  BY Invariance
  <1>3. IInv => HookedOnceInOrder
    <2> SUFFICES ASSUME IInv  PROVE HookedOnceInOrder
      OBVIOUS
    <2>1. ASSUME NEW i \in DOMAIN result
          PROVE  Len(result[i].seen) = 1 /\ result[i].seen[1] = DOMAIN result[i].rel
      <3>1. result[i] \in ToSet(result)  BY DEF ToSet
      <3>2. result[i].seen = <<DOMAIN result[i].rel>>  BY <3>1 DEF IInv, Returns
      <3> DEFINE d == DOMAIN result[i].rel
      <3> HIDE DEF d
      <3>3. Len(<<d>>) = 1 /\ <<d>>[1] = d  OBVIOUS
      <3> QED  BY <3>2, <3>3 DEF d
    <2>2. ASSUME NEW rows \in Holdings, NEW i \in DOMAIN rows, NEW r \in DOMAIN rows[i].rel,
                 NEW c \in ToSet(rows[i].rel[r])
          PROVE  c.seen = <<{}>>
      <3>1. Sound(rows[i])  BY HoldingsSound DEF Rows, ToSet
      <3>2. Paired(rows[i], r)  BY <3>1 DEF Sound
      <3> QED  BY <3>2 DEF Paired
    <2> QED  BY <2>1, <2>2 DEF HookedOnceInOrder
  <1> QED  BY <1>1, <1>2, <1>3, PTL DEF Spec

-----------------------------------------------------------------------------
(* What has been asked, step by step.                                       *)

LEMMA FrameFacts ==
  ASSUME Frames, NEW f \in DOMAIN stack
  PROVE  /\ Len(stack) \in Nat /\ DOMAIN stack = 1..Len(stack) /\ f \in Nat /\ f >= 1
         /\ stack # <<>>
         /\ stack[f].path \in Seq(Nat) /\ stack[f].done \in Nat
         /\ stack[f].is = "run" => Working(stack[f])
  <1>1. Listed(stack)  BY DEF Frames
  <1>2. Len(stack) \in Nat /\ DOMAIN stack = 1..Len(stack)  BY <1>1, ListFacts
  <1>3. f \in Nat /\ f >= 1 /\ stack # <<>>  BY <1>2
  <1>4. f = Len(stack) \/ f \in 1..Len(stack)-1  BY <1>2
  <1>5. ASSUME NEW F, Working(F)  PROVE F.path \in Seq(Nat) /\ F.done \in Nat
    <2>1. F.level \in Levels /\ F.done \in 0..Len(F.level.then) /\ F.path \in Seq(Nat)  BY <1>5 DEF Working
    <2>2. F.level.then \in Seq(Levels)  BY <2>1, LevelsAssumption
    <2> QED  BY <2>1, <2>2
  <1>6. CASE f = Len(stack)
    <2>1. Root(stack[f])  BY <1>3, <1>6 DEF Frames
    <2>2. stack[f].path = <<>> /\ stack[f].loaders \in Seq(Levels) /\ stack[f].done \in 0..Len(stack[f].loaders)
          /\ stack[f].is = "all"
      BY <2>1 DEF Root
    <2>3. stack[f].done \in Nat  BY <2>2
    <2>4. <<>> \in Seq(Nat)  OBVIOUS
    <2> QED  BY <1>2, <1>3, <2>2, <2>3, <2>4
  <1>7. CASE f \in 1..Len(stack)-1
    <2>1. Over(stack[f], stack[f+1]) /\ (f > 1 => stack[f].is = "run")  BY <1>3, <1>7 DEF Frames
    <2>2. CASE stack[f].is = "run"
      <3>1. Working(stack[f])  BY <2>1, <2>2 DEF Over
      <3> QED  BY <1>2, <1>3, <1>5, <3>1
    <2>3. CASE stack[f].is # "run"
      <3>1. f = 1  BY <2>1, <2>3, <1>3
      <3>2. Fetching(stack[f]) /\ stack[f].path = stack[2].path  BY <2>1, <2>3, <3>1 DEF Over
      <3>3. Len(stack) > 1  BY <1>2, <1>7
      <3>4. Working(stack[2])  BY <1>3, <2>3, <3>1, <3>3, Tops
      <3>5. stack[2].path \in Seq(Nat)  BY <1>5, <3>4
      <3>6. stack[f].done = 0  BY <3>2 DEF Fetching
      <3> QED  BY <1>2, <1>3, <2>3, <3>2, <3>5, <3>6
    <2> QED  BY <2>2, <2>3
  <1> QED  BY <1>4, <1>6, <1>7

LEMMA Deeper ==
  ASSUME NEW p \in Seq(Nat), NEW n \in Nat
  PROVE  LET d == Append(p, n)
         IN  /\ Below(d, p) /\ Through(d, p) = n
             /\ \A q \in Seq(Nat) : Below(p, q) => Below(d, q) /\ Through(d, q) = Through(p, q)
             /\ \A r \in Seq(Nat) : r = d \/ Below(r, d) => Below(r, p) /\ Through(r, p) = n
  <1> DEFINE d == Append(p, n)
  <1>1. d \in Seq(Nat) /\ Len(d) = Len(p) + 1 /\ Len(p) \in Nat /\ d[Len(p) + 1] = n
        /\ \A j \in 1..Len(p) : d[j] = p[j]
    OBVIOUS
  <1> HIDE DEF d
  <1>2. Below(d, p) /\ Through(d, p) = n  BY <1>1 DEF Below, Through
  <1>3. ASSUME NEW q \in Seq(Nat), Below(p, q)  PROVE Below(d, q) /\ Through(d, q) = Through(p, q)
    <2>1. Len(q) \in Nat /\ Len(q) < Len(p) /\ \A j \in 1..Len(q) : p[j] = q[j]  BY <1>3 DEF Below
    <2>2. Len(q) < Len(d) /\ Len(q) + 1 \in 1..Len(p) /\ \A j \in 1..Len(q) : j \in 1..Len(p)  BY <1>1, <2>1
    <2>3. \A j \in 1..Len(q) : d[j] = q[j]  BY <1>1, <2>1, <2>2
    <2>4. d[Len(q) + 1] = p[Len(q) + 1]  BY <1>1, <2>2
    <2> QED  BY <2>2, <2>3, <2>4 DEF Below, Through
  <1>4. ASSUME NEW r \in Seq(Nat), r = d \/ Below(r, d)  PROVE Below(r, p) /\ Through(r, p) = n
    <2>1. CASE r = d  BY <2>1, <1>2
    <2>2. CASE Below(r, d)
      <3>1. Len(d) < Len(r) /\ (\A j \in 1..Len(d) : r[j] = d[j]) /\ Len(r) \in Nat  BY <2>2 DEF Below
      <3>2. Len(p) < Len(r) /\ Len(p) + 1 \in 1..Len(d) /\ \A j \in 1..Len(p) : j \in 1..Len(d)  BY <1>1, <3>1
      <3>3. \A j \in 1..Len(p) : r[j] = p[j]  BY <1>1, <3>1, <3>2
      <3>4. r[Len(p) + 1] = n  BY <1>1, <3>1, <3>2
      <3> QED  BY <3>2, <3>3, <3>4 DEF Below, Through
    <2> QED  BY <1>4, <2>1, <2>2
  <1> QED  BY <1>2, <1>3, <1>4 DEF d

\* A step moves the frames it keeps by d places: the order of the levels is that
\* of the new top frame, and what it was.
Moved(d, s, t) ==
    /\ \A f \in DOMAIN t : f \in Nat /\ f >= 1
    /\ \A f \in DOMAIN t : f + d >= 1 =>
         /\ f + d \in DOMAIN s /\ t[f].is = s[f+d].is /\ t[f].path = s[f+d].path
         /\ t[f].done \in Nat /\ s[f+d].done <= t[f].done
    /\ \A f \in DOMAIN t : f + d >= 2 => t[f].done = s[f+d].done

LEMMA OrderMoved ==
  ASSUME Frames, Latest, NoneLater, asked' = asked, \A q \in asked : q.path \in Seq(Nat),
         NEW d \in -1..1, Moved(d, stack, stack'),
         \A f, g \in DOMAIN stack' : f < g /\ f + d < 1 /\ stack'[f].is = "run" =>
           Below(stack'[f].path, stack'[g].path) /\ Through(stack'[f].path, stack'[g].path) = stack'[g].done,
         \A f \in DOMAIN stack' : f + d < 1 /\ IsLevel(stack'[f]) =>
           \A q \in asked : Below(q.path, stack'[f].path) => Through(q.path, stack'[f].path) <= stack'[f].done
  PROVE  Latest' /\ NoneLater'
  <1> DEFINE t == stack'
  <1>1. Moved(d, stack, t)  OBVIOUS
  <1>2. ASSUME NEW f \in DOMAIN t, NEW g \in DOMAIN t, f < g, t[f].is = "run"
        PROVE  Below(t[f].path, t[g].path) /\ Through(t[f].path, t[g].path) = t[g].done
    <2>1. CASE f + d < 1  BY <1>2, <2>1
    <2>2. CASE ~(f + d < 1)
      <3>1. f \in Nat /\ g \in Nat  BY <1>1 DEF Moved
      <3>2. f + d >= 1 /\ g + d >= 1 /\ g + d >= 2 /\ f + d < g + d  BY <1>2, <2>2, <3>1
      <3> DEFINE a == f + d  b == g + d
      <3>3. a \in DOMAIN stack /\ b \in DOMAIN stack /\ t[f].is = stack[a].is /\ t[f].path = stack[a].path
            /\ t[g].path = stack[b].path /\ t[g].done = stack[b].done
        BY <1>1, <3>2 DEF Moved
      <3>4. a < b  BY <3>2
      <3> HIDE DEF a, b, t
      <3>5. Below(stack[a].path, stack[b].path) /\ Through(stack[a].path, stack[b].path) = stack[b].done
        BY <1>2, <3>3, <3>4 DEF Latest
      <3> QED  BY <3>3, <3>5
    <2> QED  BY <2>1, <2>2
  <1>3. ASSUME NEW q \in asked, NEW g \in DOMAIN t, IsLevel(t[g]), Below(q.path, t[g].path)
        PROVE  Through(q.path, t[g].path) <= t[g].done
    <2>1. CASE g + d < 1  BY <1>3, <2>1
    <2>2. CASE ~(g + d < 1)
      <3>1. g \in Nat  BY <1>1 DEF Moved
      <3>2. g + d >= 1  BY <2>2, <3>1
      <3> DEFINE b == g + d
      <3>3. b \in DOMAIN stack /\ t[g].is = stack[b].is /\ t[g].path = stack[b].path
            /\ t[g].done \in Nat /\ stack[b].done <= t[g].done
        BY <1>1, <3>2 DEF Moved
      <3> HIDE DEF b, t
      <3>4. IsLevel(stack[b])  BY <1>3, <3>3 DEF IsLevel
      <3>5. Through(q.path, stack[b].path) <= stack[b].done  BY <1>3, <3>3, <3>4 DEF NoneLater
      <3>6. stack[b].path \in Seq(Nat) /\ stack[b].done \in Nat  BY <3>3, FrameFacts
      <3>7. Through(q.path, stack[b].path) \in Nat
        <4>1. q.path \in Seq(Nat) /\ Len(stack[b].path) < Len(q.path)  BY <1>3, <3>3 DEF Below
        <4>2. Len(stack[b].path) + 1 \in 1..Len(q.path)  BY <3>6, <4>1
        <4> QED  BY <4>1, <4>2, SMTT(30) DEF Through
      <3>8. Through(q.path, t[g].path) = Through(q.path, stack[b].path)  BY <3>3
      <3> QED  BY <3>3, <3>5, <3>6, <3>7, <3>8
    <2> QED  BY <2>1, <2>2
  <1> QED  BY <1>2, <1>3 DEF Latest, NoneLater

LEMMA SentSame ==
  ASSUME NEW F, NEW G, F.rows = G.rows, F.level = G.level, F.path = G.path, F.chunks = G.chunks,
         NEW hand, NEW log, Sent(G, hand, log)
  PROVE  Sent(F, hand, log)
  <1> DEFINE all(H) == Chunks(Sorted(Due(H)), H.level.batch)
             taken(H) == Len(all(H)) - Len(H.chunks)
             told(H) == Statements(H.path, Due(H), H.level.batch,
                                   IF hand = <<>> THEN taken(H) ELSE taken(H) - 1)
             sent(H) == /\ taken(H) \in 0..Len(all(H)) /\ H.chunks = SubSeq(all(H), taken(H) + 1, Len(all(H)))
                        /\ hand # <<>> => taken(H) > 0 /\ hand = <<all(H)[taken(H)]>>
                        /\ At(log, H.path) = told(H)
  <1>1. sent(G)  BY DEF Sent
  <1>2. Due(F) = Due(G)  BY DEF Due
  <1>3. all(F) = all(G)  BY <1>2
  <1> HIDE DEF all
  <1>4. taken(F) = taken(G)  BY <1>3
  <1> HIDE DEF taken
  <1>5. told(F) = told(G)  BY <1>2, <1>4
  <1> HIDE DEF told
  <1>6. sent(F)  BY <1>1, <1>3, <1>4, <1>5
  <1> QED  BY <1>6 DEF sent, told, taken, all, Sent

\* What a path has asked stays as it was, but where its level ends.
Complete(path) ==
    \E keys \in SUBSET Id, l \in Levels :
      At(asked, path) = Statements(path, keys, l.batch, Number(keys, l.batch))

LEMMA NumberIsNat ==
  ASSUME NEW keys \in SUBSET Id, NEW l \in Levels
  PROVE  Number(keys, l.batch) \in Nat /\ Number(keys, l.batch) \in 0..Number(keys, l.batch)
  <1>1. l.batch \in Nat \ {0}  BY LevelsAssumption
  <1>2. Number(keys, l.batch) \in Nat  BY <1>1, SortedDue DEF Number
  <1> QED  BY <1>2

LEMMA BatchedKept ==
  ASSUME Asked, asked' = asked, outcome # "error" \/ outcome' = "error",
         \A path : Live(path) => Live(path)' \/ outcome' = "error" \/ Complete(path)
  PROVE  \A q \in asked' : q.path \in Seq(Nat) /\ Batched(q.path)'
  <1> SUFFICES ASSUME NEW q \in asked  PROVE q.path \in Seq(Nat) /\ Batched(q.path)'
    OBVIOUS
  <1> DEFINE path == q.path
  <1>1. path \in Seq(Nat) /\ Batched(path)  BY DEF Asked
  <1> HIDE DEF path
  <1>2. PICK keys \in SUBSET Id, l \in Levels : \E m \in 0..Number(keys, l.batch) :
          /\ At(asked, path) = Statements(path, keys, l.batch, m)
          /\ m = Number(keys, l.batch) \/ outcome = "error" \/ Live(path)
    BY <1>1 DEF Batched
  <1>3. PICK m \in 0..Number(keys, l.batch) :
          /\ At(asked, path) = Statements(path, keys, l.batch, m)
          /\ m = Number(keys, l.batch) \/ outcome = "error" \/ Live(path)
    BY <1>2
  <1>4. At(asked', path) = At(asked, path)  OBVIOUS
  <1>5. CASE m = Number(keys, l.batch) \/ outcome' = "error" \/ Live(path)'
    BY <1>1, <1>3, <1>4, <1>5 DEF Batched, path
  <1>6. CASE Complete(path)
    <2>1. PICK k \in SUBSET Id, j \in Levels :
            At(asked, path) = Statements(path, k, j.batch, Number(k, j.batch))
      BY <1>6 DEF Complete
    <2>2. Number(k, j.batch) \in 0..Number(k, j.batch)  BY NumberIsNat
    <2> QED  BY <1>1, <1>4, <2>1, <2>2 DEF Batched, path
  <1> QED  BY <1>3, <1>5, <1>6

\* A frame and what it becomes: the same level, with the same batches to come.
SameLevel(F, G) ==
    F.is = G.is /\ F.path = G.path
    /\ (F.is = "run" => F.level = G.level /\ F.rows = G.rows /\ F.chunks = G.chunks)

LEMMA ProgressKept ==
  ASSUME asked' = asked, NEW f, NEW g, Progress(g), SameLevel(stack'[f], stack[g]), InHand(f)' = InHand(g)
  PROVE  Progress(f)'
  <1> SUFFICES ASSUME stack'[f].is = "run"  PROVE Sent(stack'[f], InHand(f)', asked')
    BY DEF Progress
  <1> DEFINE F == stack'[f]  G == stack[g]  hand == InHand(g)
  <1>1. Sent(G, hand, asked)  BY DEF Progress, SameLevel
  <1>2. F.rows = G.rows /\ F.level = G.level /\ F.path = G.path /\ F.chunks = G.chunks  BY DEF SameLevel
  <1> HIDE DEF F, G, hand
  <1>3. Sent(F, hand, asked)  BY <1>1, <1>2, SentSame
  <1> QED  BY <1>3 DEF F, hand

Waiting(F) == F.is = "all" /\ F.at \in {"hooks", "statement"}

LEMMA HandFacts ==
  ASSUME NEW f
  PROVE  /\ f # 2 \/ ~Waiting(stack[1]) => InHand(f) = <<>>
         /\ Waiting(stack[1]) => InHand(2) = <<stack[1].from.keys>>
  BY DEF InHand, Waiting

LEMMA ReplacedAsks ==
  ASSUME Frames, Asked, stack # <<>>, UNCHANGED <<asked, again, outcome>>,
         NEW F, stack' = <<F>> \o Tail(stack), SameLevel(F, Top), F.done \in Nat, Top.done <= F.done,
         Len(stack) > 1 => (Waiting(F) <=> Waiting(Top)) /\ (Waiting(F) => F.from = Top.from)
  PROVE  Asked'
  <1> DEFINE t == stack'  n == Len(stack)
  <1>1. Listed(stack) /\ Top = stack[1]  BY Tops
  <1>2. n \in Nat /\ n > 0 /\ DOMAIN stack = 1..n  BY <1>1, ListFacts
  <1>3. Listed(t) /\ Len(t) = n /\ t # <<>> /\ t[1] = F /\ \A i \in 2..n : t[i] = stack[i]
    <2>1. t = <<F>> \o Tail(stack)  OBVIOUS
    <2> HIDE DEF t
    <2> QED  BY <1>1, <2>1, TopReplaced
  <1>4. DOMAIN t = 1..n  BY <1>3, ListFacts
  <1> HIDE DEF t
  <1>5. \A f \in 1..n : SameLevel(t[f], stack[f]) /\ (f >= 2 => t[f] = stack[f])
    <2>1. TAKE f \in 1..n
    <2>2. CASE f = 1  BY <2>2, <1>1, <1>3, <1>2
    <2>3. CASE f # 1
      <3>1. f \in 2..n  BY <2>3, <1>2
      <3> QED  BY <3>1, <1>3 DEF SameLevel
    <2> QED  BY <2>2, <2>3
  <1>6. \A f \in 1..n : stack[f].done \in Nat  BY <1>2, FrameFacts
  <1>7. Moved(0, stack, t)
    <2>1. ASSUME NEW f \in 1..n
          PROVE  /\ f \in Nat /\ f >= 1 /\ f + 0 = f /\ t[f].is = stack[f].is /\ t[f].path = stack[f].path
                 /\ t[f].done \in Nat /\ stack[f].done <= t[f].done /\ (f >= 2 => t[f].done = stack[f].done)
      <3>1. SameLevel(t[f], stack[f]) /\ (f >= 2 => t[f] = stack[f]) /\ stack[f].done \in Nat  BY <1>5, <1>6
      <3>2. CASE f = 1  BY <3>1, <3>2, <1>1, <1>3 DEF SameLevel
      <3>3. CASE f # 1
        <4>1. f >= 2 /\ f >= 1 /\ f \in Nat /\ f + 0 = f  BY <3>3, <1>2
        <4>2. t[f] = stack[f]  BY <3>1, <4>1
        <4> QED  BY <3>1, <4>1, <4>2 DEF SameLevel
      <3> QED  BY <3>2, <3>3
    <2> QED  BY <2>1, <1>2, <1>4 DEF Moved
  <1>8. Latest' /\ NoneLater'
    <2>1. \A f \in DOMAIN t : ~(f + 0 < 1)  BY <1>4, <1>2
    <2>2. 0 \in -1..1  OBVIOUS
    <2>3. Latest /\ NoneLater /\ \A q \in asked : q.path \in Seq(Nat)  BY DEF Asked
    <2> QED  BY <1>7, <2>1, <2>2, <2>3, OrderMoved DEF t
  <1>9. ASSUME NEW f \in 1..n  PROVE InHand(f)' = InHand(f)
    <2>1. CASE f = 2
      <3>1. n > 1  BY <2>1, <1>2
      <3> QED  BY <2>1, <3>1, <1>1, <1>3 DEF InHand, Waiting, t
    <2>2. CASE f # 2  BY <2>2 DEF InHand
    <2> QED  BY <2>1, <2>2
  <1>10. \A f \in DOMAIN stack' : Progress(f)'
    <2> SUFFICES ASSUME NEW f \in 1..n  PROVE Progress(f)'
      BY <1>4 DEF t
    <2>1. Progress(f)  BY <1>2 DEF Asked
    <2> QED  BY <2>1, <1>5, <1>9, ProgressKept DEF t
  <1>11. ASSUME NEW path, Live(path)  PROVE Live(path)'
    <2>1. PICK f \in 1..n : stack[f].is = "run" /\ stack[f].path = path  BY <1>11, <1>2 DEF Live
    <2>2. SameLevel(t[f], stack[f])  BY <1>5
    <2> QED  BY <2>1, <2>2, <1>4 DEF Live, SameLevel, t
  <1>12. \A q \in asked' : q.path \in Seq(Nat) /\ Batched(q.path)'  BY <1>11, BatchedKept
  <1> QED  BY <1>8, <1>10, <1>12 DEF Asked

\* Two frames in the place of the top one.
LEMMA PushedOnto ==
  ASSUME Frames, stack # <<>>, NEW F, NEW G, stack' = <<F, G>> \o Tail(stack),
         G.is = Top.is, G.path = Top.path, G.done \in Nat, Top.done <= G.done
  PROVE  /\ Len(stack) \in Nat /\ Len(stack) > 0 /\ DOMAIN stack = 1..Len(stack) /\ Top = stack[1]
         /\ DOMAIN stack' = 1..Len(stack)+1 /\ stack'[1] = F /\ stack'[2] = G
         /\ \A f \in 1..Len(stack)+1 : f # 1 =>
              /\ f - 1 \in 1..Len(stack) /\ f \in Nat /\ f + (-1) = f - 1
              /\ f # 2 => f - 1 >= 2 /\ stack'[f] = stack[f-1]
         /\ Moved(-1, stack, stack')
  <1> DEFINE t == stack'  n == Len(stack)
  <1>1. Listed(stack) /\ Top = stack[1]  BY Tops
  <1>2. n \in Nat /\ n > 0 /\ DOMAIN stack = 1..n  BY <1>1, ListFacts
  <1>3. Listed(t) /\ Len(t) = n + 1 /\ t # <<>> /\ t[1] = F /\ t[2] = G /\ \A i \in 2..n : t[i+1] = stack[i]
    <2>1. t = <<F, G>> \o Tail(stack)  OBVIOUS
    <2> HIDE DEF t
    <2> QED  BY <1>1, <2>1, Pushed
  <1>4. DOMAIN t = 1..n+1  BY <1>3, ListFacts
  <1> HIDE DEF t, n
  <1>5. ASSUME NEW f \in 1..n+1, f # 1
        PROVE  /\ f - 1 \in 1..n /\ f \in Nat /\ f + (-1) = f - 1
               /\ f # 2 => f - 1 >= 2 /\ t[f] = stack[f-1]
    <2>1. f - 1 \in 1..n /\ f \in Nat /\ f + (-1) = f - 1  BY <1>2, <1>5
    <2>2. CASE f = 2  BY <2>1, <2>2
    <2>3. CASE f # 2
      <3>1. f - 1 \in 2..n /\ (f - 1) + 1 = f  BY <2>1, <2>3, <1>5
      <3>2. t[f] = stack[f - 1]  BY <3>1, <1>3
      <3> QED  BY <2>1, <3>1, <3>2
    <2> QED  BY <2>2, <2>3
  <1>6. Moved(-1, stack, t)
    <2>1. ASSUME NEW f \in 1..n+1, f # 1
          PROVE  /\ t[f].is = stack[f-1].is /\ t[f].path = stack[f-1].path
                 /\ t[f].done \in Nat /\ stack[f-1].done <= t[f].done
                 /\ (f - 1 >= 2 => t[f].done = stack[f-1].done)
      <3>1. CASE f = 2
        <4>1. f - 1 = 1 /\ ~(f - 1 >= 2)  BY <3>1
        <4>2. t[f] = G /\ stack[f - 1] = Top  BY <3>1, <4>1, <1>1, <1>3
        <4> QED  BY <4>1, <4>2
      <3>2. CASE f # 2
        <4>1. f - 1 >= 2 /\ f - 1 \in 1..n /\ t[f] = stack[f-1]  BY <3>2, <2>1, <1>5
        <4>2. stack[f - 1].done \in Nat  BY <4>1, <1>2, FrameFacts
        <4> QED  BY <4>1, <4>2
      <3> QED  BY <3>1, <3>2
    <2>2. ASSUME NEW f \in 1..n+1  PROVE f \in Nat /\ f >= 1 /\ (f + (-1) >= 1 => f # 1)
      BY <1>2
    <2>3. \A f \in DOMAIN t : f \in Nat /\ f >= 1  BY <2>2, <1>4
    <2>4. ASSUME NEW f \in DOMAIN t, f + (-1) >= 1
          PROVE  /\ f + (-1) \in DOMAIN stack /\ t[f].is = stack[f + (-1)].is /\ t[f].path = stack[f + (-1)].path
                 /\ t[f].done \in Nat /\ stack[f + (-1)].done <= t[f].done
                 /\ (f + (-1) >= 2 => t[f].done = stack[f + (-1)].done)
      <3>1. f \in 1..n+1 /\ f # 1  BY <2>2, <2>4, <1>4
      <3>2. f + (-1) = f - 1 /\ f - 1 \in 1..n  BY <3>1, <1>5
      <3> QED  BY <3>1, <3>2, <2>1, <1>2
    <2>5. ASSUME NEW f \in DOMAIN t, f + (-1) >= 2  PROVE t[f].done = stack[f + (-1)].done
      <3>1. f + (-1) >= 1  BY <2>3, <2>5
      <3> QED  BY <3>1, <2>4, <2>5
    <2> QED  BY <2>3, <2>4, <2>5 DEF Moved
  <1> QED  BY <1>1, <1>2, <1>3, <1>4, <1>5, <1>6 DEF t, n

\* A level starts: nothing has been asked of it, nor of one below it.
LEMMA PushedAsks ==
  ASSUME Frames, Asked, stack # <<>>, UNCHANGED <<asked, again, outcome>>, IsLevel(Top), ~Waiting(Top),
         NEW F, NEW G, stack' = <<F, G>> \o Tail(stack), SameLevel(G, Top), G.done = Top.done + 1,
         F.is = "run", F.done = 0, F.chunks = Chunks(Sorted(Due(F)), F.level.batch),
         Due(F) \in SUBSET Id, F.level \in Levels
  PROVE  F.path = Append(Top.path, G.done) => Asked'
  <1> SUFFICES ASSUME F.path = Append(Top.path, G.done)  PROVE Asked'
    OBVIOUS
  <1> DEFINE t == stack'  n == Len(stack)
  <1>7. Top.done \in Nat /\ Top.path \in Seq(Nat) /\ G.done \in Nat /\ Top.done <= G.done
    <2>1. 1 \in DOMAIN stack /\ Top = stack[1]
      <3>1. Listed(stack) /\ Len(stack) \in Nat /\ Len(stack) > 0 /\ Top = stack[1]  BY Tops
      <3> QED  BY <3>1, ListFacts
    <2>2. Top.done \in Nat /\ Top.path \in Seq(Nat)  BY <2>1, FrameFacts
    <2> QED  BY <2>2
  <1>1. /\ n \in Nat /\ n > 0 /\ DOMAIN stack = 1..n /\ Top = stack[1]
        /\ DOMAIN t = 1..n+1 /\ t[1] = F /\ t[2] = G
        /\ \A f \in 1..n+1 : f # 1 =>
             /\ f - 1 \in 1..n /\ f \in Nat /\ f + (-1) = f - 1
             /\ f # 2 => f - 1 >= 2 /\ t[f] = stack[f-1]
        /\ Moved(-1, stack, t)
    BY <1>7, PushedOnto DEF SameLevel
  <1> HIDE DEF t
  <1>2. n \in Nat /\ n > 0 /\ DOMAIN stack = 1..n /\ 1 \in 1..n  BY <1>1
  <1>3. t[1] = F /\ t[2] = G  BY <1>1
  <1>4. DOMAIN t = 1..n+1  BY <1>1
  <1>5. ASSUME NEW f \in 1..n+1, f # 1
        PROVE  /\ f - 1 \in 1..n /\ f \in Nat /\ SameLevel(t[f], stack[f-1])
               /\ (f # 2 => f - 1 >= 2 /\ t[f] = stack[f-1])
    <2>1. CASE f = 2
      <3>1. f - 1 = 1  BY <2>1
      <3> QED  BY <2>1, <3>1, <1>1, <1>2
    <2>2. CASE f # 2  BY <2>2, <1>1, <1>5 DEF SameLevel
    <2> QED  BY <2>1, <2>2
  <1>6. \A f \in 1..n : stack[f].done \in Nat /\ stack[f].path \in Seq(Nat)  BY <1>2, FrameFacts
  <1>8. Moved(-1, stack, t)  BY <1>1
  <1>9. ASSUME NEW g \in 1..n+1, g # 1
        PROVE  Below(F.path, t[g].path) /\ Through(F.path, t[g].path) = t[g].done
    <2>1. Below(F.path, Top.path) /\ Through(F.path, Top.path) = G.done
          /\ \A q \in Seq(Nat) : Below(Top.path, q) => Below(F.path, q) /\ Through(F.path, q) = Through(Top.path, q)
      BY <1>7, Deeper
    <2>2. CASE g = 2  BY <2>1, <2>2, <1>3 DEF SameLevel
    <2>3. CASE g # 2
      <3>1. g - 1 \in 1..n /\ g - 1 >= 2 /\ 1 < g - 1  BY <2>3, <1>5, <1>9
      <3>2. t[g] = stack[g - 1]  BY <3>1, <1>5, <1>9
      <3>3. n # 1
        <4> HIDE DEF n
        <4> QED  BY <3>1, <1>2
      <3>4. Top.is = "run"
        <4>1. Top.path = <<>> /\ Top.is = "all" => n = 1  BY <1>1, Tops
        <4>2. Top.is = "all" \/ Top.is = "run"
          <5>1. n = 1 \/ n > 1  BY <1>2
          <5> QED  BY <5>1, <3>3, <1>1, Tops DEF Fetching
        <4> QED  BY <4>1, <4>2, <3>3 DEF IsLevel
      <3>5. Below(Top.path, stack[g-1].path) /\ Through(Top.path, stack[g-1].path) = stack[g-1].done
        BY <3>1, <3>4, <1>1, <1>2, <1>7, SMTT(30) DEF Asked, Latest
      <3>6. stack[g-1].path \in Seq(Nat)  BY <3>1, <1>6
      <3> QED  BY <2>1, <3>2, <3>5, <3>6
    <2> QED  BY <2>2, <2>3
  <1>10. ASSUME NEW q \in asked, q.path = F.path \/ Below(q.path, F.path)  PROVE FALSE
    <2>1. q.path \in Seq(Nat)  BY DEF Asked
    <2> DEFINE p == Top.path  d == G.done
    <2>4. p \in Seq(Nat) /\ d \in Nat /\ F.path = Append(p, d)  BY <1>7
    <2> HIDE DEF p, d
    <2>5. \A r \in Seq(Nat) : r = Append(p, d) \/ Below(r, Append(p, d)) => Below(r, p) /\ Through(r, p) = d
      BY <2>4, Deeper
    <2>6. q.path = Append(p, d) \/ Below(q.path, Append(p, d))  BY <1>10, <2>4, Zenon
    <2>2. Below(q.path, Top.path) /\ Through(q.path, Top.path) = G.done  BY <2>1, <2>5, <2>6, Zenon DEF p, d
    <2>3. Through(q.path, Top.path) <= Top.done  BY <2>2, <1>1, <1>2, <1>7 DEF Asked, NoneLater
    <2> QED  BY <2>2, <2>3, <1>7
  <1>11. Latest' /\ NoneLater'
    <2>1. \A f \in DOMAIN t : f + (-1) < 1 => f = 1  BY <1>4, <1>2
    <2>2. -1 \in -1..1  OBVIOUS
    <2>3. Latest /\ NoneLater /\ \A q \in asked : q.path \in Seq(Nat)  BY DEF Asked
    <2>4. ASSUME NEW f \in DOMAIN t, NEW g \in DOMAIN t, f < g, f + (-1) < 1, t[f].is = "run"
          PROVE  Below(t[f].path, t[g].path) /\ Through(t[f].path, t[g].path) = t[g].done
      <3>1. f = 1  BY <2>1, <2>4
      <3>2. g # 1 /\ g \in 1..n+1  BY <2>4, <3>1, <1>4
      <3> QED  BY <3>1, <3>2, <1>3, <1>9
    <2>5. ASSUME NEW f \in DOMAIN t, f + (-1) < 1, IsLevel(t[f]), NEW q \in asked, Below(q.path, t[f].path)
          PROVE  Through(q.path, t[f].path) <= t[f].done
      <3>1. f = 1  BY <2>1, <2>5
      <3> QED  BY <3>1, <2>5, <1>3, <1>10
    <2>6. \A f, g \in DOMAIN t : f < g /\ f + (-1) < 1 /\ t[f].is = "run" =>
            Below(t[f].path, t[g].path) /\ Through(t[f].path, t[g].path) = t[g].done
      BY <2>4
    <2>7. \A f \in DOMAIN t : f + (-1) < 1 /\ IsLevel(t[f]) =>
            \A q \in asked : Below(q.path, t[f].path) => Through(q.path, t[f].path) <= t[f].done
      BY <2>5
    <2>8. asked' = asked  OBVIOUS
    <2> QED  BY <1>8, <2>2, <2>3, <2>6, <2>7, <2>8, OrderMoved, Zenon DEF t
  <1>12. ASSUME NEW f \in 1..n+1, f # 1  PROVE InHand(f)' = InHand(f - 1)
    <2>1. InHand(f - 1) = <<>>  BY <1>1, HandFacts
    <2>2. ~Waiting(t[1])  BY <1>3 DEF Waiting
    <2>3. InHand(f)' = <<>>  BY <2>2 DEF InHand, Waiting, t
    <2> QED  BY <2>1, <2>3
  <1>13. Progress(1)'
    <2> DEFINE all == Chunks(Sorted(Due(F)), F.level.batch)
    <2>1. Listed(all) /\ Len(all) \in Nat  BY SortedDue, LevelsAssumption
    <2>2. F.chunks = all  OBVIOUS
    <2>3. At(asked', F.path) = {}  BY <1>10 DEF At
    <2>4. Statements(F.path, Due(F), F.level.batch, 0) = {}  BY DEF Statements
    <2>5. InHand(1)' = <<>>  BY DEF InHand
    <2> HIDE DEF all
    <2>6. all = SubSeq(all, 1, Len(all))
      <3>1. all \in Seq(ToSet(all))  BY <2>1 DEF Listed
      <3> QED  BY <3>1
    <2>7. Len(all) - Len(F.chunks) = 0 /\ 0 \in 0..Len(all) /\ 0 + 1 = 1  BY <2>1, <2>2
    <2>8. Sent(F, <<>>, asked')
      <3> DEFINE taken == Len(all) - Len(F.chunks)
      <3>1. taken = 0  BY <2>7
      <3> HIDE DEF taken
      <3>2. /\ taken \in 0..Len(all) /\ F.chunks = SubSeq(all, taken + 1, Len(all))
            /\ At(asked', F.path) = Statements(F.path, Due(F), F.level.batch, taken)
        BY <3>1, <2>2, <2>3, <2>4, <2>6, <2>7
      <3> QED  BY <3>2 DEF Sent, taken, all
    <2> QED  BY <2>5, <2>8, <1>3 DEF Progress, t
  <1>14. \A f \in DOMAIN stack' : Progress(f)'
    <2> SUFFICES ASSUME NEW f \in 1..n+1  PROVE Progress(f)'
      BY <1>4 DEF t
    <2>1. CASE f = 1  BY <2>1, <1>13
    <2>2. CASE f # 1
      <3> DEFINE g == f - 1
      <3>1. g \in 1..n /\ SameLevel(t[f], stack[g])  BY <2>2, <1>5
      <3>2. InHand(f)' = InHand(g)  BY <2>2, <1>12
      <3> HIDE DEF g
      <3>3. Progress(g)  BY <3>1, <1>2 DEF Asked
      <3> QED  BY <3>1, <3>2, <3>3, ProgressKept DEF t
    <2> QED  BY <2>1, <2>2
  <1>15. ASSUME NEW path, Live(path)  PROVE Live(path)'
    <2>1. PICK f \in 1..n : stack[f].is = "run" /\ stack[f].path = path  BY <1>15, <1>2 DEF Live
    <2>2. f + 1 \in 1..n+1 /\ f + 1 # 1 /\ (f + 1) - 1 = f  BY <1>2
    <2>3. SameLevel(t[f+1], stack[f])  BY <2>2, <1>5
    <2> QED  BY <2>1, <2>2, <2>3, <1>4 DEF Live, SameLevel, t
  <1>16. \A q \in asked' : q.path \in Seq(Nat) /\ Batched(q.path)'  BY <1>15, BatchedKept
  <1> QED  BY <1>11, <1>14, <1>16 DEF Asked

LEMMA PoppedAsks ==
  ASSUME Frames, Asked, Len(stack) > 1, UNCHANGED <<asked, again, outcome>>, ~Waiting(stack[1]),
         stack[1].is = "run" => Complete(stack[1].path),
         NEW G, stack' = <<G>> \o SubSeq(stack, 3, Len(stack)), SameLevel(G, stack[2]), G.done = stack[2].done
  PROVE  Asked'
  <1> DEFINE t == stack'  n == Len(stack) - 1
  <1>1. Listed(stack)  BY DEF Frames
  <1>2. Len(stack) \in Nat /\ n \in Nat /\ n > 0 /\ Len(stack) = n + 1 /\ DOMAIN stack = 1..n+1
    BY <1>1, ListFacts
  <1>3. Listed(t) /\ Len(t) = n /\ t # <<>> /\ t[1] = G /\ \A i \in 2..Len(t) : t[i] = stack[i+1]
    <2>1. t = <<G>> \o SubSeq(stack, 3, Len(stack))  OBVIOUS
    <2> HIDE DEF t
    <2> QED  BY <1>1, <2>1, Popped
  <1>4. DOMAIN t = 1..n  BY <1>3, ListFacts
  <1> HIDE DEF t, n
  <1>5. ASSUME NEW f \in 1..n
        PROVE  /\ f \in Nat /\ f >= 1 /\ f + 1 \in 1..n+1 /\ f + 1 >= 2
               /\ SameLevel(t[f], stack[f+1]) /\ t[f].done = stack[f+1].done
    <2>1. f \in Nat /\ f >= 1 /\ f + 1 \in 1..n+1 /\ f + 1 >= 2  BY <1>2
    <2>2. CASE f = 1
      <3>1. f + 1 = 2  BY <2>2
      <3> QED  BY <2>1, <2>2, <3>1, <1>3
    <2>3. CASE f # 1
      <3>1. f \in 2..Len(t)  BY <2>3, <1>2, <1>3
      <3>2. t[f] = stack[f + 1]  BY <3>1, <1>3
      <3> QED  BY <2>1, <3>2 DEF SameLevel
    <2> QED  BY <2>2, <2>3
  <1>6. \A f \in 1..n+1 : stack[f].done \in Nat /\ stack[f].path \in Seq(Nat)  BY <1>2, FrameFacts
  <1>7. Moved(1, stack, t)
    <2>1. ASSUME NEW f \in DOMAIN t
          PROVE  /\ f \in Nat /\ f >= 1 /\ f + 1 \in DOMAIN stack /\ t[f].is = stack[f + 1].is
                 /\ t[f].path = stack[f + 1].path /\ t[f].done \in Nat /\ stack[f + 1].done <= t[f].done
                 /\ t[f].done = stack[f + 1].done
      <3>1. f + 1 \in 1..n+1 /\ SameLevel(t[f], stack[f+1]) /\ t[f].done = stack[f+1].done /\ f \in Nat /\ f >= 1
        BY <1>4, <1>5
      <3>2. stack[f+1].done \in Nat  BY <3>1, <1>6
      <3>3. \A x \in Nat : x <= x  OBVIOUS
      <3> QED  BY <3>1, <3>2, <3>3, <1>2, Zenon DEF SameLevel
    <2> QED  BY <2>1 DEF Moved
  <1>8. Latest' /\ NoneLater'
    <2>1. \A f \in DOMAIN t : ~(f + 1 < 1)  BY <1>4, <1>2
    <2>2. 1 \in -1..1  OBVIOUS
    <2>3. Latest /\ NoneLater /\ \A q \in asked : q.path \in Seq(Nat)  BY DEF Asked
    <2> QED  BY <1>7, <2>1, <2>2, <2>3, OrderMoved DEF t
  <1>9. ASSUME NEW f \in 1..n  PROVE InHand(f)' = <<>> /\ InHand(f + 1) = <<>>
    <2>1. InHand(f + 1) = <<>>  BY HandFacts
    <2>2. CASE f # 2  BY <2>1, <2>2 DEF InHand
    <2>3. CASE f = 2
      <3>1. n > 1 /\ Len(stack) > 2 /\ t[1].is = stack[2].is  BY <2>3, <1>2, <1>3 DEF SameLevel
      <3>2. stack[1].is # "run" => stack[2].is = "run"
        <4>1. stack # <<>>  BY <1>1, <1>2, ListFacts
        <4> QED  BY <4>1, <3>1, Tops
      <3>3. stack[2].is = "run"
        <4>1. stack # <<>>  BY <1>1, <1>2, ListFacts
        <4> QED  BY <4>1, <3>1, Tops
      <3> QED  BY <2>1, <3>1, <3>3 DEF InHand, t
    <2> QED  BY <2>2, <2>3
  <1>10. \A f \in DOMAIN stack' : Progress(f)'
    <2> SUFFICES ASSUME NEW f \in 1..n  PROVE Progress(f)'
      BY <1>4 DEF t
    <2> DEFINE g == f + 1
    <2>1. g \in 1..n+1 /\ SameLevel(t[f], stack[g])  BY <1>5
    <2>2. InHand(f)' = InHand(g)  BY <1>9
    <2> HIDE DEF g
    <2>3. Progress(g)  BY <2>1, <1>2 DEF Asked
    <2> QED  BY <2>1, <2>2, <2>3, ProgressKept DEF t
  <1>11. ASSUME NEW path, Live(path)  PROVE Live(path)' \/ Complete(path)
    <2>1. PICK f \in 1..n+1 : stack[f].is = "run" /\ stack[f].path = path  BY <1>11, <1>2 DEF Live
    <2>2. CASE f = 1  BY <2>1, <2>2
    <2>3. CASE f # 1
      <3> DEFINE g == f - 1
      <3>1. g \in 1..n /\ g + 1 = f  BY <2>3, <1>2
      <3>2. SameLevel(t[g], stack[f])  BY <3>1, <1>5
      <3> HIDE DEF g
      <3> QED  BY <2>1, <3>1, <3>2, <1>4 DEF Live, SameLevel, t
    <2> QED  BY <2>2, <2>3
  <1>12. \A q \in asked' : q.path \in Seq(Nat) /\ Batched(q.path)'  BY <1>11, BatchedKept
  <1>13. again' = {} /\ outcome' = "running"
    <2>1. stack # <<>>  BY <1>1, <1>2, ListFacts
    <2> QED  BY <2>1 DEF Asked
  <1> QED  BY <1>8, <1>10, <1>12, <1>13 DEF Asked

LEMMA EmptiedAsks ==
  ASSUME Asked, UNCHANGED <<asked, again>>, stack' = <<>>, stack # <<>>,
         outcome' = "error" \/ \A path : ~Live(path)
  PROVE  Asked'
  <1>1. \A path : Live(path) => Live(path)' \/ outcome' = "error" \/ Complete(path)  OBVIOUS
  <1>2. outcome # "error"  BY DEF Asked
  <1>3. \A q \in asked' : q.path \in Seq(Nat) /\ Batched(q.path)'  BY <1>1, <1>2, BatchedKept
  <1>4. DOMAIN stack' = {}  OBVIOUS
  <1>5. Latest' /\ NoneLater'  BY <1>4 DEF Latest, NoneLater
  <1> QED  BY <1>3, <1>4, <1>5 DEF Asked

\* A level that has taken all of its batches has asked for all of its keys.
LEMMA LevelComplete ==
  ASSUME Frames, Asked, stack # <<>>, stack[1].is = "run", stack[1].chunks = <<>>
  PROVE  Complete(stack[1].path)
  <1> DEFINE F == stack[1]
             all == Chunks(Sorted(Due(F)), F.level.batch)
             taken == Len(all) - Len(F.chunks)
  <1>1. Working(F)  BY Tops
  <1>2. F.level \in Levels /\ Rows(F.rows)  BY <1>1 DEF Working
  <1>3. Due(F) \in SUBSET Id
    <2>1. F.level.rel.parent \in Columns  BY <1>2, LevelsAssumption DEF Relation
    <2> HIDE DEF F
    <2> QED  BY <1>2, <2>1, DueFacts DEF Due
  <1>4. 1 \in DOMAIN stack
    <2>1. Len(stack) \in Nat /\ Len(stack) > 0 /\ Listed(stack)  BY Tops
    <2> QED  BY <2>1, ListFacts
  <1>5. Progress(1)  BY <1>4 DEF Asked
  <1>6. InHand(1) = <<>>  BY DEF InHand
  <1>7. Sent(F, <<>>, asked)  BY <1>5, <1>6 DEF Progress
  <1>8. At(asked, F.path) = Statements(F.path, Due(F), F.level.batch, taken)  BY <1>7 DEF Sent
  <1>9. taken = Number(Due(F), F.level.batch)
    <2>1. Len(all) = Number(Due(F), F.level.batch)  BY DEF Number
    <2>2. Number(Due(F), F.level.batch) \in Nat  BY <1>2, <1>3, NumberIsNat
    <2>3. Len(F.chunks) = 0  OBVIOUS
    <2> HIDE DEF all, F
    <2> QED  BY <2>1, <2>2, <2>3
  <1> HIDE DEF F, all, taken
  <1> QED  BY <1>2, <1>3, <1>8, <1>9 DEF Complete, F

\* The batches a level has taken, and the next one.
LEMMA NextBatch ==
  ASSUME NEW all, Listed(all), NEW taken \in 0..Len(all), SubSeq(all, taken + 1, Len(all)) # <<>>
  PROVE  LET rest == SubSeq(all, taken + 1, Len(all))
         IN  /\ taken + 1 \in 1..Len(all) /\ Head(rest) = all[taken + 1]
             /\ Tail(rest) = SubSeq(all, (taken + 1) + 1, Len(all))
             /\ Len(all) - Len(Tail(rest)) = taken + 1
  <1> DEFINE rest == SubSeq(all, taken + 1, Len(all))
             n == Len(all)
  <1>1. n \in Nat /\ all \in Seq(ToSet(all))  BY ListFacts DEF Listed
  <1>2. Listed(rest) /\ Len(rest) = n - taken /\ \A i \in 1..Len(rest) : rest[i] = all[taken + i]
    <2>1. taken + 1 \in 1..n+1  BY <1>1
    <2>2. Listed(rest) /\ Len(rest) = n - (taken + 1) + 1 /\ \A i \in 1..Len(rest) : rest[i] = all[taken + 1 + i - 1]
      BY <2>1, Part
    <2> HIDE DEF rest, n
    <2>3. Len(rest) = n - taken  BY <2>2, <1>1
    <2>4. \A i \in 1..Len(rest) : taken + 1 + i - 1 = taken + i  BY <2>3, <1>1
    <2> QED  BY <2>2, <2>3, <2>4
  <1>3. Len(rest) \in Nat /\ Len(rest) > 0  BY <1>2, ListFacts
  <1> HIDE DEF n
  <1>4. taken + 1 \in 1..n /\ taken < n
    <2> HIDE DEF rest
    <2> QED  BY <1>1, <1>2, <1>3
  <1>5. Listed(Tail(rest)) /\ Len(Tail(rest)) = Len(rest) - 1 /\ Head(rest) = rest[1]
        /\ \A i \in 1..Len(rest)-1 : Tail(rest)[i] = rest[i+1]
    <2> HIDE DEF rest
    <2>1. rest # <<>>  BY <1>2, <1>3, ListFacts
    <2> QED  BY <1>2, <2>1, TailOf
  <1>6. Len(all) - Len(Tail(rest)) = taken + 1
    <2> DEFINE k == Len(Tail(rest))  m == Len(rest)
    <2>1. k = m - 1 /\ m = n - taken  BY <1>2, <1>5
    <2> HIDE DEF rest, k, m
    <2>2. n - k = taken + 1  BY <1>1, <2>1
    <2> QED  BY <2>2 DEF n, k
  <1>7. Head(rest) = all[taken + 1]
    <2>1. 1 \in 1..Len(rest)  BY <1>3
    <2> HIDE DEF rest
    <2> QED  BY <1>2, <1>5, <2>1
  <1>8. Tail(rest) = SubSeq(all, (taken + 1) + 1, n)
    <2> DEFINE next == SubSeq(all, (taken + 1) + 1, n)
               tail == Tail(rest)
    <2>1. (taken + 1) + 1 \in 1..n+1  BY <1>4, <1>1
    <2>2. Listed(next) /\ Len(next) = n - ((taken + 1) + 1) + 1
          /\ \A i \in 1..Len(next) : next[i] = all[((taken + 1) + 1) + i - 1]
      BY <2>1, Part DEF n
    <2>3. Listed(tail) /\ Len(tail) = n - taken - 1 /\ \A i \in 1..Len(tail) : tail[i] = all[(taken + 1) + i]
      <3> HIDE DEF rest
      <3>1. Len(tail) = n - taken - 1  BY <1>1, <1>2, <1>5
      <3>2. \A i \in 1..Len(tail) : i \in 1..Len(rest)-1 /\ i + 1 \in 1..Len(rest) /\ taken + (i + 1) = (taken + 1) + i
        BY <3>1, <1>1, <1>2, <1>4
      <3> QED  BY <3>1, <3>2, <1>2, <1>5
    <2> HIDE DEF next, tail
    <2>4. Len(next) = Len(tail)  BY <2>2, <2>3, <1>1, <1>4
    <2>5. \A i \in 1..Len(next) : ((taken + 1) + 1) + i - 1 = (taken + 1) + i  BY <2>2, <1>1, <1>4
    <2>6. \A i \in 1..Len(next) : next[i] = tail[i]  BY <2>2, <2>3, <2>4, <2>5
    <2>7. next = [i \in 1..Len(next) |-> next[i]] /\ tail = [i \in 1..Len(tail) |-> tail[i]]  BY <2>2, <2>3, ListFacts
    <2> QED  BY <2>4, <2>6, <2>7 DEF next, tail
  <1> QED  BY <1>4, <1>6, <1>7, <1>8 DEF n

LEMMA BatchesOfLevel ==
  ASSUME NEW F, Working(F)
  PROVE  LET all == Chunks(Sorted(Due(F)), F.level.batch)
         IN  /\ F.level \in Levels /\ Due(F) \in SUBSET Id /\ Listed(all) /\ Len(all) \in Nat
             /\ Len(all) = Number(Due(F), F.level.batch)
             /\ \A c, d \in 1..Len(all) : c # d => all[c] # all[d]
  <1> DEFINE keys == Due(F)  n == F.level.batch  all == Chunks(Sorted(keys), n)
  <1>1. F.level \in Levels /\ Rows(F.rows)  BY DEF Working
  <1>2. keys \in SUBSET Id
    <2>1. F.level.rel.parent \in Columns  BY <1>1, LevelsAssumption DEF Relation
    <2> QED  BY <1>1, <2>1, DueFacts DEF Due
  <1>3. n \in Nat \ {0}  BY <1>1, LevelsAssumption
  <1>4. Len(all) = Number(keys, n)  BY DEF Number
  <1> HIDE DEF keys, n
  <1>5. Listed(all) /\ Len(all) \in Nat /\ \A c, d \in 1..Len(all) : c # d => all[c] # all[d]  BY <1>2, <1>3, SortedDue
  <1> QED  BY <1>1, <1>2, <1>4, <1>5 DEF keys, n

LEMMA RunBatchAsks ==
  ASSUME IInv, Asked, RunBatch
  PROVE  Asked'
  <1>1. Frames /\ stack # <<>> /\ Top.is = "run" /\ Top.chunks # <<>>  BY DEF IInv, RunBatch, In
  <1>2. Top = stack[1] /\ Working(Top) /\ Listed(stack) /\ 1 \in DOMAIN stack
    <2>1. Top = stack[1] /\ Len(stack) \in Nat /\ Len(stack) > 0 /\ Listed(stack)  BY <1>1, Tops
    <2>2. Working(Top)  BY <1>1, <2>1, Tops
    <2> QED  BY <2>1, <2>2, ListFacts
  <1> DEFINE from == [keys |-> Head(Top.chunks), column |-> Top.level.rel.child, keep |-> Top.level.keep]
             F == All(Top.path, from, <<>>)
             G == [Top EXCEPT !.chunks = Tail(@)]
             t == stack'
             n == Len(stack)
  <1>3. stack' = <<F, G>> \o Tail(stack) /\ UNCHANGED <<asked, again, outcome>>  BY DEF RunBatch, history, ended
  <1>4. /\ G.is = Top.is /\ G.path = Top.path /\ G.level = Top.level /\ G.rows = Top.rows
        /\ G.chunks = Tail(Top.chunks) /\ G.done = Top.done
    <2>1. DOMAIN Top = {"is", "at", "path", "level", "rows", "chunks", "children", "done"}  BY <1>2 DEF Working
    <2> QED  BY <2>1
  <1>5. F.is = "all" /\ F.at = "hooks" /\ F.path = Top.path /\ F.from.keys = Head(Top.chunks)  BY DEF All
  <1> HIDE DEF F, G, from
  <1>6. Top.done \in Nat /\ Top.path # <<>>
    <2>1. Top.done \in Nat  BY <1>1, <1>2, FrameFacts
    <2> QED  BY <2>1, <1>2 DEF Working
  <1>7. G.done \in Nat /\ Top.done <= G.done  BY <1>4, <1>6
  <1>8. /\ n \in Nat /\ n > 0 /\ DOMAIN stack = 1..n /\ Top = stack[1]
        /\ DOMAIN t = 1..n+1 /\ t[1] = F /\ t[2] = G
        /\ \A f \in 1..n+1 : f # 1 =>
             /\ f - 1 \in 1..n /\ f \in Nat /\ f + (-1) = f - 1
             /\ f # 2 => f - 1 >= 2 /\ t[f] = stack[f-1]
        /\ Moved(-1, stack, t)
    BY <1>1, <1>3, <1>4, <1>7, PushedOnto
  <1> HIDE DEF t, n
  <1>9. Latest' /\ NoneLater'
    <2>1. \A f \in DOMAIN t : f + (-1) < 1 => f = 1  BY <1>8
    <2>2. -1 \in -1..1  OBVIOUS
    <2>3. Latest /\ NoneLater /\ \A q \in asked : q.path \in Seq(Nat)  BY DEF Asked
    <2>4. \A f, g \in DOMAIN t : f < g /\ f + (-1) < 1 /\ t[f].is = "run" =>
            Below(t[f].path, t[g].path) /\ Through(t[f].path, t[g].path) = t[g].done
      BY <2>1, <1>5, <1>8
    <2>5. \A f \in DOMAIN t : f + (-1) < 1 /\ IsLevel(t[f]) =>
            \A q \in asked : Below(q.path, t[f].path) => Through(q.path, t[f].path) <= t[f].done
      BY <2>1, <1>5, <1>6, <1>8 DEF IsLevel
    <2>6. asked' = asked /\ Moved(-1, stack, t)  BY <1>3, <1>8
    <2> QED  BY <1>1, <2>2, <2>3, <2>4, <2>5, <2>6, OrderMoved, Zenon DEF t
  <1>10. Progress(2)'
    <2> DEFINE all == Chunks(Sorted(Due(Top)), Top.level.batch)
               taken == Len(all) - Len(Top.chunks)
               hand == <<Head(Top.chunks)>>
    <2>1. Progress(1) /\ InHand(1) = <<>>  BY <1>2 DEF Asked, InHand
    <2>2. Sent(Top, <<>>, asked)  BY <2>1, <1>1, <1>2 DEF Progress
    <2>3. /\ taken \in 0..Len(all) /\ Top.chunks = SubSeq(all, taken + 1, Len(all))
          /\ At(asked, Top.path) = Statements(Top.path, Due(Top), Top.level.batch, taken)
      BY <2>2 DEF Sent
    <2>4. Listed(all)  BY <1>2, BatchesOfLevel
    <2> HIDE DEF all, taken
    <2>5. /\ taken + 1 \in 1..Len(all) /\ Head(Top.chunks) = all[taken + 1]
          /\ Tail(Top.chunks) = SubSeq(all, (taken + 1) + 1, Len(all))
          /\ Len(all) - Len(Tail(Top.chunks)) = taken + 1
      <3> DEFINE rest == SubSeq(all, taken + 1, Len(all))
      <3>1. Top.chunks = rest /\ rest # <<>>  BY <2>3, <1>1
      <3>2. /\ taken + 1 \in 1..Len(all) /\ Head(rest) = all[taken + 1]
            /\ Tail(rest) = SubSeq(all, (taken + 1) + 1, Len(all))
            /\ Len(all) - Len(Tail(rest)) = taken + 1
        BY <2>3, <2>4, <3>1, NextBatch
      <3> HIDE DEF rest
      <3> QED  BY <3>1, <3>2
    <2>6. Due(G) = Due(Top)  BY <1>4 DEF Due
    <2>7. all = Chunks(Sorted(Due(G)), G.level.batch)  BY <2>6, <1>4 DEF all
    <2> DEFINE now == Len(all) - Len(G.chunks)
    <2>8. now = taken + 1  BY <2>5, <1>4
    <2> HIDE DEF now
    <2>9. /\ now \in 0..Len(all) /\ now > 0 /\ G.chunks = SubSeq(all, now + 1, Len(all)) /\ hand = <<all[now]>>
          /\ now - 1 = taken
      <3>1. taken \in Nat /\ Len(all) \in Nat  BY <2>3, <2>4, ListFacts
      <3>2. now \in 0..Len(all) /\ now > 0 /\ now - 1 = taken  BY <2>5, <2>8, <3>1
      <3> QED  BY <3>2, <2>5, <2>8, <1>4
    <2>10. At(asked', G.path) = Statements(G.path, Due(G), G.level.batch, now - 1)
      BY <2>3, <2>6, <2>9, <1>3, <1>4
    <2>11. hand # <<>>  OBVIOUS
    <2> HIDE DEF hand
    <2>12. Sent(G, hand, asked')
      <3>1. all = Chunks(Sorted(Due(G)), G.level.batch)  BY <2>7
      <3> DEFINE every == Chunks(Sorted(Due(G)), G.level.batch)
                 done == Len(every) - Len(G.chunks)
      <3>2. every = all /\ done = now  BY <3>1 DEF now
      <3> HIDE DEF every, done
      <3>3. /\ done \in 0..Len(every) /\ G.chunks = SubSeq(every, done + 1, Len(every))
            /\ done > 0 /\ hand = <<every[done]>>
            /\ At(asked', G.path) = Statements(G.path, Due(G), G.level.batch, done - 1)
        BY <3>2, <2>9, <2>10
      <3> QED  BY <3>3, <2>11 DEF Sent, done, every
    <2>13. InHand(2)' = hand  BY <1>5, <1>8 DEF InHand, t, hand
    <2> QED  BY <2>12, <2>13, <1>8 DEF Progress, t
  <1>11. \A f \in DOMAIN stack' : Progress(f)'
    <2> SUFFICES ASSUME NEW f \in 1..n+1  PROVE Progress(f)'
      BY <1>8 DEF t
    <2>1. CASE f = 1
      <3>1. t[1].is # "run"  BY <1>5, <1>8
      <3> QED  BY <2>1, <3>1 DEF Progress, t
    <2>2. CASE f = 2  BY <2>2, <1>10
    <2>3. CASE f # 1 /\ f # 2
      <3> DEFINE g == f - 1
      <3>1. g \in 1..n /\ t[f] = stack[g] /\ g >= 2  BY <2>3, <1>8
      <3>2. InHand(f)' = <<>>  BY <2>3 DEF InHand
      <3>3. InHand(g) = <<>>  BY <1>1, <1>2 DEF InHand
      <3> HIDE DEF g
      <3>4. Progress(g)  BY <3>1, <1>8 DEF Asked
      <3>5. SameLevel(stack'[f], stack[g])  BY <3>1 DEF SameLevel, t
      <3> QED  BY <3>2, <3>3, <3>4, <3>5, <1>3, ProgressKept
    <2> QED  BY <2>1, <2>2, <2>3
  <1>12. ASSUME NEW path, Live(path)  PROVE Live(path)'
    <2>1. PICK f \in 1..n : stack[f].is = "run" /\ stack[f].path = path  BY <1>12, <1>8 DEF Live
    <2> DEFINE g == f + 1
    <2>2. g \in 1..n+1 /\ g # 1 /\ g - 1 = f  BY <1>8
    <2>3. t[g].is = "run" /\ t[g].path = path
      <3>1. CASE g = 2
        <4>1. f = 1  BY <3>1, <2>2
        <4> QED  BY <3>1, <4>1, <2>1, <1>2, <1>4, <1>8
      <3>2. CASE g # 2
        <4> HIDE DEF g
        <4>1. t[g] = stack[f]  BY <3>2, <2>2, <1>8
        <4> QED  BY <4>1, <2>1
      <3> QED  BY <3>1, <3>2
    <2> HIDE DEF g
    <2> QED  BY <2>2, <2>3, <1>8 DEF Live, t
  <1>13. \A q \in asked' : q.path \in Seq(Nat) /\ Batched(q.path)'  BY <1>3, <1>12, BatchedKept
  <1> QED  BY <1>1, <1>3, <1>9, <1>11, <1>13 DEF Asked

\* The statement of the batch in hand is one that has not been asked.
LEMMA SelectKeyedAsks ==
  ASSUME IInv, Asked, SelectKeyed
  PROVE  Asked'
  <1>1. Frames /\ stack # <<>> /\ Top.is = "all" /\ Top.at = "statement" /\ Top.path # <<>>
    BY DEF IInv, SelectKeyed, In
  <1> DEFINE n == Len(stack)  L == stack[2]  t == stack'
             all == Chunks(Sorted(Due(L)), L.level.batch)
             taken == Len(all) - Len(L.chunks)
             path == Top.path
             q == [path |-> path, keys |-> Top.from.keys, batch |-> L.level.batch]
  <1>2. Top = stack[1] /\ Listed(stack) /\ n \in Nat /\ n > 2 /\ Working(L) /\ L.is = "run"
    <2>1. Top = stack[1] /\ Listed(stack) /\ n \in Nat /\ n > 0 /\ n # 1  BY <1>1, Tops
    <2>2. n > 1
      <3> HIDE DEF n
      <3> QED  BY <2>1
    <2>3. n > 2  BY <1>1, <2>1, <2>2, Tops
    <2> QED  BY <1>1, <2>1, <2>3, Tops
  <1>3. L.path = path
    <2>1. n > 1  BY <1>1, <1>2, Depths, Zenon
    <2>2. Over(Top, L)  BY <1>1, <1>2, <2>1, Tops
    <2> QED  BY <1>1, <2>2 DEF Over
  <1>4. asked' = asked \union {q} /\ again' = again \union (asked \intersect {q}) /\ UNCHANGED outcome
    BY DEF SelectKeyed, ended
  <1>5. PICK rows : t = <<[Top EXCEPT !.at = "load", !.rows = rows]>> \o Tail(stack)
    <2>1. PICK ids \in SetToSeqs(Matching(Top.from)) :
            Replace([Top EXCEPT !.at = "load", !.rows = [k \in DOMAIN ids |-> Model(ids[k])]])
      BY DEF SelectKeyed
    <2> QED  BY <2>1 DEF Replace
  <1> DEFINE F == [Top EXCEPT !.at = "load", !.rows = rows]
  <1>6. F.is = "all" /\ F.at = "load" /\ F.path = path /\ F.done = Top.done
    <2>1. Fetching(Top)
      <3>1. n > 1 /\ Top.is # "run"  BY <1>1, <1>2, Depths, Zenon
      <3> QED  BY <1>1, <1>2, <3>1, Tops
    <2>2. DOMAIN Top = {"is", "at", "path", "from", "rows", "loaders", "done"}  BY <2>1 DEF Fetching
    <2> QED  BY <1>1, <2>2
  <1>7. Listed(t) /\ Len(t) = n /\ t # <<>> /\ t[1] = F /\ \A i \in 2..n : t[i] = stack[i]
    <2>1. t = <<F>> \o Tail(stack)  BY <1>5
    <2> HIDE DEF t, F
    <2> QED  BY <1>1, <1>2, <2>1, TopReplaced
  <1>8. DOMAIN t = 1..n /\ DOMAIN stack = 1..n  BY <1>2, <1>7, ListFacts
  <1> HIDE DEF t, F, n
  <1>9. 1 \in 1..n /\ 2 \in 1..n /\ t[2] = L
    <2>1. 1 \in 1..n /\ 2 \in 1..n /\ 2 \in 2..n  BY <1>2
    <2> QED  BY <2>1, <1>7
  <1>10. \A f \in 1..n : t[f].is = stack[f].is /\ t[f].path = stack[f].path /\ t[f].done = stack[f].done
    <2>1. TAKE f \in 1..n
    <2>2. CASE f = 1  BY <2>2, <1>1, <1>2, <1>6, <1>7
    <2>3. CASE f # 1
      <3>1. f \in 2..n  BY <2>3, <1>2
      <3> QED  BY <3>1, <1>7
    <2> QED  BY <2>2, <2>3
  <1>11. /\ taken \in 0..Len(all) /\ L.chunks = SubSeq(all, taken + 1, Len(all))
         /\ taken > 0 /\ Top.from.keys = all[taken]
         /\ At(asked, path) = Statements(path, Due(L), L.level.batch, taken - 1)
    <2>1. Progress(2)  BY <1>8, <1>9 DEF Asked
    <2>2. InHand(2) = <<Top.from.keys>>  BY <1>1, <1>2, HandFacts DEF Waiting
    <2>3. Sent(L, <<Top.from.keys>>, asked)  BY <2>1, <2>2, <1>2 DEF Progress
    <2>4. <<Top.from.keys>> # <<>>  OBVIOUS
    <2> DEFINE hand == <<Top.from.keys>>
    <2>5. hand = <<all[taken]>> => Top.from.keys = all[taken]  OBVIOUS
    <2>6. Sent(L, hand, asked) /\ hand # <<>>  BY <2>3, <2>4
    <2> HIDE DEF hand
    <2>7. /\ taken \in 0..Len(all) /\ L.chunks = SubSeq(all, taken + 1, Len(all))
          /\ taken > 0 /\ hand = <<all[taken]>>
          /\ At(asked, L.path) = Statements(L.path, Due(L), L.level.batch, taken - 1)
      BY <2>6 DEF Sent
    <2> QED  BY <2>5, <2>7, <1>3
  <1>12. /\ L.level \in Levels /\ Due(L) \in SUBSET Id /\ Listed(all) /\ Len(all) \in Nat
         /\ Len(all) = Number(Due(L), L.level.batch)
         /\ \A c, d \in 1..Len(all) : c # d => all[c] # all[d]
    BY <1>2, BatchesOfLevel
  <1> DEFINE said(c) == [path |-> path, keys |-> all[c], batch |-> L.level.batch]
  <1>13. \A m : Statements(path, Due(L), L.level.batch, m) = {said(c) : c \in 1..m}  BY DEF Statements
  <1>14. q = said(taken)  BY <1>11
  <1>15. \A c, d \in 1..Len(all) : said(c) = said(d) => c = d
    <2>1. \A c : said(c).keys = all[c]  OBVIOUS
    <2> HIDE DEF said
    <2> QED  BY <2>1, <1>12
  <1>16. q.path = path  OBVIOUS
  <1> HIDE DEF q, said, all, taken
  <1>17. taken \in Nat /\ taken \in 1..taken /\ taken - 1 \in Nat /\ 1..taken = 1..(taken-1) \union {taken}
         /\ taken \notin 1..(taken-1) /\ 1..taken \subseteq 1..Len(all) /\ taken \in 1..Len(all)
    BY <1>11, <1>12
  <1>18. q \notin asked
    <2> SUFFICES ASSUME q \in asked  PROVE FALSE
      OBVIOUS
    <2>1. q \in At(asked, path)  BY <1>16 DEF At
    <2>2. PICK c \in 1..(taken-1) : q = said(c)  BY <2>1, <1>11, <1>13
    <2>3. c \in 1..Len(all) /\ c # taken  BY <2>2, <1>17
    <2> QED  BY <2>2, <2>3, <1>14, <1>15, <1>17
  <1>19. again' = {}  BY <1>4, <1>18 DEF Asked
  <1>20. At(asked', path) = Statements(path, Due(L), L.level.batch, taken)
    <2>1. At(asked', path) = At(asked, path) \union {q}  BY <1>4, <1>16 DEF At
    <2>2. {said(c) : c \in 1..taken} = {said(c) : c \in 1..(taken-1)} \union {said(taken)}  BY <1>17
    <2> QED  BY <2>1, <2>2, <1>11, <1>13, <1>14
  <1>21. \A p : p # path => At(asked', p) = At(asked, p)  BY <1>4, <1>16 DEF At
  <1>22. ASSUME NEW f \in 1..n, f > 2
         PROVE  Below(path, stack[f].path) /\ Through(path, stack[f].path) = stack[f].done /\ stack[f].path # path
    <2>1. Below(path, stack[f].path) /\ Through(path, stack[f].path) = stack[f].done
      BY <1>2, <1>3, <1>8, <1>9, <1>22 DEF Asked, Latest
    <2>2. Len(path) \in Nat
      <3>1. path \in Seq(Nat)  BY <1>1, <1>2, <1>8, <1>9, FrameFacts
      <3> QED  BY <3>1
    <2>3. stack[f].path # path  BY <2>1, <2>2 DEF Below
    <2> QED  BY <2>1, <2>3
  <1>23. \A f \in DOMAIN stack' : Progress(f)'
    <2> SUFFICES ASSUME NEW f \in 1..n  PROVE Progress(f)'
      BY <1>8 DEF t
    <2>1. CASE f = 1  BY <2>1, <1>6, <1>7 DEF Progress, t
    <2>2. InHand(f)' = <<>>  BY <1>6, <1>7 DEF InHand, t
    <2>3. CASE f = 2
      <3>1. Sent(L, <<>>, asked')  BY <1>3, <1>11, <1>20 DEF Sent, taken, all
      <3> QED  BY <2>2, <2>3, <3>1, <1>9 DEF Progress, t
    <2>4. CASE f > 2
      <3>1. f \in 2..n /\ f # 2  BY <2>4, <1>2
      <3>2. t[f] = stack[f]  BY <3>1, <1>7
      <3>3. Progress(f) /\ InHand(f) = <<>>  BY <3>1, <1>8 DEF Asked, InHand
      <3>4. At(asked', stack[f].path) = At(asked, stack[f].path)  BY <2>4, <1>21, <1>22
      <3> SUFFICES ASSUME stack[f].is = "run"  PROVE Sent(stack[f], <<>>, asked')
        BY <2>2, <3>2 DEF Progress, t
      <3>5. Sent(stack[f], <<>>, asked)  BY <3>3 DEF Progress
      <3> DEFINE G == stack[f]
      <3> HIDE DEF G
      <3>6. Sent(G, <<>>, asked) /\ At(asked', G.path) = At(asked, G.path)  BY <3>4, <3>5 DEF G
      <3>7. Sent(G, <<>>, asked')  BY <3>6 DEF Sent
      <3> QED  BY <3>7 DEF G
    <2>5. f = 1 \/ f = 2 \/ f > 2  BY <1>2
    <2> QED  BY <2>1, <2>3, <2>4, <2>5
  <1>24. Latest'
    <2>1. \A f, g \in 1..n : f < g /\ stack[f].is = "run" =>
            Below(stack[f].path, stack[g].path) /\ Through(stack[f].path, stack[g].path) = stack[g].done
      BY <1>8 DEF Asked, Latest
    <2>2. \A f, g \in 1..n : f < g /\ t[f].is = "run" =>
            Below(t[f].path, t[g].path) /\ Through(t[f].path, t[g].path) = t[g].done
      BY <2>1, <1>10
    <2> QED  BY <2>2, <1>8 DEF Latest, t
  <1>25. NoneLater'
    <2>1. ASSUME NEW s \in asked', NEW g \in 1..n, IsLevel(t[g]), Below(s.path, t[g].path)
          PROVE  Through(s.path, t[g].path) <= t[g].done
      <3>1. IsLevel(stack[g]) /\ Below(s.path, stack[g].path) /\ t[g].path = stack[g].path /\ t[g].done = stack[g].done
        BY <2>1, <1>10 DEF IsLevel
      <3>2. CASE s \in asked  BY <3>1, <3>2, <1>8 DEF Asked, NoneLater
      <3>3. CASE s = q
        <4>1. s.path = path  BY <3>3, <1>16
        <4>2. g # 1  BY <3>1, <1>1, <1>2 DEF IsLevel
        <4>3. g # 2
          <5>1. Len(path) \in Nat
            <6>1. path \in Seq(Nat)  BY <1>1, <1>2, <1>8, <1>9, FrameFacts
            <6> QED  BY <6>1
          <5>2. ~Below(path, path)  BY <5>1 DEF Below
          <5> QED  BY <5>2, <4>1, <3>1, <1>3
        <4>4. g > 2  BY <4>2, <4>3, <1>2
        <4>5. Through(path, stack[g].path) = stack[g].done  BY <4>4, <1>22
        <4>6. stack[g].done \in Nat  BY <1>1, <1>8, FrameFacts
        <4> QED  BY <4>1, <4>5, <4>6, <3>1
      <3> QED  BY <3>2, <3>3, <1>4
    <2> QED  BY <2>1, <1>8 DEF NoneLater, t
  <1>26. ASSUME NEW p, Live(p)  PROVE Live(p)'
    <2>1. PICK f \in 1..n : stack[f].is = "run" /\ stack[f].path = p  BY <1>26, <1>8 DEF Live
    <2> QED  BY <2>1, <1>8, <1>10 DEF Live, t
  <1>27. ASSUME NEW s \in asked'  PROVE s.path \in Seq(Nat) /\ Batched(s.path)'
    <2>1. CASE s.path = path
      <3>1. path \in Seq(Nat)  BY <1>1, <1>2, <1>8, <1>9, FrameFacts
      <3> DEFINE p == s.path
      <3>2. p = path  BY <2>1
      <3>3. taken \in 0..Number(Due(L), L.level.batch)  BY <1>11, <1>12
      <3>4. At(asked', p) = Statements(p, Due(L), L.level.batch, taken)  BY <3>2, <1>20
      <3> HIDE DEF p
      <3>5. 2 \in DOMAIN t /\ t[2].is = "run" /\ t[2].path = p  BY <3>2, <1>2, <1>3, <1>8, <1>9
      <3>6. Live(p)'  BY <3>5 DEF Live, t
      <3> DEFINE keys == Due(L)  level == L.level
      <3>7. keys \in SUBSET Id /\ level \in Levels /\ taken \in 0..Number(keys, level.batch)
            /\ At(asked', p) = Statements(p, keys, level.batch, taken)
        BY <3>3, <3>4, <1>12
      <3> HIDE DEF keys, level
      <3>8. Batched(p)'  BY <3>6, <3>7 DEF Batched
      <3> QED  BY <2>1, <3>1, <3>8 DEF p
    <2>2. CASE s.path # path
      <3>1. s \in asked  BY <2>2, <1>4, <1>16
      <3> DEFINE p == s.path
      <3>2. p \in Seq(Nat) /\ Batched(p)  BY <3>1 DEF Asked
      <3>3. At(asked', p) = At(asked, p)  BY <2>2, <1>21
      <3>4. outcome' = outcome  BY <1>4
      <3> HIDE DEF p
      <3>5. Batched(p)'  BY <3>2, <3>3, <3>4, <1>26 DEF Batched
      <3> QED  BY <3>2, <3>5 DEF p
    <2> QED  BY <2>1, <2>2
  <1>28. outcome' = "running"  BY <1>1, <1>4 DEF Asked
  <1> QED  BY <1>19, <1>23, <1>24, <1>25, <1>27, <1>28 DEF Asked

-----------------------------------------------------------------------------
(* Each step keeps what has been asked.                                     *)

LEMMA AllFrame ==
  ASSUME Frames, stack # <<>>, Top.is = "all"
  PROVE  DOMAIN Top = {"is", "at", "path", "from", "rows", "loaders", "done"} /\ Top.done \in Nat
  <1>1. Top = stack[1] /\ Listed(stack) /\ Len(stack) \in Nat /\ Len(stack) > 0  BY Tops
  <1>2. 1 \in DOMAIN stack  BY <1>1, ListFacts
  <1>3. Root(Top) \/ Fetching(Top)
    <2>1. Len(stack) = 1 \/ Len(stack) > 1  BY Depths, Zenon
    <2>2. Top.is # "run"  OBVIOUS
    <2> QED  BY <1>1, <2>1, <2>2, Tops
  <1> QED  BY <1>1, <1>2, <1>3, FrameFacts DEF Root, Fetching

LEMMA RunHooksAsks ==
  ASSUME IInv, Asked, RunHooks
  PROVE  Asked'
  <1> DEFINE F == [Top EXCEPT !.at = "statement"]
  <1>1. Frames /\ stack # <<>> /\ Top.is = "all" /\ Top.at = "hooks"  BY DEF IInv, RunHooks, In
  <1>2. DOMAIN Top = {"is", "at", "path", "from", "rows", "loaders", "done"} /\ Top.done \in Nat
    BY <1>1, AllFrame
  <1>3. F.is = "all" /\ F.at = "statement" /\ F.path = Top.path /\ F.from = Top.from /\ F.done = Top.done
    BY <1>1, <1>2
  <1>4. stack' = <<F>> \o Tail(stack) /\ UNCHANGED <<asked, again, outcome>>
    BY DEF RunHooks, Replace, history, ended
  <1> HIDE DEF F
  <1>5. SameLevel(F, Top) /\ Waiting(F) /\ Waiting(Top) /\ F.done \in Nat /\ Top.done <= F.done
    BY <1>1, <1>2, <1>3 DEF SameLevel, Waiting
  <1> QED  BY <1>1, <1>3, <1>4, <1>5, ReplacedAsks

LEMMA SelectAsks ==
  ASSUME IInv, Asked, Select
  PROVE  Asked'
  <1>1. Frames /\ stack # <<>> /\ Top.is = "all" /\ Top.path = <<>>  BY DEF IInv, Select, In
  <1>2. DOMAIN Top = {"is", "at", "path", "from", "rows", "loaders", "done"} /\ Top.done \in Nat
    BY <1>1, AllFrame
  <1>3. Len(stack) = 1  BY <1>1, Tops
  <1>4. PICK rows : stack' = <<[Top EXCEPT !.at = "load", !.rows = rows]>> \o Tail(stack)
    BY DEF Select, Replace
  <1> DEFINE F == [Top EXCEPT !.at = "load", !.rows = rows]
  <1>5. F.is = "all" /\ F.path = Top.path /\ F.done = Top.done  BY <1>1, <1>2
  <1>6. stack' = <<F>> \o Tail(stack) /\ UNCHANGED <<asked, again, outcome>>
    BY <1>4 DEF Select, history, ended
  <1> HIDE DEF F
  <1>7. SameLevel(F, Top) /\ F.done \in Nat /\ Top.done <= F.done  BY <1>1, <1>2, <1>5 DEF SameLevel
  <1>8. ~(Len(stack) > 1)  BY <1>1, <1>3, Depths, Zenon
  <1> QED  BY <1>1, <1>6, <1>7, <1>8, ReplacedAsks

LEMMA EnterAsks ==
  ASSUME Frames, Asked, stack # <<>>, UNCHANGED <<asked, again, outcome>>, IsLevel(Top), ~Waiting(Top),
         NEW G, SameLevel(G, Top), ~Waiting(G), G.done = Top.done + 1, Top.done \in Nat,
         NEW path \in Seq(Nat), path # <<>>, NEW level \in Levels, NEW rows, Rows(rows), Enter(G, path, level, rows)
  PROVE  path = Append(Top.path, G.done) => Asked'
  <1> DEFINE keys == Distinct(Keys(rows, level.rel.parent))
             F == Fresh(path, level, rows)
  <1>1. F.rows = rows /\ F.path = path /\ F.level = level /\ F.done = 0 /\ F.is = "run" /\ Working(F)
    BY NewRun
  <1>2. Due(F) = ToSet(Keys(rows, level.rel.parent)) \ {Null}
    <2> HIDE DEF F
    <2> QED  BY <1>1 DEF Due
  <1>3. F.chunks = Chunks(Sorted(Due(F)), F.level.batch)
    <2>1. F.chunks = Chunks(keys, level.batch)  BY DEF Fresh, Run
    <2>2. keys = Sorted(Due(F))  BY <1>2 DEF Distinct
    <2> HIDE DEF F, keys
    <2> QED  BY <1>1, <2>1, <2>2
  <1>4. keys # <<>> => stack' = <<F, G>> \o Tail(stack)  BY DEF Enter, Fresh
  <1>5. keys = <<>> => stack' = <<G>> \o Tail(stack)  BY DEF Enter
  <1> HIDE DEF F, keys
  <1>6. Due(F) \in SUBSET Id  BY <1>1, BatchesOfLevel
  <1> SUFFICES ASSUME path = Append(Top.path, G.done)  PROVE Asked'
    OBVIOUS
  <1>7. CASE keys # <<>>
    <2>1. F.path = Append(Top.path, G.done)  BY <1>1
    <2>2. F.level \in Levels  BY <1>1
    <2>3. stack' = <<F, G>> \o Tail(stack)  BY <1>4, <1>7
    <2> QED  BY <1>1, <1>3, <1>6, <2>1, <2>2, <2>3, PushedAsks
  <1>8. CASE keys = <<>>
    <2>1. stack' = <<G>> \o Tail(stack)  BY <1>5, <1>8
    <2>2. G.done \in Nat /\ Top.done <= G.done  OBVIOUS
    <2> QED  BY <2>1, <2>2, ReplacedAsks
  <1> QED  BY <1>7, <1>8

LEMMA RunLoaderAsks ==
  ASSUME IInv, Asked, RunLoader
  PROVE  Asked'
  <1>1. Frames /\ stack # <<>> /\ Top.is = "all" /\ Top.at = "load" /\ Top.done < Len(Top.loaders)
    BY DEF IInv, RunLoader, In
  <1>2. Top = stack[1] /\ Len(stack) \in Nat /\ Len(stack) > 0  BY <1>1, Tops
  <1>3. Root(Top)
    <2>1. Len(<<>>) = 0  OBVIOUS
    <2>2. ~Fetching(Top)  BY <1>1, <2>1 DEF Fetching
    <2>3. ~(Len(stack) > 1)  BY <1>1, <1>2, <2>2, Tops
    <2>4. Len(stack) = 1  BY <1>1, <2>3, Depths, Zenon
    <2> QED  BY <1>1, <1>2, <2>4, Tops
  <1>4. DOMAIN Top = {"is", "at", "path", "from", "rows", "loaders", "done"} /\ Top.done \in Nat  BY <1>1, AllFrame
  <1>5. Top.loaders \in Seq(Levels) /\ Top.path = <<>> /\ Rows(Top.rows)  BY <1>3 DEF Root
  <1> DEFINE n == Top.done + 1
             G == [Top EXCEPT !.done = n]
             path == Append(Top.path, n)
             level == Top.loaders[n]
             rows == Top.rows
  <1>6. Enter(G, path, level, rows) /\ UNCHANGED <<asked, again, outcome>>  BY DEF RunLoader, history, ended
  <1>7. n \in 1..Len(Top.loaders) /\ n \in Nat  BY <1>1, <1>4, <1>5
  <1>8. level \in Levels /\ path \in Seq(Nat) /\ path # <<>> /\ Rows(rows)  BY <1>5, <1>7
  <1>9. G.is = "all" /\ G.at = "load" /\ G.path = Top.path /\ G.done = n
    <2> HIDE DEF n
    <2> QED  BY <1>1, <1>4
  <1>10. SameLevel(G, Top) /\ ~Waiting(G) /\ ~Waiting(Top) /\ IsLevel(Top) /\ G.done = Top.done + 1
    <2> HIDE DEF G
    <2> QED  BY <1>1, <1>5, <1>9 DEF SameLevel, Waiting, IsLevel
  <1>11. path = Append(Top.path, G.done)  BY <1>9
  <1> HIDE DEF G, path, level, rows, n
  <1> QED  BY <1>1, <1>4, <1>6, <1>8, <1>10, <1>11, EnterAsks

LEMMA LoadDeeperAsks ==
  ASSUME IInv, Asked, LoadDeeper
  PROVE  Asked'
  <1>1. Frames /\ stack # <<>> /\ Top.is = "run" /\ Top.done < Len(Top.level.then)  BY DEF IInv, LoadDeeper, In
  <1>2. Top = stack[1] /\ Working(Top)
    <2>1. Top = stack[1]  BY <1>1, Tops
    <2> QED  BY <1>1, <2>1, Tops
  <1>3. Top.level \in Levels /\ Top.level.then \in Seq(Levels) /\ Top.done \in 0..Len(Top.level.then) /\ Top.path \in Seq(Nat)
    BY <1>2, LevelsAssumption DEF Working
  <1>4. DOMAIN Top = {"is", "at", "path", "level", "rows", "chunks", "children", "done"} /\ Rows(Top.children)
    BY <1>2 DEF Working
  <1> DEFINE n == Top.done + 1
             G == [Top EXCEPT !.done = n]
             path == Append(Top.path, n)
             level == Top.level.then[n]
             rows == Top.children
  <1>5. Enter(G, path, level, rows) /\ UNCHANGED <<asked, again, outcome>>
    <2>1. Enter([Top EXCEPT !.done = Advance(@)], Append(Top.path, n), Top.level.then[n], Top.children)
      BY DEF LoadDeeper
    <2> QED  BY <2>1 DEF Advance, LoadDeeper, history, ended
  <1>6. n \in 1..Len(Top.level.then) /\ n \in Nat /\ Top.done \in Nat  BY <1>1, <1>3
  <1>7. level \in Levels /\ path \in Seq(Nat) /\ path # <<>> /\ Rows(rows)
    <2>1. path \in Seq(Nat) /\ path # <<>>  BY <1>3, <1>6, AppendProperties, SMTT(30)
    <2> QED  BY <1>3, <1>4, <1>6, <2>1
  <1>8. G.is = "run" /\ G.path = Top.path /\ G.level = Top.level /\ G.rows = Top.rows /\ G.chunks = Top.chunks /\ G.done = n
    <2> HIDE DEF n
    <2> QED  BY <1>1, <1>4
  <1>9. SameLevel(G, Top) /\ ~Waiting(G) /\ ~Waiting(Top) /\ IsLevel(Top) /\ G.done = Top.done + 1
    <2> HIDE DEF G
    <2> QED  BY <1>1, <1>8 DEF SameLevel, Waiting, IsLevel
  <1>10. path = Append(Top.path, G.done)  BY <1>8
  <1> HIDE DEF G, path, level, rows, n
  <1> QED  BY <1>1, <1>5, <1>6, <1>7, <1>9, <1>10, EnterAsks

LEMMA AttachChildrenAsks ==
  ASSUME IInv, Asked, AttachChildren
  PROVE  Asked'
  <1>1. Frames /\ stack # <<>> /\ Top.is = "run" /\ Top.chunks = <<>>  BY DEF IInv, AttachChildren, In
  <1>2. Top = stack[1] /\ Len(stack) > 1
    <2>1. Top = stack[1]  BY <1>1, Tops
    <2> QED  BY <1>1, <2>1, Tops
  <1> DEFINE parents == Attached(Top.rows, Top.children, Top.level.rel)
             B == stack[2]
             G == IF B.is = "all" THEN [B EXCEPT !.rows = parents] ELSE [B EXCEPT !.children = parents]
  <1>3. stack' = <<G>> \o SubSeq(stack, 3, Len(stack)) /\ UNCHANGED <<asked, again, outcome>>
    BY DEF AttachChildren, history, ended
  <1> HIDE DEF parents
  <1>4. Complete(stack[1].path)  BY <1>1, <1>2, LevelComplete
  <1>5. Root(B) \/ Working(B)
    <2>1. Len(stack) = 2 \/ Len(stack) > 2  BY <1>1, <1>2, Depths, Zenon
    <2> QED  BY <1>1, <2>1, Tops
  <1>6. SameLevel(G, B) /\ G.done = B.done
    <2>1. CASE Root(B)
      <3>1. DOMAIN B = {"is", "at", "path", "from", "rows", "loaders", "done"} /\ B.is = "all"  BY <2>1 DEF Root
      <3>2. G = [B EXCEPT !.rows = parents]  BY <3>1
      <3>3. G.is = "all" /\ G.path = B.path /\ G.done = B.done  BY <3>1, <3>2
      <3> QED  BY <3>1, <3>3 DEF SameLevel
    <2>2. CASE Working(B)
      <3>1. DOMAIN B = {"is", "at", "path", "level", "rows", "chunks", "children", "done"} /\ B.is = "run"
        BY <2>2 DEF Working
      <3>2. G = [B EXCEPT !.children = parents]  BY <3>1
      <3>3. G.is = B.is /\ G.path = B.path /\ G.done = B.done /\ G.level = B.level /\ G.rows = B.rows /\ G.chunks = B.chunks
        BY <3>1, <3>2
      <3> QED  BY <3>1, <3>3 DEF SameLevel
    <2> QED  BY <1>5, <2>1, <2>2
  <1>7. ~Waiting(stack[1])  BY <1>1, <1>2 DEF Waiting
  <1> HIDE DEF G
  <1> QED  BY <1>1, <1>2, <1>3, <1>4, <1>6, <1>7, PoppedAsks DEF B

LEMMA AfterSelectAsks ==
  ASSUME IInv, Asked, AfterSelect
  PROVE  Asked'
  <1>1. Frames /\ stack # <<>> /\ Top.is = "all" /\ Top.at = "load"  BY DEF IInv, AfterSelect, In
  <1>2. Top = stack[1] /\ Listed(stack) /\ Len(stack) \in Nat  BY <1>1, Tops
  <1>3. UNCHANGED <<asked, again>>  BY DEF AfterSelect, history
  <1>4. CASE Len(stack) = 1
    <2>1. stack' = <<>>  BY <1>4 DEF AfterSelect
    <2>2. ASSUME NEW path  PROVE ~Live(path)
      <3>1. DOMAIN stack = 1..1  BY <1>2, <1>4, ListFacts
      <3>2. \A f \in DOMAIN stack : f = 1  BY <3>1
      <3>3. stack[1].is # "run"  BY <1>1, <1>2
      <3> QED  BY <3>2, <3>3 DEF Live
    <2> QED  BY <1>1, <1>3, <2>1, <2>2, EmptiedAsks
  <1>5. CASE Len(stack) > 1
    <2>1. Len(stack) # 1 /\ Len(stack) > 2
      <3>1. Len(stack) > 2  BY <1>1, <1>2, <1>5, Tops
      <3> QED  BY <3>1, <1>1, <1>5, Depths, Zenon
    <2> DEFINE B == stack[2]  rows == Hooked(Top.rows)
               G == [B EXCEPT !.children = Extend(@, rows)]
    <2>2. stack' = <<G>> \o SubSeq(stack, 3, Len(stack)) /\ UNCHANGED outcome  BY <2>1 DEF AfterSelect, ended
    <2>3. Working(B)  BY <1>1, <2>1, Tops
    <2> HIDE DEF rows
    <2>4. DOMAIN B = {"is", "at", "path", "level", "rows", "chunks", "children", "done"} /\ B.is = "run"
      BY <2>3 DEF Working
    <2>5. G.is = B.is /\ G.path = B.path /\ G.done = B.done /\ G.level = B.level /\ G.rows = B.rows /\ G.chunks = B.chunks
      BY <2>4
    <2> HIDE DEF G
    <2>6. SameLevel(G, B) /\ G.done = B.done  BY <2>5 DEF SameLevel
    <2>7. ~Waiting(stack[1]) /\ stack[1].is # "run"  BY <1>1, <1>2 DEF Waiting
    <2> QED  BY <1>1, <1>3, <1>5, <2>2, <2>6, <2>7, PoppedAsks DEF B
  <1>6. Len(stack) = 1 \/ Len(stack) > 1  BY <1>1, Depths, Zenon
  <1> QED  BY <1>4, <1>5, <1>6

LEMMA OthersAsk ==
  ASSUME IInv, Asked, Fail \/ WriteElsewhere \/ Returned \/ UNCHANGED vars
  PROVE  Asked'
  <1>1. CASE Fail
    <2>1. stack # <<>> /\ stack' = <<>> /\ outcome' = "error" /\ UNCHANGED <<asked, again>>
      BY <1>1 DEF Fail, history
    <2> QED  BY <2>1, EmptiedAsks
  <1>2. CASE WriteElsewhere \/ Returned \/ UNCHANGED vars
    <2>1. UNCHANGED <<stack, asked, again, outcome>>
      BY <1>2 DEF WriteElsewhere, Returned, vars, history, ended
    <2>2. \A path : Batched(path) => Batched(path)'  BY <2>1 DEF Batched, Live
    <2>3. Latest' /\ NoneLater'  BY <2>1 DEF Asked, Latest, NoneLater
    <2>4. \A f : Progress(f) => Progress(f)'  BY <2>1 DEF Progress, InHand
    <2> QED  BY <2>1, <2>2, <2>3, <2>4 DEF Asked
  <1> QED  BY <1>1, <1>2

LEMMA StartsAsked ==
  ASSUME Init
  PROVE  Asked
  <1> DEFINE F == All(<<>>, query.rows, query.loaders)
  <1>1. stack = <<F>> /\ asked = {} /\ again = {} /\ outcome = "running"  BY DEF Init
  <1>2. F.is = "all"  BY DEF All
  <1> HIDE DEF F
  <1>3. Listed(stack) /\ Len(stack) = 1 /\ stack[1] = F  BY <1>1, One
  <1>4. DOMAIN stack = 1..1  BY <1>3, ListFacts
  <1>5. \A f \in DOMAIN stack : f = 1 /\ stack[f].is # "run"  BY <1>2, <1>3, <1>4
  <1>6. Latest /\ NoneLater  BY <1>1, <1>5 DEF Latest, NoneLater
  <1>7. \A f \in DOMAIN stack : Progress(f)  BY <1>5 DEF Progress
  <1> QED  BY <1>1, <1>6, <1>7 DEF Asked

LEMMA AskedInvariance ==
  ASSUME IInv, Asked, [Next]_vars
  PROVE  Asked'
  <1>1. CASE RunHooks  BY <1>1, RunHooksAsks
  <1>2. CASE Select  BY <1>2, SelectAsks
  <1>3. CASE SelectKeyed  BY <1>3, SelectKeyedAsks
  <1>4. CASE RunLoader  BY <1>4, RunLoaderAsks
  <1>5. CASE AfterSelect  BY <1>5, AfterSelectAsks
  <1>6. CASE RunBatch  BY <1>6, RunBatchAsks
  <1>7. CASE LoadDeeper  BY <1>7, LoadDeeperAsks
  <1>8. CASE AttachChildren  BY <1>8, AttachChildrenAsks
  <1>9. CASE Fail \/ WriteElsewhere \/ Returned \/ UNCHANGED vars  BY <1>9, OthersAsk
  <1> QED  BY <1>1, <1>2, <1>3, <1>4, <1>5, <1>6, <1>7, <1>8, <1>9 DEF Next, Step

\* Statements that share no key, and are as few as a batch of n keys allows.
Apart(all, n) ==
    /\ \A q \in all : q.batch = n /\ Len(q.keys) <= n
    /\ \A q, r \in all : q # r => ToSet(q.keys) \intersect ToSet(r.keys) = {}
Fewest(all, n) ==
    Cardinality(all) = (Cardinality(UNION {ToSet(q.keys) : q \in all}) + n - 1) \div n

LEMMA StatementsCounted ==
  ASSUME NEW path, NEW keys \in SUBSET Id, NEW n \in Nat \ {0}, NEW m \in 0..Number(keys, n)
  PROVE  LET all == Statements(path, keys, n, m)
         IN  Apart(all, n) /\ (m = Number(keys, n) => Fewest(all, n))
  <1> DEFINE chunks == Chunks(Sorted(keys), n)
             said(c) == [path |-> path, keys |-> chunks[c], batch |-> n]
             all == Statements(path, keys, n, m)
  <1>1. /\ Len(chunks) \in Nat
        /\ \A c \in 1..Len(chunks) : Len(chunks[c]) \in 1..n
        /\ \A c, d \in 1..Len(chunks) :
             c # d => chunks[c] # chunks[d] /\ ToSet(chunks[c]) \intersect ToSet(chunks[d]) = {}
        /\ UNION {ToSet(chunks[c]) : c \in 1..Len(chunks)} = keys
        /\ IsFiniteSet(keys) /\ Len(chunks) = (Cardinality(keys) + n - 1) \div n
    BY SortedDue
  <1>2. Number(keys, n) = Len(chunks)  BY DEF Number
  <1>3. all = {said(c) : c \in 1..m}  BY DEF Statements
  <1>4. \A c : said(c).keys = chunks[c] /\ said(c).batch = n  OBVIOUS
  <1> HIDE DEF chunks, said, all
  <1>5. m \in Nat /\ \A c \in 1..m : c \in 1..Len(chunks)  BY <1>1, <1>2
  <1>6. \A q \in all : \E c \in 1..m : q = said(c)  BY <1>3
  <1>7. ASSUME NEW q \in all  PROVE q.batch = n /\ Len(q.keys) <= n
    <2>1. PICK c \in 1..m : q = said(c)  BY <1>6
    <2>2. Len(chunks[c]) \in 1..n  BY <1>1, <1>5
    <2> DEFINE k == Len(chunks[c])
    <2> HIDE DEF k
    <2>3. k <= n  BY <2>2 DEF k
    <2> QED  BY <2>1, <2>3, <1>4 DEF k
  <1>8. ASSUME NEW q \in all, NEW r \in all, q # r
        PROVE  ToSet(q.keys) \intersect ToSet(r.keys) = {}
    <2>1. PICK c \in 1..m : q = said(c)  BY <1>6
    <2>2. PICK d \in 1..m : r = said(d)  BY <1>6
    <2>3. c # d  BY <1>8, <2>1, <2>2
    <2> QED  BY <1>1, <1>4, <1>5, <2>1, <2>2, <2>3
  <1>9. ASSUME m = Number(keys, n)
        PROVE  Cardinality(all) = (Cardinality(UNION {ToSet(q.keys) : q \in all}) + n - 1) \div n
    <2> DEFINE f == [c \in 1..m |-> said(c)]
    <2>1. f \in Injection(1..m, all)
      <3>1. f \in [1..m -> all]  BY <1>3
      <3>2. ASSUME NEW c \in 1..m, NEW d \in 1..m, f[c] = f[d]  PROVE c = d
        <4>1. said(c) = said(d)  BY <3>2
        <4>2. chunks[c] = chunks[d]  BY <4>1, <1>4
        <4> QED  BY <4>2, <1>1, <1>5
      <3> QED  BY <3>1, <3>2 DEF Injection, IsInjective
    <2>2. f \in Surjection(1..m, all)
      <3>1. f \in [1..m -> all]  BY <1>3
      <3>2. \A q \in all : \E c \in 1..m : f[c] = q  BY <1>6
      <3> QED  BY <3>1, <3>2 DEF Surjection
    <2> HIDE DEF f
    <2>3. ExistsBijection(1..m, all)  BY <2>1, <2>2 DEF ExistsBijection, Bijection
    <2>4. IsFiniteSet(1..m) /\ Cardinality(1..m) = m
      <3>1. 1 \in Int /\ m \in Int  BY <1>5
      <3>2. IsFiniteSet(1..m) /\ Cardinality(1..m) = IF 1 > m THEN 0 ELSE m-1+1  BY <3>1, FS_Interval
      <3> QED  BY <1>5, <3>2
    <2>5. Cardinality(all) = m  BY <2>3, <2>4, FS_Bijection
    <2>6. UNION {ToSet(q.keys) : q \in all} = keys
      <3>1. m = Len(chunks)  BY <1>2, <1>9
      <3>2. \A q \in all : \E c \in 1..Len(chunks) : ToSet(q.keys) = ToSet(chunks[c])  BY <1>4, <1>5, <1>6
      <3>3. \A c \in 1..Len(chunks) : \E q \in all : ToSet(q.keys) = ToSet(chunks[c])  BY <1>3, <1>4, <3>1
      <3> DEFINE A == {ToSet(q.keys) : q \in all}
                 B == {ToSet(chunks[c]) : c \in 1..Len(chunks)}
      <3>4. A = B  BY <3>2, <3>3
      <3>5. keys = UNION B  BY <1>1
      <3> HIDE DEF A, B
      <3>6. UNION A = keys  BY <3>4, <3>5
      <3> QED  BY <3>6 DEF A
    <2> QED  BY <1>1, <1>2, <1>9, <2>5, <2>6
  <1> QED  BY <1>7, <1>8, <1>9 DEF all, Apart, Fewest

\* A level asks for each of its keys in one statement, and only once, in as few
\* statements as its batch size allows, whatever the levels above it found
\* (ThenLoad::run, distinct; the decision "One batched query per level").
THEOREM LevelsAskOnce == Spec => []FewestQueries
  <1>1. Init => IInv /\ Asked  BY StartsRight, StartsAsked
  <1>2. IInv /\ Asked /\ [Next]_vars => IInv' /\ Asked'  BY Invariance, AskedInvariance
  <1>3. IInv /\ Asked => FewestQueries
    <2> SUFFICES ASSUME IInv, Asked  PROVE FewestQueries
      OBVIOUS
    <2>1. ASSUME NEW p \in asked
          PROVE  \E keys \in SUBSET Id, n \in Nat \ {0} : \E m \in 0..Number(keys, n) :
                   /\ AskedAt(p.path) = Statements(p.path, keys, n, m)
                   /\ m = Number(keys, n) \/ outcome = "error" \/ Live(p.path)
      <3>1. Batched(p.path)  BY DEF Asked
      <3>2. PICK keys \in SUBSET Id, l \in Levels : \E m \in 0..Number(keys, l.batch) :
              /\ At(asked, p.path) = Statements(p.path, keys, l.batch, m)
              /\ m = Number(keys, l.batch) \/ outcome = "error" \/ Live(p.path)
        BY <3>1 DEF Batched
      <3>3. l.batch \in Nat \ {0}  BY LevelsAssumption
      <3>4. AskedAt(p.path) = At(asked, p.path)  BY DEF AskedAt, At
      <3> QED  BY <3>2, <3>3, <3>4
    <2>2. ASSUME NEW p \in asked
          PROVE  /\ Len(p.keys) <= p.batch
                 /\ \A q \in asked : p # q /\ p.path = q.path => ToSet(p.keys) \intersect ToSet(q.keys) = {}
                 /\ stack = <<>> /\ outcome # "error" =>
                      Cardinality(AskedAt(p.path)) =
                        (Cardinality(UNION {ToSet(q.keys) : q \in AskedAt(p.path)}) + p.batch - 1) \div p.batch
      <3> DEFINE all == AskedAt(p.path)
      <3>1. PICK keys \in SUBSET Id, n \in Nat \ {0} : \E m \in 0..Number(keys, n) :
              /\ all = Statements(p.path, keys, n, m)
              /\ m = Number(keys, n) \/ outcome = "error" \/ Live(p.path)
        BY <2>1
      <3>2. PICK m \in 0..Number(keys, n) :
              /\ all = Statements(p.path, keys, n, m)
              /\ m = Number(keys, n) \/ outcome = "error" \/ Live(p.path)
        BY <3>1
      <3>3. p \in all /\ \A q \in asked : p.path = q.path => q \in all  BY DEF AskedAt
      <3> DEFINE path == p.path
      <3> HIDE DEF path
      <3>4. Apart(Statements(path, keys, n, m), n) /\ (m = Number(keys, n) => Fewest(Statements(path, keys, n, m), n))
        BY StatementsCounted
      <3>7. Apart(all, n) /\ (m = Number(keys, n) => Fewest(all, n))  BY <3>2, <3>4 DEF path
      <3> HIDE DEF all
      <3>5. p.batch = n /\ Len(p.keys) <= p.batch  BY <3>3, <3>7 DEF Apart
      <3>6. stack = <<>> => ~Live(p.path)  BY DEF Live
      <3> QED  BY <3>2, <3>3, <3>5, <3>6, <3>7 DEF all, Apart, Fewest
    <2>3. again = {}  BY DEF Asked
    <2> QED  BY <2>2, <2>3 DEF FewestQueries
  <1> QED  BY <1>1, <1>2, <1>3, PTL DEF Spec

-----------------------------------------------------------------------------
(* What is loaded: the join.                                                *)

\* The table, and what of it a level finds, as parameters: nobody writes meanwhile.
Cell(t, i, column) == IF column = "id" THEN i ELSE t[i]
Found(t, level, keys) == {i \in DOMAIN t : i \in level.keep /\ Cell(t, i, level.rel.child) \in keys}
ChildrenOf(t, m, level) == Found(t, level, {m[level.rel.parent]} \ {Null})

Ids(rows)       == {rows[k].id : k \in DOMAIN rows}
Different(rows) == \A i, j \in DOMAIN rows : rows[i].id = rows[j].id => i = j
AsIs(t, m)      == m.id \in DOMAIN t /\ m.ref = t[m.id]

\* A row carries what a level relates to it, and so do its children, all the way down:
\* there is a set of such pairs that is closed under going down.
Complies(t, m, level) ==
    LET own == Loaded(m, level.rel)
    IN  /\ Different(own)
        /\ IF level.rel.many THEN Ids(own) = ChildrenOf(t, m, level)
           ELSE Ids(own) \subseteq ChildrenOf(t, m, level) /\ (Ids(own) = {} <=> ChildrenOf(t, m, level) = {})
        /\ \A k \in DOMAIN own : own[k].ref = t[own[k].id]
Whole(t, pairs) ==
    \A p \in pairs :
      /\ Complies(t, p[1], p[2])
      /\ \A c \in ToSet(Loaded(p[1], p[2].rel)), k \in Lasts(p[2].then) : <<c, p[2].then[k]>> \in pairs
Fits(t, m, level) == \E pairs : <<m, level>> \in pairs /\ Whole(t, pairs)

\* The models a frame loads relations onto, and the levels it loads.
HandOf(F)   == IF F.is = "run" THEN F.children ELSE F.rows
LevelsOf(F) == IF F.is = "run" THEN F.level.then ELSE F.loaders
LastsTo(levels, n) == {k \in 1..n : \A j \in 1..n : levels[j].rel = levels[k].rel => j <= k}

\* They are different models, and carry what the first n levels load.
Filled(t, F, n) ==
    /\ Different(HandOf(F))
    /\ \A m \in ToSet(HandOf(F)) :
         AsIs(t, m) /\ \A k \in LastsTo(LevelsOf(F), n) : Fits(t, m, LevelsOf(F)[k])

\* The children of a level are those of its keys, but for the ones that a batch still
\* to come, or the one in hand, asks for.
Pending(F, hand) == hand \union UNION {ToSet(keys) : keys \in ToSet(F.chunks)}
Collected(t, F, hand) == Ids(F.children) = Found(t, F.level, Due(F) \ Pending(F, hand))

AtWork(t, F) ==
    /\ Filled(t, F, F.done)
    /\ F.is = "run" => Collected(t, F, {}) /\ (F.chunks # <<>> => F.done = 0)

\* A frame and the one that awaits it.
Awaits(t, F, G) ==
    IF F.is = "run"
    THEN /\ F.rows = HandOf(G) /\ G.done \in 1..Len(LevelsOf(G)) /\ F.level = LevelsOf(G)[G.done]
         /\ Filled(t, G, G.done - 1)
         /\ G.is = "run" => G.chunks = <<>> /\ Collected(t, G, {})
    ELSE /\ F.from.keep = G.level.keep /\ G.done = 0 /\ Filled(t, G, 0)
         /\ ToSet(F.from.keys) \subseteq Due(G) \ Pending(G, {})
         /\ Collected(t, G, ToSet(F.from.keys))
         /\ F.at = "load" => Ids(F.rows) = Found(t, G.level, ToSet(F.from.keys))

Answers(q, F) == F.from = q.rows /\ F.loaders = q.loaders /\ (F.at # "load" => F.done = 0)

Loading(t, q, s) ==
    s # <<>> =>
      /\ Answers(q, s[Len(s)]) /\ AtWork(t, s[1])
      /\ \A f \in 1..Len(s)-1 : Awaits(t, s[f], s[f+1])
Gives(t) ==
    outcome = "ok" =>
      \A m \in ToSet(result), k \in Lasts(query.loaders) : Fits(t, m, query.loaders[k])

JoinInv == writes = 0 /\ ParentsDiffer => Loading(table, query, stack) /\ Gives(table)
-----------------------------------------------------------------------------
LEMMA FitsUnfolds ==
  ASSUME NEW t, NEW m, NEW level, Fits(t, m, level)
  PROVE  /\ Complies(t, m, level)
         /\ \A c \in ToSet(Loaded(m, level.rel)), k \in Lasts(level.then) : Fits(t, c, level.then[k])
  <1>1. PICK pairs : <<m, level>> \in pairs /\ Whole(t, pairs)  BY DEF Fits
  <1> DEFINE p == <<m, level>>
  <1>2. p[1] = m /\ p[2] = level  OBVIOUS
  <1>3. /\ Complies(t, p[1], p[2])
        /\ \A c \in ToSet(Loaded(p[1], p[2].rel)), k \in Lasts(p[2].then) : <<c, p[2].then[k]>> \in pairs
    BY <1>1 DEF Whole
  <1> HIDE DEF p
  <1> QED  BY <1>1, <1>2, <1>3 DEF Fits

LEMMA FitsFolds ==
  ASSUME NEW t, NEW m, NEW level, Complies(t, m, level),
         \A c \in ToSet(Loaded(m, level.rel)), k \in Lasts(level.then) : Fits(t, c, level.then[k])
  PROVE  Fits(t, m, level)
  <1> DEFINE cs == ToSet(Loaded(m, level.rel))
             ks == Lasts(level.then)
             of(c, k) == CHOOSE pairs : <<c, level.then[k]>> \in pairs /\ Whole(t, pairs)
             below == UNION {of(c, k) : c \in cs, k \in ks}
             pairs == {<<m, level>>} \union below
             ws == {w \in {of(c, k) : c \in cs, k \in ks} : Whole(t, w)}
  <1>1. ASSUME NEW c \in cs, NEW k \in ks  PROVE <<c, level.then[k]>> \in of(c, k) /\ of(c, k) \in ws
    <2>1. \E x : <<c, level.then[k]>> \in x /\ Whole(t, x)  BY DEF Fits
    <2>2. <<c, level.then[k]>> \in of(c, k) /\ Whole(t, of(c, k))  BY <2>1
    <2> HIDE DEF of, cs, ks
    <2> QED  BY <2>2
  <1>7. \A w \in ws : Whole(t, w)  OBVIOUS
  <1>8. \A c \in cs, k \in ks : of(c, k) \in ws  BY <1>1
  <1> HIDE DEF of, ws
  <1>2. ASSUME NEW p \in below
        PROVE  /\ Complies(t, p[1], p[2])
               /\ \A c \in ToSet(Loaded(p[1], p[2].rel)), k \in Lasts(p[2].then) : <<c, p[2].then[k]>> \in pairs
    <2>1. PICK c \in cs, k \in ks : p \in of(c, k)  OBVIOUS
    <2>2. \A x \in of(c, k) : x \in pairs
      <3> DEFINE w == of(c, k)
      <3>1. w \in {of(d, j) : d \in cs, j \in ks}  OBVIOUS
      <3> HIDE DEF w
      <3>2. \A x \in w : x \in below  BY <3>1
      <3> QED  BY <3>2 DEF w
    <2>5. c \in cs /\ k \in ks  BY <2>1
    <2>3. of(c, k) \in ws  BY <1>8, <2>5
    <2>4. Whole(t, of(c, k))  BY <1>7, <2>3
    <2> HIDE DEF pairs
    <2> QED  BY <2>1, <2>2, <2>4 DEF Whole
  <1>3. \A c \in cs, k \in ks : <<c, level.then[k]>> \in pairs  BY <1>1
  <1> DEFINE r == <<m, level>>
  <1>4. r[1] = m /\ r[2] = level /\ r \in pairs  OBVIOUS
  <1>5. \A p \in pairs : p = r \/ p \in below  OBVIOUS
  <1> HIDE DEF pairs, r, below
  <1>6. Whole(t, pairs)  BY <1>2, <1>3, <1>4, <1>5 DEF Whole
  <1> QED  BY <1>4, <1>6 DEF Fits, r

\* What a level makes of a row is in the row's columns and the relation it loads.
LEMMA FitsAlike ==
  ASSUME NEW t, NEW m, NEW l, NEW level, level.rel \in Relation,
         l.id = m.id, l.ref = m.ref, Loaded(l, level.rel) = Loaded(m, level.rel), Fits(t, m, level)
  PROVE  Fits(t, l, level)
  <1>1. /\ Complies(t, m, level)
        /\ \A c \in ToSet(Loaded(m, level.rel)), k \in Lasts(level.then) : Fits(t, c, level.then[k])
    BY FitsUnfolds
  <1>2. level.rel.parent = "id" \/ level.rel.parent = "ref"  BY DEF Relation, Columns
  <1>3. l[level.rel.parent] = m[level.rel.parent]  BY <1>2
  <1>4. ChildrenOf(t, l, level) = ChildrenOf(t, m, level)  BY <1>3 DEF ChildrenOf
  <1>5. Complies(t, l, level)  BY <1>1, <1>4 DEF Complies
  <1> QED  BY <1>1, <1>5, FitsFolds

\* A row without a key is related to nothing, and nothing hangs under it.
LEMMA NullFits ==
  ASSUME NEW t, NEW m, Sound(m), NEW level, m[level.rel.parent] = Null
  PROVE  Fits(t, m, level)
  <1> DEFINE own == Loaded(m, level.rel)
  <1>1. ToSet(own) = {}
    <2>1. CASE level.rel \in DOMAIN m.rel
      <3>1. Paired(m, level.rel) /\ own = m.rel[level.rel]  BY <2>1 DEF Sound, Loaded
      <3> QED  BY <3>1 DEF Paired
    <2>2. CASE level.rel \notin DOMAIN m.rel
      <3>1. own = <<>> /\ DOMAIN <<>> = {}  BY <2>2 DEF Loaded
      <3> QED  BY <3>1 DEF ToSet
    <2> QED  BY <2>1, <2>2
  <1>2. DOMAIN own = {}  BY <1>1 DEF ToSet
  <1> HIDE DEF own
  <1>3. Different(own) /\ Ids(own) = {}  BY <1>2 DEF Different, Ids
  <1>4. ChildrenOf(t, m, level) = {}  BY DEF ChildrenOf, Found
  <1>5. Complies(t, m, level)  BY <1>2, <1>3, <1>4 DEF Complies, own
  <1> QED  BY <1>1, <1>5, FitsFolds DEF own

\* The last loads among n + 1 levels are the last among n, without those of the same
\* relation, and the level n + 1.
LEMMA LastsNext ==
  ASSUME NEW levels, NEW n \in Nat, NEW k \in LastsTo(levels, n + 1)
  PROVE  k = n + 1 \/ (k \in LastsTo(levels, n) /\ levels[k].rel # levels[n + 1].rel)
  <1>1. k \in 1..n+1 /\ \A j \in 1..n+1 : levels[j].rel = levels[k].rel => j <= k  BY DEF LastsTo
  <1>2. CASE k # n + 1
    <2>1. k \in 1..n /\ n + 1 \in 1..n+1 /\ ~(n + 1 <= k) /\ \A j \in 1..n : j \in 1..n+1  BY <1>1, <1>2
    <2> QED  BY <1>1, <2>1 DEF LastsTo
  <1> QED  BY <1>2

LEMMA LastsAll ==
  ASSUME NEW levels \in Seq(Levels)
  PROVE  Lasts(levels) = LastsTo(levels, Len(levels)) /\ LastsTo(levels, 0) = {}
         /\ Len(levels) \in Nat /\ \A k \in Lasts(levels) : levels[k] \in Levels /\ k \in 1..Len(levels)
  <1>1. DOMAIN levels = 1..Len(levels) /\ Len(levels) \in Nat /\ \A k \in 1..Len(levels) : levels[k] \in Levels
    OBVIOUS
  <1>2. 1..0 = {}  OBVIOUS
  <1>3. LastsTo(levels, 0) = {}  BY <1>2 DEF LastsTo
  <1> QED  BY <1>1, <1>3 DEF Lasts, LastsTo


-----------------------------------------------------------------------------
(* The stack, again: what each step does to what is being loaded.           *)

LEMMA LoadingReplaced ==
  ASSUME NEW t, NEW q, NEW s, Listed(s), s # <<>>, Loading(t, q, s), NEW F, AtWork(t, F),
         Len(s) = 1 => Answers(q, F), Len(s) > 1 => Awaits(t, F, s[2])
  PROVE  Loading(t, q, <<F>> \o Tail(s))
  <1> DEFINE r == <<F>> \o Tail(s)  n == Len(s)
  <1>1. n \in Nat /\ n > 0  BY ListFacts
  <1>2. Listed(r) /\ Len(r) = n /\ r # <<>> /\ r[1] = F /\ \A i \in 2..n : r[i] = s[i]  BY TopReplaced
  <1>3. Answers(q, s[n]) /\ \A f \in 1..n-1 : Awaits(t, s[f], s[f+1])  BY DEF Loading
  <1> HIDE DEF r
  <1>4. (n = 1 => Answers(q, F)) /\ (n > 1 => Awaits(t, F, s[2]))  OBVIOUS
  <1> HIDE DEF n
  <1>5. Answers(q, r[n])
    <2>1. CASE n = 1  BY <2>1, <1>2, <1>4
    <2>2. CASE n # 1
      <3>1. n \in 2..n  BY <2>2, <1>1
      <3> QED  BY <3>1, <1>2, <1>3
    <2> QED  BY <2>1, <2>2
  <1>6. ASSUME NEW f \in 1..n-1  PROVE Awaits(t, r[f], r[f+1])
    <2>1. f + 1 \in 2..n /\ r[f+1] = s[f+1]  BY <1>1, <1>2
    <2>2. CASE f = 1
      <3>1. n > 1 /\ r[f] = F /\ r[f+1] = s[2]  BY <2>1, <2>2, <1>1, <1>2
      <3> QED  BY <3>1, <1>4
    <2>3. CASE f # 1
      <3>1. r[f] = s[f]  BY <2>3, <1>1, <1>2
      <3> QED  BY <3>1, <2>1, <1>3
    <2> QED  BY <2>2, <2>3
  <1> QED  BY <1>2, <1>5, <1>6 DEF Loading, r

LEMMA LoadingPushed ==
  ASSUME NEW t, NEW q, NEW s, Listed(s), s # <<>>, Loading(t, q, s), NEW F, NEW G, AtWork(t, F), Awaits(t, F, G),
         Len(s) = 1 => Answers(q, G), Len(s) > 1 => Awaits(t, G, s[2])
  PROVE  Loading(t, q, <<F, G>> \o Tail(s))
  <1> DEFINE r == <<F, G>> \o Tail(s)  n == Len(s)
  <1>1. n \in Nat /\ n > 0  BY ListFacts
  <1>2. Listed(r) /\ Len(r) = n + 1 /\ r # <<>> /\ r[1] = F /\ r[2] = G /\ \A i \in 2..n : r[i+1] = s[i]  BY Pushed
  <1>3. Answers(q, s[n]) /\ \A f \in 1..n-1 : Awaits(t, s[f], s[f+1])  BY DEF Loading
  <1> HIDE DEF r
  <1>4. (n = 1 => Answers(q, G)) /\ (n > 1 => Awaits(t, G, s[2]))  OBVIOUS
  <1> HIDE DEF n
  <1>5. Answers(q, r[n+1])
    <2>1. CASE n = 1  BY <2>1, <1>2, <1>4
    <2>2. CASE n # 1
      <3>1. n \in 2..n  BY <2>2, <1>1
      <3> QED  BY <3>1, <1>2, <1>3
    <2> QED  BY <2>1, <2>2
  <1>6. ASSUME NEW f \in 1..n  PROVE Awaits(t, r[f], r[f+1])
    <2>1. CASE f = 1  BY <2>1, <1>2
    <2>2. CASE f = 2
      <3>1. n > 1 /\ 2 \in 2..n  BY <2>2, <1>1
      <3>2. r[f] = G /\ r[f+1] = s[2]  BY <3>1, <2>2, <1>2
      <3> QED  BY <3>1, <3>2, <1>4
    <2>3. CASE f > 2
      <3>1. f \in 2..n /\ f - 1 \in 2..n /\ (f - 1) + 1 = f /\ f - 1 \in 1..n-1  BY <2>3, <1>1
      <3>2. r[f] = s[f - 1] /\ r[f+1] = s[f]  BY <3>1, <1>2
      <3>3. Awaits(t, s[f - 1], s[(f - 1) + 1])  BY <3>1, <1>3
      <3> QED  BY <3>1, <3>2, <3>3
    <2> QED  BY <2>1, <2>2, <2>3, <1>1
  <1>7. Len(r) - 1 = n  BY <1>1, <1>2
  <1> QED  BY <1>2, <1>5, <1>6, <1>7 DEF Loading, r

LEMMA LoadingPopped ==
  ASSUME NEW t, NEW q, NEW s, Listed(s), Len(s) > 1, Loading(t, q, s), NEW G, AtWork(t, G),
         Len(s) = 2 => Answers(q, G), Len(s) > 2 => Awaits(t, G, s[3])
  PROVE  Loading(t, q, <<G>> \o SubSeq(s, 3, Len(s)))
  <1> DEFINE r == <<G>> \o SubSeq(s, 3, Len(s))  n == Len(s) - 1
  <1>1. Len(s) \in Nat /\ s # <<>>  BY ListFacts
  <1>2. n \in Nat /\ n > 0 /\ Len(s) = n + 1  BY <1>1
  <1>3. Listed(r) /\ Len(r) = n /\ r # <<>> /\ r[1] = G /\ \A i \in 2..Len(r) : r[i] = s[i+1]  BY Popped
  <1>4. Answers(q, s[n+1]) /\ \A f \in 1..n : Awaits(t, s[f], s[f+1])
    <2>1. Answers(q, s[Len(s)]) /\ \A f \in 1..Len(s)-1 : Awaits(t, s[f], s[f+1])  BY <1>1 DEF Loading
    <2> HIDE DEF n
    <2>2. Len(s) - 1 = n  BY DEF n
    <2> QED  BY <2>1, <2>2, <1>2
  <1> HIDE DEF r
  <1>5. (n = 1 => Answers(q, G)) /\ (n > 1 => Awaits(t, G, s[3]))
    <2> HIDE DEF n
    <2> QED  BY <1>2
  <1> HIDE DEF n
  <1>6. Answers(q, r[n])
    <2>1. CASE n = 1  BY <2>1, <1>3, <1>5
    <2>2. CASE n # 1
      <3>1. n \in 2..n  BY <2>2, <1>2
      <3> QED  BY <3>1, <1>3, <1>4
    <2> QED  BY <2>1, <2>2
  <1>7. ASSUME NEW f \in 1..n-1  PROVE Awaits(t, r[f], r[f+1])
    <2>1. f + 1 \in 2..n /\ f + 1 \in 1..n /\ r[f+1] = s[(f+1)+1]  BY <1>2, <1>3
    <2>2. CASE f = 1
      <3>1. n > 1 /\ r[f] = G /\ r[f+1] = s[3]
        <4>1. n > 1 /\ (f+1)+1 = 3  BY <2>1, <2>2, <1>2
        <4> QED  BY <4>1, <2>1, <2>2, <1>3
      <3> QED  BY <3>1, <1>5
    <2>3. CASE f # 1
      <3>1. f \in 2..Len(r)  BY <2>3, <1>2, <1>3
      <3>2. r[f] = s[f + 1]  BY <3>1, <1>3
      <3> QED  BY <3>2, <2>1, <1>4
    <2> QED  BY <2>2, <2>3
  <1> QED  BY <1>3, <1>6, <1>7 DEF Loading, r


-----------------------------------------------------------------------------
(* What steps do to the rows in hand.                                       *)

LEMMA NoRows ==
  Different(<<>>) /\ Ids(<<>>) = {} /\ ToSet(<<>>) = {}
  <1>1. DOMAIN <<>> = {}  OBVIOUS
  <1> QED  BY <1>1 DEF Different, Ids, ToSet

\* A row's columns are the table's.
LEMMA CellOf ==
  ASSUME NEW t, NEW m, AsIs(t, m), NEW column \in Columns
  PROVE  m[column] = Cell(t, m.id, column)
  BY DEF AsIs, Columns, Cell

LEMMA ModelAsIs ==
  ASSUME NEW i \in DOMAIN table
  PROVE  /\ Model(i).id = i /\ AsIs(table, Model(i))
         /\ \A column \in Columns : Model(i)[column] = Cell(table, i, column)
  <1>1. Model(i).id = i /\ Model(i).ref = table[i]  BY DEF Model
  <1>2. AsIs(table, Model(i))  BY <1>1 DEF AsIs
  <1>3. \A column \in Columns : Model(i)[column] = Cell(table, i, column)  BY <1>1, <1>2, CellOf
  <1> QED  BY <1>1, <1>2, <1>3

\* Decoding the rows with some ids.
LEMMA DecodedRows ==
  ASSUME NEW n \in Nat, NEW ids, \A k \in 1..n : ids[k] \in DOMAIN table, \A j, k \in 1..n : ids[j] = ids[k] => j = k
  PROVE  LET rows == [k \in 1..n |-> Model(ids[k])]
         IN  Different(rows) /\ Ids(rows) = {ids[k] : k \in 1..n} /\ \A m \in ToSet(rows) : AsIs(table, m)
  <1> DEFINE rows == [k \in 1..n |-> Model(ids[k])]
             row(k) == Model(ids[k])
  <1>1. \A k \in 1..n : row(k).id = ids[k] /\ AsIs(table, row(k))  BY ModelAsIs
  <1>2. rows = [k \in 1..n |-> row(k)]  OBVIOUS
  <1> HIDE DEF rows, row
  <1>3. DOMAIN rows = 1..n /\ \A k \in 1..n : rows[k] = row(k)  BY <1>2
  <1>4. Different(rows)  BY <1>1, <1>3 DEF Different
  <1>5. Ids(rows) = {ids[k] : k \in 1..n}  BY <1>1, <1>3 DEF Ids
  <1>6. \A m \in ToSet(rows) : AsIs(table, m)  BY <1>1, <1>3 DEF ToSet
  <1> QED  BY <1>4, <1>5, <1>6 DEF rows

LEMMA HookedAlike ==
  ASSUME NEW rows, Rows(rows)
  PROVE  LET after == Hooked(rows)
         IN  /\ DOMAIN after = DOMAIN rows /\ Ids(after) = Ids(rows) /\ (Different(rows) => Different(after))
             /\ \A m \in ToSet(after) : \E l \in ToSet(rows) : m.id = l.id /\ m.ref = l.ref /\ m.rel = l.rel
  <1> DEFINE after == Hooked(rows)
             hook(m) == [m EXCEPT !.seen = Append(@, DOMAIN m.rel)]
  <1>1. after = [i \in DOMAIN rows |-> hook(rows[i])]  BY DEF Hooked
  <1>2. ASSUME NEW l \in ToSet(rows)  PROVE hook(l).id = l.id /\ hook(l).ref = l.ref /\ hook(l).rel = l.rel
    <2>1. DOMAIN l = {"id", "ref", "rel", "seen"}  BY DEF Rows, Sound
    <2> QED  BY <2>1
  <1> HIDE DEF after, hook
  <1>3. DOMAIN after = DOMAIN rows /\ \A i \in DOMAIN rows : after[i] = hook(rows[i])  BY <1>1
  <1>4. \A i \in DOMAIN rows : rows[i] \in ToSet(rows)  BY DEF ToSet
  <1>5. \A i \in DOMAIN rows : after[i].id = rows[i].id  BY <1>2, <1>3, <1>4
  <1>6. Ids(after) = Ids(rows) /\ (Different(rows) => Different(after))  BY <1>3, <1>5 DEF Ids, Different
  <1>7. ASSUME NEW m \in ToSet(after)  PROVE \E l \in ToSet(rows) : m.id = l.id /\ m.ref = l.ref /\ m.rel = l.rel
    <2>1. PICK i \in DOMAIN rows : m = hook(rows[i])  BY <1>3 DEF ToSet
    <2> QED  BY <2>1, <1>2, <1>4
  <1> QED  BY <1>3, <1>6, <1>7 DEF after

LEMMA JoinedDifferent ==
  ASSUME NEW a, NEW b, Listed(a), Listed(b), Different(a), Different(b), Ids(a) \intersect Ids(b) = {}
  PROVE  Different(a \o b) /\ Ids(a \o b) = Ids(a) \union Ids(b)
  <1> DEFINE n == Len(a)  m == Len(b)  c == a \o b
  <1>1. n \in Nat /\ m \in Nat /\ DOMAIN a = 1..n /\ DOMAIN b = 1..m  BY ListFacts
  <1>2. /\ Listed(c) /\ Len(c) = n + m
        /\ \A i \in 1..n : c[i] = a[i]
        /\ \A i \in 1..m : c[n + i] = b[i]
    BY Joined
  <1> HIDE DEF n, m, c
  <1>3. DOMAIN c = 1..(n + m)  BY <1>2, ListFacts
  <1>4. ASSUME NEW i \in 1..(n + m)
        PROVE  \/ i \in 1..n /\ c[i] = a[i] /\ c[i].id \in Ids(a)
               \/ i - n \in 1..m /\ c[i] = b[i - n] /\ c[i].id \in Ids(b)
    <2>1. CASE i \in 1..n  BY <2>1, <1>1, <1>2 DEF Ids
    <2>2. CASE i \notin 1..n
      <3>1. i - n \in 1..m /\ n + (i - n) = i  BY <2>2, <1>1
      <3>2. c[i] = b[i - n]  BY <3>1, <1>2
      <3> QED  BY <3>1, <3>2, <1>1 DEF Ids
    <2> QED  BY <2>1, <2>2
  <1>5. Different(c)
    <2> SUFFICES ASSUME NEW i \in 1..(n + m), NEW j \in 1..(n + m), c[i].id = c[j].id  PROVE i = j
      BY <1>3 DEF Different
    <2>1. CASE i \in 1..n /\ j \in 1..n  BY <2>1, <1>1, <1>2 DEF Different
    <2>2. CASE i \notin 1..n /\ j \notin 1..n
      <3>1. i - n \in 1..m /\ c[i] = b[i - n] /\ j - n \in 1..m /\ c[j] = b[j - n]  BY <2>2, <1>4
      <3>2. i - n = j - n  BY <3>1, <1>1 DEF Different
      <3> QED  BY <3>2, <1>1
    <2>3. CASE i \in 1..n /\ j \notin 1..n
      <3>1. c[i].id \in Ids(a)  BY <2>3, <1>1, <1>2 DEF Ids
      <3>2. c[j].id \in Ids(b)  BY <2>3, <1>4
      <3> QED  BY <3>1, <3>2
    <2>4. CASE i \notin 1..n /\ j \in 1..n
      <3>1. c[j].id \in Ids(a)  BY <2>4, <1>1, <1>2 DEF Ids
      <3>2. c[i].id \in Ids(b)  BY <2>4, <1>4
      <3> QED  BY <3>1, <3>2
    <2> QED  BY <2>1, <2>2, <2>3, <2>4
  <1>6. Ids(c) = Ids(a) \union Ids(b)
    <2>1. \A x \in Ids(c) : x \in Ids(a) \union Ids(b)  BY <1>3, <1>4 DEF Ids
    <2>2. ASSUME NEW x \in Ids(a)  PROVE x \in Ids(c)
      <3>1. PICK i \in 1..n : x = a[i].id  BY <1>1 DEF Ids
      <3>2. i \in 1..(n + m) /\ c[i] = a[i]  BY <1>1, <1>2
      <3> QED  BY <3>1, <3>2, <1>3 DEF Ids
    <2>3. ASSUME NEW x \in Ids(b)  PROVE x \in Ids(c)
      <3>1. PICK i \in 1..m : x = b[i].id  BY <1>1 DEF Ids
      <3>2. n + i \in 1..(n + m) /\ c[n + i] = b[i]  BY <1>1, <1>2
      <3> QED  BY <3>1, <3>2, <1>3 DEF Ids
    <2> QED  BY <2>1, <2>2, <2>3
  <1> QED  BY <1>5, <1>6 DEF c

\* The children with a key: all of them, each once.
LEMMA WithAll ==
  ASSUME NEW children, Listed(children), Different(children), NEW key, NEW column
  PROVE  LET own == With(key, children, column)
         IN  /\ Listed(own) /\ Different(own)
             /\ ToSet(own) = {c \in ToSet(children) : c[column] = key}
  <1> DEFINE S == {i \in DOMAIN children : children[i][column] = key}
             places == Sorted(S)
             own == With(key, children, column)
  <1>1. Len(children) \in Nat /\ DOMAIN children = 1..Len(children)  BY ListFacts
  <1>2. S \in SUBSET Nat /\ IsFiniteSet(S)
    <2>1. S \in SUBSET (1..Len(children))  BY <1>1
    <2>2. IsFiniteSet(1..Len(children))  BY <1>1, FS_Interval
    <2> HIDE DEF S
    <2>3. IsFiniteSet(S)  BY <2>1, <2>2, FS_Subset
    <2>4. \A i \in 1..Len(children) : i \in Nat  BY <1>1
    <2> QED  BY <2>1, <2>3, <2>4
  <1>3. own = [n \in DOMAIN places |-> children[places[n]]]  BY DEF With
  <1>4. \A i : i \in S <=> i \in DOMAIN children /\ children[i][column] = key  OBVIOUS
  <1> HIDE DEF S, own
  <1>5. Listed(places) /\ ToSet(places) = S /\ \A i, j \in 1..Len(places) : places[i] = places[j] => i = j
    BY <1>2, SortedNumbers
  <1> HIDE DEF places
  <1>6. Len(places) \in Nat /\ DOMAIN places = 1..Len(places) /\ \A i \in 1..Len(places) : places[i] \in S  BY <1>5, ListFacts
  <1>7. DOMAIN own = 1..Len(places) /\ \A i \in 1..Len(places) : own[i] = children[places[i]]
    BY <1>3, <1>6
  <1>8. Different(own)
    <2> SUFFICES ASSUME NEW i \in 1..Len(places), NEW j \in 1..Len(places), own[i].id = own[j].id  PROVE i = j
      BY <1>7 DEF Different
    <2>1. places[i] \in DOMAIN children /\ places[j] \in DOMAIN children  BY <1>4, <1>6
    <2>2. children[places[i]].id = children[places[j]].id  BY <1>7
    <2>3. places[i] = places[j]  BY <2>1, <2>2 DEF Different
    <2> QED  BY <2>3, <1>5
  <1>9. Listed(own) /\ \A c \in ToSet(own) : c \in ToSet(children) /\ c[column] = key  BY WithKey DEF own
  <1>10. ASSUME NEW c \in ToSet(children), c[column] = key  PROVE c \in ToSet(own)
    <2>1. PICK i \in DOMAIN children : c = children[i]  BY DEF ToSet
    <2>2. i \in S  BY <2>1, <1>4, <1>10
    <2>3. PICK n \in 1..Len(places) : places[n] = i  BY <2>2, <1>5, <1>6 DEF ToSet
    <2> QED  BY <2>1, <2>3, <1>7 DEF ToSet
  <1> QED  BY <1>8, <1>9, <1>10 DEF own


LEMMA IdsOf ==
  ASSUME NEW rows
  PROVE  Ids(rows) = {m.id : m \in ToSet(rows)} /\ \A i \in DOMAIN rows : rows[i] \in ToSet(rows)
  BY DEF Ids, ToSet

\* What has been collected for a set of keys has the children of each of them.
LEMMA ChildrenFound ==
  ASSUME NEW t, NEW level \in Levels, NEW children, Listed(children), Different(children),
         Keyed(children, level.rel.child), \A c \in ToSet(children) : AsIs(t, c),
         NEW keys, Ids(children) = Found(t, level, keys),
         NEW m, m[level.rel.parent] \in keys \union {Null}
  PROVE  Ids(With(m[level.rel.parent], children, level.rel.child)) = ChildrenOf(t, m, level)
  <1> DEFINE key == m[level.rel.parent]  column == level.rel.child
             own == With(key, children, column)
  <1>1. column \in Columns  BY LevelsAssumption DEF Relation
  <1>2. Listed(own) /\ Different(own) /\ ToSet(own) = {c \in ToSet(children) : c[column] = key}  BY WithAll
  <1>3. \A c \in ToSet(children) : c[column] = Cell(t, c.id, column) /\ c[column] # Null
    BY <1>1, CellOf DEF Keyed
  <1>4. Ids(own) = {c.id : c \in ToSet(own)} /\ Ids(children) = {c.id : c \in ToSet(children)}  BY IdsOf
  <1>5. key \in keys \/ key = Null  OBVIOUS
  <1>6. ChildrenOf(t, m, level) = {i \in DOMAIN t : i \in level.keep /\ Cell(t, i, column) \in {key} \ {Null}}
    BY DEF ChildrenOf, Found
  <1>7. Ids(children) = {i \in DOMAIN t : i \in level.keep /\ Cell(t, i, column) \in keys}
    BY DEF Found
  <1> HIDE DEF own, key, column
  <1>8. ASSUME NEW i \in Ids(own)  PROVE i \in ChildrenOf(t, m, level)
    <2>1. PICK c \in ToSet(own) : i = c.id  BY <1>4
    <2>2. c \in ToSet(children) /\ c[column] = key  BY <2>1, <1>2
    <2>3. i \in Ids(children) /\ Cell(t, i, column) = key /\ key # Null  BY <2>1, <2>2, <1>3, <1>4
    <2> QED  BY <2>3, <1>6, <1>7
  <1>9. ASSUME NEW i \in ChildrenOf(t, m, level)  PROVE i \in Ids(own)
    <2>1. i \in DOMAIN t /\ i \in level.keep /\ Cell(t, i, column) = key /\ key # Null  BY <1>6
    <2>2. i \in Ids(children)  BY <2>1, <1>5, <1>7
    <2>3. PICK c \in ToSet(children) : i = c.id  BY <2>2, <1>4
    <2>4. c[column] = key  BY <2>1, <2>3, <1>3
    <2> QED  BY <2>3, <2>4, <1>2, <1>4
  <1> QED  BY <1>8, <1>9 DEF own, key, column

\* Attaching: the columns stay, other relations stay, and the level is as it should be.
LEMMA AttachedFits ==
  ASSUME NEW t, NEW level \in Levels, level.rel.many => level.rel.parent = "id",
         NEW parents, Rows(parents), Different(parents), \A m \in ToSet(parents) : AsIs(t, m),
         NEW children, Rows(children), Different(children), Keyed(children, level.rel.child),
         \A c \in ToSet(children) : AsIs(t, c) /\ \A k \in Lasts(level.then) : Fits(t, c, level.then[k]),
         NEW keys, Ids(children) = Found(t, level, keys),
         \A m \in ToSet(parents) : m[level.rel.parent] \in keys \union {Null}
  PROVE  LET after == Attached(parents, children, level.rel)
         IN  /\ Different(after) /\ Ids(after) = Ids(parents)
             /\ \A i \in DOMAIN parents : after[i].id = parents[i].id /\ after[i].ref = parents[i].ref
             /\ DOMAIN after = DOMAIN parents
             /\ \A m \in ToSet(after) :
                  /\ AsIs(t, m) /\ Fits(t, m, level)
                  /\ \E l \in ToSet(parents) :
                       m.id = l.id /\ m.ref = l.ref /\ \A r : r # level.rel => Loaded(m, r) = Loaded(l, r)
  <1> DEFINE rel == level.rel
             after == Attached(parents, children, rel)
             key(i) == parents[i][rel.parent]
             own == IF rel.many THEN AttachMany(parents, children, rel)
                    ELSE AttachOne(parents, children, rel)
             rels(i) == [r \in DOMAIN parents[i].rel \union {rel} |->
                           IF r = rel THEN own[i] ELSE parents[i].rel[r]]
             with(i) == With(key(i), children, rel.child)
             row(i) == [parents[i] EXCEPT !.rel = rels(i)]
  <1>1. Listed(parents) /\ Len(parents) \in Nat /\ DOMAIN parents = 1..Len(parents)
        /\ \A i \in 1..Len(parents) : parents[i] \in ToSet(parents) /\ Sound(parents[i])
    BY ListFacts DEF Rows
  <1>2. Listed(children)  BY DEF Rows
  <1>3. ASSUME NEW i \in 1..Len(parents)
        PROVE  /\ Listed(with(i)) /\ Different(with(i)) /\ \A c \in ToSet(with(i)) : c \in ToSet(children)
               /\ Ids(with(i)) = ChildrenOf(t, parents[i], level)
    <2>1. Listed(with(i)) /\ Different(with(i)) /\ \A c \in ToSet(with(i)) : c \in ToSet(children)
      BY <1>2, WithAll
    <2>2. parents[i][level.rel.parent] \in keys \union {Null}  BY <1>1
    <2>3. Ids(With(parents[i][level.rel.parent], children, level.rel.child)) = ChildrenOf(t, parents[i], level)
      BY <1>2, <2>2, ChildrenFound
    <2> QED  BY <2>1, <2>3
  <1>4. ASSUME NEW i \in 1..Len(parents)
        PROVE  own[i] = IF rel.many THEN with(i) ELSE IF with(i) = <<>> THEN <<>> ELSE <<Last(with(i))>>
    <2>1. CASE rel.many
      <3> DEFINE taken == \E j \in 1 .. i - 1 : parents[j][rel.parent] = parents[i][rel.parent]
      <3>1. own[i] = IF taken THEN <<>> ELSE with(i)  BY <1>1, <2>1 DEF AttachMany
      <3>2. ASSUME NEW j \in 1 .. i - 1, parents[j].id = parents[i].id  PROVE FALSE
        <4>1. j \in 1..Len(parents) /\ j # i  BY <1>1
        <4> QED  BY <4>1, <3>2, <1>1 DEF Different
      <3>3. ~taken  BY <2>1, <3>2
      <3> HIDE DEF own, with, taken
      <3> QED  BY <3>1, <3>3, <2>1
    <2>2. CASE ~rel.many
      <3>1. own[i] = IF with(i) = <<>> THEN <<>> ELSE <<Last(with(i))>>  BY <1>1, <2>2 DEF AttachOne
      <3> HIDE DEF own, with
      <3> QED  BY <3>1, <2>2
    <2> QED  BY <2>1, <2>2
  <1>5. after = [i \in DOMAIN parents |-> row(i)]  BY DEF Attached
  <1>6. ASSUME NEW i \in 1..Len(parents)
        PROVE  /\ row(i).id = parents[i].id /\ row(i).ref = parents[i].ref
               /\ Loaded(row(i), rel) = own[i]
               /\ \A r : r # rel => Loaded(row(i), r) = Loaded(parents[i], r)
    <2>1. DOMAIN parents[i] = {"id", "ref", "rel", "seen"}  BY <1>1 DEF Sound
    <2> DEFINE m == row(i)  all == rels(i)
    <2>2. /\ DOMAIN all = DOMAIN parents[i].rel \union {rel}
          /\ all[rel] = own[i] /\ \A r \in DOMAIN parents[i].rel : r # rel => all[r] = parents[i].rel[r]
      OBVIOUS
    <2> HIDE DEF all, own, rel
    <2>3. m = [parents[i] EXCEPT !.rel = all]  BY DEF all
    <2> HIDE DEF m
    <2>4. m.id = parents[i].id /\ m.ref = parents[i].ref /\ m.rel = all  BY <2>1, <2>3
    <2>5. Loaded(m, rel) = own[i]  BY <2>2, <2>4 DEF Loaded
    <2>6. \A r : r # rel => Loaded(m, r) = Loaded(parents[i], r)  BY <2>2, <2>4 DEF Loaded
    <2> QED  BY <2>4, <2>5, <2>6 DEF m
  <1> HIDE DEF own, after, row
  <1>7. DOMAIN after = 1..Len(parents) /\ \A i \in 1..Len(parents) : after[i] = row(i)  BY <1>1, <1>5
  <1>8. \A i \in 1..Len(parents) : after[i].id = parents[i].id /\ after[i].ref = parents[i].ref  BY <1>6, <1>7
  <1>9. Different(after) /\ Ids(after) = Ids(parents)  BY <1>1, <1>7, <1>8 DEF Different, Ids
  <1> HIDE DEF with
  <1>10. ASSUME NEW i \in 1..Len(parents)  PROVE Fits(t, row(i), level)
    <2> DEFINE m == parents[i]  mine == own[i]  w == with(i)
    <2>1. mine = IF rel.many THEN w ELSE IF w = <<>> THEN <<>> ELSE <<Last(w)>>  BY <1>4
    <2>2. Listed(w) /\ Different(w) /\ Ids(w) = ChildrenOf(t, m, level) /\ \A c \in ToSet(w) : c \in ToSet(children)
      BY <1>3
    <2> HIDE DEF m, mine, w, key
    <2>3. /\ Different(mine) /\ \A c \in ToSet(mine) : c \in ToSet(children)
          /\ rel.many => Ids(mine) = ChildrenOf(t, m, level)
          /\ ~rel.many => Ids(mine) \subseteq ChildrenOf(t, m, level) /\ (Ids(mine) = {} <=> ChildrenOf(t, m, level) = {})
      <3>1. CASE rel.many  BY <3>1, <2>1, <2>2
      <3>2. CASE ~rel.many /\ w = <<>>  BY <3>2, <2>1, <2>2, NoRows
      <3>3. CASE ~rel.many /\ w # <<>>
        <4>1. mine = <<Last(w)>>  BY <3>3, <2>1
        <4>2. Len(w) \in 1..Len(w)  BY <2>2, <3>3, ListFacts
        <4>3. Last(w) \in ToSet(w)  BY <2>2, <4>2, ListFacts DEF Last
        <4>4. Len(mine) = 1 /\ ToSet(mine) = {Last(w)} /\ Listed(mine)  BY <4>1, One
        <4>5. DOMAIN mine = 1..1  BY <4>4, ListFacts
        <4>6. Different(mine)
          <5>1. \A x, y \in 1..1 : x = y  OBVIOUS
          <5> QED  BY <5>1, <4>5 DEF Different
        <4>7. Ids(mine) = {Last(w).id} /\ Last(w).id \in Ids(w)  BY <4>3, <4>4, IdsOf
        <4> QED  BY <3>3, <4>3, <4>4, <4>6, <4>7, <2>2
      <3> QED  BY <3>1, <3>2, <3>3
    <2>4. ChildrenOf(t, row(i), level) = ChildrenOf(t, m, level)
      <3>1. rel.parent = "id" \/ rel.parent = "ref"  BY LevelsAssumption DEF Relation, Columns
      <3>2. row(i)[rel.parent] = m[rel.parent]  BY <3>1, <1>6 DEF m
      <3> QED  BY <3>2 DEF ChildrenOf
    <2>5. Loaded(row(i), level.rel) = mine  BY <1>6 DEF mine
    <2>6. \A k \in DOMAIN mine : mine[k].ref = t[mine[k].id]
      <3>1. \A k \in DOMAIN mine : mine[k] \in ToSet(mine)  BY IdsOf
      <3> QED  BY <3>1, <2>3 DEF AsIs
    <2>7. Complies(t, row(i), level)  BY <2>3, <2>4, <2>5, <2>6 DEF Complies
    <2>8. \A c \in ToSet(mine), k \in Lasts(level.then) : Fits(t, c, level.then[k])  BY <2>3
    <2> QED  BY <2>5, <2>7, <2>8, FitsFolds
  <1>11. ASSUME NEW m \in ToSet(after)
         PROVE  /\ AsIs(t, m) /\ Fits(t, m, level)
                /\ \E l \in ToSet(parents) :
                     m.id = l.id /\ m.ref = l.ref /\ \A r : r # level.rel => Loaded(m, r) = Loaded(l, r)
    <2>1. PICK i \in 1..Len(parents) : m = row(i)  BY <1>7 DEF ToSet
    <2>2. parents[i] \in ToSet(parents)  BY <1>1
    <2>3. AsIs(t, parents[i])  BY <2>2
    <2>4. m.id = parents[i].id /\ m.ref = parents[i].ref /\ \A r : r # level.rel => Loaded(m, r) = Loaded(parents[i], r)
      BY <2>1, <1>6
    <2>5. AsIs(t, m)  BY <2>3, <2>4 DEF AsIs
    <2>6. Fits(t, m, level)  BY <2>1, <1>10
    <2> QED  BY <2>2, <2>4, <2>5, <2>6
  <1> QED  BY <1>1, <1>7, <1>8, <1>9, <1>11 DEF after

-----------------------------------------------------------------------------
(* Each step keeps what is being loaded.                                    *)

LEMMA LoadingTops ==
  ASSUME Frames, stack # <<>>, NEW t, NEW q, Loading(t, q, stack)
  PROVE  /\ Listed(stack) /\ AtWork(t, stack[1])
         /\ Len(stack) = 1 => Answers(q, stack[1])
         /\ Len(stack) > 1 => Awaits(t, stack[1], stack[2])
         /\ Len(stack) = 2 => Answers(q, stack[2])
         /\ Len(stack) > 2 => Awaits(t, stack[2], stack[3])
  <1>1. Len(stack) \in Nat /\ Listed(stack)  BY Tops
  <1>2. Answers(q, stack[Len(stack)]) /\ AtWork(t, stack[1])
        /\ \A f \in 1..Len(stack)-1 : Awaits(t, stack[f], stack[f+1])
    BY DEF Loading
  <1>3. Len(stack) > 1 => Awaits(t, stack[1], stack[2])
    <2>1. Len(stack) > 1 => 1 \in 1..Len(stack)-1 /\ 1 + 1 = 2  BY <1>1
    <2> QED  BY <2>1, <1>2
  <1>4. Len(stack) > 2 => Awaits(t, stack[2], stack[3])
    <2>1. Len(stack) > 2 => 2 \in 1..Len(stack)-1 /\ 2 + 1 = 3  BY <1>1
    <2> QED  BY <2>1, <1>2
  <1> QED  BY <1>1, <1>2, <1>3, <1>4

\* A query's frame, with what it loads and how far it is.
LEMMA QueryAtWork ==
  ASSUME NEW t, NEW F, F.is = "all"
  PROVE  /\ HandOf(F) = F.rows /\ LevelsOf(F) = F.loaders
         /\ AtWork(t, F) <=> Filled(t, F, F.done)
         /\ \A n : Filled(t, F, n) <=>
              /\ Different(F.rows)
              /\ \A m \in ToSet(F.rows) :
                   AsIs(t, m) /\ \A k \in LastsTo(F.loaders, n) : Fits(t, m, F.loaders[k])
  BY DEF HandOf, LevelsOf, AtWork, Filled

LEMMA LevelAtWork ==
  ASSUME NEW t, NEW F, F.is = "run"
  PROVE  /\ HandOf(F) = F.children /\ LevelsOf(F) = F.level.then
         /\ AtWork(t, F) <=>
              Filled(t, F, F.done) /\ Collected(t, F, {}) /\ (F.chunks # <<>> => F.done = 0)
         /\ \A n : Filled(t, F, n) <=>
              /\ Different(F.children)
              /\ \A m \in ToSet(F.children) :
                   AsIs(t, m) /\ \A k \in LastsTo(F.level.then, n) : Fits(t, m, F.level.then[k])
  BY DEF HandOf, LevelsOf, AtWork, Filled

LEMMA RunHooksLoads ==
  ASSUME IInv, RunHooks, Loading(table, query, stack)
  PROVE  Loading(table, query, stack')
  <1>1. Frames /\ stack # <<>> /\ Top.is = "all" /\ Top.at = "hooks"  BY DEF IInv, RunHooks, In
  <1> DEFINE F == [Top EXCEPT !.at = "statement"]
  <1>2. stack' = <<F>> \o Tail(stack)  BY DEF RunHooks, Replace
  <1>3. Top = stack[1] /\ Listed(stack)  BY <1>1, Tops
  <1>4. DOMAIN Top = {"is", "at", "path", "from", "rows", "loaders", "done"}
    <2>1. Len(stack) = 1 => Root(Top)  BY <1>1, <1>3, Tops
    <2>2. Len(stack) > 1 => Fetching(Top)  BY <1>1, <1>3, Tops DEF Over
    <2>3. Len(stack) = 1 \/ Len(stack) > 1  BY <1>1, Depths
    <2> QED  BY <2>1, <2>2, <2>3 DEF Root, Fetching
  <1>5. F.is = "all" /\ F.from = Top.from /\ F.rows = Top.rows
        /\ F.loaders = Top.loaders /\ F.done = Top.done /\ F.at = "statement"
    BY <1>1, <1>4
  <1> HIDE DEF F
  <1>6. AtWork(table, Top)  BY <1>1, <1>3, LoadingTops
  <1>7. AtWork(table, F)
    <2>1. Filled(table, Top, Top.done)  BY <1>1, <1>6, QueryAtWork
    <2>2. Filled(table, F, F.done)  BY <1>1, <1>5, <2>1 DEF Filled, HandOf, LevelsOf
    <2> QED  BY <1>5, <2>2, QueryAtWork
  <1>8. Len(stack) = 1 => Answers(query, F)
    <2>1. Len(stack) = 1 => Answers(query, Top)  BY <1>1, <1>3, LoadingTops
    <2> QED  BY <2>1, <1>1, <1>5 DEF Answers
  <1>9. Len(stack) > 1 => Awaits(table, F, stack[2])
    <2>1. Len(stack) > 1 => Awaits(table, Top, stack[2])  BY <1>1, <1>3, LoadingTops
    <2> QED  BY <2>1, <1>1, <1>5 DEF Awaits
  <1> QED  BY <1>1, <1>2, <1>3, <1>7, <1>8, <1>9, LoadingReplaced


LEMMA SelectLoads ==
  ASSUME IInv, Select, IsInjective(query.rows), Loading(table, query, stack)
  PROVE  Loading(table, query, stack')
  <1>1. Frames /\ Shape /\ stack # <<>> /\ Top.is = "all" /\ Top.at = "statement" /\ Top.path = <<>>
    BY DEF IInv, Select, In
  <1>2. Top = stack[1] /\ Listed(stack)  BY <1>1, Tops
  <1>3. Len(stack) = 1 /\ Root(Top) /\ ~(Len(stack) > 1)  BY <1>1, <1>2, Tops, Depths
  <1>4. Answers(query, Top)  BY <1>1, <1>2, <1>3, LoadingTops
  <1>5. Top.from = query.rows /\ Top.loaders = query.loaders /\ Top.done = 0  BY <1>1, <1>4 DEF Answers
  <1> DEFINE S == {k \in DOMAIN Top.from : Top.from[k] \in DOMAIN table}
             found == Sorted(S)
             ids == [n \in DOMAIN found |-> Top.from[found[n]]]
             rows == [n \in DOMAIN found |-> Model(Top.from[found[n]])]
             F == [Top EXCEPT !.at = "load", !.rows = rows]
  <1>6. stack' = <<F>> \o Tail(stack)  BY DEF Select, Replace
  <1>7. S \in SUBSET Nat /\ IsFiniteSet(S)
    <2>1. Top.from \in Seq(Id)  BY <1>3 DEF Root
    <2>2. Len(Top.from) \in Nat /\ DOMAIN Top.from = 1..Len(Top.from)  BY <2>1
    <2>3. S \in SUBSET (1..Len(Top.from))  BY <2>2
    <2>4. IsFiniteSet(1..Len(Top.from))  BY <2>2, FS_Interval
    <2> HIDE DEF S
    <2>5. IsFiniteSet(S)  BY <2>3, <2>4, FS_Subset
    <2>6. \A i \in 1..Len(Top.from) : i \in Nat  BY <2>2
    <2> QED  BY <2>3, <2>5, <2>6
  <1>8. Listed(found) /\ ToSet(found) = S /\ \A i, j \in 1..Len(found) : found[i] = found[j] => i = j
    BY <1>7, SortedNumbers
  <1>9. \A k \in S : k \in DOMAIN Top.from /\ Top.from[k] \in DOMAIN table  OBVIOUS
  <1> HIDE DEF S, found
  <1>10. Len(found) \in Nat /\ DOMAIN found = 1..Len(found) /\ \A n \in 1..Len(found) : found[n] \in S
    BY <1>8, ListFacts
  <1>11. Different(rows) /\ \A m \in ToSet(rows) : AsIs(table, m)
    <2>1. \A n \in 1..Len(found) : ids[n] \in DOMAIN table  BY <1>9, <1>10
    <2>2. ASSUME NEW i \in 1..Len(found), NEW j \in 1..Len(found), ids[i] = ids[j]  PROVE i = j
      <3>1. found[i] \in DOMAIN Top.from /\ found[j] \in DOMAIN Top.from  BY <1>9, <1>10
      <3>2. Top.from[found[i]] = Top.from[found[j]]  BY <2>2, <1>10
      <3>3. found[i] = found[j]  BY <3>1, <3>2, <1>5 DEF IsInjective
      <3> QED  BY <3>3, <1>8
    <2>3. rows = [n \in 1..Len(found) |-> Model(ids[n])]  BY <1>10
    <2> HIDE DEF rows, ids
    <2> QED  BY <1>10, <2>1, <2>2, <2>3, DecodedRows
  <1> HIDE DEF rows
  <1>12. F.is = "all" /\ F.from = Top.from /\ F.rows = rows /\ F.loaders = Top.loaders /\ F.done = 0 /\ F.at = "load"
    <2>1. DOMAIN Top = {"is", "at", "path", "from", "rows", "loaders", "done"}  BY <1>3 DEF Root
    <2> QED  BY <1>1, <1>5, <2>1
  <1> HIDE DEF F
  <1>13. AtWork(table, F)
    <2>1. 1..0 = {}  OBVIOUS
    <2>2. LastsTo(F.loaders, 0) = {}  BY <2>1 DEF LastsTo
    <2>3. Filled(table, F, 0)  BY <1>11, <1>12, <2>2, QueryAtWork
    <2> QED  BY <1>12, <2>3, QueryAtWork
  <1>14. Answers(query, F)  BY <1>5, <1>12 DEF Answers
  <1> QED  BY <1>1, <1>2, <1>3, <1>6, <1>13, <1>14, LoadingReplaced


LEMMA SelectKeyedLoads ==
  ASSUME IInv, SelectKeyed, Loading(table, query, stack)
  PROVE  Loading(table, query, stack')
  <1>1. Frames /\ Shape /\ stack # <<>> /\ Top.is = "all" /\ Top.at = "statement" /\ Top.path # <<>>
    BY DEF IInv, SelectKeyed, In
  <1>2. Top = stack[1] /\ Listed(stack)  BY <1>1, Tops
  <1>3. Len(stack) > 1 /\ ~(Len(stack) = 1)  BY <1>1, <1>2, Tops, Depths
  <1> DEFINE G == stack[2]
  <1>4. Over(Top, G) /\ Awaits(table, Top, G)  BY <1>1, <1>2, <1>3, Tops, LoadingTops
  <1>5. Fetching(Top) /\ G.is = "run" /\ Top.from.column = G.level.rel.child  BY <1>1, <1>4 DEF Over
  <1>6. Working(G)
    <2>1. Len(stack) > 2  BY <1>1, <1>2, <1>3, Tops
    <2> QED  BY <1>1, <2>1, Tops
  <1>7. Top.from.column \in Columns  BY <1>5, <1>6, LevelsAssumption DEF Working, Relation
  <1>8. PICK ids \in SetToSeqs(Matching(Top.from)) :
          Replace([Top EXCEPT !.at = "load", !.rows = [k \in DOMAIN ids |-> Model(ids[k])]])
    BY DEF SelectKeyed
  <1> DEFINE M == Matching(Top.from)
             n == Cardinality(M)
             rows == [k \in DOMAIN ids |-> Model(ids[k])]
             F == [Top EXCEPT !.at = "load", !.rows = rows]
  <1>9. stack' = <<F>> \o Tail(stack)  BY <1>8 DEF Replace
  <1>10. IsFiniteSet(M) /\ n \in Nat
    <2>1. M \in SUBSET Id  BY <1>1 DEF Matching, Shape
    <2>2. IsFiniteSet(M)  BY <2>1, IdAssumption, FS_Subset
    <2> HIDE DEF M
    <2> QED  BY <2>2, FS_CardinalityType
  <1>11. M \subseteq DOMAIN table  BY DEF Matching
  <1>12. M = Found(table, G.level, ToSet(Top.from.keys))
    <2>1. Top.from.keep = G.level.keep  BY <1>4, <1>5 DEF Awaits, Fetching
    <2>2. \A i \in DOMAIN table : Model(i)[Top.from.column] = Cell(table, i, Top.from.column)  BY <1>7, ModelAsIs
    <2> QED  BY <1>5, <2>1, <2>2 DEF Matching, Found
  <1>13. ids \in [1..n -> M] /\ \A i, j \in 1..n : i # j => ids[i] # ids[j]  BY <1>8 DEF SetToSeqs
  <1> HIDE DEF M, n, G
  <1>14. DOMAIN ids = 1..n /\ \A k \in 1..n : ids[k] \in M  BY <1>13
  <1>15. {ids[k] : k \in 1..n} = M
    <2>1. ids \in Injection(1..n, M)  BY <1>13 DEF Injection, IsInjective
    <2>2. IsFiniteSet(1..n) /\ Cardinality(1..n) = n
      <3>1. 1 \in Int /\ n \in Int  BY <1>10
      <3>2. IsFiniteSet(1..n) /\ Cardinality(1..n) = IF 1 > n THEN 0 ELSE n-1+1  BY <3>1, FS_Interval
      <3> QED  BY <1>10, <3>2
    <2>3. Cardinality(1..n) = Cardinality(M)  BY <2>2 DEF n
    <2>4. ids \in Surjection(1..n, M)  BY <1>10, <2>1, <2>3, FS_Injection
    <2> QED  BY <1>14, <2>4 DEF Surjection
  <1>16. Different(rows) /\ Ids(rows) = M /\ \A m \in ToSet(rows) : AsIs(table, m)
    <2>1. rows = [k \in 1..n |-> Model(ids[k])]  BY <1>14
    <2>2. \A k \in 1..n : ids[k] \in DOMAIN table  BY <1>11, <1>14
    <2>3. \A i, j \in 1..n : ids[i] = ids[j] => i = j  BY <1>13
    <2> HIDE DEF rows
    <2> QED  BY <1>10, <1>15, <2>1, <2>2, <2>3, DecodedRows
  <1> HIDE DEF rows
  <1>17. F.is = "all" /\ F.from = Top.from /\ F.rows = rows /\ F.loaders = <<>> /\ F.done = 0 /\ F.at = "load"
    <2>1. DOMAIN Top = {"is", "at", "path", "from", "rows", "loaders", "done"}  BY <1>5 DEF Fetching
    <2> QED  BY <1>1, <1>5, <2>1 DEF Fetching
  <1> HIDE DEF F
  <1>18. AtWork(table, F)
    <2>1. 1..0 = {}  OBVIOUS
    <2>2. LastsTo(F.loaders, 0) = {}  BY <2>1 DEF LastsTo
    <2>3. Filled(table, F, 0)  BY <1>16, <1>17, <2>2, QueryAtWork
    <2> QED  BY <1>17, <2>3, QueryAtWork
  <1>19. Awaits(table, F, G)  BY <1>1, <1>4, <1>12, <1>16, <1>17 DEF Awaits
  <1> QED  BY <1>1, <1>2, <1>3, <1>9, <1>18, <1>19, LoadingReplaced DEF G


\* The batch a level takes: keys of the level, in none of the batches after it.
LEMMA HeadBatch ==
  ASSUME Frames, Asked, stack # <<>>, stack[1].is = "run", stack[1].chunks # <<>>
  PROVE  LET F == stack[1]
         IN  /\ ToSet(F.chunks) = {Head(F.chunks)} \union ToSet(Tail(F.chunks))
             /\ ToSet(Head(F.chunks)) \subseteq Due(F)
             /\ \A keys \in ToSet(Tail(F.chunks)) : ToSet(keys) \intersect ToSet(Head(F.chunks)) = {}
  <1> DEFINE F == stack[1]
             all == Chunks(Sorted(Due(F)), F.level.batch)
             taken == Len(all) - Len(F.chunks)
             rest == F.chunks
  <1>1. Working(F)  BY Tops
  <1>2. Listed(rest) /\ Len(rest) \in Nat /\ Len(rest) > 0 /\ DOMAIN rest = 1..Len(rest)
    BY <1>1, ListFacts DEF Working
  <1>3. Progress(1)
    <2>1. Len(stack) \in Nat /\ Len(stack) > 0 /\ Listed(stack)  BY Tops
    <2>2. 1 \in DOMAIN stack  BY <2>1, ListFacts
    <2> QED  BY <2>2 DEF Asked
  <1>4. InHand(1) = <<>>  BY DEF InHand
  <1>5. taken \in 0..Len(all) /\ rest = SubSeq(all, taken + 1, Len(all))
    BY <1>3, <1>4 DEF Progress, Sent
  <1>6. F.level \in Levels /\ Due(F) \in SUBSET Id  BY <1>1, BatchesOfLevel
  <1>7. F.level.batch \in Nat \ {0}  BY <1>6, LevelsAssumption
  <1> DEFINE due == Due(F)
  <1>8. /\ Listed(all) /\ Len(all) \in Nat
        /\ \A c \in 1..Len(all) : ToSet(all[c]) \subseteq due
        /\ \A c, d \in 1..Len(all) : c # d => ToSet(all[c]) \intersect ToSet(all[d]) = {}
    BY <1>6, <1>7, SortedDue
  <1>9. rest # <<>>  OBVIOUS
  <1> HIDE DEF rest, all, taken, due, F
  <1>10. taken + 1 \in 1..Len(all) /\ taken \in Nat  BY <1>5, <1>8, <1>9, NextBatch
  <1>11. Head(rest) = rest[1] /\ Listed(Tail(rest)) /\ Len(Tail(rest)) = Len(rest) - 1
         /\ \A i \in 1..Len(rest)-1 : Tail(rest)[i] = rest[i+1]
    BY <1>2, <1>9, TailOf
  <1>12. \A i \in 1..Len(rest) : rest[i] = all[taken + i] /\ taken + i \in 1..Len(all)
    <2>1. taken + 1 \in 1..(Len(all) + 1)  BY <1>8, <1>10
    <2>2. Len(rest) = Len(all) - (taken + 1) + 1 /\ \A i \in 1..Len(rest) : rest[i] = all[(taken + 1) + i - 1]
      BY <1>5, <1>8, <2>1, Part
    <2>3. \A i \in 1..Len(rest) : (taken + 1) + i - 1 = taken + i /\ taken + i \in 1..Len(all)
      BY <1>8, <1>10, <2>2
    <2> QED  BY <2>2, <2>3
  <1>13. 1 \in 1..Len(rest)  BY <1>2
  <1>14. Head(rest) = all[taken + 1]  BY <1>11, <1>12, <1>13
  <1>15. DOMAIN Tail(rest) = 1..(Len(rest) - 1)  BY <1>11, ListFacts
  <1>16. ToSet(rest) = {Head(rest)} \union ToSet(Tail(rest))
    <2>1. ASSUME NEW i \in 1..Len(rest)  PROVE rest[i] = Head(rest) \/ rest[i] \in ToSet(Tail(rest))
      <3>1. CASE i = 1  BY <3>1, <1>11
      <3>2. CASE i # 1
        <4>1. i - 1 \in 1..(Len(rest) - 1) /\ (i - 1) + 1 = i  BY <3>2, <1>2
        <4>2. Tail(rest)[i - 1] = rest[i]  BY <4>1, <1>11
        <4> QED  BY <4>1, <4>2, <1>15 DEF ToSet
      <3> QED  BY <3>1, <3>2
    <2>2. Head(rest) \in ToSet(rest)  BY <1>2, <1>11, <1>13 DEF ToSet
    <2>3. ToSet(Tail(rest)) \subseteq ToSet(rest)  BY <1>2, <1>9, TailOf
    <2> QED  BY <2>1, <2>2, <2>3, <1>2 DEF ToSet
  <1>17. ASSUME NEW keys \in ToSet(Tail(rest))  PROVE ToSet(keys) \intersect ToSet(Head(rest)) = {}
    <2>1. PICK i \in 1..(Len(rest) - 1) : keys = Tail(rest)[i]  BY <1>15 DEF ToSet
    <2>2. i + 1 \in 1..Len(rest) /\ taken + (i + 1) # taken + 1  BY <1>2, <1>10
    <2>3. keys = all[taken + (i + 1)] /\ taken + (i + 1) \in 1..Len(all)  BY <2>1, <2>2, <1>11, <1>12
    <2> QED  BY <2>2, <2>3, <1>8, <1>10, <1>14
  <1>18. ToSet(Head(rest)) \subseteq due  BY <1>8, <1>10, <1>14
  <1> QED  BY <1>16, <1>17, <1>18 DEF rest, F, due

LEMMA RunBatchLoads ==
  ASSUME IInv, Asked, RunBatch, Loading(table, query, stack)
  PROVE  Loading(table, query, stack')
  <1>1. Frames /\ stack # <<>> /\ Top.is = "run" /\ Top.chunks # <<>>  BY DEF IInv, RunBatch, In
  <1>2. Top = stack[1] /\ Listed(stack) /\ Working(Top) /\ Len(stack) > 1 /\ ~(Len(stack) = 1)
    <2>1. Top = stack[1] /\ Listed(stack)  BY <1>1, Tops
    <2>2. Len(stack) > 1 /\ Working(Top)  BY <1>1, <2>1, Tops
    <2> QED  BY <1>1, <2>1, <2>2, Depths
  <1>3. AtWork(table, Top) /\ Awaits(table, Top, stack[2])  BY <1>1, <1>2, LoadingTops
  <1> DEFINE from == [keys |-> Head(Top.chunks), column |-> Top.level.rel.child, keep |-> Top.level.keep]
             F == All(Top.path, from, <<>>)
             G == [Top EXCEPT !.chunks = Tail(@)]
  <1>4. stack' = <<F, G>> \o Tail(stack)  BY DEF RunBatch
  <1>5. G.is = "run" /\ G.level = Top.level /\ G.rows = Top.rows
        /\ G.chunks = Tail(Top.chunks) /\ G.children = Top.children /\ G.done = Top.done
    <2>1. DOMAIN Top = {"is", "at", "path", "level", "rows", "chunks", "children", "done"}  BY <1>2 DEF Working
    <2> QED  BY <1>1, <2>1
  <1>6. F.is = "all" /\ F.at = "hooks" /\ F.from = from /\ F.rows = <<>> /\ F.loaders = <<>> /\ F.done = 0
    BY DEF All
  <1>7. from.keys = Head(Top.chunks) /\ from.keep = Top.level.keep  OBVIOUS
  <1> DEFINE keys == ToSet(Head(Top.chunks))
  <1>8. /\ ToSet(Top.chunks) = {Head(Top.chunks)} \union ToSet(Tail(Top.chunks))
        /\ keys \subseteq Due(Top)
        /\ \A other \in ToSet(Tail(Top.chunks)) : ToSet(other) \intersect keys = {}
    BY <1>1, <1>2, HeadBatch
  <1> HIDE DEF F, G, from
  <1>9. Due(G) = Due(Top)  BY <1>5 DEF Due
  <1>10. Pending(G, keys) = Pending(Top, {})
    <2> DEFINE head == Head(Top.chunks)  tail == ToSet(Tail(Top.chunks))
    <2> HIDE DEF tail
    <2> DEFINE of(k) == ToSet(k)
               all == UNION {of(k) : k \in {head} \union tail}
               others == UNION {of(k) : k \in tail}
    <2>1. all = of(head) \union others
      <3> HIDE DEF of, head
      <3>1. \A x : x \in all <=> \E k \in {head} \union tail : x \in of(k)  OBVIOUS
      <3>2. \A x : x \in others <=> \E k \in tail : x \in of(k)  OBVIOUS
      <3> HIDE DEF all, others
      <3> QED  BY <3>1, <3>2
    <2>2. Pending(Top, {}) = all  BY <1>8 DEF Pending, tail
    <2>3. Pending(G, keys) = of(head) \union others  BY <1>5 DEF Pending, tail
    <2> QED  BY <2>1, <2>2, <2>3
  <1>11. keys \subseteq Due(G) \ Pending(G, {})
    <2>1. Pending(G, {}) = UNION {ToSet(k) : k \in ToSet(Tail(Top.chunks))}  BY <1>5 DEF Pending
    <2> QED  BY <2>1, <1>8, <1>9
  <1> HIDE DEF keys
  <1>12. Top.done = 0 /\ Filled(table, Top, 0) /\ Collected(table, Top, {})  BY <1>1, <1>3, LevelAtWork
  <1>13. Filled(table, G, 0)
    <2>1. /\ Different(G.children)
          /\ \A m \in ToSet(G.children) :
               AsIs(table, m) /\ \A k \in LastsTo(G.level.then, 0) : Fits(table, m, G.level.then[k])
      BY <1>1, <1>5, <1>12, LevelAtWork
    <2> QED  BY <1>5, <2>1, LevelAtWork
  <1>14. Collected(table, G, keys)  BY <1>5, <1>9, <1>10, <1>12 DEF Collected
  <1>15. Awaits(table, F, G)
    <2>1. F.is # "run" /\ F.at # "load"  BY <1>6
    <2>2. F.from.keep = G.level.keep /\ ToSet(F.from.keys) = keys  BY <1>5, <1>6, <1>7 DEF keys
    <2> QED  BY <2>1, <2>2, <1>5, <1>11, <1>12, <1>13, <1>14 DEF Awaits
  <1>16. AtWork(table, F)
    <2>1. Filled(table, F, 0)  BY <1>6, NoRows, QueryAtWork
    <2> QED  BY <1>6, <2>1, QueryAtWork
  <1>17. Awaits(table, G, stack[2])  BY <1>1, <1>3, <1>5 DEF Awaits
  <1> QED  BY <1>1, <1>2, <1>4, <1>15, <1>16, <1>17, LoadingPushed


\* A level over rows, none of which has a key: nothing is to be loaded.
LEMMA EnterLoads ==
  ASSUME Frames, stack # <<>>, NEW t, Loading(t, query, stack),
         NEW G, NEW path, NEW level \in Levels, NEW rows, Rows(rows), Enter(G, path, level, rows),
         rows = HandOf(G), NEW n \in Nat, G.done = n + 1, n + 1 \in 1..Len(LevelsOf(G)), level = LevelsOf(G)[n + 1],
         Filled(t, G, n), G.is = "run" => G.chunks = <<>> /\ Collected(t, G, {}),
         Len(stack) = 1 => Answers(query, G), Len(stack) > 1 => Awaits(t, G, stack[2])
  PROVE  Loading(t, query, stack')
  <1> DEFINE column == level.rel.parent
             due == ToSet(Keys(rows, column)) \ {Null}
             keys == Distinct(Keys(rows, column))
             chunks == Chunks(keys, level.batch)
             F == Run(path, level, rows, chunks)
  <1>1. Listed(stack)  BY Tops
  <1>2. keys # <<>> => stack' = <<F, G>> \o Tail(stack)  BY DEF Enter
  <1>3. keys = <<>> => stack' = <<G>> \o Tail(stack)  BY DEF Enter
  <1>4. level.batch \in Nat \ {0} /\ column \in Columns  BY LevelsAssumption DEF Relation
  <1>5. keys = Sorted(due)  BY DEF Distinct
  <1>6. due \in SUBSET Id /\ due \in SUBSET Nat /\ IsFiniteSet(due)  BY <1>4, DueFacts
  <1>7. \A m \in ToSet(rows) : m[column] \in due \/ m[column] = Null
    <2>1. DOMAIN Keys(rows, column) = DOMAIN rows
          /\ \A i \in DOMAIN rows : Keys(rows, column)[i] = rows[i][column]
      BY DEF Keys
    <2> QED  BY <2>1 DEF ToSet
  <1> HIDE DEF keys, due, column
  <1>8. CASE keys = <<>>
    <2>1. due = {}
      <3>1. ToSet(keys) = due  BY <1>5, <1>6, SortedNumbers
      <3> QED  BY <3>1, <1>8, NoRows
    <2>2. ASSUME NEW m \in ToSet(rows), NEW k \in LastsTo(LevelsOf(G), n + 1)  PROVE Fits(t, m, LevelsOf(G)[k])
      <3>1. k = n + 1 \/ k \in LastsTo(LevelsOf(G), n)  BY LastsNext
      <3>2. CASE k = n + 1
        <4>1. Sound(m)  BY DEF Rows
        <4>2. m[level.rel.parent] = Null  BY <1>7, <2>1 DEF column
        <4> QED  BY <3>2, <4>1, <4>2, NullFits
      <3>3. CASE k \in LastsTo(LevelsOf(G), n)  BY <3>3 DEF Filled
      <3> QED  BY <3>1, <3>2, <3>3
    <2>3. Filled(t, G, G.done)  BY <2>2 DEF Filled
    <2>4. AtWork(t, G)  BY <2>3 DEF AtWork
    <2> QED  BY <1>1, <1>3, <1>8, <2>4, LoadingReplaced
  <1>9. CASE keys # <<>>
    <2>1. /\ F.is = "run" /\ F.level = level /\ F.rows = rows
          /\ F.chunks = chunks /\ F.children = <<>> /\ F.done = 0
      BY DEF Run
    <2> HIDE DEF F
    <2>2. Due(F) = due  BY <2>1 DEF Due, due, column
    <2>3. Pending(F, {}) = due
      <3> DEFINE all == Chunks(Sorted(due), level.batch)
      <3>1. Listed(all) /\ UNION {ToSet(all[c]) : c \in 1..Len(all)} = due
        BY <1>4, <1>6, SortedDue
      <3>2. chunks = all  BY <1>5
      <3> HIDE DEF chunks, all
      <3>3. \A c \in 1..Len(all) : all[c] \in ToSet(all)  BY <3>1, ListFacts
      <3>4. \A b \in ToSet(all) : \E c \in 1..Len(all) : b = all[c]
        <4>1. DOMAIN all = 1..Len(all)  BY <3>1, ListFacts
        <4> QED  BY <4>1 DEF ToSet
      <3>5. \A x : x \in Pending(F, {}) <=> \E b \in ToSet(all) : x \in ToSet(b)  BY <2>1, <3>2 DEF Pending
      <3>6. ASSUME NEW x \in due  PROVE x \in Pending(F, {})
        <4>1. PICK c \in 1..Len(all) : x \in ToSet(all[c])  BY <3>1
        <4> QED  BY <4>1, <3>3, <3>5
      <3>7. ASSUME NEW x \in Pending(F, {})  PROVE x \in due
        <4>1. PICK b \in ToSet(all) : x \in ToSet(b)  BY <3>5
        <4>2. PICK c \in 1..Len(all) : b = all[c]  BY <3>4, <4>1
        <4> QED  BY <4>1, <4>2, <3>1
      <3> QED  BY <3>6, <3>7
    <2>4. Collected(t, F, {})
      <3>1. Found(t, level, {}) = {}  BY DEF Found
      <3>2. Due(F) \ Pending(F, {}) = {}  BY <2>2, <2>3
      <3> QED  BY <2>1, <3>1, <3>2, NoRows DEF Collected
    <2>5. AtWork(t, F)
      <3>1. Filled(t, F, 0)  BY <2>1, NoRows, LevelAtWork
      <3> QED  BY <2>1, <2>4, <3>1, LevelAtWork
    <2>6. Awaits(t, F, G)
      <3>1. G.done - 1 = n  OBVIOUS
      <3> QED  BY <2>1, <3>1 DEF Awaits
    <2> QED  BY <1>1, <1>2, <1>9, <2>5, <2>6, LoadingPushed
  <1> QED  BY <1>8, <1>9

LEMMA RunLoaderLoads ==
  ASSUME IInv, RunLoader, Loading(table, query, stack)
  PROVE  Loading(table, query, stack')
  <1>1. Frames /\ stack # <<>> /\ Top.is = "all" /\ Top.at = "load" /\ Top.done < Len(Top.loaders)
    BY DEF IInv, RunLoader, In
  <1>2. Top = stack[1] /\ Len(stack) \in Nat /\ Len(stack) > 0  BY <1>1, Tops
  <1>3. Len(stack) = 1 /\ Root(Top) /\ ~(Len(stack) > 1)
    <2>1. Len(<<>>) = 0  OBVIOUS
    <2>2. ~Fetching(Top)  BY <1>1, <2>1 DEF Fetching
    <2>3. ~(Len(stack) > 1)  BY <1>1, <1>2, <2>2, Tops
    <2>4. Len(stack) = 1  BY <1>1, <2>3, Depths, Zenon
    <2> QED  BY <1>1, <1>2, <2>3, <2>4, Tops
  <1>4. AtWork(table, Top) /\ Answers(query, Top)  BY <1>1, <1>2, <1>3, LoadingTops
  <1> DEFINE n == Top.done
             F == [Top EXCEPT !.done = n + 1]
             path == Append(Top.path, n + 1)
             level == Top.loaders[n + 1]
             rows == Top.rows
  <1>5. Enter(F, path, level, rows)  BY DEF RunLoader
  <1>6. Top.loaders \in Seq(Levels) /\ n \in 0..Len(Top.loaders) /\ Rows(rows)  BY <1>3 DEF Root
  <1>7. n \in Nat /\ n + 1 \in 1..Len(Top.loaders)  BY <1>1, <1>6
  <1>8. level \in Levels  BY <1>6, <1>7
  <1>9. F.is = "all" /\ F.at = "load" /\ F.from = Top.from /\ F.rows = rows /\ F.loaders = Top.loaders /\ F.done = n + 1
    <2>1. DOMAIN Top = {"is", "at", "path", "from", "rows", "loaders", "done"}  BY <1>3 DEF Root
    <2> HIDE DEF n
    <2> QED  BY <1>1, <2>1
  <1> HIDE DEF F
  <1>10. HandOf(F) = rows /\ LevelsOf(F) = Top.loaders  BY <1>9, QueryAtWork
  <1>11. Filled(table, F, n)
    <2>1. Filled(table, Top, n)  BY <1>1, <1>4, QueryAtWork
    <2> HIDE DEF n
    <2> QED  BY <1>1, <1>9, <2>1 DEF Filled, HandOf, LevelsOf
  <1>12. Answers(query, F)  BY <1>4, <1>9 DEF Answers
  <1>13. level = LevelsOf(F)[n + 1] /\ n + 1 \in 1..Len(LevelsOf(F)) /\ F.is # "run"  BY <1>7, <1>9, <1>10
  <1> HIDE DEF n, path, level, rows
  <1> QED  BY <1>1, <1>3, <1>5, <1>6, <1>7, <1>8, <1>9, <1>10, <1>11, <1>12, <1>13, EnterLoads

LEMMA LoadDeeperLoads ==
  ASSUME IInv, LoadDeeper, Loading(table, query, stack)
  PROVE  Loading(table, query, stack')
  <1>1. Frames /\ stack # <<>> /\ Top.is = "run" /\ Top.chunks = <<>> /\ Top.done < Len(Top.level.then)
    BY DEF IInv, LoadDeeper, In
  <1>2. Top = stack[1] /\ Working(Top) /\ Len(stack) > 1 /\ ~(Len(stack) = 1)
    <2>1. Top = stack[1] /\ Len(stack) \in Nat  BY <1>1, Tops
    <2>2. Len(stack) > 1 /\ Working(Top)  BY <1>1, <2>1, Tops
    <2> QED  BY <1>1, <2>1, <2>2, Depths
  <1>3. AtWork(table, Top) /\ Awaits(table, Top, stack[2])  BY <1>1, <1>2, LoadingTops
  <1> DEFINE n == Top.done
             F == [Top EXCEPT !.done = n + 1]
             path == Append(Top.path, n + 1)
             level == Top.level.then[n + 1]
             rows == Top.children
  <1>4. Enter(F, path, level, rows)
    <2>1. Enter([Top EXCEPT !.done = Advance(@)], path, level, rows)
      BY DEF LoadDeeper
    <2> QED  BY <2>1 DEF Advance
  <1>5. Top.level.then \in Seq(Levels) /\ n \in 0..Len(Top.level.then) /\ Rows(rows)
    BY <1>2, LevelsAssumption DEF Working
  <1>6. n \in Nat /\ n + 1 \in 1..Len(Top.level.then)  BY <1>1, <1>5
  <1>7. level \in Levels  BY <1>5, <1>6
  <1>8. F.is = "run" /\ F.level = Top.level /\ F.rows = Top.rows
        /\ F.chunks = <<>> /\ F.children = rows /\ F.done = n + 1
    <2>1. DOMAIN Top = {"is", "at", "path", "level", "rows", "chunks", "children", "done"}  BY <1>2 DEF Working
    <2> HIDE DEF n
    <2> QED  BY <1>1, <2>1
  <1> HIDE DEF F
  <1>9. HandOf(F) = rows /\ LevelsOf(F) = Top.level.then  BY <1>8, LevelAtWork
  <1>10. Filled(table, F, n)
    <2>1. Filled(table, Top, n)  BY <1>1, <1>3, LevelAtWork
    <2> HIDE DEF n
    <2> QED  BY <1>1, <1>8, <2>1 DEF Filled, HandOf, LevelsOf
  <1>11. Collected(table, F, {})
    <2>1. Collected(table, Top, {})  BY <1>1, <1>3, LevelAtWork
    <2> QED  BY <1>1, <1>8, <2>1 DEF Collected, Due, Pending
  <1>12. Awaits(table, F, stack[2])  BY <1>1, <1>3, <1>8 DEF Awaits
  <1>13. level = LevelsOf(F)[n + 1] /\ n + 1 \in 1..Len(LevelsOf(F))  BY <1>6, <1>9
  <1> HIDE DEF n, path, level, rows
  <1> QED  BY <1>1, <1>2, <1>4, <1>5, <1>6, <1>7, <1>8, <1>9, <1>10, <1>11, <1>12, <1>13, EnterLoads


\* The children of some keys and of others are those of all of them.
LEMMA FoundJoined ==
  ASSUME NEW t, NEW level, NEW all, NEW pending, NEW keys, keys \subseteq all \ pending
  PROVE  /\ Found(t, level, all \ (keys \union pending)) \union Found(t, level, keys) = Found(t, level, all \ pending)
         /\ Found(t, level, all \ (keys \union pending)) \intersect Found(t, level, keys) = {}
  BY DEF Found

LEMMA HookedFits ==
  ASSUME NEW t, NEW rows, Rows(rows), NEW level, level.rel \in Relation, \A l \in ToSet(rows) : Fits(t, l, level),
         NEW m \in ToSet(Hooked(rows))
  PROVE  Fits(t, m, level)
  <1>1. PICK l \in ToSet(rows) : m.id = l.id /\ m.ref = l.ref /\ m.rel = l.rel  BY HookedAlike
  <1>2. Loaded(m, level.rel) = Loaded(l, level.rel)  BY <1>1 DEF Loaded
  <1> QED  BY <1>1, <1>2, FitsAlike

LEMMA AfterSelectLoads ==
  ASSUME IInv, AfterSelect, Len(stack) > 1, Loading(table, query, stack)
  PROVE  Loading(table, query, stack')
  <1>1. Frames /\ stack # <<>> /\ Top.is = "all" /\ Top.at = "load"  BY DEF IInv, AfterSelect, In
  <1>2. Top = stack[1] /\ Listed(stack)  BY <1>1, Tops
  <1>3. Len(stack) # 1 /\ Len(stack) > 2 /\ ~(Len(stack) = 2)
    <2>1. Len(stack) > 2  BY <1>1, <1>2, Tops
    <2> QED  BY <2>1, <1>1, Depths, Zenon
  <1> DEFINE B == stack[2]
             rows == Top.rows
             hooked == Hooked(rows)
             all == B.children \o hooked
             G == [B EXCEPT !.children = Extend(@, hooked)]
             keys == ToSet(Top.from.keys)
  <1>4. Fetching(Top) /\ B.is = "run" /\ Working(B)  BY <1>1, <1>2, <1>3, Tops
  <1>5. AtWork(table, Top) /\ Awaits(table, Top, B) /\ Awaits(table, B, stack[3])
    BY <1>1, <1>2, <1>3, LoadingTops
  <1>6. stack' = <<G>> \o SubSeq(stack, 3, Len(stack))  BY <1>3 DEF AfterSelect
  <1>7. /\ B.done = 0 /\ Filled(table, B, 0) /\ keys \subseteq Due(B) \ Pending(B, {})
        /\ Collected(table, B, keys) /\ Ids(rows) = Found(table, B.level, keys)
    BY <1>1, <1>5 DEF Awaits
  <1>8. Different(rows) /\ \A m \in ToSet(rows) : AsIs(table, m)
    <2>1. Top.done = 0  BY <1>4 DEF Fetching
    <2> QED  BY <1>1, <1>5, <2>1, QueryAtWork
  <1>9. Different(B.children) /\ \A m \in ToSet(B.children) : AsIs(table, m)  BY <1>4, <1>7, LevelAtWork
  <1>10. Rows(rows) /\ Rows(B.children)  BY <1>4 DEF Fetching, Working
  <1>11. G.is = "run" /\ G.level = B.level /\ G.rows = B.rows
         /\ G.chunks = B.chunks /\ G.children = all /\ G.done = 0
    <2>1. DOMAIN B = {"is", "at", "path", "level", "rows", "chunks", "children", "done"}  BY <1>4 DEF Working
    <2>2. G = [B EXCEPT !.children = all]  BY DEF Extend
    <2> HIDE DEF all, B
    <2> QED  BY <1>4, <1>7, <2>1, <2>2
  <1> HIDE DEF G, B, rows, keys
  <1>12. Ids(hooked) = Ids(rows) /\ Different(hooked) /\ Rows(hooked)  BY <1>8, <1>10, HookedAlike, HookedRows
  <1>13. \A m \in ToSet(hooked) : AsIs(table, m)
    <2>1. \A m \in ToSet(hooked) : \E l \in ToSet(rows) : m.id = l.id /\ m.ref = l.ref  BY <1>10, HookedAlike
    <2> QED  BY <2>1, <1>8 DEF AsIs
  <1> HIDE DEF hooked
  <1> DEFINE due == Due(B)  pending == Pending(B, {})
  <1>14. Pending(B, keys) = keys \union pending  BY DEF Pending
  <1>15. Ids(B.children) = Found(table, B.level, due \ (keys \union pending))  BY <1>7, <1>14 DEF Collected
  <1>16. keys \subseteq due \ pending  BY <1>7
  <1> HIDE DEF due, pending
  <1>17. /\ Ids(B.children) \union Ids(hooked) = Found(table, B.level, due \ pending)
         /\ Ids(B.children) \intersect Ids(hooked) = {}
    <2> DEFINE old == Found(table, B.level, due \ (keys \union pending))
               new == Found(table, B.level, keys)
    <2>1. old \union new = Found(table, B.level, due \ pending) /\ old \intersect new = {}
      BY <1>16, FoundJoined
    <2>2. Ids(B.children) = old /\ Ids(hooked) = new  BY <1>7, <1>12, <1>15
    <2> HIDE DEF old, new
    <2> QED  BY <2>1, <2>2
  <1>18. Listed(B.children) /\ Listed(hooked)  BY <1>10, <1>12 DEF Rows
  <1>19. Different(all) /\ Ids(all) = Ids(B.children) \union Ids(hooked)
    BY <1>9, <1>12, <1>17, <1>18, JoinedDifferent
  <1>20. ToSet(all) = ToSet(B.children) \union ToSet(hooked)  BY <1>18, Joined
  <1> HIDE DEF all
  <1>21. AtWork(table, G)
    <2>1. 1..0 = {}  OBVIOUS
    <2>2. LastsTo(G.level.then, 0) = {}  BY <2>1 DEF LastsTo
    <2>3. \A m \in ToSet(all) : AsIs(table, m)  BY <1>9, <1>13, <1>20
    <2>4. Filled(table, G, 0)  BY <1>11, <1>19, <2>2, <2>3, LevelAtWork
    <2>5. Due(G) = due /\ Pending(G, {}) = pending  BY <1>11 DEF Due, Pending, due, pending
    <2>6. Collected(table, G, {})  BY <1>11, <1>17, <1>19, <2>5 DEF Collected
    <2> QED  BY <1>11, <2>4, <2>6, LevelAtWork
  <1>22. Awaits(table, G, stack[3])  BY <1>4, <1>5, <1>11 DEF Awaits, B
  <1> QED  BY <1>1, <1>2, <1>3, <1>6, <1>21, <1>22, LoadingPopped

\* What the query returns has been loaded.
LEMMA AfterSelectGives ==
  ASSUME IInv, AfterSelect, Len(stack) = 1, Loading(table, query, stack)
  PROVE  stack' = <<>> /\ Gives(table)'
  <1>1. Frames /\ stack # <<>> /\ Top.is = "all" /\ Top.at = "load" /\ Top.done = Len(Top.loaders)
    BY DEF IInv, AfterSelect, In
  <1>2. Top = stack[1]  BY <1>1, Tops
  <1>3. Root(Top) /\ Answers(query, Top) /\ AtWork(table, Top)  BY <1>1, <1>2, Tops, LoadingTops
  <1> DEFINE rows == Hooked(Top.rows)  levels == query.loaders
  <1>4. stack' = <<>> /\ (result' = rows \/ result' = <<>>) /\ table' = table /\ query' = query
    BY DEF AfterSelect
  <1>5. levels = Top.loaders /\ levels \in Seq(Levels) /\ Rows(Top.rows)  BY <1>3 DEF Root, Answers
  <1>6. Filled(table, Top, Len(levels))  BY <1>1, <1>3, <1>5, QueryAtWork
  <1> HIDE DEF levels
  <1>7. Lasts(levels) = LastsTo(levels, Len(levels)) /\ \A k \in Lasts(levels) : levels[k] \in Levels
    BY <1>5, LastsAll
  <1>8. ASSUME NEW m \in ToSet(rows), NEW k \in Lasts(levels)  PROVE Fits(table, m, levels[k])
    <2>1. \A l \in ToSet(Top.rows) : Fits(table, l, levels[k])  BY <1>1, <1>5, <1>6, <1>7, QueryAtWork
    <2>2. levels[k].rel \in Relation  BY <1>7, LevelsAssumption
    <2> QED  BY <1>5, <2>1, <2>2, HookedFits
  <1>9. \A m \in ToSet(result'), k \in Lasts(levels) : Fits(table, m, levels[k])  BY <1>4, <1>8, NoRows
  <1>10. \A m \in ToSet(result'), k \in Lasts(query'.loaders) : Fits(table', m, query'.loaders[k])
    BY <1>4, <1>9 DEF levels
  <1> QED  BY <1>4, <1>10 DEF Gives


LEMMA AttachChildrenLoads ==
  ASSUME IInv, AttachChildren, \A l \in Levels : l.rel.many => l.rel.parent = "id", Loading(table, query, stack)
  PROVE  Loading(table, query, stack')
  <1>1. Frames /\ stack # <<>> /\ Top.is = "run" /\ Top.chunks = <<>> /\ Top.done = Len(Top.level.then)
    BY DEF IInv, AttachChildren, In
  <1>2. Top = stack[1] /\ Listed(stack) /\ Working(Top) /\ Len(stack) > 1 /\ Over(Top, stack[2])
    <2>1. Top = stack[1] /\ Listed(stack)  BY <1>1, Tops
    <2>2. Len(stack) > 1 /\ Working(Top)  BY <1>1, <2>1, Tops
    <2> QED  BY <1>1, <2>1, <2>2, Tops
  <1> DEFINE F == Top
             level == F.level
             B == stack[2]
             parents == Attached(F.rows, F.children, level.rel)
             G == IF B.is = "all" THEN [B EXCEPT !.rows = parents] ELSE [B EXCEPT !.children = parents]
             n == B.done - 1
             levels == LevelsOf(B)
  <1>3. stack' = <<G>> \o SubSeq(stack, 3, Len(stack))  BY DEF AttachChildren
  <1>4. AtWork(table, F) /\ Awaits(table, F, B)  BY <1>1, <1>2, LoadingTops
  <1>5. level \in Levels /\ Rows(F.rows) /\ Rows(F.children) /\ Keyed(F.children, level.rel.child)
    BY <1>2 DEF Working
  <1>6. level.rel \in Relation /\ level.rel.parent \in Columns /\ level.then \in Seq(Levels)
        /\ (level.rel.many => level.rel.parent = "id")
    BY <1>5, LevelsAssumption DEF Relation
  <1>7. /\ Len(stack) = 2 => Root(B)
        /\ Len(stack) > 2 => B.is = "run" /\ Working(B)
        /\ Len(stack) = 2 \/ Len(stack) > 2
    BY <1>1, <1>2, Tops, Depths
  <1>8. /\ B.is = "all" => Root(B)
        /\ B.is # "all" => B.is = "run" /\ Working(B)
    BY <1>7 DEF Root
  <1>9. levels \in Seq(Levels)
    <2>1. CASE B.is = "all"  BY <2>1, <1>8 DEF LevelsOf, Root
    <2>2. CASE B.is # "all"  BY <2>2, <1>8, LevelsAssumption DEF LevelsOf, Working
    <2> QED  BY <2>1, <2>2
  <1>10. /\ F.rows = HandOf(B) /\ B.done \in 1..Len(levels) /\ level = levels[B.done]
         /\ Filled(table, B, n)
         /\ B.is = "run" => B.chunks = <<>> /\ Collected(table, B, {})
    BY <1>1, <1>4 DEF Awaits
  <1>11. n \in Nat /\ B.done = n + 1  BY <1>9, <1>10
  <1>12. HandOf(G) = parents /\ LevelsOf(G) = levels /\ G.done = B.done
         /\ (B.is = "all" => G.is = "all" /\ G.from = B.from /\ G.loaders = B.loaders /\ G.at = B.at)
         /\ (B.is # "all" => G.is = "run" /\ G.level = B.level /\ G.rows = B.rows /\ G.chunks = B.chunks
                             /\ G.children = parents)
    <2> HIDE DEF parents, n
    <2>1. CASE B.is = "all"
      <3>1. DOMAIN B = {"is", "at", "path", "from", "rows", "loaders", "done"} \/ DOMAIN B = DOMAIN B  OBVIOUS
      <3>2. DOMAIN B = {"is", "at", "path", "from", "rows", "loaders", "done"}  BY <2>1, <1>8 DEF Root
      <3>3. G = [B EXCEPT !.rows = parents]  BY <2>1
      <3> HIDE DEF G, B
      <3>4. G.is = B.is /\ G.from = B.from /\ G.loaders = B.loaders /\ G.at = B.at /\ G.rows = parents /\ G.done = B.done
        BY <3>2, <3>3
      <3> QED  BY <2>1, <3>4 DEF HandOf, LevelsOf
    <2>2. CASE B.is # "all"
      <3>1. DOMAIN B = {"is", "at", "path", "level", "rows", "chunks", "children", "done"} /\ B.is = "run"
        BY <2>2, <1>8 DEF Working
      <3>2. G = [B EXCEPT !.children = parents]  BY <2>2
      <3> HIDE DEF G, B
      <3>3. G.is = B.is /\ G.level = B.level /\ G.rows = B.rows /\ G.chunks = B.chunks /\ G.children = parents
            /\ G.done = B.done
        BY <3>1, <3>2
      <3> QED  BY <2>2, <3>1, <3>3 DEF HandOf, LevelsOf
    <2> QED  BY <2>1, <2>2
  <1> DEFINE due == Due(F)
  <1>13. Ids(F.children) = Found(table, level, due)
    <2>1. Pending(F, {}) = {}
      <3>1. \A k : k \notin ToSet(F.chunks)  BY <1>1, NoRows
      <3> QED  BY <3>1 DEF Pending
    <2>2. Due(F) \ Pending(F, {}) = due  BY <2>1
    <2>3. Collected(table, F, {})  BY <1>1, <1>4, LevelAtWork
    <2> QED  BY <2>2, <2>3 DEF Collected
  <1>14. \A m \in ToSet(F.rows) : m[level.rel.parent] \in due \union {Null}
    <2>1. DOMAIN Keys(F.rows, level.rel.parent) = DOMAIN F.rows
          /\ \A i \in DOMAIN F.rows : Keys(F.rows, level.rel.parent)[i] = F.rows[i][level.rel.parent]
      BY DEF Keys
    <2> QED  BY <2>1 DEF ToSet, Due
  <1>15. Different(F.rows) /\ \A m \in ToSet(F.rows) :
           AsIs(table, m) /\ \A k \in LastsTo(levels, n) : Fits(table, m, levels[k])
    BY <1>10 DEF Filled
  <1>16. Different(F.children) /\ \A c \in ToSet(F.children) :
           AsIs(table, c) /\ \A k \in Lasts(level.then) : Fits(table, c, level.then[k])
    <2>1. Filled(table, F, Len(level.then))  BY <1>1, <1>4, LevelAtWork
    <2>2. Lasts(level.then) = LastsTo(level.then, Len(level.then))  BY <1>6, LastsAll
    <2> QED  BY <1>1, <2>1, <2>2, LevelAtWork
  <1> HIDE DEF due, F, G, B, levels, n, level
  <1>17. /\ Different(parents) /\ Ids(parents) = Ids(F.rows)
         /\ \A m \in ToSet(parents) :
              /\ AsIs(table, m) /\ Fits(table, m, level)
              /\ \E l \in ToSet(F.rows) :
                   m.id = l.id /\ m.ref = l.ref /\ \A r : r # level.rel => Loaded(m, r) = Loaded(l, r)
    <2> DEFINE rows == F.rows  kids == F.children
    <2>1. Rows(rows) /\ Different(rows) /\ (\A m \in ToSet(rows) : AsIs(table, m))
          /\ \A m \in ToSet(rows) : m[level.rel.parent] \in due \union {Null}
      BY <1>5, <1>14, <1>15
    <2>2. Rows(kids) /\ Different(kids) /\ Keyed(kids, level.rel.child) /\ Ids(kids) = Found(table, level, due)
      BY <1>5, <1>13, <1>16
    <2>3. \A c \in ToSet(kids) : AsIs(table, c) /\ \A k \in Lasts(level.then) : Fits(table, c, level.then[k])
      BY <1>16
    <2>4. level \in Levels /\ (level.rel.many => level.rel.parent = "id")  BY <1>5, <1>6
    <2>5. parents = Attached(rows, kids, level.rel)  OBVIOUS
    <2> HIDE DEF rows, kids, parents
    <2> QED  BY <2>1, <2>2, <2>3, <2>4, <2>5, AttachedFits DEF rows
  <1> HIDE DEF parents
  <1>18. ASSUME NEW m \in ToSet(parents), NEW k \in LastsTo(levels, n + 1)  PROVE Fits(table, m, levels[k])
    <2>1. k = n + 1 \/ (k \in LastsTo(levels, n) /\ levels[k].rel # levels[n + 1].rel)  BY <1>11, LastsNext
    <2>2. CASE k = n + 1  BY <2>2, <1>10, <1>11, <1>17
    <2>3. CASE k \in LastsTo(levels, n) /\ levels[k].rel # levels[n + 1].rel
      <3>1. PICK l \in ToSet(F.rows) :
              m.id = l.id /\ m.ref = l.ref /\ \A r : r # level.rel => Loaded(m, r) = Loaded(l, r)
        BY <1>17
      <3>2. Fits(table, l, levels[k])  BY <2>3, <1>15
      <3>3. Loaded(m, levels[k].rel) = Loaded(l, levels[k].rel)  BY <2>3, <3>1, <1>10, <1>11
      <3>4. levels[k].rel \in Relation
        <4>1. k \in 1..n /\ n \in Nat /\ n + 1 \in 1..Len(levels)  BY <2>3, <1>10, <1>11 DEF LastsTo
        <4>2. k \in 1..Len(levels)  BY <4>1
        <4>3. levels[k] \in Levels  BY <4>2, <1>9
        <4> QED  BY <4>3, LevelsAssumption
      <3> QED  BY <3>1, <3>2, <3>3, <3>4, FitsAlike
    <2> QED  BY <2>1, <2>2, <2>3
  <1>19. Filled(table, G, G.done)  BY <1>11, <1>12, <1>17, <1>18 DEF Filled
  <1>20. AtWork(table, G)
    <2>1. CASE B.is = "all"  BY <2>1, <1>12, <1>19, QueryAtWork
    <2>2. CASE B.is # "all"
      <3>1. B.is = "run" /\ F.rows = B.children  BY <2>2, <1>8, <1>10 DEF HandOf
      <3>2. Collected(table, G, {})  BY <2>2, <3>1, <1>10, <1>12, <1>17 DEF Collected, Due, Pending
      <3> QED  BY <2>2, <3>1, <3>2, <1>10, <1>12, <1>19, LevelAtWork
    <2> QED  BY <2>1, <2>2
  <1>21. Len(stack) = 2 => Answers(query, G)
    <2> SUFFICES ASSUME Len(stack) = 2  PROVE Answers(query, G)
      OBVIOUS
    <2>1. Answers(query, B) /\ B.is = "all"  BY <1>1, <1>7, LoadingTops DEF Root, B
    <2> QED  BY <2>1, <1>12 DEF Answers
  <1>22. Len(stack) > 2 => Awaits(table, G, stack[3])
    <2> SUFFICES ASSUME Len(stack) > 2  PROVE Awaits(table, G, stack[3])
      OBVIOUS
    <2>1. Awaits(table, B, stack[3]) /\ B.is = "run"  BY <1>1, <1>7, LoadingTops DEF B
    <2> QED  BY <2>1, <1>12 DEF Awaits
  <1> QED  BY <1>2, <1>3, <1>20, <1>21, <1>22, LoadingPopped


LEMMA StepLoads ==
  ASSUME IInv, Asked, ParentsDiffer, Loading(table, query, stack), Step
  PROVE  Loading(table, query, stack') /\ Gives(table)' /\ UNCHANGED <<table, query, writes>>
  <1>1. stack # <<>> => outcome = "running"  BY DEF Asked
  <1>2. \A l \in Levels : l.rel.many => l.rel.parent = "id"  BY DEF ParentsDiffer
  <1>3. IsInjective(query.rows)  BY DEF ParentsDiffer
  <1>4. ASSUME stack # <<>>, UNCHANGED ended  PROVE Gives(table)'
    <2>1. outcome' # "ok"  BY <1>1, <1>4 DEF ended
    <2> QED  BY <2>1 DEF Gives
  <1>5. CASE RunHooks  BY <1>4, <1>5, RunHooksLoads DEF RunHooks, In
  <1>6. CASE Select  BY <1>3, <1>4, <1>6, SelectLoads DEF Select, In
  <1>7. CASE SelectKeyed  BY <1>4, <1>7, SelectKeyedLoads DEF SelectKeyed, In
  <1>8. CASE RunLoader  BY <1>4, <1>8, RunLoaderLoads DEF RunLoader, In
  <1>9. CASE RunBatch  BY <1>4, <1>9, RunBatchLoads DEF RunBatch, In
  <1>10. CASE LoadDeeper  BY <1>4, <1>10, LoadDeeperLoads DEF LoadDeeper, In
  <1>11. CASE AttachChildren  BY <1>2, <1>4, <1>11, AttachChildrenLoads DEF AttachChildren, In
  <1>12. CASE AfterSelect
    <2>1. Frames /\ stack # <<>> /\ UNCHANGED <<table, query, writes>>  BY <1>12 DEF IInv, AfterSelect, In
    <2>2. CASE Len(stack) = 1
      <3>1. stack' = <<>> /\ Gives(table)'  BY <1>12, <2>2, AfterSelectGives
      <3> QED  BY <2>1, <3>1 DEF Loading
    <2>3. CASE Len(stack) > 1
      <3>1. UNCHANGED ended
        <4>1. Len(stack) # 1  BY <2>1, <2>3, Depths, Zenon
        <4> QED  BY <1>12, <4>1 DEF AfterSelect
      <3> QED  BY <1>4, <1>12, <2>1, <2>3, <3>1, AfterSelectLoads
    <2> QED  BY <2>1, <2>2, <2>3, Depths
  <1> QED  BY <1>5, <1>6, <1>7, <1>8, <1>9, <1>10, <1>11, <1>12 DEF Step

LEMMA JoinInvariance ==
  ASSUME IInv, Asked, JoinInv, [Next]_vars
  PROVE  JoinInv'
  <1> SUFFICES ASSUME writes' = 0, ParentsDiffer'
               PROVE  Loading(table, query, stack)' /\ Gives(table)'
    BY DEF JoinInv
  <1>1. CASE WriteElsewhere
    <2>1. writes \in Nat /\ writes' = writes + 1  BY <1>1, WriteAssumption DEF IInv, Shape, WriteElsewhere
    <2> QED  BY <2>1
  <1>2. ASSUME UNCHANGED <<query, writes>>
        PROVE  ParentsDiffer /\ Loading(table, query, stack) /\ Gives(table)
    <2>1. ParentsDiffer /\ writes = 0  BY <1>2 DEF ParentsDiffer
    <2> QED  BY <2>1 DEF JoinInv
  <1>3. CASE Step
    <2>1. UNCHANGED <<query, writes>>
      BY <1>3 DEF Step, RunHooks, Select, SelectKeyed, RunLoader, AfterSelect, RunBatch, LoadDeeper, AttachChildren
    <2>2. Loading(table, query, stack') /\ Gives(table)' /\ UNCHANGED <<table, query>>  BY <1>2, <1>3, <2>1, StepLoads
    <2> QED  BY <2>2
  <1>4. CASE Fail
    <2>1. stack' = <<>> /\ outcome' = "error"  BY <1>4 DEF Fail
    <2> QED  BY <2>1 DEF Loading, Gives
  <1>5. CASE Returned \/ UNCHANGED vars
    <2>1. UNCHANGED vars  BY <1>5 DEF Returned
    <2>2. Loading(table, query, stack) /\ Gives(table)  BY <1>2, <2>1 DEF vars
    <2> QED  BY <2>1, <2>2 DEF vars, Gives
  <1> QED  BY <1>1, <1>3, <1>4, <1>5 DEF Next

LEMMA StartsLoading ==
  ASSUME Init
  PROVE  JoinInv
  <1> DEFINE F == All(<<>>, query.rows, query.loaders)
  <1>1. stack = <<F>> /\ outcome = "running"  BY DEF Init
  <1>2. F.is = "all" /\ F.at = "hooks" /\ F.from = query.rows /\ F.rows = <<>>
        /\ F.loaders = query.loaders /\ F.done = 0
    BY DEF All
  <1> HIDE DEF F
  <1>3. Len(stack) = 1 /\ stack[1] = F  BY <1>1, One
  <1>4. Answers(query, F)  BY <1>2 DEF Answers
  <1>5. AtWork(table, F)
    <2>1. Filled(table, F, 0)  BY <1>2, NoRows, QueryAtWork
    <2> QED  BY <1>2, <2>1, QueryAtWork
  <1>6. 1..Len(stack)-1 = {}  BY <1>3
  <1>7. Loading(table, query, stack)  BY <1>3, <1>4, <1>5, <1>6 DEF Loading
  <1>8. Gives(table)  BY <1>1 DEF Gives
  <1> QED  BY <1>7, <1>8 DEF JoinInv

-----------------------------------------------------------------------------
(* What the rows returned carry, all the way down.                          *)

\* A set with 0 and the number after each of its own holds all up to N.
LEMMA Upwards ==
  ASSUME NEW N \in Nat, NEW T, 0 \in T, \A n \in 0..N : n < N /\ n \in T => n + 1 \in T
  PROVE  \A n \in 0..N : n \in T
  <1> DEFINE R == OpToRel(<, Nat)  missing == {n \in 0..N : n \notin T}
  <1>1. \A i, j \in Nat : i < j => <<i, j>> \in R  BY DEF OpToRel
  <1>2. SUFFICES ASSUME missing # {}  PROVE FALSE  OBVIOUS
  <1>3. missing \subseteq Nat  OBVIOUS
  <1>9. IsWellFoundedOn(R, Nat)  BY NatLessThanWellFounded
  <1> HIDE DEF R
  <1>4. PICK n \in missing : \A k \in missing : ~(<<k, n>> \in R)  BY <1>2, <1>3, <1>9, WFMin, Zenon
  <1>5. n \in 0..N /\ n \notin T /\ n # 0  BY <1>4
  <1>6. n - 1 \in 0..N /\ n - 1 < N /\ (n - 1) + 1 = n /\ n - 1 \in Nat /\ n \in Nat  BY <1>5
  <1>7. n - 1 \notin T  BY <1>5, <1>6
  <1>8. n - 1 \in missing /\ n - 1 < n  BY <1>6, <1>7
  <1> QED  BY <1>1, <1>4, <1>6, <1>8

LEMMA FitsCarries ==
  ASSUME NEW m, NEW level, Fits(table, m, level)
  PROVE  Carries(m, level)
  <1> DEFINE own == Loaded(m, level.rel)
  <1>1. Complies(table, m, level)  BY FitsUnfolds
  <1>2. ChildrenOf(table, m, level) = Related(m, level)
    BY DEF ChildrenOf, Found, Related, Cell
  <1>3. IsInjective(Keys(own, "id"))
    <2>1. DOMAIN Keys(own, "id") = DOMAIN own /\ \A i \in DOMAIN own : Keys(own, "id")[i] = own[i].id  BY DEF Keys
    <2>2. Different(own)  BY <1>1 DEF Complies
    <2> HIDE DEF own
    <2> QED  BY <2>1, <2>2 DEF IsInjective, Different
  <1> QED  BY <1>1, <1>2, <1>3 DEF Complies, Carries, Ids

\* The recursion of Reached has a solution, so that it is one.
PairsLoaded == {<<row, query.loaders[k]>> : row \in ToSet(result), k \in Lasts(query.loaders)}
PairsBelow(pairs) ==
    UNION {{<<child, p[2].then[k]>> : child \in ToSet(Loaded(p[1], p[2].rel)), k \in Lasts(p[2].then)} : p \in pairs}

LEMMA ReachedSteps ==
  Reached[0] = PairsLoaded /\ \A n \in 0..MaxDepth : n < MaxDepth => Reached[n + 1] = PairsBelow(Reached[n])
  <1> DEFINE first == PairsLoaded
             below(pairs) == PairsBelow(pairs)
             all(g, N) == [n \in 0..N |-> IF n = 0 THEN first ELSE below(g[n - 1])]
             T == {N \in Nat : \E g : g = all(g, N)}
  <1>1. Reached = CHOOSE g : g = all(g, MaxDepth)  BY DEF Reached, PairsLoaded, PairsBelow
  <1> HIDE DEF first, below
  <1>2. 0 \in T
    <2> DEFINE g == [n \in 0..0 |-> first]
    <2>1. all(g, 0) = g
      <3>1. \A n \in 0..0 : n = 0  OBVIOUS
      <3> QED  BY <3>1
    <2> HIDE DEF all
    <2> QED  BY <2>1
  <1>3. ASSUME NEW N \in T  PROVE N + 1 \in T
    <2>1. PICK g : g = all(g, N)  OBVIOUS
    <2>2. N \in Nat  OBVIOUS
    <2> DEFINE h == [n \in 0..N+1 |-> IF n = 0 THEN first ELSE below(g[n - 1])]
    <2>3. ASSUME NEW n \in 0..N+1, n # 0  PROVE h[n - 1] = g[n - 1]
      <3>1. n - 1 \in 0..N /\ n - 1 \in 0..N+1  BY <2>2, <2>3
      <3>2. g[n - 1] = IF n - 1 = 0 THEN first ELSE below(g[(n - 1) - 1])  BY <2>1, <3>1
      <3>3. h[n - 1] = IF n - 1 = 0 THEN first ELSE below(g[(n - 1) - 1])  BY <3>1
      <3> QED  BY <3>2, <3>3
    <2>4. h = all(h, N + 1)
      <3> DEFINE of(f, n) == IF n = 0 THEN first ELSE below(f[n - 1])
      <3>1. \A n \in 0..N+1 : of(g, n) = of(h, n)
        <4> HIDE DEF h
        <4> QED  BY <2>3
      <3>2. h = [n \in 0..N+1 |-> of(g, n)] /\ all(h, N + 1) = [n \in 0..N+1 |-> of(h, n)]  OBVIOUS
      <3> HIDE DEF h, of, all
      <3> QED  BY <3>1, <3>2
    <2> HIDE DEF all, h
    <2> QED  BY <2>2, <2>4
  <1>4. MaxDepth \in T
    <2>1. \A n \in 0..MaxDepth : n < MaxDepth /\ n \in T => n + 1 \in T  BY <1>3
    <2> HIDE DEF T
    <2>2. \A n \in 0..MaxDepth : n \in T  BY <1>2, <2>1, DepthAssumption, Upwards
    <2> QED  BY <2>2, DepthAssumption
  <1>5. Reached = all(Reached, MaxDepth)
    <2>1. \E g : g = all(g, MaxDepth)  BY <1>4
    <2> HIDE DEF all
    <2> QED  BY <1>1, <2>1
  <1>6. \A n \in 0..MaxDepth : Reached[n] = IF n = 0 THEN first ELSE below(Reached[n - 1])  BY <1>5
  <1>7. 0 \in 0..MaxDepth /\ \A n \in 0..MaxDepth : n < MaxDepth => n + 1 \in 0..MaxDepth /\ n + 1 # 0 /\ (n + 1) - 1 = n
    BY DepthAssumption
  <1>8. Reached[0] = first  BY <1>6, <1>7
  <1>9. ASSUME NEW n \in 0..MaxDepth, n < MaxDepth  PROVE Reached[n + 1] = below(Reached[n])
    BY <1>6, <1>7, <1>9
  <1> QED  BY <1>8, <1>9 DEF first, below


LEMMA ReachedFits ==
  ASSUME \A m \in ToSet(result), k \in Lasts(query.loaders) : Fits(table, m, query.loaders[k])
  PROVE  \A n \in 0..MaxDepth : \A p \in Reached[n] : Fits(table, p[1], p[2])
  <1> DEFINE T == {n \in 0..MaxDepth : \A p \in Reached[n] : Fits(table, p[1], p[2])}
  <1>1. 0 \in 0..MaxDepth  BY DepthAssumption
  <1>2. 0 \in T
    <2>1. \A p \in Reached[0] : Fits(table, p[1], p[2])
      <3> SUFFICES ASSUME NEW p \in PairsLoaded  PROVE Fits(table, p[1], p[2])
        BY ReachedSteps
      <3>1. PICK m \in ToSet(result), k \in Lasts(query.loaders) : p = <<m, query.loaders[k]>>  BY DEF PairsLoaded
      <3>2. p[1] = m /\ p[2] = query.loaders[k]  BY <3>1
      <3> QED  BY <3>1, <3>2
    <2> QED  BY <1>1, <2>1
  <1>3. ASSUME NEW n \in 0..MaxDepth, n < MaxDepth, n \in T  PROVE n + 1 \in T
    <2>1. n + 1 \in 0..MaxDepth  BY <1>3, DepthAssumption
    <2>2. ASSUME NEW p \in PairsBelow(Reached[n])  PROVE Fits(table, p[1], p[2])
      <3>1. PICK r \in Reached[n] :
              p \in {<<child, r[2].then[k]>> : child \in ToSet(Loaded(r[1], r[2].rel)), k \in Lasts(r[2].then)}
        BY DEF PairsBelow
      <3>2. PICK child \in ToSet(Loaded(r[1], r[2].rel)), k \in Lasts(r[2].then) : p = <<child, r[2].then[k]>>
        BY <3>1
      <3>3. Fits(table, r[1], r[2])  BY <1>3
      <3>4. \A c \in ToSet(Loaded(r[1], r[2].rel)), j \in Lasts(r[2].then) : Fits(table, c, r[2].then[j])
        BY <3>3, FitsUnfolds
      <3>5. p[1] = child /\ p[2] = r[2].then[k]  BY <3>2
      <3> QED  BY <3>2, <3>4, <3>5
    <2>3. Reached[n + 1] = PairsBelow(Reached[n])  BY <1>3, ReachedSteps
    <2> QED  BY <2>1, <2>2, <2>3
  <1>4. \A n \in 0..MaxDepth : n < MaxDepth /\ n \in T => n + 1 \in T  BY <1>3
  <1> HIDE DEF T
  <1>5. \A n \in 0..MaxDepth : n \in T  BY <1>2, <1>4, DepthAssumption, Upwards
  <1> QED  BY <1>5 DEF T

\* On a table that nobody writes meanwhile, and where no two of the caller's rows are
\* the same model and has_many reads the parent's key ("parents are assumed
\* key-distinct", load.rs, attach_to_many), what a query returns carries the rows that a
\* join would pair, at every level it loads and however deep: cutting the keys into
\* batches, sharing a statement among parents, nesting the levels and loading a
\* relation twice change nothing (ThenLoad::run, attach_to_one and attach_to_many).
THEOREM LoadedLikeAJoin == Spec => []LoadedIsTheJoin
  <1>1. Init => IInv /\ Asked /\ JoinInv  BY StartsRight, StartsAsked, StartsLoading
  <1>2. IInv /\ Asked /\ JoinInv /\ [Next]_vars => (IInv /\ Asked /\ JoinInv)'
    BY Invariance, AskedInvariance, JoinInvariance
  <1>3. JoinInv => LoadedIsTheJoin
    <2> SUFFICES ASSUME JoinInv, outcome = "ok", writes = 0, ParentsDiffer,
                        NEW n \in 0..MaxDepth, NEW p \in Reached[n]
                 PROVE  Carries(p[1], p[2])
      BY DEF LoadedIsTheJoin
    <2>1. \A m \in ToSet(result), k \in Lasts(query.loaders) : Fits(table, m, query.loaders[k])
      BY DEF JoinInv, Gives
    <2>2. Fits(table, p[1], p[2])  BY <2>1, ReachedFits
    <2> QED  BY <2>2, FitsCarries
  <1> QED  BY <1>1, <1>2, <1>3, PTL DEF Spec

=============================================================================
