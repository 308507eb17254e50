------------------------- MODULE TransactionProofs -------------------------
(***************************************************************************)
(* What holds of a transaction whatever its savepoint calls are, when no    *)
(* closure has two of them in flight and none of their futures is dropped:  *)
(* the properties of Transaction, from one inductive invariant.  The        *)
(* running blocks are the path of the innermost one; while the transaction  *)
(* is open the session has one frame for each of them; and where a write    *)
(* lies is where the blocks around it that have returned have left it.      *)
(***************************************************************************)
EXTENDS Transaction, SequenceTheorems, FiniteSetTheorems,
        WellFoundedInduction, TLAPS

\* No closure joins savepoints and no savepoint's future is dropped.
Sequential == ~Siblings /\ "savepoint" \notin Cancels

\* Only a whole transaction is dropped, and a closure passes on what its
\* statements and its nested blocks answer, except what leaves the engine's
\* transaction usable.
Disciplined ==
    /\ ~Siblings /\ Cancels \subseteq {"body"}
    /\ \A f \in Families : StmtSurvives[f] \subseteq {"refused"}
    /\ StmtSurvives["Postgres"] = {}
    /\ NestedSurvives["MySql"] \subseteq {"refused"}
    /\ NestedSurvives["Sqlite"] \subseteq {"refused"}

-----------------------------------------------------------------------------
\* The inductive invariant.

\* TypeOK without the server's side.
ClientTyped ==
    /\ family \in Families
    /\ conn \in {"held", "pool", "closed"}
    /\ finished \in BOOLEAN
    /\ depth \in Nat
    /\ pc \in [Node -> Running \union Ended \union {Unborn}]
    /\ path \in [Node -> Seq(Node)]
    /\ level \in [Node -> Nat]
    /\ out \in [Node -> {"none", "ok", "err"}]
    /\ owes \in [Node -> Errors \union {"none"}]
    /\ made \subseteq Write

ServerTyped == session \in Sessions /\ durable \subseteq Write

RootSteps  == {"begin", "body", "committing", "rollingback"}
BlockSteps == {"opening", "body", "releasing", "undoing", "forgetting"}
Roles ==
    /\ pc[Root] \in RootSteps \union Ended
    /\ \A b \in Block : pc[b] \in BlockSteps \union Ended \union {Unborn}

\* A path goes through its caller's path, block by block, from Root.
Paths ==
    \A n \in Node : pc[n] # Unborn =>
      /\ path[n] # <<>> /\ path[n][1] = Root /\ path[n][Len(path[n])] = n
      /\ \A i \in 1 .. Len(path[n]) :
           /\ pc[path[n][i]] # Unborn
           /\ path[path[n][i]] = SubSeq(path[n], 1, i)
           /\ i < Len(path[n]) => pc[path[n][i]] # "opening"

\* The running blocks are those around t, one per level, each waiting for the next.
Innermost(t) ==
    /\ Live(t) /\ Len(path[t]) = depth + 1
    /\ \A n \in Node : Live(n) <=> n \in Chain(t)
    /\ \A i \in 1 .. Len(path[t]) : level[path[t][i]] = i - 1
    /\ \A i \in 1 .. Len(path[t]) - 1 : pc[path[t][i]] = "body"

Structured ==
    /\ Roles /\ Paths
    /\ IF Live(Root) THEN \E t \in Node : Innermost(t) ELSE \A b \in Block : ~Live(b)

\* Write w has come down to frame i: it was made inside the block at level i
\* of t's path, by blocks of which all above that level have answered Ok.
Reaches(w, i, t) ==
    /\ i \in 1 .. Len(path[w[1]]) /\ path[w[1]][i] = path[t][i]
    /\ \A j \in 1 .. Len(path[w[1]]) : j > i => pc[path[w[1]][j]] = "ok"

\* The frames hold exactly these writes, except that a block which has been undone
\* and not yet forgotten has none left.
Share(i, t) == {w \in made : pc[path[t][i]] # "forgetting" /\ Reaches(w, i, t)}
WorkFits(t) == \A i \in 1 .. Len(session.frames) : session.frames[i].work = Share(i, t)

\* Savepoint names count from the bottom of the stack.
Numbered(s) == \A i \in 1 .. Len(s.frames) : s.frames[i].name = i - 1

\* A frame for every running block, but the one whose SAVEPOINT is not answered.
FramesFit(t) ==
    /\ Len(session.frames) = IF pc[t] = "opening" THEN Len(path[t]) - 1 ELSE Len(path[t])
    /\ Numbered(session)

\* A closure that must fail, or is failing.
Failing(t) == pc[t] \in {"body", "undoing", "rollingback"}

OpenFits(t) ==
    /\ session.tx \in {"active", "aborted"}
    /\ session.tx = "aborted" => owes[t] # "none" /\ Failing(t)
    /\ FramesFit(t) /\ WorkFits(t)

\* The engine rolled the transaction back, and its closures are yet to hear of it.
LostFits(t) ==
    /\ family # "Postgres" /\ session = IdleSession
    /\ owes[t] = "conflict" /\ Failing(t)

SessionFits(t) ==
    IF pc[Root] = "begin" THEN session = IdleSession /\ made = {}
    ELSE session = Gone \/ LostFits(t) \/ OpenFits(t)

\* Nothing is settled before the end; what is settled then stays.
Unsettled ==
    /\ durable = {} /\ conn = "held"
    /\ pc[Root] = "committing" => out[Root] = "ok"

Settled ==
    /\ AllOrNothing /\ PooledIsClean

MadeInside == \A w \in made : w[1] \in Node /\ pc[w[1]] \notin {Unborn, "opening"}

Common == ClientTyped /\ ServerTyped /\ Roles /\ Paths /\ MadeInside
Runs(t) == Common /\ Unsettled /\ Innermost(t) /\ SessionFits(t)
Over    == Common /\ Settled /\ \A n \in Node : ~Live(n)
Inv     == Over \/ \E t \in Node : Runs(t)

-----------------------------------------------------------------------------
\* Paths.

LEMMA RootIsNode == Root \in Node /\ Root \notin Block /\ Node = Block \union {Root}
BY RootAssumption DEF Node

LEMMA PathFacts ==
  ASSUME ClientTyped, Paths, NEW n \in Node, pc[n] # Unborn
  PROVE  /\ path[n] \in Seq(Node) /\ Len(path[n]) \in Nat \ {0}
         /\ DOMAIN path[n] = 1 .. Len(path[n])
         /\ path[n][1] = Root /\ path[n][Len(path[n])] = n
         /\ \A i \in 1 .. Len(path[n]) :
              /\ path[n][i] \in Node /\ pc[path[n][i]] # Unborn
              /\ Len(path[path[n][i]]) = i
              /\ \A j \in 1 .. i : path[path[n][i]][j] = path[n][j]
              /\ i < Len(path[n]) => pc[path[n][i]] # "opening"
<1>1. path[n] \in Seq(Node) /\ path[n] # <<>>
  BY DEF ClientTyped, Paths
<1>2. Len(path[n]) \in Nat \ {0} /\ DOMAIN path[n] = 1 .. Len(path[n])
  BY <1>1, EmptySeq, LenProperties
<1>3. \A i \in 1 .. Len(path[n]) : path[n][i] \in Node
  BY <1>1, ElementOfSeq
<1>4. ASSUME NEW i \in 1 .. Len(path[n])
      PROVE  /\ Len(path[path[n][i]]) = i
             /\ \A j \in 1 .. i : path[path[n][i]][j] = path[n][j]
  <2>1. path[path[n][i]] = SubSeq(path[n], 1, i)
    BY DEF Paths
  <2>2. i \in Int /\ 1 \in Int /\ \A j \in 1 .. i : path[n][j] \in Node
    BY <1>2, <1>3
  <2>3. /\ Len(SubSeq(path[n], 1, i)) = IF 1 <= i THEN i - 1 + 1 ELSE 0
        /\ \A j \in 1 .. i - 1 + 1 : SubSeq(path[n], 1, i)[j] = path[n][1 + j - 1]
    BY <2>2, SubSeqProperties
  <2>. QED
    BY <2>1, <2>2, <2>3, <1>2
<1>. QED
  BY <1>1, <1>2, <1>3, <1>4 DEF Paths

LEMMA PathsAreInjective ==
  ASSUME ClientTyped, Paths, NEW n \in Node, pc[n] # Unborn,
         NEW i \in 1 .. Len(path[n]), NEW j \in 1 .. Len(path[n]), path[n][i] = path[n][j]
  PROVE  i = j
BY PathFacts

LEMMA PathOfRoot ==
  ASSUME ClientTyped, Paths, pc[Root] # Unborn
  PROVE  Len(path[Root]) = 1 /\ path[Root][1] = Root
<1>1. 1 \in 1 .. Len(path[Root])
  BY PathFacts, RootIsNode
<1>2. path[Root][1] = Root /\ Len(path[path[Root][1]]) = 1
  BY <1>1, PathFacts, RootIsNode
<1>. QED
  BY <1>2

\* A block inside another, and where.
LEMMA InsideIsAbove ==
  ASSUME ClientTyped, Paths, NEW n \in Node, pc[n] # Unborn,
         NEW i \in 1 .. Len(path[n])
  PROVE  path[n][i] = n <=> i = Len(path[n])
<1>1. Len(path[n]) \in 1 .. Len(path[n])
  BY PathFacts
<1>. QED
  BY <1>1, PathFacts, PathsAreInjective

\* The innermost block.
LEMMA InnermostFacts ==
  ASSUME ClientTyped, Roles, Paths, NEW t \in Node, Innermost(t)
  PROVE  /\ pc[t] # Unborn /\ pc[t] \in Running
         /\ Len(path[t]) \in Nat \ {0} /\ path[t] \in Seq(Node)
         /\ pc[Root] \in RootSteps
         /\ \A n \in Node : Live(n) => \E i \in 1 .. Len(path[t]) : n = path[t][i]
         /\ \A n \in Node : Live(n) /\ n # t => pc[n] = "body" /\ t \in Nested(n)
         /\ pc[Root] # "body" => t = Root
<1>1. pc[t] # Unborn /\ pc[t] \in Running
  BY DEF Innermost, Live, Running, Unborn
<1>2. /\ Len(path[t]) \in Nat \ {0} /\ path[t] \in Seq(Node) /\ DOMAIN path[t] = 1 .. Len(path[t])
      /\ path[t][1] = Root /\ path[t][Len(path[t])] = t
  BY <1>1, PathFacts
<1>3. \A n \in Node : Live(n) => \E i \in 1 .. Len(path[t]) : n = path[t][i]
  BY <1>2 DEF Innermost, Chain
<1>4. ASSUME NEW n \in Node, Live(n), n # t
      PROVE  pc[n] = "body" /\ t \in Nested(n)
  <2>1. PICK i \in 1 .. Len(path[t]) : n = path[t][i]
    BY <1>3, <1>4
  <2>2. i # Len(path[t])
    BY <2>1, <1>2, <1>4
  <2>3. i \in 1 .. Len(path[t]) - 1
    BY <2>2, <1>2
  <2>. QED
    BY <2>1, <2>3, <1>2, <1>4 DEF Innermost, Nested, Inside
<1>5. Live(Root)
  <2>1. 1 \in DOMAIN path[t]
    BY <1>2
  <2>2. Root \in Chain(t)
    BY <2>1, <1>2 DEF Chain
  <2>. QED
    BY <2>2, RootIsNode DEF Innermost
<1>6. pc[Root] \in RootSteps
  BY <1>5 DEF Roles, Live, Running, Ended, RootSteps
<1>. QED
  BY <1>1, <1>2, <1>3, <1>4, <1>5, <1>6, RootIsNode

\* While the transaction's own statements are in flight nothing else runs.
LEMMA OnlyRootRuns ==
  ASSUME ClientTyped, Roles, Paths, NEW t \in Node, Innermost(t), t = Root,
         NEW n \in Node, Live(n)
  PROVE  n = Root
<1>1. Len(path[t]) = 1 /\ path[t][1] = Root
  BY InnermostFacts, PathOfRoot
<1>2. PICK i \in 1 .. Len(path[t]) : n = path[t][i]
  BY InnermostFacts
<1>. QED
  BY <1>1, <1>2

\* Whoever proceeds, or returns, or awaits an answer, is the innermost block.
LEMMA InnermostActs ==
  ASSUME ClientTyped, Roles, Paths, NEW t \in Node, Innermost(t),
         NEW n \in Node, Live(n),
         pc[n] # "body" \/ \A m \in Nested(n) : ~Live(m)
  PROVE  n = t
BY InnermostFacts DEF Innermost

-----------------------------------------------------------------------------
\* How a step changes the structure: it moves the innermost block on, enters
\* a new one, answers its caller, or ends the transaction.

LEMMA StructMoves ==
  ASSUME ClientTyped, Roles, Paths, NEW t \in Node, Innermost(t), NEW x,
         x \in IF t = Root THEN RootSteps ELSE BlockSteps \ {"opening"},
         pc' = [pc EXCEPT ![t] = x],
         UNCHANGED <<path, level, depth>>
  PROVE  Roles' /\ Paths' /\ Innermost(t)'
<1>. USE DEF RootSteps, BlockSteps, Running, Unborn, Ended
<1>1. /\ pc' \in [Node -> Running \union Ended \union {Unborn}]
      /\ pc'[t] = x /\ \A n \in Node : n # t => pc'[n] = pc[n]
      /\ x \in Running /\ x # "opening"
  BY RootIsNode DEF ClientTyped
<1>2. pc[t] \in Running
  BY InnermostFacts
<1>3. Roles'
  BY <1>1, RootIsNode DEF Roles
<1>4. \A n \in Node : (pc'[n] # Unborn <=> pc[n] # Unborn) /\ (Live(n)' <=> Live(n))
  BY <1>1, <1>2 DEF Live
<1>5. Paths'
  <2>. SUFFICES ASSUME NEW n \in Node, pc'[n] # Unborn,
                       NEW i \in 1 .. Len(path[n])
       PROVE  pc'[path[n][i]] # Unborn /\ (i < Len(path[n]) => pc'[path[n][i]] # "opening")
    BY <1>4 DEF Paths
  <2>. QED
    BY <1>1, <1>4, PathFacts
<1>6. \A i \in 1 .. Len(path[t]) - 1 : pc'[path[t][i]] = "body"
  <2>. TAKE i \in 1 .. Len(path[t]) - 1
  <2>1. /\ pc[t] # Unborn /\ i \in 1 .. Len(path[t]) /\ i # Len(path[t])
        /\ path[t][i] \in Node
    BY <1>2, PathFacts
  <2>2. path[t][i] # t
    BY <2>1, InsideIsAbove
  <2>. QED
    BY <2>1, <2>2, <1>1 DEF Innermost
<1>7. Innermost(t)'
  BY <1>4, <1>6 DEF Innermost, Chain
<1>. QED
  BY <1>3, <1>5, <1>7

LEMMA StructStays ==
  ASSUME Roles, Paths, NEW t \in Node, Innermost(t), UNCHANGED <<pc, path, level, depth>>
  PROVE  Roles' /\ Paths' /\ Innermost(t)'
BY DEF Roles, Paths, Innermost, Live, Chain

LEMMA StructEnters ==
  ASSUME ClientTyped, Roles, Paths, NEW t \in Node, Innermost(t),
         NEW b \in Block, pc[b] = Unborn, pc[t] = "body",
         depth' = depth + 1,
         level' = [level EXCEPT ![b] = depth + 1],
         path' = [path EXCEPT ![b] = Append(path[t], b)],
         pc' = [pc EXCEPT ![b] = "opening"]
  PROVE  /\ Roles' /\ Paths' /\ Innermost(b)'
         /\ Len(path'[b]) = Len(path[t]) + 1
         /\ \A i \in 1 .. Len(path[t]) : path'[b][i] = path[t][i]
         /\ path'[b][Len(path[t]) + 1] = b
<1>. DEFINE L == Len(path[t])
<1>1. b \in Node /\ b # Root /\ t # b
  BY RootIsNode, InnermostFacts
<1>2. /\ L \in Nat \ {0} /\ path[t] \in Seq(Node) /\ path[t][1] = Root /\ pc[t] # Unborn
      /\ DOMAIN path[t] = 1 .. L /\ path[t][L] = t
  BY InnermostFacts, PathFacts
<1>3. /\ Len(path'[b]) = L + 1 /\ DOMAIN path'[b] = 1 .. L + 1
      /\ path'[b] \in Seq(Node) /\ path'[b] # <<>>
      /\ \A i \in 1 .. L : path'[b][i] = path[t][i]
      /\ path'[b][L + 1] = b
  <2>1. path'[b] = Append(path[t], b)
    BY <1>1 DEF ClientTyped
  <2>2. Append(path[t], b) \in Seq(Node)
    BY <1>1, <1>2, AppendProperties
  <2>3. /\ Len(Append(path[t], b)) = L + 1 /\ Append(path[t], b) # <<>>
        /\ \A i \in 1 .. L : Append(path[t], b)[i] = path[t][i]
        /\ Append(path[t], b)[L + 1] = b
    BY <1>1, <1>2, AppendProperties
  <2>. QED
    BY <2>1, <2>2, <2>3, LenProperties
<1>4. \A n \in Node : n # b => path'[n] = path[n] /\ level'[n] = level[n] /\ pc'[n] = pc[n]
  BY <1>1 DEF ClientTyped
<1>5. pc'[b] = "opening" /\ level'[b] = depth + 1
  BY <1>1 DEF ClientTyped
<1>6. Roles'
  BY <1>1, <1>4, <1>5, RootIsNode DEF Roles, BlockSteps
<1>7. \A n \in Node : pc[n] # Unborn => n # b /\ \A i \in 1 .. Len(path[n]) : path[n][i] # b
  <2>1. ASSUME NEW n \in Node, pc[n] # Unborn, NEW i \in 1 .. Len(path[n])
        PROVE  pc[path[n][i]] # Unborn
    BY <2>1, PathFacts
  <2>. QED
    BY <2>1
<1>8. Paths'
  <2>1. ASSUME NEW n \in Node, pc'[n] # Unborn, n # b
        PROVE  /\ path'[n] # <<>> /\ path'[n][1] = Root /\ path'[n][Len(path'[n])] = n
               /\ \A i \in 1 .. Len(path'[n]) :
                    /\ pc'[path'[n][i]] # Unborn
                    /\ path'[path'[n][i]] = SubSeq(path'[n], 1, i)
                    /\ i < Len(path'[n]) => pc'[path'[n][i]] # "opening"
    <3>1. pc[n] # Unborn /\ path'[n] = path[n]
      BY <2>1, <1>4
    <3>2. \A i \in 1 .. Len(path[n]) : path[n][i] \in Node /\ path[n][i] # b
      BY <3>1, <1>7, PathFacts
    <3>. QED
      BY <3>1, <3>2, <1>4 DEF Paths
  <2>2. ASSUME NEW i \in 1 .. L
        PROVE  /\ pc'[path'[b][i]] # Unborn /\ pc'[path'[b][i]] # "opening"
               /\ path'[path'[b][i]] = SubSeq(path'[b], 1, i)
    <3>1. path'[b][i] = path[t][i] /\ path[t][i] \in Node /\ path[t][i] # b /\ pc[path[t][i]] # Unborn
      BY <1>2, <1>3, <1>7, PathFacts
    <3>2. pc[path[t][i]] # "opening"
      BY <1>2, PathFacts
    <3>3. SubSeq(path'[b], 1, i) = SubSeq(path[t], 1, i)
      <4>1. i \in Int /\ 1 \in Int /\ (\A j \in 1 .. i : path[t][j] \in Node /\ path'[b][j] \in Node)
        BY <1>2, <1>3, PathFacts
      <4>2. /\ SubSeq(path[t], 1, i) \in Seq(Node) /\ SubSeq(path'[b], 1, i) \in Seq(Node)
            /\ Len(SubSeq(path[t], 1, i)) = IF 1 <= i THEN i - 1 + 1 ELSE 0
            /\ Len(SubSeq(path'[b], 1, i)) = IF 1 <= i THEN i - 1 + 1 ELSE 0
            /\ \A j \in 1 .. i - 1 + 1 : SubSeq(path[t], 1, i)[j] = path[t][1 + j - 1]
            /\ \A j \in 1 .. i - 1 + 1 : SubSeq(path'[b], 1, i)[j] = path'[b][1 + j - 1]
        BY <4>1, SubSeqProperties
      <4>3. /\ Len(SubSeq(path'[b], 1, i)) = Len(SubSeq(path[t], 1, i))
            /\ \A j \in 1 .. Len(SubSeq(path'[b], 1, i)) : SubSeq(path'[b], 1, i)[j] = SubSeq(path[t], 1, i)[j]
        BY <4>2, <1>2, <1>3
      <4>. QED
        BY <4>2, <4>3, SeqEqual
    <3>4. path'[path[t][i]] = SubSeq(path[t], 1, i)
      BY <3>1, <1>2, <1>4 DEF Paths
    <3>. QED
      BY <3>1, <3>2, <3>3, <3>4, <1>4
  <2>3. path'[b] = SubSeq(path'[b], 1, L + 1)
    BY <1>2, <1>3, SubSeqFull
  <2>4. \A i \in 1 .. L + 1 : i \in 1 .. L \/ i = L + 1
    BY <1>2
  <2>5. path'[b][1] = Root /\ 1 \in 1 .. L
    BY <1>2, <1>3
  <2>6. ASSUME NEW i \in 1 .. L + 1
        PROVE  /\ pc'[path'[b][i]] # Unborn
               /\ path'[path'[b][i]] = SubSeq(path'[b], 1, i)
               /\ i < L + 1 => pc'[path'[b][i]] # "opening"
    <3>1. CASE i \in 1 .. L
      BY <3>1, <2>2
    <3>2. CASE i = L + 1
      BY <3>2, <2>3, <1>3, <1>5, <1>2 DEF Unborn
    <3>. QED
      BY <3>1, <3>2, <2>4
  <2>. QED
    BY <2>1, <2>5, <2>6, <1>3 DEF Paths
<1>9. Innermost(b)'
  <2>1. Live(b)' /\ Len(path'[b]) = depth' + 1
    BY <1>2, <1>3, <1>5 DEF Live, Running, Innermost, ClientTyped
  <2>2. Chain(b)' = Chain(t) \union {b}
    <3>1. Chain(t) = {path[t][i] : i \in 1 .. L} /\ Chain(b)' = {path'[b][i] : i \in 1 .. L + 1}
      BY <1>2, <1>3 DEF Chain
    <3>2. ASSUME NEW n PROVE n \in Chain(b)' <=> n \in Chain(t) \/ n = b
      <4>1. ASSUME n \in Chain(b)' PROVE n \in Chain(t) \/ n = b
        <5>1. PICK i \in 1 .. L + 1 : n = path'[b][i]
          BY <3>1, <4>1
        <5>2. CASE i \in 1 .. L
          BY <5>1, <5>2, <3>1, <1>3
        <5>3. CASE i = L + 1
          BY <5>1, <5>3, <1>3
        <5>. QED
          BY <5>2, <5>3, <1>2
      <4>2. ASSUME n \in Chain(t) PROVE n \in Chain(b)'
        <5>1. PICK i \in 1 .. L : n = path[t][i]
          BY <3>1, <4>2
        <5>2. i \in 1 .. L + 1
          BY <1>2
        <5>. QED
          BY <5>1, <5>2, <3>1, <1>3
      <4>3. L + 1 \in 1 .. L + 1
        BY <1>2
      <4>. QED
        BY <4>1, <4>2, <4>3, <3>1, <1>3
    <3>. QED
      BY <3>2
  <2>3. \A n \in Node : Live(n)' <=> n \in Chain(b)'
    BY <2>1, <2>2, <1>4 DEF Innermost, Live
  <2>4. ASSUME NEW i \in 1 .. L
        PROVE  level'[path'[b][i]] = i - 1 /\ pc'[path'[b][i]] = "body"
    <3>1. path'[b][i] = path[t][i] /\ path[t][i] \in Node /\ path[t][i] # b
      BY <1>2, <1>3, <1>7, PathFacts
    <3>2. level[path[t][i]] = i - 1
      BY DEF Innermost
    <3>3. pc[path[t][i]] = "body"
      <4>1. CASE i = L
        BY <4>1, <1>2
      <4>2. CASE i # L
        <5>1. i \in 1 .. L - 1
          BY <4>2, <1>2
        <5>. QED
          BY <5>1 DEF Innermost
      <4>. QED
        BY <4>1, <4>2
    <3>. QED
      BY <3>1, <3>2, <3>3, <1>4
  <2>5. level'[path'[b][L + 1]] = L
    BY <1>3, <1>5, <1>2 DEF Innermost, ClientTyped
  <2>6. \A i \in 1 .. L + 1 : level'[path'[b][i]] = i - 1
    <3>. TAKE i \in 1 .. L + 1
    <3>1. CASE i \in 1 .. L
      BY <3>1, <2>4
    <3>2. CASE i = L + 1
      BY <3>2, <2>5, <1>2
    <3>. QED
      BY <3>1, <3>2, <1>2
  <2>7. \A i \in 1 .. L + 1 - 1 : pc'[path'[b][i]] = "body"
    <3>1. L + 1 - 1 = L
      BY <1>2
    <3>. QED
      BY <2>4, <3>1
  <2>8. /\ \A i \in 1 .. Len(path'[b]) : level'[path'[b][i]] = i - 1
        /\ \A i \in 1 .. Len(path'[b]) - 1 : pc'[path'[b][i]] = "body"
    BY <2>6, <2>7, <1>3
  <2>. QED
    BY <2>1, <2>3, <2>8 DEF Innermost
<1>. QED
  BY <1>3, <1>6, <1>8, <1>9

\* What Answers and AnswersLeakingDepth do to pc: b is the innermost, and its caller next.
LEMMA StructAnswers ==
  ASSUME ClientTyped, Roles, Paths, NEW t \in Block, Innermost(t), NEW p, p = Caller(t),
         NEW how \in {"ok", "err"},
         depth' = depth - 1,
         pc' = [pc EXCEPT ![t] = how],
         UNCHANGED <<path, level>>
  PROVE  /\ p \in Node /\ p # t /\ pc[p] = "body"
         /\ depth' \in Nat /\ Len(path[t]) > 1
         /\ p = path[t][Len(path[t]) - 1] /\ Len(path[p]) = Len(path[t]) - 1
         /\ \A i \in 1 .. Len(path[t]) - 1 : path[p][i] = path[t][i]
         /\ Roles' /\ Paths' /\ Innermost(p)'
<1>. DEFINE L == Len(path[t])
<1>0. p = path[t][L - 1]
  BY DEF Caller
<1>1. t \in Node /\ t # Root
  BY RootIsNode
<1>2. /\ L \in Nat \ {0} /\ path[t] \in Seq(Node) /\ path[t][1] = Root /\ pc[t] # Unborn
      /\ DOMAIN path[t] = 1 .. L /\ path[t][L] = t
  BY <1>1, InnermostFacts, PathFacts
<1>3. L > 1 /\ L - 1 \in 1 .. L /\ L \in 1 .. L
  BY <1>1, <1>2
<1>4. /\ p \in Node /\ p # t /\ pc[p] = "body" /\ pc[p] # Unborn
      /\ Len(path[p]) = L - 1 /\ DOMAIN path[p] = 1 .. L - 1
      /\ \A i \in 1 .. L - 1 : path[p][i] = path[t][i]
  <2>1. p \in Node /\ pc[p] # Unborn /\ Len(path[p]) = L - 1
        /\ \A i \in 1 .. L - 1 : path[p][i] = path[t][i]
    BY <1>0, <1>1, <1>2, <1>3, PathFacts
  <2>2. p # t
    BY <2>1, <1>2, <1>3
  <2>3. pc[p] = "body"
    <3>1. L - 1 \in 1 .. L - 1
      BY <1>2, <1>3
    <3>. QED
      BY <3>1, <1>0 DEF Innermost
  <2>4. DOMAIN path[p] = 1 .. L - 1
    BY <2>1, PathFacts
  <2>. QED
    BY <2>1, <2>2, <2>3, <2>4
<1>5. /\ pc'[t] = how /\ \A n \in Node : n # t => pc'[n] = pc[n]
  BY <1>1 DEF ClientTyped
<1>6. depth' \in Nat
  BY <1>2, <1>3 DEF ClientTyped, Innermost
<1>7. Roles'
  BY <1>5, <1>1, RootIsNode DEF Roles, Ended
<1>8. \A n \in Node : (pc'[n] # Unborn <=> pc[n] # Unborn) /\ (pc[n] # "opening" => pc'[n] # "opening")
  BY <1>5, <1>2 DEF Unborn
<1>9. Paths'
  <2>. SUFFICES ASSUME NEW n \in Node, pc'[n] # Unborn,
                       NEW i \in 1 .. Len(path[n])
       PROVE  pc'[path[n][i]] # Unborn /\ (i < Len(path[n]) => pc'[path[n][i]] # "opening")
    BY <1>8 DEF Paths
  <2>. QED
    BY <1>8, PathFacts
<1>10. Innermost(p)'
  <2>1. Live(p)' /\ Len(path[p]) = depth' + 1
    BY <1>2, <1>4, <1>5 DEF Live, Running, Innermost, ClientTyped
  <2>2. \A i \in 1 .. L - 1 : path[t][i] \in Node /\ path[t][i] # t
    <3>. TAKE i \in 1 .. L - 1
    <3>1. i \in 1 .. L /\ i # L
      BY <1>2
    <3>. QED
      <4>1. path[t][i] \in Node
        BY <3>1, <1>1, <1>2, PathFacts
      <4>2. path[t][i] = t <=> i = Len(path[t])
        BY <3>1, <1>1, <1>2, InsideIsAbove
      <4>. QED
        BY <3>1, <4>1, <4>2
  <2>3. ASSUME NEW n \in Node PROVE Live(n)' <=> n \in Chain(p)'
    <3>1. Chain(t) = {path[t][i] : i \in 1 .. L} /\ Chain(p)' = {path[t][i] : i \in 1 .. L - 1}
      <4>1. Chain(p)' = {path[p][i] : i \in 1 .. L - 1}
        BY <1>4 DEF Chain
      <4>2. {path[p][i] : i \in 1 .. L - 1} = {path[t][i] : i \in 1 .. L - 1}
        BY <1>4
      <4>. QED
        BY <4>1, <4>2, <1>2 DEF Chain
    <3>2. n # t => (n \in Chain(t) <=> n \in Chain(p)')
      <4>1. ASSUME n # t, n \in Chain(t) PROVE n \in Chain(p)'
        <5>1. PICK i \in 1 .. L : n = path[t][i]
          BY <3>1, <4>1
        <5>2. i \in 1 .. L - 1
          BY <5>1, <4>1, <1>2
        <5>. QED
          BY <5>1, <5>2, <3>1
      <4>2. ASSUME n \in Chain(p)' PROVE n \in Chain(t)
        <5>1. PICK i \in 1 .. L - 1 : n = path[t][i]
          BY <3>1, <4>2
        <5>2. i \in 1 .. L
          BY <1>2
        <5>. QED
          BY <5>1, <5>2, <3>1
      <4>. QED
        BY <4>1, <4>2
    <3>3. t \notin Chain(p)'
      BY <3>1, <2>2
    <3>4. ~Live(t)'
      BY <1>5 DEF Live, Running
    <3>. QED
      BY <3>2, <3>3, <3>4, <1>5 DEF Innermost, Live
  <2>4. ASSUME NEW i \in 1 .. L - 1
        PROVE  level[path[p][i]] = i - 1 /\ pc'[path[p][i]] = "body"
    <3>1. path[p][i] = path[t][i] /\ path[t][i] \in Node /\ path[t][i] # t /\ i \in 1 .. L
      BY <1>2, <1>4, <2>2
    <3>. QED
      BY <3>1, <1>5 DEF Innermost
  <2>5. /\ \A i \in 1 .. Len(path[p]) : level[path[p][i]] = i - 1
        /\ \A i \in 1 .. Len(path[p]) - 1 : pc'[path[p][i]] = "body"
    BY <2>4, <1>4, <1>2
  <2>. QED
    BY <2>1, <2>3, <2>5 DEF Innermost
<1>. QED
  BY <1>0, <1>3, <1>4, <1>6, <1>7, <1>9, <1>10

\* Over: no block is left running.
LEMMA StructEnds ==
  ASSUME ClientTyped, Roles, Paths, path' = path,
         \A n \in Node : IF n = Root \/ Live(n) THEN pc'[n] \in Ended ELSE pc'[n] = pc[n],
         pc[Root] # Unborn
  PROVE  Roles' /\ Paths' /\ ~Live(Root)' /\ \A b \in Block : ~Live(b)'
<1>2. \A n \in Node : ~Live(n)'
  BY DEF Live, Ended, Running
<1>3. Roles'
  BY RootIsNode DEF Roles
<1>4. \A n \in Node : (pc[n] # Unborn => pc'[n] # Unborn) /\ (pc'[n] # Unborn => pc[n] # Unborn)
                     /\ pc'[n] # "opening"
  <2>. TAKE n \in Node
  <2>1. CASE n = Root \/ Live(n)
    BY <2>1 DEF Ended, Unborn, Live, Running
  <2>2. CASE ~(n = Root \/ Live(n))
    BY <2>2 DEF Live, Running
  <2>. QED
    BY <2>1, <2>2
<1>5. Paths'
  <2>. SUFFICES ASSUME NEW n \in Node, pc'[n] # Unborn,
                       NEW i \in 1 .. Len(path[n])
       PROVE  pc'[path[n][i]] # Unborn /\ pc'[path[n][i]] # "opening"
    BY <1>4 DEF Paths
  <2>. QED
    BY <1>4, PathFacts
<1>. QED
  BY <1>2, <1>3, <1>5, RootIsNode

-----------------------------------------------------------------------------
\* What a client may hear.

LEMMA ReplyOf ==
  ASSUME NEW s, NEW n, NEW w
  PROVE  /\ \A a \in Begin(s) : a.reply \in {"ok"} \union Errors
         /\ \A a \in Savepoint(s, n) : a.reply \in {"ok"} \union Errors
         /\ \A a \in Release(s, n) : a.reply \in {"ok"} \union Errors
         /\ \A a \in RollbackTo(s, n) : a.reply \in {"ok"} \union Errors
         /\ \A a \in Commit(s) : a.reply \in {"ok"} \union Errors
         /\ \A a \in Rollback(s) : a.reply \in {"ok"} \union Errors
         /\ \A a \in Statement(s, w) : a.reply \in {"ok"} \union Errors
<1>. USE DEF Errors, Answer, Ok, Refused, Conflicted
<1>1. \A a \in Begin(s) : a.reply \in {"ok"} \union Errors
  BY DEF Begin
<1>2. \A a \in Savepoint(s, n) : a.reply \in {"ok"} \union Errors
  BY DEF Savepoint
<1>3. \A a \in Release(s, n) : a.reply \in {"ok"} \union Errors
  BY DEF Release
<1>4. \A a \in RollbackTo(s, n) : a.reply \in {"ok"} \union Errors
  BY DEF RollbackTo
<1>5. \A a \in Commit(s) : a.reply \in {"ok"} \union Errors
  BY DEF Commit
<1>6. \A a \in Rollback(s) : a.reply \in {"ok"} \union Errors
  BY DEF Rollback
<1>7. \A a \in Statement(s, w) : a.reply \in {"ok"} \union Errors
  BY DEF Statement
<1>. QED
  BY <1>1, <1>2, <1>3, <1>4, <1>5, <1>6, <1>7

\* An answer of the engine, or an error and a connection that is gone.
LEMMA HeardIs ==
  ASSUME NEW s, NEW answers, NEW a \in Heard(s, answers)
  PROVE  \/ s.tx # "gone" /\ a \in answers
         \/ /\ a.reply = "refused" /\ a.session = Gone
            /\ a.kept = {} \/ (s.tx # "gone" /\ \E e \in answers : a.kept = e.kept)
BY DEF Heard, Answer

LEMMA RepliesAreTyped ==
  ASSUME NEW s, NEW answers, NEW a \in Heard(s, answers),
         \A e \in answers : e.reply \in {"ok"} \union Errors
  PROVE  a.reply \in {"ok"} \union Errors
BY HeardIs DEF Errors

-----------------------------------------------------------------------------
\* The structure after each action, whatever the server answers.

LEMMA OwesTyped ==
  ASSUME ClientTyped, NEW n \in Node, NEW S, NEW kind \in Errors
  PROVE  [owes EXCEPT ![n] = Unless(S, kind, @)] \in [Node -> Errors \union {"none"}]
BY DEF ClientTyped, Unless

LEMMA BeginOnStruct ==
  ASSUME ClientTyped, Roles, Paths, NEW t \in Node, Innermost(t), BeginOn
  PROVE  /\ t = Root /\ ClientTyped' /\ Roles' /\ Paths'
         /\ \/ pc' = [pc EXCEPT ![Root] = "body"] /\ Innermost(t)'
            \/ pc'[Root] = "err" /\ ~Live(Root)' /\ \A b \in Block : ~Live(b)'
<1>1. t = Root /\ pc[Root] = "begin" /\ UNCHANGED <<path, level, depth>>
  BY InnermostFacts DEF BeginOn
<1>2. CASE pc' = [pc EXCEPT ![Root] = "body"] /\ conn' = conn
  <2>1. Roles' /\ Paths' /\ Innermost(t)'
    BY <1>1, <1>2, StructMoves DEF RootSteps
  <2>2. ClientTyped'
    BY <1>2 DEF ClientTyped, BeginOn, Running
  <2>. QED
    BY <1>1, <1>2, <2>1, <2>2
<1>3. CASE pc' = [pc EXCEPT ![Root] = "err"] /\ conn' = "closed"
  <2>1. /\ pc' \in [Node -> Running \union Ended \union {Unborn}]
        /\ pc'[Root] = "err" /\ \A n \in Node : n # Root => pc'[n] = pc[n]
    BY <1>3, RootIsNode DEF ClientTyped, Ended
  <2>2. \A n \in Node : Live(n) => n = Root
    BY <1>1, OnlyRootRuns
  <2>3. Roles' /\ Paths' /\ ~Live(Root)' /\ \A b \in Block : ~Live(b)'
    <3>1. \A n \in Node : IF n = Root \/ Live(n) THEN pc'[n] \in Ended ELSE pc'[n] = pc[n]
      BY <2>1, <2>2 DEF Ended
    <3>. QED
      BY <1>1, <3>1, StructEnds DEF Unborn
  <2>4. ClientTyped'
    BY <1>3, <2>1 DEF ClientTyped, BeginOn
  <2>. QED
    BY <1>1, <2>1, <2>3, <2>4
<1>. QED
  BY <1>2, <1>3 DEF BeginOn

LEMMA ExecuteStruct ==
  ASSUME ClientTyped, Roles, Paths, ~Siblings, NEW t \in Node, Innermost(t),
         NEW n \in Node, NEW w \in Write, Execute(n, w)
  PROVE  n = t /\ pc[t] = "body" /\ ClientTyped' /\ Roles' /\ Paths' /\ Innermost(t)'
<1>1. n = t /\ pc[t] = "body"
  BY InnermostActs DEF Execute, Proceeds, Live, Running
<1>2. Roles' /\ Paths' /\ Innermost(t)'
  BY StructStays DEF Execute
<1>3. PICK a \in Heard(session, Statement(session, w)) :
         /\ made' = IF a.reply = "ok" THEN made \union {w} ELSE made
         /\ owes' = IF a.reply = "ok" THEN owes
                    ELSE [owes EXCEPT ![n] = Unless(StmtSurvives[family], a.reply, @)]
  BY DEF Execute
<1>4. a.reply \in {"ok"} \union Errors
  BY ReplyOf, RepliesAreTyped
<1>5. owes' \in [Node -> Errors \union {"none"}]
  BY <1>3, <1>4, OwesTyped DEF ClientTyped
<1>6. ClientTyped'
  BY <1>3, <1>5 DEF ClientTyped, Execute, client
<1>. QED
  BY <1>1, <1>2, <1>6

LEMMA EnterStruct ==
  ASSUME ClientTyped, Roles, Paths, ~Siblings, NEW t \in Node, Innermost(t),
         NEW p \in Node, NEW b \in Block, EnterSavepoint(p, b)
  PROVE  /\ p = t /\ pc[t] = "body" /\ ClientTyped' /\ Roles' /\ Paths' /\ Innermost(b)'
         /\ Len(path'[b]) = Len(path[t]) + 1
         /\ \A i \in 1 .. Len(path[t]) : path'[b][i] = path[t][i]
         /\ path'[b][Len(path[t]) + 1] = b
<1>1. p = t /\ pc[t] = "body"
  BY InnermostActs DEF EnterSavepoint, Proceeds, Live, Running
<1>2. /\ pc[b] = Unborn /\ depth' = depth + 1
      /\ level' = [level EXCEPT ![b] = depth + 1]
      /\ path' = [path EXCEPT ![b] = Append(path[t], b)]
      /\ pc' = [pc EXCEPT ![b] = "opening"]
  BY <1>1 DEF EnterSavepoint, LevelAt
<1>3. Append(path[t], b) \in Seq(Node)
  BY RootIsNode, AppendProperties DEF ClientTyped
<1>4. ClientTyped'
  BY <1>2, <1>3 DEF ClientTyped, EnterSavepoint, client, Running
<1>. QED
  BY <1>1, <1>2, <1>4, StructEnters

\* The innermost block t goes on to x.
Moves(t, x) ==
    /\ ClientTyped' /\ Roles' /\ Paths' /\ Innermost(t)'
    /\ pc' = [pc EXCEPT ![t] = x] /\ owes' = owes

\* Block t answers its caller p, who is the innermost block again.
RepliesTo(p, t, how, kind) ==
    /\ p # t /\ pc[p] = "body" /\ Len(path[t]) > 1
    /\ p = path[t][Len(path[t]) - 1] /\ Len(path[p]) = Len(path[t]) - 1
    /\ \A i \in 1 .. Len(path[t]) - 1 : path[p][i] = path[t][i]
    /\ ClientTyped' /\ Roles' /\ Paths' /\ Innermost(p)'
    /\ pc' = [pc EXCEPT ![t] = how]
    /\ owes' = IF how = "ok" THEN owes
               ELSE [owes EXCEPT ![p] = Unless(NestedSurvives[family], kind, @)]
Replies(t, how, kind) == \E p \in Node : RepliesTo(p, t, how, kind)

\* The savepoint call of the innermost block answers who called it.
LEMMA AnswersStruct ==
  ASSUME ClientTyped, Roles, Paths, NEW t \in Block, Innermost(t),
         NEW how, NEW kind, Answers(t, how, kind),
         how = "ok" \/ (how = "err" /\ kind \in Errors),
         UNCHANGED <<family, client, path, level, out, made>>
  PROVE  Replies(t, how, kind)
<1>0. PICK p : p = Caller(t)
  OBVIOUS
<1>1. /\ depth' = depth - 1 /\ pc' = [pc EXCEPT ![t] = how]
      /\ owes' = IF how = "ok" THEN owes
                 ELSE [owes EXCEPT ![p] = Unless(NestedSurvives[family], kind, @)]
  BY <1>0 DEF Answers
<1>2. /\ p \in Node /\ p # t /\ pc[p] = "body" /\ Len(path[t]) > 1
      /\ p = path[t][Len(path[t]) - 1] /\ Len(path[p]) = Len(path[t]) - 1
      /\ \A i \in 1 .. Len(path[t]) - 1 : path[p][i] = path[t][i]
      /\ Roles' /\ Paths' /\ Innermost(p)' /\ depth' \in Nat
  BY <1>0, <1>1, StructAnswers
<1>3. owes' \in [Node -> Errors \union {"none"}]
  BY <1>1, <1>2, OwesTyped DEF ClientTyped
<1>4. ClientTyped'
  BY <1>1, <1>2, <1>3 DEF ClientTyped, client, Ended
<1>. QED
  BY <1>1, <1>2, <1>4 DEF Replies, RepliesTo

\* A block whose statement is in flight is the innermost.
LEMMA AwaitingIsInnermost ==
  ASSUME ClientTyped, Roles, Paths, NEW t \in Node, Innermost(t),
         NEW b \in Node, Live(b), pc[b] # "body"
  PROVE  b = t
BY InnermostActs

LEMMA ReturnStruct ==
  ASSUME ClientTyped, Roles, Paths, NEW t \in Node, Innermost(t),
         NEW n \in Node, NEW result \in {"ok", "err"}, Return(n, result)
  PROVE  n = t /\ pc[t] = "body" /\ ClientTyped' /\ Roles' /\ Paths' /\ Innermost(t)'
<1>1. n = t /\ pc[t] = "body"
  BY InnermostActs DEF Return, Live, Running
<1>. DEFINE x == IF t = Root THEN IF result = "ok" THEN "committing" ELSE "rollingback"
                 ELSE IF result = "ok" THEN "releasing" ELSE "undoing"
<1>2. pc' = [pc EXCEPT ![t] = x] /\ UNCHANGED <<path, level, depth>>
  BY <1>1 DEF Return
<1>3. x \in IF t = Root THEN RootSteps ELSE BlockSteps \ {"opening"}
  BY DEF RootSteps, BlockSteps
<1>4. x \in Running
  BY DEF Running
<1>5. Roles' /\ Paths' /\ Innermost(t)'
  BY <1>2, <1>3, StructMoves
<1>6. ClientTyped'
  BY <1>1, <1>2, <1>4 DEF ClientTyped, Return, server
<1>. QED
  BY <1>1, <1>5, <1>6

LEMMA EndStruct ==
  ASSUME ClientTyped, Roles, Paths, NEW t \in Node, Innermost(t), End
  PROVE  /\ t = Root /\ ClientTyped' /\ Roles' /\ Paths'
         /\ ~Live(Root)' /\ \A b \in Block : ~Live(b)'
<1>1. /\ pc[Root] \in {"committing", "rollingback"} /\ t = Root
      /\ UNCHANGED <<family, finished, depth, path, level, out, owes, made>>
  BY InnermostFacts DEF End
<1>2. PICK reply : conn' = Disposal(reply) /\ pc' = [pc EXCEPT ![Root] = Outcome(reply, @)]
  BY DEF End
<1>3. /\ pc' \in [Node -> Running \union Ended \union {Unborn}]
      /\ pc'[Root] \in Ended /\ \A n \in Node : n # Root => pc'[n] = pc[n]
  <2>1. Outcome(reply, pc[Root]) \in Ended
    BY DEF Outcome, Ended
  <2>. QED
    BY <1>2, <2>1, RootIsNode DEF ClientTyped
<1>4. \A n \in Node : Live(n) => n = Root
  BY <1>1, OnlyRootRuns
<1>5. Roles' /\ Paths' /\ ~Live(Root)' /\ \A b \in Block : ~Live(b)'
  <2>1. \A n \in Node : IF n = Root \/ Live(n) THEN pc'[n] \in Ended ELSE pc'[n] = pc[n]
    BY <1>3, <1>4
  <2>. QED
    BY <1>1, <2>1, StructEnds DEF Unborn
<1>6. ClientTyped'
  BY <1>1, <1>2, <1>3 DEF ClientTyped, Disposal
<1>. QED
  BY <1>1, <1>5, <1>6

LEMMA DropStruct ==
  ASSUME ClientTyped, Roles, Paths, NEW t \in Node, Innermost(t),
         DropBegin \/ DropTransaction \/ DropEnd
  PROVE  ClientTyped' /\ Roles' /\ Paths' /\ ~Live(Root)' /\ \A b \in Block : ~Live(b)'
<1>1. /\ UNCHANGED <<family, finished, depth, path, level, out, owes, made>>
      /\ conn' \in {"pool", "closed"} /\ pc[Root] \in RootSteps
      /\ Cancelled(Node) \/ (Cancelled({Root}) /\ t = Root)
  BY InnermostFacts DEF DropBegin, DropTransaction, DropEnd, RootSteps
<1>2. Live(Root)
  BY <1>1 DEF Live, Running, RootSteps
<1>3. \A n \in Node : pc'[n] = IF Live(n) THEN "cancelled" ELSE pc[n]
  <2>1. CASE Cancelled(Node)
    BY <2>1 DEF Cancelled
  <2>2. CASE Cancelled({Root}) /\ t = Root
    <3>1. \A n \in Node : Live(n) => n = Root
      BY <2>2, OnlyRootRuns
    <3>2. \A n \in Node : pc'[n] = IF n = Root /\ Live(n) THEN "cancelled" ELSE pc[n]
      BY <2>2 DEF Cancelled
    <3>. QED
      BY <3>1, <3>2
  <2>. QED
    BY <1>1, <2>1, <2>2
<1>4. pc' \in [Node -> Running \union Ended \union {Unborn}]
  <2>1. pc' = [n \in Node |-> pc'[n]]
    BY <1>1 DEF Cancelled
  <2>. QED
    BY <1>3, <2>1 DEF ClientTyped, Ended
<1>5. Roles' /\ Paths' /\ ~Live(Root)' /\ \A b \in Block : ~Live(b)'
  <2>1. pc[Root] # Unborn
    BY <1>1 DEF RootSteps, Unborn
  <2>2. \A n \in Node : IF n = Root \/ Live(n) THEN pc'[n] \in Ended ELSE pc'[n] = pc[n]
    BY <1>2, <1>3 DEF Ended
  <2>. QED
    BY <1>1, <2>1, <2>2, StructEnds
<1>6. ClientTyped'
  BY <1>1, <1>4 DEF ClientTyped
<1>. QED
  BY <1>5, <1>6

\* What the four statements of a savepoint call do.
LEMMA OpenStruct ==
  ASSUME ClientTyped, Roles, Paths, NEW t \in Node, Innermost(t), NEW b \in Block,
         OpenSavepoint(b)
  PROVE  /\ b = t /\ pc[t] = "opening"
         /\ \E a \in Heard(session, Savepoint(session, level[t])) :
              /\ Hears(a) /\ a.reply \in {"ok"} \union Errors
              /\ IF a.reply = "ok" THEN Moves(t, "body") ELSE Replies(t, "err", a.reply)
<1>1. b = t /\ pc[t] = "opening" /\ t \in Block /\ t # Root
  BY InnermostActs, RootIsNode DEF OpenSavepoint, Live, Running
<1>2. PICK a \in Heard(session, Savepoint(session, level[t])) :
        /\ Hears(a)
        /\ IF a.reply = "ok"
             THEN pc' = [pc EXCEPT ![t] = "body"] /\ UNCHANGED <<depth, owes>>
             ELSE Answers(t, "err", a.reply)
  BY <1>1 DEF OpenSavepoint
<1>3. a.reply \in {"ok"} \union Errors
  BY ReplyOf, RepliesAreTyped
<1>4. UNCHANGED <<family, client, path, level, out, made>>
  BY DEF OpenSavepoint
<1>5. CASE a.reply = "ok"
  <2>1. pc' = [pc EXCEPT ![t] = "body"] /\ UNCHANGED <<path, level, depth, owes>>
    BY <1>2, <1>4, <1>5
  <2>2. "body" \in IF t = Root THEN RootSteps ELSE BlockSteps \ {"opening"}
    BY DEF RootSteps, BlockSteps
  <2>3. Roles' /\ Paths' /\ Innermost(t)'
    BY <2>1, <2>2, StructMoves
  <2>4. ClientTyped'
    BY <2>1, <1>4 DEF ClientTyped, client, Running
  <2>. QED
    BY <1>1, <1>2, <1>3, <1>5, <2>1, <2>3, <2>4 DEF Moves
<1>6. CASE a.reply # "ok"
  <2>1. a.reply \in Errors
    BY <1>3, <1>6
  <2>2. Answers(t, "err", a.reply)
    BY <1>2, <1>4, <1>6 DEF ClientTyped
  <2>3. Replies(t, "err", a.reply)
    BY <1>1, <1>4, <2>1, <2>2, AnswersStruct
  <2>. QED
    BY <1>1, <1>2, <1>3, <1>6, <2>3
<1>. QED
  BY <1>5, <1>6

LEMMA OwnErrorIs ==
  ASSUME ClientTyped, NEW t \in Node PROVE OwnError(t) \in Errors
BY DEF ClientTyped, OwnError, Errors

LEMMA ReleaseStruct ==
  ASSUME ClientTyped, Roles, Paths, NEW t \in Node, Innermost(t), NEW b \in Block,
         ReleaseSavepoint(b)
  PROVE  /\ b = t /\ pc[t] = "releasing"
         /\ \E a \in Heard(session, Release(session, level[t])) :
              /\ Hears(a) /\ a.reply \in {"ok"} \union Errors
              /\ Replies(t, IF a.reply = "ok" THEN "ok" ELSE "err", a.reply)
<1>1. b = t /\ pc[t] = "releasing" /\ t \in Block /\ Cleanup(t) = Release(session, level[t])
  BY InnermostActs, RootIsNode DEF ReleaseSavepoint, Live, Running, Cleanup
<1>2. PICK a \in Heard(session, Release(session, level[t])) :
        /\ Hears(a) /\ Answers(t, IF a.reply = "ok" THEN "ok" ELSE "err", a.reply)
  BY <1>1 DEF ReleaseSavepoint
<1>3. a.reply \in {"ok"} \union Errors
  BY ReplyOf, RepliesAreTyped
<1>4. UNCHANGED <<family, client, path, level, out, made>>
  BY <1>2 DEF ReleaseSavepoint, ClientTyped
<1>. DEFINE how == IF a.reply = "ok" THEN "ok" ELSE "err"
<1>5. Answers(t, how, a.reply) /\ (how = "ok" \/ (how = "err" /\ a.reply \in Errors))
  BY <1>2, <1>3
<1>. HIDE DEF how
<1>6. Replies(t, how, a.reply)
  BY <1>1, <1>4, <1>5, AnswersStruct
<1>. QED
  BY <1>1, <1>2, <1>3, <1>6 DEF how

LEMMA UndoStruct ==
  ASSUME ClientTyped, Roles, Paths, NEW t \in Node, Innermost(t), NEW b \in Block,
         UndoSavepoint(b)
  PROVE  /\ b = t /\ pc[t] = "undoing"
         /\ \E a \in Heard(session, RollbackTo(session, level[t])) :
              /\ Hears(a) /\ a.reply \in {"ok"} \union Errors
              /\ IF a.reply = "ok" THEN Moves(t, "forgetting")
                 ELSE Replies(t, "err", OwnError(t))
<1>1. b = t /\ pc[t] = "undoing" /\ t \in Block /\ Cleanup(t) = RollbackTo(session, level[t])
      /\ t # Root
  BY InnermostActs, RootIsNode DEF UndoSavepoint, Live, Running, Cleanup
<1>2. PICK a \in Heard(session, RollbackTo(session, level[t])) :
        /\ Hears(a)
        /\ IF a.reply = "ok"
             THEN pc' = [pc EXCEPT ![t] = "forgetting"] /\ UNCHANGED <<depth, owes>>
             ELSE Answers(t, "err", OwnError(t))
  BY <1>1 DEF UndoSavepoint
<1>3. a.reply \in {"ok"} \union Errors
  BY ReplyOf, RepliesAreTyped
<1>4. UNCHANGED <<family, client, path, level, out, made>>
  BY <1>2 DEF UndoSavepoint, ClientTyped
<1>5. CASE a.reply = "ok"
  <2>1. pc' = [pc EXCEPT ![t] = "forgetting"] /\ UNCHANGED <<path, level, depth, owes>>
    BY <1>2, <1>4, <1>5
  <2>2. "forgetting" \in IF t = Root THEN RootSteps ELSE BlockSteps \ {"opening"}
    BY <1>1 DEF RootSteps, BlockSteps
  <2>3. Roles' /\ Paths' /\ Innermost(t)'
    BY <2>1, <2>2, StructMoves
  <2>4. ClientTyped'
    BY <2>1, <1>4 DEF ClientTyped, client, Running
  <2>. QED
    BY <1>1, <1>2, <1>3, <1>5, <2>1, <2>3, <2>4 DEF Moves
<1>6. CASE a.reply # "ok"
  <2>1. OwnError(t) \in Errors /\ Answers(t, "err", OwnError(t))
    BY <1>2, <1>6, OwnErrorIs
  <2>. DEFINE kind == OwnError(t)
  <2>2. kind \in Errors /\ Answers(t, "err", kind)
    BY <2>1
  <2>. HIDE DEF kind
  <2>3. Replies(t, "err", kind)
    BY <1>1, <1>4, <2>2, AnswersStruct
  <2>. QED
    BY <1>1, <1>2, <1>3, <1>6, <2>3 DEF kind
<1>. QED
  BY <1>5, <1>6

LEMMA ForgetStruct ==
  ASSUME ClientTyped, Roles, Paths, NEW t \in Node, Innermost(t), NEW b \in Block,
         ForgetSavepoint(b)
  PROVE  /\ b = t /\ pc[t] = "forgetting"
         /\ \E a \in Heard(session, Release(session, level[t])) :
              /\ Hears(a) /\ a.reply \in {"ok"} \union Errors
              /\ Replies(t, "err", OwnError(t))
<1>1. b = t /\ pc[t] = "forgetting" /\ t \in Block /\ Cleanup(t) = Release(session, level[t])
  BY InnermostActs, RootIsNode DEF ForgetSavepoint, Live, Running, Cleanup
<1>2. PICK a \in Heard(session, Release(session, level[t])) :
        /\ Hears(a) /\ Answers(t, "err", OwnError(t))
  BY <1>1 DEF ForgetSavepoint
<1>3. a.reply \in {"ok"} \union Errors
  BY ReplyOf, RepliesAreTyped
<1>4. UNCHANGED <<family, client, path, level, out, made>>
  BY <1>2 DEF ForgetSavepoint, ClientTyped
<1>. DEFINE kind == OwnError(t)
<1>5. kind \in Errors /\ Answers(t, "err", kind)
  BY <1>2, OwnErrorIs
<1>. HIDE DEF kind
<1>6. Replies(t, "err", kind)
  BY <1>1, <1>4, <1>5, AnswersStruct
<1>. QED
  BY <1>1, <1>2, <1>3, <1>6 DEF kind

-----------------------------------------------------------------------------
\* Names and levels, whatever the server answers.

LEMMA StructInit == Init => ClientTyped /\ Structured
<1>. SUFFICES ASSUME Init PROVE ClientTyped /\ Structured
  OBVIOUS
<1>. USE RootIsNode, ParameterAssumption DEF Init
<1>1. ClientTyped
  <2>1. <<Root>> \in Seq(Node) /\ <<>> \in Seq(Node)
    OBVIOUS
  <2>. QED
    BY <2>1 DEF ClientTyped, Running, Ended, Unborn, Errors
<1>2. Roles
  BY DEF Roles, RootSteps, Unborn
<1>3. /\ path[Root] = <<Root>> /\ Len(<<Root>>) = 1 /\ <<Root>>[1] = Root
      /\ DOMAIN <<Root>> = 1 .. 1 /\ <<Root>> # <<>> /\ <<Root>> \in Seq(Node)
  OBVIOUS
<1>4. SubSeq(<<Root>>, 1, 1) = <<Root>>
  BY <1>3, SubSeqFull
<1>5. \A i \in 1 .. 1 : i = 1
  OBVIOUS
<1>6. Paths
  <2>. SUFFICES ASSUME NEW n \in Node, pc[n] # Unborn
       PROVE  n = Root
    BY <1>3, <1>4, <1>5 DEF Paths, Unborn
  <2>. QED
    BY DEF Unborn
<1>7. Innermost(Root)
  BY <1>3, <1>5 DEF Innermost, Live, Chain, Running, Unborn
<1>. QED
  BY <1>1, <1>2, <1>6, <1>7 DEF Structured, Live, Running

\* Once the transaction is over nothing moves.
LEMMA OverIsOver ==
  ASSUME ClientTyped, Roles, ~Live(Root), \A b \in Block : ~Live(b), [Next]_vars
  PROVE  UNCHANGED vars
<1>1. \A n \in Node : pc[n] \notin Running
  BY RootIsNode DEF Live
<1>2. pc[Root] \notin {"begin", "body", "committing", "rollingback"}
  BY <1>1, RootIsNode DEF Running
<1>3. \A b \in Block : ~DropSavepoint(b)
  BY DEF DropSavepoint
<1>4. \A b \in Block : pc[b] \notin {"opening", "releasing", "undoing", "forgetting"}
  BY <1>1, RootIsNode DEF Running
<1>5. \A b \in Block : /\ ~OpenSavepoint(b) /\ ~ReleaseSavepoint(b)
                       /\ ~UndoSavepoint(b) /\ ~ForgetSavepoint(b)
  BY <1>4 DEF OpenSavepoint, ReleaseSavepoint, UndoSavepoint, ForgetSavepoint
<1>6. \A n \in Node : pc[n] # "body"
  BY <1>1 DEF Running
<1>7. ~BeginOn /\ ~End /\ ~DropBegin /\ ~DropTransaction /\ ~DropEnd
  BY <1>2 DEF BeginOn, End, DropBegin, DropTransaction, DropEnd
<1>8. \A w \in Write : ~Execute(w[1], w)
  BY <1>6 DEF Execute, Proceeds, Write
<1>9. \A n \in Node : (\A b \in Block : ~EnterSavepoint(n, b))
                      /\ \A result \in {"ok", "err"} : ~Return(n, result)
  BY <1>6 DEF EnterSavepoint, Proceeds, Return
<1>. QED
  BY <1>3, <1>5, <1>7, <1>8, <1>9 DEF Next, Finished

\* A step of the running transaction, by the actions it may be.
LEMMA StructStep ==
  ASSUME ClientTyped, Roles, Paths, Sequential, NEW t \in Node, Innermost(t), Next
  PROVE  ClientTyped' /\ Structured'
<1>. SUFFICES ClientTyped' /\ Roles' /\ Paths'
              /\ ((\E u \in Node : Innermost(u)') \/ (~Live(Root)' /\ \A b \in Block : ~Live(b)'))
  <2>1. ASSUME Roles', Paths', NEW u \in Node, Innermost(u)', ClientTyped' PROVE Live(Root)'
    <3>1. path'[u][1] = Root /\ 1 \in DOMAIN path'[u]
      <4>1. pc'[u] # Unborn
        BY <2>1 DEF Innermost, Live, Running, Unborn
      <4>2. path'[u] \in Seq(Node) /\ path'[u] # <<>> /\ path'[u][1] = Root
        BY <2>1, <4>1 DEF Paths, ClientTyped
      <4>. QED
        BY <4>2, EmptySeq, LenProperties
    <3>2. Root \in Chain(u)'
      BY <3>1 DEF Chain
    <3>. QED
      BY <3>2, <2>1, RootIsNode DEF Innermost
  <2>. QED
    BY <2>1 DEF Structured
<1>1. CASE BeginOn
  BY <1>1, BeginOnStruct
<1>2. CASE \E w \in Write : Execute(w[1], w)
  <2>1. PICK w \in Write : Execute(w[1], w)
    BY <1>2
  <2>2. w[1] \in Node
    BY DEF Write
  <2>. QED
    BY <2>1, <2>2, ExecuteStruct DEF Sequential
<1>3. CASE \E p \in Node, b \in Block : EnterSavepoint(p, b)
  BY <1>3, EnterStruct, RootIsNode DEF Sequential
<1>4. ASSUME NEW b \in Block, OpenSavepoint(b) \/ UndoSavepoint(b)
      PROVE  (\E x : Moves(t, x)) \/ (\E how, kind : Replies(t, how, kind))
  BY <1>4, OpenStruct, UndoStruct
<1>5. ASSUME NEW b \in Block, ReleaseSavepoint(b) \/ ForgetSavepoint(b)
      PROVE  \E how, kind : Replies(t, how, kind)
  BY <1>5, ReleaseStruct, ForgetStruct
<1>6. CASE \E b \in Block : \/ OpenSavepoint(b) \/ ReleaseSavepoint(b)
                            \/ UndoSavepoint(b) \/ ForgetSavepoint(b)
  BY <1>4, <1>5, <1>6 DEF Moves, Replies, RepliesTo
<1>7. CASE \E n \in Node, result \in {"ok", "err"} : Return(n, result)
  BY <1>7, ReturnStruct
<1>8. CASE End
  BY <1>8, EndStruct
<1>9. CASE DropBegin \/ DropTransaction \/ DropEnd
  BY <1>9, DropStruct
<1>10. CASE Finished
  <2>1. UNCHANGED <<family, conn, finished, depth, pc, path, level, out, owes, made>>
    BY <1>10 DEF Finished, vars
  <2>2. Roles' /\ Paths' /\ Innermost(t)'
    BY <2>1, StructStays
  <2>. QED
    BY <2>1, <2>2 DEF ClientTyped
<1>. QED
  BY <1>1, <1>2, <1>3, <1>6, <1>7, <1>8, <1>9, <1>10 DEF Next, Sequential, DropSavepoint

LEMMA StructNext ==
  ASSUME Sequential, ClientTyped, Structured, [Next]_vars
  PROVE  ClientTyped' /\ Structured'
<1>1. CASE UNCHANGED vars
  BY <1>1 DEF vars, ClientTyped, Structured, Roles, Paths, Innermost, Live, Chain
<1>2. CASE Next /\ Live(Root)
  BY <1>2, StructStep DEF Structured
<1>3. CASE ~Live(Root)
  BY <1>1, <1>3, OverIsOver DEF Structured
<1>. QED
  BY <1>1, <1>2, <1>3

\* Blocks that run are at different places of one path, so at different levels.
LEMMA StructNames ==
  ASSUME ClientTyped, Structured
  PROVE  NamesNeverCollide
<1>. SUFFICES ASSUME NEW b \in Block, NEW c \in Block, b # c, Live(b), Live(c)
     PROVE  level[b] # level[c]
  BY DEF NamesNeverCollide
<1>1. PICK t \in Node : Innermost(t)
  BY DEF Structured
<1>2. PICK i \in 1 .. Len(path[t]) : b = path[t][i]
  BY <1>1, InnermostFacts, RootIsNode DEF Structured
<1>3. PICK j \in 1 .. Len(path[t]) : c = path[t][j]
  BY <1>1, InnermostFacts, RootIsNode DEF Structured
<1>4. Len(path[t]) \in Nat
  BY <1>1, InnermostFacts DEF Structured
<1>. QED
  BY <1>1, <1>2, <1>3, <1>4 DEF Innermost

\* The savepoints that run are the innermost block's path after Root.
LEMMA StructDepth ==
  ASSUME ClientTyped, Structured
  PROVE  DepthCountsBlocks
<1>. SUFFICES ASSUME Live(Root) PROVE depth = Cardinality({b \in Block : Live(b)})
  BY DEF DepthCountsBlocks
<1>1. PICK t \in Node : Innermost(t) /\ Roles /\ Paths
  BY DEF Structured
<1>. DEFINE L == Len(path[t])
            S == {b \in Block : Live(b)}
            f == [i \in 1 .. depth |-> path[t][i + 1]]
<1>2. L \in Nat \ {0} /\ path[t][1] = Root /\ depth \in Nat /\ L = depth + 1 /\ pc[t] # Unborn
      /\ DOMAIN path[t] = 1 .. L
  BY <1>1, InnermostFacts, PathFacts DEF ClientTyped, Innermost
<1>3. ASSUME NEW i \in 1 .. depth PROVE path[t][i + 1] \in S /\ i + 1 \in 1 .. L
  <2>1. i + 1 \in 1 .. L /\ 1 \in 1 .. L
    BY <1>2
  <2>2. path[t][i + 1] \in Node /\ path[t][i + 1] \in Chain(t)
    BY <1>1, <1>2, <2>1, PathFacts DEF Chain
  <2>3. path[t][i + 1] # Root
    BY <1>1, <1>2, <2>1, PathsAreInjective
  <2>. QED
    BY <1>1, <2>1, <2>2, <2>3, RootIsNode DEF Innermost
<1>4. f \in [1 .. depth -> S]
  BY <1>3
<1>5. \A i, j \in 1 .. depth : f[i] = f[j] => i = j
  <2>. TAKE i, j \in 1 .. depth
  <2>1. i + 1 \in 1 .. L /\ j + 1 \in 1 .. L
    BY <1>3
  <2>2. path[t][i + 1] = path[t][j + 1] => i + 1 = j + 1
    BY <1>1, <1>2, <2>1, PathsAreInjective
  <2>. QED
    BY <2>2, <1>2
<1>6. \A b \in S : \E i \in 1 .. depth : f[i] = b
  <2>. TAKE b \in S
  <2>1. PICK k \in 1 .. L : b = path[t][k]
    BY <1>1, InnermostFacts, RootIsNode
  <2>2. k # 1 /\ k \in Nat
    BY <2>1, <1>2, RootIsNode
  <2>3. k - 1 \in 1 .. depth /\ (k - 1) + 1 = k
    BY <2>2, <1>2
  <2>4. f[k - 1] = b
    BY <2>1, <2>3
  <2>. QED
    BY <2>3, <2>4
<1>. HIDE DEF f, S
<1>7. ExistsBijection(1 .. depth, S)
  <2>1. f \in Bijection(1 .. depth, S)
    BY <1>4, <1>5, <1>6 DEF Bijection, Injection, Surjection, IsInjective
  <2>. QED
    BY <2>1 DEF ExistsBijection
<1>8. IsFiniteSet(1 .. depth) /\ Cardinality(1 .. depth) = depth
  <2>1. depth \in Int /\ 1 \in Int
    BY <1>2
  <2>2. /\ IsFiniteSet(1 .. depth)
        /\ Cardinality(1 .. depth) = IF 1 > depth THEN 0 ELSE depth - 1 + 1
    BY <2>1, FS_Interval
  <2>. QED
    BY <2>2, <1>2
<1>. QED
  BY <1>7, <1>8, FS_Bijection DEF S

-----------------------------------------------------------------------------
\* What the commands do to a session, whatever is in it.

FrameType == [name : Nat, work : SUBSET Write]

LEMMA FramesAre ==
  /\ Frames = Seq(FrameType) /\ \A n \in Nat : Frame(n) \in FrameType
  /\ <<>> \in Frames
BY EmptySeq DEF Frames, FrameType, Frame

\* The innermost of the savepoints of one name.
LEMMA InnermostNamed ==
  ASSUME NEW s \in Sessions, NEW n, Named(s, n) # {}
  PROVE  /\ Max(Named(s, n)) \in 1 .. Len(s.frames)
         /\ Max(Named(s, n)) \in Named(s, n)
         /\ \A i \in Named(s, n) : i <= Max(Named(s, n))
<1>. DEFINE N == Len(s.frames)
            T == {i .. N : i \in Named(s, n)}
<1>1. s.frames \in Seq(FrameType)
  BY FramesAre DEF Sessions
<1>2. N \in Nat /\ DOMAIN s.frames = 1 .. N
  BY <1>1, LenProperties
<1>3. Named(s, n) \subseteq 1 .. N
  BY <1>2 DEF Named
<1>4. T \subseteq FiniteSubsetsOf(Nat) /\ T # {}
  <2>1. ASSUME NEW i \in 1 .. N PROVE i .. N \subseteq Nat /\ IsFiniteSet(i .. N)
    BY <1>2, FS_Interval
  <2>2. \A i \in 1 .. N : i .. N \in FiniteSubsetsOf(Nat)
    BY <2>1 DEF FiniteSubsetsOf
  <2>. QED
    BY <1>3, <2>2
<1>5. IsWellFoundedOn(StrictSubsetOrdering(Nat), FiniteSubsetsOf(Nat))
  BY FS_StrictSubsetOrderingWellFounded
<1>. HIDE DEF T
<1>6. PICK x \in T : \A y \in T : ~ (<<y, x>> \in StrictSubsetOrdering(Nat))
  BY <1>4, <1>5, WFMin
<1>7. PICK m \in Named(s, n) : x = m .. N
  BY DEF T
<1>8. ASSUME NEW i \in Named(s, n), i > m PROVE FALSE
  <2>1. i \in Nat /\ m \in Nat /\ m <= N
    BY <1>2, <1>3
  <2>2. i .. N \in T /\ i .. N \subseteq m .. N /\ m \in m .. N /\ m \notin i .. N
    BY <2>1, <1>2, <1>8 DEF T
  <2>3. <<i .. N, x>> \in StrictSubsetOrdering(Nat)
    BY <2>1, <2>2, <1>2, <1>7 DEF StrictSubsetOrdering
  <2>. QED
    BY <2>2, <2>3, <1>6
<1>9. \A i \in Named(s, n) : m >= i
  BY <1>8, <1>2, <1>3
<1>10. /\ Max(Named(s, n)) \in Named(s, n)
       /\ \A i \in Named(s, n) : Max(Named(s, n)) >= i
  BY <1>9 DEF Max
<1>. QED
  BY <1>2, <1>3, <1>10

\* Merging the frames from i up into the one below.
LEMMA MergeDownIs ==
  ASSUME NEW s, s.frames \in Frames, NEW i \in 2 .. Len(s.frames)
  PROVE  /\ MergeDown(s, i) \in Frames /\ Len(MergeDown(s, i)) = i - 1
         /\ \A j \in 1 .. i - 2 : MergeDown(s, i)[j] = s.frames[j]
         /\ MergeDown(s, i)[i - 1].name = s.frames[i - 1].name
         /\ \A w : w \in MergeDown(s, i)[i - 1].work
                   <=> \E k \in i - 1 .. Len(s.frames) : w \in s.frames[k].work
<1>. DEFINE N == Len(s.frames)
            M == MergeDown(s, i)
            new == [s.frames[i - 1] EXCEPT
                      !.work = @ \union UNION {s.frames[k].work : k \in i .. N}]
<1>1. s.frames \in Seq(FrameType) /\ N \in Nat /\ i \in Nat /\ i <= N /\ i >= 2
  BY FramesAre, LenProperties
<1>2. \A k \in 1 .. N : s.frames[k] \in FrameType
  BY <1>1, ElementOfSeq
<1>3. i - 1 \in 1 .. N
  BY <1>1
<1>4. s.frames[i - 1] \in FrameType
  BY <1>2, <1>3
<1>5. \A k \in i .. N : s.frames[k].work \subseteq Write
  BY <1>1, <1>2 DEF FrameType
<1>6. new \in FrameType /\ new.name = s.frames[i - 1].name
      /\ new.work = s.frames[i - 1].work \union UNION {s.frames[k].work : k \in i .. N}
  BY <1>4, <1>5 DEF FrameType
<1>. HIDE DEF new
<1>7. M = [j \in 1 .. i - 1 |-> IF j < i - 1 THEN s.frames[j] ELSE new]
  <2>1. \A j \in 1 .. i - 1 : ~(j < i - 1) => j = i - 1
    BY <1>1
  <2>. QED
    BY <2>1 DEF MergeDown, new
<1>8. \A j \in 1 .. i - 1 : M[j] = IF j < i - 1 THEN s.frames[j] ELSE new
  BY <1>7
<1>. HIDE DEF M
<1>9. \A j \in 1 .. i - 1 : M[j] \in FrameType
  BY <1>1, <1>2, <1>6, <1>8
<1>10. M \in [1 .. i - 1 -> FrameType]
  BY <1>7, <1>9
<1>11. i - 1 \in Nat
  BY <1>1
<1>12. M \in Seq(FrameType)
  BY <1>10, <1>11, IsASeq
<1>13. Len(M) = i - 1
  BY <1>10, <1>11, <1>12, LenProperties
<1>14. \A j \in 1 .. i - 2 : M[j] = s.frames[j]
  BY <1>1, <1>8
<1>15. M[i - 1] = new
  BY <1>1, <1>8
<1>16. ASSUME NEW w
       PROVE  w \in new.work <=> \E k \in i - 1 .. N : w \in s.frames[k].work
  <2>1. \A k \in i - 1 .. N : k = i - 1 \/ k \in i .. N
    BY <1>1
  <2>2. i - 1 \in i - 1 .. N /\ \A k \in i .. N : k \in i - 1 .. N
    BY <1>1
  <2>3. w \in new.work <=> w \in s.frames[i - 1].work \/ \E k \in i .. N : w \in s.frames[k].work
    BY <1>6
  <2>. QED
    BY <2>1, <2>2, <2>3
<1>. QED
  BY <1>6, <1>12, <1>13, <1>14, <1>15, <1>16, FramesAre DEF M

\* Answers that leave a session and keep writes.
Typed(answers) == \A e \in answers : e.session \in Sessions /\ e.kept \subseteq Write

LEMMA PlainAnswersTyped ==
  ASSUME family \in Families, NEW s \in Sessions
  PROVE  /\ Typed({Refused(s)}) /\ Typed(Conflicted(s)) /\ Typed({Ok(s)})
         /\ Typed({Ok(IdleSession)}) /\ IdleSession \in Sessions /\ Gone \in Sessions
         /\ Pending(s) \subseteq Write
         /\ s.tx \in {"idle", "active", "aborted", "gone"} /\ s.frames \in Frames
         /\ s = [tx |-> s.tx, frames |-> s.frames]
<1>1. s.tx \in {"idle", "active", "aborted", "gone"} /\ s.frames \in Frames
      /\ s = [tx |-> s.tx, frames |-> s.frames]
  BY DEF Sessions
<1>2. IdleSession \in Sessions /\ Gone \in Sessions
  BY FramesAre DEF IdleSession, Gone, Sessions
<1>3. [s EXCEPT !.tx = "aborted"] \in Sessions
  BY DEF Sessions
<1>4. Pending(s) \subseteq Write
  <2>1. s.frames \in Seq(FrameType)
    BY <1>1, FramesAre
  <2>2. \A i \in DOMAIN s.frames : s.frames[i] \in FrameType
    BY <2>1, LenProperties, ElementOfSeq
  <2>. QED
    BY <2>2 DEF Pending, FrameType
<1>. QED
  BY <1>1, <1>2, <1>3, <1>4 DEF Typed, Refused, Conflicted, Ok, Answer

LEMMA BeginTyped ==
  ASSUME family \in Families, NEW s \in Sessions PROVE Typed(Begin(s))
<1>1. OpenSession \in Sessions
  <2>1. Frame(TxFrame) \in FrameType
    BY FramesAre DEF TxFrame
  <2>2. <<Frame(TxFrame)>> \in Seq(FrameType)
    BY <2>1
  <2>. QED
    BY <2>2, FramesAre DEF OpenSession, Sessions
<1>. QED
  BY <1>1, PlainAnswersTyped DEF Begin, Typed, Ok, Answer

LEMMA SavepointTyped ==
  ASSUME family \in Families, NEW s \in Sessions, NEW n \in Nat PROVE Typed(Savepoint(s, n))
<1>1. Frame(n) \in FrameType /\ s.frames \in Seq(FrameType)
  BY FramesAre DEF Sessions
<1>2. \A base \in Frames : Typed({Ok([s EXCEPT !.frames = Append(base, Frame(n))])})
  <2>. TAKE base \in Frames
  <2>1. Append(base, Frame(n)) \in Frames
    BY <1>1, FramesAre, AppendProperties
  <2>2. [s EXCEPT !.frames = Append(base, Frame(n))] \in Sessions
    BY <2>1 DEF Sessions
  <2>. QED
    BY <2>2 DEF Typed, Ok, Answer
<1>3. ASSUME Named(s, n) # {}
      PROVE  LET i == Max(Named(s, n))
             IN  MergeDown([s EXCEPT !.frames = SubSeq(@, 1, i)], i)
                   \o SubSeq(s.frames, i + 1, Len(s.frames)) \in Frames
  <2>. DEFINE i == Max(Named(s, n))
              r == [s EXCEPT !.frames = SubSeq(@, 1, i)]
              N == Len(s.frames)
  <2>1. i \in 1 .. N /\ N \in Nat
    BY <1>1, <1>3, InnermostNamed, LenProperties
  <2>2. /\ SubSeq(s.frames, 1, i) \in Seq(FrameType)
        /\ Len(SubSeq(s.frames, 1, i)) = i
    <3>1. i \in Int /\ 1 \in Int /\ \A j \in 1 .. i : s.frames[j] \in FrameType
      BY <1>1, <2>1, ElementOfSeq
    <3>2. /\ SubSeq(s.frames, 1, i) \in Seq(FrameType)
          /\ Len(SubSeq(s.frames, 1, i)) = IF 1 <= i THEN i - 1 + 1 ELSE 0
      BY <3>1, SubSeqProperties
    <3>. QED
      BY <3>2, <2>1
  <2>3. SubSeq(s.frames, i + 1, N) \in Seq(FrameType)
    <3>1. N \in Int /\ i + 1 \in Int /\ \A j \in i + 1 .. N : s.frames[j] \in FrameType
      BY <1>1, <2>1, ElementOfSeq
    <3>. QED
      BY <3>1, SubSeqProperties
  <2>4. r.frames = SubSeq(s.frames, 1, i)
    BY DEF Sessions
  <2>. HIDE DEF i, r
  <2>5. MergeDown(r, i) \in Seq(FrameType)
    <3>1. CASE i = 1
      <4>1. MergeDown(r, i) = <<>>
        <5>1. 1 .. i - 1 = {}
          BY <3>1
        <5>. QED
          BY <5>1 DEF MergeDown
      <4>. QED
        BY <4>1, EmptySeq
    <3>2. CASE i # 1
      <4>1. i \in 2 .. Len(r.frames)
        BY <2>1, <2>2, <2>4, <3>2
      <4>2. r.frames \in Frames
        BY <2>2, <2>4, FramesAre
      <4>. QED
        BY <4>1, <4>2, MergeDownIs, FramesAre
    <3>. QED
      BY <3>1, <3>2
  <2>. QED
    BY <2>3, <2>5, ConcatProperties, FramesAre DEF i, r
<1>4. Typed({Ok([tx |-> "active", frames |-> <<Frame(n)>>])})
  <2>1. <<Frame(n)>> \in Frames
    BY <1>1, FramesAre
  <2>. QED
    BY <2>1 DEF Typed, Ok, Answer, Sessions
<1>5. CASE s.tx = "active"
  <2>1. CASE family = "MySql" /\ Named(s, n) # {}
    BY <1>2, <1>3, <1>5, <2>1 DEF Savepoint
  <2>2. CASE ~(family = "MySql" /\ Named(s, n) # {})
    BY <1>1, <1>2, <1>5, <2>2, FramesAre DEF Savepoint
  <2>. QED
    BY <2>1, <2>2
<1>6. CASE s.tx # "active"
  BY <1>4, <1>6, PlainAnswersTyped DEF Savepoint
<1>. QED
  BY <1>5, <1>6

LEMMA ReleaseTyped ==
  ASSUME family \in Families, NEW s \in Sessions, NEW n \in Nat PROVE Typed(Release(s, n))
<1>1. CASE s.tx = "active" /\ Named(s, n) # {}
  <2>. DEFINE i == Max(Named(s, n))
  <2>1. i \in 1 .. Len(s.frames) /\ s.frames \in Frames /\ Len(s.frames) \in Nat
    BY <1>1, InnermostNamed, FramesAre, LenProperties DEF Sessions
  <2>. HIDE DEF i
  <2>2. CASE i = 1
    <3>1. Release(s, n) = {Answer("ok", IdleSession, Pending(s))}
      BY <1>1, <2>2 DEF Release, i
    <3>. QED
      BY <3>1, PlainAnswersTyped DEF Typed, Answer
  <2>3. CASE i # 1
    <3>1. Release(s, n) = {Ok([s EXCEPT !.frames = MergeDown(s, i)])}
      BY <1>1, <2>3 DEF Release, i
    <3>2. MergeDown(s, i) \in Frames
      BY <2>1, <2>3, MergeDownIs
    <3>3. [s EXCEPT !.frames = MergeDown(s, i)] \in Sessions
      BY <3>2 DEF Sessions
    <3>. QED
      BY <3>1, <3>3 DEF Typed, Ok, Answer
  <2>. QED
    BY <2>2, <2>3
<1>2. CASE ~(s.tx = "active" /\ Named(s, n) # {})
  BY <1>2, PlainAnswersTyped DEF Release
<1>. QED
  BY <1>1, <1>2

LEMMA RollbackToTyped ==
  ASSUME family \in Families, NEW s \in Sessions, NEW n \in Nat PROVE Typed(RollbackTo(s, n))
<1>1. CASE s.tx \in {"active", "aborted"} /\ Named(s, n) # {}
  <2>. DEFINE i == Max(Named(s, n))
              after == Append(SubSeq(s.frames, 1, i - 1), Frame(n))
  <2>1. i \in 1 .. Len(s.frames) /\ s.frames \in Seq(FrameType) /\ Len(s.frames) \in Nat
    BY <1>1, InnermostNamed, FramesAre, LenProperties DEF Sessions
  <2>. HIDE DEF i
  <2>2. SubSeq(s.frames, 1, i - 1) \in Seq(FrameType)
    <3>1. i - 1 \in Int /\ 1 \in Int /\ \A j \in 1 .. i - 1 : s.frames[j] \in FrameType
      BY <2>1, ElementOfSeq
    <3>. QED
      BY <3>1, SubSeqProperties
  <2>3. after \in Frames
    BY <2>2, FramesAre, AppendProperties
  <2>. HIDE DEF after
  <2>4. RollbackTo(s, n) = {Ok([tx |-> "active", frames |-> after])}
    BY <1>1 DEF RollbackTo, i, after
  <2>. QED
    BY <2>3, <2>4 DEF Typed, Ok, Answer, Sessions
<1>2. CASE ~(s.tx \in {"active", "aborted"} /\ Named(s, n) # {})
  BY <1>2, PlainAnswersTyped DEF RollbackTo
<1>. QED
  BY <1>1, <1>2

LEMMA EndsTyped ==
  ASSUME family \in Families, NEW s \in Sessions
  PROVE  Typed(Commit(s)) /\ Typed(Rollback(s))
BY PlainAnswersTyped DEF Commit, Rollback, Typed, Ok, Answer

LEMMA StatementTyped ==
  ASSUME family \in Families, NEW s \in Sessions, NEW w \in Write PROVE Typed(Statement(s, w))
<1>. DEFINE N == Len(s.frames)
            after == [s EXCEPT !.frames[N].work = @ \union {w}]
            frames == [s.frames EXCEPT ![N].work = @ \union {w}]
<1>1. s.frames \in Seq(FrameType) /\ N \in Nat /\ s.frames \in [1 .. N -> FrameType]
  BY FramesAre, LenProperties DEF Sessions
<1>2. frames \in [1 .. N -> FrameType]
  <2>1. \A f \in FrameType : [f EXCEPT !.work = @ \union {w}] \in FrameType
    BY DEF FrameType
  <2>. QED
    BY <1>1, <2>1
<1>3. frames \in Frames
  BY <1>1, <1>2, IsASeq, FramesAre
<1>4. after = [s EXCEPT !.frames = frames]
  BY DEF Sessions
<1>5. after \in Sessions
  BY <1>3, <1>4 DEF Sessions
<1>6. Typed({Ok(after)})
  BY <1>5 DEF Typed, Ok, Answer
<1>7. Typed({Answer("ok", s, {w})})
  BY DEF Typed, Answer
<1>. HIDE DEF after
<1>8. CASE s.tx = "active"
  <2>1. Statement(s, w) = {Ok(after), Refused(s)} \union Conflicted(s)
    BY <1>8 DEF Statement, after
  <2>. QED
    BY <2>1, <1>6, PlainAnswersTyped DEF Typed
<1>9. CASE s.tx # "active"
  <2>1. Statement(s, w) \subseteq {Answer("ok", s, {w}), Refused(s)}
    BY <1>9 DEF Statement
  <2>. QED
    BY <2>1, <1>7, PlainAnswersTyped DEF Typed
<1>. QED
  BY <1>8, <1>9

LEMMA HeardTyped ==
  ASSUME family \in Families, NEW s \in Sessions, NEW answers, Typed(answers),
         NEW a \in Heard(s, answers)
  PROVE  a.session \in Sessions /\ a.kept \subseteq Write
BY HeardIs, PlainAnswersTyped DEF Typed

LEMMA ServerInit == Init => ServerTyped
<1>1. IdleSession \in Sessions
  BY FramesAre DEF Sessions, IdleSession
<1>. QED
  BY <1>1 DEF Init, ServerTyped

LEMMA HeardKeepsTypes ==
  ASSUME family \in Families, ServerTyped, NEW answers, Typed(answers),
         NEW a \in Heard(session, answers), Hears(a)
  PROVE  ServerTyped'
BY HeardTyped DEF ServerTyped, Hears

LEMMA InFlightTyped ==
  ASSUME ClientTyped, ServerTyped, NEW n \in Node PROVE Typed(Unheard(InFlight(n)))
<1>1. level[n] \in Nat /\ family \in Families /\ session \in Sessions
  BY DEF ClientTyped, ServerTyped
<1>2. Typed(Cleanup(n))
  BY <1>1, RollbackToTyped, ReleaseTyped DEF Cleanup
<1>3. Typed(InFlight(n))
  <2>1. Typed({})
    BY DEF Typed
  <2>. QED
    BY <1>1, <1>2, <2>1, BeginTyped, SavepointTyped, EndsTyped DEF InFlight
<1>4. Typed({Ok(session)})
  BY <1>1, PlainAnswersTyped
<1>. QED
  BY <1>3, <1>4 DEF Typed, Unheard

LEMMA ServerNext ==
  ASSUME ClientTyped, ServerTyped, [Next]_vars
  PROVE  ServerTyped'
<1>1. family \in Families /\ session \in Sessions /\ Gone \in Sessions
  BY PlainAnswersTyped DEF ClientTyped, ServerTyped
<1>2. \A b \in Block : level[b] \in Nat
  BY RootIsNode DEF ClientTyped
<1>3. CASE UNCHANGED server
  BY <1>3 DEF ServerTyped, server
<1>4. CASE BeginOn
  <2>1. PICK a \in Heard(session, Begin(session)) :
          Hears(a) \/ (session' = Gone /\ durable' = durable \union a.kept)
    BY <1>4 DEF BeginOn
  <2>2. a.session \in Sessions /\ a.kept \subseteq Write
    BY <1>1, BeginTyped, HeardTyped
  <2>. QED
    BY <1>1, <2>1, <2>2 DEF ServerTyped, Hears
<1>5. ASSUME NEW w \in Write, Execute(w[1], w) PROVE ServerTyped'
  BY <1>1, <1>5, StatementTyped, HeardKeepsTypes DEF Execute
<1>6. ASSUME NEW b \in Block, OpenSavepoint(b) PROVE ServerTyped'
  BY <1>1, <1>2, <1>6, SavepointTyped, HeardKeepsTypes DEF OpenSavepoint
<1>7. ASSUME NEW b \in Block, ReleaseSavepoint(b) \/ UndoSavepoint(b) \/ ForgetSavepoint(b)
      PROVE  ServerTyped'
  <2>1. Typed(Cleanup(b))
    BY <1>1, <1>2, RollbackToTyped, ReleaseTyped DEF Cleanup
  <2>2. \E a \in Heard(session, Cleanup(b)) : Hears(a)
    BY <1>7 DEF ReleaseSavepoint, UndoSavepoint, ForgetSavepoint
  <2>. QED
    BY <1>1, <2>1, <2>2, HeardKeepsTypes
<1>8. CASE End
  <2>. DEFINE answers == IF pc[Root] = "committing" THEN Commit(session) ELSE Rollback(session)
  <2>1. Typed(answers)
    BY <1>1, EndsTyped
  <2>2. PICK a \in Heard(session, answers) :
          durable' = durable \union a.kept /\ session' \in {Gone, a.session}
    BY <1>8 DEF End
  <2>. HIDE DEF answers
  <2>3. a.session \in Sessions /\ a.kept \subseteq Write
    BY <1>1, <2>1, HeardTyped
  <2>. QED
    BY <1>1, <2>2, <2>3 DEF ServerTyped
<1>9. ASSUME NEW n \in Node, \E a \in Unheard(InFlight(n)) : Hears(a)
      PROVE  ServerTyped'
  BY <1>9, InFlightTyped DEF Typed, Hears, ServerTyped
<1>10. CASE DropBegin \/ DropEnd \/ \E b \in Block : DropSavepoint(b)
  <2>1. \E n \in Node : \E a \in Unheard(InFlight(n)) : Hears(a)
    BY <1>10, RootIsNode DEF DropBegin, DropEnd, DropSavepoint, Inside
  <2>. QED
    BY <1>9, <2>1
<1>11. CASE DropTransaction
  BY <1>1, <1>11 DEF DropTransaction, ServerTyped
<1>12. CASE UNCHANGED vars
  BY <1>3, <1>12 DEF vars, server
<1>13. CASE \E w \in Write : Execute(w[1], w)
  BY <1>5, <1>13
<1>14. CASE \E b \in Block : \/ OpenSavepoint(b) \/ ReleaseSavepoint(b)
                             \/ UndoSavepoint(b) \/ ForgetSavepoint(b)
  BY <1>6, <1>7, <1>14
<1>15. CASE \E b \in Block : DropSavepoint(b)
  BY <1>10, <1>15
<1>16. CASE DropBegin \/ DropTransaction \/ DropEnd
  BY <1>10, <1>11, <1>16
<1>17. CASE Finished
  BY <1>12, <1>17 DEF Finished
<1>18. CASE \E p \in Node, b \in Block : EnterSavepoint(p, b)
  BY <1>3, <1>18 DEF EnterSavepoint
<1>19. CASE \E n \in Node, result \in {"ok", "err"} : Return(n, result)
  BY <1>3, <1>19 DEF Return
<1>20. CASE Next
  BY <1>4, <1>8, <1>13, <1>14, <1>15, <1>16, <1>17, <1>18, <1>19, <1>20 DEF Next
<1>. QED
  BY <1>12, <1>20

\* Transaction::savepoint gives back every level it took: while closures await
\* the savepoints they call, for any number of them, nested and repeated in any
\* way and whatever the engine answers, depth is the number of blocks that run
\* and no two of them hold the same name.
THEOREM LevelsAlwaysSound ==
  ASSUME Sequential PROVE Spec => []LevelsAreSound
<1>. DEFINE I == ClientTyped /\ ServerTyped /\ Structured
<1>1. Init => I
  BY StructInit, ServerInit
<1>2. I /\ [Next]_vars => I'
  BY StructNext, ServerNext
<1>3. I => LevelsAreSound
  BY StructNames, StructDepth DEF LevelsAreSound, TypeOK, ClientTyped, ServerTyped
<1>. QED
  BY <1>1, <1>2, <1>3, PTL DEF Spec

-----------------------------------------------------------------------------
\* What the commands do to a session whose frames are numbered from the bottom.

LEMMA SessionFacts ==
  ASSUME NEW s \in Sessions
  PROVE  /\ s.frames \in Seq(FrameType) /\ Len(s.frames) \in Nat /\ s.frames \in Frames
         /\ DOMAIN s.frames = 1 .. Len(s.frames)
         /\ \A i \in 1 .. Len(s.frames) : s.frames[i] \in FrameType /\ s.frames[i].work \subseteq Write
<1>1. s.frames \in Seq(FrameType) /\ s.frames \in Frames
  BY FramesAre DEF Sessions
<1>2. Len(s.frames) \in Nat /\ DOMAIN s.frames = 1 .. Len(s.frames)
  BY <1>1, LenProperties
<1>3. \A i \in 1 .. Len(s.frames) : s.frames[i] \in FrameType
  BY <1>1, ElementOfSeq
<1>. QED
  BY <1>1, <1>2, <1>3 DEF FrameType

LEMMA TopIsNamed ==
  ASSUME NEW s \in Sessions, Numbered(s), NEW N \in Nat, Len(s.frames) = N, N > 0
  PROVE  /\ Named(s, N - 1) = {N} /\ Max(Named(s, N - 1)) = N
         /\ Named(s, N) = {}
<1>1. N \in Nat /\ DOMAIN s.frames = 1 .. N
  BY SessionFacts
<1>2. \A i \in 1 .. N : s.frames[i].name = i - 1
  BY DEF Numbered
<1>3. Named(s, N - 1) = {N}
  BY <1>1, <1>2 DEF Named
<1>4. Named(s, N) = {}
  BY <1>1, <1>2 DEF Named
<1>5. \E x \in {N} : \A y \in {N} : x >= y
  BY <1>1
<1>6. Max({N}) \in {N}
  BY <1>5 DEF Max
<1>. QED
  BY <1>3, <1>4, <1>6

\* A savepoint of a new name is one frame more.
LEMMA SavepointOnTop ==
  ASSUME NEW s \in Sessions, Numbered(s), s.tx = "active", NEW N \in Nat, Len(s.frames) = N, N > 0,
         NEW e \in Savepoint(s, N)
  PROVE  /\ e.reply = "ok" /\ e.kept = {} /\ e.session.tx = "active"
         /\ Len(e.session.frames) = N + 1 /\ Numbered(e.session)
         /\ \A i \in 1 .. N : e.session.frames[i] = s.frames[i]
         /\ e.session.frames[N + 1].work = {}
<1>. DEFINE after == Append(s.frames, Frame(N))
<1>1. N \in Nat /\ s.frames \in Seq(FrameType) /\ Frame(N) \in FrameType
      /\ Frame(N).name = N /\ Frame(N).work = {}
  BY SessionFacts, FramesAre DEF Frame
<1>2. /\ Len(after) = N + 1 /\ after[N + 1] = Frame(N)
      /\ \A i \in 1 .. N : after[i] = s.frames[i]
  BY <1>1, AppendProperties
<1>3. Savepoint(s, N) = {Ok([s EXCEPT !.frames = after])}
  BY TopIsNamed DEF Savepoint
<1>. HIDE DEF after
<1>4. e.reply = "ok" /\ e.kept = {} /\ e.session.tx = "active" /\ e.session.frames = after
  BY <1>3 DEF Ok, Answer, Sessions
<1>5. \A i \in 1 .. N + 1 : after[i].name = i - 1
  <2>. TAKE i \in 1 .. N + 1
  <2>1. CASE i \in 1 .. N
    BY <2>1, <1>2 DEF Numbered
  <2>2. CASE i = N + 1
    BY <2>2, <1>1, <1>2
  <2>. QED
    BY <2>1, <2>2, <1>1
<1>. QED
  BY <1>1, <1>2, <1>4, <1>5 DEF Numbered

\* Releasing the top frame merges it into the one below.
LEMMA ReleaseOfTop ==
  ASSUME NEW s \in Sessions, Numbered(s), s.tx = "active", NEW N \in Nat, Len(s.frames) = N, N > 0, N # 1,
         NEW e \in Release(s, N - 1)
  PROVE  /\ e.reply = "ok" /\ e.kept = {} /\ e.session.tx = "active"
         /\ Len(e.session.frames) = N - 1 /\ Numbered(e.session)
         /\ \A i \in 1 .. N - 2 : e.session.frames[i] = s.frames[i]
         /\ e.session.frames[N - 1].work = s.frames[N - 1].work \union s.frames[N].work
<1>. DEFINE after == MergeDown(s, N)
<1>1. N \in Nat /\ s.frames \in Frames
  BY SessionFacts
<1>2. Release(s, N - 1) = {Ok([s EXCEPT !.frames = after])}
  <2>2. Named(s, N - 1) = {N} /\ Max(Named(s, N - 1)) = N
    BY TopIsNamed
  <2>3. Named(s, N - 1) # {}
    BY <2>2
  <2>. QED
    BY <2>2, <2>3 DEF Release
<1>3. N \in 2 .. Len(s.frames)
  BY <1>1
<1>4. /\ Len(after) = N - 1
      /\ \A j \in 1 .. N - 2 : after[j] = s.frames[j]
      /\ after[N - 1].name = s.frames[N - 1].name
      /\ \A w : w \in after[N - 1].work <=> \E k \in N - 1 .. Len(s.frames) : w \in s.frames[k].work
  BY <1>1, <1>3, MergeDownIs
<1>5. after \in Frames
  BY <1>1, <1>3, MergeDownIs
<1>. HIDE DEF after
<1>6. e.reply = "ok" /\ e.kept = {} /\ e.session.tx = "active" /\ e.session.frames = after
  BY <1>2 DEF Ok, Answer, Sessions
<1>7. \A i \in 1 .. N - 1 : after[i].name = i - 1
  <2>. TAKE i \in 1 .. N - 1
  <2>0. i \in 1 .. N /\ s.frames[i].name = i - 1
    BY DEF Numbered
  <2>1. CASE i \in 1 .. N - 2
    BY <2>0, <2>1, <1>4
  <2>2. CASE i = N - 1
    BY <2>0, <2>2, <1>4
  <2>. QED
    BY <2>1, <2>2, <1>1
<1>8. \A w : w \in after[N - 1].work <=> w \in s.frames[N - 1].work \union s.frames[N].work
  <2>. TAKE w
  <2>1. \A k : k \in N - 1 .. N <=> k = N - 1 \/ k = N
    BY <1>1
  <2>. QED
    BY <2>1, <1>4
<1>9. after[N - 1].work = s.frames[N - 1].work \union s.frames[N].work
  BY <1>8
<1>. QED
  BY <1>4, <1>6, <1>7, <1>9 DEF Numbered

\* Rolling back to the top frame empties it.
LEMMA RollbackToTop ==
  ASSUME NEW s \in Sessions, Numbered(s), s.tx \in {"active", "aborted"},
         NEW N \in Nat, Len(s.frames) = N, N > 0, NEW e \in RollbackTo(s, N - 1)
  PROVE  /\ e.reply = "ok" /\ e.kept = {} /\ e.session.tx = "active"
         /\ Len(e.session.frames) = N /\ Numbered(e.session)
         /\ \A i \in 1 .. N - 1 : e.session.frames[i] = s.frames[i]
         /\ e.session.frames[N].work = {}
<1>. DEFINE below == SubSeq(s.frames, 1, N - 1)
            after == Append(below, Frame(N - 1))
<1>1. N \in Nat /\ N - 1 \in Nat /\ Frame(N - 1) \in FrameType
      /\ Frame(N - 1).name = N - 1 /\ Frame(N - 1).work = {}
  BY SessionFacts, FramesAre DEF Frame
<1>2. below \in Seq(FrameType) /\ Len(below) = N - 1 /\ \A i \in 1 .. N - 1 : below[i] = s.frames[i]
  <2>1. N - 1 \in Int /\ 1 \in Int /\ \A i \in 1 .. N - 1 : s.frames[i] \in FrameType
    BY <1>1, SessionFacts
  <2>2. /\ below \in Seq(FrameType)
        /\ Len(below) = IF 1 <= N - 1 THEN N - 1 - 1 + 1 ELSE 0
        /\ \A i \in 1 .. N - 1 - 1 + 1 : below[i] = s.frames[1 + i - 1]
    BY <2>1, SubSeqProperties
  <2>. QED
    BY <2>2, <1>1
<1>. HIDE DEF below
<1>3. /\ Len(after) = N - 1 + 1 /\ after[N - 1 + 1] = Frame(N - 1)
      /\ \A i \in 1 .. N - 1 : after[i] = below[i]
  BY <1>1, <1>2, AppendProperties
<1>4. N - 1 + 1 = N
  BY <1>1
<1>5. RollbackTo(s, N - 1) = {Ok([tx |-> "active", frames |-> after])}
  <2>1. Named(s, N - 1) = {N} /\ Max(Named(s, N - 1)) = N
    BY TopIsNamed
  <2>2. Named(s, N - 1) # {}
    BY <2>1
  <2>. QED
    BY <2>1, <2>2 DEF RollbackTo, below
<1>. HIDE DEF after
<1>6. e.reply = "ok" /\ e.kept = {} /\ e.session.tx = "active" /\ e.session.frames = after
  BY <1>5 DEF Ok, Answer
<1>7. \A i \in 1 .. N : after[i].name = i - 1
  <2>. TAKE i \in 1 .. N
  <2>1. CASE i \in 1 .. N - 1
    BY <2>1, <1>2, <1>3 DEF Numbered
  <2>2. CASE i = N
    BY <2>2, <1>1, <1>3, <1>4
  <2>. QED
    BY <2>1, <2>2, <1>1
<1>. QED
  BY <1>1, <1>2, <1>3, <1>4, <1>6, <1>7 DEF Numbered

\* A statement adds its write to the top frame or leaves the frames as they are.
LEMMA StatementOnTop ==
  ASSUME NEW s \in Sessions, s.tx = "active", NEW N \in Nat, Len(s.frames) = N, N > 0,
         NEW w, NEW e \in Statement(s, w), family \in Families
  PROVE  /\ e.kept = {}
         /\ \/ /\ e.reply = "ok" /\ e.session.tx = "active"
               /\ Len(e.session.frames) = N
               /\ \A i \in 1 .. N : e.session.frames[i].name = s.frames[i].name
               /\ \A i \in 1 .. N - 1 : e.session.frames[i] = s.frames[i]
               /\ e.session.frames[N].work = s.frames[N].work \union {w}
            \/ /\ e.reply = "refused" /\ e.session.frames = s.frames
               /\ e.session.tx = IF family = "Postgres" THEN "aborted" ELSE "active"
            \/ /\ e.reply = "conflict" /\ e.session.frames = s.frames
               /\ e.session.tx = IF family = "Postgres" THEN "aborted" ELSE "active"
            \/ /\ e.reply = "conflict" /\ e.session = IdleSession /\ family # "Postgres"
<1>. DEFINE frames == [s.frames EXCEPT ![N].work = @ \union {w}]
            after == [s EXCEPT !.frames[N].work = @ \union {w}]
<1>1. /\ N \in Nat /\ N \in 1 .. N /\ DOMAIN s.frames = 1 .. N
      /\ s.frames \in [1 .. N -> FrameType]
  BY SessionFacts, LenProperties
<1>2. after = [s EXCEPT !.frames = frames]
  BY DEF Sessions
<1>3. after.tx = "active" /\ after.frames = frames
  BY <1>2 DEF Sessions
<1>4. \A i \in 1 .. N : frames[i] = IF i = N THEN [s.frames[i] EXCEPT !.work = @ \union {w}] ELSE s.frames[i]
  BY <1>1
<1>5. \A f \in FrameType : LET g == [f EXCEPT !.work = @ \union {w}]
                           IN  g.name = f.name /\ g.work = f.work \union {w}
  BY DEF FrameType
<1>6. /\ \A i \in 1 .. N : frames[i].name = s.frames[i].name
      /\ \A i \in 1 .. N - 1 : frames[i] = s.frames[i]
      /\ frames[N].work = s.frames[N].work \union {w}
  BY <1>1, <1>4, <1>5
<1>7. Len(frames) = N
  <2>. DEFINE T == [name : Nat, work : SUBSET (Write \union {w})]
  <2>1. FrameType \subseteq T /\ \A f \in FrameType : [f EXCEPT !.work = @ \union {w}] \in T
    BY DEF FrameType
  <2>. HIDE DEF T
  <2>2. frames \in [1 .. N -> T]
    BY <1>1, <2>1
  <2>. HIDE DEF frames
  <2>3. frames \in Seq(T)
    BY <2>2, SeqDef
  <2>4. DOMAIN frames = 1 .. N /\ DOMAIN frames = 1 .. Len(frames) /\ Len(frames) \in Nat
    BY <2>2, <2>3, LenProperties
  <2>. QED
    BY <1>1, <2>4
<1>. HIDE DEF frames, after
<1>8. Statement(s, w) = {Ok(after), Refused(s)} \union Conflicted(s)
  BY DEF Statement, after
<1>9. CASE e = Ok(after)
  BY <1>9, <1>3, <1>6, <1>7 DEF Ok, Answer
<1>10. CASE e = Refused(s)
  BY <1>10 DEF Refused, Answer, Sessions
<1>11. CASE e \in Conflicted(s)
  BY <1>11 DEF Conflicted, Answer, Sessions
<1>. QED
  BY <1>8, <1>9, <1>10, <1>11

-----------------------------------------------------------------------------
\* Where the writes lie.

\* A step that answers no Ok moves no write.
LEMMA ReachesStays ==
  ASSUME ClientTyped, Paths, NEW w, w[1] \in Node, pc[w[1]] # Unborn,
         NEW t, NEW u, NEW i, path'[w[1]] = path[w[1]], path'[u][i] = path[t][i],
         \A n \in Node : pc[n] # Unborn => (pc'[n] = "ok" <=> pc[n] = "ok")
  PROVE  Reaches(w, i, u)' <=> Reaches(w, i, t)
<1>1. \A j \in 1 .. Len(path[w[1]]) :
        path[w[1]][j] \in Node /\ (pc'[path[w[1]][j]] = "ok" <=> pc[path[w[1]][j]] = "ok")
  BY PathFacts
<1>. QED
  BY <1>1 DEF Reaches

LEMMA ShareStays ==
  ASSUME ClientTyped, Paths, MadeInside, NEW t, NEW u, NEW i, made' = made,
         \A w \in made : path'[w[1]] = path[w[1]], path'[u][i] = path[t][i],
         pc'[path[t][i]] # "forgetting", pc[path[t][i]] # "forgetting",
         \A n \in Node : pc[n] # Unborn => (pc'[n] = "ok" <=> pc[n] = "ok")
  PROVE  Share(i, u)' = Share(i, t)
<1>1. \A w \in made : Reaches(w, i, u)' <=> Reaches(w, i, t)
  BY ReachesStays DEF MadeInside
<1>. QED
  BY <1>1 DEF Share

\* When t answers p, a write comes down to p exactly if t answers Ok.
LEMMA ReachesAfter ==
  ASSUME ClientTyped, Roles, Paths, NEW t \in Node, pc[t] # Unborn, pc[t] # "ok",
         NEW p \in Node, p # t, pc[p] = "body", NEW L \in Nat, Len(path[t]) = L, L > 1,
         p = path[t][L - 1], \A i \in 1 .. L - 1 : path[p][i] = path[t][i],
         NEW how, pc' = [pc EXCEPT ![t] = how], path' = path,
         NEW w, w[1] \in Node, pc[w[1]] # Unborn, NEW i \in 1 .. L - 1
  PROVE  Reaches(w, i, p)' <=> \/ Reaches(w, i, t)
                               \/ how = "ok" /\ i = L - 1 /\ Reaches(w, L, t)
<1>. DEFINE q == path[w[1]]
            M == Len(q)
<1>1. M \in Nat \ {0} /\ \A j \in 1 .. M : q[j] \in Node
  BY PathFacts
<1>2. \A j \in 1 .. M : pc'[q[j]] = IF q[j] = t THEN how ELSE pc[q[j]]
  BY <1>1 DEF ClientTyped
<1>3. path[t][L] = t /\ path'[p][i] = path[t][i] /\ i \in Nat /\ L - 1 \in 1 .. L
  BY PathFacts
<1>4. ASSUME NEW j \in 1 .. M, q[j] = t
      PROVE  j = L /\ q[L - 1] = p
  <2>1. Len(path[q[j]]) = j /\ \A k \in 1 .. j : path[q[j]][k] = q[k]
    BY PathFacts
  <2>. QED
    BY <1>3, <1>4, <2>1
<1>5. Reaches(w, i, p)' <=> /\ i \in 1 .. M /\ q[i] = path[t][i]
                            /\ \A j \in 1 .. M : j > i => pc'[q[j]] = "ok"
  BY <1>3 DEF Reaches
<1>6. Reaches(w, i, t) <=> /\ i \in 1 .. M /\ q[i] = path[t][i]
                           /\ \A j \in 1 .. M : j > i => pc[q[j]] = "ok"
  BY DEF Reaches
<1>7. Reaches(w, L, t) <=> /\ L \in 1 .. M /\ q[L] = t
                           /\ \A j \in 1 .. M : j > L => pc[q[j]] = "ok"
  BY <1>3 DEF Reaches
<1>. HIDE DEF q, M
<1>8. CASE L \in 1 .. M /\ q[L] = t
  <2>1. q[L - 1] = p /\ pc'[q[L - 1]] # "ok" /\ L - 1 \in 1 .. M /\ pc[q[L]] # "ok"
    BY <1>1, <1>2, <1>4, <1>8
  <2>2. ~Reaches(w, i, t)
    BY <2>1, <1>3, <1>6, <1>8
  <2>3. CASE i # L - 1
    <3>1. L - 1 > i
      BY <2>3, <1>3
    <3>2. ~Reaches(w, i, p)'
      BY <3>1, <2>1, <1>5
    <3>. QED
      BY <3>2, <2>2, <2>3
  <2>4. CASE i = L - 1
    <3>1. i \in 1 .. M /\ q[i] = path[t][i]
      BY <2>1, <2>4
    <3>2. \A j \in 1 .. M : j > i <=> j = L \/ j > L
      BY <2>4, <1>1
    <3>3. \A j \in 1 .. M : j > L => pc'[q[j]] = pc[q[j]]
      BY <1>2, <1>4
    <3>4. pc'[q[L]] = how
      BY <1>2, <1>8
    <3>5. Reaches(w, i, p)' <=> how = "ok" /\ \A j \in 1 .. M : j > L => pc[q[j]] = "ok"
      BY <1>5, <1>8, <3>1, <3>2, <3>3, <3>4
    <3>. QED
      BY <3>5, <1>7, <1>8, <2>2, <2>4
  <2>. QED
    BY <2>3, <2>4
<1>9. CASE ~(L \in 1 .. M /\ q[L] = t)
  <2>1. \A j \in 1 .. M : pc'[q[j]] = pc[q[j]]
    BY <1>2, <1>4, <1>9
  <2>. QED
    BY <2>1, <1>5, <1>6, <1>7, <1>9
<1>. QED
  BY <1>8, <1>9

-----------------------------------------------------------------------------
\* The invariant, action by action.

LEMMA RunningFacts ==
  ASSUME NEW t \in Node, Runs(t)
  PROVE  /\ pc[t] \in Running /\ pc[t] # Unborn
         /\ pc[t] # "begin" => pc[Root] # "begin" /\ (session = Gone \/ LostFits(t) \/ OpenFits(t))
         /\ Len(path[t]) \in Nat /\ Len(path[t]) > 0 /\ path[t][Len(path[t])] = t
         /\ \A i \in 1 .. Len(path[t]) : path[t][i] \in Node /\ pc[path[t][i]] # Unborn
         /\ \A i \in 1 .. Len(path[t]) - 1 : pc[path[t][i]] = "body" /\ path[t][i] # t
         /\ level[t] = Len(path[t]) - 1
         /\ session.tx = "gone" \/ session # Gone
<1>1. pc[t] \in Running /\ pc[t] # Unborn /\ (pc[Root] # "body" => t = Root)
  BY InnermostFacts DEF Runs, Common
<1>2. /\ Len(path[t]) \in Nat /\ Len(path[t]) > 0 /\ path[t][Len(path[t])] = t
      /\ \A i \in 1 .. Len(path[t]) : path[t][i] \in Node /\ pc[path[t][i]] # Unborn
  BY <1>1, PathFacts DEF Runs, Common
<1>3. ASSUME NEW i \in 1 .. Len(path[t]) - 1 PROVE pc[path[t][i]] = "body" /\ path[t][i] # t
  <2>1. i \in 1 .. Len(path[t]) /\ i # Len(path[t])
    BY <1>2
  <2>2. path[t][i] = t <=> i = Len(path[t])
    BY <1>1, <2>1, InsideIsAbove DEF Runs, Common
  <2>. QED
    BY <2>1, <2>2 DEF Runs, Innermost
<1>4. level[t] = Len(path[t]) - 1
  <2>1. Len(path[t]) \in 1 .. Len(path[t])
    BY <1>2
  <2>. QED
    BY <1>2, <2>1 DEF Runs, Innermost
<1>5. pc[t] # "begin" => pc[Root] # "begin" /\ (session = Gone \/ LostFits(t) \/ OpenFits(t))
  BY <1>1 DEF Runs, SessionFits
<1>. QED
  BY <1>1, <1>2, <1>3, <1>4, <1>5 DEF Gone

\* A command that keeps nothing, on a connection that may fail.
LEMMA HeardKeepsNothing ==
  ASSUME NEW s, NEW answers, NEW a \in Heard(s, answers),
         s.tx # "gone" => \A e \in answers : e.kept = {}
  PROVE  /\ a.kept = {}
         /\ \/ s.tx # "gone" /\ a \in answers
            \/ a.reply = "refused" /\ a.session = Gone
BY HeardIs

LEMMA BeginInv ==
  ASSUME NEW t \in Node, Runs(t), BeginOn, ServerTyped'
  PROVE  Inv'
<1>1. ClientTyped /\ Roles /\ Paths /\ Innermost(t) /\ MadeInside /\ pc[Root] = "begin"
  BY DEF Runs, Common, BeginOn
<1>2. /\ t = Root /\ ClientTyped' /\ Roles' /\ Paths'
      /\ \/ pc' = [pc EXCEPT ![Root] = "body"] /\ Innermost(t)'
         \/ pc'[Root] = "err" /\ ~Live(Root)' /\ \A b \in Block : ~Live(b)'
  BY <1>1, BeginOnStruct
<1>3. session = IdleSession /\ made = {} /\ durable = {} /\ conn = "held"
  BY <1>1 DEF Runs, SessionFits, Unsettled
<1>4. made' = {} /\ path' = path /\ MadeInside'
  BY <1>3 DEF BeginOn, MadeInside
<1>5. PICK a \in Heard(session, Begin(session)) :
        IF a.reply = "ok"
          THEN /\ Hears(a) /\ pc' = [pc EXCEPT ![Root] = "body"] /\ UNCHANGED conn
          ELSE /\ session' = Gone /\ durable' = durable \union a.kept
               /\ conn' = "closed" /\ pc' = [pc EXCEPT ![Root] = "err"]
  BY DEF BeginOn
<1>6. Begin(session) = {Ok(OpenSession)}
  BY <1>3 DEF Begin, IdleSession
<1>7. a.kept = {} /\ (a = Ok(OpenSession) \/ a.reply = "refused")
  BY <1>6, HeardKeepsNothing DEF Ok, Answer
<1>8. /\ a.reply = "ok" => pc'[Root] = "body"
      /\ a.reply # "ok" => pc'[Root] = "err"
  BY <1>1, <1>5, RootIsNode DEF ClientTyped
<1>9. CASE a.reply = "ok"
  <2>1. session' = OpenSession /\ durable' = {} /\ conn' = "held"
    BY <1>3, <1>5, <1>7, <1>9 DEF Hears, Ok, Answer
  <2>2. Innermost(t)' /\ pc'[Root] = "body"
    BY <1>2, <1>8, <1>9
  <2>3. /\ Len(<<Frame(TxFrame)>>) = 1 /\ <<Frame(TxFrame)>>[1] = Frame(TxFrame)
        /\ Frame(TxFrame).name = 0 /\ Frame(TxFrame).work = {}
        /\ OpenSession.tx = "active" /\ OpenSession.frames = <<Frame(TxFrame)>>
    BY DEF Frame, TxFrame, OpenSession
  <2>4. Len(path[Root]) = 1
    BY <1>1, PathOfRoot DEF Unborn
  <2>5. FramesFit(t)'
    BY <1>2, <1>4, <2>1, <2>2, <2>3, <2>4 DEF FramesFit, Numbered
  <2>6. WorkFits(t)'
    BY <1>4, <2>1, <2>3 DEF WorkFits, Share
  <2>7. SessionFits(t)'
    BY <1>4, <2>1, <2>2, <2>3, <2>5, <2>6 DEF SessionFits, OpenFits
  <2>8. Unsettled'
    BY <2>1, <2>2 DEF Unsettled
  <2>. QED
    BY <1>2, <1>4, <2>2, <2>7, <2>8 DEF Inv, Runs, Common
<1>10. CASE a.reply # "ok"
  <2>1. durable' = {} /\ conn' = "closed" /\ pc'[Root] = "err"
    BY <1>3, <1>5, <1>7, <1>8, <1>10
  <2>2. \A n \in Node : ~Live(n)'
    BY <1>2, <2>1, RootIsNode DEF Innermost, Live, Running, ClientTyped
  <2>3. Settled'
    BY <1>4, <2>1 DEF Settled, AllOrNothing, NothingOfAFailedBlock, OkKeepsEverything,
                      PooledIsClean
  <2>. QED
    BY <1>2, <1>4, <2>2, <2>3 DEF Inv, Over, Common
<1>. QED
  BY <1>9, <1>10

LEMMA ExecuteInv ==
  ASSUME Disciplined, NEW t \in Node, Runs(t), NEW n \in Node, NEW w \in Write, Execute(n, w),
         ServerTyped'
  PROVE  Inv'
<1>1. ClientTyped /\ ServerTyped /\ Roles /\ Paths /\ Innermost(t) /\ MadeInside /\ ~Siblings
  BY DEF Runs, Common, Disciplined
<1>2. n = t /\ pc[t] = "body" /\ ClientTyped' /\ Roles' /\ Paths' /\ Innermost(t)'
  BY <1>1, ExecuteStruct
<1>3. owes[t] = "none" /\ w[1] = t /\ UNCHANGED <<conn, pc, path, out, family>>
  BY <1>2 DEF Execute, client
<1>4. PICK a \in Heard(session, Statement(session, w)) :
         /\ session' = a.session /\ durable' = durable \union a.kept
         /\ made' = IF a.reply = "ok" THEN made \union {w} ELSE made
         /\ owes' = IF a.reply = "ok" THEN owes
                    ELSE [owes EXCEPT ![t] = Unless(StmtSurvives[family], a.reply, @)]
  BY <1>2 DEF Execute, Hears
<1>5. MadeInside'
  BY <1>1, <1>2, <1>3, <1>4 DEF MadeInside, Unborn
<1>6. /\ pc[Root] # "begin" /\ (session = Gone \/ LostFits(t) \/ OpenFits(t))
      /\ durable = {} /\ conn = "held"
  BY <1>2, RunningFacts DEF Runs, Unsettled
<1>7. SUFFICES durable' = {} /\ (session' = Gone \/ LostFits(t)' \/ OpenFits(t)')
  <2>1. Unsettled'
    BY <1>3, <1>6, <1>7 DEF Unsettled, Runs
  <2>2. SessionFits(t)'
    BY <1>3, <1>6, <1>7 DEF SessionFits
  <2>. QED
    BY <1>2, <1>5, <2>1, <2>2 DEF Inv, Runs, Common
<1>8. CASE session = Gone
  <2>1. session.tx = "gone"
    BY <1>8 DEF Gone
  <2>2. a.kept = {} /\ a.session = Gone
    BY <2>1, HeardKeepsNothing
  <2>. QED
    BY <1>4, <1>6, <2>2
<1>9. CASE LostFits(t)
  BY <1>3, <1>9 DEF LostFits
<1>10. CASE OpenFits(t)
  <2>0. PICK N \in Nat : Len(path[t]) = N
    BY RunningFacts
  <2>1. /\ session.tx = "active" /\ Len(session.frames) = N /\ Numbered(session)
        /\ WorkFits(t)
    BY <1>2, <1>3, <1>10, <2>0 DEF OpenFits, FramesFit
  <2>2. N \in Nat /\ N > 0 /\ path[t][N] = t
    BY <2>0, RunningFacts
  <2>3. session \in Sessions /\ family \in Families
    BY <1>1 DEF ServerTyped, ClientTyped
  <2>4. \A e \in Statement(session, w) :
          /\ e.kept = {}
          /\ \/ /\ e.reply = "ok" /\ e.session.tx = "active"
                /\ Len(e.session.frames) = N
                /\ \A i \in 1 .. N : e.session.frames[i].name = session.frames[i].name
                /\ \A i \in 1 .. N - 1 : e.session.frames[i] = session.frames[i]
                /\ e.session.frames[N].work = session.frames[N].work \union {w}
             \/ /\ e.reply \in Errors /\ e.session.frames = session.frames
                /\ e.session.tx = IF family = "Postgres" THEN "aborted" ELSE "active"
             \/ /\ e.reply = "conflict" /\ e.session = IdleSession /\ family # "Postgres"
    BY <2>1, <2>2, <2>3, StatementOnTop DEF Errors
  <2>5. a.kept = {} /\ (a.session = Gone \/ a \in Statement(session, w))
    BY <2>4, HeardKeepsNothing
  <2>6. CASE a.session = Gone
    BY <1>4, <1>6, <2>5, <2>6
  <2>7. ASSUME a \in Statement(session, w), a.reply = "ok",
               session'.tx = "active", Len(session'.frames) = N,
               \A i \in 1 .. N : session'.frames[i].name = session.frames[i].name,
               \A i \in 1 .. N - 1 : session'.frames[i] = session.frames[i],
               session'.frames[N].work = session.frames[N].work \union {w}
        PROVE  OpenFits(t)'
    <3>1. made' = made \union {w}
      BY <1>4, <2>7
    <3>2. \A i, v : Reaches(v, i, t)' <=> Reaches(v, i, t)
      BY <1>3 DEF Reaches
    <3>3. \A i \in 1 .. N - 1 : ~Reaches(w, i, t)
      BY <1>2, <1>3, <2>0, <2>2 DEF Reaches
    <3>4. Reaches(w, N, t) /\ pc[path[t][N]] # "forgetting"
      BY <1>2, <1>3, <2>0, <2>2 DEF Reaches
    <3>5. \A i \in 1 .. N - 1 : Share(i, t)' = Share(i, t)
      BY <1>3, <3>1, <3>2, <3>3 DEF Share
    <3>6. Share(N, t)' = Share(N, t) \union {w}
      BY <1>3, <3>1, <3>2, <3>4 DEF Share
    <3>7. ASSUME NEW i \in 1 .. N PROVE session'.frames[i].work = Share(i, t)'
      <4>1. session.frames[i].work = Share(i, t)
        BY <2>1 DEF WorkFits
      <4>2. CASE i \in 1 .. N - 1
        BY <2>7, <3>5, <4>1, <4>2
      <4>3. CASE i = N
        BY <2>7, <3>6, <4>1, <4>3
      <4>. QED
        BY <4>2, <4>3, <2>2
    <3>8. WorkFits(t)'
      BY <2>7, <3>7 DEF WorkFits
    <3>9. FramesFit(t)'
      BY <1>2, <1>3, <2>0, <2>1, <2>7 DEF FramesFit, Numbered
    <3>. QED
      BY <1>3, <2>1, <2>7, <3>8, <3>9 DEF OpenFits
  <2>8. ASSUME a.reply \in Errors, session'.frames = session.frames,
               session'.tx = IF family = "Postgres" THEN "aborted" ELSE "active"
        PROVE  OpenFits(t)'
    <3>1. made' = made /\ owes'[t] = Unless(StmtSurvives[family], a.reply, owes[t])
      BY <1>1, <1>4, <2>8 DEF ClientTyped, Errors
    <3>2. family = "Postgres" => owes'[t] # "none"
      BY <1>3, <2>8, <3>1 DEF Disciplined, Unless, Errors
    <3>3. WorkFits(t)' /\ FramesFit(t)'
      BY <1>3, <2>1, <2>8, <3>1, <1>10
         DEF OpenFits, WorkFits, FramesFit, Share, Reaches, Numbered
    <3>. QED
      BY <1>2, <1>3, <2>1, <2>8, <3>2, <3>3 DEF OpenFits, Failing
  <2>9. ASSUME a.reply = "conflict", session' = IdleSession, family # "Postgres"
        PROVE  LostFits(t)'
    <3>1. owes'[t] = Unless(StmtSurvives[family], "conflict", owes[t])
      BY <1>1, <1>4, <2>9 DEF ClientTyped
    <3>2. "conflict" \notin StmtSurvives[family]
      BY <2>3 DEF Disciplined
    <3>. QED
      BY <1>2, <1>3, <2>9, <3>1, <3>2 DEF LostFits, Unless, Failing
  <2>10. CASE a \in Statement(session, w)
    BY <1>4, <1>6, <2>4, <2>5, <2>7, <2>8, <2>9, <2>10
  <2>. QED
    BY <2>5, <2>6, <2>10
<1>. QED
  BY <1>6, <1>8, <1>9, <1>10

LEMMA EnterInv ==
  ASSUME Disciplined, NEW t \in Node, Runs(t), NEW p \in Node, NEW b \in Block,
         EnterSavepoint(p, b), ServerTyped'
  PROVE  Inv'
<1>. DEFINE N == Len(path[t])
<1>1. ClientTyped /\ Roles /\ Paths /\ Innermost(t) /\ MadeInside /\ ~Siblings
  BY DEF Runs, Common, Disciplined
<1>2. /\ p = t /\ pc[t] = "body" /\ ClientTyped' /\ Roles' /\ Paths' /\ Innermost(b)'
      /\ Len(path'[b]) = N + 1
      /\ \A i \in 1 .. N : path'[b][i] = path[t][i]
  BY <1>1, EnterStruct
<1>3. /\ owes[t] = "none" /\ pc[b] = Unborn
      /\ UNCHANGED <<session, durable, conn, out, made, family>>
      /\ pc' = [pc EXCEPT ![b] = "opening"] /\ path' = [path EXCEPT ![b] = Append(path[t], b)]
  BY <1>2 DEF EnterSavepoint, client, server
<1>4. /\ pc'[b] = "opening" /\ b # Root
      /\ \A n \in Node : n # b => pc'[n] = pc[n] /\ path'[n] = path[n]
  BY <1>1, <1>3, RootIsNode DEF ClientTyped
<1>5. MadeInside'
  BY <1>1, <1>3, <1>4 DEF MadeInside
<1>6. /\ pc[Root] # "begin" /\ (session = Gone \/ LostFits(t) \/ OpenFits(t))
      /\ N \in Nat /\ N > 0 /\ path[t][N] = t
      /\ \A i \in 1 .. N : path[t][i] \in Node /\ pc[path[t][i]] # Unborn
      /\ \A i \in 1 .. N - 1 : pc[path[t][i]] = "body"
  BY <1>2, RunningFacts
<1>7. Unsettled'
  BY <1>3, <1>4, RootIsNode DEF Unsettled, Runs
<1>8. SUFFICES session' = Gone \/ OpenFits(b)'
  <2>1. SessionFits(b)'
    BY <1>4, <1>6, <1>8, RootIsNode DEF SessionFits
  <2>. QED
    BY <1>2, <1>5, <1>7, <2>1, RootIsNode DEF Inv, Runs, Common
<1>9. CASE OpenFits(t)
  <2>1. /\ session.tx = "active" /\ Len(session.frames) = N /\ Numbered(session)
        /\ WorkFits(t)
    BY <1>2, <1>3, <1>9 DEF OpenFits, FramesFit
  <2>2. FramesFit(b)'
    <3>1. N + 1 - 1 = N
      BY <1>6
    <3>. QED
      BY <1>2, <1>3, <1>4, <2>1, <3>1 DEF FramesFit, Numbered
  <2>3. ASSUME NEW i \in 1 .. N PROVE Share(i, b)' = Share(i, t)
    <3>1. pc[path[t][i]] = "body" /\ path[t][i] # b /\ path[t][i] \in Node
      <4>1. CASE i = N
        BY <4>1, <1>2, <1>3, <1>6 DEF Unborn
      <4>2. CASE i \in 1 .. N - 1
        BY <4>2, <1>3, <1>6 DEF Unborn
      <4>. QED
        BY <4>1, <4>2, <1>6
    <3>2. \A w \in made : path'[w[1]] = path[w[1]]
      BY <1>1, <1>3, <1>4 DEF MadeInside
    <3>3. \A n \in Node : pc[n] # Unborn => (pc'[n] = "ok" <=> pc[n] = "ok")
      BY <1>3, <1>4
    <3>4. pc'[path[t][i]] = "body" /\ path'[b][i] = path[t][i] /\ made' = made
      BY <1>2, <1>3, <1>4, <3>1
    <3>. QED
      BY <1>1, <3>1, <3>2, <3>3, <3>4, ShareStays
  <2>4. WorkFits(b)'
    BY <1>3, <2>1, <2>3 DEF WorkFits
  <2>. QED
    BY <1>3, <2>1, <2>2, <2>4 DEF OpenFits
<1>10. CASE LostFits(t)
  BY <1>3, <1>10 DEF LostFits
<1>. QED
  BY <1>3, <1>6, <1>9, <1>10

\* A block that answers, and a block that goes on: what is left to show.
LEMMA RepliesInv ==
  ASSUME NEW t \in Node, Runs(t), pc[t] # "begin", NEW p \in Node, NEW how \in {"ok", "err"},
         NEW kind, RepliesTo(p, t, how, kind), UNCHANGED <<conn, out, made>>,
         ServerTyped', durable' = {}, session' = Gone \/ LostFits(p)' \/ OpenFits(p)'
  PROVE  Inv'
<1>1. ClientTyped /\ MadeInside /\ conn = "held" /\ pc[Root] \in RootSteps
  BY InnermostFacts DEF Runs, Common, Unsettled
<1>2. /\ ClientTyped' /\ Roles' /\ Paths' /\ Innermost(p)'
      /\ pc[p] = "body" /\ p # t /\ pc' = [pc EXCEPT ![t] = how]
  BY DEF RepliesTo
<1>3. pc'[t] = how /\ \A n \in Node : n # t => pc'[n] = pc[n]
  BY <1>1, <1>2 DEF ClientTyped
<1>4. pc[Root] = "body"
  <2>1. pc[Root] # "body" => t = Root
    BY InnermostFacts DEF Runs, Common
  <2>2. pc[Root] # "body" => p = Root
    <3>1. Live(p)
      BY <1>2 DEF Live, Running
    <3>. QED
      BY <2>1, <1>1, <3>1, OnlyRootRuns DEF Runs, Common
  <2>. QED
    BY <1>2, <2>2
<1>5. pc'[Root] = "body"
  <2>1. Root # t
    <3>1. Live(p)
      BY <1>2 DEF Live, Running
    <3>. QED
      BY <1>2, <3>1, OnlyRootRuns DEF Runs, Common
  <2>. QED
    BY <1>3, <1>4, <2>1, RootIsNode
<1>6. MadeInside'
  BY <1>1, <1>3 DEF MadeInside, Unborn
<1>7. Unsettled' /\ SessionFits(p)'
  BY <1>1, <1>5 DEF Unsettled, SessionFits
<1>. QED
  BY <1>2, <1>6, <1>7 DEF Inv, Runs, Common

LEMMA MovesInv ==
  ASSUME NEW t \in Node, Runs(t), t # Root, NEW x, Moves(t, x), x \notin {Unborn, "opening"},
         UNCHANGED <<conn, out, made>>,
         ServerTyped', durable' = {}, session' = Gone \/ LostFits(t)' \/ OpenFits(t)'
  PROVE  Inv'
<1>1. ClientTyped /\ MadeInside /\ conn = "held" /\ pc[Root] = "body"
  BY InnermostFacts DEF Runs, Common, Unsettled
<1>2. /\ ClientTyped' /\ Roles' /\ Paths' /\ Innermost(t)' /\ pc' = [pc EXCEPT ![t] = x]
  BY DEF Moves
<1>3. pc'[t] = x /\ \A n \in Node : n # t => pc'[n] = pc[n]
  BY <1>1, <1>2 DEF ClientTyped
<1>4. MadeInside'
  BY <1>1, <1>3 DEF MadeInside
<1>5. pc'[Root] = "body"
  BY <1>1, <1>3, RootIsNode
<1>6. Unsettled' /\ SessionFits(t)'
  BY <1>1, <1>5 DEF Unsettled, SessionFits
<1>. QED
  BY <1>2, <1>4, <1>6 DEF Inv, Runs, Common

LEMMA OpenInv ==
  ASSUME NEW t \in Node, Runs(t), NEW b \in Block, OpenSavepoint(b), ServerTyped'
  PROVE  Inv'
<1>1. ClientTyped /\ ServerTyped /\ Roles /\ Paths /\ Innermost(t) /\ MadeInside
      /\ durable = {} /\ session \in Sessions
  BY DEF Runs, Common, Unsettled, ServerTyped
<1>2. b = t /\ pc[t] = "opening"
  BY <1>1, OpenStruct
<1>3. PICK a \in Heard(session, Savepoint(session, level[t])) :
        /\ session' = a.session /\ durable' = durable \union a.kept
        /\ a.reply \in {"ok"} \union Errors
        /\ IF a.reply = "ok" THEN Moves(t, "body") ELSE Replies(t, "err", a.reply)
  BY <1>1, <1>2, OpenStruct DEF Hears
<1>4. UNCHANGED <<family, conn, path, out, made>> /\ t # Root
  BY <1>2, RootIsNode DEF OpenSavepoint, client
<1>5. PICK N \in Nat : Len(path[t]) = N + 1
  <2>1. Len(path[t]) \in Nat /\ Len(path[t]) > 0
    BY RunningFacts
  <2>2. Len(path[t]) - 1 \in Nat /\ Len(path[t]) = (Len(path[t]) - 1) + 1
    BY <2>1
  <2>. QED
    BY <2>2
<1>6. /\ level[t] = N /\ path[t][N + 1] = t /\ N > 0
      /\ \A i \in 1 .. N : path[t][i] \in Node /\ pc[path[t][i]] = "body" /\ path[t][i] # t
  <2>1. /\ level[t] = N + 1 - 1 /\ path[t][N + 1] = t
        /\ \A i \in 1 .. N + 1 : path[t][i] \in Node
        /\ \A i \in 1 .. N + 1 - 1 : pc[path[t][i]] = "body" /\ path[t][i] # t
    BY <1>5, RunningFacts
  <2>2. path[t][1] = Root
    BY <1>1, <1>2, PathFacts DEF Unborn
  <2>3. N # 0
    BY <1>4, <2>1, <2>2
  <2>. QED
    BY <2>1, <2>3
<1>7. session = Gone \/ OpenFits(t)
  BY <1>2, RunningFacts DEF LostFits, Failing
<1>8. CASE a.session = Gone /\ a.kept = {} /\ a.reply # "ok"
  <2>1. PICK p \in Node : RepliesTo(p, t, "err", a.reply)
    BY <1>3, <1>8 DEF Replies
  <2>2. durable' = {} /\ session' = Gone
    BY <1>1, <1>3, <1>8
  <2>. QED
    BY <1>2, <1>4, <2>1, <2>2, RepliesInv
<1>9. CASE session = Gone
  <2>1. session.tx = "gone"
    BY <1>9 DEF Gone
  <2>2. a.kept = {} /\ a.session = Gone /\ a.reply = "refused"
    BY <2>1, HeardKeepsNothing
  <2>. QED
    BY <1>8, <2>2
<1>10. CASE OpenFits(t)
  <2>1. /\ session.tx = "active" /\ Len(session.frames) = N /\ Numbered(session)
        /\ WorkFits(t)
    <3>1. N + 1 - 1 = N
      OBVIOUS
    <3>. QED
      BY <1>2, <1>5, <1>10, <3>1 DEF OpenFits, FramesFit, Failing
  <2>2. \A e \in Savepoint(session, level[t]) :
          /\ e.reply = "ok" /\ e.kept = {} /\ e.session.tx = "active"
          /\ Len(e.session.frames) = N + 1 /\ Numbered(e.session)
          /\ \A i \in 1 .. N : e.session.frames[i] = session.frames[i]
          /\ e.session.frames[N + 1].work = {}
    BY <1>1, <1>6, <2>1, SavepointOnTop
  <2>3. a.kept = {} /\ (a \in Savepoint(session, level[t])
                        \/ (a.session = Gone /\ a.reply = "refused"))
    BY <2>2, HeardKeepsNothing
  <2>4. CASE a \in Savepoint(session, level[t])
    <3>1. /\ Moves(t, "body") /\ session'.tx = "active"
          /\ Len(session'.frames) = N + 1 /\ Numbered(session')
          /\ \A i \in 1 .. N : session'.frames[i] = session.frames[i]
          /\ session'.frames[N + 1].work = {}
      BY <1>3, <2>2, <2>4
    <3>2. pc'[t] = "body" /\ \A n \in Node : n # t => pc'[n] = pc[n]
      BY <1>1, <3>1 DEF Moves, ClientTyped
    <3>3. \A n \in Node : pc[n] # Unborn => (pc'[n] = "ok" <=> pc[n] = "ok")
      BY <1>2, <3>2
    <3>4. ASSUME NEW i \in 1 .. N PROVE Share(i, t)' = Share(i, t)
      <4>1. pc[path[t][i]] = "body" /\ pc'[path[t][i]] = "body" /\ made' = made /\ path' = path
        BY <1>4, <1>6, <3>2
      <4>. QED
        BY <1>1, <3>3, <4>1, ShareStays
    <3>5. Share(N + 1, t)' = {}
      <4>. SUFFICES ASSUME NEW w \in made, Reaches(w, N + 1, t)' PROVE FALSE
        BY <1>4 DEF Share
      <4>1. Reaches(w, N + 1, t)
        BY <1>1, <1>4, <3>3, ReachesStays DEF MadeInside
      <4>2. N + 1 \in 1 .. Len(path[w[1]]) /\ path[w[1]][N + 1] = t
        BY <1>6, <4>1 DEF Reaches
      <4>3. /\ w[1] \in Node /\ pc[w[1]] # Unborn /\ pc[w[1]] # "opening"
        BY <1>1 DEF MadeInside
      <4>4. /\ N + 1 < Len(path[w[1]]) => pc[t] # "opening"
            /\ path[w[1]][Len(path[w[1]])] = w[1] /\ Len(path[w[1]]) \in Nat
        BY <1>1, <4>2, <4>3, PathFacts
      <4>. QED
        BY <1>2, <4>2, <4>3, <4>4
    <3>6. WorkFits(t)'
      <4>. SUFFICES ASSUME NEW i \in 1 .. N + 1 PROVE session'.frames[i].work = Share(i, t)'
        BY <3>1 DEF WorkFits
      <4>1. CASE i \in 1 .. N
        BY <2>1, <3>1, <3>4, <4>1 DEF WorkFits
      <4>2. CASE i = N + 1
        BY <3>1, <3>5, <4>2
      <4>. QED
        BY <4>1, <4>2
    <3>7. FramesFit(t)'
      BY <1>4, <1>5, <3>1, <3>2 DEF FramesFit, Numbered
    <3>8. OpenFits(t)' /\ durable' = {}
      BY <1>1, <1>3, <1>4, <2>1, <2>3, <3>1, <3>6, <3>7 DEF OpenFits
    <3>. QED
      BY <1>4, <3>1, <3>8, MovesInv DEF Unborn
  <2>5. CASE a.session = Gone /\ a.reply = "refused"
    BY <1>8, <2>3, <2>5
  <2>. QED
    BY <2>3, <2>4, <2>5
<1>. QED
  BY <1>7, <1>9, <1>10

\* A block with a frame of its own: the frame is at its level.
LEMMA OpenBlockFacts ==
  ASSUME NEW t \in Block, Runs(t), pc[t] # "opening", OpenFits(t)
  PROVE  \E N \in Nat :
           /\ N > 0 /\ N # 1 /\ Len(path[t]) = N /\ level[t] = N - 1
           /\ path[t][N] = t /\ \A i \in 1 .. N - 1 : pc[path[t][i]] = "body" /\ path[t][i] # t
           /\ Len(session.frames) = N /\ Numbered(session)
<1>1. PICK N \in Nat : Len(path[t]) = N
  BY RunningFacts, RootIsNode
<1>2. /\ level[t] = N - 1 /\ path[t][N] = t /\ N > 0
      /\ \A i \in 1 .. N - 1 : pc[path[t][i]] = "body" /\ path[t][i] # t
  BY <1>1, RunningFacts, RootIsNode
<1>3. N # 1
  <2>1. path[t][1] = Root /\ t # Root
    BY RunningFacts, PathFacts, RootIsNode DEF Runs, Common
  <2>. QED
    BY <1>2, <2>1
<1>4. Len(session.frames) = N /\ Numbered(session)
  BY <1>1 DEF OpenFits, FramesFit
<1>. QED
  BY <1>1, <1>2, <1>3, <1>4

\* What the answer of a savepoint call leaves when its frame has gone into the one
\* below: all of it if the answer is Ok, and nothing otherwise.
LEMMA MergedFits ==
  ASSUME NEW t \in Block, Runs(t), OpenFits(t), pc[t] # "opening", pc[t] # "body",
         NEW p \in Node, NEW how \in {"ok", "err"}, NEW kind, RepliesTo(p, t, how, kind),
         how = "err" => pc[t] = "forgetting", how = "ok" => pc[t] # "forgetting",
         UNCHANGED <<path, made>>,
         NEW N \in Nat, Len(path[t]) = N, N > 0, N # 1, Len(session.frames) = N,
         session'.tx = "active", Len(session'.frames) = N - 1, Numbered(session'),
         \A i \in 1 .. N - 2 : session'.frames[i] = session.frames[i],
         session'.frames[N - 1].work = session.frames[N - 1].work \union session.frames[N].work
  PROVE  OpenFits(p)'
<1>1. ClientTyped /\ Roles /\ Paths /\ MadeInside /\ WorkFits(t) /\ t \in Node
  BY RootIsNode DEF Runs, Common, OpenFits
<1>2. /\ p # t /\ pc[p] = "body" /\ p = path[t][N - 1] /\ Len(path[p]) = N - 1
      /\ \A i \in 1 .. N - 1 : path[p][i] = path[t][i]
      /\ pc' = [pc EXCEPT ![t] = how]
  BY DEF RepliesTo
<1>3. pc'[t] = how /\ \A n \in Node : n # t => pc'[n] = pc[n]
  BY <1>1, <1>2 DEF ClientTyped
<1>4. /\ pc[t] \in Running /\ pc[t] # Unborn /\ pc[t] # "ok" /\ path[t][N] = t
      /\ \A i \in 1 .. N - 1 : path[t][i] \in Node /\ pc[path[t][i]] = "body" /\ path[t][i] # t
  BY <1>1, RunningFacts DEF Running
<1>5. ASSUME NEW i \in 1 .. N - 1, NEW w \in made
      PROVE  Reaches(w, i, p)' <=> \/ Reaches(w, i, t)
                                   \/ how = "ok" /\ i = N - 1 /\ Reaches(w, N, t)
  <2>1. w[1] \in Node /\ pc[w[1]] # Unborn
    BY <1>1 DEF MadeInside
  <2>2. N > 1
    OBVIOUS
  <2>. QED
    BY <1>1, <1>2, <1>4, <2>1, <2>2, ReachesAfter
<1>6. ASSUME NEW i \in 1 .. N - 1
      PROVE  Share(i, p)' = IF i = N - 1 /\ how = "ok"
                            THEN Share(i, t) \union {w \in made : Reaches(w, N, t)} ELSE Share(i, t)
  <2>1. pc[path[t][i]] = "body" /\ pc'[path'[p][i]] = "body" /\ made' = made
    BY <1>2, <1>3, <1>4
  <2>2. Share(i, t) = {w \in made : Reaches(w, i, t)}
    BY <2>1 DEF Share
  <2>3. Share(i, p)' = {w \in made : Reaches(w, i, p)'}
    BY <2>1 DEF Share
  <2>. QED
    BY <1>5, <2>2, <2>3
<1>7. Share(N, t) = IF how = "ok" THEN {w \in made : Reaches(w, N, t)} ELSE {}
  BY <1>4 DEF Share
<1>8. ASSUME NEW i \in 1 .. N - 1 PROVE session'.frames[i].work = Share(i, p)'
  <2>1. session.frames[i].work = Share(i, t) /\ session.frames[N].work = Share(N, t)
    <3>1. i \in 1 .. N /\ N \in 1 .. N
      OBVIOUS
    <3>. QED
      BY <1>1, <3>1 DEF WorkFits
  <2>2. CASE i = N - 1
    BY <1>6, <1>7, <2>1, <2>2
  <2>3. CASE i # N - 1
    <3>1. i \in 1 .. N - 2
      BY <2>3
    <3>. QED
      BY <1>6, <2>1, <2>3, <3>1
  <2>. QED
    BY <2>2, <2>3
<1>9. WorkFits(p)' /\ FramesFit(p)'
  <2>1. Len(path'[p]) = N - 1 /\ pc'[p] = "body"
    BY <1>2, <1>3
  <2>. QED
    BY <1>8, <2>1 DEF WorkFits, FramesFit, Numbered
<1>. QED
  BY <1>1, <1>9 DEF OpenFits

LEMMA ReleaseInv ==
  ASSUME NEW t \in Node, Runs(t), NEW b \in Block, ReleaseSavepoint(b), ServerTyped'
  PROVE  Inv'
<1>1. ClientTyped /\ ServerTyped /\ Roles /\ Paths /\ Innermost(t) /\ durable = {}
      /\ session \in Sessions
  BY DEF Runs, Common, Unsettled, ServerTyped
<1>2. b = t /\ pc[t] = "releasing"
  BY <1>1, ReleaseStruct
<1>3. PICK a \in Heard(session, Release(session, level[t])) :
        /\ session' = a.session /\ durable' = durable \union a.kept
        /\ a.reply \in {"ok"} \union Errors
        /\ Replies(t, IF a.reply = "ok" THEN "ok" ELSE "err", a.reply)
  BY <1>1, <1>2, ReleaseStruct DEF Hears
<1>4. UNCHANGED <<family, conn, path, out, made>>
  BY <1>2 DEF ReleaseSavepoint, client
<1>5. session = Gone \/ OpenFits(t)
  BY <1>2, RunningFacts DEF LostFits, Failing
<1>6. CASE a.session = Gone /\ a.kept = {} /\ a.reply # "ok"
  <2>1. PICK p \in Node : RepliesTo(p, t, "err", a.reply)
    BY <1>3, <1>6 DEF Replies
  <2>2. durable' = {} /\ session' = Gone
    BY <1>1, <1>3, <1>6
  <2>. QED
    BY <1>2, <1>4, <2>1, <2>2, RepliesInv
<1>7. CASE session = Gone
  <2>1. session.tx = "gone"
    BY <1>7 DEF Gone
  <2>2. a.kept = {} /\ a.session = Gone /\ a.reply = "refused"
    BY <2>1, HeardKeepsNothing
  <2>. QED
    BY <1>6, <2>2
<1>8. CASE OpenFits(t)
  <2>1. PICK N \in Nat :
           /\ N > 0 /\ N # 1 /\ Len(path[t]) = N /\ level[t] = N - 1
           /\ Len(session.frames) = N /\ Numbered(session)
    BY <1>2, <1>8, OpenBlockFacts
  <2>2. session.tx = "active"
    BY <1>2, <1>8 DEF OpenFits, Failing
  <2>3. \A e \in Release(session, level[t]) :
          /\ e.reply = "ok" /\ e.kept = {} /\ e.session.tx = "active"
          /\ Len(e.session.frames) = N - 1 /\ Numbered(e.session)
          /\ \A i \in 1 .. N - 2 : e.session.frames[i] = session.frames[i]
          /\ e.session.frames[N - 1].work = session.frames[N - 1].work \union session.frames[N].work
    BY <1>1, <2>1, <2>2, ReleaseOfTop
  <2>4. a.kept = {} /\ (a \in Release(session, level[t])
                        \/ (a.session = Gone /\ a.reply = "refused"))
    BY <2>3, HeardKeepsNothing
  <2>5. CASE a \in Release(session, level[t])
    <3>1. /\ a.reply = "ok" /\ session'.tx = "active"
          /\ Len(session'.frames) = N - 1 /\ Numbered(session')
          /\ \A i \in 1 .. N - 2 : session'.frames[i] = session.frames[i]
          /\ session'.frames[N - 1].work = session.frames[N - 1].work \union session.frames[N].work
      BY <1>3, <2>3, <2>5
    <3>2. PICK p \in Node : RepliesTo(p, t, "ok", a.reply)
      BY <1>3, <3>1 DEF Replies
    <3>3. durable' = {}
      BY <1>1, <1>3, <2>2, <2>4, <3>1
    <3>4. t \in Block /\ pc[t] # "opening" /\ pc[t] # "body" /\ pc[t] # "forgetting" /\ pc[t] # "begin"
      BY <1>2
    <3>5. OpenFits(p)'
      BY <1>4, <1>8, <2>1, <3>1, <3>2, <3>3, <3>4, MergedFits
    <3>. QED
      BY <1>4, <3>2, <3>3, <3>4, <3>5, RepliesInv
  <2>6. CASE a.session = Gone /\ a.reply = "refused"
    BY <1>6, <2>4, <2>6
  <2>. QED
    BY <2>4, <2>5, <2>6
<1>. QED
  BY <1>5, <1>7, <1>8

LEMMA ForgetInv ==
  ASSUME NEW t \in Node, Runs(t), NEW b \in Block, ForgetSavepoint(b), ServerTyped'
  PROVE  Inv'
<1>1. ClientTyped /\ ServerTyped /\ Roles /\ Paths /\ Innermost(t) /\ durable = {}
      /\ session \in Sessions
  BY DEF Runs, Common, Unsettled, ServerTyped
<1>2. b = t /\ pc[t] = "forgetting"
  BY <1>1, ForgetStruct
<1>3. PICK a \in Heard(session, Release(session, level[t])) :
        /\ session' = a.session /\ durable' = durable \union a.kept
        /\ Replies(t, "err", OwnError(t))
  BY <1>1, <1>2, ForgetStruct DEF Hears
<1>4. UNCHANGED <<family, conn, path, out, made>>
  BY <1>2 DEF ForgetSavepoint, client
<1>5. PICK kind : kind = OwnError(t)
  OBVIOUS
<1>6. PICK p \in Node : RepliesTo(p, t, "err", kind)
  BY <1>3, <1>5 DEF Replies
<1>7. session = Gone \/ OpenFits(t)
  BY <1>2, RunningFacts DEF LostFits, Failing
<1>8. CASE a.session = Gone /\ a.kept = {}
  <2>1. durable' = {} /\ session' = Gone
    BY <1>1, <1>3, <1>8
  <2>. QED
    BY <1>2, <1>4, <1>6, <2>1, RepliesInv
<1>9. CASE session = Gone
  <2>1. session.tx = "gone"
    BY <1>9 DEF Gone
  <2>2. a.kept = {} /\ a.session = Gone
    BY <2>1, HeardKeepsNothing
  <2>. QED
    BY <1>8, <2>2
<1>10. CASE OpenFits(t)
  <2>1. PICK N \in Nat :
           /\ N > 0 /\ N # 1 /\ Len(path[t]) = N /\ level[t] = N - 1
           /\ Len(session.frames) = N /\ Numbered(session)
    BY <1>2, <1>10, OpenBlockFacts
  <2>2. session.tx = "active"
    BY <1>2, <1>10 DEF OpenFits, Failing
  <2>3. \A e \in Release(session, level[t]) :
          /\ e.reply = "ok" /\ e.kept = {} /\ e.session.tx = "active"
          /\ Len(e.session.frames) = N - 1 /\ Numbered(e.session)
          /\ \A i \in 1 .. N - 2 : e.session.frames[i] = session.frames[i]
          /\ e.session.frames[N - 1].work = session.frames[N - 1].work \union session.frames[N].work
    BY <1>1, <2>1, <2>2, ReleaseOfTop
  <2>4. a.kept = {} /\ (a \in Release(session, level[t]) \/ a.session = Gone)
    BY <2>3, HeardKeepsNothing
  <2>5. CASE a \in Release(session, level[t])
    <3>1. /\ a.reply = "ok" /\ session'.tx = "active"
          /\ Len(session'.frames) = N - 1 /\ Numbered(session')
          /\ \A i \in 1 .. N - 2 : session'.frames[i] = session.frames[i]
          /\ session'.frames[N - 1].work = session.frames[N - 1].work \union session.frames[N].work
      BY <1>3, <2>3, <2>5
    <3>3. durable' = {}
      BY <1>1, <1>3, <2>2, <2>4, <3>1
    <3>4. t \in Block /\ pc[t] # "opening" /\ pc[t] # "body" /\ pc[t] # "begin"
      BY <1>2
    <3>5. OpenFits(p)'
      BY <1>2, <1>4, <1>6, <1>10, <2>1, <3>1, <3>3, <3>4, MergedFits
    <3>. QED
      BY <1>4, <1>6, <3>3, <3>4, <3>5, RepliesInv
  <2>. QED
    BY <1>8, <2>4, <2>5
<1>. QED
  BY <1>7, <1>9, <1>10

LEMMA UndoInv ==
  ASSUME Disciplined, NEW t \in Node, Runs(t), NEW b \in Block, UndoSavepoint(b), ServerTyped'
  PROVE  Inv'
<1>1. ClientTyped /\ ServerTyped /\ Roles /\ Paths /\ Innermost(t) /\ MadeInside /\ durable = {}
      /\ session \in Sessions /\ family \in Families
  BY DEF Runs, Common, Unsettled, ServerTyped, ClientTyped
<1>2. b = t /\ pc[t] = "undoing"
  BY <1>1, UndoStruct
<1>3. PICK a \in Heard(session, RollbackTo(session, level[t])) :
        /\ session' = a.session /\ durable' = durable \union a.kept
        /\ IF a.reply = "ok" THEN Moves(t, "forgetting") ELSE Replies(t, "err", OwnError(t))
  BY <1>1, <1>2, UndoStruct DEF Hears
<1>4. UNCHANGED <<family, conn, path, out, made>> /\ t # Root /\ pc[t] # "begin"
  BY <1>2, RootIsNode DEF UndoSavepoint, client
<1>5. session = Gone \/ LostFits(t) \/ OpenFits(t)
  BY <1>2, RunningFacts
<1>6. PICK kind : kind = OwnError(t)
  OBVIOUS
<1>7. CASE a.session = Gone /\ a.kept = {} /\ a.reply # "ok"
  <2>1. PICK p \in Node : RepliesTo(p, t, "err", kind)
    BY <1>3, <1>6, <1>7 DEF Replies
  <2>2. durable' = {} /\ session' = Gone
    BY <1>1, <1>3, <1>7
  <2>. QED
    BY <1>2, <1>4, <2>1, <2>2, RepliesInv
<1>8. CASE session = Gone
  <2>1. session.tx = "gone"
    BY <1>8 DEF Gone
  <2>2. a.kept = {} /\ a.session = Gone /\ a.reply = "refused"
    BY <2>1, HeardKeepsNothing
  <2>. QED
    BY <1>7, <2>2
<1>9. CASE LostFits(t)
  <2>1. session = IdleSession /\ session.tx = "idle" /\ family # "Postgres" /\ owes[t] = "conflict"
    BY <1>9 DEF LostFits, IdleSession
  <2>2. RollbackTo(session, level[t]) = {Answer("refused", IdleSession, {})}
    BY <2>1 DEF RollbackTo, Refused
  <2>3. a.kept = {} /\ a.reply = "refused" /\ (a.session = IdleSession \/ a.session = Gone)
    BY <2>2, HeardKeepsNothing DEF Answer
  <2>4. CASE a.session = IdleSession
    <3>1. PICK p \in Node : RepliesTo(p, t, "err", kind)
      BY <1>3, <1>6, <2>3 DEF Replies
    <3>2. kind = "conflict" /\ "conflict" \notin NestedSurvives[family]
      BY <1>1, <1>6, <2>1 DEF OwnError, Disciplined, Families
    <3>3. owes'[p] = "conflict" /\ pc'[p] = "body"
      BY <1>1, <3>1, <3>2 DEF RepliesTo, Unless, ClientTyped
    <3>4. LostFits(p)' /\ durable' = {}
      BY <1>1, <1>3, <1>4, <2>1, <2>3, <2>4, <3>3 DEF LostFits, Failing
    <3>. QED
      BY <1>4, <3>1, <3>4, RepliesInv
  <2>. QED
    BY <1>7, <2>3, <2>4
<1>10. CASE OpenFits(t)
  <2>1. PICK N \in Nat :
           /\ N > 0 /\ N # 1 /\ Len(path[t]) = N /\ level[t] = N - 1 /\ path[t][N] = t
           /\ \A i \in 1 .. N - 1 : pc[path[t][i]] = "body" /\ path[t][i] # t
           /\ Len(session.frames) = N /\ Numbered(session)
    BY <1>2, <1>10, OpenBlockFacts
  <2>2. session.tx \in {"active", "aborted"} /\ WorkFits(t)
    BY <1>10 DEF OpenFits
  <2>3. \A e \in RollbackTo(session, level[t]) :
          /\ e.reply = "ok" /\ e.kept = {} /\ e.session.tx = "active"
          /\ Len(e.session.frames) = N /\ Numbered(e.session)
          /\ \A i \in 1 .. N - 1 : e.session.frames[i] = session.frames[i]
          /\ e.session.frames[N].work = {}
    BY <1>1, <2>1, <2>2, RollbackToTop
  <2>4. a.kept = {} /\ (a \in RollbackTo(session, level[t])
                        \/ (a.session = Gone /\ a.reply = "refused"))
    BY <2>3, HeardKeepsNothing
  <2>5. CASE a \in RollbackTo(session, level[t])
    <3>1. /\ a.reply = "ok" /\ session'.tx = "active"
          /\ Len(session'.frames) = N /\ Numbered(session')
          /\ \A i \in 1 .. N - 1 : session'.frames[i] = session.frames[i]
          /\ session'.frames[N].work = {}
      BY <1>3, <2>3, <2>5
    <3>2. Moves(t, "forgetting") /\ durable' = {}
      BY <1>1, <1>3, <2>2, <2>4, <3>1
    <3>3. pc'[t] = "forgetting" /\ \A n \in Node : n # t => pc'[n] = pc[n]
      BY <1>1, <3>2 DEF Moves, ClientTyped
    <3>4. \A n \in Node : pc[n] # Unborn => (pc'[n] = "ok" <=> pc[n] = "ok")
      BY <1>2, <3>3
    <3>5. ASSUME NEW i \in 1 .. N - 1 PROVE Share(i, t)' = Share(i, t)
      <4>1. path[t][i] \in Node
        BY <2>1, RunningFacts
      <4>2. pc[path[t][i]] = "body" /\ pc'[path[t][i]] = "body" /\ made' = made /\ path' = path
        BY <1>4, <2>1, <3>3, <4>1
      <4>. QED
        BY <1>1, <3>4, <4>2, ShareStays
    <3>6. Share(N, t)' = {}
      BY <1>4, <2>1, <3>3 DEF Share
    <3>7. WorkFits(t)'
      <4>. SUFFICES ASSUME NEW i \in 1 .. N PROVE session'.frames[i].work = Share(i, t)'
        BY <3>1 DEF WorkFits
      <4>1. CASE i \in 1 .. N - 1
        <5>1. i \in 1 .. N
          OBVIOUS
        <5>. QED
          BY <2>1, <2>2, <3>1, <3>5, <4>1, <5>1 DEF WorkFits
      <4>2. CASE i = N
        BY <3>1, <3>6, <4>2
      <4>. QED
        BY <4>1, <4>2
    <3>8. FramesFit(t)'
      BY <1>4, <2>1, <3>1, <3>3 DEF FramesFit, Numbered
    <3>9. OpenFits(t)'
      BY <3>1, <3>2, <3>7, <3>8 DEF OpenFits
    <3>. QED
      BY <1>4, <3>2, <3>9, MovesInv DEF Unborn
  <2>6. CASE a.session = Gone /\ a.reply = "refused"
    BY <1>7, <2>4, <2>6
  <2>. QED
    BY <2>4, <2>5, <2>6
<1>. QED
  BY <1>5, <1>8, <1>9, <1>10

LEMMA ReturnInv ==
  ASSUME NEW t \in Node, Runs(t), NEW n \in Node, NEW result \in {"ok", "err"},
         Return(n, result), ServerTyped'
  PROVE  Inv'
<1>1. ClientTyped /\ ServerTyped /\ Roles /\ Paths /\ Innermost(t) /\ MadeInside
      /\ durable = {} /\ conn = "held"
  BY DEF Runs, Common, Unsettled
<1>2. n = t /\ pc[t] = "body" /\ ClientTyped' /\ Roles' /\ Paths' /\ Innermost(t)'
  BY <1>1, ReturnStruct
<1>3. /\ result = "ok" => owes[t] = "none"
      /\ out' = [out EXCEPT ![t] = result]
      /\ pc' = [pc EXCEPT ![t] =
                 IF t = Root
                   THEN IF result = "ok" THEN "committing" ELSE "rollingback"
                   ELSE IF result = "ok" THEN "releasing" ELSE "undoing"]
      /\ UNCHANGED <<family, session, durable, conn, path, owes, made>>
  BY <1>2 DEF Return, server
<1>4. /\ pc'[t] \in {"committing", "rollingback", "releasing", "undoing"}
      /\ pc'[t] = "committing" => t = Root /\ result = "ok"
      /\ result = "err" => Failing(t)'
      /\ \A m \in Node : m # t => pc'[m] = pc[m]
  BY <1>1, <1>3 DEF ClientTyped, Failing
<1>5. MadeInside'
  BY <1>1, <1>3, <1>4 DEF MadeInside, Unborn
<1>6. /\ pc[Root] # "begin" /\ (session = Gone \/ LostFits(t) \/ OpenFits(t))
      /\ pc[Root] # "body" => t = Root
  BY <1>1, <1>2, RunningFacts, InnermostFacts
<1>7. pc'[Root] # "begin" /\ (pc'[Root] = "committing" => out'[Root] = "ok")
  <2>1. CASE t = Root
    BY <1>1, <1>3, <1>4, <2>1 DEF ClientTyped
  <2>2. CASE t # Root
    BY <1>4, <1>6, <2>2, RootIsNode
  <2>. QED
    BY <2>1, <2>2
<1>8. Unsettled'
  BY <1>1, <1>3, <1>7 DEF Unsettled
<1>9. SUFFICES session' = Gone \/ LostFits(t)' \/ OpenFits(t)'
  BY <1>2, <1>5, <1>7, <1>8, <1>9 DEF Inv, Runs, Common, SessionFits
<1>10. CASE LostFits(t)
  <2>1. result = "err"
    BY <1>3, <1>10 DEF LostFits
  <2>. QED
    BY <1>3, <1>4, <1>10, <2>1 DEF LostFits
<1>11. CASE OpenFits(t)
  <2>1. session.tx = "aborted" => result = "err"
    BY <1>3, <1>11 DEF OpenFits
  <2>2. FramesFit(t)'
    BY <1>2, <1>3, <1>4, <1>11 DEF OpenFits, FramesFit, Numbered
  <2>3. PICK N \in Nat :
          /\ Len(path[t]) = N /\ Len(session.frames) = N /\ path[t][N] = t
          /\ \A i \in 1 .. N : path[t][i] \in Node
          /\ \A i \in 1 .. N - 1 : pc[path[t][i]] = "body" /\ path[t][i] # t
    <3>1. Len(session.frames) = Len(path[t])
      BY <1>2, <1>11 DEF OpenFits, FramesFit
    <3>. QED
      BY <3>1, RunningFacts
  <2>4. ASSUME NEW i \in 1 .. N PROVE Share(i, t)' = Share(i, t)
    <3>1. pc[path[t][i]] # "forgetting" /\ pc'[path[t][i]] # "forgetting"
      <4>1. CASE i = N
        BY <1>2, <1>4, <2>3, <4>1
      <4>2. CASE i \in 1 .. N - 1
        BY <1>4, <2>3, <4>2
      <4>. QED
        BY <4>1, <4>2
    <3>2. \A m \in Node : pc[m] # Unborn => (pc'[m] = "ok" <=> pc[m] = "ok")
      BY <1>2, <1>4
    <3>. QED
      BY <1>1, <1>3, <3>1, <3>2, ShareStays
  <2>5. WorkFits(t)'
    BY <1>3, <1>11, <2>3, <2>4 DEF OpenFits, WorkFits
  <2>. QED
    BY <1>3, <1>4, <1>11, <2>1, <2>2, <2>5 DEF OpenFits
<1>. QED
  BY <1>3, <1>6, <1>10, <1>11

\* What COMMIT and ROLLBACK answer to a transaction that runs.
LEMMA EndAnswers ==
  ASSUME Runs(Root), pc[Root] \in {"committing", "rollingback"},
         NEW a \in Heard(session, IF pc[Root] = "committing" THEN Commit(session)
                                  ELSE Rollback(session))
  PROVE  /\ a.reply = "ok" => a.session = IdleSession
         /\ a.kept = {} \/ (pc[Root] = "committing" /\ a.kept = Pending(session) /\ OpenFits(Root))
         /\ pc[Root] = "committing" /\ a.reply = "ok"
               => OpenFits(Root) /\ a.kept = Pending(session)
<1>1. session = Gone \/ LostFits(Root) \/ OpenFits(Root)
  BY RootIsNode, RunningFacts
<1>2. CASE session = Gone
  <2>1. session.tx = "gone"
    BY <1>2 DEF Gone
  <2>. QED
    BY <2>1, HeardKeepsNothing
<1>3. CASE LostFits(Root)
  <2>1. pc[Root] = "rollingback" /\ session = IdleSession /\ session.tx = "idle"
    BY <1>3 DEF LostFits, Failing, IdleSession
  <2>2. \A e \in Rollback(session) : e.kept = {} /\ (e.reply = "ok" => e.session = IdleSession)
    BY <2>1 DEF Rollback, Refused, Ok, Answer
  <2>3. a \in Heard(session, Rollback(session))
    BY <2>1
  <2>. QED
    BY <2>1, <2>2, <2>3, HeardKeepsNothing
<1>4. CASE OpenFits(Root) /\ pc[Root] = "rollingback"
  <2>1. \A e \in Rollback(session) : e.kept = {} /\ (e.reply = "ok" => e.session = IdleSession)
    BY <1>4 DEF OpenFits, Rollback, Ok, Answer
  <2>2. a \in Heard(session, Rollback(session))
    BY <1>4
  <2>. QED
    BY <1>4, <2>1, <2>2, HeardKeepsNothing
<1>5. CASE OpenFits(Root) /\ pc[Root] = "committing"
  <2>1. session.tx = "active"
    BY <1>5 DEF OpenFits, Failing
  <2>2. \A e \in Commit(session) :
          \/ e.reply = "ok" /\ e.session = IdleSession /\ e.kept = Pending(session)
          \/ e.reply = "conflict" /\ e.kept = {}
    BY <2>1 DEF Commit, Answer
  <2>3. a \in Heard(session, Commit(session))
    BY <1>5
  <2>. QED
    BY <1>5, <2>2, <2>3, HeardIs
<1>. QED
  BY <1>1, <1>2, <1>3, <1>4, <1>5

\* When the closure has returned Ok, the transaction's own frame holds what every
\* block around it was asked to keep.
LEMMA PendingIsKept ==
  ASSUME Runs(Root), OpenFits(Root), pc[Root] = "committing",
         pc' \in [Node -> Running \union Ended \union {Unborn}],
         \A n \in Node : n # Root => pc'[n] = pc[n],
         UNCHANGED <<path, out, made>>
  PROVE  /\ Pending(session) \subseteq made
         /\ \A w \in made : KeepsAll(w)' <=> w \in Pending(session)
<1>1. /\ ClientTyped /\ Roles /\ Paths /\ Innermost(Root) /\ MadeInside /\ out[Root] = "ok"
      /\ Root \in Node /\ pc[Root] # Unborn
  BY RootIsNode DEF Runs, Common, Unsettled, Unborn
<1>2. Len(path[Root]) = 1 /\ path[Root][1] = Root
  BY <1>1, PathOfRoot
<1>3. Len(session.frames) = 1 /\ session.frames[1].work = Share(1, Root)
  BY <1>2 DEF OpenFits, FramesFit, WorkFits
<1>4. DOMAIN session.frames = 1 .. 1
  BY <1>3, SessionFacts DEF Runs, Common, ServerTyped
<1>5. Pending(session) = Share(1, Root)
  BY <1>3, <1>4 DEF Pending
<1>6. Share(1, Root) = {w \in made : Reaches(w, 1, Root)}
  BY <1>2 DEF Share
<1>7. ASSUME NEW w \in made PROVE KeepsAll(w)' <=> Reaches(w, 1, Root)
  <2>1. w[1] \in Node /\ pc[w[1]] # Unborn
    BY <1>1 DEF MadeInside
  <2>2. PICK M \in Nat \ {0} :
           /\ Len(path[w[1]]) = M /\ DOMAIN path[w[1]] = 1 .. M /\ path[w[1]][1] = Root
           /\ \A j \in 1 .. M : path[w[1]][j] \in Node
    BY <1>1, <2>1, PathFacts
  <2>3. \A j \in 1 .. M : j > 1 => path[w[1]][j] # Root
    <3>1. 1 \in 1 .. M
      BY <2>2
    <3>. QED
      BY <1>1, <2>1, <2>2, <3>1, PathsAreInjective
  <2>4. KeepsAll(w)' <=> \A j \in 1 .. M : IF path[w[1]][j] = Root THEN out[Root] = "ok"
                                           ELSE pc'[path[w[1]][j]] = "ok"
    BY <2>2 DEF KeepsAll, Chain
  <2>5. \A j \in 1 .. M : j > 1 => pc'[path[w[1]][j]] = pc[path[w[1]][j]]
    BY <2>2, <2>3
  <2>6. Reaches(w, 1, Root) <=> \A j \in 1 .. M : j > 1 => pc[path[w[1]][j]] = "ok"
    BY <1>2, <2>2 DEF Reaches
  <2>7. \A j \in 1 .. M : j > 1 \/ j = 1
    BY <2>2
  <2>. QED
    BY <1>1, <2>2, <2>3, <2>4, <2>5, <2>6, <2>7
<1>. QED
  BY <1>5, <1>6, <1>7

LEMMA EndInv ==
  ASSUME NEW t \in Node, Runs(t), End, ServerTyped'
  PROVE  Inv'
<1>1. ClientTyped /\ Roles /\ Paths /\ Innermost(t) /\ MadeInside /\ durable = {} /\ ClientTyped
  BY DEF Runs, Common, Unsettled
<1>2. /\ t = Root /\ ClientTyped' /\ Roles' /\ Paths' /\ ~Live(Root)'
      /\ \A b \in Block : ~Live(b)'
  BY <1>1, EndStruct
<1>3. pc[Root] \in {"committing", "rollingback"} /\ UNCHANGED <<path, out, made>>
  BY DEF End
<1>4. PICK a \in Heard(session, IF pc[Root] = "committing" THEN Commit(session)
                                ELSE Rollback(session)) :
        /\ durable' = durable \union a.kept /\ conn' = Disposal(a.reply)
        /\ session' = IF conn' = "closed" THEN Gone ELSE a.session
        /\ pc' = [pc EXCEPT ![Root] = Outcome(a.reply, @)]
  BY DEF End
<1>5. /\ a.reply = "ok" => a.session = IdleSession
      /\ a.kept = {} \/ (pc[Root] = "committing" /\ a.kept = Pending(session) /\ OpenFits(Root))
      /\ pc[Root] = "committing" /\ a.reply = "ok" => OpenFits(Root) /\ a.kept = Pending(session)
  BY <1>2, <1>3, EndAnswers
<1>6. /\ \A n \in Node : n # Root => pc'[n] = pc[n]
      /\ pc'[Root] = "ok" <=> pc[Root] = "committing" /\ a.reply = "ok"
      /\ pc'[Root] \in {"ok", "err"}
  BY <1>1, <1>4, RootIsNode DEF ClientTyped, Outcome
<1>7. durable' = a.kept /\ (a.reply # "ok" => conn' = "closed")
      /\ (conn' = "pool" => session' = IdleSession)
  BY <1>1, <1>4, <1>5 DEF Disposal
<1>8. \A n \in Node : ~Live(n)'
  BY <1>2, RootIsNode
<1>9. MadeInside'
  BY <1>1, <1>3, <1>6 DEF MadeInside, Unborn
<1>10. PooledIsClean'
  BY <1>7 DEF PooledIsClean, IdleSession
<1>12. AllOrNothing'
  <2>1. CASE a.kept = {} /\ pc'[Root] # "ok"
    BY <1>7, <2>1 DEF AllOrNothing, NothingOfAFailedBlock, OkKeepsEverything
  <2>2. CASE pc[Root] = "committing" /\ a.kept = Pending(session) /\ OpenFits(Root)
    <3>1. /\ Pending(session) \subseteq made
          /\ \A w \in made : KeepsAll(w)' <=> w \in Pending(session)
      BY <1>2, <1>3, <1>6, <2>2, PendingIsKept DEF ClientTyped
    <3>2. PICK pending : pending = Pending(session)
      OBVIOUS
    <3>3. \A w \in pending : KeepsAll(w)'
      BY <3>1, <3>2
    <3>4. \A w \in made : KeepsAll(w)' => w \in pending
      BY <3>1, <3>2
    <3>5. durable' = pending /\ made' = made
      BY <1>3, <1>7, <2>2, <3>2
    <3>. QED
      BY <3>3, <3>4, <3>5 DEF AllOrNothing, NothingOfAFailedBlock, OkKeepsEverything
  <2>. QED
    BY <1>5, <1>6, <2>1, <2>2
<1>. QED
  BY <1>2, <1>8, <1>9, <1>10, <1>12 DEF Inv, Over, Common, Settled

LEMMA DropInv ==
  ASSUME Disciplined, NEW t \in Node, Runs(t), DropBegin \/ DropTransaction \/ DropEnd,
         ServerTyped'
  PROVE  Inv'
<1>1. /\ ClientTyped /\ Roles /\ Paths /\ Innermost(t) /\ MadeInside /\ durable = {}
      /\ DropTransaction
  BY DEF Runs, Common, Unsettled, Disciplined, DropBegin, DropEnd
<1>2. ClientTyped' /\ Roles' /\ Paths' /\ ~Live(Root)' /\ \A b \in Block : ~Live(b)'
  BY <1>1, DropStruct
<1>3. durable' = {} /\ conn' = "closed" /\ made' = made /\ pc[Root] = "body"
  BY <1>1 DEF DropTransaction
<1>4. \A n \in Node : pc'[n] = IF Live(n) THEN "cancelled" ELSE pc[n]
  BY <1>1 DEF DropTransaction, Cancelled
<1>5. pc'[Root] = "cancelled"
  BY <1>3, <1>4, RootIsNode DEF Live, Running
<1>6. MadeInside'
  BY <1>1, <1>3, <1>4 DEF MadeInside, Unborn
<1>7. Settled'
  BY <1>3, <1>5 DEF Settled, AllOrNothing, NothingOfAFailedBlock, OkKeepsEverything,
                    PooledIsClean
<1>8. \A n \in Node : ~Live(n)'
  BY <1>2, RootIsNode
<1>. QED
  BY <1>2, <1>6, <1>7, <1>8 DEF Inv, Over, Common

LEMMA InvInit == Init => Inv
<1>. SUFFICES ASSUME Init PROVE Runs(Root)
  BY RootIsNode DEF Inv
<1>1. ClientTyped /\ Structured /\ ServerTyped
  BY StructInit, ServerInit
<1>2. pc[Root] = "begin" /\ Live(Root) /\ made = {} /\ session = IdleSession
  BY RootIsNode DEF Init, Live, Running
<1>3. Innermost(Root)
  <2>1. PICK t \in Node : Innermost(t)
    BY <1>1, <1>2 DEF Structured
  <2>2. t = Root
    BY <1>1, <1>2, <2>1, InnermostFacts DEF Structured
  <2>. QED
    BY <2>1, <2>2
<1>. QED
  BY <1>1, <1>2, <1>3 DEF Init, Runs, Common, Structured, Unsettled, SessionFits, MadeInside

LEMMA RunsNext ==
  ASSUME Disciplined, NEW t \in Node, Runs(t), Next
  PROVE  Inv'
<1>1. ServerTyped'
  BY ServerNext DEF Runs, Common
<1>2. CASE BeginOn
  BY <1>1, <1>2, BeginInv
<1>3. CASE \E w \in Write : Execute(w[1], w)
  <2>1. PICK w \in Write : Execute(w[1], w)
    BY <1>3
  <2>2. w[1] \in Node
    BY DEF Write
  <2>. QED
    BY <1>1, <2>1, <2>2, ExecuteInv
<1>4. CASE \E p \in Node, b \in Block : EnterSavepoint(p, b)
  BY <1>1, <1>4, EnterInv
<1>5. ASSUME NEW b \in Block, \/ OpenSavepoint(b) \/ ReleaseSavepoint(b)
                              \/ UndoSavepoint(b) \/ ForgetSavepoint(b)
      PROVE  Inv'
  BY <1>1, <1>5, OpenInv, ReleaseInv, UndoInv, ForgetInv
<1>6. CASE \E n \in Node, result \in {"ok", "err"} : Return(n, result)
  BY <1>1, <1>6, ReturnInv
<1>7. CASE End
  BY <1>1, <1>7, EndInv
<1>8. CASE DropBegin \/ DropTransaction \/ DropEnd
  BY <1>1, <1>8, DropInv
<1>9. ~Finished
  <2>1. pc[Root] \in RootSteps
    BY InnermostFacts DEF Runs, Common
  <2>. QED
    BY <2>1 DEF Finished, RootSteps, Ended
<1>10. \A b \in Block : ~DropSavepoint(b)
  BY DEF Disciplined, DropSavepoint
<1>. QED
  BY <1>2, <1>3, <1>4, <1>5, <1>6, <1>7, <1>8, <1>9, <1>10 DEF Next

LEMMA InvNext ==
  ASSUME Disciplined, Inv, [Next]_vars
  PROVE  Inv'
<1>1. CASE UNCHANGED vars
  <2>1. Common => Common'
    BY <1>1 DEF vars, Common, ClientTyped, ServerTyped, Roles, Paths, MadeInside
  <2>2. Settled => Settled'
    BY <1>1 DEF vars, Settled, AllOrNothing, NothingOfAFailedBlock, OkKeepsEverything, KeepsAll,
                Chain, PooledIsClean
  <2>3. Over => Over'
    BY <1>1, <2>1, <2>2 DEF vars, Over, Live
  <2>4. ASSUME NEW t \in Node, Runs(t) PROVE Runs(t)'
    <3>1. Unsettled' /\ Innermost(t)'
      BY <1>1, <2>4 DEF vars, Runs, Unsettled, Innermost, Live, Chain
    <3>2. \A w, i : Reaches(w, i, t)' <=> Reaches(w, i, t)
      BY <1>1 DEF vars, Reaches
    <3>3. \A i : Share(i, t)' = Share(i, t)
      BY <1>1, <3>2 DEF vars, Share
    <3>4. WorkFits(t) => WorkFits(t)'
      BY <1>1, <3>3 DEF vars, WorkFits
    <3>5. SessionFits(t)'
      BY <1>1, <2>4, <3>4 DEF vars, Runs, SessionFits, LostFits, OpenFits, Failing, FramesFit,
                              Numbered
    <3>. QED
      BY <2>1, <2>4, <3>1, <3>5 DEF Runs
  <2>. QED
    BY <2>3, <2>4 DEF Inv
<1>2. CASE Over
  <2>1. UNCHANGED vars
    BY <1>2, OverIsOver, RootIsNode DEF Over, Common
  <2>. QED
    BY <1>1, <2>1
<1>3. ASSUME NEW t \in Node, Runs(t), Next PROVE Inv'
  BY <1>3, RunsNext
<1>. QED
  BY <1>1, <1>2, <1>3 DEF Inv

\* While the transaction runs nothing is durable and its connection is held.
LEMMA InvIsSettled == Inv => AllOrNothing /\ PooledIsClean
<1>1. Over => AllOrNothing /\ PooledIsClean
  BY DEF Over, Settled
<1>2. ASSUME NEW t \in Node, Runs(t)
      PROVE  AllOrNothing /\ PooledIsClean
  <2>1. durable = {} /\ conn = "held" /\ pc[Root] # "ok"
    BY <1>2, InnermostFacts DEF Runs, Common, Unsettled, RootSteps
  <2>. QED
    BY <2>1 DEF AllOrNothing, NothingOfAFailedBlock, OkKeepsEverything, PooledIsClean
<1>. QED
  BY <1>1, <1>2 DEF Inv

-----------------------------------------------------------------------------
\* A failed block answers.

LEMMA OnlyCleanupAnswers ==
  ASSUME ClientTyped, [Next]_vars, NEW b \in Block, pc[b] \in {"undoing", "forgetting"},
         pc'[b] = "err"
  PROVE  UndoSavepoint(b) \/ ForgetSavepoint(b)
<1>. USE RootIsNode DEF ClientTyped
<1>1. pc' # pc
  OBVIOUS
<1>2. \A n \in Node : \A x : pc' = [pc EXCEPT ![n] = x] => n = b
  OBVIOUS
<1>3. ~BeginOn /\ ~End
  BY <1>2 DEF BeginOn, End
<1>4. \A w \in Write : ~Execute(w[1], w)
  BY <1>1 DEF Execute
<1>5. \A p \in Node, c \in Block : ~EnterSavepoint(p, c)
  BY <1>2 DEF EnterSavepoint, Unborn
<1>6. \A c \in Block : ~OpenSavepoint(c) /\ ~ReleaseSavepoint(c)
                      /\ (UndoSavepoint(c) \/ ForgetSavepoint(c) => c = b)
  BY <1>2 DEF OpenSavepoint, ReleaseSavepoint, UndoSavepoint, ForgetSavepoint, Answers
<1>7. \A n \in Node, result \in {"ok", "err"} : ~Return(n, result)
  BY <1>2 DEF Return
<1>8. \A nodes : ~Cancelled(nodes)
  BY DEF Cancelled
<1>9. ~DropBegin /\ ~DropTransaction /\ ~DropEnd /\ \A c \in Block : ~DropSavepoint(c)
  BY <1>8 DEF DropBegin, DropTransaction, DropEnd, DropSavepoint
<1>10. ~Finished /\ ~UNCHANGED vars
  BY <1>1 DEF Finished, vars
<1>. QED
  BY <1>3, <1>4, <1>5, <1>6, <1>7, <1>9, <1>10 DEF Next

LEMMA AnsweredOuterLives ==
  ASSUME Inv, [Next]_vars, NEW b \in Block, pc[b] \in {"undoing", "forgetting"},
         pc'[b] = "err", owes[b] # "conflict"
  PROVE  session'.tx \in {"active", "gone"}
<1>1. Live(b) /\ b \in Node
  BY RootIsNode DEF Live, Running
<1>2. PICK t \in Node : Runs(t)
  BY <1>1 DEF Inv, Over
<1>3. ClientTyped /\ ServerTyped /\ Roles /\ Paths /\ Innermost(t) /\ session \in Sessions
  BY <1>2 DEF Runs, Common, ServerTyped
<1>4. b = t
  BY <1>1, <1>3, AwaitingIsInnermost
<1>5. session = Gone \/ OpenFits(t)
  BY <1>2, <1>4, RunningFacts DEF LostFits
<1>6. UndoSavepoint(b) \/ ForgetSavepoint(b)
  BY <1>3, OnlyCleanupAnswers
<1>7. PICK a \in Heard(session, Cleanup(b)) :
        /\ session' = a.session
        /\ UndoSavepoint(b) => a.reply # "ok"
  <2>1. CASE ForgetSavepoint(b)
    BY <2>1 DEF ForgetSavepoint, UndoSavepoint, Hears
  <2>2. CASE UndoSavepoint(b)
    <3>1. PICK a \in Heard(session, Cleanup(b)) :
            /\ Hears(a)
            /\ a.reply = "ok" => pc' = [pc EXCEPT ![b] = "forgetting"]
      BY <2>2 DEF UndoSavepoint
    <3>2. a.reply # "ok"
      BY <1>1, <1>3, <3>1 DEF ClientTyped
    <3>. QED
      BY <3>1, <3>2 DEF Hears
  <2>. QED
    BY <1>6, <2>1, <2>2
<1>8. CASE session = Gone
  <2>1. session.tx = "gone"
    BY <1>8 DEF Gone
  <2>2. a.session = Gone
    BY <2>1, HeardIs
  <2>. QED
    BY <1>7, <2>2 DEF Gone
<1>9. CASE OpenFits(t)
  <2>1. PICK N \in Nat :
           /\ N > 0 /\ N # 1 /\ level[t] = N - 1
           /\ Len(session.frames) = N /\ Numbered(session)
    BY <1>2, <1>4, <1>9, OpenBlockFacts
  <2>2. CASE UndoSavepoint(b)
    <3>1. Cleanup(b) = RollbackTo(session, level[t]) /\ session.tx \in {"active", "aborted"}
      BY <1>4, <1>9, <2>2 DEF UndoSavepoint, Cleanup, OpenFits
    <3>2. \A e \in Cleanup(b) : e.reply = "ok"
      BY <1>3, <2>1, <3>1, RollbackToTop
    <3>3. a.session = Gone
      BY <1>7, <2>2, <3>2, HeardIs
    <3>. QED
      BY <1>7, <3>3 DEF Gone
  <2>3. CASE ForgetSavepoint(b)
    <3>1. Cleanup(b) = Release(session, level[t]) /\ session.tx = "active"
      BY <1>4, <1>9, <2>3 DEF ForgetSavepoint, Cleanup, OpenFits, Failing
    <3>2. \A e \in Cleanup(b) : e.session.tx = "active"
      BY <1>3, <2>1, <3>1, ReleaseOfTop
    <3>3. a.session = Gone \/ a.session.tx = "active"
      BY <3>2, HeardIs
    <3>. QED
      BY <1>7, <3>3 DEF Gone
  <2>. QED
    BY <1>6, <2>2, <2>3
<1>. QED
  BY <1>5, <1>8, <1>9

-----------------------------------------------------------------------------
\* Where the connection is, whatever is joined and whatever is dropped.

RootOnly ==
    /\ pc \in [Node -> Running \union Ended \union {Unborn}]
    /\ pc[Root] \in RootSteps \union Ended
    /\ path \in [Node -> Seq(Node)] /\ path[Root] = <<Root>>

SettledInv == RootOnly /\ SettledWithOutcome

LEMMA SettledNext ==
  ASSUME SettledInv, [Next]_vars
  PROVE  SettledInv'
<1>. USE RootIsNode
<1>1. /\ pc \in [Node -> Running \union Ended \union {Unborn}]
      /\ pc[Root] \in RootSteps \union Ended
      /\ path \in [Node -> Seq(Node)] /\ path[Root] = <<Root>>
      /\ pc[Root] \in Ended <=> conn # "held"
  BY DEF SettledInv, RootOnly, SettledWithOutcome
<1>2. ASSUME pc' \in [Node -> Running \union Ended \union {Unborn}], pc'[Root] = pc[Root],
             UNCHANGED <<path, conn>>
      PROVE  SettledInv'
  BY <1>1, <1>2 DEF SettledInv, RootOnly, SettledWithOutcome
<1>3. ASSUME NEW b \in Block, NEW x \in Running \union Ended,
             pc' = [pc EXCEPT ![b] = x], UNCHANGED <<path, conn>>
      PROVE  SettledInv'
  BY <1>1, <1>2, <1>3
<1>4. ASSUME NEW nodes, Cancelled(nodes)
      PROVE  /\ pc' \in [Node -> Running \union Ended \union {Unborn}]
             /\ pc'[Root] = IF Root \in nodes /\ Live(Root) THEN "cancelled" ELSE pc[Root]
  BY <1>1, <1>4 DEF Cancelled, Ended
<1>5. CASE UNCHANGED <<pc, path, conn>>
  BY <1>1, <1>2, <1>5
<1>6. CASE BeginOn
  <2>1. path' = path /\ \/ pc' = [pc EXCEPT ![Root] = "body"] /\ conn' = conn
                        \/ pc' = [pc EXCEPT ![Root] = "err"] /\ conn' = "closed"
    BY <1>6 DEF BeginOn
  <2>2. pc[Root] = "begin"
    BY <1>6 DEF BeginOn
  <2>. QED
    BY <1>1, <2>1, <2>2 DEF SettledInv, RootOnly, SettledWithOutcome, RootSteps, Ended, Running
<1>7. ASSUME NEW q \in Node, NEW b \in Block, EnterSavepoint(q, b)
      PROVE  SettledInv'
  <2>1. /\ path' = [path EXCEPT ![b] = Append(path[q], b)] /\ conn' = conn
        /\ pc' = [pc EXCEPT ![b] = "opening"]
    BY <1>7 DEF EnterSavepoint, client
  <2>2. path' \in [Node -> Seq(Node)] /\ path'[Root] = <<Root>>
    <3>1. Append(path[q], b) \in Seq(Node)
      BY <1>1, AppendProperties
    <3>. QED
      BY <1>1, <2>1, <3>1
  <2>. QED
    BY <1>1, <2>1, <2>2 DEF SettledInv, RootOnly, SettledWithOutcome, Running
<1>8. ASSUME NEW b \in Block, \/ OpenSavepoint(b) \/ ReleaseSavepoint(b)
                              \/ UndoSavepoint(b) \/ ForgetSavepoint(b)
      PROVE  SettledInv'
  <2>1. UNCHANGED <<path, conn>>
    BY <1>8 DEF OpenSavepoint, ReleaseSavepoint, UndoSavepoint, ForgetSavepoint, client
  <2>2. \E x \in {"body", "forgetting", "ok", "err"} : pc' = [pc EXCEPT ![b] = x]
    BY <1>8 DEF OpenSavepoint, ReleaseSavepoint, UndoSavepoint, ForgetSavepoint, Answers
  <2>. QED
    BY <1>3, <2>1, <2>2 DEF Running, Ended
<1>9. ASSUME NEW n \in Node, NEW result \in {"ok", "err"}, Return(n, result)
      PROVE  SettledInv'
  <2>1. UNCHANGED <<path, conn>> /\ pc[n] = "body"
    BY <1>9 DEF Return
  <2>2. PICK x \in IF n = Root THEN {"committing", "rollingback"} ELSE {"releasing", "undoing"} :
          pc' = [pc EXCEPT ![n] = x]
    BY <1>9 DEF Return
  <2>. QED
    BY <1>1, <2>1, <2>2 DEF SettledInv, RootOnly, SettledWithOutcome, RootSteps, Ended, Running
<1>10. CASE End
  <2>1. /\ pc[Root] \in {"committing", "rollingback"} /\ path' = path
        /\ \E reply : conn' = Disposal(reply) /\ pc' = [pc EXCEPT ![Root] = Outcome(reply, @)]
    BY <1>10 DEF End
  <2>2. conn' # "held" /\ \E x \in {"ok", "err"} : pc' = [pc EXCEPT ![Root] = x]
    BY <2>1 DEF Disposal, Outcome
  <2>. QED
    BY <1>1, <2>1, <2>2 DEF SettledInv, RootOnly, SettledWithOutcome, Ended
<1>11. CASE DropBegin \/ DropTransaction \/ DropEnd
  <2>1. /\ conn' # "held" /\ path' = path /\ pc[Root] \in RootSteps
        /\ \E nodes : Root \in nodes /\ Cancelled(nodes)
    BY <1>11 DEF DropBegin, DropTransaction, DropEnd, RootSteps
  <2>2. Live(Root)
    BY <2>1 DEF RootSteps, Running, Live
  <2>. QED
    BY <1>1, <1>4, <2>1, <2>2 DEF SettledInv, RootOnly, SettledWithOutcome, Ended
<1>12. ASSUME NEW b \in Block, DropSavepoint(b)
       PROVE  SettledInv'
  <2>1. Cancelled(Inside(b)) /\ UNCHANGED <<path, conn>>
    BY <1>12 DEF DropSavepoint, client
  <2>2. Root \notin Inside(b)
    <3>1. DOMAIN <<Root>> = {1} /\ <<Root>>[1] = Root /\ b # Root
      OBVIOUS
    <3>. QED
      BY <1>1, <3>1 DEF Inside
  <2>. QED
    BY <1>2, <1>4, <2>1, <2>2
<1>13. CASE (\E w \in Write : Execute(w[1], w)) \/ Finished \/ UNCHANGED vars
  BY <1>5, <1>13 DEF Execute, Finished, vars, client
<1>14. CASE \E b \in Block : \/ OpenSavepoint(b) \/ ReleaseSavepoint(b)
                             \/ UndoSavepoint(b) \/ ForgetSavepoint(b) \/ DropSavepoint(b)
  BY <1>8, <1>12, <1>14
<1>15. CASE \E q \in Node, b \in Block : EnterSavepoint(q, b)
  BY <1>7, <1>15
<1>16. CASE \E n \in Node, result \in {"ok", "err"} : Return(n, result)
  BY <1>9, <1>16
<1>. QED
  BY <1>6, <1>10, <1>11, <1>13, <1>14, <1>15, <1>16 DEF Next

-----------------------------------------------------------------------------
\* The theorems.

\* A block is all or nothing (begin.rs, within and atomic): whatever blocks are
\* nested in whatever others, whichever of their statements, savepoints and
\* cleanups fail, whether the reply to COMMIT is lost, and whether the caller
\* drops the whole transaction, what is durable is what every block around it
\* was asked to keep, and all of that when the caller is told Ok.
THEOREM AlwaysAllOrNothing ==
  ASSUME Disciplined PROVE Spec => []AllOrNothing
<1>1. Inv /\ [Next]_vars => Inv'
  BY InvNext
<1>. QED
  BY <1>1, InvInit, InvIsSettled, PTL DEF Spec

\* A connection never returns to its pool inside a transaction (mod.rs, end and
\* Drop), whatever the engine answers to COMMIT, ROLLBACK and everything before.
THEOREM AlwaysPooledClean ==
  ASSUME Disciplined PROVE Spec => []PooledIsClean
<1>1. Inv /\ [Next]_vars => Inv'
  BY InvNext
<1>. QED
  BY <1>1, InvInit, InvIsSettled, PTL DEF Spec

\* A block that fails rolls back to its savepoint and the outer transaction lives
\* on (mod.rs, savepoint), unless a conflict took it or the connection is lost: at
\* any depth, and whatever the blocks around it and before it answered.
THEOREM OuterAlwaysLivesOn ==
  ASSUME Disciplined PROVE Spec => OuterLivesOn
<1>1. Inv /\ [Next]_vars => Inv'
  BY InvNext
<1>2. Inv /\ [Next]_vars
        => [\A b \in Block :
              (pc[b] \in {"undoing", "forgetting"} /\ pc'[b] = "err" /\ owes[b] # "conflict")
                => session'.tx \in {"active", "gone"}]_vars
  BY AnsweredOuterLives
<1>. QED
  BY <1>1, <1>2, InvInit, PTL DEF Spec, OuterLivesOn

\* The connection leaves the Transaction's hands exactly when its caller has an
\* outcome (begin.rs, begin_on; mod.rs, end and Drop), also with several savepoints
\* in flight at once and with every await of every block a place to drop it.
THEOREM AlwaysSettledWithOutcome == Spec => []SettledWithOutcome
<1>1. Init => SettledInv
  BY StructInit, RootIsNode DEF Init, ClientTyped, SettledInv, RootOnly, SettledWithOutcome,
                                RootSteps, Ended
<1>2. SettledInv /\ [Next]_vars => SettledInv'
  BY SettledNext
<1>3. SettledInv => SettledWithOutcome
  BY DEF SettledInv
<1>. QED
  BY <1>1, <1>2, <1>3, PTL DEF Spec
=============================================================================
