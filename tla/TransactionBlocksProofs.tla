---------------------- MODULE TransactionBlocksProofs ----------------------
(***************************************************************************)
(* Transaction implements AtomicBlocks for any set of savepoint calls: each *)
(* step of a disciplined transaction is a step of the nested blocks or      *)
(* leaves them as they are.                                                *)
(***************************************************************************)
EXTENDS TransactionBlocks, TransactionProofs

\* The mapped variables.
State == [n \in Node |-> BlockState(n)]
Work  == Pending(session)

\* The engine has no transaction open.
Lost == session.tx \notin {"active", "aborted"}

\* What a block other than Root is for AtomicBlocks, and Root while it is open.
Kind(x) ==
    CASE x \in {Unborn, "begin"} -> "idle"
      [] x \in {"opening", "releasing", "undoing", "body", "committing", "rollingback"} -> "open"
      [] x = "ok" -> "kept"
      [] OTHER -> "undone"
RootKind == IF Lost THEN "lost" ELSE "open"

LEMMA SameNodes == Blocks!Node = Node /\ Blocks!Write = Write
BY DEF Blocks!Node, Node, Blocks!Write, Write

LEMMA Kinds ==
  /\ Kind(Unborn) = "idle" /\ Kind("ok") = "kept" /\ Kind("err") = "undone"
  /\ Kind("cancelled") = "undone" /\ Kind("forgetting") = "undone"
  /\ Kind("opening") = "open" /\ Kind("body") = "open" /\ Kind("releasing") = "open"
  /\ Kind("undoing") = "open"
BY DEF Kind, Unborn

LEMMA StateIs ==
  /\ \A n \in Node : n # Root => State[n] = Kind(pc[n])
  /\ pc[Root] \in {"body", "committing", "rollingback"} => State[Root] = RootKind
  /\ pc[Root] = "begin" => State[Root] = "idle"
  /\ pc[Root] = "ok" => State[Root] = "kept"
  /\ pc[Root] \in {"err", "cancelled"} => State[Root] = "undone"
BY RootIsNode DEF State, BlockState, Kind, RootKind, Lost, Unborn

LEMMA StateIsNext ==
  /\ \A n \in Node : n # Root => State'[n] = Kind(pc'[n])
  /\ pc'[Root] \in {"body", "committing", "rollingback"} => State'[Root] = RootKind'
  /\ pc'[Root] = "ok" => State'[Root] = "kept"
  /\ pc'[Root] \in {"err", "cancelled"} => State'[Root] = "undone"
BY RootIsNode DEF State, BlockState, Kind, RootKind, Lost, Unborn

LEMMA Stutters ==
  ASSUME \A n \in Node : State'[n] = State[n], Work' = Work, UNCHANGED <<path, durable>>
  PROVE  UNCHANGED Blocks!vars
<1>1. State' = State
  BY DEF State
<1>. QED
  BY <1>1 DEF Blocks!vars, State, Work

LEMMA Keeps ==
  ASSUME NEW b \in Block, State[b] = "open", State[Root] # "lost",
         \A n \in Inside(b) \ {b} : State[n] # "open",
         \A n \in Node : State'[n] = IF n = b THEN "kept" ELSE State[n],
         Work' = Work, UNCHANGED <<path, durable>>
  PROVE  Blocks!Next
<1>1. State' = [State EXCEPT ![b] = "kept"]
  BY DEF State
<1>2. Blocks!Inside(b) = Inside(b)
  BY SameNodes DEF Inside, Blocks!Inside
<1>3. Blocks!Keep(b)
  BY <1>1, <1>2 DEF Blocks!Keep, Blocks!Open, Blocks!Unlost, State, Work
<1>. QED
  BY <1>3 DEF Blocks!Next

LEMMA Undoes ==
  ASSUME NEW b \in Block, State[b] = "open",
         \A n \in Node : State'[n] = IF n = b THEN "undone" ELSE State[n],
         Work' = {w \in Work : w[1] \notin Inside(b)}, UNCHANGED <<path, durable>>
  PROVE  Blocks!Next
<1>1. State' = [State EXCEPT ![b] = "undone"]
  BY DEF State
<1>2. Blocks!Inside(b) = Inside(b)
  BY SameNodes DEF Inside, Blocks!Inside
<1>3. Blocks!Undo(b)
  BY <1>1, <1>2 DEF Blocks!Undo, Blocks!Open, State, Work
<1>. QED
  BY <1>3 DEF Blocks!Next

LEMMA Loses ==
  ASSUME State[Root] = "open",
         \A n \in Node : State'[n] = IF n = Root THEN "lost" ELSE State[n],
         Work' = {}, UNCHANGED <<path, durable>>
  PROVE  Blocks!Next
<1>1. State' = [State EXCEPT ![Root] = "lost"]
  BY DEF State
<1>2. Blocks!Lose
  BY <1>1 DEF Blocks!Lose, Blocks!Open, State, Work
<1>. QED
  BY <1>2 DEF Blocks!Next

LEMMA LosesAndUndoes ==
  ASSUME NEW b \in Block, State[b] = "open", State[Root] = "open",
         \A n \in Node : State'[n] = IF n = b THEN "undone"
                                     ELSE IF n = Root THEN "lost" ELSE State[n],
         Work' = {}, UNCHANGED <<path, durable>>
  PROVE  Blocks!Next
<1>1. State' = [State EXCEPT ![Root] = "lost", ![b] = "undone"]
  BY RootIsNode DEF State
<1>2. Blocks!LoseAndUndo(b)
  BY <1>1 DEF Blocks!LoseAndUndo, Blocks!Open, State, Work
<1>. QED
  BY <1>2 DEF Blocks!Next

LEMMA Finishes ==
  ASSUME State[Root] \in {"idle", "open", "lost"}, NEW outcome \in {"kept", "undone"},
         NEW kept, kept = {} \/ kept = Work,
         outcome = "kept" => State[Root] = "open" /\ kept = Work,
         kept # {} => \A n \in Node \ {Root} : State[n] # "open",
         \A n \in Node : State'[n] = IF n = Root THEN outcome
                                     ELSE IF State[n] = "open" THEN "undone" ELSE State[n],
         Work' = {}, durable' = durable \union kept, path' = path
  PROVE  Blocks!Next
<1>1. State' = [n \in Node |-> IF n = Root THEN outcome
                               ELSE IF State[n] = "open" THEN "undone" ELSE State[n]]
  BY DEF State
<1>2. Blocks!Finish(outcome, kept)
  BY <1>1, SameNodes DEF Blocks!Finish, Blocks!Open, State, Work
<1>3. kept \in {{}, Work}
  OBVIOUS
<1>. QED
  BY <1>2, <1>3 DEF Blocks!Next, Work

LEMMA Starts ==
  ASSUME State[Root] = "idle",
         \A n \in Node : State'[n] = IF n = Root THEN "open" ELSE State[n],
         Work' = Work, UNCHANGED <<path, durable>>
  PROVE  Blocks!Next
<1>1. State' = [State EXCEPT ![Root] = "open"]
  BY DEF State
<1>2. Blocks!Start
  BY <1>1 DEF Blocks!Start, State, Work
<1>. QED
  BY <1>2 DEF Blocks!Next

LEMMA Does ==
  ASSUME NEW w \in Write, State[w[1]] = "open", State[Root] # "lost",
         \A n \in Node : State'[n] = State[n],
         Work' = Work \union {w}, UNCHANGED <<path, durable>>
  PROVE  Blocks!Next
<1>1. State' = State
  BY DEF State
<1>2. Blocks!Do(w[1], w)
  BY <1>1 DEF Blocks!Do, Blocks!Open, Blocks!Unlost, State, Work
<1>. QED
  BY <1>2, SameNodes DEF Blocks!Next

LEMMA Enters ==
  ASSUME NEW p \in Node, NEW b \in Block, State[p] \in {"open", "lost"}, State[b] = "idle",
         \A n \in Node : State'[n] = IF n = b THEN "open" ELSE State[n],
         path' = [path EXCEPT ![b] = Append(path[p], b)],
         Work' = Work, durable' = durable
  PROVE  Blocks!Next
<1>1. State' = [State EXCEPT ![b] = "open"]
  BY DEF State
<1>2. Blocks!Enter(p, b)
  BY <1>1 DEF Blocks!Enter, State, Work
<1>. QED
  BY <1>2, SameNodes DEF Blocks!Next

-----------------------------------------------------------------------------
\* The session, as the blocks see it.

LEMMA NothingPending ==
  /\ session \in {IdleSession, Gone} => Lost /\ Work = {}
  /\ session' \in {IdleSession, Gone} => Lost' /\ Work' = {}
  /\ session' = OpenSession => ~Lost' /\ Work' = {}
<1>1. /\ DOMAIN <<>> = {} /\ DOMAIN <<Frame(TxFrame)>> = 1 .. 1
      /\ <<Frame(TxFrame)>>[1] = Frame(TxFrame) /\ Frame(TxFrame).work = {}
  BY DEF Frame
<1>2. /\ IdleSession.frames = <<>> /\ Gone.frames = <<>> /\ IdleSession.tx = "idle"
      /\ Gone.tx = "gone" /\ OpenSession.tx = "active" /\ OpenSession.frames = <<Frame(TxFrame)>>
  BY DEF IdleSession, Gone, OpenSession
<1>. QED
  BY <1>1, <1>2 DEF Lost, Work, Pending

LEMMA SessionSides ==
  ASSUME NEW t \in Node, Runs(t), pc[t] # "begin"
  PROVE  \/ session = Gone /\ Lost /\ Work = {}
         \/ LostFits(t) /\ session = IdleSession /\ Lost /\ Work = {}
         \/ OpenFits(t) /\ ~Lost
BY RunningFacts, NothingPending DEF LostFits, OpenFits, Lost

\* Frames with the same work in all.
LEMMA PendingIs ==
  ASSUME NEW s \in Sessions, NEW N \in Nat, Len(s.frames) = N
  PROVE  \A w : w \in Pending(s) <=> \E i \in 1 .. N : w \in s.frames[i].work
<1>1. DOMAIN s.frames = 1 .. N
  BY SessionFacts
<1>. QED
  BY <1>1 DEF Pending

\* The nodes around a step of block b, which leaves Root in its body.
LEMMA BlockMoves ==
  ASSUME ClientTyped, NEW b \in Block, pc[Root] = "body", NEW x, pc' = [pc EXCEPT ![b] = x]
  PROVE  /\ State[b] = Kind(pc[b]) /\ State'[b] = Kind(x)
         /\ State[Root] = RootKind /\ State'[Root] = RootKind'
         /\ \A n \in Node : n # b /\ n # Root => State'[n] = State[n]
<1>1. \A n \in Node : pc'[n] = IF n = b THEN x ELSE pc[n]
  BY DEF ClientTyped
<1>. QED
  BY <1>1, StateIs, StateIsNext, RootIsNode

LEMMA BlockRuns ==
  ASSUME NEW b \in Block, Runs(b)
  PROVE  /\ ClientTyped /\ ServerTyped /\ Roles /\ Paths /\ Innermost(b) /\ durable = {}
         /\ session \in Sessions /\ family \in Families /\ pc[Root] = "body" /\ pc[b] # "begin"
         /\ \A n \in Inside(b) \ {b} : State[n] # "open"
<1>1. /\ ClientTyped /\ ServerTyped /\ Roles /\ Paths /\ Innermost(b) /\ durable = {}
      /\ session \in Sessions /\ family \in Families
  BY DEF Runs, Common, Unsettled, ServerTyped, ClientTyped
<1>2. pc[Root] = "body" /\ pc[b] # "begin"
  BY <1>1, InnermostFacts, RootIsNode DEF Roles, BlockSteps, Ended, Unborn
<1>3. ASSUME NEW n \in Inside(b) \ {b} PROVE State[n] # "open"
  <2>1. n \in Node /\ b # n
    BY DEF Inside
  <2>2. ~Live(n)
    <3>1. SUFFICES ASSUME Live(n) PROVE FALSE
      OBVIOUS
    <3>2. pc[n] # Unborn /\ pc[b] # Unborn /\ n \in Chain(b)
      BY <1>1, <2>1, <3>1, InnermostFacts, RootIsNode DEF Live, Running, Unborn, Innermost
    <3>3. PICK i \in 1 .. Len(path[n]), j \in 1 .. Len(path[b]) : path[n][i] = b /\ path[b][j] = n
      BY <1>1, <2>1, <3>2, PathFacts, RootIsNode DEF Inside, Chain
    <3>4. Len(path[b]) = i /\ Len(path[n]) = j
      BY <1>1, <2>1, <3>2, <3>3, PathFacts, RootIsNode
    <3>5. i = j /\ path[n][Len(path[n])] = n
      BY <1>1, <2>1, <3>2, <3>3, <3>4, PathFacts
    <3>. QED
      BY <2>1, <3>3, <3>4, <3>5
  <2>3. n # Root
    <3>1. Live(Root)
      BY <1>2 DEF Live, Running
    <3>. QED
      BY <2>2, <3>1
  <2>. QED
    BY <2>1, <2>2, <2>3, StateIs DEF Kind, Live, Running
<1>. QED
  BY <1>1, <1>2, <1>3

\* The connection is lost, or was, and block b answers an error.
LEMMA LostAndUndone ==
  ASSUME NEW b \in Block, Runs(b), State[b] = "open",
         pc' = [pc EXCEPT ![b] = "err"], session' \in {IdleSession, Gone},
         UNCHANGED <<path, durable>>
  PROVE  Blocks!Next
<1>1. ClientTyped /\ pc[Root] = "body" /\ pc[b] # "begin"
  BY BlockRuns
<1>2. /\ State'[b] = Kind("err") /\ State[Root] = RootKind /\ State'[Root] = RootKind'
      /\ \A n \in Node : n # b /\ n # Root => State'[n] = State[n]
  BY <1>1, BlockMoves
<1>3. Work' = {} /\ State'[Root] = "lost" /\ State'[b] = "undone" /\ b # Root
  BY <1>2, NothingPending, RootIsNode DEF RootKind, Kind, Unborn
<1>4. CASE Lost
  <2>1. Work = {} /\ State[Root] = "lost"
    BY <1>1, <1>2, <1>4, SessionSides, RootIsNode DEF RootKind
  <2>. QED
    BY <1>2, <1>3, <2>1, Undoes
<1>5. CASE ~Lost
  <2>1. State[Root] = "open"
    BY <1>2, <1>5 DEF RootKind
  <2>. QED
    BY <1>2, <1>3, <2>1, LosesAndUndoes
<1>. QED
  BY <1>4, <1>5

-----------------------------------------------------------------------------
\* The actions.

LEMMA OpenMaps ==
  ASSUME NEW t \in Node, Runs(t), NEW b \in Block, OpenSavepoint(b)
  PROVE  [Blocks!Next]_(Blocks!vars)
<1>1. ClientTyped /\ Roles /\ Paths /\ Innermost(t)
  BY DEF Runs, Common
<1>2. b = t /\ pc[b] = "opening" /\ Runs(b) /\ b \in Node
  BY <1>1, OpenStruct
<1>3. /\ session \in Sessions /\ durable = {} /\ pc[Root] = "body" /\ pc[b] # "begin"
  BY <1>2, BlockRuns
<1>4. PICK a \in Heard(session, Savepoint(session, level[b])) :
        /\ session' = a.session /\ durable' = durable \union a.kept
        /\ pc' = [pc EXCEPT ![b] = IF a.reply = "ok" THEN "body" ELSE "err"]
  BY DEF OpenSavepoint, Hears, Answers
<1>5. path' = path /\ State[b] = "open"
  BY <1>1, <1>2, <1>3, BlockMoves, <1>4 DEF OpenSavepoint, Kind, Unborn
<1>6. CASE a.session = Gone /\ a.kept = {} /\ a.reply # "ok"
  BY <1>2, <1>3, <1>4, <1>5, <1>6, LostAndUndone
<1>7. CASE session = Gone
  <2>1. session.tx = "gone"
    BY <1>7 DEF Gone
  <2>2. a.session = Gone /\ a.kept = {} /\ a.reply # "ok"
    BY <2>1, HeardKeepsNothing
  <2>. QED
    BY <1>6, <2>2
<1>8. CASE OpenFits(b)
  <2>1. PICK N \in Nat : Len(path[b]) = N /\ N > 0 /\ level[b] = N - 1
    BY <1>2, RunningFacts
  <2>2. N # 1
    <3>1. path[b][1] = Root /\ path[b][N] = b /\ b # Root
      BY <1>1, <1>2, <2>1, RunningFacts, PathFacts, RootIsNode
    <3>. QED
      BY <3>1
  <2>3. PICK M \in Nat : M > 0 /\ M = N - 1
    BY <2>1, <2>2
  <2>4. /\ Len(session.frames) = M /\ Numbered(session) /\ session.tx = "active"
        /\ level[b] = M
    BY <1>2, <1>8, <2>1, <2>3 DEF OpenFits, FramesFit, Failing
  <2>5. \A e \in Savepoint(session, M) :
          /\ e.reply = "ok" /\ e.kept = {} /\ e.session.tx = "active"
          /\ Len(e.session.frames) = M + 1
          /\ \A i \in 1 .. M : e.session.frames[i] = session.frames[i]
          /\ e.session.frames[M + 1].work = {}
    BY <1>3, <2>3, <2>4, SavepointOnTop
  <2>6. a.kept = {} /\ (a \in Savepoint(session, M) \/ (a.session = Gone /\ a.reply = "refused"))
    BY <2>4, <2>5, HeardKeepsNothing
  <2>7. CASE a \in Savepoint(session, M)
    <3>1. /\ a.reply = "ok" /\ session'.tx = "active" /\ Len(session'.frames) = M + 1
          /\ \A i \in 1 .. M : session'.frames[i] = session.frames[i]
          /\ session'.frames[M + 1].work = {} /\ durable' = durable
      BY <1>4, <2>5, <2>6, <2>7
    <3>2. session' \in Sessions
      BY <1>1, ServerNext DEF Runs, Common, Next, ServerTyped, OpenSavepoint
    <3>3. ~Lost /\ ~Lost'
      BY <2>4, <3>1 DEF Lost
    <3>4. Work' = Work
      <4>1. \A w : w \in Work <=> \E i \in 1 .. M : w \in session.frames[i].work
        BY <1>3, <2>4, PendingIs DEF Work
      <4>2. \A w : w \in Pending(session') <=> \E i \in 1 .. M + 1 : w \in session'.frames[i].work
        BY <3>1, <3>2, PendingIs
      <4>3. \A i \in 1 .. M + 1 : i \in 1 .. M \/ i = M + 1
        OBVIOUS
      <4>4. \A i \in 1 .. M : i \in 1 .. M + 1
        OBVIOUS
      <4>5. \A w : w \in Work <=> w \in Pending(session')
        BY <3>1, <4>1, <4>2, <4>3, <4>4
      <4>. QED
        BY <4>5 DEF Work, Pending
    <3>5. \A n \in Node : State'[n] = State[n]
      <4>1. pc' = [pc EXCEPT ![b] = "body"]
        BY <1>4, <3>1
      <4>2. /\ State[b] = Kind("opening") /\ State'[b] = Kind("body")
            /\ State[Root] = RootKind /\ State'[Root] = RootKind'
            /\ \A n \in Node : n # b /\ n # Root => State'[n] = State[n]
        BY <1>1, <1>2, <1>3, <4>1, BlockMoves
      <4>. QED
        BY <3>3, <4>2, Kinds DEF RootKind
    <3>. QED
      BY <1>5, <3>1, <3>4, <3>5, Stutters
  <2>. QED
    BY <1>6, <2>6, <2>7
<1>9. ~LostFits(b)
  BY <1>2 DEF LostFits, Failing
<1>. QED
  BY <1>2, <1>3, <1>7, <1>8, <1>9, SessionSides

\* RELEASE of the top frame keeps nothing and loses nothing.
LEMMA ReleaseKeeps ==
  ASSUME NEW b \in Block, Runs(b), OpenFits(b), pc[b] # "opening", session.tx = "active"
  PROVE  \A e \in Release(session, level[b]) : e.kept = {}
<1>1. PICK N \in Nat : /\ N > 0 /\ N # 1 /\ level[b] = N - 1
                       /\ Len(session.frames) = N /\ Numbered(session)
  BY OpenBlockFacts
<1>. QED
  BY <1>1, BlockRuns, ReleaseOfTop

LEMMA MergedWork ==
  ASSUME NEW b \in Block, Runs(b), OpenFits(b), pc[b] # "opening", session.tx = "active",
         NEW a \in Release(session, level[b]), session' = a.session
  PROVE  a.reply = "ok" /\ a.kept = {} /\ ~Lost /\ ~Lost' /\ Work' = Work
<1>1. PICK N \in Nat : /\ N > 0 /\ N # 1 /\ level[b] = N - 1
                       /\ Len(session.frames) = N /\ Numbered(session)
  BY OpenBlockFacts
<1>2. session \in Sessions /\ family \in Families /\ level[b] \in Nat
  BY BlockRuns, RootIsNode DEF ClientTyped
<1>3. /\ a.reply = "ok" /\ a.kept = {} /\ session'.tx = "active"
      /\ Len(session'.frames) = N - 1
      /\ \A i \in 1 .. N - 2 : session'.frames[i] = session.frames[i]
      /\ session'.frames[N - 1].work = session.frames[N - 1].work \union session.frames[N].work
  BY <1>1, <1>2, ReleaseOfTop
<1>4. session' \in Sessions
  BY <1>2, ReleaseTyped DEF Typed
<1>5. \A w : w \in Work <=> \E i \in 1 .. N : w \in session.frames[i].work
  BY <1>1, <1>2, PendingIs DEF Work
<1>6. N - 1 \in Nat /\ N - 1 \in 1 .. N - 1 /\ N - 1 \in 1 .. N /\ N \in 1 .. N
      /\ (\A i \in 1 .. N : i \in 1 .. N - 2 \/ i = N - 1 \/ i = N)
      /\ (\A i \in 1 .. N - 1 : i \in 1 .. N - 2 \/ i = N - 1)
      /\ (\A i \in 1 .. N - 2 : i \in 1 .. N - 1 /\ i \in 1 .. N)
  BY <1>1
<1>7. \A w : w \in Pending(session') <=> \E i \in 1 .. N - 1 : w \in session'.frames[i].work
  BY <1>3, <1>4, <1>6, PendingIs
<1>8. \A w : w \in Work <=> w \in Pending(session')
  <2>. TAKE w
  <2>1. ASSUME w \in Work PROVE w \in Pending(session')
    BY <1>3, <1>5, <1>6, <1>7, <2>1
  <2>2. ASSUME w \in Pending(session') PROVE w \in Work
    BY <1>3, <1>5, <1>6, <1>7, <2>2
  <2>. QED
    BY <2>1, <2>2
<1>9. Work' = Work
  BY <1>8 DEF Work, Pending
<1>. QED
  BY <1>3, <1>9 DEF Lost

LEMMA ReleaseMaps ==
  ASSUME NEW t \in Node, Runs(t), NEW b \in Block, ReleaseSavepoint(b)
  PROVE  [Blocks!Next]_(Blocks!vars)
<1>1. ClientTyped /\ Roles /\ Paths /\ Innermost(t)
  BY DEF Runs, Common
<1>2. b = t /\ pc[b] = "releasing" /\ Runs(b) /\ b \in Node
  BY <1>1, ReleaseStruct
<1>3. /\ session \in Sessions /\ durable = {} /\ pc[Root] = "body" /\ pc[b] # "begin"
      /\ \A n \in Inside(b) \ {b} : State[n] # "open"
  BY <1>2, BlockRuns
<1>4. PICK a \in Heard(session, Release(session, level[b])) :
        /\ session' = a.session /\ durable' = durable \union a.kept
        /\ pc' = [pc EXCEPT ![b] = IF a.reply = "ok" THEN "ok" ELSE "err"]
  BY <1>2 DEF ReleaseSavepoint, Hears, Answers, Cleanup
<1>5. path' = path /\ State[b] = "open"
  BY <1>1, <1>2, <1>3, BlockMoves, <1>4 DEF ReleaseSavepoint, Kind, Unborn
<1>6. CASE a.session = Gone /\ a.kept = {} /\ a.reply # "ok"
  BY <1>2, <1>3, <1>4, <1>5, <1>6, LostAndUndone
<1>7. CASE session = Gone
  <2>1. session.tx = "gone"
    BY <1>7 DEF Gone
  <2>2. a.session = Gone /\ a.kept = {} /\ a.reply # "ok"
    BY <2>1, HeardKeepsNothing
  <2>. QED
    BY <1>6, <2>2
<1>8. CASE OpenFits(b)
  <2>1. session.tx = "active"
    BY <1>2, <1>8 DEF OpenFits, Failing
  <2>2. ASSUME a \in Release(session, level[b])
        PROVE  a.reply = "ok" /\ a.kept = {} /\ ~Lost /\ ~Lost' /\ Work' = Work
    BY <1>2, <1>4, <1>8, <2>1, <2>2, MergedWork
  <2>3. \A e \in Release(session, level[b]) : e.kept = {}
    BY <1>2, <1>8, <2>1, ReleaseKeeps
  <2>4. a.kept = {} /\ (a \in Release(session, level[b]) \/ (a.session = Gone /\ a.reply = "refused"))
    BY <2>3, HeardKeepsNothing
  <2>5. CASE a \in Release(session, level[b])
    <3>1. State[Root] = "open" /\ State'[Root] = "open" /\ State'[b] = "kept" /\ b # Root
          /\ \A n \in Node : n # b /\ n # Root => State'[n] = State[n]
      BY <1>1, <1>2, <1>3, <1>4, <2>2, <2>5, BlockMoves, RootIsNode DEF Kind, RootKind, Unborn
    <3>2. durable' = durable
      BY <1>4, <2>4
    <3>. QED
      BY <1>3, <1>5, <2>2, <2>5, <3>1, <3>2, Keeps
  <2>. QED
    BY <1>6, <2>4, <2>5
<1>9. ~LostFits(b)
  BY <1>2 DEF LostFits, Failing
<1>. QED
  BY <1>2, <1>3, <1>7, <1>8, <1>9, SessionSides

LEMMA ForgetMaps ==
  ASSUME NEW t \in Node, Runs(t), NEW b \in Block, ForgetSavepoint(b)
  PROVE  [Blocks!Next]_(Blocks!vars)
<1>1. ClientTyped /\ Roles /\ Paths /\ Innermost(t)
  BY DEF Runs, Common
<1>2. b = t /\ pc[b] = "forgetting" /\ Runs(b) /\ b \in Node
  BY <1>1, ForgetStruct
<1>3. /\ session \in Sessions /\ durable = {} /\ pc[Root] = "body" /\ pc[b] # "begin"
  BY <1>2, BlockRuns
<1>4. PICK a \in Heard(session, Release(session, level[b])) :
        /\ session' = a.session /\ durable' = durable \union a.kept
        /\ pc' = [pc EXCEPT ![b] = "err"]
  BY <1>2 DEF ForgetSavepoint, Hears, Answers, Cleanup
<1>5. /\ path' = path /\ b # Root /\ State'[b] = State[b]
      /\ State[Root] = RootKind /\ State'[Root] = RootKind'
      /\ \A n \in Node : n # b /\ n # Root => State'[n] = State[n]
  <2>1. /\ State[b] = Kind("forgetting") /\ State'[b] = Kind("err")
        /\ State[Root] = RootKind /\ State'[Root] = RootKind'
        /\ \A n \in Node : n # b /\ n # Root => State'[n] = State[n]
    BY <1>1, <1>2, <1>3, <1>4, BlockMoves
  <2>. QED
    BY <2>1, Kinds, RootIsNode DEF ForgetSavepoint
<1>6. CASE session = Gone
  <2>1. session.tx = "gone"
    BY <1>6 DEF Gone
  <2>2. a.session = Gone /\ a.kept = {}
    BY <2>1, HeardKeepsNothing
  <2>3. Lost /\ Lost' /\ Work = {} /\ Work' = {} /\ durable' = durable
    BY <1>4, <1>6, <2>2, NothingPending
  <2>. QED
    BY <1>5, <2>3, Stutters DEF RootKind
<1>7. CASE OpenFits(b)
  <2>1. session.tx = "active"
    BY <1>2, <1>7 DEF OpenFits, Failing
  <2>2. ASSUME a \in Release(session, level[b])
        PROVE  a.reply = "ok" /\ a.kept = {} /\ ~Lost /\ ~Lost' /\ Work' = Work
    BY <1>2, <1>4, <1>7, <2>1, <2>2, MergedWork
  <2>3. \A e \in Release(session, level[b]) : e.kept = {}
    BY <1>2, <1>7, <2>1, ReleaseKeeps
  <2>4. a.kept = {} /\ (a \in Release(session, level[b]) \/ a.session = Gone)
    BY <2>3, HeardKeepsNothing
  <2>5. durable' = durable
    BY <1>4, <2>4
  <2>6. CASE a \in Release(session, level[b])
    BY <1>5, <2>2, <2>5, <2>6, Stutters DEF RootKind
  <2>7. CASE a.session = Gone
    <3>1. Lost' /\ Work' = {} /\ ~Lost
      BY <1>4, <2>1, <2>7, NothingPending DEF Lost
    <3>. QED
      BY <1>5, <2>5, <3>1, Loses DEF RootKind
  <2>. QED
    BY <2>4, <2>6, <2>7
<1>8. ~LostFits(b)
  BY <1>2 DEF LostFits, Failing
<1>. QED
  BY <1>2, <1>3, <1>6, <1>7, <1>8, SessionSides

\* ROLLBACK TO takes what the block and everything inside it wrote, and no more.
LEMMA UndoneWork ==
  ASSUME NEW b \in Block, Runs(b), OpenFits(b), pc[b] = "undoing",
         NEW a \in RollbackTo(session, level[b]), session' = a.session
  PROVE  /\ a.reply = "ok" /\ a.kept = {} /\ ~Lost /\ ~Lost'
         /\ Work' = {w \in Work : w[1] \notin Inside(b)}
<1>1. PICK N \in Nat : /\ N > 0 /\ N # 1 /\ level[b] = N - 1 /\ Len(path[b]) = N
                       /\ path[b][N] = b
                       /\ Len(session.frames) = N /\ Numbered(session)
  BY OpenBlockFacts
<1>2. /\ session \in Sessions /\ family \in Families /\ level[b] \in Nat
      /\ ClientTyped /\ Roles /\ Paths /\ MadeInside
      /\ session.tx \in {"active", "aborted"}
  BY BlockRuns, RootIsNode DEF ClientTyped, Runs, Common, OpenFits
<1>3. /\ a.reply = "ok" /\ a.kept = {} /\ session'.tx = "active"
      /\ Len(session'.frames) = N
      /\ \A i \in 1 .. N - 1 : session'.frames[i] = session.frames[i]
      /\ session'.frames[N].work = {}
  BY <1>1, <1>2, RollbackToTop
<1>4. session' \in Sessions
  BY <1>2, RollbackToTyped DEF Typed
<1>5. \A w : w \in Work <=> \E i \in 1 .. N : w \in session.frames[i].work
  BY <1>1, <1>2, PendingIs DEF Work
<1>6. \A w : w \in Pending(session') <=> \E i \in 1 .. N : w \in session'.frames[i].work
  BY <1>1, <1>3, <1>4, PendingIs
<1>7. \A i \in 1 .. N : session.frames[i].work = Share(i, b)
  BY <1>1 DEF OpenFits, WorkFits
<1>8. \A i \in 1 .. N : (i \in 1 .. N - 1 \/ i = N) /\ (i \in 1 .. N - 1 => i < N)
  BY <1>1
<1>9. ASSUME NEW w, NEW i \in 1 .. N, w \in session.frames[i].work
      PROVE  w[1] \in Inside(b) <=> i = N
  <2>1. w \in made /\ Reaches(w, i, b)
    BY <1>7, <1>9 DEF Share
  <2>2. w[1] \in Node /\ pc[w[1]] # Unborn
    BY <1>2, <2>1 DEF MadeInside
  <2>3. DOMAIN path[w[1]] = 1 .. Len(path[w[1]]) /\ b \in Node
    BY <1>2, <2>2, PathFacts, RootIsNode
  <2>4. CASE i = N
    BY <1>1, <2>1, <2>2, <2>3, <2>4 DEF Reaches, Inside
  <2>5. CASE i # N
    <3>1. SUFFICES ASSUME w[1] \in Inside(b) PROVE FALSE
      BY <2>5
    <3>2. PICK j \in 1 .. Len(path[w[1]]) : path[w[1]][j] = b
      BY <2>3, <3>1 DEF Inside
    <3>3. j = N
      BY <1>1, <1>2, <2>2, <3>2, PathFacts
    <3>4. j > i
      BY <1>8, <2>5, <3>3
    <3>. QED
      BY <2>1, <3>2, <3>4 DEF Reaches
  <2>. QED
    BY <2>4, <2>5
<1>10. ASSUME NEW w PROVE w \in Pending(session') <=> w \in Work /\ w[1] \notin Inside(b)
  <2>1. ASSUME w \in Pending(session') PROVE w \in Work /\ w[1] \notin Inside(b)
    <3>1. PICK i \in 1 .. N : w \in session'.frames[i].work
      BY <1>6, <2>1
    <3>2. i # N /\ w \in session.frames[i].work
      BY <1>3, <1>8, <3>1
    <3>. QED
      BY <1>5, <1>9, <3>2
  <2>2. ASSUME w \in Work, w[1] \notin Inside(b) PROVE w \in Pending(session')
    <3>1. PICK i \in 1 .. N : w \in session.frames[i].work
      BY <1>5, <2>2
    <3>2. i \in 1 .. N - 1
      BY <1>8, <1>9, <2>2, <3>1
    <3>. QED
      BY <1>3, <1>6, <3>1, <3>2
  <2>. QED
    BY <2>1, <2>2
<1>11. Work' = {w \in Work : w[1] \notin Inside(b)}
  <2>1. Pending(session') = {w \in Work : w[1] \notin Inside(b)}
    BY <1>10
  <2>. QED
    BY <2>1 DEF Work, Pending
<1>. QED
  BY <1>2, <1>3, <1>11 DEF Lost

LEMMA UndoMaps ==
  ASSUME NEW t \in Node, Runs(t), NEW b \in Block, UndoSavepoint(b)
  PROVE  [Blocks!Next]_(Blocks!vars)
<1>1. ClientTyped /\ Roles /\ Paths /\ Innermost(t)
  BY DEF Runs, Common
<1>2. b = t /\ pc[b] = "undoing" /\ Runs(b) /\ b \in Node /\ b # Root
  BY <1>1, UndoStruct, RootIsNode
<1>3. /\ session \in Sessions /\ durable = {} /\ pc[Root] = "body" /\ pc[b] # "begin"
  BY <1>2, BlockRuns
<1>4. PICK a \in Heard(session, RollbackTo(session, level[b])) :
        /\ session' = a.session /\ durable' = durable \union a.kept
        /\ pc' = [pc EXCEPT ![b] = IF a.reply = "ok" THEN "forgetting" ELSE "err"]
  BY <1>2 DEF UndoSavepoint, Hears, Answers, Cleanup
<1>5. path' = path /\ State[b] = "open"
  BY <1>2, StateIs, Kinds DEF UndoSavepoint
<1>6. CASE a.session \in {IdleSession, Gone} /\ a.kept = {} /\ a.reply # "ok"
  BY <1>2, <1>3, <1>4, <1>5, <1>6, LostAndUndone
<1>7. CASE session = Gone
  <2>1. session.tx = "gone"
    BY <1>7 DEF Gone
  <2>2. a.session = Gone /\ a.kept = {} /\ a.reply # "ok"
    BY <2>1, HeardKeepsNothing
  <2>. QED
    BY <1>6, <2>2
<1>8. CASE session = IdleSession
  <2>1. RollbackTo(session, level[b]) = {Answer("refused", IdleSession, {})}
    BY <1>8 DEF RollbackTo, Refused, IdleSession
  <2>2. a.kept = {} /\ a.reply = "refused" /\ (a.session = IdleSession \/ a.session = Gone)
    BY <2>1, HeardKeepsNothing DEF Answer
  <2>. QED
    BY <1>6, <2>2
<1>9. CASE OpenFits(b)
  <2>1. ASSUME NEW e \in RollbackTo(session, level[b]) PROVE e.kept = {}
    <3>1. PICK N \in Nat : /\ N > 0 /\ N # 1 /\ level[b] = N - 1
                           /\ Len(session.frames) = N /\ Numbered(session)
      BY <1>2, <1>9, OpenBlockFacts
    <3>. QED
      BY <1>3, <1>9, <3>1, RollbackToTop DEF OpenFits
  <2>2. a.kept = {} /\ (a \in RollbackTo(session, level[b])
                        \/ (a.session = Gone /\ a.reply = "refused"))
    BY <2>1, HeardKeepsNothing
  <2>3. CASE a \in RollbackTo(session, level[b])
    <3>1. a.reply = "ok" /\ ~Lost /\ ~Lost' /\ Work' = {w \in Work : w[1] \notin Inside(b)}
      BY <1>2, <1>4, <1>9, <2>3, UndoneWork
    <3>2. pc' = [pc EXCEPT ![b] = "forgetting"] /\ durable' = durable
      BY <1>4, <2>2, <3>1
    <3>3. /\ State'[b] = Kind("forgetting") /\ State[Root] = RootKind /\ State'[Root] = RootKind'
          /\ \A n \in Node : n # b /\ n # Root => State'[n] = State[n]
      BY <1>1, <1>3, <3>2, BlockMoves
    <3>4. \A n \in Node : State'[n] = IF n = b THEN "undone" ELSE State[n]
      BY <1>2, <3>1, <3>3, Kinds DEF RootKind
    <3>. QED
      BY <1>5, <3>1, <3>2, <3>4, Undoes
  <2>. QED
    BY <1>6, <2>2, <2>3
<1>. QED
  BY <1>2, <1>3, <1>7, <1>8, <1>9, SessionSides

LEMMA ExecuteMaps ==
  ASSUME Disciplined, NEW t \in Node, Runs(t), NEW n \in Node, NEW w \in Write, Execute(n, w)
  PROVE  [Blocks!Next]_(Blocks!vars)
<1>1. /\ ClientTyped /\ ServerTyped /\ Roles /\ Paths /\ Innermost(t) /\ ~Siblings
      /\ session \in Sessions /\ family \in Families /\ durable = {}
  BY DEF Runs, Common, Disciplined, ServerTyped, ClientTyped, Unsettled
<1>2. n = t /\ pc[t] = "body" /\ pc[Root] = "body" /\ w[1] = t /\ owes[t] = "none"
  <2>1. n = t /\ pc[t] = "body"
    BY <1>1, ExecuteStruct
  <2>2. pc[Root] = "body"
    BY <1>1, <2>1, InnermostFacts
  <2>. QED
    BY <2>1, <2>2 DEF Execute
<1>3. PICK a \in Heard(session, Statement(session, w)) :
        session' = a.session /\ durable' = durable \union a.kept
  BY DEF Execute, Hears
<1>4. /\ pc' = pc /\ path' = path
      /\ State[Root] = RootKind /\ State'[Root] = RootKind'
      /\ \A m \in Node : m # Root => State'[m] = State[m]
  <2>1. pc' = pc /\ path' = path
    BY DEF Execute
  <2>. QED
    BY <1>2, <2>1, StateIs, StateIsNext
<1>5. CASE session = Gone
  <2>1. session.tx = "gone"
    BY <1>5 DEF Gone
  <2>2. a.session = Gone /\ a.kept = {}
    BY <2>1, HeardKeepsNothing
  <2>3. Lost /\ Lost' /\ Work = {} /\ Work' = {} /\ durable' = durable
    BY <1>3, <1>5, <2>2, NothingPending
  <2>. QED
    BY <1>4, <2>3, Stutters DEF RootKind
<1>6. CASE OpenFits(t)
  <2>1. PICK N \in Nat : /\ N > 0 /\ Len(session.frames) = N /\ session.tx = "active"
    <3>1. session.tx = "active" /\ Len(session.frames) = Len(path[t])
      BY <1>2, <1>6 DEF OpenFits, FramesFit
    <3>. QED
      BY <3>1, RunningFacts
  <2>2. \A e \in Statement(session, w) :
          /\ e.kept = {}
          /\ \/ /\ e.session.tx = "active" /\ Len(e.session.frames) = N
                /\ \A i \in 1 .. N - 1 : e.session.frames[i] = session.frames[i]
                /\ e.session.frames[N].work = session.frames[N].work \union {w}
             \/ /\ e.session.frames = session.frames
                /\ e.session.tx \in {"aborted", "active"}
             \/ e.session = IdleSession
    <3>. TAKE e \in Statement(session, w)
    <3>1. /\ e.kept = {}
          /\ \/ /\ e.session.tx = "active" /\ Len(e.session.frames) = N
                /\ \A i \in 1 .. N - 1 : e.session.frames[i] = session.frames[i]
                /\ e.session.frames[N].work = session.frames[N].work \union {w}
             \/ /\ e.session.frames = session.frames
                /\ e.session.tx = IF family = "Postgres" THEN "aborted" ELSE "active"
             \/ e.session = IdleSession
      BY <1>1, <2>1, StatementOnTop
    <3>. QED
      BY <3>1
  <2>3. a.kept = {} /\ (a \in Statement(session, w) \/ a.session = Gone)
    BY <2>2, HeardKeepsNothing
  <2>4. durable' = durable /\ ~Lost /\ State[Root] = "open"
    BY <1>3, <1>4, <2>1, <2>3 DEF Lost, RootKind
  <2>5. CASE session' \in {IdleSession, Gone}
    <3>1. Lost' /\ Work' = {}
      BY <2>5, NothingPending
    <3>. QED
      BY <1>4, <2>4, <3>1, Loses DEF RootKind
  <2>6. CASE session'.frames = session.frames /\ session'.tx \in {"aborted", "active"}
    <3>1. Work' = Work /\ ~Lost'
      BY <2>6 DEF Work, Pending, Lost
    <3>. QED
      BY <1>4, <2>4, <3>1, Stutters DEF RootKind
  <2>7. CASE /\ session'.tx = "active" /\ Len(session'.frames) = N
             /\ \A i \in 1 .. N - 1 : session'.frames[i] = session.frames[i]
             /\ session'.frames[N].work = session.frames[N].work \union {w}
    <3>1. session' \in Sessions
      <4>1. Next
        BY <1>2 DEF Next
      <4>. QED
        BY <1>1, <4>1, ServerNext DEF ServerTyped
    <3>2. \A v : v \in Work <=> \E i \in 1 .. N : v \in session.frames[i].work
      BY <1>1, <2>1, PendingIs DEF Work
    <3>3. \A v : v \in Pending(session') <=> \E i \in 1 .. N : v \in session'.frames[i].work
      BY <2>7, <3>1, PendingIs
    <3>4. N \in 1 .. N /\ \A i \in 1 .. N : i \in 1 .. N - 1 \/ i = N
      BY <2>1
    <3>5. ASSUME NEW v PROVE v \in Pending(session') <=> v \in Work \/ v = w
      <4>1. ASSUME NEW i \in 1 .. N
            PROVE  v \in session'.frames[i].work
                     <=> v \in session.frames[i].work \/ (i = N /\ v = w)
        BY <2>7, <3>4
      <4>. QED
        BY <3>2, <3>3, <3>4, <4>1
    <3>6. Work' = Work \union {w}
      <4>1. Pending(session') = Work \union {w}
        BY <3>5
      <4>. QED
        BY <4>1 DEF Work, Pending
    <3>7. State[t] = "open" /\ ~Lost'
      BY <1>2, <2>4, <2>7, StateIs, Kinds DEF Lost
    <3>8. \A m \in Node : State'[m] = State[m]
      BY <1>4, <2>4, <3>7 DEF RootKind
    <3>. QED
      BY <1>2, <1>4, <2>4, <3>6, <3>7, <3>8, Does
  <2>. QED
    BY <1>3, <2>2, <2>3, <2>5, <2>6, <2>7
<1>7. ~LostFits(t)
  BY <1>2 DEF LostFits
<1>. QED
  BY <1>2, <1>5, <1>6, <1>7, SessionSides

LEMMA EnterMaps ==
  ASSUME Disciplined, NEW t \in Node, Runs(t), NEW p \in Node, NEW b \in Block,
         EnterSavepoint(p, b)
  PROVE  [Blocks!Next]_(Blocks!vars)
<1>1. ClientTyped /\ Roles /\ Paths /\ Innermost(t) /\ ~Siblings
  BY DEF Runs, Common, Disciplined
<1>2. /\ p = t /\ pc[p] = "body" /\ pc[Root] = "body" /\ b # Root /\ pc[b] = Unborn
      /\ path' = [path EXCEPT ![b] = Append(path[p], b)]
      /\ pc' = [pc EXCEPT ![b] = "opening"] /\ UNCHANGED <<session, durable>>
  <2>1. p = t /\ pc[p] = "body"
    BY <1>1, EnterStruct
  <2>2. pc[Root] = "body"
    BY <1>1, <2>1, InnermostFacts
  <2>. QED
    BY <2>1, <2>2, RootIsNode DEF EnterSavepoint, server
<1>3. /\ State[b] = "idle" /\ State'[b] = "open"
      /\ State[Root] = RootKind /\ State'[Root] = RootKind'
      /\ \A n \in Node : n # b /\ n # Root => State'[n] = State[n]
  <2>1. /\ State[b] = Kind(Unborn) /\ State'[b] = Kind("opening")
        /\ State[Root] = RootKind /\ State'[Root] = RootKind'
        /\ \A n \in Node : n # b /\ n # Root => State'[n] = State[n]
    BY <1>1, <1>2, BlockMoves
  <2>. QED
    BY <2>1, Kinds
<1>4. Work' = Work /\ RootKind' = RootKind
  BY <1>2 DEF Work, Pending, RootKind, Lost
<1>5. State[p] \in {"open", "lost"}
  <2>1. p # Root => State[p] = "open"
    BY <1>2, StateIs, Kinds
  <2>. QED
    BY <1>3, <2>1 DEF RootKind
<1>. QED
  BY <1>2, <1>3, <1>4, <1>5, Enters

LEMMA ReturnMaps ==
  ASSUME NEW t \in Node, Runs(t), NEW n \in Node, NEW result \in {"ok", "err"},
         Return(n, result)
  PROVE  [Blocks!Next]_(Blocks!vars)
<1>1. ClientTyped /\ Roles /\ Paths /\ Innermost(t)
  BY DEF Runs, Common
<1>2. n = t /\ pc[t] = "body" /\ pc[Root] = "body"
  BY <1>1, ReturnStruct, InnermostFacts
<1>3. UNCHANGED <<session, durable, path>>
  BY DEF Return, server
<1>4. PICK x \in IF t = Root THEN {"committing", "rollingback"} ELSE {"releasing", "undoing"} :
        pc' = [pc EXCEPT ![t] = x]
  BY <1>2 DEF Return
<1>5. Work' = Work /\ RootKind' = RootKind
  BY <1>3 DEF Work, Pending, RootKind, Lost
<1>6. \A m \in Node : State'[m] = State[m]
  <2>1. CASE t = Root
    <3>1. pc'[Root] \in {"committing", "rollingback"} /\ \A m \in Node : m # Root => pc'[m] = pc[m]
      BY <1>1, <1>4, <2>1, RootIsNode DEF ClientTyped
    <3>. QED
      BY <1>2, <1>5, <3>1, StateIs, StateIsNext
  <2>2. CASE t # Root
    <3>1. /\ State[t] = Kind("body") /\ State'[t] = Kind(x)
          /\ State[Root] = RootKind /\ State'[Root] = RootKind'
          /\ \A m \in Node : m # t /\ m # Root => State'[m] = State[m]
      BY <1>1, <1>2, <1>4, <2>2, BlockMoves, RootIsNode
    <3>. QED
      BY <1>4, <1>5, <2>2, <3>1, Kinds
  <2>. QED
    BY <2>1, <2>2
<1>. QED
  BY <1>3, <1>5, <1>6, Stutters

\* The blocks around the end of the transaction: none is open.
LEMMA RootAlone ==
  ASSUME Runs(Root)
  PROVE  \A n \in Node : n # Root => ~Live(n) /\ State[n] # "open"
<1>. SUFFICES ASSUME NEW n \in Node, n # Root PROVE ~Live(n) /\ State[n] # "open"
  OBVIOUS
<1>1. ~Live(n)
  BY OnlyRootRuns, RootIsNode DEF Runs, Common
<1>. QED
  BY <1>1, StateIs DEF Kind, Live, Running

LEMMA BeginMaps ==
  ASSUME NEW t \in Node, Runs(t), BeginOn
  PROVE  [Blocks!Next]_(Blocks!vars)
<1>1. ClientTyped /\ Roles /\ Paths /\ Innermost(t) /\ pc[Root] = "begin" /\ t = Root /\ Runs(Root)
      /\ Root \in Node
  BY BeginOnStruct, RootIsNode DEF Runs, Common, BeginOn
<1>2. session = IdleSession /\ durable = {} /\ path' = path
  BY <1>1 DEF Runs, SessionFits, Unsettled, BeginOn
<1>3. PICK a \in Heard(session, Begin(session)) :
        IF a.reply = "ok"
          THEN /\ Hears(a) /\ pc' = [pc EXCEPT ![Root] = "body"]
          ELSE /\ session' = Gone /\ durable' = durable \union a.kept
               /\ pc' = [pc EXCEPT ![Root] = "err"]
  BY DEF BeginOn
<1>4. a.kept = {} /\ (a = Ok(OpenSession) \/ a.reply = "refused")
  <2>1. Begin(session) = {Ok(OpenSession)}
    BY <1>2 DEF Begin, IdleSession
  <2>. QED
    BY <2>1, HeardKeepsNothing DEF Ok, Answer
<1>5. Work = {} /\ State[Root] = "idle" /\ \A n \in Node : n # Root => State[n] # "open"
  BY <1>1, <1>2, NothingPending, StateIs, RootAlone
<1>6. \A n \in Node : n # Root => State'[n] = State[n]
  <2>1. \A n \in Node : n # Root => pc'[n] = pc[n]
    BY <1>1, <1>3 DEF ClientTyped
  <2>. QED
    BY <2>1, StateIs, StateIsNext
<1>7. CASE a.reply = "ok"
  <2>1. session' = OpenSession /\ durable' = durable /\ pc'[Root] = "body"
    BY <1>1, <1>3, <1>4, <1>7 DEF Hears, Ok, Answer, ClientTyped
  <2>2. Work' = {} /\ State'[Root] = "open"
    BY <2>1, NothingPending, StateIsNext DEF RootKind
  <2>. QED
    BY <1>2, <1>5, <1>6, <2>1, <2>2, Starts
<1>8. CASE a.reply # "ok"
  <2>1. session' = Gone /\ durable' = durable \union {} /\ pc'[Root] = "err"
    BY <1>1, <1>3, <1>4, <1>8 DEF ClientTyped
  <2>2. Work' = {} /\ State'[Root] = "undone"
    BY <2>1, NothingPending, StateIsNext
  <2>. QED
    BY <1>2, <1>5, <1>6, <2>1, <2>2, Finishes
<1>. QED
  BY <1>7, <1>8

LEMMA EndMaps ==
  ASSUME NEW t \in Node, Runs(t), End
  PROVE  [Blocks!Next]_(Blocks!vars)
<1>1. /\ ClientTyped /\ Roles /\ Paths /\ Innermost(t) /\ t = Root /\ Runs(Root) /\ Root \in Node
      /\ pc[Root] \in {"committing", "rollingback"} /\ path' = path
  BY EndStruct, RootIsNode DEF Runs, Common, End
<1>2. PICK a \in Heard(session, IF pc[Root] = "committing" THEN Commit(session)
                                ELSE Rollback(session)) :
        /\ durable' = durable \union a.kept /\ conn' = Disposal(a.reply)
        /\ session' = IF conn' = "closed" THEN Gone ELSE a.session
        /\ pc' = [pc EXCEPT ![Root] = Outcome(a.reply, @)]
  BY DEF End
<1>3. /\ a.reply = "ok" => a.session = IdleSession
      /\ a.kept = {} \/ (pc[Root] = "committing" /\ a.kept = Pending(session) /\ OpenFits(Root))
      /\ pc[Root] = "committing" /\ a.reply = "ok" => OpenFits(Root) /\ a.kept = Pending(session)
  BY <1>1, <1>2, EndAnswers
<1>4. session' \in {IdleSession, Gone}
  BY <1>2, <1>3 DEF Disposal
<1>5. PICK outcome \in {"ok", "err"} :
        /\ pc'[Root] = outcome /\ \A n \in Node : n # Root => pc'[n] = pc[n]
        /\ outcome = "ok" => pc[Root] = "committing" /\ a.reply = "ok"
  BY <1>1, <1>2 DEF Outcome, ClientTyped
<1>6. Work' = {} /\ \A n \in Node : n # Root => State[n] # "open" /\ State'[n] = State[n]
  BY <1>1, <1>4, <1>5, NothingPending, RootAlone, StateIs, StateIsNext
<1>7. State[Root] = RootKind
  BY <1>1, StateIs
<1>8. a.kept = {} \/ a.kept = Work
  BY <1>3 DEF Work
<1>9. CASE outcome = "ok"
  <2>1. State'[Root] = "kept"
    BY <1>5, <1>9, StateIsNext
  <2>2. ~Lost /\ a.kept = Work
    BY <1>3, <1>5, <1>9 DEF OpenFits, Lost, Work
  <2>3. State[Root] = "open"
    BY <1>7, <2>2 DEF RootKind
  <2>. QED
    BY <1>1, <1>2, <1>6, <2>1, <2>2, <2>3, Finishes
<1>10. CASE outcome = "err"
  <2>1. State'[Root] = "undone"
    BY <1>5, <1>10, StateIsNext
  <2>2. State[Root] \in {"open", "lost"}
    BY <1>7 DEF RootKind
  <2>. QED
    BY <1>1, <1>2, <1>6, <1>8, <2>1, <2>2, Finishes
<1>. QED
  BY <1>5, <1>9, <1>10

LEMMA DropMaps ==
  ASSUME NEW t \in Node, Runs(t), DropTransaction
  PROVE  [Blocks!Next]_(Blocks!vars)
<1>1. /\ pc[Root] = "body" /\ session' = Gone /\ UNCHANGED <<path, durable>>
      /\ \A n \in Node : pc'[n] = IF Live(n) THEN "cancelled" ELSE pc[n]
      /\ Roles /\ Root \in Node
  BY RootIsNode DEF DropTransaction, Cancelled, Runs, Common
<1>2. State[Root] \in {"open", "lost"} /\ pc'[Root] = "cancelled"
  BY <1>1, StateIs DEF RootKind, Live, Running
<1>3. State'[Root] = "undone" /\ Work' = {}
  BY <1>1, <1>2, NothingPending, StateIsNext
<1>4. ASSUME NEW n \in Node, n # Root
      PROVE  State'[n] = IF State[n] = "open" THEN "undone" ELSE State[n]
  <2>1. State[n] = Kind(pc[n]) /\ State'[n] = Kind(pc'[n]) /\ n \in Block
    BY <1>4, StateIs, StateIsNext, RootIsNode
  <2>2. pc[n] \in BlockSteps \union Ended \union {Unborn}
    BY <1>1, <2>1 DEF Roles
  <2>3. CASE pc[n] \in BlockSteps
    <3>1. pc'[n] = "cancelled" /\ pc[n] \in {"opening", "body", "releasing", "undoing", "forgetting"}
      BY <1>1, <2>3 DEF Live, Running, BlockSteps
    <3>. QED
      BY <2>1, <3>1, Kinds
  <2>4. CASE pc[n] \in Ended \union {Unborn}
    <3>1. pc'[n] = pc[n] /\ pc[n] \in {"ok", "err", "cancelled", Unborn}
      BY <1>1, <2>4 DEF Live, Running, Ended, Unborn
    <3>. QED
      BY <2>1, <3>1, Kinds
  <2>. QED
    BY <2>2, <2>3, <2>4
<1>5. durable' = durable \union {}
  BY <1>1
<1>. QED
  BY <1>1, <1>2, <1>3, <1>4, <1>5, Finishes

-----------------------------------------------------------------------------
\* The refinement.

LEMMA InitMaps == Init => Blocks!Init
<1>. SUFFICES ASSUME Init PROVE Blocks!Init
  OBVIOUS
<1>1. Work = {}
  BY NothingPending DEF Init
<1>2. \A n \in Node : State[n] = "idle"
  BY StateIs, Kinds, RootIsNode DEF Init
<1>3. State = [n \in Node |-> "idle"]
  BY <1>2 DEF State
<1>. QED
  BY <1>1, <1>3, SameNodes DEF Init, Blocks!Init, State, Work

LEMMA StepMaps ==
  ASSUME Disciplined, Inv, [Next]_vars
  PROVE  [Blocks!Next]_(Blocks!vars)
<1>1. CASE UNCHANGED vars
  <2>1. Work' = Work /\ \A n \in Node : State'[n] = State[n]
    BY <1>1 DEF vars, Work, Pending, State, BlockState
  <2>. QED
    BY <1>1, <2>1, Stutters DEF vars
<1>2. CASE Over
  <2>1. UNCHANGED vars
    BY <1>2, OverIsOver, RootIsNode DEF Over, Common
  <2>. QED
    BY <1>1, <2>1
<1>3. ASSUME NEW t \in Node, Runs(t), Next PROVE [Blocks!Next]_(Blocks!vars)
  <2>1. CASE BeginOn
    BY <1>3, <2>1, BeginMaps
  <2>2. CASE \E w \in Write : Execute(w[1], w)
    <3>1. PICK w \in Write : Execute(w[1], w)
      BY <2>2
    <3>2. w[1] \in Node
      BY DEF Write
    <3>. QED
      BY <1>3, <3>1, <3>2, ExecuteMaps
  <2>3. CASE \E p \in Node, b \in Block : EnterSavepoint(p, b)
    BY <1>3, <2>3, EnterMaps
  <2>4. ASSUME NEW b \in Block, \/ OpenSavepoint(b) \/ ReleaseSavepoint(b)
                                \/ UndoSavepoint(b) \/ ForgetSavepoint(b)
        PROVE  [Blocks!Next]_(Blocks!vars)
    BY <1>3, <2>4, OpenMaps, ReleaseMaps, UndoMaps, ForgetMaps
  <2>5. CASE \E n \in Node, result \in {"ok", "err"} : Return(n, result)
    BY <1>3, <2>5, ReturnMaps
  <2>6. CASE End
    BY <1>3, <2>6, EndMaps
  <2>7. CASE DropTransaction
    BY <1>3, <2>7, DropMaps
  <2>8. ~DropBegin /\ ~DropEnd /\ \A b \in Block : ~DropSavepoint(b)
    BY DEF Disciplined, DropBegin, DropEnd, DropSavepoint
  <2>9. CASE Finished
    BY <1>1, <2>9 DEF Finished
  <2>. QED
    BY <1>3, <2>1, <2>2, <2>3, <2>4, <2>5, <2>6, <2>7, <2>8, <2>9 DEF Next
<1>. QED
  BY <1>1, <1>2, <1>3 DEF Inv

\* within and savepoint give their caller nested blocks, each kept or undone as a
\* whole (begin.rs, within and atomic; mod.rs, savepoint): the levels, the frames of
\* the session and the replies of the engine implement them for any set of savepoint
\* calls, nested and repeated in any way.
THEOREM BlocksAreAlwaysAtomic ==
  ASSUME Disciplined PROVE Spec => BlocksAreAtomic
<1>1. Inv /\ [Next]_vars => Inv'
  BY InvNext
<1>2. Inv /\ [Next]_vars => [Blocks!Next]_(Blocks!vars)
  BY StepMaps
<1>. QED
  BY <1>1, <1>2, InvInit, InitMaps, PTL DEF Spec, BlocksAreAtomic, Blocks!Spec
=============================================================================
