---------------------------- MODULE Transaction ----------------------------
(***************************************************************************)
(* keelson-exec's Transaction on one connection: BeginExt::within (or an    *)
(* explicit begin and commit), nested Transaction::savepoint blocks, the    *)
(* errors each statement may answer, the cancellation of any of these       *)
(* futures, and Drop.                                                       *)
(*                                                                         *)
(* A node is a running block: Root is the closure of the transaction, each  *)
(* Block the closure of one savepoint call.  The Transaction's async Mutex  *)
(* makes one statement (send, reply) a single step; between two statements  *)
(* every other future may run.                                             *)
(***************************************************************************)
EXTENDS Session

CONSTANTS
  Engines,         \* the families it is run on
  Block,           \* the savepoint calls that may happen
  Root,            \* the transaction's own closure
  MaxWrites,       \* bound: the statements that succeed in one block
  Siblings,        \* may one closure have two savepoint futures in flight
  Cancels,         \* the awaits at which a caller may drop the future
  StmtSurvives,    \* per family, the statement errors a closure may carry on after
  NestedSurvives   \* and the errors of a nested block its caller may carry on after

Errors == {"refused", "conflict"}

Awaits == {"begin", "body", "end", "savepoint"}

ASSUME RootAssumption == Root \notin Block
ASSUME ParameterAssumption ==
  /\ Engines \subseteq Families
  /\ MaxWrites \in Nat
  /\ Siblings \in BOOLEAN
  /\ Cancels \subseteq Awaits
  /\ StmtSurvives \in [Families -> SUBSET Errors]
  /\ NestedSurvives \in [Families -> SUBSET Errors]

Node  == Block \union {Root}
Write == Node \X (1 .. MaxWrites)

VARIABLES
  session,   \* the server's side of the connection
  durable,   \* the writes that are committed
  conn,      \* where the connection is: held, back in the pool, or closed
  finished,  \* Transaction::finished
  depth,     \* Transaction::depth
  pc,        \* where each block's future stands
  path,      \* the blocks a block runs inside, Root first, itself last
  level,     \* the savepoint number a block took
  out,       \* what a block's closure returned: none, ok or err
  owes,      \* the error a closure has to pass on: none, refused or conflict
  made       \* the writes whose statement answered Ok

vars == <<family, session, durable, conn, finished, depth, pc, path, level, out, owes,
          made>>
server == <<session, durable>>
client == <<conn, finished>>
blocks == <<depth, pc, path, level, out, owes>>

Unborn  == "unborn"
Running == {"opening", "body", "releasing", "undoing", "forgetting",
            "begin", "committing", "rollingback"}
Ended   == {"ok", "err", "cancelled"}

Caller(b) == path[b][Len(path[b]) - 1]
Inside(b) == {n \in Node : b \in {path[n][i] : i \in DOMAIN path[n]}}
Chain(b)  == {path[b][i] : i \in DOMAIN path[b]}
Live(n)   == pc[n] \in Running
Nested(n) == Inside(n) \ {n}

\* A closure awaits the savepoint it calls, unless it joins several of them.
Proceeds(n) == pc[n] = "body" /\ (Siblings \/ \A m \in Nested(n) : ~Live(m))

\* The server carries out one command and the client hears the answer.
Hears(a) ==
    /\ session' = a.session
    /\ durable' = durable \union a.kept

Unless(survivable, kind, owed) == IF kind \in survivable THEN owed ELSE kind

-----------------------------------------------------------------------------

Init ==
    /\ family \in Engines
    /\ session = IdleSession
    /\ durable = {}
    /\ conn = "held"
    /\ finished = FALSE
    /\ depth = 0
    /\ pc = [n \in Node |-> IF n = Root THEN "begin" ELSE Unborn]
    /\ path = [n \in Node |-> IF n = Root THEN <<Root>> ELSE <<>>]
    /\ level = [n \in Node |-> 0]
    /\ out = [n \in Node |-> "none"]
    /\ owes = [n \in Node |-> "none"]
    /\ made = {}

\* Transaction::begin_on: a failed BEGIN abandons the connection.
BeginOn ==
    /\ pc[Root] = "begin"
    /\ \E a \in Heard(session, Begin(session)) :
         IF a.reply = "ok"
           THEN /\ Hears(a)
                /\ pc' = [pc EXCEPT ![Root] = "body"]
                /\ UNCHANGED conn
           ELSE /\ session' = Gone
                /\ durable' = durable \union a.kept
                /\ conn' = "closed"
                /\ pc' = [pc EXCEPT ![Root] = "err"]
    /\ UNCHANGED <<family, finished, depth, path, level, out, owes, made>>

\* Executor::execute and fetch, called by the closure of node n.
Execute(n, w) ==
    /\ Proceeds(n)
    /\ owes[n] = "none"
    /\ w[1] = n /\ w \notin made
    /\ \E a \in Heard(session, Statement(session, w)) :
         /\ Hears(a)
         /\ made' = IF a.reply = "ok" THEN made \union {w} ELSE made
         /\ owes' = IF a.reply = "ok" THEN owes
                    ELSE [owes EXCEPT ![n] = Unless(StmtSurvives[family], a.reply, @)]
    /\ UNCHANGED <<family, client, depth, pc, path, level, out>>

\* The number a savepoint takes.  Mutant: the name does not count.
LevelFixed(open) == 1
LevelAt(open) == open + 1

\* Transaction::savepoint, up to its first await: the level is taken before
\* the statement is sent.
EnterSavepoint(p, b) ==
    /\ Proceeds(p)
    /\ owes[p] = "none"
    /\ pc[b] = Unborn
    /\ depth' = depth + 1
    /\ level' = [level EXCEPT ![b] = LevelAt(depth)]
    /\ path' = [path EXCEPT ![b] = Append(path[p], b)]
    /\ pc' = [pc EXCEPT ![b] = "opening"]
    /\ UNCHANGED <<family, server, client, out, owes, made>>

\* Mutant: the level is kept.
AnswersLeakingDepth(b, how, kind) ==
    /\ depth' = depth
    /\ pc' = [pc EXCEPT ![b] = how]
    /\ owes' = IF how = "ok" THEN owes
               ELSE [owes EXCEPT ![Caller(b)] = Unless(NestedSurvives[family], kind, @)]

\* The savepoint call of b answers its caller: the level is given back.
Answers(b, how, kind) ==
    /\ depth' = depth - 1
    /\ pc' = [pc EXCEPT ![b] = how]
    /\ owes' = IF how = "ok" THEN owes
               ELSE [owes EXCEPT ![Caller(b)] = Unless(NestedSurvives[family], kind, @)]

\* SAVEPOINT keelson_sp_n.
OpenSavepoint(b) ==
    /\ pc[b] = "opening"
    /\ \E a \in Heard(session, Savepoint(session, level[b])) :
         /\ Hears(a)
         /\ IF a.reply = "ok"
              THEN pc' = [pc EXCEPT ![b] = "body"] /\ UNCHANGED <<depth, owes>>
              ELSE Answers(b, "err", a.reply)
    /\ UNCHANGED <<family, client, path, level, out, made>>

\* The closure of n returns: Ok only if it has no error to pass on, and once
\* every future it joined has ended.  For Root this is within calling commit
\* or rollback, whose first step marks the transaction finished.
Return(n, result) ==
    /\ pc[n] = "body"
    /\ \A m \in Nested(n) : ~Live(m)
    /\ result = "ok" => owes[n] = "none"
    /\ out' = [out EXCEPT ![n] = result]
    /\ pc' = [pc EXCEPT ![n] =
                 IF n = Root
                   THEN IF result = "ok" THEN "committing" ELSE "rollingback"
                   ELSE IF result = "ok" THEN "releasing" ELSE "undoing"]
    /\ finished' = (finished \/ n = Root)
    /\ UNCHANGED <<family, server, conn, depth, path, level, owes, made>>

\* What savepoint sends after its closure: ROLLBACK TO when it undoes the block,
\* RELEASE otherwise.  Mutant: RELEASE whatever the closure returned.
CleanupReleases(b) == Release(session, level[b])
Cleanup(b) == IF pc[b] = "undoing" THEN RollbackTo(session, level[b])
              ELSE Release(session, level[b])

\* RELEASE SAVEPOINT after an Ok.
ReleaseSavepoint(b) ==
    /\ pc[b] = "releasing"
    /\ \E a \in Heard(session, Cleanup(b)) :
         /\ Hears(a)
         /\ Answers(b, IF a.reply = "ok" THEN "ok" ELSE "err", a.reply)
    /\ UNCHANGED <<family, client, path, level, out, made>>

\* The error a failed closure answers with: the one it was handed, or its own.
OwnError(b) == IF owes[b] = "none" THEN "refused" ELSE owes[b]

\* ROLLBACK TO SAVEPOINT after an Err; if that fails nothing else is sent.
UndoSavepoint(b) ==
    /\ pc[b] = "undoing"
    /\ \E a \in Heard(session, Cleanup(b)) :
         /\ Hears(a)
         /\ IF a.reply = "ok"
              THEN pc' = [pc EXCEPT ![b] = "forgetting"] /\ UNCHANGED <<depth, owes>>
              ELSE Answers(b, "err", OwnError(b))
    /\ UNCHANGED <<family, client, path, level, out, made>>

\* The RELEASE that follows it, whose failure is not reported.
ForgetSavepoint(b) ==
    /\ pc[b] = "forgetting"
    /\ \E a \in Heard(session, Cleanup(b)) :
         /\ Hears(a)
         /\ Answers(b, "err", OwnError(b))
    /\ UNCHANGED <<family, client, path, level, out, made>>

\* Where the connection goes when end has its reply.  Mutants: always back to the
\* pool, or nowhere.
DisposalToPool(reply) == "pool"
DisposalNone(reply)   == "held"
Disposal(reply) == IF reply = "ok" THEN "pool" ELSE "closed"

\* What the caller hears.
Outcome(reply, ending) ==
    IF reply = "ok" /\ ending = "committing" THEN "ok" ELSE "err"

\* Transaction::end: the connection is taken, and abandoned if COMMIT or
\* ROLLBACK failed; otherwise dropping it returns it to its pool.  A failed
\* rollback still answers the closure's error.
End ==
    /\ pc[Root] \in {"committing", "rollingback"}
    /\ \E a \in Heard(session, IF pc[Root] = "committing" THEN Commit(session)
                               ELSE Rollback(session)) :
         /\ durable' = durable \union a.kept
         /\ conn' = Disposal(a.reply)
         /\ session' = IF conn' = "closed" THEN Gone ELSE a.session
         /\ pc' = [pc EXCEPT ![Root] = Outcome(a.reply, @)]
    /\ UNCHANGED <<family, finished, depth, path, level, out, owes, made>>

-----------------------------------------------------------------------------
(* Dropped futures.                                                        *)

Cancelled(nodes) ==
    pc' = [n \in Node |-> IF n \in nodes /\ Live(n) THEN "cancelled" ELSE pc[n]]

\* A statement whose future is dropped was carried out or never sent.
Unheard(answers) == {Ok(session)} \union answers

\* The statement in flight in node n, if any.
InFlight(n) ==
    CASE pc[n] = "begin"       -> Begin(session)
      [] pc[n] = "opening"     -> Savepoint(session, level[n])
      [] pc[n] \in {"releasing", "undoing", "forgetting"} -> Cleanup(n)
      [] pc[n] = "committing"  -> Commit(session)
      [] pc[n] = "rollingback" -> Rollback(session)
      [] OTHER                 -> {}

\* begin_on's future dropped: the connection is still a local of it, and
\* dropping a pool's connection hands it back as it is.
DropBegin ==
    /\ "begin" \in Cancels
    /\ pc[Root] = "begin"
    /\ \E a \in Unheard(InFlight(Root)) : Hears(a)
    /\ conn' = "pool"
    /\ Cancelled({Root})
    /\ UNCHANGED <<family, finished, depth, path, level, out, owes, made>>

\* The closure's future, or a Transaction never ended, is dropped: Drop finds
\* finished unset and abandons the connection.
DropTransaction ==
    /\ "body" \in Cancels
    /\ pc[Root] = "body" /\ ~finished
    /\ session' = Gone
    /\ conn' = "closed"
    /\ Cancelled(Node)
    /\ UNCHANGED <<family, durable, finished, depth, path, level, out, owes, made>>

\* commit's or rollback's future dropped: finished is set already, so Drop
\* does nothing and the connection goes back to its pool.
DropEnd ==
    /\ "end" \in Cancels
    /\ pc[Root] \in {"committing", "rollingback"}
    /\ \E a \in Unheard(InFlight(Root)) : Hears(a)
    /\ conn' = "pool"
    /\ Cancelled({Root})
    /\ UNCHANGED <<family, finished, depth, path, level, out, owes, made>>

\* A savepoint's future dropped (a timeout, a select) while its caller goes
\* on: neither its cleanup nor the decrement of depth runs.
DropSavepoint(b) ==
    /\ "savepoint" \in Cancels
    /\ b \in Block /\ Live(b)
    /\ \E m \in Inside(b) :
         /\ Live(m)
         /\ \E a \in Unheard(InFlight(m)) : Hears(a)
    /\ Cancelled(Inside(b))
    /\ UNCHANGED <<family, client, depth, path, level, out, owes, made>>

\* The call is over and nothing is left to run.
Finished ==
    /\ pc[Root] \in Ended
    /\ UNCHANGED vars

Next ==
    \/ BeginOn
    \/ \E w \in Write : Execute(w[1], w)
    \/ \E p \in Node, b \in Block : EnterSavepoint(p, b)
    \/ \E b \in Block :
         \/ OpenSavepoint(b) \/ ReleaseSavepoint(b)
         \/ UndoSavepoint(b) \/ ForgetSavepoint(b) \/ DropSavepoint(b)
    \/ \E n \in Node, result \in {"ok", "err"} : Return(n, result)
    \/ End
    \/ DropBegin \/ DropTransaction \/ DropEnd
    \/ Finished

Spec == Init /\ [][Next]_vars

-----------------------------------------------------------------------------
(* Properties.                                                             *)

Frames   == Seq([name : Nat, work : SUBSET Write])
Sessions == [tx : {"idle", "active", "aborted", "gone"}, frames : Frames]

TypeOK ==
    /\ family \in Families
    /\ session \in Sessions
    /\ durable \subseteq Write
    /\ conn \in {"held", "pool", "closed"}
    /\ finished \in BOOLEAN
    /\ depth \in Nat
    /\ pc \in [Node -> Running \union Ended \union {Unborn}]
    /\ path \in [Node -> Seq(Node)]
    /\ level \in [Node -> Nat]
    /\ out \in [Node -> {"none", "ok", "err"}]
    /\ owes \in [Node -> Errors \union {"none"}]
    /\ made \subseteq Write

\* Every block that contains write w was asked to keep it.
KeepsAll(w) ==
    \A b \in Chain(w[1]) : IF b = Root THEN out[Root] = "ok" ELSE pc[b] = "ok"

\* All or nothing, the nothing half (begin.rs, Atomic): a write is durable only
\* if every savepoint around it answered Ok and the transaction's closure
\* returned Ok, so an Err, an abandoned block or a dropped transaction leaves
\* no part of its work behind.
NothingOfAFailedBlock == \A w \in durable : KeepsAll(w)

\* All or nothing, the all half (begin.rs, within: "commit on Ok"): when the
\* caller is told Ok, everything its successful blocks wrote is durable.
OkKeepsEverything ==
    pc[Root] = "ok" => \A w \in made : KeepsAll(w) => w \in durable

\* A block is all or nothing (begin.rs, within and atomic), for whoever is told
\* Ok and for whoever is told an error.
AllOrNothing == NothingOfAFailedBlock /\ OkKeepsEverything

\* A connection that is back in its pool carries no open transaction into the
\* next checkout (mod.rs, RawConnection::abandon).
PooledIsClean == conn = "pool" => session.tx = "idle"

\* Savepoint names never collide (mod.rs, Transaction::savepoint): no two
\* blocks that are running hold the same keelson_sp_n.
NamesNeverCollide ==
    \A b, c \in Block : b # c /\ Live(b) /\ Live(c) => level[b] # level[c]

\* The level is given back on every path out of savepoint, the early error
\* return included: while the transaction runs, depth counts its open blocks.
DepthCountsBlocks == Live(Root) => depth = Cardinality({b \in Block : Live(b)})

\* What depth counts, and the names made from it (mod.rs, Transaction::savepoint).
LevelsAreSound == TypeOK /\ NamesNeverCollide /\ DepthCountsBlocks

\* A closure's Err rolls back to the savepoint and the outer transaction lives on
\* (mod.rs, Transaction::savepoint): when the failed block answers, its caller can
\* go on working, unless a conflict took the whole transaction or the connection
\* itself is lost.
OuterLivesOn ==
    [][\A b \in Block :
         (pc[b] \in {"undoing", "forgetting"} /\ pc'[b] = "err" /\ owes[b] # "conflict")
           => session'.tx \in {"active", "gone"}]_vars

\* The connection is disposed of exactly when the transaction is over: never
\* still held after the outcome is known, never given away before it.
SettledWithOutcome == pc[Root] \in Ended <=> conn # "held"
=============================================================================
