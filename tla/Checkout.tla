------------------------------ MODULE Checkout ------------------------------
(***************************************************************************)
(* Many tasks, one pool: begin_with checks the options, acquires a          *)
(* connection and runs the plan on it statement by statement; the           *)
(* transaction then holds that connection until it is committed, rolled     *)
(* back, dropped or abandoned.  Statements run on the pool itself borrow a  *)
(* connection for one statement and commit by themselves.                   *)
(*                                                                         *)
(* Every await is a step of its own, so tasks interleave between any two    *)
(* statements and a future may be dropped at each of them.                  *)
(***************************************************************************)
EXTENDS TxOptions

CONSTANTS
  Family,     \* the engine family of the pool
  Conn,       \* the pool's connection slots
  Task,       \* the callers
  Asks,       \* the options they ask for
  Pooled,     \* a backend with a pool, or one that opens a connection each time
  Cancels,    \* the awaits at which a caller may drop begin's or end's future
  NoConn      \* not a connection

ASSUME FamilyAssumption == Family \in Families
ASSUME AsksAssumption   == Asks \subseteq Options
ASSUME CancelAssumption == Pooled \in BOOLEAN /\ Cancels \subseteq {"begin", "end"}
ASSUME NoConnAssumption == NoConn \notin Conn

VARIABLES
  pc,       \* what each task awaits
  want,     \* the options it asked for
  query,    \* it runs one statement on the pool instead of a transaction
  sent,     \* the statements of its plan that have been answered
  held,     \* the connection it holds
  place,    \* of each connection: closed, idle in the pool, or held
  server,   \* the server's side of each connection
  work      \* the tasks whose writes each connection's open transaction holds

vars  == <<pc, want, query, sent, held, place, server, work>>
asked == <<want, query>>

\* A session with no transaction and no one-shot level left on it.
Clean == [open |-> FALSE, runs |-> Default(Family), next |-> Unset]

Ending  == {"committing", "rollingback"}
Holding == {"beginning", "open", "querying"} \union Ending

Init ==
    /\ pc = [t \in Task |-> "idle"]
    /\ want = [t \in Task |-> NoOptions]
    /\ query = [t \in Task |-> FALSE]
    /\ sent = [t \in Task |-> 0]
    /\ held = [t \in Task |-> NoConn]
    /\ place = [c \in Conn |-> "closed"]
    /\ server = [c \in Conn |-> Clean]
    /\ work = [c \in Conn |-> {}]

\* begin_with: options the family cannot honour are refused before a
\* connection is taken; otherwise the task queues for one.
BeginWith(t, o) ==
    /\ pc[t] = "idle"
    /\ ~Refuses(Family, o)
    /\ pc' = [pc EXCEPT ![t] = "acquiring"]
    /\ want' = [want EXCEPT ![t] = o]
    /\ query' = [query EXCEPT ![t] = FALSE]
    /\ UNCHANGED <<sent, held, place, server, work>>

\* fetch or execute on the pool itself.
Query(t) ==
    /\ pc[t] = "idle"
    /\ pc' = [pc EXCEPT ![t] = "acquiring"]
    /\ query' = [query EXCEPT ![t] = TRUE]
    /\ UNCHANGED <<want, sent, held, place, server, work>>

\* The pool hands out an idle connection or opens one in a free slot.
Offered(c) == place[c] # "held"

Acquire(t, c) ==
    /\ pc[t] = "acquiring"
    /\ Offered(c)
    /\ place' = [place EXCEPT ![c] = "held"]
    /\ held' = [held EXCEPT ![t] = c]
    /\ sent' = [sent EXCEPT ![t] = 0]
    /\ pc' = [pc EXCEPT ![t] = IF query[t] THEN "querying" ELSE "beginning"]
    /\ UNCHANGED <<asked, server, work>>

\* The acquire fails or times out, or its future is dropped.
GiveUp(t) ==
    /\ pc[t] = "acquiring"
    /\ pc' = [pc EXCEPT ![t] = "idle"]
    /\ UNCHANGED <<asked, sent, held, place, server, work>>

\* Mutant: the slot is not freed.
AbandonLeaking(t) ==
    /\ server' = [server EXCEPT ![held[t]] = Clean]
    /\ work' = [work EXCEPT ![held[t]] = {}]
    /\ held' = [held EXCEPT ![t] = NoConn]
    /\ pc' = [pc EXCEPT ![t] = "idle"]
    /\ UNCHANGED place

\* Mutant: dropped instead of detached, so the pool takes it back as it is.
AbandonToPool(t) ==
    /\ place' = [place EXCEPT ![held[t]] = "idle"]
    /\ held' = [held EXCEPT ![t] = NoConn]
    /\ pc' = [pc EXCEPT ![t] = "idle"]
    /\ UNCHANGED <<server, work>>

\* RawConnection::abandon: the connection is closed, and the server discards
\* what was open on it.
Abandon(t) ==
    /\ place' = [place EXCEPT ![held[t]] = "closed"]
    /\ server' = [server EXCEPT ![held[t]] = Clean]
    /\ work' = [work EXCEPT ![held[t]] = {}]
    /\ held' = [held EXCEPT ![t] = NoConn]
    /\ pc' = [pc EXCEPT ![t] = "idle"]

\* The connection is dropped: back to the pool as the server left it, or, in a
\* backend without a pool, closed.
GiveBack(t, s, w) ==
    /\ place' = [place EXCEPT ![held[t]] = IF Pooled THEN "idle" ELSE "closed"]
    /\ server' = [server EXCEPT ![held[t]] = IF Pooled THEN s ELSE Clean]
    /\ work' = [work EXCEPT ![held[t]] = IF Pooled THEN w ELSE {}]
    /\ held' = [held EXCEPT ![t] = NoConn]
    /\ pc' = [pc EXCEPT ![t] = "idle"]

-----------------------------------------------------------------------------
(* What the server does with a statement of a plan.                        *)

\* SQLite refuses a BEGIN inside a transaction, MySQL a SET TRANSACTION.
Accepts(stmt, s) == s.open => Family = "Postgres" \/ (Family = "MySql" /\ stmt.verb = "begin")

\* MySQL's SET TRANSACTION is for the next transaction only; PostgreSQL warns
\* about a BEGIN inside a transaction and stays in it.
After(stmt, s) ==
    IF stmt.verb = "set" THEN [s EXCEPT !.next = stmt.isolation]
    ELSE IF s.open /\ Family = "Postgres" THEN s
    ELSE [open |-> TRUE, runs |-> Opened(Family, stmt, s.next), next |-> Unset]

\* A BEGIN that opens a transaction leaves no older work in it: MySQL commits
\* what was open.
WorkAfter(stmt, s, w) == IF stmt.verb = "begin" /\ ~(s.open /\ Family = "Postgres") THEN {} ELSE w

\* The statement a task's plan has in flight.
InFlight(t) == Plan(Family, want[t])[sent[t] + 1]

-----------------------------------------------------------------------------

\* Transaction::begin_on_with: the next statement of the plan, answered Ok.
RunPlan(t) ==
    /\ pc[t] = "beginning"
    /\ LET c == held[t]
           stmt == InFlight(t)
       IN  /\ Accepts(stmt, server[c])
           /\ server' = [server EXCEPT ![c] = After(stmt, @)]
           /\ work' = [work EXCEPT ![c] = WorkAfter(stmt, server[c], @)]
           /\ sent' = [sent EXCEPT ![t] = @ + 1]
           /\ pc' = [pc EXCEPT ![t] = IF sent[t] + 1 = Len(Plan(Family, want[t]))
                                        THEN "open" ELSE "beginning"]
    /\ UNCHANGED <<asked, held, place>>

\* A statement of the plan fails: the half-applied plan goes with its connection.
PlanFails(t) ==
    /\ pc[t] = "beginning"
    /\ Abandon(t)
    /\ UNCHANGED <<asked, sent>>

\* The closure runs a statement that writes.
Write(t) ==
    /\ pc[t] = "open"
    /\ work' = [work EXCEPT ![held[t]] = @ \union {t}]
    /\ UNCHANGED <<pc, asked, sent, held, place, server>>

\* The closure returns, and within calls commit or rollback.
Return(t, how) ==
    /\ pc[t] = "open"
    /\ pc' = [pc EXCEPT ![t] = how]
    /\ UNCHANGED <<asked, sent, held, place, server, work>>

\* Transaction::end, answered Ok: nothing is open any more.
End(t) ==
    /\ pc[t] \in Ending
    /\ GiveBack(t, [server[held[t]] EXCEPT !.open = FALSE], {})
    /\ UNCHANGED <<asked, sent>>

\* COMMIT or ROLLBACK fails: the server's state is unknown.
EndFails(t) ==
    /\ pc[t] \in Ending
    /\ Abandon(t)
    /\ UNCHANGED <<asked, sent>>

\* Drop for Transaction: dropped without commit or rollback.
DropTransaction(t) ==
    /\ pc[t] = "open"
    /\ Abandon(t)
    /\ UNCHANGED <<asked, sent>>

\* The statement run on the pool: outside a transaction it uses up the one-shot
\* level; inside one that was left open it becomes part of it.
RunQuery(t) ==
    /\ pc[t] = "querying"
    /\ LET s == server[held[t]]
       IN  GiveBack(t, IF s.open THEN s ELSE [s EXCEPT !.next = Unset],
                    IF s.open THEN work[held[t]] \union {t} ELSE {})
    /\ UNCHANGED <<asked, sent>>

\* The statement run on the pool takes its connection down with it.
QueryFails(t) ==
    /\ pc[t] = "querying"
    /\ Abandon(t)
    /\ UNCHANGED <<asked, sent>>

\* begin_with's future is dropped while a statement of the plan is in flight:
\* the connection is a local of it, and its drop hands it back.
DropBegin(t, carriedOut) ==
    /\ "begin" \in Cancels
    /\ pc[t] = "beginning"
    /\ LET s == server[held[t]]
           w == work[held[t]]
       IN  IF carriedOut /\ Accepts(InFlight(t), s)
             THEN GiveBack(t, After(InFlight(t), s), WorkAfter(InFlight(t), s, w))
             ELSE GiveBack(t, s, w)
    /\ UNCHANGED <<asked, sent>>

\* commit's or rollback's future is dropped: finished is already set, so Drop
\* does nothing and the connection hands itself back.
DropEnd(t, carriedOut) ==
    /\ "end" \in Cancels
    /\ pc[t] \in Ending
    /\ IF carriedOut THEN GiveBack(t, [server[held[t]] EXCEPT !.open = FALSE], {})
                     ELSE GiveBack(t, server[held[t]], work[held[t]])
    /\ UNCHANGED <<asked, sent>>

Next ==
    \E t \in Task :
      \/ \E o \in Asks : BeginWith(t, o)
      \/ Query(t)
      \/ \E c \in Conn : Acquire(t, c)
      \/ GiveUp(t)
      \/ RunPlan(t) \/ PlanFails(t)
      \/ Write(t)
      \/ \E how \in Ending : Return(t, how)
      \/ End(t) \/ EndFails(t) \/ DropTransaction(t)
      \/ RunQuery(t) \/ QueryFails(t)
      \/ \E carriedOut \in BOOLEAN : DropBegin(t, carriedOut) \/ DropEnd(t, carriedOut)

Spec == Init /\ [][Next]_vars

\* Every statement is answered, every closure returns, and the pool serves its
\* waiters in turn.  Nothing is assumed of the acquire timeout.
Fairness ==
    \A t \in Task :
      /\ WF_vars(RunPlan(t) \/ PlanFails(t))
      /\ WF_vars((\E how \in Ending : Return(t, how)) \/ DropTransaction(t))
      /\ WF_vars(End(t) \/ EndFails(t))
      /\ WF_vars(RunQuery(t) \/ QueryFails(t))
      /\ SF_vars(\E c \in Conn : Acquire(t, c))

FairSpec == Spec /\ Fairness

-----------------------------------------------------------------------------
(* Properties.                                                             *)

Session == [open : BOOLEAN, runs : Options, next : Isolation \union {Unset}]

TypeOK ==
    /\ pc \in [Task -> {"idle", "acquiring"} \union Holding]
    /\ want \in [Task -> Options]
    /\ query \in [Task -> BOOLEAN]
    /\ sent \in [Task -> Nat]
    /\ held \in [Task -> Conn \union {NoConn}]
    /\ place \in [Conn -> {"closed", "idle", "held"}]
    /\ server \in [Conn -> Session]
    /\ work \in [Conn -> SUBSET Task]

\* Every path gives the connection up: one that is held has a task that holds it,
\* so no error, early return or drop leaks a slot of the pool.
NothingLeaks == \A c \in Conn : place[c] = "held" => \E t \in Task : held[t] = c

\* An idle connection is as good as new (mod.rs, begin_on_with and end): no
\* transaction is open on it and no SET TRANSACTION waits for the next one.
IdleIsClean == \A c \in Conn : place[c] = "idle" => ~server[c].open /\ server[c].next = Unset

\* A transaction runs as it was asked to and as nothing else (options.rs, plan):
\* at the level, in the mode and with the locks the caller named, and at the
\* engine's defaults where it named none, whatever ran on the connection before.
RunsAsAsked ==
    \A t \in Task :
      pc[t] \in {"open"} \union Ending =>
        server[held[t]].open /\ server[held[t]].runs = Asked(Family, want[t])

\* What is open on a connection was written by the task that holds it: nobody
\* commits, or loses, another task's work.
OnlyOwnWork == \A c \in Conn : \A t \in work[c] : held[t] = c

\* Whoever queues for a connection is served, however many others there are and
\* however their transactions end: no path keeps a connection for good.
EveryoneServed ==
    \A t \in Task : pc[t] = "acquiring" ~> pc[t] # "acquiring"

-----------------------------------------------------------------------------
(* The inductive invariants.  The first two hold whatever is dropped.      *)

\* A task holds a connection exactly from its acquire to its end.
HoldsOne == \A t \in Task : pc[t] \in Holding <=> held[t] # NoConn

\* What the pool gives its users: a task past its acquire holds one connection,
\* which the pool does not also offer, and no two tasks hold the same.
Exclusive ==
    /\ \A t \in Task : pc[t] \in Holding => held[t] \in Conn /\ place[held[t]] = "held"
    /\ \A t, u \in Task : t # u /\ held[t] # NoConn => held[t] # held[u]

\* A task whose plan is still running has a statement of it left to send.
PlanUnfinished ==
    \A t \in Task : pc[t] = "beginning" => sent[t] < Len(Plan(Family, want[t]))

\* A connection nobody holds is as good as new, work included.
UnheldIsClean ==
    \A c \in Conn : place[c] # "held" =>
      ~server[c].open /\ server[c].next = Unset /\ work[c] = {}

\* Between two statements of its plan a connection holds the level of the one
\* before and nothing else.
BeginsClean(t) ==
    pc[t] = "beginning" =>
      /\ ~Refuses(Family, want[t])
      /\ ~server[held[t]].open /\ work[held[t]] = {}
      /\ \/ sent[t] = 0 /\ server[held[t]].next = Unset
         \/ /\ sent[t] = 1 /\ Family = "MySql" /\ want[t].isolation # Unset
            /\ server[held[t]].next = want[t].isolation

\* An open transaction is the one asked for, with its own task's writes only.
RunsItsOwn(t) ==
    pc[t] \in {"open"} \union Ending =>
      /\ server[held[t]].open /\ server[held[t]].next = Unset
      /\ server[held[t]].runs = Asked(Family, want[t])
      /\ work[held[t]] \subseteq {t}

\* A statement on the pool finds no transaction and no level on its connection.
QueriesClean(t) ==
    pc[t] = "querying" =>
      ~server[held[t]].open /\ server[held[t]].next = Unset /\ work[held[t]] = {}

\* A task that waits for a connection asks for something its family honours.
AsksHonoured(t) == pc[t] = "acquiring" /\ ~query[t] => ~Refuses(Family, want[t])

TaskClean(t) == BeginsClean(t) /\ RunsItsOwn(t) /\ QueriesClean(t) /\ AsksHonoured(t)

HoldInv  == TypeOK /\ HoldsOne /\ Exclusive /\ NothingLeaks /\ PlanUnfinished
CleanInv == UnheldIsClean /\ \A t \in Task : TaskClean(t)
=============================================================================
