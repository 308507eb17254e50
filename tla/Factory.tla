------------------------------- MODULE Factory -------------------------------
(***************************************************************************)
(* Rows made by generated factories (keelson-factory, emit/factory.rs) next *)
(* to plain model calls.  create_with builds a setter, creates the parent   *)
(* the template asks for, inserts through the model, then creates the       *)
(* children with their key forced: a recursion, here a stack of frames      *)
(* whose top is at work.                                                    *)
(*                                                                          *)
(* Each caller runs one job on a pool or in atomic(), which commits when    *)
(* the job succeeds and rolls back otherwise.                               *)
(***************************************************************************)
EXTENDS Mutations, Functions

CONSTANTS
    Jobs,       \* [call] or [template, times]; the other part is <<>>
    Bases       \* what the clock may say when a sequence is first drawn from

ASSUME JobsAssumption ==
    \A job \in Jobs :
      \/ job.template = <<>> /\ job.times = 0 /\ Len(job.call) = 1 /\ IsCall(job.call[1])
      \/ job.call = <<>> /\ job.times \in Nat \ {0} /\ job.template # <<>>

\* The clock's nanoseconds, masked.
ASSUME BasesAssumption == Bases \subseteq Nat

\* Only an optional key may be absent, and only a table without one has none.
ASSUME TemplatesAssumption ==
    \A job \in Jobs : job.template # <<>> =>
      LET tpl == job.template[1]
      IN  tpl.table \in Tables /\ (tpl.parent.state \in {"none", "absent"} => ~Required(tpl.table))

VARIABLES
    seq,        \* table -> its Sequence; every value drawn from it
    tasks       \* caller -> its job
vars == <<mutationVars, seq, tasks>>

Idle == [step |-> "idle", job |-> [call |-> <<>>, template |-> <<>>, times |-> 0], atomic |-> FALSE,
         stack |-> <<>>, left |-> 0, made |-> <<>>, results |-> <<>>, outcome |-> "none"]

Init ==
    /\ InitMutations
    /\ seq = [t \in Tables |-> [base |-> -1, next |-> 0, drawn |-> <<>>]]
    /\ tasks = [c \in Callers |-> Idle]

-----------------------------------------------------------------------------
\* Templates.

\* A Source: how the value comes about, and the value it may carry; a
\* generator's is the value it makes up.
AutoValue == [how |-> "auto", v |-> 0]
Omit     == [how |-> "omit", v |-> 0]
NullOf   == [how |-> "null", v |-> 0]
Fixed(v) == [how |-> "value", v |-> v]

\* Parent and OptionalParent; tpl is <<>> or the parent's template.
ParentAs(state, tpl, key) == [state |-> state, tpl |-> tpl, key |-> key]

\* Default: Parent::Auto where the key is required, OptionalParent::Absent.
DefaultParent(t) ==
    ParentAs(IF ~HasParent(t) THEN "none" ELSE IF Refers[t].required THEN "auto" ELSE "absent", <<>>, Null)

Template(t) == [table |-> t, id |-> AutoValue, label |-> AutoValue, parent |-> DefaultParent(t), children |-> <<>>]

\* The base is the clock's at first use and stays.
Base(t) == IF seq[t].base = -1 THEN Bases ELSE {seq[t].base}

\* Source::resolve; a unique column's auto is the next value of the sequence.
Resolved(source, next) ==
    CASE source.how = "auto"  -> next
      [] source.how = "value" -> source.v
      [] source.how = "null"  -> Null
      [] source.how = "omit"  -> Unset

\* Mutant: the counter is read and not moved on.
DrawnInPlace(t, source, base) ==
    IF source.how # "auto" THEN seq
    ELSE [seq EXCEPT ![t] = [base |-> base, next |-> @.next, drawn |-> Append(@.drawn, base + @.next)]]

\* What the table's sequence is after one of its columns: auto is next_i32, one
\* fetch_add.
Drawn(t, source, base) ==
    IF source.how # "auto" THEN seq
    ELSE [seq EXCEPT ![t] = [base |-> base, next |-> @.next + 1, drawn |-> Append(@.drawn, base + @.next)]]

\* A parent not created yet leaves its key unset.
Filled(frame, column, next) ==
    IF column = "id"
    THEN [frame EXCEPT !.step = "label", !.setter = <<Resolved(frame.tpl.id, next), Unset, Unset>>]
    ELSE [frame EXCEPT !.step = "parent",
                       !.setter = <<@[1], Resolved(frame.tpl.label, next),
                                    IF frame.tpl.parent.state = "existing" THEN frame.tpl.parent.key ELSE Unset>>]

-----------------------------------------------------------------------------
\* The stack.

Frame(tpl) == [tpl |-> tpl, step |-> "id", setter |-> <<Unset, Unset, Unset>>, child |-> 1, id |-> Unset]
Push(c, frame, tpl) == [tasks EXCEPT ![c].stack = Append(Front(@), frame) \o <<Frame(tpl)>>]
Replace(c, frame)   == [tasks EXCEPT ![c].stack = Append(Front(@), frame)]
Working(c, step)    == tasks[c].stack # <<>> /\ Last(tasks[c].stack).step = step

\* build, column by column, the foreign key with the last; another thread may
\* draw in between.
Columns == {"id", "label"}
Build(c, column) ==
    LET top == Last(tasks[c].stack)
        t   == top.tpl.table
    IN  /\ Working(c, column)
        /\ \E base \in Base(t) :
              /\ seq' = Drawn(t, top.tpl[column], base)
              /\ tasks' = Replace(c, Filled(top, column, base + seq[t].next))
        /\ UNCHANGED mutationVars

\* The parent the template holds, or the default one of a required key.
Parent(c) ==
    LET top    == Last(tasks[c].stack)
        parent == top.tpl.parent
        insert == [top EXCEPT !.step = "insert"]
    IN  /\ Working(c, "parent")
        /\ tasks' = CASE parent.state = "template" -> Push(c, insert, parent.tpl[1])
                      [] parent.state = "auto"     -> Push(c, insert, Template(Refers[top.tpl.table].to))
                      [] OTHER                     -> Replace(c, insert)
        /\ UNCHANGED <<mutationVars, seq>>

\* table().insert(s).one(db)
Insert(c) ==
    LET top == Last(tasks[c].stack)
    IN  /\ Working(c, "insert")
        /\ calls' = [calls EXCEPT ![c] = Call("insert", TRUE, top.tpl.table, top.setter, {}, "none")]
        /\ tasks' = Replace(c, [top EXCEPT !.step = "inserting"])
        /\ UNCHANGED <<dialect, hook, database, failures, seq>>

\* The answer, or the error that ends the whole job.
Created(c) ==
    LET top == Last(tasks[c].stack)
        row == Only(calls[c].answer)
    IN  /\ Working(c, "inserting") /\ calls[c].step = "done"
        /\ tasks' = IF calls[c].outcome = "ok"
                    THEN [Replace(c, [top EXCEPT !.step = "children", !.id = row.id])
                            EXCEPT ![c].made = Append(@, row)]
                    ELSE [tasks EXCEPT ![c].stack = <<>>, ![c].step = "settle",
                                       ![c].outcome = calls[c].outcome]
        /\ calls' = [calls EXCEPT ![c] = NoCall]
        /\ UNCHANGED <<dialect, hook, database, failures, seq>>

\* Mutant: a child that brings a parent of its own keeps it.
ForcedGently(tpl, id) ==
    IF tpl.parent.state = "template" THEN tpl ELSE [tpl EXCEPT !.parent = ParentAs("existing", <<>>, id)]

Forced(tpl, id) ==
    [table |-> tpl.table, id |-> tpl.id, label |-> tpl.label, parent |-> ParentAs("existing", <<>>, id),
     children |-> tpl.children]

\* The queued children, each with this row as its parent.
Child(c) ==
    LET top == Last(tasks[c].stack)
    IN  /\ Working(c, "children") /\ top.child \in DOMAIN top.tpl.children
        /\ tasks' = Push(c, [top EXCEPT !.child = @ + 1], Forced(top.tpl.children[top.child], top.id))
        /\ UNCHANGED <<mutationVars, seq>>

\* Back to whoever asked: the frame that wanted a parent takes its key,
\* create_many goes on with the next row.
Return(c) ==
    LET top   == Last(tasks[c].stack)
        below == Front(tasks[c].stack)
        asker == Last(below)
    IN  /\ Working(c, "children") /\ top.child \notin DOMAIN top.tpl.children
        /\ tasks' =
             IF below # <<>>
             THEN [tasks EXCEPT ![c].stack =
                     IF asker.step = "insert" THEN Append(Front(below), [asker EXCEPT !.setter[3] = top.id]) ELSE below]
             ELSE [tasks EXCEPT ![c].left = @ - 1, ![c].results = Append(@, top.id),
                     ![c].stack = IF tasks[c].left > 1 THEN <<Frame(tasks[c].job.template[1])>> ELSE <<>>,
                     ![c].step = IF tasks[c].left > 1 THEN @ ELSE "settle",
                     ![c].outcome = IF tasks[c].left > 1 THEN @ ELSE "ok"]
        /\ UNCHANGED <<mutationVars, seq>>

-----------------------------------------------------------------------------
\* MySQL models offer exec and no all for updates and deletes.
Start(c, job, atomic) ==
    /\ tasks[c].step = "idle"
    /\ job.call # <<>> => dialect # "mysql" \/ job.call[1].kind = "insert" \/ ~job.call[1].rows
    /\ tasks' = [tasks EXCEPT ![c] = [Idle EXCEPT !.step = "working", !.job = job, !.atomic = atomic,
                    !.left = job.times,
                    !.stack = IF job.template = <<>> THEN <<>> ELSE <<Frame(job.template[1])>>]]
    /\ calls' = [calls EXCEPT ![c] = IF job.call = <<>> THEN NoCall ELSE job.call[1]]
    /\ tx' = [tx EXCEPT ![c].open = atomic]
    /\ UNCHANGED <<dialect, hook, rows, audit, nextId, ever, failures, seq>>

Answered(c) ==
    /\ tasks[c].step = "working" /\ tasks[c].stack = <<>> /\ calls[c].step = "done"
    /\ tasks' = [tasks EXCEPT ![c].step = "settle", ![c].outcome = calls[c].outcome]
    /\ UNCHANGED <<mutationVars, seq>>

Commit(c) ==
    /\ rows' = View(c) /\ audit' = audit \cup tx[c].audit
    /\ ever' = ever \cup {[by |-> c, row |-> r] : r \in tx[c].added}

\* Mutant: atomic commits whatever the job answered.
SettleAnyway(c) ==
    /\ tasks[c].step = "settle"
    /\ Commit(c) /\ UNCHANGED failures
    /\ tasks' = [tasks EXCEPT ![c].step = "settled"]
    /\ tx' = [tx EXCEPT ![c] = NoTx]
    /\ UNCHANGED <<dialect, hook, nextId, calls, seq>>

\* The end of atomic(); on a pool there is nothing left to do.
Settle(c) ==
    /\ tasks[c].step = "settle"
    /\ \/ tasks[c].outcome = "ok" /\ Commit(c) /\ UNCHANGED failures
          /\ tasks' = [tasks EXCEPT ![c].step = "settled"]
       \/ tasks[c].outcome # "ok" /\ UNCHANGED <<rows, audit, ever, failures>>
          /\ tasks' = [tasks EXCEPT ![c].step = "settled"]
       \/ tasks[c].outcome = "ok" /\ tx[c].open /\ Fail /\ UNCHANGED <<rows, audit, ever>>
          /\ tasks' = [tasks EXCEPT ![c].step = "settled", ![c].outcome = "failed"]
    /\ tx' = [tx EXCEPT ![c] = NoTx]
    /\ UNCHANGED <<dialect, hook, nextId, calls, seq>>

FactoryStep(c) ==
    \/ \E column \in Columns : Build(c, column)
    \/ Parent(c) \/ Insert(c) \/ Created(c) \/ Child(c) \/ Return(c)
    \/ Answered(c) \/ Settle(c)
    \/ \E job \in Jobs, atomic \in BOOLEAN : Start(c, job, atomic)

Next == \E c \in Callers : (CallStep(c) /\ UNCHANGED <<seq, tasks>>) \/ FactoryStep(c)

Spec == Init /\ [][Next]_vars

-----------------------------------------------------------------------------
JobSteps  == {"idle", "working", "settle", "settled"}
CallSteps == {"none", "before", "statement", "read back", "after", "done"}

\* A frame that inserts has a call in progress, a settled job holds nothing
\* back, and no two committed rows share a key or a label.
TypeOK ==
    /\ dialect \in Dialects /\ failures \in 0..MaxFailures
    /\ \A r, q \in rows : Clash(r, q) => r = q
    /\ \A c \in Callers :
         /\ tasks[c].step \in JobSteps /\ tasks[c].left \in 0..tasks[c].job.times
         /\ calls[c].step \in CallSteps
         /\ Working(c, "inserting") => calls[c].step # "none"
         /\ tasks[c].step \in {"idle", "settled"} => tx[c] = NoTx /\ tasks[c].stack = <<>>

\* INSERT IGNORE that skipped its row, read back by the key it did not write:
\* MySQL's one() answers the row that was in its way.
SkippedOnMysql(c) == dialect = "mysql" /\ calls[c].mod = "ignore" /\ calls[c].effect = {}

\* What a call answers, and what its after-hook is told, is what its own
\* statement did: one() answers the row it inserted, on MySQL by a key no
\* other insert can have taken, and an update or delete counts its rows
\* (mutate.rs, key_capture of emit/model.rs).
AnswersWhatItDid ==
  /\ TypeOK
  /\ \A c \in Callers :
      calls[c].step = "done" /\ calls[c].outcome = "ok" /\ ~SkippedOnMysql(c) =>
        /\ calls[c].kind = "insert" /\ calls[c].rows =>
             \E r \in calls[c].effect : \E a \in calls[c].answer :
                a.id = r.id /\ calls[c].answer = {a} /\ (dialect = "mysql" \/ calls[c].effect = {r})
        /\ calls[c].kind # "insert" =>
             /\ calls[c].told = Cardinality(calls[c].effect)
             /\ calls[c].rows => calls[c].answer = calls[c].effect

Plain(c) == tasks[c].job.call # <<>> => tasks[c].job.call[1].mod = "none"
Answering(c) == tasks[c].job.call # <<>> =>
    tasks[c].job.call[1].kind = "insert" /\ tasks[c].job.call[1].rows

\* What an after-hook wrote about a row stands exactly as long as the row:
\* never without it, and in a transaction never the row without it (hooks are
\* lent the executor of the call, mutate.rs:64-84).
HooksShareTheFate ==
    /\ \A e \in audit : Plain(e.by) =>
         \A id \in e.rows : \E x \in ever : x.by = e.by /\ x.row.table = e.table /\ x.row.id = id
    /\ \A x \in ever : tasks[x.by].atomic /\ Plain(x.by) /\ Answering(x.by) =>
         \E e \in audit : e.by = x.by /\ e.table = x.row.table /\ x.row.id \in e.rows

\* A job in atomic() leaves all of its rows or none, however many models,
\* parents and children it went through and wherever it failed.
AllOrNothing ==
    \A c \in Callers : tasks[c].step = "settled" /\ tasks[c].atomic =>
      LET kept == {x.row : x \in {y \in ever : y.by = c}}
      IN  IF tasks[c].outcome = "ok" THEN Range(tasks[c].made) \subseteq kept
          ELSE kept = {} /\ \A e \in audit : e.by # c

\* A child of a row, once built, carries that row's key.
ChildrenHangOff ==
    \A c \in Callers : \A i \in 2..Len(tasks[c].stack) :
      LET asker == tasks[c].stack[i - 1]
          child == tasks[c].stack[i]
      IN  asker.step = "children" /\ child.step \notin Columns => child.setter[3] = asker.id

Sequenced(tpl) ==
    /\ tpl.id.how = "auto" /\ tpl.label.how = "auto"
    /\ tpl.parent.state \in {"none", "auto", "absent"} /\ tpl.children = <<>>

DrawnOnce == \A t \in Tables : IsInjective(seq[t].drawn)

\* "In-process, values never repeat" (sequence.rs:21): no value is drawn
\* twice, and as long as factories keep to their sequences none is refused.
SequencesKeepApart ==
    /\ DrawnOnce
    /\ (\A c \in Callers : tasks[c].job.template # <<>> /\ Sequenced(tasks[c].job.template[1])) =>
         \A c \in Callers : tasks[c].outcome \notin {"duplicate", "null", "no parent"}

============================================================================
