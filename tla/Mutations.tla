------------------------------ MODULE Mutations ------------------------------
(***************************************************************************)
(* Inserts, updates and deletes through a model (mutate.rs, and the MySQL   *)
(* surface the generator writes instead of it): a before-hook that may      *)
(* rewrite the setter, the statement, on MySQL the read-back by key, and    *)
(* the after-hook, all on the executor the caller passed -- a pool, where   *)
(* every statement commits by itself, or a transaction.                     *)
(*                                                                          *)
(* A row is an id, a unique nullable label and a foreign key; the           *)
(* after-hook writes an audit entry through the executor it is lent.        *)
(***************************************************************************)
EXTENDS Integers, SequencesExt, FiniteSets

CONSTANTS
    Callers,
    Tables,
    Refers,        \* table -> [to, required]; to = table itself when it has no foreign key
    Existing,      \* the rows there from the start
    Dialects,
    MaxFailures    \* bound: hooks, statements and commits that fail

ASSUME FailuresAssumption == MaxFailures \in Nat
ASSUME RefersAssumption   == \A t \in Tables : Refers[t].to \in Tables

VARIABLES
    dialect, hook,   \* what the hook of every model does to the setter
    rows, audit,     \* what is committed
    nextId,
    tx,              \* caller -> what its transaction has not committed yet
    calls,           \* caller -> the model call it is in
    ever,            \* every row committed, with whose it was
    failures
database == <<rows, audit, nextId, tx, ever>>
mutationVars == <<dialect, hook, rows, audit, nextId, tx, calls, ever, failures>>

Unset == -1
Null  == 0
Row(t, id, label, parent) == [table |-> t, id |-> id, label |-> label, parent |-> parent]
HasParent(t) == Refers[t].to # t
Required(t)  == HasParent(t) /\ Refers[t].required
Only(set)    == CHOOSE x \in set : TRUE

NoTx   == [open |-> FALSE, added |-> {}, removed |-> {}, audit |-> {}]
NoCall == [step |-> "none", kind |-> "insert", rows |-> FALSE, table |-> "", where |-> {}, mod |-> "none",
           setter |-> <<Unset, Unset, Unset>>, key |-> Unset, effect |-> {}, told |-> -1,
           answer |-> {}, outcome |-> "none"]

\* insert, update, delete of ModelTable, with the verb that will run them.
Call(kind, answers, t, setter, where, mod) ==
    [NoCall EXCEPT !.step = "before", !.kind = kind, !.rows = answers, !.table = t,
                   !.setter = setter, !.where = where, !.mod = mod]

Kinds == {"insert", "update", "delete"}
IsCall(call) ==
    /\ call.kind \in Kinds /\ call.rows \in BOOLEAN
    /\ call = Call(call.kind, call.rows, call.table, call.setter, call.where, call.mod)

InitMutations ==
    /\ dialect \in Dialects /\ hook \in {"sets the label", "sets the id"}
    /\ rows = Existing /\ audit = {}
    /\ nextId = [t \in Tables |-> Cardinality({r \in Existing : r.table = t}) + 1]
    /\ tx = [c \in Callers |-> NoTx] /\ calls = [c \in Callers |-> NoCall]
    /\ ever = {} /\ failures = 0

-----------------------------------------------------------------------------
\* The engine: each caller's view, what refuses a statement, what it waits for.

View(c)   == (rows \ tx[c].removed) \cup tx[c].added
Others(c) == UNION {tx[d].added : d \in Callers \ {c}}
Held(c)   == UNION {tx[d].removed : d \in Callers \ {c}}

Clash(r, q)   == r.table = q.table /\ (r.id = q.id \/ (r.label # Null /\ r.label = q.label))
PointsAt(r, q) == HasParent(r.table) /\ q.table = Refers[r.table].to /\ r.parent = q.id

\* The rows there from the start keep the constraints on keys.
ASSUME ExistingAssumption == \A r, q \in Existing : Clash(r, q) => r = q

Refusal(c, new, old) ==
    LET rest == View(c) \ old
    IN  CASE \/ \E r \in new : \E q \in rest \cup (new \ {r}) : Clash(r, q)
             \/ old # {} /\ new # {} /\ Cardinality(new) < Cardinality(old) -> "duplicate"
          [] \E r \in new : Required(r.table) /\ r.parent = Null -> "null"
          [] \E r \in new : HasParent(r.table) /\ r.parent # Null
                            /\ \A q \in rest \cup new : ~PointsAt(r, q) -> "no parent"
          [] \E r \in rest, q \in old : PointsAt(r, q) /\ \A n \in new : n.id # q.id -> "referenced"
          [] OTHER -> "none"

Waits(c, new, old) ==
    \/ \E r \in new, q \in Others(c) : Clash(r, q)
    \/ old \cap Held(c) # {}
    \/ \E r \in new, q \in Held(c) : PointsAt(r, q)
    \/ \E r \in Others(c), q \in old : PointsAt(r, q)

\* On a pool a statement commits by itself.
Write(c, new, old) ==
    IF tx[c].open
    THEN /\ tx' = [tx EXCEPT ![c].added = (@ \ old) \cup new,
                             ![c].removed = @ \cup (old \cap rows)]
         /\ UNCHANGED <<rows, ever>>
    ELSE /\ rows' = (rows \ old) \cup new
         /\ ever' = ever \cup {[by |-> c, row |-> r] : r \in new}
         /\ UNCHANGED tx

-----------------------------------------------------------------------------
\* The statements.

\* An unset field stays out of the statement: the engine assigns the key,
\* the label and the foreign key default to NULL.
Value(set) == IF set = Unset THEN Null ELSE set

\* Set::push_into for every column, and the deferred mods of with().
Inserted(c) ==
    LET call == calls[c]
        id   == IF call.setter[1] = Unset THEN nextId[call.table] ELSE call.setter[1]
        first == Row(call.table, id, Value(call.setter[2]), Value(call.setter[3]))
    IN  {first} \cup IF call.mod = "another row" THEN {[first EXCEPT !.id = id + 1, !.label = Null]} ELSE {}

Matched(c) == {r \in View(c) : r.table = calls[c].table /\ r.id \in calls[c].where}

\* apply_setter: only what is set.
Assign(set, value) == IF set = Unset THEN value ELSE set
Updated(c) ==
    LET set == calls[c].setter
    IN  {Row(r.table, Assign(set[1], r.id), Assign(set[2], r.label), Assign(set[3], r.parent)) : r \in Matched(c)}

New(c) == CASE calls[c].kind = "insert" -> Inserted(c)
            [] calls[c].kind = "update" -> Updated(c)
            [] calls[c].kind = "delete" -> {}
Old(c) == IF calls[c].kind = "insert" THEN {} ELSE Matched(c)
Effect(c) == IF calls[c].kind = "delete" THEN Old(c) ELSE New(c)

\* The counter of the key column moves when it is asked, and on MySQL and
\* SQLite past an explicit key.
Assigned(c) ==
    LET call == calls[c]
        ids  == {r.id : r \in Inserted(c)}
        past == (CHOOSE m \in ids : \A i \in ids : i <= m) + 1
    IN  IF call.kind = "insert" /\ (call.setter[1] = Unset \/ (dialect # "psql" /\ past > nextId[call.table]))
        THEN [nextId EXCEPT ![call.table] = past] ELSE nextId

Incomplete(c) == calls[c].kind = "update" /\ calls[c].setter = <<Unset, Unset, Unset>>

-----------------------------------------------------------------------------
Fail == failures < MaxFailures /\ failures' = failures + 1
Ends(c, outcome) == calls' = [calls EXCEPT ![c].step = "done", ![c].outcome = outcome]

HookId    == 40
HookLabel == 60
Rewritten(c) ==
    LET s == calls[c].setter
    IN  CASE hook = "sets the label" /\ calls[c].kind # "delete" /\ s[2] = Unset -> <<s[1], HookLabel, s[3]>>
          [] hook = "sets the id" /\ calls[c].kind = "insert" /\ s[1] = Unset -> <<HookId, s[2], s[3]>>
          [] OTHER -> s

\* Mutant: the MySQL surface takes the key before the hook has its say.
BeforeHookLate(c) ==
    /\ calls[c].step = "before"
    /\ \/ /\ calls' = [calls EXCEPT ![c].step = "statement", ![c].setter = Rewritten(c),
                                    ![c].key = calls[c].setter[1]]
          /\ UNCHANGED failures
       \/ Fail /\ Ends(c, "failed")
    /\ UNCHANGED <<dialect, hook, database>>

\* before_insert, before_update, before_delete, then the statement is built;
\* the MySQL surface takes the key out of the setter in between.
BeforeHook(c) ==
    /\ calls[c].step = "before"
    /\ \/ /\ calls' = [calls EXCEPT ![c].step = "statement", ![c].setter = Rewritten(c),
                                    ![c].key = Rewritten(c)[1]]
          /\ UNCHANGED failures
       \/ Fail /\ Ends(c, "failed")
    /\ UNCHANGED <<dialect, hook, database>>

ByReadBack(c) == calls[c].kind = "insert" /\ calls[c].rows /\ dialect = "mysql"

\* What the statement answers: its rows (RETURNING), or how many it changed
\* and the first key it generated.
AfterStatement(c, effect) ==
    LET call      == calls[c]
        one       == call.kind = "insert" /\ call.rows
        generated == IF effect = {} THEN Unset ELSE nextId[call.table]
        answered(step, outcome) ==
            [call EXCEPT !.effect = effect, !.step = step, !.outcome = outcome,
                         !.key = IF @ = Unset THEN generated ELSE @,
                         !.answer = IF call.rows /\ ~ByReadBack(c) THEN effect ELSE {},
                         !.told = IF call.kind = "insert" /\ ~one THEN 0 ELSE Cardinality(effect)]
    IN  calls' = [calls EXCEPT ![c] =
            IF ByReadBack(c)
            THEN IF answered("", "").key = Unset THEN answered("done", "no key")
                 ELSE answered("read back", "none")
            ELSE IF one /\ effect = {} THEN answered("done", "row not found")
            ELSE IF one /\ Cardinality(effect) > 1 THEN answered("done", "too many rows")
            ELSE answered("after", "none")]

\* execute or fetch_rows, then the decoding of what came back.
Statement(c) ==
    LET refusal == Refusal(c, New(c), Old(c))
        skipped == calls[c].mod = "ignore" /\ refusal = "duplicate"
    IN  /\ calls[c].step = "statement" /\ ~Incomplete(c) /\ ~Waits(c, New(c), Old(c))
        /\ nextId' = Assigned(c)
        /\ \/ /\ refusal # "none"
              /\ IF skipped THEN AfterStatement(c, {}) ELSE Ends(c, refusal)
              /\ UNCHANGED <<rows, tx, ever, failures>>
           \/ refusal = "none" /\ Write(c, New(c), Old(c)) /\ AfterStatement(c, Effect(c)) /\ UNCHANGED failures
           \/ refusal = "none" /\ Write(c, New(c), Old(c)) /\ Fail /\ Ends(c, "failed")
        /\ UNCHANGED <<dialect, hook, audit>>

\* Nothing to set is an error of the rendering; a connection may fail, and an
\* engine gives up on a lock.
StatementFails(c) ==
    /\ calls[c].step = "statement"
    /\ \/ Incomplete(c) /\ Ends(c, "incomplete") /\ UNCHANGED failures
       \/ ~Incomplete(c) /\ Waits(c, New(c), Old(c)) /\ Ends(c, "lock timeout") /\ UNCHANGED failures
       \/ ~Incomplete(c) /\ Fail /\ Ends(c, "failed")
    /\ UNCHANGED <<dialect, hook, database>>

\* by_pk: a statement of its own, in the caller's view when it runs.
ReadBack(c) ==
    LET found == {r \in View(c) : r.table = calls[c].table /\ r.id = calls[c].key}
    IN  /\ calls[c].step = "read back"
        /\ \/ /\ found # {} /\ UNCHANGED failures
              /\ calls' = [calls EXCEPT ![c].step = "after", ![c].answer = found, ![c].told = 1]
           \/ found = {} /\ Ends(c, "row not found") /\ UNCHANGED failures
           \/ Fail /\ Ends(c, "failed")
        /\ UNCHANGED <<dialect, hook, database>>

\* Mutant: the hook is lent the pool, whatever the call runs on.
AuditOnPool(c, entry) == audit' = audit \cup {entry} /\ UNCHANGED tx

\* What the hook writes goes where the call's own statement went.
Audit(c, entry) ==
    IF tx[c].open THEN tx' = [tx EXCEPT ![c].audit = @ \cup {entry}] /\ UNCHANGED audit
    ELSE audit' = audit \cup {entry} /\ UNCHANGED tx

\* after_insert, after_update, after_delete.
AfterHook(c) ==
    LET call == calls[c]
        entry == [by |-> c, table |-> call.table, kind |-> call.kind, told |-> call.told,
                  rows |-> IF call.kind = "insert" THEN {r.id : r \in call.answer} ELSE {}]
    IN  /\ call.step = "after"
        /\ \/ Audit(c, entry) /\ Ends(c, "ok") /\ UNCHANGED failures
           \/ Fail /\ Ends(c, "failed") /\ UNCHANGED <<audit, tx>>
        /\ UNCHANGED <<dialect, hook, rows, nextId, ever>>

CallStep(c) ==
    BeforeHook(c) \/ Statement(c) \/ StatementFails(c) \/ ReadBack(c) \/ AfterHook(c)

============================================================================
