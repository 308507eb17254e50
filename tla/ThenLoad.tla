------------------------------ MODULE ThenLoad ------------------------------
(***************************************************************************)
(* Relation loading: a model query's all(), its then-loads and the levels   *)
(* below them (keelson-models, select.rs and load.rs), over a table other   *)
(* sessions may write between two statements.                               *)
(*                                                                         *)
(* One table stands for all: its rows have a key column "id" and a nullable *)
(* column "ref", and a relation names the column it reads on each side, so  *)
(* tables that refer to one another are rows that do, and paths may run in  *)
(* circles.  Awaits nest; the frames of the futures in progress are a stack.*)
(***************************************************************************)
EXTENDS Naturals, Sequences, FiniteSets, SequencesExt

CONSTANTS
  Id,         \* the values of a key column
  Null,       \* of a nullable one
  Tables,     \* what the table may hold at first
  Levels,     \* the then-loads a path is made of, at any depth
  Queries,    \* the model queries: verb, rows selected, loaders
  MaxWrites   \* the rows other sessions write meanwhile

ASSUME IdAssumption    == Id \subseteq Nat /\ IsFiniteSet(Id) /\ Null \notin Id
ASSUME WriteAssumption == MaxWrites \in Nat
ASSUME TablesAssumption ==
    \A t \in Tables : DOMAIN t \subseteq Id /\ \A i \in DOMAIN t : t[i] \in Id \union {Null}

VARIABLES
  table,     \* id -> ref, of the rows that exist
  query,     \* the query being run
  stack,     \* its frames, the innermost first
  asked,     \* the keyed statements run so far (history)
  again,     \* those that were run again (history)
  result,    \* the models returned
  outcome,   \* of the verb
  writes     \* rows written by others

vars == <<table, query, stack, asked, again, result, outcome, writes>>

Columns == {"id", "ref"}

\* struct Relation, with the cardinality of its Attach.
Relation == [parent : Columns, child : Columns, many : BOOLEAN]

\* A batch of no keys is refused where it is set (ThenLoad::batch asserts it).
ASSUME LevelsAssumption ==
    \A l \in Levels : l.rel \in Relation /\ l.batch \in Nat \ {0} /\ l.then \in Seq(Levels)
ASSUME QueriesAssumption ==
    \A q \in Queries : q.rows \in Seq(Id) /\ q.loaders \in Seq(Levels)

\* struct ThenLoad: keep is what its shapes leave in the child query.
Level(rel, batch, keep, then) ==
    [rel |-> rel, batch |-> batch, keep |-> keep, then |-> then]

\* A decoded model: its columns, its rel fields, and what each after_select that
\* saw it found in them (history).
Model(id) == [id |-> id, ref |-> table[id], rel |-> [r \in {} |-> <<>>], seen |-> <<>>]

(* Frames: ModelSelect::all of a query, and ThenLoad::run of a level.       *)
All(path, from, loaders) ==
    [is |-> "all", at |-> "hooks", path |-> path, from |-> from,
     rows |-> <<>>, loaders |-> loaders, done |-> 0]
Run(path, level, parents, chunks) ==
    [is |-> "run", at |-> "chunks", path |-> path, level |-> level,
     rows |-> parents, chunks |-> chunks, children |-> <<>>, done |-> 0]

-----------------------------------------------------------------------------
(* The pure parts of load.rs.                                              *)

Keys(rows, column) == [i \in DOMAIN rows |-> rows[i][column]]

\* A finite set of numbers in order: the n-th has n - 1 below it.
Sorted(S) == [n \in 1 .. Cardinality(S) |-> CHOOSE k \in S : Cardinality({j \in S : j < k}) = n - 1]

\* distinct, after the NULLs are filtered out: sorted, each once.  Mutant: not
\* deduplicated.
DistinctRepeated(keys) == SortSeq(SelectSeq(keys, LAMBDA k : k # Null), <)
Distinct(keys) == Sorted(ToSet(keys) \ {Null})

\* slice::chunks.  Mutant: a last chunk that is not full is lost.
ChunksWhole(keys, n) ==
    [c \in 1 .. Len(keys) \div n |-> SubSeq(keys, (c - 1) * n + 1, c * n)]
Chunks(keys, n) ==
    [c \in 1 .. (Len(keys) + n - 1) \div n |->
       SubSeq(keys, (c - 1) * n + 1, IF c * n < Len(keys) THEN c * n ELSE Len(keys))]

\* The rows a keyed child query finds.
Matching(from) ==
    {i \in DOMAIN table : i \in from.keep /\ Model(i)[from.column] \in ToSet(from.keys)}

\* The children with a key, in the order they were collected.
With(key, children, column) ==
    LET places == Sorted({i \in DOMAIN children : children[i][column] = key})
    IN  [n \in DOMAIN places |-> children[places[n]]]

\* attach_to_one: of the children with a parent's key, the last one collected.
\* Mutant: children are taken in the order of their parents.
AttachOneInOrder(parents, children, rel) ==
    [i \in DOMAIN parents |-> IF i \in DOMAIN children THEN <<children[i]>> ELSE <<>>]
AttachOne(parents, children, rel) ==
    [i \in DOMAIN parents |->
       LET own == With(parents[i][rel.parent], children, rel.child)
       IN  IF own = <<>> THEN <<>> ELSE <<Last(own)>>]

\* attach_to_many: the first parent with a key takes its children out of the map.
AttachMany(parents, children, rel) ==
    [i \in DOMAIN parents |->
       IF \E j \in 1 .. i - 1 : parents[j][rel.parent] = parents[i][rel.parent] THEN <<>>
       ELSE With(parents[i][rel.parent], children, rel.child)]

\* The end of ThenLoad::run.
Attached(parents, children, rel) ==
    LET own == IF rel.many THEN AttachMany(parents, children, rel)
               ELSE AttachOne(parents, children, rel)
    IN  [i \in DOMAIN parents |->
           [parents[i] EXCEPT !.rel =
              [r \in DOMAIN parents[i].rel \union {rel} |->
                 IF r = rel THEN own[i] ELSE parents[i].rel[r]]]]

\* View::after_select over every row of a query.
Hooked(rows) ==
    [i \in DOMAIN rows |-> [rows[i] EXCEPT !.seen = Append(@, DOMAIN rows[i].rel)]]

-----------------------------------------------------------------------------

Init ==
    /\ table \in Tables
    /\ query \in Queries
    /\ stack = <<All(<<>>, query.rows, query.loaders)>>
    /\ asked = {} /\ again = {}
    /\ result = <<>>
    /\ outcome = "running"
    /\ writes = 0

Top == Head(stack)
In(frame, at) == stack # <<>> /\ Top.is = frame /\ Top.at = at
Replace(frame) == stack' = <<frame>> \o Tail(stack)
history == <<asked, again>>
ended == <<result, outcome>>

\* The verb's own test of how many rows there are, once all of them are loaded.
Verdict(rows) ==
    CASE query.verb = "all" -> "ok"
      [] Len(rows) > 1      -> "too_many_rows"
      [] query.verb = "one" /\ rows = <<>> -> "row_not_found"
      [] OTHER              -> "ok"

\* all(): the query's own hooks come first.
RunHooks ==
    /\ In("all", "hooks")
    /\ Replace([Top EXCEPT !.at = "statement"])
    /\ UNCHANGED <<table, query, history, ended, writes>>

\* The caller's statement: its rows may repeat a model.
Select ==
    /\ In("all", "statement") /\ Top.path = <<>>
    /\ LET found == Sorted({k \in DOMAIN Top.from : Top.from[k] \in DOMAIN table})
       IN  Replace([Top EXCEPT !.at = "load",
                               !.rows = [n \in DOMAIN found |-> Model(Top.from[found[n]])]])
    /\ UNCHANGED <<table, query, history, ended, writes>>

\* A keyed statement of a level: the rows of one moment, in any order.
SelectKeyed ==
    /\ In("all", "statement") /\ Top.path # <<>>
    /\ LET q == [path |-> Top.path, keys |-> Top.from.keys, batch |-> stack[2].level.batch]
       IN  asked' = asked \union {q} /\ again' = again \union (asked \intersect {q})
    /\ \E ids \in SetToSeqs(Matching(Top.from)) :
         Replace([Top EXCEPT !.at = "load", !.rows = [k \in DOMAIN ids |-> Model(ids[k])]])
    /\ UNCHANGED <<table, query, ended, writes>>

\* A level over rows; with no key among them it returns at once.
Enter(frame, path, level, rows) ==
    LET keys == Distinct(Keys(rows, level.rel.parent))
    IN  stack' = (IF keys = <<>> THEN <<frame>>
                  ELSE <<Run(path, level, rows, Chunks(keys, level.batch)), frame>>)
                   \o Tail(stack)

\* all(): the loaders, one after the other.
RunLoader ==
    /\ In("all", "load") /\ Top.done < Len(Top.loaders)
    /\ LET n == Top.done + 1
       IN  Enter([Top EXCEPT !.done = n], Append(Top.path, n), Top.loaders[n], Top.rows)
    /\ UNCHANGED <<table, query, history, ended, writes>>

\* A batch's models are appended to the level's children.  Mutant: the level runs
\* the hook once more over what it has.
ExtendHooked(children, rows) == Hooked(children \o rows)
Extend(children, rows) == children \o rows

\* all(): after_select, and the models go to whoever asked for them.
AfterSelect ==
    /\ In("all", "load") /\ Top.done = Len(Top.loaders)
    /\ LET rows == Hooked(Top.rows)
       IN  IF Len(stack) = 1
             THEN /\ stack' = <<>>
                  /\ outcome' = Verdict(rows)
                  /\ result' = IF Verdict(rows) = "ok" THEN rows ELSE <<>>
             ELSE /\ stack' = <<[stack[2] EXCEPT !.children = Extend(@, rows)]>>
                                \o SubSeq(stack, 3, Len(stack))
                  /\ UNCHANGED ended
    /\ UNCHANGED <<table, query, history, writes>>

\* run: one query per chunk.
RunBatch ==
    /\ In("run", "chunks") /\ Top.chunks # <<>>
    /\ LET l == Top.level
           from == [keys |-> Head(Top.chunks), column |-> l.rel.child, keep |-> l.keep]
       IN  stack' = <<All(Top.path, from, <<>>), [Top EXCEPT !.chunks = Tail(@)]>> \o Tail(stack)
    /\ UNCHANGED <<table, query, history, ended, writes>>

\* Which nested level comes next.  Mutant: the same one again.
AdvanceNot(done) == done
Advance(done) == done + 1

\* run: the deeper levels, over all of this level's children.
LoadDeeper ==
    /\ In("run", "chunks") /\ Top.chunks = <<>> /\ Top.done < Len(Top.level.then)
    /\ LET n == Top.done + 1
       IN  Enter([Top EXCEPT !.done = Advance(@)], Append(Top.path, n),
                 Top.level.then[n], Top.children)
    /\ UNCHANGED <<table, query, history, ended, writes>>

\* run: the children go onto their parents, which are the models of the query or
\* the children of the level below in the stack.
AttachChildren ==
    /\ In("run", "chunks") /\ Top.chunks = <<>> /\ Top.done = Len(Top.level.then)
    /\ LET parents == Attached(Top.rows, Top.children, Top.level.rel)
           below == IF stack[2].is = "all" THEN [stack[2] EXCEPT !.rows = parents]
                    ELSE [stack[2] EXCEPT !.children = parents]
       IN  stack' = <<below>> \o SubSeq(stack, 3, Len(stack))
    /\ UNCHANGED <<table, query, history, ended, writes>>

\* A hook, a statement or the decoding of a row fails: `?` ends every frame.
Fail ==
    /\ stack # <<>> /\ Top.is = "all"
    /\ stack' = <<>>
    /\ outcome' = "error"
    /\ UNCHANGED <<table, query, history, result, writes>>

\* Another session commits a write of one row.
WriteElsewhere ==
    /\ outcome = "running" /\ writes < MaxWrites
    /\ \E i \in Id :
         \/ \E ref \in Id \union {Null} :
              table' = [k \in DOMAIN table \union {i} |-> IF k = i THEN ref ELSE table[k]]
         \/ table' = [k \in DOMAIN table \ {i} |-> table[k]]
    /\ writes' = writes + 1
    /\ UNCHANGED <<query, stack, history, ended>>

Returned == outcome # "running" /\ UNCHANGED vars

Step ==
    \/ RunHooks \/ Select \/ SelectKeyed \/ RunLoader \/ AfterSelect
    \/ RunBatch \/ LoadDeeper \/ AttachChildren

Next == Step \/ Fail \/ WriteElsewhere \/ Returned

Spec == Init /\ [][Next]_vars

\* The caller polls the future, and the executor answers.
FairSpec == Spec /\ WF_vars(Step)

-----------------------------------------------------------------------------
(* Properties.                                                             *)

Outcomes == {"running", "ok", "too_many_rows", "row_not_found", "error"}

\* The rows in hand in a frame.
Held(frame) == frame.rows \o (IF frame.is = "run" THEN frame.children ELSE <<>>)
Holdings == {result} \union {Held(stack[f]) : f \in DOMAIN stack}

IsModel(m) ==
    /\ m.id \in Id /\ m.ref \in Id \union {Null}
    /\ \A r \in DOMAIN m.rel : r \in Relation /\ (~r.many => Len(m.rel[r]) <= 1)

TypeOK ==
    /\ DOMAIN table \subseteq Id /\ \A i \in DOMAIN table : table[i] \in Id \union {Null}
    /\ \A rows \in Holdings : \A i \in DOMAIN rows : IsModel(rows[i])
    /\ outcome \in Outcomes
    /\ writes \in 0 .. MaxWrites

\* A child is found under a parent only if their keys are equal, at every level and
\* whatever is written meanwhile; a NULL matches nothing, on either side.
AttachedByKey ==
  /\ TypeOK
  /\ \A rows \in Holdings : \A i \in DOMAIN rows : \A r \in DOMAIN rows[i].rel :
      \A c \in ToSet(rows[i].rel[r]) :
        rows[i][r.parent] = c[r.child] /\ c[r.child] # Null

\* One batched query per level and per batch of distinct keys, never one per parent
\* (load.rs, the decisions recorded): the statements of a level ask for each key
\* once, and are as few as its batch size allows.
AskedAt(path) == {q \in asked : q.path = path}

FewestQueries ==
    /\ again = {}
    /\ \A q1, q2 \in asked :
         q1 # q2 /\ q1.path = q2.path => ToSet(q1.keys) \intersect ToSet(q2.keys) = {}
    /\ \A q \in asked :
         LET all == AskedAt(q.path)
             keys == UNION {ToSet(other.keys) : other \in all}
         IN  Len(q.keys) <= q.batch
               /\ (stack = <<>> /\ outcome # "error" =>
                     Cardinality(all) = (Cardinality(keys) + q.batch - 1) \div q.batch)

\* after_select sees each model once: the models of a level before anything is
\* loaded onto them, those of the query itself after everything is (select.rs, all;
\* load.rs, "Ordering within a level").
RootRelations == {query.loaders[n].rel : n \in DOMAIN query.loaders}
HookedOnceInOrder ==
    /\ \A i \in DOMAIN result :
         Len(result[i].seen) = 1 /\ result[i].seen[1] = DOMAIN result[i].rel
    /\ \A rows \in Holdings : \A i \in DOMAIN rows : \A r \in DOMAIN rows[i].rel :
         \A c \in ToSet(rows[i].rel[r]) : c.seen = <<{}>>

\* The query ends: a path is as long as it was written, whatever circles the rows
\* make (load.rs, "Cycles terminate").
Terminates == <>(outcome # "running")
=============================================================================
