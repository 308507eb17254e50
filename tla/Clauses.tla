------------------------------ MODULE Clauses ------------------------------
(***************************************************************************)
(* The clauses every dialect's statements are made of, and the mods that    *)
(* fill them.  Text is a sequence of words; a clause that is absent writes  *)
(* no words, and one that cannot be written records an error, which stands  *)
(* in the text as a word of Errors.  An expression, a name and a nested     *)
(* query are operands: words of their own.                                  *)
(***************************************************************************)
EXTENDS Naturals, Sequences, SequencesExt

Errors == {"Incomplete!", "ConflictingClauses!", "Other!"}
Incomplete  == <<"Incomplete!">>
Conflicting == <<"ConflictingClauses!">>
Other       == <<"Other!">>

\* SqlWriter::finish hands no SQL over once an error was recorded.
Refused(text) == \E i \in DOMAIN text : text[i] \in Errors

When(condition, words) == IF condition THEN words ELSE <<>>

\* A clause that was set, after its keyword.
After(keyword, words) == When(words # <<>>, <<keyword>> \o words)

WriteSlice(items, prefix, sep, suffix) ==
    When(items # <<>>,
         prefix \o FlattenSeq([i \in DOMAIN items |->
                                 When(i > 1, sep) \o items[i]]) \o suffix)

WritePresent(items, prefix, sep, suffix) ==
    WriteSlice(SelectSeq(items, LAMBDA words : words # <<>>), prefix, sep, suffix)

Commas(items) == WriteSlice(items, <<>>, <<",">>, <<>>)
Paren(items)  == WriteSlice(items, <<"(">>, <<",">>, <<")">>)
Listed(keyword, items)   == WriteSlice(items, <<keyword>>, <<",">>, <<>>)
Together(keyword, items) == WriteSlice(items, <<keyword>>, <<"AND">>, <<>>)
Spaced(items)            == WritePresent(items, <<>>, <<>>, <<>>)

-----------------------------------------------------------------------------
\* What a chain of builder calls leaves in a struct: its defaults, and the fields set.

Chain(default, fields) == [f \in DOMAIN default |->
                             IF f \in DOMAIN fields THEN fields[f] ELSE default[f]]

Untouched == [field \in {} |-> <<>>]      \* no call was made

NoTable == [expression |-> <<>>, only |-> FALSE, lateral |-> FALSE, ordinality |-> FALSE,
            partitions |-> <<>>, alias |-> <<>>, columns |-> <<>>, hints |-> <<>>,
            indexed |-> <<>>, joins |-> <<>>]

TableRef(expression, fields) ==
    Chain([NoTable EXCEPT !.expression = expression], fields)

WriteTable(t) ==
    When(t.expression # <<>>,
         When(t.only, <<"ONLY">>) \o When(t.lateral, <<"LATERAL">>)
         \o t.expression
         \o When(t.ordinality, <<"WITH ORDINALITY">>)
         \o After("PARTITION", Paren(t.partitions))
         \o After("AS", t.alias)
         \o Paren(t.columns)
         \o Spaced(t.hints)
         \o t.indexed
         \o Spaced(t.joins))

IndexHint(kind, indexes, for) ==
    <<kind, "INDEX">> \o After("FOR", for) \o <<"(">> \o Commas(indexes) \o <<")">>

TableFunctions(functions) ==
    IF Len(functions) > 1 THEN <<"ROWS FROM">> \o Paren(functions) ELSE Commas(functions)

NoJoin == [natural |-> FALSE, on |-> <<>>, using |-> <<>>, using_alias |-> <<>>]

WriteJoin(kind, to, j) ==
    When(to.expression # <<>>,
         When(j.natural, <<"NATURAL">>) \o <<kind>> \o WriteTable(to)
         \o Together("ON", j.on) \o After("USING", Paren(j.using))
         \o IF j.using_alias # <<>> /\ j.using = <<>> THEN Incomplete
            ELSE After("AS", j.using_alias))

NoCte == [columns |-> <<>>, materialized |-> <<>>, search |-> <<>>, cycle |-> <<>>]

WriteCte(name, query, c) ==
    IF query = <<>> THEN When(name # <<>>, Incomplete)
    ELSE name \o Paren(c.columns) \o <<"AS">> \o c.materialized
         \o <<"(">> \o query \o <<")">> \o c.search \o c.cycle

CteSearch(order, columns, set) ==
    When(columns # <<>>,
         IF set = <<>> THEN Incomplete
         ELSE <<"SEARCH", order, "FIRST BY">> \o Commas(columns) \o <<"SET">> \o set)

CteCycle(columns, set, using, to, default) ==
    When(columns # <<>>,
         IF set = <<>> \/ using = <<>> \/ (to = <<>>) # (default = <<>>) THEN Incomplete
         ELSE <<"CYCLE">> \o Commas(columns) \o <<"SET">> \o set \o After("TO", to)
              \o After("DEFAULT", default) \o <<"USING">> \o using)

WriteWith(q) ==
    WritePresent(q.with, IF q.recursive # <<>> THEN <<"WITH", "RECURSIVE">> ELSE <<"WITH">>,
                 <<",">>, <<>>)

WriteSelectList(q) ==
    IF q.columns \o q.preload = <<>> THEN <<"*">> ELSE Commas(q.columns \o q.preload)

WriteGroupBy(q) ==
    When(q.group # <<>>,
         <<"GROUP BY">> \o q.group_distinct \o Commas(q.group) \o After("WITH", q.group_with))

GroupingSet(kind, groups) == When(groups # <<>>, <<kind>> \o Paren(groups))

NoWindow == [based_on |-> <<>>, partition_by |-> <<>>, order |-> <<>>,
             mode |-> <<>>, start |-> <<>>, end |-> <<>>, exclusion |-> <<>>]

WriteFrame(f) ==
    When(<<>> # f.mode \o f.start \o f.end \o f.exclusion,
         (IF f.mode = <<>> THEN <<"RANGE">> ELSE f.mode)
         \o When(f.end # <<>>, <<"BETWEEN">>)
         \o (IF f.start = <<>> THEN <<"UNBOUNDED PRECEDING">> ELSE f.start)
         \o After("AND", f.end) \o After("EXCLUDE", f.exclusion))

WriteWindow(w) ==
    w.based_on \o Listed("PARTITION BY", w.partition_by) \o Listed("ORDER BY", w.order)
    \o WriteFrame(w)

NamedWindow(name, window) ==
    When(name # <<>>, name \o <<"AS", "(">> \o WriteWindow(window) \o <<")">>)

NoOrder == [collation |-> <<>>, direction |-> <<>>, nulls |-> <<>>]

WriteOrder(expression, o) ==
    When(expression # <<>>,
         expression \o After("COLLATE", o.collation) \o o.direction \o After("NULLS", o.nulls))

NoFetch == [with_ties |-> FALSE]

WriteFetch(count, f) ==
    When(count # <<>>, <<"FETCH NEXT">> \o count
                       \o IF f.with_ties THEN <<"ROWS", "WITH TIES">> ELSE <<"ROWS", "ONLY">>)

NoLock == [tables |-> <<>>, wait |-> <<>>]

WriteLock(strength, l) == <<"FOR", strength>> \o Listed("OF", l.tables) \o l.wait

WriteValues(q) ==
    IF q.query # <<>> THEN q.query ELSE WritePresent(q.rows, <<"VALUES">>, <<",">>, <<>>)

NoValues(q) == q.query = <<>> /\ q.rows = <<>>

ConflictTarget(constraint, columns, where) ==
    IF constraint # <<>> THEN <<"ON CONSTRAINT">> \o constraint
    ELSE IF columns = <<>> THEN When(where # <<>>, Incomplete)
    ELSE Paren(columns) \o Together("WHERE", where)

\* body: what the mods given to do_update filled in.
ConflictClause(target, action, body) ==
    IF action = "UPDATE" /\ body.set = <<>> THEN Incomplete
    ELSE <<"ON CONFLICT">> \o target \o <<"DO", action>>
         \o Listed("SET", body.set) \o Together("WHERE", body.where)

Combine(op, all, query) == <<op>> \o When(all, <<"ALL">>) \o <<"(">> \o query \o <<")">>

WriteCombines(q) ==
    LET tail == Listed("ORDER BY", q.combined_order) \o After("LIMIT", q.combined_limit)
                \o After("OFFSET", q.combined_offset) \o q.combined_fetch
    IN  IF q.combines = <<>> THEN When(tail # <<>>, Incomplete)
        ELSE IF q.combined_limit # <<>> /\ q.combined_fetch # <<>> THEN Conflicting
        ELSE Spaced(q.combines) \o tail

\* Mutant: the first query's tail is written bare.
LeadingBare(q, core, tail) == core \o tail

\* Combines::parenthesises_leading_query: a tail clause of the first query would
\* otherwise be read as the whole set operation's.
Leading(q, core, tail) ==
    IF q.combines # <<>> /\ tail # <<>> THEN <<"(">> \o core \o tail \o <<")">>
    ELSE core \o tail

\* Mutant: a list without a first item just goes unwritten.
WriteFromListUnchecked(keyword, first, rest) ==
    When(first.expression # <<>>,
         WritePresent(<<WriteTable(first)>> \o [i \in DOMAIN rest |-> WriteTable(rest[i])],
                      keyword, <<",">>, <<>>))

\* A list of from-items whose joins belong to the first; rest alone has nothing to follow.
WriteFromList(keyword, first, rest) ==
    LET tables == [i \in DOMAIN rest |-> WriteTable(rest[i])]
    IN  IF first.expression = <<>>
          THEN When(first.joins # <<>> \/ Spaced(tables) # <<>>, Incomplete)
          ELSE WritePresent(<<WriteTable(first)>> \o tables, keyword, <<",">>, <<>>)

-----------------------------------------------------------------------------
\* A statement being built: every clause any of them has.  joins_at names the
\* table its HasJoins leads to.

Options == {"recursive", "distinct", "overriding", "limit", "offset", "fetch", "query",
            "combined_limit", "combined_offset", "combined_fetch", "conflict", "row_alias",
            "group_distinct", "group_with", "lock_in_share_mode", "or_action"}
Lists   == {"with", "columns", "preload", "where", "group", "having", "windows", "order",
            "locks", "combines", "combined_order", "returning", "set", "rows", "on", "whens",
            "hints", "modifiers", "duplicate", "upserts", "partitions", "extra_tables",
            "delete_tables"}

New(joins_at) ==
    [field \in Options \cup Lists |-> <<>>]
    @@ [table_ref |-> NoTable, target_table |-> NoTable, joins_at |-> joins_at]

\* A mod is the edits it makes; a tuple, a Vec, an array or an Option of mods makes
\* those of its members from left to right.
Edit(at, how, with) == <<[at |-> at, how |-> how, with |-> with]>>
Put(at, words)      == Edit(at, "put", words)
Add(at, item)       == Edit(at, "add", item)
AddAll(at, items) == [i \in DOMAIN items |-> Add(at, items[i])[1]]

\* Mutant: the table replaces what was there.
PlacedOver(new, old) == new

\* FromSlot::place keeps the joins that were made before there was a table.
Placed(new, old) == [new EXCEPT !.joins = @ \o old.joins]

ApplyEdit(q, e) ==
    CASE e.how = "put"   -> [q EXCEPT ![e.at] = e.with]
      [] e.how = "add"   -> [q EXCEPT ![e.at] = Append(@, e.with)]
      [] e.how = "place" -> [q EXCEPT ![e.at] = Placed(e.with, @)]
      [] e.how = "join"  -> [q EXCEPT ![q.joins_at].joins = Append(@, e.with)]

\* q is a statement, or a part that takes mods of its own: a window, a conflict's body.
Apply(q, mod) == FoldLeft(ApplyEdit, q, mod)

=============================================================================
