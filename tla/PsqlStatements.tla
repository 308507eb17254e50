--------------------------- MODULE PsqlStatements ---------------------------
(***************************************************************************)
(* PostgreSQL: the mods (shared.rs and the modules that re-export it under  *)
(* the names of each statement) and the statements they fill.  A chain of   *)
(* builder calls is its starter's arguments and the fields the calls set.   *)
(***************************************************************************)
EXTENDS Clauses

With(name, query, fields) == Add("with", WriteCte(name, query, Chain(NoCte, fields)))
SearchBreadth(set, columns) == CteSearch("BREADTH", columns, set)
SearchDepth(set, columns)   == CteSearch("DEPTH", columns, set)

\* cycle after cycle_value keeps the two values.
Cycle(set, using, columns, to, default) == CteCycle(columns, set, using, to, default)

Recursive(yes)        == Put("recursive", When(yes, <<"RECURSIVE">>))
Columns(exprs)        == AddAll("columns", exprs)
PreloadColumns(exprs) == AddAll("preload", exprs)

-----------------------------------------------------------------------------
\* Tables.  bare: the expression is a plain name.

LateralTable(expression, bare) == When(bare, Other) \o expression

SampledTable(t, method, args, seed) ==
    t.expression \o After("AS", t.alias) \o Paren(t.columns)
    \o <<"TABLESAMPLE", method, "(">> \o Commas(args) \o <<")">>
    \o When(seed # <<>>, <<"REPEATABLE", "(">> \o seed \o <<")">>)

\* The sample is written inside the table's expression, so the alias goes there too.
FinishTable(t, method, args, seed) ==
    [t EXCEPT !.expression = SampledTable(t, method, args, seed),
              !.alias = <<>>, !.columns = <<>>]

FromItem(table)      == Edit("table_ref", "place", table)
TargetTable(table)   == Edit("target_table", "put", table)
ExtraFromItem(table) == Add("extra_tables", table)

FromFunctions(functions) ==
    TableRef(IF functions = <<>> THEN Incomplete ELSE TableFunctions(functions), Untouched)

JoinMod(kind, to, fields) == Edit("joins", "join", WriteJoin(kind, to, Chain(NoJoin, fields)))
InnerJoin(to, fields) == JoinMod("INNER JOIN", to, fields)
LeftJoin(to, fields)  == JoinMod("LEFT JOIN", to, fields)
RightJoin(to, fields) == JoinMod("RIGHT JOIN", to, fields)
FullJoin(to, fields)  == JoinMod("FULL JOIN", to, fields)
CrossJoin(to)         == JoinMod("CROSS JOIN", to, Untouched)

\* TableChain<ExtraSlot>::join: the join of a table other than the first.
WithJoin(table, kind, to, fields) ==
    [table EXCEPT !.joins = Append(@, WriteJoin(kind, to, Chain(NoJoin, fields)))]

-----------------------------------------------------------------------------

Where(condition)        == Add("where", condition)
WhereCurrentOf(cursor)  == Add("where", <<"CURRENT OF">> \o cursor)
Having(condition)       == Add("having", condition)
GroupBy(group)          == Add("group", group)
GroupByDistinct(yes)    == Put("group_distinct", When(yes, <<"DISTINCT">>))
GroupingElement(kind, groups) ==
    IF groups = <<>> THEN Incomplete ELSE GroupingSet(kind, groups)
NamedWindowMod(name, definition) ==
    Add("windows", NamedWindow(name, Apply(NoWindow, definition)))

OrderBy(expression, fields) == Add("order", WriteOrder(expression, Chain(NoOrder, fields)))
OrderByCombined(expression, fields) ==
    Add("combined_order", WriteOrder(expression, Chain(NoOrder, fields)))

Limit(count)          == Put("limit", count)
LimitAll              == Put("limit", <<"ALL">>)
Offset(start)         == Put("offset", start)
LimitCombined(count)  == Put("combined_limit", count)
OffsetCombined(start) == Put("combined_offset", start)
Fetch(count, fields)  == Put("fetch", WriteFetch(count, Chain(NoFetch, fields)))
FetchCombined(count, fields) ==
    Put("combined_fetch", WriteFetch(count, Chain(NoFetch, fields)))
For(strength, fields) == Add("locks", WriteLock(strength, Chain(NoLock, fields)))

SetOperation(op, all, query) == Add("combines", Combine(op, all, query))

Returning(exprs) == AddAll("returning", exprs)
SetTo(column, value) == Add("set", column \o <<"=">> \o value)
SetExcluded(columns) ==
    AddAll("set", [i \in DOMAIN columns |-> columns[i] \o <<"=", "EXCLUDED.">> \o columns[i]])

\* Values::append_values ignores an empty row.
Values(row) == When(row # <<>>, Add("rows", Paren(row)))
Rows(rows)  == FlattenSeq([i \in DOMAIN rows |-> Values(rows[i])])
ValuesFromQuery(query) == Put("query", query) \o Put("rows", <<>>)

OnConflict(columns, where)          == ConflictTarget(<<>>, columns, where)
OnConflictOnConstraint(name, where) == ConflictTarget(name, <<>>, where)
DoNothing(target)      == Put("conflict", ConflictClause(target, "NOTHING", [set |-> <<>>, where |-> <<>>]))
DoUpdate(target, body) ==
    Put("conflict", ConflictClause(target, "UPDATE", Apply([set |-> <<>>, where |-> <<>>], body)))

Distinct(on)        == Put("distinct", <<"DISTINCT">> \o After("ON", Paren(on)))
OverridingMod(which) == Put("overriding", <<"OVERRIDING", which, "VALUE">>)

-----------------------------------------------------------------------------
\* Windows and functions.

BasedOn(name)      == Put("based_on", name)
PartitionBy(exprs) == AddAll("partition_by", exprs)
Mode(mode)         == Put("mode", <<mode>>)
Start(bound)       == Put("start", bound)
End(bound)         == Put("end", bound)
Exclude(what)      == Put("exclusion", <<what>>)

NoFunction == [distinct |-> FALSE, order |-> <<>>, within_group |-> FALSE, filter |-> <<>>,
               over |-> <<>>]

\* over: a window's name, or a definition in parentheses.
Function(name, args, fields) ==
    LET f == Chain(NoFunction, fields)
    IN  IF name = <<>> THEN Incomplete
        ELSE name \o <<"(">> \o When(f.distinct, <<"DISTINCT">>) \o Commas(args)
             \o When(~f.within_group /\ args # <<>>, Listed("ORDER BY", f.order))
             \o <<")">>
             \o When(f.within_group /\ f.order # <<>>,
                     <<"WITHIN GROUP", "(">> \o Listed("ORDER BY", f.order) \o <<")">>)
             \o When(f.filter # <<>>, <<"FILTER", "(">> \o Together("WHERE", f.filter) \o <<")">>)
             \o After("OVER", f.over)

Definition(mods) == <<"(">> \o WriteWindow(Apply(NoWindow, mods)) \o <<")">>

TableFunction(function, alias, columns) ==
    function \o When(alias # <<>> \/ columns # <<>>, <<"AS">>) \o alias \o Paren(columns)

-----------------------------------------------------------------------------
\* MERGE.

On(condition) == Add("on", condition)

MergeWhen(kind, conditions, action) ==
    Add("whens", <<kind>> \o WriteSlice(conditions, <<"AND">>, <<"AND">>, <<>>)
                 \o <<"THEN">> \o action)

ThenUpdate(body) ==
    LET set == Apply([set |-> <<>>], body).set
    IN  IF set = <<>> THEN Incomplete ELSE <<"UPDATE">> \o Listed("SET", set)

ThenInsert(columns, overriding, row) ==
    <<"INSERT">> \o Paren(columns)
    \o When(overriding # <<>>, <<"OVERRIDING">> \o overriding \o <<"VALUE">>)
    \o IF row = <<>> THEN <<"DEFAULT VALUES">> ELSE After("VALUES", Paren(row))

-----------------------------------------------------------------------------
\* The statements.

TailClauses(q) == Listed("ORDER BY", q.order) \o After("LIMIT", q.limit) \o After("OFFSET", q.offset)
           \o q.fetch \o Spaced(q.locks)

Select(q) ==
    IF q.limit # <<>> /\ q.fetch # <<>> THEN Conflicting
    ELSE WriteWith(q)
         \o Leading(q, <<"SELECT">> \o q.distinct \o WriteSelectList(q)
                       \o WriteFromList(<<"FROM">>, q.table_ref, q.extra_tables)
                       \o Together("WHERE", q.where) \o WriteGroupBy(q)
                       \o Together("HAVING", q.having) \o Listed("WINDOW", q.windows),
                    TailClauses(q))
         \o WriteCombines(q)

Table(q) ==
    IF q.limit # <<>> /\ q.fetch # <<>> THEN Conflicting
    ELSE IF q.table_ref.expression = <<>> THEN Incomplete
    ELSE WriteWith(q) \o Leading(q, <<"TABLE">> \o WriteTable(q.table_ref), TailClauses(q))
         \o WriteCombines(q)

ValuesStatement(q) ==
    IF q.limit # <<>> /\ q.fetch # <<>> THEN Conflicting
    ELSE IF q.query # <<>> THEN Other
    ELSE IF q.rows = <<>> THEN Incomplete
    ELSE WriteWith(q) \o Leading(q, WriteValues(q), TailClauses(q)) \o WriteCombines(q)

Insert(q) ==
    IF q.table_ref.expression = <<>> THEN Incomplete
    ELSE WriteWith(q) \o <<"INSERT INTO">> \o WriteTable(q.table_ref) \o q.overriding
         \o (IF NoValues(q) THEN <<"DEFAULT VALUES">> ELSE WriteValues(q))
         \o q.conflict \o Listed("RETURNING", q.returning)

Update(q) ==
    IF q.target_table.expression = <<>> \/ q.set = <<>> THEN Incomplete
    ELSE WriteWith(q) \o <<"UPDATE">> \o WriteTable(q.target_table) \o Listed("SET", q.set)
         \o WriteFromList(<<"FROM">>, q.table_ref, q.extra_tables)
         \o Together("WHERE", q.where) \o Listed("RETURNING", q.returning)

Delete(q) ==
    IF q.target_table.expression = <<>> THEN Incomplete
    ELSE WriteWith(q) \o <<"DELETE FROM">> \o WriteTable(q.target_table)
         \o WriteFromList(<<"USING">>, q.table_ref, q.extra_tables)
         \o Together("WHERE", q.where) \o Listed("RETURNING", q.returning)

Merge(q) ==
    IF q.target_table.expression = <<>> \/ q.table_ref.expression = <<>>
       \/ q.on = <<>> \/ q.whens = <<>> THEN Incomplete
    ELSE WriteWith(q) \o <<"MERGE INTO">> \o WriteTable(q.target_table)
         \o <<"USING">> \o WriteTable(q.table_ref) \o Together("ON", q.on)
         \o Spaced(q.whens) \o Listed("RETURNING", q.returning)
=============================================================================
