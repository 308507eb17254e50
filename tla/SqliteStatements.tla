-------------------------- MODULE SqliteStatements --------------------------
(***************************************************************************)
(* SQLite: the mods (shared.rs and the modules that re-export it under the  *)
(* names of each statement) and the statements they fill.                   *)
(***************************************************************************)
EXTENDS Clauses

With(name, query, fields) == Add("with", WriteCte(name, query, Chain(NoCte, fields)))
Recursive(yes)            == Put("recursive", When(yes, <<"RECURSIVE">>))
Or(algorithm)             == Put("or_action", <<"OR", algorithm>>)

Columns(exprs)        == AddAll("columns", exprs)
PreloadColumns(exprs) == AddAll("preload", exprs)

FromItem(table)      == Edit("table_ref", "place", table)
TargetTable(table)   == Edit("target_table", "put", table)
ExtraFromItem(table) == Add("extra_tables", table)
IntoTable(table)     == Edit("table_ref", "put", table)

IndexedBy(name) == <<"INDEXED BY">> \o name
NotIndexed      == <<"NOT INDEXED">>

JoinMod(kind, to, fields) == Edit("joins", "join", WriteJoin(kind, to, Chain(NoJoin, fields)))
InnerJoin(to, fields) == JoinMod("INNER JOIN", to, fields)
LeftJoin(to, fields)  == JoinMod("LEFT JOIN", to, fields)
RightJoin(to, fields) == JoinMod("RIGHT JOIN", to, fields)
FullJoin(to, fields)  == JoinMod("FULL JOIN", to, fields)
CrossJoin(to, fields) == JoinMod("CROSS JOIN", to, fields)

WithJoin(table, kind, to, fields) ==
    [table EXCEPT !.joins = Append(@, WriteJoin(kind, to, Chain(NoJoin, fields)))]

Where(condition)  == Add("where", condition)
Having(condition) == Add("having", condition)
GroupBy(group)    == Add("group", group)
NamedWindowMod(name, definition) ==
    Add("windows", NamedWindow(name, Apply(NoWindow, definition)))
OrderBy(expression, fields) == Add("order", WriteOrder(expression, Chain(NoOrder, fields)))
Limit(count)  == Put("limit", count)
Offset(start) == Put("offset", start)
Distinct      == Put("distinct", <<"DISTINCT">>)

\* No parentheses: an operand of a compound is a bare select-core.
Compound(op, query) == Add("combines", <<op>> \o query)

Returning(exprs) == AddAll("returning", exprs)
SetTo(column, value) == Add("set", column \o <<"=">> \o value)
SetExcluded(columns) ==
    AddAll("set", [i \in DOMAIN columns |-> columns[i] \o <<"=", "EXCLUDED.">> \o columns[i]])

Values(row) == When(row # <<>>, Add("rows", Paren(row)))
Rows(rows)  == FlattenSeq([i \in DOMAIN rows |-> Values(rows[i])])
ValuesFromQuery(query) == Put("query", query) \o Put("rows", <<>>)

OnConflict(columns, where) == ConflictTarget(<<>>, columns, where)
DoNothing(target)      == Add("upserts", ConflictClause(target, "NOTHING", [set |-> <<>>, where |-> <<>>]))
DoUpdate(target, body) ==
    Add("upserts", ConflictClause(target, "UPDATE", Apply([set |-> <<>>, where |-> <<>>], body)))

-----------------------------------------------------------------------------
\* Windows and functions.

BasedOn(name)      == Put("based_on", name)
PartitionBy(exprs) == AddAll("partition_by", exprs)
Mode(mode)         == Put("mode", <<mode>>)
Start(bound)       == Put("start", bound)
End(bound)         == Put("end", bound)
Exclude(what)      == Put("exclusion", <<what>>)

NoFunction == [distinct |-> FALSE, order |-> <<>>, filter |-> <<>>, over |-> <<>>]

Function(name, args, fields) ==
    LET f == Chain(NoFunction, fields)
    IN  IF name = <<>> THEN Incomplete
        ELSE name \o <<"(">> \o When(f.distinct, <<"DISTINCT">>) \o Commas(args)
             \o When(args # <<>>, Listed("ORDER BY", f.order)) \o <<")">>
             \o When(f.filter # <<>>, <<"FILTER", "(">> \o Together("WHERE", f.filter) \o <<")">>)
             \o After("OVER", f.over)

Definition(mods) == <<"(">> \o WriteWindow(Apply(NoWindow, mods)) \o <<")">>

-----------------------------------------------------------------------------
\* The statements.

\* What a SELECT has and a VALUES, its alternative, cannot carry.
SelectOnly(q) ==
    \/ <<>> # q.distinct \o q.columns \o q.preload \o q.extra_tables \o q.where
              \o q.group \o q.having \o q.windows
    \/ q.table_ref.expression # <<>>

Core(q) ==
    IF ~NoValues(q) THEN IF SelectOnly(q) THEN Other ELSE WriteValues(q)
    ELSE <<"SELECT">> \o q.distinct \o WriteSelectList(q)
         \o WriteFromList(<<"FROM">>, q.table_ref, q.extra_tables)
         \o Together("WHERE", q.where) \o WriteGroupBy(q)
         \o Together("HAVING", q.having) \o Listed("WINDOW", q.windows)

Select(q) ==
    WriteWith(q) \o Core(q) \o Spaced(q.combines) \o Listed("ORDER BY", q.order)
    \o IF q.limit = <<>> /\ q.offset # <<>> THEN Incomplete
       ELSE After("LIMIT", q.limit) \o After("OFFSET", q.offset)

Insert(q) ==
    IF q.table_ref.expression = <<>> THEN Incomplete
    ELSE WriteWith(q) \o <<"INSERT">> \o q.or_action \o <<"INTO">> \o WriteTable(q.table_ref)
         \o (IF ~NoValues(q) THEN WriteValues(q)
             ELSE IF q.upserts # <<>> THEN Other ELSE <<"DEFAULT VALUES">>)
         \o Spaced(q.upserts) \o Listed("RETURNING", q.returning)

Update(q) ==
    IF q.target_table.expression = <<>> \/ q.set = <<>> THEN Incomplete
    ELSE WriteWith(q) \o <<"UPDATE">> \o q.or_action \o WriteTable(q.target_table)
         \o Listed("SET", q.set) \o WriteFromList(<<"FROM">>, q.table_ref, q.extra_tables)
         \o Together("WHERE", q.where) \o Listed("RETURNING", q.returning)

Delete(q) ==
    IF q.target_table.expression = <<>> THEN Incomplete
    ELSE WriteWith(q) \o <<"DELETE FROM">> \o WriteTable(q.target_table)
         \o Together("WHERE", q.where) \o Listed("RETURNING", q.returning)
=============================================================================
