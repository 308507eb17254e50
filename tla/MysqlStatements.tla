-------------------------- MODULE MysqlStatements --------------------------
(***************************************************************************)
(* MySQL: the mods (shared.rs and the modules that re-export it under the   *)
(* names of each statement) and the statements they fill.                   *)
(***************************************************************************)
EXTENDS Clauses

With(name, query, fields) == Add("with", WriteCte(name, query, Chain(NoCte, fields)))
Recursive(yes)            == Put("recursive", When(yes, <<"RECURSIVE">>))

OptimizerHint(hint) == Add("hints", hint)
SetVar(assignment)  == OptimizerHint(<<"SET_VAR", "(">> \o assignment \o <<")">>)

\* In the order they are written, whatever order they were given in, each once.
Modifiers == <<"DISTINCT", "DISTINCTROW", "LOW_PRIORITY", "HIGH_PRIORITY", "DELAYED", "QUICK",
               "IGNORE", "STRAIGHT_JOIN", "SQL_SMALL_RESULT", "SQL_BIG_RESULT",
               "SQL_BUFFER_RESULT", "SQL_NO_CACHE", "SQL_CALC_FOUND_ROWS">>
Modifier(word) == Add("modifiers", word)

AppendModifiers(words) == SelectSeq(Modifiers, LAMBDA word : Contains(words, word))

Columns(exprs)        == AddAll("columns", exprs)
PreloadColumns(exprs) == AddAll("preload", exprs)

-----------------------------------------------------------------------------
\* Tables.

LateralTable(expression, bare) == When(bare, Other) \o expression

FromItem(table)      == Edit("table_ref", "place", table)
TargetTable(table)   == Edit("target_table", "place", table)
ExtraFromItem(table) == Add("extra_tables", table)

\* DELETE takes PARTITION after the whole table list.
DeleteTable(table)   == AddAll("partitions", table.partitions)
                        \o Add("delete_tables", [table EXCEPT !.partitions = <<>>])

\* use_index, ignore_index, force_index, then for_join and its like.
Hinted(table, kind, indexes, for) ==
    [table EXCEPT !.hints = Append(@, IndexHint(kind, indexes, for))]

JoinMod(kind, to, fields) == Edit("joins", "join", WriteJoin(kind, to, Chain(NoJoin, fields)))
InnerJoin(to, fields) == JoinMod("INNER JOIN", to, fields)
LeftJoin(to, fields)  == JoinMod("LEFT JOIN", to, fields)
RightJoin(to, fields) == JoinMod("RIGHT JOIN", to, fields)
CrossJoin(to, fields) == JoinMod("CROSS JOIN", to, fields)
StraightJoin(to, fields) == JoinMod("STRAIGHT_JOIN", to, fields)

WithJoin(table, kind, to, fields) ==
    [table EXCEPT !.joins = Append(@, WriteJoin(kind, to, Chain(NoJoin, fields)))]

-----------------------------------------------------------------------------

Where(condition)  == Add("where", condition)
Having(condition) == Add("having", condition)
GroupBy(group)    == Add("group", group)
WithRollup        == Put("group_with", <<"ROLLUP">>)
NamedWindowMod(name, definition) ==
    Add("windows", NamedWindow(name, Apply(NoWindow, definition)))

OrderBy(expression, fields) == Add("order", WriteOrder(expression, Chain(NoOrder, fields)))
OrderByCombined(expression, fields) ==
    Add("combined_order", WriteOrder(expression, Chain(NoOrder, fields)))

Limit(count)          == Put("limit", count)
Offset(start)         == Put("offset", start)
LimitCombined(count)  == Put("combined_limit", count)
OffsetCombined(start) == Put("combined_offset", start)
For(strength, fields) == Add("locks", WriteLock(strength, Chain(NoLock, fields)))
LockInShareMode       == Put("lock_in_share_mode", <<"LOCK IN SHARE MODE">>)

SetOperation(op, all, query) == Add("combines", Combine(op, all, query))

SetTo(column, value) == Add("set", column \o <<"=">> \o value)
SetValues(columns) ==
    AddAll("set", [i \in DOMAIN columns |->
                     columns[i] \o <<"=", "VALUES", "(">> \o columns[i] \o <<")">>])
SetRow(alias, columns) ==
    AddAll("set", [i \in DOMAIN columns |->
                     columns[i] \o <<"=">> \o alias \o <<".">> \o columns[i]])

Values(row) == When(row # <<>>, Add("rows", Paren(row)))
Rows(rows)  == FlattenSeq([i \in DOMAIN rows |-> Values(rows[i])])
ValuesFromQuery(query) == Put("query", query) \o Put("rows", <<>>)

RowAlias(name, columns) == Put("row_alias", <<"AS">> \o name \o Paren(columns))
OnDuplicateKeyUpdate(body) == AddAll("duplicate", Apply([set |-> <<>>], body).set)

MatchAgainst(columns, search, modifier) ==
    <<"MATCH">> \o Paren(columns) \o <<"AGAINST", "(">> \o search \o modifier \o <<")">>

-----------------------------------------------------------------------------
\* Windows and functions.

BasedOn(name)      == Put("based_on", name)
PartitionBy(exprs) == AddAll("partition_by", exprs)
Mode(mode)         == Put("mode", <<mode>>)
Start(bound)       == Put("start", bound)
End(bound)         == Put("end", bound)

NoFunction == [distinct |-> FALSE, order |-> <<>>, separator |-> <<>>, over |-> <<>>]

Function(name, args, fields) ==
    LET f == Chain(NoFunction, fields)
    IN  IF name = <<>> THEN Incomplete
        ELSE name \o <<"(">> \o When(f.distinct, <<"DISTINCT">>) \o Commas(args)
             \o When(args # <<>>, Listed("ORDER BY", f.order)) \o After("SEPARATOR", f.separator)
             \o <<")">> \o After("OVER", f.over)

Definition(mods) == <<"(">> \o WriteWindow(Apply(NoWindow, mods)) \o <<")">>

-----------------------------------------------------------------------------
\* The statements.

HintsAndModifiers(q) ==
    WriteSlice(q.hints, <<"/*+">>, <<>>, <<"*/">>) \o AppendModifiers(q.modifiers)

TailClauses(q) == Listed("ORDER BY", q.order) \o After("LIMIT", q.limit) \o After("OFFSET", q.offset)
           \o Spaced(q.locks) \o q.lock_in_share_mode

Select(q) ==
    WriteWith(q)
    \o Leading(q, <<"SELECT">> \o HintsAndModifiers(q) \o WriteSelectList(q)
                  \o WriteFromList(<<"FROM">>, q.table_ref, q.extra_tables)
                  \o Together("WHERE", q.where) \o WriteGroupBy(q)
                  \o Together("HAVING", q.having) \o Listed("WINDOW", q.windows),
               TailClauses(q))
    \o WriteCombines(q)

\* SET is a row source of its own and takes no column list.
TargetAndRowSource(q) ==
    IF q.set = <<>>
      THEN WriteTable(q.table_ref)
           \o IF NoValues(q) THEN <<"VALUES", "(", ")">> ELSE WriteValues(q)
      ELSE WriteTable([q.table_ref EXCEPT !.columns = <<>>]) \o Listed("SET", q.set)

Insert(q) ==
    IF q.table_ref.expression = <<>> THEN Incomplete
    ELSE <<"INSERT">> \o HintsAndModifiers(q) \o <<"INTO">> \o TargetAndRowSource(q)
         \o q.row_alias \o Listed("ON DUPLICATE KEY UPDATE", q.duplicate)

Replace(q) ==
    IF q.table_ref.expression = <<>> THEN Incomplete
    ELSE <<"REPLACE">> \o HintsAndModifiers(q) \o <<"INTO">> \o TargetAndRowSource(q)

\* The table list of an UPDATE stands after no keyword of its own.
Update(q) ==
    IF q.target_table.expression = <<>> \/ q.set = <<>> THEN Incomplete
    ELSE WriteWith(q) \o <<"UPDATE">> \o HintsAndModifiers(q)
         \o WriteFromList(<<>>, q.target_table, q.extra_tables)
         \o Listed("SET", q.set) \o Together("WHERE", q.where)
         \o Listed("ORDER BY", q.order) \o After("LIMIT", q.limit)

Delete(q) ==
    IF q.delete_tables = <<>> THEN Incomplete
    ELSE WriteWith(q) \o <<"DELETE">> \o HintsAndModifiers(q) \o <<"FROM">>
         \o Commas([i \in DOMAIN q.delete_tables |-> WriteTable(q.delete_tables[i])])
         \o After("PARTITION", Paren(q.partitions))
         \o WriteFromList(<<"USING">>, q.table_ref, q.extra_tables)
         \o Together("WHERE", q.where) \o Listed("ORDER BY", q.order) \o After("LIMIT", q.limit)

Table(q) ==
    IF q.table_ref.expression = <<>> THEN Incomplete
    ELSE <<"TABLE">> \o WriteTable(q.table_ref) \o Listed("ORDER BY", q.order)
         \o After("LIMIT", q.limit) \o After("OFFSET", q.offset)

ValuesStatement(q) ==
    IF q.query # <<>> THEN Other
    ELSE IF q.rows = <<>> THEN Incomplete
    ELSE <<"VALUES">> \o Commas([i \in DOMAIN q.rows |-> <<"ROW">> \o q.rows[i]])
         \o Listed("ORDER BY", q.order) \o After("LIMIT", q.limit)
=============================================================================
