-------------------------- MODULE StatementGrammar --------------------------
(***************************************************************************)
(* How the three engines read a statement: their documented grammars as     *)
(* data, and a reader that gives every way a text can be read.  A clause    *)
(* the reader meets is reported with the words it holds, so that a test can  *)
(* ask not only whether the text is legal but what the engine takes it for. *)
(* This module is about the engines, not about the program.                 *)
(***************************************************************************)
EXTENDS Naturals, Sequences

CONSTANT Operands    \* the words that stand for a name, an expression or a query

-----------------------------------------------------------------------------
\* Grammars.

OneOf(words)      == [is |-> "word", words |-> words]
Word(word)        == OneOf({word})
Operand           == OneOf(Operands)
All(parts)        == [is |-> "all", parts |-> parts]
Either(choices)      == [is |-> "any", parts |-> choices]
Maybe(grammar)    == Either(<<All(<<>>), grammar>>)
Many(item, sep)   == [is |-> "many", item |-> item, sep |-> sep]      \* one or more
Clause(name, grammar) == [is |-> "clause", name |-> name, of |-> grammar]

\* The readings of text from position i on: where each ends and the clauses it met.
RECURSIVE Read(_, _, _), ReadAll(_, _, _), ReadMany(_, _, _)

Then(readings, Next(_)) ==
    UNION {{<<r[1], first[2] \o r[2]>> : r \in Next(first[1])} : first \in readings}

ReadAll(parts, text, i) ==
    IF parts = <<>> THEN {<<i, <<>>>>}
    ELSE Then(Read(Head(parts), text, i), LAMBDA n : ReadAll(Tail(parts), text, n))

ReadMany(g, text, i) ==
    LET one == Read(g.item, text, i)
    IN  one \cup Then(one, LAMBDA n : Then(Read(g.sep, text, n),
                                           LAMBDA m : ReadMany(g, text, m)))

Read(g, text, i) ==
    CASE g.is = "word"   -> IF i <= Len(text) /\ text[i] \in g.words THEN {<<i + 1, <<>>>>} ELSE {}
      [] g.is = "all"    -> ReadAll(g.parts, text, i)
      [] g.is = "any"    -> UNION {Read(g.parts[k], text, i) : k \in DOMAIN g.parts}
      [] g.is = "many"   -> ReadMany(g, text, i)
      [] g.is = "clause" -> {<<r[1], <<<<g.name, SubSeq(text, i, r[1] - 1)>>>> >> :
                               r \in Read(g.of, text, i)}

Readings(grammar, text) ==
    {r[2] : r \in {found \in Read(grammar, text, 1) : found[1] = Len(text) + 1}}

-----------------------------------------------------------------------------
\* What the three have in common.

Comma == Word(",")
And   == Word("AND")
Nothing == All(<<>>)
List(item)           == Many(item, Comma)
InParens(grammar)    == All(<<Word("("), grammar, Word(")")>>)
Keyed(word, grammar) == Maybe(All(<<Word(word), grammar>>))
Names                == InParens(List(Operand))

OrderItem ==
    All(<<Operand, Keyed("COLLATE", Operand), Maybe(OneOf({"ASC", "DESC"})),
          Keyed("NULLS", OneOf({"FIRST", "LAST"}))>>)
Ordered(grammar) == Keyed("ORDER BY", List(grammar))

Bound == OneOf({"UNBOUNDED PRECEDING", "1 PRECEDING", "CURRENT ROW", "1 FOLLOWING"})
WindowDefinition ==
    InParens(All(<<Maybe(Operand), Keyed("PARTITION BY", List(Operand)), Ordered(OrderItem),
                   Maybe(All(<<OneOf({"RANGE", "ROWS", "GROUPS"}),
                               Either(<<Bound, All(<<Word("BETWEEN"), Bound, And, Bound>>)>>),
                               Keyed("EXCLUDE", Word("CURRENT ROW"))>>))>>))

FunctionCall == All(<<Operand, Word("("), Maybe(Word("DISTINCT")), Maybe(List(Operand)),
              Ordered(OrderItem), Keyed("SEPARATOR", Operand), Word(")"),
              Keyed("WITHIN GROUP", InParens(Ordered(OrderItem))),
              Keyed("FILTER", InParens(Keyed("WHERE", Many(Operand, And)))),
              Keyed("OVER", Either(<<Operand, WindowDefinition>>))>>)
FullText == All(<<Word("MATCH"), Names, Word("AGAINST"),
               InParens(All(<<Operand, Maybe(Word("IN BOOLEAN MODE"))>>))>>)
Column    == Either(<<Operand, FunctionCall, FullText>>)
Condition == Either(<<Operand, FullText, All(<<Word("CURRENT OF"), Operand>>)>>)

Conditions(word, clause) == Keyed(word, Many(Clause(clause, Condition), And))
Row  == InParens(List(Operand))
SetItem ==
    All(<<Operand, Word("="),
          Either(<<Operand, All(<<Word("EXCLUDED."), Operand>>),
                All(<<Word("VALUES"), InParens(Operand)>>),
                All(<<Operand, Word("."), Operand>>)>>)>>)
Sets(word, clause) == All(<<Word(word), List(Clause(clause, SetItem))>>)
Returned  == Keyed("RETURNING", List(Clause("returning", Column)))
RowValues == All(<<Word("VALUES"), List(Clause("rows", Row))>>)
Query     == Clause("query", Operand)

Cte ==
    All(<<Operand, Maybe(Names), Word("AS"),
          Maybe(OneOf({"MATERIALIZED", "NOT MATERIALIZED"})), InParens(Operand),
          Maybe(All(<<Word("SEARCH"), OneOf({"BREADTH", "DEPTH"}), Word("FIRST BY"),
                      List(Operand), Word("SET"), Operand>>)),
          Maybe(All(<<Word("CYCLE"), List(Operand), Word("SET"), Operand,
                      Maybe(All(<<Word("TO"), Operand, Word("DEFAULT"), Operand>>)),
                      Word("USING"), Operand>>))>>)
Withs == Keyed("WITH", All(<<Maybe(Clause("recursive", Word("RECURSIVE"))),
                             List(Clause("with", Cte))>>))

GroupItem == Either(<<Operand, All(<<OneOf({"ROLLUP", "CUBE"}), Row>>)>>)
Groups == Keyed("GROUP BY", All(<<Maybe(Clause("group_distinct", Word("DISTINCT"))),
                                  List(Clause("group", GroupItem)),
                                  Maybe(Clause("group_with", All(<<Word("WITH"), Word("ROLLUP")>>)))>>))
Windows == Keyed("WINDOW", List(Clause("windows", All(<<Operand, Word("AS"), WindowDefinition>>))))

\* Tables, with the joins that belong to each.  The first table's are reported apart.
JoinKinds == {"INNER JOIN", "LEFT JOIN", "RIGHT JOIN", "FULL JOIN", "STRAIGHT_JOIN"}
JoinOf(table) ==
    Either(<<All(<<OneOf(JoinKinds), table,
                Either(<<All(<<Word("ON"), Many(Operand, And)>>),
                      All(<<Word("USING"), Names, Keyed("AS", Operand)>>)>>)>>),
          All(<<Word("NATURAL"), OneOf(JoinKinds), table>>),
          All(<<Word("CROSS JOIN"), table>>)>>)
Tables(table, clause) ==
    LET joins == Maybe(Many(JoinOf(table), Nothing))
    IN  All(<<Clause(clause, table), Maybe(Many(Clause("joins", JoinOf(table)), Nothing)),
              Maybe(All(<<Comma, List(Clause("extra_tables", All(<<table, joins>>)))>>))>>)

\* ORDER BY, LIMIT and OFFSET, under the names of what they are the tail of.
Tailed(of, grammar) ==
    All(<<Keyed("ORDER BY", List(Clause(of \o "order", OrderItem))),
          Keyed("LIMIT", Clause(of \o "limit", grammar)),
          Keyed("OFFSET", Clause(of \o "offset", Operand))>>)

SelectCore(head, tables) ==
    All(<<Word("SELECT"), head,
          Either(<<Word("*"), List(Clause("columns", Column))>>),
          Maybe(All(<<Word("FROM"), tables>>)), Conditions("WHERE", "where"),
          Groups, Conditions("HAVING", "having"), Windows>>)

\* A query and its set operations: what follows an operand that is not in
\* parentheses is the whole operation's.
SetOperations(core, own, combined) ==
    LET operations == Many(Clause("combines",
                             All(<<OneOf({"UNION", "INTERSECT", "EXCEPT"}), Maybe(Word("ALL")),
                                   InParens(Operand)>>)), Nothing)
    IN  Either(<<All(<<core, own>>),
              All(<<Either(<<core, InParens(All(<<core, own>>))>>), operations, combined>>)>>)

UpsertTarget ==
    Either(<<All(<<Names, Keyed("WHERE", Many(Operand, And))>>),
          All(<<Word("ON CONSTRAINT"), Operand>>)>>)
OnConflict(clause) ==
    Clause(clause,
           All(<<Word("ON CONFLICT"), Maybe(UpsertTarget), Word("DO"),
                 Either(<<Word("NOTHING"),
                       All(<<Word("UPDATE"), Word("SET"), List(SetItem),
                             Keyed("WHERE", Many(Operand, And))>>)>>)>>))

-----------------------------------------------------------------------------
\* PostgreSQL.

PsqlTable ==
    LET named == All(<<Keyed("AS", Operand), Maybe(Names)>>)
        call  == All(<<Operand, Row>>)
    IN  Either(<<All(<<Maybe(Word("ONLY")), Operand, named,
                    Maybe(All(<<Word("TABLESAMPLE"), Word("BERNOULLI"), Row,
                                Keyed("REPEATABLE", InParens(Operand))>>))>>),
              All(<<Maybe(Word("LATERAL")),
                    Either(<<call, All(<<Word("ROWS FROM"), InParens(List(call))>>)>>),
                    Maybe(Word("WITH ORDINALITY")), named>>)>>)

FetchOf(clause) ==
    Clause(clause, All(<<Word("FETCH NEXT"), Operand, Word("ROWS"), OneOf({"ONLY", "WITH TIES"})>>))
PsqlLock == Clause("locks", All(<<Word("FOR"), OneOf({"UPDATE", "SHARE"}), Keyed("OF", List(Operand)),
                                  Maybe(OneOf({"NOWAIT", "SKIP LOCKED"}))>>))
PsqlTail(of, locks) ==
    LET count == Either(<<Operand, Word("ALL")>>)
    IN  All(<<Either(<<Tailed(of, count),
                    All(<<Keyed("ORDER BY", List(Clause(of \o "order", OrderItem))),
                          Keyed("OFFSET", Clause(of \o "offset", Operand)),
                          FetchOf(of \o "fetch")>>)>>),
              locks>>)
PsqlQuery(core) ==
    All(<<Withs, SetOperations(core, PsqlTail("", Maybe(Many(PsqlLock, Nothing))),
                               PsqlTail("combined_", Nothing))>>)

PsqlSelect == PsqlQuery(SelectCore(
    Maybe(Clause("distinct", All(<<Word("DISTINCT"), Keyed("ON", Row)>>))), Tables(PsqlTable, "table")))
PsqlTableStatement ==
    PsqlQuery(All(<<Word("TABLE"), Clause("table", All(<<Maybe(Word("ONLY")), Operand>>))>>))
PsqlValues == PsqlQuery(RowValues)

PsqlTarget == Clause("target", All(<<Maybe(Word("ONLY")), Operand, Keyed("AS", Operand)>>))
Overriding == Clause("overriding",
                     All(<<Word("OVERRIDING"), OneOf({"SYSTEM", "USER"}), Word("VALUE")>>))
PsqlInsert ==
    All(<<Withs, Word("INSERT INTO"), PsqlTarget,
          Either(<<Word("DEFAULT VALUES"),
                All(<<Maybe(Clause("target_columns", Names)), Maybe(Overriding),
                      Either(<<RowValues, Query>>)>>)>>),
          Maybe(OnConflict("conflict")), Returned>>)
PsqlUpdate ==
    All(<<Withs, Word("UPDATE"), PsqlTarget, Sets("SET", "set"),
          Maybe(All(<<Word("FROM"), Tables(PsqlTable, "table")>>)),
          Conditions("WHERE", "where"), Returned>>)
PsqlDelete ==
    All(<<Withs, Word("DELETE FROM"), PsqlTarget,
          Maybe(All(<<Word("USING"), Tables(PsqlTable, "table")>>)),
          Conditions("WHERE", "where"), Returned>>)

MergeArm(kinds, actions) ==
    All(<<OneOf(kinds), Maybe(All(<<And, Many(Operand, And)>>)), Word("THEN"), Either(actions)>>)
PsqlMerge ==
    All(<<Withs, Word("MERGE INTO"), PsqlTarget, Word("USING"),
          Clause("table", PsqlTable), Maybe(Many(Clause("joins", JoinOf(PsqlTable)), Nothing)),
          Conditions("ON", "on"),
          Many(Clause("whens",
            Either(<<MergeArm({"WHEN MATCHED", "WHEN NOT MATCHED BY SOURCE"},
                    <<All(<<Word("UPDATE"), Word("SET"), List(SetItem)>>),
                      Word("DELETE"), Word("DO NOTHING")>>),
                  MergeArm({"WHEN NOT MATCHED"},
                    <<Word("DO NOTHING"),
                      All(<<Word("INSERT"), Either(<<Word("DEFAULT VALUES"),
                            All(<<Maybe(Names), Maybe(Overriding), Word("VALUES"), Row>>)>>)>>)>>)>>)),
            Nothing),
          Returned>>)

-----------------------------------------------------------------------------
\* MySQL.

Partitions == Keyed("PARTITION", Names)
MysqlTable ==
    LET hint == All(<<OneOf({"USE", "IGNORE", "FORCE"}), Word("INDEX"),
                      Keyed("FOR", OneOf({"JOIN", "ORDER BY", "GROUP BY"})), Names>>)
    IN  All(<<Maybe(Word("LATERAL")), Operand, Partitions, Keyed("AS", Operand), Maybe(Names),
              Maybe(Many(hint, Nothing))>>)
OptimizerHints == Maybe(All(<<Word("/*+"),
    Many(Clause("hints", Either(<<Operand, All(<<Word("SET_VAR"), InParens(Operand)>>)>>)), Nothing),
    Word("*/")>>))

\* The modifiers of a SELECT in any order, those of the others in one.
SelectModifiers == Maybe(Many(Clause("modifiers", OneOf({"DISTINCT", "STRAIGHT_JOIN", "SQL_NO_CACHE"})),
                              Nothing))
Modifier(words) == Maybe(Clause("modifiers", OneOf(words)))
Priority == Modifier({"LOW_PRIORITY", "HIGH_PRIORITY", "DELAYED"})

MysqlLock == Either(<<PsqlLock, Clause("lock_in_share_mode", Word("LOCK IN SHARE MODE"))>>)
LimitOffset(of) ==
    All(<<Keyed("ORDER BY", List(Clause(of \o "order", OrderItem))),
          Maybe(All(<<Word("LIMIT"), Clause(of \o "limit", Operand),
                      Keyed("OFFSET", Clause(of \o "offset", Operand))>>))>>)
MysqlSelect ==
    All(<<Withs, SetOperations(
            SelectCore(All(<<OptimizerHints, SelectModifiers>>), Tables(MysqlTable, "table")),
            All(<<LimitOffset(""), Maybe(Many(MysqlLock, Nothing))>>),
            LimitOffset("combined_"))>>)

MysqlTarget == Clause("target", All(<<Operand, Partitions>>))
OwnRows ==
    Either(<<Sets("SET", "set"),
          All(<<Maybe(Clause("target_columns", Names)),
                Either(<<RowValues, All(<<Word("VALUES"), Word("("), Word(")")>>)>>)>>)>>)
QueryRows == All(<<Maybe(Clause("target_columns", Names)), Query>>)
RowSource == Either(<<OwnRows, QueryRows>>)

\* An alias stands for a row of the statement's own, not for one of a query.
MysqlInsert ==
    All(<<Word("INSERT"), OptimizerHints, Priority, Modifier({"IGNORE"}), Word("INTO"), MysqlTarget,
          Either(<<All(<<OwnRows, Maybe(Clause("row_alias", All(<<Word("AS"), Operand, Maybe(Names)>>)))>>),
                QueryRows>>),
          Maybe(Sets("ON DUPLICATE KEY UPDATE", "duplicate"))>>)
MysqlReplace ==
    All(<<Word("REPLACE"), OptimizerHints, Priority, Word("INTO"), MysqlTarget, RowSource>>)

Ending == All(<<Conditions("WHERE", "where"), LimitOffset("")>>)
MysqlUpdate ==
    All(<<Withs, Word("UPDATE"), OptimizerHints, Priority, Modifier({"IGNORE"}),
          Tables(MysqlTable, "table"), Sets("SET", "set"), Ending>>)
MysqlDelete ==
    LET head == All(<<Withs, Word("DELETE"), OptimizerHints, Priority, Modifier({"QUICK"}),
                      Modifier({"IGNORE"}), Word("FROM")>>)
    IN  Either(<<All(<<head, Clause("target", All(<<Operand, Keyed("AS", Operand)>>)),
                    Maybe(All(<<Word("PARTITION"), Clause("partitions", Names)>>)), Ending>>),
              All(<<head, List(Clause("target", Operand)), Word("USING"),
                    Tables(MysqlTable, "table"), Conditions("WHERE", "where")>>)>>)
MysqlTableStatement == All(<<Word("TABLE"), Clause("table", Operand), LimitOffset("")>>)
MysqlValues ==
    All(<<Word("VALUES"), List(All(<<Word("ROW"), Clause("rows", Row)>>)), LimitOffset("")>>)

-----------------------------------------------------------------------------
\* SQLite.

Indexed == Maybe(Either(<<All(<<Word("INDEXED BY"), Operand>>), Word("NOT INDEXED")>>))
SqliteTable  == All(<<Operand, Keyed("AS", Operand), Indexed>>)
SqliteTarget == Clause("target", SqliteTable)
OrAction == Maybe(Clause("or_action", All(<<Word("OR"), OneOf({"REPLACE", "IGNORE"})>>)))

\* ORDER BY and LIMIT follow the whole compound; a VALUES core takes them only inside one.
SqliteSelect ==
    LET core     == SelectCore(Maybe(Clause("distinct", Word("DISTINCT"))), Tables(SqliteTable, "table"))
        compound == Maybe(Many(Clause("combines",
                       All(<<OneOf({"UNION", "UNION ALL", "INTERSECT", "EXCEPT"}), Operand>>)), Nothing))
    IN  Either(<<All(<<Withs, core, compound, LimitOffset("")>>),
              All(<<Withs, RowValues>>),
              All(<<Withs, RowValues, Many(Clause("combines",
                       All(<<OneOf({"UNION", "UNION ALL", "INTERSECT", "EXCEPT"}), Operand>>)), Nothing),
                    LimitOffset("")>>)>>)

Upserts ==
    Maybe(Many(OnConflict("upserts"), Nothing))
SqliteInsert ==
    All(<<Withs, Word("INSERT"), OrAction, Word("INTO"), SqliteTarget,
          Maybe(Clause("target_columns", Names)),
          Either(<<Word("DEFAULT VALUES"), All(<<Either(<<RowValues, Query>>), Upserts>>)>>), Returned>>)
SqliteUpdate ==
    All(<<Withs, Word("UPDATE"), OrAction, SqliteTarget, Sets("SET", "set"),
          Maybe(All(<<Word("FROM"), Tables(SqliteTable, "table")>>)),
          Conditions("WHERE", "where"), Returned>>)
SqliteDelete ==
    All(<<Withs, Word("DELETE FROM"), SqliteTarget, Conditions("WHERE", "where"), Returned>>)
=============================================================================
