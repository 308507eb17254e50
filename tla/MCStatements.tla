---------------------------- MODULE MCStatements ----------------------------
\* The calls of each kind of statement, and what each asks for, written as its
\* documentation says the clause is written.
EXTENDS Statements

MCOperands == {"t", "u", "v", "a", "b", "f", "n", "q"}

t == <<"t">>   u == <<"u">>   v == <<"v">>   a == <<"a">>   b == <<"b">>
f == <<"f">>   n == <<"n">>   q == <<"q">>

Call(does, name, words) == [does |-> does, asks |-> <<<<name, words>>>>]
Call2(does, name1, words1, name2, words2) ==
    [does |-> does, asks |-> <<<<name1, words1>>, <<name2, words2>>>>]

Plain(words) == TableRef(words, Untouched)
As(words, alias) == TableRef(words, [alias |-> alias])
OnB == [on |-> <<b, a>>]
UsingA == [using |-> <<a>>, using_alias |-> n]
On(kindWords, to) == <<kindWords>> \o to \o <<"ON", "b", "AND", "a">>

-----------------------------------------------------------------------------
\* PostgreSQL.

PsqlWith == <<
    Call(P!With(n, q, [columns |-> <<a>>, materialized |-> <<"NOT MATERIALIZED">>,
                       search |-> P!SearchDepth(b, <<a>>), cycle |-> P!Cycle(u, v, <<a, b>>, a, b)]),
         "with", <<"n", "(", "a", ")", "AS", "NOT MATERIALIZED", "(", "q", ")",
                   "SEARCH", "DEPTH", "FIRST BY", "a", "SET", "b",
                   "CYCLE", "a", ",", "b", "SET", "u", "TO", "a", "DEFAULT", "b", "USING", "v">>) >>
PsqlRecursive == <<
    Call(P!With(u, q, [search |-> P!SearchBreadth(b, <<a>>)]),
         "with", <<"u", "AS", "(", "q", ")", "SEARCH", "BREADTH", "FIRST BY", "a", "SET", "b">>),
    Call(P!Recursive(TRUE), "recursive", <<"RECURSIVE">>) >>

PsqlFrom(place(_), name) == <<
    Call(place(As(t, n)), name, <<"t", "AS", "n">>) >>
PsqlFroms == PsqlFrom(P!FromItem, "table") \o <<
    Call(P!FromItem(P!FinishTable(As(t, n), "BERNOULLI", <<a>>, b)),
         "table", <<"t", "AS", "n", "TABLESAMPLE", "BERNOULLI", "(", "a", ")", "REPEATABLE", "(", "b", ")">>) >>
PsqlJoins == <<
    Call(P!LeftJoin(Plain(u), OnB), "joins", On("LEFT JOIN", u)),
    Call(P!FullJoin(As(v, n), UsingA), "joins",
         <<"FULL JOIN", "v", "AS", "n", "USING", "(", "a", ")", "AS", "n">>) >>
PsqlExtra == <<
    Call(P!ExtraFromItem(P!WithJoin(Plain(u), "INNER JOIN", Plain(v), OnB)),
         "extra_tables", u \o On("INNER JOIN", v)) >>
PsqlTails(order(_, _), limit(_), offset(_), fetch(_, _), of) == <<
    Call(order(a, [collation |-> n, direction |-> <<"DESC">>, nulls |-> <<"FIRST">>]), of \o "order",
         <<"a", "COLLATE", "n", "DESC", "NULLS", "FIRST">>),
    Call(limit(a), of \o "limit", a),
    Call(offset(b), of \o "offset", b),
    Call(fetch(a, [with_ties |-> TRUE]), of \o "fetch", <<"FETCH NEXT", "a", "ROWS", "WITH TIES">>) >>
PsqlOwnTail == PsqlTails(P!OrderBy, P!Limit, P!Offset, P!Fetch, "")
PsqlCombinedTail == PsqlTails(P!OrderByCombined, P!LimitCombined, P!OffsetCombined, P!FetchCombined,
                              "combined_")
PsqlCombine == << Call(P!SetOperation("UNION", TRUE, q), "combines", <<"UNION", "ALL", "(", "q", ")">>) >>
PsqlLocks == << Call(P!For("UPDATE", [tables |-> <<t, u>>, wait |-> <<"NOWAIT">>]), "locks",
                    <<"FOR", "UPDATE", "OF", "t", ",", "u", "NOWAIT">>) >>
PsqlReturning == << Call2(P!Returning(<<a, f \o <<"(", "b", ")">>>>),
                         "returning", a, "returning", <<"f", "(", "b", ")">>) >>
Wheres(where(_)) == << Call(where(a), "where", a), Call(where(b), "where", b) >>

PsqlFunction ==
    P!Function(f, <<a, b>>, [distinct |-> TRUE, order |-> <<WriteOrder(a, NoOrder)>>, filter |-> <<a, b>>,
        over |-> P!Definition(P!BasedOn(n) \o P!PartitionBy(<<a>>) \o P!Mode("ROWS")
                              \o P!Start(<<"1 PRECEDING">>) \o P!End(<<"CURRENT ROW">>)
                              \o P!Exclude("CURRENT ROW"))])
PsqlFunctionWords ==
    <<"f", "(", "DISTINCT", "a", ",", "b", "ORDER BY", "a", ")", "FILTER", "(", "WHERE", "a", "AND", "b", ")",
      "OVER", "(", "n", "PARTITION BY", "a", "ROWS", "BETWEEN", "1 PRECEDING", "AND", "CURRENT ROW",
      "EXCLUDE", "CURRENT ROW", ")">>
PsqlOrderedSet ==
    P!Function(f, <<a>>, [within_group |-> TRUE, order |-> <<WriteOrder(b, NoOrder)>>, over |-> n])

PsqlSelectClauses == <<
    Call(P!Distinct(<<a, b>>), "distinct", <<"DISTINCT", "ON", "(", "a", ",", "b", ")">>),
    Call2(P!Columns(<<a, PsqlFunction>>), "columns", a, "columns", PsqlFunctionWords),
    Call(P!PreloadColumns(<<PsqlOrderedSet>>), "preload",
         <<"f", "(", "a", ")", "WITHIN GROUP", "(", "ORDER BY", "b", ")", "OVER", "n">>),
    Call(P!FromItem([P!FromFunctions(<<f \o Paren(<<a>>), P!TableFunction(f \o Paren(<<b>>), <<>>, <<>>)>>)
                       EXCEPT !.ordinality = TRUE, !.alias = n, !.columns = <<a>>]),
         "table", <<"ROWS FROM", "(", "f", "(", "a", ")", ",", "f", "(", "b", ")", ")", "WITH ORDINALITY",
                    "AS", "n", "(", "a", ")">>),
    Call(P!CrossJoin(TableRef(P!LateralTable(f \o Paren(<<a>>), FALSE), [lateral |-> TRUE])), "joins",
         <<"CROSS JOIN", "LATERAL", "f", "(", "a", ")">>),
    Call(P!GroupBy(P!GroupingElement("ROLLUP", <<a, b>>)), "group", <<"ROLLUP", "(", "a", ",", "b", ")">>),
    Call(P!GroupBy(P!GroupingElement("CUBE", <<>>)), "group", <<>>),
    Call(P!FromItem(TableRef(P!LateralTable(t, TRUE), [lateral |-> TRUE])), "table", <<>>),
    Call(P!GroupByDistinct(TRUE), "group_distinct", <<"DISTINCT">>),
    Call(P!Having(a), "having", a),
    Call(P!NamedWindowMod(n, P!Start(<<"1 PRECEDING">>)), "windows",
         <<"n", "AS", "(", "RANGE", "1 PRECEDING", ")">>),
    Call(P!LimitAll, "limit", <<"ALL">>) >>

PsqlConflicts == <<
    Call(P!DoUpdate(P!OnConflict(<<a>>, <<b>>), P!SetExcluded(<<a, b>>) \o P!Where(a)), "conflict",
         <<"ON CONFLICT", "(", "a", ")", "WHERE", "b", "DO", "UPDATE", "SET", "a", "=", "EXCLUDED.", "a", ",",
           "b", "=", "EXCLUDED.", "b", "WHERE", "a">>),
    Call(P!DoNothing(P!OnConflictOnConstraint(n, <<>>)), "conflict",
         <<"ON CONFLICT", "ON CONSTRAINT", "n", "DO", "NOTHING">>),
    Call(P!DoUpdate(P!OnConflict(<<>>, <<>>), <<>>), "conflict", <<>>) >>
RowCalls(rows(_), fromQuery(_)) == <<
    Call2(rows(<<<<a, b>>, <<>>, <<b, a>>>>), "rows", <<"(", "a", ",", "b", ")">>, "rows", <<"(", "b", ",", "a", ")">>),
    Call(fromQuery(q), "query", q) >>

PsqlArms == <<
    Call(P!MergeWhen("WHEN MATCHED", <<a, b>>, P!ThenUpdate(P!SetTo(a, b))), "whens",
         <<"WHEN MATCHED", "AND", "a", "AND", "b", "THEN", "UPDATE", "SET", "a", "=", "b">>),
    Call(P!MergeWhen("WHEN NOT MATCHED BY SOURCE", <<>>, <<"DELETE">>), "whens",
         <<"WHEN NOT MATCHED BY SOURCE", "THEN", "DELETE">>),
    Call(P!MergeWhen("WHEN NOT MATCHED", <<b>>, P!ThenInsert(<<a>>, <<"USER">>, <<b>>)), "whens",
         <<"WHEN NOT MATCHED", "AND", "b", "THEN", "INSERT", "(", "a", ")", "OVERRIDING", "USER", "VALUE",
           "VALUES", "(", "b", ")">>),
    Call(P!MergeWhen("WHEN NOT MATCHED", <<>>, P!ThenInsert(<<>>, <<>>, <<>>)), "whens",
         <<"WHEN NOT MATCHED", "THEN", "INSERT", "DEFAULT VALUES">>) >>

-----------------------------------------------------------------------------
\* MySQL.

MysqlWith == <<
    Call(M!With(n, q, [columns |-> <<a>>]), "with", <<"n", "(", "a", ")", "AS", "(", "q", ")">>),
    Call(M!Recursive(TRUE), "recursive", <<"RECURSIVE">>) >>
MysqlHints == << Call2(M!OptimizerHint(n) \o M!SetVar(a), "hints", n, "hints", <<"SET_VAR", "(", "a", ")">>) >>
MysqlTail == <<
    Call(M!OrderBy(a, [direction |-> <<"DESC">>]), "order", <<"a", "DESC">>),
    Call(M!Limit(a), "limit", a) >>
MysqlFrom(place(_)) ==
    Call(place(M!Hinted([Plain(t) EXCEPT !.partitions = <<a, b>>, !.alias = n], "FORCE", <<u>>, <<"JOIN">>)),
         "table", <<"t", "PARTITION", "(", "a", ",", "b", ")", "AS", "n", "FORCE", "INDEX", "FOR", "JOIN",
                    "(", "u", ")">>)
MysqlJoins == <<
    Call(M!StraightJoin(Plain(u), OnB), "joins", On("STRAIGHT_JOIN", u)),
    Call(M!LeftJoin(Plain(v), [natural |-> TRUE]), "joins", <<"NATURAL", "LEFT JOIN", "v">>) >>
MysqlExtra == <<
    Call(M!ExtraFromItem(M!WithJoin(Plain(u), "INNER JOIN", Plain(v), OnB)),
         "extra_tables", u \o On("INNER JOIN", v)) >>
MysqlFunction ==
    M!Function(f, <<a>>, [distinct |-> TRUE, order |-> <<WriteOrder(b, NoOrder)>>, separator |-> n,
                          over |-> M!Definition(M!PartitionBy(<<a, b>>) \o M!Start(<<"1 PRECEDING">>))])
MysqlSelectClauses == <<
    Call2(M!Modifier("STRAIGHT_JOIN") \o M!Modifier("DISTINCT") \o M!Modifier("DISTINCT"),
          "modifiers", <<"STRAIGHT_JOIN">>, "modifiers", <<"DISTINCT">>),
    Call2(M!Columns(<<MysqlFunction, M!MatchAgainst(<<a, b>>, n, <<"IN BOOLEAN MODE">>)>>),
          "columns", <<"f", "(", "DISTINCT", "a", "ORDER BY", "b", "SEPARATOR", "n", ")", "OVER",
                       "(", "PARTITION BY", "a", ",", "b", "RANGE", "1 PRECEDING", ")">>,
          "columns", <<"MATCH", "(", "a", ",", "b", ")", "AGAINST", "(", "n", "IN BOOLEAN MODE", ")">>),
    Call(M!PreloadColumns(<<b>>), "preload", b),
    Call(M!CrossJoin(TableRef(M!LateralTable(q, FALSE), [lateral |-> TRUE, alias |-> n]), Untouched), "joins",
         <<"CROSS JOIN", "LATERAL", "q", "AS", "n">>),
    Call(M!GroupBy(a), "group", a),
    Call(M!WithRollup, "group_with", <<"WITH", "ROLLUP">>),
    Call(M!Having(a), "having", a),
    Call(M!NamedWindowMod(n, M!BasedOn(u) \o M!Mode("ROWS") \o M!End(<<"1 FOLLOWING">>)), "windows",
         <<"n", "AS", "(", "u", "ROWS", "BETWEEN", "UNBOUNDED PRECEDING", "AND", "1 FOLLOWING", ")">>),
    Call(M!Offset(b), "offset", b),
    Call(M!For("SHARE", [wait |-> <<"SKIP LOCKED">>]), "locks", <<"FOR", "SHARE", "SKIP LOCKED">>),
    Call(M!LockInShareMode, "lock_in_share_mode", <<"LOCK IN SHARE MODE">>),
    Call(M!SetOperation("EXCEPT", FALSE, q), "combines", <<"EXCEPT", "(", "q", ")">>),
    Call(M!OrderByCombined(a, Untouched), "combined_order", a),
    Call(M!LimitCombined(b), "combined_limit", b),
    Call(M!OffsetCombined(a), "combined_offset", a) >>
MysqlSets == << Call(M!SetTo(a, b), "set", <<"a", "=", "b">>) >>
MysqlInto == <<
    Call2(M!FromItem([Plain(t) EXCEPT !.partitions = <<u>>, !.columns = <<a, b>>]),
          "target", <<"t", "PARTITION", "(", "u", ")">>, "target_columns", <<"(", "a", ",", "b", ")">>) >>

-----------------------------------------------------------------------------
\* SQLite.

SqliteWith == <<
    Call(S!With(n, q, [materialized |-> <<"MATERIALIZED">>]), "with",
         <<"n", "AS", "MATERIALIZED", "(", "q", ")">>),
    Call(S!Recursive(TRUE), "recursive", <<"RECURSIVE">>) >>
SqliteJoins == <<
    Call(S!InnerJoin(TableRef(u, [indexed |-> S!NotIndexed]), OnB), "joins", On("INNER JOIN", u \o <<"NOT INDEXED">>)),
    Call(S!RightJoin(Plain(v), [using |-> <<a>>]), "joins", <<"RIGHT JOIN", "v", "USING", "(", "a", ")">>) >>
SqliteExtra == <<
    Call(S!ExtraFromItem(S!WithJoin(Plain(u), "LEFT JOIN", Plain(v), OnB)),
         "extra_tables", u \o On("LEFT JOIN", v)) >>
SqliteFunction ==
    S!Function(f, <<a>>, [order |-> <<WriteOrder(b, NoOrder)>>, filter |-> <<a>>,
                          over |-> S!Definition(S!PartitionBy(<<a>>) \o S!Mode("GROUPS")
                             \o S!End(<<"CURRENT ROW">>) \o S!Exclude("CURRENT ROW"))])
SqliteSelectClauses == <<
    Call(S!Distinct, "distinct", <<"DISTINCT">>),
    Call2(S!Columns(<<b, SqliteFunction>>), "columns", b, "columns",
          <<"f", "(", "a", "ORDER BY", "b", ")", "FILTER", "(", "WHERE", "a", ")", "OVER",
            "(", "PARTITION BY", "a", "GROUPS", "BETWEEN", "UNBOUNDED PRECEDING", "AND", "CURRENT ROW",
            "EXCLUDE", "CURRENT ROW", ")">>),
    Call(S!PreloadColumns(<<a>>), "preload", a),
    Call(S!GroupBy(a), "group", a),
    Call(S!Having(a), "having", a),
    Call(S!NamedWindowMod(n, S!BasedOn(u)), "windows", <<"n", "AS", "(", "u", ")">>),
    Call(S!OrderBy(a, [nulls |-> <<"LAST">>]), "order", <<"a", "NULLS", "LAST">>),
    Call(S!Limit(a), "limit", a),
    Call(S!Offset(b), "offset", b),
    Call(S!Compound("UNION ALL", q), "combines", <<"UNION ALL", "q">>) >>
SqliteFrom == <<
    Call(S!FromItem(TableRef(t, [alias |-> n, indexed |-> S!IndexedBy(u)])), "table",
         <<"t", "AS", "n", "INDEXED BY", "u">>) >>
SqliteConflicts == <<
    Call(S!DoUpdate(S!OnConflict(<<a>>, <<>>), S!SetExcluded(<<b>>) \o S!SetTo(a, b) \o S!Where(a)), "upserts",
         <<"ON CONFLICT", "(", "a", ")", "DO", "UPDATE", "SET", "b", "=", "EXCLUDED.", "b", ",", "a", "=", "b",
           "WHERE", "a">>),
    Call(S!DoNothing(S!OnConflict(<<b>>, <<>>)), "upserts", <<"ON CONFLICT", "(", "b", ")", "DO", "NOTHING">>) >>
SqliteOr == << Call(S!Or("REPLACE"), "or_action", <<"OR", "REPLACE">>) >>
SqliteReturning == << Call(S!Returning(<<a>>), "returning", a) >>

-----------------------------------------------------------------------------

Target(put(_)) == Call(put(As(t, n)), "target", <<"t", "AS", "n">>)
Into(place(_), words) == Call2(place([words EXCEPT !.columns = <<a>>]), "target", t,
                               "target_columns", <<"(", "a", ")">>)
FromU(place(_)) == Call(place(Plain(u)), "table", u)
SetAB  == Call(P!SetTo(a, b), "set", <<"a", "=", "b">>)
OnA    == Call(P!On(a), "on", a)
Arm    == Call(P!MergeWhen("WHEN MATCHED", <<>>, <<"DO NOTHING">>), "whens",
               <<"WHEN MATCHED", "THEN", "DO NOTHING">>)
ARow   == Call(P!Values(<<a>>), "rows", <<"(", "a", ")">>)
Duplicates == <<
    Call(M!OnDuplicateKeyUpdate(M!SetValues(<<a>>)), "duplicate", <<"a", "=", "VALUES", "(", "a", ")">>),
    Call2(M!OnDuplicateKeyUpdate(M!SetRow(n, <<a, b>>)), "duplicate", <<"a", "=", "n", ".", "a">>,
          "duplicate", <<"b", "=", "n", ".", "b">>) >>
DeleteFrom == Call2(M!DeleteTable([Plain(t) EXCEPT !.partitions = <<a>>]),
                    "target", t, "partitions", <<"(", "a", ")">>)
MultiDelete == Call(M!DeleteTable(Plain(t)), "target", t)
Modifiers(words) == [i \in DOMAIN words |-> Call(M!Modifier(words[i]), "modifiers", <<words[i]>>)]

MCCalls ==
    "psql select" :> (PsqlWith \o PsqlSelectClauses \o PsqlFroms \o PsqlJoins \o PsqlExtra
                      \o Wheres(P!Where) \o PsqlOwnTail \o PsqlCombinedTail \o PsqlCombine
                      \o PsqlLocks)
    @@ "psql table" :> (PsqlWith \o PsqlRecursive \o PsqlOwnTail \o PsqlCombinedTail
                        \o PsqlCombine \o PsqlLocks \o <<Call(P!FromItem(Plain(t)), "table", t)>>)
    @@ "psql values" :> (PsqlWith \o PsqlOwnTail \o PsqlCombinedTail \o PsqlCombine \o <<ARow>>)
    @@ "psql insert" :> (PsqlWith \o PsqlRecursive \o PsqlConflicts \o RowCalls(P!Rows, P!ValuesFromQuery)
                         \o PsqlReturning \o <<Into(P!FromItem, Plain(t)), ARow,
                                 Call(P!OverridingMod("SYSTEM"), "overriding", <<"OVERRIDING", "SYSTEM", "VALUE">>)>>)
    @@ "psql update" :> (PsqlWith \o PsqlFroms \o PsqlJoins \o PsqlExtra \o Wheres(P!Where) \o PsqlReturning
                         \o <<Target(P!TargetTable), SetAB>>)
    @@ "psql delete" :> (PsqlWith \o PsqlFroms \o PsqlJoins \o PsqlExtra \o PsqlReturning
                         \o <<Target(P!TargetTable), Call(P!WhereCurrentOf(n), "where", <<"CURRENT OF", "n">>)>>)
    @@ "psql merge" :> (PsqlWith \o PsqlJoins \o PsqlArms \o PsqlReturning \o PsqlFroms
                        \o <<Target(P!TargetTable), OnA>>)
    @@ "mysql select" :> (MysqlWith \o MysqlHints \o MysqlTail \o <<MysqlFrom(M!FromItem)>> \o MysqlJoins
                          \o MysqlExtra \o MysqlSelectClauses \o Wheres(M!Where))
    @@ "mysql table" :> (MysqlTail \o <<Call(M!FromItem(Plain(t)), "table", t), Call(M!Offset(b), "offset", b)>>)
    @@ "mysql values" :> (MysqlTail \o <<ARow>> \o <<Head(RowCalls(M!Rows, M!ValuesFromQuery))>>)
    @@ "mysql insert" :> (MysqlHints \o Modifiers(<<"IGNORE", "LOW_PRIORITY">>) \o MysqlInto \o MysqlSets
                          \o RowCalls(M!Rows, M!ValuesFromQuery) \o Duplicates
                          \o <<Call(M!RowAlias(n, <<a>>), "row_alias", <<"AS", "n", "(", "a", ")">>)>>)
    @@ "mysql replace" :> (MysqlHints \o Modifiers(<<"DELAYED">>) \o MysqlInto \o MysqlSets
                           \o RowCalls(M!Rows, M!ValuesFromQuery))
    @@ "mysql update" :> (MysqlWith \o MysqlHints \o Modifiers(<<"IGNORE", "LOW_PRIORITY">>) \o MysqlTail
                          \o <<MysqlFrom(M!TargetTable)>> \o MysqlJoins \o MysqlExtra \o MysqlSets
                          \o Wheres(M!Where))
    @@ "mysql delete" :> (MysqlWith \o MysqlHints \o Modifiers(<<"QUICK", "IGNORE">>) \o MysqlTail
                          \o <<FromU(M!FromItem)>> \o MysqlJoins \o MysqlExtra \o Wheres(M!Where) \o <<MultiDelete>>)
    @@ "sqlite select" :> (SqliteWith \o SqliteFrom \o SqliteJoins \o SqliteExtra \o SqliteSelectClauses
                           \o Wheres(S!Where) \o <<ARow>>)
    @@ "sqlite insert" :> (SqliteWith \o SqliteConflicts \o SqliteOr \o SqliteReturning
                           \o RowCalls(S!Rows, S!ValuesFromQuery)
                           \o <<Into(S!IntoTable, Plain(t))>>)
    @@ "sqlite update" :> (SqliteWith \o SqliteFrom \o SqliteJoins \o SqliteExtra \o Wheres(S!Where)
                           \o SqliteOr \o SqliteReturning \o <<Target(S!TargetTable), SetAB>>)
    @@ "sqlite delete" :> (SqliteWith \o Wheres(S!Where) \o SqliteReturning \o <<Target(S!TargetTable)>>)

\* What the statement requires, and that but for one.
MCStarts ==
    LET part(whole) == <<whole>> \o [i \in DOMAIN whole |-> RemoveAt(whole, i)]
    IN  "psql select" :> <<<<>>, PsqlCombine, PsqlCombine \o PsqlFrom(P!FromItem, "table")>>
        @@ "psql table" :> (part(<<Call(P!FromItem(Plain(t)), "table", t)>>)
                           \o <<PsqlCombine \o <<Call(P!FromItem(Plain(t)), "table", t)>>>>)
        @@ "psql values" :> (part(<<ARow>>) \o <<PsqlCombine \o <<ARow>>>>)
        @@ "psql insert" :> part(<<Target(P!FromItem)>>)
        @@ "psql update" :> part(<<Target(P!TargetTable), SetAB>>)
        @@ "psql delete" :> part(<<Target(P!TargetTable)>>)
        @@ "psql merge" :> part(<<Target(P!TargetTable), FromU(P!FromItem), OnA, Arm>>)
        @@ "mysql select" :> <<<<>>, <<MysqlFrom(M!FromItem), Call(M!SetOperation("UNION", TRUE, q), "combines",
                                                                        <<"UNION", "ALL", "(", "q", ")">>)>>>>
        @@ "mysql table" :> part(<<Call(M!FromItem(Plain(t)), "table", t)>>)
        @@ "mysql values" :> part(<<ARow>>)
        @@ "mysql insert" :> part(<<Call(M!FromItem(Plain(t)), "target", t)>>)
        @@ "mysql replace" :> part(<<Call(M!FromItem(Plain(t)), "target", t)>>)
        @@ "mysql update" :> part(<<FromU(M!TargetTable), SetAB>>)
        @@ "mysql delete" :> part(<<DeleteFrom>>) \o <<<<MultiDelete, FromU(M!FromItem)>>>>
        @@ "sqlite select" :> <<<<>>, SqliteFrom>>
        @@ "sqlite insert" :> part(<<Target(S!IntoTable)>>)
        @@ "sqlite update" :> part(<<Target(S!TargetTable), SetAB>>)
        @@ "sqlite delete" :> part(<<Target(S!TargetTable)>>)

\* SQLite's select alone.
MCSqliteSelect == "sqlite select" :> <<<<>>>>
=============================================================================
