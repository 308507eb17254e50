----------------------------- MODULE Statements -----------------------------
(***************************************************************************)
(* A statement being put together: any of the calls its kind exports, any   *)
(* number of times, in any order, rendered after every one of them and read *)
(* by the engine it is for.  A call comes with what it asks for: the        *)
(* clauses, each with its words, that a reader of the call would expect in  *)
(* the statement.                                                            *)
(***************************************************************************)
EXTENDS Clauses, StatementGrammar

CONSTANTS
    Calls,      \* Calls[kind]: the calls that can be made, each the mod it is and what
                \* it asks for: no words for a clause whose own builder is unfinished
    Starts,     \* Starts[kind]: the sequences of calls a statement starts from
    MaxCalls    \* the calls made on top of those

P == INSTANCE PsqlStatements
M == INSTANCE MysqlStatements
S == INSTANCE SqliteStatements

VARIABLES kind,
          calls,     \* how many were made
          query,
          text,      \* what it renders
          asks       \* what the calls asked for, in their order
vars == <<kind, calls, query, text, asks>>

Kinds == DOMAIN Starts

Rendered(k, q) ==
    CASE k = "psql select"   -> P!Select(q)
      [] k = "psql table"    -> P!Table(q)
      [] k = "psql values"   -> P!ValuesStatement(q)
      [] k = "psql insert"   -> P!Insert(q)
      [] k = "psql update"   -> P!Update(q)
      [] k = "psql delete"   -> P!Delete(q)
      [] k = "psql merge"    -> P!Merge(q)
      [] k = "mysql select"  -> M!Select(q)
      [] k = "mysql table"   -> M!Table(q)
      [] k = "mysql values"  -> M!ValuesStatement(q)
      [] k = "mysql insert"  -> M!Insert(q)
      [] k = "mysql replace" -> M!Replace(q)
      [] k = "mysql update"  -> M!Update(q)
      [] k = "mysql delete"  -> M!Delete(q)
      [] k = "sqlite select" -> S!Select(q)
      [] k = "sqlite insert" -> S!Insert(q)
      [] k = "sqlite update" -> S!Update(q)
      [] k = "sqlite delete" -> S!Delete(q)

GrammarOf(k) ==
    CASE k = "psql select"   -> PsqlSelect
      [] k = "psql table"    -> PsqlTableStatement
      [] k = "psql values"   -> PsqlValues
      [] k = "psql insert"   -> PsqlInsert
      [] k = "psql update"   -> PsqlUpdate
      [] k = "psql delete"   -> PsqlDelete
      [] k = "psql merge"    -> PsqlMerge
      [] k = "mysql select"  -> MysqlSelect
      [] k = "mysql table"   -> MysqlTableStatement
      [] k = "mysql values"  -> MysqlValues
      [] k = "mysql insert"  -> MysqlInsert
      [] k = "mysql replace" -> MysqlReplace
      [] k = "mysql update"  -> MysqlUpdate
      [] k = "mysql delete"  -> MysqlDelete
      [] k = "sqlite select" -> SqliteSelect
      [] k = "sqlite insert" -> SqliteInsert
      [] k = "sqlite update" -> SqliteUpdate
      [] k = "sqlite delete" -> SqliteDelete

-----------------------------------------------------------------------------

\* Where a statement's HasJoins leads: the one table list a join can stand in.
JoinsAt(k) == IF k = "mysql update" THEN "target_table" ELSE "table_ref"

MadeOf(made, q) == FoldLeft(LAMBDA built, call : Apply(built, call.does), q, made)

Init == /\ kind \in Kinds
        /\ calls = 0
        /\ \E i \in DOMAIN Starts[kind] :
              /\ query = MadeOf(Starts[kind][i], New(JoinsAt(kind)))
              /\ asks = FlattenSeq([k \in DOMAIN Starts[kind][i] |-> Starts[kind][i][k].asks])
        /\ text = Rendered(kind, query)

Make(call) == /\ calls < MaxCalls
              /\ calls' = calls + 1
              /\ query' = Apply(query, call.does)
              /\ text' = Rendered(kind, query')
              /\ asks' = asks \o call.asks
              /\ UNCHANGED kind

Next == \E i \in DOMAIN Calls[kind] : Make(Calls[kind][i])
Spec == Init /\ [][Next]_vars

-----------------------------------------------------------------------------
\* What was asked for.

Words(clauses, name) ==
    LET named == SelectSeq(clauses, LAMBDA c : c[1] = name)
    IN  [i \in DOMAIN named |-> named[i][2]]
Asked(name) == Words(asks, name)
Has(name)   == \E i \in DOMAIN asks : asks[i][1] = name

\* A second call replaces the first.
Single == {"recursive", "distinct", "limit", "offset", "fetch", "combined_limit",
           "combined_offset", "combined_fetch", "overriding", "query", "row_alias", "group_distinct",
           "group_with", "lock_in_share_mode", "or_action", "target_columns", "table", "conflict"}

\* A word of another clause, which goes unwritten with it.
Carried == {<<"recursive", "with">>, <<"group_distinct", "group">>, <<"group_with", "group">>}

\* SQLite's VALUES core writes no FROM and does not ask whether a join was hung on it.
LostJoins == kind = "sqlite select" /\ Has("rows") /\ ~Has("table")

\* A query instead of rows, and MySQL's SET instead of either.
Overridden(name) ==
    \/ name = "rows" /\ Has("query")
    \/ name \in {"rows", "query", "target_columns"} /\ kind \in {"mysql insert", "mysql replace"}
       /\ Has("set")
    \/ name = "joins" /\ LostJoins
    \/ \E pair \in Carried : name = pair[1] /\ ~Has(pair[2])

Expected(name) ==
    CASE Overridden(name)  -> <<>>
      [] name \in Single   -> IF Has(name) THEN <<Last(Asked(name))>> ELSE <<>>
      [] name = "columns"  -> Asked("columns") \o Asked("preload")
      [] name = "target"   -> IF kind = "mysql delete" \/ ~Has(name) THEN Asked(name)
                              ELSE <<Last(Asked(name))>>
      [] OTHER             -> Asked(name)

\* A modifier is a flag: where it stands and how often it was given says nothing.
SaidAs(name, found) ==
    IF name = "modifiers" THEN ToSet(found) = ToSet(Expected(name)) ELSE found = Expected(name)

Mentioned(clauses) == {clauses[i][1] : i \in DOMAIN clauses} \ {"preload"}

-----------------------------------------------------------------------------
\* When a statement is not one.

Required ==
    CASE kind \in {"psql insert", "psql delete", "mysql insert", "mysql replace", "mysql delete",
                   "sqlite insert", "sqlite delete"}        -> {"target"}
      [] kind \in {"psql update", "sqlite update"}          -> {"target", "set"}
      [] kind = "mysql update"                              -> {"table", "set"}
      [] kind = "psql merge"                                -> {"target", "table", "on", "whens"}
      [] kind \in {"psql table", "mysql table"}             -> {"table"}
      [] kind \in {"psql values", "mysql values"}           -> {"rows"}
      [] OTHER                                              -> {}

Combined == {"combined_order", "combined_limit", "combined_offset", "combined_fetch"}

\* A clause that has nothing to stand on without another.
Needs ==
    CASE kind \in {"psql select", "psql table", "psql values", "mysql select"} ->
           (Combined \X {"combines"}) \cup IF kind \in {"psql select", "mysql select"}
                                            THEN {"joins", "extra_tables"} \X {"table"} ELSE {}
      [] kind = "sqlite select" ->
           {<<"offset", "limit">>} \cup ((IF Has("rows") THEN {"extra_tables"} ELSE {"joins", "extra_tables"})
                                         \X {"table"})
      [] kind \in {"psql update", "psql delete", "sqlite update", "mysql delete"} ->
           {"joins", "extra_tables"} \X {"table"}
      [] OTHER -> {}

Excludes ==
    CASE kind \in {"psql select", "psql table", "psql values"} ->
           {<<"limit", "fetch">>, <<"combined_limit", "combined_fetch">>}
      [] kind = "sqlite select" -> {"rows"} \X {"columns", "preload", "table", "where", "group",
                                                "having", "windows", "distinct", "extra_tables"}
      [] OTHER -> {}

IncompleteStatement ==
    \/ \E name \in Required : ~Has(name)
    \/ \E pair \in Needs : Has(pair[1]) /\ ~Has(pair[2])
    \/ \E pair \in Excludes : Has(pair[1]) /\ Has(pair[2])
    \/ \E name \in Mentioned(asks) : <<>> \in ToSet(Expected(name))
    \/ kind = "sqlite insert" /\ Has("upserts") /\ ~Has("rows") /\ ~Has("query")

\* What the documentation of a statement says is for the engine to refuse: MySQL's OFFSET
\* without LIMIT and its two locking clauses together (mysql statement/select.rs:39-46),
\* ORDER BY and LIMIT on more than one table (update.rs:33-35, and delete.rs:43 after it),
\* and SQLite's on a VALUES core (sqlite statement/select.rs:49-52).
LeftToTheServer ==
    \/ kind \in {"mysql select", "mysql table"} /\ Has("offset") /\ ~Has("limit")
    \/ kind = "mysql select" /\ Has("combined_offset") /\ ~Has("combined_limit")
    \/ kind = "mysql select" /\ Has("locks") /\ Has("lock_in_share_mode")
    \/ kind = "mysql update" /\ (Has("joins") \/ Has("extra_tables")) /\ (Has("order") \/ Has("limit"))
    \/ kind = "mysql delete" /\ Has("table") /\ (Has("order") \/ Has("limit"))
    \/ kind = "sqlite select" /\ Has("rows") /\ (Has("order") \/ Has("limit")) /\ ~Has("combines")

\* What the grammar over a statement admits, and its engine does not: in PostgreSQL a column
\* list or OVERRIDING before DEFAULT VALUES (psql statement/insert.rs:17-19), in MySQL a
\* row alias after a query (insert.rs:18-25), PARTITION next to USING and several targets
\* without it (delete.rs:22-24).
GrammarTooWide ==
    \/ kind = "psql insert" /\ (Has("overriding") \/ Has("target_columns"))
       /\ ~Has("rows") /\ ~Has("query")
    \/ kind = "mysql insert" /\ Has("row_alias") /\ Has("query") /\ ~Has("set")
    \/ kind = "mysql delete" /\ Has("table") /\ Has("partitions")
    \/ kind = "mysql delete" /\ Len(Asked("target")) > 1 /\ ~Has("table")

-----------------------------------------------------------------------------

TypeOK == /\ kind \in Kinds
          /\ calls \in 0..MaxCalls
          /\ text \in Seq(STRING)
          /\ \A name \in Options : query[name] \in Seq(STRING)
          /\ \A name \in Lists \ {"extra_tables", "delete_tables"} : query[name] \in Seq(Seq(STRING))
          /\ \A name \in {"rows", "set", "returning", "with"} : <<>> \notin ToSet(query[name])
          /\ DOMAIN query = Options \cup Lists \cup {"table_ref", "target_table", "joins_at"}

\* A statement is refused exactly when a clause its engine cannot do without was not
\* asked for, a clause was asked for without the one it stands on, or two were that
\* exclude each other: nothing legal is refused, and nothing half-written is handed over.
RefusedWhenIncomplete == TypeOK /\ (Refused(text) <=> IncompleteStatement)

\* Whatever calls were made, and in whatever order, a statement that is not refused is one
\* its engine accepts, but for what its documentation leaves to the engine; and where the
\* grammar quoted over it admits what the engine's does not, that is what is handed over.
AcceptedByTheEngine ==
    ~Refused(text) /\ ~LeftToTheServer =>
        (Readings(GrammarOf(kind), text) = {} <=> GrammarTooWide)

\* However the engine reads the statement, it finds the clauses that were asked for, with
\* their words, in the order of the calls, and attached where the call said: a tail to
\* the query or to the set operation, a join to the table list.
SaysWhatWasAsked ==
    ~Refused(text) =>
        \A reading \in Readings(GrammarOf(kind), text) :
            \A name \in Mentioned(reading) \cup Mentioned(asks) :
                SaidAs(name, Words(reading, name))

\* What write_from_list records an error for: a join goes unwritten in no statement.
NoJoinIsDropped ==
    ~Refused(text) => \A reading \in Readings(GrammarOf(kind), text) :
                          Words(reading, "joins") = Asked("joins")
=============================================================================
