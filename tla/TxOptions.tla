------------------------------ MODULE TxOptions ------------------------------
(***************************************************************************)
(* TxOptions: what a transaction is asked for, which requests an engine     *)
(* family refuses, the statements the others become, and (external) what    *)
(* the engine then runs the transaction as.                                 *)
(***************************************************************************)
EXTENDS Naturals, Sequences

Families == {"Postgres", "MySql", "Sqlite"}

Unset == "unset"     \* None: the engine's own default

Isolation   == {"ReadUncommitted", "ReadCommitted", "RepeatableRead", "Serializable"}
Access      == {"ReadWrite", "ReadOnly"}
SqliteBegin == {"Deferred", "Immediate", "Exclusive"}

Options == [isolation   : Isolation \union {Unset},
            access      : Access \union {Unset},
            sqliteBegin : SqliteBegin \union {Unset}]

\* TxOptions::new: no option set.
NoOptions == [isolation |-> Unset, access |-> Unset, sqliteBegin |-> Unset]

\* TxOptions::check, the refusals of plan_postgres, plan_mysql and plan_sqlite.
\* Mutant: PostgreSQL takes READ UNCOMMITTED, which it accepts and does not run.
RefusesLess(family, o) ==
    IF family = "Sqlite" THEN o.isolation \notin {Unset, "Serializable"} \/ o.access = "ReadOnly"
    ELSE o.sqliteBegin # Unset
Refuses(family, o) ==
    CASE family = "Postgres" ->
           o.sqliteBegin # Unset \/ o.isolation = "ReadUncommitted"
      [] family = "MySql" -> o.sqliteBegin # Unset
      [] OTHER ->
           o.isolation \notin {Unset, "Serializable"} \/ o.access = "ReadOnly"

\* A statement of a plan: SET TRANSACTION, which carries a level, or the BEGIN,
\* which carries what its family's grammar lets it carry.
SetLevel(level) ==
    [verb |-> "set", isolation |-> level, access |-> Unset, sqliteBegin |-> Unset]
BeginAs(level, access, mode) ==
    [verb |-> "begin", isolation |-> level, access |-> access, sqliteBegin |-> mode]

\* TxOptions::plan, for a request the family does not refuse.
Plan(family, o) ==
    CASE family = "Postgres" -> <<BeginAs(o.isolation, o.access, Unset)>>
      [] family = "MySql" ->
           IF o.isolation = Unset THEN <<BeginAs(Unset, o.access, Unset)>>
           ELSE <<SetLevel(o.isolation), BeginAs(Unset, o.access, Unset)>>
      [] OTHER -> <<BeginAs(Unset, Unset, o.sqliteBegin)>>

-----------------------------------------------------------------------------
(* The engines.                                                            *)

Default(family) ==
    [isolation   |-> CASE family = "Postgres" -> "ReadCommitted"
                       [] family = "MySql"    -> "RepeatableRead"
                       [] OTHER               -> "Serializable",
     access      |-> "ReadWrite",
     sqliteBegin |-> IF family = "Sqlite" THEN "Deferred" ELSE Unset]

Or(value, default) == IF value = Unset THEN default ELSE value

\* What a BEGIN opens on a connection whose one-shot level is next.  SQLite has
\* one level and no access mode, PostgreSQL nothing below READ COMMITTED.
Opened(family, begin, next) ==
    [isolation   |-> CASE family = "Postgres" /\ begin.isolation = "ReadUncommitted" ->
                            "ReadCommitted"
                       [] family = "Sqlite" -> "Serializable"
                       [] OTHER -> Or(Or(begin.isolation, next), Default(family).isolation),
     access      |-> Or(begin.access, Default(family).access),
     sqliteBegin |-> Or(begin.sqliteBegin, Default(family).sqliteBegin)]

\* What the caller asked for, the engine's defaults where it asked for nothing.
Asked(family, o) ==
    [isolation   |-> Or(o.isolation, Default(family).isolation),
     access      |-> Or(o.access, Default(family).access),
     sqliteBegin |-> Or(o.sqliteBegin, Default(family).sqliteBegin)]
=============================================================================
