---------------------------- MODULE ColumnTypes ----------------------------
(***************************************************************************)
(* The Rust type of a column (typemap.rs): the overrides of the             *)
(* configuration, its type map, the built-in tables of each dialect.        *)
(*                                                                          *)
(* A declared type is the sequence of its pieces, a precision or a display  *)
(* width being a piece of its own: "timestamp(3) with time zone" is         *)
(* <<"timestamp", "(3)", "with time zone">>.                                *)
(***************************************************************************)
EXTENDS Sequences, SequencesExt, Integers, FiniteSets

Widths   == {"(1)", "(3)", "(10)", "(10,2)"}
Unmapped == "no type"

\* Lowercased, cut at the first parenthesis.
Normalise(type) ==
    SubSeq(type, 1, Cardinality({i \in 1..Len(type) :
                        \A j \in 1..i : type[j] \notin Widths}))

-----------------------------------------------------------------------------
\* The built-in tables.

PsqlTypes == <<
    [spelled |-> {<<"smallint">>, <<"int2">>},         rust |-> "i16"],
    [spelled |-> {<<"integer">>, <<"int4">>},          rust |-> "i32"],
    [spelled |-> {<<"bigint">>, <<"int8">>},           rust |-> "i64"],
    [spelled |-> {<<"real">>, <<"float4">>},           rust |-> "f32"],
    [spelled |-> {<<"double precision">>, <<"float8">>}, rust |-> "f64"],
    [spelled |-> {<<"boolean">>, <<"bool">>},          rust |-> "bool"],
    [spelled |-> {<<"text">>, <<"character varying">>, <<"varchar">>, <<"character">>,
                  <<"bpchar">>, <<"citext">>, <<"name">>}, rust |-> "String"],
    [spelled |-> {<<"bytea">>},                        rust |-> "Vec<u8>"],
    [spelled |-> {<<"date">>},                         rust |-> "NaiveDate"],
    [spelled |-> {<<"time">>, <<"time", "without time zone">>}, rust |-> "NaiveTime"],
    [spelled |-> {<<"timestamp">>, <<"timestamp", "without time zone">>},
                                                       rust |-> "NaiveDateTime"],
    [spelled |-> {<<"timestamptz">>, <<"timestamp", "with time zone">>},
                                                       rust |-> "DateTime<Utc>"],
    [spelled |-> {<<"uuid">>},                         rust |-> "Uuid"],
    [spelled |-> {<<"numeric">>, <<"decimal">>},       rust |-> "Decimal"],
    [spelled |-> {<<"json">>, <<"jsonb">>},            rust |-> "Json"] >>

MysqlTypes == <<
    [spelled |-> {<<"bool">>, <<"boolean">>},          rust |-> "bool"],
    [spelled |-> {<<"tinyint">>},                      rust |-> "i8"],
    [spelled |-> {<<"smallint">>},                     rust |-> "i16"],
    [spelled |-> {<<"mediumint">>, <<"int">>, <<"integer">>}, rust |-> "i32"],
    [spelled |-> {<<"bigint">>},                       rust |-> "i64"],
    [spelled |-> {<<"tinyint", "unsigned">>},          rust |-> "u8"],
    [spelled |-> {<<"smallint", "unsigned">>},         rust |-> "u16"],
    [spelled |-> {<<t, "unsigned">> : t \in {"mediumint", "int", "integer"}}, rust |-> "u32"],
    [spelled |-> {<<"bigint", "unsigned">>},           rust |-> "u64"],
    [spelled |-> {<<"float">>},                        rust |-> "f32"],
    [spelled |-> {<<"double">>, <<"double precision">>, <<"real">>}, rust |-> "f64"],
    [spelled |-> {<<"decimal">>, <<"numeric">>},       rust |-> "Decimal"],
    [spelled |-> {<<"char">>, <<"varchar">>, <<"tinytext">>, <<"text">>, <<"mediumtext">>,
                  <<"longtext">>, <<"enum">>, <<"set">>}, rust |-> "String"],
    [spelled |-> {<<"binary">>, <<"varbinary">>, <<"tinyblob">>, <<"blob">>,
                  <<"mediumblob">>, <<"longblob">>},   rust |-> "Vec<u8>"],
    [spelled |-> {<<"date">>},                         rust |-> "NaiveDate"],
    [spelled |-> {<<"time">>},                         rust |-> "NaiveTime"],
    [spelled |-> {<<"datetime">>},                     rust |-> "NaiveDateTime"],
    [spelled |-> {<<"timestamp">>},                    rust |-> "DateTime<Utc>"],
    [spelled |-> {<<"json">>},                         rust |-> "Json"] >>

\* SQLite matches the declarations that carry an intent by name, the others
\* by what they contain; the substrings each declaration of the model has.
SqliteNamed == <<
    [spelled |-> {<<"boolean">>, <<"bool">>},          rust |-> "bool"],
    [spelled |-> {<<"datetime">>, <<"timestamp">>},    rust |-> "NaiveDateTime"],
    [spelled |-> {<<"date">>},                         rust |-> "NaiveDate"],
    [spelled |-> {<<"time">>},                         rust |-> "NaiveTime"],
    [spelled |-> {<<>>},                               rust |-> "Vec<u8>"] >>

Substrings ==
    [integer |-> {"int"}, bigint |-> {"int"}, varchar |-> {"char"}, text |-> {"text"},
     clob |-> {"clob"}, blob |-> {"blob"}, real |-> {"real"}, double |-> {"doub"},
     decimal |-> {"dec"}, numeric |-> {"numeric"}, charint |-> {"char", "int"}]

Carries(norm, parts) ==
    norm # <<>> /\ norm[1] \in DOMAIN Substrings /\ Substrings[norm[1]] \cap parts # {}

FirstSpelled(table, norm) ==
    IF \E i \in DOMAIN table : norm \in table[i].spelled
    THEN table[CHOOSE i \in DOMAIN table : norm \in table[i].spelled].rust ELSE Unmapped

SqliteDefault(norm, default) ==
    IF FirstSpelled(SqliteNamed, norm) # Unmapped THEN FirstSpelled(SqliteNamed, norm)
    ELSE IF Carries(norm, {"int"}) THEN "i64"
    ELSE IF Carries(norm, {"char", "clob", "text"})
         THEN IF default = "CURRENT_TIMESTAMP" THEN "NaiveDateTime" ELSE "String"
    ELSE IF Carries(norm, {"blob"}) THEN "Vec<u8>"
    ELSE IF Carries(norm, {"real", "floa", "doub"}) THEN "f64"
    ELSE IF Carries(norm, {"dec", "numeric"}) THEN "Decimal"
    ELSE Unmapped

\* TINYINT(1) is MySQL's boolean: the one decision the width takes part in.
MysqlDefault(type) ==
    IF Len(type) > 1 /\ type[1] = "tinyint" /\ type[2] = "(1)"
    THEN "bool" ELSE FirstSpelled(MysqlTypes, Normalise(type))

DefaultType(dialect, column) ==
    CASE dialect = "psql"   -> FirstSpelled(PsqlTypes, Normalise(column.db_type))
      [] dialect = "sqlite" -> SqliteDefault(Normalise(column.db_type), column.default)
      [] dialect = "mysql"  -> MysqlDefault(column.db_type)

-----------------------------------------------------------------------------
\* The configuration's say: a matcher is the set of conditions it states.

Matches(matcher, column) ==
    /\ \A name \in matcher.name : name = column.name
    /\ \A type \in matcher.db_type : Normalise(type) = Normalise(column.db_type)
    /\ \A nullable \in matcher.nullable : nullable = column.nullable
    /\ \A default \in matcher.default : default = column.default
    /\ \A auto \in matcher.autoincrement : auto = column.autoincrement
    /\ \A comment \in matcher.comment : comment = column.comment

\* The first override in scope that matches, then the map, then the table.
Fits(override, table, column) ==
    (override.tables = {} \/ table \in override.tables) /\ Matches(override.matcher, column)

RustType(dialect, types, table, column) ==
    LET fitting == {i \in DOMAIN types.overrides : Fits(types.overrides[i], table, column)}
        norm    == Normalise(column.db_type)
    IN  IF fitting # {}
        THEN [rust |-> types.overrides[CHOOSE i \in fitting : \A j \in fitting : i <= j].rust_type,
              overridden |-> TRUE]
        ELSE IF norm \in DOMAIN types.map THEN [rust |-> types.map[norm], overridden |-> TRUE]
        ELSE [rust |-> DefaultType(dialect, column), overridden |-> FALSE]

============================================================================
