------------------------------- MODULE Values -------------------------------
(***************************************************************************)
(* A cell's way to the database and back: ToValue and FromValue of          *)
(* keelson-core, bind_args and decode_value of the three keelson-sqlx       *)
(* backends, and what the engine does to a value in between.                *)
(*                                                                          *)
(* An integer type of w bits keeps w/8 + 1 of them here (Bits), so that its *)
(* range is a proper part of the next wider one's and signed and unsigned   *)
(* ranges of one width overlap without containing each other.               *)
(*                                                                          *)
(* A number, of any type, is the integer nearest to it and the digits it    *)
(* has beyond it: <<1, "">> and <<1, "0.99">>.                              *)
(***************************************************************************)
EXTENDS ColumnTypes

Refused == [type |-> "refused"]
Null    == [type |-> "Null"]

-----------------------------------------------------------------------------
\* Rust values, and the Value each one becomes.

Bits == [i8 |-> 2, i16 |-> 3, i32 |-> 5, i64 |-> 9, u8 |-> 2, u16 |-> 3, u32 |-> 5, u64 |-> 9]

Signed   == {"i8", "i16", "i32", "i64"}
Unsigned == {"u8", "u16", "u32", "u64"}
Integral == Signed \cup Unsigned
Floats   == {"f32", "f64"}
Texty    == {"NaiveDate", "NaiveTime", "NaiveDateTime", "DateTime<Utc>", "Uuid", "Json"}
RustTypes == Integral \cup Floats \cup {"bool", "Decimal", "String", "Vec<u8>"} \cup Texty

Lowest(t)  == IF t \in Signed THEN -(2 ^ (Bits[t] - 1)) ELSE 0
Highest(t) == IF t \in Signed THEN 2 ^ (Bits[t] - 1) - 1 ELSE 2 ^ Bits[t] - 1

Whole(n)  == <<n, "">>
Numerals  == {Whole(1), <<1, "0.99">>}
\* A fraction no float represents: the f64 nearest to it is another number
\* than the f32, which is an f64 too.
Tenth(t)  == <<0, IF t = "f32" THEN "0.1f" ELSE "0.1">>
Short(v)  == IF v = Tenth("f64") THEN Tenth("f32") ELSE v

\* Ends of each range, the values either side of zero, a fraction; all of them
\* values a column declared for their type represents (a scale too short
\* rounds in the engine, and a fixed length pads, whatever the generator does).
RustValues(t) ==
    CASE t \in Integral    -> {[type |-> t, v |-> Whole(n)] : n \in {Lowest(t), 0, 1, Highest(t)}}
      [] t \in Floats      -> {[type |-> t, v |-> v] : v \in {Whole(-1), Whole(0), Whole(1), Tenth(t)}}
      [] t = "bool"        -> {[type |-> t, v |-> Whole(n)] : n \in {0, 1}}
      [] t = "Decimal"     -> {[type |-> t, v |-> v] : v \in Numerals}
      [] t = "String"      -> {[type |-> t, v |-> v] : v \in Numerals \cup {<<"words">>}}
      [] t = "Vec<u8>"     -> {[type |-> t, v |-> v] : v \in {<<"a">>, <<"b">>}}
      [] t \in Texty       -> {[type |-> t, v |-> v] : v \in {"a", "b"}}

\* One variant per type; only an Option brings Null.
ToValue(rust) == rust

-----------------------------------------------------------------------------
\* Binding.  A text is the number or the typed value it spells, or neither.

Numbers == Integral \cup Floats \cup {"Decimal"}

TextOf(value) ==
    [type |-> "String",
     v |-> IF value.type \in Numbers \cup {"String", "Vec<u8>"} THEN value.v
           ELSE <<value.type, value.v, "ISO">>]

\* The next signed type that holds it; a u64 must fit i64 or is refused.
Widen(value, to) ==
    IF value.v[1] > Highest(to) THEN Refused ELSE [type |-> to, v |-> value.v]

PsqlParameter(value) ==
    CASE value.type \in {"i8", "u8"} -> Widen(value, "i16")
      [] value.type = "u16"          -> Widen(value, "i32")
      [] value.type \in {"u32", "u64"} -> Widen(value, "i64")
      [] OTHER                       -> value

\* A bool is stored as an integer, what has no storage class as text.
SqliteParameter(value) ==
    CASE value.type \in Integral \cup {"bool"} -> Widen(value, "i64")
      [] value.type = "f32"       -> [value EXCEPT !.type = "f64"]
      [] value.type \in {"Decimal"} \cup Texty -> TextOf(value)
      [] OTHER                    -> value

MysqlParameter(value) == IF value.type = "Uuid" THEN TextOf(value) ELSE value

Parameter(dialect, value) ==
    CASE dialect = "psql"   -> PsqlParameter(value)
      [] dialect = "sqlite" -> SqliteParameter(value)
      [] dialect = "mysql"  -> MysqlParameter(value)

-----------------------------------------------------------------------------
\* The engines.  A column's own type is its declaration without the widths.

Plain(type) == SelectSeq(type, LAMBDA piece : piece \notin Widths)

\* What a column of PostgreSQL and of MySQL holds; MySQL keeps the unsigned
\* of a type with a display width.
HeldAs(dialect, type) ==
    IF dialect = "psql" THEN FirstSpelled(PsqlTypes, Plain(type))
    ELSE IF type = <<"tinyint", "(1)">> THEN "bool" ELSE FirstSpelled(MysqlTypes, Plain(type))

\* A number in a numeric column: rounded to an integer, which must fit, or to
\* what a short float has room for.
AsNumber(held, v) ==
    CASE held \in Integral -> IF v[1] \in Lowest(held)..Highest(held)
                              THEN [type |-> held, v |-> Whole(v[1])] ELSE Refused
      [] held = "f32"      -> [type |-> held, v |-> Short(v)]
      [] OTHER             -> [type |-> held, v |-> v]

\* The engine's own spelling in a column of text: neither writes a timestamp
\* the way RFC 3339 does, and PostgreSQL spells bytes in hexadecimal.
Written(dialect, parameter) ==
    IF parameter.type = "DateTime<Utc>" \/ (dialect = "psql" /\ parameter.type = "Vec<u8>")
    THEN [type |-> "String", v |-> <<parameter.type, parameter.v, "the engine's">>]
    ELSE TextOf(parameter)

\* PostgreSQL assigns dates and timestamps to one another; MySQL converts
\* anything to anything or fails.
Instants == {"NaiveDate", "NaiveDateTime", "DateTime<Utc>"}
Converts(dialect, held, type) ==
    \/ dialect = "mysql"
    \/ {held, type} \subseteq Instants
    \/ held = "NaiveTime" /\ type \in Instants \ {"NaiveDate"}

\* An assignment: a column of text takes the spelling of anything.
Assigned(dialect, held, parameter) ==
    IF held = parameter.type THEN parameter
    ELSE IF {held, parameter.type} \subseteq Numbers THEN AsNumber(held, parameter.v)
    ELSE IF held = "String" THEN Written(dialect, parameter)
    ELSE IF Converts(dialect, held, parameter.type) THEN [type |-> held, v |-> "converted"]
    ELSE Refused

\* SQLite: by affinity, a number's spelling becomes the number.
Affinity(type) ==
    LET norm == Plain(type)
    IN  IF Carries(norm, {"int"}) THEN "integer"
        ELSE IF Carries(norm, {"char", "clob", "text"}) THEN "text"
        ELSE IF norm = <<>> \/ Carries(norm, {"blob"}) THEN "blob"
        ELSE IF Carries(norm, {"real", "floa", "doub"}) THEN "real"
        ELSE "numeric"

Numeral(text) ==
    IF text \in Numerals THEN [type |-> IF text = Whole(1) THEN "i64" ELSE "f64", v |-> text]
    ELSE [type |-> "String", v |-> text]

\* A whole number is an integer where one is preferred, and text in text.
SqliteHeld(type, parameter) ==
    LET number == IF parameter.type = "String" THEN Numeral(parameter.v) ELSE parameter
    IN  CASE Affinity(type) \in {"integer", "numeric"} ->
                IF parameter.type = "f64" /\ parameter.v[2] = ""
                THEN [parameter EXCEPT !.type = "i64"] ELSE number
          [] Affinity(type) = "real" ->
                IF number.type = "i64" THEN [number EXCEPT !.type = "f64"] ELSE number
          [] Affinity(type) = "text" /\ parameter.type \in {"i64", "f64"} -> TextOf(parameter)
          [] OTHER -> parameter

Held(dialect, type, parameter) ==
    IF parameter.type \in {"refused", "Null"} THEN parameter
    ELSE IF dialect = "sqlite" THEN SqliteHeld(type, parameter)
    ELSE Assigned(dialect, HeldAs(dialect, type), parameter)

-----------------------------------------------------------------------------
\* Decoding.

\* PostgreSQL: citext is no type decode_value knows.
PsqlDecoded(type, held) ==
    IF <<"citext">> = Plain(type) THEN Refused ELSE held

\* SQLite: by what the declaration names, else by the storage class; the one
\* nicety is that a boolean column reads as bool.
SqliteDecoded(type, held) ==
    LET norm == Plain(type)
    IN  CASE norm \in {<<"boolean">>, <<"bool">>} ->
                IF held.type = "i64" /\ held.v \in {Whole(0), Whole(1)}
                THEN [held EXCEPT !.type = "bool"] ELSE Refused
          [] norm \in {<<"date">>, <<"time">>, <<"datetime">>, <<"timestamp">>}
             \/ Affinity(type) = "text" ->
                IF held.type = "String" THEN held ELSE Refused
          [] Affinity(type) = "integer" -> IF held.type = "i64" THEN held ELSE Refused
          [] Affinity(type) = "real"    -> IF held.type = "f64" THEN held ELSE Refused
          [] norm # <<>> /\ Affinity(type) = "blob" ->
                IF held.type \in {"String", "Vec<u8>"}
                THEN [type |-> "Vec<u8>", v |-> held.v] ELSE Refused
          [] OTHER -> held

Decoded(dialect, type, held) ==
    IF held.type \in {"refused", "Null"} THEN held
    ELSE CASE dialect = "psql"   -> PsqlDecoded(type, held)
           [] dialect = "sqlite" -> SqliteDecoded(type, held)
           [] dialect = "mysql"  -> held

-----------------------------------------------------------------------------
\* FromValue: the variant itself, its text form, or a number that fits.

Spelled(t, text) ==
    CASE t \in Texty /\ text \in {<<t, x, "ISO">> : x \in {"a", "b"}} -> [type |-> t, v |-> text[2]]
      [] t = "Decimal" /\ text \in Numerals          -> [type |-> t, v |-> text]
      [] t = "Vec<u8>"                               -> [type |-> t, v |-> text]
      [] OTHER                                       -> Refused

FitsIn(t, value) ==
    IF value.v[1] \in Lowest(t)..Highest(t) THEN [type |-> t, v |-> value.v] ELSE Refused

\* Mutant: a Decimal takes the digits of the binary fraction it is handed.
FromValueInventive(t, value) ==
    IF value.type \in {"refused", "Null", t} THEN value
    ELSE CASE value.type = "String"                                  -> Spelled(t, value.v)
           [] t \in Integral /\ value.type \in Integral              -> FitsIn(t, value)
           [] t = "Decimal" /\ value.type \in Floats -> [type |-> t, v |-> <<1, "0.9899">>]
           [] t = "f32" /\ value.type \in Integral \cup {"f64"}      -> [type |-> t, v |-> Short(value.v)]
           [] t = "f64" /\ value.type \in Integral \cup {"f32"}      -> [type |-> t, v |-> value.v]
           [] t = "Decimal" /\ value.type \in Integral               -> [type |-> t, v |-> value.v]
           [] OTHER                                                  -> Refused

\* A float is never a Decimal, an integer never a bool.  (Bytes are a Uuid when
\* there are 16 of them: keelson binds none as bytes, and its text has 36.)
FromValue(t, value) ==
    IF value.type \in {"refused", "Null", t} THEN value
    ELSE CASE value.type = "String"                                  -> Spelled(t, value.v)
           [] t \in Integral /\ value.type \in Integral              -> FitsIn(t, value)
           [] t = "f32" /\ value.type \in Integral \cup {"f64"}      -> [type |-> t, v |-> Short(value.v)]
           [] t = "f64" /\ value.type \in Integral \cup {"f32"}      -> [type |-> t, v |-> value.v]
           [] t = "Decimal" /\ value.type \in Integral               -> [type |-> t, v |-> value.v]
           [] OTHER                                                  -> Refused

\* A field that is not an Option refuses NULL.
FromNullable(t, nullable, value) ==
    IF value = Null /\ ~nullable THEN Refused ELSE FromValue(t, value)

\* A column's field, Option when the column is nullable.
CellValues(column) == RustValues(column.rust_type) \cup (IF column.nullable THEN {Null} ELSE {})

Stored(dialect, column, rust) ==
    Held(dialect, column.db_type, Parameter(dialect, ToValue(rust)))

ReadBack(dialect, column, rust) ==
    FromNullable(column.rust_type, column.nullable,
                 Decoded(dialect, column.db_type, Stored(dialect, column, rust)))

\* The columns an engine other than SQLite narrows a value for without a word,
\* when the field has the type an override named: an integer column rounds
\* what has a fraction, a short float column shortens, and the text of bytes
\* in PostgreSQL is other bytes.
Narrows(dialect, column) ==
    LET held == HeldAs(dialect, column.db_type)
        t    == column.rust_type
    IN  /\ dialect # "sqlite"
        /\ \/ held \in Integral /\ t \in Floats \cup {"Decimal"}
           \/ held = "f32" /\ t = "f64"
           \/ dialect = "psql" /\ held = "String" /\ t = "Vec<u8>"

============================================================================
