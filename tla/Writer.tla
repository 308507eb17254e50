------------------------------ MODULE Writer ------------------------------
(***************************************************************************)
(* keelson-core's SqlWriter: the text, the arguments, the placeholder       *)
(* counter and the first recorded error of one statement, and the dialect   *)
(* it is being rendered for.  What an expression writes is left to Parts:   *)
(* Expression is an open trait, and the writer's promises must not depend   *)
(* on who implements it.                                                    *)
(*                                                                         *)
(* The calls still to be made are kept in todo, a stack: write_sql of an    *)
(* expression replaces it by the calls that expression makes.               *)
(***************************************************************************)
EXTENDS Naturals, Sequences

CONSTANTS
  Parts(_),       \* the calls write_sql of an expression makes, in order
  Fragment,       \* the expressions a caller builds
  Dialect,        \* the dialects
  NamedDialects,  \* those with a syntax for named arguments
  Word,           \* what may be written as it is
  Value,          \* what may be bound
  Start           \* the positions build_from may start at

ASSUME StartAssumption == Start \subseteq Nat \ {0}
ASSUME NamedAssumption == NamedDialects \subseteq Dialect

VARIABLES
  fragment,   \* what is rendered
  family,     \* the dialect of the outermost writer
  start,      \* its first position
  todo,       \* the calls still to be made
  text,       \* SqlWriter::sql, as tokens
  args,       \* SqlWriter::args
  next,       \* SqlWriter::next_arg
  error,      \* SqlWriter::error
  dialect,    \* SqlWriter::dialect of the writer in use
  faults,     \* every error anybody recorded (history)
  outcome     \* of finish

vars == <<fragment, family, start, todo, text, args, next, error, dialect, faults, outcome>>
asked == <<fragment, family, start>>

\* The errors that can be recorded.
Errors  == {"NoNamedArgs", "RawArgCount", "Incomplete", "ConflictingClauses", "Other"}
NoError == "none"

(* The calls.                                                              *)
Str(s)         == [do |-> "str", what |-> s]
Bind(v)        == [do |-> "arg", value |-> v]
Named(name)    == [do |-> "named", what |-> name]
Fault(e)       == [do |-> "error", what |-> e]
Write(e)       == [do |-> "expr", expr |-> e]
Within(d, e)   == [do |-> "with", dialect |-> d, expr |-> e]
Back(d, n, e)  == [do |-> "back", dialect |-> d, next |-> n, error |-> e]

\* push_str of a string that may be empty.
Text(s) == IF s = "" THEN <<>> ELSE <<Str(s)>>

\* write_slice and write_iter: nothing at all when there is nothing to write.
Slice(items, prefix, sep, suffix) ==
    IF items = <<>> THEN <<>>
    ELSE Text(prefix)
           \o [i \in 1 .. 2 * Len(items) - 1 |->
                 IF i % 2 = 1 THEN Write(items[(i + 1) \div 2]) ELSE Str(sep)]
           \o Text(suffix)

\* write_if and write_if_some, which takes no or one expression.
If(cond, prefix, e, suffix) ==
    IF cond THEN Text(prefix) \o <<Write(e)>> \o Text(suffix) ELSE <<>>

(* The tokens of the text: SQL, the placeholder of an argument (which value *)
(* it was written for is history), the placeholder of a named argument.     *)
Sql(s)            == [is |-> "sql", what |-> s]
Place(d, n, v)    == [is |-> "arg", dialect |-> d, number |-> n, value |-> v]
NamePlace(name)   == [is |-> "named", what |-> name]

Token == [is : {"sql"}, what : Word]
           \union [is : {"arg"}, dialect : Dialect, number : Nat \ {0}, value : Value]
           \union [is : {"named"}, what : Word]

-----------------------------------------------------------------------------

\* Positions are 1-based.
First(position) == position

\* SqlWriter::with_start, about to render the fragment.
Init ==
    /\ fragment \in Fragment
    /\ family \in Dialect
    /\ start \in Start
    /\ todo = <<Write(fragment.expr)>>
    /\ text = <<>>
    /\ args = <<>>
    /\ next = First(start)
    /\ error = NoError
    /\ dialect = family
    /\ faults = <<>>
    /\ outcome = "rendering"

Doing(call) == todo # <<>> /\ Head(todo).do = call

\* push_str, push_usize and push_quoted.
PushStr ==
    /\ Doing("str")
    /\ Head(todo).what \in Word
    /\ text' = Append(text, Sql(Head(todo).what))
    /\ todo' = Tail(todo)
    /\ UNCHANGED <<asked, args, next, error, dialect, faults, outcome>>

\* Mutant: the placeholder is written after the position is advanced.
PushArgLate(v) ==
    /\ text' = Append(text, Place(dialect, next + 1, v))
    /\ args' = Append(args, v)
    /\ next' = next + 1

\* push_arg: the placeholder, the value and the counter move together.
PushArg(v) ==
    /\ text' = Append(text, Place(dialect, next, v))
    /\ args' = Append(args, v)
    /\ next' = next + 1

Argument ==
    /\ Doing("arg")
    /\ Head(todo).value \in Value
    /\ PushArg(Head(todo).value)
    /\ todo' = Tail(todo)
    /\ UNCHANGED <<asked, error, dialect, faults, outcome>>

\* record_error: the first one wins.
Record(e) ==
    /\ faults' = Append(faults, e)
    /\ error' = IF error = NoError THEN e ELSE error

RecordError ==
    /\ Doing("error")
    /\ Head(todo).what \in Errors
    /\ Record(Head(todo).what)
    /\ todo' = Tail(todo)
    /\ UNCHANGED <<asked, text, args, next, dialect, outcome>>

\* push_named_arg: binds nothing and consumes no position, where the dialect
\* has it; elsewhere the failure is recorded and nothing is written.
PushNamedArg ==
    /\ Doing("named")
    /\ Head(todo).what \in Word
    /\ IF dialect \in NamedDialects
         THEN text' = Append(text, NamePlace(Head(todo).what)) /\ UNCHANGED <<error, faults>>
         ELSE Record("NoNamedArgs") /\ UNCHANGED text
    /\ todo' = Tail(todo)
    /\ UNCHANGED <<asked, args, next, dialect, outcome>>

\* write_expr.
WriteExpr ==
    /\ Doing("expr")
    /\ todo' = Parts(Head(todo).expr) \o Tail(todo)
    /\ UNCHANGED <<asked, text, args, next, error, dialect, faults, outcome>>

\* write_with_dialect hands text, arguments, counter and error to a writer of
\* the other dialect.
EnterDialect ==
    /\ Doing("with")
    /\ Head(todo).dialect \in Dialect
    /\ dialect' = Head(todo).dialect
    /\ todo' = <<Write(Head(todo).expr), Back(dialect, next, error)>> \o Tail(todo)
    /\ UNCHANGED <<asked, text, args, next, error, faults, outcome>>

\* What the outer writer goes on with.  Mutants: its own error from
\* before the nested writer, or the nested writer's dialect.
ReturnedOwnError(outer) ==
    [next |-> next, error |-> outer.error, dialect |-> outer.dialect]
ReturnedNested(outer) ==
    [next |-> next, error |-> error, dialect |-> dialect]
Returned(outer) ==
    [next |-> next, error |-> error, dialect |-> outer.dialect]

\* The end of write_with_dialect: everything is moved back but the dialect.
LeaveDialect ==
    /\ Doing("back")
    /\ Head(todo).dialect \in Dialect
    /\ dialect' = Returned(Head(todo)).dialect
    /\ next' = Returned(Head(todo)).next
    /\ error' = Returned(Head(todo)).error
    /\ todo' = Tail(todo)
    /\ UNCHANGED <<asked, text, args, faults, outcome>>

\* finish.
Finish ==
    /\ todo = <<>> /\ outcome = "rendering"
    /\ outcome' = IF error = NoError THEN "ok" ELSE "err"
    /\ UNCHANGED <<asked, todo, text, args, next, error, dialect, faults>>

\* The writer is consumed.
Finished == outcome # "rendering" /\ UNCHANGED vars

Next ==
    \/ PushStr \/ Argument \/ PushNamedArg \/ RecordError
    \/ WriteExpr \/ EnterDialect \/ LeaveDialect
    \/ Finish \/ Finished

Spec == Init /\ [][Next]_vars

-----------------------------------------------------------------------------
(* Properties.                                                             *)

TypeOK ==
    /\ family \in Dialect
    /\ start \in Start
    /\ text \in Seq(Token)
    /\ args \in Seq(Value)
    /\ next \in Nat \ {0}
    /\ error \in Errors \union {NoError}
    /\ dialect \in Dialect
    /\ faults \in Seq(Errors)
    /\ outcome \in {"rendering", "ok", "err"}

IsPlace(i) == text[i].is = "arg"

\* Sub-queries and nested expressions re-index with no bookkeeping (writer.rs,
\* SqlWriter): at every moment the placeholders of the text are numbered from
\* start upwards in the order they stand, one for each argument and no other,
\* through every nesting of expressions and dialects.
NumberedInOrder ==
    /\ next = start + Len(args)
    /\ \A i \in DOMAIN text : IsPlace(i) => text[i].number \in start .. next - 1
    /\ \A i, j \in DOMAIN text :
         i < j /\ IsPlace(i) /\ IsPlace(j) => text[i].number < text[j].number
    /\ \A n \in start .. next - 1 : \E i \in DOMAIN text : IsPlace(i) /\ text[i].number = n

\* Each placeholder's number leads to the value it was written for.
EachItsOwnValue ==
    \A i \in DOMAIN text :
      IsPlace(i) => /\ text[i].number - start + 1 \in DOMAIN args
                    /\ args[text[i].number - start + 1] = text[i].value

\* The k-th argument handed over is the one the k-th placeholder was written for
\* (writer.rs, push_arg).
ArgumentsMatch == TypeOK /\ NumberedInOrder /\ EachItsOwnValue

\* A recorded failure is never lost and never replaced (writer.rs, record_error
\* and finish): SQL is handed over only if nothing failed, at any depth and in any
\* dialect, and what is reported is the first failure.
FirstErrorSurfaces ==
    /\ error = IF faults = <<>> THEN NoError ELSE Head(faults)
    /\ outcome = "ok" => faults = <<>>
    /\ outcome = "err" => error # NoError

\* Rendering a nested query leaves the dialect as it was: the statement ends in the
\* dialect it began in.
DialectRestored == outcome # "rendering" => dialect = family
=============================================================================
