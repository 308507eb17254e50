---------------------------- MODULE WriterProofs ----------------------------
(***************************************************************************)
(* What SqlWriter promises whatever it is asked to write: Parts, the calls  *)
(* an expression makes, is any operator, so the theorems hold for every     *)
(* implementation of Expression, in keelson or outside it.                  *)
(***************************************************************************)
EXTENDS Writer, SequenceTheorems, TLAPS

\* The steps that append one token which is no argument's placeholder.
AppendsOther ==
  \E t \in Token : t.is # "arg" /\ text' = Append(text, t)

\* The steps that bind one argument.
Binds ==
  \E v \in Value : PushArg(v)

\* What any step does to the text and the arguments.
LEMMA StepShape ==
  ASSUME TypeOK, Next
  PROVE  /\ start' = start
         /\ \/ /\ UNCHANGED <<args, next>>
               /\ UNCHANGED text \/ AppendsOther
            \/ Binds
<1>. USE DEF asked
<1>1. CASE PushStr
  <2>1. Sql(Head(todo).what) \in Token /\ Sql(Head(todo).what).is # "arg"
    BY <1>1 DEF PushStr, Sql, Token
  <2>. QED
    BY <1>1, <2>1 DEF PushStr, AppendsOther
<1>2. CASE Argument
  BY <1>2 DEF Argument, Binds
<1>3. CASE PushNamedArg
  <2>1. NamePlace(Head(todo).what) \in Token /\ NamePlace(Head(todo).what).is # "arg"
    BY <1>3 DEF PushNamedArg, NamePlace, Token
  <2>. QED
    BY <1>3, <2>1 DEF PushNamedArg, AppendsOther
<1>4. CASE RecordError
  BY <1>4 DEF RecordError
<1>5. CASE WriteExpr
  BY <1>5 DEF WriteExpr
<1>6. CASE EnterDialect
  BY <1>6 DEF EnterDialect
<1>7. CASE LeaveDialect
  BY <1>7 DEF LeaveDialect, Returned
<1>8. CASE Finish
  BY <1>8 DEF Finish
<1>9. CASE Finished
  BY <1>9 DEF Finished, vars
<1>. QED
  BY <1>1, <1>2, <1>3, <1>4, <1>5, <1>6, <1>7, <1>8, <1>9 DEF Next

-----------------------------------------------------------------------------

LEMMA TypeInit ==
  Init => TypeOK
<1>. SUFFICES ASSUME Init
              PROVE  TypeOK
  OBVIOUS
<1>1. start \in Nat \ {0} /\ start \in Start /\ next = start
  BY StartAssumption DEF Init, First
<1>2. text \in Seq(Token) /\ args \in Seq(Value) /\ faults \in Seq(Errors)
  BY EmptySeq DEF Init
<1>3. error \in Errors \union {NoError}
  BY DEF Init
<1>4. family \in Dialect /\ dialect \in Dialect /\ outcome = "rendering"
  BY DEF Init
<1>. QED
  BY <1>1, <1>2, <1>3, <1>4 DEF TypeOK

\* What push_named_arg records is an error, and no error is the absence of one.
LEMMA NamedFault ==
  "NoNamedArgs" \in Errors /\ NoError \notin Errors
BY DEF Errors, NoError

LEMMA TypeStep ==
  ASSUME TypeOK, [Next]_vars
  PROVE  TypeOK'
<1>. USE DEF TypeOK, asked
<1>1. CASE PushStr
  <2>1. Sql(Head(todo).what) \in Token
    BY <1>1 DEF PushStr, Sql, Token
  <2>. QED
    BY <1>1, <2>1 DEF PushStr
<1>2. CASE Argument
  <2>1. Place(dialect, next, Head(todo).value) \in Token
    BY <1>2 DEF Argument, Place, Token
  <2>. QED
    BY <1>2, <2>1 DEF Argument, PushArg
<1>3. CASE PushNamedArg
  <2>1. NamePlace(Head(todo).what) \in Token
    BY <1>3 DEF PushNamedArg, NamePlace, Token
  <2>2. Record("NoNamedArgs") =>
          error' \in Errors \union {NoError} /\ faults' \in Seq(Errors)
    BY NamedFault, AppendProperties DEF Record
  <2>3. CASE dialect \in NamedDialects
    BY <1>3, <2>1, <2>3, SMTT(30) DEF PushNamedArg
  <2>4. CASE dialect \notin NamedDialects
    BY <1>3, <2>2, <2>4 DEF PushNamedArg
  <2>. QED
    BY <2>3, <2>4
<1>4. CASE RecordError
  BY <1>4 DEF RecordError, Record
<1>5. CASE WriteExpr
  BY <1>5 DEF WriteExpr
<1>6. CASE EnterDialect
  BY <1>6 DEF EnterDialect
<1>7. CASE LeaveDialect
  BY <1>7 DEF LeaveDialect, Returned
<1>8. CASE Finish
  BY <1>8 DEF Finish
<1>9. CASE Finished \/ UNCHANGED vars
  BY <1>9 DEF Finished, vars
<1>. QED
  BY <1>1, <1>2, <1>3, <1>4, <1>5, <1>6, <1>7, <1>8, <1>9 DEF Next

\* SqlWriter's fields keep their types, whatever is rendered: positions are 1-based
\* and every argument is a value.
THEOREM TypeCorrect == Spec => []TypeOK
<1>. QED
  BY TypeInit, TypeStep, PTL DEF Spec

-----------------------------------------------------------------------------

LEMMA NumberedStep ==
  ASSUME TypeOK, NumberedInOrder, [Next]_vars
  PROVE  NumberedInOrder'
<1>. USE DEF TypeOK, IsPlace
<1>0. start \in Nat
  BY StartAssumption
<1>1. CASE UNCHANGED <<text, args, next, start>>
  BY <1>1 DEF NumberedInOrder
<1>2. CASE AppendsOther /\ UNCHANGED <<args, next, start>>
  <2>1. PICK t \in Token : t.is # "arg" /\ text' = Append(text, t)
    BY <1>2 DEF AppendsOther
  <2>2. /\ DOMAIN text' = 1 .. Len(text) + 1
        /\ \A i \in DOMAIN text : text'[i] = text[i]
        /\ text'[Len(text) + 1].is # "arg"
        /\ DOMAIN text = 1 .. Len(text)
    BY <2>1
  <2>3. \A i \in DOMAIN text' : IsPlace(i)' => i \in DOMAIN text /\ IsPlace(i)
    BY <2>2
  <2>. QED
    BY <1>2, <2>2, <2>3, SMTT(30) DEF NumberedInOrder
<1>3. CASE Binds /\ UNCHANGED start
  <2>1. PICK v \in Value : PushArg(v)
    BY <1>3 DEF Binds
  <2>2. /\ DOMAIN text' = 1 .. Len(text) + 1
        /\ \A i \in DOMAIN text : text'[i] = text[i]
        /\ text'[Len(text) + 1].is = "arg" /\ text'[Len(text) + 1].number = next
        /\ DOMAIN text = 1 .. Len(text)
        /\ Len(text) \in Nat
    <3>1. Place(dialect, next, v) \in Token
      BY DEF Place, Token
    <3>2. text' = Append(text, Place(dialect, next, v))
      BY <2>1 DEF PushArg
    <3>. QED
      BY <3>1, <3>2 DEF Place
  <2>3. Len(args') = Len(args) + 1 /\ next' = next + 1 /\ Len(args) \in Nat
    BY <2>1 DEF PushArg
  <2>4. next' = start' + Len(args')
    BY <1>0, <1>3, <2>3 DEF NumberedInOrder
  <2>5. ASSUME NEW i \in DOMAIN text', IsPlace(i)'
        PROVE  text'[i].number \in start' .. next' - 1
    <3>1. CASE i \in DOMAIN text
      BY <1>0, <1>3, <2>2, <2>3, <2>5, <3>1, SMTT(30) DEF NumberedInOrder
    <3>2. CASE i = Len(text) + 1
      BY <1>0, <1>3, <2>2, <2>3, <3>2 DEF NumberedInOrder
    <3>. QED
      BY <2>2, <3>1, <3>2
  <2>6. ASSUME NEW i \in DOMAIN text', NEW j \in DOMAIN text',
               i < j, IsPlace(i)', IsPlace(j)'
        PROVE  text'[i].number < text'[j].number
    <3>1. i \in DOMAIN text /\ IsPlace(i)
      BY <2>2, <2>6
    <3>2. CASE j \in DOMAIN text
      BY <2>2, <2>6, <3>1, <3>2 DEF NumberedInOrder
    <3>3. CASE j = Len(text) + 1
      BY <1>0, <2>2, <3>1, <3>3 DEF NumberedInOrder
    <3>. QED
      BY <2>2, <3>2, <3>3
  <2>7. ASSUME NEW n \in start' .. next' - 1
        PROVE  \E i \in DOMAIN text' : IsPlace(i)' /\ text'[i].number = n
    <3>1. CASE n = next
      BY <2>2, <3>1
    <3>2. CASE n # next
      <4>1. n \in start .. next - 1
        BY <1>0, <1>3, <2>3, <3>2
      <4>2. PICK i \in DOMAIN text : IsPlace(i) /\ text[i].number = n
        BY <4>1 DEF NumberedInOrder
      <4>. QED
        BY <2>2, <4>2
    <3>. QED
      BY <3>1, <3>2
  <2>. QED
    BY <2>4, <2>5, <2>6, <2>7 DEF NumberedInOrder
<1>4. CASE Next
  <2>1. /\ start' = start
        /\ \/ /\ UNCHANGED <<args, next>>
              /\ UNCHANGED text \/ AppendsOther
           \/ Binds
    BY <1>4, StepShape
  <2>. QED
    BY <1>1, <1>2, <1>3, <2>1
<1>5. CASE UNCHANGED vars
  BY <1>1, <1>5 DEF vars
<1>. QED
  BY <1>4, <1>5

LEMMA NumberedInit ==
  Init => NumberedInOrder
BY StartAssumption DEF Init, NumberedInOrder, First

\* Placeholders are numbered from start upwards in the order they stand in the
\* text, one for each argument, whatever expressions are nested in whatever
\* dialects.
THEOREM NumberedAlways == Spec => []NumberedInOrder
<1>. QED
  BY TypeInit, TypeStep, NumberedInit, NumberedStep, PTL DEF Spec

-----------------------------------------------------------------------------

LEMMA ValueInit ==
  Init => EachItsOwnValue
BY DEF Init, EachItsOwnValue

LEMMA ValueStep ==
  ASSUME TypeOK, NumberedInOrder, EachItsOwnValue, [Next]_vars
  PROVE  EachItsOwnValue'
<1>. USE DEF TypeOK, IsPlace
<1>0. start \in Nat
  BY StartAssumption
<1>1. CASE UNCHANGED <<text, args, start>>
  BY <1>1 DEF EachItsOwnValue
<1>2. CASE AppendsOther /\ UNCHANGED <<args, start>>
  <2>1. PICK t \in Token : t.is # "arg" /\ text' = Append(text, t)
    BY <1>2 DEF AppendsOther
  <2>2. /\ DOMAIN text' = 1 .. Len(text) + 1
        /\ \A i \in DOMAIN text : text'[i] = text[i]
        /\ text'[Len(text) + 1].is # "arg"
        /\ DOMAIN text = 1 .. Len(text)
    BY <2>1
  <2>. QED
    BY <1>2, <2>2 DEF EachItsOwnValue
<1>3. CASE Binds /\ UNCHANGED start
  <2>1. PICK v \in Value : PushArg(v)
    BY <1>3 DEF Binds
  <2>2. Place(dialect, next, v) \in Token
    BY DEF Place, Token
  <2>3. /\ DOMAIN text' = 1 .. Len(text) + 1
        /\ \A i \in DOMAIN text : text'[i] = text[i]
        /\ text'[Len(text) + 1] = Place(dialect, next, v)
        /\ DOMAIN text = 1 .. Len(text)
    BY <2>1, <2>2 DEF PushArg
  <2>4. /\ DOMAIN args' = 1 .. Len(args) + 1
        /\ \A k \in DOMAIN args : args'[k] = args[k]
        /\ args'[Len(args) + 1] = v
        /\ DOMAIN args = 1 .. Len(args)
        /\ Len(args) \in Nat
    BY <2>1 DEF PushArg
  <2>5. next - start + 1 = Len(args) + 1
    BY <1>0, <2>4 DEF NumberedInOrder
  <2>6. ASSUME NEW i \in DOMAIN text', IsPlace(i)'
        PROVE  /\ text'[i].number - start' + 1 \in DOMAIN args'
               /\ args'[text'[i].number - start' + 1] = text'[i].value
    <3>1. CASE i \in DOMAIN text
      <4>1. text[i].number - start + 1 \in DOMAIN args
            /\ args[text[i].number - start + 1] = text[i].value
        BY <2>3, <2>6, <3>1 DEF EachItsOwnValue
      <4>. QED
        BY <1>3, <2>3, <2>4, <3>1, <4>1
    <3>2. CASE i = Len(text) + 1
      BY <1>3, <2>3, <2>4, <2>5, <3>2 DEF Place
    <3>. QED
      BY <2>3, <3>1, <3>2
  <2>. QED
    BY <2>6 DEF EachItsOwnValue
<1>4. CASE Next
  <2>1. /\ start' = start
        /\ \/ /\ UNCHANGED <<args, next>>
              /\ UNCHANGED text \/ AppendsOther
           \/ Binds
    BY <1>4, StepShape
  <2>. QED
    BY <1>1, <1>2, <1>3, <2>1
<1>5. CASE UNCHANGED vars
  BY <1>1, <1>5 DEF vars
<1>. QED
  BY <1>4, <1>5

\* The number of a placeholder leads to the value that was pushed with it.
THEOREM ValuesAlways == Spec => []EachItsOwnValue
<1>. QED
  BY TypeInit, TypeStep, NumberedInit, NumberedStep, ValueInit, ValueStep, PTL DEF Spec

\* What is handed to the driver fits the text, for any expressions (writer.rs,
\* push_arg and write_with_dialect).
THEOREM ArgumentsAlways == Spec => []ArgumentsMatch
<1>1. TypeOK /\ NumberedInOrder /\ EachItsOwnValue => ArgumentsMatch
  BY DEF ArgumentsMatch
<1>. QED
  BY <1>1, TypeCorrect, NumberedAlways, ValuesAlways, PTL

-----------------------------------------------------------------------------

\* What record_error does to the error and its history.
LEMMA RecordKeepsFirst ==
  ASSUME TypeOK, NEW e \in Errors, Record(e),
         error = IF faults = <<>> THEN NoError ELSE Head(faults)
  PROVE  error' = Head(faults') /\ faults' # <<>>
<1>1. faults' = Append(faults, e) /\ faults \in Seq(Errors)
  BY DEF Record, TypeOK
<1>2. /\ faults' # <<>>
      /\ Head(faults') = IF faults = <<>> THEN e ELSE Head(faults)
  BY <1>1, AppendProperties, HeadTailAppend
<1>3. faults # <<>> => Head(faults) \in Errors
  BY <1>1, HeadTailProperties
<1>4. error' = IF error = NoError THEN e ELSE error
  BY DEF Record
<1>. QED
  BY <1>2, <1>3, <1>4, NamedFault

LEMMA ErrorInit ==
  Init => FirstErrorSurfaces
BY DEF Init, FirstErrorSurfaces

\* While the writer is in use nothing has been reported.
ReportsLast == outcome # "rendering" => todo = <<>>

LEMMA ErrorStep ==
  ASSUME TypeOK, FirstErrorSurfaces, ReportsLast, [Next]_vars
  PROVE  FirstErrorSurfaces' /\ ReportsLast'
<1>. USE DEF asked, FirstErrorSurfaces, ReportsLast
<1>1. CASE PushStr
  BY <1>1 DEF PushStr, Doing
<1>2. CASE Argument
  BY <1>2 DEF Argument, Doing
<1>3. CASE PushNamedArg
  <2>1. CASE dialect \in NamedDialects
    BY <1>3, <2>1 DEF PushNamedArg, Doing
  <2>2. CASE dialect \notin NamedDialects
    <3>2. Record("NoNamedArgs") /\ outcome = "rendering" /\ outcome' = outcome
      BY <1>3, <2>2 DEF PushNamedArg, Doing, TypeOK
    <3>3. error' = Head(faults') /\ faults' # <<>>
      BY <3>2, NamedFault, RecordKeepsFirst
    <3>. QED
      BY <3>2, <3>3
  <2>. QED
    BY <2>1, <2>2
<1>4. CASE RecordError
  <2>1. PICK e \in Errors : Record(e)
    BY <1>4 DEF RecordError
  <2>2. outcome = "rendering" /\ outcome' = outcome
    BY <1>4 DEF RecordError, Doing, TypeOK
  <2>3. error' = Head(faults') /\ faults' # <<>>
    BY <2>1, RecordKeepsFirst
  <2>. QED
    BY <2>2, <2>3
<1>5. CASE WriteExpr
  BY <1>5 DEF WriteExpr, Doing
<1>6. CASE EnterDialect
  BY <1>6 DEF EnterDialect, Doing
<1>7. CASE LeaveDialect
  BY <1>7 DEF LeaveDialect, Doing, Returned
<1>8. CASE Finish
  <2>1. faults # <<>> => Head(faults) # NoError
    BY NamedFault, HeadTailProperties DEF TypeOK
  <2>. QED
    BY <1>8, <2>1 DEF Finish
<1>9. CASE Finished \/ UNCHANGED vars
  BY <1>9 DEF Finished, vars
<1>. QED
  BY <1>1, <1>2, <1>3, <1>4, <1>5, <1>6, <1>7, <1>8, <1>9 DEF Next

\* No recorded failure is lost in any nesting: SQL is handed over only if none was
\* recorded, and the failure reported is the first.
THEOREM ErrorsAlways == Spec => []FirstErrorSurfaces
<1>1. Init => ReportsLast
  BY DEF Init, ReportsLast
<1>. QED
  BY TypeInit, TypeStep, ErrorInit, ErrorStep, <1>1, PTL DEF Spec

-----------------------------------------------------------------------------
(* The dialect needs to know one thing of Parts: that the end of a nested   *)
(* writer is not among the calls an expression makes.  It is the return of  *)
(* write_with_dialect, so nobody can make it alone.  E is any set of        *)
(* expressions that write one another.                                      *)

Call(E) == [do : {"str", "named"}, what : Word]
             \union [do : {"error"}, what : Errors]
             \union [do : {"arg"}, value : Value]
             \union [do : {"expr"}, expr : E]
             \union [do : {"with"}, dialect : Dialect, expr : E]

WriteOneAnother(E) ==
    /\ \A f \in Fragment : f.expr \in E
    /\ \A e \in E : Parts(e) \in Seq(Call(E))

\* The calls still to be made: an expression's, and the ends of nested writers.
Pending(E) == Call(E) \union [do : {"back"}, dialect : Dialect, next : Nat,
                              error : Errors \union {NoError}]

\* The last writer to end goes back to the dialect of the outermost one; with no
\* nested writer left, it is the one in use.
IsLastBack(calls, i) ==
    /\ i \in DOMAIN calls /\ calls[i].do = "back" /\ calls[i].dialect = family
    /\ \A j \in DOMAIN calls : j > i => calls[j].do # "back"

Unwinds ==
    \/ dialect = family /\ \A i \in DOMAIN todo : todo[i].do # "back"
    \/ \E i \in DOMAIN todo : IsLastBack(todo, i)

Nested(E) == todo \in Seq(Pending(E)) /\ Unwinds /\ ReportsLast

LEMMA CallsOf ==
  ASSUME NEW E, NEW c \in Pending(E)
  PROVE  /\ c.do = "expr" => c.expr \in E
         /\ c.do = "with" => c.expr \in E /\ c.dialect \in Dialect
         /\ c \in Call(E) => c.do # "back"
BY DEF Pending, Call

LEMMA NestedInit ==
  ASSUME NEW E, WriteOneAnother(E), Init
  PROVE  Nested(E)
<1>1. fragment.expr \in E
  BY DEF Init, WriteOneAnother
<1>2. Write(fragment.expr) \in Pending(E) /\ Write(fragment.expr).do # "back"
  BY <1>1 DEF Write, Pending, Call
<1>. QED
  BY <1>2 DEF Init, Nested, Unwinds, ReportsLast

\* A call that is no end of a nested writer is replaced by calls that are none.
LEMMA StaysUnwinding ==
  ASSUME NEW E, Nested(E), todo # <<>>, Head(todo).do # "back",
         NEW calls \in Seq(Call(E)), todo' = calls \o Tail(todo),
         UNCHANGED <<dialect, family, outcome>>
  PROVE  Nested(E)'
<1>. DEFINE k == Len(calls)
<1>1. /\ calls \in Seq(Pending(E)) /\ todo \in Seq(Pending(E))
      /\ \A i \in DOMAIN calls : calls[i].do # "back"
  BY CallsOf DEF Nested, Pending
<1>2. k \in Nat /\ Len(todo) \in Nat \ {0} /\ DOMAIN todo = 1 .. Len(todo)
  BY <1>1
<1>3. /\ todo' \in Seq(Pending(E)) /\ DOMAIN todo' = 1 .. k + Len(todo) - 1
      /\ \A i \in 1 .. k : todo'[i] = calls[i]
      /\ \A i \in 2 .. Len(todo) : todo'[k + i - 1] = todo[i]
  BY <1>1
<1>4. todo[1].do # "back"
  BY <1>1
<1>5. \A j \in DOMAIN todo' :
        \/ j \in 1 .. k /\ todo'[j].do # "back"
        \/ j - k + 1 \in 2 .. Len(todo) /\ todo'[j] = todo[j - k + 1]
  <2>1. SUFFICES ASSUME NEW j \in DOMAIN todo', j \notin 1 .. k
                 PROVE  j - k + 1 \in 2 .. Len(todo) /\ todo'[j] = todo[j - k + 1]
    BY <1>1, <1>3
  <2>2. j - k + 1 \in 2 .. Len(todo) /\ j = k + (j - k + 1) - 1
    BY <1>2, <1>3, <2>1
  <2>. QED
    BY <1>3, <2>2
<1>. HIDE DEF k
<1>6. ReportsLast'
  BY <1>1 DEF Nested, ReportsLast
<1>7. CASE dialect = family /\ \A i \in DOMAIN todo : todo[i].do # "back"
  <2>1. \A j \in DOMAIN todo' : todo'[j].do # "back"
    BY <1>2, <1>5, <1>7, SMTT(30)
  <2>2. dialect' = family'
    BY <1>7
  <2>. QED
    BY <1>3, <1>6, <2>1, <2>2 DEF Nested, Unwinds
<1>8. CASE \E i \in DOMAIN todo : IsLastBack(todo, i)
  <2>1. PICK i \in DOMAIN todo : IsLastBack(todo, i)
    BY <1>8
  <2>2. i \in 2 .. Len(todo)
    BY <1>2, <1>4, <2>1 DEF IsLastBack
  <2>3. k + i - 1 \in DOMAIN todo' /\ todo'[k + i - 1] = todo[i]
    <3>1. k + i - 1 \in 1 .. k + Len(todo) - 1
      BY <1>2, <2>2
    <3>2. todo'[k + i - 1] = todo[i]
      BY <1>3, <2>2
    <3>. QED
      BY <1>3, <3>1, <3>2
  <2>4. \A j \in DOMAIN todo' : j > k + i - 1 => todo'[j].do # "back"
    BY <1>2, <1>5, <2>1, <2>2, <1>3, SMTT(30) DEF IsLastBack
  <2>5. IsLastBack(todo, k + i - 1)'
    BY <2>1, <2>3, <2>4 DEF IsLastBack
  <2>. QED
    BY <1>3, <1>6, <2>3, <2>5 DEF Nested, Unwinds
<1>. QED
  BY <1>7, <1>8 DEF Nested, Unwinds


LEMMA NestedStep ==
  ASSUME NEW E, WriteOneAnother(E), TypeOK, Nested(E), [Next]_vars
  PROVE  Nested(E)'
<1>. USE DEF asked
<1>1. todo \in Seq(Pending(E)) /\ <<>> \in Seq(Call(E))
  BY DEF Nested
<1>2. todo # <<>> => todo = <<Head(todo)>> \o Tail(todo) /\ <<>> \o Tail(todo) = Tail(todo)
  BY <1>1
<1>3. todo # <<>> => Head(todo) \in Pending(E)
  BY <1>1
<1>4. CASE PushStr \/ Argument \/ PushNamedArg \/ RecordError
  <2>1. /\ todo # <<>> /\ Head(todo).do # "back" /\ todo' = Tail(todo)
        /\ UNCHANGED <<dialect, family, outcome>>
    BY <1>4 DEF PushStr, Argument, PushNamedArg, RecordError, Doing
  <2>. QED
    BY <1>1, <1>2, <2>1, StaysUnwinding
<1>5. CASE WriteExpr
  <2>1. todo # <<>> /\ Head(todo).do = "expr" /\ UNCHANGED <<dialect, family, outcome>>
    BY <1>5 DEF WriteExpr, Doing
  <2>2. Parts(Head(todo).expr) \in Seq(Call(E))
    BY <1>3, <2>1, CallsOf DEF WriteOneAnother
  <2>3. todo' = Parts(Head(todo).expr) \o Tail(todo)
    BY <1>5 DEF WriteExpr
  <2>. QED
    BY <2>1, <2>2, <2>3, StaysUnwinding
<1>6. CASE EnterDialect
  <2>1. todo # <<>> /\ Head(todo).do = "with" /\ UNCHANGED <<family, outcome>>
    BY <1>6 DEF EnterDialect, Doing
  <2>. DEFINE e == Head(todo).expr
              b == Back(dialect, next, error)
  <2>2. todo' = <<Write(e), b>> \o Tail(todo)
    BY <1>6 DEF EnterDialect
  <2>3. e \in E
    BY <1>3, <2>1, CallsOf
  <2>4. Write(e) \in Pending(E) /\ Write(e).do # "back"
    BY <2>3 DEF Write, Pending, Call
  <2>5. b \in Pending(E) /\ b.do = "back" /\ b.dialect = dialect
    BY DEF Back, Pending, TypeOK
  <2>. HIDE DEF b, e
  <2>6. /\ todo' \in Seq(Pending(E)) /\ DOMAIN todo' = 1 .. Len(todo) + 1
        /\ todo'[1].do # "back" /\ todo'[2] = b
        /\ \A j \in 2 .. Len(todo) : todo'[j + 1] = todo[j]
        /\ Len(todo) \in Nat \ {0} /\ DOMAIN todo = 1 .. Len(todo)
    BY <1>1, <2>1, <2>2, <2>4, <2>5
  <2>7. ReportsLast'
    BY <2>1 DEF Nested, ReportsLast
  <2>8. \A j \in DOMAIN todo' : j > 2 => j - 1 \in 2 .. Len(todo) /\ todo'[j] = todo[j - 1]
    <3>1. SUFFICES ASSUME NEW j \in DOMAIN todo', j > 2
                   PROVE  j - 1 \in 2 .. Len(todo) /\ todo'[j] = todo[j - 1]
      OBVIOUS
    <3>2. j - 1 \in 2 .. Len(todo) /\ j = (j - 1) + 1
      BY <2>6, <3>1
    <3>. QED
      BY <2>6, <3>2
  <2>9. todo[1].do # "back"
    BY <1>1, <2>1
  <2>10. CASE dialect = family /\ \A i \in DOMAIN todo : todo[i].do # "back"
    <3>1. \A j \in DOMAIN todo' : j > 2 => todo'[j].do # "back"
      BY <2>6, <2>8, <2>10
    <3>2. IsLastBack(todo, 2)'
      BY <2>1, <2>5, <2>6, <2>10, <3>1 DEF IsLastBack
    <3>. QED
      BY <2>6, <2>7, <3>2 DEF Nested, Unwinds
  <2>11. CASE \E i \in DOMAIN todo : IsLastBack(todo, i)
    <3>1. PICK i \in DOMAIN todo : IsLastBack(todo, i)
      BY <2>11
    <3>2. i \in 2 .. Len(todo)
      BY <2>6, <2>9, <3>1 DEF IsLastBack
    <3>3. todo'[i + 1] = todo[i] /\ i + 1 \in 1 .. Len(todo) + 1 /\ i + 1 > 2
      BY <2>6, <3>2
    <3>4. \A j \in DOMAIN todo' : j > i + 1 => todo'[j].do # "back"
      BY <2>6, <2>8, <3>1, <3>2 DEF IsLastBack
    <3>5. IsLastBack(todo, i + 1)'
      BY <2>1, <2>6, <3>1, <3>3, <3>4 DEF IsLastBack
    <3>. QED
      BY <2>6, <2>7, <3>3, <3>5 DEF Nested, Unwinds
  <2>. QED
    BY <2>10, <2>11 DEF Nested, Unwinds
<1>7. CASE LeaveDialect
  <2>1. /\ todo # <<>> /\ Head(todo).do = "back" /\ todo' = Tail(todo)
        /\ dialect' = Head(todo).dialect /\ UNCHANGED <<family, outcome>>
    BY <1>7 DEF LeaveDialect, Doing, Returned
  <2>2. /\ todo' \in Seq(Pending(E)) /\ DOMAIN todo' = 1 .. Len(todo) - 1
        /\ \A j \in 1 .. Len(todo) - 1 : todo'[j] = todo[j + 1]
        /\ Len(todo) \in Nat \ {0} /\ DOMAIN todo = 1 .. Len(todo)
        /\ todo[1] = Head(todo)
    BY <1>1, <2>1
  <2>3. ReportsLast'
    BY <2>1 DEF Nested, ReportsLast
  <2>4. PICK i \in DOMAIN todo : IsLastBack(todo, i)
    BY <2>1, <2>2 DEF Nested, Unwinds
  <2>5. CASE i = 1
    <3>1. \A j \in DOMAIN todo' : todo'[j].do # "back"
      BY <2>2, <2>4, <2>5, SMTT(30) DEF IsLastBack
    <3>2. dialect' = family'
      BY <2>1, <2>2, <2>4, <2>5 DEF IsLastBack
    <3>. QED
      BY <2>2, <2>3, <3>1, <3>2 DEF Nested, Unwinds
  <2>6. CASE i # 1
    <3>1. i - 1 \in 1 .. Len(todo) - 1 /\ (i - 1) + 1 = i
      BY <2>2, <2>6
    <3>2. todo'[i - 1] = todo[i] /\ i - 1 \in DOMAIN todo'
      BY <2>2, <3>1
    <3>3. \A j \in DOMAIN todo' : j > i - 1 => todo'[j].do # "back"
      BY <2>2, <2>4, <3>1, SMTT(30) DEF IsLastBack
    <3>4. IsLastBack(todo, i - 1)'
      BY <2>1, <2>4, <3>2, <3>3 DEF IsLastBack
    <3>. QED
      BY <2>2, <2>3, <3>2, <3>4 DEF Nested, Unwinds
  <2>. QED
    BY <2>5, <2>6
<1>8. CASE Finish
  BY <1>8 DEF Finish, Nested, Unwinds, IsLastBack, ReportsLast
<1>9. CASE Finished \/ UNCHANGED vars
  BY <1>9 DEF Finished, vars, Nested, Unwinds, IsLastBack, ReportsLast
<1>. QED
  BY <1>4, <1>5, <1>6, <1>7, <1>8, <1>9 DEF Next

\* A statement ends in the dialect it began in, however deep its expressions nest
\* others in other dialects (writer.rs, write_with_dialect).
THEOREM DialectAlwaysRestored ==
  ASSUME NEW E, WriteOneAnother(E)
  PROVE  Spec => []DialectRestored
<1>1. Init => Nested(E)
  BY NestedInit
<1>2. TypeOK /\ Nested(E) /\ [Next]_vars => Nested(E)'
  BY NestedStep
<1>3. Nested(E) => DialectRestored
  BY DEF Nested, ReportsLast, Unwinds, DialectRestored
<1>. QED
  BY TypeInit, TypeStep, <1>1, <1>2, <1>3, PTL DEF Spec

=============================================================================
