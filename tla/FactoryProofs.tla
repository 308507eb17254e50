---------------------------- MODULE FactoryProofs ----------------------------
(***************************************************************************)
(* What every run of model calls and factories keeps, whatever the tables,  *)
(* the jobs and the number of callers: keys stay unique across transactions *)
(* that overlap, a call answers what its own statement did, the hooks share *)
(* the fate of their rows, a job in atomic() leaves all of its rows or      *)
(* none, and factories that keep to their sequences are never in each       *)
(* other's way.                                                             *)
(*                                                                          *)
(* The invariant is local: but for the rows, which are the engine's, what   *)
(* is said of a caller is said of its call, its job, its transaction and    *)
(* what it has committed, so that a step of another caller leaves it alone. *)
(***************************************************************************)
EXTENDS Factory, FiniteSetTheorems, SequenceTheorems, TLAPS

-----------------------------------------------------------------------------
(* The invariant.                                                           *)

\* What a caller has committed, and its after-hooks with it.
Kept(c)    == {x.row : x \in {y \in ever : y.by = c}}
Written(c) == {e \in audit : e.by = c}

Shape ==
    /\ dialect \in Dialects /\ failures \in 0..MaxFailures
    /\ \A x \in ever : x.by \in Callers
    /\ \A e \in audit : e.by \in Callers
    /\ DOMAIN tx = Callers /\ DOMAIN calls = Callers /\ DOMAIN tasks = Callers
    /\ \A c \in Callers :
         /\ DOMAIN tx[c] = {"open", "added", "removed", "audit"} /\ tx[c].open \in BOOLEAN
         /\ DOMAIN calls[c] = DOMAIN NoCall
         /\ calls[c].step \in CallSteps /\ calls[c].kind \in Kinds /\ calls[c].rows \in BOOLEAN
         /\ DOMAIN tasks[c] = DOMAIN Idle
         /\ tasks[c].step \in JobSteps /\ tasks[c].atomic \in BOOLEAN

\* No two rows of a view share a key, nor two rows that transactions in progress
\* hold back.
Apart ==
    /\ \A r, q \in rows : Clash(r, q) => r = q
    /\ \A c \in Callers : \A r, q \in View(c) : Clash(r, q) => r = q
    /\ \A c, d \in Callers : c # d => \A r \in tx[c].added, q \in tx[d].added : ~Clash(r, q)
    /\ \A c \in Callers : ~tx[c].open => tx[c] = NoTx

\* The frames of a creation: only the one at work inserts, and the call in
\* progress is its insert.
Stacked(c) ==
    LET stack == tasks[c].stack
    IN  /\ stack # <<>> /\ \E S : stack \in Seq(S)
        /\ \A i \in 1..Len(stack) : DOMAIN stack[i] = DOMAIN Frame("any")
        /\ \A i \in 1..Len(stack)-1 : stack[i].step \in {"insert", "children"}
        /\ Last(stack).step \in Columns \cup {"parent", "insert", "inserting", "children"}
        /\ calls[c].step # "none" <=> Last(stack).step = "inserting"
        /\ calls[c].step # "none" => calls[c].kind = "insert" /\ calls[c].rows /\ calls[c].mod = "none"

SameCall(c) ==
    LET call == tasks[c].job.call[1]
    IN  calls[c].kind = call.kind /\ calls[c].rows = call.rows /\ calls[c].mod = call.mod

\* How far the job is, its call and its transaction.
Sequel(c) ==
    LET task == tasks[c]
    IN  /\ task.step = "idle" => task = Idle /\ calls[c] = NoCall /\ tx[c] = NoTx /\ Kept(c) = {} /\ Written(c) = {}
        /\ task.step # "idle" => task.job \in Jobs
        /\ task.left \in 0..task.job.times /\ \E S : task.made \in Seq(S)
        /\ task.step = "working" =>
             /\ tx[c].open = task.atomic /\ task.outcome = "none"
             /\ task.job.template # <<>> => Stacked(c) /\ task.left > 0
             /\ task.job.template = <<>> =>
                  task.stack = <<>> /\ task.made = <<>> /\ SameCall(c) /\ calls[c].step # "none"
        /\ task.step \in {"settle", "settled"} => task.stack = <<>> /\ calls[c].step \in {"none", "done"}
        /\ task.step = "settle" =>
             tx[c].open = task.atomic /\ (calls[c].step = "done" => calls[c].outcome = task.outcome)
        /\ task.step = "settled" => tx[c] = NoTx

Finished(c)  == calls[c].step = "done" /\ calls[c].outcome = "ok"
HasAnswer(c) == calls[c].step = "after" \/ Finished(c)
HasEffect(c) == calls[c].step = "read back" \/ HasAnswer(c)

\* What the statement did.
EffectRight(c) ==
    LET call == calls[c]
    IN  call.kind = "insert" =>
          /\ \A r \in call.effect : r.table = call.table
          /\ call.mod = "none" => \A r, q \in call.effect : r = q
          /\ call.rows /\ call.mod # "ignore" => call.effect # {}
          /\ ByReadBack(c) /\ call.effect # {} => \E r \in call.effect : r.id = call.key

\* What the caller and the after-hook learn of it.
AnswerRight(c) ==
    LET call == calls[c]
    IN  IF call.kind # "insert"
        THEN call.told = Cardinality(call.effect) /\ (call.rows => call.answer = call.effect)
        ELSE IF ~call.rows THEN call.answer = {}
        ELSE IF dialect = "mysql" THEN \E a \in call.answer : call.answer = {a} /\ a.id = call.key /\ a.table = call.table
        ELSE \E r \in call.effect : call.effect = {r} /\ call.answer = {r}

Right(c) ==
    /\ calls[c].step \in {"before", "statement"} /\ calls[c].kind # "insert" => tx[c].audit = {}
    /\ calls[c].step = "statement" => calls[c].key = calls[c].setter[1]
    /\ calls[c].step = "read back" => ByReadBack(c)
    /\ HasEffect(c) => EffectRight(c)
    /\ HasAnswer(c) => AnswerRight(c)

\* What was inserted is where the caller's statements go.
Placed(c) ==
    tasks[c].step = "working" /\ calls[c].kind = "insert" =>
      /\ HasEffect(c) => calls[c].effect \subseteq (IF tx[c].open THEN tx[c].added ELSE Kept(c))
      /\ HasAnswer(c) /\ calls[c].mod = "none" /\ tx[c].open => calls[c].answer \subseteq tx[c].added

\* A job in atomic() holds back what it has made until it settles.
Within(c) ==
    tasks[c].atomic =>
      LET task == tasks[c]
      IN  /\ task.step \in {"working", "settle"} => \A i \in DOMAIN task.made : task.made[i] \in tx[c].added
          /\ task.step = "settled" /\ task.outcome = "ok" => \A i \in DOMAIN task.made : task.made[i] \in Kept(c)
          /\ (task.step = "settled" => task.outcome # "ok") => Kept(c) = {} /\ Written(c) = {}

Doomed(c) ==
    \/ calls[c].step = "done" /\ calls[c].outcome # "ok"
    \/ tasks[c].step \in {"settle", "settled"} /\ tasks[c].outcome # "ok"
Telling(c) == tasks[c].atomic /\ Plain(c) /\ Answering(c)

\* Of two sets, of rows and of hook entries: every row told of is there, and
\* every row there is told of.
Tells(entries, set) ==
    \A e \in entries : \A id \in e.rows : \E r \in set : r.table = e.table /\ r.id = id
ToldOf(r, entries) == \E e \in entries : e.table = r.table /\ r.id \in e.rows

Hooked(c) ==
    /\ \A e \in tx[c].audit : e.by = c
    /\ Plain(c) => Tells(tx[c].audit, tx[c].added) /\ Tells(Written(c), Kept(c))
    /\ Telling(c) => \A r \in Kept(c) : ToldOf(r, Written(c))
    /\ Telling(c) /\ ~Doomed(c) =>
         \A r \in tx[c].added :
           ToldOf(r, tx[c].audit) \/ (calls[c].step \in {"read back", "after"} /\ r \in calls[c].effect)

Own(c) == Sequel(c) /\ Right(c) /\ Placed(c) /\ Within(c) /\ Hooked(c)
IInv == Shape /\ Apart /\ \A c \in Callers : Own(c)

-----------------------------------------------------------------------------
(* Lemmas about the definitions.                                            *)

LEMMA ClashSymmetric == \A r, q : Clash(r, q) => Clash(q, r)
  BY DEF Clash

\* Committing rows of c adds them to what c has committed and to nobody else's.
LEMMA Commits ==
  ASSUME NEW c, NEW S, ever' = ever \cup {[by |-> c, row |-> r] : r \in S}
  PROVE  /\ Kept(c)' = Kept(c) \cup S
         /\ \A d : d # c => Kept(d)' = Kept(d)
<1>1. \A x : x \in ever' <=> x \in ever \/ \E r \in S : x = [by |-> c, row |-> r]
  OBVIOUS
<1>2. Kept(c)' = Kept(c) \cup S
  <2>1. \A r : r \in Kept(c)' => r \in Kept(c) \cup S
    BY <1>1 DEF Kept
  <2>2. ASSUME NEW r \in S PROVE r \in Kept(c)'
    <3>1. [by |-> c, row |-> r] \in ever'
      BY <1>1
    <3>2. QED  BY <3>1 DEF Kept
  <2>3. Kept(c) \subseteq Kept(c)'
    BY <1>1 DEF Kept
  <2>4. QED  BY <2>1, <2>2, <2>3
<1>3. ASSUME NEW d, d # c PROVE Kept(d)' = Kept(d)
  <2>1. {y \in ever : y.by = d}' = {y \in ever : y.by = d}
    BY <1>1, <1>3
  <2>2. QED  BY <2>1 DEF Kept
<1>4. QED  BY <1>2, <1>3

\* A step that is not c's leaves what is said of c alone.
LEMMA Elsewhere ==
  ASSUME NEW c, Own(c), calls'[c] = calls[c], tasks'[c] = tasks[c], tx'[c] = tx[c],
         dialect' = dialect, Kept(c)' = Kept(c), Written(c)' = Written(c)
  PROVE  Own(c)'
<1>1. Sequel(c)'
  BY DEF Own, Sequel, Stacked, SameCall
<1>2. Right(c)'
  <2>1. (HasAnswer(c)' <=> HasAnswer(c)) /\ (HasEffect(c)' <=> HasEffect(c))
    BY DEF HasEffect, HasAnswer, Finished
  <2>2. (EffectRight(c)' <=> EffectRight(c)) /\ (ByReadBack(c)' <=> ByReadBack(c))
    BY DEF EffectRight, ByReadBack
  <2>3. AnswerRight(c)' <=> AnswerRight(c)
    BY DEF AnswerRight
  <2>4. QED  BY <2>1, <2>2, <2>3 DEF Own, Right
<1>3. Placed(c)'
  BY DEF Own, Placed, HasEffect, HasAnswer, Finished
<1>4. Within(c)'
  BY DEF Own, Within
<1>5. Hooked(c)'
  <2>1. (Plain(c)' <=> Plain(c)) /\ (Telling(c)' <=> Telling(c)) /\ (Doomed(c)' <=> Doomed(c))
    BY DEF Plain, Telling, Answering, Doomed
  <2>2. QED  BY <2>1 DEF Own, Hooked
<1>6. QED  BY <1>1, <1>2, <1>3, <1>4, <1>5 DEF Own

-----------------------------------------------------------------------------
(* Keys stay unique, over transactions that overlap.                        *)

LEMMA Unrefused ==
  ASSUME NEW c, NEW new, NEW old, Refusal(c, new, old) = "none"
  PROVE  \A r \in new : \A q \in (View(c) \ old) \cup (new \ {r}) : ~Clash(r, q)
<1> DEFINE rest == View(c) \ old
           duplicate == \/ \E r \in new : \E q \in rest \cup (new \ {r}) : Clash(r, q)
                        \/ old # {} /\ new # {} /\ Cardinality(new) < Cardinality(old)
           null == \E r \in new : Required(r.table) /\ r.parent = Null
           orphan == \E r \in new : HasParent(r.table) /\ r.parent # Null
                                     /\ \A q \in rest \cup new : ~PointsAt(r, q)
           referenced == \E r \in rest, q \in old : PointsAt(r, q) /\ \A n \in new : n.id # q.id
<1>1. Refusal(c, new, old) = CASE duplicate -> "duplicate" [] null -> "null" [] orphan -> "no parent"
                               [] referenced -> "referenced" [] OTHER -> "none"
  BY DEF Refusal
<1>2. ~duplicate
  <2> HIDE DEF duplicate, null, orphan, referenced
  <2>1. QED  BY <1>1
<1>3. QED  BY <1>2

\* What a statement may leave behind, given what it was checked against.
LEMMA WriteKeepsApart ==
  ASSUME Shape, Apart, NEW c \in Callers, NEW new, NEW old,
         Refusal(c, new, old) = "none", ~Waits(c, new, old), Write(c, new, old)
  PROVE  Apart'
<1> DEFINE after == (View(c) \ old) \cup new
<1>1. \A r, q \in after : Clash(r, q) => r = q
  <2>1. \A r \in new : \A q \in (View(c) \ old) \cup (new \ {r}) : ~Clash(r, q)
    BY Unrefused
  <2>2. \A r, q \in View(c) : Clash(r, q) => r = q
    BY DEF Apart
  <2>3. QED  BY <2>1, <2>2, ClashSymmetric
<1>2. \A d \in Callers \ {c} : \A r \in new, q \in tx[d].added : ~Clash(r, q)
  BY DEF Waits, Others
<1>3. CASE tx[c].open
  <2>1. /\ rows' = rows /\ DOMAIN tx' = Callers /\ \A d \in Callers \ {c} : tx'[d] = tx[d]
        /\ tx'[c].added = (tx[c].added \ old) \cup new
        /\ tx'[c].removed = tx[c].removed \cup (old \cap rows)
        /\ tx'[c].open = tx[c].open
    <3>1. DOMAIN tx = Callers /\ DOMAIN tx[c] = {"open", "added", "removed", "audit"}
      BY DEF Shape
    <3>2. /\ tx' = [tx EXCEPT ![c].added = (@ \ old) \cup new, ![c].removed = @ \cup (old \cap rows)]
          /\ rows' = rows
      BY <1>3 DEF Write
    <3>3. QED  BY <3>1, <3>2
  <2>2. View(c)' = after
    BY <2>1 DEF View
  <2>3. \A d \in Callers \ {c} : View(d)' = View(d)
    BY <2>1 DEF View
  <2>4. \A d \in Callers : \A r, q \in View(d)' : Clash(r, q) => r = q
    BY <2>2, <2>3, <1>1 DEF Apart
  <2>5. ASSUME NEW d \in Callers, NEW e \in Callers, d # e, NEW r \in tx'[d].added, NEW q \in tx'[e].added
        PROVE  ~Clash(r, q)
    <3>1. CASE d = c  BY <3>1, <2>5, <2>1, <1>2 DEF Apart
    <3>2. CASE e = c  BY <3>2, <2>5, <2>1, <1>2, ClashSymmetric DEF Apart
    <3>3. CASE d # c /\ e # c  BY <3>3, <2>5, <2>1 DEF Apart
    <3>4. QED  BY <3>1, <3>2, <3>3
  <2>6. \A d \in Callers : ~tx'[d].open => tx'[d] = NoTx
    BY <2>1, <1>3 DEF Apart
  <2>7. \A r, q \in rows' : Clash(r, q) => r = q
    BY <2>1 DEF Apart
  <2>8. QED  BY <2>4, <2>5, <2>6, <2>7 DEF Apart
<1>4. CASE ~tx[c].open
  <2>1. rows' = (rows \ old) \cup new /\ tx' = tx
    BY <1>4 DEF Write
  <2>2. tx[c].added = {} /\ tx[c].removed = {}
    BY <1>4 DEF Apart, NoTx
  <2>3. rows' = after
    BY <2>1, <2>2 DEF View
  <2>4. \A r, q \in rows' : Clash(r, q) => r = q
    BY <1>1, <2>3
  <2>5. ASSUME NEW d \in Callers, NEW r \in View(d)', NEW q \in View(d)', Clash(r, q)
        PROVE  r = q
    <3>1. View(d)' = (rows' \ tx[d].removed) \cup tx[d].added
      BY <2>1 DEF View
    <3>2. CASE r \in rows' /\ q \in rows'
      BY <3>2, <2>4, <2>5
    <3>3. ASSUME NEW s \in tx[d].added, NEW t \in View(d)', Clash(s, t) PROVE s = t
      <4>1. d # c
        BY <2>2, <3>3
      <4>2. t \notin new
        BY <4>1, <1>2, <3>3, ClashSymmetric
      <4>3. t \in View(d) /\ s \in View(d)
        BY <4>2, <3>1, <2>1, <3>3 DEF View
      <4>4. QED  BY <4>3, <3>3 DEF Apart
    <3>4. QED  BY <3>1, <3>2, <3>3, <2>5, ClashSymmetric
  <2>6. QED  BY <2>1, <2>4, <2>5 DEF Apart
<1>5. QED  BY <1>3, <1>4

\* The commit of a transaction, or of nothing.
LEMMA CommitKeepsApart ==
  ASSUME Shape, Apart, NEW c \in Callers, rows' = View(c), tx' = [tx EXCEPT ![c] = NoTx]
  PROVE  Apart'
<1>1. \A r, q \in rows' : Clash(r, q) => r = q
  BY DEF Apart
<1>2. /\ DOMAIN tx' = Callers /\ tx'[c] = NoTx /\ \A d \in Callers \ {c} : tx'[d] = tx[d]
      /\ NoTx.added = {} /\ NoTx.removed = {} /\ ~NoTx.open
  BY DEF Shape, NoTx
<1>3. ASSUME NEW d \in Callers, NEW r \in View(d)', NEW q \in View(d)', Clash(r, q)
      PROVE  r = q
  <2>1. CASE d = c
    BY <2>1, <1>1, <1>2, <1>3 DEF View
  <2>2. CASE d # c
    <3>1. View(d)' = (rows' \ tx[d].removed) \cup tx[d].added
      BY <1>2, <2>2 DEF View
    <3>2. CASE r \in rows' /\ q \in rows'
      BY <3>2, <1>1, <1>3
    <3>3. ASSUME NEW s \in tx[d].added, NEW t \in View(d)', Clash(s, t) PROVE s = t
      <4>1. t \notin tx[c].added
        BY <2>2, <3>3, ClashSymmetric DEF Apart
      <4>2. t \in View(d) /\ s \in View(d)
        BY <4>1, <3>1, <3>3 DEF View
      <4>3. QED  BY <4>2, <3>3 DEF Apart
    <3>4. QED  BY <3>1, <3>2, <3>3, <1>3, ClashSymmetric
  <2>3. QED  BY <2>1, <2>2
<1>4. QED  BY <1>1, <1>2, <1>3 DEF Apart

LEMMA RollbackKeepsApart ==
  ASSUME Shape, Apart, NEW c \in Callers, rows' = rows, tx' = [tx EXCEPT ![c] = NoTx]
  PROVE  Apart'
<1>1. /\ DOMAIN tx' = Callers /\ tx'[c] = NoTx /\ \A d \in Callers \ {c} : tx'[d] = tx[d]
      /\ NoTx.added = {} /\ NoTx.removed = {} /\ ~NoTx.open
  BY DEF Shape, NoTx
<1>2. View(c)' = rows /\ \A d \in Callers \ {c} : View(d)' = View(d)
  BY <1>1 DEF View
<1>3. QED  BY <1>1, <1>2 DEF Apart

-----------------------------------------------------------------------------
(* The steps of a call.                                                     *)

InProgress(c) == calls[c].step \in {"before", "statement", "read back", "after"}

LEMMA OthersOwn ==
  ASSUME IInv, NEW c \in Callers, dialect' = dialect,
         \A d \in Callers \ {c} : /\ calls'[d] = calls[d] /\ tasks'[d] = tasks[d] /\ tx'[d] = tx[d]
                                  /\ Kept(d)' = Kept(d) /\ Written(d)' = Written(d)
  PROVE  \A d \in Callers \ {c} : Own(d)'
  BY Elsewhere DEF IInv

LEMMA Busy ==
  ASSUME IInv, NEW c \in Callers, InProgress(c)
  PROVE  /\ tasks[c].step = "working" /\ tasks[c].outcome = "none" /\ tx[c].open = tasks[c].atomic
         /\ calls[c].kind # "insert" => tasks[c].made = <<>>
         /\ tx[c].open => Kept(c) = {} /\ Written(c) = {}
<1>1. Sequel(c) /\ Within(c) /\ Shape
  BY DEF IInv, Own
<1>2. tasks[c].step = "working"
  <2>1. NoCall.step = "none"
    BY DEF NoCall
  <2>2. tasks[c].step \in {"idle", "working", "settle", "settled"}
    BY <1>1 DEF Shape, JobSteps
  <2>3. tasks[c].step # "idle" /\ tasks[c].step \notin {"settle", "settled"}
    BY <1>1, <2>1 DEF Sequel, InProgress
  <2>4. QED  BY <2>2, <2>3
<1>3. tasks[c].outcome = "none" /\ tx[c].open = tasks[c].atomic
  BY <1>1, <1>2 DEF Sequel
<1>4. calls[c].kind # "insert" => tasks[c].made = <<>>
  BY <1>1, <1>2 DEF Sequel, Stacked, InProgress
<1>5. tx[c].open => Kept(c) = {} /\ Written(c) = {}
  BY <1>1, <1>2, <1>3 DEF Within
<1>6. QED  BY <1>2, <1>3, <1>4, <1>5

LEMMA SequelGoesOn ==
  ASSUME IInv, NEW c \in Callers, InProgress(c), tasks' = tasks, tx'[c].open = tx[c].open,
         calls'[c].step # "none", calls'[c].kind = calls[c].kind, calls'[c].rows = calls[c].rows,
         calls'[c].mod = calls[c].mod
  PROVE  Sequel(c)'
<1>1. Sequel(c) /\ tasks[c].step = "working"
  BY Busy DEF IInv, Own
<1>2. Stacked(c) => Stacked(c)'
  BY DEF Stacked, InProgress
<1>3. SameCall(c) => SameCall(c)'
  BY DEF SameCall
<1>4. QED  BY <1>1, <1>2, <1>3 DEF Sequel

LEMMA WithinGoesOn ==
  ASSUME IInv, NEW c \in Callers, InProgress(c), tasks' = tasks,
         \A i \in DOMAIN tasks[c].made : tasks[c].made[i] \in tx[c].added => tasks[c].made[i] \in tx'[c].added,
         tx[c].open => Kept(c)' = Kept(c) /\ Written(c)' = Written(c)
  PROVE  Within(c)'
<1>1. Within(c) /\ tasks[c].step = "working" /\ tx[c].open = tasks[c].atomic
  BY Busy DEF IInv, Own
<1>2. QED  BY <1>1 DEF Within

\* What Ends changes, and what it leaves.
LEMMA EndsFields ==
  ASSUME Shape, NEW c \in Callers, NEW outcome, Ends(c, outcome)
  PROVE  /\ DOMAIN calls' = Callers /\ \A d \in Callers \ {c} : calls'[d] = calls[d]
         /\ DOMAIN calls'[c] = DOMAIN NoCall
         /\ calls'[c].step = "done" /\ calls'[c].outcome = outcome
         /\ calls'[c].kind = calls[c].kind /\ calls'[c].rows = calls[c].rows /\ calls'[c].mod = calls[c].mod
<1>1. DOMAIN calls = Callers /\ DOMAIN calls[c] = DOMAIN NoCall
  BY DEF Shape
<1>2. DOMAIN NoCall = {"step", "kind", "rows", "table", "where", "mod", "setter", "key", "effect",
                       "told", "answer", "outcome"}
  BY DEF NoCall
<1>3. QED  BY <1>1, <1>2 DEF Ends

\* A call that ends in an error says nothing any more; the job is lost.
LEMMA FailedRight ==
  ASSUME NEW c, calls'[c].step = "done", calls'[c].outcome # "ok"
  PROVE  Right(c)' /\ Placed(c)' /\ Doomed(c)'
  BY DEF Right, Placed, Doomed, HasEffect, HasAnswer, Finished

\* The hook, the connection or the statement fails and nothing was done.
LEMMA CallFails ==
  ASSUME IInv, NEW c \in Callers, InProgress(c), NEW outcome, outcome # "ok", Ends(c, outcome),
         UNCHANGED <<tasks, rows, audit, tx, ever, dialect>>, failures' \in 0..MaxFailures
  PROVE  IInv'
<1>1. Shape /\ Apart /\ Own(c)
  BY DEF IInv
<1>2. /\ DOMAIN calls' = Callers /\ \A d \in Callers \ {c} : calls'[d] = calls[d]
      /\ DOMAIN calls'[c] = DOMAIN NoCall
      /\ calls'[c].step = "done" /\ calls'[c].outcome = outcome
      /\ calls'[c].kind = calls[c].kind /\ calls'[c].rows = calls[c].rows /\ calls'[c].mod = calls[c].mod
  BY <1>1, EndsFields
<1>3. Shape'
  BY <1>1, <1>2 DEF Shape, CallSteps
<1>4. Apart'
  BY <1>1 DEF Apart, View
<1>5. \A d \in Callers : Kept(d)' = Kept(d) /\ Written(d)' = Written(d)
  BY DEF Kept, Written
<1>6. Own(c)'
  <2>1. Sequel(c)'
    BY <1>2, SequelGoesOn
  <2>2. Right(c)' /\ Placed(c)' /\ Doomed(c)'
    BY <1>2, FailedRight
  <2>3. Within(c)'
    BY <1>5, WithinGoesOn
  <2>4. Hooked(c)'
    <3>1. (Plain(c)' <=> Plain(c)) /\ (Telling(c)' <=> Telling(c))
      BY DEF Plain, Telling, Answering
    <3>2. QED  BY <1>1, <1>5, <2>2, <3>1 DEF Own, Hooked
  <2>5. QED  BY <2>1, <2>2, <2>3, <2>4 DEF Own
<1>7. \A d \in Callers \ {c} : Own(d)'
  BY <1>2, <1>5, OthersOwn
<1>8. QED  BY <1>3, <1>4, <1>6, <1>7 DEF IInv

LEMMA BeforeHookKeeps ==
  ASSUME IInv, NEW c \in Callers, BeforeHook(c), UNCHANGED <<seq, tasks>>
  PROVE  IInv'
<1>1. Shape /\ Apart /\ Own(c) /\ InProgress(c)
  BY DEF IInv, BeforeHook, InProgress
<1>2. UNCHANGED <<tasks, rows, audit, tx, ever, dialect>>
  BY DEF BeforeHook, database
<1>3. CASE Fail /\ Ends(c, "failed")
  <2>1. failures' \in 0..MaxFailures
    BY <1>1, <1>3, FailuresAssumption DEF Fail, Shape
  <2>2. QED  BY <1>1, <1>2, <1>3, <2>1, CallFails
<1>4. CASE /\ calls' = [calls EXCEPT ![c].step = "statement", ![c].setter = Rewritten(c),
                                     ![c].key = Rewritten(c)[1]]
           /\ UNCHANGED failures
  <2>1. /\ DOMAIN calls' = Callers /\ \A d \in Callers \ {c} : calls'[d] = calls[d]
        /\ DOMAIN calls'[c] = DOMAIN NoCall
        /\ calls'[c].step = "statement" /\ calls'[c].key = calls'[c].setter[1]
        /\ calls'[c].kind = calls[c].kind /\ calls'[c].rows = calls[c].rows /\ calls'[c].mod = calls[c].mod
    BY <1>1, <1>4 DEF Shape, NoCall
  <2>2. Shape'
    BY <1>1, <1>2, <1>4, <2>1, ZenonT(60) DEF Shape, CallSteps
  <2>3. Apart'
    BY <1>1, <1>2 DEF Apart, View
  <2>4. \A d \in Callers : Kept(d)' = Kept(d) /\ Written(d)' = Written(d)
    BY <1>2 DEF Kept, Written
  <2>5. Own(c)'
    <3>1. Sequel(c)'
      BY <1>1, <1>2, <2>1, SequelGoesOn
    <3>2. Right(c)' /\ Placed(c)'
      <4>1. ~HasEffect(c)' /\ ~HasAnswer(c)'
        BY <2>1 DEF HasEffect, HasAnswer, Finished
      <4>2. calls[c].step = "before"
        BY DEF BeforeHook
      <4>3. QED  BY <1>1, <1>2, <2>1, <4>1, <4>2 DEF Own, Right, Placed
    <3>3. Within(c)'
      BY <1>1, <1>2, <2>4, WithinGoesOn
    <3>4. Hooked(c)'
      <4>1. (Plain(c)' <=> Plain(c)) /\ (Telling(c)' <=> Telling(c))
        BY <1>2 DEF Plain, Telling, Answering
      <4>2. ~Doomed(c)
        BY <1>1, Busy DEF Doomed, BeforeHook
      <4>3. calls[c].step = "before"
        BY DEF BeforeHook
      <4>4. QED  BY <1>1, <1>2, <2>1, <2>4, <4>1, <4>2, <4>3 DEF Own, Hooked
    <3>5. QED  BY <3>1, <3>2, <3>3, <3>4 DEF Own
  <2>6. \A d \in Callers \ {c} : Own(d)'
    BY <1>2, <2>1, <2>4, OthersOwn
  <2>7. QED  BY <2>2, <2>3, <2>5, <2>6 DEF IInv
<1>5. QED  BY <1>3, <1>4 DEF BeforeHook

LEMMA StatementFailsKeeps ==
  ASSUME IInv, NEW c \in Callers, StatementFails(c), UNCHANGED <<seq, tasks>>
  PROVE  IInv'
<1>1. InProgress(c) /\ UNCHANGED <<tasks, rows, audit, tx, ever, dialect>>
  BY DEF StatementFails, InProgress, database
<1>2. failures' \in 0..MaxFailures
  <2>1. failures \in 0..MaxFailures
    BY DEF IInv, Shape
  <2>2. failures' = failures \/ Fail
    BY DEF StatementFails
  <2>3. QED  BY <2>1, <2>2, FailuresAssumption DEF Fail
<1>3. Ends(c, "incomplete") \/ Ends(c, "lock timeout") \/ Ends(c, "failed")
  BY DEF StatementFails
<1>4. QED  BY <1>1, <1>2, <1>3, CallFails

\* The rows of an INSERT: one, unless a mod asked for another.
LEMMA InsertedRows ==
  ASSUME NEW c
  PROVE  /\ \A r \in Inserted(c) : r.table = calls[c].table
         /\ \E r \in Inserted(c) : r.id = IF calls[c].setter[1] = Unset THEN nextId[calls[c].table]
                                          ELSE calls[c].setter[1]
         /\ calls[c].mod = "none" => \A r, q \in Inserted(c) : r = q
         /\ IsFiniteSet(Inserted(c))
<1> DEFINE id == IF calls[c].setter[1] = Unset THEN nextId[calls[c].table] ELSE calls[c].setter[1]
           first == Row(calls[c].table, id, Value(calls[c].setter[2]), Value(calls[c].setter[3]))
           second == [first EXCEPT !.id = id + 1, !.label = Null]
<1>1. Inserted(c) = {first} \cup IF calls[c].mod = "another row" THEN {second} ELSE {}
  BY DEF Inserted
<1>2. first.table = calls[c].table /\ first.id = id /\ second.table = calls[c].table
  BY DEF Row
<1> HIDE DEF first, second
<1>3. IsFiniteSet({first}) /\ IsFiniteSet({first} \cup {second})
  <2>1. IsFiniteSet({first})
    BY FS_Singleton
  <2>2. QED  BY <2>1, FS_AddElement
<1>4. QED  BY <1>1, <1>2, <1>3

LEMMA NewAndOld ==
  ASSUME Shape, NEW c \in Callers
  PROVE  /\ calls[c].kind = "insert" => New(c) = Inserted(c) /\ Old(c) = {} /\ Effect(c) = Inserted(c)
         /\ calls[c].kind # "insert" /\ calls[c].kind # "delete" => Effect(c) = New(c)
  BY DEF Shape, Kinds, New, Old, Effect

\* What a statement does to the transaction of c, or to what c has committed.
Lands(c, new) ==
    /\ DOMAIN tx' = Callers /\ \A d \in Callers \ {c} : tx'[d] = tx[d]
    /\ DOMAIN tx'[c] = {"open", "added", "removed", "audit"}
    /\ tx'[c].open = tx[c].open /\ tx'[c].audit = tx[c].audit
    /\ \A d \in Callers \ {c} : Kept(d)' = Kept(d)
    /\ Kept(c) \subseteq Kept(c)' /\ (tx[c].open => Kept(c)' = Kept(c))
    /\ calls[c].kind = "insert" =>
         /\ tx'[c].added = IF tx[c].open THEN tx[c].added \cup new ELSE tx[c].added
         /\ ~tx[c].open => new \subseteq Kept(c)'
    /\ \A x \in ever' : x.by \in Callers

\* And to its call.
Proceeds(c) ==
    /\ DOMAIN calls' = Callers /\ \A d \in Callers \ {c} : calls'[d] = calls[d]
    /\ DOMAIN calls'[c] = DOMAIN NoCall
    /\ calls'[c].step \in {"read back", "after", "done"}
    /\ calls'[c].kind = calls[c].kind /\ calls'[c].rows = calls[c].rows /\ calls'[c].mod = calls[c].mod

\* Where a statement's rows go.
LEMMA StatementWrites ==
  ASSUME IInv, NEW c \in Callers, Write(c, New(c), Old(c))
  PROVE  Lands(c, New(c))
<1>1. /\ DOMAIN tx = Callers /\ DOMAIN tx[c] = {"open", "added", "removed", "audit"}
      /\ \A x \in ever : x.by \in Callers
  BY DEF IInv, Shape
<1>2. calls[c].kind = "insert" => New(c) = Inserted(c) /\ Old(c) = {}
  BY NewAndOld DEF IInv
<1> DEFINE new == New(c)
           old == Old(c)
<1> HIDE DEF new, old
<1>3. Write(c, new, old) /\ (calls[c].kind = "insert" => new = Inserted(c) /\ old = {})
  BY <1>2 DEF new, old
<1>4. CASE tx[c].open
  <2>1. /\ tx' = [tx EXCEPT ![c].added = (@ \ old) \cup new, ![c].removed = @ \cup (old \cap rows)]
        /\ ever' = ever
    BY <1>3, <1>4 DEF Write
  <2>2. \A d \in Callers : Kept(d)' = Kept(d)
    BY <2>1 DEF Kept
  <2>3. /\ DOMAIN tx' = Callers /\ \A d \in Callers \ {c} : tx'[d] = tx[d]
        /\ DOMAIN tx'[c] = {"open", "added", "removed", "audit"}
        /\ tx'[c].open = tx[c].open /\ tx'[c].audit = tx[c].audit
        /\ tx'[c].added = (tx[c].added \ old) \cup new
    BY <1>1, <2>1
  <2>4. calls[c].kind = "insert" => tx'[c].added = tx[c].added \cup Inserted(c)
    BY <2>3, <1>3
  <2>5. QED  BY <1>1, <1>2, <1>4, <2>1, <2>2, <2>3, <2>4 DEF Lands
<1>5. CASE ~tx[c].open
  <2>1. tx' = tx /\ ever' = ever \cup {[by |-> c, row |-> r] : r \in new}
    BY <1>3, <1>5 DEF Write
  <2>2. Kept(c)' = Kept(c) \cup new /\ \A d : d # c => Kept(d)' = Kept(d)
    BY <2>1, Commits
  <2>3. \A x \in ever' : x.by \in Callers
    BY <1>1, <2>1
  <2>4. QED  BY <1>1, <1>2, <1>3, <1>5, <2>1, <2>2, <2>3 DEF Lands
<1>6. QED  BY <1>4, <1>5

\* What a statement answers.
LEMMA StatementAnswers ==
  ASSUME Shape, NEW c \in Callers, NEW effect, AfterStatement(c, effect)
  PROVE  /\ DOMAIN calls' = Callers /\ \A d \in Callers \ {c} : calls'[d] = calls[d]
         /\ DOMAIN calls'[c] = DOMAIN NoCall
         /\ calls'[c].kind = calls[c].kind /\ calls'[c].rows = calls[c].rows
         /\ calls'[c].mod = calls[c].mod /\ calls'[c].table = calls[c].table
         /\ calls'[c].effect = effect
         /\ calls'[c].key = IF calls[c].key # Unset THEN calls[c].key
                            ELSE IF effect = {} THEN Unset ELSE nextId[calls[c].table]
         /\ calls'[c].answer = IF calls[c].rows /\ ~ByReadBack(c) THEN effect ELSE {}
         /\ calls[c].kind # "insert" => calls'[c].told = Cardinality(effect)
         /\ calls'[c].outcome \in {"none", "no key", "row not found", "too many rows"}
         /\ \/ calls'[c].step = "done" /\ calls'[c].outcome # "ok"
            \/ calls'[c].step = "read back" /\ ByReadBack(c)
            \/ /\ calls'[c].step = "after" /\ ~ByReadBack(c)
               /\ calls[c].kind = "insert" /\ calls[c].rows => effect # {} /\ ~(Cardinality(effect) > 1)
<1> DEFINE call == calls[c]
           generated == IF effect = {} THEN Unset ELSE nextId[call.table]
           answered(step, outcome) ==
             [call EXCEPT !.effect = effect, !.step = step, !.outcome = outcome,
                          !.key = IF @ = Unset THEN generated ELSE @,
                          !.answer = IF call.rows /\ ~ByReadBack(c) THEN effect ELSE {},
                          !.told = IF call.kind = "insert" /\ ~(call.kind = "insert" /\ call.rows) THEN 0
                                   ELSE Cardinality(effect)]
<1>1. DOMAIN calls = Callers /\ DOMAIN calls[c] = DOMAIN NoCall /\ calls[c].rows \in BOOLEAN
  BY DEF Shape
<1> DEFINE single == call.kind = "insert" /\ call.rows
           becomes(step, outcome) == calls' = [calls EXCEPT ![c] = answered(step, outcome)]
<1>2. \/ becomes("done", "no key") \/ becomes("done", "row not found") \/ becomes("done", "too many rows")
      \/ ByReadBack(c) /\ becomes("read back", "none")
      \/ ~ByReadBack(c) /\ (single => effect # {} /\ ~(Cardinality(effect) > 1)) /\ becomes("after", "none")
  <2>1. calls' = [calls EXCEPT ![c] =
            IF ByReadBack(c)
            THEN IF answered("", "").key = Unset THEN answered("done", "no key")
                 ELSE answered("read back", "none")
            ELSE IF single /\ effect = {} THEN answered("done", "row not found")
            ELSE IF single /\ Cardinality(effect) > 1 THEN answered("done", "too many rows")
            ELSE answered("after", "none")]
    BY Zenon DEF AfterStatement
  <2> HIDE DEF answered, single
  <2>2. QED  BY <2>1
<1>3. DOMAIN calls[c] = {"step", "kind", "rows", "table", "where", "mod", "setter", "key", "effect",
                         "told", "answer", "outcome"}
  BY <1>1 DEF NoCall
<1>4. ASSUME NEW step, NEW outcome, becomes(step, outcome)
      PROVE  /\ DOMAIN calls' = Callers /\ \A d \in Callers \ {c} : calls'[d] = calls[d]
             /\ calls'[c] = answered(step, outcome)
  BY <1>1, <1>4
<1>5. ASSUME NEW step, NEW outcome, becomes(step, outcome)
      PROVE  /\ DOMAIN calls'[c] = DOMAIN NoCall
             /\ calls'[c].kind = calls[c].kind /\ calls'[c].rows = calls[c].rows
             /\ calls'[c].mod = calls[c].mod /\ calls'[c].table = calls[c].table
             /\ calls'[c].effect = effect /\ calls'[c].step = step /\ calls'[c].outcome = outcome
             /\ calls'[c].key = IF calls[c].key # Unset THEN calls[c].key
                                ELSE IF effect = {} THEN Unset ELSE nextId[calls[c].table]
             /\ calls'[c].answer = IF calls[c].rows /\ ~ByReadBack(c) THEN effect ELSE {}
             /\ calls[c].kind # "insert" => calls'[c].told = Cardinality(effect)
  BY <1>1, <1>3, <1>4, <1>5
<1>6. \/ calls'[c].step = "done" /\ calls'[c].outcome # "ok"
      \/ calls'[c].step = "read back" /\ ByReadBack(c)
      \/ calls'[c].step = "after" /\ ~ByReadBack(c) /\ (single => effect # {} /\ ~(Cardinality(effect) > 1))
  <2> HIDE DEF becomes, single
  <2>1. \A step, outcome : becomes(step, outcome) => calls'[c].step = step /\ calls'[c].outcome = outcome
    BY <1>5
  <2>2. CASE becomes("done", "no key") \/ becomes("done", "row not found") \/ becomes("done", "too many rows")
    <3>1. calls'[c].step = "done" /\ calls'[c].outcome \in {"no key", "row not found", "too many rows"}
      BY <2>1, <2>2, Zenon
    <3>2. QED  BY <3>1
  <2>3. CASE ByReadBack(c) /\ becomes("read back", "none")
    BY <2>1, <2>3
  <2>4. CASE ~ByReadBack(c) /\ (single => effect # {} /\ ~(Cardinality(effect) > 1)) /\ becomes("after", "none")
    <3>1. calls'[c].step = "after"
      BY <2>1, <2>4
    <3>2. QED  BY <3>1, <2>4
  <2>5. QED  BY <1>2, <2>2, <2>3, <2>4
<1>7. \E step : \E outcome \in {"none", "no key", "row not found", "too many rows"} : becomes(step, outcome)
  BY <1>2
<1> HIDE DEF becomes
<1>8. PICK step : \E outcome \in {"none", "no key", "row not found", "too many rows"} : becomes(step, outcome)
  BY <1>7
<1>9. PICK outcome \in {"none", "no key", "row not found", "too many rows"} : becomes(step, outcome)
  BY <1>8
<1>10. QED  BY <1>4, <1>5, <1>6, <1>9

LEMMA OneElement ==
  ASSUME NEW S, IsFiniteSet(S), S # {}, ~(Cardinality(S) > 1)
  PROVE  \E r \in S : S = {r}
<1>1. Cardinality(S) \in Nat /\ (Cardinality(S) = 0 <=> S = {})
  BY FS_CardinalityType, FS_EmptySet
<1>2. Cardinality(S) = 1
  BY <1>1
<1>3. QED  BY <1>2, FS_Singleton

\* A job that answers a row calls an insert, and a plain one adds no mod.
LEMMA CallOfJob ==
  ASSUME IInv, NEW c \in Callers, InProgress(c)
  PROVE  /\ Answering(c) => calls[c].kind = "insert" /\ calls[c].rows
         /\ Plain(c) => calls[c].mod = "none"
<1>1. Sequel(c) /\ tasks[c].step = "working" /\ calls[c].step # "none"
  BY Busy DEF IInv, Own, InProgress
<1>2. CASE tasks[c].job.template # <<>>
  BY <1>1, <1>2 DEF Sequel, Stacked
<1>3. CASE tasks[c].job.template = <<>>
  <2>1. SameCall(c) /\ tasks[c].job \in Jobs
    BY <1>1, <1>3 DEF Sequel
  <2>2. tasks[c].job.call # <<>>
    BY <1>3, <2>1, JobsAssumption
  <2>3. QED  BY <2>1, <2>2 DEF SameCall, Answering, Plain
<1>4. QED  BY <1>2, <1>3

LEMMA StatementGoesOn ==
  ASSUME IInv, NEW c \in Callers, calls[c].step = "statement", NEW new, Lands(c, new), Proceeds(c),
         UNCHANGED <<tasks, audit, dialect>>, failures' \in 0..MaxFailures
  PROVE  /\ Shape' /\ Sequel(c)' /\ Within(c)' /\ \A d \in Callers \ {c} : Own(d)'
         /\ Doomed(c)' => Hooked(c)'
         /\ (calls[c].kind = "insert" => new \subseteq calls'[c].effect) /\ calls'[c].step \in {"read back", "after"}
              => Hooked(c)'
<1>1. Shape /\ Own(c) /\ InProgress(c)
  BY DEF IInv, InProgress
<1>2. Shape'
  BY <1>1, ZenonT(60) DEF Shape, Lands, Proceeds, CallSteps
<1>3. \A d \in Callers : Written(d)' = Written(d)
  BY DEF Written
<1>4. \A d \in Callers \ {c} : Own(d)'
  BY <1>3, OthersOwn DEF Lands, Proceeds
<1>5. Sequel(c)'
  BY <1>1, SequelGoesOn DEF Lands, Proceeds
<1>6. Within(c)'
  <2>1. CASE calls[c].kind = "insert"
    BY <1>1, <1>3, <2>1, WithinGoesOn DEF Lands
  <2>2. CASE calls[c].kind # "insert"
    <3>1. tasks[c].made = <<>>
      BY <1>1, <2>2, Busy
    <3>2. QED  BY <1>1, <1>3, <3>1, WithinGoesOn DEF Lands
  <2>3. QED  BY <2>1, <2>2
<1>7. (Plain(c)' <=> Plain(c)) /\ (Telling(c)' <=> Telling(c))
  BY DEF Plain, Telling, Answering
<1>8. Plain(c) => Tells(tx'[c].audit, tx'[c].added) /\ Tells(Written(c), Kept(c)')
  <2>1. Plain(c) => Tells(tx[c].audit, tx[c].added) /\ Tells(Written(c), Kept(c))
    BY <1>1 DEF Own, Hooked
  <2>2. CASE calls[c].kind = "insert"
    BY <2>1, <2>2 DEF Tells, Lands
  <2>3. CASE calls[c].kind # "insert"
    <3>1. tx[c].audit = {}
      BY <1>1, <2>3 DEF Own, Right
    <3>2. QED  BY <2>1, <3>1 DEF Tells, Lands
  <2>4. QED  BY <2>2, <2>3
<1>9. Telling(c) => \A r \in Kept(c)' : ToldOf(r, Written(c))
  <2>1. Telling(c) => tx[c].open
    BY <1>1, Busy DEF Telling
  <2>2. QED  BY <1>1, <2>1 DEF Own, Hooked, Lands
<1>10. \A e \in tx'[c].audit : e.by = c
  BY <1>1 DEF Own, Hooked, Lands
<1>11. ASSUME Doomed(c)' PROVE Hooked(c)'
  BY <1>3, <1>7, <1>8, <1>9, <1>10, <1>11 DEF Hooked
<1>12. ASSUME calls[c].kind = "insert" => new \subseteq calls'[c].effect,
              calls'[c].step \in {"read back", "after"}
       PROVE  Hooked(c)'
  <2>1. ~Doomed(c)
    BY <1>1, Busy DEF Doomed
  <2>2. ASSUME Telling(c), NEW r \in tx'[c].added
        PROVE  ToldOf(r, tx'[c].audit) \/ (calls'[c].step \in {"read back", "after"} /\ r \in calls'[c].effect)
    <3>1. calls[c].kind = "insert"
      BY <1>1, <2>2, CallOfJob DEF Telling
    <3>2. r \in tx[c].added \/ r \in new
      BY <2>2, <3>1 DEF Lands
    <3>3. r \in tx[c].added => ToldOf(r, tx[c].audit)
      BY <1>1, <2>1, <2>2 DEF Own, Hooked
    <3>4. QED  BY <1>12, <3>1, <3>2, <3>3 DEF Lands
  <2>3. QED  BY <1>3, <1>7, <1>8, <1>9, <1>10, <2>2 DEF Hooked
<1>13. QED  BY <1>2, <1>4, <1>5, <1>6, <1>11, <1>12

\* A statement that did what it was asked, or skipped a duplicate.
LEMMA StatementAnswered ==
  ASSUME IInv, NEW c \in Callers, calls[c].step = "statement", NEW new, Lands(c, new),
         NEW effect, AfterStatement(c, effect),
         UNCHANGED <<tasks, audit, dialect>>, failures' \in 0..MaxFailures,
         \/ calls[c].mod = "ignore" /\ new = {} /\ effect = {}
         \/ effect = Effect(c) /\ new = New(c)
  PROVE  Shape' /\ \A d \in Callers : Own(d)'
<1> DEFINE set == calls[c].setter[1]
<1>1. Shape /\ Own(c) /\ InProgress(c) /\ calls[c].key = set
  BY DEF IInv, Own, Right, InProgress
<1>2. /\ Proceeds(c)
      /\ calls'[c].table = calls[c].table /\ calls'[c].effect = effect
      /\ calls'[c].key = IF set # Unset THEN set ELSE IF effect = {} THEN Unset ELSE nextId[calls[c].table]
      /\ calls'[c].answer = IF calls[c].rows /\ ~ByReadBack(c) THEN effect ELSE {}
      /\ calls[c].kind # "insert" => calls'[c].told = Cardinality(effect)
      /\ \/ calls'[c].step = "done" /\ calls'[c].outcome # "ok"
         \/ calls'[c].step = "read back" /\ ByReadBack(c)
         \/ /\ calls'[c].step = "after" /\ ~ByReadBack(c)
            /\ calls[c].kind = "insert" /\ calls[c].rows => effect # {} /\ ~(Cardinality(effect) > 1)
  <2>1. Proceeds(c)
    BY <1>1, StatementAnswers DEF Proceeds
  <2>2. calls'[c].key = IF calls[c].key # Unset THEN calls[c].key
                        ELSE IF effect = {} THEN Unset ELSE nextId[calls[c].table]
    BY <1>1, StatementAnswers
  <2>3. QED  BY <1>1, <2>1, <2>2, StatementAnswers
<1>3. calls[c].kind = "insert" => new = effect
  BY <1>1, NewAndOld
<1>4. calls[c].kind = "insert" =>
        /\ \A r \in effect : r.table = calls[c].table
        /\ calls[c].mod = "none" => \A r, q \in effect : r = q
        /\ calls[c].mod # "ignore" => effect # {}
        /\ effect # {} => \E r \in effect : r.id = IF set = Unset THEN nextId[calls[c].table] ELSE set
        /\ IsFiniteSet(effect)
  <2>1. CASE effect = {}
    <3>1. CASE calls[c].mod = "ignore"
      BY <2>1, <3>1, FS_EmptySet
    <3>2. CASE calls[c].mod # "ignore"
      BY <1>1, <2>1, <3>2, NewAndOld, InsertedRows
    <3>3. QED  BY <3>1, <3>2
  <2>2. CASE effect # {}
    <3>1. calls[c].kind = "insert" => effect = Inserted(c)
      BY <1>1, <2>2, NewAndOld
    <3>2. QED  BY <2>2, <3>1, InsertedRows
  <2>3. QED  BY <2>1, <2>2
<1>5. /\ Shape' /\ Sequel(c)' /\ Within(c)' /\ \A d \in Callers \ {c} : Own(d)'
      /\ Doomed(c)' => Hooked(c)'
      /\ calls'[c].step \in {"read back", "after"} => Hooked(c)'
  <2>1. calls[c].kind = "insert" => new \subseteq calls'[c].effect
    BY <1>2, <1>3
  <2>2. QED  BY <1>2, <2>1, StatementGoesOn
<1>6. CASE calls'[c].step = "done" /\ calls'[c].outcome # "ok"
  <2>1. Right(c)' /\ Placed(c)' /\ Doomed(c)'
    BY <1>6, FailedRight
  <2>2. QED  BY <1>5, <2>1 DEF Own
<1>7. CASE calls'[c].step \in {"read back", "after"}
  <2>1. ByReadBack(c)' <=> ByReadBack(c)
    BY <1>2 DEF ByReadBack, Proceeds
  <2>2. EffectRight(c)'
    <3>1. calls[c].kind = "insert" /\ ByReadBack(c) /\ effect # {} => \E r \in effect : r.id = calls'[c].key
      BY <1>2, <1>4
    <3>2. QED  BY <1>2, <1>4, <2>1, <3>1 DEF EffectRight, Proceeds
  <2>3. ASSUME calls'[c].step = "after" PROVE AnswerRight(c)'
    <3>1. ~ByReadBack(c) /\ (calls[c].kind = "insert" /\ calls[c].rows => effect # {} /\ ~(Cardinality(effect) > 1))
      BY <1>2, <2>3
    <3>2. CASE calls[c].kind # "insert"
      <4>1. calls'[c].told = Cardinality(effect) /\ (calls[c].rows => calls'[c].answer = effect)
        BY <1>2, <3>1, <3>2
      <4>2. QED  BY <1>2, <3>2, <4>1 DEF AnswerRight, Proceeds
    <3>3. CASE calls[c].kind = "insert" /\ ~calls[c].rows
      BY <1>2, <3>3 DEF AnswerRight, Proceeds
    <3>4. CASE calls[c].kind = "insert" /\ calls[c].rows
      <4>1. dialect' # "mysql"
        BY <3>1, <3>4 DEF ByReadBack
      <4>2. \E r \in effect : effect = {r}
        BY <1>4, <3>1, <3>4, OneElement
      <4>3. calls'[c].answer = effect
        BY <1>2, <3>1, <3>4
      <4>4. QED  BY <1>2, <3>4, <4>1, <4>2, <4>3 DEF AnswerRight, Proceeds
    <3>5. QED  BY <3>2, <3>3, <3>4
  <2>4. Right(c)'
    <3>1. HasAnswer(c)' => calls'[c].step = "after"
      BY <1>7 DEF HasAnswer, Finished
    <3>2. calls'[c].step = "read back" => ByReadBack(c)
      BY <1>2, <1>7
    <3>3. QED  BY <1>7, <2>1, <2>2, <2>3, <3>1, <3>2 DEF Right
  <2>5. Placed(c)'
    <3>1. calls'[c].answer \subseteq effect
      BY <1>2
    <3>2. calls[c].kind = "insert" => effect \subseteq (IF tx'[c].open THEN tx'[c].added ELSE Kept(c)')
      BY <1>3 DEF Lands
    <3>3. QED  BY <1>2, <3>1, <3>2 DEF Placed, Proceeds
  <2>6. QED  BY <1>5, <1>7, <2>4, <2>5 DEF Own
<1>8. QED  BY <1>2, <1>6, <1>7

LEMMA StatementKeeps ==
  ASSUME IInv, NEW c \in Callers, Statement(c), UNCHANGED <<seq, tasks>>
  PROVE  IInv'
<1> DEFINE refusal == Refusal(c, New(c), Old(c))
<1>1. /\ Shape /\ Apart /\ Own(c) /\ calls[c].step = "statement" /\ InProgress(c)
      /\ UNCHANGED <<tasks, audit, dialect>> /\ ~Waits(c, New(c), Old(c))
  BY DEF IInv, Statement, InProgress
<1>2. failures' \in 0..MaxFailures
  <2>1. failures' = failures \/ Fail
    BY DEF Statement
  <2>2. QED  BY <1>1, <2>1, FailuresAssumption DEF Fail, Shape
<1>3. CASE refusal # "none" /\ UNCHANGED <<rows, tx, ever, failures>> /\ ~(calls[c].mod = "ignore" /\ refusal = "duplicate") /\ Ends(c, refusal)
  <2>1. refusal # "ok"
    BY DEF Refusal
  <2>2. QED  BY <1>1, <1>2, <1>3, <2>1, CallFails
<1>4. CASE UNCHANGED <<rows, tx, ever, failures>> /\ calls[c].mod = "ignore" /\ AfterStatement(c, {})
  <2>1. Lands(c, {})
    <3>1. \A d \in Callers : Kept(d)' = Kept(d)
      BY <1>4 DEF Kept
    <3>2. QED  BY <1>1, <1>4, <3>1 DEF Lands, Shape
  <2>2. Apart'
    BY <1>1, <1>4 DEF Apart, View
  <2>3. Shape' /\ \A d \in Callers : Own(d)'
    BY <1>1, <1>2, <1>4, <2>1, StatementAnswered
  <2>4. QED  BY <2>2, <2>3 DEF IInv
<1>5. CASE refusal = "none" /\ Write(c, New(c), Old(c))
  <2>1. Lands(c, New(c)) /\ Apart'
    BY <1>1, <1>5, StatementWrites, WriteKeepsApart
  <2>2. CASE AfterStatement(c, Effect(c))
    BY <1>1, <1>2, <2>1, <2>2, StatementAnswered DEF IInv
  <2>3. CASE Ends(c, "failed")
    <3>1. Proceeds(c) /\ calls'[c].step = "done" /\ calls'[c].outcome # "ok"
      BY <1>1, <2>3, EndsFields, ZenonT(60) DEF Proceeds
    <3>2. Right(c)' /\ Placed(c)' /\ Doomed(c)'
      BY <3>1, FailedRight
    <3>3. QED  BY <1>1, <1>2, <2>1, <3>1, <3>2, StatementGoesOn DEF IInv, Own
  <2>4. QED  BY <1>5, <2>2, <2>3 DEF Statement
<1>6. QED  BY <1>3, <1>4, <1>5 DEF Statement

LEMMA ReadBackKeeps ==
  ASSUME IInv, NEW c \in Callers, ReadBack(c), UNCHANGED <<seq, tasks>>
  PROVE  IInv'
<1> DEFINE found == {r \in View(c) : r.table = calls[c].table /\ r.id = calls[c].key}
<1>1. /\ Shape /\ Apart /\ Own(c) /\ calls[c].step = "read back" /\ InProgress(c)
      /\ UNCHANGED <<tasks, rows, audit, tx, ever, dialect>>
  BY DEF IInv, ReadBack, InProgress, database
<1>2. failures' \in 0..MaxFailures
  <2>1. failures \in 0..MaxFailures
    BY <1>1 DEF Shape
  <2>2. failures' = failures \/ Fail
    BY DEF ReadBack
  <2>3. QED  BY <2>1, <2>2, FailuresAssumption DEF Fail
<1>3. CASE Ends(c, "row not found") \/ Ends(c, "failed")
  BY <1>1, <1>2, <1>3, CallFails
<1>4. CASE found # {} /\ calls' = [calls EXCEPT ![c].step = "after", ![c].answer = found, ![c].told = 1]
  <2>1. /\ DOMAIN calls' = Callers /\ \A d \in Callers \ {c} : calls'[d] = calls[d]
        /\ DOMAIN calls'[c] = DOMAIN NoCall
        /\ calls'[c].step = "after" /\ calls'[c].answer = found
        /\ calls'[c].kind = calls[c].kind /\ calls'[c].rows = calls[c].rows /\ calls'[c].mod = calls[c].mod
        /\ calls'[c].table = calls[c].table /\ calls'[c].key = calls[c].key /\ calls'[c].effect = calls[c].effect
    <3>1. DOMAIN calls = Callers /\ DOMAIN calls[c] = DOMAIN NoCall
      BY <1>1 DEF Shape
    <3>2. DOMAIN NoCall = {"step", "kind", "rows", "table", "where", "mod", "setter", "key", "effect",
                           "told", "answer", "outcome"}
      BY DEF NoCall
    <3> HIDE DEF found
    <3>3. QED  BY <1>4, <3>1, <3>2
  <2>2. Shape'
    BY <1>1, <1>2, <2>1, ZenonT(60) DEF Shape, CallSteps
  <2>3. Apart'
    BY <1>1 DEF Apart, View
  <2>4. \A d \in Callers : Kept(d)' = Kept(d) /\ Written(d)' = Written(d)
    BY <1>1 DEF Kept, Written
  <2>5. ByReadBack(c) /\ (ByReadBack(c)' <=> ByReadBack(c)) /\ EffectRight(c)
    BY <1>1, <2>1 DEF Own, Right, HasEffect, ByReadBack
  <2>6. PICK a \in found : found = {a}
    <3>1. \A r, q \in found : r = q
      BY <1>1, ZenonT(60) DEF Apart, Clash
    <3>2. QED  BY <1>4, <3>1
  <2>7. Right(c)'
    <3>1. EffectRight(c)'
      <4>1. EffectRight(c)' <=> EffectRight(c)
        BY <1>1, <2>1, ZenonT(60) DEF EffectRight, ByReadBack
      <4>2. QED  BY <2>5, <4>1
    <3>2. AnswerRight(c)'
      <4>1. calls[c].kind = "insert" /\ calls[c].rows /\ dialect = "mysql"
        BY <2>5 DEF ByReadBack
      <4>2. a.id = calls[c].key /\ a.table = calls[c].table
        OBVIOUS
      <4>3. calls'[c].kind = "insert" /\ calls'[c].rows /\ dialect' = "mysql" /\ calls'[c].answer = {a}
        BY <1>1, <2>1, <2>6, <4>1
      <4> HIDE DEF found
      <4>4. QED  BY <2>1, <4>2, <4>3 DEF AnswerRight
    <3>3. QED  BY <2>1, <3>1, <3>2 DEF Right
  <2>8. Placed(c)'
    <3>1. calls[c].effect \subseteq (IF tx[c].open THEN tx[c].added ELSE Kept(c))
      BY <1>1, <2>5, Busy DEF Own, Placed, HasEffect, ByReadBack
    <3>2. ASSUME calls[c].mod = "none", tx[c].open PROVE found \subseteq tx[c].added
      <4>1. PICK r \in calls[c].effect : r.id = calls[c].key /\ r.table = calls[c].table
        BY <2>5, <3>2 DEF EffectRight, ByReadBack
      <4>2. r \in tx[c].added /\ r \in View(c)
        BY <3>1, <3>2, <4>1 DEF View
      <4>3. r = a
        BY <1>1, <2>6, <4>1, <4>2 DEF Apart, Clash
      <4>4. QED  BY <2>6, <4>2, <4>3
    <3>3. QED  BY <1>1, <2>1, <2>4, <3>1, <3>2 DEF Placed
  <2>9. Sequel(c)' /\ Within(c)'
    BY <1>1, <2>1, <2>4, SequelGoesOn, WithinGoesOn
  <2>10. Hooked(c)'
    <3>1. (Plain(c)' <=> Plain(c)) /\ (Telling(c)' <=> Telling(c))
      BY <1>1 DEF Plain, Telling, Answering
    <3>2. ~Doomed(c)
      BY <1>1, Busy DEF Doomed
    <3>3. QED  BY <1>1, <2>1, <2>4, <3>1, <3>2 DEF Own, Hooked
  <2>11. \A d \in Callers \ {c} : Own(d)'
    BY <1>1, <2>1, <2>4, OthersOwn
  <2>12. QED  BY <2>2, <2>3, <2>7, <2>8, <2>9, <2>10, <2>11 DEF IInv, Own
<1>5. QED  BY <1>3, <1>4 DEF ReadBack

\* The entry of an after-hook tells of the rows the call answered, and of all
\* that it inserted if the call is plain.
Entry(c) ==
    [by |-> c, table |-> calls[c].table, kind |-> calls[c].kind, told |-> calls[c].told,
     rows |-> IF calls[c].kind = "insert" THEN {r.id : r \in calls[c].answer} ELSE {}]

LEMMA EntryTells ==
  ASSUME IInv, NEW c \in Callers, calls[c].step = "after", calls[c].mod = "none"
  PROVE  /\ tx[c].open => Tells({Entry(c)}, tx[c].added)
         /\ ~tx[c].open => Tells({Entry(c)}, Kept(c))
         /\ calls[c].kind = "insert" /\ calls[c].rows => \A r \in calls[c].effect : ToldOf(r, {Entry(c)})
<1>1. /\ EffectRight(c) /\ AnswerRight(c) /\ tasks[c].step = "working" /\ calls[c].rows \in BOOLEAN
      /\ calls[c].kind = "insert" =>
           /\ calls[c].effect \subseteq (IF tx[c].open THEN tx[c].added ELSE Kept(c))
           /\ tx[c].open => calls[c].answer \subseteq tx[c].added
  BY Busy DEF IInv, Shape, Own, Right, Placed, HasEffect, HasAnswer, InProgress
<1>2. Entry(c).table = calls[c].table /\ (calls[c].kind # "insert" => Entry(c).rows = {})
  BY DEF Entry
<1>3. CASE calls[c].kind # "insert"
  BY <1>2, <1>3 DEF Tells
<1>4. CASE calls[c].kind = "insert" /\ ~calls[c].rows
  <2>1. Entry(c).rows = {}
    BY <1>1, <1>4 DEF AnswerRight, Entry
  <2>2. QED  BY <1>4, <2>1 DEF Tells
<1>5. CASE calls[c].kind = "insert" /\ calls[c].rows
  <2>1. PICK a \in calls[c].answer, r \in calls[c].effect :
            /\ calls[c].answer = {a} /\ calls[c].effect = {r} /\ a.id = r.id
            /\ a.table = calls[c].table /\ r.table = calls[c].table
    <3>1. CASE dialect = "mysql"
      <4>1. PICK a \in calls[c].answer : calls[c].answer = {a} /\ a.id = calls[c].key /\ a.table = calls[c].table
        BY <1>1, <1>5, <3>1 DEF AnswerRight
      <4>2. PICK r \in calls[c].effect : r.id = calls[c].key /\ r.table = calls[c].table
        BY <1>1, <1>5, <3>1 DEF EffectRight, ByReadBack
      <4>3. calls[c].effect = {r}
        BY <1>1, <1>5, <4>2 DEF EffectRight
      <4>4. QED  BY <4>1, <4>2, <4>3
    <3>2. CASE dialect # "mysql"
      BY <1>1, <1>5, <3>2 DEF AnswerRight, EffectRight
    <3>3. QED  BY <3>1, <3>2
  <2>2. Entry(c).rows = {a.id}
    BY <1>5, <2>1 DEF Entry
  <2>3. QED  BY <1>1, <1>2, <1>5, <2>1, <2>2 DEF Tells, ToldOf
<1>6. QED  BY <1>1, <1>3, <1>4, <1>5

LEMMA AfterHookKeeps ==
  ASSUME IInv, NEW c \in Callers, AfterHook(c), UNCHANGED <<seq, tasks>>
  PROVE  IInv'
<1>1. /\ Shape /\ Apart /\ Own(c) /\ calls[c].step = "after" /\ InProgress(c)
      /\ UNCHANGED <<tasks, rows, ever, dialect>>
  BY DEF IInv, AfterHook, InProgress
<1>2. failures' \in 0..MaxFailures
  <2>1. failures \in 0..MaxFailures
    BY <1>1 DEF Shape
  <2>2. failures' = failures \/ Fail
    BY DEF AfterHook
  <2>3. QED  BY <2>1, <2>2, FailuresAssumption DEF Fail
<1>3. CASE Fail /\ Ends(c, "failed") /\ UNCHANGED <<audit, tx>>
  BY <1>1, <1>2, <1>3, CallFails
<1>4. CASE Audit(c, Entry(c)) /\ Ends(c, "ok")
  <2>1. /\ DOMAIN calls' = Callers /\ \A d \in Callers \ {c} : calls'[d] = calls[d]
        /\ DOMAIN calls'[c] = DOMAIN NoCall
        /\ calls'[c].step = "done" /\ calls'[c].outcome = "ok"
        /\ calls'[c].kind = calls[c].kind /\ calls'[c].rows = calls[c].rows /\ calls'[c].mod = calls[c].mod
        /\ calls'[c].table = calls[c].table /\ calls'[c].key = calls[c].key
        /\ calls'[c].effect = calls[c].effect /\ calls'[c].answer = calls[c].answer /\ calls'[c].told = calls[c].told
    <3>1. DOMAIN calls = Callers /\ DOMAIN calls[c] = DOMAIN NoCall
      BY <1>1 DEF Shape
    <3>2. DOMAIN NoCall = {"step", "kind", "rows", "table", "where", "mod", "setter", "key", "effect",
                           "told", "answer", "outcome"}
      BY DEF NoCall
    <3>3. QED  BY <1>4, <3>1, <3>2 DEF Ends
  <2>2. /\ DOMAIN tx' = Callers /\ \A d \in Callers \ {c} : tx'[d] = tx[d]
        /\ DOMAIN tx'[c] = {"open", "added", "removed", "audit"}
        /\ tx'[c].open = tx[c].open /\ tx'[c].added = tx[c].added /\ tx'[c].removed = tx[c].removed
        /\ tx'[c].audit = IF tx[c].open THEN tx[c].audit \cup {Entry(c)} ELSE tx[c].audit
        /\ ~tx[c].open => tx' = tx
    <3>1. DOMAIN tx = Callers /\ DOMAIN tx[c] = {"open", "added", "removed", "audit"}
      BY <1>1 DEF Shape
    <3>2. QED  BY <1>4, <3>1 DEF Audit
  <2>3. /\ Written(c)' = IF tx[c].open THEN Written(c) ELSE Written(c) \cup {Entry(c)}
        /\ \A d \in Callers \ {c} : Written(d)' = Written(d)
        /\ \A e \in audit' : e.by \in Callers
    <3>1. Entry(c).by = c /\ \A e \in audit : e.by \in Callers
      BY <1>1 DEF Entry, Shape
    <3>2. audit' = IF tx[c].open THEN audit ELSE audit \cup {Entry(c)}
      BY <1>4 DEF Audit
    <3>3. CASE tx[c].open  BY <3>1, <3>2, <3>3 DEF Written
    <3>4. CASE ~tx[c].open
      <4>1. audit' = audit \cup {Entry(c)} /\ \A e \in {Entry(c)} : e.by = c
        BY <3>1, <3>2, <3>4
      <4>2. Written(c)' = Written(c) \cup {Entry(c)} /\ \A d : d # c => Written(d)' = Written(d)
        BY <4>1 DEF Written
      <4>3. QED  BY <3>1, <4>1, <3>4, <4>2
    <3>5. QED  BY <3>3, <3>4
  <2>4. \A d \in Callers : Kept(d)' = Kept(d)
    BY <1>1 DEF Kept
  <2>5. Shape'
    <3>1. \A d \in Callers : DOMAIN tx'[d] = {"open", "added", "removed", "audit"} /\ tx'[d].open \in BOOLEAN
      BY <1>1, <2>2 DEF Shape
    <3>2. \A d \in Callers :
            /\ DOMAIN calls'[d] = DOMAIN NoCall
            /\ calls'[d].step \in CallSteps /\ calls'[d].kind \in Kinds /\ calls'[d].rows \in BOOLEAN
      BY <1>1, <2>1, ZenonT(60) DEF Shape, CallSteps
    <3>3. QED  BY <1>1, <1>2, <2>1, <2>2, <2>3, <3>1, <3>2 DEF Shape
  <2>6. Apart'
    <3>1. \A d \in Callers : View(d)' = View(d) /\ tx'[d].added = tx[d].added /\ tx'[d].open = tx[d].open
      BY <1>1, <2>2 DEF View
    <3>2. \A d \in Callers : ~tx[d].open => tx'[d] = tx[d]
      BY <2>2
    <3>3. QED  BY <1>1, <3>1, <3>2 DEF Apart
  <2>7. Right(c)'
    <3>1. EffectRight(c) /\ AnswerRight(c)
      BY <1>1 DEF Own, Right, HasEffect, HasAnswer
    <3>2. (EffectRight(c)' <=> EffectRight(c)) /\ (ByReadBack(c)' <=> ByReadBack(c))
      BY <1>1, <2>1 DEF EffectRight, ByReadBack
    <3>3. AnswerRight(c)' <=> AnswerRight(c)
      BY <1>1, <2>1 DEF AnswerRight
    <3>4. QED  BY <2>1, <3>1, <3>2, <3>3 DEF Right
  <2>8. Placed(c)'
    BY <1>1, <2>1, <2>2, <2>4 DEF Own, Placed, HasEffect, HasAnswer, Finished
  <2>9. Sequel(c)' /\ Within(c)'
    BY <1>1, <2>1, <2>2, <2>3, <2>4, SequelGoesOn, WithinGoesOn
  <2>10. Hooked(c)'
    <3>1. (Plain(c)' <=> Plain(c)) /\ (Telling(c)' <=> Telling(c)) /\ (Telling(c) => Answering(c) /\ Plain(c))
      BY <1>1 DEF Plain, Telling, Answering
    <3>2. Plain(c) =>
            /\ tx[c].open => Tells({Entry(c)}, tx[c].added)
            /\ ~tx[c].open => Tells({Entry(c)}, Kept(c))
            /\ Answering(c) => \A r \in calls[c].effect : ToldOf(r, {Entry(c)})
      BY <1>1, CallOfJob, EntryTells
    <3>3. Plain(c) => Tells(tx'[c].audit, tx'[c].added) /\ Tells(Written(c)', Kept(c)')
      BY <1>1, <2>2, <2>3, <2>4, <3>2 DEF Own, Hooked, Tells
    <3>4. \A e \in tx'[c].audit : e.by = c
      BY <1>1, <2>2 DEF Own, Hooked, Entry
    <3>5. Telling(c) => tx[c].open /\ \A r \in Kept(c)' : ToldOf(r, Written(c)')
      BY <1>1, <2>3, <2>4, Busy DEF Own, Hooked, Telling
    <3>6. ASSUME Telling(c), NEW r \in tx'[c].added PROVE ToldOf(r, tx'[c].audit)
      <4>1. ~Doomed(c)
        BY <1>1, Busy DEF Doomed
      <4>2. ToldOf(r, tx[c].audit) \/ r \in calls[c].effect
        BY <1>1, <2>2, <3>6, <4>1 DEF Own, Hooked
      <4>3. ToldOf(r, tx[c].audit) \/ ToldOf(r, {Entry(c)})
        BY <3>1, <3>2, <3>6, <4>2
      <4>4. QED  BY <2>2, <3>5, <3>6, <4>3 DEF ToldOf
    <3>7. QED  BY <3>1, <3>3, <3>4, <3>5, <3>6 DEF Hooked
  <2>11. \A d \in Callers \ {c} : Own(d)'
    BY <1>1, <2>1, <2>2, <2>3, <2>4, OthersOwn
  <2>12. QED  BY <2>5, <2>6, <2>7, <2>8, <2>9, <2>10, <2>11 DEF IInv, Own
<1>5. QED  BY <1>1, <1>3, <1>4 DEF AfterHook, Entry

-----------------------------------------------------------------------------
(* The steps of a job.                                                      *)

\* A step that touches nothing but the job of c.
LEMMA JobGoesOn ==
  ASSUME IInv, NEW c \in Callers, UNCHANGED mutationVars,
         DOMAIN tasks' = Callers, \A d \in Callers \ {c} : tasks'[d] = tasks[d],
         DOMAIN tasks'[c] = DOMAIN Idle, tasks'[c].job = tasks[c].job, tasks'[c].atomic = tasks[c].atomic,
         tasks'[c].step = tasks[c].step, tasks'[c].outcome = tasks[c].outcome, tasks'[c].made = tasks[c].made,
         Sequel(c)'
  PROVE  IInv'
<1>1. Shape /\ Apart /\ Own(c) /\ UNCHANGED <<dialect, rows, audit, tx, calls, ever, failures>>
  BY DEF IInv, mutationVars
<1>2. \A d \in Callers : Kept(d)' = Kept(d) /\ Written(d)' = Written(d)
  BY <1>1 DEF Kept, Written
<1>3. Shape'
  BY <1>1 DEF Shape
<1>4. Apart'
  BY <1>1 DEF Apart, View
<1>5. Right(c)'
  <2>1. (HasAnswer(c)' <=> HasAnswer(c)) /\ (HasEffect(c)' <=> HasEffect(c))
    BY <1>1 DEF HasEffect, HasAnswer, Finished
  <2>2. (EffectRight(c)' <=> EffectRight(c)) /\ (ByReadBack(c)' <=> ByReadBack(c))
    BY <1>1 DEF EffectRight, ByReadBack
  <2>3. AnswerRight(c)' <=> AnswerRight(c)
    BY <1>1 DEF AnswerRight
  <2>4. QED  BY <1>1, <2>1, <2>2, <2>3 DEF Own, Right
<1>6. Placed(c)' /\ Within(c)'
  BY <1>1, <1>2 DEF Own, Placed, Within, HasEffect, HasAnswer, Finished
<1>7. Hooked(c)'
  <2>1. (Plain(c)' <=> Plain(c)) /\ (Telling(c)' <=> Telling(c)) /\ (Doomed(c)' <=> Doomed(c))
    BY <1>1 DEF Plain, Telling, Answering, Doomed
  <2>2. QED  BY <1>1, <1>2, <2>1 DEF Own, Hooked
<1>8. \A d \in Callers \ {c} : Own(d)'
  BY <1>1, <1>2, OthersOwn
<1>9. QED  BY <1>3, <1>4, <1>5, <1>6, <1>7, <1>8 DEF IInv, Own

\* What the stack of a creation is made of.
LEMMA FrontOf ==
  ASSUME NEW S, NEW s \in Seq(S), s # <<>>
  PROVE  Front(s) \in Seq(S) /\ Len(Front(s)) = Len(s) - 1 /\ \A i \in 1..Len(s)-1 : Front(s)[i] = s[i]
<1>1. Len(s) - 1 \in Nat /\ \A i \in 1..Len(s)-1 : s[i] \in S
  OBVIOUS
<1>2. PICK n \in Nat : n = Len(s) - 1
  BY <1>1, Zenon
<1>3. SubSeq(s, 1, n) = Front(s)
  BY <1>2 DEF Front
<1>4. 1 \in Int /\ n \in Int /\ \A i \in 1..n : s[i] \in S
  BY <1>1, <1>2
<1>5. /\ SubSeq(s, 1, n) \in Seq(S) /\ Len(SubSeq(s, 1, n)) = IF 1 <= n THEN n - 1 + 1 ELSE 0
      /\ \A i \in 1..n-1+1 : SubSeq(s, 1, n)[i] = s[1 + i - 1]
  BY <1>4, SubSeqProperties
<1> DEFINE front == Front(s)
<1>6. /\ front \in Seq(S) /\ Len(front) = IF 1 <= n THEN n - 1 + 1 ELSE 0
      /\ \A i \in 1..n-1+1 : front[i] = s[1 + i - 1]
  BY <1>3, <1>5, Zenon
<1> HIDE DEF front
<1>7. Len(front) = n /\ \A i \in 1..n : front[i] = s[i]
  BY <1>6
<1>8. front \in Seq(S) /\ Len(front) = Len(s) - 1 /\ \A i \in 1..Len(s)-1 : front[i] = s[i]
  BY <1>2, <1>6, <1>7
<1>9. QED  BY <1>8 DEF front

LEMMA TopReplaced ==
  ASSUME NEW S, NEW s \in Seq(S), s # <<>>, NEW f
  PROVE  LET new == Append(Front(s), f)
         IN  /\ \E T : new \in Seq(T)
             /\ Len(new) = Len(s) /\ new # <<>> /\ Last(new) = f
             /\ \A i \in 1..Len(s)-1 : new[i] = s[i]
<1> DEFINE front == Front(s)
           new == Append(front, f)
<1>1. Len(s) \in Nat \ {0}
  OBVIOUS
<1>2. front \in Seq(S) /\ Len(front) = Len(s) - 1 /\ \A i \in 1..Len(s)-1 : front[i] = s[i]
  BY FrontOf
<1> HIDE DEF front
<1>3. front \in Seq(S \cup {f}) /\ f \in S \cup {f}
  BY <1>2
<1>4. new \in Seq(S \cup {f}) /\ Len(new) = Len(s) /\ new[Len(s)] = f /\ \A i \in 1..Len(s)-1 : new[i] = s[i]
  BY <1>1, <1>2, <1>3
<1>5. Last(new) = f /\ new # <<>>
  BY <1>1, <1>4 DEF Last
<1>6. QED  BY <1>4, <1>5 DEF front

LEMMA Pushed ==
  ASSUME NEW S, NEW s \in Seq(S), s # <<>>, NEW f, NEW g
  PROVE  LET new == Append(Front(s), f) \o <<g>>
         IN  /\ \E T : new \in Seq(T)
             /\ Len(new) = Len(s) + 1 /\ new # <<>> /\ Last(new) = g
             /\ new[Len(s)] = f /\ \A i \in 1..Len(s)-1 : new[i] = s[i]
<1> DEFINE below == Append(Front(s), f)
           new == below \o <<g>>
<1>1. Len(s) \in Nat \ {0}
  OBVIOUS
<1>2. PICK T : below \in Seq(T)
  BY TopReplaced
<1>3. Len(below) = Len(s) /\ below[Len(s)] = f /\ \A i \in 1..Len(s)-1 : below[i] = s[i]
  BY <1>1, TopReplaced DEF Last
<1> HIDE DEF below
<1>4. below \in Seq(T \cup {g}) /\ <<g>> \in Seq(T \cup {g}) /\ Len(<<g>>) = 1 /\ <<g>>[1] = g
  BY <1>2
<1>5. /\ new \in Seq(T \cup {g}) /\ Len(new) = Len(s) + 1 /\ new[Len(s) + 1] = g
      /\ \A i \in 1..Len(s) : new[i] = below[i]
  BY <1>1, <1>3, <1>4
<1>6. Last(new) = g /\ new # <<>>
  BY <1>1, <1>5 DEF Last
<1>7. QED  BY <1>1, <1>3, <1>5, <1>6 DEF below

\* A frame is at work only while a factory job runs.
LEMMA FrameAtWork ==
  ASSUME IInv, NEW c \in Callers, tasks[c].stack # <<>>
  PROVE  /\ tasks[c].step = "working" /\ tasks[c].job.template # <<>> /\ tasks[c].left > 0
         /\ tasks[c].job \in Jobs /\ Stacked(c) /\ tasks[c].outcome = "none" /\ tx[c].open = tasks[c].atomic
<1>1. Sequel(c) /\ tasks[c].step \in JobSteps
  BY DEF IInv, Own, Shape
<1>2. Idle.stack = <<>>
  BY DEF Idle
<1>3. tasks[c].step = "working"
  BY <1>1, <1>2 DEF Sequel, JobSteps
<1>4. QED  BY <1>1, <1>3 DEF Sequel

\* What a step that only works on the stack leaves.
OnlyStack(c) ==
    /\ DOMAIN tasks' = Callers /\ \A d \in Callers \ {c} : tasks'[d] = tasks[d]
    /\ DOMAIN tasks'[c] = DOMAIN Idle /\ tasks'[c].job = tasks[c].job /\ tasks'[c].atomic = tasks[c].atomic
    /\ tasks'[c].step = tasks[c].step /\ tasks'[c].outcome = tasks[c].outcome /\ tasks'[c].made = tasks[c].made
    /\ tasks'[c].left = tasks[c].left

LEMMA StackFields ==
  ASSUME Shape, NEW c \in Callers, NEW stack, tasks' = [tasks EXCEPT ![c].stack = stack]
  PROVE  OnlyStack(c) /\ tasks'[c].stack = stack
<1>1. DOMAIN tasks = Callers /\ DOMAIN tasks[c] = DOMAIN Idle
  BY DEF Shape
<1>2. DOMAIN Idle = {"step", "job", "atomic", "stack", "left", "made", "results", "outcome"}
  BY DEF Idle
<1>3. QED  BY <1>1, <1>2 DEF OnlyStack

LEMMA StackGoesOn ==
  ASSUME IInv, NEW c \in Callers, tasks[c].stack # <<>>, UNCHANGED mutationVars, OnlyStack(c), Stacked(c)'
  PROVE  IInv'
<1>1. Sequel(c) /\ tasks[c].step = "working" /\ tasks[c].job.template # <<>>
  BY FrameAtWork DEF IInv, Own
<1>2. Sequel(c)'
  BY <1>1 DEF Sequel, OnlyStack, mutationVars
<1>3. QED  BY <1>2, JobGoesOn DEF OnlyStack

\* The steps that work on the top frame, and those that push one on it.
LEMMA ReplaceKeeps ==
  ASSUME IInv, NEW c \in Callers, NEW frame, tasks[c].stack # <<>>, tasks' = Replace(c, frame),
         UNCHANGED mutationVars, DOMAIN frame = DOMAIN Frame("any"), calls[c].step = "none",
         frame.step \in Columns \cup {"parent", "insert", "children"}
  PROVE  IInv'
<1> DEFINE stack == tasks[c].stack
           new == Append(Front(stack), frame)
<1>1. Shape /\ Stacked(c)
  BY FrameAtWork DEF IInv
<1>2. OnlyStack(c) /\ tasks'[c].stack = new
  BY <1>1, StackFields DEF Replace
<1>3. PICK S : stack \in Seq(S)
  BY <1>1 DEF Stacked
<1>4. /\ \E T : new \in Seq(T)
      /\ Len(new) = Len(stack) /\ new # <<>> /\ Last(new) = frame
      /\ \A i \in 1..Len(stack)-1 : new[i] = stack[i]
  BY <1>3, TopReplaced
<1> HIDE DEF new
<1>5. Len(stack) \in Nat
  BY <1>3
<1>6. Stacked(c)'
  BY <1>1, <1>2, <1>4, <1>5 DEF Stacked, Last, mutationVars, Columns
<1>7. QED  BY <1>2, <1>6, StackGoesOn

LEMMA PushKeeps ==
  ASSUME IInv, NEW c \in Callers, NEW frame, NEW tpl, tasks[c].stack # <<>>, tasks' = Push(c, frame, tpl),
         UNCHANGED mutationVars, DOMAIN frame = DOMAIN Frame("any"), calls[c].step = "none",
         frame.step \in {"insert", "children"}
  PROVE  IInv'
<1> DEFINE stack == tasks[c].stack
           top == Frame(tpl)
           new == Append(Front(stack), frame) \o <<top>>
<1>1. Shape /\ Stacked(c)
  BY FrameAtWork DEF IInv
<1>2. OnlyStack(c) /\ tasks'[c].stack = new
  BY <1>1, StackFields DEF Push
<1>3. PICK S : stack \in Seq(S)
  BY <1>1 DEF Stacked
<1>4. /\ \E T : new \in Seq(T)
      /\ Len(new) = Len(stack) + 1 /\ new # <<>> /\ Last(new) = top
      /\ new[Len(stack)] = frame /\ \A i \in 1..Len(stack)-1 : new[i] = stack[i]
  <2>1. stack \in Seq(S) /\ stack # <<>>
    BY <1>3
  <2> HIDE DEF top, stack, new
  <2>2. new = Append(Front(stack), frame) \o <<top>>
    BY DEF new
  <2>3. QED  BY <2>1, <2>2, Pushed
<1>5. top.step = "id" /\ DOMAIN top = DOMAIN Frame("any")
  BY DEF Frame
<1> HIDE DEF new, top
<1>6. Len(stack) \in Nat \ {0}
  BY <1>1, <1>3 DEF Stacked
<1>7. Stacked(c)'
  <2>1. \A i \in 1..Len(new) : DOMAIN new[i] = DOMAIN Frame("any")
    BY <1>1, <1>4, <1>5, <1>6, SMTT(30) DEF Stacked, Last
  <2>2. \A i \in 1..Len(new)-1 : new[i].step \in {"insert", "children"}
    BY <1>1, <1>4, <1>6, SMTT(30) DEF Stacked
  <2>3. QED  BY <1>1, <1>2, <1>4, <1>5, <2>1, <2>2 DEF Stacked, mutationVars, Columns
<1>8. QED  BY <1>2, <1>7, StackGoesOn

\* The frame at work, but while its insert is in progress.
LEMMA TopFrame ==
  ASSUME IInv, NEW c \in Callers, NEW step, Working(c, step), step # "inserting"
  PROVE  /\ tasks[c].stack # <<>> /\ calls[c].step = "none" /\ Last(tasks[c].stack).step = step
         /\ DOMAIN Last(tasks[c].stack) = DOMAIN Frame("any")
<1>1. tasks[c].stack # <<>> /\ Stacked(c) /\ Last(tasks[c].stack).step = step
  BY FrameAtWork DEF Working
<1>2. PICK S : tasks[c].stack \in Seq(S)
  BY <1>1 DEF Stacked
<1>3. Len(tasks[c].stack) \in 1..Len(tasks[c].stack)
  BY <1>1, <1>2
<1>4. QED  BY <1>1, <1>3 DEF Stacked, Last

LEMMA FrameFields ==
  DOMAIN Frame("any") = {"tpl", "step", "setter", "child", "id"}
  BY DEF Frame

\* What a column fills in of a frame.
LEMMA FilledFrame ==
  ASSUME NEW frame, DOMAIN frame = DOMAIN Frame("any"), NEW column \in Columns, NEW next
  PROVE  LET filled == Filled(frame, column, next)
         IN  /\ DOMAIN filled = DOMAIN Frame("any") /\ filled.tpl = frame.tpl /\ DOMAIN filled.setter = 1..3
             /\ column = "id" => filled.step = "label" /\ filled.setter[1] = Resolved(frame.tpl.id, next)
             /\ column = "label" =>
                  /\ filled.step = "parent" /\ filled.setter[1] = frame.setter[1]
                  /\ filled.setter[2] = Resolved(frame.tpl.label, next)
                  /\ filled.setter[3] = IF frame.tpl.parent.state = "existing" THEN frame.tpl.parent.key ELSE Unset
<1> DEFINE first  == <<Resolved(frame.tpl.id, next), Unset, Unset>>
           key    == IF frame.tpl.parent.state = "existing" THEN frame.tpl.parent.key ELSE Unset
           second == <<frame.setter[1], Resolved(frame.tpl.label, next), key>>
<1>1. /\ DOMAIN first = 1..3 /\ first[1] = Resolved(frame.tpl.id, next)
      /\ DOMAIN second = 1..3 /\ second[1] = frame.setter[1] /\ second[2] = Resolved(frame.tpl.label, next)
      /\ second[3] = key
  OBVIOUS
<1>2. CASE column = "id"
  <2>1. Filled(frame, column, next) = [frame EXCEPT !.step = "label", !.setter = first]
    BY <1>2 DEF Filled
  <2> HIDE DEF first
  <2>2. QED  BY <1>1, <1>2, <2>1, FrameFields
<1>3. CASE column = "label"
  <2>1. Filled(frame, column, next) = [frame EXCEPT !.step = "parent", !.setter = second]
    BY <1>3 DEF Filled
  <2> HIDE DEF second
  <2>2. QED  BY <1>1, <1>3, <2>1, FrameFields
<1>4. QED  BY <1>2, <1>3 DEF Columns

LEMMA BuildKeeps ==
  ASSUME IInv, NEW c \in Callers, NEW column \in Columns, Build(c, column)
  PROVE  IInv'
<1> DEFINE top == Last(tasks[c].stack)
<1>1. UNCHANGED mutationVars /\ Working(c, column)
  BY DEF Build
<1>2. tasks[c].stack # <<>> /\ calls[c].step = "none" /\ DOMAIN top = DOMAIN Frame("any")
  BY <1>1, TopFrame DEF Columns
<1>3. PICK next : tasks' = Replace(c, Filled(top, column, next))
  BY DEF Build
<1> DEFINE frame == Filled(top, column, next)
<1>4. DOMAIN frame = DOMAIN Frame("any") /\ frame.step \in {"label", "parent"}
  BY <1>2, FilledFrame DEF Columns
<1> HIDE DEF top, frame
<1>5. tasks' = Replace(c, frame)
  BY <1>3 DEF frame, top
<1>6. QED  BY <1>1, <1>2, <1>4, <1>5, ReplaceKeeps DEF Columns

LEMMA ParentKeeps ==
  ASSUME IInv, NEW c \in Callers, Parent(c)
  PROVE  IInv'
<1> DEFINE top == Last(tasks[c].stack)
           frame == [top EXCEPT !.step = "insert"]
<1>1. UNCHANGED mutationVars /\ Working(c, "parent")
  BY DEF Parent
<1>2. tasks[c].stack # <<>> /\ calls[c].step = "none" /\ DOMAIN top = DOMAIN Frame("any")
  BY <1>1, TopFrame
<1>3. DOMAIN frame = DOMAIN Frame("any") /\ frame.step = "insert"
  BY <1>2, FrameFields
<1>4. \/ tasks' = Push(c, frame, top.tpl.parent.tpl[1])
      \/ tasks' = Push(c, frame, Template(Refers[top.tpl.table].to))
      \/ tasks' = Replace(c, frame)
  BY DEF Parent
<1> HIDE DEF top, frame
<1>5. QED  BY <1>1, <1>2, <1>3, <1>4, PushKeeps, ReplaceKeeps

LEMMA ChildKeeps ==
  ASSUME IInv, NEW c \in Callers, Child(c)
  PROVE  IInv'
<1> DEFINE top == Last(tasks[c].stack)
           frame == [top EXCEPT !.child = @ + 1]
<1>1. UNCHANGED mutationVars /\ Working(c, "children")
  BY DEF Child
<1>2. /\ tasks[c].stack # <<>> /\ calls[c].step = "none" /\ DOMAIN top = DOMAIN Frame("any")
      /\ top.step = "children"
  BY <1>1, TopFrame
<1>3. DOMAIN frame = DOMAIN Frame("any") /\ frame.step = "children"
  BY <1>2, FrameFields
<1>4. tasks' = Push(c, frame, Forced(top.tpl.children[top.child], top.id))
  BY DEF Child
<1> HIDE DEF top, frame
<1>5. QED  BY <1>1, <1>2, <1>3, <1>4, PushKeeps

\* The end of the job's work, whatever it comes to.
LEMMA JobEnds ==
  ASSUME IInv, NEW c \in Callers, UNCHANGED <<dialect, rows, audit, tx, ever, failures>>,
         tasks[c].step = "working", calls[c].step \in {"none", "done"},
         DOMAIN tasks' = Callers, \A d \in Callers \ {c} : tasks'[d] = tasks[d],
         DOMAIN tasks'[c] = DOMAIN Idle, tasks'[c].job = tasks[c].job, tasks'[c].atomic = tasks[c].atomic,
         tasks'[c].made = tasks[c].made, tasks'[c].step = "settle", tasks'[c].stack = <<>>,
         tasks'[c].left \in 0..tasks[c].job.times,
         calls' = calls \/ calls' = [calls EXCEPT ![c] = NoCall],
         calls'[c].step = "done" => calls'[c].outcome = tasks'[c].outcome,
         tasks'[c].outcome = "ok" => ~Doomed(c)
  PROVE  IInv'
<1>1. Shape /\ Apart /\ Own(c) /\ UNCHANGED <<dialect, rows, audit, tx, ever, failures>>
  BY DEF IInv
<1>2. \A d \in Callers : Kept(d)' = Kept(d) /\ Written(d)' = Written(d)
  BY DEF Kept, Written
<1>3. /\ NoCall.step = "none" /\ NoCall.kind \in Kinds /\ NoCall.rows \in BOOLEAN
      /\ "none" \in CallSteps /\ "settle" \in JobSteps
  BY DEF NoCall, Kinds, CallSteps, JobSteps
<1>4. DOMAIN calls' = Callers /\ (\A d \in Callers \ {c} : calls'[d] = calls[d]) /\ calls'[c] \in {calls[c], NoCall}
  BY <1>1 DEF Shape
<1>5. Shape'
  BY <1>1, <1>3, <1>4 DEF Shape
<1>6. Apart'
  BY <1>1 DEF Apart, View
<1>7. Sequel(c)'
  BY <1>1, <1>3, <1>4 DEF Own, Sequel
<1>8. Right(c)'
  <2>1. CASE calls'[c] = calls[c]
    <3>1. (HasAnswer(c)' <=> HasAnswer(c)) /\ (HasEffect(c)' <=> HasEffect(c))
      BY <2>1 DEF HasEffect, HasAnswer, Finished
    <3>2. (EffectRight(c)' <=> EffectRight(c)) /\ (ByReadBack(c)' <=> ByReadBack(c))
      BY <2>1 DEF EffectRight, ByReadBack
    <3>3. AnswerRight(c)' <=> AnswerRight(c)
      BY <2>1 DEF AnswerRight
    <3>4. QED  BY <1>1, <2>1, <3>1, <3>2, <3>3 DEF Own, Right
  <2>2. CASE calls'[c] = NoCall
    BY <1>3, <2>2 DEF Right, HasEffect, HasAnswer, Finished
  <2>3. QED  BY <1>4, <2>1, <2>2
<1>9. Placed(c)' /\ Within(c)'
  BY <1>1, <1>2 DEF Own, Placed, Within
<1>10. Hooked(c)'
  <2>1. (Plain(c)' <=> Plain(c)) /\ (Telling(c)' <=> Telling(c)) /\ (~Doomed(c)' => ~Doomed(c))
    BY DEF Plain, Telling, Answering, Doomed
  <2>2. QED  BY <1>1, <1>2, <2>1 DEF Own, Hooked
<1>11. \A d \in Callers \ {c} : Own(d)'
  BY <1>1, <1>2, <1>4, OthersOwn
<1>12. QED  BY <1>5, <1>6, <1>7, <1>8, <1>9, <1>10, <1>11 DEF IInv, Own

LEMMA IdleFields ==
  DOMAIN Idle = {"step", "job", "atomic", "stack", "left", "made", "results", "outcome"}
  BY DEF Idle

LEMMA ReturnKeeps ==
  ASSUME IInv, NEW c \in Callers, Return(c)
  PROVE  IInv'
<1> DEFINE stack == tasks[c].stack
           top   == Last(stack)
           below == Front(stack)
           asker == Last(below)
<1>1. UNCHANGED mutationVars /\ Working(c, "children") /\ Shape
  BY DEF Return, IInv
<1>2. stack # <<>> /\ calls[c].step = "none"
  BY <1>1, TopFrame
<1>3. /\ Stacked(c) /\ tasks[c].step = "working" /\ tasks[c].job.template # <<>> /\ Sequel(c)
      /\ tasks[c].left > 0 /\ tasks[c].outcome = "none" /\ tx[c].open = tasks[c].atomic /\ tasks[c].job \in Jobs
  BY <1>2, FrameAtWork DEF IInv, Own
<1>4. PICK S : stack \in Seq(S)
  BY <1>3 DEF Stacked
<1>5. Len(stack) \in Nat \ {0} /\ below \in Seq(S) /\ Len(below) = Len(stack) - 1
      /\ \A i \in 1..Len(stack)-1 : below[i] = stack[i]
  <2>1. below \in Seq(S) /\ Len(below) = Len(stack) - 1 /\ \A i \in 1..Len(stack)-1 : below[i] = stack[i]
    BY <1>2, <1>4, FrontOf
  <2>2. Len(stack) \in Nat \ {0}
    BY <1>2, <1>4
  <2>3. QED  BY <2>1, <2>2
<1>6. CASE below # <<>>
  <2> DEFINE taken == [asker EXCEPT !.setter[3] = top.id]
             new == IF asker.step = "insert" THEN Append(Front(below), taken) ELSE below
  <2>1. tasks' = [tasks EXCEPT ![c].stack = new]
    BY <1>6 DEF Return
  <2>2. OnlyStack(c) /\ tasks'[c].stack = new
    BY <1>1, <2>1, StackFields
  <2>3. Len(below) \in 1..Len(stack)-1
    BY <1>5, <1>6
  <2>4. DOMAIN asker = DOMAIN Frame("any") /\ asker.step \in {"insert", "children"} /\ asker = below[Len(below)]
    BY <1>3, <1>5, <2>3 DEF Stacked, Last
  <2>5. DOMAIN taken = DOMAIN Frame("any") /\ taken.step = asker.step
    BY <2>4, FrameFields
  <2>6. /\ \E T : new \in Seq(T)
        /\ Len(new) = Len(below) /\ new # <<>> /\ Last(new) = new[Len(below)]
        /\ new[Len(below)] \in {asker, taken} /\ \A i \in 1..Len(below)-1 : new[i] = below[i]
    <3>1. CASE asker.step = "insert"
      <4> HIDE DEF taken, below
      <4>1. /\ \E T : new \in Seq(T)
            /\ Len(new) = Len(below) /\ new # <<>> /\ Last(new) = taken
            /\ \A i \in 1..Len(below)-1 : new[i] = below[i]
        BY <1>5, <1>6, <3>1, TopReplaced, ZenonT(60)
      <4>2. QED  BY <4>1 DEF Last
    <3>2. CASE asker.step # "insert"
      <4>1. new = below
        BY <3>2
      <4>2. QED  BY <1>5, <1>6, <2>4, <4>1 DEF Last
    <3>3. QED  BY <3>1, <3>2
  <2> HIDE DEF new, taken, asker
  <2>7. \A i \in 1..Len(new) : DOMAIN new[i] = DOMAIN Frame("any") /\ new[i].step \in {"insert", "children"}
    <3>1. ASSUME NEW i \in 1..Len(below)-1
          PROVE  DOMAIN new[i] = DOMAIN Frame("any") /\ new[i].step \in {"insert", "children"}
      <4> HIDE DEF below, stack
      <4>1. i \in 1..Len(stack)-1 /\ i \in 1..Len(stack)
        BY <1>5
      <4>2. new[i] = stack[i]
        BY <1>5, <2>6, <4>1
      <4> USE DEF stack
      <4>3. QED  BY <1>3, <4>1, <4>2 DEF Stacked
    <3>2. QED  BY <2>3, <2>4, <2>5, <2>6, <3>1
  <2>8. Stacked(c)'
    BY <1>1, <1>2, <2>2, <2>3, <2>6, <2>7 DEF Stacked, mutationVars
  <2>9. QED  BY <1>1, <1>2, <2>2, <2>8, StackGoesOn
<1>7. CASE below = <<>>
  <2>1. tasks' = [tasks EXCEPT ![c].left = @ - 1, ![c].results = Append(@, top.id),
                     ![c].stack = IF tasks[c].left > 1 THEN <<Frame(tasks[c].job.template[1])>> ELSE <<>>,
                     ![c].step = IF tasks[c].left > 1 THEN @ ELSE "settle",
                     ![c].outcome = IF tasks[c].left > 1 THEN @ ELSE "ok"]
    BY <1>7 DEF Return
  <2>2. DOMAIN tasks = Callers /\ DOMAIN tasks[c] = DOMAIN Idle
    BY <1>1 DEF Shape
  <2> HIDE DEF top
  <2>3. /\ DOMAIN tasks' = Callers /\ \A d \in Callers \ {c} : tasks'[d] = tasks[d]
        /\ DOMAIN tasks'[c] = DOMAIN Idle /\ tasks'[c].job = tasks[c].job /\ tasks'[c].atomic = tasks[c].atomic
        /\ tasks'[c].made = tasks[c].made /\ tasks'[c].left = tasks[c].left - 1
        /\ tasks'[c].stack = IF tasks[c].left > 1 THEN <<Frame(tasks[c].job.template[1])>> ELSE <<>>
        /\ tasks'[c].step = IF tasks[c].left > 1 THEN tasks[c].step ELSE "settle"
        /\ tasks'[c].outcome = IF tasks[c].left > 1 THEN tasks[c].outcome ELSE "ok"
    BY <2>1, <2>2, IdleFields
  <2>4. tasks[c].left \in 1..tasks[c].job.times
    BY <1>3 DEF Sequel
  <2>5. tasks[c].job.times \in Nat
    BY <1>3, JobsAssumption
  <2>6. tasks'[c].left \in 0..tasks[c].job.times
    BY <2>3, <2>4, <2>5
  <2>7. CASE tasks[c].left > 1
    <3> DEFINE frame == Frame(tasks[c].job.template[1])
    <3>1. frame.step = "id" /\ DOMAIN frame = DOMAIN Frame("any")
      BY DEF Frame
    <3> HIDE DEF frame
    <3>2. tasks'[c].stack = <<frame>>
      BY <2>3, <2>7 DEF frame
    <3>3. <<frame>> \in Seq({frame}) /\ Len(<<frame>>) = 1 /\ <<frame>>[1] = frame /\ <<frame>> # <<>>
      OBVIOUS
    <3>4. Stacked(c)'
      <4> HIDE DEF stack, below, asker
      <4> DEFINE new == <<frame>>
      <4>1. new # <<>> /\ new \in Seq({frame}) /\ Len(new) = 1 /\ Last(new) = frame
        BY <3>3 DEF Last
      <4>2. \A i \in 1..Len(new) : new[i] = frame
        BY <3>3
      <4>3. calls' = calls /\ tasks'[c].stack = new
        BY <1>1, <3>2 DEF mutationVars
      <4> HIDE DEF new
      <4>4. \A i \in 1..Len(new)-1 : new[i].step \in {"insert", "children"}
        BY <4>1
      <4>5. \E T : new \in Seq(T)
        BY <4>1
      <4>6. calls'[c].step = "none"
        BY <1>2, <4>3
      <4>7. QED  BY <3>1, <4>1, <4>2, <4>3, <4>4, <4>5, <4>6 DEF Stacked, Columns
    <3>5. tasks'[c].left > 0
      BY <2>3, <2>4, <2>5, <2>7
    <3>6. Sequel(c)'
      BY <1>1, <1>3, <2>3, <2>6, <2>7, <3>4, <3>5 DEF Sequel, mutationVars
    <3>7. QED  BY <1>1, <2>3, <2>7, <3>6, JobGoesOn
  <2>8. CASE ~(tasks[c].left > 1)
    <3>1. ~Doomed(c)
      BY <1>2, <1>3 DEF Doomed
    <3>2. UNCHANGED <<dialect, rows, audit, tx, ever, failures>> /\ calls' = calls
      BY <1>1 DEF mutationVars
    <3>3. QED  BY <1>2, <1>3, <2>3, <2>6, <2>8, <3>1, <3>2, JobEnds
  <2>9. QED  BY <2>7, <2>8
<1>8. QED  BY <1>6, <1>7

LEMMA InsertKeeps ==
  ASSUME IInv, NEW c \in Callers, Insert(c)
  PROVE  IInv'
<1> DEFINE stack == tasks[c].stack
           top   == Last(stack)
           frame == [top EXCEPT !.step = "inserting"]
           new   == Append(Front(stack), frame)
           call  == Call("insert", TRUE, top.tpl.table, top.setter, {}, "none")
<1>1. /\ Working(c, "insert") /\ Shape /\ Apart /\ Own(c)
      /\ UNCHANGED <<dialect, rows, audit, tx, ever, failures>>
      /\ calls' = [calls EXCEPT ![c] = call] /\ tasks' = [tasks EXCEPT ![c].stack = new]
  BY DEF Insert, IInv, database, Replace
<1>2. stack # <<>> /\ calls[c].step = "none" /\ DOMAIN top = DOMAIN Frame("any")
  BY <1>1, TopFrame
<1>3. Stacked(c) /\ tasks[c].step = "working" /\ tasks[c].job.template # <<>> /\ tasks[c].outcome = "none"
  BY <1>2, FrameAtWork
<1>4. DOMAIN frame = DOMAIN Frame("any") /\ frame.step = "inserting"
  BY <1>2, FrameFields
<1>5. /\ DOMAIN call = DOMAIN NoCall /\ call.step = "before"
      /\ call.kind = "insert" /\ call.rows /\ call.mod = "none"
  BY DEF Call, NoCall
<1> HIDE DEF call, frame
<1>6. DOMAIN calls' = Callers /\ (\A d \in Callers \ {c} : calls'[d] = calls[d]) /\ calls'[c] = call
  BY <1>1 DEF Shape
<1>7. OnlyStack(c) /\ tasks'[c].stack = new
  <2>1. Shape /\ tasks' = [tasks EXCEPT ![c].stack = new]
    BY <1>1
  <2> HIDE DEF new
  <2>2. QED  BY <2>1, StackFields
<1>8. \A d \in Callers : Kept(d)' = Kept(d) /\ Written(d)' = Written(d)
  BY <1>1 DEF Kept, Written
<1>9. Shape'
  <2>1. "before" \in CallSteps /\ "insert" \in Kinds
    BY DEF CallSteps, Kinds
  <2>2. \A d \in Callers :
          /\ DOMAIN calls'[d] = DOMAIN NoCall
          /\ calls'[d].step \in CallSteps /\ calls'[d].kind \in Kinds /\ calls'[d].rows \in BOOLEAN
    BY <1>1, <1>5, <1>6, <2>1 DEF Shape
  <2>3. \A d \in Callers : DOMAIN tasks'[d] = DOMAIN Idle /\ tasks'[d].step \in JobSteps /\ tasks'[d].atomic \in BOOLEAN
    BY <1>1, <1>7 DEF Shape, OnlyStack
  <2>4. QED  BY <1>1, <1>6, <1>7, <2>2, <2>3 DEF Shape, OnlyStack
<1>10. Apart'
  BY <1>1 DEF Apart, View
<1>11. Stacked(c)'
  <2>1. PICK S : stack \in Seq(S)
    BY <1>3 DEF Stacked
  <2>2. /\ \E T : new \in Seq(T)
        /\ Len(new) = Len(stack) /\ new # <<>> /\ Last(new) = frame
        /\ \A i \in 1..Len(stack)-1 : new[i] = stack[i]
    BY <1>2, <2>1, TopReplaced
  <2>3. Len(stack) \in Nat
    BY <2>1
  <2> HIDE DEF new, top
  <2>4. \A i \in 1..Len(new) : DOMAIN new[i] = DOMAIN Frame("any")
    BY <1>3, <1>4, <2>2, <2>3 DEF Stacked, Last
  <2>5. \A i \in 1..Len(new)-1 : new[i].step \in {"insert", "children"}
    BY <1>3, <2>2, <2>3 DEF Stacked
  <2>6. calls'[c].step = "before" /\ calls'[c].kind = "insert" /\ calls'[c].rows /\ calls'[c].mod = "none"
    BY <1>5, <1>6
  <2>7. QED  BY <1>4, <1>7, <2>2, <2>4, <2>5, <2>6 DEF Stacked
<1>12. Sequel(c)'
  BY <1>1, <1>3, <1>7, <1>8, <1>11 DEF Own, Sequel, OnlyStack
<1>13. Right(c)' /\ Placed(c)' /\ Within(c)'
  <2>1. ~HasEffect(c)' /\ ~HasAnswer(c)'
    BY <1>5, <1>6 DEF HasEffect, HasAnswer, Finished
  <2>2. calls'[c].step = "before" /\ calls'[c].kind = "insert"
    BY <1>5, <1>6
  <2>3. QED  BY <1>1, <1>7, <1>8, <2>1, <2>2, ZenonT(60) DEF Own, Right, Placed, Within, OnlyStack
<1>14. Hooked(c)'
  <2>1. (Plain(c)' <=> Plain(c)) /\ (Telling(c)' <=> Telling(c)) /\ ~Doomed(c)
    BY <1>2, <1>3, <1>7 DEF Plain, Telling, Answering, Doomed, OnlyStack
  <2>2. QED  BY <1>1, <1>2, <1>8, <2>1 DEF Own, Hooked
<1>15. \A d \in Callers \ {c} : Own(d)'
  BY <1>1, <1>6, <1>7, <1>8, OthersOwn DEF OnlyStack
<1>16. QED  BY <1>9, <1>10, <1>12, <1>13, <1>14, <1>15 DEF IInv, Own

LEMMA AnsweredKeeps ==
  ASSUME IInv, NEW c \in Callers, Answered(c)
  PROVE  IInv'
<1>1. /\ Shape /\ Own(c) /\ tasks[c].step = "working" /\ tasks[c].stack = <<>> /\ calls[c].step = "done"
      /\ tasks' = [tasks EXCEPT ![c].step = "settle", ![c].outcome = calls[c].outcome]
      /\ UNCHANGED <<dialect, rows, audit, tx, calls, ever, failures>>
  BY DEF Answered, IInv, mutationVars
<1>2. DOMAIN tasks = Callers /\ DOMAIN tasks[c] = DOMAIN Idle
  BY <1>1 DEF Shape
<1>3. /\ DOMAIN tasks' = Callers /\ \A d \in Callers \ {c} : tasks'[d] = tasks[d]
      /\ DOMAIN tasks'[c] = DOMAIN Idle /\ tasks'[c].job = tasks[c].job /\ tasks'[c].atomic = tasks[c].atomic
      /\ tasks'[c].made = tasks[c].made /\ tasks'[c].left = tasks[c].left /\ tasks'[c].stack = <<>>
      /\ tasks'[c].step = "settle" /\ tasks'[c].outcome = calls[c].outcome
  BY <1>1, <1>2, IdleFields
<1>4. tasks[c].left \in 0..tasks[c].job.times
  BY <1>1 DEF Own, Sequel
<1>5. calls[c].outcome = "ok" => ~Doomed(c)
  BY <1>1 DEF Doomed
<1>6. QED  BY <1>1, <1>3, <1>4, <1>5, JobEnds

LEMMA CreatedKeeps ==
  ASSUME IInv, NEW c \in Callers, Created(c)
  PROVE  IInv'
<1> DEFINE stack == tasks[c].stack
           top   == Last(stack)
           row   == Only(calls[c].answer)
           frame == [top EXCEPT !.step = "children", !.id = row.id]
           new   == Append(Front(stack), frame)
<1>1. /\ stack # <<>> /\ top.step = "inserting" /\ Shape /\ Apart /\ Own(c) /\ calls[c].step = "done"
      /\ calls' = [calls EXCEPT ![c] = NoCall]
      /\ UNCHANGED <<dialect, rows, audit, tx, ever, failures>>
  BY DEF Created, Working, IInv, database
<1>2. Stacked(c) /\ tasks[c].step = "working" /\ tasks[c].job.template # <<>> /\ tasks[c].outcome = "none"
      /\ tx[c].open = tasks[c].atomic
  BY <1>1, FrameAtWork
<1>3. PICK S : stack \in Seq(S)
  BY <1>2 DEF Stacked
<1>4. DOMAIN top = DOMAIN Frame("any")
  <2>1. Len(stack) \in 1..Len(stack)
    BY <1>1, <1>3
  <2>2. QED  BY <1>2, <2>1 DEF Stacked, Last
<1>5. /\ DOMAIN calls' = Callers /\ \A d \in Callers \ {c} : calls'[d] = calls[d]
      /\ calls'[c] = NoCall /\ NoCall.step = "none"
  BY <1>1 DEF Shape, NoCall
<1>6. DOMAIN tasks = Callers /\ DOMAIN tasks[c] = DOMAIN Idle
  BY <1>1 DEF Shape
<1>7. CASE calls[c].outcome # "ok"
  <2>1. tasks' = [tasks EXCEPT ![c].stack = <<>>, ![c].step = "settle", ![c].outcome = calls[c].outcome]
    BY <1>7 DEF Created
  <2>2. /\ DOMAIN tasks' = Callers /\ \A d \in Callers \ {c} : tasks'[d] = tasks[d]
        /\ DOMAIN tasks'[c] = DOMAIN Idle /\ tasks'[c].job = tasks[c].job /\ tasks'[c].atomic = tasks[c].atomic
        /\ tasks'[c].made = tasks[c].made /\ tasks'[c].left = tasks[c].left /\ tasks'[c].stack = <<>>
        /\ tasks'[c].step = "settle" /\ tasks'[c].outcome = calls[c].outcome
    BY <2>1, <1>6, IdleFields
  <2>3. tasks[c].left \in 0..tasks[c].job.times
    BY <1>1 DEF Own, Sequel
  <2>4. QED  BY <1>1, <1>2, <1>5, <1>7, <2>2, <2>3, JobEnds
<1>8. CASE calls[c].outcome = "ok"
  <2>1. tasks' = [[tasks EXCEPT ![c].stack = new] EXCEPT ![c].made = Append(@, row)]
    BY <1>8 DEF Created, Replace
  <2> HIDE DEF row, new, top
  <2>2. /\ DOMAIN tasks' = Callers /\ \A d \in Callers \ {c} : tasks'[d] = tasks[d]
        /\ DOMAIN tasks'[c] = DOMAIN Idle /\ tasks'[c].job = tasks[c].job /\ tasks'[c].atomic = tasks[c].atomic
        /\ tasks'[c].made = Append(tasks[c].made, row) /\ tasks'[c].left = tasks[c].left
        /\ tasks'[c].stack = new /\ tasks'[c].step = tasks[c].step /\ tasks'[c].outcome = tasks[c].outcome
    BY <2>1, <1>6, IdleFields
  <2>3. \A d \in Callers : Kept(d)' = Kept(d) /\ Written(d)' = Written(d)
    BY <1>1 DEF Kept, Written
  <2>4. Shape'
    <3>1. "none" \in CallSteps /\ NoCall.kind \in Kinds /\ NoCall.rows \in BOOLEAN
      BY DEF CallSteps, Kinds, NoCall
    <3>2. QED  BY <1>1, <1>5, <2>2, <3>1 DEF Shape
  <2>5. Apart'
    BY <1>1 DEF Apart, View
  <2>6. DOMAIN frame = DOMAIN Frame("any") /\ frame.step = "children"
    BY <1>4, FrameFields
  <2>7. Stacked(c)'
    <3> HIDE DEF frame
    <3>1. /\ \E T : new \in Seq(T)
          /\ Len(new) = Len(stack) /\ new # <<>> /\ Last(new) = frame
          /\ \A i \in 1..Len(stack)-1 : new[i] = stack[i]
      BY <1>1, <1>3, TopReplaced DEF new
    <3>2. Len(stack) \in Nat
      BY <1>3
    <3>3. \A i \in 1..Len(new) : DOMAIN new[i] = DOMAIN Frame("any")
      BY <1>2, <2>6, <3>1, <3>2 DEF Stacked, Last
    <3>4. \A i \in 1..Len(new)-1 : new[i].step \in {"insert", "children"}
      BY <1>2, <3>1, <3>2 DEF Stacked
    <3>5. QED  BY <1>5, <2>2, <2>6, <3>1, <3>3, <3>4 DEF Stacked
  <2>8. PICK T : tasks[c].made \in Seq(T)
    BY <1>1 DEF Own, Sequel
  <2>9. tasks'[c].made \in Seq(T \cup {row})
    BY <2>2, <2>8
  <2>10. Sequel(c)'
    BY <1>1, <1>2, <1>5, <2>2, <2>7, <2>9 DEF Own, Sequel
  <2>11. Right(c)' /\ Placed(c)'
    BY <1>5 DEF Right, Placed, HasEffect, HasAnswer, Finished
  <2>12. Within(c)'
    <3>1. tasks[c].atomic => row \in tx[c].added
      <4>1. HasAnswer(c) /\ HasEffect(c)
        BY <1>1, <1>8 DEF HasEffect, HasAnswer, Finished
      <4>2. calls[c].kind = "insert" /\ calls[c].rows /\ calls[c].mod = "none"
        BY <1>1, <1>2 DEF Stacked
      <4>3. calls[c].answer # {}
        BY <1>1, <4>1, <4>2 DEF Own, Right, AnswerRight
      <4>4. row \in calls[c].answer
        BY <4>3 DEF row, Only
      <4>5. tasks[c].atomic => calls[c].answer \subseteq tx[c].added
        BY <1>1, <1>2, <4>1, <4>2 DEF Own, Placed
      <4>6. QED  BY <4>4, <4>5
    <3>2. ASSUME tasks[c].atomic, NEW i \in DOMAIN tasks'[c].made PROVE tasks'[c].made[i] \in tx[c].added
      <4>1. \A j \in DOMAIN tasks[c].made : tasks[c].made[j] \in tx[c].added
        BY <1>1, <1>2, <3>2 DEF Own, Within
      <4>2. i \in DOMAIN tasks[c].made \/ tasks'[c].made[i] = row
        BY <2>2, <2>8
      <4>3. i \in DOMAIN tasks[c].made => tasks'[c].made[i] = tasks[c].made[i]
        BY <2>2, <2>8
      <4>4. QED  BY <3>1, <3>2, <4>1, <4>2, <4>3
    <3>3. QED  BY <1>1, <1>2, <2>2, <2>3, <3>2 DEF Own, Within
  <2>13. Hooked(c)'
    <3>1. (Plain(c)' <=> Plain(c)) /\ (Telling(c)' <=> Telling(c))
      BY <2>2 DEF Plain, Telling, Answering
    <3>2. ~Doomed(c)
      BY <1>1, <1>2, <1>8 DEF Doomed
    <3>3. QED  BY <1>1, <1>2, <2>3, <3>1, <3>2 DEF Own, Hooked
  <2>14. \A d \in Callers \ {c} : Own(d)'
    BY <1>1, <1>5, <2>2, <2>3, OthersOwn
  <2>15. QED  BY <2>4, <2>5, <2>10, <2>11, <2>12, <2>13, <2>14 DEF IInv, Own
<1>9. QED  BY <1>7, <1>8

LEMMA StartKeeps ==
  ASSUME IInv, NEW c \in Callers, NEW job \in Jobs, NEW atomic \in BOOLEAN, Start(c, job, atomic)
  PROVE  IInv'
<1> DEFINE stack == IF job.template = <<>> THEN <<>> ELSE <<Frame(job.template[1])>>
           task  == [Idle EXCEPT !.step = "working", !.job = job, !.atomic = atomic, !.left = job.times,
                                 !.stack = stack]
           call  == IF job.call = <<>> THEN NoCall ELSE job.call[1]
<1>1. /\ tasks[c].step = "idle" /\ Shape /\ Apart /\ Own(c)
      /\ tasks' = [tasks EXCEPT ![c] = task] /\ calls' = [calls EXCEPT ![c] = call]
      /\ tx' = [tx EXCEPT ![c].open = atomic] /\ UNCHANGED <<dialect, rows, audit, ever, failures>>
  BY DEF Start, IInv
<1>2. tx[c] = NoTx /\ Kept(c) = {} /\ Written(c) = {}
  BY <1>1 DEF Own, Sequel
<1>3. task.job = job /\ DOMAIN task = DOMAIN Idle /\ task.step = "working" /\ task.atomic = atomic
      /\ task.left = job.times /\ task.stack = stack /\ task.made = <<>> /\ task.outcome = "none"
  <2> HIDE DEF stack
  <2>1. QED  BY DEF Idle
<1>4. /\ DOMAIN call = DOMAIN NoCall /\ call.step \in {"none", "before"} /\ call.kind \in Kinds /\ call.rows \in BOOLEAN
      /\ call.step = "none" <=> job.call = <<>>
  <2>1. CASE job.call = <<>>
    BY <2>1 DEF NoCall, Kinds
  <2>2. CASE job.call # <<>>
    <3>1. IsCall(job.call[1]) /\ call = job.call[1]
      BY <2>2, JobsAssumption
    <3> HIDE DEF call
    <3>2. call = Call(call.kind, call.rows, call.table, call.setter, call.where, call.mod)
          /\ call.kind \in Kinds /\ call.rows \in BOOLEAN
      BY <3>1 DEF IsCall
    <3>3. DOMAIN call = DOMAIN NoCall /\ call.step = "before"
      BY <3>2 DEF Call, NoCall
    <3>4. QED  BY <2>2, <3>2, <3>3
  <2>3. QED  BY <2>1, <2>2
<1> HIDE DEF task, call, stack
<1>5. /\ DOMAIN tasks' = Callers /\ (\A d \in Callers \ {c} : tasks'[d] = tasks[d]) /\ tasks'[c] = task
      /\ DOMAIN calls' = Callers /\ (\A d \in Callers \ {c} : calls'[d] = calls[d]) /\ calls'[c] = call
  BY <1>1 DEF Shape
<1>6. /\ DOMAIN tx' = Callers /\ \A d \in Callers \ {c} : tx'[d] = tx[d]
      /\ DOMAIN tx'[c] = {"open", "added", "removed", "audit"} /\ tx'[c].open = atomic
      /\ tx'[c].added = {} /\ tx'[c].removed = {} /\ tx'[c].audit = {}
      /\ atomic = FALSE => tx'[c] = NoTx
  <2>1. DOMAIN tx = Callers /\ NoTx = [open |-> FALSE, added |-> {}, removed |-> {}, audit |-> {}]
    BY <1>1 DEF Shape, NoTx
  <2>2. tx' = [tx EXCEPT ![c] = [NoTx EXCEPT !.open = atomic]]
    BY <1>1, <1>2
  <2>3. DOMAIN tx' = Callers /\ (\A d \in Callers \ {c} : tx'[d] = tx[d]) /\ tx'[c] = [NoTx EXCEPT !.open = atomic]
    BY <2>1, <2>2
  <2>4. QED  BY <2>1, <2>3
<1>7. \A d \in Callers : Kept(d)' = Kept(d) /\ Written(d)' = Written(d)
  BY <1>1 DEF Kept, Written
<1>8. Shape'
  <2>1. "none" \in CallSteps /\ "before" \in CallSteps /\ "working" \in JobSteps
    BY DEF CallSteps, JobSteps
  <2>2. \A d \in Callers : DOMAIN tx'[d] = {"open", "added", "removed", "audit"} /\ tx'[d].open \in BOOLEAN
    BY <1>1, <1>6 DEF Shape
  <2>3. \A d \in Callers :
          /\ DOMAIN calls'[d] = DOMAIN NoCall
          /\ calls'[d].step \in CallSteps /\ calls'[d].kind \in Kinds /\ calls'[d].rows \in BOOLEAN
    BY <1>1, <1>4, <1>5, <2>1 DEF Shape
  <2>4. \A d \in Callers : DOMAIN tasks'[d] = DOMAIN Idle /\ tasks'[d].step \in JobSteps /\ tasks'[d].atomic \in BOOLEAN
    BY <1>1, <1>3, <1>5, <2>1 DEF Shape
  <2>5. QED  BY <1>1, <1>5, <1>6, <2>2, <2>3, <2>4 DEF Shape
<1>9. Apart'
  <2>1. tx[c].added = {} /\ tx[c].removed = {}
    BY <1>2 DEF NoTx
  <2>2. \A d \in Callers : View(d)' = View(d) /\ tx'[d].added = tx[d].added
    BY <1>1, <1>6, <2>1 DEF View
  <2>3. \A d \in Callers : ~tx'[d].open => tx'[d] = NoTx
    BY <1>1, <1>6 DEF Apart
  <2>4. QED  BY <1>1, <2>2, <2>3 DEF Apart
<1>10. Sequel(c)'
  <2>1. task.left \in 0..task.job.times /\ task.made \in Seq({})
    <3>1. job.times \in Nat
      BY JobsAssumption
    <3>2. QED  BY <1>3, <3>1
  <2>2. CASE job.template # <<>>
    <3> DEFINE frame == Frame(job.template[1])
               new == <<frame>>
    <3>1. frame.step = "id" /\ DOMAIN frame = DOMAIN Frame("any")
      BY DEF Frame
    <3>2. stack = new
      BY <2>2 DEF stack
    <3> HIDE DEF frame
    <3>3. new # <<>> /\ new \in Seq({frame}) /\ Len(new) = 1 /\ Last(new) = frame
      BY DEF Last
    <3>4. \A i \in 1..Len(new) : new[i] = frame
      BY <3>3
    <3>5. job.call = <<>> /\ job.times > 0
      BY <2>2, JobsAssumption
    <3>6. calls'[c].step = "none" /\ tasks'[c].stack = new
      BY <1>3, <1>4, <1>5, <3>2, <3>5
    <3> HIDE DEF new
    <3>7. \A i \in 1..Len(new)-1 : new[i].step \in {"insert", "children"}
      BY <3>3
    <3>8. \E S : new \in Seq(S)
      BY <3>3
    <3>9. Stacked(c)'
      BY <3>1, <3>3, <3>4, <3>6, <3>7, <3>8 DEF Stacked, Columns
    <3>10. QED  BY <1>3, <1>5, <1>6, <2>1, <2>2, <3>5, <3>9 DEF Sequel
  <2>3. CASE job.template = <<>>
    <3>1. job.call # <<>> /\ stack = <<>>
      BY <2>3, JobsAssumption DEF stack
    <3>2. call = job.call[1] /\ call.step # "none"
      BY <1>4, <3>1 DEF call
    <3>3. SameCall(c)'
      BY <1>3, <1>5, <3>2 DEF SameCall
    <3>4. QED  BY <1>3, <1>5, <1>6, <2>1, <2>3, <3>1, <3>2, <3>3 DEF Sequel
  <2>4. QED  BY <2>2, <2>3
<1>11. Right(c)' /\ Placed(c)'
  <2>1. ~HasEffect(c)' /\ ~HasAnswer(c)'
    BY <1>4, <1>5 DEF HasEffect, HasAnswer, Finished
  <2>2. calls'[c].step \in {"none", "before"} /\ tx'[c].audit = {}
    BY <1>4, <1>5, <1>6
  <2>3. QED  BY <2>1, <2>2 DEF Right, Placed
<1>12. Within(c)'
  BY <1>2, <1>3, <1>5, <1>7 DEF Within
<1>13. Hooked(c)'
  BY <1>2, <1>6, <1>7 DEF Hooked, Tells
<1>14. \A d \in Callers \ {c} : Own(d)'
  BY <1>1, <1>5, <1>6, <1>7, OthersOwn
<1>15. QED  BY <1>8, <1>9, <1>10, <1>11, <1>12, <1>13, <1>14 DEF IInv, Own

LEMMA SettleKeeps ==
  ASSUME IInv, NEW c \in Callers, Settle(c)
  PROVE  IInv'
<1>1. /\ tasks[c].step = "settle" /\ Shape /\ Apart /\ Own(c) /\ tx' = [tx EXCEPT ![c] = NoTx]
      /\ UNCHANGED <<dialect, calls>>
  BY DEF Settle, IInv
<1>2. /\ tasks[c].stack = <<>> /\ calls[c].step \in {"none", "done"} /\ tx[c].open = tasks[c].atomic
      /\ calls[c].step = "done" => calls[c].outcome = tasks[c].outcome
  BY <1>1 DEF Own, Sequel
<1>3. PICK outcome :
        /\ tasks' = [tasks EXCEPT ![c].step = "settled", ![c].outcome = outcome]
        /\ \/ /\ tasks[c].outcome = "ok" /\ outcome = "ok" /\ rows' = View(c)
              /\ audit' = audit \cup tx[c].audit
              /\ ever' = ever \cup {[by |-> c, row |-> r] : r \in tx[c].added}
           \/ outcome # "ok" /\ UNCHANGED <<rows, audit, ever>>
  <2>1. DOMAIN tasks = Callers /\ DOMAIN tasks[c] = DOMAIN Idle
    BY <1>1 DEF Shape
  <2>2. [tasks EXCEPT ![c].step = "settled"]
          = [tasks EXCEPT ![c].step = "settled", ![c].outcome = tasks[c].outcome]
    BY <2>1, IdleFields
  <2>3. QED  BY <2>2 DEF Settle, Commit
<1>4. failures' \in 0..MaxFailures
  <2>1. failures \in 0..MaxFailures
    BY <1>1 DEF Shape
  <2>2. failures' = failures \/ Fail
    BY DEF Settle
  <2>3. QED  BY <2>1, <2>2, FailuresAssumption DEF Fail
<1>5. /\ DOMAIN tasks' = Callers /\ \A d \in Callers \ {c} : tasks'[d] = tasks[d]
      /\ DOMAIN tasks'[c] = DOMAIN Idle /\ tasks'[c].job = tasks[c].job /\ tasks'[c].atomic = tasks[c].atomic
      /\ tasks'[c].made = tasks[c].made /\ tasks'[c].left = tasks[c].left /\ tasks'[c].stack = <<>>
      /\ tasks'[c].step = "settled" /\ tasks'[c].outcome = outcome
  <2>1. DOMAIN tasks = Callers /\ DOMAIN tasks[c] = DOMAIN Idle
    BY <1>1 DEF Shape
  <2>2. QED  BY <1>2, <1>3, <2>1, IdleFields
<1>6. /\ DOMAIN tx' = Callers /\ (\A d \in Callers \ {c} : tx'[d] = tx[d]) /\ tx'[c] = NoTx
      /\ NoTx.open = FALSE /\ NoTx.added = {} /\ NoTx.audit = {}
      /\ DOMAIN NoTx = {"open", "added", "removed", "audit"}
  BY <1>1 DEF Shape, NoTx
<1>7. \A e \in tx[c].audit : e.by = c
  BY <1>1 DEF Own, Hooked
<1>8. IF outcome = "ok"
      THEN tasks[c].outcome = "ok" /\ Kept(c)' = Kept(c) \cup tx[c].added /\ Written(c)' = Written(c) \cup tx[c].audit
      ELSE Kept(c)' = Kept(c) /\ Written(c)' = Written(c)
  <2>1. CASE outcome = "ok"
    <3>1. ever' = ever \cup {[by |-> c, row |-> r] : r \in tx[c].added} /\ audit' = audit \cup tx[c].audit
      BY <1>3, <2>1
    <3>2. Kept(c)' = Kept(c) \cup tx[c].added
      BY <3>1, Commits
    <3>3. Written(c)' = Written(c) \cup tx[c].audit
      BY <3>1, <1>7 DEF Written
    <3>4. QED  BY <1>3, <2>1, <3>2, <3>3
  <2>2. CASE outcome # "ok"
    BY <1>3, <2>2 DEF Kept, Written
  <2>3. QED  BY <2>1, <2>2
<1>9. \A d \in Callers \ {c} : Kept(d)' = Kept(d) /\ Written(d)' = Written(d)
  <2>1. CASE outcome = "ok"
    <3>1. ever' = ever \cup {[by |-> c, row |-> r] : r \in tx[c].added} /\ audit' = audit \cup tx[c].audit
      BY <1>3, <2>1
    <3>2. \A d : d # c => Kept(d)' = Kept(d)
      BY <3>1, Commits
    <3>3. \A d : d # c => Written(d)' = Written(d)
      BY <3>1, <1>7 DEF Written
    <3>4. QED  BY <3>2, <3>3
  <2>2. CASE outcome # "ok"
    BY <1>3, <2>2 DEF Kept, Written
  <2>3. QED  BY <2>1, <2>2
<1>10. Shape'
  <2>1. (\A x \in ever' : x.by \in Callers) /\ (\A e \in audit' : e.by \in Callers)
    <3>1. (\A x \in ever : x.by \in Callers) /\ (\A e \in audit : e.by \in Callers)
      BY <1>1 DEF Shape
    <3>2. QED  BY <1>3, <1>7, <3>1
  <2>2. "settled" \in JobSteps
    BY DEF JobSteps
  <2>3. \A d \in Callers : DOMAIN tx'[d] = {"open", "added", "removed", "audit"} /\ tx'[d].open \in BOOLEAN
    BY <1>1, <1>6 DEF Shape
  <2>4. \A d \in Callers : DOMAIN tasks'[d] = DOMAIN Idle /\ tasks'[d].step \in JobSteps /\ tasks'[d].atomic \in BOOLEAN
    BY <1>1, <1>5, <2>2 DEF Shape
  <2>5. QED  BY <1>1, <1>4, <1>5, <1>6, <2>1, <2>3, <2>4 DEF Shape
<1>11. Apart'
  <2>1. rows' = View(c) \/ rows' = rows
    BY <1>3
  <2>2. QED  BY <1>1, <2>1, CommitKeepsApart, RollbackKeepsApart
<1>12. Sequel(c)'
  BY <1>1, <1>2, <1>5, <1>6 DEF Own, Sequel
<1>13. Right(c)' /\ Placed(c)'
  <2>1. (HasAnswer(c)' <=> HasAnswer(c)) /\ (HasEffect(c)' <=> HasEffect(c))
    BY <1>1 DEF HasEffect, HasAnswer, Finished
  <2>2. (EffectRight(c)' <=> EffectRight(c)) /\ (ByReadBack(c)' <=> ByReadBack(c))
    BY <1>1 DEF EffectRight, ByReadBack
  <2>3. AnswerRight(c)' <=> AnswerRight(c)
    BY <1>1 DEF AnswerRight
  <2>4. QED  BY <1>1, <1>2, <1>5, <2>1, <2>2, <2>3 DEF Own, Right, Placed
<1>14. Within(c)'
  BY <1>1, <1>5, <1>8 DEF Own, Within
<1>15. Hooked(c)'
  <2>1. (Plain(c)' <=> Plain(c)) /\ (Telling(c)' <=> Telling(c))
    BY <1>5 DEF Plain, Telling, Answering
  <2>2. /\ Plain(c) => Tells(tx[c].audit, tx[c].added) /\ Tells(Written(c), Kept(c))
        /\ Telling(c) => \A r \in Kept(c) : ToldOf(r, Written(c))
    BY <1>1 DEF Own, Hooked
  <2>3. Plain(c) => Tells(Written(c)', Kept(c)')
    BY <1>8, <2>2 DEF Tells
  <2>4. ASSUME Telling(c), NEW r \in Kept(c)' PROVE ToldOf(r, Written(c)')
    <3>1. CASE outcome # "ok"
      BY <1>8, <2>2, <2>4, <3>1
    <3>2. CASE outcome = "ok"
      <4>1. ~Doomed(c)
        BY <1>2, <1>8, <3>2 DEF Doomed
      <4>2. \A q \in tx[c].added : ToldOf(q, tx[c].audit)
        BY <1>1, <1>2, <2>4, <4>1 DEF Own, Hooked
      <4>3. ToldOf(r, Written(c)) \/ ToldOf(r, tx[c].audit)
        BY <1>8, <2>2, <2>4, <3>2, <4>2
      <4>4. QED  BY <1>8, <3>2, <4>3 DEF ToldOf
    <3>3. QED  BY <3>1, <3>2
  <2>5. Tells(tx'[c].audit, tx'[c].added) /\ tx'[c].added = {} /\ \A e \in tx'[c].audit : e.by = c
    BY <1>6 DEF Tells
  <2>6. QED  BY <2>1, <2>3, <2>4, <2>5 DEF Hooked
<1>16. \A d \in Callers \ {c} : Own(d)'
  BY <1>1, <1>5, <1>6, <1>9, OthersOwn
<1>17. QED  BY <1>10, <1>11, <1>12, <1>13, <1>14, <1>15, <1>16 DEF IInv, Own

-----------------------------------------------------------------------------
(* The theorems.                                                            *)

LEMMA InitIInv == Init => IInv
<1> SUFFICES ASSUME Init PROVE IInv
  OBVIOUS
<1>1. /\ dialect \in Dialects /\ failures = 0 /\ rows = Existing /\ audit = {} /\ ever = {}
      /\ tx = [c \in Callers |-> NoTx] /\ calls = [c \in Callers |-> NoCall]
      /\ tasks = [c \in Callers |-> Idle]
  BY DEF Init, InitMutations
<1>2. NoCall.step = "none" /\ NoCall.kind \in Kinds /\ NoCall.rows \in BOOLEAN /\ "none" \in CallSteps
  BY DEF NoCall, Kinds, CallSteps
<1>3. /\ DOMAIN NoTx = {"open", "added", "removed", "audit"} /\ NoTx.open = FALSE
      /\ NoTx.added = {} /\ NoTx.removed = {} /\ NoTx.audit = {}
  BY DEF NoTx
<1>4. /\ Idle.step = "idle" /\ Idle.atomic = FALSE /\ Idle.stack = <<>> /\ Idle.made = <<>>
      /\ Idle.left = 0 /\ Idle.job.times = 0 /\ "idle" \in JobSteps
  BY DEF Idle, JobSteps
<1>5. \A c \in Callers : calls[c] = NoCall /\ tasks[c] = Idle /\ tx[c] = NoTx /\ Kept(c) = {} /\ Written(c) = {}
  BY <1>1 DEF Kept, Written
<1>6. Shape
  <2>1. 0 \in 0..MaxFailures
    BY FailuresAssumption
  <2>2. QED  BY <1>1, <1>2, <1>3, <1>4, <2>1 DEF Shape
<1>7. Apart
  <2>1. \A c \in Callers : View(c) = Existing
    BY <1>1, <1>3 DEF View
  <2>2. QED  BY <1>1, <1>3, <2>1, ExistingAssumption DEF Apart
<1>8. ASSUME NEW c \in Callers PROVE Own(c)
  <2>1. Sequel(c)
    <3>1. Idle.made \in Seq({}) /\ Idle.left \in 0..Idle.job.times
      BY <1>4
    <3>2. QED  BY <1>4, <1>5, <3>1 DEF Sequel
  <2>2. Right(c) /\ Placed(c)
    BY <1>2, <1>4, <1>5 DEF Right, Placed, HasEffect, HasAnswer, Finished
  <2>3. Within(c)
    BY <1>4, <1>5 DEF Within
  <2>4. Hooked(c)
    BY <1>3, <1>5 DEF Hooked, Tells
  <2>5. QED  BY <2>1, <2>2, <2>3, <2>4 DEF Own
<1>9. QED  BY <1>6, <1>7, <1>8 DEF IInv

LEMMA NextKeeps == IInv /\ [Next]_vars => IInv'
<1>1. ASSUME IInv, NEW c \in Callers, CallStep(c), UNCHANGED <<seq, tasks>> PROVE IInv'
  BY <1>1, BeforeHookKeeps, StatementKeeps, StatementFailsKeeps, ReadBackKeeps, AfterHookKeeps DEF CallStep
<1>2. ASSUME IInv, NEW c \in Callers, FactoryStep(c) PROVE IInv'
  BY <1>2, BuildKeeps, ParentKeeps, InsertKeeps, CreatedKeeps, ChildKeeps, ReturnKeeps, AnsweredKeeps,
     SettleKeeps, StartKeeps DEF FactoryStep
<1>3. ASSUME IInv, UNCHANGED vars PROVE IInv'
  <2>1. UNCHANGED <<dialect, rows, audit, tx, calls, ever, failures, tasks>>
    BY <1>3 DEF vars, mutationVars
  <2>2. Shape' /\ Apart'
    BY <1>3, <2>1 DEF IInv, Shape, Apart, View
  <2>3. \A c \in Callers : Kept(c)' = Kept(c) /\ Written(c)' = Written(c)
    BY <2>1 DEF Kept, Written
  <2>4. \A c \in Callers : Own(c)'
    BY <1>3, <2>1, <2>3, Elsewhere DEF IInv
  <2>5. QED  BY <2>2, <2>4 DEF IInv
<1>4. QED  BY <1>1, <1>2, <1>3 DEF Next

LEMMA Invariance == Spec => []IInv
  BY InitIInv, NextKeeps, PTL DEF Spec

\* Every row committed keeps the constraints on keys, whatever transactions
\* overlap, and a call and its job are where they belong (mutate.rs and the
\* generated create_with of emit/factory.rs).
THEOREM TypeCorrect == Spec => []TypeOK
<1>1. IInv => TypeOK
  <2> SUFFICES ASSUME IInv PROVE TypeOK
    OBVIOUS
  <2>1. ASSUME NEW c \in Callers
        PROVE  /\ tasks[c].step \in JobSteps /\ tasks[c].left \in 0..tasks[c].job.times
               /\ calls[c].step \in CallSteps
               /\ Working(c, "inserting") => calls[c].step # "none"
               /\ tasks[c].step \in {"idle", "settled"} => tx[c] = NoTx /\ tasks[c].stack = <<>>
    <3>1. Sequel(c) /\ Shape
      BY DEF IInv, Own
    <3>2. Working(c, "inserting") => calls[c].step # "none"
      BY FrameAtWork DEF Working, Stacked
    <3>3. tasks[c].step \in {"idle", "settled"} => tx[c] = NoTx /\ tasks[c].stack = <<>>
      BY <3>1 DEF Sequel, Idle
    <3>4. QED  BY <3>1, <3>2, <3>3 DEF Sequel, Shape
  <2>2. QED  BY <2>1 DEF IInv, Shape, Apart, TypeOK
<1>2. QED  BY <1>1, Invariance, PTL

\* A call answers, and tells its after-hook, what its own statement did: one()
\* the row it inserted, on MySQL the row it reads back by the key, an update or
\* a delete the number of its rows (mutate.rs, key_capture of emit/model.rs).
THEOREM CallsAnswerWhatTheyDid == Spec => []AnswersWhatItDid
<1>1. IInv /\ TypeOK => AnswersWhatItDid
  <2> SUFFICES ASSUME IInv, TypeOK, NEW c \in Callers, calls[c].step = "done", calls[c].outcome = "ok",
                      ~SkippedOnMysql(c)
               PROVE  /\ calls[c].kind = "insert" /\ calls[c].rows =>
                           \E r \in calls[c].effect : \E a \in calls[c].answer :
                              a.id = r.id /\ calls[c].answer = {a} /\ (dialect = "mysql" \/ calls[c].effect = {r})
                      /\ calls[c].kind # "insert" =>
                           /\ calls[c].told = Cardinality(calls[c].effect)
                           /\ calls[c].rows => calls[c].answer = calls[c].effect
    BY DEF AnswersWhatItDid
  <2>1. EffectRight(c) /\ AnswerRight(c)
    BY DEF IInv, Own, Right, HasEffect, HasAnswer, Finished
  <2>2. calls[c].kind # "insert" =>
          calls[c].told = Cardinality(calls[c].effect) /\ (calls[c].rows => calls[c].answer = calls[c].effect)
    BY <2>1 DEF AnswerRight
  <2>3. ASSUME calls[c].kind = "insert", calls[c].rows
        PROVE  \E r \in calls[c].effect : \E a \in calls[c].answer :
                  a.id = r.id /\ calls[c].answer = {a} /\ (dialect = "mysql" \/ calls[c].effect = {r})
    <3>1. CASE dialect = "mysql"
      <4>1. PICK a \in calls[c].answer : calls[c].answer = {a} /\ a.id = calls[c].key
        BY <2>1, <2>3, <3>1 DEF AnswerRight
      <4>2. calls[c].effect # {}
        BY <2>1, <2>3, <3>1 DEF EffectRight, SkippedOnMysql
      <4>3. PICK r \in calls[c].effect : r.id = calls[c].key
        BY <2>1, <2>3, <3>1, <4>2 DEF EffectRight, ByReadBack
      <4>4. QED  BY <3>1, <4>1, <4>3
    <3>2. CASE dialect # "mysql"
      BY <2>1, <2>3, <3>2 DEF AnswerRight
    <3>3. QED  BY <3>1, <3>2
  <2>4. QED  BY <2>2, <2>3
<1>2. QED  BY <1>1, Invariance, TypeCorrect, PTL

\* What an after-hook wrote stands exactly as long as the row it is about: hooks
\* are lent the executor of the call (mutate.rs).
THEOREM HooksFollowTheirRows == Spec => []HooksShareTheFate
<1>1. IInv => HooksShareTheFate
  <2> SUFFICES ASSUME IInv PROVE HooksShareTheFate
    OBVIOUS
  <2>1. \A c \in Callers : (Plain(c) => Tells(Written(c), Kept(c)))
                        /\ (Telling(c) => \A r \in Kept(c) : ToldOf(r, Written(c)))
    BY DEF IInv, Own, Hooked
  <2>2. ASSUME NEW e \in audit, Plain(e.by), NEW id \in e.rows
        PROVE  \E x \in ever : x.by = e.by /\ x.row.table = e.table /\ x.row.id = id
    <3>1. e.by \in Callers
      BY DEF IInv, Shape
    <3>2. e \in Written(e.by)
      BY DEF Written
    <3>3. PICK r \in Kept(e.by) : r.table = e.table /\ r.id = id
      BY <2>1, <2>2, <3>1, <3>2 DEF Tells
    <3>4. PICK x \in ever : x.by = e.by /\ x.row = r
      BY <3>3 DEF Kept
    <3>5. QED  BY <3>3, <3>4
  <2>3. ASSUME NEW x \in ever, tasks[x.by].atomic, Plain(x.by), Answering(x.by)
        PROVE  \E e \in audit : e.by = x.by /\ e.table = x.row.table /\ x.row.id \in e.rows
    <3>1. x.by \in Callers /\ x.row \in Kept(x.by) /\ Telling(x.by)
      BY <2>3 DEF IInv, Shape, Kept, Telling
    <3>2. ToldOf(x.row, Written(x.by))
      BY <2>1, <3>1
    <3>3. QED  BY <3>2 DEF ToldOf, Written
  <2>4. QED  BY <2>2, <2>3 DEF HooksShareTheFate
<1>2. QED  BY <1>1, Invariance, PTL

\* A job in atomic() leaves all of its rows or none of them, however many models,
\* parents and children it went through and wherever it failed.
THEOREM JobsAreAllOrNothing == Spec => []AllOrNothing
<1>1. IInv => AllOrNothing
  <2> SUFFICES ASSUME IInv, NEW c \in Callers, tasks[c].step = "settled", tasks[c].atomic
               PROVE  IF tasks[c].outcome = "ok" THEN Range(tasks[c].made) \subseteq Kept(c)
                      ELSE Kept(c) = {} /\ \A e \in audit : e.by # c
    BY DEF AllOrNothing, Kept
  <2>1. Within(c)
    BY DEF IInv, Own
  <2>2. QED  BY <2>1 DEF Within, Written, Range
<1>2. QED  BY <1>1, Invariance, PTL

-----------------------------------------------------------------------------
(* Children hang off the rows they were queued on.                          *)

\* A frame that waits for its parent has none yet, and one that goes through its
\* children forces its key on each.
Chained(s) ==
    \A i \in 1..Len(s)-1 :
      /\ s[i].step = "insert" => s[i].tpl.parent.state \in {"template", "auto"}
      /\ s[i].step = "children" =>
           /\ s[i+1].tpl.parent.state = "existing" /\ s[i+1].tpl.parent.key = s[i].id
           /\ s[i+1].step \notin Columns => s[i+1].setter[3] = s[i].id
Hanging == \A c \in Callers : Chained(tasks[c].stack)

LEMMA ReplaceChains ==
  ASSUME NEW S, NEW s \in Seq(S), s # <<>>, NEW frame, Chained(s), frame.tpl = Last(s).tpl,
         Last(s).tpl.parent.state = "existing" /\ frame.step \notin Columns
           /\ (Last(s).step \notin Columns => Last(s).setter[3] = Last(s).tpl.parent.key)
           => frame.setter[3] = Last(s).tpl.parent.key
  PROVE  Chained(Append(Front(s), frame))
<1> DEFINE new == Append(Front(s), frame)
<1>1. Len(new) = Len(s) /\ Last(new) = frame /\ \A i \in 1..Len(s)-1 : new[i] = s[i]
  BY TopReplaced
<1>2. Len(s) \in Nat \ {0}
  OBVIOUS
<1> HIDE DEF new
<1>3. ASSUME NEW i \in 1..Len(s)-1
      PROVE  /\ new[i].step = "insert" => new[i].tpl.parent.state \in {"template", "auto"}
             /\ new[i].step = "children" =>
                  /\ new[i+1].tpl.parent.state = "existing" /\ new[i+1].tpl.parent.key = new[i].id
                  /\ new[i+1].step \notin Columns => new[i+1].setter[3] = new[i].id
  <2>1. new[i] = s[i]
    BY <1>1
  <2>2. CASE i + 1 \in 1..Len(s)-1
    BY <1>1, <2>1, <2>2 DEF Chained
  <2>3. CASE i + 1 = Len(s)
    BY <1>1, <2>1, <2>3 DEF Chained, Last
  <2>4. QED  BY <1>2, <2>2, <2>3
<1>4. Chained(new)
  BY <1>1, <1>3 DEF Chained
<1>5. QED  BY <1>4 DEF new

LEMMA PushChains ==
  ASSUME NEW S, NEW s \in Seq(S), s # <<>>, NEW frame, NEW top, Chained(s), frame.tpl = Last(s).tpl,
         Last(s).step \notin Columns, frame.setter = Last(s).setter, top.step \in Columns,
         frame.step = "insert" => frame.tpl.parent.state \in {"template", "auto"},
         frame.step = "children" => top.tpl.parent.state = "existing" /\ top.tpl.parent.key = frame.id
  PROVE  Chained(Append(Front(s), frame) \o <<top>>)
<1> DEFINE new == Append(Front(s), frame) \o <<top>>
<1>1. /\ Len(new) = Len(s) + 1 /\ Last(new) = top
      /\ new[Len(s)] = frame /\ \A i \in 1..Len(s)-1 : new[i] = s[i]
  <2> HIDE DEF new
  <2>1. new = Append(Front(s), frame) \o <<top>>
    BY DEF new
  <2>2. LET both == Append(Front(s), frame) \o <<top>>
        IN  /\ \E T : both \in Seq(T)
            /\ Len(both) = Len(s) + 1 /\ both # <<>> /\ Last(both) = top
            /\ both[Len(s)] = frame /\ \A i \in 1..Len(s)-1 : both[i] = s[i]
    <3>1. s \in Seq(S) /\ s # <<>>
      OBVIOUS
    <3>2. QED  BY <3>1, Pushed, SMTT(60)
  <2>3. QED  BY <2>1, <2>2
<1>2. Len(s) \in Nat \ {0}
  OBVIOUS
<1> HIDE DEF new
<1>3. ASSUME NEW i \in 1..Len(s)
      PROVE  /\ new[i].step = "insert" => new[i].tpl.parent.state \in {"template", "auto"}
             /\ new[i].step = "children" =>
                  /\ new[i+1].tpl.parent.state = "existing" /\ new[i+1].tpl.parent.key = new[i].id
                  /\ new[i+1].step \notin Columns => new[i+1].setter[3] = new[i].id
  <2>1. CASE i = Len(s)
    BY <1>1, <1>2, <2>1 DEF Last
  <2>2. CASE i + 1 = Len(s)
    <3>1. i \in 1..Len(s)-1 /\ new[i] = s[i] /\ new[i+1] = frame /\ Last(s) = s[i+1]
      BY <1>1, <1>2, <2>2 DEF Last
    <3>2. QED  BY <3>1 DEF Chained
  <2>3. CASE i + 1 \in 1..Len(s)-1
    <3>1. i \in 1..Len(s)-1 /\ new[i] = s[i] /\ new[i+1] = s[i+1]
      BY <1>1, <1>2, <2>3
    <3>2. QED  BY <3>1 DEF Chained
  <2>4. QED  BY <1>2, <2>1, <2>2, <2>3
<1>4. Chained(new)
  BY <1>1, <1>2, <1>3 DEF Chained
<1>5. QED  BY <1>4 DEF new

LEMMA FrontChains ==
  ASSUME NEW S, NEW s \in Seq(S), s # <<>>, Chained(s)
  PROVE  Chained(Front(s))
<1> DEFINE front == Front(s)
<1>1. Len(front) = Len(s) - 1 /\ \A i \in 1..Len(s)-1 : front[i] = s[i]
  BY FrontOf
<1>2. Len(s) \in Nat \ {0}
  OBVIOUS
<1> HIDE DEF front
<1>3. ASSUME NEW i \in 1..Len(s)-2 PROVE i \in 1..Len(s)-1 /\ front[i] = s[i] /\ front[i+1] = s[i+1]
  <2>1. i \in 1..Len(s)-1 /\ i + 1 \in 1..Len(s)-1
    BY <1>2
  <2>2. QED  BY <1>1, <2>1
<1>4. Len(front) - 1 = Len(s) - 2
  BY <1>1, <1>2
<1>5. Chained(front)
  BY <1>3, <1>4, SMTT(30) DEF Chained
<1>6. QED  BY <1>5 DEF front

LEMMA HangingElsewhere ==
  ASSUME Hanging, NEW c \in Callers, \A d \in Callers \ {c} : tasks'[d] = tasks[d], Chained(tasks'[c].stack)
  PROVE  Hanging'
<1>1. \A d \in Callers : Chained(tasks'[d].stack)
  BY DEF Hanging
<1>2. QED  BY <1>1 DEF Hanging

\* One frame, or none.
LEMMA ShortChains == \A f : Chained(<<>>) /\ Chained(<<f>>)
  BY DEF Chained

LEMMA HangingNext == IInv /\ Hanging /\ [Next]_vars => Hanging'
<1> SUFFICES ASSUME IInv, Hanging, [Next]_vars PROVE Hanging'
  OBVIOUS
<1>1. CASE UNCHANGED tasks
  BY <1>1 DEF Hanging, Chained
<1>2. ASSUME NEW c \in Callers, FactoryStep(c) PROVE Hanging'
  <2> DEFINE stack == tasks[c].stack
             top   == Last(stack)
  <2>1. Shape /\ DOMAIN tasks = Callers /\ DOMAIN tasks[c] = DOMAIN Idle /\ Chained(stack)
    BY DEF IInv, Shape, Hanging
  <2>2. ASSUME stack # <<>>
        PROVE  (\E S : stack \in Seq(S)) /\ DOMAIN top = DOMAIN Frame("any")
    <3>1. Stacked(c)
      BY <2>2, FrameAtWork
    <3>2. PICK S : stack \in Seq(S)
      BY <3>1 DEF Stacked
    <3>3. Len(stack) \in 1..Len(stack)
      BY <2>2, <3>2
    <3>4. QED  BY <3>1, <3>2, <3>3 DEF Stacked, Last
  <2>3. ASSUME NEW new, tasks' = [tasks EXCEPT ![c].stack = new], Chained(new) PROVE Hanging'
    <3>1. tasks'[c].stack = new /\ \A d \in Callers \ {c} : tasks'[d] = tasks[d]
      BY <2>1, <2>3, StackFields DEF OnlyStack
    <3>2. QED  BY <2>3, <3>1, HangingElsewhere
  <2>4. ASSUME NEW frame, stack # <<>>, tasks' = Replace(c, frame), frame.tpl = top.tpl,
               top.tpl.parent.state = "existing" /\ frame.step \notin Columns
                 /\ (top.step \notin Columns => top.setter[3] = top.tpl.parent.key)
                 => frame.setter[3] = top.tpl.parent.key
        PROVE  Hanging'
    <3>1. Chained(Append(Front(stack), frame))
      BY <2>1, <2>2, <2>4, ReplaceChains
    <3>2. QED  BY <2>3, <2>4, <3>1 DEF Replace
  <2>5. ASSUME NEW frame, NEW tpl, stack # <<>>, tasks' = Push(c, frame, tpl), frame.tpl = top.tpl,
               top.step \notin Columns, frame.setter = top.setter,
               frame.step = "insert" => frame.tpl.parent.state \in {"template", "auto"},
               frame.step = "children" => tpl.parent.state = "existing" /\ tpl.parent.key = frame.id
        PROVE  Hanging'
    <3>1. Frame(tpl).step \in Columns /\ Frame(tpl).tpl = tpl
      BY DEF Frame, Columns
    <3>2. Chained(Append(Front(stack), frame) \o <<Frame(tpl)>>)
      BY <2>1, <2>2, <2>5, <3>1, PushChains
    <3>3. QED  BY <2>3, <2>5, <3>2 DEF Push
  <2>6. ASSUME NEW column \in Columns, Build(c, column) PROVE Hanging'
    <3>1. stack # <<>> /\ top.step = column
      BY <2>6 DEF Build, Working
    <3>2. PICK next : tasks' = Replace(c, Filled(top, column, next))
      BY <2>6 DEF Build
    <3> DEFINE frame == Filled(top, column, next)
    <3>3. /\ frame.tpl = top.tpl
          /\ frame.step \notin Columns /\ top.tpl.parent.state = "existing" => frame.setter[3] = top.tpl.parent.key
      BY <2>2, <3>1, FilledFrame DEF Columns
    <3> HIDE DEF frame
    <3>4. tasks' = Replace(c, frame)
      BY <3>2 DEF frame
    <3>5. QED  BY <2>4, <3>1, <3>3, <3>4
  <2>7. CASE Parent(c)
    <3> DEFINE frame == [top EXCEPT !.step = "insert"]
    <3>1. stack # <<>> /\ top.step = "parent"
      BY <2>7 DEF Parent, Working
    <3>2. frame.tpl = top.tpl /\ frame.setter = top.setter /\ frame.step = "insert"
      BY <2>2, <3>1, FrameFields
    <3>3. \/ top.tpl.parent.state = "template" /\ tasks' = Push(c, frame, top.tpl.parent.tpl[1])
          \/ top.tpl.parent.state = "auto" /\ tasks' = Push(c, frame, Template(Refers[top.tpl.table].to))
          \/ tasks' = Replace(c, frame)
      <4> DEFINE state == top.tpl.parent.state
                 pushed(tpl) == tasks' = Push(c, frame, tpl)
                 replaced == tasks' = Replace(c, frame)
      <4>1. tasks' = CASE state = "template" -> Push(c, frame, top.tpl.parent.tpl[1])
                       [] state = "auto"     -> Push(c, frame, Template(Refers[top.tpl.table].to))
                       [] OTHER              -> Replace(c, frame)
        BY <2>7 DEF Parent
      <4> HIDE DEF frame, state
      <4>2. QED  BY <4>1 DEF state
    <3> HIDE DEF frame
    <3>4. QED  BY <2>4, <2>5, <3>1, <3>2, <3>3 DEF Columns
  <2>8. CASE Insert(c)
    <3> DEFINE frame == [top EXCEPT !.step = "inserting"]
    <3>1. stack # <<>> /\ top.step = "insert" /\ tasks' = Replace(c, frame)
      BY <2>8 DEF Insert, Working
    <3>2. frame.tpl = top.tpl /\ frame.setter = top.setter
      BY <2>2, <3>1, FrameFields
    <3> HIDE DEF frame
    <3>3. QED  BY <2>4, <3>1, <3>2 DEF Columns
  <2>9. CASE Created(c)
    <3> DEFINE row == Only(calls[c].answer)
               frame == [top EXCEPT !.step = "children", !.id = row.id]
    <3>1. stack # <<>> /\ top.step = "inserting"
      BY <2>9 DEF Created, Working
    <3>2. frame.tpl = top.tpl /\ frame.setter = top.setter
      BY <2>2, <3>1, FrameFields
    <3>3. tasks'[c].stack = <<>> \/ tasks'[c].stack = Append(Front(stack), frame)
      BY <2>1, <2>9, IdleFields DEF Created, Replace
    <3>4. \A d \in Callers \ {c} : tasks'[d] = tasks[d]
      BY <2>1, <2>9 DEF Created, Replace
    <3> HIDE DEF frame
    <3>5. Chained(Append(Front(stack), frame))
      BY <2>1, <2>2, <3>1, <3>2, ReplaceChains DEF Columns
    <3>6. QED  BY <3>3, <3>4, <3>5, ShortChains, HangingElsewhere
  <2>10. CASE Child(c)
    <3> DEFINE frame == [top EXCEPT !.child = @ + 1]
               child == top.tpl.children[top.child]
    <3>1. stack # <<>> /\ top.step = "children" /\ tasks' = Push(c, frame, Forced(child, top.id))
      BY <2>10 DEF Child, Working
    <3>2. frame.tpl = top.tpl /\ frame.setter = top.setter /\ frame.step = "children" /\ frame.id = top.id
      BY <2>2, <3>1, FrameFields
    <3> HIDE DEF frame, child
    <3>3. Forced(child, top.id).parent.state = "existing" /\ Forced(child, top.id).parent.key = frame.id
      BY <3>2 DEF Forced, ParentAs
    <3>4. QED  BY <2>5, <3>1, <3>2, <3>3 DEF Columns
  <2>11. CASE Return(c)
    <3> DEFINE below == Front(stack)
               asker == Last(below)
               taken == [asker EXCEPT !.setter[3] = top.id]
    <3>1. stack # <<>>
      BY <2>11 DEF Return, Working
    <3>2. PICK S : stack \in Seq(S)
      BY <2>2, <3>1
    <3>3. below \in Seq(S) /\ Chained(below) /\ Len(below) = Len(stack) - 1
          /\ \A i \in 1..Len(stack)-1 : below[i] = stack[i]
      BY <2>1, <3>1, <3>2, FrontOf, FrontChains
    <3>4. CASE below # <<>> /\ asker.step = "insert"
      <4>1. tasks' = [tasks EXCEPT ![c].stack = Append(Front(below), taken)]
        BY <2>11, <3>4 DEF Return
      <4>2. Len(below) \in 1..Len(stack)-1 /\ asker = stack[Len(below)]
        BY <3>2, <3>3, <3>4 DEF Last
      <4>3. asker.tpl.parent.state \in {"template", "auto"}
        BY <2>1, <3>4, <4>2 DEF Chained
      <4>4. DOMAIN asker = DOMAIN Frame("any")
        BY <3>1, <4>2, FrameAtWork DEF Stacked
      <4>5. taken.tpl = asker.tpl
        BY <4>4, FrameFields
      <4> HIDE DEF taken, below
      <4>6. Chained(Append(Front(below), taken))
        BY <3>3, <3>4, <4>3, <4>5, ReplaceChains
      <4>7. QED  BY <2>3, <4>1, <4>6
    <3>5. CASE below # <<>> /\ asker.step # "insert"
      <4>1. tasks' = [tasks EXCEPT ![c].stack = below]
        BY <2>11, <3>5 DEF Return
      <4> HIDE DEF below
      <4>2. QED  BY <2>3, <3>3, <4>1
    <3>6. CASE below = <<>>
      <4>1. /\ tasks'[c].stack = <<Frame(tasks[c].job.template[1])>> \/ tasks'[c].stack = <<>>
            /\ \A d \in Callers \ {c} : tasks'[d] = tasks[d]
        BY <2>1, <2>11, <3>6, IdleFields DEF Return
      <4>2. QED  BY <4>1, ShortChains, HangingElsewhere
    <3>7. QED  BY <3>4, <3>5, <3>6
  <2>12. CASE Answered(c) \/ Settle(c)
    <3>1. tasks'[c].stack = tasks[c].stack /\ \A d \in Callers \ {c} : tasks'[d] = tasks[d]
      BY <2>1, <2>12, IdleFields DEF Answered, Settle
    <3>2. QED  BY <2>1, <3>1, HangingElsewhere
  <2>13. ASSUME NEW job \in Jobs, NEW atomic \in BOOLEAN, Start(c, job, atomic) PROVE Hanging'
    <3>1. /\ tasks'[c].stack = <<Frame(job.template[1])>> \/ tasks'[c].stack = <<>>
          /\ \A d \in Callers \ {c} : tasks'[d] = tasks[d]
      <4> DEFINE stack1 == IF job.template = <<>> THEN <<>> ELSE <<Frame(job.template[1])>>
      <4>1. tasks' = [tasks EXCEPT ![c] = [Idle EXCEPT !.step = "working", !.job = job, !.atomic = atomic,
                        !.left = job.times, !.stack = stack1]]
        BY <2>13 DEF Start
      <4> HIDE DEF stack1
      <4>2. tasks'[c].stack = stack1 /\ \A d \in Callers \ {c} : tasks'[d] = tasks[d]
        BY <2>1, <4>1, IdleFields
      <4>3. QED  BY <4>2 DEF stack1
    <3>2. QED  BY <3>1, ShortChains, HangingElsewhere
  <2>14. QED  BY <1>2, <2>6, <2>7, <2>8, <2>9, <2>10, <2>11, <2>12, <2>13 DEF FactoryStep
<1>3. QED  BY <1>1, <1>2 DEF Next, vars

\* However deep the templates go, a child that has been built carries the key of
\* the row it was queued on, whatever parent its own template asks for
\* (create_with of emit/factory.rs).
THEOREM ChildrenCarryTheirParentsKey == Spec => []ChildrenHangOff
<1>1. Init => Hanging
  <2>1. Idle.stack = <<>>
    BY DEF Idle
  <2>2. Init => \A c \in Callers : tasks[c].stack = <<>>
    BY <2>1 DEF Init
  <2>3. QED  BY <2>2, ShortChains DEF Hanging
<1>2. IInv /\ Hanging => ChildrenHangOff
  <2> SUFFICES ASSUME IInv, Hanging, NEW c \in Callers, NEW i \in 2..Len(tasks[c].stack),
                      tasks[c].stack[i-1].step = "children", tasks[c].stack[i].step \notin Columns
               PROVE  tasks[c].stack[i].setter[3] = tasks[c].stack[i-1].id
    BY DEF ChildrenHangOff
  <2>1. tasks[c].stack # <<>> => \E S : tasks[c].stack \in Seq(S)
    BY FrameAtWork DEF Stacked
  <2>2. PICK j \in Int : j = i - 1
    OBVIOUS
  <2>3. Len(tasks[c].stack) \in Nat
    BY <2>1
  <2>4. j \in 1..Len(tasks[c].stack)-1 /\ j + 1 = i
    BY <2>2, <2>3
  <2>5. QED  BY <2>2, <2>4 DEF Hanging, Chained
<1>3. QED  BY <1>1, <1>2, HangingNext, Invariance, PTL DEF Spec

-----------------------------------------------------------------------------
(* A sequence never draws a value twice.                                    *)

\* What has been drawn is what follows the base, which is fixed by the first draw.
Drawing ==
    /\ DOMAIN seq = Tables
    /\ \A t \in Tables :
         /\ DOMAIN seq[t] = {"base", "next", "drawn"} /\ seq[t].next \in Nat
         /\ seq[t].drawn = [i \in 1..seq[t].next |-> seq[t].base + i - 1]
         /\ seq[t].base \in Bases \/ (seq[t].base = -1 /\ seq[t].next = 0)

LEMMA DrawingNext == Drawing /\ [Next]_vars => Drawing'
<1> SUFFICES ASSUME Drawing, [Next]_vars PROVE Drawing'
  OBVIOUS
<1>1. CASE UNCHANGED seq
  BY <1>1 DEF Drawing
<1>2. ASSUME NEW c \in Callers, NEW column \in Columns, Build(c, column), ~UNCHANGED seq PROVE Drawing'
  <2> DEFINE t == Last(tasks[c].stack).tpl.table
  <2>1. PICK base \in Base(t) :
          seq' = [seq EXCEPT ![t] = [base |-> base, next |-> @.next + 1, drawn |-> Append(@.drawn, base + @.next)]]
    BY <1>2 DEF Build, Drawn
  <2> HIDE DEF t
  <2>2. CASE t \notin Tables
    BY <2>1, <2>2 DEF Drawing
  <2>3. CASE t \in Tables
    <3> DEFINE next  == seq[t].next
               drawn == seq[t].drawn
               all   == Append(drawn, base + next)
    <3>1. next \in Nat /\ base \in Nat /\ base \in Bases /\ drawn = [i \in 1..next |-> base + i - 1]
      <4>1. next \in Nat
        BY <2>3 DEF Drawing
      <4>2. CASE seq[t].base = -1
        <5>1. base \in Nat /\ base \in Bases
          BY <4>2, BasesAssumption DEF Base
        <5>2. next = 0
          <6>1. seq[t].base \in Bases \/ next = 0
            BY <2>3 DEF Drawing
          <6>2. -1 \notin Bases
            BY BasesAssumption
          <6>3. QED  BY <4>2, <6>1, <6>2
        <5>3. drawn = [i \in 1..next |-> seq[t].base + i - 1]
          BY <2>3 DEF Drawing
        <5> HIDE DEF next, drawn
        <5>4. drawn = [i \in 1..next |-> base + i - 1]
          <6>1. 1..next = {}
            BY <5>2
          <6>2. QED  BY <5>3, <6>1
        <5>5. QED  BY <4>1, <5>1, <5>4
      <4>3. CASE seq[t].base # -1
        <5>1. base = seq[t].base /\ base \in Bases /\ drawn = [i \in 1..next |-> base + i - 1]
          BY <2>3, <4>3 DEF Drawing, Base
        <5>2. QED  BY <4>1, <5>1, BasesAssumption
      <4>4. QED  BY <4>1, <4>2, <4>3
    <3> HIDE DEF next, drawn
    <3>2. all = [i \in 1..next+1 |-> base + i - 1]
      <4>1. drawn \in Seq(Int) /\ Len(drawn) = next /\ \A i \in 1..next : drawn[i] = base + i - 1
        BY <3>1
      <4>2. base + next \in Int /\ base + next = base + (next + 1) - 1
        BY <3>1
      <4>3. /\ all \in Seq(Int) /\ Len(all) = next + 1 /\ all[next+1] = base + next
            /\ \A i \in 1..next : all[i] = drawn[i]
        BY <4>1, <4>2, AppendProperties
      <4> HIDE DEF all
      <4>4. ASSUME NEW i \in 1..next+1 PROVE all[i] = base + i - 1
        <5>1. i \in 1..next \/ i = next + 1
          BY <3>1
        <5>2. QED  BY <4>1, <4>2, <4>3, <5>1
      <4>5. DOMAIN all = 1..next+1 /\ all = [i \in DOMAIN all |-> all[i]]
        BY <4>3
      <4>6. QED  BY <4>4, <4>5
    <3>3. seq'[t] = [base |-> base, next |-> next + 1, drawn |-> all]
      BY <2>1, <2>3 DEF Drawing, next, drawn
    <3>4. DOMAIN seq' = Tables /\ \A u \in Tables \ {t} : seq'[u] = seq[u]
      BY <2>1 DEF Drawing
    <3> HIDE DEF all
    <3>5. /\ DOMAIN seq'[t] = {"base", "next", "drawn"} /\ seq'[t].next = next + 1 /\ next + 1 \in Nat
          /\ seq'[t].base = base /\ seq'[t].drawn = [i \in 1..next+1 |-> base + i - 1]
      BY <3>1, <3>2, <3>3
    <3>6. QED  BY <3>1, <3>4, <3>5, ZenonT(60) DEF Drawing
  <2>4. QED  BY <2>2, <2>3
<1>3. ASSUME NEW c \in Callers, FactoryStep(c), \A column \in Columns : ~Build(c, column) PROVE UNCHANGED seq
  BY <1>3 DEF FactoryStep, Parent, Insert, Created, Child, Return, Answered, Settle, Start
<1>4. QED  BY <1>1, <1>2, <1>3 DEF Next, vars

LEMMA InitDrawing == Init => Drawing
<1> SUFFICES ASSUME Init, NEW t \in Tables
             PROVE  /\ DOMAIN seq[t] = {"base", "next", "drawn"} /\ seq[t].next \in Nat
                    /\ seq[t].drawn = [i \in 1..seq[t].next |-> seq[t].base + i - 1]
                    /\ seq[t].base \in Bases \/ (seq[t].base = -1 /\ seq[t].next = 0)
  BY DEF Init, Drawing
<1>1. seq[t] = [base |-> -1, next |-> 0, drawn |-> <<>>]
  BY DEF Init
<1>2. QED  BY <1>1

LEMMA DrawingOnce == Drawing => DrawnOnce
<1> SUFFICES ASSUME Drawing, NEW t \in Tables PROVE IsInjective(seq[t].drawn)
  BY DEF DrawnOnce
<1>1. seq[t].drawn = [i \in 1..seq[t].next |-> seq[t].base + i - 1]
  BY DEF Drawing
<1>2. seq[t].base \in Bases \/ seq[t].base = -1
  BY DEF Drawing
<1>3. seq[t].base \in Int
  BY <1>2, BasesAssumption
<1>4. QED  BY <1>1, <1>3 DEF IsInjective

\* "In-process, values never repeat": whatever the clock says and however many
\* factories draw (Sequence::next_i32 of sequence.rs).
THEOREM SequencesNeverRepeat == Spec => []DrawnOnce
  BY InitDrawing, DrawingNext, DrawingOnce, PTL DEF Spec

-----------------------------------------------------------------------------
(* Factories that keep to their sequences.                                  *)

\* The rows there from the start are in another range than what the clock gives.
RangesApart == \A b \in Bases : b > 0 /\ \A r \in Existing : r.id < b /\ r.label < b

\* Nobody has done anything but create from templates that draw both of their keys.
Calm ==
    \A c \in Callers : tasks[c].step # "idle" =>
      tasks[c].job.template # <<>> /\ Sequenced(tasks[c].job.template[1])

\* What such a template makes, and the values that sequences have given out.
Keeping(tpl) ==
    /\ tpl.table \in Tables /\ tpl.id.how = "auto" /\ tpl.label.how = "auto" /\ tpl.children = <<>>
    /\ tpl.parent.state \in {"none", "auto", "absent"}
    /\ tpl.parent.state # "auto" => ~Required(tpl.table)
Given(t, v) == t \in Tables /\ seq[t].base \in Bases /\ v \in seq[t].base .. seq[t].base + seq[t].next - 1
Made(r)     == Given(r.table, r.id) /\ Given(r.table, r.label)

Everything      == rows \cup UNION {tx[c].added : c \in Callers}
Known(c, t, id) == \E r \in View(c) : Made(r) /\ r.table = t /\ r.id = id

\* A call whose statement has not run, a frame that is built and not inserted,
\* and the values a frame has drawn that are in no row yet.
Ahead(c)     == calls[c].step \in {"before", "statement"}
Claims(c, i) ==
    LET f == tasks[c].stack[i]
    IN  f.step \in {"parent", "insert"} \/ (f.step = "inserting" /\ Ahead(c))
Holds(c, i, v) ==
    LET f == tasks[c].stack[i]
    IN  (Claims(c, i) /\ v \in {f.setter[1], f.setter[2]}) \/ (f.step = "label" /\ v = f.setter[1])

\* Every row that was not there from the start was made by a factory.
Ranges ==
    /\ \A r \in Everything : r \in Existing \/ Made(r)
    /\ \A c \in Callers : tx[c].removed = {}

\* A value that waits in a frame is in no row and in no other frame of its table.
Waiting(t, v) == Given(t, v) /\ \A r \in Everything : r.table = t => v \notin {r.id, r.label}
Free ==
    \A c \in Callers : \A i \in 1..Len(tasks[c].stack) : \A v : Holds(c, i, v) =>
      /\ Waiting(tasks[c].stack[i].tpl.table, v)
      /\ \A d \in Callers : \A j \in 1..Len(tasks[d].stack) :
           Holds(d, j, v) /\ tasks[d].stack[j].tpl.table = tasks[c].stack[i].tpl.table => c = d /\ i = j

\* The frames below the one at work wait for a parent.
Climbing(c) ==
    LET stack == tasks[c].stack
    IN  /\ \A i \in 1..Len(stack) : Keeping(stack[i].tpl) /\ DOMAIN stack[i].setter = 1..3
        /\ \A i \in 1..Len(stack)-1 :
             stack[i].step = "insert" /\ stack[i+1].tpl.table = Refers[stack[i].tpl.table].to

\* The key the frame at work sets is of a row its caller sees.
Linked(c, t, key) == (key = Unset /\ ~Required(t)) \/ Known(c, Refers[t].to, key)
AtWork(c) ==
    LET top == Last(tasks[c].stack)
        t   == top.tpl.table
    IN  tasks[c].stack # <<>> =>
          /\ top.step = "parent" => top.setter[3] = Unset
          /\ top.step = "insert" => Linked(c, t, top.setter[3])
          /\ top.step = "inserting" =>
               /\ calls[c].table = t
               /\ Ahead(c) => calls[c].setter = top.setter /\ Linked(c, t, top.setter[3])
          /\ top.step = "children" => Known(c, t, top.id)

Yields(c) ==
    LET ours(r) == r \in View(c) /\ Made(r) /\ r.table = calls[c].table
    IN  tasks[c].stack # <<>> =>
          /\ HasEffect(c) => \A r \in calls[c].effect : ours(r)
          /\ HasAnswer(c) => calls[c].answer # {} /\ \A r \in calls[c].answer : ours(r)

Unwelcome  == {"duplicate", "null", "no parent"}
Welcome(c) == calls[c].outcome \notin Unwelcome /\ tasks[c].outcome \notin Unwelcome

Fine(c) == Climbing(c) /\ AtWork(c) /\ Yields(c) /\ Welcome(c)
InRange == Ranges /\ Free /\ \A c \in Callers : Fine(c)

\* What a sequence has given out it has given out for good.
Growing == \A t, v : Given(t, v) => Given(t, v)'

-----------------------------------------------------------------------------

LEMMA SequencedKeeps ==
  ASSUME NEW job \in Jobs, job.template # <<>>, Sequenced(job.template[1])
  PROVE  Keeping(job.template[1])
  BY TemplatesAssumption DEF Sequenced, Keeping

LEMMA DefaultKeeps ==
  ASSUME NEW t \in Tables
  PROVE  Keeping(Template(t)) /\ Template(t).table = t
<1>1. /\ Template(t).table = t /\ Template(t).id.how = "auto" /\ Template(t).label.how = "auto"
      /\ Template(t).children = <<>> /\ Template(t).parent = DefaultParent(t)
  BY DEF Template, AutoValue
<1>2. /\ DefaultParent(t).state \in {"none", "auto", "absent"}
      /\ DefaultParent(t).state # "auto" => ~Required(t)
  BY DEF DefaultParent, ParentAs, Required
<1>3. QED  BY <1>1, <1>2 DEF Keeping

\* The stack of a creation, and the frame at work.
LEMMA StackFacts ==
  ASSUME IInv, NEW c \in Callers, tasks[c].stack # <<>>
  PROVE  LET stack == tasks[c].stack
         IN  /\ \E S : stack \in Seq(S)
             /\ Len(stack) \in Nat \ {0} /\ Last(stack) = stack[Len(stack)]
             /\ \A i \in 1..Len(stack) : DOMAIN stack[i] = {"tpl", "step", "setter", "child", "id"}
<1>1. Stacked(c)
  BY FrameAtWork
<1>2. PICK S : tasks[c].stack \in Seq(S)
  BY <1>1 DEF Stacked
<1>3. QED  BY <1>1, <1>2, FrameFields DEF Stacked, Last

LEMMA MadeGrows == Growing => \A r : Made(r) => Made(r)'
  BY DEF Growing, Made

LEMMA GivenGrows ==
  ASSUME Drawing, [Next]_vars
  PROVE  Growing
<1>1. CASE UNCHANGED seq
  BY <1>1 DEF Growing, Given
<1>2. ASSUME NEW c \in Callers, NEW column \in Columns, Build(c, column), ~UNCHANGED seq PROVE Growing
  <2> DEFINE u == Last(tasks[c].stack).tpl.table
  <2>1. PICK base \in Base(u) : \E drawn :
          seq' = [seq EXCEPT ![u] = [base |-> base, next |-> @.next + 1, drawn |-> drawn]]
    <3>1. PICK base \in Base(u) :
            seq' = [seq EXCEPT ![u] = [base |-> base, next |-> @.next + 1, drawn |-> Append(@.drawn, base + @.next)]]
      BY <1>2 DEF Build, Drawn
    <3> HIDE DEF u
    <3>2. seq' = [seq EXCEPT ![u] = [base |-> base, next |-> @.next + 1,
                                     drawn |-> Append(seq[u].drawn, base + seq[u].next)]]
      BY <3>1
    <3>3. QED  BY <3>2
  <2> HIDE DEF u
  <2>2. ASSUME NEW t, NEW v, Given(t, v) PROVE Given(t, v)'
    <3>1. CASE t # u
      BY <2>1, <2>2, <3>1 DEF Given, Drawing
    <3>2. CASE t = u
      <4>1. t \in Tables /\ seq[t].base \in Nat /\ seq[t].base # -1 /\ seq[t].next \in Nat
        <5>1. t \in Tables /\ seq[t].base \in Bases
          BY <2>2 DEF Given
        <5>2. seq[t].base \in Nat
          BY <5>1, BasesAssumption
        <5>3. seq[t].next \in Nat
          BY <5>1 DEF Drawing
        <5>4. QED  BY <5>1, <5>2, <5>3
      <4>2. seq'[t].base = seq[t].base /\ seq'[t].next = seq[t].next + 1
        BY <2>1, <3>2, <4>1 DEF Drawing, Base
      <4>3. QED  BY <2>2, <4>1, <4>2 DEF Given
    <3>3. QED  BY <3>1, <3>2
  <2>3. QED  BY <2>2 DEF Growing
<1>3. ASSUME NEW c \in Callers, FactoryStep(c), \A column \in Columns : ~Build(c, column) PROVE UNCHANGED seq
  BY <1>3 DEF FactoryStep, Parent, Insert, Created, Child, Return, Answered, Settle, Start
<1>4. QED  BY <1>1, <1>2, <1>3 DEF Next, vars

\* What is in a row that its caller sees stays there.
LEMMA KnownGrows ==
  ASSUME NEW c, Growing, View(c) \subseteq View(c)'
  PROVE  /\ \A t, id : Known(c, t, id) => Known(c, t, id)'
         /\ \A t, key : Linked(c, t, key) => Linked(c, t, key)'
<1>1. \A t, id : Known(c, t, id) => Known(c, t, id)'
  BY MadeGrows DEF Known
<1>2. QED  BY <1>1 DEF Linked

LEMMA FineElsewhere ==
  ASSUME NEW d, Growing, Fine(d), tasks'[d] = tasks[d], calls'[d] = calls[d], View(d) \subseteq View(d)'
  PROVE  Fine(d)'
<1>1. Climbing(d)'
  BY DEF Fine, Climbing
<1>2. AtWork(d)'
  BY KnownGrows DEF Fine, AtWork, Ahead
<1>3. Yields(d)'
  <2>1. (HasEffect(d)' <=> HasEffect(d)) /\ (HasAnswer(d)' <=> HasAnswer(d))
    BY DEF HasEffect, HasAnswer, Finished
  <2>2. QED  BY <2>1, MadeGrows DEF Fine, Yields
<1>4. Welcome(d)'
  BY DEF Fine, Welcome
<1>5. QED  BY <1>1, <1>2, <1>3, <1>4 DEF Fine

\* What the frames of c hold they have held before.
StillWaits(c) ==
    \A i \in 1..Len(tasks'[c].stack) : \A v : Holds(c, i, v)' =>
      /\ i \in 1..Len(tasks[c].stack) /\ Holds(c, i, v)
      /\ tasks'[c].stack[i].tpl = tasks[c].stack[i].tpl

\* A row is there already, or c has just put what its frames held into it.
Placing(c, r) ==
    \/ r \in Everything
    \/ /\ Made(r)
       /\ \A v \in {r.id, r.label} : \E i \in 1..Len(tasks[c].stack) :
            /\ Holds(c, i, v) /\ ~(i \in 1..Len(tasks'[c].stack) /\ Holds(c, i, v)')
            /\ r.table = tasks[c].stack[i].tpl.table

OnlyOf(c) == \A d \in Callers \ {c} : tasks'[d] = tasks[d] /\ calls'[d] = calls[d]

LEMMA FreeStays ==
  ASSUME Free, Growing, NEW c \in Callers, OnlyOf(c), StillWaits(c), \A r \in Everything' : Placing(c, r)
  PROVE  Free'
<1>1. ASSUME NEW d \in Callers, NEW i \in 1..Len(tasks'[d].stack), NEW v, Holds(d, i, v)'
      PROVE  /\ i \in 1..Len(tasks[d].stack) /\ Holds(d, i, v)
             /\ tasks'[d].stack[i].tpl = tasks[d].stack[i].tpl
  <2>1. CASE d = c
    BY <1>1, <2>1 DEF StillWaits
  <2>2. CASE d # c
    BY <1>1, <2>2 DEF OnlyOf, Holds, Claims, Ahead
  <2>3. QED  BY <2>1, <2>2
<1>2. ASSUME NEW d \in Callers, NEW i \in 1..Len(tasks'[d].stack), NEW v, Holds(d, i, v)'
      PROVE  Waiting(tasks[d].stack[i].tpl.table, v)'
  <2>1. PICK t : t = tasks[d].stack[i].tpl.table
    OBVIOUS
  <2>2. /\ i \in 1..Len(tasks[d].stack) /\ Holds(d, i, v) /\ tasks'[d].stack[i].tpl.table = t
    BY <1>1, <1>2, <2>1
  <2>3. Waiting(t, v)
    BY <2>1, <2>2 DEF Free
  <2>4. ASSUME NEW r \in Everything', r.table = t, v \in {r.id, r.label} PROVE FALSE
    <3>1. r \notin Everything
      BY <2>3, <2>4 DEF Waiting
    <3>2. PICK k \in 1..Len(tasks[c].stack) :
            /\ Holds(c, k, v) /\ ~(k \in 1..Len(tasks'[c].stack) /\ Holds(c, k, v)')
            /\ r.table = tasks[c].stack[k].tpl.table
      BY <2>4, <3>1 DEF Placing
    <3>3. tasks[c].stack[k].tpl.table = tasks[d].stack[i].tpl.table
      BY <2>1, <2>4, <3>2
    <3>4. c = d /\ k = i
      BY <2>2, <3>2, <3>3, Zenon DEF Free
    <3>5. QED  BY <1>2, <3>2, <3>4
  <2>5. Waiting(t, v)'
    BY <2>3, <2>4 DEF Waiting, Growing
  <2>6. QED  BY <2>2, <2>5
<1>3. ASSUME NEW v, NEW d \in Callers, NEW i \in 1..Len(tasks'[d].stack), Holds(d, i, v)',
             NEW e \in Callers, NEW j \in 1..Len(tasks'[e].stack), Holds(e, j, v)',
             tasks'[e].stack[j].tpl.table = tasks'[d].stack[i].tpl.table
      PROVE  d = e /\ i = j
  <2>1. /\ i \in 1..Len(tasks[d].stack) /\ Holds(d, i, v) /\ j \in 1..Len(tasks[e].stack) /\ Holds(e, j, v)
        /\ tasks[e].stack[j].tpl.table = tasks[d].stack[i].tpl.table
    BY <1>1, <1>3
  <2>2. QED  BY <2>1 DEF Free
<1>4. QED  BY <1>2, <1>3 DEF Free

LEMMA StaysInRange ==
  ASSUME InRange, Growing, NEW c \in Callers, OnlyOf(c), StillWaits(c), Fine(c)',
         rows \subseteq rows', \A d \in Callers \ {c} : tx'[d] = tx[d], tx'[c].removed = {},
         \A r \in Everything' : Placing(c, r)
  PROVE  InRange'
<1>1. \A d \in Callers : tx'[d].removed = {}
  BY DEF InRange, Ranges
<1>2. Ranges'
  <2>1. ASSUME NEW r \in Everything' PROVE r \in Existing \/ Made(r)'
    BY MadeGrows DEF Placing, InRange, Ranges
  <2>2. QED  BY <1>1, <2>1 DEF Ranges
<1>3. Free'
  BY FreeStays DEF InRange
<1>4. ASSUME NEW d \in Callers \ {c} PROVE Fine(d)'
  <2>1. View(d) \subseteq View(d)'
    BY <1>1 DEF View
  <2>2. QED  BY <2>1, FineElsewhere DEF InRange, OnlyOf
<1>5. QED  BY <1>2, <1>3, <1>4 DEF InRange

\* A step that leaves the rows alone.
LEMMA QuietInRange ==
  ASSUME InRange, Growing, NEW c \in Callers, OnlyOf(c), StillWaits(c), Fine(c)',
         rows' = rows, \A d \in Callers \ {c} : tx'[d] = tx[d],
         tx'[c].added = tx[c].added, tx'[c].removed = {}
  PROVE  InRange'
<1>1. Everything' = Everything
  BY DEF Everything
<1>2. QED  BY <1>1, StaysInRange DEF Placing

\* With its creation over, nothing but its outcome is said of a caller.
LEMMA FineAtTheEnd ==
  ASSUME NEW c, tasks'[c].stack = <<>>, Welcome(c)'
  PROVE  Fine(c)' /\ StillWaits(c)
  BY DEF Fine, Climbing, AtWork, Yields, StillWaits

LEMMA SilentYields ==
  ASSUME NEW c, calls'[c].step \in {"none", "before", "statement"}
  PROVE  Yields(c)'
  BY DEF Yields, HasEffect, HasAnswer, Finished

\* A step that replaces the frame at work.
LEMMA TopInPlace ==
  ASSUME IInv, NEW c \in Callers, tasks[c].stack # <<>>, NEW frame, Climbing(c),
         tasks'[c].stack = Append(Front(tasks[c].stack), frame),
         frame.tpl = Last(tasks[c].stack).tpl, DOMAIN frame.setter = 1..3
  PROVE  /\ Climbing(c)' /\ tasks'[c].stack # <<>> /\ Last(tasks'[c].stack) = frame
         /\ LET top == Last(tasks[c].stack)
            IN  /\ frame.setter[1] = top.setter[1] /\ frame.setter[2] = top.setter[2]
                /\ frame.step # "label"
                /\ frame.step \in {"parent", "insert", "inserting"} => top.step \in {"parent", "insert"}
                => StillWaits(c)
<1> DEFINE stack == tasks[c].stack
           new   == tasks'[c].stack
           n     == Len(stack)
           top   == Last(stack)
<1>1. (\E S : stack \in Seq(S)) /\ n \in Nat \ {0} /\ top = stack[n]
  BY StackFacts
<1>2. Len(new) = n /\ new # <<>> /\ Last(new) = frame /\ \A i \in 1..n-1 : new[i] = stack[i]
  <2>1. PICK S : stack \in Seq(S)
    BY <1>1
  <2>2. QED  BY <2>1, TopReplaced, SMTT(30)
<1>3. /\ \A i \in 1..n : Keeping(stack[i].tpl) /\ DOMAIN stack[i].setter = 1..3
      /\ \A i \in 1..n-1 : stack[i].step = "insert" /\ stack[i+1].tpl.table = Refers[stack[i].tpl.table].to
  BY DEF Climbing
<1>4. new[n] = frame /\ \A i \in 1..n : new[i].tpl = stack[i].tpl
  <2> HIDE DEF stack, new, n
  <2>1. new[n] = frame
    BY <1>2 DEF Last
  <2>2. frame.tpl = stack[n].tpl
    BY <1>1 DEF stack
  <2>3. QED  BY <1>1, <1>2, <2>1, <2>2
<1>5. Climbing(c)'
  <2> HIDE DEF n
  <2>1. ASSUME NEW i \in 1..n PROVE Keeping(new[i].tpl) /\ DOMAIN new[i].setter = 1..3
    <3>1. Keeping(new[i].tpl) /\ DOMAIN stack[i].setter = 1..3
      BY <1>3, <1>4
    <3>2. i \in 1..n-1 \/ i = n
      BY <1>1
    <3>3. QED  BY <1>2, <1>4, <3>1, <3>2
  <2>2. ASSUME NEW i \in 1..n-1 PROVE new[i].step = "insert" /\ new[i+1].tpl.table = Refers[new[i].tpl.table].to
    <3>1. i \in 1..n /\ i + 1 \in 1..n
      BY <1>1
    <3>2. QED  BY <1>2, <1>3, <1>4, <3>1
  <2>3. QED  BY <1>2, <2>1, <2>2 DEF Climbing, Keeping
<1>6. ASSUME frame.setter[1] = top.setter[1], frame.setter[2] = top.setter[2], frame.step # "label",
             frame.step \in {"parent", "insert", "inserting"} => top.step \in {"parent", "insert"}
      PROVE  StillWaits(c)
  <2> HIDE DEF n
  <2>1. ASSUME NEW i \in 1..n, NEW v, Holds(c, i, v)'
        PROVE  Holds(c, i, v) /\ new[i].tpl = stack[i].tpl
    <3>1. CASE i \in 1..n-1
      BY <1>2, <1>3, <1>4, <2>1, <3>1 DEF Holds, Claims
    <3>2. CASE i = n
      <4>1. frame.step \in {"parent", "insert", "inserting"} /\ v \in {frame.setter[1], frame.setter[2]}
        BY <1>4, <1>6, <2>1, <3>2 DEF Holds, Claims
      <4>2. QED  BY <1>1, <1>4, <1>6, <3>2, <4>1 DEF Holds, Claims
    <3>3. i \in 1..n-1 \/ i = n
      BY <1>1
    <3>4. QED  BY <3>1, <3>2, <3>3
  <2>2. QED  BY <1>2, <2>1 DEF StillWaits, n
<1>7. QED  BY <1>2, <1>5, <1>6

LEMMA ParentInRange ==
  ASSUME IInv, InRange, Growing, NEW c \in Callers, Parent(c)
  PROVE  InRange'
<1> DEFINE stack == tasks[c].stack
           top   == Last(stack)
           t     == top.tpl.table
           frame == [top EXCEPT !.step = "insert"]
<1>1. /\ UNCHANGED mutationVars /\ Working(c, "parent") /\ Fine(c)
  BY DEF Parent, InRange
<1>2. /\ stack # <<>> /\ calls[c].step = "none" /\ DOMAIN top = DOMAIN Frame("any") /\ top.step = "parent"
  BY <1>1, TopFrame
<1>3. frame.tpl = top.tpl /\ frame.setter = top.setter /\ frame.step = "insert"
  BY <1>2, FrameFields
<1>4. (\E S : stack \in Seq(S)) /\ Len(stack) \in Nat \ {0} /\ top = stack[Len(stack)]
  BY <1>2, StackFacts
<1>5. Keeping(top.tpl) /\ DOMAIN top.setter = 1..3 /\ top.setter[3] = Unset
  BY <1>1, <1>2, <1>4 DEF Fine, Climbing, AtWork
<1>6. /\ rows' = rows /\ tx' = tx /\ calls' = calls /\ Shape
  BY <1>1 DEF mutationVars, IInv
<1>7. Yields(c)' /\ tx'[c].removed = {}
  BY <1>2, <1>6, SilentYields DEF InRange, Ranges
<1>8. ASSUME OnlyStack(c), Climbing(c)', AtWork(c)', StillWaits(c) PROVE InRange'
  <2>1. Fine(c)'
    BY <1>1, <1>6, <1>7, <1>8 DEF Fine, Welcome, OnlyStack
  <2>2. QED  BY <1>6, <1>7, <1>8, <2>1, QuietInRange DEF OnlyOf, OnlyStack
<1>9. CASE top.tpl.parent.state # "auto"
  <2>1. tasks' = Replace(c, frame)
    BY <1>5, <1>9 DEF Parent, Keeping
  <2>2. OnlyStack(c) /\ tasks'[c].stack = Append(Front(stack), frame)
    BY <1>6, <2>1, StackFields DEF Replace
  <2> HIDE DEF frame
  <2>3. Climbing(c)' /\ tasks'[c].stack # <<>> /\ Last(tasks'[c].stack) = frame /\ StillWaits(c)
    <3>1. /\ frame.tpl = Last(tasks[c].stack).tpl /\ DOMAIN frame.setter = 1..3 /\ Climbing(c)
          /\ frame.setter[1] = top.setter[1] /\ frame.setter[2] = top.setter[2] /\ top.step = "parent"
          /\ frame.step = "insert"
      BY <1>1, <1>2, <1>3, <1>5 DEF Fine
    <3>2. QED  BY <1>2, <2>2, <3>1, TopInPlace
  <2>4. AtWork(c)'
    BY <1>3, <1>5, <1>9, <2>3 DEF AtWork, Linked, Keeping
  <2>5. QED  BY <1>8, <2>2, <2>3, <2>4
<1>10. CASE top.tpl.parent.state = "auto"
  <2> DEFINE u     == Refers[t].to
             fresh == Frame(Template(u))
             new   == Append(Front(stack), frame) \o <<fresh>>
             n     == Len(stack)
  <2>1. tasks' = Push(c, frame, Template(u))
    BY <1>10 DEF Parent
  <2>2. tasks' = [tasks EXCEPT ![c].stack = new]
    BY <2>1 DEF Push
  <2>3. OnlyStack(c) /\ tasks'[c].stack = new
    <3> HIDE DEF new
    <3>1. QED  BY <1>6, <2>2, StackFields
  <2>4. fresh.tpl = Template(u) /\ fresh.step = "id" /\ DOMAIN fresh.setter = 1..3
    BY DEF Frame
  <2>5. t \in Tables /\ Keeping(Template(u)) /\ Template(u).table = u
    BY <1>5, RefersAssumption, DefaultKeeps DEF Keeping
  <2> HIDE DEF frame, fresh
  <2>6. /\ Len(new) = n + 1 /\ new # <<>> /\ Last(new) = fresh /\ new[n] = frame
        /\ \A i \in 1..n-1 : new[i] = stack[i]
    <3>1. PICK S : stack \in Seq(S)
      BY <1>4
    <3> HIDE DEF new, top, stack
    <3>2. new = Append(Front(stack), frame) \o <<fresh>>
      BY DEF new
    <3>3. LET both == Append(Front(stack), frame) \o <<fresh>>
          IN  /\ Len(both) = Len(stack) + 1 /\ both # <<>> /\ Last(both) = fresh
              /\ both[Len(stack)] = frame /\ \A i \in 1..Len(stack)-1 : both[i] = stack[i]
      <4>1. stack # <<>>
        BY <1>2
      <4>2. QED  BY <3>1, <4>1, Pushed, SMTT(60)
    <3>4. QED  BY <3>2, <3>3
  <2>7. /\ \A i \in 1..n : Keeping(stack[i].tpl) /\ DOMAIN stack[i].setter = 1..3
        /\ \A i \in 1..n-1 : stack[i].step = "insert" /\ stack[i+1].tpl.table = Refers[stack[i].tpl.table].to
    BY <1>1 DEF Fine, Climbing
  <2>8. new[n+1] = fresh /\ n \in Nat \ {0} /\ stack[n] = top
    BY <1>4, <2>6 DEF Last
  <2> HIDE DEF new, n, top
  <2>9. \A i \in 1..n : new[i].tpl = stack[i].tpl /\ new[i].setter = stack[i].setter /\ new[i].step = "insert"
    BY <1>3, <2>6, <2>7, <2>8
  <2>10. Climbing(c)'
    <3>1. ASSUME NEW i \in 1..n+1 PROVE Keeping(new[i].tpl) /\ DOMAIN new[i].setter = 1..3
      <4>1. i \in 1..n \/ i = n + 1
        BY <2>8
      <4>2. QED  BY <2>4, <2>5, <2>7, <2>8, <2>9, <4>1
    <3>2. ASSUME NEW i \in 1..n PROVE new[i].step = "insert" /\ new[i+1].tpl.table = Refers[new[i].tpl.table].to
      <4>1. (i + 1 \in 1..n /\ i \in 1..n-1) \/ i = n
        BY <2>8
      <4>2. new[n].tpl.table = t /\ new[n+1].tpl.table = u
        BY <2>4, <2>5, <2>8, <2>9
      <4>3. QED  BY <2>7, <2>9, <4>1, <4>2
    <3>3. Len(new) = n + 1 /\ Len(new) - 1 = n
      BY <2>6, <2>8
    <3>4. QED  BY <2>3, <3>1, <3>2, <3>3 DEF Climbing, Keeping
  <2>11. AtWork(c)'
    BY <2>3, <2>4, <2>6 DEF AtWork
  <2>12. StillWaits(c)
    <3>1. ASSUME NEW i \in 1..n+1, NEW v, Holds(c, i, v)'
          PROVE  i \in 1..n /\ Holds(c, i, v)
      <4>1. i # n + 1
        BY <2>3, <2>4, <2>8, <3>1 DEF Holds, Claims
      <4>2. i \in 1..n-1 \/ i = n
        BY <2>8, <4>1
      <4>3. i \in 1..n
        BY <2>8, <4>1
      <4>4. stack[i].step \in {"insert", "parent"}
        BY <1>2, <2>7, <2>8, <4>2 DEF top
      <4>5. v \in {stack[i].setter[1], stack[i].setter[2]}
        BY <2>3, <2>9, <3>1, <4>3 DEF Holds, Claims
      <4>6. QED  BY <4>3, <4>4, <4>5 DEF Holds, Claims
    <3>2. QED  BY <2>3, <2>6, <2>9, <3>1 DEF StillWaits, n
  <2>13. QED  BY <1>8, <2>3, <2>10, <2>11, <2>12
<1>11. QED  BY <1>9, <1>10

LEMMA InsertInRange ==
  ASSUME IInv, InRange, Growing, NEW c \in Callers, Insert(c)
  PROVE  InRange'
<1> DEFINE stack == tasks[c].stack
           top   == Last(stack)
           t     == top.tpl.table
           frame == [top EXCEPT !.step = "inserting"]
           call  == Call("insert", TRUE, t, top.setter, {}, "none")
<1>1. /\ Working(c, "insert") /\ Shape /\ Fine(c) /\ rows' = rows /\ tx' = tx
      /\ calls' = [calls EXCEPT ![c] = call] /\ tasks' = Replace(c, frame)
  BY DEF Insert, IInv, InRange, database
<1>2. stack # <<>> /\ top.step = "insert" /\ DOMAIN top = DOMAIN Frame("any")
  BY <1>1, TopFrame
<1>3. frame.tpl = top.tpl /\ frame.setter = top.setter /\ frame.step = "inserting"
  BY <1>2, FrameFields
<1>4. /\ call.step = "before" /\ call.table = t /\ call.setter = top.setter /\ call.outcome = "none"
  BY DEF Call, NoCall
<1>5. (\A d \in Callers \ {c} : calls'[d] = calls[d]) /\ calls'[c] = call
  BY <1>1 DEF Shape
<1>6. OnlyStack(c) /\ tasks'[c].stack = Append(Front(stack), frame)
  BY <1>1, StackFields DEF Replace
<1> HIDE DEF frame, call
<1>7. Climbing(c)' /\ tasks'[c].stack # <<>> /\ Last(tasks'[c].stack) = frame /\ StillWaits(c)
  <2>1. top = stack[Len(stack)] /\ Len(stack) \in 1..Len(stack)
    BY <1>2, StackFacts
  <2>2. frame.tpl = Last(tasks[c].stack).tpl /\ DOMAIN frame.setter = 1..3 /\ Climbing(c)
    BY <1>1, <1>3, <2>1 DEF Fine, Climbing
  <2>3. QED  BY <1>2, <1>3, <1>6, <2>2, TopInPlace
<1>8. AtWork(c)'
  <2>1. Linked(c, t, top.setter[3])
    BY <1>1, <1>2 DEF Fine, AtWork
  <2>2. View(c)' = View(c)
    BY <1>1 DEF View
  <2> DEFINE key == top.setter[3]
  <2>3. PICK u, k : u = t /\ k = key
    OBVIOUS
  <2>4. Linked(c, u, k)'
    BY <2>1, <2>2, <2>3, KnownGrows
  <2> HIDE DEF top
  <2>5. frame.tpl.table = u /\ calls'[c].table = u /\ calls'[c].setter = frame.setter /\ frame.setter[3] = k
    BY <1>3, <1>4, <1>5, <2>3
  <2>6. QED  BY <1>3, <1>7, <2>4, <2>5 DEF AtWork
<1>9. Yields(c)' /\ Welcome(c)'
  <2>1. Yields(c)'
    BY <1>4, <1>5, SilentYields
  <2>2. Welcome(c)'
    BY <1>1, <1>4, <1>5, <1>6 DEF Fine, Welcome, Unwelcome, OnlyStack
  <2>3. QED  BY <2>1, <2>2
<1>10. Fine(c)' /\ OnlyOf(c) /\ tx'[c].removed = {}
  BY <1>1, <1>5, <1>6, <1>7, <1>8, <1>9 DEF Fine, OnlyOf, OnlyStack, InRange, Ranges
<1>11. QED  BY <1>1, <1>7, <1>10, QuietInRange

LEMMA CreatedInRange ==
  ASSUME IInv, InRange, Growing, NEW c \in Callers, Created(c)
  PROVE  InRange'
<1> DEFINE stack == tasks[c].stack
           top   == Last(stack)
           t     == top.tpl.table
           row   == Only(calls[c].answer)
           frame == [top EXCEPT !.step = "children", !.id = row.id]
           new   == Append(Front(stack), frame)
<1>1. /\ stack # <<>> /\ top.step = "inserting" /\ calls[c].step = "done" /\ Shape /\ Fine(c)
      /\ calls' = [calls EXCEPT ![c] = NoCall] /\ rows' = rows /\ tx' = tx
  BY DEF Created, Working, IInv, InRange, database
<1>2. /\ (\A d \in Callers \ {c} : calls'[d] = calls[d]) /\ calls'[c] = NoCall
      /\ NoCall.step = "none" /\ NoCall.outcome = "none"
      /\ DOMAIN tasks = Callers /\ DOMAIN tasks[c] = DOMAIN Idle
  BY <1>1 DEF Shape, NoCall
<1>3. tx'[c].removed = {} /\ View(c)' = View(c)
  BY <1>1 DEF InRange, Ranges, View
<1>4. CASE calls[c].outcome # "ok"
  <2>1. tasks' = [tasks EXCEPT ![c].stack = <<>>, ![c].step = "settle", ![c].outcome = calls[c].outcome]
    BY <1>4 DEF Created
  <2>2. /\ \A d \in Callers \ {c} : tasks'[d] = tasks[d]
        /\ tasks'[c].stack = <<>> /\ tasks'[c].outcome = calls[c].outcome
    BY <2>1, <1>2, IdleFields
  <2>3. Welcome(c)'
    BY <1>1, <1>2, <2>2 DEF Fine, Welcome, Unwelcome
  <2>4. Fine(c)' /\ StillWaits(c)
    BY <2>2, <2>3, FineAtTheEnd
  <2>5. QED  BY <1>1, <1>2, <1>3, <2>2, <2>4, QuietInRange DEF OnlyOf
<1>5. CASE calls[c].outcome = "ok"
  <2>1. tasks' = [[tasks EXCEPT ![c].stack = new] EXCEPT ![c].made = Append(@, row)]
    BY <1>5 DEF Created, Replace
  <2>2. top = stack[Len(stack)] /\ Len(stack) \in 1..Len(stack) /\ DOMAIN top = DOMAIN Frame("any")
    <3>1. /\ Len(stack) \in Nat \ {0} /\ top = stack[Len(stack)]
          /\ \A i \in 1..Len(stack) : DOMAIN stack[i] = {"tpl", "step", "setter", "child", "id"}
      BY <1>1, StackFacts
    <3>2. Len(stack) \in 1..Len(stack)
      BY <3>1
    <3>3. QED  BY <3>1, <3>2, FrameFields
  <2>3. frame.tpl = top.tpl /\ frame.setter = top.setter /\ frame.step = "children" /\ frame.id = row.id
    BY <2>2, FrameFields
  <2> HIDE DEF row, frame
  <2>4. /\ \A d \in Callers \ {c} : tasks'[d] = tasks[d]
        /\ tasks'[c].stack = new /\ tasks'[c].outcome = tasks[c].outcome
    <3> HIDE DEF new
    <3>1. QED  BY <2>1, <1>2, IdleFields
  <2>5. Climbing(c)' /\ tasks'[c].stack # <<>> /\ Last(tasks'[c].stack) = frame /\ StillWaits(c)
    <3>1. frame.tpl = Last(tasks[c].stack).tpl /\ DOMAIN frame.setter = 1..3 /\ Climbing(c)
      BY <1>1, <2>2, <2>3 DEF Fine, Climbing
    <3>2. frame.setter[1] = top.setter[1] /\ frame.setter[2] = top.setter[2] /\ frame.step = "children"
      BY <2>3
    <3>3. QED  BY <1>1, <2>4, <3>1, <3>2, TopInPlace
  <2>6. Known(c, t, row.id)
    <3>1. HasAnswer(c) /\ calls[c].table = t
      BY <1>1, <1>5 DEF HasAnswer, Finished, Fine, AtWork
    <3>2. calls[c].answer # {} /\ \A r \in calls[c].answer : r \in View(c) /\ Made(r) /\ r.table = t
      BY <1>1, <3>1 DEF Fine, Yields
    <3>3. row \in calls[c].answer
      BY <3>2 DEF row, Only
    <3>4. QED  BY <3>2, <3>3 DEF Known
  <2>7. AtWork(c)'
    <3>1. PICK u, k : u = t /\ k = row.id
      OBVIOUS
    <3>2. Known(c, u, k)'
      BY <1>3, <2>6, <3>1, KnownGrows
    <3> HIDE DEF top
    <3>3. frame.tpl.table = u /\ frame.id = k
      BY <2>3, <3>1
    <3>4. QED  BY <2>3, <2>5, <3>2, <3>3 DEF AtWork
  <2>8. Yields(c)' /\ Welcome(c)'
    <3>1. Yields(c)'
      BY <1>2, SilentYields
    <3>2. Welcome(c)'
      BY <1>1, <1>2, <2>4 DEF Fine, Welcome, Unwelcome
    <3>3. QED  BY <3>1, <3>2
  <2>9. Fine(c)' /\ OnlyOf(c)
    BY <1>2, <2>4, <2>5, <2>7, <2>8 DEF Fine, OnlyOf
  <2>10. QED  BY <1>1, <1>3, <2>5, <2>9, QuietInRange
<1>6. QED  BY <1>4, <1>5

LEMMA ReturnInRange ==
  ASSUME IInv, InRange, Growing, Calm, NEW c \in Callers, Return(c)
  PROVE  InRange'
<1> DEFINE stack == tasks[c].stack
           top   == Last(stack)
           below == Front(stack)
           asker == Last(below)
           n     == Len(stack)
<1>1. UNCHANGED mutationVars /\ Working(c, "children") /\ Shape /\ Fine(c)
  BY DEF Return, IInv, InRange
<1>2. stack # <<>> /\ calls[c].step = "none" /\ top.step = "children"
  BY <1>1, TopFrame
<1>3. /\ (\E S : stack \in Seq(S)) /\ n \in Nat \ {0} /\ top = stack[n]
      /\ \A i \in 1..n : DOMAIN stack[i] = {"tpl", "step", "setter", "child", "id"}
  BY <1>2, StackFacts
<1>4. PICK S : stack \in Seq(S)
  BY <1>3
<1>5. below \in Seq(S) /\ Len(below) = n - 1 /\ \A i \in 1..n-1 : below[i] = stack[i]
  BY <1>2, <1>4, FrontOf
<1>6. rows' = rows /\ tx' = tx /\ calls' = calls /\ View(c)' = View(c) /\ tx'[c].removed = {}
  BY <1>1 DEF mutationVars, View, InRange, Ranges
<1>7. /\ \A i \in 1..n : Keeping(stack[i].tpl) /\ DOMAIN stack[i].setter = 1..3
      /\ \A i \in 1..n-1 : stack[i].step = "insert" /\ stack[i+1].tpl.table = Refers[stack[i].tpl.table].to
  BY <1>1 DEF Fine, Climbing
<1>8. CASE below # <<>>
  <2> DEFINE taken == [asker EXCEPT !.setter[3] = top.id]
             m     == n - 1
             new   == Append(Front(below), taken)
  <2>1. m \in 1..n-1 /\ m \in 1..n /\ m + 1 = n /\ Len(below) = m /\ m \in Nat
    BY <1>3, <1>5, <1>8
  <2>2. asker = stack[m] /\ asker.step = "insert"
    BY <1>5, <1>7, <2>1 DEF Last
  <2>3. tasks' = [tasks EXCEPT ![c].stack = new]
    BY <1>8, <2>2 DEF Return
  <2>4. OnlyStack(c) /\ tasks'[c].stack = new
    <3> HIDE DEF new
    <3>1. QED  BY <1>1, <2>3, StackFields
  <2>5. /\ taken.tpl = asker.tpl /\ taken.step = "insert" /\ taken.setter[1] = asker.setter[1]
        /\ taken.setter[2] = asker.setter[2] /\ taken.setter[3] = top.id /\ DOMAIN taken.setter = 1..3
    <3>1. DOMAIN asker = {"tpl", "step", "setter", "child", "id"} /\ DOMAIN asker.setter = 1..3
      BY <1>3, <1>7, <2>1, <2>2
    <3> HIDE DEF asker, top
    <3>2. QED  BY <2>2, <3>1
  <2> HIDE DEF taken, asker
  <2>6. Len(new) = m /\ new # <<>> /\ Last(new) = taken /\ \A i \in 1..m-1 : new[i] = below[i]
    <3> HIDE DEF below, m
    <3>1. QED  BY <1>5, <1>8, <2>1, TopReplaced
  <2>7. new[m] = taken
    BY <2>6 DEF Last
  <2> HIDE DEF m, new
  <2>8. ASSUME NEW i \in 1..m
        PROVE  /\ new[i].tpl = stack[i].tpl /\ new[i].step = "insert" /\ DOMAIN new[i].setter = 1..3
               /\ new[i].setter[1] = stack[i].setter[1] /\ new[i].setter[2] = stack[i].setter[2]
               /\ i \in 1..n /\ Keeping(stack[i].tpl)
    <3>1. i \in 1..m-1 \/ i = m
      BY <2>1
    <3>2. i \in 1..n-1 /\ i \in 1..n
      BY <2>1
    <3>3. CASE i \in 1..m-1
      BY <1>5, <1>7, <2>6, <3>2, <3>3
    <3>4. CASE i = m
      BY <1>7, <2>2, <2>5, <2>7, <3>2, <3>4
    <3>5. QED  BY <3>1, <3>3, <3>4
  <2>9. Climbing(c)'
    <3>1. ASSUME NEW i \in 1..m-1 PROVE new[i].step = "insert" /\ new[i+1].tpl.table = Refers[new[i].tpl.table].to
      <4>1. i \in 1..m /\ i + 1 \in 1..m /\ i \in 1..n-1
        BY <2>1
      <4>2. QED  BY <1>7, <2>8, <4>1
    <3>2. ASSUME NEW i \in 1..m PROVE Keeping(new[i].tpl) /\ DOMAIN new[i].setter = 1..3
      BY <2>8, <3>2
    <3>3. Len(tasks'[c].stack) = m /\ tasks'[c].stack = new
      BY <2>4, <2>6
    <3>4. QED  BY <3>1, <3>2, <3>3 DEF Climbing, Keeping
  <2>10. AtWork(c)'
    <3>1. Known(c, top.tpl.table, top.id)
      BY <1>1, <1>2 DEF Fine, AtWork
    <3>2. top.tpl.table = Refers[asker.tpl.table].to
      BY <1>3, <1>7, <2>1, <2>2
    <3> DEFINE u == asker.tpl.table
    <3>3. PICK v, k : v = u /\ k = top.id
      OBVIOUS
    <3>4. Linked(c, v, k)'
      BY <1>6, <3>1, <3>2, <3>3, KnownGrows DEF Linked
    <3> HIDE DEF top
    <3>5. taken.tpl.table = v /\ taken.setter[3] = k
      BY <2>5, <3>3
    <3>6. QED  BY <2>4, <2>5, <2>6, <3>4, <3>5 DEF AtWork
  <2>11. StillWaits(c)
    <3>1. ASSUME NEW i \in 1..m, NEW v, Holds(c, i, v)' PROVE Holds(c, i, v)
      <4>1. stack[i].step = "insert"
        <5>1. i \in 1..n-1
          BY <2>1
        <5>2. QED  BY <1>7, <5>1
      <4>2. v \in {stack[i].setter[1], stack[i].setter[2]}
        BY <2>4, <2>8, <3>1 DEF Holds, Claims
      <4>3. QED  BY <4>1, <4>2 DEF Holds, Claims
    <3>2. QED  BY <2>4, <2>6, <2>8, <3>1 DEF StillWaits
  <2>12. Yields(c)' /\ Welcome(c)'
    BY <1>1, <1>2, <1>6, <2>4, SilentYields DEF Fine, Welcome, OnlyStack
  <2>13. Fine(c)' /\ OnlyOf(c)
    BY <1>6, <2>4, <2>9, <2>10, <2>12 DEF Fine, OnlyOf, OnlyStack
  <2>14. QED  BY <1>6, <2>11, <2>13, QuietInRange
<1>9. CASE below = <<>>
  <2> DEFINE tpl   == tasks[c].job.template[1]
             frame == Frame(tpl)
             one   == <<frame>>
  <2>1. tasks[c].outcome = "none" /\ tasks[c].step # "idle" /\ tasks[c].job \in Jobs /\ tasks[c].job.template # <<>>
    BY <1>2, FrameAtWork
  <2>2. DOMAIN tasks = Callers /\ DOMAIN tasks[c] = DOMAIN Idle
    BY <1>1 DEF Shape
  <2>3. /\ \A d \in Callers \ {c} : tasks'[d] = tasks[d]
        /\ \/ tasks'[c].stack = one /\ tasks'[c].outcome = "none"
           \/ tasks'[c].stack = <<>> /\ tasks'[c].outcome = "ok"
    <3>1. tasks' = [tasks EXCEPT ![c].left = @ - 1, ![c].results = Append(@, top.id),
                       ![c].stack = IF tasks[c].left > 1 THEN one ELSE <<>>,
                       ![c].step = IF tasks[c].left > 1 THEN @ ELSE "settle",
                       ![c].outcome = IF tasks[c].left > 1 THEN @ ELSE "ok"]
      BY <1>9 DEF Return
    <3> HIDE DEF top, one
    <3>2. QED  BY <2>1, <2>2, <3>1, IdleFields
  <2>4. Welcome(c)'
    BY <1>1, <1>6, <2>3 DEF Fine, Welcome, Unwelcome
  <2>5. CASE tasks'[c].stack = <<>>
    <3>1. Fine(c)' /\ StillWaits(c)
      BY <2>4, <2>5, FineAtTheEnd
    <3>2. QED  BY <1>6, <2>3, <3>1, QuietInRange DEF OnlyOf
  <2>6. CASE tasks'[c].stack = one
    <3>1. Keeping(tpl)
      BY <2>1, SequencedKeeps DEF Calm
    <3>2. frame.tpl = tpl /\ frame.step = "id" /\ DOMAIN frame.setter = 1..3
      BY DEF Frame
    <3> HIDE DEF frame
    <3>3. Len(one) = 1 /\ one[1] = frame /\ Last(one) = frame
      BY DEF Last
    <3> HIDE DEF tpl, one
    <3>4. Climbing(c)' /\ AtWork(c)' /\ StillWaits(c)
      BY <2>6, <3>1, <3>2, <3>3 DEF Climbing, AtWork, StillWaits, Holds, Claims, Keeping
    <3>5. Yields(c)'
      BY <1>2, <1>6, SilentYields
    <3>6. Fine(c)' /\ OnlyOf(c)
      BY <1>6, <2>3, <2>4, <3>4, <3>5 DEF Fine, OnlyOf
    <3>7. QED  BY <1>6, <3>4, <3>6, QuietInRange
  <2>7. QED  BY <2>3, <2>5, <2>6
<1>10. QED  BY <1>8, <1>9

\* What a sequence gives out next is in no row and in no frame.
LEMMA DrawnFresh ==
  ASSUME Drawing, InRange, RangesApart, NEW t \in Tables, NEW base \in Base(t), NEW first,
         first = base + seq[t].next, seq'[t].base = base, seq'[t].next = seq[t].next + 1
  PROVE  Given(t, first)' /\ ~Given(t, first) /\ \A r \in Everything : r.table = t => first \notin {r.id, r.label}
<1>1. seq[t].next \in Nat /\ base \in Bases /\ base \in Nat /\ (seq[t].base # -1 => base = seq[t].base)
  BY BasesAssumption DEF Drawing, Base
<1>2. Given(t, first)'
  BY <1>1 DEF Given
<1>3. ~Given(t, first)
  <2>1. -1 \notin Bases
    BY BasesAssumption
  <2>2. QED  BY <1>1, <2>1 DEF Given
<1>4. ASSUME NEW r \in Everything, r.table = t, first \in {r.id, r.label} PROVE FALSE
  <2>1. CASE r \in Existing
    <3>1. r.id < base /\ r.label < base
      BY <1>1, <2>1 DEF RangesApart
    <3>2. QED  BY <1>1, <1>4, <3>1
  <2>2. CASE Made(r)
    BY <1>3, <1>4, <2>2 DEF Made
  <2>3. QED  BY <1>4, <2>1, <2>2 DEF InRange, Ranges
<1>5. QED  BY <1>2, <1>3, <1>4

LEMMA BuildInRange ==
  ASSUME IInv, InRange, Growing, Drawing, RangesApart, NEW c \in Callers, NEW column \in Columns, Build(c, column)
  PROVE  InRange'
<1> DEFINE stack == tasks[c].stack
           top   == Last(stack)
           n     == Len(stack)
<1>1. UNCHANGED mutationVars /\ Working(c, column) /\ Shape /\ Fine(c) /\ Free
  BY DEF Build, IInv, InRange
<1>2. stack # <<>> /\ calls[c].step = "none" /\ top.step = column /\ DOMAIN top = DOMAIN Frame("any")
  BY <1>1, TopFrame DEF Columns
<1>3. n \in Nat \ {0} /\ top = stack[n] /\ n \in 1..n
  <2>1. n \in Nat \ {0} /\ top = stack[n]
    BY <1>2, StackFacts
  <2>2. QED  BY <2>1
<1>4. PICK t : t = top.tpl.table
  OBVIOUS
<1>5. Keeping(top.tpl) /\ t \in Tables /\ top.tpl[column].how = "auto"
  <2>1. Keeping(top.tpl)
    BY <1>1, <1>3 DEF Fine, Climbing
  <2>2. QED  BY <1>4, <2>1 DEF Keeping, Columns
<1>6. PICK base \in Base(t) :
        /\ \E drawn : seq' = [seq EXCEPT ![t] = [base |-> base, next |-> @.next + 1, drawn |-> drawn]]
        /\ tasks' = Replace(c, Filled(top, column, base + seq[t].next))
  <2> HIDE DEF top
  <2>1. PICK base \in Base(t) :
        /\ seq' = Drawn(t, top.tpl[column], base)
        /\ tasks' = Replace(c, Filled(top, column, base + seq[t].next))
    BY <1>4 DEF Build, top
  <2>2. seq' = [seq EXCEPT ![t] = [base |-> base, next |-> @.next + 1,
                                   drawn |-> Append(seq[t].drawn, base + seq[t].next)]]
    BY <1>5, <2>1 DEF Drawn
  <2>3. QED  BY <2>1, <2>2
<1>7. PICK first : first = base + seq[t].next
  OBVIOUS
<1> DEFINE frame == Filled(top, column, first)
\* The frame holds the value drawn, and what it held before.
<1>8. /\ frame.tpl = top.tpl /\ DOMAIN frame.setter = 1..3
      /\ \/ frame.step = "label" /\ frame.setter[1] = first
         \/ /\ frame.step = "parent" /\ frame.setter[3] = Unset /\ top.step = "label"
            /\ frame.setter[1] = top.setter[1] /\ frame.setter[2] = first
  <2>1. /\ column = "id" => Resolved(top.tpl.id, first) = first
        /\ column = "label" => Resolved(top.tpl.label, first) = first
        /\ top.tpl.parent.state # "existing"
    BY <1>5 DEF Resolved, Keeping
  <2> HIDE DEF top
  <2>2. QED  BY <1>2, <2>1, FilledFrame DEF Columns
<1>9. OnlyStack(c) /\ tasks'[c].stack = Append(Front(stack), frame)
  <2>1. tasks' = Replace(c, frame)
    BY <1>6, <1>7
  <2> HIDE DEF frame
  <2>2. QED  BY <1>1, <2>1, StackFields DEF Replace
<1> HIDE DEF frame
<1>10. Climbing(c)' /\ tasks'[c].stack # <<>> /\ Last(tasks'[c].stack) = frame
  <2>1. frame.tpl = Last(tasks[c].stack).tpl /\ DOMAIN frame.setter = 1..3 /\ Climbing(c)
    BY <1>1, <1>8 DEF Fine
  <2>2. QED  BY <1>2, <1>9, <2>1, TopInPlace
<1>11. /\ Len(tasks'[c].stack) = n /\ tasks'[c].stack[n] = frame
       /\ \A i \in 1..n-1 : tasks'[c].stack[i] = stack[i]
  <2>1. PICK S : stack \in Seq(S)
    BY <1>2, StackFacts
  <2>2. /\ Len(tasks'[c].stack) = n /\ \A i \in 1..n-1 : tasks'[c].stack[i] = stack[i]
    <3> DEFINE new == Append(Front(stack), frame)
    <3>1. Len(new) = Len(stack) /\ \A i \in 1..Len(stack)-1 : new[i] = stack[i]
      <4> HIDE DEF stack
      <4>1. QED  BY <1>2, <2>1, TopReplaced
    <3>2. tasks'[c].stack = new
      BY <1>9
    <3> HIDE DEF new
    <3>3. QED  BY <3>1, <3>2
  <2>3. QED  BY <1>10, <2>2 DEF Last
<1>12. Given(t, first)' /\ ~Given(t, first) /\ \A r \in Everything : r.table = t => first \notin {r.id, r.label}
  <2>1. seq'[t].base = base /\ seq'[t].next = seq[t].next + 1
    BY <1>5, <1>6 DEF Drawing
  <2>2. QED  BY <1>5, <1>7, <2>1, DrawnFresh
<1>13. Everything' = Everything /\ tx' = tx /\ calls' = calls /\ rows' = rows
  BY <1>1 DEF mutationVars, Everything
<1> DEFINE Newest(d, i, v) == d = c /\ i = n /\ v = first
<1> HIDE DEF n, stack, top
<1>14. ASSUME NEW d \in Callers, NEW i \in 1..Len(tasks'[d].stack), NEW v, Holds(d, i, v)', ~Newest(d, i, v)
       PROVE  /\ i \in 1..Len(tasks[d].stack) /\ Holds(d, i, v)
              /\ tasks'[d].stack[i].tpl = tasks[d].stack[i].tpl
  <2>1. CASE d = c /\ i = n
    <3>1. tasks'[c].stack[n] = frame /\ tasks[c].stack[n] = top /\ n \in 1..Len(tasks[c].stack)
      BY <1>3, <1>11 DEF n, stack
    <3>2. frame.step = "parent" /\ top.step = "label" /\ frame.setter[1] = top.setter[1] /\ v = frame.setter[1]
      BY <1>8, <1>14, <2>1, <3>1 DEF Holds, Claims
    <3>3. QED  BY <1>8, <2>1, <3>1, <3>2 DEF Holds
  <2>2. CASE d = c /\ i # n
    <3>1. i \in 1..n /\ i \in 1..n-1
      BY <1>3, <1>11, <1>14, <2>2
    <3>2. tasks'[c].stack[i] = tasks[c].stack[i] /\ i \in 1..Len(tasks[c].stack)
      BY <1>11, <3>1 DEF n, stack
    <3>3. QED  BY <1>13, <1>14, <2>2, <3>2 DEF Holds, Claims, Ahead
  <2>3. CASE d # c
    BY <1>9, <1>13, <1>14, <2>3 DEF OnlyStack, Holds, Claims, Ahead
  <2>4. QED  BY <2>1, <2>2, <2>3
<1>15. ASSUME NEW d \in Callers, NEW i \in 1..Len(tasks'[d].stack), NEW v, Holds(d, i, v)'
       PROVE  /\ Waiting(tasks[d].stack[i].tpl.table, v)'
              /\ ~Newest(d, i, v) => ~(tasks'[d].stack[i].tpl.table = t /\ v = first)
  <2>1. CASE Newest(d, i, v)
    <3>1. tasks'[d].stack[i].tpl.table = t
      BY <1>4, <1>8, <1>11, <2>1
    <3>2. Waiting(t, first)'
      BY <1>12, <1>13 DEF Waiting
    <3>3. QED  BY <2>1, <3>1, <3>2
  <2>2. CASE ~Newest(d, i, v)
    <3>1. PICK u : u = tasks[d].stack[i].tpl.table
      OBVIOUS
    <3>2. Waiting(u, v) /\ tasks'[d].stack[i].tpl.table = u
      BY <1>1, <1>14, <1>15, <2>2, <3>1 DEF Free
    <3>3. ~(u = t /\ v = first)
      BY <1>12, <3>2 DEF Waiting
    <3>4. Waiting(u, v)'
      BY <1>13, <3>2 DEF Waiting, Growing
    <3>5. QED  BY <3>2, <3>3, <3>4
  <2>3. QED  BY <2>1, <2>2
<1>16. Free'
  <2>1. ASSUME NEW v, NEW d \in Callers, NEW i \in 1..Len(tasks'[d].stack), Holds(d, i, v)',
               NEW e \in Callers, NEW j \in 1..Len(tasks'[e].stack), Holds(e, j, v)',
               tasks'[e].stack[j].tpl.table = tasks'[d].stack[i].tpl.table
        PROVE  d = e /\ i = j
    <3>1. tasks'[c].stack[n].tpl.table = t
      BY <1>4, <1>8, <1>11
    <3>2. Newest(d, i, v) <=> Newest(e, j, v)
      BY <1>15, <2>1, <3>1
    <3>3. CASE ~Newest(d, i, v)
      <4>1. /\ i \in 1..Len(tasks[d].stack) /\ Holds(d, i, v) /\ tasks'[d].stack[i].tpl = tasks[d].stack[i].tpl
            /\ j \in 1..Len(tasks[e].stack) /\ Holds(e, j, v) /\ tasks'[e].stack[j].tpl = tasks[e].stack[j].tpl
        BY <1>14, <2>1, <3>2, <3>3
      <4>2. QED  BY <1>1, <2>1, <4>1 DEF Free
    <3>4. QED  BY <3>2, <3>3
  <2>2. QED  BY <1>15, <2>1 DEF Free
<1>17. Fine(c)'
  <2>1. AtWork(c)'
    BY <1>8, <1>10 DEF AtWork
  <2>2. Yields(c)'
    BY <1>2, <1>13, SilentYields
  <2>3. Welcome(c)'
    BY <1>1, <1>9, <1>13 DEF Fine, Welcome, OnlyStack
  <2>4. QED  BY <1>10, <2>1, <2>2, <2>3 DEF Fine
<1>18. ASSUME NEW d \in Callers \ {c} PROVE Fine(d)'
  <2>1. View(d) \subseteq View(d)'
    BY <1>13 DEF View
  <2>2. QED  BY <1>9, <1>13, <2>1, FineElsewhere DEF InRange, OnlyStack
<1>19. Ranges'
  BY <1>13, MadeGrows DEF InRange, Ranges
<1>20. QED  BY <1>16, <1>17, <1>18, <1>19 DEF InRange

\* A template that keeps to its sequences has no children to create, and a job
\* without a call has none to answer.
LEMMA NoChild ==
  ASSUME IInv, InRange, Calm, NEW c \in Callers
  PROVE  ~Child(c) /\ ~Answered(c)
<1>1. ASSUME Child(c) PROVE FALSE
  <2> DEFINE top == Last(tasks[c].stack)
  <2>1. tasks[c].stack # <<>> /\ top.child \in DOMAIN top.tpl.children
    BY <1>1 DEF Child, Working
  <2>2. Len(tasks[c].stack) \in 1..Len(tasks[c].stack) /\ top = tasks[c].stack[Len(tasks[c].stack)]
    <3>1. Len(tasks[c].stack) \in Nat \ {0} /\ top = tasks[c].stack[Len(tasks[c].stack)]
      BY <2>1, StackFacts
    <3>2. QED  BY <3>1
  <2>3. Climbing(c)
    BY DEF InRange, Fine
  <2>4. top.tpl.children = <<>>
    BY <2>2, <2>3 DEF Climbing, Keeping
  <2>5. QED  BY <2>1, <2>4
<1>2. ASSUME Answered(c) PROVE FALSE
  <2>1. tasks[c].step = "working" /\ tasks[c].stack = <<>>
    BY <1>2 DEF Answered
  <2>2. tasks[c].job.template # <<>>
    BY <2>1 DEF Calm
  <2>3. Stacked(c)
    BY <2>1, <2>2 DEF IInv, Own, Sequel
  <2>4. QED  BY <2>1, <2>3 DEF Stacked
<1>3. QED  BY <1>1, <1>2

LEMMA StartInRange ==
  ASSUME IInv, InRange, Growing, Calm', NEW c \in Callers, NEW job \in Jobs, NEW atomic \in BOOLEAN,
         Start(c, job, atomic)
  PROVE  InRange'
<1> DEFINE stack == IF job.template = <<>> THEN <<>> ELSE <<Frame(job.template[1])>>
           task  == [Idle EXCEPT !.step = "working", !.job = job, !.atomic = atomic, !.left = job.times,
                                 !.stack = stack]
           call  == IF job.call = <<>> THEN NoCall ELSE job.call[1]
<1>1. /\ tasks[c].step = "idle" /\ Shape
      /\ tasks' = [tasks EXCEPT ![c] = task] /\ calls' = [calls EXCEPT ![c] = call]
      /\ tx' = [tx EXCEPT ![c].open = atomic] /\ rows' = rows
  BY DEF Start, IInv
<1>2. task.job = job /\ task.step = "working" /\ task.stack = stack /\ task.outcome = "none"
  <2> HIDE DEF stack
  <2>1. QED  BY DEF Idle
<1> HIDE DEF task, call, stack
<1>3. /\ (\A d \in Callers \ {c} : tasks'[d] = tasks[d]) /\ tasks'[c] = task
      /\ (\A d \in Callers \ {c} : calls'[d] = calls[d]) /\ calls'[c] = call
  BY <1>1 DEF Shape
<1>4. (\A d \in Callers \ {c} : tx'[d] = tx[d]) /\ tx'[c].added = tx[c].added /\ tx'[c].removed = tx[c].removed
  <2>1. DOMAIN tx = Callers /\ DOMAIN tx[c] = {"open", "added", "removed", "audit"}
    BY <1>1 DEF Shape
  <2>2. QED  BY <1>1, <2>1
<1>5. job.template # <<>> /\ Sequenced(job.template[1])
  BY <1>2, <1>3 DEF Calm
<1>6. call = NoCall /\ NoCall.step = "none" /\ NoCall.outcome = "none"
  <2>1. job.call = <<>>
    BY <1>5, JobsAssumption
  <2>2. QED  BY <2>1 DEF call, NoCall
<1> DEFINE tpl   == job.template[1]
           frame == Frame(tpl)
           one   == <<frame>>
<1>7. Keeping(tpl)
  BY <1>5, SequencedKeeps
<1>8. frame.tpl = tpl /\ frame.step = "id" /\ DOMAIN frame.setter = 1..3 /\ stack = one
  BY <1>5 DEF Frame, stack
<1> HIDE DEF frame
<1>9. Len(one) = 1 /\ one[1] = frame /\ Last(one) = frame
  BY DEF Last
<1> HIDE DEF tpl, one
<1>10. Climbing(c)' /\ AtWork(c)' /\ StillWaits(c)
  <2>1. tasks'[c].stack = one
    BY <1>2, <1>3, <1>8
  <2>2. PICK new : new = tasks'[c].stack
    OBVIOUS
  <2>3. /\ Len(new) = 1 /\ Last(new) = frame /\ new[1] = frame
        /\ frame.tpl = tpl /\ frame.step = "id" /\ DOMAIN frame.setter = 1..3
    BY <1>8, <1>9, <2>1, <2>2
  <2>4. Climbing(c)'
    BY <1>7, <2>2, <2>3 DEF Climbing, Keeping
  <2>5. AtWork(c)'
    BY <2>2, <2>3 DEF AtWork
  <2>6. StillWaits(c)
    BY <2>2, <2>3 DEF StillWaits, Holds, Claims
  <2>7. QED  BY <2>4, <2>5, <2>6
<1>11. Yields(c)'
  BY <1>3, <1>6, SilentYields
<1>12. Welcome(c)'
  BY <1>2, <1>3, <1>6 DEF Welcome, Unwelcome
<1>13. Fine(c)' /\ OnlyOf(c) /\ tx'[c].removed = {}
  BY <1>3, <1>4, <1>10, <1>11, <1>12 DEF Fine, OnlyOf, InRange, Ranges
<1>14. QED  BY <1>1, <1>4, <1>10, <1>13, QuietInRange

LEMMA SettleInRange ==
  ASSUME IInv, InRange, Growing, NEW c \in Callers, Settle(c)
  PROVE  InRange'
<1>1. /\ tasks[c].step = "settle" /\ Shape /\ Fine(c) /\ tx' = [tx EXCEPT ![c] = NoTx] /\ calls' = calls
      /\ DOMAIN tasks = Callers /\ DOMAIN tasks[c] = DOMAIN Idle
  BY DEF Settle, IInv, InRange, Shape
<1>2. tasks[c].stack = <<>>
  BY <1>1 DEF IInv, Own, Sequel
<1>3. /\ (\A d \in Callers \ {c} : tx'[d] = tx[d]) /\ tx'[c].added = {} /\ tx'[c].removed = {}
  BY <1>1 DEF Shape, NoTx
<1>4. /\ \A d \in Callers \ {c} : tasks'[d] = tasks[d]
      /\ tasks'[c].stack = <<>> /\ tasks'[c].outcome \in {tasks[c].outcome, "failed"}
  BY <1>1, <1>2, IdleFields DEF Settle
<1>5. rows \subseteq rows' /\ rows' \subseteq rows \cup tx[c].added
  <2>1. View(c) = rows \cup tx[c].added
    BY DEF View, InRange, Ranges
  <2>2. rows' = View(c) \/ rows' = rows
    BY DEF Settle, Commit
  <2>3. QED  BY <2>1, <2>2
<1>6. \A r \in Everything' : r \in Everything
  BY <1>3, <1>5 DEF Everything
<1>7. Welcome(c)'
  BY <1>1, <1>4 DEF Fine, Welcome, Unwelcome
<1>8. Fine(c)' /\ StillWaits(c)
  BY <1>4, <1>7, FineAtTheEnd
<1>9. QED  BY <1>1, <1>3, <1>4, <1>5, <1>6, <1>8, StaysInRange DEF OnlyOf, Placing

\* The insert of a creation in progress.
LEMMA Creating ==
  ASSUME IInv, InRange, Calm, NEW c \in Callers, InProgress(c)
  PROVE  /\ tasks[c].stack # <<>> /\ Last(tasks[c].stack).step = "inserting"
         /\ calls[c].kind = "insert" /\ calls[c].rows /\ calls[c].mod = "none"
         /\ calls[c].table = Last(tasks[c].stack).tpl.table /\ tasks[c].outcome = "none"
<1>1. tasks[c].step = "working" /\ tasks[c].outcome = "none"
  BY Busy
<1>2. tasks[c].job.template # <<>>
  BY <1>1 DEF Calm
<1>3. Stacked(c)
  BY <1>1, <1>2 DEF IInv, Own, Sequel
<1>4. tasks[c].stack # <<>> /\ Last(tasks[c].stack).step = "inserting"
  BY <1>3 DEF Stacked, InProgress
<1>5. calls[c].kind = "insert" /\ calls[c].rows /\ calls[c].mod = "none"
  BY <1>3 DEF Stacked, InProgress
<1>6. AtWork(c)
  BY DEF InRange, Fine
<1>7. QED  BY <1>1, <1>4, <1>5, <1>6 DEF AtWork

\* A step of that insert which writes no row.
LEMMA CallInRange ==
  ASSUME IInv, InRange, Growing, Calm, NEW c \in Callers, InProgress(c), tasks' = tasks,
         \A d \in Callers \ {c} : calls'[d] = calls[d],
         calls'[c].table = calls[c].table, calls'[c].outcome \notin Unwelcome,
         Ahead(c)' => Ahead(c) /\ calls'[c].setter = calls[c].setter,
         rows' = rows, \A d \in Callers : tx'[d].added = tx[d].added /\ tx'[d].removed = tx[d].removed,
         \A d \in Callers \ {c} : tx'[d] = tx[d], Yields(c)'
  PROVE  InRange'
<1> DEFINE top == Last(tasks[c].stack)
<1>1. /\ Fine(c) /\ tasks[c].stack # <<>> /\ top.step = "inserting" /\ calls[c].table = top.tpl.table
      /\ tasks[c].outcome = "none"
  BY Creating DEF InRange
<1>2. Climbing(c)' /\ Welcome(c)'
  BY <1>1 DEF Fine, Climbing, Welcome, Unwelcome
<1>3. AtWork(c)'
  <2>1. PICK t, key : t = top.tpl.table /\ key = top.setter[3]
    OBVIOUS
  <2>2. Ahead(c) => Linked(c, t, key) /\ calls[c].setter = top.setter
    BY <1>1, <2>1 DEF Fine, AtWork
  <2>3. View(c) \subseteq View(c)'
    BY DEF View
  <2>4. Linked(c, t, key) => Linked(c, t, key)'
    BY <2>3, KnownGrows
  <2>5. Last(tasks'[c].stack) = top
    OBVIOUS
  <2> HIDE DEF top
  <2>6. QED  BY <1>1, <2>1, <2>2, <2>4, <2>5 DEF AtWork, Ahead
<1>4. StillWaits(c)
  BY DEF StillWaits, Holds, Claims
<1>5. Fine(c)' /\ OnlyOf(c) /\ tx'[c].removed = {}
  BY <1>2, <1>3 DEF Fine, OnlyOf, InRange, Ranges
<1>6. QED  BY <1>4, <1>5, QuietInRange

\* What an answer says of a row holds as long as the row is there.
LEMMA YieldsStays ==
  ASSUME NEW c, Yields(c), Growing, tasks' = tasks, View(c)' = View(c),
         calls'[c].table = calls[c].table, calls'[c].effect = calls[c].effect,
         HasEffect(c)' => HasEffect(c),
         HasAnswer(c)' => /\ calls'[c].answer # {}
                          /\ \A r \in calls'[c].answer : r \in View(c) /\ Made(r) /\ r.table = calls[c].table
  PROVE  Yields(c)'
  BY MadeGrows DEF Yields

\* The values that wait in the call's frame.
LEMMA WaitsInCall ==
  ASSUME IInv, InRange, Calm, RangesApart, NEW c \in Callers, calls[c].step \in {"before", "statement"}
  PROVE  \E t, x, y, p :
           /\ calls[c].table = t /\ calls[c].setter[1] = x /\ calls[c].setter[2] = y /\ calls[c].setter[3] = p
           /\ Linked(c, t, p)
           /\ \A v \in {x, y} :
                /\ Given(t, v) /\ v \in Nat \ {0}
                /\ \A r \in Everything : r.table = t => v \notin {r.id, r.label}
           /\ LET n == Len(tasks[c].stack)
              IN  /\ n \in 1..n /\ Holds(c, n, x) /\ Holds(c, n, y)
                  /\ tasks[c].stack[n].step = "inserting" /\ tasks[c].stack[n].tpl.table = t
<1> DEFINE stack == tasks[c].stack
           n     == Len(stack)
           top   == Last(stack)
<1>1. InProgress(c) /\ Ahead(c)
  BY DEF InProgress, Ahead
<1>2. stack # <<>> /\ top.step = "inserting" /\ calls[c].table = top.tpl.table
  BY <1>1, Creating
<1>3. n \in 1..n /\ top = stack[n]
  <2>1. n \in Nat \ {0} /\ top = stack[n]
    BY <1>2, StackFacts
  <2>2. QED  BY <2>1
<1>4. calls[c].setter = top.setter /\ Linked(c, top.tpl.table, top.setter[3])
  BY <1>1, <1>2 DEF InRange, Fine, AtWork
<1>5. PICK t, x, y, p : t = top.tpl.table /\ x = top.setter[1] /\ y = top.setter[2] /\ p = top.setter[3]
  OBVIOUS
<1>6. Holds(c, n, x) /\ Holds(c, n, y)
  BY <1>1, <1>2, <1>3, <1>5 DEF Holds, Claims
<1>7. Waiting(t, x) /\ Waiting(t, y)
  BY <1>3, <1>5, <1>6 DEF InRange, Free
<1>8. ASSUME NEW v, Waiting(t, v) PROVE v \in Nat \ {0}
  <2>1. seq[t].base \in Bases /\ seq[t].base \in Nat /\ seq[t].base > 0
    BY <1>8, BasesAssumption DEF Waiting, Given, RangesApart
  <2>2. v \in seq[t].base .. seq[t].base + seq[t].next - 1
    BY <1>8 DEF Waiting, Given
  <2>3. QED  BY <2>1, <2>2
<1>9. Linked(c, t, p)
  BY <1>4, <1>5
<1> HIDE DEF top, stack
<1>10. calls[c].table = t /\ calls[c].setter[1] = x /\ calls[c].setter[2] = y /\ calls[c].setter[3] = p
  BY <1>2, <1>4, <1>5
<1>11. stack[n].tpl.table = t /\ stack[n].step = "inserting"
  BY <1>2, <1>3, <1>5
<1>12. \A v \in {x, y} : /\ Given(t, v) /\ v \in Nat \ {0}
                         /\ \A r \in Everything : r.table = t => v \notin {r.id, r.label}
  BY <1>7, <1>8 DEF Waiting
<1>13. QED  BY <1>3, <1>6, <1>9, <1>10, <1>11, <1>12 DEF stack

LEMMA BeforeHookInRange ==
  ASSUME IInv, InRange, Growing, Calm, RangesApart, NEW c \in Callers, BeforeHook(c), UNCHANGED <<seq, tasks>>
  PROVE  InRange'
<1>1. /\ InProgress(c) /\ Shape /\ calls[c].step = "before" /\ rows' = rows /\ tx' = tx /\ tasks' = tasks /\ Ahead(c)
  BY DEF BeforeHook, InProgress, IInv, database, Ahead
<1>2. CASE Fail /\ Ends(c, "failed")
  <2>1. /\ \A d \in Callers \ {c} : calls'[d] = calls[d]
        /\ calls'[c].step = "done" /\ calls'[c].outcome = "failed" /\ calls'[c].table = calls[c].table
    BY <1>1, <1>2 DEF Ends, Shape, NoCall
  <2>2. Yields(c)'
    BY <2>1 DEF Yields, HasEffect, HasAnswer, Finished
  <2>3. QED  BY <1>1, <2>1, <2>2, CallInRange DEF Unwelcome, Ahead
<1>3. CASE calls' = [calls EXCEPT ![c].step = "statement", ![c].setter = Rewritten(c), ![c].key = Rewritten(c)[1]]
  <2>1. calls[c].setter[1] # Unset /\ calls[c].setter[2] # Unset
    BY <1>1, WaitsInCall DEF Unset
  <2>2. Rewritten(c) = calls[c].setter
    BY <2>1 DEF Rewritten
  <2>3. /\ \A d \in Callers \ {c} : calls'[d] = calls[d]
        /\ calls'[c].step = "statement" /\ calls'[c].outcome = calls[c].outcome /\ calls'[c].table = calls[c].table
        /\ calls'[c].setter = calls[c].setter
    BY <1>1, <1>3, <2>2 DEF Shape, NoCall
  <2>4. Yields(c)'
    BY <2>3, SilentYields
  <2>5. calls[c].outcome \notin Unwelcome
    BY DEF InRange, Fine, Welcome
  <2>6. QED  BY <1>1, <2>3, <2>4, <2>5, CallInRange
<1>4. QED  BY <1>2, <1>3 DEF BeforeHook

LEMMA StatementFailsInRange ==
  ASSUME IInv, InRange, Growing, Calm, NEW c \in Callers, StatementFails(c), UNCHANGED <<seq, tasks>>
  PROVE  InRange'
<1>1. /\ InProgress(c) /\ Shape /\ rows' = rows /\ tx' = tx /\ tasks' = tasks
  BY DEF StatementFails, InProgress, IInv, database
<1>2. PICK outcome \in {"incomplete", "lock timeout", "failed"} : Ends(c, outcome)
  BY DEF StatementFails
<1>3. /\ \A d \in Callers \ {c} : calls'[d] = calls[d]
      /\ calls'[c].step = "done" /\ calls'[c].outcome = outcome /\ calls'[c].table = calls[c].table
  BY <1>1, <1>2 DEF Ends, Shape, NoCall
<1>4. outcome # "ok" /\ outcome \notin Unwelcome
  BY DEF Unwelcome
<1>5. Yields(c)'
  BY <1>3, <1>4 DEF Yields, HasEffect, HasAnswer, Finished
<1>6. ~Ahead(c)'
  BY <1>3 DEF Ahead
<1>7. QED  BY <1>1, <1>3, <1>4, <1>5, <1>6, CallInRange

LEMMA ReadBackInRange ==
  ASSUME IInv, InRange, Growing, Calm, NEW c \in Callers, ReadBack(c), UNCHANGED <<seq, tasks>>
  PROVE  InRange'
<1> DEFINE found == {r \in View(c) : r.table = calls[c].table /\ r.id = calls[c].key}
<1>1. /\ InProgress(c) /\ Shape /\ calls[c].step = "read back" /\ rows' = rows /\ tx' = tx /\ tasks' = tasks
  BY DEF ReadBack, InProgress, IInv, database
<1>2. CASE Ends(c, "row not found") \/ Ends(c, "failed")
  <2>1. PICK outcome \in {"row not found", "failed"} : Ends(c, outcome)
    BY <1>2
  <2>2. /\ \A d \in Callers \ {c} : calls'[d] = calls[d]
        /\ calls'[c].step = "done" /\ calls'[c].outcome = outcome /\ calls'[c].table = calls[c].table
    BY <1>1, <2>1 DEF Ends, Shape, NoCall
  <2>3. outcome # "ok" /\ outcome \notin Unwelcome
    BY DEF Unwelcome
  <2>4. Yields(c)'
    BY <2>2, <2>3 DEF Yields, HasEffect, HasAnswer, Finished
  <2>5. ~Ahead(c)'
    BY <2>2 DEF Ahead
  <2>6. QED  BY <1>1, <2>2, <2>3, <2>4, <2>5, CallInRange
<1>3. CASE found # {} /\ calls' = [calls EXCEPT ![c].step = "after", ![c].answer = found, ![c].told = 1]
  <2>1. /\ \A d \in Callers \ {c} : calls'[d] = calls[d]
        /\ calls'[c].step = "after" /\ calls'[c].outcome = calls[c].outcome /\ calls'[c].table = calls[c].table
        /\ calls'[c].effect = calls[c].effect /\ calls'[c].answer = found
    <3> HIDE DEF found
    <3>1. QED  BY <1>1, <1>3, ZenonT(60) DEF Shape, NoCall
  <2>2. HasEffect(c) /\ Fine(c) /\ Right(c) /\ View(c)' = View(c)
    BY <1>1 DEF HasEffect, InRange, IInv, Own, View
  <2>3. PICK r \in calls[c].effect : r.id = calls[c].key
    <3>1. calls[c].kind = "insert" /\ calls[c].rows /\ calls[c].mod = "none"
      BY <1>1, Creating
    <3>2. ByReadBack(c) /\ EffectRight(c)
      BY <1>1, <2>2 DEF Right
    <3>3. QED  BY <3>1, <3>2 DEF EffectRight
  <2>4. r \in View(c) /\ Made(r) /\ r.table = calls[c].table
    BY <1>1, <2>2, Creating DEF Fine, Yields
  <2>5. \A q \in found : q = r
    BY <2>3, <2>4 DEF IInv, Apart, Clash
  <2>6. \A q \in found : q \in View(c) /\ Made(q) /\ q.table = calls[c].table
    BY <2>4, <2>5
  <2> HIDE DEF found
  <2>7. Yields(c)'
    BY <1>1, <1>3, <2>1, <2>2, <2>6, YieldsStays DEF Fine
  <2>8. calls[c].outcome \notin Unwelcome
    BY <2>2 DEF Fine, Welcome
  <2>9. ~Ahead(c)'
    BY <2>1 DEF Ahead
  <2>10. QED  BY <1>1, <2>1, <2>7, <2>8, <2>9, CallInRange
<1>4. QED  BY <1>2, <1>3 DEF ReadBack

LEMMA AfterHookInRange ==
  ASSUME IInv, InRange, Growing, Calm, NEW c \in Callers, AfterHook(c), UNCHANGED <<seq, tasks>>
  PROVE  InRange'
<1>1. /\ InProgress(c) /\ Shape /\ calls[c].step = "after" /\ rows' = rows /\ tasks' = tasks /\ Fine(c)
  BY DEF AfterHook, InProgress, IInv, InRange
<1>2. /\ \A d \in Callers : tx'[d].added = tx[d].added /\ tx'[d].removed = tx[d].removed
      /\ \A d \in Callers \ {c} : tx'[d] = tx[d]
  <2>1. DOMAIN tx = Callers /\ DOMAIN tx[c] = {"open", "added", "removed", "audit"}
    BY <1>1 DEF Shape
  <2>2. tx' = tx \/ \E entry : tx' = [tx EXCEPT ![c].audit = @ \cup {entry}]
    BY DEF AfterHook, Audit
  <2>3. QED  BY <2>1, <2>2
<1>3. PICK outcome \in {"ok", "failed"} : Ends(c, outcome)
  BY DEF AfterHook
<1>4. /\ \A d \in Callers \ {c} : calls'[d] = calls[d]
      /\ calls'[c].step = "done" /\ calls'[c].outcome = outcome /\ calls'[c].table = calls[c].table
      /\ calls'[c].effect = calls[c].effect /\ calls'[c].answer = calls[c].answer
  BY <1>1, <1>3 DEF Ends, Shape, NoCall
<1>5. Yields(c)'
  <2>1. HasEffect(c) /\ HasAnswer(c)
    BY <1>1 DEF HasEffect, HasAnswer
  <2>2. View(c)' = View(c)
    BY <1>1, <1>2 DEF View
  <2>3. calls[c].answer # {} /\ \A r \in calls[c].answer : r \in View(c) /\ Made(r) /\ r.table = calls[c].table
    BY <1>1, <2>1, Creating DEF Fine, Yields
  <2>4. QED  BY <1>1, <1>4, <2>1, <2>2, <2>3, YieldsStays DEF Fine
<1>6. outcome \notin Unwelcome
  BY DEF Unwelcome
<1>7. ~Ahead(c)'
  BY <1>4 DEF Ahead
<1>8. QED  BY <1>1, <1>2, <1>4, <1>5, <1>6, <1>7, CallInRange

\* The row it inserts is in nobody's way, and has the parent it needs.
LEMMA NothingRefused ==
  ASSUME IInv, InRange, Calm, RangesApart, NEW c \in Callers, calls[c].step = "statement"
  PROVE  \E r :
           /\ New(c) = {r} /\ Old(c) = {} /\ Effect(c) = {r} /\ Refusal(c, {r}, {}) = "none"
           /\ Made(r) /\ r.table = calls[c].table
           /\ \E i \in 1..Len(tasks[c].stack) :
                /\ Holds(c, i, r.id) /\ Holds(c, i, r.label) /\ tasks[c].stack[i].step = "inserting"
                /\ r.table = tasks[c].stack[i].tpl.table
<1>1. calls[c].kind = "insert" /\ calls[c].mod = "none" /\ InProgress(c)
  BY Creating DEF InProgress
<1>2. PICK t, x, y, p :
        /\ calls[c].table = t /\ calls[c].setter[1] = x /\ calls[c].setter[2] = y /\ calls[c].setter[3] = p
        /\ Linked(c, t, p)
        /\ \A v \in {x, y} :
             /\ Given(t, v) /\ v \in Nat \ {0}
             /\ \A q \in Everything : q.table = t => v \notin {q.id, q.label}
        /\ \E i \in 1..Len(tasks[c].stack) :
             /\ Holds(c, i, x) /\ Holds(c, i, y) /\ tasks[c].stack[i].step = "inserting"
             /\ tasks[c].stack[i].tpl.table = t
  BY WaitsInCall
<1> DEFINE r == Row(t, x, y, Value(p))
<1>3. New(c) = {r} /\ Old(c) = {} /\ Effect(c) = {r}
  <2>1. x # Unset /\ y # Unset
    BY <1>2 DEF Unset
  <2>2. Inserted(c) = {r}
    BY <1>1, <1>2, <2>1 DEF Inserted, Value
  <2>3. QED  BY <1>1, <2>2, NewAndOld DEF IInv
<1>4. r.table = t /\ r.id = x /\ r.label = y /\ r.parent = Value(p)
  BY DEF Row
<1>5. Made(r)
  BY <1>2, <1>4 DEF Made
<1> HIDE DEF r
<1>6. \A q \in View(c) : q \in Everything
  BY DEF View, Everything
<1>7. ASSUME NEW q \in View(c), Clash(r, q) PROVE FALSE
  BY <1>2, <1>4, <1>6, <1>7 DEF Clash
<1>8. ASSUME NEW key, Known(c, Refers[t].to, key)
      PROVE  key # Unset /\ key # Null /\ \E q \in View(c) : q.table = Refers[t].to /\ q.id = key
  <2>1. PICK q \in View(c) : Made(q) /\ q.table = Refers[t].to /\ q.id = key
    BY <1>8 DEF Known
  <2>2. PICK base \in Bases : base \in Nat /\ base > 0 /\ key \in Int /\ base <= key
    <3>1. seq[q.table].base \in Bases /\ seq[q.table].base \in Nat /\ seq[q.table].base > 0
      BY <2>1, BasesAssumption DEF Made, Given, RangesApart
    <3>2. key \in seq[q.table].base .. seq[q.table].base + seq[q.table].next - 1
      BY <2>1 DEF Made, Given
    <3>3. QED  BY <3>1, <3>2
  <2>3. QED  BY <2>1, <2>2 DEF Unset, Null
<1>9. Required(t) => r.parent # Null
  <2>1. Required(t) => Known(c, Refers[t].to, p)
    BY <1>2 DEF Linked
  <2>2. QED  BY <1>4, <1>8, <2>1 DEF Value
<1>10. HasParent(t) /\ r.parent # Null => \E q \in View(c) : PointsAt(r, q)
  <2>1. r.parent # Null => p # Unset /\ r.parent = p
    BY <1>4 DEF Value
  <2>2. r.parent # Null => Known(c, Refers[t].to, p)
    BY <1>2, <2>1 DEF Linked
  <2>3. QED  BY <1>4, <1>8, <2>1, <2>2 DEF PointsAt
<1>11. Refusal(c, {r}, {}) = "none"
  <2> DEFINE rest == View(c) \ {}
             duplicate == \/ \E s \in {r} : \E q \in rest \cup ({r} \ {s}) : Clash(s, q)
                          \/ {} # {} /\ {r} # {} /\ Cardinality({r}) < Cardinality({})
             null == \E s \in {r} : Required(s.table) /\ s.parent = Null
             orphan == \E s \in {r} : HasParent(s.table) /\ s.parent # Null
                                      /\ \A q \in rest \cup {r} : ~PointsAt(s, q)
             referenced == \E s \in rest, q \in {} : PointsAt(s, q) /\ \A m \in {r} : m.id # q.id
  <2>1. Refusal(c, {r}, {}) = CASE duplicate -> "duplicate" [] null -> "null" [] orphan -> "no parent"
                               [] referenced -> "referenced" [] OTHER -> "none"
    BY DEF Refusal
  <2>2. ~duplicate
    BY <1>7
  <2>3. ~null
    BY <1>4, <1>9
  <2>4. ~orphan
    BY <1>4, <1>10
  <2>5. ~referenced
    OBVIOUS
  <2> HIDE DEF duplicate, null, orphan, referenced
  <2>6. QED  BY <2>1, <2>2, <2>3, <2>4, <2>5
<1>12. QED  BY <1>2, <1>3, <1>4, <1>5, <1>11

LEMMA StatementInRange ==
  ASSUME IInv, InRange, Growing, Calm, RangesApart, NEW c \in Callers, Statement(c), UNCHANGED <<seq, tasks>>
  PROVE  InRange'
<1> DEFINE top == Last(tasks[c].stack)
<1>1. /\ InProgress(c) /\ Shape /\ calls[c].step = "statement" /\ tasks' = tasks /\ Fine(c)
  BY DEF Statement, InProgress, IInv, InRange
<1>2. /\ tasks[c].stack # <<>> /\ top.step = "inserting" /\ calls[c].rows
      /\ calls[c].table = top.tpl.table /\ tasks[c].outcome = "none"
  BY <1>1, Creating
<1>3. PICK r :
        /\ New(c) = {r} /\ Old(c) = {} /\ Effect(c) = {r} /\ Refusal(c, {r}, {}) = "none"
        /\ Made(r) /\ r.table = calls[c].table
        /\ \E i \in 1..Len(tasks[c].stack) :
             /\ Holds(c, i, r.id) /\ Holds(c, i, r.label) /\ tasks[c].stack[i].step = "inserting"
             /\ r.table = tasks[c].stack[i].tpl.table
  BY <1>1, NothingRefused
<1>4. Write(c, {r}, {}) /\ (AfterStatement(c, {r}) \/ Ends(c, "failed"))
  BY <1>3 DEF Statement
<1>5. /\ rows \subseteq rows' /\ \A d \in Callers \ {c} : tx'[d] = tx[d]
      /\ tx'[c].removed = {} /\ View(c) \subseteq View(c)' /\ r \in View(c)'
      /\ \A q \in Everything' : q \in Everything \/ q = r
  <2>1. DOMAIN tx = Callers /\ DOMAIN tx[c] = {"open", "added", "removed", "audit"} /\ tx[c].removed = {}
    BY <1>1 DEF Shape, InRange, Ranges
  <2>2. CASE tx[c].open
    <3>1. tx' = [tx EXCEPT ![c].added = (@ \ {}) \cup {r}, ![c].removed = @ \cup ({} \cap rows)] /\ rows' = rows
      BY <1>4, <2>2 DEF Write
    <3>2. /\ \A d \in Callers \ {c} : tx'[d] = tx[d]
          /\ tx'[c].added = tx[c].added \cup {r} /\ tx'[c].removed = {}
      BY <2>1, <3>1
    <3>3. QED  BY <2>1, <3>1, <3>2 DEF View, Everything
  <2>3. CASE ~tx[c].open
    <3>1. tx' = tx /\ rows' = rows \cup {r}
      BY <1>4, <2>3 DEF Write
    <3>2. QED  BY <2>1, <3>1 DEF View, Everything
  <2>4. QED  BY <2>2, <2>3
<1>6. Made(r)'
  BY <1>3, MadeGrows
<1>7. /\ \A d \in Callers \ {c} : calls'[d] = calls[d]
      /\ calls'[c].table = calls[c].table /\ calls'[c].outcome \notin Unwelcome /\ ~Ahead(c)'
      /\ HasEffect(c)' => calls'[c].effect = {r}
      /\ HasAnswer(c)' => calls'[c].answer = {r}
  <2>1. CASE AfterStatement(c, {r})
    <3>1. /\ \A d \in Callers \ {c} : calls'[d] = calls[d]
          /\ calls'[c].table = calls[c].table /\ calls'[c].effect = {r}
          /\ calls'[c].answer = IF calls[c].rows /\ ~ByReadBack(c) THEN {r} ELSE {}
          /\ calls'[c].outcome \in {"none", "no key", "row not found", "too many rows"}
          /\ \/ calls'[c].step = "done" /\ calls'[c].outcome # "ok"
             \/ calls'[c].step = "read back" /\ ByReadBack(c)
             \/ calls'[c].step = "after" /\ ~ByReadBack(c)
      BY <1>1, <2>1, StatementAnswers
    <3>2. QED  BY <1>2, <3>1 DEF HasEffect, HasAnswer, Finished, Ahead, Unwelcome
  <2>2. CASE Ends(c, "failed")
    <3>1. /\ \A d \in Callers \ {c} : calls'[d] = calls[d]
          /\ calls'[c].step = "done" /\ calls'[c].outcome = "failed" /\ calls'[c].table = calls[c].table
      BY <1>1, <2>2 DEF Ends, Shape, NoCall
    <3>2. QED  BY <3>1 DEF HasEffect, HasAnswer, Finished, Ahead, Unwelcome
  <2>3. QED  BY <1>4, <2>1, <2>2
<1>8. Climbing(c)' /\ Welcome(c)'
  <2>1. Climbing(c)'
    BY <1>1, <1>2 DEF Fine, Climbing
  <2>2. Welcome(c)'
    BY <1>1, <1>2, <1>7 DEF Fine, Welcome, Unwelcome
  <2>3. QED  BY <2>1, <2>2
<1>9. AtWork(c)'
  BY <1>1, <1>2, <1>7 DEF AtWork
<1>10. Yields(c)'
  BY <1>3, <1>5, <1>6, <1>7 DEF Yields
<1>11. StillWaits(c)
  BY <1>1, <1>7 DEF StillWaits, Holds, Claims
<1>12. \A q \in Everything' : Placing(c, q)
  <2>1. Placing(c, r)
    <3>1. PICK i \in 1..Len(tasks[c].stack) :
            /\ Holds(c, i, r.id) /\ Holds(c, i, r.label) /\ tasks[c].stack[i].step = "inserting"
            /\ r.table = tasks[c].stack[i].tpl.table
      BY <1>3
    <3>2. \A v : ~Holds(c, i, v)'
      BY <1>1, <1>7, <3>1 DEF Holds, Claims
    <3>3. QED  BY <1>3, <3>1, <3>2 DEF Placing
  <2>2. QED  BY <1>5, <2>1 DEF Placing
<1>13. Fine(c)' /\ OnlyOf(c)
  BY <1>1, <1>7, <1>8, <1>9, <1>10 DEF Fine, OnlyOf
<1>14. QED  BY <1>5, <1>11, <1>12, <1>13, StaysInRange

\* A caller's job stays its job.
LEMMA JobStays ==
  ASSUME Shape, NEW c \in Callers, FactoryStep(c), NEW d \in Callers, tasks[d].step # "idle"
  PROVE  tasks'[d].step # "idle" /\ tasks'[d].job = tasks[d].job
<1>1. DOMAIN tasks = Callers /\ DOMAIN tasks[c] = DOMAIN Idle
  BY DEF Shape
<1>2. ASSUME OnlyStack(c) PROVE tasks'[d].step # "idle" /\ tasks'[d].job = tasks[d].job
  BY <1>2 DEF OnlyStack
<1>3. ASSUME NEW stack, tasks' = [tasks EXCEPT ![c].stack = stack] PROVE OnlyStack(c)
  BY <1>3, StackFields
<1>4. CASE (\E column \in Columns : Build(c, column)) \/ Parent(c) \/ Insert(c) \/ Child(c)
  <2>1. \E stack : tasks' = [tasks EXCEPT ![c].stack = stack]
    BY <1>4 DEF Build, Parent, Insert, Child, Push, Replace
  <2>2. QED  BY <1>2, <1>3, <2>1
<1>5. CASE Created(c)
  <2> DEFINE row   == Only(calls[c].answer)
             frame == [Last(tasks[c].stack) EXCEPT !.step = "children", !.id = row.id]
             new   == Append(Front(tasks[c].stack), frame)
  <2>1. \/ tasks' = [[tasks EXCEPT ![c].stack = new] EXCEPT ![c].made = Append(@, row)]
        \/ tasks' = [tasks EXCEPT ![c].stack = <<>>, ![c].step = "settle", ![c].outcome = calls[c].outcome]
    BY <1>5 DEF Created, Replace
  <2> HIDE DEF row, new
  <2>2. QED  BY <1>1, <2>1, IdleFields
<1>6. CASE Return(c)
  <2> DEFINE top   == Last(tasks[c].stack)
             below == Front(tasks[c].stack)
  <2>1. \/ \E stack : tasks' = [tasks EXCEPT ![c].stack = stack]
        \/ \E stack, step, outcome :
             /\ tasks' = [tasks EXCEPT ![c].left = @ - 1, ![c].results = Append(@, top.id),
                             ![c].stack = stack, ![c].step = step, ![c].outcome = outcome]
             /\ step \in {tasks[c].step, "settle"}
    <3>1. CASE below # <<>>
      BY <1>6, <3>1 DEF Return
    <3>2. CASE below = <<>>
      <4> DEFINE stack   == IF tasks[c].left > 1 THEN <<Frame(tasks[c].job.template[1])>> ELSE <<>>
                 step    == IF tasks[c].left > 1 THEN tasks[c].step ELSE "settle"
                 outcome == IF tasks[c].left > 1 THEN tasks[c].outcome ELSE "ok"
      <4>1. tasks' = [tasks EXCEPT ![c].left = @ - 1, ![c].results = Append(@, top.id),
                         ![c].stack = stack,
                         ![c].step = IF tasks[c].left > 1 THEN @ ELSE "settle",
                         ![c].outcome = IF tasks[c].left > 1 THEN @ ELSE "ok"]
        BY <1>6, <3>2 DEF Return
      <4>2. step \in {tasks[c].step, "settle"}
        OBVIOUS
      <4> HIDE DEF stack, top
      <4>3. tasks' = [tasks EXCEPT ![c].left = @ - 1, ![c].results = Append(@, top.id),
                         ![c].stack = stack, ![c].step = step, ![c].outcome = outcome]
        BY <4>1
      <4> HIDE DEF step, outcome
      <4>4. QED  BY <4>2, <4>3
    <3>3. QED  BY <3>1, <3>2
  <2> HIDE DEF top, below
  <2>2. CASE \E stack : tasks' = [tasks EXCEPT ![c].stack = stack]
    BY <1>2, <1>3, <2>2
  <2>3. CASE \E stack, step, outcome :
               /\ tasks' = [tasks EXCEPT ![c].left = @ - 1, ![c].results = Append(@, top.id),
                               ![c].stack = stack, ![c].step = step, ![c].outcome = outcome]
               /\ step \in {tasks[c].step, "settle"}
    BY <1>1, <2>3, IdleFields
  <2>4. QED  BY <2>1, <2>2, <2>3
<1>7. CASE Answered(c) \/ Settle(c)
  BY <1>1, <1>7, IdleFields DEF Answered, Settle
<1>8. CASE \E job \in Jobs, atomic \in BOOLEAN : Start(c, job, atomic)
  <2>1. tasks[c].step = "idle" /\ \E task : tasks' = [tasks EXCEPT ![c] = task]
    BY <1>8 DEF Start
  <2>2. QED  BY <2>1
<1>9. QED  BY <1>4, <1>5, <1>6, <1>7, <1>8 DEF FactoryStep

LEMMA CalmBefore ==
  ASSUME IInv, [Next]_vars, Calm'
  PROVE  Calm
<1>1. ASSUME NEW d \in Callers, tasks[d].step # "idle"
      PROVE  tasks'[d].step # "idle" /\ tasks'[d].job = tasks[d].job
  <2>1. tasks' = tasks \/ \E c \in Callers : FactoryStep(c)
    BY DEF Next, vars
  <2>2. QED  BY <1>1, <2>1, JobStays DEF IInv
<1>2. QED  BY <1>1 DEF Calm

LEMMA InRangeNext ==
  ASSUME RangesApart, IInv, Drawing, Calm => InRange, [Next]_vars, Calm'
  PROVE  InRange'
<1>1. Calm /\ InRange /\ Growing
  BY CalmBefore, GivenGrows
<1>2. ASSUME NEW c \in Callers, CallStep(c), UNCHANGED <<seq, tasks>> PROVE InRange'
  BY <1>1, <1>2, BeforeHookInRange, StatementInRange, StatementFailsInRange, ReadBackInRange, AfterHookInRange
     DEF CallStep
<1>3. ASSUME NEW c \in Callers, FactoryStep(c) PROVE InRange'
  BY <1>1, <1>3, BuildInRange, ParentInRange, InsertInRange, CreatedInRange, ReturnInRange, SettleInRange,
     StartInRange, NoChild DEF FactoryStep
<1>4. CASE UNCHANGED vars
  <2>1. UNCHANGED <<rows, tx, calls, seq, tasks>>
    BY <1>4 DEF vars, mutationVars
  <2>2. Everything' = Everything /\ \A c \in Callers : View(c)' = View(c)
    BY <2>1 DEF Everything, View
  <2>3. Ranges'
    BY <1>1, <2>1, <2>2, MadeGrows DEF InRange, Ranges
  <2>4. Free'
    <3>1. CASE Callers = {}
      BY <3>1 DEF Free
    <3>2. ASSUME NEW c \in Callers PROVE Free'
      <4>1. StillWaits(c) /\ OnlyOf(c)
        BY <2>1 DEF StillWaits, Holds, Claims, Ahead, OnlyOf
      <4>2. \A r \in Everything' : Placing(c, r)
        BY <2>2 DEF Placing
      <4>3. QED  BY <1>1, <4>1, <4>2, FreeStays DEF InRange
    <3>3. QED  BY <3>1, <3>2
  <2>5. \A c \in Callers : Fine(c)'
    BY <1>1, <2>1, <2>2, FineElsewhere DEF InRange
  <2>6. QED  BY <2>3, <2>4, <2>5 DEF InRange
<1>5. QED  BY <1>2, <1>3, <1>4 DEF Next

LEMMA InitInRange == Init => InRange
<1> SUFFICES ASSUME Init PROVE InRange
  OBVIOUS
<1>1. \A c \in Callers : tx[c] = NoTx /\ calls[c] = NoCall /\ tasks[c] = Idle
  BY DEF Init, InitMutations
<1>2. /\ NoTx.added = {} /\ NoTx.removed = {} /\ NoCall.outcome = "none"
      /\ Idle.stack = <<>> /\ Idle.outcome = "none"
  BY DEF NoTx, NoCall, Idle
<1>3. rows = Existing
  BY DEF Init, InitMutations
<1>4. Ranges
  BY <1>1, <1>2, <1>3 DEF Ranges, Everything
<1>5. Free
  BY <1>1, <1>2 DEF Free
<1>6. ASSUME NEW c \in Callers PROVE Fine(c)
  <2>1. tasks[c].stack = <<>> /\ tasks[c].outcome = "none" /\ calls[c].outcome = "none"
    BY <1>1, <1>2
  <2>2. Climbing(c)
    BY <2>1 DEF Climbing
  <2>3. AtWork(c) /\ Yields(c) /\ Welcome(c)
    BY <2>1 DEF AtWork, Yields, Welcome, Unwelcome
  <2>4. QED  BY <2>2, <2>3 DEF Fine
<1>7. QED  BY <1>4, <1>5, <1>6 DEF InRange

\* No two factories are ever given the same value, and as long as everyone
\* creates from templates that draw their keys and whose parents are created
\* for them, no insert is refused: not for a duplicate, not for a missing key,
\* not for a parent its caller cannot see (sequence.rs, create_with of
\* emit/factory.rs). The rows there from the start are to lie below what the
\* clock gives; elsewhere sequence.rs calls a collision improbable.
THEOREM FactoriesKeepApart ==
  ASSUME RangesApart
  PROVE  Spec => []SequencesKeepApart
<1> DEFINE Apartness == IInv /\ Drawing /\ (Calm => InRange)
<1>1. Init => Apartness
  BY InitIInv, InitDrawing, InitInRange
<1>2. Apartness /\ [Next]_vars => Apartness'
  BY NextKeeps, DrawingNext, InRangeNext
<1>3. Apartness => SequencesKeepApart
  <2> SUFFICES ASSUME Apartness PROVE SequencesKeepApart
    OBVIOUS
  <2>1. DrawnOnce
    BY DrawingOnce
  <2>2. ASSUME \A c \in Callers : tasks[c].job.template # <<>> /\ Sequenced(tasks[c].job.template[1]),
               NEW c \in Callers
        PROVE  tasks[c].outcome \notin {"duplicate", "null", "no parent"}
    <3>1. InRange
      BY <2>2 DEF Calm
    <3>2. QED  BY <3>1 DEF InRange, Fine, Welcome, Unwelcome
  <2>3. QED  BY <2>1, <2>2 DEF SequencesKeepApart
<1> HIDE DEF Apartness
<1>4. QED  BY <1>1, <1>2, <1>3, PTL DEF Spec

=============================================================================
