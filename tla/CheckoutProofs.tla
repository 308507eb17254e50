--------------------------- MODULE CheckoutProofs ---------------------------
(***************************************************************************)
(* The safety of Checkout for any number of tasks, connections and options. *)
(* HoldInv, who holds which connection, is inductive whatever is dropped;   *)
(* CleanInv, what is on each connection, is inductive when nothing is       *)
(* dropped while begin or end is in flight, or no pool reuses connections.  *)
(***************************************************************************)
EXTENDS Checkout, TLAPS

\* A plan is a BEGIN, after a SET TRANSACTION where MySQL was asked for a level.
LEMMA PlanShape ==
  ASSUME NEW o \in Options
  PROVE  /\ Len(Plan(Family, o)) =
              IF Family = "MySql" /\ o.isolation # Unset THEN 2 ELSE 1
         /\ Family = "MySql" /\ o.isolation # Unset =>
              /\ Plan(Family, o)[1] = SetLevel(o.isolation)
              /\ Plan(Family, o)[2] = BeginAs(Unset, o.access, Unset)
         /\ Family = "MySql" /\ o.isolation = Unset =>
              Plan(Family, o)[1] = BeginAs(Unset, o.access, Unset)
         /\ Family = "Postgres" =>
              Plan(Family, o)[1] = BeginAs(o.isolation, o.access, Unset)
         /\ Family = "Sqlite" => Plan(Family, o)[1] = BeginAs(Unset, Unset, o.sqliteBegin)
<1>1. CASE Family = "Postgres"
  <2>1. Plan(Family, o) = <<BeginAs(o.isolation, o.access, Unset)>>
    BY <1>1 DEF Plan
  <2>. QED
    BY <1>1, <2>1
<1>2. CASE Family = "MySql" /\ o.isolation # Unset
  <2>1. Plan(Family, o) = <<SetLevel(o.isolation), BeginAs(Unset, o.access, Unset)>>
    BY <1>2 DEF Plan
  <2>. QED
    BY <1>2, <2>1
<1>3. CASE Family = "MySql" /\ o.isolation = Unset
  <2>1. Plan(Family, o) = <<BeginAs(Unset, o.access, Unset)>>
    BY <1>3 DEF Plan
  <2>. QED
    BY <1>3, <2>1
<1>4. CASE Family = "Sqlite"
  <2>1. Plan(Family, o) = <<BeginAs(Unset, Unset, o.sqliteBegin)>>
    BY <1>4 DEF Plan
  <2>. QED
    BY <1>4, <2>1
<1>. QED
  BY <1>1, <1>2, <1>3, <1>4, FamilyAssumption DEF Families

\* What the last statement of an honoured plan opens is what was asked for.
LEMMA PlanOpensAsAsked ==
  ASSUME NEW o \in Options, ~Refuses(Family, o)
  PROVE  /\ Family = "MySql" =>
              Opened(Family, BeginAs(Unset, o.access, Unset), o.isolation) = Asked(Family, o)
         /\ Family = "Postgres" =>
              Opened(Family, BeginAs(o.isolation, o.access, Unset), Unset) = Asked(Family, o)
         /\ Family = "Sqlite" =>
              Opened(Family, BeginAs(Unset, Unset, o.sqliteBegin), Unset) = Asked(Family, o)
BY FamilyAssumption DEF Opened, Asked, BeginAs, Default, Or, Refuses, Families, Options,
   Isolation, Access, SqliteBegin, Unset

\* What a statement leaves on the server is a session.
LEMMA AfterIsSession ==
  ASSUME NEW o \in Options, NEW i \in 1 .. Len(Plan(Family, o)), NEW s \in Session
  PROVE  After(Plan(Family, o)[i], s) \in Session
<1>1. PICK stmt : stmt = Plan(Family, o)[i]
  OBVIOUS
<1>2. i \in {1, 2} /\ (i = 2 => Family = "MySql" /\ o.isolation # Unset)
  <2>1. CASE Family = "MySql" /\ o.isolation # Unset
    <3>1. Len(Plan(Family, o)) = 2
      BY <2>1, PlanShape
    <3>2. i \in 1 .. 2
      BY <3>1
    <3>3. i \in {1, 2}
      BY <3>2
    <3>. QED
      BY <2>1, <3>3
  <2>2. CASE ~(Family = "MySql" /\ o.isolation # Unset)
    <3>1. Len(Plan(Family, o)) = 1
      BY <2>2, PlanShape
    <3>2. i \in 1 .. 1
      BY <3>1
    <3>. QED
      BY <3>2
  <2>. QED
    BY <2>1, <2>2
<1>3. /\ o.isolation \in Isolation \union {Unset}
      /\ o.access \in Access \union {Unset}
      /\ o.sqliteBegin \in SqliteBegin \union {Unset}
  BY DEF Options
<1>4. \/ stmt = SetLevel(o.isolation)
      \/ \E l \in {Unset, o.isolation}, a \in {Unset, o.access}, m \in {Unset, o.sqliteBegin} :
           stmt = BeginAs(l, a, m)
  BY <1>1, <1>2, PlanShape, FamilyAssumption DEF Families
<1>5. /\ stmt.isolation \in Isolation \union {Unset}
      /\ stmt.access \in Access \union {Unset}
      /\ stmt.sqliteBegin \in SqliteBegin \union {Unset}
  BY <1>3, <1>4 DEF SetLevel, BeginAs
<1>6. Default(Family) \in Options
  BY FamilyAssumption DEF Default, Families, Options, Isolation, Access, SqliteBegin, Unset
<1>7. Opened(Family, stmt, s.next) \in Options
  BY <1>5, <1>6 DEF Opened, Or, Options, Session, Isolation
<1>. QED
  BY <1>1, <1>5, <1>7 DEF After, Session

-----------------------------------------------------------------------------
(* Who holds which connection.                                             *)

\* Abandon and GiveBack: a task that lets its connection go keeps HoldInv.
LEMMA LettingGo ==
  ASSUME HoldInv, NEW t \in Task, pc[t] \in Holding,
         NEW p \in {"closed", "idle"}, NEW s \in Session, NEW w \in SUBSET Task,
         place' = [place EXCEPT ![held[t]] = p],
         server' = [server EXCEPT ![held[t]] = s],
         work' = [work EXCEPT ![held[t]] = w],
         held' = [held EXCEPT ![t] = NoConn],
         pc' = [pc EXCEPT ![t] = "idle"],
         UNCHANGED <<asked, sent>>
  PROVE  HoldInv'
<1>1. held[t] \in Conn
  BY DEF HoldInv, HoldsOne, TypeOK
<1>2. TypeOK'
  BY <1>1 DEF HoldInv, TypeOK, asked
<1>3. HoldsOne'
  BY DEF HoldInv, HoldsOne, TypeOK, Holding, Ending
<1>4. Exclusive'
  <2>1. ASSUME NEW u \in Task, pc'[u] \in Holding
        PROVE  held'[u] \in Conn /\ place'[held'[u]] = "held"
    <3>1. u # t /\ pc[u] \in Holding
      BY <2>1 DEF HoldInv, TypeOK, Holding, Ending
    <3>2. held[u] # held[t] /\ held'[u] = held[u] /\ held[u] \in Conn
      BY <1>1, <3>1, NoConnAssumption DEF HoldInv, Exclusive, HoldsOne, TypeOK
    <3>. QED
      BY <3>1, <3>2 DEF HoldInv, Exclusive, TypeOK
  <2>2. ASSUME NEW u \in Task, NEW v \in Task, u # v, held'[u] # NoConn
        PROVE  held'[u] # held'[v]
    BY <2>2 DEF HoldInv, Exclusive, TypeOK
  <2>. QED
    BY <2>1, <2>2 DEF Exclusive
<1>5. NothingLeaks'
  <2>. SUFFICES ASSUME NEW c \in Conn, place'[c] = "held"
                PROVE  \E u \in Task : held'[u] = c
    BY DEF NothingLeaks
  <2>1. c # held[t] /\ place[c] = "held"
    BY <1>1 DEF HoldInv, TypeOK
  <2>2. PICK u \in Task : held[u] = c
    BY <2>1 DEF HoldInv, NothingLeaks
  <2>3. held'[u] = c
    BY <2>1, <2>2 DEF HoldInv, TypeOK
  <2>. QED
    BY <2>3
<1>6. PlanUnfinished'
  BY DEF HoldInv, PlanUnfinished, TypeOK, asked
<1>. QED
  BY <1>2, <1>3, <1>4, <1>5, <1>6 DEF HoldInv

LEMMA AbandonKeepsHold ==
  ASSUME HoldInv, NEW t \in Task, pc[t] \in Holding, Abandon(t), UNCHANGED <<asked, sent>>
  PROVE  HoldInv'
<1>1. Clean \in Session
  BY FamilyAssumption DEF Clean, Session, Default, Options, Families, Isolation, Access,
     SqliteBegin, Unset
<1>2. /\ place' = [place EXCEPT ![held[t]] = "closed"]
      /\ server' = [server EXCEPT ![held[t]] = Clean]
      /\ work' = [work EXCEPT ![held[t]] = {}]
      /\ held' = [held EXCEPT ![t] = NoConn]
      /\ pc' = [pc EXCEPT ![t] = "idle"]
  BY DEF Abandon
<1>3. "closed" \in {"closed", "idle"} /\ {} \in SUBSET Task
  OBVIOUS
<1>. QED
  BY <1>1, <1>2, <1>3, LettingGo

LEMMA GiveBackKeepsHold ==
  ASSUME HoldInv, NEW t \in Task, pc[t] \in Holding,
         NEW s \in Session, NEW w \in SUBSET Task, GiveBack(t, s, w),
         UNCHANGED <<asked, sent>>
  PROVE  HoldInv'
<1>1. Clean \in Session
  BY FamilyAssumption DEF Clean, Session, Default, Options, Families, Isolation, Access,
     SqliteBegin, Unset
<1>. DEFINE p == IF Pooled THEN "idle" ELSE "closed"
            r == IF Pooled THEN s ELSE Clean
            v == IF Pooled THEN w ELSE {}
<1>2. p \in {"closed", "idle"} /\ r \in Session /\ v \in SUBSET Task
  BY <1>1
<1>3. /\ place' = [place EXCEPT ![held[t]] = p]
      /\ server' = [server EXCEPT ![held[t]] = r]
      /\ work' = [work EXCEPT ![held[t]] = v]
      /\ held' = [held EXCEPT ![t] = NoConn]
      /\ pc' = [pc EXCEPT ![t] = "idle"]
  BY DEF GiveBack
<1>. HIDE DEF p, r, v
<1>. QED
  BY <1>2, <1>3, LettingGo

LEMMA AcquireKeepsHold ==
  ASSUME HoldInv, NEW t \in Task, NEW c \in Conn, Acquire(t, c)
  PROVE  HoldInv'
<1>1. held[t] = NoConn /\ pc[t] = "acquiring" /\ pc'[t] \in {"querying", "beginning"}
  BY DEF HoldInv, HoldsOne, TypeOK, Acquire, Holding, Ending
<1>2. \A u \in Task : held[u] # c
  BY NoConnAssumption DEF HoldInv, HoldsOne, Exclusive, TypeOK, Acquire, Offered
<1>3. TypeOK'
  BY DEF HoldInv, TypeOK, Acquire, asked, Holding
<1>4. HoldsOne'
  BY <1>1, NoConnAssumption DEF HoldInv, HoldsOne, TypeOK, Acquire, Holding
<1>5. Exclusive'
  BY <1>1, <1>2, NoConnAssumption DEF HoldInv, Exclusive, HoldsOne, TypeOK, Acquire
<1>6. NothingLeaks'
  <2>. SUFFICES ASSUME NEW d \in Conn, place'[d] = "held"
                PROVE  \E u \in Task : held'[u] = d
    BY DEF NothingLeaks
  <2>1. CASE d = c
    BY <2>1 DEF HoldInv, TypeOK, Acquire
  <2>2. CASE d # c
    <3>1. PICK u \in Task : held[u] = d
      BY <2>2 DEF HoldInv, TypeOK, NothingLeaks, Acquire
    <3>2. u # t
      BY <1>1, <3>1, NoConnAssumption
    <3>. QED
      BY <3>1, <3>2 DEF HoldInv, TypeOK, Acquire
  <2>. QED
    BY <2>1, <2>2
<1>7. PlanUnfinished'
  <2>. SUFFICES ASSUME NEW u \in Task, pc'[u] = "beginning"
                PROVE  sent'[u] < Len(Plan(Family, want[u]))
    BY DEF PlanUnfinished, Acquire, asked
  <2>1. CASE u = t
    <3>1. want[u] \in Options /\ sent'[u] = 0
      BY <2>1 DEF HoldInv, TypeOK, Acquire
    <3>2. Len(Plan(Family, want[u])) = 1 \/ Len(Plan(Family, want[u])) = 2
      BY <3>1, PlanShape
    <3>. DEFINE n == Len(Plan(Family, want[u]))
    <3>. HIDE DEF n
    <3>3. n = 1 \/ n = 2
      BY <3>2 DEF n
    <3>4. 0 < n
      BY <3>3
    <3>. QED
      BY <3>1, <3>4 DEF n
  <2>2. CASE u # t
    BY <2>2 DEF HoldInv, TypeOK, PlanUnfinished, Acquire
  <2>. QED
    BY <2>1, <2>2
<1>. QED
  BY <1>3, <1>4, <1>5, <1>6, <1>7 DEF HoldInv

\* A step within a task's hold, or outside it, moves no connection.
LEMMA StayingPut ==
  ASSUME HoldInv, TypeOK', UNCHANGED <<held, place>>,
         \A u \in Task : pc'[u] \in Holding <=> pc[u] \in Holding,
         PlanUnfinished'
  PROVE  HoldInv'
BY DEF HoldInv, HoldsOne, Exclusive, NothingLeaks

LEMMA RunPlanKeepsHold ==
  ASSUME HoldInv, NEW t \in Task, RunPlan(t)
  PROVE  HoldInv'
<1>. DEFINE c == held[t]
            plan == Plan(Family, want[t])
<1>1. c \in Conn /\ want[t] \in Options /\ server[c] \in Session /\ work[c] \in SUBSET Task
  BY DEF HoldInv, HoldsOne, TypeOK, RunPlan, Holding
<1>2. sent[t] \in Nat /\ sent[t] < Len(plan) /\ Len(plan) \in {1, 2}
  BY <1>1, PlanShape DEF HoldInv, TypeOK, PlanUnfinished, RunPlan
<1>3. sent[t] + 1 \in 1 .. Len(plan)
  BY <1>2
<1>4. After(InFlight(t), server[c]) \in Session
  BY <1>1, <1>3, AfterIsSession DEF InFlight
<1>5. WorkAfter(InFlight(t), server[c], work[c]) \in SUBSET Task
  BY <1>1 DEF WorkAfter
<1>6. TypeOK'
  BY <1>1, <1>2, <1>4, <1>5 DEF HoldInv, TypeOK, RunPlan, asked, Holding
<1>7. PlanUnfinished'
  <2>. SUFFICES ASSUME NEW u \in Task, pc'[u] = "beginning"
                PROVE  sent'[u] < Len(Plan(Family, want[u]))
    BY DEF PlanUnfinished, RunPlan, asked
  <2>1. CASE u = t
    <3>1. sent'[u] = sent[t] + 1 /\ sent[t] + 1 # Len(plan)
      BY <2>1 DEF HoldInv, TypeOK, RunPlan
    <3>. QED
      BY <1>2, <2>1, <3>1
  <2>2. CASE u # t
    BY <2>2 DEF HoldInv, TypeOK, PlanUnfinished, RunPlan
  <2>. QED
    BY <2>1, <2>2
<1>8. \A u \in Task : pc'[u] \in Holding <=> pc[u] \in Holding
  BY DEF HoldInv, TypeOK, RunPlan, Holding
<1>. QED
  BY <1>6, <1>7, <1>8, StayingPut DEF RunPlan

LEMMA DropBeginKeepsHold ==
  ASSUME HoldInv, NEW t \in Task, NEW carriedOut \in BOOLEAN, DropBegin(t, carriedOut)
  PROVE  HoldInv'
<1>. DEFINE c == held[t]
            plan == Plan(Family, want[t])
<1>1. pc[t] \in Holding /\ UNCHANGED <<asked, sent>>
  BY DEF DropBegin, Holding
<1>2. c \in Conn /\ want[t] \in Options /\ server[c] \in Session /\ work[c] \in SUBSET Task
  BY <1>1 DEF HoldInv, HoldsOne, TypeOK
<1>3. sent[t] \in Nat /\ sent[t] < Len(plan) /\ Len(plan) \in {1, 2}
  BY <1>2, PlanShape DEF HoldInv, TypeOK, PlanUnfinished, DropBegin
<1>4. sent[t] + 1 \in 1 .. Len(plan)
  BY <1>3
<1>5. After(InFlight(t), server[c]) \in Session
  BY <1>2, <1>4, AfterIsSession DEF InFlight
<1>6. WorkAfter(InFlight(t), server[c], work[c]) \in SUBSET Task
  BY <1>2 DEF WorkAfter
<1>7. CASE carriedOut /\ Accepts(InFlight(t), server[c])
  <2>1. GiveBack(t, After(InFlight(t), server[c]), WorkAfter(InFlight(t), server[c], work[c]))
    BY <1>7 DEF DropBegin
  <2>. QED
    BY <1>1, <1>5, <1>6, <2>1, GiveBackKeepsHold
<1>8. CASE ~(carriedOut /\ Accepts(InFlight(t), server[c]))
  <2>1. GiveBack(t, server[c], work[c])
    BY <1>8 DEF DropBegin
  <2>. QED
    BY <1>1, <1>2, <2>1, GiveBackKeepsHold
<1>. QED
  BY <1>7, <1>8

LEMMA EndKeepsHold ==
  ASSUME HoldInv, NEW t \in Task,
         End(t) \/ \E carriedOut \in BOOLEAN : DropEnd(t, carriedOut)
  PROVE  HoldInv'
<1>. DEFINE c == held[t]
            ended == [server[c] EXCEPT !.open = FALSE]
<1>1. pc[t] \in Holding /\ UNCHANGED <<asked, sent>>
  BY DEF End, DropEnd, Holding
<1>2. c \in Conn /\ server[c] \in Session /\ work[c] \in SUBSET Task
  BY <1>1 DEF HoldInv, HoldsOne, TypeOK
<1>3. ended \in Session /\ {} \in SUBSET Task
  BY <1>2 DEF Session
<1>4. GiveBack(t, ended, {}) \/ GiveBack(t, server[c], work[c])
  BY DEF End, DropEnd
<1>. HIDE DEF c, ended
<1>5. CASE GiveBack(t, ended, {})
  BY <1>1, <1>3, <1>5, GiveBackKeepsHold
<1>6. CASE GiveBack(t, server[c], work[c])
  BY <1>1, <1>2, <1>6, GiveBackKeepsHold
<1>. QED
  BY <1>4, <1>5, <1>6

LEMMA RunQueryKeepsHold ==
  ASSUME HoldInv, NEW t \in Task, RunQuery(t)
  PROVE  HoldInv'
<1>. DEFINE c == held[t]
            s == server[c]
            r == IF s.open THEN s ELSE [s EXCEPT !.next = Unset]
            w == IF s.open THEN work[c] \union {t} ELSE {}
<1>1. pc[t] \in Holding /\ UNCHANGED <<asked, sent>>
  BY DEF RunQuery, Holding
<1>2. c \in Conn /\ s \in Session /\ work[c] \in SUBSET Task
  BY <1>1 DEF HoldInv, HoldsOne, TypeOK
<1>3. r \in Session /\ w \in SUBSET Task
  BY <1>2 DEF Session
<1>4. GiveBack(t, r, w)
  BY DEF RunQuery
<1>. HIDE DEF r, w
<1>. QED
  BY <1>1, <1>3, <1>4, GiveBackKeepsHold

\* Every step keeps HoldInv.
LEMMA HoldInvStep == HoldInv /\ [Next]_vars => HoldInv'
<1>. SUFFICES ASSUME HoldInv, [Next]_vars PROVE HoldInv'
  OBVIOUS
<1>1. ASSUME NEW t \in Task, NEW o \in Asks, BeginWith(t, o) PROVE HoldInv'
  <2>1. TypeOK'
    BY <1>1, AsksAssumption DEF HoldInv, TypeOK, BeginWith
  <2>2. PlanUnfinished'
    BY <1>1 DEF HoldInv, TypeOK, PlanUnfinished, BeginWith
  <2>3. \A u \in Task : pc'[u] \in Holding <=> pc[u] \in Holding
    BY <1>1 DEF HoldInv, TypeOK, BeginWith, Holding, Ending
  <2>. QED
    BY <1>1, <2>1, <2>2, <2>3, StayingPut DEF BeginWith
<1>2. ASSUME NEW t \in Task, Query(t) PROVE HoldInv'
  <2>1. TypeOK'
    BY <1>2 DEF HoldInv, TypeOK, Query
  <2>2. PlanUnfinished'
    BY <1>2 DEF HoldInv, TypeOK, PlanUnfinished, Query
  <2>3. \A u \in Task : pc'[u] \in Holding <=> pc[u] \in Holding
    BY <1>2 DEF HoldInv, TypeOK, Query, Holding, Ending
  <2>. QED
    BY <1>2, <2>1, <2>2, <2>3, StayingPut DEF Query
<1>3. ASSUME NEW t \in Task, NEW c \in Conn, Acquire(t, c) PROVE HoldInv'
  BY <1>3, AcquireKeepsHold
<1>4. ASSUME NEW t \in Task, GiveUp(t) PROVE HoldInv'
  <2>1. TypeOK'
    BY <1>4 DEF HoldInv, TypeOK, GiveUp, asked
  <2>2. PlanUnfinished'
    BY <1>4 DEF HoldInv, TypeOK, PlanUnfinished, GiveUp, asked
  <2>3. \A u \in Task : pc'[u] \in Holding <=> pc[u] \in Holding
    BY <1>4 DEF HoldInv, TypeOK, GiveUp, Holding, Ending
  <2>. QED
    BY <1>4, <2>1, <2>2, <2>3, StayingPut DEF GiveUp
<1>5. ASSUME NEW t \in Task, RunPlan(t) PROVE HoldInv'
  BY <1>5, RunPlanKeepsHold
<1>6. ASSUME NEW t \in Task,
             PlanFails(t) \/ EndFails(t) \/ DropTransaction(t) \/ QueryFails(t)
      PROVE HoldInv'
  <2>1. pc[t] \in Holding /\ Abandon(t) /\ UNCHANGED <<asked, sent>>
    BY <1>6 DEF PlanFails, EndFails, DropTransaction, QueryFails, Holding
  <2>. QED
    BY <2>1, AbandonKeepsHold
<1>7. ASSUME NEW t \in Task, Write(t) PROVE HoldInv'
  <2>1. TypeOK'
    BY <1>7 DEF HoldInv, TypeOK, Write, asked
  <2>2. PlanUnfinished' /\ \A u \in Task : pc'[u] \in Holding <=> pc[u] \in Holding
    BY <1>7 DEF HoldInv, PlanUnfinished, Write, asked
  <2>. QED
    BY <1>7, <2>1, <2>2, StayingPut DEF Write
<1>8. ASSUME NEW t \in Task, NEW how \in Ending, Return(t, how) PROVE HoldInv'
  <2>1. TypeOK'
    BY <1>8 DEF HoldInv, TypeOK, Return, asked, Holding
  <2>2. PlanUnfinished'
    BY <1>8 DEF HoldInv, TypeOK, PlanUnfinished, Return, asked, Ending
  <2>3. \A u \in Task : pc'[u] \in Holding <=> pc[u] \in Holding
    BY <1>8 DEF HoldInv, TypeOK, Return, Holding
  <2>. QED
    BY <1>8, <2>1, <2>2, <2>3, StayingPut DEF Return
<1>9. ASSUME NEW t \in Task,
             End(t) \/ \E carriedOut \in BOOLEAN : DropEnd(t, carriedOut)
      PROVE HoldInv'
  BY <1>9, EndKeepsHold
<1>10. ASSUME NEW t \in Task, RunQuery(t) PROVE HoldInv'
  BY <1>10, RunQueryKeepsHold
<1>11. ASSUME NEW t \in Task, NEW carriedOut \in BOOLEAN, DropBegin(t, carriedOut)
       PROVE HoldInv'
  BY <1>11, DropBeginKeepsHold
<1>12. CASE UNCHANGED vars
  BY <1>12 DEF vars, asked, HoldInv, TypeOK, HoldsOne, Exclusive, NothingLeaks, PlanUnfinished
<1>. QED
  BY <1>1, <1>2, <1>3, <1>4, <1>5, <1>6, <1>7, <1>8, <1>9, <1>10, <1>11, <1>12 DEF Next

LEMMA HoldInvInit == Init => HoldInv
BY FamilyAssumption DEF Init, HoldInv, TypeOK, HoldsOne, Exclusive, NothingLeaks,
   PlanUnfinished, Clean, Session, Default, NoOptions, Options, Families, Isolation, Access,
   SqliteBegin, Unset, Holding, Ending

\* Whatever is dropped and whenever, the connections and the tasks keep the
\* types of their states.
THEOREM TypeCorrect == Spec => []TypeOK
<1>1. HoldInv => TypeOK
  BY DEF HoldInv
<1>. QED
  BY <1>1, HoldInvInit, HoldInvStep, PTL DEF Spec

\* Whatever is dropped and whenever, no connection is held by nobody.
THEOREM NothingLeaksAlways == Spec => []NothingLeaks
<1>1. HoldInv => NothingLeaks
  BY DEF HoldInv
<1>. QED
  BY <1>1, HoldInvInit, HoldInvStep, PTL DEF Spec

-----------------------------------------------------------------------------
(* What is on each connection.                                             *)

\* No future is dropped while begin or end is in flight, or there is no pool to
\* take back the connection it held.
NothingDropped == Pooled => Cancels = {}

\* A step of task t that touches no other connection leaves the others clean.
LEMMA OthersStayClean ==
  ASSUME HoldInv, NEW t \in Task, NEW u \in Task, u # t, TaskClean(u),
         pc'[u] = pc[u], want'[u] = want[u], query'[u] = query[u],
         sent'[u] = sent[u], held'[u] = held[u],
         \A c \in Conn : c # held[t] => server'[c] = server[c] /\ work'[c] = work[c]
  PROVE  TaskClean(u)'
<1>1. CASE pc[u] \in Holding
  <2>1. held[u] \in Conn /\ held[u] # held[t]
    BY <1>1 DEF HoldInv, HoldsOne, Exclusive, TypeOK
  <2>2. server'[held'[u]] = server[held[u]] /\ work'[held'[u]] = work[held[u]]
    BY <2>1
  <2>. QED
    BY <2>2 DEF TaskClean, BeginsClean, RunsItsOwn, QueriesClean, AsksHonoured
<1>2. CASE pc[u] \notin Holding
  BY <1>2 DEF TaskClean, BeginsClean, RunsItsOwn, QueriesClean, AsksHonoured, Holding
<1>. QED
  BY <1>1, <1>2

\* A task that lets its connection go as good as new keeps CleanInv.
LEMMA LettingGoClean ==
  ASSUME HoldInv, CleanInv, NEW t \in Task, pc[t] \in Holding,
         NEW s \in Session, ~s.open, s.next = Unset,
         \A c \in Conn : c # held[t] => place'[c] = place[c],
         server' = [server EXCEPT ![held[t]] = s],
         work' = [work EXCEPT ![held[t]] = {}],
         held' = [held EXCEPT ![t] = NoConn],
         pc' = [pc EXCEPT ![t] = "idle"],
         UNCHANGED <<asked, sent>>
  PROVE  CleanInv'
<1>1. held[t] \in Conn
  BY DEF HoldInv, HoldsOne, TypeOK
<1>2. UnheldIsClean'
  BY <1>1 DEF HoldInv, TypeOK, CleanInv, UnheldIsClean
<1>3. TaskClean(t)'
  <2>1. pc'[t] = "idle"
    BY DEF HoldInv, TypeOK
  <2>. QED
    BY <2>1 DEF TaskClean, BeginsClean, RunsItsOwn, QueriesClean, AsksHonoured, Ending
<1>4. ASSUME NEW u \in Task, u # t PROVE TaskClean(u)'
  <2>1. /\ pc'[u] = pc[u] /\ want'[u] = want[u] /\ query'[u] = query[u]
        /\ sent'[u] = sent[u] /\ held'[u] = held[u] /\ TaskClean(u)
    BY <1>4 DEF HoldInv, TypeOK, CleanInv, asked
  <2>2. \A c \in Conn : c # held[t] => server'[c] = server[c] /\ work'[c] = work[c]
    BY DEF HoldInv, TypeOK
  <2>. QED
    BY <1>4, <2>1, <2>2, OthersStayClean
<1>. QED
  BY <1>2, <1>3, <1>4 DEF CleanInv

LEMMA AbandonKeepsClean ==
  ASSUME HoldInv, CleanInv, NEW t \in Task, pc[t] \in Holding, Abandon(t),
         UNCHANGED <<asked, sent>>
  PROVE  CleanInv'
<1>1. Clean \in Session /\ ~Clean.open /\ Clean.next = Unset
  BY FamilyAssumption DEF Clean, Session, Default, Options, Families, Isolation, Access,
     SqliteBegin, Unset
<1>2. /\ \A c \in Conn : c # held[t] => place'[c] = place[c]
      /\ server' = [server EXCEPT ![held[t]] = Clean]
      /\ work' = [work EXCEPT ![held[t]] = {}]
      /\ held' = [held EXCEPT ![t] = NoConn]
      /\ pc' = [pc EXCEPT ![t] = "idle"]
  BY DEF Abandon, HoldInv, TypeOK
<1>. QED
  BY <1>1, <1>2, LettingGoClean

\* Giving back a clean session, or giving back anything where nothing is pooled.
LEMMA GiveBackKeepsClean ==
  ASSUME HoldInv, CleanInv, NEW t \in Task, pc[t] \in Holding,
         NEW s \in Session, NEW w \in SUBSET Task, GiveBack(t, s, w),
         Pooled => ~s.open /\ s.next = Unset /\ w = {},
         UNCHANGED <<asked, sent>>
  PROVE  CleanInv'
<1>. DEFINE r == IF Pooled THEN s ELSE Clean
<1>1. Clean \in Session /\ ~Clean.open /\ Clean.next = Unset
  BY FamilyAssumption DEF Clean, Session, Default, Options, Families, Isolation, Access,
     SqliteBegin, Unset
<1>2. r \in Session /\ ~r.open /\ r.next = Unset
  BY <1>1
<1>3. /\ \A c \in Conn : c # held[t] => place'[c] = place[c]
      /\ server' = [server EXCEPT ![held[t]] = r]
      /\ work' = [work EXCEPT ![held[t]] = {}]
      /\ held' = [held EXCEPT ![t] = NoConn]
      /\ pc' = [pc EXCEPT ![t] = "idle"]
  BY DEF GiveBack, HoldInv, TypeOK
<1>. HIDE DEF r
<1>. QED
  BY <1>2, <1>3, LettingGoClean

\* A step of t that moves no connection and touches at most its own.
LEMMA StayingClean ==
  ASSUME HoldInv, CleanInv, NEW t \in Task, TaskClean(t)', place' = place,
         held[t] \in Conn => place[held[t]] = "held",
         \A c \in Conn : c # held[t] => server'[c] = server[c] /\ work'[c] = work[c],
         \A u \in Task : u # t =>
           /\ pc'[u] = pc[u] /\ want'[u] = want[u] /\ query'[u] = query[u]
           /\ sent'[u] = sent[u] /\ held'[u] = held[u]
  PROVE  CleanInv'
<1>1. UnheldIsClean'
  BY DEF CleanInv, UnheldIsClean
<1>2. ASSUME NEW u \in Task, u # t PROVE TaskClean(u)'
  <2>1. TaskClean(u)
    BY DEF CleanInv
  <2>. QED
    BY <1>2, <2>1, OthersStayClean
<1>. QED
  BY <1>1, <1>2 DEF CleanInv

\* A statement of the plan: a SET TRANSACTION leaves its level and nothing else,
\* the BEGIN opens what was asked for.
LEMMA RunPlanKeepsClean ==
  ASSUME HoldInv, CleanInv, NEW t \in Task, RunPlan(t)
  PROVE  CleanInv'
<1>. DEFINE c == held[t]
            o == want[t]
            plan == Plan(Family, o)
<1>1. /\ c \in Conn /\ o \in Options /\ place[c] = "held" /\ pc[t] = "beginning"
      /\ server[c] \in Session
  BY DEF HoldInv, HoldsOne, Exclusive, TypeOK, RunPlan, Holding
<1>2. BeginsClean(t) /\ ~Refuses(Family, o) /\ ~server[c].open /\ work[c] = {}
  BY <1>1 DEF CleanInv, TaskClean, BeginsClean
<1>3. /\ server'[c] = After(InFlight(t), server[c])
      /\ work'[c] = WorkAfter(InFlight(t), server[c], work[c])
      /\ sent'[t] = sent[t] + 1
      /\ pc'[t] = IF sent[t] + 1 = Len(plan) THEN "open" ELSE "beginning"
      /\ held'[t] = c /\ want'[t] = o /\ query'[t] = query[t]
  BY <1>1 DEF HoldInv, TypeOK, RunPlan, asked
<1>4. work'[c] = {}
  BY <1>2, <1>3 DEF WorkAfter
<1>5. TaskClean(t)'
  <2>1. CASE Family = "MySql" /\ o.isolation # Unset /\ sent[t] = 0
    <3>1. InFlight(t) = SetLevel(o.isolation) /\ Len(plan) = 2
      BY <1>1, <2>1, PlanShape DEF InFlight
    <3>2. pc'[t] = "beginning" /\ sent'[t] = 1
      BY <1>3, <2>1, <3>1
    <3>3. server'[c].next = o.isolation /\ ~server'[c].open
      BY <1>1, <1>2, <1>3, <3>1 DEF After, SetLevel, Session
    <3>. QED
      BY <1>2, <1>3, <1>4, <2>1, <3>2, <3>3
         DEF TaskClean, BeginsClean, RunsItsOwn, QueriesClean, AsksHonoured, Ending
  <2>2. CASE ~(Family = "MySql" /\ o.isolation # Unset /\ sent[t] = 0)
    <3>1. CASE Family = "MySql" /\ o.isolation # Unset
      <4>1. sent[t] = 1 /\ server[c].next = o.isolation
        BY <1>1, <1>2, <2>2, <3>1 DEF BeginsClean
      <4>2. InFlight(t) = BeginAs(Unset, o.access, Unset) /\ Len(plan) = 2
        BY <1>1, <3>1, <4>1, PlanShape DEF InFlight
      <4>3. pc'[t] = "open"
        BY <1>3, <4>1, <4>2
      <4>4. server'[c] = [open |-> TRUE, next |-> Unset,
                          runs |-> Opened(Family, BeginAs(Unset, o.access, Unset), o.isolation)]
        BY <1>2, <1>3, <4>1, <4>2 DEF After, BeginAs
      <4>5. server'[c].runs = Asked(Family, o)
        BY <1>1, <1>2, <3>1, <4>4, PlanOpensAsAsked
      <4>. QED
        BY <1>3, <1>4, <4>3, <4>4, <4>5
           DEF TaskClean, BeginsClean, RunsItsOwn, QueriesClean, AsksHonoured, Ending
    <3>2. CASE ~(Family = "MySql" /\ o.isolation # Unset)
      <4>1. sent[t] = 0 /\ server[c].next = Unset
        BY <1>1, <1>2, <3>2 DEF BeginsClean
      <4>2. Len(plan) = 1 /\ InFlight(t) = plan[1]
        BY <1>1, <3>2, <4>1, PlanShape DEF InFlight
      <4>3. pc'[t] = "open"
        BY <1>3, <4>1, <4>2
      <4>4. /\ InFlight(t).verb = "begin"
            /\ Opened(Family, InFlight(t), Unset) = Asked(Family, o)
        <5>1. CASE Family = "MySql"
          <6>1. InFlight(t) = BeginAs(Unset, o.access, Unset) /\ o.isolation = Unset
            BY <1>1, <3>2, <4>2, <5>1, PlanShape
          <6>. QED
            BY <1>1, <1>2, <5>1, <6>1, PlanOpensAsAsked DEF BeginAs
        <5>2. CASE Family = "Postgres"
          <6>1. InFlight(t) = BeginAs(o.isolation, o.access, Unset)
            BY <1>1, <4>2, <5>2, PlanShape
          <6>. QED
            BY <1>1, <1>2, <5>2, <6>1, PlanOpensAsAsked DEF BeginAs
        <5>3. CASE Family = "Sqlite"
          <6>1. InFlight(t) = BeginAs(Unset, Unset, o.sqliteBegin)
            BY <1>1, <4>2, <5>3, PlanShape
          <6>. QED
            BY <1>1, <1>2, <5>3, <6>1, PlanOpensAsAsked DEF BeginAs
        <5>. QED
          BY <5>1, <5>2, <5>3, FamilyAssumption DEF Families
      <4>5. server'[c] = [open |-> TRUE, next |-> Unset, runs |-> Asked(Family, o)]
        BY <1>2, <1>3, <4>1, <4>4 DEF After
      <4>. QED
        BY <1>3, <1>4, <4>3, <4>5
           DEF TaskClean, BeginsClean, RunsItsOwn, QueriesClean, AsksHonoured, Ending
    <3>. QED
      BY <3>1, <3>2
  <2>. QED
    BY <2>1, <2>2
<1>6. /\ place' = place
      /\ \A d \in Conn : d # c => server'[d] = server[d] /\ work'[d] = work[d]
      /\ \A u \in Task : u # t =>
           /\ pc'[u] = pc[u] /\ want'[u] = want[u] /\ query'[u] = query[u]
           /\ sent'[u] = sent[u] /\ held'[u] = held[u]
  BY <1>1 DEF RunPlan, HoldInv, TypeOK, asked
<1>. QED
  BY <1>1, <1>5, <1>6, StayingClean

LEMMA AcquireKeepsClean ==
  ASSUME HoldInv, CleanInv, NEW t \in Task, NEW c \in Conn, Acquire(t, c)
  PROVE  CleanInv'
<1>1. /\ held[t] = NoConn /\ held'[t] = c /\ sent'[t] = 0 /\ query'[t] = query[t]
      /\ pc[t] = "acquiring" /\ want'[t] = want[t]
      /\ pc'[t] = IF query[t] THEN "querying" ELSE "beginning"
      /\ place'[c] = "held" /\ server' = server /\ work' = work
  BY DEF HoldInv, HoldsOne, TypeOK, Acquire, Holding, Ending, asked
<1>2. ~server[c].open /\ server[c].next = Unset /\ work[c] = {}
  BY DEF CleanInv, UnheldIsClean, Acquire, Offered
<1>3. TaskClean(t)'
  <2>1. AsksHonoured(t)
    BY DEF CleanInv, TaskClean
  <2>2. CASE query[t]
    BY <1>1, <1>2, <2>2
       DEF TaskClean, BeginsClean, RunsItsOwn, QueriesClean, AsksHonoured, Ending
  <2>3. CASE ~query[t]
    <3>1. ~Refuses(Family, want[t])
      BY <1>1, <2>1, <2>3 DEF AsksHonoured
    <3>. QED
      BY <1>1, <1>2, <2>3, <3>1
         DEF TaskClean, BeginsClean, RunsItsOwn, QueriesClean, AsksHonoured, Ending
  <2>. QED
    BY <2>2, <2>3
<1>4. UnheldIsClean'
  BY <1>1 DEF CleanInv, UnheldIsClean, Acquire, HoldInv, TypeOK
<1>5. ASSUME NEW u \in Task, u # t PROVE TaskClean(u)'
  <2>1. /\ pc'[u] = pc[u] /\ want'[u] = want[u] /\ query'[u] = query[u]
        /\ sent'[u] = sent[u] /\ held'[u] = held[u] /\ TaskClean(u)
    BY <1>5 DEF HoldInv, TypeOK, CleanInv, asked, Acquire
  <2>. QED
    BY <1>1, <1>5, <2>1, OthersStayClean
<1>. QED
  BY <1>3, <1>4, <1>5 DEF CleanInv

\* Every step keeps CleanInv, from HoldInv.
LEMMA CleanInvStep ==
  ASSUME NothingDropped
  PROVE  HoldInv /\ CleanInv /\ [Next]_vars => CleanInv'
<1>. SUFFICES ASSUME HoldInv, CleanInv, [Next]_vars PROVE CleanInv'
  OBVIOUS
<1>1. ASSUME NEW t \in Task, NEW o \in Asks, BeginWith(t, o) PROVE CleanInv'
  <2>1. pc[t] = "idle" /\ pc'[t] = "acquiring" /\ want'[t] = o /\ ~Refuses(Family, o)
    BY <1>1 DEF BeginWith, HoldInv, TypeOK
  <2>2. TaskClean(t)' /\ held[t] \notin Conn
    BY <2>1, NoConnAssumption DEF TaskClean, BeginsClean, RunsItsOwn, QueriesClean,
       AsksHonoured, Ending, HoldInv, HoldsOne, TypeOK, Holding
  <2>3. /\ place' = place /\ server' = server /\ work' = work
        /\ \A u \in Task : u # t =>
             /\ pc'[u] = pc[u] /\ want'[u] = want[u] /\ query'[u] = query[u]
             /\ sent'[u] = sent[u] /\ held'[u] = held[u]
    BY <1>1 DEF BeginWith, HoldInv, TypeOK
  <2>. QED
    BY <2>2, <2>3, StayingClean
<1>2. ASSUME NEW t \in Task, Query(t) PROVE CleanInv'
  <2>1. pc[t] = "idle" /\ pc'[t] = "acquiring" /\ query'[t]
    BY <1>2 DEF Query, HoldInv, TypeOK
  <2>2. TaskClean(t)' /\ held[t] \notin Conn
    BY <2>1, NoConnAssumption DEF TaskClean, BeginsClean, RunsItsOwn, QueriesClean,
       AsksHonoured, Ending, HoldInv, HoldsOne, TypeOK, Holding
  <2>3. /\ place' = place /\ server' = server /\ work' = work
        /\ \A u \in Task : u # t =>
             /\ pc'[u] = pc[u] /\ want'[u] = want[u] /\ query'[u] = query[u]
             /\ sent'[u] = sent[u] /\ held'[u] = held[u]
    BY <1>2 DEF Query, HoldInv, TypeOK
  <2>. QED
    BY <2>2, <2>3, StayingClean
<1>3. ASSUME NEW t \in Task, NEW c \in Conn, Acquire(t, c) PROVE CleanInv'
  BY <1>3, AcquireKeepsClean
<1>4. ASSUME NEW t \in Task, GiveUp(t) PROVE CleanInv'
  <2>1. pc[t] = "acquiring" /\ pc'[t] = "idle"
    BY <1>4 DEF GiveUp, HoldInv, TypeOK
  <2>2. TaskClean(t)' /\ held[t] \notin Conn
    BY <2>1, NoConnAssumption DEF TaskClean, BeginsClean, RunsItsOwn, QueriesClean,
       AsksHonoured, Ending, HoldInv, HoldsOne, TypeOK, Holding
  <2>3. /\ place' = place /\ server' = server /\ work' = work
        /\ \A u \in Task : u # t =>
             /\ pc'[u] = pc[u] /\ want'[u] = want[u] /\ query'[u] = query[u]
             /\ sent'[u] = sent[u] /\ held'[u] = held[u]
    BY <1>4 DEF GiveUp, HoldInv, TypeOK, asked
  <2>. QED
    BY <2>2, <2>3, StayingClean
<1>5. ASSUME NEW t \in Task, RunPlan(t) PROVE CleanInv'
  BY <1>5, RunPlanKeepsClean
<1>6. ASSUME NEW t \in Task,
             PlanFails(t) \/ EndFails(t) \/ DropTransaction(t) \/ QueryFails(t)
      PROVE CleanInv'
  <2>1. pc[t] \in Holding /\ Abandon(t) /\ UNCHANGED <<asked, sent>>
    BY <1>6 DEF PlanFails, EndFails, DropTransaction, QueryFails, Holding
  <2>. QED
    BY <2>1, AbandonKeepsClean
<1>7. ASSUME NEW t \in Task, Write(t) PROVE CleanInv'
  <2>1. held[t] \in Conn /\ place[held[t]] = "held" /\ pc[t] = "open" /\ TaskClean(t)
    BY <1>7 DEF Write, HoldInv, HoldsOne, Exclusive, TypeOK, Holding, CleanInv
  <2>2. work'[held[t]] = work[held[t]] \union {t}
    BY <1>7, <2>1 DEF Write, HoldInv, TypeOK
  <2>3. TaskClean(t)'
    BY <1>7, <2>1, <2>2 DEF Write, TaskClean, BeginsClean, RunsItsOwn, QueriesClean,
       AsksHonoured, asked
  <2>4. /\ place' = place
        /\ \A d \in Conn : d # held[t] => server'[d] = server[d] /\ work'[d] = work[d]
        /\ \A u \in Task : u # t =>
             /\ pc'[u] = pc[u] /\ want'[u] = want[u] /\ query'[u] = query[u]
             /\ sent'[u] = sent[u] /\ held'[u] = held[u]
    BY <1>7, <2>1 DEF Write, HoldInv, TypeOK, asked
  <2>. QED
    BY <2>1, <2>3, <2>4, StayingClean
<1>8. ASSUME NEW t \in Task, NEW how \in Ending, Return(t, how) PROVE CleanInv'
  <2>1. /\ held[t] \in Conn /\ place[held[t]] = "held" /\ pc[t] = "open" /\ TaskClean(t)
        /\ pc'[t] = how
    BY <1>8 DEF Return, HoldInv, HoldsOne, Exclusive, TypeOK, Holding, CleanInv
  <2>2. TaskClean(t)'
    BY <1>8, <2>1 DEF Return, TaskClean, BeginsClean, RunsItsOwn, QueriesClean,
       AsksHonoured, asked, Ending
  <2>3. /\ place' = place /\ server' = server /\ work' = work
        /\ \A u \in Task : u # t =>
             /\ pc'[u] = pc[u] /\ want'[u] = want[u] /\ query'[u] = query[u]
             /\ sent'[u] = sent[u] /\ held'[u] = held[u]
    BY <1>8 DEF Return, HoldInv, TypeOK, asked
  <2>. QED
    BY <2>1, <2>2, <2>3, StayingClean
<1>9. ASSUME NEW t \in Task, End(t) PROVE CleanInv'
  <2>. DEFINE s == [server[held[t]] EXCEPT !.open = FALSE]
  <2>1. pc[t] \in Holding /\ pc[t] \in Ending /\ UNCHANGED <<asked, sent>>
    BY <1>9 DEF End, Holding
  <2>2. held[t] \in Conn /\ server[held[t]] \in Session /\ server[held[t]].next = Unset
    BY <2>1 DEF HoldInv, HoldsOne, TypeOK, CleanInv, TaskClean, RunsItsOwn
  <2>3. s \in Session /\ ~s.open /\ s.next = Unset /\ {} \in SUBSET Task
    BY <2>2 DEF Session
  <2>4. GiveBack(t, s, {})
    BY <1>9 DEF End
  <2>. HIDE DEF s
  <2>. QED
    BY <2>1, <2>3, <2>4, GiveBackKeepsClean
<1>10. ASSUME NEW t \in Task, RunQuery(t) PROVE CleanInv'
  <2>. DEFINE s == [server[held[t]] EXCEPT !.next = Unset]
  <2>1. pc[t] \in Holding /\ pc[t] = "querying" /\ UNCHANGED <<asked, sent>>
    BY <1>10 DEF RunQuery, Holding
  <2>2. held[t] \in Conn /\ server[held[t]] \in Session /\ ~server[held[t]].open
    BY <2>1 DEF HoldInv, HoldsOne, TypeOK, CleanInv, TaskClean, QueriesClean
  <2>3. s \in Session /\ ~s.open /\ s.next = Unset /\ {} \in SUBSET Task
    BY <2>2 DEF Session
  <2>4. GiveBack(t, s, {})
    BY <1>10, <2>2 DEF RunQuery
  <2>. HIDE DEF s
  <2>. QED
    BY <2>1, <2>3, <2>4, GiveBackKeepsClean
<1>11. ASSUME NEW t \in Task, NEW carriedOut \in BOOLEAN,
              DropBegin(t, carriedOut) \/ DropEnd(t, carriedOut)
       PROVE CleanInv'
  <2>1. ~Pooled
    BY <1>11 DEF NothingDropped, DropBegin, DropEnd
  <2>2. pc[t] \in Holding /\ UNCHANGED <<asked, sent>>
    BY <1>11 DEF DropBegin, DropEnd, Holding
  <2>3. GiveBack(t, Clean, {})
    BY <1>11, <2>1 DEF DropBegin, DropEnd, GiveBack
  <2>4. Clean \in Session /\ {} \in SUBSET Task
    BY FamilyAssumption DEF Clean, Session, Default, Options, Families, Isolation, Access,
       SqliteBegin, Unset
  <2>. QED
    BY <2>1, <2>2, <2>3, <2>4, GiveBackKeepsClean
<1>12. CASE UNCHANGED vars
  <2>1. /\ pc' = pc /\ want' = want /\ query' = query /\ sent' = sent /\ held' = held
        /\ place' = place /\ server' = server /\ work' = work
    BY <1>12 DEF vars
  <2>. QED
    BY <2>1 DEF CleanInv, UnheldIsClean, TaskClean, BeginsClean, RunsItsOwn,
       QueriesClean, AsksHonoured
<1>. QED
  BY <1>1, <1>2, <1>3, <1>4, <1>5, <1>6, <1>7, <1>8, <1>9, <1>10, <1>11, <1>12 DEF Next

LEMMA CleanInvInit == Init => CleanInv
BY DEF Init, CleanInv, UnheldIsClean, TaskClean, BeginsClean, RunsItsOwn, QueriesClean,
   AsksHonoured, Clean, Ending

LEMMA CleanInvAlways ==
  ASSUME NothingDropped
  PROVE  Spec => [](HoldInv /\ CleanInv)
BY HoldInvInit, HoldInvStep, CleanInvInit, CleanInvStep, PTL DEF Spec

\* An idle connection carries no transaction and no level into its next checkout
\* (mod.rs, begin_on_with and end), as long as no future is dropped in begin or
\* end, or the backend pools nothing.
THEOREM IdleIsCleanAlways ==
  ASSUME NothingDropped
  PROVE  Spec => []IdleIsClean
<1>1. HoldInv /\ CleanInv => IdleIsClean
  BY DEF CleanInv, UnheldIsClean, IdleIsClean
<1>. QED
  BY <1>1, CleanInvAlways, PTL

\* A transaction runs at what its caller asked for, on every family and for every
\* combination of options (options.rs, plan), under the same condition.
THEOREM RunsAsAskedAlways ==
  ASSUME NothingDropped
  PROVE  Spec => []RunsAsAsked
<1>1. HoldInv /\ CleanInv => RunsAsAsked
  BY DEF CleanInv, TaskClean, RunsItsOwn, RunsAsAsked
<1>. QED
  BY <1>1, CleanInvAlways, PTL

\* Nobody's writes are in another task's transaction, under the same condition.
THEOREM OnlyOwnWorkAlways ==
  ASSUME NothingDropped
  PROVE  Spec => []OnlyOwnWork
<1>1. HoldInv /\ CleanInv => OnlyOwnWork
  <2>. SUFFICES ASSUME HoldInv, CleanInv, NEW c \in Conn, NEW t \in work[c]
                PROVE  held[t] = c
    BY DEF OnlyOwnWork
  <2>1. place[c] = "held"
    BY DEF CleanInv, UnheldIsClean, HoldInv, TypeOK
  <2>2. PICK u \in Task : held[u] = c
    BY <2>1 DEF HoldInv, NothingLeaks
  <2>3. pc[u] \in Holding
    BY <2>2, NoConnAssumption DEF HoldInv, HoldsOne
  <2>4. pc[u] \in {"open"} \union Ending
    BY <2>2, <2>3 DEF CleanInv, TaskClean, BeginsClean, QueriesClean, Holding
  <2>5. work[c] \subseteq {u}
    BY <2>2, <2>4 DEF CleanInv, TaskClean, RunsItsOwn
  <2>. QED
    BY <2>2, <2>5
<1>. QED
  BY <1>1, CleanInvAlways, PTL
=============================================================================
