------------------------ MODULE GeneratedTreeProofs ------------------------
(***************************************************************************)
(* What holds of the generator's runs whatever the catalogs, the targets    *)
(* and the files they generate are, and whatever the developer does while   *)
(* they run: the properties of GeneratedTree, from one inductive invariant. *)
(***************************************************************************)
EXTENDS GeneratedTree, SequenceTheorems, TLAPS

-----------------------------------------------------------------------------
\* The inductive invariant.

\* A target is touched only after a schema was read and the target rendered.
ReadFirst ==
    /\ run.step \in {"save", "render", "sweep", "write"} => Read \in Catalogs
    /\ run.step \in {"sweep", "write"} => ~Refuses(run.target, Read)
    /\ run.step = "sweep" => run.next = 1
    /\ run.step = "save" => run.url
    /\ run.step # "sweep" => run.doomed = {}

\* The outcome comes with the end of the run.
OutcomeLast == Running => run.outcome = "none"

Typed == TypeOK /\ ReadFirst /\ OutcomeLast

\* The developer has not touched the file since the run began.
Unedited(t, n) == <<t, n>> \notin run.edited

Live == Running \/ run.outcome = "completed"

\* The targets whose schema the run has read.
Reading == {t \in Targets : t \in Behind \/ (t = run.target /\ run.step \notin {"idle", "introspect"})}

\* What the run has read is what it would read now, unless it reads the
\* database and that was migrated.
ReadsAgree ==
    Live /\ ~(run.url /\ run.migrated) => \A t \in Reading : run.reads[t] = Source(run.url)

\* The snapshot is saved before the target is rendered.
SavedFirst ==
    /\ run.url /\ run.step \in {"render", "sweep", "write"} => snapshot = Read
    /\ run.url /\ run.outcome = "completed" => snapshot = run.reads[Count]

\* The targets the run is done with are as it generates them ...
Settled ==
    \A t \in Behind :
      /\ run.reads[t] \in Catalogs /\ ~Refuses(t, run.reads[t])
      /\ \A n \in FileNames : Unedited(t, n) => AsGenerated(t, run.reads[t], n, disk[t][n])

\* ... the one it sweeps keeps no leftover among the files it has looked at ...
SweptSoFar ==
    run.step = "sweep" =>
      \A n \in FileNames : Unedited(run.target, n) =>
        /\ IsOurs(disk[run.target][n]) /\ n \notin run.left /\ n \notin run.doomed
             => n \in Wanted(run.target, Read)
        /\ n \in run.doomed => IsOurs(disk[run.target][n]) /\ n \notin Wanted(run.target, Read)

\* ... the one it writes has none, and the files up to the next one ...
Begun(t, c, n, k) == \E i \in DOMAIN Files(t, c) : i < k /\ Files(t, c)[i].name = n
WrittenSoFar ==
    run.step = "write" =>
      \A n \in FileNames : Unedited(run.target, n) =>
        /\ n \notin Wanted(run.target, Read) => ~IsOurs(disk[run.target][n])
        /\ Begun(run.target, Read, n, run.next)
             => WrittenAs(run.target, Read, n, run.next, disk[run.target][n])

\* ... and those to come are as the run found them.
Untouched ==
    Running =>
      \A t \in Targets :
        t > run.target \/ (t = run.target /\ run.step \notin {"sweep", "write"})
          => \A n \in FileNames : Unedited(t, n) => disk[t][n] = run.before[1][t][n]

Settling == Settled /\ SweptSoFar /\ WrittenSoFar
Sourced == ReadsAgree /\ SavedFirst

\* What --check said of the disk d and the snapshot s, the catalog being the same.
SourceOf(url, s) == IF url THEN catalog ELSE s
InOrderAt(t, c, d) ==
    /\ \A i \in DOMAIN Files(t, c) : d[t][Files(t, c)[i].name] = Files(t, c)[i].text
    /\ {n \in FileNames : IsOurs(d[t][n]) /\ n \notin Wanted(t, c)} = {}
UpToDateAt(url, d, s) ==
    /\ SourceOf(url, s) \in Catalogs
    /\ \A t \in Targets : ~Refuses(t, SourceOf(url, s))
    /\ url => s = catalog
    /\ \A t \in Targets : InOrderAt(t, SourceOf(url, s), d)

CleanIsCheck ==
    Live /\ ~run.migrated => (run.clean <=> UpToDateAt(run.url, run.before[1], run.before[2]))

\* After a clean check the run changes nothing.
CleanChangesNothing ==
    Live /\ ~run.migrated /\ run.clean =>
      /\ snapshot = run.before[2]
      /\ \A t \in Targets, n \in FileNames : Unedited(t, n) => disk[t][n] = run.before[1][t][n]

-----------------------------------------------------------------------------
\* Types.

LEMMA TargetIsOne == 1 \in Targets
BY CountAssumption DEF Targets

LEMMA OneIsPositive == 1 \in Nat \ {0}
OBVIOUS

\* What a rendered target writes are texts under names of its directory.
LEMMA FilesOfTarget ==
  ASSUME NEW t \in Targets, NEW c \in Catalogs, ~Refuses(t, c)
  PROVE  /\ DOMAIN Files(t, c) = 1..Len(Files(t, c))
         /\ Len(Files(t, c)) \in Nat
         /\ \A i \in DOMAIN Files(t, c) :
              /\ Files(t, c)[i].name \in FileNames /\ Files(t, c)[i].text \in Texts
              /\ Files(t, c)[i] = [name |-> Files(t, c)[i].name, text |-> Files(t, c)[i].text]
         /\ Wanted(t, c) \subseteq FileNames
<1>1. Files(t, c) \in Seq([name : FileNames, text : Texts])
  BY FilesAssumption
<1>2. /\ DOMAIN Files(t, c) = 1..Len(Files(t, c))
      /\ Len(Files(t, c)) \in Nat
  BY <1>1
<1>3. \A i \in DOMAIN Files(t, c) : Files(t, c)[i] \in [name : FileNames, text : Texts]
  BY <1>1, <1>2, ElementOfSeq
<1>4. \A i \in DOMAIN Files(t, c) :
         /\ Files(t, c)[i].name \in FileNames /\ Files(t, c)[i].text \in Texts
         /\ Files(t, c)[i] = [name |-> Files(t, c)[i].name, text |-> Files(t, c)[i].text]
  BY <1>3
<1>5. Wanted(t, c) \subseteq FileNames
  BY <1>4 DEF Wanted
<1>. QED
  BY <1>2, <1>4, <1>5

LEMMA IdleTyped ==
  ASSUME disk \in Disks, snapshot \in Snapshots
  PROVE  Idle \in Runs
BY TargetIsOne DEF Idle, Runs, Steps, Outcomes

LEMMA TypedInit ==
  Init => Typed
<1>. SUFFICES ASSUME Init
              PROVE  Typed
  OBVIOUS
<1>1. disk \in Disks /\ snapshot \in Snapshots /\ catalog \in Catalogs
  BY DEF Init, Disks, Content, Snapshots
<1>2. run \in Runs
  BY <1>1, IdleTyped DEF Init
<1>3. edits \in 0..MaxEdits
  BY CountAssumption DEF Init
<1>4. ReadFirst /\ OutcomeLast
  BY DEF Init, Idle, ReadFirst, OutcomeLast, Running
<1>. QED
  BY <1>1, <1>2, <1>3, <1>4 DEF Typed, TypeOK

\* A run that ends keeps its type.
LEMMA EndTyped ==
  ASSUME run \in Runs, NEW outcome \in Outcomes
  PROVE  /\ End(outcome) \in Runs /\ End(outcome).step = "idle" /\ End(outcome).outcome = outcome
         /\ End(outcome).left = {} /\ End(outcome).doomed = {}
         /\ End(outcome).url = run.url /\ End(outcome).target = run.target
         /\ End(outcome).reads = run.reads /\ End(outcome).next = run.next
         /\ End(outcome).edited = run.edited
         /\ End(outcome).migrated = run.migrated /\ End(outcome).clean = run.clean
         /\ End(outcome).before = run.before
BY DEF End, Runs, Steps

LEMMA TypedStep ==
  ASSUME Typed, [Next]_vars
  PROVE  Typed'
<1>. USE DEF Typed, TypeOK, ReadFirst, OutcomeLast, Running
<1>1. CASE Introspect
  <2>1. CASE Source(run.url) \in Catalogs
    <3>1. run' = [run EXCEPT !.step = IF run.url THEN "save" ELSE "render",
                             !.reads[run.target] = Source(run.url)]
      BY <1>1, <2>1 DEF Introspect
    <3>2. run' \in Runs
      BY <2>1, <3>1 DEF Runs, Steps
    <3>. QED
      BY <1>1, <2>1, <3>1, <3>2 DEF Introspect, Runs, Read
  <2>2. CASE Source(run.url) \notin Catalogs
    <3>1. run' = End("refused") /\ "refused" \in Outcomes
      BY <1>1, <2>2 DEF Introspect, Outcomes
    <3>. QED
      BY <1>1, <3>1, EndTyped DEF Introspect
  <2>. QED
    BY <2>1, <2>2
<1>2. CASE Save
  <2>1. run' \in Runs
    BY <1>2 DEF Save, Runs, Steps
  <2>. QED
    BY <1>2, <2>1 DEF Save, Runs, Snapshots, Read
<1>3. CASE Render
  <2>1. CASE Refuses(run.target, Read)
    <3>1. run' = End("refused") /\ "refused" \in Outcomes
      BY <1>3, <2>1 DEF Render, Outcomes
    <3>. QED
      BY <1>3, <3>1, EndTyped DEF Render
  <2>2. CASE ~Refuses(run.target, Read)
    <3>. DEFINE listed == {n \in FileNames : disk[run.target][n] # Absent}
    <3>1. run' = [run EXCEPT !.step = "sweep", !.next = 1, !.left = listed]
      BY <1>3, <2>2 DEF Render
    <3>2. listed \in SUBSET FileNames
      OBVIOUS
    <3>. HIDE DEF listed
    <3>3. run' \in Runs
      BY <3>1, <3>2, OneIsPositive DEF Runs, Steps
    <3>. QED
      BY <1>3, <2>2, <3>1, <3>3 DEF Render, Runs, Read
  <2>. QED
    BY <2>1, <2>2
<1>4. CASE Swept
  <2>1. run' \in Runs
    BY <1>4 DEF Swept, Runs, Steps
  <2>. QED
    BY <1>4, <2>1 DEF Swept, Runs, Read
<1>5. CASE WriteFile
  <2>1. run' \in Runs
    BY <1>5 DEF WriteFile, Runs
  <2>2. disk' \in Disks
    <3>1. /\ Files(run.target, Read)[run.next].name \in FileNames
          /\ Files(run.target, Read)[run.next].text \in Texts
      BY <1>5, FilesOfTarget DEF WriteFile, Runs
    <3>. QED
      BY <1>5, <3>1 DEF WriteFile, Disks, Content, Runs
  <2>. QED
    BY <1>5, <2>1, <2>2 DEF WriteFile, Runs, Read
<1>6. CASE Written
  <2>1. CASE run.target = Count
    <3>1. run' = End("completed") /\ "completed" \in Outcomes
      BY <1>6, <2>1 DEF Written, Outcomes
    <3>. QED
      BY <1>6, <3>1, EndTyped DEF Written
  <2>2. CASE run.target # Count
    <3>1. run.target + 1 \in Targets
      BY <2>2, CountAssumption DEF Runs, Targets
    <3>2. run' \in Runs
      BY <1>6, <2>2, <3>1 DEF Written, Runs, Steps
    <3>. QED
      BY <1>6, <2>2, <3>2 DEF Written, Runs
  <2>. QED
    BY <2>1, <2>2
<1>7. ASSUME NEW n \in FileNames, Look(n)
      PROVE  Typed'
  <2>1. {n} \cap Orphans(run.target, Read) \in SUBSET FileNames /\ run.left \ {n} \in SUBSET FileNames
    BY DEF Runs
  <2>2. run' \in Runs
    BY <1>7, <2>1 DEF Look, Runs
  <2>. QED
    BY <1>7, <2>2 DEF Look, Runs, Read
<1>8. ASSUME NEW n \in FileNames, RemoveDoomed(n)
      PROVE  Typed'
  <2>1. disk' \in Disks
    BY <1>8 DEF RemoveDoomed, Disks, Content, Runs
  <2>2. CASE disk[run.target][n] = Absent
    <3>1. run' = End("failed") /\ "failed" \in Outcomes
      BY <1>8, <2>2 DEF RemoveDoomed, Outcomes
    <3>. QED
      BY <1>8, <2>1, <3>1, EndTyped DEF RemoveDoomed
  <2>3. CASE disk[run.target][n] # Absent
    <3>1. run' = [run EXCEPT !.doomed = @ \ {n}]
      BY <1>8, <2>3 DEF RemoveDoomed
    <3>2. run' \in Runs
      BY <3>1 DEF Runs
    <3>. QED
      BY <1>8, <2>1, <3>1, <3>2 DEF RemoveDoomed, Runs, Read
  <2>. QED
    BY <2>2, <2>3
<1>9. ASSUME NEW c \in Catalogs, Migrate(c)
      PROVE  Typed'
  <2>1. run' \in Runs
    BY <1>9 DEF Migrate, Runs
  <2>. QED
    BY <1>9, <2>1, CountAssumption DEF Migrate, Disturb, Runs, Read
<1>10. ASSUME NEW t \in Targets, NEW n \in FileNames, Edit(t, n)
       PROVE  Typed'
  <2>1. run' \in Runs
    BY <1>10 DEF Edit, Runs
  <2>2. disk' \in Disks
    BY <1>10 DEF Edit, Disks, Content
  <2>. QED
    BY <1>10, <2>1, <2>2, CountAssumption DEF Edit, Disturb, Runs, Read
<1>11. CASE Crash
  <2>1. run' = End("crashed") /\ "crashed" \in Outcomes
    BY <1>11 DEF Crash, Outcomes
  <2>2. disk' \in Disks
    <3>1. CASE UNCHANGED disk
      BY <3>1
    <3>2. CASE /\ run.step = "write" /\ run.next \in DOMAIN Files(run.target, Read)
               /\ \E content \in {Torn, Altered} :
                    disk' = [disk EXCEPT ![run.target][Files(run.target, Read)[run.next].name] = content]
      <4>1. Files(run.target, Read)[run.next].name \in FileNames
        BY <3>2, FilesOfTarget DEF Runs
      <4>. QED
        BY <3>2, <4>1 DEF Disks, Content, Runs
    <3>. QED
      BY <1>11, <3>1, <3>2 DEF Crash
  <2>3. snapshot' \in Snapshots
    BY <1>11 DEF Crash, Snapshots
  <2>. QED
    BY <1>11, <2>1, <2>2, <2>3, EndTyped, CountAssumption DEF Crash, Disturb
<1>12. ASSUME NEW url \in BOOLEAN, Start(url)
       PROVE  Typed'
  <2>. DEFINE clean == UpToDate(url)
  <2>1. clean \in BOOLEAN
    BY DEF UpToDate
  <2>2. run' \in Runs
    <3>1. run' = [Idle EXCEPT !.step = "introspect", !.url = url, !.clean = clean]
      BY <1>12 DEF Start
    <3>2. Idle \in Runs
      BY IdleTyped
    <3>. HIDE DEF clean, Idle
    <3>. QED
      BY <2>1, <3>1, <3>2 DEF Runs, Steps
  <2>. QED
    BY <1>12, <2>2 DEF Start, Idle, Runs
<1>13. CASE UNCHANGED vars
  BY <1>13 DEF vars, Runs, Read
<1>. QED
  BY <1>1, <1>2, <1>3, <1>4, <1>5, <1>6, <1>7, <1>8, <1>9, <1>10, <1>11, <1>12, <1>13
     DEF Next, Generator, Developer

\* The state keeps its types: every file that is ever on disk, and every step
\* of a run, is one the model of keelson-gen's files speaks of.
THEOREM TypeCorrect == Spec => []TypeOK
<1>1. Typed => TypeOK
  BY DEF Typed
<1>. QED
  BY <1>1, TypedInit, TypedStep, PTL DEF Spec

-----------------------------------------------------------------------------
\* One step, seen from one file and from the run.

LEMMA Stays ==
  ASSUME Introspect \/ Save \/ Render \/ Swept \/ Written \/ UNCHANGED vars
         \/ (\E n \in FileNames : Look(n)) \/ (\E c \in Catalogs : Migrate(c))
         \/ (\E url \in BOOLEAN : Start(url))
  PROVE  disk' = disk
BY DEF Introspect, Save, Render, Swept, Written, vars, Look, Migrate, Start

LEMMA WriteFrame ==
  ASSUME Typed, WriteFile
  PROVE  /\ run.next \in DOMAIN Files(run.target, Read) /\ run.step = "write"
         /\ Files(run.target, Read)[run.next].name \in FileNames
         /\ Files(run.target, Read)[run.next].name \in Wanted(run.target, Read)
         /\ Files(run.target, Read)[run.next].text \in Texts
         /\ run' = [run EXCEPT !.next = @ + 1]
         /\ UNCHANGED <<catalog, snapshot>>
         /\ \A t \in Targets, n \in FileNames :
              disk'[t][n] = IF t = run.target /\ n = Files(run.target, Read)[run.next].name
                            THEN Files(run.target, Read)[run.next].text ELSE disk[t][n]
<1>1. /\ Files(run.target, Read)[run.next].name \in FileNames
      /\ Files(run.target, Read)[run.next].text \in Texts
  BY FilesOfTarget DEF WriteFile, Runs, Typed, TypeOK, ReadFirst
<1>2. \A t \in Targets, n \in FileNames :
        disk'[t][n] = IF t = run.target /\ n = Files(run.target, Read)[run.next].name
                      THEN Files(run.target, Read)[run.next].text ELSE disk[t][n]
  BY <1>1 DEF WriteFile, Disks, Typed, TypeOK
<1>. QED
  BY <1>1, <1>2 DEF WriteFile, Wanted

LEMMA RemoveFrame ==
  ASSUME Typed, NEW m \in FileNames, RemoveDoomed(m)
  PROVE  /\ m \in run.doomed /\ run.step = "sweep"
         /\ UNCHANGED <<catalog, snapshot>>
         /\ \A t \in Targets, n \in FileNames :
              disk'[t][n] = IF t = run.target /\ n = m THEN Absent ELSE disk[t][n]
BY DEF RemoveDoomed, Typed, TypeOK, Disks

LEMMA EditFrame ==
  ASSUME Typed, NEW s \in Targets, NEW m \in FileNames, Edit(s, m)
  PROVE  /\ run' = [run EXCEPT !.edited = @ \cup {<<s, m>>}]
         /\ UNCHANGED <<catalog, snapshot>>
         /\ \A t \in Targets, n \in FileNames :
              disk'[t][n] = disk[t][n] \/ <<t, n>> \in run'.edited
<1>1. run' = [run EXCEPT !.edited = @ \cup {<<s, m>>}] /\ run \in Runs
  BY DEF Edit, Typed, TypeOK
<1>2. <<s, m>> \in run'.edited
  BY <1>1 DEF Runs
<1>3. \A t \in Targets, n \in FileNames : disk'[t][n] = disk[t][n] \/ (t = s /\ n = m)
  BY DEF Edit, Typed, TypeOK, Disks
<1>. QED
  BY <1>1, <1>2, <1>3 DEF Edit

LEMMA CrashFrame ==
  ASSUME Typed, Crash
  PROVE  /\ Running /\ run' = End("crashed")
         /\ \A t \in Targets, n \in FileNames :
              \/ disk'[t][n] = disk[t][n]
              \/ t = run.target /\ run.step = "write" /\ n \in Wanted(run.target, Read)
<1>1. CASE UNCHANGED disk
  BY <1>1 DEF Crash
<1>2. CASE /\ run.step = "write" /\ run.next \in DOMAIN Files(run.target, Read)
           /\ \E content \in {Torn, Altered} :
                disk' = [disk EXCEPT ![run.target][Files(run.target, Read)[run.next].name] = content]
  BY <1>2 DEF Crash, Typed, TypeOK, Disks, Wanted
<1>. QED
  BY <1>1, <1>2 DEF Crash

\* Where each action leaves the run.
LEMMA StepsTaken ==
  ASSUME Typed
  PROVE  /\ Introspect => run'.step \in {"idle", "save", "render"}
         /\ Save => run'.step = "render"
         /\ Render => run'.step \in {"idle", "sweep"}
         /\ \A n \in FileNames : Look(n) \/ RemoveDoomed(n) => run'.step \in {"idle", "sweep"}
         /\ Swept => run'.step = "write"
         /\ WriteFile => run'.step = "write"
         /\ Written => run'.step \in {"idle", "introspect"}
         /\ Crash => run'.step = "idle"
         /\ \A url \in BOOLEAN : Start(url) => run'.step = "introspect" /\ run'.target = 1
<1>. USE DEF Typed, TypeOK, Runs
<1>1. /\ Save => run'.step = "render"
      /\ Swept => run'.step = "write"
  BY DEF Save, Swept
<1>2. WriteFile => run'.step = "write"
  BY DEF WriteFile
<1>3. \A n \in FileNames : Look(n) => run'.step = "sweep"
  BY DEF Look
<1>4. \A n \in FileNames : RemoveDoomed(n) => run'.step \in {"idle", "sweep"}
  BY DEF RemoveDoomed, End
<1>5. Introspect => run'.step \in {"idle", "save", "render"}
  BY DEF Introspect, End
<1>6. Render => run'.step \in {"idle", "sweep"}
  BY DEF Render, End
<1>7. Written => run'.step \in {"idle", "introspect"}
  BY DEF Written, End
<1>8. Crash => run'.step = "idle"
  BY DEF Crash, End
<1>9. \A url \in BOOLEAN : Start(url) => run'.step = "introspect" /\ run'.target = 1
  BY DEF Start, Idle
<1>. QED
  BY <1>1, <1>2, <1>3, <1>4, <1>5, <1>6, <1>7, <1>8, <1>9

\* How each action leaves the outcome.
LEMMA OutcomesTaken ==
  ASSUME Typed
  PROVE  /\ Introspect \/ Save \/ Render \/ Swept \/ WriteFile
              => run'.outcome \in {"none", "refused"}
         /\ \A n \in FileNames : Look(n) \/ RemoveDoomed(n) => run'.outcome \in {"none", "failed"}
         /\ Written =>
              \/ run.target = Count /\ run'.outcome = "completed" /\ run'.step = "idle"
              \/ /\ run.target # Count /\ run'.outcome = "none" /\ run'.step = "introspect"
                 /\ run'.target = run.target + 1
         /\ Crash => run'.outcome = "crashed"
         /\ (\E c \in Catalogs : Migrate(c)) \/ (\E t \in Targets, n \in FileNames : Edit(t, n))
              \/ UNCHANGED vars => run'.outcome = run.outcome
         /\ \A url \in BOOLEAN : Start(url) => run'.outcome = "none"
<1>. USE DEF Typed, TypeOK, Runs, OutcomeLast, Running
<1>1. Save \/ Swept => run'.outcome = "none"
  BY DEF Save, Swept
<1>2. WriteFile => run'.outcome = "none"
  BY DEF WriteFile
<1>3. \A n \in FileNames : Look(n) => run'.outcome = "none"
  BY DEF Look
<1>4. \A n \in FileNames : RemoveDoomed(n) => run'.outcome \in {"none", "failed"}
  BY DEF RemoveDoomed, End
<1>5. Introspect => run'.outcome \in {"none", "refused"}
  BY DEF Introspect, End
<1>6. Render => run'.outcome \in {"none", "refused"}
  BY DEF Render, End
<1>7. ASSUME Written
      PROVE  \/ run.target = Count /\ run'.outcome = "completed" /\ run'.step = "idle"
             \/ /\ run.target # Count /\ run'.outcome = "none" /\ run'.step = "introspect"
                /\ run'.target = run.target + 1
  BY <1>7 DEF Written, End
<1>8. Crash => run'.outcome = "crashed"
  BY DEF Crash, End
<1>9. (\E c \in Catalogs : Migrate(c)) \/ (\E t \in Targets, n \in FileNames : Edit(t, n))
        \/ UNCHANGED vars => run'.outcome = run.outcome
  BY DEF Migrate, Edit, vars
<1>10. \A url \in BOOLEAN : Start(url) => run'.outcome = "none"
  BY DEF Start, Idle
<1>. QED
  BY <1>1, <1>2, <1>3, <1>4, <1>5, <1>6, <1>7, <1>8, <1>9, <1>10

\* What the run is about, and what it has read before.
LEMMA RunStep ==
  ASSUME Typed, [Next]_vars
  PROVE  \/ \E url \in BOOLEAN : Start(url)
         \/ /\ run'.before = run.before /\ run'.url = run.url /\ run'.clean = run.clean
            /\ \A x \in run.edited : x \in run'.edited
            /\ run.migrated => run'.migrated
            /\ \A t \in Targets : t # run.target \/ run.step # "introspect" => run'.reads[t] = run.reads[t]
            /\ run'.target = run.target \/ (run'.target = run.target + 1 /\ run'.step = "introspect" /\ Written)
<1>. USE DEF Typed, TypeOK
<1>0. run \in Runs
  OBVIOUS
<1>1. CASE Introspect
  <2>1. CASE Source(run.url) \in Catalogs
    BY <1>0, <1>1, <2>1 DEF Introspect, Runs
  <2>2. CASE Source(run.url) \notin Catalogs
    BY <1>1, <2>2 DEF Introspect, End, Runs
  <2>. QED
    BY <2>1, <2>2
<1>2. CASE Save \/ Swept
  BY <1>2 DEF Save, Swept, Runs
<1>9. CASE Render
  <2>1. CASE run' = End("refused")
    BY <1>9, <2>1, EndTyped DEF Render, Outcomes
  <2>2. CASE run' # End("refused")
    BY <1>0, <1>9, <2>2 DEF Render, Runs
  <2>. QED
    BY <2>1, <2>2
<1>10. CASE Written
  <2>1. CASE run' = End("completed")
    BY <1>10, <2>1, EndTyped DEF Written, Outcomes
  <2>2. CASE run' # End("completed")
    BY <1>0, <1>10, <2>2 DEF Written, Runs
  <2>. QED
    BY <2>1, <2>2
<1>3. CASE WriteFile
  BY <1>3 DEF WriteFile, Runs
<1>4. ASSUME NEW n \in FileNames, Look(n) \/ RemoveDoomed(n)
      PROVE  /\ run'.before = run.before /\ run'.url = run.url /\ run'.clean = run.clean
             /\ run'.edited = run.edited /\ run'.migrated = run.migrated
             /\ run'.reads = run.reads /\ run'.target = run.target
  <2>1. CASE Look(n)
    BY <2>1 DEF Look, Runs
  <2>2. CASE RemoveDoomed(n) /\ run' = End("failed")
    BY <2>2, EndTyped DEF Outcomes
  <2>3. CASE RemoveDoomed(n) /\ run' # End("failed")
    BY <1>0, <2>3 DEF RemoveDoomed, Runs
  <2>. QED
    BY <1>4, <2>1, <2>2, <2>3
<1>5. ASSUME NEW c \in Catalogs, Migrate(c)
      PROVE  /\ run'.before = run.before /\ run'.url = run.url /\ run'.clean = run.clean
             /\ run'.edited = run.edited /\ run'.migrated
             /\ run'.reads = run.reads /\ run'.target = run.target
  BY <1>5 DEF Migrate, Runs
<1>6. ASSUME NEW t \in Targets, NEW n \in FileNames, Edit(t, n)
      PROVE  /\ run'.before = run.before /\ run'.url = run.url /\ run'.clean = run.clean
             /\ \A x \in run.edited : x \in run'.edited
             /\ run'.migrated = run.migrated
             /\ run'.reads = run.reads /\ run'.target = run.target
  BY <1>6 DEF Edit, Runs
<1>7. CASE Crash
  BY <1>7, EndTyped DEF Crash, Outcomes
<1>8. CASE UNCHANGED vars
  BY <1>8 DEF vars
<1>. QED
  BY <1>1, <1>2, <1>3, <1>4, <1>5, <1>6, <1>7, <1>8, <1>9, <1>10 DEF Next, Generator, Developer

\* Only the run and the developer touch a file, and the run only those of the
\* target it is at that it wants or has condemned.
LEMMA FileStep ==
  ASSUME Typed, [Next]_vars, NEW t \in Targets, NEW n \in FileNames,
         Unedited(t, n)', disk'[t][n] # disk[t][n]
  PROVE  /\ t = run.target /\ run'.target = run.target
         /\ \/ run.step = "write" /\ n \in Wanted(run.target, Read)
            \/ run.step = "sweep" /\ n \in run.doomed
<1>. USE DEF Typed, TypeOK
<1>1. CASE WriteFile
  BY <1>1, WriteFrame DEF Runs
<1>2. ASSUME NEW m \in FileNames, RemoveDoomed(m)
      PROVE  t = run.target /\ run.step = "sweep" /\ n \in run.doomed /\ run'.target = run.target
  <2>0. /\ m \in run.doomed /\ run.step = "sweep"
        /\ disk'[t][n] = IF t = run.target /\ n = m THEN Absent ELSE disk[t][n]
    BY <1>2, RemoveFrame
  <2>1. t = run.target /\ n = m /\ m \in run.doomed /\ run.step = "sweep"
    BY ONLY <2>0, disk'[t][n] # disk[t][n]
  <2>2. run'.target = run.target
    <3>1. CASE run' = End("failed")
      BY <3>1, EndTyped DEF Outcomes
    <3>2. CASE run' # End("failed")
      BY <1>2, <3>2 DEF RemoveDoomed, Runs
    <3>. QED
      BY <3>1, <3>2
  <2>. QED
    BY <2>1, <2>2
<1>3. ASSUME NEW s \in Targets, NEW m \in FileNames, Edit(s, m)
      PROVE  FALSE
  BY <1>3, EditFrame DEF Unedited
<1>4. CASE Crash
  BY <1>4, CrashFrame, EndTyped DEF Outcomes
<1>5. ~(Introspect \/ Save \/ Render \/ Swept \/ Written \/ UNCHANGED vars
         \/ (\E m \in FileNames : Look(m)) \/ (\E c \in Catalogs : Migrate(c))
         \/ (\E url \in BOOLEAN : Start(url)))
  BY Stays
<1>. QED
  BY <1>1, <1>2, <1>3, <1>4, <1>5 DEF Next, Generator, Developer

\* Between reading a schema and the end of its target.
LEMMA MidStep ==
  ASSUME Typed,
         Render \/ Swept \/ WriteFile \/ (\E n \in FileNames : Look(n) \/ RemoveDoomed(n))
  PROVE  /\ run'.reads = run.reads /\ run'.target = run.target /\ UNCHANGED <<catalog, snapshot>>
         /\ run'.url = run.url /\ run'.migrated = run.migrated /\ run.outcome = "none"
         /\ run.step \in {"render", "sweep", "write"}
         /\ \/ run'.outcome = "none" /\ run'.step \in {"render", "sweep", "write"}
            \/ run'.outcome \in {"refused", "failed"} /\ run'.step = "idle"
<1>. USE DEF Typed, TypeOK, Runs, OutcomeLast, Running
<1>. DEFINE Goal ==
              /\ run'.reads = run.reads /\ run'.target = run.target /\ UNCHANGED <<catalog, snapshot>>
              /\ run'.url = run.url /\ run'.migrated = run.migrated /\ run.outcome = "none"
              /\ run.step \in {"render", "sweep", "write"}
              /\ \/ run'.outcome = "none" /\ run'.step \in {"render", "sweep", "write"}
                 \/ run'.outcome \in {"refused", "failed"} /\ run'.step = "idle"
<1>1. ASSUME Render PROVE Goal
  <2>1. run.step = "render" /\ run.outcome = "none" /\ UNCHANGED <<catalog, snapshot>>
    BY <1>1 DEF Render
  <2>2. CASE run' = End("refused")
    BY <2>1, <2>2, EndTyped DEF Outcomes
  <2>3. CASE run' # End("refused")
    BY <1>1, <2>1, <2>3 DEF Render
  <2>. QED
    BY <2>2, <2>3
<1>2. ASSUME Swept \/ WriteFile PROVE Goal
  BY <1>2 DEF Swept, WriteFile
<1>3. ASSUME NEW n \in FileNames, Look(n) PROVE Goal
  BY <1>3 DEF Look
<1>4. ASSUME NEW n \in FileNames, RemoveDoomed(n) PROVE Goal
  <2>1. run.step = "sweep" /\ run.outcome = "none" /\ UNCHANGED <<catalog, snapshot>>
    BY <1>4 DEF RemoveDoomed
  <2>2. CASE run' = End("failed")
    BY <2>1, <2>2, EndTyped DEF Outcomes
  <2>3. CASE run' # End("failed")
    BY <1>4, <2>1, <2>3 DEF RemoveDoomed
  <2>. QED
    BY <2>2, <2>3
<1>. QED
  BY <1>1, <1>2, <1>3, <1>4

-----------------------------------------------------------------------------
\* The targets to come.

LEMMA UntouchedStep ==
  ASSUME Typed, Typed', Untouched, [Next]_vars
  PROVE  Untouched'
<1>. SUFFICES ASSUME Running', NEW t \in Targets, NEW n \in FileNames, Unedited(t, n)',
                     \/ t > run'.target
                     \/ t = run'.target /\ run'.step \notin {"sweep", "write"}
              PROVE  disk'[t][n] = run'.before[1][t][n]
  BY DEF Untouched
<1>. USE DEF Typed, TypeOK, Runs, Running
<1>1. ASSUME NEW url \in BOOLEAN, Start(url)
      PROVE  disk'[t][n] = run'.before[1][t][n]
  BY <1>1 DEF Start, Idle
<1>2. ASSUME ~\E url \in BOOLEAN : Start(url)
      PROVE  disk'[t][n] = run'.before[1][t][n]
  <2>1. /\ run'.before = run.before /\ Unedited(t, n)
        /\ \/ run'.target = run.target
           \/ run'.target = run.target + 1 /\ run'.step = "introspect" /\ Written
    BY <1>2, RunStep DEF Unedited
  <2>2. Running
    BY <1>2 DEF Next, Generator, Developer, Introspect, Save, Render, Swept, Look, RemoveDoomed,
                WriteFile, Written, Migrate, Edit, Crash, vars
  <2>3. t > run.target \/ (t = run.target /\ run.step \notin {"sweep", "write"})
    <3>1. CASE run'.target = run.target + 1
      BY <3>1 DEF Targets
    <3>2. CASE run'.target = run.target /\ run.step = "sweep" /\ t = run.target
      BY <1>2, <3>2 DEF Next, Generator, Developer, Introspect, Save, Render, Swept, Look, RemoveDoomed,
                WriteFile, Written, Migrate, Edit, Crash, vars, End
    <3>3. CASE run'.target = run.target /\ run.step = "write" /\ t = run.target
      <4>1. ~Written
        <5>1. Written => run'.step = "idle" \/ run'.target = run.target + 1
          BY EndTyped DEF Written, Outcomes
        <5>2. run.target + 1 # run.target
          BY DEF Targets
        <5>. QED
          BY <3>3, <5>1, <5>2
      <4>. QED
        BY <1>2, <3>3, <4>1 DEF Next, Generator, Developer, Introspect, Save, Render, Swept, Look,
                RemoveDoomed, WriteFile, Migrate, Edit, Crash, vars, End
    <3>. QED
      BY <2>1, <3>1, <3>2, <3>3
  <2>4. disk[t][n] = run.before[1][t][n]
    BY <2>1, <2>2, <2>3 DEF Untouched
  <2>5. disk'[t][n] = disk[t][n]
    BY <2>3, FileStep DEF Targets
  <2>. QED
    BY <2>1, <2>4, <2>5
<1>. QED
  BY <1>1, <1>2

LEMMA RefusedStep ==
  ASSUME Typed, Typed', Untouched, RefusedWritesNothing, [Next]_vars
  PROVE  RefusedWritesNothing'
<1>. SUFFICES ASSUME run'.outcome = "refused", NEW t \in run'.target..Count, NEW n \in FileNames,
                     Unedited(t, n)'
              PROVE  disk'[t][n] = run'.before[1][t][n]
  BY DEF RefusedWritesNothing, Unedited
<1>. USE DEF Typed, TypeOK, Runs, Running
<1>1. /\ ~\E url \in BOOLEAN : Start(url)
      /\ ~(Save \/ Swept \/ WriteFile \/ Written \/ Crash)
      /\ ~\E m \in FileNames : Look(m) \/ RemoveDoomed(m)
  BY DEF Start, Idle, Save, Swept, WriteFile, Written, Look, RemoveDoomed, Crash, End, OutcomeLast
<1>2. /\ run'.before = run.before /\ Unedited(t, n) /\ run'.target = run.target
  BY <1>1, RunStep DEF Unedited
<1>3. t \in Targets /\ (t = run.target \/ t > run.target)
  BY <1>2, CountAssumption DEF Targets
<1>4. CASE Introspect \/ Render
  <2>1. disk' = disk /\ run.step \in {"introspect", "render"}
    BY <1>4 DEF Introspect, Render
  <2>. QED
    BY <1>2, <1>3, <2>1 DEF Untouched
<1>5. CASE (\E c \in Catalogs : Migrate(c)) \/ (\E s \in Targets, m \in FileNames : Edit(s, m))
           \/ UNCHANGED vars
  <2>1. run.outcome = "refused"
    BY <1>5 DEF Migrate, Edit, vars
  <2>2. disk[t][n] = run.before[1][t][n]
    BY <1>2, <2>1 DEF RefusedWritesNothing, Unedited
  <2>3. ~Running
    BY <2>1 DEF OutcomeLast
  <2>4. disk'[t][n] = disk[t][n]
    BY <1>3, <2>3, FileStep
  <2>. QED
    BY <1>2, <2>2, <2>4
<1>. QED
  BY <1>1, <1>4, <1>5 DEF Next, Generator, Developer

\* A run that is refused has touched neither the files of the target it was
\* refused at nor those of a later one, whatever the developer does: generate_from_schema
\* resolves and renders the whole target before write_files opens its first file.
THEOREM RefusedNeverWrites == Spec => []RefusedWritesNothing
<1>1. Init => Untouched /\ RefusedWritesNothing
  BY DEF Init, Idle, Untouched, RefusedWritesNothing, Running
<1>2. Typed /\ Untouched /\ RefusedWritesNothing /\ [Next]_vars
        => Typed' /\ Untouched' /\ RefusedWritesNothing'
  BY TypedStep, UntouchedStep, RefusedStep
<1>. QED
  BY <1>1, <1>2, TypedInit, PTL DEF Spec

-----------------------------------------------------------------------------
\* The target at hand.

LEMMA SweptStep ==
  ASSUME Typed, Typed', SweptSoFar, [Next]_vars
  PROVE  SweptSoFar'
<1>. SUFFICES ASSUME run'.step = "sweep", NEW n \in FileNames, Unedited(run.target, n)'
              PROVE  /\ run'.target = run.target /\ Read' = Read
                     /\ IsOurs(disk'[run.target][n]) /\ n \notin run'.left /\ n \notin run'.doomed
                          => n \in Wanted(run.target, Read)
                     /\ n \in run'.doomed
                          => IsOurs(disk'[run.target][n]) /\ n \notin Wanted(run.target, Read)
  <2>1. ASSUME run'.step = "sweep" PROVE run'.target = run.target
    BY <2>1, RunStep DEF Start, Idle
  <2>. QED
    BY <2>1 DEF SweptSoFar, Unedited, Wanted, Read, Files
<1>. USE DEF Typed, TypeOK, Runs
<1>0. ~(Introspect \/ Save \/ Swept \/ WriteFile \/ Written \/ Crash \/ \E url \in BOOLEAN : Start(url))
  BY StepsTaken
<1>1. CASE Render
  <2>1. /\ run'.target = run.target /\ run'.reads = run.reads /\ disk' = disk
        /\ run'.left = {m \in FileNames : disk[run.target][m] # Absent} /\ run'.doomed = {}
    BY <1>1, EndTyped DEF Render, ReadFirst, Outcomes
  <2>. QED
    BY <2>1, ContentAssumption DEF Read, IsOurs
<1>2. ASSUME NEW m \in FileNames, Look(m)
      PROVE  /\ run'.target = run.target /\ Read' = Read
             /\ IsOurs(disk'[run.target][n]) /\ n \notin run'.left /\ n \notin run'.doomed
                  => n \in Wanted(run.target, Read)
             /\ n \in run'.doomed
                  => IsOurs(disk'[run.target][n]) /\ n \notin Wanted(run.target, Read)
  <2>1. /\ run.step = "sweep" /\ run.doomed = {} /\ disk' = disk /\ run'.edited = run.edited
        /\ run'.target = run.target /\ run'.reads = run.reads
        /\ run'.left = run.left \ {m} /\ run'.doomed = {m} \cap Orphans(run.target, Read)
    BY <1>2 DEF Look
  <2>2. IsOurs(disk[run.target][n]) /\ n \notin run.left => n \in Wanted(run.target, Read)
    BY <2>1 DEF SweptSoFar, Unedited
  <2>. QED
    BY <2>1, <2>2 DEF Read, Orphans
<1>3. ASSUME NEW m \in FileNames, RemoveDoomed(m)
      PROVE  /\ run'.target = run.target /\ Read' = Read
             /\ IsOurs(disk'[run.target][n]) /\ n \notin run'.left /\ n \notin run'.doomed
                  => n \in Wanted(run.target, Read)
             /\ n \in run'.doomed
                  => IsOurs(disk'[run.target][n]) /\ n \notin Wanted(run.target, Read)
  <2>1. /\ run.step = "sweep" /\ run'.edited = run.edited
        /\ run'.target = run.target /\ run'.reads = run.reads
        /\ run'.left = run.left /\ run'.doomed = run.doomed \ {m}
    BY <1>3, EndTyped DEF RemoveDoomed, Outcomes
  <2>2. disk'[run.target][n] = IF n = m THEN Absent ELSE disk[run.target][n]
    BY <1>3, RemoveFrame
  <2>3. /\ IsOurs(disk[run.target][n]) /\ n \notin run.left /\ n \notin run.doomed
             => n \in Wanted(run.target, Read)
        /\ n \in run.doomed => IsOurs(disk[run.target][n]) /\ n \notin Wanted(run.target, Read)
    BY <2>1 DEF SweptSoFar, Unedited
  <2>4. ~IsOurs(Absent)
    BY ContentAssumption DEF IsOurs
  <2>. QED
    BY <2>1, <2>2, <2>3, <2>4 DEF Read
<1>4. CASE (\E c \in Catalogs : Migrate(c)) \/ (\E t \in Targets, m \in FileNames : Edit(t, m))
           \/ UNCHANGED vars
  <2>1. /\ run'.target = run.target /\ run'.reads = run.reads /\ run.step = "sweep"
        /\ run'.left = run.left /\ run'.doomed = run.doomed
    BY <1>4 DEF Migrate, Edit, vars
  <2>2. Unedited(run.target, n) /\ disk'[run.target][n] = disk[run.target][n]
    <3>1. CASE (\E c \in Catalogs : Migrate(c)) \/ UNCHANGED vars
      BY <3>1 DEF Migrate, vars, Unedited
    <3>2. ASSUME NEW t \in Targets, NEW m \in FileNames, Edit(t, m)
          PROVE  Unedited(run.target, n) /\ disk'[run.target][n] = disk[run.target][n]
      BY <2>1, <3>2, EditFrame DEF Unedited
    <3>. QED
      BY <1>4, <3>1, <3>2
  <2>. QED
    BY <2>1, <2>2 DEF SweptSoFar, Read
<1>. QED
  BY <1>0, <1>1, <1>2, <1>3, <1>4 DEF Next, Generator, Developer

\* What the next file does to what is written as it should be.
LEMMA WrittenAgain ==
  ASSUME NEW t \in Targets, NEW c \in Catalogs, ~Refuses(t, c),
         NEW k \in DOMAIN Files(t, c), NEW n \in FileNames, NEW content
  PROVE  /\ Files(t, c)[k].name = n => WrittenAs(t, c, n, k + 1, Files(t, c)[k].text)
         /\ Files(t, c)[k].name # n =>
              /\ Begun(t, c, n, k + 1) => Begun(t, c, n, k)
              /\ WrittenAs(t, c, n, k, content) => WrittenAs(t, c, n, k + 1, content)
<1>1. /\ DOMAIN Files(t, c) \subseteq Nat
      /\ Files(t, c)[k] = [name |-> Files(t, c)[k].name, text |-> Files(t, c)[k].text]
  BY FilesOfTarget
<1>2. \A i \in DOMAIN Files(t, c) : i < k + 1 <=> i < k \/ i = k
  BY <1>1
<1>3. \A j \in DOMAIN Files(t, c) : ~(k < j /\ j < k + 1)
  BY <1>1
<1>4. ASSUME Files(t, c)[k].name = n
      PROVE  WrittenAs(t, c, n, k + 1, Files(t, c)[k].text)
  BY <1>1, <1>2, <1>3, <1>4 DEF WrittenAs
<1>5. ASSUME Files(t, c)[k].name # n, Begun(t, c, n, k + 1)
      PROVE  Begun(t, c, n, k)
  BY <1>2, <1>5 DEF Begun
<1>6. ASSUME Files(t, c)[k].name # n, WrittenAs(t, c, n, k, content)
      PROVE  WrittenAs(t, c, n, k + 1, content)
  BY <1>2, <1>6 DEF WrittenAs
<1>. QED
  BY <1>4, <1>5, <1>6

LEMMA WrittenStep ==
  ASSUME Typed, Typed', SweptSoFar, WrittenSoFar, [Next]_vars
  PROVE  WrittenSoFar'
<1>. DEFINE Goal(n) ==
              /\ n \notin Wanted(run.target, Read) => ~IsOurs(disk'[run.target][n])
              /\ Begun(run.target, Read, n, run'.next)
                   => WrittenAs(run.target, Read, n, run'.next, disk'[run.target][n])
<1>. SUFFICES ASSUME run'.step = "write", NEW n \in FileNames, Unedited(run.target, n)'
              PROVE  run'.target = run.target /\ Read' = Read /\ Goal(n)
  <2>1. ASSUME run'.step = "write" PROVE run'.target = run.target
    BY <2>1, RunStep DEF Start, Idle
  <2>. QED
    BY <2>1 DEF WrittenSoFar, Unedited
<1>. USE DEF Typed, TypeOK, Runs
<1>0. ~(Introspect \/ Save \/ Render \/ Written \/ Crash \/ (\E url \in BOOLEAN : Start(url))
         \/ (\E m \in FileNames : Look(m) \/ RemoveDoomed(m)))
  BY StepsTaken
<1>1. CASE Swept
  <2>1. /\ run'.target = run.target /\ run'.reads = run.reads /\ disk' = disk /\ run'.edited = run.edited
        /\ run.step = "sweep" /\ run.left = {} /\ run.doomed = {} /\ run'.next = 1
    BY <1>1 DEF Swept, ReadFirst
  <2>2. IsOurs(disk[run.target][n]) => n \in Wanted(run.target, Read)
    BY <2>1 DEF SweptSoFar, Unedited
  <2>3. DOMAIN Files(run.target, Read) \subseteq Nat \ {0}
    BY <2>1, FilesOfTarget DEF ReadFirst
  <2>4. ~Begun(run.target, Read, n, 1)
    BY <2>3 DEF Begun
  <2>. QED
    BY <2>1, <2>2, <2>4 DEF Read
<1>2. CASE WriteFile
  <2>. DEFINE written == Files(run.target, Read)[run.next]
  <2>1. /\ run'.target = run.target /\ run'.reads = run.reads /\ run'.edited = run.edited
        /\ run.step = "write" /\ run'.next = run.next + 1 /\ run.next \in DOMAIN Files(run.target, Read)
        /\ written.name \in Wanted(run.target, Read)
        /\ disk'[run.target][n] = IF n = written.name THEN written.text ELSE disk[run.target][n]
    BY <1>2, WriteFrame
  <2>2. /\ n \notin Wanted(run.target, Read) => ~IsOurs(disk[run.target][n])
        /\ Begun(run.target, Read, n, run.next)
             => WrittenAs(run.target, Read, n, run.next, disk[run.target][n])
    BY <2>1 DEF WrittenSoFar, Unedited
  <2>3. /\ written.name = n => WrittenAs(run.target, Read, n, run.next + 1, written.text)
        /\ written.name # n =>
             /\ Begun(run.target, Read, n, run.next + 1) => Begun(run.target, Read, n, run.next)
             /\ WrittenAs(run.target, Read, n, run.next, disk[run.target][n])
                  => WrittenAs(run.target, Read, n, run.next + 1, disk[run.target][n])
    BY <2>1, WrittenAgain DEF ReadFirst
  <2>. QED
    BY <2>1, <2>2, <2>3 DEF Read
<1>3. CASE (\E c \in Catalogs : Migrate(c)) \/ (\E t \in Targets, m \in FileNames : Edit(t, m))
           \/ UNCHANGED vars
  <2>1. /\ run'.target = run.target /\ run'.reads = run.reads /\ run.step = "write"
        /\ run'.next = run.next
    BY <1>3 DEF Migrate, Edit, vars
  <2>2. Unedited(run.target, n) /\ disk'[run.target][n] = disk[run.target][n]
    <3>1. CASE (\E c \in Catalogs : Migrate(c)) \/ UNCHANGED vars
      BY <3>1 DEF Migrate, vars, Unedited
    <3>2. ASSUME NEW t \in Targets, NEW m \in FileNames, Edit(t, m)
          PROVE  Unedited(run.target, n) /\ disk'[run.target][n] = disk[run.target][n]
      BY <2>1, <3>2, EditFrame DEF Unedited
    <3>. QED
      BY <1>3, <3>1, <3>2
  <2>. QED
    BY <2>1, <2>2 DEF WrittenSoFar, Read
<1>. QED
  BY <1>0, <1>1, <1>2, <1>3 DEF Next, Generator, Developer

-----------------------------------------------------------------------------
\* The targets the run is done with.

LEMMA SettledStep ==
  ASSUME Typed, Typed', Settled, WrittenSoFar, [Next]_vars
  PROVE  Settled'
<1>. USE DEF Typed, TypeOK, Runs
<1>. SUFFICES ASSUME NEW t \in Targets, t \in Behind'
              PROVE  /\ run'.reads[t] \in Catalogs /\ ~Refuses(t, run'.reads[t])
                     /\ \A n \in FileNames :
                          Unedited(t, n)' => AsGenerated(t, run'.reads[t], n, disk'[t][n])
  <2>1. Behind' \subseteq Targets
    BY DEF Behind
  <2>. QED
    BY <2>1 DEF Settled
<1>1. ~\E url \in BOOLEAN : Start(url)
  BY StepsTaken, OutcomesTaken DEF Behind, Targets
<1>2. CASE t \in Behind
  <2>1. t < run.target \/ ~Running
    BY <1>2 DEF Behind, OutcomeLast
  <2>2. t # run.target \/ run.step \notin {"introspect", "sweep", "write"}
    BY <2>1 DEF Running, Targets
  <2>3. run'.reads[t] = run.reads[t]
    BY <1>1, <2>2, RunStep
  <2>4. ASSUME NEW n \in FileNames, Unedited(t, n)'
        PROVE  Unedited(t, n) /\ disk'[t][n] = disk[t][n]
    BY <1>1, <2>2, <2>4, RunStep, FileStep DEF Unedited
  <2>. QED
    BY <1>2, <2>3, <2>4 DEF Settled
<1>3. CASE t \notin Behind
  <2>. DEFINE files == Files(t, Read)
  <2>1. Written /\ t = run.target
    <3>1. CASE run'.outcome = "completed"
      <4>1. run.outcome # "completed"
        BY <1>3 DEF Behind
      <4>2. ~(Introspect \/ Save \/ Render \/ Swept \/ WriteFile \/ Crash \/ UNCHANGED vars)
        BY <3>1, <4>1, OutcomesTaken
      <4>3. /\ ~\E n \in FileNames : Look(n) \/ RemoveDoomed(n)
            /\ ~\E c \in Catalogs : Migrate(c)
            /\ ~\E s \in Targets, n \in FileNames : Edit(s, n)
        BY <3>1, <4>1, OutcomesTaken
      <4>4. Written
        BY <1>1, <4>2, <4>3 DEF Next, Generator, Developer
      <4>5. run.target = Count
        BY <3>1, <4>4, OutcomesTaken
      <4>. QED
        BY <1>3, <4>1, <4>4, <4>5, CountAssumption DEF Behind, Targets
    <3>2. CASE run'.outcome # "completed"
      <4>1. t < run'.target /\ run'.target # run.target
        BY <1>3, <3>2 DEF Behind, Targets
      <4>2. run'.target = run.target + 1 /\ Written
        BY <1>1, <4>1, RunStep
      <4>3. run.outcome # "completed" /\ ~(t < run.target)
        BY <1>3 DEF Behind
      <4>. QED
        BY <4>1, <4>2, <4>3 DEF Targets
    <3>. QED
      BY <3>1, <3>2
  <2>2. /\ run'.reads = run.reads /\ run'.edited = run.edited /\ disk' = disk
        /\ run.step = "write" /\ run.next \notin DOMAIN files
    BY <2>1, EndTyped DEF Written, Outcomes
  <2>3. /\ Read \in Catalogs /\ ~Refuses(t, Read) /\ run.reads[t] = Read
    BY <2>1, <2>2 DEF ReadFirst, Read
  <2>4. DOMAIN files = 1..Len(files) /\ Len(files) \in Nat /\ run.next > Len(files)
    BY <2>2, <2>3, FilesOfTarget
  <2>5. ASSUME NEW n \in FileNames, Unedited(t, n)
        PROVE  AsGenerated(t, Read, n, disk[t][n])
    <3>1. /\ n \notin Wanted(t, Read) => ~IsOurs(disk[t][n])
          /\ Begun(t, Read, n, run.next) => WrittenAs(t, Read, n, run.next, disk[t][n])
      BY <2>1, <2>2, <2>5 DEF WrittenSoFar
    <3>2. n \in Wanted(t, Read) => Begun(t, Read, n, run.next)
      BY <2>4 DEF Wanted, Begun
    <3>3. WrittenAs(t, Read, n, run.next, disk[t][n])
            => WrittenAs(t, Read, n, Len(Files(t, Read)) + 1, disk[t][n])
      BY <2>4 DEF WrittenAs
    <3>. QED
      BY <3>1, <3>2, <3>3 DEF AsGenerated
  <2>. QED
    BY <2>2, <2>3, <2>5 DEF Unedited
<1>. QED
  BY <1>2, <1>3

-----------------------------------------------------------------------------
\* What the run has read.

LEMMA SourcedStep ==
  ASSUME Typed, Typed', Sourced, [Next]_vars
  PROVE  Sourced'
<1>. USE DEF Typed, TypeOK, Runs, Running
<1>1. CASE \E url \in BOOLEAN : Start(url)
  <2>1. run'.step = "introspect" /\ run'.target = 1 /\ run'.outcome = "none"
    BY <1>1 DEF Start, Idle
  <2>. QED
    BY <2>1 DEF Sourced, ReadsAgree, SavedFirst, Reading, Behind, Targets
<1>2. CASE Introspect
  <2>1. CASE run' = End("refused")
    BY <2>1, EndTyped DEF Sourced, ReadsAgree, SavedFirst, Live, Outcomes
  <2>2. CASE run' # End("refused")
    <3>1. /\ run' = [run EXCEPT !.step = IF run.url THEN "save" ELSE "render",
                                !.reads[run.target] = Source(run.url)]
          /\ UNCHANGED <<catalog, snapshot>> /\ Live /\ run.outcome = "none"
      BY <1>2, <2>2 DEF Introspect, Live, OutcomeLast
    <3>2. /\ run'.url = run.url /\ run'.migrated = run.migrated /\ run'.outcome = run.outcome
          /\ run'.target = run.target
          /\ \A t \in Targets : run'.reads[t] = IF t = run.target THEN Source(run.url) ELSE run.reads[t]
          /\ run'.url => run'.step = "save"
      BY <3>1
    <3>3. \A t \in Targets : t \in Reading' => t \in Reading \/ t = run.target
      BY <3>1, <3>2 DEF Reading, Behind
    <3>4. ReadsAgree'
      <4>1. Reading' \subseteq Targets
        BY DEF Reading
      <4>. QED
        BY <3>1, <3>2, <3>3, <4>1 DEF Sourced, ReadsAgree, Source
    <3>5. SavedFirst'
      BY <3>1, <3>2 DEF SavedFirst, Read, Source
    <3>. QED
      BY <3>4, <3>5 DEF Sourced
  <2>. QED
    BY <2>1, <2>2
<1>3. CASE Save
  <2>1. /\ run'.reads = run.reads /\ run'.target = run.target /\ run'.outcome = run.outcome
        /\ run'.url = run.url /\ run'.migrated = run.migrated /\ run.url
        /\ snapshot' = Read /\ catalog' = catalog /\ run.step = "save" /\ run'.step = "render"
        /\ run.outcome = "none"
    BY <1>3 DEF Save, ReadFirst, OutcomeLast
  <2>2. Reading' = Reading
    BY <2>1 DEF Reading, Behind
  <2>. QED
    BY <2>1, <2>2 DEF Sourced, ReadsAgree, SavedFirst, Source, Read, Live
<1>4. CASE Render \/ Swept \/ WriteFile \/ (\E n \in FileNames : Look(n) \/ RemoveDoomed(n))
  <2>1. /\ run'.reads = run.reads /\ run'.target = run.target /\ UNCHANGED <<catalog, snapshot>>
        /\ run'.url = run.url /\ run'.migrated = run.migrated /\ run.outcome = "none"
        /\ run.step \in {"render", "sweep", "write"}
        /\ \/ run'.outcome = "none" /\ run'.step \in {"render", "sweep", "write"}
           \/ run'.outcome \in {"refused", "failed"} /\ run'.step = "idle"
    BY <1>4, MidStep
  <2>2. CASE run'.outcome \in {"refused", "failed"} /\ run'.step = "idle"
    BY <2>2 DEF Sourced, ReadsAgree, SavedFirst, Live
  <2>3. CASE run'.outcome = "none" /\ run'.step \in {"render", "sweep", "write"}
    <3>1. Reading' = Reading
      BY <2>1, <2>3 DEF Reading, Behind
    <3>. QED
      BY <2>1, <2>3, <3>1 DEF Sourced, ReadsAgree, SavedFirst, Source, Read, Live
  <2>. QED
    BY <2>1, <2>2, <2>3
<1>5. CASE Written
  <2>1. /\ run'.reads = run.reads /\ UNCHANGED <<catalog, snapshot>> /\ run.step = "write"
        /\ run'.url = run.url /\ run'.migrated = run.migrated /\ run.outcome = "none" /\ Live
    BY <1>5, EndTyped DEF Written, Outcomes, Live, OutcomeLast
  <2>2. \/ run.target = Count /\ run'.outcome = "completed" /\ run'.step = "idle"
        \/ run'.outcome = "none" /\ run'.step = "introspect" /\ run'.target = run.target + 1
    BY <1>5, OutcomesTaken
  <2>3. \A t \in Targets : t \in Reading' => t \in Reading
    BY <2>1, <2>2, CountAssumption DEF Reading, Behind, Targets
  <2>4. ReadsAgree'
    <3>1. Reading' \subseteq Targets
      BY DEF Reading
    <3>. QED
      BY <2>1, <2>3, <3>1 DEF Sourced, ReadsAgree, Source
  <2>5. SavedFirst'
    BY <2>1, <2>2 DEF Sourced, SavedFirst, Read
  <2>. QED
    BY <2>4, <2>5 DEF Sourced
<1>6. CASE Crash
  <2>1. run'.step = "idle" /\ run'.outcome = "crashed"
    BY <1>6, EndTyped DEF Crash, Outcomes
  <2>. QED
    BY <2>1 DEF Sourced, ReadsAgree, SavedFirst, Live
<1>7. CASE (\E c \in Catalogs : Migrate(c)) \/ (\E t \in Targets, n \in FileNames : Edit(t, n))
           \/ UNCHANGED vars
  <2>1. /\ run'.reads = run.reads /\ run'.target = run.target /\ run'.outcome = run.outcome
        /\ run'.url = run.url /\ run'.step = run.step /\ snapshot' = snapshot
        /\ run.migrated => run'.migrated
        /\ catalog' = catalog \/ run'.migrated
    BY <1>7 DEF Migrate, Edit, vars
  <2>2. Reading' = Reading /\ Live' = Live
    BY <2>1 DEF Reading, Behind, Live
  <2>. QED
    BY <2>1, <2>2 DEF Sourced, ReadsAgree, SavedFirst, Source, Read
<1>. QED
  BY <1>1, <1>2, <1>3, <1>4, <1>5, <1>6, <1>7 DEF Next, Generator, Developer

-----------------------------------------------------------------------------
\* The run has settled what it wrote.

LEMMA InOrderAsGenerated ==
  ASSUME Typed, NEW t \in Targets, NEW c \in Catalogs, ~Refuses(t, c), Unambiguous(t, c),
         \A n \in FileNames : AsGenerated(t, c, n, disk[t][n])
  PROVE  InOrder(t, c)
<1>1. ASSUME NEW i \in DOMAIN Files(t, c)
      PROVE  disk[t][Files(t, c)[i].name] = Files(t, c)[i].text
  <2>. DEFINE n == Files(t, c)[i].name
  <2>1. n \in FileNames /\ n \in Wanted(t, c)
    BY FilesOfTarget DEF Wanted
  <2>2. PICK j \in DOMAIN Files(t, c) : Files(t, c)[j] = [name |-> n, text |-> disk[t][n]]
    BY <2>1 DEF AsGenerated, WrittenAs
  <2>. QED
    BY <2>2 DEF Unambiguous
<1>2. Orphans(t, c) = {}
  BY DEF Orphans, AsGenerated
<1>. QED
  BY <1>1, <1>2 DEF InOrder

LEMMA SettlesAtTheEnd ==
  ASSUME Typed, Settled, Sourced
  PROVE  RunSettles
<1>. USE DEF Typed, TypeOK, Runs
<1>1. \A t \in Behind, n \in FileNames :
        <<t, n>> \notin run.edited => AsGenerated(t, run.reads[t], n, disk[t][n])
  BY DEF Settled, Unedited
<1>2. run.outcome = "completed" /\ run.url => snapshot = run.reads[Count]
  BY DEF Sourced, SavedFirst
<1>3. ASSUME LeftAlone
      PROVE  /\ UpToDate(run.url) <=> OneTextEach
             /\ run.url => (UpToDate(FALSE) <=> OneTextEach)
  <2>1. /\ run.outcome = "completed" /\ Behind = Targets /\ Count \in Targets /\ 1 \in Targets
        /\ \A t \in Targets : t \in Reading
    BY <1>3, CountAssumption DEF LeftAlone, Behind, Targets, Reading
  <2>2. \A t \in Targets : run.reads[t] = Source(run.url)
    BY <1>3, <2>1 DEF LeftAlone, Sourced, ReadsAgree, Live
  <2>3. run.url => snapshot = catalog
    BY <1>2, <2>1, <2>2 DEF Source
  <2>4. \A t \in Targets : Source(run.url) \in Catalogs /\ ~Refuses(t, Source(run.url))
    BY <2>1, <2>2 DEF Settled
  <2>5. OneTextEach => \A t \in Targets : InOrder(t, Source(run.url))
    <3>. SUFFICES ASSUME OneTextEach, NEW t \in Targets
                  PROVE  InOrder(t, Source(run.url))
      OBVIOUS
    <3>1. \A n \in FileNames : AsGenerated(t, Source(run.url), n, disk[t][n])
      BY <1>1, <1>3, <2>1, <2>2 DEF LeftAlone
    <3>2. Unambiguous(t, Source(run.url))
      BY <2>2 DEF OneTextEach
    <3>. QED
      BY <2>4, <3>1, <3>2, InOrderAsGenerated
  <2>6. (\A t \in Targets : InOrder(t, Source(run.url))) => OneTextEach
    BY <2>2 DEF OneTextEach, InOrder, Unambiguous
  <2>7. UpToDate(run.url) <=> OneTextEach
    BY <2>1, <2>3, <2>4, <2>5, <2>6 DEF UpToDate, CheckRefuses
  <2>8. run.url => Source(FALSE) = Source(run.url)
    BY <2>3 DEF Source
  <2>9. run.url => (UpToDate(FALSE) <=> OneTextEach)
    BY <2>1, <2>4, <2>5, <2>6, <2>8 DEF UpToDate, CheckRefuses
  <2>. QED
    BY <2>7, <2>9
<1>. QED
  BY <1>1, <1>2, <1>3 DEF RunSettles

LEMMA SettlingInit ==
  Init => Settling /\ Sourced /\ Untouched
<1>. SUFFICES ASSUME Init PROVE Settling /\ Sourced /\ Untouched
  OBVIOUS
<1>1. run.step = "idle" /\ run.outcome = "none" /\ run.target = 1
  BY DEF Init, Idle
<1>. QED
  BY <1>1 DEF Settling, Settled, SweptSoFar, WrittenSoFar, Sourced, ReadsAgree, SavedFirst, Live,
              Running, Behind, Targets, Untouched

LEMMA SettlingStep ==
  ASSUME Typed, Settling, Sourced, [Next]_vars
  PROVE  Typed' /\ Settling' /\ Sourced'
<1>1. Typed'
  BY TypedStep
<1>. QED
  BY <1>1, SettledStep, SweptStep, WrittenStep, SourcedStep DEF Settling

\* However a run ends, and whatever the developer does meanwhile, the targets it is
\* done with are what the schema it read generates, but for the files the developer
\* touched, and its snapshot is the schema it read last; left alone it leaves a tree
\* in which --check finds nothing, with the database and without it, exactly if no two
\* of the files it wrote have one name
\* (introspect_and_refresh, generate_from_schema and write_files).
THEOREM RunAlwaysSettles == Spec => []RunSettles
<1>1. Typed /\ Settling /\ Sourced => RunSettles
  BY SettlesAtTheEnd DEF Settling
<1>2. Init => Typed /\ Settling /\ Sourced
  BY TypedInit, SettlingInit
<1>3. Typed /\ Settling /\ Sourced /\ [Next]_vars => Typed' /\ Settling' /\ Sourced'
  BY SettlingStep
<1>. QED
  BY <1>1, <1>2, <1>3, PTL DEF Spec

-----------------------------------------------------------------------------
\* Files without the header.

LEMMA HandStep ==
  ASSUME Typed, Typed', SweptSoFar, Untouched, HandWrittenStays, [Next]_vars
  PROVE  HandWrittenStays'
<1>. USE DEF Typed, TypeOK, Runs
<1>. SUFFICES ASSUME NEW t \in Targets, NEW n \in FileNames, run'.before[1][t][n] = Hand,
                     Unedited(t, n)', disk'[t][n] # Hand
              PROVE  t <= run'.target /\ n \in Wanted(t, run'.reads[t])
  BY DEF HandWrittenStays, Unedited
<1>1. ASSUME NEW url \in BOOLEAN, Start(url)
      PROVE  FALSE
  <2>1. run'.before = <<disk, snapshot>> /\ disk' = disk
    BY <1>1 DEF Start, Idle
  <2>. QED
    BY <2>1
<1>2. /\ run.before[1][t][n] = Hand /\ Unedited(t, n)
      /\ run'.target \in {run.target, run.target + 1}
  BY <1>1, RunStep DEF Unedited
<1>3. CASE disk[t][n] = Hand
  <2>1. /\ t = run.target /\ run'.target = run.target
        /\ \/ run.step = "write" /\ n \in Wanted(run.target, Read)
           \/ run.step = "sweep" /\ n \in run.doomed
    BY <1>3, FileStep
  <2>2. ~(run.step = "sweep" /\ n \in run.doomed)
    BY <1>2, <1>3, <2>1, ContentAssumption DEF SweptSoFar, IsOurs
  <2>3. run'.reads[t] = run.reads[t]
    BY <1>1, <2>1, RunStep
  <2>. QED
    BY <2>1, <2>2, <2>3 DEF Read, Targets
<1>4. CASE disk[t][n] # Hand
  <2>1. t <= run.target /\ n \in Wanted(t, run.reads[t])
    BY <1>2, <1>4 DEF HandWrittenStays, Unedited
  <2>2. ~(t = run.target /\ run.step = "introspect")
    BY <1>2, <1>4 DEF Untouched, Running
  <2>3. run'.reads[t] = run.reads[t]
    BY <1>1, <2>2, RunStep
  <2>. QED
    BY <1>2, <2>1, <2>3 DEF Targets
<1>. QED
  BY <1>3, <1>4

\* A file without the header that was there when the run began, and that the
\* developer leaves alone, is written over by the run that generates a file of its
\* name and by nothing else, whatever happens to the files around it (write_files).
THEOREM HandWrittenAlwaysStays == Spec => []HandWrittenStays
<1>1. Init => HandWrittenStays
  BY DEF Init, Idle, HandWrittenStays
<1>2. Init => Typed /\ Settling /\ Sourced /\ Untouched
  BY TypedInit, SettlingInit
<1>3. Typed /\ Settling /\ Sourced /\ Untouched /\ HandWrittenStays /\ [Next]_vars
        => Typed' /\ Settling' /\ Sourced' /\ Untouched' /\ HandWrittenStays'
  BY SettlingStep, UntouchedStep, HandStep DEF Settling
<1>. QED
  BY <1>1, <1>2, <1>3, PTL DEF Spec

-----------------------------------------------------------------------------
\* What --check says before a run.

LEMMA CheckedNow ==
  ASSUME NEW url \in BOOLEAN
  PROVE  UpToDate(url) <=> UpToDateAt(url, disk, snapshot)
BY DEF UpToDate, CheckRefuses, InOrder, Orphans, Source, UpToDateAt, SourceOf, InOrderAt

LEMMA CatalogStays ==
  ASSUME Typed, [Next]_vars, ~run'.migrated
  PROVE  catalog' = catalog
<1>1. ~\E c \in Catalogs : Migrate(c)
  BY DEF Migrate, Typed, TypeOK, Runs
<1>. QED
  BY <1>1 DEF Next, Generator, Developer, Introspect, Save, Render, Swept, Look, RemoveDoomed, WriteFile,
              Written, Edit, Crash, Start, vars

LEMMA LiveBefore ==
  ASSUME Typed, [Next]_vars, Live', ~\E url \in BOOLEAN : Start(url)
  PROVE  Live
<1>. SUFFICES ASSUME ~Running
              PROVE  run.outcome = "completed"
  BY DEF Live
<1>. QED
  BY DEF Live, Running, Next, Generator, Developer, Introspect, Save, Render, Swept, Look, RemoveDoomed,
         WriteFile, Written, Migrate, Edit, Crash, vars, Typed, TypeOK, Runs

LEMMA CleanIsCheckStep ==
  ASSUME Typed, Typed', CleanIsCheck, [Next]_vars
  PROVE  CleanIsCheck'
<1>. USE DEF Typed, TypeOK, Runs
<1>. SUFFICES ASSUME ~run'.migrated, Live'
              PROVE  (run.clean <=> UpToDateAt(run.url, run.before[1], run.before[2]))'
  BY DEF CleanIsCheck
<1>0. catalog' = catalog
  BY CatalogStays
<1>1. ASSUME NEW url \in BOOLEAN, Start(url)
      PROVE  (run.clean <=> UpToDateAt(run.url, run.before[1], run.before[2]))'
  <2>1. /\ run'.clean = UpToDate(url) /\ run'.url = url
        /\ run'.before[1] = disk /\ run'.before[2] = snapshot
    BY <1>1 DEF Start, Idle
  <2>2. UpToDate(url) <=> UpToDateAt(url, disk, snapshot)
    BY CheckedNow
  <2>. QED
    BY <1>0, <2>1, <2>2 DEF UpToDateAt, SourceOf, InOrderAt
<1>2. ASSUME ~\E url \in BOOLEAN : Start(url)
      PROVE  (run.clean <=> UpToDateAt(run.url, run.before[1], run.before[2]))'
  <2>1. /\ run'.clean = run.clean /\ run'.url = run.url /\ run'.before = run.before
        /\ ~run.migrated
    BY <1>2, RunStep
  <2>2. Live
    BY <1>2, LiveBefore
  <2>. QED
    BY <1>0, <2>1, <2>2 DEF CleanIsCheck, UpToDateAt, SourceOf, InOrderAt
<1>. QED
  BY <1>1, <1>2

LEMMA CleanChangesNothingStep ==
  ASSUME Typed, Typed', Settling, Sourced, CleanIsCheck, CleanChangesNothing, [Next]_vars
  PROVE  CleanChangesNothing'
<1>. USE DEF Typed, TypeOK, Runs
<1>. SUFFICES ASSUME ~run'.migrated, Live', run'.clean
              PROVE  /\ snapshot' = run'.before[2]
                     /\ \A t \in Targets, n \in FileNames :
                          Unedited(t, n)' => disk'[t][n] = run'.before[1][t][n]
  BY DEF CleanChangesNothing
<1>1. CASE \E url \in BOOLEAN : Start(url)
  BY <1>1 DEF Start, Idle
<1>2. CASE ~\E url \in BOOLEAN : Start(url)
  <2>1. /\ run'.before = run.before /\ run.clean /\ ~run.migrated /\ Live
    BY <1>2, RunStep, LiveBefore
  <2>2. /\ snapshot = run.before[2]
        /\ \A t \in Targets, n \in FileNames : Unedited(t, n) => disk[t][n] = run.before[1][t][n]
        /\ UpToDateAt(run.url, run.before[1], snapshot)
    BY <2>1 DEF CleanIsCheck, CleanChangesNothing
  <2>3. /\ run.url => snapshot = catalog
        /\ \A t \in Targets : InOrderAt(t, Source(run.url), run.before[1])
    BY <2>2 DEF UpToDateAt, SourceOf, Source
  <2>4. run.step \in {"save", "sweep", "write"} => Read = Source(run.url)
    BY <2>1 DEF Sourced, ReadsAgree, Reading, Read
  <2>5. snapshot' = snapshot
    <3>1. CASE Save
      BY <2>3, <2>4, <3>1 DEF Save, ReadFirst, Source
    <3>2. CASE Crash
      <4>1. run'.step = "idle" /\ run'.outcome = "crashed"
        BY <3>2, EndTyped DEF Crash, Outcomes
      <4>. QED
        BY <4>1 DEF Live, Running
    <3>. QED
      BY <1>2, <3>1, <3>2 DEF Next, Generator, Developer, Introspect, Render, Swept, Look, RemoveDoomed,
                WriteFile, Written, Migrate, Edit, vars
  <2>6. ASSUME NEW t \in Targets, NEW n \in FileNames, Unedited(t, n)'
        PROVE  disk'[t][n] = run.before[1][t][n]
    <3>0. Unedited(t, n)
      BY <1>2, <2>6, RunStep DEF Unedited
    <3>1. Unedited(t, n) /\ disk[t][n] = run.before[1][t][n]
      BY <2>2, <3>0
    <3>2. CASE WriteFile
      <4>. DEFINE written == Files(run.target, Read)[run.next]
      <4>1. disk'[t][n] = IF t = run.target /\ n = written.name THEN written.text ELSE disk[t][n]
        BY <3>2, WriteFrame
      <4>2. run.step = "write" /\ run.next \in DOMAIN Files(run.target, Read)
        BY <3>2 DEF WriteFile
      <4>3. InOrderAt(run.target, Read, run.before[1])
        BY <2>3, <2>4, <4>2
      <4>4. run.before[1][run.target][written.name] = written.text
        BY <4>2, <4>3 DEF InOrderAt
      <4>. QED
        BY <3>1, <4>1, <4>4
    <3>3. ASSUME NEW m \in FileNames, RemoveDoomed(m)
          PROVE  disk'[t][n] = run.before[1][t][n]
      <4>1. /\ m \in run.doomed /\ run.step = "sweep"
            /\ disk'[t][n] = IF t = run.target /\ n = m THEN Absent ELSE disk[t][n]
        BY <3>3, RemoveFrame
      <4>2. ~(t = run.target /\ n = m)
        <5>. SUFFICES ASSUME t = run.target, n = m
                      PROVE  FALSE
          OBVIOUS
        <5>1. IsOurs(disk[t][n]) /\ n \notin Wanted(t, Read)
          BY <3>1, <4>1 DEF Settling, SweptSoFar
        <5>2. {k \in FileNames : IsOurs(run.before[1][t][k]) /\ k \notin Wanted(t, Read)} = {}
          BY <2>3, <2>4, <4>1 DEF InOrderAt
        <5>. QED
          BY <3>1, <5>1, <5>2
      <4>. QED
        BY <3>1, <4>1, <4>2
    <3>4. ASSUME NEW s \in Targets, NEW m \in FileNames, Edit(s, m)
          PROVE  disk'[t][n] = run.before[1][t][n]
      BY <2>6, <3>1, <3>4, EditFrame DEF Unedited
    <3>5. ~Crash
      <4>1. Crash => run'.step = "idle" /\ run'.outcome = "crashed"
        BY EndTyped DEF Crash, Outcomes
      <4>. QED
        BY <4>1 DEF Live, Running
    <3>6. CASE Introspect \/ Save \/ Render \/ Swept \/ Written \/ UNCHANGED vars
               \/ (\E m \in FileNames : Look(m)) \/ (\E c \in Catalogs : Migrate(c))
      BY <3>1, <3>6, Stays
    <3>. QED
      BY <1>2, <3>2, <3>3, <3>4, <3>5, <3>6 DEF Next, Generator, Developer
  <2>. QED
    BY <2>1, <2>2, <2>5, <2>6
<1>. QED
  BY <1>1, <1>2

LEMMA ExactWhenSettled ==
  ASSUME Typed, RunSettles, CleanIsCheck, CleanChangesNothing
  PROVE  CheckIsExact
<1>. SUFFICES ASSUME run.outcome = "completed", ~run.migrated
              PROVE  /\ run.clean =>
                          /\ snapshot = run.before[2]
                          /\ \A t \in Targets, n \in FileNames :
                               Unedited(t, n) => disk[t][n] = run.before[1][t][n]
                     /\ LeftAlone /\ OneTextEach /\ run.before = <<disk, snapshot>> => run.clean
  BY DEF CheckIsExact, Unedited
<1>1. run.clean =>
        /\ snapshot = run.before[2]
        /\ \A t \in Targets, n \in FileNames : Unedited(t, n) => disk[t][n] = run.before[1][t][n]
  BY DEF CleanChangesNothing, Live
<1>2. LeftAlone /\ OneTextEach => UpToDateAt(run.url, disk, snapshot)
  BY CheckedNow DEF RunSettles, Typed, TypeOK, Runs
<1>3. LeftAlone /\ OneTextEach /\ run.before = <<disk, snapshot>> => run.clean
  BY <1>2 DEF CleanIsCheck, Live
<1>. QED
  BY <1>1, <1>3

\* After a clean --check a run changes nothing but what the developer touched, and
\* a run left alone that changes neither a file nor the snapshot had a clean one
\* (check_files against write_files).
THEOREM CheckIsAlwaysExact == Spec => []CheckIsExact
<1>1. Init => CleanIsCheck /\ CleanChangesNothing
  BY DEF Init, Idle, CleanIsCheck, CleanChangesNothing, Live, Running
<1>2. Init => Typed /\ Settling /\ Sourced
  BY TypedInit, SettlingInit
<1>3. /\ Typed /\ Settling /\ Sourced /\ CleanIsCheck /\ CleanChangesNothing /\ [Next]_vars
      => Typed' /\ Settling' /\ Sourced' /\ CleanIsCheck' /\ CleanChangesNothing'
  BY SettlingStep, CleanIsCheckStep, CleanChangesNothingStep
<1>4. Typed /\ Settling /\ Sourced /\ CleanIsCheck /\ CleanChangesNothing => CheckIsExact
  BY SettlesAtTheEnd, ExactWhenSettled DEF Settling
<1>. QED
  BY <1>1, <1>2, <1>3, <1>4, PTL DEF Spec

============================================================================
