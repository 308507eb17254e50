---------------------------- MODULE GeneratedTree ----------------------------
(***************************************************************************)
(* The files keelson-gen keeps in a checkout (lib.rs, schema.rs, bin/): one *)
(* directory per target -- the models, then the queries -- and the schema   *)
(* snapshot.  A run introspects and writes target after target, and reads,  *)
(* removes and writes one file at a time; a developer migrates the          *)
(* database, edits files and interrupts runs between any two of its steps.  *)
(*                                                                          *)
(* A catalog stands for a database and the configuration read with it; what *)
(* it generates is a constant of this module.                               *)
(***************************************************************************)
EXTENDS Naturals, Sequences

CONSTANTS
    Catalogs,        \* the states of the database
    Count,           \* targets are numbered 1..Count, in the order a run takes them
    FileNames,       \* of any target
    Texts,           \* what the generator can write into a file
    Refusals,        \* the <<target, catalog>> whose generation answers an error
    Output,          \* target -> catalog -> otherwise its files, in the order they are written
    Absent,          \* content of a file that is not there
    Hand,            \* of one without the @generated header
    Altered,         \* of one with the header that no run wrote in full
    Torn,            \* of one a run died over before the header was down
    MaxEdits         \* bound: migrations, edits and crashes

Targets == 1..Count
Refuses(t, c) == <<t, c>> \in Refusals
Files(t, c) == Output[t][c]
Content == Texts \cup {Absent, Hand, Altered, Torn}

ASSUME CountAssumption == Count \in Nat \ {0} /\ MaxEdits \in Nat
ASSUME ContentAssumption ==
    /\ {Absent, Hand, Altered, Torn} \cap Texts = {}
    /\ Absent # Hand /\ Absent # Altered /\ Absent # Torn
    /\ Hand # Altered /\ Hand # Torn /\ Altered # Torn
    /\ Absent \notin Catalogs /\ Torn \notin Catalogs
ASSUME FilesAssumption ==
    \A t \in Targets : \A c \in Catalogs :
      ~Refuses(t, c) => Files(t, c) \in Seq([name : FileNames, text : Texts])

VARIABLES
    catalog,
    snapshot,    \* a catalog, Absent, or Torn when it does not load
    disk,        \* target -> name -> content
    run,         \* the generator's run
    edits
vars == <<catalog, snapshot, disk, run, edits>>

Wanted(t, c) == {Files(t, c)[i].name : i \in DOMAIN Files(t, c)}
IsOurs(content) == content \in Texts \cup {Altered}

\* The generator pushes a file of a name it has already: the model of a table
\* named `factories`, a query module named `mod`.
Unambiguous(t, c) ==
    \A i, j \in DOMAIN Files(t, c) :
      Files(t, c)[i].name = Files(t, c)[j].name => Files(t, c)[i].text = Files(t, c)[j].text

\* content is what the last of the first k - 1 files with the name n says.
WrittenAs(t, c, n, k, content) ==
    \E i \in DOMAIN Files(t, c) :
      /\ i < k /\ Files(t, c)[i] = [name |-> n, text |-> content]
      /\ \A j \in DOMAIN Files(t, c) : i < j /\ j < k => Files(t, c)[j].name # n

Orphans(t, c) == {n \in FileNames : IsOurs(disk[t][n]) /\ n \notin Wanted(t, c)}
Source(url) == IF url THEN catalog ELSE snapshot

-----------------------------------------------------------------------------
\* --check: nothing is written; every difference from what a run would write.

CheckRefuses(url) ==
    Source(url) \notin Catalogs \/ \E t \in Targets : Refuses(t, Source(url))

\* Mutant: files no longer generated are not drift.
InOrderForgiving(t, c) ==
    \A i \in DOMAIN Files(t, c) : disk[t][Files(t, c)[i].name] = Files(t, c)[i].text

InOrder(t, c) ==
    /\ \A i \in DOMAIN Files(t, c) : disk[t][Files(t, c)[i].name] = Files(t, c)[i].text
    /\ Orphans(t, c) = {}

UpToDate(url) ==
    /\ ~CheckRefuses(url)
    /\ url => snapshot = catalog
    /\ \A t \in Targets : InOrder(t, Source(url))

-----------------------------------------------------------------------------
Idle == [step |-> "idle", url |-> FALSE, target |-> 1, reads |-> [t \in Targets |-> Absent],
         left |-> {}, doomed |-> {}, next |-> 1, outcome |-> "none",
         edited |-> {}, migrated |-> FALSE, clean |-> FALSE, before |-> <<disk, snapshot>>]

Init ==
    /\ catalog \in Catalogs /\ snapshot \in {Absent, Torn}
    /\ disk = [t \in Targets |-> [n \in FileNames |-> Absent]]
    /\ run = Idle /\ edits = 0

Running == run.step # "idle"
End(outcome) == [run EXCEPT !.step = "idle", !.outcome = outcome, !.left = {}, !.doomed = {}]

\* The schema the target at hand was last introspected from.
Read == run.reads[run.target]

\* What is on disk and what --check would say of it are remembered, and from
\* here on what the developer touches, to be held against what the run does.
Start(url) ==
    /\ ~Running
    /\ run' = [Idle EXCEPT !.step = "introspect", !.url = url, !.clean = UpToDate(url)]
    /\ UNCHANGED <<catalog, snapshot, disk, edits>>

\* introspect_from: a url wins, the snapshot is the fallback.
Introspect ==
    /\ run.step = "introspect"
    /\ run' = IF Source(run.url) \in Catalogs
              THEN [run EXCEPT !.step = IF run.url THEN "save" ELSE "render",
                               !.reads[run.target] = Source(run.url)]
              ELSE End("refused")
    /\ UNCHANGED <<catalog, snapshot, disk, edits>>

\* Mutant: a snapshot that exists already is left as it is.
SaveOnce ==
    /\ run.step = "save"
    /\ snapshot' = IF snapshot = Absent THEN Read ELSE snapshot
    /\ run' = [run EXCEPT !.step = "render"]
    /\ UNCHANGED <<catalog, disk, edits>>

\* introspect_and_refresh.
Save ==
    /\ run.step = "save"
    /\ snapshot' = Read
    /\ run' = [run EXCEPT !.step = "render"]
    /\ UNCHANGED <<catalog, disk, edits>>

\* Mutant: the tree is cleared of what is no longer wanted while rendering.
RenderClearing ==
    /\ run.step = "render"
    /\ run' = IF Refuses(run.target, Read) THEN End("refused")
              ELSE [run EXCEPT !.step = "sweep", !.next = 1]
    /\ disk' = IF Refuses(run.target, Read)
               THEN [disk EXCEPT ![run.target] = [n \in FileNames |-> Absent]] ELSE disk
    /\ UNCHANGED <<catalog, snapshot, edits>>

\* generate_from_schema: the whole target, before its first file is touched;
\* then write_files lists the directory.
Render ==
    /\ run.step = "render"
    /\ run' = IF Refuses(run.target, Read) THEN End("refused")
              ELSE [run EXCEPT !.step = "sweep", !.next = 1,
                               !.left = {n \in FileNames : disk[run.target][n] # Absent}]
    /\ UNCHANGED <<catalog, snapshot, disk, edits>>

\* Mutant: leftovers are told by their name alone, not by their header.
LookByName(n) ==
    /\ run.step = "sweep" /\ run.doomed = {} /\ n \in run.left
    /\ run' = [run EXCEPT !.left = @ \ {n}, !.doomed = {n} \ Wanted(run.target, Read)]
    /\ UNCHANGED <<catalog, snapshot, disk, edits>>

\* write_files reads the files listed, one after the other: a leftover with the
\* header is to go ...
Look(n) ==
    /\ run.step = "sweep" /\ run.doomed = {} /\ n \in run.left
    /\ run' = [run EXCEPT !.left = @ \ {n}, !.doomed = {n} \cap Orphans(run.target, Read)]
    /\ UNCHANGED <<catalog, snapshot, disk, edits>>

\* ... and goes, whatever it has become since, a file of the developer's too; one
\* that is gone is an error.
RemoveDoomed(n) ==
    /\ run.step = "sweep" /\ n \in run.doomed
    /\ disk' = [disk EXCEPT ![run.target][n] = Absent]
    /\ run' = IF disk[run.target][n] = Absent THEN End("failed")
              ELSE [run EXCEPT !.doomed = @ \ {n}]
    /\ UNCHANGED <<catalog, snapshot, edits>>

Swept ==
    /\ run.step = "sweep" /\ run.doomed = {} /\ run.left = {}
    /\ run' = [run EXCEPT !.step = "write"]
    /\ UNCHANGED <<catalog, snapshot, disk, edits>>

\* Every file is written over whatever has its name.
WriteFile ==
    LET files == Files(run.target, Read)
    IN  /\ run.step = "write" /\ run.next \in DOMAIN files
        /\ disk' = [disk EXCEPT ![run.target][files[run.next].name] = files[run.next].text]
        /\ run' = [run EXCEPT !.next = @ + 1]
        /\ UNCHANGED <<catalog, snapshot, edits>>

\* The binary's main: the queries after the models, each with its own
\* introspection.
Written ==
    /\ run.step = "write" /\ run.next \notin DOMAIN Files(run.target, Read)
    /\ run' = IF run.target = Count THEN End("completed")
              ELSE [run EXCEPT !.step = "introspect", !.target = @ + 1]
    /\ UNCHANGED <<catalog, snapshot, disk, edits>>

Generator ==
    \/ Introspect \/ Save \/ Render \/ Swept \/ WriteFile \/ Written
    \/ \E n \in FileNames : Look(n) \/ RemoveDoomed(n)

-----------------------------------------------------------------------------
\* The developer, between any two steps of the run.

Disturb == edits < MaxEdits /\ edits' = edits + 1

Migrate(c) ==
    /\ Disturb /\ c # catalog
    /\ catalog' = c /\ run' = [run EXCEPT !.migrated = TRUE]
    /\ UNCHANGED <<snapshot, disk>>

\* Written by hand, edited under its header, or deleted.
Edit(t, n) ==
    /\ Disturb
    /\ \E content \in {Hand, Altered, Absent} :
          content # disk[t][n] /\ disk' = [disk EXCEPT ![t][n] = content]
    /\ run' = [run EXCEPT !.edited = @ \cup {<<t, n>>}]
    /\ UNCHANGED <<catalog, snapshot>>

\* The run dies; the file under its pen is whole, torn or not begun.
Crash ==
    /\ Disturb /\ Running
    /\ run' = End("crashed")
    /\ snapshot' \in IF run.step = "save" THEN {snapshot, Torn} ELSE {snapshot}
    /\ \/ UNCHANGED disk
       \/ /\ run.step = "write" /\ run.next \in DOMAIN Files(run.target, Read)
          /\ \E content \in {Torn, Altered} :
                disk' = [disk EXCEPT ![run.target][Files(run.target, Read)[run.next].name] = content]
    /\ UNCHANGED catalog

Developer ==
    \/ \E c \in Catalogs : Migrate(c)
    \/ \E t \in Targets, n \in FileNames : Edit(t, n)
    \/ Crash

Next == Generator \/ Developer \/ \E url \in BOOLEAN : Start(url)

Spec == Init /\ [][Next]_vars

-----------------------------------------------------------------------------
Steps == {"idle", "introspect", "save", "render", "sweep", "write"}
Outcomes == {"none", "refused", "failed", "completed", "crashed"}
Disks == [Targets -> [FileNames -> Content]]

Snapshots == Catalogs \cup {Absent, Torn}
Runs == [step : Steps, url : BOOLEAN, target : Targets, reads : [Targets -> Catalogs \cup {Absent}],
         left : SUBSET FileNames, doomed : SUBSET FileNames, next : Nat \ {0},
         outcome : Outcomes, edited : SUBSET (Targets \X FileNames),
         migrated : BOOLEAN, clean : BOOLEAN, before : Disks \X Snapshots]

TypeOK ==
    /\ catalog \in Catalogs /\ snapshot \in Snapshots
    /\ disk \in Disks /\ run \in Runs /\ edits \in 0..MaxEdits

\* The targets the run is done with.
Behind == IF run.outcome = "completed" THEN Targets ELSE {t \in Targets : t < run.target}

\* The content of a file is what the generator says last of its name, and
\* otherwise not the generator's.
AsGenerated(t, c, n, content) ==
    IF n \in Wanted(t, c) THEN WrittenAs(t, c, n, Len(Files(t, c)) + 1, content)
    ELSE ~IsOurs(content)

\* Nothing but the run itself has changed what it reads and writes.
LeftAlone == run.outcome = "completed" /\ run.edited = {} /\ ~run.migrated

OneTextEach == \A t \in Targets : Unambiguous(t, run.reads[t])

\* Every target the run is done with is as the schema it was read from generates
\* it, up to what the developer touched meanwhile: however the run ends, whatever
\* it found there, torn files of an earlier one included, and whatever was
\* migrated between two targets; and the snapshot it leaves is the last it read.
\* Left alone it leaves the tree as --check wants it, with the database and,
\* through the snapshot it saved, without, exactly if each of its names has one text
\* (run and check, introspect_and_refresh and introspect_from).  "check must not
\* report drift in a tree write_files just produced" (tests/check_files.rs) is more
\* than that: two files of one name are drift for ever.
RunSettles ==
    /\ \A t \in Behind, n \in FileNames :
         <<t, n>> \notin run.edited => AsGenerated(t, run.reads[t], n, disk[t][n])
    /\ run.outcome = "completed" /\ run.url => snapshot = run.reads[Count]
    /\ LeftAlone => /\ UpToDate(run.url) <=> OneTextEach
                    /\ run.url => (UpToDate(FALSE) <=> OneTextEach)

\* --check is exact: after a clean check a run changes nothing but what the
\* developer touched ("An empty result means the tree on disk is byte-for-byte
\* what a run of the generator would produce"), and a run left alone that
\* changes nothing had a clean one, if each of its names has one text.
CheckIsExact ==
    run.outcome = "completed" /\ ~run.migrated =>
      /\ run.clean =>
           /\ snapshot = run.before[2]
           /\ \A t \in Targets, n \in FileNames :
                <<t, n>> \notin run.edited => disk[t][n] = run.before[1][t][n]
      /\ LeftAlone /\ OneTextEach /\ run.before = <<disk, snapshot>> => run.clean

\* A target whose generation is refused keeps every file it had, and so do
\* the targets after it (generate_from_schema before write_files).
RefusedWritesNothing ==
    run.outcome = "refused" =>
        \A t \in run.target..Count, n \in FileNames :
          <<t, n>> \notin run.edited => disk[t][n] = run.before[1][t][n]

\* A file without the header is the developer's: one that was there when the run
\* began, and that the developer leaves alone, is written over by the run that
\* generates a file of its name and by nothing else (write_files and its header).
HandWrittenStays ==
    \A t \in Targets, n \in FileNames :
      run.before[1][t][n] = Hand /\ <<t, n>> \notin run.edited /\ disk[t][n] # Hand
        => t <= run.target /\ n \in Wanted(t, run.reads[t])

============================================================================
