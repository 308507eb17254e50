----------------------------- MODULE LoadedJoin -----------------------------
(***************************************************************************)
(* What a load path stands for: at every level, the rows a join of parents  *)
(* and children would pair.                                                *)
(***************************************************************************)
EXTENDS ThenLoad

CONSTANT MaxDepth   \* how many levels below the first a path is followed

ASSUME DepthAssumption == MaxDepth \in Nat

\* The children of a row by definition.
Related(row, level) ==
    {i \in DOMAIN table :
       /\ i \in level.keep
       /\ row[level.rel.parent] # Null
       /\ row[level.rel.parent] = IF level.rel.child = "id" THEN i ELSE table[i]}

\* A relation that is loaded again is what its last load makes of it.
Lasts(levels) ==
    {n \in DOMAIN levels : \A k \in DOMAIN levels : levels[k].rel = levels[n].rel => k <= n}

Loaded(row, rel) == IF rel \in DOMAIN row.rel THEN row.rel[rel] ELSE <<>>

\* A row carries what a level relates to it: all of it, or one of it if there is any.
Carries(row, level) ==
    LET own == Loaded(row, level.rel)
        ids == {own[k].id : k \in DOMAIN own}
    IN  /\ IsInjective(Keys(own, "id"))
        /\ IF level.rel.many THEN ids = Related(row, level)
           ELSE ids \subseteq Related(row, level) /\ (ids = {} <=> Related(row, level) = {})
        /\ \A k \in DOMAIN own : own[k].ref = table[own[k].id]

\* The rows returned and the levels loaded onto them; their children and the levels
\* below; and so on.
Reached[n \in 0..MaxDepth] ==
    IF n = 0 THEN {<<row, query.loaders[k]>> : row \in ToSet(result), k \in Lasts(query.loaders)}
    ELSE UNION {{<<child, p[2].then[k]>> :
                   child \in ToSet(Loaded(p[1], p[2].rel)), k \in Lasts(p[2].then)} : p \in Reached[n - 1]}

\* "Parents are assumed key-distinct" (load.rs, attach_to_many): the caller's rows are
\* different models, and a to-many relation reads their key.
ParentsDiffer ==
    IsInjective(query.rows) /\ \A l \in Levels : l.rel.many => l.rel.parent = "id"

\* Batches, deduplication and sharing change nothing: on a quiet table, and where
\* parents differ, what is loaded is the join, all the way down.
LoadedIsTheJoin ==
    outcome = "ok" /\ writes = 0 /\ ParentsDiffer =>
      \A n \in 0..MaxDepth : \A p \in Reached[n] : Carries(p[1], p[2])
=============================================================================
