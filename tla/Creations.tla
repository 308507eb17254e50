------------------------------ MODULE Creations ------------------------------
(***************************************************************************)
(* What a creation amounts to, counted over whole templates: a template     *)
(* holds others, so the count recurs.                                       *)
(***************************************************************************)
EXTENDS Factory

\* The rows a template stands for: its own, its parent's unless it exists,
\* and one for every child.
RECURSIVE Implied(_)
Implied(tpl) ==
    1 + (CASE tpl.parent.state = "template" -> Implied(tpl.parent.tpl[1])
           [] tpl.parent.state = "auto"     -> Implied(Template(Refers[tpl.table].to))
           [] OTHER                         -> 0)
      + FoldFunction(+, 0, [i \in DOMAIN tpl.children |-> Implied(Forced(tpl.children[i], 0))])

\* create makes the rows its template implies and no other; every queued
\* child hangs off the row it was queued on, and the row off the parent the
\* template named or made (create_with of emit/factory.rs).
CreatesWhatIsImplied ==
  /\ ChildrenHangOff
  /\ \A c \in Callers : tasks[c].outcome = "ok" /\ tasks[c].job.template # <<>> =>
      LET tpl  == tasks[c].job.template[1]
          made == Range(tasks[c].made)
      IN  /\ Len(tasks[c].made) = tasks[c].job.times * Implied(tpl)
          /\ \A i \in DOMAIN tasks[c].results : \E r \in made :
               /\ r.table = tpl.table /\ r.id = tasks[c].results[i]
               /\ Cardinality({k \in made : PointsAt(k, r)}) = Len(tpl.children)
               /\ tpl.parent.state = "existing" => r.parent = tpl.parent.key
               /\ tpl.parent.state \in {"template", "auto"} => \E p \in made : PointsAt(r, p)

============================================================================
