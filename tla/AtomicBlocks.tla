---------------------------- MODULE AtomicBlocks ----------------------------
(***************************************************************************)
(* What within and savepoint promise their caller: nested blocks of work,   *)
(* each kept or undone as a whole.  A kept block's writes belong to the     *)
(* block around it, an undone block's writes and those of everything inside *)
(* it are gone, and the outermost block makes what is left durable at once  *)
(* or not at all.  There are no savepoints, levels or replies here.         *)
(***************************************************************************)
EXTENDS Naturals, Sequences

CONSTANTS Block, Root, MaxWrites

Node  == Block \union {Root}
Write == Node \X (1 .. MaxWrites)

VARIABLES
  state,     \* of each block: idle, open, kept, undone; for Root also lost
  path,      \* the blocks a block runs inside, Root first, itself last
  work,      \* the writes that would be committed now
  durable    \* the writes that are

vars == <<state, path, work, durable>>

Inside(b) == {n \in Node : b \in {path[n][i] : i \in DOMAIN path[n]}}
Open(n)   == state[n] = "open"
Unlost    == state[Root] # "lost"

Init ==
    /\ state = [n \in Node |-> "idle"]
    /\ path = [n \in Node |-> IF n = Root THEN <<Root>> ELSE <<>>]
    /\ work = {}
    /\ durable = {}

Start ==
    /\ state[Root] = "idle"
    /\ state' = [state EXCEPT ![Root] = "open"]
    /\ UNCHANGED <<path, work, durable>>

\* The innermost blocks do the work.
Do(n, w) ==
    /\ Open(n) /\ Unlost
    /\ w[1] = n
    /\ work' = work \union {w}
    /\ UNCHANGED <<state, path, durable>>

Enter(p, b) ==
    /\ state[p] \in {"open", "lost"} /\ state[b] = "idle"
    /\ state' = [state EXCEPT ![b] = "open"]
    /\ path' = [path EXCEPT ![b] = Append(path[p], b)]
    /\ UNCHANGED <<work, durable>>

Keep(b) ==
    /\ Open(b) /\ Unlost
    /\ \A n \in Inside(b) \ {b} : ~Open(n)
    /\ state' = [state EXCEPT ![b] = "kept"]
    /\ UNCHANGED <<path, work, durable>>

\* The work of b and of the blocks inside it is removed, and no other.
Undo(b) ==
    /\ Open(b)
    /\ state' = [state EXCEPT ![b] = "undone"]
    /\ work' = {w \in work : w[1] \notin Inside(b)}
    /\ UNCHANGED <<path, durable>>

\* The engine dropped the whole transaction; its blocks are yet to hear of it.
Lose ==
    /\ Open(Root)
    /\ state' = [state EXCEPT ![Root] = "lost"]
    /\ work' = {}
    /\ UNCHANGED <<path, durable>>

LoseAndUndo(b) ==
    /\ Open(b) /\ Open(Root)
    /\ state' = [state EXCEPT ![Root] = "lost", ![b] = "undone"]
    /\ work' = {}
    /\ UNCHANGED <<path, durable>>

\* The outermost block ends; the caller of a commit may hear an error although
\* the commit was carried out.
Finish(outcome, kept) ==
    /\ state[Root] \in {"idle", "open", "lost"}
    /\ kept \in {{}, work}
    /\ outcome = "kept" => Open(Root) /\ kept = work
    /\ kept # {} => \A n \in Node \ {Root} : ~Open(n)
    /\ state' = [n \in Node |-> IF n = Root THEN outcome
                                ELSE IF Open(n) THEN "undone" ELSE state[n]]
    /\ durable' = durable \union kept
    /\ work' = {}
    /\ UNCHANGED path

Next ==
    \/ Start \/ Lose
    \/ \E w \in Write : Do(w[1], w)
    \/ \E p \in Node, b \in Block : Enter(p, b)
    \/ \E b \in Block : Keep(b) \/ Undo(b) \/ LoseAndUndo(b)
    \/ \E outcome \in {"kept", "undone"}, kept \in {{}, work} : Finish(outcome, kept)

Spec == Init /\ [][Next]_vars
=============================================================================
