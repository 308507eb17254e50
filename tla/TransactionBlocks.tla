-------------------------- MODULE TransactionBlocks --------------------------
(***************************************************************************)
(* Transaction implements AtomicBlocks: the savepoint levels, the frames of *)
(* the session and the replies realise nested all-or-nothing blocks.        *)
(***************************************************************************)
EXTENDS Transaction

\* A block is undone as soon as ROLLBACK TO has answered, before the RELEASE.
BlockState(n) ==
    CASE pc[n] \in {Unborn, "begin"}               -> "idle"
      [] pc[n] \in {"opening", "releasing", "undoing"} -> "open"
      [] pc[n] \in {"body", "committing", "rollingback"} ->
           IF n = Root /\ session.tx \notin {"active", "aborted"} THEN "lost" ELSE "open"
      [] pc[n] = "ok"                              -> "kept"
      [] OTHER                                     -> "undone"

Blocks == INSTANCE AtomicBlocks
            WITH state <- [n \in Node |-> BlockState(n)],
                 work <- Pending(session)

\* within and savepoint give their caller nested blocks, each kept or undone
\* as a whole (begin.rs, Atomic; mod.rs, Transaction::savepoint).
BlocksAreAtomic == Blocks!Spec
=============================================================================
