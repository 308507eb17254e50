--------------------------- MODULE MCTransaction ---------------------------
(* Transaction and its refinement for TLC: blocks are interchangeable.      *)
EXTENDS TransactionBlocks, TLC

BlockSymmetry == Permutations(Block)

\* A closure that passes on what its statements answer, except that where a
\* failed statement leaves the transaction usable it may carry on.
MCCarriesOn == [f \in Families |-> IF f = "Postgres" THEN {} ELSE {"refused"}]

\* A caller that carries on after a failed block, except after a conflict that
\* may have cost it the whole transaction.
MCCallerCarriesOn ==
    [f \in Families |-> IF f = "Postgres" THEN Errors ELSE {"refused"}]

\* A caller that carries on after anything.
MCCarriesOnAnyway == [f \in Families |-> Errors]
=============================================================================
