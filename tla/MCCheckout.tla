----------------------------- MODULE MCCheckout -----------------------------
(* Checkout for TLC: every combination of options one axis at a time and    *)
(* together with a level; tasks and connections are interchangeable.        *)
EXTENDS Checkout, TLC

O(level, access, mode) == [isolation |-> level, access |-> access, sqliteBegin |-> mode]

\* All options.
MCAll == Options

\* What tells apart a leaked level, a leaked access mode and nothing asked.
MCSome == {O(Unset, Unset, Unset), O("Serializable", Unset, Unset),
           O("ReadUncommitted", Unset, Unset), O("ReadCommitted", "ReadOnly", Unset)}

MCSymmetry == Permutations(Conn) \union Permutations(Task)
=============================================================================
