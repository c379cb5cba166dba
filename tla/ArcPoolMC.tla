------------------------------ MODULE ArcPoolMC ------------------------------
EXTENDS ArcPool, TLC

Symmetry == Permutations(Thread)

(* Once there are three buffers, one of the threads makes no calls, and    *)
(* there are no weak pointers.                                             *)
Bounded ==
    Cardinality(DOMAIN lengths) = 3 =>
        \E t \in Thread : pc[t] = "idle" /\ \A u \in Thread : weak[u] = None
=============================================================================
