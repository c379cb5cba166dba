------------------------------- MODULE ArcMC -------------------------------
(***************************************************************************)
(* Instances of Arc for TLC, and the refinement of Ownership.              *)
(***************************************************************************)
EXTENDS ArcOwnership, TLC

Symmetry == Permutations(Thread) \cup Permutations(Handle)
=============================================================================
