---------------------------- MODULE ArcVariantMC ----------------------------
(* Instances of ArcVariant for TLC. *)
EXTENDS ArcVariant, TLC

Symmetry == Permutations(Thread) \cup Permutations(Variant)
=============================================================================
