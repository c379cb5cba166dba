------------------------------ MODULE ValuesMC ------------------------------
EXTENDS Values, TLC

Symmetry == Permutations(Holders)
=============================================================================
