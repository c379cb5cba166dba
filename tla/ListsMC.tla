------------------------------- MODULE ListsMC -------------------------------
EXTENDS Lists, TLC
Symmetry == Permutations(Handle)
=============================================================================
