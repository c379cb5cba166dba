------------------------------- MODULE Pieces -------------------------------
(***************************************************************************)
(* How the pieces of memory that a program holds make up the state of      *)
(* Memory. piece and content are functions on the program's pointers.      *)
(***************************************************************************)
EXTENDS Integers

Intervals(size) == {first .. last : first, last \in 0 .. size - 1} \ {{}}

Held(piece, content) ==
    [r \in {piece[p] : p \in DOMAIN piece} |-> content[CHOOSE p \in DOMAIN piece : piece[p] = r]]
=============================================================================
