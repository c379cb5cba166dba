------------------------------- MODULE Memory -------------------------------
(***************************************************************************)
(* What an allocator promises (the interface in allocators/allocator.h):   *)
(* the pieces of memory that its users hold are disjoint, and what a user  *)
(* wrote to a piece stays there until the user writes again, gives the     *)
(* piece back or clears the allocator.                                     *)
(***************************************************************************)
CONSTANTS
    Region,     \* pieces of memory that can be handed out, as sets of addresses
    Content     \* what a piece can hold

VARIABLE live   \* the content of every piece that is held

Disjoint(r, others) == \A q \in others : q \cap r = {}

Without(r) == [q \in DOMAIN live \ {r} |-> live[q]]

(* what is held when the pieces of others are and r, which contains c *)
With(r, c, others) == [q \in DOMAIN others \cup {r} |-> IF q = r THEN c ELSE others[q]]

-----------------------------------------------------------------------------

Init == live = << >>

(***************************************************************************)
(* allocate: some piece that overlaps no other one, with any content.      *)
(***************************************************************************)
Allocate(r) ==
    /\ Disjoint(r, DOMAIN live)
    /\ \E c \in Content : live' = With(r, c, live)

Deallocate(r) == live' = Without(r)

(***************************************************************************)
(* reallocate: the content moves with the piece, which may change its size *)
(* and its place.                                                          *)
(***************************************************************************)
Reallocate(r, s) ==
    /\ Disjoint(s, DOMAIN live \ {r})
    /\ live' = With(s, live[r], Without(r))

Write(r, c) == live' = [live EXCEPT ![r] = c]

(***************************************************************************)
(* clear: everything is given back at once.                                *)
(***************************************************************************)
Clear == live' = << >>

Next ==
    \/ Clear
    \/ \E r \in Region : Allocate(r)
    \/ \E r \in DOMAIN live :
        \/ Deallocate(r)
        \/ \E c \in Content : Write(r, c)
        \/ \E s \in Region : Reallocate(r, s)

Spec == Init /\ [][Next]_live
=============================================================================
