-------------------------- MODULE SlabAllocatorMC --------------------------
(***************************************************************************)
(* Instances of SlabAllocator for TLC, and the refinement of Memory.       *)
(***************************************************************************)
EXTENDS SlabAllocator, Pieces

MCBlocksizes == << [blocksize |-> 1, alignment |-> 1], [blocksize |-> 2, alignment |-> 2] >>

Regions == UNION {{{i} \X r : r \in Intervals(MembersOf(i).size)} : i \in Slab}

Piece == [p \in Live |-> {p[1]} \X (p[2] .. p[2] + held[p] - 1)]
Content == [p \in Live |-> slabs[p[1]].word[p[2]]]
HeldPieces == Held(Piece, Content)

Abstract == INSTANCE Memory WITH
    Region  <- Regions,
    Content <- {Zero, Data},
    live    <- HeldPieces

(***************************************************************************)
(* Blocks in use are disjoint across all slabs and keep their content, and *)
(* a block that moves to another slab takes its content along.             *)
(***************************************************************************)
ImplementsMemory == Abstract!Spec
=============================================================================
