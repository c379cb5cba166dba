-------------------------- MODULE BlockAllocatorMC --------------------------
(***************************************************************************)
(* Instances of BlockAllocator for TLC, and the refinement of Memory.      *)
(***************************************************************************)
EXTENDS BlockAllocator, Pieces

(* The sizes that the memory in which the blocks lie may have. *)
Extents ==
    BufferSizes \cup {Pool(n, a, spots).size : n \in BlockBytes, a \in Alignments, spots \in PoolSpots}

Regions == UNION {Intervals(size) : size \in Extents}

Piece == [b \in Live |-> b .. b + held[b] - 1]
Content == [b \in Live |-> m.word[b]]
HeldPieces == Held(Piece, Content)

Abstract == INSTANCE Memory WITH
    Region  <- Regions,
    Content <- {Zero, Data},
    live    <- HeldPieces

(***************************************************************************)
(* Blocks in use are disjoint and the allocator never writes to them: what *)
(* it stores in free blocks, and the zeros it writes, stay out of memory   *)
(* that the program holds.                                                 *)
(***************************************************************************)
ImplementsMemory == Abstract!Spec
=============================================================================
