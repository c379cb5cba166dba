--------------------------- MODULE BlockAllocator ---------------------------
(***************************************************************************)
(* One block_allocator_t or linked_blockpool_allocator_t and the program   *)
(* that uses it.                                                           *)
(***************************************************************************)
EXTENDS LinkedBlockpool

CONSTANTS
    BufferSizes,    \* sizes of the buffers the allocator may be given
    BlockBytes,     \* num_bytes_per_block of the constructors
    Alignments,
    PoolSpots,      \* num_blocks_in_first_pool
    MaxRequest,     \* bound on the sizes a program asks for
    BrokenUses      \* the uses that are known to fail and that the program makes nevertheless

ASSUME BlockAllocatorAssumption ==
    /\ BufferSizes \subseteq Nat \ {0} /\ BlockBytes \subseteq Nat \ {0}
    /\ Alignments \cup PoolSpots \subseteq Nat \ {0} /\ MaxRequest \in Nat

VARIABLES
    m,      \* the members, or Absent
    held,   \* the blocks the program holds, with the length of its slice
    ended   \* the assertion that ended the program, or Null

vars == <<m, held, ended>>

Live == DOMAIN held

TypeOK ==
    /\ ended \in Abort \cup PoolAbort \cup {Null}
    /\ m = Absent => Live = {}
    /\ m # Absent =>
        /\ Starts(m) \subseteq DOMAIN m.word
        /\ m.head \in DOMAIN m.word \cup {Null}
        /\ \A b \in DOMAIN m.word : m.word[b] \in DOMAIN m.word \cup {Null, Zero, Data}
        /\ Live \subseteq Starts(m)
        /\ \A b \in Live : held[b] \in 1 .. m.blocksize

-----------------------------------------------------------------------------

Init == m = Absent /\ held = << >> /\ ended = Null

(***************************************************************************)
(* The constructors check that there is room for at least one block.       *)
(***************************************************************************)
Construct(size, num_bytes, alignment) ==
    /\ m = Absent /\ ended = Null
    /\ size >= ActualBlocksize(num_bytes, alignment)
    /\ m' = Members(size, num_bytes, alignment)
    /\ UNCHANGED <<held, ended>>

ConstructPool(num_bytes, alignment, spots) ==
    /\ m = Absent /\ ended = Null
    /\ m' = Pool(num_bytes, alignment, spots)
    /\ UNCHANGED <<held, ended>>

Running == m # Absent /\ ended = Null

(***************************************************************************)
(* What every call does with an outcome that is not a success: errors      *)
(* leave the program as it was, assertions end it.                         *)
(***************************************************************************)
Failed(o) ==
    /\ o.err # "success"
    /\ ended' = IF o.err \in Abort \cup PoolAbort THEN o.err ELSE Null
    /\ UNCHANGED held

Succeeded(o) == o.err = "success" /\ UNCHANGED ended

IsPool == m.kind = "pool"

Allocate(request) ==
    /\ Running
    /\ \E o \in IF IsPool THEN PoolAllocateOutcomes(m, request) ELSE AllocateOutcomes(m, request) :
        /\ m' = o.m
        /\ \/ Failed(o)
           \/ Succeeded(o) /\ held' = With(held, o.block, m.blocksize)

(***************************************************************************)
(* The program may pass any pointer into a block that it holds (to a       *)
(* linked_blockpool_allocator_t, only that to its start).                  *)
(***************************************************************************)
Deallocate(block, offset) ==
    /\ Running /\ block \in Live /\ offset < m.blocksize
    /\ IsPool /\ offset # 0 => "inner_pointers" \in BrokenUses
    /\ LET o == IF IsPool THEN PoolDeallocateOutcome(m, block + offset)
                          ELSE DeallocateOutcome(m, block + offset)
       IN  /\ m' = o.m
           /\ \/ Failed(o)
              \/ Succeeded(o) /\ held' = [b \in Live \ {block} |-> held[b]]

Reallocate(block, new_size, preferred, leave_nonzeroed) ==
    /\ Running /\ block \in Live
    /\ LET request == [memory |-> block, size |-> held[block], new_size |-> new_size,
                       preferred |-> preferred, leave_nonzeroed |-> leave_nonzeroed]
           o == IF IsPool THEN PoolReallocateOutcome(m, request) ELSE ReallocateOutcome(m, request)
       IN  /\ RequestValid(request)
           /\ m' = o.m
           /\ \/ Failed(o)
              \/ Succeeded(o) /\ held' = [held EXCEPT ![block] = o.size]

Clear ==
    /\ Running /\ ~IsPool
    /\ m' = Cleared(m)
    /\ held' = << >>
    /\ UNCHANGED ended

(* the program writes to memory that it holds *)
Write(block) ==
    /\ Running /\ block \in Live
    /\ m' = [m EXCEPT !.word[block] = Data]
    /\ UNCHANGED <<held, ended>>

(* the destructors; what is still held is gone with the buffer *)
Destroy ==
    /\ Running
    /\ m' = Absent /\ held' = << >>
    /\ UNCHANGED ended

Sizes == 1 .. MaxRequest

Request == [num_bytes : Sizes, alignment : Alignments, leave_nonzeroed : BOOLEAN]

Next ==
    \/ \E size \in BufferSizes, n \in BlockBytes, a \in Alignments : Construct(size, n, a)
    \/ \E n \in BlockBytes, a \in Alignments, spots \in PoolSpots : ConstructPool(n, a, spots)
    \/ \E request \in Request : Allocate(request)
    \/ \E block \in Live, offset \in 0 .. MaxRequest : Deallocate(block, offset)
    \/ \E block \in Live, new_size \in Sizes, preferred \in 0 .. MaxRequest, leave \in BOOLEAN :
          Reallocate(block, new_size, preferred, leave)
    \/ \E block \in Live : Write(block)
    \/ Clear
    \/ Destroy

Spec == Init /\ [][Next]_vars

-----------------------------------------------------------------------------

(***************************************************************************)
(* The free list, which lives inside the free blocks, is acyclic and runs  *)
(* through every block that the program does not hold and through no other *)
(* one (impl_allocate, impl_deallocate, clear).                            *)
(***************************************************************************)
FreeListExact == TypeOK /\ (Running => ListsExactly(m, Starts(m) \ Live))

(***************************************************************************)
(* Of the internal assertions only those behind a growth can fail: for a   *)
(* program that frees what it holds, the popped block lies in the buffer   *)
(* and so does the freed one, whichever pointer into it was passed.        *)
(***************************************************************************)
AssertionsHold == ended \notin {"not_contained", "not_block_start", "misaligned"}

(***************************************************************************)
(* The assertion of impl_allocate about the block it returns,              *)
(* block_allocator.h:235.                                                  *)
(***************************************************************************)
GrownBlockContained == ended # "grown_block_not_contained"

(***************************************************************************)
(* The blocks of a pool lie in the memory that the backing allocator gave  *)
(* (init_in_buffer; "total size of this pool, including its blocks and     *)
(* padding, in bytes", linked_blockpool_allocator.h:103).                  *)
(***************************************************************************)
BlocksInPool == m # Absent /\ IsPool => m.size <= m.room
=============================================================================
