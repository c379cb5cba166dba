--------------------------- MODULE LinkedBlockpool ---------------------------
(***************************************************************************)
(* The functions of linked_blockpool_allocator_t                           *)
(* (allocators/linked_blockpool_allocator.h): blocks of equal size like    *)
(* those of the block allocator, in a pool that starts with a header; when *)
(* they are used up, another pool is added.                                *)
(*                                                                         *)
(* Adding a pool never succeeds, so there is one pool. Addresses are       *)
(* offsets from its blocks_start(); size is that of as_slice(), and room   *)
(* what the buffer has there.                                              *)
(***************************************************************************)
EXTENDS Blocks

CONSTANT HeaderSize     \* sizeof(pool_t)

ASSUME LinkedBlockpoolAssumption == HeaderSize \in Nat \ {0}

PoolAbort == {"not_contained", "negative_fill", "invalid_request", "misaligned", "aligned_block"}

(***************************************************************************)
(* init_in_buffer: std::align takes the padding off the remaining space,   *)
(* which started as the whole buffer, header included.                     *)
(***************************************************************************)
Padding(alignment) == RoundUp(alignment, HeaderSize) - HeaderSize

NumBlocks(bytes, blocksize, alignment) == (bytes - Padding(alignment)) \div blocksize

(* the free list of a new pool starts at its first block *)
PoolList(blocksize, n) ==
    [b \in {i * blocksize : i \in 0 .. n - 1} |->
        IF b = (n - 1) * blocksize THEN Null ELSE b + blocksize]

(* start_with_one_pool *)
Pool(num_bytes, minimum_alignment, spots) ==
    LET alignment == ActualAlign(minimum_alignment)
        blocksize == ActualBlocksize(num_bytes, minimum_alignment)
        bytes     == HeaderSize + alignment + blocksize * spots
        n         == NumBlocks(bytes, blocksize, alignment)
    IN  [kind |-> "pool", size |-> n * blocksize, align |-> alignment, blocksize |-> blocksize,
         room |-> bytes - HeaderSize - Padding(alignment),
         word |-> PoolList(blocksize, n), head |-> 0]

(***************************************************************************)
(* alloc_new_blockpool: when the backing allocator has memory for the pool *)
(* the assertion about its blocks' addresses is met by no block, since all *)
(* of them are aligned.                                                    *)
(***************************************************************************)
NewPool(m) == {[m |-> m, err |-> "oom"], [m |-> m, err |-> "aligned_block"]}

(* impl_allocate *)
PoolAllocateOutcomes(m, request) ==
    IF TooBig(m, request) THEN {[m |-> m, err |-> "unsupported"]}
    ELSE IF m.head = Null THEN NewPool(m)
    ELSE {[m |-> Popped(m, request.leave_nonzeroed), err |-> "success", block |-> m.head]}

(***************************************************************************)
(* impl_deallocate: the block is overwritten with a pattern and pushed to  *)
(* the list, from the given address on, not from the start of the block.   *)
(***************************************************************************)
Marked(m, memory) ==
    [b \in DOMAIN m.word |->
        IF b \in memory .. memory + m.blocksize - 1 THEN Data ELSE m.word[b]]

PoolDeallocateOutcome(m, memory) ==
    IF Contains(m, memory, 1)
    THEN [m |-> [m EXCEPT !.word = With(Marked(m, memory), memory, m.head), !.head = memory],
          err |-> "success"]
    ELSE [m |-> m, err |-> "not_contained"]

(* impl_reallocate: within the block or not at all *)
PoolReallocateOutcome(m, request) ==
    LET newsize == NewSize(m, request)
        fail(e) == [m |-> m, err |-> e]
    IN  IF ~RequestValid(request) THEN fail("invalid_request")
        ELSE IF ~Contains(m, request.memory, 1) THEN fail("not_contained")
        ELSE IF request.memory % m.align # 0 THEN fail("misaligned")
        ELSE IF request.new_size > m.blocksize THEN fail("unsupported")
        ELSE IF ~request.leave_nonzeroed /\ newsize < request.size THEN fail("negative_fill")
        ELSE [m |-> m, err |-> "success", size |-> newsize]
=============================================================================
