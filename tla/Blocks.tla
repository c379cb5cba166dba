------------------------------- MODULE Blocks -------------------------------
(***************************************************************************)
(* The functions of block_allocator_t (allocators/block_allocator.h) on    *)
(* its members, as operators from a state to the possible outcomes.        *)
(*                                                                         *)
(* A buffer is cut into blocks of equal size. Free blocks form a list that *)
(* is stored in the blocks themselves: the first word of a free block is   *)
(* the address of the next one. Addresses are byte offsets in the buffer.  *)
(* word[b] stands for the first word of block b: a link, zero, or data.    *)
(***************************************************************************)
EXTENDS Integers, FiniteSets

CONSTANTS
    Null,
    Zero, Data, \* a block filled with zeros, or with something else (what its user
                \* wrote, or a link that was left over when it was handed out)
    WordSize,   \* sizeof and alignof of a pointer
    Backing     \* "growable" if there is an allocator behind the buffer, otherwise "none"

ASSUME BlocksAssumption ==
    /\ WordSize \in Nat \ {0}
    /\ Backing \in {"none", "growable"}
    /\ {Null, Zero, Data} \cap Int = {}
    /\ Null \notin {"invalid_request", "not_contained", "grown_block_not_contained",
                   "not_block_start", "negative_fill", "misaligned", "aligned_block", "memcopy"}

Absent == [kind |-> "none"]     \* in place of the members, where there is no allocator

With(f, x, v) == [y \in DOMAIN f \cup {x} |-> IF y = x THEN v ELSE f[y]]

RoundUp(multiple, size) == ((size - 1) \div multiple + 1) * multiple

AtLeast(a, b) == IF a < b THEN b ELSE a
AtMost(a, b) == IF a < b THEN a ELSE b

(***************************************************************************)
(* What a call returns: success, an error, or the assertion that ended the *)
(* program.                                                                *)
(***************************************************************************)
Error == {"oom", "unsupported", "couldnt_expand_in_place"}
Abort == {"invalid_request", "not_contained", "grown_block_not_contained",
          "not_block_start", "negative_fill"}

Starts(m) == {i * m.blocksize : i \in 0 .. (m.size \div m.blocksize) - 1}

(* ok_memcontains *)
Contains(m, first, length) == m.size > 0 /\ first >= 0 /\ first + length <= m.size

(***************************************************************************)
(* Put every whole block of the bytes from first on in front of the list.  *)
(***************************************************************************)
FreeEverything(m, first, length, head) ==
    LET count   == length \div m.blocksize
        fresh   == {first + i * m.blocksize : i \in 0 .. count - 1}
        link(b) == IF b = first THEN head ELSE b - m.blocksize
    IN  [m EXCEPT !.word = [b \in DOMAIN m.word \cup fresh |->
                                IF b \in fresh THEN link(b) ELSE m.word[b]],
                  !.head = IF count = 0 THEN head ELSE first + (count - 1) * m.blocksize]

(***************************************************************************)
(* The two constructors: with a buffer of the caller, of any size, or with *)
(* one from the backing allocator, which may be larger than asked for.     *)
(***************************************************************************)
ActualAlign(minimum_alignment) == AtLeast(minimum_alignment, WordSize)
ActualBlocksize(num_bytes, minimum_alignment) ==
    RoundUp(ActualAlign(minimum_alignment), AtLeast(num_bytes, WordSize))

Members(size, num_bytes, minimum_alignment) ==
    LET m == [kind |-> "block", size |-> size, align |-> ActualAlign(minimum_alignment),
              blocksize |-> ActualBlocksize(num_bytes, minimum_alignment),
              word |-> << >>, head |-> Null]
    IN  FreeEverything(m, 0, size, Null)

-----------------------------------------------------------------------------

(***************************************************************************)
(* grow: reallocate the buffer in place. The new blocks start where the    *)
(* part of the old buffer that held no whole block starts. The size of the *)
(* buffer in m is not updated. The allocator behind the buffer may refuse  *)
(* with any error, and grow passes it on: oom, unsupported (blocks of a    *)
(* linked_blockpool_allocator_t are too small), or couldnt_expand_in_place *)
(* (allocator_t::reallocate, for those that never expand in place).        *)
(***************************************************************************)
GrowRequestValid(m) == m.size * 2 > m.size + m.blocksize

Grown(m, newsize) ==
    LET padding == m.size % m.blocksize
    IN  FreeEverything(m, m.size - padding, newsize - m.size + padding, m.head)

Grow(m) ==
    IF Backing = "none" THEN {[m |-> m, err |-> "oom"]}
    ELSE IF ~GrowRequestValid(m) THEN {[m |-> m, err |-> "invalid_request"]}
    ELSE {[m |-> m, err |-> e] : e \in Error} \cup
         {[m |-> Grown(m, newsize), err |-> "success"] :
            newsize \in m.size + m.blocksize .. m.size * 2}

(***************************************************************************)
(* impl_allocate: grows first, then looks at the size of the request.      *)
(***************************************************************************)
WithFreeBlock(m) == IF m.head = Null THEN Grow(m) ELSE {[m |-> m, err |-> "success"]}

TooBig(m, request) == request.num_bytes > m.blocksize \/ request.alignment > m.align

Popped_KeepsHead(m, leave_nonzeroed) ==
    [m EXCEPT !.word[m.head] = IF leave_nonzeroed THEN Data ELSE Zero]

Popped(m, leave_nonzeroed) ==
    [m EXCEPT !.head = m.word[m.head],
              !.word[m.head] = IF leave_nonzeroed THEN Data ELSE Zero]

WasGrown(m) == DOMAIN m.word # Starts(m)

Pop(m, request) ==
    IF TooBig(m, request) THEN [m |-> m, err |-> "oom"]
    ELSE IF ~Contains(m, m.head, m.blocksize)
    THEN [m |-> m, err |-> IF WasGrown(m) THEN "grown_block_not_contained" ELSE "not_contained"]
    ELSE [m |-> Popped(m, request.leave_nonzeroed), err |-> "success", block |-> m.head]

AllocateOutcomes(m, request) ==
    {IF g.err = "success" THEN Pop(g.m, request) ELSE g : g \in WithFreeBlock(m)}

(***************************************************************************)
(* impl_deallocate: the pointer is rounded down to the start of its block. *)
(***************************************************************************)
BlockOf_RoundsUp(m, memory) == ((memory + m.blocksize - 1) \div m.blocksize) * m.blocksize

BlockOf(m, memory) == (memory \div m.blocksize) * m.blocksize

Push(m, block) == [m EXCEPT !.word[block] = m.head, !.head = block]

DeallocateOutcome(m, memory) ==
    IF Contains(m, memory, 1) /\ Contains(m, BlockOf(m, memory), 1)
    THEN [m |-> Push(m, BlockOf(m, memory)), err |-> "success"]
    ELSE [m |-> m, err |-> "not_contained"]

(***************************************************************************)
(* reallocate and impl_reallocate: the block stays the same, the slice     *)
(* that the caller gets has another length, and the bytes between the two  *)
(* lengths are filled with zeros.                                          *)
(***************************************************************************)
RequestValid(request) ==
    request.preferred = 0 \/
        (request.new_size >= request.size /\ request.preferred > request.new_size)

NewSize(m, request) ==
    IF request.preferred = 0 THEN request.new_size
                             ELSE AtMost(request.preferred, m.blocksize)

ReallocateOutcome(m, request) ==
    LET newsize == NewSize(m, request)
        fail(e) == [m |-> m, err |-> e]
    IN  IF ~RequestValid(request) THEN fail("invalid_request")
        ELSE IF ~Contains(m, request.memory, request.size) THEN fail("not_contained")
        ELSE IF request.memory % m.blocksize # 0 THEN fail("not_block_start")
        ELSE IF request.new_size > m.blocksize THEN fail("oom")
        ELSE IF ~request.leave_nonzeroed /\ newsize < request.size THEN fail("negative_fill")
        ELSE [m |-> m, err |-> "success", size |-> newsize]

(* clear *)
Cleared_KeepsList(m) == FreeEverything(m, 0, m.size, m.head)

Cleared(m) == FreeEverything(m, 0, m.size, Null)

-----------------------------------------------------------------------------

(***************************************************************************)
(* The blocks that the links in succ lead to from first on.                *)
(***************************************************************************)
Listed(first, succ) ==
    LET Follows(S) == /\ first \in DOMAIN succ => first \in S
                      /\ \A b \in S : succ[b] \in DOMAIN succ => succ[b] \in S
    IN  {b \in DOMAIN succ : \A S \in SUBSET DOMAIN succ : Follows(S) => b \in S}

FreeBlocks(m) == Listed(m.head, m.word)

(***************************************************************************)
(* No link of the free list leads back to its head, or to where another    *)
(* one leads: it visits no block twice, and ends. Of the blocks of the     *)
(* buffer it visits exactly the given ones. (Blocks of a grown buffer are  *)
(* behind m.size.)                                                         *)
(***************************************************************************)
ListsExactly(m, blocks) ==
    /\ FreeBlocks(m) \cap Starts(m) = blocks
    /\ m.head \in DOMAIN m.word \cup {Null}
    /\ \A b \in FreeBlocks(m) : m.word[b] \in DOMAIN m.word \cup {Null} /\ m.word[b] # m.head
    /\ \A b, c \in FreeBlocks(m) : b # c => m.word[b] # m.word[c]
=============================================================================
