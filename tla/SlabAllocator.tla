---------------------------- MODULE SlabAllocator ----------------------------
(***************************************************************************)
(* slab_allocator_t (allocators/slab_allocator.h): block allocators with   *)
(* different block sizes behind one interface. A request goes to the first *)
(* one whose blocks are large enough; when its memory is used up, to the   *)
(* next. What is given back or reallocated goes to the one that contains   *)
(* it. A pointer is the index of a slab with an offset in its buffer.      *)
(***************************************************************************)
EXTENDS Blocks, Sequences

CONSTANTS
    Blocksizes,     \* available_blocksizes in the caller's order, records with
                    \* the fields blocksize and alignment
    Spots,          \* num_initial_blocks_per_blocksize
    MaxRequest      \* bound on the sizes a program asks for

ASSUME SlabAssumption ==
    /\ Blocksizes \in Seq([blocksize : Nat \ {0}, alignment : Nat \ {0}])
    /\ Blocksizes # << >>
    /\ Spots \in Nat \ {0} /\ MaxRequest \in Nat
    /\ Backing # "none"

Slab == 1 .. Len(Blocksizes)

VARIABLES
    slabs,      \* the members of each block allocator, or Absent
    bought,     \* the slabs whose buffer was taken from the backing allocator
    held,       \* the blocks the program holds, with the length of its slice
    refused,    \* the last request, with the error, if it was an allocation that failed, or Null
    ended       \* the assertion that ended the program, or Null

vars == <<slabs, bought, held, refused, ended>>

Live == DOMAIN held
LiveIn(i) == {p[2] : p \in {q \in Live : q[1] = i}}

Constructed == \A i \in Slab : slabs[i] # Absent
Running == Constructed /\ ended = Null

TypeOK ==
    /\ ended \in Abort \cup {"memcopy", Null}
    /\ ~Constructed => Live = {}
    /\ Running => \A i \in Slab :
        /\ slabs[i].head \in Starts(slabs[i]) \cup {Null}
        /\ LiveIn(i) \subseteq Starts(slabs[i])
    /\ \A p \in Live : held[p] \in 1 .. slabs[p[1]].blocksize

-----------------------------------------------------------------------------

Init ==
    /\ slabs = [i \in Slab |-> Absent]
    /\ bought = {} /\ held = << >> /\ refused = Null /\ ended = Null

(***************************************************************************)
(* with_blocks: the slabs are constructed in order; when the backing       *)
(* allocator fails for slab n, those before it are destroyed.              *)
(***************************************************************************)
MembersOf(i) ==
    LET desc == Blocksizes[i]
    IN  Members(Spots * ActualBlocksize(desc.blocksize, desc.alignment),
                desc.blocksize, desc.alignment)

Construct ==
    /\ ~Constructed /\ ended = Null
    /\ slabs' = [i \in Slab |-> MembersOf(i)]
    /\ bought' = Slab
    /\ UNCHANGED <<held, refused, ended>>

RolledBack(n) == 1 .. n - 1

ConstructFails(n) ==
    /\ ~Constructed /\ ended = Null
    /\ bought' = (1 .. n - 1) \ RolledBack(n)
    /\ UNCHANGED <<slabs, held, refused, ended>>

(***************************************************************************)
(* impl_allocate: the slabs are tried in order. Only oom makes it try the  *)
(* next one; a slab that answers otherwise has the last word, and so has   *)
(* the last of them. SlabOutcomes(i, request) is what slab i may have to   *)
(* say if the last word is its; those before it, whose answer was oom, are *)
(* left as they were.                                                      *)
(***************************************************************************)
Fits(i, request) == ~TooBig(slabs[i], request)

Answers(i, request) ==
    IF Fits(i, request) THEN AllocateOutcomes(slabs[i], request) ELSE {[m |-> slabs[i], err |-> "oom"]}

PassedOver(i, request) == \E o \in Answers(i, request) : o.err = "oom"

SlabOutcomes_FirstFit(i, request) ==
    IF \A k \in 1 .. i - 1 : ~Fits(k, request)
    THEN {o \in Answers(i, request) : Fits(i, request) \/ i = Len(Blocksizes)}
    ELSE {}

SlabOutcomes(i, request) ==
    IF \A k \in 1 .. i - 1 : PassedOver(k, request)
    THEN {o \in Answers(i, request) : o.err # "oom" \/ i = Len(Blocksizes)}
    ELSE {}

Replace(f, i, m) == [f EXCEPT ![i] = m]

Fails(err) == ended' = IF err \in Error THEN Null ELSE err

Allocate(request) ==
    /\ Running
    /\ \E i \in Slab : \E o \in SlabOutcomes(i, request) :
        /\ slabs' = Replace(slabs, i, o.m)
        /\ \/ /\ o.err = "success"
              /\ held' = With(held, <<i, o.block>>, slabs[i].blocksize)
              /\ refused' = Null
              /\ UNCHANGED ended
           \/ /\ o.err # "success"
              /\ Fails(o.err)
              /\ refused' = [num_bytes |-> request.num_bytes, alignment |-> request.alignment,
                             err |-> o.err]
              /\ UNCHANGED held
    /\ UNCHANGED bought

(***************************************************************************)
(* impl_deallocate: the first slab that contains the pointer takes it.     *)
(***************************************************************************)
Without(p) == [q \in Live \ {p} |-> held[q]]

Deallocate(p, offset) ==
    /\ Running /\ p \in Live /\ offset < slabs[p[1]].blocksize
    /\ LET o == DeallocateOutcome(slabs[p[1]], p[2] + offset)
       IN  /\ slabs' = Replace(slabs, p[1], o.m)
           /\ \/ o.err = "success" /\ held' = Without(p) /\ UNCHANGED ended
              \/ o.err # "success" /\ Fails(o.err) /\ UNCHANGED held
    /\ refused' = Null
    /\ UNCHANGED bought

(***************************************************************************)
(* impl_reallocate: the slab that holds the block may be able to serve the *)
(* request in the block. If not, and the caller allows it, the content     *)
(* moves to a new block (of any slab) and the old one is freed.            *)
(***************************************************************************)
InPlace(p, request) == ReallocateOutcome(slabs[p[1]], request)

MoveRequest(p, request) ==
    [num_bytes |-> AtLeast(request.new_size, request.preferred),
     alignment |-> slabs[p[1]].align, leave_nonzeroed |-> TRUE]

Moved_KeepsOld(p, i, o) ==
    Replace(slabs, i, [o.m EXCEPT !.word[o.block] = slabs[p[1]].word[p[2]]])

Moved_FreesBeforeCopying(p, i, o) ==
    LET freed == Replace(slabs, p[1], DeallocateOutcome(slabs[p[1]], p[2]).m)
    IN  Replace(freed, i, [o.m EXCEPT !.word[o.block] = freed[p[1]].word[p[2]]])

Moved(p, i, o) ==
    LET content == slabs[p[1]].word[p[2]]
        copied  == Replace(slabs, i, [o.m EXCEPT !.word[o.block] = content])
    IN  Replace(copied, p[1], DeallocateOutcome(copied[p[1]], p[2]).m)

ReallocateInPlace(p, request) ==
    LET o == InPlace(p, request)
    IN  \/ /\ o.err = "success"
           /\ held' = [held EXCEPT ![p] = o.size]
           /\ UNCHANGED <<slabs, ended>>
        \/ /\ o.err # "success"
           /\ o.err # "oom" \/ request.in_place
           /\ Fails(o.err)
           /\ UNCHANGED <<slabs, held>>

ReallocateByMoving(p, request) ==
    /\ InPlace(p, request).err = "oom" /\ ~request.in_place
    /\ \E i \in Slab : \E o \in SlabOutcomes(i, MoveRequest(p, request)) :
        \/ /\ o.err # "success"
           /\ slabs' = Replace(slabs, i, o.m)
           /\ Fails(o.err)
           /\ UNCHANGED held
        \/ /\ o.err = "success" /\ slabs[i].blocksize < request.size
           /\ ended' = "memcopy"
           /\ UNCHANGED <<slabs, held>>
        \/ /\ o.err = "success" /\ slabs[i].blocksize >= request.size
           /\ slabs' = Moved(p, i, o)
           /\ held' = With(Without(p), <<i, o.block>>, slabs[i].blocksize)
           /\ UNCHANGED ended

Reallocate(p, new_size, preferred, leave_nonzeroed, in_place) ==
    /\ Running /\ p \in Live
    /\ LET request == [memory |-> p[2], size |-> held[p], new_size |-> new_size,
                       preferred |-> preferred, leave_nonzeroed |-> leave_nonzeroed,
                       in_place |-> in_place]
       IN  /\ RequestValid(request)
           /\ ReallocateInPlace(p, request) \/ ReallocateByMoving(p, request)
    /\ refused' = Null
    /\ UNCHANGED bought

Clear ==
    /\ Running
    /\ slabs' = [i \in Slab |-> Cleared(slabs[i])]
    /\ held' = << >> /\ refused' = Null
    /\ UNCHANGED <<bought, ended>>

Write(p) ==
    /\ Running /\ p \in Live
    /\ slabs' = Replace(slabs, p[1], [slabs[p[1]] EXCEPT !.word[p[2]] = Data])
    /\ refused' = Null
    /\ UNCHANGED <<bought, held, ended>>

(* every block allocator gives its buffer back *)
Destroy ==
    /\ Running
    /\ slabs' = [i \in Slab |-> Absent]
    /\ bought' = {} /\ held' = << >> /\ refused' = Null
    /\ UNCHANGED ended

Sizes == 1 .. MaxRequest

Request == [num_bytes : Sizes, alignment : {Blocksizes[i].alignment : i \in Slab}, leave_nonzeroed : BOOLEAN]

Next ==
    \/ Construct
    \/ \E n \in Slab : ConstructFails(n)
    \/ \E request \in Request : Allocate(request)
    \/ \E p \in Live, offset \in 0 .. MaxRequest : Deallocate(p, offset)
    \/ \E p \in Live, new_size \in Sizes, preferred \in 0 .. MaxRequest,
          leave, in_place \in BOOLEAN :
          Reallocate(p, new_size, preferred, leave, in_place)
    \/ \E p \in Live : Write(p)
    \/ Clear
    \/ Destroy

Spec == Init /\ [][Next]_vars

-----------------------------------------------------------------------------

(***************************************************************************)
(* Every slab's free list runs through exactly the blocks of that slab     *)
(* that the program does not hold: what is given back or moved away from   *)
(* returns to the slab it came from (impl_deallocate, impl_reallocate).    *)
(* The buffers of the slabs are held exactly between a construction that   *)
(* succeeds and the destruction (with_blocks_t::make_into_uninit).         *)
(***************************************************************************)
FreeListsExact ==
    /\ TypeOK
    /\ bought = IF Constructed THEN Slab ELSE {}
    /\ (Running => \A i \in Slab : ListsExactly(slabs[i], Starts(slabs[i]) \ LiveIn(i)))

(***************************************************************************)
(* For a program that keeps the rules no assertion fails but those behind  *)
(* a growth (see BlockAllocator) and the one about shrinking; moving a     *)
(* block never overruns the new one (impl_reallocate, memcopy).            *)
(***************************************************************************)
AssertionsHold == ended \notin {"not_contained", "not_block_start", "invalid_request", "memcopy"}

(***************************************************************************)
(* An allocation is only refused with oom when no slab whose blocks are    *)
(* large enough has a free one ("try the next allocator",                  *)
(* slab_allocator.h:82). The allocator behind a slab may make it answer    *)
(* with another error; then the call is over, and all that is certain is   *)
(* that this slab and those before it had no block for the request. What   *)
(* the slabs behind it have may be free.                                   *)
(***************************************************************************)
ExhaustedUpTo(i) == \A k \in 1 .. i : Fits(k, refused) => slabs[k].head = Null

RefusedOnlyWhenFull ==
    refused # Null /\ Running =>
        \/ ExhaustedUpTo(Len(Blocksizes))
        \/ refused.err # "oom" /\ \E i \in Slab : Fits(i, refused) /\ ExhaustedUpTo(i)
=============================================================================
