# A verification of okaylib

okaylib (`src/include/okay`) is a header-only C++20 replacement for parts of the
standard library, for realtime and memory-constrained programs. This directory
holds TLA+ models of its stateful parts, the instances TLC checks, and proofs
that TLAPS checks. The models are written from the code, function by function;
`PROJECT.json` maps every definition to the lines it stands for.

## Inventory

The library has no main loop: a program calls its functions, and what the
library owes the program is that its data stays consistent whatever legal
sequence of calls, on whatever threads, the program makes. All fallible
functions return a status; internal assertions (`__ok_internal_assert`,
`__ok_assert`) end the process in every build mode.

| Part | State | Operations | Hard because | Correct when |
|---|---|---|---|---|
| `smart_pointers/arc.h` | a payload with two atomic counters (one is also a spin lock), handles | make, demote, promote, duplicate, spawn_weak, try_spawn, destroy, move, the tagged `variant_arc_t` | any interleaving of threads; destruction in several atomic steps | counters match handles, unique means alone, freed once, no use after free |
| `containers/arcpool.h` | lock-protected freestack of items, list of buffers, per-item counters | make, copy, promote, destroy, alloc_more | interleavings, reuse of items (ABA), failed constructors, growth by two threads | an item is owned by one object at a time, no item is lost |
| `allocators/allocator.h` | `owned_t`, interface and request checks | allocate, reallocate, make, keep-or-reallocate helpers | failure of one step of several | no leak or double free on any path |
| `allocators/block_allocator.h` | buffer cut into blocks, free list inside the free blocks | allocate, deallocate, reallocate, grow, clear | growth by the backing allocator, interior pointers | blocks partition the buffer, free list acyclic |
| `allocators/linked_blockpool_allocator.h` | list of pools, free list | the same | growth of the list on allocation | as above |
| `allocators/slab_allocator.h` | several block allocators | the same | reallocation between slabs | memory returns to the slab it came from |
| `allocators/arena.h` | bump pointer, destructor list, scopes | allocate, reallocate, new_scope, restore, clear | a scope marker that cannot be pushed | destructors run once, inner scopes first |
| `allocators/page_allocator.h`, `reserving_page_allocator.h`, `platform/memory_map.h` | reserved and committed pages | allocate, grow in place, deallocate | sizes rounded to pages, oversized requests | what was mapped is unmapped |
| `allocators/c_allocator.h`, `linked_slab_allocator.h` | none; unfinished | malloc wrappers | | |
| `containers/arraylist.h`, `fixed_arraylist.h` | buffer, capacity, size | append, insert_at, remove, resize, growth | constructors that fail half way | elements in order, each constructed once and destroyed once |
| `containers/segmented_list.h` | list of blocks of doubling size | append, insert, remove, growth | index arithmetic, partial failure | index finds its element, capacity matches blocks |
| `containers/bit_arraylist.h`, `bit_array.h` | bits in bytes | insert_at, remove_at, append, set_all, resize | shifting with carries over byte borders | equals a sequence of booleans |
| `opt.h`, `error.h`, `anystatus.h` | a payload or an error or nothing | assignment, take, emplace | moved-from states | at most one payload, constructed once |
| `slice.h`, `array.h`, `stdmem.h`, `ascii_view.h`, `pointer.h` | none | views, copy, overlap tests | off-by-one at borders | bounds respected |
| `iterables/` | cursors | lazy views and their composition | composition of views | equal to the operation on sequences |
| `math/`, `tuple.h`, `construct.h`, `context.h`, `defer.h` | none, or one thread-local record | pure functions | | |
| `async/generator.h`, `detail/coroutine.h` | coroutine frame and its handle | resume, destroy, move | ownership of the frame | frame destroyed once |
| `detail/type_traits.h`, `detail/reflection/`, `reflection/` | none | evaluated by the compiler | | not modelled |

The parts interact by calls and ownership: containers and `arc.h` take memory
from an allocator and give it back; slab allocators are built from block
allocators; the arena runs destructors that `allocator.h` registers with it;
`variant_arc_t` wraps the three kinds of handle; views refer to containers.
Only `arc.h` and `arcpool.h` are meant to be used by several threads at a time.

## Plan

Modelled first is what no test reaches: the concurrent core.

1. `Arc` with `Ownership` (abstract), `ArcOwnership` (the refinement mapping),
   `ArcInvariants`, `ArcMC`, `ArcLive`, `ArcProofs`. Done.
2. `ArcVariant`: the tagged handle over the counters of `Arc`, and
   `ArcVariantProofs`. Done.
3. `ArcPool`: the concurrent pool, at the granularity of its lock and of the
   atomic instructions of promotion; `ArcPoolInvariants`, `ArcPoolProofs`. Done.
4. `Memory` (abstract: disjoint live allocations), `Blocks` with
   `LinkedBlockpool` and `BlockAllocator`, `SlabAllocator` (composing block
   allocators), `Arena`, `SystemAllocators`, with `BlocksProofs`,
   `BlockAllocatorProofs`, `SlabAllocatorProofs` and `SystemProofs`. Done.
5. `Lists`, a program that uses `ArrayList`, `FixedArrayList`, `SegmentedList` and
   `BitArrayList` over `Slots` (element life cycles), against sequences. Done.
6. `Values`: optionals, results, owners, statuses and generators, and
   `ValuesProofs`. Done.
7. `Views`: iterators and adaptors against operations on sequences. Done.
8. Proofs: done are the invariants of 1, 2, 3 and 6, those of the block, slab, pool
   and system allocators, the refinement of `Ownership` by `Arc`, that of `Memory` by
   `BlockAllocator` and by `SlabAllocator`, and three action properties. The arena,
   the lists and the views are model-checked.

The modules for containers, values and views follow one pattern: the module of a
component has its functions as operators from a state to the outcomes (several
where an allocator or a constructor may refuse), and the module of the program
makes the calls and remembers, next to the components' state, what they ought to
hold. Calls that are known to go wrong are guarded by a name in the constant
`BrokenUses`. It is empty in the runs; with one of the names in it, TLC shows
how the call fails. The sections below list these calls.

## arc.h

### Modules

`Arc` models `unique_rw_arc_t`, `ro_arc_t` and `weak_arc_t`. A payload is a
record of two atomic words. `strong_refcount` is split in two variables: `locked`
is bit 63 and `strong` the other bits; every access of the code is an atomic
instruction on both. `weak` is `weak_refcount`, and `phase` says what the
allocator and the object's constructor and destructor did last. A handle is a
slot with a `kind` and `ptr` (`m_payload`). A thread is at a label `pc`, the next
atomic instruction, with the locals of the function in `self`, `res`, `pay` and
`old`. Every operation is a `Call...` action, that checks what the caller owes,
followed by one action per atomic instruction, so that all interleavings of the
instructions of all threads are behaviours of the model. All the operations of
the code are sequentially consistent, so no weaker behaviours exist. Moving a
handle into an empty one renames a slot and is not an action. A spin that finds
the lock taken changes nothing and is not an action either.

What callers owe (`Exclusive`, `Shareable`) is what C++ asks: a handle is used by
one thread at a time unless all use const member functions, and is not assigned
to itself. `spawn_weak_arc` of the strong handles is not const. The reference
that `deref` returns is used between `BeginRead` or `BeginWrite` and `EndAccess`,
so that an access to the object is an interval and races with destruction are
visible.

`Ownership` says what the handles promise, without counters and threads.
`ArcOwnership` maps `Arc` to it: a handle whose object has been destroyed counts as
gone from that instruction on. The same-payload assignment leaks a reference; it is
in the models as the kind "lost", so that everything else can be shown exactly.

### Runs

- `arc_safety`: 3 threads, 4 handles, 2 payloads. Three threads are needed for
  the longest races (a promotion, an upgrade and a destructor on one payload);
  four handles give two strong and a weak one plus the result of an operation;
  a second payload covers assignments between payloads and reuse of memory.
  Threads and handles are symmetric: no property names one.
- `arc_liveness` (`ArcLive` adds a program that may stop making calls): 3 threads,
  3 handles, 1 payload, no symmetry. Fairness is weak
  fairness of each thread's instructions, that is, the operating system runs
  every thread. Nothing is assumed about who gets the lock next, so a thread may
  starve while others keep calling; `CallsReturn` therefore says that calls
  return once no more are made, and `EventuallyFreed` needs no such premise.
- `arc_weak_race` shows that the assertion of the last weak handle
  (arc.h:389) fails: `ro_arc_t::destroy` gives back its weak unit before it
  stores zero. In `Arc` the failing assertion ends the process, so what follows
  it, a store to freed memory if assertions were compiled out, is not explored.

Assigning a read-only handle over another one to the same object leaks a
reference (arc.h:188): `NoOrphan`, given as an invariant, fails with two handles.

### Proofs

`ArcInvariants` states `IInv`. None of the safety properties is inductive
alone: that a store of `old - 1` leaves the right count needs to know that the
lock was held since `old` was read (`LockInv`), that nothing spoils the word of a
unique handle needs to know that it holds the lock (`UniqueLockInv`), and that
the last handle may free needs the counts and, for the others, what they know
of their handle (`LocalInv`, `BusyInv`, `EndInv`, `ReclaimInv`). `FullInv` adds
what the refinement needs besides: a live object has an owner that `Ownership` sees
(`LiveInv`), without which the step that frees a payload need not be a `Reclaim` of
`Ownership`, where only dead objects are reclaimed. TLC checks `FullInv` as an invariant of `arc_safety`.

`ArcProofs` first proves how the sets of handles and their cardinalities follow one
handle's change, and what `IInv` says of a handle in use. Then it has one lemma
per action (each with one step per part of `IInv`), joined in
`Inductive == Spec => []IInv`, and from it, for any number of threads, handles
and payloads: `TypeOK`, `CountsMatchHandles`, `UniqueIsExclusive`,
`NoUseAfterFree`, `NoDataRace`, `StrongAssertionsHold` and `Reclaimed`. The
assumptions are `ArcAssumption`: finitely many handles, and `Null` is neither a
handle nor a payload.

Its second half proves that every step of `Arc` is a step of `Ownership` or leaves
its variables as they are. One instruction of each operation takes effect: the
constructor that makes an object is `New`, the stores that change a handle's kind
are `Demote`, `Promote` and `Share`, an increment of `weak` is `Weaken`, the one that
ends an object or gives a reference back is `Drop`, the assignment that loses a
reference is `Forget`, the last decrement of `weak` is `Reclaim`; all others stutter.
From the mapping and `FullInv` it also gets the two action properties
`NoResurrection` and `FailuresJustified`.

Only model-checked: liveness, which is out of the prover's reach.

### Not modelled

Overflow of the 63-bit counter; self-assignment of handles; the constructors
that convert to the abstract allocator (renaming); destructors of the object
that call back into handles of the same payload (they would spin forever, the
lock being held).

### The variant handle

`ArcVariant` models `variant_arc_t`. Its functions put the pointer into a
temporary handle of the right type, call that handle's function and disarm the
temporary, or forget to. `Arc` refines `Ownership` at the granularity of the
typed handles' functions, so one such function is one step here, and a function
of the variant is as many steps as it makes calls that others can come between:
only the conversion of a weak variant into a unique one makes several. A payload
keeps the counters of `Arc`.

Two conversions give a reference back while the variant still holds it. `twice`
counts these, so that `Balance` can state exactly how counters, variants and
mistakes relate: whatever else is in the code loses no reference.
`broken` is set when a typed handle's assertion fails or freed memory is used.

- `variant`: 2 threads, 4 variants, 1 payload: two variants in the race of a
  conversion with a promotion, and two more that keep the object shared or weak.

The two conversions do harm. A failed conversion of a shared variant decrements
the strong count (arc.h:684), and a second attempt gets a unique handle to an
object that is shared: `PromotedAlone` fails. A weak variant that became a unique
handle keeps its pointer (arc.h:706) and gives the last weak reference back while
the unique handle exists: `LastWeakAlone` fails. Three variants are enough for
both.

`ArcVariantProofs` proves `Balance`, `OwnersIntact` and `NoLeak` for any number of
threads, variants and payloads. The invariant is that, until something is broken,
the counters of every payload fit (`Fits`) the numbers of its shared, weak and unique
variants, of the temporaries of conversions and of the references given back twice:
`Balance` alone does not say that the strong handles together hold one unit of weak,
nor that a unique variant is the only one as long as nothing was given back twice,
and both are needed when a handle goes away. `PromotedAlone` and `LastWeakAlone` are
false and stay out.

The conversion of a variant that holds nothing aborts in `ownership_mode` and is
not an action; conversions into a variant with the same contents rename it.

Coarser than the code: a conversion that succeeds and the destructor of its weak
temporary (arc.h:650 to 655, 699 to 706) are one step, and so is the undoing of one that
failed. Nothing comes between these two calls in the model, and the assertion that no
strong reference is left when the last weak one goes (389) is not checked here; `Arc`
has it, at the granularity of instructions, where it can fail.

## Pool of reference counted objects

`ArcPool` models `arcpool_t` with one action per atomic instruction: the stack of
free items and its lock bit, the generation and the strong count of every item,
the promotion of weak pointers with the repair it makes when the item was freed
and used again in between, and the growth of the list of buffers. A thread has at
most one strong and one weak pointer; a weak one remembers which object it was
made for, so that a promotion to somebody else's object is visible.

The template is never instantiated by the repository, and some of its lines do
not compile or read what was never written. Where the meaning is plain the model
takes it: the return type of `lock`; the assignment at arcpool.h:237; `->` and the
argument at 391, 411 and 415; the counters of a new buffer and the allocator of
`with_capacity`, which are not initialised; the pointer that the void branch of
`make` does not return; the null root that 391 reads. Copying and moving a
`strong_t` compares an uninitialised `m_freestack` (292, 311), copy assignment from
itself destroys first (302), and `operator=` of the pool returns nothing (448):
these are not actions.

`alloc_more` has no lock while it adds its buffer to the list of buffers, so any number
of threads may be between the load of `m_back` (`GrowLoad`), the store of the link at 232
(`GrowLink`) and the store of `m_back` (`GrowBack`). Two that are there at once can
store to the same link, and the destructor of the pool never finds one of the two
buffers. The history variable `overwritten` has the buffers to which a link pointed
before another was stored over it. `BuffersReachable` says what the destructor finds:
a list without a cycle of linked buffers, so that nothing is freed twice; every other
linked buffer is behind an overwritten link; and if there is none, the list is
complete.

Run `arcpool`: 3 threads, up to three items in three buffers and three objects, so that
an item is reused and two threads grow the pool while others promote. Once there are
three buffers, the states are cut off (`Bounded`) in which all three threads are in
calls or there are weak pointers: what two threads do at once to the list is all
there, also the destruction of a pool that has lost a buffer. `PointersValid` (a strong
pointer's item holds its object), `CountsMatch`, `StackExact` (the free items, each
once, and nothing else), `BuffersReachable` and, of steps, `FailuresJustified` (a
promotion only fails when the object is gone). The invariants know of three failures:
the lost buffers (232); an item whose constructor failed never returns to the stack
(420); and `make` ends the program when an item becomes free between its failed pop and
the assertion at 394, or is taken by others between growth and the second pop, although
nothing is wrong: `AssertionsHold` fails with two threads.

`ArcPoolInvariants` states the inductive invariant, and `ArcPoolProofs` proves it and
the five properties for any number of threads, items and objects (`PoolAssumption`
gives the items numbers and bounds what may be allocated and made). Why it has so many
parts: who holds an item that is neither free nor counted (`HandInv`), and in which
item an object can be (`ObjectInv`, `NewInv`); a weak pointer sees only generation and
count, two words that change one after the other, so `WeakInv`, `FreshInv` and
`PromoteInv` say what each of them tells at every instruction of a promotion and of
the destruction or construction that it races with; `LostInv` accounts for failed
constructors. `StackInv` says that the stack is a list without cycles whose length is
`size`; `BufferInv` that the items of the buffers are in exactly one of these places;
`LinkInv` what holds of the links between buffers whoever stores to them (no two lead
to the same buffer, none to the first or to one that is not linked yet); `ListInv` what
is between the two stores that add a buffer, as long as no link was overwritten.
The lists are sets (`Reachable`, `Free`): everything that lies on a path along the
links. The lemmas `ListWithoutFirst`, `ListPushed`, `ListExtended` and `ListAppended`
say what popping, pushing and adding a buffer make of such a set. They rest on
`ItemInduction`, induction over an interval of integers for sets: a set that
is closed under adding one contains the interval, because otherwise adding one would
map a finite set into itself, one to one and not onto.

## Allocators

### Modules

`Memory` is what `allocator.h` promises of every allocator: pieces in use are
disjoint and keep their content until their owner writes, frees or clears. `Pieces`
turns what a program holds, a function on its pointers, into the state of `Memory`, a
function on pieces; `BlockAllocatorMC` and `SlabAllocatorMC` instantiate `Memory` with
it.

`Blocks` has the functions of `block_allocator_t` as operators from a state to
outcomes (a new state, an error, or the assertion that ends the program), and
`LinkedBlockpool` those of `linked_blockpool_allocator_t`, whose blocks follow a
header; `BlockAllocator` gives one such allocator a program that uses it,
`SlabAllocator` composes a sequence of block allocators. Addresses are offsets in
the buffer. Of a block's content only its first word is modelled, in `word`: there
the code keeps the link of a free block, so that a link written over memory in
use, or zeros or data over a link, are visible. The backing allocator is external:
none, or one that may reallocate in place to anything between the required and the
preferred size, and may also refuse with any error, as `c_allocator_t` does each time
because it cannot reallocate in place. The program
writes only to memory it holds and frees only what it holds, through any pointer
into the block.

`Arena` models `arena_t` with the functions of `allocator.h` that only matter to
it. `node` is the part of the buffer that holds list nodes; whatever is allocated
over a node removes it, and reaching a removed node ends the program with
"garbage_node". `scopes`, `objects` and `held` are what the program did; `kept`
turns false when a scope begins without its marker, which makes the end of that
scope destroy the objects of the scope around it. Nodes that can no longer be
reached are dropped, and a moved-from arena is destroyed before the next call.

`SystemAllocators` models `c_allocator_t`, `page_allocator_t` and
`reserving_page_allocator_t` with `platform/memory_map.h` on POSIX, and the helper
that reallocates in place or keeps the old memory. `word` says for every address
whether it is reserved, or what it holds; `held` what the program may rely on to
find in its slices. Mapping, committing and malloc may fail whenever they are called.

### Runs

- `block_allocator`: words of 2 bytes, buffers of 4 and 7 bytes, blocks of 2 and 4
  bytes, so one to three blocks, with and without bytes left over; requests up to
  5 bytes, that is, also too large. Growth by one block and by more. One pool of
  blocks with a header of 2 bytes. Checks that the free list is exact (acyclic, all
  of what is free and nothing else), and the refinement of `Memory`.
- `slab_allocator`: two slabs (1 byte; 2 bytes aligned to 2) of two blocks. Every
  slab's list is exact, blocks move between slabs with their content, a construction
  that fails returns all buffers, and requests are only refused with `oom` when no slab
  can serve them, with another error when the slab that answered it could not.
- `arena`: nodes of 2 bytes, a buffer of 10 (or one that grows up to 10), three
  pieces, two nested scopes: room for two objects in an inner scope and one in the
  outer one. `ListExact` is the inductive heart: the list mirrors objects and scopes.
  A backing allocator may refuse at any time, so one that cannot grow in place adds
  nothing and is left out.
- `system_allocators`: four pages of two bytes, two pages reserved per allocation,
  requests of 1, 3 and 4 bytes, alignments within a page and beyond: one or two
  allocations at a time, each of one page or two. Every mapped page belongs to a
  slice of the program, and a slice stays accessible, disjoint and unchanged.

Deadlock is not checked in these runs: an assertion that fails ends the program.

### Proofs

`BlocksProofs` has the lemmas about one block allocator. Its heart is `Good(m, live)`:
the free list is a chain (no link leads to its head, no two to the same place, so it
has no cycle and ends), of the blocks in the buffer it has exactly those that are not
in `live`, a word of a block in use holds no link, and all words lie where a block may
start. `ListPopped` and `ListPushed` say what taking and giving back make of a list,
`ListFresh` that linking each block of a range to the one before it makes a list of
the whole range (by `IntervalInduction`, as for the pool), and from them follows what
each function makes of `Good`: `FreedIs` for what construction, clear and growth
share, `PoppedGood`, `PushedGood`, `WrittenGood`, and `AllocateOutcome`,
`DeallocateOutcomeGood` and `ReallocateOutcomeGood` for the calls. Sizes and addresses
are products and quotients; `Division` and `Quotient` have the facts about `\div` and
`%` that `BlockFacts` needs to show that any pointer into a block leads to its start.

`BlockAllocatorProofs` proves `FreeListExact` and `AssertionsHold` for any buffer, block
size, alignment and request. The inductive invariant adds to `Good` that slices fit
into their blocks and that a pool has no words but those of its blocks. `PoolListGood`
shows that the list of a new pool, which runs upwards, is the same chain as one that
runs downwards from the last block. The hypothesis is that "inner_pointers" is not
among the `BrokenUses`: a pool that gets a pointer into a block fails (below).

`SlabAllocatorProofs` proves `FreeListsExact`, `AssertionsHold` and `RefusedOnlyWhenFull`
for any sequence of block sizes and any number of blocks. `AllSound(slabs, held)` says
that each slab is `Good` for the blocks that the program holds of it. A move
(`MovedSound`) is a block handed out, written, and another given back, in two slabs or
in one. `AnswerFacts` says why a slab has no block to give: too large a request or an
empty list, and when it answers something else than `oom`, always the list.
`RefusedOnlyWhenFull` has no hypothesis: the allocators behind the slabs may answer what
they like. `AssertionsHold` has the hypothesis `Spots > 1`, because a buffer of one block does not
get as far as growing.

Both proof modules also show that the allocator implements `Memory` (`ImplementsMemory`).
The pieces are the slices that the program holds, with the first word of each as
content. `SliceInside` and `SlicesApart` say that slices which start where blocks start
and are no longer than a block lie in the buffer and do not overlap, so the inductive
invariant gives the disjointness. That contents stay is not in the invariant, which
knows nothing of data; it is proved of each function: `PopKeeps`, `AllocateKeeps`,
`PushKeeps` and `DeallocateKeeps` say that only the word of the block that is handed
out or taken back changes (also while a buffer grows), `ReplaceKeeps` the same of a
sequence of slabs and `MovedSound` of a move, whose new block holds what the old one
held although that becomes a link of the free list in the same step. `HeldSame`,
`HeldMore`, `HeldLess`, `HeldMoved` and `HeldWritten` translate from pointers to
pieces. They need the pieces apart before the step and after it, so `IInv'` is a
premise of `StepRefines`. Construction, growth, refused calls and an assertion that
fails are stuttering steps; every other step is the action of `Memory` that has its
name, and the reallocation by which a block moves is one `Reallocate`, not an
allocation and a deallocation. For block allocators and pools the hypothesis is again
that about "inner_pointers", and the invariant is extended by `SizeKnown` (the buffer
has one of the sizes that it can be constructed with), which `Region` is made of; for
slabs there is no hypothesis.

`SystemProofs` proves `PagesAccounted` and `SlicesUsable` for any address space, page
size, reservation, alignments and sizes. Its invariant speaks of extents: what an
allocator of a kind takes from the system for a slice of a size, which for
`page_allocator_t` are whole pages, for `reserving_page_allocator_t` the reservation
and for `c_allocator_t` the chunk. A slice fits into its extent, the extents of two
slices are disjoint, and together they are what is mapped; without the first of these
a write, or a commit behind a slice, could change memory of another one. Four lemmas
say what keeps this true (a slice comes, goes, or changes within its extent, or memory
stays), one for each allocation path says which of them it is, and `Rounding` and
`WholePages` have the arithmetic: rounding the size of whole pages gives the same
pages, so that what deallocation unmaps is exactly what allocation mapped.
The theorems assume that the program passes `page_allocator_t` its size hint and asks
a reservation for no more than it has, the two failures of these allocators below.

### Known failures

A model goes on to where the code fails and records it in `ended`; the properties
of the runs name the failures they do not cover.

- Growth of a block allocator gets no further than the assertion on the block it
  returns, because the recorded buffer keeps its size (block_allocator.h:208,
  `GrownBlockContained`). With a single block it aborts before: the preferred size,
  twice the buffer, equals the required one, which `is_valid` refuses (190).
- Shrinking a block without `leave_nonzeroed` fills a negative number of bytes
  (block_allocator.h:303, "negative_fill"; the same in
  linked_blockpool_allocator.h:351).
- The pool that a linked blockpool adds meets an assertion whose condition lacks
  `== 0` (238); without it the null head that was read before is used (268). A pool
  counts its header as room for blocks (123; `BlocksInPool` fails). A pointer into a
  block is pushed as it is, not rounded down (309, "inner_pointers"): the same
  program runs with a block allocator.
- Over a backing that cannot reallocate in place an exhausted slab answers
  `couldnt_expand_in_place`, and only `oom` makes the slab allocator try the next one
  (slab_allocator.h:81), so that a request is refused while slabs with larger blocks
  have room: the second case of `RefusedOnlyWhenFull`, which does not hold without it.
- The end of a scope asserts that the arena is not full (arena.h:293,
  "full_at_scope_end"), although allocation may fill it.
- Clearing an arena in an open scope calls the null destructor of the scope's
  marker (arena.h:153, "null_destructor").
- Moving an arena leaves the list of destructors with the moved-from one (117),
  which runs them when it goes away while the objects are in use:
  `ObjectsOutliveScope` fails.
- Arena reallocation without a preferred size asks for zero bytes (arena.h:52,
  "zero_request").
- Growth of an arena makes room for the bookkeeping bytes but not for a larger
  alignment (arena.h:218, "unaligned").
- A scope whose marker could not be pushed (arena.h:286) ends at the wrong place;
  `ListExact` and `DestructionExact` have `kept` as their premise.
- The reserving allocator unmaps the pages it reserves by default, not those of a
  larger allocation (reserving_page_allocator.h:128, "more_than_reserved" with a size
  of 5), and
  answers an alignment above the page size with `oom`. The page allocator needs the
  size hint when it deallocates (page_allocator.h:76, "no_size_hint").

### Not modelled

Requests of zero bytes and other usage errors of the caller, sizes near 2^64,
moving a block, slab or pool allocator (a renaming), the content of a block behind
its first word, destructors that use the arena they are registered with, the
Windows half of `memory_map.h`. `linked_slab_allocator.h` is unfinished: it uses
`linked_blockpool_allocator_t` as a template and has no deallocation.

## Containers

### Modules

`Slots` is the memory of a container: places that hold no object, a moved-from
object or a value. It records in `broken` when a construction overwrites an object,
or an object that is not there is moved, assigned to or destroyed. `ArrayList`,
`FixedArrayList`, `SegmentedList` and `BitArrayList` have the functions of the four
lists; allocation may be refused, extend in place, or give another buffer.
`ArrayList` has both paths of the code: items that are copied with `memmove`, and
"objects" with constructors, moves and destructors. A segmented list's places are
pairs of a block and an offset, computed as math.h does. A bit list keeps the unused
bits of its bytes, which later insertions shift in; a byte has `ByteWidth` bits and
the buffer of the first allocation `FirstBytes` bytes. `Lists` is the program: two
lists of any kind, constructed empty, with room, or as copies; inserted into,
removed from, resized, appended to, reserved, shrunk, moved and destroyed.

### Run

`lists`: two lists with four items together, bytes of two bits, an array whose first
buffer has two spots, blocks of one, two and four items; so every list grows more
than once, and every insertion and removal has items on both sides.
`ContentsExact`: whatever was done and whichever allocation or constructor failed
meanwhile, the list holds the items it should, in their order. `LifetimesRespected`:
each object is constructed and destroyed once, none is left behind the last item.
`BuffersAccounted`: no buffer is lost or freed twice. `AssertionsHold`: no assertion
fails but the known ones, which end the program in the model too.

### Known failures

- An array list or fixed array list of objects that removes an item with two others
  behind it moves them in the wrong order (arraylist.h:287, fixed_arraylist.h:210,
  "remove_object"), a constructor that fails leaves its items in memory without
  objects (231, "failing_constructor"), and growing by several items computes the
  request from the size instead of the capacity (631, "grow_objects").
- `shrink_to_reclaim_unused_memory` of an array list that is full asks its allocator for
  what it has. `reserving_page_allocator_t` answers with whole pages
  (reserving_page_allocator.h:164), and the assertion that the size is exact ends the
  program (arraylist.h:371, "inexact_shrink").
- A fixed array list that was moved from keeps its items: the templates that empty the
  other list (fixed_arraylist.h:75 to 99) are never the move constructor or assignment,
  which are implicit and copy. For other capacities they do not compile, because the
  members of the other list are protected.
- Appending to an array list whose capacity is one asks for a preferred size equal
  to the required one, which ends the program ("invalid_request").
- A segmented list has no destructor, so its memory is never given back; the move
  constructor leaves the size behind, where it is taken for the length of the first
  blocklist (139); the byte asked for behind the blocklist is no room for another
  pointer (517); construction that runs out of memory half way loses its blocks
  ("failing_preallocation"), and a copy that does so ends the program (745). Copying
  one item has no room for a pointer (681). `get_block_slice` (550) takes an item's index for
  a block's, and is not an action.
- A bit list sets unused bits in `set_all_bits` and leaves bits on in `clear`
  (125, 379; "set_all_bits", "clear_bits"), which insertion then finds. It asserts
  that no bit is carried between bytes when one must be (250,
  "insert_below_full_bytes", with six items), and shifts in from the byte behind the last one on
  removal (307, "remove_bit_when_full"). A moved-from bit list has no allocator, and
  assignment from itself frees its buffer.

Not modelled: items that refer to the list, and using a bit list that was
moved from.

## Values

`Values` models the types that hold one object or own one: `opt<T>`, `res<T, E>`,
`opt<T&>` and `res<T&>`, `anystatus_t`, `alloc::owned<T>` and `generator_t`. A holder
has a tag (does it claim to hold) and a storage (is there an object), which the code
changes in separate steps; `want` is what it ought to hold. Calls that return
something leave it in `got`, beside what they should have returned.

Run `values`: three holders, two values, two errors, coroutines that yield twice: any
call on two holders, and a third that must not be touched. `LifetimesExact`: the tag
and the storage agree, no object is overwritten, used when dead, or destroyed twice,
and none is forgotten, with one exception. The destructor of `owned` only deallocates
(allocator.h:196): the storage is gone and the destructor of the object has not run.
`OwnerDestroyed` does that and records it as `Abandoned`, the only fault that
`LifetimesExact` admits, and only if the program has owners.
`ContentsExact`: every holder, and every call, gives what was put in.

`ValuesProofs` proves both for any holders, objects and errors and coroutines of any
length. The invariant is almost the two properties themselves. What has to be added is
which tags a kind can have (an optional has no error), that references are to
optionals and results, whose objects a program can write to, and that a generator
holds the number of its yields; a reference to a holder that moving had emptied would
otherwise read what is not there. There is one lemma for each function of the types,
which says what it does to the fields of the two holders, and one for each action.
The theorems assume that the program makes none of the calls below, for each of which
one of the two properties fails.

Known failures: `clone_into` an empty optional never sets `m_has_value` (opt.h:568,
"clone_into_empty"). Assigning an error to a result that holds a success leaves the
object alive (error.h:153, "error_to_success"); moving a result whose status is an
object asks it whether it is a success after it was moved (144, "move_error_object").
A generator that is assigned to itself loses its coroutine (generator.h:76,
"self_move"), and `next` on one that was moved from is undefined.
`owned::operator=` has no return (allocator.h:178) and is left out; `owned` gives
memory back without calling the destructor (196, part of the model, see above);
`allocator_t::make` ignores that a constructor failed (647). `emplace` with an argument inside the optional reads a
destroyed object. `anyerr_t` never stores its type hash, so `try_cast` always fails.
The converting constructors of `res` (error.h:192 to 231) use `->` on a reference and
its `clone_into` (410) constructs into the address of the wrapper;
they are taken as meant. `try_clone` and
`try_clone_into` cannot be instantiated and are left out.

## Iterables

`Views` models the iterators over containers and all the adaptors of iterables.h, as
a tree of records that nest as the templates do, with the index arithmetic of
`size_t` and `int64_t` (a `Word` of 16 stands for 2^64). `view` is what the tree
stands for: a sequence and a position in it. Arraylike adaptors map the whole
sequence and keep the position, the others start with what is left. The loops,
`iterators_equal` and `iterators_copy_assign` consume the view.

Run `views`: sequences of up to three numbers, lists of lists, optionals, plain
cursors and the infinite `indices()`, with up to three adaptors put on before or
during the iteration, two more calls of `next` after the end, and counts of 0, 1, 2
and -1 (15). Three adaptors reach every pair with something between or under it;
`Parts` in `Views` names the combinations that are known to fail. `YieldsExact`: every
call returns what the operation on the sequence returns. `BoundsExact`: nothing
aborts, index and size are right. (The assertion in `drop_t::index_impl` cannot fail,
because `offset` checks the same before.)

Known failures: `drop(k)` on an iterator that is not arraylike drops one item too few
(iterables.h:1062: the comment speaks of adding one, the code takes the larger of
one and k; "drop_some"). `reverse` of anything that drops aborts at the last item
(1126, "reverse_dropped"), and so do dropping counts of 2^63 and more together with
another `drop` ("huge_drop"). `zip` of arraylike iterators at different places pairs
the wrong items (1348, "zip_advanced"); if all are infinite its size is zero and the
first access aborts ("zip_infinite"). The size of a view put on a sized iterator that
has advanced is that of the whole ("advanced_size"), and so `iterators_equal` compares
whole sizes ("compare_advanced"). `iterators_equal` asks the types that it
deduces whether they are infinite (algorithm.h:73), and an lvalue's says no: an infinite
iterator that is not passed as an rvalue is unequal to its beginning
("infinite_lvalue"). `enumerate` of an infinite arraylike iterator does not compile, nor
does `get_tuple_elem` of an element that the pair holds by value (an index, a number that
was computed), whose type would be an optional of an rvalue reference (iterables.h:1538).

Not modelled: containers that change while they are iterated over, `zip` of more than
two, functions with side effects.

## Not modelled

- `platform/atomic.h`, `detail/atomic_impl.h`: each call is one atomic instruction of
  the models that use it.
- `slice.h`, `array.h`, `bit_array.h`, `pointer.h`, `ascii_view.h`: bounds-checked views
  without steps. `num_bytes_occupied` of a bit slice returns bits (slice.h:431).
- `stdmem.h` beyond containment: calls of the C library. Its macro `ok_memmove` calls
  `memcopy` (66).
- `context.h`, `defer.h`: the constructor of `context_switch_t` is private, so the
  context never changes; guards are part of the functions that use them.
- `math/`, `tuple.h`, `construct.h` beyond what the modules above use;
  `detail/type_traits.h` and `reflection/`: decided by the compiler.

## What is proved and what is checked

| Component | Proved for all constants | Only model-checked, and why |
|---|---|---|
| `arc.h` | all safety invariants, `NoResurrection`, `FailuresJustified`, refinement of `Ownership` | `EventuallyFreed`, `CallsReturn`: liveness is out of the prover's reach |
| `variant_arc_t` | all invariants | |
| `arcpool.h` | all invariants and `FailuresJustified` | |
| `opt.h`, `error.h`, `anystatus.h`, `generator.h`, `owned` | both invariants | |
| page, reserving and C allocators | both invariants | |
| block and pool allocators | both invariants, refinement of `Memory` | |
| slab allocator | all invariants, refinement of `Memory` | |
| arena | | `ListExact`, `PiecesDisjoint`, `DestructionExact`: the list is read from the nodes by a recursive function, and what it yields, and the sequences compared with it, are inductions over data |
| lists | | all four: their helpers work element by element with folds, induction over data |
| views | | `Views` computes nested views with recursive operators, which the provers cannot take |

Every proved invariant is also checked by TLC on the instances above, and so was every
inductive invariant before it was proved. The provers take no induction principle over
predicates and no recursive operators; induction over an interval or along a list is
done with sets, as described for the pool.

Liveness is checked for `Arc` alone: the pool's loops are spins and retries that can
starve by design, and everything else is sequential and returns.
