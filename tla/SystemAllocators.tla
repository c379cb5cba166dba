-------------------------- MODULE SystemAllocators --------------------------
(***************************************************************************)
(* The allocators that get their memory from the system: c_allocator_t     *)
(* (allocators/c_allocator.h), page_allocator_t and                        *)
(* reserving_page_allocator_t with the calls of platform/memory_map.h, and *)
(* the wrappers of allocator_t that every call goes through.  Addresses    *)
(* count from 0; a page has PageSize of them.                              *)
(***************************************************************************)
EXTENDS Integers, FiniteSets

CONSTANTS
    Kinds,          \* the allocators a program may use: "c", "page", "reserving"
    NumPages,       \* of the address space
    PageSize,
    PagesReserved,  \* reserving_page_allocator_t::m_pages_reserved
    Alignments,
    MallocAlign,    \* what malloc guarantees, 16 in c_allocator.h
    Sizes,          \* that a program asks for
    PreferredSizes, \* preferred_size_bytes of its reallocations, 0 for none
    BrokenUses,     \* the uses that are known to fail and that the program makes nevertheless
    Null

ASSUME SystemAssumption ==
    /\ Kinds \subseteq {"c", "page", "reserving"}
    /\ {NumPages, PageSize, PagesReserved, MallocAlign} \cup Alignments \cup Sizes \subseteq Nat \ {0}
    /\ PreferredSizes \subseteq Nat
    /\ Null \notin [kind : Kinds, debug : BOOLEAN] \cup {"over_aligned", "unmap_failed"}

VARIABLES
    m,      \* the kind of the allocator and whether this is a debug build
    word,   \* what every mapped address holds, or NoAccess where only reserved
    chunk,  \* malloc's chunks in use, by address, with their sizes
    held,   \* the slices the program holds: what it may rely on to find in them
    ended   \* the assertion that ended the program, or Null

vars == <<m, word, chunk, held, ended>>

Content == {"NoAccess", "Zero", "Data"}
Unspecified == "Unspecified"            \* nothing is promised

Address == 0 .. NumPages * PageSize - 1
Live == DOMAIN held
Size(a) == Cardinality(DOMAIN held[a])
Bytes(a, n) == a .. a + n - 1

(* runtime_round_up_to_multiple_of(page_size, n) / page_size *)
PagesFor(n) == ((n - 1) \div PageSize) + 1

Filled(w, a, n, c) ==
    [i \in DOMAIN w \cup Bytes(a, n) |-> IF i \in Bytes(a, n) THEN c ELSE w[i]]

With(f, x, v) == [y \in DOMAIN f \cup {x} |-> IF y = x THEN v ELSE f[y]]

Spots(n, alignment) ==
    {a \in Address : a % alignment = 0 /\ Bytes(a, n) \subseteq Address \ DOMAIN word}

-----------------------------------------------------------------------------
(***************************************************************************)
(* memory_map.h on POSIX: every call works on whole pages.                 *)
(***************************************************************************)
reserve_pages(w, a, pages) == Filled(w, a, pages * PageSize, "NoAccess")

alloc_pages(w, a, pages) == Filled(w, a, pages * PageSize, "Zero")

commit_pages(w, a, pages) ==
    [i \in DOMAIN w |->
        IF i \in Bytes(a, pages * PageSize) /\ w[i] = "NoAccess" THEN "Zero" ELSE w[i]]

memory_unmap(w, a, bytes) ==
    [i \in DOMAIN w \ Bytes(a, PagesFor(bytes) * PageSize) |-> w[i]]

-----------------------------------------------------------------------------

TypeOK ==
    /\ m = Null \/ m \in [kind : Kinds, debug : BOOLEAN]
    /\ DOMAIN word \subseteq Address /\ Live \subseteq DOMAIN word
    /\ \A a \in DOMAIN word : word[a] \in Content
    /\ DOMAIN chunk \subseteq Address
    /\ ended \in {Null, "over_aligned", "unmap_failed"}

Init == m = Null /\ word = << >> /\ chunk = << >> /\ held = << >> /\ ended = Null

Construct(kind, debug) ==
    /\ m = Null
    /\ m' = [kind |-> kind, debug |-> debug]
    /\ UNCHANGED <<word, chunk, held, ended>>

Running(kind) == m # Null /\ m.kind = kind /\ ended = Null

(* an error is returned and nothing has changed *)
Fails == UNCHANGED vars

(***************************************************************************)
(* A slice of size bytes at a goes to the program: what old promised stays *)
(* promised, the rest is c.                                                *)
(***************************************************************************)
Promise(old, size, c) == [i \in 0 .. size - 1 |-> IF i \in DOMAIN old THEN old[i] ELSE c]

Given(h, a, old, size, c) == With(h, a, Promise(old, size, c))

Rest(request) == IF request.leave_nonzeroed THEN Unspecified ELSE "Zero"

Zeroed(w, a, n, request) == IF request.leave_nonzeroed THEN w ELSE Filled(w, a, n, "Zero")

-----------------------------------------------------------------------------
(***************************************************************************)
(* page_allocator_t and, for requests that a reservation cannot hold,      *)
(* reserving_page_allocator_t.                                             *)
(***************************************************************************)
AllocatePages(request) ==
    LET pages == PagesFor(request.num_bytes) IN
    \E a \in Spots(pages * PageSize, PageSize) :
        /\ word' = alloc_pages(word, a, pages)
        /\ held' = Given(held, a, << >>, pages * PageSize, Rest(request))
        /\ UNCHANGED <<m, chunk, ended>>

PageAllocate(request) ==
    /\ Running("page")
    /\ \/ Fails                         \* the alignment is not supported, or out of memory
       \/ request.alignment <= PageSize /\ AllocatePages(request)

(***************************************************************************)
(* The caller has to pass the size of what it allocated; without one       *)
(* munmap fails.                                                           *)
(***************************************************************************)
PageDeallocate(a, size_hint) ==
    /\ Running("page") /\ a \in Live
    /\ IF size_hint = 0 THEN "no_size_hint" \in BrokenUses ELSE PagesFor(size_hint) = PagesFor(Size(a))
    /\ IF size_hint = 0
       THEN ended' = "unmap_failed" /\ UNCHANGED <<m, word, chunk, held>>
       ELSE /\ word' = memory_unmap(word, a, size_hint)
            /\ held' = [b \in Live \ {a} |-> held[b]]
            /\ UNCHANGED <<m, chunk, ended>>

-----------------------------------------------------------------------------

IsPowerOfTwo(n) == \E k \in 0 .. n : 2 ^ k = n

(***************************************************************************)
(* Reserves PagesReserved pages, of which only those asked for can be      *)
(* used.  When these cannot be committed the reservation is given up.      *)
(***************************************************************************)
CommitFailed_Leaks(w, a) == reserve_pages(w, a, PagesReserved)

CommitFailed(w, a) ==
    memory_unmap(reserve_pages(w, a, PagesReserved), a, PagesReserved * PageSize)

Committed(w, a, request) ==
    LET pages == PagesFor(request.num_bytes) IN
    Zeroed(commit_pages(reserve_pages(w, a, PagesReserved), a, pages), a, pages * PageSize, request)

ReservingAllocate(request) ==
    LET pages == PagesFor(request.num_bytes) IN
    /\ Running("reserving")
    /\ pages > PagesReserved => "more_than_reserved" \in BrokenUses
    /\ \/ Fails                         \* alignment, or nothing can be mapped
       \/ /\ IsPowerOfTwo(request.alignment) /\ PageSize % request.alignment = 0
          /\ \/ pages >= PagesReserved /\ AllocatePages(request)
             \/ /\ pages < PagesReserved
                /\ \E a \in Spots(PagesReserved * PageSize, PageSize) :
                      \/ word' = CommitFailed(word, a) /\ UNCHANGED <<m, chunk, held, ended>>
                      \/ /\ word' = Committed(word, a, request)
                         /\ held' = Given(held, a, << >>, pages * PageSize, Rest(request))
                         /\ UNCHANGED <<m, chunk, ended>>

ReservingDeallocate(a) ==
    /\ Running("reserving") /\ a \in Live
    /\ word' = memory_unmap(word, a, PagesReserved * PageSize)
    /\ held' = [b \in Live \ {a} |-> held[b]]
    /\ UNCHANGED <<m, chunk, ended>>

(***************************************************************************)
(* Commits what the caller would prefer to have, all of it or nothing;     *)
(* shrinking hands out the beginning of the slice.  The caller accepts     *)
(* that new bytes are not zero, which an assertion demands outside tests.  *)
(***************************************************************************)
PreferredSize(request) == IF request.preferred = 0 THEN request.new_size ELSE request.preferred

Recommitted_NewSizeOnly(w, a, request) == commit_pages(w, a, PagesFor(request.new_size))

Recommitted(w, a, request) == commit_pages(w, a, PagesFor(PreferredSize(request)))

ReservingReallocate(a, request) ==
    LET pages == PagesFor(PreferredSize(request)) IN
    /\ Running("reserving")
    /\ \/ /\ request.preferred = 0 /\ request.new_size < Size(a)
          /\ held' = [held EXCEPT ![a] = [i \in 0 .. request.new_size - 1 |-> held[a][i]]]
          /\ UNCHANGED <<m, word, chunk, ended>>
       \/ /\ request.preferred # 0 \/ request.new_size >= Size(a)
          /\ pages <= PagesReserved
          /\ word' = Recommitted(word, a, request)
          /\ held' = Given(held, a, held[a], pages * PageSize, Unspecified)
          /\ UNCHANGED <<m, chunk, ended>>

-----------------------------------------------------------------------------
(***************************************************************************)
(* malloc hands out memory with any content; in debug builds one byte more *)
(* than asked for.                                                         *)
(***************************************************************************)
CAllocate(request) ==
    LET nbytes == request.num_bytes + IF m.debug THEN 1 ELSE 0 IN
    /\ Running("c")
    /\ \/ /\ request.alignment <= MallocAlign \/ ~m.debug
          /\ Fails                      \* malloc returned null, or the alignment is not supported
       \/ /\ request.alignment > MallocAlign /\ m.debug
          /\ ended' = "over_aligned" /\ UNCHANGED <<m, word, chunk, held>>
       \/ /\ request.alignment <= MallocAlign
          /\ \E a \in Spots(nbytes, MallocAlign) :
                /\ word' = Zeroed(Filled(word, a, nbytes, "Data"), a, nbytes, request)
                /\ chunk' = With(chunk, a, nbytes)
                /\ held' = Given(held, a, << >>, nbytes, Rest(request))
                /\ UNCHANGED <<m, ended>>

CDeallocate(a) ==
    /\ Running("c") /\ a \in Live
    /\ word' = [i \in DOMAIN word \ Bytes(a, chunk[a]) |-> word[i]]
    /\ chunk' = [b \in DOMAIN chunk \ {a} |-> chunk[b]]
    /\ held' = [b \in Live \ {a} |-> held[b]]
    /\ UNCHANGED <<m, ended>>

(***************************************************************************)
(* realloc: in place or elsewhere, with the bytes both sizes have.  What   *)
(* was the end of the old slice is where the new zeros begin.              *)
(***************************************************************************)
Reallocated(w, a, b, size) ==
    [i \in (DOMAIN w \ Bytes(a, chunk[a])) \cup Bytes(b, size) |->
        IF i \notin Bytes(b, size) THEN w[i]
        ELSE IF i - b < chunk[a] THEN w[a + i - b] ELSE "Data"]

ExpansionZeroed(w, b, old, size, request) ==
    IF size > old /\ ~request.leave_nonzeroed THEN Filled(w, b + old, size - old, "Zero") ELSE w

CReallocate(a, request) ==
    LET size == PreferredSize(request) IN
    /\ Running("c")
    /\ \E b \in Address :
        /\ b % MallocAlign = 0
        /\ Bytes(b, size) \subseteq (Address \ DOMAIN word) \cup IF b = a THEN Bytes(a, chunk[a]) ELSE {}
        /\ word' = ExpansionZeroed(Reallocated(word, a, b, size), b, Size(a), size, request)
        /\ chunk' = With([c \in DOMAIN chunk \ {a} |-> chunk[c]], b, size)
        /\ held' = Given([c \in Live \ {a} |-> held[c]], b, held[a], size, Rest(request))
        /\ UNCHANGED <<m, ended>>

-----------------------------------------------------------------------------
(***************************************************************************)
(* The wrappers of allocator_t.  An invalid request ends the program; the  *)
(* program makes none.  Page allocators cannot reallocate, and with        *)
(* in_place_orelse_fail no allocator that cannot predict it even tries.    *)
(***************************************************************************)
Allocate(request) == PageAllocate(request) \/ ReservingAllocate(request) \/ CAllocate(request)

RequestValid(a, request) ==
    \/ request.preferred = 0
    \/ request.new_size >= Size(a) /\ request.preferred > request.new_size

InPlaceFeature == m.kind = "reserving"

Reallocate(a, request) ==
    /\ m # Null /\ a \in Live /\ RequestValid(a, request)
    /\ \/ ended = Null /\ Fails
       \/ /\ request.in_place => InPlaceFeature
          /\ ReservingReallocate(a, request) \/ CReallocate(a, request)

(***************************************************************************)
(* reallocate_in_place_orelse_keep_old_nocopy: what cannot grow in place   *)
(* stays, next to a new piece of the preferred size with the default       *)
(* alignment.                                                              *)
(***************************************************************************)
ReallocateOrAllocate(a, request) ==
    /\ m # Null /\ a \in Live /\ RequestValid(a, request) /\ request.in_place
    /\ \/ ReservingReallocate(a, request)
       \/ Allocate([num_bytes |-> PreferredSize(request), alignment |-> 1,
                    leave_nonzeroed |-> request.leave_nonzeroed])

(* the program writes to all of a slice that it holds *)
Write(a) ==
    /\ a \in Live /\ ended = Null
    /\ word' = Filled(word, a, Size(a), "Data")
    /\ held' = [held EXCEPT ![a] = [i \in DOMAIN held[a] |-> "Data"]]
    /\ UNCHANGED <<m, chunk, ended>>

Next ==
    \/ \E kind \in Kinds, debug \in BOOLEAN : Construct(kind, debug)
    \/ \E n \in Sizes, alignment \in Alignments, leave \in BOOLEAN :
          Allocate([num_bytes |-> n, alignment |-> alignment, leave_nonzeroed |-> leave])
    \/ \E a \in Live, hint \in {0} \cup Sizes : PageDeallocate(a, hint)
    \/ \E a \in Live : ReservingDeallocate(a) \/ CDeallocate(a) \/ Write(a)
    \/ \E a \in Live, new_size \in Sizes, preferred \in PreferredSizes, leave, in_place \in BOOLEAN :
          LET request == [new_size |-> new_size, preferred |-> preferred,
                          leave_nonzeroed |-> leave, in_place |-> in_place]
          IN  Reallocate(a, request) \/ ReallocateOrAllocate(a, request)

Spec == Init /\ [][Next]_vars

-----------------------------------------------------------------------------

(* what the allocator took from the system for the slice at a *)
Extent(a) ==
    CASE m.kind = "page" -> Bytes(a, PagesFor(Size(a)) * PageSize)
      [] m.kind = "reserving" -> Bytes(a, PagesReserved * PageSize)
      [] OTHER -> Bytes(a, chunk[a])

(***************************************************************************)
(* What is mapped is what the program holds: allocate and reallocate leak  *)
(* nothing on any path, also when committing fails, deallocate gives back  *)
(* all of a piece, and no two pieces overlap.                              *)
(***************************************************************************)
PagesAccounted ==
    /\ TypeOK
    /\ DOMAIN chunk = IF m # Null /\ m.kind = "c" THEN Live ELSE {}
    /\ DOMAIN word = UNION {Extent(a) : a \in Live}
    /\ \A a, b \in Live : a # b => Extent(a) \cap Extent(b) = {}
    /\ ended # "unmap_failed"

(***************************************************************************)
(* Every byte of a slice that the program holds can be accessed, holds     *)
(* what the program wrote to it, and is zero where the allocator promised  *)
(* that, whatever reallocations the slice has gone through.                *)
(***************************************************************************)
SlicesUsable ==
    \A a \in Live : \A i \in DOMAIN held[a] :
        /\ a + i \in DOMAIN word /\ word[a + i] # "NoAccess"
        /\ held[a][i] \in {Unspecified, word[a + i]}
=============================================================================
