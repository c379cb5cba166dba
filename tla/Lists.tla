-------------------------------- MODULE Lists --------------------------------
(***************************************************************************)
(* A program that uses lists: arraylist_t with trivially copyable items    *)
(* and with items that have constructors and destructors ("objects"),      *)
(* segmented_list_t, fixed_arraylist_t and bit_arraylist_t. The lists      *)
(* share a backing allocator, which may refuse any request. For each list  *)
(* the program remembers the sequence of items that it should hold.        *)
(***************************************************************************)
EXTENDS Integers, Sequences, FiniteSetsExt

CONSTANTS
    Handle,         \* the variables of the program that can hold a list
    Kinds,          \* a subset of {"array", "objects", "segmented", "fixed", "bits"}
    Value, Raw, Moved, None,
    On, Off,        \* the values that are bits
    FirstSpots, FirstBytes, ByteWidth, Slack, MaxElems,
    MaxItems,       \* bound on the number of items in all lists
    MaxSpots,       \* bound on the capacity that the program makes a list grow from
    BrokenUses      \* the uses that are known to fail and that the program makes nevertheless

Sequence == INSTANCE SequencesExt
Array == INSTANCE ArrayList
Segmented == INSTANCE SegmentedList
Fixed == INSTANCE FixedArrayList
Bits == INSTANCE BitArrayList

VARIABLES
    list,       \* the members of each list, or None
    expected,   \* the items that it should hold
    buffers,    \* the number of buffers taken from the backing allocator
    ended       \* the assertion that ended the program, or None

vars == <<list, expected, buffers, ended>>

Abort == {"invalid_request", "short_allocation", "short_blocklist", "wrong_size", "not_inserted",
          "unexpected_carry", "carry_lost", "invalid_list", "inexact_shrink"}

Made(h) == list[h] # None
IsArray(h) == list[h].kind = "array"
IsSegmented(h) == list[h].kind = "segmented"
IsBits(h) == list[h].kind = "bits"
Size(h) == IF IsSegmented(h) THEN Segmented!Size(list[h]) ELSE list[h].size
Place(h, i) == IF IsSegmented(h) THEN Segmented!At(i) ELSE i

(* the number of buffers that a list is responsible for *)
Owned(h) ==
    CASE ~Made(h) \/ list[h].kind = "fixed" -> 0
      [] IsArray(h) \/ IsBits(h) -> IF list[h].cap = 0 THEN 0 ELSE 1
      [] IsSegmented(h) -> IF list[h].spots = None THEN 0 ELSE 1 + list[h].blocks

Init ==
    /\ list = [h \in Handle |-> None]
    /\ expected = [h \in Handle |-> << >>]
    /\ buffers = 0
    /\ ended = None

-----------------------------------------------------------------------------

Running == ended = None

(* the number of items in the lists other than h, and in all of them *)
Elsewhere(h) == MapThenSumSet(LAMBDA g : Len(expected[g]), Handle \ {h})
InUse(h) == Elsewhere(h) + Len(expected[h])

(***************************************************************************)
(* A call on list h had outcome o; if it succeeded, the list should now    *)
(* hold the given items, and otherwise what it held before.                *)
(***************************************************************************)
Returns(h, o, items) ==
    /\ list' = [list EXCEPT ![h] = [o.m EXCEPT !.net = 0]]
    /\ buffers' = buffers + o.m.net
    /\ expected' = [expected EXCEPT ![h] = IF o.err = "success" THEN items ELSE @]
    /\ ended' = IF o.err \in Abort THEN o.err ELSE None

Succeeds(h, m, items) == Returns(h, [m |-> m, err |-> "success"], items)

(***************************************************************************)
(* A constructor that fails leaves no list. (The one of the segmented list *)
(* that allocates blocks in advance loses those it got before the failure, *)
(* so the program does not let it fail half way.)                          *)
(***************************************************************************)
Constructed(h, outcomes, items) ==
    /\ Running /\ ~Made(h) /\ Elsewhere(h) + Len(items) <= MaxItems
    /\ \E o \in outcomes :
        \/ o.err # "oom" /\ Returns(h, o, items)
        \/ /\ o.err = "oom"
           /\ o.m.net = 0 \/ "failing_preallocation" \in BrokenUses
           /\ buffers' = buffers + o.m.net
           /\ UNCHANGED <<list, expected, ended>>

MakeEmpty(h, kind, n) ==
    \/ kind \in {"array", "objects"} /\ n = 0
       /\ Constructed(h, {[m |-> Array!Empty(kind = "array"), err |-> "success"]}, << >>)
    \/ kind \in {"array", "objects"} /\ n > 0
       /\ Constructed(h, Array!Preallocated(kind = "array", n), << >>)
    \/ /\ kind = "segmented"
       /\ \E preallocate \in BOOLEAN : Constructed(h, Segmented!Empty(n, preallocate), << >>)
    \/ /\ kind = "fixed" /\ n = 0
       /\ Constructed(h, {[m |-> Fixed!Empty, err |-> "success"]}, << >>)
    \/ kind = "bits" /\ \E zeros \in {0, n} :
          Constructed(h, Bits!Preallocated(zeros, n - zeros), [i \in 1 .. zeros |-> Off])

(***************************************************************************)
(* Copying one item into a segmented list is known to fail (there is no    *)
(* room for a pointer in its blocklist).                                   *)
(***************************************************************************)
MakeCopy(h, kind, items) ==
    \/ kind \in {"array", "objects"} /\ Constructed(h, Array!CopyItems(kind = "array", items), items)
    \/ /\ kind = "segmented" /\ Len(items) > 1
       /\ Constructed(h, Segmented!CopyItems(items), items)
    \/ /\ kind = "fixed" /\ Len(items) <= MaxElems
       /\ Constructed(h, {[m |-> Fixed!CopyItems(items), err |-> "success"]}, items)
    \/ kind = "bits" /\ Constructed(h, Bits!CopyItems(items), items)

(* a bit list is not to be used again once it was moved from *)
Usable(h) == Running /\ Made(h) /\ ~(IsBits(h) /\ list[h].moved)

(***************************************************************************)
(* Constructors that fail are known to be mishandled for objects, whose    *)
(* places are assigned to while no object is there, and by the segmented   *)
(* list, which ignores the failure.                                        *)
(***************************************************************************)
MayFail(h) == list[h].kind = "fixed" \/ (IsArray(h) /\ list[h].trivial)

InsertAt(h, idx, v, fails) ==
    /\ Usable(h) /\ idx <= Size(h) /\ InUse(h) < MaxItems
    /\ fails => MayFail(h) \/ "failing_constructor" \in BrokenUses
    /\ LET items == Sequence!InsertAt(expected[h], idx + 1, v)
       IN  \/ IsArray(h) /\ \E o \in Array!InsertAt(list[h], idx, v, fails) : Returns(h, o, items)
           \/ IsSegmented(h) /\ ~fails /\ \E o \in Segmented!InsertAt(list[h], idx, v) : Returns(h, o, items)
           \/ list[h].kind = "fixed" /\ Returns(h, Fixed!InsertAt(list[h], idx, v, fails), items)
           \/ /\ IsBits(h) /\ ~fails
              /\ Bits!UnexpectedCarry(list[h], idx) => "insert_below_full_bytes" \in BrokenUses
              /\ \E o \in Bits!InsertAt(list[h], idx, v) : Returns(h, o, items)

(***************************************************************************)
(* Removing an object is known to fail, unless it is the last or the       *)
(* one before it: the items above are moved in the wrong order.            *)
(***************************************************************************)
Remove(h, idx) ==
    /\ Usable(h) /\ idx < Size(h)
    /\ list[h].trivial \/ idx >= Size(h) - 2 \/ "remove_object" \in BrokenUses
    /\ LET items == Sequence!RemoveAt(expected[h], idx + 1)
       IN  \/ IsArray(h) /\ Succeeds(h, Array!Remove(list[h], idx), items)
           \/ IsSegmented(h) /\ Succeeds(h, Segmented!Remove(list[h], idx), items)
           \/ list[h].kind = "fixed" /\ Succeeds(h, Fixed!Remove(list[h], idx), items)
           \/ /\ IsBits(h)
              /\ Bits!SizeBytes(list[h]) < list[h].cap \/ "remove_bit_when_full" \in BrokenUses
              /\ \E m \in Bits!Remove(list[h], idx) : Succeeds(h, m, items)

RemoveAndSwapLast(h, idx) ==
    /\ Usable(h) /\ idx < Size(h)
    /\ LET items == Sequence!Front([expected[h] EXCEPT ![idx + 1] = Sequence!Last(expected[h])])
       IN  \/ IsArray(h) /\ Succeeds(h, Array!RemoveAndSwapLast(list[h], idx), items)
           \/ IsSegmented(h) /\ Succeeds(h, Segmented!RemoveAndSwapLast(list[h], idx), items)
           \/ list[h].kind = "fixed" /\ Succeeds(h, Fixed!RemoveAndSwapLast(list[h], idx), items)

Clear(h) ==
    /\ Usable(h)
    /\ \/ IsArray(h) /\ Succeeds(h, Array!Clear(list[h]), << >>)
       \/ IsSegmented(h) /\ Succeeds(h, Segmented!Clear(list[h]), << >>)
       \/ list[h].kind = "fixed" /\ Succeeds(h, Fixed!Clear(list[h]), << >>)
       \/ /\ IsBits(h)
          /\ (\A i \in DOMAIN expected[h] : expected[h][i] = Off) \/ "clear_bits" \in BrokenUses
          /\ Succeeds(h, Bits!Clear(list[h]), << >>)

(***************************************************************************)
(* Growing a list of objects by a number of items is known to fail: the    *)
(* request is computed from its size where its capacity is meant.          *)
(***************************************************************************)
MayGrow(h, n) ==
    list[h].trivial \/ list[h].cap = 0 \/ list[h].cap >= n \/ "grow_objects" \in BrokenUses

Resize(h, n, v) ==
    /\ Usable(h) /\ (IsArray(h) \/ list[h].kind = "fixed") /\ MayGrow(h, n) /\ Elsewhere(h) + n <= MaxItems
    /\ LET items == [i \in 1 .. n |-> IF i <= Size(h) THEN expected[h][i] ELSE v]
       IN  \/ IsArray(h) /\ \E o \in Array!Resize(list[h], n, v) : Returns(h, o, items)
           \/ list[h].kind = "fixed" /\ n <= MaxElems /\ Succeeds(h, Fixed!Resize(list[h], n, v), items)

AppendAll(h, items, sized) ==
    /\ Usable(h) /\ IsArray(h) /\ InUse(h) + Len(items) <= MaxItems
    /\ sized => MayGrow(h, Size(h) + Len(items))
    /\ \E o \in Array!AppendIterator(list[h], items, sized) :
        LET taken == o.m.size - Size(h)
        IN  Returns(h, [o EXCEPT !.err = IF @ = "oom" THEN "success" ELSE @],
                    expected[h] \o SubSeq(items, 1, taken))

Reserve(h, n) ==
    /\ Usable(h)
    /\ \/ /\ IsArray(h) /\ MayGrow(h, list[h].cap + 1) /\ list[h].cap <= MaxSpots
          /\ \E o \in Array!IncreaseCapacityByAtLeast(list[h], n) : Returns(h, o, expected[h])
       \/ IsSegmented(h) /\ \E o \in Segmented!EnsureTotalCapacity(list[h], n) : Returns(h, o, expected[h])
       \/ /\ IsBits(h) /\ list[h].cap * ByteWidth <= MaxSpots
          /\ \E o \in Bits!IncreaseCapacityBy(list[h], n) : Returns(h, o, expected[h])

(* operator[], set_bit and toggle_bit: an item is assigned to *)
Assign(h, idx, v) ==
    /\ Usable(h) /\ idx < Size(h)
    /\ Succeeds(h, IF IsBits(h) THEN Bits!SetBit(list[h], idx, v)
                   ELSE [list[h] EXCEPT !.s.cell[Place(h, idx)] = v],
                [expected[h] EXCEPT ![idx + 1] = v])

(***************************************************************************)
(* Setting all bits is known to set unused ones as well, and clearing a    *)
(* list of bits to leave those that were on: insertion finds them later.   *)
(***************************************************************************)
SetAllBits(h, v) ==
    /\ Usable(h) /\ IsBits(h)
    /\ v = Off \/ Size(h) % ByteWidth = 0 \/ "set_all_bits" \in BrokenUses
    /\ Succeeds(h, Bits!SetAllBits(list[h], v), [i \in DOMAIN expected[h] |-> v])

ShrinkToReclaim(h) ==
    /\ Usable(h) /\ IsArray(h)
    /\ \E o \in Array!ShrinkToReclaim(list[h]) : Returns(h, o, expected[h])

(* the caller gives the buffer that it gets back later *)
ShrinkAndLeak(h) ==
    /\ Usable(h) /\ IsArray(h)
    /\ \E o \in Array!ShrinkAndLeak(list[h]) : Returns(h, o, << >>)

-----------------------------------------------------------------------------

MovedFrom(m) ==
    CASE m.kind = "array" -> Array!MovedFrom(m)
      [] m.kind = "segmented" -> Segmented!MovedFrom(m)
      [] m.kind = "fixed" -> Fixed!MovedFrom(m)
      [] m.kind = "bits" -> Bits!MovedFrom(m)

(* what moving leaves: nothing, but for the list that is copied instead *)
Remaining(from) == IF list[from].kind = "fixed" THEN expected[from] ELSE << >>

MoveConstruct(h, from) ==
    /\ Usable(from) /\ ~Made(h)
    /\ InUse(h) + Len(Remaining(from)) <= MaxItems
    /\ list' = [list EXCEPT ![h] = list[from], ![from] = MovedFrom(list[from])]
    /\ expected' = [expected EXCEPT ![h] = expected[from], ![from] = Remaining(from)]
    /\ UNCHANGED <<buffers, ended>>

(***************************************************************************)
(* Array lists and segmented lists are swapped and the other one is        *)
(* cleared, the rest of them give up what they have.                       *)
(***************************************************************************)
MoveAssigned(m, other) ==
    CASE m.kind = "array" -> Array!MoveAssigned(m, other)
      [] m.kind = "segmented" -> Segmented!MoveAssigned(m, other)
      [] m.kind = "fixed" -> <<other, Fixed!MovedFrom(other)>>
      [] m.kind = "bits" -> <<[other EXCEPT !.net = Bits!Destroyed(m).net], Bits!MovedFrom(other)>>

MoveAssign(h, from) ==
    /\ Usable(from) /\ Made(h) /\ h # from
    /\ list[h].kind = list[from].kind /\ list[h].trivial = list[from].trivial
    /\ Elsewhere(h) + Len(Remaining(from)) <= MaxItems
    /\ LET pair == MoveAssigned(list[h], list[from])
       IN  /\ list' = [list EXCEPT ![h] = [pair[1] EXCEPT !.net = 0], ![from] = pair[2]]
           /\ buffers' = buffers + pair[1].net
    /\ expected' = [expected EXCEPT ![h] = expected[from], ![from] = Remaining(from)]
    /\ UNCHANGED ended

(***************************************************************************)
(* The end of a list. (A segmented list has no destructor, so the program  *)
(* lets none end that has a buffer.)                                       *)
(***************************************************************************)
Destroy(h) ==
    /\ Running /\ Made(h)
    /\ IsSegmented(h) => Owned(h) = 0
    /\ LET freed == IF IsArray(h) THEN Array!Destroyed(list[h])
                    ELSE IF IsBits(h) THEN Bits!Destroyed(list[h]) ELSE list[h]
       IN  buffers' = buffers + freed.net
    /\ list' = [list EXCEPT ![h] = None]
    /\ expected' = [expected EXCEPT ![h] = << >>]
    /\ UNCHANGED ended

Items == UNION {[1 .. n -> Value] : n \in 1 .. MaxItems}

Next ==
    \E h \in Handle :
        \/ \E idx \in 0 .. MaxItems, v \in Value : Assign(h, idx, v)
        \/ \E v \in Value : SetAllBits(h, v)
        \/ \E kind \in Kinds, n \in 0 .. MaxItems : MakeEmpty(h, kind, n)
        \/ \E kind \in Kinds, items \in Items : MakeCopy(h, kind, items)
        \/ \E idx \in 0 .. MaxItems, v \in Value, fails \in BOOLEAN : InsertAt(h, idx, v, fails)
        \/ \E idx \in 0 .. MaxItems : Remove(h, idx) \/ RemoveAndSwapLast(h, idx)
        \/ \E n \in 0 .. MaxItems, v \in Value : Resize(h, n, v)
        \/ \E items \in Items, sized \in BOOLEAN : AppendAll(h, items, sized)
        \/ \E n \in 1 .. MaxItems : Reserve(h, n)
        \/ \E from \in Handle : MoveConstruct(h, from) \/ MoveAssign(h, from)
        \/ Clear(h) \/ ShrinkToReclaim(h) \/ ShrinkAndLeak(h) \/ Destroy(h)

Spec == Init /\ [][Next]_vars

-----------------------------------------------------------------------------

(***************************************************************************)
(* The members agree with each other.                                      *)
(***************************************************************************)
TypeOK ==
    /\ ended \in Abort \cup {None}
    /\ buffers \in Nat
    /\ \A h \in Handle : Made(h) =>
        /\ DOMAIN list[h].s.cell =
              IF IsSegmented(h) THEN UNION {Segmented!Block(b) : b \in 0 .. list[h].blocks - 1}
              ELSE 0 .. list[h].cap * (IF IsBits(h) THEN ByteWidth ELSE 1) - 1
        /\ IsSegmented(h) /\ list[h].spots # None => list[h].blocks <= list[h].spots
        /\ \A p \in DOMAIN list[h].s.cell : list[h].s.cell[p] \in Value \cup {Raw, Moved}

(***************************************************************************)
(* Whatever was inserted, removed, moved or resized, in whichever order,   *)
(* and whichever allocation or constructor failed meanwhile, every list    *)
(* holds exactly the items that it should, in their order (insert_at,      *)
(* remove, append_iterator, resize, operator=).                            *)
(***************************************************************************)
ContentsExact ==
    Running => \A h \in Handle : Made(h) =>
        /\ Size(h) = Len(expected[h])
        /\ \A i \in 1 .. Len(expected[h]) : list[h].s.cell[Place(h, i - 1)] = expected[h][i]

(***************************************************************************)
(* Every object that a list constructs is destroyed once, none is used     *)
(* before it is constructed or after it was destroyed, and behind the last *)
(* item of a list there are no objects left over. Behind the last bit of a *)
(* bit list, all bits are off.                                             *)
(***************************************************************************)
LifetimesRespected ==
    \A h \in Handle : Made(h) =>
        /\ ~list[h].s.broken
        /\ Running /\ ~IsBits(h) =>
              Cardinality({p \in DOMAIN list[h].s.cell : list[h].s.cell[p] # Raw}) = Size(h)
        /\ Running /\ IsBits(h) =>
              \A i \in DOMAIN list[h].s.cell : i >= Size(h) => list[h].s.cell[i] = Off

(***************************************************************************)
(* No buffer is lost and none is freed twice: those taken from the backing *)
(* allocator are the buffers of the lists (new_block gives a block back    *)
(* that it cannot link, reallocate the old buffer once the items moved).   *)
(***************************************************************************)
BuffersAccounted ==
    TypeOK /\ (Running => buffers = MapThenSumSet(Owned, Handle))

(***************************************************************************)
(* Of the library's assertions only those can fail that check a request    *)
(* which asks for too little, the one of segmented_list.h:745, when a copy *)
(* runs out of memory, and the one of arraylist.h:371, when a full list    *)
(* is shrunk and the allocator rounds sizes up to pages. "Backing          *)
(* allocator for arraylist did not give back expected amount of memory"    *)
(* (arraylist.h:173) never fails.                                          *)
(***************************************************************************)
AssertionsHold ==
    ended \notin {"short_allocation", "wrong_size", "unexpected_carry", "carry_lost", "invalid_list"}
=============================================================================
