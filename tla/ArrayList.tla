------------------------------ MODULE ArrayList ------------------------------
(***************************************************************************)
(* The functions of arraylist_t (containers/arraylist.h) on its members,   *)
(* as operators from the members to the possible outcomes. Sizes are       *)
(* counted in items. The net number of buffers that a call takes from the  *)
(* backing allocator is left in m.net.                                     *)
(***************************************************************************)
LOCAL INSTANCE Integers
LOCAL INSTANCE Sequences

CONSTANTS
    Raw, Moved,
    FirstSpots,     \* the spots of a first allocation (4 in the code)
    Slack           \* how many more items than asked for an allocator may make room for

LOCAL INSTANCE Slots

Outcome(m, err) == [m |-> m, err |-> err]

Places(n) == 0 .. n - 1

Empty(trivial) ==
    [kind |-> "array", trivial |-> trivial, cap |-> 0, size |-> 0,
     s |-> NoObjects({}), net |-> 0]

-----------------------------------------------------------------------------

(***************************************************************************)
(* make_first_allocation                                                   *)
(***************************************************************************)
FirstAllocation(m, spots) ==
    {Outcome(m, "oom")} \cup
    {Outcome([m EXCEPT !.cap = n, !.s = Rehoused(@, m.size, Places(n)), !.net = @ + 1], "success") :
        n \in spots .. spots + Slack}

(***************************************************************************)
(* reallocate. Trivially copyable items are copied by the allocator, if it *)
(* cannot extend the memory where it is. Other items are moved here, into  *)
(* a buffer that is allocated after an attempt to extend in place.         *)
(***************************************************************************)
NewSpots(m, required, preferred) ==
    LET used == IF m.trivial THEN m.cap ELSE m.size
    IN  [min |-> used + required,
         preferred |-> IF m.trivial /\ preferred = 0 THEN 0 ELSE used + preferred]

RequestValid(m, r) ==
    r.min > 0 /\ (r.preferred = 0 \/ (r.min >= m.cap /\ r.preferred > r.min))

Housed(m, n) == [m EXCEPT !.cap = n, !.s = Rehoused(@, m.size, Places(n))]

Freed(m) == IF m.cap = 0 THEN m ELSE [m EXCEPT !.net = @ - 1]

MovedTo(m, spots) == Freed(Housed([m EXCEPT !.net = @ + 1], spots))

Reallocate(m, required, preferred) ==
    LET r == NewSpots(m, required, preferred)
        best == IF r.preferred = 0 THEN r.min ELSE r.preferred
    IN  IF ~RequestValid(m, r) THEN {Outcome(m, "invalid_request")}
        ELSE {Outcome(m, "oom")}
             \cup {Outcome(Housed(m, n), "success") : n \in r.min .. best}
             \cup {Outcome(MovedTo(m, n), "success") : n \in IF m.trivial THEN {} ELSE best .. best + Slack}

EnsureAdditionalCapacity_OffByOne(m) ==
    IF m.cap = 0 THEN FirstAllocation(m, FirstSpots)
    ELSE IF m.cap < m.size THEN Reallocate(m, 1, m.cap)
    ELSE {Outcome(m, "success")}

EnsureAdditionalCapacity(m) ==
    IF m.cap = 0 THEN FirstAllocation(m, FirstSpots)
    ELSE IF m.cap <= m.size THEN Reallocate(m, 1, m.cap)
    ELSE {Outcome(m, "success")}

IncreaseCapacityByAtLeast(m, spots) ==
    IF m.cap = 0 THEN FirstAllocation(m, spots) ELSE Reallocate(m, spots, 0)

-----------------------------------------------------------------------------

(***************************************************************************)
(* insert_at: make room, then construct there. When the constructor fails  *)
(* the items are moved back.                                               *)
(***************************************************************************)
ShiftUp_FromTheLeft(m, idx) ==
    IF idx = m.size THEN m.s
    ELSE LET last == MoveConstruct(m.s, m.size, m.size - 1)
         IN  Destroy(Each(last, Up(idx + 1, m.size - 1), LAMBDA s, i : MoveAssign(s, i, i - 1)), idx)

ShiftUp(m, idx) ==
    IF idx = m.size THEN m.s
    ELSE IF m.trivial THEN MemMove(m.s, idx + 1, idx, m.size - idx)
    ELSE LET last == MoveConstruct(m.s, m.size, m.size - 1)
         IN  Destroy(Each(last, Down(m.size - 1, idx + 1), LAMBDA s, i : MoveAssign(s, i, i - 1)), idx)

ShiftBack_Forgotten(s, m, idx) == s

ShiftBack(s, m, idx) ==
    IF m.trivial THEN MemMove(s, idx, idx + 1, m.size - idx)
    ELSE Destroy(Each(s, Up(idx, m.size - 1), LAMBDA t, i : MoveAssign(t, i, i + 1)), m.size)

InsertInto(m, idx, v, fails) ==
    LET room == ShiftUp(m, idx)
    IN  IF m.cap <= m.size THEN Outcome(m, "short_allocation")
        ELSE IF fails THEN Outcome([m EXCEPT !.s = ShiftBack(room, m, idx)], "failed")
        ELSE Outcome([m EXCEPT !.s = Construct(room, idx, v), !.size = @ + 1], "success")

InsertAt(m, idx, v, fails) ==
    {IF o.err = "success" THEN InsertInto(o.m, idx, v, fails) ELSE o :
        o \in EnsureAdditionalCapacity(m)}

(***************************************************************************)
(* append_iterator: the items of the iterator, one by one; if it knows its *)
(* size, room for all of them is made first.                               *)
(***************************************************************************)
AppendOne(o, v) == IF o.err = "success" THEN InsertAt(o.m, o.m.size, v, FALSE) ELSE {o}

MakeRoom(m, count, sized) ==
    IF sized /\ count > m.cap - m.size THEN IncreaseCapacityByAtLeast(m, count - (m.cap - m.size))
    ELSE {Outcome(m, "success")}

AppendIterator(m, items, sized) ==
    LET appended[n \in 0 .. Len(items)] ==
            IF n = 0 THEN MakeRoom(m, Len(items), sized)
            ELSE UNION {AppendOne(o, items[n]) : o \in appended[n - 1]}
    IN  {IF sized /\ o.err = "oom" /\ o.m.size > m.size THEN Outcome(o.m, "wrong_size") ELSE o :
            o \in appended[Len(items)]}

-----------------------------------------------------------------------------

(***************************************************************************)
(* remove: the item is moved out, the ones above it move down.             *)
(***************************************************************************)
ShiftDown(m, idx) ==
    IF m.trivial THEN MemMove(m.s, idx, idx + 1, m.size - idx - 1)
    ELSE Destroy(Each(MoveOut(m.s, idx), Down(m.size - 1, idx + 1),
                      LAMBDA s, i : MoveAssign(s, i - 1, i)), m.size - 1)

Remove(m, idx) ==
    [m EXCEPT !.s = IF idx = m.size - 1 THEN Destroy(MoveOut(@, idx), idx) ELSE ShiftDown(m, idx),
              !.size = @ - 1]

RemoveAndSwapLast_Keeps(m, idx) ==
    [m EXCEPT !.s = MoveAssign(MoveOut(@, idx), idx, m.size - 1), !.size = @ - 1]

RemoveAndSwapLast(m, idx) ==
    LET last == m.size - 1
        out  == MoveOut(m.s, idx)
    IN  [m EXCEPT !.s = Destroy(IF idx = last THEN out ELSE MoveAssign(out, idx, last), last),
                  !.size = @ - 1]

DestroyItems(s, first, last) == Each(s, Up(first, last), Destroy)

Clear(m) ==
    IF m.cap = 0 THEN m ELSE [m EXCEPT !.s = DestroyItems(@, 0, m.size - 1), !.size = 0]

(***************************************************************************)
(* resize, with the value that the new items get                           *)
(***************************************************************************)
ConstructItems(s, first, last, v) == Each(s, Up(first, last), LAMBDA t, i : Construct(t, i, v))

Grown(o, new_size, v) ==
    IF o.err # "success" THEN o
    ELSE IF o.m.cap < new_size THEN Outcome(o.m, "short_allocation")
    ELSE Outcome([o.m EXCEPT !.s = ConstructItems(@, o.m.size, new_size - 1, v),
                             !.size = new_size], "success")

Resize(m, new_size, v) ==
    IF new_size = m.size THEN {Outcome(m, "success")}
    ELSE IF new_size = 0 THEN {Outcome(Clear(m), "success")}
    ELSE IF m.cap = 0 THEN {Grown(o, new_size, v) : o \in FirstAllocation(m, new_size)}
    ELSE IF new_size < m.size
    THEN {Outcome([m EXCEPT !.s = DestroyItems(@, new_size, m.size - 1), !.size = new_size], "success")}
    ELSE {Grown(o, new_size, v) : o \in
            IF m.cap < new_size THEN Reallocate(m, new_size - m.cap, 0) ELSE {Outcome(m, "success")}}

-----------------------------------------------------------------------------

Nothing(m) == [m EXCEPT !.cap = 0, !.size = 0, !.s = NoObjects({})]

(***************************************************************************)
(* shrink_to_reclaim_unused_memory: nothing happens if the allocator       *)
(* cannot reclaim memory, or does not reallocate in place. An allocator    *)
(* that is asked for less than the buffer gives exactly that; one that is  *)
(* asked for as much as the buffer has may give more: the page allocator   *)
(* rounds up to pages. The assertion about the size fails then.            *)
(***************************************************************************)
ShrinkToReclaim(m) ==
    LET most == IF m.size = m.cap THEN m.size + Slack ELSE m.size
    IN  {Outcome(m, "success")} \cup
        IF m.size = 0 THEN {Outcome(Nothing(Freed(m)), "success")}
        ELSE {IF n = m.size THEN Outcome(Housed(m, n), "success") ELSE Outcome(m, "inexact_shrink") :
                n \in m.size .. most}

(* shrink_and_leak: the buffer and its items are the caller's *)
ShrinkAndLeak(m) ==
    {IF o.err = "success" THEN Outcome(Nothing(Freed(o.m)), "success") ELSE o : o \in ShrinkToReclaim(m)}

Destroyed_Leaks(m) == Nothing(Clear(m))

Destroyed(m) == Nothing(Freed(Clear(m)))

(* spots_preallocated, copy_items_from_iterator *)
Preallocated(trivial, spots) == FirstAllocation(Empty(trivial), spots)

CopyItems(trivial, items) ==
    LET copied(m) == [m EXCEPT !.size = Len(items), !.s =
            Each(@, Up(0, Len(items) - 1), LAMBDA s, i : Construct(s, i, items[i + 1]))]
    IN  {IF o.err = "success" THEN Outcome(copied(o.m), "success") ELSE o :
            o \in Preallocated(trivial, Len(items))}

(* the move constructor leaves other with no memory; assignment swaps *)
MovedFrom(other) == Nothing(other)

MoveAssigned(m, other) == <<other, Clear(m)>>
=============================================================================
