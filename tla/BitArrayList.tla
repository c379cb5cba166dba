---------------------------- MODULE BitArrayList ----------------------------
(***************************************************************************)
(* The functions of bit_arraylist_t (containers/bit_arraylist.h) on its    *)
(* members. cap counts bytes and size counts bits; s.cell holds every bit  *)
(* of the allocation, those behind the last one too: bytes are shifted as  *)
(* a whole, and insertion relies on the unused bits being zero.            *)
(***************************************************************************)
LOCAL INSTANCE Integers
LOCAL INSTANCE Sequences

CONSTANTS
    On, Off,        \* the values of a bit
    ByteWidth,      \* the bits of a byte (8 in the code)
    FirstBytes,     \* the bytes of a first allocation (5 in the code)
    Slack           \* how many more bytes than asked for an allocator may give

Outcome(m, err) == [m |-> m, err |-> err]

(* round_up_to_multiple_of<8>(bits) / 8 *)
BytesFor(bits) == (bits + ByteWidth - 1) \div ByteWidth

SizeBytes(m) == BytesFor(m.size)

(* the bits in a given number of bytes, the new ones zeroed *)
Zeroed(m, bytes) ==
    [m EXCEPT !.cap = bytes, !.s.cell =
        [i \in 0 .. bytes * ByteWidth - 1 |-> IF i \in DOMAIN m.s.cell THEN m.s.cell[i] ELSE Off]]

Empty == [kind |-> "bits", trivial |-> TRUE, moved |-> FALSE, cap |-> 0, size |-> 0,
          s |-> [cell |-> [i \in {} |-> Off], broken |-> FALSE], net |-> 0]

FirstAllocation(m, bytes) ==
    IF m.moved THEN {Outcome(m, "invalid_list")}
    ELSE {Outcome(m, "oom")} \cup
         {Outcome([Zeroed(m, n) EXCEPT !.net = 1], "success") : n \in bytes .. bytes + Slack}

Reallocate(m, required, preferred) ==
    LET best == IF preferred = 0 THEN required ELSE preferred
    IN  {Outcome(m, "oom")} \cup {Outcome(Zeroed(m, m.cap + n), "success") : n \in required .. best}

EnsureAdditionalCapacity(m) ==
    IF m.cap = 0 THEN FirstAllocation(m, FirstBytes)
    ELSE IF SizeBytes(m) = m.cap THEN Reallocate(m, 1, m.cap * 2)
    ELSE {Outcome(m, "success")}

IncreaseCapacityBy(m, new_spots) ==
    IF m.cap = 0 THEN FirstAllocation(m, BytesFor(new_spots)) ELSE Reallocate(m, BytesFor(new_spots), 0)

-----------------------------------------------------------------------------

(***************************************************************************)
(* insert_at: from the byte of idx to the byte num_bytes above it, every   *)
(* bit moves up by one. The assertion in the loop is meant for the last    *)
(* byte, but compares an index of the list with the length of the loop.    *)
(***************************************************************************)
ShiftedUp_WithinByte(m, idx, v) ==
    LET top == (idx \div ByteWidth + 1) * ByteWidth - 1
    IN  [i \in DOMAIN m.s.cell |->
            IF i = idx THEN v ELSE IF i \in idx + 1 .. top THEN m.s.cell[i - 1] ELSE m.s.cell[i]]

TopBit(m, idx) == (idx \div ByteWidth + BytesFor(m.size - idx) + 1) * ByteWidth - 1

ShiftedUp(m, idx, v) ==
    [i \in DOMAIN m.s.cell |->
        IF i = idx THEN v ELSE IF i \in idx + 1 .. TopBit(m, idx) THEN m.s.cell[i - 1] ELSE m.s.cell[i]]

UnexpectedCarry(m, idx) ==
    LET byte == BytesFor(m.size - idx) - 1
    IN  /\ byte > idx \div ByteWidth
        /\ m.size % ByteWidth = 0
        /\ m.s.cell[byte * ByteWidth + ByteWidth - 1] = On

InsertInto(m, idx, v) ==
    IF SizeBytes(m) >= m.cap THEN Outcome(m, "short_allocation")
    ELSE IF UnexpectedCarry(m, idx) THEN Outcome(m, "unexpected_carry")
    ELSE IF m.s.cell[TopBit(m, idx)] = On THEN Outcome(m, "carry_lost")
    ELSE Outcome([m EXCEPT !.s.cell = ShiftedUp(m, idx, v), !.size = @ + 1], "success")

InsertAt(m, idx, v) ==
    {IF o.err = "success" THEN InsertInto(o.m, idx, v) ELSE o : o \in EnsureAdditionalCapacity(m)}

(***************************************************************************)
(* remove_at: the bits above move down by one, beginning with those of the *)
(* byte behind the last one in use, if there is one: otherwise a bit from  *)
(* outside of the allocation comes in, which may be on or off.             *)
(***************************************************************************)
Remove(m, idx) ==
    LET top == (SizeBytes(m) + 1) * ByteWidth - 1
        down(outside) == [i \in DOMAIN m.s.cell |->
            IF i < idx \/ i > top THEN m.s.cell[i]
            ELSE IF i = top THEN Off
            ELSE IF i + 1 \in DOMAIN m.s.cell THEN m.s.cell[i + 1] ELSE outside]
    IN  {[m EXCEPT !.s.cell = down(outside), !.size = @ - 1] : outside \in {On, Off}}

Clear_Zeroes(m) == [m EXCEPT !.size = 0, !.s.cell = [i \in DOMAIN @ |-> Off]]

Clear(m) == [m EXCEPT !.size = 0]

SetBit(m, idx, v) == [m EXCEPT !.s.cell[idx] = v]

(* whole bytes, the unused bits of the last one too *)
SetAllBits(m, v) ==
    [m EXCEPT !.s.cell = [i \in DOMAIN @ |-> IF i < SizeBytes(m) * ByteWidth THEN v ELSE @[i]]]

-----------------------------------------------------------------------------

(* preallocated_and_zeroed; bit_string and copy_booleans_from_iterable *)
Preallocated(bits, additional) ==
    IF bits + additional = 0 THEN {Outcome(Empty, "success")}
    ELSE {[o EXCEPT !.m.size = IF o.err = "success" THEN bits ELSE 0] :
            o \in FirstAllocation(Empty, BytesFor(bits + additional))}

CopyItems(bits) ==
    {[o EXCEPT !.m.s.cell = [i \in DOMAIN @ |-> IF i < Len(bits) THEN bits[i + 1] ELSE @[i]]] :
        o \in Preallocated(Len(bits), 0)}

(* a list that was moved from has no allocator any more *)
MovedFrom(other) == [Empty EXCEPT !.moved = TRUE]

Destroyed(m) == [m EXCEPT !.net = IF m.cap = 0 THEN @ ELSE @ - 1]
=============================================================================
