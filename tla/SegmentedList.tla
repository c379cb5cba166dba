---------------------------- MODULE SegmentedList ----------------------------
(***************************************************************************)
(* The functions of segmented_list_t (containers/segmented_list.h) on its  *)
(* members. The items are in blocks, each twice as large as the one before *)
(* it, so that they never move when the list grows; a list of the blocks   *)
(* (the blocklist) is reallocated. While there is no blocklist, size is    *)
(* the number of blocks that the first one is to have room for. m.spots is *)
(* the capacity of the blocklist (None: there is none), m.blocks the       *)
(* number of blocks.                                                       *)
(***************************************************************************)
LOCAL INSTANCE Integers
LOCAL INSTANCE Sequences

CONSTANTS
    Raw, Moved, None,
    Slack           \* how many more pointers than asked for a blocklist may get

LOCAL INSTANCE Slots

Outcome(m, err) == [m |-> m, err |-> err]

(* math.h *)
TwoToThePowerOf(exponent) == 2 ^ exponent

Log2(number) == CHOOSE e \in 0 .. number : 2 ^ e <= number /\ number < 2 ^ (e + 1)

Log2Ceil(number) == IF 2 ^ Log2(number) = number THEN Log2(number) ELSE Log2(number) + 1

NumSpotsForBlocks(blocks) == TwoToThePowerOf(blocks) - 1

SizeOfBlock(block) == TwoToThePowerOf(block)

(***************************************************************************)
(* get_block_index_and_offset: where the item with an index is             *)
(***************************************************************************)
At_NoShift(idx) ==
    LET block == Log2(idx + 1)
    IN  <<block, (idx - TwoToThePowerOf(block)) % SizeOfBlock(block)>>

At(idx) ==
    LET block == Log2(idx + 1) IN <<block, idx - (TwoToThePowerOf(block) - 1)>>

Block(block) == {<<block, offset>> : offset \in 0 .. SizeOfBlock(block) - 1}

Size(m) == IF m.spots = None THEN 0 ELSE m.size
Capacity(m) == IF m.spots = None THEN 0 ELSE NumSpotsForBlocks(m.blocks)

Members(hint) ==
    [kind |-> "segmented", trivial |-> TRUE, spots |-> None, blocks |-> 0, size |-> hint,
     s |-> NoObjects({}), net |-> 0]

-----------------------------------------------------------------------------

(***************************************************************************)
(* initialize_blocklist, ensure_additional_blocklist_capacity_is_at_least_ *)
(* one: the byte that is asked for behind the old pointers is not room for *)
(* another pointer, unless the allocator gives more.                       *)
(***************************************************************************)
InitializeBlocklist(m) ==
    {Outcome(m, "oom")} \cup
    {Outcome([m EXCEPT !.spots = n, !.size = 0, !.net = @ + 1], "success") : n \in m.size .. m.size + Slack}

ReallocateBlocklist(m) ==
    IF m.spots * 2 <= m.spots THEN {Outcome(m, "invalid_request")}
    ELSE {Outcome(m, "oom")} \cup {Outcome([m EXCEPT !.spots = n], "success") : n \in m.spots .. m.spots * 2}

EnsureBlocklistCapacity(m) ==
    IF m.spots = None THEN InitializeBlocklist(m)
    ELSE IF m.spots <= m.blocks THEN ReallocateBlocklist(m)
    ELSE {Outcome(m, "success")}

(***************************************************************************)
(* new_block: the block is given back when the blocklist cannot take it.   *)
(***************************************************************************)
BlockLinked(m) ==
    LET places == DOMAIN m.s.cell \cup Block(m.blocks)
    IN  [m EXCEPT !.blocks = @ + 1,
                  !.s.cell = [p \in places |-> IF p \in DOMAIN m.s.cell THEN m.s.cell[p] ELSE Raw]]

BlockGivenBack_Kept(m) == m

BlockGivenBack(m) == [m EXCEPT !.net = @ - 1]

NewBlock(m) ==
    {Outcome(m, "oom")} \cup
    {IF o.err = "invalid_request" THEN o
     ELSE IF o.err # "success" THEN Outcome(BlockGivenBack(o.m), o.err)
     ELSE IF o.m.spots <= o.m.blocks THEN Outcome(o.m, "short_blocklist")
     ELSE Outcome(BlockLinked(o.m), "success") : o \in EnsureBlocklistCapacity([m EXCEPT !.net = @ + 1])}

Then(outcomes, Op(_)) == UNION {IF o.err = "success" THEN Op(o.m) ELSE {o} : o \in outcomes}

(***************************************************************************)
(* ensure_additional_capacity_is_at_least: one block after the other; what *)
(* was allocated before a failure stays.                                   *)
(***************************************************************************)
EnsureAdditionalCapacity(m, additional) ==
    LET more(n) == IF Size(n) + additional > Capacity(n) THEN NewBlock(n) ELSE {Outcome(n, "success")}
        grown[k \in 0 .. Log2Ceil(Size(m) + additional + 1)] ==
            IF k = 0 THEN {Outcome(m, "success")} ELSE Then(grown[k - 1], more)
    IN  grown[Log2Ceil(Size(m) + additional + 1)]

EnsureTotalCapacity(m, total) ==
    IF total <= Size(m) THEN {Outcome(m, "success")}
    ELSE EnsureAdditionalCapacity(m, total - Size(m))

-----------------------------------------------------------------------------

(***************************************************************************)
(* insert_at. The items above move up into places that still hold the      *)
(* moved-from objects of those before them.                                *)
(***************************************************************************)
ShiftUp_FromTheLeft(m, idx) ==
    Each(m.s, Up(idx + 1, m.size), LAMBDA s, i : MoveConstruct(s, At(i), At(i - 1)))

ShiftUp(m, idx) ==
    Each(m.s, Down(m.size, idx + 1), LAMBDA s, i : MoveConstruct(s, At(i), At(i - 1)))

Inserted(m, idx, v) ==
    {Outcome([m EXCEPT !.s = Construct(ShiftUp(m, idx), At(idx), v), !.size = @ + 1], "success")}

Ready(m) == IF m.spots = None THEN Then(InitializeBlocklist(m), NewBlock) ELSE {Outcome(m, "success")}

LinkNewBlock(m) ==
    IF m.spots <= m.blocks THEN {Outcome(m, "short_blocklist")} ELSE NewBlock(m)

OneMore(m) ==
    IF m.size = Capacity(m) THEN Then(EnsureBlocklistCapacity(m), LinkNewBlock) ELSE {Outcome(m, "success")}

InsertAt(m, idx, v) == Then(Then(Ready(m), OneMore), LAMBDA n : Inserted(n, idx, v))

Remove(m, idx) ==
    [m EXCEPT !.s = Destroy(Each(MoveOut(@, At(idx)), Up(idx, m.size - 2),
                                 LAMBDA s, i : MoveAssign(s, At(i), At(i + 1))), At(m.size - 1)),
              !.size = @ - 1]

RemoveAndSwapLast(m, idx) ==
    [m EXCEPT !.s = Destroy(MoveAssign(MoveOut(@, At(idx)), At(idx), At(m.size - 1)), At(m.size - 1)),
              !.size = @ - 1]

Clear(m) ==
    IF Size(m) = 0 THEN m
    ELSE [m EXCEPT !.s = Each(@, Up(0, m.size - 1), LAMBDA s, i : Destroy(s, At(i))), !.size = 0]

(***************************************************************************)
(* empty: with room for as many blocks as the expected capacity needs, and *)
(* with these blocks, if they are to be allocated in advance.              *)
(***************************************************************************)
BlocksNeeded(expected) == Log2Ceil(IF expected + 1 < 2 THEN 2 ELSE expected + 1)

Empty(expected, preallocate) ==
    LET blocks == BlocksNeeded(expected)
        made[k \in 0 .. blocks] ==
            IF k = 0 THEN {Outcome(Members(blocks), "success")} ELSE Then(made[k - 1], NewBlock)
    IN  IF preallocate THEN made[blocks] ELSE made[0]

(***************************************************************************)
(* copy_items_from_iterator: the blocklist has one allocation with blocks  *)
(* that are not counted, so the items go to new ones. On failure the list  *)
(* is lost with the memory it had.                                         *)
(***************************************************************************)
CopyItems(items) ==
    LET spots == Log2Ceil(Len(items))
        blocklist == [Members(0) EXCEPT !.spots = spots, !.net = 1]
        copied[k \in 0 .. Len(items)] ==
            IF k = 0 THEN {Outcome(blocklist, "success")}
            ELSE Then(copied[k - 1], LAMBDA m : InsertAt(m, m.size, items[k]))
    IN  {Outcome(Members(0), "oom")} \cup
        {IF o.err = "oom" THEN Outcome(o.m, "not_inserted") ELSE o : o \in copied[Len(items)]}

(***************************************************************************)
(* The move constructor only takes the blocklist; assignment swaps. There  *)
(* is no destructor: a list that ends takes no buffer along.               *)
(***************************************************************************)
MovedFrom(other) ==
    [other EXCEPT !.spots = None, !.blocks = 0, !.s = NoObjects({})]

MoveAssigned(m, other) == <<other, Clear(m)>>
=============================================================================
