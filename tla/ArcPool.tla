------------------------------- MODULE ArcPool -------------------------------
(***************************************************************************)
(* The pool of reference counted objects of containers/arcpool.h, one      *)
(* atomic instruction per step. The items of the pool are never given back *)
(* while it lives. A free item is on a stack that is guarded by a bit of   *)
(* its top; a used one is counted by strongcount. Weak pointers are not    *)
(* counted: they remember the item's generation, which changes whenever an *)
(* object is made or destroyed there. The template has never been          *)
(* instantiated, and some of its lines do not compile; the model takes     *)
(* them as they are plainly meant (README.md lists them).                  *)
(*                                                                         *)
(* A thread has at most one strong and one weak pointer. (Copying or       *)
(* moving a strong_t reads a member before it is initialized, so further   *)
(* owners come from weak pointers.)                                        *)
(***************************************************************************)
EXTENDS Integers, FiniteSets

CONSTANTS
    Thread, None,
    FirstItems,     \* the length of the first buffer
    MaxItems,       \* bound on the items of all buffers
    MaxObjects      \* bound on the number of calls of make

Item == 1 .. MaxItems

ASSUME PoolAssumption ==
    /\ IsFiniteSet(Thread)
    /\ MaxItems \in Nat /\ FirstItems \in 1 .. MaxItems /\ MaxObjects \in Nat
    /\ None \notin Nat /\ None # "destroyed"
    /\ None \notin [item : Item, object : Nat]
    /\ None \notin [item : Item, object : Nat, generation : Nat]

VARIABLES
    generation, strongcount, next,  \* item_t::counters
    object,     \* the object that lives in an item, or None
    objects,    \* how many objects the program has asked for
    lost,       \* the items whose object could not be constructed
    top, locked, size,              \* the freestack: top without its lock bit, the bit, size
    lengths,    \* the buffers taken from the allocator, by their first item, and their lengths
    after,      \* item_buffer_t::next
    back,       \* m_back
    overwritten,    \* history: the buffers to which item_buffer_t::next pointed before
                    \* it was made to point to another one
    own,        \* the strong pointer of a thread: an item and the object it is for
    weak,       \* its weak pointer: an item, m_generation and the object it is for
    pc, reg,    \* the next instruction of a thread and its local variables
    ended       \* the assertion that ended the program

counters == <<generation, strongcount, object, objects, lost>>
stack == <<next, top, locked, size>>
chain == <<lengths, after, back, overwritten>>
handles == <<own, weak>>
vars == <<counters, stack, chain, handles, pc, reg, ended>>

Buffer(first, length) == first .. first + length - 1
(* the items of the buffers taken from the allocator *)
Allocated == UNION {Buffer(b, lengths[b]) : b \in DOMAIN lengths}
Linked(first, length, last) ==
    [i \in Item |-> IF i \notin Buffer(first, length) THEN next[i]
                    ELSE IF i = first + length - 1 THEN last ELSE i + 1]

(* with_capacity: the first buffer, in which all items are free *)
Init ==
    /\ generation = [i \in Item |-> 0]
    /\ strongcount = [i \in Item |-> 0]
    /\ next = [i \in Item |-> IF i < FirstItems THEN i + 1 ELSE None]
    /\ object = [i \in Item |-> None]
    /\ objects = 0
    /\ lost = {}
    /\ top = 1 /\ locked = FALSE /\ size = FirstItems
    /\ lengths = [b \in {1} |-> FirstItems]
    /\ after = [b \in Item |-> None]
    /\ back = 1
    /\ overwritten = {}
    /\ own = [t \in Thread |-> None]
    /\ weak = [t \in Thread |-> None]
    /\ pc = [t \in Thread |-> "idle"]
    /\ reg = [t \in Thread |-> None]
    /\ ended = None

At(t, label) == ended = None /\ pc[t] = label
Idle(t) == At(t, "idle")

Goto(t, label, r) ==
    /\ pc' = [pc EXCEPT ![t] = label]
    /\ reg' = [reg EXCEPT ![t] = r]

Return(t) == Goto(t, "idle", None)

Ends(assertion) ==
    /\ ended' = assertion
    /\ UNCHANGED <<counters, stack, chain, handles, pc, reg>>

-----------------------------------------------------------------------------
(* arcpool_freestack_t                                                     *)

(* lock(): the spin until fetch_or finds the bit clear *)
Lock(t, from, to) ==
    /\ At(t, from) /\ ~locked
    /\ locked' = TRUE
    /\ Goto(t, to, reg[t])
    /\ UNCHANGED <<counters, next, top, size, chain, handles, ended>>

(***************************************************************************)
(* What the owner of the lock does, unlock() included. Of this, others see *)
(* only size, which assertions read without the lock.                      *)
(***************************************************************************)
Unlock(new_top) == locked' = FALSE /\ top' = new_top

Push(item) ==
    /\ next' = [next EXCEPT ![item] = top]
    /\ size' = size + 1
    /\ Unlock(item)

Pop == size' = size - 1 /\ Unlock(next[top]) /\ UNCHANGED next

-----------------------------------------------------------------------------
(* make                                                                    *)

CallMake(t) ==
    /\ Idle(t) /\ own[t] = None /\ objects < MaxObjects
    /\ objects' = objects + 1
    /\ Goto(t, "mk_lock", [object |-> objects + 1, grown |-> FALSE])
    /\ UNCHANGED <<generation, strongcount, object, lost, stack, chain, handles, ended>>

MakeLock(t) == Lock(t, "mk_lock", "mk_pop")

MakePop(t) ==
    /\ At(t, "mk_pop") /\ size > 0
    /\ Pop
    /\ Goto(t, "mk_generation", [object |-> reg[t].object, item |-> top])
    /\ UNCHANGED <<counters, chain, handles, ended>>

MakePopNothing(t) ==
    /\ At(t, "mk_pop") /\ size = 0
    /\ Unlock(top)
    /\ Goto(t, "mk_empty", reg[t])
    /\ UNCHANGED <<counters, next, size, chain, handles, ended>>

(* An item became free after the first pop, or was taken before the second. *)
MakeEmptyFails(t) ==
    /\ At(t, "mk_empty") /\ (size # 0 \/ reg[t].grown)
    /\ Ends(IF reg[t].grown THEN "no_item" ELSE "not_empty")

(* alloc_more fails *)
MakeOutOfMemory(t) ==
    /\ At(t, "mk_empty") /\ size = 0 /\ ~reg[t].grown
    /\ Return(t)
    /\ UNCHANGED <<counters, stack, chain, handles, ended>>

(***************************************************************************)
(* alloc_more appends the new buffer to the list of buffers without a      *)
(* lock: it loads m_back, stores to the next of that buffer, and stores to *)
(* m_back. Threads that find the stack empty at the same time are in it at *)
(* the same time. (Only the items of the new buffer are added to the stack *)
(* under its lock.)                                                        *)
(***************************************************************************)
NewLength == IF lengths[back] = 1 THEN 1 ELSE (3 * lengths[back]) \div 2
NewFirst == CHOOSE first \in 1 .. MaxItems + 1 : Allocated = 1 .. first - 1

Grow(t) ==
    /\ At(t, "mk_empty") /\ size = 0 /\ ~reg[t].grown
    /\ NewFirst + NewLength - 1 <= MaxItems
    /\ lengths' = [b \in DOMAIN lengths \cup {NewFirst} |->
                      IF b = NewFirst THEN NewLength ELSE lengths[b]]
    /\ Goto(t, "gr_load", [object |-> reg[t].object, buffer |-> NewFirst])
    /\ UNCHANGED <<counters, stack, after, back, overwritten, handles, ended>>

GrowLoad(t) ==
    /\ At(t, "gr_load")
    /\ Goto(t, "gr_link", [object |-> reg[t].object, buffer |-> reg[t].buffer, last |-> back])
    /\ UNCHANGED <<counters, stack, chain, handles, ended>>

Linking(t) ==
    /\ Goto(t, "gr_back", [object |-> reg[t].object, buffer |-> reg[t].buffer])
    /\ UNCHANGED <<counters, stack, lengths, back, handles, ended>>

GrowLink_AfterBack(t) ==
    /\ At(t, "gr_link")
    /\ after' = [after EXCEPT ![reg[t].buffer] = reg[t].buffer]
    /\ UNCHANGED overwritten
    /\ Linking(t)

GrowLink(t) ==
    /\ At(t, "gr_link")
    /\ after' = [after EXCEPT ![reg[t].last] = reg[t].buffer]
    /\ overwritten' = overwritten \cup ({after[reg[t].last]} \ {None})
    /\ Linking(t)

GrowBack(t) ==
    /\ At(t, "gr_back")
    /\ back' = reg[t].buffer
    /\ Goto(t, "gr_lock", reg[t])
    /\ UNCHANGED <<counters, stack, lengths, after, overwritten, handles, ended>>

GrowLock(t) == Lock(t, "gr_lock", "gr_push")

GrowPush(t) ==
    LET first == reg[t].buffer
    IN  /\ At(t, "gr_push")
        /\ next' = Linked(first, lengths[first], top)
        /\ size' = size + lengths[first]
        /\ Unlock(first)
        /\ Goto(t, "gr_assert", reg[t])
        /\ UNCHANGED <<counters, chain, handles, ended>>

GrowAssert(t) ==
    /\ At(t, "gr_assert")
    /\ \/ size = 0 /\ Ends("no_item")
       \/ /\ size # 0
          /\ Goto(t, "mk_lock", [object |-> reg[t].object, grown |-> TRUE])
          /\ UNCHANGED <<counters, stack, chain, handles, ended>>

(***************************************************************************)
(* The item is the thread's alone until the first pointer to it is         *)
(* returned, but for weak pointers to objects that were there before.      *)
(***************************************************************************)
MakeGeneration(t) ==
    /\ At(t, "mk_generation")
    /\ generation' = [generation EXCEPT ![reg[t].item] = @ + 1]
    /\ Goto(t, "mk_strong", reg[t])
    /\ UNCHANGED <<strongcount, object, objects, lost, stack, chain, handles, ended>>

MakeStrong(t) ==
    /\ At(t, "mk_strong")
    /\ strongcount' = [strongcount EXCEPT ![reg[t].item] = @ + 1]
    /\ Goto(t, "mk_construct", reg[t])
    /\ UNCHANGED <<generation, object, objects, lost, stack, chain, handles, ended>>

MakeConstruct(t) ==
    /\ At(t, "mk_construct")
    /\ object' = [object EXCEPT ![reg[t].item] = reg[t].object]
    /\ own' = [own EXCEPT ![t] = reg[t]]
    /\ Return(t)
    /\ UNCHANGED <<generation, strongcount, objects, lost, stack, chain, weak, ended>>

(* The item is not put back when its object could not be constructed. *)
MakeConstructFails(t) ==
    /\ At(t, "mk_construct")
    /\ lost' = lost \cup {reg[t].item}
    /\ Return(t)
    /\ UNCHANGED <<generation, strongcount, object, objects, stack, chain, handles, ended>>

-----------------------------------------------------------------------------
(* strong_t                                                                *)

(* ~strong_t: destroy_with, fetch_sub *)
Drop(t) ==
    LET item == own[t].item
    IN  /\ Idle(t) /\ own[t] # None
        /\ strongcount' = [strongcount EXCEPT ![item] = @ - 1]
        /\ own' = [own EXCEPT ![t] = None]
        /\ IF strongcount[item] = 1 THEN Goto(t, "ds_destruct", [item |-> item]) ELSE Return(t)
        /\ UNCHANGED <<generation, object, objects, lost, stack, chain, weak, ended>>

(* destroy_raw, by whoever took the last reference away *)
DestroyDestruct(t) ==
    /\ At(t, "ds_destruct")
    /\ object' = [object EXCEPT ![reg[t].item] = None]
    /\ Goto(t, "ds_generation", reg[t])
    /\ UNCHANGED <<generation, strongcount, objects, lost, stack, chain, handles, ended>>

DestroyGeneration(t) ==
    /\ At(t, "ds_generation")
    /\ generation' = [generation EXCEPT ![reg[t].item] = @ + 1]
    /\ Goto(t, "ds_lock", reg[t])
    /\ UNCHANGED <<strongcount, object, objects, lost, stack, chain, handles, ended>>

DestroyLock(t) == Lock(t, "ds_lock", "ds_push")

DestroyPush(t) ==
    /\ At(t, "ds_push")
    /\ Push(reg[t].item)
    /\ Return(t)
    /\ UNCHANGED <<counters, chain, handles, ended>>

(* operator weak_t, and handing the weak pointer to another thread *)
Weaken(t, u) ==
    /\ Idle(t) /\ Idle(u) /\ own[t] # None
    /\ weak' = [weak EXCEPT ![u] = [item |-> own[t].item, object |-> own[t].object,
                                    generation |-> generation[own[t].item]]]
    /\ UNCHANGED <<counters, stack, chain, own, pc, reg, ended>>

-----------------------------------------------------------------------------
(* weak_t::try_promote, try_promote_weakptr                                *)

Promote(t) ==
    /\ Idle(t) /\ weak[t] # None /\ own[t] = None
    /\ Goto(t, "pr_generation", [item |-> weak[t].item, count |-> strongcount[weak[t].item]])
    /\ UNCHANGED <<counters, stack, chain, handles, ended>>

(* m_ptr = nullptr *)
PromotionFails(t) ==
    /\ weak' = [weak EXCEPT ![t] = None]
    /\ Return(t)
    /\ UNCHANGED own

PromoteLoadGeneration(t) ==
    /\ At(t, "pr_generation")
    /\ IF reg[t].count = 0 \/ generation[reg[t].item] # weak[t].generation
       THEN PromotionFails(t)
       ELSE Goto(t, "pr_exchange", reg[t]) /\ UNCHANGED handles
    /\ UNCHANGED <<counters, stack, chain, ended>>

(* compare_exchange_weak, which may fail for no reason *)
PromoteExchange(t) ==
    /\ At(t, "pr_exchange") /\ strongcount[reg[t].item] = reg[t].count
    /\ strongcount' = [strongcount EXCEPT ![reg[t].item] = @ + 1]
    /\ Goto(t, "pr_check", [item |-> reg[t].item])
    /\ UNCHANGED <<generation, object, objects, lost, stack, chain, handles, ended>>

PromoteAgain_GivesUp(t) ==
    /\ At(t, "pr_exchange") /\ strongcount[reg[t].item] # reg[t].count
    /\ PromotionFails(t)
    /\ UNCHANGED <<counters, stack, chain, ended>>

PromoteAgain(t) ==
    /\ At(t, "pr_exchange")
    /\ Goto(t, "pr_generation", [reg[t] EXCEPT !.count = strongcount[reg[t].item]])
    /\ UNCHANGED <<counters, stack, chain, handles, ended>>

Promoted_Unchecked(t) ==
    /\ own' = [own EXCEPT ![t] = [item |-> weak[t].item, object |-> weak[t].object]]
    /\ Return(t)

Promoted(t) ==
    IF generation[reg[t].item] # weak[t].generation
    THEN Goto(t, "pr_repair", reg[t]) /\ UNCHANGED own
    ELSE /\ own' = [own EXCEPT ![t] = [item |-> weak[t].item, object |-> weak[t].object]]
         /\ Return(t)

PromoteCheck(t) ==
    /\ At(t, "pr_check")
    /\ Promoted(t)
    /\ UNCHANGED <<counters, stack, chain, weak, ended>>

(* The item was used again in between: the count goes back down. *)
Repaired_NeverDestroys(t, item) == PromotionFails(t)

Repaired(t, item) ==
    IF strongcount[item] = 1
    THEN /\ weak' = [weak EXCEPT ![t] = None]
         /\ Goto(t, "ds_destruct", [item |-> item])
         /\ UNCHANGED own
    ELSE PromotionFails(t)

PromoteRepair_KeepsCount(t) ==
    /\ At(t, "pr_repair")
    /\ PromotionFails(t)
    /\ UNCHANGED <<counters, stack, chain, ended>>

PromoteRepair(t) ==
    /\ At(t, "pr_repair")
    /\ strongcount' = [strongcount EXCEPT ![reg[t].item] = @ - 1]
    /\ Repaired(t, reg[t].item)
    /\ UNCHANGED <<generation, object, objects, lost, stack, chain, ended>>

-----------------------------------------------------------------------------

(* the items that succ leads to from first on *)
OnList(first, succ) ==
    LET Follows(S) == /\ first # None => first \in S
                      /\ \A i \in S : succ[i] # None => succ[i] \in S
    IN  {i \in Item : \A S \in SUBSET Item : Follows(S) => i \in S}

Reachable == OnList(1, after)

(***************************************************************************)
(* ~arcpool_t, when no thread has a pointer any more, frees the buffers    *)
(* that it can reach, after the assertion that their items are free.       *)
(***************************************************************************)
DestroyPool ==
    /\ ended = None
    /\ \A t \in Thread : Idle(t) /\ own[t] = None
    /\ IF \E i \in Item : strongcount[i] # 0 THEN ended' = "still_alive" /\ UNCHANGED lengths
       ELSE ended' = "destroyed" /\ lengths' = [b \in DOMAIN lengths \ Reachable |-> lengths[b]]
    /\ UNCHANGED <<counters, stack, after, back, overwritten, handles, pc, reg>>

Step(t) ==
    \/ MakeLock(t) \/ MakePop(t) \/ MakePopNothing(t) \/ MakeEmptyFails(t) \/ MakeOutOfMemory(t)
    \/ Grow(t) \/ GrowLoad(t) \/ GrowLink(t) \/ GrowBack(t) \/ GrowLock(t) \/ GrowPush(t) \/ GrowAssert(t)
    \/ MakeGeneration(t) \/ MakeStrong(t) \/ MakeConstruct(t) \/ MakeConstructFails(t)
    \/ DestroyDestruct(t) \/ DestroyGeneration(t) \/ DestroyLock(t) \/ DestroyPush(t)
    \/ PromoteLoadGeneration(t) \/ PromoteExchange(t) \/ PromoteAgain(t)
    \/ PromoteCheck(t) \/ PromoteRepair(t)

Client(t) == CallMake(t) \/ Drop(t) \/ Promote(t) \/ \E u \in Thread : Weaken(t, u)

Next == DestroyPool \/ \E t \in Thread : Client(t) \/ Step(t)

Spec == Init /\ [][Next]_vars

-----------------------------------------------------------------------------

Owners(item) == {t \in Thread : own[t] # None /\ own[t].item = item}

(* the threads that hold a count of an item without a pointer to it *)
Passing(item) ==
    {t \in Thread : pc[t] \in {"mk_construct", "pr_check", "pr_repair"} /\ reg[t].item = item}

(* the threads that have an item in hand, which is not on the stack *)
Handling(item) ==
    {t \in Thread : pc[t] \in {"mk_generation", "mk_strong", "mk_construct",
                               "ds_destruct", "ds_generation", "ds_lock", "ds_push"}
                    /\ reg[t].item = item}

(* the free items, from top on *)
Free == OnList(top, next)

TypeOK ==
    /\ generation \in [Item -> Nat] /\ strongcount \in [Item -> 0 .. Cardinality(Thread)]
    /\ top \in Item \cup {None} /\ lost \subseteq Item
    /\ ended \in {None, "not_empty", "no_item", "still_alive", "destroyed"}

(***************************************************************************)
(* A strong pointer points to the object that it was made for or promoted  *)
(* to, for as long as it lives, however often the item was used before and *)
(* whoever else promotes, repairs or destroys at the same time.            *)
(***************************************************************************)
PointersValid ==
    \A t \in Thread : own[t] # None => object[own[t].item] = own[t].object

(***************************************************************************)
(* strongcount is the number of strong pointers, and of threads that are   *)
(* about to have one or to undo a promotion. (An item that was lost keeps  *)
(* the count of the pointer that make did not return.)                     *)
(***************************************************************************)
CountsMatch ==
    \A i \in Item : strongcount[i] =
        Cardinality(Owners(i)) + Cardinality(Passing(i)) + (IF i \in lost THEN 1 ELSE 0)

(***************************************************************************)
(* No item is lost or in two places: it is on the stack of free items,     *)
(* which is size items long, or counted, or in the hands of one thread     *)
(* (push, pop, destroy_raw and the repair of a promotion).                 *)
(***************************************************************************)
StackExact ==
    LET used == {i \in Item : strongcount[i] > 0 \/ Handling(i) # {}}
        growing == UNION {Buffer(reg[t].buffer, lengths[reg[t].buffer]) :
                            t \in {u \in Thread : pc[u] \in {"gr_load", "gr_link", "gr_back", "gr_lock", "gr_push"}}}
    IN  /\ TypeOK
        /\ Cardinality(Free) = size
        /\ \A i \in Item : Cardinality(Handling(i)) <= 1
        /\ Free \cap (used \cup growing) = {} /\ used \cap growing = {}
        /\ ended # "destroyed" => Free \cup used \cup growing = Allocated
        /\ \A i \in Free : object[i] = None

(* the buffers that a thread has allocated and not linked yet *)
Pending == {reg[t].buffer : t \in {u \in Thread : pc[u] \in {"gr_load", "gr_link"}}}

(***************************************************************************)
(* However many threads are in alloc_more, the buffers that the destructor *)
(* of the pool finds by following item_buffer_t::next are a list without a *)
(* cycle, all of them linked by then, so that it frees none twice. Each of *)
(* the other buffers that were linked is behind one whose link another     *)
(* thread has overwritten (between the load of m_back and the stores of    *)
(* arcpool.h:232 and 233). Otherwise the destructor finds every buffer,    *)
(* and leaves none.                                                        *)
(***************************************************************************)
BuffersReachable ==
    LET linked == DOMAIN lengths \ Pending
    IN  /\ ended # "destroyed" =>
            /\ Reachable \subseteq linked
            /\ \A b, c \in Reachable : after[b] # None => after[b] # 1 /\ (after[b] = after[c] => b = c)
            /\ \A b \in linked \ (overwritten \cup {1}) : \E c \in linked : after[c] = b
            /\ overwritten = {} =>
                /\ Reachable = linked
                /\ after[back] # None => \E t \in Thread : pc[t] = "gr_back"
        /\ ended = "destroyed" /\ overwritten = {} => DOMAIN lengths = {}

(***************************************************************************)
(* A promotion fails only when the object that the weak pointer was made   *)
(* for has no owner any more.                                              *)
(***************************************************************************)
FailuresJustified ==
    [][\A t \in Thread : weak[t] # None /\ weak'[t] = None =>
        \A u \in Thread : own[u] # None => own[u].object # weak[t].object]_vars

(***************************************************************************)
(* The assertions of make: that the pool is empty after a failed pop, and  *)
(* that it has an item after it has grown.                                 *)
(***************************************************************************)
AssertionsHold == ended \notin {"not_empty", "no_item"}
=============================================================================
