-------------------------- MODULE ArcPoolInvariants --------------------------
(***************************************************************************)
(* The inductive invariant of ArcPool, in named parts.                     *)
(***************************************************************************)
EXTENDS ArcPool

MakePC == {"mk_lock", "mk_pop", "mk_empty", "gr_load", "gr_link", "gr_back", "gr_lock",
           "gr_push", "gr_assert", "mk_generation", "mk_strong", "mk_construct"}
ItemPC == {"mk_generation", "mk_strong", "mk_construct",
           "ds_destruct", "ds_generation", "ds_lock", "ds_push"}
BufferPC == {"gr_load", "gr_link", "gr_back", "gr_lock", "gr_push"}
PromotePC == {"pr_generation", "pr_exchange", "pr_check", "pr_repair"}
PassingPC == {"mk_construct", "pr_check", "pr_repair"}

Pointer == [item : Item, object : Nat]
WeakPointer == [item : Item, object : Nat, generation : Nat]

MakeRegs == [object : Nat, grown : BOOLEAN]
GrowRegs == [object : Nat, buffer : Item]
LinkRegs == [object : Nat, buffer : Item, last : Item]
PromoteRegs == [item : Item, count : Nat]
ItemRegs == [item : Item]

(* What a thread keeps in its registers. *)
Registers(label) ==
    CASE label = "idle" -> {None}
      [] label \in {"mk_lock", "mk_pop", "mk_empty"} -> MakeRegs
      [] label \in {"gr_load", "gr_back", "gr_lock", "gr_push", "gr_assert"} -> GrowRegs
      [] label = "gr_link" -> LinkRegs
      [] label \in {"mk_generation", "mk_strong", "mk_construct"} -> Pointer
      [] label \in {"pr_generation", "pr_exchange"} -> PromoteRegs
      [] label \in {"pr_check", "pr_repair", "ds_destruct", "ds_generation", "ds_lock", "ds_push"} ->
            ItemRegs

PCs == MakePC \cup ItemPC \cup PromotePC \cup {"idle"}

LocalTyped ==
    /\ pc \in [Thread -> PCs] /\ reg = [t \in Thread |-> reg[t]]
    /\ \A t \in Thread : reg[t] \in Registers(pc[t])

CountersTyped ==
    /\ generation \in [Item -> Nat] /\ strongcount \in [Item -> Nat]
    /\ object \in [Item -> Nat \cup {None}] /\ objects \in Nat /\ lost \subseteq Item

StackTyped == next \in [Item -> Item \cup {None}] /\ top \in Item \cup {None} /\ size \in Nat

ChainTyped ==
    /\ after \in [Item -> Item \cup {None}] /\ back \in Item
    /\ lengths \in [DOMAIN lengths -> Nat]

HandlesTyped ==
    /\ own \in [Thread -> Pointer \cup {None}]
    /\ weak \in [Thread -> WeakPointer \cup {None}]

Endings == {None, "not_empty", "no_item", "still_alive", "destroyed"}

Typed ==
    LocalTyped /\ CountersTyped /\ StackTyped /\ ChainTyped /\ HandlesTyped /\ ended \in Endings

(* Only an idle thread has a strong pointer, whose object is there. *)
OwnInv ==
    \A t \in Thread : own[t] # None => pc[t] = "idle" /\ object[own[t].item] = own[t].object

(* An item in the hands of a thread is in nobody else's, and unused. *)
HandInv ==
    \A t \in Thread : pc[t] \in ItemPC =>
        LET i == reg[t].item
        IN  /\ pc[t] # "ds_destruct" => object[i] = None
            /\ pc[t] # "mk_construct" => strongcount[i] = 0
            /\ i \notin lost
            /\ \A u \in Thread : pc[u] \in ItemPC /\ reg[u].item = i => u = t

Used(i) == strongcount[i] # 0 \/ \E t \in Thread : pc[t] \in ItemPC /\ reg[t].item = i

(* An object is in an item that is counted, or about to be destroyed. *)
ObjectInv ==
    /\ \A i \in Item : object[i] # None =>
        /\ object[i] \in 1 .. objects
        /\ \/ strongcount[i] # 0
           \/ \E t \in Thread : pc[t] = "ds_destruct" /\ reg[t].item = i
    /\ \A i, j \in Item : object[i] # None /\ object[i] = object[j] => i = j

(* The object that a thread is making is a new one. *)
NewInv ==
    \A t \in Thread : pc[t] \in MakePC =>
        LET o == reg[t].object
        IN  /\ o \in 1 .. objects
            /\ \A i \in Item : object[i] # o
            /\ \A u \in Thread : weak[u] # None => weak[u].object # o
            /\ \A u \in Thread : pc[u] \in MakePC /\ reg[u].object = o => u = t

(* A weak pointer whose generation is the item's points to its object,     *)
(* unless that was just destroyed; nobody can tell the two apart before    *)
(* strongcount says so.                                                    *)
WeakInv ==
    \A t \in Thread : weak[t] # None =>
        LET w == weak[t]
        IN  /\ w.generation <= generation[w.item]
            /\ w.object \in 1 .. objects
            /\ generation[w.item] = w.generation =>
                \/ object[w.item] = w.object
                \/ \E u \in Thread : pc[u] = "ds_generation" /\ reg[u].item = w.item
            /\ \A i \in Item : object[i] = w.object => i = w.item /\ generation[i] = w.generation

(* No weak pointer has the generation of an item that has a new one for    *)
(* its next object.                                                        *)
FreshInv ==
    \A t \in Thread : weak[t] # None =>
        LET w == weak[t]
        IN  /\ \A u \in Thread : pc[u] \in {"mk_strong", "mk_construct"} /\ reg[u].item = w.item =>
                  w.generation < generation[w.item]
            /\ w.item \in lost => w.generation < generation[w.item]

(* What a thread that promotes its weak pointer knows. *)
PromoteInv ==
    \A t \in Thread : pc[t] \in PromotePC =>
        LET i == reg[t].item
        IN  /\ weak[t] # None /\ weak[t].item = i
            /\ pc[t] = "pr_exchange" => reg[t].count # 0
            /\ pc[t] = "pr_generation" /\ reg[t].count = 0 /\ generation[i] = weak[t].generation =>
                  strongcount[i] = 0
            /\ pc[t] = "pr_repair" => weak[t].generation < generation[i]

(* A lost item stays without an object, and some thread will not count it  *)
(* again.                                                                  *)
LostInv ==
    \A i \in lost : object[i] = None /\ \E t \in Thread :
        ~(pc[t] \in {"pr_exchange", "pr_check", "pr_repair"} /\ reg[t].item = i)

Growers == {t \in Thread : pc[t] \in BufferPC}
GrowingItems == UNION {Buffer(reg[t].buffer, lengths[reg[t].buffer]) : t \in Growers}

(* The free items are a list without cycles, as long as size says, of      *)
(* items without objects.                                                  *)
StackInv ==
    /\ IsFiniteSet(Free) /\ Cardinality(Free) = size
    /\ \A i \in Free : ~Used(i) /\ next[i] # top
    /\ \A i, j \in Free : next[i] = next[j] /\ next[i] # None => i = j

(* The items that were allocated are those of the buffers; those that are  *)
(* not being added are on the stack or in use.                             *)
BufferInv ==
    /\ ended = "destroyed" => Growers = {}
    /\ ended # "destroyed" =>
        /\ DOMAIN lengths \subseteq Item /\ back \in DOMAIN lengths
        /\ \A b \in DOMAIN lengths : lengths[b] # 0
        /\ \E n \in 1 .. MaxItems : Allocated = 1 .. n
        /\ \A t \in Growers : reg[t].buffer \in DOMAIN lengths
        /\ \A t, u \in Growers : t # u =>
              Buffer(reg[t].buffer, lengths[reg[t].buffer]) \cap Buffer(reg[u].buffer, lengths[reg[u].buffer]) = {}
        /\ \A i \in Item : i \in Allocated \ GrowingItems <=> i \in Free \/ Used(i)

Growing(t) == pc[t] \in {"gr_load", "gr_link", "gr_back"}

(* The links between buffers are chains, whoever has stored them. Of the   *)
(* buffers that were linked, each has a link to it, but for the first one  *)
(* and those whose link was overwritten.                                   *)
LinkInv ==
    ended # "destroyed" =>
        /\ 1 \in DOMAIN lengths \ Pending /\ back \in DOMAIN lengths \ Pending
        /\ \A t \in Thread : Growing(t) =>
              /\ after[reg[t].buffer] = None /\ reg[t].buffer # back
              /\ \A u \in Thread : pc[u] = "gr_link" => reg[u].last # reg[t].buffer
        /\ \A t \in Thread : pc[t] = "gr_link" => reg[t].last \in DOMAIN lengths \ Pending
        /\ \A b \in Item : after[b] # None =>
              /\ b \in DOMAIN lengths \ Pending
              /\ after[b] \in DOMAIN lengths \ Pending /\ after[b] # 1
        /\ \A b, c \in Item : after[b] # None /\ after[b] = after[c] => b = c
        /\ \A b \in DOMAIN lengths \ (Pending \cup overwritten \cup {1}) :
              \E c \in Item : after[c] = b

(* The list of buffers, as long as no link was overwritten: it ends with   *)
(* m_back, or with the buffer that is about to be.                         *)
ListInv ==
    overwritten = {} =>
        /\ ended = "destroyed" => DOMAIN lengths = {}
        /\ ended # "destroyed" =>
              /\ \A t, u \in Thread : pc[t] = "gr_back" /\ pc[u] = "gr_back" => t = u
              /\ Reachable = DOMAIN lengths \ Pending
              /\ \A b \in DOMAIN lengths \ Pending : after[b] = None =>
                    \/ \E t \in Thread : pc[t] = "gr_back" /\ b = reg[t].buffer
                    \/ b = back /\ \A t \in Thread : pc[t] # "gr_back"
              /\ (\A t \in Thread : pc[t] # "gr_back") => after[back] = None

IInv ==
    /\ Typed /\ OwnInv /\ HandInv /\ ObjectInv /\ NewInv /\ WeakInv /\ FreshInv /\ PromoteInv
    /\ LostInv /\ CountsMatch /\ StackInv /\ BufferInv /\ LinkInv /\ ListInv
=============================================================================
