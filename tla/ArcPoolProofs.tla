--------------------------- MODULE ArcPoolProofs ---------------------------
(***************************************************************************)
(* Proofs about ArcPool: its inductive invariant and, from it, the         *)
(* properties of the pool, for any number of threads, items and objects.   *)
(***************************************************************************)
EXTENDS ArcPoolInvariants, FiniteSetTheorems, TLAPS

(* A step takes its thread to the next instruction with its registers, and *)
(* leaves the other threads where they are.                                *)
LEMMA Moves ==
  ASSUME Typed, NEW t \in Thread, NEW l \in PCs, NEW r \in Registers(l), Goto(t, l, r)
  PROVE  /\ LocalTyped' /\ pc'[t] = l /\ reg'[t] = r
         /\ \A u \in Thread : u # t => pc'[u] = pc[u] /\ reg'[u] = reg[u]
<1>1. pc' = [pc EXCEPT ![t] = l] /\ reg' = [reg EXCEPT ![t] = r]
  BY DEF Goto
<1>2. pc \in [Thread -> PCs] /\ reg = [u \in Thread |-> reg[u]] /\ \A u \in Thread : reg[u] \in Registers(pc[u])
  BY DEF Typed, LocalTyped
<1>3. pc'[t] = l /\ pc' \in [Thread -> PCs] /\ \A u \in Thread : u # t => pc'[u] = pc[u]
  BY <1>1, <1>2
<1>4. DOMAIN reg = Thread
  BY <1>2
<1>5. reg'[t] = r /\ reg' = [u \in Thread |-> reg'[u]] /\ \A u \in Thread : u # t => reg'[u] = reg[u]
  BY <1>1, <1>4
<1>6. ASSUME NEW u \in Thread PROVE reg'[u] \in Registers(pc'[u])
  <2>1. CASE u = t
    BY <1>3, <1>5, <2>1
  <2>2. CASE u # t
    <3>1. pc'[u] = pc[u] /\ reg'[u] = reg[u]
      BY <1>3, <1>5, <2>2
    <3>. QED
      BY <1>2, <3>1
  <2>. QED
    BY <2>1, <2>2
<1>. QED
  BY <1>3, <1>5, <1>6 DEF LocalTyped

(* The contents of the registers, by label. *)
LEMMA Contents ==
  ASSUME Typed, NEW t \in Thread
  PROVE  /\ pc[t] \in {"mk_lock", "mk_pop", "mk_empty"} => reg[t] \in MakeRegs
         /\ pc[t] \in {"gr_load", "gr_back", "gr_lock", "gr_push", "gr_assert"} => reg[t] \in GrowRegs
         /\ pc[t] = "gr_link" => reg[t] \in LinkRegs
         /\ pc[t] \in {"mk_generation", "mk_strong", "mk_construct"} => reg[t] \in Pointer
         /\ pc[t] \in {"pr_generation", "pr_exchange"} => reg[t] \in PromoteRegs
         /\ pc[t] \in {"pr_check", "pr_repair", "ds_destruct", "ds_generation", "ds_lock", "ds_push"} =>
              reg[t] \in ItemRegs
         /\ pc[t] \in MakePC => reg[t].object \in Nat
         /\ pc[t] \in ItemPC => reg[t].item \in Item
         /\ pc[t] \in PromotePC => reg[t].item \in Item
         /\ pc[t] \in BufferPC => reg[t].buffer \in Item
<1>1. reg[t] \in Registers(pc[t])
  BY DEF Typed, LocalTyped
<1>2. /\ pc[t] \in {"mk_lock", "mk_pop", "mk_empty"} => reg[t] \in MakeRegs
      /\ pc[t] \in {"gr_load", "gr_back", "gr_lock", "gr_push", "gr_assert"} => reg[t] \in GrowRegs
      /\ pc[t] = "gr_link" => reg[t] \in LinkRegs
      /\ pc[t] \in {"mk_generation", "mk_strong", "mk_construct"} => reg[t] \in Pointer
      /\ pc[t] \in {"pr_generation", "pr_exchange"} => reg[t] \in PromoteRegs
      /\ pc[t] \in {"pr_check", "pr_repair", "ds_destruct", "ds_generation", "ds_lock", "ds_push"} =>
           reg[t] \in ItemRegs
  BY <1>1 DEF Registers
<1>3. /\ reg[t] \in MakeRegs => reg[t].object \in Nat
      /\ reg[t] \in GrowRegs => reg[t].object \in Nat /\ reg[t].buffer \in Item
      /\ reg[t] \in LinkRegs => reg[t].object \in Nat /\ reg[t].buffer \in Item
      /\ reg[t] \in Pointer => reg[t].object \in Nat /\ reg[t].item \in Item
      /\ reg[t] \in PromoteRegs => reg[t].item \in Item
      /\ reg[t] \in ItemRegs => reg[t].item \in Item
  BY DEF MakeRegs, GrowRegs, LinkRegs, PromoteRegs, ItemRegs, Pointer
<1>4. pc[t] \in MakePC => reg[t].object \in Nat
  BY <1>2, <1>3 DEF MakePC
<1>5. pc[t] \in ItemPC => reg[t].item \in Item
  BY <1>2, <1>3 DEF ItemPC
<1>6. pc[t] \in PromotePC => reg[t].item \in Item
  BY <1>2, <1>3 DEF PromotePC
<1>7. pc[t] \in BufferPC => reg[t].buffer \in Item
  BY <1>2, <1>3 DEF BufferPC
<1>. QED
  BY <1>2, <1>4, <1>5, <1>6, <1>7

-----------------------------------------------------------------------------
(* Lists of items: the stack and the buffers.                              *)

(* A list is closed under its successor. *)
LEMMA OnListFacts ==
  ASSUME NEW first \in Item \cup {None}, NEW succ \in [Item -> Item \cup {None}]
  PROVE  /\ OnList(first, succ) \subseteq Item
         /\ first # None => first \in OnList(first, succ)
         /\ \A i \in OnList(first, succ) : succ[i] # None => succ[i] \in OnList(first, succ)
  BY DEF OnList

(* Nothing follows from None. *)
LEMMA EmptyList ==
  ASSUME NEW succ \in [Item -> Item \cup {None}]
  PROVE  OnList(None, succ) = {}
<1>1. None \in Item \cup {None} /\ {} \in SUBSET Item
  OBVIOUS
<1>. QED
  BY <1>1 DEF OnList

(* Taking the first item of a list. *)
LEMMA ListWithoutFirst ==
  ASSUME NEW first \in Item, NEW succ \in [Item -> Item \cup {None}],
         \A i \in OnList(first, succ) : succ[i] # first
  PROVE  OnList(succ[first], succ) = OnList(first, succ) \ {first}
<1>. DEFINE L == OnList(first, succ)
            M == OnList(succ[first], succ)
<1>1. /\ L \subseteq Item /\ first \in L
      /\ \A i \in L : succ[i] # None => succ[i] \in L
  BY PoolAssumption, OnListFacts DEF Item
<1>2. /\ M \subseteq Item /\ (succ[first] # None => succ[first] \in M)
      /\ \A i \in M : succ[i] # None => succ[i] \in M
  BY OnListFacts
<1>3. M \subseteq L \ {first}
  <2>1. /\ succ[first] # None => succ[first] \in L \ {first}
        /\ \A i \in L \ {first} : succ[i] # None => succ[i] \in L \ {first}
    BY <1>1
  <2>2. L \ {first} \in SUBSET Item /\ succ[first] \in Item \cup {None}
    BY <1>1
  <2>. QED
    BY <2>1, <2>2 DEF OnList
<1>4. L \subseteq M \cup {first}
  <2>1. M \cup {first} \in SUBSET Item /\ first \in Item \cup {None}
    BY <1>2
  <2>2. \A i \in M \cup {first} : succ[i] # None => succ[i] \in M \cup {first}
    BY <1>2
  <2>. QED
    BY <2>1, <2>2 DEF OnList
<1>. QED
  BY <1>3, <1>4

(* A set with item a that has, with an item below b, the next one, has all *)
(* from a to b: if b were not in it, adding 1 would map the finite set of  *)
(* its items from a to b into itself, one to one and hence onto, and a     *)
(* would have a predecessor there.                                         *)
LEMMA ItemInduction ==
  ASSUME NEW a \in Int, NEW b \in Int, NEW S, a \in S,
         \A x \in S : x \in a .. b - 1 => x + 1 \in S
  PROVE  a .. b \subseteq S
<1>. SUFFICES ASSUME NEW y \in a .. b, y \notin S PROVE FALSE
  OBVIOUS
<1>. DEFINE A == (a .. y) \cap S
            f == [x \in A |-> x + 1]
<1>1. a \in A /\ A \subseteq a .. y - 1
  OBVIOUS
<1>2. \A x \in A : x + 1 \in A
  BY <1>1
<1>3. IsFiniteSet(A)
  <2>1. IsFiniteSet(a .. y)
    BY FS_Interval
  <2>. QED
    BY <2>1, FS_Subset
<1>4. f \in Injection(A, A)
  BY <1>2 DEF Injection, IsInjective
<1>5. f \in Surjection(A, A)
  BY <1>3, <1>4, FS_Injection
<1>6. PICK x \in A : f[x] = a
  BY <1>1, <1>5 DEF Surjection
<1>. QED
  BY <1>6

(* Adding consecutive items in front of a list. *)
LEMMA ListExtended ==
  ASSUME NEW first \in Item, NEW last \in Item, first <= last,
         NEW top0 \in Item \cup {None}, NEW succ \in [Item -> Item \cup {None}],
         NEW succ2 \in [Item -> Item \cup {None}],
         first .. last \cap OnList(top0, succ) = {},
         succ2[last] = top0, \A i \in first .. last : i # last => succ2[i] = i + 1,
         \A i \in OnList(top0, succ) : succ2[i] = succ[i]
  PROVE  OnList(first, succ2) = OnList(top0, succ) \cup first .. last
<1>. DEFINE L == OnList(top0, succ)
            M == OnList(first, succ2)
<1>1. /\ L \subseteq Item /\ (top0 # None => top0 \in L)
      /\ \A i \in L : succ[i] # None => succ[i] \in L
  BY OnListFacts
<1>2. /\ M \subseteq Item /\ first \in M
      /\ \A i \in M : succ2[i] # None => succ2[i] \in M
  BY PoolAssumption, OnListFacts DEF Item
<1>3. first .. last \subseteq Item /\ None \notin Item
  BY PoolAssumption DEF Item
<1>4. M \subseteq L \cup first .. last
  <2>1. L \cup first .. last \in SUBSET Item /\ first \in L \cup first .. last /\ first \in Item \cup {None}
    BY <1>1, <1>3 DEF Item
  <2>2. \A i \in L \cup first .. last : succ2[i] # None => succ2[i] \in L \cup first .. last
    BY <1>1 DEF Item
  <2>. HIDE DEF L
  <2>. QED
    BY <2>1, <2>2 DEF OnList
<1>5. first .. last \subseteq M
  <2>1. \A i \in M : i \in first .. last - 1 => i + 1 \in M
    BY <1>2, <1>3 DEF Item
  <2>2. first \in Int /\ last \in Int
    BY DEF Item
  <2>. HIDE DEF M
  <2>. QED
    BY <1>2, <2>1, <2>2, ItemInduction
<1>6. L \subseteq M
  <2>1. top0 # None => top0 \in M \cap L
    BY <1>1, <1>2, <1>5 DEF Item
  <2>2. \A i \in M \cap L : succ[i] # None => succ[i] \in M \cap L
    BY <1>1, <1>2
  <2>3. M \cap L \in SUBSET Item
    BY <1>1
  <2>4. L \subseteq M \cap L
    BY <2>1, <2>2, <2>3 DEF OnList
  <2>. QED
    BY <2>4
<1>. QED
  BY <1>4, <1>5, <1>6

(* Pushing one item. *)
LEMMA ListPushed ==
  ASSUME NEW item \in Item, NEW top0 \in Item \cup {None}, NEW succ \in [Item -> Item \cup {None}],
         item \notin OnList(top0, succ)
  PROVE  OnList(item, [succ EXCEPT ![item] = top0]) = OnList(top0, succ) \cup {item}
<1>. DEFINE succ2 == [succ EXCEPT ![item] = top0]
<1>1. PICK last \in Item : last = item
  OBVIOUS
<1>2. item .. last = {item} /\ item <= last
  BY <1>1 DEF Item
<1>3. /\ succ2 \in [Item -> Item \cup {None}] /\ succ2[last] = top0
      /\ \A i \in OnList(top0, succ) : succ2[i] = succ[i]
  BY <1>1, OnListFacts
<1>. HIDE DEF succ2
<1>4. \A i \in item .. last : i # last => succ2[i] = i + 1
  BY <1>1, <1>2
<1>5. item .. last \cap OnList(top0, succ) = {}
  BY <1>2
<1>6. item <= last /\ item \in Item /\ last \in Item /\ top0 \in Item \cup {None} /\ succ \in [Item -> Item \cup {None}]
  BY <1>1, <1>2
<1>7. OnList(item, succ2) = OnList(top0, succ) \cup item .. last
  BY ONLY <1>3, <1>4, <1>5, <1>6, ListExtended
<1>. QED
  BY <1>2, <1>7 DEF succ2

(* Adding an item at the end of a list. *)
LEMMA ListAppended ==
  ASSUME NEW first \in Item, NEW succ \in [Item -> Item \cup {None}], NEW succ2 \in [Item -> Item \cup {None}],
         NEW last \in Item, last \in OnList(first, succ), succ[last] = None,
         NEW item \in Item, item \notin OnList(first, succ), succ[item] = None, succ2[last] = item,
         \A i \in Item : i # last => succ2[i] = succ[i]
  PROVE  OnList(first, succ2) = OnList(first, succ) \cup {item}
<1>. DEFINE L == OnList(first, succ)
            M == OnList(first, succ2)
<1>1. None \notin Item /\ first \in Item \cup {None}
  BY PoolAssumption DEF Item
<1>2. /\ L \subseteq Item /\ first \in L
      /\ \A i \in L : succ[i] # None => succ[i] \in L
  BY <1>1, OnListFacts
<1>3. last \in Item /\ succ2 \in [Item -> Item \cup {None}]
  BY <1>2
<1>4. succ2[last] = item /\ \A i \in Item : i # last => succ2[i] = succ[i]
  OBVIOUS
<1>5. /\ M \subseteq Item /\ first \in M
      /\ \A i \in M : succ2[i] # None => succ2[i] \in M
  BY <1>1, <1>3, OnListFacts
<1>6. M \subseteq L \cup {item}
  <2>1. L \cup {item} \in SUBSET Item /\ first \in L \cup {item}
    BY <1>2
  <2>2. \A i \in L \cup {item} : succ2[i] # None => succ2[i] \in L \cup {item}
    BY <1>2, <1>4
  <2>. HIDE DEF L
  <2>. QED
    BY <2>1, <2>2 DEF OnList
<1>7. L \subseteq M
  <2>1. first \in M \cap L /\ M \cap L \in SUBSET Item
    BY <1>2, <1>5
  <2>2. \A i \in M \cap L : succ[i] # None => succ[i] \in M \cap L
    BY <1>2, <1>4, <1>5
  <2>3. L \subseteq M \cap L
    BY <2>1, <2>2 DEF OnList
  <2>. QED
    BY <2>3
<1>8. item \in M
  BY <1>1, <1>4, <1>5, <1>7
<1>. QED
  BY <1>6, <1>7, <1>8

-----------------------------------------------------------------------------
(* Counts of an item.                                                      *)

(* Who counts an item keeps its count above 0, and alone at 1. *)
LEMMA CountFacts ==
  ASSUME CountsMatch, NEW i \in Item
  PROVE  /\ IsFiniteSet(Owners(i)) /\ IsFiniteSet(Passing(i))
         /\ Cardinality(Owners(i)) \in Nat /\ Cardinality(Passing(i)) \in Nat
         /\ \A t \in Owners(i) \cup Passing(i) : strongcount[i] # 0
         /\ i \in lost => strongcount[i] # 0
         /\ strongcount[i] = 1 =>
              /\ i \in lost => Owners(i) \cup Passing(i) = {}
              /\ \A t, u \in Owners(i) \cup Passing(i) : t = u
<1>1. IsFiniteSet(Owners(i)) /\ IsFiniteSet(Passing(i))
  BY PoolAssumption, FS_Subset DEF Owners, Passing
<1>2. /\ Cardinality(Owners(i)) \in Nat /\ Cardinality(Passing(i)) \in Nat
      /\ Cardinality(Owners(i)) = 0 <=> Owners(i) = {}
      /\ Cardinality(Passing(i)) = 0 <=> Passing(i) = {}
  BY <1>1, FS_CardinalityType, FS_EmptySet
<1>3. strongcount[i] = Cardinality(Owners(i)) + Cardinality(Passing(i)) + (IF i \in lost THEN 1 ELSE 0)
  BY DEF CountsMatch
<1>4. Cardinality(Owners(i)) = 1 => \A t, u \in Owners(i) : t = u
  BY <1>1, FS_Singleton
<1>5. Cardinality(Passing(i)) = 1 => \A t, u \in Passing(i) : t = u
  BY <1>1, FS_Singleton
<1>6. ASSUME strongcount[i] = 1 PROVE \A t, u \in Owners(i) \cup Passing(i) : t = u
  BY <1>2, <1>3, <1>4, <1>5, <1>6
<1>. QED
  BY <1>1, <1>2, <1>3, <1>6

(* The counts of the other items stay as they are, and that of an item     *)
(* changes by the owners and the threads in passing that it gains or loses. *)
LEMMA CountsStep ==
  ASSUME CountsMatch, strongcount \in [Item -> Nat], NEW item \in Item, NEW c \in Nat,
         strongcount' = [strongcount EXCEPT ![item] = c],
         \A i \in Item : i # item => Owners(i)' = Owners(i) /\ Passing(i)' = Passing(i) /\ (i \in lost' <=> i \in lost),
         c = Cardinality(Owners(item)') + Cardinality(Passing(item)') + (IF item \in lost' THEN 1 ELSE 0)
  PROVE  CountsMatch'
  BY DEF CountsMatch

-----------------------------------------------------------------------------
(* What a step leaves alone. *)

LEMMA StackFrame ==
  ASSUME StackInv, UNCHANGED <<next, top, size>>, \A i \in Item : Used(i)' <=> Used(i)
  PROVE  StackInv'
<1>1. Free' = Free /\ Free \subseteq Item
  BY DEF Free, OnList
<1>. QED
  BY <1>1 DEF StackInv

LEMMA BufferFrame ==
  ASSUME BufferInv, UNCHANGED lengths, back' = back \/ back' \in DOMAIN lengths,
         ended' = "destroyed" <=> ended = "destroyed",
         \A i \in Item : i \in Free' \/ Used(i)' <=> i \in Free \/ Used(i),
         Growers' = Growers, \A u \in Growers : reg'[u].buffer = reg[u].buffer
  PROVE  BufferInv'
<1>1. Allocated' = Allocated
  BY DEF Allocated
<1>2. GrowingItems' = GrowingItems
  BY DEF GrowingItems
<1>. QED
  BY <1>1, <1>2 DEF BufferInv

LEMMA ListFrame ==
  ASSUME LinkInv, ListInv, UNCHANGED <<lengths, after, back, overwritten>>,
         ended' = "destroyed" <=> ended = "destroyed",
         \A u \in Thread : /\ pc'[u] = "gr_load" <=> pc[u] = "gr_load"
                           /\ pc'[u] = "gr_link" <=> pc[u] = "gr_link"
                           /\ pc'[u] = "gr_back" <=> pc[u] = "gr_back"
                           /\ Growing(u) => reg'[u] = reg[u]
  PROVE  LinkInv' /\ ListInv'
<1>1. Reachable' = Reachable
  BY DEF Reachable
<1>2. \A u \in Thread : Growing(u)' <=> Growing(u)
  BY DEF Growing
<1>3. Pending' = Pending
  BY DEF Pending, Growing
<1>4. LinkInv'
  BY <1>2, <1>3 DEF LinkInv, Growing
<1>5. ListInv'
  BY <1>1, <1>3 DEF ListInv, Growing
<1>. QED
  BY <1>4, <1>5

(* Steps that neither push or pop an item nor add a buffer. *)
LEMMA ItemStep ==
  ASSUME StackInv, BufferInv, LinkInv, ListInv, UNCHANGED <<next, top, size, lengths, after, back, overwritten,
                                                      ended>>,
         \A i \in Item : Used(i)' <=> Used(i),
         NEW t \in Thread, \A u \in Thread : u # t => pc'[u] = pc[u] /\ reg'[u] = reg[u],
         pc[t] \notin BufferPC, pc'[t] \notin BufferPC
  PROVE  StackInv' /\ BufferInv' /\ LinkInv' /\ ListInv'
<1>1. StackInv'
  BY StackFrame
<1>2. BufferInv'
  <2>1. Growers' = Growers /\ (\A u \in Growers : reg'[u] = reg[u]) /\ Free' = Free
    BY DEF Growers, Free
  <2>. QED
    BY <2>1, BufferFrame
<1>3. LinkInv' /\ ListInv'
  <2>1. \A u \in Thread :
            /\ pc'[u] = "gr_load" <=> pc[u] = "gr_load"
            /\ pc'[u] = "gr_link" <=> pc[u] = "gr_link"
            /\ pc'[u] = "gr_back" <=> pc[u] = "gr_back"
            /\ Growing(u) => reg'[u] = reg[u]
    BY DEF Growing, BufferPC
  <2>. QED
    BY <2>1, ListFrame
<1>. QED
  BY <1>1, <1>2, <1>3

(* Steps that only take a thread from one label to another, without it taking
   up or putting down an item, a buffer or a promotion. *)
LEMMA QuietInv ==
  ASSUME IInv, NEW t \in Thread, NEW l, NEW r, Goto(t, l, r), ended = None,
         UNCHANGED <<generation, strongcount, object, objects, lost, next, top, size, lengths, after,
                     back, overwritten, own, weak, ended>>,
         \/ /\ pc[t] \in {"mk_lock", "mk_pop", "mk_empty", "gr_assert"}
            /\ l \in {"mk_lock", "mk_pop", "mk_empty"} /\ r \in MakeRegs /\ r.object = reg[t].object
         \/ pc[t] = "mk_empty" /\ l = "idle" /\ r = None
         \/ pc[t] = "gr_lock" /\ l = "gr_push" /\ r = reg[t]
         \/ pc[t] = "ds_lock" /\ l = "ds_push" /\ r = reg[t]
  PROVE  IInv'
<1>1. /\ Typed /\ OwnInv /\ HandInv /\ ObjectInv /\ NewInv /\ WeakInv /\ FreshInv /\ PromoteInv
      /\ LostInv /\ CountsMatch /\ StackInv /\ BufferInv /\ LinkInv /\ ListInv
  BY DEF IInv
<1>2. l \in PCs /\ r \in Registers(l)
  BY <1>1, Contents DEF PCs, MakePC, ItemPC, Registers
<1>3. /\ pc'[t] = l /\ reg'[t] = r /\ LocalTyped'
      /\ \A u \in Thread : u # t => pc'[u] = pc[u] /\ reg'[u] = reg[u]
  BY <1>1, <1>2, Moves
<1>4. Typed'
  <2>1. CountersTyped'
    BY <1>1, <1>3 DEF Typed, CountersTyped
  <2>2. StackTyped' /\ ChainTyped' /\ HandlesTyped'
    BY <1>1, <1>3 DEF Typed, StackTyped, ChainTyped, HandlesTyped
  <2>. QED
    BY <1>1, <1>3, <2>1, <2>2 DEF Typed
<1>5. OwnInv'
  BY <1>1, <1>3 DEF OwnInv
<1>6. HandInv'
  BY <1>1, <1>3 DEF HandInv, ItemPC
<1>7. ObjectInv'
  BY <1>1, <1>3 DEF ObjectInv
<1>8. NewInv'
  BY <1>1, <1>3 DEF NewInv, MakePC
<1>9. WeakInv'
  BY <1>1, <1>3 DEF WeakInv
<1>10. FreshInv'
  BY <1>1, <1>3 DEF FreshInv
<1>11. PromoteInv'
  BY <1>1, <1>3 DEF PromoteInv, PromotePC
<1>12. LostInv'
  BY <1>1, <1>3 DEF LostInv
<1>13. CountsMatch'
  <2>1. \A i : Owners(i)' = Owners(i) /\ Passing(i)' = Passing(i)
    BY <1>1, <1>3 DEF Owners, Passing
  <2>. QED
    BY <1>1, <1>3, <2>1 DEF CountsMatch
<1>14. StackInv'
  <2>1. \A i \in Item : Used(i)' <=> Used(i)
    BY <1>1, <1>3 DEF Used, ItemPC
  <2>. QED
    BY <1>1, <1>3, <2>1, StackFrame
<1>15. BufferInv'
  <2>1. \A i \in Item : Used(i)' <=> Used(i)
    BY <1>1, <1>3 DEF Used, ItemPC
  <2>2. Growers' = Growers /\ (\A u \in Growers : reg'[u] = reg[u]) /\ Free' = Free
    BY <1>1, <1>3 DEF Growers, BufferPC, Free
  <2>. QED
    BY <1>1, <1>3, <2>1, <2>2, BufferFrame
<1>16. LinkInv' /\ ListInv'
  BY <1>1, <1>3, ListFrame DEF Growing
<1>. QED
  BY <1>4, <1>5, <1>6, <1>7, <1>8, <1>9, <1>10, <1>11, <1>12, <1>13, <1>14, <1>15, <1>16 DEF IInv

-----------------------------------------------------------------------------
(* One lemma per action. *)

(* The lock is taken for the first pop. *)
LEMMA MakeLockInv == ASSUME IInv, NEW t \in Thread, MakeLock(t) PROVE IInv'
<1>1. pc[t] = "mk_lock" /\ Goto(t, "mk_pop", reg[t]) /\ ended = None
      /\ UNCHANGED <<generation, strongcount, object, objects, lost, next, top, size, lengths, after,
                     back, overwritten, own, weak, ended>>
  BY DEF MakeLock, Lock, At, counters, stack, chain, handles
<1>2. reg[t] \in MakeRegs
  BY <1>1, Contents DEF IInv
<1>. QED
  BY <1>1, <1>2, QuietInv

(* The stack is empty. *)
LEMMA MakePopNothingInv == ASSUME IInv, NEW t \in Thread, MakePopNothing(t) PROVE IInv'
<1>1. pc[t] = "mk_pop" /\ Goto(t, "mk_empty", reg[t]) /\ ended = None
      /\ UNCHANGED <<generation, strongcount, object, objects, lost, next, top, size, lengths, after,
                     back, overwritten, own, weak, ended>>
  BY DEF MakePopNothing, Unlock, At, counters, stack, chain, handles
<1>2. reg[t] \in MakeRegs
  BY <1>1, Contents DEF IInv
<1>. QED
  BY <1>1, <1>2, QuietInv

(* The pool does not grow. *)
LEMMA MakeOutOfMemoryInv == ASSUME IInv, NEW t \in Thread, MakeOutOfMemory(t) PROVE IInv'
<1>1. pc[t] = "mk_empty" /\ Goto(t, "idle", None) /\ ended = None
      /\ UNCHANGED <<generation, strongcount, object, objects, lost, next, top, size, lengths, after,
                     back, overwritten, own, weak, ended>>
  BY DEF MakeOutOfMemory, Return, At, counters, stack, chain, handles
<1>. QED
  BY <1>1, QuietInv

(* The lock is taken to push a buffer or an item. *)
LEMMA LocksInv ==
  ASSUME IInv, NEW t \in Thread, GrowLock(t) \/ DestroyLock(t)
  PROVE  IInv'
<1>1. CASE GrowLock(t)
  <2>1. pc[t] = "gr_lock" /\ Goto(t, "gr_push", reg[t]) /\ ended = None
        /\ UNCHANGED <<generation, strongcount, object, objects, lost, next, top, size, lengths, after,
                       back, overwritten, own, weak, ended>>
    BY <1>1 DEF GrowLock, Lock, At, counters, stack, chain, handles
  <2>. QED
    BY <2>1, QuietInv
<1>2. CASE DestroyLock(t)
  <2>1. pc[t] = "ds_lock" /\ Goto(t, "ds_push", reg[t]) /\ ended = None
        /\ UNCHANGED <<generation, strongcount, object, objects, lost, next, top, size, lengths, after,
                       back, overwritten, own, weak, ended>>
    BY <1>2 DEF DestroyLock, Lock, At, counters, stack, chain, handles
  <2>. QED
    BY <2>1, QuietInv
<1>. QED
  BY <1>1, <1>2

(* Steps that change nothing, but may end the program. *)
LEMMA FrameInv ==
  ASSUME IInv, UNCHANGED <<counters, stack, chain, handles, pc, reg>>,
         ended' \in Endings, ended' = "destroyed" <=> ended = "destroyed"
  PROVE  IInv'
<1>1. /\ Typed /\ OwnInv /\ HandInv /\ ObjectInv /\ NewInv /\ WeakInv /\ FreshInv /\ PromoteInv
      /\ LostInv /\ CountsMatch /\ StackInv /\ BufferInv /\ LinkInv /\ ListInv
  BY DEF IInv
<1>2. UNCHANGED <<generation, strongcount, object, objects, lost, next, top, size, lengths, after, back, overwritten, own,
                  weak, pc, reg>> /\ ended' \in Endings /\ (ended' = "destroyed" <=> ended = "destroyed")
  BY DEF counters, stack, chain, handles
<1>3. Typed' /\ OwnInv' /\ HandInv'
  BY <1>1, <1>2 DEF Typed, LocalTyped, CountersTyped, StackTyped, ChainTyped, HandlesTyped, OwnInv, HandInv
<1>4. ObjectInv' /\ NewInv' /\ WeakInv' /\ FreshInv' /\ PromoteInv' /\ LostInv'
  BY <1>1, <1>2 DEF ObjectInv, NewInv, WeakInv, FreshInv, PromoteInv, LostInv
<1>5. CountsMatch'
  <2>1. \A i : Owners(i)' = Owners(i) /\ Passing(i)' = Passing(i)
    BY <1>2 DEF Owners, Passing
  <2>. QED
    BY <1>1, <1>2, <2>1 DEF CountsMatch
<1>6. \A i : Used(i)' <=> Used(i)
  BY <1>2 DEF Used
<1>7. StackInv'
  BY <1>1, <1>2, <1>6, StackFrame
<1>8. BufferInv'
  <2>1. Growers' = Growers /\ Free' = Free
    BY <1>2 DEF Growers, Free
  <2>. QED
    BY <1>1, <1>2, <1>6, <2>1, BufferFrame
<1>9. LinkInv' /\ ListInv'
  BY <1>1, <1>2, ListFrame
<1>. QED
  BY <1>3, <1>4, <1>5, <1>7, <1>8, <1>9 DEF IInv

LEMMA StutterInv == ASSUME IInv, UNCHANGED vars PROVE IInv'
  BY FrameInv DEF IInv, Typed, vars

(* The program ends at an assertion. *)
LEMMA EndsInv ==
  ASSUME IInv, ended = None, NEW assertion \in Endings, assertion # "destroyed", Ends(assertion)
  PROVE  IInv'
  BY FrameInv, PoolAssumption DEF Ends

(* The assertions that the pool is empty, or not any more. *)
LEMMA MakeEmptyFailsInv == ASSUME IInv, NEW t \in Thread, MakeEmptyFails(t) PROVE IInv'
<1>1. CASE reg[t].grown
  BY <1>1, EndsInv DEF MakeEmptyFails, At, Endings
<1>2. CASE ~reg[t].grown
  BY <1>2, EndsInv DEF MakeEmptyFails, At, Endings
<1>. QED
  BY <1>1, <1>2

(* The assertion after the pool has grown. *)
LEMMA GrowAssertInv == ASSUME IInv, NEW t \in Thread, GrowAssert(t) PROVE IInv'
<1>1. CASE size = 0
  BY <1>1, EndsInv DEF GrowAssert, At, Endings
<1>2. CASE size # 0
  <2>. DEFINE r == [object |-> reg[t].object, grown |-> TRUE]
  <2>1. pc[t] = "gr_assert" /\ Goto(t, "mk_lock", r) /\ ended = None
        /\ UNCHANGED <<generation, strongcount, object, objects, lost, next, top, size, lengths, after,
                       back, overwritten, own, weak, ended>>
    BY <1>2 DEF GrowAssert, At, counters, stack, chain, handles
  <2>2. r \in MakeRegs /\ r.object = reg[t].object
    BY <2>1, Contents DEF IInv, MakeRegs, MakePC
  <2>. QED
    BY <2>1, <2>2, QuietInv
<1>. QED
  BY <1>1, <1>2

(* A new object: nobody has or remembers it. *)
LEMMA CallMakeInv ==
  ASSUME IInv, NEW t \in Thread, CallMake(t)
  PROVE  IInv'
<1>1. /\ Typed /\ OwnInv /\ HandInv /\ ObjectInv /\ NewInv /\ WeakInv /\ FreshInv /\ PromoteInv
      /\ LostInv /\ CountsMatch /\ StackInv /\ BufferInv /\ LinkInv /\ ListInv
  BY DEF IInv
<1>. DEFINE o == objects + 1
            r == [object |-> o, grown |-> FALSE]
<1>2. /\ pc[t] = "idle" /\ own[t] = None /\ objects' = o /\ Goto(t, "mk_lock", r) /\ ended = None
      /\ UNCHANGED <<generation, strongcount, object, lost, next, top, size, lengths, after, back, overwritten, own,
                     weak, ended>>
  BY DEF CallMake, Idle, At, counters, stack, chain, handles
<1>3. "mk_lock" \in PCs /\ r \in Registers("mk_lock")
  BY <1>1, <1>2, Contents DEF PCs, MakePC, ItemPC, PromotePC, Registers, MakeRegs, CountersTyped, Typed
<1>4. /\ pc'[t] = "mk_lock" /\ reg'[t] = r /\ LocalTyped'
      /\ \A u \in Thread : u # t => pc'[u] = pc[u] /\ reg'[u] = reg[u]
  BY <1>1, <1>2, <1>3, Moves
<1>5. r.object = o /\ objects \in Nat
  BY <1>1 DEF Typed, CountersTyped
<1>. HIDE DEF r
<1>6. Typed'
  <2>1. CountersTyped'
    BY <1>1, <1>2, <1>4, <1>5 DEF Typed, CountersTyped
  <2>2. StackTyped' /\ ChainTyped' /\ HandlesTyped'
    BY <1>1, <1>2, <1>4, <1>5 DEF Typed, StackTyped, ChainTyped, HandlesTyped
  <2>. QED
    BY <1>1, <1>2, <1>4, <1>5, <2>1, <2>2 DEF Typed
<1>7. OwnInv'
  BY <1>1, <1>2, <1>4, <1>5 DEF OwnInv
<1>8. HandInv'
  BY <1>1, <1>2, <1>4, <1>5 DEF HandInv, ItemPC
<1>9. ObjectInv'
  BY <1>1, <1>2, <1>4, <1>5 DEF ObjectInv
<1>10. NewInv'
  <2>1. \A i \in Item : object[i] # o
    BY <1>1, <1>5, PoolAssumption DEF ObjectInv
  <2>2. \A u \in Thread : weak[u] # None => weak[u].object # o
    BY <1>1, <1>5 DEF WeakInv
  <2>3. \A u \in Thread : pc[u] \in MakePC => reg[u].object # o /\ reg[u].object \in 1 .. objects
    BY <1>1, <1>5 DEF NewInv
  <2>4. o \in 1 .. objects' /\ 1 .. objects \subseteq 1 .. objects'
    BY <1>2, <1>5
  <2>. QED
    BY <1>1, <1>2, <1>4, <1>5, <2>1, <2>2, <2>3, <2>4 DEF NewInv, MakePC
<1>11. WeakInv'
  BY <1>1, <1>2, <1>4, <1>5 DEF WeakInv
<1>12. FreshInv'
  BY <1>1, <1>2, <1>4, <1>5 DEF FreshInv
<1>13. PromoteInv'
  BY <1>1, <1>2, <1>4, <1>5 DEF PromoteInv, PromotePC
<1>14. LostInv'
  BY <1>1, <1>2, <1>4, <1>5 DEF LostInv
<1>15. CountsMatch'
  <2>1. \A i : Owners(i)' = Owners(i) /\ Passing(i)' = Passing(i)
    BY <1>1, <1>2, <1>4, <1>5 DEF Owners, Passing
  <2>. QED
    BY <1>1, <1>2, <1>4, <1>5, <2>1 DEF CountsMatch
<1>16. StackInv' /\ BufferInv' /\ LinkInv' /\ ListInv'
  <2>1. \A i \in Item : Used(i)' <=> Used(i)
    BY <1>1, <1>2, <1>4, <1>5 DEF Used, ItemPC
  <2>2. pc[t] \notin BufferPC /\ pc'[t] \notin BufferPC
    BY <1>1, <1>2, <1>4, <1>5 DEF BufferPC
  <2>. QED
    BY <1>1, <1>2, <1>4, <1>5, <2>1, <2>2, ItemStep
<1>. QED
  BY <1>6, <1>7, <1>8, <1>9, <1>10, <1>11, <1>12, <1>13, <1>14, <1>15, <1>16 DEF IInv

(* The top of the stack is unused, and nobody else has it in hand. *)
LEMMA MakePopInv ==
  ASSUME IInv, NEW t \in Thread, MakePop(t)
  PROVE  IInv'
<1>1. /\ Typed /\ OwnInv /\ HandInv /\ ObjectInv /\ NewInv /\ WeakInv /\ FreshInv /\ PromoteInv
      /\ LostInv /\ CountsMatch /\ StackInv /\ BufferInv /\ LinkInv /\ ListInv
  BY DEF IInv
<1>. DEFINE r == [object |-> reg[t].object, item |-> top]
<1>2. /\ pc[t] = "mk_pop" /\ Goto(t, "mk_generation", r) /\ ended = None /\ size > 0 /\ size' = size - 1
      /\ top' = next[top] /\ UNCHANGED <<generation, strongcount, object, objects, lost, next, lengths,
                                         after, back, overwritten, own, weak, ended>>
  BY DEF MakePop, Pop, Unlock, At, counters, stack, chain, handles
<1>3. top \in Free /\ top \in Item
  <2>1. top # None
    <3>1. Cardinality(Free) # 0
      BY <1>1, <1>2 DEF StackInv
    <3>. QED
      BY <1>1, <3>1, EmptyList, FS_EmptySet DEF Free, Typed, StackTyped
  <2>. QED
    BY <1>1, <2>1, OnListFacts DEF Free, Typed, StackTyped
<1>4. "mk_generation" \in PCs /\ r \in Registers("mk_generation") /\ r.object = reg[t].object /\ r.item = top
  BY <1>1, <1>2, <1>3, Contents DEF PCs, MakePC, Registers, Pointer
<1>. HIDE DEF r
<1>5. /\ pc'[t] = "mk_generation" /\ reg'[t] = r /\ LocalTyped'
      /\ \A u \in Thread : u # t => pc'[u] = pc[u] /\ reg'[u] = reg[u]
  BY <1>1, <1>2, <1>4, Moves
<1>6. Free' = Free \ {top}
  <2>1. \A i \in Free : next[i] # top
    BY <1>1 DEF StackInv
  <2>. QED
    BY <1>1, <1>2, <1>3, <2>1, ListWithoutFirst DEF Free, Typed, StackTyped
<1>7. ~Used(top)
  BY <1>1, <1>3 DEF StackInv
<1>8. strongcount[top] = 0 /\ object[top] = None /\ top \notin lost
      /\ \A u \in Thread : pc[u] \in ItemPC => reg[u].item # top
  <2>1. strongcount[top] = 0 /\ \A u \in Thread : pc[u] \in ItemPC => reg[u].item # top
    BY <1>7 DEF Used
  <2>. QED
    BY <1>1, <1>3, <2>1, CountFacts DEF ObjectInv, ItemPC
<1>9. \A i \in Item : Used(i)' <=> Used(i) \/ i = top
  BY <1>2, <1>4, <1>5 DEF Used, ItemPC
<1>10. Typed'
  <2>1. CountersTyped'
    BY <1>1, <1>2, <1>4, <1>5, <1>3 DEF Typed, CountersTyped
  <2>2. StackTyped' /\ ChainTyped' /\ HandlesTyped'
    BY <1>1, <1>2, <1>4, <1>5, <1>3 DEF Typed, StackTyped, ChainTyped, HandlesTyped
  <2>. QED
    BY <1>1, <1>2, <1>4, <1>5, <1>3, <2>1, <2>2 DEF Typed
<1>11. OwnInv'
  BY <1>1, <1>2, <1>4, <1>5 DEF OwnInv
<1>12. HandInv'
  BY <1>1, <1>2, <1>4, <1>5, <1>8 DEF HandInv, ItemPC
<1>13. ObjectInv'
  BY <1>1, <1>2, <1>4, <1>5 DEF ObjectInv
<1>14. NewInv'
  BY <1>1, <1>2, <1>4, <1>5 DEF NewInv, MakePC
<1>15. WeakInv'
  BY <1>1, <1>2, <1>4, <1>5 DEF WeakInv
<1>16. FreshInv'
  BY <1>1, <1>2, <1>4, <1>5 DEF FreshInv
<1>17. PromoteInv'
  BY <1>1, <1>2, <1>4, <1>5 DEF PromoteInv, PromotePC
<1>18. LostInv'
  BY <1>1, <1>2, <1>4, <1>5 DEF LostInv
<1>19. CountsMatch'
  <2>1. \A i : Owners(i)' = Owners(i) /\ Passing(i)' = Passing(i)
    BY <1>1, <1>2, <1>4, <1>5 DEF Owners, Passing
  <2>. QED
    BY <1>1, <1>2, <1>4, <1>5, <2>1 DEF CountsMatch
<1>20. StackInv'
  <2>1. Free \subseteq Item
    BY <1>1, OnListFacts DEF Free, Typed, StackTyped
  <2>2. IsFiniteSet(Free') /\ Cardinality(Free') = size'
    BY <1>1, <1>2, <1>3, <1>6, FS_RemoveElement DEF StackInv
  <2>3. \A i \in Free' : ~Used(i)'
    BY <1>1, <1>6, <1>9, <2>1 DEF StackInv
  <2>4. ASSUME NEW i \in Free' PROVE next'[i] # top'
    <3>1. top' # None
      BY <1>1, <1>2, <2>4, EmptyList DEF Free, Typed, StackTyped
    <3>. QED
      BY <1>1, <1>2, <1>3, <1>6, <2>4, <3>1 DEF StackInv
  <2>. QED
    BY <1>1, <1>2, <1>6, <2>2, <2>3, <2>4 DEF StackInv
<1>21. BufferInv'
  <2>1. \A i \in Item : i \in Free' \/ Used(i)' <=> i \in Free \/ Used(i)
    BY <1>3, <1>6, <1>9
  <2>2. Growers' = Growers /\ \A u \in Growers : reg'[u] = reg[u]
    BY <1>1, <1>5, <1>2 DEF Growers, BufferPC
  <2>. QED
    BY <1>1, <1>2, <2>1, <2>2, BufferFrame
<1>22. LinkInv' /\ ListInv'
  BY <1>1, <1>2, <1>4, <1>5, ListFrame DEF Growing
<1>. QED
  BY <1>10, <1>11, <1>12, <1>13, <1>14, <1>15, <1>16, <1>17, <1>18, <1>19, <1>20, <1>21, <1>22 DEF IInv

(* The weak pointers to earlier objects of the item are out of date from now on. *)
LEMMA MakeGenerationInv ==
  ASSUME IInv, NEW t \in Thread, MakeGeneration(t)
  PROVE  IInv'
<1>1. /\ Typed /\ OwnInv /\ HandInv /\ ObjectInv /\ NewInv /\ WeakInv /\ FreshInv /\ PromoteInv
      /\ LostInv /\ CountsMatch /\ StackInv /\ BufferInv /\ LinkInv /\ ListInv
  BY DEF IInv
<1>2. /\ pc[t] = "mk_generation" /\ Goto(t, "mk_strong", reg[t]) /\ ended = None
      /\ generation' = [generation EXCEPT ![reg[t].item] = @ + 1]
      /\ UNCHANGED <<strongcount, object, objects, lost, next, top, size, lengths, after, back, overwritten, own,
                     weak, ended>>
  BY DEF MakeGeneration, At, counters, stack, chain, handles
<1>3. PICK item \in Item : reg[t].item = item
  BY <1>1, <1>2, Contents DEF ItemPC, PromotePC
<1>4. "mk_strong" \in PCs /\ reg[t] \in Registers("mk_strong") /\ item \in Item /\ reg[t].item = item
  BY <1>1, <1>2, <1>3, Contents DEF PCs, MakePC, ItemPC, PromotePC, Registers
<1>5. /\ pc'[t] = "mk_strong" /\ reg'[t] = reg[t] /\ LocalTyped'
      /\ \A u \in Thread : u # t => pc'[u] = pc[u] /\ reg'[u] = reg[u]
  BY <1>1, <1>2, <1>4, Moves
<1>6. generation'[item] = generation[item] + 1 /\ generation[item] \in Nat
      /\ \A i \in Item : i # item => generation'[i] = generation[i]
  BY <1>1, <1>2, <1>4 DEF Typed, CountersTyped
<1>7. \A u \in Thread : weak[u] # None => weak[u].item \in Item /\ weak[u].generation \in Nat /\ weak[u].object \in Nat
  BY <1>1 DEF Typed, HandlesTyped, WeakPointer
<1>8. \A u \in Thread : weak[u] # None =>
         /\ weak[u].generation <= generation[weak[u].item]
         /\ weak[u].item # item => generation'[weak[u].item] = generation[weak[u].item]
  BY <1>1, <1>6, <1>7 DEF WeakInv
<1>9. object[item] = None /\ None \notin Nat
  BY <1>1, <1>2, <1>4, PoolAssumption DEF HandInv, ItemPC
<1>10. Typed'
  <2>1. CountersTyped'
    BY <1>1, <1>2, <1>4, <1>5, <1>6 DEF Typed, CountersTyped
  <2>2. StackTyped' /\ ChainTyped' /\ HandlesTyped'
    BY <1>1, <1>2, <1>4, <1>5, <1>6 DEF Typed, StackTyped, ChainTyped, HandlesTyped
  <2>. QED
    BY <1>1, <1>2, <1>4, <1>5, <1>6, <2>1, <2>2 DEF Typed
<1>11. OwnInv'
  BY <1>1, <1>2, <1>4, <1>5, <1>6 DEF OwnInv
<1>12. HandInv'
  BY <1>1, <1>2, <1>4, <1>5, <1>6 DEF HandInv, ItemPC
<1>13. ObjectInv'
  BY <1>1, <1>2, <1>4, <1>5, <1>6 DEF ObjectInv
<1>14. NewInv'
  BY <1>1, <1>2, <1>4, <1>5, <1>6 DEF NewInv, MakePC
<1>15. WeakInv'
  <2>1. ASSUME NEW u \in Thread, weak[u] # None, NEW i \in Item, object[i] = weak[u].object
        PROVE  i # item
    BY <1>7, <1>9, <2>1
  <2>2. ASSUME NEW u \in Thread, weak[u] # None, generation'[weak[u].item] = weak[u].generation
        PROVE  weak[u].item # item
    <3>1. weak[u].generation <= generation[weak[u].item]
      BY <1>1, <2>2 DEF WeakInv
    <3>. QED
      BY <1>6, <1>7, <2>2, <3>1
  <2>. QED
    BY <1>1, <1>2, <1>4, <1>5, <1>6, <1>7, <1>8, <2>1, <2>2 DEF WeakInv
<1>16. FreshInv'
  <2>1. \A u \in Thread : weak[u] # None /\ (weak[u].generation < generation[weak[u].item] \/ weak[u].item = item) =>
             weak[u].generation < generation'[weak[u].item]
    BY <1>6, <1>7, <1>8
  <2>. QED
    BY <1>1, <1>2, <1>4, <1>5, <2>1 DEF FreshInv
<1>17. PromoteInv'
  <2>1. ASSUME NEW u \in Thread, pc[u] \in PromotePC
        PROVE  /\ generation'[reg[u].item] = weak[u].generation => generation[reg[u].item] = weak[u].generation
               /\ weak[u].generation < generation[reg[u].item] => weak[u].generation < generation'[reg[u].item]
    <3>1. weak[u] # None /\ weak[u].item = reg[u].item
      BY <1>1, <2>1 DEF PromoteInv
    <3>. QED
      BY <1>6, <1>7, <1>8, <3>1
  <2>. QED
    BY <1>1, <1>2, <1>4, <1>5, <2>1 DEF PromoteInv, PromotePC
<1>18. LostInv'
  BY <1>1, <1>2, <1>4, <1>5, <1>6 DEF LostInv
<1>19. CountsMatch'
  <2>1. \A i : Owners(i)' = Owners(i) /\ Passing(i)' = Passing(i)
    BY <1>1, <1>2, <1>4, <1>5, <1>6 DEF Owners, Passing
  <2>. QED
    BY <1>1, <1>2, <1>4, <1>5, <1>6, <2>1 DEF CountsMatch
<1>20. StackInv' /\ BufferInv' /\ LinkInv' /\ ListInv'
  <2>1. \A i \in Item : Used(i)' <=> Used(i)
    BY <1>1, <1>2, <1>4, <1>5, <1>6 DEF Used, ItemPC
  <2>2. pc[t] \notin BufferPC /\ pc'[t] \notin BufferPC
    BY <1>1, <1>2, <1>4, <1>5, <1>6 DEF BufferPC
  <2>. QED
    BY <1>1, <1>2, <1>4, <1>5, <1>6, <2>1, <2>2, ItemStep
<1>. QED
  BY <1>10, <1>11, <1>12, <1>13, <1>14, <1>15, <1>16, <1>17, <1>18, <1>19, <1>20 DEF IInv

(* The first count, while no weak pointer has the item's generation. *)
LEMMA MakeStrongInv ==
  ASSUME IInv, NEW t \in Thread, MakeStrong(t)
  PROVE  IInv'
<1>1. /\ Typed /\ OwnInv /\ HandInv /\ ObjectInv /\ NewInv /\ WeakInv /\ FreshInv /\ PromoteInv
      /\ LostInv /\ CountsMatch /\ StackInv /\ BufferInv /\ LinkInv /\ ListInv
  BY DEF IInv
<1>2. /\ pc[t] = "mk_strong" /\ Goto(t, "mk_construct", reg[t]) /\ ended = None
      /\ strongcount' = [strongcount EXCEPT ![reg[t].item] = @ + 1]
      /\ UNCHANGED <<generation, object, objects, lost, next, top, size, lengths, after, back, overwritten, own, weak,
                     ended>>
  BY DEF MakeStrong, At, counters, stack, chain, handles
<1>3. PICK item \in Item : reg[t].item = item
  BY <1>1, <1>2, Contents DEF ItemPC, PromotePC
<1>4. "mk_construct" \in PCs /\ reg[t] \in Registers("mk_construct") /\ item \in Item /\ reg[t].item = item
  BY <1>1, <1>2, <1>3, Contents DEF PCs, MakePC, ItemPC, PromotePC, Registers
<1>5. /\ pc'[t] = "mk_construct" /\ reg'[t] = reg[t] /\ LocalTyped'
      /\ \A u \in Thread : u # t => pc'[u] = pc[u] /\ reg'[u] = reg[u]
  BY <1>1, <1>2, <1>4, Moves
<1>6. strongcount[item] = 0 /\ strongcount \in [Item -> Nat]
  BY <1>1, <1>2, <1>4 DEF HandInv, ItemPC, Typed, CountersTyped
<1>7. /\ strongcount[item] = 0 /\ strongcount' = [strongcount EXCEPT ![item] = 1]
      /\ strongcount'[item] = 1 /\ \A i \in Item : i # item => strongcount'[i] = strongcount[i]
  BY <1>2, <1>4, <1>6
<1>8. Typed'
  <2>1. CountersTyped'
    BY <1>1, <1>2, <1>4, <1>5, <1>7 DEF Typed, CountersTyped
  <2>2. StackTyped' /\ ChainTyped' /\ HandlesTyped'
    BY <1>1, <1>2, <1>4, <1>5, <1>7 DEF Typed, StackTyped, ChainTyped, HandlesTyped
  <2>. QED
    BY <1>1, <1>2, <1>4, <1>5, <1>7, <2>1, <2>2 DEF Typed
<1>9. OwnInv'
  BY <1>1, <1>2, <1>4, <1>5, <1>7 DEF OwnInv
<1>10. HandInv'
  BY <1>1, <1>2, <1>4, <1>5, <1>7 DEF HandInv, ItemPC
<1>11. ObjectInv'
  BY <1>1, <1>2, <1>4, <1>5, <1>7 DEF ObjectInv
<1>12. NewInv'
  BY <1>1, <1>2, <1>4, <1>5, <1>7 DEF NewInv, MakePC
<1>13. WeakInv'
  BY <1>1, <1>2, <1>4, <1>5, <1>7 DEF WeakInv
<1>14. FreshInv'
  BY <1>1, <1>2, <1>4, <1>5, <1>7 DEF FreshInv
<1>15. PromoteInv'
  <2>1. ASSUME NEW u \in Thread, pc[u] \in PromotePC, reg[u].item = item
        PROVE  generation[item] # weak[u].generation
    <3>1. weak[u] # None /\ weak[u].item = item
      BY <1>1, <2>1 DEF PromoteInv
    <3>2. weak[u].generation < generation[item] /\ weak[u].generation \in Nat
      BY <1>1, <1>2, <1>4, <3>1 DEF FreshInv, Typed, HandlesTyped, WeakPointer
    <3>. QED
      BY <3>2
  <2>2. \A u \in Thread : pc[u] \in PromotePC => reg[u].item \in Item
    BY <1>1, Contents
  <2>. QED
    BY <1>1, <1>2, <1>4, <1>5, <1>7, <2>1, <2>2 DEF PromoteInv, PromotePC
<1>16. LostInv'
  BY <1>1, <1>2, <1>4, <1>5, <1>7 DEF LostInv
<1>17. CountsMatch'
  <2>1. IsFiniteSet(Owners(item)) /\ IsFiniteSet(Passing(item))
    BY <1>1, CountFacts, <1>2, <1>4, <1>5, <1>7
  <2>2. Cardinality(Owners(item)') = Cardinality(Owners(item))
    <3>1. Owners(item)' = Owners(item)
      BY <1>1, <1>2, <1>4, <1>5, <1>7 DEF Owners
    <3>. QED
      BY <2>1, <3>1
  <2>3. Cardinality(Passing(item)') = Cardinality(Passing(item)) + 1
    <3>1. Passing(item)' = Passing(item) \cup {t} /\ t \notin Passing(item)
      BY <1>1, <1>2, <1>4, <1>5, <1>7 DEF Passing
    <3>. QED
      BY <2>1, <3>1, FS_AddElement
  <2>4. \A i \in Item : i # item => Owners(i)' = Owners(i) /\ Passing(i)' = Passing(i) /\ (i \in lost' <=> i \in lost)
    BY <1>1, <1>2, <1>4, <1>5, <1>7 DEF Owners, Passing
  <2>5. /\ strongcount[item] = Cardinality(Owners(item)) + Cardinality(Passing(item)) + (IF item \in lost THEN 1 ELSE 0)
        /\ Cardinality(Owners(item)) \in Nat /\ Cardinality(Passing(item)) \in Nat
    BY <1>1, CountFacts, <1>2, <1>4, <1>5, <1>7 DEF CountsMatch
  <2>6. 1 = Cardinality(Owners(item)') + Cardinality(Passing(item)') + (IF item \in lost' THEN 1 ELSE 0)
    BY <1>2, <1>4, <1>5, <1>7, <2>2, <2>3, <2>5
  <2>7. 1 \in Nat /\ strongcount' = [strongcount EXCEPT ![item] = 1] /\ strongcount \in [Item -> Nat]
    BY <1>1, <1>2, <1>4, <1>5, <1>7 DEF Typed, CountersTyped
  <2>. QED
    BY <1>1, <2>4, <2>6, <2>7, CountsStep
<1>18. StackInv' /\ BufferInv' /\ LinkInv' /\ ListInv'
  <2>1. \A i \in Item : Used(i)' <=> Used(i)
    BY <1>1, <1>2, <1>4, <1>5, <1>7 DEF Used, ItemPC
  <2>2. pc[t] \notin BufferPC /\ pc'[t] \notin BufferPC
    BY <1>1, <1>2, <1>4, <1>5, <1>7 DEF BufferPC
  <2>. QED
    BY <1>1, <1>2, <1>4, <1>5, <1>7, <2>1, <2>2, ItemStep
<1>. QED
  BY <1>8, <1>9, <1>10, <1>11, <1>12, <1>13, <1>14, <1>15, <1>16, <1>17, <1>18 DEF IInv

(* The thread in passing becomes an owner, of an object that is new. *)
LEMMA MakeConstructInv ==
  ASSUME IInv, NEW t \in Thread, MakeConstruct(t)
  PROVE  IInv'
<1>1. /\ Typed /\ OwnInv /\ HandInv /\ ObjectInv /\ NewInv /\ WeakInv /\ FreshInv /\ PromoteInv
      /\ LostInv /\ CountsMatch /\ StackInv /\ BufferInv /\ LinkInv /\ ListInv
  BY DEF IInv
<1>2. /\ pc[t] = "mk_construct" /\ Goto(t, "idle", None) /\ ended = None
      /\ object' = [object EXCEPT ![reg[t].item] = reg[t].object] /\ own' = [own EXCEPT ![t] = reg[t]]
      /\ UNCHANGED <<generation, strongcount, objects, lost, next, top, size, lengths, after, back, overwritten, weak,
                     ended>>
  BY DEF MakeConstruct, Return, At, counters, stack, chain, handles
<1>3. PICK item \in Item : reg[t].item = item
  BY <1>1, <1>2, Contents DEF ItemPC
<1>4. "idle" \in PCs /\ None \in Registers("idle")
  BY DEF PCs, Registers
<1>5. /\ pc'[t] = "idle" /\ reg'[t] = None /\ LocalTyped'
      /\ \A u \in Thread : u # t => pc'[u] = pc[u] /\ reg'[u] = reg[u]
  BY <1>1, <1>2, <1>4, Moves
<1>6. item \in Item /\ item \notin lost /\ object[item] = None /\ None \notin Nat /\ reg[t].item = item
  BY <1>1, <1>2, <1>3, Contents, PoolAssumption DEF HandInv, ItemPC
<1>7. strongcount[item] # 0
  <2>1. t \in Passing(item)
    BY <1>2, <1>6 DEF Passing
  <2>. QED
    BY <1>1, <1>6, <2>1, CountFacts
<1>8. strongcount = [strongcount EXCEPT ![item] = strongcount[item]] /\ strongcount[item] \in Nat
  BY <1>1, <1>6 DEF Typed, CountersTyped
<1>9. own[t] = None
  BY <1>1, <1>2 DEF OwnInv
<1>10. \A u \in Thread : own[u] # None => own[u].item # item
  BY <1>1, <1>6 DEF OwnInv, Typed, HandlesTyped, Pointer
<1>11. \A u \in Thread : u # t /\ pc[u] \in ItemPC => reg[u].item # item
  BY <1>1, <1>2, <1>6 DEF HandInv, ItemPC
<1>12. PICK o : reg[t].object = o
  OBVIOUS
<1>13. /\ reg[t] \in Pointer /\ reg[t].object = o /\ o \in Nat /\ o \in 1 .. objects
       /\ \A i \in Item : object[i] # o
       /\ \A u \in Thread : weak[u] # None => weak[u].object # o
       /\ \A u \in Thread : u # t /\ pc[u] \in MakePC => reg[u].object # o
  BY <1>1, <1>2, <1>12, Contents DEF NewInv, MakePC
<1>14. /\ object'[item] = o /\ \A i \in Item : i # item => object'[i] = object[i]
       /\ own'[t] = reg[t] /\ \A u \in Thread : u # t => own'[u] = own[u]
       /\ own'[t] # None
  BY <1>1, <1>2, <1>6, <1>13, PoolAssumption DEF Typed, CountersTyped, HandlesTyped, Pointer
<1>15. Typed'
  <2>1. CountersTyped'
    BY <1>1, <1>2, <1>5, <1>6, <1>7, <1>14, <1>13 DEF Typed, CountersTyped
  <2>2. StackTyped' /\ ChainTyped' /\ HandlesTyped'
    BY <1>1, <1>2, <1>5, <1>6, <1>7, <1>14, <1>13 DEF Typed, StackTyped, ChainTyped, HandlesTyped
  <2>. QED
    BY <1>1, <1>2, <1>5, <1>6, <1>7, <1>14, <1>13, <2>1, <2>2 DEF Typed
<1>16. OwnInv'
  BY <1>1, <1>2, <1>5, <1>6, <1>7, <1>14, <1>13, <1>10 DEF OwnInv
<1>17. HandInv'
  BY <1>1, <1>2, <1>5, <1>6, <1>7, <1>14, <1>13, <1>11 DEF HandInv, ItemPC
<1>18. ObjectInv'
  BY <1>1, <1>2, <1>5, <1>6, <1>7, <1>14, <1>13 DEF ObjectInv
<1>19. NewInv'
  BY <1>1, <1>2, <1>5, <1>6, <1>7, <1>14, <1>13 DEF NewInv, MakePC
<1>20. WeakInv'
  <2>1. ASSUME NEW u \in Thread, weak[u] # None PROVE generation[item] # weak[u].generation \/ weak[u].item # item
    BY <1>1, <1>2, <2>1, <1>6 DEF FreshInv, Typed, HandlesTyped, WeakPointer, CountersTyped
  <2>2. \A u \in Thread : weak[u] # None => weak[u].item \in Item
    BY <1>1 DEF Typed, HandlesTyped, WeakPointer
  <2>. QED
    BY <1>1, <1>2, <1>5, <1>14, <1>13, <2>1, <2>2 DEF WeakInv
<1>21. FreshInv'
  BY <1>1, <1>2, <1>5, <1>6, <1>7, <1>14, <1>13 DEF FreshInv
<1>22. PromoteInv'
  BY <1>1, <1>2, <1>5, <1>6, <1>7, <1>14, <1>13 DEF PromoteInv, PromotePC
<1>23. LostInv'
  BY <1>1, <1>2, <1>5, <1>6, <1>7, <1>14, <1>13 DEF LostInv
<1>24. CountsMatch'
  <2>1. IsFiniteSet(Owners(item)) /\ IsFiniteSet(Passing(item))
    BY <1>1, CountFacts, <1>2, <1>5, <1>6, <1>9, <1>14
  <2>2. Cardinality(Owners(item)') = Cardinality(Owners(item)) + 1
    <3>1. Owners(item)' = Owners(item) \cup {t} /\ t \notin Owners(item)
      BY <1>1, <1>2, <1>5, <1>6, <1>9, <1>14 DEF Owners
    <3>. QED
      BY <2>1, <3>1, FS_AddElement
  <2>3. Cardinality(Passing(item)') = Cardinality(Passing(item)) - 1
    <3>1. Passing(item)' = Passing(item) \ {t} /\ t \in Passing(item)
      BY <1>1, <1>2, <1>5, <1>6, <1>9, <1>14 DEF Passing
    <3>. QED
      BY <2>1, <3>1, FS_RemoveElement
  <2>4. \A i \in Item : i # item => Owners(i)' = Owners(i) /\ Passing(i)' = Passing(i) /\ (i \in lost' <=> i \in lost)
    BY <1>1, <1>2, <1>5, <1>6, <1>9, <1>14 DEF Owners, Passing
  <2>5. /\ strongcount[item] = Cardinality(Owners(item)) + Cardinality(Passing(item)) + (IF item \in lost THEN 1 ELSE 0)
        /\ Cardinality(Owners(item)) \in Nat /\ Cardinality(Passing(item)) \in Nat
    BY <1>1, CountFacts, <1>2, <1>5, <1>6, <1>9, <1>14 DEF CountsMatch
  <2>6. strongcount[item] = Cardinality(Owners(item)') + Cardinality(Passing(item)') + (IF item \in lost' THEN 1 ELSE 0)
    BY <1>2, <1>8, <2>2, <2>3, <2>5
  <2>7. strongcount[item] \in Nat /\ strongcount' = [strongcount EXCEPT ![item] = strongcount[item]] /\ strongcount \in [Item -> Nat]
    BY <1>1, <1>2, <1>8 DEF Typed, CountersTyped
  <2>. QED
    BY <1>1, <2>4, <2>6, <2>7, CountsStep
<1>25. StackInv' /\ BufferInv' /\ LinkInv' /\ ListInv'
  <2>1. \A i \in Item : Used(i)' <=> Used(i)
    BY <1>1, <1>2, <1>5, <1>6, <1>7, <1>14, <1>13 DEF Used, ItemPC
  <2>2. pc[t] \notin BufferPC /\ pc'[t] \notin BufferPC
    BY <1>1, <1>2, <1>5, <1>6, <1>7, <1>14, <1>13 DEF BufferPC
  <2>. QED
    BY <1>1, <1>2, <1>5, <1>6, <1>7, <1>14, <1>13, <2>1, <2>2, ItemStep
<1>. QED
  BY <1>15, <1>16, <1>17, <1>18, <1>19, <1>20, <1>21, <1>22, <1>23, <1>24, <1>25 DEF IInv

(* The item is lost with the count that the thread had in passing. *)
LEMMA MakeConstructFailsInv ==
  ASSUME IInv, NEW t \in Thread, MakeConstructFails(t)
  PROVE  IInv'
<1>1. /\ Typed /\ OwnInv /\ HandInv /\ ObjectInv /\ NewInv /\ WeakInv /\ FreshInv /\ PromoteInv
      /\ LostInv /\ CountsMatch /\ StackInv /\ BufferInv /\ LinkInv /\ ListInv
  BY DEF IInv
<1>2. /\ pc[t] = "mk_construct" /\ Goto(t, "idle", None) /\ ended = None
      /\ lost' = lost \cup {reg[t].item}
      /\ UNCHANGED <<generation, strongcount, object, objects, next, top, size, lengths, after, back,
                     overwritten, own, weak, ended>>
  BY DEF MakeConstructFails, Return, At, counters, stack, chain, handles
<1>3. PICK item \in Item : reg[t].item = item
  BY <1>1, <1>2, Contents DEF ItemPC
<1>4. "idle" \in PCs /\ None \in Registers("idle")
  BY DEF PCs, Registers
<1>5. /\ pc'[t] = "idle" /\ reg'[t] = None /\ LocalTyped'
      /\ \A u \in Thread : u # t => pc'[u] = pc[u] /\ reg'[u] = reg[u]
  BY <1>1, <1>2, <1>4, Moves
<1>6. item \in Item /\ item \notin lost /\ object[item] = None /\ None \notin Nat /\ reg[t].item = item
  BY <1>1, <1>2, <1>3, Contents, PoolAssumption DEF HandInv, ItemPC
<1>7. strongcount[item] # 0
  <2>1. t \in Passing(item)
    BY <1>2, <1>6 DEF Passing
  <2>. QED
    BY <1>1, <1>6, <2>1, CountFacts
<1>8. strongcount = [strongcount EXCEPT ![item] = strongcount[item]] /\ strongcount[item] \in Nat
  BY <1>1, <1>6 DEF Typed, CountersTyped
<1>9. own[t] = None
  BY <1>1, <1>2 DEF OwnInv
<1>10. \A u \in Thread : own[u] # None => own[u].item # item
  BY <1>1, <1>6 DEF OwnInv, Typed, HandlesTyped, Pointer
<1>11. \A u \in Thread : u # t /\ pc[u] \in ItemPC => reg[u].item # item
  BY <1>1, <1>2, <1>6 DEF HandInv, ItemPC
<1>12. Typed'
  <2>1. CountersTyped'
    BY <1>1, <1>2, <1>5, <1>6, <1>7 DEF Typed, CountersTyped
  <2>2. StackTyped' /\ ChainTyped' /\ HandlesTyped'
    BY <1>1, <1>2, <1>5, <1>6, <1>7 DEF Typed, StackTyped, ChainTyped, HandlesTyped
  <2>. QED
    BY <1>1, <1>2, <1>5, <1>6, <1>7, <2>1, <2>2 DEF Typed
<1>13. OwnInv'
  BY <1>1, <1>2, <1>5, <1>6, <1>7 DEF OwnInv
<1>14. HandInv'
  BY <1>1, <1>2, <1>5, <1>6, <1>7, <1>11 DEF HandInv, ItemPC
<1>15. ObjectInv'
  BY <1>1, <1>2, <1>5, <1>6, <1>7 DEF ObjectInv
<1>16. NewInv'
  BY <1>1, <1>2, <1>5, <1>6, <1>7 DEF NewInv, MakePC
<1>17. WeakInv'
  BY <1>1, <1>2, <1>5, <1>6, <1>7 DEF WeakInv
<1>18. FreshInv'
  BY <1>1, <1>2, <1>5, <1>6, <1>7 DEF FreshInv
<1>19. PromoteInv'
  BY <1>1, <1>2, <1>5, <1>6, <1>7 DEF PromoteInv, PromotePC
<1>20. LostInv'
  BY <1>1, <1>2, <1>5, <1>6, <1>7 DEF LostInv
<1>21. CountsMatch'
  <2>1. IsFiniteSet(Owners(item)) /\ IsFiniteSet(Passing(item))
    BY <1>1, CountFacts, <1>2, <1>5, <1>6, <1>9
  <2>2. Cardinality(Owners(item)') = Cardinality(Owners(item))
    <3>1. Owners(item)' = Owners(item)
      BY <1>1, <1>2, <1>5, <1>6, <1>9 DEF Owners
    <3>. QED
      BY <2>1, <3>1
  <2>3. Cardinality(Passing(item)') = Cardinality(Passing(item)) - 1
    <3>1. Passing(item)' = Passing(item) \ {t} /\ t \in Passing(item)
      BY <1>1, <1>2, <1>5, <1>6, <1>9 DEF Passing
    <3>. QED
      BY <2>1, <3>1, FS_RemoveElement
  <2>4. \A i \in Item : i # item => Owners(i)' = Owners(i) /\ Passing(i)' = Passing(i) /\ (i \in lost' <=> i \in lost)
    BY <1>1, <1>2, <1>5, <1>6, <1>9 DEF Owners, Passing
  <2>5. /\ strongcount[item] = Cardinality(Owners(item)) + Cardinality(Passing(item)) + (IF item \in lost THEN 1 ELSE 0)
        /\ Cardinality(Owners(item)) \in Nat /\ Cardinality(Passing(item)) \in Nat
    BY <1>1, CountFacts, <1>2, <1>5, <1>6, <1>9 DEF CountsMatch
  <2>6. strongcount[item] = Cardinality(Owners(item)') + Cardinality(Passing(item)') + (IF item \in lost' THEN 1 ELSE 0)
    BY <1>2, <1>6, <1>8, <2>2, <2>3, <2>5
  <2>7. strongcount[item] \in Nat /\ strongcount' = [strongcount EXCEPT ![item] = strongcount[item]] /\ strongcount \in [Item -> Nat]
    BY <1>1, <1>2, <1>6, <1>8 DEF Typed, CountersTyped
  <2>. QED
    BY <1>1, <2>4, <2>6, <2>7, CountsStep
<1>22. StackInv' /\ BufferInv' /\ LinkInv' /\ ListInv'
  <2>1. \A i \in Item : Used(i)' <=> Used(i)
    BY <1>1, <1>2, <1>5, <1>6, <1>7 DEF Used, ItemPC
  <2>2. pc[t] \notin BufferPC /\ pc'[t] \notin BufferPC
    BY <1>1, <1>2, <1>5, <1>6, <1>7 DEF BufferPC
  <2>. QED
    BY <1>1, <1>2, <1>5, <1>6, <1>7, <2>1, <2>2, ItemStep
<1>. QED
  BY <1>12, <1>13, <1>14, <1>15, <1>16, <1>17, <1>18, <1>19, <1>20, <1>21, <1>22 DEF IInv

(* The last owner takes the item in hand. *)
LEMMA DropLastInv ==
  ASSUME IInv, NEW t \in Thread, Drop(t), strongcount[own[t].item] = 1
  PROVE  IInv'
<1>1. /\ Typed /\ OwnInv /\ HandInv /\ ObjectInv /\ NewInv /\ WeakInv /\ FreshInv /\ PromoteInv
      /\ LostInv /\ CountsMatch /\ StackInv /\ BufferInv /\ LinkInv /\ ListInv
  BY DEF IInv
<1>2. /\ pc[t] = "idle" /\ own[t] # None /\ Goto(t, "ds_destruct", [item |-> own[t].item]) /\ ended = None
      /\ strongcount' = [strongcount EXCEPT ![own[t].item] = @ - 1] /\ own' = [own EXCEPT ![t] = None]
      /\ UNCHANGED <<generation, object, objects, lost, next, top, size, lengths, after, back, overwritten, weak, ended>>
  BY DEF Drop, Return, Idle, At, counters, stack, chain, handles
<1>3. PICK item \in Item : own[t].item = item
  BY <1>1, <1>2 DEF Typed, HandlesTyped, Pointer
<1>4. "ds_destruct" \in PCs /\ [item |-> own[t].item] \in Registers("ds_destruct") /\ [item |-> own[t].item].item = item
  BY <1>3 DEF PCs, ItemPC, Registers, ItemRegs
<1>5. /\ pc'[t] = "ds_destruct" /\ reg'[t] = [item |-> own[t].item] /\ LocalTyped'
      /\ \A u \in Thread : u # t => pc'[u] = pc[u] /\ reg'[u] = reg[u]
  BY <1>1, <1>2, <1>4, <1>3, Moves
<1>6. /\ own'[t] = None /\ \A u \in Thread : u # t => own'[u] = own[u]
  BY <1>1, <1>2 DEF Typed, HandlesTyped
<1>7. t \in Owners(item) /\ strongcount[item] \in Nat /\ strongcount[item] # 0 /\ object[item] # None
  <2>1. t \in Owners(item)
    BY <1>2, <1>3 DEF Owners
  <2>2. object[item] = own[t].object /\ own[t].object \in Nat
    BY <1>1, <1>2, <1>3 DEF OwnInv, Typed, HandlesTyped, Pointer
  <2>. QED
    BY <1>1, <1>3, <2>1, <2>2, CountFacts, PoolAssumption DEF Typed, CountersTyped
<1>8. /\ strongcount'[item] = strongcount[item] - 1 /\ strongcount' = [strongcount EXCEPT ![item] = strongcount[item] - 1]
      /\ strongcount[item] - 1 \in Nat /\ \A i \in Item : i # item => strongcount'[i] = strongcount[i]
  BY <1>1, <1>2, <1>3, <1>7 DEF Typed, CountersTyped
<1>9. \A u \in Thread : pc[u] \in ItemPC => reg[u].item # item
  BY <1>1, <1>2, <1>3, <1>7 DEF HandInv, ItemPC
<1>10. strongcount[item] = 1 /\ strongcount'[item] = 0 /\ item \notin lost
  BY <1>1, <1>3, <1>7, <1>8, CountFacts
<1>11. Typed'
  <2>1. CountersTyped'
    BY <1>1, <1>2, <1>3, <1>4, <1>5, <1>6, <1>7, <1>8, <1>10 DEF Typed, CountersTyped
  <2>2. StackTyped' /\ ChainTyped' /\ HandlesTyped'
    BY <1>1, <1>2, <1>3, <1>4, <1>5, <1>6, <1>7, <1>8, <1>10 DEF Typed, StackTyped, ChainTyped, HandlesTyped
  <2>. QED
    BY <1>1, <1>2, <1>3, <1>4, <1>5, <1>6, <1>7, <1>8, <1>10, <2>1, <2>2 DEF Typed
<1>12. OwnInv'
  BY <1>1, <1>2, <1>3, <1>4, <1>5, <1>6, <1>7, <1>8, <1>10 DEF OwnInv
<1>13. HandInv'
  BY <1>1, <1>2, <1>3, <1>4, <1>5, <1>6, <1>7, <1>8, <1>10, <1>9 DEF HandInv, ItemPC
<1>14. ObjectInv'
  BY <1>1, <1>2, <1>3, <1>4, <1>5, <1>6, <1>7, <1>8, <1>10 DEF ObjectInv
<1>15. NewInv'
  BY <1>1, <1>2, <1>3, <1>4, <1>5, <1>6, <1>7, <1>8, <1>10 DEF NewInv, MakePC
<1>16. WeakInv'
  BY <1>1, <1>2, <1>3, <1>4, <1>5, <1>6, <1>7, <1>8, <1>10 DEF WeakInv
<1>17. FreshInv'
  BY <1>1, <1>2, <1>3, <1>4, <1>5, <1>6, <1>7, <1>8, <1>10 DEF FreshInv
<1>18. PromoteInv'
  BY <1>1, <1>2, <1>3, <1>4, <1>5, <1>6, <1>7, <1>8, <1>10 DEF PromoteInv, PromotePC
<1>19. LostInv'
  BY <1>1, <1>2, <1>3, <1>4, <1>5, <1>6, <1>7, <1>8, <1>10 DEF LostInv
<1>20. CountsMatch'
  <2>1. IsFiniteSet(Owners(item)) /\ IsFiniteSet(Passing(item))
    BY <1>1, CountFacts, <1>2, <1>3, <1>4, <1>5, <1>6
  <2>2. Cardinality(Owners(item)') = Cardinality(Owners(item)) - 1
    <3>1. Owners(item)' = Owners(item) \ {t} /\ t \in Owners(item)
      BY <1>1, <1>2, <1>3, <1>4, <1>5, <1>6 DEF Owners
    <3>. QED
      BY <2>1, <3>1, FS_RemoveElement
  <2>3. Cardinality(Passing(item)') = Cardinality(Passing(item))
    <3>1. Passing(item)' = Passing(item)
      BY <1>1, <1>2, <1>3, <1>4, <1>5, <1>6 DEF Passing
    <3>. QED
      BY <2>1, <3>1
  <2>4. \A i \in Item : i # item => Owners(i)' = Owners(i) /\ Passing(i)' = Passing(i) /\ (i \in lost' <=> i \in lost)
    BY <1>1, <1>2, <1>3, <1>4, <1>5, <1>6 DEF Owners, Passing
  <2>5. /\ strongcount[item] = Cardinality(Owners(item)) + Cardinality(Passing(item)) + (IF item \in lost THEN 1 ELSE 0)
        /\ Cardinality(Owners(item)) \in Nat /\ Cardinality(Passing(item)) \in Nat
    BY <1>1, CountFacts, <1>2, <1>3, <1>4, <1>5, <1>6 DEF CountsMatch
  <2>6. (strongcount[item] - 1) = Cardinality(Owners(item)') + Cardinality(Passing(item)') + (IF item \in lost' THEN 1 ELSE 0)
    BY <1>2, <1>7, <1>8, <2>2, <2>3, <2>5
  <2>7. (strongcount[item] - 1) \in Nat /\ strongcount' = [strongcount EXCEPT ![item] = (strongcount[item] - 1)] /\ strongcount \in [Item -> Nat]
    BY <1>1, <1>2, <1>7, <1>8 DEF Typed, CountersTyped
  <2>. QED
    BY <1>1, <2>4, <2>6, <2>7, CountsStep
<1>21. StackInv' /\ BufferInv' /\ LinkInv' /\ ListInv'
  <2>1. \A i \in Item : Used(i)' <=> Used(i)
    BY <1>1, <1>2, <1>3, <1>4, <1>5, <1>6, <1>7, <1>8, <1>10 DEF Used, ItemPC
  <2>2. pc[t] \notin BufferPC /\ pc'[t] \notin BufferPC
    BY <1>1, <1>2, <1>3, <1>4, <1>5, <1>6, <1>7, <1>8, <1>10 DEF BufferPC
  <2>. QED
    BY <1>1, <1>2, <1>3, <1>4, <1>5, <1>6, <1>7, <1>8, <1>10, <2>1, <2>2, ItemStep
<1>. QED
  BY <1>11, <1>12, <1>13, <1>14, <1>15, <1>16, <1>17, <1>18, <1>19, <1>20, <1>21 DEF IInv

(* One owner less. *)
LEMMA DropSharedInv ==
  ASSUME IInv, NEW t \in Thread, Drop(t), strongcount[own[t].item] # 1
  PROVE  IInv'
<1>1. /\ Typed /\ OwnInv /\ HandInv /\ ObjectInv /\ NewInv /\ WeakInv /\ FreshInv /\ PromoteInv
      /\ LostInv /\ CountsMatch /\ StackInv /\ BufferInv /\ LinkInv /\ ListInv
  BY DEF IInv
<1>2. /\ pc[t] = "idle" /\ own[t] # None /\ Goto(t, "idle", None) /\ ended = None
      /\ strongcount' = [strongcount EXCEPT ![own[t].item] = @ - 1] /\ own' = [own EXCEPT ![t] = None]
      /\ UNCHANGED <<generation, object, objects, lost, next, top, size, lengths, after, back, overwritten, weak, ended>>
  BY DEF Drop, Return, Idle, At, counters, stack, chain, handles
<1>3. PICK item \in Item : own[t].item = item
  BY <1>1, <1>2 DEF Typed, HandlesTyped, Pointer
<1>4. "idle" \in PCs /\ None \in Registers("idle")
  BY <1>3 DEF PCs, ItemPC, Registers, ItemRegs
<1>5. /\ pc'[t] = "idle" /\ reg'[t] = None /\ LocalTyped'
      /\ \A u \in Thread : u # t => pc'[u] = pc[u] /\ reg'[u] = reg[u]
  BY <1>1, <1>2, <1>4, <1>3, Moves
<1>6. /\ own'[t] = None /\ \A u \in Thread : u # t => own'[u] = own[u]
  BY <1>1, <1>2 DEF Typed, HandlesTyped
<1>7. t \in Owners(item) /\ strongcount[item] \in Nat /\ strongcount[item] # 0 /\ object[item] # None
  <2>1. t \in Owners(item)
    BY <1>2, <1>3 DEF Owners
  <2>2. object[item] = own[t].object /\ own[t].object \in Nat
    BY <1>1, <1>2, <1>3 DEF OwnInv, Typed, HandlesTyped, Pointer
  <2>. QED
    BY <1>1, <1>3, <2>1, <2>2, CountFacts, PoolAssumption DEF Typed, CountersTyped
<1>8. /\ strongcount'[item] = strongcount[item] - 1 /\ strongcount' = [strongcount EXCEPT ![item] = strongcount[item] - 1]
      /\ strongcount[item] - 1 \in Nat /\ \A i \in Item : i # item => strongcount'[i] = strongcount[i]
  BY <1>1, <1>2, <1>3, <1>7 DEF Typed, CountersTyped
<1>9. \A u \in Thread : pc[u] \in ItemPC => reg[u].item # item
  BY <1>1, <1>2, <1>3, <1>7 DEF HandInv, ItemPC
<1>10. strongcount'[item] # 0
  BY <1>3, <1>7, <1>8
<1>11. Typed'
  <2>1. CountersTyped'
    BY <1>1, <1>2, <1>3, <1>4, <1>5, <1>6, <1>7, <1>8, <1>10 DEF Typed, CountersTyped
  <2>2. StackTyped' /\ ChainTyped' /\ HandlesTyped'
    BY <1>1, <1>2, <1>3, <1>4, <1>5, <1>6, <1>7, <1>8, <1>10 DEF Typed, StackTyped, ChainTyped, HandlesTyped
  <2>. QED
    BY <1>1, <1>2, <1>3, <1>4, <1>5, <1>6, <1>7, <1>8, <1>10, <2>1, <2>2 DEF Typed
<1>12. OwnInv'
  BY <1>1, <1>2, <1>3, <1>4, <1>5, <1>6, <1>7, <1>8, <1>10 DEF OwnInv
<1>13. HandInv'
  BY <1>1, <1>2, <1>3, <1>4, <1>5, <1>6, <1>7, <1>8, <1>10, <1>9 DEF HandInv, ItemPC
<1>14. ObjectInv'
  BY <1>1, <1>2, <1>3, <1>4, <1>5, <1>6, <1>7, <1>8, <1>10 DEF ObjectInv
<1>15. NewInv'
  BY <1>1, <1>2, <1>3, <1>4, <1>5, <1>6, <1>7, <1>8, <1>10 DEF NewInv, MakePC
<1>16. WeakInv'
  BY <1>1, <1>2, <1>3, <1>4, <1>5, <1>6, <1>7, <1>8, <1>10 DEF WeakInv
<1>17. FreshInv'
  BY <1>1, <1>2, <1>3, <1>4, <1>5, <1>6, <1>7, <1>8, <1>10 DEF FreshInv
<1>18. PromoteInv'
  BY <1>1, <1>2, <1>3, <1>4, <1>5, <1>6, <1>7, <1>8, <1>10 DEF PromoteInv, PromotePC
<1>19. LostInv'
  BY <1>1, <1>2, <1>3, <1>4, <1>5, <1>6, <1>7, <1>8, <1>10 DEF LostInv
<1>20. CountsMatch'
  <2>1. IsFiniteSet(Owners(item)) /\ IsFiniteSet(Passing(item))
    BY <1>1, CountFacts, <1>2, <1>3, <1>4, <1>5, <1>6
  <2>2. Cardinality(Owners(item)') = Cardinality(Owners(item)) - 1
    <3>1. Owners(item)' = Owners(item) \ {t} /\ t \in Owners(item)
      BY <1>1, <1>2, <1>3, <1>4, <1>5, <1>6 DEF Owners
    <3>. QED
      BY <2>1, <3>1, FS_RemoveElement
  <2>3. Cardinality(Passing(item)') = Cardinality(Passing(item))
    <3>1. Passing(item)' = Passing(item)
      BY <1>1, <1>2, <1>3, <1>4, <1>5, <1>6 DEF Passing
    <3>. QED
      BY <2>1, <3>1
  <2>4. \A i \in Item : i # item => Owners(i)' = Owners(i) /\ Passing(i)' = Passing(i) /\ (i \in lost' <=> i \in lost)
    BY <1>1, <1>2, <1>3, <1>4, <1>5, <1>6 DEF Owners, Passing
  <2>5. /\ strongcount[item] = Cardinality(Owners(item)) + Cardinality(Passing(item)) + (IF item \in lost THEN 1 ELSE 0)
        /\ Cardinality(Owners(item)) \in Nat /\ Cardinality(Passing(item)) \in Nat
    BY <1>1, CountFacts, <1>2, <1>3, <1>4, <1>5, <1>6 DEF CountsMatch
  <2>6. (strongcount[item] - 1) = Cardinality(Owners(item)') + Cardinality(Passing(item)') + (IF item \in lost' THEN 1 ELSE 0)
    BY <1>2, <1>7, <1>8, <2>2, <2>3, <2>5
  <2>7. (strongcount[item] - 1) \in Nat /\ strongcount' = [strongcount EXCEPT ![item] = (strongcount[item] - 1)] /\ strongcount \in [Item -> Nat]
    BY <1>1, <1>2, <1>7, <1>8 DEF Typed, CountersTyped
  <2>. QED
    BY <1>1, <2>4, <2>6, <2>7, CountsStep
<1>21. StackInv' /\ BufferInv' /\ LinkInv' /\ ListInv'
  <2>1. \A i \in Item : Used(i)' <=> Used(i)
    BY <1>1, <1>2, <1>3, <1>4, <1>5, <1>6, <1>7, <1>8, <1>10 DEF Used, ItemPC
  <2>2. pc[t] \notin BufferPC /\ pc'[t] \notin BufferPC
    BY <1>1, <1>2, <1>3, <1>4, <1>5, <1>6, <1>7, <1>8, <1>10 DEF BufferPC
  <2>. QED
    BY <1>1, <1>2, <1>3, <1>4, <1>5, <1>6, <1>7, <1>8, <1>10, <2>1, <2>2, ItemStep
<1>. QED
  BY <1>11, <1>12, <1>13, <1>14, <1>15, <1>16, <1>17, <1>18, <1>19, <1>20, <1>21 DEF IInv

(* Nobody owns the item, so no strong pointer loses its object. *)
LEMMA DestroyDestructInv ==
  ASSUME IInv, NEW t \in Thread, DestroyDestruct(t)
  PROVE  IInv'
<1>1. /\ Typed /\ OwnInv /\ HandInv /\ ObjectInv /\ NewInv /\ WeakInv /\ FreshInv /\ PromoteInv
      /\ LostInv /\ CountsMatch /\ StackInv /\ BufferInv /\ LinkInv /\ ListInv
  BY DEF IInv
<1>2. /\ pc[t] = "ds_destruct" /\ Goto(t, "ds_generation", reg[t]) /\ ended = None
      /\ object' = [object EXCEPT ![reg[t].item] = None]
      /\ UNCHANGED <<generation, strongcount, objects, lost, next, top, size, lengths, after, back, overwritten, own,
                     weak, ended>>
  BY DEF DestroyDestruct, At, counters, stack, chain, handles
<1>3. PICK item \in Item : reg[t].item = item
  BY <1>1, <1>2, Contents DEF ItemPC, PromotePC
<1>4. "ds_generation" \in PCs /\ reg[t] \in Registers("ds_generation") /\ item \in Item /\ reg[t].item = item
  BY <1>1, <1>2, <1>3, Contents DEF PCs, MakePC, ItemPC, PromotePC, Registers
<1>5. /\ pc'[t] = "ds_generation" /\ reg'[t] = reg[t] /\ LocalTyped'
      /\ \A u \in Thread : u # t => pc'[u] = pc[u] /\ reg'[u] = reg[u]
  BY <1>1, <1>2, <1>4, Moves
<1>6. /\ object'[item] = None /\ \A i \in Item : i # item => object'[i] = object[i]
  BY <1>1, <1>2, <1>4 DEF Typed, CountersTyped
<1>7. strongcount[item] = 0 /\ \A u \in Thread : own[u] # None => own[u].item # item /\ own[u].item \in Item
  <2>1. strongcount[item] = 0
    BY <1>1, <1>2, <1>4 DEF HandInv, ItemPC
  <2>2. ASSUME NEW u \in Thread, own[u] # None, own[u].item = item PROVE FALSE
    <3>1. u \in Owners(item)
      BY <2>2 DEF Owners
    <3>. QED
      BY <1>1, <1>4, <2>1, <3>1, CountFacts
  <2>. QED
    BY <1>1, <2>1, <2>2 DEF Typed, HandlesTyped, Pointer
<1>8. \A u \in Thread :
                        /\ weak[u] # None => weak[u].item \in Item /\ weak[u].object # None
                        /\ pc[u] \in MakePC => reg[u].object # None
                        /\ pc[u] \in ItemPC => reg[u].item \in Item
  BY <1>1, Contents, PoolAssumption DEF Typed, HandlesTyped, WeakPointer
<1>9. Typed'
  <2>1. CountersTyped'
    BY <1>1, <1>2, <1>4, <1>5, <1>6, <1>7, <1>8 DEF Typed, CountersTyped
  <2>2. StackTyped' /\ ChainTyped' /\ HandlesTyped'
    BY <1>1, <1>2, <1>4, <1>5, <1>6, <1>7, <1>8 DEF Typed, StackTyped, ChainTyped, HandlesTyped
  <2>. QED
    BY <1>1, <1>2, <1>4, <1>5, <1>6, <1>7, <1>8, <2>1, <2>2 DEF Typed
<1>10. OwnInv'
  BY <1>1, <1>2, <1>4, <1>5, <1>6, <1>7, <1>8 DEF OwnInv
<1>11. HandInv'
  BY <1>1, <1>2, <1>4, <1>5, <1>6, <1>7, <1>8 DEF HandInv, ItemPC
<1>12. ObjectInv'
  BY <1>1, <1>2, <1>4, <1>5, <1>6, <1>7, <1>8 DEF ObjectInv
<1>13. NewInv'
  BY <1>1, <1>2, <1>4, <1>5, <1>6, <1>7, <1>8 DEF NewInv, MakePC
<1>14. WeakInv'
  BY <1>1, <1>2, <1>4, <1>5, <1>6, <1>7, <1>8 DEF WeakInv
<1>15. FreshInv'
  BY <1>1, <1>2, <1>4, <1>5, <1>6, <1>7, <1>8 DEF FreshInv
<1>16. PromoteInv'
  BY <1>1, <1>2, <1>4, <1>5, <1>6, <1>7, <1>8 DEF PromoteInv, PromotePC
<1>17. LostInv'
  BY <1>1, <1>2, <1>4, <1>5, <1>6, <1>7, <1>8 DEF LostInv
<1>18. CountsMatch'
  <2>1. \A i : Owners(i)' = Owners(i) /\ Passing(i)' = Passing(i)
    BY <1>1, <1>2, <1>4, <1>5, <1>6, <1>7, <1>8 DEF Owners, Passing
  <2>. QED
    BY <1>1, <1>2, <1>4, <1>5, <1>6, <1>7, <1>8, <2>1 DEF CountsMatch
<1>19. StackInv' /\ BufferInv' /\ LinkInv' /\ ListInv'
  <2>1. \A i \in Item : Used(i)' <=> Used(i)
    BY <1>1, <1>2, <1>4, <1>5, <1>6, <1>7, <1>8 DEF Used, ItemPC
  <2>2. pc[t] \notin BufferPC /\ pc'[t] \notin BufferPC
    BY <1>1, <1>2, <1>4, <1>5, <1>6, <1>7, <1>8 DEF BufferPC
  <2>. QED
    BY <1>1, <1>2, <1>4, <1>5, <1>6, <1>7, <1>8, <2>1, <2>2, ItemStep
<1>. QED
  BY <1>9, <1>10, <1>11, <1>12, <1>13, <1>14, <1>15, <1>16, <1>17, <1>18, <1>19 DEF IInv

(* The weak pointers to the object are out of date. *)
LEMMA DestroyGenerationInv ==
  ASSUME IInv, NEW t \in Thread, DestroyGeneration(t)
  PROVE  IInv'
<1>1. /\ Typed /\ OwnInv /\ HandInv /\ ObjectInv /\ NewInv /\ WeakInv /\ FreshInv /\ PromoteInv
      /\ LostInv /\ CountsMatch /\ StackInv /\ BufferInv /\ LinkInv /\ ListInv
  BY DEF IInv
<1>2. /\ pc[t] = "ds_generation" /\ Goto(t, "ds_lock", reg[t]) /\ ended = None
      /\ generation' = [generation EXCEPT ![reg[t].item] = @ + 1]
      /\ UNCHANGED <<strongcount, object, objects, lost, next, top, size, lengths, after, back, overwritten, own,
                     weak, ended>>
  BY DEF DestroyGeneration, At, counters, stack, chain, handles
<1>3. PICK item \in Item : reg[t].item = item
  BY <1>1, <1>2, Contents DEF ItemPC, PromotePC
<1>4. "ds_lock" \in PCs /\ reg[t] \in Registers("ds_lock") /\ item \in Item /\ reg[t].item = item
  BY <1>1, <1>2, <1>3, Contents DEF PCs, MakePC, ItemPC, PromotePC, Registers
<1>5. /\ pc'[t] = "ds_lock" /\ reg'[t] = reg[t] /\ LocalTyped'
      /\ \A u \in Thread : u # t => pc'[u] = pc[u] /\ reg'[u] = reg[u]
  BY <1>1, <1>2, <1>4, Moves
<1>6. generation'[item] = generation[item] + 1 /\ generation[item] \in Nat
      /\ \A i \in Item : i # item => generation'[i] = generation[i]
  BY <1>1, <1>2, <1>4 DEF Typed, CountersTyped
<1>7. \A u \in Thread : weak[u] # None => weak[u].item \in Item /\ weak[u].generation \in Nat /\ weak[u].object \in Nat
  BY <1>1 DEF Typed, HandlesTyped, WeakPointer
<1>8. \A u \in Thread : weak[u] # None =>
         /\ weak[u].generation <= generation[weak[u].item]
         /\ weak[u].item # item => generation'[weak[u].item] = generation[weak[u].item]
  BY <1>1, <1>6, <1>7 DEF WeakInv
<1>9. object[item] = None /\ None \notin Nat
  BY <1>1, <1>2, <1>4, PoolAssumption DEF HandInv, ItemPC
<1>10. Typed'
  <2>1. CountersTyped'
    BY <1>1, <1>2, <1>4, <1>5, <1>6 DEF Typed, CountersTyped
  <2>2. StackTyped' /\ ChainTyped' /\ HandlesTyped'
    BY <1>1, <1>2, <1>4, <1>5, <1>6 DEF Typed, StackTyped, ChainTyped, HandlesTyped
  <2>. QED
    BY <1>1, <1>2, <1>4, <1>5, <1>6, <2>1, <2>2 DEF Typed
<1>11. OwnInv'
  BY <1>1, <1>2, <1>4, <1>5, <1>6 DEF OwnInv
<1>12. HandInv'
  BY <1>1, <1>2, <1>4, <1>5, <1>6 DEF HandInv, ItemPC
<1>13. ObjectInv'
  BY <1>1, <1>2, <1>4, <1>5, <1>6 DEF ObjectInv
<1>14. NewInv'
  BY <1>1, <1>2, <1>4, <1>5, <1>6 DEF NewInv, MakePC
<1>15. WeakInv'
  <2>1. ASSUME NEW u \in Thread, weak[u] # None, NEW i \in Item, object[i] = weak[u].object
        PROVE  i # item
    BY <1>7, <1>9, <2>1
  <2>2. ASSUME NEW u \in Thread, weak[u] # None, generation'[weak[u].item] = weak[u].generation
        PROVE  weak[u].item # item
    <3>1. weak[u].generation <= generation[weak[u].item]
      BY <1>1, <2>2 DEF WeakInv
    <3>. QED
      BY <1>6, <1>7, <2>2, <3>1
  <2>. QED
    BY <1>1, <1>2, <1>4, <1>5, <1>6, <1>7, <1>8, <2>1, <2>2 DEF WeakInv
<1>16. FreshInv'
  <2>1. \A u \in Thread : weak[u] # None /\ (weak[u].generation < generation[weak[u].item] \/ weak[u].item = item) =>
             weak[u].generation < generation'[weak[u].item]
    BY <1>6, <1>7, <1>8
  <2>. QED
    BY <1>1, <1>2, <1>4, <1>5, <2>1 DEF FreshInv
<1>17. PromoteInv'
  <2>1. ASSUME NEW u \in Thread, pc[u] \in PromotePC
        PROVE  /\ generation'[reg[u].item] = weak[u].generation => generation[reg[u].item] = weak[u].generation
               /\ weak[u].generation < generation[reg[u].item] => weak[u].generation < generation'[reg[u].item]
    <3>1. weak[u] # None /\ weak[u].item = reg[u].item
      BY <1>1, <2>1 DEF PromoteInv
    <3>. QED
      BY <1>6, <1>7, <1>8, <3>1
  <2>. QED
    BY <1>1, <1>2, <1>4, <1>5, <2>1 DEF PromoteInv, PromotePC
<1>18. LostInv'
  BY <1>1, <1>2, <1>4, <1>5, <1>6 DEF LostInv
<1>19. CountsMatch'
  <2>1. \A i : Owners(i)' = Owners(i) /\ Passing(i)' = Passing(i)
    BY <1>1, <1>2, <1>4, <1>5, <1>6 DEF Owners, Passing
  <2>. QED
    BY <1>1, <1>2, <1>4, <1>5, <1>6, <2>1 DEF CountsMatch
<1>20. StackInv' /\ BufferInv' /\ LinkInv' /\ ListInv'
  <2>1. \A i \in Item : Used(i)' <=> Used(i)
    BY <1>1, <1>2, <1>4, <1>5, <1>6 DEF Used, ItemPC
  <2>2. pc[t] \notin BufferPC /\ pc'[t] \notin BufferPC
    BY <1>1, <1>2, <1>4, <1>5, <1>6 DEF BufferPC
  <2>. QED
    BY <1>1, <1>2, <1>4, <1>5, <1>6, <2>1, <2>2, ItemStep
<1>. QED
  BY <1>10, <1>11, <1>12, <1>13, <1>14, <1>15, <1>16, <1>17, <1>18, <1>19, <1>20 DEF IInv

(* The item leaves the thread's hands for the top of the stack. *)
LEMMA DestroyPushInv ==
  ASSUME IInv, NEW t \in Thread, DestroyPush(t)
  PROVE  IInv'
<1>1. /\ Typed /\ OwnInv /\ HandInv /\ ObjectInv /\ NewInv /\ WeakInv /\ FreshInv /\ PromoteInv
      /\ LostInv /\ CountsMatch /\ StackInv /\ BufferInv /\ LinkInv /\ ListInv
  BY DEF IInv
<1>2. /\ pc[t] = "ds_push" /\ Goto(t, "idle", None) /\ ended = None
      /\ next' = [next EXCEPT ![reg[t].item] = top] /\ size' = size + 1 /\ top' = reg[t].item
      /\ UNCHANGED <<generation, strongcount, object, objects, lost, lengths, after, back, overwritten, own, weak,
                     ended>>
  BY DEF DestroyPush, Push, Unlock, Return, At, counters, stack, chain, handles
<1>3. PICK item \in Item : reg[t].item = item
  BY <1>1, <1>2, Contents DEF ItemPC
<1>4. "idle" \in PCs /\ None \in Registers("idle")
  BY DEF PCs, Registers
<1>5. /\ pc'[t] = "idle" /\ reg'[t] = None /\ LocalTyped'
      /\ \A u \in Thread : u # t => pc'[u] = pc[u] /\ reg'[u] = reg[u]
  BY <1>1, <1>2, <1>4, Moves
<1>6. top' = item /\ next'[item] = top /\ \A i \in Item : i # item => next'[i] = next[i]
  BY <1>1, <1>2, <1>3 DEF Typed, StackTyped
<1>7. /\ next \in [Item -> Item \cup {None}] /\ next' \in [Item -> Item \cup {None}]
      /\ top \in Item \cup {None} /\ size \in Nat
  BY <1>1, <1>2, <1>3 DEF Typed, StackTyped
<1>8. Used(item) /\ item \notin Free
  BY <1>1, <1>2, <1>3 DEF Used, ItemPC, StackInv
<1>9. /\ Free \subseteq Item /\ (top # None => top \in Free)
      /\ \A i \in Free : next[i] # None => next[i] \in Free
  BY <1>7, OnListFacts DEF Free
<1>10. Free' = Free \cup {item}
  <2>1. item \notin OnList(top, next) /\ next' = [next EXCEPT ![item] = top]
    BY <1>3, <1>2, <1>8 DEF Free
  <2>2. OnList(item, next') = OnList(top, next) \cup {item}
    BY <1>3, <1>7, <2>1, ListPushed
  <2>. QED
    BY <1>6, <2>2 DEF Free
<1>11. strongcount[item] = 0 /\ \A u \in Thread : u # t /\ pc[u] \in ItemPC => reg[u].item # item
  BY <1>1, <1>2, <1>3 DEF HandInv, ItemPC
<1>12. \A i \in Item : Used(i)' <=> Used(i) /\ i # item
  BY <1>2, <1>3, <1>5, <1>11 DEF Used, ItemPC
<1>13. Typed'
  <2>1. CountersTyped'
    BY <1>1, <1>2, <1>3, <1>5, <1>6, <1>11, <1>7 DEF Typed, CountersTyped
  <2>2. StackTyped' /\ ChainTyped' /\ HandlesTyped'
    BY <1>1, <1>2, <1>3, <1>5, <1>6, <1>11, <1>7 DEF Typed, StackTyped, ChainTyped, HandlesTyped
  <2>. QED
    BY <1>1, <1>2, <1>3, <1>5, <1>6, <1>11, <1>7, <2>1, <2>2 DEF Typed
<1>14. OwnInv'
  BY <1>1, <1>2, <1>3, <1>5, <1>6, <1>11 DEF OwnInv
<1>15. HandInv'
  BY <1>1, <1>2, <1>3, <1>5, <1>6, <1>11 DEF HandInv, ItemPC
<1>16. ObjectInv'
  BY <1>1, <1>2, <1>3, <1>5, <1>6, <1>11 DEF ObjectInv
<1>17. NewInv'
  BY <1>1, <1>2, <1>3, <1>5, <1>6, <1>11 DEF NewInv, MakePC
<1>18. WeakInv'
  BY <1>1, <1>2, <1>3, <1>5, <1>6, <1>11 DEF WeakInv
<1>19. FreshInv'
  BY <1>1, <1>2, <1>3, <1>5, <1>6, <1>11 DEF FreshInv
<1>20. PromoteInv'
  BY <1>1, <1>2, <1>3, <1>5, <1>6, <1>11 DEF PromoteInv, PromotePC
<1>21. LostInv'
  BY <1>1, <1>2, <1>3, <1>5, <1>6, <1>11 DEF LostInv
<1>22. CountsMatch'
  <2>1. \A i : Owners(i)' = Owners(i) /\ Passing(i)' = Passing(i)
    BY <1>1, <1>2, <1>3, <1>5, <1>6, <1>11 DEF Owners, Passing
  <2>. QED
    BY <1>1, <1>2, <1>3, <1>5, <1>6, <1>11, <2>1 DEF CountsMatch
<1>23. StackInv'
  <2>1. IsFiniteSet(Free') /\ Cardinality(Free') = size'
    BY <1>1, <1>2, <1>8, <1>10, FS_AddElement DEF StackInv
  <2>2. \A i \in Free' : ~Used(i)'
    BY <1>1, <1>9, <1>10, <1>12 DEF StackInv
  <2>3. \A i \in Free' : next'[i] # top'
    <3>1. top # item /\ item # None
      BY <1>8, <1>9, PoolAssumption DEF Item
    <3>. QED
      BY <1>6, <1>8, <1>9, <1>10, <3>1
  <2>4. \A i, j \in Free' : next'[i] = next'[j] /\ next'[i] # None => i = j
    BY <1>1, <1>6, <1>8, <1>9, <1>10 DEF StackInv
  <2>. QED
    BY <2>1, <2>2, <2>3, <2>4 DEF StackInv
<1>24. BufferInv'
  <2>1. \A i \in Item : i \in Free' \/ Used(i)' <=> i \in Free \/ Used(i)
    BY <1>8, <1>10, <1>12
  <2>2. Growers' = Growers /\ \A u \in Growers : reg'[u] = reg[u]
    BY <1>1, <1>5, <1>2 DEF Growers, BufferPC
  <2>. QED
    BY <1>1, <1>2, <2>1, <2>2, BufferFrame
<1>25. LinkInv' /\ ListInv'
  BY <1>1, <1>2, <1>3, <1>5, <1>6, <1>11, ListFrame DEF Growing
<1>. QED
  BY <1>13, <1>14, <1>15, <1>16, <1>17, <1>18, <1>19, <1>20, <1>21, <1>22, <1>23, <1>24, <1>25 DEF IInv

(* The weak pointer is made while the object has an owner. *)
LEMMA WeakenInv ==
  ASSUME IInv, NEW t \in Thread, NEW u \in Thread, Weaken(t, u)
  PROVE  IInv'
<1>1. /\ Typed /\ OwnInv /\ HandInv /\ ObjectInv /\ NewInv /\ WeakInv /\ FreshInv /\ PromoteInv
      /\ LostInv /\ CountsMatch /\ StackInv /\ BufferInv /\ LinkInv /\ ListInv
  BY DEF IInv
<1>2. /\ pc[u] = "idle" /\ own[t] # None /\ ended = None /\ pc[t] = "idle"
      /\ weak' = [weak EXCEPT ![u] = [item |-> own[t].item, object |-> own[t].object,
                                       generation |-> generation[own[t].item]]]
      /\ UNCHANGED <<generation, strongcount, object, objects, lost, next, top, size, lengths, after,
                     back, overwritten, own, ended>> /\ UNCHANGED <<pc, reg>>
  BY DEF Weaken, Idle, At, counters, stack, chain, handles
<1>3. PICK item \in Item : own[t].item = item
  BY <1>1, <1>2 DEF Typed, HandlesTyped, Pointer
<1>4. PICK o \in Nat : own[t].object = o
  BY <1>1, <1>2 DEF Typed, HandlesTyped, Pointer
<1>5. generation[item] \in Nat /\ object[item] = o /\ None \notin Nat /\ None \notin WeakPointer
  BY <1>1, <1>2, <1>3, <1>4, PoolAssumption DEF OwnInv, Typed, CountersTyped, WeakPointer
<1>6. PICK w \in WeakPointer : w.item = item /\ w.object = o /\ w.generation = generation[item]
                              /\ weak'[u] = w
  <2>. DEFINE w == [item |-> item, object |-> o, generation |-> generation[item]]
  <2>1. w \in WeakPointer /\ w.item = item /\ w.object = o /\ w.generation = generation[item]
    BY <1>5 DEF WeakPointer
  <2>2. weak'[u] = w
    BY <1>1, <1>2, <1>3, <1>4 DEF Typed, HandlesTyped
  <2>. QED
    BY <2>1, <2>2
<1>7. weak'[u] # None /\ \A v \in Thread : v # u => weak'[v] = weak[v]
  BY <1>1, <1>2, <1>5, <1>6 DEF Typed, HandlesTyped
<1>8. weak' \in [Thread -> WeakPointer \cup {None}]
  <2>1. weak' = [weak EXCEPT ![u] = w]
    BY <1>1, <1>2, <1>3, <1>4, <1>6 DEF Typed, HandlesTyped
  <2>. QED
    BY <1>1, <1>6, <2>1 DEF Typed, HandlesTyped
<1>9. item \notin lost /\ o \in 1 .. objects /\ \A i \in Item : object[i] = o => i = item
  BY <1>1, <1>5 DEF LostInv, ObjectInv
<1>10. \A v \in Thread : pc[v] \in {"mk_strong", "mk_construct"} => reg[v].item # item
  BY <1>1, <1>5 DEF HandInv, ItemPC
<1>11. Typed'
  <2>1. LocalTyped' /\ CountersTyped' /\ StackTyped' /\ ChainTyped'
    BY <1>1, <1>2 DEF Typed, LocalTyped, CountersTyped, StackTyped, ChainTyped
  <2>2. HandlesTyped'
    BY <1>1, <1>2, <1>8 DEF Typed, HandlesTyped
  <2>. QED
    BY <1>1, <1>2, <2>1, <2>2 DEF Typed
<1>12. OwnInv'
  BY <1>1, <1>2, <1>7 DEF OwnInv
<1>13. HandInv'
  BY <1>1, <1>2, <1>7 DEF HandInv, ItemPC
<1>14. ObjectInv'
  BY <1>1, <1>2, <1>7 DEF ObjectInv
<1>15. NewInv'
  BY <1>1, <1>2, <1>7, <1>5, <1>6 DEF NewInv, MakePC
<1>16. WeakInv'
  BY <1>1, <1>2, <1>7, <1>5, <1>6, <1>9 DEF WeakInv
<1>17. FreshInv'
  BY <1>1, <1>2, <1>7, <1>5, <1>6, <1>9, <1>10 DEF FreshInv
<1>18. PromoteInv'
  BY <1>1, <1>2, <1>7 DEF PromoteInv, PromotePC
<1>19. LostInv'
  BY <1>1, <1>2, <1>7 DEF LostInv
<1>20. CountsMatch'
  <2>1. \A i : Owners(i)' = Owners(i) /\ Passing(i)' = Passing(i)
    BY <1>1, <1>2, <1>7 DEF Owners, Passing
  <2>. QED
    BY <1>1, <1>2, <1>7, <2>1 DEF CountsMatch
<1>21. StackInv' /\ BufferInv' /\ LinkInv' /\ ListInv'
  <2>1. \A i \in Item : Used(i)' <=> Used(i)
    BY <1>1, <1>2, <1>7 DEF Used, ItemPC
  <2>2. pc[t] \notin BufferPC /\ pc'[t] \notin BufferPC
    BY <1>1, <1>2, <1>7 DEF BufferPC
  <2>. QED
    BY <1>1, <1>2, <1>7, <2>1, <2>2, ItemStep
<1>. QED
  BY <1>11, <1>12, <1>13, <1>14, <1>15, <1>16, <1>17, <1>18, <1>19, <1>20, <1>21 DEF IInv

(* The count that the thread remembers is the current one. *)
LEMMA PromoteStartsInv ==
  ASSUME IInv, NEW t \in Thread, Promote(t)
  PROVE  IInv'
<1>1. /\ Typed /\ OwnInv /\ HandInv /\ ObjectInv /\ NewInv /\ WeakInv /\ FreshInv /\ PromoteInv
      /\ LostInv /\ CountsMatch /\ StackInv /\ BufferInv /\ LinkInv /\ ListInv
  BY DEF IInv
<1>. DEFINE r == [item |-> weak[t].item, count |-> strongcount[weak[t].item]]
<1>2. /\ pc[t] = "idle" /\ weak[t] # None /\ own[t] = None /\ Goto(t, "pr_generation", r) /\ ended = None
      /\ UNCHANGED <<generation, strongcount, object, objects, lost, next, top, size, lengths, after,
                     back, overwritten, own, weak, ended>>
  BY DEF Promote, Idle, At, counters, stack, chain, handles
<1>3. PICK item \in Item : weak[t].item = item
  BY <1>1, <1>2 DEF Typed, HandlesTyped, WeakPointer
<1>4. "pr_generation" \in PCs /\ r \in Registers("pr_generation") /\ r.item = item /\ r.count = strongcount[item]
  BY <1>1, <1>3 DEF PCs, PromotePC, Registers, PromoteRegs, Typed, CountersTyped
<1>. HIDE DEF r
<1>5. /\ pc'[t] = "pr_generation" /\ reg'[t] = r /\ LocalTyped'
      /\ \A u \in Thread : u # t => pc'[u] = pc[u] /\ reg'[u] = reg[u]
  BY <1>1, <1>2, <1>4, Moves
<1>6. Typed'
  <2>1. CountersTyped'
    BY <1>1, <1>2, <1>3, <1>4, <1>5 DEF Typed, CountersTyped
  <2>2. StackTyped' /\ ChainTyped' /\ HandlesTyped'
    BY <1>1, <1>2, <1>3, <1>4, <1>5 DEF Typed, StackTyped, ChainTyped, HandlesTyped
  <2>. QED
    BY <1>1, <1>2, <1>3, <1>4, <1>5, <2>1, <2>2 DEF Typed
<1>7. OwnInv'
  BY <1>1, <1>2, <1>3, <1>4, <1>5 DEF OwnInv
<1>8. HandInv'
  BY <1>1, <1>2, <1>3, <1>4, <1>5 DEF HandInv, ItemPC
<1>9. ObjectInv'
  BY <1>1, <1>2, <1>3, <1>4, <1>5 DEF ObjectInv
<1>10. NewInv'
  BY <1>1, <1>2, <1>3, <1>4, <1>5 DEF NewInv, MakePC
<1>11. WeakInv'
  BY <1>1, <1>2, <1>3, <1>4, <1>5 DEF WeakInv
<1>12. FreshInv'
  BY <1>1, <1>2, <1>3, <1>4, <1>5 DEF FreshInv
<1>13. PromoteInv'
  BY <1>1, <1>2, <1>3, <1>4, <1>5 DEF PromoteInv, PromotePC
<1>14. LostInv'
  BY <1>1, <1>2, <1>3, <1>4, <1>5 DEF LostInv
<1>15. CountsMatch'
  <2>1. \A i : Owners(i)' = Owners(i) /\ Passing(i)' = Passing(i)
    BY <1>1, <1>2, <1>3, <1>4, <1>5 DEF Owners, Passing
  <2>. QED
    BY <1>1, <1>2, <1>3, <1>4, <1>5, <2>1 DEF CountsMatch
<1>16. StackInv' /\ BufferInv' /\ LinkInv' /\ ListInv'
  <2>1. \A i \in Item : Used(i)' <=> Used(i)
    BY <1>1, <1>2, <1>3, <1>4, <1>5 DEF Used, ItemPC
  <2>2. pc[t] \notin BufferPC /\ pc'[t] \notin BufferPC
    BY <1>1, <1>2, <1>3, <1>4, <1>5 DEF BufferPC
  <2>. QED
    BY <1>1, <1>2, <1>3, <1>4, <1>5, <2>1, <2>2, ItemStep
<1>. QED
  BY <1>6, <1>7, <1>8, <1>9, <1>10, <1>11, <1>12, <1>13, <1>14, <1>15, <1>16 DEF IInv

(* The thread forgets its weak pointer. *)
LEMMA PromotionFailsInv ==
  ASSUME IInv, NEW t \in Thread, ended = None, pc[t] \in {"pr_generation", "pr_exchange"},
         PromotionFails(t), UNCHANGED <<counters, stack, chain, ended>>
  PROVE  IInv'
<1>1. /\ Typed /\ OwnInv /\ HandInv /\ ObjectInv /\ NewInv /\ WeakInv /\ FreshInv /\ PromoteInv
      /\ LostInv /\ CountsMatch /\ StackInv /\ BufferInv /\ LinkInv /\ ListInv
  BY DEF IInv
<1>2. /\ pc[t] \in {"pr_generation", "pr_exchange"} /\ Goto(t, "idle", None) /\ ended = None
      /\ weak' = [weak EXCEPT ![t] = None]
         /\ UNCHANGED <<generation, strongcount, object, objects, lost, next, top, size, lengths, after,
                        back, overwritten, own, ended>>
  BY DEF PromotionFails, Return, counters, stack, chain, handles
<1>3. "idle" \in PCs /\ None \in Registers("idle")
  BY DEF PCs, Registers
<1>4. /\ pc'[t] = "idle" /\ reg'[t] = None /\ LocalTyped'
      /\ \A u \in Thread : u # t => pc'[u] = pc[u] /\ reg'[u] = reg[u]
  BY <1>1, <1>2, <1>3, Moves
<1>5. weak'[t] = None /\ \A u \in Thread : u # t => weak'[u] = weak[u]
  BY <1>1, <1>2 DEF Typed, HandlesTyped
<1>6. Typed'
  <2>1. CountersTyped'
    BY <1>1, <1>2, <1>4, <1>5 DEF Typed, CountersTyped
  <2>2. StackTyped' /\ ChainTyped' /\ HandlesTyped'
    BY <1>1, <1>2, <1>4, <1>5 DEF Typed, StackTyped, ChainTyped, HandlesTyped
  <2>. QED
    BY <1>1, <1>2, <1>4, <1>5, <2>1, <2>2 DEF Typed
<1>7. OwnInv'
  BY <1>1, <1>2, <1>4, <1>5 DEF OwnInv
<1>8. HandInv'
  BY <1>1, <1>2, <1>4, <1>5 DEF HandInv, ItemPC
<1>9. ObjectInv'
  BY <1>1, <1>2, <1>4, <1>5 DEF ObjectInv
<1>10. NewInv'
  BY <1>1, <1>2, <1>4, <1>5 DEF NewInv, MakePC
<1>11. WeakInv'
  BY <1>1, <1>2, <1>4, <1>5 DEF WeakInv
<1>12. FreshInv'
  BY <1>1, <1>2, <1>4, <1>5 DEF FreshInv
<1>13. PromoteInv'
  BY <1>1, <1>2, <1>4, <1>5 DEF PromoteInv, PromotePC
<1>14. LostInv'
  BY <1>1, <1>2, <1>4, <1>5 DEF LostInv
<1>15. CountsMatch'
  <2>1. \A i : Owners(i)' = Owners(i) /\ Passing(i)' = Passing(i)
    BY <1>1, <1>2, <1>4, <1>5 DEF Owners, Passing
  <2>. QED
    BY <1>1, <1>2, <1>4, <1>5, <2>1 DEF CountsMatch
<1>16. StackInv' /\ BufferInv' /\ LinkInv' /\ ListInv'
  <2>1. \A i \in Item : Used(i)' <=> Used(i)
    BY <1>1, <1>2, <1>4, <1>5 DEF Used, ItemPC
  <2>2. pc[t] \notin BufferPC /\ pc'[t] \notin BufferPC
    BY <1>1, <1>2, <1>4, <1>5 DEF BufferPC
  <2>. QED
    BY <1>1, <1>2, <1>4, <1>5, <2>1, <2>2, ItemStep
<1>. QED
  BY <1>6, <1>7, <1>8, <1>9, <1>10, <1>11, <1>12, <1>13, <1>14, <1>15, <1>16 DEF IInv

(* The object is gone, or the item used again. *)
LEMMA PromoteLoadGenerationFailsInv ==
  ASSUME IInv, NEW t \in Thread, PromoteLoadGeneration(t),
         reg[t].count = 0 \/ generation[reg[t].item] # weak[t].generation
  PROVE  IInv'
  BY PromotionFailsInv DEF PromoteLoadGeneration, At

(* The generation is the weak pointer's, so the item is not lost. *)
LEMMA PromoteLoadGenerationInv ==
  ASSUME IInv, NEW t \in Thread, PromoteLoadGeneration(t),
         reg[t].count # 0, generation[reg[t].item] = weak[t].generation
  PROVE  IInv'
<1>1. /\ Typed /\ OwnInv /\ HandInv /\ ObjectInv /\ NewInv /\ WeakInv /\ FreshInv /\ PromoteInv
      /\ LostInv /\ CountsMatch /\ StackInv /\ BufferInv /\ LinkInv /\ ListInv
  BY DEF IInv
<1>2. /\ pc[t] = "pr_generation" /\ Goto(t, "pr_exchange", reg[t]) /\ ended = None
      /\ reg[t].count # 0
      /\ UNCHANGED <<generation, strongcount, object, objects, lost, next, top, size, lengths, after,
                     back, overwritten, own, weak, ended>>
  BY DEF PromoteLoadGeneration, At, counters, stack, chain, handles
<1>3. PICK item \in Item : reg[t].item = item
  BY <1>1, <1>2, Contents DEF ItemPC, PromotePC
<1>4. "pr_exchange" \in PCs /\ reg[t] \in Registers("pr_exchange") /\ item \in Item /\ reg[t].item = item
  BY <1>1, <1>2, <1>3, Contents DEF PCs, MakePC, ItemPC, PromotePC, Registers
<1>5. /\ pc'[t] = "pr_exchange" /\ reg'[t] = reg[t] /\ LocalTyped'
      /\ \A u \in Thread : u # t => pc'[u] = pc[u] /\ reg'[u] = reg[u]
  BY <1>1, <1>2, <1>4, Moves
<1>6. weak[t] # None /\ weak[t].item = item /\ weak[t].generation \in Nat
  BY <1>1, <1>2, <1>4 DEF PromoteInv, PromotePC, Typed, HandlesTyped, WeakPointer
<1>7. item \notin lost
  BY <1>1, <1>4, <1>6 DEF FreshInv
<1>8. lost \subseteq Item
  BY <1>1 DEF Typed, CountersTyped
<1>9. Typed'
  <2>1. CountersTyped'
    BY <1>1, <1>2, <1>4, <1>5, <1>6, <1>7 DEF Typed, CountersTyped
  <2>2. StackTyped' /\ ChainTyped' /\ HandlesTyped'
    BY <1>1, <1>2, <1>4, <1>5, <1>6, <1>7 DEF Typed, StackTyped, ChainTyped, HandlesTyped
  <2>. QED
    BY <1>1, <1>2, <1>4, <1>5, <1>6, <1>7, <2>1, <2>2 DEF Typed
<1>10. OwnInv'
  BY <1>1, <1>2, <1>4, <1>5, <1>6, <1>7 DEF OwnInv
<1>11. HandInv'
  BY <1>1, <1>2, <1>4, <1>5, <1>6, <1>7 DEF HandInv, ItemPC
<1>12. ObjectInv'
  BY <1>1, <1>2, <1>4, <1>5, <1>6, <1>7 DEF ObjectInv
<1>13. NewInv'
  BY <1>1, <1>2, <1>4, <1>5, <1>6, <1>7 DEF NewInv, MakePC
<1>14. WeakInv'
  BY <1>1, <1>2, <1>4, <1>5, <1>6, <1>7 DEF WeakInv
<1>15. FreshInv'
  BY <1>1, <1>2, <1>4, <1>5, <1>6, <1>7 DEF FreshInv
<1>16. PromoteInv'
  BY <1>1, <1>2, <1>4, <1>5, <1>6, <1>7 DEF PromoteInv, PromotePC
<1>17. LostInv'
  BY <1>1, <1>2, <1>4, <1>5, <1>6, <1>7 DEF LostInv
<1>18. CountsMatch'
  <2>1. \A i : Owners(i)' = Owners(i) /\ Passing(i)' = Passing(i)
    BY <1>1, <1>2, <1>4, <1>5, <1>6, <1>7 DEF Owners, Passing
  <2>. QED
    BY <1>1, <1>2, <1>4, <1>5, <1>6, <1>7, <2>1 DEF CountsMatch
<1>19. StackInv' /\ BufferInv' /\ LinkInv' /\ ListInv'
  <2>1. \A i \in Item : Used(i)' <=> Used(i)
    BY <1>1, <1>2, <1>4, <1>5, <1>6, <1>7 DEF Used, ItemPC
  <2>2. pc[t] \notin BufferPC /\ pc'[t] \notin BufferPC
    BY <1>1, <1>2, <1>4, <1>5, <1>6, <1>7 DEF BufferPC
  <2>. QED
    BY <1>1, <1>2, <1>4, <1>5, <1>6, <1>7, <2>1, <2>2, ItemStep
<1>. QED
  BY <1>9, <1>10, <1>11, <1>12, <1>13, <1>14, <1>15, <1>16, <1>17, <1>18, <1>19 DEF IInv

(* One more count, of a thread in passing. *)
LEMMA PromoteExchangeInv ==
  ASSUME IInv, NEW t \in Thread, PromoteExchange(t)
  PROVE  IInv'
<1>1. /\ Typed /\ OwnInv /\ HandInv /\ ObjectInv /\ NewInv /\ WeakInv /\ FreshInv /\ PromoteInv
      /\ LostInv /\ CountsMatch /\ StackInv /\ BufferInv /\ LinkInv /\ ListInv
  BY DEF IInv
<1>. DEFINE r == [item |-> reg[t].item]
<1>2. /\ pc[t] = "pr_exchange" /\ strongcount[reg[t].item] = reg[t].count /\ Goto(t, "pr_check", r) /\ ended = None
      /\ strongcount' = [strongcount EXCEPT ![reg[t].item] = @ + 1]
         /\ UNCHANGED <<generation, object, objects, lost, next, top, size, lengths, after, back, overwritten, own,
                        weak, ended>>
  BY DEF PromoteExchange, At, counters, stack, chain, handles
<1>3. PICK item \in Item : reg[t].item = item
  BY <1>1, <1>2, Contents DEF PromotePC
<1>4. "pr_check" \in PCs /\ r \in Registers("pr_check") /\ r.item = item /\ reg[t].item = item /\ item \in Item
  BY <1>3 DEF PCs, PromotePC, Registers, ItemRegs
<1>. HIDE DEF r
<1>5. /\ pc'[t] = "pr_check" /\ reg'[t] = r /\ LocalTyped'
      /\ \A u \in Thread : u # t => pc'[u] = pc[u] /\ reg'[u] = reg[u]
  BY <1>1, <1>2, <1>4, Moves
<1>6. strongcount \in [Item -> Nat] /\ strongcount[item] \in Nat
  BY <1>1, <1>4 DEF Typed, CountersTyped
<1>7. strongcount[item] # 0
  BY <1>1, <1>2, <1>4 DEF PromoteInv, PromotePC
<1>8. strongcount' = [strongcount EXCEPT ![item] = strongcount[item] + 1]
  BY <1>2, <1>4
<1>9. /\ strongcount' = [strongcount EXCEPT ![item] = strongcount[item] + 1] /\ strongcount[item] + 1 \in Nat
      /\ strongcount'[item] # 0 /\ strongcount'[item] = strongcount[item] + 1
      /\ \A i \in Item : i # item => strongcount'[i] = strongcount[i]
  BY <1>8, <1>4, <1>6
<1>10. Typed'
  <2>1. CountersTyped'
    BY <1>1, <1>2, <1>4, <1>5, <1>9, <1>7 DEF Typed, CountersTyped
  <2>2. StackTyped' /\ ChainTyped' /\ HandlesTyped'
    BY <1>1, <1>2, <1>4, <1>5, <1>9, <1>7 DEF Typed, StackTyped, ChainTyped, HandlesTyped
  <2>. QED
    BY <1>1, <1>2, <1>4, <1>5, <1>9, <1>7, <2>1, <2>2 DEF Typed
<1>11. OwnInv'
  BY <1>1, <1>2, <1>4, <1>5, <1>9, <1>7 DEF OwnInv
<1>12. HandInv'
  BY <1>1, <1>2, <1>4, <1>5, <1>9, <1>7 DEF HandInv, ItemPC
<1>13. ObjectInv'
  BY <1>1, <1>2, <1>4, <1>5, <1>9, <1>7 DEF ObjectInv
<1>14. NewInv'
  BY <1>1, <1>2, <1>4, <1>5, <1>9, <1>7 DEF NewInv, MakePC
<1>15. WeakInv'
  BY <1>1, <1>2, <1>4, <1>5, <1>9, <1>7 DEF WeakInv
<1>16. FreshInv'
  BY <1>1, <1>2, <1>4, <1>5, <1>9, <1>7 DEF FreshInv
<1>17. PromoteInv'
  BY <1>1, <1>2, <1>4, <1>5, <1>9, <1>7 DEF PromoteInv, PromotePC
<1>18. LostInv'
  BY <1>1, <1>2, <1>4, <1>5 DEF LostInv
<1>19. CountsMatch'
  <2>1. IsFiniteSet(Owners(item)) /\ IsFiniteSet(Passing(item))
    BY <1>1, CountFacts, <1>2, <1>4, <1>5, <1>9
  <2>2. Cardinality(Owners(item)') = Cardinality(Owners(item))
    <3>1. Owners(item)' = Owners(item)
      BY <1>1, <1>2, <1>4, <1>5, <1>9 DEF Owners
    <3>. QED
      BY <2>1, <3>1
  <2>3. Cardinality(Passing(item)') = Cardinality(Passing(item)) + 1
    <3>1. Passing(item)' = Passing(item) \cup {t} /\ t \notin Passing(item)
      BY <1>1, <1>2, <1>4, <1>5, <1>9 DEF Passing
    <3>. QED
      BY <2>1, <3>1, FS_AddElement
  <2>4. \A i \in Item : i # item => Owners(i)' = Owners(i) /\ Passing(i)' = Passing(i) /\ (i \in lost' <=> i \in lost)
    BY <1>1, <1>2, <1>4, <1>5, <1>9 DEF Owners, Passing
  <2>5. /\ strongcount[item] = Cardinality(Owners(item)) + Cardinality(Passing(item)) + (IF item \in lost THEN 1 ELSE 0)
        /\ Cardinality(Owners(item)) \in Nat /\ Cardinality(Passing(item)) \in Nat
    BY <1>1, CountFacts, <1>2, <1>4, <1>5, <1>9 DEF CountsMatch
  <2>6. (strongcount[item] + 1) = Cardinality(Owners(item)') + Cardinality(Passing(item)') + (IF item \in lost' THEN 1 ELSE 0)
    BY <1>2, <1>4, <1>9, <1>6, <2>2, <2>3, <2>5
  <2>7. (strongcount[item] + 1) \in Nat /\ strongcount' = [strongcount EXCEPT ![item] = (strongcount[item] + 1)] /\ strongcount \in [Item -> Nat]
    BY <1>1, <1>2, <1>4, <1>9, <1>6 DEF Typed, CountersTyped
  <2>. QED
    BY <1>1, <2>4, <2>6, <2>7, CountsStep
<1>20. StackInv' /\ BufferInv' /\ LinkInv' /\ ListInv'
  <2>1. \A i \in Item : Used(i)' <=> Used(i)
    BY <1>1, <1>2, <1>4, <1>5, <1>9, <1>7 DEF Used, ItemPC
  <2>2. pc[t] \notin BufferPC /\ pc'[t] \notin BufferPC
    BY <1>1, <1>2, <1>4, <1>5, <1>9, <1>7 DEF BufferPC
  <2>. QED
    BY <1>1, <1>2, <1>4, <1>5, <1>9, <1>7, <2>1, <2>2, ItemStep
<1>. QED
  BY <1>10, <1>11, <1>12, <1>13, <1>14, <1>15, <1>16, <1>17, <1>18, <1>19, <1>20 DEF IInv

(* The exchange failed. *)
LEMMA PromoteAgainInv ==
  ASSUME IInv, NEW t \in Thread, PromoteAgain(t)
  PROVE  IInv'
<1>1. /\ Typed /\ OwnInv /\ HandInv /\ ObjectInv /\ NewInv /\ WeakInv /\ FreshInv /\ PromoteInv
      /\ LostInv /\ CountsMatch /\ StackInv /\ BufferInv /\ LinkInv /\ ListInv
  BY DEF IInv
<1>. DEFINE r == [reg[t] EXCEPT !.count = strongcount[reg[t].item]]
<1>2. /\ pc[t] = "pr_exchange" /\ Goto(t, "pr_generation", r) /\ ended = None
      /\ UNCHANGED <<generation, strongcount, object, objects, lost, next, top, size, lengths, after,
                     back, overwritten, own, weak, ended>>
  BY DEF PromoteAgain, At, counters, stack, chain, handles
<1>3. PICK item \in Item : reg[t].item = item
  BY <1>1, <1>2, Contents DEF PromotePC
<1>4. "pr_generation" \in PCs /\ r \in Registers("pr_generation") /\ r.item = item /\ r.count = strongcount[item] /\ reg[t].item = item
  <2>1. reg[t] \in PromoteRegs /\ strongcount[item] \in Nat
    BY <1>1, <1>2, <1>3, Contents DEF Typed, CountersTyped
  <2>2. r \in PromoteRegs /\ r.item = item /\ r.count = strongcount[item]
    BY <1>3, <2>1 DEF PromoteRegs
  <2>. QED
    BY <1>3, <2>2 DEF PCs, PromotePC, Registers
<1>. HIDE DEF r
<1>5. /\ pc'[t] = "pr_generation" /\ reg'[t] = r /\ LocalTyped'
      /\ \A u \in Thread : u # t => pc'[u] = pc[u] /\ reg'[u] = reg[u]
  BY <1>1, <1>2, <1>4, Moves
<1>6. Typed'
  <2>1. CountersTyped'
    BY <1>1, <1>2, <1>3, <1>4, <1>5 DEF Typed, CountersTyped
  <2>2. StackTyped' /\ ChainTyped' /\ HandlesTyped'
    BY <1>1, <1>2, <1>3, <1>4, <1>5 DEF Typed, StackTyped, ChainTyped, HandlesTyped
  <2>. QED
    BY <1>1, <1>2, <1>3, <1>4, <1>5, <2>1, <2>2 DEF Typed
<1>7. OwnInv'
  BY <1>1, <1>2, <1>3, <1>4, <1>5 DEF OwnInv
<1>8. HandInv'
  BY <1>1, <1>2, <1>3, <1>4, <1>5 DEF HandInv, ItemPC
<1>9. ObjectInv'
  BY <1>1, <1>2, <1>3, <1>4, <1>5 DEF ObjectInv
<1>10. NewInv'
  BY <1>1, <1>2, <1>3, <1>4, <1>5 DEF NewInv, MakePC
<1>11. WeakInv'
  BY <1>1, <1>2, <1>3, <1>4, <1>5 DEF WeakInv
<1>12. FreshInv'
  BY <1>1, <1>2, <1>3, <1>4, <1>5 DEF FreshInv
<1>13. PromoteInv'
  BY <1>1, <1>2, <1>3, <1>4, <1>5 DEF PromoteInv, PromotePC
<1>14. LostInv'
  BY <1>1, <1>2, <1>3, <1>4, <1>5 DEF LostInv
<1>15. CountsMatch'
  <2>1. \A i : Owners(i)' = Owners(i) /\ Passing(i)' = Passing(i)
    BY <1>1, <1>2, <1>3, <1>4, <1>5 DEF Owners, Passing
  <2>. QED
    BY <1>1, <1>2, <1>3, <1>4, <1>5, <2>1 DEF CountsMatch
<1>16. StackInv' /\ BufferInv' /\ LinkInv' /\ ListInv'
  <2>1. \A i \in Item : Used(i)' <=> Used(i)
    BY <1>1, <1>2, <1>3, <1>4, <1>5 DEF Used, ItemPC
  <2>2. pc[t] \notin BufferPC /\ pc'[t] \notin BufferPC
    BY <1>1, <1>2, <1>3, <1>4, <1>5 DEF BufferPC
  <2>. QED
    BY <1>1, <1>2, <1>3, <1>4, <1>5, <2>1, <2>2, ItemStep
<1>. QED
  BY <1>6, <1>7, <1>8, <1>9, <1>10, <1>11, <1>12, <1>13, <1>14, <1>15, <1>16 DEF IInv

(* The generation has not changed: the thread in passing becomes an owner. *)
LEMMA PromoteCheckInv ==
  ASSUME IInv, NEW t \in Thread, PromoteCheck(t), generation[reg[t].item] = weak[t].generation
  PROVE  IInv'
<1>1. /\ Typed /\ OwnInv /\ HandInv /\ ObjectInv /\ NewInv /\ WeakInv /\ FreshInv /\ PromoteInv
      /\ LostInv /\ CountsMatch /\ StackInv /\ BufferInv /\ LinkInv /\ ListInv
  BY DEF IInv
<1>2. /\ pc[t] = "pr_check" /\ Goto(t, "idle", None) /\ ended = None /\ generation[reg[t].item] = weak[t].generation
      /\ own' = [own EXCEPT ![t] = [item |-> weak[t].item, object |-> weak[t].object]]
      /\ UNCHANGED <<generation, strongcount, object, objects, lost, next, top, size, lengths, after,
                     back, overwritten, weak, ended>>
  BY DEF PromoteCheck, Promoted, Return, At, counters, stack, chain, handles
<1>3. PICK item \in Item : reg[t].item = item
  BY <1>1, <1>2, Contents DEF PromotePC
<1>4. "idle" \in PCs /\ None \in Registers("idle")
  BY DEF PCs, Registers
<1>5. /\ pc'[t] = "idle" /\ reg'[t] = None /\ LocalTyped'
      /\ \A u \in Thread : u # t => pc'[u] = pc[u] /\ reg'[u] = reg[u]
  BY <1>1, <1>2, <1>4, Moves
<1>6. /\ weak[t] # None /\ weak[t].item = item /\ weak[t] \in WeakPointer /\ own[t] = None
      /\ weak[t].object \in 1 .. objects /\ weak[t].generation <= generation[item] /\ generation[item] \in Nat
      /\ weak[t].generation \in Nat /\ weak[t].object \in Nat
  BY <1>1, <1>2, <1>3 DEF PromoteInv, PromotePC, Typed, HandlesTyped, CountersTyped, WeakPointer, OwnInv,
     WeakInv
<1>7. t \in Passing(item) /\ strongcount[item] # 0 /\ strongcount \in [Item -> Nat]
  <2>1. t \in Passing(item)
    BY <1>2, <1>3 DEF Passing
  <2>. QED
    BY <1>1, <1>3, <2>1, CountFacts DEF Typed, CountersTyped
<1>8. strongcount = [strongcount EXCEPT ![item] = strongcount[item]] /\ strongcount[item] \in Nat
  BY <1>7, <1>3
<1>9. PICK p \in Pointer : p = [item |-> weak[t].item, object |-> weak[t].object]
  BY <1>3, <1>6 DEF Pointer
<1>10. /\ own'[t] = p /\ p # None /\ p.item = item /\ p.object = weak[t].object
       /\ \A u \in Thread : u # t => own'[u] = own[u]
  <2>1. p # None
    BY <1>9, PoolAssumption DEF Pointer
  <2>. QED
    BY <1>1, <1>2, <1>6, <1>9, <2>1 DEF Typed, HandlesTyped
<1>11. object[item] = p.object
  <2>1. \A u \in Thread : pc[u] = "ds_generation" => reg[u].item # item
    BY <1>1, <1>7 DEF HandInv, ItemPC
  <2>. QED
    BY <1>1, <1>2, <1>3, <1>10, <1>6, <2>1 DEF WeakInv
<1>12. Typed'
  <2>1. CountersTyped'
    BY <1>1, <1>2, <1>3, <1>5, <1>10, <1>9 DEF Typed, CountersTyped
  <2>2. StackTyped' /\ ChainTyped' /\ HandlesTyped'
    BY <1>1, <1>2, <1>3, <1>5, <1>10, <1>9 DEF Typed, StackTyped, ChainTyped, HandlesTyped
  <2>. QED
    BY <1>1, <1>2, <1>3, <1>5, <1>10, <1>9, <2>1, <2>2 DEF Typed
<1>13. OwnInv'
  BY <1>1, <1>2, <1>3, <1>5, <1>10, <1>11 DEF OwnInv
<1>14. HandInv'
  BY <1>1, <1>2, <1>3, <1>5, <1>10 DEF HandInv, ItemPC
<1>15. ObjectInv'
  BY <1>1, <1>2, <1>3, <1>5, <1>10 DEF ObjectInv
<1>16. NewInv'
  BY <1>1, <1>2, <1>3, <1>5, <1>10 DEF NewInv, MakePC
<1>17. WeakInv'
  BY <1>1, <1>2, <1>3, <1>5, <1>10 DEF WeakInv
<1>18. FreshInv'
  BY <1>1, <1>2, <1>3, <1>5, <1>10 DEF FreshInv
<1>19. PromoteInv'
  BY <1>1, <1>2, <1>3, <1>5, <1>10 DEF PromoteInv, PromotePC
<1>20. LostInv'
  BY <1>1, <1>2, <1>3, <1>5, <1>10 DEF LostInv
<1>21. CountsMatch'
  <2>1. IsFiniteSet(Owners(item)) /\ IsFiniteSet(Passing(item))
    BY <1>1, CountFacts, <1>2, <1>3, <1>5, <1>10, <1>6
  <2>2. Cardinality(Owners(item)') = Cardinality(Owners(item)) + 1
    <3>1. Owners(item)' = Owners(item) \cup {t} /\ t \notin Owners(item)
      BY <1>1, <1>2, <1>3, <1>5, <1>10, <1>6 DEF Owners
    <3>. QED
      BY <2>1, <3>1, FS_AddElement
  <2>3. Cardinality(Passing(item)') = Cardinality(Passing(item)) - 1
    <3>1. Passing(item)' = Passing(item) \ {t} /\ t \in Passing(item)
      BY <1>1, <1>2, <1>3, <1>5, <1>10, <1>6 DEF Passing
    <3>. QED
      BY <2>1, <3>1, FS_RemoveElement
  <2>4. \A i \in Item : i # item => Owners(i)' = Owners(i) /\ Passing(i)' = Passing(i) /\ (i \in lost' <=> i \in lost)
    BY <1>1, <1>2, <1>3, <1>5, <1>10, <1>6 DEF Owners, Passing
  <2>5. /\ strongcount[item] = Cardinality(Owners(item)) + Cardinality(Passing(item)) + (IF item \in lost THEN 1 ELSE 0)
        /\ Cardinality(Owners(item)) \in Nat /\ Cardinality(Passing(item)) \in Nat
    BY <1>1, CountFacts, <1>2, <1>3, <1>5, <1>10, <1>6 DEF CountsMatch
  <2>6. strongcount[item] = Cardinality(Owners(item)') + Cardinality(Passing(item)') + (IF item \in lost' THEN 1 ELSE 0)
    BY <1>2, <1>3, <1>8, <2>2, <2>3, <2>5
  <2>7. strongcount[item] \in Nat /\ strongcount' = [strongcount EXCEPT ![item] = strongcount[item]] /\ strongcount \in [Item -> Nat]
    BY <1>1, <1>2, <1>3, <1>8 DEF Typed, CountersTyped
  <2>. QED
    BY <1>1, <2>4, <2>6, <2>7, CountsStep
<1>22. StackInv' /\ BufferInv' /\ LinkInv' /\ ListInv'
  <2>1. \A i \in Item : Used(i)' <=> Used(i)
    BY <1>1, <1>2, <1>3, <1>5, <1>10 DEF Used, ItemPC
  <2>2. pc[t] \notin BufferPC /\ pc'[t] \notin BufferPC
    BY <1>1, <1>2, <1>3, <1>5, <1>10 DEF BufferPC
  <2>. QED
    BY <1>1, <1>2, <1>3, <1>5, <1>10, <2>1, <2>2, ItemStep
<1>. QED
  BY <1>12, <1>13, <1>14, <1>15, <1>16, <1>17, <1>18, <1>19, <1>20, <1>21, <1>22 DEF IInv

(* The generation has changed: the count is somebody else's. *)
LEMMA PromoteCheckFailsInv ==
  ASSUME IInv, NEW t \in Thread, PromoteCheck(t), generation[reg[t].item] # weak[t].generation
  PROVE  IInv'
<1>1. /\ Typed /\ OwnInv /\ HandInv /\ ObjectInv /\ NewInv /\ WeakInv /\ FreshInv /\ PromoteInv
      /\ LostInv /\ CountsMatch /\ StackInv /\ BufferInv /\ LinkInv /\ ListInv
  BY DEF IInv
<1>2. /\ pc[t] = "pr_check" /\ Goto(t, "pr_repair", reg[t]) /\ ended = None
      /\ generation[reg[t].item] # weak[t].generation
      /\ UNCHANGED <<generation, strongcount, object, objects, lost, next, top, size, lengths, after,
                     back, overwritten, own, weak, ended>>
  BY DEF PromoteCheck, Promoted, At, counters, stack, chain, handles
<1>3. PICK item \in Item : reg[t].item = item
  BY <1>1, <1>2, Contents DEF ItemPC, PromotePC
<1>4. "pr_repair" \in PCs /\ reg[t] \in Registers("pr_repair") /\ item \in Item /\ reg[t].item = item
  BY <1>1, <1>2, <1>3, Contents DEF PCs, MakePC, ItemPC, PromotePC, Registers
<1>5. /\ pc'[t] = "pr_repair" /\ reg'[t] = reg[t] /\ LocalTyped'
      /\ \A u \in Thread : u # t => pc'[u] = pc[u] /\ reg'[u] = reg[u]
  BY <1>1, <1>2, <1>4, Moves
<1>6. /\ weak[t] # None /\ weak[t].item = item /\ weak[t] \in WeakPointer /\ own[t] = None
      /\ weak[t].object \in 1 .. objects /\ weak[t].generation <= generation[item] /\ generation[item] \in Nat
      /\ weak[t].generation \in Nat /\ weak[t].object \in Nat
  BY <1>1, <1>2, <1>3 DEF PromoteInv, PromotePC, Typed, HandlesTyped, CountersTyped, WeakPointer, OwnInv,
     WeakInv
<1>7. t \in Passing(item) /\ strongcount[item] # 0 /\ strongcount \in [Item -> Nat]
  <2>1. t \in Passing(item)
    BY <1>2, <1>3 DEF Passing
  <2>. QED
    BY <1>1, <1>3, <2>1, CountFacts DEF Typed, CountersTyped
<1>8. strongcount = [strongcount EXCEPT ![item] = strongcount[item]] /\ strongcount[item] \in Nat
  BY <1>7, <1>3
<1>9. Typed'
  <2>1. CountersTyped'
    BY <1>1, <1>2, <1>3, <1>4, <1>5 DEF Typed, CountersTyped
  <2>2. StackTyped' /\ ChainTyped' /\ HandlesTyped'
    BY <1>1, <1>2, <1>3, <1>4, <1>5 DEF Typed, StackTyped, ChainTyped, HandlesTyped
  <2>. QED
    BY <1>1, <1>2, <1>3, <1>4, <1>5, <2>1, <2>2 DEF Typed
<1>10. OwnInv'
  BY <1>1, <1>2, <1>3, <1>4, <1>5 DEF OwnInv
<1>11. HandInv'
  BY <1>1, <1>2, <1>3, <1>4, <1>5 DEF HandInv, ItemPC
<1>12. ObjectInv'
  BY <1>1, <1>2, <1>3, <1>4, <1>5 DEF ObjectInv
<1>13. NewInv'
  BY <1>1, <1>2, <1>3, <1>4, <1>5 DEF NewInv, MakePC
<1>14. WeakInv'
  BY <1>1, <1>2, <1>3, <1>4, <1>5 DEF WeakInv
<1>15. FreshInv'
  BY <1>1, <1>2, <1>3, <1>4, <1>5 DEF FreshInv
<1>16. PromoteInv'
  BY <1>1, <1>2, <1>3, <1>4, <1>5, <1>6 DEF PromoteInv, PromotePC
<1>17. LostInv'
  BY <1>1, <1>2, <1>3, <1>4, <1>5 DEF LostInv
<1>18. CountsMatch'
  <2>1. \A i : Owners(i)' = Owners(i) /\ Passing(i)' = Passing(i)
    BY <1>1, <1>2, <1>3, <1>4, <1>5 DEF Owners, Passing
  <2>. QED
    BY <1>1, <1>2, <1>3, <1>4, <1>5, <2>1 DEF CountsMatch
<1>19. StackInv' /\ BufferInv' /\ LinkInv' /\ ListInv'
  <2>1. \A i \in Item : Used(i)' <=> Used(i)
    BY <1>1, <1>2, <1>3, <1>4, <1>5 DEF Used, ItemPC
  <2>2. pc[t] \notin BufferPC /\ pc'[t] \notin BufferPC
    BY <1>1, <1>2, <1>3, <1>4, <1>5 DEF BufferPC
  <2>. QED
    BY <1>1, <1>2, <1>3, <1>4, <1>5, <2>1, <2>2, ItemStep
<1>. QED
  BY <1>9, <1>10, <1>11, <1>12, <1>13, <1>14, <1>15, <1>16, <1>17, <1>18, <1>19 DEF IInv

(* The thread undoes the last count, and takes the item in hand. *)
LEMMA PromoteRepairLastInv ==
  ASSUME IInv, NEW t \in Thread, PromoteRepair(t), strongcount[reg[t].item] = 1
  PROVE  IInv'
<1>1. /\ Typed /\ OwnInv /\ HandInv /\ ObjectInv /\ NewInv /\ WeakInv /\ FreshInv /\ PromoteInv
      /\ LostInv /\ CountsMatch /\ StackInv /\ BufferInv /\ LinkInv /\ ListInv
  BY DEF IInv
<1>2. /\ pc[t] = "pr_repair" /\ Goto(t, "ds_destruct", [item |-> reg[t].item]) /\ ended = None
      /\ strongcount' = [strongcount EXCEPT ![reg[t].item] = @ - 1] /\ weak' = [weak EXCEPT ![t] = None]
      /\ UNCHANGED <<generation, object, objects, lost, next, top, size, lengths, after, back, overwritten, own, ended>>
  BY DEF PromoteRepair, Repaired, At, counters, stack, chain, handles
<1>3. PICK item \in Item : reg[t].item = item
  BY <1>1, <1>2, Contents DEF PromotePC
<1>4. "ds_destruct" \in PCs /\ [item |-> reg[t].item] \in Registers("ds_destruct") /\ [item |-> reg[t].item].item = item
  BY <1>3 DEF PCs, ItemPC, Registers, ItemRegs
<1>5. /\ pc'[t] = "ds_destruct" /\ reg'[t] = [item |-> reg[t].item] /\ LocalTyped'
      /\ \A u \in Thread : u # t => pc'[u] = pc[u] /\ reg'[u] = reg[u]
  BY <1>1, <1>2, <1>4, Moves
<1>6. /\ weak[t] # None /\ weak[t].item = item /\ weak[t] \in WeakPointer /\ own[t] = None
      /\ weak[t].object \in 1 .. objects /\ weak[t].generation <= generation[item] /\ generation[item] \in Nat
      /\ weak[t].generation \in Nat /\ weak[t].object \in Nat
  BY <1>1, <1>2, <1>3 DEF PromoteInv, PromotePC, Typed, HandlesTyped, CountersTyped, WeakPointer, OwnInv,
     WeakInv
<1>7. t \in Passing(item) /\ strongcount[item] # 0 /\ strongcount \in [Item -> Nat]
  <2>1. t \in Passing(item)
    BY <1>2, <1>3 DEF Passing
  <2>. QED
    BY <1>1, <1>3, <2>1, CountFacts DEF Typed, CountersTyped
<1>8. strongcount = [strongcount EXCEPT ![item] = strongcount[item]] /\ strongcount[item] \in Nat
  BY <1>7, <1>3
<1>9. PICK c \in Nat : c = strongcount[item] - 1
  BY <1>7, <1>8
<1>10. strongcount' = [strongcount EXCEPT ![item] = c]
  BY <1>2, <1>3, <1>9
<1>11. /\ strongcount'[item] = c /\ \A i \in Item : i # item => strongcount'[i] = strongcount[i]
       /\ weak'[t] = None /\ \A u \in Thread : u # t => weak'[u] = weak[u]
  BY <1>1, <1>2, <1>10, <1>7 DEF Typed, HandlesTyped
<1>12. strongcount[item] = 1 /\ c = 0 /\ item \notin lost /\ \A u \in Thread : pc[u] \in ItemPC => reg[u].item # item
  <2>1. strongcount[item] = 1
    BY <1>3
  <2>2. item \notin lost /\ \A u \in Passing(item) : u = t
    BY <1>1, <1>7, <2>1, CountFacts
  <2>3. ASSUME NEW u \in Thread, pc[u] \in ItemPC, reg[u].item = item PROVE FALSE
    <3>1. pc[u] = "mk_construct"
      BY <1>1, <1>7, <2>3 DEF HandInv
    <3>2. u \in Passing(item)
      BY <2>3, <3>1 DEF Passing
    <3>. QED
      BY <1>2, <2>2, <3>1, <3>2
  <2>. QED
    BY <1>9, <2>1, <2>2, <2>3
<1>13. Typed'
  <2>1. CountersTyped'
    BY <1>1, <1>2, <1>3, <1>4, <1>5, <1>11, <1>7, <1>12, <1>10 DEF Typed, CountersTyped
  <2>2. StackTyped' /\ ChainTyped' /\ HandlesTyped'
    BY <1>1, <1>2, <1>3, <1>4, <1>5, <1>11, <1>7, <1>12, <1>10 DEF Typed, StackTyped, ChainTyped,
       HandlesTyped
  <2>. QED
    BY <1>1, <1>2, <1>3, <1>4, <1>5, <1>11, <1>7, <1>12, <1>10, <2>1, <2>2 DEF Typed
<1>14. OwnInv'
  BY <1>1, <1>2, <1>3, <1>4, <1>5, <1>11, <1>7, <1>12 DEF OwnInv
<1>15. HandInv'
  BY <1>1, <1>2, <1>3, <1>4, <1>5, <1>11, <1>7, <1>12 DEF HandInv, ItemPC
<1>16. ObjectInv'
  BY <1>1, <1>2, <1>3, <1>4, <1>5, <1>11, <1>7, <1>12 DEF ObjectInv
<1>17. NewInv'
  BY <1>1, <1>2, <1>3, <1>4, <1>5, <1>11, <1>7, <1>12 DEF NewInv, MakePC
<1>18. WeakInv'
  BY <1>1, <1>2, <1>3, <1>4, <1>5, <1>11, <1>7, <1>12 DEF WeakInv
<1>19. FreshInv'
  BY <1>1, <1>2, <1>3, <1>4, <1>5, <1>11, <1>7, <1>12 DEF FreshInv
<1>20. PromoteInv'
  BY <1>1, <1>2, <1>3, <1>4, <1>5, <1>11, <1>7, <1>12 DEF PromoteInv, PromotePC
<1>21. LostInv'
  BY <1>1, <1>2, <1>3, <1>4, <1>5, <1>11, <1>7, <1>12 DEF LostInv
<1>22. CountsMatch'
  <2>1. IsFiniteSet(Owners(item)) /\ IsFiniteSet(Passing(item))
    BY <1>1, CountFacts, <1>2, <1>3, <1>5, <1>6
  <2>2. Cardinality(Owners(item)') = Cardinality(Owners(item))
    <3>1. Owners(item)' = Owners(item)
      BY <1>1, <1>2, <1>3, <1>5, <1>6 DEF Owners
    <3>. QED
      BY <2>1, <3>1
  <2>3. Cardinality(Passing(item)') = Cardinality(Passing(item)) - 1
    <3>1. Passing(item)' = Passing(item) \ {t} /\ t \in Passing(item)
      BY <1>1, <1>2, <1>3, <1>5, <1>6 DEF Passing
    <3>. QED
      BY <2>1, <3>1, FS_RemoveElement
  <2>4. \A i \in Item : i # item => Owners(i)' = Owners(i) /\ Passing(i)' = Passing(i) /\ (i \in lost' <=> i \in lost)
    BY <1>1, <1>2, <1>3, <1>5, <1>6 DEF Owners, Passing
  <2>5. /\ strongcount[item] = Cardinality(Owners(item)) + Cardinality(Passing(item)) + (IF item \in lost THEN 1 ELSE 0)
        /\ Cardinality(Owners(item)) \in Nat /\ Cardinality(Passing(item)) \in Nat
    BY <1>1, CountFacts, <1>2, <1>3, <1>5, <1>6 DEF CountsMatch
  <2>6. c = Cardinality(Owners(item)') + Cardinality(Passing(item)') + (IF item \in lost' THEN 1 ELSE 0)
    BY <1>2, <1>3, <1>8, <1>9, <1>10, <2>2, <2>3, <2>5
  <2>7. c \in Nat /\ strongcount' = [strongcount EXCEPT ![item] = c] /\ strongcount \in [Item -> Nat]
    BY <1>1, <1>2, <1>3, <1>8, <1>9, <1>10 DEF Typed, CountersTyped
  <2>. QED
    BY <1>1, <2>4, <2>6, <2>7, CountsStep
<1>23. StackInv' /\ BufferInv' /\ LinkInv' /\ ListInv'
  <2>1. \A i \in Item : Used(i)' <=> Used(i)
    BY <1>1, <1>2, <1>3, <1>4, <1>5, <1>11, <1>7, <1>12 DEF Used, ItemPC
  <2>2. pc[t] \notin BufferPC /\ pc'[t] \notin BufferPC
    BY <1>1, <1>2, <1>3, <1>4, <1>5, <1>11, <1>7, <1>12 DEF BufferPC
  <2>. QED
    BY <1>1, <1>2, <1>3, <1>4, <1>5, <1>11, <1>7, <1>12, <2>1, <2>2, ItemStep
<1>. QED
  BY <1>13, <1>14, <1>15, <1>16, <1>17, <1>18, <1>19, <1>20, <1>21, <1>22, <1>23 DEF IInv

(* The thread undoes one of the counts. *)
LEMMA PromoteRepairSharedInv ==
  ASSUME IInv, NEW t \in Thread, PromoteRepair(t), strongcount[reg[t].item] # 1
  PROVE  IInv'
<1>1. /\ Typed /\ OwnInv /\ HandInv /\ ObjectInv /\ NewInv /\ WeakInv /\ FreshInv /\ PromoteInv
      /\ LostInv /\ CountsMatch /\ StackInv /\ BufferInv /\ LinkInv /\ ListInv
  BY DEF IInv
<1>2. /\ pc[t] = "pr_repair" /\ Goto(t, "idle", None) /\ ended = None
      /\ strongcount' = [strongcount EXCEPT ![reg[t].item] = @ - 1] /\ weak' = [weak EXCEPT ![t] = None]
      /\ UNCHANGED <<generation, object, objects, lost, next, top, size, lengths, after, back, overwritten, own, ended>>
  BY DEF PromoteRepair, Repaired, PromotionFails, Return, At, counters, stack, chain, handles
<1>3. PICK item \in Item : reg[t].item = item
  BY <1>1, <1>2, Contents DEF PromotePC
<1>4. "idle" \in PCs /\ None \in Registers("idle")
  BY <1>3 DEF PCs, ItemPC, Registers, ItemRegs
<1>5. /\ pc'[t] = "idle" /\ reg'[t] = None /\ LocalTyped'
      /\ \A u \in Thread : u # t => pc'[u] = pc[u] /\ reg'[u] = reg[u]
  BY <1>1, <1>2, <1>4, Moves
<1>6. /\ weak[t] # None /\ weak[t].item = item /\ weak[t] \in WeakPointer /\ own[t] = None
      /\ weak[t].object \in 1 .. objects /\ weak[t].generation <= generation[item] /\ generation[item] \in Nat
      /\ weak[t].generation \in Nat /\ weak[t].object \in Nat
  BY <1>1, <1>2, <1>3 DEF PromoteInv, PromotePC, Typed, HandlesTyped, CountersTyped, WeakPointer, OwnInv,
     WeakInv
<1>7. t \in Passing(item) /\ strongcount[item] # 0 /\ strongcount \in [Item -> Nat]
  <2>1. t \in Passing(item)
    BY <1>2, <1>3 DEF Passing
  <2>. QED
    BY <1>1, <1>3, <2>1, CountFacts DEF Typed, CountersTyped
<1>8. strongcount = [strongcount EXCEPT ![item] = strongcount[item]] /\ strongcount[item] \in Nat
  BY <1>7, <1>3
<1>9. PICK c \in Nat : c = strongcount[item] - 1
  BY <1>7, <1>8
<1>10. strongcount' = [strongcount EXCEPT ![item] = c]
  BY <1>2, <1>3, <1>9
<1>11. /\ strongcount'[item] = c /\ \A i \in Item : i # item => strongcount'[i] = strongcount[i]
       /\ weak'[t] = None /\ \A u \in Thread : u # t => weak'[u] = weak[u]
  BY <1>1, <1>2, <1>10, <1>7 DEF Typed, HandlesTyped
<1>12. c # 0
  BY <1>3, <1>7, <1>8, <1>9
<1>13. Typed'
  <2>1. CountersTyped'
    BY <1>1, <1>2, <1>3, <1>4, <1>5, <1>11, <1>7, <1>12, <1>10 DEF Typed, CountersTyped
  <2>2. StackTyped' /\ ChainTyped' /\ HandlesTyped'
    BY <1>1, <1>2, <1>3, <1>4, <1>5, <1>11, <1>7, <1>12, <1>10 DEF Typed, StackTyped, ChainTyped,
       HandlesTyped
  <2>. QED
    BY <1>1, <1>2, <1>3, <1>4, <1>5, <1>11, <1>7, <1>12, <1>10, <2>1, <2>2 DEF Typed
<1>14. OwnInv'
  BY <1>1, <1>2, <1>3, <1>4, <1>5, <1>11, <1>7, <1>12 DEF OwnInv
<1>15. HandInv'
  BY <1>1, <1>2, <1>3, <1>4, <1>5, <1>11, <1>7, <1>12 DEF HandInv, ItemPC
<1>16. ObjectInv'
  BY <1>1, <1>2, <1>3, <1>4, <1>5, <1>11, <1>7, <1>12 DEF ObjectInv
<1>17. NewInv'
  BY <1>1, <1>2, <1>3, <1>4, <1>5, <1>11, <1>7, <1>12 DEF NewInv, MakePC
<1>18. WeakInv'
  BY <1>1, <1>2, <1>3, <1>4, <1>5, <1>11, <1>7, <1>12 DEF WeakInv
<1>19. FreshInv'
  BY <1>1, <1>2, <1>3, <1>4, <1>5, <1>11, <1>7, <1>12 DEF FreshInv
<1>20. PromoteInv'
  BY <1>1, <1>2, <1>3, <1>4, <1>5, <1>11, <1>7, <1>12 DEF PromoteInv, PromotePC
<1>21. LostInv'
  BY <1>1, <1>2, <1>3, <1>4, <1>5, <1>11, <1>7, <1>12 DEF LostInv
<1>22. CountsMatch'
  <2>1. IsFiniteSet(Owners(item)) /\ IsFiniteSet(Passing(item))
    BY <1>1, CountFacts, <1>2, <1>3, <1>5, <1>6
  <2>2. Cardinality(Owners(item)') = Cardinality(Owners(item))
    <3>1. Owners(item)' = Owners(item)
      BY <1>1, <1>2, <1>3, <1>5, <1>6 DEF Owners
    <3>. QED
      BY <2>1, <3>1
  <2>3. Cardinality(Passing(item)') = Cardinality(Passing(item)) - 1
    <3>1. Passing(item)' = Passing(item) \ {t} /\ t \in Passing(item)
      BY <1>1, <1>2, <1>3, <1>5, <1>6 DEF Passing
    <3>. QED
      BY <2>1, <3>1, FS_RemoveElement
  <2>4. \A i \in Item : i # item => Owners(i)' = Owners(i) /\ Passing(i)' = Passing(i) /\ (i \in lost' <=> i \in lost)
    BY <1>1, <1>2, <1>3, <1>5, <1>6 DEF Owners, Passing
  <2>5. /\ strongcount[item] = Cardinality(Owners(item)) + Cardinality(Passing(item)) + (IF item \in lost THEN 1 ELSE 0)
        /\ Cardinality(Owners(item)) \in Nat /\ Cardinality(Passing(item)) \in Nat
    BY <1>1, CountFacts, <1>2, <1>3, <1>5, <1>6 DEF CountsMatch
  <2>6. c = Cardinality(Owners(item)') + Cardinality(Passing(item)') + (IF item \in lost' THEN 1 ELSE 0)
    BY <1>2, <1>3, <1>8, <1>9, <1>10, <2>2, <2>3, <2>5
  <2>7. c \in Nat /\ strongcount' = [strongcount EXCEPT ![item] = c] /\ strongcount \in [Item -> Nat]
    BY <1>1, <1>2, <1>3, <1>8, <1>9, <1>10 DEF Typed, CountersTyped
  <2>. QED
    BY <1>1, <2>4, <2>6, <2>7, CountsStep
<1>23. StackInv' /\ BufferInv' /\ LinkInv' /\ ListInv'
  <2>1. \A i \in Item : Used(i)' <=> Used(i)
    BY <1>1, <1>2, <1>3, <1>4, <1>5, <1>11, <1>7, <1>12 DEF Used, ItemPC
  <2>2. pc[t] \notin BufferPC /\ pc'[t] \notin BufferPC
    BY <1>1, <1>2, <1>3, <1>4, <1>5, <1>11, <1>7, <1>12 DEF BufferPC
  <2>. QED
    BY <1>1, <1>2, <1>3, <1>4, <1>5, <1>11, <1>7, <1>12, <2>1, <2>2, ItemStep
<1>. QED
  BY <1>13, <1>14, <1>15, <1>16, <1>17, <1>18, <1>19, <1>20, <1>21, <1>22, <1>23 DEF IInv

(* Threads that add buffers add different ones. *)
LEMMA Apart ==
  ASSUME Typed, BufferInv, ended # "destroyed"
  PROVE  /\ \A t \in Growers : reg[t].buffer \in DOMAIN lengths
         /\ \A t, u \in Growers : reg[t].buffer = reg[u].buffer => t = u
<1>1. \A t \in Growers : reg[t].buffer \in DOMAIN lengths
  BY DEF BufferInv
<1>2. ASSUME NEW t \in Growers, NEW u \in Growers, reg[t].buffer = reg[u].buffer, t # u PROVE FALSE
  <2>1. PICK b \in DOMAIN lengths : b = reg[t].buffer /\ b = reg[u].buffer
    BY <1>1, <1>2
  <2>2. b \in Int /\ lengths[b] \in Nat /\ lengths[b] # 0
    BY PoolAssumption DEF BufferInv, Typed, ChainTyped, Item
  <2>3. b \in Buffer(b, lengths[b])
    BY <2>2 DEF Buffer
  <2>4. Buffer(reg[t].buffer, lengths[reg[t].buffer]) \cap Buffer(reg[u].buffer, lengths[reg[u].buffer]) = {}
    BY <1>2 DEF BufferInv
  <2>. QED
    BY <2>1, <2>3, <2>4
<1>. QED
  BY <1>1, <1>2

(* The buffers that are not linked yet. *)
LEMMA PendingFacts ==
  /\ \A b : b \in Pending <=> \E u \in Thread : pc[u] \in {"gr_load", "gr_link"} /\ reg[u].buffer = b
  /\ \A b : b \in Pending' <=> \E u \in Thread : pc'[u] \in {"gr_load", "gr_link"} /\ reg'[u].buffer = b
  BY DEF Pending

(* The last buffer is loaded. *)
LEMMA GrowLoadInv ==
  ASSUME IInv, NEW t \in Thread, GrowLoad(t)
  PROVE  IInv'
<1>1. /\ Typed /\ OwnInv /\ HandInv /\ ObjectInv /\ NewInv /\ WeakInv /\ FreshInv /\ PromoteInv
      /\ LostInv /\ CountsMatch /\ StackInv /\ BufferInv /\ LinkInv /\ ListInv
  BY DEF IInv
<1>. DEFINE r == [object |-> reg[t].object, buffer |-> reg[t].buffer, last |-> back]
<1>2. /\ pc[t] = "gr_load" /\ Goto(t, "gr_link", r) /\ ended = None
      /\ UNCHANGED <<generation, strongcount, object, objects, lost, next, top, size, lengths, after,
                     back, overwritten, own, weak, ended>>
  BY DEF GrowLoad, At, counters, stack, chain, handles
<1>3. PICK buffer \in Item : reg[t].buffer = buffer
  BY <1>1, <1>2, Contents DEF BufferPC
<1>4. /\ "gr_link" \in PCs /\ r \in Registers("gr_link")
      /\ r.buffer = buffer /\ r.object = reg[t].object /\ r.last = back
  <2>1. reg[t].object \in Nat /\ back \in Item
    BY <1>1, <1>2, Contents DEF MakePC, Typed, ChainTyped
  <2>. QED
    BY <1>3, <2>1 DEF PCs, MakePC, Registers, LinkRegs
<1>. HIDE DEF r
<1>5. /\ pc'[t] = "gr_link" /\ reg'[t] = r /\ LocalTyped'
      /\ \A u \in Thread : u # t => pc'[u] = pc[u] /\ reg'[u] = reg[u]
  BY <1>1, <1>2, <1>4, Moves
<1>6. ended # "destroyed" /\ ended' # "destroyed" /\ buffer \in DOMAIN lengths
  BY <1>1, <1>2, <1>3, PoolAssumption DEF BufferInv, Growers, BufferPC
<1>7. Typed'
  <2>1. CountersTyped'
    BY <1>1, <1>2, <1>3, <1>4, <1>5 DEF Typed, CountersTyped
  <2>2. StackTyped' /\ ChainTyped' /\ HandlesTyped'
    BY <1>1, <1>2, <1>3, <1>4, <1>5 DEF Typed, StackTyped, ChainTyped, HandlesTyped
  <2>. QED
    BY <1>1, <1>2, <1>3, <1>4, <1>5, <2>1, <2>2 DEF Typed
<1>8. OwnInv'
  BY <1>1, <1>2, <1>3, <1>4, <1>5 DEF OwnInv
<1>9. HandInv'
  BY <1>1, <1>2, <1>3, <1>4, <1>5 DEF HandInv, ItemPC
<1>10. ObjectInv'
  BY <1>1, <1>2, <1>3, <1>4, <1>5 DEF ObjectInv
<1>11. NewInv'
  BY <1>1, <1>2, <1>3, <1>4, <1>5 DEF NewInv, MakePC
<1>12. WeakInv'
  BY <1>1, <1>2, <1>3, <1>4, <1>5 DEF WeakInv
<1>13. FreshInv'
  BY <1>1, <1>2, <1>3, <1>4, <1>5 DEF FreshInv
<1>14. PromoteInv'
  BY <1>1, <1>2, <1>3, <1>4, <1>5 DEF PromoteInv, PromotePC
<1>15. LostInv'
  BY <1>1, <1>2, <1>3, <1>4, <1>5 DEF LostInv
<1>16. CountsMatch'
  <2>1. \A i : Owners(i)' = Owners(i) /\ Passing(i)' = Passing(i)
    BY <1>1, <1>2, <1>3, <1>4, <1>5 DEF Owners, Passing
  <2>. QED
    BY <1>1, <1>2, <1>3, <1>4, <1>5, <2>1 DEF CountsMatch
<1>17. StackInv'
  <2>1. \A i \in Item : Used(i)' <=> Used(i)
    BY <1>1, <1>2, <1>3, <1>4, <1>5 DEF Used, ItemPC
  <2>. QED
    BY <1>1, <1>2, <1>3, <1>4, <1>5, <2>1, StackFrame
<1>18. BufferInv'
  <2>1. \A i \in Item : Used(i)' <=> Used(i)
    BY <1>1, <1>2, <1>5 DEF Used, ItemPC
  <2>2. Growers' = Growers /\ (\A u \in Growers : reg'[u].buffer = reg[u].buffer) /\ Free' = Free
    BY <1>2, <1>3, <1>4, <1>5 DEF Growers, BufferPC, Free
  <2>. QED
    BY <1>1, <1>2, <1>3, <1>6, <2>1, <2>2, BufferFrame
<1>19. LinkInv' /\ ListInv'
  <2>1. \A u \in Thread : reg'[u].buffer = reg[u].buffer \/ ~Growing(u)
    BY <1>3, <1>4, <1>5
  <2>2. \A u \in Thread : /\ Growing(u)' <=> Growing(u)
                          /\ pc'[u] = "gr_back" <=> pc[u] = "gr_back"
                          /\ pc'[u] \in {"gr_load", "gr_link"} <=> pc[u] \in {"gr_load", "gr_link"}
    BY <1>2, <1>5 DEF Growing
  <2>3. Pending' = Pending /\ Reachable' = Reachable
    <3>1. \A u \in Thread : pc[u] \in {"gr_load", "gr_link"} => reg'[u].buffer = reg[u].buffer
      BY <2>1 DEF Growing
    <3>2. \A b : b \in Pending' <=> b \in Pending
      BY <2>2, <3>1, PendingFacts
    <3>3. Pending' = Pending
      BY <3>2
    <3>. QED
      BY <1>2, <3>3 DEF Reachable
  <2>4. \A u \in Thread : pc'[u] = "gr_link" =>
          \/ pc[u] = "gr_link" /\ reg'[u] = reg[u]
          \/ reg'[u].last = back
    BY <1>4, <1>5
  <2>5. LinkInv'
    <3>1. /\ \A u \in Thread : Growing(u)' =>
                /\ after'[reg'[u].buffer] = None /\ reg'[u].buffer # back'
                /\ \A v \in Thread : pc'[v] = "gr_link" => reg'[v].last # reg'[u].buffer
          /\ \A u \in Thread : pc'[u] = "gr_link" => reg'[u].last \in DOMAIN lengths \ Pending
      BY <1>1, <1>2, <1>6, <2>1, <2>2, <2>4 DEF LinkInv
    <3>2. /\ 1 \in DOMAIN lengths \ Pending /\ back \in DOMAIN lengths \ Pending
          /\ \A b \in Item : after[b] # None =>
                /\ b \in DOMAIN lengths \ Pending
                /\ after[b] \in DOMAIN lengths \ Pending /\ after[b] # 1
          /\ \A b, d \in Item : after[b] # None /\ after[b] = after[d] => b = d
          /\ \A b \in DOMAIN lengths \ (Pending \cup overwritten \cup {1}) :
                \E d \in Item : after[d] = b
      BY <1>1, <1>6 DEF LinkInv
    <3>. QED
      BY <1>2, <2>3, <3>1, <3>2 DEF LinkInv
  <2>6. ListInv'
    BY <1>1, <1>2, <1>6, <2>1, <2>2, <2>3 DEF ListInv, Growing
  <2>. QED
    BY <2>5, <2>6
<1>. QED
  BY <1>7, <1>8, <1>9, <1>10, <1>11, <1>12, <1>13, <1>14, <1>15, <1>16, <1>17, <1>18, <1>19 DEF IInv

(* The new buffer, which is on the list, becomes the last. *)
LEMMA GrowBackInv ==
  ASSUME IInv, NEW t \in Thread, GrowBack(t)
  PROVE  IInv'
<1>1. /\ Typed /\ OwnInv /\ HandInv /\ ObjectInv /\ NewInv /\ WeakInv /\ FreshInv /\ PromoteInv
      /\ LostInv /\ CountsMatch /\ StackInv /\ BufferInv /\ LinkInv /\ ListInv
  BY DEF IInv
<1>2. /\ pc[t] = "gr_back" /\ Goto(t, "gr_lock", reg[t]) /\ ended = None
      /\ back' = reg[t].buffer
      /\ UNCHANGED <<generation, strongcount, object, objects, lost, next, top, size, lengths, after,
                     overwritten, own, weak, ended>>
  BY DEF GrowBack, At, counters, stack, chain, handles
<1>3. PICK buffer \in Item : reg[t].buffer = buffer
  BY <1>1, <1>2, Contents DEF BufferPC
<1>4. "gr_lock" \in PCs /\ reg[t] \in Registers("gr_lock") /\ reg[t].buffer = buffer
  BY <1>1, <1>2, <1>3, Contents DEF PCs, MakePC, Registers
<1>5. /\ pc'[t] = "gr_lock" /\ reg'[t] = reg[t] /\ LocalTyped'
      /\ \A u \in Thread : u # t => pc'[u] = pc[u] /\ reg'[u] = reg[u]
  BY <1>1, <1>2, <1>4, Moves
<1>6. ended # "destroyed" /\ ended' # "destroyed" /\ buffer \in DOMAIN lengths
  BY <1>1, <1>2, <1>3, PoolAssumption DEF BufferInv, Growers, BufferPC
<1>7. Typed'
  <2>1. CountersTyped'
    BY <1>1, <1>2, <1>3, <1>4, <1>5 DEF Typed, CountersTyped
  <2>2. StackTyped' /\ ChainTyped' /\ HandlesTyped'
    BY <1>1, <1>2, <1>3, <1>4, <1>5 DEF Typed, StackTyped, ChainTyped, HandlesTyped
  <2>. QED
    BY <1>1, <1>2, <1>3, <1>4, <1>5, <2>1, <2>2 DEF Typed
<1>8. OwnInv'
  BY <1>1, <1>2, <1>3, <1>4, <1>5 DEF OwnInv
<1>9. HandInv'
  BY <1>1, <1>2, <1>3, <1>4, <1>5 DEF HandInv, ItemPC
<1>10. ObjectInv'
  BY <1>1, <1>2, <1>3, <1>4, <1>5 DEF ObjectInv
<1>11. NewInv'
  BY <1>1, <1>2, <1>3, <1>4, <1>5 DEF NewInv, MakePC
<1>12. WeakInv'
  BY <1>1, <1>2, <1>3, <1>4, <1>5 DEF WeakInv
<1>13. FreshInv'
  BY <1>1, <1>2, <1>3, <1>4, <1>5 DEF FreshInv
<1>14. PromoteInv'
  BY <1>1, <1>2, <1>3, <1>4, <1>5 DEF PromoteInv, PromotePC
<1>15. LostInv'
  BY <1>1, <1>2, <1>3, <1>4, <1>5 DEF LostInv
<1>16. CountsMatch'
  <2>1. \A i : Owners(i)' = Owners(i) /\ Passing(i)' = Passing(i)
    BY <1>1, <1>2, <1>3, <1>4, <1>5 DEF Owners, Passing
  <2>. QED
    BY <1>1, <1>2, <1>3, <1>4, <1>5, <2>1 DEF CountsMatch
<1>17. StackInv'
  <2>1. \A i \in Item : Used(i)' <=> Used(i)
    BY <1>1, <1>2, <1>3, <1>4, <1>5 DEF Used, ItemPC
  <2>. QED
    BY <1>1, <1>2, <1>3, <1>4, <1>5, <2>1, StackFrame
<1>18. BufferInv'
  <2>1. \A i \in Item : Used(i)' <=> Used(i)
    BY <1>1, <1>2, <1>5 DEF Used, ItemPC
  <2>2. Growers' = Growers /\ (\A u \in Growers : reg'[u] = reg[u]) /\ Free' = Free
    BY <1>2, <1>5 DEF Growers, BufferPC, Free
  <2>. QED
    BY <1>1, <1>2, <1>3, <1>6, <2>1, <2>2, BufferFrame
<1>19. LinkInv'
  <2>1. Pending' = Pending
    <3>1. \A b : b \in Pending' <=> b \in Pending
      BY <1>2, <1>5, PendingFacts
    <3>. QED
      BY <3>1
  <2>2. /\ \A u \in Thread : u # t /\ Growing(u) => reg[u].buffer # buffer
        /\ buffer \notin Pending
    BY <1>1, <1>2, <1>3, <1>6, Apart, PendingFacts DEF Growers, BufferPC, Growing
  <2>3. /\ 1 \in DOMAIN lengths \ Pending
        /\ \A u \in Thread : Growing(u) =>
              /\ after[reg[u].buffer] = None /\ reg[u].buffer # back
              /\ \A v \in Thread : pc[v] = "gr_link" => reg[v].last # reg[u].buffer
        /\ \A u \in Thread : pc[u] = "gr_link" => reg[u].last \in DOMAIN lengths \ Pending
        /\ \A b \in Item : after[b] # None =>
              /\ b \in DOMAIN lengths \ Pending
              /\ after[b] \in DOMAIN lengths \ Pending /\ after[b] # 1
        /\ \A b, d \in Item : after[b] # None /\ after[b] = after[d] => b = d
        /\ \A b \in DOMAIN lengths \ (Pending \cup overwritten \cup {1}) :
              \E d \in Item : after[d] = b
    BY <1>1, <1>6 DEF LinkInv
  <2>4. \A u \in Thread : /\ Growing(u)' => u # t /\ Growing(u) /\ reg'[u] = reg[u]
                          /\ pc'[u] = "gr_link" => pc[u] = "gr_link" /\ reg'[u] = reg[u]
    BY <1>5 DEF Growing
  <2>5. \A u \in Thread : Growing(u)' =>
              /\ after'[reg'[u].buffer] = None /\ reg'[u].buffer # back'
              /\ \A v \in Thread : pc'[v] = "gr_link" => reg'[v].last # reg'[u].buffer
    BY <1>2, <1>3, <2>2, <2>3, <2>4
  <2>. QED
    BY <1>2, <1>3, <1>6, <2>1, <2>2, <2>3, <2>4, <2>5 DEF LinkInv
<1>20. ListInv'
  <2>. SUFFICES ASSUME overwritten = {} PROVE ListInv'
    BY <1>2 DEF ListInv
  <2>1. /\ \A u, v \in Thread : pc[u] = "gr_back" /\ pc[v] = "gr_back" => u = v
        /\ Reachable = DOMAIN lengths \ Pending
        /\ \A b \in DOMAIN lengths \ Pending : after[b] = None =>
              \/ \E u \in Thread : pc[u] = "gr_back" /\ b = reg[u].buffer
              \/ b = back /\ \A u \in Thread : pc[u] # "gr_back"
    BY <1>1, <1>6 DEF ListInv
  <2>2. Pending' = Pending /\ Reachable' = Reachable
    <3>1. \A b : b \in Pending' <=> b \in Pending
      BY <1>2, <1>5, PendingFacts
    <3>2. Pending' = Pending
      BY <3>1
    <3>. QED
      BY <1>2, <3>2 DEF Reachable
  <2>3. \A u \in Thread : pc'[u] # "gr_back"
    BY <1>2, <1>5, <2>1
  <2>4. after[buffer] = None
    BY <1>1, <1>2, <1>3, <1>6 DEF LinkInv, Growing
  <2>5. \A b \in DOMAIN lengths \ Pending : after[b] = None => b = buffer
    BY <1>2, <1>3, <2>1
  <2>. QED
    BY <1>2, <1>3, <1>6, <2>1, <2>2, <2>3, <2>4, <2>5 DEF ListInv
<1>. QED
  BY <1>7, <1>8, <1>9, <1>10, <1>11, <1>12, <1>13, <1>14, <1>15, <1>16, <1>17, <1>18, <1>19, <1>20 DEF IInv

(* The new buffer is appended to the list. *)
LEMMA GrowLinkInv ==
  ASSUME IInv, NEW t \in Thread, GrowLink(t)
  PROVE  IInv'
<1>1. /\ Typed /\ OwnInv /\ HandInv /\ ObjectInv /\ NewInv /\ WeakInv /\ FreshInv /\ PromoteInv
      /\ LostInv /\ CountsMatch /\ StackInv /\ BufferInv /\ LinkInv /\ ListInv
  BY DEF IInv
<1>. DEFINE r == [object |-> reg[t].object, buffer |-> reg[t].buffer]
<1>2. /\ pc[t] = "gr_link" /\ Goto(t, "gr_back", r) /\ ended = None
      /\ after' = [after EXCEPT ![reg[t].last] = reg[t].buffer]
      /\ overwritten' = overwritten \cup ({after[reg[t].last]} \ {None})
      /\ UNCHANGED <<generation, strongcount, object, objects, lost, next, top, size, lengths, back, own,
                     weak, ended>>
  BY DEF GrowLink, Linking, At, counters, stack, chain, handles
<1>3. PICK buffer \in Item, last \in Item : reg[t].buffer = buffer /\ reg[t].last = last
  BY <1>1, <1>2, Contents DEF LinkRegs
<1>4. "gr_back" \in PCs /\ r \in Registers("gr_back") /\ r.buffer = buffer /\ r.object = reg[t].object
  <2>1. reg[t].object \in Nat
    BY <1>1, <1>2, Contents DEF MakePC
  <2>. QED
    BY <1>3, <2>1 DEF PCs, MakePC, Registers, GrowRegs
<1>. HIDE DEF r
<1>5. /\ pc'[t] = "gr_back" /\ reg'[t] = r /\ LocalTyped'
      /\ \A u \in Thread : u # t => pc'[u] = pc[u] /\ reg'[u] = reg[u]
  BY <1>1, <1>2, <1>4, Moves
<1>6. ended # "destroyed" /\ ended' # "destroyed" /\ buffer \in DOMAIN lengths
  BY <1>1, <1>2, <1>3, PoolAssumption DEF BufferInv, Growers, BufferPC
<1>7. Typed'
  <2>1. CountersTyped'
    BY <1>1, <1>2, <1>3, <1>4, <1>5 DEF Typed, CountersTyped
  <2>2. StackTyped' /\ ChainTyped' /\ HandlesTyped'
    BY <1>1, <1>2, <1>3, <1>4, <1>5 DEF Typed, StackTyped, ChainTyped, HandlesTyped
  <2>. QED
    BY <1>1, <1>2, <1>3, <1>4, <1>5, <2>1, <2>2 DEF Typed
<1>8. OwnInv'
  BY <1>1, <1>2, <1>3, <1>4, <1>5 DEF OwnInv
<1>9. HandInv'
  BY <1>1, <1>2, <1>3, <1>4, <1>5 DEF HandInv, ItemPC
<1>10. ObjectInv'
  BY <1>1, <1>2, <1>3, <1>4, <1>5 DEF ObjectInv
<1>11. NewInv'
  BY <1>1, <1>2, <1>3, <1>4, <1>5 DEF NewInv, MakePC
<1>12. WeakInv'
  BY <1>1, <1>2, <1>3, <1>4, <1>5 DEF WeakInv
<1>13. FreshInv'
  BY <1>1, <1>2, <1>3, <1>4, <1>5 DEF FreshInv
<1>14. PromoteInv'
  BY <1>1, <1>2, <1>3, <1>4, <1>5 DEF PromoteInv, PromotePC
<1>15. LostInv'
  BY <1>1, <1>2, <1>3, <1>4, <1>5 DEF LostInv
<1>16. CountsMatch'
  <2>1. \A i : Owners(i)' = Owners(i) /\ Passing(i)' = Passing(i)
    BY <1>1, <1>2, <1>3, <1>4, <1>5 DEF Owners, Passing
  <2>. QED
    BY <1>1, <1>2, <1>3, <1>4, <1>5, <2>1 DEF CountsMatch
<1>17. StackInv'
  <2>1. \A i \in Item : Used(i)' <=> Used(i)
    BY <1>1, <1>2, <1>3, <1>4, <1>5 DEF Used, ItemPC
  <2>. QED
    BY <1>1, <1>2, <1>3, <1>4, <1>5, <2>1, StackFrame
<1>18. BufferInv'
  <2>1. \A i \in Item : Used(i)' <=> Used(i)
    BY <1>1, <1>2, <1>3, <1>4, <1>5 DEF Used, ItemPC
  <2>2. Growers' = Growers /\ (\A u \in Growers : reg'[u].buffer = reg[u].buffer) /\ Free' = Free
    BY <1>1, <1>2, <1>3, <1>4, <1>5 DEF Growers, BufferPC, Free
  <2>. QED
    BY <1>1, <1>2, <1>3, <1>4, <1>5, <2>1, <2>2, BufferFrame
<1>19. /\ 1 \in DOMAIN lengths \ Pending /\ back \in DOMAIN lengths \ Pending
       /\ \A u \in Thread : Growing(u) =>
             /\ after[reg[u].buffer] = None /\ reg[u].buffer # back
             /\ \A v \in Thread : pc[v] = "gr_link" => reg[v].last # reg[u].buffer
       /\ \A u \in Thread : pc[u] = "gr_link" => reg[u].last \in DOMAIN lengths \ Pending
       /\ \A b \in Item : after[b] # None =>
             /\ b \in DOMAIN lengths \ Pending
             /\ after[b] \in DOMAIN lengths \ Pending /\ after[b] # 1
       /\ \A b, d \in Item : after[b] # None /\ after[b] = after[d] => b = d
       /\ \A b \in DOMAIN lengths \ (Pending \cup overwritten \cup {1}) :
             \E d \in Item : after[d] = b
  BY <1>1, <1>6 DEF LinkInv
<1>20. /\ \A u \in Thread : u # t /\ Growing(u) => reg[u].buffer # buffer
       /\ Pending' = Pending \ {buffer} /\ buffer \in Pending
  <2>1. \A u \in Thread : u # t /\ Growing(u) => reg[u].buffer # buffer
    BY <1>1, <1>2, <1>3, <1>6, Apart DEF Growers, BufferPC, Growing
  <2>2. buffer \in Pending
    BY <1>2, <1>3, PendingFacts
  <2>3. \A b : b \in Pending' <=> b \in Pending /\ b # buffer
    BY <1>2, <1>3, <1>5, <2>1, PendingFacts DEF Growing
  <2>. QED
    BY <2>1, <2>2, <2>3
<1>21. /\ last \in DOMAIN lengths \ Pending /\ after[buffer] = None /\ last # buffer
       /\ after'[last] = buffer /\ \A b \in Item : b # last => after'[b] = after[b]
       /\ after \in [Item -> Item \cup {None}] /\ after' \in [Item -> Item \cup {None}]
       /\ None \notin Item /\ 1 \in Item
  <2>1. after \in [Item -> Item \cup {None}] /\ None \notin Item /\ 1 \in Item
    BY <1>1, PoolAssumption DEF Typed, ChainTyped, Item
  <2>2. last \in DOMAIN lengths \ Pending /\ after[buffer] = None /\ last # buffer
    BY <1>2, <1>3, <1>19 DEF Growing
  <2>. QED
    BY <1>2, <1>3, <2>1, <2>2
<1>22. LinkInv'
  <2>1. \A u \in Thread : /\ Growing(u)' => Growing(u) /\ reg'[u].buffer = reg[u].buffer
                          /\ pc'[u] = "gr_link" => u # t /\ pc[u] = "gr_link" /\ reg'[u] = reg[u]
    BY <1>2, <1>3, <1>4, <1>5 DEF Growing
  <2>2. \A u \in Thread : Growing(u) => reg[u].buffer # last /\ reg[u].buffer \in Item
    BY <1>1, <1>2, <1>3, <1>19, Contents DEF Growing, BufferPC
  <2>3. ASSUME NEW u \in Thread, Growing(u)'
        PROVE  /\ after'[reg'[u].buffer] = None /\ reg'[u].buffer # back'
               /\ \A v \in Thread : pc'[v] = "gr_link" => reg'[v].last # reg'[u].buffer
    BY <1>2, <1>19, <1>21, <2>1, <2>2, <2>3
  <2>4. \A u \in Thread : pc'[u] = "gr_link" => reg'[u].last \in DOMAIN lengths' \ Pending'
    BY <1>2, <1>19, <1>20, <2>1
  <2>5. buffer # 1 /\ \A b \in Item : after[b] # buffer
    BY <1>19, <1>20, <1>21
  <2>6. \A b \in Item : after'[b] # None =>
             /\ b \in DOMAIN lengths' \ Pending'
             /\ after'[b] \in DOMAIN lengths' \ Pending' /\ after'[b] # 1
    BY <1>2, <1>6, <1>19, <1>20, <1>21, <2>5
  <2>7. \A b, d \in Item : after'[b] # None /\ after'[b] = after'[d] => b = d
    BY <1>19, <1>21, <2>5
  <2>8. ASSUME NEW b \in DOMAIN lengths' \ (Pending' \cup overwritten' \cup {1})
        PROVE  \E d \in Item : after'[d] = b
    <3>1. CASE b = buffer
      BY <1>21, <3>1
    <3>2. CASE b # buffer
      <4>1. b \in DOMAIN lengths \ (Pending \cup overwritten \cup {1})
        BY <1>2, <1>20, <2>8, <3>2
      <4>2. PICK d \in Item : after[d] = b
        BY <1>19, <4>1
      <4>3. d # last
        <5>1. b # None
          BY <1>1, <1>6, <1>21, <4>1 DEF BufferInv
        <5>. QED
          BY <1>2, <1>3, <2>8, <4>2, <5>1
      <4>. QED
        BY <1>21, <4>2, <4>3
    <3>. QED
      BY <3>1, <3>2
  <2>9. 1 \in DOMAIN lengths' \ Pending' /\ back' \in DOMAIN lengths' \ Pending'
    BY <1>2, <1>19, <1>20
  <2>. QED
    BY <2>3, <2>4, <2>6, <2>7, <2>8, <2>9 DEF LinkInv
<1>23. ListInv'
  <2>. SUFFICES ASSUME overwritten' = {} PROVE ListInv'
    BY DEF ListInv
  <2>1. overwritten = {} /\ after[last] = None
    BY <1>2, <1>3
  <2>2. /\ Reachable = DOMAIN lengths \ Pending
        /\ \A b \in DOMAIN lengths \ Pending : after[b] = None =>
              \/ \E u \in Thread : pc[u] = "gr_back" /\ b = reg[u].buffer
              \/ b = back /\ \A u \in Thread : pc[u] # "gr_back"
    BY <1>1, <1>6, <2>1 DEF ListInv
  <2>3. \A u \in Thread : pc[u] = "gr_back" => reg[u].buffer # last
    BY <1>2, <1>3, <1>19 DEF Growing
  <2>4. last = back /\ \A u \in Thread : pc[u] # "gr_back"
    BY <1>21, <2>1, <2>2, <2>3
  <2>5. \A u \in Thread : pc'[u] = "gr_back" <=> u = t
    BY <1>5, <2>4
  <2>6. Reachable' = Reachable \cup {buffer}
    <3>1. last \in OnList(1, after) /\ buffer \notin OnList(1, after)
      BY <1>20, <1>21, <2>2 DEF Reachable
    <3>2. after[last] = None /\ after[buffer] = None /\ after'[last] = buffer
          /\ buffer \in Item /\ last \in Item /\ 1 \in Item
      BY <1>21, <2>1
    <3>3. after \in [Item -> Item \cup {None}] /\ after' \in [Item -> Item \cup {None}]
      BY <1>21
    <3>4. \A i \in Item : i # last => after'[i] = after[i]
      BY <1>21
    <3>5. OnList(1, after') = OnList(1, after) \cup {buffer}
      BY ONLY <3>1, <3>2, <3>3, <3>4, ListAppended
    <3>. QED
      BY <3>5 DEF Reachable
  <2>7. Reachable' = DOMAIN lengths' \ Pending'
    BY <1>2, <1>6, <1>20, <2>2, <2>6
  <2>8. \A b \in DOMAIN lengths' \ Pending' : after'[b] = None => b = buffer
    <3>1. \A b \in DOMAIN lengths \ Pending : after[b] = None => b = last
      BY <2>2, <2>4
    <3>2. DOMAIN lengths \subseteq Item /\ buffer # None
      BY <1>1, <1>6, <1>21 DEF BufferInv
    <3>. QED
      BY <1>2, <1>20, <1>21, <3>1, <3>2
  <2>9. pc'[t] = "gr_back" /\ reg'[t].buffer = buffer
    BY <1>4, <1>5
  <2>. QED
    BY <1>6, <2>5, <2>7, <2>8, <2>9 DEF ListInv
<1>. QED
  BY <1>7, <1>8, <1>9, <1>10, <1>11, <1>12, <1>13, <1>14, <1>15, <1>16, <1>17, <1>18, <1>22, <1>23 DEF IInv

(* The pool is destroyed while an item is counted. *)
LEMMA DestroyPoolFailsInv ==
  ASSUME IInv, DestroyPool, \E i \in Item : strongcount[i] # 0
  PROVE  IInv'
<1>1. Ends("still_alive") /\ ended = None
  BY DEF DestroyPool, Ends, chain
<1>. QED
  BY <1>1, EndsInv DEF Endings

(* Nothing is counted: the buffers on the list, which are all, are freed. *)
LEMMA DestroyPoolInv ==
  ASSUME IInv, DestroyPool, \A i \in Item : strongcount[i] = 0
  PROVE  IInv'
<1>1. /\ Typed /\ OwnInv /\ HandInv /\ ObjectInv /\ NewInv /\ WeakInv /\ FreshInv /\ PromoteInv
      /\ LostInv /\ CountsMatch /\ StackInv /\ BufferInv /\ LinkInv /\ ListInv
  BY DEF IInv
<1>2. /\ ended = None /\ ended' = "destroyed" /\ lengths' = [b \in DOMAIN lengths \ Reachable |-> lengths[b]]
      /\ UNCHANGED <<generation, strongcount, object, objects, lost, next, top, size, after, back, overwritten, own,
                     weak>> /\ UNCHANGED <<pc, reg>>
      /\ \A t \in Thread : pc[t] = "idle"
  BY DEF DestroyPool, Idle, At, counters, stack, chain, handles
<1>3. lengths' \in [DOMAIN lengths' -> Nat]
  BY <1>1, <1>2 DEF Typed, ChainTyped
<1>4. Typed'
  <2>1. LocalTyped' /\ CountersTyped' /\ StackTyped' /\ HandlesTyped'
    BY <1>1, <1>2 DEF Typed, LocalTyped, CountersTyped, StackTyped, HandlesTyped
  <2>2. ChainTyped'
    BY <1>1, <1>2, <1>3 DEF Typed, ChainTyped
  <2>. QED
    BY <1>2, <2>1, <2>2 DEF Typed, Endings
<1>5. OwnInv'
  BY <1>1, <1>2 DEF OwnInv
<1>6. HandInv'
  BY <1>1, <1>2 DEF HandInv, ItemPC
<1>7. ObjectInv'
  BY <1>1, <1>2 DEF ObjectInv
<1>8. NewInv'
  BY <1>1, <1>2 DEF NewInv, MakePC
<1>9. WeakInv'
  BY <1>1, <1>2 DEF WeakInv
<1>10. FreshInv'
  BY <1>1, <1>2 DEF FreshInv
<1>11. PromoteInv'
  BY <1>1, <1>2 DEF PromoteInv, PromotePC
<1>12. LostInv'
  BY <1>1, <1>2 DEF LostInv
<1>13. CountsMatch'
  <2>1. \A i : Owners(i)' = Owners(i) /\ Passing(i)' = Passing(i)
    BY <1>1, <1>2 DEF Owners, Passing
  <2>. QED
    BY <1>1, <1>2, <2>1 DEF CountsMatch
<1>14. StackInv'
  <2>1. \A i \in Item : Used(i)' <=> Used(i)
    BY <1>1, <1>2 DEF Used, ItemPC
  <2>. QED
    BY <1>1, <1>2, <2>1, StackFrame
<1>15. BufferInv'
  BY <1>2 DEF BufferInv, Growers, BufferPC
<1>16. LinkInv'
  BY <1>2 DEF LinkInv
<1>17. ListInv'
  <2>. SUFFICES ASSUME overwritten = {} PROVE DOMAIN lengths' = {}
    BY <1>2 DEF ListInv, chain
  <2>1. Pending = {}
    BY <1>2, PendingFacts
  <2>2. Reachable = DOMAIN lengths \ Pending
    BY <1>1, <1>2, PoolAssumption DEF ListInv
  <2>. QED
    BY <1>2, <2>1, <2>2
<1>. QED
  BY <1>4, <1>5, <1>6, <1>7, <1>8, <1>9, <1>10, <1>11, <1>12, <1>13, <1>14, <1>15, <1>16, <1>17 DEF IInv

(* The new buffer follows the items that were allocated. *)
LEMMA NewBuffer ==
  ASSUME Typed, BufferInv, ended # "destroyed"
  PROVE  \E n \in 1 .. MaxItems : /\ Allocated = 1 .. n /\ NewFirst = n + 1
                                 /\ NewLength \in Nat /\ NewLength > 0
<1>1. PICK n \in 1 .. MaxItems : Allocated = 1 .. n
  BY DEF BufferInv
<1>2. n \in Nat /\ MaxItems \in Nat /\ n + 1 \in 1 .. MaxItems + 1
  BY PoolAssumption
<1>3. ASSUME NEW f \in 1 .. MaxItems + 1, Allocated = 1 .. f - 1 PROVE f = n + 1
  <2>1. n \in 1 .. f - 1
    BY <1>1, <1>2, <1>3
  <2>2. f - 1 \in 1 .. n
    BY <1>1, <1>2, <1>3, <2>1
  <2>. QED
    BY <1>2, <2>1, <2>2
<1>4. Allocated = 1 .. (n + 1) - 1
  BY <1>1, <1>2
<1>5. NewFirst = n + 1
  BY <1>2, <1>3, <1>4 DEF NewFirst
<1>6. PICK l \in Nat : l = lengths[back] /\ l # 0
  BY DEF BufferInv, Typed, ChainTyped
<1>7. NewLength \in Nat /\ NewLength > 0
  <2>1. \A m \in Nat : m > 1 => m \div 2 \in Nat /\ m \div 2 > 0
    OBVIOUS
  <2>2. 3 * l \in Nat /\ 3 * l > 1
    BY <1>6
  <2>. QED
    BY <1>6, <2>1, <2>2 DEF NewLength
<1>. QED
  BY <1>1, <1>5, <1>7

(* The new buffer is disjoint from the others. *)
LEMMA GrowInv ==
  ASSUME IInv, NEW t \in Thread, Grow(t)
  PROVE  IInv'
<1>1. /\ Typed /\ OwnInv /\ HandInv /\ ObjectInv /\ NewInv /\ WeakInv /\ FreshInv /\ PromoteInv
      /\ LostInv /\ CountsMatch /\ StackInv /\ BufferInv /\ LinkInv /\ ListInv
  BY DEF IInv
<1>. DEFINE r == [object |-> reg[t].object, buffer |-> NewFirst]
<1>2. /\ pc[t] = "mk_empty" /\ Goto(t, "gr_load", r) /\ ended = None
      /\ NewFirst + NewLength - 1 <= MaxItems
      /\ lengths' = [b \in DOMAIN lengths \cup {NewFirst} |-> IF b = NewFirst THEN NewLength ELSE lengths[b]]
      /\ UNCHANGED <<generation, strongcount, object, objects, lost, next, top, size, after, back, overwritten, own,
                     weak, ended>>
  BY DEF Grow, At, counters, stack, chain, handles
<1>3. ended # "destroyed"
  BY <1>2, PoolAssumption
<1>4. PICK n \in 1 .. MaxItems : Allocated = 1 .. n /\ NewFirst = n + 1 /\ NewLength \in Nat /\ NewLength > 0
  BY <1>1, <1>3, NewBuffer
<1>5. PICK len \in Nat : len = NewLength /\ len > 0
  BY <1>4
<1>6. n + len <= MaxItems /\ n \in Nat /\ n + 1 \in Item /\ MaxItems \in Nat
  BY <1>2, <1>4, <1>5, PoolAssumption DEF Item
<1>7. PICK first \in Item : first = NewFirst /\ first = n + 1
  BY <1>4, <1>6
<1>8. "gr_load" \in PCs /\ r \in Registers("gr_load") /\ r.buffer = first /\ r.object = reg[t].object
  BY <1>1, <1>2, <1>7, Contents DEF PCs, MakePC, Registers, GrowRegs
<1>. HIDE DEF r
<1>9. /\ pc'[t] = "gr_load" /\ reg'[t] = r /\ LocalTyped'
      /\ \A u \in Thread : u # t => pc'[u] = pc[u] /\ reg'[u] = reg[u]
  BY <1>1, <1>2, <1>8, Moves
<1>10. /\ DOMAIN lengths \subseteq Item /\ back \in DOMAIN lengths
       /\ \A b \in DOMAIN lengths : lengths[b] \in Nat /\ lengths[b] # 0
       /\ \A u \in Growers : reg[u].buffer \in DOMAIN lengths
  BY <1>1, <1>3 DEF BufferInv, Typed, ChainTyped
<1>11. \A b \in DOMAIN lengths : b \in Allocated /\ Buffer(b, lengths[b]) \subseteq 1 .. n
  <2>1. ASSUME NEW b \in DOMAIN lengths PROVE b \in Allocated /\ Buffer(b, lengths[b]) \subseteq Allocated
    <3>1. b \in Buffer(b, lengths[b])
      BY <1>10 DEF Buffer, Item
    <3>. QED
      BY <3>1 DEF Allocated
  <2>. QED
    BY <1>4, <2>1
<1>12. first \notin DOMAIN lengths
  BY <1>4, <1>6, <1>7, <1>11
<1>13. /\ DOMAIN lengths' = DOMAIN lengths \cup {first} /\ lengths'[first] = len
       /\ \A b \in DOMAIN lengths : lengths'[b] = lengths[b]
       /\ lengths' \in [DOMAIN lengths' -> Nat]
  BY <1>2, <1>5, <1>7, <1>10, <1>12
<1>14. Buffer(first, len) = n + 1 .. n + len
  BY <1>6, <1>7 DEF Buffer
<1>15. Typed'
  <2>1. CountersTyped'
    BY <1>1, <1>2, <1>8, <1>9, <1>13 DEF Typed, CountersTyped
  <2>2. StackTyped' /\ ChainTyped' /\ HandlesTyped'
    BY <1>1, <1>2, <1>8, <1>9, <1>13 DEF Typed, StackTyped, ChainTyped, HandlesTyped
  <2>. QED
    BY <1>1, <1>2, <1>8, <1>9, <1>13, <2>1, <2>2 DEF Typed
<1>16. OwnInv'
  BY <1>1, <1>2, <1>8, <1>9 DEF OwnInv
<1>17. HandInv'
  BY <1>1, <1>2, <1>8, <1>9 DEF HandInv, ItemPC
<1>18. ObjectInv'
  BY <1>1, <1>2, <1>8, <1>9 DEF ObjectInv
<1>19. NewInv'
  BY <1>1, <1>2, <1>8, <1>9 DEF NewInv, MakePC
<1>20. WeakInv'
  BY <1>1, <1>2, <1>8, <1>9 DEF WeakInv
<1>21. FreshInv'
  BY <1>1, <1>2, <1>8, <1>9 DEF FreshInv
<1>22. PromoteInv'
  BY <1>1, <1>2, <1>8, <1>9 DEF PromoteInv, PromotePC
<1>23. LostInv'
  BY <1>1, <1>2, <1>8, <1>9 DEF LostInv
<1>24. CountsMatch'
  <2>1. \A i : Owners(i)' = Owners(i) /\ Passing(i)' = Passing(i)
    BY <1>1, <1>2, <1>8, <1>9 DEF Owners, Passing
  <2>. QED
    BY <1>1, <1>2, <1>8, <1>9, <2>1 DEF CountsMatch
<1>25. StackInv'
  <2>1. \A i \in Item : Used(i)' <=> Used(i)
    BY <1>1, <1>2, <1>8, <1>9 DEF Used, ItemPC
  <2>. QED
    BY <1>1, <1>2, <1>8, <1>9, <2>1, StackFrame
<1>26. BufferInv'
  <2>1. Allocated' = 1 .. n + len
    <3>1. Allocated' = Allocated \cup Buffer(first, len)
      BY <1>13 DEF Allocated
    <3>. QED
      BY <1>4, <1>6, <1>14, <3>1
  <2>2. /\ Growers' = Growers \cup {t} /\ t \notin Growers
        /\ \A u \in Growers : reg'[u] = reg[u] /\ lengths'[reg[u].buffer] = lengths[reg[u].buffer]
    BY <1>2, <1>9, <1>10, <1>13 DEF Growers, BufferPC
  <2>3. reg'[t].buffer = first /\ lengths'[reg'[t].buffer] = len
    BY <1>8, <1>9, <1>13
  <2>4. GrowingItems' = GrowingItems \cup Buffer(first, len)
    BY <2>2, <2>3 DEF GrowingItems
  <2>5. \A u \in Growers : Buffer(reg[u].buffer, lengths[reg[u].buffer]) \subseteq 1 .. n
    BY <1>10, <1>11
  <2>6. GrowingItems \subseteq 1 .. n
    BY <2>5 DEF GrowingItems
  <2>7. Allocated' \ GrowingItems' = Allocated \ GrowingItems
    BY <1>4, <1>6, <1>14, <2>1, <2>4, <2>6
  <2>8. \A i \in Item : (Used(i)' <=> Used(i)) /\ (i \in Free' <=> i \in Free)
    BY <1>2, <1>9 DEF Used, ItemPC, Free
  <2>9. \A i \in Item : i \in Allocated' \ GrowingItems' <=> i \in Free' \/ Used(i)'
    BY <1>1, <1>3, <2>7, <2>8 DEF BufferInv
  <2>10. Buffer(first, len) \cap 1 .. n = {}
    BY <1>6, <1>14
  <2>11. ASSUME NEW u \in Growers', NEW v \in Growers', u # v
         PROVE  Buffer(reg'[u].buffer, lengths'[reg'[u].buffer]) \cap Buffer(reg'[v].buffer, lengths'[reg'[v].buffer]) = {}
    <3>1. CASE u = t
      BY <2>2, <2>3, <2>5, <2>10, <2>11, <3>1
    <3>2. CASE v = t
      BY <2>2, <2>3, <2>5, <2>10, <2>11, <3>2
    <3>3. CASE u # t /\ v # t
      BY <1>1, <1>3, <2>2, <2>11, <3>3 DEF BufferInv
    <3>. QED
      BY <3>1, <3>2, <3>3
  <2>12. n + len \in 1 .. MaxItems
    BY <1>6
  <2>13. /\ DOMAIN lengths' \subseteq Item /\ back' \in DOMAIN lengths'
         /\ \A b \in DOMAIN lengths' : lengths'[b] # 0
    BY <1>2, <1>5, <1>10, <1>13
  <2>14. \A u \in Growers' : reg'[u].buffer \in DOMAIN lengths'
    <3>1. \A u \in Growers : reg'[u].buffer \in DOMAIN lengths
      BY <1>10, <2>2
    <3>. QED
      BY <1>13, <2>2, <2>3, <3>1
  <2>. QED
    BY <1>2, <1>3, <2>1, <2>9, <2>11, <2>12, <2>13, <2>14 DEF BufferInv
<1>27. /\ \A u \in Thread : /\ Growing(u) => u # t /\ reg[u].buffer # first
                           /\ Growing(u)' <=> u = t \/ Growing(u)
       /\ Pending' = Pending \cup {first} /\ first \notin Pending
       /\ DOMAIN lengths' \ Pending' = DOMAIN lengths \ Pending
  <2>1. \A u \in Thread : Growing(u) => u # t /\ reg[u].buffer # first
    BY <1>2, <1>10, <1>12 DEF Growing, Growers, BufferPC
  <2>2. \A u \in Thread : Growing(u)' <=> u = t \/ Growing(u)
    BY <1>9 DEF Growing
  <2>3. first \notin Pending
    BY <2>1, PendingFacts DEF Growing
  <2>4. \A b : b \in Pending' <=> b \in Pending \/ b = first
    BY <1>2, <1>8, <1>9, PendingFacts
  <2>. QED
    BY <1>12, <1>13, <2>1, <2>2, <2>3, <2>4
<1>28. LinkInv'
  <2>1. /\ 1 \in DOMAIN lengths \ Pending /\ back \in DOMAIN lengths \ Pending
        /\ \A u \in Thread : Growing(u) =>
              /\ after[reg[u].buffer] = None /\ reg[u].buffer # back
              /\ \A v \in Thread : pc[v] = "gr_link" => reg[v].last # reg[u].buffer
        /\ \A u \in Thread : pc[u] = "gr_link" => reg[u].last \in DOMAIN lengths \ Pending
        /\ \A b \in Item : after[b] # None =>
              /\ b \in DOMAIN lengths \ Pending
              /\ after[b] \in DOMAIN lengths \ Pending /\ after[b] # 1
        /\ \A b, d \in Item : after[b] # None /\ after[b] = after[d] => b = d
        /\ \A b \in DOMAIN lengths \ (Pending \cup overwritten \cup {1}) :
              \E d \in Item : after[d] = b
    BY <1>1, <1>3 DEF LinkInv
  <2>2. \A u \in Thread : pc'[u] = "gr_link" => pc[u] = "gr_link" /\ reg'[u] = reg[u]
    BY <1>9
  <2>3. ASSUME NEW u \in Thread, Growing(u)'
        PROVE  /\ after'[reg'[u].buffer] = None /\ reg'[u].buffer # back'
               /\ \A v \in Thread : pc'[v] = "gr_link" => reg'[v].last # reg'[u].buffer
    <3>1. CASE u = t
      BY <1>2, <1>8, <1>9, <1>12, <2>1, <2>2, <3>1
    <3>2. CASE u # t
      BY <1>2, <1>9, <1>27, <2>1, <2>2, <2>3, <3>2
    <3>. QED
      BY <3>1, <3>2
  <2>4. \A b \in DOMAIN lengths' \ (Pending' \cup overwritten' \cup {1}) :
              b \in DOMAIN lengths \ (Pending \cup overwritten \cup {1})
    BY <1>2, <1>27
  <2>. QED
    BY <1>2, <1>27, <2>1, <2>2, <2>3, <2>4 DEF LinkInv
<1>29. ListInv'
  <2>. SUFFICES ASSUME overwritten = {} PROVE ListInv'
    BY <1>2 DEF ListInv
  <2>1. /\ \A u, v \in Thread : pc[u] = "gr_back" /\ pc[v] = "gr_back" => u = v
        /\ Reachable = DOMAIN lengths \ Pending
        /\ \A b \in DOMAIN lengths \ Pending : after[b] = None =>
              \/ \E u \in Thread : pc[u] = "gr_back" /\ b = reg[u].buffer
              \/ b = back /\ \A u \in Thread : pc[u] # "gr_back"
        /\ (\A u \in Thread : pc[u] # "gr_back") => after[back] = None
    BY <1>1, <1>3 DEF ListInv
  <2>2. \A u \in Thread : /\ pc'[u] = "gr_back" <=> pc[u] = "gr_back"
                          /\ pc[u] = "gr_back" => reg'[u] = reg[u]
    BY <1>2, <1>9
  <2>3. Reachable' = Reachable
    BY <1>2 DEF Reachable
  <2>4. ended' # "destroyed"
    BY <1>2, <1>3
  <2>. QED
    BY <1>2, <1>27, <2>1, <2>2, <2>3, <2>4 DEF ListInv
<1>. QED
  BY <1>15, <1>16, <1>17, <1>18, <1>19, <1>20, <1>21, <1>22, <1>23, <1>24, <1>25, <1>26, <1>28, <1>29 DEF IInv

(* The items of the new buffer are put on the stack. *)
LEMMA GrowPushInv ==
  ASSUME IInv, NEW t \in Thread, GrowPush(t)
  PROVE  IInv'
<1>1. /\ Typed /\ OwnInv /\ HandInv /\ ObjectInv /\ NewInv /\ WeakInv /\ FreshInv /\ PromoteInv
      /\ LostInv /\ CountsMatch /\ StackInv /\ BufferInv /\ LinkInv /\ ListInv
  BY DEF IInv
<1>2. /\ pc[t] = "gr_push" /\ Goto(t, "gr_assert", reg[t]) /\ ended = None
      /\ next' = Linked(reg[t].buffer, lengths[reg[t].buffer], top)
      /\ size' = size + lengths[reg[t].buffer] /\ top' = reg[t].buffer
      /\ UNCHANGED <<generation, strongcount, object, objects, lost, lengths, after, back, overwritten, own, weak,
                     ended>>
  BY DEF GrowPush, Unlock, At, counters, stack, chain, handles
<1>3. PICK first \in Item : reg[t].buffer = first
  BY <1>1, <1>2, Contents DEF BufferPC
<1>4. "gr_assert" \in PCs /\ reg[t] \in Registers("gr_assert") /\ reg[t].buffer = first
  BY <1>1, <1>2, <1>3, Contents DEF PCs, MakePC, Registers
<1>5. /\ pc'[t] = "gr_assert" /\ reg'[t] = reg[t] /\ LocalTyped'
      /\ \A u \in Thread : u # t => pc'[u] = pc[u] /\ reg'[u] = reg[u]
  BY <1>1, <1>2, <1>4, Moves
<1>6. ended # "destroyed" /\ t \in Growers /\ first \in DOMAIN lengths
  BY <1>1, <1>2, <1>3, PoolAssumption DEF BufferInv, Growers, BufferPC
<1>7. PICK len \in Nat : len = lengths[first] /\ len # 0
  BY <1>1, <1>6 DEF BufferInv, Typed, ChainTyped
<1>8. PICK n \in 1 .. MaxItems : Allocated = 1 .. n
  BY <1>1, <1>6 DEF BufferInv
<1>9. first + len - 1 \in Nat /\ Buffer(first, len) = first .. first + len - 1 /\ MaxItems \in Nat
  BY <1>7, PoolAssumption DEF Buffer, Item
<1>10. PICK last \in Nat : last = first + len - 1 /\ first <= last
  BY <1>7, <1>9 DEF Item
<1>11. PICK B \in SUBSET Item : B = Buffer(first, len) /\ B = first .. last /\ B \subseteq Allocated
  <2>1. Buffer(first, len) \subseteq Allocated
    BY <1>6, <1>7 DEF Allocated
  <2>2. 1 .. n \subseteq Item
    BY <1>9 DEF Item
  <2>. QED
    BY <1>8, <1>9, <1>10, <2>1, <2>2
<1>12. last \in Item
  BY <1>10, <1>11 DEF Item
<1>13. B \subseteq GrowingItems
  BY <1>6, <1>7, <1>11, <1>3 DEF GrowingItems
<1>14. \A i \in B : i \notin Free /\ ~Used(i)
  BY <1>1, <1>6, <1>13 DEF BufferInv
<1>15. /\ Free \subseteq Item /\ (top # None => top \in Free)
       /\ \A i \in Free : next[i] # None => next[i] \in Free
  BY <1>1, OnListFacts DEF Free, Typed, StackTyped
<1>16. \A i \in Item : next'[i] = IF i \notin B THEN next[i] ELSE IF i = last THEN top ELSE i + 1
  BY <1>2, <1>7, <1>10, <1>11, <1>3 DEF Linked
<1>17. \A i \in B : i # last => i + 1 \in B
  BY <1>10, <1>11 DEF Item
<1>18. next' \in [Item -> Item \cup {None}] /\ next \in [Item -> Item \cup {None}] /\ top \in Item \cup {None}
       /\ size \in Nat
  <2>1. next' = [i \in Item |-> next'[i]]
    BY <1>2 DEF Linked
  <2>2. next \in [Item -> Item \cup {None}] /\ top \in Item \cup {None} /\ size \in Nat
    BY <1>1 DEF Typed, StackTyped
  <2>3. \A i \in Item : next'[i] \in Item \cup {None}
    BY <1>16, <1>17, <2>2
  <2>. QED
    BY <2>1, <2>2, <2>3
<1>19. Free' = Free \cup B
  <2>1. next'[last] = top /\ \A i \in first .. last : i # last => next'[i] = i + 1
    <3>1. last \in B /\ \A i \in first .. last : i \in Item /\ i \in B
      BY <1>10, <1>11 DEF Item
    <3>. QED
      BY <1>12, <1>16, <3>1
  <2>2. first .. last \cap OnList(top, next) = {}
    BY <1>11, <1>14 DEF Free
  <2>3. \A i \in OnList(top, next) : next'[i] = next[i]
    BY <1>14, <1>15, <1>16 DEF Free
  <2>4. first <= last
    BY <1>10
  <2>5. OnList(first, next') = OnList(top, next) \cup first .. last
    BY ONLY <1>12, <1>18, <2>1, <2>2, <2>3, <2>4, first \in Item, ListExtended
  <2>. QED
    BY <1>2, <1>11, <1>3, <2>5 DEF Free
<1>20. IsFiniteSet(B) /\ Cardinality(B) = len
  <2>1. IsFiniteSet(first .. last) /\ Cardinality(first .. last) = last - first + 1
    BY <1>10, FS_Interval DEF Item
  <2>. QED
    BY <1>10, <1>11, <2>1 DEF Item
<1>21. \A i \in Item : Used(i)' <=> Used(i)
  BY <1>2, <1>5 DEF Used, ItemPC
<1>22. Typed'
  <2>1. CountersTyped'
    BY <1>1, <1>2, <1>4, <1>5, <1>18, <1>7, <1>3 DEF Typed, CountersTyped
  <2>2. StackTyped' /\ ChainTyped' /\ HandlesTyped'
    BY <1>1, <1>2, <1>4, <1>5, <1>18, <1>7, <1>3 DEF Typed, StackTyped, ChainTyped, HandlesTyped
  <2>. QED
    BY <1>1, <1>2, <1>4, <1>5, <1>18, <1>7, <1>3, <2>1, <2>2 DEF Typed
<1>23. OwnInv'
  BY <1>1, <1>2, <1>4, <1>5 DEF OwnInv
<1>24. HandInv'
  BY <1>1, <1>2, <1>4, <1>5 DEF HandInv, ItemPC
<1>25. ObjectInv'
  BY <1>1, <1>2, <1>4, <1>5 DEF ObjectInv
<1>26. NewInv'
  BY <1>1, <1>2, <1>4, <1>5 DEF NewInv, MakePC
<1>27. WeakInv'
  BY <1>1, <1>2, <1>4, <1>5 DEF WeakInv
<1>28. FreshInv'
  BY <1>1, <1>2, <1>4, <1>5 DEF FreshInv
<1>29. PromoteInv'
  BY <1>1, <1>2, <1>4, <1>5 DEF PromoteInv, PromotePC
<1>30. LostInv'
  BY <1>1, <1>2, <1>4, <1>5 DEF LostInv
<1>31. CountsMatch'
  <2>1. \A i : Owners(i)' = Owners(i) /\ Passing(i)' = Passing(i)
    BY <1>1, <1>2, <1>4, <1>5 DEF Owners, Passing
  <2>. QED
    BY <1>1, <1>2, <1>4, <1>5, <2>1 DEF CountsMatch
<1>32. StackInv'
  <2>1. IsFiniteSet(Free') /\ Cardinality(Free') = size'
    <3>1. Free \cap B = {}
      BY <1>14
    <3>2. Cardinality(Free \cup B) = Cardinality(Free) + Cardinality(B) - Cardinality({}) /\ IsFiniteSet(Free \cup B)
      BY <1>1, <1>20, <3>1, FS_Union DEF StackInv
    <3>3. Cardinality({}) = 0
      BY FS_EmptySet
    <3>. QED
      BY <1>1, <1>2, <1>7, <1>18, <1>19, <1>20, <1>3, <3>2, <3>3 DEF StackInv
  <2>2. \A i \in Free' : ~Used(i)'
    BY <1>1, <1>14, <1>15, <1>19, <1>21 DEF StackInv
  <2>3. first \notin Free /\ last \in B /\ first \in B /\ top' = first
    BY <1>2, <1>10, <1>11, <1>14, <1>3 DEF Item
  <2>4. \A i \in Free : next'[i] = next[i]
    BY <1>14, <1>15, <1>16
  <2>5. \A i \in B :
                   /\ i = last => next'[i] = top
                   /\ i # last => next'[i] = i + 1 /\ i + 1 \in B /\ i + 1 # first
    BY <1>11, <1>16, <1>17 DEF Item
  <2>6. \A i \in Free' : next'[i] # top'
    <3>1. top # first /\ \A i \in Free : next[i] # first
      BY <1>15, <2>3, PoolAssumption DEF Item
    <3>. QED
      BY <1>19, <2>3, <2>4, <2>5, <3>1
  <2>7. ASSUME NEW i \in Free', NEW j \in Free', next'[i] = next'[j], next'[i] # None PROVE i = j
    <3>1. CASE i \in Free /\ j \in Free
      BY <1>1, <2>4, <2>7, <3>1 DEF StackInv
    <3>2. CASE i \in B /\ j \in B
      <4>1. None \notin B /\ top \notin B
        <5>1. None \notin Item
          BY PoolAssumption DEF Item
        <5>. QED
          BY <1>11, <1>14, <1>15, <5>1
      <4>2. i = last <=> j = last
        BY <2>5, <2>7, <3>2, <4>1
      <4>3. i \in Nat /\ j \in Nat
        BY <3>2 DEF Item
      <4>. QED
        BY <2>5, <2>7, <3>2, <4>2, <4>3
    <3>3. ASSUME NEW k \in Free, NEW m \in B, next'[k] = next'[m], next'[k] # None PROVE FALSE
      <4>1. next[k] \in Free /\ next[k] # top
        BY <1>1, <1>15, <2>4, <3>3 DEF StackInv
      <4>. QED
        BY <1>14, <2>4, <2>5, <3>3, <4>1
    <3>. QED
      BY <1>19, <2>7, <3>1, <3>2, <3>3
  <2>. QED
    BY <2>1, <2>2, <2>6, <2>7 DEF StackInv
<1>33. BufferInv'
  <2>1. Growers' = Growers \ {t} /\ \A u \in Growers' : reg'[u] = reg[u]
    BY <1>2, <1>5 DEF Growers, BufferPC
  <2>2. \A u \in Growers : u # t => Buffer(reg[u].buffer, lengths[reg[u].buffer]) \cap B = {}
    BY <1>1, <1>6, <1>7, <1>11, <1>3 DEF BufferInv
  <2>3. GrowingItems' = GrowingItems \ B
    <3>1. \A i : i \in GrowingItems <=> \E u \in Growers : i \in Buffer(reg[u].buffer, lengths[reg[u].buffer])
      BY DEF GrowingItems
    <3>2. \A i : i \in GrowingItems' <=>
             \E u \in Growers \ {t} : i \in Buffer(reg[u].buffer, lengths[reg[u].buffer])
      BY <1>2, <2>1 DEF GrowingItems
    <3>3. B = Buffer(reg[t].buffer, lengths[reg[t].buffer])
      BY <1>7, <1>11, <1>3
    <3>. QED
      BY <1>6, <2>2, <3>1, <3>2, <3>3
  <2>4. Allocated' = Allocated
    BY <1>2 DEF Allocated
  <2>5. \A i \in Item : i \in Allocated' \ GrowingItems' <=> i \in Free' \/ Used(i)'
    BY <1>1, <1>6, <1>11, <1>19, <1>21, <2>3, <2>4 DEF BufferInv
  <2>6. /\ DOMAIN lengths' \subseteq Item /\ back' \in DOMAIN lengths'
        /\ \A b \in DOMAIN lengths' : lengths'[b] # 0
    BY <1>1, <1>2, <1>6 DEF BufferInv
  <2>7. \A u \in Growers' : reg'[u].buffer \in DOMAIN lengths'
    BY <1>1, <1>2, <1>6, <2>1 DEF BufferInv
  <2>8. \A u, v \in Growers' : u # v =>
          Buffer(reg'[u].buffer, lengths'[reg'[u].buffer]) \cap Buffer(reg'[v].buffer, lengths'[reg'[v].buffer]) = {}
    BY <1>1, <1>2, <1>6, <2>1 DEF BufferInv
  <2>. QED
    BY <1>2, <1>6, <1>8, <2>4, <2>5, <2>6, <2>7, <2>8 DEF BufferInv
<1>34. LinkInv' /\ ListInv'
  BY <1>1, <1>2, <1>4, <1>5, ListFrame DEF Growing
<1>. QED
  BY <1>22, <1>23, <1>24, <1>25, <1>26, <1>27, <1>28, <1>29, <1>30, <1>31, <1>32, <1>33, <1>34 DEF IInv

-----------------------------------------------------------------------------
(* The first buffer. *)
LEMMA InitInv == Init => IInv
<1>. SUFFICES ASSUME Init PROVE IInv
  OBVIOUS
<1>1. /\ 1 \in Item /\ FirstItems \in Item /\ MaxItems \in Nat /\ None \notin Nat /\ None \notin Item /\ 1 <= FirstItems
      /\ ended = None /\ None # "destroyed"
  BY PoolAssumption DEF Init, Item
<1>2. /\ pc \in [Thread -> {"idle"}] /\ reg \in [Thread -> {None}] /\ own \in [Thread -> {None}]
      /\ weak \in [Thread -> {None}] /\ object \in [Item -> {None}] /\ lost = {} /\ strongcount \in [Item -> {0}]
      /\ objects = 0 /\ after \in [Item -> {None}] /\ back = 1 /\ lengths = [b \in {1} |-> FirstItems]
      /\ top = 1 /\ size = FirstItems /\ generation \in [Item -> {0}]
      /\ \A i \in Item : next[i] = IF i < FirstItems THEN i + 1 ELSE None
      /\ next = [i \in Item |-> next[i]]
  BY DEF Init
<1>3. \A t \in Thread : pc[t] = "idle" /\ reg[t] = None /\ own[t] = None /\ weak[t] = None
  BY <1>2
<1>4. \A i \in Item : object[i] = None /\ strongcount[i] = 0 /\ after[i] = None
  BY <1>2
<1>5. next \in [Item -> Item \cup {None}]
  <2>1. \A i \in Item : i < FirstItems => i + 1 \in Item
    BY <1>1 DEF Item
  <2>. QED
    BY <1>2, <2>1
<1>6. Typed
  <2>1. LocalTyped
    <3>1. None \in Registers("idle") /\ "idle" \in PCs
      BY DEF Registers, PCs
    <3>. QED
      BY <1>2, <1>3, <3>1 DEF LocalTyped
  <2>2. CountersTyped /\ HandlesTyped /\ StackTyped /\ ChainTyped /\ ended \in Endings
    BY <1>1, <1>2, <1>5 DEF CountersTyped, HandlesTyped, StackTyped, ChainTyped, Endings, Item
  <2>. QED
    BY <2>1, <2>2 DEF Typed
<1>7. OwnInv /\ HandInv /\ ObjectInv /\ NewInv /\ WeakInv /\ FreshInv /\ PromoteInv /\ LostInv
  BY <1>2, <1>3, <1>4 DEF OwnInv, HandInv, ObjectInv, NewInv, WeakInv, FreshInv, PromoteInv, LostInv,
                          ItemPC, MakePC, PromotePC
<1>8. CountsMatch
  <2>1. \A i : Owners(i) = {} /\ Passing(i) = {}
    BY <1>3 DEF Owners, Passing
  <2>2. \A i \in Item : strongcount[i] = Cardinality({}) + Cardinality({}) + (IF i \in lost THEN 1 ELSE 0)
    BY <1>2, <1>4, FS_EmptySet
  <2>. QED
    BY <2>1, <2>2 DEF CountsMatch
<1>9. \A i \in Item : ~Used(i)
  BY <1>3, <1>4 DEF Used, ItemPC
<1>10. Free = 1 .. FirstItems
  <2>1. PICK first \in Item : first = 1
    BY <1>1
  <2>2. PICK none \in Item \cup {None} : none = None
    OBVIOUS
  <2>3. OnList(none, next) = {}
    BY <1>5, <2>2, EmptyList
  <2>4. next[FirstItems] = none /\ \A i \in first .. FirstItems : i # FirstItems => next[i] = i + 1
    BY <1>1, <1>2, <2>1, <2>2 DEF Item
  <2>5. first <= FirstItems /\ FirstItems \in Item
    BY <1>1, <2>1
  <2>6. first .. FirstItems \cap OnList(none, next) = {} /\ \A i \in OnList(none, next) : next[i] = next[i]
    BY <2>3
  <2>7. OnList(first, next) = OnList(none, next) \cup first .. FirstItems
    BY ONLY <1>5, <2>1, <2>2, <2>4, <2>5, <2>6, ListExtended
  <2>. QED
    BY <1>2, <2>1, <2>3, <2>7 DEF Free
<1>11. StackInv
  <2>1. IsFiniteSet(Free) /\ Cardinality(Free) = size
    <3>1. IsFiniteSet(1 .. FirstItems) /\ Cardinality(1 .. FirstItems) = FirstItems
      BY <1>1, FS_Interval DEF Item
    <3>. QED
      BY <1>2, <1>10, <3>1
  <2>2. \A i \in Free : i \in Item /\ i \in Nat /\ i <= FirstItems /\ i >= 1
    BY <1>1, <1>10 DEF Item
  <2>3. \A i \in Free : next[i] = IF i < FirstItems THEN i + 1 ELSE None
    BY <1>2, <2>2
  <2>4. \A i \in Free : next[i] # top
    BY <1>1, <1>2, <2>2, <2>3
  <2>5. \A i, j \in Free : next[i] = next[j] /\ next[i] # None => i = j
    BY <1>1, <2>2, <2>3
  <2>. QED
    BY <1>9, <2>1, <2>2, <2>4, <2>5 DEF StackInv
<1>12. BufferInv
  <2>1. DOMAIN lengths = {1} /\ lengths[1] = FirstItems /\ FirstItems # 0 /\ FirstItems \in 1 .. MaxItems
    BY <1>1, <1>2 DEF Item
  <2>2. Buffer(1, FirstItems) = 1 .. FirstItems
    BY <1>1 DEF Buffer, Item
  <2>3. Allocated = 1 .. FirstItems
    BY <2>1, <2>2 DEF Allocated
  <2>4. Growers = {} /\ GrowingItems = {}
    BY <1>3 DEF Growers, BufferPC, GrowingItems
  <2>. QED
    BY <1>1, <1>2, <1>9, <1>10, <2>1, <2>3, <2>4 DEF BufferInv
<1>13. LinkInv /\ ListInv
  <2>1. Reachable = {1}
    <3>1. \A i \in {1} : after[i] = None
      BY <1>1, <1>4
    <3>2. {1} \in SUBSET Item
      BY <1>1
    <3>3. OnList(1, after) \subseteq {1}
      BY <3>1, <3>2 DEF OnList
    <3>4. 1 \in OnList(1, after)
      BY <1>1 DEF OnList
    <3>. QED
      BY <3>3, <3>4 DEF Reachable
  <2>2. \A t \in Thread : ~Growing(t) /\ pc[t] # "gr_link" /\ pc[t] # "gr_back"
    BY <1>3 DEF Growing
  <2>3. Pending = {}
    BY <1>3, PendingFacts
  <2>4. DOMAIN lengths = {1} /\ back = 1 /\ after[1] = None
    BY <1>1, <1>2, <1>4
  <2>5. LinkInv
    BY <1>1, <1>4, <2>2, <2>3, <2>4 DEF LinkInv
  <2>6. ListInv
    BY <1>1, <2>1, <2>2, <2>3, <2>4 DEF ListInv
  <2>. QED
    BY <2>5, <2>6
<1>. QED
  BY <1>6, <1>7, <1>8, <1>11, <1>12, <1>13 DEF IInv

-----------------------------------------------------------------------------
(* The parts hold of every reachable state, for every number of threads,   *)
(* items and objects, however many of the threads add buffers.      *)
THEOREM Inductive == Spec => []IInv
<1>1. IInv /\ [Next]_vars => IInv'
  <2>. SUFFICES ASSUME IInv, [Next]_vars PROVE IInv'
    OBVIOUS
  <2>1. CASE DestroyPool
    <3>1. CASE \E i \in Item : strongcount[i] # 0
      BY <2>1, <3>1, DestroyPoolFailsInv
    <3>2. CASE \A i \in Item : strongcount[i] = 0
      BY <2>1, <3>2, DestroyPoolInv
    <3>. QED
      BY <3>1, <3>2
  <2>2. ASSUME NEW t \in Thread, Client(t) PROVE IInv'
    <3>1. CASE Drop(t)
      <4>1. CASE strongcount[own[t].item] = 1
        BY <3>1, <4>1, DropLastInv
      <4>2. CASE strongcount[own[t].item] # 1
        BY <3>1, <4>2, DropSharedInv
      <4>. QED
        BY <4>1, <4>2
    <3>2. ASSUME NEW u \in Thread, Weaken(t, u) PROVE IInv'
      BY <3>2, WeakenInv
    <3>. QED
      BY <2>2, <3>1, <3>2, CallMakeInv, PromoteStartsInv DEF Client
  <2>3. ASSUME NEW t \in Thread, Step(t) PROVE IInv'
    <3>1. CASE \/ MakeLock(t) \/ MakePop(t) \/ MakePopNothing(t) \/ MakeEmptyFails(t) \/ MakeOutOfMemory(t)
      BY <3>1, MakeLockInv, MakePopInv, MakePopNothingInv, MakeEmptyFailsInv, MakeOutOfMemoryInv
    <3>2. CASE \/ Grow(t) \/ GrowLoad(t) \/ GrowLink(t) \/ GrowBack(t) \/ GrowLock(t) \/ GrowPush(t) \/ GrowAssert(t)
      BY <3>2, GrowInv, GrowLoadInv, GrowLinkInv, GrowBackInv, LocksInv, GrowPushInv, GrowAssertInv
    <3>3. CASE \/ MakeGeneration(t) \/ MakeStrong(t) \/ MakeConstruct(t) \/ MakeConstructFails(t)
      BY <3>3, MakeGenerationInv, MakeStrongInv, MakeConstructInv, MakeConstructFailsInv
    <3>4. CASE \/ DestroyDestruct(t) \/ DestroyGeneration(t) \/ DestroyLock(t) \/ DestroyPush(t)
      BY <3>4, DestroyDestructInv, DestroyGenerationInv, LocksInv, DestroyPushInv
    <3>5. CASE PromoteLoadGeneration(t)
      BY <3>5, PromoteLoadGenerationFailsInv, PromoteLoadGenerationInv
    <3>6. CASE PromoteExchange(t) \/ PromoteAgain(t)
      BY <3>6, PromoteExchangeInv, PromoteAgainInv
    <3>7. CASE PromoteCheck(t)
      BY <3>7, PromoteCheckInv, PromoteCheckFailsInv
    <3>8. CASE PromoteRepair(t)
      BY <3>8, PromoteRepairLastInv, PromoteRepairSharedInv
    <3>. QED
      BY <2>3, <3>1, <3>2, <3>3, <3>4, <3>5, <3>6, <3>7, <3>8 DEF Step
  <2>. QED
    BY <2>1, <2>2, <2>3, StutterInv DEF Next
<1>. QED
  BY <1>1, InitInv, PTL DEF Spec

(* A strong pointer points to the object that it was made for or promoted to. *)
THEOREM PointersCorrect == Spec => []PointersValid
<1>1. IInv => PointersValid
  BY DEF IInv, OwnInv, PointersValid
<1>. QED
  BY <1>1, Inductive, PTL

(* strongcount is the number of strong pointers and of threads in between. *)
THEOREM CountsCorrect == Spec => []CountsMatch
<1>1. IInv => CountsMatch
  BY DEF IInv
<1>. QED
  BY <1>1, Inductive, PTL

(* A count is at most the number of threads: owners and threads in passing *)
(* are different threads, and a lost item has a thread that is neither.    *)
LEMMA CountBound ==
  ASSUME IInv, NEW i \in Item
  PROVE  strongcount[i] \in 0 .. Cardinality(Thread)
<1>1. OwnInv /\ HandInv /\ LostInv /\ CountsMatch /\ Typed
  BY DEF IInv
<1>2. Owners(i) \cap Passing(i) = {}
  BY <1>1 DEF Owners, Passing, OwnInv
<1>. DEFINE S == Owners(i) \cup Passing(i)
<1>3. IsFiniteSet(S) /\ Cardinality(S) = Cardinality(Owners(i)) + Cardinality(Passing(i))
  <2>1. IsFiniteSet(Owners(i)) /\ IsFiniteSet(Passing(i)) /\ Cardinality(Owners(i)) \in Nat /\ Cardinality(Passing(i)) \in Nat
    BY <1>1, CountFacts
  <2>2. Cardinality({}) = 0
    BY FS_EmptySet
  <2>3. Cardinality(S) = Cardinality(Owners(i)) + Cardinality(Passing(i)) - Cardinality({}) /\ IsFiniteSet(S)
    BY <1>2, <2>1, FS_Union
  <2>. QED
    BY <2>1, <2>2, <2>3
<1>4. S \subseteq Thread
  BY DEF Owners, Passing
<1>. HIDE DEF S
<1>5. strongcount[i] = Cardinality(S) + (IF i \in lost THEN 1 ELSE 0)
  BY <1>1, <1>3 DEF CountsMatch
<1>6. Cardinality(Thread) \in Nat /\ Cardinality(S) \in Nat /\ Cardinality(S) <= Cardinality(Thread)
  BY <1>3, <1>4, PoolAssumption, FS_Subset, FS_CardinalityType
<1>7. CASE i \notin lost
  BY <1>5, <1>6, <1>7
<1>8. CASE i \in lost
  <2>1. PICK t \in Thread : ~(pc[t] \in {"pr_exchange", "pr_check", "pr_repair"} /\ reg[t].item = i)
    BY <1>1, <1>8 DEF LostInv
  <2>2. t \notin Passing(i)
    BY <1>1, <1>8, <2>1 DEF Passing, HandInv, ItemPC
  <2>3. t \notin Owners(i)
    <3>1. own[t] # None => own[t].object \in Nat
      BY <1>1 DEF Typed, HandlesTyped, Pointer
    <3>. QED
      BY <1>1, <1>8, <3>1, PoolAssumption DEF Owners, OwnInv, LostInv
  <2>4. t \notin S /\ S \cup {t} \subseteq Thread
    BY <1>4, <2>2, <2>3 DEF S
  <2>5. Cardinality(S \cup {t}) = Cardinality(S) + 1
    BY <1>3, <2>4, FS_AddElement
  <2>6. Cardinality(S \cup {t}) <= Cardinality(Thread)
    BY <2>4, PoolAssumption, FS_Subset
  <2>. QED
    BY <1>5, <1>6, <1>8, <2>5, <2>6
<1>. QED
  BY <1>7, <1>8

(* No item is lost or in two places. *)
THEOREM StackCorrect == Spec => []StackExact
<1>1. IInv => StackExact
  <2>. SUFFICES ASSUME IInv PROVE StackExact
    OBVIOUS
  <2>1. Typed /\ HandInv /\ ObjectInv /\ StackInv /\ BufferInv /\ CountsMatch
    BY DEF IInv
  <2>. DEFINE used == {i \in Item : strongcount[i] > 0 \/ Handling(i) # {}}
              growing == UNION {Buffer(reg[t].buffer, lengths[reg[t].buffer]) :
                                  t \in {u \in Thread : pc[u] \in {"gr_load", "gr_link", "gr_back", "gr_lock", "gr_push"}}}
  <2>2. TypeOK
    <3>1. \A i \in Item : strongcount[i] \in 0 .. Cardinality(Thread)
      BY CountBound
    <3>2. /\ generation \in [Item -> Nat] /\ strongcount \in [Item -> Nat] /\ top \in Item \cup {None}
          /\ lost \subseteq Item /\ ended \in Endings
      BY <2>1 DEF Typed, CountersTyped, StackTyped
    <3>. QED
      BY <3>1, <3>2 DEF TypeOK, Endings
  <2>3. \A i \in Item : Cardinality(Handling(i)) <= 1
    <3>. SUFFICES ASSUME NEW i \in Item PROVE Cardinality(Handling(i)) <= 1
      OBVIOUS
    <3>1. \A t, u \in Handling(i) : t = u
      BY <2>1 DEF Handling, HandInv, ItemPC
    <3>2. CASE Handling(i) = {}
      BY <3>2, FS_EmptySet
    <3>3. CASE Handling(i) # {}
      <4>1. PICK t : Handling(i) = {t}
        BY <3>1, <3>3
      <4>2. Cardinality({t}) = 1
        BY FS_Singleton
      <4>. QED
        BY <4>1, <4>2
    <3>. QED
      BY <3>2, <3>3
  <2>4. \A i : i \in used <=> i \in Item /\ Used(i)
    <3>1. \A i \in Item : strongcount[i] > 0 <=> strongcount[i] # 0
      BY <2>1 DEF Typed, CountersTyped
    <3>2. \A i : Handling(i) # {} <=> \E t \in Thread : pc[t] \in ItemPC /\ reg[t].item = i
      BY DEF Handling, ItemPC
    <3>. QED
      BY <3>1, <3>2 DEF Used
  <2>5. growing = GrowingItems
    BY DEF GrowingItems, Growers, BufferPC
  <2>6. Free \subseteq Item
    BY <2>1, OnListFacts DEF Free, Typed, StackTyped
  <2>7. Cardinality(Free) = size /\ \A i \in Free : ~Used(i)
    BY <2>1 DEF StackInv
  <2>8. \A i \in Free : object[i] = None
    BY <2>1, <2>6, <2>7 DEF ObjectInv, Used, ItemPC
  <2>9. used \cap GrowingItems = {} /\ Free \cap GrowingItems = {}
    <3>1. CASE ended = "destroyed"
      BY <2>1, <3>1 DEF BufferInv, GrowingItems
    <3>2. CASE ended # "destroyed"
      BY <2>1, <2>4, <2>6, <3>2 DEF BufferInv
    <3>. QED
      BY <3>1, <3>2
  <2>10. ASSUME ended # "destroyed" PROVE Free \cup used \cup GrowingItems = Allocated
    <3>1. \A i \in Item : i \in Allocated \ GrowingItems <=> i \in Free \/ i \in used
      BY <2>1, <2>4, <2>10 DEF BufferInv
    <3>2. Allocated \subseteq Item
      BY <2>1, <2>10, PoolAssumption DEF BufferInv, Item
    <3>3. GrowingItems \subseteq Allocated
      BY <2>1, <2>10 DEF BufferInv, GrowingItems, Allocated
    <3>4. used \subseteq Item
      BY <2>4
    <3>. QED
      BY <2>6, <3>1, <3>2, <3>3, <3>4
  <2>11. Free \cap used = {}
    BY <2>4, <2>7
  <2>. HIDE DEF used, growing
  <2>12. /\ Free \cap (used \cup growing) = {} /\ used \cap growing = {}
         /\ ended # "destroyed" => Free \cup used \cup growing = Allocated
    BY <2>5, <2>9, <2>10, <2>11
  <2>. QED
    BY <2>2, <2>3, <2>7, <2>8, <2>12 DEF StackExact, used, growing
<1>. QED
  BY <1>1, Inductive, PTL

(* However many threads add buffers at a time, what the destructor finds   *)
(* is a list of linked buffers; it loses none unless a link is overwritten. *)
THEOREM BuffersCorrect == Spec => []BuffersReachable
<1>1. IInv => BuffersReachable
  <2>. SUFFICES ASSUME IInv PROVE BuffersReachable
    OBVIOUS
  <2>1. Typed /\ BufferInv /\ LinkInv /\ ListInv
    BY DEF IInv
  <2>. DEFINE linked == DOMAIN lengths \ Pending
  <2>2. ASSUME ended # "destroyed"
        PROVE  /\ Reachable \subseteq linked
               /\ \A b, c \in Reachable : after[b] # None => after[b] # 1 /\ (after[b] = after[c] => b = c)
               /\ \A b \in linked \ (overwritten \cup {1}) : \E c \in linked : after[c] = b
    <3>1. /\ 1 \in linked /\ linked \subseteq Item /\ None \notin Item
          /\ \A b \in Item : after[b] # None => b \in linked /\ after[b] \in linked /\ after[b] # 1
          /\ \A b, c \in Item : after[b] # None /\ after[b] = after[c] => b = c
          /\ \A b \in linked \ (overwritten \cup {1}) : \E c \in Item : after[c] = b
      BY <2>1, <2>2, PoolAssumption DEF LinkInv, BufferInv, Item
    <3>. HIDE DEF linked
    <3>2. Reachable \subseteq linked
      <4>1. linked \in SUBSET Item /\ \A i \in linked : after[i] # None => after[i] \in linked
        BY <3>1
      <4>. QED
        BY <3>1, <4>1 DEF Reachable, OnList
    <3>3. Reachable \subseteq Item
      BY DEF Reachable, OnList
    <3>4. ASSUME NEW b \in linked \ (overwritten \cup {1}) PROVE \E c \in linked : after[c] = b
      <4>1. PICK c \in Item : after[c] = b
        BY <3>1
      <4>2. after[c] # None
        BY <3>1, <4>1
      <4>. QED
        BY <3>1, <4>1, <4>2
    <3>. QED
      BY <3>1, <3>2, <3>3, <3>4
  <2>3. ASSUME ended # "destroyed", overwritten = {}
        PROVE  Reachable = linked /\ (after[back] # None => \E t \in Thread : pc[t] = "gr_back")
    BY <2>1, <2>3 DEF ListInv
  <2>4. ended = "destroyed" /\ overwritten = {} => DOMAIN lengths = {}
    BY <2>1 DEF ListInv
  <2>. HIDE DEF linked
  <2>. QED
    BY <2>2, <2>3, <2>4 DEF BuffersReachable, linked
<1>. QED
  BY <1>1, Inductive, PTL

(* A weak pointer loses its object only in a promotion that fails. *)
LEMMA WeakLost ==
  ASSUME IInv, [Next]_vars, NEW t \in Thread, weak[t] # None, weak'[t] = None
  PROVE  /\ PromoteLoadGeneration(t) \/ PromoteRepair(t)
         /\ PromoteLoadGeneration(t) => reg[t].count = 0 \/ generation[reg[t].item] # weak[t].generation
<1>1. weak \in [Thread -> WeakPointer \cup {None}] /\ own \in [Thread -> Pointer \cup {None}] /\ generation \in [Item -> Nat]
  BY DEF IInv, Typed, HandlesTyped, CountersTyped
<1>2. ~UNCHANGED weak
  OBVIOUS
<1>3. PICK u \in Thread : Client(u) \/ Step(u)
  BY <1>2 DEF Next, DestroyPool, vars, handles
<1>4. ~Client(u)
  <2>1. ASSUME NEW v \in Thread, Weaken(u, v) PROVE FALSE
    <3>. DEFINE w == [item |-> own[u].item, object |-> own[u].object, generation |-> generation[own[u].item]]
    <3>1. w \in WeakPointer
      BY <1>1, <2>1 DEF Weaken, WeakPointer, Pointer
    <3>2. w # None
      BY <3>1, PoolAssumption DEF WeakPointer
    <3>3. weak' = [weak EXCEPT ![v] = w]
      BY <2>1 DEF Weaken
    <3>. HIDE DEF w
    <3>. QED
      BY <1>1, <3>2, <3>3
  <2>. QED
    BY <1>2, <2>1 DEF Client, CallMake, Drop, Promote, handles
<1>5. PromoteLoadGeneration(u) \/ PromoteRepair(u)
  <2>1. ~(\/ MakeLock(u) \/ MakePop(u) \/ MakePopNothing(u) \/ MakeEmptyFails(u) \/ MakeOutOfMemory(u)
          \/ Grow(u) \/ GrowLoad(u) \/ GrowLink(u) \/ GrowBack(u) \/ GrowLock(u) \/ GrowPush(u) \/ GrowAssert(u))
    BY <1>2 DEF MakeLock, Lock, MakePop, MakePopNothing, MakeEmptyFails, Ends, MakeOutOfMemory, Grow,
                GrowLoad, GrowLink, Linking,
                GrowBack, GrowLock, GrowPush, GrowAssert, handles
  <2>2. ~(\/ MakeGeneration(u) \/ MakeStrong(u) \/ MakeConstruct(u) \/ MakeConstructFails(u)
          \/ DestroyDestruct(u) \/ DestroyGeneration(u) \/ DestroyLock(u) \/ DestroyPush(u)
          \/ PromoteExchange(u) \/ PromoteAgain(u) \/ PromoteCheck(u))
    BY <1>2 DEF MakeGeneration, MakeStrong, MakeConstruct, MakeConstructFails, DestroyDestruct,
       DestroyGeneration,
                DestroyLock, Lock, DestroyPush, PromoteExchange, PromoteAgain, PromoteCheck, handles
  <2>. QED
    BY <1>3, <1>4, <2>1, <2>2 DEF Step
<1>6. weak' = [weak EXCEPT ![u] = None]
  BY <1>2, <1>5 DEF PromoteLoadGeneration, PromoteRepair, Repaired, PromotionFails, handles
<1>7. u = t
  BY <1>1, <1>6
<1>8. PromoteLoadGeneration(t) => reg[t].count = 0 \/ generation[reg[t].item] # weak[t].generation
  BY <1>2 DEF PromoteLoadGeneration, handles
<1>. QED
  BY <1>5, <1>7, <1>8

(* A promotion fails only when its object has no owner any more. *)
THEOREM FailuresCorrect == Spec => FailuresJustified
<1>1. IInv /\ [Next]_vars => [\A t \in Thread : weak[t] # None /\ weak'[t] = None =>
        \A u \in Thread : own[u] # None => own[u].object # weak[t].object]_vars
  <2>. SUFFICES ASSUME IInv, [Next]_vars, NEW t \in Thread, weak[t] # None, weak'[t] = None,
                       NEW u \in Thread, own[u] # None, own[u].object = weak[t].object
                PROVE  FALSE
    OBVIOUS
  <2>1. Typed /\ OwnInv /\ WeakInv /\ PromoteInv /\ CountsMatch
    BY DEF IInv
  <2>2. PICK item \in Item : own[u].item = item /\ object[item] = weak[t].object
    BY <2>1 DEF Typed, HandlesTyped, Pointer, OwnInv
  <2>3. weak[t].item = item /\ generation[item] = weak[t].generation /\ weak[t].generation \in Nat
    BY <2>1, <2>2 DEF WeakInv, Typed, HandlesTyped, WeakPointer
  <2>4. strongcount[item] # 0
    <3>1. u \in Owners(item)
      BY <2>2 DEF Owners
    <3>. QED
      BY <2>1, <2>2, <3>1, CountFacts
  <2>5. CASE PromoteLoadGeneration(t)
    <3>1. pc[t] = "pr_generation" /\ (reg[t].count = 0 \/ generation[reg[t].item] # weak[t].generation)
      BY <2>5, WeakLost DEF PromoteLoadGeneration, At
    <3>2. reg[t].item = item
      BY <2>1, <2>3, <3>1 DEF PromoteInv, PromotePC
    <3>. QED
      BY <2>1, <2>3, <2>4, <3>1, <3>2 DEF PromoteInv, PromotePC
  <2>6. CASE PromoteRepair(t)
    <3>1. pc[t] = "pr_repair"
      BY <2>6 DEF PromoteRepair, At
    <3>2. reg[t].item = item /\ weak[t].generation < generation[item]
      BY <2>1, <2>3, <3>1 DEF PromoteInv, PromotePC
    <3>. QED
      BY <2>3, <3>2
  <2>. QED
    BY <2>5, <2>6, WeakLost
<1>. QED
  BY <1>1, Inductive, PTL DEF Spec, FailuresJustified
=============================================================================
