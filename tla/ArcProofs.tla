----------------------------- MODULE ArcProofs -----------------------------
(***************************************************************************)
(* Proofs about Arc, for any number of threads, handles and payloads.      *)
(* IInv is an inductive invariant, by one lemma per action with one step   *)
(* per part of IInv, and the safety properties follow from it. Arc         *)
(* implements Ownership: every operation takes effect in one atomic        *)
(* instruction, and the other instructions leave what Ownership sees as it *)
(* is. Its action properties follow from the same case analysis.           *)
(***************************************************************************)
EXTENDS ArcOwnership, FiniteSetTheorems, TLAPS

-----------------------------------------------------------------------------
(* How the counters follow the sets of handles, and what the invariant     *)
(* says of a handle in use.                                                *)
Kinds == {"none", "unique", "ro", "lost", "weak"}

(* The sets of handles that the counters count are finite. *)
LEMMA RefsFinite ==
  ASSUME NEW p
  PROVE  /\ IsFiniteSet(StrongRefs(p)) /\ Cardinality(StrongRefs(p)) \in Nat
         /\ IsFiniteSet(WeakRefs(p))   /\ Cardinality(WeakRefs(p)) \in Nat
<1>1. StrongRefs(p) \in SUBSET Handle /\ WeakRefs(p) \in SUBSET Handle
  BY DEF StrongRefs, WeakRefs
<1>2. IsFiniteSet(StrongRefs(p)) /\ IsFiniteSet(WeakRefs(p))
  BY <1>1, ArcAssumption, FS_Subset
<1>. QED
  BY <1>2, FS_CardinalityType

(* A handle to payload p, or a fresh one, that becomes a handle of kind k  *)
(* to p, or none, enters one of the sets of p or leaves one, and the sizes *)
(* follow.  The sets of the other payloads stay as they are.               *)
Strong == {"ro", "lost"}

LEMMA HandleMoves ==
  ASSUME TypeOK, HandleInv, NEW h \in Handle, NEW k \in Kinds, NEW p \in Payload,
         NEW q \in {p, Null}, k = "none" <=> q = Null, ptr[h] \in {p, Null},
         SetHandle(h, k, q)
  PROVE  /\ \A o \in Payload \ {p} :
              /\ StrongRefs(o)' = StrongRefs(o) /\ UniqueRefs(o)' = UniqueRefs(o)
              /\ WeakRefs(o)' = WeakRefs(o)
         /\ k \in Strong /\ ~(kind[h] \in Strong) => StrongRefs(p)' = StrongRefs(p) \cup {h}
         /\ k \notin Strong /\ (kind[h] \in Strong) => StrongRefs(p)' = StrongRefs(p) \ {h}
         /\ (k \in Strong <=> (kind[h] \in Strong)) => StrongRefs(p)' = StrongRefs(p)
         /\ (k = "unique") /\ ~(kind[h] = "unique") => UniqueRefs(p)' = UniqueRefs(p) \cup {h}
         /\ ~(k = "unique") /\ (kind[h] = "unique") => UniqueRefs(p)' = UniqueRefs(p) \ {h}
         /\ ((k = "unique") <=> (kind[h] = "unique")) => UniqueRefs(p)' = UniqueRefs(p)
         /\ (k = "weak") /\ ~(kind[h] = "weak") => WeakRefs(p)' = WeakRefs(p) \cup {h}
         /\ ~(k = "weak") /\ (kind[h] = "weak") => WeakRefs(p)' = WeakRefs(p) \ {h}
         /\ ((k = "weak") <=> (kind[h] = "weak")) => WeakRefs(p)' = WeakRefs(p)
         /\ h \in StrongRefs(p) <=> kind[h] \in Strong
         /\ h \in WeakRefs(p) <=> kind[h] = "weak"
<1>. USE DEF SetHandle, TypeOK, HandleInv, StrongRefs, UniqueRefs, WeakRefs, Kinds, Strong
<1>1. Null \notin Payload
  BY ArcAssumption
<1>2. \A o \in Payload \ {p} :
              /\ StrongRefs(o)' = StrongRefs(o) /\ UniqueRefs(o)' = UniqueRefs(o)
              /\ WeakRefs(o)' = WeakRefs(o)
  BY <1>1
<1>3.
      /\ k \in Strong /\ ~(kind[h] \in Strong) => StrongRefs(p)' = StrongRefs(p) \cup {h}
      /\ k \notin Strong /\ (kind[h] \in Strong) => StrongRefs(p)' = StrongRefs(p) \ {h}
      /\ (k \in Strong <=> (kind[h] \in Strong)) => StrongRefs(p)' = StrongRefs(p)
  BY <1>1
<1>4.
      /\ (k = "unique") /\ ~(kind[h] = "unique") => UniqueRefs(p)' = UniqueRefs(p) \cup {h}
      /\ ~(k = "unique") /\ (kind[h] = "unique") => UniqueRefs(p)' = UniqueRefs(p) \ {h}
      /\ ((k = "unique") <=> (kind[h] = "unique")) => UniqueRefs(p)' = UniqueRefs(p)
  BY <1>1
<1>5.
      /\ (k = "weak") /\ ~(kind[h] = "weak") => WeakRefs(p)' = WeakRefs(p) \cup {h}
      /\ ~(k = "weak") /\ (kind[h] = "weak") => WeakRefs(p)' = WeakRefs(p) \ {h}
      /\ ((k = "weak") <=> (kind[h] = "weak")) => WeakRefs(p)' = WeakRefs(p)
  BY <1>1
<1>6. /\ h \in StrongRefs(p) <=> kind[h] \in Strong
      /\ h \in WeakRefs(p) <=> kind[h] = "weak"
  BY <1>1
<1>. QED
  BY <1>2, <1>3, <1>4, <1>5, <1>6

LEMMA HandleCounts ==
  ASSUME TypeOK, HandleInv, NEW h \in Handle, NEW k \in Kinds, NEW p \in Payload,
         NEW q \in {p, Null}, k = "none" <=> q = Null, ptr[h] \in {p, Null},
         SetHandle(h, k, q)
  PROVE
         /\ k \in Strong /\ ~(kind[h] \in Strong) => Cardinality(StrongRefs(p))' = Cardinality(StrongRefs(p)) + 1
         /\ k \notin Strong /\ (kind[h] \in Strong) => Cardinality(StrongRefs(p))' = Cardinality(StrongRefs(p)) - 1
         /\ (k \in Strong <=> (kind[h] \in Strong)) => Cardinality(StrongRefs(p))' = Cardinality(StrongRefs(p))
         /\ (k = "weak") /\ ~(kind[h] = "weak") => Cardinality(WeakRefs(p))' = Cardinality(WeakRefs(p)) + 1
         /\ ~(k = "weak") /\ (kind[h] = "weak") => Cardinality(WeakRefs(p))' = Cardinality(WeakRefs(p)) - 1
         /\ ((k = "weak") <=> (kind[h] = "weak")) => Cardinality(WeakRefs(p))' = Cardinality(WeakRefs(p))
<1>1. IsFiniteSet(StrongRefs(p)) /\ IsFiniteSet(WeakRefs(p))
  BY RefsFinite
<1>2. h \notin StrongRefs(p) => Cardinality(StrongRefs(p) \cup {h}) = Cardinality(StrongRefs(p)) + 1
  BY <1>1, FS_AddElement
<1>3. h \in StrongRefs(p) => Cardinality(StrongRefs(p) \ {h}) = Cardinality(StrongRefs(p)) - 1
  BY <1>1, FS_RemoveElement
<1>4. h \notin WeakRefs(p) => Cardinality(WeakRefs(p) \cup {h}) = Cardinality(WeakRefs(p)) + 1
  BY <1>1, FS_AddElement
<1>5. h \in WeakRefs(p) => Cardinality(WeakRefs(p) \ {h}) = Cardinality(WeakRefs(p)) - 1
  BY <1>1, FS_RemoveElement
<1>6. /\ h \in StrongRefs(p) <=> kind[h] \in Strong
      /\ h \in WeakRefs(p) <=> kind[h] = "weak"
  BY HandleMoves
<1>7. /\ k \in Strong /\ ~(kind[h] \in Strong) => StrongRefs(p)' = StrongRefs(p) \cup {h}
      /\ k \notin Strong /\ (kind[h] \in Strong) => StrongRefs(p)' = StrongRefs(p) \ {h}
      /\ (k \in Strong <=> (kind[h] \in Strong)) => StrongRefs(p)' = StrongRefs(p)
  BY HandleMoves
<1>8. /\ (k = "weak") /\ ~(kind[h] = "weak") => WeakRefs(p)' = WeakRefs(p) \cup {h}
      /\ ~(k = "weak") /\ (kind[h] = "weak") => WeakRefs(p)' = WeakRefs(p) \ {h}
      /\ ((k = "weak") <=> (kind[h] = "weak")) => WeakRefs(p)' = WeakRefs(p)
  BY HandleMoves
<1>. QED
  BY <1>2, <1>3, <1>4, <1>5, <1>6, <1>7, <1>8

(* Small counts and the sets they belong to. *)
LEMMA SmallCounts ==
  ASSUME NEW p
  PROVE  /\ Cardinality(StrongRefs(p)) = 0 <=> StrongRefs(p) = {}
         /\ Cardinality(WeakRefs(p)) = 0 <=> WeakRefs(p) = {}
         /\ \A h \in StrongRefs(p) : Cardinality(StrongRefs(p)) = 1 <=> StrongRefs(p) = {h}
         /\ \A h \in WeakRefs(p) : Cardinality(WeakRefs(p)) = 1 <=> WeakRefs(p) = {h}
<1>1. IsFiniteSet(StrongRefs(p)) /\ IsFiniteSet(WeakRefs(p))
  BY RefsFinite
<1>2. /\ Cardinality(StrongRefs(p)) = 1 <=> \E x : StrongRefs(p) = {x}
      /\ Cardinality(WeakRefs(p)) = 1 <=> \E x : WeakRefs(p) = {x}
  BY <1>1, FS_Singleton
<1>. QED
  BY <1>1, <1>2, FS_EmptySet

(* Without handles, no set of references has an element. *)
LEMMA InitIInv == Init => IInv
<1>. SUFFICES ASSUME Init PROVE IInv
  OBVIOUS
<1>1. TypeOK
  BY DEF Init, TypeOK, Labels
<1>2. HandleInv /\ PhaseInv /\ UniqueLockInv
  BY ArcAssumption DEF Init, HandleInv, PhaseInv, UniqueLockInv
<1>3. LocalInv /\ BusyInv /\ LockInv /\ EndInv /\ ReclaimInv
  BY DEF Init, LocalInv, BusyInv, LockInv, EndInv, ReclaimInv, HoldPC, UniquePC,
         SharedPC, WeakPC, LastPC, ResultPC, ConstPC
<1>4. CountsMatchHandles
  BY DEF Init, CountsMatchHandles
<1>5. UniqueIsExclusive
  BY DEF Init, UniqueIsExclusive, UniqueRefs
<1>. QED
  BY <1>1, <1>2, <1>3, <1>4, <1>5 DEF IInv
-----------------------------------------------------------------------------
(* What the invariant says of a handle that a thread is about to use.      *)

(* A payload that has a handle is not in its last moments. *)
LEMMA HandleFacts ==
  ASSUME IInv, NEW h \in Handle, kind[h] # "none"
  PROVE  /\ ptr[h] \in Payload /\ phase[ptr[h]] # "free" /\ weak[ptr[h]] # 0
         /\ \A u \in Thread : pay[u] = ptr[h] => pc[u] \notin LastPC
<1>1. ptr[h] \in Payload /\ phase[ptr[h]] # "free"
  BY DEF IInv, HandleInv, TypeOK
<1>2. h \in WeakRefs(ptr[h]) \/ h \in Owners(ptr[h])
  BY DEF IInv, TypeOK, Owners, StrongRefs, UniqueRefs, WeakRefs
<1>3. weak[ptr[h]] = Cardinality(WeakRefs(ptr[h])) + (IF Owners(ptr[h]) = {} THEN 0 ELSE 1)
  BY <1>1 DEF IInv, CountsMatchHandles, StrongExact, WeakExact
<1>4. weak[ptr[h]] # 0
  BY <1>2, <1>3, SmallCounts, RefsFinite
<1>5. \A u \in Thread : pay[u] = ptr[h] => pc[u] \notin LastPC
  BY <1>4 DEF IInv, EndInv
<1>. QED
  BY <1>1, <1>4, <1>5

(* The strong count of a payload that has an owner is exact. *)
LEMMA OwnerFacts ==
  ASSUME IInv, NEW h \in Handle, kind[h] \in {"unique", "ro", "lost"}
  PROVE  /\ \A u \in Thread : pay[u] = ptr[h] => pc[u] # "rd_zero"
         /\ strong[ptr[h]] = Cardinality(StrongRefs(ptr[h]))
         /\ kind[h] = "unique" => Owners(ptr[h]) = {h} /\ strong[ptr[h]] = 0
         /\ kind[h] # "unique" => h \in StrongRefs(ptr[h]) /\ UniqueRefs(ptr[h]) = {} /\ strong[ptr[h]] # 0
<1>1. h \in Owners(ptr[h]) /\ (kind[h] # "unique" => h \in StrongRefs(ptr[h]))
  BY DEF Owners, StrongRefs, UniqueRefs
<1>2. \A u \in Thread : pay[u] = ptr[h] => pc[u] # "rd_zero"
  BY <1>1 DEF IInv, EndInv
<1>3. strong[ptr[h]] = Cardinality(StrongRefs(ptr[h]))
  BY <1>2, HandleFacts DEF IInv, CountsMatchHandles, StrongExact, WeakExact, LastPC
<1>4. ASSUME kind[h] = "unique" PROVE Owners(ptr[h]) = {h} /\ StrongRefs(ptr[h]) = {}
  <2>1. h \in UniqueRefs(ptr[h]) /\ h \notin StrongRefs(ptr[h])
    BY <1>4 DEF UniqueRefs, StrongRefs
  <2>2. Owners(ptr[h]) = {h}
    BY <2>1, HandleFacts, <1>4 DEF IInv, UniqueIsExclusive
  <2>. QED
    BY <2>1, <2>2 DEF Owners
<1>5. ASSUME kind[h] # "unique" PROVE UniqueRefs(ptr[h]) = {}
  <2>. SUFFICES ASSUME NEW g \in UniqueRefs(ptr[h]) PROVE FALSE
    OBVIOUS
  <2>1. Owners(ptr[h]) = {g}
    BY HandleFacts DEF IInv, UniqueIsExclusive
  <2>2. h = g
    BY <2>1, <1>1
  <2>. QED
    BY <2>2, <1>5 DEF UniqueRefs
<1>. QED
  BY <1>1, <1>2, <1>3, <1>4, <1>5, SmallCounts

(* A thread that uses the only handle to a payload is alone with it, but   *)
(* for one that is done with the handle it destroyed.                      *)
LEMMA LastAlone ==
  ASSUME IInv, NEW t \in Thread, NEW p \in Payload, NEW h \in Handle,
         Owners(p) \cup WeakRefs(p) \subseteq {h},
         \A u \in Thread : u # t => self[u] # h
  PROVE  \A u \in Thread \ {t} : pay[u] = p => pc[u] \in {"rd_zero"} \cup LastPC
<1>. SUFFICES ASSUME NEW u \in Thread \ {t}, pay[u] = p, pc[u] \notin {"rd_zero"} \cup LastPC
              PROVE  FALSE
  OBVIOUS
<1>1. pc[u] \in UniquePC \cup SharedPC \cup WeakPC \cup {"read"}
  BY ArcAssumption DEF IInv, TypeOK, LocalInv, Labels, UniquePC, SharedPC, WeakPC, LastPC
<1>2. self[u] \in Handle /\ kind[self[u]] \in {"unique", "ro", "weak"} /\ ptr[self[u]] = p
  BY <1>1 DEF IInv, LocalInv, UniquePC, SharedPC, WeakPC
<1>3. self[u] \in Owners(p) \cup WeakRefs(p)
  BY <1>2 DEF Owners, StrongRefs, UniqueRefs, WeakRefs
<1>. QED
  BY <1>3

(* When neither the handles nor the counters change, nothing is allocated, *)
(* and every thread that was finishing with a payload still is, the counts *)
(* still match.                                                            *)
LEMMA SameCounts ==
  ASSUME IInv, UNCHANGED <<strong, weak, handles>>,
         \A p \in Payload : phase'[p] # "free" => phase[p] # "free",
         \A t \in Thread : pc[t] \in {"rd_zero", "free"} => pc'[t] = pc[t] /\ pay'[t] = pay[t]
  PROVE  CountsMatchHandles' /\ UniqueIsExclusive'
<1>. USE DEF handles
<1>1. \A p \in Payload : /\ StrongRefs(p)' = StrongRefs(p) /\ WeakRefs(p)' = WeakRefs(p)
                        /\ UniqueRefs(p)' = UniqueRefs(p) /\ Owners(p)' = Owners(p)
  BY DEF Owners, StrongRefs, UniqueRefs, WeakRefs
<1>2. CountsMatchHandles'
  BY <1>1 DEF IInv, CountsMatchHandles, StrongExact, WeakExact
<1>3. UniqueIsExclusive'
  BY <1>1 DEF IInv, UniqueIsExclusive
<1>. QED
  BY <1>2, <1>3

(* When thread t only touches its own payload, the counts of another       *)
(* payload still match.                                                    *)
LEMMA OtherCounts ==
  ASSUME IInv, NEW t \in Thread, NEW p \in Payload, p # pay[t], phase'[p] = phase[p],
         strong'[p] = strong[p], weak'[p] = weak[p],
         StrongRefs(p)' = StrongRefs(p), UniqueRefs(p)' = UniqueRefs(p), WeakRefs(p)' = WeakRefs(p),
         \A u \in Thread : u # t => pc'[u] = pc[u] /\ pay'[u] = pay[u]
  PROVE  /\ phase'[p] # "free" => StrongExact(p)' /\ WeakExact(p)'
         /\ \A h \in UniqueRefs(p)' : Owners(p)' = {h}
<1>1. Owners(p)' = Owners(p)
  BY DEF Owners
<1>2. phase[p] # "free" => StrongExact(p) /\ WeakExact(p)
  BY DEF IInv, CountsMatchHandles
<1>3. WeakExact(p) => WeakExact(p)'
  BY <1>1 DEF WeakExact
<1>4. StrongExact(p) => StrongExact(p)'
  BY DEF StrongExact
<1>5. \A h \in UniqueRefs(p)' : Owners(p)' = {h}
  BY <1>1 DEF IInv, UniqueIsExclusive
<1>. QED
  BY <1>2, <1>3, <1>4, <1>5

-----------------------------------------------------------------------------
(* Entering a member function.                                             *)
EntryPC == {"read", "write", "dr_load", "ud_unlock", "dup_lock", "rp_lock", "rd_lock",
            "ts_lock", "wd_sub"}

LEMMA CallInv ==
  ASSUME IInv, NEW t \in Thread, NEW l \in EntryPC, NEW h \in Handle,
         NEW r \in Handle \cup {Null},
         Idle(t), Call(t, l, h, r), UNCHANGED <<words, handles, aborted>>,
         l \in UniquePC => kind[h] = "unique",
         l \in SharedPC => kind[h] = "ro",
         l \in WeakPC => kind[h] = "weak",
         l = "read" => kind[h] \in {"ro", "unique"},
         l \in ConstPC => Shareable(h),
         l \notin ConstPC => Exclusive(h),
         r # Null => Exclusive(r) /\ r # h,
         l \in ResultPC => r \in Handle /\ kind[r] = "none"
  PROVE  IInv'
<1>. USE DEF IInv, Idle, Call, words, handles, EntryPC
<1>. /\ TypeOK /\ kind[h] # "none" /\ ptr[h] \in Payload /\ phase[ptr[h]] # "free"
     /\ \A u \in Thread : pay[u] = ptr[h] => pc[u] \notin LastPC
  BY HandleFacts DEF UniquePC, SharedPC, WeakPC
<1>1. TypeOK'
  BY DEF TypeOK, Labels
<1>2. HandleInv'
  BY DEF HandleInv
<1>3. LocalInv'
  BY DEF TypeOK, LocalInv, UniquePC, SharedPC, WeakPC, ResultPC
<1>4. BusyInv'
  BY ArcAssumption DEF TypeOK, BusyInv, ConstPC, Shareable, Exclusive
<1>5. LockInv' /\ UniqueLockInv'
  BY DEF TypeOK, LockInv, UniqueLockInv, HoldPC
<1>6. PhaseInv' /\ ReclaimInv'
  BY DEF TypeOK, PhaseInv, ReclaimInv, LastPC
<1>7. CountsMatchHandles' /\ UniqueIsExclusive'
  BY SameCounts DEF TypeOK
<1>8. EndInv'
  BY DEF TypeOK, EndInv, LastPC, Owners, StrongRefs, UniqueRefs
<1>. QED
  BY <1>1, <1>2, <1>3, <1>4, <1>5, <1>6, <1>7, <1>8
-----------------------------------------------------------------------------
(* The instructions that leave the handles alone.                          *)

(* A thread is done with the object. *)
LEMMA EndAccessInv ==
  ASSUME IInv, NEW t \in Thread, EndAccess(t)
  PROVE  IInv'
<1>. USE DEF IInv, words, handles, EndAccess, Return
<1>1. TypeOK'
  BY DEF TypeOK, Labels
<1>2. HandleInv'
  BY DEF TypeOK, HandleInv
<1>3. LocalInv'
  BY DEF TypeOK, LocalInv, UniquePC, SharedPC, WeakPC, ResultPC
<1>4. BusyInv'
  BY DEF TypeOK, BusyInv, ConstPC
<1>5. LockInv' /\ UniqueLockInv'
  BY DEF TypeOK, LockInv, UniqueLockInv, HoldPC
<1>6. PhaseInv' /\ ReclaimInv'
  BY DEF TypeOK, PhaseInv, ReclaimInv, LastPC
<1>7. CountsMatchHandles' /\ UniqueIsExclusive'
  BY SameCounts DEF TypeOK
<1>8. EndInv'
  BY ArcAssumption DEF TypeOK, LocalInv, EndInv, LastPC, Owners, StrongRefs, UniqueRefs
<1>. QED
  BY <1>1, <1>2, <1>3, <1>4, <1>5, <1>6, <1>7, <1>8

(* An upgrade gives up. *)
LEMMA TrySpawnGiveUpInv ==
  ASSUME IInv, NEW t \in Thread, TrySpawnGiveUp(t)
  PROVE  IInv'
<1>. USE DEF IInv, words, handles, TrySpawnGiveUp, At, Return
<1>1. TypeOK'
  BY DEF TypeOK, Labels
<1>2. HandleInv'
  BY DEF TypeOK, HandleInv
<1>3. LocalInv'
  BY DEF TypeOK, LocalInv, UniquePC, SharedPC, WeakPC, ResultPC
<1>4. BusyInv'
  BY DEF TypeOK, BusyInv, ConstPC
<1>5. LockInv' /\ UniqueLockInv'
  BY DEF TypeOK, LockInv, UniqueLockInv, HoldPC
<1>6. PhaseInv' /\ ReclaimInv'
  BY DEF TypeOK, PhaseInv, ReclaimInv, LastPC
<1>7. CountsMatchHandles' /\ UniqueIsExclusive'
  BY SameCounts DEF TypeOK
<1>8. EndInv'
  BY ArcAssumption DEF TypeOK, LocalInv, EndInv, LastPC, Owners, StrongRefs, UniqueRefs
<1>. QED
  BY <1>1, <1>2, <1>3, <1>4, <1>5, <1>6, <1>7, <1>8

(* The assertion of demote_to_readonly. *)
LEMMA DemoteLoadInv ==
  ASSUME IInv, NEW t \in Thread, DemoteLoad(t)
  PROVE  IInv'
<1>. USE DEF IInv, words, handles, DemoteLoad, At, Goto
<1>1. TypeOK'
  BY DEF TypeOK, Labels
<1>2. HandleInv'
  BY DEF TypeOK, HandleInv
<1>3. LocalInv'
  BY DEF TypeOK, LocalInv, UniquePC, SharedPC, WeakPC, ResultPC
<1>4. BusyInv'
  BY DEF TypeOK, BusyInv, ConstPC
<1>5. LockInv' /\ UniqueLockInv'
  BY DEF TypeOK, LockInv, UniqueLockInv, HoldPC
<1>6. PhaseInv' /\ ReclaimInv'
  BY DEF TypeOK, PhaseInv, ReclaimInv, LastPC
<1>7. CountsMatchHandles' /\ UniqueIsExclusive'
  BY SameCounts DEF TypeOK
<1>8. EndInv'
  BY DEF TypeOK, EndInv, LastPC, Owners, StrongRefs, UniqueRefs
<1>. QED
  BY <1>1, <1>2, <1>3, <1>4, <1>5, <1>6, <1>7, <1>8

(* A unique handle clears the lock bit. *)
LEMMA DestroyUniqueUnlockInv ==
  ASSUME IInv, NEW t \in Thread, DestroyUniqueUnlock(t)
  PROVE  IInv'
<1>. USE DEF IInv, words, handles, DestroyUniqueUnlock, At, Goto
<1>. /\ t \in Thread /\ self[t] \in Handle /\ pay[t] = ptr[self[t]] /\ kind[self[t]] = "unique"
     /\ pay[t] \in Payload
  BY DEF LocalInv, UniquePC
<1>. /\ phase[pay[t]] # "free" /\ weak[pay[t]] # 0
     /\ \A u \in Thread : pay[u] = pay[t] => pc[u] \notin LastPC
  BY HandleFacts
<1>. /\ Owners(pay[t]) = {self[t]} /\ \A u \in Thread : pay[u] = pay[t] => pc[u] # "rd_zero"
  BY OwnerFacts
<1>. \A u \in Thread : pay[u] = pay[t] => pc[u] \notin HoldPC
  BY ArcAssumption DEF UniqueLockInv, BusyInv, TypeOK, ConstPC
<1>1. TypeOK'
  BY DEF TypeOK, Labels
<1>2. HandleInv'
  BY DEF TypeOK, HandleInv
<1>3. LocalInv'
  BY DEF TypeOK, LocalInv, UniquePC, SharedPC, WeakPC, ResultPC
<1>4. BusyInv'
  BY DEF TypeOK, BusyInv, ConstPC
<1>5. LockInv' /\ UniqueLockInv'
  BY DEF TypeOK, LockInv, UniqueLockInv, HoldPC, Owners, UniqueRefs
<1>6. PhaseInv' /\ ReclaimInv'
  BY DEF TypeOK, PhaseInv, ReclaimInv, LastPC
<1>7. CountsMatchHandles' /\ UniqueIsExclusive'
  BY SameCounts DEF TypeOK
<1>8. EndInv'
  BY DEF TypeOK, EndInv, LastPC, Owners, StrongRefs, UniqueRefs
<1>. QED
  BY <1>1, <1>2, <1>3, <1>4, <1>5, <1>6, <1>7, <1>8

(* A unique handle destroys the object. *)
LEMMA DestroyUniqueObjectInv ==
  ASSUME IInv, NEW t \in Thread, DestroyUniqueObject(t)
  PROVE  IInv'
<1>. USE DEF IInv, words, handles, DestroyUniqueObject, At, Goto
<1>. /\ t \in Thread /\ self[t] \in Handle /\ pay[t] = ptr[self[t]] /\ kind[self[t]] = "unique"
     /\ pay[t] \in Payload
  BY DEF LocalInv, UniquePC
<1>. /\ phase[pay[t]] # "free" /\ weak[pay[t]] # 0
     /\ \A u \in Thread : pay[u] = pay[t] => pc[u] \notin LastPC
  BY HandleFacts
<1>. /\ Owners(pay[t]) = {self[t]} /\ \A u \in Thread : pay[u] = pay[t] => pc[u] # "rd_zero"
  BY OwnerFacts
<1>1. TypeOK'
  BY DEF TypeOK, Labels
<1>2. HandleInv'
  BY DEF TypeOK, HandleInv
<1>3. LocalInv'
  BY DEF TypeOK, LocalInv, UniquePC, SharedPC, WeakPC, ResultPC
<1>4. BusyInv'
  BY DEF TypeOK, BusyInv, ConstPC
<1>5. LockInv' /\ UniqueLockInv'
  BY DEF TypeOK, LockInv, UniqueLockInv, HoldPC
<1>6. PhaseInv' /\ ReclaimInv'
  BY DEF TypeOK, PhaseInv, ReclaimInv, LastPC, Owners, StrongRefs, UniqueRefs
<1>7. CountsMatchHandles' /\ UniqueIsExclusive'
  BY SameCounts DEF TypeOK
<1>8. EndInv'
  BY DEF TypeOK, EndInv, LastPC, Owners, StrongRefs, UniqueRefs
<1>. QED
  BY <1>1, <1>2, <1>3, <1>4, <1>5, <1>6, <1>7, <1>8

(* duplicate gets the lock. *)
LEMMA DuplicateLockInv ==
  ASSUME IInv, NEW t \in Thread, DuplicateLock(t)
  PROVE  IInv'
<1>. USE DEF IInv, words, handles, DuplicateLock, At, Acquire
<1>. /\ t \in Thread /\ self[t] \in Handle /\ pay[t] = ptr[self[t]] /\ kind[self[t]] = "ro"
     /\ pay[t] \in Payload
  BY DEF LocalInv, SharedPC
<1>. /\ phase[pay[t]] # "free" /\ weak[pay[t]] # 0
     /\ \A u \in Thread : pay[u] = pay[t] => pc[u] \notin LastPC
  BY HandleFacts
<1>1. TypeOK'
  BY DEF TypeOK, Labels
<1>2. HandleInv'
  BY DEF TypeOK, HandleInv
<1>3. LocalInv'
  BY DEF TypeOK, LocalInv, UniquePC, SharedPC, WeakPC, ResultPC
<1>4. BusyInv'
  BY DEF TypeOK, BusyInv, ConstPC
<1>5. LockInv' /\ UniqueLockInv'
  BY DEF TypeOK, LockInv, UniqueLockInv, HoldPC
<1>6. PhaseInv' /\ ReclaimInv'
  BY DEF TypeOK, PhaseInv, ReclaimInv, LastPC
<1>7. CountsMatchHandles' /\ UniqueIsExclusive'
  BY SameCounts DEF TypeOK
<1>8. EndInv'
  BY DEF TypeOK, EndInv, LastPC, Owners, StrongRefs, UniqueRefs
<1>. QED
  BY <1>1, <1>2, <1>3, <1>4, <1>5, <1>6, <1>7, <1>8

(* A promotion gets the lock. *)
LEMMA PromoteLockInv ==
  ASSUME IInv, NEW t \in Thread, PromoteLock(t)
  PROVE  IInv'
<1>. USE DEF IInv, words, handles, PromoteLock, At, Acquire
<1>. /\ t \in Thread /\ self[t] \in Handle /\ pay[t] = ptr[self[t]] /\ kind[self[t]] = "ro"
     /\ pay[t] \in Payload
  BY DEF LocalInv, SharedPC
<1>. /\ phase[pay[t]] # "free" /\ weak[pay[t]] # 0
     /\ \A u \in Thread : pay[u] = pay[t] => pc[u] \notin LastPC
  BY HandleFacts
<1>1. TypeOK'
  BY DEF TypeOK, Labels
<1>2. HandleInv'
  BY DEF TypeOK, HandleInv
<1>3. LocalInv'
  BY DEF TypeOK, LocalInv, UniquePC, SharedPC, WeakPC, ResultPC
<1>4. BusyInv'
  BY DEF TypeOK, BusyInv, ConstPC
<1>5. LockInv' /\ UniqueLockInv'
  BY DEF TypeOK, LockInv, UniqueLockInv, HoldPC
<1>6. PhaseInv' /\ ReclaimInv'
  BY DEF TypeOK, PhaseInv, ReclaimInv, LastPC
<1>7. CountsMatchHandles' /\ UniqueIsExclusive'
  BY SameCounts DEF TypeOK
<1>8. EndInv'
  BY DEF TypeOK, EndInv, LastPC, Owners, StrongRefs, UniqueRefs
<1>. QED
  BY <1>1, <1>2, <1>3, <1>4, <1>5, <1>6, <1>7, <1>8

(* The destructor of a read-only handle gets the lock. *)
LEMMA DestroyReadonlyLockInv ==
  ASSUME IInv, NEW t \in Thread, DestroyReadonlyLock(t)
  PROVE  IInv'
<1>. USE DEF IInv, words, handles, DestroyReadonlyLock, At, Acquire
<1>. /\ t \in Thread /\ self[t] \in Handle /\ pay[t] = ptr[self[t]] /\ kind[self[t]] = "ro"
     /\ pay[t] \in Payload
  BY DEF LocalInv, SharedPC
<1>. /\ phase[pay[t]] # "free" /\ weak[pay[t]] # 0
     /\ \A u \in Thread : pay[u] = pay[t] => pc[u] \notin LastPC
  BY HandleFacts
<1>1. TypeOK'
  BY DEF TypeOK, Labels
<1>2. HandleInv'
  BY DEF TypeOK, HandleInv
<1>3. LocalInv'
  BY DEF TypeOK, LocalInv, UniquePC, SharedPC, WeakPC, ResultPC
<1>4. BusyInv'
  BY DEF TypeOK, BusyInv, ConstPC
<1>5. LockInv' /\ UniqueLockInv'
  BY DEF TypeOK, LockInv, UniqueLockInv, HoldPC
<1>6. PhaseInv' /\ ReclaimInv'
  BY DEF TypeOK, PhaseInv, ReclaimInv, LastPC
<1>7. CountsMatchHandles' /\ UniqueIsExclusive'
  BY SameCounts DEF TypeOK
<1>8. EndInv'
  BY DEF TypeOK, EndInv, LastPC, Owners, StrongRefs, UniqueRefs
<1>. QED
  BY <1>1, <1>2, <1>3, <1>4, <1>5, <1>6, <1>7, <1>8

(* An upgrade gets the lock. *)
LEMMA TrySpawnLockInv ==
  ASSUME IInv, NEW t \in Thread, TrySpawnLock(t)
  PROVE  IInv'
<1>. USE DEF IInv, words, handles, TrySpawnLock, At, Acquire
<1>. /\ t \in Thread /\ self[t] \in Handle /\ pay[t] = ptr[self[t]] /\ kind[self[t]] = "weak"
     /\ pay[t] \in Payload
  BY DEF LocalInv, WeakPC
<1>. /\ phase[pay[t]] # "free" /\ weak[pay[t]] # 0
     /\ \A u \in Thread : pay[u] = pay[t] => pc[u] \notin LastPC
  BY HandleFacts
<1>1. TypeOK'
  BY DEF TypeOK, Labels
<1>2. HandleInv'
  BY DEF TypeOK, HandleInv
<1>3. LocalInv'
  BY DEF TypeOK, LocalInv, UniquePC, SharedPC, WeakPC, ResultPC
<1>4. BusyInv'
  BY DEF TypeOK, BusyInv, ConstPC
<1>5. LockInv' /\ UniqueLockInv'
  BY DEF TypeOK, LockInv, UniqueLockInv, HoldPC
<1>6. PhaseInv' /\ ReclaimInv'
  BY DEF TypeOK, PhaseInv, ReclaimInv, LastPC
<1>7. CountsMatchHandles' /\ UniqueIsExclusive'
  BY SameCounts DEF TypeOK
<1>8. EndInv'
  BY DEF TypeOK, EndInv, LastPC, Owners, StrongRefs, UniqueRefs
<1>. QED
  BY <1>1, <1>2, <1>3, <1>4, <1>5, <1>6, <1>7, <1>8

(* duplicate releases the lock. *)
LEMMA DuplicateUnlockInv ==
  ASSUME IInv, NEW t \in Thread, DuplicateUnlock(t)
  PROVE  IInv'
<1>. USE DEF IInv, words, handles, DuplicateUnlock, At, Return
<1>. /\ t \in Thread /\ self[t] \in Handle /\ pay[t] = ptr[self[t]] /\ kind[self[t]] = "ro"
     /\ pay[t] \in Payload
  BY DEF LocalInv, SharedPC
<1>. /\ phase[pay[t]] # "free" /\ weak[pay[t]] # 0
     /\ \A u \in Thread : pay[u] = pay[t] => pc[u] \notin LastPC
  BY HandleFacts
<1>1. TypeOK'
  BY DEF TypeOK, Labels
<1>2. HandleInv'
  BY DEF TypeOK, HandleInv
<1>3. LocalInv'
  BY DEF TypeOK, LocalInv, UniquePC, SharedPC, WeakPC, ResultPC
<1>4. BusyInv'
  BY DEF TypeOK, BusyInv, ConstPC
<1>5. LockInv' /\ UniqueLockInv'
  BY DEF TypeOK, LockInv, UniqueLockInv, HoldPC
<1>6. PhaseInv' /\ ReclaimInv'
  BY DEF TypeOK, PhaseInv, ReclaimInv, LastPC
<1>7. CountsMatchHandles' /\ UniqueIsExclusive'
  BY SameCounts DEF TypeOK
<1>8. EndInv'
  BY ArcAssumption DEF TypeOK, LocalInv, EndInv, LastPC, Owners, StrongRefs, UniqueRefs
<1>. QED
  BY <1>1, <1>2, <1>3, <1>4, <1>5, <1>6, <1>7, <1>8

(* A promotion fails. *)
LEMMA PromoteFailInv ==
  ASSUME IInv, NEW t \in Thread, PromoteFail(t)
  PROVE  IInv'
<1>. USE DEF IInv, words, handles, PromoteFail, At, Return
<1>. /\ t \in Thread /\ self[t] \in Handle /\ pay[t] = ptr[self[t]] /\ kind[self[t]] = "ro"
     /\ pay[t] \in Payload
  BY DEF LocalInv, SharedPC
<1>. /\ phase[pay[t]] # "free" /\ weak[pay[t]] # 0
     /\ \A u \in Thread : pay[u] = pay[t] => pc[u] \notin LastPC
  BY HandleFacts
<1>1. TypeOK'
  BY DEF TypeOK, Labels
<1>2. HandleInv'
  BY DEF TypeOK, HandleInv
<1>3. LocalInv'
  BY DEF TypeOK, LocalInv, UniquePC, SharedPC, WeakPC, ResultPC
<1>4. BusyInv'
  BY DEF TypeOK, BusyInv, ConstPC
<1>5. LockInv' /\ UniqueLockInv'
  BY DEF TypeOK, LockInv, UniqueLockInv, HoldPC
<1>6. PhaseInv' /\ ReclaimInv'
  BY DEF TypeOK, PhaseInv, ReclaimInv, LastPC
<1>7. CountsMatchHandles' /\ UniqueIsExclusive'
  BY SameCounts DEF TypeOK
<1>8. EndInv'
  BY ArcAssumption DEF TypeOK, LocalInv, EndInv, LastPC, Owners, StrongRefs, UniqueRefs
<1>. QED
  BY <1>1, <1>2, <1>3, <1>4, <1>5, <1>6, <1>7, <1>8

(* The last read-only handle destroys the object. *)
LEMMA DestroyReadonlyObjectInv ==
  ASSUME IInv, NEW t \in Thread, DestroyReadonlyObject(t)
  PROVE  IInv'
<1>. USE DEF IInv, words, handles, DestroyReadonlyObject, At, Goto
<1>. /\ t \in Thread /\ self[t] \in Handle /\ pay[t] = ptr[self[t]] /\ kind[self[t]] = "ro"
     /\ pay[t] \in Payload
  BY DEF LocalInv, SharedPC
<1>. /\ phase[pay[t]] # "free" /\ weak[pay[t]] # 0
     /\ \A u \in Thread : pay[u] = pay[t] => pc[u] \notin LastPC
  BY HandleFacts
<1>. /\ self[t] \in StrongRefs(pay[t]) /\ UniqueRefs(pay[t]) = {}
     /\ Cardinality(StrongRefs(pay[t])) = 1
  BY OwnerFacts DEF LockInv
<1>. Owners(pay[t]) = {self[t]}
  BY SmallCounts DEF Owners
<1>1. TypeOK'
  BY DEF TypeOK, Labels
<1>2. HandleInv'
  BY DEF TypeOK, HandleInv
<1>3. LocalInv'
  BY DEF TypeOK, LocalInv, UniquePC, SharedPC, WeakPC, ResultPC
<1>4. BusyInv'
  BY DEF TypeOK, BusyInv, ConstPC
<1>5. LockInv' /\ UniqueLockInv'
  BY DEF TypeOK, LockInv, UniqueLockInv, HoldPC
<1>6. PhaseInv' /\ ReclaimInv'
  BY DEF TypeOK, PhaseInv, ReclaimInv, LastPC, Owners, StrongRefs, UniqueRefs
<1>7. CountsMatchHandles' /\ UniqueIsExclusive'
  BY SameCounts DEF TypeOK
<1>8. EndInv'
  BY DEF TypeOK, EndInv, LastPC, Owners, StrongRefs, UniqueRefs
<1>. QED
  BY <1>1, <1>2, <1>3, <1>4, <1>5, <1>6, <1>7, <1>8

(* The assertion of the last weak handle. *)
LEMMA DestroyWeakCheckInv ==
  ASSUME IInv, NEW t \in Thread, DestroyWeakCheck(t)
  PROVE  IInv'
<1>. USE DEF IInv, words, handles, DestroyWeakCheck, At, Goto
<1>1. TypeOK'
  BY DEF TypeOK, Labels
<1>2. HandleInv'
  BY DEF TypeOK, HandleInv
<1>3. LocalInv'
  BY DEF TypeOK, LocalInv, UniquePC, SharedPC, WeakPC, ResultPC
<1>4. BusyInv'
  BY DEF TypeOK, BusyInv, ConstPC
<1>5. LockInv' /\ UniqueLockInv'
  BY DEF TypeOK, LockInv, UniqueLockInv, HoldPC
<1>6. PhaseInv' /\ ReclaimInv'
  BY DEF TypeOK, PhaseInv, ReclaimInv, LastPC
<1>7. CountsMatchHandles' /\ UniqueIsExclusive'
  BY SameCounts DEF TypeOK
<1>8. EndInv'
  BY DEF TypeOK, LocalInv, LockInv, HoldPC, EndInv, LastPC, Owners, StrongRefs, UniqueRefs
<1>. QED
  BY <1>1, <1>2, <1>3, <1>4, <1>5, <1>6, <1>7, <1>8

-----------------------------------------------------------------------------
(* The instructions that make, change or end a handle.                     *)

(* demote_to_readonly stores 1. *)
LEMMA DemoteStoreInv ==
  ASSUME IInv, NEW t \in Thread, DemoteStore(t)
  PROVE  IInv'
<1>. USE DEF IInv, words, handles, StoreStrong, DemoteStore, At, Return
<1>. PICK h \in Handle, p \in Payload :
          h = self[t] /\ p = pay[t] /\ ptr[h] = p /\ kind[h] = "unique"
  BY DEF LocalInv, UniquePC
<1>. /\ p # Null /\ phase[p] # "free" /\ weak[p] # 0
     /\ \A u \in Thread : pay[u] = p => pc[u] \notin LastPC
  BY HandleFacts, ArcAssumption
<1>. \A u \in Thread : u # t => self[u] # h
  BY ArcAssumption DEF BusyInv, TypeOK, ConstPC
<1>s. /\ TypeOK /\ HandleInv /\ SetHandle(h, "ro", p) /\ "ro" \in Kinds
      /\ ptr[h] \in {p, Null} /\ kind[h] = "unique"
  BY DEF Kinds
<1>a. \A o \in Payload \ {p} :
        /\ StrongRefs(o)' = StrongRefs(o) /\ UniqueRefs(o)' = UniqueRefs(o)
        /\ WeakRefs(o)' = WeakRefs(o)
  BY <1>s, HandleMoves
<1>b. /\ StrongRefs(p)' = StrongRefs(p) \cup {h}
      /\ UniqueRefs(p)' = UniqueRefs(p) \ {h}
      /\ WeakRefs(p)' = WeakRefs(p)
  BY <1>s, HandleMoves DEF Strong
<1>c. /\ Cardinality(StrongRefs(p))' = Cardinality(StrongRefs(p)) + 1
      /\ Cardinality(WeakRefs(p))' = Cardinality(WeakRefs(p))
  BY <1>s, HandleCounts DEF Strong
<1>. /\ Owners(p) = {h} /\ strong[p] = 0 /\ Cardinality(StrongRefs(p)) = 0
     /\ \A u \in Thread : pay[u] = p => pc[u] # "rd_zero"
  BY OwnerFacts
<1>. StrongRefs(p) = {} /\ UniqueRefs(p) = {h}
  BY SmallCounts DEF Owners
<1>. \A u \in Thread : pay[u] = p => pc[u] \notin HoldPC
  BY ArcAssumption DEF UniqueLockInv, BusyInv, TypeOK, ConstPC
<1>1. TypeOK'
  BY DEF TypeOK, Labels, SetHandle
<1>2. HandleInv'
  BY ArcAssumption DEF TypeOK, HandleInv, SetHandle
<1>3. LocalInv'
  BY DEF TypeOK, LocalInv, SetHandle, UniquePC, SharedPC, WeakPC, ResultPC
<1>4. BusyInv'
  BY DEF TypeOK, BusyInv, ConstPC
<1>5. LockInv' /\ UniqueLockInv'
  BY DEF TypeOK, SetHandle, LockInv, UniqueLockInv, HoldPC, Owners, UniqueRefs
<1>6. PhaseInv' /\ ReclaimInv'
  BY DEF TypeOK, SetHandle, PhaseInv, ReclaimInv, LastPC
<1>7. CountsMatchHandles' /\ UniqueIsExclusive'
  <2>1. ASSUME NEW o \in Payload \ {p}
        PROVE  /\ phase'[o] # "free" => StrongExact(o)' /\ WeakExact(o)'
               /\ \A g \in UniqueRefs(o)' : Owners(o)' = {g}
    BY <1>a, OtherCounts DEF TypeOK
  <2>2. WeakExact(p)'
    BY <1>b, <1>c, RefsFinite, SmallCounts DEF TypeOK, CountsMatchHandles, WeakExact, Owners
  <2>3. StrongExact(p)'
    BY <1>c, RefsFinite DEF TypeOK, CountsMatchHandles, StrongExact, LockInv
  <2>4. \A g \in UniqueRefs(p)' : Owners(p)' = {g}
    BY <1>b DEF UniqueIsExclusive, Owners
  <2>. QED
    BY <2>1, <2>2, <2>3, <2>4 DEF CountsMatchHandles, UniqueIsExclusive
<1>8. EndInv'
  BY <1>a, ArcAssumption DEF TypeOK, LocalInv, EndInv, LastPC, Owners
<1>. QED
  BY <1>1, <1>2, <1>3, <1>4, <1>5, <1>6, <1>7, <1>8

(* A unique handle gives back the weak unit. *)
LEMMA DestroyUniqueWeakInv ==
  ASSUME IInv, NEW t \in Thread, DestroyUniqueWeak(t)
  PROVE  IInv'
<1>. USE DEF IInv, words, handles, StoreStrong, DestroyUniqueWeak, At, Goto, Return
<1>. PICK h \in Handle, p \in Payload :
          h = self[t] /\ p = pay[t] /\ ptr[h] = p /\ kind[h] = "unique"
  BY DEF LocalInv, UniquePC
<1>. /\ p # Null /\ phase[p] # "free" /\ weak[p] # 0
     /\ \A u \in Thread : pay[u] = p => pc[u] \notin LastPC
  BY HandleFacts, ArcAssumption
<1>. \A u \in Thread : u # t => self[u] # h
  BY ArcAssumption DEF BusyInv, TypeOK, ConstPC
<1>s. /\ TypeOK /\ HandleInv /\ SetHandle(h, "none", Null) /\ "none" \in Kinds
      /\ ptr[h] \in {p, Null} /\ kind[h] = "unique"
  BY DEF Kinds
<1>a. \A o \in Payload \ {p} :
        /\ StrongRefs(o)' = StrongRefs(o) /\ UniqueRefs(o)' = UniqueRefs(o)
        /\ WeakRefs(o)' = WeakRefs(o)
  BY <1>s, HandleMoves
<1>b. /\ StrongRefs(p)' = StrongRefs(p)
      /\ UniqueRefs(p)' = UniqueRefs(p) \ {h}
      /\ WeakRefs(p)' = WeakRefs(p)
  BY <1>s, HandleMoves DEF Strong
<1>c. /\ Cardinality(StrongRefs(p))' = Cardinality(StrongRefs(p))
      /\ Cardinality(WeakRefs(p))' = Cardinality(WeakRefs(p))
  BY <1>s, HandleCounts DEF Strong
<1>. /\ Owners(p) = {h} /\ strong[p] = 0 /\ Cardinality(StrongRefs(p)) = 0
     /\ \A u \in Thread : pay[u] = p => pc[u] # "rd_zero"
  BY OwnerFacts
<1>. StrongRefs(p) = {} /\ UniqueRefs(p) = {h}
  BY SmallCounts DEF Owners
<1>. weak[p] = Cardinality(WeakRefs(p)) + 1 /\ Owners(p) # {}
  BY DEF CountsMatchHandles, WeakExact, Owners
<1>. weak[p] = 1 => Owners(p) \cup WeakRefs(p) \subseteq {h}
  BY RefsFinite, SmallCounts DEF Owners
<1>. weak[p] = 1 => \A u \in Thread \ {t} : pay[u] # p
  BY LastAlone
<1>o. Owners(p)' = {}
  BY <1>b DEF Owners
<1>1. TypeOK'
  BY DEF TypeOK, Labels, SetHandle
<1>2. HandleInv'
  BY ArcAssumption DEF TypeOK, HandleInv, SetHandle
<1>3. LocalInv'
  BY DEF TypeOK, LocalInv, SetHandle, UniquePC, SharedPC, WeakPC, ResultPC
<1>4. BusyInv'
  BY DEF TypeOK, BusyInv, ConstPC
<1>5. LockInv' /\ UniqueLockInv'
  BY DEF TypeOK, SetHandle, LockInv, UniqueLockInv, HoldPC
<1>6. PhaseInv' /\ ReclaimInv'
  BY DEF TypeOK, SetHandle, PhaseInv, ReclaimInv, LastPC
<1>7. CountsMatchHandles' /\ UniqueIsExclusive'
  <2>1. ASSUME NEW o \in Payload \ {p}
        PROVE  /\ phase'[o] # "free" => StrongExact(o)' /\ WeakExact(o)'
               /\ \A g \in UniqueRefs(o)' : Owners(o)' = {g}
    BY <1>a, OtherCounts DEF TypeOK
  <2>2. WeakExact(p)'
    BY <1>o, <1>b, <1>c, RefsFinite DEF TypeOK, WeakExact
  <2>3. StrongExact(p)'
    BY <1>c, RefsFinite DEF TypeOK, CountsMatchHandles, StrongExact, LockInv
  <2>4. \A g \in UniqueRefs(p)' : Owners(p)' = {g}
    BY <1>b DEF UniqueIsExclusive, Owners
  <2>. QED
    BY <2>1, <2>2, <2>3, <2>4 DEF CountsMatchHandles, UniqueIsExclusive
<1>8. EndInv'
  BY <1>a, <1>o, ArcAssumption DEF TypeOK, LocalInv, EndInv, LastPC, Owners
<1>. QED
  BY <1>1, <1>2, <1>3, <1>4, <1>5, <1>6, <1>7, <1>8

(* duplicate counts its result. *)
LEMMA DuplicateAddInv ==
  ASSUME IInv, NEW t \in Thread, DuplicateAdd(t)
  PROVE  IInv'
<1>. USE DEF IInv, words, handles, StoreStrong, DuplicateAdd, At, Goto
<1>. PICK h \in Handle, p \in Payload :
          h = self[t] /\ p = pay[t] /\ ptr[h] = p /\ kind[h] = "ro"
  BY DEF LocalInv, SharedPC
<1>. /\ p # Null /\ phase[p] # "free" /\ weak[p] # 0
     /\ \A u \in Thread : pay[u] = p => pc[u] \notin LastPC
  BY HandleFacts, ArcAssumption
<1>. PICK n \in Handle : n = res[t] /\ kind[n] = "none" /\ ptr[n] = Null /\ n # h
  BY DEF LocalInv, HandleInv, ResultPC
<1>. \A u \in Thread : self[u] # n /\ (u # t => res[u] # n)
  BY ArcAssumption DEF BusyInv, TypeOK
<1>s. /\ TypeOK /\ HandleInv /\ SetHandle(n, "ro", p) /\ "ro" \in Kinds
      /\ ptr[n] \in {p, Null} /\ kind[n] = "none"
  BY DEF Kinds
<1>a. \A o \in Payload \ {p} :
        /\ StrongRefs(o)' = StrongRefs(o) /\ UniqueRefs(o)' = UniqueRefs(o)
        /\ WeakRefs(o)' = WeakRefs(o)
  BY <1>s, HandleMoves
<1>b. /\ StrongRefs(p)' = StrongRefs(p) \cup {n}
      /\ UniqueRefs(p)' = UniqueRefs(p)
      /\ WeakRefs(p)' = WeakRefs(p)
  BY <1>s, HandleMoves DEF Strong
<1>c. /\ Cardinality(StrongRefs(p))' = Cardinality(StrongRefs(p)) + 1
      /\ Cardinality(WeakRefs(p))' = Cardinality(WeakRefs(p))
  BY <1>s, HandleCounts DEF Strong
<1>. /\ UniqueRefs(p) = {} /\ h \in StrongRefs(p)
     /\ strong[p] # 0 /\ strong[p] = Cardinality(StrongRefs(p))
     /\ \A u \in Thread : pay[u] = p => pc[u] # "rd_zero"
  BY OwnerFacts
<1>. phase[p] = "live"
  BY DEF PhaseInv, LockInv, LocalInv, HoldPC, UniquePC, SharedPC
<1>1. TypeOK'
  BY DEF TypeOK, Labels, SetHandle
<1>2. HandleInv'
  BY ArcAssumption DEF TypeOK, HandleInv, SetHandle
<1>3. LocalInv'
  BY DEF TypeOK, LocalInv, SetHandle, UniquePC, SharedPC, WeakPC, ResultPC
<1>4. BusyInv'
  BY DEF TypeOK, BusyInv, ConstPC
<1>5. LockInv' /\ UniqueLockInv'
  BY DEF TypeOK, SetHandle, LockInv, UniqueLockInv, HoldPC
<1>6. PhaseInv' /\ ReclaimInv'
  BY DEF TypeOK, SetHandle, PhaseInv, ReclaimInv, LastPC
<1>7. CountsMatchHandles' /\ UniqueIsExclusive'
  <2>1. ASSUME NEW o \in Payload \ {p}
        PROVE  /\ phase'[o] # "free" => StrongExact(o)' /\ WeakExact(o)'
               /\ \A g \in UniqueRefs(o)' : Owners(o)' = {g}
    BY <1>a, OtherCounts DEF TypeOK
  <2>2. WeakExact(p)'
    BY <1>b, <1>c, RefsFinite, SmallCounts DEF TypeOK, CountsMatchHandles, WeakExact, Owners
  <2>3. StrongExact(p)'
    BY <1>c, RefsFinite DEF TypeOK, CountsMatchHandles, StrongExact, LockInv
  <2>4. \A g \in UniqueRefs(p)' : Owners(p)' = {g}
    BY <1>b DEF UniqueIsExclusive, Owners
  <2>. QED
    BY <2>1, <2>2, <2>3, <2>4 DEF CountsMatchHandles, UniqueIsExclusive
<1>8. EndInv'
  BY <1>a, ArcAssumption DEF TypeOK, LocalInv, EndInv, LastPC, Owners
<1>. QED
  BY <1>1, <1>2, <1>3, <1>4, <1>5, <1>6, <1>7, <1>8

(* A promotion succeeds. *)
LEMMA PromoteStoreInv ==
  ASSUME IInv, NEW t \in Thread, PromoteStore(t)
  PROVE  IInv'
<1>. USE DEF IInv, words, handles, StoreStrong, PromoteStore, At, Return
<1>. PICK h \in Handle, p \in Payload :
          h = self[t] /\ p = pay[t] /\ ptr[h] = p /\ kind[h] = "ro"
  BY DEF LocalInv, SharedPC
<1>. /\ p # Null /\ phase[p] # "free" /\ weak[p] # 0
     /\ \A u \in Thread : pay[u] = p => pc[u] \notin LastPC
  BY HandleFacts, ArcAssumption
<1>. \A u \in Thread : u # t => self[u] # h
  BY ArcAssumption DEF BusyInv, TypeOK, ConstPC
<1>s. /\ TypeOK /\ HandleInv /\ SetHandle(h, "unique", p) /\ "unique" \in Kinds
      /\ ptr[h] \in {p, Null} /\ kind[h] = "ro"
  BY DEF Kinds
<1>a. \A o \in Payload \ {p} :
        /\ StrongRefs(o)' = StrongRefs(o) /\ UniqueRefs(o)' = UniqueRefs(o)
        /\ WeakRefs(o)' = WeakRefs(o)
  BY <1>s, HandleMoves
<1>b. /\ StrongRefs(p)' = StrongRefs(p) \ {h}
      /\ UniqueRefs(p)' = UniqueRefs(p) \cup {h}
      /\ WeakRefs(p)' = WeakRefs(p)
  BY <1>s, HandleMoves DEF Strong
<1>c. /\ Cardinality(StrongRefs(p))' = Cardinality(StrongRefs(p)) - 1
      /\ Cardinality(WeakRefs(p))' = Cardinality(WeakRefs(p))
  BY <1>s, HandleCounts DEF Strong
<1>. /\ UniqueRefs(p) = {} /\ h \in StrongRefs(p)
     /\ strong[p] # 0 /\ strong[p] = Cardinality(StrongRefs(p))
     /\ \A u \in Thread : pay[u] = p => pc[u] # "rd_zero"
  BY OwnerFacts
<1>. StrongRefs(p) = {h}
  BY SmallCounts DEF LockInv
<1>1. TypeOK'
  BY DEF TypeOK, Labels, SetHandle
<1>2. HandleInv'
  BY ArcAssumption DEF TypeOK, HandleInv, SetHandle
<1>3. LocalInv'
  BY DEF TypeOK, LocalInv, SetHandle, UniquePC, SharedPC, WeakPC, ResultPC
<1>4. BusyInv'
  BY DEF TypeOK, BusyInv, ConstPC
<1>5. LockInv' /\ UniqueLockInv'
  BY DEF TypeOK, SetHandle, LockInv, UniqueLockInv, HoldPC
<1>6. PhaseInv' /\ ReclaimInv'
  BY DEF TypeOK, SetHandle, PhaseInv, ReclaimInv, LastPC
<1>7. CountsMatchHandles' /\ UniqueIsExclusive'
  <2>1. ASSUME NEW o \in Payload \ {p}
        PROVE  /\ phase'[o] # "free" => StrongExact(o)' /\ WeakExact(o)'
               /\ \A g \in UniqueRefs(o)' : Owners(o)' = {g}
    BY <1>a, OtherCounts DEF TypeOK
  <2>2. WeakExact(p)'
    BY <1>b, <1>c, RefsFinite, SmallCounts DEF TypeOK, CountsMatchHandles, WeakExact, Owners
  <2>3. StrongExact(p)'
    BY <1>c, RefsFinite DEF TypeOK, CountsMatchHandles, StrongExact, LockInv
  <2>4. \A g \in UniqueRefs(p)' : Owners(p)' = {g}
    BY <1>b DEF UniqueIsExclusive, Owners
  <2>. QED
    BY <2>1, <2>2, <2>3, <2>4 DEF CountsMatchHandles, UniqueIsExclusive
<1>8. EndInv'
  BY <1>a, ArcAssumption DEF TypeOK, LocalInv, EndInv, LastPC, Owners
<1>. QED
  BY <1>1, <1>2, <1>3, <1>4, <1>5, <1>6, <1>7, <1>8

(* A read-only handle that is not the last is gone. *)
LEMMA DestroyReadonlyStoreInv ==
  ASSUME IInv, NEW t \in Thread, DestroyReadonlyStore(t)
  PROVE  IInv'
<1>. USE DEF IInv, words, handles, StoreStrong, DestroyReadonlyStore, At, Return
<1>. PICK h \in Handle, p \in Payload :
          h = self[t] /\ p = pay[t] /\ ptr[h] = p /\ kind[h] = "ro"
  BY DEF LocalInv, SharedPC
<1>. /\ p # Null /\ phase[p] # "free" /\ weak[p] # 0
     /\ \A u \in Thread : pay[u] = p => pc[u] \notin LastPC
  BY HandleFacts, ArcAssumption
<1>. \A u \in Thread : u # t => self[u] # h
  BY ArcAssumption DEF BusyInv, TypeOK, ConstPC
<1>s. /\ TypeOK /\ HandleInv /\ SetHandle(h, "none", Null) /\ "none" \in Kinds
      /\ ptr[h] \in {p, Null} /\ kind[h] = "ro"
  BY DEF Kinds
<1>a. \A o \in Payload \ {p} :
        /\ StrongRefs(o)' = StrongRefs(o) /\ UniqueRefs(o)' = UniqueRefs(o)
        /\ WeakRefs(o)' = WeakRefs(o)
  BY <1>s, HandleMoves
<1>b. /\ StrongRefs(p)' = StrongRefs(p) \ {h}
      /\ UniqueRefs(p)' = UniqueRefs(p)
      /\ WeakRefs(p)' = WeakRefs(p)
  BY <1>s, HandleMoves DEF Strong
<1>c. /\ Cardinality(StrongRefs(p))' = Cardinality(StrongRefs(p)) - 1
      /\ Cardinality(WeakRefs(p))' = Cardinality(WeakRefs(p))
  BY <1>s, HandleCounts DEF Strong
<1>. /\ UniqueRefs(p) = {} /\ h \in StrongRefs(p)
     /\ strong[p] # 0 /\ strong[p] = Cardinality(StrongRefs(p))
     /\ \A u \in Thread : pay[u] = p => pc[u] # "rd_zero"
  <2>1. IInv /\ h \in Handle /\ kind[h] = "ro" /\ ptr[h] = p
    OBVIOUS
  <2>. HIDE DEF IInv
  <2>2. /\ UniqueRefs(ptr[h]) = {} /\ h \in StrongRefs(ptr[h])
        /\ strong[ptr[h]] # 0 /\ strong[ptr[h]] = Cardinality(StrongRefs(ptr[h]))
        /\ \A u \in Thread : pay[u] = ptr[h] => pc[u] # "rd_zero"
    BY <2>1, OwnerFacts
  <2>. QED
    BY <2>1, <2>2
<1>. old[t] = strong[p] /\ old[t] # 0 /\ old[t] # 1
  BY DEF LockInv
<1>. old[t] \in Nat
  BY DEF TypeOK
<1>. old[t] - 1 \in Nat
  OBVIOUS
<1>. StrongRefs(p) \ {h} # {}
  BY SmallCounts
<1>1. TypeOK'
  BY DEF TypeOK, Labels, SetHandle
<1>2. HandleInv'
  BY ArcAssumption DEF TypeOK, HandleInv, SetHandle
<1>3. LocalInv'
  BY DEF TypeOK, LocalInv, SetHandle, UniquePC, SharedPC, WeakPC, ResultPC
<1>4. BusyInv'
  BY DEF TypeOK, BusyInv, ConstPC
<1>5. LockInv' /\ UniqueLockInv'
  BY DEF TypeOK, SetHandle, LockInv, UniqueLockInv, HoldPC
<1>6. PhaseInv' /\ ReclaimInv'
  BY DEF TypeOK, SetHandle, PhaseInv, ReclaimInv, LastPC
<1>7. CountsMatchHandles' /\ UniqueIsExclusive'
  <2>1. ASSUME NEW o \in Payload \ {p}
        PROVE  /\ phase'[o] # "free" => StrongExact(o)' /\ WeakExact(o)'
               /\ \A g \in UniqueRefs(o)' : Owners(o)' = {g}
    BY <1>a, OtherCounts DEF TypeOK
  <2>2. WeakExact(p)'
    BY <1>b, <1>c, RefsFinite, SmallCounts DEF TypeOK, CountsMatchHandles, WeakExact, Owners
  <2>3. StrongExact(p)'
    BY <1>c, RefsFinite DEF TypeOK, CountsMatchHandles, StrongExact, LockInv
  <2>4. \A g \in UniqueRefs(p)' : Owners(p)' = {g}
    BY <1>b DEF UniqueIsExclusive, Owners
  <2>. QED
    BY <2>1, <2>2, <2>3, <2>4 DEF CountsMatchHandles, UniqueIsExclusive
<1>8. EndInv'
  BY <1>a, ArcAssumption DEF TypeOK, LocalInv, EndInv, LastPC, Owners
<1>. QED
  BY <1>1, <1>2, <1>3, <1>4, <1>5, <1>6, <1>7, <1>8

(* The last read-only handle gives back the weak unit. *)
LEMMA DestroyReadonlyWeakInv ==
  ASSUME IInv, NEW t \in Thread, DestroyReadonlyWeak(t)
  PROVE  IInv'
<1>. USE DEF IInv, words, handles, StoreStrong, DestroyReadonlyWeak, At, Goto
<1>. PICK h \in Handle, p \in Payload :
          h = self[t] /\ p = pay[t] /\ ptr[h] = p /\ kind[h] = "ro"
  BY DEF LocalInv, SharedPC
<1>. /\ p # Null /\ phase[p] # "free" /\ weak[p] # 0
     /\ \A u \in Thread : pay[u] = p => pc[u] \notin LastPC
  BY HandleFacts, ArcAssumption
<1>. \A u \in Thread : u # t => self[u] # h
  BY ArcAssumption DEF BusyInv, TypeOK, ConstPC
<1>s. /\ TypeOK /\ HandleInv /\ SetHandle(h, "none", Null) /\ "none" \in Kinds
      /\ ptr[h] \in {p, Null} /\ kind[h] = "ro"
  BY DEF Kinds
<1>a. \A o \in Payload \ {p} :
        /\ StrongRefs(o)' = StrongRefs(o) /\ UniqueRefs(o)' = UniqueRefs(o)
        /\ WeakRefs(o)' = WeakRefs(o)
  BY <1>s, HandleMoves
<1>b. /\ StrongRefs(p)' = StrongRefs(p) \ {h}
      /\ UniqueRefs(p)' = UniqueRefs(p)
      /\ WeakRefs(p)' = WeakRefs(p)
  BY <1>s, HandleMoves DEF Strong
<1>c. /\ Cardinality(StrongRefs(p))' = Cardinality(StrongRefs(p)) - 1
      /\ Cardinality(WeakRefs(p))' = Cardinality(WeakRefs(p))
  BY <1>s, HandleCounts DEF Strong
<1>. /\ UniqueRefs(p) = {} /\ h \in StrongRefs(p)
     /\ strong[p] # 0 /\ strong[p] = Cardinality(StrongRefs(p))
     /\ \A u \in Thread : pay[u] = p => pc[u] # "rd_zero"
  BY OwnerFacts
<1>. StrongRefs(p) = {h}
  BY SmallCounts DEF LockInv
<1>. weak[p] = Cardinality(WeakRefs(p)) + 1 /\ Owners(p) # {}
  BY DEF CountsMatchHandles, WeakExact, Owners
<1>. weak[p] = 1 => Owners(p) \cup WeakRefs(p) \subseteq {h}
  BY RefsFinite, SmallCounts DEF Owners
<1>. weak[p] = 1 => \A u \in Thread \ {t} : pay[u] # p
  BY LastAlone
<1>o. Owners(p)' = {}
  BY <1>b DEF Owners
<1>1. TypeOK'
  BY DEF TypeOK, Labels, SetHandle
<1>2. HandleInv'
  BY ArcAssumption DEF TypeOK, HandleInv, SetHandle
<1>3. LocalInv'
  BY DEF TypeOK, LocalInv, SetHandle, UniquePC, SharedPC, WeakPC, ResultPC
<1>4. BusyInv'
  BY DEF TypeOK, BusyInv, ConstPC
<1>5. LockInv' /\ UniqueLockInv'
  BY DEF TypeOK, SetHandle, LockInv, UniqueLockInv, HoldPC
<1>6. PhaseInv' /\ ReclaimInv'
  BY DEF TypeOK, SetHandle, PhaseInv, ReclaimInv, LastPC
<1>7. CountsMatchHandles' /\ UniqueIsExclusive'
  <2>1. ASSUME NEW o \in Payload \ {p}
        PROVE  /\ phase'[o] # "free" => StrongExact(o)' /\ WeakExact(o)'
               /\ \A g \in UniqueRefs(o)' : Owners(o)' = {g}
    BY <1>a, OtherCounts DEF TypeOK
  <2>2. WeakExact(p)'
    BY <1>o, <1>b, <1>c, RefsFinite DEF TypeOK, WeakExact
  <2>3. StrongExact(p)'
    BY <1>c, RefsFinite DEF TypeOK, CountsMatchHandles, StrongExact, LockInv
  <2>4. \A g \in UniqueRefs(p)' : Owners(p)' = {g}
    BY <1>b DEF UniqueIsExclusive, Owners
  <2>. QED
    BY <2>1, <2>2, <2>3, <2>4 DEF CountsMatchHandles, UniqueIsExclusive
<1>8. EndInv'
  BY <1>a, <1>o, ArcAssumption DEF TypeOK, LocalInv, EndInv, LastPC, Owners
<1>. QED
  BY <1>1, <1>2, <1>3, <1>4, <1>5, <1>6, <1>7, <1>8

(* A weak handle is gone. *)
LEMMA DestroyWeakSubInv ==
  ASSUME IInv, NEW t \in Thread, DestroyWeakSub(t)
  PROVE  IInv'
<1>. USE DEF IInv, words, handles, StoreStrong, DestroyWeakSub, At, Goto, Return
<1>. PICK h \in Handle, p \in Payload :
          h = self[t] /\ p = pay[t] /\ ptr[h] = p /\ kind[h] = "weak"
  BY DEF LocalInv, WeakPC
<1>. /\ p # Null /\ phase[p] # "free" /\ weak[p] # 0
     /\ \A u \in Thread : pay[u] = p => pc[u] \notin LastPC
  BY HandleFacts, ArcAssumption
<1>. \A u \in Thread : u # t => self[u] # h
  BY ArcAssumption DEF BusyInv, TypeOK, ConstPC
<1>s. /\ TypeOK /\ HandleInv /\ SetHandle(h, "none", Null) /\ "none" \in Kinds
      /\ ptr[h] \in {p, Null} /\ kind[h] = "weak"
  BY DEF Kinds
<1>a. \A o \in Payload \ {p} :
        /\ StrongRefs(o)' = StrongRefs(o) /\ UniqueRefs(o)' = UniqueRefs(o)
        /\ WeakRefs(o)' = WeakRefs(o)
  BY <1>s, HandleMoves
<1>b. /\ StrongRefs(p)' = StrongRefs(p)
      /\ UniqueRefs(p)' = UniqueRefs(p)
      /\ WeakRefs(p)' = WeakRefs(p) \ {h}
  BY <1>s, HandleMoves DEF Strong
<1>c. /\ Cardinality(StrongRefs(p))' = Cardinality(StrongRefs(p))
      /\ Cardinality(WeakRefs(p))' = Cardinality(WeakRefs(p)) - 1
  BY <1>s, HandleCounts DEF Strong
<1>o. Owners(p)' = Owners(p)
  BY <1>b DEF Owners
<1>. h \in WeakRefs(p)
  BY DEF WeakRefs
<1>. weak[p] = Cardinality(WeakRefs(p)) + (IF Owners(p) = {} THEN 0 ELSE 1)
  BY DEF CountsMatchHandles, WeakExact
<1>. weak[p] = 1 => Owners(p) \cup WeakRefs(p) \subseteq {h}
  BY RefsFinite, SmallCounts
<1>. weak[p] = 1 => \A u \in Thread \ {t} : pay[u] = p => pc[u] = "rd_zero"
  BY LastAlone
<1>1. TypeOK'
  BY DEF TypeOK, Labels, SetHandle
<1>2. HandleInv'
  BY ArcAssumption DEF TypeOK, HandleInv, SetHandle
<1>3. LocalInv'
  BY DEF TypeOK, LocalInv, SetHandle, UniquePC, SharedPC, WeakPC, ResultPC
<1>4. BusyInv'
  BY DEF TypeOK, BusyInv, ConstPC
<1>5. LockInv' /\ UniqueLockInv'
  BY DEF TypeOK, SetHandle, LockInv, UniqueLockInv, HoldPC
<1>6. PhaseInv' /\ ReclaimInv'
  BY DEF TypeOK, SetHandle, PhaseInv, ReclaimInv, LastPC
<1>7. CountsMatchHandles' /\ UniqueIsExclusive'
  <2>1. ASSUME NEW o \in Payload \ {p}
        PROVE  /\ phase'[o] # "free" => StrongExact(o)' /\ WeakExact(o)'
               /\ \A g \in UniqueRefs(o)' : Owners(o)' = {g}
    BY <1>a, OtherCounts DEF TypeOK
  <2>2. WeakExact(p)'
    <3>1. /\ weak[p] = Cardinality(WeakRefs(p)) + (IF Owners(p) = {} THEN 0 ELSE 1)
          /\ weak'[p] = weak[p] - 1
      BY DEF TypeOK
    <3>. QED
      BY ONLY <1>c, <1>o, <3>1, RefsFinite DEF WeakExact
  <2>3. StrongExact(p)'
    BY <1>c, RefsFinite DEF TypeOK, CountsMatchHandles, StrongExact, LockInv
  <2>4. \A g \in UniqueRefs(p)' : Owners(p)' = {g}
    BY <1>b DEF UniqueIsExclusive, Owners
  <2>. QED
    BY <2>1, <2>2, <2>3, <2>4 DEF CountsMatchHandles, UniqueIsExclusive
<1>8. EndInv'
  BY <1>a, <1>o, ArcAssumption DEF TypeOK, LocalInv, EndInv, LastPC, Owners
<1>. QED
  BY <1>1, <1>2, <1>3, <1>4, <1>5, <1>6, <1>7, <1>8

(* The last read-only handle leaves a count of zero. *)
LEMMA DestroyReadonlyZeroInv ==
  ASSUME IInv, NEW t \in Thread, DestroyReadonlyZero(t)
  PROVE  IInv'
<1>. USE DEF IInv, words, handles, StoreStrong, DestroyReadonlyZero, At, Return
<1>. PICK p \in Payload : p = pay[t] /\ p # Null
  BY ArcAssumption DEF LocalInv
<1>. /\ \A g \in Handle : kind[g] \in {"unique", "ro", "lost"} => ptr[g] # p
     /\ StrongRefs(p) = {}
  BY DEF EndInv, Owners, StrongRefs, UniqueRefs
<1>. Cardinality(StrongRefs(p)) = 0
  BY SmallCounts
<1>a. \A o \in Payload : /\ StrongRefs(o)' = StrongRefs(o) /\ WeakRefs(o)' = WeakRefs(o)
                            /\ UniqueRefs(o)' = UniqueRefs(o) /\ Owners(o)' = Owners(o)
  BY DEF Owners, StrongRefs, UniqueRefs, WeakRefs
<1>1. TypeOK'
  BY DEF TypeOK, Labels, SetHandle
<1>2. HandleInv'
  BY ArcAssumption DEF TypeOK, HandleInv, SetHandle
<1>3. LocalInv'
  BY DEF TypeOK, LocalInv, SetHandle, UniquePC, SharedPC, WeakPC, ResultPC
<1>4. BusyInv'
  BY DEF TypeOK, BusyInv, ConstPC
<1>5. LockInv' /\ UniqueLockInv'
  BY DEF TypeOK, SetHandle, LockInv, UniqueLockInv, HoldPC
<1>6. PhaseInv' /\ ReclaimInv'
  BY DEF TypeOK, SetHandle, PhaseInv, ReclaimInv, LastPC
<1>7. CountsMatchHandles' /\ UniqueIsExclusive'
  <2>1. StrongExact(p)'
    BY <1>a DEF TypeOK, StrongExact
  <2>2. \A o \in Payload \ {p} : StrongExact(o) => StrongExact(o)'
    BY <1>a DEF TypeOK, StrongExact
  <2>3. \A o \in Payload : WeakExact(o) => WeakExact(o)'
    BY <1>a DEF WeakExact
  <2>4. UniqueIsExclusive'
    BY <1>a DEF UniqueIsExclusive
  <2>. QED
    BY <2>1, <2>2, <2>3, <2>4 DEF CountsMatchHandles
<1>8. EndInv'
  BY <1>a, ArcAssumption DEF TypeOK, LocalInv, EndInv, LastPC, Owners
<1>. QED
  BY <1>1, <1>2, <1>3, <1>4, <1>5, <1>6, <1>7, <1>8

(* The memory is given back. *)
LEMMA DeallocateInv ==
  ASSUME IInv, NEW t \in Thread, Deallocate(t)
  PROVE  IInv'
<1>. USE DEF IInv, words, handles, StoreStrong, Deallocate, At, Return
<1>. PICK p \in Payload : p = pay[t] /\ p # Null
  BY ArcAssumption DEF LocalInv
<1>. weak[p] = 0 /\ \A u \in Thread \ {t} : pay[u] # p
  BY DEF EndInv, LastPC
<1>. \A g \in Handle : ptr[g] # p
  BY HandleFacts DEF HandleInv
<1>a. \A o \in Payload : /\ StrongRefs(o)' = StrongRefs(o) /\ WeakRefs(o)' = WeakRefs(o)
                            /\ UniqueRefs(o)' = UniqueRefs(o) /\ Owners(o)' = Owners(o)
  BY DEF Owners, StrongRefs, UniqueRefs, WeakRefs
<1>1. TypeOK'
  BY DEF TypeOK, Labels, SetHandle
<1>2. HandleInv'
  BY ArcAssumption DEF TypeOK, HandleInv, SetHandle
<1>3. LocalInv'
  BY DEF TypeOK, LocalInv, SetHandle, UniquePC, SharedPC, WeakPC, ResultPC
<1>4. BusyInv'
  BY DEF TypeOK, BusyInv, ConstPC
<1>5. LockInv' /\ UniqueLockInv'
  BY DEF TypeOK, SetHandle, LockInv, UniqueLockInv, HoldPC
<1>6. PhaseInv' /\ ReclaimInv'
  BY DEF TypeOK, SetHandle, PhaseInv, ReclaimInv, LastPC
<1>7. CountsMatchHandles' /\ UniqueIsExclusive'
  <2>1. CountsMatchHandles'
    BY <1>a DEF TypeOK, CountsMatchHandles, StrongExact, WeakExact
  <2>2. UniqueIsExclusive'
    BY <1>a DEF UniqueIsExclusive
  <2>. QED
    BY <2>1, <2>2
<1>8. EndInv'
  BY <1>a, ArcAssumption DEF TypeOK, LocalInv, EndInv, LastPC, Owners
<1>. QED
  BY <1>1, <1>2, <1>3, <1>4, <1>5, <1>6, <1>7, <1>8

(* A new payload with its unique handle. *)
LEMMA MakeInv ==
  ASSUME IInv, NEW t \in Thread, NEW h \in Handle, NEW p \in Payload, Make(t, h, p)
  PROVE  IInv'
<1>. USE DEF IInv, words, locals, Make, Idle
<1>. /\ p # Null /\ kind[h] = "none" /\ ptr[h] = Null
     /\ \A g \in Handle : ptr[g] # p
     /\ \A u \in Thread : pay[u] # p /\ self[u] # h /\ res[u] # h
  BY ArcAssumption DEF HandleInv, LocalInv, Unused, Exclusive
<1>s. /\ TypeOK /\ HandleInv /\ SetHandle(h, "unique", p) /\ "unique" \in Kinds
      /\ ptr[h] \in {p, Null} /\ kind[h] = "none"
  BY DEF Kinds
<1>a. \A o \in Payload \ {p} :
        /\ StrongRefs(o)' = StrongRefs(o) /\ UniqueRefs(o)' = UniqueRefs(o)
        /\ WeakRefs(o)' = WeakRefs(o)
  BY <1>s, HandleMoves
<1>b. /\ StrongRefs(p)' = StrongRefs(p)
      /\ UniqueRefs(p)' = UniqueRefs(p) \cup {h}
      /\ WeakRefs(p)' = WeakRefs(p)
  BY <1>s, HandleMoves DEF Strong
<1>c. /\ Cardinality(StrongRefs(p))' = Cardinality(StrongRefs(p))
      /\ Cardinality(WeakRefs(p))' = Cardinality(WeakRefs(p))
  BY <1>s, HandleCounts DEF Strong
<1>. StrongRefs(p) = {} /\ UniqueRefs(p) = {} /\ WeakRefs(p) = {}
  BY DEF StrongRefs, UniqueRefs, WeakRefs
<1>. Cardinality(StrongRefs(p)) = 0 /\ Cardinality(WeakRefs(p)) = 0
  BY SmallCounts
<1>1. TypeOK'
  BY DEF TypeOK, Labels, SetHandle
<1>2. HandleInv'
  BY ArcAssumption DEF TypeOK, HandleInv, SetHandle
<1>3. LocalInv'
  BY DEF TypeOK, LocalInv, SetHandle, UniquePC, SharedPC, WeakPC, ResultPC
<1>4. BusyInv'
  BY DEF TypeOK, BusyInv, ConstPC
<1>5. LockInv' /\ UniqueLockInv'
  BY DEF TypeOK, SetHandle, LockInv, UniqueLockInv, HoldPC
<1>6. PhaseInv' /\ ReclaimInv'
  BY DEF TypeOK, SetHandle, PhaseInv, ReclaimInv, LastPC
<1>7. CountsMatchHandles' /\ UniqueIsExclusive'
  <2>1. ASSUME NEW o \in Payload \ {p}
        PROVE  /\ phase'[o] # "free" => StrongExact(o)' /\ WeakExact(o)'
               /\ \A g \in UniqueRefs(o)' : Owners(o)' = {g}
    BY <1>a, OtherCounts, ArcAssumption DEF TypeOK, LocalInv
  <2>2. WeakExact(p)'
    BY <1>b, <1>c DEF TypeOK, WeakExact, Owners
  <2>3. StrongExact(p)'
    BY <1>c DEF TypeOK, StrongExact
  <2>4. \A g \in UniqueRefs(p)' : Owners(p)' = {g}
    BY <1>b DEF UniqueIsExclusive, Owners
  <2>. QED
    BY <2>1, <2>2, <2>3, <2>4 DEF CountsMatchHandles, UniqueIsExclusive
<1>8. EndInv'
  BY <1>a, ArcAssumption DEF TypeOK, LocalInv, EndInv, LastPC, Owners
<1>. QED
  BY <1>1, <1>2, <1>3, <1>4, <1>5, <1>6, <1>7, <1>8

(* A move assignment loses the reference of its right side. *)
LEMMA MoveAssignSameInv ==
  ASSUME IInv, NEW t \in Thread, NEW h \in Handle, NEW r \in Handle, MoveAssignSame(t, h, r)
  PROVE  IInv'
<1>. USE DEF IInv, words, locals, MoveAssignSame, Idle
<1>. /\ kind[r] = "ro" /\ ptr[r] # Null
     /\ \A u \in Thread : self[u] # r /\ res[u] # r
  BY DEF HandleInv, Exclusive
<1>. PICK p \in Payload : p = ptr[r]
  BY DEF TypeOK
<1>a. \A o \in Payload : /\ StrongRefs(o)' = StrongRefs(o) /\ WeakRefs(o)' = WeakRefs(o)
                            /\ UniqueRefs(o)' = UniqueRefs(o) /\ Owners(o)' = Owners(o)
  BY DEF TypeOK, SetHandle, Owners, StrongRefs, UniqueRefs, WeakRefs
<1>1. TypeOK'
  BY DEF TypeOK, Labels, SetHandle
<1>2. HandleInv'
  BY ArcAssumption DEF TypeOK, HandleInv, SetHandle
<1>3. LocalInv'
  BY DEF TypeOK, LocalInv, SetHandle, UniquePC, SharedPC, WeakPC, ResultPC
<1>4. BusyInv'
  BY DEF TypeOK, BusyInv, ConstPC
<1>5. LockInv' /\ UniqueLockInv'
  BY DEF TypeOK, SetHandle, LockInv, UniqueLockInv, HoldPC
<1>6. PhaseInv' /\ ReclaimInv'
  BY DEF TypeOK, SetHandle, PhaseInv, ReclaimInv, LastPC
<1>7. CountsMatchHandles' /\ UniqueIsExclusive'
  <2>1. CountsMatchHandles'
    BY <1>a DEF TypeOK, CountsMatchHandles, StrongExact, WeakExact
  <2>2. UniqueIsExclusive'
    BY <1>a DEF UniqueIsExclusive
  <2>. QED
    BY <2>1, <2>2
<1>8. EndInv'
  BY <1>a, ArcAssumption DEF TypeOK, LocalInv, EndInv, LastPC, Owners
<1>. QED
  BY <1>1, <1>2, <1>3, <1>4, <1>5, <1>6, <1>7, <1>8

(* A new weak handle. *)
LEMMA SpawnWeakInv ==
  ASSUME IInv, NEW t \in Thread, NEW h \in Handle, NEW n \in Handle, SpawnWeak(t, h, n)
  PROVE  IInv'
<1>. USE DEF IInv, words, locals, SpawnWeak, Idle
<1>. /\ kind[h] # "none" /\ kind[n] = "none" /\ ptr[n] = Null /\ n # h
     /\ \A u \in Thread : self[u] # n /\ res[u] # n
  BY DEF HandleInv, Unused, Exclusive
<1>. PICK p \in Payload : p = ptr[h]
  BY DEF HandleInv, TypeOK
<1>. /\ p # Null /\ phase[p] # "free" /\ weak[p] # 0
     /\ \A u \in Thread : pay[u] = p => pc[u] \notin LastPC
  BY HandleFacts, ArcAssumption
<1>s. /\ TypeOK /\ HandleInv /\ SetHandle(n, "weak", p) /\ "weak" \in Kinds
      /\ ptr[n] \in {p, Null} /\ kind[n] = "none"
  BY DEF Kinds
<1>a. \A o \in Payload \ {p} :
        /\ StrongRefs(o)' = StrongRefs(o) /\ UniqueRefs(o)' = UniqueRefs(o)
        /\ WeakRefs(o)' = WeakRefs(o)
  BY <1>s, HandleMoves
<1>b. /\ StrongRefs(p)' = StrongRefs(p)
      /\ UniqueRefs(p)' = UniqueRefs(p)
      /\ WeakRefs(p)' = WeakRefs(p) \cup {n}
  BY <1>s, HandleMoves DEF Strong
<1>c. /\ Cardinality(StrongRefs(p))' = Cardinality(StrongRefs(p))
      /\ Cardinality(WeakRefs(p))' = Cardinality(WeakRefs(p)) + 1
  BY <1>s, HandleCounts DEF Strong
<1>o. Owners(p)' = Owners(p)
  BY <1>b DEF Owners
<1>1. TypeOK'
  BY DEF TypeOK, Labels, SetHandle
<1>2. HandleInv'
  BY ArcAssumption DEF TypeOK, HandleInv, SetHandle
<1>3. LocalInv'
  BY DEF TypeOK, LocalInv, SetHandle, UniquePC, SharedPC, WeakPC, ResultPC
<1>4. BusyInv'
  BY DEF TypeOK, BusyInv, ConstPC
<1>5. LockInv' /\ UniqueLockInv'
  BY DEF TypeOK, SetHandle, LockInv, UniqueLockInv, HoldPC
<1>6. PhaseInv' /\ ReclaimInv'
  BY DEF TypeOK, SetHandle, PhaseInv, ReclaimInv, LastPC
<1>7. CountsMatchHandles' /\ UniqueIsExclusive'
  <2>1. ASSUME NEW o \in Payload \ {p}
        PROVE  /\ phase'[o] # "free" => StrongExact(o)' /\ WeakExact(o)'
               /\ \A g \in UniqueRefs(o)' : Owners(o)' = {g}
    BY <1>a DEF TypeOK, CountsMatchHandles, StrongExact, WeakExact, UniqueIsExclusive, Owners
  <2>2. WeakExact(p)'
    BY <1>b, <1>c, RefsFinite, SmallCounts DEF TypeOK, CountsMatchHandles, WeakExact, Owners
  <2>3. StrongExact(p)'
    BY <1>c, RefsFinite DEF TypeOK, CountsMatchHandles, StrongExact, LockInv
  <2>4. \A g \in UniqueRefs(p)' : Owners(p)' = {g}
    BY <1>b DEF UniqueIsExclusive, Owners
  <2>. QED
    BY <2>1, <2>2, <2>3, <2>4 DEF CountsMatchHandles, UniqueIsExclusive
<1>8. EndInv'
  BY <1>a, <1>o, ArcAssumption DEF TypeOK, LocalInv, EndInv, LastPC, Owners
<1>. QED
  BY <1>1, <1>2, <1>3, <1>4, <1>5, <1>6, <1>7, <1>8

(* demote_to_weak makes a weak handle and destroys itself. *)
LEMMA CallDemoteToWeakInv ==
  ASSUME IInv, NEW t \in Thread, NEW h \in Handle, NEW n \in Handle, CallDemoteToWeak(t, h, n)
  PROVE  IInv'
<1>. USE DEF IInv, words, Call, CallDemoteToWeak, Idle
<1>. /\ kind[h] # "none" /\ kind[n] = "none" /\ ptr[n] = Null /\ n # h
     /\ \A u \in Thread : self[u] # n /\ res[u] # n
  BY DEF HandleInv, Unused, Exclusive
<1>. kind[h] = "ro" /\ \A u \in Thread : self[u] # h /\ res[u] # h
  BY DEF Exclusive
<1>. PICK p \in Payload : p = ptr[h]
  BY DEF HandleInv, TypeOK
<1>. /\ p # Null /\ phase[p] # "free" /\ weak[p] # 0
     /\ \A u \in Thread : pay[u] = p => pc[u] \notin LastPC
  BY HandleFacts, ArcAssumption
<1>s. /\ TypeOK /\ HandleInv /\ SetHandle(n, "weak", p) /\ "weak" \in Kinds
      /\ ptr[n] \in {p, Null} /\ kind[n] = "none"
  BY DEF Kinds
<1>a. \A o \in Payload \ {p} :
        /\ StrongRefs(o)' = StrongRefs(o) /\ UniqueRefs(o)' = UniqueRefs(o)
        /\ WeakRefs(o)' = WeakRefs(o)
  BY <1>s, HandleMoves
<1>b. /\ StrongRefs(p)' = StrongRefs(p)
      /\ UniqueRefs(p)' = UniqueRefs(p)
      /\ WeakRefs(p)' = WeakRefs(p) \cup {n}
  BY <1>s, HandleMoves DEF Strong
<1>c. /\ Cardinality(StrongRefs(p))' = Cardinality(StrongRefs(p))
      /\ Cardinality(WeakRefs(p))' = Cardinality(WeakRefs(p)) + 1
  BY <1>s, HandleCounts DEF Strong
<1>o. Owners(p)' = Owners(p)
  BY <1>b DEF Owners
<1>1. TypeOK'
  BY DEF TypeOK, Labels, SetHandle
<1>2. HandleInv'
  BY ArcAssumption DEF TypeOK, HandleInv, SetHandle
<1>3. LocalInv'
  BY DEF TypeOK, LocalInv, SetHandle, UniquePC, SharedPC, WeakPC, ResultPC
<1>4. BusyInv'
  BY DEF TypeOK, BusyInv, ConstPC
<1>5. LockInv' /\ UniqueLockInv'
  BY DEF TypeOK, SetHandle, LockInv, UniqueLockInv, HoldPC
<1>6. PhaseInv' /\ ReclaimInv'
  BY DEF TypeOK, SetHandle, PhaseInv, ReclaimInv, LastPC
<1>7. CountsMatchHandles' /\ UniqueIsExclusive'
  <2>1. ASSUME NEW o \in Payload \ {p}
        PROVE  /\ phase'[o] # "free" => StrongExact(o)' /\ WeakExact(o)'
               /\ \A g \in UniqueRefs(o)' : Owners(o)' = {g}
    BY <1>a DEF TypeOK, CountsMatchHandles, StrongExact, WeakExact, UniqueIsExclusive, Owners
  <2>2. WeakExact(p)'
    BY <1>b, <1>c, RefsFinite, SmallCounts DEF TypeOK, CountsMatchHandles, WeakExact, Owners
  <2>3. StrongExact(p)'
    BY <1>c, RefsFinite DEF TypeOK, CountsMatchHandles, StrongExact, LockInv
  <2>4. \A g \in UniqueRefs(p)' : Owners(p)' = {g}
    BY <1>b DEF UniqueIsExclusive, Owners
  <2>. QED
    BY <2>1, <2>2, <2>3, <2>4 DEF CountsMatchHandles, UniqueIsExclusive
<1>8. EndInv'
  BY <1>a, <1>o, ArcAssumption DEF TypeOK, LocalInv, EndInv, LastPC, Owners
<1>. QED
  BY <1>1, <1>2, <1>3, <1>4, <1>5, <1>6, <1>7, <1>8

(* An upgrade finds no strong reference. *)
LEMMA TrySpawnNoneInv ==
  ASSUME IInv, NEW t \in Thread, At(t, "ts_store"), old[t] = 0,
         StoreStrong(pay[t], 0), Return(t), UNCHANGED <<weak, phase, handles, aborted>>
  PROVE  IInv'
<1>. USE DEF IInv, words, handles, StoreStrong, At, Return
<1>. PICK h \in Handle, p \in Payload :
          h = self[t] /\ p = pay[t] /\ ptr[h] = p /\ kind[h] = "weak"
  BY DEF LocalInv, WeakPC
<1>. /\ p # Null /\ phase[p] # "free" /\ weak[p] # 0
     /\ \A u \in Thread : pay[u] = p => pc[u] \notin LastPC
  BY HandleFacts, ArcAssumption
<1>. strong' = strong
  BY DEF TypeOK, LockInv
<1>1. TypeOK'
  BY DEF TypeOK, Labels
<1>2. HandleInv'
  BY DEF TypeOK, HandleInv
<1>3. LocalInv'
  BY DEF TypeOK, LocalInv, UniquePC, SharedPC, WeakPC, ResultPC
<1>4. BusyInv'
  BY DEF TypeOK, BusyInv, ConstPC
<1>5. LockInv' /\ UniqueLockInv'
  BY DEF TypeOK, LockInv, UniqueLockInv, HoldPC
<1>6. PhaseInv' /\ ReclaimInv'
  BY DEF TypeOK, PhaseInv, ReclaimInv, LastPC
<1>7. CountsMatchHandles' /\ UniqueIsExclusive'
  BY SameCounts DEF TypeOK
<1>8. EndInv'
  BY ArcAssumption DEF TypeOK, LocalInv, EndInv, LastPC, Owners, StrongRefs, UniqueRefs
<1>. QED
  BY <1>1, <1>2, <1>3, <1>4, <1>5, <1>6, <1>7, <1>8

(* An upgrade counts its result. *)
LEMMA TrySpawnOneInv ==
  ASSUME IInv, NEW t \in Thread, At(t, "ts_store"), old[t] # 0,
         StoreStrong(pay[t], old[t] + 1), SetHandle(res[t], "ro", pay[t]), Return(t),
         UNCHANGED <<weak, phase, aborted>>
  PROVE  IInv'
<1>. USE DEF IInv, words, handles, StoreStrong, At, Return
<1>. PICK h \in Handle, p \in Payload :
          h = self[t] /\ p = pay[t] /\ ptr[h] = p /\ kind[h] = "weak"
  BY DEF LocalInv, WeakPC
<1>. /\ p # Null /\ phase[p] # "free" /\ weak[p] # 0
     /\ \A u \in Thread : pay[u] = p => pc[u] \notin LastPC
  BY HandleFacts, ArcAssumption
<1>. PICK n \in Handle : n = res[t] /\ kind[n] = "none" /\ ptr[n] = Null /\ n # h
  BY DEF LocalInv, HandleInv, ResultPC
<1>. \A u \in Thread : self[u] # n /\ (u # t => res[u] # n)
  BY ArcAssumption DEF BusyInv, TypeOK
<1>s. /\ TypeOK /\ HandleInv /\ SetHandle(n, "ro", p) /\ "ro" \in Kinds
      /\ ptr[n] \in {p, Null} /\ kind[n] = "none"
  BY DEF Kinds
<1>a. \A o \in Payload \ {p} :
        /\ StrongRefs(o)' = StrongRefs(o) /\ UniqueRefs(o)' = UniqueRefs(o)
        /\ WeakRefs(o)' = WeakRefs(o)
  BY <1>s, HandleMoves
<1>b. /\ StrongRefs(p)' = StrongRefs(p) \cup {n}
      /\ UniqueRefs(p)' = UniqueRefs(p)
      /\ WeakRefs(p)' = WeakRefs(p)
  BY <1>s, HandleMoves DEF Strong
<1>c. /\ Cardinality(StrongRefs(p))' = Cardinality(StrongRefs(p)) + 1
      /\ Cardinality(WeakRefs(p))' = Cardinality(WeakRefs(p))
  BY <1>s, HandleCounts DEF Strong
<1>. /\ \A u \in Thread : pay[u] = p => pc[u] # "rd_zero"
     /\ old[t] = strong[p] /\ strong[p] # 0
  BY DEF LockInv, HoldPC
<1>. strong[p] = Cardinality(StrongRefs(p))
  BY DEF CountsMatchHandles, StrongExact, LastPC
<1>. PICK s \in StrongRefs(p) : TRUE
  BY SmallCounts
<1>. s \in Handle /\ kind[s] \in {"ro", "lost"} /\ ptr[s] = p
  BY DEF StrongRefs
<1>. UniqueRefs(p) = {}
  BY OwnerFacts
<1>. phase[p] = "live"
  BY DEF PhaseInv, LockInv, LocalInv, HoldPC, UniquePC, SharedPC
<1>1. TypeOK'
  BY DEF TypeOK, Labels, SetHandle
<1>2. HandleInv'
  BY ArcAssumption DEF TypeOK, HandleInv, SetHandle
<1>3. LocalInv'
  BY DEF TypeOK, LocalInv, SetHandle, UniquePC, SharedPC, WeakPC, ResultPC
<1>4. BusyInv'
  BY DEF TypeOK, BusyInv, ConstPC
<1>5. LockInv' /\ UniqueLockInv'
  BY DEF TypeOK, SetHandle, LockInv, UniqueLockInv, HoldPC
<1>6. PhaseInv' /\ ReclaimInv'
  BY DEF TypeOK, SetHandle, PhaseInv, ReclaimInv, LastPC
<1>7. CountsMatchHandles' /\ UniqueIsExclusive'
  <2>1. ASSUME NEW o \in Payload \ {p}
        PROVE  /\ phase'[o] # "free" => StrongExact(o)' /\ WeakExact(o)'
               /\ \A g \in UniqueRefs(o)' : Owners(o)' = {g}
    BY <1>a, OtherCounts DEF TypeOK
  <2>2. WeakExact(p)'
    BY <1>b, <1>c, RefsFinite, SmallCounts DEF TypeOK, CountsMatchHandles, WeakExact, Owners
  <2>3. StrongExact(p)'
    BY <1>c, RefsFinite DEF TypeOK, CountsMatchHandles, StrongExact, LockInv
  <2>4. \A g \in UniqueRefs(p)' : Owners(p)' = {g}
    BY <1>b DEF UniqueIsExclusive, Owners
  <2>. QED
    BY <2>1, <2>2, <2>3, <2>4 DEF CountsMatchHandles, UniqueIsExclusive
<1>8. EndInv'
  BY <1>a, ArcAssumption DEF TypeOK, LocalInv, EndInv, LastPC, Owners
<1>. QED
  BY <1>1, <1>2, <1>3, <1>4, <1>5, <1>6, <1>7, <1>8

(* try_spawn_readonly fails or succeeds. *)
LEMMA TrySpawnStoreInv ==
  ASSUME IInv, NEW t \in Thread, TrySpawnStore(t)
  PROVE  IInv'
  BY TrySpawnNoneInv, TrySpawnOneInv DEF TrySpawnStore

-----------------------------------------------------------------------------
(* Any step.                                                               *)
LEMMA ClientInv ==
  ASSUME IInv, NEW t \in Thread, Client(t)
  PROVE  IInv'
<1>0. Null \notin Handle
  BY ArcAssumption
<1>1. CASE EndAccess(t)
  BY <1>1, EndAccessInv
<1>2. ASSUME NEW h \in Handle, NEW p \in Payload, Make(t, h, p) PROVE IInv'
  BY <1>2, MakeInv
<1>3. ASSUME NEW h \in Handle, CallDemote(t, h) \/ BeginWrite(t, h) \/ CallPromote(t, h)
      PROVE  IInv'
  BY <1>3, CallInv
     DEF CallDemote, BeginWrite, CallPromote, EntryPC, UniquePC, SharedPC, WeakPC, ConstPC, ResultPC
<1>4. ASSUME NEW h \in Handle, BeginRead(t, h) PROVE IInv'
  BY <1>4, CallInv DEF BeginRead, EntryPC, UniquePC, SharedPC, WeakPC, ConstPC, ResultPC
<1>5. ASSUME NEW h \in Handle, NEW r \in Handle \cup {Null},
             \/ CallDestroyUnique(t, h, r)
             \/ CallDestroyReadonly(t, h, r)
             \/ CallDestroyWeak(t, h, r)
      PROVE  IInv'
  BY <1>5, CallInv
     DEF CallDestroyUnique, CallDestroyReadonly, CallDestroyWeak,
         EntryPC, UniquePC, SharedPC, WeakPC, ConstPC, ResultPC
<1>6. ASSUME NEW h \in Handle, NEW n \in Handle, CallDuplicate(t, h, n) \/ CallTrySpawn(t, h, n)
      PROVE  IInv'
  BY <1>6, CallInv
     DEF CallDuplicate, CallTrySpawn, Unused, EntryPC, UniquePC, SharedPC, WeakPC, ConstPC, ResultPC
<1>7. ASSUME NEW h \in Handle, NEW n \in Handle, CallDemoteToWeak(t, h, n) PROVE IInv'
  BY <1>7, CallDemoteToWeakInv
<1>8. ASSUME NEW h \in Handle, NEW n \in Handle, MoveAssignSame(t, h, n) PROVE IInv'
  BY <1>8, MoveAssignSameInv
<1>9. ASSUME NEW h \in Handle, NEW n \in Handle, SpawnWeak(t, h, n) PROVE IInv'
  BY <1>9, SpawnWeakInv
<1>. QED
  BY <1>1, <1>2, <1>3, <1>4, <1>5, <1>6, <1>7, <1>8, <1>9 DEF Client

LEMMA StepInv ==
  ASSUME IInv, NEW t \in Thread, Step(t)
  PROVE  IInv'
  BY DemoteLoadInv, DemoteStoreInv, DestroyUniqueUnlockInv, DestroyUniqueObjectInv,
     DestroyUniqueWeakInv, DuplicateLockInv, DuplicateAddInv, DuplicateUnlockInv,
     PromoteLockInv, PromoteStoreInv, PromoteFailInv, DestroyReadonlyLockInv,
     DestroyReadonlyStoreInv, DestroyReadonlyObjectInv, DestroyReadonlyWeakInv,
     DestroyReadonlyZeroInv, TrySpawnGiveUpInv, TrySpawnLockInv, TrySpawnStoreInv,
     DestroyWeakSubInv, DestroyWeakCheckInv, DeallocateInv
     DEF Step

LEMMA StutterInv ==
  ASSUME IInv, UNCHANGED vars
  PROVE  IInv'
<1>. USE DEF IInv, vars, words, handles, locals
<1>1. TypeOK' /\ HandleInv' /\ LocalInv' /\ BusyInv' /\ LockInv' /\ UniqueLockInv'
  BY DEF TypeOK, HandleInv, LocalInv, BusyInv, LockInv, UniqueLockInv
<1>2. PhaseInv' /\ ReclaimInv'
  BY DEF PhaseInv, ReclaimInv
<1>3. EndInv'
  BY DEF EndInv, Owners, StrongRefs, UniqueRefs
<1>4. CountsMatchHandles' /\ UniqueIsExclusive'
  BY SameCounts
<1>. QED
  BY <1>1, <1>2, <1>3, <1>4

(* The invariant holds in every reachable state: the counters, the lock    *)
(* bit, the handles and the local variables of all the functions of arc.h  *)
(* that are under way are consistent in the way that IInv says.            *)
THEOREM Inductive == Spec => []IInv
<1>1. IInv /\ [Next]_vars => IInv'
  BY ClientInv, StepInv, StutterInv DEF Next, Stop
<1>. QED
  BY InitIInv, <1>1, PTL DEF Spec

(* Every variable keeps its type, the counters, natural numbers that the   *)
(* code decrements, included: no counter underflows.                       *)
THEOREM TypeCorrect == Spec => []TypeOK
  BY Inductive, PTL DEF IInv

(* The strong count is the number of read-only handles and the weak count  *)
(* that of weak handles plus one for the strong ones.                      *)
THEOREM CountsCorrect == Spec => []CountsMatchHandles
  BY Inductive, PTL DEF IInv

(* A unique handle is the only strong handle to its payload.               *)
THEOREM UniqueCorrect == Spec => []UniqueIsExclusive
  BY Inductive, PTL DEF IInv

(* No payload is given back to the allocator while it is in use.           *)
THEOREM NoUseAfterFreeCorrect == Spec => []NoUseAfterFree
<1>1. IInv => NoUseAfterFree
  BY DEF IInv, NoUseAfterFree, HandleInv, LocalInv
<1>. QED
  BY Inductive, <1>1, PTL

(* No access to the object races with a write or with its destructor, and  *)
(* the object is alive during every access.                                *)
LEMMA AccessFacts ==
  ASSUME IInv, NEW t \in Thread, Accessing(t)
  PROVE  /\ self[t] \in Owners(pay[t]) /\ kind[self[t]] \in {"unique", "ro"}
         /\ phase[pay[t]] = "live"
         /\ Writing(t) => Owners(pay[t]) = {self[t]}
<1>1. /\ self[t] \in Handle /\ kind[self[t]] \in {"unique", "ro"} /\ ptr[self[t]] = pay[t]
      /\ pc[t] \in {"write", "ud_object"} => kind[self[t]] = "unique"
      /\ pc[t] = "rd_object" => kind[self[t]] = "ro"
  BY DEF IInv, LocalInv, Accessing, Writing, UniquePC, SharedPC
<1>2. self[t] \in Owners(pay[t])
  BY <1>1 DEF Owners, StrongRefs, UniqueRefs
<1>3. phase[pay[t]] = "live"
  <2>. SUFFICES ASSUME phase[pay[t]] # "live" PROVE FALSE
    OBVIOUS
  <2>1. PICK u \in Thread : self[u] = self[t] /\ pc[u] \in {"ud_weak", "rd_weak"}
    BY <1>1 DEF IInv, PhaseInv
  <2>. QED
    BY <2>1, <1>1, ArcAssumption DEF IInv, BusyInv, ConstPC, Accessing, Writing
<1>4. ASSUME Writing(t) PROVE Owners(pay[t]) = {self[t]}
  <2>1. CASE kind[self[t]] = "unique"
    BY <2>1, <1>1, OwnerFacts
  <2>2. CASE pc[t] = "rd_object"
    <3>1. /\ self[t] \in StrongRefs(pay[t]) /\ UniqueRefs(pay[t]) = {}
          /\ Cardinality(StrongRefs(pay[t])) = 1
      BY <2>2, <1>1, OwnerFacts DEF IInv, LockInv
    <3>. QED
      BY <3>1, SmallCounts DEF Owners
  <2>. QED
    BY <2>1, <2>2, <1>4, <1>1 DEF Writing
<1>. QED
  BY <1>1, <1>2, <1>3, <1>4

LEMMA NoDataRaceFromIInv == IInv => NoDataRace
<1>. SUFFICES ASSUME IInv, NEW t \in Thread, Accessing(t)
              PROVE  /\ phase[pay[t]] = "live"
                     /\ \A u \in Thread \ {t} :
                          Accessing(u) /\ pay[u] = pay[t] => ~Writing(t) /\ ~Writing(u)
  BY DEF NoDataRace
<1>1. phase[pay[t]] = "live"
  BY AccessFacts
<1>2. ASSUME NEW u \in Thread \ {t}, Accessing(u), pay[u] = pay[t], Writing(t) \/ Writing(u)
      PROVE  FALSE
  <2>1. self[u] = self[t] /\ self[t] \in Handle
    BY <1>2, AccessFacts DEF Owners, StrongRefs, UniqueRefs
  <2>. QED
    BY <2>1, <1>2, ArcAssumption DEF IInv, BusyInv, ConstPC, Writing
<1>. QED
  BY <1>1, <1>2

THEOREM NoDataRaceCorrect == Spec => []NoDataRace
  BY Inductive, NoDataRaceFromIInv, PTL

(* The assertions of demote_to_readonly and of the destructors of the      *)
(* strong handles never fail.                                              *)
LEMMA AssertionsFromIInv == IInv => StrongAssertionsHold
<1>. SUFFICES ASSUME IInv, NEW t \in Thread
              PROVE  /\ pc[t] \in {"dr_load", "ud_unlock"} => locked[pay[t]] /\ strong[pay[t]] = 0
                     /\ pc[t] = "rd_lock" /\ ~locked[pay[t]] => strong[pay[t]] # 0
  BY DEF StrongAssertionsHold
<1>1. ASSUME pc[t] \in {"dr_load", "ud_unlock"} PROVE locked[pay[t]] /\ strong[pay[t]] = 0
  <2>1. self[t] \in Handle /\ kind[self[t]] = "unique" /\ ptr[self[t]] = pay[t]
    BY <1>1 DEF IInv, LocalInv, UniquePC
  <2>2. strong[pay[t]] = 0
    BY <2>1, OwnerFacts
  <2>3. locked[pay[t]]
    BY <1>1, <2>1, ArcAssumption DEF IInv, UniqueLockInv, BusyInv, ConstPC
  <2>. QED
    BY <2>2, <2>3
<1>2. ASSUME pc[t] = "rd_lock" PROVE strong[pay[t]] # 0
  <2>1. self[t] \in Handle /\ kind[self[t]] = "ro" /\ ptr[self[t]] = pay[t]
    BY <1>2 DEF IInv, LocalInv, SharedPC
  <2>. QED
    BY <2>1, OwnerFacts
<1>. QED
  BY <1>1, <1>2

THEOREM AssertionsCorrect == Spec => []StrongAssertionsHold
  BY Inductive, AssertionsFromIInv, PTL

(* Memory that no handle points to and that no function works on is free.  *)
LEMMA ReclaimedFromIInv == IInv => Reclaimed
<1>. SUFFICES ASSUME IInv, NEW p \in Payload, \A h \in Handle : ptr[h] # p,
                     \A t \in Thread : pay[t] # p, phase[p] # "free"
              PROVE  FALSE
  BY DEF Reclaimed
<1>1. WeakRefs(p) = {} /\ Owners(p) = {}
  BY DEF Owners, StrongRefs, UniqueRefs, WeakRefs
<1>2. WeakExact(p)
  BY DEF IInv, CountsMatchHandles
<1>3. Cardinality(WeakRefs(p)) = 0
  BY <1>1, SmallCounts
<1>4. weak[p] = 0
  BY <1>1, <1>2, <1>3 DEF WeakExact
<1>. QED
  BY <1>4 DEF IInv, ReclaimInv

THEOREM ReclaimedCorrect == Spec => []Reclaimed
  BY Inductive, ReclaimedFromIInv, PTL

-----------------------------------------------------------------------------
(* The refinement mapping.                                                 *)

(* The handle that a thread works on exclusively is not used by another. *)
LEMMA SelfAlone ==
  ASSUME IInv, NEW t \in Thread, NEW u \in Thread, self[u] = self[t], u # t,
         pc[u] # "idle" \/ pc[t] # "idle"
  PROVE  pc[t] \in ConstPC /\ pc[u] \in ConstPC
<1>1. self[t] # Null
  BY ArcAssumption DEF IInv, LocalInv
<1>. QED
  BY <1>1 DEF IInv, BusyInv

(* A dying handle is the only owner of its payload, and the object is dead.*)
LEMMA DyingFacts ==
  ASSUME IInv, NEW h \in Handle, Dying(h)
  PROVE  /\ kind[h] \in {"unique", "ro"} /\ ptr[h] \in Payload
         /\ Owners(ptr[h]) = {h}
<1>1. PICK t \in Thread : self[t] = h /\ pc[t] \in DyingPC
  BY DEF Dying
<1>2. /\ pc[t] = "ud_weak" => kind[h] = "unique" /\ ptr[h] = pay[t]
      /\ pc[t] = "rd_weak" => kind[h] = "ro" /\ ptr[h] = pay[t]
      /\ pay[t] \in Payload
  BY <1>1 DEF IInv, LocalInv, UniquePC, SharedPC, DyingPC
<1>3. CASE kind[h] = "unique"
  BY <1>1, <1>2, <1>3, OwnerFacts DEF DyingPC
<1>4. CASE pc[t] = "rd_weak"
  <2>1. h \in StrongRefs(pay[t]) /\ UniqueRefs(pay[t]) = {} /\ Cardinality(StrongRefs(pay[t])) = 1
    BY <1>2, <1>4, OwnerFacts DEF IInv, LockInv
  <2>. QED
    BY <1>2, <1>4, <2>1, SmallCounts DEF Owners
<1>. QED
  BY <1>1, <1>2, <1>3, <1>4 DEF DyingPC

(* The object of an owner that is not dying is alive. *)
LEMMA OwnerAlive ==
  ASSUME IInv, NEW h \in Handle, kind[h] \in {"unique", "ro", "lost"}, ~Dying(h)
  PROVE  phase[ptr[h]] = "live"
  BY DEF IInv, PhaseInv, Dying, DyingPC

(* The owners that Ownership sees are those that are not dying. *)
LEMMA OwnersBar ==
  ASSUME TypeOK, NEW p \in Payload
  PROVE  Abstract!Owners(p) = {h \in Owners(p) : ~Dying(h)}
  BY ArcAssumption DEF TypeOK, Abstract!Owners, kindBar, ptrBar, Owners, StrongRefs, UniqueRefs

(* No thread other than t moves. *)
OthersRest(t) == \A u \in Thread \ {t} : pc'[u] = pc[u] /\ self'[u] = self[u]

LEMMA DyingSame ==
  ASSUME NEW t \in Thread, OthersRest(t), pc[t] \notin DyingPC, pc'[t] \notin DyingPC, NEW h
  PROVE  Dying(h)' <=> Dying(h)
  BY DEF Dying, OthersRest

(* An instruction that leaves the handles, the phases and the threads in   *)
(* the last part of a destructor as they are is a stuttering step.         *)
LEMMA BarStutter ==
  ASSUME NEW t \in Thread, OthersRest(t), pc[t] \notin DyingPC, pc'[t] \notin DyingPC,
         UNCHANGED handles
  PROVE  UNCHANGED <<kindBar, ptrBar>>
  BY DyingSame DEF kindBar, ptrBar, handles

(* A handle that is not dying changes for Ownership as it does for Arc. *)
LEMMA BarMove ==
  ASSUME TypeOK, NEW t \in Thread, OthersRest(t), pc[t] \notin DyingPC, pc'[t] \notin DyingPC,
         NEW h \in Handle, ~Dying(h), NEW k, NEW q, SetHandle(h, k, q)
  PROVE  /\ kindBar' = [kindBar EXCEPT ![h] = k]
         /\ ptrBar' = [ptrBar EXCEPT ![h] = q]
  BY DyingSame DEF kindBar, ptrBar, SetHandle, TypeOK

LEMMA BarSame ==
  ASSUME NEW h \in Handle, ~Dying(h)
  PROVE  kindBar[h] = kind[h] /\ ptrBar[h] = ptr[h]
  BY DEF kindBar, ptrBar

(* A handle in use by a thread that is not at the end of a destructor. *)
LEMMA SelfNotDying ==
  ASSUME IInv, NEW t \in Thread, pc[t] # "idle", pc[t] \notin DyingPC
  PROVE  ~Dying(self[t])
  BY SelfAlone DEF Dying, DyingPC, ConstPC

(* A handle that no thread uses. *)
LEMMA ExclusiveNotDying ==
  ASSUME NEW h, Exclusive(h) \/ Shareable(h)
  PROVE  ~Dying(h)
  BY DEF Exclusive, Shareable, Dying, DyingPC, ConstPC

(* The slot of a result. *)
LEMMA ResultNotDying ==
  ASSUME IInv, NEW t \in Thread, pc[t] \in ResultPC
  PROVE  res[t] \in Handle /\ kind[res[t]] = "none" /\ ~Dying(res[t])
<1>1. res[t] \in Handle /\ kind[res[t]] = "none"
  BY DEF IInv, LocalInv
<1>2. \A u \in Thread : self[u] # res[t]
  BY <1>1, ArcAssumption DEF IInv, BusyInv
<1>. QED
  BY <1>1, <1>2 DEF Dying
-----------------------------------------------------------------------------
(* The instructions in which an operation takes effect.                    *)

(* make::with is New. *)
LEMMA MakeRefines ==
  ASSUME IInv, NEW t \in Thread, NEW h \in Handle, NEW p \in Payload, Make(t, h, p)
  PROVE  Abstract!New(h, p)
<1>1. ~Dying(h)
  BY ExclusiveNotDying DEF Make, Unused
<1>2. OthersRest(t) /\ pc[t] \notin DyingPC /\ pc'[t] \notin DyingPC
  BY DEF Make, Idle, locals, OthersRest, DyingPC
<1>3. kindBar' = [kindBar EXCEPT ![h] = "unique"] /\ ptrBar' = [ptrBar EXCEPT ![h] = p]
  BY <1>1, <1>2, BarMove DEF IInv, Make
<1>. QED
  BY <1>1, <1>3, BarSame DEF Make, Unused, Abstract!New, Abstract!SetHandle

(* The store of demote_to_readonly is Demote. *)
LEMMA DemoteStoreRefines ==
  ASSUME IInv, NEW t \in Thread, DemoteStore(t)
  PROVE  \E h \in Handle : Abstract!Demote(h)
<1>. PICK h : h = self[t]
  OBVIOUS
<1>1. h \in Handle /\ kind[h] = "unique" /\ ptr[h] = pay[t] /\ ~Dying(h)
  BY SelfNotDying DEF DemoteStore, At, IInv, LocalInv, UniquePC, DyingPC
<1>2. OthersRest(t) /\ pc[t] \notin DyingPC /\ pc'[t] \notin DyingPC
  BY DEF DemoteStore, At, Return, OthersRest, DyingPC, IInv, TypeOK
<1>3. kindBar' = [kindBar EXCEPT ![h] = "ro"] /\ ptrBar' = [ptrBar EXCEPT ![h] = ptr[h]]
  BY <1>1, <1>2, BarMove DEF IInv, DemoteStore
<1>4. Abstract!Demote(h)
  BY <1>1, <1>3, BarSame DEF DemoteStore, Abstract!Demote, Abstract!SetHandle
<1>. QED
  BY <1>1, <1>4

(* The store of a successful promotion is Promote. *)
LEMMA PromoteStoreRefines ==
  ASSUME IInv, NEW t \in Thread, PromoteStore(t)
  PROVE  \E h \in Handle : Abstract!Promote(h)
<1>. PICK h : h = self[t]
  OBVIOUS
<1>1. /\ h \in Handle /\ kind[h] = "ro" /\ ptr[h] = pay[t] /\ ~Dying(h)
      /\ pay[t] \in Payload
  BY SelfNotDying DEF PromoteStore, At, IInv, LocalInv, SharedPC, DyingPC
<1>2. OthersRest(t) /\ pc[t] \notin DyingPC /\ pc'[t] \notin DyingPC
  BY DEF PromoteStore, At, Return, OthersRest, DyingPC, IInv, TypeOK
<1>3. kindBar' = [kindBar EXCEPT ![h] = "unique"] /\ ptrBar' = [ptrBar EXCEPT ![h] = ptr[h]]
  BY <1>1, <1>2, BarMove DEF IInv, PromoteStore
<1>4. Owners(ptr[h]) = {h}
  <2>1. h \in StrongRefs(ptr[h]) /\ UniqueRefs(ptr[h]) = {} /\ Cardinality(StrongRefs(ptr[h])) = 1
    BY <1>1, OwnerFacts DEF IInv, LockInv, PromoteStore, At
  <2>. QED
    BY <2>1, SmallCounts DEF Owners
<1>5. Abstract!Owners(ptr[h]) = {h}
  BY <1>1, <1>4, OwnersBar DEF IInv
<1>6. Abstract!Promote(h)
  BY <1>1, <1>3, <1>5, BarSame DEF PromoteStore, Abstract!Promote, Abstract!SetHandle
<1>. QED
  BY <1>1, <1>6

(* The fetch_add of duplicate is Share. *)
LEMMA DuplicateAddRefines ==
  ASSUME IInv, NEW t \in Thread, DuplicateAdd(t)
  PROVE  \E h, n \in Handle : Abstract!Share(h, n)
<1>. PICK h, n : h = self[t] /\ n = res[t]
  OBVIOUS
<1>1. /\ h \in Handle /\ kind[h] = "ro" /\ ptr[h] = pay[t] /\ ~Dying(h)
      /\ pay[t] \in Payload
  BY SelfNotDying DEF DuplicateAdd, At, IInv, LocalInv, SharedPC, DyingPC
<1>2. n \in Handle /\ kind[n] = "none" /\ ~Dying(n)
  BY ResultNotDying DEF DuplicateAdd, At, ResultPC
<1>3. OthersRest(t) /\ pc[t] \notin DyingPC /\ pc'[t] \notin DyingPC
  BY DEF DuplicateAdd, At, Goto, OthersRest, DyingPC, IInv, TypeOK
<1>4. kindBar' = [kindBar EXCEPT ![n] = "ro"] /\ ptrBar' = [ptrBar EXCEPT ![n] = ptr[h]]
  BY <1>1, <1>2, <1>3, BarMove DEF IInv, DuplicateAdd
<1>5. phase[ptr[h]] = "live"
  BY <1>1, OwnerAlive
<1>6. \A o \in Abstract!Owners(ptr[h]) : kindBar[o] # "unique"
  BY <1>1, OwnersBar, OwnerFacts, BarSame DEF IInv, Owners, StrongRefs
<1>7. Abstract!Share(h, n)
  BY <1>1, <1>2, <1>4, <1>5, <1>6, BarSame DEF DuplicateAdd, Abstract!Share, Abstract!SetHandle
<1>. QED
  BY <1>1, <1>2, <1>7

(* The store of a successful upgrade is Share. *)
LEMMA UpgradeFacts ==
  ASSUME IInv, NEW t \in Thread, pc[t] = "ts_store", old[t] # 0
  PROVE  phase[pay[t]] = "live" /\ UniqueRefs(pay[t]) = {}
<1>1. /\ strong[pay[t]] # 0 /\ pay[t] \in Payload /\ phase[pay[t]] # "free"
      /\ self[t] \in Handle /\ kind[self[t]] = "weak" /\ ptr[self[t]] = pay[t]
  BY DEF IInv, LockInv, LocalInv, WeakPC
<1>2. \A u \in Thread : pay[u] = pay[t] => pc[u] \notin LastPC \cup {"rd_zero", "rd_weak"}
  BY <1>1, HandleFacts DEF IInv, LockInv, HoldPC
<1>3. strong[pay[t]] = Cardinality(StrongRefs(pay[t]))
  BY <1>1, <1>2 DEF IInv, CountsMatchHandles, StrongExact, LastPC
<1>4. PICK s \in StrongRefs(pay[t]) : TRUE
  BY <1>1, <1>3, SmallCounts
<1>5. s \in Handle /\ kind[s] \in {"ro", "lost"} /\ ptr[s] = pay[t]
  BY <1>4 DEF StrongRefs
<1>6. UniqueRefs(pay[t]) = {}
  BY <1>5, OwnerFacts
<1>7. \A u \in Thread : self[u] = s => pc[u] \notin DyingPC
  BY <1>2, <1>5 DEF IInv, LocalInv, UniquePC, SharedPC, DyingPC
<1>. QED
  BY <1>5, <1>6, <1>7, OwnerAlive DEF Dying

LEMMA TrySpawnStoreRefines ==
  ASSUME IInv, NEW t \in Thread, TrySpawnStore(t)
  PROVE  \/ \E h, n \in Handle : Abstract!Share(h, n)
         \/ UNCHANGED <<kindBar, ptrBar, phase>>
<1>1. OthersRest(t) /\ pc[t] \notin DyingPC /\ pc'[t] \notin DyingPC
  BY DEF TrySpawnStore, At, Return, OthersRest, DyingPC, IInv, TypeOK
<1>2. CASE UNCHANGED handles
  BY <1>1, <1>2, BarStutter DEF TrySpawnStore
<1>3. CASE old[t] # 0 /\ SetHandle(res[t], "ro", pay[t])
  <2>. PICK h, n : h = self[t] /\ n = res[t]
    OBVIOUS
  <2>1. h \in Handle /\ kind[h] = "weak" /\ ptr[h] = pay[t] /\ ~Dying(h) /\ pay[t] \in Payload
    BY SelfNotDying DEF TrySpawnStore, At, IInv, LocalInv, WeakPC, DyingPC
  <2>2. n \in Handle /\ kind[n] = "none" /\ ~Dying(n)
    BY ResultNotDying DEF TrySpawnStore, At, ResultPC
  <2>3. kindBar' = [kindBar EXCEPT ![n] = "ro"] /\ ptrBar' = [ptrBar EXCEPT ![n] = ptr[h]]
    BY <1>1, <1>3, <2>1, <2>2, BarMove DEF IInv
  <2>4. phase[ptr[h]] = "live" /\ UniqueRefs(ptr[h]) = {}
    BY <1>3, <2>1, UpgradeFacts DEF TrySpawnStore, At
  <2>5. \A o \in Abstract!Owners(ptr[h]) : kindBar[o] # "unique"
    BY <2>1, <2>4, OwnersBar, BarSame DEF IInv, Owners, StrongRefs
  <2>6. Abstract!Share(h, n)
    BY <2>1, <2>2, <2>3, <2>4, <2>5, BarSame DEF TrySpawnStore, Abstract!Share, Abstract!SetHandle
  <2>. QED
    BY <2>1, <2>2, <2>6
<1>. QED
  BY <1>2, <1>3 DEF TrySpawnStore

(* The fetch_add of spawn_weak_arc and of demote_to_weak is Weaken. *)
LEMMA SpawnWeakRefines ==
  ASSUME IInv, NEW t \in Thread, NEW h \in Handle, NEW n \in Handle, SpawnWeak(t, h, n)
  PROVE  Abstract!Weaken(h, n)
<1>1. ~Dying(h) /\ ~Dying(n)
  BY ExclusiveNotDying DEF SpawnWeak, Unused
<1>2. OthersRest(t) /\ pc[t] \notin DyingPC /\ pc'[t] \notin DyingPC
  BY DEF SpawnWeak, Idle, locals, OthersRest, DyingPC
<1>3. kindBar' = [kindBar EXCEPT ![n] = "weak"] /\ ptrBar' = [ptrBar EXCEPT ![n] = ptr[h]]
  BY <1>1, <1>2, BarMove DEF IInv, SpawnWeak
<1>. QED
  BY <1>1, <1>3, BarSame DEF SpawnWeak, Unused, Abstract!Weaken, Abstract!SetHandle

LEMMA CallDemoteToWeakRefines ==
  ASSUME IInv, NEW t \in Thread, NEW h \in Handle, NEW n \in Handle, CallDemoteToWeak(t, h, n)
  PROVE  Abstract!Weaken(h, n)
<1>1. ~Dying(h) /\ ~Dying(n)
  BY ExclusiveNotDying DEF CallDemoteToWeak, Unused
<1>2. OthersRest(t) /\ pc[t] \notin DyingPC /\ pc'[t] \notin DyingPC
  BY DEF CallDemoteToWeak, Idle, Call, OthersRest, DyingPC, IInv, TypeOK
<1>3. kindBar' = [kindBar EXCEPT ![n] = "weak"] /\ ptrBar' = [ptrBar EXCEPT ![n] = ptr[h]]
  BY <1>1, <1>2, BarMove DEF IInv, CallDemoteToWeak
<1>. QED
  BY <1>1, <1>3, BarSame DEF CallDemoteToWeak, Unused, Abstract!Weaken, Abstract!SetHandle

(* The assignment between two handles to one payload is Forget. *)
LEMMA MoveAssignSameRefines ==
  ASSUME IInv, NEW t \in Thread, NEW h \in Handle, NEW n \in Handle, MoveAssignSame(t, h, n)
  PROVE  Abstract!Forget(n)
<1>1. ~Dying(n)
  BY ExclusiveNotDying DEF MoveAssignSame
<1>2. OthersRest(t) /\ pc[t] \notin DyingPC /\ pc'[t] \notin DyingPC
  BY DEF MoveAssignSame, Idle, locals, OthersRest, DyingPC
<1>3. kindBar' = [kindBar EXCEPT ![n] = "lost"] /\ ptrBar' = [ptrBar EXCEPT ![n] = ptr[n]]
  BY <1>1, <1>2, BarMove DEF IInv, MoveAssignSame
<1>. QED
  BY <1>1, <1>3, BarSame DEF MoveAssignSame, words, Abstract!Forget, Abstract!SetHandle
-----------------------------------------------------------------------------
(* The destructors.                                                        *)

(* The destruction of the object is the Drop of the last owner. *)
LEMMA DestroyObjectRefines ==
  ASSUME IInv, NEW t \in Thread, DestroyUniqueObject(t) \/ DestroyReadonlyObject(t)
  PROVE  \E h \in Handle : Abstract!Drop(h)
<1>. PICK h, p : h = self[t] /\ p = pay[t]
  OBVIOUS
<1>1. /\ h \in Handle /\ kind[h] \in {"unique", "ro"} /\ ptr[h] = p /\ p \in Payload
      /\ ~Dying(h) /\ pc[t] \in {"ud_object", "rd_object"}
  BY SelfNotDying DEF DestroyUniqueObject, DestroyReadonlyObject, At, IInv, LocalInv,
                      UniquePC, SharedPC, DyingPC
<1>2. Owners(p) = {h}
  BY <1>1, AccessFacts DEF Accessing, Writing
<1>3. OthersRest(t) /\ pc[t] \notin DyingPC /\ pc'[t] \in DyingPC /\ self'[t] = h
  BY <1>1 DEF DestroyUniqueObject, DestroyReadonlyObject, At, Goto, OthersRest, DyingPC, IInv, TypeOK
<1>4. \A g \in Handle : Dying(g)' <=> Dying(g) \/ g = h
  BY <1>3 DEF Dying, OthersRest
<1>5. UNCHANGED handles /\ phase' = [phase EXCEPT ![p] = "dead"]
  BY DEF DestroyUniqueObject, DestroyReadonlyObject
<1>6. kindBar' = [kindBar EXCEPT ![h] = "none"] /\ ptrBar' = [ptrBar EXCEPT ![h] = Null]
  BY <1>1, <1>4, <1>5 DEF kindBar, ptrBar, handles
<1>7. Abstract!Owners(p) = {h}
  BY <1>1, <1>2, OwnersBar DEF IInv
<1>8. Abstract!Drop(h)
  BY <1>1, <1>5, <1>6, <1>7, BarSame DEF Abstract!Drop, Abstract!SetHandle
<1>. QED
  BY <1>1, <1>8

(* What comes after it in the destructor is not seen. *)
LEMMA DestroyWeakUnitRefines ==
  ASSUME IInv, NEW t \in Thread, DestroyUniqueWeak(t) \/ DestroyReadonlyWeak(t)
  PROVE  UNCHANGED <<kindBar, ptrBar, phase>>
<1>. PICK h : h = self[t]
  OBVIOUS
<1>1. h \in Handle /\ pc[t] \in DyingPC
  BY DEF DestroyUniqueWeak, DestroyReadonlyWeak, At, IInv, LocalInv, UniquePC, SharedPC, DyingPC
<1>2. OthersRest(t) /\ pc'[t] \notin DyingPC
  BY DEF DestroyUniqueWeak, DestroyReadonlyWeak, Goto, Return, OthersRest, DyingPC, IInv, TypeOK
<1>3. SetHandle(h, "none", Null) /\ UNCHANGED phase
  BY DEF DestroyUniqueWeak, DestroyReadonlyWeak
<1>4. Dying(h) /\ \A g \in Handle \ {h} : Dying(g)' <=> Dying(g)
  BY <1>1, <1>2 DEF Dying, OthersRest
<1>5. ASSUME NEW g \in Handle
      PROVE  /\ (IF Dying(g) THEN "none" ELSE kind[g])' = (IF Dying(g) THEN "none" ELSE kind[g])
             /\ (IF Dying(g) THEN Null ELSE ptr[g])' = (IF Dying(g) THEN Null ELSE ptr[g])
  BY <1>3, <1>4 DEF SetHandle, IInv, TypeOK
<1>. QED
  BY <1>3, <1>5 DEF kindBar, ptrBar

(* The store that ends the destructor of one of several sharers is Drop. *)
LEMMA DestroyReadonlyStoreRefines ==
  ASSUME IInv, NEW t \in Thread, DestroyReadonlyStore(t)
  PROVE  \E h \in Handle : Abstract!Drop(h)
<1>. PICK h, p : h = self[t] /\ p = pay[t]
  OBVIOUS
<1>1. /\ h \in Handle /\ kind[h] = "ro" /\ ptr[h] = p /\ p \in Payload /\ ~Dying(h)
      /\ strong[p] # 1
  BY SelfNotDying DEF DestroyReadonlyStore, At, IInv, LocalInv, LockInv, SharedPC, DyingPC
<1>2. OthersRest(t) /\ pc[t] \notin DyingPC /\ pc'[t] \notin DyingPC
  BY DEF DestroyReadonlyStore, At, Return, OthersRest, DyingPC, IInv, TypeOK
<1>3. kindBar' = [kindBar EXCEPT ![h] = "none"] /\ ptrBar' = [ptrBar EXCEPT ![h] = Null]
  BY <1>1, <1>2, BarMove DEF IInv, DestroyReadonlyStore
<1>4. h \in StrongRefs(p) /\ StrongRefs(p) # {h}
  BY <1>1, OwnerFacts, SmallCounts
<1>5. PICK g \in StrongRefs(p) : g # h
  BY <1>4
<1>6. g \in Handle /\ ptr[g] = p /\ g \in Owners(p) /\ h \in Owners(p)
  BY <1>4, <1>5 DEF Owners, StrongRefs
<1>7. g \in Abstract!Owners(p)
  BY <1>1, <1>5, <1>6, DyingFacts, OwnersBar DEF IInv
<1>8. Abstract!Owners(p) # {h}
  BY <1>5, <1>7
<1>9. Abstract!Drop(h)
  BY <1>1, <1>3, <1>8, BarSame DEF DestroyReadonlyStore, Abstract!Drop, Abstract!SetHandle
<1>. QED
  BY <1>1, <1>9

(* The fetch_sub of the destructor of a weak handle is Drop. *)
LEMMA DestroyWeakSubRefines ==
  ASSUME IInv, NEW t \in Thread, DestroyWeakSub(t)
  PROVE  \E h \in Handle : Abstract!Drop(h)
<1>. PICK h, p : h = self[t] /\ p = pay[t]
  OBVIOUS
<1>1. h \in Handle /\ kind[h] = "weak" /\ ptr[h] = p /\ p \in Payload /\ ~Dying(h)
  BY SelfNotDying DEF DestroyWeakSub, At, IInv, LocalInv, WeakPC, DyingPC
<1>2. OthersRest(t) /\ pc[t] \notin DyingPC /\ pc'[t] \notin DyingPC
  BY DEF DestroyWeakSub, At, Goto, Return, OthersRest, DyingPC, IInv, TypeOK
<1>3. kindBar' = [kindBar EXCEPT ![h] = "none"] /\ ptrBar' = [ptrBar EXCEPT ![h] = Null]
  BY <1>1, <1>2, BarMove DEF IInv, DestroyWeakSub
<1>4. h \notin Abstract!Owners(p)
  BY <1>1, OwnersBar DEF IInv, Owners, StrongRefs, UniqueRefs
<1>5. Abstract!Drop(h)
  BY <1>1, <1>3, <1>4, BarSame DEF DestroyWeakSub, Abstract!Drop, Abstract!SetHandle
<1>. QED
  BY <1>1, <1>5

(* A payload that is being given back has no handle and a dead object. *)
LEMMA LastFacts ==
  ASSUME IInv, LiveInv, NEW t \in Thread, pc[t] \in LastPC
  PROVE  /\ pay[t] \in Payload /\ phase[pay[t]] = "dead"
         /\ \A h \in Handle : ptr[h] # pay[t]
<1>1. pay[t] \in Payload /\ phase[pay[t]] # "free" /\ weak[pay[t]] = 0
  BY DEF IInv, LocalInv, EndInv, LastPC
<1>2. \A h \in Handle : ptr[h] # pay[t]
  BY <1>1, HandleFacts, ArcAssumption DEF IInv, HandleInv
<1>3. Abstract!Owners(pay[t]) = {}
  BY <1>1, <1>2, OwnersBar DEF IInv, Owners, StrongRefs, UniqueRefs
<1>. QED
  BY <1>1, <1>2, <1>3 DEF LiveInv, IInv, TypeOK

(* The deallocation is Reclaim. *)
LEMMA DeallocateRefines ==
  ASSUME IInv, LiveInv, NEW t \in Thread, Deallocate(t)
  PROVE  \E p \in Payload : Abstract!Reclaim(p)
<1>. PICK p : p = pay[t]
  OBVIOUS
<1>1. p \in Payload /\ phase[p] = "dead" /\ \A h \in Handle : ptr[h] # p
  BY LastFacts DEF Deallocate, At, LastPC
<1>2. \A h \in Handle : ptrBar[h] # p
  BY <1>1, ArcAssumption DEF ptrBar
<1>3. OthersRest(t) /\ pc[t] \notin DyingPC /\ pc'[t] \notin DyingPC
  BY DEF Deallocate, At, Return, OthersRest, DyingPC, IInv, TypeOK
<1>4. UNCHANGED <<kindBar, ptrBar>>
  BY <1>3, BarStutter DEF Deallocate
<1>5. Abstract!Reclaim(p)
  BY <1>1, <1>2, <1>4 DEF Deallocate, Abstract!Reclaim
<1>. QED
  BY <1>1, <1>5
-----------------------------------------------------------------------------
(* Any step.                                                               *)

(* The other instructions are not seen. *)
LEMMA CallRefines ==
  ASSUME IInv, NEW t \in Thread, NEW l \in EntryPC, NEW h, NEW r, Idle(t),
         Call(t, l, h, r), UNCHANGED <<words, handles>>
  PROVE  UNCHANGED <<kindBar, ptrBar, phase>>
<1>1. OthersRest(t) /\ pc[t] \notin DyingPC /\ pc'[t] \notin DyingPC
  BY DEF Idle, Call, OthersRest, EntryPC, DyingPC, IInv, TypeOK
<1>. QED
  BY <1>1, BarStutter DEF words

Quiet(t) ==
  \/ EndAccess(t)
  \/ DemoteLoad(t)    \/ DestroyUniqueUnlock(t)
  \/ DuplicateLock(t) \/ DuplicateUnlock(t)
  \/ PromoteLock(t)   \/ PromoteFail(t)
  \/ DestroyReadonlyLock(t) \/ DestroyReadonlyZero(t)
  \/ TrySpawnGiveUp(t) \/ TrySpawnLock(t)
  \/ DestroyWeakCheck(t)

LEMMA QuietRefines ==
  ASSUME IInv, NEW t \in Thread, Quiet(t)
  PROVE  UNCHANGED <<kindBar, ptrBar, phase>>
<1>1. OthersRest(t) /\ pc[t] \notin DyingPC /\ pc'[t] \notin DyingPC
  BY DEF Quiet, EndAccess, DemoteLoad, DestroyUniqueUnlock, DuplicateLock, DuplicateUnlock,
         PromoteLock, PromoteFail, DestroyReadonlyLock, DestroyReadonlyZero, TrySpawnGiveUp,
         TrySpawnLock, DestroyWeakCheck, At, Goto, Return, Acquire, OthersRest, DyingPC,
         IInv, TypeOK
<1>2. UNCHANGED handles /\ UNCHANGED phase
  BY DEF Quiet, EndAccess, DemoteLoad, DestroyUniqueUnlock, DuplicateLock, DuplicateUnlock,
         PromoteLock, PromoteFail, DestroyReadonlyLock, DestroyReadonlyZero, TrySpawnGiveUp,
         TrySpawnLock, DestroyWeakCheck, words
<1>. QED
  BY <1>1, <1>2, BarStutter

LEMMA ClientRefines ==
  ASSUME IInv, NEW t \in Thread, Client(t)
  PROVE  Abstract!Next \/ UNCHANGED <<kindBar, ptrBar, phase>>
<1>1. CASE EndAccess(t)
  BY <1>1, QuietRefines DEF Quiet
<1>2. ASSUME NEW h \in Handle, NEW p \in Payload, Make(t, h, p) PROVE Abstract!Next
  BY <1>2, MakeRefines DEF Abstract!Next
<1>3. ASSUME NEW h \in Handle,
             CallDemote(t, h) \/ BeginWrite(t, h) \/ CallPromote(t, h) \/ BeginRead(t, h)
      PROVE  UNCHANGED <<kindBar, ptrBar, phase>>
  BY <1>3, CallRefines DEF CallDemote, BeginWrite, CallPromote, BeginRead, EntryPC
<1>4. ASSUME NEW h \in Handle, NEW r \in Handle \cup {Null},
             \/ CallDestroyUnique(t, h, r)
             \/ CallDestroyReadonly(t, h, r)
             \/ CallDestroyWeak(t, h, r)
      PROVE  UNCHANGED <<kindBar, ptrBar, phase>>
  BY <1>4, CallRefines DEF CallDestroyUnique, CallDestroyReadonly, CallDestroyWeak, EntryPC
<1>5. ASSUME NEW h \in Handle, NEW n \in Handle, CallDuplicate(t, h, n) \/ CallTrySpawn(t, h, n)
      PROVE  UNCHANGED <<kindBar, ptrBar, phase>>
  BY <1>5, CallRefines DEF CallDuplicate, CallTrySpawn, EntryPC
<1>6. ASSUME NEW h \in Handle, NEW n \in Handle,
             CallDemoteToWeak(t, h, n) \/ MoveAssignSame(t, h, n) \/ SpawnWeak(t, h, n)
      PROVE  Abstract!Next
  BY <1>6, CallDemoteToWeakRefines, MoveAssignSameRefines, SpawnWeakRefines DEF Abstract!Next
<1>. QED
  BY <1>1, <1>2, <1>3, <1>4, <1>5, <1>6 DEF Client

LEMMA StepRefines ==
  ASSUME IInv, LiveInv, NEW t \in Thread, Step(t)
  PROVE  Abstract!Next \/ UNCHANGED <<kindBar, ptrBar, phase>>
<1>1. CASE Quiet(t)
  BY <1>1, QuietRefines
<1>2. CASE DemoteStore(t) \/ PromoteStore(t) \/ DuplicateAdd(t)
  BY <1>2, DemoteStoreRefines, PromoteStoreRefines, DuplicateAddRefines DEF Abstract!Next
<1>3. CASE TrySpawnStore(t)
  BY <1>3, TrySpawnStoreRefines DEF Abstract!Next
<1>4. CASE DestroyUniqueObject(t) \/ DestroyReadonlyObject(t)
  BY <1>4, DestroyObjectRefines DEF Abstract!Next
<1>5. CASE DestroyReadonlyStore(t) \/ DestroyWeakSub(t)
  BY <1>5, DestroyReadonlyStoreRefines, DestroyWeakSubRefines DEF Abstract!Next
<1>6. CASE DestroyUniqueWeak(t) \/ DestroyReadonlyWeak(t)
  BY <1>6, DestroyWeakUnitRefines
<1>7. CASE Deallocate(t)
  BY <1>7, DeallocateRefines DEF Abstract!Next
<1>. QED
  BY <1>1, <1>2, <1>3, <1>4, <1>5, <1>6, <1>7 DEF Step, Quiet

LEMMA NextRefines ==
  ASSUME FullInv, [Next]_vars
  PROVE  [Abstract!Next]_(Abstract!vars)
<1>1. ASSUME UNCHANGED vars PROVE UNCHANGED <<kindBar, ptrBar, phase>>
  BY <1>1 DEF vars, words, handles, locals, kindBar, ptrBar, Dying
<1>. QED
  BY <1>1, ClientRefines, StepRefines DEF FullInv, Next, Stop, Abstract!vars

(* A step of Ownership leaves a live object with an owner. *)
LEMMA LiveInvStep ==
  ASSUME TypeOK, LiveInv, [Abstract!Next]_(Abstract!vars)
  PROVE  LiveInv'
<1>. SUFFICES ASSUME NEW p \in Payload, phase'[p] = "live" PROVE Abstract!Owners(p)' # {}
  BY DEF LiveInv
<1>. USE DEF Abstract!Owners, Abstract!SetHandle
<1>0. DOMAIN kindBar = Handle /\ DOMAIN ptrBar = Handle /\ DOMAIN phase = Payload
  BY DEF kindBar, ptrBar, TypeOK
<1>1. CASE UNCHANGED Abstract!vars
  BY <1>1 DEF Abstract!vars, LiveInv
<1>2. ASSUME NEW h \in Handle, Abstract!New(h, p) PROVE Abstract!Owners(p)' # {}
  BY <1>0, <1>2 DEF Abstract!New
<1>3. ASSUME phase[p] = "live", Abstract!Next PROVE Abstract!Owners(p)' # {}
  <2>. PICK g \in Abstract!Owners(p) : TRUE
    BY <1>3 DEF LiveInv
  <2>1. ASSUME NEW h \in Handle, NEW o \in Payload, Abstract!New(h, o) PROVE g \in Abstract!Owners(p)'
    BY <1>0, <2>1 DEF Abstract!New
  <2>2. ASSUME NEW h \in Handle, NEW n \in Handle, Abstract!Share(h, n) \/ Abstract!Weaken(h, n)
        PROVE  g \in Abstract!Owners(p)'
    BY <1>0, <2>2 DEF Abstract!Share, Abstract!Weaken
  <2>3. ASSUME NEW h \in Handle, Abstract!Demote(h) \/ Abstract!Promote(h) \/ Abstract!Forget(h)
        PROVE  g \in Abstract!Owners(p)'
    BY <1>0, <2>3 DEF Abstract!Demote, Abstract!Promote, Abstract!Forget
  <2>4. ASSUME NEW h \in Handle, Abstract!Drop(h) PROVE Abstract!Owners(p)' # {}
    <3>1. CASE ptrBar[h] = p
      <4>1. Abstract!Owners(p) # {h}
        BY <1>0, <2>4, <3>1, <1>3 DEF Abstract!Drop
      <4>2. PICK f \in Abstract!Owners(p) : f # h
        BY <4>1
      <4>3. f \in Abstract!Owners(p)'
        BY <1>0, <2>4, <4>2 DEF Abstract!Drop
      <4>. QED
        BY <4>3
    <3>2. CASE ptrBar[h] # p
      BY <1>0, <2>4, <3>2 DEF Abstract!Drop
    <3>. QED
      BY <3>1, <3>2
  <2>5. ASSUME NEW o \in Payload, Abstract!Reclaim(o) PROVE g \in Abstract!Owners(p)'
    BY <2>5 DEF Abstract!Reclaim
  <2>. QED
    BY <1>3, <2>1, <2>2, <2>3, <2>4, <2>5 DEF Abstract!Next
<1>4. CASE phase[p] # "live" /\ Abstract!Next
  <2>1. PICK h \in Handle : Abstract!New(h, p)
    BY <1>0, <1>4 DEF Abstract!Next, Abstract!New, Abstract!Share, Abstract!Weaken, Abstract!Demote,
                Abstract!Promote, Abstract!Drop, Abstract!Forget, Abstract!Reclaim
  <2>. QED
    BY <1>2, <2>1
<1>. QED
  BY <1>1, <1>3, <1>4

(* The invariant of Arc, with the fact that a live object has an owner,    *)
(* holds in every reachable state.                                         *)
THEOREM FullInductive == Spec => []FullInv
<1>1. Init => FullInv
  <2>1. Init => LiveInv
    BY DEF Init, LiveInv
  <2>. QED
    BY <2>1, InitIInv DEF FullInv
<1>2. FullInv /\ [Next]_vars => FullInv'
  BY ClientInv, StepInv, StutterInv, NextRefines, LiveInvStep DEF FullInv, Next, Stop, IInv
<1>. QED
  BY <1>1, <1>2, PTL DEF Spec

(* Every behaviour of the atomic instructions of arc.h, whatever the       *)
(* threads interleave, is a behaviour of Ownership.                        *)
THEOREM RefinementCorrect == Spec => ImplementsOwnership
<1>1. Init => Abstract!Init
  BY DEF Init, Abstract!Init, kindBar, ptrBar, Dying, DyingPC
<1>2. FullInv /\ [Next]_vars => [Abstract!Next]_(Abstract!vars)
  BY NextRefines
<1>. QED
  BY <1>1, <1>2, FullInductive, PTL DEF Spec, Abstract!Spec, ImplementsOwnership
-----------------------------------------------------------------------------
(* What no step may do.                                                    *)

NoNewOwner ==
  \A p \in Payload : phase[p] = "dead" => phase'[p] \in {"dead", "free"} /\ Owners(p)' \subseteq Owners(p)

(* A handle that does not come to own a dead object changes nothing for it.*)
LEMMA NoNewOwnerByHandle ==
  ASSUME TypeOK, NEW h \in Handle, NEW k, NEW q, SetHandle(h, k, q),
         k \in {"unique", "ro", "lost"} => h \in Owners(q) \/ phase[q] # "dead",
         \A p \in Payload : phase[p] = "dead" => phase'[p] = "dead"
  PROVE  NoNewOwner
<1>. SUFFICES ASSUME NEW p \in Payload, phase[p] = "dead", NEW g \in Owners(p)'
              PROVE  g \in Owners(p)
  BY DEF NoNewOwner
<1>1. g \in Handle /\ ptr'[g] = p /\ kind'[g] \in {"unique", "ro", "lost"}
  BY DEF Owners, StrongRefs, UniqueRefs
<1>2. CASE g = h
  BY <1>1, <1>2 DEF SetHandle, TypeOK
<1>3. CASE g # h
  BY <1>1, <1>3 DEF SetHandle, TypeOK, Owners, StrongRefs, UniqueRefs
<1>. QED
  BY <1>2, <1>3

LEMMA NoNewOwnerQuiet ==
  ASSUME UNCHANGED handles, \A p \in Payload : phase[p] = "dead" => phase'[p] \in {"dead", "free"}
  PROVE  NoNewOwner
  BY DEF NoNewOwner, handles, Owners, StrongRefs, UniqueRefs

LEMMA NoNewOwnerClient ==
  ASSUME IInv, NEW t \in Thread, Client(t)
  PROVE  NoNewOwner
<1>0. TypeOK
  BY DEF IInv
<1>1. CASE EndAccess(t)
  BY <1>1, NoNewOwnerQuiet DEF EndAccess, words
<1>2. ASSUME NEW h \in Handle, NEW p \in Payload, Make(t, h, p) PROVE NoNewOwner
  BY <1>0, <1>2, NoNewOwnerByHandle DEF Make, TypeOK
<1>3. ASSUME NEW h \in Handle,
             CallDemote(t, h) \/ BeginWrite(t, h) \/ CallPromote(t, h) \/ BeginRead(t, h)
      PROVE  NoNewOwner
  BY <1>3, NoNewOwnerQuiet DEF CallDemote, BeginWrite, CallPromote, BeginRead, words
<1>4. ASSUME NEW h \in Handle, NEW r \in Handle \cup {Null},
             \/ CallDestroyUnique(t, h, r)
             \/ CallDestroyReadonly(t, h, r)
             \/ CallDestroyWeak(t, h, r)
      PROVE  NoNewOwner
  BY <1>4, NoNewOwnerQuiet DEF CallDestroyUnique, CallDestroyReadonly, CallDestroyWeak, words
<1>5. ASSUME NEW h \in Handle, NEW n \in Handle, CallDuplicate(t, h, n) \/ CallTrySpawn(t, h, n)
      PROVE  NoNewOwner
  BY <1>5, NoNewOwnerQuiet DEF CallDuplicate, CallTrySpawn, words
<1>6. ASSUME NEW h \in Handle, NEW n \in Handle, CallDemoteToWeak(t, h, n) \/ SpawnWeak(t, h, n)
      PROVE  NoNewOwner
  BY <1>0, <1>6, NoNewOwnerByHandle DEF CallDemoteToWeak, SpawnWeak
<1>7. ASSUME NEW h \in Handle, NEW n \in Handle, MoveAssignSame(t, h, n)
      PROVE  NoNewOwner
  <2>1. n \in Owners(ptr[n])
    BY <1>7 DEF MoveAssignSame, Owners, StrongRefs
  <2>. QED
    BY <1>0, <1>7, <2>1, NoNewOwnerByHandle DEF MoveAssignSame, words
<1>. QED
  BY <1>1, <1>2, <1>3, <1>4, <1>5, <1>6, <1>7 DEF Client

LEMMA NoNewOwnerStep ==
  ASSUME IInv, NEW t \in Thread, Step(t)
  PROVE  NoNewOwner
<1>0. TypeOK
  BY DEF IInv
<1>1. CASE Quiet(t)
  <2>1. UNCHANGED handles /\ UNCHANGED phase
    BY <1>1 DEF Quiet, EndAccess, DemoteLoad, DestroyUniqueUnlock, DuplicateLock, DuplicateUnlock,
           PromoteLock, PromoteFail, DestroyReadonlyLock, DestroyReadonlyZero, TrySpawnGiveUp,
           TrySpawnLock, DestroyWeakCheck, words
  <2>. QED
    BY <2>1, NoNewOwnerQuiet
<1>2. CASE DemoteStore(t) \/ PromoteStore(t)
  <2>1. self[t] \in Handle /\ self[t] \in Owners(pay[t])
    BY <1>2 DEF DemoteStore, PromoteStore, At, IInv, LocalInv, UniquePC, SharedPC,
                Owners, StrongRefs, UniqueRefs
  <2>. QED
    BY <1>0, <1>2, <2>1, NoNewOwnerByHandle DEF DemoteStore, PromoteStore
<1>3. CASE DuplicateAdd(t)
  <2>1. /\ self[t] \in Handle /\ kind[self[t]] = "ro" /\ ptr[self[t]] = pay[t]
        /\ ~Dying(self[t]) /\ res[t] \in Handle
    BY <1>3, SelfNotDying, ResultNotDying
       DEF DuplicateAdd, At, IInv, LocalInv, SharedPC, ResultPC, DyingPC
  <2>2. phase[pay[t]] = "live"
    BY <2>1, OwnerAlive
  <2>. QED
    BY <1>0, <1>3, <2>1, <2>2, NoNewOwnerByHandle DEF DuplicateAdd
<1>4. CASE TrySpawnStore(t)
  <2>1. CASE UNCHANGED handles
    BY <1>4, <2>1, NoNewOwnerQuiet DEF TrySpawnStore
  <2>2. CASE old[t] # 0 /\ SetHandle(res[t], "ro", pay[t])
    <3>1. phase[pay[t]] = "live" /\ res[t] \in Handle
      BY <1>4, <2>2, UpgradeFacts, ResultNotDying DEF TrySpawnStore, At, ResultPC
    <3>. QED
      BY <1>0, <1>4, <2>2, <3>1, NoNewOwnerByHandle DEF TrySpawnStore
  <2>. QED
    BY <1>4, <2>1, <2>2 DEF TrySpawnStore
<1>5. CASE DestroyUniqueObject(t) \/ DestroyReadonlyObject(t) \/ Deallocate(t)
  <2>1. \A p \in Payload : phase[p] = "dead" => phase'[p] \in {"dead", "free"}
    BY <1>0, <1>5 DEF DestroyUniqueObject, DestroyReadonlyObject, Deallocate, TypeOK
  <2>. QED
    BY <1>5, <2>1, NoNewOwnerQuiet DEF DestroyUniqueObject, DestroyReadonlyObject, Deallocate
<1>6. CASE DestroyReadonlyStore(t) \/ DestroyWeakSub(t) \/ DestroyUniqueWeak(t) \/ DestroyReadonlyWeak(t)
  <2>1. self[t] \in Handle
    BY <1>6 DEF DestroyReadonlyStore, DestroyWeakSub, DestroyUniqueWeak, DestroyReadonlyWeak,
                At, IInv, LocalInv
  <2>2. SetHandle(self[t], "none", Null) /\ UNCHANGED phase
    BY <1>6 DEF DestroyReadonlyStore, DestroyWeakSub, DestroyUniqueWeak, DestroyReadonlyWeak
  <2>. QED
    BY <1>0, <2>1, <2>2, NoNewOwnerByHandle
<1>. QED
  BY <1>1, <1>2, <1>3, <1>4, <1>5, <1>6 DEF Step, Quiet

(* A destroyed object stays destroyed and gets no owner, whatever weak     *)
(* handles and upgrades race with its destructor.                          *)
THEOREM NoResurrectionCorrect == Spec => NoResurrection
<1>1. ASSUME IInv, [Next]_vars
      PROVE  [\A p \in Payload : phase[p] = "dead" =>
                /\ phase'[p] \in {"dead", "free"}
                /\ Owners(p)' \subseteq Owners(p)]_vars
  <2>1. NoNewOwner \/ UNCHANGED vars
    BY <1>1, NoNewOwnerClient, NoNewOwnerStep DEF Next, Stop
  <2>. QED
    BY <2>1 DEF NoNewOwner
<1>. QED
  BY <1>1, Inductive, PTL DEF Spec, NoResurrection

(* A lock attempt of a promotion or of an upgrade fails for a reason.      *)
LEMMA PromoteFailure ==
  ASSUME IInv, NEW t \in Thread, pc[t] = "rp_lock", strong[pay[t]] # 1
  PROVE  \E h \in StrongRefs(pay[t]) : h # self[t]
<1>1. self[t] \in Handle /\ kind[self[t]] = "ro" /\ ptr[self[t]] = pay[t]
  BY DEF IInv, LocalInv, SharedPC
<1>2. self[t] \in StrongRefs(pay[t]) /\ strong[pay[t]] = Cardinality(StrongRefs(pay[t]))
  BY <1>1, OwnerFacts
<1>. QED
  BY <1>2, SmallCounts

LEMMA UpgradeFailure ==
  ASSUME IInv, NEW t \in Thread, pc[t] = "ts_lock", strong[pay[t]] = 0
  PROVE  StrongRefs(pay[t]) = {}
<1>1. /\ self[t] \in Handle /\ kind[self[t]] = "weak" /\ ptr[self[t]] = pay[t]
      /\ pay[t] \in Payload /\ phase[pay[t]] # "free"
  BY DEF IInv, LocalInv, WeakPC
<1>2. StrongExact(pay[t])
  BY <1>1 DEF IInv, CountsMatchHandles
<1>3. CASE strong[pay[t]] = Cardinality(StrongRefs(pay[t]))
  BY <1>3, SmallCounts
<1>4. CASE \E u \in Thread : pc[u] \in {"rd_zero", "free"} /\ pay[u] = pay[t]
  BY <1>1, <1>4, HandleFacts DEF IInv, EndInv, LastPC, Owners
<1>. QED
  BY <1>2, <1>3, <1>4 DEF StrongExact

Justified(t) ==
  /\ pc[t] = "rp_lock" /\ pc'[t] = "rp_unlock" => \E h \in StrongRefs(pay[t]) : h # self[t]
  /\ pc[t] = "ts_lock" /\ pc'[t] = "idle" =>
       StrongRefs(pay[t]) = {} \/ phase[pay[t]] = "dead"

LEMMA JustifiedStep ==
  ASSUME IInv, NEW t \in Thread, Client(t) \/ Step(t)
  PROVE  Justified(t) /\ \A u \in Thread \ {t} : pc'[u] = pc[u]
<1>0. pc \in [Thread -> Labels]
  BY DEF IInv, TypeOK
<1>1. CASE Client(t)
  BY <1>0, <1>1 DEF Client, EndAccess, Return, Make, CallDemote, BeginWrite, BeginRead, CallPromote,
         CallDestroyUnique, CallDestroyReadonly, CallDestroyWeak, CallDuplicate, CallDemoteToWeak,
         MoveAssignSame, SpawnWeak, CallTrySpawn, Call, Idle, locals, Justified
<1>2. CASE PromoteLock(t)
  BY <1>0, <1>2, PromoteFailure DEF PromoteLock, At, Acquire, Justified
<1>3. CASE TrySpawnGiveUp(t)
  BY <1>0, <1>3, UpgradeFailure DEF TrySpawnGiveUp, At, Return, Justified
<1>4. CASE TrySpawnLock(t)
  BY <1>0, <1>4 DEF TrySpawnLock, At, Acquire, Justified
<1>5. CASE Step(t) /\ ~PromoteLock(t) /\ ~TrySpawnGiveUp(t) /\ ~TrySpawnLock(t)
  BY <1>0, <1>5 DEF Step, DemoteLoad, DemoteStore, DestroyUniqueUnlock, DestroyUniqueObject,
         DestroyUniqueWeak, DuplicateLock, DuplicateAdd, DuplicateUnlock, PromoteStore,
         PromoteFail, DestroyReadonlyLock, DestroyReadonlyStore, DestroyReadonlyObject,
         DestroyReadonlyWeak, DestroyReadonlyZero, TrySpawnStore, DestroyWeakSub,
         DestroyWeakCheck, Deallocate, At, Goto, Return, Acquire, Justified
<1>. QED
  BY <1>1, <1>2, <1>3, <1>4, <1>5

(* Promotions and upgrades never fail spuriously. *)
THEOREM FailuresCorrect == Spec => FailuresJustified
<1>1. ASSUME IInv, [Next]_vars
      PROVE  [\A t \in Thread :
                /\ pc[t] = "rp_lock" /\ pc'[t] = "rp_unlock" =>
                     \E h \in StrongRefs(pay[t]) : h # self[t]
                /\ pc[t] = "ts_lock" /\ pc'[t] = "idle" =>
                     StrongRefs(pay[t]) = {} \/ phase[pay[t]] = "dead"]_vars
  <2>1. ASSUME NEW t \in Thread, Client(t) \/ Step(t) PROVE \A u \in Thread : Justified(u)
    <3>1. Justified(t)
      BY <1>1, <2>1, JustifiedStep
    <3>2. ASSUME NEW u \in Thread \ {t} PROVE Justified(u)
      BY <1>1, <2>1, JustifiedStep DEF Justified
    <3>. QED
      BY <3>1, <3>2
  <2>. QED
    BY <1>1, <2>1 DEF Next, Stop, Justified
<1>. QED
  BY <1>1, Inductive, PTL DEF Spec, FailuresJustified
=============================================================================
