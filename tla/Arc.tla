-------------------------------- MODULE Arc --------------------------------
(***************************************************************************)
(* The atomically reference counted smart pointers of smart_pointers/arc.h *)
(* at the granularity of the single atomic instructions of that file.      *)
(* unique_rw_arc_t, ro_arc_t and weak_arc_t are handles to one payload;    *)
(* the payload's strong_refcount is a counter and a spin lock in one word: *)
(* bit 63 (lock_bit) is the lock, and exactly lock_bit means that a unique *)
(* handle owns the object.  All the strong handles together own one unit   *)
(* of weak_refcount.  Both counters are std::atomic and every operation    *)
(* uses the default sequentially consistent order, so interleaving the     *)
(* atomic instructions gives all the outcomes.                             *)
(*                                                                         *)
(* A handle is a slot: moving a handle renames the slot, and a null handle *)
(* is a slot of kind "none".  Any thread may use any handle (handles are   *)
(* handed over between threads), const member functions concurrently and   *)
(* the others exclusively, which is what C++ asks of the callers.          *)
(***************************************************************************)
EXTENDS Naturals, FiniteSets

CONSTANTS
  Thread,    (* the threads that hold and use handles                      *)
  Handle,    (* the slots for handles                                      *)
  Payload,   (* the addresses the allocator can return for a payload       *)
  Null       (* no handle, no payload                                      *)

ASSUME ArcAssumption ==
  /\ IsFiniteSet(Handle)
  /\ Null \notin Handle
  /\ Null \notin Payload

VARIABLES
  locked,    (* bit 63 of the payload's strong_refcount                    *)
  strong,    (* bits 0 to 62 of the payload's strong_refcount              *)
  weak,      (* the payload's weak_refcount                                *)
  phase,     (* free memory, a live object, or a destroyed object in       *)
             (* memory that is still allocated                             *)
  kind,      (* what a handle is; "lost" is a counted reference that no    *)
             (* handle of the program owns any more                        *)
  ptr,       (* m_payload of a handle                                      *)
  pc,        (* the next instruction of a thread                           *)
  self,      (* the handle whose member function a thread executes         *)
  res,       (* the slot of its result, or the source of a move assignment *)
  pay,       (* m_payload as the member function uses it                   *)
  old,       (* its local variable old                                     *)
  aborted    (* an internal assertion failed: the process is gone          *)

words   == <<locked, strong, weak, phase>>
handles == <<kind, ptr>>
locals  == <<pc, self, res, pay, old>>
vars    == <<words, handles, locals, aborted>>

-----------------------------------------------------------------------------
(* Which handles a thread may use.                                         *)

(* The instructions of const member functions. *)
ConstPC == {"dup_lock", "dup_add", "dup_unlock", "ts_lock", "ts_store", "read"}

Exclusive(h) == \A t \in Thread : self[t] # h /\ res[t] # h
Shareable(h) == \A t \in Thread : res[t] # h /\ (self[t] = h => pc[t] \in ConstPC)
Unused(h)    == kind[h] = "none" /\ Exclusive(h)

Idle(t)   == ~aborted /\ pc[t] = "idle"
At(t, l)  == ~aborted /\ pc[t] = l

Call(t, l, h, r) ==
  /\ pc'   = [pc EXCEPT ![t] = l]
  /\ self' = [self EXCEPT ![t] = h]
  /\ res'  = [res EXCEPT ![t] = r]
  /\ pay'  = [pay EXCEPT ![t] = ptr[h]]
  /\ UNCHANGED old

Goto(t, l) == pc' = [pc EXCEPT ![t] = l] /\ UNCHANGED <<self, res, pay, old>>

Return(t) ==
  /\ pc'   = [pc EXCEPT ![t] = "idle"]
  /\ self' = [self EXCEPT ![t] = Null]
  /\ res'  = [res EXCEPT ![t] = Null]
  /\ pay'  = [pay EXCEPT ![t] = Null]
  /\ old'  = [old EXCEPT ![t] = 0]

SetHandle(h, k, p) ==
  /\ kind' = [kind EXCEPT ![h] = k]
  /\ ptr'  = [ptr EXCEPT ![h] = p]

(* The spin on fetch_or(lock_bit): an iteration that finds the bit set     *)
(* changes nothing, so only the successful one is a step.                  *)
Acquire(t, l) ==
  /\ ~locked[pay[t]]
  /\ locked' = [locked EXCEPT ![pay[t]] = TRUE]
  /\ old' = [old EXCEPT ![t] = strong[pay[t]]]
  /\ pc' = [pc EXCEPT ![t] = l]
  /\ UNCHANGED <<self, res, pay>>

(* strong_refcount.store(v) of an unlocked value. *)
StoreStrong(p, v) ==
  /\ locked' = [locked EXCEPT ![p] = FALSE]
  /\ strong' = [strong EXCEPT ![p] = v]

-----------------------------------------------------------------------------
(* unique_rw_arc_t                                                         *)

(* make::with: nothing is shared before it returns.  When the allocation   *)
(* fails it returns a null handle and nothing changes.                     *)
Make(t, h, p) ==
  /\ Idle(t) /\ Unused(h) /\ phase[p] = "free"
  /\ locked' = [locked EXCEPT ![p] = TRUE]
  /\ strong' = [strong EXCEPT ![p] = 0]
  /\ weak'   = [weak EXCEPT ![p] = 1]
  /\ phase'  = [phase EXCEPT ![p] = "live"]
  /\ SetHandle(h, "unique", p)
  /\ UNCHANGED <<locals, aborted>>

(* demote_to_readonly: assert that the word is lock_bit, then store 1. *)
CallDemote(t, h) ==
  /\ Idle(t) /\ kind[h] = "unique" /\ Exclusive(h)
  /\ Call(t, "dr_load", h, Null)
  /\ UNCHANGED <<words, handles, aborted>>

DemoteLoad(t) ==
  /\ At(t, "dr_load")
  /\ aborted' = ~(locked[pay[t]] /\ strong[pay[t]] = 0)
  /\ Goto(t, "dr_store")
  /\ UNCHANGED <<words, handles>>

DemoteStore(t) ==
  /\ At(t, "dr_store")
  /\ StoreStrong(pay[t], 1)
  /\ SetHandle(self[t], "ro", pay[t])
  /\ Return(t)
  /\ UNCHANGED <<weak, phase, aborted>>

(* ~unique_rw_arc_t and destroy: clear the lock bit, destroy the object,   *)
(* give back the weak unit of the strong handles.  The assignment operator *)
(* destroys the left side in the same way while it holds the right side.   *)
CallDestroyUnique(t, h, r) ==
  /\ Idle(t) /\ kind[h] = "unique" /\ Exclusive(h)
  /\ \/ r = Null
     \/ r \in Handle \ {h} /\ kind[r] = "unique" /\ Exclusive(r)
  /\ Call(t, "ud_unlock", h, r)
  /\ UNCHANGED <<words, handles, aborted>>

DestroyUniqueUnlock(t) ==
  /\ At(t, "ud_unlock")
  /\ aborted' = ~(locked[pay[t]] /\ strong[pay[t]] = 0)
  /\ locked' = [locked EXCEPT ![pay[t]] = FALSE]
  /\ Goto(t, "ud_object")
  /\ UNCHANGED <<strong, weak, phase, handles>>

DestroyUniqueObject(t) ==
  /\ At(t, "ud_object")
  /\ phase' = [phase EXCEPT ![pay[t]] = "dead"]
  /\ Goto(t, "ud_weak")
  /\ UNCHANGED <<locked, strong, weak, handles, aborted>>

DestroyUniqueWeak_IgnoresWeak(t) ==  (* variant: deallocates unconditionally *)
  /\ At(t, "ud_weak")
  /\ weak' = [weak EXCEPT ![pay[t]] = @ - 1]
  /\ SetHandle(self[t], "none", Null)
  /\ Goto(t, "free")
  /\ UNCHANGED <<locked, strong, phase, aborted>>

DestroyUniqueWeak(t) ==
  /\ At(t, "ud_weak")
  /\ weak' = [weak EXCEPT ![pay[t]] = @ - 1]
  /\ SetHandle(self[t], "none", Null)
  /\ IF weak[pay[t]] = 1 THEN Goto(t, "free") ELSE Return(t)
  /\ UNCHANGED <<locked, strong, phase, aborted>>

(* The mutable deref: the reference is used until the caller is done.      *)
BeginWrite(t, h) ==
  /\ Idle(t) /\ kind[h] = "unique" /\ Exclusive(h)
  /\ Call(t, "write", h, Null)
  /\ UNCHANGED <<words, handles, aborted>>

-----------------------------------------------------------------------------
(* ro_arc_t                                                                *)

(* The const deref of a read-only or a unique handle. *)
BeginRead(t, h) ==
  /\ Idle(t) /\ kind[h] \in {"ro", "unique"} /\ Shareable(h)
  /\ Call(t, "read", h, Null)
  /\ UNCHANGED <<words, handles, aborted>>

EndAccess(t) ==
  /\ ~aborted /\ pc[t] \in {"read", "write"}
  /\ Return(t)
  /\ UNCHANGED <<words, handles, aborted>>

(* duplicate: lock, fetch_add, unlock.  Its assertion old > 1 cannot fail  *)
(* because the lock bit is set in old.                                     *)
CallDuplicate(t, h, n) ==
  /\ Idle(t) /\ kind[h] = "ro" /\ Shareable(h) /\ Unused(n)
  /\ Call(t, "dup_lock", h, n)
  /\ UNCHANGED <<words, handles, aborted>>

DuplicateLock(t) ==
  /\ At(t, "dup_lock")
  /\ Acquire(t, "dup_add")
  /\ UNCHANGED <<strong, weak, phase, handles, aborted>>

DuplicateAdd_NotCounted(t) ==  (* variant: the fetch_add is forgotten *)
  /\ At(t, "dup_add")
  /\ SetHandle(res[t], "ro", pay[t])
  /\ Goto(t, "dup_unlock")
  /\ UNCHANGED <<locked, strong, weak, phase, aborted>>

DuplicateAdd(t) ==
  /\ At(t, "dup_add")
  /\ strong' = [strong EXCEPT ![pay[t]] = @ + 1]
  /\ SetHandle(res[t], "ro", pay[t])
  /\ Goto(t, "dup_unlock")
  /\ UNCHANGED <<locked, weak, phase, aborted>>

DuplicateUnlock(t) ==
  /\ At(t, "dup_unlock")
  /\ locked' = [locked EXCEPT ![pay[t]] = FALSE]
  /\ Return(t)
  /\ UNCHANGED <<strong, weak, phase, handles, aborted>>

(* try_promote_and_consume_into_unique: lock; the only reference becomes   *)
(* the unique one by storing lock_bit, otherwise unlock and fail.          *)
CallPromote(t, h) ==
  /\ Idle(t) /\ kind[h] = "ro" /\ Exclusive(h)
  /\ Call(t, "rp_lock", h, Null)
  /\ UNCHANGED <<words, handles, aborted>>

PromoteLock_AnyCount(t) ==  (* variant: does not look at the other references *)
  /\ At(t, "rp_lock")
  /\ Acquire(t, "rp_store")
  /\ UNCHANGED <<strong, weak, phase, handles, aborted>>

PromoteLock(t) ==
  /\ At(t, "rp_lock")
  /\ Acquire(t, IF strong[pay[t]] = 1 THEN "rp_store" ELSE "rp_unlock")
  /\ UNCHANGED <<strong, weak, phase, handles, aborted>>

PromoteStore_Unlocks(t) ==  (* variant: stores 0 in place of lock_bit *)
  /\ At(t, "rp_store")
  /\ StoreStrong(pay[t], 0)
  /\ SetHandle(self[t], "unique", pay[t])
  /\ Return(t)
  /\ UNCHANGED <<weak, phase, aborted>>

PromoteStore(t) ==
  /\ At(t, "rp_store")
  /\ strong' = [strong EXCEPT ![pay[t]] = 0]
  /\ SetHandle(self[t], "unique", pay[t])
  /\ Return(t)
  /\ UNCHANGED <<locked, weak, phase, aborted>>

PromoteFail(t) ==
  /\ At(t, "rp_unlock")
  /\ locked' = [locked EXCEPT ![pay[t]] = FALSE]
  /\ Return(t)
  /\ UNCHANGED <<strong, weak, phase, handles, aborted>>

(* ~ro_arc_t, destroy, and the assignment operator between handles to two  *)
(* payloads, which holds the right side r while it destroys the left one.  *)
CallDestroyReadonly(t, h, r) ==
  /\ Idle(t) /\ kind[h] = "ro" /\ Exclusive(h)
  /\ \/ r = Null
     \/ r \in Handle /\ kind[r] = "ro" /\ Exclusive(r) /\ ptr[r] # ptr[h]
  /\ Call(t, "rd_lock", h, r)
  /\ UNCHANGED <<words, handles, aborted>>

(* demote_to_weak takes a weak reference first, then destroys itself. *)
CallDemoteToWeak(t, h, n) ==
  /\ Idle(t) /\ kind[h] = "ro" /\ Exclusive(h) /\ Unused(n)
  /\ weak' = [weak EXCEPT ![ptr[h]] = @ + 1]
  /\ SetHandle(n, "weak", ptr[h])
  /\ Call(t, "rd_lock", h, n)
  /\ UNCHANGED <<locked, strong, phase, aborted>>

DestroyReadonlyLock_OffByOne(t) ==  (* variant: two references count as the last *)
  /\ At(t, "rd_lock")
  /\ Acquire(t, IF strong[pay[t]] > 2 THEN "rd_store" ELSE "rd_object")
  /\ aborted' = (strong[pay[t]] = 0)
  /\ UNCHANGED <<strong, weak, phase, handles>>

DestroyReadonlyLock(t) ==
  /\ At(t, "rd_lock")
  /\ Acquire(t, IF strong[pay[t]] # 1 THEN "rd_store" ELSE "rd_object")
  /\ aborted' = (strong[pay[t]] = 0)
  /\ UNCHANGED <<strong, weak, phase, handles>>

DestroyReadonlyStore_NotCounted(t) ==  (* variant: stores old, not old - 1 *)
  /\ At(t, "rd_store")
  /\ StoreStrong(pay[t], old[t])
  /\ SetHandle(self[t], "none", Null)
  /\ Return(t)
  /\ UNCHANGED <<weak, phase, aborted>>

DestroyReadonlyStore(t) ==
  /\ At(t, "rd_store")
  /\ StoreStrong(pay[t], old[t] - 1)
  /\ SetHandle(self[t], "none", Null)
  /\ Return(t)
  /\ UNCHANGED <<weak, phase, aborted>>

DestroyReadonlyObject(t) ==
  /\ At(t, "rd_object")
  /\ phase' = [phase EXCEPT ![pay[t]] = "dead"]
  /\ Goto(t, "rd_weak")
  /\ UNCHANGED <<locked, strong, weak, handles, aborted>>

DestroyReadonlyWeak_NeverFrees(t) ==  (* variant: leaves the memory allocated *)
  /\ At(t, "rd_weak")
  /\ weak' = [weak EXCEPT ![pay[t]] = @ - 1]
  /\ SetHandle(self[t], "none", Null)
  /\ Goto(t, "rd_zero")
  /\ UNCHANGED <<locked, strong, phase, aborted>>

DestroyReadonlyWeak(t) ==
  /\ At(t, "rd_weak")
  /\ weak' = [weak EXCEPT ![pay[t]] = @ - 1]
  /\ SetHandle(self[t], "none", Null)
  /\ Goto(t, IF weak[pay[t]] = 1 THEN "free" ELSE "rd_zero")
  /\ UNCHANGED <<locked, strong, phase, aborted>>

DestroyReadonlyZero(t) ==
  /\ At(t, "rd_zero")
  /\ StoreStrong(pay[t], 0)
  /\ Return(t)
  /\ UNCHANGED <<weak, phase, handles, aborted>>

(* The assignment operator between two handles to the same payload: the    *)
(* right side becomes null, no counter changes.                            *)
MoveAssignSame(t, h, r) ==
  /\ Idle(t) /\ h # r /\ kind[h] = "ro" /\ kind[r] = "ro"
  /\ Exclusive(h) /\ Exclusive(r) /\ ptr[h] = ptr[r]
  /\ SetHandle(r, "lost", ptr[r])
  /\ UNCHANGED <<words, locals, aborted>>

-----------------------------------------------------------------------------
(* weak_arc_t                                                              *)

(* spawn_weak_arc of a unique or read-only handle, and duplicate of a weak *)
(* one: one fetch_add.                                                     *)
SpawnWeak_NotCounted(t, h, n) ==  (* variant: the fetch_add is forgotten *)
  /\ Idle(t) /\ Unused(n)
  /\ \/ kind[h] \in {"unique", "ro"} /\ Exclusive(h)
     \/ kind[h] = "weak" /\ Shareable(h)
  /\ SetHandle(n, "weak", ptr[h])
  /\ UNCHANGED <<words, locals, aborted>>

SpawnWeak(t, h, n) ==
  /\ Idle(t) /\ Unused(n)
  /\ \/ kind[h] \in {"unique", "ro"} /\ Exclusive(h)
     \/ kind[h] = "weak" /\ Shareable(h)
  /\ weak' = [weak EXCEPT ![ptr[h]] = @ + 1]
  /\ SetHandle(n, "weak", ptr[h])
  /\ UNCHANGED <<locked, strong, phase, locals, aborted>>

(* try_spawn_readonly: spin for the lock, but give up when the word is     *)
(* exactly lock_bit; fail on a zero count; else count a new handle.        *)
CallTrySpawn(t, h, n) ==
  /\ Idle(t) /\ kind[h] = "weak" /\ Shareable(h) /\ Unused(n)
  /\ Call(t, "ts_lock", h, n)
  /\ UNCHANGED <<words, handles, aborted>>

TrySpawnGiveUp_AnyHolder(t) ==  (* variant: any holder of the lock makes it fail *)
  /\ At(t, "ts_lock")
  /\ locked[pay[t]]
  /\ Return(t)
  /\ UNCHANGED <<words, handles, aborted>>

TrySpawnGiveUp(t) ==
  /\ At(t, "ts_lock")
  /\ locked[pay[t]] /\ strong[pay[t]] = 0
  /\ Return(t)
  /\ UNCHANGED <<words, handles, aborted>>

TrySpawnLock(t) ==
  /\ At(t, "ts_lock")
  /\ Acquire(t, "ts_store")
  /\ UNCHANGED <<strong, weak, phase, handles, aborted>>

TrySpawnStore_CountsUpFromZero(t) ==  (* variant: no test for a destroyed object *)
  /\ At(t, "ts_store")
  /\ StoreStrong(pay[t], old[t] + 1)
  /\ SetHandle(res[t], "ro", pay[t])
  /\ Return(t)
  /\ UNCHANGED <<weak, phase, aborted>>

TrySpawnStore_Retries(t) ==  (* variant: tries again when the object is destroyed *)
  /\ At(t, "ts_store")
  /\ \/ /\ old[t] = 0
        /\ StoreStrong(pay[t], 0)
        /\ Goto(t, "ts_lock")
        /\ UNCHANGED handles
     \/ /\ old[t] # 0
        /\ StoreStrong(pay[t], old[t] + 1)
        /\ SetHandle(res[t], "ro", pay[t])
        /\ Return(t)
  /\ UNCHANGED <<weak, phase, aborted>>

TrySpawnStore(t) ==
  /\ At(t, "ts_store")
  /\ \/ /\ old[t] = 0
        /\ StoreStrong(pay[t], 0)
        /\ UNCHANGED handles
     \/ /\ old[t] # 0
        /\ StoreStrong(pay[t], old[t] + 1)
        /\ SetHandle(res[t], "ro", pay[t])
  /\ Return(t)
  /\ UNCHANGED <<weak, phase, aborted>>

(* ~weak_arc_t, destroy, and the assignment operator, which holds the      *)
(* right side r while it destroys the left one: fetch_sub, and the last    *)
(* reference asserts that the strong count is zero and deallocates.        *)
CallDestroyWeak(t, h, r) ==
  /\ Idle(t) /\ kind[h] = "weak" /\ Exclusive(h)
  /\ \/ r = Null
     \/ r \in Handle \ {h} /\ kind[r] = "weak" /\ Exclusive(r)
  /\ Call(t, "wd_sub", h, r)
  /\ UNCHANGED <<words, handles, aborted>>

DestroyWeakSub(t) ==
  /\ At(t, "wd_sub")
  /\ weak' = [weak EXCEPT ![pay[t]] = @ - 1]
  /\ SetHandle(self[t], "none", Null)
  /\ IF weak[pay[t]] = 1 THEN Goto(t, "wd_check") ELSE Return(t)
  /\ UNCHANGED <<locked, strong, phase, aborted>>

DestroyWeakCheck(t) ==
  /\ At(t, "wd_check")
  /\ aborted' = ~(strong[pay[t]] = 0 /\ ~locked[pay[t]])
  /\ Goto(t, "free")
  /\ UNCHANGED <<words, handles>>

(* allocator->deallocate(m_payload), the last instruction of all three     *)
(* destroy functions.                                                      *)
Deallocate(t) ==
  /\ At(t, "free")
  /\ phase' = [phase EXCEPT ![pay[t]] = "free"]
  /\ Return(t)
  /\ UNCHANGED <<locked, strong, weak, handles, aborted>>

-----------------------------------------------------------------------------
Init ==
  /\ locked  = [p \in Payload |-> FALSE]
  /\ strong  = [p \in Payload |-> 0]
  /\ weak    = [p \in Payload |-> 0]
  /\ phase   = [p \in Payload |-> "free"]
  /\ kind    = [h \in Handle |-> "none"]
  /\ ptr     = [h \in Handle |-> Null]
  /\ pc      = [t \in Thread |-> "idle"]
  /\ self    = [t \in Thread |-> Null]
  /\ res     = [t \in Thread |-> Null]
  /\ pay     = [t \in Thread |-> Null]
  /\ old     = [t \in Thread |-> 0]
  /\ aborted = FALSE

(* The program: a thread calls a member function, or is done with deref.   *)
Client(t) ==
  \/ EndAccess(t)
  \/ \E h \in Handle :
       \/ \E p \in Payload : Make(t, h, p)
       \/ CallDemote(t, h)
       \/ BeginWrite(t, h)
       \/ BeginRead(t, h)
       \/ CallPromote(t, h)
       \/ \E r \in Handle \cup {Null} :
            \/ CallDestroyUnique(t, h, r)
            \/ CallDestroyReadonly(t, h, r)
            \/ CallDestroyWeak(t, h, r)
       \/ \E n \in Handle :
            \/ CallDuplicate(t, h, n)
            \/ CallDemoteToWeak(t, h, n)
            \/ MoveAssignSame(t, h, n)
            \/ SpawnWeak(t, h, n)
            \/ CallTrySpawn(t, h, n)

(* The library: a thread executes the next instruction of the function.    *)
Step(t) ==
  \/ DemoteLoad(t)          \/ DemoteStore(t)
  \/ DestroyUniqueUnlock(t) \/ DestroyUniqueObject(t) \/ DestroyUniqueWeak(t)
  \/ DuplicateLock(t)       \/ DuplicateAdd(t)        \/ DuplicateUnlock(t)
  \/ PromoteLock(t)         \/ PromoteStore(t)        \/ PromoteFail(t)
  \/ DestroyReadonlyLock(t) \/ DestroyReadonlyStore(t)
  \/ DestroyReadonlyObject(t)
  \/ DestroyReadonlyWeak(t) \/ DestroyReadonlyZero(t)
  \/ TrySpawnGiveUp(t)      \/ TrySpawnLock(t)        \/ TrySpawnStore(t)
  \/ DestroyWeakSub(t)      \/ DestroyWeakCheck(t)
  \/ Deallocate(t)

(* A failed assertion ends the process, and a program that is inside no    *)
(* member function may stop; anywhere else being stuck is a deadlock.      *)
Stop == (aborted \/ \A t \in Thread : pc[t] = "idle") /\ UNCHANGED vars

Next == (\E t \in Thread : Client(t) \/ Step(t)) \/ Stop

Spec == Init /\ [][Next]_vars

-----------------------------------------------------------------------------
(* Properties.                                                             *)

StrongRefs(p) == {h \in Handle : ptr[h] = p /\ kind[h] \in {"ro", "lost"}}
UniqueRefs(p) == {h \in Handle : ptr[h] = p /\ kind[h] = "unique"}
WeakRefs(p)   == {h \in Handle : ptr[h] = p /\ kind[h] = "weak"}
Owners(p)     == StrongRefs(p) \cup UniqueRefs(p)

Labels == {"idle", "read", "write", "free", "dr_load", "dr_store",
           "ud_unlock", "ud_object", "ud_weak",
           "dup_lock", "dup_add", "dup_unlock",
           "rp_lock", "rp_store", "rp_unlock",
           "rd_lock", "rd_store", "rd_object", "rd_weak", "rd_zero",
           "ts_lock", "ts_store", "wd_sub", "wd_check"}

TypeOK ==
  /\ locked \in [Payload -> BOOLEAN]
  /\ strong \in [Payload -> Nat]
  /\ weak   \in [Payload -> Nat]
  /\ phase  \in [Payload -> {"free", "live", "dead"}]
  /\ kind   \in [Handle -> {"none", "unique", "ro", "lost", "weak"}]
  /\ ptr    \in [Handle -> Payload \cup {Null}]
  /\ pc     \in [Thread -> Labels]
  /\ self   \in [Thread -> Handle \cup {Null}]
  /\ res    \in [Thread -> Handle \cup {Null}]
  /\ pay    \in [Thread -> Payload \cup {Null}]
  /\ old    \in [Thread -> Nat]
  /\ aborted \in BOOLEAN

StrongExact(p) ==
  \/ strong[p] = Cardinality(StrongRefs(p))
  \/ \E t \in Thread : pc[t] \in {"rd_zero", "free"} /\ pay[t] = p

WeakExact(p) ==
  weak[p] = Cardinality(WeakRefs(p)) + (IF Owners(p) = {} THEN 0 ELSE 1)

(* The strong count is the number of read-only handles (a unique handle    *)
(* counts as zero) until the last of them has destroyed the object and is  *)
(* about to store zero, and the weak count is the number of weak handles,  *)
(* plus one while there is any strong handle.                              *)
CountsMatchHandles ==
  \A p \in Payload : phase[p] # "free" => StrongExact(p) /\ WeakExact(p)

(* A payload is not given back to the allocator while a handle points to   *)
(* it or a thread is inside a function that still uses it.                 *)
NoUseAfterFree ==
  /\ \A h \in Handle : kind[h] # "none" => phase[ptr[h]] # "free"
  /\ \A t \in Thread : pc[t] # "idle" => phase[pay[t]] # "free"

(* While a unique handle exists it is the only strong handle, whatever     *)
(* promotions, duplications and upgrades race with each other.             *)
UniqueIsExclusive ==
  \A p \in Payload : \A h \in UniqueRefs(p) : Owners(p) = {h}

(* A thread that writes the object or runs its destructor is the only one  *)
(* that accesses it, and nobody accesses it unless it is alive.            *)
Writing(t)   == pc[t] \in {"write", "ud_object", "rd_object"}
Accessing(t) == Writing(t) \/ pc[t] = "read"

NoDataRace ==
  \A t \in Thread : Accessing(t) =>
    /\ phase[pay[t]] = "live"
    /\ \A u \in Thread \ {t} :
         Accessing(u) /\ pay[u] = pay[t] => ~Writing(t) /\ ~Writing(u)

(* The assertions of demote_to_readonly and of the two strong destructors  *)
(* hold in every interleaving.                                             *)
StrongAssertionsHold ==
  \A t \in Thread :
    /\ pc[t] \in {"dr_load", "ud_unlock"} => locked[pay[t]] /\ strong[pay[t]] = 0
    /\ pc[t] = "rd_lock" /\ ~locked[pay[t]] => strong[pay[t]] # 0

(* The assertion of the last weak reference, "if weak just hit zero, then  *)
(* there also must be no strong refcount".                                 *)
WeakAssertionHolds ==
  \A t \in Thread : pc[t] = "wd_check" => strong[pay[t]] = 0 /\ ~locked[pay[t]]

(* Nothing leaks: memory to which no handle points, counted references     *)
(* that a move assignment lost included, and that no thread is working on  *)
(* is free.                                                                *)
Reclaimed ==
  \A p \in Payload :
    (\A h \in Handle : ptr[h] # p) /\ (\A t \in Thread : pay[t] # p)
      => phase[p] = "free"

(* "refcount is not changing" in the assignment operator: an object that   *)
(* no handle of the program can reach is not left alive.                   *)
NoOrphan ==
  \A p \in Payload :
    /\ \A h \in Handle : ptr[h] = p => kind[h] = "lost"
    /\ \A t \in Thread : pay[t] # p
    => phase[p] # "live"

(* A destroyed object stays destroyed, and gets no strong handle, until    *)
(* its memory is given back: a weak handle never resurrects it.            *)
NoResurrection ==
  [][\A p \in Payload : phase[p] = "dead" =>
       /\ phase'[p] \in {"dead", "free"}
       /\ Owners(p)' \subseteq Owners(p)]_vars

(* A promotion fails only while another strong reference exists, and an    *)
(* upgrade of a weak handle gives up only while there is no shared object. *)
FailuresJustified ==
  [][\A t \in Thread :
       /\ pc[t] = "rp_lock" /\ pc'[t] = "rp_unlock" =>
            \E h \in StrongRefs(pay[t]) : h # self[t]
       /\ pc[t] = "ts_lock" /\ pc'[t] = "idle" =>
            StrongRefs(pay[t]) = {} \/ phase[pay[t]] = "dead"]_vars

=============================================================================
