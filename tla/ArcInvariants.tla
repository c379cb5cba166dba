--------------------------- MODULE ArcInvariants ---------------------------
(***************************************************************************)
(* The inductive invariant of Arc, in named parts.  None of the safety     *)
(* properties of Arc is inductive alone: that a counter matches the        *)
(* handles needs to know which thread holds the lock and what it read,     *)
(* that memory is not freed too early needs the counters to match.         *)
(***************************************************************************)
EXTENDS Arc

HoldPC == {"dup_add", "dup_unlock", "rp_store", "rp_unlock", "rd_store",
           "rd_object", "rd_weak", "rd_zero", "ts_store"}

UniquePC  == {"dr_load", "dr_store", "ud_unlock", "ud_object", "ud_weak", "write"}
SharedPC  == {"dup_lock", "dup_add", "dup_unlock", "rp_lock", "rp_store", "rp_unlock",
              "rd_lock", "rd_store", "rd_object", "rd_weak"}
WeakPC    == {"ts_lock", "ts_store", "wd_sub"}
LastPC    == {"wd_check", "free"}
ResultPC  == {"dup_lock", "dup_add", "ts_lock", "ts_store"}

(* A handle points to a payload that is allocated, or nowhere. *)
HandleInv ==
  \A h \in Handle :
    /\ kind[h] = "none" <=> ptr[h] = Null
    /\ ptr[h] # Null => phase[ptr[h]] # "free"

(* What a thread knows about the handle and the payload it works on. *)
LocalInv ==
  \A t \in Thread :
    /\ pc[t] = "idle" => self[t] = Null /\ res[t] = Null /\ pay[t] = Null
    /\ pc[t] # "idle" => self[t] \in Handle /\ pay[t] \in Payload /\ phase[pay[t]] # "free"
    /\ pc[t] \in UniquePC => kind[self[t]] = "unique" /\ ptr[self[t]] = pay[t]
    /\ pc[t] \in SharedPC => kind[self[t]] = "ro" /\ ptr[self[t]] = pay[t]
    /\ pc[t] \in WeakPC   => kind[self[t]] = "weak" /\ ptr[self[t]] = pay[t]
    /\ pc[t] = "read"     => kind[self[t]] \in {"ro", "unique"} /\ ptr[self[t]] = pay[t]
    /\ pc[t] \in ResultPC => res[t] \in Handle /\ kind[res[t]] = "none"

(* Only const functions share a handle, and a result slot is private. *)
BusyInv ==
  \A t, u \in Thread :
    /\ t # u /\ self[t] # Null /\ self[t] = self[u] => pc[t] \in ConstPC
    /\ res[t] # Null => self[u] # res[t] /\ (t # u => res[u] # res[t])

(* The lock bit is a lock: one holder, whose copy of the count is current. *)
LockInv ==
  \A t \in Thread :
    /\ pc[t] \in HoldPC =>
         /\ locked[pay[t]]
         /\ \A u \in Thread : pc[u] \in HoldPC /\ pay[u] = pay[t] => u = t
    /\ pc[t] \in {"rd_store", "ts_store"} => old[t] = strong[pay[t]]
    /\ pc[t] \in {"rp_store", "rd_object", "rd_weak"} => strong[pay[t]] = 1
    /\ pc[t] = "rd_store" => strong[pay[t]] # 1

(* A unique handle holds the lock until its destructor clears it. *)
UniqueLockInv ==
  \A h \in Handle : kind[h] = "unique" =>
    \/ /\ locked[ptr[h]]
       /\ \A t \in Thread : pay[t] = ptr[h] => pc[t] \notin HoldPC
    \/ \E t \in Thread : self[t] = h /\ pc[t] \in {"ud_object", "ud_weak"}

(* The object of an owner lives until the last one's destructor ran. *)
PhaseInv ==
  \A h \in Handle : kind[h] \in {"unique", "ro", "lost"} =>
    \/ phase[ptr[h]] = "live"
    \/ \E t \in Thread : self[t] = h /\ pc[t] \in {"ud_weak", "rd_weak"}

(* The end of a payload: the thread that took the weak count to zero is    *)
(* alone with it, but for one that has yet to store zero in the strong one.*)
EndInv ==
  \A t \in Thread :
    /\ pc[t] = "rd_zero" => Owners(pay[t]) = {}
    /\ pc[t] \in LastPC =>
         /\ weak[pay[t]] = 0
         /\ \A u \in Thread \ {t} : pay[u] = pay[t] =>
              pc[u] = "rd_zero" /\ (pc[t] = "free" => aborted)

(* A payload without references is in the hands of the thread that took    *)
(* the last one.                                                           *)
ReclaimInv ==
  \A p \in Payload : phase[p] # "free" /\ weak[p] = 0 =>
    \E t \in Thread : pc[t] \in LastPC /\ pay[t] = p

(* All of it, with the parts that are properties in their own right. *)
IInv ==
  /\ TypeOK /\ HandleInv /\ LocalInv /\ BusyInv /\ LockInv /\ UniqueLockInv
  /\ PhaseInv /\ EndInv /\ ReclaimInv /\ CountsMatchHandles /\ UniqueIsExclusive
=============================================================================
