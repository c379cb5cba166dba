----------------------------- MODULE Ownership -----------------------------
(***************************************************************************)
(* What the smart pointers of smart_pointers/arc.h promise, without        *)
(* counters, locks or threads: an object has either one unique owner or    *)
(* any number of sharers, dies with its last owner, and its memory is      *)
(* given back when no handle of any kind refers to it any more.            *)
(***************************************************************************)
CONSTANTS Handle, Payload, Null

VARIABLES kind, ptr, phase
vars == <<kind, ptr, phase>>

Owners(p) == {h \in Handle : ptr[h] = p /\ kind[h] \in {"unique", "ro", "lost"}}

SetHandle(h, k, p) ==
  /\ kind' = [kind EXCEPT ![h] = k]
  /\ ptr'  = [ptr EXCEPT ![h] = p]

Init ==
  /\ kind  = [h \in Handle |-> "none"]
  /\ ptr   = [h \in Handle |-> Null]
  /\ phase = [p \in Payload |-> "free"]

(* make::with *)
New(h, p) ==
  /\ kind[h] = "none" /\ phase[p] = "free"
  /\ phase' = [phase EXCEPT ![p] = "live"]
  /\ SetHandle(h, "unique", p)

(* demote_to_readonly *)
Demote(h) ==
  /\ kind[h] = "unique"
  /\ SetHandle(h, "ro", ptr[h])
  /\ UNCHANGED phase

(* try_promote_and_consume_into_unique, when it succeeds *)
Promote(h) ==
  /\ kind[h] = "ro" /\ Owners(ptr[h]) = {h}
  /\ SetHandle(h, "unique", ptr[h])
  /\ UNCHANGED phase

(* duplicate of a sharer, and try_spawn_readonly when it succeeds *)
Share(h, n) ==
  /\ kind[h] \in {"ro", "weak"} /\ kind[n] = "none"
  /\ phase[ptr[h]] = "live"
  /\ \A o \in Owners(ptr[h]) : kind[o] # "unique"
  /\ SetHandle(n, "ro", ptr[h])
  /\ UNCHANGED phase

(* spawn_weak_arc, and duplicate of a weak handle *)
Weaken(h, n) ==
  /\ kind[h] \in {"unique", "ro", "weak"} /\ kind[n] = "none"
  /\ SetHandle(n, "weak", ptr[h])
  /\ UNCHANGED phase

(* The destructors: the last owner takes the object with it. *)
Drop(h) ==
  /\ kind[h] \in {"unique", "ro", "weak"}
  /\ SetHandle(h, "none", Null)
  /\ phase' = IF Owners(ptr[h]) = {h} THEN [phase EXCEPT ![ptr[h]] = "dead"]
                                      ELSE phase

(* The assignment of a read-only handle over another one to the same       *)
(* object forgets a reference, which is never dropped.                     *)
Forget(h) ==
  /\ kind[h] = "ro"
  /\ SetHandle(h, "lost", ptr[h])
  /\ UNCHANGED phase

(* deallocate *)
Reclaim(p) ==
  /\ phase[p] = "dead" /\ \A h \in Handle : ptr[h] # p
  /\ phase' = [phase EXCEPT ![p] = "free"]
  /\ UNCHANGED <<kind, ptr>>

Next ==
  \/ \E h \in Handle :
       \/ \E p \in Payload : New(h, p)
       \/ \E n \in Handle : Share(h, n) \/ Weaken(h, n)
       \/ Demote(h) \/ Promote(h) \/ Drop(h) \/ Forget(h)
  \/ \E p \in Payload : Reclaim(p)

Spec == Init /\ [][Next]_vars
=============================================================================
