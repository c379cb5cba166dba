---------------------------- MODULE ArcOwnership ----------------------------
(***************************************************************************)
(* Arc seen as Ownership: the refinement mapping, and the parts of the     *)
(* invariant that only the mapping needs.                                  *)
(***************************************************************************)
EXTENDS ArcInvariants

(* A handle whose object has been destroyed is gone for Ownership, though  *)
(* its destructor has not given back the weak unit yet.                    *)
DyingPC  == {"ud_weak", "rd_weak"}
Dying(h) == \E t \in Thread : self[t] = h /\ pc[t] \in DyingPC

kindBar == [h \in Handle |-> IF Dying(h) THEN "none" ELSE kind[h]]
ptrBar  == [h \in Handle |-> IF Dying(h) THEN Null ELSE ptr[h]]

Abstract == INSTANCE Ownership WITH kind <- kindBar, ptr <- ptrBar

(* The atomic instructions of all the threads together do what Ownership   *)
(* promises: every operation takes effect in one instruction.              *)
ImplementsOwnership == Abstract!Spec

(* A live object has an owner: nothing but the destructor of the last one  *)
(* leaves a payload without owners.                                        *)
LiveInv == \A p \in Payload : phase[p] = "live" => Abstract!Owners(p) # {}

(* The inductive invariant of the refinement. *)
FullInv == IInv /\ LiveInv
=============================================================================
