------------------------------ MODULE ArcLive ------------------------------
(***************************************************************************)
(* Liveness of Arc: a program that at some point, of its own choice, makes *)
(* no more calls, on threads that the operating system keeps running.      *)
(***************************************************************************)
EXTENDS Arc

VARIABLE quiet  (* the program makes no more calls *)

allVars == <<vars, quiet>>

LiveStep(t) == Step(t) /\ UNCHANGED quiet

BecomeQuiet == ~quiet /\ quiet' = TRUE /\ UNCHANGED vars

LiveNext ==
  \/ \E t \in Thread :
       \/ LiveStep(t)
       \/ (EndAccess(t) \/ (~quiet /\ Client(t))) /\ UNCHANGED quiet
  \/ BecomeQuiet
  \/ Stop /\ UNCHANGED quiet

(* A thread inside a member function keeps executing.  Nothing is assumed  *)
(* about which of the spinning threads gets the lock, nor that the program *)
(* calls anything or becomes quiet.                                        *)
FairSpec ==
  /\ Init /\ quiet = FALSE
  /\ [][LiveNext]_allVars
  /\ \A t \in Thread : WF_allVars(LiveStep(t))

(* When the program makes no more calls, every function that was called    *)
(* returns: spinning threads do not wait for each other.                   *)
CallsReturn ==
  quiet ~> (aborted \/ \A t \in Thread : pc[t] \in {"idle", "read", "write"})

(* The memory of a payload to which no handle points any more is given     *)
(* back, whatever the rest of the program does in the meantime.            *)
EventuallyFreed ==
  \A p \in Payload :
    (\A h \in Handle : ptr[h] # p) ~> (phase[p] = "free" \/ aborted)
=============================================================================
