----------------------------- MODULE ArcVariant -----------------------------
(***************************************************************************)
(* variant_arc_t of smart_pointers/arc.h: a handle whose kind is only      *)
(* known at run time.  Its functions put m_payload into a temporary handle *)
(* of the right type, call that handle's function, and then disarm the     *)
(* temporary, or forget to: a temporary that is not disarmed gives its     *)
(* reference back when it is destroyed.                                    *)
(*                                                                         *)
(* A function of the typed handles is one step here, which is what Arc     *)
(* shows of them; a function of the variant is as many steps as it makes   *)
(* such calls.                                                             *)
(***************************************************************************)
EXTENDS Naturals, FiniteSets

CONSTANTS Thread, Variant, Payload, Null

ASSUME VariantAssumption ==
  /\ IsFiniteSet(Variant) /\ IsFiniteSet(Thread)
  /\ Null \notin Variant /\ Null \notin Payload

VARIABLES
  pl,       (* payloads: the counters of Arc, and what was done to them     *)
  mode,     (* m_mode of a variant                                         *)
  ptr,      (* m_payload of a variant                                      *)
  at,       (* where a thread is in a conversion of a weak variant         *)
  arg,      (* the variant that it converts                                *)
  twice,    (* counts the references that were given back while a variant  *)
            (* still holds them                                            *)
  broken    (* an assertion failed, or freed memory or a destroyed object  *)
            (* was used                                                    *)

vars == <<pl, mode, ptr, at, arg, twice, broken>>

Modes == {"unique_rw", "shared_ro", "weak"}

-----------------------------------------------------------------------------
(* What the typed handles do to a payload.                                 *)

LoseWeak(r) ==
  [r EXCEPT !.weak = @ - 1, !.phase = IF r.weak = 1 THEN "free" ELSE @]

LoseStrong(r) ==
  IF r.strong # 1
    THEN [r EXCEPT !.strong = @ - 1]
    ELSE LoseWeak([r EXCEPT !.strong = 0, !.phase = "dead"])

LoseUnique(r) == LoseWeak([r EXCEPT !.unique = FALSE, !.phase = "dead"])

Lose(r, m) ==
  CASE m = "unique_rw" -> LoseUnique(r)
    [] m = "shared_ro" -> LoseStrong(r)
    [] m = "weak"      -> LoseWeak(r)

(* The assertions on the way. *)
MayLose(r, m) ==
  /\ m = "unique_rw" => r.unique /\ r.strong = 0
  /\ m = "shared_ro" => r.strong # 0
  /\ m = "weak" /\ r.weak = 1 => ~r.unique /\ r.strong = 0

GainWeak(r)   == [r EXCEPT !.weak = @ + 1]
GainStrong(r) == [r EXCEPT !.strong = @ + 1]

(* Payload p becomes r, provided that an assertion holds and that p has    *)
(* not been given back.                                                    *)
Change(p, assertion, r) ==
  IF pl[p].phase # "free" /\ assertion
    THEN pl' = [pl EXCEPT ![p] = r] /\ UNCHANGED broken
    ELSE broken' = TRUE /\ UNCHANGED pl

Alive(p) == pl[p].phase = "live"

GiveBack(p, m) == Change(p, MayLose(pl[p], m), Lose(pl[p], m))

SetVariant(h, m, p) ==
  /\ mode' = [mode EXCEPT ![h] = m]
  /\ ptr'  = [ptr EXCEPT ![h] = p]

Unused(h) == ptr[h] = Null

(* Thread t calls a function of variant h.  Read-only handles spin while   *)
(* a unique one exists.                                                    *)
Enter(t, h) ==
  /\ ~broken /\ at[t] = "idle" /\ ptr[h] # Null
  /\ \A u \in Thread : arg[u] # h
  /\ mode[h] = "shared_ro" => ~pl[ptr[h]].unique

Goto(t, l, h) == at' = [at EXCEPT ![t] = l] /\ arg' = [arg EXCEPT ![t] = h]

-----------------------------------------------------------------------------
(* The constructor from a new unique_rw_arc_t. *)
Construct(h, p) ==
  /\ ~broken /\ Unused(h) /\ pl[p].phase = "free" /\ \A g \in Variant : ptr[g] # p
  /\ pl' = [pl EXCEPT ![p] = [unique |-> TRUE, strong |-> 0, weak |-> 1, phase |-> "live"]]
  /\ SetVariant(h, "unique_rw", p)
  /\ twice' = [twice EXCEPT ![p] = [strong |-> 0, weak |-> 0]]
  /\ UNCHANGED <<at, arg, broken>>

(* spawn_weak_arc disarms its temporary in all three modes. *)
SpawnWeak(t, h, n) ==
  /\ Enter(t, h) /\ Unused(n)
  /\ Change(ptr[h], TRUE, GainWeak(pl[ptr[h]]))
  /\ SetVariant(n, "weak", ptr[h])
  /\ UNCHANGED <<at, arg, twice>>

(* try_duplicate refuses a unique variant. *)
TryDuplicate_AnyMode(t, h, n) ==  (* variant: shares the object of a unique one *)
  /\ Enter(t, h) /\ Unused(n)
  /\ \/ /\ mode[h] \in {"unique_rw", "shared_ro"}
        /\ Change(ptr[h], Alive(ptr[h]), GainStrong(pl[ptr[h]]))
        /\ SetVariant(n, "shared_ro", ptr[h])
     \/ /\ mode[h] = "weak"
        /\ Change(ptr[h], TRUE, GainWeak(pl[ptr[h]]))
        /\ SetVariant(n, "weak", ptr[h])
  /\ UNCHANGED <<at, arg, twice>>

TryDuplicate(t, h, n) ==
  /\ Enter(t, h) /\ Unused(n)
  /\ \/ mode[h] = "shared_ro" /\ Change(ptr[h], Alive(ptr[h]), GainStrong(pl[ptr[h]]))
     \/ mode[h] = "weak"      /\ Change(ptr[h], TRUE, GainWeak(pl[ptr[h]]))
  /\ SetVariant(n, mode[h], ptr[h])
  /\ UNCHANGED <<at, arg, twice>>

(* try_convert_and_consume_into_readonly_arc: the result takes the slot of *)
(* the variant.  A weak variant is consumed when it could spawn a          *)
(* read-only handle, and is left alone when it could not.                  *)
ConvertToReadonly_KeepsWeak(t, h) ==  (* variant: disarms the temporary on success *)
  /\ Enter(t, h)
  /\ LET p == ptr[h]  r == pl[p]
     IN  /\ \/ /\ mode[h] = "unique_rw"
               /\ Change(p, MayLose(r, "unique_rw"), [r EXCEPT !.unique = FALSE, !.strong = 1])
            \/ /\ mode[h] = "weak" /\ ~r.unique /\ r.strong # 0
               /\ Change(p, TRUE, GainStrong(r))
         /\ SetVariant(h, "shared_ro", p)
  /\ UNCHANGED <<at, arg, twice>>

ConvertToReadonly(t, h) ==
  /\ Enter(t, h)
  /\ LET p == ptr[h]  r == pl[p]
     IN  /\ \/ /\ mode[h] = "unique_rw"
               /\ Change(p, MayLose(r, "unique_rw"), [r EXCEPT !.unique = FALSE, !.strong = 1])
            \/ /\ mode[h] = "weak" /\ ~r.unique /\ r.strong # 0
               /\ Change(p, TRUE, LoseWeak(GainStrong(r)))
         /\ SetVariant(h, "shared_ro", p)
  /\ UNCHANGED <<at, arg, twice>>

(* try_convert_and_consume_into_unique_arc of a shared variant.  When the  *)
(* promotion fails, the temporary is not disarmed and its destructor gives *)
(* back the reference that the variant still holds.                        *)
PromoteShared(t, h) ==
  /\ Enter(t, h) /\ mode[h] = "shared_ro"
  /\ LET p == ptr[h]  r == pl[p]
     IN  \/ /\ r.strong = 1
            /\ Change(p, TRUE, [r EXCEPT !.strong = 0, !.unique = TRUE])
            /\ SetVariant(h, "unique_rw", p)
            /\ UNCHANGED twice
         \/ /\ r.strong # 1
            /\ GiveBack(p, "shared_ro")
            /\ twice' = [twice EXCEPT ![p].strong = @ + 1]
            /\ UNCHANGED <<mode, ptr>>
  /\ UNCHANGED <<at, arg>>

(* The same function of a weak variant: a temporary weak handle spawns a   *)
(* read-only one, which is then promoted; if there is none to spawn it     *)
(* fails and disarms the temporary.                                        *)
PromoteWeakSpawn(t, h) ==
  /\ Enter(t, h) /\ mode[h] = "weak"
  /\ ~pl[ptr[h]].unique /\ pl[ptr[h]].strong # 0
  /\ Change(ptr[h], TRUE, GainStrong(pl[ptr[h]]))
  /\ Goto(t, "spawned", h)
  /\ UNCHANGED <<mode, ptr, twice>>

(* The promotion succeeds: the temporary weak handle is not disarmed and   *)
(* the variant keeps m_payload.  n takes the result.                       *)
PromoteWeakSucceeds(t, n) ==
  /\ ~broken /\ at[t] = "spawned" /\ Unused(n)
  /\ LET p == ptr[arg[t]]  r == pl[p]
     IN  /\ ~r.unique /\ r.strong = 1
         /\ Change(p, TRUE, LoseWeak([r EXCEPT !.strong = 0, !.unique = TRUE]))
         /\ SetVariant(n, "unique_rw", p)
         /\ twice' = [twice EXCEPT ![p].weak = @ + 1]
  /\ Goto(t, "idle", Null)

PromoteWeakFails(t) ==
  /\ ~broken /\ at[t] = "spawned"
  /\ ~pl[ptr[arg[t]]].unique /\ pl[ptr[arg[t]]].strong # 1
  /\ Goto(t, "failed", arg[t])
  /\ UNCHANGED <<pl, mode, ptr, twice, broken>>

(* The read-only handle is demoted to a weak one, which is assigned over   *)
(* the temporary, so that the temporary's reference is given back; then    *)
(* the temporary is disarmed.                                              *)
PromoteWeakUndo_Disarmed(t) ==  (* variant: disarmed before the assignment *)
  /\ ~broken /\ at[t] = "failed"
  /\ LET p == ptr[arg[t]]  r == GainWeak(pl[p])
     IN  ~r.unique /\ Change(p, MayLose(r, "shared_ro"), LoseStrong(r))
  /\ Goto(t, "idle", Null)
  /\ UNCHANGED <<mode, ptr, twice>>

PromoteWeakUndo(t) ==
  /\ ~broken /\ at[t] = "failed"
  /\ LET p == ptr[arg[t]]  r == GainWeak(pl[p])
     IN  /\ ~r.unique
         /\ Change(p, MayLose(r, "shared_ro") /\ MayLose(LoseStrong(r), "weak"),
                   LoseWeak(LoseStrong(r)))
  /\ Goto(t, "idle", Null)
  /\ UNCHANGED <<mode, ptr, twice>>

(* The destructor; the assignment operator destroys its left side and then *)
(* renames its right side.                                                 *)
Destroy(t, h) ==
  /\ Enter(t, h)
  /\ GiveBack(ptr[h], mode[h])
  /\ SetVariant(h, mode[h], Null)
  /\ UNCHANGED <<at, arg, twice>>

-----------------------------------------------------------------------------
Init ==
  /\ pl    = [p \in Payload |-> [unique |-> FALSE, strong |-> 0, weak |-> 0, phase |-> "free"]]
  /\ mode  = [h \in Variant |-> "weak"]
  /\ ptr   = [h \in Variant |-> Null]
  /\ at    = [t \in Thread |-> "idle"]
  /\ arg   = [t \in Thread |-> Null]
  /\ twice = [p \in Payload |-> [strong |-> 0, weak |-> 0]]
  /\ broken = FALSE

Next ==
  \/ \E h \in Variant, p \in Payload : Construct(h, p)
  \/ \E t \in Thread, h \in Variant :
       \/ ConvertToReadonly(t, h) \/ PromoteShared(t, h)
       \/ PromoteWeakSpawn(t, h)  \/ PromoteWeakSucceeds(t, h)
       \/ Destroy(t, h)
       \/ \E n \in Variant : SpawnWeak(t, h, n) \/ TryDuplicate(t, h, n)
  \/ \E t \in Thread : PromoteWeakFails(t) \/ PromoteWeakUndo(t)
  \/ broken /\ UNCHANGED vars

Spec == Init /\ [][Next]_vars

-----------------------------------------------------------------------------
(* Properties.                                                             *)

Holding(p, m) == {h \in Variant : ptr[h] = p /\ mode[h] = m}
Temporaries(p) == {t \in Thread : arg[t] # Null /\ ptr[arg[t]] = p}

TypeOK ==
  /\ pl \in [Payload -> [unique : BOOLEAN, strong : Nat, weak : Nat,
                         phase : {"free", "live", "dead"}]]
  /\ mode \in [Variant -> Modes]
  /\ ptr \in [Variant -> Payload \cup {Null}]
  /\ at \in [Thread -> {"idle", "spawned", "failed"}]
  /\ arg \in [Thread -> Variant \cup {Null}]
  /\ twice \in [Payload -> [strong : Nat, weak : Nat]]
  /\ broken \in BOOLEAN

(* The counters and the references given back twice together are exactly   *)
(* the variants and the read-only handles of conversions under way: apart  *)
(* from the two places where a temporary is not disarmed, every function   *)
(* of the variant, undone conversions included, keeps the balance.         *)
Balance ==
  /\ TypeOK
  /\ \A p \in Payload : ~broken /\ pl[p].phase # "free" =>
    /\ pl[p].strong + twice[p].strong =
         Cardinality(Holding(p, "shared_ro")) + Cardinality(Temporaries(p))
    /\ pl[p].weak + twice[p].weak =
         Cardinality(Holding(p, "weak")) + (IF pl[p].phase = "live" THEN 1 ELSE 0)

(* Where no reference was given back twice, the object of a unique or a    *)
(* shared variant is alive, and a unique variant is alone.                 *)
OwnersIntact ==
  \A p \in Payload : ~broken /\ twice[p].strong + twice[p].weak = 0 =>
    /\ Holding(p, "unique_rw") \cup Holding(p, "shared_ro") # {} => pl[p].phase = "live"
    /\ \A h \in Holding(p, "unique_rw") :
         Holding(p, "unique_rw") \cup Holding(p, "shared_ro") = {h} /\ Temporaries(p) = {}

(* Memory to which no variant points is given back. *)
NoLeak ==
  \A p \in Payload : ~broken /\ (\A h \in Variant : ptr[h] # p) => pl[p].phase = "free"

(* "looks like we were the only reference" in the promotion that a shared  *)
(* variant calls: when it succeeds, no other variant shares the object.    *)
PromotedAlone ==
  \A p \in Payload : Holding(p, "unique_rw") # {} => Holding(p, "shared_ro") = {}

(* "if weak just hit zero, then there also must be no strong refcount" in  *)
(* the destructor of the last weak handle.                                 *)
LastWeakAlone ==
  \A h \in Variant : mode[h] = "weak" /\ ptr[h] # Null =>
    pl[ptr[h]].phase = "free" \/ MayLose(pl[ptr[h]], "weak")
=============================================================================
