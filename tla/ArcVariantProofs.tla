-------------------------- MODULE ArcVariantProofs --------------------------
(***************************************************************************)
(* An inductive invariant of ArcVariant, for any number of threads,        *)
(* variants and payloads, and the safety properties that follow from it.   *)
(***************************************************************************)
EXTENDS ArcVariant, FiniteSetTheorems, TLAPS

Owned(r) == r.unique \/ r.strong # 0

(* What relates the counters r of a payload and the references w that were *)
(* given back twice to the numbers of shared, weak and unique variants and *)
(* of temporaries, also when the payload has been given back too early:    *)
(* the strong handles together hold one unit of weak.                      *)
Fits(r, w, shared, weaks, uniques, temporaries) ==
  /\ r.strong + w.strong = shared + temporaries
  /\ r.weak + w.weak = weaks + (IF Owned(r) THEN 1 ELSE 0)
  /\ r.weak = 0 <=> r.phase = "free"
  /\ r.phase # "free" => (r.phase = "live" <=> Owned(r))
  /\ r.unique => r.strong = 0
  /\ w.strong + w.weak = 0 => uniques = (IF r.unique THEN 1 ELSE 0)

Counts(p) ==
  Fits(pl[p], twice[p], Cardinality(Holding(p, "shared_ro")), Cardinality(Holding(p, "weak")),
       Cardinality(Holding(p, "unique_rw")), Cardinality(Temporaries(p)))

(* A variant that is being converted is a weak one, and in use by one      *)
(* thread.                                                                 *)
LocalInv ==
  \A t \in Thread :
    /\ at[t] = "idle" <=> arg[t] = Null
    /\ arg[t] # Null => ptr[arg[t]] # Null /\ mode[arg[t]] = "weak"
    /\ \A u \in Thread : u # t /\ arg[t] # Null => arg[u] # arg[t]

IInv ==
  /\ TypeOK /\ LocalInv
  /\ ~broken => \A p \in Payload : Counts(p)
-----------------------------------------------------------------------------
(* How the sets of variants follow a step.                                 *)

Record == [unique : BOOLEAN, strong : Nat, weak : Nat, phase : {"free", "live", "dead"}]

LEMMA SetsFinite ==
  ASSUME NEW p, NEW m
  PROVE  /\ IsFiniteSet(Holding(p, m)) /\ Cardinality(Holding(p, m)) \in Nat
         /\ IsFiniteSet(Temporaries(p)) /\ Cardinality(Temporaries(p)) \in Nat
<1>1. Holding(p, m) \in SUBSET Variant /\ Temporaries(p) \in SUBSET Thread
  BY DEF Holding, Temporaries
<1>. QED
  BY <1>1, VariantAssumption, FS_Subset, FS_CardinalityType

LEMMA OneMore ==
  ASSUME NEW p, NEW m, NEW h
  PROVE  /\ h \in Holding(p, m) => /\ Cardinality(Holding(p, m) \cup {h}) = Cardinality(Holding(p, m))
                                   /\ Cardinality(Holding(p, m) \ {h}) = Cardinality(Holding(p, m)) - 1
         /\ h \notin Holding(p, m) => /\ Cardinality(Holding(p, m) \cup {h}) = Cardinality(Holding(p, m)) + 1
                                      /\ Cardinality(Holding(p, m) \ {h}) = Cardinality(Holding(p, m))
  BY SetsFinite, FS_AddElement, FS_RemoveElement

Count(b) == IF b THEN 1 ELSE 0

(* A variant h that becomes one of mode k to payload q. *)
LEMMA HoldingMoves ==
  ASSUME TypeOK, NEW h \in Variant, NEW k \in Modes, NEW q \in Payload \cup {Null},
         SetVariant(h, k, q), NEW p \in Payload, NEW m \in Modes
  PROVE  Cardinality(Holding(p, m))' =
           Cardinality(Holding(p, m)) + Count(q = p /\ k = m) - Count(ptr[h] = p /\ mode[h] = m)
<1>0. Cardinality(Holding(p, m)) \in Nat
  BY SetsFinite
<1>1. h \in Holding(p, m) <=> (ptr[h] = p /\ mode[h] = m)
  BY DEF Holding
<1>2. CASE q = p /\ k = m
  <2>1. Holding(p, m)' = Holding(p, m) \cup {h}
    BY <1>2 DEF Holding, SetVariant, TypeOK
  <2>. QED
    BY <1>0, <1>1, <1>2, <2>1, OneMore DEF Count
<1>3. CASE ~(q = p /\ k = m)
  <2>1. Holding(p, m)' = Holding(p, m) \ {h}
    BY <1>3 DEF Holding, SetVariant, TypeOK
  <2>2. Count(q = p /\ k = m) = 0
    BY <1>3 DEF Count
  <2>3. CASE h \in Holding(p, m)
    <3>1. Count(ptr[h] = p /\ mode[h] = m) = 1
      BY <1>1, <2>3 DEF Count
    <3>2. Cardinality(Holding(p, m))' = Cardinality(Holding(p, m)) - 1
      BY <2>1, <2>3, OneMore
    <3>. QED
      BY <1>0, <2>2, <3>1, <3>2
  <2>4. CASE h \notin Holding(p, m)
    <3>1. Count(ptr[h] = p /\ mode[h] = m) = 0
      BY <1>1, <2>4 DEF Count
    <3>2. Cardinality(Holding(p, m))' = Cardinality(Holding(p, m))
      BY <2>1, <2>4, OneMore
    <3>. QED
      BY <1>0, <2>2, <3>1, <3>2
  <2>. QED
    BY <2>3, <2>4
<1>. QED
  BY <1>2, <1>3

LEMMA HoldingSame ==
  ASSUME NEW p, NEW m, UNCHANGED <<mode, ptr>>
  PROVE  Cardinality(Holding(p, m))' = Cardinality(Holding(p, m))
  BY DEF Holding

(* A variant that no thread converts may change. *)
LEMMA TemporariesSame ==
  ASSUME NEW p, NEW h \in Variant, \A u \in Thread : arg[u] # h,
         \A g \in Variant \ {h} : ptr'[g] = ptr[g], TypeOK, UNCHANGED arg
  PROVE  Cardinality(Temporaries(p))' = Cardinality(Temporaries(p))
<1>1. Temporaries(p)' = Temporaries(p)
  BY DEF Temporaries, TypeOK
<1>. QED
  BY <1>1

(* A thread that takes up the conversion of a variant, or ends it. *)
LEMMA OneThread ==
  ASSUME NEW p, NEW t
  PROVE  /\ t \in Temporaries(p) => Cardinality(Temporaries(p) \ {t}) = Cardinality(Temporaries(p)) - 1
         /\ t \notin Temporaries(p) => Cardinality(Temporaries(p) \cup {t}) = Cardinality(Temporaries(p)) + 1
  BY SetsFinite, FS_AddElement, FS_RemoveElement

LEMMA TemporariesMove ==
  ASSUME TypeOK, NEW t \in Thread, NEW l, NEW h \in Variant \cup {Null}, Goto(t, l, h),
         \A u \in Thread : arg[u] # Null => ptr'[arg[u]] = ptr[arg[u]],
         h # Null => ptr'[h] = ptr[h], NEW p \in Payload
  PROVE  /\ arg[t] = Null => Cardinality(Temporaries(p))' =
                               Cardinality(Temporaries(p)) + Count(h # Null /\ ptr[h] = p)
         /\ h = Null => Cardinality(Temporaries(p))' =
                          Cardinality(Temporaries(p)) - Count(arg[t] # Null /\ ptr[arg[t]] = p)
         /\ h = arg[t] => Cardinality(Temporaries(p))' = Cardinality(Temporaries(p))
<1>0. Cardinality(Temporaries(p)) \in Nat
  BY SetsFinite
<1>1. t \in Temporaries(p) <=> arg[t] # Null /\ ptr[arg[t]] = p
  BY DEF Temporaries
<1>2. ASSUME arg[t] = Null
      PROVE  Cardinality(Temporaries(p))' = Cardinality(Temporaries(p)) + Count(h # Null /\ ptr[h] = p)
  <2>1. CASE h # Null /\ ptr[h] = p
    <3>1. Temporaries(p)' = Temporaries(p) \cup {t}
      BY <1>2, <2>1 DEF Temporaries, Goto, TypeOK
    <3>. QED
      BY <1>0, <1>1, <1>2, <2>1, <3>1, OneThread DEF Count
  <2>2. CASE ~(h # Null /\ ptr[h] = p)
    <3>1. Temporaries(p)' = Temporaries(p)
      BY <1>2, <2>2 DEF Temporaries, Goto, TypeOK
    <3>2. Count(h # Null /\ ptr[h] = p) = 0
      BY <2>2 DEF Count
    <3>. QED
      BY <1>0, <3>1, <3>2
  <2>. QED
    BY <2>1, <2>2
<1>3. ASSUME h = Null
      PROVE  Cardinality(Temporaries(p))' =
               Cardinality(Temporaries(p)) - Count(arg[t] # Null /\ ptr[arg[t]] = p)
  <2>1. Temporaries(p)' = Temporaries(p) \ {t}
    BY <1>3 DEF Temporaries, Goto, TypeOK
  <2>2. CASE t \in Temporaries(p)
    <3>1. Count(arg[t] # Null /\ ptr[arg[t]] = p) = 1
      BY <1>1, <2>2 DEF Count
    <3>. QED
      BY <2>1, <2>2, <3>1, OneThread
  <2>3. CASE t \notin Temporaries(p)
    <3>1. Temporaries(p)' = Temporaries(p)
      BY <2>1, <2>3
    <3>2. Count(arg[t] # Null /\ ptr[arg[t]] = p) = 0
      BY <1>1, <2>3 DEF Count
    <3>. QED
      BY <1>0, <3>1, <3>2
  <2>. QED
    BY <2>2, <2>3
<1>4. ASSUME h = arg[t] PROVE Temporaries(p)' = Temporaries(p)
  BY <1>4 DEF Temporaries, Goto, TypeOK
<1>. QED
  BY <1>2, <1>3, <1>4

(* An unused slot is not converted. *)
LEMMA UnusedIdle ==
  ASSUME IInv, NEW n \in Variant, Unused(n)
  PROVE  \A u \in Thread : arg[u] # n
  BY VariantAssumption DEF IInv, LocalInv, Unused

-----------------------------------------------------------------------------
(* How the counters follow a step.                                         *)

(* What is left to show of a step that changes one payload. *)
LEMMA ChangeInv ==
  ASSUME IInv, ~broken, NEW p \in Payload, NEW STATE b, NEW STATE r, Change(p, b, r),
         pl[p].phase # "free" /\ b => r \in Record
  PROVE  /\ pl' \in [Payload -> Record] /\ broken' \in BOOLEAN
         /\ ~broken' => pl[p].phase # "free" /\ b /\ pl' = [pl EXCEPT ![p] = r]
<1>1. CASE pl[p].phase # "free" /\ b
  <2>1. broken' = broken /\ pl' = [pl EXCEPT ![p] = r]
    BY <1>1 DEF Change
  <2>2. r \in Record /\ pl \in [Payload -> Record] /\ broken \in BOOLEAN
    BY <1>1 DEF IInv, TypeOK, Record
  <2>. QED
    BY <1>1, <2>1, <2>2
<1>2. CASE ~(pl[p].phase # "free" /\ b)
  <2>1. broken' = TRUE /\ pl' = pl
    BY <1>2 DEF Change
  <2>. QED
    BY <2>1 DEF IInv, TypeOK, Record
<1>. QED
  BY <1>1, <1>2

(* What giving a reference back does to the counters, as long as the       *)
(* assertions hold.                                                        *)
LEMMA LoseWeakFacts ==
  ASSUME NEW r \in Record, r.weak # 0
  PROVE  /\ LoseWeak(r) \in Record
         /\ LoseWeak(r).unique = r.unique /\ LoseWeak(r).strong = r.strong
         /\ LoseWeak(r).weak = r.weak - 1
         /\ LoseWeak(r).phase = IF r.weak = 1 THEN "free" ELSE r.phase
<1>1. PICK f \in {"free", "live", "dead"} : f = IF r.weak = 1 THEN "free" ELSE r.phase
  BY DEF Record
<1>2. PICK w \in Nat : w = r.weak - 1
  BY DEF Record
<1>3. LoseWeak(r) = [r EXCEPT !.weak = w, !.phase = f]
  BY <1>1, <1>2 DEF LoseWeak
<1>. QED
  BY <1>1, <1>2, <1>3 DEF Record

LEMMA LoseUniqueFacts ==
  ASSUME NEW r \in Record, r.weak # 0
  PROVE  /\ LoseUnique(r) \in Record
         /\ LoseUnique(r).unique = FALSE /\ LoseUnique(r).strong = r.strong
         /\ LoseUnique(r).weak = r.weak - 1
         /\ LoseUnique(r).phase = IF r.weak = 1 THEN "free" ELSE "dead"
<1>1. PICK q \in Record : q = [r EXCEPT !.unique = FALSE, !.phase = "dead"]
  BY DEF Record
<1>. QED
  BY <1>1, LoseWeakFacts DEF LoseUnique, Record

LEMMA LoseStrongFacts ==
  ASSUME NEW r \in Record, r.weak # 0, r.strong # 0
  PROVE  /\ LoseStrong(r) \in Record
         /\ LoseStrong(r).unique = r.unique /\ LoseStrong(r).strong = r.strong - 1
         /\ LoseStrong(r).weak = IF r.strong = 1 THEN r.weak - 1 ELSE r.weak
         /\ LoseStrong(r).phase = IF r.strong # 1 THEN r.phase
                                  ELSE IF r.weak = 1 THEN "free" ELSE "dead"
<1>1. CASE r.strong = 1
  <2>1. PICK q \in Record : q = [r EXCEPT !.strong = 0, !.phase = "dead"]
    BY DEF Record
  <2>. QED
    <3>1. LoseStrong(r) = LoseWeak(q)
      BY <1>1, <2>1 DEF LoseStrong
    <3>2. /\ q.unique = r.unique /\ q.strong = 0 /\ q.weak = r.weak /\ q.phase = "dead"
      BY <2>1 DEF Record
    <3>. QED
      BY <1>1, <3>1, <3>2, LoseWeakFacts DEF Record
<1>2. CASE r.strong # 1
  BY <1>2 DEF LoseStrong, Record
<1>. QED
  BY <1>1, <1>2

LEMMA GainFacts ==
  ASSUME NEW r \in Record
  PROVE  /\ GainWeak(r) \in Record /\ GainStrong(r) \in Record
         /\ GainWeak(r).unique = r.unique /\ GainStrong(r).unique = r.unique
         /\ GainWeak(r).strong = r.strong /\ GainStrong(r).strong = r.strong + 1
         /\ GainWeak(r).weak = r.weak + 1 /\ GainStrong(r).weak = r.weak
         /\ GainWeak(r).phase = r.phase /\ GainStrong(r).phase = r.phase
<1>1. PICK w \in Nat, s \in Nat : w = r.weak + 1 /\ s = r.strong + 1
  BY DEF Record
<1>2. GainWeak(r) = [r EXCEPT !.weak = w] /\ GainStrong(r) = [r EXCEPT !.strong = s]
  BY <1>1 DEF GainWeak, GainStrong
<1>. QED
  BY <1>1, <1>2 DEF Record

(* How the counters follow the handles. *)
LEMMA Fitting ==
  ASSUME NEW r \in Record, NEW w \in [strong : Nat, weak : Nat],
         NEW s \in Nat, NEW k \in Nat, NEW u \in Nat, NEW e \in Nat, Fits(r, w, s, k, u, e),
         r.phase # "free"
  PROVE  /\ Fits(GainWeak(r), w, s, k + 1, u, e)
         /\ r.phase = "live" /\ ~r.unique =>
              /\ Fits(GainStrong(r), w, s + 1, k, u, e)
              /\ Fits(GainStrong(r), w, s, k, u, e + 1)
  BY DEF Fits, GainWeak, GainStrong, Owned, Record

LEMMA FittingLoss ==
  ASSUME NEW r \in Record, NEW w \in [strong : Nat, weak : Nat],
         NEW s \in Nat, NEW k \in Nat, NEW u \in Nat, NEW e \in Nat, Fits(r, w, s, k, u, e),
         r.phase # "free"
  PROVE  /\ k # 0 /\ (r.weak = 1 => ~r.unique /\ r.strong = 0) => Fits(LoseWeak(r), w, s, k - 1, u, e)
         /\ s # 0 /\ r.strong # 0 => Fits(LoseStrong(r), w, s - 1, k, u, e)
         /\ u # 0 /\ r.unique => Fits(LoseUnique(r), w, s, k, u - 1, e)
<1>0. r.weak # 0
  BY DEF Fits
<1>1. ASSUME k # 0, r.weak = 1 => ~r.unique /\ r.strong = 0
      PROVE  Fits(LoseWeak(r), w, s, k - 1, u, e)
  <2>. PICK q \in Record : q = LoseWeak(r)
    BY <1>0, LoseWeakFacts
  <2>1. /\ q.unique = r.unique /\ q.strong = r.strong /\ q.weak = r.weak - 1
        /\ q.phase = (IF r.weak = 1 THEN "free" ELSE r.phase)
    BY <1>0, LoseWeakFacts
  <2>2. Fits(q, w, s, k - 1, u, e)
    BY <1>0, <1>1, <2>1 DEF Fits, Owned, Record
  <2>. QED
    BY <2>2
<1>2. ASSUME s # 0, r.strong # 0 PROVE Fits(LoseStrong(r), w, s - 1, k, u, e)
  <2>. PICK q \in Record : q = LoseStrong(r)
    BY <1>0, <1>2, LoseStrongFacts
  <2>1. /\ q.unique = r.unique /\ q.strong = r.strong - 1
        /\ q.weak = (IF r.strong = 1 THEN r.weak - 1 ELSE r.weak)
        /\ q.phase = (IF r.strong # 1 THEN r.phase ELSE IF r.weak = 1 THEN "free" ELSE "dead")
    BY <1>0, <1>2, LoseStrongFacts
  <2>2. Fits(q, w, s - 1, k, u, e)
    BY <1>0, <1>2, <2>1 DEF Fits, Owned, Record
  <2>. QED
    BY <2>2
<1>3. ASSUME u # 0, r.unique PROVE Fits(LoseUnique(r), w, s, k, u - 1, e)
  <2>. PICK q \in Record : q = LoseUnique(r)
    BY <1>0, LoseUniqueFacts
  <2>1. /\ q.unique = FALSE /\ q.strong = r.strong /\ q.weak = r.weak - 1
        /\ q.phase = (IF r.weak = 1 THEN "free" ELSE "dead")
    BY <1>0, LoseUniqueFacts
  <2>2. Fits(q, w, s, k, u - 1, e)
    BY <1>0, <1>3, <2>1 DEF Fits, Owned, Record
  <2>. QED
    BY <2>2
<1>. QED
  BY <1>1, <1>2, <1>3

(* The conversions. *)
LEMMA FittingConversion ==
  ASSUME NEW r \in Record, NEW w \in [strong : Nat, weak : Nat],
         NEW s \in Nat, NEW k \in Nat, NEW u \in Nat, NEW e \in Nat, Fits(r, w, s, k, u, e),
         r.phase # "free"
  PROVE  /\ u # 0 /\ r.unique /\ r.strong = 0 =>
              Fits([r EXCEPT !.unique = FALSE, !.strong = 1], w, s + 1, k, u - 1, e)
         /\ k # 0 /\ ~r.unique /\ r.strong # 0 =>
              Fits(LoseWeak(GainStrong(r)), w, s + 1, k - 1, u, e)
         /\ s # 0 /\ r.strong = 1 =>
              Fits([r EXCEPT !.strong = 0, !.unique = TRUE], w, s - 1, k, u + 1, e)
         /\ r.strong # 0 /\ r.strong # 1 =>
              Fits(LoseStrong(r), [w EXCEPT !.strong = @ + 1], s, k, u, e)
         /\ e # 0 /\ ~r.unique /\ r.strong = 1 =>
              Fits(LoseWeak([r EXCEPT !.strong = 0, !.unique = TRUE]),
                   [w EXCEPT !.weak = @ + 1], s, k, u + 1, e - 1)
         /\ e # 0 /\ r.strong # 0 => Fits(LoseWeak(LoseStrong(GainWeak(r))), w, s, k, u, e - 1)
<1>0. r.weak # 0
  BY DEF Fits
<1>1. ASSUME u # 0, r.unique, r.strong = 0
      PROVE  Fits([r EXCEPT !.unique = FALSE, !.strong = 1], w, s + 1, k, u - 1, e)
  BY <1>1 DEF Fits, Owned, Record
<1>2. ASSUME k # 0, ~r.unique, r.strong # 0
      PROVE  Fits(LoseWeak(GainStrong(r)), w, s + 1, k - 1, u, e)
  <2>1. PICK g \in Record : g = GainStrong(r)
    BY GainFacts
  <2>2. g.unique = r.unique /\ g.strong = r.strong + 1 /\ g.weak = r.weak /\ g.phase = r.phase
    BY <2>1, GainFacts
  <2>3. PICK q \in Record : q = LoseWeak(g)
    BY <1>0, <2>2, LoseWeakFacts
  <2>4. /\ q.unique = r.unique /\ q.strong = r.strong + 1 /\ q.weak = r.weak - 1
        /\ q.phase = (IF r.weak = 1 THEN "free" ELSE r.phase)
    BY <1>0, <2>2, <2>3, LoseWeakFacts
  <2>5. Fits(q, w, s + 1, k - 1, u, e)
    BY <1>0, <1>2, <2>4 DEF Fits, Owned, Record
  <2>. QED
    BY <2>1, <2>3, <2>5
<1>3. ASSUME s # 0, r.strong = 1
      PROVE  Fits([r EXCEPT !.strong = 0, !.unique = TRUE], w, s - 1, k, u + 1, e)
  BY <1>3 DEF Fits, Owned, Record
<1>4. ASSUME r.strong # 0, r.strong # 1
      PROVE  Fits(LoseStrong(r), [w EXCEPT !.strong = @ + 1], s, k, u, e)
  BY <1>4 DEF Fits, Owned, Record, LoseStrong
<1>5. ASSUME e # 0, ~r.unique, r.strong = 1
      PROVE  Fits(LoseWeak([r EXCEPT !.strong = 0, !.unique = TRUE]),
                  [w EXCEPT !.weak = @ + 1], s, k, u + 1, e - 1)
  <2>1. PICK g \in Record : g = [r EXCEPT !.strong = 0, !.unique = TRUE]
    BY DEF Record
  <2>2. g.unique = TRUE /\ g.strong = 0 /\ g.weak = r.weak /\ g.phase = r.phase
    BY <2>1 DEF Record
  <2>3. PICK q \in Record : q = LoseWeak(g)
    BY <1>0, <2>2, LoseWeakFacts
  <2>4. /\ q.unique = TRUE /\ q.strong = 0 /\ q.weak = r.weak - 1
        /\ q.phase = (IF r.weak = 1 THEN "free" ELSE r.phase)
    BY <1>0, <2>2, <2>3, LoseWeakFacts
  <2>. PICK c \in Nat : c = w.weak + 1
    OBVIOUS
  <2>5. PICK v \in [strong : Nat, weak : Nat] : v = [w EXCEPT !.weak = c]
    OBVIOUS
  <2>6. v.strong = w.strong /\ v.weak = w.weak + 1
    BY <2>5
  <2>7. Fits(q, v, s, k, u + 1, e - 1)
    BY <1>0, <1>5, <2>4, <2>6 DEF Fits, Owned, Record
  <2>. QED
    BY <2>1, <2>3, <2>5, <2>7
<1>6. ASSUME e # 0, r.strong # 0
      PROVE  Fits(LoseWeak(LoseStrong(GainWeak(r))), w, s, k, u, e - 1)
  <2>1. PICK g \in Record : g = GainWeak(r)
    BY GainFacts
  <2>2. g.unique = r.unique /\ g.strong = r.strong /\ g.weak = r.weak + 1 /\ g.phase = r.phase
    BY <2>1, GainFacts
  <2>3. r.weak \in Nat /\ r.weak + 1 # 1 /\ r.weak + 1 # 0
    BY <1>0 DEF Record
  <2>4. PICK i \in Record : i = LoseStrong(g)
    BY <1>6, <2>2, <2>3, LoseStrongFacts
  <2>5. /\ i.unique = r.unique /\ i.strong = r.strong - 1
        /\ i.weak = (IF r.strong = 1 THEN r.weak ELSE r.weak + 1)
        /\ i.phase = (IF r.strong # 1 THEN r.phase ELSE "dead")
    <3>1. /\ i.unique = g.unique /\ i.strong = g.strong - 1
          /\ i.weak = (IF g.strong = 1 THEN g.weak - 1 ELSE g.weak)
          /\ i.phase = (IF g.strong # 1 THEN g.phase ELSE IF g.weak = 1 THEN "free" ELSE "dead")
      BY <1>6, <2>2, <2>3, <2>4, LoseStrongFacts
    <3>. QED
      BY <2>2, <2>3, <3>1
  <2>6. i.weak # 0
    BY <1>0, <2>3, <2>5
  <2>7. PICK q \in Record : q = LoseWeak(i)
    BY <2>6, LoseWeakFacts
  <2>8. /\ q.unique = r.unique /\ q.strong = r.strong - 1 /\ q.weak = i.weak - 1
        /\ q.phase = (IF i.weak = 1 THEN "free" ELSE i.phase)
    BY <2>5, <2>6, <2>7, LoseWeakFacts
  <2>9. Fits(q, w, s, k, u, e - 1)
    <3>1. CASE r.strong = 1
      <4>1. i.weak = r.weak /\ i.phase = "dead" /\ q.strong = 0
        BY <2>5, <2>8, <3>1
      <4>. QED
        BY <1>0, <1>6, <2>8, <3>1, <4>1 DEF Fits, Owned, Record
    <3>2. CASE r.strong # 1
      <4>1. i.weak = r.weak + 1 /\ i.phase = r.phase
        BY <2>5, <3>2
      <4>. QED
        BY <1>0, <1>6, <2>3, <2>8, <3>2, <4>1 DEF Fits, Owned, Record
    <3>. QED
      BY <3>1, <3>2
  <2>. QED
    BY <2>1, <2>4, <2>7, <2>9
<1>. QED
  BY <1>1, <1>2, <1>3, <1>4, <1>5, <1>6

-----------------------------------------------------------------------------
(* One lemma per action.                                                   *)

(* What a step that changes one payload has to show. *)
LEMMA StepCounts ==
  ASSUME IInv, ~broken, NEW p \in Payload, NEW q, NEW v,
         pl' = [pl EXCEPT ![p] = q], twice' = [twice EXCEPT ![p] = v],
         \A o \in Payload \ {p} :
           /\ \A m \in Modes : Cardinality(Holding(o, m))' = Cardinality(Holding(o, m))
           /\ Cardinality(Temporaries(o))' = Cardinality(Temporaries(o)),
         Fits(q, v, Cardinality(Holding(p, "shared_ro"))', Cardinality(Holding(p, "weak"))',
              Cardinality(Holding(p, "unique_rw"))', Cardinality(Temporaries(p))')
  PROVE  \A o \in Payload : Counts(o)'
<1>. SUFFICES ASSUME NEW o \in Payload PROVE Counts(o)'
  OBVIOUS
<1>1. CASE o = p
  <2>1. pl'[p] = q /\ twice'[p] = v
    BY DEF IInv, TypeOK
  <2>. QED
    BY <1>1, <2>1 DEF Counts
<1>2. CASE o # p
  <2>1. pl'[o] = pl[o] /\ twice'[o] = twice[o]
    BY <1>2 DEF IInv, TypeOK
  <2>2. Counts(o)
    BY DEF IInv
  <2>. QED
    BY <1>2, <2>1, <2>2 DEF Counts, Modes
<1>. QED
  BY <1>1, <1>2

(* The same of a step that leaves the conversions alone and gives variant  *)
(* h, in no conversion, mode j and payload c, where a payload other than p *)
(* has nothing to do with it.                                              *)
LEMMA MoveCounts ==
  ASSUME IInv, ~broken, NEW p \in Payload, NEW q, NEW v,
         pl' = [pl EXCEPT ![p] = q], twice' = [twice EXCEPT ![p] = v],
         NEW h \in Variant, NEW j \in Modes, NEW c \in {p, Null}, SetVariant(h, j, c),
         ptr[h] \in {p, Null}, \A t \in Thread : arg[t] # h, UNCHANGED arg,
         NEW s, s = Cardinality(Holding(p, "shared_ro"))
                  + Count(c = p /\ j = "shared_ro") - Count(ptr[h] = p /\ mode[h] = "shared_ro"),
         NEW k, k = Cardinality(Holding(p, "weak"))
                  + Count(c = p /\ j = "weak") - Count(ptr[h] = p /\ mode[h] = "weak"),
         NEW u, u = Cardinality(Holding(p, "unique_rw"))
                  + Count(c = p /\ j = "unique_rw") - Count(ptr[h] = p /\ mode[h] = "unique_rw"),
         Fits(q, v, s, k, u, Cardinality(Temporaries(p)))
  PROVE  \A o \in Payload : Counts(o)'
<1>1. TypeOK /\ c \in Payload \cup {Null}
  BY DEF IInv
<1>2. ASSUME NEW o \in Payload, NEW m \in Modes
      PROVE  Cardinality(Holding(o, m))' =
               Cardinality(Holding(o, m)) + Count(c = o /\ j = m) - Count(ptr[h] = o /\ mode[h] = m)
  BY <1>1, HoldingMoves
<1>3. ASSUME NEW o \in Payload PROVE Cardinality(Temporaries(o))' = Cardinality(Temporaries(o))
  BY <1>1, TemporariesSame DEF SetVariant
<1>4. ASSUME NEW o \in Payload \ {p}, NEW m \in Modes
      PROVE  Cardinality(Holding(o, m))' = Cardinality(Holding(o, m))
  <2>1. c # o /\ ptr[h] # o
    BY VariantAssumption
  <2>2. Count(c = o /\ j = m) = 0 /\ Count(ptr[h] = o /\ mode[h] = m) = 0
    BY <2>1 DEF Count
  <2>3. Cardinality(Holding(o, m)) \in Nat
    BY SetsFinite
  <2>. QED
    BY <1>2, <2>2, <2>3
<1>5. "shared_ro" \in Modes /\ "weak" \in Modes /\ "unique_rw" \in Modes
  BY DEF Modes
<1>6. /\ Cardinality(Holding(p, "shared_ro"))' = s
      /\ Cardinality(Holding(p, "weak"))' = k
      /\ Cardinality(Holding(p, "unique_rw"))' = u
      /\ Cardinality(Temporaries(p))' = Cardinality(Temporaries(p))
  BY <1>2, <1>3, <1>5
<1>7. Fits(q, v, Cardinality(Holding(p, "shared_ro"))', Cardinality(Holding(p, "weak"))',
           Cardinality(Holding(p, "unique_rw"))', Cardinality(Temporaries(p))')
  BY <1>6
<1>. QED
  BY <1>3, <1>4, <1>7, StepCounts

LEMMA SpawnWeakInv ==
  ASSUME IInv, NEW t \in Thread, NEW h \in Variant, NEW n \in Variant, SpawnWeak(t, h, n)
  PROVE  IInv'
<1>. PICK p, r, i : p = ptr[h] /\ r = pl[p] /\ i = mode[n]
  OBVIOUS
<1>1. /\ ~broken /\ TypeOK /\ p \in Payload /\ r \in Record /\ SetVariant(n, "weak", p)
      /\ ptr[n] = Null /\ Null # p /\ \A u \in Thread : arg[u] # n
  BY UnusedIdle, VariantAssumption DEF IInv, TypeOK, SpawnWeak, Enter, Unused, Record
<1>2. /\ pl' \in [Payload -> Record] /\ broken' \in BOOLEAN
      /\ ~broken' => r.phase # "free" /\ pl' = [pl EXCEPT ![p] = GainWeak(r)]
  <2>1. Change(p, TRUE, GainWeak(r))
    BY DEF SpawnWeak, Change
  <2>2. GainWeak(r) \in Record
    BY <1>1, GainFacts
  <2>. QED
    BY <1>1, <2>1, <2>2, ChangeInv
<1>3. TypeOK'
  BY <1>1, <1>2 DEF SpawnWeak, SetVariant, TypeOK, Record, Modes
<1>4. LocalInv'
  BY <1>1 DEF SpawnWeak, SetVariant, IInv, LocalInv, TypeOK
<1>5. ASSUME ~broken' PROVE \A o \in Payload : Counts(o)'
  <2>. PICK s, k, u, e, w :
         /\ s = Cardinality(Holding(p, "shared_ro")) /\ k = Cardinality(Holding(p, "weak"))
         /\ u = Cardinality(Holding(p, "unique_rw")) /\ e = Cardinality(Temporaries(p))
         /\ w = twice[p]
    OBVIOUS
  <2>1. s \in Nat /\ k \in Nat /\ u \in Nat /\ e \in Nat /\ w \in [strong : Nat, weak : Nat]
    BY <1>1, SetsFinite DEF TypeOK
  <2>2. Fits(r, w, s, k, u, e)
    BY <1>1 DEF IInv, Counts
  <2>3. Fits(GainWeak(r), w, s, k + 1, u, e)
    BY <1>1, <1>2, <1>5, <2>1, <2>2, Fitting
  <2>4. twice' = [twice EXCEPT ![p] = w]
    BY <1>1 DEF SpawnWeak, TypeOK
  <2>5. ASSUME NEW m PROVE Count(ptr[n] = p /\ mode[n] = m) = 0
    BY <1>1 DEF Count
  <2>6. /\ s = s + Count(p = p /\ "weak" = "shared_ro") - Count(ptr[n] = p /\ mode[n] = "shared_ro")
        /\ k + 1 = k + Count(p = p /\ "weak" = "weak") - Count(ptr[n] = p /\ mode[n] = "weak")
        /\ u = u + Count(p = p /\ "weak" = "unique_rw") - Count(ptr[n] = p /\ mode[n] = "unique_rw")
    BY <2>1, <2>5 DEF Count
  <2>. PICK j, l, q : j = "weak" /\ l = k + 1 /\ q = GainWeak(r)
    OBVIOUS
  <2>7. /\ j \in Modes /\ UNCHANGED arg /\ p \in {p, Null} /\ ptr[n] \in {p, Null}
        /\ SetVariant(n, j, p) /\ pl' = [pl EXCEPT ![p] = q]
    BY <1>1, <1>2, <1>5 DEF SpawnWeak, Modes
  <2>8. Fits(q, w, s, l, u, Cardinality(Temporaries(p)))
    BY <2>3
  <2>9. /\ s = Cardinality(Holding(p, "shared_ro"))
                  + Count(p = p /\ j = "shared_ro") - Count(ptr[n] = p /\ mode[n] = "shared_ro")
        /\ l = Cardinality(Holding(p, "weak"))
                  + Count(p = p /\ j = "weak") - Count(ptr[n] = p /\ mode[n] = "weak")
        /\ u = Cardinality(Holding(p, "unique_rw"))
                  + Count(p = p /\ j = "unique_rw") - Count(ptr[n] = p /\ mode[n] = "unique_rw")
    BY <2>6
  <2>. QED
    BY <1>1, <2>4, <2>7, <2>8, <2>9, MoveCounts
<1>. QED
  BY <1>3, <1>4, <1>5 DEF IInv

LEMMA TryDuplicateInv ==
  ASSUME IInv, NEW t \in Thread, NEW h \in Variant, NEW n \in Variant, TryDuplicate(t, h, n)
  PROVE  IInv'
<1>. PICK p, r, j : p = ptr[h] /\ r = pl[p] /\ j = mode[h]
  OBVIOUS
<1>1. /\ ~broken /\ TypeOK /\ p \in Payload /\ r \in Record /\ SetVariant(n, j, p)
      /\ ptr[n] = Null /\ Null # p /\ \A u \in Thread : arg[u] # n
      /\ j \in {"shared_ro", "weak"} /\ (j = "shared_ro" => ~r.unique)
  BY UnusedIdle, VariantAssumption DEF IInv, TypeOK, TryDuplicate, Enter, Unused, Record
<1>2. PICK q \in Record : q = IF j = "weak" THEN GainWeak(r) ELSE GainStrong(r)
  BY <1>1, GainFacts
<1>3. /\ pl' \in [Payload -> Record] /\ broken' \in BOOLEAN
      /\ ~broken' => /\ r.phase # "free" /\ pl' = [pl EXCEPT ![p] = q]
                     /\ j = "shared_ro" => r.phase = "live"
  <2>1. CASE j = "weak"
    <3>1. Change(p, TRUE, q)
      BY <1>2, <2>1 DEF TryDuplicate, Change
    <3>. QED
      BY <1>1, <2>1, <3>1, ChangeInv
  <2>2. CASE j = "shared_ro"
    <3>1. Change(p, Alive(p), q)
      BY <1>2, <2>2 DEF TryDuplicate, Change
    <3>. QED
      BY <1>1, <2>2, <3>1, ChangeInv DEF Alive
  <2>. QED
    BY <1>1, <2>1, <2>2
<1>4. TypeOK'
  BY <1>1, <1>3 DEF TryDuplicate, SetVariant, TypeOK, Record, Modes
<1>5. LocalInv'
  BY <1>1 DEF TryDuplicate, SetVariant, IInv, LocalInv, TypeOK
<1>6. ASSUME ~broken' PROVE \A o \in Payload : Counts(o)'
  <2>. PICK s, k, u, e, w :
         /\ s = Cardinality(Holding(p, "shared_ro")) /\ k = Cardinality(Holding(p, "weak"))
         /\ u = Cardinality(Holding(p, "unique_rw")) /\ e = Cardinality(Temporaries(p))
         /\ w = twice[p]
    OBVIOUS
  <2>1. s \in Nat /\ k \in Nat /\ u \in Nat /\ e \in Nat /\ w \in [strong : Nat, weak : Nat]
    BY <1>1, SetsFinite DEF TypeOK
  <2>2. Fits(r, w, s, k, u, e)
    BY <1>1 DEF IInv, Counts
  <2>. PICK l, c : l = k + Count(j = "weak") /\ c = s + Count(j = "shared_ro")
    OBVIOUS
  <2>3. Fits(q, w, c, l, u, e)
    <3>1. CASE j = "weak"
      <4>1. q = GainWeak(r) /\ l = k + 1 /\ c = s
        BY <1>2, <2>1, <3>1 DEF Count
      <4>. QED
        BY <1>1, <1>3, <1>6, <2>1, <2>2, <4>1, Fitting
    <3>2. CASE j = "shared_ro"
      <4>1. q = GainStrong(r) /\ l = k /\ c = s + 1
        BY <1>2, <2>1, <3>2 DEF Count
      <4>. QED
        BY <1>1, <1>3, <1>6, <2>1, <2>2, <3>2, <4>1, Fitting
    <3>. QED
      BY <1>1, <3>1, <3>2
  <2>4. /\ twice' = [twice EXCEPT ![p] = w] /\ UNCHANGED arg
        /\ j \in Modes /\ p \in {p, Null} /\ ptr[n] \in {p, Null}
    BY <1>1 DEF TryDuplicate, TypeOK, Modes
  <2>5. Fits(q, w, c, l, u, Cardinality(Temporaries(p)))
    BY <2>3
  <2>6. ASSUME NEW m PROVE Count(ptr[n] = p /\ mode[n] = m) = 0
    BY <1>1 DEF Count
  <2>7. /\ c = Cardinality(Holding(p, "shared_ro"))
                  + Count(p = p /\ j = "shared_ro") - Count(ptr[n] = p /\ mode[n] = "shared_ro")
        /\ l = Cardinality(Holding(p, "weak"))
                  + Count(p = p /\ j = "weak") - Count(ptr[n] = p /\ mode[n] = "weak")
        /\ u = Cardinality(Holding(p, "unique_rw"))
                  + Count(p = p /\ j = "unique_rw") - Count(ptr[n] = p /\ mode[n] = "unique_rw")
    BY <1>1, <2>1, <2>6 DEF Count
  <2>. QED
    BY <1>1, <1>3, <1>6, <2>4, <2>5, <2>7, MoveCounts
<1>. QED
  BY <1>4, <1>5, <1>6 DEF IInv

LEMMA DestroyInv ==
  ASSUME IInv, NEW t \in Thread, NEW h \in Variant, Destroy(t, h)
  PROVE  IInv'
<1>. PICK p, r, j : p = ptr[h] /\ r = pl[p] /\ j = mode[h]
  OBVIOUS
<1>1. /\ ~broken /\ TypeOK /\ p \in Payload /\ r \in Record /\ SetVariant(h, j, Null)
      /\ Null # p /\ \A u \in Thread : arg[u] # h
      /\ j \in Modes /\ ptr[h] = p /\ mode[h] = j
  BY VariantAssumption DEF IInv, TypeOK, Destroy, Enter, Record
<1>2. Change(p, MayLose(r, j), Lose(r, j))
  BY DEF Destroy, GiveBack, Change
<1>3. r.phase # "free" => r.weak # 0
  BY <1>1 DEF IInv, Counts, Fits
<1>4. ASSUME r.phase # "free" /\ MayLose(r, j)
      PROVE  /\ Lose(r, j) \in Record
             /\ j = "unique_rw" => Lose(r, j) = LoseUnique(r) /\ r.unique /\ r.strong = 0
             /\ j = "shared_ro" => Lose(r, j) = LoseStrong(r) /\ r.strong # 0
             /\ j = "weak" => Lose(r, j) = LoseWeak(r) /\ (r.weak = 1 => ~r.unique /\ r.strong = 0)
  BY <1>1, <1>3, <1>4, LoseWeakFacts, LoseUniqueFacts, LoseStrongFacts DEF Lose, MayLose, Modes
<1>5. /\ pl' \in [Payload -> Record] /\ broken' \in BOOLEAN
      /\ ~broken' => r.phase # "free" /\ MayLose(r, j) /\ pl' = [pl EXCEPT ![p] = Lose(r, j)]
  BY <1>1, <1>2, <1>4, ChangeInv
<1>6. TypeOK'
  BY <1>1, <1>5 DEF Destroy, SetVariant, TypeOK, Record
<1>7. LocalInv'
  BY <1>1 DEF Destroy, SetVariant, IInv, LocalInv, TypeOK
<1>8. ASSUME ~broken' PROVE \A o \in Payload : Counts(o)'
  <2>. PICK s, k, u, e, w :
         /\ s = Cardinality(Holding(p, "shared_ro")) /\ k = Cardinality(Holding(p, "weak"))
         /\ u = Cardinality(Holding(p, "unique_rw")) /\ e = Cardinality(Temporaries(p))
         /\ w = twice[p]
    OBVIOUS
  <2>1. s \in Nat /\ k \in Nat /\ u \in Nat /\ e \in Nat /\ w \in [strong : Nat, weak : Nat]
    BY <1>1, SetsFinite DEF TypeOK
  <2>2. Fits(r, w, s, k, u, e)
    BY <1>1 DEF IInv, Counts
  <2>3. h \in Holding(p, j)
    BY <1>1 DEF Holding
  <2>4. (j = "shared_ro" => s # 0) /\ (j = "weak" => k # 0) /\ (j = "unique_rw" => u # 0)
    BY <2>3, SetsFinite, FS_EmptySet
  <2>. PICK c, l, d, q :
         /\ c = s - Count(j = "shared_ro") /\ l = k - Count(j = "weak")
         /\ d = u - Count(j = "unique_rw") /\ q = Lose(r, j)
    OBVIOUS
  <2>5. Fits(q, w, c, l, d, e)
    <3>1. CASE j = "weak"
      <4>1. c = s /\ l = k - 1 /\ d = u
        BY <2>1, <3>1 DEF Count
      <4>. QED
        BY <1>1, <1>4, <1>5, <1>8, <2>1, <2>2, <2>4, <3>1, <4>1, FittingLoss
    <3>2. CASE j = "shared_ro"
      <4>1. c = s - 1 /\ l = k /\ d = u
        BY <2>1, <3>2 DEF Count
      <4>. QED
        BY <1>1, <1>4, <1>5, <1>8, <2>1, <2>2, <2>4, <3>2, <4>1, FittingLoss
    <3>3. CASE j = "unique_rw"
      <4>1. c = s /\ l = k /\ d = u - 1
        BY <2>1, <3>3 DEF Count
      <4>. QED
        BY <1>1, <1>4, <1>5, <1>8, <2>1, <2>2, <2>4, <3>3, <4>1, FittingLoss
    <3>. QED
      BY <1>1, <3>1, <3>2, <3>3 DEF Modes
  <2>6. /\ twice' = [twice EXCEPT ![p] = w] /\ UNCHANGED arg
        /\ Null \in {p, Null} /\ ptr[h] \in {p, Null} /\ pl' = [pl EXCEPT ![p] = q]
    BY <1>1, <1>5, <1>8 DEF Destroy, TypeOK
  <2>7. Fits(q, w, c, l, d, Cardinality(Temporaries(p)))
    BY <2>5
  <2>8. /\ c = Cardinality(Holding(p, "shared_ro"))
                  + Count(Null = p /\ j = "shared_ro") - Count(ptr[h] = p /\ mode[h] = "shared_ro")
        /\ l = Cardinality(Holding(p, "weak"))
                  + Count(Null = p /\ j = "weak") - Count(ptr[h] = p /\ mode[h] = "weak")
        /\ d = Cardinality(Holding(p, "unique_rw"))
                  + Count(Null = p /\ j = "unique_rw") - Count(ptr[h] = p /\ mode[h] = "unique_rw")
    BY <1>1, <2>1 DEF Count
  <2>. QED
    BY <1>1, <2>6, <2>7, <2>8, MoveCounts
<1>. QED
  BY <1>6, <1>7, <1>8 DEF IInv

LEMMA ConstructInv ==
  ASSUME IInv, NEW h \in Variant, NEW p \in Payload, Construct(h, p)
  PROVE  IInv'
<1>. PICK q, w, j : /\ q = [unique |-> TRUE, strong |-> 0, weak |-> 1, phase |-> "live"]
                   /\ w = [strong |-> 0, weak |-> 0] /\ j = "unique_rw"
  OBVIOUS
<1>1. /\ ~broken /\ ~broken' /\ TypeOK /\ q \in Record /\ w \in [strong : Nat, weak : Nat]
      /\ SetVariant(h, j, p) /\ j \in Modes /\ ptr[h] = Null /\ Null # p
      /\ pl' = [pl EXCEPT ![p] = q] /\ twice' = [twice EXCEPT ![p] = w]
      /\ \A u \in Thread : arg[u] # h
  BY UnusedIdle, VariantAssumption DEF IInv, Construct, Unused, Record, Modes
<1>2. TypeOK'
  <2>1. pl' \in [Payload -> Record] /\ twice' \in [Payload -> [strong : Nat, weak : Nat]]
    BY <1>1 DEF TypeOK, Record
  <2>. QED
    BY <1>1, <2>1 DEF Construct, SetVariant, TypeOK, Record
<1>3. LocalInv'
  BY <1>1 DEF Construct, SetVariant, IInv, LocalInv, TypeOK
<1>4. \A o \in Payload : Counts(o)'
  <2>1. ASSUME NEW m PROVE Cardinality(Holding(p, m)) = 0
    <3>1. Holding(p, m) = {}
      BY DEF Construct, Holding
    <3>. QED
      BY <3>1, FS_EmptySet
  <2>2. Cardinality(Temporaries(p)) = 0
    <3>1. Temporaries(p) = {}
      BY <1>1, VariantAssumption DEF Construct, Temporaries, TypeOK
    <3>. QED
      BY <3>1, FS_EmptySet
  <2>3. Fits(q, w, 0, 0, 1, 0)
    BY DEF Fits, Owned
  <2>4. Fits(q, w, 0, 0, 1, Cardinality(Temporaries(p)))
    BY <2>2, <2>3
  <2>5. /\ 0 = Cardinality(Holding(p, "shared_ro"))
                  + Count(p = p /\ j = "shared_ro") - Count(ptr[h] = p /\ mode[h] = "shared_ro")
        /\ 0 = Cardinality(Holding(p, "weak"))
                  + Count(p = p /\ j = "weak") - Count(ptr[h] = p /\ mode[h] = "weak")
        /\ 1 = Cardinality(Holding(p, "unique_rw"))
                  + Count(p = p /\ j = "unique_rw") - Count(ptr[h] = p /\ mode[h] = "unique_rw")
    BY <1>1, <2>1 DEF Count
  <2>6. UNCHANGED arg /\ p \in {p, Null} /\ ptr[h] \in {p, Null}
    BY <1>1 DEF Construct
  <2>. QED
    BY <1>1, <2>4, <2>5, <2>6, MoveCounts
<1>. QED
  BY <1>2, <1>3, <1>4 DEF IInv

LEMMA ConvertToReadonlyInv ==
  ASSUME IInv, NEW t \in Thread, NEW h \in Variant, ConvertToReadonly(t, h)
  PROVE  IInv'
<1>. PICK p, r, i, j : p = ptr[h] /\ r = pl[p] /\ i = mode[h] /\ j = "shared_ro"
  OBVIOUS
<1>1. /\ ~broken /\ TypeOK /\ p \in Payload /\ r \in Record /\ SetVariant(h, j, p)
      /\ Null # p /\ \A u \in Thread : arg[u] # h
      /\ j \in Modes /\ ptr[h] = p /\ mode[h] = i /\ i \in {"unique_rw", "weak"}
      /\ i = "weak" => ~r.unique /\ r.strong # 0
  BY VariantAssumption DEF IInv, TypeOK, ConvertToReadonly, Enter, Record, Modes
<1>2. r.phase # "free" => r.weak # 0
  BY <1>1 DEF IInv, Counts, Fits
<1>3. PICK q : q = IF i = "unique_rw" THEN [r EXCEPT !.unique = FALSE, !.strong = 1]
                                      ELSE LoseWeak(GainStrong(r))
  OBVIOUS
<1>4. r.phase # "free" => q \in Record
  <2>1. GainStrong(r) \in Record /\ GainStrong(r).weak = r.weak
    BY <1>1, GainFacts
  <2>2. r.phase # "free" => LoseWeak(GainStrong(r)) \in Record
    BY <1>2, <2>1, LoseWeakFacts
  <2>3. [r EXCEPT !.unique = FALSE, !.strong = 1] \in Record
    BY <1>1 DEF Record
  <2>. QED
    BY <1>3, <2>2, <2>3
<1>5. /\ pl' \in [Payload -> Record] /\ broken' \in BOOLEAN
      /\ ~broken' => /\ r.phase # "free" /\ pl' = [pl EXCEPT ![p] = q]
                     /\ i = "unique_rw" => r.unique /\ r.strong = 0
  <2>1. CASE i = "unique_rw"
    <3>1. Change(p, MayLose(r, "unique_rw"), q)
      BY <1>3, <2>1 DEF ConvertToReadonly, Change
    <3>2. MayLose(r, "unique_rw") => r.unique /\ r.strong = 0
      BY DEF MayLose
    <3>. QED
      BY <1>1, <1>4, <3>1, <3>2, ChangeInv
  <2>2. CASE i = "weak"
    <3>1. Change(p, TRUE, q)
      BY <1>3, <2>2 DEF ConvertToReadonly, Change
    <3>. QED
      BY <1>1, <1>4, <2>2, <3>1, ChangeInv
  <2>. QED
    BY <1>1, <2>1, <2>2
<1>6. TypeOK'
  BY <1>1, <1>5 DEF ConvertToReadonly, SetVariant, TypeOK, Record, Modes
<1>7. LocalInv'
  BY <1>1 DEF ConvertToReadonly, SetVariant, IInv, LocalInv, TypeOK
<1>8. ASSUME ~broken' PROVE \A o \in Payload : Counts(o)'
  <2>. PICK s, k, u, e, w :
         /\ s = Cardinality(Holding(p, "shared_ro")) /\ k = Cardinality(Holding(p, "weak"))
         /\ u = Cardinality(Holding(p, "unique_rw")) /\ e = Cardinality(Temporaries(p))
         /\ w = twice[p]
    OBVIOUS
  <2>1. s \in Nat /\ k \in Nat /\ u \in Nat /\ e \in Nat /\ w \in [strong : Nat, weak : Nat]
    BY <1>1, SetsFinite DEF TypeOK
  <2>2. Fits(r, w, s, k, u, e)
    BY <1>1 DEF IInv, Counts
  <2>3. h \in Holding(p, i)
    BY <1>1 DEF Holding
  <2>4. (i = "weak" => k # 0) /\ (i = "unique_rw" => u # 0)
    BY <2>3, SetsFinite, FS_EmptySet
  <2>. PICK c, l, d : c = s + 1 /\ l = k - Count(i = "weak") /\ d = u - Count(i = "unique_rw")
    OBVIOUS
  <2>5. Fits(q, w, c, l, d, e)
    <3>1. CASE i = "weak"
      <4>1. l = k - 1 /\ d = u /\ q = LoseWeak(GainStrong(r))
        BY <1>3, <2>1, <3>1 DEF Count
      <4>. QED
        <5>1. k # 0 /\ ~r.unique /\ r.strong # 0 /\ r.phase # "free"
          BY <1>1, <1>5, <1>8, <2>4, <3>1
        <5>2. Fits(LoseWeak(GainStrong(r)), w, s + 1, k - 1, u, e)
          BY <1>1, <2>1, <2>2, <5>1, FittingConversion
        <5>. QED
          BY <4>1, <5>2
    <3>2. CASE i = "unique_rw"
      <4>1. l = k /\ d = u - 1 /\ q = [r EXCEPT !.unique = FALSE, !.strong = 1]
        BY <1>3, <2>1, <3>2 DEF Count
      <4>. QED
        <5>1. u # 0 /\ r.unique /\ r.strong = 0 /\ r.phase # "free"
          BY <1>1, <1>5, <1>8, <2>4, <3>2
        <5>2. Fits([r EXCEPT !.unique = FALSE, !.strong = 1], w, s + 1, k, u - 1, e)
          BY <1>1, <2>1, <2>2, <5>1, FittingConversion
        <5>. QED
          BY <4>1, <5>2
    <3>. QED
      BY <1>1, <3>1, <3>2
  <2>6. /\ twice' = [twice EXCEPT ![p] = w] /\ UNCHANGED arg
        /\ p \in {p, Null} /\ ptr[h] \in {p, Null} /\ pl' = [pl EXCEPT ![p] = q]
    BY <1>1, <1>5, <1>8 DEF ConvertToReadonly, TypeOK
  <2>7. Fits(q, w, c, l, d, Cardinality(Temporaries(p)))
    BY <2>5
  <2>8. /\ c = Cardinality(Holding(p, "shared_ro"))
                  + Count(p = p /\ j = "shared_ro") - Count(ptr[h] = p /\ mode[h] = "shared_ro")
        /\ l = Cardinality(Holding(p, "weak"))
                  + Count(p = p /\ j = "weak") - Count(ptr[h] = p /\ mode[h] = "weak")
        /\ d = Cardinality(Holding(p, "unique_rw"))
                  + Count(p = p /\ j = "unique_rw") - Count(ptr[h] = p /\ mode[h] = "unique_rw")
    BY <1>1, <2>1 DEF Count
  <2>. QED
    BY <1>1, <2>6, <2>7, <2>8, MoveCounts
<1>. QED
  BY <1>6, <1>7, <1>8 DEF IInv

(* A step that gives back a reference which the variant still holds. *)
LEMMA PromoteSharedFailsInv ==
  ASSUME IInv, NEW t \in Thread, NEW h \in Variant, PromoteShared(t, h), pl[ptr[h]].strong # 1
  PROVE  IInv'
<1>. PICK p, r, w : p = ptr[h] /\ r = pl[p] /\ w = twice[p]
  OBVIOUS
<1>. PICK n : n = w.strong + 1
  OBVIOUS
<1>. PICK v : v = [w EXCEPT !.strong = n]
  OBVIOUS
<1>1. /\ ~broken /\ TypeOK /\ p \in Payload /\ r \in Record /\ w \in [strong : Nat, weak : Nat]
      /\ r.strong # 1 /\ v \in [strong : Nat, weak : Nat] /\ v = [w EXCEPT !.strong = @ + 1]
      /\ twice' = [twice EXCEPT ![p] = v] /\ UNCHANGED <<mode, ptr, at, arg>>
  <2>1. /\ ~broken /\ TypeOK /\ p \in Payload /\ r \in Record /\ w \in [strong : Nat, weak : Nat]
    BY VariantAssumption DEF IInv, TypeOK, PromoteShared, Enter, Record
  <2>2. n \in Nat
    BY <2>1
  <2>3. v \in [strong : Nat, weak : Nat] /\ v = [w EXCEPT !.strong = @ + 1]
    BY <2>1, <2>2
  <2>4. twice' = [twice EXCEPT ![p].strong = @ + 1] /\ UNCHANGED <<mode, ptr, at, arg>>
    BY DEF PromoteShared
  <2>5. twice' = [twice EXCEPT ![p] = v]
    BY <2>1, <2>4 DEF TypeOK
  <2>. QED
    BY <2>1, <2>3, <2>4, <2>5
<1>2. r.phase # "free" => r.weak # 0
  BY <1>1 DEF IInv, Counts, Fits
<1>3. /\ pl' \in [Payload -> Record] /\ broken' \in BOOLEAN
      /\ ~broken' => r.phase # "free" /\ r.strong # 0 /\ pl' = [pl EXCEPT ![p] = LoseStrong(r)]
  <2>1. Change(p, MayLose(r, "shared_ro"), LoseStrong(r))
    BY <1>1 DEF PromoteShared, GiveBack, Lose, Change
  <2>2. MayLose(r, "shared_ro") => r.strong # 0
    BY DEF MayLose
  <2>3. r.phase # "free" /\ MayLose(r, "shared_ro") => LoseStrong(r) \in Record
    BY <1>1, <1>2, <2>2, LoseStrongFacts
  <2>. QED
    BY <1>1, <2>1, <2>2, <2>3, ChangeInv
<1>4. TypeOK'
  BY <1>1, <1>3 DEF TypeOK, Record
<1>5. LocalInv'
  BY <1>1 DEF IInv, LocalInv
<1>6. ASSUME ~broken' PROVE \A o \in Payload : Counts(o)'
  <2>. PICK q : q = LoseStrong(r)
    OBVIOUS
  <2>. PICK s, k, u, e :
         /\ s = Cardinality(Holding(p, "shared_ro")) /\ k = Cardinality(Holding(p, "weak"))
         /\ u = Cardinality(Holding(p, "unique_rw")) /\ e = Cardinality(Temporaries(p))
    OBVIOUS
  <2>1. s \in Nat /\ k \in Nat /\ u \in Nat /\ e \in Nat
    BY SetsFinite
  <2>2. Fits(r, w, s, k, u, e)
    BY <1>1 DEF IInv, Counts
  <2>3. r.phase # "free" /\ r.strong # 0 /\ r.strong # 1
    BY <1>1, <1>3, <1>6
  <2>4. Fits(q, v, s, k, u, e)
    <3>1. Fits(LoseStrong(r), [w EXCEPT !.strong = @ + 1], s, k, u, e)
      BY <1>1, <2>1, <2>2, <2>3, FittingConversion
    <3>. QED
      BY <1>1, <3>1
  <2>5. \A o, m : Holding(o, m)' = Holding(o, m) /\ Temporaries(o)' = Temporaries(o)
    BY <1>1 DEF Holding, Temporaries
  <2>6. Fits(q, v, Cardinality(Holding(p, "shared_ro"))', Cardinality(Holding(p, "weak"))',
              Cardinality(Holding(p, "unique_rw"))', Cardinality(Temporaries(p))')
    BY <2>4, <2>5
  <2>7. pl' = [pl EXCEPT ![p] = q]
    BY <1>3, <1>6
  <2>. QED
    BY <1>1, <2>5, <2>6, <2>7, StepCounts
<1>. QED
  BY <1>4, <1>5, <1>6 DEF IInv

LEMMA PromoteSharedSucceedsInv ==
  ASSUME IInv, NEW t \in Thread, NEW h \in Variant, PromoteShared(t, h), pl[ptr[h]].strong = 1
  PROVE  IInv'
<1>. PICK p, r, j, q : /\ p = ptr[h] /\ r = pl[p] /\ j = "unique_rw"
                      /\ q = [r EXCEPT !.strong = 0, !.unique = TRUE]
  OBVIOUS
<1>1. /\ ~broken /\ TypeOK /\ p \in Payload /\ r \in Record /\ SetVariant(h, j, p)
      /\ Null # p /\ \A u \in Thread : arg[u] # h
      /\ j \in Modes /\ ptr[h] = p /\ mode[h] = "shared_ro" /\ r.strong = 1
      /\ UNCHANGED <<at, arg, twice>>
  BY VariantAssumption DEF IInv, TypeOK, PromoteShared, Enter, Record, Modes
<1>2. q \in Record
  BY <1>1 DEF Record
<1>3. /\ pl' \in [Payload -> Record] /\ broken' \in BOOLEAN
      /\ ~broken' => r.phase # "free" /\ pl' = [pl EXCEPT ![p] = q]
  <2>1. Change(p, TRUE, q)
    BY <1>1 DEF PromoteShared, Change
  <2>. QED
    BY <1>1, <1>2, <2>1, ChangeInv
<1>4. TypeOK'
  BY <1>1, <1>3 DEF SetVariant, TypeOK, Record, Modes
<1>5. LocalInv'
  BY <1>1 DEF SetVariant, IInv, LocalInv, TypeOK
<1>6. ASSUME ~broken' PROVE \A o \in Payload : Counts(o)'
  <2>. PICK s, k, u, e, w :
         /\ s = Cardinality(Holding(p, "shared_ro")) /\ k = Cardinality(Holding(p, "weak"))
         /\ u = Cardinality(Holding(p, "unique_rw")) /\ e = Cardinality(Temporaries(p))
         /\ w = twice[p]
    OBVIOUS
  <2>1. s \in Nat /\ k \in Nat /\ u \in Nat /\ e \in Nat /\ w \in [strong : Nat, weak : Nat]
    BY <1>1, SetsFinite DEF TypeOK
  <2>2. Fits(r, w, s, k, u, e)
    BY <1>1 DEF IInv, Counts
  <2>3. h \in Holding(p, "shared_ro")
    BY <1>1 DEF Holding
  <2>4. s # 0 /\ r.strong = 1 /\ r.phase # "free"
    BY <1>1, <1>3, <1>6, <2>3, SetsFinite, FS_EmptySet
  <2>. PICK c, d : c = s - 1 /\ d = u + 1
    OBVIOUS
  <2>5. Fits(q, w, c, k, d, e)
    BY <1>1, <2>1, <2>2, <2>4, FittingConversion
  <2>6. /\ twice' = [twice EXCEPT ![p] = w] /\ UNCHANGED arg
        /\ p \in {p, Null} /\ ptr[h] \in {p, Null} /\ pl' = [pl EXCEPT ![p] = q]
    BY <1>1, <1>3, <1>6 DEF TypeOK
  <2>7. Fits(q, w, c, k, d, Cardinality(Temporaries(p)))
    BY <2>5
  <2>8. /\ c = Cardinality(Holding(p, "shared_ro"))
                  + Count(p = p /\ j = "shared_ro") - Count(ptr[h] = p /\ mode[h] = "shared_ro")
        /\ k = Cardinality(Holding(p, "weak"))
                  + Count(p = p /\ j = "weak") - Count(ptr[h] = p /\ mode[h] = "weak")
        /\ d = Cardinality(Holding(p, "unique_rw"))
                  + Count(p = p /\ j = "unique_rw") - Count(ptr[h] = p /\ mode[h] = "unique_rw")
    BY <1>1, <2>1 DEF Count
  <2>. QED
    BY <1>1, <2>6, <2>7, <2>8, MoveCounts
<1>. QED
  BY <1>4, <1>5, <1>6 DEF IInv

LEMMA PromoteWeakSpawnInv ==
  ASSUME IInv, NEW t \in Thread, NEW h \in Variant, PromoteWeakSpawn(t, h)
  PROVE  IInv'
<1>. PICK p, r : p = ptr[h] /\ r = pl[p]
  OBVIOUS
<1>1. /\ ~broken /\ TypeOK /\ p \in Payload /\ r \in Record /\ Null # p /\ ptr[h] = p
      /\ \A u \in Thread : arg[u] # h
      /\ arg[t] = Null /\ h # Null /\ mode[h] = "weak" /\ ~r.unique /\ r.strong # 0
      /\ Goto(t, "spawned", h) /\ UNCHANGED <<mode, ptr, twice>>
  BY VariantAssumption DEF IInv, TypeOK, LocalInv, PromoteWeakSpawn, Enter, Record
<1>2. /\ pl' \in [Payload -> Record] /\ broken' \in BOOLEAN
      /\ ~broken' => r.phase # "free" /\ pl' = [pl EXCEPT ![p] = GainStrong(r)]
  <2>1. Change(p, TRUE, GainStrong(r))
    BY DEF PromoteWeakSpawn, Change
  <2>2. GainStrong(r) \in Record
    BY <1>1, GainFacts
  <2>. QED
    BY <1>1, <2>1, <2>2, ChangeInv
<1>3. TypeOK'
  BY <1>1, <1>2 DEF Goto, TypeOK, Record
<1>4. LocalInv'
  BY <1>1 DEF Goto, IInv, LocalInv, TypeOK
<1>5. ASSUME ~broken' PROVE \A o \in Payload : Counts(o)'
  <2>. PICK s, k, u, e, w :
         /\ s = Cardinality(Holding(p, "shared_ro")) /\ k = Cardinality(Holding(p, "weak"))
         /\ u = Cardinality(Holding(p, "unique_rw")) /\ e = Cardinality(Temporaries(p))
         /\ w = twice[p]
    OBVIOUS
  <2>1. s \in Nat /\ k \in Nat /\ u \in Nat /\ e \in Nat /\ w \in [strong : Nat, weak : Nat]
    BY <1>1, SetsFinite DEF TypeOK
  <2>2. Fits(r, w, s, k, u, e)
    BY <1>1 DEF IInv, Counts
  <2>. PICK q, f : q = GainStrong(r) /\ f = e + 1
    OBVIOUS
  <2>3. r.phase # "free" /\ r.phase = "live"
    BY <1>1, <1>2, <1>5, <2>2 DEF Fits, Owned
  <2>4. Fits(q, w, s, k, u, f)
    BY <1>1, <2>1, <2>2, <2>3, Fitting
  <2>5. ASSUME NEW o \in Payload
        PROVE  Cardinality(Temporaries(o))' = Cardinality(Temporaries(o)) + Count(h # Null /\ ptr[h] = o)
    BY <1>1, TemporariesMove
  <2>6. Cardinality(Temporaries(p))' = f
    BY <1>1, <2>1, <2>5 DEF Count
  <2>7. \A o, m : Cardinality(Holding(o, m))' = Cardinality(Holding(o, m))
    BY <1>1, HoldingSame
  <2>8. \A o \in Payload \ {p} :
          /\ \A m \in Modes : Cardinality(Holding(o, m))' = Cardinality(Holding(o, m))
          /\ Cardinality(Temporaries(o))' = Cardinality(Temporaries(o))
    <3>1. ASSUME NEW o \in Payload \ {p} PROVE Cardinality(Temporaries(o))' = Cardinality(Temporaries(o))
      <4>1. Count(h # Null /\ ptr[h] = o) = 0
        BY <1>1 DEF Count
      <4>2. Cardinality(Temporaries(o)) \in Nat
        BY SetsFinite
      <4>. QED
        BY <2>5, <4>1, <4>2
    <3>. QED
      BY <2>7, <3>1
  <2>9. Fits(q, w, Cardinality(Holding(p, "shared_ro"))', Cardinality(Holding(p, "weak"))',
             Cardinality(Holding(p, "unique_rw"))', Cardinality(Temporaries(p))')
    BY <2>4, <2>6, <2>7
  <2>10. pl' = [pl EXCEPT ![p] = q] /\ twice' = [twice EXCEPT ![p] = w]
    BY <1>1, <1>2, <1>5 DEF TypeOK
  <2>. QED
    BY <1>1, <2>8, <2>9, <2>10, StepCounts
<1>. QED
  BY <1>3, <1>4, <1>5 DEF IInv

LEMMA PromoteWeakFailsInv ==
  ASSUME IInv, NEW t \in Thread, PromoteWeakFails(t)
  PROVE  IInv'
<1>1. /\ TypeOK /\ arg[t] # Null /\ Goto(t, "failed", arg[t])
      /\ UNCHANGED <<pl, mode, ptr, twice, broken>>
  BY DEF IInv, TypeOK, LocalInv, PromoteWeakFails
<1>2. arg' = arg
  BY <1>1 DEF Goto, TypeOK
<1>3. TypeOK'
  BY <1>1, <1>2 DEF Goto, TypeOK
<1>4. LocalInv'
  BY <1>1, <1>2 DEF Goto, IInv, LocalInv, TypeOK
<1>5. \A o, m : Holding(o, m)' = Holding(o, m) /\ Temporaries(o)' = Temporaries(o)
  BY <1>1, <1>2 DEF Holding, Temporaries
<1>6. ASSUME ~broken', NEW o \in Payload PROVE Counts(o)'
  BY <1>1, <1>5, <1>6 DEF IInv, Counts
<1>. QED
  BY <1>3, <1>4, <1>6 DEF IInv

LEMMA PromoteWeakUndoInv ==
  ASSUME IInv, NEW t \in Thread, PromoteWeakUndo(t)
  PROVE  IInv'
<1>. PICK h, p, r : h = arg[t] /\ p = ptr[h] /\ r = pl[p]
  OBVIOUS
<1>1. /\ ~broken /\ TypeOK /\ h \in Variant /\ p \in Payload /\ r \in Record
      /\ arg[t] = h /\ ptr[h] = p /\ arg[t] # Null
      /\ Goto(t, "idle", Null) /\ UNCHANGED <<mode, ptr, twice>>
  BY VariantAssumption DEF IInv, TypeOK, LocalInv, PromoteWeakUndo, Record
<1>2. GainWeak(r) \in Record /\ GainWeak(r).strong = r.strong /\ GainWeak(r).weak = r.weak + 1
  BY <1>1, GainFacts
<1>3. r.phase # "free" => r.weak # 0
  BY <1>1 DEF IInv, Counts, Fits
<1>4. ASSUME r.phase # "free", r.strong # 0
      PROVE  LoseWeak(LoseStrong(GainWeak(r))) \in Record
  <2>1. r.weak \in Nat /\ r.weak # 0 /\ r.weak + 1 # 0
    BY <1>1, <1>3, <1>4 DEF Record
  <2>2. /\ LoseStrong(GainWeak(r)) \in Record
        /\ LoseStrong(GainWeak(r)).weak = IF r.strong = 1 THEN r.weak + 1 - 1 ELSE r.weak + 1
    BY <1>2, <1>4, <2>1, LoseStrongFacts
  <2>3. LoseStrong(GainWeak(r)).weak # 0
    BY <2>1, <2>2
  <2>. QED
    BY <2>2, <2>3, LoseWeakFacts
<1>5. /\ pl' \in [Payload -> Record] /\ broken' \in BOOLEAN
      /\ ~broken' => /\ r.phase # "free" /\ r.strong # 0
                     /\ pl' = [pl EXCEPT ![p] = LoseWeak(LoseStrong(GainWeak(r)))]
  <2>. PICK b, q : /\ b = (MayLose(GainWeak(r), "shared_ro") /\ MayLose(LoseStrong(GainWeak(r)), "weak"))
                   /\ q = LoseWeak(LoseStrong(GainWeak(r)))
    OBVIOUS
  <2>1. Change(p, b, q)
    BY <1>1 DEF PromoteWeakUndo, Change
  <2>2. b => r.strong # 0
    BY <1>2 DEF MayLose
  <2>3. r.phase # "free" /\ b => q \in Record
    BY <1>4, <2>2
  <2>. QED
    BY <1>1, <2>1, <2>2, <2>3, ChangeInv
<1>6. TypeOK'
  BY <1>1, <1>5 DEF Goto, TypeOK, Record
<1>7. LocalInv'
  BY <1>1 DEF Goto, IInv, LocalInv, TypeOK
<1>8. ASSUME ~broken' PROVE \A o \in Payload : Counts(o)'
  <2>. PICK s, k, u, e, w :
         /\ s = Cardinality(Holding(p, "shared_ro")) /\ k = Cardinality(Holding(p, "weak"))
         /\ u = Cardinality(Holding(p, "unique_rw")) /\ e = Cardinality(Temporaries(p))
         /\ w = twice[p]
    OBVIOUS
  <2>1. s \in Nat /\ k \in Nat /\ u \in Nat /\ e \in Nat /\ w \in [strong : Nat, weak : Nat]
    BY <1>1, SetsFinite DEF TypeOK
  <2>2. Fits(r, w, s, k, u, e)
    BY <1>1 DEF IInv, Counts
  <2>. PICK q, f : q = LoseWeak(LoseStrong(GainWeak(r))) /\ f = e - 1
    OBVIOUS
  <2>3. t \in Temporaries(p)
    BY <1>1 DEF Temporaries
  <2>4. e # 0 /\ r.strong # 0 /\ r.phase # "free"
    BY <1>5, <1>8, <2>3, SetsFinite, FS_EmptySet
  <2>5. Fits(q, w, s, k, u, f)
    BY <1>1, <2>1, <2>2, <2>4, FittingConversion
  <2>6. ASSUME NEW o \in Payload
        PROVE  Cardinality(Temporaries(o))' = Cardinality(Temporaries(o)) - Count(arg[t] # Null /\ ptr[arg[t]] = o)
    BY <1>1, TemporariesMove
  <2>7. Cardinality(Temporaries(p))' = f
    BY <1>1, <2>1, <2>6 DEF Count
  <2>8. \A o, m : Cardinality(Holding(o, m))' = Cardinality(Holding(o, m))
    BY <1>1, HoldingSame
  <2>9. \A o \in Payload \ {p} :
          /\ \A m \in Modes : Cardinality(Holding(o, m))' = Cardinality(Holding(o, m))
          /\ Cardinality(Temporaries(o))' = Cardinality(Temporaries(o))
    <3>1. ASSUME NEW o \in Payload \ {p} PROVE Cardinality(Temporaries(o))' = Cardinality(Temporaries(o))
      <4>1. Count(arg[t] # Null /\ ptr[arg[t]] = o) = 0
        BY <1>1 DEF Count
      <4>2. Cardinality(Temporaries(o)) \in Nat
        BY SetsFinite
      <4>. QED
        BY <2>6, <4>1, <4>2
    <3>. QED
      BY <2>8, <3>1
  <2>10. Fits(q, w, Cardinality(Holding(p, "shared_ro"))', Cardinality(Holding(p, "weak"))',
              Cardinality(Holding(p, "unique_rw"))', Cardinality(Temporaries(p))')
    BY <2>5, <2>7, <2>8
  <2>11. pl' = [pl EXCEPT ![p] = q] /\ twice' = [twice EXCEPT ![p] = w]
    BY <1>1, <1>5, <1>8 DEF TypeOK
  <2>. QED
    BY <1>1, <2>9, <2>10, <2>11, StepCounts
<1>. QED
  BY <1>6, <1>7, <1>8 DEF IInv

LEMMA PromoteWeakSucceedsInv ==
  ASSUME IInv, NEW t \in Thread, NEW n \in Variant, PromoteWeakSucceeds(t, n)
  PROVE  IInv'
<1>. PICK h, p, r, w, j, z :
       /\ h = arg[t] /\ p = ptr[h] /\ r = pl[p] /\ w = twice[p] /\ j = "unique_rw"
       /\ z = [r EXCEPT !.strong = 0, !.unique = TRUE]
  OBVIOUS
<1>. PICK c : c = w.weak + 1
  OBVIOUS
<1>. PICK v : v = [w EXCEPT !.weak = c]
  OBVIOUS
<1>1. /\ ~broken /\ TypeOK /\ h \in Variant /\ p \in Payload /\ r \in Record /\ Null # p
      /\ arg[t] = h /\ ptr[h] = p /\ arg[t] # Null /\ ~r.unique /\ r.strong = 1
      /\ w \in [strong : Nat, weak : Nat] /\ z \in Record /\ z.weak = r.weak
      /\ Goto(t, "idle", Null) /\ SetVariant(n, j, p) /\ j \in Modes
      /\ ptr[n] = Null /\ \A u \in Thread : arg[u] # n
  <2>1. TypeOK /\ LocalInv
    BY DEF IInv
  <2>2. /\ ~broken /\ ~r.unique /\ r.strong = 1 /\ Goto(t, "idle", Null)
        /\ SetVariant(n, j, p) /\ ptr[n] = Null /\ at[t] = "spawned"
    BY DEF PromoteWeakSucceeds, Unused
  <2>3. h \in Variant /\ p \in Payload /\ Null # p /\ arg[t] # Null
    BY <2>1, <2>2, VariantAssumption DEF TypeOK, LocalInv
  <2>4. r \in Record /\ w \in [strong : Nat, weak : Nat]
    BY <2>1, <2>3 DEF TypeOK, Record
  <2>5. z \in Record /\ z.weak = r.weak
    BY <2>4 DEF Record
  <2>6. \A u \in Thread : arg[u] # n
    BY <2>2, UnusedIdle DEF Unused
  <2>. QED
    BY <2>1, <2>2, <2>3, <2>4, <2>5, <2>6 DEF Modes
<1>2. /\ v \in [strong : Nat, weak : Nat] /\ v = [w EXCEPT !.weak = @ + 1]
      /\ twice' = [twice EXCEPT ![p] = v]
  <2>1. c \in Nat
    BY <1>1
  <2>2. v \in [strong : Nat, weak : Nat] /\ v = [w EXCEPT !.weak = @ + 1]
    BY <1>1, <2>1
  <2>3. twice' = [twice EXCEPT ![p].weak = @ + 1]
    BY DEF PromoteWeakSucceeds
  <2>4. twice' = [twice EXCEPT ![p] = v]
    BY <1>1, <2>3 DEF TypeOK
  <2>. QED
    BY <2>2, <2>4
<1>3. r.phase # "free" => r.weak # 0
  BY <1>1 DEF IInv, Counts, Fits
<1>4. /\ pl' \in [Payload -> Record] /\ broken' \in BOOLEAN
      /\ ~broken' => r.phase # "free" /\ pl' = [pl EXCEPT ![p] = LoseWeak(z)]
  <2>. PICK q : q = LoseWeak(z)
    OBVIOUS
  <2>1. Change(p, TRUE, q)
    BY DEF PromoteWeakSucceeds, Change
  <2>2. r.phase # "free" => q \in Record
    BY <1>1, <1>3, LoseWeakFacts
  <2>. QED
    BY <1>1, <2>1, <2>2, ChangeInv
<1>5. TypeOK'
  BY <1>1, <1>2, <1>4 DEF Goto, SetVariant, TypeOK, Record
<1>6. LocalInv'
  BY <1>1 DEF Goto, SetVariant, IInv, LocalInv, TypeOK
<1>7. ASSUME ~broken' PROVE \A o \in Payload : Counts(o)'
  <2>. PICK s, k, u, e :
         /\ s = Cardinality(Holding(p, "shared_ro")) /\ k = Cardinality(Holding(p, "weak"))
         /\ u = Cardinality(Holding(p, "unique_rw")) /\ e = Cardinality(Temporaries(p))
    OBVIOUS
  <2>1. s \in Nat /\ k \in Nat /\ u \in Nat /\ e \in Nat
    BY SetsFinite
  <2>2. Fits(r, w, s, k, u, e)
    BY <1>1 DEF IInv, Counts
  <2>. PICK q, f, d : q = LoseWeak(z) /\ f = e - 1 /\ d = u + 1
    OBVIOUS
  <2>3. t \in Temporaries(p)
    BY <1>1 DEF Temporaries
  <2>4. e # 0 /\ ~r.unique /\ r.strong = 1 /\ r.phase # "free"
    BY <1>1, <1>4, <1>7, <2>3, SetsFinite, FS_EmptySet
  <2>5. Fits(q, v, s, k, d, f)
    <3>1. Fits(LoseWeak([r EXCEPT !.strong = 0, !.unique = TRUE]),
               [w EXCEPT !.weak = @ + 1], s, k, u + 1, e - 1)
      BY <1>1, <2>1, <2>2, <2>4, FittingConversion
    <3>. QED
      BY <1>2, <3>1
  <2>6. ASSUME NEW o \in Payload, NEW m \in Modes
        PROVE  Cardinality(Holding(o, m))' =
                 Cardinality(Holding(o, m)) + Count(p = o /\ j = m) - Count(ptr[n] = o /\ mode[n] = m)
    BY <1>1, HoldingMoves
  <2>7. ASSUME NEW o \in Payload, NEW m PROVE Count(ptr[n] = o /\ mode[n] = m) = 0
    BY <1>1, VariantAssumption DEF Count
  <2>8. ASSUME NEW o \in Payload
        PROVE  Cardinality(Temporaries(o))' = Cardinality(Temporaries(o)) - Count(arg[t] # Null /\ ptr[arg[t]] = o)
    <3>1. \A y \in Thread : arg[y] # Null => ptr'[arg[y]] = ptr[arg[y]]
      BY <1>1 DEF SetVariant, TypeOK
    <3>. QED
      BY <1>1, <3>1, TemporariesMove
  <2>9. \A o \in Payload \ {p} :
          /\ \A m \in Modes : Cardinality(Holding(o, m))' = Cardinality(Holding(o, m))
          /\ Cardinality(Temporaries(o))' = Cardinality(Temporaries(o))
    <3>1. ASSUME NEW o \in Payload \ {p} PROVE Cardinality(Temporaries(o))' = Cardinality(Temporaries(o))
      <4>1. Count(arg[t] # Null /\ ptr[arg[t]] = o) = 0
        BY <1>1 DEF Count
      <4>2. Cardinality(Temporaries(o)) \in Nat
        BY SetsFinite
      <4>. QED
        BY <2>8, <4>1, <4>2
    <3>2. ASSUME NEW o \in Payload \ {p}, NEW m \in Modes
          PROVE  Cardinality(Holding(o, m))' = Cardinality(Holding(o, m))
      <4>1. Count(p = o /\ j = m) = 0
        BY DEF Count
      <4>2. Cardinality(Holding(o, m)) \in Nat
        BY SetsFinite
      <4>. QED
        BY <2>6, <2>7, <4>1, <4>2
    <3>. QED
      BY <3>1, <3>2
  <2>10. /\ Cardinality(Holding(p, "shared_ro"))' = s /\ Cardinality(Holding(p, "weak"))' = k
         /\ Cardinality(Holding(p, "unique_rw"))' = d /\ Cardinality(Temporaries(p))' = f
    <3>1. "shared_ro" \in Modes /\ "weak" \in Modes /\ "unique_rw" \in Modes
      BY DEF Modes
    <3>2. Cardinality(Temporaries(p))' = f
      BY <1>1, <2>1, <2>8 DEF Count
    <3>3. /\ Count(p = p /\ j = "shared_ro") = 0 /\ Count(p = p /\ j = "weak") = 0
          /\ Count(p = p /\ j = "unique_rw") = 1
      BY DEF Count
    <3>. QED
      BY <1>1, <2>1, <2>6, <2>7, <3>1, <3>2, <3>3
  <2>11. Fits(q, v, Cardinality(Holding(p, "shared_ro"))', Cardinality(Holding(p, "weak"))',
              Cardinality(Holding(p, "unique_rw"))', Cardinality(Temporaries(p))')
    BY <2>5, <2>10
  <2>12. pl' = [pl EXCEPT ![p] = q]
    BY <1>4, <1>7
  <2>. QED
    BY <1>1, <1>2, <2>9, <2>11, <2>12, StepCounts
<1>. QED
  BY <1>5, <1>6, <1>7 DEF IInv

-----------------------------------------------------------------------------
LEMMA InitInv == ASSUME Init PROVE IInv
<1>1. TypeOK /\ LocalInv
  BY VariantAssumption DEF Init, TypeOK, LocalInv, Modes
<1>2. ASSUME NEW p \in Payload PROVE Counts(p)
  <2>1. \A m : Holding(p, m) = {} /\ Temporaries(p) = {}
    BY VariantAssumption DEF Init, Holding, Temporaries
  <2>2. Fits(pl[p], twice[p], 0, 0, 0, 0)
    BY DEF Init, Fits, Owned
  <2>. QED
    BY <2>1, <2>2, FS_EmptySet DEF Counts
<1>. QED
  BY <1>1, <1>2 DEF IInv

LEMMA StutterInv == ASSUME IInv, UNCHANGED vars PROVE IInv'
<1>1. TypeOK' /\ LocalInv'
  BY DEF IInv, TypeOK, LocalInv, vars
<1>2. \A p, m : Holding(p, m)' = Holding(p, m) /\ Temporaries(p)' = Temporaries(p)
  BY DEF Holding, Temporaries, vars
<1>3. ASSUME ~broken', NEW p \in Payload PROVE Counts(p)'
  BY <1>2, <1>3 DEF IInv, Counts, vars
<1>. QED
  BY <1>1, <1>3 DEF IInv

(* The counters always stand in the relation IInv to the variants, the     *)
(* conversions under way and the references that were given back twice,    *)
(* whatever the functions of the variant do and in whatever order.         *)
THEOREM Inductive == Spec => []IInv
<1>1. Init => IInv
  BY InitInv
<1>2. IInv /\ [Next]_vars => IInv'
  <2>. SUFFICES ASSUME IInv, [Next]_vars PROVE IInv'
    OBVIOUS
  <2>1. ASSUME NEW h \in Variant, NEW p \in Payload, Construct(h, p) PROVE IInv'
    BY <2>1, ConstructInv
  <2>2. ASSUME NEW t \in Thread, NEW h \in Variant, ConvertToReadonly(t, h) PROVE IInv'
    BY <2>2, ConvertToReadonlyInv
  <2>3. ASSUME NEW t \in Thread, NEW h \in Variant, PromoteShared(t, h) PROVE IInv'
    BY <2>3, PromoteSharedFailsInv, PromoteSharedSucceedsInv
  <2>4. ASSUME NEW t \in Thread, NEW h \in Variant, PromoteWeakSpawn(t, h) PROVE IInv'
    BY <2>4, PromoteWeakSpawnInv
  <2>5. ASSUME NEW t \in Thread, NEW n \in Variant, PromoteWeakSucceeds(t, n) PROVE IInv'
    BY <2>5, PromoteWeakSucceedsInv
  <2>6. ASSUME NEW t \in Thread, NEW h \in Variant, Destroy(t, h) PROVE IInv'
    BY <2>6, DestroyInv
  <2>7. ASSUME NEW t \in Thread, NEW h \in Variant, NEW n \in Variant,
               SpawnWeak(t, h, n) \/ TryDuplicate(t, h, n)
        PROVE  IInv'
    BY <2>7, SpawnWeakInv, TryDuplicateInv
  <2>8. ASSUME NEW t \in Thread, PromoteWeakFails(t) \/ PromoteWeakUndo(t) PROVE IInv'
    BY <2>8, PromoteWeakFailsInv, PromoteWeakUndoInv
  <2>9. CASE UNCHANGED vars
    BY <2>9, StutterInv
  <2>. QED
    BY <2>1, <2>2, <2>3, <2>4, <2>5, <2>6, <2>7, <2>8, <2>9 DEF Next
<1>. QED
  BY <1>1, <1>2, PTL DEF Spec

-----------------------------------------------------------------------------
(* What follows from it.                                                   *)

(* Apart from the references given back twice, the counters are exactly    *)
(* the variants and the read-only handles of conversions under way.        *)
THEOREM BalanceCorrect == Spec => []Balance
<1>1. IInv => Balance
  <2>. SUFFICES ASSUME IInv PROVE Balance
    OBVIOUS
  <2>1. ASSUME NEW p \in Payload, ~broken, pl[p].phase # "free"
        PROVE  /\ pl[p].strong + twice[p].strong =
                    Cardinality(Holding(p, "shared_ro")) + Cardinality(Temporaries(p))
               /\ pl[p].weak + twice[p].weak =
                    Cardinality(Holding(p, "weak")) + (IF pl[p].phase = "live" THEN 1 ELSE 0)
    BY <2>1 DEF IInv, Counts, Fits
  <2>. QED
    BY <2>1 DEF Balance, IInv
<1>. QED
  BY <1>1, Inductive, PTL

(* A set of variants with no or with one element. *)
LEMMA FewHolders ==
  ASSUME NEW p, NEW m
  PROVE  /\ Cardinality(Holding(p, m)) = 0 => Holding(p, m) = {}
         /\ Cardinality(Holding(p, m)) = 1 => \A h \in Holding(p, m) : Holding(p, m) = {h}
         /\ Cardinality(Temporaries(p)) = 0 => Temporaries(p) = {}
<1>1. ASSUME Cardinality(Holding(p, m)) = 1, NEW h \in Holding(p, m) PROVE Holding(p, m) = {h}
  <2>1. IsFiniteSet(Holding(p, m) \ {h}) /\ Cardinality(Holding(p, m) \ {h}) = 0
    BY <1>1, SetsFinite, FS_RemoveElement
  <2>. QED
    BY <2>1, FS_EmptySet
<1>. QED
  BY <1>1, SetsFinite, FS_EmptySet

(* Where no reference was given back twice, the object of a unique or a    *)
(* shared variant is alive, and a unique variant is alone.                 *)
THEOREM OwnersIntactCorrect == Spec => []OwnersIntact
<1>1. IInv => OwnersIntact
  <2>. SUFFICES ASSUME IInv, NEW p \in Payload, ~broken, twice[p].strong + twice[p].weak = 0
                PROVE  /\ Holding(p, "unique_rw") \cup Holding(p, "shared_ro") # {} => pl[p].phase = "live"
                       /\ \A h \in Holding(p, "unique_rw") :
                            Holding(p, "unique_rw") \cup Holding(p, "shared_ro") = {h} /\ Temporaries(p) = {}
    BY DEF OwnersIntact
  <2>. PICK r, w, s, k, u, e :
         /\ r = pl[p] /\ w = twice[p]
         /\ s = Cardinality(Holding(p, "shared_ro")) /\ k = Cardinality(Holding(p, "weak"))
         /\ u = Cardinality(Holding(p, "unique_rw")) /\ e = Cardinality(Temporaries(p))
    OBVIOUS
  <2>1. /\ s \in Nat /\ k \in Nat /\ u \in Nat /\ e \in Nat
        /\ r \in Record /\ w \in [strong : Nat, weak : Nat] /\ Fits(r, w, s, k, u, e)
    BY SetsFinite DEF IInv, TypeOK, Record, Counts
  <2>2. w.strong = 0 /\ w.weak = 0
    BY <2>1
  <2>3. ASSUME u # 0 \/ s # 0 PROVE r.phase = "live"
    <3>1. r.unique \/ r.strong # 0
      BY <2>1, <2>2, <2>3 DEF Fits, Record
    <3>2. r.weak # 0
      BY <2>1, <2>2, <3>1 DEF Fits, Owned, Record
    <3>. QED
      BY <2>1, <3>1, <3>2 DEF Fits, Owned
  <2>4. ASSUME u # 0 PROVE u = 1 /\ s = 0 /\ e = 0
    BY <2>1, <2>2, <2>4 DEF Fits, Record
  <2>5. (u = 0 <=> Holding(p, "unique_rw") = {}) /\ (s = 0 <=> Holding(p, "shared_ro") = {})
    BY FewHolders, FS_EmptySet
  <2>6. ASSUME NEW h \in Holding(p, "unique_rw")
        PROVE  Holding(p, "unique_rw") \cup Holding(p, "shared_ro") = {h} /\ Temporaries(p) = {}
    <3>1. u = 1 /\ s = 0 /\ e = 0
      BY <2>4, <2>5, <2>6
    <3>. QED
      BY <2>5, <3>1, FewHolders
  <2>. QED
    BY <2>3, <2>5, <2>6
<1>. QED
  BY <1>1, Inductive, PTL

(* Memory to which no variant points is given back. *)
THEOREM NoLeakCorrect == Spec => []NoLeak
<1>1. IInv => NoLeak
  <2>. SUFFICES ASSUME IInv, NEW p \in Payload, ~broken, \A h \in Variant : ptr[h] # p
                PROVE  pl[p].phase = "free"
    BY DEF NoLeak
  <2>. PICK r, w : r = pl[p] /\ w = twice[p]
    OBVIOUS
  <2>1. \A m : Holding(p, m) = {}
    BY DEF Holding
  <2>2. Temporaries(p) = {}
    BY DEF Temporaries, IInv, TypeOK
  <2>3. r \in Record /\ w \in [strong : Nat, weak : Nat] /\ Fits(r, w, 0, 0, 0, 0)
    BY <2>1, <2>2, FS_EmptySet DEF IInv, TypeOK, Record, Counts
  <2>4. r.strong = 0 /\ w.strong = 0
    BY <2>3 DEF Fits, Record
  <2>5. ASSUME r.weak # 0 PROVE FALSE
    <3>1. Owned(r) /\ r.weak = 1 /\ w.weak = 0
      BY <2>3, <2>5 DEF Fits, Record
    <3>2. w.strong + w.weak = 0 /\ r.unique
      BY <2>4, <3>1 DEF Owned
    <3>. QED
      BY <2>3, <3>2 DEF Fits
  <2>. QED
    BY <2>3, <2>5 DEF Fits
<1>. QED
  BY <1>1, Inductive, PTL
=============================================================================
