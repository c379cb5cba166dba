---------------------------- MODULE ValuesProofs ----------------------------
(***************************************************************************)
(* An inductive invariant of Values, for any number of holders, objects    *)
(* and errors, as long as the program makes none of the uses that are      *)
(* known to fail, and the two safety properties that follow from it.       *)
(***************************************************************************)
EXTENDS Values, TLAPS

KindSet == Kinds \cup {None}
TagSet == Errors \cup {Holding, Null}
ObjSet == Objects \cup {Raw}

Shaped(w) ==
    /\ DOMAIN w = {"kind", "tag", "obj", "fault"}
    /\ w.kind \in [Holders -> KindSet] /\ w.tag \in [Holders -> TagSet] /\ w.obj \in [Holders -> ObjSet]

(* One holder: its storage has an object when it says so, content is what  *)
(* should be in it, only a result holds an error, and a generator counts   *)
(* its yields.                                                             *)
Fine(kind, tag, obj, content) ==
    /\ obj # Raw <=> kind # None /\ tag = Holding
    /\ kind # None => content = IF tag = Holding THEN <<obj>> ELSE tag
    /\ kind \in {"opt", "owned", "anystatus", "generator"} => tag \in {Holding, Null}
    /\ kind = "generator" /\ tag = Holding => obj \in 0 .. Length

(* The holders w contain what c says. *)
Good(w, c) ==
    /\ Shaped(w) /\ w.fault \subseteq OwnersFault /\ DOMAIN c = Holders
    /\ \A x \in Holders : Fine(w.kind[x], w.tag[x], w.obj[x], c[x])

(* What is referred to is the object of an optional or a result. *)
RefInv == /\ ref \in Holders \cup Errors \cup {Null}
          /\ ref \in Holders => s.kind[ref] \in {"opt", "res"}

GotInv == DOMAIN got = {"is", "should"} /\ got.is = got.should

IInv == Good(s, want) /\ RefInv /\ GotInv

-----------------------------------------------------------------------------
(* What the calls of the types do, field by field: u is w but for some     *)
(* holders, which are as At says.                                          *)

At(u, x, kind, tag, obj) == u.kind[x] = kind /\ u.tag[x] = tag /\ u.obj[x] = obj

SameBut(u, w, H) ==
    /\ Shaped(u) /\ u.fault \subseteq w.fault \cup OwnersFault
    /\ \A x \in Holders \ H : At(u, x, w.kind[x], w.tag[x], w.obj[x])

(* A change is good when it is for every holder that it touches. *)
LEMMA GoodAfter ==
    ASSUME NEW w, NEW c, Good(w, c), NEW u, NEW d, NEW H, SameBut(u, w, H), DOMAIN d = Holders,
           \A x \in Holders \ H : d[x] = c[x],
           \A x \in H : Fine(u.kind[x], u.tag[x], u.obj[x], d[x])
    PROVE  Good(u, d)
BY DEF Good, SameBut, At

LEMMA Distinct ==
    /\ None \notin Kinds /\ Moved # Raw /\ Moved \in Objects /\ Holding # Null
    /\ Moved \in ObjSet /\ Raw \in ObjSet /\ Holding \in TagSet /\ Null \in TagSet /\ None \in KindSet
    /\ \A v \in Values \cup Errors \cup 0 .. Length : v # Raw /\ v \in Objects
    /\ \A v \in Objects : v # Raw /\ v \in ObjSet
    /\ Holding \notin Errors
    /\ \A v \in Objects : <<v>> \notin Errors \cup {Null}
BY ValuesAssumption DEF Objects, None, Holding, ObjSet, TagSet, KindSet

Fields(u, w, kind, tag, obj) ==
    /\ DOMAIN u = {"kind", "tag", "obj", "fault"} /\ u.fault = w.fault
    /\ u.kind = kind /\ u.tag = tag /\ u.obj = obj

-----------------------------------------------------------------------------
(* Constructors, assignments and takings, for holders that are as the      *)
(* actions demand.                                                         *)

LEMMA BornAs ==
    ASSUME NEW w, NEW c, Good(w, c), NEW h \in Holders, w.kind[h] = None, NEW k \in Kinds,
           NEW t \in TagSet,
           NEW u, u = Born(w, h, k, t)
    PROVE  SameBut(u, w, {h}) /\ At(u, h, k, t, Raw)
<1>. Shaped(w)
  BY DEF Good
<1>a. /\ w.obj[h] = Raw
      /\ w.kind[h] \in KindSet /\ w.tag[h] \in TagSet /\ w.obj[h] \in ObjSet
  BY DEF Good, Fine, Holds, None, Shaped
<1>b. /\ Holding # Null /\ Moved # Raw
      /\ Holding \in TagSet /\ Null \in TagSet /\ Moved \in ObjSet /\ Raw \in ObjSet
      /\ k \in KindSet /\ k # None
  BY Distinct DEF KindSet
<1>1. Fields(u, w, [w.kind EXCEPT ![h] = k], [w.tag EXCEPT ![h] = t], w.obj)
  BY <1>a, <1>b DEF Fields, Shaped, None, Born, Holds
<1>. QED
  BY <1>a, <1>b, <1>1 DEF Fields, Shaped, SameBut, At, Holds, None

LEMMA EmplacedAs ==
    ASSUME NEW w, NEW c, Good(w, c), NEW h \in Holders, w.kind[h] = None, NEW k \in Kinds,
           NEW v \in Objects,
           NEW u, u = Emplaced(Born(w, h, k, Null), h, v)
    PROVE  SameBut(u, w, {h}) /\ At(u, h, k, Holding, v)
<1>. Shaped(w)
  BY DEF Good
<1>a. /\ w.obj[h] = Raw
      /\ w.kind[h] \in KindSet /\ w.tag[h] \in TagSet /\ w.obj[h] \in ObjSet
  BY DEF Good, Fine, Holds, None, Shaped
<1>b. /\ Holding # Null /\ Moved # Raw
      /\ Holding \in TagSet /\ Null \in TagSet /\ Moved \in ObjSet /\ Raw \in ObjSet
      /\ k \in KindSet /\ k # None
      /\ v \in ObjSet /\ v # Raw
  BY Distinct DEF KindSet
<1>1. Fields(u, w, [w.kind EXCEPT ![h] = k], [w.tag EXCEPT ![h] = Holding], [w.obj EXCEPT ![h] = v])
  BY <1>a, <1>b DEF Fields, Shaped, None, Emplaced, Born, Tagged, emplace_nodestroy,
      ConstructedAt, Faulty, Holds
<1>. QED
  BY <1>a, <1>b, <1>1 DEF Fields, Shaped, SameBut, At, Holds, None

LEMMA MadeAs ==
    ASSUME NEW w, NEW c, Good(w, c), NEW h \in Holders, w.kind[h] = None, "res" \in Kinds,
           NEW v \in Objects, NEW t \in TagSet,
           NEW u, u = ResMade(w, h, v, t)
    PROVE  SameBut(u, w, {h}) /\ At(u, h, "res", t, IF t = Holding THEN v ELSE Raw)
<1>. Shaped(w)
  BY DEF Good
<1>a. /\ w.obj[h] = Raw
      /\ w.kind[h] \in KindSet /\ w.tag[h] \in TagSet /\ w.obj[h] \in ObjSet
  BY DEF Good, Fine, Holds, None, Shaped
<1>b. /\ Holding # Null /\ Moved # Raw
      /\ Holding \in TagSet /\ Null \in TagSet /\ Moved \in ObjSet /\ Raw \in ObjSet
      /\ "res" \in KindSet
      /\ v \in ObjSet /\ v # Raw
  BY Distinct DEF KindSet
<1>1. CASE t = Holding
  <2>1. Fields(u, w, [w.kind EXCEPT ![h] = "res"], [w.tag EXCEPT ![h] = t], [w.obj EXCEPT ![h] = v])
    BY <1>a, <1>b, <1>1 DEF Fields, Shaped, None, ResMade, Born, ConstructedAt, Faulty, Holds
  <2>. QED
    BY <1>a, <1>b, <1>1, <2>1 DEF Fields, Shaped, SameBut, At, Holds, None
<1>2. CASE t # Holding
  <2>1. Fields(u, w, [w.kind EXCEPT ![h] = "res"], [w.tag EXCEPT ![h] = t], w.obj)
    BY <1>a, <1>b, <1>2 DEF Fields, Shaped, None, ResMade, Born, ConstructedAt, Faulty, Holds
  <2>. QED
    BY <1>a, <1>b, <1>2, <2>1 DEF Fields, Shaped, SameBut, At, Holds, None
<1>. QED
  BY <1>1, <1>2

LEMMA OptCopyConstructedAs ==
    ASSUME NEW w, NEW c, Good(w, c), NEW h \in Holders, NEW g \in Holders, w.kind[h] = None,
           w.kind[g] = "opt",
           NEW u, u = OptCopyConstructed(w, h, g)
    PROVE  SameBut(u, w, {h}) /\ At(u, h, "opt", w.tag[g], w.obj[g])
<1>. Shaped(w)
  BY DEF Good
<1>a. /\ w.obj[h] = Raw
      /\ w.kind[h] \in KindSet /\ w.tag[h] \in TagSet /\ w.obj[h] \in ObjSet
      /\ (w.obj[g] # Raw <=> Holds(w, g))
      /\ w.tag[g] \in {Holding, Null}
      /\ w.kind[g] \in KindSet /\ w.tag[g] \in TagSet /\ w.obj[g] \in ObjSet
      /\ h # g
  BY DEF Good, Fine, Holds, None, Shaped
<1>b. /\ Holding # Null /\ Moved # Raw
      /\ Holding \in TagSet /\ Null \in TagSet /\ Moved \in ObjSet /\ Raw \in ObjSet
  BY Distinct DEF KindSet
<1>1. CASE Holds(w, g)
  <2>1. Fields(u, w, [w.kind EXCEPT ![h] = "opt"], [w.tag EXCEPT ![h] = Holding],
           [w.obj EXCEPT ![h] = w.obj[g]])
    BY <1>a, <1>b, <1>1 DEF Fields, Shaped, None, OptCopyConstructed, Holds, Emplaced, Born,
        Tagged, emplace_nodestroy, ConstructedAt, Faulty
  <2>. QED
    BY <1>a, <1>b, <1>1, <2>1 DEF Fields, Shaped, SameBut, At, Holds, None
<1>2. CASE ~Holds(w, g)
  <2>1. Fields(u, w, [w.kind EXCEPT ![h] = "opt"], [w.tag EXCEPT ![h] = Null], w.obj)
    BY <1>a, <1>b, <1>2 DEF Fields, Shaped, None, OptCopyConstructed, Holds, Emplaced, Born,
        Tagged, emplace_nodestroy, ConstructedAt, Faulty
  <2>. QED
    BY <1>a, <1>b, <1>2, <2>1 DEF Fields, Shaped, SameBut, At, Holds, None
<1>. QED
  BY <1>1, <1>2

LEMMA OptConvertedAs ==
    ASSUME NEW w, NEW c, Good(w, c), NEW h \in Holders, NEW g \in Holders, w.kind[h] = None,
           w.kind[g] = "opt",
           NEW u, u = OptConverted(w, h, g)
    PROVE  SameBut(u, w, {h}) /\ At(u, h, "opt", w.tag[g], w.obj[g])
<1>. Shaped(w)
  BY DEF Good
<1>a. /\ w.obj[h] = Raw
      /\ w.kind[h] \in KindSet /\ w.tag[h] \in TagSet /\ w.obj[h] \in ObjSet
      /\ (w.obj[g] # Raw <=> Holds(w, g))
      /\ w.tag[g] \in {Holding, Null}
      /\ w.kind[g] \in KindSet /\ w.tag[g] \in TagSet /\ w.obj[g] \in ObjSet
      /\ h # g
  BY DEF Good, Fine, Holds, None, Shaped
<1>b. /\ Holding # Null /\ Moved # Raw
      /\ Holding \in TagSet /\ Null \in TagSet /\ Moved \in ObjSet /\ Raw \in ObjSet
  BY Distinct DEF KindSet
<1>1. CASE Holds(w, g)
  <2>1. Fields(u, w, [w.kind EXCEPT ![h] = "opt"], [w.tag EXCEPT ![h] = w.tag[g]],
           [w.obj EXCEPT ![h] = w.obj[g]])
    BY <1>a, <1>b, <1>1 DEF Fields, Shaped, None, OptConverted, Born, Holds, emplace_nodestroy,
        ConstructedAt, Faulty
  <2>. QED
    BY <1>a, <1>b, <1>1, <2>1 DEF Fields, Shaped, SameBut, At, Holds, None
<1>2. CASE ~Holds(w, g)
  <2>1. Fields(u, w, [w.kind EXCEPT ![h] = "opt"], [w.tag EXCEPT ![h] = w.tag[g]], w.obj)
    BY <1>a, <1>b, <1>2 DEF Fields, Shaped, None, OptConverted, Born, Holds, emplace_nodestroy,
        ConstructedAt, Faulty
  <2>. QED
    BY <1>a, <1>b, <1>2, <2>1 DEF Fields, Shaped, SameBut, At, Holds, None
<1>. QED
  BY <1>1, <1>2

LEMMA ResConvertedAs ==
    ASSUME NEW w, NEW c, Good(w, c), NEW h \in Holders, NEW g \in Holders, w.kind[h] = None,
           w.kind[g] = "res",
           NEW u, u = ResConverted(w, h, g)
    PROVE  SameBut(u, w, {h}) /\ At(u, h, "res", w.tag[g], w.obj[g])
<1>. Shaped(w)
  BY DEF Good
<1>a. /\ w.obj[h] = Raw
      /\ w.kind[h] \in KindSet /\ w.tag[h] \in TagSet /\ w.obj[h] \in ObjSet
      /\ (w.obj[g] # Raw <=> Holds(w, g))
      /\ w.kind[g] \in KindSet /\ w.tag[g] \in TagSet /\ w.obj[g] \in ObjSet
      /\ h # g
  BY DEF Good, Fine, Holds, None, Shaped
<1>b. /\ Holding # Null /\ Moved # Raw
      /\ Holding \in TagSet /\ Null \in TagSet /\ Moved \in ObjSet /\ Raw \in ObjSet
  BY Distinct DEF KindSet
<1>1. CASE Holds(w, g)
  <2>1. Fields(u, w, [w.kind EXCEPT ![h] = "res"], [w.tag EXCEPT ![h] = w.tag[g]],
           [w.obj EXCEPT ![h] = w.obj[g]])
    BY <1>a, <1>b, <1>1 DEF Fields, Shaped, None, ResConverted, Born, Holds, ConstructedAt, Faulty
  <2>. QED
    BY <1>a, <1>b, <1>1, <2>1 DEF Fields, Shaped, SameBut, At, Holds, None
<1>2. CASE ~Holds(w, g)
  <2>1. Fields(u, w, [w.kind EXCEPT ![h] = "res"], [w.tag EXCEPT ![h] = w.tag[g]], w.obj)
    BY <1>a, <1>b, <1>2 DEF Fields, Shaped, None, ResConverted, Born, Holds, ConstructedAt, Faulty
  <2>. QED
    BY <1>a, <1>b, <1>2, <2>1 DEF Fields, Shaped, SameBut, At, Holds, None
<1>. QED
  BY <1>1, <1>2

LEMMA OptMoveConstructedAs ==
    ASSUME NEW w, NEW c, Good(w, c), NEW h \in Holders, NEW g \in Holders, w.kind[h] = None,
           w.kind[g] = "opt",
           NEW u, u = OptMoveConstructed(w, h, g)
    PROVE  /\ SameBut(u, w, {h, g})
           /\ At(u, h, "opt", w.tag[g], w.obj[g])
           /\ At(u, g, "opt", w.tag[g], IF Holds(w, g) THEN Moved ELSE Raw)
<1>. Shaped(w)
  BY DEF Good
<1>a. /\ w.obj[h] = Raw
      /\ w.kind[h] \in KindSet /\ w.tag[h] \in TagSet /\ w.obj[h] \in ObjSet
      /\ (w.obj[g] # Raw <=> Holds(w, g))
      /\ w.tag[g] \in {Holding, Null}
      /\ w.kind[g] \in KindSet /\ w.tag[g] \in TagSet /\ w.obj[g] \in ObjSet
      /\ h # g
  BY DEF Good, Fine, Holds, None, Shaped
<1>b. /\ Holding # Null /\ Moved # Raw
      /\ Holding \in TagSet /\ Null \in TagSet /\ Moved \in ObjSet /\ Raw \in ObjSet
  BY Distinct DEF KindSet
<1>1. CASE Holds(w, g)
  <2>1. Fields(u, w, [w.kind EXCEPT ![h] = "opt"], [w.tag EXCEPT ![h] = Holding],
           [w.obj EXCEPT ![h] = w.obj[g], ![g] = Moved])
    BY <1>a, <1>b, <1>1 DEF Fields, Shaped, None, OptMoveConstructed, Holds, MovedOut, Emplaced,
        Born, Tagged, emplace_nodestroy, ConstructedAt, Faulty, AssignedTo
  <2>. QED
    BY <1>a, <1>b, <1>1, <2>1 DEF Fields, Shaped, SameBut, At, Holds, None
<1>2. CASE ~Holds(w, g)
  <2>1. Fields(u, w, [w.kind EXCEPT ![h] = "opt"], [w.tag EXCEPT ![h] = Null], w.obj)
    BY <1>a, <1>b, <1>2 DEF Fields, Shaped, None, OptMoveConstructed, Holds, MovedOut, Emplaced,
        Born, Tagged, emplace_nodestroy, ConstructedAt, Faulty, AssignedTo
  <2>. QED
    BY <1>a, <1>b, <1>2, <2>1 DEF Fields, Shaped, SameBut, At, Holds, None
<1>. QED
  BY <1>1, <1>2

LEMMA ResMoveConstructedAs ==
    ASSUME NEW w, NEW c, Good(w, c), NEW h \in Holders, NEW g \in Holders, BrokenUses = {},
           w.kind[h] = None, w.kind[g] = "res",
           NEW u, u = ResMoveConstructed(w, h, g)
    PROVE  /\ SameBut(u, w, {h, g})
           /\ At(u, h, "res", w.tag[g], w.obj[g])
           /\ At(u, g, "res", w.tag[g], IF Holds(w, g) THEN Moved ELSE Raw)
<1>. Shaped(w)
  BY DEF Good
<1>a. /\ w.obj[h] = Raw
      /\ w.kind[h] \in KindSet /\ w.tag[h] \in TagSet /\ w.obj[h] \in ObjSet
      /\ (w.obj[g] # Raw <=> Holds(w, g))
      /\ w.kind[g] \in KindSet /\ w.tag[g] \in TagSet /\ w.obj[g] \in ObjSet
      /\ h # g
  BY DEF Good, Fine, Holds, None, Shaped
<1>b. /\ Holding # Null /\ Moved # Raw
      /\ Holding \in TagSet /\ Null \in TagSet /\ Moved \in ObjSet /\ Raw \in ObjSet
  BY Distinct DEF KindSet
<1>1. CASE Holds(w, g)
  <2>1. Fields(u, w, [w.kind EXCEPT ![h] = "res"], [w.tag EXCEPT ![h] = w.tag[g]],
           [w.obj EXCEPT ![h] = w.obj[g], ![g] = Moved])
    BY <1>a, <1>b, <1>1 DEF Fields, Shaped, None, ResMoveConstructed, StatusMoved, Born, Holds,
        MovedOut, ConstructedAt, Faulty, AssignedTo, Tagged
  <2>. QED
    BY <1>a, <1>b, <1>1, <2>1 DEF Fields, Shaped, SameBut, At, Holds, None
<1>2. CASE ~Holds(w, g)
  <2>1. Fields(u, w, [w.kind EXCEPT ![h] = "res"], [w.tag EXCEPT ![h] = w.tag[g]], w.obj)
    BY <1>a, <1>b, <1>2 DEF Fields, Shaped, None, ResMoveConstructed, StatusMoved, Born, Holds,
        MovedOut, ConstructedAt, Faulty, AssignedTo, Tagged
  <2>. QED
    BY <1>a, <1>b, <1>2, <2>1 DEF Fields, Shaped, SameBut, At, Holds, None
<1>. QED
  BY <1>1, <1>2

LEMMA HandedOverAs ==
    ASSUME NEW w, NEW c, Good(w, c), NEW h \in Holders, NEW g \in Holders, w.kind[h] = None,
           w.kind[g] # None,
           NEW u, u = HandedOver(Born(w, h, w.kind[g], Null), h, g)
    PROVE  /\ SameBut(u, w, {h, g})
           /\ At(u, h, w.kind[g], w.tag[g], w.obj[g])
           /\ At(u, g, w.kind[g], Null, Raw)
<1>. Shaped(w)
  BY DEF Good
<1>a. /\ w.obj[h] = Raw
      /\ w.kind[h] \in KindSet /\ w.tag[h] \in TagSet /\ w.obj[h] \in ObjSet
      /\ (w.obj[g] # Raw <=> Holds(w, g))
      /\ w.kind[g] \in KindSet /\ w.tag[g] \in TagSet /\ w.obj[g] \in ObjSet
      /\ h # g
  BY DEF Good, Fine, Holds, None, Shaped
<1>b. /\ Holding # Null /\ Moved # Raw
      /\ Holding \in TagSet /\ Null \in TagSet /\ Moved \in ObjSet /\ Raw \in ObjSet
  BY Distinct DEF KindSet
<1>1. Fields(u, w, [w.kind EXCEPT ![h] = w.kind[g]], [w.tag EXCEPT ![h] = w.tag[g], ![g] = Null],
         [w.obj EXCEPT ![h] = w.obj[g], ![g] = Raw])
  BY <1>a, <1>b DEF Fields, Shaped, None, HandedOver, Born, Faulty, Holds
<1>. QED
  BY <1>a, <1>b, <1>1 DEF Fields, Shaped, SameBut, At, Holds, None

LEMMA OptCopyAssignedAs ==
    ASSUME NEW w, NEW c, Good(w, c), NEW h \in Holders, NEW g \in Holders, w.kind[h] = "opt",
           w.kind[g] = "opt",
           NEW u, u = OptCopyAssigned(w, h, g)
    PROVE  SameBut(u, w, {h}) /\ At(u, h, "opt", w.tag[g], w.obj[g])
<1>. Shaped(w)
  BY DEF Good
<1>a. /\ (w.obj[h] # Raw <=> Holds(w, h))
      /\ w.tag[h] \in {Holding, Null}
      /\ w.kind[h] \in KindSet /\ w.tag[h] \in TagSet /\ w.obj[h] \in ObjSet
      /\ (w.obj[g] # Raw <=> Holds(w, g))
      /\ w.tag[g] \in {Holding, Null}
      /\ w.kind[g] \in KindSet /\ w.tag[g] \in TagSet /\ w.obj[g] \in ObjSet
  BY DEF Good, Fine, Holds, None, Shaped
<1>b. /\ Holding # Null /\ Moved # Raw
      /\ Holding \in TagSet /\ Null \in TagSet /\ Moved \in ObjSet /\ Raw \in ObjSet
  BY Distinct DEF KindSet
<1>1. CASE Holds(w, g) /\ Holds(w, h)
  <2>1. Fields(u, w, w.kind, w.tag, [w.obj EXCEPT ![h] = w.obj[g]])
    BY <1>a, <1>b, <1>1 DEF Fields, Shaped, None, OptCopyAssigned, Holds, Assigned, reset,
        Tagged, DestroyedAt, Faulty, AssignedTo, Emplaced, emplace_nodestroy, ConstructedAt
  <2>. QED
    BY <1>a, <1>b, <1>1, <2>1 DEF Fields, Shaped, SameBut, At, Holds, None
<1>2. CASE Holds(w, g) /\ ~Holds(w, h)
  <2>1. Fields(u, w, w.kind, [w.tag EXCEPT ![h] = Holding], [w.obj EXCEPT ![h] = w.obj[g]])
    BY <1>a, <1>b, <1>2 DEF Fields, Shaped, None, OptCopyAssigned, Holds, Assigned, reset,
        Tagged, DestroyedAt, Faulty, AssignedTo, Emplaced, emplace_nodestroy, ConstructedAt
  <2>. QED
    BY <1>a, <1>b, <1>2, <2>1 DEF Fields, Shaped, SameBut, At, Holds, None
<1>3. CASE ~Holds(w, g) /\ Holds(w, h)
  <2>1. Fields(u, w, w.kind, [w.tag EXCEPT ![h] = Null], [w.obj EXCEPT ![h] = Raw])
    BY <1>a, <1>b, <1>3 DEF Fields, Shaped, None, OptCopyAssigned, Holds, Assigned, reset,
        Tagged, DestroyedAt, Faulty, AssignedTo, Emplaced, emplace_nodestroy, ConstructedAt
  <2>. QED
    BY <1>a, <1>b, <1>3, <2>1 DEF Fields, Shaped, SameBut, At, Holds, None
<1>4. CASE ~Holds(w, g) /\ ~Holds(w, h)
  <2>1. Fields(u, w, w.kind, w.tag, w.obj)
    BY <1>a, <1>b, <1>4 DEF Fields, Shaped, None, OptCopyAssigned, Holds, Assigned, reset,
        Tagged, DestroyedAt, Faulty, AssignedTo, Emplaced, emplace_nodestroy, ConstructedAt
  <2>. QED
    BY <1>a, <1>b, <1>4, <2>1 DEF Fields, Shaped, SameBut, At, Holds, None
<1>. QED
  BY <1>1, <1>2, <1>3, <1>4

LEMMA OptMoveAssignedAs ==
    ASSUME NEW w, NEW c, Good(w, c), NEW h \in Holders, NEW g \in Holders, h # g,
           w.kind[h] = "opt", w.kind[g] = "opt",
           NEW u, u = OptMoveAssigned(w, h, g)
    PROVE  /\ SameBut(u, w, {h, g})
           /\ At(u, h, "opt", w.tag[g], w.obj[g])
           /\ At(u, g, "opt", w.tag[g], IF Holds(w, g) THEN Moved ELSE Raw)
<1>. Shaped(w)
  BY DEF Good
<1>a. /\ (w.obj[h] # Raw <=> Holds(w, h))
      /\ w.tag[h] \in {Holding, Null}
      /\ w.kind[h] \in KindSet /\ w.tag[h] \in TagSet /\ w.obj[h] \in ObjSet
      /\ (w.obj[g] # Raw <=> Holds(w, g))
      /\ w.tag[g] \in {Holding, Null}
      /\ w.kind[g] \in KindSet /\ w.tag[g] \in TagSet /\ w.obj[g] \in ObjSet
  BY DEF Good, Fine, Holds, None, Shaped
<1>b. /\ Holding # Null /\ Moved # Raw
      /\ Holding \in TagSet /\ Null \in TagSet /\ Moved \in ObjSet /\ Raw \in ObjSet
  BY Distinct DEF KindSet
<1>1. CASE Holds(w, g) /\ Holds(w, h)
  <2>1. Fields(u, w, w.kind, w.tag, [w.obj EXCEPT ![h] = w.obj[g], ![g] = Moved])
    BY <1>a, <1>b, <1>1 DEF Fields, Shaped, None, OptMoveAssigned, Holds, MovedOut, Assigned,
        reset, Tagged, DestroyedAt, Faulty, AssignedTo, Emplaced, emplace_nodestroy, ConstructedAt
  <2>. QED
    BY <1>a, <1>b, <1>1, <2>1 DEF Fields, Shaped, SameBut, At, Holds, None
<1>2. CASE Holds(w, g) /\ ~Holds(w, h)
  <2>1. Fields(u, w, w.kind, [w.tag EXCEPT ![h] = Holding], [w.obj EXCEPT ![h] = w.obj[g],
           ![g] = Moved])
    BY <1>a, <1>b, <1>2 DEF Fields, Shaped, None, OptMoveAssigned, Holds, MovedOut, Assigned,
        reset, Tagged, DestroyedAt, Faulty, AssignedTo, Emplaced, emplace_nodestroy, ConstructedAt
  <2>. QED
    BY <1>a, <1>b, <1>2, <2>1 DEF Fields, Shaped, SameBut, At, Holds, None
<1>3. CASE ~Holds(w, g) /\ Holds(w, h)
  <2>1. Fields(u, w, w.kind, [w.tag EXCEPT ![h] = Null], [w.obj EXCEPT ![h] = Raw])
    BY <1>a, <1>b, <1>3 DEF Fields, Shaped, None, OptMoveAssigned, Holds, MovedOut, Assigned,
        reset, Tagged, DestroyedAt, Faulty, AssignedTo, Emplaced, emplace_nodestroy, ConstructedAt
  <2>. QED
    BY <1>a, <1>b, <1>3, <2>1 DEF Fields, Shaped, SameBut, At, Holds, None
<1>4. CASE ~Holds(w, g) /\ ~Holds(w, h)
  <2>1. Fields(u, w, w.kind, w.tag, w.obj)
    BY <1>a, <1>b, <1>4 DEF Fields, Shaped, None, OptMoveAssigned, Holds, MovedOut, Assigned,
        reset, Tagged, DestroyedAt, Faulty, AssignedTo, Emplaced, emplace_nodestroy, ConstructedAt
  <2>. QED
    BY <1>a, <1>b, <1>4, <2>1 DEF Fields, Shaped, SameBut, At, Holds, None
<1>. QED
  BY <1>1, <1>2, <1>3, <1>4

LEMMA ResMoveAssignedAs ==
    ASSUME NEW w, NEW c, Good(w, c), NEW h \in Holders, NEW g \in Holders, BrokenUses = {},
           h # g, w.kind[h] = "res", w.kind[g] = "res", Holds(w, h) => Holds(w, g),
           NEW u, u = ResMoveAssigned(w, h, g)
    PROVE  /\ SameBut(u, w, {h, g})
           /\ At(u, h, "res", w.tag[g], w.obj[g])
           /\ At(u, g, "res", w.tag[g], IF Holds(w, g) THEN Moved ELSE Raw)
<1>. Shaped(w)
  BY DEF Good
<1>a. /\ (w.obj[h] # Raw <=> Holds(w, h))
      /\ w.kind[h] \in KindSet /\ w.tag[h] \in TagSet /\ w.obj[h] \in ObjSet
      /\ (w.obj[g] # Raw <=> Holds(w, g))
      /\ w.kind[g] \in KindSet /\ w.tag[g] \in TagSet /\ w.obj[g] \in ObjSet
  BY DEF Good, Fine, Holds, None, Shaped
<1>b. /\ Holding # Null /\ Moved # Raw
      /\ Holding \in TagSet /\ Null \in TagSet /\ Moved \in ObjSet /\ Raw \in ObjSet
  BY Distinct DEF KindSet
<1>1. CASE Holds(w, g) /\ Holds(w, h)
  <2>1. Fields(u, w, w.kind, [w.tag EXCEPT ![h] = w.tag[g]], [w.obj EXCEPT ![h] = w.obj[g],
           ![g] = Moved])
    BY <1>a, <1>b, <1>1 DEF Fields, Shaped, None, ResMoveAssigned, Holds, MovedOut, AssignedTo,
        ConstructedAt, Tagged, StatusMoved, Faulty
  <2>. QED
    BY <1>a, <1>b, <1>1, <2>1 DEF Fields, Shaped, SameBut, At, Holds, None
<1>2. CASE Holds(w, g) /\ ~Holds(w, h)
  <2>1. Fields(u, w, w.kind, [w.tag EXCEPT ![h] = w.tag[g]], [w.obj EXCEPT ![h] = w.obj[g],
           ![g] = Moved])
    BY <1>a, <1>b, <1>2 DEF Fields, Shaped, None, ResMoveAssigned, Holds, MovedOut, AssignedTo,
        ConstructedAt, Tagged, StatusMoved, Faulty
  <2>. QED
    BY <1>a, <1>b, <1>2, <2>1 DEF Fields, Shaped, SameBut, At, Holds, None
<1>3. CASE ~Holds(w, g)
  <2>1. Fields(u, w, w.kind, [w.tag EXCEPT ![h] = w.tag[g]], w.obj)
    BY <1>a, <1>b, <1>3 DEF Fields, Shaped, None, ResMoveAssigned, Holds, MovedOut, AssignedTo,
        ConstructedAt, Tagged, StatusMoved, Faulty
  <2>. QED
    BY <1>a, <1>b, <1>3, <2>1 DEF Fields, Shaped, SameBut, At, Holds, None
<1>. QED
  BY <1>1, <1>2, <1>3

LEMMA PointerMoveAssignedAs ==
    ASSUME NEW w, NEW c, Good(w, c), NEW h \in Holders, NEW g \in Holders, h # g,
           w.kind[h] = w.kind[g], w.kind[g] \in Pointers,
           NEW u, u = PointerMoveAssigned(w, h, g)
    PROVE  /\ SameBut(u, w, {h, g})
           /\ At(u, h, w.kind[g], w.tag[g], w.obj[g])
           /\ At(u, g, w.kind[g], Null, Raw)
<1>. Shaped(w)
  BY DEF Good
<1>a. /\ (w.obj[h] # Raw <=> Holds(w, h))
      /\ w.kind[h] \in KindSet /\ w.tag[h] \in TagSet /\ w.obj[h] \in ObjSet
      /\ (w.obj[g] # Raw <=> Holds(w, g))
      /\ w.kind[g] \in KindSet /\ w.tag[g] \in TagSet /\ w.obj[g] \in ObjSet
  BY DEF Good, Fine, Holds, None, Shaped, Pointers
<1>b. /\ Holding # Null /\ Moved # Raw
      /\ Holding \in TagSet /\ Null \in TagSet /\ Moved \in ObjSet /\ Raw \in ObjSet
  BY Distinct DEF KindSet
<1>1. CASE Holds(w, h)
  <2>1. Fields(u, w, w.kind, [[w.tag EXCEPT ![h] = Null] EXCEPT ![h] = w.tag[g], ![g] = Null],
           [[w.obj EXCEPT ![h] = Raw] EXCEPT ![h] = w.obj[g], ![g] = Raw])
    BY <1>a, <1>b, <1>1 DEF Fields, Shaped, None, PointerMoveAssigned, HandedOver, reset, Holds,
        Tagged, DestroyedAt, Faulty
  <2>. QED
    BY <1>a, <1>b, <1>1, <2>1 DEF Fields, Shaped, SameBut, At, Holds, None
<1>2. CASE ~Holds(w, h)
  <2>1. Fields(u, w, w.kind, [w.tag EXCEPT ![h] = w.tag[g], ![g] = Null],
           [w.obj EXCEPT ![h] = w.obj[g], ![g] = Raw])
    BY <1>a, <1>b, <1>2 DEF Fields, Shaped, None, PointerMoveAssigned, HandedOver, reset, Holds,
        Tagged, DestroyedAt, Faulty
  <2>. QED
    BY <1>a, <1>b, <1>2, <2>1 DEF Fields, Shaped, SameBut, At, Holds, None
<1>. QED
  BY <1>1, <1>2

LEMMA AssignedAs ==
    ASSUME NEW w, NEW c, Good(w, c), NEW h \in Holders, w.kind[h] = "opt", NEW v \in Objects,
           NEW u, u = Assigned(w, h, v)
    PROVE  SameBut(u, w, {h}) /\ At(u, h, "opt", Holding, v)
<1>. Shaped(w)
  BY DEF Good
<1>a. /\ (w.obj[h] # Raw <=> Holds(w, h))
      /\ w.tag[h] \in {Holding, Null}
      /\ w.kind[h] \in KindSet /\ w.tag[h] \in TagSet /\ w.obj[h] \in ObjSet
  BY DEF Good, Fine, Holds, None, Shaped
<1>b. /\ Holding # Null /\ Moved # Raw
      /\ Holding \in TagSet /\ Null \in TagSet /\ Moved \in ObjSet /\ Raw \in ObjSet
      /\ v \in ObjSet /\ v # Raw
  BY Distinct DEF KindSet
<1>1. CASE Holds(w, h)
  <2>1. Fields(u, w, w.kind, w.tag, [w.obj EXCEPT ![h] = v])
    BY <1>a, <1>b, <1>1 DEF Fields, Shaped, None, Assigned, Holds, AssignedTo, Emplaced, Tagged,
        emplace_nodestroy, ConstructedAt, Faulty
  <2>. QED
    BY <1>a, <1>b, <1>1, <2>1 DEF Fields, Shaped, SameBut, At, Holds, None
<1>2. CASE ~Holds(w, h)
  <2>1. Fields(u, w, w.kind, [w.tag EXCEPT ![h] = Holding], [w.obj EXCEPT ![h] = v])
    BY <1>a, <1>b, <1>2 DEF Fields, Shaped, None, Assigned, Holds, AssignedTo, Emplaced, Tagged,
        emplace_nodestroy, ConstructedAt, Faulty
  <2>. QED
    BY <1>a, <1>b, <1>2, <2>1 DEF Fields, Shaped, SameBut, At, Holds, None
<1>. QED
  BY <1>1, <1>2

LEMMA EmplaceAs ==
    ASSUME NEW w, NEW c, Good(w, c), NEW h \in Holders, w.kind[h] = "opt", NEW v \in Objects,
           NEW u, u = emplace(w, h, v)
    PROVE  SameBut(u, w, {h}) /\ At(u, h, "opt", Holding, v)
<1>. Shaped(w)
  BY DEF Good
<1>a. /\ (w.obj[h] # Raw <=> Holds(w, h))
      /\ w.tag[h] \in {Holding, Null}
      /\ w.kind[h] \in KindSet /\ w.tag[h] \in TagSet /\ w.obj[h] \in ObjSet
  BY DEF Good, Fine, Holds, None, Shaped
<1>b. /\ Holding # Null /\ Moved # Raw
      /\ Holding \in TagSet /\ Null \in TagSet /\ Moved \in ObjSet /\ Raw \in ObjSet
      /\ v \in ObjSet /\ v # Raw
  BY Distinct DEF KindSet
<1>1. CASE Holds(w, h)
  <2>1. Fields(u, w, w.kind, [[w.tag EXCEPT ![h] = Null] EXCEPT ![h] = Holding],
           [[w.obj EXCEPT ![h] = Raw] EXCEPT ![h] = v])
    BY <1>a, <1>b, <1>1 DEF Fields, Shaped, None, emplace, Emplaced, reset, Holds, Tagged,
        DestroyedAt, Faulty, emplace_nodestroy, ConstructedAt
  <2>. QED
    BY <1>a, <1>b, <1>1, <2>1 DEF Fields, Shaped, SameBut, At, Holds, None
<1>2. CASE ~Holds(w, h)
  <2>1. Fields(u, w, w.kind, [w.tag EXCEPT ![h] = Holding], [w.obj EXCEPT ![h] = v])
    BY <1>a, <1>b, <1>2 DEF Fields, Shaped, None, emplace, Emplaced, reset, Holds, Tagged,
        DestroyedAt, Faulty, emplace_nodestroy, ConstructedAt
  <2>. QED
    BY <1>a, <1>b, <1>2, <2>1 DEF Fields, Shaped, SameBut, At, Holds, None
<1>. QED
  BY <1>1, <1>2

LEMMA ResetAs ==
    ASSUME NEW w, NEW c, Good(w, c), NEW h \in Holders, w.kind[h] # None,
           NEW u, u = reset(w, h)
    PROVE  SameBut(u, w, {h}) /\ At(u, h, w.kind[h], IF Holds(w, h) THEN Null ELSE w.tag[h], Raw)
<1>. Shaped(w)
  BY DEF Good
<1>a. /\ (w.obj[h] # Raw <=> Holds(w, h))
      /\ w.kind[h] \in KindSet /\ w.tag[h] \in TagSet /\ w.obj[h] \in ObjSet
  BY DEF Good, Fine, Holds, None, Shaped
<1>b. /\ Holding # Null /\ Moved # Raw
      /\ Holding \in TagSet /\ Null \in TagSet /\ Moved \in ObjSet /\ Raw \in ObjSet
  BY Distinct DEF KindSet
<1>1. CASE Holds(w, h)
  <2>1. Fields(u, w, w.kind, [w.tag EXCEPT ![h] = Null], [w.obj EXCEPT ![h] = Raw])
    BY <1>a, <1>b, <1>1 DEF Fields, Shaped, None, reset, Holds, Tagged, DestroyedAt, Faulty
  <2>. QED
    BY <1>a, <1>b, <1>1, <2>1 DEF Fields, Shaped, SameBut, At, Holds, None
<1>2. CASE ~Holds(w, h)
  <2>1. Fields(u, w, w.kind, w.tag, w.obj)
    BY <1>a, <1>b, <1>2 DEF Fields, Shaped, None, reset, Holds, Tagged, DestroyedAt, Faulty
  <2>. QED
    BY <1>a, <1>b, <1>2, <2>1 DEF Fields, Shaped, SameBut, At, Holds, None
<1>. QED
  BY <1>1, <1>2

LEMMA OwnerDestroyedAs ==
    ASSUME NEW w, NEW c, Good(w, c), NEW h \in Holders, w.kind[h] = "owned",
           NEW u, u = OwnerDestroyed(w, h)
    PROVE  SameBut(u, w, {h}) /\ At(u, h, w.kind[h], IF Holds(w, h) THEN Null ELSE w.tag[h], Raw)
<1>. Shaped(w)
  BY DEF Good
<1>a. /\ (w.obj[h] # Raw <=> Holds(w, h))
      /\ w.kind[h] \in KindSet /\ w.tag[h] \in TagSet /\ w.obj[h] \in ObjSet
  BY DEF Good, Fine, Holds, None, Shaped
<1>b. Holding # Null /\ Null \in TagSet /\ Raw \in ObjSet
  BY Distinct
<1>c. Abandoned \in OwnersFault
  BY <1>a DEF KindSet, None, OwnersFault
<1>1. CASE Holds(w, h)
  <2>1. /\ u.kind = w.kind /\ u.tag = [w.tag EXCEPT ![h] = Null] /\ u.obj = [w.obj EXCEPT ![h] = Raw]
        /\ u.fault = w.fault \cup {Abandoned} /\ DOMAIN u = {"kind", "tag", "obj", "fault"}
    BY <1>1 DEF Shaped, OwnerDestroyed
  <2>. QED
    BY <1>a, <1>b, <1>c, <1>1, <2>1 DEF Shaped, SameBut, At, Holds
<1>2. CASE ~Holds(w, h)
  BY <1>a, <1>b, <1>2 DEF OwnerDestroyed, Shaped, SameBut, At
<1>. QED
  BY <1>1, <1>2

LEMMA OptCloneIntoAs ==
    ASSUME NEW w, NEW c, Good(w, c), NEW h \in Holders, NEW g \in Holders, h # g,
           w.kind[h] = "opt", w.kind[g] = "opt", Holds(w, g) => Holds(w, h),
           NEW u, u = OptCloneInto(w, g, h)
    PROVE  SameBut(u, w, {h}) /\ At(u, h, "opt", w.tag[g], w.obj[g])
<1>. Shaped(w)
  BY DEF Good
<1>a. /\ (w.obj[h] # Raw <=> Holds(w, h))
      /\ w.tag[h] \in {Holding, Null}
      /\ w.kind[h] \in KindSet /\ w.tag[h] \in TagSet /\ w.obj[h] \in ObjSet
      /\ (w.obj[g] # Raw <=> Holds(w, g))
      /\ w.tag[g] \in {Holding, Null}
      /\ w.kind[g] \in KindSet /\ w.tag[g] \in TagSet /\ w.obj[g] \in ObjSet
  BY DEF Good, Fine, Holds, None, Shaped
<1>b. /\ Holding # Null /\ Moved # Raw
      /\ Holding \in TagSet /\ Null \in TagSet /\ Moved \in ObjSet /\ Raw \in ObjSet
  BY Distinct DEF KindSet
<1>1. CASE Holds(w, g)
  <2>1. Fields(u, w, w.kind, w.tag, [w.obj EXCEPT ![h] = w.obj[g]])
    BY <1>a, <1>b, <1>1 DEF Fields, Shaped, None, OptCloneInto, Holds, reset, AssignedTo,
        emplace_nodestroy, ConstructedAt, Faulty, Tagged, DestroyedAt
  <2>. QED
    BY <1>a, <1>b, <1>1, <2>1 DEF Fields, Shaped, SameBut, At, Holds, None
<1>2. CASE ~Holds(w, g) /\ Holds(w, h)
  <2>1. Fields(u, w, w.kind, [w.tag EXCEPT ![h] = Null], [w.obj EXCEPT ![h] = Raw])
    BY <1>a, <1>b, <1>2 DEF Fields, Shaped, None, OptCloneInto, Holds, reset, AssignedTo,
        emplace_nodestroy, ConstructedAt, Faulty, Tagged, DestroyedAt
  <2>. QED
    BY <1>a, <1>b, <1>2, <2>1 DEF Fields, Shaped, SameBut, At, Holds, None
<1>3. CASE ~Holds(w, g) /\ ~Holds(w, h)
  <2>1. Fields(u, w, w.kind, w.tag, w.obj)
    BY <1>a, <1>b, <1>3 DEF Fields, Shaped, None, OptCloneInto, Holds, reset, AssignedTo,
        emplace_nodestroy, ConstructedAt, Faulty, Tagged, DestroyedAt
  <2>. QED
    BY <1>a, <1>b, <1>3, <2>1 DEF Fields, Shaped, SameBut, At, Holds, None
<1>. QED
  BY <1>1, <1>2, <1>3

LEMMA ResCloneIntoAs ==
    ASSUME NEW w, NEW c, Good(w, c), NEW h \in Holders, NEW g \in Holders, h # g,
           w.kind[h] = "res", w.kind[g] = "res",
           NEW u, u = ResCloneInto(w, g, h)
    PROVE  SameBut(u, w, {h}) /\ At(u, h, "res", w.tag[g], w.obj[g])
<1>. Shaped(w)
  BY DEF Good
<1>a. /\ (w.obj[h] # Raw <=> Holds(w, h))
      /\ w.kind[h] \in KindSet /\ w.tag[h] \in TagSet /\ w.obj[h] \in ObjSet
      /\ (w.obj[g] # Raw <=> Holds(w, g))
      /\ w.kind[g] \in KindSet /\ w.tag[g] \in TagSet /\ w.obj[g] \in ObjSet
  BY DEF Good, Fine, Holds, None, Shaped
<1>b. /\ Holding # Null /\ Moved # Raw
      /\ Holding \in TagSet /\ Null \in TagSet /\ Moved \in ObjSet /\ Raw \in ObjSet
  BY Distinct DEF KindSet
<1>1. CASE Holds(w, g)
  <2>1. Fields(u, w, w.kind, [w.tag EXCEPT ![h] = w.tag[g]], [w.obj EXCEPT ![h] = w.obj[g]])
    BY <1>a, <1>b, <1>1 DEF Fields, Shaped, None, ResCloneInto, Holds, AssignedTo, ConstructedAt,
        DestroyedAt, Tagged, Faulty
  <2>. QED
    BY <1>a, <1>b, <1>1, <2>1 DEF Fields, Shaped, SameBut, At, Holds, None
<1>2. CASE ~Holds(w, g) /\ Holds(w, h)
  <2>1. Fields(u, w, w.kind, [w.tag EXCEPT ![h] = w.tag[g]], [w.obj EXCEPT ![h] = Raw])
    BY <1>a, <1>b, <1>2 DEF Fields, Shaped, None, ResCloneInto, Holds, AssignedTo, ConstructedAt,
        DestroyedAt, Tagged, Faulty
  <2>. QED
    BY <1>a, <1>b, <1>2, <2>1 DEF Fields, Shaped, SameBut, At, Holds, None
<1>3. CASE ~Holds(w, g) /\ ~Holds(w, h)
  <2>1. Fields(u, w, w.kind, [w.tag EXCEPT ![h] = w.tag[g]], w.obj)
    BY <1>a, <1>b, <1>3 DEF Fields, Shaped, None, ResCloneInto, Holds, AssignedTo, ConstructedAt,
        DestroyedAt, Tagged, Faulty
  <2>. QED
    BY <1>a, <1>b, <1>3, <2>1 DEF Fields, Shaped, SameBut, At, Holds, None
<1>. QED
  BY <1>1, <1>2, <1>3

LEMMA TakenFromAs ==
    ASSUME NEW w, NEW c, Good(w, c), NEW g \in Holders, w.kind[g] = "opt",
           NEW u, u = TakenFrom(w, g)
    PROVE  SameBut(u, w, {g}) /\ At(u, g, "opt", Null, Raw)
<1>. Shaped(w)
  BY DEF Good
<1>a. /\ (w.obj[g] # Raw <=> Holds(w, g))
      /\ w.tag[g] \in {Holding, Null}
      /\ w.kind[g] \in KindSet /\ w.tag[g] \in TagSet /\ w.obj[g] \in ObjSet
  BY DEF Good, Fine, Holds, None, Shaped
<1>b. /\ Holding # Null /\ Moved # Raw
      /\ Holding \in TagSet /\ Null \in TagSet /\ Moved \in ObjSet /\ Raw \in ObjSet
  BY Distinct DEF KindSet
<1>1. CASE Holds(w, g)
  <2>1. Fields(u, w, w.kind, [w.tag EXCEPT ![g] = Null],
           [[w.obj EXCEPT ![g] = Moved] EXCEPT ![g] = Raw])
    BY <1>a, <1>b, <1>1 DEF Fields, Shaped, None, TakenFrom, Holds, reset, MovedOut, AssignedTo,
        Faulty, Tagged, DestroyedAt
  <2>. QED
    BY <1>a, <1>b, <1>1, <2>1 DEF Fields, Shaped, SameBut, At, Holds, None
<1>2. CASE ~Holds(w, g)
  <2>1. Fields(u, w, w.kind, w.tag, w.obj)
    BY <1>a, <1>b, <1>2 DEF Fields, Shaped, None, TakenFrom, Holds, reset, MovedOut, AssignedTo,
        Faulty, Tagged, DestroyedAt
  <2>. QED
    BY <1>a, <1>b, <1>2, <2>1 DEF Fields, Shaped, SameBut, At, Holds, None
<1>. QED
  BY <1>1, <1>2

LEMMA TakenAs ==
    ASSUME NEW w, NEW c, Good(w, c), NEW h \in Holders, NEW g \in Holders, w.kind[h] = None,
           w.kind[g] = "opt",
           NEW v, Holds(w, g) => v \in Objects, NEW u, u = Taken(w, h, g, v)
    PROVE  /\ SameBut(u, w, {h, g})
           /\ At(u, h, "opt", w.tag[g], IF Holds(w, g) THEN v ELSE Raw)
           /\ At(u, g, "opt", Null, Raw)
<1>. "opt" \in Kinds /\ h # g /\ (Holds(w, g) \/ w.tag[g] = Null) /\ Null \in TagSet
  BY Distinct DEF Good, Fine, Shaped, Holds, None, KindSet
<1>1. CASE Holds(w, g)
  <2>1. PICK e : e = Emplaced(Born(w, h, "opt", Null), h, v)
    OBVIOUS
  <2>2. SameBut(e, w, {h}) /\ At(e, h, "opt", Holding, v)
    BY <1>1, <2>1, EmplacedAs
  <2>3. PICK d : d = [c EXCEPT ![h] = <<v>>]
    OBVIOUS
  <2>4. Good(e, d)
    <3>1. Fine(e.kind[h], e.tag[h], e.obj[h], d[h])
      BY <1>1, <2>2, <2>3, Distinct DEF Fine, At, Good, None
    <3>. QED
      BY <2>2, <2>3, <3>1, GoodAfter DEF Good
  <2>5. u = TakenFrom(e, g)
    BY <1>1, <2>1 DEF Taken
  <2>6. e.kind[g] = "opt" /\ At(e, h, "opt", w.tag[g], v)
    BY <1>1, <2>2 DEF SameBut, At, Holds
  <2>7. SameBut(u, e, {g}) /\ At(u, g, "opt", Null, Raw)
    BY <2>4, <2>5, <2>6, TakenFromAs
  <2>. QED
    BY <1>1, <2>2, <2>6, <2>7 DEF SameBut, At
<1>2. CASE ~Holds(w, g)
  <2>1. u = Born(w, h, "opt", Null)
    BY <1>2 DEF Taken
  <2>2. SameBut(u, w, {h}) /\ At(u, h, "opt", Null, Raw)
    BY <2>1, BornAs
  <2>. QED
    BY <1>2, <2>2 DEF SameBut, At, Good, Fine, Holds, None
<1>. QED
  BY <1>1, <1>2

LEMMA MovedOutAs ==
    ASSUME NEW w, NEW c, Good(w, c), NEW g \in Holders, w.kind[g] # None, Holds(w, g),
           NEW u, u = MovedOut(w, g)
    PROVE  SameBut(u, w, {g}) /\ At(u, g, w.kind[g], w.tag[g], Moved)
<1>. Shaped(w)
  BY DEF Good
<1>a. /\ (w.obj[g] # Raw <=> Holds(w, g))
      /\ w.kind[g] \in KindSet /\ w.tag[g] \in TagSet /\ w.obj[g] \in ObjSet
  BY DEF Good, Fine, Holds, None, Shaped
<1>b. /\ Holding # Null /\ Moved # Raw
      /\ Holding \in TagSet /\ Null \in TagSet /\ Moved \in ObjSet /\ Raw \in ObjSet
  BY Distinct DEF KindSet
<1>1. Fields(u, w, w.kind, w.tag, [w.obj EXCEPT ![g] = Moved])
  BY <1>a, <1>b DEF Fields, Shaped, None, MovedOut, AssignedTo, Faulty, Holds
<1>. QED
  BY <1>a, <1>b, <1>1 DEF Fields, Shaped, SameBut, At, Holds, None

-----------------------------------------------------------------------------
(* What a step has to do. *)

(* kinds last as long as their holders *)
Lasting(u, H) == \A x \in H : s.kind[x] # None => u.kind[x] = s.kind[x] \/ ref # x

LEMMA Kept ==
    ASSUME IInv, NEW u, NEW d, Good(u, d), NEW H, SameBut(u, s, H), Lasting(u, H),
           s' = u, want' = d, GotInv', UNCHANGED ref
    PROVE  IInv'
<1>1. Good(s, want)'
  BY DEF Good, Shaped, Fine
<1>2. RefInv'
  <2>1. ref \in Holders => u.kind[ref] \in {"opt", "res"}
    BY DEF IInv, RefInv, SameBut, At, Lasting, None
  <2>. QED
    BY <2>1 DEF IInv, RefInv
<1>. QED
  BY <1>1, <1>2 DEF IInv

LEMMA StepOne ==
    ASSUME IInv, NEW h \in Holders, NEW u, NEW a, SameBut(u, s, {h}), Lasting(u, {h}),
           Fine(u.kind[h], u.tag[h], u.obj[h], a), s' = u, want' = With(h, a), GotInv',
               UNCHANGED ref
    PROVE  IInv'
<1>1. PICK d : d = With(h, a)
  OBVIOUS
<1>2. DOMAIN d = Holders /\ d[h] = a /\ \A x \in Holders \ {h} : d[x] = want[x]
  BY <1>1 DEF IInv, Good, With
<1>3. Good(u, d)
  BY <1>2, GoodAfter DEF IInv
<1>. QED
  BY <1>1, <1>3, Kept

LEMMA StepTwo ==
    ASSUME IInv, NEW h \in Holders, NEW g \in Holders, h # g, NEW u, NEW a, NEW b, SameBut(u, s,
           {h, g}), Lasting(u, {h, g}),
           Fine(u.kind[h], u.tag[h], u.obj[h], a), Fine(u.kind[g], u.tag[g], u.obj[g], b),
           s' = u, want' = WithBoth(h, a, g, b), GotInv', UNCHANGED ref
    PROVE  IInv'
<1>1. PICK d : d = WithBoth(h, a, g, b)
  OBVIOUS
<1>2. DOMAIN d = Holders /\ d[h] = a /\ d[g] = b /\ \A x \in Holders \ {h, g} : d[x] = want[x]
  BY <1>1 DEF IInv, Good, WithBoth
<1>3. Good(u, d)
  BY <1>2, GoodAfter DEF IInv
<1>. QED
  BY <1>1, <1>3, Kept

(* a step that only reads *)
LEMMA StepNone ==
    ASSUME IInv, UNCHANGED <<s, want>>, GotInv', RefInv'
    PROVE  IInv'
<1>1. Good(s, want)'
  BY DEF IInv, Good, Shaped, Fine
<1>. QED
  BY <1>1 DEF IInv

LEMMA Contents ==
    ASSUME IInv, NEW g \in Holders, s.kind[g] # None
    PROVE  /\ Should(g) <=> Holds(s, g)
           /\ Holds(s, g) => want[g] = <<s.obj[g]>> /\ s.obj[g] \in Objects /\ s.obj[g] # Raw
           /\ ~Holds(s, g) => want[g] = s.tag[g] /\ s.tag[g] \in Errors \cup {Null} /\ s.obj[g] = Raw
           /\ s.kind[g] \in {"opt", "owned", "anystatus", "generator"} => s.tag[g] \in {Holding,
               Null}
           /\ s.kind[g] = "generator" /\ Holds(s, g) => s.obj[g] \in 0 .. Length
<1>1. Fine(s.kind[g], s.tag[g], s.obj[g], want[g]) /\ s.obj[g] \in ObjSet /\ s.tag[g] \in TagSet
  BY DEF IInv, Good, Shaped
<1>. QED
  BY <1>1, Distinct DEF Fine, Should, Holds, ObjSet, TagSet

LEMMA OthersThere ==
    ASSUME NEW v, NEW S
    PROVE  (v \in S => Other(v, S) \in S) /\ (v \notin S => Other(v, S) = v)
<1>1. ASSUME v \in S, S # {v}
      PROVE  (CHOOSE u \in S : u # v) \in S
  <2>1. \E u \in S : u # v
    BY <1>1
  <2>. QED
    BY <2>1
<1>. QED
  BY <1>1 DEF Other

LEMMA OtherObjects ==
    ASSUME NEW v \in Objects
    PROVE  OtherValue(v) \in Objects /\ OtherValue(v) # Raw /\ OtherValue(v) \in ObjSet
BY OthersThere, Distinct DEF OtherValue, Objects

-----------------------------------------------------------------------------
(* Every action keeps the invariant. *)

LEMMA Got ==
    ASSUME got' = NoGot
    PROVE  GotInv'
BY DEF NoGot, GotInv

LEMMA ConstructNothing_opt ==
    ASSUME IInv, NEW h \in Holders, Free(h, "opt"), Step(Born(s, h, "opt", Null), With(h, Null))
    PROVE  IInv'
<1>1. PICK u : u = Born(s, h, "opt", Null)
  OBVIOUS
<1>2. s.kind[h] = None /\ "opt" \in Kinds
  BY DEF Free, Is
<1>3. s' = u /\ want' = With(h, Null) /\ GotInv' /\ UNCHANGED ref
  BY <1>1, Got DEF Step
<1>4. SameBut(u, s, {h}) /\ At(u, h, "opt", Null, Raw)
  BY <1>1, <1>2, BornAs, Distinct DEF IInv
<1>5. Fine(u.kind[h], u.tag[h], u.obj[h], Null)
  BY <1>2, <1>4, Contents, Distinct DEF Fine, At, None, Holds
<1>6. Lasting(u, {h})
  BY <1>2, <1>4 DEF Lasting, At
<1>. QED
  BY <1>3, <1>4, <1>5, <1>6, StepOne

LEMMA ConstructNothing_res ==
    ASSUME IInv, NEW h \in Holders, NEW tag \in Errors, Free(h, "res"), Step(Born(s, h, "res",
           tag), With(h, tag))
    PROVE  IInv'
<1>1. PICK u : u = Born(s, h, "res", tag)
  OBVIOUS
<1>2. s.kind[h] = None /\ "res" \in Kinds /\ tag \in TagSet
  BY DEF Free, Is, TagSet
<1>3. s' = u /\ want' = With(h, tag) /\ GotInv' /\ UNCHANGED ref
  BY <1>1, Got DEF Step
<1>4. SameBut(u, s, {h}) /\ At(u, h, "res", tag, Raw)
  BY <1>1, <1>2, BornAs, Distinct DEF IInv
<1>5. Fine(u.kind[h], u.tag[h], u.obj[h], tag)
  BY <1>2, <1>4, Contents, Distinct DEF Fine, At, None, Holds
<1>6. Lasting(u, {h})
  BY <1>2, <1>4 DEF Lasting, At
<1>. QED
  BY <1>3, <1>4, <1>5, <1>6, StepOne

LEMMA ConstructHoldingKeeps ==
    ASSUME IInv, NEW h \in Holders, NEW kind, NEW v \in Values, ConstructHolding(h, kind, v)
    PROVE  IInv'
<1>1. PICK u : u = Emplaced(Born(s, h, kind, Null), h, v)
  OBVIOUS
<1>2. s.kind[h] = None /\ kind \in Kinds /\ v \in Objects /\ v # Raw /\ kind \in {"opt", "res"}
  BY Distinct, ValuesAssumption DEF ConstructHolding, Free, Is
<1>3. s' = u /\ want' = With(h, <<v>>) /\ GotInv' /\ UNCHANGED ref
  BY <1>1, Got DEF ConstructHolding, Step
<1>4. SameBut(u, s, {h}) /\ At(u, h, kind, Holding, v)
  BY <1>1, <1>2, EmplacedAs DEF IInv
<1>5. Fine(u.kind[h], u.tag[h], u.obj[h], <<v>>)
  BY <1>2, <1>4, Contents, Distinct DEF Fine, At, None, Holds
<1>6. Lasting(u, {h})
  BY <1>2, <1>4 DEF Lasting, At
<1>. QED
  BY <1>3, <1>4, <1>5, <1>6, StepOne

LEMMA MakeOwnedKeeps ==
    ASSUME IInv, NEW h \in Holders, NEW v \in Values, MakeOwned(h, v)
    PROVE  IInv'
<1>1. PICK u : u = Emplaced(Born(s, h, "owned", Null), h, v)
  OBVIOUS
<1>2. s.kind[h] = None /\ "owned" \in Kinds /\ v \in Objects /\ v # Raw
  BY Distinct, ValuesAssumption DEF MakeOwned, Free, Is
<1>3. s' = u /\ want' = With(h, <<v>>) /\ GotInv' /\ UNCHANGED ref
  BY <1>1, Got DEF MakeOwned, Step
<1>4. SameBut(u, s, {h}) /\ At(u, h, "owned", Holding, v)
  BY <1>1, <1>2, EmplacedAs DEF IInv
<1>5. Fine(u.kind[h], u.tag[h], u.obj[h], <<v>>)
  BY <1>2, <1>4, Contents, Distinct DEF Fine, At, None, Holds
<1>6. Lasting(u, {h})
  BY <1>2, <1>4 DEF Lasting, At
<1>. QED
  BY <1>3, <1>4, <1>5, <1>6, StepOne

LEMMA ConstructAnystatusKeeps ==
    ASSUME IInv, NEW h \in Holders, NEW e \in Errors, ConstructAnystatus(h, e)
    PROVE  IInv'
<1>1. PICK u : u = Emplaced(Born(s, h, "anystatus", Null), h, e)
  OBVIOUS
<1>2. s.kind[h] = None /\ "anystatus" \in Kinds /\ e \in Objects /\ e # Raw
  BY Distinct, ValuesAssumption DEF ConstructAnystatus, Free, Is
<1>3. s' = u /\ want' = With(h, <<e>>) /\ GotInv' /\ UNCHANGED ref
  BY <1>1, Got DEF ConstructAnystatus, Step
<1>4. SameBut(u, s, {h}) /\ At(u, h, "anystatus", Holding, e)
  BY <1>1, <1>2, EmplacedAs DEF IInv
<1>5. Fine(u.kind[h], u.tag[h], u.obj[h], <<e>>)
  BY <1>2, <1>4, Contents, Distinct DEF Fine, At, None, Holds
<1>6. Lasting(u, {h})
  BY <1>2, <1>4 DEF Lasting, At
<1>. QED
  BY <1>3, <1>4, <1>5, <1>6, StepOne

LEMMA StartCoroutineKeeps ==
    ASSUME IInv, NEW h \in Holders, StartCoroutine(h)
    PROVE  IInv'
<1>1. PICK u : u = Emplaced(Born(s, h, "generator", Null), h, 0)
  OBVIOUS
<1>2. s.kind[h] = None /\ "generator" \in Kinds /\ 0 \in Objects /\ 0 # Raw /\ 0 \in 0 .. Length
  BY Distinct, ValuesAssumption DEF StartCoroutine, Free, Is
<1>3. s' = u /\ want' = With(h, <<0>>) /\ GotInv' /\ UNCHANGED ref
  BY <1>1, Got DEF StartCoroutine, Step
<1>4. SameBut(u, s, {h}) /\ At(u, h, "generator", Holding, 0)
  BY <1>1, <1>2, EmplacedAs DEF IInv
<1>5. Fine(u.kind[h], u.tag[h], u.obj[h], <<0>>)
  BY <1>2, <1>4, Contents, Distinct DEF Fine, At, None, Holds
<1>6. Lasting(u, {h})
  BY <1>2, <1>4 DEF Lasting, At
<1>. QED
  BY <1>3, <1>4, <1>5, <1>6, StepOne

LEMMA MakeKeeps ==
    ASSUME IInv, NEW h \in Holders, NEW v \in Values, NEW status \in Errors \cup {Holding},
           Make(h, v, status)
    PROVE  IInv'
<1>1. PICK u : u = ResMade(s, h, v, status)
  OBVIOUS
<1>2. s.kind[h] = None /\ "res" \in Kinds /\ v \in Objects /\ v # Raw /\ status \in TagSet
  BY Distinct DEF Make, Free, Is, TagSet
<1>3. s' = u /\ want' = With(h,
         IF status = Holding THEN <<v>> ELSE status) /\ GotInv' /\ UNCHANGED ref
  BY <1>1, Got DEF Make, Step
<1>4. SameBut(u, s, {h}) /\ At(u, h, "res", status, IF status = Holding THEN v ELSE Raw)
  BY <1>1, <1>2, MadeAs DEF IInv
<1>5. Fine(u.kind[h], u.tag[h], u.obj[h], IF status = Holding THEN <<v>> ELSE status)
  BY <1>2, <1>4, Contents, Distinct DEF Fine, At, None, Holds
<1>6. Lasting(u, {h})
  BY <1>2, <1>4 DEF Lasting, At
<1>. QED
  BY <1>3, <1>4, <1>5, <1>6, StepOne

LEMMA CopyConstruct_OptCopyConstructed ==
    ASSUME IInv, NEW h \in Holders, NEW g \in Holders, Is(h, {None}), Is(g, {"opt"}),
           Step(OptCopyConstructed(s, h, g), With(h, want[g]))
    PROVE  IInv'
<1>1. PICK u : u = OptCopyConstructed(s, h, g)
  OBVIOUS
<1>2. s.kind[h] = None /\ s.kind[g] = "opt"
  BY DEF Is
<1>3. s' = u /\ want' = With(h, want[g]) /\ GotInv' /\ UNCHANGED ref
  BY <1>1, Got DEF Step
<1>4. SameBut(u, s, {h}) /\ At(u, h, "opt", s.tag[g], s.obj[g])
  BY <1>1, <1>2, OptCopyConstructedAs DEF IInv
<1>5. Fine(u.kind[h], u.tag[h], u.obj[h], want[g])
  BY <1>2, <1>4, Contents, Distinct DEF Fine, At, None, Holds
<1>6. Lasting(u, {h})
  BY <1>2, <1>4 DEF Lasting, At
<1>. QED
  BY <1>3, <1>4, <1>5, <1>6, StepOne

LEMMA CopyConstruct_OptConverted ==
    ASSUME IInv, NEW h \in Holders, NEW g \in Holders, Is(h, {None}), Is(g, {"opt"}),
           Step(OptConverted(s, h, g), With(h, want[g]))
    PROVE  IInv'
<1>1. PICK u : u = OptConverted(s, h, g)
  OBVIOUS
<1>2. s.kind[h] = None /\ s.kind[g] = "opt"
  BY DEF Is
<1>3. s' = u /\ want' = With(h, want[g]) /\ GotInv' /\ UNCHANGED ref
  BY <1>1, Got DEF Step
<1>4. SameBut(u, s, {h}) /\ At(u, h, "opt", s.tag[g], s.obj[g])
  BY <1>1, <1>2, OptConvertedAs DEF IInv
<1>5. Fine(u.kind[h], u.tag[h], u.obj[h], want[g])
  BY <1>2, <1>4, Contents, Distinct DEF Fine, At, None, Holds
<1>6. Lasting(u, {h})
  BY <1>2, <1>4 DEF Lasting, At
<1>. QED
  BY <1>3, <1>4, <1>5, <1>6, StepOne

LEMMA CopyConstruct_ResConverted ==
    ASSUME IInv, NEW h \in Holders, NEW g \in Holders, Is(h, {None}), Is(g, {"res"}),
           Step(ResConverted(s, h, g), With(h, want[g]))
    PROVE  IInv'
<1>1. PICK u : u = ResConverted(s, h, g)
  OBVIOUS
<1>2. s.kind[h] = None /\ s.kind[g] = "res"
  BY DEF Is
<1>3. s' = u /\ want' = With(h, want[g]) /\ GotInv' /\ UNCHANGED ref
  BY <1>1, Got DEF Step
<1>4. SameBut(u, s, {h}) /\ At(u, h, "res", s.tag[g], s.obj[g])
  BY <1>1, <1>2, ResConvertedAs DEF IInv
<1>5. Fine(u.kind[h], u.tag[h], u.obj[h], want[g])
  BY <1>2, <1>4, Contents, Distinct DEF Fine, At, None, Holds
<1>6. Lasting(u, {h})
  BY <1>2, <1>4 DEF Lasting, At
<1>. QED
  BY <1>3, <1>4, <1>5, <1>6, StepOne

LEMMA CopyAssignKeeps ==
    ASSUME IInv, NEW h \in Holders, NEW g \in Holders, CopyAssign(h, g)
    PROVE  IInv'
<1>1. PICK u : u = OptCopyAssigned(s, h, g)
  OBVIOUS
<1>2. s.kind[h] = "opt" /\ s.kind[g] = "opt"
  BY DEF CopyAssign, Is
<1>3. s' = u /\ want' = With(h, want[g]) /\ GotInv' /\ UNCHANGED ref
  BY <1>1, Got DEF CopyAssign, Step
<1>4. SameBut(u, s, {h}) /\ At(u, h, "opt", s.tag[g], s.obj[g])
  BY <1>1, <1>2, OptCopyAssignedAs DEF IInv
<1>5. Fine(u.kind[h], u.tag[h], u.obj[h], want[g])
  BY <1>2, <1>4, Contents, Distinct DEF Fine, At, None, Holds
<1>6. Lasting(u, {h})
  BY <1>2, <1>4 DEF Lasting, At
<1>. QED
  BY <1>3, <1>4, <1>5, <1>6, StepOne

LEMMA AssignValueKeeps ==
    ASSUME IInv, NEW h \in Holders, NEW v \in Values, AssignValue(h, v)
    PROVE  IInv'
<1>1. PICK u : u = Assigned(s, h, v)
  OBVIOUS
<1>2. s.kind[h] = "opt" /\ v \in Objects /\ v # Raw
  BY Distinct DEF AssignValue, Is
<1>3. s' = u /\ want' = With(h, <<v>>) /\ GotInv' /\ UNCHANGED ref
  BY <1>1, Got DEF AssignValue, Step
<1>4. SameBut(u, s, {h}) /\ At(u, h, "opt", Holding, v)
  BY <1>1, <1>2, AssignedAs DEF IInv
<1>5. Fine(u.kind[h], u.tag[h], u.obj[h], <<v>>)
  BY <1>2, <1>4, Contents, Distinct DEF Fine, At, None, Holds
<1>6. Lasting(u, {h})
  BY <1>2, <1>4 DEF Lasting, At
<1>. QED
  BY <1>3, <1>4, <1>5, <1>6, StepOne

LEMMA EmplaceKeeps ==
    ASSUME IInv, NEW h \in Holders, NEW v \in Values, Emplace(h, v)
    PROVE  IInv'
<1>1. PICK u : u = emplace(s, h, v)
  OBVIOUS
<1>2. s.kind[h] = "opt" /\ v \in Objects /\ v # Raw
  BY Distinct DEF Emplace, Is
<1>3. s' = u /\ want' = With(h, <<v>>) /\ GotInv' /\ UNCHANGED ref
  BY <1>1, Got DEF Emplace, Step
<1>4. SameBut(u, s, {h}) /\ At(u, h, "opt", Holding, v)
  BY <1>1, <1>2, EmplaceAs DEF IInv
<1>5. Fine(u.kind[h], u.tag[h], u.obj[h], <<v>>)
  BY <1>2, <1>4, Contents, Distinct DEF Fine, At, None, Holds
<1>6. Lasting(u, {h})
  BY <1>2, <1>4 DEF Lasting, At
<1>. QED
  BY <1>3, <1>4, <1>5, <1>6, StepOne

LEMMA ResetKeeps ==
    ASSUME IInv, NEW h \in Holders, Reset(h)
    PROVE  IInv'
<1>1. PICK u : u = reset(s, h)
  OBVIOUS
<1>2. s.kind[h] = "opt" /\ "opt" # None
  BY DEF Reset, Is, None
<1>3. s' = u /\ want' = With(h, Null) /\ GotInv' /\ UNCHANGED ref
  BY <1>1, Got DEF Reset, Step
<1>4. SameBut(u, s, {h}) /\ At(u, h, "opt", IF Holds(s, h) THEN Null ELSE s.tag[h], Raw)
  BY <1>1, <1>2, ResetAs DEF IInv
<1>5. Fine(u.kind[h], u.tag[h], u.obj[h], Null)
  BY <1>2, <1>4, Contents, Distinct DEF Fine, At, None, Holds
<1>6. Lasting(u, {h})
  BY <1>2, <1>4 DEF Lasting, At
<1>. QED
  BY <1>3, <1>4, <1>5, <1>6, StepOne

LEMMA CloneInto_opt ==
    ASSUME IInv, NEW h \in Holders, NEW g \in Holders, BrokenUses = {}, CloneInto(g, h), Is(g,
           {"opt"})
    PROVE  IInv'
<1>1. PICK u : u = OptCloneInto(s, g, h)
  OBVIOUS
<1>2. s.kind[h] = "opt" /\ s.kind[g] = "opt" /\ h # g /\ (Holds(s, g) => Holds(s, h))
  BY DEF CloneInto, Is
<1>3. s' = u /\ want' = With(h, want[g]) /\ GotInv' /\ UNCHANGED ref
  BY <1>1, Got DEF CloneInto, Step, Is
<1>4. SameBut(u, s, {h}) /\ At(u, h, "opt", s.tag[g], s.obj[g])
  BY <1>1, <1>2, OptCloneIntoAs DEF IInv
<1>5. Fine(u.kind[h], u.tag[h], u.obj[h], want[g])
  BY <1>2, <1>4, Contents, Distinct DEF Fine, At, None, Holds
<1>6. Lasting(u, {h})
  BY <1>2, <1>4 DEF Lasting, At
<1>. QED
  BY <1>3, <1>4, <1>5, <1>6, StepOne

LEMMA CloneInto_res ==
    ASSUME IInv, NEW h \in Holders, NEW g \in Holders, BrokenUses = {}, CloneInto(g, h), Is(g,
           {"res"})
    PROVE  IInv'
<1>1. PICK u : u = ResCloneInto(s, g, h)
  OBVIOUS
<1>2. s.kind[h] = "res" /\ s.kind[g] = "res" /\ h # g
  BY DEF CloneInto, Is
<1>3. s' = u /\ want' = With(h, want[g]) /\ GotInv' /\ UNCHANGED ref
  BY <1>1, Got DEF CloneInto, Step, Is
<1>4. SameBut(u, s, {h}) /\ At(u, h, "res", s.tag[g], s.obj[g])
  BY <1>1, <1>2, ResCloneIntoAs DEF IInv
<1>5. Fine(u.kind[h], u.tag[h], u.obj[h], want[g])
  BY <1>2, <1>4, Contents, Distinct DEF Fine, At, None, Holds
<1>6. Lasting(u, {h})
  BY <1>2, <1>4 DEF Lasting, At
<1>. QED
  BY <1>3, <1>4, <1>5, <1>6, StepOne

LEMMA MoveConstruct_opt ==
    ASSUME IInv, NEW h \in Holders, NEW g \in Holders, MoveConstruct(h, g), Is(g, {"opt"})
    PROVE  IInv'
<1>1. PICK u : u = OptMoveConstructed(s, h, g)
  OBVIOUS
<1>2. s.kind[h] = None /\ s.kind[g] = "opt" /\ h # g
  BY DEF MoveConstruct, Is, None
<1>3. s' = u /\ want' = WithBoth(h, want[g], g, AfterMove(g)) /\ GotInv' /\ UNCHANGED ref
  BY <1>1, <1>2, Got DEF MoveConstruct, Step, Is
<1>4. SameBut(u, s, {h, g}) /\ At(u, h, "opt", s.tag[g], s.obj[g]) /\ At(u, g, "opt", s.tag[g],
         IF Holds(s, g) THEN Moved ELSE Raw)
  BY <1>1, <1>2, OptMoveConstructedAs DEF IInv
<1>5. /\ Fine(u.kind[h], u.tag[h], u.obj[h], want[g])
      /\ Fine(u.kind[g], u.tag[g], u.obj[g], AfterMove(g))
  BY <1>2, <1>4, Contents, Distinct DEF Fine, At, None, Holds, AfterMove, AfterTake
<1>6. Lasting(u, {h, g})
  BY <1>2, <1>4 DEF Lasting, At
<1>. QED
  BY <1>2, <1>3, <1>4, <1>5, <1>6, StepTwo

LEMMA MoveConstruct_res ==
    ASSUME IInv, NEW h \in Holders, NEW g \in Holders, BrokenUses = {}, MoveConstruct(h, g),
           Is(g, {"res"})
    PROVE  IInv'
<1>1. PICK u : u = ResMoveConstructed(s, h, g)
  OBVIOUS
<1>2. s.kind[h] = None /\ s.kind[g] = "res" /\ h # g
  BY DEF MoveConstruct, Is, None
<1>3. s' = u /\ want' = WithBoth(h, want[g], g, AfterMove(g)) /\ GotInv' /\ UNCHANGED ref
  BY <1>1, <1>2, Got DEF MoveConstruct, Step, Is
<1>4. SameBut(u, s, {h, g}) /\ At(u, h, "res", s.tag[g], s.obj[g]) /\ At(u, g, "res", s.tag[g],
         IF Holds(s, g) THEN Moved ELSE Raw)
  BY <1>1, <1>2, ResMoveConstructedAs DEF IInv
<1>5. /\ Fine(u.kind[h], u.tag[h], u.obj[h], want[g])
      /\ Fine(u.kind[g], u.tag[g], u.obj[g], AfterMove(g))
  BY <1>2, <1>4, Contents, Distinct DEF Fine, At, None, Holds, AfterMove, AfterTake
<1>6. Lasting(u, {h, g})
  BY <1>2, <1>4 DEF Lasting, At
<1>. QED
  BY <1>2, <1>3, <1>4, <1>5, <1>6, StepTwo

LEMMA MoveConstruct_pointer ==
    ASSUME IInv, NEW h \in Holders, NEW g \in Holders, MoveConstruct(h, g), ~Is(g, {"opt"}),
           ~Is(g, {"res"})
    PROVE  IInv'
<1>1. PICK u : u = HandedOver(Born(s, h, s.kind[g], Null), h, g)
  OBVIOUS
<1>2. s.kind[h] = None /\ s.kind[g] \in {"owned", "anystatus", "generator"} /\ h # g
  BY ValuesAssumption DEF MoveConstruct, Is, None, IInv, Good, Shaped, KindSet
<1>3. s' = u /\ want' = WithBoth(h, want[g], g, AfterTake(g)) /\ GotInv' /\ UNCHANGED ref
  BY <1>1, <1>2, Got DEF MoveConstruct, Step, Is
<1>4. SameBut(u, s, {h, g}) /\ At(u, h, s.kind[g], s.tag[g], s.obj[g]) /\ At(u, g, s.kind[g],
         Null, Raw)
  BY <1>1, <1>2, HandedOverAs DEF IInv, None
<1>5. /\ Fine(u.kind[h], u.tag[h], u.obj[h], want[g])
      /\ Fine(u.kind[g], u.tag[g], u.obj[g], AfterTake(g))
  BY <1>2, <1>4, Contents, Distinct DEF Fine, At, None, Holds, AfterMove, AfterTake
<1>6. Lasting(u, {h, g})
  BY <1>2, <1>4 DEF Lasting, At
<1>. QED
  BY <1>2, <1>3, <1>4, <1>5, <1>6, StepTwo

LEMMA MoveAssign_opt ==
    ASSUME IInv, NEW h \in Holders, NEW g \in Holders, BrokenUses = {}, MoveAssign(h, g), Is(g,
           {"opt"})
    PROVE  IInv'
<1>1. PICK u : u = OptMoveAssigned(s, h, g)
  OBVIOUS
<1>2. s.kind[h] = "opt" /\ s.kind[g] = "opt" /\ h # g
  BY DEF MoveAssign, Is
<1>3. s' = u /\ want' = WithBoth(h, want[g], g, AfterMove(g)) /\ GotInv' /\ UNCHANGED ref
  BY <1>1, <1>2, Got DEF MoveAssign, Step, Is
<1>4. SameBut(u, s, {h, g}) /\ At(u, h, "opt", s.tag[g], s.obj[g]) /\ At(u, g, "opt", s.tag[g],
         IF Holds(s, g) THEN Moved ELSE Raw)
  BY <1>1, <1>2, OptMoveAssignedAs DEF IInv
<1>5. /\ Fine(u.kind[h], u.tag[h], u.obj[h], want[g])
      /\ Fine(u.kind[g], u.tag[g], u.obj[g], AfterMove(g))
  BY <1>2, <1>4, Contents, Distinct DEF Fine, At, None, Holds, AfterMove, AfterTake
<1>6. Lasting(u, {h, g})
  BY <1>2, <1>4 DEF Lasting, At
<1>. QED
  BY <1>2, <1>3, <1>4, <1>5, <1>6, StepTwo

LEMMA MoveAssign_res ==
    ASSUME IInv, NEW h \in Holders, NEW g \in Holders, BrokenUses = {}, MoveAssign(h, g), Is(g,
           {"res"})
    PROVE  IInv'
<1>1. PICK u : u = ResMoveAssigned(s, h, g)
  OBVIOUS
<1>2. s.kind[h] = "res" /\ s.kind[g] = "res" /\ h # g /\ (Holds(s, h) => Holds(s, g))
  BY DEF MoveAssign, Is
<1>3. s' = u /\ want' = WithBoth(h, want[g], g, AfterMove(g)) /\ GotInv' /\ UNCHANGED ref
  BY <1>1, <1>2, Got DEF MoveAssign, Step, Is
<1>4. SameBut(u, s, {h, g}) /\ At(u, h, "res", s.tag[g], s.obj[g]) /\ At(u, g, "res", s.tag[g],
         IF Holds(s, g) THEN Moved ELSE Raw)
  BY <1>1, <1>2, ResMoveAssignedAs DEF IInv
<1>5. /\ Fine(u.kind[h], u.tag[h], u.obj[h], want[g])
      /\ Fine(u.kind[g], u.tag[g], u.obj[g], AfterMove(g))
  BY <1>2, <1>4, Contents, Distinct DEF Fine, At, None, Holds, AfterMove, AfterTake
<1>6. Lasting(u, {h, g})
  BY <1>2, <1>4 DEF Lasting, At
<1>. QED
  BY <1>2, <1>3, <1>4, <1>5, <1>6, StepTwo

LEMMA MoveAssign_pointer ==
    ASSUME IInv, NEW h \in Holders, NEW g \in Holders, BrokenUses = {}, MoveAssign(h, g), ~Is(g,
           {"opt"}), ~Is(g, {"res"}), h # g
    PROVE  IInv'
<1>1. PICK u : u = PointerMoveAssigned(s, h, g)
  OBVIOUS
<1>2. s.kind[h] = s.kind[g] /\ s.kind[g] \in {"anystatus", "generator"}
  BY DEF MoveAssign, Is
<1>3. s' = u /\ want' = WithBoth(h, want[g], g, AfterTake(g)) /\ GotInv' /\ UNCHANGED ref
  BY <1>1, <1>2, Got DEF MoveAssign, Step, Is
<1>4. SameBut(u, s, {h, g}) /\ At(u, h, s.kind[g], s.tag[g], s.obj[g]) /\ At(u, g, s.kind[g],
         Null, Raw)
  BY <1>1, <1>2, PointerMoveAssignedAs DEF IInv, Pointers
<1>5. /\ Fine(u.kind[h], u.tag[h], u.obj[h], want[g])
      /\ Fine(u.kind[g], u.tag[g], u.obj[g], AfterTake(g))
  BY <1>2, <1>4, Contents, Distinct DEF Fine, At, None, Holds, AfterMove, AfterTake
<1>6. Lasting(u, {h, g})
  BY <1>2, <1>4 DEF Lasting, At
<1>. QED
  BY <1>2, <1>3, <1>4, <1>5, <1>6, StepTwo

LEMMA TakeKeeps ==
    ASSUME IInv, NEW h \in Holders, NEW g \in Holders, Take(h, g)
    PROVE  IInv'
<1>1. PICK v : v = s.obj[g]
  OBVIOUS
<1>2. PICK u : u = Taken(s, h, g, v)
  OBVIOUS
<1>3. s.kind[h] = None /\ s.kind[g] = "opt" /\ h # g
  BY DEF Take, Is, None
<1>4. Holds(s, g) => v \in Objects /\ v # Raw
  BY <1>1, <1>3, Contents DEF None
<1>5. s' = u /\ want' = WithBoth(h, want[g], g, AfterTake(g)) /\ GotInv' /\ UNCHANGED ref
  BY <1>1, <1>2, Got DEF Take, Step
<1>6. /\ SameBut(u, s, {h, g})
      /\ At(u, h, "opt", s.tag[g], IF Holds(s, g) THEN v ELSE Raw)
      /\ At(u, g, "opt", Null, Raw)
  BY <1>2, <1>3, <1>4, TakenAs DEF IInv
<1>7. /\ Fine(u.kind[h], u.tag[h], u.obj[h], want[g])
      /\ Fine(u.kind[g], u.tag[g], u.obj[g], AfterTake(g))
  BY <1>1, <1>3, <1>4, <1>6, Contents, Distinct DEF Fine, At, None, Holds, AfterTake
<1>8. Lasting(u, {h, g})
  BY <1>3, <1>6 DEF Lasting, At
<1>. QED
  BY <1>3, <1>5, <1>6, <1>7, <1>8, StepTwo

LEMMA TakeAndRunKeeps ==
    ASSUME IInv, NEW h \in Holders, NEW g \in Holders, TakeAndRun(h, g)
    PROVE  IInv'
<1>1. PICK v : v = OtherValue(s.obj[g])
  OBVIOUS
<1>2. PICK u : u = Taken(s, h, g, v)
  OBVIOUS
<1>3. s.kind[h] = None /\ s.kind[g] = "opt" /\ h # g
  BY DEF TakeAndRun, Is, None
<1>4. Holds(s, g) => v \in Objects /\ v # Raw
  BY <1>1, <1>3, Contents, OtherObjects DEF None
<1>5. s' = u /\ want' = WithBoth(h, Wanted(g, OtherValue), g,
         AfterTake(g)) /\ GotInv' /\ UNCHANGED ref
  BY <1>1, <1>2, Got DEF TakeAndRun, Step
<1>6. /\ SameBut(u, s, {h, g})
      /\ At(u, h, "opt", s.tag[g], IF Holds(s, g) THEN v ELSE Raw)
      /\ At(u, g, "opt", Null, Raw)
  BY <1>2, <1>3, <1>4, TakenAs DEF IInv
<1>7. /\ Fine(u.kind[h], u.tag[h], u.obj[h], Wanted(g, OtherValue))
      /\ Fine(u.kind[g], u.tag[g], u.obj[g], AfterTake(g))
  BY <1>1, <1>3, <1>4, <1>6, Contents, Distinct DEF Fine, At, None, Holds, AfterTake, Wanted
<1>8. Lasting(u, {h, g})
  BY <1>3, <1>6 DEF Lasting, At
<1>. QED
  BY <1>3, <1>5, <1>6, <1>7, <1>8, StepTwo

-----------------------------------------------------------------------------
(* The calls that read, and what becomes of references. *)

LEMMA TakeOrKeeps ==
    ASSUME IInv, NEW g \in Holders, NEW v, TakeOr(g, v)
    PROVE  IInv'
<1>1. PICK u : u = TakenFrom(s, g)
  OBVIOUS
<1>2. s.kind[g] = "opt" /\ "opt" # None
  BY DEF TakeOr, Is, None
<1>3. s' = u /\ want' = With(g, AfterTake(g)) /\ UNCHANGED ref
  BY <1>1 DEF TakeOr, Returns
<1>4. GotInv'
  BY <1>2, Contents DEF TakeOr, Returns, GotInv
<1>5. SameBut(u, s, {g}) /\ At(u, g, "opt", Null, Raw)
  BY <1>1, <1>2, TakenFromAs DEF IInv
<1>6. Fine(u.kind[g], u.tag[g], u.obj[g], AfterTake(g))
  BY <1>2, <1>5, Contents, Distinct DEF Fine, At, Holds, AfterTake
<1>7. Lasting(u, {g})
  BY <1>2, <1>5 DEF Lasting, At
<1>. QED
  BY <1>3, <1>4, <1>5, <1>6, <1>7, StepOne

LEMMA UnwrapOrKeeps ==
    ASSUME IInv, NEW g \in Holders, NEW v, UnwrapOr(g, v)
    PROVE  IInv'
<1>1. s.kind[g] = "res" /\ "res" # None
  BY DEF UnwrapOr, Is, None
<1>2. GotInv'
  BY <1>1, Contents DEF UnwrapOr, Returns, GotInv
<1>3. CASE Holds(s, g)
  <2>1. PICK u : u = MovedOut(s, g)
    OBVIOUS
  <2>2. s' = u /\ want' = With(g, AfterMove(g)) /\ UNCHANGED ref
    BY <1>3, <2>1 DEF UnwrapOr, Returns
  <2>3. SameBut(u, s, {g}) /\ At(u, g, "res", s.tag[g], Moved)
    BY <1>1, <1>3, <2>1, MovedOutAs DEF IInv
  <2>4. Fine(u.kind[g], u.tag[g], u.obj[g], AfterMove(g))
    BY <1>1, <1>3, <2>3, Contents, Distinct DEF Fine, At, Holds, AfterMove
  <2>5. Lasting(u, {g})
    BY <1>1, <2>3 DEF Lasting, At
  <2>. QED
    BY <1>2, <2>2, <2>3, <2>4, <2>5, StepOne
<1>4. CASE ~Holds(s, g)
  <2>1. s' = s /\ want' = With(g, AfterMove(g)) /\ UNCHANGED ref
    BY <1>4 DEF UnwrapOr, Returns
  <2>2. SameBut(s, s, {g}) /\ Lasting(s, {g})
    BY DEF SameBut, At, IInv, Good, Lasting
  <2>3. Fine(s.kind[g], s.tag[g], s.obj[g], AfterMove(g))
    BY <1>1, <1>4, Contents, Distinct DEF Fine, Holds, AfterMove
  <2>. QED
    BY <1>2, <2>1, <2>2, <2>3, StepOne
<1>. QED
  BY <1>3, <1>4

LEMMA ReadingKeeps ==
    ASSUME IInv, NEW g \in Holders, NEW h \in Holders, NEW v,
           \/ CopyOutOr(g, v) \/ Look(g) \/ Iterate(g) \/ TryCast(g) \/ Compare(g, h)
    PROVE  IInv'
<1>1. UNCHANGED <<s, want, ref>>
  BY DEF CopyOutOr, Look, Iterate, TryCast, Compare, Returns
<1>2. RefInv'
  BY <1>1 DEF IInv, RefInv
<1>3. GotInv'
  <2>1. CASE CopyOutOr(g, v)
    <3>1. s.kind[g] # None
      BY <2>1 DEF CopyOutOr, Is, None
    <3>. QED
      BY <2>1, <3>1, Contents DEF CopyOutOr, Returns, GotInv
  <2>2. CASE Look(g)
    <3>1. s.kind[g] # None
      BY <2>2 DEF Look, Is, None
    <3>. QED
      BY <2>2, <3>1, Contents DEF Look, Returns, GotInv
  <2>3. CASE Iterate(g)
    <3>1. s.kind[g] # None
      BY <2>3 DEF Iterate, Is, None
    <3>. QED
      BY <2>3, <3>1, Contents DEF Iterate, Iterated, Returns, GotInv
  <2>4. CASE TryCast(g)
    <3>1. s.kind[g] # None
      BY <2>4 DEF TryCast, Is, None
    <3>. QED
      BY <2>4, <3>1, Contents DEF TryCast, Content, Returns, GotInv
  <2>5. CASE Compare(g, h)
    <3>1. s.kind[g] = "opt" /\ s.kind[h] = "opt" /\ "opt" # None
      BY <2>5 DEF Compare, Is, None
    <3>2. Equal(s, g, h) \in BOOLEAN
      BY DEF Equal
    <3>3. Equal(s, g, h) <=> want[g] = want[h]
      <4>1. /\ IF Holds(s, g) THEN want[g] = <<s.obj[g]>> ELSE want[g] = Null
            /\ IF Holds(s, h) THEN want[h] = <<s.obj[h]>> ELSE want[h] = Null
        BY <3>1, Contents, Distinct DEF Holds
      <4>2. (Holds(s, g) => want[g] # Null) /\ (Holds(s, h) => want[h] # Null)
        BY <3>1, Contents, Distinct
      <4>. QED
        BY <4>1, <4>2 DEF Equal
    <3>. QED
      BY <2>5, <3>2, <3>3 DEF Compare, Returns, GotInv
  <2>. QED
    BY <2>1, <2>2, <2>3, <2>4, <2>5
<1>. QED
  BY <1>1, <1>2, <1>3, StepNone

LEMMA DestroyAndFreeKeeps ==
    ASSUME IInv, DestroyAndFree
    PROVE  IInv'
<1>1. UNCHANGED <<s, want, ref>> /\ GotInv'
  BY Got DEF DestroyAndFree
<1>2. RefInv'
  BY <1>1 DEF IInv, RefInv
<1>. QED
  BY <1>1, <1>2, StepNone

LEMMA ReferToKeeps ==
    ASSUME IInv, NEW g \in Holders, ReferTo(g)
    PROVE  IInv'
<1>1. UNCHANGED <<s, want>> /\ GotInv'
  BY Got DEF ReferTo
<1>2. s.kind[g] \in {"opt", "res"} /\ s.kind[g] # None
  BY DEF ReferTo, Is, None
<1>3. RefInv'
  <2>1. ref' \in {g} \cup Errors \cup {Null}
    BY <1>2, Contents DEF ReferTo, ToOpt, ToResRef
  <2>. QED
    BY <1>1, <1>2, <2>1, ValuesAssumption DEF RefInv
<1>. QED
  BY <1>1, <1>3, StepNone

LEMMA Referred ==
    ASSUME IInv, Valid
    PROVE  ref \in Holders /\ s.kind[ref] \in {"opt", "res"} /\ Holds(s,
        ref) /\ want[ref] = <<s.obj[ref]>>
<1>1. ref \in Holders /\ s.kind[ref] \in {"opt", "res"} /\ s.obj[ref] # Raw
  BY DEF IInv, RefInv, Valid
<1>2. s.kind[ref] # None
  BY <1>1 DEF None
<1>. QED
  BY <1>1, <1>2, Contents

LEMMA ReadRefKeeps ==
    ASSUME IInv, NEW v, ReadRef(v) \/ TakeRef
    PROVE  IInv'
<1>1. UNCHANGED <<s, want>>
  BY DEF ReadRef, TakeRef, Returns
<1>2. RefInv'
  BY <1>1, ValuesAssumption DEF IInv, RefInv, ReadRef, TakeRef
<1>3. GotInv'
  BY Referred DEF ReadRef, TakeRef, Returns, GotInv
<1>. QED
  BY <1>1, <1>2, <1>3, StepNone

LEMMA WriteRefKeeps ==
    ASSUME IInv, NEW v \in Values, WriteRef(v)
    PROVE  IInv'
<1>1. PICK h \in Holders : h = ref
  BY Referred DEF WriteRef
<1>2. s.kind[h] \in {"opt", "res"} /\ Holds(s, h) /\ v \in ObjSet /\ v # Raw
  BY <1>1, Referred, Distinct DEF WriteRef
<1>3. PICK u : u = [s EXCEPT !.obj[h] = v]
  OBVIOUS
<1>4. s' = u /\ want' = With(h, <<v>>) /\ GotInv' /\ UNCHANGED ref
  BY <1>1, <1>3, Got DEF WriteRef, Step
<1>5. /\ u.kind = s.kind /\ u.tag = s.tag /\ u.obj = [s.obj EXCEPT ![h] = v] /\ u.fault = s.fault
      /\ DOMAIN u = {"kind", "tag", "obj", "fault"}
  BY <1>3 DEF IInv, Good, Shaped
<1>6. SameBut(u, s, {h}) /\ At(u, h, s.kind[h], s.tag[h], v)
  BY <1>2, <1>5 DEF IInv, Good, Shaped, SameBut, At
<1>7. Fine(u.kind[h], u.tag[h], u.obj[h], <<v>>)
  BY <1>2, <1>6, Distinct DEF Fine, At, Holds, None
<1>8. Lasting(u, {h})
  BY <1>6 DEF Lasting, At
<1>. QED
  BY <1>4, <1>6, <1>7, <1>8, StepOne

LEMMA TransformValueKeeps ==
    ASSUME IInv, BrokenUses = {}, NEW h \in Holders, NEW g \in Holders, TransformValue(h, g)
    PROVE  IInv'
<1>1. PICK w : w = ResMoveConstructed(s, h, g)
  OBVIOUS
<1>2. s.kind[h] = None /\ s.kind[g] = "res" /\ h # g
  BY DEF TransformValue, Is, None
<1>3. /\ SameBut(w, s, {h, g})
      /\ At(w, h, "res", s.tag[g], s.obj[g])
      /\ At(w, g, "res", s.tag[g], IF Holds(s, g) THEN Moved ELSE Raw)
  BY <1>1, <1>2, ResMoveConstructedAs DEF IInv
<1>4. PICK v : v = OtherValue(s.obj[g])
  OBVIOUS
<1>5. Holds(s, g) => v \in ObjSet /\ v # Raw
  BY <1>2, <1>4, Contents, OtherObjects DEF None
<1>6. PICK u : u = IF Holds(w, h) THEN [w EXCEPT !.obj[h] = v] ELSE w
  OBVIOUS
<1>7. s' = u /\ want' = WithBoth(h, Wanted(g, OtherValue), g,
         AfterMove(g)) /\ GotInv' /\ UNCHANGED ref
  <2>1. w.obj[h] = s.obj[g]
    BY <1>3 DEF At
  <2>2. s' = IF Holds(w, h) THEN [w EXCEPT !.obj[h] = OtherValue(w.obj[h])] ELSE w
    BY <1>1 DEF TransformValue, Step
  <2>. QED
    BY <1>4, <1>6, <2>1, <2>2, Got DEF TransformValue, Step
<1>8. /\ SameBut(u, s, {h, g})
      /\ At(u, h, "res", s.tag[g], IF Holds(s, g) THEN v ELSE s.obj[g])
      /\ At(u, g, "res", s.tag[g], IF Holds(s, g) THEN Moved ELSE Raw)
  <2>1. CASE Holds(s, g)
    <3>1. /\ u.kind = w.kind /\ u.tag = w.tag /\ u.obj = [w.obj EXCEPT ![h] = v] /\ u.fault = w.fault
          /\ DOMAIN u = {"kind", "tag", "obj", "fault"}
      BY <1>3, <1>6, <2>1 DEF SameBut, Shaped, At, Holds
    <3>. QED
      BY <1>2, <1>3, <1>5, <2>1, <3>1 DEF SameBut, Shaped, At
  <2>2. CASE ~Holds(s, g)
    BY <1>3, <1>6, <2>2 DEF At, Holds
  <2>. QED
    BY <2>1, <2>2
<1>9. /\ Fine(u.kind[h], u.tag[h], u.obj[h], Wanted(g, OtherValue))
      /\ Fine(u.kind[g], u.tag[g], u.obj[g], AfterMove(g))
  BY <1>2, <1>4, <1>5, <1>8, Contents, Distinct DEF Fine, At, None, Holds, AfterMove, Wanted
<1>10. Lasting(u, {h, g})
  BY <1>2, <1>8 DEF Lasting, At
<1>. QED
  BY <1>2, <1>7, <1>8, <1>9, <1>10, StepTwo

LEMMA TransformErrorKeeps ==
    ASSUME IInv, BrokenUses = {}, NEW h \in Holders, NEW g \in Holders, TransformError(h, g)
    PROVE  IInv'
<1>1. PICK w : w = ResMoveConstructed(s, h, g)
  OBVIOUS
<1>2. s.kind[h] = None /\ s.kind[g] = "res" /\ h # g
  BY DEF TransformError, Is, None
<1>3. /\ SameBut(w, s, {h, g})
      /\ At(w, h, "res", s.tag[g], s.obj[g])
      /\ At(w, g, "res", s.tag[g], IF Holds(s, g) THEN Moved ELSE Raw)
  BY <1>1, <1>2, ResMoveConstructedAs DEF IInv
<1>4. PICK t : t = Other(s.tag[g], Errors)
  OBVIOUS
<1>5. /\ t \in TagSet
      /\ Holds(s, g) => t = Holding
      /\ ~Holds(s, g) => t # Holding /\ t = Other(want[g], Errors)
      /\ Holds(s, g) => Other(want[g], Errors) = want[g]
  <2>1. s.tag[g] \in TagSet
    BY DEF IInv, Good, Shaped
  <2>2. t = s.tag[g] \/ (s.tag[g] \in Errors /\ t \in Errors)
    BY <1>4, OthersThere
  <2>3. s.kind[g] # None
    BY <1>2 DEF None
  <2>4. Holds(s, g) => want[g] \notin Errors
    BY <2>3, Contents, Distinct
  <2>. QED
    BY <1>4, <2>1, <2>2, <2>3, <2>4, Contents, OthersThere, Distinct DEF Holds, TagSet
<1>6. PICK u : u = [w EXCEPT !.tag[h] = t]
  OBVIOUS
<1>7. s' = u /\ want' = WithBoth(h, Other(want[g], Errors), g,
         AfterMove(g)) /\ GotInv' /\ UNCHANGED ref
  <2>1. w.tag[h] = s.tag[g]
    BY <1>3 DEF At
  <2>2. s' = [w EXCEPT !.tag[h] = Other(w.tag[h], Errors)]
    BY <1>1 DEF TransformError, Step
  <2>. QED
    BY <1>4, <1>6, <2>1, <2>2, Got DEF TransformError, Step
<1>8. /\ SameBut(u, s, {h, g})
      /\ At(u, h, "res", t, s.obj[g])
      /\ At(u, g, "res", s.tag[g], IF Holds(s, g) THEN Moved ELSE Raw)
  <2>1. /\ u.kind = w.kind /\ u.tag = [w.tag EXCEPT ![h] = t] /\ u.obj = w.obj /\ u.fault = w.fault
        /\ DOMAIN u = {"kind", "tag", "obj", "fault"}
    BY <1>3, <1>6 DEF SameBut, Shaped
  <2>. QED
    BY <1>2, <1>3, <1>5, <2>1 DEF SameBut, Shaped, At
<1>9. /\ Fine(u.kind[h], u.tag[h], u.obj[h], Other(want[g], Errors))
      /\ Fine(u.kind[g], u.tag[g], u.obj[g], AfterMove(g))
  BY <1>2, <1>5, <1>8, Contents, Distinct DEF Fine, At, None, Holds, AfterMove
<1>10. Lasting(u, {h, g})
  BY <1>2, <1>8 DEF Lasting, At
<1>. QED
  BY <1>2, <1>7, <1>8, <1>9, <1>10, StepTwo

LEMMA NextOfKeeps ==
    ASSUME IInv, NEW g \in Holders, NextOf(g)
    PROVE  IInv'
<1>1. s.kind[g] = "generator" /\ Holds(s, g) /\ "generator" # None
  BY DEF NextOf, Is, None
<1>2. PICK n \in 0 .. Length : s.obj[g] = n /\ want[g] = <<n>>
  BY <1>1, Contents
<1>3. PICK k : k = IF n < Length THEN n + 1 ELSE n
  OBVIOUS
<1>4. k \in 0 .. Length /\ k \in ObjSet /\ k # Raw
  BY <1>3, Distinct, ValuesAssumption
<1>5. PICK u : u = [s EXCEPT !.obj[g] = k]
  OBVIOUS
<1>6. s' = u /\ UNCHANGED ref /\ GotInv'
  BY <1>2, <1>3, <1>5 DEF NextOf, Returns, GotInv
<1>7. want' = With(g, <<k>>)
  <2>1. want' = [want EXCEPT ![g] = IF want[g][1] < Length THEN <<want[g][1] + 1>> ELSE want[g]]
    BY DEF NextOf
  <2>2. (IF want[g][1] < Length THEN <<want[g][1] + 1>> ELSE want[g]) = <<k>>
    BY <1>2, <1>3
  <2>. QED
    BY <2>1, <2>2 DEF With
<1>8. /\ u.kind = s.kind /\ u.tag = s.tag /\ u.obj = [s.obj EXCEPT ![g] = k] /\ u.fault = s.fault
      /\ DOMAIN u = {"kind", "tag", "obj", "fault"}
  BY <1>5 DEF IInv, Good, Shaped
<1>9. SameBut(u, s, {g}) /\ At(u, g, "generator", Holding, k)
  BY <1>1, <1>4, <1>8 DEF IInv, Good, Shaped, SameBut, At, Holds
<1>10. Fine(u.kind[g], u.tag[g], u.obj[g], <<k>>)
  BY <1>1, <1>4, <1>9 DEF Fine, At, None
<1>11. Lasting(u, {g})
  BY <1>1, <1>9 DEF Lasting, At
<1>. QED
  BY <1>6, <1>7, <1>9, <1>10, <1>11, StepOne

LEMMA ReleaseKeeps ==
    ASSUME IInv, NEW g \in Holders, Release(g)
    PROVE  IInv'
<1>1. s.kind[g] = "owned" /\ Holds(s, g) /\ "owned" # None
  BY DEF Release, Is, None
<1>2. PICK u : u = [s EXCEPT !.tag[g] = Null, !.obj[g] = Raw]
  OBVIOUS
<1>3. s' = u /\ want' = With(g, AfterTake(g)) /\ GotInv' /\ UNCHANGED ref
  BY <1>2, Got DEF Release
<1>4. /\ u.kind = s.kind /\ u.tag = [s.tag EXCEPT ![g] = Null] /\ u.obj = [s.obj EXCEPT ![g] = Raw]
      /\ u.fault = s.fault /\ DOMAIN u = {"kind", "tag", "obj", "fault"}
  BY <1>2 DEF IInv, Good, Shaped
<1>5. SameBut(u, s, {g}) /\ At(u, g, "owned", Null, Raw)
  BY <1>1, <1>4, Distinct DEF IInv, Good, Shaped, SameBut, At
<1>6. Fine(u.kind[g], u.tag[g], u.obj[g], AfterTake(g))
  BY <1>1, <1>5, Contents, Distinct DEF Fine, At, None, AfterTake
<1>7. Lasting(u, {g})
  BY <1>1, <1>5 DEF Lasting, At
<1>. QED
  BY <1>3, <1>5, <1>6, <1>7, StepOne

LEMMA DestroyKeeps ==
    ASSUME IInv, NEW h \in Holders, Destroy(h)
    PROVE  IInv'
<1>1. s.kind[h] # None /\ ref # h
  BY DEF Destroy, Is
<1>2. PICK e : e = Destroyed(s, h)
  OBVIOUS
<1>3. SameBut(e, s, {h}) /\ At(e, h, s.kind[h], IF Holds(s, h) THEN Null ELSE s.tag[h], Raw)
  BY <1>1, <1>2, ResetAs, OwnerDestroyedAs DEF IInv, Destroyed
<1>4. PICK u : u = [e EXCEPT !.kind[h] = None, !.tag[h] = Null]
  OBVIOUS
<1>5. s' = u /\ want' = With(h, Null) /\ GotInv' /\ UNCHANGED ref
  BY <1>2, <1>4, Got DEF Destroy, Step
<1>6. /\ u.kind = [e.kind EXCEPT ![h] = None] /\ u.tag = [e.tag EXCEPT ![h] = Null] /\ u.obj = e.obj
      /\ u.fault = e.fault /\ DOMAIN u = {"kind", "tag", "obj", "fault"}
  BY <1>3, <1>4 DEF SameBut, Shaped
<1>7. SameBut(u, s, {h}) /\ At(u, h, None, Null, Raw)
  BY <1>3, <1>6, Distinct DEF SameBut, At, Shaped
<1>8. Fine(u.kind[h], u.tag[h], u.obj[h], Null)
  BY <1>7, Distinct DEF Fine, At, None
<1>9. Lasting(u, {h})
  BY <1>1 DEF Lasting
<1>. QED
  BY <1>5, <1>7, <1>8, <1>9, StepOne

LEMMA AssignmentsKeep ==
    ASSUME IInv, BrokenUses = {}, NEW h \in Holders, NEW g \in Holders,
           \/ CopyConstruct(h, g) \/ MoveConstruct(h, g) \/ MoveAssign(h, g) \/ CloneInto(h, g)
    PROVE  IInv'
<1>1. CASE CopyConstruct(h, g)
  BY <1>1, CopyConstruct_OptCopyConstructed, CopyConstruct_OptConverted,
      CopyConstruct_ResConverted DEF CopyConstruct
<1>2. CASE MoveConstruct(h, g)
  BY <1>2, MoveConstruct_opt, MoveConstruct_res, MoveConstruct_pointer
<1>3. CASE MoveAssign(h, g)
  <2>1. CASE h = g
    <3>1. UNCHANGED <<s, want, ref>> /\ GotInv'
      BY <1>3, <2>1, Got DEF MoveAssign, Is, Step
    <3>2. RefInv'
      BY <3>1 DEF IInv, RefInv
    <3>. QED
      BY <3>1, <3>2, StepNone
  <2>. QED
    BY <1>3, <2>1, MoveAssign_opt, MoveAssign_res, MoveAssign_pointer
<1>4. CASE CloneInto(h, g)
  <2>1. Is(h, {"opt"}) \/ Is(h, {"res"})
    BY <1>4 DEF CloneInto, Is
  <2>. QED
    BY <1>4, <2>1, CloneInto_opt, CloneInto_res
<1>. QED
  BY <1>1, <1>2, <1>3, <1>4

-----------------------------------------------------------------------------

(***************************************************************************)
(* The invariant holds in every state of every program that makes none of  *)
(* the uses that are known to fail (opt.h, error.h, anystatus.h,           *)
(* generator.h, allocator.h).                                              *)
(***************************************************************************)
THEOREM Inductive ==
    ASSUME BrokenUses = {}
    PROVE  Spec => []IInv
<1>1. Init => IInv
  <2>. SUFFICES ASSUME Init PROVE IInv
    OBVIOUS
  <2>1. Good(s, want)
    BY Distinct DEF Init, Good, Shaped, Fine, None
  <2>2. RefInv /\ GotInv
    BY ValuesAssumption DEF Init, RefInv, GotInv, NoGot
  <2>. QED
    BY <2>1, <2>2 DEF IInv
<1>2. IInv /\ [Next]_vars => IInv'
  <2>. SUFFICES ASSUME IInv, [Next]_vars PROVE IInv'
    OBVIOUS
  <2>1. CASE UNCHANGED vars
    <3>1. UNCHANGED <<s, want, ref>> /\ GotInv'
      BY <2>1 DEF vars, IInv, GotInv
    <3>2. RefInv'
      BY <3>1 DEF IInv, RefInv
    <3>. QED
      BY <3>1, <3>2, StepNone
  <2>2. CASE Next
    BY <2>2, ConstructNothing_opt, ConstructNothing_res, ConstructHoldingKeeps, MakeKeeps,
        MakeOwnedKeeps,
       ConstructAnystatusKeeps, StartCoroutineKeeps, CopyAssignKeeps, AssignValueKeeps,
           EmplaceKeeps, ResetKeeps,
       TakeKeeps, TakeAndRunKeeps, TakeOrKeeps, UnwrapOrKeeps, ReadingKeeps, DestroyAndFreeKeeps,
           ReferToKeeps,
       ReadRefKeeps, WriteRefKeeps, TransformValueKeeps, TransformErrorKeeps, NextOfKeeps,
           ReleaseKeeps, DestroyKeeps,
       AssignmentsKeep DEF Next, ConstructNothing
  <2>. QED
    BY <2>1, <2>2
<1>. QED
  BY <1>1, <1>2, PTL DEF Spec


(* What the invariant says of the two properties. *)
LEMMA ObjectsThere ==
    ASSUME IInv
    PROVE  LifetimesExact /\ ContentsExact
<1>1. TypeOK
  BY ValuesAssumption DEF TypeOK, IInv, Good, Shaped, RefInv, GotInv, KindSet, TagSet, ObjSet
<1>2. \A h \in Holders : s.obj[h] # Raw <=> s.kind[h] # None /\ Holds(s, h)
  BY DEF IInv, Good, Fine, Holds
<1>3. \A h \in Holders : s.kind[h] # None => Content(s, h) = want[h]
  BY DEF IInv, Good, Fine, Holds, Content
<1>. QED
  BY <1>1, <1>2, <1>3 DEF IInv, Good, GotInv, LifetimesExact, ContentsExact

(***************************************************************************)
(* No call constructs over an object, or destroys, assigns or reads one    *)
(* that is not there: constructors, assignments, take, reset and the       *)
(* destructors agree on which storage holds an object. Only ~owned forgets *)
(* an object (allocator.h:196); programs without owners forget none.       *)
(***************************************************************************)
THEOREM LifetimesCorrect ==
    ASSUME BrokenUses = {}
    PROVE  Spec => []LifetimesExact
BY Inductive, ObjectsThere, PTL

(***************************************************************************)
(* Every holder contains, and every reading call returns, what the last    *)
(* calls put there, and a failed result stays the error that it was.       *)
(***************************************************************************)
THEOREM ContentsCorrect ==
    ASSUME BrokenUses = {}
    PROVE  Spec => []ContentsExact
BY Inductive, ObjectsThere, PTL

=============================================================================
