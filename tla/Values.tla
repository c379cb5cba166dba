------------------------------- MODULE Values -------------------------------
(***************************************************************************)
(* The types that hold one object or none: opt<T> (opt.h), res<T, status>  *)
(* (error.h), and those that own one elsewhere: alloc::owned<T>            *)
(* (allocators/allocator.h), anystatus_t (anystatus.h) and generator_t     *)
(* (async/generator.h).  The objects have constructors and destructors     *)
(* that matter.  Each should be destroyed exactly once, and is, but for    *)
(* the object of an alloc::owned<T>, which ends without its destructor.    *)
(***************************************************************************)
EXTENDS Integers

CONSTANTS
    Holders,        \* variables of the program
    Kinds,          \* of holders: "opt", "res", "owned", "anystatus", "generator"
    Values,         \* what objects are told apart by
    Errors,         \* failure statuses
    Length,         \* how often a coroutine yields
    BrokenUses,     \* the uses that are known to fail and that the program makes nevertheless
    Null,
    Raw,            \* storage without an object
    Moved           \* an object that was moved from

VARIABLES
    s,      \* kind, tag, storage of every holder, and what went wrong with objects
    want,   \* what each holder should contain
    got,    \* what the last reading call returned, and what it should have returned
    loose,  \* the object that release took out of its owner, or Raw
    ref     \* an opt<T&> or res<T&>: the holder of what it refers to, an error or Null

vars == <<s, want, got, loose, ref>>

None == "None"      \* no holder

(***************************************************************************)
(* tag is m_has_value, m_status, or whether the pointer is null: Holding,  *)
(* Null, or the error.                                                     *)
(***************************************************************************)
Holding == "Holding"

Objects == Values \cup Errors \cup {Moved} \cup 0 .. Length

(* what is there and what is not, failures and holders can be told apart *)
ASSUME ValuesAssumption ==
    /\ Kinds \subseteq {"opt", "res", "owned", "anystatus", "generator"}
    /\ Length \in Nat
    /\ Raw \notin Objects
    /\ \A v \in Objects : <<v>> \notin Errors \cup {Null}
    /\ ({Holding} \cup Holders) \cap (Errors \cup {Null}) = {}

Pointers == {"owned", "anystatus", "generator"}

Holds(w, h) == w.tag[h] = Holding

Content(w, h) == IF Holds(w, h) THEN <<w.obj[h]>> ELSE w.tag[h]

-----------------------------------------------------------------------------
(***************************************************************************)
(* Lifetimes of objects in the storage of a holder.                        *)
(***************************************************************************)
Faulty(w, wrong, what) == IF wrong THEN [w EXCEPT !.fault = @ \cup {what}] ELSE w

ConstructedAt(w, h, v) ==
    [Faulty(w, w.obj[h] # Raw, "overwritten") EXCEPT !.obj[h] = v]

AssignedTo(w, h, v) == [Faulty(w, w.obj[h] = Raw, "no object") EXCEPT !.obj[h] = v]

DestroyedAt(w, h) == [Faulty(w, w.obj[h] = Raw, "no object") EXCEPT !.obj[h] = Raw]

MovedOut(w, h) == AssignedTo(w, h, Moved)

(* the storage of an object is given back and its destructor has not run *)
Abandoned == "abandoned"

Born(w, h, kind, tag) == [w EXCEPT !.kind[h] = kind, !.tag[h] = tag]

Tagged(w, h, tag) == [w EXCEPT !.tag[h] = tag]

-----------------------------------------------------------------------------
(***************************************************************************)
(* opt<T>                                                                  *)
(***************************************************************************)
reset(w, h) == IF Holds(w, h) THEN Tagged(DestroyedAt(w, h), h, Null) ELSE w

emplace_nodestroy(w, h, v) == ConstructedAt(w, h, v)

Emplaced(w, h, v) == Tagged(emplace_nodestroy(w, h, v), h, Holding)

emplace(w, h, v) == Emplaced(reset(w, h), h, v)

(* assignment of something that is there *)
Assigned(w, h, v) == IF Holds(w, h) THEN AssignedTo(w, h, v) ELSE Emplaced(w, h, v)

OptCopyConstructed(w, h, g) ==
    IF Holds(w, g) THEN Emplaced(Born(w, h, "opt", Null), h, w.obj[g]) ELSE Born(w, h, "opt", Null)

(* the converting constructors set m_has_value first *)
OptConverted(w, h, g) ==
    LET born == Born(w, h, "opt", w.tag[g]) IN
    IF Holds(w, g) THEN emplace_nodestroy(born, h, w.obj[g]) ELSE born

OptMoveConstructed(w, h, g) ==
    IF Holds(w, g) THEN MovedOut(Emplaced(Born(w, h, "opt", Null), h, w.obj[g]), g)
    ELSE Born(w, h, "opt", Null)

OptCopyAssigned(w, h, g) == IF Holds(w, g) THEN Assigned(w, h, w.obj[g]) ELSE reset(w, h)

OptMoveAssigned_KeepsOld(w, h, g) ==
    IF Holds(w, g) THEN MovedOut(Emplaced(w, h, w.obj[g]), g) ELSE reset(w, h)

OptMoveAssigned(w, h, g) ==
    IF Holds(w, g) THEN MovedOut(Assigned(w, h, w.obj[g]), g) ELSE reset(w, h)

(* what take does to the opt that it takes from *)
TakenFrom_KeepsMoved(w, g) == IF Holds(w, g) THEN MovedOut(w, g) ELSE w

TakenFrom(w, g) == IF Holds(w, g) THEN reset(MovedOut(w, g), g) ELSE w

Taken(w, h, g, v) ==
    IF Holds(w, g) THEN TakenFrom(Emplaced(Born(w, h, "opt", Null), h, v), g)
    ELSE Born(w, h, "opt", Null)

(* clone_into an opt that is empty does not set m_has_value *)
OptCloneInto(w, g, dest) ==
    IF ~Holds(w, g) THEN reset(w, dest)
    ELSE IF Holds(w, dest) THEN AssignedTo(w, dest, w.obj[g])
    ELSE emplace_nodestroy(w, dest, w.obj[g])

-----------------------------------------------------------------------------
(***************************************************************************)
(* res<T, status>.  Constructors move or copy the status first, then the   *)
(* object, if the other one holds any.  An enum that was moved from is     *)
(* what it was; an anystatus_t that was moved from is a success, so a res  *)
(* with such an error must not be moved.                                   *)
(***************************************************************************)
StatusMoved(w, g) == IF "move_error_object" \in BrokenUses THEN Tagged(w, g, Holding) ELSE w

ResMoveConstructed(w, h, g) ==
    LET born == StatusMoved(Born(w, h, "res", w.tag[g]), g) IN
    IF Holds(born, g) THEN MovedOut(ConstructedAt(born, h, w.obj[g]), g) ELSE born

ResConverted(w, h, g) ==
    LET born == Born(w, h, "res", w.tag[g]) IN
    IF Holds(w, g) THEN ConstructedAt(born, h, w.obj[g]) ELSE born

(* an error that is assigned to a success leaves the object where it is *)
ResMoveAssigned(w, h, g) ==
    LET payload == IF ~Holds(w, g) THEN w
                   ELSE MovedOut(IF Holds(w, h) THEN AssignedTo(w, h, w.obj[g])
                                                ELSE ConstructedAt(w, h, w.obj[g]), g)
    IN  Tagged(StatusMoved(payload, g), h, w.tag[g])

(* ok::make: the constructor's status goes next to what it constructed, if it did *)
ResMade(w, h, v, status) ==
    LET born == Born(w, h, "res", status) IN
    IF status = Holding THEN ConstructedAt(born, h, v) ELSE born

ResCloneInto(w, g, dest) ==
    LET payload == IF Holds(w, g)
                   THEN IF Holds(w, dest) THEN AssignedTo(w, dest, w.obj[g])
                        ELSE ConstructedAt(w, dest, w.obj[g])
                   ELSE IF Holds(w, dest) THEN DestroyedAt(w, dest) ELSE w
    IN  Tagged(payload, dest, w.tag[g])

-----------------------------------------------------------------------------
(***************************************************************************)
(* owned<T>, anystatus_t and generator_t hand over a pointer.              *)
(***************************************************************************)
HandedOver(w, h, g) ==
    [Faulty(w, w.obj[h] # Raw, "overwritten") EXCEPT
        !.tag = [@ EXCEPT ![h] = w.tag[g], ![g] = Null],
        !.obj = [@ EXCEPT ![h] = w.obj[g], ![g] = Raw]]

PointerMoveAssigned(w, h, g) == HandedOver(reset(w, h), h, g)

(* ~owned deallocates the memory that it owns, and that is all *)
OwnerDestroyed(w, h) ==
    IF Holds(w, h) THEN [w EXCEPT !.tag[h] = Null, !.obj[h] = Raw, !.fault = @ \cup {Abandoned}] ELSE w

-----------------------------------------------------------------------------

NoGot == [is |-> Null, should |-> Null]

TypeOK ==
    /\ DOMAIN s = {"kind", "tag", "obj", "fault"}
    /\ s.kind \in [Holders -> Kinds \cup {None}]
    /\ s.tag \in [Holders -> Errors \cup {Holding, Null}]
    /\ \A h \in Holders : s.obj[h] = Raw \/ s.obj[h] \in Objects
    /\ DOMAIN want = Holders /\ DOMAIN got = {"is", "should"}
    /\ ref \in Holders \cup Errors \cup {Null}

Init ==
    /\ s = [kind |-> [h \in Holders |-> None], tag |-> [h \in Holders |-> Null],
            obj |-> [h \in Holders |-> Raw], fault |-> {}]
    /\ want = [h \in Holders |-> Null]
    /\ got = NoGot /\ loose = Raw /\ ref = Null

Is(h, kinds) == s.kind[h] \in kinds
Free(h, kind) == Is(h, {None}) /\ kind \in Kinds

(* what the holders should contain once one or two of them have changed *)
With(h, c) == [want EXCEPT ![h] = c]
WithBoth(h, c, g, b) == [want EXCEPT ![g] = b, ![h] = c]

(* a step that leaves w and after which the holders should contain c *)
Step(w, c) == s' = w /\ want' = c /\ got' = NoGot /\ UNCHANGED <<loose, ref>>

(* a step that returns v from w and should have returned c *)
Returns(w, v, c) == s' = w /\ got' = [is |-> v, should |-> c]

(* what a holder should contain: a tuple of one object, Null or an error *)
Should(h) == want[h] \notin Errors \cup {Null}
Wanted(h, f(_)) == IF Should(h) THEN <<f(want[h][1])>> ELSE want[h]

(* once its object was moved elsewhere *)
AfterMove(g) == IF Should(g) THEN <<Moved>> ELSE want[g]
AfterTake(g) == IF Should(g) THEN Null ELSE want[g]

-----------------------------------------------------------------------------
(***************************************************************************)
(* Constructors.                                                           *)
(***************************************************************************)
ConstructNothing(h, tag) ==
    \/ Free(h, "opt") /\ tag = Null /\ Step(Born(s, h, "opt", Null), With(h, Null))
    \/ Free(h, "res") /\ tag \in Errors /\ Step(Born(s, h, "res", tag), With(h, tag))

(* from a value or in place *)
ConstructHolding(h, kind, v) ==
    /\ kind \in {"opt", "res"} /\ Free(h, kind)
    /\ Step(Emplaced(Born(s, h, kind, Null), h, v), With(h, <<v>>))

Make(h, v, status) ==
    /\ Free(h, "res")
    /\ Step(ResMade(s, h, v, status), With(h, IF status = Holding THEN <<v>> ELSE status))

(* allocator_t::make; when there is no memory there is no owner *)
MakeOwned(h, v) ==
    /\ Free(h, "owned")
    /\ Step(Emplaced(Born(s, h, "owned", Null), h, v), With(h, <<v>>))

(* anystatus_t(T&): takes over a status that was allocated *)
ConstructAnystatus(h, e) ==
    /\ Free(h, "anystatus")
    /\ Step(Emplaced(Born(s, h, "anystatus", Null), h, e), With(h, <<e>>))

(* a call of a coroutine: its frame waits before the first value *)
StartCoroutine(h) ==
    /\ Free(h, "generator")
    /\ Step(Emplaced(Born(s, h, "generator", Null), h, 0), With(h, <<0>>))

CopyConstruct(h, g) ==
    /\ Is(h, {None}) /\ Is(g, {"opt", "res"})
    /\ \/ Is(g, {"opt"}) /\ Step(OptCopyConstructed(s, h, g), With(h, want[g]))
       \/ Is(g, {"opt"}) /\ Step(OptConverted(s, h, g), With(h, want[g]))
       \/ Is(g, {"res"}) /\ Step(ResConverted(s, h, g), With(h, want[g]))

MoveConstruct(h, g) ==
    /\ Is(h, {None}) /\ ~Is(g, {None})
    /\ CASE Is(g, {"opt"}) -> Step(OptMoveConstructed(s, h, g), WithBoth(h, want[g], g, AfterMove(g)))
         [] Is(g, {"res"}) -> Step(ResMoveConstructed(s, h, g), WithBoth(h, want[g], g, AfterMove(g)))
         [] OTHER -> Step(HandedOver(Born(s, h, s.kind[g], Null), h, g), WithBoth(h, want[g], g, AfterTake(g)))

-----------------------------------------------------------------------------
(***************************************************************************)
(* Assignments.                                                            *)
(***************************************************************************)
CopyAssign(h, g) ==
    /\ Is(h, {"opt"}) /\ Is(g, {"opt"})
    /\ Step(OptCopyAssigned(s, h, g), With(h, want[g]))

(***************************************************************************)
(* Not between owners of an allocation: that operator returns nothing.     *)
(* A generator must not be assigned to itself, an error not to a success.  *)
(***************************************************************************)
MoveAssign(h, g) ==
    /\ s.kind[h] = s.kind[g] /\ Is(g, {"opt", "res", "anystatus", "generator"})
    /\ h = g => Is(g, {"anystatus"}) \/ "self_move" \in BrokenUses
    /\ Is(g, {"res"}) /\ Holds(s, h) /\ ~Holds(s, g) => "error_to_success" \in BrokenUses
    /\ CASE Is(g, {"opt"}) -> Step(OptMoveAssigned(s, h, g), WithBoth(h, want[g], g, AfterMove(g)))
         [] Is(g, {"res"}) -> Step(ResMoveAssigned(s, h, g), WithBoth(h, want[g], g, AfterMove(g)))
         [] h = g /\ Is(g, {"anystatus"}) -> Step(s, want)
         [] OTHER -> Step(PointerMoveAssigned(s, h, g), WithBoth(h, want[g], g, AfterTake(g)))

AssignValue(h, v) == Is(h, {"opt"}) /\ Step(Assigned(s, h, v), With(h, <<v>>))

Emplace(h, v) == Is(h, {"opt"}) /\ Step(emplace(s, h, v), With(h, <<v>>))

(* reset, and assignment of nullopt *)
Reset(h) == Is(h, {"opt"}) /\ Step(reset(s, h), With(h, Null))

CloneInto(g, dest) ==
    /\ s.kind[g] = s.kind[dest] /\ Is(g, {"opt", "res"}) /\ g # dest
    /\ IF Is(g, {"opt"})
       THEN /\ Holds(s, g) /\ ~Holds(s, dest) => "clone_into_empty" \in BrokenUses
            /\ Step(OptCloneInto(s, g, dest), With(dest, want[g]))
       ELSE Step(ResCloneInto(s, g, dest), With(dest, want[g]))

-----------------------------------------------------------------------------
(***************************************************************************)
(* Taking out, reading and transforming.                                   *)
(***************************************************************************)
(* functions that are passed *)
Other(v, S) == IF v \in S /\ S # {v} THEN CHOOSE u \in S : u # v ELSE v
OtherValue(v) == Other(v, Values)

Take(h, g) ==
    /\ Is(h, {None}) /\ Is(g, {"opt"})
    /\ Step(Taken(s, h, g, s.obj[g]), WithBoth(h, want[g], g, AfterTake(g)))

TakeAndRun(h, g) ==
    /\ Is(h, {None}) /\ Is(g, {"opt"})
    /\ Step(Taken(s, h, g, OtherValue(s.obj[g])), WithBoth(h, Wanted(g, OtherValue), g, AfterTake(g)))

(* take_or, take_or_run *)
TakeOr(g, v) ==
    /\ Is(g, {"opt"})
    /\ Returns(TakenFrom(s, g), IF Holds(s, g) THEN s.obj[g] ELSE v, IF Should(g) THEN want[g][1] ELSE v)
    /\ want' = With(g, AfterTake(g)) /\ UNCHANGED <<loose, ref>>

(* copy_out_or, copy_out_or_run, copy_or *)
CopyOutOr(g, v) ==
    /\ Is(g, {"opt", "res"})
    /\ Returns(s, IF Holds(s, g) THEN s.obj[g] ELSE v, IF Should(g) THEN want[g][1] ELSE v)
    /\ UNCHANGED <<want, loose, ref>>

UnwrapOr(g, v) ==
    /\ Is(g, {"res"})
    /\ Returns(IF Holds(s, g) THEN MovedOut(s, g) ELSE s,
               IF Holds(s, g) THEN s.obj[g] ELSE v, IF Should(g) THEN want[g][1] ELSE v)
    /\ want' = With(g, AfterMove(g)) /\ UNCHANGED <<loose, ref>>

(* ref_or_panic and unwrap: the program looks first *)
Look(g) ==
    /\ Is(g, {"opt", "res", "owned"}) /\ Holds(s, g)
    /\ Returns(s, <<s.obj[g]>>, want[g])
    /\ UNCHANGED <<want, loose, ref>>

(* a loop over an opt: one item or none *)
Iterated(w, g) == IF Holds(w, g) THEN <<w.obj[g]>> ELSE << >>

Iterate(g) ==
    /\ Is(g, {"opt"})
    /\ Returns(s, Iterated(s, g), IF Should(g) THEN want[g] ELSE << >>)
    /\ UNCHANGED <<want, loose, ref>>

(* anystatus_t::try_cast *)
TryCast(g) ==
    /\ Is(g, {"anystatus"})
    /\ Returns(s, Content(s, g), want[g])
    /\ UNCHANGED <<want, loose, ref>>

TransformValue(h, g) ==
    /\ Is(h, {None}) /\ Is(g, {"res"})
    /\ LET w == ResMoveConstructed(s, h, g) IN
       Step(IF Holds(w, h) THEN [w EXCEPT !.obj[h] = OtherValue(@)] ELSE w,
            WithBoth(h, Wanted(g, OtherValue), g, AfterMove(g)))

TransformError(h, g) ==
    /\ Is(h, {None}) /\ Is(g, {"res"})
    /\ Step([ResMoveConstructed(s, h, g) EXCEPT !.tag[h] = Other(@, Errors)],
            WithBoth(h, Other(want[g], Errors), g, AfterMove(g)))

(***************************************************************************)
(* generator_t::next: runs the coroutine to its next yield, which puts a   *)
(* value where next takes it from, or to its end, where it then stays.     *)
(***************************************************************************)
Yielded(n) == IF n < Length THEN n ELSE Null

NextOf(g) ==
    /\ Is(g, {"generator"}) /\ Holds(s, g)
    /\ LET n == s.obj[g] IN
       /\ Returns([s EXCEPT !.obj[g] = IF n < Length THEN n + 1 ELSE n], Yielded(n), Yielded(want[g][1]))
       /\ want' = [want EXCEPT ![g] = IF @[1] < Length THEN <<@[1] + 1>> ELSE @]
    /\ UNCHANGED <<loose, ref>>

(***************************************************************************)
(* owned<T>::release; the program then calls destroy_and_free.             *)
(***************************************************************************)
Release(g) ==
    /\ Is(g, {"owned"}) /\ Holds(s, g) /\ loose = Raw
    /\ loose' = s.obj[g]
    /\ s' = [s EXCEPT !.tag[g] = Null, !.obj[g] = Raw]
    /\ want' = With(g, AfterTake(g)) /\ got' = NoGot /\ UNCHANGED ref

DestroyAndFree ==
    /\ loose # Raw /\ loose' = Raw
    /\ got' = NoGot /\ UNCHANGED <<s, want, ref>>

(***************************************************************************)
(* opt<T&> and res<T&>: to_opt, transform_value to a reference, assignment *)
(* and emplace.  The program reads and writes through one only as long as  *)
(* there is an object.                                                     *)
(***************************************************************************)
ToOpt(w, g) == IF Holds(w, g) THEN g ELSE Null

ToResRef(w, g) == IF Holds(w, g) THEN g ELSE w.tag[g]

ReferTo(g) ==
    /\ \/ Is(g, {"opt", "res"}) /\ ref' = ToOpt(s, g)
       \/ Is(g, {"res"}) /\ ref' = ToResRef(s, g)
    /\ got' = NoGot /\ UNCHANGED <<s, want, loose>>

Valid == ref \in Holders /\ s.obj[ref] # Raw

(* ref_or_panic, unwrap, unwrap_or and the iterators *)
ReadRef(v) ==
    /\ ref \in Holders => Valid
    /\ Returns(s, IF Valid THEN s.obj[ref] ELSE v, IF Valid THEN want[ref][1] ELSE v)
    /\ UNCHANGED <<want, loose, ref>>

(* reset, and take_and_run of the optional *)
TakeRef ==
    /\ ref \in Holders => Valid
    /\ Returns(s, IF Valid THEN OtherValue(s.obj[ref]) ELSE Null,
                  IF Valid THEN OtherValue(want[ref][1]) ELSE Null)
    /\ ref' = Null /\ UNCHANGED <<want, loose>>

WriteRef(v) == Valid /\ Step([s EXCEPT !.obj[ref] = v], With(ref, <<v>>))

(***************************************************************************)
(* operator== of two opts; deep_compare_with does the same for references. *)
(***************************************************************************)
Equal(w, g, h) ==
    \/ ~Holds(w, g) /\ ~Holds(w, h)
    \/ Holds(w, g) /\ Holds(w, h) /\ w.obj[g] = w.obj[h]

Compare(g, h) ==
    /\ Is(g, {"opt"}) /\ Is(h, {"opt"})
    /\ Returns(s, Equal(s, g, h), want[g] = want[h])
    /\ UNCHANGED <<want, loose, ref>>

(* the destructors; references to a holder have gone before it *)
Destroyed(w, h) == IF w.kind[h] = "owned" THEN OwnerDestroyed(w, h) ELSE reset(w, h)

Destroy(h) ==
    /\ ~Is(h, {None}) /\ ref # h
    /\ Step([Destroyed(s, h) EXCEPT !.kind[h] = None, !.tag[h] = Null], With(h, Null))

Next ==
    \E h \in Holders :
        \/ \E tag \in Errors \cup {Null} : ConstructNothing(h, tag)
        \/ \E e \in Errors : ConstructAnystatus(h, e)
        \/ \E v \in Values :
            \/ \E kind \in {"opt", "res"} : ConstructHolding(h, kind, v)
            \/ \E status \in Errors \cup {Holding} : Make(h, v, status)
            \/ MakeOwned(h, v) \/ AssignValue(h, v) \/ Emplace(h, v)
            \/ TakeOr(h, v) \/ CopyOutOr(h, v) \/ UnwrapOr(h, v) \/ ReadRef(v) \/ WriteRef(v)
        \/ \E g \in Holders :
            \/ CopyConstruct(h, g) \/ MoveConstruct(h, g) \/ CopyAssign(h, g) \/ MoveAssign(h, g)
            \/ CloneInto(h, g) \/ Compare(h, g) \/ Take(h, g) \/ TakeAndRun(h, g)
            \/ TransformValue(h, g) \/ TransformError(h, g)
        \/ StartCoroutine(h) \/ Reset(h) \/ Look(h) \/ Iterate(h) \/ TryCast(h) \/ NextOf(h)
        \/ ReferTo(h) \/ TakeRef \/ Release(h) \/ DestroyAndFree \/ Destroy(h)

Spec == Init /\ [][Next]_vars

-----------------------------------------------------------------------------

(***************************************************************************)
(* A holder that says that it holds something has an object, and no other  *)
(* one has: no call constructs over an object, or destroys, assigns or     *)
(* reads one that is not there (the destructors, reset, take and the       *)
(* assignments between full and empty holders).  And none forgets one, but *)
(* for the destructor of owned: a program without owners destroys every    *)
(* object that it constructs.                                              *)
(***************************************************************************)
OwnersFault == IF "owned" \in Kinds THEN {Abandoned} ELSE {}

LifetimesExact ==
    /\ TypeOK
    /\ s.fault \subseteq OwnersFault
    /\ \A h \in Holders : (s.obj[h] # Raw) <=> (s.kind[h] # None /\ Holds(s, h))

(***************************************************************************)
(* Every holder contains what the last calls put there and every reading   *)
(* call returns that: moving leaves a moved-from object or nothing,        *)
(* whichever the type promises, and errors stay the errors they were.      *)
(***************************************************************************)
ContentsExact ==
    /\ \A h \in Holders : s.kind[h] # None => Content(s, h) = want[h]
    /\ got.is = got.should
=============================================================================
