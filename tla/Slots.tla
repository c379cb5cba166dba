-------------------------------- MODULE Slots --------------------------------
(***************************************************************************)
(* The places in the memory of a container, and what happens to the        *)
(* objects in them. A place holds no object (Raw), an object that was      *)
(* moved from (Moved), or a value. s.cell maps the places to what they     *)
(* hold, s.broken records that the lifetime of an object was not           *)
(* respected: it was overwritten by the construction of another one,       *)
(* destroyed twice, or used where there is none.                           *)
(***************************************************************************)
LOCAL INSTANCE Integers
LOCAL INSTANCE SequencesExt

CONSTANTS Raw, Moved

NoObjects(places) == [cell |-> [i \in places |-> Raw], broken |-> FALSE]

Alive(s, i) == i \in DOMAIN s.cell /\ s.cell[i] # Raw
Holds(s, i) == Alive(s, i) /\ s.cell[i] # Moved

(* construct_at, make_into_uninitialized, ~T() and the moves of T *)
Construct(s, i, v) ==
    [cell   |-> [s.cell EXCEPT ![i] = v],
     broken |-> s.broken \/ i \notin DOMAIN s.cell \/ Holds(s, i)]

Destroy(s, i) ==
    [cell |-> [s.cell EXCEPT ![i] = Raw], broken |-> s.broken \/ ~Alive(s, i)]

MoveOut(s, i) ==
    [cell |-> [s.cell EXCEPT ![i] = Moved], broken |-> s.broken \/ ~Alive(s, i)]

MoveConstruct(s, to, from) == Construct(MoveOut(s, from), to, s.cell[from])

MoveAssign(s, to, from) ==
    LET t == MoveOut(s, from)
    IN  [cell |-> [t.cell EXCEPT ![to] = s.cell[from]], broken |-> t.broken \/ ~Alive(s, to)]

(***************************************************************************)
(* memmove of n trivially copyable objects; where they were, there is      *)
(* nothing of interest any more. at names the place of an index.           *)
(***************************************************************************)
MemMove(s, to, from, n) ==
    [s EXCEPT !.cell = [i \in DOMAIN s.cell |->
        IF i \in to .. to + n - 1 THEN s.cell[i - to + from]
        ELSE IF i \in from .. from + n - 1 THEN Raw ELSE s.cell[i]]]

(* another buffer, with the first n objects of this one *)
Rehoused(s, n, places) ==
    [cell   |-> [i \in places |-> IF i < n THEN s.cell[i] ELSE Raw],
     broken |-> s.broken \/ \E i \in 0 .. n - 1 : ~Alive(s, i) \/ i \notin places]

(* loops over indices *)
Up(first, last)   == [k \in 1 .. last - first + 1 |-> first + k - 1]
Down(first, last) == [k \in 1 .. first - last + 1 |-> first - k + 1]
Each(s, indices, Step(_, _)) == FoldLeft(Step, s, indices)
=============================================================================
