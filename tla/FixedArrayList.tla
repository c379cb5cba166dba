--------------------------- MODULE FixedArrayList ---------------------------
(***************************************************************************)
(* The functions of fixed_arraylist_t (containers/fixed_arraylist.h) on    *)
(* its members: a buffer for MaxElems trivially copyable items inside the  *)
(* object.                                                                 *)
(***************************************************************************)
LOCAL INSTANCE Integers
LOCAL INSTANCE Sequences

CONSTANTS Raw, Moved, MaxElems

LOCAL INSTANCE Slots

Outcome(m, err) == [m |-> m, err |-> err]

Empty == [kind |-> "fixed", trivial |-> TRUE, cap |-> MaxElems, size |-> 0,
          s |-> NoObjects(0 .. MaxElems - 1), net |-> 0]

(* the constructor that takes an array_t *)
CopyItems(items) ==
    [Empty EXCEPT !.size = Len(items),
                  !.s = Each(@, Up(0, Len(items) - 1), LAMBDA s, i : Construct(s, i, items[i + 1]))]

InsertAt(m, idx, v, fails) ==
    LET room == MemMove(m.s, idx + 1, idx, m.size - idx)
    IN  IF m.size = MaxElems THEN Outcome(m, "full")
        ELSE IF fails THEN Outcome([m EXCEPT !.s = MemMove(room, idx, idx + 1, m.size - idx)], "failed")
        ELSE Outcome([m EXCEPT !.s = Construct(room, idx, v), !.size = @ + 1], "success")

Remove(m, idx) ==
    [m EXCEPT !.s = MemMove(Destroy(@, idx), idx, idx + 1, m.size - idx - 1), !.size = @ - 1]

RemoveAndSwapLast(m, idx) ==
    LET out == Destroy(m.s, idx)
    IN  [m EXCEPT !.s = IF idx = m.size - 1 THEN out ELSE MemMove(out, idx, m.size - 1, 1),
                  !.size = @ - 1]

Clear(m) == [m EXCEPT !.s = Each(@, Up(0, m.size - 1), Destroy), !.size = 0]

Resize_CountsFromZero(m, new_size, v) ==
    [m EXCEPT !.size = new_size, !.s =
        IF new_size < m.size THEN Each(@, Up(new_size, m.size - 1), Destroy)
        ELSE Each(@, Up(m.size + 1, new_size - 1), LAMBDA s, i : Construct(s, i, v))]

Resize(m, new_size, v) ==
    [m EXCEPT !.size = new_size, !.s =
        IF new_size < m.size THEN Each(@, Up(new_size, m.size - 1), Destroy)
        ELSE Each(@, Up(m.size, new_size - 1), LAMBDA s, i : Construct(s, i, v))]

(***************************************************************************)
(* The templates that move from a list of another capacity are never the   *)
(* move constructor or assignment. Those are implicit and copy the members *)
(* as they are, so that a list that was moved from keeps its items. (The   *)
(* templates do not compile: the members of the other list's type are in a *)
(* protected base.)                                                        *)
(***************************************************************************)
MovedFrom(other) == other
=============================================================================
