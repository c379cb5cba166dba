------------------------------- MODULE Views -------------------------------
(***************************************************************************)
(* Iterators and the views made of them (iterables/iterables.h), with the  *)
(* algorithms that consume them (iterables/algorithm.h) and the infinite   *)
(* iterator indices() (iterables/indices.h).                               *)
(*                                                                         *)
(* The variable it is the iterator: a tree of records, one for each        *)
(* adaptor, as the adaptor templates nest.  The variable view says what it *)
(* stands for: a sequence of items and how many of them are behind it.     *)
(***************************************************************************)
EXTENDS Integers, Sequences

CONSTANTS
    Containers,     \* sequences of numbers to iterate over
    Nested,         \* sequences of sequences of numbers, for flatten
    Counts,         \* arguments of take_at_most and drop
    MaxDepth,       \* adaptors on top of each other
    Word,           \* 2^64: the number of values of a size_t
    BrokenUses      \* the uses that are known to fail and that the program makes nevertheless

ASSUME ViewsAssumption ==
    /\ Containers \subseteq Seq(Nat) /\ Nested \subseteq Seq(Seq(Nat))
    /\ MaxDepth \in Nat /\ Word \in Nat \ {0} /\ Word % 2 = 0
    /\ Counts \subseteq 0 .. Word - 1
    /\ \A c \in Containers : 2 * Len(c) < Word
    /\ \A c \in Nested : 2 * Len(c) < Word

VARIABLES
    it,     \* the iterator, nothing or aborted
    view,   \* what it stands for
    got,    \* what the last call returned: <<>> for a null optional
    due     \* what it should have returned

vars == <<it, view, got, due>>

Wrap(n) == n % Word                                             \* size_t
Signed(n) == IF n < Word \div 2 THEN n ELSE n - Word            \* int64_t(n)
Least(a, b) == IF a < b THEN a ELSE b

(***************************************************************************)
(* The traits that the concepts of detail/iterator_concepts.h compute:     *)
(* arraylike (access, offset and index), sized, is_infinite; and item, the *)
(* value_type: <<"reference">> to a number, <<"number">>, <<"list">>, or a   *)
(* pair of two of these.                                                   *)
(***************************************************************************)
Traits(array, sized, infinite, item) ==
    [array |-> array, sized |-> sized, infinite |-> infinite, item |-> item]

Nothing == [kind |-> "nothing"]
Aborted == [kind |-> "aborted"]
Usable(i) == i.kind \notin {"nothing", "aborted"}

(* An adaptor whose inner iterator has become inner.                       *)
With(i, inner) == IF Usable(inner) THEN [i EXCEPT !.of = inner] ELSE Aborted

-----------------------------------------------------------------------------
(***************************************************************************)
(* Iterators over containers.  With a cursor that has next() only, a       *)
(* cursor converts to its index; opt_cursor_t knows whether it was called. *)
(***************************************************************************)
ArrayOf(items, item) ==
    [kind |-> "array", is |-> Traits(TRUE, TRUE, FALSE, item), items |-> items, at |-> 0]

indices == [kind |-> "indices", is |-> Traits(TRUE, FALSE, TRUE, <<"number">>), at |-> 0]

CursorOf(items) ==
    [kind |-> "cursor", is |-> Traits(FALSE, TRUE, FALSE, <<"reference">>), items |-> items, at |-> 0]

OptionalOf(items) ==
    [kind |-> "optional", is |-> Traits(FALSE, FALSE, FALSE, <<"reference">>),
     items |-> items, has_called |-> FALSE]

CursorOffset(i, n) == [i EXCEPT !.at = Wrap(@ + n)]

CursorAccess(i) == IF i.at < Len(i.items) THEN <<i.items[i.at + 1]>> ELSE <<>>

CursorNext(i) == [value |-> CursorAccess(i), it |-> [i EXCEPT !.at = Least(@ + 1, Len(i.items))]]

OptionalNext(i) ==
    [value |-> IF i.has_called THEN <<>> ELSE i.items, it |-> [i EXCEPT !.has_called = TRUE]]

-----------------------------------------------------------------------------
(***************************************************************************)
(* What every iterator offers; Access is <<>> where the code aborts.       *)
(***************************************************************************)
RECURSIVE Index(_), Size(_), Access(_), Offset(_, _), NextOf(_)

(***************************************************************************)
(* iterator_common_impl_t::next() of arraylike iterators.  The infinite    *)
(* ones have no size to compare the index with.                            *)
(***************************************************************************)
ArrayNext(i) ==
    IF i.is.sized /\ Index(i) >= Size(i) THEN [value |-> <<>>, it |-> i]
    ELSE [value |-> Access(i), it |-> IF Access(i) = <<>> THEN Aborted ELSE Offset(i, 1)]

Pulled(i) == LET n == NextOf(i.of) IN [value |-> n.value, it |-> With(i, n.it)]

Adapted(kind, i, is) == [kind |-> kind, is |-> is, of |-> i]

-----------------------------------------------------------------------------
RECURSIVE KeepNext(_)
KeepNext(i) ==
    LET n == Pulled(i)
    IN  IF n.value = <<>> \/ n.value[1] % 2 = 1 \/ ~ Usable(n.it) THEN n ELSE KeepNext(n.it)

(***************************************************************************)
(* flatten_t: inner is the iterator of the current list, if there is one.  *)
(***************************************************************************)
Refilled(i) ==
    LET n == Pulled(i)
    IN  IF Usable(n.it) THEN [n.it EXCEPT !.inner = [j \in DOMAIN n.value |-> ArrayOf(n.value[j], <<"reference">>)]]
        ELSE Aborted

Flattened(i) ==
    Refilled([kind |-> "flatten", is |-> Traits(FALSE, FALSE, FALSE, <<"reference">>), of |-> i, inner |-> <<>>])

(* A plausible mistake: an empty list ends the view.                       *)
FlattenNext_RefillsOnce(i) ==
    IF ~ Usable(i) \/ i.inner = <<>> THEN [value |-> <<>>, it |-> i]
    ELSE LET n == NextOf(i.inner[1]) r == Refilled(i)
         IN  IF n.value # <<>> THEN [value |-> n.value, it |-> [i EXCEPT !.inner = <<n.it>>]]
             ELSE IF ~ Usable(r) \/ r.inner = <<>> THEN [value |-> <<>>, it |-> r]
             ELSE LET m == NextOf(r.inner[1]) IN [value |-> m.value, it |-> [r EXCEPT !.inner = <<m.it>>]]

RECURSIVE FlattenNext(_)
FlattenNext(i) ==
    IF ~ Usable(i) \/ i.inner = <<>> THEN [value |-> <<>>, it |-> i]
    ELSE LET n == NextOf(i.inner[1])
         IN  IF n.value # <<>> THEN [value |-> n.value, it |-> [i EXCEPT !.inner = <<n.it>>]]
             ELSE FlattenNext(Refilled(i))

(***************************************************************************)
(* reverse_t puts the inner iterator at the mirrored place and offsets it  *)
(* the other way.  Behind the last item the inner index is -1.             *)
(***************************************************************************)
Reversed(i) ==
    LET desired == Wrap(Size(i) - Index(i) - 1)
    IN  With(Adapted("reverse", i, i.is), Offset(i, Signed(desired) - Signed(Index(i))))

ReverseOffset(i, n) == With(i, Offset(i.of, -n))

ReverseIndex(i) == Wrap(Size(i.of) - Index(i.of) - 1)

(***************************************************************************)
(* take_t: left is consumptions_remaining; count is clamped_length of the  *)
(* arraylike form, consumptions of the other one.                          *)
(***************************************************************************)
Taken(i, n) ==
    [kind |-> "take", of |-> i, count |-> n, left |-> n,
     is |-> Traits(i.is.array, i.is.array \/ i.is.sized, FALSE, i.is.item)]

TakeSize(i) == IF i.of.is.sized THEN Least(Size(i.of), i.count) ELSE i.count

TakeAccess(i) == IF Index(i) < i.count THEN Access(i.of) ELSE <<>>

TakeNext(i) == IF i.left = 0 THEN [value |-> <<>>, it |-> i] ELSE Pulled([i EXCEPT !.left = @ - 1])

(***************************************************************************)
(* drop_t: the arraylike form moves the inner iterator at once, the other  *)
(* one when next() is called: left is skips_remaining.                     *)
(***************************************************************************)
Dropped(i, n) ==
    LET moved == IF i.is.array /\ Index(i) < n THEN Offset(i, Signed(Wrap(n - Index(i)))) ELSE i
    IN  IF ~ Usable(moved) \/ (i.is.array /\ Index(moved) < n) THEN Aborted
        ELSE [kind |-> "drop", is |-> i.is, of |-> moved, count |-> n, left |-> n]

(* A plausible mistake: the size of what the items are dropped from.       *)
DropSize_Whole(i) == Size(i.of)

DropSize(i) == IF Size(i.of) > i.count THEN Size(i.of) - i.count ELSE 0

DropIndex(i) == Index(i.of) - i.count

DropOffset(i, n) ==
    IF - Signed(Index(i.of)) > n \/ Wrap(Index(i.of) + n) < i.count THEN Aborted
    ELSE With(i, Offset(i.of, n))

RECURSIVE DropNext(_)
DropNext(i) ==
    LET n == Pulled(i)
    IN  IF n.value = <<>> \/ ~ Usable(n.it) THEN [n EXCEPT !.it = IF Usable(@) THEN [@ EXCEPT !.left = 0] ELSE @]
        ELSE IF i.left <= 1 THEN [n EXCEPT !.it.left = 0]
        ELSE DropNext([n.it EXCEPT !.left = i.left - 1])

(***************************************************************************)
(* enumerate_t counts itself, unless the inner iterator has an index.      *)
(***************************************************************************)
Indexed(i) == i.is.array \/ i.kind = "cursor"

Enumerated(i) ==
    [kind |-> "enumerate", is |-> [i.is EXCEPT !.item = @ \o <<"number">>], of |-> i, index |-> 0]

Paired(value, index) == IF value = <<>> THEN <<>> ELSE << <<value[1], index>> >>

EnumerateAccess(i) == Paired(Access(i.of), Index(i.of))

EnumerateNext(i) ==
    LET n == Pulled(i)
    IN  IF Indexed(i.of) THEN [n EXCEPT !.value = Paired(@, Index(i.of))]
        ELSE [value |-> Paired(n.value, i.index),
              it    |-> IF n.value = <<>> THEN n.it ELSE [n.it EXCEPT !.index = @ + 1]]

(***************************************************************************)
(* zip_t of two iterators.  m_size is what size() was when it was made: 0  *)
(* if all are infinite; unused if one that is not arraylike has no size.   *)
(***************************************************************************)
size_impl(i, j) ==
    IF i.is.sized /\ j.is.sized THEN Least(Size(i), Size(j))
    ELSE IF i.is.sized THEN Size(i) ELSE IF j.is.sized THEN Size(j) ELSE 0

Zipped(i, j) ==
    LET array    == i.is.array /\ j.is.array
        infinite == i.is.infinite /\ j.is.infinite
    IN  [kind |-> "zip", of |-> <<i, j>>, m_size |-> size_impl(i, j),
         is   |-> Traits(array, IF array THEN ~ infinite ELSE i.is.sized /\ j.is.sized, infinite, i.is.item \o j.is.item)]

ZipWith(i, first, second) ==
    IF Usable(first) /\ Usable(second) THEN [i EXCEPT !.of = <<first, second>>] ELSE Aborted

BothOf(a, b) == IF a = <<>> \/ b = <<>> THEN <<>> ELSE << <<a[1], b[1]>> >>

ZipOffset(i, n) == ZipWith(i, Offset(i.of[1], n), Offset(i.of[2], n))

ZipAccess(i) == IF Index(i.of[1]) < i.m_size THEN BothOf(Access(i.of[1]), Access(i.of[2])) ELSE <<>>

ZipNext(i) ==
    LET first == NextOf(i.of[1]) second == NextOf(i.of[2])
    IN  [value |-> BothOf(first.value, second.value), it |-> ZipWith(i, first.it, second.it)]

(***************************************************************************)
(* transform_t, here with a function that adds; as_const_t; get_t.         *)
(***************************************************************************)
Plus(n) == n + 2
Each(value, F(_)) == [j \in DOMAIN value |-> F(value[j])]

Transformed(i) == Adapted("transform", i, [i.is EXCEPT !.item = <<"number">>, !.sized = @ /\ i.is.array])
TransformAccess(i) == Each(Access(i.of), Plus)
TransformNext(i) == LET n == Pulled(i) IN [n EXCEPT !.value = Each(@, Plus)]

Constant(i) == Adapted("as_const", i, [i.is EXCEPT !.sized = @ /\ i.is.array])

GotElement(i, which) ==
    [kind |-> "get", is |-> [i.is EXCEPT !.item = <<@[which]>>, !.sized = @ /\ i.is.array], of |-> i, which |-> which]
GetAccess(i) == Each(Access(i.of), LAMBDA pair : pair[i.which])
GetNext(i) == LET n == Pulled(i) IN [n EXCEPT !.value = Each(@, LAMBDA pair : pair[i.which])]

-----------------------------------------------------------------------------
(***************************************************************************)
(* The templates' members, chosen by the type of the iterator.             *)
(***************************************************************************)
Index(i) ==
    CASE i.kind \in {"array", "indices", "cursor"} -> i.at
      [] i.kind = "reverse" -> ReverseIndex(i)
      [] i.kind = "drop"    -> DropIndex(i)
      [] i.kind = "zip"     -> Index(i.of[1])
      [] OTHER              -> Index(i.of)

Size(i) ==
    CASE i.kind \in {"array", "cursor"} -> Len(i.items)
      [] i.kind = "take" -> TakeSize(i)
      [] i.kind = "drop" -> DropSize(i)
      [] i.kind = "zip"  -> i.m_size
      [] OTHER           -> Size(i.of)

Access(i) ==
    CASE i.kind = "array"     -> CursorAccess(i)
      [] i.kind = "indices"   -> <<i.at>>
      [] i.kind = "take"      -> TakeAccess(i)
      [] i.kind = "enumerate" -> EnumerateAccess(i)
      [] i.kind = "zip"       -> ZipAccess(i)
      [] i.kind = "transform" -> TransformAccess(i)
      [] i.kind = "get"       -> GetAccess(i)
      [] OTHER                -> Access(i.of)

Offset(i, n) ==
    CASE i.kind \in {"array", "indices"} -> CursorOffset(i, n)
      [] i.kind = "reverse" -> ReverseOffset(i, n)
      [] i.kind = "drop"    -> DropOffset(i, n)
      [] i.kind = "zip"     -> ZipOffset(i, n)
      [] OTHER              -> With(i, Offset(i.of, n))

NextOf(i) ==
    CASE i.is.array           -> ArrayNext(i)
      [] i.kind = "cursor"    -> CursorNext(i)
      [] i.kind = "optional"  -> OptionalNext(i)
      [] i.kind = "keep_if"   -> KeepNext(i)
      [] i.kind = "flatten"   -> FlattenNext(i)
      [] i.kind = "take"      -> TakeNext(i)
      [] i.kind = "drop"      -> DropNext(i)
      [] i.kind = "enumerate" -> EnumerateNext(i)
      [] i.kind = "zip"       -> ZipNext(i)
      [] i.kind = "transform" -> TransformNext(i)
      [] i.kind = "get"       -> GetNext(i)
      [] i.kind = "as_const"  -> Pulled(i)

-----------------------------------------------------------------------------
(***************************************************************************)
(* The loops that begin() and operator++ make: seen is what the loop body  *)
(* was called with, up to the first item whose parity is one of ends.      *)
(***************************************************************************)
RECURSIVE Scan(_, _)
Scan(i, ends) ==
    LET n == NextOf(i)
    IN  IF n.value = <<>> THEN [seen |-> <<>>, ended |-> FALSE, it |-> n.it]
        ELSE IF ~ Usable(n.it) THEN [seen |-> n.value, ended |-> FALSE, it |-> Aborted]
        ELSE IF ends # {} /\ n.value[1] % 2 \in ends THEN [seen |-> n.value, ended |-> TRUE, it |-> n.it]
        ELSE LET rest == Scan(n.it, ends) IN [rest EXCEPT !.seen = n.value \o @]

Odd(n) == n % 2 = 1

for_each(i)    == LET s == Scan(i, {}) IN [it |-> s.it, value |-> s.seen]
all_satisfy(i) == LET s == Scan(i, {0}) IN [it |-> s.it, value |-> ~ s.ended]
any_satisfy(i) == LET s == Scan(i, {1}) IN [it |-> s.it, value |-> s.ended]

(***************************************************************************)
(* iterators_equal.  rvalues says which of the operands are iterators that *)
(* are passed as rvalues: it asks the deduced types whether they have a    *)
(* size and whether they are infinite, and those of an lvalue and of a     *)
(* container answer that they have none and are not.                       *)
(***************************************************************************)
RECURSIVE EqualLoop(_, _, _)
EqualLoop(lhs, rhs, rvalues) ==
    LET l == NextOf(lhs) r == NextOf(rhs)
    IN  IF ~ Usable(l.it) \/ ~ Usable(r.it) THEN [it |-> Aborted, value |-> FALSE]
        ELSE IF \/ lhs.is.infinite /\ "lhs" \in rvalues /\ l.value # <<>> /\ r.value = <<>>
                \/ rhs.is.infinite /\ "rhs" \in rvalues /\ r.value # <<>> /\ l.value = <<>>
                \/ l.value = <<>> /\ r.value = <<>>
             THEN [it |-> l.it, value |-> TRUE]
        ELSE IF l.value # r.value THEN [it |-> l.it, value |-> FALSE]
        ELSE EqualLoop(l.it, r.it, rvalues)

iterators_equal(lhs, rhs, rvalues) ==
    IF rvalues = {"lhs", "rhs"} /\ lhs.is.sized /\ rhs.is.sized /\ Size(lhs) # Size(rhs) THEN [it |-> lhs, value |-> FALSE]
    ELSE EqualLoop(lhs, rhs, rvalues)

(***************************************************************************)
(* iterators_copy_assign and, where a large source aborts, ..._strict.     *)
(***************************************************************************)
RECURSIVE iterators_copy_assign(_, _, _)
iterators_copy_assign(dest, source, strict) ==
    LET d == NextOf(dest) n == NextOf(source)
    IN  IF ~ Usable(n.it) \/ (strict /\ d.value = <<>> /\ n.value # <<>>) THEN [it |-> Aborted, value |-> dest.items]
        ELSE IF d.value = <<>> \/ n.value = <<>> THEN [it |-> n.it, value |-> dest.items]
        ELSE iterators_copy_assign([d.it EXCEPT !.items[d.it.at] = n.value[1]], n.it, strict)

-----------------------------------------------------------------------------
(***************************************************************************)
(* What an iterator stands for.  seq is the whole sequence and pos the     *)
(* place in it, which may be behind its end; endless says that seq is only *)
(* the beginning, exact that size() was not fixed when items were missing. *)
(***************************************************************************)
Seqs == INSTANCE SequencesExt

(* What indices() counts: the model stops before 2^63, as a program does.   *)
Counted == [j \in 1 .. Word \div 2 - 1 |-> j - 1]

Rest(v) == SubSeq(v.seq, v.pos + 1, Len(v.seq))
Due(v)  == SubSeq(v.seq, v.pos + 1, Least(v.pos + 1, Len(v.seq)))

MapSeq(s, F(_)) == [j \in DOMAIN s |-> F(s[j])]

Uses(what) == what \in BrokenUses

RECURSIVE Parts(_)
Parts(i) ==
    {IF i.kind = "drop" /\ Signed(i.count) < 0 THEN "huge drop" ELSE i.kind} \cup
       CASE i.kind \in {"array", "indices", "cursor", "optional"} -> {}
         [] i.kind = "zip" -> Parts(i.of[1]) \cup Parts(i.of[2])
         [] OTHER          -> Parts(i.of)

Begin(i, seq) ==
    /\ it' = i
    /\ view' = [seq |-> seq, pos |-> 0, endless |-> i.is.infinite, exact |-> TRUE, depth |-> 0, idle |-> 0]
    /\ UNCHANGED <<got, due>>

Become(i, v) ==
    /\ view.depth < MaxDepth
    /\ it' = i /\ view' = [v EXCEPT !.depth = @ + 1]
    /\ got' = <<>> /\ due' = <<>>

(* Arraylike views keep the place, the others begin with what is left.     *)
Shaped(whole, rest) ==
    IF it.is.array THEN [view EXCEPT !.seq = whole]
    ELSE [view EXCEPT !.seq = rest, !.pos = 0, !.exact = (@ /\ view.pos = 0) \/ Uses("advanced_size")]

Finish(result, expected) ==
    /\ it' = IF Usable(result.it) THEN Nothing ELSE Aborted
    /\ view' = [view EXCEPT !.seq = <<>>, !.pos = 0]
    /\ got' = <<result.value>> /\ due' = <<expected>>

Numbers == it.is.item \in {<<"number">>, <<"reference">>}

-----------------------------------------------------------------------------
Init ==
    /\ it = Nothing
    /\ view = [seq |-> <<>>, pos |-> 0, endless |-> FALSE, exact |-> TRUE, depth |-> 0, idle |-> 0]
    /\ got = <<>> /\ due = <<>>

(* ok::iter(container), ok::indices()                                      *)
Iter ==
    /\ it = Nothing
    /\ \/ \E c \in Containers : Begin(ArrayOf(c, <<"reference">>), c)
       \/ \E c \in Nested : Begin(ArrayOf(c, <<"list">>), c)
       \/ \E c \in Containers : Begin(CursorOf(c), c)
       \/ \E c \in {<<>>, <<1>>} : Begin(OptionalOf(c), c)
       \/ Begin(indices, Counted)

(* iterator.next(), at most twice more when the items are exhausted        *)
NextItem ==
    /\ Usable(it) /\ IF view.endless THEN Due(view) # <<>> ELSE view.idle < 2
    /\ LET n == NextOf(it) IN it' = n.it /\ got' = n.value
    /\ due' = Due(view)
    /\ view' = [view EXCEPT !.pos = @ + Len(Due(view)), !.idle = @ + 1 - Len(Due(view))]

Reverse ==
    /\ Usable(it) /\ it.is.array /\ it.is.sized
    /\ Parts(it) \cap {"drop", "huge drop"} = {} \/ Uses("reverse_dropped")
    /\ Become(Reversed(it), [view EXCEPT !.seq = Seqs!Reverse(@)])

Take(n) ==
    /\ Usable(it) /\ (view.endless => n <= Len(Rest(view)))
    /\ LET k == Least(n, Len(view.seq))
       IN  Become(Taken(it, n), [Shaped(SubSeq(view.seq, 1, k), SubSeq(Rest(view), 1, Least(k, Len(Rest(view)))))
                                 EXCEPT !.endless = FALSE])

Drop(n) ==
    /\ Usable(it) /\ (view.endless => n <= Len(Rest(view)))
    /\ it.is.array \/ n \notin 1 .. Len(Rest(view)) \/ Uses("drop_some")
    /\ \/ Uses("huge_drop")
       \/ "huge drop" \notin Parts(it) /\ (Signed(n) < 0 => "drop" \notin Parts(it))
    /\ LET after == Shaped(SubSeq(view.seq, n + 1, Len(view.seq)), SubSeq(Rest(view), n + 1, Len(Rest(view))))
       IN  Become(Dropped(it, n), [after EXCEPT !.pos = IF @ > n THEN @ - n ELSE 0])

(* An endless arraylike view has no size, which enumerate_t asks for.      *)
Enumerate ==
    /\ Usable(it) /\ Numbers /\ (it.is.array => it.is.sized)
    /\ LET from(v) == IF Indexed(it) THEN 0 ELSE v.pos
       IN  Become(Enumerated(it), [view EXCEPT !.seq = [j \in DOMAIN @ |-> <<@[j], j - 1 - from(view)>>]])

(* The other operand is new, so the two are at the same place.             *)
Zip(other, seq) ==
    /\ Usable(it) /\ Numbers
    /\ view.endless => Len(seq) + 2 < Len(Rest(view)) \/ Uses("zip_infinite")
    /\ (it.is.array /\ other.is.array) => view.pos = 0 \/ Uses("zip_advanced")
    /\ LET rest == Rest(view) n == Least(Len(rest), Len(seq))
       IN  Become(Zipped(it, other),
                  [view EXCEPT !.seq = [j \in 1 .. n |-> <<rest[j], seq[j]>>], !.pos = 0,
                               !.endless = @ /\ other.is.infinite,
                               !.exact = @ /\ view.pos = 0])

KeepIf ==
    /\ Usable(it) /\ Numbers
    /\ Become([kind |-> "keep_if", is |-> Traits(FALSE, FALSE, FALSE, it.is.item), of |-> it],
              [view EXCEPT !.seq = SelectSeq(Rest(view), Odd), !.pos = 0])

Flatten ==
    /\ Usable(it) /\ it.is.item = <<"list">>
    /\ Become(Flattened(it), [view EXCEPT !.seq = Seqs!FlattenSeq(Rest(view)), !.pos = 0])

Transform == /\ Usable(it) /\ Numbers
             /\ Become(Transformed(it), [view EXCEPT !.seq = MapSeq(@, Plus)])

AsConst == /\ Usable(it) /\ it.is.item = <<"reference">>
           /\ Become(Constant(it), view)

(* The element that a pair holds by value does not compile: it would be an *)
(* optional of an rvalue reference.                                        *)
GetTupleElem(which) ==
    /\ Usable(it) /\ Len(it.is.item) = 2 /\ it.is.item[which] = "reference"
    /\ Become(GotElement(it, which), [view EXCEPT !.seq = MapSeq(@, LAMBDA pair : pair[which])])

(* for_each, all_satisfy, any_satisfy and their like for bool              *)
Loop ==
    /\ Usable(it) /\ ~ view.endless
    /\ \/ Finish(for_each(it), Rest(view))
       \/ Numbers /\ Finish(all_satisfy(it), \A j \in DOMAIN Rest(view) : Odd(Rest(view)[j]))
       \/ Numbers /\ Finish(any_satisfy(it), \E j \in DOMAIN Rest(view) : Odd(Rest(view)[j]))

(* An infinite iterator must be an rvalue, or it is unequal to its beginning. *)
Compare(other, seq, rvalues) ==
    /\ Usable(it) /\ Numbers /\ (view.endless => it.is.infinite /\ Len(seq) < Len(Rest(view)))
    /\ rvalues = {"lhs", "rhs"} => (view.exact /\ view.pos = 0) \/ Uses("compare_advanced")
    /\ \/ (it.is.infinite => "lhs" \in rvalues) /\ (other.is.infinite => "rhs" \in rvalues)
       \/ Uses("infinite_lvalue")
    /\ LET n == Least(Len(Rest(view)), Len(seq))
       IN  Finish(iterators_equal(it, other, rvalues),
                  /\ SubSeq(Rest(view), 1, n) = SubSeq(seq, 1, n)
                  /\ Len(Rest(view)) = Len(seq) \/ (it.is.infinite /\ n = Len(seq)) \/ (other.is.infinite /\ n = Len(Rest(view))))

CopyAssign(size, strict) ==
    /\ Usable(it) /\ Numbers /\ (view.endless => size < Len(Rest(view)) /\ ~ strict)
    /\ strict => Len(Rest(view)) <= size
    /\ LET zeroes == [j \in 1 .. size |-> 0]
       IN  Finish(iterators_copy_assign(ArrayOf(zeroes, <<"reference">>), it, strict),
                  [j \in 1 .. size |-> IF j <= Len(Rest(view)) THEN Rest(view)[j] ELSE 0])

(* The other operand is an rvalue; a container that is compared as it is has *)
(* no known size, as when the iterator is an lvalue.                       *)
WithOther ==
    \/ \E c \in Containers : \E i \in {ArrayOf(c, <<"reference">>), CursorOf(c)} :
          Zip(i, c) \/ \E rvalues \in {{"rhs"}, {"lhs", "rhs"}} : Compare(i, c, rvalues)
    \/ Zip(indices, Counted)
    \/ \E rvalues \in {{"rhs"}, {"lhs", "rhs"}} : Compare(indices, Counted, rvalues)

Next ==
    \/ Iter \/ NextItem \/ Reverse \/ Enumerate \/ KeepIf \/ Flatten \/ Transform \/ AsConst \/ Loop \/ WithOther
    \/ \E n \in Counts : Take(n) \/ Drop(n)
    \/ \E which \in 1 .. 2 : GetTupleElem(which)
    \/ \E n \in 0 .. 2, strict \in BOOLEAN : CopyAssign(n, strict)

Spec == Init /\ [][Next]_vars

-----------------------------------------------------------------------------
(***************************************************************************)
(* Every call returned what the sequence operations say, however adaptors  *)
(* are nested and wherever the iterator was when they were put on it.      *)
(***************************************************************************)
YieldsExact == it = Aborted \/ got = due

(***************************************************************************)
(* No legal use of a view trips an assertion or an overflow check, and the *)
(* index and the size that a view reports are those of its sequence.       *)
(***************************************************************************)
BoundsExact ==
    /\ it # Aborted
    /\ view.pos \in Nat /\ view.depth \in 0 .. MaxDepth
    /\ Usable(it) /\ it.is.array => Index(it) = view.pos
    /\ Usable(it) /\ it.is.sized /\ view.exact => Size(it) = Len(view.seq)
=============================================================================
