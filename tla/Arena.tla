------------------------------- MODULE Arena -------------------------------
(***************************************************************************)
(* arena_t (allocators/arena.h) and the program that uses it. The arena    *)
(* hands out its buffer from front to back. Destructors that it has to run *)
(* later are in a list whose nodes are in the buffer as well. The end of a *)
(* scope runs the destructors of that scope and sets the arena back to     *)
(* where it was; a node without a destructor marks where a scope began.    *)
(*                                                                         *)
(* Addresses are offsets in the buffer, which starts at the strictest      *)
(* alignment that anybody asks for.                                        *)
(***************************************************************************)
EXTENDS Integers, FiniteSets, SequencesExt

CONSTANTS
    Null,
    Backings,       \* subset of "none" (the caller's buffer), "rigid" and "growable"
    BufferSizes,    \* sizes of the callers' buffers
    MaxMemory,      \* a backing allocator has no more memory than this
    NodeSize, NodeAlign,    \* of a node of the list of destructors
    Bookkeeping,    \* extra_bookkeeping_bytes
    MaxRequest, Alignments, \* bounds on the requests of the program
    MaxPieces,      \* bound on the pieces of memory that the program holds at a time
    MaxScopes       \* bound on the scopes that are open at a time

ASSUME ArenaAssumption ==
    /\ Backings \subseteq {"none", "rigid", "growable"}
    /\ BufferSizes \subseteq Nat \ {0} /\ Alignments \subseteq Nat \ {0}
    /\ {NodeSize, NodeAlign} \subseteq Nat \ {0}
    /\ {MaxMemory, Bookkeeping, MaxRequest, MaxPieces, MaxScopes} \subseteq Nat

VARIABLES
    arena,      \* backing, size of m_memory, m_first_available_byte_index and
                \* m_last_pushed_destructor; Null while there is no arena
    node,       \* the nodes in the buffer that nothing was written over
    scopes,     \* the handles of the open scopes
    held,       \* the pieces of memory that the program holds
    objects,    \* the objects whose destructor was registered and has not run, in that
                \* order, each with its address and the scope of its registration
    gone,       \* the objects that the last call destroyed, in that order
    kept,       \* every scope since the buffer was last empty has its marker
    ended       \* what ended the program, or Null

vars == <<arena, node, scopes, held, objects, gone, kept, ended>>

Abort == {"full_at_scope_end", "null_destructor", "garbage_node", "unaligned", "zero_request"}

Depth == Len(scopes)
Bytes(p) == p.at .. p.at + p.size - 1
NodeBytes(at) == at .. at + NodeSize - 1

TypeOK ==
    /\ ended \in Abort \cup {Null}
    /\ arena # Null =>
        /\ arena.size \in Nat /\ arena.first \in 0 .. arena.size
        /\ arena.head \in {Null} \cup 0 .. arena.first - NodeSize \/ ~kept
    /\ \A p \in held : Bytes(p) \subseteq 0 .. arena.first - 1 /\ p.depth \in 0 .. Depth
    /\ kept /\ ended = Null => \A i \in 1 .. Depth : scopes[i] \in 0 .. arena.first

-----------------------------------------------------------------------------

(***************************************************************************)
(* impl_allocate: an outcome is a new arena with the address of the piece, *)
(* an error or an assertion. Memory that was obtained stays with the arena *)
(* even when the request fails.                                            *)
(***************************************************************************)
AlignUp(first, alignment) == ((first + alignment - 1) \div alignment) * alignment

Fits(a, n, alignment) == AlignUp(a.first, alignment) + n <= a.size

Fail(a, err) == [arena |-> a, err |-> err]

(* the first request is what makes the arena get a buffer *)
FirstMemory(a, n) ==
    IF a.size > 0 THEN {a}
    ELSE {[a EXCEPT !.size = size] :
            size \in {n + Bookkeeping} \cap IF a.backing = "none" THEN {} ELSE 0 .. MaxMemory}

GrownSize(a, n) == Max({a.size * 2, a.size + n + Bookkeeping})

Growth(a, n) ==
    IF a.backing = "growable"
    THEN {[a EXCEPT !.size = size] : size \in {GrownSize(a, n)} \cap 0 .. MaxMemory}
    ELSE {}

Bump_NoPadding(a, n, alignment) ==
    [arena |-> [a EXCEPT !.first = @ + n], err |-> "success", at |-> AlignUp(a.first, alignment)]

Bump(a, n, alignment) ==
    LET start == AlignUp(a.first, alignment)
    IN  [arena |-> [a EXCEPT !.first = start + n], err |-> "success", at |-> start]

WithBuffer(a, n, alignment) ==
    IF Fits(a, n, alignment) THEN {Bump(a, n, alignment)}
    ELSE {Fail(a, "error")} \cup
         {IF Fits(b, n, alignment) THEN Bump(b, n, alignment) ELSE Fail(b, "unaligned") :
            b \in Growth(a, n)}

AllocateOutcomes(a, n, alignment) ==
    (IF a.size = 0 THEN {Fail(a, "error")} ELSE {}) \cup
    UNION {WithBuffer(b, n, alignment) : b \in FirstMemory(a, n)}

(* the nodes that are left when the given bytes are written *)
Spared(nodes, bytes) ==
    Restrict(nodes, {at \in DOMAIN nodes : NodeBytes(at) \cap bytes = {}})

(***************************************************************************)
(* impl_arena_push_destructor: a node is allocated like anything else; a   *)
(* node for no object (Null) marks a scope.                                *)
(***************************************************************************)
Pushed_DropsPrev(o, object, nodes) ==
    [arena |-> [o.arena EXCEPT !.head = o.at], err |-> "success",
     nodes |-> (o.at :> [object |-> object, prev |-> Null]) @@ Spared(nodes, NodeBytes(o.at))]

Pushed(o, object, nodes) ==
    [arena |-> [o.arena EXCEPT !.head = o.at], err |-> "success",
     nodes |-> (o.at :> [object |-> object, prev |-> o.arena.head])
                   @@ Spared(nodes, NodeBytes(o.at))]

PushOutcomes(a, object, nodes) ==
    {IF o.err = "success" THEN Pushed(o, object, nodes) ELSE o :
        o \in AllocateOutcomes(a, NodeSize, NodeAlign)}

(***************************************************************************)
(* call_all_destructors: from the head of the list to its end or, to end a *)
(* scope, to the first marker. The head only changes when that is done.    *)
(* The chain stops at a node that was overwritten.                         *)
(***************************************************************************)
Chain(head) ==
    LET at[n \in 0 .. Cardinality(DOMAIN node)] ==
            IF n = 0 THEN head
            ELSE IF at[n - 1] \in DOMAIN node THEN node[at[n - 1]].prev ELSE Null
        visited == {n \in DOMAIN at : at[n] # Null}
    IN  [i \in 1 .. Cardinality(visited) |-> at[i - 1]]

IsGarbage(at) == at \notin DOMAIN node
IsMarker(at) == ~IsGarbage(at) /\ node[at].object = Null

Destruction(head, mode) ==
    LET chain   == Chain(head)
        stops   == {i \in DOMAIN chain : IsGarbage(chain[i]) \/ IsMarker(chain[i])}
        stop    == Min(stops \cup {Len(chain) + 1})
        run     == [i \in 1 .. stop - 1 |-> node[chain[i]].object]
        result(err, h) == [gone |-> run, err |-> err, head |-> h]
    IN  IF stop > Len(chain) THEN result("success", Null)
        ELSE IF IsGarbage(chain[stop]) THEN result("garbage_node", head)
        ELSE IF mode = "stop_after_current_scope" THEN result("success", node[chain[stop]].prev)
        ELSE result("null_destructor", head)

-----------------------------------------------------------------------------

Init ==
    /\ arena = Null /\ node = << >>
    /\ scopes = << >> /\ held = {} /\ objects = << >> /\ gone = << >>
    /\ kept = TRUE /\ ended = Null

Running == arena # Null /\ ended = Null

(* the two constructors *)
Construct(backing, size) ==
    /\ arena = Null /\ ended = Null
    /\ arena' = [backing |-> backing, size |-> IF backing = "none" THEN size ELSE 0,
                 first |-> 0, head |-> Null]
    /\ kept' = TRUE
    /\ gone' = << >> /\ objects' = << >>
    /\ UNCHANGED <<node, scopes, held, ended>>

Piece(at, n) == [at |-> at, size |-> n, depth |-> Depth]

(* an error changes nothing for the program, an assertion ends it *)
Refused(err) ==
    /\ err # "success"
    /\ ended' = IF err \in Abort THEN err ELSE Null
    /\ UNCHANGED <<held, objects>>

CanHoldMore == Cardinality(held) < MaxPieces

Allocate(n, alignment) ==
    /\ Running /\ CanHoldMore
    /\ \E o \in AllocateOutcomes(arena, n, alignment) :
        /\ arena' = o.arena
        /\ \/ /\ Refused(o.err)
              /\ UNCHANGED node
           \/ /\ o.err = "success"
              /\ held' = held \cup {Piece(o.at, n)}
              /\ node' = Spared(node, o.at .. o.at + n - 1)
              /\ UNCHANGED <<objects, ended>>
    /\ gone' = << >>
    /\ UNCHANGED <<scopes, kept>>

(***************************************************************************)
(* allocator_t::make_non_owning for a type with a destructor: the memory,  *)
(* then the node, then the object. Without a node there is no object, and  *)
(* deallocating its memory does nothing.                                   *)
(***************************************************************************)
Object(at) == [at |-> at, depth |-> Depth]

Make(n, alignment) ==
    /\ Running /\ CanHoldMore
    /\ \E o \in AllocateOutcomes(arena, n, alignment) :
        \/ /\ Refused(o.err)
           /\ arena' = o.arena
           /\ UNCHANGED node
        \/ /\ o.err = "success"
           /\ LET left == Spared(node, o.at .. o.at + n - 1)
              IN  \E p \in PushOutcomes(o.arena, Object(o.at), left) :
                    /\ arena' = p.arena
                    /\ \/ /\ Refused(p.err)
                          /\ node' = left
                       \/ /\ p.err = "success"
                          /\ node' = p.nodes
                          /\ held' = held \cup {Piece(o.at, n)}
                          /\ objects' = Append(objects, Object(o.at))
                          /\ UNCHANGED ended
    /\ gone' = << >>
    /\ UNCHANGED <<scopes, kept>>

(***************************************************************************)
(* allocator_t::arena_push_destructor, for an object that the program has  *)
(* made in a piece of its own.                                             *)
(***************************************************************************)
IsObject(p) == \E i \in DOMAIN objects : objects[i].at = p.at

PushDestructor(p) ==
    /\ Running /\ p \in held /\ ~IsObject(p)
    /\ \E o \in PushOutcomes(arena, Object(p.at), node) :
        /\ arena' = o.arena
        /\ \/ Refused(o.err) /\ UNCHANGED node
           \/ /\ o.err = "success"
              /\ node' = o.nodes
              /\ objects' = Append(objects, Object(p.at))
              /\ UNCHANGED <<held, ended>>
    /\ gone' = << >>
    /\ UNCHANGED <<scopes, kept>>

(***************************************************************************)
(* impl_reallocate: a new piece of the preferred size. The old one cannot  *)
(* be freed, but its owner does not use it any more.                       *)
(***************************************************************************)
Reallocate(p, new_size, preferred, alignment) ==
    /\ Running /\ p \in held /\ ~IsObject(p)
    /\ preferred = 0 \/ (new_size >= p.size /\ preferred > new_size)
    /\ \/ /\ preferred = 0
          /\ ended' = "zero_request"
          /\ UNCHANGED <<arena, node, held, objects>>
       \/ /\ preferred # 0
          /\ \E o \in AllocateOutcomes(arena, preferred, alignment) :
              /\ arena' = o.arena
              /\ \/ Refused(o.err) /\ UNCHANGED node
                 \/ /\ o.err = "success"
                    /\ held' = (held \ {p}) \cup {Piece(o.at, preferred)}
                    /\ node' = Spared(node, o.at .. o.at + preferred - 1)
                    /\ UNCHANGED <<objects, ended>>
    /\ gone' = << >>
    /\ UNCHANGED <<scopes, kept>>

(***************************************************************************)
(* begin_scope: whether the marker could be pushed is not looked at.       *)
(***************************************************************************)
BeginScope ==
    /\ Running /\ Depth < MaxScopes
    /\ \E o \in PushOutcomes(arena, Null, node) :
        /\ arena' = o.arena
        /\ \/ o.err \in Abort /\ ended' = o.err /\ UNCHANGED <<node, scopes, kept>>
           \/ /\ o.err \notin Abort
              /\ node' = IF o.err = "success" THEN o.nodes ELSE node
              /\ scopes' = Append(scopes, o.arena.first)
              /\ kept' = (kept /\ o.err = "success")
              /\ UNCHANGED ended
    /\ gone' = << >>
    /\ UNCHANGED <<held, objects>>

(* the nodes that can still be reached *)
Reachable(head) == Restrict(node, Range(Chain(head)) \cap DOMAIN node)

(* what is left of the program's objects when some were destroyed *)
Remaining(run) == SelectSeq(objects, LAMBDA ob : ob \notin Range(run))

(***************************************************************************)
(* ~allocator_restore_point_t, impl_arena_restore_scope.                   *)
(***************************************************************************)
Restored_KeepsList(a, d, handle) == [a EXCEPT !.first = handle]

Restored(a, d, handle) == [a EXCEPT !.head = d.head, !.first = handle]

EndScope ==
    /\ Running /\ scopes # << >>
    /\ LET d == Destruction(arena.head, "stop_after_current_scope")
           a == Restored(arena, d, Last(scopes))
       IN  /\ gone' = d.gone
           /\ objects' = Remaining(d.gone)
           /\ \/ d.err # "success" /\ ended' = d.err /\ UNCHANGED arena
              \/ /\ d.err = "success"
                 /\ arena' = a
                 /\ ended' = IF arena.first < arena.size /\ a.first < a.size
                             THEN Null ELSE "full_at_scope_end"
    /\ scopes' = Front(scopes)
    /\ held' = {p \in held : p.depth < Depth}
    /\ node' = Reachable(arena'.head)
    /\ UNCHANGED <<kept>>

(***************************************************************************)
(* clear. Scopes may be open; their markers are in the list.               *)
(***************************************************************************)
Clear ==
    /\ Running
    /\ LET d == Destruction(arena.head, "clear_all")
       IN  /\ gone' = d.gone
           /\ \/ /\ d.err # "success" /\ ended' = d.err
                 /\ UNCHANGED arena
              \/ /\ d.err = "success"
                 /\ arena' = [arena EXCEPT !.head = Null, !.first = 0]
                 /\ UNCHANGED ended
    /\ kept' = (scopes = << >>)
    /\ held' = {} /\ objects' = << >>
    /\ node' = Reachable(arena'.head)
    /\ UNCHANGED <<scopes>>

(***************************************************************************)
(* ~arena_t: a buffer from a backing allocator is given back. No scope can *)
(* be open, because its restore point refers to the arena.                 *)
(***************************************************************************)
Destroy ==
    /\ Running /\ scopes = << >>
    /\ LET d == Destruction(arena.head, "clear_all")
       IN  /\ gone' = d.gone
           /\ \/ d.err # "success" /\ ended' = d.err /\ UNCHANGED <<arena, node>>
              \/ /\ d.err = "success"
                 /\ arena' = Null
                 /\ node' = << >>
                 /\ UNCHANGED ended
    /\ held' = {} /\ objects' = << >>
    /\ UNCHANGED <<scopes, kept>>

(***************************************************************************)
(* The move constructor, and the move assignment to an arena that holds    *)
(* nothing: the list of destructors stays with the moved-from arena, which *)
(* runs them when it is destroyed. Here that is before the next call.      *)
(***************************************************************************)
Move ==
    /\ Running /\ scopes = << >>
    /\ arena' = [arena EXCEPT !.head = Null]
    /\ LET d == Destruction(arena.head, "clear_all")
       IN  /\ gone' = d.gone
           /\ objects' = Remaining(d.gone)
           /\ ended' = IF d.err = "success" THEN Null ELSE d.err
    /\ node' = << >>
    /\ UNCHANGED <<scopes, held, kept>>

Next ==
    \/ \E backing \in Backings, size \in BufferSizes : Construct(backing, size)
    \/ \E n \in 1 .. MaxRequest, alignment \in Alignments :
        \/ Allocate(n, alignment)
        \/ Make(n, alignment)
    \/ \E p \in held :
        \/ PushDestructor(p)
        \/ \E new_size, preferred \in 0 .. MaxRequest, alignment \in Alignments :
              new_size > 0 /\ Reallocate(p, new_size, preferred, alignment)
    \/ BeginScope
    \/ EndScope
    \/ Clear
    \/ Destroy
    \/ Move

Spec == Init /\ [][Next]_vars

-----------------------------------------------------------------------------

(***************************************************************************)
(* The list of destructors, which lives in memory that the arena hands     *)
(* out, holds the registered objects, last first, with a marker between    *)
(* the objects of one scope and those of the scope around it; setting the  *)
(* arena back (impl_arena_restore_scope, clear) leaves no node in it that  *)
(* is written over later. Holds as long as every marker could be pushed    *)
(* since the buffer was last empty.                                        *)
(***************************************************************************)
ObjectsAt(depth) == SelectSeq(objects, LAMBDA ob : ob.depth = depth)

Expected ==
    LET upto[d \in 0 .. Depth] ==
            Reverse(ObjectsAt(d)) \o IF d = 0 THEN << >> ELSE <<Null>> \o upto[d - 1]
    IN  upto[Depth]

ListExact ==
    /\ TypeOK
    /\ Running /\ kept =>
        LET chain == Chain(arena.head)
        IN  /\ Range(chain) \subseteq DOMAIN node
            /\ [i \in DOMAIN chain |-> node[chain[i]].object] = Expected

(***************************************************************************)
(* No two pieces that the program holds overlap, and none of them overlaps *)
(* a node of the list, whatever sequence of allocations, growth, scopes    *)
(* and clears led there (impl_allocate, impl_arena_restore_scope).         *)
(***************************************************************************)
PiecesDisjoint ==
    Running =>
        /\ \A p, q \in held : p # q => Bytes(p) \cap Bytes(q) = {}
        /\ kept => \A p \in held, at \in Range(Chain(arena.head)) :
                      Bytes(p) \cap NodeBytes(at) = {}

(***************************************************************************)
(* The end of a scope destroys the objects registered in it, and clearing  *)
(* or destroying the arena all of them, each once, the last one first      *)
(* (call_all_destructors).                                                 *)
(***************************************************************************)
DestructionExact ==
    [][kept /\ ended' = Null =>
        /\ EndScope => gone' = Reverse(ObjectsAt(Depth))
        /\ Clear \/ Destroy => gone' = Reverse(objects)]_vars

(***************************************************************************)
(* An object is not destroyed while the program holds its memory and the   *)
(* scope is open in which it was registered: destructors are called "when  *)
(* clearing the allocator" (arena_push_destructor, allocator.h:269).       *)
(***************************************************************************)
ObjectsOutliveScope ==
    \A p \in held, ob \in Range(gone) : p.at = ob.at => ob.depth > Depth
=============================================================================
