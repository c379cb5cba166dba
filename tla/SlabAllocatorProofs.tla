------------------------- MODULE SlabAllocatorProofs -------------------------
(***************************************************************************)
(* An inductive invariant of SlabAllocator, for any list of block sizes    *)
(* and any number of blocks, the safety properties that follow from it,    *)
(* and that the slabs together implement Memory.                           *)
(***************************************************************************)
EXTENDS SlabAllocatorMC, BlocksProofs

-----------------------------------------------------------------------------
(* The blocks in use in each slab.                                         *)

(* The blocks of slab i among those of h: LiveIn(i) is In(i, held). *)
In(i, h) == {p[2] : p \in {q \in DOMAIN h : q[1] = i}}

Pairs(h) == DOMAIN h \subseteq Slab \X Int

(* The blocks of g are those of h and the block b of slab j. *)
Joined(g, h, j, b) == DOMAIN g = DOMAIN h \cup {<<j, b>>}

(* The blocks of g are those of h but p. *)
Parted(g, h, p) == p \in DOMAIN h /\ DOMAIN g = DOMAIN h \ {p}

LEMMA InFacts ==
    ASSUME NEW h, Pairs(h)
    PROVE  \A i, b : b \in In(i, h) <=> <<i, b>> \in DOMAIN h
<1>1. \A p \in DOMAIN h : p = <<p[1], p[2]>>
  BY DEF Pairs
<1>. QED
  BY <1>1 DEF In

LEMMA InAdded ==
    ASSUME NEW h, Pairs(h), NEW j \in Slab, NEW b \in Int,
           NEW g, Joined(g, h, j, b)
    PROVE  /\ Pairs(g) /\ In(j, g) = In(j, h) \cup {b}
           /\ \A i \in Slab \ {j} : In(i, g) = In(i, h)
<1>1. Pairs(g)
  BY DEF Pairs, Joined
<1>2. \A i, c : c \in In(i, g) <=> <<i, c>> \in DOMAIN g
  BY <1>1, InFacts
<1>3. \A i, c : c \in In(i, h) <=> <<i, c>> \in DOMAIN h
  BY InFacts
<1>4. \A i, c : c \in In(i, g) <=> c \in In(i, h) \/ (i = j /\ c = b)
  <2>1. \A q : q \in DOMAIN g <=> q \in DOMAIN h \/ q = <<j, b>>
    BY DEF Joined
  <2>2. \A i, c : <<i, c>> = <<j, b>> <=> i = j /\ c = b
    OBVIOUS
  <2>3. \A i, c : <<i, c>> \in DOMAIN g <=> <<i, c>> \in DOMAIN h \/ (i = j /\ c = b)
    BY ONLY <2>1, <2>2
  <2>. QED
    BY ONLY <1>2, <1>3, <2>3
<1>5. In(j, g) = In(j, h) \cup {b}
  BY <1>4
<1>6. ASSUME NEW i \in Slab \ {j} PROVE In(i, g) = In(i, h)
  BY <1>4
<1>. QED
  BY <1>1, <1>5, <1>6

LEMMA InRemoved ==
    ASSUME NEW h, Pairs(h), NEW p, NEW g, Parted(g, h, p)
    PROVE  /\ Pairs(g) /\ p[1] \in Slab /\ p[2] \in In(p[1], h) /\ In(p[1], g) = In(p[1], h) \ {p[2]}
           /\ \A i \in Slab \ {p[1]} : In(i, g) = In(i, h)
<1>1. Pairs(g)
  BY DEF Pairs, Parted
<1>2. p[1] \in Slab /\ p = <<p[1], p[2]>> /\ p \in DOMAIN h /\ DOMAIN g = DOMAIN h \ {p}
  BY DEF Pairs, Parted
<1>3. \A i, c : c \in In(i, g) <=> <<i, c>> \in DOMAIN g
  BY <1>1, InFacts
<1>4. \A i, c : c \in In(i, h) <=> <<i, c>> \in DOMAIN h
  BY InFacts
<1>. DEFINE j == p[1]
            b == p[2]
<1>5. p = <<j, b>> /\ j \in Slab /\ p \in DOMAIN h /\ DOMAIN g = DOMAIN h \ {p}
  BY <1>2
<1>. HIDE DEF j, b
<1>6. \A i, c : c \in In(i, g) <=> c \in In(i, h) /\ ~(i = j /\ c = b)
  BY <1>3, <1>4, <1>5
<1>7. In(j, g) = In(j, h) \ {b}
  BY <1>6
<1>8. ASSUME NEW i \in Slab \ {j} PROVE In(i, g) = In(i, h)
  BY <1>6
<1>9. b \in In(j, h)
  BY <1>4, <1>5
<1>. QED
  BY <1>1, <1>5, <1>7, <1>8, <1>9 DEF j, b

-----------------------------------------------------------------------------
(* The invariant.                                                          *)

(* Each slab is a block allocator of the given shape, of whose blocks the  *)
(* program holds those of h.                                               *)
SlabSound(i, s, h) == Good(s[i], In(i, h)) /\ Alike(s[i], MembersOf(i))

AllSound(s, h) == DOMAIN s = Slab /\ Pairs(h) /\ \A i \in Slab : SlabSound(i, s, h)

NoneGrown(s) == \A i \in Slab : DOMAIN s[i].word = Starts(s[i])

SlicesFit(h) == \A p \in DOMAIN h : h[p] \in 1 .. MembersOf(p[1]).blocksize

Endings == {Null, "invalid_request", "negative_fill", "grown_block_not_contained"}

(* None of the slabs up to i that could serve the request has a block left. *)
NoneLeft(i, request, s) == \A k \in 1 .. i : TooBig(MembersOf(k), request) \/ s[k].head = Null

(* The last slab was asked, or one that could serve the request and did    *)
(* not say oom.                                                            *)
Denial(request, err, s) ==
    \/ NoneLeft(Len(Blocksizes), request, s)
    \/ err # "oom" /\ \E i \in Slab : ~TooBig(MembersOf(i), request) /\ NoneLeft(i, request, s)

RefusedRightly == refused # Null /\ ended = Null => Denial(refused, refused.err, slabs)

IInv ==
    /\ ended \in Endings
    /\ ended = "invalid_request" => \E i \in Slab : ~GrowRequestValid(MembersOf(i))
    /\ \/ /\ slabs = [i \in Slab |-> Absent] /\ Live = {} /\ bought = {} /\ refused = Null
       \/ /\ AllSound(slabs, held) /\ SlicesFit(held) /\ bought = Slab
          /\ ended = Null => NoneGrown(slabs)
          /\ RefusedRightly

-----------------------------------------------------------------------------
(* Steps of one slab.                                                      *)

LEMMA Shapes ==
    ASSUME NEW i \in Slab
    PROVE  /\ Good(MembersOf(i), {}) /\ MembersOf(i).kind = "block"
           /\ DOMAIN MembersOf(i).word = Starts(MembersOf(i))
           /\ MembersOf(i).blocksize \in Nat \ {0}
           /\ MembersOf(i).size = Spots * MembersOf(i).blocksize
<1>. DEFINE bytes == Blocksizes[i].blocksize
            alignment == Blocksizes[i].alignment
            bs == ActualBlocksize(bytes, alignment)
            size == Spots * bs
            u == MembersOf(i)
<1>1. bytes \in Nat \ {0} /\ alignment \in Nat \ {0} /\ Spots \in Nat \ {0}
  <2>. DEFINE D == [blocksize : Nat \ {0}, alignment : Nat \ {0}]
  <2>1. Blocksizes \in Seq(D) /\ Spots \in Nat \ {0}
    BY SlabAssumption
  <2>2. \A d \in D : d.blocksize \in Nat \ {0} /\ d.alignment \in Nat \ {0}
    OBVIOUS
  <2>. HIDE DEF D
  <2>3. Blocksizes[i] \in D
    BY <2>1 DEF Slab
  <2>. QED
    BY <2>1, <2>2, <2>3
<1>2. u = Members(size, bytes, alignment)
  BY DEF MembersOf
<1>. HIDE DEF bytes, alignment, u
<1>3. bs \in Nat \ {0}
  BY <1>1, ActualSizes
<1>. HIDE DEF bs
<1>4. size \in Nat
  BY <1>1, <1>3
<1>. HIDE DEF size
<1>5. /\ Good(u, {}) /\ u.kind = "block" /\ u.size = size /\ u.blocksize = bs
      /\ DOMAIN u.word = Starts(u)
  BY <1>1, <1>2, <1>4, MembersGood DEF bs
<1>. QED
  BY <1>3, <1>5 DEF u, size

(* What depends on the shape of a slab only. *)
LEMMA ShapeFacts ==
    ASSUME NEW i \in Slab, NEW s, NEW h, SlabSound(i, s, h)
    PROVE  /\ s[i] # Absent /\ s[i].blocksize = MembersOf(i).blocksize /\ s[i].align = MembersOf(i).align
           /\ Starts(s[i]) = Starts(MembersOf(i)) /\ Starts(s[i]) \subseteq Int
           /\ (GrowRequestValid(s[i]) <=> GrowRequestValid(MembersOf(i)))
           /\ \A request : TooBig(s[i], request) <=> TooBig(MembersOf(i), request)
<1>1. s[i].kind = "block"
  BY Shapes DEF SlabSound, Alike
<1>2. Starts(s[i]) = Starts(MembersOf(i))
  BY RewrittenStarts DEF SlabSound
<1>3. Starts(s[i]) \subseteq Int
  BY DEF SlabSound, Good, Words
<1>. QED
  BY <1>1, <1>2, <1>3 DEF SlabSound, Alike, Absent, GrowRequestValid, TooBig

(* t is s but for slab j, with the blocks of g in use.                     *)
Stepped(t, s, j, g) ==
    /\ AllSound(t, g)
    /\ \A i \in Slab \ {j} : t[i] = s[i]
    /\ NoneGrown(s) /\ DOMAIN t[j].word = DOMAIN s[j].word => NoneGrown(t)

LEMMA ReplaceSound ==
    ASSUME NEW s, NEW h, AllSound(s, h), NEW j \in Slab,
           NEW g, Pairs(g), \A i \in Slab \ {j} : In(i, g) = In(i, h),
           NEW u, Good(u, In(j, g)), Alike(u, s[j]), NEW t, t = Replace(s, j, u)
    PROVE  Stepped(t, s, j, g) /\ t[j] = u
<1>1. DOMAIN t = Slab /\ t[j] = u /\ \A i \in Slab \ {j} : t[i] = s[i]
  BY DEF Replace, AllSound
<1>2. SlabSound(j, t, g)
  BY <1>1 DEF AllSound, SlabSound, Alike
<1>3. \A i \in Slab \ {j} : SlabSound(i, t, g)
  BY <1>1 DEF AllSound, SlabSound
<1>4. Starts(u) = Starts(s[j])
  BY RewrittenStarts
<1>. QED
  BY <1>1, <1>2, <1>3, <1>4 DEF AllSound, NoneGrown, Stepped

(* The blocks at these pointers hold the same in t as in s.                *)
SameContents(t, s, pointers) == \A p \in pointers : t[p[1]].word[p[2]] = s[p[1]].word[p[2]]

LEMMA ReplaceKeeps ==
    ASSUME NEW s, NEW h, AllSound(s, h), NEW j \in Slab, NEW pointers, pointers \subseteq DOMAIN h,
           NEW u, NEW blocks, SameWords(u, s[j], blocks),
           \A p \in pointers : p[1] = j => p[2] \in blocks,
           NEW t, t = Replace(s, j, u)
    PROVE  SameContents(t, s, pointers)
<1>1. t[j] = u /\ \A i \in Slab \ {j} : t[i] = s[i]
  BY DEF Replace, AllSound
<1>2. SUFFICES ASSUME NEW p \in pointers
               PROVE  t[p[1]].word[p[2]] = s[p[1]].word[p[2]]
  BY DEF SameContents
<1>3. p[1] \in Slab
  BY DEF AllSound, Pairs
<1>4. CASE p[1] = j
  BY <1>1, <1>4 DEF SameWords
<1>5. CASE p[1] # j
  BY <1>1, <1>3, <1>5
<1>. QED
  BY <1>4, <1>5

(* The other blocks in the slab of p. *)
LEMMA OtherBlocks ==
    ASSUME NEW h, Pairs(h), NEW p \in DOMAIN h, NEW q \in DOMAIN h, q # p, q[1] = p[1]
    PROVE  q[2] \in In(p[1], h) \ {p[2]}
<1>1. p = <<p[1], p[2]>> /\ q = <<q[1], q[2]>>
  BY DEF Pairs
<1>2. q[2] # p[2]
  BY <1>1
<1>. QED
  BY <1>2 DEF In

LEMMA NullIsNoRequest ==
    /\ Null \in Endings
    /\ "invalid_request" # Null /\ "negative_fill" # Null /\ "grown_block_not_contained" # Null
BY BlocksAssumption DEF Endings

(***************************************************************************)
(* What a call of the slab allocator's allocate leaves behind: o is the    *)
(* outcome for which slab j is responsible.                                *)
(***************************************************************************)
Granted(o, j, s, h) ==
    /\ o.err = "success" /\ o.block \in Starts(s[j]) \ In(j, h)
    /\ Good(o.m, In(j, h) \cup {o.block}) /\ DOMAIN o.m.word = DOMAIN s[j].word

Denied(o, j, s, h) ==
    /\ Good(o.m, In(j, h))
    /\ \/ o.err \in Error /\ o.m = s[j]
       \/ o.err = "invalid_request" /\ ~GrowRequestValid(MembersOf(j))
       \/ o.err = "grown_block_not_contained"

LEMMA AnswerFacts ==
    ASSUME AllSound(slabs, held), NEW j \in Slab, NEW request, request.leave_nonzeroed \in BOOLEAN,
           NEW o \in Answers(j, request)
    PROVE  /\ Alike(o.m, slabs[j])
           /\ (Granted(o, j, slabs, held) /\ Fits(j, request)) \/ Denied(o, j, slabs, held)
           /\ o.err \in Error => TooBig(MembersOf(j), request) \/ slabs[j].head = Null
           /\ o.err \in Error \ {"oom"} => ~TooBig(MembersOf(j), request)
<1>. DEFINE a == slabs[j]
            live == In(j, held)
<1>1. Good(a, live) /\ SlabSound(j, slabs, held)
  BY DEF AllSound, SlabSound
<1>2. /\ (TooBig(a, request) <=> TooBig(MembersOf(j), request))
      /\ (GrowRequestValid(a) <=> GrowRequestValid(MembersOf(j)))
  BY <1>1, ShapeFacts
<1>3. CASE ~Fits(j, request)
  BY <1>1, <1>2, <1>3 DEF Answers, Denied, Fits, Alike, Error
<1>4. CASE Fits(j, request)
  <2>1. o \in AllocateOutcomes(a, request) /\ ~TooBig(a, request)
    BY <1>4 DEF Answers, Fits
  <2>2. Alike(o.m, a) /\ (Taken(o, a, live) \/ Refused(o, a, live, request))
    BY <1>1, <2>1, AllocateOutcome
  <2>3. CASE Taken(o, a, live)
    BY <1>4, <2>2, <2>3 DEF Taken, Granted, Error
  <2>4. CASE Refused(o, a, live, request)
    BY <1>2, <2>1, <2>2, <2>4 DEF Refused, Denied, Error
  <2>. QED
    BY <2>2, <2>3, <2>4
<1>. QED
  BY <1>3, <1>4

(* The blocks that the program holds in slab j stay as they are.           *)
LEMMA OutcomeKeeps ==
    ASSUME AllSound(slabs, held), NEW j \in Slab, NEW request, request.leave_nonzeroed \in BOOLEAN,
           NEW o \in SlabOutcomes(j, request)
    PROVE  SameWords(o.m, slabs[j], In(j, held))
<1>. DEFINE a == slabs[j]
            live == In(j, held)
<1>1. o \in Answers(j, request)
  BY DEF SlabOutcomes
<1>2. Good(a, live)
  BY DEF AllSound, SlabSound
<1>3. CASE ~Fits(j, request)
  BY <1>1, <1>3 DEF Answers, SameWords
<1>4. CASE Fits(j, request)
  <2>1. o \in AllocateOutcomes(a, request)
    BY <1>1, <1>4 DEF Answers
  <2>. HIDE DEF a, live
  <2>2. SameWords(o.m, a, live)
    BY <1>2, <2>1, AllocateKeeps
  <2>. QED
    BY <2>2 DEF a, live
<1>. QED
  BY <1>3, <1>4

LEMMA OutcomeFacts ==
    ASSUME AllSound(slabs, held), NEW j \in Slab, NEW request, request.leave_nonzeroed \in BOOLEAN,
           NEW o \in SlabOutcomes(j, request)
    PROVE  /\ Alike(o.m, slabs[j])
           /\ (Granted(o, j, slabs, held) /\ Fits(j, request)) \/ Denied(o, j, slabs, held)
           /\ o.err \in Error => Denial(request, o.err, slabs)
<1>1. /\ o \in Answers(j, request) /\ (o.err = "oom" => j = Len(Blocksizes))
      /\ \A k \in 1 .. j - 1 : PassedOver(k, request)
  BY DEF SlabOutcomes
<1>2. /\ Alike(o.m, slabs[j])
      /\ (Granted(o, j, slabs, held) /\ Fits(j, request)) \/ Denied(o, j, slabs, held)
      /\ o.err \in Error => TooBig(MembersOf(j), request) \/ slabs[j].head = Null
      /\ o.err \in Error \ {"oom"} => ~TooBig(MembersOf(j), request)
  BY <1>1, AnswerFacts
<1>3. ASSUME NEW k \in 1 .. j - 1
      PROVE  TooBig(MembersOf(k), request) \/ slabs[k].head = Null
  <2>1. k \in Slab
    BY SlabAssumption DEF Slab
  <2>2. PICK a \in Answers(k, request) : a.err = "oom"
    BY <1>1 DEF PassedOver
  <2>. QED
    BY <2>1, <2>2, AnswerFacts DEF Error
<1>4. ASSUME o.err \in Error PROVE Denial(request, o.err, slabs)
  <2>1. \A k \in 1 .. j : k \in 1 .. j - 1 \/ k = j
    BY DEF Slab
  <2>2. NoneLeft(j, request, slabs)
    BY <1>2, <1>3, <1>4, <2>1 DEF NoneLeft
  <2>. QED
    BY <1>1, <1>2, <1>4, <2>2 DEF Denial
<1>. QED
  BY <1>2, <1>4

(* A block that a slab hands out. *)
LEMMA GrantedSound ==
    ASSUME NEW s, NEW h, AllSound(s, h), NEW j \in Slab,
           NEW b, b \in Starts(s[j]), b \notin In(j, h),
           NEW live, live = In(j, h) \cup {b}, NEW u, Good(u, live), Alike(u, s[j]),
           NEW g, Joined(g, h, j, b), NEW t, t = Replace(s, j, u)
    PROVE  Stepped(t, s, j, g) /\ t[j] = u /\ <<j, b>> \notin DOMAIN h
<1>1. b \in Int /\ b \notin In(j, h)
  BY ShapeFacts DEF AllSound
<1>2. Pairs(h)
  BY DEF AllSound
<1>3. /\ Pairs(g) /\ In(j, g) = In(j, h) \cup {b}
      /\ \A i \in Slab \ {j} : In(i, g) = In(i, h)
  BY <1>1, <1>2, InAdded
<1>4. Good(u, In(j, g)) /\ Alike(u, s[j]) /\ t = Replace(s, j, u)
  BY <1>3
<1>5. Stepped(t, s, j, g) /\ t[j] = u
  BY ONLY <1>3, <1>4, AllSound(s, h), j \in Slab, ReplaceSound
<1>6. <<j, b>> \notin DOMAIN h
  BY <1>1, <1>2, InFacts
<1>. QED
  BY <1>5, <1>6

LEMMA DeniedSound ==
    ASSUME NEW s, NEW h, AllSound(s, h), NEW j \in Slab, NEW o, Alike(o.m, s[j]), Denied(o, j, s, h),
           NEW t, t = Replace(s, j, o.m)
    PROVE  AllSound(t, h) /\ (o.err \in Error => \A i \in Slab : t[i] = s[i])
<1>. DEFINE u == o.m
<1>1. Good(u, In(j, h)) /\ Alike(u, s[j]) /\ t = Replace(s, j, u)
  BY DEF Denied
<1>. HIDE DEF u
<1>2. Stepped(t, s, j, h) /\ t[j] = u
  BY <1>1, ReplaceSound DEF AllSound
<1>3. ASSUME o.err \in Error PROVE \A i \in Slab : t[i] = s[i]
  <2>1. u = s[j]
    BY <1>3 DEF Denied, Error, u
  <2>. QED
    BY <1>2, <2>1 DEF Stepped
<1>. QED
  BY <1>2, <1>3 DEF Stepped

(* A block that is given back, by any pointer into it. *)
LEMMA ReturnedSound ==
    ASSUME NEW s, NEW h, AllSound(s, h), NEW p, NEW offset \in 0 .. s[p[1]].blocksize - 1,
           NEW o, o = DeallocateOutcome(s[p[1]], p[2] + offset),
           NEW g, Parted(g, h, p), NEW t, t = Replace(s, p[1], o.m)
    PROVE  o.err = "success" /\ Stepped(t, s, p[1], g) /\ (NoneGrown(s) => NoneGrown(t))
<1>. DEFINE j == p[1]
            b == p[2]
            u == o.m
<1>1. /\ Pairs(g) /\ j \in Slab /\ b \in In(j, h) /\ In(j, g) = In(j, h) \ {b}
      /\ \A i \in Slab \ {j} : In(i, g) = In(i, h)
  BY InRemoved DEF AllSound
<1>2. o = DeallocateOutcome(s[j], b + offset) /\ t = Replace(s, j, u) /\ offset \in 0 .. s[j].blocksize - 1
  OBVIOUS
<1>. HIDE DEF j, b
<1>3. Good(s[j], In(j, h))
  BY <1>1 DEF AllSound, SlabSound
<1>4. o.err = "success" /\ Good(u, In(j, h) \ {b}) /\ Alike(u, s[j]) /\ DOMAIN u.word = DOMAIN s[j].word
  BY ONLY <1>1, <1>2, <1>3, DeallocateOutcomeGood
<1>. HIDE DEF u
<1>5. Stepped(t, s, j, g) /\ t[j] = u
  BY ONLY <1>1, <1>2, <1>4, AllSound(s, h), ReplaceSound
<1>. QED
  BY <1>4, <1>5 DEF Stepped, j

-----------------------------------------------------------------------------
(* The invariant, step by step.                                            *)

LEMMA SlabsPresent ==
    ASSUME NEW s, NEW h, AllSound(s, h)
    PROVE  \A i \in Slab : s[i] # Absent
BY ShapeFacts DEF AllSound

LEMMA SomeSlab == 1 \in Slab
<1>1. Len(Blocksizes) \in Nat \ {0}
  BY SlabAssumption
<1>. QED
  BY <1>1 DEF Slab

LEMMA RunningFacts ==
    ASSUME IInv, Running
    PROVE  /\ AllSound(slabs, held) /\ SlicesFit(held) /\ bought = Slab
           /\ NoneGrown(slabs) /\ ended = Null /\ RefusedRightly
<1>1. slabs # [i \in Slab |-> Absent]
  BY SomeSlab DEF Running, Constructed
<1>. QED
  BY <1>1 DEF IInv, Running

LEMMA UnbuiltFacts ==
    ASSUME IInv, ~Constructed
    PROVE  slabs = [i \in Slab |-> Absent] /\ Live = {} /\ bought = {} /\ refused = Null
BY SlabsPresent DEF IInv, Constructed

(* How a step keeps the invariant when the program goes on. *)
LEMMA GoesOn ==
    ASSUME AllSound(slabs, held)', SlicesFit(held)', bought' = Slab, ended' = Null,
           NoneGrown(slabs)', refused' = Null
    PROVE  IInv'
BY NullIsNoRequest DEF IInv, RefusedRightly

LEMMA InitInvariant == Init => IInv
<1>1. DOMAIN << >> = {}
  OBVIOUS
<1>. QED
  BY <1>1, NullIsNoRequest DEF Init, IInv, Live

LEMMA ConstructInvariant ==
    ASSUME IInv, Construct
    PROVE  IInv'
<1>1. /\ ~Constructed /\ ended = Null /\ slabs' = [i \in Slab |-> MembersOf(i)]
      /\ bought' = Slab /\ held' = held /\ refused' = refused /\ ended' = ended
  BY DEF Construct
<1>2. DOMAIN held = {} /\ refused = Null
  BY <1>1, UnbuiltFacts DEF Live
<1>3. \A i \in Slab : In(i, held) = {}
  BY <1>2 DEF In
<1>4. AllSound(slabs', held) /\ NoneGrown(slabs')
  BY <1>1, <1>2, <1>3, Shapes DEF AllSound, Pairs, SlabSound, Alike, NoneGrown
<1>5. SlicesFit(held)
  BY <1>2 DEF SlicesFit
<1>. QED
  BY <1>1, <1>2, <1>4, <1>5, GoesOn

LEMMA ConstructFailsInvariant ==
    ASSUME IInv, NEW n \in Slab, ConstructFails(n)
    PROVE  IInv'
<1>1. /\ ~Constructed /\ bought' = {}
      /\ slabs' = slabs /\ held' = held /\ refused' = refused /\ ended' = ended
  BY DEF ConstructFails, RolledBack
<1>. QED
  BY <1>1, UnbuiltFacts DEF IInv, Live

(* A call in which slab j had the last word, without handing out a block.  *)
LEMMA DeniedInvariant ==
    ASSUME IInv, Running, NEW j \in Slab, NEW o, Alike(o.m, slabs[j]), Denied(o, j, slabs, held),
           slabs' = Replace(slabs, j, o.m), Fails(o.err), held' = held, bought' = bought,
           o.err \in Error => RefusedRightly'
    PROVE  IInv'
<1>1. AllSound(slabs, held) /\ SlicesFit(held) /\ bought = Slab /\ NoneGrown(slabs)
  BY RunningFacts
<1>2. AllSound(slabs', held) /\ (o.err \in Error => \A i \in Slab : slabs'[i] = slabs[i])
  BY <1>1, DeniedSound
<1>3. CASE o.err \in Error
  <2>1. ended' = Null
    BY <1>3 DEF Fails
  <2>2. NoneGrown(slabs')
    BY <1>1, <1>2, <1>3 DEF NoneGrown
  <2>. QED
    BY <1>1, <1>2, <1>3, <2>1, <2>2, NullIsNoRequest DEF IInv
<1>4. CASE o.err \notin Error
  <2>1. /\ ended' = o.err /\ o.err \in {"invalid_request", "grown_block_not_contained"}
        /\ o.err = "invalid_request" => \E i \in Slab : ~GrowRequestValid(MembersOf(i))
    BY <1>4 DEF Fails, Denied
  <2>2. ended' \in Endings /\ ended' # Null
    BY <2>1, NullIsNoRequest DEF Endings
  <2>. QED
    BY <1>1, <1>2, <2>1, <2>2 DEF IInv, RefusedRightly
<1>. QED
  BY <1>3, <1>4

LEMMA TakenSound ==
    ASSUME AllSound(slabs, held), NoneGrown(slabs), NEW i \in Slab,
           NEW o, Alike(o.m, slabs[i]), Granted(o, i, slabs, held),
           NEW g, Joined(g, held, i, o.block), NEW t, t = Replace(slabs, i, o.m)
    PROVE  AllSound(t, g) /\ NoneGrown(t)
<1>. DEFINE u == o.m
            b == o.block
            live == In(i, held) \cup {b}
<1>1. b \in Starts(slabs[i]) /\ b \notin In(i, held)
  BY DEF Granted
<1>2. live = In(i, held) \cup {b}
  OBVIOUS
<1>3. Good(u, live) /\ Alike(u, slabs[i]) /\ DOMAIN u.word = DOMAIN slabs[i].word
  BY DEF Granted
<1>4. Joined(g, held, i, b) /\ t = Replace(slabs, i, u)
  OBVIOUS
<1>. HIDE DEF u, b, live
<1>5. Stepped(t, slabs, i, g) /\ t[i] = u /\ <<i, b>> \notin DOMAIN held
  BY ONLY <1>1, <1>2, <1>3, <1>4, AllSound(slabs, held), i \in Slab, GrantedSound
<1>. QED
  BY <1>3, <1>5 DEF Stepped

LEMMA AllocateInvariant ==
    ASSUME IInv, NEW request \in Request, Allocate(request)
    PROVE  IInv'
<1>1. Running /\ request.leave_nonzeroed \in BOOLEAN /\ bought' = bought
  BY DEF Allocate, Request
<1>2. PICK j \in Slab : \E o \in SlabOutcomes(j, request) :
        /\ slabs' = Replace(slabs, j, o.m)
        /\ \/ /\ o.err = "success"
              /\ held' = With(held, <<j, o.block>>, slabs[j].blocksize)
              /\ refused' = Null
              /\ ended' = ended
           \/ /\ o.err # "success"
              /\ Fails(o.err)
              /\ refused' = [num_bytes |-> request.num_bytes, alignment |-> request.alignment,
                             err |-> o.err]
              /\ held' = held
  BY DEF Allocate
<1>3. PICK o \in SlabOutcomes(j, request) :
        /\ slabs' = Replace(slabs, j, o.m)
        /\ \/ /\ o.err = "success"
              /\ held' = With(held, <<j, o.block>>, slabs[j].blocksize)
              /\ refused' = Null
              /\ ended' = ended
           \/ /\ o.err # "success"
              /\ Fails(o.err)
              /\ refused' = [num_bytes |-> request.num_bytes, alignment |-> request.alignment,
                             err |-> o.err]
              /\ held' = held
  BY <1>2
<1>4. AllSound(slabs, held) /\ SlicesFit(held) /\ bought = Slab /\ NoneGrown(slabs) /\ ended = Null
  BY <1>1, RunningFacts
<1>5. /\ Alike(o.m, slabs[j])
      /\ (Granted(o, j, slabs, held) /\ Fits(j, request)) \/ Denied(o, j, slabs, held)
      /\ o.err \in Error => Denial(request, o.err, slabs)
  BY <1>1, <1>4, OutcomeFacts
<1>6. CASE o.err = "success"
  <2>1. Granted(o, j, slabs, held)
    BY <1>5, <1>6 DEF Denied, Error
  <2>2. /\ held' = With(held, <<j, o.block>>, slabs[j].blocksize)
        /\ refused' = Null /\ ended' = ended
    BY <1>3, <1>6
  <2>3. /\ DOMAIN held' = DOMAIN held \cup {<<j, o.block>>} /\ held'[<<j, o.block>>] = slabs[j].blocksize
        /\ \A p \in DOMAIN held \ {<<j, o.block>>} : held'[p] = held[p]
    BY <2>2 DEF With
  <2>4. AllSound(slabs', held') /\ NoneGrown(slabs')
    <3>. DEFINE t == slabs'
                g == held'
    <3>1. t = Replace(slabs, j, o.m) /\ Joined(g, held, j, o.block)
      BY <1>3, <2>3 DEF Joined
    <3>. HIDE DEF t, g
    <3>2. AllSound(t, g) /\ NoneGrown(t)
      BY ONLY <1>4, <1>5, <2>1, <3>1, j \in Slab, TakenSound
    <3>. QED
      BY <3>2 DEF t, g
  <2>5. SlicesFit(held')
    <3>1. slabs[j].blocksize = MembersOf(j).blocksize /\ MembersOf(j).blocksize \in Nat \ {0}
      BY <1>4, Shapes, ShapeFacts DEF AllSound
    <3>2. <<j, o.block>>[1] = j
      OBVIOUS
    <3>. QED
      BY <1>4, <2>3, <3>1, <3>2 DEF SlicesFit
  <2>. QED
    BY <1>1, <1>4, <2>2, <2>4, <2>5, GoesOn
<1>7. CASE o.err # "success"
  <2>1. Denied(o, j, slabs, held)
    BY <1>5, <1>7 DEF Granted
  <2>2. /\ Fails(o.err) /\ held' = held
        /\ refused' = [num_bytes |-> request.num_bytes, alignment |-> request.alignment,
                       err |-> o.err]
    BY <1>3, <1>7
  <2>3. o.err \in Error => \A i \in Slab : slabs'[i] = slabs[i]
    BY <1>3, <1>4, <1>5, <2>1, DeniedSound
  <2>4. /\ \A i \in Slab : TooBig(MembersOf(i), request) <=> TooBig(MembersOf(i), refused')
        /\ (refused').err = o.err
    BY <2>2 DEF TooBig
  <2>5. ASSUME o.err \in Error PROVE RefusedRightly'
    <3>1. ASSUME NEW i \in Slab, NoneLeft(i, request, slabs)
          PROVE  NoneLeft(i, refused', slabs')
      <4>1. 1 .. i \subseteq Slab
        BY SlabAssumption DEF Slab
      <4>. QED
        BY <2>3, <2>4, <2>5, <3>1, <4>1 DEF NoneLeft
    <3>2. Len(Blocksizes) \in Slab
      BY SlabAssumption DEF Slab
    <3>3. Denial(refused', (refused').err, slabs')
      BY <1>5, <2>4, <2>5, <3>1, <3>2 DEF Denial
    <3>. QED
      BY <3>3 DEF RefusedRightly
  <2>. QED
    BY <1>1, <1>3, <1>5, <2>1, <2>2, <2>5, DeniedInvariant
<1>. QED
  BY <1>6, <1>7

LEMMA DeallocateInvariant ==
    ASSUME IInv, NEW p \in Live, NEW offset \in 0 .. MaxRequest, Deallocate(p, offset)
    PROVE  IInv'
<1>. DEFINE o == DeallocateOutcome(slabs[p[1]], p[2] + offset)
<1>1. /\ Running /\ offset < slabs[p[1]].blocksize /\ refused' = Null /\ bought' = bought
      /\ slabs' = Replace(slabs, p[1], o.m)
      /\ (o.err = "success" /\ held' = Without(p) /\ ended' = ended) \/ o.err # "success"
  BY DEF Deallocate
<1>2. /\ AllSound(slabs, held) /\ SlicesFit(held) /\ bought = Slab /\ NoneGrown(slabs) /\ ended = Null
      /\ p \in DOMAIN held /\ DOMAIN Without(p) = DOMAIN held \ {p}
  BY <1>1, RunningFacts DEF Live, Without
<1>3. offset \in 0 .. slabs[p[1]].blocksize - 1
  <2>1. p[1] \in Slab
    BY <1>2 DEF AllSound, Pairs
  <2>2. slabs[p[1]].blocksize \in Nat
    BY <1>2, <2>1 DEF AllSound, SlabSound, Good, SizesFit
  <2>. QED
    BY <1>1, <2>2
<1>. DEFINE g == Without(p)
            t == Replace(slabs, p[1], o.m)
<1>4. Parted(g, held, p) /\ o = DeallocateOutcome(slabs[p[1]], p[2] + offset)
      /\ t = Replace(slabs, p[1], o.m)
  BY <1>2 DEF Parted
<1>5. slabs' = t
  BY <1>1
<1>. HIDE DEF o, g, t
<1>6. o.err = "success" /\ Stepped(t, slabs, p[1], g) /\ (NoneGrown(slabs) => NoneGrown(t))
  BY ONLY <1>2, <1>3, <1>4, ReturnedSound
<1>7. held' = g /\ ended' = Null
  BY <1>1, <1>2, <1>6 DEF g
<1>8. AllSound(slabs', held') /\ NoneGrown(slabs')
  BY <1>2, <1>5, <1>6, <1>7 DEF Stepped
<1>9. SlicesFit(held')
  BY <1>2, <1>7 DEF g, Without, Live, SlicesFit
<1>. QED
  BY <1>1, <1>2, <1>7, <1>8, <1>9, GoesOn

(* What a call to reallocate finds. *)
LEMMA InPlaceFacts ==
    ASSUME AllSound(slabs, held), SlicesFit(held), NEW p \in DOMAIN held,
           NEW request, RequestValid(request), request.memory = p[2], request.size = held[p],
           request.new_size \in Nat \ {0}, request.preferred \in Nat,
           NEW o, o = InPlace(p, request)
    PROVE  /\ p[1] \in Slab /\ p = <<p[1], p[2]>> /\ p[2] \in In(p[1], held) /\ Good(slabs[p[1]], In(p[1], held))
           /\ slabs[p[1]].blocksize \in Nat \ {0}
           /\ slabs[p[1]].blocksize = MembersOf(p[1]).blocksize
           /\ held[p] \in 1 .. slabs[p[1]].blocksize
           /\ o.err = "oom" => request.new_size > held[p]
           /\ (o.err = "success" /\ o.size \in 1 .. slabs[p[1]].blocksize) \/ o.err \in {"oom", "negative_fill"}
<1>1. p[1] \in Slab /\ p = <<p[1], p[2]>> /\ p[2] \in In(p[1], held)
  BY InFacts DEF AllSound, Pairs
<1>2. SlabSound(p[1], slabs, held)
  BY <1>1 DEF AllSound
<1>3. /\ slabs[p[1]].blocksize = MembersOf(p[1]).blocksize /\ slabs[p[1]].blocksize \in Nat \ {0}
      /\ Good(slabs[p[1]], In(p[1], held))
  BY <1>1, <1>2, Shapes, ShapeFacts DEF SlabSound
<1>4. held[p] \in 1 .. slabs[p[1]].blocksize
  BY <1>3 DEF SlicesFit
<1>. DEFINE a == slabs[p[1]]
            live == In(p[1], held)
            block == p[2]
<1>5. /\ Good(a, live) /\ block \in live /\ request.memory = block /\ request.size \in 1 .. a.blocksize
      /\ o = ReallocateOutcome(a, request)
  BY <1>1, <1>3, <1>4 DEF InPlace
<1>6. o.err = "oom" => request.new_size > a.blocksize
  <2>1. o.err = "oom" => o = [m |-> a, err |-> "oom"] /\ request.new_size > a.blocksize
    BY <1>5 DEF ReallocateOutcome
  <2>. QED
    BY <2>1
<1>. HIDE DEF a, live, block
<1>7. (o.err = "success" /\ o.size \in 1 .. a.blocksize) \/ o.err \in {"oom", "negative_fill"}
  BY ONLY <1>5, RequestValid(request), request.new_size \in Nat \ {0}, request.preferred \in Nat,
     ReallocateOutcomeGood
<1>8. o.err = "oom" => request.new_size > held[p]
  BY <1>3, <1>4, <1>6 DEF a
<1>. QED
  BY <1>1, <1>3, <1>4, <1>7, <1>8 DEF a

LEMMA InPlaceInvariant ==
    ASSUME IInv, Running, NEW p \in Live, NEW request, RequestValid(request),
           request.memory = p[2], request.size = held[p],
           request.new_size \in Nat \ {0}, request.preferred \in Nat,
           ReallocateInPlace(p, request), refused' = Null, bought' = bought
    PROVE  IInv'
<1>. DEFINE o == InPlace(p, request)
<1>1. AllSound(slabs, held) /\ SlicesFit(held) /\ bought = Slab /\ NoneGrown(slabs) /\ ended = Null /\ p \in DOMAIN held
  BY RunningFacts DEF Live
<1>2. /\ slabs' = slabs
      /\ \/ o.err = "success" /\ held' = [held EXCEPT ![p] = o.size] /\ ended' = ended
         \/ o.err # "success" /\ Fails(o.err) /\ held' = held
  BY DEF ReallocateInPlace
<1>3. o = InPlace(p, request)
  OBVIOUS
<1>. HIDE DEF o
<1>4. /\ slabs[p[1]].blocksize = MembersOf(p[1]).blocksize
      /\ (o.err = "success" /\ o.size \in 1 .. slabs[p[1]].blocksize) \/ o.err \in {"oom", "negative_fill"}
  BY <1>1, <1>3, InPlaceFacts
<1>5. CASE o.err = "success"
  <2>1. DOMAIN held' = DOMAIN held /\ \A i : In(i, held') = In(i, held)
    BY <1>2, <1>5 DEF In
  <2>2. AllSound(slabs', held') /\ NoneGrown(slabs')
    BY <1>1, <1>2, <2>1 DEF AllSound, SlabSound, Pairs
  <2>3. SlicesFit(held')
    BY <1>1, <1>2, <1>4, <1>5, <2>1 DEF SlicesFit
  <2>. QED
    BY <1>1, <1>2, <1>5, <2>2, <2>3, GoesOn
<1>6. CASE o.err # "success"
  <2>1. held' = held /\ (ended' = Null \/ ended' = "negative_fill")
    BY <1>2, <1>4, <1>6 DEF Fails, Error
  <2>. QED
    BY <1>1, <1>2, <2>1, NullIsNoRequest DEF IInv, RefusedRightly, Endings
<1>. QED
  BY <1>5, <1>6

(* A block that moves: the new one gets the content of the old one, which  *)
(* goes back to the slab it came from.                                     *)
LEMMA MovedSound ==
    ASSUME AllSound(slabs, held), NoneGrown(slabs), NEW p \in DOMAIN held,
           NEW i \in Slab, NEW o, Alike(o.m, slabs[i]), Granted(o, i, slabs, held),
           SameWords(o.m, slabs[i], In(i, held)),
           NEW g, DOMAIN g = (DOMAIN held \ {p}) \cup {<<i, o.block>>},
           NEW t, t = Moved(p, i, o)
    PROVE  /\ AllSound(t, g) /\ NoneGrown(t)
           /\ <<i, o.block>> \notin DOMAIN held /\ SameContents(t, slabs, DOMAIN held \ {p})
           /\ t[i].word[o.block] = slabs[p[1]].word[p[2]]
<1>. DEFINE j == p[1]
            b == p[2]
            content == slabs[j].word[b]
            v == [o.m EXCEPT !.word[o.block] = content]
            h == With(held, <<i, o.block>>, 1)
            copied == Replace(slabs, i, v)
            y == DeallocateOutcome(copied[j], b + 0)
            live == In(i, held) \cup {o.block}
            u == o.m
            block == o.block
<1>1. j \in Slab /\ b \in In(j, held) /\ p = <<j, b>>
  BY InFacts DEF AllSound, Pairs
<1>2. Good(slabs[j], In(j, held)) /\ Good(slabs[i], In(i, held))
  BY <1>1 DEF AllSound, SlabSound
<1>3. content \in {Zero, Data} /\ b \in Nat
  <2>1. b \in Starts(slabs[j]) /\ SizesFit(slabs[j])
    BY <1>1, <1>2 DEF Good
  <2>. QED
    BY <1>1, <1>2, <2>1, BlockFacts DEF Good
<1>4. /\ Good(u, live) /\ block \in live /\ DOMAIN u.word = DOMAIN slabs[i].word
      /\ block \in Starts(slabs[i]) /\ block \notin In(i, held)
  BY DEF Granted
<1>5. v = [u EXCEPT !.word[block] = content]
  OBVIOUS
<1>6. t = Replace(copied, j, y.m)
  <2>1. y = DeallocateOutcome(copied[j], b)
    BY <1>3
  <2>. HIDE DEF y
  <2>. QED
    BY <2>1 DEF Moved, copied, v, content, j, b
<1>7. /\ Joined(h, held, i, block) /\ live = In(i, held) \cup {block}
      /\ copied = Replace(slabs, i, v) /\ y = DeallocateOutcome(copied[j], b + 0)
  BY DEF With, Joined
<1>8. /\ DOMAIN g = (DOMAIN held \ {p}) \cup {<<i, block>>} /\ Alike(u, slabs[i])
      /\ SameWords(u, slabs[i], In(i, held))
  OBVIOUS
<1>. HIDE DEF v, content, h, copied, y, u, block, live
<1>9. Good(v, live) /\ Alike(v, u) /\ DOMAIN v.word = DOMAIN u.word
  BY ONLY <1>3, <1>4, <1>5, WrittenGood
<1>10. Good(v, live) /\ Alike(v, slabs[i]) /\ DOMAIN v.word = DOMAIN slabs[i].word
  BY <1>4, <1>7, <1>8, <1>9 DEF Alike
<1>11. Stepped(copied, slabs, i, h) /\ copied[i] = v /\ <<i, block>> \notin DOMAIN held
  BY ONLY <1>4, <1>7, <1>10, AllSound(slabs, held), i \in Slab, GrantedSound
<1>12. AllSound(copied, h) /\ NoneGrown(copied)
  BY <1>10, <1>11 DEF Stepped
<1>13. Parted(g, h, p)
  BY <1>7, <1>8, <1>11 DEF Joined, Parted
<1>14. 0 \in 0 .. copied[j].blocksize - 1
  <2>1. Good(copied[j], In(j, h))
    BY <1>1, <1>12 DEF AllSound, SlabSound
  <2>. QED
    BY <2>1 DEF Good, SizesFit
<1>15. y.err = "success" /\ Stepped(t, copied, j, g) /\ (NoneGrown(copied) => NoneGrown(t))
  <2>1. /\ y = DeallocateOutcome(copied[p[1]], p[2] + 0) /\ t = Replace(copied, p[1], y.m)
        /\ 0 \in 0 .. copied[p[1]].blocksize - 1
    BY <1>6, <1>7, <1>14
  <2>2. y.err = "success" /\ Stepped(t, copied, p[1], g) /\ (NoneGrown(copied) => NoneGrown(t))
    BY ONLY <1>12, <1>13, <2>1, ReturnedSound
  <2>. QED
    BY <2>2
<1>16. v.word[block] = content /\ SameWords(v, slabs[i], In(i, held))
  <2>1. v.word = [u.word EXCEPT ![block] = content] /\ block \in DOMAIN u.word
    BY <1>4, <1>5 DEF Good, Fields, Words
  <2>. QED
    BY <1>4, <1>8, <2>1 DEF SameWords
<1>17. SameContents(copied, slabs, DOMAIN held)
  <2>. DEFINE blocks == In(i, held)
              pointers == DOMAIN held
  <2>1. /\ SameWords(v, slabs[i], blocks) /\ pointers \subseteq DOMAIN held
        /\ \A q \in pointers : q[1] = i => q[2] \in blocks
    BY <1>16 DEF In
  <2>. HIDE DEF blocks, pointers
  <2>2. SameContents(copied, slabs, pointers)
    BY <1>7, <2>1, ReplaceKeeps
  <2>. QED
    BY <2>2 DEF pointers
<1>18. SameContents(t, copied, DOMAIN h \ {p})
  <2>. DEFINE blocks == In(j, h) \ {b}
              pointers == DOMAIN h \ {p}
  <2>1. Good(copied[j], In(j, h)) /\ b \in In(j, h) /\ p \in DOMAIN h /\ Pairs(h)
    BY <1>1, <1>7, <1>12 DEF AllSound, SlabSound, Joined, In
  <2>2. SameWords(y.m, copied[j], blocks)
    BY <1>7, <1>14, <2>1, DeallocateKeeps
  <2>3. \A q \in pointers : q[1] = j => q[2] \in blocks
    BY <2>1, OtherBlocks
  <2>4. pointers \subseteq DOMAIN h /\ t = Replace(copied, j, y.m)
    BY <1>6
  <2>. HIDE DEF blocks, pointers
  <2>5. SameContents(t, copied, pointers)
    BY <1>1, <1>12, <2>2, <2>3, <2>4, ReplaceKeeps
  <2>. QED
    BY <2>5 DEF pointers
<1>19. SameContents(t, slabs, DOMAIN held \ {p})
  <2>1. \A q \in DOMAIN held \ {p} : q \in DOMAIN h \ {p}
    BY <1>7 DEF Joined
  <2>. QED
    BY <1>17, <1>18, <2>1 DEF SameContents
<1>20. t[i].word[block] = content
  <2>. DEFINE q == <<i, block>>
  <2>1. q \in DOMAIN h \ {p} /\ q[1] = i /\ q[2] = block
    BY <1>7, <1>11 DEF Joined
  <2>2. t[q[1]].word[q[2]] = copied[q[1]].word[q[2]]
    BY <1>18, <2>1 DEF SameContents
  <2>. QED
    BY <1>11, <1>16, <2>1, <2>2
<1>. QED
  BY <1>11, <1>12, <1>15, <1>19, <1>20 DEF Stepped, content, block

LEMMA ByMovingInvariant ==
    ASSUME IInv, Running, NEW p \in Live, NEW request, RequestValid(request),
           request.memory = p[2], request.size = held[p],
           request.new_size \in Nat \ {0}, request.preferred \in Nat,
           ReallocateByMoving(p, request), refused' = Null, bought' = bought
    PROVE  IInv'
<1>. DEFINE wanted == MoveRequest(p, request)
<1>1. AllSound(slabs, held) /\ SlicesFit(held) /\ bought = Slab /\ NoneGrown(slabs) /\ ended = Null /\ p \in DOMAIN held
  BY RunningFacts DEF Live
<1>2. InPlace(p, request).err = "oom"
  BY DEF ReallocateByMoving
<1>3. wanted.leave_nonzeroed \in BOOLEAN /\ wanted.num_bytes = AtLeast(request.new_size, request.preferred)
  BY DEF MoveRequest
<1>4. PICK i \in Slab : \E o \in SlabOutcomes(i, wanted) :
        \/ /\ o.err # "success"
           /\ slabs' = Replace(slabs, i, o.m)
           /\ Fails(o.err)
           /\ held' = held
        \/ /\ o.err = "success" /\ slabs[i].blocksize < request.size
        \/ /\ o.err = "success" /\ slabs[i].blocksize >= request.size
           /\ slabs' = Moved(p, i, o)
           /\ held' = With(Without(p), <<i, o.block>>, slabs[i].blocksize)
           /\ ended' = ended
  BY DEF ReallocateByMoving
<1>. HIDE DEF wanted
<1>5. PICK o \in SlabOutcomes(i, wanted) :
        \/ /\ o.err # "success"
           /\ slabs' = Replace(slabs, i, o.m)
           /\ Fails(o.err)
           /\ held' = held
        \/ /\ o.err = "success" /\ slabs[i].blocksize < request.size
        \/ /\ o.err = "success" /\ slabs[i].blocksize >= request.size
           /\ slabs' = Moved(p, i, o)
           /\ held' = With(Without(p), <<i, o.block>>, slabs[i].blocksize)
           /\ ended' = ended
  BY <1>4
<1>6. /\ Alike(o.m, slabs[i])
      /\ (Granted(o, i, slabs, held) /\ Fits(i, wanted)) \/ Denied(o, i, slabs, held)
  BY <1>1, <1>3, OutcomeFacts
<1>7. CASE o.err # "success"
  <2>1. Denied(o, i, slabs, held)
    BY <1>6, <1>7 DEF Granted
  <2>2. slabs' = Replace(slabs, i, o.m) /\ Fails(o.err) /\ held' = held
    BY <1>5, <1>7
  <2>3. RefusedRightly'
    BY DEF RefusedRightly
  <2>. QED
    BY <1>6, <2>1, <2>2, <2>3, DeniedInvariant
<1>8. CASE o.err = "success"
  <2>1. Granted(o, i, slabs, held) /\ Fits(i, wanted)
    BY <1>6, <1>8 DEF Denied, Error
  <2>2. slabs[i].blocksize = MembersOf(i).blocksize /\ MembersOf(i).blocksize \in Nat \ {0}
    BY <1>1, Shapes, ShapeFacts DEF AllSound
  <2>3. ~(slabs[i].blocksize < request.size)
    <3>. DEFINE a == InPlace(p, request)
    <3>1. a = InPlace(p, request)
      OBVIOUS
    <3>. HIDE DEF a
    <3>2. /\ slabs[p[1]].blocksize \in Nat \ {0} /\ held[p] \in 1 .. slabs[p[1]].blocksize
          /\ a.err = "oom" => request.new_size > held[p]
      BY <1>1, <3>1, InPlaceFacts
    <3>3. request.new_size > held[p] /\ held[p] \in Nat
      BY <1>2, <3>1, <3>2
    <3>4. ~(wanted.num_bytes > slabs[i].blocksize)
      BY <2>1 DEF Fits, TooBig
    <3>. QED
      BY <1>3, <2>2, <3>3, <3>4 DEF AtLeast
  <2>4. /\ slabs' = Moved(p, i, o)
        /\ held' = With(Without(p), <<i, o.block>>, slabs[i].blocksize)
        /\ ended' = ended
    BY <1>5, <1>8, <2>3
  <2>5. /\ DOMAIN held' = (DOMAIN held \ {p}) \cup {<<i, o.block>>}
        /\ held'[<<i, o.block>>] = slabs[i].blocksize
        /\ \A q \in DOMAIN held \ {p, <<i, o.block>>} : held'[q] = held[q]
    BY <2>4 DEF With, Without, Live
  <2>6. AllSound(slabs', held') /\ NoneGrown(slabs')
    <3>. DEFINE t == slabs'
                g == held'
    <3>1. t = Moved(p, i, o) /\ DOMAIN g = (DOMAIN held \ {p}) \cup {<<i, o.block>>}
      BY <2>4, <2>5
    <3>2. SameWords(o.m, slabs[i], In(i, held))
      BY <1>1, <1>3, OutcomeKeeps
    <3>. HIDE DEF t, g
    <3>3. AllSound(t, g) /\ NoneGrown(t)
      BY ONLY <1>1, <1>6, <2>1, <3>1, <3>2, i \in Slab, MovedSound
    <3>. QED
      BY <3>3 DEF t, g
  <2>7. SlicesFit(held')
    <3>1. <<i, o.block>>[1] = i
      OBVIOUS
    <3>. QED
      BY <1>1, <2>2, <2>5, <3>1 DEF SlicesFit
  <2>. QED
    BY <1>1, <2>4, <2>6, <2>7, GoesOn
<1>. QED
  BY <1>7, <1>8

LEMMA ReallocateInvariant ==
    ASSUME IInv, NEW p \in Live, NEW new_size \in Sizes, NEW preferred \in 0 .. MaxRequest,
           NEW leave \in BOOLEAN, NEW in_place \in BOOLEAN,
           Reallocate(p, new_size, preferred, leave, in_place)
    PROVE  IInv'
<1>. DEFINE request == [memory |-> p[2], size |-> held[p], new_size |-> new_size,
                        preferred |-> preferred, leave_nonzeroed |-> leave, in_place |-> in_place]
<1>1. /\ Running /\ RequestValid(request) /\ refused' = Null /\ bought' = bought
      /\ ReallocateInPlace(p, request) \/ ReallocateByMoving(p, request)
  BY DEF Reallocate
<1>2. /\ request.memory = p[2] /\ request.size = held[p]
      /\ request.new_size \in Nat \ {0} /\ request.preferred \in Nat
  BY SlabAssumption DEF Sizes
<1>. HIDE DEF request
<1>3. CASE ReallocateInPlace(p, request)
  BY <1>1, <1>2, <1>3, InPlaceInvariant
<1>4. CASE ReallocateByMoving(p, request)
  BY <1>1, <1>2, <1>4, ByMovingInvariant
<1>. QED
  BY <1>1, <1>3, <1>4

LEMMA ClearInvariant ==
    ASSUME IInv, Clear
    PROVE  IInv'
<1>1. /\ Running /\ slabs' = [i \in Slab |-> Cleared(slabs[i])]
      /\ held' = << >> /\ refused' = Null /\ bought' = bought /\ ended' = ended
  BY DEF Clear
<1>2. AllSound(slabs, held) /\ bought = Slab /\ NoneGrown(slabs) /\ ended = Null
  BY <1>1, RunningFacts
<1>3. DOMAIN held' = {} /\ \A i \in Slab : In(i, held') = {}
  BY <1>1 DEF In
<1>4. ASSUME NEW i \in Slab
      PROVE  SlabSound(i, slabs', held') /\ DOMAIN slabs'[i].word = Starts(slabs'[i])
  <2>. DEFINE a == slabs[i]
              u == Cleared(a)
  <2>1. slabs'[i] = u /\ u = Cleared(a)
    BY <1>1
  <2>2. Good(a, In(i, held)) /\ Alike(a, MembersOf(i)) /\ DOMAIN a.word = Starts(a)
    BY <1>2 DEF AllSound, SlabSound, NoneGrown
  <2>. HIDE DEF a, u
  <2>3. Good(u, {}) /\ Alike(u, a) /\ DOMAIN u.word = DOMAIN a.word
    BY <2>1, <2>2, ClearedGood
  <2>4. Starts(u) = Starts(a)
    BY <2>3, RewrittenStarts
  <2>. QED
    BY <1>3, <2>1, <2>2, <2>3, <2>4 DEF SlabSound, Alike
<1>5. AllSound(slabs', held') /\ NoneGrown(slabs') /\ SlicesFit(held')
  BY <1>1, <1>3, <1>4 DEF AllSound, Pairs, NoneGrown, SlicesFit
<1>. QED
  BY <1>1, <1>2, <1>5, GoesOn

LEMMA WriteInvariant ==
    ASSUME IInv, NEW p \in Live, Write(p)
    PROVE  IInv'
<1>. DEFINE j == p[1]
            a == slabs[j]
            u == [a EXCEPT !.word[p[2]] = Data]
            block == p[2]
            t == slabs'
<1>1. /\ Running /\ slabs' = Replace(slabs, j, u)
      /\ held' = held /\ refused' = Null /\ bought' = bought /\ ended' = ended
  BY DEF Write
<1>2. /\ AllSound(slabs, held) /\ SlicesFit(held) /\ bought = Slab /\ NoneGrown(slabs) /\ ended = Null
      /\ p \in DOMAIN held
  BY <1>1, RunningFacts DEF Live
<1>3. j \in Slab /\ block \in In(j, held)
  BY <1>2, InFacts DEF AllSound, Pairs
<1>4. Good(a, In(j, held)) /\ Data \in {Zero, Data} /\ u = [a EXCEPT !.word[block] = Data]
      /\ t = Replace(slabs, j, u) /\ Pairs(held)
  BY <1>1, <1>2, <1>3 DEF AllSound, SlabSound
<1>5. a = slabs[j]
  OBVIOUS
<1>. HIDE DEF j, a, u, block, t
<1>6. Good(u, In(j, held)) /\ Alike(u, a) /\ DOMAIN u.word = DOMAIN a.word
  BY ONLY <1>3, <1>4, WrittenGood
<1>7. Stepped(t, slabs, j, held) /\ t[j] = u
  BY ONLY <1>2, <1>3, <1>4, <1>5, <1>6, ReplaceSound
<1>8. AllSound(slabs', held') /\ NoneGrown(slabs')
  BY <1>1, <1>2, <1>5, <1>6, <1>7 DEF Stepped, t
<1>. QED
  BY <1>1, <1>2, <1>8, GoesOn

LEMMA DestroyInvariant ==
    ASSUME IInv, Destroy
    PROVE  IInv'
<1>1. /\ Running /\ slabs' = [i \in Slab |-> Absent] /\ bought' = {}
      /\ held' = << >> /\ refused' = Null /\ ended' = ended
  BY DEF Destroy
<1>2. DOMAIN << >> = {}
  OBVIOUS
<1>. QED
  BY <1>1, <1>2, RunningFacts, NullIsNoRequest DEF IInv, Live

-----------------------------------------------------------------------------

(***************************************************************************)
(* Every slab's free list, the blocks in use and the lengths of the slices *)
(* stay in step through every call, also when one slab passes a request on *)
(* to the next and when a block moves from one slab to another.            *)
(***************************************************************************)
THEOREM Inductive == Spec => []IInv
<1>1. Init => IInv
  BY InitInvariant
<1>2. IInv /\ [Next]_vars => IInv'
  <2>. SUFFICES ASSUME IInv, [Next]_vars PROVE IInv'
    OBVIOUS
  <2>1. CASE Construct
    BY <2>1, ConstructInvariant
  <2>2. ASSUME NEW n \in Slab, ConstructFails(n) PROVE IInv'
    BY <2>2, ConstructFailsInvariant
  <2>3. ASSUME NEW request \in Request, Allocate(request) PROVE IInv'
    BY <2>3, AllocateInvariant
  <2>4. ASSUME NEW p \in Live, NEW offset \in 0 .. MaxRequest, Deallocate(p, offset) PROVE IInv'
    BY <2>4, DeallocateInvariant
  <2>5. ASSUME NEW p \in Live, NEW new_size \in Sizes, NEW preferred \in 0 .. MaxRequest,
               NEW leave \in BOOLEAN, NEW in_place \in BOOLEAN,
               Reallocate(p, new_size, preferred, leave, in_place)
        PROVE  IInv'
    BY <2>5, ReallocateInvariant
  <2>6. ASSUME NEW p \in Live, Write(p) PROVE IInv'
    BY <2>6, WriteInvariant
  <2>7. CASE Clear
    BY <2>7, ClearInvariant
  <2>8. CASE Destroy
    BY <2>8, DestroyInvariant
  <2>9. CASE UNCHANGED vars
    BY <2>9 DEF vars, IInv, Live, AllSound, SlabSound, SlicesFit, NoneGrown, RefusedRightly
  <2>. QED
    BY <2>1, <2>2, <2>3, <2>4, <2>5, <2>6, <2>7, <2>8, <2>9 DEF Next
<1>. QED
  BY <1>1, <1>2, PTL DEF Spec

(***************************************************************************)
(* FreeListsExact: every slab's free list visits exactly the blocks of its *)
(* own buffer that the program does not hold, whatever moved between the   *)
(* slabs, and buffers are held exactly while there is an allocator.        *)
(***************************************************************************)
THEOREM FreeListsExactCorrect == Spec => []FreeListsExact
<1>1. IInv => FreeListsExact
  <2>. SUFFICES ASSUME IInv PROVE FreeListsExact
    OBVIOUS
  <2>1. ended \in Abort \cup {"memcopy", Null}
    BY DEF IInv, Endings, Abort
  <2>2. CASE slabs = [i \in Slab |-> Absent] /\ Live = {} /\ bought = {} /\ refused = Null
    <3>1. ~Constructed
      BY <2>2, SomeSlab DEF Constructed
    <3>. QED
      BY <2>1, <2>2, <3>1 DEF FreeListsExact, TypeOK, Running
  <2>3. CASE AllSound(slabs, held) /\ SlicesFit(held) /\ bought = Slab /\ (ended = Null => NoneGrown(slabs))
    <3>1. Constructed
      BY <2>3, SlabsPresent DEF Constructed
    <3>2. ASSUME NEW i \in Slab
          PROVE  LiveIn(i) = In(i, held) /\ Good(slabs[i], LiveIn(i)) /\ slabs[i].blocksize = MembersOf(i).blocksize
      BY <2>3 DEF AllSound, SlabSound, Alike, LiveIn, In, Live
    <3>3. \A i \in Slab : LiveIn(i) \subseteq Starts(slabs[i])
      BY <3>2 DEF Good
    <3>4. Running => \A i \in Slab : slabs[i].head \in Starts(slabs[i]) \cup {Null}
      BY <2>3, <3>2 DEF Running, NoneGrown, Good, Chain
    <3>5. \A p \in Live : held[p] \in 1 .. slabs[p[1]].blocksize
      BY <2>3, <3>2 DEF SlicesFit, Live, AllSound, Pairs
    <3>6. \A i \in Slab : ListsExactly(slabs[i], Starts(slabs[i]) \ LiveIn(i))
      BY <3>2 DEF ListsExactly, Good, Chain, FreeBlocks
    <3>. QED
      BY <2>1, <2>3, <3>1, <3>3, <3>4, <3>5, <3>6 DEF FreeListsExact, TypeOK
  <2>. QED
    BY <2>2, <2>3 DEF IInv
<1>. QED
  BY <1>1, Inductive, PTL

(***************************************************************************)
(* AssertionsHold: with at least two blocks in each slab, only a call that *)
(* finds a grown buffer, or one that shrinks a slice and asks for zeros    *)
(* behind it, can end the program.                                         *)
(***************************************************************************)
THEOREM AssertionsHoldCorrect ==
    ASSUME Spots > 1
    PROVE  Spec => []AssertionsHold
<1>1. \A i \in Slab : GrowRequestValid(MembersOf(i))
  <2>. SUFFICES ASSUME NEW i \in Slab PROVE GrowRequestValid(MembersOf(i))
    OBVIOUS
  <2>. DEFINE n == Spots
              bs == MembersOf(i).blocksize
              size == MembersOf(i).size
  <2>1. n \in Nat /\ n > 1 /\ bs \in Nat \ {0} /\ size = n * bs
    BY Shapes, SlabAssumption
  <2>. HIDE DEF n, bs, size
  <2>2. n * bs = 2 * bs + (n - 2) * bs /\ (n - 2) * bs \in Nat /\ n * bs \in Nat
    BY <2>1
  <2>3. size * 2 > size + bs
    BY <2>1, <2>2
  <2>. QED
    BY <2>3 DEF GrowRequestValid, size, bs
<1>2. IInv => AssertionsHold
  BY <1>1, BlocksAssumption DEF IInv, AssertionsHold, Endings
<1>. QED
  BY <1>2, Inductive, PTL

(***************************************************************************)
(* RefusedOnlyWhenFull: when a call is refused with oom, every slab whose  *)
(* blocks are large enough has been asked, and none has a block left. With *)
(* another error this holds of the slabs up to one of them, whatever the   *)
(* allocators behind the slabs have answered before.                       *)
(***************************************************************************)
THEOREM RefusedOnlyWhenFullCorrect == Spec => []RefusedOnlyWhenFull
<1>1. IInv => RefusedOnlyWhenFull
  <2>. SUFFICES ASSUME IInv, refused # Null, Running
                PROVE  RefusedOnlyWhenFull
    BY DEF RefusedOnlyWhenFull
  <2>1. AllSound(slabs, held) /\ ended = Null /\ RefusedRightly
    BY RunningFacts
  <2>2. Denial(refused, refused.err, slabs)
    BY <2>1 DEF RefusedRightly
  <2>3. \A i \in Slab : Fits(i, refused) <=> ~TooBig(MembersOf(i), refused)
    BY <2>1, ShapeFacts DEF AllSound, Fits
  <2>4. ASSUME NEW i \in Slab, NoneLeft(i, refused, slabs)
        PROVE  ExhaustedUpTo(i)
    <3>1. 1 .. i \subseteq Slab
      BY SlabAssumption DEF Slab
    <3>. QED
      BY <2>3, <2>4, <3>1 DEF NoneLeft, ExhaustedUpTo
  <2>5. Len(Blocksizes) \in Slab
    BY SlabAssumption DEF Slab
  <2>. QED
    BY <2>2, <2>3, <2>4, <2>5 DEF Denial, RefusedOnlyWhenFull
<1>. QED
  BY <1>1, Inductive, PTL

-----------------------------------------------------------------------------
(* The refinement of Memory.                                               *)

PiecesSound ==
    /\ Apart(Piece)
    /\ \A p \in Live : Piece[p] \in Regions

LEMMA PiecesApart == IInv => PiecesSound
<1>. SUFFICES ASSUME IInv PROVE PiecesSound
  OBVIOUS
<1>1. DOMAIN Piece = Live /\ \A p \in Live : Piece[p] = {p[1]} \X (p[2] .. p[2] + held[p] - 1)
  BY DEF Piece
<1>2. CASE Live = {}
  BY <1>1, <1>2 DEF PiecesSound, Apart
<1>3. CASE Live # {}
  <2>1. AllSound(slabs, held) /\ SlicesFit(held)
    BY <1>3 DEF IInv
  <2>2. ASSUME NEW p \in Live
        PROVE  /\ p[1] \in Slab /\ p = <<p[1], p[2]>> /\ p[2] \in Starts(MembersOf(p[1]))
               /\ SizesFit(MembersOf(p[1])) /\ held[p] \in 1 .. MembersOf(p[1]).blocksize
    <3>1. p[1] \in Slab /\ p = <<p[1], p[2]>> /\ p[2] \in In(p[1], held)
      BY <2>1, InFacts DEF Live, AllSound, Pairs
    <3>2. SlabSound(p[1], slabs, held)
      BY <2>1, <3>1 DEF AllSound
    <3>3. p[2] \in Starts(slabs[p[1]]) /\ Starts(slabs[p[1]]) = Starts(MembersOf(p[1]))
      BY <3>1, <3>2, ShapeFacts DEF SlabSound, Good
    <3>4. SizesFit(MembersOf(p[1]))
      BY <3>1, Shapes DEF Good
    <3>. QED
      BY <2>1, <3>1, <3>3, <3>4 DEF SlicesFit, Live
  <2>3. ASSUME NEW p \in Live
        PROVE  p[2] .. p[2] + held[p] - 1 \in Intervals(MembersOf(p[1]).size)
    BY <2>2, SliceInside
  <2>4. \A p \in Live : Piece[p] # {}
    <3>. TAKE p \in Live
    <3>1. PICK x \in p[2] .. p[2] + held[p] - 1 : TRUE
      BY <2>3 DEF Intervals
    <3>2. <<p[1], x>> \in Piece[p]
      BY <1>1
    <3>. QED
      BY <3>2
  <2>5. ASSUME NEW p \in Live, NEW q \in Live, p # q PROVE Piece[p] \cap Piece[q] = {}
    <3>1. CASE p[1] # q[1]
      BY <1>1, <3>1
    <3>2. CASE p[1] = q[1]
      <4>1. p[2] # q[2]
        BY <2>2, <2>5, <3>2
      <4>. DEFINE mem == MembersOf(p[1])
      <4>2. /\ SizesFit(mem) /\ p[2] \in Starts(mem) /\ q[2] \in Starts(mem)
            /\ held[p] \in 1 .. mem.blocksize /\ held[q] \in 1 .. mem.blocksize
        BY <2>2, <3>2
      <4>. HIDE DEF mem
      <4>3. (p[2] .. p[2] + held[p] - 1) \cap (q[2] .. q[2] + held[q] - 1) = {}
        BY <4>1, <4>2, SlicesApart
      <4>. QED
        BY <1>1, <4>3
    <3>. QED
      BY <3>1, <3>2
  <2>6. Apart(Piece)
    BY <1>1, <2>4, <2>5 DEF Apart
  <2>7. ASSUME NEW p \in Live PROVE Piece[p] \in Regions
    <3>. DEFINE slices == Intervals(MembersOf(p[1]).size)
                slice == p[2] .. p[2] + held[p] - 1
    <3>1. slice \in slices /\ p[1] \in Slab
      BY <2>2, <2>3
    <3>2. Piece[p] = {p[1]} \X slice
      BY <1>1
    <3>3. Regions = UNION {{{i} \X r : r \in Intervals(MembersOf(i).size)} : i \in Slab}
      BY DEF Regions
    <3>. HIDE DEF slice
    <3>4. {p[1]} \X slice \in {{p[1]} \X r : r \in slices}
      BY <3>1
    <3>5. {{p[1]} \X r : r \in slices} \in {{{i} \X r : r \in Intervals(MembersOf(i).size)} : i \in Slab}
      BY <3>1
    <3>. QED
      BY <3>2, <3>3, <3>4, <3>5
  <2>. QED
    BY <2>6, <2>7 DEF PiecesSound
<1>. QED
  BY <1>2, <1>3

LEMMA PiecesApartAfter == IInv' => PiecesSound'
BY PiecesApart, PTL

(* The pieces that keep their slices and words keep all that Memory sees. *)
LEMMA KeptPieces ==
    ASSUME NEW blocks, blocks \subseteq Live, blocks \subseteq Live',
           \A p \in blocks : held'[p] = held[p], SameContents(slabs', slabs, blocks)
    PROVE  Kept(blocks, Piece, Content, Piece', Content')
<1>1. \A p \in blocks : p \in Live /\ p \in Live' /\ slabs'[p[1]].word[p[2]] = slabs[p[1]].word[p[2]]
  BY DEF SameContents
<1>2. \A p \in blocks : /\ Piece'[p] = {p[1]} \X (p[2] .. p[2] + held'[p] - 1)
                        /\ Content'[p] = slabs'[p[1]].word[p[2]]
  BY <1>1 DEF Piece, Content
<1>3. \A p \in blocks : /\ Piece[p] = {p[1]} \X (p[2] .. p[2] + held[p] - 1)
                        /\ Content[p] = slabs[p[1]].word[p[2]]
  BY <1>1 DEF Piece, Content
<1>4. \A p \in blocks : Piece'[p] = Piece[p]
  BY <1>2, <1>3
<1>. QED
  BY <1>1, <1>2, <1>3, <1>4 DEF Kept

LEMMA PieceDomains == /\ DOMAIN Piece = Live /\ DOMAIN Content = Live
                      /\ DOMAIN Piece' = Live' /\ DOMAIN Content' = Live'
BY DEF Piece, Content

(* A step that leaves the slices and words of the blocks in use alone.     *)
LEMMA StutterRefines ==
    ASSUME IInv, held' = held, SameContents(slabs', slabs, Live)
    PROVE  HeldPieces' = HeldPieces
<1>. DEFINE piece == Piece'
            content == Content'
<1>1. Live' = Live
  BY DEF Live
<1>2. Kept(Live, Piece, Content, piece, content)
  BY <1>1, KeptPieces
<1>3. DOMAIN Piece = Live /\ DOMAIN piece = Live /\ Apart(Piece)
  BY <1>1, PieceDomains, PiecesApart DEF PiecesSound
<1>. HIDE DEF piece, content
<1>4. Held(piece, content) = Held(Piece, Content)
  BY <1>2, <1>3, HeldSame
<1>. QED
  BY <1>4 DEF HeldPieces, piece, content

LEMMA NoneRefines ==
    ASSUME Live' = {}
    PROVE  Abstract!Clear
<1>1. DOMAIN HeldPieces' = {} /\ HeldPieces' = [r \in DOMAIN HeldPieces' |-> HeldPieces'[r]]
  BY DEF HeldPieces, Held, Piece
<1>2. HeldPieces' = << >>
  BY <1>1
<1>. QED
  BY <1>2 DEF Abstract!Clear

LEMMA AllocateRefines ==
    ASSUME IInv, IInv', NEW p, p \notin Live, Live' = Live \cup {p},
           \A q \in Live : held'[q] = held[q], SameContents(slabs', slabs, Live),
           slabs'[p[1]].word[p[2]] \in {Zero, Data}
    PROVE  Abstract!Next
<1>. DEFINE piece == Piece'
            content == Content'
            h == HeldPieces
            r == piece[p]
<1>1. Kept(Live, Piece, Content, piece, content)
  BY KeptPieces
<1>2. DOMAIN Piece = Live /\ DOMAIN piece = Live \cup {p}
  BY PieceDomains
<1>3. Apart(piece) /\ content[p] \in {Zero, Data} /\ r \in Regions
  <2>1. Apart(piece) /\ r \in Regions
    BY PiecesApartAfter DEF PiecesSound
  <2>2. content[p] = slabs'[p[1]].word[p[2]]
    BY DEF Content
  <2>. QED
    BY <2>1, <2>2
<1>4. h = Held(Piece, Content) /\ HeldPieces' = Held(piece, content)
  BY DEF HeldPieces
<1>. HIDE DEF piece, content, h
<1>5. /\ \A q \in DOMAIN h : q \cap piece[p] = {}
      /\ Held(piece, content) = Joining(piece[p], content[p], h)
  BY <1>1, <1>2, <1>3, <1>4, HeldMore
<1>. HIDE DEF r
<1>6. /\ \A q \in DOMAIN h : q \cap r = {}
      /\ HeldPieces' = [q \in DOMAIN h \cup {r} |-> IF q = r THEN content[p] ELSE h[q]]
  BY <1>4, <1>5 DEF r, Joining
<1>7. Abstract!Allocate(r)
  BY <1>3, <1>6 DEF h, Abstract!Allocate, Abstract!Disjoint, Abstract!With
<1>. QED
  BY <1>3, <1>7 DEF Abstract!Next

LEMMA DeallocateRefines ==
    ASSUME IInv, NEW p \in Live, Live' = Live \ {p},
           \A q \in Live' : held'[q] = held[q], SameContents(slabs', slabs, Live')
    PROVE  Abstract!Next
<1>. DEFINE piece == Piece'
            content == Content'
            h == HeldPieces
            r == Piece[p]
<1>1. DOMAIN Piece = Live /\ DOMAIN piece = Live \ {p} /\ Apart(Piece)
  BY PieceDomains, PiecesApart DEF PiecesSound
<1>2. Kept(DOMAIN piece, Piece, Content, piece, content)
  <2>1. Live' \subseteq Live /\ DOMAIN piece = Live'
    BY <1>1
  <2>2. Kept(Live', Piece, Content, Piece', Content')
    BY <2>1, KeptPieces
  <2>. QED
    BY <2>1, <2>2
<1>3. h = Held(Piece, Content) /\ HeldPieces' = Held(piece, content)
  BY DEF HeldPieces
<1>. HIDE DEF piece, content, h
<1>4. r \in DOMAIN h /\ Held(piece, content) = Leaving(r, h)
  BY <1>1, <1>2, <1>3, HeldLess
<1>. HIDE DEF r
<1>5. Abstract!Deallocate(r)
  BY <1>3, <1>4 DEF h, Leaving, Abstract!Deallocate, Abstract!Without
<1>. QED
  BY <1>4, <1>5 DEF h, Abstract!Next

(* The piece at p gets another length (q = p) or moves to q.               *)
LEMMA ReallocateRefines ==
    ASSUME IInv, IInv', NEW p \in Live, NEW q, q = p \/ q \notin Live, Live' = (Live \ {p}) \cup {q},
           \A b \in Live \ {p} : held'[b] = held[b], SameContents(slabs', slabs, Live \ {p}),
           slabs'[q[1]].word[q[2]] = slabs[p[1]].word[p[2]]
    PROVE  Abstract!Next
<1>. DEFINE piece == Piece'
            content == Content'
            h == HeldPieces
            r == Piece[p]
            s == piece[q]
            others == Live \ {p}
<1>1. Kept(others, Piece, Content, piece, content)
  <2>1. others \subseteq Live /\ others \subseteq Live' /\ \A b \in others : held'[b] = held[b]
    OBVIOUS
  <2>2. SameContents(slabs', slabs, others)
    OBVIOUS
  <2>. HIDE DEF others
  <2>. QED
    BY <2>1, <2>2, KeptPieces
<1>2. DOMAIN Piece = Live /\ DOMAIN piece = (Live \ {p}) \cup {q} /\ q \in Live'
  BY PieceDomains
<1>3. Apart(Piece) /\ Apart(piece) /\ s \in Regions
  BY <1>2, PiecesApart, PiecesApartAfter DEF PiecesSound
<1>4. content[q] = Content[p]
  BY <1>2 DEF Content
<1>5. h = Held(Piece, Content) /\ HeldPieces' = Held(piece, content)
  BY DEF HeldPieces
<1>. HIDE DEF piece, content, h
<1>6. /\ Piece[p] \in DOMAIN h
      /\ \A b \in DOMAIN h \ {Piece[p]} : b \cap piece[q] = {}
      /\ Held(piece, content) = Joining(piece[q], h[Piece[p]], Leaving(Piece[p], h))
  <2>1. p \in DOMAIN Piece /\ DOMAIN piece = (DOMAIN Piece \ {p}) \cup {q} /\ (q = p \/ q \notin DOMAIN Piece)
    BY <1>2
  <2>2. Kept(DOMAIN Piece \ {p}, Piece, Content, piece, content)
    BY <1>1, <1>2
  <2>. QED
    BY ONLY <1>3, <1>4, <1>5, <2>1, <2>2, HeldMoved
<1>7. r \in DOMAIN h /\ HeldPieces' = Joining(s, h[r], Leaving(r, h)) /\ \A b \in DOMAIN h \ {r} : b \cap s = {}
  BY <1>5, <1>6
<1>. HIDE DEF r, s
<1>8. Abstract!Reallocate(r, s)
  BY <1>7 DEF h, Joining, Leaving, Abstract!Reallocate, Abstract!Disjoint, Abstract!With, Abstract!Without
<1>. QED
  BY <1>3, <1>7, <1>8 DEF h, Abstract!Next

LEMMA WriteRefines ==
    ASSUME IInv, NEW p \in Live, held' = held, slabs'[p[1]].word[p[2]] = Data,
           SameContents(slabs', slabs, Live \ {p})
    PROVE  Abstract!Next
<1>. DEFINE piece == Piece'
            content == Content'
            h == HeldPieces
            r == Piece[p]
            others == Live \ {p}
<1>0. Live' = Live
  BY DEF Live
<1>1. Kept(others, Piece, Content, piece, content)
  <2>1. others \subseteq Live /\ others \subseteq Live' /\ \A b \in others : held'[b] = held[b]
    BY <1>0
  <2>2. SameContents(slabs', slabs, others)
    OBVIOUS
  <2>. HIDE DEF others
  <2>. QED
    BY <2>1, <2>2, KeptPieces
<1>2. DOMAIN Piece = Live /\ DOMAIN piece = Live /\ Apart(Piece)
  BY <1>0, PieceDomains, PiecesApart DEF PiecesSound
<1>3. piece[p] = Piece[p] /\ content[p] = Data
  BY <1>0 DEF Piece, Content
<1>4. h = Held(Piece, Content) /\ HeldPieces' = Held(piece, content)
  BY DEF HeldPieces
<1>. HIDE DEF piece, content, h
<1>5. Kept(DOMAIN Piece \ {p}, Piece, Content, piece, content)
  BY <1>1, <1>2
<1>6. /\ Piece[p] \in DOMAIN h
      /\ Held(piece, content) = [h EXCEPT ![Piece[p]] = content[p]]
  BY <1>2, <1>3, <1>4, <1>5, HeldWritten
<1>. HIDE DEF r
<1>7. r \in DOMAIN h /\ HeldPieces' = [h EXCEPT ![r] = Data]
  BY <1>3, <1>4, <1>6 DEF r
<1>8. Abstract!Write(r, Data)
  BY <1>7 DEF h, Abstract!Write
<1>. QED
  BY <1>7, <1>8 DEF h, Abstract!Next

-----------------------------------------------------------------------------
(* What every step does to the contents and to the blocks in use.          *)

LEMMA DeniedRefines ==
    ASSUME IInv, Running, NEW i \in Slab, NEW request, request.leave_nonzeroed \in BOOLEAN,
           NEW o \in SlabOutcomes(i, request),
           slabs' = Replace(slabs, i, o.m), held' = held
    PROVE  HeldPieces' = HeldPieces
<1>. DEFINE u == o.m
            blocks == In(i, held)
            pointers == Live
            t == slabs'
<1>1. AllSound(slabs, held)
  BY RunningFacts
<1>2. SameWords(u, slabs[i], blocks)
  BY <1>1, OutcomeKeeps
<1>3. /\ pointers \subseteq DOMAIN held /\ t = Replace(slabs, i, u)
      /\ \A p \in pointers : p[1] = i => p[2] \in blocks
  BY DEF Live, In
<1>4. SameContents(t, slabs, pointers)
  <2>. HIDE DEF u, blocks, pointers, t
  <2>. QED
    BY <1>1, <1>2, <1>3, ReplaceKeeps
<1>. QED
  BY <1>4, StutterRefines

LEMMA GrantedRefines ==
    ASSUME IInv, IInv', Running, NEW i \in Slab, NEW request, request.leave_nonzeroed \in BOOLEAN,
           NEW o \in SlabOutcomes(i, request), o.err = "success",
           slabs' = Replace(slabs, i, o.m), held' = With(held, <<i, o.block>>, slabs[i].blocksize)
    PROVE  Abstract!Next
<1>. DEFINE u == o.m
            p == <<i, o.block>>
            blocks == In(i, held)
            pointers == Live
            t == slabs'
<1>1. AllSound(slabs, held)
  BY RunningFacts
<1>2. Granted(o, i, slabs, held)
  BY <1>1, OutcomeFacts DEF Denied, Error
<1>3. SameWords(u, slabs[i], blocks)
  BY <1>1, OutcomeKeeps
<1>4. /\ pointers \subseteq DOMAIN held /\ t = Replace(slabs, i, u)
      /\ \A q \in pointers : q[1] = i => q[2] \in blocks
  BY DEF Live, In
<1>5. SameContents(t, slabs, pointers)
  <2>. HIDE DEF u, blocks, pointers, t
  <2>. QED
    BY <1>1, <1>3, <1>4, ReplaceKeeps
<1>6. p \notin Live /\ p[1] = i /\ p[2] = o.block
  BY <1>1, <1>2, InFacts DEF Granted, AllSound, Live
<1>7. Live' = Live \cup {p} /\ \A q \in Live : held'[q] = held[q]
  BY <1>6 DEF With, Live
<1>8. slabs'[p[1]].word[p[2]] \in {Zero, Data}
  <2>1. slabs'[i] = o.m
    BY <1>1 DEF Replace, AllSound
  <2>2. o.m.word[o.block] \in {Zero, Data}
    BY <1>2 DEF Granted, Good
  <2>. QED
    BY <1>6, <2>1, <2>2
<1>. HIDE DEF p, t
<1>. QED
  BY <1>5, <1>6, <1>7, <1>8, AllocateRefines DEF t

LEMMA AllocateStep ==
    ASSUME IInv, IInv', NEW request \in Request, Allocate(request)
    PROVE  [Abstract!Next]_HeldPieces
<1>1. Running /\ request.leave_nonzeroed \in BOOLEAN
  BY DEF Allocate, Request
<1>2. PICK i \in Slab : \E o \in SlabOutcomes(i, request) :
        /\ slabs' = Replace(slabs, i, o.m)
        /\ \/ o.err = "success" /\ held' = With(held, <<i, o.block>>, slabs[i].blocksize)
           \/ held' = held
  BY DEF Allocate
<1>3. PICK o \in SlabOutcomes(i, request) :
        /\ slabs' = Replace(slabs, i, o.m)
        /\ \/ o.err = "success" /\ held' = With(held, <<i, o.block>>, slabs[i].blocksize)
           \/ held' = held
  BY <1>2
<1>4. CASE held' = held
  BY <1>1, <1>3, <1>4, DeniedRefines
<1>5. CASE o.err = "success" /\ held' = With(held, <<i, o.block>>, slabs[i].blocksize)
  BY <1>1, <1>3, <1>5, GrantedRefines
<1>. QED
  BY <1>3, <1>4, <1>5

LEMMA DeallocateStep ==
    ASSUME IInv, NEW p \in Live, NEW offset \in 0 .. MaxRequest, Deallocate(p, offset)
    PROVE  Abstract!Next
<1>. DEFINE j == p[1]
            b == p[2]
            o == DeallocateOutcome(slabs[p[1]], p[2] + offset)
            u == o.m
            g == Without(p)
            t == Replace(slabs, p[1], o.m)
            blocks == In(j, held) \ {b}
            pointers == Live \ {p}
<1>1. /\ Running /\ offset < slabs[p[1]].blocksize /\ slabs' = t
      /\ (o.err = "success" /\ held' = Without(p)) \/ o.err # "success"
  BY DEF Deallocate
<1>2. /\ AllSound(slabs, held) /\ Pairs(held) /\ p \in DOMAIN held
      /\ DOMAIN Without(p) = DOMAIN held \ {p} /\ \A q \in DOMAIN held \ {p} : Without(p)[q] = held[q]
  BY <1>1, RunningFacts DEF Live, Without, AllSound
<1>3. j \in Slab /\ b \in In(j, held) /\ Good(slabs[j], In(j, held))
  BY <1>2, InFacts DEF AllSound, SlabSound, Pairs
<1>4. offset \in 0 .. slabs[p[1]].blocksize - 1
  BY <1>1, <1>3 DEF Good, SizesFit
<1>5. /\ Parted(g, held, p) /\ o = DeallocateOutcome(slabs[p[1]], p[2] + offset)
      /\ t = Replace(slabs, p[1], o.m)
  BY <1>2 DEF Parted
<1>6. SameWords(u, slabs[j], blocks)
  BY <1>3, <1>4, DeallocateKeeps
<1>7. pointers \subseteq DOMAIN held /\ \A q \in pointers : q[1] = j => q[2] \in blocks
  BY <1>2, OtherBlocks DEF Live
<1>8. o.err = "success"
  <2>. HIDE DEF o, g, t
  <2>. QED
    BY ONLY <1>2, <1>4, <1>5, ReturnedSound
<1>9. SameContents(t, slabs, pointers)
  <2>1. t = Replace(slabs, j, u)
    OBVIOUS
  <2>. HIDE DEF u, t, blocks, pointers, j
  <2>. QED
    BY <1>2, <1>3, <1>6, <1>7, <2>1, ReplaceKeeps
<1>10. Live' = Live \ {p} /\ \A q \in Live' : held'[q] = held[q]
  BY <1>1, <1>2, <1>8 DEF Live
<1>11. SameContents(slabs', slabs, Live')
  BY <1>1, <1>9, <1>10
<1>. QED
  BY <1>10, <1>11, DeallocateRefines

LEMMA InPlaceStep ==
    ASSUME IInv, IInv', NEW p \in Live, NEW request, ReallocateInPlace(p, request)
    PROVE  [Abstract!Next]_HeldPieces
<1>1. slabs' = slabs /\ (held' = held \/ \E size : held' = [held EXCEPT ![p] = size])
  BY DEF ReallocateInPlace
<1>2. \A pointers : SameContents(slabs', slabs, pointers)
  BY <1>1 DEF SameContents
<1>3. CASE held' = held
  BY <1>2, <1>3, StutterRefines
<1>4. CASE \E size : held' = [held EXCEPT ![p] = size]
  <2>1. Live' = (Live \ {p}) \cup {p} /\ \A q \in Live \ {p} : held'[q] = held[q]
    BY <1>4 DEF Live
  <2>2. slabs'[p[1]].word[p[2]] = slabs[p[1]].word[p[2]]
    BY <1>1
  <2>. QED
    BY <1>2, <2>1, <2>2, ReallocateRefines
<1>. QED
  BY <1>1, <1>3, <1>4

LEMMA ByMovingStep ==
    ASSUME IInv, IInv', Running, NEW p \in Live, NEW request, ReallocateByMoving(p, request)
    PROVE  [Abstract!Next]_HeldPieces
<1>. DEFINE wanted == MoveRequest(p, request)
<1>1. AllSound(slabs, held) /\ NoneGrown(slabs) /\ p \in DOMAIN held
  BY RunningFacts DEF Live
<1>2. wanted.leave_nonzeroed \in BOOLEAN
  BY DEF MoveRequest
<1>3. PICK i \in Slab : \E o \in SlabOutcomes(i, wanted) :
        \/ slabs' = Replace(slabs, i, o.m) /\ held' = held
        \/ slabs' = slabs /\ held' = held
        \/ /\ o.err = "success" /\ slabs' = Moved(p, i, o)
           /\ held' = With(Without(p), <<i, o.block>>, slabs[i].blocksize)
  BY DEF ReallocateByMoving
<1>. HIDE DEF wanted
<1>4. PICK o \in SlabOutcomes(i, wanted) :
        \/ slabs' = Replace(slabs, i, o.m) /\ held' = held
        \/ slabs' = slabs /\ held' = held
        \/ /\ o.err = "success" /\ slabs' = Moved(p, i, o)
           /\ held' = With(Without(p), <<i, o.block>>, slabs[i].blocksize)
  BY <1>3
<1>5. CASE slabs' = Replace(slabs, i, o.m) /\ held' = held
  BY <1>2, <1>5, DeniedRefines
<1>6. CASE slabs' = slabs /\ held' = held
  BY <1>6, StutterRefines DEF SameContents
<1>7. CASE /\ o.err = "success" /\ slabs' = Moved(p, i, o)
           /\ held' = With(Without(p), <<i, o.block>>, slabs[i].blocksize)
  <2>. DEFINE q == <<i, o.block>>
              t == slabs'
              g == held'
  <2>1. Alike(o.m, slabs[i]) /\ Granted(o, i, slabs, held)
    BY <1>1, <1>2, <1>7, OutcomeFacts DEF Denied, Error
  <2>2. SameWords(o.m, slabs[i], In(i, held))
    BY <1>1, <1>2, OutcomeKeeps
  <2>3. t = Moved(p, i, o) /\ DOMAIN g = (DOMAIN held \ {p}) \cup {<<i, o.block>>}
    BY <1>7 DEF With, Without, Live
  <2>4. /\ <<i, o.block>> \notin DOMAIN held /\ SameContents(t, slabs, DOMAIN held \ {p})
        /\ t[i].word[o.block] = slabs[p[1]].word[p[2]]
    <3>. HIDE DEF t, g
    <3>1. /\ AllSound(t, g) /\ NoneGrown(t)
          /\ <<i, o.block>> \notin DOMAIN held /\ SameContents(t, slabs, DOMAIN held \ {p})
          /\ t[i].word[o.block] = slabs[p[1]].word[p[2]]
      BY ONLY <1>1, <2>1, <2>2, <2>3, i \in Slab, MovedSound
    <3>. QED
      BY <3>1
  <2>5. /\ q \notin Live /\ Live' = (Live \ {p}) \cup {q} /\ q[1] = i /\ q[2] = o.block
        /\ \A b \in Live \ {p} : held'[b] = held[b]
    BY <1>7, <2>3, <2>4 DEF Live, With, Without
  <2>6. SameContents(slabs', slabs, Live \ {p}) /\ slabs'[q[1]].word[q[2]] = slabs[p[1]].word[p[2]]
    BY <2>4, <2>5 DEF Live
  <2>. HIDE DEF q
  <2>. QED
    BY <2>5, <2>6, ReallocateRefines
<1>. QED
  BY <1>4, <1>5, <1>6, <1>7

LEMMA WriteStep ==
    ASSUME IInv, NEW p \in Live, Write(p)
    PROVE  Abstract!Next
<1>. DEFINE j == p[1]
            b == p[2]
            a == slabs[j]
            u == [slabs[p[1]] EXCEPT !.word[p[2]] = Data]
            t == slabs'
            blocks == In(j, held) \ {b}
            pointers == Live \ {p}
<1>1. Running /\ t = Replace(slabs, j, u) /\ held' = held
  BY DEF Write
<1>2. AllSound(slabs, held) /\ Pairs(held) /\ p \in DOMAIN held
  BY <1>1, RunningFacts DEF Live, AllSound
<1>3. j \in Slab /\ b \in In(j, held) /\ Good(a, In(j, held))
  BY <1>2, InFacts DEF AllSound, SlabSound, Pairs
<1>4. u.word = [a.word EXCEPT ![b] = Data] /\ b \in DOMAIN a.word
  BY <1>3 DEF Good, Fields, Words
<1>5. u.word[b] = Data /\ SameWords(u, slabs[j], blocks)
  BY <1>3, <1>4 DEF SameWords, Good, Words
<1>6. pointers \subseteq DOMAIN held /\ \A q \in pointers : q[1] = j => q[2] \in blocks
  BY <1>2, OtherBlocks DEF Live
<1>7. t[j] = u
  BY <1>1, <1>2, <1>3 DEF Replace, AllSound
<1>8. SameContents(t, slabs, pointers)
  <2>. HIDE DEF u, t, blocks, pointers, j
  <2>. QED
    BY <1>1, <1>2, <1>3, <1>5, <1>6, ReplaceKeeps
<1>9. slabs'[p[1]].word[p[2]] = Data
  BY <1>5, <1>7
<1>. QED
  BY <1>1, <1>8, <1>9, WriteRefines

(* Construction and refused calls change nothing that Memory sees; every   *)
(* other call is the operation of Memory with its name, whichever slabs it *)
(* involves.                                                               *)
LEMMA StepRefines ==
    ASSUME IInv, IInv', Next
    PROVE  [Abstract!Next]_HeldPieces
<1>1. CASE Construct \/ \E n \in Slab : ConstructFails(n)
  <2>1. ~Constructed /\ held' = held
    BY <1>1 DEF Construct, ConstructFails
  <2>2. Live = {}
    BY <2>1, UnbuiltFacts
  <2>. QED
    BY <2>1, <2>2, StutterRefines DEF SameContents
<1>2. ASSUME NEW request \in Request, Allocate(request) PROVE [Abstract!Next]_HeldPieces
  BY <1>2, AllocateStep
<1>3. ASSUME NEW p \in Live, NEW offset \in 0 .. MaxRequest, Deallocate(p, offset)
      PROVE  Abstract!Next
  BY <1>3, DeallocateStep
<1>4. ASSUME NEW p \in Live, NEW new_size \in Sizes, NEW preferred \in 0 .. MaxRequest,
             NEW leave \in BOOLEAN, NEW in_place \in BOOLEAN,
             Reallocate(p, new_size, preferred, leave, in_place)
      PROVE  [Abstract!Next]_HeldPieces
  <2>. DEFINE request == [memory |-> p[2], size |-> held[p], new_size |-> new_size,
                          preferred |-> preferred, leave_nonzeroed |-> leave, in_place |-> in_place]
  <2>1. Running /\ (ReallocateInPlace(p, request) \/ ReallocateByMoving(p, request))
    BY <1>4 DEF Reallocate
  <2>. HIDE DEF request
  <2>. QED
    BY <2>1, InPlaceStep, ByMovingStep
<1>5. ASSUME NEW p \in Live, Write(p) PROVE Abstract!Next
  BY <1>5, WriteStep
<1>6. CASE Clear \/ Destroy
  <2>1. held' = << >>
    BY <1>6 DEF Clear, Destroy
  <2>2. Live' = {}
    BY <2>1 DEF Live
  <2>. QED
    BY <2>2, NoneRefines DEF Abstract!Next
<1>. QED
  BY <1>1, <1>2, <1>3, <1>4, <1>5, <1>6 DEF Next

(***************************************************************************)
(* ImplementsMemory: whatever the list of block sizes, slices in use never *)
(* overlap, each keeps what was written to it while calls go to its slab   *)
(* and to the others, and a slice that moves from one slab to another      *)
(* takes its content along before its old block is reused.                 *)
(***************************************************************************)
THEOREM ImplementsMemoryCorrect == Spec => ImplementsMemory
<1>1. Init => Abstract!Init
  <2>1. Init => DOMAIN HeldPieces = {} /\ HeldPieces = [r \in DOMAIN HeldPieces |-> HeldPieces[r]]
    <3>1. DOMAIN << >> = {}
      OBVIOUS
    <3>. QED
      BY <3>1 DEF Init, HeldPieces, Held, Piece, Live
  <2>2. Init => HeldPieces = << >>
    BY <2>1
  <2>. QED
    BY <2>2 DEF Abstract!Init
<1>2. IInv /\ IInv' /\ [Next]_vars => [Abstract!Next]_HeldPieces
  <2>. SUFFICES ASSUME IInv, IInv', [Next]_vars
                PROVE  [Abstract!Next]_HeldPieces
    OBVIOUS
  <2>1. CASE Next
    BY <2>1, StepRefines
  <2>2. CASE UNCHANGED vars
    BY <2>2 DEF vars, HeldPieces, Piece, Content, Live
  <2>. QED
    BY <2>1, <2>2
<1>. QED
  BY <1>1, <1>2, Inductive, PTL DEF Spec, ImplementsMemory, Abstract!Spec
=============================================================================
