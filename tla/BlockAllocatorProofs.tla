------------------------ MODULE BlockAllocatorProofs ------------------------
(***************************************************************************)
(* An inductive invariant of BlockAllocator, for buffers, blocks and       *)
(* requests of any size, as long as a program gives only pointers to the   *)
(* start of a block back to a linked_blockpool_allocator_t, the two safety *)
(* properties that follow from it, and that the allocator implements       *)
(* Memory.                                                                 *)
(***************************************************************************)
EXTENDS BlockAllocatorMC, BlocksProofs

HeldFit(a, h) == \A b \in DOMAIN h : h[b] \in 1 .. a.blocksize

(* The allocator a, of whose blocks the program holds those of h. *)
Sound(a, h) ==
    /\ a.kind \in {"block", "pool"}
    /\ Good(a, DOMAIN h) /\ HeldFit(a, h)
    /\ a.kind = "pool" => DOMAIN a.word = Starts(a)

Endings == (Abort \cup PoolAbort \cup {Null}) \ {"not_contained", "not_block_start", "misaligned"}

IInv ==
    /\ ended \in Endings
    /\ \/ m = Absent /\ Live = {}
       \/ Sound(m, held)

-----------------------------------------------------------------------------
(* The pool of a linked_blockpool_allocator_t.                             *)

(* A new pool's list, from the first block to the last, is the one that    *)
(* ListFresh describes, seen from the last block.                          *)
LEMMA PoolListGood ==
    ASSUME NEW bs \in Nat \ {0}, NEW n \in Nat \ {0}, NEW w, w = PoolList(bs, n)
    PROVE  /\ DOMAIN w = NthSet(0, bs, n) /\ TypedWords(w)
           /\ Chain(0, w) /\ Listed(0, w) = NthSet(0, bs, n)
<1>. DEFINE a == (n - 1) * bs
            back == -bs
            F == NthSet(0, bs, n)
<1>1. a \in Int /\ back \in Int \ {0} /\ Null \notin Int
  BY NullIsNoAddress
<1>2. \A i \in Int : i * bs \in Int /\ i * back \in Int /\ Nth(0, bs, i) = i * bs
  BY DEF Nth
<1>3. \A i \in Int : Nth(a, back, i) = Nth(0, bs, n - 1 - i)
  <2>. SUFFICES ASSUME NEW i \in Int PROVE (n - 1) * bs + i * (-bs) = (n - 1 - i) * bs
    BY <1>2 DEF Nth
  <2>. QED
    OBVIOUS
<1>4. /\ DOMAIN w = F
      /\ \A b \in F : w[b] = IF b = a THEN Null ELSE b + bs
  <2>1. {i * bs : i \in 0 .. n - 1} = F
    <3>1. \A i \in 0 .. n - 1 : i * bs = Nth(0, bs, i)
      BY <1>2
    <3>. QED
      BY ONLY <3>1 DEF NthSet, F
  <2>. QED
    BY <2>1 DEF PoolList
<1>5. a = Nth(0, bs, n - 1)
  BY <1>2
<1>. HIDE DEF a, back, F
<1>6. \A i, j \in Int : Nth(0, bs, i) = Nth(0, bs, j) => i = j
  <2>1. 0 \in Int /\ bs \in Int \ {0}
    OBVIOUS
  <2>. QED
    BY ONLY <2>1, NthFacts
<1>7. \A i \in Int : Nth(0, bs, i) + bs = Nth(0, bs, i + 1)
  <2>. SUFFICES ASSUME NEW i \in Int PROVE i * bs + bs = (i + 1) * bs
    BY <1>2
  <2>. QED
    OBVIOUS
<1>8. \A i \in 0 .. n - 1 : /\ Nth(0, bs, i) \in F
                            /\ w[Nth(0, bs, i)] = IF i = n - 1 THEN Null ELSE Nth(0, bs, i + 1)
  BY <1>4, <1>5, <1>6, <1>7 DEF NthSet, F
<1>9. F \subseteq Int
  BY <1>2 DEF NthSet, F
<1>10. TypedWords(w)
  <2>1. ASSUME NEW b \in F PROVE w[b] \in F \cup {Null}
    <3>1. PICK i \in 0 .. n - 1 : b = Nth(0, bs, i)
      BY DEF NthSet, F
    <3>2. i # n - 1 => i + 1 \in 0 .. n - 1
      OBVIOUS
    <3>. QED
      BY <1>8, <3>1, <3>2
  <2>. QED
    BY <1>4, <1>9, <2>1 DEF TypedWords
<1>11. NthSet(a, back, n) = F
  <2>1. \A i \in 0 .. n - 1 : n - 1 - i \in 0 .. n - 1 /\ n - 1 - (n - 1 - i) = i
    OBVIOUS
  <2>2. NthSet(a, back, n) \subseteq F
    BY <1>3, <2>1 DEF NthSet, F
  <2>3. ASSUME NEW i \in 0 .. n - 1 PROVE Nth(0, bs, i) \in NthSet(a, back, n)
    BY <1>3, <2>1 DEF NthSet
  <2>. QED
    BY <2>2, <2>3 DEF NthSet, F
<1>12. Chain(0, w) /\ Listed(0, w) = NthSet(a, back, n)
  <2>1. DOMAIN w \subseteq Int
    BY <1>4, <1>9
  <2>2. \A i \in 0 .. n - 1 : Nth(a, back, i) \in DOMAIN w
    BY <1>3, <1>4, <1>8
  <2>3. w[a] = Null
    BY <1>5, <1>8
  <2>4. \A i \in 1 .. n - 1 : w[Nth(a, back, i)] = Nth(a, back, i - 1)
    <3>. SUFFICES ASSUME NEW i \in 1 .. n - 1 PROVE w[Nth(a, back, i)] = Nth(a, back, i - 1)
      OBVIOUS
    <3>1. /\ n - 1 - i \in 0 .. n - 1 /\ n - 1 - i # n - 1 /\ n - 1 - i + 1 = n - 1 - (i - 1)
          /\ i \in Int /\ i - 1 \in Int
      OBVIOUS
    <3>. QED
      BY <1>3, <1>8, <3>1
  <2>5. 0 = Nth(a, back, n - 1)
    <3>1. Nth(a, back, n - 1) = Nth(0, bs, n - 1 - (n - 1)) /\ n - 1 - (n - 1) = 0
      BY <1>3
    <3>2. Nth(0, bs, 0) = 0
      BY <1>2
    <3>. QED
      BY <3>1, <3>2
  <2>. QED
    BY <1>1, <2>1, <2>2, <2>3, <2>4, <2>5, ListFresh
<1>. QED
  BY <1>4, <1>10, <1>11, <1>12 DEF F

(* A pool has room for at least one block.                                 *)
LEMMA PoolHasBlocks ==
    ASSUME NEW align \in Nat \ {0}, NEW bs \in Nat \ {0}, NEW spots \in Nat \ {0},
           NEW bytes, bytes = HeaderSize + align + bs * spots,
           NEW n, n = NumBlocks(bytes, bs, align)
    PROVE  n \in Nat \ {0}
<1>. DEFINE r == RoundUp(align, HeaderSize)
            p == bs * spots
            x == bytes - Padding(align)
            t == x % bs
<1>1. HeaderSize \in Nat \ {0} /\ r \in Nat /\ r < HeaderSize + align
  BY LinkedBlockpoolAssumption, RoundedUp
<1>2. p \in Nat /\ p >= bs
  <2>1. p = bs + bs * (spots - 1) /\ bs * (spots - 1) \in Nat
    OBVIOUS
  <2>. QED
    BY <2>1
<1>3. bytes = HeaderSize + align + p /\ Padding(align) = r - HeaderSize
  BY DEF Padding
<1>. HIDE DEF r, p
<1>4. x \in Nat /\ x >= bs
  BY <1>1, <1>2, <1>3
<1>5. n = x \div bs
  BY DEF NumBlocks
<1>6. t = x % bs
  OBVIOUS
<1>. HIDE DEF x, t
<1>7. n \in Nat /\ t \in 0 .. bs - 1 /\ x = bs * n + t
  BY ONLY <1>4, <1>6, <1>5, bs \in Nat \ {0}, Division
<1>8. n # 0
  <2>1. n = 0 => bs * n = 0
    OBVIOUS
  <2>. QED
    BY <1>4, <1>7, <2>1
<1>. QED
  BY <1>7, <1>8

LEMMA PoolSound ==
    ASSUME NEW num_bytes \in Nat \ {0}, NEW alignment \in Nat \ {0}, NEW spots \in Nat \ {0},
           NEW u, u = Pool(num_bytes, alignment, spots)
    PROVE  Good(u, {}) /\ u.kind = "pool" /\ DOMAIN u.word = Starts(u)
<1>. DEFINE align == ActualAlign(alignment)
            bs == ActualBlocksize(num_bytes, alignment)
            bytes == HeaderSize + align + bs * spots
            n == NumBlocks(bytes, bs, align)
            w == PoolList(bs, n)
<1>1. align \in Nat \ {0} /\ bs \in Nat \ {0} /\ \E k \in Nat : bs = k * align
  BY ActualSizes
<1>2. /\ u.kind = "pool" /\ u.size = n * bs /\ u.align = align /\ u.blocksize = bs
      /\ u.word = w /\ u.head = 0 /\ Fields \subseteq DOMAIN u
  BY DEF Pool, Fields
<1>. HIDE DEF align, bs
<1>3. n \in Nat \ {0}
  BY <1>1, PoolHasBlocks
<1>. HIDE DEF n
<1>4. /\ DOMAIN w = NthSet(0, bs, n) /\ TypedWords(w)
      /\ Chain(0, w) /\ Listed(0, w) = NthSet(0, bs, n)
  BY <1>1, <1>3, PoolListGood
<1>. HIDE DEF w
<1>5. n * bs \in Nat
  BY <1>1, <1>3
<1>6. Whole(u.size, bs) = n
  <2>1. n \in Nat /\ 0 \in 0 .. bs - 1 /\ u.size = n * bs + 0
    BY <1>1, <1>2, <1>3, <1>5
  <2>. QED
    BY <1>1, <2>1, Quotient DEF Whole
<1>7. Starts(u) = NthSet(0, bs, n) /\ Starts(u) \subseteq Grid(u)
  BY <1>1, <1>2, <1>5, <1>6, StartsAre
<1>8. SizesFit(u)
  BY <1>1, <1>2, <1>5 DEF SizesFit
<1>. QED
  BY <1>2, <1>4, <1>7, <1>8 DEF Good, Words, TypedWords, FreeBlocks

(* The pattern covers the block and no other. *)
LEMMA PoolDeallocateGood ==
    ASSUME NEW a, NEW live, Good(a, live), NEW block \in live,
           NEW o, o = PoolDeallocateOutcome(a, block)
    PROVE  o.err = "success" /\ Good(o.m, live \ {block}) /\ Alike(o.m, a)
           /\ DOMAIN o.m.word = DOMAIN a.word /\ SameWords(o.m, a, live \ {block})
<1>. DEFINE w == With(Marked(a, block), block, a.head)
            u == [a EXCEPT !.word = w, !.head = block]
<1>1. /\ SizesFit(a) /\ block \in Starts(a) /\ block \in DOMAIN a.word /\ block \in Grid(a)
      /\ DOMAIN a.word \subseteq Grid(a)
  BY DEF Good, Words
<1>2. Contains(a, block, 1)
  <2>1. block \in Nat /\ 0 \in 0 .. a.blocksize - 1 /\ block + 0 = block
    BY <1>1, BlockFacts DEF SizesFit
  <2>. QED
    BY <1>1, <2>1, BlockFacts
<1>3. o.err = "success" /\ o.m = u
  BY <1>2 DEF PoolDeallocateOutcome
<1>4. Rewritten(u, a, w, block)
  BY DEF Rewritten, Alike, Good, Fields
<1>5. DOMAIN w = DOMAIN a.word /\ w[block] = a.head
  BY <1>1 DEF With, Marked
<1>6. ASSUME NEW b \in DOMAIN a.word \ {block} PROVE w[b] = a.word[b]
  <2>1. b \notin block .. block + a.blocksize - 1
    <3>1. PICK k \in Nat : b = k * a.blocksize
      BY <1>1 DEF Grid
    <3>2. PICK j \in Nat : block = j * a.blocksize
      BY <1>1 DEF Grid
    <3>3. a.blocksize \in Nat \ {0} /\ k # j
      BY <1>1, <3>1, <3>2 DEF SizesFit
    <3>. DEFINE bs == a.blocksize
                d == (k - j) * bs
    <3>4. d = b - block /\ d \in Int /\ b \in Int /\ block \in Int
      BY <3>1, <3>2, <3>3
    <3>5. (k - j >= 1 => d >= bs) /\ (k - j <= -1 => d <= -bs)
      BY <3>3
    <3>. HIDE DEF d, bs
    <3>6. d >= bs \/ d <= -bs
      BY <3>3, <3>5
    <3>7. bs = a.blocksize
      BY DEF bs
    <3>. QED
      BY <3>3, <3>4, <3>6, <3>7
  <2>. QED
    BY <1>1, <2>1 DEF With, Marked
<1>. HIDE DEF w, u
<1>7. Good(u, live \ {block})
  BY <1>4, <1>5, <1>6, PushedGood
<1>8. SameWords(u, a, live \ {block})
  BY <1>4, <1>6 DEF Rewritten, SameWords, Good, Words
<1>. QED
  BY <1>3, <1>4, <1>5, <1>7, <1>8 DEF Rewritten

LEMMA PoolReallocateGood ==
    ASSUME NEW a, NEW live, Good(a, live), NEW block \in live, NEW request, RequestValid(request),
           request.memory = block, request.size \in 1 .. a.blocksize,
           request.new_size \in Nat \ {0}, request.preferred \in Nat,
           NEW o, o = PoolReallocateOutcome(a, request)
    PROVE  /\ o.m = a
           /\ (o.err = "success" /\ o.size \in 1 .. a.blocksize) \/ o.err \in {"unsupported", "negative_fill"}
<1>1. a.blocksize \in Nat \ {0}
  BY DEF Good, SizesFit
<1>2. 1 \in 0 .. a.blocksize
  BY <1>1
<1>3. Contains(a, request.memory, 1) /\ request.memory % a.align = 0
  BY <1>2, BlockFacts DEF Good
<1>4. request.new_size <= a.blocksize => NewSize(a, request) \in 1 .. a.blocksize
  BY <1>1 DEF NewSize, AtMost
<1>5. CASE request.new_size > a.blocksize
  BY <1>3, <1>5 DEF PoolReallocateOutcome
<1>6. CASE ~(request.new_size > a.blocksize)
  <2>1. NewSize(a, request) \in 1 .. a.blocksize
    BY <1>1, <1>4, <1>6
  <2>2. \/ o = [m |-> a, err |-> "negative_fill"]
        \/ o = [m |-> a, err |-> "success", size |-> NewSize(a, request)]
    BY <1>3, <1>6 DEF PoolReallocateOutcome
  <2>. QED
    BY <2>1, <2>2
<1>. QED
  BY <1>5, <1>6

LEMMA PoolAllocateGood ==
    ASSUME NEW a, NEW live, Good(a, live), DOMAIN a.word = Starts(a),
           NEW request, request.leave_nonzeroed \in BOOLEAN, NEW o \in PoolAllocateOutcomes(a, request)
    PROVE  /\ Alike(o.m, a) /\ DOMAIN o.m.word = DOMAIN a.word /\ SameWords(o.m, a, live)
           /\ \/ /\ o.err = "success" /\ o.block \in Starts(a) \ live
                 /\ Good(o.m, live \cup {o.block})
              \/ o.err \in Error \cup {"aligned_block"} /\ Good(o.m, live)
<1>1. CASE TooBig(a, request) \/ a.head = Null
  <2>1. o.m = a /\ o.err \in Error \cup {"aligned_block"}
    BY <1>1 DEF PoolAllocateOutcomes, NewPool, Error
  <2>. QED
    BY <2>1 DEF Alike, SameWords
<1>2. CASE ~TooBig(a, request) /\ a.head # Null
  <2>. DEFINE u == Popped(a, request.leave_nonzeroed)
  <2>1. o = [m |-> u, err |-> "success", block |-> a.head]
    BY <1>2 DEF PoolAllocateOutcomes
  <2>2. a.head \in Starts(a)
    BY <1>2 DEF Good, Chain
  <2>. HIDE DEF u
  <2>3. /\ Good(u, live \cup {a.head}) /\ Alike(u, a) /\ a.head \notin live
        /\ DOMAIN u.word = DOMAIN a.word
    BY <2>2, PoppedGood DEF u
  <2>4. SameWords(u, a, live)
    <3>1. u.word = [a.word EXCEPT ![a.head] = IF request.leave_nonzeroed THEN Data ELSE Zero]
      BY DEF u, Popped, Good, Fields
    <3>. QED
      BY <2>3, <3>1 DEF SameWords, Good, Words
  <2>. QED
    BY <2>1, <2>2, <2>3, <2>4
<1>. QED
  BY <1>1, <1>2

-----------------------------------------------------------------------------
(* The invariant.                                                          *)

(* A sound allocator is one: what stands for none is of neither kind.      *)
LEMMA SoundIsPresent ==
    ASSUME NEW a, NEW h, Sound(a, h)
    PROVE  a # Absent
BY DEF Sound, Absent

(* What an outcome leaves of a sound allocator. *)
LEMMA SoundAfter ==
    ASSUME NEW a, NEW h, Sound(a, h), NEW u, Alike(u, a),
           a.kind = "pool" => DOMAIN u.word = DOMAIN a.word,
           NEW g, Good(u, DOMAIN g), HeldFit(a, g)
    PROVE  Sound(u, g)
<1>1. Starts(u) = Starts(a)
  BY RewrittenStarts
<1>. QED
  BY <1>1 DEF Sound, HeldFit, Alike

LEMMA EndingFacts ==
    /\ Null \in Endings
    /\ {"invalid_request", "grown_block_not_contained", "aligned_block", "negative_fill"} \subseteq Endings
BY BlocksAssumption DEF Endings, Abort, PoolAbort

LEMMA InitInvariant == Init => IInv
<1>1. DOMAIN << >> = {}
  OBVIOUS
<1>. QED
  BY <1>1, BlocksAssumption DEF Init, IInv, Live, Endings

LEMMA ConstructInvariant ==
    ASSUME IInv, NEW size \in BufferSizes, NEW num_bytes \in BlockBytes, NEW alignment \in Alignments,
           Construct(size, num_bytes, alignment)
    PROVE  IInv'
<1>1. size \in Nat /\ num_bytes \in Nat \ {0} /\ alignment \in Nat \ {0}
  BY BlockAllocatorAssumption
<1>2. m = Absent /\ m' = Members(size, num_bytes, alignment) /\ held' = held /\ ended' = ended
  BY DEF Construct
<1>3. DOMAIN held = {}
  BY <1>2, SoundIsPresent DEF IInv, Live
<1>4. Good(m', {}) /\ m'.kind = "block"
  BY <1>1, <1>2, MembersGood
<1>5. Sound(m', held')
  BY <1>2, <1>3, <1>4 DEF Sound, HeldFit
<1>. QED
  BY <1>2, <1>5 DEF IInv

LEMMA ConstructPoolInvariant ==
    ASSUME IInv, NEW num_bytes \in BlockBytes, NEW alignment \in Alignments, NEW spots \in PoolSpots,
           ConstructPool(num_bytes, alignment, spots)
    PROVE  IInv'
<1>1. num_bytes \in Nat \ {0} /\ alignment \in Nat \ {0} /\ spots \in Nat \ {0}
  BY BlockAllocatorAssumption
<1>2. m = Absent /\ m' = Pool(num_bytes, alignment, spots) /\ held' = held /\ ended' = ended
  BY DEF ConstructPool
<1>3. DOMAIN held = {}
  BY <1>2, SoundIsPresent DEF IInv, Live
<1>4. Good(m', {}) /\ m'.kind = "pool" /\ DOMAIN m'.word = Starts(m')
  BY <1>1, <1>2, PoolSound
<1>5. Sound(m', held')
  BY <1>2, <1>3, <1>4 DEF Sound, HeldFit
<1>. QED
  BY <1>2, <1>5 DEF IInv

LEMMA RunningSound ==
    ASSUME IInv, Running
    PROVE  /\ Sound(m, held) /\ Good(m, Live) /\ m.blocksize \in Nat \ {0}
           /\ \A b \in Live : held[b] \in 1 .. m.blocksize
BY DEF IInv, Running, Sound, HeldFit, Live, Good, SizesFit

LEMMA AllocateInvariant ==
    ASSUME IInv, NEW request \in Request, Allocate(request)
    PROVE  IInv'
<1>1. Running /\ request.leave_nonzeroed \in BOOLEAN
  BY DEF Allocate, Request
<1>2. PICK o \in IF IsPool THEN PoolAllocateOutcomes(m, request) ELSE AllocateOutcomes(m, request) :
            m' = o.m /\ (Failed(o) \/ (Succeeded(o) /\ held' = With(held, o.block, m.blocksize)))
  BY DEF Allocate
<1>3. Sound(m, held) /\ Good(m, Live) /\ m.blocksize \in Nat \ {0} /\ ended \in Endings
  BY <1>1, RunningSound DEF IInv
<1>4. /\ Alike(o.m, m) /\ (m.kind = "pool" => DOMAIN o.m.word = DOMAIN m.word)
      /\ \/ /\ o.err = "success" /\ o.block \in Starts(m) \ Live
            /\ Good(o.m, Live \cup {o.block})
         \/ /\ o.err \in Error \cup {"invalid_request", "grown_block_not_contained", "aligned_block"}
            /\ Good(o.m, Live)
  <2>1. CASE m.kind = "pool"
    <3>1. o \in PoolAllocateOutcomes(m, request) /\ DOMAIN m.word = Starts(m)
      BY <1>2, <1>3, <2>1 DEF IsPool, Sound
    <3>. QED
      BY <1>1, <1>3, <3>1, PoolAllocateGood
  <2>2. CASE m.kind # "pool"
    <3>1. o \in AllocateOutcomes(m, request)
      BY <1>2, <2>2 DEF IsPool
    <3>. QED
      <4>1. Alike(o.m, m) /\ (Taken(o, m, Live) \/ Refused(o, m, Live, request))
        BY <1>1, <1>3, <3>1, AllocateOutcome
      <4>. QED
        BY <2>2, <4>1 DEF Taken, Refused, Error
  <2>. QED
    BY <2>1, <2>2
<1>5. CASE Failed(o)
  <2>1. held' = held /\ o.err # "success"
    BY <1>5 DEF Failed
  <2>2. ended' \in Endings
    <3>1. /\ \/ o.err \in Error
             \/ o.err \in {"invalid_request", "grown_block_not_contained", "aligned_block"}
          /\ ended' \in {o.err, Null} /\ (o.err \in Error => ended' = Null)
      BY <1>4, <1>5, <2>1 DEF Failed, Error, Abort, PoolAbort
    <3>. QED
      BY <3>1, EndingFacts
  <2>3. Good(o.m, Live) /\ HeldFit(m, held)
    BY <1>3, <1>4, <2>1 DEF Sound
  <2>4. Sound(o.m, held)
    BY <1>3, <1>4, <2>3, SoundAfter DEF Live
  <2>. QED
    BY <1>2, <2>1, <2>2, <2>4 DEF IInv
<1>6. CASE Succeeded(o) /\ held' = With(held, o.block, m.blocksize)
  <2>1. o.err = "success" /\ ended' = ended
    BY <1>6 DEF Succeeded
  <2>2. Good(o.m, Live \cup {o.block})
    BY <1>4, <2>1 DEF Error
  <2>3. DOMAIN held' = Live \cup {o.block} /\ HeldFit(m, held')
    <3>1. HeldFit(m, held) /\ m.blocksize \in 1 .. m.blocksize
      BY <1>3 DEF Sound
    <3>. QED
      BY <1>6, <3>1 DEF With, Live, HeldFit
  <2>4. Sound(o.m, held')
    BY <1>3, <1>4, <2>2, <2>3, SoundAfter
  <2>. QED
    BY <1>2, <1>3, <2>1, <2>4 DEF IInv
<1>. QED
  BY <1>2, <1>5, <1>6

LEMMA DeallocateInvariant ==
    ASSUME IInv, "inner_pointers" \notin BrokenUses, NEW block \in Live, NEW offset \in 0 .. MaxRequest,
           Deallocate(block, offset)
    PROVE  IInv'
<1>. DEFINE o == IF IsPool THEN PoolDeallocateOutcome(m, block + offset)
                           ELSE DeallocateOutcome(m, block + offset)
<1>1. /\ Running /\ offset < m.blocksize /\ (IsPool => offset = 0)
      /\ m' = o.m
      /\ Failed(o) \/ (Succeeded(o) /\ held' = [b \in Live \ {block} |-> held[b]])
  BY DEF Deallocate
<1>2. Sound(m, held) /\ Good(m, Live) /\ m.blocksize \in Nat \ {0} /\ ended \in Endings
  BY <1>1, RunningSound DEF IInv
<1>3. /\ Alike(o.m, m) /\ (m.kind = "pool" => DOMAIN o.m.word = DOMAIN m.word)
      /\ o.err = "success" /\ Good(o.m, Live \ {block})
  <2>1. CASE m.kind = "pool"
    <3>1. block \in Int
      BY <1>2 DEF Good, Words
    <3>2. o = PoolDeallocateOutcome(m, block)
      BY <1>1, <2>1, <3>1 DEF IsPool
    <3>. HIDE DEF o
    <3>. QED
      BY <1>2, <3>2, PoolDeallocateGood
  <2>2. CASE m.kind # "pool"
    <3>1. o = DeallocateOutcome(m, block + offset)
      BY <2>2 DEF IsPool
    <3>2. offset \in 0 .. m.blocksize - 1
      BY <1>1, <1>2
    <3>. HIDE DEF o
    <3>. QED
      <4>1. o.err = "success" /\ Good(o.m, Live \ {block}) /\ Alike(o.m, m)
        BY <1>2, <3>1, <3>2, DeallocateOutcomeGood
      <4>. QED
        BY <2>2, <4>1
  <2>. QED
    BY <2>1, <2>2
<1>. HIDE DEF o
<1>4. ended' = ended /\ held' = [b \in Live \ {block} |-> held[b]]
  BY <1>1, <1>3 DEF Failed, Succeeded
<1>5. DOMAIN held' = Live \ {block} /\ HeldFit(m, held')
  BY <1>2, <1>4 DEF Sound, Live, HeldFit
<1>6. Sound(o.m, held')
  BY <1>2, <1>3, <1>5, SoundAfter
<1>. QED
  BY <1>1, <1>2, <1>4, <1>6 DEF IInv

LEMMA ReallocateInvariant ==
    ASSUME IInv, NEW block \in Live, NEW new_size \in Sizes, NEW preferred \in 0 .. MaxRequest,
           NEW leave \in BOOLEAN, Reallocate(block, new_size, preferred, leave)
    PROVE  IInv'
<1>. DEFINE request == [memory |-> block, size |-> held[block], new_size |-> new_size,
                        preferred |-> preferred, leave_nonzeroed |-> leave]
            o == IF IsPool THEN PoolReallocateOutcome(m, request) ELSE ReallocateOutcome(m, request)
<1>1. /\ Running /\ RequestValid(request) /\ m' = o.m
      /\ Failed(o) \/ (Succeeded(o) /\ held' = [held EXCEPT ![block] = o.size])
  BY DEF Reallocate
<1>2. Sound(m, held) /\ Good(m, Live) /\ ended \in Endings /\ held[block] \in 1 .. m.blocksize
  BY <1>1, RunningSound DEF IInv
<1>3. /\ request.memory = block /\ request.size \in 1 .. m.blocksize
      /\ request.new_size \in Nat \ {0} /\ request.preferred \in Nat
  BY <1>2, BlockAllocatorAssumption DEF Sizes
<1>4. o = PoolReallocateOutcome(m, request) \/ o = ReallocateOutcome(m, request)
  OBVIOUS
<1>. HIDE DEF o, request
<1>5. /\ o.m = m
      /\ \/ o.err = "success" /\ o.size \in 1 .. m.blocksize
         \/ o.err \in {"oom", "unsupported", "negative_fill"}
  BY <1>1, <1>2, <1>3, <1>4, PoolReallocateGood, ReallocateOutcomeGood
<1>6. ended' \in Endings
  <2>1. CASE Failed(o)
    <3>1. ended' = Null \/ (o.err = "negative_fill" /\ ended' = o.err)
      BY <1>5, <2>1 DEF Failed, Abort, PoolAbort
    <3>. QED
      BY <3>1, EndingFacts
  <2>2. CASE Succeeded(o)
    BY <1>2, <2>2 DEF Succeeded
  <2>. QED
    BY <1>1, <2>1, <2>2
<1>7. DOMAIN held' = Live /\ HeldFit(m, held')
  <2>1. CASE Failed(o)
    BY <1>2, <2>1 DEF Failed, Sound, Live
  <2>2. CASE Succeeded(o) /\ held' = [held EXCEPT ![block] = o.size]
    <3>1. o.size \in 1 .. m.blocksize
      BY <1>5, <2>2 DEF Succeeded
    <3>. QED
      BY <1>2, <2>2, <3>1 DEF Sound, Live, HeldFit
  <2>. QED
    BY <1>1, <2>1, <2>2
<1>8. Sound(m, held')
  BY <1>2, <1>7, SoundAfter DEF Alike
<1>. QED
  BY <1>1, <1>5, <1>6, <1>8 DEF IInv

LEMMA ClearInvariant ==
    ASSUME IInv, Clear
    PROVE  IInv'
<1>1. Running /\ m' = Cleared(m) /\ held' = << >> /\ ended' = ended
  BY DEF Clear
<1>2. Sound(m, held) /\ Good(m, Live) /\ ended \in Endings
  BY <1>1, RunningSound DEF IInv
<1>3. Good(m', {}) /\ Alike(m', m) /\ DOMAIN m'.word = DOMAIN m.word
  BY <1>1, <1>2, ClearedGood
<1>4. DOMAIN held' = {} /\ HeldFit(m, held')
  BY <1>1 DEF HeldFit
<1>5. Sound(m', held')
  BY <1>2, <1>3, <1>4, SoundAfter
<1>. QED
  BY <1>1, <1>2, <1>5 DEF IInv

LEMMA WriteInvariant ==
    ASSUME IInv, NEW block \in Live, Write(block)
    PROVE  IInv'
<1>1. Running /\ m' = [m EXCEPT !.word[block] = Data] /\ held' = held /\ ended' = ended
  BY DEF Write
<1>2. Sound(m, held) /\ Good(m, Live) /\ ended \in Endings
  BY <1>1, RunningSound DEF IInv
<1>3. Good(m', Live) /\ Alike(m', m) /\ DOMAIN m'.word = DOMAIN m.word
  BY <1>1, <1>2, WrittenGood
<1>4. HeldFit(m, held)
  BY <1>2 DEF Sound
<1>5. Sound(m', held)
  BY <1>2, <1>3, <1>4, SoundAfter DEF Live
<1>. QED
  BY <1>1, <1>2, <1>5 DEF IInv

LEMMA DestroyInvariant ==
    ASSUME IInv, Destroy
    PROVE  IInv'
<1>1. m' = Absent /\ held' = << >> /\ ended' = ended
  BY DEF Destroy
<1>2. DOMAIN << >> = {}
  OBVIOUS
<1>. QED
  BY <1>1, <1>2 DEF IInv, Live

-----------------------------------------------------------------------------

(***************************************************************************)
(* The free list, the blocks in use and the lengths of the slices stay in  *)
(* step through every call, also when the call fails or ends the program.  *)
(***************************************************************************)
THEOREM Inductive ==
    ASSUME "inner_pointers" \notin BrokenUses
    PROVE  Spec => []IInv
<1>1. Init => IInv
  BY InitInvariant
<1>2. IInv /\ [Next]_vars => IInv'
  <2>. SUFFICES ASSUME IInv, [Next]_vars PROVE IInv'
    OBVIOUS
  <2>1. ASSUME NEW size \in BufferSizes, NEW n \in BlockBytes, NEW a \in Alignments, Construct(size, n, a)
        PROVE  IInv'
    BY <2>1, ConstructInvariant
  <2>2. ASSUME NEW n \in BlockBytes, NEW a \in Alignments, NEW spots \in PoolSpots, ConstructPool(n, a, spots)
        PROVE  IInv'
    BY <2>2, ConstructPoolInvariant
  <2>3. ASSUME NEW request \in Request, Allocate(request) PROVE IInv'
    BY <2>3, AllocateInvariant
  <2>4. ASSUME NEW block \in Live, NEW offset \in 0 .. MaxRequest, Deallocate(block, offset)
        PROVE  IInv'
    BY <2>4, DeallocateInvariant
  <2>5. ASSUME NEW block \in Live, NEW new_size \in Sizes, NEW preferred \in 0 .. MaxRequest,
               NEW leave \in BOOLEAN, Reallocate(block, new_size, preferred, leave)
        PROVE  IInv'
    BY <2>5, ReallocateInvariant
  <2>6. ASSUME NEW block \in Live, Write(block) PROVE IInv'
    BY <2>6, WriteInvariant
  <2>7. CASE Clear
    BY <2>7, ClearInvariant
  <2>8. CASE Destroy
    BY <2>8, DestroyInvariant
  <2>9. CASE UNCHANGED vars
    BY <2>9 DEF vars, IInv, Live
  <2>. QED
    BY <2>1, <2>2, <2>3, <2>4, <2>5, <2>6, <2>7, <2>8, <2>9 DEF Next
<1>. QED
  BY <1>1, <1>2, PTL DEF Spec

(***************************************************************************)
(* FreeListExact: the list inside the free blocks has no cycle and visits  *)
(* every block of the buffer that the program does not hold and no other,  *)
(* after any sequence of calls.                                            *)
(***************************************************************************)
THEOREM FreeListExactCorrect ==
    ASSUME "inner_pointers" \notin BrokenUses
    PROVE  Spec => []FreeListExact
<1>1. IInv => FreeListExact
  <2>. SUFFICES ASSUME IInv PROVE FreeListExact
    OBVIOUS
  <2>1. TypeOK
    <3>1. CASE m = Absent /\ Live = {}
      BY <3>1 DEF IInv, TypeOK, Endings
    <3>2. CASE Sound(m, held)
      BY <3>2, SoundIsPresent DEF IInv, TypeOK, Endings, Sound, HeldFit, Good, Words, Chain, Live
    <3>. QED
      BY <3>1, <3>2 DEF IInv
  <2>2. Running => ListsExactly(m, Starts(m) \ Live)
    BY RunningSound DEF ListsExactly, Good, Chain, FreeBlocks
  <2>. QED
    BY <2>1, <2>2 DEF FreeListExact
<1>. QED
  BY <1>1, Inductive, PTL

(***************************************************************************)
(* AssertionsHold: for such a program every pointer given back or          *)
(* reallocated is found in the buffer, at the start of an aligned block,   *)
(* and so is every block that is handed out before the buffer has grown.   *)
(***************************************************************************)
THEOREM AssertionsHoldCorrect ==
    ASSUME "inner_pointers" \notin BrokenUses
    PROVE  Spec => []AssertionsHold
<1>1. IInv => AssertionsHold
  BY DEF IInv, AssertionsHold, Endings
<1>. QED
  BY <1>1, Inductive, PTL

-----------------------------------------------------------------------------
(* The refinement of Memory.                                               *)

SizeKnown == m = Absent \/ m.size \in Extents

RInv == IInv /\ SizeKnown

PiecesSound ==
    /\ Apart(Piece)
    /\ \A b \in Live : Piece[b] \in Regions

LEMMA PiecesApart == RInv => PiecesSound
<1>. SUFFICES ASSUME RInv PROVE PiecesSound
  OBVIOUS
<1>1. /\ DOMAIN Piece = Live /\ DOMAIN Content = Live
      /\ \A b \in Live : Piece[b] = b .. b + held[b] - 1 /\ Content[b] = m.word[b]
  BY DEF Piece, Content
<1>2. CASE Live = {}
  BY <1>1, <1>2 DEF PiecesSound, Apart
<1>3. CASE Live # {}
  <2>1. m # Absent /\ Sound(m, held)
    BY <1>3, SoundIsPresent DEF RInv, IInv
  <2>2. /\ SizesFit(m) /\ Live \subseteq Starts(m) /\ m.size \in Extents
        /\ \A b \in Live : held[b] \in 1 .. m.blocksize
    BY <2>1 DEF RInv, SizeKnown, Sound, Good, HeldFit, Live
  <2>3. \A b \in Live : b .. b + held[b] - 1 \in Intervals(m.size)
    BY <2>2, SliceInside
  <2>4. \A b \in Live : b .. b + held[b] - 1 # {}
    BY <2>3 DEF Intervals
  <2>5. \A b, c \in Live : b # c => (b .. b + held[b] - 1) \cap (c .. c + held[c] - 1) = {}
    <3>. SUFFICES ASSUME NEW b \in Live, NEW c \in Live, b # c
                  PROVE  (b .. b + held[b] - 1) \cap (c .. c + held[c] - 1) = {}
      OBVIOUS
    <3>1. b \in Starts(m) /\ c \in Starts(m) /\ held[b] \in 1 .. m.blocksize /\ held[c] \in 1 .. m.blocksize
      BY <2>2
    <3>. QED
      BY <2>2, <3>1, SlicesApart
  <2>6. Apart(Piece)
    BY <1>1, <2>4, <2>5 DEF Apart
  <2>. QED
    BY <1>1, <2>2, <2>3, <2>6 DEF PiecesSound, Regions
<1>. QED
  BY <1>2, <1>3

LEMMA PiecesApartAfter == RInv' => PiecesSound'
BY PiecesApart, PTL

(* The pieces that keep their slices and words keep all that Memory sees. *)
LEMMA KeptPieces ==
    ASSUME NEW blocks, blocks \subseteq Live, blocks \subseteq Live',
           \A b \in blocks : held'[b] = held[b], SameWords(m', m, blocks)
    PROVE  Kept(blocks, Piece, Content, Piece', Content')
<1>1. \A b \in blocks : b \in Live /\ b \in Live' /\ m'.word[b] = m.word[b]
  BY DEF SameWords
<1>2. \A b \in blocks : Piece'[b] = b .. b + held'[b] - 1 /\ Content'[b] = m'.word[b]
  BY <1>1 DEF Piece, Content
<1>3. \A b \in blocks : Piece[b] = b .. b + held[b] - 1 /\ Content[b] = m.word[b]
  BY <1>1 DEF Piece, Content
<1>. QED
  BY <1>1, <1>2, <1>3 DEF Kept

LEMMA PieceDomains == /\ DOMAIN Piece = Live /\ DOMAIN Content = Live
                      /\ DOMAIN Piece' = Live' /\ DOMAIN Content' = Live'
BY DEF Piece, Content

(* A step that leaves the slices and words of the blocks in use alone.     *)
LEMMA StutterRefines ==
    ASSUME RInv, held' = held, SameWords(m', m, Live)
    PROVE  HeldPieces' = HeldPieces
<1>. DEFINE piece == Piece'
            content == Content'
<1>1. Live' = Live
  BY DEF Live
<1>2. Kept(Live, Piece, Content, piece, content)
  BY <1>1, KeptPieces
<1>3. DOMAIN Piece = Live /\ DOMAIN piece = Live /\ Apart(Piece)
  BY <1>1, PieceDomains, PiecesApart DEF PiecesSound
<1>. HIDE DEF piece, content
<1>4. Held(piece, content) = Held(Piece, Content)
  BY <1>2, <1>3, HeldSame
<1>. QED
  BY <1>4 DEF HeldPieces, piece, content

LEMMA NoneRefines ==
    ASSUME Live' = {}
    PROVE  Abstract!Clear
<1>1. DOMAIN HeldPieces' = {} /\ HeldPieces' = [r \in DOMAIN HeldPieces' |-> HeldPieces'[r]]
  BY DEF HeldPieces, Held, Piece
<1>2. HeldPieces' = << >>
  BY <1>1
<1>. QED
  BY <1>2 DEF Abstract!Clear

LEMMA AllocateRefines ==
    ASSUME RInv, RInv', NEW block, block \notin Live, Live' = Live \cup {block},
           \A b \in Live : held'[b] = held[b], SameWords(m', m, Live),
           m'.word[block] \in {Zero, Data}
    PROVE  Abstract!Next
<1>. DEFINE piece == Piece'
            content == Content'
            h == HeldPieces
            r == piece[block]
<1>1. Kept(Live, Piece, Content, piece, content)
  BY KeptPieces
<1>2. DOMAIN Piece = Live /\ DOMAIN piece = Live \cup {block}
  BY PieceDomains
<1>3. /\ Apart(piece) /\ content[block] \in {Zero, Data}
      /\ r \in Regions
  <2>1. Apart(piece) /\ r \in Regions
    BY PiecesApartAfter DEF PiecesSound
  <2>2. content[block] = m'.word[block]
    BY DEF Content
  <2>. QED
    BY <2>1, <2>2
<1>4. h = Held(Piece, Content) /\ HeldPieces' = Held(piece, content)
  BY DEF HeldPieces
<1>. HIDE DEF piece, content, h
<1>5. /\ \A q \in DOMAIN h : q \cap piece[block] = {}
      /\ Held(piece, content) = Joining(piece[block], content[block], h)
  BY <1>1, <1>2, <1>3, <1>4, HeldMore
<1>. HIDE DEF r
<1>6. /\ \A q \in DOMAIN h : q \cap r = {}
      /\ HeldPieces' = [q \in DOMAIN h \cup {r} |-> IF q = r THEN content[block] ELSE h[q]]
  BY <1>4, <1>5 DEF r, Joining
<1>7. Abstract!Allocate(r)
  BY <1>3, <1>6 DEF h, Abstract!Allocate, Abstract!Disjoint, Abstract!With
<1>. QED
  BY <1>3, <1>7 DEF Abstract!Next

LEMMA DeallocateRefines ==
    ASSUME RInv, NEW block \in Live, Live' = Live \ {block},
           \A b \in Live' : held'[b] = held[b], SameWords(m', m, Live')
    PROVE  Abstract!Next
<1>. DEFINE piece == Piece'
            content == Content'
            h == HeldPieces
            r == Piece[block]
<1>1. DOMAIN Piece = Live /\ DOMAIN piece = Live \ {block} /\ Apart(Piece)
  BY PieceDomains, PiecesApart DEF PiecesSound
<1>2. Kept(DOMAIN piece, Piece, Content, piece, content)
  <2>1. Live' \subseteq Live /\ DOMAIN piece = Live'
    BY <1>1
  <2>2. Kept(Live', Piece, Content, Piece', Content')
    BY <2>1, KeptPieces
  <2>. QED
    BY <2>1, <2>2
<1>3. h = Held(Piece, Content) /\ HeldPieces' = Held(piece, content)
  BY DEF HeldPieces
<1>. HIDE DEF piece, content, h
<1>4. r \in DOMAIN h /\ Held(piece, content) = Leaving(r, h)
  BY <1>1, <1>2, <1>3, HeldLess
<1>. HIDE DEF r
<1>5. Abstract!Deallocate(r)
  BY <1>3, <1>4 DEF h, Leaving, Abstract!Deallocate, Abstract!Without
<1>. QED
  BY <1>4, <1>5 DEF h, Abstract!Next

LEMMA ReallocateRefines ==
    ASSUME RInv, RInv', NEW block \in Live, Live' = Live,
           \A b \in Live \ {block} : held'[b] = held[b], SameWords(m', m, Live)
    PROVE  Abstract!Next
<1>. DEFINE piece == Piece'
            content == Content'
            h == HeldPieces
            r == Piece[block]
            s == piece[block]
<1>1. Kept(Live \ {block}, Piece, Content, piece, content)
  <2>1. SameWords(m', m, Live \ {block})
    BY DEF SameWords
  <2>. DEFINE others == Live \ {block}
  <2>2. others \subseteq Live /\ others \subseteq Live' /\ \A b \in others : held'[b] = held[b]
    OBVIOUS
  <2>3. SameWords(m', m, others)
    BY <2>1
  <2>. HIDE DEF others
  <2>4. Kept(others, Piece, Content, piece, content)
    BY <2>2, <2>3, KeptPieces
  <2>. QED
    BY <2>4 DEF others
<1>2. DOMAIN Piece = Live /\ DOMAIN piece = (Live \ {block}) \cup {block}
  BY PieceDomains
<1>3. Apart(Piece) /\ Apart(piece) /\ s \in Regions
  BY PiecesApart, PiecesApartAfter DEF PiecesSound
<1>4. content[block] = Content[block]
  BY DEF Content, SameWords
<1>5. h = Held(Piece, Content) /\ HeldPieces' = Held(piece, content)
  BY DEF HeldPieces
<1>. HIDE DEF piece, content, h
<1>6. /\ Piece[block] \in DOMAIN h
      /\ \A q \in DOMAIN h \ {Piece[block]} : q \cap piece[block] = {}
      /\ Held(piece, content) = Joining(piece[block], h[Piece[block]], Leaving(Piece[block], h))
  <2>1. block \in DOMAIN Piece /\ DOMAIN piece = (DOMAIN Piece \ {block}) \cup {block}
    BY <1>2
  <2>2. Kept(DOMAIN Piece \ {block}, Piece, Content, piece, content)
    BY <1>1, <1>2
  <2>. QED
    BY ONLY <1>3, <1>4, <1>5, <2>1, <2>2, HeldMoved
<1>7. r \in DOMAIN h /\ HeldPieces' = Joining(s, h[r], Leaving(r, h)) /\ \A q \in DOMAIN h \ {r} : q \cap s = {}
  BY <1>5, <1>6
<1>. HIDE DEF r, s
<1>8. Abstract!Reallocate(r, s)
  BY <1>7 DEF h, Joining, Leaving, Abstract!Reallocate, Abstract!Disjoint, Abstract!With, Abstract!Without
<1>. QED
  BY <1>3, <1>7, <1>8 DEF h, Abstract!Next

LEMMA WriteRefines ==
    ASSUME RInv, NEW block \in Live, held' = held, m'.word[block] = Data,
           SameWords(m', m, Live \ {block})
    PROVE  Abstract!Next
<1>. DEFINE piece == Piece'
            content == Content'
            h == HeldPieces
            r == Piece[block]
            others == Live \ {block}
<1>0. Live' = Live
  BY DEF Live
<1>1. Kept(others, Piece, Content, piece, content)
  <2>1. others \subseteq Live /\ others \subseteq Live' /\ \A b \in others : held'[b] = held[b]
    BY <1>0
  <2>2. SameWords(m', m, others)
    OBVIOUS
  <2>. HIDE DEF others
  <2>. QED
    BY <2>1, <2>2, KeptPieces
<1>2. DOMAIN Piece = Live /\ DOMAIN piece = Live /\ Apart(Piece)
  BY <1>0, PieceDomains, PiecesApart DEF PiecesSound
<1>3. piece[block] = Piece[block] /\ content[block] = Data
  BY <1>0 DEF Piece, Content
<1>4. h = Held(Piece, Content) /\ HeldPieces' = Held(piece, content)
  BY DEF HeldPieces
<1>. HIDE DEF piece, content, h
<1>5. Kept(DOMAIN Piece \ {block}, Piece, Content, piece, content)
  BY <1>1, <1>2
<1>6. /\ Piece[block] \in DOMAIN h
      /\ Held(piece, content) = [h EXCEPT ![Piece[block]] = content[block]]
  BY <1>2, <1>3, <1>4, <1>5, HeldWritten
<1>. HIDE DEF r
<1>7. r \in DOMAIN h /\ HeldPieces' = [h EXCEPT ![r] = Data]
  BY <1>3, <1>4, <1>6 DEF r
<1>8. Abstract!Write(r, Data)
  BY <1>7 DEF h, Abstract!Write
<1>. QED
  BY <1>7, <1>8 DEF h, Abstract!Next

(* What every step does to the words, to the blocks in use and to the      *)
(* size of the memory.                                                     *)
LEMMA ConstructRefines ==
    ASSUME RInv, NEW size \in BufferSizes, NEW num_bytes \in BlockBytes, NEW alignment \in Alignments,
           Construct(size, num_bytes, alignment)
    PROVE  SizeKnown' /\ HeldPieces' = HeldPieces
<1>1. size \in Nat /\ num_bytes \in Nat \ {0} /\ alignment \in Nat \ {0}
  BY BlockAllocatorAssumption
<1>2. m = Absent /\ m' = Members(size, num_bytes, alignment) /\ held' = held
  BY DEF Construct
<1>3. Live = {}
  BY <1>2, SoundIsPresent DEF RInv, IInv
<1>4. m'.size = size
  BY <1>1, <1>2, MembersGood
<1>5. HeldPieces' = HeldPieces
  BY <1>2, <1>3, StutterRefines DEF SameWords
<1>. QED
  BY <1>4, <1>5 DEF SizeKnown, Extents

LEMMA ConstructPoolRefines ==
    ASSUME RInv, NEW num_bytes \in BlockBytes, NEW alignment \in Alignments, NEW spots \in PoolSpots,
           ConstructPool(num_bytes, alignment, spots)
    PROVE  SizeKnown' /\ HeldPieces' = HeldPieces
<1>1. m = Absent /\ m' = Pool(num_bytes, alignment, spots) /\ held' = held
  BY DEF ConstructPool
<1>2. Live = {}
  BY <1>1, SoundIsPresent DEF RInv, IInv
<1>3. HeldPieces' = HeldPieces
  BY <1>1, <1>2, StutterRefines DEF SameWords
<1>4. m'.size \in Extents
  BY <1>1 DEF Extents
<1>. QED
  BY <1>3, <1>4 DEF SizeKnown

LEMMA SizeKept ==
    ASSUME SizeKnown, Running, Alike(m', m)
    PROVE  SizeKnown'
BY DEF SizeKnown, Running, Alike

LEMMA AllocateStep ==
    ASSUME RInv, NEW request \in Request, Allocate(request)
    PROVE  /\ SizeKnown' /\ SameWords(m', m, Live)
           /\ \/ held' = held
              \/ \E block : /\ block \notin Live /\ held' = With(held, block, m.blocksize)
                            /\ m'.word[block] \in {Zero, Data}
<1>1. Running /\ request.leave_nonzeroed \in BOOLEAN
  BY DEF Allocate, Request
<1>2. PICK o \in IF IsPool THEN PoolAllocateOutcomes(m, request) ELSE AllocateOutcomes(m, request) :
            m' = o.m /\ (Failed(o) \/ (Succeeded(o) /\ held' = With(held, o.block, m.blocksize)))
  BY DEF Allocate
<1>3. Sound(m, held) /\ Good(m, Live)
  BY <1>1, RunningSound DEF RInv
<1>4. /\ Alike(o.m, m) /\ SameWords(o.m, m, Live)
      /\ o.err = "success" => o.block \notin Live /\ Good(o.m, Live \cup {o.block})
  <2>1. CASE m.kind = "pool"
    <3>1. o \in PoolAllocateOutcomes(m, request) /\ DOMAIN m.word = Starts(m)
      BY <1>2, <1>3, <2>1 DEF IsPool, Sound
    <3>2. /\ Alike(o.m, m) /\ SameWords(o.m, m, Live)
          /\ \/ /\ o.err = "success" /\ o.block \in Starts(m) \ Live
                /\ Good(o.m, Live \cup {o.block})
             \/ o.err \in Error \cup {"aligned_block"} /\ Good(o.m, Live)
      BY <1>1, <1>3, <3>1, PoolAllocateGood
    <3>. QED
      BY <3>2 DEF Error
  <2>2. CASE m.kind # "pool"
    <3>1. o \in AllocateOutcomes(m, request)
      BY <1>2, <2>2 DEF IsPool
    <3>2. Alike(o.m, m) /\ (Taken(o, m, Live) \/ Refused(o, m, Live, request))
      BY <1>1, <1>3, <3>1, AllocateOutcome
    <3>3. SameWords(o.m, m, Live)
      BY <1>1, <1>3, <3>1, AllocateKeeps
    <3>. QED
      BY <3>2, <3>3 DEF Taken, Refused, Error
  <2>. QED
    BY <2>1, <2>2
<1>5. SizeKnown'
  BY <1>1, <1>2, <1>4, SizeKept DEF RInv
<1>6. CASE Failed(o)
  BY <1>2, <1>4, <1>5, <1>6 DEF Failed
<1>7. CASE Succeeded(o) /\ held' = With(held, o.block, m.blocksize)
  <2>1. o.block \notin Live /\ m'.word[o.block] \in {Zero, Data}
    BY <1>2, <1>4, <1>7 DEF Succeeded, Good
  <2>. QED
    BY <1>2, <1>4, <1>5, <1>7, <2>1
<1>. QED
  BY <1>2, <1>6, <1>7

LEMMA DeallocateStep ==
    ASSUME RInv, "inner_pointers" \notin BrokenUses, NEW block \in Live, NEW offset \in 0 .. MaxRequest,
           Deallocate(block, offset)
    PROVE  SizeKnown' /\ SameWords(m', m, Live \ {block}) /\ held' = [b \in Live \ {block} |-> held[b]]
<1>. DEFINE o == IF IsPool THEN PoolDeallocateOutcome(m, block + offset)
                           ELSE DeallocateOutcome(m, block + offset)
<1>1. /\ Running /\ offset < m.blocksize /\ (IsPool => offset = 0)
      /\ m' = o.m
      /\ Failed(o) \/ (Succeeded(o) /\ held' = [b \in Live \ {block} |-> held[b]])
  BY DEF Deallocate
<1>2. Sound(m, held) /\ Good(m, Live) /\ m.blocksize \in Nat \ {0}
  BY <1>1, RunningSound DEF RInv
<1>3. o.err = "success" /\ Alike(o.m, m) /\ SameWords(o.m, m, Live \ {block})
  <2>1. CASE m.kind = "pool"
    <3>1. block \in Int
      BY <1>2 DEF Good, Words
    <3>2. o = PoolDeallocateOutcome(m, block)
      BY <1>1, <2>1, <3>1 DEF IsPool
    <3>. HIDE DEF o
    <3>3. o.err = "success" /\ Good(o.m, Live \ {block}) /\ Alike(o.m, m)
          /\ DOMAIN o.m.word = DOMAIN m.word /\ SameWords(o.m, m, Live \ {block})
      BY <1>2, <3>2, PoolDeallocateGood
    <3>. QED
      BY <3>3
  <2>2. CASE m.kind # "pool"
    <3>1. o = DeallocateOutcome(m, block + offset)
      BY <2>2 DEF IsPool
    <3>2. offset \in 0 .. m.blocksize - 1
      BY <1>1, <1>2
    <3>. HIDE DEF o
    <3>3. o.err = "success" /\ Good(o.m, Live \ {block}) /\ Alike(o.m, m)
      BY <1>2, <3>1, <3>2, DeallocateOutcomeGood
    <3>4. SameWords(o.m, m, Live \ {block})
      BY <1>2, <3>1, <3>2, DeallocateKeeps
    <3>. QED
      BY <3>3, <3>4
  <2>. QED
    BY <2>1, <2>2
<1>. HIDE DEF o
<1>4. held' = [b \in Live \ {block} |-> held[b]]
  BY <1>1, <1>3 DEF Failed
<1>5. SizeKnown'
  BY <1>1, <1>3, SizeKept DEF RInv
<1>. QED
  BY <1>1, <1>3, <1>4, <1>5

LEMMA ReallocateStep ==
    ASSUME RInv, NEW block \in Live, NEW new_size \in Sizes, NEW preferred \in 0 .. MaxRequest,
           NEW leave \in BOOLEAN, Reallocate(block, new_size, preferred, leave)
    PROVE  m' = m /\ (held' = held \/ \E size : held' = [held EXCEPT ![block] = size])
<1>. DEFINE request == [memory |-> block, size |-> held[block], new_size |-> new_size,
                        preferred |-> preferred, leave_nonzeroed |-> leave]
            o == IF IsPool THEN PoolReallocateOutcome(m, request) ELSE ReallocateOutcome(m, request)
<1>1. m' = o.m /\ (Failed(o) \/ (Succeeded(o) /\ held' = [held EXCEPT ![block] = o.size]))
  BY DEF Reallocate
<1>2. o.m = m
  BY DEF PoolReallocateOutcome, ReallocateOutcome
<1>. HIDE DEF o
<1>. QED
  BY <1>1, <1>2 DEF Failed

(* Construction, growth and refused calls change nothing that Memory sees; *)
(* every other call is the operation of Memory with its name.              *)
LEMMA StepRefines ==
    ASSUME RInv, RInv', "inner_pointers" \notin BrokenUses, Next
    PROVE  [Abstract!Next]_HeldPieces
<1>1. ASSUME NEW size \in BufferSizes, NEW n \in BlockBytes, NEW a \in Alignments, Construct(size, n, a)
      PROVE  HeldPieces' = HeldPieces
  BY <1>1, ConstructRefines
<1>2. ASSUME NEW n \in BlockBytes, NEW a \in Alignments, NEW spots \in PoolSpots, ConstructPool(n, a, spots)
      PROVE  HeldPieces' = HeldPieces
  BY <1>2, ConstructPoolRefines
<1>3. ASSUME NEW request \in Request, Allocate(request) PROVE [Abstract!Next]_HeldPieces
  <2>1. /\ SizeKnown' /\ SameWords(m', m, Live)
        /\ \/ held' = held
           \/ \E block : /\ block \notin Live /\ held' = With(held, block, m.blocksize)
                         /\ m'.word[block] \in {Zero, Data}
    BY <1>3, AllocateStep
  <2>2. CASE held' = held
    BY <2>1, <2>2, StutterRefines
  <2>3. ASSUME NEW block, block \notin Live, held' = With(held, block, m.blocksize),
               m'.word[block] \in {Zero, Data}
        PROVE  Abstract!Next
    <3>1. Live' = Live \cup {block} /\ \A b \in Live : held'[b] = held[b]
      BY <2>3 DEF With, Live
    <3>. QED
      BY <2>1, <2>3, <3>1, AllocateRefines
  <2>. QED
    BY <2>1, <2>2, <2>3
<1>4. ASSUME NEW block \in Live, NEW offset \in 0 .. MaxRequest, Deallocate(block, offset)
      PROVE  Abstract!Next
  <2>1. SameWords(m', m, Live \ {block}) /\ held' = [b \in Live \ {block} |-> held[b]]
    BY <1>4, DeallocateStep
  <2>2. Live' = Live \ {block} /\ \A b \in Live' : held'[b] = held[b]
    BY <2>1 DEF Live
  <2>. QED
    BY <2>1, <2>2, DeallocateRefines
<1>5. ASSUME NEW block \in Live, NEW new_size \in Sizes, NEW preferred \in 0 .. MaxRequest,
             NEW leave \in BOOLEAN, Reallocate(block, new_size, preferred, leave)
      PROVE  [Abstract!Next]_HeldPieces
  <2>1. m' = m /\ (held' = held \/ \E size : held' = [held EXCEPT ![block] = size])
    BY <1>5, ReallocateStep
  <2>2. SameWords(m', m, Live)
    BY <2>1 DEF SameWords
  <2>3. CASE held' = held
    BY <2>2, <2>3, StutterRefines
  <2>4. CASE \E size : held' = [held EXCEPT ![block] = size]
    <3>1. Live' = Live /\ \A b \in Live \ {block} : held'[b] = held[b]
      BY <2>4 DEF Live
    <3>. QED
      BY <2>2, <3>1, ReallocateRefines
  <2>. QED
    BY <2>1, <2>3, <2>4
<1>6. ASSUME NEW block \in Live, Write(block) PROVE Abstract!Next
  <2>1. Running /\ m' = [m EXCEPT !.word[block] = Data] /\ held' = held
    BY <1>6 DEF Write
  <2>2. Good(m, Live)
    BY <2>1, RunningSound DEF RInv
  <2>3. m'.word = [m.word EXCEPT ![block] = Data] /\ block \in DOMAIN m.word
    BY <2>1, <2>2 DEF Good, Fields, Words
  <2>4. m'.word[block] = Data /\ SameWords(m', m, Live \ {block})
    BY <2>2, <2>3 DEF SameWords, Good, Words
  <2>. QED
    BY <2>1, <2>4, WriteRefines
<1>7. CASE Clear \/ Destroy
  <2>1. held' = << >>
    BY <1>7 DEF Clear, Destroy
  <2>2. Live' = {}
    BY <2>1 DEF Live
  <2>. QED
    BY <2>2, NoneRefines DEF Abstract!Next
<1>. QED
  BY <1>1, <1>2, <1>3, <1>4, <1>5, <1>6, <1>7 DEF Next

LEMMA SizeInvariant ==
    ASSUME RInv, "inner_pointers" \notin BrokenUses, [Next]_vars
    PROVE  SizeKnown'
<1>1. ASSUME NEW size \in BufferSizes, NEW n \in BlockBytes, NEW a \in Alignments, Construct(size, n, a)
      PROVE  SizeKnown'
  BY <1>1, ConstructRefines
<1>2. ASSUME NEW n \in BlockBytes, NEW a \in Alignments, NEW spots \in PoolSpots, ConstructPool(n, a, spots)
      PROVE  SizeKnown'
  BY <1>2, ConstructPoolRefines
<1>3. ASSUME NEW request \in Request, Allocate(request) PROVE SizeKnown'
  BY <1>3, AllocateStep
<1>4. ASSUME NEW block \in Live, NEW offset \in 0 .. MaxRequest, Deallocate(block, offset)
      PROVE  SizeKnown'
  BY <1>4, DeallocateStep
<1>5. ASSUME NEW block \in Live, NEW new_size \in Sizes, NEW preferred \in 0 .. MaxRequest,
             NEW leave \in BOOLEAN, Reallocate(block, new_size, preferred, leave)
      PROVE  SizeKnown'
  <2>1. m' = m
    BY <1>5, ReallocateStep
  <2>. QED
    BY <2>1 DEF RInv, SizeKnown
<1>6. ASSUME NEW block \in Live, Write(block) PROVE SizeKnown'
  <2>1. Running /\ m' = [m EXCEPT !.word[block] = Data]
    BY <1>6 DEF Write
  <2>2. Good(m, Live)
    BY <2>1, RunningSound DEF RInv
  <2>3. Alike(m', m)
    BY <2>1, <2>2 DEF Good, Fields, Alike
  <2>. QED
    BY <2>1, <2>3, SizeKept DEF RInv
<1>7. CASE Clear
  <2>1. Running /\ m' = Cleared(m)
    BY <1>7 DEF Clear
  <2>2. Good(m, Live)
    BY <2>1, RunningSound DEF RInv
  <2>3. Good(m', {}) /\ Alike(m', m) /\ DOMAIN m'.word = DOMAIN m.word
    BY <2>1, <2>2, ClearedGood
  <2>. QED
    BY <2>1, <2>3, SizeKept DEF RInv
<1>8. CASE Destroy
  BY <1>8 DEF Destroy, SizeKnown
<1>9. CASE UNCHANGED vars
  BY <1>9 DEF vars, RInv, SizeKnown
<1>. QED
  BY <1>1, <1>2, <1>3, <1>4, <1>5, <1>6, <1>7, <1>8, <1>9 DEF Next

(***************************************************************************)
(* ImplementsMemory: whatever the sizes of the buffers, blocks and         *)
(* requests, the slices that the program holds never overlap, and what it  *)
(* wrote to one is there until it writes again or gives the slice back,    *)
(* although the free list lives in the same memory.                        *)
(***************************************************************************)
THEOREM ImplementsMemoryCorrect ==
    ASSUME "inner_pointers" \notin BrokenUses
    PROVE  Spec => ImplementsMemory
<1>1. Init => SizeKnown /\ Abstract!Init
  <2>1. Init => DOMAIN HeldPieces = {} /\ HeldPieces = [r \in DOMAIN HeldPieces |-> HeldPieces[r]]
    <3>1. DOMAIN << >> = {}
      OBVIOUS
    <3>. QED
      BY <3>1 DEF Init, HeldPieces, Held, Piece, Live
  <2>2. Init => HeldPieces = << >>
    BY <2>1
  <2>. QED
    BY <2>2 DEF Init, SizeKnown, Abstract!Init
<1>2. IInv /\ SizeKnown /\ [Next]_vars => SizeKnown'
  BY SizeInvariant DEF RInv
<1>3. IInv /\ SizeKnown /\ IInv' /\ SizeKnown' /\ [Next]_vars => [Abstract!Next]_HeldPieces
  <2>. SUFFICES ASSUME IInv, SizeKnown, IInv', SizeKnown', [Next]_vars
                PROVE  [Abstract!Next]_HeldPieces
    OBVIOUS
  <2>1. CASE Next
    BY <2>1, StepRefines DEF RInv
  <2>2. CASE UNCHANGED vars
    BY <2>2 DEF vars, HeldPieces, Piece, Content, Live
  <2>. QED
    BY <2>1, <2>2
<1>. QED
  BY <1>1, <1>2, <1>3, Inductive, PTL DEF Spec, ImplementsMemory, Abstract!Spec
=============================================================================
