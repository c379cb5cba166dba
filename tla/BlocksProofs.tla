---------------------------- MODULE BlocksProofs ----------------------------
(***************************************************************************)
(* Lemmas about Blocks: lists of addresses, and what the functions of a    *)
(* block allocator do to its free list.                                    *)
(***************************************************************************)
EXTENDS Blocks, Pieces, FiniteSetTheorems, TLAPS

-----------------------------------------------------------------------------
(* Induction over a range of numbers; a property of numbers is the set of  *)
(* those that have it.                                                     *)

(* A set that has a and, with a number below b, the next one has a .. b:   *)
(* if b were not in it, adding 1 would map the finite set of its elements  *)
(* from a to b into itself, one to one and hence onto, and a would have a  *)
(* predecessor there.                                                      *)
LEMMA IntervalInduction ==
  ASSUME NEW a \in Int, NEW b \in Int, NEW S, a \in S,
         \A x \in S : x \in a .. b - 1 => x + 1 \in S
  PROVE  a .. b \subseteq S
<1>. SUFFICES ASSUME NEW y \in a .. b, y \notin S PROVE FALSE
  OBVIOUS
<1>. DEFINE A == (a .. y) \cap S
            f == [x \in A |-> x + 1]
<1>1. a \in A /\ A \subseteq a .. y - 1
  OBVIOUS
<1>2. \A x \in A : x + 1 \in A
  BY <1>1
<1>3. IsFiniteSet(A)
  <2>1. IsFiniteSet(a .. y)
    BY FS_Interval
  <2>. QED
    BY <2>1, FS_Subset
<1>4. f \in Injection(A, A)
  BY <1>2 DEF Injection, IsInjective
<1>5. f \in Surjection(A, A)
  BY <1>3, <1>4, FS_Injection
<1>6. PICK x \in A : f[x] = a
  BY <1>1, <1>5 DEF Surjection
<1>. QED
  BY <1>6

-----------------------------------------------------------------------------
(* Lists.                                                                  *)

(* The links of a list that starts at first lead neither back to it, nor   *)
(* two of them to the same place.                                          *)
Chain(first, succ) ==
    /\ first \in DOMAIN succ \cup {Null}
    /\ \A b \in Listed(first, succ) : succ[b] \in DOMAIN succ \cup {Null} /\ succ[b] # first
    /\ \A b, c \in Listed(first, succ) : b # c => succ[b] # succ[c]

LEMMA ListedFacts ==
    ASSUME NEW first, NEW succ
    PROVE  /\ Listed(first, succ) \subseteq DOMAIN succ
           /\ first \in DOMAIN succ => first \in Listed(first, succ)
           /\ \A b \in Listed(first, succ) : succ[b] \in DOMAIN succ => succ[b] \in Listed(first, succ)
BY DEF Listed

LEMMA ListedLeast ==
    ASSUME NEW first, NEW succ, NEW S, S \subseteq DOMAIN succ,
           first \in DOMAIN succ => first \in S,
           \A b \in S : succ[b] \in DOMAIN succ => succ[b] \in S
    PROVE  Listed(first, succ) \subseteq S
BY DEF Listed

(* A list depends on the links of its elements only. *)
LEMMA ListedSame ==
    ASSUME NEW first, NEW succ, NEW next, DOMAIN next = DOMAIN succ,
           \A b \in Listed(first, succ) : next[b] = succ[b]
    PROVE  Listed(first, next) = Listed(first, succ)
<1>. DEFINE L == Listed(first, succ)
            M == Listed(first, next)
<1>1. /\ L \subseteq DOMAIN succ /\ (first \in DOMAIN succ => first \in L)
      /\ \A b \in L : succ[b] \in DOMAIN succ => succ[b] \in L
  BY ListedFacts
<1>2. /\ M \subseteq DOMAIN succ /\ (first \in DOMAIN succ => first \in M)
      /\ \A b \in M : next[b] \in DOMAIN succ => next[b] \in M
  BY ListedFacts
<1>3. M \subseteq L
  <2>1. \A b \in L : next[b] \in DOMAIN next => next[b] \in L
    BY <1>1
  <2>. HIDE DEF L
  <2>. QED
    BY <1>1, <2>1, ListedLeast
<1>4. L \subseteq L \cap M
  <2>. DEFINE S == L \cap M
  <2>1. S \subseteq DOMAIN succ /\ (first \in DOMAIN succ => first \in S)
    BY <1>1, <1>2
  <2>2. \A b \in S : succ[b] \in DOMAIN succ => succ[b] \in S
    BY <1>1, <1>2
  <2>. HIDE DEF S
  <2>3. L \subseteq S
    BY <2>1, <2>2, ListedLeast
  <2>. QED
    BY <2>3 DEF S
<1>. QED
  BY <1>3, <1>4

LEMMA ChainSame ==
    ASSUME NEW first, NEW succ, Chain(first, succ), NEW next, DOMAIN next = DOMAIN succ,
           \A b \in Listed(first, succ) : next[b] = succ[b]
    PROVE  Chain(first, next) /\ Listed(first, next) = Listed(first, succ)
BY ListedSame DEF Chain

(* Taking the first element; what is written to it does not matter. *)
LEMMA ListPopped ==
    ASSUME NEW succ, NEW first \in DOMAIN succ, Chain(first, succ),
           NEW next, DOMAIN next = DOMAIN succ, \A b \in DOMAIN succ \ {first} : next[b] = succ[b],
           NEW second, second = succ[first]
    PROVE  Chain(second, next) /\ Listed(second, next) = Listed(first, succ) \ {first}
<1>. DEFINE L == Listed(first, succ)
            M == Listed(second, succ)
<1>1. /\ L \subseteq DOMAIN succ /\ first \in L
      /\ \A b \in L : succ[b] \in DOMAIN succ => succ[b] \in L
  BY ListedFacts
<1>2. /\ M \subseteq DOMAIN succ /\ (second \in DOMAIN succ => second \in M)
      /\ \A b \in M : succ[b] \in DOMAIN succ => succ[b] \in M
  BY ListedFacts
<1>3. \A b \in L : succ[b] \in DOMAIN succ \cup {Null} /\ succ[b] # first
  BY DEF Chain
<1>4. M \subseteq L \ {first}
  <2>. DEFINE S == L \ {first}
  <2>1. S \subseteq DOMAIN succ /\ (second \in DOMAIN succ => second \in S)
    BY <1>1, <1>3
  <2>2. \A b \in S : succ[b] \in DOMAIN succ => succ[b] \in S
    BY <1>1, <1>3
  <2>. HIDE DEF S
  <2>3. M \subseteq S
    BY <2>1, <2>2, ListedLeast
  <2>. QED
    BY <2>3 DEF S
<1>5. L \subseteq M \cup {first}
  <2>. DEFINE S == M \cup {first}
  <2>1. S \subseteq DOMAIN succ /\ first \in S
    BY <1>2
  <2>2. \A b \in S : succ[b] \in DOMAIN succ => succ[b] \in S
    BY <1>2
  <2>. HIDE DEF S
  <2>3. L \subseteq S
    BY <2>1, <2>2, ListedLeast
  <2>. QED
    BY <2>3 DEF S
<1>6. M = L \ {first}
  BY <1>4, <1>5
<1>7. Chain(second, succ)
  <2>1. second \in DOMAIN succ \cup {Null}
    BY <1>1, <1>3
  <2>2. \A b \in M : succ[b] # second
    BY <1>1, <1>6 DEF Chain
  <2>. QED
    BY <1>3, <1>6, <2>1, <2>2 DEF Chain
<1>8. \A b \in M : next[b] = succ[b]
  BY <1>2, <1>6
<1>. HIDE DEF L, M
<1>9. Chain(second, next) /\ Listed(second, next) = M
  BY <1>7, <1>8, ChainSame DEF M
<1>. QED
  BY <1>6, <1>9 DEF L, M

(* Putting an element in front. *)
LEMMA ListPushed ==
    ASSUME NEW succ, NEW first, Chain(first, succ), Null \notin DOMAIN succ,
           NEW b \in DOMAIN succ, b \notin Listed(first, succ),
           NEW next, DOMAIN next = DOMAIN succ, next[b] = first,
           \A c \in DOMAIN succ \ {b} : next[c] = succ[c]
    PROVE  Chain(b, next) /\ Listed(b, next) = Listed(first, succ) \cup {b}
<1>. DEFINE L == Listed(first, succ)
            M == Listed(b, next)
            S == L \cup {b}
<1>1. /\ L \subseteq DOMAIN succ /\ (first \in DOMAIN succ => first \in L)
      /\ \A c \in L : succ[c] \in DOMAIN succ => succ[c] \in L
  BY ListedFacts
<1>2. /\ M \subseteq DOMAIN succ /\ b \in M
      /\ \A c \in M : next[c] \in DOMAIN succ => next[c] \in M
  BY ListedFacts
<1>3. M \subseteq S
  <2>1. S \subseteq DOMAIN succ /\ b \in S
    BY <1>1
  <2>2. \A c \in S : next[c] \in DOMAIN succ => next[c] \in S
    BY <1>1
  <2>. HIDE DEF S
  <2>. QED
    BY <2>1, <2>2, ListedLeast
<1>4. L \subseteq L \cap M
  <2>. DEFINE T == L \cap M
  <2>1. T \subseteq DOMAIN succ /\ (first \in DOMAIN succ => first \in T)
    BY <1>1, <1>2
  <2>2. \A c \in T : succ[c] \in DOMAIN succ => succ[c] \in T
    BY <1>1, <1>2
  <2>. HIDE DEF T
  <2>3. L \subseteq T
    BY <2>1, <2>2, ListedLeast
  <2>. QED
    BY <2>3 DEF T
<1>5. M = S
  BY <1>2, <1>3, <1>4
<1>6. /\ first \in DOMAIN succ \cup {Null}
      /\ \A c \in L : succ[c] \in DOMAIN succ \cup {Null} /\ succ[c] # first
      /\ \A c, d \in L : c # d => succ[c] # succ[d]
  BY DEF Chain
<1>7. \A c \in M : next[c] \in DOMAIN next \cup {Null} /\ next[c] # b
  <2>. TAKE c \in M
  <2>1. CASE c = b
    BY <1>1, <1>6, <2>1
  <2>2. CASE c # b
    <3>1. c \in L /\ next[c] = succ[c]
      BY <1>1, <1>5, <2>2
    <3>. QED
      BY <1>1, <1>6, <3>1
  <2>. QED
    BY <2>1, <2>2
<1>8. \A c, d \in M : c # d => next[c] # next[d]
  BY <1>1, <1>5, <1>6
<1>. QED
  BY <1>5, <1>7, <1>8 DEF Chain

LEMMA Division ==
    ASSUME NEW x \in Nat, NEW d \in Nat \ {0}
    PROVE  \E q \in Nat : \E r \in 0 .. d - 1 : q = x \div d /\ r = x % d /\ x = d * q + r
<1>. DEFINE q == x \div d
            r == x % d
<1>0. q = x \div d /\ r = x % d
  OBVIOUS
<1>. HIDE DEF q, r
<1>1. q \in Int /\ r \in 0 .. d - 1 /\ x = d * q + r
  BY <1>0
<1>2. q <= -1 => d * q <= -d
  BY <1>1
<1>3. q \in Nat
  BY <1>1, <1>2
<1>. QED
  BY <1>0, <1>1, <1>3

LEMMA Quotient ==
    ASSUME NEW d \in Nat \ {0}, NEW k \in Nat, NEW r \in 0 .. d - 1, NEW x, x = k * d + r
    PROVE  x \div d = k /\ x % d = r
<1>. DEFINE e == x \div d
            t == x % d
<1>1. x \in Nat
  <2>1. k * d \in Nat
    OBVIOUS
  <2>. QED
    BY <2>1
<1>2. e \in Nat /\ t \in 0 .. d - 1 /\ x = d * e + t
  <2>1. e = x \div d /\ t = x % d
    OBVIOUS
  <2>. HIDE DEF e, t
  <2>. QED
    BY ONLY <1>1, <2>1, d \in Nat \ {0}, Division
<1>. HIDE DEF e, t
<1>3. d * (e - k) = r - t
  BY <1>2
<1>4. e - k >= 1 => d * (e - k) >= d
  BY <1>2
<1>5. e - k <= -1 => d * (e - k) <= -d
  BY <1>2
<1>6. e = k
  BY <1>2, <1>3, <1>4, <1>5
<1>7. t = r
  BY <1>2, <1>6
<1>. QED
  BY <1>6, <1>7 DEF e, t

(* Addresses at a distance. *)
Nth(a, step, i) == a + i * step

LEMMA NthFacts ==
    ASSUME NEW a \in Int, NEW step \in Int \ {0}, NEW i \in Int, NEW j \in Int
    PROVE  /\ Nth(a, step, i) \in Int
           /\ Nth(a, step, i) = Nth(a, step, j) => i = j
           /\ Nth(a, step, 0) = a
           /\ Nth(a, step, i - 1) = Nth(a, step, i) - step
<1>1. i * step \in Int /\ j * step \in Int /\ (i - j) * step = i * step - j * step
  OBVIOUS
<1>2. (i - j) * step = 0 => i - j = 0
  OBVIOUS
<1>3. (i - 1) * step = i * step - step /\ 0 * step = 0
  OBVIOUS
<1>. QED
  BY <1>1, <1>2, <1>3 DEF Nth

NthSet(a, step, n) == {Nth(a, step, i) : i \in 0 .. n - 1}

(* A new list of n blocks, each linked to the one before it. *)
LEMMA ListFresh ==
    ASSUME NEW a \in Int, NEW step \in Int \ {0}, NEW n \in Nat \ {0},
           NEW succ, DOMAIN succ \subseteq Int, Null \notin Int,
           \A i \in 0 .. n - 1 : Nth(a, step, i) \in DOMAIN succ,
           succ[a] = Null, \A i \in 1 .. n - 1 : succ[Nth(a, step, i)] = Nth(a, step, i - 1),
           NEW first, first = Nth(a, step, n - 1)
    PROVE  Chain(first, succ) /\ Listed(first, succ) = NthSet(a, step, n)
<1>. DEFINE F == {Nth(a, step, i) : i \in 0 .. n - 1}
            L == Listed(first, succ)
<1>1. \A i, j \in 0 .. n - 1 : Nth(a, step, i) = Nth(a, step, j) => i = j
  BY NthFacts
<1>2. Nth(a, step, 0) = a
  BY NthFacts
<1>3. \A i \in 0 .. n - 1 : succ[Nth(a, step, i)] = IF i = 0 THEN Null ELSE Nth(a, step, i - 1)
  BY <1>2
<1>4. L \subseteq F
  <2>1. F \subseteq DOMAIN succ /\ first \in F
    OBVIOUS
  <2>2. \A b \in F : succ[b] \in DOMAIN succ => succ[b] \in F
    BY <1>3
  <2>. HIDE DEF F
  <2>. QED
    BY <2>1, <2>2, ListedLeast
<1>5. F \subseteq L
  <2>. DEFINE S == {k \in 0 .. n - 1 : Nth(a, step, n - 1 - k) \in L}
  <2>1. first \in L /\ \A b \in L : succ[b] \in DOMAIN succ => succ[b] \in L
    BY ListedFacts
  <2>2. 0 \in S
    BY <2>1
  <2>3. \A k \in S : k \in 0 .. n - 1 - 1 => k + 1 \in S
    <3>. SUFFICES ASSUME NEW k \in S, k \in 0 .. n - 1 - 1 PROVE k + 1 \in S
      OBVIOUS
    <3>1. n - 1 - k \in 1 .. n - 1 /\ n - 1 - k - 1 = n - 1 - (k + 1) /\ n - 1 - (k + 1) \in 0 .. n - 1
      OBVIOUS
    <3>2. succ[Nth(a, step, n - 1 - k)] = Nth(a, step, n - 1 - (k + 1))
      BY <3>1
    <3>3. Nth(a, step, n - 1 - (k + 1)) \in L
      BY <2>1, <3>1, <3>2
    <3>. QED
      BY <3>3
  <2>. HIDE DEF S
  <2>4. 0 .. n - 1 \subseteq S
    BY <2>2, <2>3, IntervalInduction
  <2>5. \A i \in 0 .. n - 1 : n - 1 - i \in 0 .. n - 1 /\ n - 1 - (n - 1 - i) = i
    OBVIOUS
  <2>6. \A i \in 0 .. n - 1 : Nth(a, step, i) \in L
    BY <2>4, <2>5 DEF S
  <2>. QED
    BY <2>6
<1>6. L = F
  BY <1>4, <1>5
<1>7. \A b \in F : succ[b] \in DOMAIN succ \cup {Null} /\ succ[b] # first
  <2>. SUFFICES ASSUME NEW i \in 0 .. n - 1, NEW b, b = Nth(a, step, i)
                PROVE  succ[b] \in DOMAIN succ \cup {Null} /\ succ[b] # first
    OBVIOUS
  <2>1. CASE i = 0
    BY <1>3, <2>1
  <2>2. CASE i # 0
    <3>1. i - 1 \in 0 .. n - 1 /\ i - 1 # n - 1 /\ n - 1 \in 0 .. n - 1
      BY <2>2
    <3>. QED
      BY <1>1, <1>3, <2>2, <3>1
  <2>. QED
    BY <2>1, <2>2
<1>8. \A b, c \in F : b # c => succ[b] # succ[c]
  <2>. SUFFICES ASSUME NEW i \in 0 .. n - 1, NEW j \in 0 .. n - 1, NEW b, b = Nth(a, step, i),
                       NEW c, c = Nth(a, step, j), b # c
                PROVE  succ[b] # succ[c]
    OBVIOUS
  <2>1. i # j
    OBVIOUS
  <2>2. CASE i = 0
    <3>1. succ[b] = Null /\ succ[c] = Nth(a, step, j - 1) /\ j - 1 \in 0 .. n - 1
      BY <1>3, <2>1, <2>2
    <3>. QED
      BY <3>1
  <2>3. CASE j = 0
    <3>1. succ[c] = Null /\ succ[b] = Nth(a, step, i - 1) /\ i - 1 \in 0 .. n - 1
      BY <1>3, <2>1, <2>3
    <3>. QED
      BY <3>1
  <2>4. CASE i # 0 /\ j # 0
    <3>1. i - 1 \in 0 .. n - 1 /\ j - 1 \in 0 .. n - 1 /\ i - 1 # j - 1
      BY <2>1, <2>4
    <3>. QED
      BY <1>1, <1>3, <2>4, <3>1
  <2>. QED
    BY <2>2, <2>3, <2>4
<1>9. first \in DOMAIN succ
  OBVIOUS
<1>. HIDE DEF F, L
<1>10. Chain(first, succ)
  BY <1>6, <1>7, <1>8, <1>9 DEF Chain, L
<1>. QED
  BY <1>6, <1>10 DEF F, L, NthSet

-----------------------------------------------------------------------------
(* The functions of a block allocator.                                     *)

Fields == {"kind", "size", "align", "blocksize", "word", "head"}

SizesFit(m) ==
    /\ m.blocksize \in Nat \ {0} /\ m.size \in Nat /\ m.align \in Nat \ {0}
    /\ \E k \in Nat : m.blocksize = k * m.align

(* The addresses at which a block may start, in the buffer or behind it. *)
Grid(m) == {k * m.blocksize : k \in Nat}

Words(m) ==
    /\ DOMAIN m.word \subseteq Int \cap Grid(m) /\ Starts(m) \subseteq DOMAIN m.word
    /\ \A b \in DOMAIN m.word : m.word[b] \in DOMAIN m.word \cup {Null, Zero, Data}

(* An allocator of whose blocks live are in use: they hold no links. The   *)
(* others, and memory that a growth has added, form the free list.         *)
Good(m, live) ==
    /\ Fields \subseteq DOMAIN m /\ SizesFit(m) /\ Words(m)
    /\ live \subseteq Starts(m) /\ \A b \in live : m.word[b] \in {Zero, Data}
    /\ Chain(m.head, m.word)
    /\ FreeBlocks(m) \cap Starts(m) = Starts(m) \ live

(* What no function changes. *)
Alike(u, m) ==
    u.kind = m.kind /\ u.size = m.size /\ u.align = m.align /\ u.blocksize = m.blocksize

(* The words of these blocks are the same in u as in m. *)
SameWords(u, m, blocks) == \A b \in blocks : u.word[b] = m.word[b]

(* u is m with other words and another head. *)
Rewritten(u, m, word, head) ==
    /\ Fields \subseteq DOMAIN u /\ Alike(u, m) /\ u.word = word /\ u.head = head

LEMMA RewrittenStarts ==
    ASSUME NEW m, NEW u, Alike(u, m)
    PROVE  Starts(u) = Starts(m) /\ Grid(u) = Grid(m) /\ (SizesFit(m) => SizesFit(u))
BY DEF Alike, Starts, Grid, SizesFit

LEMMA NullIsNoAddress == Null \notin Int
BY BlocksAssumption

LEMMA PoppedGood ==
    ASSUME NEW m, NEW live, Good(m, live), m.head \in Starts(m), NEW leave \in BOOLEAN,
           NEW u, u = Popped(m, leave)
    PROVE  Good(u, live \cup {m.head}) /\ Alike(u, m) /\ m.head \notin live
           /\ DOMAIN u.word = DOMAIN m.word
<1>. DEFINE w == [m.word EXCEPT ![m.head] = IF leave THEN Data ELSE Zero]
<1>1. Rewritten(u, m, w, m.word[m.head])
  BY DEF Popped, Rewritten, Alike, Good, Fields
<1>2. /\ DOMAIN w = DOMAIN m.word /\ w[m.head] \in {Data, Zero}
      /\ \A b \in DOMAIN m.word \ {m.head} : w[b] = m.word[b]
  BY DEF Good, Words
<1>. HIDE DEF w
<1>3. m.head \in DOMAIN m.word /\ Chain(m.head, m.word)
  BY DEF Good, Words
<1>4. /\ Chain(u.head, u.word)
      /\ FreeBlocks(u) = FreeBlocks(m) \ {m.head}
  BY <1>1, <1>2, <1>3, ListPopped DEF Rewritten, FreeBlocks
<1>5. m.head \in FreeBlocks(m)
  BY <1>3, ListedFacts DEF FreeBlocks
<1>6. Starts(u) = Starts(m) /\ Grid(u) = Grid(m) /\ SizesFit(u)
  BY <1>1, RewrittenStarts DEF Rewritten, Good
<1>7. Words(u)
  BY <1>1, <1>2, <1>6 DEF Rewritten, Good, Words
<1>8. m.head \notin live
  BY <1>5 DEF Good
<1>9. live \subseteq Starts(m) /\ m.head \in Starts(m)
  BY DEF Good
<1>10. \A b \in live \cup {m.head} : u.word[b] \in {Zero, Data}
  BY <1>1, <1>2, <1>8 DEF Good, Words, Rewritten
<1>. QED
  BY <1>1, <1>2, <1>4, <1>5, <1>6, <1>7, <1>8, <1>9, <1>10 DEF Good, Rewritten

LEMMA PushedGood ==
    ASSUME NEW m, NEW live, Good(m, live), NEW block \in live,
           NEW w, DOMAIN w = DOMAIN m.word, w[block] = m.head,
           \A b \in DOMAIN m.word \ {block} : w[b] = m.word[b],
           NEW u, Rewritten(u, m, w, block)
    PROVE  Good(u, live \ {block})
<1>1. /\ block \in DOMAIN m.word /\ block \in Starts(m) /\ block \notin FreeBlocks(m)
      /\ Chain(m.head, m.word) /\ Null \notin DOMAIN m.word
  BY NullIsNoAddress DEF Good, Words
<1>2. Chain(block, w) /\ Listed(block, w) = FreeBlocks(m) \cup {block}
  BY <1>1, ListPushed DEF FreeBlocks
<1>3. Starts(u) = Starts(m) /\ Grid(u) = Grid(m) /\ SizesFit(u)
  BY RewrittenStarts DEF Rewritten, Good
<1>4. m.head \in DOMAIN m.word \cup {Null}
  BY <1>1 DEF Chain
<1>5. Words(u)
  BY <1>3, <1>4 DEF Rewritten, Good, Words
<1>6. \A b \in live \ {block} : u.word[b] \in {Zero, Data}
  BY DEF Good, Words, Rewritten
<1>. QED
  BY <1>1, <1>2, <1>3, <1>5, <1>6 DEF Good, Rewritten, FreeBlocks

LEMMA PushGood ==
    ASSUME NEW m, NEW live, Good(m, live), NEW block \in live, NEW u, u = Push(m, block)
    PROVE  Good(u, live \ {block}) /\ Alike(u, m) /\ DOMAIN u.word = DOMAIN m.word
<1>. DEFINE w == [m.word EXCEPT ![block] = m.head]
<1>1. Rewritten(u, m, w, block)
  BY DEF Push, Rewritten, Alike, Good, Fields
<1>2. /\ DOMAIN w = DOMAIN m.word /\ w[block] = m.head
      /\ \A b \in DOMAIN m.word \ {block} : w[b] = m.word[b]
  BY DEF Good, Words
<1>. HIDE DEF w
<1>3. Good(u, live \ {block})
  BY <1>1, <1>2, PushedGood
<1>. QED
  BY <1>1, <1>2, <1>3 DEF Rewritten

(* A word of a block in use may change. *)
LEMMA WrittenGood ==
    ASSUME NEW m, NEW live, Good(m, live), NEW block \in live, NEW v \in {Zero, Data},
           NEW u, u = [m EXCEPT !.word[block] = v]
    PROVE  Good(u, live) /\ Alike(u, m) /\ DOMAIN u.word = DOMAIN m.word
<1>. DEFINE w == [m.word EXCEPT ![block] = v]
<1>1. Rewritten(u, m, w, m.head)
  BY DEF Rewritten, Alike, Good, Fields
<1>2. /\ DOMAIN w = DOMAIN m.word /\ block \in DOMAIN m.word /\ w[block] = v
      /\ \A b \in DOMAIN m.word \ {block} : w[b] = m.word[b]
  BY DEF Good, Words
<1>. HIDE DEF w
<1>3. block \notin FreeBlocks(m)
  BY DEF Good
<1>4. Chain(m.head, w) /\ Listed(m.head, w) = FreeBlocks(m)
  BY <1>2, <1>3, ListedFacts, ChainSame DEF Good, FreeBlocks
<1>5. Starts(u) = Starts(m) /\ Grid(u) = Grid(m) /\ SizesFit(u)
  BY <1>1, RewrittenStarts DEF Rewritten, Good
<1>6. Words(u)
  BY <1>1, <1>2, <1>5 DEF Rewritten, Good, Words
<1>. QED
  BY <1>1, <1>2, <1>4, <1>5, <1>6 DEF Good, Rewritten, FreeBlocks

-----------------------------------------------------------------------------
(* Freeing everything, which construction, growth and clear do, always     *)
(* when the list is empty or given up.                                     *)

(* The number of whole blocks in so many bytes. *)
Whole(length, blocksize) == length \div blocksize

TypedWords(w) == DOMAIN w \subseteq Int /\ \A b \in DOMAIN w : w[b] \in DOMAIN w \cup {Null, Zero, Data}

(* u is m with those blocks of the bytes from a on, and no others, free. *)
Freed(u, m, a, length) ==
    LET fresh == NthSet(a, m.blocksize, Whole(length, m.blocksize))
    IN  /\ Fields \subseteq DOMAIN u /\ Alike(u, m)
        /\ DOMAIN u.word = DOMAIN m.word \cup fresh /\ TypedWords(u.word)
        /\ \A b \in DOMAIN m.word \ fresh : u.word[b] = m.word[b]
        /\ Chain(u.head, u.word) /\ FreeBlocks(u) = fresh

LEMMA FreedIs ==
    ASSUME NEW m, Fields \subseteq DOMAIN m, m.blocksize \in Nat \ {0}, TypedWords(m.word),
           NEW a \in Int, NEW length \in Nat, NEW u, u = FreeEverything(m, a, length, Null)
    PROVE  Freed(u, m, a, length)
<1>. DEFINE step == m.blocksize
            n == Whole(length, step)
            F == {a + i * step : i \in 0 .. n - 1}
            w == [b \in DOMAIN m.word \cup F |->
                    IF b \in F THEN IF b = a THEN Null ELSE b - step ELSE m.word[b]]
            h == IF n = 0 THEN Null ELSE a + (n - 1) * step
<1>1. Rewritten(u, m, w, h)
  BY DEF FreeEverything, Rewritten, Alike, Fields, Whole
<1>2. n \in Nat /\ step \in Int \ {0} /\ step \in Nat /\ a \in Int /\ 0 \in Int
  BY DEF Whole
<1>3. F = NthSet(a, step, n) /\ (n # 0 => h = Nth(a, step, n - 1))
  BY DEF NthSet, Nth
<1>4. /\ DOMAIN w = DOMAIN m.word \cup F /\ \A b \in F : w[b] = IF b = a THEN Null ELSE b - step
      /\ \A b \in DOMAIN m.word \ F : w[b] = m.word[b]
  OBVIOUS
<1>. HIDE DEF F, w, n, step
<1>5. \A i \in 0 .. n - 1 : /\ Nth(a, step, i) \in F /\ Nth(a, step, i) \in Int
                            /\ i = 0 => w[Nth(a, step, i)] = Null
                            /\ i # 0 => w[Nth(a, step, i)] = Nth(a, step, i - 1)
  <2>. SUFFICES ASSUME NEW i \in 0 .. n - 1
                PROVE  /\ Nth(a, step, i) \in F /\ Nth(a, step, i) \in Int
                       /\ i = 0 => w[Nth(a, step, i)] = Null
                       /\ i # 0 => w[Nth(a, step, i)] = Nth(a, step, i - 1)
    OBVIOUS
  <2>1. Nth(a, step, i) \in F
    BY <1>3 DEF NthSet
  <2>2. i \in Int
    BY <1>2
  <2>3. /\ Nth(a, step, i) \in Int /\ Nth(a, step, 0) = a /\ (Nth(a, step, i) = Nth(a, step, 0) => i = 0)
        /\ Nth(a, step, i - 1) = Nth(a, step, i) - step
    BY ONLY <1>2, <2>2, NthFacts
  <2>. QED
    BY <1>4, <2>1, <2>3
<1>6. F \subseteq Int /\ DOMAIN w \subseteq Int
  BY <1>3, <1>4, <1>5 DEF NthSet, TypedWords
<1>7. TypedWords(w)
  <2>1. \A i \in 0 .. n - 1 : i # 0 => i - 1 \in 0 .. n - 1
    BY <1>2
  <2>2. ASSUME NEW b \in F PROVE w[b] \in DOMAIN w \cup {Null}
    <3>1. PICK i \in 0 .. n - 1 : b = Nth(a, step, i)
      BY <1>3 DEF NthSet
    <3>. QED
      BY <1>4, <1>5, <2>1, <3>1
  <2>3. ASSUME NEW b \in DOMAIN w \ F PROVE w[b] \in DOMAIN w \cup {Null, Zero, Data}
    BY <1>4 DEF TypedWords
  <2>. QED
    BY <1>6, <2>2, <2>3 DEF TypedWords
<1>8. Chain(h, w) /\ Listed(h, w) = F
  <2>1. CASE n = 0
    <3>1. F = {} /\ h = Null /\ Null \notin DOMAIN w
      BY <1>3, <1>6, <2>1, NullIsNoAddress DEF NthSet
    <3>2. Listed(h, w) = {}
      <4>1. {} \in SUBSET DOMAIN w
        OBVIOUS
      <4>. QED
        BY <3>1, <4>1 DEF Listed
    <3>. QED
      BY <3>1, <3>2 DEF Chain
  <2>2. CASE n # 0
    <3>0. a = Nth(a, step, 0)
      BY ONLY <1>2, NthFacts
    <3>1. n \in Nat \ {0} /\ a = Nth(a, step, 0) /\ 0 \in 0 .. n - 1 /\ Null \notin Int
      BY <1>2, <2>2, <3>0, NullIsNoAddress
    <3>2. w[a] = Null /\ h = Nth(a, step, n - 1)
      BY <1>3, <1>5, <2>2, <3>1
    <3>3. /\ \A i \in 0 .. n - 1 : Nth(a, step, i) \in DOMAIN w
          /\ \A i \in 1 .. n - 1 : w[Nth(a, step, i)] = Nth(a, step, i - 1)
      BY <1>2, <1>4, <1>5
    <3>. HIDE DEF h
    <3>4. Chain(h, w) /\ Listed(h, w) = NthSet(a, step, n)
      BY ONLY <1>2, <1>6, <3>1, <3>2, <3>3, ListFresh
    <3>. QED
      BY <1>3, <3>4
  <2>. QED
    BY <2>1, <2>2
<1>. HIDE DEF h
<1>. QED
  BY <1>1, <1>3, <1>4, <1>7, <1>8 DEF Rewritten, FreeBlocks, Freed, n, step

LEMMA StartsAre ==
    ASSUME NEW m, m.blocksize \in Nat \ {0}, m.size \in Nat
    PROVE  /\ Starts(m) = NthSet(0, m.blocksize, Whole(m.size, m.blocksize))
           /\ Starts(m) \subseteq Nat \cap Grid(m)
<1>1. \A i \in Nat : Nth(0, m.blocksize, i) = i * m.blocksize /\ i * m.blocksize \in Nat
  BY DEF Nth
<1>2. m.size \div m.blocksize \in Nat
  OBVIOUS
<1>3. \A i \in 0 .. (m.size \div m.blocksize) - 1 : i \in Nat
  BY <1>2
<1>. QED
  BY <1>1, <1>3 DEF Starts, NthSet, Grid, Whole

LEMMA ClearedGood ==
    ASSUME NEW m, NEW live, Good(m, live), NEW u, u = Cleared(m)
    PROVE  Good(u, {}) /\ Alike(u, m) /\ DOMAIN u.word = DOMAIN m.word
<1>. DEFINE n == Whole(m.size, m.blocksize)
<1>1. Fields \subseteq DOMAIN m /\ m.blocksize \in Nat \ {0} /\ m.size \in Nat /\ TypedWords(m.word)
      /\ Starts(m) \subseteq DOMAIN m.word
  BY DEF Good, SizesFit, Words, TypedWords
<1>2. Starts(m) = NthSet(0, m.blocksize, n)
  BY <1>1, StartsAre
<1>3. u = FreeEverything(m, 0, m.size, Null)
  BY DEF Cleared
<1>. HIDE DEF n
<1>4. /\ Fields \subseteq DOMAIN u /\ Alike(u, m)
      /\ DOMAIN u.word = DOMAIN m.word \cup NthSet(0, m.blocksize, n) /\ TypedWords(u.word)
      /\ Chain(u.head, u.word) /\ FreeBlocks(u) = NthSet(0, m.blocksize, n)
  <2>1. Freed(u, m, 0, m.size)
    BY <1>1, <1>3, FreedIs
  <2>. QED
    BY <2>1 DEF Freed, n
<1>5. Starts(u) = Starts(m) /\ Grid(u) = Grid(m) /\ SizesFit(u)
  BY <1>4, RewrittenStarts DEF Good
<1>. QED
  BY <1>1, <1>2, <1>4, <1>5 DEF Good, Words, TypedWords

LEMMA RoundedUp ==
    ASSUME NEW multiple \in Nat \ {0}, NEW size \in Nat \ {0}
    PROVE  /\ RoundUp(multiple, size) \in Nat \ {0} /\ RoundUp(multiple, size) >= size
           /\ \E k \in Nat : RoundUp(multiple, size) = k * multiple
           /\ RoundUp(multiple, size) < size + multiple
<1>. DEFINE q == (size - 1) \div multiple
            r == (size - 1) % multiple
<1>1. q \in Nat /\ r \in 0 .. multiple - 1 /\ size - 1 = multiple * q + r
  OBVIOUS
<1>2. (q + 1) * multiple = multiple * q + multiple /\ multiple * q \in Nat
  BY <1>1
<1>3. RoundUp(multiple, size) = (q + 1) * multiple /\ q + 1 \in Nat
  BY <1>1 DEF RoundUp
<1>. HIDE DEF q, r
<1>. QED
  BY <1>1, <1>2, <1>3

LEMMA ActualSizes ==
    ASSUME NEW num_bytes \in Nat \ {0}, NEW alignment \in Nat \ {0}
    PROVE  /\ ActualAlign(alignment) \in Nat \ {0}
           /\ ActualBlocksize(num_bytes, alignment) \in Nat \ {0}
           /\ \E k \in Nat : ActualBlocksize(num_bytes, alignment) = k * ActualAlign(alignment)
<1>1. ActualAlign(alignment) \in Nat \ {0} /\ AtLeast(num_bytes, WordSize) \in Nat \ {0}
  BY BlocksAssumption DEF ActualAlign, AtLeast
<1>. QED
  BY <1>1, RoundedUp DEF ActualBlocksize

LEMMA MembersGood ==
    ASSUME NEW size \in Nat, NEW num_bytes \in Nat \ {0}, NEW alignment \in Nat \ {0},
           NEW u, u = Members(size, num_bytes, alignment)
    PROVE  /\ Good(u, {}) /\ u.kind = "block" /\ u.size = size
           /\ u.blocksize = ActualBlocksize(num_bytes, alignment) /\ u.align = ActualAlign(alignment)
           /\ DOMAIN u.word = Starts(u)
<1>. DEFINE m == [kind |-> "block", size |-> size, align |-> ActualAlign(alignment),
                  blocksize |-> ActualBlocksize(num_bytes, alignment),
                  word |-> << >>, head |-> Null]
            n == Whole(size, m.blocksize)
<1>1. u = FreeEverything(m, 0, size, Null)
  BY DEF Members
<1>2. /\ Fields \subseteq DOMAIN m /\ m.kind = "block" /\ m.size = size /\ m.align = ActualAlign(alignment)
      /\ m.blocksize = ActualBlocksize(num_bytes, alignment) /\ m.word = << >>
  BY DEF Fields
<1>3. DOMAIN << >> = {}
  OBVIOUS
<1>4. TypedWords(m.word) /\ DOMAIN m.word = {}
  BY <1>2, <1>3 DEF TypedWords
<1>. HIDE DEF m
<1>5. m.blocksize \in Nat \ {0} /\ SizesFit(m)
  BY <1>2, ActualSizes DEF SizesFit
<1>. DEFINE F == NthSet(0, m.blocksize, n)
<1>6. /\ Fields \subseteq DOMAIN u /\ Alike(u, m)
      /\ DOMAIN u.word = DOMAIN m.word \cup F /\ TypedWords(u.word)
      /\ Chain(u.head, u.word) /\ FreeBlocks(u) = F
  <2>1. Freed(u, m, 0, size)
    BY <1>1, <1>2, <1>4, <1>5, FreedIs
  <2>. QED
    BY <2>1 DEF Freed
<1>7. Starts(m) = F /\ F \subseteq Grid(m)
  BY <1>2, <1>5, StartsAre
<1>. HIDE DEF F
<1>8. Starts(u) = F /\ F \subseteq Grid(u) /\ SizesFit(u)
  BY <1>5, <1>6, <1>7, RewrittenStarts
<1>9. Good(u, {})
  BY <1>4, <1>6, <1>8 DEF Good, Words, TypedWords
<1>. QED
  BY <1>2, <1>4, <1>6, <1>8, <1>9 DEF Alike

LEMMA GrownGood ==
    ASSUME NEW m, NEW live, Good(m, live), m.head = Null,
           NEW newsize \in Nat, newsize >= m.size + m.blocksize,
           NEW u, u = Grown(m, newsize)
    PROVE  Good(u, live) /\ Alike(u, m) /\ SameWords(u, m, live)
           /\ u.head \in DOMAIN u.word /\ u.head \notin Starts(u)
<1>. DEFINE step == m.blocksize
            q == Whole(m.size, step)
            padding == m.size % step
            a == m.size - padding
            length == newsize - m.size + padding
            n == Whole(length, step)
            F == NthSet(a, step, n)
<1>1. Fields \subseteq DOMAIN m /\ m.blocksize \in Nat \ {0} /\ m.size \in Nat /\ TypedWords(m.word)
      /\ Starts(m) \subseteq DOMAIN m.word /\ step \in Nat \ {0}
  BY DEF Good, SizesFit, Words, TypedWords
<1>2. q \in Nat /\ padding \in 0 .. step - 1 /\ m.size = step * q + padding
  <2>1. q = m.size \div step /\ padding = m.size % step
    BY DEF Whole
  <2>. HIDE DEF padding, q, step
  <2>. QED
    BY ONLY <1>1, <2>1, Division
<1>. HIDE DEF padding, q
<1>3. a = step * q /\ a \in Int /\ length \in Nat /\ length >= step
  <2>1. step * q \in Int
    BY <1>1, <1>2
  <2>. QED
    BY <1>1, <1>2, <2>1
<1>4. n \in Nat /\ n >= 1
  <2>. DEFINE t == length % step
  <2>1. n \in Nat /\ length = step * n + t /\ t \in 0 .. step - 1
    <3>1. n = length \div step /\ t = length % step
      BY DEF Whole
    <3>. HIDE DEF n, t, length, step
    <3>. QED
      BY ONLY <1>1, <1>3, <3>1, Division
  <2>. HIDE DEF n, t, length
  <2>2. n # 0
    <3>1. n = 0 => step * n = 0
      BY <1>1
    <3>. QED
      BY <1>1, <1>3, <2>1, <3>1
  <2>. QED
    BY <2>1, <2>2
<1>5. u = FreeEverything(m, a, length, Null)
  BY DEF Grown, padding
<1>6. Starts(m) = NthSet(0, step, q)
  BY <1>1, StartsAre DEF q
<1>. HIDE DEF a, length
<1>7. /\ Fields \subseteq DOMAIN u /\ Alike(u, m)
      /\ DOMAIN u.word = DOMAIN m.word \cup F /\ TypedWords(u.word)
      /\ \A b \in DOMAIN m.word \ F : u.word[b] = m.word[b]
      /\ Chain(u.head, u.word) /\ FreeBlocks(u) = F
  <2>1. Freed(u, m, a, length)
    BY <1>1, <1>3, <1>5, FreedIs
  <2>. QED
    BY <2>1 DEF Freed
<1>8. ASSUME NEW i \in 0 .. n - 1
      PROVE  Nth(a, step, i) = Nth(0, step, q + i) /\ \A j \in 0 .. q - 1 : Nth(0, step, q + i) # Nth(0, step, j)
  <2>0. 0 \in Int /\ step \in Int \ {0} /\ i \in Nat /\ q + i \in Int
    BY <1>1, <1>2, <1>4
  <2>. HIDE DEF step, n
  <2>1. (q + i) * step = step * q + i * step
    BY <1>1, <1>2, <2>0
  <2>2. Nth(a, step, i) = Nth(0, step, q + i)
    BY <1>3, <2>0, <2>1 DEF Nth
  <2>3. \A j \in Int : Nth(0, step, q + i) = Nth(0, step, j) => q + i = j
    <3>. DEFINE k == q + i
    <3>1. k \in Int
      BY <2>0
    <3>. HIDE DEF k
    <3>2. \A j \in Int : Nth(0, step, k) = Nth(0, step, j) => k = j
      BY ONLY <2>0, <3>1, NthFacts
    <3>. QED
      BY <3>2 DEF k
  <2>. QED
    BY <1>2, <2>0, <2>2, <2>3
<1>. HIDE DEF n, q, step
<1>9. F \cap Starts(m) = {} /\ F # {}
  <2>1. F \cap Starts(m) = {}
    BY <1>6, <1>8 DEF NthSet, F
  <2>2. Nth(a, step, 0) \in F
    BY <1>4 DEF NthSet, F
  <2>. QED
    BY <2>1, <2>2
<1>10. F \subseteq Grid(m)
  <2>. SUFFICES ASSUME NEW i \in 0 .. n - 1 PROVE Nth(a, step, i) \in Grid(m)
    BY DEF NthSet, F
  <2>1. q + i \in Nat
    BY <1>2, <1>4
  <2>2. Nth(0, step, q + i) = (q + i) * m.blocksize
    BY <1>1, <2>1 DEF Nth, step
  <2>. QED
    BY <1>8, <2>1, <2>2 DEF Grid
<1>11. Starts(u) = Starts(m) /\ Grid(u) = Grid(m) /\ SizesFit(u)
  BY <1>7, RewrittenStarts DEF Good
<1>12. Starts(m) \ live = {}
  <2>1. Null \notin DOMAIN m.word
    BY NullIsNoAddress DEF Good, Words
  <2>2. {} \in SUBSET DOMAIN m.word
    OBVIOUS
  <2>3. FreeBlocks(m) = {}
    BY <2>1, <2>2 DEF FreeBlocks, Listed
  <2>. QED
    BY <2>3 DEF Good
<1>13. u.head \in F
  <2>1. u.head \in DOMAIN u.word
    <3>1. CASE u.head \notin DOMAIN u.word
      <4>1. {} \in SUBSET DOMAIN u.word
        OBVIOUS
      <4>2. FreeBlocks(u) = {}
        BY <3>1, <4>1 DEF FreeBlocks, Listed
      <4>. QED
        BY <1>7, <1>9, <4>2
    <3>. QED
      BY <3>1
  <2>. QED
    BY <1>7, <2>1, ListedFacts DEF FreeBlocks
<1>. HIDE DEF F
<1>14. Good(u, live)
  BY <1>1, <1>7, <1>9, <1>11, <1>12, <1>10 DEF Good, Words, TypedWords
<1>15. SameWords(u, m, live)
  BY <1>1, <1>7, <1>9 DEF SameWords, Good
<1>. QED
  BY <1>7, <1>9, <1>11, <1>13, <1>14, <1>15

-----------------------------------------------------------------------------
(* Pointers.                                                               *)

(* A block lies in the buffer, and any pointer into it leads to its start. *)
LEMMA BlockFacts ==
    ASSUME NEW m, SizesFit(m), NEW block \in Starts(m)
    PROVE  /\ block \in Nat /\ block + m.blocksize <= m.size /\ block % m.blocksize = 0
           /\ block % m.align = 0
           /\ \A offset \in 0 .. m.blocksize - 1 :
                 /\ BlockOf(m, block + offset) = block
                 /\ Contains(m, block + offset, 1) 
           /\ \A length \in 0 .. m.blocksize : Contains(m, block, length)
<1>. DEFINE step == m.blocksize
            q == m.size \div step
            t == m.size % step
<1>1. step \in Nat \ {0} /\ m.size \in Nat /\ m.align \in Nat \ {0}
  BY DEF SizesFit
<1>2. PICK i \in 0 .. q - 1 : block = i * step
  BY DEF Starts
<1>3. q \in Nat /\ t \in 0 .. step - 1 /\ m.size = step * q + t
  <2>1. q = m.size \div step /\ t = m.size % step
    OBVIOUS
  <2>. HIDE DEF t, q, step
  <2>. QED
    BY ONLY <1>1, <2>1, Division
<1>. HIDE DEF q, t, step
<1>4. i \in Nat /\ block \in Nat /\ i + 1 <= q
  <2>1. i \in Nat /\ i + 1 <= q
    BY <1>3
  <2>2. i * step \in Nat
    BY <1>1, <2>1
  <2>. QED
    BY <1>2, <2>1, <2>2
<1>5. block + step <= m.size
  <2>1. (i + 1) * step = block + step
    BY <1>1, <1>2, <1>4
  <2>2. (q - (i + 1)) * step \in Nat /\ (q - (i + 1)) * step = q * step - (i + 1) * step
    BY <1>1, <1>3, <1>4
  <2>3. q * step = step * q
    BY <1>1, <1>3
  <2>. DEFINE x == (i + 1) * step
              y == step * q
  <2>4. x \in Int /\ y \in Int /\ x <= y
    BY <1>1, <1>3, <1>4, <2>2, <2>3
  <2>5. m.size = y + t /\ t \in 0 .. step - 1
    BY <1>3 DEF y
  <2>6. x = block + step
    BY ONLY <2>1 DEF x
  <2>. HIDE DEF x, y
  <2>. QED
    BY ONLY <1>1, <1>4, <2>4, <2>5, <2>6
<1>6. ASSUME NEW d \in Nat \ {0}, NEW k \in Nat, NEW r \in 0 .. d - 1
      PROVE  (k * d + r) \div d = k /\ (k * d + r) % d = r
  BY Quotient
<1>7. block % step = 0 /\ step = m.blocksize
  <2>1. 0 \in 0 .. step - 1 /\ i * step + 0 = block
    BY <1>1, <1>2, <1>4
  <2>. QED
    BY <1>1, <1>4, <1>6, <2>1 DEF step
<1>8. block % m.align = 0
  <2>1. PICK k \in Nat : step = k * m.align
    BY DEF SizesFit, step
  <2>2. i * k \in Nat /\ block = (i * k) * m.align + 0 /\ 0 \in 0 .. m.align - 1
    BY <1>1, <1>2, <1>4, <2>1
  <2>. QED
    BY <1>1, <1>6, <2>2
<1>9. \A offset \in 0 .. step - 1 : BlockOf(m, block + offset) = block /\ Contains(m, block + offset, 1)
  <2>. TAKE offset \in 0 .. step - 1
  <2>1. (i * step + offset) \div step = i
    BY <1>1, <1>4, <1>6
  <2>2. BlockOf(m, block + offset) = block
    BY <1>2, <1>7, <2>1 DEF BlockOf
  <2>. QED
    BY <1>1, <1>4, <1>5, <2>2 DEF Contains
<1>10. \A length \in 0 .. step : Contains(m, block, length)
  BY <1>1, <1>4, <1>5 DEF Contains
<1>. QED
  BY <1>4, <1>5, <1>7, <1>8, <1>9, <1>10

(* Of the addresses at which a block may start, those with a whole block   *)
(* in the buffer are where the blocks of the buffer start.                 *)
LEMMA ContainedStarts ==
    ASSUME NEW m, SizesFit(m), NEW block \in Grid(m), block + m.blocksize <= m.size
    PROVE  block \in Starts(m)
<1>. DEFINE step == m.blocksize
            q == m.size \div step
            t == m.size % step
<1>1. step \in Nat \ {0} /\ m.size \in Nat
  BY DEF SizesFit
<1>2. PICK k \in Nat : block = k * step
  BY DEF Grid
<1>3. q \in Nat /\ t \in 0 .. step - 1 /\ m.size = step * q + t
  <2>1. q = m.size \div step /\ t = m.size % step
    OBVIOUS
  <2>. HIDE DEF t, q, step
  <2>. QED
    BY ONLY <1>1, <2>1, Division
<1>4. m.blocksize = step
  OBVIOUS
<1>. HIDE DEF q, t, step
<1>5. k < q
  <2>1. (k - q) * step = k * step - step * q /\ k * step \in Int /\ step * q \in Int
    BY <1>1, <1>2, <1>3
  <2>2. k - q >= 0 => (k - q) * step >= 0
    BY <1>1, <1>3
  <2>. DEFINE x == k * step
              y == step * q
              z == (k - q) * step
  <2>3. z = x - y /\ x \in Int /\ y \in Int /\ (k - q >= 0 => z >= 0)
    BY ONLY <2>1, <2>2
  <2>4. m.size = y + t /\ x + step <= m.size
    BY ONLY <1>2, <1>3, <1>4, block + m.blocksize <= m.size
  <2>. HIDE DEF x, y, z
  <2>. QED
    BY ONLY <1>1, <1>3, <2>3, <2>4, k \in Nat
<1>6. k \in 0 .. q - 1
  BY <1>3, <1>5
<1>. QED
  BY <1>2, <1>4, <1>6 DEF Starts, q

-----------------------------------------------------------------------------
(* The calls.                                                              *)

(* What grow may answer: an allocator with a list behind the buffer, or an *)
(* error or an assertion with nothing changed.                             *)
LEMMA GrowOutcome ==
    ASSUME NEW m, NEW live, Good(m, live), m.head = Null, NEW g \in Grow(m)
    PROVE  /\ Good(g.m, live) /\ Alike(g.m, m) /\ SameWords(g.m, m, live)
           /\ \/ g.err = "success" /\ g.m.head # Null /\ g.m.head \notin Starts(m)
              \/ g.err \in Error /\ g.m = m
              \/ g.err = "invalid_request" /\ g.m = m /\ ~GrowRequestValid(m)
<1>1. CASE \E newsize \in m.size + m.blocksize .. m.size * 2 :
                g = [m |-> Grown(m, newsize), err |-> "success"]
  <2>1. PICK newsize \in m.size + m.blocksize .. m.size * 2 :
                g = [m |-> Grown(m, newsize), err |-> "success"]
    BY <1>1
  <2>2. newsize \in Nat /\ newsize >= m.size + m.blocksize
    BY DEF Good, SizesFit
  <2>. DEFINE u == Grown(m, newsize)
  <2>3. g.m = u /\ g.err = "success"
    BY <2>1
  <2>. HIDE DEF u
  <2>4. Good(u, live) /\ Alike(u, m) /\ SameWords(u, m, live)
        /\ u.head \in DOMAIN u.word /\ u.head \notin Starts(u)
    BY <2>2, GrownGood DEF u
  <2>5. u.head # Null /\ Starts(u) = Starts(m)
    BY <2>4, NullIsNoAddress, RewrittenStarts DEF Good, Words
  <2>. QED
    BY <2>3, <2>4, <2>5
<1>2. CASE \/ g.m = m /\ g.err \in Error
           \/ g = [m |-> m, err |-> "invalid_request"] /\ ~GrowRequestValid(m)
  BY <1>2 DEF Alike, SameWords
<1>. QED
  BY <1>1, <1>2 DEF Grow, Error

(* The outcome o of a call that got a block, the first of the free list. *)
Taken(o, m, live) ==
    /\ o.err = "success" /\ o.block = m.head /\ o.block \in Starts(m) \ live
    /\ Good(o.m, live \cup {o.block}) /\ DOMAIN o.m.word = DOMAIN m.word

(* No block but one behind the buffer fails to be in the buffer. *)
LEMMA PopOutcome ==
    ASSUME NEW m, NEW live, Good(m, live), m.head # Null,
           NEW request, request.leave_nonzeroed \in BOOLEAN, NEW o, o = Pop(m, request)
    PROVE  /\ Alike(o.m, m)
           /\ \/ Taken(o, m, live)
              \/ o.err = "oom" /\ o.m = m /\ TooBig(m, request)
              \/ o.err = "grown_block_not_contained" /\ o.m = m
<1>1. CASE TooBig(m, request)
  BY <1>1 DEF Pop, Alike
<1>2. CASE ~TooBig(m, request) /\ ~Contains(m, m.head, m.blocksize)
  <2>1. DOMAIN m.word # Starts(m)
    <3>. SUFFICES ASSUME DOMAIN m.word = Starts(m) PROVE FALSE
      OBVIOUS
    <3>1. m.head \in Starts(m)
      BY DEF Good, Chain
    <3>2. m.blocksize \in 0 .. m.blocksize
      BY DEF Good, SizesFit
    <3>3. Contains(m, m.head, m.blocksize)
      BY <3>1, <3>2, BlockFacts DEF Good
    <3>. QED
      BY <1>2, <3>3
  <2>. QED
    BY <1>2, <2>1 DEF Pop, WasGrown, Alike
<1>3. CASE ~TooBig(m, request) /\ Contains(m, m.head, m.blocksize)
  <2>1. m.head \in Starts(m)
    <3>1. m.head \in DOMAIN m.word
      BY DEF Good, Chain
    <3>. QED
      BY <1>3, <3>1, ContainedStarts DEF Good, Words, Contains
  <2>. DEFINE u == Popped(m, request.leave_nonzeroed)
  <2>2. o.err = "success" /\ o.block = m.head /\ o.m = u
    BY <1>3 DEF Pop
  <2>. HIDE DEF u
  <2>3. /\ Good(u, live \cup {m.head}) /\ Alike(u, m) /\ m.head \notin live
        /\ DOMAIN u.word = DOMAIN m.word
    BY <2>1, PoppedGood DEF u
  <2>. QED
    BY <2>1, <2>2, <2>3 DEF Taken
<1>. QED
  BY <1>1, <1>2, <1>3

(* Why a call that got no block got none: o is its outcome. *)
Refused(o, m, live, request) ==
    /\ Good(o.m, live)
    /\ \/ o.err = "oom" /\ TooBig(m, request)
       \/ o.err \in Error /\ m.head = Null /\ o.m = m
       \/ o.err = "invalid_request" /\ ~GrowRequestValid(m) /\ o.m = m
       \/ o.err = "grown_block_not_contained"

LEMMA AllocateOutcome ==
    ASSUME NEW m, NEW live, Good(m, live), NEW request, request.leave_nonzeroed \in BOOLEAN,
           NEW o \in AllocateOutcomes(m, request)
    PROVE  Alike(o.m, m) /\ (Taken(o, m, live) \/ Refused(o, m, live, request))
<1>1. PICK g \in WithFreeBlock(m) : o = IF g.err = "success" THEN Pop(g.m, request) ELSE g
  BY DEF AllocateOutcomes
<1>2. CASE m.head # Null
  <2>1. g = [m |-> m, err |-> "success"]
    BY <1>1, <1>2 DEF WithFreeBlock
  <2>2. o = Pop(m, request)
    BY <1>1, <2>1
  <2>. QED
    BY <1>2, <2>2, PopOutcome DEF Refused
<1>3. CASE m.head = Null
  <2>0. g \in Grow(m)
    BY <1>1, <1>3 DEF WithFreeBlock
  <2>1. /\ Good(g.m, live) /\ Alike(g.m, m) /\ SameWords(g.m, m, live)
        /\ \/ g.err = "success" /\ g.m.head # Null /\ g.m.head \notin Starts(m)
           \/ g.err \in Error /\ g.m = m
           \/ g.err = "invalid_request" /\ g.m = m /\ ~GrowRequestValid(m)
    BY <1>3, <2>0, GrowOutcome
  <2>2. CASE g.err # "success"
    BY <1>1, <1>3, <2>1, <2>2 DEF Refused
  <2>3. CASE g.err = "success"
    <3>1. o = Pop(g.m, request) /\ g.m.head # Null /\ g.m.head \notin Starts(m)
      BY <1>1, <2>1, <2>3 DEF Error
    <3>2. Starts(g.m) = Starts(m) /\ (TooBig(g.m, request) <=> TooBig(m, request))
      BY <2>1, RewrittenStarts DEF Alike, TooBig
    <3>3. /\ Alike(o.m, g.m) /\ o.m = g.m
          /\ \/ o.err = "oom" /\ TooBig(g.m, request)
             \/ o.err = "grown_block_not_contained"
      <4>. DEFINE v == g.m
      <4>1. /\ Good(v, live) /\ v.head # Null /\ o = Pop(v, request)
            /\ v.head \notin Starts(v)
        BY <2>1, <3>1, <3>2
      <4>. HIDE DEF v
      <4>2. /\ Alike(o.m, v)
            /\ \/ Taken(o, v, live)
               \/ o.err = "oom" /\ o.m = v /\ TooBig(v, request)
               \/ o.err = "grown_block_not_contained" /\ o.m = v
        BY ONLY <4>1, request.leave_nonzeroed \in BOOLEAN, PopOutcome
      <4>. QED
        BY <4>1, <4>2 DEF v, Taken
    <3>. QED
      BY <2>1, <3>2, <3>3 DEF Refused
  <2>. QED
    BY <2>2, <2>3
<1>. QED
  BY <1>2, <1>3

(* Whatever an allocation does, it leaves the blocks in use as they are.   *)
LEMMA PopKeeps ==
    ASSUME NEW m, NEW live, Good(m, live), m.head # Null,
           NEW request, request.leave_nonzeroed \in BOOLEAN, NEW o, o = Pop(m, request)
    PROVE  SameWords(o.m, m, live)
<1>1. \/ Taken(o, m, live) 
      \/ o.m = m
  BY PopOutcome
<1>2. CASE o.m = m
  BY <1>2 DEF SameWords
<1>3. CASE Taken(o, m, live) /\ o.m # m
  <2>. DEFINE u == Popped(m, request.leave_nonzeroed)
  <2>1. o.m = u
    BY <1>3 DEF Pop
  <2>2. u.word = [m.word EXCEPT ![m.head] = IF request.leave_nonzeroed THEN Data ELSE Zero]
    BY DEF Popped, Good, Fields
  <2>. HIDE DEF u
  <2>3. m.head \notin live /\ live \subseteq DOMAIN m.word
    BY <1>3 DEF Taken, Good, Words
  <2>. QED
    BY <2>1, <2>2, <2>3 DEF SameWords
<1>. QED
  BY <1>1, <1>2, <1>3

LEMMA AllocateKeeps ==
    ASSUME NEW m, NEW live, Good(m, live), NEW request, request.leave_nonzeroed \in BOOLEAN,
           NEW o \in AllocateOutcomes(m, request)
    PROVE  SameWords(o.m, m, live)
<1>1. PICK g \in WithFreeBlock(m) : o = IF g.err = "success" THEN Pop(g.m, request) ELSE g
  BY DEF AllocateOutcomes
<1>2. CASE m.head # Null
  <2>1. g = [m |-> m, err |-> "success"]
    BY <1>1, <1>2 DEF WithFreeBlock
  <2>2. o = Pop(m, request)
    BY <1>1, <2>1
  <2>. QED
    BY <1>2, <2>2, PopKeeps
<1>3. CASE m.head = Null
  <2>0. g \in Grow(m)
    BY <1>1, <1>3 DEF WithFreeBlock
  <2>. DEFINE v == g.m
  <2>1. /\ Good(v, live) /\ Alike(v, m) /\ SameWords(v, m, live)
        /\ g.err = "success" => v.head # Null
    BY <1>3, <2>0, GrowOutcome DEF Error
  <2>2. CASE g.err = "success"
    <3>1. o = Pop(v, request) /\ v.head # Null
      BY <1>1, <2>1, <2>2
    <3>. HIDE DEF v
    <3>2. SameWords(o.m, v, live)
      BY <2>1, <3>1, PopKeeps
    <3>. QED
      BY <2>1, <3>2 DEF SameWords
  <2>3. CASE g.err # "success"
    BY <1>1, <2>1, <2>3
  <2>. QED
    BY <2>2, <2>3
<1>. QED
  BY <1>2, <1>3

LEMMA PushKeeps ==
    ASSUME NEW m, NEW live, Good(m, live), NEW block \in live, NEW u, u = Push(m, block)
    PROVE  SameWords(u, m, live \ {block})
<1>1. u.word = [m.word EXCEPT ![block] = m.head]
  BY DEF Push, Good, Fields
<1>. QED
  BY <1>1 DEF SameWords, Good, Words

LEMMA DeallocateKeeps ==
    ASSUME NEW m, NEW live, Good(m, live), NEW block \in live, NEW offset \in 0 .. m.blocksize - 1,
           NEW o, o = DeallocateOutcome(m, block + offset)
    PROVE  SameWords(o.m, m, live \ {block})
<1>1. BlockOf(m, block + offset) = block
  BY BlockFacts DEF Good
<1>2. CASE o.m = m
  BY <1>2 DEF SameWords
<1>3. CASE o.m # m
  <2>. DEFINE u == Push(m, block)
  <2>1. o.m = u
    BY <1>1, <1>3 DEF DeallocateOutcome
  <2>2. u = Push(m, block)
    OBVIOUS
  <2>. HIDE DEF u
  <2>. QED
    BY <2>1, <2>2, PushKeeps
<1>. QED
  BY <1>2, <1>3

LEMMA DeallocateOutcomeGood ==
    ASSUME NEW m, NEW live, Good(m, live), NEW block \in live, NEW offset \in 0 .. m.blocksize - 1,
           NEW o, o = DeallocateOutcome(m, block + offset)
    PROVE  o.err = "success" /\ Good(o.m, live \ {block}) /\ Alike(o.m, m)
           /\ DOMAIN o.m.word = DOMAIN m.word
<1>1. /\ block \in Nat
      /\ \A i \in 0 .. m.blocksize - 1 : BlockOf(m, block + i) = block /\ Contains(m, block + i, 1)
  BY BlockFacts DEF Good
<1>2. 0 \in 0 .. m.blocksize - 1 /\ block + 0 = block
  BY <1>1 DEF Good, SizesFit
<1>3. Contains(m, block, 1)
  BY <1>1, <1>2
<1>. DEFINE u == Push(m, block)
<1>4. o.err = "success" /\ o.m = u
  BY <1>1, <1>3 DEF DeallocateOutcome
<1>. HIDE DEF u
<1>5. Good(u, live \ {block}) /\ Alike(u, m) /\ DOMAIN u.word = DOMAIN m.word
  BY PushGood DEF u
<1>. QED
  BY <1>4, <1>5

(* A reallocation changes nothing; the slice that the caller gets fits the *)
(* block.                                                                  *)
LEMMA ReallocateOutcomeGood ==
    ASSUME NEW m, NEW live, Good(m, live), NEW block \in live, NEW request, RequestValid(request),
           request.memory = block, request.size \in 1 .. m.blocksize,
           request.new_size \in Nat \ {0}, request.preferred \in Nat,
           NEW o, o = ReallocateOutcome(m, request)
    PROVE  /\ o.m = m
           /\ (o.err = "success" /\ o.size \in 1 .. m.blocksize) \/ o.err \in {"oom", "negative_fill"}
<1>1. m.blocksize \in Nat \ {0}
  BY DEF Good, SizesFit
<1>2. request.size \in 0 .. m.blocksize
  BY <1>1
<1>3. Contains(m, request.memory, request.size) /\ request.memory % m.blocksize = 0
  BY <1>2, BlockFacts DEF Good
<1>4. request.new_size <= m.blocksize => NewSize(m, request) \in 1 .. m.blocksize
  BY <1>1 DEF NewSize, AtMost
<1>5. CASE request.new_size > m.blocksize
  BY <1>3, <1>5 DEF ReallocateOutcome
<1>6. CASE ~(request.new_size > m.blocksize)
  <2>1. NewSize(m, request) \in 1 .. m.blocksize
    BY <1>1, <1>4, <1>6
  <2>2. \/ o = [m |-> m, err |-> "negative_fill"]
        \/ o = [m |-> m, err |-> "success", size |-> NewSize(m, request)]
    BY <1>3, <1>6 DEF ReallocateOutcome
  <2>. QED
    BY <2>1, <2>2
<1>. QED
  BY <1>5, <1>6
-----------------------------------------------------------------------------
(* What is held, when pieces come and go.                                  *)

Apart(piece) ==
    \A p \in DOMAIN piece : /\ piece[p] # {}
                            /\ \A q \in DOMAIN piece : p # q => piece[p] \cap piece[q] = {}

(* h says what every piece holds. *)
HeldIs(h, piece, content) ==
    /\ h = [r \in DOMAIN h |-> h[r]]
    /\ \A p \in DOMAIN piece : piece[p] \in DOMAIN h /\ h[piece[p]] = content[p]
    /\ \A r \in DOMAIN h : \E p \in DOMAIN piece : r = piece[p]

LEMMA PiecesDiffer ==
    ASSUME NEW piece, Apart(piece)
    PROVE  \A p, q \in DOMAIN piece : piece[p] = piece[q] => p = q
BY DEF Apart

LEMMA HeldFacts ==
    ASSUME NEW piece, NEW content, Apart(piece), NEW h, h = Held(piece, content)
    PROVE  HeldIs(h, piece, content)
<1>1. DOMAIN h = {piece[p] : p \in DOMAIN piece} /\ h = [r \in DOMAIN h |-> h[r]]
  BY DEF Held
<1>2. ASSUME NEW p \in DOMAIN piece PROVE h[piece[p]] = content[p]
  <2>1. h[piece[p]] = content[CHOOSE q \in DOMAIN piece : piece[q] = piece[p]]
    BY DEF Held
  <2>. DEFINE first == CHOOSE q \in DOMAIN piece : piece[q] = piece[p]
  <2>2. first \in DOMAIN piece /\ piece[first] = piece[p]
    OBVIOUS
  <2>3. first = p
    BY <2>2, PiecesDiffer
  <2>. QED
    BY <2>1, <2>3
<1>. QED
  BY <1>1, <1>2 DEF HeldIs

LEMMA HeldUnique ==
    ASSUME NEW piece, NEW content, Apart(piece), NEW h, HeldIs(h, piece, content)
    PROVE  Held(piece, content) = h
<1>. DEFINE H == Held(piece, content)
<1>1. HeldIs(H, piece, content)
  <2>1. H = Held(piece, content)
    OBVIOUS
  <2>. HIDE DEF H
  <2>. QED
    BY <2>1, HeldFacts
<1>. HIDE DEF H
<1>2. \A r \in DOMAIN h : r \in DOMAIN H /\ H[r] = h[r]
  BY <1>1 DEF HeldIs
<1>3. \A r \in DOMAIN H : r \in DOMAIN h
  BY <1>1 DEF HeldIs
<1>4. DOMAIN H = DOMAIN h
  BY <1>2, <1>3
<1>5. H = [r \in DOMAIN H |-> H[r]] /\ h = [r \in DOMAIN h |-> h[r]]
  BY <1>1 DEF HeldIs
<1>6. H = h
  BY <1>2, <1>4, <1>5
<1>. QED
  BY <1>6 DEF H

(* What is held when r, which contains c, joins the others; when r leaves. *)
Joining(r, c, others) == [q \in DOMAIN others \cup {r} |-> IF q = r THEN c ELSE others[q]]
Leaving(r, all) == [q \in DOMAIN all \ {r} |-> all[q]]

(* Piece and content of the pointers in P are the same before and after. *)
Kept(P, piece, content, piece2, content2) ==
    \A p \in P : piece2[p] = piece[p] /\ content2[p] = content[p]

LEMMA HeldSame ==
    ASSUME NEW piece, NEW content, NEW piece2, NEW content2, Apart(piece),
           DOMAIN piece2 = DOMAIN piece,
           Kept(DOMAIN piece, piece, content, piece2, content2)
    PROVE  Held(piece2, content2) = Held(piece, content)
<1>. DEFINE h == Held(piece, content)
<1>1. HeldIs(h, piece, content)
  <2>1. h = Held(piece, content)
    OBVIOUS
  <2>. HIDE DEF h
  <2>. QED
    BY <2>1, HeldFacts
<1>2. Apart(piece2)
  BY DEF Apart, Kept
<1>. HIDE DEF h
<1>3. HeldIs(h, piece2, content2)
  BY <1>1 DEF HeldIs, Kept
<1>4. Held(piece2, content2) = h
  BY <1>2, <1>3, HeldUnique
<1>. QED
  BY <1>4 DEF h

LEMMA HeldLess ==
    ASSUME NEW piece, NEW content, NEW piece2, NEW content2, Apart(piece), NEW p \in DOMAIN piece,
           DOMAIN piece2 = DOMAIN piece \ {p},
           Kept(DOMAIN piece2, piece, content, piece2, content2),
           NEW h, h = Held(piece, content)
    PROVE  piece[p] \in DOMAIN h /\ Held(piece2, content2) = Leaving(piece[p], h)
<1>1. HeldIs(h, piece, content)
  BY HeldFacts
<1>2. Apart(piece2)
  BY DEF Apart, Kept
<1>. DEFINE less == Leaving(piece[p], h)
<1>3. /\ DOMAIN less = DOMAIN h \ {piece[p]} /\ less = [r \in DOMAIN less |-> less[r]]
      /\ \A r \in DOMAIN less : less[r] = h[r]
  BY DEF Leaving
<1>. HIDE DEF less
<1>4. HeldIs(less, piece2, content2)
  <2>1. \A q \in DOMAIN piece2 :
           /\ q \in DOMAIN piece /\ q # p /\ piece2[q] = piece[q] /\ content2[q] = content[q]
           /\ piece[q] # piece[p]
    BY PiecesDiffer DEF Kept
  <2>2. \A r \in DOMAIN less : \E q \in DOMAIN piece2 : r = piece2[q]
    <3>. TAKE r \in DOMAIN less
    <3>1. PICK q \in DOMAIN piece : r = piece[q]
      BY <1>1, <1>3 DEF HeldIs
    <3>2. q \in DOMAIN piece2
      BY <1>3, <3>1
    <3>. QED
      BY <2>1, <3>1, <3>2
  <2>. QED
    BY <1>1, <1>3, <2>1, <2>2 DEF HeldIs
<1>5. Held(piece2, content2) = less
  BY <1>2, <1>4, HeldUnique
<1>. QED
  BY <1>1, <1>5 DEF less, HeldIs

LEMMA HeldMore ==
    ASSUME NEW piece, NEW content, NEW piece2, NEW content2, Apart(piece2), NEW p,
           p \notin DOMAIN piece, DOMAIN piece2 = DOMAIN piece \cup {p},
           Kept(DOMAIN piece, piece, content, piece2, content2),
           NEW h, h = Held(piece, content)
    PROVE  /\ \A r \in DOMAIN h : r \cap piece2[p] = {}
           /\ Held(piece2, content2) = Joining(piece2[p], content2[p], h)
<1>1. Apart(piece)
  BY DEF Apart, Kept
<1>2. HeldIs(h, piece, content)
  BY <1>1, HeldFacts
<1>3. \A r \in DOMAIN h : r \cap piece2[p] = {} /\ r # piece2[p]
  BY <1>2 DEF Apart, Kept, HeldIs
<1>. DEFINE more == Joining(piece2[p], content2[p], h)
<1>4. /\ DOMAIN more = DOMAIN h \cup {piece2[p]} /\ more = [r \in DOMAIN more |-> more[r]]
      /\ more[piece2[p]] = content2[p]
      /\ \A r \in DOMAIN h : r # piece2[p] => more[r] = h[r]
  BY DEF Joining
<1>. HIDE DEF more
<1>5. HeldIs(more, piece2, content2)
  <2>1. ASSUME NEW q \in DOMAIN piece2 PROVE piece2[q] \in DOMAIN more /\ more[piece2[q]] = content2[q]
    <3>1. CASE q = p
      BY <3>1, <1>4
    <3>2. CASE q # p
      <4>1. q \in DOMAIN piece /\ piece2[q] = piece[q] /\ content2[q] = content[q]
        BY <3>2 DEF Kept
      <4>2. piece[q] \in DOMAIN h /\ h[piece[q]] = content[q]
        BY <1>2, <4>1 DEF HeldIs
      <4>. QED
        BY <1>3, <1>4, <4>1, <4>2
    <3>. QED
      BY <3>1, <3>2
  <2>2. \A r \in DOMAIN more : \E q \in DOMAIN piece2 : r = piece2[q]
    BY <1>2, <1>4 DEF HeldIs, Kept
  <2>. QED
    BY <1>4, <2>1, <2>2 DEF HeldIs
<1>6. Held(piece2, content2) = more
  BY <1>5, HeldUnique
<1>. QED
  BY <1>3, <1>6 DEF more

(* The piece of p becomes that of q, with its content. *)
LEMMA HeldMoved ==
    ASSUME NEW piece, NEW content, NEW piece2, NEW content2, Apart(piece), Apart(piece2),
           NEW p \in DOMAIN piece, NEW q, q = p \/ q \notin DOMAIN piece,
           DOMAIN piece2 = (DOMAIN piece \ {p}) \cup {q}, content2[q] = content[p],
           Kept(DOMAIN piece \ {p}, piece, content, piece2, content2),
           NEW h, h = Held(piece, content)
    PROVE  /\ piece[p] \in DOMAIN h
           /\ \A r \in DOMAIN h \ {piece[p]} : r \cap piece2[q] = {}
           /\ Held(piece2, content2) = Joining(piece2[q], h[piece[p]], Leaving(piece[p], h))
<1>. DEFINE rest == [r \in DOMAIN piece \ {p} |-> piece[r]]
            less == Held(rest, content)
<1>1. DOMAIN rest = DOMAIN piece \ {p} /\ \A r \in DOMAIN rest : rest[r] = piece[r]
  OBVIOUS
<1>. HIDE DEF rest
<1>2. piece[p] \in DOMAIN h /\ less = Leaving(piece[p], h)
  <2>1. Kept(DOMAIN rest, piece, content, rest, content)
    BY <1>1 DEF Kept
  <2>. QED
    BY <1>1, <2>1, HeldLess
<1>3. h[piece[p]] = content2[q]
  BY HeldFacts DEF HeldIs
<1>4. /\ \A r \in DOMAIN less : r \cap piece2[q] = {}
      /\ Held(piece2, content2) = Joining(piece2[q], content2[q], less)
  <2>1. q \notin DOMAIN rest /\ DOMAIN piece2 = DOMAIN rest \cup {q}
    BY <1>1
  <2>2. Kept(DOMAIN rest, rest, content, piece2, content2)
    BY <1>1 DEF Kept
  <2>3. less = Held(rest, content)
    OBVIOUS
  <2>. HIDE DEF less
  <2>. QED
    BY <2>1, <2>2, <2>3, HeldMore
<1>. HIDE DEF less
<1>5. DOMAIN less = DOMAIN h \ {piece[p]}
  BY <1>2 DEF Leaving
<1>. QED
  BY <1>2, <1>3, <1>4, <1>5

LEMMA HeldWritten ==
    ASSUME NEW piece, NEW content, NEW piece2, NEW content2, Apart(piece),
           NEW p \in DOMAIN piece, DOMAIN piece2 = DOMAIN piece, piece2[p] = piece[p],
           Kept(DOMAIN piece \ {p}, piece, content, piece2, content2),
           NEW h, h = Held(piece, content)
    PROVE  /\ piece[p] \in DOMAIN h
           /\ Held(piece2, content2) = [h EXCEPT ![piece[p]] = content2[p]]
<1>1. HeldIs(h, piece, content)
  BY HeldFacts
<1>2. \A q \in DOMAIN piece :
         /\ piece2[q] = piece[q]
         /\ q # p => content2[q] = content[q] /\ piece[q] # piece[p]
  BY PiecesDiffer DEF Kept
<1>3. Apart(piece2)
  BY <1>2 DEF Apart
<1>. DEFINE new == [h EXCEPT ![piece[p]] = content2[p]]
<1>4. /\ piece[p] \in DOMAIN h
      /\ DOMAIN new = DOMAIN h /\ new = [r \in DOMAIN new |-> new[r]]
      /\ \A r \in DOMAIN h : new[r] = IF r = piece[p] THEN content2[p] ELSE h[r]
  BY <1>1 DEF HeldIs
<1>. HIDE DEF new
<1>5. HeldIs(new, piece2, content2)
  BY <1>1, <1>2, <1>4 DEF HeldIs
<1>6. Held(piece2, content2) = new
  BY <1>3, <1>5, HeldUnique
<1>. QED
  BY <1>4, <1>6 DEF new

-----------------------------------------------------------------------------
(* Slices of blocks.                                                       *)

LEMMA SliceInside ==
    ASSUME NEW m, SizesFit(m), NEW b \in Starts(m), NEW n \in 1 .. m.blocksize
    PROVE  b .. b + n - 1 \in Intervals(m.size)
<1>1. b \in Nat /\ b + m.blocksize <= m.size /\ m.blocksize \in Nat /\ m.size \in Nat
  BY BlockFacts DEF SizesFit
<1>2. b \in 0 .. m.size - 1 /\ b + n - 1 \in 0 .. m.size - 1 /\ b \in b .. b + n - 1
  BY <1>1
<1>. QED
  BY <1>2 DEF Intervals

LEMMA SlicesApart ==
    ASSUME NEW m, SizesFit(m), NEW b \in Starts(m), NEW c \in Starts(m), b # c,
           NEW n \in 1 .. m.blocksize, NEW k \in 1 .. m.blocksize
    PROVE  (b .. b + n - 1) \cap (c .. c + k - 1) = {}
<1>. DEFINE bs == m.blocksize
<1>1. bs \in Nat \ {0} /\ b \in Nat /\ c \in Nat
  BY BlockFacts DEF SizesFit
<1>2. PICK i \in Nat : b = i * bs
  BY <1>1, StartsAre DEF SizesFit, Grid
<1>3. PICK j \in Nat : c = j * bs
  BY <1>1, StartsAre DEF SizesFit, Grid
<1>. DEFINE d == (i - j) * bs
<1>4. d = b - c /\ d \in Int
  BY <1>1, <1>2, <1>3
<1>5. (i - j >= 1 => d >= bs) /\ (i - j <= -1 => d <= -bs) /\ i # j
  BY <1>1, <1>2, <1>3
<1>6. n <= bs /\ k <= bs
  BY <1>1
<1>. HIDE DEF d, bs
<1>7. b - c >= bs \/ b - c <= -bs
  BY <1>4, <1>5
<1>. QED
  BY ONLY <1>1, <1>6, <1>7, n \in Int, k \in Int
=============================================================================
