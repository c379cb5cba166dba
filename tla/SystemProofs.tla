---------------------------- MODULE SystemProofs ----------------------------
(***************************************************************************)
(* An inductive invariant of SystemAllocators, for any page size, any      *)
(* reservation and any sizes of requests, as long as the program makes     *)
(* neither of the uses that are known to fail, and the two safety          *)
(* properties that follow from it.                                         *)
(***************************************************************************)
EXTENDS SystemAllocators, FiniteSetTheorems, TLAPS

(* What an allocator of this kind takes from the system for a slice of     *)
(* this size.                                                              *)
LengthOf(kind, size) ==
    CASE kind = "page" -> PagesFor(size) * PageSize
      [] kind = "reserving" -> PagesReserved * PageSize
      [] OTHER -> size

(* s is a slice with this many bytes. *)
Slice(s, size) == size \in Nat \ {0} /\ DOMAIN s = 0 .. size - 1

SizeOf(s) == Cardinality(DOMAIN s)

ExtentOf(kind, h, a) == Bytes(a, LengthOf(kind, SizeOf(h[a])))

Usable(w, a, s) ==
    \A i \in DOMAIN s :
        /\ a + i \in DOMAIN w /\ w[a + i] # "NoAccess"
        /\ s[i] \in {Unspecified, w[a + i]}

Mapped(w) == DOMAIN w \subseteq Address /\ \A i \in DOMAIN w : w[i] \in Content

Fitting(kind, s) == Slice(s, SizeOf(s)) /\ SizeOf(s) <= LengthOf(kind, SizeOf(s))

(* What is mapped, and what it holds, is what the slices h demand. *)
Good(kind, w, h) ==
    /\ Mapped(w)
    /\ \A a \in DOMAIN h : a \in Int /\ Fitting(kind, h[a]) /\ Usable(w, a, h[a])
    /\ \A a \in DOMAIN h : ExtentOf(kind, h, a) \subseteq DOMAIN w
    /\ \A i \in DOMAIN w : \E a \in DOMAIN h : i \in ExtentOf(kind, h, a)
    /\ \A a, b \in DOMAIN h : a # b => ExtentOf(kind, h, a) \cap ExtentOf(kind, h, b) = {}

Empty == DOMAIN word = {} /\ DOMAIN held = {} /\ DOMAIN chunk = {}

ChunksExact ==
    IF m.kind = "c" THEN DOMAIN chunk = Live /\ \A a \in Live : chunk[a] = Size(a)
                    ELSE DOMAIN chunk = {}

IInv ==
    /\ ended \in {Null, "over_aligned"}
    /\ \/ m = Null /\ Empty
       \/ m \in [kind : Kinds, debug : BOOLEAN] /\ Good(m.kind, word, held) /\ ChunksExact

-----------------------------------------------------------------------------
(* Numbers.                                                                *)

LEMMA Sizing ==
    ASSUME NEW n \in Nat, NEW s, DOMAIN s = 0 .. n - 1
    PROVE  SizeOf(s) = n
<1>1. Cardinality(0 .. n - 1) = IF 0 > n - 1 THEN 0 ELSE n - 1 - 0 + 1
  BY FS_Interval
<1>. QED
  BY <1>1 DEF SizeOf

LEMMA Rounding ==
    ASSUME NEW n \in Nat \ {0}
    PROVE  PagesFor(n) \in Nat \ {0} /\ PagesFor(n) * PageSize \in Nat \ {0} /\ n <= PagesFor(n) * PageSize
<1>. DEFINE q == (n - 1) \div PageSize
            r == (n - 1) % PageSize
<1>0. PageSize \in Nat \ {0}
  BY SystemAssumption
<1>1. q \in Nat /\ r \in 0 .. PageSize - 1 /\ n - 1 = PageSize * q + r
  BY <1>0
<1>2. (q + 1) * PageSize = PageSize * q + PageSize
  BY <1>0, <1>1
<1>3. PageSize * q \in Nat
  BY <1>0, <1>1
<1>. QED
  BY <1>0, <1>1, <1>2, <1>3 DEF PagesFor

LEMMA WholePages ==
    ASSUME NEW p \in Nat \ {0}
    PROVE  PagesFor(p * PageSize) = p /\ p * PageSize \in Nat \ {0}
<1>. DEFINE n == p * PageSize
            q == (n - 1) \div PageSize
            r == (n - 1) % PageSize
<1>0. PageSize \in Nat \ {0}
  BY SystemAssumption
<1>1. n \in Nat \ {0}
  BY <1>0
<1>2. q \in Nat /\ r \in 0 .. PageSize - 1 /\ n - 1 = PageSize * q + r
  BY <1>0, <1>1
<1>3. q < p
  <2>1. ASSUME q >= p PROVE FALSE
    <3>1. PageSize * q >= PageSize * p
      BY <1>0, <1>2, <2>1
    <3>. QED
      BY <1>0, <1>1, <1>2, <3>1
  <2>. QED
    BY <1>2, <2>1
<1>4. q >= p - 1
  <2>1. ASSUME q + 2 <= p PROVE FALSE
    <3>1. PageSize * (q + 2) <= PageSize * p
      BY <1>0, <1>2, <2>1
    <3>2. PageSize * (q + 2) = PageSize * q + PageSize + PageSize
      BY <1>0, <1>2
    <3>. QED
      BY <1>0, <1>1, <1>2, <3>1, <3>2
  <2>. QED
    BY <1>2, <2>1
<1>. QED
  BY <1>1, <1>2, <1>3, <1>4 DEF PagesFor

LEMMA Reserve ==
    /\ PageSize \in Nat \ {0} /\ PagesReserved \in Nat \ {0}
    /\ PagesReserved * PageSize \in Nat \ {0}
    /\ PagesFor(PagesReserved * PageSize) = PagesReserved
    /\ \A p \in Nat : p <= PagesReserved => p * PageSize <= PagesReserved * PageSize
<1>0. PageSize \in Nat \ {0} /\ PagesReserved \in Nat \ {0}
  BY SystemAssumption
<1>1. PagesReserved * PageSize \in Nat \ {0} /\ PagesFor(PagesReserved * PageSize) = PagesReserved
  BY <1>0, WholePages
<1>2. \A p \in Nat : p <= PagesReserved => p * PageSize <= PagesReserved * PageSize
  <2>. SUFFICES ASSUME NEW p \in Nat, p <= PagesReserved
                PROVE  p * PageSize <= PagesReserved * PageSize
    OBVIOUS
  <2>1. PagesReserved = p + (PagesReserved - p) /\ PagesReserved - p \in Nat
    BY <1>0
  <2>2. PagesReserved * PageSize = p * PageSize + (PagesReserved - p) * PageSize
    BY <1>0, <2>1
  <2>3. (PagesReserved - p) * PageSize \in Nat /\ p * PageSize \in Nat
    BY <1>0, <2>1
  <2>. QED
    BY <1>0, <2>2, <2>3
<1>. QED
  BY <1>0, <1>1, <1>2

-----------------------------------------------------------------------------
(* A slice comes, goes or changes: u maps what w did, but for the extent   *)
(* of one slice.                                                           *)

(* g is h with the slice s at a. *)
Puts(g, h, a, s) ==
    /\ DOMAIN g = DOMAIN h \cup {a} /\ g[a] = s
    /\ \A b \in DOMAIN h \ {a} : g[b] = h[b]

Takes(g, h, a) ==
    /\ DOMAIN g = DOMAIN h \ {a}
    /\ \A b \in DOMAIN h \ {a} : g[b] = h[b]

(* u holds what w holds on the addresses d. *)
Agrees(u, w, d) == d \subseteq DOMAIN u /\ \A i \in d : u[i] = w[i]

LEMMA UsableKept ==
    ASSUME NEW w, NEW u, NEW a \in Int, NEW s, NEW n \in Nat, Slice(s, SizeOf(s)), SizeOf(s) <= n,
           Agrees(u, w, Bytes(a, n)), Usable(w, a, s)
    PROVE  Usable(u, a, s)
<1>1. ASSUME NEW i \in DOMAIN s PROVE a + i \in Bytes(a, n)
  BY DEF Slice, Bytes
<1>. QED
  BY <1>1 DEF Usable, Agrees

LEMMA LengthNat ==
    ASSUME NEW kind \in {"c", "page", "reserving"}, NEW n \in Nat \ {0}
    PROVE  LengthOf(kind, n) \in Nat \ {0}
BY Rounding, Reserve DEF LengthOf

LEMMA Comes ==
    ASSUME NEW kind \in {"c", "page", "reserving"}, NEW w, NEW h, Good(kind, w, h), 
           NEW a \in Int, NEW s, NEW n, Slice(s, n), n <= LengthOf(kind, n),
           NEW e, e = Bytes(a, LengthOf(kind, n)), e \subseteq Address \ DOMAIN w,
           NEW u, Mapped(u), DOMAIN u = DOMAIN w \cup e, Agrees(u, w, DOMAIN w), Usable(u, a, s),
           NEW g, Puts(g, h, a, s)
    PROVE  Good(kind, u, g) /\ a \notin DOMAIN h
<1>1. SizeOf(s) = n /\ n \in Nat \ {0} /\ LengthOf(kind, n) \in Nat \ {0}
  BY Sizing, LengthNat DEF Slice
<1>2. ExtentOf(kind, g, a) = e /\ a \in e
  BY <1>1 DEF ExtentOf, Puts, Bytes
<1>3. \A b \in DOMAIN h : b \in ExtentOf(kind, h, b)
  <2>. TAKE b \in DOMAIN h
  <2>1. b \in Int /\ SizeOf(h[b]) \in Nat \ {0} /\ LengthOf(kind, SizeOf(h[b])) \in Nat \ {0}
    BY LengthNat DEF Good, Fitting, Slice
  <2>. QED
    BY <2>1 DEF ExtentOf, Bytes
<1>4. a \notin DOMAIN h
  BY <1>2, <1>3 DEF Good
<1>5. /\ \A b \in DOMAIN h : g[b] = h[b] /\ ExtentOf(kind, g, b) = ExtentOf(kind, h, b)
      /\ DOMAIN g = DOMAIN h \cup {a} /\ g[a] = s
  BY <1>4 DEF Puts, ExtentOf
<1>6. \A b \in DOMAIN h : Usable(u, b, h[b])
  <2>. TAKE b \in DOMAIN h
  <2>1. b \in Int /\ Fitting(kind, h[b]) /\ Usable(w, b, h[b]) /\ ExtentOf(kind, h, b) \subseteq DOMAIN w
    BY DEF Good
  <2>2. LengthOf(kind, SizeOf(h[b])) \in Nat
    BY <2>1, LengthNat DEF Fitting, Slice
  <2>3. Agrees(u, w, Bytes(b, LengthOf(kind, SizeOf(h[b]))))
    BY <2>1 DEF Agrees, ExtentOf
  <2>. QED
    BY <2>1, <2>2, <2>3, UsableKept DEF Fitting
<1>7. \A b \in DOMAIN g : b \in Int /\ Fitting(kind, g[b]) /\ Usable(u, b, g[b])
  BY <1>1, <1>5, <1>6 DEF Good, Fitting
<1>8. /\ \A b \in DOMAIN g : ExtentOf(kind, g, b) \subseteq DOMAIN u
      /\ \A i \in DOMAIN u : \E b \in DOMAIN g : i \in ExtentOf(kind, g, b)
  BY <1>2, <1>5 DEF Good
<1>9. \A b, c \in DOMAIN g : b # c => ExtentOf(kind, g, b) \cap ExtentOf(kind, g, c) = {}
  BY <1>2, <1>5 DEF Good
<1>. QED
  BY <1>4, <1>7, <1>8, <1>9 DEF Good

LEMMA Goes ==
    ASSUME NEW kind \in {"c", "page", "reserving"}, NEW w, NEW h, Good(kind, w, h),
           NEW a \in DOMAIN h,
           NEW u, DOMAIN u = DOMAIN w \ ExtentOf(kind, h, a), Agrees(u, w, DOMAIN u),
           NEW g, Takes(g, h, a)
    PROVE  Good(kind, u, g)
<1>1. DOMAIN g = DOMAIN h \ {a} /\ \A b \in DOMAIN g : g[b] = h[b] /\ ExtentOf(kind, g, b) = ExtentOf(kind, h, b)
  BY DEF Takes, ExtentOf
<1>2. \A b \in DOMAIN g : ExtentOf(kind, g, b) \subseteq DOMAIN u
  BY <1>1 DEF Good
<1>3. \A i \in DOMAIN u : \E b \in DOMAIN g : i \in ExtentOf(kind, g, b)
  BY <1>1 DEF Good
<1>4. \A b \in DOMAIN g : Usable(u, b, g[b])
  <2>. TAKE b \in DOMAIN g
  <2>1. b \in Int /\ Fitting(kind, h[b]) /\ Usable(w, b, h[b])
    BY <1>1 DEF Good
  <2>2. LengthOf(kind, SizeOf(h[b])) \in Nat
    BY <2>1, LengthNat DEF Fitting, Slice
  <2>3. Agrees(u, w, Bytes(b, LengthOf(kind, SizeOf(h[b]))))
    BY <1>1, <1>2 DEF Agrees, ExtentOf
  <2>. QED
    BY <1>1, <2>1, <2>2, <2>3, UsableKept DEF Fitting
<1>5. Mapped(u)
  BY DEF Good, Mapped, Agrees
<1>. QED
  BY <1>1, <1>2, <1>3, <1>4, <1>5 DEF Good

(* The slice at a becomes s, in the same extent. *)
LEMMA Changes ==
    ASSUME NEW kind \in {"c", "page", "reserving"}, NEW w, NEW h, Good(kind, w, h),
           NEW a \in DOMAIN h, NEW s, NEW n, Slice(s, n), n <= LengthOf(kind, n),
           LengthOf(kind, n) = LengthOf(kind, SizeOf(h[a])),
           NEW u, Mapped(u), DOMAIN u = DOMAIN w, 
           Agrees(u, w, DOMAIN w \ ExtentOf(kind, h, a)), Usable(u, a, s),
           NEW g, Puts(g, h, a, s)
    PROVE  Good(kind, u, g)
<1>1. SizeOf(s) = n /\ n \in Nat \ {0}
  BY Sizing DEF Slice
<1>2. DOMAIN g = DOMAIN h /\ g[a] = s /\ \A b \in DOMAIN h : ExtentOf(kind, g, b) = ExtentOf(kind, h, b)
  BY <1>1 DEF Puts, ExtentOf
<1>3. ASSUME NEW b \in DOMAIN h, b # a
      PROVE  Usable(u, b, h[b])
  <2>1. b \in Int /\ Fitting(kind, h[b]) /\ Usable(w, b, h[b])
    BY DEF Good
  <2>2. LengthOf(kind, SizeOf(h[b])) \in Nat
    BY <2>1, LengthNat DEF Fitting, Slice
  <2>3. /\ ExtentOf(kind, h, b) \subseteq DOMAIN w
        /\ ExtentOf(kind, h, b) \cap ExtentOf(kind, h, a) = {}
    BY <1>3 DEF Good
  <2>4. Agrees(u, w, Bytes(b, LengthOf(kind, SizeOf(h[b]))))
    BY <2>3 DEF Agrees, ExtentOf
  <2>. QED
    BY <2>1, <2>2, <2>4, UsableKept DEF Fitting
<1>4. \A b \in DOMAIN g : b \in Int /\ Fitting(kind, g[b]) /\ Usable(u, b, g[b])
  <2>. TAKE b \in DOMAIN g
  <2>1. CASE b = a
    BY <1>1, <1>2, <2>1 DEF Good, Fitting
  <2>2. CASE b # a
    BY <1>2, <1>3, <2>2 DEF Good, Puts
  <2>. QED
    BY <2>1, <2>2
<1>. QED
  BY <1>2, <1>4 DEF Good

LEMMA Stays ==
    ASSUME NEW kind \in {"c", "page", "reserving"}, NEW w, NEW h, Good(kind, w, h),
           NEW u, DOMAIN u = DOMAIN w, Agrees(u, w, DOMAIN w)
    PROVE  Good(kind, u, h)
<1>1. Mapped(u)
  BY DEF Good, Mapped, Agrees
<1>2. \A a \in DOMAIN h : Usable(u, a, h[a])
  BY DEF Good, Usable, Agrees
<1>. QED
  BY <1>1, <1>2 DEF Good

-----------------------------------------------------------------------------
(* What the helpers of the model build.                                    *)

LEMMA FilledIs ==
    ASSUME NEW w, Mapped(w), NEW a \in Int, NEW n \in Nat, Bytes(a, n) \subseteq Address,
           NEW c \in Content, NEW u, u = Filled(w, a, n, c)
    PROVE  /\ Mapped(u) /\ DOMAIN u = DOMAIN w \cup Bytes(a, n)
           /\ Agrees(u, w, DOMAIN w \ Bytes(a, n))
           /\ \A i \in Bytes(a, n) : u[i] = c
BY DEF Filled, Mapped, Agrees

LEMMA PromiseKept ==
    ASSUME NEW u, NEW a \in Int, NEW n \in Nat \ {0}, NEW old, NEW c,
           \A i \in 0 .. n - 1 :
               /\ a + i \in DOMAIN u /\ u[a + i] # "NoAccess"
               /\ i \in DOMAIN old => old[i] \in {Unspecified, u[a + i]}
               /\ i \notin DOMAIN old => c \in {Unspecified, u[a + i]},
           NEW s, s = Promise(old, n, c)
    PROVE  Slice(s, n) /\ Usable(u, a, s)
BY DEF Promise, Slice, Usable

(* A new slice of bytes that hold v or, when nothing is promised, anything *)
(* that can be accessed.                                                   *)
LEMMA FreshUsable ==
    ASSUME NEW u, NEW a \in Int, NEW n \in Nat \ {0}, NEW c,
           \A i \in Bytes(a, n) : i \in DOMAIN u /\ u[i] # "NoAccess" /\ c \in {Unspecified, u[i]},
           NEW s, s = Promise(<< >>, n, c)
    PROVE  Slice(s, n) /\ Usable(u, a, s)
<1>1. DOMAIN << >> = {}
  OBVIOUS
<1>2. \A i \in 0 .. n - 1 : a + i \in Bytes(a, n)
  BY DEF Bytes
<1>. QED
  BY <1>1, <1>2, PromiseKept

LEMMA GivenPuts ==
    ASSUME NEW h, NEW a, NEW old, NEW n, NEW c
    PROVE  Puts(Given(h, a, old, n, c), h, a, Promise(old, n, c))
BY DEF Given, With, Puts

LEMMA WithoutTakes ==
    ASSUME NEW h, NEW a
    PROVE  Takes([b \in DOMAIN h \ {a} |-> h[b]], h, a)
BY DEF Takes

LEMMA SpotIs ==
    ASSUME NEW n \in Nat \ {0}, NEW alignment, NEW a \in Spots(n, alignment)
    PROVE  a \in Int /\ Bytes(a, n) \subseteq Address \ DOMAIN word /\ Bytes(a, n) \subseteq Address
<1>1. a \in Address
  BY DEF Spots
<1>2. a \in Int
  BY <1>1, SystemAssumption DEF Address
<1>. QED
  BY <1>2 DEF Spots

Requests == [num_bytes : Nat \ {0}, alignment : Nat \ {0}, leave_nonzeroed : BOOLEAN]

ReallocateRequests ==
    [new_size : Nat \ {0}, preferred : Nat, leave_nonzeroed : BOOLEAN, in_place : BOOLEAN]

(* The bytes at a can be used and are as promised with c; the rest of u is w. *)
Readied(u, w, a, n, c) ==
    /\ Mapped(u) /\ DOMAIN u = DOMAIN w /\ Agrees(u, w, DOMAIN w \ Bytes(a, n))
    /\ \A i \in Bytes(a, n) : u[i] # "NoAccess" /\ c \in {Unspecified, u[i]}

LEMMA Zeroing ==
    ASSUME NEW w, Mapped(w), NEW a \in Int, NEW n \in Nat, Bytes(a, n) \subseteq DOMAIN w,
           \A i \in Bytes(a, n) : w[i] # "NoAccess",
           NEW request \in Requests,
           NEW u, u = Zeroed(w, a, n, request)
    PROVE  Readied(u, w, a, n, Rest(request))
<1>0. request.leave_nonzeroed \in BOOLEAN
  BY DEF Requests
<1>1. CASE request.leave_nonzeroed
  BY <1>1 DEF Readied, Zeroed, Rest, Mapped, Agrees
<1>2. CASE ~request.leave_nonzeroed
  <2>1. u = Filled(w, a, n, "Zero")
    BY <1>2 DEF Zeroed
  <2>2. "Zero" \in Content /\ Bytes(a, n) \subseteq Address
    BY DEF Content, Mapped
  <2>3. /\ Mapped(u) /\ DOMAIN u = DOMAIN w \cup Bytes(a, n)
        /\ Agrees(u, w, DOMAIN w \ Bytes(a, n))
        /\ \A i \in Bytes(a, n) : u[i] = "Zero"
    BY <2>1, <2>2 DEF Filled, Mapped, Agrees
  <2>. QED
    BY <1>2, <2>3 DEF Rest, Readied
<1>. QED
  BY <1>0, <1>1, <1>2

LEMMA CommittedIs ==
    ASSUME NEW w, Mapped(w), NEW a \in Int, NEW p, NEW n, n = p * PageSize,
           NEW u, u = commit_pages(w, a, p)
    PROVE  /\ Mapped(u) /\ DOMAIN u = DOMAIN w
           /\ \A i \in DOMAIN w : w[i] # "NoAccess" => u[i] = w[i]
           /\ Agrees(u, w, DOMAIN w \ Bytes(a, n))
           /\ \A i \in DOMAIN w : i \in Bytes(a, n) => u[i] # "NoAccess"
BY DEF commit_pages, Mapped, Agrees, Content

-----------------------------------------------------------------------------
(* The allocations and deallocations of pages.                             *)

LEMMA Serving ==
    ASSUME IInv, NEW kind, Running(kind)
    PROVE  /\ m \in [kind : Kinds, debug : BOOLEAN] /\ m.kind = kind
           /\ kind \in {"c", "page", "reserving"}
           /\ Good(kind, word, held) /\ ChunksExact /\ Mapped(word)
BY SystemAssumption DEF IInv, Running, Good

(* As long as malloc is not used its chunks stay empty. *)
LEMMA PagesServed ==
    ASSUME IInv, NEW kind, Running(kind), kind # "c", UNCHANGED <<m, chunk, ended>>,
           Good(kind, word', held')
    PROVE  IInv'
<1>1. m \in [kind : Kinds, debug : BOOLEAN] /\ m.kind = kind /\ ChunksExact
  BY Serving
<1>. QED
  BY <1>1 DEF IInv, ChunksExact

LEMMA PagesCome ==
    ASSUME NEW kind \in {"page", "reserving"}, NEW w, NEW h, Good(kind, w, h),
           NEW p \in Nat \ {0}, kind = "reserving" => p = PagesReserved,
           NEW n, n = p * PageSize,
           NEW a \in Int, Bytes(a, n) \subseteq Address \ DOMAIN w,
           NEW c \in {Unspecified, "Zero"},
           NEW u, u = alloc_pages(w, a, p), NEW g, g = Given(h, a, << >>, n, c)
    PROVE  Good(kind, u, g)
<1>1. n \in Nat \ {0} /\ PagesFor(n) = p
  BY WholePages
<1>2. Mapped(w)
  BY DEF Good
<1>3. u = Filled(w, a, n, "Zero")
  BY DEF alloc_pages
<1>4. /\ Mapped(u) /\ DOMAIN u = DOMAIN w \cup Bytes(a, n)
      /\ Agrees(u, w, DOMAIN w)
      /\ \A i \in Bytes(a, n) : u[i] = "Zero"
  BY <1>2, <1>3 DEF Filled, Mapped, Agrees, Content
<1>. DEFINE s == Promise(<< >>, n, c)
<1>5. Slice(s, n) /\ Usable(u, a, s)
  <2>1. \A i \in Bytes(a, n) : i \in DOMAIN u /\ u[i] # "NoAccess" /\ c \in {Unspecified, u[i]}
    BY <1>4
  <2>. QED
    BY <1>1, <2>1, FreshUsable
<1>6. LengthOf(kind, n) = n
  BY <1>1 DEF LengthOf
<1>7. Puts(g, h, a, s)
  BY GivenPuts
<1>. DEFINE e == Bytes(a, n)
<1>8. /\ kind \in {"c", "page", "reserving"} /\ n <= LengthOf(kind, n)
      /\ e = Bytes(a, LengthOf(kind, n)) /\ e \subseteq Address \ DOMAIN w
      /\ DOMAIN u = DOMAIN w \cup e
  BY <1>1, <1>4, <1>6
<1>. HIDE DEF s, e
<1>. QED
  BY <1>4, <1>5, <1>7, <1>8, Comes

LEMMA AllocatePagesGood ==
    ASSUME IInv, NEW kind \in {"page", "reserving"}, Running(kind), NEW request \in Requests,
           AllocatePages(request),
           kind = "reserving" => PagesFor(request.num_bytes) = PagesReserved
    PROVE  IInv'
<1>. DEFINE pages == PagesFor(request.num_bytes)
            n == pages * PageSize
<1>1. pages \in Nat \ {0} /\ n \in Nat \ {0}
  BY Rounding, WholePages DEF Requests
<1>2. PICK a \in Spots(n, PageSize) :
          /\ word' = alloc_pages(word, a, pages)
          /\ held' = Given(held, a, << >>, n, Rest(request))
  BY DEF AllocatePages
<1>3. UNCHANGED <<m, chunk, ended>>
  BY DEF AllocatePages
<1>4. a \in Int /\ Bytes(a, n) \subseteq Address \ DOMAIN word
  BY <1>1, SpotIs
<1>5. Good(kind, word, held)
  BY Serving
<1>6. Rest(request) \in {Unspecified, "Zero"}
  BY DEF Rest
<1>7. Good(kind, word', held')
  BY <1>1, <1>2, <1>4, <1>5, <1>6, PagesCome
<1>. QED
  BY <1>3, <1>7, PagesServed

LEMMA PageAllocateGood ==
    ASSUME IInv, NEW request \in Requests, PageAllocate(request)
    PROVE  IInv'
<1>1. CASE Fails
  BY <1>1 DEF Fails, vars, IInv, ChunksExact, Empty, Live, Size
<1>2. CASE AllocatePages(request)
  BY <1>2, AllocatePagesGood DEF PageAllocate
<1>. QED
  BY <1>1, <1>2 DEF PageAllocate

LEMMA UnmappedIs ==
    ASSUME NEW w, NEW a, NEW bytes, NEW n, n = PagesFor(bytes) * PageSize,
           NEW u, u = memory_unmap(w, a, bytes)
    PROVE  DOMAIN u = DOMAIN w \ Bytes(a, n) /\ Agrees(u, w, DOMAIN u)
BY DEF memory_unmap, Agrees

LEMMA PagesGo ==
    ASSUME NEW kind \in {"page", "reserving"}, NEW w, NEW h, Good(kind, w, h), NEW a \in DOMAIN h,
           NEW bytes, PagesFor(bytes) * PageSize = LengthOf(kind, SizeOf(h[a])),
           NEW u, u = memory_unmap(w, a, bytes),
           NEW g, g = [b \in DOMAIN h \ {a} |-> h[b]]
    PROVE  Good(kind, u, g)
<1>1. DOMAIN u = DOMAIN w \ ExtentOf(kind, h, a) /\ Agrees(u, w, DOMAIN u)
  BY UnmappedIs DEF ExtentOf
<1>2. Takes(g, h, a)
  BY WithoutTakes
<1>3. kind \in {"c", "page", "reserving"}
  OBVIOUS
<1>. QED
  BY <1>1, <1>2, <1>3, Goes

LEMMA PageDeallocateGood ==
    ASSUME IInv, "no_size_hint" \notin BrokenUses,
           NEW a, NEW hint, PageDeallocate(a, hint)
    PROVE  IInv'
<1>1. /\ Running("page") /\ a \in DOMAIN held /\ PagesFor(hint) = PagesFor(SizeOf(held[a]))
      /\ word' = memory_unmap(word, a, hint) /\ held' = [b \in DOMAIN held \ {a} |-> held[b]]
      /\ UNCHANGED <<m, chunk, ended>>
  BY DEF PageDeallocate, Live, Size, SizeOf
<1>2. PagesFor(hint) * PageSize = LengthOf("page", SizeOf(held[a]))
  BY <1>1 DEF LengthOf
<1>3. Good("page", word, held)
  BY <1>1, Serving
<1>4. Good("page", word', held')
  BY <1>1, <1>2, <1>3, PagesGo
<1>. QED
  BY <1>1, <1>4, PagesServed

LEMMA ReservingDeallocateGood ==
    ASSUME IInv, NEW a, ReservingDeallocate(a)
    PROVE  IInv'
<1>. DEFINE bytes == PagesReserved * PageSize
<1>1. /\ Running("reserving") /\ a \in DOMAIN held
      /\ word' = memory_unmap(word, a, bytes) /\ held' = [b \in DOMAIN held \ {a} |-> held[b]]
      /\ UNCHANGED <<m, chunk, ended>>
  BY DEF ReservingDeallocate, Live
<1>2. PagesFor(bytes) * PageSize = LengthOf("reserving", SizeOf(held[a]))
  BY Reserve DEF LengthOf
<1>3. Good("reserving", word, held)
  BY <1>1, Serving
<1>4. Good("reserving", word', held')
  BY <1>1, <1>2, <1>3, PagesGo
<1>. QED
  BY <1>1, <1>4, PagesServed

-----------------------------------------------------------------------------
(* Reservations.                                                           *)

LEMMA ReservedIs ==
    ASSUME NEW w, Mapped(w), NEW a \in Int, NEW n, n = PagesReserved * PageSize,
           Bytes(a, n) \subseteq Address \ DOMAIN w,
           NEW u, u = reserve_pages(w, a, PagesReserved)
    PROVE  /\ Mapped(u) /\ DOMAIN u = DOMAIN w \cup Bytes(a, n) /\ Agrees(u, w, DOMAIN w)
BY DEF reserve_pages, Filled, Mapped, Agrees, Content

LEMMA GivenUp ==
    ASSUME NEW w, NEW h, Good("reserving", w, h),
           NEW a \in Int, NEW n, n = PagesReserved * PageSize, Bytes(a, n) \subseteq Address \ DOMAIN w,
           NEW u, u = CommitFailed(w, a)
    PROVE  Good("reserving", u, h)
<1>1. Mapped(w)
  BY DEF Good
<1>. DEFINE v == reserve_pages(w, a, PagesReserved)
<1>2. DOMAIN v = DOMAIN w \cup Bytes(a, n) /\ Agrees(v, w, DOMAIN w)
  BY <1>1, ReservedIs
<1>3. PagesFor(n) * PageSize = n
  BY Reserve
<1>4. u = memory_unmap(v, a, n)
  BY DEF CommitFailed
<1>. HIDE DEF v
<1>5. DOMAIN u = DOMAIN v \ Bytes(a, n) /\ Agrees(u, v, DOMAIN u)
  <2>. DEFINE k == PagesFor(n) * PageSize
  <2>1. k = n
    BY <1>3
  <2>2. u = [i \in DOMAIN v \ Bytes(a, k) |-> v[i]]
    BY <1>4 DEF memory_unmap
  <2>. HIDE DEF k
  <2>3. DOMAIN u = DOMAIN v \ Bytes(a, k) /\ Agrees(u, v, DOMAIN u)
    BY <2>2 DEF Agrees
  <2>. QED
    BY <2>1, <2>3
<1>6. DOMAIN u = DOMAIN w /\ Agrees(u, w, DOMAIN w)
  BY <1>2, <1>5 DEF Agrees
<1>. QED
  BY <1>6, Stays

LEMMA ReservationComes ==
    ASSUME NEW w, NEW h, Good("reserving", w, h), NEW request \in Requests,
           NEW p, p = PagesFor(request.num_bytes), p < PagesReserved,
           NEW n, n = PagesReserved * PageSize,
           NEW a \in Int, Bytes(a, n) \subseteq Address \ DOMAIN w,
           NEW u, u = Committed(w, a, request),
           NEW g, g = Given(h, a, << >>, p * PageSize, Rest(request))
    PROVE  Good("reserving", u, g)
<1>. DEFINE k == p * PageSize
            v == reserve_pages(w, a, PagesReserved)
            x == commit_pages(v, a, p)
            s == Promise(<< >>, k, Rest(request))
<1>1. p \in Nat \ {0} /\ k \in Nat \ {0} /\ n \in Nat \ {0} /\ k <= n
  <2>1. request.num_bytes \in Nat \ {0}
    BY DEF Requests
  <2>2. p \in Nat \ {0} /\ k \in Nat \ {0}
    BY <2>1, Rounding
  <2>3. p <= PagesReserved /\ n \in Nat \ {0}
    BY <2>2, Reserve
  <2>. QED
    BY <2>2, <2>3, Reserve
<1>. HIDE DEF k
<1>2. Mapped(w)
  BY DEF Good
<1>3. Bytes(a, k) \subseteq Bytes(a, n)
  BY <1>1 DEF Bytes
<1>4. Mapped(v) /\ DOMAIN v = DOMAIN w \cup Bytes(a, n) /\ Agrees(v, w, DOMAIN w)
  BY <1>2, ReservedIs
<1>. HIDE DEF v
<1>5. /\ Mapped(x) /\ DOMAIN x = DOMAIN v /\ Agrees(x, v, DOMAIN v \ Bytes(a, k))
      /\ \A i \in DOMAIN v : i \in Bytes(a, k) => x[i] # "NoAccess"
  <2>1. k = p * PageSize /\ x = commit_pages(v, a, p)
    BY DEF k
  <2>. HIDE DEF x
  <2>. QED
    BY <1>4, <2>1, CommittedIs
<1>6. u = Zeroed(x, a, k, request)
  BY DEF Committed, v, k
<1>. HIDE DEF x
<1>8. k \in Nat /\ Bytes(a, k) \subseteq DOMAIN x /\ \A i \in Bytes(a, k) : x[i] # "NoAccess"
  BY <1>1, <1>3, <1>4, <1>5
<1>9. /\ Mapped(u) /\ DOMAIN u = DOMAIN x /\ Agrees(u, x, DOMAIN x \ Bytes(a, k))
      /\ \A i \in Bytes(a, k) : u[i] # "NoAccess" /\ Rest(request) \in {Unspecified, u[i]}
  <2>1. Readied(u, x, a, k, Rest(request))
    BY <1>5, <1>6, <1>8, Zeroing
  <2>. QED
    BY <2>1 DEF Readied
<1>10. DOMAIN u = DOMAIN w \cup Bytes(a, n) /\ Agrees(u, w, DOMAIN w)
  BY <1>3, <1>4, <1>5, <1>9 DEF Agrees
<1>11. Slice(s, k) /\ Usable(u, a, s)
  <2>1. \A i \in Bytes(a, k) : i \in DOMAIN u /\ u[i] # "NoAccess" /\ Rest(request) \in {Unspecified, u[i]}
    BY <1>8, <1>9
  <2>. QED
    BY <1>1, <2>1, FreshUsable
<1>12. Puts(g, h, a, s)
  BY GivenPuts DEF k
<1>. DEFINE e == Bytes(a, n)
<1>13. /\ LengthOf("reserving", k) = n /\ k <= LengthOf("reserving", k)
       /\ e = Bytes(a, LengthOf("reserving", k)) /\ e \subseteq Address \ DOMAIN w
       /\ DOMAIN u = DOMAIN w \cup e
  BY <1>1, <1>10 DEF LengthOf
<1>. HIDE DEF s, e
<1>. QED
  BY <1>9, <1>10, <1>11, <1>12, <1>13, Comes

LEMMA ReservingAllocateGood ==
    ASSUME IInv, "more_than_reserved" \notin BrokenUses,
           NEW request \in Requests, ReservingAllocate(request)
    PROVE  IInv'
<1>. DEFINE pages == PagesFor(request.num_bytes)
            n == PagesReserved * PageSize
<1>1. Running("reserving") /\ pages \in Nat /\ pages <= PagesReserved /\ n \in Nat \ {0}
  <2>1. request.num_bytes \in Nat \ {0}
    BY DEF Requests
  <2>2. pages \in Nat \ {0}
    BY <2>1, Rounding
  <2>. QED
    BY <2>2, Reserve DEF ReservingAllocate
<1>2. Good("reserving", word, held)
  BY <1>1, Serving
<1>3. CASE Fails
  BY <1>3 DEF Fails, vars, IInv, ChunksExact, Empty, Live, Size
<1>4. CASE pages >= PagesReserved /\ AllocatePages(request)
  BY <1>1, <1>4, Reserve, AllocatePagesGood
<1>5. ASSUME NEW a \in Spots(n, PageSize), word' = CommitFailed(word, a), UNCHANGED <<m, chunk, held, ended>>
      PROVE  IInv'
  <2>1. a \in Int /\ Bytes(a, n) \subseteq Address \ DOMAIN word
    BY <1>1, SpotIs
  <2>2. Good("reserving", word', held)
    BY <1>2, <1>5, <2>1, GivenUp
  <2>3. Good("reserving", word', held')
    BY <1>5, <2>2
  <2>. QED
    BY <1>1, <1>5, <2>3, PagesServed
<1>6. ASSUME pages < PagesReserved, NEW a \in Spots(n, PageSize), word' = Committed(word, a, request),
             held' = Given(held, a, << >>, pages * PageSize, Rest(request)), UNCHANGED <<m, chunk, ended>>
      PROVE  IInv'
  <2>1. a \in Int /\ Bytes(a, n) \subseteq Address \ DOMAIN word
    BY <1>1, SpotIs
  <2>2. Good("reserving", word', held')
    BY <1>2, <1>6, <2>1, ReservationComes
  <2>. QED
    BY <1>1, <1>6, <2>2, PagesServed
<1>. QED
  BY <1>3, <1>4, <1>5, <1>6 DEF ReservingAllocate

(* A reallocation within a reservation: the slice gets shorter, or pages   *)
(* are committed behind it.                                                *)
LEMMA Shrinks ==
    ASSUME NEW kind, kind = "reserving", NEW w, NEW h, Good(kind, w, h), NEW a \in DOMAIN h,
           NEW n \in Nat \ {0}, n < SizeOf(h[a]),
           NEW g, g = [h EXCEPT ![a] = [i \in 0 .. n - 1 |-> h[a][i]]]
    PROVE  Good(kind, w, g)
<1>. DEFINE s == [i \in 0 .. n - 1 |-> h[a][i]]
<1>0. kind \in {"c", "page", "reserving"}
  OBVIOUS
<1>1. Fitting(kind, h[a]) /\ Usable(w, a, h[a]) /\ Mapped(w)
  BY DEF Good
<1>2. Slice(s, n) /\ Usable(w, a, s)
  BY <1>1 DEF Slice, Fitting, Usable
<1>3. LengthOf(kind, n) = LengthOf(kind, SizeOf(h[a])) /\ n <= LengthOf(kind, n)
  BY <1>1, Reserve DEF LengthOf, Fitting, Slice
<1>4. Puts(g, h, a, s)
  BY DEF Puts
<1>5. Agrees(w, w, DOMAIN w \ ExtentOf(kind, h, a))
  BY DEF Agrees
<1>. HIDE DEF s
<1>. QED
  BY <1>0, <1>1, <1>2, <1>3, <1>4, <1>5, Changes

LEMMA Expands ==
    ASSUME NEW kind, kind = "reserving", NEW w, NEW h, Good(kind, w, h), NEW a \in DOMAIN h,
           NEW p \in Nat \ {0}, p <= PagesReserved, NEW n, n = p * PageSize,
           NEW u, u = commit_pages(w, a, p),
           NEW g, g = Given(h, a, h[a], n, Unspecified)
    PROVE  Good(kind, u, g)
<1>. DEFINE s == Promise(h[a], n, Unspecified)
<1>0. kind \in {"c", "page", "reserving"} /\ n \in Nat \ {0}
  BY Reserve
<1>1. Fitting(kind, h[a]) /\ Usable(w, a, h[a]) /\ Mapped(w) /\ a \in Int
  BY DEF Good
<1>2. /\ Mapped(u) /\ DOMAIN u = DOMAIN w
      /\ \A i \in DOMAIN w : w[i] # "NoAccess" => u[i] = w[i]
      /\ Agrees(u, w, DOMAIN w \ Bytes(a, n))
      /\ \A i \in DOMAIN w : i \in Bytes(a, n) => u[i] # "NoAccess"
  BY <1>1, CommittedIs
<1>3. LengthOf(kind, n) = LengthOf(kind, SizeOf(h[a])) /\ n <= LengthOf(kind, n)
  BY Reserve DEF LengthOf
<1>4. LengthOf(kind, n) \in Nat
  BY Reserve DEF LengthOf
<1>5. Bytes(a, n) \subseteq ExtentOf(kind, h, a) /\ ExtentOf(kind, h, a) \subseteq DOMAIN w
  <2>1. Bytes(a, n) \subseteq Bytes(a, LengthOf(kind, n))
    BY <1>0, <1>1, <1>3, <1>4 DEF Bytes
  <2>. QED
    BY <1>3, <2>1 DEF ExtentOf, Good
<1>6. Slice(s, n) /\ Usable(u, a, s)
  <2>1. ASSUME NEW i \in 0 .. n - 1
        PROVE  /\ a + i \in DOMAIN u /\ u[a + i] # "NoAccess"
               /\ i \in DOMAIN h[a] => h[a][i] \in {Unspecified, u[a + i]}
    <3>1. a + i \in Bytes(a, n)
      BY <1>0, <1>1 DEF Bytes
    <3>2. a + i \in DOMAIN w
      BY <1>5, <3>1
    <3>. QED
      BY <1>1, <1>2, <3>1, <3>2 DEF Usable
  <2>. QED
    BY <1>0, <1>1, <2>1 DEF Promise, Slice, Usable
<1>7. Puts(g, h, a, s)
  BY GivenPuts
<1>8. Agrees(u, w, DOMAIN w \ ExtentOf(kind, h, a))
  BY <1>2, <1>5 DEF Agrees
<1>. HIDE DEF s
<1>. QED
  BY <1>0, <1>2, <1>3, <1>6, <1>7, <1>8, Changes

LEMMA ReservingReallocateGood ==
    ASSUME IInv, NEW a \in Live, NEW request \in ReallocateRequests, ReservingReallocate(a, request)
    PROVE  IInv'
<1>. DEFINE pages == PagesFor(PreferredSize(request))
<1>1. Running("reserving") /\ a \in DOMAIN held
  BY DEF ReservingReallocate, Live
<1>2. Good("reserving", word, held)
  BY <1>1, Serving
<1>3. request.new_size \in Nat \ {0} /\ PreferredSize(request) \in Nat \ {0}
  BY DEF ReallocateRequests, PreferredSize
<1>4. CASE /\ request.new_size < Size(a)
           /\ held' = [held EXCEPT ![a] = [i \in 0 .. request.new_size - 1 |-> held[a][i]]]
           /\ UNCHANGED <<m, word, chunk, ended>>
  <2>1. request.new_size < SizeOf(held[a])
    BY <1>4 DEF Size, SizeOf
  <2>2. Good("reserving", word, held')
    BY <1>1, <1>2, <1>3, <1>4, <2>1, Shrinks
  <2>3. Good("reserving", word', held')
    BY <1>4, <2>2
  <2>. QED
    BY <1>1, <1>4, <2>3, PagesServed
<1>5. CASE /\ pages <= PagesReserved
           /\ word' = Recommitted(word, a, request)
           /\ held' = Given(held, a, held[a], pages * PageSize, Unspecified)
           /\ UNCHANGED <<m, chunk, ended>>
  <2>1. pages \in Nat \ {0} /\ word' = commit_pages(word, a, pages)
    BY <1>3, <1>5, Rounding DEF Recommitted
  <2>2. Good("reserving", word', held')
    BY <1>1, <1>2, <1>5, <2>1, Expands
  <2>. QED
    BY <1>1, <1>5, <2>2, PagesServed
<1>. QED
  BY <1>4, <1>5 DEF ReservingReallocate

-----------------------------------------------------------------------------
(* malloc, realloc and free.                                               *)

LEMMA ChunksServed ==
    ASSUME IInv, Running("c"), UNCHANGED <<m, ended>>, Good("c", word', held'),
           DOMAIN chunk' = DOMAIN held', \A a \in DOMAIN held' : chunk'[a] = SizeOf(held'[a])
    PROVE  IInv'
<1>1. m \in [kind : Kinds, debug : BOOLEAN] /\ m.kind = "c"
  BY Serving
<1>. QED
  BY <1>1 DEF IInv, ChunksExact, Live, Size, SizeOf

LEMMA ChunksAre ==
    ASSUME IInv, Running("c")
    PROVE  DOMAIN chunk = DOMAIN held /\ \A a \in DOMAIN held : chunk[a] = SizeOf(held[a])
<1>1. m.kind = "c" /\ ChunksExact
  BY Serving
<1>. QED
  BY <1>1 DEF ChunksExact, Live, Size, SizeOf

LEMMA ChunkComes ==
    ASSUME NEW w, NEW h, Good("c", w, h), NEW request \in Requests,
           NEW n \in Nat \ {0}, NEW a \in Int, Bytes(a, n) \subseteq Address \ DOMAIN w,
           NEW u, u = Zeroed(Filled(w, a, n, "Data"), a, n, request),
           NEW g, g = Given(h, a, << >>, n, Rest(request))
    PROVE  Good("c", u, g) /\ a \notin DOMAIN h /\ SizeOf(g[a]) = n
<1>. DEFINE x == Filled(w, a, n, "Data")
            s == Promise(<< >>, n, Rest(request))
<1>1. Mapped(w)
  BY DEF Good
<1>2. /\ Mapped(x) /\ DOMAIN x = DOMAIN w \cup Bytes(a, n) /\ Agrees(x, w, DOMAIN w)
      /\ n \in Nat /\ Bytes(a, n) \subseteq DOMAIN x /\ \A i \in Bytes(a, n) : x[i] # "NoAccess"
  BY <1>1 DEF Filled, Mapped, Agrees, Content
<1>3. u = Zeroed(x, a, n, request)
  OBVIOUS
<1>. HIDE DEF x
<1>4. Readied(u, x, a, n, Rest(request))
  BY <1>2, <1>3, Zeroing
<1>5. Mapped(u) /\ DOMAIN u = DOMAIN w \cup Bytes(a, n) /\ Agrees(u, w, DOMAIN w)
  BY <1>2, <1>4 DEF Readied, Agrees
<1>6. Slice(s, n) /\ Usable(u, a, s)
  <2>1. \A i \in Bytes(a, n) : i \in DOMAIN u /\ u[i] # "NoAccess" /\ Rest(request) \in {Unspecified, u[i]}
    BY <1>4, <1>5 DEF Readied
  <2>. QED
    BY <2>1, FreshUsable
<1>7. Puts(g, h, a, s)
  BY GivenPuts
<1>. DEFINE e == Bytes(a, n)
<1>8. /\ LengthOf("c", n) = n /\ n <= LengthOf("c", n)
      /\ e = Bytes(a, LengthOf("c", n)) /\ e \subseteq Address \ DOMAIN w
      /\ DOMAIN u = DOMAIN w \cup e
  BY <1>5 DEF LengthOf
<1>. HIDE DEF s, e
<1>9. Good("c", u, g) /\ a \notin DOMAIN h
  BY <1>5, <1>6, <1>7, <1>8, Comes
<1>10. SizeOf(g[a]) = n
  BY <1>6, <1>7, Sizing DEF Puts, Slice
<1>. QED
  BY <1>9, <1>10

LEMMA CAllocateGood ==
    ASSUME IInv, NEW request \in Requests, CAllocate(request)
    PROVE  IInv'
<1>. DEFINE n == request.num_bytes + IF m.debug THEN 1 ELSE 0
<1>1. Running("c") /\ request.num_bytes \in Nat \ {0}
  BY DEF CAllocate, Requests
<1>2. /\ m \in [kind : Kinds, debug : BOOLEAN] /\ Good("c", word, held)
      /\ DOMAIN chunk = DOMAIN held /\ \A a \in DOMAIN held : chunk[a] = SizeOf(held[a])
  BY <1>1, Serving, ChunksAre
<1>3. n \in Nat \ {0}
  BY <1>1, <1>2
<1>4. CASE Fails
  BY <1>4 DEF Fails, vars, IInv, ChunksExact, Empty, Live, Size
<1>5. CASE ended' = "over_aligned" /\ UNCHANGED <<m, word, chunk, held>>
  BY <1>5 DEF IInv, ChunksExact, Empty, Live, Size
<1>6. ASSUME NEW a \in Spots(n, MallocAlign),
             word' = Zeroed(Filled(word, a, n, "Data"), a, n, request),
             chunk' = With(chunk, a, n), held' = Given(held, a, << >>, n, Rest(request)),
             UNCHANGED <<m, ended>>
      PROVE  IInv'
  <2>. HIDE DEF n
  <2>1. a \in Int /\ Bytes(a, n) \subseteq Address \ DOMAIN word
    BY <1>3, SpotIs
  <2>2. Good("c", word', held') /\ a \notin DOMAIN held /\ SizeOf(held'[a]) = n
    BY <1>2, <1>3, <1>6, <2>1, ChunkComes
  <2>3. DOMAIN held' = DOMAIN held \cup {a} /\ \A b \in DOMAIN held \ {a} : held'[b] = held[b]
    BY <1>6 DEF Given, With
  <2>4. DOMAIN chunk' = DOMAIN chunk \cup {a} /\ chunk'[a] = n /\ \A b \in DOMAIN chunk \ {a} : chunk'[b] = chunk[b]
    BY <1>6 DEF With
  <2>5. \A b \in DOMAIN held' : chunk'[b] = SizeOf(held'[b])
    BY <1>2, <2>2, <2>3, <2>4
  <2>. QED
    BY <1>1, <1>2, <1>6, <2>2, <2>3, <2>4, <2>5, ChunksServed
<1>. QED
  BY <1>4, <1>5, <1>6 DEF CAllocate

LEMMA CDeallocateGood ==
    ASSUME IInv, NEW a, CDeallocate(a)
    PROVE  IInv'
<1>1. /\ Running("c") /\ a \in DOMAIN held
      /\ word' = [i \in DOMAIN word \ Bytes(a, chunk[a]) |-> word[i]]
      /\ chunk' = [b \in DOMAIN chunk \ {a} |-> chunk[b]]
      /\ held' = [b \in DOMAIN held \ {a} |-> held[b]]
      /\ UNCHANGED <<m, ended>>
  BY DEF CDeallocate, Live
<1>2. /\ Good("c", word, held)
      /\ DOMAIN chunk = DOMAIN held /\ \A b \in DOMAIN held : chunk[b] = SizeOf(held[b])
  BY <1>1, Serving, ChunksAre
<1>3. Bytes(a, chunk[a]) = ExtentOf("c", held, a)
  BY <1>1, <1>2 DEF ExtentOf, LengthOf
<1>4. DOMAIN word' = DOMAIN word \ ExtentOf("c", held, a) /\ Agrees(word', word, DOMAIN word')
  BY <1>1, <1>3 DEF Agrees
<1>5. Takes(held', held, a)
  BY <1>1 DEF Takes
<1>6. Good("c", word', held')
  BY <1>1, <1>2, <1>4, <1>5, Goes
<1>7. DOMAIN chunk' = DOMAIN held' /\ \A b \in DOMAIN held' : chunk'[b] = SizeOf(held'[b])
  BY <1>1, <1>2
<1>. QED
  BY <1>1, <1>6, <1>7, ChunksServed

(* realloc: the chunk of old bytes at a goes and one of n bytes comes, at  *)
(* b, which may be where the old one was.  x is what realloc leaves, u     *)
(* what it is once the new bytes are filled.                               *)
RoomFor(w, a, old, b, n) ==
    Bytes(b, n) \subseteq (Address \ DOMAIN w) \cup IF b = a THEN Bytes(a, old) ELSE {}

MovedTo(x, w, a, old, b, n) ==
    /\ DOMAIN x = (DOMAIN w \ Bytes(a, old)) \cup Bytes(b, n)
    /\ \A i \in DOMAIN w \ Bytes(a, old) : i \notin Bytes(b, n) => x[i] = w[i]
    /\ \A i \in Bytes(b, n) : x[i] = IF i - b < old THEN w[a + i - b] ELSE "Data"

HeldInstead(g, h, a, b, n) ==
    /\ SizeOf(g[b]) = n /\ DOMAIN g = (DOMAIN h \ {a}) \cup {b}
    /\ \A c \in DOMAIN g \ {b} : c \in DOMAIN h \ {a} /\ g[c] = h[c]

LEMMA ChunkMoves ==
    ASSUME NEW w, NEW h, Good("c", w, h), NEW a \in DOMAIN h, NEW old, old = SizeOf(h[a]),
           NEW request \in ReallocateRequests,
           NEW n \in Nat \ {0}, NEW b \in Int,
           RoomFor(w, a, old, b, n), NEW x, MovedTo(x, w, a, old, b, n),
           NEW u, u = ExpansionZeroed(x, b, old, n, request),
           NEW f, Takes(f, h, a), NEW g, g = Given(f, b, h[a], n, Rest(request))
    PROVE  Good("c", u, g) /\ HeldInstead(g, h, a, b, n)
<1>. USE DEF RoomFor, MovedTo
<1>. DEFINE v == [i \in DOMAIN w \ Bytes(a, old) |-> w[i]]
            s == Promise(h[a], n, Rest(request))
            e == Bytes(b, n)
<1>1. /\ Mapped(w) /\ a \in Int /\ Slice(h[a], old) /\ Usable(w, a, h[a])
      /\ ExtentOf("c", h, a) = Bytes(a, old) /\ Bytes(a, old) \subseteq DOMAIN w
  BY DEF Good, Fitting, ExtentOf, LengthOf
<1>2. DOMAIN v = DOMAIN w \ ExtentOf("c", h, a) /\ Agrees(v, w, DOMAIN v)
  BY <1>1 DEF Agrees
<1>4. Good("c", v, f)
  <2>. HIDE DEF v
  <2>. QED
    BY <1>2, Goes
<1>5. Bytes(b, n) \subseteq Address /\ e \subseteq Address \ DOMAIN v
  BY <1>1, <1>2 DEF Mapped
<1>6. \A i \in Bytes(b, n) : i - b < old =>
          /\ x[i] = w[a + (i - b)] /\ x[i] \in Content /\ x[i] # "NoAccess"
          /\ h[a][i - b] \in {Unspecified, x[i]}
  <2>. SUFFICES ASSUME NEW i \in Bytes(b, n), i - b < old
                PROVE  /\ x[i] = w[a + (i - b)] /\ x[i] \in Content /\ x[i] # "NoAccess"
                       /\ h[a][i - b] \in {Unspecified, x[i]}
    OBVIOUS
  <2>1. i \in Int /\ i - b \in 0 .. old - 1 /\ a + i - b = a + (i - b)
    BY <1>1 DEF Bytes, Slice
  <2>2. i - b \in DOMAIN h[a] /\ x[i] = w[a + (i - b)]
    BY <1>1, <2>1 DEF Slice
  <2>. QED
    BY <1>1, <2>2 DEF Usable, Mapped
<1>7. ASSUME NEW i \in Bytes(b, n) PROVE i \in DOMAIN x /\ x[i] \in Content /\ x[i] # "NoAccess"
  BY <1>6 DEF Content
<1>8. /\ DOMAIN u = DOMAIN x
      /\ \A i \in DOMAIN x : i \notin Bytes(b, n) => u[i] = x[i]
      /\ \A i \in Bytes(b, n) : u[i] \in Content /\ u[i] # "NoAccess"
      /\ \A i \in Bytes(b, n) : i - b < old => u[i] = x[i]
      /\ \A i \in Bytes(b, n) : i - b >= old => Rest(request) \in {Unspecified, u[i]}
  <2>0. request.leave_nonzeroed \in BOOLEAN /\ old \in Nat
    BY <1>1 DEF ReallocateRequests, Slice
  <2>1. CASE n > old /\ ~request.leave_nonzeroed
    <3>1. u = Filled(x, b + old, n - old, "Zero") /\ Rest(request) = "Zero"
      BY <2>1 DEF ExpansionZeroed, Rest
    <3>2. Bytes(b + old, n - old) \subseteq Bytes(b, n)
      BY <2>0, <2>1 DEF Bytes
    <3>3. \A i \in Bytes(b, n) : i \in Bytes(b + old, n - old) <=> i - b >= old
      BY <2>0, <2>1 DEF Bytes
    <3>4. DOMAIN u = DOMAIN x
      BY <3>1, <3>2 DEF Filled
    <3>5. \A i \in DOMAIN x : u[i] = IF i \in Bytes(b + old, n - old) THEN "Zero" ELSE x[i]
      BY <3>1, <3>2 DEF Filled
    <3>6. \A i \in Bytes(b, n) : i - b < old => i \notin Bytes(b + old, n - old)
      BY <2>0, <2>1 DEF Bytes
    <3>. QED
      BY <1>7, <3>1, <3>2, <3>3, <3>4, <3>5, <3>6 DEF Content
  <2>2. CASE ~(n > old)
    <3>1. u = x
      BY <2>2 DEF ExpansionZeroed
    <3>2. \A i \in Bytes(b, n) : i - b < old
      BY <2>0, <2>2 DEF Bytes
    <3>. QED
      BY <1>7, <2>0, <3>1, <3>2 DEF Bytes
  <2>3. CASE request.leave_nonzeroed
    <3>1. u = x /\ Rest(request) = Unspecified
      BY <2>3 DEF ExpansionZeroed, Rest
    <3>. QED
      BY <1>7, <3>1
  <2>. QED
    BY <2>0, <2>1, <2>2, <2>3
<1>9. Mapped(u) /\ DOMAIN u = DOMAIN v \cup e /\ Agrees(u, v, DOMAIN v)
  <2>1. DOMAIN u = DOMAIN v \cup e /\ DOMAIN u \subseteq Address
    BY <1>1, <1>5, <1>8 DEF Mapped
  <2>2. \A i \in DOMAIN v : u[i] = v[i] /\ v[i] \in Content
    BY <1>1, <1>5, <1>8 DEF Mapped
  <2>. QED
    BY <1>8, <2>1, <2>2 DEF Mapped, Agrees
<1>10. Slice(s, n) /\ Usable(u, b, s)
  <2>1. ASSUME NEW i \in 0 .. n - 1
        PROVE  /\ b + i \in DOMAIN u /\ u[b + i] # "NoAccess"
               /\ i \in DOMAIN h[a] => h[a][i] \in {Unspecified, u[b + i]}
               /\ i \notin DOMAIN h[a] => Rest(request) \in {Unspecified, u[b + i]}
    <3>1. b + i \in Bytes(b, n) /\ (b + i) - b = i
      BY DEF Bytes
    <3>2. b + i \in DOMAIN u /\ u[b + i] # "NoAccess"
      BY <1>8, <3>1
    <3>3. CASE i < old
      BY <1>1, <1>6, <1>8, <3>1, <3>2, <3>3 DEF Slice
    <3>4. CASE i >= old
      BY <1>1, <1>8, <3>1, <3>2, <3>4 DEF Slice
    <3>. QED
      BY <1>1, <3>3, <3>4 DEF Slice
  <2>. QED
    BY <2>1, PromiseKept
<1>11. Puts(g, f, b, s)
  BY GivenPuts
<1>12. /\ LengthOf("c", n) = n /\ n <= LengthOf("c", n) /\ e = Bytes(b, LengthOf("c", n))
  BY DEF LengthOf
<1>. HIDE DEF v, s, e
<1>13. Good("c", u, g) /\ b \notin DOMAIN f
  BY <1>4, <1>5, <1>9, <1>10, <1>11, <1>12, Comes
<1>14. SizeOf(g[b]) = n
  BY <1>10, <1>11, Sizing DEF Puts, Slice
<1>15. /\ DOMAIN g = (DOMAIN h \ {a}) \cup {b}
       /\ \A c \in DOMAIN g \ {b} : c \in DOMAIN h \ {a} /\ g[c] = h[c]
  BY <1>11 DEF Puts, Takes
<1>. QED
  BY <1>13, <1>14, <1>15 DEF HeldInstead

LEMMA CReallocateGood ==
    ASSUME IInv, NEW a \in Live, NEW request \in ReallocateRequests, CReallocate(a, request)
    PROVE  IInv'
<1>. DEFINE n == PreferredSize(request)
            old == SizeOf(held[a])
<1>1. Running("c") /\ a \in DOMAIN held /\ n \in Nat \ {0}
  BY DEF CReallocate, Live, ReallocateRequests, PreferredSize
<1>2. /\ Good("c", word, held) /\ chunk[a] = old /\ Size(a) = old
      /\ DOMAIN chunk = DOMAIN held /\ \A b \in DOMAIN held : chunk[b] = SizeOf(held[b])
  BY <1>1, Serving, ChunksAre DEF Size, SizeOf
<1>. HIDE DEF n
<1>3. PICK b \in Address :
        /\ Bytes(b, n) \subseteq (Address \ DOMAIN word) \cup IF b = a THEN Bytes(a, chunk[a]) ELSE {}
        /\ word' = ExpansionZeroed(Reallocated(word, a, b, n), b, Size(a), n, request)
        /\ chunk' = With([c \in DOMAIN chunk \ {a} |-> chunk[c]], b, n)
        /\ held' = Given([c \in DOMAIN held \ {a} |-> held[c]], b, held[a], n, Rest(request))
        /\ UNCHANGED <<m, ended>>
  BY DEF CReallocate, Live, n
<1>4. b \in Int
  BY SystemAssumption DEF Address
<1>. DEFINE x == Reallocated(word, a, b, n)
<1>5. MovedTo(x, word, a, old, b, n)
  BY <1>2 DEF Reallocated, MovedTo
<1>. HIDE DEF x
<1>6. /\ RoomFor(word, a, old, b, n)
      /\ word' = ExpansionZeroed(x, b, old, n, request)
  BY <1>2, <1>3 DEF x, RoomFor
<1>7. Good("c", word', held') /\ HeldInstead(held', held, a, b, n)
  <2>. DEFINE f  == [c \in DOMAIN held \ {a} |-> held[c]]
  <2>1. held' = Given(f, b, held[a], n, Rest(request)) /\ Takes(f, held, a)
    BY <1>3, WithoutTakes
  <2>2. /\ old = SizeOf(held[a]) /\ a \in DOMAIN held /\ Good("c", word, held)
        /\ n \in Nat \ {0}
    BY <1>1, <1>2
  <2>. HIDE DEF f, old
  <2>. QED
    BY <1>4, <1>5, <1>6, <2>1, <2>2, ChunkMoves
<1>8. /\ DOMAIN chunk' = (DOMAIN chunk \ {a}) \cup {b} /\ chunk'[b] = n
      /\ \A c \in DOMAIN chunk \ {a} : c # b => chunk'[c] = chunk[c]
  BY <1>3 DEF With
<1>9. DOMAIN chunk' = DOMAIN held' /\ \A c \in DOMAIN held' : chunk'[c] = SizeOf(held'[c])
  BY <1>2, <1>7, <1>8 DEF HeldInstead
<1>. QED
  BY <1>1, <1>3, <1>7, <1>9, ChunksServed

-----------------------------------------------------------------------------
(* The program's own writes, and every step.                               *)

LEMMA Writes ==
    ASSUME NEW kind \in {"c", "page", "reserving"}, NEW w, NEW h, Good(kind, w, h), NEW a \in DOMAIN h,
           NEW n, n = SizeOf(h[a]),
           NEW u, u = Filled(w, a, n, "Data"),
           NEW s, DOMAIN s = DOMAIN h[a], \A i \in DOMAIN s : s[i] = "Data",
           NEW g, Puts(g, h, a, s)
    PROVE  Good(kind, u, g)
<1>1. /\ Mapped(w) /\ a \in Int /\ Slice(h[a], n) /\ n <= LengthOf(kind, n)
      /\ ExtentOf(kind, h, a) \subseteq DOMAIN w
  BY DEF Good, Fitting
<1>2. LengthOf(kind, n) \in Nat
  BY <1>1, LengthNat DEF Slice
<1>3. Bytes(a, n) \subseteq ExtentOf(kind, h, a)
  BY <1>1, <1>2 DEF ExtentOf, Bytes, Slice
<1>4. /\ Mapped(u) /\ DOMAIN u = DOMAIN w /\ Agrees(u, w, DOMAIN w \ ExtentOf(kind, h, a))
      /\ \A i \in Bytes(a, n) : u[i] = "Data" /\ i \in DOMAIN u
  BY <1>1, <1>3 DEF Filled, Mapped, Agrees, Content
<1>5. \A i \in 0 .. n - 1 : a + i \in Bytes(a, n)
  BY <1>1 DEF Bytes, Slice
<1>6. Slice(s, n) /\ Usable(u, a, s)
  BY <1>1, <1>4, <1>5 DEF Slice, Usable
<1>8. LengthOf(kind, n) = LengthOf(kind, SizeOf(h[a]))
  OBVIOUS
<1>. QED
  BY <1>1, <1>4, <1>6, <1>8, Changes

LEMMA WriteGood ==
    ASSUME IInv, NEW a, Write(a)
    PROVE  IInv'
<1>1. /\ a \in DOMAIN held /\ word' = Filled(word, a, SizeOf(held[a]), "Data")
      /\ held' = [held EXCEPT ![a] = [i \in DOMAIN held[a] |-> "Data"]]
      /\ UNCHANGED <<m, chunk, ended>>
  BY DEF Write, Live, Size, SizeOf
<1>2. m \in [kind : Kinds, debug : BOOLEAN] /\ Good(m.kind, word, held) /\ ChunksExact
  BY <1>1 DEF IInv, Empty
<1>3. m.kind \in {"c", "page", "reserving"}
  BY <1>2, SystemAssumption
<1>4. DOMAIN held' = DOMAIN held /\ \A b \in DOMAIN held : DOMAIN held'[b] = DOMAIN held[b]
  BY <1>1
<1>5. Good(m.kind, word', held')
  <2>. DEFINE kind == m.kind
              size == SizeOf(held[a])
              s    == [i \in DOMAIN held[a] |-> "Data"]
  <2>1. kind \in {"c", "page", "reserving"} /\ Good(kind, word, held) /\ size = SizeOf(held[a])
        /\ word' = Filled(word, a, size, "Data")
    BY <1>1, <1>2, <1>3
  <2>2. DOMAIN s = DOMAIN held[a] /\ \A i \in DOMAIN s : s[i] = "Data"
    OBVIOUS
  <2>3. Puts(held', held, a, s)
    BY <1>1 DEF Puts
  <2>. HIDE DEF kind, size, s
  <2>4. Good(kind, word', held')
    BY <1>1, <2>1, <2>2, <2>3, Writes
  <2>. QED
    BY <2>4 DEF kind
<1>. QED
  BY <1>1, <1>2, <1>4, <1>5 DEF IInv, ChunksExact, Live, Size

LEMMA ConstructGood ==
    ASSUME IInv, NEW kind \in Kinds, NEW debug \in BOOLEAN, Construct(kind, debug)
    PROVE  IInv'
<1>1. Null \notin [kind : Kinds, debug : BOOLEAN]
  BY SystemAssumption
<1>2. m = Null /\ Empty /\ ended \in {Null, "over_aligned"}
  BY <1>1 DEF Construct, IInv
<1>3. /\ m' = [kind |-> kind, debug |-> debug] /\ UNCHANGED <<word, chunk, held, ended>>
  BY DEF Construct
<1>4. m' \in [kind : Kinds, debug : BOOLEAN] /\ m'.kind = kind
  BY <1>3
<1>5. Good(m'.kind, word', held')
  BY <1>2, <1>3 DEF Empty, Good, Mapped
<1>6. ChunksExact'
  BY <1>2, <1>3 DEF Empty, ChunksExact, Live
<1>. QED
  BY <1>2, <1>3, <1>4, <1>5, <1>6 DEF IInv

LEMMA AllocateGood ==
    ASSUME IInv, "more_than_reserved" \notin BrokenUses,
           NEW request \in Requests, Allocate(request)
    PROVE  IInv'
BY PageAllocateGood, ReservingAllocateGood, CAllocateGood DEF Allocate

LEMMA ReallocateGood ==
    ASSUME IInv, "more_than_reserved" \notin BrokenUses,
           NEW a \in Live, NEW request \in ReallocateRequests,
           Reallocate(a, request) \/ ReallocateOrAllocate(a, request)
    PROVE  IInv'
<1>1. CASE Fails
  BY <1>1 DEF Fails, vars, IInv, ChunksExact, Empty, Live, Size
<1>2. CASE ReservingReallocate(a, request)
  BY <1>2, ReservingReallocateGood
<1>3. CASE CReallocate(a, request)
  BY <1>3, CReallocateGood
<1>. DEFINE r == [num_bytes |-> PreferredSize(request), alignment |-> 1,
                  leave_nonzeroed |-> request.leave_nonzeroed]
<1>4. CASE Allocate(r)
  <2>1. r \in Requests
    BY DEF Requests, ReallocateRequests, PreferredSize
  <2>. QED
    BY <1>4, <2>1, AllocateGood
<1>. QED
  BY <1>1, <1>2, <1>3, <1>4 DEF Reallocate, ReallocateOrAllocate

LEMMA StepGood ==
    ASSUME IInv, BrokenUses \cap {"more_than_reserved", "no_size_hint"} = {}, [Next]_vars
    PROVE  IInv'
<1>0. Sizes \subseteq Nat \ {0} /\ Alignments \subseteq Nat \ {0} /\ PreferredSizes \subseteq Nat
  BY SystemAssumption
<1>1. CASE UNCHANGED vars
  BY <1>1 DEF vars, IInv, ChunksExact, Empty, Live, Size
<1>2. ASSUME NEW kind \in Kinds, NEW debug \in BOOLEAN, Construct(kind, debug)
      PROVE  IInv'
  BY <1>2, ConstructGood
<1>3. ASSUME NEW n \in Sizes, NEW alignment \in Alignments, NEW leave \in BOOLEAN,
             Allocate([num_bytes |-> n, alignment |-> alignment, leave_nonzeroed |-> leave])
      PROVE  IInv'
  <2>1. [num_bytes |-> n, alignment |-> alignment, leave_nonzeroed |-> leave] \in Requests
    BY <1>0 DEF Requests
  <2>. QED
    BY <1>3, <2>1, AllocateGood
<1>4. ASSUME NEW a \in Live, NEW hint, PageDeallocate(a, hint)
      PROVE  IInv'
  BY <1>4, PageDeallocateGood
<1>5. ASSUME NEW a \in Live, ReservingDeallocate(a) \/ CDeallocate(a) \/ Write(a)
      PROVE  IInv'
  BY <1>5, ReservingDeallocateGood, CDeallocateGood, WriteGood
<1>6. ASSUME NEW a \in Live, NEW new_size \in Sizes, NEW preferred \in PreferredSizes,
             NEW leave \in BOOLEAN, NEW in_place \in BOOLEAN, NEW request,
             request = [new_size |-> new_size, preferred |-> preferred,
                        leave_nonzeroed |-> leave, in_place |-> in_place],
             Reallocate(a, request) \/ ReallocateOrAllocate(a, request)
      PROVE  IInv'
  <2>1. request \in ReallocateRequests
    BY <1>0, <1>6 DEF ReallocateRequests
  <2>. QED
    BY <1>6, <2>1, ReallocateGood
<1>. QED
  BY <1>1, <1>2, <1>3, <1>4, <1>5, <1>6 DEF Next

(* Every reachable state satisfies IInv, when the program asks a           *)
(* reservation for no more than it has and passes sizes to page_allocator. *)
THEOREM Inductive ==
    ASSUME BrokenUses \cap {"more_than_reserved", "no_size_hint"} = {}
    PROVE  Spec => []IInv
<1>1. Init => IInv
  BY DEF Init, IInv, Empty
<1>2. IInv /\ [Next]_vars => IInv'
  BY StepGood
<1>. QED
  BY <1>1, <1>2, PTL DEF Spec

(* Nothing that was mapped, committed or taken from malloc is leaked, and  *)
(* no two pieces overlap: what is mapped is always the extents of what the *)
(* program holds (impl_allocate, impl_deallocate and impl_reallocate of    *)
(* the page allocators and c_allocator_t).                                 *)
THEOREM PagesAccountedCorrect ==
    ASSUME BrokenUses \cap {"more_than_reserved", "no_size_hint"} = {}
    PROVE  Spec => []PagesAccounted
<1>1. ASSUME IInv PROVE PagesAccounted
  <2>1. ended \in {Null, "over_aligned"} /\ ended # "unmap_failed" /\ Null \notin [kind : Kinds, debug : BOOLEAN]
    BY <1>1, SystemAssumption DEF IInv
  <2>2. CASE m = Null /\ Empty
    BY <2>1, <2>2 DEF PagesAccounted, TypeOK, Empty, Live
  <2>3. CASE m \in [kind : Kinds, debug : BOOLEAN] /\ Good(m.kind, word, held) /\ ChunksExact
    <3>1. m.kind \in {"c", "page", "reserving"} /\ m # Null
      BY <2>1, <2>3, SystemAssumption
    <3>2. DOMAIN chunk = IF m # Null /\ m.kind = "c" THEN Live ELSE {}
      BY <2>3, <3>1 DEF ChunksExact
    <3>3. \A a \in Live : Extent(a) = ExtentOf(m.kind, held, a)
      BY <2>3, <3>1 DEF Extent, ExtentOf, LengthOf, Size, SizeOf, ChunksExact, Live
    <3>4. \A a \in Live : a \in ExtentOf(m.kind, held, a)
      <4>. TAKE a \in Live
      <4>1. a \in Int /\ SizeOf(held[a]) \in Nat \ {0} /\ LengthOf(m.kind, SizeOf(held[a])) \in Nat \ {0}
        BY <2>3, <3>1, LengthNat DEF Good, Fitting, Slice, Live
      <4>. QED
        BY <4>1 DEF ExtentOf, Bytes
    <3>5. Live \subseteq DOMAIN word
      BY <2>3, <3>4 DEF Good, Live
    <3>6. TypeOK
      BY <2>1, <2>3, <3>2, <3>5 DEF TypeOK, Good, Mapped
    <3>7. DOMAIN word = UNION {Extent(a) : a \in Live}
      BY <2>3, <3>3 DEF Good, Live
    <3>8. \A a, b \in Live : a # b => Extent(a) \cap Extent(b) = {}
      BY <2>3, <3>3 DEF Good, Live
    <3>. QED
      BY <2>1, <3>2, <3>6, <3>7, <3>8 DEF PagesAccounted
  <2>. QED
    BY <1>1, <2>2, <2>3 DEF IInv
<1>. QED
  BY <1>1, Inductive, PTL

(* Every byte of every slice can be accessed, and holds what was written   *)
(* or promised there, after any reallocations.                             *)
THEOREM SlicesUsableCorrect ==
    ASSUME BrokenUses \cap {"more_than_reserved", "no_size_hint"} = {}
    PROVE  Spec => []SlicesUsable
<1>1. ASSUME IInv PROVE SlicesUsable
  BY <1>1 DEF IInv, Good, Usable, Empty, SlicesUsable, Live
<1>. QED
  BY <1>1, Inductive, PTL
=============================================================================
