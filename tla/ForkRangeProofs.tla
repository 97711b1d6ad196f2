-------------------------- MODULE ForkRangeProofs --------------------------
(***************************************************************************)
(* Proofs about ForkRange, for any page size, address space and buffers,   *)
(* with failures of madvise and malloc at any call of them: what each      *)
(* operation does to the nodes of the tree and the counts of the           *)
(* addresses, to the registrations held and to the call under way; then    *)
(* the inductive invariant RInv, and the theorems that follow from it.     *)
(***************************************************************************)
EXTENDS ForkRange, FiniteSetTheorems, TLAPS

\* A leaf is for Zenon unless it names another prover.
USE ZenonT(30)

-----------------------------------------------------------------------------
(* Pages.                                                                   *)

\* Rounding down gives the page boundary at or below an address.
LEMMA Rounds ==
  ASSUME NEW a \in Nat
  PROVE  /\ RoundDown(a) \in Nat /\ RoundDown(a) <= a /\ a < RoundDown(a) + PAGE
         /\ RoundDown(a) % PAGE = 0
<1> DEFINE q == a \div PAGE
           r == a % PAGE
<1>1. PAGE \in Nat /\ PAGE > 0
  BY RangeAssumption, SMTT(30)
<1>2. q \in Nat /\ r \in 0 .. PAGE - 1 /\ a = PAGE * q + r
  BY <1>1, SMTT(30)
<1>3. RoundDown(a) = PAGE * q
  BY <1>1, <1>2, SMTT(30) DEF RoundDown
<1> HIDE DEF q, r
<1>4. PAGE * q \in Nat /\ (PAGE * q) % PAGE = 0
  BY <1>1, <1>2, SMTT(30)
<1> QED
  BY <1>1, <1>2, <1>3, <1>4, SMTT(30)

\* The pages of a buffer that is not empty: at least one, inside the address space.
LEMMA PagesOf ==
  ASSUME NEW rg \in Regions, rg[2] # 0
  PROVE  /\ First(rg) \in Addr /\ Last(rg) \in Addr /\ First(rg) <= Last(rg)
         /\ First(rg) % PAGE = 0 /\ (Last(rg) + 1) % PAGE = 0
<1>1. /\ rg[1] \in Nat /\ rg[2] \in Nat /\ rg[1] + rg[2] <= TOP + 1 - PAGE
      /\ PAGE \in Nat /\ PAGE > 0 /\ TOP \in Nat
  BY RangeAssumption, SMTT(30)
<1> DEFINE b == rg[1] + rg[2] + PAGE - 1
<1>2. b \in Nat /\ b >= rg[1] + PAGE /\ b <= TOP
  BY <1>1, SMTT(30)
<1>3. /\ RoundDown(rg[1]) \in Nat /\ RoundDown(rg[1]) <= rg[1]
      /\ RoundDown(rg[1]) % PAGE = 0
  BY <1>1, Rounds
<1>4. /\ RoundDown(b) \in Nat /\ RoundDown(b) <= b /\ b < RoundDown(b) + PAGE
      /\ RoundDown(b) % PAGE = 0
  BY <1>2, Rounds
<1>5. First(rg) = RoundDown(rg[1]) /\ Last(rg) = RoundDown(b) - 1
  BY DEF First, Last
<1> HIDE DEF b
<1> QED
  BY <1>1, <1>2, <1>3, <1>4, <1>5, SMTT(30) DEF Addr

-----------------------------------------------------------------------------
(* The nodes as a partition of the address space.                           *)

\* In a whole set of nodes an address has one node, which __mm_find_start finds.
LEMMA Finds ==
  ASSUME NEW ns, Whole(ns), NEW a \in Addr
  PROVE  /\ FindStart(ns, a) \in ns
         /\ FindStart(ns, a).start <= a /\ a <= FindStart(ns, a).end
         /\ \A n \in ns : n.start <= a /\ a <= n.end => n = FindStart(ns, a)
<1>1. \E n \in ns : n.start <= a /\ a <= n.end
  BY DEF Whole
<1>2. /\ FindStart(ns, a) \in ns
      /\ FindStart(ns, a).start <= a /\ a <= FindStart(ns, a).end
  BY <1>1 DEF FindStart
<1> DEFINE f == FindStart(ns, a)
<1>3. ASSUME NEW n \in ns, n.start <= a, a <= n.end
      PROVE  n = f
  <2>1. n \in Node /\ f \in Node
    BY <1>2 DEF Whole
  <2>2. n.start <= f.end /\ f.start <= n.end
    BY <1>2, <1>3, <2>1, SMTT(30) DEF Node, Addr
  <2> QED
    BY <1>2, <2>2 DEF Whole
<1> QED
  BY <1>2, <1>3

\* The count of an address is that of the node that contains it.
LEMMA CountOf ==
  ASSUME NEW ns, Whole(ns), NEW n \in ns, NEW a \in Addr, n.start <= a, a <= n.end
  PROVE  Refcnt(ns, a) = n.refcnt
BY Finds DEF Refcnt

\* Counts are integers.
LEMMA CountType ==
  ASSUME NEW ns, Whole(ns), NEW a \in Addr
  PROVE  Refcnt(ns, a) \in Int
BY Finds, SMTT(30) DEF Refcnt, Whole, Node

\* A node is found by its start.
LEMMA StartOf ==
  ASSUME NEW ns, Whole(ns), NEW n \in ns
  PROVE  NodeAt(ns, n.start) = n
<1> DEFINE m == NodeAt(ns, n.start)
<1>1. m \in ns /\ m.start = n.start
  BY DEF NodeAt
<1>2. m \in Node /\ n \in Node /\ m.start <= m.end /\ n.start <= n.end
  BY <1>1 DEF Whole
<1>3. n.start <= m.end /\ m.start <= n.end
  BY <1>1, <1>2 DEF Node, Addr
<1> QED
  BY <1>1, <1>3 DEF Whole

\* __mm_prev of a node ends where the node starts, and only the node that starts
\* at 0 has none.
LEMMA Before ==
  ASSUME NEW ns, Whole(ns), NEW n \in ns
  PROVE  /\ \A m \in Prev(ns, n) : m \in ns /\ m.end + 1 = n.start
         /\ Prev(ns, n) = {} => n.start = 0
         /\ \A m \in ns : m.end + 1 = n.start => m \in Prev(ns, n)
<1>0. \A k \in ns : k.start \in Addr /\ k.end \in Addr /\ k.start <= k.end
  BY DEF Whole, Node
<1>n. TOP \in Nat
  BY RangeAssumption
<1>1. ASSUME NEW m \in Prev(ns, n)
      PROVE  m \in ns /\ m.end + 1 = n.start
  <2>1. /\ m \in ns /\ m.start < n.start
        /\ \A k \in ns : k.start < n.start => k.start <= m.start
    BY <1>1 DEF Prev
  <2>2. n.start - 1 \in Addr
    BY <1>0, <1>n, <2>1, SMTT(30) DEF Addr
  <2>3. PICK k \in ns : k.start <= n.start - 1 /\ n.start - 1 <= k.end
    BY <2>2 DEF Whole
  <2>4. k.start <= m.start /\ m.start <= k.end
    BY <1>0, <2>1, <2>3, SMTT(30) DEF Addr
  <2>5. k = m
    <3>1. k.start <= m.end
      BY <1>0, <2>1, <2>4, SMTT(30) DEF Addr
    <3> QED
      BY <2>1, <2>4, <3>1 DEF Whole
  <2>6. m.end < n.start
    <3>1. ~(n.start <= m.end)
      BY <1>0, <2>1, SMTT(30) DEF Whole, Addr
    <3> QED
      BY <1>0, <2>1, <3>1, SMTT(30) DEF Addr
  <2> QED
    BY <1>0, <2>1, <2>3, <2>5, <2>6, SMTT(30) DEF Addr
<1>2. ASSUME NEW m \in ns, m.end + 1 = n.start
      PROVE  m \in Prev(ns, n)
  <2>1. m.start < n.start
    BY <1>0, <1>2, SMTT(30) DEF Addr
  <2>2. ASSUME NEW k \in ns, k.start < n.start
        PROVE  k.start <= m.start
    <3>1. k.start <= m.end
      BY <1>0, <1>2, <2>2, SMTT(30) DEF Addr
    <3>2. m.start <= k.end => m = k
      BY <3>1 DEF Whole
    <3> QED
      BY <1>0, <2>2, <3>2, SMTT(30) DEF Addr
  <2> QED
    BY <2>1, <2>2 DEF Prev
<1>3. ASSUME Prev(ns, n) = {}, n.start # 0
      PROVE  FALSE
  <2>1. n.start - 1 \in Addr
    BY <1>0, <1>n, <1>3, SMTT(30) DEF Addr
  <2>2. PICK k \in ns : k.start <= n.start - 1 /\ n.start - 1 <= k.end
    BY <2>1 DEF Whole
  <2>3. ~(n.start <= k.end)
    <3>1. k # n
      BY <1>0, <2>2, SMTT(30) DEF Addr
    <3>2. k.start <= n.end
      BY <1>0, <2>2, SMTT(30) DEF Addr
    <3> QED
      BY <3>1, <3>2 DEF Whole
  <2>4. k.end + 1 = n.start
    BY <1>0, <2>2, <2>3, SMTT(30) DEF Addr
  <2> QED
    BY <1>2, <1>3, <2>4
<1> QED
  BY <1>1, <1>2, <1>3

\* __mm_next of a node starts where the node ends, and only the node that ends at
\* TOP has none.
LEMMA After ==
  ASSUME NEW ns, Whole(ns), NEW n \in ns
  PROVE  /\ \A m \in NextNode(ns, n) : m \in ns /\ n.end + 1 = m.start
         /\ n.end < TOP => \E m \in ns : n.end + 1 = m.start
<1>0. \A k \in ns : k.start \in Addr /\ k.end \in Addr /\ k.start <= k.end
  BY DEF Whole, Node
<1>n. TOP \in Nat
  BY RangeAssumption
<1>1. ASSUME n.end < TOP
      PROVE  \E m \in ns : n.end + 1 = m.start
  <2>1. n.end + 1 \in Addr
    BY <1>0, <1>n, <1>1, SMTT(30) DEF Addr
  <2>2. PICK k \in ns : k.start <= n.end + 1 /\ n.end + 1 <= k.end
    BY <2>1 DEF Whole
  <2>3. ~(k.start <= n.end)
    <3>1. k # n
      BY <1>0, <2>2, SMTT(30) DEF Addr
    <3>2. n.start <= k.end
      BY <1>0, <2>2, SMTT(30) DEF Addr
    <3> QED
      BY <3>1, <3>2 DEF Whole
  <2> QED
    BY <1>0, <2>2, <2>3, SMTT(30) DEF Addr
<1>2. ASSUME NEW m \in NextNode(ns, n)
      PROVE  m \in ns /\ n.end + 1 = m.start
  <2>1. /\ m \in ns /\ m.start > n.start
        /\ \A k \in ns : k.start > n.start => k.start >= m.start
    BY <1>2 DEF NextNode
  <2>2. ~(m.start <= n.end)
    BY <1>0, <2>1, SMTT(30) DEF Whole, Addr
  <2>3. n.end < TOP
    BY <1>0, <1>n, <2>1, <2>2, SMTT(30) DEF Addr
  <2>4. PICK k \in ns : n.end + 1 = k.start
    BY <1>1, <2>3
  <2>5. k.start >= m.start
    BY <1>0, <2>1, <2>4, SMTT(30) DEF Addr
  <2> QED
    BY <1>0, <2>1, <2>2, <2>4, <2>5, SMTT(30) DEF Addr
<1> QED
  BY <1>1, <1>2

\* Two nodes with a bound in common are one.
LEMMA SameBound ==
  ASSUME NEW ns, Whole(ns), NEW n \in ns, NEW m \in ns, n.start = m.start \/ n.end = m.end
  PROVE  n = m
<1>1. n \in Node /\ m \in Node /\ n.start <= n.end /\ m.start <= m.end
  BY DEF Whole
<1>2. /\ n.start \in Int /\ n.end \in Int /\ m.start \in Int /\ m.end \in Int
  BY <1>1, SMTT(30) DEF Node, Addr
<1>3. n.start <= m.end /\ m.start <= n.end
  BY <1>1, <1>2
<1> QED
  BY <1>3 DEF Whole

\* Sets of nodes of which one cuts the ranges of the other have the same counts.
LEMMA SameCounts ==
  ASSUME NEW ns, Whole(ns), NEW ms, Whole(ms),
         \A x \in ms : \E y \in ns : y.start <= x.start /\ x.end <= y.end /\ y.refcnt = x.refcnt
  PROVE  \A a \in Addr : Refcnt(ms, a) = Refcnt(ns, a)
<1> SUFFICES ASSUME NEW a \in Addr PROVE Refcnt(ms, a) = Refcnt(ns, a)
  OBVIOUS
<1> DEFINE x == FindStart(ms, a)
<1>1. x \in ms /\ x.start <= a /\ a <= x.end
  BY Finds
<1> HIDE DEF x
<1>2. PICK y \in ns : y.start <= x.start /\ x.end <= y.end /\ y.refcnt = x.refcnt
  BY <1>1
<1>3. y.start <= a /\ a <= y.end
  <2>1. x \in Node /\ y \in Node
    BY <1>1 DEF Whole
  <2> QED
    BY <1>1, <1>2, <2>1, SMTT(30) DEF Node, Addr
<1>4. Refcnt(ms, a) = x.refcnt
  BY <1>1, CountOf, SMTT(30)
<1>5. Refcnt(ns, a) = y.refcnt
  BY <1>3, CountOf, SMTT(30)
<1> QED
  BY <1>2, <1>4, <1>5

\* split_range: the two parts take the place of the node.
LEMMA Splits ==
  ASSUME NEW ns, Whole(ns), NEW n \in ns, NEW c \in Int, n.start < c, c <= n.end
  PROVE  /\ Whole(split_range(ns, n, c))
         /\ Aligned(ns) /\ c % PAGE = 0 => Aligned(split_range(ns, n, c))
         /\ \A a \in Addr : Refcnt(split_range(ns, n, c), a) = Refcnt(ns, a)
<1> DEFINE lo == [n EXCEPT !.end = c - 1]
           hi == [n EXCEPT !.start = c]
           ms == split_range(ns, n, c)
<1>1. n \in Node /\ n.start \in Addr /\ n.end \in Addr /\ TOP \in Nat
  BY RangeAssumption DEF Whole, Node
<1>2. /\ lo \in Node /\ lo.start = n.start /\ lo.end = c - 1 /\ lo.refcnt = n.refcnt
      /\ hi \in Node /\ hi.start = c /\ hi.end = n.end /\ hi.refcnt = n.refcnt
  <2>1. c - 1 \in Addr /\ c \in Addr
    BY <1>1, SMTT(30) DEF Addr
  <2> QED
    BY <1>1, <2>1 DEF Node
<1>3. \A x : x \in ms <=> (x \in ns /\ x # n) \/ x = lo \/ x = hi
  BY DEF split_range
<1>o. \A x, y \in ns : x.start <= y.end /\ y.start <= x.end => x = y
  BY DEF Whole
<1>a. \A x \in ns : x.start \in Addr /\ x.end \in Addr /\ x.start <= x.end
  BY DEF Whole, Node
<1> HIDE DEF lo, hi, ms
<1>4. Whole(ms)
  <2>1. ms \subseteq Node /\ \A x \in ms : x.start <= x.end
    <3> SUFFICES ASSUME NEW x \in ms PROVE x \in Node /\ x.start <= x.end
      OBVIOUS
    <3>1. CASE x \in ns
      BY <3>1 DEF Whole
    <3>2. CASE x = lo \/ x = hi
      BY <1>1, <1>2, <3>2, SMTT(30) DEF Addr
    <3> QED
      BY <1>3, <3>1, <3>2
  <2>2. ASSUME NEW a \in Addr PROVE \E x \in ms : x.start <= a /\ a <= x.end
    <3>1. PICK y \in ns : y.start <= a /\ a <= y.end
      BY DEF Whole
    <3>2. CASE y = n /\ a < c
      <4>1. lo.start <= a /\ a <= lo.end
        BY <1>1, <1>2, <3>1, <3>2, SMTT(30) DEF Addr
      <4> QED
        BY <1>3, <4>1
    <3>3. CASE y = n /\ a >= c
      <4>1. hi.start <= a /\ a <= hi.end
        BY <1>1, <1>2, <3>1, <3>3 DEF Addr
      <4> QED
        BY <1>3, <4>1
    <3>4. CASE y # n
      BY <1>3, <3>1, <3>4
    <3> QED
      BY <3>2, <3>3, <3>4, SMTT(30) DEF Addr
  <2>3. ASSUME NEW x \in ms, NEW y \in ms, x.start <= y.end, y.start <= x.end
        PROVE  x = y
    <3>1. CASE x \in ns /\ x # n /\ y \in ns /\ y # n
      BY <1>o, <2>3, <3>1
    <3>2. ASSUME NEW z \in ns, z # n
          PROVE  ~(z.start <= n.end /\ n.start <= z.end)
      BY <1>o, <3>2
    <3>3. CASE x \in ns /\ x # n /\ (y = lo \/ y = hi)
      BY <1>1, <1>2, <1>a, <2>3, <3>2, <3>3, SMTT(30) DEF Addr
    <3>4. CASE y \in ns /\ y # n /\ (x = lo \/ x = hi)
      BY <1>1, <1>2, <1>a, <2>3, <3>2, <3>4, SMTT(30) DEF Addr
    <3>5. CASE (x = lo \/ x = hi) /\ (y = lo \/ y = hi)
      BY <1>1, <1>2, <2>3, <3>5, SMTT(30) DEF Addr
    <3> QED
      BY <1>3, <2>3, <3>1, <3>3, <3>4, <3>5
  <2> QED
    BY <2>1, <2>2, <2>3 DEF Whole
<1>5. Aligned(ns) /\ c % PAGE = 0 => Aligned(ms)
  <2>1. lo.end + 1 = c
    BY <1>2, SMTT(30)
  <2> QED
    BY <1>2, <1>3, <2>1 DEF Aligned
<1>6. \A a \in Addr : Refcnt(ms, a) = Refcnt(ns, a)
  <2>1. ASSUME NEW x \in ms
        PROVE  \E y \in ns : y.start <= x.start /\ x.end <= y.end /\ y.refcnt = x.refcnt
    <3>1. CASE x \in ns
      BY <1>a, <3>1, SMTT(30) DEF Addr
    <3>2. CASE x = lo \/ x = hi
      BY <1>1, <1>2, <3>2, SMTT(30) DEF Addr
    <3> QED
      BY <1>3, <3>1, <3>2
  <2> QED
    BY <1>4, <2>1, SameCounts
<1> QED
  BY <1>4, <1>5, <1>6 DEF ms

\* merge_ranges of two neighbours: the result takes their place, with the count of
\* the second.
LEMMA Merges ==
  ASSUME NEW ns, Whole(ns), NEW n \in ns, NEW m \in ns, m.end + 1 = n.start
  PROVE  /\ Whole(merge_ranges(ns, n, m))
         /\ Aligned(ns) => Aligned(merge_ranges(ns, n, m))
         /\ \A a \in Addr : Refcnt(merge_ranges(ns, n, m), a)
                              = IF m.start <= a /\ a <= m.end THEN n.refcnt ELSE Refcnt(ns, a)
<1> DEFINE u == Merged(n, m)
           ms == merge_ranges(ns, n, m)
<1>1. /\ n \in Node /\ n.start \in Addr /\ n.end \in Addr
      /\ m \in Node /\ m.start \in Addr /\ m.end \in Addr
  BY DEF Whole, Node
<1>2. u \in Node /\ u.start = m.start /\ u.end = n.end /\ u.refcnt = n.refcnt
  BY <1>1 DEF Merged, Node
<1>3. \A x : x \in ms <=> (x \in ns /\ x # n /\ x # m) \/ x = u
  BY DEF merge_ranges
<1>o. \A x, y \in ns : x.start <= y.end /\ y.start <= x.end => x = y
  BY DEF Whole
<1>a. \A x \in ns : x.start \in Addr /\ x.end \in Addr /\ x.start <= x.end
  BY DEF Whole, Node
<1> HIDE DEF u, ms
<1>4. Whole(ms)
  <2>1. ms \subseteq Node /\ \A x \in ms : x.start <= x.end
    <3> SUFFICES ASSUME NEW x \in ms PROVE x \in Node /\ x.start <= x.end
      OBVIOUS
    <3>1. CASE x \in ns
      BY <3>1 DEF Whole
    <3>2. CASE x = u
      BY <1>1, <1>2, <1>a, <3>2, SMTT(30) DEF Addr
    <3> QED
      BY <1>3, <3>1, <3>2
  <2>2. ASSUME NEW a \in Addr PROVE \E x \in ms : x.start <= a /\ a <= x.end
    <3>1. PICK y \in ns : y.start <= a /\ a <= y.end
      BY DEF Whole
    <3>2. CASE y = n \/ y = m
      <4>1. u.start <= a /\ a <= u.end
        BY <1>1, <1>2, <1>a, <3>1, <3>2, SMTT(30) DEF Addr
      <4> QED
        BY <1>3, <4>1
    <3>3. CASE y # n /\ y # m
      BY <1>3, <3>1, <3>3
    <3> QED
      BY <3>2, <3>3
  <2>3. ASSUME NEW x \in ms, NEW y \in ms, x.start <= y.end, y.start <= x.end
        PROVE  x = y
    <3>1. ASSUME NEW z \in ns, z # n, z # m
          PROVE  ~(z.start <= u.end /\ u.start <= z.end)
      <4>1. ~(z.start <= n.end /\ n.start <= z.end)
        BY <1>o, <3>1
      <4>2. ~(z.start <= m.end /\ m.start <= z.end)
        BY <1>o, <3>1
      <4> QED
        BY <1>1, <1>2, <1>a, <4>1, <4>2, SMTT(30) DEF Addr
    <3> QED
      BY <1>3, <1>o, <2>3, <3>1
  <2> QED
    BY <2>1, <2>2, <2>3 DEF Whole
<1>5. Aligned(ns) => Aligned(ms)
  BY <1>2, <1>3 DEF Aligned
<1>6. ASSUME NEW a \in Addr
      PROVE  Refcnt(ms, a) = IF m.start <= a /\ a <= m.end THEN n.refcnt ELSE Refcnt(ns, a)
  <2>1. CASE m.start <= a /\ a <= n.end
    <3>1. Refcnt(ms, a) = n.refcnt
      BY <1>2, <1>3, <1>4, <2>1, CountOf
    <3>2. n.start <= a => Refcnt(ns, a) = n.refcnt
      BY <2>1, CountOf
    <3> QED
      BY <1>1, <2>1, <3>1, <3>2, SMTT(30) DEF Addr
  <2>2. CASE ~(m.start <= a /\ a <= n.end)
    <3> DEFINE x == FindStart(ns, a)
    <3>1. x \in ns /\ x.start <= a /\ a <= x.end
      BY Finds
    <3> HIDE DEF x
    <3>2. x # n /\ x # m
      BY <1>1, <1>a, <2>2, <3>1, SMTT(30) DEF Addr
    <3>3. Refcnt(ms, a) = x.refcnt /\ Refcnt(ns, a) = x.refcnt
      BY <1>3, <1>4, <3>1, <3>2, CountOf
    <3> QED
      BY <1>1, <1>a, <2>2, <3>3, SMTT(30) DEF Addr
  <2> QED
    BY <2>1, <2>2
<1> QED
  BY <1>4, <1>5, <1>6 DEF ms

\* Merging neighbours of equal count changes no count.
LEMMA MergesEqual ==
  ASSUME NEW ns, Whole(ns), NEW n \in ns, NEW m \in ns, m.end + 1 = n.start,
         m.refcnt = n.refcnt
  PROVE  \A a \in Addr : Refcnt(merge_ranges(ns, n, m), a) = Refcnt(ns, a)
BY Merges, CountOf, SMTT(30)

\* Giving a node another count changes those of its addresses and nothing else.
LEMMA Recounts ==
  ASSUME NEW ns, Whole(ns), NEW n \in ns, NEW c \in Int,
         NEW ms, ms = (ns \ {n}) \cup {[n EXCEPT !.refcnt = c]}
  PROVE  /\ Whole(ms)
         /\ Aligned(ns) => Aligned(ms)
         /\ \A a \in Addr : Refcnt(ms, a)
                              = IF n.start <= a /\ a <= n.end THEN c ELSE Refcnt(ns, a)
<1> DEFINE u == [n EXCEPT !.refcnt = c]
<1>1. n \in Node
  BY DEF Whole
<1>2. u \in Node /\ u.start = n.start /\ u.end = n.end /\ u.refcnt = c
  BY <1>1 DEF Node
<1>3. \A x : x \in ms <=> (x \in ns /\ x # n) \/ x = u
  OBVIOUS
<1> HIDE DEF u
<1>4. Whole(ms)
  <2>1. ms \subseteq Node /\ \A x \in ms : x.start <= x.end
    BY <1>2, <1>3 DEF Whole
  <2>2. \A a \in Addr : \E x \in ms : x.start <= a /\ a <= x.end
    BY <1>2, <1>3 DEF Whole
  <2>3. \A x, y \in ms : x.start <= y.end /\ y.start <= x.end => x = y
    BY <1>2, <1>3 DEF Whole
  <2> QED
    BY <2>1, <2>2, <2>3 DEF Whole
<1>5. Aligned(ns) => Aligned(ms)
  BY <1>2, <1>3 DEF Aligned
<1>6. ASSUME NEW a \in Addr
      PROVE  Refcnt(ms, a) = IF n.start <= a /\ a <= n.end THEN c ELSE Refcnt(ns, a)
  <2>1. CASE n.start <= a /\ a <= n.end
    BY <1>2, <1>3, <1>4, <2>1, CountOf, SMTT(30)
  <2>2. CASE ~(n.start <= a /\ a <= n.end)
    <3> DEFINE x == FindStart(ns, a)
    <3>1. x \in ns /\ x.start <= a /\ a <= x.end
      BY Finds
    <3> HIDE DEF x
    <3>2. Refcnt(ms, a) = x.refcnt /\ Refcnt(ns, a) = x.refcnt
      BY <1>3, <1>4, <2>2, <3>1, CountOf
    <3> QED
      BY <2>2, <3>2
  <2> QED
    BY <2>1, <2>2
<1> QED
  BY <1>4, <1>5, <1>6

\* An element of a set that has one.
LEMMA OnlyIn ==
  ASSUME NEW S, S # {}
  PROVE  Only(S) \in S
BY DEF Only

\* undo_node merges its node with an equal one before it.
LEMMA JoinsPrev ==
  ASSUME NEW ns, Whole(ns), NEW n \in ns
  PROVE  LET p  == {m \in Prev(ns, n) : m.refcnt = n.refcnt}
             ms == IF p = {} THEN ns ELSE merge_ranges(ns, n, Only(p))
             u  == IF p = {} THEN n ELSE Merged(n, Only(p))
         IN  /\ Whole(ms) /\ (Aligned(ns) => Aligned(ms)) /\ u \in ms
             /\ \A a \in Addr : Refcnt(ms, a) = Refcnt(ns, a)
             /\ u.start <= n.start
             /\ (\A m \in ns : m.end + 1 = n.start => m.refcnt # n.refcnt) => u = n
<1> DEFINE p  == {m \in Prev(ns, n) : m.refcnt = n.refcnt}
           ms == IF p = {} THEN ns ELSE merge_ranges(ns, n, Only(p))
           u  == IF p = {} THEN n ELSE Merged(n, Only(p))
           Goal == /\ Whole(ms) /\ (Aligned(ns) => Aligned(ms)) /\ u \in ms
                   /\ \A a \in Addr : Refcnt(ms, a) = Refcnt(ns, a)
                   /\ u.start <= n.start
                   /\ (\A m \in ns : m.end + 1 = n.start => m.refcnt # n.refcnt) => u = n
<1> SUFFICES Goal
  OBVIOUS
<1>0. n \in Node
  BY DEF Whole
<1>1. CASE p = {}
  BY <1>0, <1>1, SMTT(30) DEF Node, Addr
<1>2. CASE p # {}
  <2> DEFINE m == Only(p)
  <2>1. m \in p
    BY <1>2, OnlyIn
  <2>2. m \in Prev(ns, n) /\ m.refcnt = n.refcnt
    BY <2>1
  <2> HIDE DEF m
  <2>3. m \in ns /\ m.end + 1 = n.start /\ m.refcnt = n.refcnt
    BY <2>2, Before
  <2>4. m \in Node /\ m.start <= m.end
    BY <2>3 DEF Whole
  <2>5. ms = merge_ranges(ns, n, m) /\ u = Merged(n, m)
    BY <1>2 DEF m
  <2> HIDE DEF ms, u
  <2>6. Whole(ms) /\ (Aligned(ns) => Aligned(ms))
    BY <2>3, <2>5, Merges
  <2>7. \A a \in Addr : Refcnt(ms, a) = Refcnt(ns, a)
    BY <2>3, <2>5, MergesEqual
  <2>8. u \in ms /\ u.start = m.start /\ u.end = n.end /\ u.refcnt = n.refcnt
    BY <1>0, <2>4, <2>5 DEF merge_ranges, Merged, Node
  <2>9. m.start <= n.start
    BY <1>0, <2>3, <2>4, SMTT(30) DEF Node, Addr
  <2> QED
    BY <2>3, <2>6, <2>7, <2>8, <2>9
<1> QED
  BY <1>1, <1>2

\* And with an equal one after it.
LEMMA JoinsNext ==
  ASSUME NEW ns, Whole(ns), NEW n \in ns
  PROVE  LET q  == {m \in NextNode(ns, n) : m.refcnt = n.refcnt}
             ms == IF q = {} THEN ns ELSE merge_ranges(ns, Only(q), n)
             u  == IF q = {} THEN n ELSE Merged(Only(q), n)
         IN  /\ Whole(ms) /\ (Aligned(ns) => Aligned(ms)) /\ u \in ms
             /\ \A a \in Addr : Refcnt(ms, a) = Refcnt(ns, a)
             /\ u.start = n.start
<1> DEFINE q  == {m \in NextNode(ns, n) : m.refcnt = n.refcnt}
           ms == IF q = {} THEN ns ELSE merge_ranges(ns, Only(q), n)
           u  == IF q = {} THEN n ELSE Merged(Only(q), n)
           Goal == /\ Whole(ms) /\ (Aligned(ns) => Aligned(ms)) /\ u \in ms
                   /\ \A a \in Addr : Refcnt(ms, a) = Refcnt(ns, a)
                   /\ u.start = n.start
<1> SUFFICES Goal
  OBVIOUS
<1>0. n \in Node
  BY DEF Whole
<1>1. CASE q = {}
  BY <1>0, <1>1
<1>2. CASE q # {}
  <2> DEFINE m == Only(q)
  <2>1. m \in q
    BY <1>2, OnlyIn
  <2>2. m \in NextNode(ns, n) /\ m.refcnt = n.refcnt
    BY <2>1
  <2> HIDE DEF m
  <2>3. m \in ns /\ n.end + 1 = m.start /\ m.refcnt = n.refcnt
    BY <2>2, After
  <2>4. m \in Node
    BY <2>3 DEF Whole
  <2>5. ms = merge_ranges(ns, m, n) /\ u = Merged(m, n)
    BY <1>2 DEF m
  <2> HIDE DEF ms, u
  <2>6. Whole(ms) /\ (Aligned(ns) => Aligned(ms))
    BY <2>3, <2>5, Merges
  <2>7. \A a \in Addr : Refcnt(ms, a) = Refcnt(ns, a)
    BY <2>3, <2>5, MergesEqual
  <2>8. u \in ms /\ u.start = n.start
    BY <1>0, <2>4, <2>5 DEF merge_ranges, Merged, Node
  <2> QED
    BY <2>6, <2>7, <2>8
<1> QED
  BY <1>1, <1>2

\* undo_node cuts off the part before the start of the call and gives it its count.
LEMMA CutsOff ==
  ASSUME NEW ns, Whole(ns), NEW n \in ns, NEW c \in Int, n.start < c, c <= n.end,
         NEW inc \in Int
  PROVE  LET lo == [n EXCEPT !.end = c - 1, !.refcnt = @ + inc]
             hi == [n EXCEPT !.start = c]
             ms == (ns \ {n}) \cup {lo, hi}
         IN  /\ Whole(ms)
             /\ Aligned(ns) /\ c % PAGE = 0 => Aligned(ms)
             /\ hi \in ms /\ hi.start = c
             /\ \A a \in Addr : Refcnt(ms, a) = Refcnt(ns, a)
                                  + (IF n.start <= a /\ a < c THEN inc ELSE 0)
<1> DEFINE lo == [n EXCEPT !.end = c - 1, !.refcnt = @ + inc]
           hi == [n EXCEPT !.start = c]
           ms == (ns \ {n}) \cup {lo, hi}
           Goal == /\ Whole(ms)
                   /\ Aligned(ns) /\ c % PAGE = 0 => Aligned(ms)
                   /\ hi \in ms /\ hi.start = c
                   /\ \A a \in Addr : Refcnt(ms, a) = Refcnt(ns, a)
                                        + (IF n.start <= a /\ a < c THEN inc ELSE 0)
<1> SUFFICES Goal
  OBVIOUS
<1> DEFINE l == [n EXCEPT !.end = c - 1]
           ss == split_range(ns, n, c)
           r == n.refcnt + inc
<1>1. n \in Node /\ n.start \in Addr /\ n.end \in Addr /\ n.refcnt \in Int /\ TOP \in Nat
  BY RangeAssumption DEF Whole, Node
<1>2. /\ Whole(ss)
      /\ Aligned(ns) /\ c % PAGE = 0 => Aligned(ss)
      /\ \A a \in Addr : Refcnt(ss, a) = Refcnt(ns, a)
  BY Splits
<1>3. c - 1 \in Addr /\ c \in Addr /\ r \in Int
  BY <1>1, SMTT(30) DEF Addr
<1>4. /\ l \in Node /\ l.start = n.start /\ l.end = c - 1 /\ l.refcnt = n.refcnt
      /\ hi \in Node /\ hi.start = c /\ hi.end = n.end /\ hi.refcnt = n.refcnt
  BY <1>1, <1>3 DEF Node
<1>5. lo = [l EXCEPT !.refcnt = r]
  BY <1>1 DEF Node
<1>6. ss = (ns \ {n}) \cup {l, hi} /\ hi \in ms
  BY DEF split_range
<1> HIDE DEF l, ss, r, lo, hi
<1>7. l \notin ns \ {n} /\ l # hi
  <2>1. l.start <= n.end /\ n.start <= l.end /\ l.end # n.end
    BY <1>1, <1>3, <1>4, SMTT(30) DEF Addr
  <2>2. l \notin ns
    BY <2>1 DEF Whole
  <2>3. l # hi
    BY <1>1, <1>4, SMTT(30) DEF Addr
  <2> QED
    BY <2>2, <2>3
<1>8. ms = (ss \ {l}) \cup {[l EXCEPT !.refcnt = r]}
  BY <1>5, <1>6, <1>7
<1> HIDE DEF ms
<1>9. l \in ss
  BY <1>6
<1>10. /\ Whole(ms)
       /\ Aligned(ss) => Aligned(ms)
       /\ \A a \in Addr : Refcnt(ms, a)
                            = IF l.start <= a /\ a <= l.end THEN r ELSE Refcnt(ss, a)
  BY <1>2, <1>3, <1>8, <1>9, Recounts, SMTT(30)
<1>11. ASSUME NEW a \in Addr
       PROVE  Refcnt(ms, a) = Refcnt(ns, a) + (IF n.start <= a /\ a < c THEN inc ELSE 0)
  <2>1. Refcnt(ns, a) \in Int /\ a \in Int
    BY CountType, SMTT(30) DEF Addr
  <2>2. CASE n.start <= a /\ a < c
    <3>1. a <= n.end
      BY <1>1, <2>1, <2>2, SMTT(30) DEF Addr
    <3>2. Refcnt(ns, a) = n.refcnt
      BY <2>2, <3>1, CountOf
    <3>3. Refcnt(ms, a) = r
      BY <1>4, <1>10, <2>1, <2>2, SMTT(30)
    <3> QED
      BY <2>2, <3>2, <3>3 DEF r
  <2>3. CASE ~(n.start <= a /\ a < c)
    <3>1. ~(l.start <= a /\ a <= l.end)
      BY <1>4, <2>1, <2>3, SMTT(30)
    <3>2. Refcnt(ms, a) = Refcnt(ss, a)
      BY <1>10, <3>1
    <3> QED
      BY <1>2, <2>1, <2>3, <3>2, SMTT(30)
  <2> QED
    BY <2>2, <2>3
<1> QED
  BY <1>2, <1>4, <1>6, <1>10, <1>11

\* undo_node, on the node of the iteration: counts change only before the start of
\* the call, and it returns the node from there on or one that starts earlier.
LEMMA Undoes ==
  ASSUME NEW ns, Whole(ns), NEW n \in ns, NEW c \in Int, c <= n.end, NEW inc \in Int,
         NEW u, u = undo_node(ns, n, c, inc)
  PROVE  /\ Whole(u.nodes)
         /\ Aligned(ns) /\ c % PAGE = 0 => Aligned(u.nodes)
         /\ u.node \in u.nodes
         /\ u.node.start <= c \/ u.node.start <= n.start
         /\ c <= n.start /\ (\A m \in ns : m.end + 1 = n.start => m.refcnt # n.refcnt)
              => u.node.start = n.start
         /\ \A a \in Addr : Refcnt(u.nodes, a) = Refcnt(ns, a)
                              + (IF n.start <= a /\ a < c THEN inc ELSE 0)
<1> DEFINE low  == [n EXCEPT !.end = c - 1, !.refcnt = @ + inc]
           node == IF c > n.start THEN [n EXCEPT !.start = c] ELSE n
           ns1  == IF c > n.start THEN (ns \ {n}) \cup {low, node} ELSE ns
           p    == {m \in Prev(ns1, node) : m.refcnt = node.refcnt}
           ns2  == IF p = {} THEN ns1 ELSE merge_ranges(ns1, node, Only(p))
           nd2  == IF p = {} THEN node ELSE Merged(node, Only(p))
           q    == {m \in NextNode(ns2, nd2) : m.refcnt = nd2.refcnt}
           ns3  == IF q = {} THEN ns2 ELSE merge_ranges(ns2, Only(q), nd2)
           nd3  == IF q = {} THEN nd2 ELSE Merged(Only(q), nd2)
<1>0. n \in Node /\ n.start \in Int
  BY SMTT(30) DEF Whole, Node, Addr
<1>1. u.nodes = ns3 /\ u.node = nd3
  BY DEF undo_node
<1>2. /\ Whole(ns1) /\ (Aligned(ns) /\ c % PAGE = 0 => Aligned(ns1))
      /\ node \in ns1
      /\ node.start = IF c > n.start THEN c ELSE n.start
      /\ \A a \in Addr : Refcnt(ns1, a) = Refcnt(ns, a)
                              + (IF n.start <= a /\ a < c THEN inc ELSE 0)
  <2>1. CASE c > n.start
    <3> DEFINE hi == [n EXCEPT !.start = c]
               ms == (ns \ {n}) \cup {low, hi}
    <3>1. ns1 = ms /\ node = hi
      BY <2>1
    <3>2. n.start < c
      BY <1>0, <2>1, SMTT(30)
    <3>3. /\ Whole(ms)
          /\ Aligned(ns) /\ c % PAGE = 0 => Aligned(ms)
          /\ hi \in ms /\ hi.start = c
          /\ \A a \in Addr : Refcnt(ms, a) = Refcnt(ns, a)
                               + (IF n.start <= a /\ a < c THEN inc ELSE 0)
      BY <3>2, CutsOff
    <3> HIDE DEF ns1, node, ms, hi
    <3> QED
      BY <2>1, <3>1, <3>3
  <2>2. CASE ~(c > n.start)
    <3>1. ns1 = ns /\ node = n
      BY <2>2
    <3>2. ASSUME NEW a \in Addr
          PROVE  Refcnt(ns, a) = Refcnt(ns, a) + (IF n.start <= a /\ a < c THEN inc ELSE 0)
      <4>1. Refcnt(ns, a) \in Int /\ ~(n.start <= a /\ a < c)
        BY <1>0, <2>2, CountType, SMTT(30) DEF Addr
      <4> QED
        BY <4>1, SMTT(30)
    <3> QED
      BY <2>2, <3>1, <3>2
  <2> QED
    BY <2>1, <2>2
<1>3. c <= n.start => node = n /\ ns1 = ns
  BY <1>0, SMTT(30)
<1> HIDE DEF ns1, node
<1>4. /\ Whole(ns2) /\ (Aligned(ns1) => Aligned(ns2)) /\ nd2 \in ns2
      /\ \A a \in Addr : Refcnt(ns2, a) = Refcnt(ns1, a)
      /\ nd2.start <= node.start
      /\ (\A m \in ns1 : m.end + 1 = node.start => m.refcnt # node.refcnt) => nd2 = node
  BY <1>2, JoinsPrev
<1> HIDE DEF ns2, nd2
<1>5. /\ Whole(ns3) /\ (Aligned(ns2) => Aligned(ns3)) /\ nd3 \in ns3
      /\ \A a \in Addr : Refcnt(ns3, a) = Refcnt(ns2, a)
      /\ nd3.start = nd2.start
  BY <1>4, JoinsNext
<1> HIDE DEF ns3, nd3
<1>6. u.node.start <= c \/ u.node.start <= n.start
  BY <1>0, <1>1, <1>2, <1>4, <1>5
<1>7. ASSUME c <= n.start, \A m \in ns : m.end + 1 = n.start => m.refcnt # n.refcnt
      PROVE  u.node.start = n.start
  BY <1>1, <1>3, <1>4, <1>5, <1>7
<1> QED
  BY <1>1, <1>2, <1>4, <1>5, <1>6, <1>7

-----------------------------------------------------------------------------
(* The registrations.                                                       *)

\* There are finitely many buffers and registrations.
LEMMA RegistrationsFinite ==
  /\ IsFiniteSet(Regions) /\ IsFiniteSet(Registrations)
  /\ \A a : IsFiniteSet({x \in Registrations : Covers(x[1], a)})
<1>1. TOP \in Nat /\ MaxHeld \in Nat /\ PAGE \in Nat /\ PAGE > 0
  BY RangeAssumption, SMTT(30)
<1>2. Regions \subseteq (0 .. TOP) \X (0 .. TOP)
  <2> SUFFICES ASSUME NEW r \in Regions PROVE r \in (0 .. TOP) \X (0 .. TOP)
    OBVIOUS
  <2>1. r \in Nat \X Nat /\ r[1] + r[2] <= TOP + 1 - PAGE
    BY RangeAssumption
  <2> QED
    BY <1>1, <2>1, SMTT(30)
<1>3. IsFiniteSet(0 .. TOP) /\ IsFiniteSet(1 .. MaxHeld)
  BY <1>1, FS_Interval, SMTT(30)
<1>4. IsFiniteSet((0 .. TOP) \X (0 .. TOP))
  BY <1>3, FS_Product
<1>5. IsFiniteSet(Regions)
  BY <1>2, <1>4, FS_Subset
<1>6. IsFiniteSet(Regions \X (1 .. MaxHeld))
  BY <1>3, <1>5, FS_Product
<1>7. IsFiniteSet(Registrations)
  BY <1>6, FS_Subset DEF Registrations
<1> QED
  BY <1>5, <1>7, FS_Subset

LEMMA HeldType == \A a : HeldAt(a) \in Nat
BY RegistrationsFinite, FS_CardinalityType DEF HeldAt
LEMMA HeldTypeNext == (\A a : HeldAt(a) \in Nat)'
BY HeldType, PTL

\* While there is room for a registration, there is for one of any buffer.
LEMMA Room ==
  ASSUME NEW rg \in Regions, held \in [Regions -> 0 .. MaxHeld],
         Cardinality(Registrations) < MaxHeld
  PROVE  held[rg] < MaxHeld
<1>1. MaxHeld \in Nat
  BY RangeAssumption
<1>2. SUFFICES ASSUME held[rg] = MaxHeld PROVE FALSE
  BY <1>1, SMTT(30)
<1> DEFINE S == {rg} \X (1 .. MaxHeld)
<1>3. S \subseteq Registrations
  BY <1>1, <1>2, SMTT(30) DEF Registrations
<1>4. Cardinality(S) <= Cardinality(Registrations)
  BY <1>3, RegistrationsFinite, FS_Subset
<1>5. Cardinality(S) = MaxHeld
  <2>1. IsFiniteSet(1 .. MaxHeld) /\ Cardinality(1 .. MaxHeld) = MaxHeld
    BY <1>1, FS_Interval, SMTT(30)
  <2>2. IsFiniteSet({rg}) /\ Cardinality({rg}) = 1
    BY FS_Singleton
  <2>3. Cardinality(S) = Cardinality({rg}) * Cardinality(1 .. MaxHeld)
    BY <2>1, <2>2, FS_Product
  <2> QED
    BY <1>1, <2>1, <2>2, <2>3, SMTT(30)
<1>6. Cardinality(Registrations) \in Nat
  BY RegistrationsFinite, FS_CardinalityType
<1> QED
  BY <1>1, <1>4, <1>5, <1>6, SMTT(30)

\* A registration more or less counts for the addresses of its buffer.
LEMMA HeldMore ==
  ASSUME NEW rg \in Regions, held \in [Regions -> 0 .. MaxHeld], held[rg] < MaxHeld,
         held' = [held EXCEPT ![rg] = @ + 1]
  PROVE  \A a \in Addr : HeldAt(a)' = HeldAt(a) + (IF Covers(rg, a) THEN 1 ELSE 0)
<1> SUFFICES ASSUME NEW a \in Addr
             PROVE  HeldAt(a)' = HeldAt(a) + (IF Covers(rg, a) THEN 1 ELSE 0)
  OBVIOUS
<1>1. MaxHeld \in Nat /\ held[rg] \in Nat
  BY RangeAssumption, SMTT(30)
<1> DEFINE x == <<rg, held[rg] + 1>>
           S == {y \in Registrations : Covers(y[1], a)}
<1>2. Registrations' = Registrations \cup {x} /\ x \notin Registrations
  <2>1. x \in Regions \X (1 .. MaxHeld) /\ x[1] = rg /\ x[2] = held[rg] + 1
    BY <1>1, SMTT(30)
  <2>2. x \notin Registrations
    BY <1>1, <2>1, SMTT(30) DEF Registrations
  <2>3. \A y \in Regions \X (1 .. MaxHeld) :
          y[2] <= held'[y[1]] <=> y[2] <= held[y[1]] \/ y = x
    <3> SUFFICES ASSUME NEW y \in Regions \X (1 .. MaxHeld)
                 PROVE  y[2] <= held'[y[1]] <=> y[2] <= held[y[1]] \/ y = x
      OBVIOUS
    <3>1. y[1] \in Regions /\ y[2] \in Int /\ y = <<y[1], y[2]>>
      BY <1>1, SMTT(30)
    <3>2. CASE y[1] = rg
      BY <1>1, <3>1, <3>2, SMTT(30)
    <3>3. CASE y[1] # rg
      BY <3>1, <3>3, SMTT(30)
    <3> QED
      BY <3>2, <3>3
  <2> HIDE DEF x
  <2> QED
    BY <2>1, <2>2, <2>3 DEF Registrations
<1>3. x[1] = rg
  OBVIOUS
<1> HIDE DEF x
<1>4. S' = IF Covers(rg, a) THEN S \cup {x} ELSE S
  BY <1>2, <1>3 DEF Covers
<1>5. x \notin S
  BY <1>2
<1>6. IsFiniteSet(S) /\ Cardinality(S) \in Nat
  BY RegistrationsFinite, FS_CardinalityType, SMTT(30)
<1>7. HeldAt(a) = Cardinality(S) /\ HeldAt(a)' = Cardinality(S')
  BY DEF HeldAt
<1> HIDE DEF S
<1>8. Cardinality(S \cup {x}) = Cardinality(S) + 1
  BY <1>5, <1>6, FS_AddElement
<1> QED
  BY <1>4, <1>6, <1>7, <1>8, SMTT(30)

LEMMA HeldLess ==
  ASSUME NEW rg \in Regions, held \in [Regions -> 0 .. MaxHeld], held[rg] > 0,
         held' = [held EXCEPT ![rg] = @ + (-1)]
  PROVE  \A a \in Addr : HeldAt(a) = HeldAt(a)' + (IF Covers(rg, a) THEN 1 ELSE 0)
<1> SUFFICES ASSUME NEW a \in Addr
             PROVE  HeldAt(a) = HeldAt(a)' + (IF Covers(rg, a) THEN 1 ELSE 0)
  OBVIOUS
<1>1. MaxHeld \in Nat /\ held[rg] \in 0 .. MaxHeld
  BY RangeAssumption
<1> DEFINE x == <<rg, held[rg]>>
           S == {y \in Registrations : Covers(y[1], a)}
<1>2. Registrations' = Registrations \ {x} /\ x \in Registrations
  <2>1. x \in Regions \X (1 .. MaxHeld) /\ x[1] = rg /\ x[2] = held[rg]
    BY <1>1, SMTT(30)
  <2>2. x \in Registrations
    BY <1>1, <2>1, SMTT(30) DEF Registrations
  <2>3. \A y \in Regions \X (1 .. MaxHeld) :
          y[2] <= held'[y[1]] <=> y[2] <= held[y[1]] /\ y # x
    <3> SUFFICES ASSUME NEW y \in Regions \X (1 .. MaxHeld)
                 PROVE  y[2] <= held'[y[1]] <=> y[2] <= held[y[1]] /\ y # x
      OBVIOUS
    <3>1. y[1] \in Regions /\ y[2] \in Int /\ y = <<y[1], y[2]>>
      BY <1>1, SMTT(30)
    <3>2. CASE y[1] = rg
      BY <1>1, <3>1, <3>2, SMTT(30)
    <3>3. CASE y[1] # rg
      BY <3>1, <3>3, SMTT(30)
    <3> QED
      BY <3>2, <3>3
  <2> HIDE DEF x
  <2> QED
    BY <2>1, <2>2, <2>3 DEF Registrations
<1>3. x[1] = rg
  OBVIOUS
<1> HIDE DEF x
<1>4. S' = IF Covers(rg, a) THEN S \ {x} ELSE S
  BY <1>2, <1>3 DEF Covers
<1>5. Covers(rg, a) => x \in S
  BY <1>2, <1>3
<1>6. IsFiniteSet(S) /\ Cardinality(S) \in Nat
  BY RegistrationsFinite, FS_CardinalityType
<1>7. HeldAt(a) = Cardinality(S) /\ HeldAt(a)' = Cardinality(S')
  BY DEF HeldAt
<1> HIDE DEF S
<1>8. x \in S => Cardinality(S \ {x}) = Cardinality(S) - 1
  BY <1>6, FS_RemoveElement
<1> QED
  BY <1>4, <1>5, <1>6, <1>7, <1>8, SMTT(30)

-----------------------------------------------------------------------------
(* The shape of the state: the nodes partition the address space and the    *)
(* locals of a call fit them.                                               *)

\* The node of an iteration, before and after it is cut off at the end of the range.
LEMMA CurNode ==
  ASSUME ShapeInv, InLoop
  PROVE  /\ root /\ Whole(nodes) /\ Aligned(nodes) /\ CallInv /\ op \in Op
         /\ Cur \in nodes /\ Cur \in Node /\ Cur.start = op.cur
         /\ op.cur <= op.start => op.start <= Cur.end
<1>1. root /\ Whole(nodes) /\ Aligned(nodes) /\ CallInv /\ op \in Op
  BY DEF ShapeInv, InLoop, CallInv
<1>2. PICK n \in nodes : n.start = op.cur /\ (op.cur <= op.start => op.start <= n.end)
  BY <1>1 DEF InLoop, CallInv
<1>3. Cur = n
  BY <1>1, <1>2, StartOf DEF Cur
<1> QED
  BY <1>1, <1>2, <1>3 DEF Whole

LEMMA CutNode ==
  ASSUME ShapeInv, InLoop
  PROVE  /\ Whole(NodesCut) /\ Aligned(NodesCut)
         /\ CurCut \in NodesCut /\ CurCut \in Node
         /\ CurCut.start = op.cur /\ CurCut.refcnt = Cur.refcnt
         /\ CurCut.end = IF Overlaps THEN op.end ELSE Cur.end
         /\ op.cur <= CurCut.end /\ op.start <= CurCut.end /\ CurCut.end <= op.end
         /\ \A a \in Addr : Refcnt(NodesCut, a) = Refcnt(nodes, a)
<1>1. /\ root /\ Whole(nodes) /\ Aligned(nodes) /\ CallInv /\ op \in Op
      /\ Cur \in nodes /\ Cur \in Node /\ Cur.start = op.cur
      /\ op.cur <= op.start => op.start <= Cur.end
  BY CurNode
<1>2. /\ op.start \in Int /\ op.end \in Addr /\ op.cur \in Int /\ op.cur <= op.end
      /\ op.start <= op.end /\ (op.end + 1) % PAGE = 0
      /\ Cur.start \in Addr /\ Cur.end \in Addr /\ Cur.start <= Cur.end /\ TOP \in Nat
  BY <1>1, RangeAssumption, SMTT(30) DEF Op, Addr, InLoop, CallInv, Whole, Node
<1>3. CASE Overlaps
  <2>1. CurCut = [Cur EXCEPT !.end = op.end] /\ NodesCut = split_range(nodes, Cur, op.end + 1)
    BY <1>3 DEF CurCut, NodesCut
  <2>2. Cur.start < op.end + 1 /\ op.end + 1 <= Cur.end /\ op.end + 1 \in Int
    BY <1>1, <1>2, <1>3, SMTT(30) DEF Overlaps, Addr
  <2>3. /\ Whole(NodesCut) /\ Aligned(NodesCut)
        /\ \A a \in Addr : Refcnt(NodesCut, a) = Refcnt(nodes, a)
    BY <1>1, <1>2, <2>1, <2>2, Splits
  <2>4. CurCut \in NodesCut
    <3> DEFINE e == (op.end + 1) - 1
    <3>2. [Cur EXCEPT !.end = e] \in split_range(nodes, Cur, op.end + 1)
      BY DEF split_range
    <3>3. e = op.end
      BY <1>2, SMTT(30) DEF Addr
    <3> HIDE DEF e
    <3> QED
      BY <2>1, <3>2, <3>3
  <2>5. /\ CurCut \in Node /\ CurCut.start = op.cur /\ CurCut.refcnt = Cur.refcnt
        /\ CurCut.end = op.end
    BY <1>1, <1>2, <2>1 DEF Node
  <2> QED
    BY <1>2, <1>3, <2>3, <2>4, <2>5, SMTT(30) DEF Addr
<1>4. CASE ~Overlaps
  <2>1. CurCut = Cur /\ NodesCut = nodes
    BY <1>4 DEF CurCut, NodesCut
  <2>2. Cur.end <= op.end
    BY <1>2, <1>4, SMTT(30) DEF Overlaps, Addr
  <2> QED
    BY <1>1, <1>2, <1>4, <2>1, <2>2, SMTT(30) DEF Addr
<1> QED
  BY <1>3, <1>4

\* The end of a call: it counts its registration, if it succeeded, and leaves.
LEMMA Returns ==
  ASSUME ShapeInv, pc # "idle", NEW r \in {0, -1}, Return(r)
  PROVE  /\ pc' = "idle" /\ root' = root /\ too_late' = too_late /\ root
         /\ held' \in [Regions -> 0 .. MaxHeld] /\ ret' \in {0, -1}
         /\ IF r = 0 /\ op.inc = 1 /\ ~op.rolling_back
            THEN held' = [held EXCEPT ![op.rg] = @ + 1] ELSE held' = held
<1>1. CallInv /\ root
  BY DEF ShapeInv
<1>2. op.inc = 1 /\ ~op.rolling_back => op.rg \in Regions /\ held[op.rg] < MaxHeld
  BY <1>1 DEF CallInv, Op
<1>3. held \in [Regions -> 0 .. MaxHeld] /\ MaxHeld \in Nat
  BY RangeAssumption DEF ShapeInv, TypeOK
<1>4. IF r = 0 /\ op.inc = 1 /\ ~op.rolling_back
      THEN held' = [held EXCEPT ![op.rg] = @ + 1] ELSE held' = held
  BY SMTT(30) DEF Return, Holds
<1>5. held' \in [Regions -> 0 .. MaxHeld]
  BY <1>2, <1>3, <1>4, SMTT(30)
<1> QED
  BY <1>1, <1>4, <1>5 DEF Return

\* The state after a call has the shape when its nodes have.
LEMMA ReturnShape ==
  ASSUME ShapeInv, pc # "idle", NEW r \in {0, -1}, Return(r),
         Whole(nodes'), Aligned(nodes'), advised' \cup torn' \subseteq Addr,
         faults' \in [malloc : 0 .. MaxNoMem, madvise : BOOLEAN]
  PROVE  ShapeInv'
<1>1. /\ pc' = "idle" /\ root' = root /\ too_late' = too_late /\ root
      /\ held' \in [Regions -> 0 .. MaxHeld] /\ ret' \in {0, -1}
  BY Returns
<1>2. nodes' \subseteq Node
  BY DEF Whole
<1>3. root \in BOOLEAN /\ too_late \in BOOLEAN
  BY DEF ShapeInv, TypeOK
<1> QED
  BY <1>1, <1>2, <1>3 DEF ShapeInv, TypeOK

\* The state in a call has the shape when its nodes and locals have.
LEMMA StaysShape ==
  ASSUME ShapeInv, root, UNCHANGED <<root, too_late, held, ret>>,
         Whole(nodes'), Aligned(nodes'), advised' \cup torn' \subseteq Addr,
         faults' \in [malloc : 0 .. MaxNoMem, madvise : BOOLEAN],
         pc' \in {"find", "loop"}, CallInv'
  PROVE  ShapeInv'
<1>1. nodes' \subseteq Node
  BY DEF Whole
<1>2. op' \in Op
  BY DEF CallInv
<1> QED
  BY <1>1, <1>2 DEF ShapeInv, TypeOK

\* A call that goes on to another node keeps its other locals.
LEMMA CallGoesOn ==
  ASSUME CallInv, NEW c \in 0 .. TOP + 1, op' = [op EXCEPT !.cur = c], pc' = "loop",
         UNCHANGED <<held, faults, before>>, c <= op.end + 1,
         c <= op.end => \E n \in nodes' : n.start = c /\ (c <= op.start => op.start <= n.end)
  PROVE  /\ CallInv'
         /\ op'.cur = c /\ op'.start = op.start /\ op'.end = op.end /\ op'.inc = op.inc
         /\ op'.rolling_back = op.rolling_back /\ op'.rg = op.rg
<1>1. op \in Op
  BY DEF CallInv
<1>2. /\ op'.cur = c /\ op'.start = op.start /\ op'.end = op.end /\ op'.inc = op.inc
      /\ op'.rolling_back = op.rolling_back /\ op'.rg = op.rg /\ op' \in Op
  BY <1>1 DEF Op
<1> QED
  BY <1>2 DEF CallInv

\* get_start_node, when it finds the memory: the loop starts at the node that contains
\* the start of the range, and every address has the count it had.
LEMMA StartsLoop ==
  ASSUME ShapeInv, get_start_node, pc' = "loop"
  PROVE  /\ root /\ Whole(nodes') /\ Aligned(nodes') /\ CallInv /\ CallInv'
         /\ UNCHANGED <<root, too_late, advised, torn, held, faults, ret, before>>
         /\ op'.start = op.start /\ op'.end = op.end /\ op'.inc = op.inc
         /\ op'.rolling_back = op.rolling_back /\ op'.rg = op.rg /\ op'.cur <= op.start
         /\ \A a \in Addr : Count(a)' = Count(a)
<1> DEFINE n == FindStart(nodes, op.start)
           prev == {m \in Prev(nodes, n) : m.refcnt = n.refcnt + op.inc}
<1>1. /\ pc = "find" /\ root /\ Whole(nodes) /\ Aligned(nodes) /\ CallInv /\ op \in Op
      /\ TOP \in Nat
  BY RangeAssumption DEF get_start_node, ShapeInv, CallInv
<1>2. /\ op.start \in Addr /\ op.end \in Addr /\ op.inc \in Int /\ op.start <= op.end
      /\ op.start % PAGE = 0
  BY <1>1, SMTT(30) DEF CallInv, Op
<1>3. n \in nodes /\ n \in Node /\ n.start <= op.start /\ op.start <= n.end
  BY <1>1, <1>2, Finds DEF Whole
<1>4. n.start \in Addr /\ n.end \in Addr /\ n.refcnt \in Int
  BY <1>3 DEF Node
<1>5. \A a \in Addr : Count(a) = Refcnt(nodes, a)
  <2> SUFFICES ASSUME NEW a \in Addr PROVE Count(a) = Refcnt(nodes, a)
    OBVIOUS
  <2>1. Refcnt(nodes, a) \in Int
    BY <1>1, CountType
  <2> QED
    BY <1>1, <2>1, SMTT(30) DEF Count
<1> DEFINE Goal == /\ Whole(nodes') /\ Aligned(nodes') /\ CallInv'
                   /\ op'.start = op.start /\ op'.end = op.end /\ op'.inc = op.inc
                   /\ op'.rolling_back = op.rolling_back /\ op'.rg = op.rg
                   /\ op'.cur <= op.start
                   /\ \A a \in Addr : Count(a)' = Count(a)
<1>u. UNCHANGED <<root, too_late, advised, torn, held, faults, ret, before>>
  BY DEF get_start_node, Return
<1>6. \/ /\ n.start < op.start /\ nodes' = split_range(nodes, n, op.start)
         /\ op' = [op EXCEPT !.cur = [n EXCEPT !.start = op.start].start]
      \/ /\ n.start >= op.start /\ nodes' = nodes /\ op' = [op EXCEPT !.cur = n.start]
      \/ /\ n.start >= op.start
         /\ \E m \in prev : /\ nodes' = merge_ranges(nodes, n, m)
                            /\ op' = [op EXCEPT !.cur = Merged(n, m).start]
  BY DEF get_start_node, Return
<1> HIDE DEF n
<1>s. SUFFICES Goal
  BY <1>1, <1>u
<1>7. CASE /\ n.start < op.start /\ nodes' = split_range(nodes, n, op.start)
           /\ op' = [op EXCEPT !.cur = [n EXCEPT !.start = op.start].start]
  <2> DEFINE hi == [n EXCEPT !.start = op.start]
  <2>1. hi.start = op.start /\ hi.end = n.end
    BY <1>3 DEF Node
  <2>2. hi \in nodes'
    BY <1>7 DEF split_range
  <2> HIDE DEF hi
  <2>3. op' = [op EXCEPT !.cur = op.start]
    BY <1>7, <2>1 DEF hi
  <2>4. /\ Whole(nodes') /\ Aligned(nodes')
        /\ \A a \in Addr : Refcnt(nodes', a) = Refcnt(nodes, a)
    <3>1. op.start \in Int
      BY <1>2, SMTT(30) DEF Addr
    <3> QED
      BY <1>1, <1>2, <1>3, <1>7, <3>1, Splits
  <2>5. op.start \in 0 .. TOP + 1 /\ op.start <= op.end + 1
    BY <1>1, <1>2, SMTT(30) DEF Addr
  <2>6. /\ CallInv'
        /\ op'.cur = op.start /\ op'.start = op.start /\ op'.end = op.end /\ op'.inc = op.inc
        /\ op'.rolling_back = op.rolling_back /\ op'.rg = op.rg
    BY <1>1, <1>3, <1>u, <2>1, <2>2, <2>3, <2>5, CallGoesOn
  <2>7. ASSUME NEW a \in Addr PROVE Count(a)' = Count(a)
    <3>1. Refcnt(nodes', a) \in Int /\ ~(op'.cur <= a /\ a < op'.start)
      BY <1>2, <2>4, <2>6, CountType, SMTT(30) DEF Addr
    <3>2. Count(a)' = Refcnt(nodes', a)
      BY <3>1, SMTT(30) DEF Count, Refcnt, FindStart
    <3> QED
      BY <1>5, <2>4, <3>2
  <2> QED
    BY <1>2, <2>4, <2>6, <2>7, SMTT(30) DEF Addr
<1>8. CASE n.start >= op.start /\ nodes' = nodes /\ op' = [op EXCEPT !.cur = n.start]
  <2>1. n.start = op.start
    BY <1>2, <1>3, <1>4, <1>8, SMTT(30) DEF Addr
  <2>5. op.start \in 0 .. TOP + 1 /\ op.start <= op.end + 1
    BY <1>1, <1>2, SMTT(30) DEF Addr
  <2>6. /\ CallInv'
        /\ op'.cur = op.start /\ op'.start = op.start /\ op'.end = op.end /\ op'.inc = op.inc
        /\ op'.rolling_back = op.rolling_back /\ op'.rg = op.rg
    BY <1>1, <1>3, <1>8, <1>u, <2>1, <2>5, CallGoesOn
  <2>7. ASSUME NEW a \in Addr PROVE Count(a)' = Count(a)
    <3>1. Refcnt(nodes', a) \in Int /\ ~(op'.cur <= a /\ a < op'.start)
      BY <1>1, <1>2, <1>8, <2>6, CountType, SMTT(30) DEF Addr
    <3>2. Count(a)' = Refcnt(nodes', a)
      BY <3>1, SMTT(30) DEF Count, Refcnt, FindStart
    <3> QED
      BY <1>5, <1>8, <3>2
  <2> QED
    BY <1>1, <1>2, <1>8, <2>6, <2>7, SMTT(30) DEF Addr
<1>9. ASSUME n.start >= op.start, NEW m \in prev, nodes' = merge_ranges(nodes, n, m),
             op' = [op EXCEPT !.cur = Merged(n, m).start]
      PROVE  Goal
  <2>1. n.start = op.start
    BY <1>2, <1>3, <1>4, <1>9, SMTT(30) DEF Addr
  <2>2. m \in nodes /\ m.end + 1 = n.start /\ m.refcnt = n.refcnt + op.inc
    BY <1>1, <1>3, Before
  <2>3. m \in Node /\ m.start \in Addr /\ m.end \in Addr /\ m.start <= m.end
    BY <1>1, <2>2 DEF Whole, Node
  <2>4. /\ Whole(nodes') /\ Aligned(nodes')
        /\ \A a \in Addr : Refcnt(nodes', a)
             = IF m.start <= a /\ a <= m.end THEN n.refcnt ELSE Refcnt(nodes, a)
    BY <1>1, <1>3, <1>9, <2>2, Merges
  <2>5. m.start \in 0 .. TOP + 1 /\ m.start <= op.end + 1 /\ m.start <= op.start
    BY <1>1, <1>2, <2>1, <2>2, <2>3, SMTT(30) DEF Addr
  <2>6. Merged(n, m) \in nodes' /\ Merged(n, m).start = m.start /\ Merged(n, m).end = n.end
    BY <1>3, <1>9, <2>3 DEF merge_ranges, Merged, Node
  <2>7. op' = [op EXCEPT !.cur = m.start]
    BY <1>9, <2>6
  <2>8. /\ CallInv'
        /\ op'.cur = m.start /\ op'.start = op.start /\ op'.end = op.end /\ op'.inc = op.inc
        /\ op'.rolling_back = op.rolling_back /\ op'.rg = op.rg
    BY <1>1, <1>3, <1>u, <2>5, <2>6, <2>7, CallGoesOn
  <2>9. ASSUME NEW a \in Addr PROVE Count(a)' = Count(a)
    <3>0. Refcnt(nodes', a) \in Int /\ a \in Int
      BY <2>4, CountType, SMTT(30) DEF Addr
    <3>1. CASE m.start <= a /\ a <= m.end
      <4>1. Refcnt(nodes, a) = m.refcnt
        BY <1>1, <2>2, <3>1, CountOf
      <4>2. op'.cur <= a /\ a < op'.start
        BY <1>2, <2>1, <2>2, <2>3, <2>8, <3>0, <3>1, SMTT(30) DEF Addr
      <4>3. Count(a)' = Refcnt(nodes', a) + op.inc
        BY <2>8, <4>2 DEF Count, Refcnt, FindStart
      <4> QED
        BY <1>5, <2>2, <2>4, <3>1, <4>1, <4>3
    <3>2. CASE ~(m.start <= a /\ a <= m.end)
      <4>1. ~(op'.cur <= a /\ a < op'.start)
        BY <1>2, <2>1, <2>2, <2>3, <2>8, <3>0, <3>2, SMTT(30) DEF Addr
      <4>2. Count(a)' = Refcnt(nodes', a)
        BY <3>0, <4>1, SMTT(30) DEF Count, Refcnt, FindStart
      <4> QED
        BY <1>5, <2>4, <3>2, <4>2
    <3> QED
      BY <3>1, <3>2
  <2> QED
    BY <2>4, <2>5, <2>8, <2>9
<1> QED
  BY <1>6, <1>7, <1>8, <1>9

\* An iteration of the loop: the node's part of the range gets its new count, the
\* other addresses keep theirs, and the next node is the one that follows.
LEMMA Advances ==
  ASSUME ShapeInv, Advance
  PROVE  /\ Whole(nodes') /\ Aligned(nodes') /\ CallInv'
         /\ op'.start = op.start /\ op'.end = op.end /\ op'.inc = op.inc
         /\ op'.rolling_back = op.rolling_back /\ op'.rg = op.rg
         /\ op'.cur = CurCut.end + 1 /\ op.start < op'.cur
         /\ \A a \in Addr : Count(a)' = Count(a)
              + (IF op.start <= a /\ op.cur <= a /\ a <= CurCut.end THEN op.inc ELSE 0)
<1>1. /\ root /\ Whole(nodes) /\ CallInv /\ op \in Op
      /\ Cur \in nodes /\ Cur \in Node /\ Cur.start = op.cur
      /\ pc = "loop" /\ op.cur <= op.end /\ InLoop /\ TOP \in Nat
  BY CurNode, RangeAssumption DEF Advance, InLoop
<1>2. /\ Whole(NodesCut) /\ Aligned(NodesCut)
      /\ CurCut \in NodesCut /\ CurCut \in Node
      /\ CurCut.start = op.cur /\ CurCut.refcnt = Cur.refcnt
      /\ CurCut.end = IF Overlaps THEN op.end ELSE Cur.end
      /\ op.cur <= CurCut.end /\ op.start <= CurCut.end /\ CurCut.end <= op.end
      /\ \A a \in Addr : Refcnt(NodesCut, a) = Refcnt(nodes, a)
  BY <1>1, CutNode
<1>3. /\ op.start \in Addr /\ op.end \in Addr /\ op.inc \in Int /\ op.cur \in Int
      /\ CurCut.end \in Addr /\ CurCut.refcnt \in Int /\ Cur.end \in Addr
  BY <1>1, <1>2, SMTT(30) DEF Op, Node, Addr
<1> DEFINE r == CurCut.refcnt + op.inc
<1>4. /\ Whole(nodes') /\ Aligned(nodes')
      /\ \A a \in Addr : Refcnt(nodes', a)
           = IF CurCut.start <= a /\ a <= CurCut.end THEN r ELSE Refcnt(NodesCut, a)
  <2>1. nodes' = (NodesCut \ {CurCut}) \cup {[CurCut EXCEPT !.refcnt = r]} /\ r \in Int
    BY <1>3, SMTT(30) DEF Advance
  <2> HIDE DEF r
  <2> QED
    BY <1>2, <2>1, Recounts, SMTT(30)
<1> HIDE DEF r
<1> DEFINE c == CurCut.end + 1
<1>5. c \in 0 .. TOP + 1 /\ c <= op.end + 1 /\ op.start < c /\ op.cur < c
  BY <1>1, <1>2, <1>3, SMTT(30) DEF Addr
<1>6. c <= op.end => \E n \in nodes' : n.start = c /\ (c <= op.start => op.start <= n.end)
  <2> SUFFICES ASSUME c <= op.end
               PROVE  \E n \in nodes' : n.start = c
    BY <1>3, <1>5, SMTT(30) DEF Addr
  <2>1. ~Overlaps
    BY <1>2, <1>3, SMTT(30) DEF Addr
  <2>2. NodesCut = nodes /\ CurCut = Cur /\ Cur.end < TOP
    BY <1>1, <1>2, <1>3, <2>1, SMTT(30) DEF NodesCut, CurCut, Addr
  <2>3. PICK m \in nodes : Cur.end + 1 = m.start
    BY <1>1, <2>2, After
  <2>4. m # Cur
    BY <1>1, <1>2, <1>3, <2>2, <2>3, SMTT(30) DEF Addr
  <2> QED
    BY <2>2, <2>3, <2>4 DEF Advance
<1>7. op' = [op EXCEPT !.cur = c] /\ pc' = "loop" /\ UNCHANGED <<held, faults, before>>
  BY <1>1 DEF Advance
<1> HIDE DEF c
<1>8. /\ CallInv'
      /\ op'.cur = c /\ op'.start = op.start /\ op'.end = op.end /\ op'.inc = op.inc
      /\ op'.rolling_back = op.rolling_back /\ op'.rg = op.rg
  BY <1>1, <1>5, <1>6, <1>7, CallGoesOn
<1>9. ASSUME NEW a \in Addr
      PROVE  Count(a)' = Count(a)
              + (IF op.start <= a /\ op.cur <= a /\ a <= CurCut.end THEN op.inc ELSE 0)
  <2>0. a \in Int /\ Refcnt(nodes, a) \in Int /\ Refcnt(nodes', a) \in Int
    BY <1>1, <1>4, CountType, SMTT(30) DEF Addr
  <2>1. ~(op'.cur <= a /\ a < op'.start)
    BY <1>3, <1>5, <1>8, <2>0, SMTT(30) DEF Addr
  <2>2. Count(a)' = Refcnt(nodes', a)
    BY <2>0, <2>1, SMTT(30) DEF Count, Refcnt, FindStart
  <2>3. CASE op.cur <= a /\ a <= CurCut.end
    <3>1. a <= Cur.end
      BY <1>2, <1>3, <2>0, <2>3, SMTT(30) DEF Overlaps, Addr
    <3>2. Refcnt(nodes, a) = Cur.refcnt
      BY <1>1, <2>3, <3>1, CountOf
    <3>3. Refcnt(nodes', a) = Cur.refcnt + op.inc
      BY <1>2, <1>4, <2>3 DEF r
    <3>4. Count(a) = Cur.refcnt + (IF a < op.start THEN op.inc ELSE 0)
      BY <1>1, <2>3, <3>2 DEF Count
    <3> QED
      BY <1>2, <1>3, <2>0, <2>2, <2>3, <3>3, <3>4, SMTT(30) DEF Addr
  <2>4. CASE ~(op.cur <= a /\ a <= CurCut.end)
    <3>1. Refcnt(nodes', a) = Refcnt(nodes, a)
      BY <1>2, <1>4, <2>4
    <3>2. ~(op.cur <= a /\ a < op.start)
      BY <1>2, <1>3, <2>0, <2>4, SMTT(30) DEF Addr
    <3>3. Count(a) = Refcnt(nodes, a)
      BY <2>0, <3>2, SMTT(30) DEF Count
    <3> QED
      BY <2>0, <2>2, <2>4, <3>1, <3>3, SMTT(30)
  <2> QED
    BY <2>3, <2>4
<1> QED
  BY <1>4, <1>5, <1>8, <1>9 DEF c

\* A call of madvise that fails: undo_node takes back the count of the part before
\* the range, so that all addresses have the counts of before the iteration; the node
\* it returns starts no later than the part of the range that is not advised.
LEMMA FailsMadvise ==
  ASSUME ShapeInv, InLoop, NEW u, u = undo_node(NodesCut, CurCut, op.start, op.inc)
  PROVE  /\ Whole(u.nodes) /\ Aligned(u.nodes) /\ u.node \in u.nodes
         /\ u.node.start <= op.start \/ u.node.start <= op.cur
         /\ op.start <= op.cur
            /\ (\A m \in nodes : m.end + 1 = op.cur => m.refcnt # Cur.refcnt)
              => u.node.start = op.cur
         /\ \A a \in Addr : Refcnt(u.nodes, a) = Count(a)
<1>1. /\ root /\ Whole(nodes) /\ CallInv /\ op \in Op /\ Cur \in nodes /\ Cur \in Node
      /\ Cur.start = op.cur /\ pc = "loop" /\ op.cur <= op.end
  BY CurNode DEF InLoop
<1>2. /\ Whole(NodesCut) /\ Aligned(NodesCut)
      /\ CurCut \in NodesCut /\ CurCut \in Node
      /\ CurCut.start = op.cur /\ CurCut.refcnt = Cur.refcnt
      /\ op.cur <= CurCut.end /\ op.start <= CurCut.end /\ CurCut.end <= op.end
      /\ \A a \in Addr : Refcnt(NodesCut, a) = Refcnt(nodes, a)
  BY CutNode
<1>3. op.start \in Int /\ op.inc \in Int /\ op.cur \in Int /\ op.start % PAGE = 0
  BY <1>1, SMTT(30) DEF Op, Addr, CallInv
<1>4. /\ Whole(u.nodes) /\ Aligned(u.nodes) /\ u.node \in u.nodes
      /\ u.node.start <= op.start \/ u.node.start <= CurCut.start
      /\ op.start <= CurCut.start
         /\ (\A m \in NodesCut : m.end + 1 = CurCut.start => m.refcnt # CurCut.refcnt)
           => u.node.start = CurCut.start
      /\ \A a \in Addr : Refcnt(u.nodes, a) = Refcnt(NodesCut, a)
           + (IF CurCut.start <= a /\ a < op.start THEN op.inc ELSE 0)
  BY <1>2, <1>3, Undoes, SMTT(30)
<1>5. ASSUME NEW a \in Addr PROVE Refcnt(u.nodes, a) = Count(a)
  BY <1>1, <1>2, <1>4 DEF Count
<1>6. ASSUME op.start <= op.cur, \A m \in nodes : m.end + 1 = op.cur => m.refcnt # Cur.refcnt
      PROVE  u.node.start = op.cur
  <2>1. ASSUME NEW m \in NodesCut, m.end + 1 = CurCut.start
        PROVE  m.refcnt # CurCut.refcnt
    <3>0. m \in Node /\ m.end \in Int /\ Cur.end \in Int /\ op.end \in Int
      BY <1>1, <1>2, SMTT(30) DEF Whole, Node, Addr, Op
    <3>1. m \in nodes
      <4>1. CASE ~Overlaps
        BY <4>1 DEF NodesCut
      <4>2. CASE Overlaps /\ m = [Cur EXCEPT !.end = (op.end + 1) - 1]
        <5>1. m.end = op.end
          BY <1>1, <3>0, <4>2, SMTT(30) DEF Node
        <5> QED
          BY <1>1, <1>2, <1>3, <2>1, <3>0, <5>1, SMTT(30)
      <4>3. CASE Overlaps /\ m = [Cur EXCEPT !.start = op.end + 1]
        <5>1. m.end = Cur.end /\ Cur.end > op.end
          BY <1>1, <4>3 DEF Node, Overlaps
        <5> QED
          BY <1>1, <1>2, <1>3, <2>1, <3>0, <5>1, SMTT(30)
      <4> QED
        BY <4>1, <4>2, <4>3 DEF NodesCut, split_range
    <3> QED
      BY <1>2, <1>6, <2>1, <3>1
  <2> QED
    BY <1>2, <1>4, <1>6, <2>1
<1> QED
  BY <1>2, <1>4, <1>5, <1>6

\* The count of an address that the iteration changes.
LEMMA CurCount ==
  ASSUME ShapeInv, InLoop, NEW a \in Addr, op.start <= a, op.cur <= a, a <= CurCut.end
  PROVE  Count(a) = Cur.refcnt /\ Cur.refcnt \in Int
<1>1. /\ Whole(nodes) /\ Cur \in nodes /\ Cur \in Node /\ Cur.start = op.cur /\ op \in Op
  BY CurNode
<1>2. CurCut.end = IF Overlaps THEN op.end ELSE Cur.end
  BY CutNode
<1>3. a \in Int /\ op.start \in Int /\ op.end \in Int /\ Cur.end \in Int /\ Cur.refcnt \in Int
  BY <1>1, SMTT(30) DEF Op, Node, Addr
<1>4. a <= Cur.end
  BY <1>2, <1>3, SMTT(30) DEF Overlaps
<1>5. Refcnt(nodes, a) = Cur.refcnt
  BY <1>1, <1>4, CountOf
<1> QED
  BY <1>3, <1>5, SMTT(30) DEF Count

\* What a call that has not returned counts is at least 1 for the pages of its range
\* that are done, so that the node before an uncounted one is not merged with it.
LEMMA DoneIsCounted ==
  ASSUME ShapeInv, CountInv, InLoop, Crosses, op.inc = 1, op.start < op.cur
  PROVE  \A m \in nodes : m.end + 1 = op.cur => m.refcnt # Cur.refcnt
<1> SUFFICES ASSUME NEW m \in nodes, m.end + 1 = op.cur
             PROVE  m.refcnt # Cur.refcnt
  OBVIOUS
<1>1. Whole(nodes) /\ op \in Op /\ pc = "loop" /\ op.cur <= op.end
  BY CurNode DEF InLoop
<1>2. m \in Node /\ m.start <= m.end
  BY <1>1 DEF Whole
<1>3. /\ m.end \in Addr /\ m.end \in Int /\ m.refcnt \in Int
      /\ op.start \in Int /\ op.end \in Int /\ op.cur \in Int
  BY <1>1, <1>2, SMTT(30) DEF Node, Op, Addr
<1>4. op.start <= m.end /\ m.end <= op.end /\ m.end < op.cur
  BY <1>1, <1>3, SMTT(30)
<1>5. Owed(m.end) = 1
  BY <1>1, <1>4 DEF Owed
<1>6. Refcnt(nodes, m.end) = m.refcnt
  BY <1>1, <1>2, <1>3, CountOf, SMTT(30)
<1>7. Count(m.end) = m.refcnt
  BY <1>3, <1>4, <1>6, SMTT(30) DEF Count
<1>8. Count(m.end) >= HeldAt(m.end) + Owed(m.end) /\ HeldAt(m.end) \in Nat
  BY <1>3, HeldType DEF CountInv
<1>9. Cur.refcnt = 0
  BY SMTT(30) DEF Crosses
<1> QED
  BY <1>3, <1>5, <1>7, <1>8, <1>9, SMTT(30)

\* A failing madvise leaves alone what it has not torn.
LEMMA TearsApart ==
  ASSUME ShapeInv, InLoop, AdviseFails
  PROVE  /\ advised' \cup torn' \subseteq Addr
         /\ \A a : a \notin torn' => a \notin torn /\ (a \in advised' <=> a \in advised)
<1>1. PICK part \in SUBSET (From .. CurCut.end) : Advise(part) /\ torn' = torn \cup part
  BY DEF AdviseFails
<1>2. Cur \in Node /\ CurCut \in Node /\ op \in Op /\ TOP \in Nat
  BY CurNode, CutNode, RangeAssumption
<1>3. From \in Int /\ From >= 0 /\ CurCut.end \in 0 .. TOP
  BY <1>2, SMTT(30) DEF From, Node, Op, Addr
<1>4. From .. CurCut.end \subseteq Addr
  BY <1>2, <1>3, SMTT(30) DEF Addr
<1>5. advised \subseteq Addr /\ torn \subseteq Addr
  BY DEF ShapeInv, TypeOK
<1> QED
  BY <1>1, <1>4, <1>5 DEF Advise

\* A failed madvise that starts the rollback: all counts stay, and the range to roll
\* back ends before the node; right before it where no count is lost in a merge.
LEMMA RollsBack ==
  ASSUME ShapeInv, MadviseFails, pc' = "find"
  PROVE  /\ root /\ Whole(nodes') /\ Aligned(nodes') /\ CallInv'
         /\ UNCHANGED <<root, too_late, held, ret, before>> /\ AdviseFails
         /\ faults' = [faults EXCEPT !.madvise = TRUE]
         /\ op'.start = op.start /\ op'.inc = -op.inc /\ op'.rg = op.rg
         /\ op'.rolling_back /\ ~op.rolling_back
         /\ op.start <= op'.end /\ op'.end < op.cur /\ op'.end <= op.end
         /\ (\A m \in nodes : m.end + 1 = op.cur => m.refcnt # Cur.refcnt)
              => op'.end + 1 = op.cur
         /\ \A a \in Addr : Count(a)' = Count(a)
<1> DEFINE u == undo_node(NodesCut, CurCut, op.start, op.inc)
<1>1. InLoop /\ nodes' = u.nodes /\ AdviseFails /\ faults' = [faults EXCEPT !.madvise = TRUE]
  BY DEF MadviseFails
<1>2. /\ ~op.rolling_back /\ pc' = "find" /\ UNCHANGED <<root, too_late, held, ret, before>>
      /\ \E m \in Prev(u.nodes, u.node) : op.start <= m.end /\
           op' = [op EXCEPT !.rolling_back = TRUE, !.inc = -@, !.end = m.end]
  BY DEF MadviseFails, Return
<1>3. /\ Whole(u.nodes) /\ Aligned(u.nodes) /\ u.node \in u.nodes
      /\ u.node.start <= op.start \/ u.node.start <= op.cur
      /\ op.start <= op.cur
         /\ (\A m \in nodes : m.end + 1 = op.cur => m.refcnt # Cur.refcnt)
           => u.node.start = op.cur
      /\ \A a \in Addr : Refcnt(u.nodes, a) = Count(a)
  BY <1>1, FailsMadvise, SMTT(30)
<1> HIDE DEF u
<1>4. PICK m \in Prev(u.nodes, u.node) : op.start <= m.end /\
        op' = [op EXCEPT !.rolling_back = TRUE, !.inc = -@, !.end = m.end]
  BY <1>2
<1>5. m \in u.nodes /\ m.end + 1 = u.node.start
  BY <1>3, <1>4, Before, SMTT(30)
<1>6. /\ root /\ CallInv /\ op \in Op /\ pc = "loop" /\ op.cur <= op.end
      /\ m \in Node /\ u.node \in Node /\ (m.end + 1) % PAGE = 0
  BY <1>1, <1>3, <1>5, CurNode DEF InLoop, Whole, Aligned
<1>7. /\ m.end \in Addr /\ m.end \in Int /\ u.node.start \in Int /\ op.start \in Int
      /\ op.cur \in Int /\ op.end \in Int /\ op.inc \in {1, -1} /\ Last(op.rg) \in Addr
      /\ Last(op.rg) \in Int
  <2>1. Last(op.rg) \in Addr
    BY <1>6, PagesOf DEF CallInv, Op
  <2> QED
    BY <1>6, <2>1, SMTT(30) DEF Node, Op, Addr
<1>8. m.end < op.cur /\ m.end <= op.end /\ op.start <= op.cur /\ m.end <= Last(op.rg)
  BY <1>3, <1>4, <1>5, <1>6, <1>7, SMTT(30) DEF CallInv
<1>9. /\ op'.start = op.start /\ op'.inc = -op.inc /\ op'.rg = op.rg /\ op'.end = m.end
      /\ op'.rolling_back /\ op' \in Op
  <2>1. -op.inc \in {1, -1}
    BY <1>7, SMTT(30)
  <2>2. op' \in Op
    BY <1>4, <1>6, <1>7, <2>1 DEF Op
  <2>3. op'.rolling_back = TRUE
    BY <1>4, <1>6 DEF Op
  <2> QED
    BY <1>4, <1>6, <2>2, <2>3 DEF Op
<1>10. faults'.madvise
  BY <1>1 DEF ShapeInv, TypeOK
<1>11. CallInv'
  BY <1>2, <1>4, <1>6, <1>8, <1>9, <1>10 DEF CallInv, First, Last
<1>12. ASSUME NEW a \in Addr PROVE Count(a)' = Count(a)
  <2>1. Refcnt(nodes', a) = Count(a) /\ Refcnt(nodes', a) \in Int
    BY <1>1, <1>3, CountType
  <2> QED
    BY <1>2, <2>1, SMTT(30) DEF Count, Refcnt, FindStart
<1> QED
  BY <1>1, <1>2, <1>3, <1>4, <1>5, <1>6, <1>8, <1>9, <1>11, <1>12, SMTT(30)

\* A failed madvise that ends the call, with nothing to roll back or in the rollback.
LEMMA GivesUp ==
  ASSUME ShapeInv, MadviseFails, pc' # "find"
  PROVE  /\ Return(-1) /\ root /\ Whole(nodes') /\ Aligned(nodes') /\ AdviseFails
         /\ faults' = [faults EXCEPT !.madvise = TRUE]
         /\ ~op.rolling_back
            /\ (\A m \in nodes : m.end + 1 = op.cur => m.refcnt # Cur.refcnt)
              => op.cur <= op.start
         /\ \A a \in Addr : Refcnt(nodes', a) = Count(a)
<1> DEFINE u == undo_node(NodesCut, CurCut, op.start, op.inc)
<1>1. InLoop /\ nodes' = u.nodes /\ AdviseFails /\ faults' = [faults EXCEPT !.madvise = TRUE]
  BY DEF MadviseFails
<1>2. Return(-1) /\ (op.rolling_back \/ {m \in Prev(u.nodes, u.node) : op.start <= m.end} = {})
  BY DEF MadviseFails
<1>3. /\ Whole(u.nodes) /\ Aligned(u.nodes) /\ u.node \in u.nodes
      /\ op.start <= op.cur
         /\ (\A m \in nodes : m.end + 1 = op.cur => m.refcnt # Cur.refcnt)
           => u.node.start = op.cur
      /\ \A a \in Addr : Refcnt(u.nodes, a) = Count(a)
  BY <1>1, FailsMadvise
<1> HIDE DEF u
<1>4. ASSUME ~op.rolling_back, ~(op.cur <= op.start),
             \A m \in nodes : m.end + 1 = op.cur => m.refcnt # Cur.refcnt
      PROVE  FALSE
  <2>1. op \in Op
    BY <1>1, CurNode
  <2>2. op.start \in Nat /\ op.cur \in Nat
    BY <2>1, SMTT(30) DEF Op, Addr
  <2>3. u.node.start = op.cur /\ op.cur # 0
    BY <1>3, <1>4, <2>2, SMTT(30)
  <2>4. PICK m \in Prev(u.nodes, u.node) : TRUE
    BY <1>3, <2>3, Before, SMTT(30)
  <2>5. m \in u.nodes /\ m.end + 1 = op.cur
    BY <1>3, <2>3, <2>4, Before
  <2>6. m \in Node
    BY <1>3, <2>5 DEF Whole
  <2>7. m.end \in Int
    BY <2>6, SMTT(30) DEF Node, Addr
  <2>8. op.start <= m.end
    BY <1>4, <2>2, <2>5, <2>7, SMTT(30)
  <2> QED
    BY <1>2, <1>4, <2>4, <2>8
<1> QED
  BY <1>1, <1>2, <1>3, <1>4, CurNode, SMTT(30)

\* The end of the loop: the node after the range is merged with the one before it if
\* they have the same count, and no count changes.
LEMMA EndsLoop ==
  ASSUME ShapeInv, LoopDone
  PROVE  /\ Return(0) /\ root /\ Whole(nodes') /\ Aligned(nodes') /\ UNCHANGED <<advised, torn, faults>>
         /\ CallInv /\ pc = "loop" /\ op.cur = op.end + 1
         /\ \A a \in Addr : Refcnt(nodes', a) = Count(a)
<1> DEFINE after == {n \in nodes : n.start = op.cur}
           pairs == {p \in after \X nodes :
                       p[2] \in Prev(nodes, p[1]) /\ p[1].refcnt = p[2].refcnt}
<1>1. /\ pc = "loop" /\ op.cur > op.end /\ Return(0) /\ UNCHANGED <<advised, torn, faults>>
      /\ nodes' = IF pairs = {} THEN nodes
                  ELSE merge_ranges(nodes, Only(pairs)[1], Only(pairs)[2])
  BY DEF LoopDone
<1>2. root /\ Whole(nodes) /\ Aligned(nodes) /\ CallInv /\ op \in Op
  BY <1>1 DEF ShapeInv, CallInv
<1>3. op.cur \in Int /\ op.end \in Int /\ op.start \in Int
  BY <1>2, SMTT(30) DEF Op, Addr
<1>4. op.cur = op.end + 1 /\ op.start < op.cur
  BY <1>1, <1>2, <1>3, SMTT(30) DEF CallInv
<1>5. /\ Whole(nodes') /\ Aligned(nodes')
      /\ \A a \in Addr : Refcnt(nodes', a) = Refcnt(nodes, a)
  <2>1. CASE pairs = {}
    <3>1. nodes' = nodes
      BY <1>1, <2>1
    <3> QED
      BY <1>2, <3>1
  <2>2. CASE pairs # {}
    <3>1. Only(pairs) \in pairs
      BY <2>2, OnlyIn, SMTT(30)
    <3> DEFINE n == Only(pairs)[1]
               m == Only(pairs)[2]
    <3>2. n \in nodes /\ m \in nodes /\ m \in Prev(nodes, n) /\ m.refcnt = n.refcnt
      BY <3>1
    <3>3. nodes' = merge_ranges(nodes, n, m)
      BY <1>1, <2>2
    <3> HIDE DEF n, m, pairs, after
    <3>4. m.end + 1 = n.start
      BY <1>2, <3>2, Before
    <3> QED
      BY <1>2, <3>2, <3>3, <3>4, Merges, MergesEqual
  <2> QED
    BY <2>1, <2>2
<1>6. ASSUME NEW a \in Addr PROVE Refcnt(nodes', a) = Count(a)
  <2>1. a \in Int /\ Refcnt(nodes, a) \in Int
    BY <1>2, CountType, SMTT(30) DEF Addr
  <2> QED
    BY <1>3, <1>4, <1>5, <2>1, SMTT(30) DEF Count
<1> QED
  BY <1>1, <1>2, <1>4, <1>5, <1>6

-----------------------------------------------------------------------------
(* The shape.                                                               *)

\* Every step keeps the nodes a partition into whole pages, and the call's locals.
LEMMA ShapeStep ==
  ASSUME ShapeInv, [Next]_vars
  PROVE  ShapeInv'
<1>0. /\ faults \in [malloc : 0 .. MaxNoMem, madvise : BOOLEAN]
      /\ advised \subseteq Addr /\ torn \subseteq Addr
      /\ MaxNoMem \in Nat /\ MaxHeld \in Nat /\ TOP \in Nat /\ PAGE \in Nat \ {0}
      /\ (TOP + 1) % PAGE = 0
  BY RangeAssumption DEF ShapeInv, TypeOK
<1>1. ASSUME NoMem PROVE faults' \in [malloc : 0 .. MaxNoMem, madvise : BOOLEAN]
  BY <1>0, <1>1, SMTT(30) DEF NoMem, MallocFails
<1>2. CASE ibv_fork_init
  <2> DEFINE n == [start |-> 0, end |-> TOP, refcnt |-> 0]
  <2>1. nodes' = {n} /\ n \in Node /\ n.start = 0 /\ n.end = TOP
    BY <1>0, <1>2, SMTT(30) DEF ibv_fork_init, Node, Addr
  <2> HIDE DEF n
  <2>2. \A a \in Addr : n.start <= a /\ a <= n.end
    BY <1>0, <2>1, SMTT(30) DEF Addr
  <2>3. Whole(nodes')
    BY <1>0, <2>1, <2>2, SMTT(30) DEF Whole
  <2>4. 0 % PAGE = 0
    BY <1>0, SMTT(30)
  <2>5. Aligned(nodes')
    BY <1>0, <2>1, <2>4 DEF Aligned
  <2> QED
    BY <1>2, <2>1, <2>3, <2>5 DEF ibv_fork_init, ShapeInv, TypeOK
<1>3. ASSUME NEW rg \in Regions, NEW inc \in {1, -1}, CallUntracked(rg, inc)
      PROVE  ShapeInv'
  <2>1. held \in [Regions -> 0 .. MaxHeld] /\ held[rg] \in 0 .. MaxHeld /\ pc = "idle"
    BY <1>3 DEF ShapeInv, TypeOK, CallUntracked, MayCall
  <2>2. held[rg] + inc \in 0 .. MaxHeld
    <3>1. CASE inc = 1
      <4>1. held[rg] < MaxHeld
        BY <1>3, <2>1, <3>1, Room DEF CallUntracked, MayCall
      <4> QED
        BY <1>0, <2>1, <3>1, <4>1, SMTT(30)
    <3>2. CASE inc = -1
      BY <1>0, <1>3, <2>1, <3>2, SMTT(30) DEF CallUntracked, MayCall
    <3> QED
      BY <3>1, <3>2
  <2>3. held' \in [Regions -> 0 .. MaxHeld]
    BY <1>3, <2>1, <2>2 DEF CallUntracked, Holds
  <2> QED
    BY <1>3, <2>1, <2>3 DEF CallUntracked, ShapeInv, TypeOK
<1>4. ASSUME NEW rg \in Regions, NEW inc \in {1, -1}, ibv_madvise_range(rg, inc)
      PROVE  ShapeInv'
  <2>1. /\ held \in [Regions -> 0 .. MaxHeld] /\ held[rg] \in 0 .. MaxHeld /\ pc = "idle"
        /\ root /\ Whole(nodes) /\ Aligned(nodes) /\ rg[1] # 0 /\ rg[2] # 0
    BY <1>4 DEF ShapeInv, TypeOK, ibv_madvise_range, MayCall
  <2>2. /\ First(rg) \in Addr /\ Last(rg) \in Addr /\ First(rg) <= Last(rg)
        /\ First(rg) % PAGE = 0 /\ (Last(rg) + 1) % PAGE = 0
    BY <2>1, PagesOf
  <2>3. held' \in [Regions -> 0 .. MaxHeld] /\ (inc = 1 => held' = held /\ held[rg] < MaxHeld)
    <3>1. CASE inc = 1
      BY <1>4, <2>1, <3>1, Room, SMTT(30) DEF ibv_madvise_range, MayCall
    <3>2. CASE inc = -1
      <4>1. held[rg] + (-1) \in 0 .. MaxHeld
        BY <1>0, <1>4, <2>1, <3>2, SMTT(30) DEF ibv_madvise_range, MayCall
      <4> QED
        BY <1>4, <2>1, <3>2, <4>1, SMTT(30) DEF ibv_madvise_range, Holds
    <3> QED
      BY <3>1, <3>2
  <2>4. /\ op' = [rg |-> rg, inc |-> inc, start |-> First(rg), end |-> Last(rg),
                  cur |-> 0, rolling_back |-> FALSE]
        /\ pc' = "find" /\ before' = [a \in Addr |-> Refcnt(nodes, a)]
        /\ UNCHANGED <<root, too_late, nodes, advised, torn, faults, ret>>
    BY <1>4 DEF ibv_madvise_range
  <2>5. op' \in Op /\ before' \in [Addr -> Int]
    BY <1>0, <2>1, <2>2, <2>4, CountType, SMTT(30) DEF Op
  <2>6. Last(rg) <= Last(rg)
    BY <2>2, SMTT(30) DEF Addr
  <2>7. CallInv'
    BY <2>1, <2>2, <2>3, <2>4, <2>5, <2>6 DEF CallInv, First, Last
  <2> QED
    BY <2>1, <2>3, <2>4, <2>5, <2>7 DEF ShapeInv, TypeOK
<1>5. CASE get_start_node
  <2>1. CASE pc' = "loop"
    <3>1. /\ root /\ Whole(nodes') /\ Aligned(nodes') /\ CallInv'
          /\ UNCHANGED <<root, too_late, advised, torn, held, faults, ret>>
      BY <1>5, <2>1, StartsLoop
    <3> QED
      BY <1>0, <2>1, <3>1, StaysShape
  <2>2. CASE pc' # "loop"
    <3>1. NoMem /\ Return(-1) /\ UNCHANGED <<nodes, advised, torn>> /\ pc = "find"
      BY <1>5, <2>2 DEF get_start_node
    <3>2. Whole(nodes') /\ Aligned(nodes')
      BY <3>1 DEF ShapeInv
    <3> QED
      BY <1>0, <1>1, <3>1, <3>2, ReturnShape
  <2> QED
    BY <2>1, <2>2
<1>6. CASE SplitFails
  <2>1. NoMem /\ Return(-1) /\ UNCHANGED <<nodes, advised, torn>> /\ InLoop /\ pc = "loop"
    BY <1>6 DEF SplitFails, InLoop
  <2>2. Whole(nodes') /\ Aligned(nodes')
    BY <2>1, CurNode
  <2> QED
    BY <1>0, <1>1, <2>1, <2>2, ReturnShape
<1>7. CASE Advance
  <2>1. /\ Whole(nodes') /\ Aligned(nodes') /\ CallInv'
    BY <1>7, Advances
  <2>2. /\ InLoop /\ root /\ UNCHANGED <<root, too_late, held, ret>> /\ faults' = faults
        /\ pc' = "loop"
    BY <1>7, CurNode DEF Advance, InLoop
  <2>3. From \in Int /\ From >= 0 /\ CurCut.end \in Addr
    <3>1. Cur \in Node /\ CurCut \in Node /\ op \in Op
      BY <2>2, CurNode, CutNode
    <3> QED
      BY <3>1, SMTT(30) DEF From, Node, Op, Addr
  <2>4. From .. CurCut.end \subseteq Addr
    BY <1>0, <2>3, SMTT(30) DEF Addr
  <2>5. advised' \cup torn' \subseteq Addr
    BY <1>0, <1>7, <2>4 DEF Advance, Advise
  <2> QED
    BY <1>0, <2>1, <2>2, <2>5, StaysShape
<1>8. CASE MadviseFails
  <2>0. pc = "loop" /\ faults' = [faults EXCEPT !.madvise = TRUE]
    BY <1>8 DEF MadviseFails, InLoop
  <2>1. faults' \in [malloc : 0 .. MaxNoMem, madvise : BOOLEAN]
    BY <1>0, <2>0
  <2>2. CASE pc' = "find"
    <3>1. /\ root /\ Whole(nodes') /\ Aligned(nodes') /\ CallInv'
          /\ UNCHANGED <<root, too_late, held, ret>> /\ AdviseFails /\ InLoop
      BY <1>8, <2>2, RollsBack DEF MadviseFails
    <3>2. advised' \cup torn' \subseteq Addr
      BY <3>1, TearsApart
    <3> QED
      BY <1>0, <2>1, <2>2, <3>1, <3>2, StaysShape
  <2>3. CASE pc' # "find"
    <3>1. Return(-1) /\ Whole(nodes') /\ Aligned(nodes') /\ AdviseFails /\ InLoop
      BY <1>8, <2>3, GivesUp DEF MadviseFails
    <3>2. advised' \cup torn' \subseteq Addr
      BY <3>1, TearsApart
    <3> QED
      BY <1>0, <2>0, <2>1, <3>1, <3>2, ReturnShape
  <2> QED
    BY <2>2, <2>3, SMTT(30)
<1>9. CASE UndoFails
  <2>1. /\ InLoop /\ pc = "loop" /\ MallocFails /\ nodes' = NodesCut /\ AdviseFails
        /\ Return(-1) /\ faults' = [faults EXCEPT !.malloc = @ + 1, !.madvise = TRUE]
    BY <1>9 DEF UndoFails, InLoop
  <2>2. faults' \in [malloc : 0 .. MaxNoMem, madvise : BOOLEAN]
    <3>1. faults.malloc + 1 \in 0 .. MaxNoMem
      BY <1>0, <2>1, SMTT(30) DEF MallocFails
    <3>2. faults' = [malloc |-> faults.malloc + 1, madvise |-> TRUE]
      BY <1>0, <2>1
    <3> QED
      BY <3>1, <3>2
  <2>3. Whole(nodes') /\ Aligned(nodes')
    BY <2>1, CutNode
  <2>4. advised' \cup torn' \subseteq Addr
    BY <2>1, TearsApart
  <2> QED
    BY <1>0, <2>1, <2>2, <2>3, <2>4, ReturnShape
<1>10. CASE LoopDone
  <2>1. /\ Return(0) /\ Whole(nodes') /\ Aligned(nodes') /\ UNCHANGED <<advised, torn, faults>>
        /\ pc = "loop"
    BY <1>10, EndsLoop
  <2> QED
    BY <1>0, <2>1, ReturnShape
<1>11. CASE UNCHANGED vars
  BY <1>11 DEF vars, ShapeInv, TypeOK, CallInv, Whole, Aligned
<1> QED
  BY <1>2, <1>3, <1>4, <1>5, <1>6, <1>7, <1>8, <1>9, <1>10, <1>11 DEF Next

-----------------------------------------------------------------------------
(* The counts.                                                              *)

\* What CountInv says of a state whose counts, registrations and debts have types.
LEMMA CountTypes ==
  ASSUME ShapeInv, root, NEW a \in Addr
  PROVE  Count(a) \in Int /\ HeldAt(a) \in Nat /\ Owed(a) \in {0, 1} /\ Refcnt(nodes, a) \in Int
<1>1. Whole(nodes) /\ (pc # "idle" => op \in Op)
  BY DEF ShapeInv, CallInv
<1>2. Refcnt(nodes, a) \in Int
  BY <1>1, CountType
<1>3. pc # "idle" => op.inc \in Int
  BY <1>1, SMTT(30) DEF Op
<1>4. Count(a) \in Int
  BY <1>2, <1>3, SMTT(30) DEF Count
<1> QED
  BY <1>2, <1>4, HeldType DEF Owed

\* ibv_fork_init finds no registrations to count.
LEMMA CountsFromNothing ==
  ASSUME ShapeInv, ibv_fork_init
  PROVE  CountInv'
<1>1. /\ \A rg \in Regions : held[rg] = 0
      /\ held' = held /\ advised' = {} /\ torn' = {} /\ pc' = "idle" /\ TOP \in Nat
  BY RangeAssumption DEF ShapeInv, ibv_fork_init
<1>2. Registrations = {}
  <2>1. ASSUME NEW x \in Regions \X (1 .. MaxHeld), x[2] <= held[x[1]] PROVE FALSE
    BY <1>1, <2>1, RangeAssumption, SMTT(30)
  <2> QED
    BY <2>1 DEF Registrations
<1>3. Registrations' = {}
  BY <1>1, <1>2 DEF Registrations
<1>4. ASSUME NEW a \in Addr
      PROVE  Count(a)' = 0 /\ HeldAt(a)' = 0 /\ Owed(a)' = 0
  <2>1. ShapeInv'
    BY ShapeStep DEF Next
  <2>2. Whole(nodes')
    BY <2>1 DEF ShapeInv, ibv_fork_init
  <2>3. PICK n \in nodes' : n.start <= a /\ a <= n.end
    BY <2>2 DEF Whole
  <2>4. n.refcnt = 0
    BY <2>3, SMTT(30) DEF ibv_fork_init
  <2>5. Refcnt(nodes', a) = 0
    BY <2>2, <2>3, <2>4, CountOf
  <2>6. HeldAt(a)' = 0
    <3>1. {x \in Registrations' : Covers(x[1], a)} = {}
      BY <1>3
    <3> QED
      BY <3>1, FS_EmptySet DEF HeldAt, Covers, First, Last
  <2> QED
    BY <1>1, <2>5, <2>6, SMTT(30) DEF Count, Owed, Refcnt, FindStart
<1>5. \A a \in Addr \ torn' : a \in advised' <=> Count(a)' > 0
  BY <1>1, <1>4, SMTT(30)
<1>6. \A a \in Addr : Count(a)' >= HeldAt(a)' + Owed(a)' /\ Count(a)' = HeldAt(a)' + Owed(a)'
  BY <1>4, SMTT(30)
<1> QED
  BY <1>1, <1>5, <1>6 DEF CountInv

\* An untracked call changes no count and covers no page.
LEMMA CountsUntracked ==
  ASSUME ShapeInv, CountInv, root, NEW rg \in Regions, NEW inc \in {1, -1},
         CallUntracked(rg, inc)
  PROVE  CountInv'
<1>1. /\ held \in [Regions -> 0 .. MaxHeld] /\ pc = "idle" /\ pc' = "idle"
      /\ UNCHANGED <<root, nodes, advised, torn, faults>> /\ (rg[1] = 0 \/ rg[2] = 0)
      /\ held' = [held EXCEPT ![rg] = @ + inc]
  BY DEF CallUntracked, MayCall, Holds, ShapeInv, TypeOK
<1>2. ASSUME NEW a \in Addr
      PROVE  HeldAt(a)' = HeldAt(a) /\ Count(a)' = Count(a) /\ Owed(a)' = Owed(a)
  <2>1. ~Covers(rg, a)
    BY <1>1 DEF Covers
  <2>2. HeldAt(a) \in Nat /\ HeldAt(a)' \in Nat
    <3>1. \A b : HeldAt(b) \in Nat
      BY HeldType
    <3>2. (\A b : HeldAt(b) \in Nat)'
      BY HeldTypeNext
    <3> QED
      BY <3>1, <3>2
  <2>3. HeldAt(a)' = HeldAt(a)
    <3>1. CASE inc = 1
      <4>1. held[rg] < MaxHeld
        BY <1>1, <3>1, Room DEF CallUntracked, MayCall
      <4>2. HeldAt(a)' = HeldAt(a) + (IF Covers(rg, a) THEN 1 ELSE 0)
        BY <1>1, <3>1, <4>1, HeldMore
      <4> QED
        BY <2>1, <2>2, <4>2, SMTT(30)
    <3>2. CASE inc = -1
      <4>1. held[rg] > 0
        BY <3>2 DEF CallUntracked, MayCall
      <4>2. HeldAt(a) = HeldAt(a)' + (IF Covers(rg, a) THEN 1 ELSE 0)
        BY <1>1, <3>2, <4>1, HeldLess
      <4> QED
        BY <2>1, <2>2, <4>2, SMTT(30)
    <3> QED
      BY <3>1, <3>2
  <2> QED
    BY <1>1, <2>3 DEF Count, Owed, Refcnt, FindStart
<1>3. \A a \in Addr \ torn' : a \in advised' <=> Count(a)' > 0
  BY <1>1, <1>2 DEF CountInv
<1> QED
  BY <1>1, <1>2, <1>3 DEF CountInv

\* A call that starts to release owes the counts it has still to take.
LEMMA CountsStart ==
  ASSUME ShapeInv, CountInv, root, NEW rg \in Regions, NEW inc \in {1, -1},
         ibv_madvise_range(rg, inc)
  PROVE  CountInv'
<1>1. /\ held \in [Regions -> 0 .. MaxHeld] /\ pc = "idle" /\ pc' = "find"
      /\ UNCHANGED <<root, nodes, advised, torn, faults>> /\ rg[1] # 0 /\ rg[2] # 0
      /\ op' = [rg |-> rg, inc |-> inc, start |-> First(rg), end |-> Last(rg),
                cur |-> 0, rolling_back |-> FALSE]
      /\ before' = [a \in Addr |-> Refcnt(nodes, a)]
  BY DEF ibv_madvise_range, MayCall, ShapeInv, TypeOK
<1>2. ASSUME NEW a \in Addr
      PROVE  /\ HeldAt(a)' + Owed(a)' = HeldAt(a) + Owed(a)
             /\ Count(a)' = Count(a) /\ Count(a) = Refcnt(nodes, a)
             /\ inc = 1 => Owed(a)' = 0
  <2>0. HeldAt(a) \in Nat /\ HeldAt(a)' \in Nat /\ Refcnt(nodes, a) \in Int
    <3>1. HeldAt(a) \in Nat
      BY HeldType
    <3>2. (\A b : HeldAt(b) \in Nat)'
      BY HeldTypeNext
    <3> QED
      BY <3>1, <3>2, CountTypes
  <2>1. First(rg) \in Addr /\ Last(rg) \in Addr
    BY <1>1, PagesOf
  <2>2. Covers(rg, a) <=> First(rg) <= a /\ a <= Last(rg)
    BY <1>1, <2>1, SMTT(30) DEF Covers, Addr
  <2>3. Owed(a) = 0 /\ Owed(a)' = IF inc = -1 /\ Covers(rg, a) THEN 1 ELSE 0
    BY <1>1, <2>2, SMTT(30) DEF Owed
  <2>4. HeldAt(a)' + Owed(a)' = HeldAt(a)
    <3>1. CASE inc = 1
      <4>1. held' = held
        BY <3>1, SMTT(30) DEF ibv_madvise_range
      <4>2. HeldAt(a)' = HeldAt(a)
        BY <4>1 DEF HeldAt, Registrations, Covers, First, Last
      <4> QED
        BY <2>0, <2>3, <3>1, <4>2, SMTT(30)
    <3>2. CASE inc = -1
      <4>1. held[rg] > 0 /\ held' = [held EXCEPT ![rg] = @ + (-1)]
        BY <3>2 DEF ibv_madvise_range, MayCall, Holds
      <4>2. HeldAt(a) = HeldAt(a)' + (IF Covers(rg, a) THEN 1 ELSE 0)
        BY <1>1, <4>1, HeldLess
      <4> QED
        BY <2>0, <2>3, <3>2, <4>2
    <3> QED
      BY <3>1, <3>2
  <2>5. Count(a)' = Refcnt(nodes, a) /\ Count(a) = Refcnt(nodes, a)
    BY <1>1, <2>0, SMTT(30) DEF Count, Refcnt, FindStart
  <2> QED
    BY <2>0, <2>3, <2>4, <2>5, SMTT(30)
<1>3. \A a \in Addr \ torn' : a \in advised' <=> Count(a)' > 0
  BY <1>1, <1>2 DEF CountInv
<1>4. ASSUME inc = 1, NEW a \in Addr PROVE Count(a)' = before'[a] + Owed(a)'
  <2>1. Refcnt(nodes, a) \in Int
    BY CountTypes
  <2> QED
    BY <1>1, <1>2, <1>4, <2>1, SMTT(30)
<1> QED
  BY <1>1, <1>2, <1>3, <1>4 DEF CountInv

\* Where neither the counts change nor what is held and owed, nothing changes.
LEMMA CountsStay ==
  ASSUME CountInv, UNCHANGED <<advised, torn, held, before>>,
         faults'.madvise \/ ~faults.madvise,
         \A a \in Addr : Count(a)' = Count(a) /\ Owed(a)' = Owed(a),
         pc' # "idle" /\ (op'.rolling_back <=> op'.inc = -1)
           => pc # "idle" /\ (op.rolling_back <=> op.inc = -1)
  PROVE  CountInv'
<1>1. \A a \in Addr : HeldAt(a)' = HeldAt(a)
  BY DEF HeldAt, Registrations, Covers, First, Last
<1>2. \A a \in Addr \ torn' : a \in advised' <=> Count(a)' > 0
  BY DEF CountInv
<1> QED
  BY <1>1, <1>2 DEF CountInv

\* get_start_node merges in advance what Count takes into account.
LEMMA CountsFind ==
  ASSUME ShapeInv, CountInv, get_start_node, pc' = "loop"
  PROVE  CountInv'
<1>1. /\ UNCHANGED <<advised, torn, held, faults, before>> /\ root /\ CallInv /\ CallInv'
      /\ op'.start = op.start /\ op'.end = op.end /\ op'.inc = op.inc
      /\ op'.rolling_back = op.rolling_back /\ op'.cur <= op.start
      /\ \A a \in Addr : Count(a)' = Count(a)
  BY StartsLoop
<1>2. pc = "find" /\ op \in Op /\ op' \in Op
  BY <1>1 DEF get_start_node, CallInv
<1>3. /\ op.start \in Int /\ op.end \in Int /\ op'.cur \in Int /\ op.inc \in {1, -1}
  BY <1>2, SMTT(30) DEF Op, Addr
<1>4. ASSUME NEW a \in Addr PROVE Owed(a)' = Owed(a)
  <2>1. a \in Int
    BY SMTT(30) DEF Addr
  <2> QED
    BY <1>1, <1>2, <1>3, <2>1, SMTT(30) DEF Owed
<1> QED
  BY <1>1, <1>2, <1>4, CountsStay

\* An iteration pays what it owes, or owes what it has counted, and madvise is called
\* for the pages whose count leaves or reaches zero.
LEMMA CountsAdvance ==
  ASSUME ShapeInv, CountInv, Advance
  PROVE  CountInv'
<1>1. /\ InLoop /\ pc = "loop" /\ pc' = "loop" /\ UNCHANGED <<root, held, faults, before>>
      /\ op.cur <= op.end /\ root /\ op \in Op /\ Cur \in Node /\ Cur.start = op.cur
  BY CurNode DEF Advance, InLoop
<1>2. /\ op'.start = op.start /\ op'.end = op.end /\ op'.inc = op.inc
      /\ op'.rolling_back = op.rolling_back
      /\ op'.cur = CurCut.end + 1 /\ op.start < op'.cur
      /\ \A a \in Addr : Count(a)' = Count(a)
           + (IF op.start <= a /\ op.cur <= a /\ a <= CurCut.end THEN op.inc ELSE 0)
  BY Advances
<1>3. /\ op.start \in Int /\ op.end \in Int /\ op.cur \in Int /\ op.inc \in {1, -1}
      /\ CurCut.end \in Int /\ CurCut.end <= op.end /\ op.cur <= CurCut.end
      /\ CurCut.end \in Addr
  BY <1>1, CutNode, SMTT(30) DEF Op, Node, Addr
<1> DEFINE D(a) == op.start <= a /\ op.cur <= a /\ a <= CurCut.end
<1>4. ASSUME NEW a \in Addr
      PROVE  /\ Count(a) \in Int /\ HeldAt(a) \in Nat /\ Owed(a) \in Int /\ a \in Int
             /\ HeldAt(a)' = HeldAt(a)
             /\ Count(a)' = Count(a) + (IF D(a) THEN op.inc ELSE 0)
             /\ Owed(a)' = Owed(a) + (IF D(a) THEN op.inc ELSE 0)
  <2>1. Count(a) \in Int /\ HeldAt(a) \in Nat /\ Owed(a) \in Int /\ a \in Int
    BY <1>1, CountTypes, SMTT(30) DEF Addr
  <2>2. HeldAt(a)' = HeldAt(a)
    BY <1>1 DEF HeldAt, Registrations, Covers, First, Last
  <2>3. CASE op.inc = 1
    <3>1. Owed(a) = IF op.start <= a /\ a <= op.end /\ a < op.cur THEN 1 ELSE 0
      BY <1>1, <2>3 DEF Owed
    <3>2. Owed(a)' = IF op.start <= a /\ a <= op.end /\ a < CurCut.end + 1 THEN 1 ELSE 0
      BY <1>1, <1>2, <2>3 DEF Owed
    <3>3. Owed(a)' = Owed(a) + (IF D(a) THEN op.inc ELSE 0)
      BY <1>1, <1>3, <2>1, <2>3, <3>1, <3>2, SMTT(30)
    <3> QED
      BY <1>2, <2>1, <2>2, <3>3
  <2>4. CASE op.inc = -1
    <3>1. Owed(a) = IF op.start <= a /\ a <= op.end /\ op.cur <= a THEN 1 ELSE 0
      BY <1>1, <2>4, SMTT(30) DEF Owed
    <3>2. Owed(a)' = IF op.start <= a /\ a <= op.end /\ CurCut.end + 1 <= a THEN 1 ELSE 0
      BY <1>1, <1>2, <2>4, SMTT(30) DEF Owed
    <3>3. Owed(a)' = Owed(a) + (IF D(a) THEN op.inc ELSE 0)
      BY <1>1, <1>3, <2>1, <2>4, <3>1, <3>2, SMTT(30)
    <3> QED
      BY <1>2, <2>1, <2>2, <3>3
  <2> QED
    BY <1>3, <2>3, <2>4
<1>5. ASSUME NEW a \in Addr, a \notin torn'
      PROVE  a \in advised' <=> Count(a)' > 0
  <2> DEFINE S == From .. CurCut.end
  <2>0. /\ advised' = IF ~Crosses THEN advised
                      ELSE IF op.inc = 1 THEN advised \cup S ELSE advised \ S
        /\ torn' = IF Crosses THEN torn \ S ELSE torn
    BY DEF Advance, Advise
  <2>1. D(a) <=> a \in S
    BY <1>1, <1>3, <1>4, SMTT(30) DEF From
  <2> HIDE DEF S
  <2>2. Count(a) \in Int /\ (a \notin torn => (a \in advised <=> Count(a) > 0))
    BY <1>4 DEF CountInv
  <2>3. CASE ~D(a)
    <3>1. Count(a)' = Count(a)
      BY <1>4, <2>3, SMTT(30)
    <3>2. (a \in advised' <=> a \in advised) /\ a \notin torn
      BY <1>5, <2>0, <2>1, <2>3
    <3> QED
      BY <2>2, <3>1, <3>2
  <2>4. CASE D(a)
    <3>1. Count(a) = Cur.refcnt /\ Count(a)' = Count(a) + op.inc
      BY <1>1, <1>4, <2>4, CurCount
    <3>2. CASE Crosses /\ op.inc = 1
      <4>1. Cur.refcnt = 0 /\ a \in advised'
        BY <2>0, <2>1, <2>4, <3>2, SMTT(30) DEF Crosses
      <4> QED
        BY <3>1, <3>2, <4>1, SMTT(30)
    <3>3. CASE Crosses /\ op.inc = -1
      <4>1. Cur.refcnt = 1 /\ a \notin advised'
        BY <2>0, <2>1, <2>4, <3>3, SMTT(30) DEF Crosses
      <4> QED
        BY <3>1, <3>3, <4>1, SMTT(30)
    <3>4. CASE ~Crosses
      <4>1. advised' = advised /\ a \notin torn
        BY <1>5, <2>0, <3>4
      <4>2. (op.inc = 1 => Cur.refcnt # 0) /\ (op.inc = -1 => Cur.refcnt # 1)
        BY <3>4 DEF Crosses
      <4> QED
        BY <1>3, <2>2, <3>1, <4>1, <4>2, SMTT(30)
    <3> QED
      BY <1>3, <3>2, <3>3, <3>4
  <2> QED
    BY <2>3, <2>4
<1>6. ASSUME NEW a \in Addr
      PROVE  /\ Count(a) >= HeldAt(a) + Owed(a) => Count(a)' >= HeldAt(a)' + Owed(a)'
             /\ Count(a) = HeldAt(a) + Owed(a) => Count(a)' = HeldAt(a)' + Owed(a)'
  BY <1>3, <1>4, SMTT(30)
<1>7. ASSUME NEW a \in Addr, op.rolling_back <=> op.inc = -1
      PROVE  Count(a)' = before'[a] + Owed(a)'
  <2>1. CallInv
    BY <1>1, CurNode
  <2>2. before[a] \in Int /\ Count(a) = before[a] + Owed(a)
    BY <1>1, <1>7, <2>1 DEF CountInv, CallInv
  <2> QED
    BY <1>1, <1>3, <1>4, <2>2, SMTT(30)
<1> QED
  BY <1>1, <1>2, <1>5, <1>6, <1>7 DEF CountInv

\* A failed madvise: the rollback of a registration owes what the registration has
\* counted, that of a release takes nothing, and a call that gives up owes nothing.
LEMMA CountsFail ==
  ASSUME ShapeInv, CountInv, MadviseFails
  PROVE  CountInv'
<1>1. /\ InLoop /\ Crosses /\ pc = "loop" /\ root /\ op \in Op /\ CallInv /\ op.cur <= op.end
      /\ faults' = [faults EXCEPT !.madvise = TRUE]
      /\ \A a : a \notin torn' => a \notin torn /\ (a \in advised' <=> a \in advised)
  BY CurNode, TearsApart DEF MadviseFails, InLoop
<1>2. /\ op.start \in Int /\ op.end \in Int /\ op.cur \in Int /\ op.inc \in {1, -1}
  BY <1>1, SMTT(30) DEF Op, Addr
<1>3. faults'.madvise
  BY <1>1 DEF ShapeInv, TypeOK
<1>4. CASE pc' = "find"
  <2>1. /\ UNCHANGED <<held, before>> /\ op'.start = op.start /\ op'.inc = -op.inc
        /\ op'.rolling_back /\ ~op.rolling_back /\ CallInv'
        /\ op.start <= op'.end /\ op'.end < op.cur /\ op'.end <= op.end
        /\ (\A m \in nodes : m.end + 1 = op.cur => m.refcnt # Cur.refcnt)
             => op'.end + 1 = op.cur
        /\ \A a \in Addr : Count(a)' = Count(a)
    BY <1>4, RollsBack
  <2>2. op' \in Op
    BY <2>1 DEF CallInv
  <2>3. op'.end \in Int
    BY <2>2, SMTT(30) DEF Op, Addr
  <2>4. ASSUME NEW a \in Addr
        PROVE  /\ a \in Int /\ Owed(a) \in {0, 1} /\ Owed(a)' \in {0, 1}
               /\ Owed(a)' <= Owed(a) /\ (op.inc = 1 => Owed(a)' = Owed(a))
               /\ HeldAt(a)' = HeldAt(a) /\ Count(a) \in Int /\ HeldAt(a) \in Nat
    <3>1. a \in Int
      BY SMTT(30) DEF Addr
    <3>2. HeldAt(a)' = HeldAt(a)
      BY <2>1 DEF HeldAt, Registrations, Covers, First, Last
    <3>3. CASE op.inc = 1
      <4>1. op.start < op.cur
        BY <1>2, <2>1, <2>3, SMTT(30)
      <4>2. op'.end + 1 = op.cur
        BY <1>1, <2>1, <3>3, <4>1, DoneIsCounted
      <4>3. op'.inc = -1
        BY <2>1, <3>3
      <4>4. Owed(a) = IF op.start <= a /\ a <= op.end /\ a < op.cur THEN 1 ELSE 0
        BY <1>1, <3>3 DEF Owed
      <4>5. Owed(a)' = IF op.start <= a /\ a <= op'.end THEN 1 ELSE 0
        BY <1>4, <2>1, <4>3, SMTT(30) DEF Owed
      <4> QED
        BY <1>1, <1>2, <2>3, <3>1, <3>2, <4>2, <4>4, <4>5, CountTypes, SMTT(30)
    <3>4. CASE op.inc = -1
      <4>1. op'.inc = 1
        <5>1. op.inc # 1
          BY <3>4, SMTT(30)
        <5>2. -op.inc = 1
          BY <1>2, <5>1, SMTT(30)
        <5> QED
          BY <2>1, <5>2
      <4>2. Owed(a)' = 0
        BY <1>4, <4>1 DEF Owed
      <4> QED
        BY <1>1, <3>1, <3>2, <3>4, <4>2, CountTypes, SMTT(30)
    <3> QED
      BY <1>2, <3>3, <3>4
  <2>5. \A a \in Addr \ torn' : a \in advised' <=> Count(a)' > 0
    BY <1>1, <2>1 DEF CountInv
  <2>6. ASSUME NEW a \in Addr PROVE Count(a)' >= HeldAt(a)' + Owed(a)'
    <3>1. Count(a) >= HeldAt(a) + Owed(a)
      BY DEF CountInv
    <3> QED
      BY <2>1, <2>4, <3>1, SMTT(30)
  <2>7. ASSUME op'.inc = -1, NEW a \in Addr PROVE Count(a)' = before'[a] + Owed(a)'
    <3>1. op.inc = 1
      BY <1>2, <2>1, <2>7, SMTT(30)
    <3>2. Count(a) = before[a] + Owed(a)
      BY <1>1, <2>1, <3>1, SMTT(30) DEF CountInv
    <3> QED
      BY <2>1, <2>4, <3>1, <3>2
  <2> QED
    BY <1>3, <2>1, <2>5, <2>6, <2>7 DEF CountInv
<1>5. CASE pc' # "find"
  <2>1. Return(-1) /\ \A a \in Addr : Refcnt(nodes', a) = Count(a)
    BY <1>5, GivesUp
  <2>2. pc' = "idle" /\ held' = held
    BY <1>1, <2>1, Returns, SMTT(30)
  <2>3. ASSUME NEW a \in Addr
        PROVE  /\ Count(a)' = Count(a) /\ Owed(a)' = 0 /\ HeldAt(a)' = HeldAt(a)
               /\ Count(a)' >= HeldAt(a)' + Owed(a)'
    <3>1. Count(a) \in Int /\ HeldAt(a) \in Nat /\ Owed(a) \in {0, 1}
      BY <1>1, CountTypes
    <3>2. Count(a)' = Count(a)
      BY <2>1, <2>2, <3>1, SMTT(30) DEF Count, Refcnt, FindStart
    <3>3. Owed(a)' = 0 /\ HeldAt(a)' = HeldAt(a)
      BY <2>2 DEF Owed, HeldAt, Registrations, Covers, First, Last
    <3>4. Count(a) >= HeldAt(a) + Owed(a)
      BY DEF CountInv
    <3> QED
      BY <3>1, <3>2, <3>3, <3>4, SMTT(30)
  <2>4. \A a \in Addr \ torn' : a \in advised' <=> Count(a)' > 0
    BY <1>1, <2>3 DEF CountInv
  <2> QED
    BY <1>3, <2>2, <2>3, <2>4 DEF CountInv
<1> QED
  BY <1>4, <1>5, SMTT(30)

\* The end of a call: what a registration has counted is held from here on.
LEMMA CountsEnd ==
  ASSUME ShapeInv, CountInv, LoopDone
  PROVE  CountInv'
<1>1. /\ Return(0) /\ root /\ UNCHANGED <<advised, torn, faults>>
      /\ CallInv /\ pc = "loop" /\ op.cur = op.end + 1 /\ op \in Op
      /\ \A a \in Addr : Refcnt(nodes', a) = Count(a)
  BY EndsLoop DEF CallInv
<1>2. /\ op.start \in Int /\ op.end \in Int /\ op.cur \in Int /\ op.inc \in {1, -1}
      /\ op.rg \in Regions
  BY <1>1, SMTT(30) DEF Op, Addr
<1>3. /\ pc' = "idle"
      /\ IF op.inc = 1 /\ ~op.rolling_back THEN held' = [held EXCEPT ![op.rg] = @ + 1]
         ELSE held' = held
  BY <1>1, Returns
<1>4. ASSUME NEW a \in Addr
      PROVE  /\ Count(a)' = Count(a) /\ Owed(a)' = 0
             /\ Count(a)' >= HeldAt(a)'
             /\ ~faults.madvise => Count(a)' = HeldAt(a)'
  <2>1. Count(a) \in Int /\ HeldAt(a) \in Nat /\ Owed(a) \in {0, 1} /\ a \in Int
    BY <1>1, CountTypes, SMTT(30) DEF Addr
  <2>2. Count(a)' = Count(a) /\ Owed(a)' = 0
    BY <1>1, <1>3, <2>1, SMTT(30) DEF Count, Owed, Refcnt, FindStart
  <2>3. /\ Count(a) >= HeldAt(a) + Owed(a)
        /\ ~faults.madvise => Count(a) = HeldAt(a) + Owed(a)
    BY DEF CountInv
  <2>4. CASE op.inc = 1 /\ ~op.rolling_back
    <3>1. held \in [Regions -> 0 .. MaxHeld] /\ held[op.rg] < MaxHeld /\ op.end = Last(op.rg)
      BY <1>1, <2>4 DEF ShapeInv, TypeOK, CallInv
    <3>2. HeldAt(a)' = HeldAt(a) + (IF Covers(op.rg, a) THEN 1 ELSE 0)
      BY <1>2, <1>3, <2>4, <3>1, HeldMore
    <3>3. Covers(op.rg, a) <=> op.start <= a /\ a <= op.end
      BY <1>1, <1>2, <2>1, <3>1, SMTT(30) DEF Covers, CallInv
    <3>4. Owed(a) = IF op.start <= a /\ a <= op.end THEN 1 ELSE 0
      BY <1>1, <1>2, <2>1, <2>4, SMTT(30) DEF Owed
    <3> QED
      BY <2>1, <2>2, <2>3, <3>2, <3>3, <3>4, SMTT(30)
  <2>5. CASE ~(op.inc = 1 /\ ~op.rolling_back)
    <3>1. HeldAt(a)' = HeldAt(a)
      BY <1>3, <2>5 DEF HeldAt, Registrations, Covers, First, Last
    <3>2. ~faults.madvise => Owed(a) = 0
      <4>1. ~faults.madvise => op.inc = -1
        BY <1>1, <1>2, <2>5 DEF CallInv
      <4>2. op.inc = -1 => Owed(a) = 0
        BY <1>1, <1>2, <2>1, SMTT(30) DEF Owed
      <4> QED
        BY <4>1, <4>2
    <3> QED
      BY <2>1, <2>2, <2>3, <3>1, <3>2, SMTT(30)
  <2> QED
    BY <2>4, <2>5
<1>5. \A a \in Addr \ torn' : a \in advised' <=> Count(a)' > 0
  BY <1>1, <1>4 DEF CountInv
<1>6. ASSUME NEW a \in Addr
      PROVE  /\ Count(a)' >= HeldAt(a)' + Owed(a)'
             /\ ~faults'.madvise => Count(a)' = HeldAt(a)' + Owed(a)'
  <2>1. (\A b : HeldAt(b) \in Nat)'
    BY HeldTypeNext
  <2> QED
    BY <1>1, <1>4, <2>1, SMTT(30)
<1> QED
  BY <1>3, <1>5, <1>6 DEF CountInv

\* Every step that does not fail in malloc keeps the counts.
LEMMA CountStep ==
  ASSUME ShapeInv, root /\ faults.malloc = 0 => CountInv, [Next]_vars
  PROVE  root' /\ faults'.malloc = 0 => CountInv'
<1> SUFFICES ASSUME root', faults'.malloc = 0
             PROVE  CountInv'
  OBVIOUS
<1>0. faults \in [malloc : 0 .. MaxNoMem, madvise : BOOLEAN] /\ MaxNoMem \in Nat
  BY RangeAssumption DEF ShapeInv, TypeOK
<1>1. ASSUME MallocFails, NEW b \in BOOLEAN,
             faults' = [malloc |-> faults.malloc + 1, madvise |-> b]
      PROVE  FALSE
  BY <1>0, <1>1, SMTT(30)
<1>2. ASSUME NoMem PROVE FALSE
  BY <1>0, <1>2, SMTT(30) DEF NoMem
<1>3. CASE ibv_fork_init
  BY <1>3, CountsFromNothing
<1>4. ASSUME NEW rg \in Regions, NEW inc \in {1, -1}, CallUntracked(rg, inc)
      PROVE  CountInv'
  BY <1>4, CountsUntracked DEF CallUntracked
<1>5. ASSUME NEW rg \in Regions, NEW inc \in {1, -1}, ibv_madvise_range(rg, inc)
      PROVE  CountInv'
  BY <1>5, CountsStart DEF ibv_madvise_range
<1>6. CASE get_start_node
  <2>1. pc' = "loop" \/ NoMem
    BY <1>6 DEF get_start_node
  <2>2. pc' = "loop"
    BY <1>2, <2>1
  <2>3. root /\ UNCHANGED faults
    BY <1>6, <2>2, StartsLoop
  <2> QED
    BY <1>6, <2>2, <2>3, CountsFind
<1>7. CASE SplitFails
  BY <1>2, <1>7 DEF SplitFails
<1>8. CASE Advance
  BY <1>8, CountsAdvance DEF Advance
<1>9. CASE MadviseFails
  <2>1. root
    BY <1>9, CurNode DEF MadviseFails
  <2>2. faults' = [faults EXCEPT !.madvise = TRUE]
    BY <1>9 DEF MadviseFails
  <2>3. faults.malloc = 0
    BY <1>0, <2>2
  <2> QED
    BY <1>9, <2>1, <2>3, CountsFail
<1>10. CASE UndoFails
  <2>1. faults' = [faults EXCEPT !.malloc = @ + 1, !.madvise = TRUE]
    BY <1>10 DEF UndoFails
  <2>2. faults' = [malloc |-> faults.malloc + 1, madvise |-> TRUE]
    BY <1>0, <2>1
  <2> QED
    BY <1>1, <1>10, <2>2 DEF UndoFails
<1>11. CASE LoopDone
  <2>1. root /\ UNCHANGED faults
    BY <1>11, EndsLoop
  <2> QED
    BY <1>11, <2>1, CountsEnd
<1>12. CASE UNCHANGED vars
  <2>1. CountInv
    BY <1>12 DEF vars
  <2>2. \A a \in Addr : Count(a)' = Count(a) /\ Owed(a)' = Owed(a)
    BY <1>12 DEF vars, Count, Owed, Refcnt, FindStart
  <2> QED
    BY <1>12, <2>1, <2>2, CountsStay DEF vars
<1> QED
  BY <1>3, <1>4, <1>5, <1>6, <1>7, <1>8, <1>9, <1>10, <1>11, <1>12 DEF Next

-----------------------------------------------------------------------------
(* The neighbours.                                                          *)

\* get_start_node leaves a node that will differ from the one before it.
LEMMA NeighboursFind ==
  ASSUME ShapeInv, NeighbourInv, get_start_node, pc' = "loop"
  PROVE  NeighbourInv'
<1>1. root /\ Whole(nodes) /\ Whole(nodes') /\ CallInv /\ op \in Op /\ pc = "find"
  BY StartsLoop DEF ShapeInv, CallInv, get_start_node
<1>2. op.start \in Addr /\ op.start \in Int /\ op.inc \in {1, -1}
  BY <1>1, SMTT(30) DEF Op, Addr
<1> DEFINE n == FindStart(nodes, op.start)
           prev == {m \in Prev(nodes, n) : m.refcnt = n.refcnt + op.inc}
<1>3. n \in nodes /\ n \in Node /\ n.start <= op.start /\ op.start <= n.end
  BY <1>1, <1>2, Finds DEF Whole
<1>4. /\ n.start \in Int /\ n.end \in Int /\ n.refcnt \in Int
      /\ n = [start |-> n.start, end |-> n.end, refcnt |-> n.refcnt]
  BY <1>3, SMTT(30) DEF Node, Addr
<1>5. \/ /\ n.start < op.start
         /\ nodes' = split_range(nodes, n, op.start)
         /\ op' = [op EXCEPT !.cur = [n EXCEPT !.start = op.start].start]
      \/ /\ prev = {} /\ nodes' = nodes /\ op' = [op EXCEPT !.cur = n.start]
      \/ /\ \E m \in prev : /\ nodes' = merge_ranges(nodes, n, m)
                            /\ op' = [op EXCEPT !.cur = Merged(n, m).start]
  BY DEF get_start_node, Return
<1>6. \A x, y \in nodes : x.end + 1 = y.start => x.refcnt # y.refcnt
  BY <1>1 DEF NeighbourInv
<1>7. \A x \in nodes : x \in Node /\ x.start \in Int /\ x.end \in Int /\ x.refcnt \in Int
                       /\ x.start <= x.end
  BY <1>1, SMTT(30) DEF Whole, Node, Addr
<1> SUFFICES ASSUME NEW x \in nodes', NEW y \in nodes', x.end + 1 = y.start
             PROVE  IF y.start = op'.cur THEN x.refcnt # y.refcnt + op.inc
                    ELSE x.refcnt # y.refcnt
  <2>1. op'.inc = op.inc
    BY StartsLoop
  <2> QED
    BY <2>1 DEF NeighbourInv
<1> DEFINE Goal == IF y.start = op'.cur THEN x.refcnt # y.refcnt + op.inc
                   ELSE x.refcnt # y.refcnt
<1> SUFFICES Goal
  OBVIOUS
<1> HIDE DEF n
<1>8. CASE /\ n.start < op.start
           /\ nodes' = split_range(nodes, n, op.start)
           /\ op' = [op EXCEPT !.cur = [n EXCEPT !.start = op.start].start]
  <2> DEFINE lo == [n EXCEPT !.end = op.start - 1]
             hi == [n EXCEPT !.start = op.start]
  <2>1. /\ lo.start = n.start /\ lo.end = op.start - 1 /\ lo.refcnt = n.refcnt
        /\ hi.start = op.start /\ hi.end = n.end /\ hi.refcnt = n.refcnt
    BY <1>4
  <2>2. nodes' = (nodes \ {n}) \cup {lo, hi} /\ op'.cur = op.start
    BY <1>1, <1>8, <2>1 DEF split_range, Op
  <2> HIDE DEF lo, hi
  <2>3. CASE y.start = op.start
    <3>1. y = hi
      BY <1>1, <2>1, <2>2, <2>3, SameBound
    <3>2. x = lo
      <4>1. x.end = lo.end
        <5>1. x \in Node
          BY <1>1 DEF Whole
        <5>2. x.end \in Int
          BY <5>1, SMTT(30) DEF Node, Addr
        <5> QED
          BY <1>2, <2>1, <2>3, <5>2, SMTT(30)
      <4> QED
        BY <1>1, <2>2, <4>1, SameBound
    <3> QED
      BY <1>2, <1>4, <2>1, <2>2, <2>3, <3>1, <3>2, SMTT(30)
  <2>4. CASE y.start # op.start
    <3>1. y # hi /\ x # lo
      BY <1>2, <2>1, <2>4, SMTT(30)
    <3>2. \E z \in nodes : z.end = x.end /\ z.refcnt = x.refcnt
      BY <1>3, <2>1, <2>2, <3>1
    <3>3. \E z \in nodes : z.start = y.start /\ z.refcnt = y.refcnt
      BY <1>3, <2>1, <2>2, <3>1
    <3> QED
      BY <1>6, <2>2, <2>4, <3>2, <3>3
  <2> QED
    BY <2>3, <2>4
<1>9. CASE prev = {} /\ nodes' = nodes /\ op' = [op EXCEPT !.cur = n.start]
  <2>1. op'.cur = n.start
    BY <1>1, <1>9 DEF Op
  <2>2. CASE y.start = n.start
    <3>1. y = n
      BY <1>1, <1>3, <1>9, <2>2, SameBound
    <3>2. x \in Prev(nodes, n)
      BY <1>1, <1>3, <1>9, <2>2, Before
    <3> QED
      BY <1>9, <2>1, <2>2, <3>1, <3>2
  <2>3. CASE y.start # n.start
    BY <1>6, <1>9, <2>1, <2>3
  <2> QED
    BY <2>2, <2>3
<1>10. CASE \E m \in prev : /\ nodes' = merge_ranges(nodes, n, m)
                            /\ op' = [op EXCEPT !.cur = Merged(n, m).start]
  <2>1. PICK m \in prev : /\ nodes' = merge_ranges(nodes, n, m)
                          /\ op' = [op EXCEPT !.cur = Merged(n, m).start]
    BY <1>10
  <2>2. m \in nodes /\ m.end + 1 = n.start /\ m.refcnt = n.refcnt + op.inc
    BY <1>1, <1>3, Before
  <2> DEFINE k == Merged(n, m)
  <2>3. k.start = m.start /\ k.end = n.end /\ k.refcnt = n.refcnt
    BY <1>4 DEF Merged
  <2>4. nodes' = (nodes \ {n, m}) \cup {k} /\ op'.cur = k.start /\ k \in nodes'
    BY <1>1, <2>1 DEF merge_ranges, Op
  <2> HIDE DEF k, prev
  <2>5. \E z \in nodes : z.end = x.end /\ z.refcnt = x.refcnt
    BY <1>3, <2>3, <2>4
  <2>6. CASE y.start = op'.cur
    <3>1. y = k
      BY <1>1, <2>4, <2>6, SameBound
    <3>2. x.refcnt # m.refcnt
      BY <1>6, <2>2, <2>3, <2>5, <3>1
    <3> QED
      BY <2>2, <2>3, <2>6, <3>1, <3>2
  <2>7. CASE y.start # op'.cur
    <3>1. y \in nodes
      BY <2>4, <2>7
    <3> QED
      BY <1>6, <2>5, <2>7, <3>1
  <2> QED
    BY <2>6, <2>7
<1> QED
  BY <1>5, <1>8, <1>9, <1>10

\* An iteration gives its node a count that differs from that of the node before it.
LEMMA NeighboursAdvance ==
  ASSUME ShapeInv, NeighbourInv, Advance
  PROVE  NeighbourInv'
<1>1. /\ InLoop /\ pc = "loop" /\ pc' = "loop" /\ op.cur <= op.end
      /\ Whole(nodes) /\ op \in Op /\ Cur \in nodes /\ Cur \in Node /\ Cur.start = op.cur
  BY CurNode DEF Advance, InLoop
<1>2. /\ Whole(NodesCut) /\ CurCut \in NodesCut /\ CurCut \in Node
      /\ CurCut.start = op.cur /\ CurCut.refcnt = Cur.refcnt
      /\ CurCut.end = IF Overlaps THEN op.end ELSE Cur.end
      /\ op.cur <= CurCut.end /\ CurCut.end <= op.end
  BY <1>1, CutNode
<1>3. /\ Whole(nodes') /\ op'.cur = CurCut.end + 1 /\ op'.inc = op.inc /\ op'.end = op.end
  BY Advances
<1>4. /\ op.end \in Int /\ op.cur \in Int /\ op.inc \in {1, -1} /\ op.inc \in Int
      /\ CurCut.end \in Int /\ CurCut.refcnt \in Int /\ Cur.end \in Int /\ Cur.refcnt \in Int
      /\ Cur = [start |-> Cur.start, end |-> Cur.end, refcnt |-> Cur.refcnt]
  BY <1>1, <1>2, SMTT(30) DEF Op, Node, Addr
<1> DEFINE new == [CurCut EXCEPT !.refcnt = @ + op.inc]
           hi == [Cur EXCEPT !.start = op.end + 1]
<1>5. /\ new.start = op.cur /\ new.end = CurCut.end /\ new.refcnt = Cur.refcnt + op.inc
      /\ hi.start = op.end + 1 /\ hi.end = Cur.end /\ hi.refcnt = Cur.refcnt
  BY <1>2, <1>4 DEF Node
<1>6. /\ new \in nodes'
      /\ \A x \in nodes' : \/ x = new
                           \/ x \in nodes /\ x # Cur
                           \/ Overlaps /\ x = hi
  <2>1. nodes' = (NodesCut \ {CurCut}) \cup {new}
    BY DEF Advance
  <2>2. CASE Overlaps
    <3>1. op.end + 1 - 1 = op.end /\ (op.end + 1) - 1 = op.end
      BY <1>4, SMTT(30)
    <3>2. NodesCut = (nodes \ {Cur}) \cup {CurCut, hi}
      BY <2>2, <3>1 DEF NodesCut, CurCut, split_range
    <3> QED
      BY <2>1, <2>2, <3>2
  <2>3. CASE ~Overlaps
    BY <2>1, <2>3 DEF NodesCut, CurCut
  <2> QED
    BY <2>2, <2>3
<1> HIDE DEF new, hi
<1>7. \A x, y \in nodes : x.end + 1 = y.start =>
        IF y.start = op.cur THEN x.refcnt # y.refcnt + op.inc ELSE x.refcnt # y.refcnt
  BY <1>1 DEF NeighbourInv
<1> SUFFICES ASSUME NEW x \in nodes', NEW y \in nodes', x.end + 1 = y.start
             PROVE  IF y.start = op'.cur THEN op'.cur <= op.end => x.refcnt # y.refcnt + op.inc
                    ELSE x.refcnt # y.refcnt
  BY <1>1, <1>3 DEF NeighbourInv
<1> DEFINE Goal == IF y.start = op'.cur
                   THEN op'.cur <= op.end => x.refcnt # y.refcnt + op.inc
                   ELSE x.refcnt # y.refcnt
<1> SUFFICES Goal
  OBVIOUS
<1>8. /\ x \in Node /\ y \in Node /\ x.start <= x.end /\ y.start <= y.end
  BY <1>3 DEF Whole
<1>9. /\ x.start \in Int /\ x.end \in Int /\ x.refcnt \in Int
      /\ y.start \in Int /\ y.end \in Int /\ y.refcnt \in Int
  BY <1>8, SMTT(30) DEF Node, Addr
<1>10. CASE y = new
  <2>1. x \in nodes
    <3>1. x # new
      BY <1>8, <1>9, <1>10, SMTT(30)
    <3>2. x # hi
      BY <1>1, <1>2, <1>4, <1>5, <1>9, <1>10, SMTT(30) DEF Overlaps
    <3> QED
      BY <1>6, <3>1, <3>2
  <2>2. x.refcnt # Cur.refcnt + op.inc
    BY <1>1, <1>5, <1>7, <1>10, <2>1
  <2>3. y.start # op'.cur
    BY <1>2, <1>3, <1>4, <1>5, <1>10, SMTT(30)
  <2> QED
    BY <1>5, <1>10, <2>2, <2>3
<1>11. CASE x = new
  <2>1. y.start = op'.cur
    BY <1>3, <1>5, <1>11
  <2>2. ASSUME op'.cur <= op.end PROVE x.refcnt # y.refcnt + op.inc
    <3>1. ~Overlaps
      BY <1>2, <1>3, <1>4, <2>2, SMTT(30)
    <3>2. y \in nodes
      <4>1. y # new
        BY <1>8, <1>9, <1>11, SMTT(30)
      <4> QED
        BY <1>6, <3>1, <4>1
    <3>3. Cur.end + 1 = y.start /\ y.start # op.cur
      BY <1>2, <1>3, <1>4, <2>1, <3>1, SMTT(30)
    <3>4. Cur.refcnt # y.refcnt
      BY <1>1, <1>7, <3>2, <3>3
    <3> QED
      BY <1>4, <1>5, <1>9, <1>11, <3>4, SMTT(30)
  <2> QED
    BY <2>1, <2>2
<1>12. CASE x # new /\ y # new
  <2>1. y.start # op'.cur
    <3>1. ASSUME y.start = op'.cur PROVE FALSE
      <4>1. x.end = new.end
        BY <1>3, <1>4, <1>5, <1>9, <3>1, SMTT(30)
      <4> QED
        BY <1>3, <1>6, <1>12, <4>1, SameBound
    <3> QED
      BY <3>1
  <2>2. y \in nodes /\ y # Cur
    <3>1. Overlaps => hi.start = op'.cur
      BY <1>2, <1>3, <1>5
    <3> QED
      BY <1>6, <1>12, <2>1, <3>1
  <2>3. y.start # op.cur
    BY <1>1, <2>2, SameBound
  <2>4. \E z \in nodes : z.end = x.end /\ z.refcnt = x.refcnt
    BY <1>1, <1>5, <1>6, <1>12
  <2> QED
    BY <1>7, <2>1, <2>2, <2>3, <2>4
<1> QED
  BY <1>10, <1>11, <1>12

(* The pairs of a node of A and the neighbour below it with its count, among *)
(* which the end of the loop finds the two nodes it joins.                   *)
Joinable(A, ns) ==
  {p \in A \X ns : p[2] \in Prev(ns, p[1]) /\ p[1].refcnt = p[2].refcnt}

(* What membership in Joinable says of the two parts of a pair. *)
LEMMA JoinableParts ==
  ASSUME NEW A, NEW ns, NEW p \in Joinable(A, ns)
  PROVE  /\ p[1] \in A /\ p[2] \in ns
         /\ p[2] \in Prev(ns, p[1]) /\ p[1].refcnt = p[2].refcnt
<1>1. p \in A \X ns /\ p[2] \in Prev(ns, p[1]) /\ p[1].refcnt = p[2].refcnt
  BY DEF Joinable
<1>2. p[1] \in A /\ p[2] \in ns
  BY <1>1, SMTT(30)
<1> QED
  BY <1>1, <1>2

\* The end of the loop merges the node after the range if it does not differ.
LEMMA NeighboursEnd ==
  ASSUME ShapeInv, NeighbourInv, LoopDone
  PROVE  NeighbourInv'
<1> DEFINE after == {n \in nodes : n.start = op.cur}
           pairs == {p \in after \X nodes :
                       p[2] \in Prev(nodes, p[1]) /\ p[1].refcnt = p[2].refcnt}
<1>1. /\ pc = "loop"
      /\ nodes' = IF pairs = {} THEN nodes
                  ELSE merge_ranges(nodes, Only(pairs)[1], Only(pairs)[2])
  BY SMTT(30) DEF LoopDone
<1>2. Whole(nodes) /\ pc' = "idle" /\ Whole(nodes')
  BY <1>1, EndsLoop, Returns DEF ShapeInv
<1>3. \A x, y \in nodes : x.end + 1 = y.start /\ y.start # op.cur => x.refcnt # y.refcnt
  BY <1>1 DEF NeighbourInv
<1> SUFFICES ASSUME NEW x \in nodes', NEW y \in nodes', x.end + 1 = y.start
             PROVE  x.refcnt # y.refcnt
  BY <1>2 DEF NeighbourInv
<1>4. CASE pairs = {}
  <2>1. nodes' = nodes
    BY <1>1, <1>4
  <2>2. CASE y.start = op.cur
    <3>1. x \in Prev(nodes, y)
      BY <1>2, <2>1, Before
    <3>2. <<y, x>> \in after \X nodes
      BY <2>1, <2>2
    <3> QED
      BY <1>4, <3>1, <3>2, SMTT(30)
  <2>3. CASE y.start # op.cur
    BY <1>3, <2>1, <2>3
  <2> QED
    BY <2>2, <2>3
<1>5. CASE pairs # {}
  <2>1. Only(pairs) \in pairs
    BY <1>5, OnlyIn, SMTT(30)
  <2> DEFINE n == Only(pairs)[1]
             m == Only(pairs)[2]
             k == Merged(n, m)
  <2>2. n \in nodes /\ m \in nodes /\ m \in Prev(nodes, n) /\ m.refcnt = n.refcnt /\ n.start = op.cur
    <3>1. Only(pairs) \in Joinable(after, nodes)
      BY <2>1 DEF Joinable
    <3>2. n \in after /\ m \in nodes /\ m \in Prev(nodes, n) /\ n.refcnt = m.refcnt
      <4> HIDE DEF pairs, after
      <4> QED
        BY <3>1, JoinableParts
    <3> QED
      BY <3>2
  <2>3. nodes' = (nodes \ {n, m}) \cup {k}
    BY <1>1, <1>5 DEF merge_ranges
  <2> HIDE DEF n, m, pairs, after
  <2>4. m.end + 1 = n.start
    BY <1>2, <2>2, Before
  <2>5. n \in Node /\ m \in Node /\ m.start <= m.end
    BY <1>2, <2>2 DEF Whole
  <2>6. k.start = m.start /\ k.end = n.end /\ k.refcnt = n.refcnt /\ m.start # op.cur
    <3>1. m.start \in Int /\ m.end \in Int
      BY <2>5, SMTT(30) DEF Node, Addr
    <3> QED
      BY <2>2, <2>4, <2>5, <3>1, SMTT(30) DEF Merged, Node
  <2> HIDE DEF k
  <2>7. \E z \in nodes : z.end = x.end /\ z.refcnt = x.refcnt
    BY <2>2, <2>3, <2>6
  <2>8. \E z \in nodes : z.start = y.start /\ z.refcnt = y.refcnt /\ z.start # op.cur
    <3>1. CASE y = k
      BY <2>2, <2>6, <3>1
    <3>2. CASE y # k
      <4>1. y \in nodes /\ y # n
        BY <2>3, <3>2
      <4>2. y.start # op.cur
        BY <1>2, <2>2, <4>1, SameBound
      <4> QED
        BY <4>1, <4>2
    <3> QED
      BY <3>1, <3>2
  <2> QED
    BY <1>3, <2>7, <2>8
<1> QED
  BY <1>4, <1>5

\* Every step that does not fail keeps neighbours apart.
LEMMA NeighbourStep ==
  ASSUME ShapeInv, root /\ faults = [malloc |-> 0, madvise |-> FALSE] => NeighbourInv,
         [Next]_vars
  PROVE  root' /\ faults' = [malloc |-> 0, madvise |-> FALSE] => NeighbourInv'
<1> SUFFICES ASSUME root', faults' = [malloc |-> 0, madvise |-> FALSE]
             PROVE  NeighbourInv'
  OBVIOUS
<1>0. /\ faults \in [malloc : 0 .. MaxNoMem, madvise : BOOLEAN] /\ MaxNoMem \in Nat
      /\ faults'.malloc = 0 /\ faults'.madvise = FALSE
  BY RangeAssumption DEF ShapeInv, TypeOK
<1>1. ASSUME NoMem PROVE FALSE
  BY <1>0, <1>1, SMTT(30) DEF NoMem
<1>2. CASE ibv_fork_init
  <2>1. nodes' = {[start |-> 0, end |-> TOP, refcnt |-> 0]} /\ TOP \in Nat
    BY <1>2, RangeAssumption DEF ibv_fork_init
  <2>2. \A x, y \in nodes' : x.end + 1 # y.start
    BY <2>1, SMTT(30)
  <2> QED
    BY <2>2 DEF NeighbourInv
<1>3. ASSUME NEW rg \in Regions, NEW inc \in {1, -1},
             CallUntracked(rg, inc) \/ ibv_madvise_range(rg, inc)
      PROVE  NeighbourInv'
  <2>1. UNCHANGED <<root, nodes, faults>> /\ pc = "idle" /\ pc' # "loop"
    BY <1>3 DEF CallUntracked, ibv_madvise_range, MayCall
  <2> QED
    BY <2>1, SMTT(30) DEF NeighbourInv
<1>4. CASE get_start_node
  <2>1. pc' = "loop"
    BY <1>1, <1>4 DEF get_start_node
  <2>2. root /\ UNCHANGED faults
    BY <1>4, <2>1, StartsLoop
  <2> QED
    BY <1>4, <2>1, <2>2, NeighboursFind
<1>5. CASE SplitFails
  BY <1>1, <1>5 DEF SplitFails
<1>6. CASE Advance
  BY <1>6, NeighboursAdvance DEF Advance
<1>7. CASE MadviseFails
  <2>1. faults' = [faults EXCEPT !.madvise = TRUE]
    BY <1>7 DEF MadviseFails
  <2> QED
    BY <1>0, <2>1
<1>8. CASE UndoFails
  <2>1. faults' = [faults EXCEPT !.malloc = @ + 1, !.madvise = TRUE]
    BY <1>8 DEF UndoFails
  <2> QED
    BY <1>0, <2>1
<1>9. CASE LoopDone
  <2>1. root /\ UNCHANGED faults
    BY <1>9, EndsLoop
  <2> QED
    BY <1>9, <2>1, NeighboursEnd
<1>10. CASE UNCHANGED vars
  BY <1>10 DEF vars, NeighbourInv
<1> QED
  BY <1>2, <1>3, <1>4, <1>5, <1>6, <1>7, <1>8, <1>9, <1>10 DEF Next

-----------------------------------------------------------------------------
(* The theorems.                                                            *)

\* RInv is inductive.
THEOREM RangesStay == Spec => []RInv
<1>1. Init => RInv
  <2> SUFFICES ASSUME Init PROVE ShapeInv
    BY DEF Init, RInv
  <2>1. held \in [Regions -> 0 .. MaxHeld] /\ \A rg \in Regions : held[rg] = 0
    BY RangeAssumption, SMTT(30) DEF Init
  <2>2. faults \in [malloc : 0 .. MaxNoMem, madvise : BOOLEAN]
    BY RangeAssumption, SMTT(30) DEF Init
  <2> QED
    BY <2>1, <2>2 DEF Init, ShapeInv, TypeOK
<1>2. RInv /\ [Next]_vars => RInv'
  BY ShapeStep, CountStep, NeighbourStep DEF RInv
<1> QED
  BY <1>1, <1>2, PTL DEF Spec

\* For all buffers and page sizes: whatever fails in a call of ibv_madvise_range, the
\* nodes of mm_root partition the address space into ranges of whole pages.
THEOREM AlwaysPartition == Spec => []Partition
<1>1. RInv => Partition
  <2> SUFFICES ASSUME RInv PROVE Partition
    OBVIOUS
  <2>1. TypeOK /\ (root => Whole(nodes) /\ Aligned(nodes))
    BY DEF RInv, ShapeInv
  <2>2. ASSUME root, NEW a \in Addr
        PROVE  Cardinality({n \in nodes : n.start <= a /\ a <= n.end}) = 1
    <3>1. {n \in nodes : n.start <= a /\ a <= n.end} = {FindStart(nodes, a)}
      BY <2>1, <2>2, Finds, SMTT(30)
    <3> QED
      BY <3>1, FS_Singleton
  <2> QED
    BY <2>1, <2>2 DEF Partition, Aligned
<1> QED
  BY <1>1, RangesStay, PTL

\* Registrations that succeed and are released leave no trace: the count of a page is
\* the number of registrations that cover it, and equal ranges are merged.
THEOREM NoTraceLeft == Spec => []LeavesNoTrace
<1>1. RInv => LeavesNoTrace
  <2> SUFFICES ASSUME RInv, Unfailed PROVE LeavesNoTrace
    BY DEF LeavesNoTrace, CountsExact, Canonical
  <2>1. ShapeInv /\ root /\ pc = "idle" /\ faults.malloc = 0 /\ ~faults.madvise
        /\ CountInv /\ NeighbourInv /\ Whole(nodes)
    BY DEF RInv, Unfailed, ShapeInv
  <2>2. ASSUME NEW a \in Addr PROVE Refcnt(nodes, a) = HeldAt(a)
    <3>1. Count(a) = HeldAt(a) + Owed(a)
      BY <2>1 DEF CountInv
    <3>2. Owed(a) = 0 /\ HeldAt(a) \in Nat /\ Refcnt(nodes, a) \in Int
      BY <2>1, CountTypes DEF Owed
    <3>3. Count(a) = Refcnt(nodes, a)
      BY <2>1, <3>2, SMTT(30) DEF Count
    <3> QED
      BY <3>1, <3>2, <3>3, SMTT(30)
  <2>3. ASSUME NEW n \in nodes, NEW m \in NextNode(nodes, n) PROVE n.refcnt # m.refcnt
    <3>1. m \in nodes /\ n.end + 1 = m.start
      BY <2>1, After
    <3> QED
      BY <2>1, <3>1 DEF NeighbourInv
  <2> QED
    BY <2>2, <2>3 DEF LeavesNoTrace, CountsExact, Canonical
<1> QED
  BY <1>1, RangesStay, PTL

\* As long as malloc does not fail, a page with a registration has a count, and of the
\* pages that no failing call of madvise has left advised the wrong way the kernel keeps
\* exactly those with a count from a forked child, whatever calls of madvise fail.
THEOREM AlwaysKeptFromChild == Spec => []KeepsFromChild
<1>1. RInv => KeepsFromChild
  <2> SUFFICES ASSUME RInv, root, pc = "idle", faults.malloc = 0 PROVE KeepsFromChild
    BY DEF KeepsFromChild, CountsCover, AlwaysCovered, KernelAgrees
  <2>1. ShapeInv /\ CountInv
    BY DEF RInv
  <2>2. ASSUME NEW a \in Addr
        PROVE  Count(a) = Refcnt(nodes, a) /\ Refcnt(nodes, a) >= HeldAt(a)
    <3>1. Count(a) >= HeldAt(a) + Owed(a)
      BY <2>1 DEF CountInv
    <3>2. Owed(a) = 0 /\ HeldAt(a) \in Nat /\ Refcnt(nodes, a) \in Int
      BY <2>1, CountTypes DEF Owed
    <3>3. Count(a) = Refcnt(nodes, a)
      BY <3>2, SMTT(30) DEF Count
    <3> QED
      BY <3>1, <3>2, <3>3, SMTT(30)
  <2>3. \A a \in Addr \ torn : a \in advised <=> Refcnt(nodes, a) > 0
    BY <2>1, <2>2 DEF CountInv
  <2> QED
    BY <2>2, <2>3 DEF KeepsFromChild, CountsCover, AlwaysCovered, KernelAgrees
<1> QED
  BY <1>1, RangesStay, PTL

\* A registration that returns an error because madvise failed has restored the count
\* of every page, as long as malloc and the rollback's own madvise do not fail.
THEOREM FailedRegistrationRollsBack == Spec => RegistrationRollsBack
<1> DEFINE Restores ==
      /\ pc # "idle" /\ pc' = "idle" /\ ret' = -1 /\ faults'.malloc = 0
      /\ IF op.rolling_back THEN op.inc = -1 /\ op.cur > op.end ELSE op.inc = 1
      => \A a \in Addr : Refcnt(nodes', a) = before[a]
<1>1. RInv /\ [Next]_vars => [Restores]_vars
  <2> SUFFICES ASSUME RInv, [Next]_vars,
                      pc # "idle", pc' = "idle", ret' = -1, faults'.malloc = 0,
                      IF op.rolling_back THEN op.inc = -1 /\ op.cur > op.end ELSE op.inc = 1,
                      NEW a \in Addr
               PROVE  Refcnt(nodes', a) = before[a]
    BY SMTT(30)
  <2>0. /\ ShapeInv /\ root /\ CallInv /\ op \in Op
        /\ faults \in [malloc : 0 .. MaxNoMem, madvise : BOOLEAN] /\ MaxNoMem \in Nat
    BY RangeAssumption DEF RInv, ShapeInv, TypeOK, CallInv
  <2>1. op.start \in Int /\ op.end \in Int /\ op.cur \in Int /\ a \in Int /\ op.inc \in {1, -1}
    BY <2>0, SMTT(30) DEF Op, Addr
  <2>2. before[a] \in Int /\ Count(a) \in Int
    BY <2>0, CountTypes DEF CallInv
  <2>3. \/ NoMem \/ MadviseFails \/ LoopDone
        \/ MallocFails /\ faults' = [faults EXCEPT !.malloc = @ + 1, !.madvise = TRUE]
    BY DEF Next, vars, ibv_fork_init, CallUntracked, ibv_madvise_range, MayCall, get_start_node,
           SplitFails, Advance, UndoFails, InLoop
  <2>4. CASE NoMem
    BY <2>0, <2>4, SMTT(30) DEF NoMem
  <2>5. CASE MallocFails /\ faults' = [faults EXCEPT !.malloc = @ + 1, !.madvise = TRUE]
    BY <2>0, <2>5, SMTT(30)
  <2>6. CASE MadviseFails
    <3>1. InLoop /\ Crosses /\ pc = "loop" /\ op.cur <= op.end
          /\ faults' = [faults EXCEPT !.madvise = TRUE]
      BY <2>6 DEF MadviseFails, InLoop
    <3>2. faults.malloc = 0
      BY <2>0, <3>1
    <3>3. CountInv
      BY <2>0, <3>2 DEF RInv
    <3>4. ~op.rolling_back /\ op.inc = 1
      BY <2>1, <3>1, SMTT(30)
    <3>5. Refcnt(nodes', a) = Count(a)
          /\ ((\A m \in nodes : m.end + 1 = op.cur => m.refcnt # Cur.refcnt)
                => op.cur <= op.start)
      BY <2>0, <2>6, <3>4, GivesUp
    <3>6. op.cur <= op.start
      <4>1. CASE op.start < op.cur
        BY <2>0, <3>1, <3>3, <3>4, <3>5, <4>1, DoneIsCounted
      <4> QED
        BY <2>1, <4>1, SMTT(30)
    <3>7. Owed(a) = 0
      BY <2>1, <3>1, <3>4, <3>6, SMTT(30) DEF Owed
    <3>8. Count(a) = before[a] + Owed(a)
      BY <3>1, <3>3, <3>4, SMTT(30) DEF CountInv
    <3> QED
      BY <2>2, <3>5, <3>7, <3>8, SMTT(30)
  <2>7. CASE LoopDone
    <3>1. /\ Return(0) /\ UNCHANGED faults /\ pc = "loop" /\ op.cur = op.end + 1
          /\ Refcnt(nodes', a) = Count(a)
      BY <2>0, <2>7, EndsLoop
    <3>2. op.rolling_back /\ op.inc = -1
      BY <3>1, SMTT(30) DEF Return
    <3>3. CountInv
      BY <2>0, <3>1 DEF RInv
    <3>4. Owed(a) = 0
      BY <2>1, <3>1, <3>2, SMTT(30) DEF Owed
    <3>5. Count(a) = before[a] + Owed(a)
      BY <3>1, <3>2, <3>3 DEF CountInv
    <3> QED
      BY <2>2, <3>1, <3>4, <3>5, SMTT(30)
  <2> QED
    BY <2>3, <2>4, <2>5, <2>6, <2>7
<1> QED
  BY <1>1, RangesStay, PTL DEF Spec, RegistrationRollsBack
=============================================================================
