----------------------------- MODULE ForkRange -----------------------------
(***************************************************************************)
(* The fork protection of libibverbs/memory.c: ibv_dontfork_range and      *)
(* ibv_dofork_range keep a reference count for every page of the address   *)
(* space and madvise a page when its count leaves or reaches zero.  The    *)
(* counts are kept for ranges of pages, which calls split and merge.       *)
(*                                                                         *)
(* The red-black tree that holds the ranges is a set of nodes here (its    *)
(* own algorithm is in module MemTree).  A call runs under mm_mutex; its   *)
(* steps are the calls of malloc and madvise, each of which may fail.      *)
(***************************************************************************)
EXTENDS Integers, FiniteSets

CONSTANTS
  PAGE,     \* page_size
  TOP,      \* UINTPTR_MAX
  Regions,  \* the buffers <<base, size>> that callers register
  MaxHeld,  \* bound on the registrations held at a time
  CanFail,  \* which of "madvise" and "rollback" (a madvise while rolling back)
            \* may fail
  MaxNoMem  \* bound on the calls of malloc that fail

ASSUME RangeAssumption ==
  /\ PAGE \in Nat \ {0}
  /\ TOP \in Nat /\ (TOP + 1) % PAGE = 0
  /\ Regions \subseteq Nat \X Nat
  /\ \A r \in Regions : r[1] + r[2] <= TOP + 1 - PAGE
  /\ MaxHeld \in Nat
  /\ CanFail \subseteq {"madvise", "rollback"}
  /\ MaxNoMem \in Nat

VARIABLES
  root,      \* mm_root # NULL
  too_late,  \* too_late
  nodes,     \* the nodes of the tree
  advised,   \* the addresses the kernel does not copy to a forked child
  torn,      \* history: those where a madvise that failed has had its effect,
             \* since the last one that succeeded
  held,      \* history: the callers' registrations, per buffer
  pc,        \* where the call that holds mm_mutex is
  op,        \* its local variables
  faults,    \* history: how often malloc has failed, and whether madvise has
  ret,       \* what the last call returned
  before     \* history: the counts when it started

vars == <<root, too_late, nodes, advised, torn, held, pc, op, faults, ret, before>>

Addr == 0 .. TOP

Node == [start : Addr, end : Addr, refcnt : Int]

\* The locals of ibv_madvise_range: cur is the start of "node" (TOP + 1 when it
\* is NULL), inc stands for the advice too (1 is MADV_DONTFORK).
Op == [rg : Regions, inc : {1, -1}, start : Addr, end : Addr, cur : 0 .. TOP + 1,
       rolling_back : BOOLEAN]

TypeOK ==
  /\ root \in BOOLEAN /\ too_late \in BOOLEAN
  /\ nodes \in SUBSET Node
  /\ advised \subseteq Addr /\ torn \subseteq Addr
  /\ held \in [Regions -> 0 .. MaxHeld]
  /\ pc \in {"idle", "find", "loop"}
  /\ pc # "idle" => op \in Op
  /\ ret \in {0, -1}
  /\ faults \in [malloc : 0 .. MaxNoMem, madvise : BOOLEAN]

-----------------------------------------------------------------------------
(* The ranges.                                                              *)

\* The element of a set that has one.
Only(S) == CHOOSE x \in S : TRUE

\* start and end of ibv_madvise_range.
RoundDown(a) == a - (a % PAGE)
First(rg) == RoundDown(rg[1])
Last(rg) == RoundDown(rg[1] + rg[2] + PAGE - 1) - 1

\* __mm_find_start
FindStart(ns, a) == CHOOSE n \in ns : n.start <= a /\ a <= n.end

\* __mm_prev and __mm_next, as the set of the one neighbour or of none.
Prev(ns, n) ==
  {m \in ns : /\ m.start < n.start
              /\ \A k \in ns : k.start < n.start => k.start <= m.start}
NextNode(ns, n) ==
  {m \in ns : /\ m.start > n.start
              /\ \A k \in ns : k.start > n.start => k.start >= m.start}

NodeAt(ns, a) == CHOOSE n \in ns : n.start = a

\* Mutant of split_range: the low part keeps its end.
SplitKeepsEnd(ns, n, cut_line) == ns \cup {[n EXCEPT !.start = cut_line]}

split_range(ns, n, cut_line) ==
  (ns \ {n}) \cup {[n EXCEPT !.end = cut_line - 1], [n EXCEPT !.start = cut_line]}

Merged(n, prev) == [n EXCEPT !.start = prev.start]
merge_ranges(ns, n, prev) == (ns \ {n, prev}) \cup {Merged(n, prev)}

\* The number of registrations the tree counts for an address.
Refcnt(ns, a) == FindStart(ns, a).refcnt

\* Mutant of undo_node: the low part does not get its count back.
UndoKeepsCount(ns, n, start, inc) ==
  LET low  == [n EXCEPT !.end = start - 1]
      node == IF start > n.start THEN [n EXCEPT !.start = start] ELSE n
      ns1  == IF start > n.start THEN (ns \ {n}) \cup {low, node} ELSE ns
  IN  [nodes |-> ns1, node |-> node]

\* undo_node when it needs no malloc, or has it: the nodes and the node it
\* returns, which has been merged with equal neighbours.
undo_node(ns, n, start, inc) ==
  LET low  == [n EXCEPT !.end = start - 1, !.refcnt = @ + inc]
      node == IF start > n.start THEN [n EXCEPT !.start = start] ELSE n
      ns1  == IF start > n.start THEN (ns \ {n}) \cup {low, node} ELSE ns
      p    == {m \in Prev(ns1, node) : m.refcnt = node.refcnt}
      ns2  == IF p = {} THEN ns1 ELSE merge_ranges(ns1, node, Only(p))
      nd2  == IF p = {} THEN node ELSE Merged(node, Only(p))
      q    == {m \in NextNode(ns2, nd2) : m.refcnt = nd2.refcnt}
  IN  [nodes |-> IF q = {} THEN ns2 ELSE merge_ranges(ns2, Only(q), nd2),
       node  |-> IF q = {} THEN nd2 ELSE Merged(Only(q), nd2)]

-----------------------------------------------------------------------------
(* The actions.                                                             *)

Init ==
  /\ root = FALSE /\ too_late = FALSE
  /\ nodes = {} /\ advised = {} /\ torn = {}
  /\ held = [r \in Regions |-> 0]
  /\ pc = "idle" /\ op = << >> /\ ret = 0 /\ before = << >>
  /\ faults = [malloc |-> 0, madvise |-> FALSE]

\* ibv_fork_init; when it fails (no memory, no madvise) it changes nothing.
ibv_fork_init ==
  /\ pc = "idle" /\ ~root /\ ~too_late
  /\ root' = TRUE
  /\ nodes' = {[start |-> 0, end |-> TOP, refcnt |-> 0]}
  /\ UNCHANGED <<too_late, advised, torn, held, pc, op, faults, ret, before>>

\* The callers (ibv_reg_mr, ibv_dereg_mr) hold a buffer after a successful
\* ibv_dontfork_range until they call ibv_dofork_range, whose result they ignore.
Holds(rg, inc) == held' = [held EXCEPT ![rg] = @ + inc]

\* The registrations, each as its buffer and a number.
Registrations == {x \in Regions \X (1 .. MaxHeld) : x[2] <= held[x[1]]}

MayCall(rg, inc) ==
  /\ pc = "idle"
  /\ inc = 1 => Cardinality(Registrations) < MaxHeld
  /\ inc = -1 => held[rg] > 0

\* Mutant of CallUntracked: too_late is not set.
CallUnnoticed(rg, inc) ==
  /\ MayCall(rg, inc)
  /\ ~root \/ rg[1] = 0 \/ rg[2] = 0
  /\ Holds(rg, inc) /\ ret' = 0
  /\ UNCHANGED <<root, too_late, nodes, advised, torn, pc, op, faults, before>>

\* Before ibv_fork_init, and for a null or empty buffer, a call only succeeds.
CallUntracked(rg, inc) ==
  /\ MayCall(rg, inc)
  /\ ~root \/ rg[1] = 0 \/ rg[2] = 0
  /\ too_late' = IF root THEN too_late ELSE TRUE
  /\ Holds(rg, inc) /\ ret' = 0
  /\ UNCHANGED <<root, nodes, advised, torn, pc, op, faults, before>>

ibv_madvise_range(rg, inc) ==
  /\ MayCall(rg, inc)
  /\ root /\ rg[1] # 0 /\ rg[2] # 0
  /\ pc' = "find"
  /\ op' = [rg |-> rg, inc |-> inc, start |-> First(rg), end |-> Last(rg),
            cur |-> 0, rolling_back |-> FALSE]
  /\ before' = [a \in Addr |-> Refcnt(nodes, a)]
  /\ IF inc = -1 THEN Holds(rg, -1) ELSE UNCHANGED held
  /\ UNCHANGED <<root, too_late, nodes, advised, torn, faults, ret>>

\* The end of the call, with r in ret; a call that rolled back fails.
Return(r) ==
  /\ pc' = "idle" /\ op' = << >> /\ before' = << >>
  /\ ret' = IF op.rolling_back THEN -1 ELSE r
  /\ IF ret' = 0 /\ op.inc = 1 THEN Holds(op.rg, 1) ELSE UNCHANGED held
  /\ UNCHANGED <<root, too_late>>

\* malloc returns NULL.
MallocFails == faults.malloc < MaxNoMem
NoMem == MallocFails /\ faults' = [faults EXCEPT !.malloc = @ + 1]

\* get_start_node
get_start_node ==
  LET n    == FindStart(nodes, op.start)
      prev == {m \in Prev(nodes, n) : m.refcnt = n.refcnt + op.inc}
      To(ns, node) == /\ nodes' = ns /\ pc' = "loop"
                      /\ op' = [op EXCEPT !.cur = node.start]
                      /\ UNCHANGED <<root, too_late, advised, torn, held, faults, ret, before>>
  IN
  /\ pc = "find"
  /\ \/ /\ n.start < op.start
        /\ To(split_range(nodes, n, op.start), [n EXCEPT !.start = op.start])
     \/ /\ n.start < op.start /\ NoMem
        /\ Return(-1) /\ UNCHANGED <<nodes, advised, torn>>
     \/ /\ n.start >= op.start /\ prev = {}
        /\ To(nodes, n)
     \/ /\ n.start >= op.start
        /\ \E m \in prev : To(merge_ranges(nodes, n, m), Merged(n, m))

\* The node of an iteration, cut off at the end of the range, and the nodes
\* after the cut.
InLoop == pc = "loop" /\ op.cur <= op.end
Cur == NodeAt(nodes, op.cur)
Overlaps == Cur.end > op.end
CurCut == IF Overlaps THEN [Cur EXCEPT !.end = op.end] ELSE Cur
NodesCut == IF Overlaps THEN split_range(nodes, Cur, op.end + 1) ELSE nodes

\* Mutant of Crosses: madvise when a count becomes zero is called one too early.
CrossesEarly == (op.inc = -1 /\ Cur.refcnt <= 2) \/ (op.inc = 1 /\ Cur.refcnt = 0)

\* The count leaves or reaches zero; madvise is called from here on.
Crosses == (op.inc = -1 /\ Cur.refcnt = 1) \/ (op.inc = 1 /\ Cur.refcnt = 0)
From == IF op.start > Cur.start THEN op.start ELSE Cur.start

\* madvise has its effect on some addresses.
Advise(as) == advised' = IF op.inc = 1 THEN advised \cup as ELSE advised \ as

\* madvise fails.  The kernel goes through the range and does not take back what
\* it has done: any of the pages may have been advised, and the code does not
\* roll back this part of the range.
AdviseFails ==
  \E ps \in SUBSET {p \in From .. CurCut.end : p % PAGE = 0} :
    LET part == {a \in From .. CurCut.end : RoundDown(a) \in ps} IN
    Advise(part) /\ torn' = torn \cup part

SplitFails ==
  /\ InLoop /\ Overlaps /\ NoMem
  /\ Return(-1) /\ UNCHANGED <<nodes, advised, torn>>

Advance ==
  /\ InLoop
  /\ nodes' = (NodesCut \ {CurCut}) \cup {[CurCut EXCEPT !.refcnt = @ + op.inc]}
  /\ IF Crosses THEN Advise(From .. CurCut.end) /\ torn' = torn \ (From .. CurCut.end)
     ELSE UNCHANGED <<advised, torn>>
  /\ op' = [op EXCEPT !.cur = CurCut.end + 1]
  /\ UNCHANGED <<root, too_late, held, pc, faults, ret, before>>

\* madvise fails: undo_node, then roll back the part of the range before it.
MadviseFails ==
  LET u    == undo_node(NodesCut, CurCut, op.start, op.inc)
      prev == {m \in Prev(u.nodes, u.node) : op.start <= m.end} IN
  /\ InLoop /\ Crosses
  /\ (IF op.rolling_back THEN "rollback" ELSE "madvise") \in CanFail
  /\ nodes' = u.nodes /\ AdviseFails
  /\ faults' = [faults EXCEPT !.madvise = TRUE]
  /\ \/ /\ op.rolling_back \/ prev = {}
        /\ Return(-1)
     \/ /\ ~op.rolling_back
        /\ \E m \in prev :
             op' = [op EXCEPT !.rolling_back = TRUE, !.inc = -@, !.end = m.end]
        /\ pc' = "find"
        /\ UNCHANGED <<root, too_late, held, ret, before>>

\* madvise fails, and so does the malloc of undo_node.
UndoFails ==
  /\ InLoop /\ Crosses /\ op.start > Cur.start
  /\ (IF op.rolling_back THEN "rollback" ELSE "madvise") \in CanFail
  /\ MallocFails
  /\ faults' = [faults EXCEPT !.malloc = @ + 1, !.madvise = TRUE]
  /\ nodes' = NodesCut /\ AdviseFails
  /\ Return(-1)

\* The loop is over: merge the node after the range with the one before it.
LoopDone ==
  LET after == {n \in nodes : n.start = op.cur}
      pairs == {p \in after \X nodes :
                  p[2] \in Prev(nodes, p[1]) /\ p[1].refcnt = p[2].refcnt} IN
  /\ pc = "loop" /\ op.cur > op.end
  /\ nodes' = IF pairs = {} THEN nodes
              ELSE LET p == Only(pairs) IN merge_ranges(nodes, p[1], p[2])
  /\ UNCHANGED <<advised, torn, faults>>
  /\ Return(0)

Next ==
  \/ ibv_fork_init
  \/ \E rg \in Regions, inc \in {1, -1} :
       CallUntracked(rg, inc) \/ ibv_madvise_range(rg, inc)
  \/ get_start_node
  \/ SplitFails \/ Advance \/ MadviseFails \/ UndoFails \/ LoopDone

Spec == Init /\ [][Next]_vars

-----------------------------------------------------------------------------
(* Properties.                                                              *)

\* The nodes always partition the address space into ranges of whole pages, in
\* the middle of a call and after every failure too; every variable has its type.
Partition ==
  /\ TypeOK
  /\ root =>
       /\ \A a \in Addr : Cardinality({n \in nodes : n.start <= a /\ a <= n.end}) = 1
       /\ \A n \in nodes : n.start % PAGE = 0 /\ (n.end + 1) % PAGE = 0

\* The registrations held that cover an address.
Covers(rg, a) ==
  rg[1] # 0 /\ rg[2] # 0 /\ a \in First(rg) .. Last(rg)
HeldAt(a) == Cardinality({x \in Registrations : Covers(x[1], a)})

\* Between calls, with nothing that has failed.
Unfailed == root /\ pc = "idle" /\ faults = [malloc |-> 0, madvise |-> FALSE]

\* As long as nothing has failed, between calls a page's count is the number of
\* registrations that cover it, also for those from before ibv_fork_init.
CountsExact ==
  Unfailed => \A a \in Addr : Refcnt(nodes, a) = HeldAt(a)

\* As long as nothing has failed, between calls no two neighbouring nodes have the
\* same count: calls leave no trace in the tree once the registrations are gone.
Canonical ==
  Unfailed => \A n \in nodes : \A m \in NextNode(nodes, n) : n.refcnt # m.refcnt

\* With nothing failed, calls leave no trace but the registrations held: counts
\* that match them, in ranges that are merged again.
LeavesNoTrace == CountsExact /\ Canonical

\* Between calls a page is counted for at least the registrations that cover it,
\* so that the kernel keeps it from the child.
AlwaysCovered ==
  root /\ pc = "idle" => \A a \in Addr : Refcnt(nodes, a) >= HeldAt(a)

\* It is, whatever calls of madvise fail, as long as malloc does not.
CountsCover == faults.malloc = 0 => AlwaysCovered

\* Between calls the kernel withholds from a child exactly the pages that have a
\* count, but for those that a failing madvise has advised all the same; as long
\* as malloc does not fail.
KernelAgrees ==
  root /\ pc = "idle" /\ faults.malloc = 0 =>
    \A a \in Addr \ torn : a \in advised <=> Refcnt(nodes, a) > 0

\* As long as malloc does not fail, a page with a registration is counted, and
\* the kernel keeps exactly the counted pages from a child.  The exception is a
\* page where a failing madvise had its effect: ibv_madvise_range restores its
\* count but does not advise it again.
KeepsFromChild == CountsCover /\ KernelAgrees

\* A registration that fails because madvise does has rolled back its changes:
\* every page has the count it had before the call, unless malloc has failed or
\* madvise fails again in the rollback.
RegistrationRollsBack ==
  [][/\ pc # "idle" /\ pc' = "idle" /\ ret' = -1 /\ faults'.malloc = 0
     /\ IF op.rolling_back THEN op.inc = -1 /\ op.cur > op.end ELSE op.inc = 1
     => \A a \in Addr : Refcnt(nodes', a) = before[a]]_vars

-----------------------------------------------------------------------------
(* The inductive invariant.                                                 *)

\* The nodes cover the address space without overlap; the boundaries are pages'.
Whole(ns) ==
  /\ ns \subseteq Node
  /\ \A n \in ns : n.start <= n.end
  /\ \A a \in Addr : \E n \in ns : n.start <= a /\ a <= n.end
  /\ \A n, m \in ns : n.start <= m.end /\ m.start <= n.end => n = m
Aligned(ns) == \A n \in ns : n.start % PAGE = 0 /\ (n.end + 1) % PAGE = 0

\* The locals of a call: the rollback's range is a part of the registration's, and
\* the node of an iteration exists and the first one contains the start.
CallInv ==
  /\ op \in Op /\ op.rg[1] # 0 /\ op.rg[2] # 0
  /\ op.start = First(op.rg) /\ op.start <= op.end /\ op.end <= Last(op.rg)
  /\ op.start % PAGE = 0 /\ (op.end + 1) % PAGE = 0
  /\ before \in [Addr -> Int]
  /\ IF op.rolling_back THEN faults.madvise
     ELSE op.end = Last(op.rg) /\ (op.inc = 1 => held[op.rg] < MaxHeld)
  /\ pc = "loop" =>
       /\ op.cur <= op.end + 1
       /\ op.cur <= op.end =>
            \E n \in nodes : n.start = op.cur /\ (op.cur <= op.start => op.start <= n.end)

\* The registrations counted for an address: its node's count, but in the part of
\* the first node that lies before the start, which has been merged in advance.
Count(a) ==
  Refcnt(nodes, a) + IF pc = "loop" /\ op.cur <= a /\ a < op.start THEN op.inc ELSE 0

\* What a call still has to take from a count, or has added to it in advance.
Owed(a) ==
  IF /\ pc # "idle" /\ op.start <= a /\ a <= op.end
     /\ IF op.inc = 1 THEN pc = "loop" /\ a < op.cur ELSE pc = "find" \/ op.cur <= a
  THEN 1 ELSE 0

CountInv ==
  /\ \A a \in Addr \ torn : a \in advised <=> Count(a) > 0
  /\ \A a \in Addr : Count(a) >= HeldAt(a) + Owed(a)
  /\ ~faults.madvise => \A a \in Addr : Count(a) = HeldAt(a) + Owed(a)
  /\ pc # "idle" /\ (op.rolling_back <=> op.inc = -1)
       => \A a \in Addr : Count(a) = before[a] + Owed(a)

\* Neighbours differ, but for the node of the iteration, which will differ from the
\* one before it once it has its new count, and the node after the range.
NeighbourInv ==
  \A n, m \in nodes : n.end + 1 = m.start =>
    IF pc = "loop" /\ m.start = op.cur
    THEN op.cur <= op.end => n.refcnt # m.refcnt + op.inc
    ELSE n.refcnt # m.refcnt

ShapeInv ==
  /\ TypeOK
  /\ root => Whole(nodes) /\ Aligned(nodes)
  /\ ~root => nodes = {} /\ advised = {} /\ torn = {} /\ pc = "idle"
  /\ ~root /\ ~too_late => \A rg \in Regions : held[rg] = 0
  /\ pc # "idle" => CallInv

RInv ==
  /\ ShapeInv
  /\ root /\ faults.malloc = 0 => CountInv
  /\ root /\ faults = [malloc |-> 0, madvise |-> FALSE] => NeighbourInv
=============================================================================
