------------------------------ MODULE MemTree ------------------------------
(***************************************************************************)
(* The red-black tree of libibverbs/memory.c that holds the ranges of      *)
(* ForkRange.  A node is identified by its start, which never changes.     *)
(* The code writes every case twice, for left and right; the model has it  *)
(* once, for a direction d and its opposite.  A step is one iteration of   *)
(* a loop.                                                                 *)
(***************************************************************************)
EXTENDS Integers, FiniteSets

CONSTANT Keys   \* the starts of ranges; 0 is in the tree from the beginning

ASSUME KeysAssumption == Keys \subseteq Nat /\ 0 \in Keys /\ IsFiniteSet(Keys)

Nil == -1
Sides == {"left", "right"}
Opp(d) == IF d = "left" THEN "right" ELSE "left"

VARIABLES
  t,        \* the tree: root, kids, parents and colours
  alive,    \* the nodes that are allocated
  pc,       \* the loop that is running
  cur,      \* "node" of __mm_add and its rebalancing, "child" of __mm_remove
  par,      \* "parent" of __mm_add and __mm_remove
  new,      \* the node being added
  rounds    \* history: the iterations of the loop that is running

vars == <<t, alive, pc, cur, par, new, rounds>>

Ptr == Keys \cup {Nil}
Tree == [root : Keys, kid : [Sides -> [Keys -> Ptr]], parent : [Keys -> Ptr],
         color : [Keys -> {"red", "black"}]]

TypeOK ==
  /\ t \in Tree
  /\ alive \subseteq Keys
  /\ pc \in {"idle", "descend", "rebalance", "fix"}
  /\ cur \in Ptr /\ par \in Ptr /\ new \in Ptr
  /\ rounds \in Nat

-----------------------------------------------------------------------------
(* Pointer surgery.                                                         *)

Red(tr, n) == n # Nil /\ tr.color[n] = "red"
Paint(tr, n, c) == IF n = Nil THEN tr ELSE [tr EXCEPT !.color[n] = c]
Hang(tr, n, p) == IF n = Nil THEN tr ELSE [tr EXCEPT !.parent[n] = p]

\* Make n take the place of node under node's parent.
Replace(tr, node, n) ==
  LET p == tr.parent[node]
      d == IF p # Nil /\ tr.kid["left"][p] = node THEN "left" ELSE "right" IN
  IF p = Nil THEN [tr EXCEPT !.root = n] ELSE [tr EXCEPT !.kid[d][p] = n]

\* __mm_rotate_left (d is "left") and __mm_rotate_right.
Rotate(tr, node, d) ==
  LET tmp == tr.kid[Opp(d)][node]
      mid == tr.kid[d][tmp]
      t1  == Hang([tr EXCEPT !.kid[Opp(d)][node] = mid], mid, node)
      t2  == Hang(Replace(t1, node, tmp), tmp, tr.parent[node]) IN
  [t2 EXCEPT !.kid[d][tmp] = node, !.parent[node] = tmp]

\* Where node leads after as many steps as the tree has nodes.
Follow(Step(_), node) ==
  LET f[i \in 0 .. Cardinality(Keys)] ==
        IF i = 0 THEN node ELSE LET n == f[i - 1] IN Step(n)
  IN  f[Cardinality(Keys)]

\* Down to the last kid of side d, and up to the first ancestor of which the node
\* is not on side d.
Furthest(tr, node, d) ==
  Follow(LAMBDA n : IF tr.kid[d][n] = Nil THEN n ELSE tr.kid[d][n], node)
Ascend(tr, node, d) ==
  LET IsKid(n) == tr.parent[n] # Nil /\ tr.kid[d][tr.parent[n]] = n IN
  tr.parent[Follow(LAMBDA n : IF IsKid(n) THEN tr.parent[n] ELSE n, node)]

\* __mm_prev (d is "left") and __mm_next.
Neighbour(tr, node, d) ==
  IF tr.kid[d][node] # Nil THEN Furthest(tr, tr.kid[d][node], Opp(d))
  ELSE Ascend(tr, node, d)

-----------------------------------------------------------------------------
Init ==
  /\ t = [root |-> 0, kid |-> [d \in Sides |-> [k \in Keys |-> Nil]],
          parent |-> [k \in Keys |-> Nil], color |-> [k \in Keys |-> "black"]]
  /\ alive = {0}
  /\ pc = "idle" /\ cur = Nil /\ par = Nil /\ new = Nil
  /\ rounds = 0

\* Where a search for k goes on from node n.
Toward(n, k) == IF n < k THEN "right" ELSE "left"

\* __mm_add: start the descent at the root.
__mm_add(k) ==
  /\ pc = "idle" /\ k \notin alive
  /\ alive' = alive \cup {k}
  /\ pc' = "descend" /\ cur' = t.root /\ par' = Nil /\ new' = k
  /\ UNCHANGED <<t, rounds>>

\* Mutant of Descend: there is no branch to the left.
DescendRight ==
  /\ pc = "descend" /\ cur # Nil
  /\ par' = cur /\ cur' = IF cur < new THEN t.kid["right"][cur] ELSE cur
  /\ rounds' = rounds + 1
  /\ UNCHANGED <<t, alive, pc, new>>

Descend ==
  /\ pc = "descend" /\ cur # Nil
  /\ par' = cur /\ cur' = t.kid[Toward(cur, new)][cur]
  /\ rounds' = rounds + 1
  /\ UNCHANGED <<t, alive, pc, new>>

Insert ==
  /\ pc = "descend" /\ cur = Nil
  /\ t' = [t EXCEPT !.kid[Toward(par, new)][par] = new, !.parent[new] = par,
                    !.kid["left"][new] = Nil, !.kid["right"][new] = Nil,
                    !.color[new] = "red"]
  /\ pc' = "rebalance" /\ cur' = new /\ par' = Nil /\ new' = Nil /\ rounds' = 0
  /\ UNCHANGED alive

\* __mm_add_rebalance: an iteration for a red uncle, one for a black uncle, and
\* the end of the loop.
Rebalance ==
  LET p == t.parent[cur]
      g == t.parent[p]
      d == IF p = t.kid["left"][g] THEN "left" ELSE "right"
      uncle == t.kid[Opp(d)][g]
      inner == cur = t.kid[Opp(d)][p]
      t1 == IF inner THEN Rotate(t, p, d) ELSE t
      top == IF inner THEN cur ELSE p IN
  /\ pc = "rebalance" /\ Red(t, t.parent[cur])
  /\ \/ /\ Red(t, uncle)
        /\ t' = Paint(Paint(Paint(t, p, "black"), uncle, "black"), g, "red")
        /\ cur' = g
     \/ /\ ~Red(t, uncle)
        /\ t' = Rotate(Paint(Paint(t1, top, "black"), g, "red"), g, Opp(d))
        /\ cur' = IF inner THEN p ELSE cur
  /\ rounds' = rounds + 1
  /\ UNCHANGED <<alive, pc, par, new>>

\* Mutant of Rebalanced: the root is not made black.
RebalancedRedRoot ==
  /\ pc = "rebalance" /\ ~Red(t, t.parent[cur])
  /\ UNCHANGED t
  /\ pc' = "idle" /\ cur' = Nil /\ rounds' = 0
  /\ UNCHANGED <<alive, par, new>>

Rebalanced ==
  /\ pc = "rebalance" /\ ~Red(t, t.parent[cur])
  /\ t' = Paint(t, t.root, "black")
  /\ pc' = "idle" /\ cur' = Nil /\ rounds' = 0
  /\ UNCHANGED <<alive, par, new>>

\* Mutant of UnlinkInner: the left kid of the node is not told its new parent.
UnlinkInnerLeavesKid(node) ==
  LET l == t.kid["left"][node]
      r == t.kid["right"][node]
      tmp == Furthest(t, l, "right")
      child == t.kid["left"][tmp]
      p == IF t.parent[tmp] # node THEN t.parent[tmp] ELSE tmp
      t1 == [t EXCEPT !.color[tmp] = t.color[node]]
      t2 == IF t.parent[tmp] = node THEN t1
            ELSE [Hang(t1, child, p) EXCEPT !.kid["right"][p] = child,
                                            !.kid["left"][tmp] = l]
      t3 == Hang([t2 EXCEPT !.kid["right"][tmp] = r], r, tmp)
  IN  [tree |-> Replace(Hang(t3, tmp, t.parent[node]), node, tmp),
       nodecol |-> t.color[tmp], child |-> child, parent |-> p]

\* __mm_remove of a node with two kids: its predecessor tmp takes its place.
UnlinkInner(node) ==
  LET l == t.kid["left"][node]
      r == t.kid["right"][node]
      tmp == Furthest(t, l, "right")
      child == t.kid["left"][tmp]
      p == IF t.parent[tmp] # node THEN t.parent[tmp] ELSE tmp
      t1 == [t EXCEPT !.color[tmp] = t.color[node]]
      t2 == IF t.parent[tmp] = node THEN t1
            ELSE Hang([Hang(t1, child, p) EXCEPT !.kid["right"][p] = child,
                                                 !.kid["left"][tmp] = l], l, tmp)
      t3 == Hang([t2 EXCEPT !.kid["right"][tmp] = r], r, tmp)
  IN  [tree |-> Replace(Hang(t3, tmp, t.parent[node]), node, tmp),
       nodecol |-> t.color[tmp], child |-> child, parent |-> p]

\* __mm_remove of a node with at most one kid.
UnlinkOuter(node) ==
  LET child == IF t.kid["left"][node] # Nil THEN t.kid["left"][node]
               ELSE t.kid["right"][node]
      p == t.parent[node]
  IN  [tree |-> Replace(Hang(t, child, p), node, child),
       nodecol |-> t.color[node], child |-> child, parent |-> p]

\* A freed node has no fields to remember.
Freed(tr, k) ==
  [tr EXCEPT !.kid["left"][k] = Nil, !.kid["right"][k] = Nil, !.parent[k] = Nil,
             !.color[k] = "black"]

\* The part of __mm_remove after its checks.
Removes(k) ==
  LET u == IF \A d \in Sides : t.kid[d][k] # Nil
           THEN UnlinkInner(k) ELSE UnlinkOuter(k) IN
  /\ t' = Freed(u.tree, k)
  /\ alive' = alive \ {k}
  /\ IF u.nodecol = "red"
     THEN pc' = "idle" /\ cur' = Nil /\ par' = Nil
     ELSE pc' = "fix" /\ cur' = u.child /\ par' = u.parent
  /\ UNCHANGED <<new, rounds>>

\* merge_ranges removes a node that has a predecessor: never the one of start 0.
__mm_remove(k) == pc = "idle" /\ k \in alive \ {0} /\ Removes(k)

\* The loop of __mm_remove goes on: child is black and not the root.
Lacking == pc = "fix" /\ ~Red(t, cur) /\ cur # t.root
Side == IF t.kid["left"][par] = cur THEN "left" ELSE "right"
Sibling == t.kid[Opp(Side)][par]

\* A red sibling is rotated up first.
SibBlack ==
  IF Red(t, Sibling)
  THEN Rotate(Paint(Paint(t, par, "red"), Sibling, "black"), par, Side)
  ELSE t

\* An iteration of the loop of __mm_remove.
Fix ==
  LET d   == Side
      t1  == SibBlack
      sib == t1.kid[Opp(d)][par]
      far == t1.kid[Opp(d)][sib]
      t2  == IF Red(t1, far) THEN t1
             ELSE Rotate(Paint(Paint(t1, t1.kid[d][sib], "black"), sib, "red"),
                         sib, Opp(d))
      s2  == t2.kid[Opp(d)][par]
      t3  == Paint(Paint(Paint(t2, s2, t2.color[par]), par, "black"),
                   t2.kid[Opp(d)][s2], "black") IN
  /\ Lacking
  /\ \/ /\ \A e \in Sides : ~Red(t1, t1.kid[e][sib])
        /\ t' = Paint(t1, sib, "red")
        /\ cur' = par /\ par' = t1.parent[par]
     \/ /\ \E e \in Sides : Red(t1, t1.kid[e][sib])
        /\ t' = Rotate(t3, par, d)
        /\ cur' = t'.root /\ par' = Nil
  /\ rounds' = rounds + 1
  /\ UNCHANGED <<alive, pc, new>>

Fixed ==
  /\ pc = "fix" /\ ~Lacking
  /\ t' = Paint(t, cur, "black")
  /\ pc' = "idle" /\ cur' = Nil /\ par' = Nil /\ rounds' = 0
  /\ UNCHANGED <<alive, new>>

Next ==
  \/ Descend \/ Insert \/ Rebalance \/ Rebalanced \/ Fix \/ Fixed
  \/ \E k \in Keys : __mm_add(k) \/ __mm_remove(k)

Spec == Init /\ [][Next]_vars

-----------------------------------------------------------------------------
(* Properties.                                                              *)

\* The black nodes from n up to the root.
Blacks(n) ==
  LET f[i \in 0 .. Cardinality(Keys)] ==
        IF i = 0 THEN <<n, 0>>
        ELSE LET m == f[i - 1] IN
             IF m[1] = Nil THEN m
             ELSE <<t.parent[m[1]], m[2] + (IF Red(t, m[1]) THEN 0 ELSE 1)>>
  IN  f[Cardinality(Keys)][2]

\* Between calls the tree is red and black: the root is black, no red node has a
\* red kid, and every missing kid has equally many black nodes above it.  So
\* __mm_add and __mm_remove keep it balanced.
RedBlack ==
  pc = "idle" =>
    /\ ~Red(t, t.root) /\ t.parent[t.root] = Nil
    /\ \A n \in alive : Red(t, n) => ~Red(t, t.parent[n])
    /\ \A n, m \in alive : \A d, e \in Sides :
         t.kid[d][n] = Nil /\ t.kid[e][m] = Nil => Blacks(n) = Blacks(m)

\* Between calls the search of __mm_add and __mm_find_start finds every node that
\* was added and not removed.
Search(k) ==
  Follow(LAMBDA n : IF n = Nil \/ n = k THEN n ELSE t.kid[Toward(n, k)][n], t.root)
FindsAll == pc = "idle" => \A k \in Keys : Search(k) = IF k \in alive THEN k ELSE Nil

\* __mm_prev and __mm_next return the neighbours in the order of the starts.
Neighbours ==
  pc = "idle" => \A k \in alive :
    LET p == Neighbour(t, k, "left")
        below == {j \in alive : j < k} IN
    /\ IF below = {} THEN p = Nil ELSE p \in below /\ \A j \in below : j <= p
    /\ p # Nil => Neighbour(t, p, "right") = k

\* No pointer that the code may follow leads to a freed node, in the middle of
\* rebalancing too.
NoDangling ==
  LET Valid(p) == p = Nil \/ p \in alive IN
  /\ t.root \in alive /\ Valid(cur) /\ Valid(par)
  /\ \A n \in alive \ {new} :
       Valid(t.parent[n]) /\ \A d \in Sides : Valid(t.kid[d][n])

\* __mm_remove never meets a missing sibling, which it would dereference.
SiblingExists ==
  Lacking => par # Nil /\ Sibling # Nil
             /\ (Red(t, Sibling) => t.kid[Side][Sibling] # Nil)

\* The loops of __mm_add and __mm_remove end, after a number of iterations that is
\* at most twice the logarithm of the number of nodes.
FewRounds == 2 ^ (rounds \div 2) <= Cardinality(alive) + 1

\* Between calls the tree is a balanced search tree, in which __mm_find_start,
\* __mm_prev and __mm_next find what was added and not removed.
SearchTree == RedBlack /\ FindsAll /\ Neighbours

\* At every step of __mm_add and __mm_remove the pointers they follow lead to
\* nodes, and the variables have their types.
PointersValid == TypeOK /\ NoDangling /\ SiblingExists
=============================================================================
