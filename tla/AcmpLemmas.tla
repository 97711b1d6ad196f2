----------------------------- MODULE AcmpLemmas -----------------------------
(***************************************************************************)
(* Lemmas about Acmp: lists, what each action does to the endpoint's        *)
(* messages and credits, and how many hold a destination.                   *)
(***************************************************************************)
EXTENDS Acmp, FiniteSetTheorems, WellFoundedInduction, TLAPS

\* A leaf is for Zenon unless it names another prover.
USE ZenonT(30)

-----------------------------------------------------------------------------
(* Induction, on a set.                                                     *)

\* A set with 0 and with the successor of each of its numbers below N has all up to N.
LEMMA UpTo ==
  ASSUME NEW N \in Nat, NEW S, 0 \in S, \A i \in 0..N : i \in S /\ i < N => i + 1 \in S
  PROVE  0..N \subseteq S
<1> DEFINE T == {i \in 0..N : i \notin S}
<1> SUFFICES ASSUME T # {} PROVE FALSE
  OBVIOUS
<1>1. T \subseteq Nat
  BY SMTT(30)
<1>2. PICK x \in T : \A y \in T : ~(y < x)
  <2> DEFINE Less == OpToRel(<, Nat)
  <2>1. IsWellFoundedOn(Less, Nat)
    BY NatLessThanWellFounded
  <2>2. \A i, j \in Nat : i < j => <<i, j>> \in Less
    BY DEF OpToRel
  <2> HIDE DEF T, Less
  <2>3. \E x \in T : \A y \in T : ~(<<y, x>> \in Less)
    BY <1>1, <2>1, WFMin
  <2> QED
    BY <1>1, <2>2, <2>3
<1>3. x # 0 /\ x - 1 \in 0..N /\ x - 1 < N
  BY SMTT(30)
<1>4. x - 1 \notin T
  BY <1>2, <1>3, SMTT(30)
<1>5. (x - 1) + 1 \in S
  BY <1>3, <1>4
<1> QED
  BY <1>5, SMTT(30)

\* The loop of acmp_process_wait_queue, as its recursion equation.
LEMMA ScannedIs ==
  ASSUME Len(wait_queue) \in Nat
  PROVE  /\ Scanned[0] = [msgs |-> msgs, queues |-> Queues, list |-> timeout_list]
         /\ \A n \in 1..Len(wait_queue) : Scanned[n] = Expire(Scanned[n - 1], wait_queue[n])
<1> DEFINE N == Len(wait_queue)
           first == [msgs |-> msgs, queues |-> Queues, list |-> timeout_list]
           Is(f, k) == f = [n \in 0..k |-> IF n = 0 THEN first ELSE Expire(f[n - 1], wait_queue[n])]
           S == {k \in 0..N : \E f : Is(f, k)}
<1>0. N \in Nat
  OBVIOUS
<1>1. 0 \in S
  <2>1. 0 \in 0..N
    BY <1>0, SMTT(30)
  <2>2. Is([n \in 0..0 |-> first], 0)
    BY SMTT(30)
  <2> QED
    BY <2>1, <2>2
<1>2. ASSUME NEW k \in 0..N, k \in S, k < N PROVE k + 1 \in S
  <2>1. PICK f : Is(f, k)
    BY <1>2
  <2> DEFINE g == [n \in 0..(k + 1) |-> IF n = k + 1 THEN Expire(f[k], wait_queue[k + 1]) ELSE f[n]]
  <2> HIDE DEF N, first
  <2>2. Is(g, k + 1)
    <3>1. ASSUME NEW n \in 0..(k + 1)
          PROVE  g[n] = IF n = 0 THEN first ELSE Expire(g[n - 1], wait_queue[n])
      <4>1. CASE n = k + 1
        <5>1. n # 0 /\ n - 1 = k /\ k \in 0..(k + 1) /\ k # k + 1
          BY <1>0, <4>1, SMTT(30)
        <5>2. g[n] = Expire(f[k], wait_queue[n]) /\ g[k] = f[k]
          BY <4>1, <5>1
        <5> QED
          BY <5>1, <5>2
      <4>2. CASE n # k + 1
        <5>1. n \in 0..k /\ g[n] = f[n]
          BY <1>0, <4>2, SMTT(30)
        <5>2. f[n] = IF n = 0 THEN first ELSE Expire(f[n - 1], wait_queue[n])
          BY <2>1, <5>1
        <5>3. n # 0 => n - 1 \in 0..(k + 1) /\ n - 1 # k + 1
          BY <1>0, <5>1, SMTT(30)
        <5>4. n # 0 => g[n - 1] = f[n - 1]
          BY <5>3
        <5> QED
          BY <5>1, <5>2, <5>4
      <4> QED
        BY <4>1, <4>2
    <3> QED
      BY <3>1
  <2>3. k + 1 \in 0..N
    BY <1>0, <1>2, SMTT(30)
  <2> QED
    BY <2>2, <2>3
<1>3. N \in S
  <2> HIDE DEF S, N
  <2>1. 0..N \subseteq S
    BY <1>0, <1>1, <1>2, UpTo
  <2> QED
    BY <1>0, <2>1, SMTT(30)
<1>4. Is(Scanned, N)
  <2>1. \E f : Is(f, N)
    BY <1>3
  <2>2. Scanned = CHOOSE f : Is(f, N)
    BY DEF Scanned
  <2> QED
    BY <2>1, <2>2
<1>5. ASSUME NEW n \in 0..N
      PROVE  Scanned[n] = IF n = 0 THEN first ELSE Expire(Scanned[n - 1], wait_queue[n])
  BY <1>4
<1> QED
  BY <1>0, <1>5, SMTT(30)

-----------------------------------------------------------------------------
(* Lists.                                                                   *)

\* Adding to the end of a list.
LEMMA AppendTo ==
  ASSUME NEW S, NEW s \in Seq(S), NEW x \in S
  PROVE  /\ Append(s, x) \in Seq(S) /\ Append(s, x) # <<>>
         /\ Range(Append(s, x)) = Range(s) \cup {x}
         /\ IsInjective(s) /\ x \notin Range(s) => IsInjective(Append(s, x))
<1>1. /\ Append(s, x) \in Seq(S) /\ Len(Append(s, x)) = Len(s) + 1 /\ Len(s) \in Nat
      /\ DOMAIN s = 1..Len(s) /\ DOMAIN Append(s, x) = 1..(Len(s) + 1)
      /\ \A i \in 1..Len(s) : Append(s, x)[i] = s[i]
      /\ Append(s, x)[Len(s) + 1] = x
  BY SMTT(30)
<1>2. Append(s, x) # <<>>
  BY <1>1, SMTT(30)
<1>3. Range(Append(s, x)) = Range(s) \cup {x}
  <2>1. ASSUME NEW i \in 1..(Len(s) + 1) PROVE Append(s, x)[i] \in Range(s) \cup {x}
    BY <1>1, SMTT(30) DEF Range
  <2>2. ASSUME NEW i \in 1..Len(s) PROVE s[i] \in Range(Append(s, x))
    BY <1>1, SMTT(30) DEF Range
  <2>3. x \in Range(Append(s, x))
    BY <1>1, SMTT(30) DEF Range
  <2> QED
    BY <1>1, <2>1, <2>2, <2>3 DEF Range
<1>4. ASSUME IsInjective(s), x \notin Range(s) PROVE IsInjective(Append(s, x))
  BY <1>1, <1>4, SMTT(30) DEF IsInjective, Range
<1> QED
  BY <1>1, <1>2, <1>3, <1>4

\* Taking from the front of a list.
LEMMA TakeFrom ==
  ASSUME NEW S, NEW s \in Seq(S), s # <<>>
  PROVE  /\ Head(s) \in S /\ Tail(s) \in Seq(S) /\ Head(s) \in Range(s)
         /\ Range(s) = Range(Tail(s)) \cup {Head(s)}
         /\ IsInjective(s) => IsInjective(Tail(s)) /\ Head(s) \notin Range(Tail(s))
<1>1. /\ Len(s) \in Nat /\ Len(s) > 0 /\ Head(s) = s[1] /\ Tail(s) \in Seq(S)
      /\ Len(Tail(s)) = Len(s) - 1
      /\ DOMAIN s = 1..Len(s) /\ DOMAIN Tail(s) = 1..(Len(s) - 1)
      /\ \A i \in 1..(Len(s) - 1) : Tail(s)[i] = s[i + 1]
  BY SMTT(30)
<1>2. Head(s) \in S /\ Head(s) \in Range(s)
  BY <1>1, SMTT(30) DEF Range
<1>3. Range(s) = Range(Tail(s)) \cup {Head(s)}
  <2>1. ASSUME NEW i \in 1..Len(s) PROVE s[i] \in Range(Tail(s)) \cup {Head(s)}
    <3>1. CASE i = 1
      BY <1>1, <3>1
    <3>2. CASE i # 1
      <4>1. i - 1 \in 1..(Len(s) - 1) /\ (i - 1) + 1 = i
        BY <1>1, <3>2, SMTT(30)
      <4> QED
        BY <1>1, <4>1 DEF Range
    <3> QED
      BY <3>1, <3>2
  <2>2. ASSUME NEW i \in 1..(Len(s) - 1) PROVE Tail(s)[i] \in Range(s)
    BY <1>1, SMTT(30) DEF Range
  <2> QED
    BY <1>1, <1>2, <2>1, <2>2, SMTT(30) DEF Range
<1>4. ASSUME IsInjective(s) PROVE IsInjective(Tail(s)) /\ Head(s) \notin Range(Tail(s))
  BY <1>1, <1>4, SMTT(30) DEF IsInjective, Range
<1> QED
  BY <1>1, <1>2, <1>3, <1>4

\* Taking from the middle of a list.
LEMMA TakeOut ==
  ASSUME NEW S, NEW s \in Seq(S), NEW i \in DOMAIN s, IsInjective(s)
  PROVE  /\ s[i] \in Range(s) /\ s[i] \in S /\ s # <<>> /\ list_del(s, i) \in Seq(S)
         /\ Range(list_del(s, i)) = Range(s) \ {s[i]}
         /\ IsInjective(list_del(s, i))
<1> DEFINE N == Len(s)
           t == list_del(s, i)
<1>1. N \in Nat /\ DOMAIN s = 1..N /\ i \in 1..N /\ s \in [1..N -> S]
  BY SMTT(30)
<1>2. s[i] \in Range(s) /\ s[i] \in S /\ s # <<>>
  BY <1>1, SMTT(30) DEF Range
<1>3. /\ t \in Seq(S) /\ Len(t) = N - 1 /\ DOMAIN t = 1..(N - 1)
      /\ \A j \in 1..(N - 1) : t[j] = IF j < i THEN s[j] ELSE s[j + 1]
  <2>1. /\ SubSeq(s, 1, i - 1) \in Seq(S) /\ Len(SubSeq(s, 1, i - 1)) = i - 1
        /\ \A j \in 1..(i - 1) : SubSeq(s, 1, i - 1)[j] = s[j]
    BY <1>1, SMTT(30)
  <2>2. /\ SubSeq(s, i + 1, N) \in Seq(S) /\ Len(SubSeq(s, i + 1, N)) = N - i
        /\ \A j \in 1..(N - i) : SubSeq(s, i + 1, N)[j] = s[j + i]
    <3>1. SubSeq(s, i + 1, N) \in Seq(S) /\ Len(SubSeq(s, i + 1, N)) = N - i
      BY <1>1, SMTT(30)
    <3>2. ASSUME NEW j \in 1..(N - i) PROVE SubSeq(s, i + 1, N)[j] = s[j + i]
      <4>1. SubSeq(s, i + 1, N)[j] = s[((i + 1) + j) - 1] /\ ((i + 1) + j) - 1 = j + i
        BY <1>1, SMTT(30)
      <4> QED
        BY <4>1
    <3> QED
      BY <3>1, <3>2
  <2>3. t = SubSeq(s, 1, i - 1) \o SubSeq(s, i + 1, N)
    BY DEF list_del
  <2> DEFINE u == SubSeq(s, 1, i - 1)
             v == SubSeq(s, i + 1, N)
  <2> HIDE DEF u, v, t, N
  <2>4. t = u \o v /\ u \in Seq(S) /\ v \in Seq(S) /\ Len(u) = i - 1 /\ Len(v) = N - i
    BY <2>1, <2>2, <2>3 DEF u, v
  <2>5. t \in Seq(S) /\ Len(t) = N - 1
    BY <1>1, <2>4, SMTT(30)
  <2>6. \A j \in 1..(N - 1) : t[j] = IF j <= i - 1 THEN u[j] ELSE v[j - (i - 1)]
    BY <1>1, <2>4, SMTT(30)
  <2>7. ASSUME NEW j \in 1..(N - 1) PROVE t[j] = IF j < i THEN s[j] ELSE s[j + 1]
    <3>1. CASE j < i
      <4>1. j \in 1..(i - 1) /\ j <= i - 1
        BY <1>1, <3>1, SMTT(30)
      <4> QED
        BY <2>1, <2>6, <3>1, <4>1 DEF u
    <3>2. CASE ~(j < i)
      <4>1. j - (i - 1) \in 1..(N - i) /\ ~(j <= i - 1) /\ (j - (i - 1)) + i = j + 1
        BY <1>1, <3>2, SMTT(30)
      <4> QED
        BY <2>2, <2>6, <3>2, <4>1 DEF v
    <3> QED
      BY <3>1, <3>2
  <2> QED
    BY <2>5, <2>7, SMTT(30)
<1> HIDE DEF t, N
<1>4. Range(t) = Range(s) \ {s[i]}
  <2>1. ASSUME NEW j \in 1..(N - 1) PROVE t[j] \in Range(s) /\ t[j] # s[i]
    <3>1. j \in 1..N /\ j + 1 \in 1..N /\ (j < i => j # i) /\ (~(j < i) => j + 1 # i)
      BY <1>1, SMTT(30)
    <3>2. \E k \in 1..N : k # i /\ t[j] = s[k]
      BY <1>3, <3>1
    <3> QED
      BY <1>1, <3>2 DEF Range, IsInjective
  <2>2. ASSUME NEW j \in 1..N, j # i PROVE s[j] \in Range(t)
    <3>1. CASE j < i
      <4>1. j \in 1..(N - 1)
        BY <1>1, <3>1, SMTT(30)
      <4> QED
        BY <1>3, <3>1, <4>1 DEF Range
    <3>2. CASE ~(j < i)
      <4>1. j - 1 \in 1..(N - 1) /\ ~(j - 1 < i) /\ (j - 1) + 1 = j
        BY <1>1, <2>2, <3>2, SMTT(30)
      <4> QED
        BY <1>3, <4>1 DEF Range
    <3> QED
      BY <3>1, <3>2
  <2> QED
    BY <1>1, <1>3, <2>1, <2>2 DEF Range
<1>5. IsInjective(t)
  BY <1>1, <1>3, SMTT(30) DEF IsInjective
<1> QED
  BY <1>2, <1>3, <1>4, <1>5 DEF t

-----------------------------------------------------------------------------
(* The endpoint's lists, as a function of their values: ms the messages, ac *)
(* those given to the queue pair, W those that wait, tl the timeout list,   *)
(* pe and cr the send queues, D the destinations.  One credit of kind j is  *)
(* about to be given back; of none, if j is no kind.                        *)

OfKind(ms, S, k) == {m \in S : ms[m].kind = k}

Credit(ms, ac, W, pe, cr, j) ==
    \A k \in Kinds : /\ cr[k] + Cardinality(OfKind(ms, ac \cup W, k)) =
                          IF k = j THEN Depth - 1 ELSE Depth
                     /\ pe[k] # <<>> => cr[k] = 0

Lists(ms, ac, W, tl, pe) ==
    /\ ac \subseteq DOMAIN ms /\ W \subseteq DOMAIN ms
    /\ tl \in Seq(DOMAIN ms) /\ IsInjective(tl)
    /\ pe \in [Kinds -> Seq(DOMAIN ms)]
    /\ \A k \in Kinds : IsInjective(pe[k])
    /\ \A m \in W \cup Range(pe["resolve"]) : ms[m].tries > 0
    /\ \A m \in Range(tl) : ms[m].kind = "resolve"
    /\ \A m \in Range(pe["resp"]) : ms[m].kind = "resp"
    /\ ac \cap W = {} /\ (ac \cup W) \cap Range(tl) = {}
    /\ \A k \in Kinds : (ac \cup W \cup Range(tl)) \cap Range(pe[k]) = {}
    /\ Range(pe["resolve"]) \cap Range(pe["resp"]) = {}

Numbered(ms, D) ==
    /\ ms \in Seq(Msg)
    /\ \A m \in DOMAIN ms : (ms[m].kind = "resp" => ms[m].tries = 0) /\ ms[m].dest \in D

Endpoint(ms, ac, W, tl, pe, cr, D, j) ==
    /\ Numbered(ms, D) /\ Lists(ms, ac, W, tl, pe)
    /\ cr \in [Kinds -> Nat] /\ Credit(ms, ac, W, pe, cr, j)

\* The messages whose handler has still to run, and those that hold their destination.
ToHandle(ms, ac, W, tl, pe) ==
    {m \in ac : ms[m].tries > 0} \cup W \cup Range(tl) \cup Range(pe["resolve"])
Holds(ms, ac, W, tl, pe) ==
    ToHandle(ms, ac, W, tl, pe) \cup {m \in ac : ms[m].kind = "resp"} \cup Range(pe["resp"])
Holding == Holds(msgs, active, Range(wait_queue), timeout_list, pending)

LEMMA EndpointIs ==
  EndpointInv <=> /\ wait_queue \in Seq(DOMAIN msgs) /\ IsInjective(wait_queue)
                  /\ Endpoint(msgs, active, Range(wait_queue), timeout_list, pending, credits,
                              DOMAIN dest, "none")
<1>0. "none" \notin Kinds
  BY DEF Kinds
<1>1. CreditsExact /\ (credits \in [Kinds -> Nat]) <=>
        Credit(msgs, active, Range(wait_queue), pending, credits, "none") /\ (credits \in [Kinds -> Nat])
  BY <1>0 DEF CreditsExact, Credit, Held, OfKind
<1>2. ASSUME EndpointInv
      PROVE  /\ wait_queue \in Seq(DOMAIN msgs) /\ IsInjective(wait_queue)
             /\ Numbered(msgs, DOMAIN dest)
             /\ Lists(msgs, active, Range(wait_queue), timeout_list, pending)
  <2>1. Range(wait_queue) \subseteq DOMAIN msgs
    BY <1>2, SMTT(30) DEF EndpointInv, Range
  <2> QED
    BY <1>2, <2>1 DEF EndpointInv, Numbered, Lists, OnePlace
<1>3. ASSUME wait_queue \in Seq(DOMAIN msgs), IsInjective(wait_queue),
             Endpoint(msgs, active, Range(wait_queue), timeout_list, pending, credits,
                      DOMAIN dest, "none")
      PROVE  EndpointInv
  BY <1>1, <1>3 DEF EndpointInv, Numbered, Lists, OnePlace, Endpoint
<1> QED
  BY <1>1, <1>2, <1>3 DEF Endpoint, EndpointInv

LEMMA EndpointIsNext ==
  EndpointInv' <=> /\ wait_queue' \in Seq(DOMAIN msgs') /\ IsInjective(wait_queue')
                   /\ Endpoint(msgs', active', Range(wait_queue'), timeout_list', pending', credits',
                               DOMAIN dest', "none")
<1>1. (EndpointInv <=> /\ wait_queue \in Seq(DOMAIN msgs) /\ IsInjective(wait_queue)
                       /\ Endpoint(msgs, active, Range(wait_queue), timeout_list, pending, credits,
                              DOMAIN dest, "none"))'
  BY EndpointIs, PTL
<1> QED
  BY <1>1

LEMMA HoldingIs ==
  /\ Unhandled = ToHandle(msgs, active, Range(wait_queue), timeout_list, pending)
  /\ Unhandled' = ToHandle(msgs', active', Range(wait_queue'), timeout_list', pending')
  /\ Holding' = Holds(msgs', active', Range(wait_queue'), timeout_list', pending')
  /\ \A o : HoldingMessages(o) = {m \in Holding : msgs[m].dest = o}
  /\ \A o : HoldingMessages(o)' = {m \in Holding' : msgs'[m].dest = o}
BY DEF Unhandled, ToHandle, Holding, HoldingMessages, Holds

\* What the credit equation counts.
LEMMA CountBy ==
  ASSUME NEW ms \in Seq(Msg), NEW S \in SUBSET DOMAIN ms, NEW k \in Kinds
  PROVE  LET N(T) == Cardinality(OfKind(ms, T, k))
         IN  /\ N(S) \in Nat /\ IsFiniteSet(S)
             /\ \A m \in DOMAIN ms \ S : N(S \cup {m}) = N(S) + IF ms[m].kind = k THEN 1 ELSE 0
             /\ \A m \in S : N(S \ {m}) = N(S) - IF ms[m].kind = k THEN 1 ELSE 0
<1> DEFINE F(T) == OfKind(ms, T, k)
<1>1. IsFiniteSet(S)
  <2>1. IsFiniteSet(DOMAIN ms)
    BY FS_Interval, SMTT(30)
  <2> QED
    BY <2>1, FS_Subset
<1>2. IsFiniteSet(F(S)) /\ Cardinality(F(S)) \in Nat
  BY <1>1, FS_Subset, FS_CardinalityType DEF OfKind
<1>3. ASSUME NEW m \in DOMAIN ms \ S
      PROVE  Cardinality(F(S \cup {m})) = Cardinality(F(S)) + IF ms[m].kind = k THEN 1 ELSE 0
  <2>1. CASE ms[m].kind = k
    <3>1. F(S \cup {m}) = F(S) \cup {m} /\ m \notin F(S)
      BY <2>1 DEF OfKind
    <3> HIDE DEF F
    <3> QED
      BY <1>2, <2>1, <3>1, FS_AddElement
  <2>2. CASE ms[m].kind # k
    <3>1. F(S \cup {m}) = F(S)
      BY <2>2 DEF OfKind
    <3> HIDE DEF F
    <3> QED
      BY <1>2, <2>2, <3>1, SMTT(30)
  <2> QED
    BY <2>1, <2>2
<1>4. ASSUME NEW m \in S
      PROVE  Cardinality(F(S \ {m})) = Cardinality(F(S)) - IF ms[m].kind = k THEN 1 ELSE 0
  <2>1. CASE ms[m].kind = k
    <3>1. F(S \ {m}) = F(S) \ {m} /\ m \in F(S)
      BY <2>1 DEF OfKind
    <3> HIDE DEF F
    <3> QED
      BY <1>2, <2>1, <3>1, FS_RemoveElement
  <2>2. CASE ms[m].kind # k
    <3>1. F(S \ {m}) = F(S)
      BY <2>2, SMTT(30) DEF OfKind
    <3> HIDE DEF F
    <3> QED
      BY <1>2, <2>2, <3>1, SMTT(30)
  <2> QED
    BY <2>1, <2>2
<1> QED
  BY <1>1, <1>2, <1>3, <1>4

LEMMA DepthType == Depth \in Nat /\ Depth # 0 /\ Retries \in Nat
BY OptionsAssumption

GivesBack(ms, ac, W, tl, pe, D, q) ==
    /\ Endpoint(ms, q.active, W, tl, q.pending, q.credits, D, "none")
    /\ ToHandle(ms, q.active, W, tl, q.pending) = ToHandle(ms, ac, W, tl, pe)
    /\ Holds(ms, q.active, W, tl, q.pending) = Holds(ms, ac, W, tl, pe)
    /\ q = [active |-> q.active, pending |-> q.pending, credits |-> q.credits]

\* acmp_send_available gives the credit back, to a delayed message if there is one.
LEMMA Available ==
  ASSUME NEW ms, NEW ac, NEW W, NEW tl, NEW pe, NEW cr, NEW D, NEW k \in Kinds,
         Endpoint(ms, ac, W, tl, pe, cr, D, k)
  PROVE  GivesBack(ms, ac, W, tl, pe, D,
            acmp_send_available([active |-> ac, pending |-> pe, credits |-> cr], k))
<1> DEFINE q0 == [active |-> ac, pending |-> pe, credits |-> cr]
           q == acmp_send_available(q0, k)
           N(S, l) == Cardinality(OfKind(ms, S, l))
           Goal == GivesBack(ms, ac, W, tl, pe, D, q)
<1> SUFFICES Goal
  OBVIOUS
<1>0. "none" \notin Kinds /\ "resolve" \in Kinds /\ "resp" \in Kinds /\ (k = "resolve" \/ k = "resp")
  BY DEF Kinds
<1>1. /\ Numbered(ms, D) /\ Lists(ms, ac, W, tl, pe) /\ cr \in [Kinds -> Nat]
      /\ Credit(ms, ac, W, pe, cr, k) /\ ms \in Seq(Msg)
      /\ ac \subseteq DOMAIN ms /\ W \subseteq DOMAIN ms /\ pe \in [Kinds -> Seq(DOMAIN ms)]
  BY DEF Endpoint, Lists, Numbered
<1>2. \A l \in Kinds : /\ cr[l] + N(ac \cup W, l) = IF l = k THEN Depth - 1 ELSE Depth
                       /\ pe[l] # <<>> => cr[l] = 0
                       /\ cr[l] \in Nat /\ N(ac \cup W, l) \in Nat
  <2>1. \A l \in Kinds : N(ac \cup W, l) \in Nat
    BY <1>1, CountBy
  <2> QED
    BY <1>1, <2>1 DEF Credit
<1>3. CASE pe[k] = <<>>
  <2>1. q = [active |-> ac, pending |-> pe, credits |-> [cr EXCEPT ![k] = @ + 1]]
    BY <1>1, <1>3 DEF acmp_send_available
  <2> HIDE DEF q
  <2>2. /\ q.active = ac /\ q.pending = pe /\ q.credits = [cr EXCEPT ![k] = @ + 1]
        /\ q = [active |-> q.active, pending |-> q.pending, credits |-> q.credits]
    BY <2>1
  <2>3. q.credits \in [Kinds -> Nat] /\ \A l \in Kinds : q.credits[l] = IF l = k THEN cr[l] + 1 ELSE cr[l]
    BY <1>1, <2>2, SMTT(30)
  <2> HIDE DEF N
  <2>4. \A l \in Kinds : /\ q.credits[l] + N(ac \cup W, l) = IF l = "none" THEN Depth - 1 ELSE Depth
                         /\ pe[l] # <<>> => q.credits[l] = 0
    <3>1. ASSUME NEW l \in Kinds
          PROVE  /\ q.credits[l] + N(ac \cup W, l) = IF l = "none" THEN Depth - 1 ELSE Depth
                 /\ pe[l] # <<>> => q.credits[l] = 0
      <4>1. CASE l = k
        <5>1. cr[l] + N(ac \cup W, l) = Depth - 1 /\ cr[l] \in Nat /\ N(ac \cup W, l) \in Nat
          BY <1>2, <4>1
        <5>2. q.credits[l] = cr[l] + 1
          BY <2>3, <4>1
        <5>3. pe[l] = <<>> /\ l # "none"
          BY <1>0, <1>3, <4>1
        <5> QED
          BY <5>1, <5>2, <5>3, DepthType, SMTT(30)
      <4>2. CASE l # k
        BY <1>0, <1>2, <2>3, <4>2
      <4> QED
        BY <4>1, <4>2
    <3> QED
      BY <3>1
  <2>5. Credit(ms, ac, W, pe, q.credits, "none")
    BY <2>4 DEF Credit, N
  <2> QED
    BY <1>1, <2>2, <2>3, <2>5 DEF Endpoint, GivesBack
<1>4. CASE pe[k] # <<>>
  <2> DEFINE h == Head(pe[k])
             pf == [pe EXCEPT ![k] = Tail(@)]
  <2>1. q = [active |-> ac \cup {h}, pending |-> pf, credits |-> cr]
    BY <1>1, <1>4 DEF acmp_send_available
  <2> HIDE DEF q
  <2>2. /\ q.active = ac \cup {h} /\ q.pending = pf /\ q.credits = cr
        /\ q = [active |-> q.active, pending |-> q.pending, credits |-> q.credits]
    BY <2>1
  <2>3. /\ pe[k] \in Seq(DOMAIN ms) /\ IsInjective(pe[k])
    BY <1>1 DEF Lists
  <2>4. /\ h \in DOMAIN ms /\ Tail(pe[k]) \in Seq(DOMAIN ms) /\ h \in Range(pe[k])
        /\ Range(pe[k]) = Range(Tail(pe[k])) \cup {h}
        /\ IsInjective(Tail(pe[k])) /\ h \notin Range(Tail(pe[k]))
    BY <1>4, <2>3, TakeFrom
  <2>5. /\ pf \in [Kinds -> Seq(DOMAIN ms)] /\ pf[k] = Tail(pe[k])
        /\ \A l \in Kinds : l # k => pf[l] = pe[l]
    BY <1>1, <2>4
  <2> HIDE DEF h, pf
  <2>6. h \notin ac \cup W \cup Range(tl)
    BY <1>1, <2>4 DEF Lists
  <2>6a. k = "resp" => ms[h].kind = "resp" /\ ms[h].tries = 0
    BY <1>1, <2>4 DEF Lists, Numbered
  <2>6b. k = "resolve" => ms[h].kind = "resolve" /\ ms[h].tries > 0
    <3>1. ms[h] \in Msg
      BY <1>1, <2>4, SMTT(30)
    <3>2. ms[h].kind \in Kinds /\ (ms[h].kind = "resp" => ms[h].tries = 0)
      BY <1>1, <2>4, <3>1 DEF Numbered, Msg
    <3>3. k = "resolve" => ms[h].tries > 0
      BY <1>1, <2>4 DEF Lists
    <3> QED
      BY <3>2, <3>3, SMTT(30) DEF Kinds
  <2>7. ms[h].kind = k /\ (k = "resolve" <=> ms[h].tries > 0) /\ (k = "resp" <=> ms[h].kind = "resp")
    BY <1>0, <2>6a, <2>6b, SMTT(30)
  <2>8. Lists(ms, ac \cup {h}, W, tl, pf)
    <3>1. CASE k = "resolve"
      <4>1. /\ pf["resolve"] = Tail(pe["resolve"]) /\ pf["resp"] = pe["resp"]
            /\ Range(pe["resolve"]) = Range(pf["resolve"]) \cup {h} /\ h \notin Range(pf["resolve"])
            /\ IsInjective(pf["resolve"])
        BY <1>0, <2>4, <2>5, <3>1
      <4> QED
        BY <1>0, <1>1, <2>4, <2>5, <2>6, <4>1, ZenonT(60) DEF Lists, Kinds
    <3>2. CASE k = "resp"
      <4>1. /\ pf["resp"] = Tail(pe["resp"]) /\ pf["resolve"] = pe["resolve"]
            /\ Range(pe["resp"]) = Range(pf["resp"]) \cup {h} /\ h \notin Range(pf["resp"])
            /\ IsInjective(pf["resp"])
        BY <1>0, <2>4, <2>5, <3>2
      <4> QED
        BY <1>0, <1>1, <2>4, <2>5, <2>6, <4>1, SMTT(60) DEF Lists, Kinds
    <3> QED
      BY <1>0, <3>1, <3>2
  <2>9. Credit(ms, ac \cup {h}, W, pf, cr, "none")
    <3>1. (ac \cup {h}) \cup W = (ac \cup W) \cup {h} /\ h \in DOMAIN ms \ (ac \cup W)
      BY <2>4, <2>6
    <3>2. \A l \in Kinds : N((ac \cup W) \cup {h}, l) = N(ac \cup W, l) + IF ms[h].kind = l THEN 1 ELSE 0
      <4>1. ac \cup W \in SUBSET DOMAIN ms
        BY <1>1
      <4> QED
        <5>1. ASSUME NEW l \in Kinds
              PROVE  N((ac \cup W) \cup {h}, l) = N(ac \cup W, l) + IF ms[h].kind = l THEN 1 ELSE 0
          <6>1. \A m \in DOMAIN ms \ (ac \cup W) :
                  N((ac \cup W) \cup {m}, l) = N(ac \cup W, l) + IF ms[m].kind = l THEN 1 ELSE 0
            BY <1>1, <4>1, CountBy
          <6> QED
            BY <3>1, <6>1
        <5> QED
          BY <5>1
    <3> HIDE DEF N
    <3>3. \A l \in Kinds : /\ cr[l] + N((ac \cup {h}) \cup W, l) = IF l = "none" THEN Depth - 1 ELSE Depth
                           /\ pf[l] # <<>> => cr[l] = 0
      <4>1. ASSUME NEW l \in Kinds
            PROVE  /\ cr[l] + N((ac \cup {h}) \cup W, l) = IF l = "none" THEN Depth - 1 ELSE Depth
                   /\ pf[l] # <<>> => cr[l] = 0
        <5>1. CASE l = k
          <6>1. cr[l] + N(ac \cup W, l) = Depth - 1 /\ cr[l] \in Nat /\ N(ac \cup W, l) \in Nat /\ cr[l] = 0
            BY <1>2, <1>4, <5>1
          <6>2. N((ac \cup {h}) \cup W, l) = N(ac \cup W, l) + 1
            BY <2>7, <3>1, <3>2, <5>1
          <6> QED
            BY <1>0, <6>1, <6>2, DepthType, SMTT(30)
        <5>2. CASE l # k
          <6>1. /\ cr[l] + N(ac \cup W, l) = Depth /\ N(ac \cup W, l) \in Nat
                /\ pf[l] = pe[l] /\ (pe[l] # <<>> => cr[l] = 0)
            BY <1>2, <2>5, <5>2
          <6>2. N((ac \cup {h}) \cup W, l) = N(ac \cup W, l) + 0
            BY <2>7, <3>1, <3>2, <5>2
          <6> QED
            BY <1>0, <6>1, <6>2, SMTT(30)
        <5> QED
          BY <5>1, <5>2
      <4> QED
        BY <4>1
    <3> QED
      BY <3>3 DEF Credit, N
  <2>10. ToHandle(ms, ac \cup {h}, W, tl, pf) = ToHandle(ms, ac, W, tl, pe)
    <3>1. CASE k = "resolve"
      BY <1>0, <2>4, <2>5, <2>7, <3>1 DEF ToHandle
    <3>2. CASE k = "resp"
      BY <1>0, <2>4, <2>5, <2>7, <3>2 DEF ToHandle
    <3> QED
      BY <1>0, <3>1, <3>2
  <2>11. {m \in ac \cup {h} : ms[m].kind = "resp"} \cup Range(pf["resp"])
            = {m \in ac : ms[m].kind = "resp"} \cup Range(pe["resp"])
    <3>1. CASE k = "resolve"
      BY <1>0, <2>4, <2>5, <2>7, <3>1
    <3>2. CASE k = "resp"
      BY <1>0, <2>4, <2>5, <2>7, <3>2
    <3> QED
      BY <1>0, <3>1, <3>2
  <2>12. Holds(ms, ac \cup {h}, W, tl, pf) = Holds(ms, ac, W, tl, pe)
    BY <2>10, <2>11 DEF Holds
  <2> QED
    BY <1>1, <2>2, <2>8, <2>9, <2>10, <2>12 DEF Endpoint, GivesBack
<1> QED
  BY <1>3, <1>4

\* The messages are the same but for their tries.
SameMsgs(ms, mt) ==
    /\ Len(mt) = Len(ms) /\ DOMAIN mt = DOMAIN ms
    /\ \A n \in DOMAIN ms : mt[n].kind = ms[n].kind /\ mt[n].dest = ms[n].dest

WithTries(ms, m, t) == [ms EXCEPT ![m].tries = t]

\* Setting the tries of a resolve message.
LEMMA Retried ==
  ASSUME NEW ms, NEW D, Numbered(ms, D), NEW m \in DOMAIN ms, ms[m].kind = "resolve",
         NEW t \in 0..(Retries + 1)
  PROVE  LET mt == WithTries(ms, m, t)
         IN  /\ Numbered(mt, D) /\ SameMsgs(ms, mt) /\ mt[m].tries = t
             /\ \A n \in DOMAIN ms : n # m => mt[n] = ms[n]
             /\ \A S \in SUBSET DOMAIN ms, k \in Kinds : OfKind(mt, S, k) = OfKind(ms, S, k)
<1> DEFINE mt == WithTries(ms, m, t)
<1>1. ms \in Seq(Msg) /\ DOMAIN ms = 1..Len(ms) /\ Len(ms) \in Nat /\ ms \in [DOMAIN ms -> Msg]
  BY SMTT(30) DEF Numbered
<1>2. mt = [ms EXCEPT ![m] = [ms[m] EXCEPT !.tries = t]]
  BY <1>1 DEF WithTries
<1>3. ms[m] \in Msg
  BY <1>1
<1>4. [ms[m] EXCEPT !.tries = t] = [kind |-> ms[m].kind, dest |-> ms[m].dest, tries |-> t]
  BY <1>3, SMTT(30) DEF Msg
<1>5. [kind |-> ms[m].kind, dest |-> ms[m].dest, tries |-> t] \in Msg
  BY <1>3, DepthType DEF Msg
<1>6. /\ mt \in [DOMAIN ms -> Msg] /\ mt[m] = [kind |-> ms[m].kind, dest |-> ms[m].dest, tries |-> t]
      /\ \A n \in DOMAIN ms : n # m => mt[n] = ms[n]
  BY <1>1, <1>2, <1>4, <1>5
<1> HIDE DEF mt
<1>7. mt \in Seq(Msg) /\ Len(mt) = Len(ms) /\ DOMAIN mt = DOMAIN ms
  BY <1>1, <1>6, SMTT(30)
<1>8. /\ mt[m].kind = ms[m].kind /\ mt[m].dest = ms[m].dest /\ mt[m].tries = t
  BY <1>6, SMTT(30)
<1>9. SameMsgs(ms, mt)
  BY <1>6, <1>7, <1>8 DEF SameMsgs
<1>10. Numbered(mt, D)
  BY <1>6, <1>7, <1>8 DEF Numbered
<1>11. ASSUME NEW S \in SUBSET DOMAIN ms, NEW k \in Kinds PROVE OfKind(mt, S, k) = OfKind(ms, S, k)
  BY <1>9 DEF OfKind, SameMsgs
<1> QED
  BY <1>6, <1>8, <1>9, <1>10, <1>11 DEF mt

LEMMA WithTriesIsResolve ==
  ASSUME NEW ms, NEW D, Numbered(ms, D), NEW m \in DOMAIN ms, ms[m].tries > 0
  PROVE  ms[m].kind = "resolve" /\ ms[m].kind # "resp" /\ ms[m].tries \in 1..(Retries + 1)
<1>1. ms[m] \in Msg /\ (ms[m].kind = "resp" => ms[m].tries = 0)
  BY SMTT(30) DEF Numbered
<1>2. ms[m].kind \in Kinds /\ ms[m].tries \in 0..(Retries + 1)
  BY <1>1, DepthType DEF Msg
<1> QED
  BY <1>1, <1>2, DepthType, SMTT(30) DEF Kinds

ExpiresTo(ms, ac, W, tl, pe, D, m, q) ==
    /\ Endpoint(q.msgs, q.queues.active, W \ {m}, q.list, q.queues.pending, q.queues.credits, D, "none")
    /\ ToHandle(q.msgs, q.queues.active, W \ {m}, q.list, q.queues.pending) = ToHandle(ms, ac, W, tl, pe)
    /\ Holds(q.msgs, q.queues.active, W \ {m}, q.list, q.queues.pending) = Holds(ms, ac, W, tl, pe)
    /\ SameMsgs(ms, q.msgs)
    /\ q = [msgs |-> q.msgs, queues |-> [active |-> q.queues.active, pending |-> q.queues.pending,
                credits |-> q.queues.credits], list |-> q.list]

\* A message that has expired is sent again, or is put in the timeout list.
LEMMA ExpireStep ==
  ASSUME NEW ms, NEW ac, NEW W, NEW tl, NEW pe, NEW cr, NEW D, NEW m \in W,
         Endpoint(ms, ac, W, tl, pe, cr, D, "none")
  PROVE  ExpiresTo(ms, ac, W, tl, pe, D, m,
            Expire([msgs |-> ms, queues |-> [active |-> ac, pending |-> pe, credits |-> cr],
                    list |-> tl], m))
<1> DEFINE q0 == [msgs |-> ms, queues |-> [active |-> ac, pending |-> pe, credits |-> cr], list |-> tl]
           q == Expire(q0, m)
           Goal == ExpiresTo(ms, ac, W, tl, pe, D, m, q)
<1> SUFFICES Goal
  OBVIOUS
<1>0. "none" \notin Kinds /\ "resolve" \in Kinds /\ "resp" \in Kinds
  BY DEF Kinds
<1>1. /\ Numbered(ms, D) /\ Lists(ms, ac, W, tl, pe) /\ cr \in [Kinds -> Nat]
      /\ Credit(ms, ac, W, pe, cr, "none") /\ ms \in Seq(Msg)
      /\ ac \subseteq DOMAIN ms /\ W \subseteq DOMAIN ms /\ pe \in [Kinds -> Seq(DOMAIN ms)]
      /\ m \in DOMAIN ms /\ ms[m].tries > 0
  BY DEF Endpoint, Lists, Numbered
<1>2. ms[m].kind = "resolve" /\ ms[m].tries \in 1..(Retries + 1)
  BY <1>1, WithTriesIsResolve
<1>3. /\ \A n \in DOMAIN ms : ms[n] \in Msg
      /\ m \notin ac /\ m \notin Range(tl) /\ \A k \in Kinds : m \notin Range(pe[k])
      /\ Range(tl) \subseteq DOMAIN ms /\ \A k \in Kinds : Range(pe[k]) \subseteq DOMAIN ms
  BY <1>1, SMTT(30) DEF Lists, Range
<1>4. CASE ms[m].tries > 1
  <2> DEFINE t == ms[m].tries - 1
             mt == WithTries(ms, m, t)
  <2>1. t \in 0..(Retries + 1) /\ t > 0
    BY <1>2, <1>4, DepthType, SMTT(30)
  <2>2. q = [msgs |-> mt, queues |-> [active |-> ac \cup {m}, pending |-> pe, credits |-> cr], list |-> tl]
    BY <1>1, <1>4 DEF Expire, WithTries
  <2> HIDE DEF q, t
  <2>3. /\ Numbered(mt, D) /\ SameMsgs(ms, mt) /\ mt[m].tries = t
        /\ \A n \in DOMAIN ms : n # m => mt[n] = ms[n]
        /\ \A S \in SUBSET DOMAIN ms, k \in Kinds : OfKind(mt, S, k) = OfKind(ms, S, k)
    BY <1>1, <1>2, <2>1, Retried
  <2> HIDE DEF mt
  <2>4. DOMAIN mt = DOMAIN ms /\ \A n \in DOMAIN ms : mt[n].kind = ms[n].kind
    BY <2>3 DEF SameMsgs
  <2>5. Lists(mt, ac \cup {m}, W \ {m}, tl, pe)
    BY <1>0, <1>1, <1>3, <2>3, <2>4 DEF Lists
  <2>6. (ac \cup {m}) \cup (W \ {m}) = ac \cup W /\ ac \cup W \in SUBSET DOMAIN ms
    BY <1>1
  <2>7. Credit(mt, ac \cup {m}, W \ {m}, pe, cr, "none")
    BY <1>1, <2>3, <2>6 DEF Credit
  <2>8. ToHandle(mt, ac \cup {m}, W \ {m}, tl, pe) = ToHandle(ms, ac, W, tl, pe)
    BY <1>1, <1>3, <2>1, <2>3 DEF ToHandle
  <2>9. {n \in ac \cup {m} : mt[n].kind = "resp"} = {n \in ac : ms[n].kind = "resp"}
    BY <1>1, <1>2, <2>4
  <2>10. Holds(mt, ac \cup {m}, W \ {m}, tl, pe) = Holds(ms, ac, W, tl, pe)
    BY <2>8, <2>9 DEF Holds
  <2>11. /\ q.msgs = mt /\ q.queues.active = ac \cup {m} /\ q.queues.pending = pe
         /\ q.queues.credits = cr /\ q.list = tl
         /\ q = [msgs |-> q.msgs, queues |-> [active |-> q.queues.active,
                     pending |-> q.queues.pending, credits |-> q.queues.credits], list |-> q.list]
    BY <2>2
  <2> QED
    BY <1>1, <2>3, <2>5, <2>7, <2>8, <2>10, <2>11 DEF Endpoint, ExpiresTo
<1>5. CASE ~(ms[m].tries > 1)
  <2> DEFINE mt == WithTries(ms, m, 0)
             z == acmp_send_available([active |-> ac, pending |-> pe, credits |-> cr], "resolve")
             ul == Append(tl, m)
             V == W \ {m}
  <2>2. q = [msgs |-> mt, queues |-> z, list |-> ul]
    BY <1>1, <1>2, <1>5 DEF Expire, WithTries
  <2> HIDE DEF q, z
  <2>3. /\ Numbered(mt, D) /\ SameMsgs(ms, mt) /\ mt[m].tries = 0
        /\ \A n \in DOMAIN ms : n # m => mt[n] = ms[n]
        /\ \A S \in SUBSET DOMAIN ms, k \in Kinds : OfKind(mt, S, k) = OfKind(ms, S, k)
    <3>1. 0 \in 0..(Retries + 1)
      BY DepthType, SMTT(30)
    <3> QED
      BY <1>1, <1>2, <3>1, Retried
  <2> HIDE DEF mt
  <2>4. DOMAIN mt = DOMAIN ms /\ \A n \in DOMAIN ms : mt[n].kind = ms[n].kind
    BY <2>3 DEF SameMsgs
  <2>5. ul \in Seq(DOMAIN ms) /\ Range(ul) = Range(tl) \cup {m} /\ IsInjective(ul)
    <3>1. tl \in Seq(DOMAIN ms) /\ IsInjective(tl)
      BY <1>1 DEF Lists
    <3> QED
      BY <1>1, <1>3, <3>1, AppendTo, SMTT(30)
  <2> HIDE DEF ul, V
  <2>5a. V \subseteq W /\ m \notin V /\ V \cup {m} = W
    BY DEF V
  <2>6. Lists(mt, ac, V, ul, pe)
    BY <1>0, <1>1, <1>2, <1>3, <2>3, <2>4, <2>5, <2>5a, SMTT(30) DEF Lists
  <2>7. Credit(mt, ac, V, pe, cr, "resolve")
    <3>1. ac \cup V = (ac \cup W) \ {m} /\ m \in ac \cup W /\ ac \cup W \in SUBSET DOMAIN ms
          /\ ac \cup V \in SUBSET DOMAIN ms
      BY <1>1, <1>3, <2>5a
    <3>2. ASSUME NEW k \in Kinds
          PROVE  /\ cr[k] + Cardinality(OfKind(mt, ac \cup V, k)) = IF k = "resolve" THEN Depth - 1 ELSE Depth
                 /\ pe[k] # <<>> => cr[k] = 0
      <4>1. OfKind(mt, ac \cup V, k) = OfKind(ms, ac \cup V, k)
        BY <2>3, <3>1
      <4> DEFINE N(T) == Cardinality(OfKind(ms, T, k))
      <4>2. /\ N(ac \cup W) \in Nat
            /\ \A n \in ac \cup W : N((ac \cup W) \ {n}) = N(ac \cup W) - IF ms[n].kind = k THEN 1 ELSE 0
        BY <1>1, <3>1, CountBy
      <4>3. N(ac \cup V) = N(ac \cup W) - IF ms[m].kind = k THEN 1 ELSE 0
        BY <3>1, <4>2
      <4>4. cr[k] + N(ac \cup W) = Depth /\ (pe[k] # <<>> => cr[k] = 0) /\ cr[k] \in Nat
        BY <1>0, <1>1 DEF Credit
      <4> HIDE DEF N
      <4>5. cr[k] + N(ac \cup V) = IF k = "resolve" THEN Depth - 1 ELSE Depth
        <5>1. CASE k = "resolve"
          BY <1>2, <4>2, <4>3, <4>4, <5>1, DepthType, SMTT(30)
        <5>2. CASE k # "resolve"
          BY <1>2, <4>2, <4>3, <4>4, <5>2, SMTT(30)
        <5> QED
          BY <5>1, <5>2
      <4> QED
        BY <4>1, <4>4, <4>5 DEF N
    <3> QED
      BY <3>2 DEF Credit
  <2>8. Endpoint(mt, ac, V, ul, pe, cr, D, "resolve")
    BY <1>1, <2>3, <2>6, <2>7 DEF Endpoint
  <2>9. /\ Endpoint(mt, z.active, V, ul, z.pending, z.credits, D, "none")
        /\ ToHandle(mt, z.active, V, ul, z.pending) = ToHandle(mt, ac, V, ul, pe)
        /\ Holds(mt, z.active, V, ul, z.pending) = Holds(mt, ac, V, ul, pe)
        /\ z = [active |-> z.active, pending |-> z.pending, credits |-> z.credits]
    <3>1. GivesBack(mt, ac, V, ul, pe, D, z)
      BY <1>0, <2>8, Available DEF z
    <3> QED
      BY <3>1 DEF GivesBack
  <2>10. ToHandle(mt, ac, V, ul, pe) = ToHandle(ms, ac, W, tl, pe)
    BY <1>1, <1>3, <2>3, <2>5, <2>5a DEF ToHandle
  <2>11. {n \in ac : mt[n].kind = "resp"} = {n \in ac : ms[n].kind = "resp"}
    BY <1>1, <2>4
  <2>12. Holds(mt, ac, V, ul, pe) = Holds(ms, ac, W, tl, pe)
    BY <2>10, <2>11 DEF Holds
  <2>13. /\ q.msgs = mt /\ q.queues = z /\ q.list = ul
         /\ q = [msgs |-> q.msgs, queues |-> q.queues, list |-> q.list]
    BY <2>2
  <2> QED
    BY <2>3, <2>9, <2>10, <2>12, <2>13 DEF V, ExpiresTo
<1> QED
  BY <1>4, <1>5

-----------------------------------------------------------------------------
(* What the actions do to the endpoint.                                     *)

\* All messages are kept; m is handled; m is sent and holds nothing any more.
Kept == EndpointInv' /\ SameMsgs(msgs, msgs') /\ Unhandled' = Unhandled /\ Holding' = Holding
Handled(m) ==
    /\ EndpointInv' /\ SameMsgs(msgs, msgs')
    /\ m \in Unhandled /\ Unhandled' = Unhandled \ {m} /\ m \in Holding /\ Holding' = Holding \ {m}
Freed(m) ==
    /\ EndpointInv' /\ SameMsgs(msgs, msgs')
    /\ Unhandled' = Unhandled /\ m \in Holding /\ Holding' = Holding \ {m}
\* A message of kind k for o is new.
Posted(k, o) ==
    LET m == Len(msgs) + 1
    IN  /\ EndpointInv' /\ DOMAIN msgs' = DOMAIN msgs \cup {m}
        /\ \A n \in DOMAIN msgs : msgs'[n] = msgs[n]
        /\ msgs'[m].dest = o /\ m \notin Holding /\ Holding' = Holding \cup {m}
        /\ Unhandled' = IF k = "resolve" THEN Unhandled \cup {m} ELSE Unhandled

LEMMA EndpointNow ==
  ASSUME EndpointInv
  PROVE  /\ wait_queue \in Seq(DOMAIN msgs) /\ IsInjective(wait_queue)
         /\ Numbered(msgs, DOMAIN dest)
         /\ Lists(msgs, active, Range(wait_queue), timeout_list, pending)
         /\ credits \in [Kinds -> Nat]
         /\ Credit(msgs, active, Range(wait_queue), pending, credits, "none")
         /\ msgs \in Seq(Msg) /\ DOMAIN msgs = 1..Len(msgs) /\ Len(msgs) \in Nat
         /\ Range(wait_queue) \subseteq DOMAIN msgs /\ active \subseteq DOMAIN msgs
         /\ timeout_list \in Seq(DOMAIN msgs) /\ pending \in [Kinds -> Seq(DOMAIN msgs)]
BY EndpointIs, SMTT(30) DEF Endpoint, Lists, Numbered

LEMMA HeldAreMessages ==
  ASSUME EndpointInv
  PROVE  /\ Unhandled \subseteq Holding /\ Holding \subseteq DOMAIN msgs /\ IsFiniteSet(Holding)
         /\ \A m \in DOMAIN msgs : msgs[m].dest \in DOMAIN dest
<1>1. Holding \subseteq DOMAIN msgs /\ Unhandled \subseteq Holding
  BY EndpointNow, HoldingIs, SMTT(30) DEF Holding, Holds, ToHandle, Range, Kinds
<1>2. IsFiniteSet(DOMAIN msgs)
  BY EndpointNow, FS_Interval, SMTT(30)
<1>3. IsFiniteSet(Holding)
  BY <1>1, <1>2, FS_Subset
<1> QED
  BY <1>1, <1>3, EndpointNow DEF Numbered

RestOf(s, n) == {s[i] : i \in (n + 1)..Len(s)}
Rest(n) == RestOf(wait_queue, n)

\* The end of a list without repetitions.
LEMMA EndOf ==
  ASSUME NEW S, NEW s \in Seq(S), IsInjective(s), NEW n \in 0..Len(s)
  PROVE  LET t == SubSeq(s, n + 1, Len(s))
         IN  /\ t \in Seq(S) /\ IsInjective(t) /\ Range(t) = RestOf(s, n)
             /\ RestOf(s, 0) = Range(s)
             /\ n < Len(s) => s[n + 1] \in RestOf(s, n) /\ RestOf(s, n + 1) = RestOf(s, n) \ {s[n + 1]}
             /\ t # <<>> => s # <<>>
<1> DEFINE N == Len(s)
           t == SubSeq(s, n + 1, N)
           R(k) == {s[i] : i \in (k + 1)..N}
<1>1. N \in Nat /\ DOMAIN s = 1..N /\ n \in Nat /\ n <= N
  BY SMTT(30)
<1>2. t \in Seq(S) /\ Len(t) = N - n /\ DOMAIN t = 1..(N - n)
  <2>1. t \in Seq(S) /\ Len(t) = IF n + 1 <= N THEN (N - (n + 1)) + 1 ELSE 0
    BY <1>1, SMTT(30)
  <2>2. (n + 1 <= N => (N - (n + 1)) + 1 = N - n) /\ (~(n + 1 <= N) => N - n = 0)
    <3> HIDE DEF N
    <3> QED
      BY <1>1, SMTT(30)
  <2> QED
    BY <2>1, <2>2, SMTT(30)
<1>3. ASSUME NEW j \in 1..(N - n) PROVE t[j] = s[j + n]
  <2>1. t[j] = s[((n + 1) + j) - 1] /\ ((n + 1) + j) - 1 = j + n
    BY <1>1, SMTT(30)
  <2> QED
    BY <2>1
<1> HIDE DEF t, N
<1>4. IsInjective(t)
  BY <1>1, <1>2, <1>3, SMTT(30) DEF IsInjective
<1>5. Range(t) = R(n)
  <2>1. ASSUME NEW j \in 1..(N - n) PROVE t[j] \in R(n)
    <3>1. j + n \in (n + 1)..N
      BY <1>1, SMTT(30)
    <3> QED
      BY <1>3, <3>1
  <2>2. ASSUME NEW i \in (n + 1)..N PROVE s[i] \in Range(t)
    <3>1. i - n \in 1..(N - n) /\ (i - n) + n = i
      BY <1>1, SMTT(30)
    <3> QED
      BY <1>2, <1>3, <3>1 DEF Range
  <2> QED
    BY <1>2, <2>1, <2>2 DEF Range
<1>6. R(0) = Range(s)
  BY <1>1, SMTT(30) DEF Range
<1>7. ASSUME n < N PROVE s[n + 1] \in R(n) /\ R(n + 1) = R(n) \ {s[n + 1]}
  <2>1. n + 1 \in (n + 1)..N
    BY <1>1, <1>7, SMTT(30)
  <2>2. \A i \in ((n + 1) + 1)..N : i \in (n + 1)..N /\ s[i] # s[n + 1]
    BY <1>1, <1>7, SMTT(30) DEF IsInjective
  <2>3. \A i \in (n + 1)..N : i = n + 1 \/ i \in ((n + 1) + 1)..N
    BY <1>1, <1>7, SMTT(30)
  <2> QED
    BY <2>1, <2>2, <2>3
<1>8. t # <<>> => s # <<>>
  <2>1. s = <<>> => N = 0
    BY SMTT(30) DEF N
  <2>2. t # <<>> => Len(t) # 0
    BY <1>2, SMTT(30)
  <2> QED
    BY <1>1, <1>2, <2>1, <2>2, SMTT(30)
<1> QED
  BY <1>2, <1>4, <1>5, <1>6, <1>7, <1>8 DEF t, N, RestOf

Scans(n, q) ==
    /\ q = [msgs |-> q.msgs, queues |-> [active |-> q.queues.active, pending |-> q.queues.pending,
                credits |-> q.queues.credits], list |-> q.list]
    /\ Endpoint(q.msgs, q.queues.active, Rest(n), q.list, q.queues.pending, q.queues.credits,
                DOMAIN dest, "none")
    /\ ToHandle(q.msgs, q.queues.active, Rest(n), q.list, q.queues.pending) = Unhandled
    /\ Holds(q.msgs, q.queues.active, Rest(n), q.list, q.queues.pending) = Holding
    /\ SameMsgs(msgs, q.msgs)

\* The scan keeps the endpoint whole, message by message.
LEMMA ScanSteps ==
  ASSUME EndpointInv
  PROVE  \A n \in 0..Len(wait_queue) : Scans(n, Scanned[n])
<1> DEFINE N == Len(wait_queue)
           S == {n \in 0..N : Scans(n, Scanned[n])}
<1>0. /\ N \in Nat /\ wait_queue \in Seq(DOMAIN msgs) /\ IsInjective(wait_queue)
      /\ Endpoint(msgs, active, Range(wait_queue), timeout_list, pending, credits, DOMAIN dest, "none")
  BY EndpointIs, SMTT(30)
<1>1. /\ Scanned[0] = [msgs |-> msgs, queues |-> Queues, list |-> timeout_list]
      /\ \A n \in 1..N : Scanned[n] = Expire(Scanned[n - 1], wait_queue[n])
  BY <1>0, ScannedIs
<1>2. Scans(0, Scanned[0])
  <2>1. Rest(0) = Range(wait_queue)
    BY <1>0, EndOf, SMTT(30) DEF Rest
  <2>2. /\ Scanned[0].msgs = msgs /\ Scanned[0].queues = Queues /\ Scanned[0].list = timeout_list
        /\ Queues.active = active /\ Queues.pending = pending /\ Queues.credits = credits
    BY <1>1, SMTT(30) DEF Queues
  <2>3. SameMsgs(msgs, msgs)
    BY DEF SameMsgs
  <2> QED
    BY <1>0, <1>1, <2>1, <2>2, <2>3, HoldingIs DEF Scans, Holding, Queues
<1>3. ASSUME NEW n \in 0..N, Scans(n, Scanned[n]), n < N PROVE Scans(n + 1, Scanned[n + 1])
  <2> DEFINE q == Scanned[n]
             m == wait_queue[n + 1]
             r == Expire(q, m)
             ms == q.msgs
             ac == q.queues.active
             pe == q.queues.pending
             cr == q.queues.credits
             tl == q.list
             q0 == [msgs |-> ms, queues |-> [active |-> ac, pending |-> pe, credits |-> cr], list |-> tl]
             W == Rest(n)
  <2>1. n + 1 \in 1..N /\ (n + 1) - 1 = n
    BY <1>0, <1>3, SMTT(30)
  <2>2. Scanned[n + 1] = r
    BY <1>1, <2>1
  <2>3. m \in W /\ Rest(n + 1) = W \ {m}
    BY <1>0, <1>3, EndOf, SMTT(30) DEF Rest
  <2> HIDE DEF W, m
  <2>4. /\ q = q0 /\ Endpoint(ms, ac, W, tl, pe, cr, DOMAIN dest, "none")
        /\ ToHandle(ms, ac, W, tl, pe) = Unhandled /\ Holds(ms, ac, W, tl, pe) = Holding
        /\ SameMsgs(msgs, ms)
    BY <1>3 DEF Scans, W
  <2> DEFINE e == Expire(q0, m)
  <2>5. r = e
    BY <2>4
  <2> HIDE DEF r, q, ms, ac, pe, cr, tl
  <2>6. ExpiresTo(ms, ac, W, tl, pe, DOMAIN dest, m, e)
    BY <2>3, <2>4, ExpireStep
  <2> HIDE DEF e, q0
  <2>7. SameMsgs(msgs, e.msgs)
    BY <2>4, <2>6 DEF SameMsgs, ExpiresTo
  <2>8. Scans(n + 1, e)
    BY <2>3, <2>4, <2>6, <2>7 DEF Scans, ExpiresTo
  <2> QED
    BY <2>2, <2>5, <2>8
<1>4. 0 \in S /\ \A i \in 0..N : i \in S /\ i < N => i + 1 \in S
  <2>1. \A i \in 0..N : i < N => i + 1 \in 0..N
    BY <1>0, SMTT(30)
  <2> QED
    BY <1>0, <1>2, <1>3, <2>1, SMTT(30)
<1> HIDE DEF S, N
<1>5. 0..N \subseteq S
  BY <1>0, <1>4, UpTo
<1> QED
  BY <1>5 DEF S, N

LEMMA ScanKeeps ==
  ASSUME EndpointInv, acmp_process_wait_queue
  PROVE  Kept /\ (wait_queue' # <<>> => wait_queue # <<>>)
<1>1. PICK n \in 0..Len(wait_queue) :
        /\ msgs' = Scanned[n].msgs /\ SetQueues(Scanned[n].queues) /\ timeout_list' = Scanned[n].list
        /\ wait_queue' = SubSeq(wait_queue, n + 1, Len(wait_queue))
  BY DEF acmp_process_wait_queue
<1>2. dest' = dest
  BY DEF acmp_process_wait_queue
<1>3. Scans(n, Scanned[n])
  BY ScanSteps
<1>4. /\ active' = Scanned[n].queues.active /\ pending' = Scanned[n].queues.pending
      /\ credits' = Scanned[n].queues.credits
  BY <1>1 DEF SetQueues
<1>5. wait_queue \in Seq(DOMAIN msgs) /\ IsInjective(wait_queue)
  BY EndpointNow
<1>6. /\ wait_queue' \in Seq(DOMAIN msgs) /\ IsInjective(wait_queue') /\ Range(wait_queue') = Rest(n)
      /\ (wait_queue' # <<>> => wait_queue # <<>>)
  BY <1>1, <1>5, EndOf, SMTT(30) DEF Rest
<1>7. DOMAIN msgs' = DOMAIN msgs /\ SameMsgs(msgs, msgs')
  BY <1>1, <1>3 DEF Scans, SameMsgs
<1>8. Endpoint(msgs', active', Range(wait_queue'), timeout_list', pending', credits', DOMAIN dest', "none")
  BY <1>1, <1>2, <1>3, <1>4, <1>6 DEF Scans
<1>9. EndpointInv'
  BY <1>6, <1>7, <1>8, EndpointIsNext
<1>10. Unhandled' = Unhandled /\ Holding' = Holding
  BY <1>1, <1>3, <1>4, <1>6, HoldingIs DEF Scans
<1> QED
  BY <1>6, <1>7, <1>9, <1>10 DEF Kept

\* Lists over the same messages.
LEMMA KeptBy ==
  ASSUME EndpointInv, msgs' = msgs,
         wait_queue' \in Seq(DOMAIN msgs), IsInjective(wait_queue'), DOMAIN dest \subseteq DOMAIN dest',
         Lists(msgs, active', Range(wait_queue'), timeout_list', pending'), credits' \in [Kinds -> Nat],
         Credit(msgs, active', Range(wait_queue'), pending', credits', "none")
  PROVE  EndpointInv' /\ SameMsgs(msgs, msgs')
<1>1. Numbered(msgs', DOMAIN dest')
  BY EndpointNow DEF Numbered
<1>2. EndpointInv'
  BY <1>1, EndpointIsNext DEF Endpoint
<1> QED
  BY <1>2 DEF SameMsgs

LEMMA Untouched ==
  ASSUME EndpointInv, UNCHANGED <<msgs, active, wait_queue, timeout_list, pending, credits>>,
         DOMAIN dest \subseteq DOMAIN dest'
  PROVE  Kept
<1>1. EndpointInv' /\ SameMsgs(msgs, msgs')
  BY EndpointNow, KeptBy
<1>2. Unhandled' = Unhandled /\ Holding' = Holding
  BY HoldingIs DEF Holding
<1> QED
  BY <1>1, <1>2 DEF Kept

LEMMA SendWaits ==
  ASSUME EndpointInv, NEW m \in active, msgs[m].tries > 0, DOMAIN dest' = DOMAIN dest,
         active' = active \ {m}, wait_queue' = Append(wait_queue, m),
         UNCHANGED <<msgs, timeout_list, pending, credits>>
  PROVE  Kept
<1> DEFINE W == Range(wait_queue)
           V == Range(wait_queue')
<1>1. /\ Lists(msgs, active, W, timeout_list, pending) /\ Numbered(msgs, DOMAIN dest)
      /\ m \in DOMAIN msgs /\ m \notin W /\ wait_queue \in Seq(DOMAIN msgs) /\ IsInjective(wait_queue)
      /\ active \subseteq DOMAIN msgs
  BY EndpointNow DEF Lists
<1>2. wait_queue' \in Seq(DOMAIN msgs) /\ IsInjective(wait_queue') /\ V = W \cup {m}
  BY <1>1, AppendTo, SMTT(30)
<1>3. msgs[m].kind = "resolve" /\ msgs[m].kind # "resp"
  BY <1>1, WithTriesIsResolve
<1> HIDE DEF W, V
<1>4. Lists(msgs, active \ {m}, W \cup {m}, timeout_list, pending)
  BY <1>1 DEF Lists
<1>5. (active \ {m}) \cup (W \cup {m}) = active \cup W
  OBVIOUS
<1>6. Credit(msgs, active \ {m}, W \cup {m}, pending, credits, "none")
  BY <1>5, EndpointNow DEF Credit, W
<1>7. EndpointInv' /\ SameMsgs(msgs, msgs')
  BY <1>2, <1>4, <1>6, EndpointNow, KeptBy DEF V
<1>8. ToHandle(msgs, active \ {m}, W \cup {m}, timeout_list, pending) = ToHandle(msgs, active, W, timeout_list, pending)
  BY <1>1 DEF ToHandle
<1>9. Holds(msgs, active \ {m}, W \cup {m}, timeout_list, pending) = Holds(msgs, active, W, timeout_list, pending)
  <2>1. {n \in active \ {m} : msgs[n].kind = "resp"} = {n \in active : msgs[n].kind = "resp"}
    BY <1>3
  <2> QED
    BY <1>8, <2>1 DEF Holds
<1> QED
  BY <1>2, <1>7, <1>8, <1>9, HoldingIs DEF Kept, Holding, W, V

\* Taking one message out of the active or the waiting ones leaves its credit to be given back.
LEMMA CreditOut ==
  ASSUME EndpointInv, NEW A \in SUBSET DOMAIN msgs, NEW V \in SUBSET DOMAIN msgs,
         NEW m \in active \cup Range(wait_queue),
         A \cup V = (active \cup Range(wait_queue)) \ {m}
  PROVE  Credit(msgs, A, V, pending, credits, msgs[m].kind)
<1> DEFINE S == active \cup Range(wait_queue)
           j == msgs[m].kind
<1>0. "none" \notin Kinds
  BY DEF Kinds
<1>1. /\ S \in SUBSET DOMAIN msgs /\ msgs \in Seq(Msg) /\ m \in S /\ credits \in [Kinds -> Nat]
      /\ Credit(msgs, active, Range(wait_queue), pending, credits, "none")
  BY EndpointNow
<1> SUFFICES ASSUME NEW k \in Kinds
             PROVE  /\ credits[k] + Cardinality(OfKind(msgs, S \ {m}, k)) = IF k = j THEN Depth - 1 ELSE Depth
                    /\ pending[k] # <<>> => credits[k] = 0
  BY DEF Credit
<1> DEFINE N(T) == Cardinality(OfKind(msgs, T, k))
<1>2. /\ N(S) \in Nat
      /\ \A n \in S : N(S \ {n}) = N(S) - IF msgs[n].kind = k THEN 1 ELSE 0
  BY <1>1, CountBy
<1>3. credits[k] + N(S) = Depth /\ (pending[k] # <<>> => credits[k] = 0) /\ credits[k] \in Nat
  BY <1>0, <1>1 DEF Credit
<1>4. N(S \ {m}) = N(S) - IF j = k THEN 1 ELSE 0
  BY <1>1, <1>2
<1> HIDE DEF N, S, j
<1>5. CASE k = j
  BY <1>2, <1>3, <1>4, <1>5, DepthType, SMTT(30) DEF N
<1>6. CASE k # j
  BY <1>2, <1>3, <1>4, <1>6, SMTT(30) DEF N
<1> QED
  BY <1>5, <1>6

LEMMA SendDone ==
  ASSUME EndpointInv, NEW m \in active, ~(msgs[m].tries > 0), DOMAIN dest' = DOMAIN dest,
         SetQueues(acmp_send_available([Queues EXCEPT !.active = @ \ {m}], msgs[m].kind)),
         UNCHANGED <<msgs, wait_queue, timeout_list>>
  PROVE  (msgs[m].kind = "resp" => Freed(m)) /\ (msgs[m].kind # "resp" => Kept)
<1> DEFINE W == Range(wait_queue)
           A == active \ {m}
           k == msgs[m].kind
           q == acmp_send_available([active |-> A, pending |-> pending, credits |-> credits], k)
<1>1. /\ Lists(msgs, active, W, timeout_list, pending) /\ Numbered(msgs, DOMAIN dest)
      /\ m \in DOMAIN msgs /\ wait_queue \in Seq(DOMAIN msgs) /\ IsInjective(wait_queue)
      /\ active \subseteq DOMAIN msgs /\ W \subseteq DOMAIN msgs /\ msgs \in Seq(Msg)
      /\ credits \in [Kinds -> Nat]
  BY EndpointNow
<1>2. active' = q.active /\ pending' = q.pending /\ credits' = q.credits
  <2>1. [Queues EXCEPT !.active = @ \ {m}] = [active |-> A, pending |-> pending, credits |-> credits]
    BY SMTT(30) DEF Queues
  <2> QED
    BY <2>1 DEF SetQueues
<1>3. k \in Kinds
  <2>1. msgs[m] \in Msg
    BY <1>1, SMTT(30)
  <2> QED
    BY <2>1 DEF Msg
<1>4. m \notin W /\ m \notin Range(timeout_list) /\ \A l \in Kinds : m \notin Range(pending[l])
  BY <1>1 DEF Lists
<1>5. Lists(msgs, A, W, timeout_list, pending)
  BY <1>1 DEF Lists
<1>6. Credit(msgs, A, W, pending, credits, k)
  <2>1. A \cup W = (active \cup W) \ {m} /\ A \in SUBSET DOMAIN msgs
    BY <1>1, <1>4
  <2> QED
    BY <1>1, <2>1, CreditOut
<1>7. Endpoint(msgs, A, W, timeout_list, pending, credits, DOMAIN dest, k)
  BY <1>1, <1>5, <1>6 DEF Endpoint
<1>8. /\ Endpoint(msgs, q.active, W, timeout_list, q.pending, q.credits, DOMAIN dest, "none")
      /\ ToHandle(msgs, q.active, W, timeout_list, q.pending) = ToHandle(msgs, A, W, timeout_list, pending)
      /\ Holds(msgs, q.active, W, timeout_list, q.pending) = Holds(msgs, A, W, timeout_list, pending)
  <2>1. GivesBack(msgs, A, W, timeout_list, pending, DOMAIN dest, q)
    BY <1>3, <1>7, Available
  <2> QED
    BY <2>1 DEF GivesBack
<1> HIDE DEF q
<1>9. EndpointInv' /\ SameMsgs(msgs, msgs')
  <2>1. EndpointInv'
    BY <1>1, <1>2, <1>8, EndpointIsNext
  <2> QED
    BY <2>1 DEF SameMsgs
<1>10. ToHandle(msgs, A, W, timeout_list, pending) = ToHandle(msgs, active, W, timeout_list, pending)
  BY DEF ToHandle
<1>11. Unhandled' = Unhandled
  BY <1>2, <1>8, <1>10, HoldingIs
<1>12. Holding' = Holds(msgs, A, W, timeout_list, pending)
  BY <1>2, <1>8, HoldingIs
<1>13. ASSUME k = "resp" PROVE m \in Holding /\ Holding' = Holding \ {m}
  BY <1>4, <1>10, <1>12, <1>13 DEF Holding, Holds, ToHandle, Kinds
<1>14. ASSUME k # "resp" PROVE Holding' = Holding
  BY <1>10, <1>12, <1>14 DEF Holding, Holds
<1> QED
  BY <1>9, <1>11, <1>13, <1>14 DEF Freed, Kept

LEMMA ResponseTakes ==
  ASSUME EndpointInv, NEW m \in DOMAIN msgs, acmp_get_request(m),
         DOMAIN dest' = DOMAIN dest, timeout_list' = timeout_list
  PROVE  Handled(m) /\ (wait_queue' # <<>> => wait_queue # <<>>)
<1> DEFINE W == Range(wait_queue)
           Goal == Handled(m) /\ (wait_queue' # <<>> => wait_queue # <<>>)
<1> SUFFICES Goal
  OBVIOUS
<1>0. "none" \notin Kinds /\ "resolve" \in Kinds /\ "resp" \in Kinds
  BY DEF Kinds
<1>1. /\ Lists(msgs, active, W, timeout_list, pending) /\ Numbered(msgs, DOMAIN dest)
      /\ wait_queue \in Seq(DOMAIN msgs) /\ IsInjective(wait_queue)
      /\ active \subseteq DOMAIN msgs /\ W \subseteq DOMAIN msgs /\ msgs \in Seq(Msg)
      /\ credits \in [Kinds -> Nat] /\ pending \in [Kinds -> Seq(DOMAIN msgs)]
      /\ Credit(msgs, active, W, pending, credits, "none")
  BY EndpointNow
<1>2. ASSUME NEW i \in DOMAIN wait_queue, wait_queue[i] = m, wait_queue' = list_del(wait_queue, i),
             SetQueues(acmp_send_available(Queues, "resolve")), msgs' = msgs
      PROVE  Goal
  <2> DEFINE V == Range(wait_queue')
             q == acmp_send_available([active |-> active, pending |-> pending, credits |-> credits], "resolve")
  <2>1. /\ m \in W /\ wait_queue # <<>> /\ wait_queue' \in Seq(DOMAIN msgs) /\ V = W \ {m}
        /\ IsInjective(wait_queue')
    BY <1>1, <1>2, TakeOut
  <2>2. active' = q.active /\ pending' = q.pending /\ credits' = q.credits
    BY <1>2 DEF SetQueues, Queues
  <2> HIDE DEF V
  <2>3. msgs[m].tries > 0 /\ m \notin active /\ m \notin Range(timeout_list)
        /\ \A l \in Kinds : m \notin Range(pending[l])
    BY <1>1, <2>1 DEF Lists
  <2>4. msgs[m].kind = "resolve" /\ msgs[m].kind # "resp"
    BY <1>1, <2>3, WithTriesIsResolve
  <2>5. Lists(msgs, active, V, timeout_list, pending)
    BY <1>1, <2>1 DEF Lists
  <2>6. Credit(msgs, active, V, pending, credits, "resolve")
    <3>1. active \cup V = (active \cup W) \ {m} /\ V \in SUBSET DOMAIN msgs /\ active \in SUBSET DOMAIN msgs
      BY <1>1, <2>1, <2>3
    <3>2. m \in active \cup W
      BY <2>1
    <3>3. Credit(msgs, active, V, pending, credits, msgs[m].kind)
      BY <3>1, <3>2, CreditOut
    <3> QED
      BY <2>4, <3>3
  <2>7. Endpoint(msgs, active, V, timeout_list, pending, credits, DOMAIN dest, "resolve")
    BY <1>1, <2>5, <2>6 DEF Endpoint
  <2>8. /\ Endpoint(msgs, q.active, V, timeout_list, q.pending, q.credits, DOMAIN dest, "none")
        /\ ToHandle(msgs, q.active, V, timeout_list, q.pending) = ToHandle(msgs, active, V, timeout_list, pending)
        /\ Holds(msgs, q.active, V, timeout_list, q.pending) = Holds(msgs, active, V, timeout_list, pending)
    <3>1. GivesBack(msgs, active, V, timeout_list, pending, DOMAIN dest, q)
      BY <1>0, <2>7, Available
    <3> QED
      BY <3>1 DEF GivesBack
  <2> HIDE DEF q
  <2>9. EndpointInv' /\ SameMsgs(msgs, msgs')
    <3>1. EndpointInv'
      BY <1>2, <2>1, <2>2, <2>8, EndpointIsNext DEF V
    <3> QED
      BY <1>2, <3>1 DEF SameMsgs
  <2>10. /\ Unhandled' = ToHandle(msgs, active, V, timeout_list, pending)
         /\ Holding' = Holds(msgs, active, V, timeout_list, pending)
    BY <1>2, <2>2, <2>8, HoldingIs DEF V
  <2>11. m \in Unhandled /\ Unhandled' = Unhandled \ {m}
    BY <1>0, <2>1, <2>3, <2>10, HoldingIs DEF ToHandle
  <2>12. m \in Holding /\ Holding' = Holding \ {m}
    BY <1>0, <2>3, <2>4, <2>10, <2>11, HoldingIs DEF Holds, Holding
  <2> QED
    BY <2>1, <2>9, <2>11, <2>12 DEF Handled
<1>3. ASSUME m \in active, msgs[m].tries > 0, msgs' = [msgs EXCEPT ![m].tries = 0],
             UNCHANGED <<wait_queue, active, pending, credits>>
      PROVE  Goal
  <2> DEFINE mt == WithTries(msgs, m, 0)
  <2>0. msgs' = mt
    BY <1>3 DEF WithTries
  <2>1. msgs[m].kind = "resolve" /\ msgs[m].kind # "resp"
    BY <1>1, <1>3, WithTriesIsResolve
  <2>2. /\ Numbered(mt, DOMAIN dest) /\ SameMsgs(msgs, mt) /\ mt[m].tries = 0
        /\ \A n \in DOMAIN msgs : n # m => mt[n] = msgs[n]
        /\ \A S \in SUBSET DOMAIN msgs, k \in Kinds : OfKind(mt, S, k) = OfKind(msgs, S, k)
    <3>1. 0 \in 0..(Retries + 1)
      BY DepthType, SMTT(30)
    <3> QED
      BY <1>1, <2>1, <3>1, Retried, SMTT(30)
  <2> HIDE DEF mt
  <2>3. m \notin W /\ m \notin Range(timeout_list) /\ \A l \in Kinds : m \notin Range(pending[l])
    BY <1>1, <1>3 DEF Lists
  <2>4. DOMAIN mt = DOMAIN msgs /\ \A n \in DOMAIN msgs : mt[n].kind = msgs[n].kind
    BY <2>2 DEF SameMsgs
  <2>4a. Range(timeout_list) \subseteq DOMAIN msgs /\ \A l \in Kinds : Range(pending[l]) \subseteq DOMAIN msgs
    BY <1>1, SMTT(30) DEF Lists, Range
  <2>5. Lists(mt, active, W, timeout_list, pending)
    BY <1>0, <1>1, <2>2, <2>3, <2>4, <2>4a DEF Lists
  <2>6. Credit(mt, active, W, pending, credits, "none")
    <3>1. active \cup W \in SUBSET DOMAIN msgs
      BY <1>1
    <3> QED
      BY <1>1, <2>2, <3>1 DEF Credit
  <2>7. Endpoint(mt, active, W, timeout_list, pending, credits, DOMAIN dest, "none")
    BY <1>1, <2>2, <2>5, <2>6 DEF Endpoint
  <2>8. EndpointInv' /\ SameMsgs(msgs, msgs')
    BY <1>1, <1>3, <2>0, <2>2, <2>4, <2>7, EndpointIsNext
  <2>9. m \in Unhandled /\ Unhandled' = Unhandled \ {m}
    <3>1. {n \in active : mt[n].tries > 0} = {n \in active : msgs[n].tries > 0} \ {m}
      BY <1>1, <2>2, SMTT(30)
    <3> QED
      BY <1>0, <1>3, <2>0, <2>3, <3>1, HoldingIs, SMTT(30) DEF ToHandle
  <2>10. m \in Holding /\ Holding' = Holding \ {m}
    <3>1. {n \in active : mt[n].kind = "resp"} = {n \in active : msgs[n].kind = "resp"}
      BY <1>1, <2>4
    <3>2. Holding' = Unhandled' \cup {n \in active : mt[n].kind = "resp"} \cup Range(pending["resp"])
      BY <1>3, <2>0, HoldingIs DEF Holds
    <3>3. Holding = Unhandled \cup {n \in active : msgs[n].kind = "resp"} \cup Range(pending["resp"])
      BY HoldingIs DEF Holds, Holding
    <3> QED
      BY <1>0, <2>1, <2>3, <2>9, <3>1, <3>2, <3>3
  <2> QED
    BY <1>3, <2>8, <2>9, <2>10 DEF Handled
<1> HIDE DEF Goal
<1> QED
  BY <1>2, <1>3 DEF acmp_get_request

LEMMA TimedOut ==
  ASSUME EndpointInv, timeout_list # <<>>, timeout_list' = Tail(timeout_list),
         DOMAIN dest' = DOMAIN dest, UNCHANGED <<msgs, active, wait_queue, pending, credits>>
  PROVE  Handled(Head(timeout_list)) /\ Head(timeout_list) \in DOMAIN msgs
<1> DEFINE W == Range(wait_queue)
           m == Head(timeout_list)
           tl == Tail(timeout_list)
<1>0. "resolve" \in Kinds /\ "resp" \in Kinds
  BY DEF Kinds
<1>1. /\ Lists(msgs, active, W, timeout_list, pending)
      /\ timeout_list \in Seq(DOMAIN msgs) /\ IsInjective(timeout_list)
  BY EndpointNow DEF Lists
<1>2. /\ m \in DOMAIN msgs /\ tl \in Seq(DOMAIN msgs) /\ m \in Range(timeout_list)
      /\ Range(timeout_list) = Range(tl) \cup {m} /\ IsInjective(tl) /\ m \notin Range(tl)
  BY <1>1, TakeFrom
<1>2a. timeout_list' = tl
  OBVIOUS
<1> HIDE DEF m, tl
<1>3. m \notin W /\ m \notin active /\ (\A l \in Kinds : m \notin Range(pending[l])) /\ msgs[m].kind = "resolve"
  BY <1>1, <1>2 DEF Lists
<1>4. Lists(msgs, active, W, tl, pending)
  BY <1>1, <1>2 DEF Lists
<1>5. EndpointInv' /\ SameMsgs(msgs, msgs')
  BY <1>2a, <1>4, EndpointNow, KeptBy
<1>6. m \in Unhandled /\ Unhandled' = Unhandled \ {m}
  BY <1>0, <1>2, <1>2a, <1>3, HoldingIs DEF ToHandle
<1>7. m \in Holding /\ Holding' = Holding \ {m}
  BY <1>0, <1>2a, <1>3, <1>6, HoldingIs DEF Holds, Holding
<1> QED
  BY <1>2, <1>5, <1>6, <1>7 DEF Handled, m

LEMMA Posting ==
  ASSUME EndpointInv, NEW k \in Kinds, NEW o \in DOMAIN dest, NEW t, DOMAIN dest' = DOMAIN dest,
         dest \in Seq(Dest), acmp_post_send(k, o, t),
         \/ k = "resolve" /\ t = Retries + 1
         \/ k = "resp" /\ t = 0
  PROVE  Posted(k, o)
<1> DEFINE W == Range(wait_queue)
           m == Len(msgs) + 1
           mt == msgs'
           new == [kind |-> k, dest |-> o, tries |-> t]
<1>0. "none" \notin Kinds /\ "resolve" \in Kinds /\ "resp" \in Kinds /\ (k = "resolve" \/ k = "resp")
  BY DEF Kinds
<1>1. /\ Lists(msgs, active, W, timeout_list, pending) /\ Numbered(msgs, DOMAIN dest)
      /\ wait_queue \in Seq(DOMAIN msgs) /\ IsInjective(wait_queue)
      /\ active \subseteq DOMAIN msgs /\ W \subseteq DOMAIN msgs /\ msgs \in Seq(Msg)
      /\ credits \in [Kinds -> Nat] /\ pending \in [Kinds -> Seq(DOMAIN msgs)]
      /\ Credit(msgs, active, W, pending, credits, "none")
      /\ DOMAIN msgs = 1..Len(msgs) /\ Len(msgs) \in Nat /\ timeout_list \in Seq(DOMAIN msgs)
  BY EndpointNow
<1>2. new \in Msg /\ o \in Nat
  BY <1>0, DepthType, SMTT(30) DEF Msg
<1>3. /\ mt \in Seq(Msg) /\ Len(mt) = Len(msgs) + 1 /\ DOMAIN mt = DOMAIN msgs \cup {m}
      /\ (\A n \in DOMAIN msgs : mt[n] = msgs[n]) /\ mt[m] = new /\ m \notin DOMAIN msgs
  <2>1. mt = Append(msgs, new)
    BY DEF acmp_post_send, acmp_alloc_send
  <2> QED
    BY <1>1, <1>2, <2>1, SMTT(30)
<1>4. mt[m].kind = k /\ mt[m].dest = o /\ mt[m].tries = t /\ (k = "resolve" <=> t > 0)
  BY <1>0, <1>3, DepthType, SMTT(30)
<1>4a. msgs' = mt
  OBVIOUS
<1> HIDE DEF m, new, mt
<1>5. Numbered(mt, DOMAIN dest')
  BY <1>0, <1>1, <1>3, <1>4 DEF Numbered
<1>6. /\ Range(timeout_list) \subseteq DOMAIN msgs /\ \A l \in Kinds : Range(pending[l]) \subseteq DOMAIN msgs
      /\ wait_queue \in Seq(DOMAIN mt) /\ timeout_list \in Seq(DOMAIN mt)
      /\ pending \in [Kinds -> Seq(DOMAIN mt)]
  <2>1. Seq(DOMAIN msgs) \subseteq Seq(DOMAIN mt)
    BY <1>3, SMTT(30)
  <2>2. Range(timeout_list) \subseteq DOMAIN msgs
    BY <1>1, SMTT(30) DEF Range
  <2>3. ASSUME NEW l \in Kinds PROVE Range(pending[l]) \subseteq DOMAIN msgs /\ pending[l] \in Seq(DOMAIN mt)
    <3>1. pending[l] \in Seq(DOMAIN msgs)
      BY <1>1
    <3> QED
      BY <2>1, <3>1, SMTT(30) DEF Range
  <2>4. wait_queue \in Seq(DOMAIN mt) /\ timeout_list \in Seq(DOMAIN mt)
    BY <1>1, <2>1
  <2>5. pending \in [Kinds -> Seq(DOMAIN mt)]
    BY <1>1, <2>3
  <2> QED
    BY <2>2, <2>3, <2>4, <2>5
<1>7. \A l \in Kinds : /\ OfKind(mt, active \cup W, l) = OfKind(msgs, active \cup W, l)
                       /\ Cardinality(OfKind(mt, active \cup W, l)) \in Nat
  <2>1. active \cup W \in SUBSET DOMAIN msgs /\ active \cup W \in SUBSET DOMAIN mt
    BY <1>1, <1>3
  <2>2. \A l \in Kinds : OfKind(mt, active \cup W, l) = OfKind(msgs, active \cup W, l)
    BY <1>3, <2>1 DEF OfKind
  <2>3. ASSUME NEW l \in Kinds PROVE Cardinality(OfKind(mt, active \cup W, l)) \in Nat
    BY <1>3, <2>1, CountBy
  <2> QED
    BY <2>2, <2>3
<1>8. wait_queue' = wait_queue /\ timeout_list' = timeout_list
  BY DEF acmp_post_send
<1>9. m \notin Holding
  BY <1>3, HeldAreMessages
<1> DEFINE NewLists ==
             /\ EndpointInv' /\ Holding' = Holding \cup {m}
             /\ Unhandled' = IF k = "resolve" THEN Unhandled \cup {m} ELSE Unhandled
<1>10. ASSUME credits[k] > 0 PROVE NewLists
  <2> DEFINE A == active \cup {m}
             c == [credits EXCEPT ![k] = @ - 1]
  <2>1. active' = A /\ credits' = c /\ pending' = pending
    BY <1>10 DEF acmp_post_send, m
  <2>2. c \in [Kinds -> Nat] /\ c[k] = credits[k] - 1 /\ \A l \in Kinds : l # k => c[l] = credits[l]
    BY <1>1, <1>10, SMTT(30)
  <2> HIDE DEF c
  <2>3. Lists(mt, A, W, timeout_list, pending)
    BY <1>0, <1>1, <1>3, <1>6, SMTT(30) DEF Lists
  <2>4. Credit(mt, A, W, pending, c, "none")
    <3>1. active \cup W \in SUBSET DOMAIN mt /\ m \in DOMAIN mt \ (active \cup W)
          /\ A \cup W = (active \cup W) \cup {m}
      BY <1>1, <1>3
    <3>2. ASSUME NEW l \in Kinds
          PROVE  /\ c[l] + Cardinality(OfKind(mt, A \cup W, l)) = IF l = "none" THEN Depth - 1 ELSE Depth
                 /\ pending[l] # <<>> => c[l] = 0
      <4> DEFINE N(T) == Cardinality(OfKind(mt, T, l))
      <4>1. \A n \in DOMAIN mt \ (active \cup W) :
              N((active \cup W) \cup {n}) = N(active \cup W) + IF mt[n].kind = l THEN 1 ELSE 0
        <5>1. mt \in Seq(Msg) /\ active \cup W \in SUBSET DOMAIN mt
          BY <1>3, <3>1
        <5> QED
          BY <5>1, CountBy
      <4>2. N((active \cup W) \cup {m}) = N(active \cup W) + IF k = l THEN 1 ELSE 0
        BY <1>4, <3>1, <4>1
      <4>3. /\ credits[l] + N(active \cup W) = Depth /\ (pending[l] # <<>> => credits[l] = 0)
            /\ credits[l] \in Nat /\ N(active \cup W) \in Nat /\ l # "none"
        BY <1>0, <1>1, <1>7 DEF Credit
      <4> HIDE DEF N
      <4>4. CASE l = k
        <5>1. c[l] = credits[l] - 1 /\ credits[l] > 0
          BY <1>10, <2>2, <4>4
        <5>2. N(A \cup W) = N(active \cup W) + 1
          BY <3>1, <4>2, <4>4
        <5>3. c[l] + N(A \cup W) = Depth /\ pending[l] = <<>>
          BY <4>3, <5>1, <5>2, DepthType, SMTT(60)
        <5> QED
          BY <4>3, <5>3 DEF N
      <4>5. CASE l # k
        <5>1. c[l] = credits[l] /\ N(A \cup W) = N(active \cup W) + 0
          BY <2>2, <3>1, <4>2, <4>5
        <5>2. c[l] + N(A \cup W) = Depth
          BY <4>3, <5>1, SMTT(30)
        <5> QED
          BY <4>3, <5>1, <5>2 DEF N
      <4> QED
        BY <4>4, <4>5
    <3> QED
      BY <3>2 DEF Credit
  <2>5. EndpointInv'
    BY <1>1, <1>4a, <1>5, <1>6, <1>8, <2>1, <2>2, <2>3, <2>4, EndpointIsNext DEF Endpoint
  <2>6. {n \in A : mt[n].tries > 0} = {n \in active : msgs[n].tries > 0} \cup IF k = "resolve" THEN {m} ELSE {}
    BY <1>1, <1>3, <1>4
  <2>7. {n \in A : mt[n].kind = "resp"} = {n \in active : msgs[n].kind = "resp"} \cup IF k = "resp" THEN {m} ELSE {}
    BY <1>1, <1>3, <1>4
  <2>8. Unhandled' = IF k = "resolve" THEN Unhandled \cup {m} ELSE Unhandled
    BY <1>8, <2>1, <2>6, <1>4a, HoldingIs DEF ToHandle
  <2>9. /\ Holding' = Unhandled' \cup {n \in A : mt[n].kind = "resp"} \cup Range(pending["resp"])
        /\ Holding = Unhandled \cup {n \in active : msgs[n].kind = "resp"} \cup Range(pending["resp"])
    BY <1>8, <2>1, <1>4a, HoldingIs DEF Holds, Holding
  <2>10. Holding' = Holding \cup {m}
    BY <1>0, <2>7, <2>8, <2>9
  <2> QED
    BY <2>5, <2>8, <2>10
<1>11. ASSUME ~(credits[k] > 0) PROVE NewLists
  <2> DEFINE p == [pending EXCEPT ![k] = Append(@, m)]
  <2>1. active' = active /\ credits' = credits /\ pending' = p
    BY <1>11 DEF acmp_post_send, m
  <2>2. /\ pending[k] \in Seq(DOMAIN mt) /\ IsInjective(pending[k]) /\ m \in DOMAIN mt
        /\ m \notin Range(pending[k])
    BY <1>1, <1>3, <1>6 DEF Lists
  <2>3. /\ Append(pending[k], m) \in Seq(DOMAIN mt) /\ Range(Append(pending[k], m)) = Range(pending[k]) \cup {m}
        /\ IsInjective(Append(pending[k], m))
    BY <2>2, AppendTo, SMTT(30)
  <2>4. p \in [Kinds -> Seq(DOMAIN mt)] /\ p[k] = Append(pending[k], m) /\ \A l \in Kinds : l # k => p[l] = pending[l]
    BY <1>6, <2>3
  <2>4a. Range(p[k]) = Range(pending[k]) \cup {m} /\ IsInjective(p[k])
    BY <2>3, <2>4
  <2> HIDE DEF p
  <2>5. Lists(mt, active, W, timeout_list, p)
    <3>a. \A l \in Kinds : IsInjective(p[l])
      BY <1>1, <2>4, <2>4a DEF Lists
    <3>b. \A n \in Range(timeout_list) : mt[n].kind = "resolve"
      BY <1>1, <1>3, <1>6 DEF Lists
    <3>c. ASSUME NEW l \in Kinds
          PROVE  (active \cup W \cup Range(timeout_list)) \cap Range(p[l]) = {}
      <4>1. (active \cup W \cup Range(timeout_list)) \cap Range(pending[l]) = {}
        BY <1>1 DEF Lists
      <4>2. m \notin active \cup W \cup Range(timeout_list)
        BY <1>1, <1>3, <1>6
      <4>3. Range(p[l]) \subseteq Range(pending[l]) \cup {m}
        BY <2>4, <2>4a
      <4> QED
        BY <4>1, <4>2, <4>3
    <3>d. active \subseteq DOMAIN mt /\ W \subseteq DOMAIN mt
      BY <1>1, <1>3
    <3>1. CASE k = "resolve"
      <4>1. p["resp"] = pending["resp"] /\ Range(p["resolve"]) = Range(pending["resolve"]) \cup {m} /\ IsInjective(p["resolve"])
        BY <1>0, <2>4, <2>4a, <3>1
      <4>3. /\ \A n \in W \cup Range(p["resolve"]) : mt[n].tries > 0
            /\ \A n \in Range(p["resp"]) : mt[n].kind = "resp"
        BY <1>0, <1>1, <1>3, <1>4, <1>6, <3>1, <4>1 DEF Lists
      <4>6. Range(p["resolve"]) \cap Range(p["resp"]) = {}
        BY <1>0, <1>1, <1>3, <1>6, <4>1, SMTT(30) DEF Lists
      <4> QED
        BY <1>1, <1>6, <2>4, <3>a, <3>b, <3>c, <3>d, <4>3, <4>6 DEF Lists
    <3>2. CASE k = "resp"
      <4>1. p["resolve"] = pending["resolve"] /\ Range(p["resp"]) = Range(pending["resp"]) \cup {m} /\ IsInjective(p["resp"])
        BY <1>0, <2>4, <2>4a, <3>2
      <4>3. /\ \A n \in W \cup Range(p["resolve"]) : mt[n].tries > 0
            /\ \A n \in Range(p["resp"]) : mt[n].kind = "resp"
        BY <1>0, <1>1, <1>3, <1>4, <1>6, <3>2, <4>1 DEF Lists
      <4>6. Range(p["resolve"]) \cap Range(p["resp"]) = {}
        BY <1>0, <1>1, <1>3, <1>6, <4>1, SMTT(30) DEF Lists
      <4> QED
        BY <1>1, <1>6, <2>4, <3>a, <3>b, <3>c, <3>d, <4>3, <4>6 DEF Lists
    <3> QED
      BY <1>0, <3>1, <3>2
  <2>6. Credit(mt, active, W, p, credits, "none")
    <3>1. credits[k] \in Nat /\ credits[k] = 0
      BY <1>1, <1>11, SMTT(30)
    <3> QED
      BY <1>1, <1>7, <2>4, <3>1 DEF Credit
  <2>7. EndpointInv'
    BY <1>1, <1>4a, <1>5, <1>6, <1>8, <2>1, <2>5, <2>6, EndpointIsNext DEF Endpoint
  <2>8. /\ {n \in active : mt[n].tries > 0} = {n \in active : msgs[n].tries > 0}
        /\ {n \in active : mt[n].kind = "resp"} = {n \in active : msgs[n].kind = "resp"}
    BY <1>1, <1>3
  <2>9. CASE k = "resolve"
    <3>1. p["resp"] = pending["resp"] /\ Range(p["resolve"]) = Range(pending["resolve"]) \cup {m}
      BY <1>0, <2>4, <2>4a, <2>9
    <3>2. Unhandled' = Unhandled \cup {m}
      BY <1>8, <2>1, <2>8, <3>1, <1>4a, HoldingIs DEF ToHandle
    <3>3. Holding' = Holding \cup {m}
      BY <2>1, <2>8, <3>1, <3>2, <1>4a, HoldingIs DEF Holds, Holding
    <3> QED
      BY <2>7, <2>9, <3>2, <3>3
  <2>10. CASE k = "resp"
    <3>1. p["resolve"] = pending["resolve"] /\ Range(p["resp"]) = Range(pending["resp"]) \cup {m}
      BY <1>0, <2>4, <2>4a, <2>10
    <3>2. Unhandled' = Unhandled
      BY <1>8, <2>1, <2>8, <3>1, <1>4a, HoldingIs DEF ToHandle
    <3>3. Holding' = Holding \cup {m}
      BY <2>1, <2>8, <3>1, <3>2, <1>4a, HoldingIs DEF Holds, Holding
    <3> QED
      BY <2>7, <2>10, <3>2, <3>3
  <2> QED
    BY <1>0, <2>9, <2>10
<1> QED
  BY <1>3, <1>4, <1>9, <1>4a, <1>10, <1>11 DEF Posted, m

-----------------------------------------------------------------------------
(* Who holds a destination, before and after a step.                        *)

One(b) == IF b THEN 1 ELSE 0
Eq(x, y) == IF x = y THEN 1 ELSE 0
Ref(j, o) == IF j.ref /\ j.dest = o THEN 1 ELSE 0

\* A set in which only the membership of x changes.
LEMMA SwapCount ==
  ASSUME NEW S, IsFiniteSet(S), NEW x, NEW T, NEW b \in BOOLEAN,
         T = IF b THEN S \cup {x} ELSE S \ {x}
  PROVE  /\ Cardinality(T) = (Cardinality(S) - One(x \in S)) + One(b)
         /\ Cardinality(S) \in Nat /\ Cardinality(T) \in Nat
<1>1. Cardinality(S) \in Nat
  BY FS_CardinalityType
<1>2. CASE b /\ x \in S
  <2>1. T = S
    BY <1>2
  <2> QED
    BY <1>1, <1>2, <2>1, SMTT(30) DEF One
<1>3. CASE b /\ x \notin S
  <2>1. Cardinality(S \cup {x}) = Cardinality(S) + 1
    BY <1>3, FS_AddElement
  <2>2. T = S \cup {x}
    BY <1>3
  <2> QED
    BY <1>1, <1>3, <2>1, <2>2, SMTT(30) DEF One
<1>4. CASE ~b /\ x \in S
  <2>1. Cardinality(S \ {x}) = Cardinality(S) - 1 /\ Cardinality(S \ {x}) \in Nat
    <3>1. IsFiniteSet(S \ {x})
      BY FS_Subset
    <3> QED
      BY <1>4, <3>1, FS_RemoveElement, FS_CardinalityType
  <2>2. T = S \ {x}
    BY <1>4
  <2> QED
    BY <1>1, <1>4, <2>1, <2>2, SMTT(30) DEF One
<1>5. CASE ~b /\ x \notin S
  <2>1. T = S
    BY <1>5
  <2> QED
    BY <1>1, <1>5, <2>1, SMTT(30) DEF One
<1> QED
  BY <1>2, <1>3, <1>4, <1>5

Have(o) == [at |-> "have", dest |-> o]
InReq(rq, o) == {r \in Requests : rq[r] = Have(o)}
InJob(jb, o) == {t \in Threads : jb[t].ref /\ jb[t].dest = o}
InMsg(H, ms, o) == {m \in H : ms[m].dest = o}

LEMMA RefsAre ==
  (RefsExact <=> \A o \in DOMAIN dest :
      dest[o].refs = 1 + Cardinality(InReq(req, o)) + Cardinality(InJob(job, o))
                       + Cardinality(InMsg(Holding, msgs, o)))
BY HoldingIs DEF RefsExact, InReq, InJob, InMsg, HoldingRequests, HoldingThreads, Have

LEMMA RefsAreNext ==
  (RefsExact' <=> \A o \in DOMAIN dest' :
      dest'[o].refs = 1 + Cardinality(InReq(req', o)) + Cardinality(InJob(job', o))
                        + Cardinality(InMsg(Holding', msgs', o)))
<1>1. (RefsExact <=> \A o \in DOMAIN dest :
        dest[o].refs = 1 + Cardinality(InReq(req, o)) + Cardinality(InJob(job, o))
                         + Cardinality(InMsg(Holding, msgs, o)))'
  BY RefsAre, PTL
<1> QED
  BY <1>1

LEMMA RequestCount ==
  ASSUME NEW r \in Requests, NEW v, req' = [req EXCEPT ![r] = v],
         DOMAIN req = Requests, NEW o
  PROVE  /\ Cardinality(InReq(req', o)) =
              (Cardinality(InReq(req, o)) - Eq(req[r], Have(o))) + Eq(v, Have(o))
         /\ Cardinality(InReq(req, o)) \in Nat /\ Cardinality(InReq(req', o)) \in Nat
<1> DEFINE S == InReq(req, o)
           T == InReq(req', o)
           b == v = Have(o)
<1>1. IsFiniteSet(S)
  <2>1. IsFiniteSet(Requests)
    BY OptionsAssumption
  <2> QED
    BY <2>1, FS_Subset DEF InReq
<1>2. (r \in S <=> req[r] = Have(o)) /\ T = IF b THEN S \cup {r} ELSE S \ {r}
  BY DEF InReq
<1> HIDE DEF S, T, b
<1>3. /\ Cardinality(T) = (Cardinality(S) - One(r \in S)) + One(b)
      /\ Cardinality(S) \in Nat /\ Cardinality(T) \in Nat
  <2>1. b \in BOOLEAN
    BY DEF b
  <2> QED
    BY <1>1, <1>2, <2>1, SwapCount, SMTT(30)
<1>4. One(r \in S) = Eq(req[r], Have(o)) /\ One(b) = Eq(v, Have(o))
  BY <1>2 DEF One, Eq, b
<1> QED
  BY <1>3, <1>4 DEF S, T, b

LEMMA ThreadsFinite == ASSUME NEW o PROVE IsFiniteSet(InJob(job, o))
<1>1. IsFiniteSet(Threads)
  <2>1. IsFiniteSet({"comp", "retry", "sa"})
    <3>1. IsFiniteSet({"comp"}) /\ IsFiniteSet({"retry"}) /\ IsFiniteSet({"sa"})
      BY FS_Singleton
    <3>2. IsFiniteSet({"comp"} \cup {"retry"})
      BY <3>1, FS_Union
    <3>3. IsFiniteSet(({"comp"} \cup {"retry"}) \cup {"sa"})
      BY <3>1, <3>2, FS_Union
    <3>4. {"comp", "retry", "sa"} = ({"comp"} \cup {"retry"}) \cup {"sa"}
      OBVIOUS
    <3> QED
      BY <3>3, <3>4
  <2> QED
    BY <2>1 DEF Threads
<1> QED
  BY <1>1, FS_Subset DEF InJob

LEMMA ThreadCount ==
  ASSUME NEW t \in Threads, NEW v \in Job, job' = [job EXCEPT ![t] = v], job \in [Threads -> Job], NEW o
  PROVE  /\ Cardinality(InJob(job', o)) = (Cardinality(InJob(job, o)) - Ref(job[t], o)) + Ref(v, o)
         /\ Cardinality(InJob(job, o)) \in Nat /\ Cardinality(InJob(job', o)) \in Nat
<1> DEFINE S == InJob(job, o)
           T == InJob(job', o)
           b == v.ref /\ v.dest = o
<1>1. IsFiniteSet(S)
  BY ThreadsFinite
<1>2. (t \in S <=> job[t].ref /\ job[t].dest = o) /\ T = IF b THEN S \cup {t} ELSE S \ {t}
  BY DEF InJob
<1>3. b \in BOOLEAN /\ v.ref \in BOOLEAN /\ job[t].ref \in BOOLEAN
  BY DEF Job
<1> HIDE DEF S, T, b
<1>4. /\ Cardinality(T) = (Cardinality(S) - One(t \in S)) + One(b)
      /\ Cardinality(S) \in Nat /\ Cardinality(T) \in Nat
  BY <1>1, <1>2, <1>3, SwapCount
<1>5. One(t \in S) = Ref(job[t], o) /\ One(b) = Ref(v, o)
  BY <1>2 DEF One, Ref, b
<1> QED
  BY <1>4, <1>5 DEF S, T, b

LEMMA MessageCount ==
  ASSUME EndpointInv, NEW o
  PROVE  /\ Cardinality(InMsg(Holding, msgs, o)) \in Nat
         /\ Kept => Cardinality(InMsg(Holding', msgs', o)) = Cardinality(InMsg(Holding, msgs, o))
         /\ \A m : Handled(m) \/ Freed(m) =>
              Cardinality(InMsg(Holding', msgs', o)) = Cardinality(InMsg(Holding, msgs, o)) - Eq(msgs[m].dest, o)
         /\ \A k, p : Posted(k, p) =>
              Cardinality(InMsg(Holding', msgs', o)) = Cardinality(InMsg(Holding, msgs, o)) + Eq(p, o)
<1> DEFINE S == InMsg(Holding, msgs, o)
           T == InMsg(Holding', msgs', o)
<1>1. Holding \subseteq DOMAIN msgs /\ IsFiniteSet(Holding)
  BY HeldAreMessages
<1>2. S = {m \in Holding : msgs[m].dest = o} /\ T = {m \in Holding' : msgs'[m].dest = o}
  BY DEF InMsg
<1>3. IsFiniteSet(S)
  BY <1>1, <1>2, FS_Subset
<1>4. Cardinality(S) \in Nat
  BY <1>3, FS_CardinalityType
<1> HIDE DEF S, T
<1>5. ASSUME Kept PROVE Cardinality(T) = Cardinality(S)
  <2>1. T = S
    BY <1>1, <1>2, <1>5 DEF Kept, SameMsgs
  <2> QED
    BY <2>1
<1>6. ASSUME NEW m, Handled(m) \/ Freed(m) PROVE Cardinality(T) = Cardinality(S) - Eq(msgs[m].dest, o)
  <2>1. m \in Holding /\ Holding' = Holding \ {m} /\ SameMsgs(msgs, msgs')
    BY <1>6 DEF Handled, Freed
  <2>2. T = S \ {m} /\ (m \in S <=> msgs[m].dest = o)
    BY <1>1, <1>2, <2>1 DEF SameMsgs
  <2>3. CASE msgs[m].dest = o
    BY <1>3, <2>2, <2>3, FS_RemoveElement DEF Eq
  <2>4. CASE msgs[m].dest # o
    <3>1. T = S
      BY <2>2, <2>4
    <3> QED
      BY <1>4, <2>4, <3>1, SMTT(30) DEF Eq
  <2> QED
    BY <2>3, <2>4
<1>7. ASSUME NEW k, NEW p, Posted(k, p) PROVE Cardinality(T) = Cardinality(S) + Eq(p, o)
  <2> DEFINE m == Len(msgs) + 1
  <2>1. /\ m \notin Holding /\ Holding' = Holding \cup {m} /\ msgs'[m].dest = p
        /\ \A n \in DOMAIN msgs : msgs'[n] = msgs[n]
    BY <1>7 DEF Posted
  <2> HIDE DEF m
  <2>2. T = (IF p = o THEN S \cup {m} ELSE S) /\ m \notin S
    BY <1>1, <1>2, <2>1
  <2>3. CASE p = o
    BY <1>3, <2>2, <2>3, FS_AddElement DEF Eq
  <2>4. CASE p # o
    BY <1>4, <2>2, <2>4, SMTT(30) DEF Eq
  <2> QED
    BY <2>3, <2>4
<1> QED
  BY <1>4, <1>5, <1>6, <1>7 DEF S, T
=============================================================================
