----------------------------- MODULE AcmpProofs -----------------------------
(***************************************************************************)
(* Proofs about Acmp, for any requests, options, send queues and uses.     *)
(***************************************************************************)
EXTENDS AcmpSteps

\* A leaf is for Zenon unless it names another prover.
USE ZenonT(30)

-----------------------------------------------------------------------------
(* The clients: a destination is found or made, and the request answered,   *)
(* queued or sent.                                                          *)

(* Destination g is taken: an old one, or a new one at the end.             *)
Acquires(g) ==
    /\ dest' \in Seq(Dest) /\ Len(dest') <= env.dests /\ DOMAIN dest \subseteq DOMAIN dest'
    /\ map' \in [Addrs -> 0..Len(dest')] /\ g \in DOMAIN dest' /\ DOMAIN dest' = DOMAIN dest \cup {g}
    /\ \A p \in DOMAIN dest : /\ dest'[p].state = dest[p].state /\ dest'[p].path = dest[p].path
                              /\ dest'[p].queue = dest[p].queue
                              /\ dest'[p].refs = dest[p].refs + Eq(g, p)
    /\ g \notin DOMAIN dest => g = Len(dest) + 1 /\ dest'[g] = NewDest

LEMMA AcquireIs ==
  ASSUME AInv, NEW a \in Addrs, NEW expired \in BOOLEAN, CanAcquire(a, expired),
         dest' = acmp_acquire_dest(a, expired).dest, map' = acmp_acquire_dest(a, expired).map
  PROVE  Acquires(acmp_acquire_dest(a, expired).got)
<1> DEFINE o == map[a]
           N == Len(dest)
           g == acmp_acquire_dest(a, expired).got
<1>0. /\ dest \in Seq(Dest) /\ N \in Nat /\ N <= env.dests /\ env.dests \in Nat /\ DOMAIN dest = 1..N
      /\ map \in [Addrs -> 0..N] /\ \A p \in DOMAIN dest : dest[p] \in Dest
  BY ShapeNow DEF AInv
<1>1. CASE o = 0 \/ expired
  <2>1. g = N + 1 /\ map' = [map EXCEPT ![a] = N + 1] /\ dest' = Append(dest, NewDest) /\ N < env.dests
    BY <1>1 DEF acmp_acquire_dest, CanAcquire
  <2>2. NewDest \in Dest
    <3>1. <<>> \in Seq(Requests)
      BY SMTT(30)
    <3> QED
      BY <3>1, SMTT(30) DEF NewDest, Dest, States, Paths
  <2> HIDE DEF g
  <2>3. /\ dest' \in Seq(Dest) /\ Len(dest') = N + 1 /\ DOMAIN dest' = 1..(N + 1) /\ dest'[N + 1] = NewDest
        /\ \A p \in 1..N : dest'[p] = dest[p]
    BY <1>0, <2>1, <2>2, SMTT(30)
  <2>4. map' \in [Addrs -> 0..(N + 1)]
    <3>1. \A b \in Addrs : map'[b] \in 0..(N + 1)
      BY <1>0, <2>1, SMTT(30)
    <3> QED
      BY <1>0, <2>1, <3>1
  <2>5. DOMAIN dest' = DOMAIN dest \cup {g} /\ g \notin DOMAIN dest
    BY <1>0, <2>1, <2>3, SMTT(30)
  <2>6. ASSUME NEW p \in DOMAIN dest PROVE dest'[p] = dest[p] /\ dest'[p].refs = dest[p].refs + Eq(g, p)
    <3>1. dest[p].refs \in Int /\ Eq(g, p) = 0
      BY <1>0, <2>5 DEF Dest, Eq
    <3> QED
      BY <1>0, <2>3, <3>1, SMTT(30)
  <2>7. N + 1 <= env.dests
    BY <1>0, <2>1, SMTT(30)
  <2>8. Acquires(g)
    BY <2>1, <2>3, <2>4, <2>5, <2>6, <2>7 DEF Acquires
  <2> QED
    BY <2>8 DEF g
<1>2. CASE ~(o = 0 \/ expired)
  <2>1. g = o /\ map' = map /\ dest' = [dest EXCEPT ![o].refs = @ + 1]
    BY <1>2 DEF acmp_acquire_dest
  <2>2. o \in DOMAIN dest /\ dest[o] \in Dest
    BY <1>0, <1>2, SMTT(30)
  <2> DEFINE e == [dest[o] EXCEPT !.refs = @ + 1]
  <2>3. dest' = [dest EXCEPT ![o] = e]
    BY <2>1
  <2>4. /\ e \in Dest /\ e.state = dest[o].state /\ e.queue = dest[o].queue /\ e.path = dest[o].path
        /\ e.refs = dest[o].refs + 1
    BY <2>2, GetIs
  <2> HIDE DEF g, e
  <2>5. /\ dest' \in Seq(Dest) /\ Len(dest') = N /\ DOMAIN dest' = DOMAIN dest
        /\ dest'[o] = e /\ \A p \in DOMAIN dest : p # o => dest'[p] = dest[p]
    BY <1>0, <2>2, <2>3, <2>4, SMTT(30)
  <2>6. ASSUME NEW p \in DOMAIN dest
        PROVE  /\ dest'[p].state = dest[p].state /\ dest'[p].path = dest[p].path
               /\ dest'[p].queue = dest[p].queue /\ dest'[p].refs = dest[p].refs + Eq(g, p)
    <3>1. CASE p = o
      BY <2>1, <2>4, <2>5, <3>1 DEF Eq
    <3>2. CASE p # o
      <4>1. Eq(g, p) = 0 /\ dest'[p] = dest[p] /\ dest[p].refs \in Int
        BY <1>0, <2>1, <2>5, <3>2 DEF Eq, Dest
      <4> QED
        BY <4>1, SMTT(30)
    <3> QED
      BY <3>1, <3>2
  <2>7. Acquires(g)
    BY <1>0, <2>1, <2>2, <2>5, <2>6, SMTT(30) DEF Acquires
  <2> QED
    BY <2>7 DEF g
<1> QED
  BY <1>1, <1>2

\* Nothing refers to a destination that does not exist yet.
LEMMA NobodyRefers ==
  ASSUME AInv, NEW g, g \notin DOMAIN dest
  PROVE  /\ InReq(req, g) = {} /\ InJob(job, g) = {} /\ InMsg(Holding, msgs, g) = {}
<1>0. Shape /\ EndpointInv
  BY DEF AInv
<1>1. InReq(req, g) = {}
  <2>1. \A r \in Requests : req[r] # Have(g)
    <3>1. Have(g).at = "have" /\ Have(g).dest = g
      BY DEF Have
    <3> QED
      BY <1>0, <3>1, ShapeNow
  <2> QED
    BY <2>1 DEF InReq
<1>2. InJob(job, g) = {}
  <2>1. ASSUME NEW t \in Threads, job[t].ref PROVE job[t].dest # g
    <3>1. job[t] # NoJob /\ JobOK(t, job[t], Len(dest))
      BY <1>0, <2>1, ShapeNow, NoJobHolds
    <3>2. job[t].dest \in DOMAIN dest
      BY <1>0, <3>1, ShapeNow DEF JobOK
    <3> QED
      BY <3>2
  <2> QED
    BY <2>1 DEF InJob
<1>3. InMsg(Holding, msgs, g) = {}
  <2>1. \A m \in Holding : msgs[m].dest \in DOMAIN dest
    BY <1>0, HeldAreMessages
  <2> QED
    BY <2>1 DEF InMsg
<1> QED
  BY <1>1, <1>2, <1>3

\* A client or the completion handler takes destination g.
LEMMA GotStep ==
  ASSUME AInv, NEW g, Acquires(g), Runs, UNCHANGED <<sa, reply, taken>>,
         UNCHANGED <<msgs, active, wait_queue, timeout_list, pending, credits>>,
         job' \in [Threads -> Job], \A t \in Threads : JobOK(t, job'[t], Len(dest')),
         \A t \in Threads : job'[t] = job[t] \/ (job[t].at # "complete" /\ job'[t].at # "complete"),
         req' \in [Requests -> [at : {"new", "have", "done"}, dest : Nat]],
         \A r \in Requests : req'[r] = req[r] \/ (req[r].at = "new" /\ req'[r] = Have(g)),
         \A p : /\ Cardinality(InReq(req, p)) \in Nat /\ Cardinality(InJob(job, p)) \in Nat
                /\ Cardinality(InReq(req', p)) \in Nat /\ Cardinality(InJob(job', p)) \in Nat
                /\ Cardinality(InReq(req', p)) + Cardinality(InJob(job', p)) =
                     (Cardinality(InReq(req, p)) + Cardinality(InJob(job, p))) + Eq(g, p)
  PROVE  AInv'
<1>0. Shape /\ EndpointInv /\ AnswersInv /\ PursuitInv /\ RefsExact
  BY DEF AInv
<1>1. /\ dest' \in Seq(Dest) /\ Len(dest') <= env.dests /\ DOMAIN dest \subseteq DOMAIN dest'
      /\ map' \in [Addrs -> 0..Len(dest')] /\ g \in DOMAIN dest' /\ DOMAIN dest' = DOMAIN dest \cup {g}
      /\ \A p \in DOMAIN dest : /\ dest'[p].state = dest[p].state /\ dest'[p].path = dest[p].path
                                /\ dest'[p].queue = dest[p].queue
                                /\ dest'[p].refs = dest[p].refs + Eq(g, p)
      /\ g \notin DOMAIN dest => g = Len(dest) + 1 /\ dest'[g] = NewDest
  BY DEF Acquires
<1>2. NewDest.state = "INIT" /\ NewDest.queue = <<>> /\ NewDest.refs = 2
  BY DEF NewDest
<1>3. Kept
  BY <1>0, <1>1, Untouched
<1>4. DOMAIN dest' = 1..Len(dest') /\ Len(dest') \in Nat /\ Len(dest) \in Nat /\ DOMAIN dest = 1..Len(dest)
  <2>1. dest' \in Seq(Dest)
    BY <1>1
  <2>2. DOMAIN dest' = 1..Len(dest') /\ Len(dest') \in Nat
    BY <2>1, SMTT(30)
  <2> QED
    BY <1>0, <2>2, ShapeNow
<1>5. Have(g).at = "have" /\ Have(g).dest = g
  BY DEF Have
<1>6. Shape'
  <2>1. \A r \in Requests : req'[r].at = "have" => req'[r].dest \in 1..Len(dest')
    <3>1. \A r \in Requests : req[r].at = "have" => req[r].dest \in DOMAIN dest'
      BY <1>0, <1>1, ShapeNow
    <3> QED
      BY <1>1, <1>4, <1>5, <3>1
  <2> QED
    BY <1>0, <1>1, <2>1, ShapeNow, ShapeBy DEF Runs
<1>7. \A r \in Requests : req[r].at = "done" => req'[r] = req[r]
  OBVIOUS
<1>8. AnswersInv'
  <2>0. /\ AnsweredOnce /\ SuccessMeansResolved /\ \A r \in Requests : req[r].at # "done" => reply[r] = <<>>
    BY <1>0 DEF AnswersInv, AnswersRight
  <2>1. AnsweredOnce'
    <3>1. ASSUME NEW p \in DOMAIN dest'
          PROVE  /\ IsInjective(dest'[p].queue)
                 /\ \A q \in Range(dest'[p].queue) : reply'[q] = <<>> /\ req'[q] = [at |-> "done", dest |-> p]
      <4>1. CASE p \in DOMAIN dest
        <5>1. /\ IsInjective(dest[p].queue)
              /\ \A q \in Range(dest[p].queue) : reply[q] = <<>> /\ req[q] = [at |-> "done", dest |-> p]
          BY <2>0, <4>1 DEF AnsweredOnce, Queued
        <5>2. dest'[p].queue = dest[p].queue
          BY <1>1, <4>1
        <5>3. Range(dest[p].queue) \subseteq Requests
          <6>1. dest[p] \in Dest
            BY <1>0, <4>1, ShapeNow
          <6>2. dest[p].queue \in Seq(Requests)
            BY <6>1 DEF Dest
          <6> QED
            BY <6>2, SMTT(30) DEF Range
        <5>4. ASSUME NEW q \in Range(dest[p].queue) PROVE req'[q] = req[q]
          <6>1. q \in Requests /\ req[q].at = "done"
            BY <5>1, <5>3, SMTT(30)
          <6> QED
            BY <1>7, <6>1
        <5> QED
          BY <5>1, <5>2, <5>4
      <4>2. CASE p \notin DOMAIN dest
        <5>1. dest'[p].queue = <<>>
          BY <1>1, <1>2, <4>2
        <5>2. Range(<<>>) = {} /\ IsInjective(<<>>)
          BY SMTT(30) DEF Range, IsInjective
        <5> QED
          BY <5>1, <5>2
      <4> QED
        BY <4>1, <4>2
    <3> QED
      BY <2>0, <3>1 DEF AnsweredOnce, Queued
  <2>2. \A r \in Requests : reply[r] # <<>> => req'[r] = req[r]
    BY <1>7, <2>0
  <2>3. SuccessMeansResolved'
    BY <2>0, <2>2 DEF SuccessMeansResolved
  <2>4. \A r \in Requests : req'[r].at # "done" => reply'[r] = <<>>
    BY <2>0, <2>2
  <2>5. ASSUME NEW p \in DOMAIN dest'
        PROVE  /\ dest'[p].state = "READY" => dest'[p].path = "full"
               /\ dest'[p].state = "ADDR_RESOLVED" => dest'[p].path = "addr"
    <3>1. CASE p \in DOMAIN dest
      <4>1. /\ dest[p].state = "READY" => dest[p].path = "full"
            /\ dest[p].state = "ADDR_RESOLVED" => dest[p].path = "addr"
        BY <1>0, <3>1 DEF AnswersInv
      <4> QED
        BY <1>1, <3>1, <4>1
    <3>2. CASE p \notin DOMAIN dest
      <4>1. dest'[p].state = "INIT"
        BY <1>1, <1>2, <3>2
      <4> QED
        BY <4>1
    <3> QED
      BY <3>1, <3>2
  <2>6. ASSUME NEW t \in Threads, job'[t].at = "complete", job'[t].status = "ok", job'[t].dest \notin taken'
        PROVE  dest'[job'[t].dest].state = "READY"
    <3>1. job'[t] = job[t]
      BY <2>6
    <3>2. job[t] # NoJob /\ JobOK(t, job[t], Len(dest))
      BY <1>0, <2>6, <3>1, ShapeNow, NoJobHolds
    <3>3. job[t].dest \in DOMAIN dest
      BY <1>4, <3>2 DEF JobOK
    <3>4. dest[job[t].dest].state = "READY"
      BY <1>0, <2>6, <3>1 DEF AnswersInv
    <3> QED
      BY <1>1, <3>1, <3>3, <3>4
  <2> QED
    BY <2>1, <2>3, <2>4, <2>5, <2>6 DEF AnswersInv, AnswersRight
<1>9. PursuitInv'
  <2>1. QueryLives /\ QueuedIsPursued /\ \A p \in DOMAIN sa : p > Len(dest) => sa[p] = "none"
    BY <1>0, AwakeIs
  <2>2. \A p : Awaits(Unhandled, msgs, p) => Awaits(Unhandled', msgs', p)
    BY <1>0, <1>3, KeptNow
  <2>3. ASSUME NEW p \in DOMAIN dest'
        PROVE  /\ dest'[p].state = "QUERY_ADDR" => Awaits(Unhandled', msgs', p)
               /\ (dest'[p].state = "QUERY_ROUTE" <=> sa'[p] # "none")
               /\ dest'[p].queue # <<>> => \/ dest'[p].state \in {"QUERY_ADDR", "QUERY_ROUTE"}
                                           \/ \E t \in Threads : job'[t].at = "complete" /\ job'[t].dest = p
    <3>1. CASE p \in DOMAIN dest
      <4>1. /\ dest[p].state = "QUERY_ADDR" => Awaits(Unhandled, msgs, p)
            /\ (dest[p].state = "QUERY_ROUTE" <=> sa[p] # "none")
            /\ dest[p].queue # <<>> => \/ dest[p].state \in {"QUERY_ADDR", "QUERY_ROUTE"}
                                       \/ \E t \in Threads : job[t].at = "complete" /\ job[t].dest = p
        BY <2>1, <3>1 DEF QueryLives, QueuedIsPursued, Awaits
      <4>2. \A t \in Threads : job[t].at = "complete" => job'[t] = job[t]
        OBVIOUS
      <4>3. dest'[p].state = dest[p].state /\ dest'[p].queue = dest[p].queue /\ sa'[p] = sa[p]
        BY <1>1, <3>1
      <4> QED
        BY <2>2, <4>1, <4>2, <4>3
    <3>2. CASE p \notin DOMAIN dest
      <4>1. p = g /\ g = Len(dest) + 1 /\ dest'[p] = NewDest
        BY <1>1, <3>2
      <4>2. p \in DOMAIN sa
        BY <1>0, <1>1, <1>4, ShapeNow, SMTT(30)
      <4>3. sa[p] = "none"
        BY <1>4, <2>1, <4>1, <4>2, SMTT(30)
      <4> QED
        BY <1>2, <4>1, <4>3
    <3> QED
      BY <3>1, <3>2
  <2>4. QueryLives'
    BY <2>3 DEF QueryLives, Awaits
  <2>5. QueuedIsPursued'
    BY <2>3 DEF QueuedIsPursued
  <2>6. ASSUME NEW p \in DOMAIN sa', p > Len(dest') PROVE sa'[p] = "none"
    <3>1. p \in Nat /\ Len(dest') >= Len(dest)
      <4>1. p \in DOMAIN sa /\ DOMAIN sa = 1..env.dests /\ env.dests \in Nat
        BY <1>0, ShapeNow
      <4>2. p \in Nat
        BY <4>1, SMTT(30)
      <4>3. CASE Len(dest) = 0
        BY <1>4, <4>2, <4>3, SMTT(30)
      <4>4. CASE Len(dest) # 0
        <5>1. Len(dest) \in DOMAIN dest
          BY <1>4, <4>4, SMTT(30)
        <5>2. Len(dest) \in 1..Len(dest')
          BY <1>1, <1>4, <5>1
        <5> QED
          BY <1>4, <4>2, <5>2, SMTT(30)
      <4> QED
        BY <4>3, <4>4
    <3>2. p > Len(dest)
      BY <1>4, <2>6, <3>1, SMTT(30)
    <3> QED
      BY <2>1, <3>2
  <2> QED
    BY <2>4, <2>5, <2>6, AwakeIsNext DEF Runs
<1>10. RefsExact'
  <2>1. ASSUME NEW p \in DOMAIN dest'
        PROVE  dest'[p].refs = 1 + Cardinality(InReq(req', p)) + Cardinality(InJob(job', p))
                                 + Cardinality(InMsg(Holding', msgs', p))
    <3> DEFINE R == Cardinality(InReq(req, p))
               R2 == Cardinality(InReq(req', p))
               T == Cardinality(InJob(job, p))
               T2 == Cardinality(InJob(job', p))
               M == Cardinality(InMsg(Holding, msgs, p))
               M2 == Cardinality(InMsg(Holding', msgs', p))
    <3>1. M2 = M /\ M \in Nat
      BY <1>0, <1>3, MessageCount
    <3>2. R \in Nat /\ T \in Nat /\ R2 \in Nat /\ T2 \in Nat /\ R2 + T2 = (R + T) + Eq(g, p)
      OBVIOUS
    <3>3. Eq(g, p) \in Int
      BY SMTT(30) DEF Eq
    <3>4. p \in DOMAIN dest => dest[p].refs = 1 + R + T + M /\ dest'[p].refs = dest[p].refs + Eq(g, p)
      BY <1>0, <1>1, RefsAre
    <3>5. p \notin DOMAIN dest => R = 0 /\ T = 0 /\ M = 0 /\ Eq(g, p) = 1 /\ dest'[p].refs = 2
      <4>1. Cardinality({}) = 0
        BY FS_EmptySet
      <4> QED
        BY <1>1, <1>2, <4>1, NobodyRefers DEF Eq
    <3> HIDE DEF R, R2, T, T2, M, M2
    <3>6. dest'[p].refs = 1 + R2 + T2 + M2
      <4>1. CASE p \in DOMAIN dest
        <5> DEFINE E == Eq(g, p)
        <5>1. dest'[p].refs = (1 + R + T + M) + E /\ R2 + T2 = (R + T) + E /\ E \in Int
          BY <3>2, <3>3, <3>4, <4>1
        <5> HIDE DEF E
        <5>2. (1 + R + T + M) + E = 1 + ((R + T) + E) + M
          BY <3>1, <3>2, <5>1, SMTT(30)
        <5>3. 1 + (R2 + T2) + M2 = 1 + R2 + T2 + M2
          BY <3>1, <3>2, SMTT(30)
        <5> QED
          BY <3>1, <5>1, <5>2, <5>3
      <4>2. CASE p \notin DOMAIN dest
        BY <3>1, <3>2, <3>3, <3>5, <4>2, SMTT(30)
      <4> QED
        BY <4>1, <4>2
    <3> QED
      BY <3>6 DEF R2, T2, M2
  <2> QED
    BY <2>1, RefsAreNext
<1> QED
  BY <1>3, <1>6, <1>8, <1>9, <1>10 DEF AInv, Kept

LEMMA AcquireStep ==
  ASSUME AInv, NEW r \in Requests, Acquire(r)
  PROVE  AInv'
<1>0. Shape
  BY DEF AInv
<1>1. PICK expired \in BOOLEAN :
        LET k == acmp_acquire_dest(Addr[r], expired)
        IN  /\ CanAcquire(Addr[r], expired)
            /\ dest' = k.dest /\ map' = k.map
            /\ req' = [req EXCEPT ![r] = [at |-> "have", dest |-> k.got]]
  BY DEF Acquire
<1> DEFINE g == acmp_acquire_dest(Addr[r], expired).got
<1>2. Addr[r] \in Addrs
  BY DEF Addrs
<1>3. Acquires(g)
  BY <1>1, <1>2, AcquireIs
<1>4. req' = [req EXCEPT ![r] = Have(g)]
  BY <1>1 DEF Have
<1>5. /\ req[r].at = "new" /\ UNCHANGED <<sa, reply, taken>> /\ UNCHANGED <<env, retry, missed>> /\ job' = job
      /\ UNCHANGED <<msgs, active, wait_queue, timeout_list, pending, credits>>
  BY DEF Acquire, sends
<1> HIDE DEF g
<1>6. Runs
  BY <1>5, RunsOn
<1>7. g \in Nat /\ DOMAIN dest \subseteq DOMAIN dest' /\ DOMAIN dest' = 1..Len(dest') /\ Len(dest') \in Nat
  <2>1. dest' \in Seq(Dest) /\ g \in DOMAIN dest' /\ DOMAIN dest \subseteq DOMAIN dest'
    BY <1>3 DEF Acquires
  <2>2. DOMAIN dest' = 1..Len(dest') /\ Len(dest') \in Nat
    BY <2>1, SMTT(30)
  <2> QED
    BY <2>1, <2>2, SMTT(30)
<1>8. /\ req' \in [Requests -> [at : {"new", "have", "done"}, dest : Nat]]
      /\ \A q \in Requests : req'[q] = req[q] \/ (req[q].at = "new" /\ req'[q] = Have(g))
  <2>1. Have(g) \in [at : {"new", "have", "done"}, dest : Nat]
    BY <1>7 DEF Have
  <2> QED
    BY <1>0, <1>4, <1>5, <2>1, ShapeNow
<1>9. job' \in [Threads -> Job] /\ \A t \in Threads : JobOK(t, job'[t], Len(dest'))
  <2>1. ASSUME NEW t \in Threads PROVE JobOK(t, job[t], Len(dest'))
    <3>1. JobOK(t, job[t], Len(dest)) /\ DOMAIN dest = 1..Len(dest)
      BY <1>0, ShapeNow
    <3> QED
      BY <1>7, <3>1 DEF JobOK
  <2> QED
    BY <1>0, <1>5, <2>1, ShapeNow
<1>10. ASSUME NEW p
       PROVE  /\ Cardinality(InReq(req, p)) \in Nat /\ Cardinality(InJob(job, p)) \in Nat
              /\ Cardinality(InReq(req', p)) \in Nat /\ Cardinality(InJob(job', p)) \in Nat
              /\ Cardinality(InReq(req', p)) + Cardinality(InJob(job', p)) =
                   (Cardinality(InReq(req, p)) + Cardinality(InJob(job, p))) + Eq(g, p)
  <2> DEFINE R == Cardinality(InReq(req, p))
             R2 == Cardinality(InReq(req', p))
             T == Cardinality(InJob(job, p))
  <2>1. R2 = (R - Eq(req[r], Have(p))) + Eq(Have(g), Have(p)) /\ R \in Nat /\ R2 \in Nat
    BY <1>0, <1>4, RequestCount, ShapeNow
  <2>2. Eq(req[r], Have(p)) = 0
    <3>1. Have(p).at = "have"
      BY DEF Have
    <3> QED
      BY <1>5, <3>1 DEF Eq
  <2>3. Eq(Have(g), Have(p)) = Eq(g, p) /\ Eq(g, p) \in Int
    <3>1. Have(g).dest = g /\ Have(p).dest = p
      BY DEF Have
    <3> QED
      BY <3>1, SMTT(30) DEF Eq
  <2>4. T \in Nat
    BY ThreadsFinite, FS_CardinalityType
  <2>5. InJob(job', p) = InJob(job, p)
    BY <1>5
  <2> HIDE DEF R, R2, T
  <2>6. R2 = R + Eq(g, p)
    BY <2>1, <2>2, <2>3, SMTT(30)
  <2>7. R2 + T = (R + T) + Eq(g, p)
    BY <2>1, <2>3, <2>4, <2>6, SMTT(30)
  <2> QED
    BY <2>1, <2>4, <2>5, <2>7 DEF R, R2, T
<1> QED
  BY <1>3, <1>5, <1>6, <1>8, <1>9, <1>10, GotStep

LEMMA SolicitStep ==
  ASSUME AInv, NEW a \in Addrs, Solicit(a)
  PROVE  AInv'
<1>0. Shape
  BY DEF AInv
<1>1. PICK expired \in BOOLEAN, mine \in BOOLEAN :
        LET k == acmp_acquire_dest(a, expired)
        IN  /\ CanAcquire(a, expired)
            /\ dest' = k.dest /\ map' = k.map
            /\ job' = [job EXCEPT !["comp"] = [at |-> "addr_req", dest |-> k.got, status |-> "ok",
                                               respond |-> mine, ref |-> TRUE]]
  BY DEF Solicit
<1> DEFINE g == acmp_acquire_dest(a, expired).got
           j == [at |-> "addr_req", dest |-> g, status |-> "ok", respond |-> mine, ref |-> TRUE]
<1>2. job' = [job EXCEPT !["comp"] = j] /\ "comp" \in Threads
  BY <1>1 DEF Threads
<1>3. Acquires(g)
  BY <1>1, AcquireIs
<1>4. /\ job["comp"] = NoJob /\ UNCHANGED <<sa, reply, taken>> /\ UNCHANGED <<retry, missed>> /\ req' = req
      /\ UNCHANGED <<msgs, active, wait_queue, timeout_list, pending, credits>>
  BY DEF Solicit, sends
<1> HIDE DEF g
<1>5. env' \in Use /\ env'.dests = env.dests
  <2>1. env \in Use
    BY <1>0, ShapeNow
  <2> QED
    BY <2>1, SMTT(30) DEF Solicit, Use
<1>6. Runs
  BY <1>0, <1>4, <1>5, ShapeNow, AwakeIs DEF AInv, Runs, Awake
<1>7. g \in DOMAIN dest' /\ g \in Nat /\ DOMAIN dest \subseteq DOMAIN dest' /\ DOMAIN dest' = 1..Len(dest')
      /\ Len(dest') \in Nat
  <2>1. dest' \in Seq(Dest) /\ g \in DOMAIN dest' /\ DOMAIN dest \subseteq DOMAIN dest'
    BY <1>3 DEF Acquires
  <2>2. DOMAIN dest' = 1..Len(dest') /\ Len(dest') \in Nat
    BY <2>1, SMTT(30)
  <2> QED
    BY <2>1, <2>2, SMTT(30)
<1>8. j \in Job /\ j.at = "addr_req" /\ j.dest = g /\ j.ref = TRUE
  BY <1>7 DEF Job
<1> HIDE DEF j
<1>9. /\ job' \in [Threads -> Job] /\ \A t \in Threads : t # "comp" => job'[t] = job[t]
      /\ job'["comp"] = j
  BY <1>0, <1>2, <1>8, ShapeNow
<1>10. ASSUME NEW t \in Threads PROVE JobOK(t, job'[t], Len(dest'))
  <2>1. CASE t = "comp"
    BY <1>7, <1>8, <1>9, <2>1 DEF JobOK
  <2>2. CASE t # "comp"
    <3>1. JobOK(t, job[t], Len(dest)) /\ DOMAIN dest = 1..Len(dest)
      BY <1>0, ShapeNow
    <3> QED
      BY <1>7, <1>9, <2>2, <3>1 DEF JobOK
  <2> QED
    BY <2>1, <2>2
<1>11. \A t \in Threads : job'[t] = job[t] \/ (job[t].at # "complete" /\ job'[t].at # "complete")
  BY <1>4, <1>8, <1>9, NoJobHolds
<1>12. /\ req' \in [Requests -> [at : {"new", "have", "done"}, dest : Nat]]
       /\ \A q \in Requests : req'[q] = req[q] \/ (req[q].at = "new" /\ req'[q] = Have(g))
  BY <1>0, <1>4, ShapeNow
<1>13. ASSUME NEW p
       PROVE  /\ Cardinality(InReq(req, p)) \in Nat /\ Cardinality(InJob(job, p)) \in Nat
              /\ Cardinality(InReq(req', p)) \in Nat /\ Cardinality(InJob(job', p)) \in Nat
              /\ Cardinality(InReq(req', p)) + Cardinality(InJob(job', p)) =
                   (Cardinality(InReq(req, p)) + Cardinality(InJob(job, p))) + Eq(g, p)
  <2> DEFINE R == Cardinality(InReq(req, p))
             T == Cardinality(InJob(job, p))
             T2 == Cardinality(InJob(job', p))
  <2>1. T2 = (T - Ref(job["comp"], p)) + Ref(j, p) /\ T \in Nat /\ T2 \in Nat
    <3>1. job \in [Threads -> Job]
      BY <1>0, ShapeNow
    <3> QED
      BY <1>2, <1>8, <3>1, ThreadCount
  <2>2. Ref(job["comp"], p) = 0 /\ Ref(j, p) = Eq(g, p) /\ Eq(g, p) \in Int
    BY <1>4, <1>8, NoJobHolds, SMTT(30) DEF Ref, Eq
  <2>3. InReq(req', p) = InReq(req, p) /\ R \in Nat
    <3>1. IsFiniteSet(InReq(req, p))
      BY OptionsAssumption, FS_Subset DEF InReq
    <3> QED
      BY <1>4, <3>1, FS_CardinalityType
  <2> HIDE DEF R, T, T2
  <2>4. T2 = T + Eq(g, p)
    BY <2>1, <2>2, SMTT(30)
  <2>5. R + T2 = (R + T) + Eq(g, p)
    BY <2>1, <2>2, <2>3, <2>4, SMTT(30)
  <2> QED
    BY <2>1, <2>3, <2>5 DEF R, T, T2
<1> QED
  BY <1>3, <1>4, <1>6, <1>9, <1>10, <1>11, <1>12, <1>13, GotStep

\* No destination could be allocated: a request may be told so.
LEMMA GotNoneStep ==
  ASSUME AInv, Runs, UNCHANGED <<dest, sa, job, taken>>,
         UNCHANGED <<msgs, active, wait_queue, timeout_list, pending, credits>>,
         NEW a \in Addrs, map' = [map EXCEPT ![a] = 0],
         req' \in [Requests -> [at : {"new", "have", "done"}, dest : Nat]],
         reply' \in [Requests -> Seq([status : {"ok", "error"}, path : Paths])],
         \A q \in Requests : \/ req'[q] = req[q] /\ reply'[q] = reply[q]
                             \/ /\ req[q].at = "new" /\ req'[q].at = "done"
                                /\ Len(reply'[q]) = 1 /\ reply'[q][1].status = "error"
  PROVE  AInv'
<1>0. Shape /\ EndpointInv /\ AnswersInv /\ PursuitInv /\ RefsExact
  BY DEF AInv
<1>1. Kept
  BY <1>0, Untouched
<1>2. Shape'
  <2>1. map' \in [Addrs -> 0..Len(dest)]
    <3>1. map \in [Addrs -> 0..Len(dest)] /\ Len(dest) \in Nat
      BY <1>0, ShapeNow
    <3>2. 0 \in 0..Len(dest)
      BY <3>1, SMTT(30)
    <3> QED
      BY <3>1, <3>2
  <2>2. \A q \in Requests : req'[q].at = "have" => req'[q].dest \in 1..Len(dest')
    BY <1>0, ShapeNow
  <2> QED
    BY <1>0, <2>1, <2>2, ShapeNow, ShapeBy DEF Runs
<1>3. AnswersInv'
  <2>0. /\ AnsweredOnce /\ SuccessMeansResolved /\ \A q \in Requests : req[q].at # "done" => reply[q] = <<>>
    BY <1>0 DEF AnswersInv, AnswersRight
  <2>1. ASSUME NEW q \in Requests PROVE Len(reply'[q]) <= 1
    <3>1. Len(reply[q]) <= 1
      BY <2>0 DEF AnsweredOnce
    <3>2. reply'[q] = reply[q] \/ Len(reply'[q]) = 1
      OBVIOUS
    <3>3. 1 <= 1
      BY SMTT(30)
    <3> QED
      BY <3>1, <3>2, <3>3
  <2>2. ASSUME NEW p \in DOMAIN dest', NEW q \in Range(dest'[p].queue)
        PROVE  reply'[q] = <<>> /\ req'[q] = [at |-> "done", dest |-> p]
    <3>1. reply[q] = <<>> /\ req[q] = [at |-> "done", dest |-> p]
      BY <2>0 DEF AnsweredOnce, Queued
    <3>2. q \in Requests
      <4>1. dest[p] \in Dest
        BY <1>0, ShapeNow
      <4>2. dest[p].queue \in Seq(Requests)
        BY <4>1 DEF Dest
      <4> QED
        BY <4>2, SMTT(30) DEF Range
    <3>3. req[q].at = "done"
      BY <3>1, SMTT(30)
    <3>4. req'[q] = req[q] /\ reply'[q] = reply[q]
      BY <3>2, <3>3
    <3> QED
      BY <3>1, <3>4
  <2>3. AnsweredOnce'
    BY <2>0, <2>1, <2>2 DEF AnsweredOnce, Queued
  <2>4. SuccessMeansResolved'
    <3>1. ASSUME NEW q \in Requests, reply'[q] # <<>>, reply'[q][1].status = "ok", req'[q].dest \notin taken'
          PROVE  reply'[q][1].path \in IF Op[q] = "ip" THEN {"addr", "full"} ELSE {"full"}
      <4>1. req'[q] = req[q] /\ reply'[q] = reply[q]
        BY <3>1
      <4>2. 1 \in 1..1
        BY SMTT(30)
      <4> QED
        BY <2>0, <3>1, <4>1, <4>2 DEF SuccessMeansResolved
    <3>2. \A i \in 1..1 : i = 1
      BY SMTT(30)
    <3> QED
      BY <3>1, <3>2 DEF SuccessMeansResolved
  <2>5. \A q \in Requests : req'[q].at # "done" => reply'[q] = <<>>
    BY <2>0
  <2> QED
    BY <1>0, <2>3, <2>4, <2>5 DEF AnswersInv, AnswersRight
<1>4. PursuitInv'
  <2>1. \A p : Awaits(Unhandled, msgs, p) => Awaits(Unhandled', msgs', p)
    BY <1>0, <1>1, KeptNow
  <2>2. QueryLives'
    BY <1>0, <2>1, AwakeIs DEF QueryLives, Awaits
  <2>3. QueuedIsPursued' /\ \A o \in DOMAIN sa' : o > Len(dest') => sa'[o] = "none"
    BY <1>0, AwakeIs DEF QueuedIsPursued
  <2> QED
    BY <2>2, <2>3, AwakeIsNext DEF Runs
<1>5. RefsExact'
  <2>1. ASSUME NEW o \in DOMAIN dest
        PROVE  /\ Cardinality(InMsg(Holding', msgs', o)) = Cardinality(InMsg(Holding, msgs, o))
               /\ InReq(req', o) = InReq(req, o)
    <3>1. Have(o).at = "have"
      BY DEF Have
    <3>2. \A q \in Requests : req'[q] = Have(o) <=> req[q] = Have(o)
      BY <3>1
    <3> QED
      BY <1>0, <1>1, <3>2, MessageCount DEF InReq
  <2> QED
    BY <1>0, <2>1, RefsAre, RefsAreNext
<1> QED
  BY <1>1, <1>2, <1>3, <1>4, <1>5 DEF AInv, Kept

LEMMA AcquireFailsStep ==
  ASSUME AInv, NEW r \in Requests, AcquireFails(r)
  PROVE  AInv'
<1>0. Shape /\ AnswersInv
  BY DEF AInv
<1>1. /\ UNCHANGED <<dest, sa, job, taken>> /\ UNCHANGED <<env, retry, missed>> /\ req[r].at = "new"
      /\ UNCHANGED <<msgs, active, wait_queue, timeout_list, pending, credits>>
      /\ map' = [map EXCEPT ![Addr[r]] = 0] /\ Addr[r] \in Addrs
      /\ req' = [req EXCEPT ![r].at = "done"]
      /\ reply' = [reply EXCEPT ![r] = Append(@, [status |-> "error", path |-> "none"])]
  BY DEF AcquireFails, NoDest, Answer, sends, Addrs
<1>2. Runs
  BY <1>1, RunsOn
<1> DEFINE v == [status |-> "error", path |-> "none"]
<1>3. reply[r] = <<>> /\ v.status = "error" /\ v \in [status : {"ok", "error"}, path : Paths]
  BY <1>0, <1>1 DEF AnswersInv, Paths
<1> HIDE DEF v
<1>4. /\ Append(<<>>, v) = <<v>> /\ Len(<<v>>) = 1 /\ <<v>>[1] = v
      /\ <<v>> \in Seq([status : {"ok", "error"}, path : Paths])
  BY <1>3, SMTT(30)
<1>5. reply' = [reply EXCEPT ![r] = <<v>>]
  BY <1>1, <1>3, <1>4 DEF v
<1>6. /\ reply' \in [Requests -> Seq([status : {"ok", "error"}, path : Paths])]
      /\ reply'[r] = <<v>> /\ \A q \in Requests : q # r => reply'[q] = reply[q]
  BY <1>0, <1>4, <1>5, ShapeNow
<1>7. /\ req' \in [Requests -> [at : {"new", "have", "done"}, dest : Nat]]
      /\ req'[r].at = "done" /\ \A q \in Requests : q # r => req'[q] = req[q]
  BY <1>0, <1>1, ShapeNow
<1>8. \A q \in Requests : \/ req'[q] = req[q] /\ reply'[q] = reply[q]
                          \/ /\ req[q].at = "new" /\ req'[q].at = "done"
                             /\ Len(reply'[q]) = 1 /\ reply'[q][1].status = "error"
  BY <1>1, <1>3, <1>4, <1>6, <1>7
<1> QED
  BY <1>1, <1>2, <1>6, <1>7, <1>8, GotNoneStep

LEMMA SolicitFailsStep ==
  ASSUME AInv, NEW a \in Addrs, SolicitFails(a)
  PROVE  AInv'
<1>0. Shape
  BY DEF AInv
<1>1. /\ UNCHANGED <<dest, sa, job, taken>> /\ UNCHANGED <<retry, missed>> /\ UNCHANGED <<req, reply>>
      /\ UNCHANGED <<msgs, active, wait_queue, timeout_list, pending, credits>>
      /\ map' = [map EXCEPT ![a] = 0]
  BY DEF SolicitFails, NoDest, sends
<1>2. env' \in Use /\ env'.dests = env.dests
  <2>1. env \in Use
    BY <1>0, ShapeNow
  <2> QED
    BY <2>1, SMTT(30) DEF SolicitFails, Use
<1>3. Runs
  BY <1>0, <1>1, <1>2, ShapeNow, AwakeIs DEF AInv, Runs, Awake
<1>4. /\ req' \in [Requests -> [at : {"new", "have", "done"}, dest : Nat]]
      /\ reply' \in [Requests -> Seq([status : {"ok", "error"}, path : Paths])]
  BY <1>0, <1>1, ShapeNow
<1> QED
  BY <1>1, <1>3, <1>4, GotNoneStep

(* Client r leaves its destination o as e and the SA query of o as s; the   *)
(* messages that hold o become n more.                                      *)
Leaves(r, o, e, s, n) ==
    /\ req[r] = Have(o) /\ req' = [req EXCEPT ![r] = [at |-> "done", dest |-> o]]
    /\ dest' = [dest EXCEPT ![o] = e] /\ sa' = [sa EXCEPT ![o] = s]
    /\ UNCHANGED <<map, job>> /\ Runs /\ DestOK(e) /\ s \in Query
    /\ taken \subseteq taken' /\ (dest[o].state = "READY" => e.state = "READY" \/ o \in taken')
LeavesPursued(o, e, s) ==
    /\ (e.state = "QUERY_ROUTE" <=> s # "none")
    /\ e.state = "QUERY_ADDR" => Awaits(Unhandled', msgs', o)
    /\ dest[o].state \in Querying => e.state \in Querying
    /\ \A p \in DOMAIN dest \ {o} : Awaits(Unhandled, msgs, p) => Awaits(Unhandled', msgs', p)
LeavesHeld(o, e, n) ==
    /\ n \in Int /\ e.refs = (dest[o].refs - 1) + n
    /\ \A p \in DOMAIN dest :
         Cardinality(InMsg(Holding', msgs', p)) = Cardinality(InMsg(Holding, msgs, p)) + IF p = o THEN n ELSE 0
\* The request is queued while a lookup is on its way, or answered with v.
Waits(r, o, e) ==
    e.queue = Append(dest[o].queue, r) /\ reply' = reply /\ e.state \in Querying
Told(r, o, e, v) ==
    /\ e.queue = dest[o].queue /\ reply' = [reply EXCEPT ![r] = Append(@, v)]
    /\ v \in [status : {"ok", "error"}, path : Paths]
    /\ v.status = "ok" => v.path \in IF Op[r] = "ip" THEN {"addr", "full"} ELSE {"full"}

LEMMA ClientStep ==
  ASSUME AInv, NEW r \in Requests, NEW o \in DOMAIN dest, NEW e, NEW s, NEW n, NEW v,
         Leaves(r, o, e, s, n), LeavesPursued(o, e, s), LeavesHeld(o, e, n),
         Waits(r, o, e) \/ Told(r, o, e, v), EndpointInv'
  PROVE  AInv'
<1>0. Shape /\ EndpointInv /\ AnswersInv /\ PursuitInv /\ RefsExact
  BY DEF AInv
<1> DEFINE done == [at |-> "done", dest |-> o]
<1>1. /\ req[r] = Have(o) /\ req' = [req EXCEPT ![r] = done]
      /\ dest' = [dest EXCEPT ![o] = e] /\ sa' = [sa EXCEPT ![o] = s]
      /\ UNCHANGED <<map, job>> /\ Runs /\ DestOK(e) /\ e \in Dest /\ s \in Query
      /\ taken \subseteq taken' /\ (dest[o].state = "READY" => e.state = "READY" \/ o \in taken')
  BY DEF Leaves, DestOK
<1>2. /\ dest' \in Seq(Dest) /\ Len(dest') = Len(dest) /\ DOMAIN dest' = DOMAIN dest
      /\ dest'[o] = e /\ \A p \in DOMAIN dest : p # o => dest'[p] = dest[p]
  BY <1>0, <1>1, ShapeNow, SMTT(30)
<1>3. /\ sa' \in [1..env.dests -> Query] /\ sa'[o] = s /\ \A p \in DOMAIN sa : p # o => sa'[p] = sa[p]
      /\ DOMAIN sa' = DOMAIN sa
  BY <1>0, <1>1, ShapeNow
<1>4. Have(o).at = "have" /\ Have(o).dest = o /\ done.at = "done" /\ done.dest = o
  BY DEF Have
<1>5. /\ req' \in [Requests -> [at : {"new", "have", "done"}, dest : Nat]]
      /\ req'[r] = done /\ \A q \in Requests : q # r => req'[q] = req[q]
  <2>1. done \in [at : {"new", "have", "done"}, dest : Nat]
    BY <1>0, ShapeNow
  <2> HIDE DEF done
  <2> QED
    BY <1>0, <1>1, <2>1, ShapeNow
<1>6. reply[r] = <<>> /\ \A p \in DOMAIN dest : r \notin Range(dest[p].queue)
  <2>1. reply[r] = <<>>
    BY <1>0, <1>1, <1>4 DEF AnswersInv
  <2>2. ASSUME NEW p \in DOMAIN dest, r \in Range(dest[p].queue) PROVE FALSE
    <3>1. req[r] = [at |-> "done", dest |-> p]
      BY <1>0, <2>2 DEF AnswersInv, AnswersRight, AnsweredOnce, Queued
    <3>2. req[r].at = "done"
      BY <3>1, SMTT(30)
    <3> QED
      BY <1>1, <1>4, <3>2
  <2> QED
    BY <2>1, <2>2
<1> HIDE DEF done
<1>7. /\ reply' \in [Requests -> Seq([status : {"ok", "error"}, path : Paths])]
      /\ \A q \in Requests : q # r => reply'[q] = reply[q]
      /\ Waits(r, o, e) => reply'[r] = <<>>
      /\ ~Waits(r, o, e) => reply'[r] = <<v>> /\ Told(r, o, e, v)
  <2>1. CASE Waits(r, o, e)
    BY <1>0, <1>6, <2>1, ShapeNow DEF Waits
  <2>2. CASE ~Waits(r, o, e)
    <3>1. /\ Told(r, o, e, v) /\ reply' = [reply EXCEPT ![r] = Append(reply[r], v)]
          /\ v \in [status : {"ok", "error"}, path : Paths]
      BY <2>2 DEF Told
    <3>2. Append(reply[r], v) = <<v>> /\ <<v>> \in Seq([status : {"ok", "error"}, path : Paths])
      BY <1>6, <3>1, SMTT(30)
    <3> QED
      BY <1>0, <2>2, <3>1, <3>2, ShapeNow
  <2> QED
    BY <2>1, <2>2
<1>8. Shape'
  <2>1. \A q \in Requests : req'[q].at = "have" => req'[q].dest \in 1..Len(dest')
    BY <1>0, <1>2, <1>4, <1>5, ShapeNow
  <2> QED
    BY <1>0, <1>1, <1>2, <1>3, <1>5, <1>7, <2>1, ShapeNow, ShapeBy DEF Runs
<1>9. dest[o].queue \in Seq(Requests) /\ \A p \in DOMAIN dest : Range(dest[p].queue) \subseteq Requests
  <2>1. ASSUME NEW p \in DOMAIN dest PROVE dest[p].queue \in Seq(Requests)
    <3>1. dest[p] \in Dest
      BY <1>0, ShapeNow
    <3> QED
      BY <3>1 DEF Dest
  <2>2. ASSUME NEW p \in DOMAIN dest PROVE Range(dest[p].queue) \subseteq Requests
    BY <2>1, SMTT(30) DEF Range
  <2> QED
    BY <2>1, <2>2
<1>10. AnswersInv'
  <2>0. AnsweredOnce /\ SuccessMeansResolved
    BY <1>0 DEF AnswersInv, AnswersRight
  <2>1. AnsweredOnce'
    <3>1. ASSUME NEW q \in Requests PROVE Len(reply'[q]) <= 1
      <4>1. CASE q = r
        <5>1. CASE Waits(r, o, e)
          <6>1. reply'[q] = <<>>
            BY <1>7, <4>1, <5>1
          <6>2. Len(reply'[q]) = 0
            BY <6>1, SMTT(30)
          <6> QED
            BY <6>2, SMTT(30)
        <5>2. CASE ~Waits(r, o, e)
          <6>1. reply'[q] = <<v>>
            BY <1>7, <4>1, <5>2
          <6>2. Len(reply'[q]) = 1
            BY <6>1, SMTT(30)
          <6> QED
            BY <6>2, SMTT(30)
        <5> QED
          BY <5>1, <5>2
      <4>2. CASE q # r
        <5>1. Len(reply[q]) <= 1
          BY <2>0 DEF AnsweredOnce
        <5> QED
          BY <1>7, <4>2, <5>1
      <4> QED
        BY <4>1, <4>2
    <3>2. ASSUME NEW p \in DOMAIN dest
          PROVE  /\ IsInjective(dest'[p].queue)
                 /\ \A q \in Range(dest'[p].queue) : reply'[q] = <<>> /\ req'[q] = [at |-> "done", dest |-> p]
      <4>1. /\ IsInjective(dest[p].queue)
            /\ \A q \in Range(dest[p].queue) : reply[q] = <<>> /\ req[q] = [at |-> "done", dest |-> p]
        BY <2>0 DEF AnsweredOnce, Queued
      <4>2. \A q \in Range(dest[p].queue) : reply'[q] = <<>> /\ req'[q] = [at |-> "done", dest |-> p]
        <5>1. ASSUME NEW q \in Range(dest[p].queue) PROVE reply'[q] = reply[q] /\ req'[q] = req[q]
          <6>1. q # r /\ q \in Requests
            BY <1>6, <1>9
          <6> QED
            BY <1>5, <1>7, <6>1
        <5> QED
          BY <4>1, <5>1
      <4>3. CASE p = o /\ Waits(r, o, e)
        <5>1. dest'[p].queue = Append(dest[o].queue, r)
          BY <1>2, <4>3 DEF Waits
        <5>2. /\ Range(Append(dest[o].queue, r)) = Range(dest[o].queue) \cup {r}
              /\ IsInjective(Append(dest[o].queue, r))
          BY <1>6, <1>9, <4>1, <4>3, AppendTo, SMTT(30)
        <5>3. reply'[r] = <<>> /\ req'[r] = [at |-> "done", dest |-> p]
          BY <1>5, <1>7, <4>3 DEF done
        <5> QED
          BY <4>2, <4>3, <5>1, <5>2, <5>3
      <4>4. CASE ~(p = o /\ Waits(r, o, e))
        <5>1. dest'[p].queue = dest[p].queue
          BY <1>2, <1>7, <4>4 DEF Told
        <5> QED
          BY <4>1, <4>2, <5>1
      <4> QED
        BY <4>3, <4>4
    <3> QED
      BY <1>2, <3>1, <3>2 DEF AnsweredOnce, Queued
  <2>2. SuccessMeansResolved'
    <3>1. ASSUME NEW q \in Requests, reply'[q] # <<>>, reply'[q][1].status = "ok", req'[q].dest \notin taken'
          PROVE  reply'[q][1].path \in IF Op[q] = "ip" THEN {"addr", "full"} ELSE {"full"}
      <4>1. CASE q = r
        <5>1. reply'[r] = <<v>> /\ Told(r, o, e, v)
          BY <1>7, <3>1, <4>1
        <5>2. reply'[r][1] = v
          BY <5>1, SMTT(30)
        <5> QED
          BY <3>1, <4>1, <5>1, <5>2 DEF Told
      <4>2. CASE q # r
        <5>1. reply'[q] = reply[q] /\ req'[q] = req[q] /\ req[q].dest \notin taken
          BY <1>1, <1>5, <1>7, <3>1, <4>2
        <5> QED
          BY <2>0, <3>1, <5>1, SMTT(30) DEF SuccessMeansResolved
      <4> QED
        BY <4>1, <4>2
    <3> QED
      BY <3>1, SMTT(30) DEF SuccessMeansResolved
  <2>3. \A q \in Requests : req'[q].at # "done" => reply'[q] = <<>>
    <3>1. \A q \in Requests : req[q].at # "done" => reply[q] = <<>>
      BY <1>0 DEF AnswersInv
    <3> QED
      BY <1>4, <1>5, <1>7, <3>1
  <2>4. ASSUME NEW p \in DOMAIN dest'
        PROVE  /\ dest'[p].state = "READY" => dest'[p].path = "full"
               /\ dest'[p].state = "ADDR_RESOLVED" => dest'[p].path = "addr"
    <3>1. /\ dest[p].state = "READY" => dest[p].path = "full"
          /\ dest[p].state = "ADDR_RESOLVED" => dest[p].path = "addr"
      BY <1>0, <1>2 DEF AnswersInv
    <3> QED
      BY <1>1, <1>2, <3>1 DEF DestOK
  <2>5. ASSUME NEW u \in Threads, job'[u].at = "complete", job'[u].status = "ok", job'[u].dest \notin taken'
        PROVE  dest'[job'[u].dest].state = "READY"
    <3>1. job'[u] = job[u] /\ job[u].dest \notin taken
      BY <1>1, <2>5
    <3>2. job[u] # NoJob /\ JobOK(u, job[u], Len(dest))
      BY <1>0, <2>5, <3>1, ShapeNow, NoJobHolds
    <3>3. job[u].dest \in DOMAIN dest
      BY <1>0, <3>2, ShapeNow DEF JobOK
    <3>4. dest[job[u].dest].state = "READY"
      BY <1>0, <2>5, <3>1 DEF AnswersInv
    <3> QED
      BY <1>1, <1>2, <2>5, <3>1, <3>3, <3>4
  <2> QED
    BY <2>1, <2>2, <2>3, <2>4, <2>5 DEF AnswersInv, AnswersRight
<1>11. PursuitInv'
  <2>1. QueryLives /\ QueuedIsPursued /\ \A p \in DOMAIN sa : p > Len(dest) => sa[p] = "none"
    BY <1>0, AwakeIs
  <2>2. ASSUME NEW p \in DOMAIN dest
        PROVE  /\ dest'[p].state = "QUERY_ADDR" => Awaits(Unhandled', msgs', p)
               /\ (dest'[p].state = "QUERY_ROUTE" <=> sa'[p] # "none")
    <3>1. CASE p = o
      BY <1>2, <1>3, <3>1 DEF LeavesPursued
    <3>2. CASE p # o
      <4>1. dest'[p] = dest[p] /\ sa'[p] = sa[p]
        BY <1>0, <1>2, <1>3, <3>2, ShapeNow
      <4> QED
        BY <2>1, <3>2, <4>1 DEF LeavesPursued, QueryLives, Awaits
    <3> QED
      BY <3>1, <3>2
  <2>3. QueryLives'
    BY <1>2, <2>2 DEF QueryLives, Awaits
  <2>4. ASSUME NEW p \in DOMAIN dest, dest'[p].queue # <<>>, dest'[p].state \notin Querying
        PROVE  \E u \in Threads : job'[u].at = "complete" /\ job'[u].dest = p
    <3>1. p = o => ~Waits(r, o, e)
      BY <1>2, <2>4 DEF Waits
    <3>2. dest[p].queue # <<>> /\ dest[p].state \notin Querying
      BY <1>2, <1>7, <2>4, <3>1 DEF Told, LeavesPursued
    <3> QED
      BY <1>1, <2>1, <3>2 DEF QueuedIsPursued, Querying
  <2>5. QueuedIsPursued'
    BY <1>2, <2>4 DEF QueuedIsPursued, Querying
  <2>6. \A p \in DOMAIN sa' : p > Len(dest') => sa'[p] = "none"
    BY <1>0, <1>2, <1>3, <2>1, ShapeNow, SMTT(30)
  <2> QED
    BY <1>1, <2>3, <2>5, <2>6, AwakeIsNext DEF Runs
<1>12. RefsExact'
  <2>1. ASSUME NEW p \in DOMAIN dest
        PROVE  dest'[p].refs = 1 + Cardinality(InReq(req', p)) + Cardinality(InJob(job', p))
                                 + Cardinality(InMsg(Holding', msgs', p))
    <3> DEFINE R == Cardinality(InReq(req, p))
               R2 == Cardinality(InReq(req', p))
               T == Cardinality(InJob(job, p))
               M == Cardinality(InMsg(Holding, msgs, p))
               M2 == Cardinality(InMsg(Holding', msgs', p))
    <3>1. R2 = (R - Eq(Have(o), Have(p))) + Eq(done, Have(p)) /\ R \in Nat /\ R2 \in Nat
      BY <1>0, <1>1, RequestCount, ShapeNow
    <3>2. Eq(done, Have(p)) = 0 /\ Eq(Have(o), Have(p)) = Eq(o, p)
      <4>1. Have(p).at = "have" /\ Have(p).dest = p
        BY DEF Have
      <4> QED
        BY <1>4, <4>1 DEF Eq
    <3>3. T \in Nat /\ InJob(job', p) = InJob(job, p)
      BY <1>1, ThreadsFinite, FS_CardinalityType
    <3>4. M2 = M + (IF p = o THEN n ELSE 0) /\ M \in Nat /\ n \in Int
      BY <1>0, MessageCount DEF LeavesHeld
    <3>5. dest[p].refs = 1 + R + T + M
      BY <1>0, RefsAre
    <3> HIDE DEF R, R2, T, M, M2
    <3>6. dest'[p].refs = 1 + R2 + T + M2
      <4>1. CASE p = o
        <5>1. R2 = R - 1 /\ M2 = M + n
          BY <3>1, <3>2, <3>4, <4>1, SMTT(30) DEF Eq
        <5>2. dest'[p].refs = ((1 + R + T + M) - 1) + n
          BY <1>2, <3>5, <4>1 DEF LeavesHeld
        <5> QED
          BY <3>1, <3>3, <3>4, <5>1, <5>2, SMTT(30)
      <4>2. CASE p # o
        <5>1. R2 = R /\ M2 = M
          BY <3>1, <3>2, <3>4, <4>2, SMTT(30) DEF Eq
        <5>2. dest'[p].refs = 1 + R + T + M
          BY <1>2, <3>5, <4>2
        <5> QED
          BY <5>1, <5>2
      <4> QED
        BY <4>1, <4>2
    <3> QED
      BY <3>3, <3>6 DEF R2, T, M2
  <2> QED
    BY <1>2, <2>1, RefsAreNext
<1> QED
  BY <1>8, <1>10, <1>11, <1>12 DEF AInv

(* Client r has made d of its destination o, which it still holds, and s of *)
(* the SA query; the messages that hold o become n more.                    *)
Makes(r, o, d, s, n) ==
    /\ req[r] = Have(o) /\ req' = [req EXCEPT ![r] = [at |-> "done", dest |-> o]]
    /\ sa' = [sa EXCEPT ![o] = s] /\ UNCHANGED <<map, job>> /\ Runs /\ DestOK(d) /\ s \in Query
    /\ d.queue = dest[o].queue /\ d.refs = dest[o].refs + n
    /\ taken \subseteq taken' /\ (dest[o].state = "READY" => d.state = "READY" \/ o \in taken')
    /\ LeavesPursued(o, d, s)
    /\ n \in Int /\ EndpointInv' /\ \A p \in DOMAIN dest :
         Cardinality(InMsg(Holding', msgs', p)) = Cardinality(InMsg(Holding, msgs, p)) + IF p = o THEN n ELSE 0

LEMMA MakesLeaves ==
  ASSUME AInv, NEW r \in Requests, NEW o \in DOMAIN dest, NEW d, NEW e \in Dest, NEW s, NEW n, Makes(r, o, d, s, n),
         dest' = [dest EXCEPT ![o] = e], e.state = d.state, e.path = d.path, e.refs = d.refs - 1
  PROVE  Leaves(r, o, e, s, n) /\ LeavesPursued(o, e, s) /\ LeavesHeld(o, e, n) /\ EndpointInv'
<1>1. dest[o].refs \in Int /\ n \in Int /\ d.refs = dest[o].refs + n
  <2>1. dest[o] \in Dest
    BY ShapeNow DEF AInv
  <2> QED
    BY <2>1 DEF Dest, Makes
<1>2. e.refs = (dest[o].refs - 1) + n
  BY <1>1, SMTT(30)
<1>3. DestOK(e)
  BY DEF Makes, DestOK
<1>4. Leaves(r, o, e, s, n)
  BY <1>3 DEF Makes, Leaves
<1>5. LeavesPursued(o, e, s)
  BY DEF Makes, LeavesPursued
<1>6. LeavesHeld(o, e, n)
  BY <1>1, <1>2 DEF Makes, LeavesHeld
<1> QED
  BY <1>4, <1>5, <1>6 DEF Makes

LEMMA AnswerStep ==
  ASSUME AInv, NEW r \in Requests, NEW o \in DOMAIN dest, NEW d, NEW s, NEW n, Makes(r, o, d, s, n),
         NEW status \in {"ok", "error"}, NEW path \in Paths, Set(o, Put(d)), Answer(r, status, path),
         status = "ok" => path \in IF Op[r] = "ip" THEN {"addr", "full"} ELSE {"full"}
  PROVE  AInv'
<1> DEFINE e == Put(d)
           v == [status |-> status, path |-> path]
<1>1. d \in Dest /\ d.queue = dest[o].queue
  BY DEF Makes, DestOK
<1>2. e \in Dest /\ e.state = d.state /\ e.path = d.path /\ e.queue = d.queue /\ e.refs = d.refs - 1
  BY <1>1, PutIs
<1>3. dest' = [dest EXCEPT ![o] = e] /\ reply' = [reply EXCEPT ![r] = Append(@, v)]
  BY DEF Set, Answer
<1>4. v \in [status : {"ok", "error"}, path : Paths] /\ v.status = status /\ v.path = path
  OBVIOUS
<1> HIDE DEF e, v
<1>5. Leaves(r, o, e, s, n) /\ LeavesPursued(o, e, s) /\ LeavesHeld(o, e, n) /\ EndpointInv'
  BY <1>2, <1>3, MakesLeaves
<1>6. Told(r, o, e, v)
  BY <1>1, <1>2, <1>3, <1>4 DEF Told
<1> QED
  BY <1>5, <1>6, ClientStep

LEMMA QueueStep ==
  ASSUME AInv, NEW r \in Requests, NEW o \in DOMAIN dest, NEW d, NEW s, NEW n, Makes(r, o, d, s, n),
         d.state \in Querying, acmp_queue_req(r, o, d)
  PROVE  AInv'
<1>1. d \in Dest /\ d.queue = dest[o].queue /\ d.path \in Paths /\ d.queue \in Seq(Requests)
  BY DEF Makes, DestOK, Dest
<1>2. CASE Set(o, Put(d)) /\ Answer(r, "error", d.path)
  BY <1>1, <1>2, AnswerStep
<1>3. CASE Set(o, Put([d EXCEPT !.queue = Append(@, r)])) /\ UNCHANGED reply
  <2> DEFINE q == Append(d.queue, r)
             c == [d EXCEPT !.queue = q]
             e == Put(c)
  <2>1. q \in Seq(Requests)
    BY <1>1, SMTT(30)
  <2>2. dest' = [dest EXCEPT ![o] = e]
    BY <1>3 DEF Set
  <2> HIDE DEF q
  <2>3. c \in Dest /\ c.state = d.state /\ c.path = d.path /\ c.queue = q /\ c.refs = d.refs
    BY <1>1, <2>1, QueueIs
  <2> HIDE DEF c
  <2>4. e \in Dest /\ e.state = d.state /\ e.path = d.path /\ e.queue = q /\ e.refs = d.refs - 1
    BY <2>3, PutIs
  <2> HIDE DEF e
  <2>5. Leaves(r, o, e, s, n) /\ LeavesPursued(o, e, s) /\ LeavesHeld(o, e, n) /\ EndpointInv'
    BY <2>2, <2>4, MakesLeaves
  <2>6. Waits(r, o, e)
    BY <1>1, <1>3, <2>4 DEF Waits, q
  <2> QED
    BY <2>5, <2>6, ClientStep
<1> QED
  BY <1>2, <1>3 DEF acmp_queue_req

(* What the lookup's timeout leaves of destination o.                       *)
Timed(o, d) ==
    /\ d \in Dest /\ DestOK(d) /\ d.queue = dest[o].queue /\ d.refs = dest[o].refs
    /\ taken \subseteq taken' /\ (dest[o].state = "READY" => d.state = "READY" \/ o \in taken')
    /\ env' \in Use /\ env'.dests = env.dests
    /\ (d.state = "QUERY_ROUTE" <=> sa[o] # "none")
    /\ dest[o].state \in Querying => d.state = dest[o].state
    /\ d.state \in Querying => d.state = dest[o].state

LEMMA TimeoutIs ==
  ASSUME AInv, NEW o \in DOMAIN dest, NEW d \in acmp_dest_timeout(dest[o]),
         IF d = dest[o] THEN UNCHANGED <<env, taken>>
         ELSE env' = [env EXCEPT !.old = @ - 1] /\ taken' = taken \cup {o}
  PROVE  Timed(o, d)
<1>0. Shape /\ AnswersInv /\ PursuitInv
  BY DEF AInv
<1>1. /\ dest[o] \in Dest /\ env \in Use /\ (dest[o].state = "QUERY_ROUTE" <=> sa[o] # "none")
      /\ dest[o] = [state |-> dest[o].state, queue |-> dest[o].queue, path |-> dest[o].path, refs |-> dest[o].refs]
      /\ DestOK(dest[o])
  <2>1. dest[o] \in Dest /\ env \in Use
    BY <1>0, ShapeNow
  <2>2. dest[o].state = "QUERY_ROUTE" <=> sa[o] # "none"
    BY <1>0, AwakeIs DEF QueryLives
  <2>3. dest[o] = [state |-> dest[o].state, queue |-> dest[o].queue, path |-> dest[o].path, refs |-> dest[o].refs]
    BY <2>1 DEF Dest
  <2> QED
    BY <1>0, <2>1, <2>2, <2>3 DEF DestOK, AnswersInv
<1>2. CASE d = dest[o]
  BY <1>1, <1>2 DEF Timed
<1>3. CASE d # dest[o]
  <2>1. /\ dest[o].state = "READY" /\ env.old # 0 /\ taken' = taken \cup {o} /\ env' = [env EXCEPT !.old = @ - 1]
        /\ \/ d = [dest[o] EXCEPT !.state = "INIT"]
           \/ d = [dest[o] EXCEPT !.state = "ADDR_RESOLVED", !.path = "addr"]
    BY <1>3 DEF acmp_dest_timeout
  <2>2. env' \in Use /\ env'.dests = env.dests
    <3>1. env.old \in Nat
      BY <1>1 DEF Use
    <3>2. env.old - 1 \in Nat
      BY <2>1, <3>1, SMTT(30)
    <3> QED
      BY <1>1, <2>1, <3>2 DEF Use
  <2>3. /\ d.queue = dest[o].queue /\ d.refs = dest[o].refs /\ d \in Dest /\ DestOK(d)
        /\ d.state \in {"INIT", "ADDR_RESOLVED"}
    <3>0. /\ dest[o].queue \in Seq(Requests) /\ dest[o].path \in Paths /\ dest[o].refs \in Int
          /\ "addr" \in Paths /\ "INIT" \in States /\ "ADDR_RESOLVED" \in States
      BY <1>1 DEF Dest, Paths, States
    <3>1. CASE d = [dest[o] EXCEPT !.state = "INIT"]
      <4>1. d = [state |-> "INIT", queue |-> dest[o].queue, path |-> dest[o].path, refs |-> dest[o].refs]
        BY <1>1, <3>1
      <4> QED
        BY <3>0, <4>1 DEF Dest, DestOK
    <3>2. CASE d = [dest[o] EXCEPT !.state = "ADDR_RESOLVED", !.path = "addr"]
      <4>1. d = [[dest[o] EXCEPT !.state = "ADDR_RESOLVED"] EXCEPT !.path = "addr"]
        BY <1>1, <3>2
      <4>2. [dest[o] EXCEPT !.state = "ADDR_RESOLVED"] =
              [state |-> "ADDR_RESOLVED", queue |-> dest[o].queue, path |-> dest[o].path, refs |-> dest[o].refs]
        BY <1>1, SMTT(30)
      <4>3. d = [state |-> "ADDR_RESOLVED", queue |-> dest[o].queue, path |-> "addr", refs |-> dest[o].refs]
        BY <4>1, <4>2
      <4> QED
        BY <3>0, <4>3 DEF Dest, DestOK
    <3> QED
      BY <2>1, <3>1, <3>2
  <2> QED
    BY <1>1, <2>1, <2>2, <2>3 DEF Timed, Querying
<1> QED
  BY <1>2, <1>3

LEMMA AskIs ==
  ASSUME NEW d \in Dest
  PROVE  [d EXCEPT !.state = "QUERY_ADDR", !.refs = @ + 1] =
           [state |-> "QUERY_ADDR", queue |-> d.queue, path |-> d.path, refs |-> d.refs + 1]
<1> DEFINE c == [d EXCEPT !.state = "QUERY_ADDR"]
<1>1. c = [state |-> "QUERY_ADDR", queue |-> d.queue, path |-> d.path, refs |-> d.refs]
  BY SMTT(30) DEF Dest
<1>2. [d EXCEPT !.state = "QUERY_ADDR", !.refs = @ + 1] = [c EXCEPT !.refs = d.refs + 1]
  BY DEF Dest
<1> HIDE DEF c
<1> QED
  BY <1>1, <1>2, SMTT(30)

\* While nothing is sent, only d and the SA query s can differ.
LEMMA MakesQuietly ==
  ASSUME AInv, NEW r \in Requests, NEW o \in DOMAIN dest, NEW t, NEW d \in Dest, NEW s \in Query, Timed(o, t),
         req[r] = Have(o), req' = [req EXCEPT ![r] = [at |-> "done", dest |-> o]], DOMAIN dest' = DOMAIN dest,
         sa' = [sa EXCEPT ![o] = s], UNCHANGED <<map, job>>, UNCHANGED <<retry, missed>>,
         UNCHANGED <<msgs, active, wait_queue, timeout_list, pending, credits>>,
         d.queue = t.queue, d.refs = t.refs, DestOK(d),
         d.state = t.state \/ (t.state \notin Querying /\ t.state # "READY" /\ d.state \in {"INIT", "QUERY_ROUTE"}),
         d.state = "QUERY_ROUTE" <=> s # "none"
  PROVE  Makes(r, o, d, s, 0)
<1>0. Shape /\ EndpointInv /\ PursuitInv
  BY DEF AInv
<1>1. Kept
  BY <1>0, Untouched
<1>2. Runs
  BY <1>0, ShapeNow, AwakeIs DEF Runs, Awake, Timed
<1>3. /\ EndpointInv' /\ \A p : Awaits(Unhandled, msgs, p) => Awaits(Unhandled', msgs', p)
      /\ \A p \in DOMAIN dest : Cardinality(InMsg(Holding', msgs', p)) =
           Cardinality(InMsg(Holding, msgs, p)) + IF p = o THEN 0 ELSE 0
  BY <1>0, <1>1, KeptNow
<1>4. LeavesPursued(o, d, s)
  <2>1. dest[o].state = "QUERY_ADDR" => Awaits(Unhandled, msgs, o)
    BY <1>0, AwakeIs DEF QueryLives, Awaits
  <2>2. d.state = "QUERY_ADDR" => dest[o].state = "QUERY_ADDR"
    BY DEF Timed, Querying
  <2>3. dest[o].state \in Querying => d.state \in Querying
    BY DEF Timed
  <2> QED
    BY <1>3, <2>1, <2>2, <2>3 DEF LeavesPursued
<1>5. d.refs = dest[o].refs + 0 /\ d.queue = dest[o].queue
  <2>1. d.refs \in Int
    BY DEF Dest
  <2> QED
    BY <2>1, SMTT(30) DEF Timed
<1>6. taken \subseteq taken' /\ (dest[o].state = "READY" => d.state = "READY" \/ o \in taken')
  BY DEF Timed
<1> QED
  BY <1>2, <1>3, <1>4, <1>5, <1>6, SMTT(30) DEF Makes

LEMMA ResolveStep ==
  ASSUME AInv, NEW r \in Requests, acmp_resolve_dest(r)
  PROVE  AInv'
<1> DEFINE o == req[r].dest
<1>0. Shape /\ EndpointInv /\ AnswersInv /\ PursuitInv
  BY DEF AInv
<1>1. PICK d \in acmp_dest_timeout(dest[o]) :
        /\ IF d = dest[o] THEN UNCHANGED <<env, taken>>
           ELSE env' = [env EXCEPT !.old = @ - 1] /\ taken' = taken \cup {o}
        /\ \/ /\ d.state = "READY" \/ (d.state = "ADDR_RESOLVED" /\ Op[r] = "ip")
              /\ Set(o, Put(d)) /\ Answer(r, "ok", d.path)
              /\ UNCHANGED <<sends, sa>>
           \/ /\ IF Op[r] = "path" THEN d.state \in {"INIT", "ADDR_RESOLVED"}
                 ELSE d.state = "ADDR_RESOLVED" /\ Op[r] # "ip"
              /\ \E x \in acmp_resolve_path_sa("dest") :
                   /\ StartSa(o, x)
                   /\ IF x.status = "wait" THEN acmp_queue_req(r, o, Becomes(d, x))
                      ELSE Set(o, Put(Becomes(d, x))) /\ Answer(r, x.status, x.path)
              /\ UNCHANGED sends
           \/ /\ d.state = "INIT" /\ Op[r] # "path"
              /\ \/ /\ acmp_send_resolve(o)
                    /\ acmp_queue_req(r, o, [d EXCEPT !.state = "QUERY_ADDR", !.refs = @ + 1])
                 \/ UNCHANGED sends /\ Set(o, Put(d)) /\ Answer(r, "error", d.path)
              /\ UNCHANGED sa
           \/ /\ d.state \in {"QUERY_ADDR", "QUERY_ROUTE"}
              /\ acmp_queue_req(r, o, d)
              /\ UNCHANGED <<sends, sa>>
  BY DEF acmp_resolve_dest
<1>2. /\ req[r].at = "have" /\ req' = [req EXCEPT ![r].at = "done"] /\ UNCHANGED <<map, job>>
      /\ UNCHANGED <<retry, missed>>
  BY DEF acmp_resolve_dest
<1>3. o \in DOMAIN dest /\ dest[o] \in Dest /\ dest \in Seq(Dest) /\ sa[o] \in Query
  BY <1>0, <1>2, ShapeNow
<1>4. req[r] = Have(o) /\ req' = [req EXCEPT ![r] = [at |-> "done", dest |-> o]]
  <2>1. req[r] = [at |-> req[r].at, dest |-> req[r].dest]
    BY <1>0, ShapeNow
  <2>2. [req[r] EXCEPT !.at = "done"] = [at |-> "done", dest |-> o]
    BY <2>1, SMTT(30)
  <2> QED
    BY <1>2, <2>1, <2>2 DEF Have
<1> HIDE DEF o
<1>5. Timed(o, d)
  BY <1>1, <1>3, TimeoutIs
<1>6. /\ d \in Dest /\ DestOK(d) /\ d.path \in Paths /\ (d.state = "QUERY_ROUTE" <=> sa[o] # "none")
      /\ d = [state |-> d.state, queue |-> d.queue, path |-> d.path, refs |-> d.refs]
      /\ d.queue \in Seq(Requests) /\ d.refs \in Int
  BY <1>5 DEF Timed, Dest
<1>7. sa' = sa => sa' = [sa EXCEPT ![o] = sa[o]]
  BY <1>0, <1>3, ShapeNow
<1>8. ASSUME UNCHANGED sends PROVE UNCHANGED <<msgs, active, wait_queue, timeout_list, pending, credits>>
  BY <1>8 DEF sends
<1>9. DOMAIN dest' = DOMAIN dest
  BY <1>1 DEF Set, acmp_queue_req
<1>10. UNCHANGED <<sends, sa>> => Makes(r, o, d, sa[o], 0)
  BY <1>2, <1>3, <1>4, <1>5, <1>6, <1>7, <1>8, <1>9, MakesQuietly
<1>11. CASE /\ d.state = "READY" \/ (d.state = "ADDR_RESOLVED" /\ Op[r] = "ip")
            /\ Set(o, Put(d)) /\ Answer(r, "ok", d.path) /\ UNCHANGED <<sends, sa>>
  <2>1. d.path \in IF Op[r] = "ip" THEN {"addr", "full"} ELSE {"full"}
    BY <1>6, <1>11 DEF DestOK
  <2> QED
    BY <1>3, <1>6, <1>10, <1>11, <2>1, AnswerStep
<1>12. CASE /\ d.state \in {"INIT", "ADDR_RESOLVED"} /\ UNCHANGED sends
            /\ \E x \in acmp_resolve_path_sa("dest") :
                 /\ StartSa(o, x)
                 /\ IF x.status = "wait" THEN acmp_queue_req(r, o, Becomes(d, x))
                    ELSE Set(o, Put(Becomes(d, x))) /\ Answer(r, x.status, x.path)
  <2>1. PICK x \in acmp_resolve_path_sa("dest") :
                 /\ StartSa(o, x)
                 /\ IF x.status = "wait" THEN acmp_queue_req(r, o, Becomes(d, x))
                    ELSE Set(o, Put(Becomes(d, x))) /\ Answer(r, x.status, x.path)
    BY <1>12
  <2>2. \/ x = Outcome("QUERY_ROUTE", "addr", "dest", "wait")
        \/ x = Outcome("INIT", "addr", "none", "error")
    BY DEF acmp_resolve_path_sa
  <2>3. Fits(d, x)
    BY <1>12, <2>2, SMTT(30) DEF Fits, Outcome, States, Paths, Query, Querying
  <2> DEFINE b == Becomes(d, x)
             s == x.query
  <2>4. b \in Dest /\ b.state = x.state /\ b.path = x.path /\ b.queue = d.queue /\ b.refs = d.refs
    BY <1>6, <2>3, BecomesIs
  <2>5. sa' = [sa EXCEPT ![o] = s] /\ s \in Query
    <3>1. sa[o] = "none"
      BY <1>6, <1>12
    <3>2. sa' = IF s = "none" THEN sa ELSE [sa EXCEPT ![o] = s]
      BY <2>1 DEF StartSa
    <3>3. s = "dest" \/ s = "none"
      BY <2>2, SMTT(30) DEF Outcome
    <3> HIDE DEF s
    <3>4. CASE s = "dest"
      BY <3>2, <3>4 DEF Query
    <3>5. CASE s = "none"
      <4>1. sa' = sa
        BY <3>2, <3>5
      <4> QED
        BY <1>7, <3>1, <3>5, <4>1 DEF Query
    <3> QED
      BY <3>3, <3>4, <3>5
  <2> HIDE DEF b
  <2>6. Makes(r, o, b, s, 0)
    <3>1. DestOK(b)
      BY <2>3, <2>4 DEF DestOK, Fits
    <3>2. /\ b.state = d.state \/ (d.state \notin Querying /\ d.state # "READY" /\ b.state \in {"INIT", "QUERY_ROUTE"})
          /\ (b.state = "QUERY_ROUTE" <=> s # "none")
      BY <1>12, <2>2, <2>4, SMTT(30) DEF Querying, Outcome
    <3> HIDE DEF s
    <3> QED
      BY <1>2, <1>3, <1>4, <1>5, <1>8, <1>9, <1>12, <2>4, <2>5, <3>1, <3>2, MakesQuietly
  <2>7. CASE x.status = "wait"
    <3>1. b.state \in Querying /\ acmp_queue_req(r, o, b)
      BY <2>1, <2>2, <2>4, <2>7, SMTT(30) DEF Outcome, Querying, b
    <3> QED
      BY <1>3, <2>6, <3>1, QueueStep
  <2>8. CASE x.status # "wait"
    <3>1. Set(o, Put(b)) /\ Answer(r, "error", "addr") /\ "addr" \in Paths
      BY <2>1, <2>2, <2>8, SMTT(30) DEF Outcome, Paths, b
    <3> QED
      BY <1>3, <2>6, <3>1, AnswerStep
  <2> QED
    BY <2>7, <2>8
<1>13. CASE /\ d.state = "INIT" /\ UNCHANGED sa /\ acmp_send_resolve(o)
            /\ acmp_queue_req(r, o, [d EXCEPT !.state = "QUERY_ADDR", !.refs = @ + 1])
  <2> DEFINE b == [d EXCEPT !.state = "QUERY_ADDR", !.refs = @ + 1]
  <2>1. b = [state |-> "QUERY_ADDR", queue |-> d.queue, path |-> d.path, refs |-> d.refs + 1]
    BY <1>6, AskIs
  <2>2. acmp_queue_req(r, o, b)
    BY <1>13
  <2> HIDE DEF b
  <2>3. /\ b \in Dest /\ DestOK(b) /\ b.state = "QUERY_ADDR" /\ b.queue = d.queue /\ b.path = d.path
        /\ b.refs = d.refs + 1
    <3>1. d.refs + 1 \in Int /\ "QUERY_ADDR" \in States
      BY <1>6, SMTT(30) DEF States
    <3> QED
      BY <1>6, <2>1, <3>1 DEF Dest, DestOK
  <2>4. Posted("resolve", o)
    <3>1. acmp_post_send("resolve", o, Retries + 1) /\ "resolve" \in Kinds
      BY <1>13 DEF acmp_send_resolve, Kinds
    <3> QED
      BY <1>0, <1>3, <1>9, <3>1, Posting
  <2>5. wait_queue' = wait_queue
    BY <1>13 DEF acmp_send_resolve, acmp_post_send
  <2>6. Runs
    BY <1>0, <1>2, <1>5, <2>5, ShapeNow, AwakeIs DEF Runs, Awake, Timed
  <2>7. /\ EndpointInv' /\ \A p : Awaits(Unhandled, msgs, p) => Awaits(Unhandled', msgs', p)
        /\ Awaits(Unhandled', msgs', o)
        /\ \A p \in DOMAIN dest : Cardinality(InMsg(Holding', msgs', p)) =
             Cardinality(InMsg(Holding, msgs, p)) + IF p = o THEN 1 ELSE 0
    BY <1>0, <2>4, PostedNow
  <2>8. sa[o] = "none"
    BY <1>6, <1>13
  <2>9. LeavesPursued(o, b, sa[o])
    BY <2>3, <2>7, <2>8 DEF LeavesPursued, Querying
  <2>10. b.refs = dest[o].refs + 1 /\ b.queue = dest[o].queue
    BY <1>5, <2>3 DEF Timed
  <2>11. taken \subseteq taken' /\ (dest[o].state = "READY" => b.state = "READY" \/ o \in taken')
    BY <1>5, <1>13 DEF Timed
  <2>12. Makes(r, o, b, sa[o], 1)
    <3>1. sa' = [sa EXCEPT ![o] = sa[o]] /\ 1 \in Int
      BY <1>7, <1>13, SMTT(30)
    <3> QED
      BY <1>2, <1>3, <1>4, <2>3, <2>6, <2>7, <2>9, <2>10, <2>11, <3>1 DEF Makes
  <2> QED
    BY <1>3, <2>2, <2>3, <2>12, QueueStep DEF Querying
<1>14. CASE UNCHANGED <<sends, sa>> /\ Set(o, Put(d)) /\ Answer(r, "error", d.path)
  BY <1>3, <1>6, <1>10, <1>14, AnswerStep
<1>15. CASE d.state \in {"QUERY_ADDR", "QUERY_ROUTE"} /\ acmp_queue_req(r, o, d) /\ UNCHANGED <<sends, sa>>
  BY <1>3, <1>10, <1>15, QueueStep DEF Querying
<1> QED
  BY <1>1, <1>11, <1>12, <1>13, <1>14, <1>15

-----------------------------------------------------------------------------
(* The theorems.                                                            *)

LEMMA NextStep ==
  ASSUME AInv, Next
  PROVE  AInv'
<1>1. ASSUME NEW r \in Requests, Client(r) PROVE AInv'
  BY <1>1, AcquireStep, AcquireFailsStep, ResolveStep DEF Client
<1>2. ASSUME NEW a \in Addrs, Solicit(a) \/ SolicitFails(a) PROVE AInv'
  BY <1>2, SolicitStep, SolicitFailsStep
<1>3. ASSUME CompleteSend PROVE AInv'
  BY <1>3, CompleteSendStep DEF CompleteSend
<1>4. ASSUME NEW m \in DOMAIN msgs, SendFails(m) \/ acmp_process_acm_recv(m) PROVE AInv'
  BY <1>4, SendFailsStep, RecvStep
<1>5. ASSUME SaAnswers PROVE AInv'
  BY <1>5, SaRespStep DEF SaAnswers
<1>6. ASSUME NEW t \in Threads, Finishing(t) PROVE AInv'
  BY <1>6, CompletedStep, ReplyStep, SendRespStep DEF Finishing
<1>7. ASSUME Retrying PROVE AInv'
  BY <1>7, RetryCheckStep, WaitQueueStep, TimeoutsStep DEF Retrying
<1> QED
  BY <1>1, <1>2, <1>3, <1>4, <1>5, <1>6, <1>7, AddrReqStep DEF Next

(* The inductive invariant: in every state the program reaches, the         *)
(* endpoint's lists and credits, the destinations with their queues, SA     *)
(* queries and reference counts, the clients and the three handler threads  *)
(* agree with each other, whatever order acmp.c's critical sections run in. *)
THEOREM AlwaysConsistent == Spec => []AInv
<1>1. AInv /\ UNCHANGED vars => AInv'
  <2> SUFFICES ASSUME AInv, UNCHANGED vars PROVE AInv'
    OBVIOUS
  <2>1. UNCHANGED <<msgs, active, wait_queue, timeout_list, pending, credits>>
        /\ UNCHANGED <<dest, map, sa, job, req, reply, taken>> /\ UNCHANGED <<env, retry, missed>>
    BY DEF vars, sends
  <2>2. Kept
    BY <2>1, Untouched DEF AInv
  <2>3. Runs
    BY <2>1, RunsOn
  <2> QED
    BY <2>1, <2>2, <2>3, QuietStep
<1> QED
  BY <1>1, InitHolds, NextStep, PTL DEF Spec

\* Each destination that exists is held at least once.
LEMMA RefsPositive ==
  ASSUME AInv, NEW o \in DOMAIN dest
  PROVE  dest[o].refs \in Nat /\ dest[o].refs > 0
<1> DEFINE R == Cardinality(InReq(req, o))
           T == Cardinality(InJob(job, o))
           M == Cardinality(InMsg(Holding, msgs, o))
<1>1. R \in Nat
  <2>1. IsFiniteSet(InReq(req, o))
    BY OptionsAssumption, FS_Subset DEF InReq
  <2> QED
    BY <2>1, FS_CardinalityType
<1>2. T \in Nat
  BY ThreadsFinite, FS_CardinalityType
<1>3. M \in Nat
  BY MessageCount DEF AInv
<1>4. dest[o].refs = 1 + R + T + M
  BY RefsAre DEF AInv
<1> HIDE DEF R, T, M
<1> QED
  BY <1>1, <1>2, <1>3, <1>4, SMTT(30)

(* The state of an endpoint is well formed: a message is in one of its      *)
(* lists, and every credit of a send queue is free or held by one message,  *)
(* so acmp_post_send and acmp_send_available neither lose a credit nor use  *)
(* one twice, through all retries, answers and timeouts.                    *)
THEOREM AlwaysBalanced == Spec => []EndpointBalanced
<1>1. AInv => EndpointBalanced
  <2> SUFFICES ASSUME AInv PROVE EndpointBalanced
    OBVIOUS
  <2>0. Shape /\ EndpointInv
    BY DEF AInv
  <2>1. ASSUME NEW o \in DOMAIN dest
        PROVE  /\ dest[o].state \in States /\ dest[o].refs \in Nat
               /\ dest[o].path \in {"none", "addr", "full"} /\ Queued(o) \subseteq Requests
    <3>1. dest[o] \in Dest
      BY <2>0, ShapeNow
    <3>2. dest[o].state \in States /\ dest[o].path \in Paths /\ dest[o].queue \in Seq(Requests)
      BY <3>1 DEF Dest
    <3>3. Range(dest[o].queue) \subseteq Requests
      BY <3>2, SMTT(30) DEF Range
    <3> QED
      BY <3>2, <3>3, RefsPositive DEF Paths, Queued
  <2>2. \A a \in Addrs : map[a] \in 0..Len(dest)
    BY <2>0, ShapeNow
  <2>3. ASSUME NEW m \in DOMAIN msgs PROVE msgs[m].tries \in 0..Retries + 1
    <3>1. msgs[m] \in Msg
      BY <2>0, SMTT(30) DEF EndpointInv
    <3> QED
      BY <3>1 DEF Msg
  <2>4. OnePlace /\ CreditsExact /\ retry \in {"check", "drowsy", "asleep", "scan", "timeouts"}
    BY <2>0 DEF EndpointInv, Shape
  <2> QED
    BY <2>1, <2>2, <2>3, <2>4 DEF EndpointBalanced, TypeOK
<1> QED
  BY <1>1, AlwaysConsistent, PTL

(* A destination in QUERY_ADDR has a resolve message that will be answered  *)
(* or time out, or one whose send completed in error, which                 *)
(* acmp_process_comp leaves to itself; one in QUERY_ROUTE has an SA query   *)
(* and no other has; a destination with a queued request is in one of these *)
(* states or has a thread in acmp_complete_queued_req; and                  *)
(* acmp_retry_handler sleeps over a waiting message only by the race of its *)
(* look at wait_cnt with the signal.                                        *)
THEOREM AlwaysPursued == Spec => []EverythingPursued
<1>1. AInv => EverythingPursued
  BY DEF AInv, PursuitInv
<1> QED
  BY <1>1, AlwaysConsistent, PTL

(* acmp_resolve_response answers a request at most once, and a success      *)
(* carries the path that was asked for, although three threads complete the *)
(* same queue and acmp_complete_queued_req drops the lock in between.       *)
THEOREM AlwaysAnswersRight == Spec => []AnswersRight
<1>1. AInv => AnswersRight
  BY DEF AInv, AnswersInv
<1> QED
  BY <1>1, AlwaysConsistent, PTL

(* No client, handler thread, message or SA query is left with a            *)
(* destination that acmp_put_dest has freed: acmp_get_dest and              *)
(* acmp_put_dest balance on every path of the handlers.                     *)
THEOREM AlwaysHeld == Spec => []InUseIsHeld
<1>1. AInv => InUseIsHeld
  BY RefsPositive DEF InUseIsHeld
<1> QED
  BY <1>1, AlwaysConsistent, PTL

=============================================================================
