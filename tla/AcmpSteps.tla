----------------------------- MODULE AcmpSteps ------------------------------
(***************************************************************************)
(* The steps of Acmp's threads keep AInv: those of the handlers of sends,   *)
(* receives, SA answers and timeouts.                                       *)
(***************************************************************************)
EXTENDS AcmpLemmas

\* A leaf is for Zenon unless it names another prover.
USE ZenonT(30)

-----------------------------------------------------------------------------
(* The parts of the invariant the steps are measured against.               *)

Use == [route_prot : {"acm", "sa"}, asks : SUBSET Requests, msgs : Nat,
        dests : Nat, old : Nat, solicits : Nat, fails : Nat]
Query == {"none", "dest", "resolve"}
Querying == {"QUERY_ADDR", "QUERY_ROUTE"}

\* What a thread may be doing while there are N destinations.
JobOK(t, j, N) ==
    /\ j \in Job
    /\ \/ j = NoJob
       \/ /\ j.at # "idle" /\ j.dest \in 1..N
          /\ j.at = "addr_req" => t = "comp" /\ j.ref
          /\ j.at = "complete" => j.status \in {"ok", "error"}

\* A destination with the path its state promises.
DestOK(d) ==
    /\ d \in Dest
    /\ d.state = "READY" => d.path = "full"
    /\ d.state = "ADDR_RESOLVED" => d.path = "addr"

Awake == retry \in {"drowsy", "asleep"} /\ wait_queue # <<>> => missed

\* One of the messages U is for p.
Awaits(U, ms, p) == \E m \in U : ms[m].dest = p

\* What does not concern destinations goes on as it should.
Runs ==
    /\ env' \in Use /\ env'.dests = env.dests
    /\ retry' \in {"check", "drowsy", "asleep", "scan", "timeouts"} /\ missed' \in BOOLEAN
    /\ Awake'

(* QueryIsOut, whether a message is still pursued or given up.              *)
QueryLives ==
    \A o \in DOMAIN dest :
        /\ dest[o].state = "QUERY_ADDR" => \E m \in Unhandled : msgs[m].dest = o
        /\ dest[o].state = "QUERY_ROUTE" <=> sa[o] # "none"

LEMMA AwakeIs ==
  (PursuitInv <=> /\ QueryLives /\ QueuedIsPursued /\ Awake
                  /\ \A o \in DOMAIN sa : o > Len(dest) => sa[o] = "none")
<1>1. QueryIsOut <=> QueryLives
  BY DEF QueryIsOut, QueryLives, GivenUp, Pursuing
<1> QED
  BY <1>1 DEF PursuitInv, EverythingPursued, OversleepsOnlyByRace, Awake

LEMMA AwakeIsNext ==
  (PursuitInv' <=> /\ QueryLives' /\ QueuedIsPursued' /\ Awake'
                   /\ \A o \in DOMAIN sa' : o > Len(dest') => sa'[o] = "none")
<1>1. QueryIsOut' <=> QueryLives'
  BY DEF QueryIsOut, QueryLives, GivenUp, Pursuing
<1> QED
  BY <1>1 DEF PursuitInv, EverythingPursued, OversleepsOnlyByRace, Awake

LEMMA ShapeNow ==
  ASSUME Shape
  PROVE  /\ env \in Use /\ env.dests \in Nat
         /\ dest \in Seq(Dest) /\ Len(dest) \in Nat /\ Len(dest) <= env.dests
         /\ DOMAIN dest = 1..Len(dest) /\ DOMAIN sa = 1..env.dests /\ DOMAIN dest \subseteq DOMAIN sa
         /\ \A o \in DOMAIN dest : dest[o] \in Dest /\ o \in Nat /\ sa[o] \in Query
         /\ map \in [Addrs -> 0..Len(dest)] /\ sa \in [1..env.dests -> Query]
         /\ job \in [Threads -> Job] /\ DOMAIN job = Threads
         /\ \A t \in Threads : JobOK(t, job[t], Len(dest)) /\ job[t].ref \in BOOLEAN
         /\ req \in [Requests -> [at : {"new", "have", "done"}, dest : Nat]] /\ DOMAIN req = Requests
         /\ \A r \in Requests : req[r].at = "have" => req[r].dest \in DOMAIN dest
         /\ reply \in [Requests -> Seq([status : {"ok", "error"}, path : Paths])]
         /\ retry \in {"check", "drowsy", "asleep", "scan", "timeouts"} /\ missed \in BOOLEAN
<1>1. /\ env \in Use /\ dest \in Seq(Dest) /\ Len(dest) <= env.dests /\ map \in [Addrs -> 0..Len(dest)]
      /\ sa \in [1..env.dests -> Query] /\ job \in [Threads -> Job]
      /\ req \in [Requests -> [at : {"new", "have", "done"}, dest : Nat]]
      /\ \A r \in Requests : req[r].at = "have" => req[r].dest \in 1..Len(dest)
      /\ reply \in [Requests -> Seq([status : {"ok", "error"}, path : Paths])]
      /\ retry \in {"check", "drowsy", "asleep", "scan", "timeouts"} /\ missed \in BOOLEAN
  BY DEF Shape, Use, Query
<1>2. \A t \in Threads : JobOK(t, job[t], Len(dest))
  BY DEF Shape, JobOK
<1>3. env.dests \in Nat
  BY <1>1 DEF Use
<1>4. \A t \in Threads : job[t].ref \in BOOLEAN
  BY <1>1 DEF Job
<1>5. DOMAIN dest = 1..Len(dest) /\ Len(dest) \in Nat /\ DOMAIN sa = 1..env.dests
  BY <1>1, SMTT(30)
<1>6. DOMAIN dest \subseteq DOMAIN sa
  BY <1>1, <1>3, <1>5, SMTT(30)
<1>7. \A o \in DOMAIN dest : dest[o] \in Dest /\ o \in Nat /\ sa[o] \in Query
  BY <1>1, <1>5, <1>6, SMTT(30)
<1> QED
  BY <1>1, <1>2, <1>3, <1>4, <1>5, <1>6, <1>7

LEMMA ShapeBy ==
  ASSUME /\ env' \in Use /\ dest' \in Seq(Dest) /\ Len(dest') <= env'.dests
         /\ map' \in [Addrs -> 0..Len(dest')] /\ sa' \in [1..env'.dests -> Query]
         /\ job' \in [Threads -> Job] /\ \A t \in Threads : JobOK(t, job'[t], Len(dest'))
         /\ req' \in [Requests -> [at : {"new", "have", "done"}, dest : Nat]]
         /\ \A r \in Requests : req'[r].at = "have" => req'[r].dest \in 1..Len(dest')
         /\ reply' \in [Requests -> Seq([status : {"ok", "error"}, path : Paths])]
         /\ retry' \in {"check", "drowsy", "asleep", "scan", "timeouts"} /\ missed' \in BOOLEAN
  PROVE  Shape'
BY DEF Shape, Use, Query, JobOK

\* A step that leaves destinations, threads' jobs and clients alone.
LEMMA QuietStep ==
  ASSUME AInv, Kept, Runs, UNCHANGED <<dest, map, sa, job, req, reply, taken>>
  PROVE  AInv'
<1>1. Shape'
  BY ShapeNow, ShapeBy DEF AInv, Runs
<1>2. EndpointInv' /\ SameMsgs(msgs, msgs') /\ Unhandled' = Unhandled
  BY DEF Kept
<1>3. AnswersInv'
  BY DEF AInv, AnswersInv, AnswersRight, AnsweredOnce, SuccessMeansResolved, Queued
<1>4. \A p \in DOMAIN dest : Awaits(Unhandled, msgs, p) => Awaits(Unhandled', msgs', p)
  BY <1>2, HeldAreMessages DEF Awaits, SameMsgs, AInv
<1>5. PursuitInv'
  <2>1. QueryLives'
    BY <1>4, AwakeIs DEF AInv, QueryLives, Awaits
  <2>2. QueuedIsPursued'
    BY AwakeIs DEF AInv, QueuedIsPursued
  <2>3. \A o \in DOMAIN sa' : o > Len(dest') => sa'[o] = "none"
    BY AwakeIs DEF AInv
  <2> QED
    BY <2>1, <2>2, <2>3, AwakeIsNext DEF Runs
<1>6. RefsExact'
  <2>1. ASSUME NEW o \in DOMAIN dest
        PROVE  Cardinality(InMsg(Holding', msgs', o)) = Cardinality(InMsg(Holding, msgs, o))
    BY MessageCount DEF AInv
  <2> QED
    BY <2>1, RefsAre, RefsAreNext DEF AInv
<1> QED
  BY <1>1, <1>2, <1>3, <1>5, <1>6 DEF AInv

(* Thread t leaves destination o as d, its own job as j and the SA query of *)
(* o as s; the messages that hold o become n more.                          *)
Touches(t, o, d, j, s, n) ==
    /\ dest' = [dest EXCEPT ![o] = d] /\ job' = [job EXCEPT ![t] = j] /\ sa' = [sa EXCEPT ![o] = s]
    /\ UNCHANGED <<map, req, reply>> /\ Runs
    /\ DestOK(d) /\ JobOK(t, j, Len(dest)) /\ s \in Query
    /\ d.queue = dest[o].queue
TouchAnswers(t, o, d, j) ==
    /\ taken' = IF dest[o].state = "READY" /\ d.state # "READY" THEN taken \cup {o} ELSE taken
    /\ j.at = "complete" /\ j.status = "ok" => j = job[t] \/ (j.dest = o /\ d.state = "READY")
TouchPursues(t, o, d, j, s) ==
    /\ (d.state = "QUERY_ROUTE" <=> s # "none")
    /\ d.state = "QUERY_ADDR" => Awaits(Unhandled', msgs', o)
    /\ \A p \in DOMAIN dest \ {o} : Awaits(Unhandled, msgs, p) => Awaits(Unhandled', msgs', p)
    /\ job[t].at = "complete" => j = job[t] \/ dest[job[t].dest].queue = <<>>
    /\ d.queue # <<>> => \/ d.state \in Querying \/ dest[o].state \notin Querying
                         \/ j.at = "complete" /\ j.dest = o
TouchHolds(t, o, d, j, n) ==
    /\ job[t].ref => job[t].dest = o
    /\ j.ref => j.dest = o
    /\ n \in Int /\ \A p \in DOMAIN dest :
         Cardinality(InMsg(Holding', msgs', p)) = Cardinality(InMsg(Holding, msgs, p)) + IF p = o THEN n ELSE 0
    /\ d.refs = ((dest[o].refs - Ref(job[t], o)) + Ref(j, o)) + n

LEMMA TouchStep ==
  ASSUME AInv, NEW t \in Threads, NEW o \in DOMAIN dest, NEW d, NEW j, NEW s, NEW n,
         Touches(t, o, d, j, s, n), TouchAnswers(t, o, d, j), TouchPursues(t, o, d, j, s),
         TouchHolds(t, o, d, j, n), EndpointInv'
  PROVE  AInv'
<1>0. /\ Shape /\ EndpointInv /\ AnswersInv /\ PursuitInv /\ RefsExact
  BY DEF AInv
<1>1. /\ dest' = [dest EXCEPT ![o] = d] /\ job' = [job EXCEPT ![t] = j] /\ sa' = [sa EXCEPT ![o] = s]
      /\ UNCHANGED <<map, req, reply>> /\ Runs
      /\ DestOK(d) /\ d \in Dest /\ JobOK(t, j, Len(dest)) /\ j \in Job /\ s \in Query
      /\ d.queue = dest[o].queue
  BY DEF Touches, DestOK, JobOK
<1>2. /\ dest' \in Seq(Dest) /\ Len(dest') = Len(dest) /\ DOMAIN dest' = DOMAIN dest
      /\ dest'[o] = d /\ \A p \in DOMAIN dest : p # o => dest'[p] = dest[p]
  BY <1>0, <1>1, ShapeNow, SMTT(30)
<1>3. /\ job' \in [Threads -> Job] /\ job'[t] = j /\ \A u \in Threads : u # t => job'[u] = job[u]
  BY <1>0, <1>1, ShapeNow
<1>4. /\ sa' \in [1..env.dests -> Query] /\ sa'[o] = s /\ \A p \in DOMAIN sa : p # o => sa'[p] = sa[p]
      /\ DOMAIN sa' = DOMAIN sa
  BY <1>0, <1>1, ShapeNow
<1>5. Shape'
  <2>1. \A u \in Threads : JobOK(u, job'[u], Len(dest'))
    BY <1>0, <1>1, <1>2, <1>3, ShapeNow
  <2> QED
    BY <1>0, <1>1, <1>2, <1>3, <1>4, <2>1, ShapeNow, ShapeBy DEF Runs
<1>6. AnswersInv'
  <2>1. taken \subseteq taken' /\ (dest[o].state = "READY" => d.state = "READY" \/ o \in taken')
    BY DEF TouchAnswers
  <2>2. \A p \in DOMAIN dest : dest'[p].queue = dest[p].queue
    BY <1>1, <1>2
  <2>3. AnswersRight'
    BY <1>0, <1>1, <1>2, <2>1, <2>2, SMTT(30) DEF AnswersInv, AnswersRight, AnsweredOnce, SuccessMeansResolved, Queued
  <2>4. \A p \in DOMAIN dest' : /\ dest'[p].state = "READY" => dest'[p].path = "full"
                                /\ dest'[p].state = "ADDR_RESOLVED" => dest'[p].path = "addr"
    BY <1>0, <1>1, <1>2 DEF AnswersInv, DestOK
  <2>5. ASSUME NEW u \in Threads, job'[u].at = "complete", job'[u].status = "ok", job'[u].dest \notin taken'
        PROVE  dest'[job'[u].dest].state = "READY"
    <3>1. CASE job'[u] = job[u]
      <4>1. dest[job[u].dest].state = "READY" /\ job[u].dest \in DOMAIN dest
        <5>1. job[u] # NoJob
          BY <2>5, <3>1, SMTT(30) DEF NoJob
        <5>2. job[u].dest \in DOMAIN dest
          BY <1>0, <5>1, ShapeNow, SMTT(30) DEF JobOK
        <5> QED
          BY <1>0, <2>1, <2>5, <3>1, <5>2 DEF AnswersInv
      <4> QED
        BY <1>2, <2>1, <2>5, <3>1, <4>1
    <3>2. CASE job'[u] # job[u]
      <4>1. u = t /\ j # job[t]
        BY <1>3, <3>2
      <4> QED
        BY <1>2, <1>3, <2>5, <4>1 DEF TouchAnswers
    <3> QED
      BY <3>1, <3>2
  <2>6. \A r \in Requests : req'[r].at # "done" => reply'[r] = <<>>
    BY <1>0, <1>1 DEF AnswersInv
  <2> QED
    BY <2>3, <2>4, <2>5, <2>6 DEF AnswersInv
<1>7. PursuitInv'
  <2>1. QueryLives /\ QueuedIsPursued /\ \A p \in DOMAIN sa : p > Len(dest) => sa[p] = "none"
    BY <1>0, AwakeIs
  <2>2. QueryLives'
    <3>1. ASSUME NEW p \in DOMAIN dest
          PROVE  /\ dest'[p].state = "QUERY_ADDR" => Awaits(Unhandled', msgs', p)
                 /\ (dest'[p].state = "QUERY_ROUTE" <=> sa'[p] # "none")
      <4>1. CASE p = o
        BY <1>2, <1>4, <4>1 DEF TouchPursues
      <4>2. CASE p # o
        <5>1. dest'[p] = dest[p] /\ sa'[p] = sa[p]
          BY <1>0, <1>2, <1>4, <4>2, ShapeNow
        <5> QED
          BY <2>1, <4>2, <5>1, SMTT(30) DEF TouchPursues, QueryLives, Awaits
      <4> QED
        BY <4>1, <4>2
    <3> QED
      BY <1>2, <3>1 DEF QueryLives, Awaits
  <2>3. QueuedIsPursued'
    <3>1. ASSUME NEW p \in DOMAIN dest, dest'[p].queue # <<>>, dest'[p].state \notin Querying
          PROVE  \E u \in Threads : job'[u].at = "complete" /\ job'[u].dest = p
      <4>1. dest[p].queue # <<>>
        BY <1>1, <1>2, <3>1
      <4>2. CASE dest[p].state \notin Querying
        <5>1. PICK u \in Threads : job[u].at = "complete" /\ job[u].dest = p
          BY <2>1, <4>1, <4>2 DEF QueuedIsPursued, Querying
        <5>2. job'[u] = job[u]
          BY <1>3, <4>1, <5>1 DEF TouchPursues
        <5> QED
          BY <5>1, <5>2
      <4>3. CASE dest[p].state \in Querying
        <5>1. p = o
          BY <1>2, <3>1, <4>3
        <5> QED
          BY <1>2, <1>3, <3>1, <4>3, <5>1 DEF TouchPursues
      <4> QED
        BY <4>2, <4>3
    <3> QED
      BY <1>2, <3>1 DEF QueuedIsPursued, Querying
  <2>4. \A p \in DOMAIN sa' : p > Len(dest') => sa'[p] = "none"
    BY <1>0, <1>2, <1>4, <2>1, ShapeNow, SMTT(30)
  <2> QED
    BY <1>1, <2>2, <2>3, <2>4, AwakeIsNext DEF Runs
<1>8. RefsExact'
  <2>1. ASSUME NEW p \in DOMAIN dest
        PROVE  dest'[p].refs = 1 + Cardinality(InReq(req', p)) + Cardinality(InJob(job', p))
                                 + Cardinality(InMsg(Holding', msgs', p))
    <3> DEFINE R == Cardinality(InReq(req, p))
               T == Cardinality(InJob(job, p))
               T2 == Cardinality(InJob(job', p))
               M == Cardinality(InMsg(Holding, msgs, p))
               M2 == Cardinality(InMsg(Holding', msgs', p))
    <3>1. InReq(req', p) = InReq(req, p) /\ R \in Nat
      <4>1. IsFiniteSet(InReq(req, p))
        BY OptionsAssumption, FS_Subset DEF InReq
      <4> QED
        BY <1>1, <4>1, FS_CardinalityType DEF InReq
    <3>2. /\ T2 = (T - Ref(job[t], p)) + Ref(j, p)
          /\ T \in Nat /\ T2 \in Nat
      <4>1. job \in [Threads -> Job]
        BY <1>0, ShapeNow
      <4> QED
        BY <1>1, <4>1, ThreadCount
    <3>3. M2 = M + (IF p = o THEN n ELSE 0) /\ M \in Nat /\ n \in Int
      BY <1>0, MessageCount DEF TouchHolds
    <3>4. dest[p].refs = 1 + R + T + M
      BY <1>0, RefsAre
    <3> HIDE DEF R, T, T2, M, M2
    <3>5. CASE p = o
      <4>2. dest'[p].refs = ((dest[p].refs - Ref(job[t], p)) + Ref(j, p)) + n
        BY <1>2, <3>5 DEF TouchHolds
      <4>3. Ref(job[t], p) \in Int /\ Ref(j, p) \in Int /\ M2 = M + n
        BY <3>3, <3>5, SMTT(30) DEF Ref
      <4>4. dest'[p].refs = 1 + R + T2 + M2
        BY <3>1, <3>2, <3>3, <3>4, <4>2, <4>3, SMTT(30)
      <4> QED
        BY <3>1, <4>4 DEF R, T2, M2
    <3>6. CASE p # o
      <4>1. T2 = T
        BY <3>2, <3>6, SMTT(30) DEF TouchHolds, Ref
      <4>2. dest'[p].refs = dest[p].refs /\ M2 = M
        BY <1>2, <3>3, <3>6, SMTT(30)
      <4>3. dest'[p].refs = 1 + R + T2 + M2
        BY <3>4, <4>1, <4>2
      <4> QED
        BY <3>1, <4>3 DEF R, T2, M2
    <3> QED
      BY <3>5, <3>6
  <2> QED
    BY <1>2, <2>1, RefsAreNext
<1> QED
  BY <1>5, <1>6, <1>7, <1>8 DEF AInv

-----------------------------------------------------------------------------
(* The actions.                                                             *)

LEMMA RunsOn ==
  ASSUME AInv, UNCHANGED <<retry, missed>>, wait_queue' # <<>> => wait_queue # <<>>,
         env' = env
  PROVE  Runs
BY ShapeNow, AwakeIs DEF AInv, Runs, Awake

LEMMA SendFailsStep ==
  ASSUME AInv, NEW m, SendFails(m)
  PROVE  AInv'
<1>1. UNCHANGED <<msgs, active, wait_queue, timeout_list, pending, credits>>
      /\ UNCHANGED <<dest, map, sa, job, req, reply, taken>> /\ UNCHANGED <<retry, missed>>
  BY DEF SendFails
<1>2. Kept
  BY <1>1, Untouched DEF AInv
<1>3. env' \in Use /\ env'.dests = env.dests
  <2>1. env \in Use
    BY ShapeNow DEF AInv
  <2> QED
    BY <2>1, SMTT(30) DEF SendFails, Use
<1>4. Runs
  BY <1>1, <1>3, ShapeNow, AwakeIs DEF AInv, Runs, Awake
<1> QED
  BY <1>1, <1>2, <1>4, QuietStep

LEMMA RetryCheckStep ==
  ASSUME AInv, RetryCheck \/ event_wait
  PROVE  AInv'
<1>1. UNCHANGED <<msgs, active, wait_queue, timeout_list, pending, credits>>
      /\ UNCHANGED <<dest, map, sa, job, req, reply, taken>> /\ UNCHANGED <<env, missed>>
  BY DEF RetryCheck, event_wait, sends
<1>2. Kept
  BY <1>1, Untouched DEF AInv
<1>3. Awake'
  <2>1. Awake
    BY AwakeIs DEF AInv
  <2> QED
    BY <1>1, <2>1 DEF Awake, RetryCheck, event_wait
<1>4. Runs
  BY <1>1, <1>3, ShapeNow DEF AInv, Runs, RetryCheck, event_wait
<1> QED
  BY <1>1, <1>2, <1>4, QuietStep

LEMMA WaitQueueStep ==
  ASSUME AInv, acmp_process_wait_queue
  PROVE  AInv'
<1>1. UNCHANGED <<dest, map, sa, job, req, reply, taken>> /\ UNCHANGED <<env, missed>> /\ retry' = "timeouts"
  BY DEF acmp_process_wait_queue
<1>2. Kept
  BY ScanKeeps DEF AInv
<1>3. Runs
  BY <1>1, ShapeNow DEF AInv, Runs, Awake
<1> QED
  BY <1>1, <1>2, <1>3, QuietStep

\* Messages for other destinations are still to be handled.
LEMMA OthersPursued ==
  ASSUME EndpointInv, NEW m, Handled(m) \/ Freed(m) \/ Kept
  PROVE  /\ \A p : p # msgs[m].dest /\ Awaits(Unhandled, msgs, p) => Awaits(Unhandled', msgs', p)
         /\ Freed(m) \/ Kept => \A p : Awaits(Unhandled, msgs, p) => Awaits(Unhandled', msgs', p)
<1>1. Unhandled \subseteq DOMAIN msgs
  BY HeldAreMessages
<1>2. /\ SameMsgs(msgs, msgs') /\ Unhandled \ {m} \subseteq Unhandled'
      /\ (Freed(m) \/ Kept => Unhandled' = Unhandled)
  BY DEF Handled, Freed, Kept
<1> QED
  BY <1>1, <1>2 DEF Awaits, SameMsgs

LEMMA OneHolderLess ==
  ASSUME EndpointInv, NEW m, Handled(m) \/ Freed(m)
  PROVE  /\ -1 \in Int
         /\ \A p \in DOMAIN dest : Cardinality(InMsg(Holding', msgs', p)) =
              Cardinality(InMsg(Holding, msgs, p)) + IF p = msgs[m].dest THEN -1 ELSE 0
<1>1. ASSUME NEW p \in DOMAIN dest
      PROVE  Cardinality(InMsg(Holding', msgs', p)) =
               Cardinality(InMsg(Holding, msgs, p)) + IF p = msgs[m].dest THEN -1 ELSE 0
  <2>1. /\ Cardinality(InMsg(Holding, msgs, p)) \in Nat
        /\ Cardinality(InMsg(Holding', msgs', p)) = Cardinality(InMsg(Holding, msgs, p)) - Eq(msgs[m].dest, p)
    BY MessageCount
  <2> QED
    BY <2>1, SMTT(30) DEF Eq
<1> QED
  BY <1>1, SMTT(30)

LEMMA PutIs ==
  ASSUME NEW d \in Dest
  PROVE  /\ Put(d) \in Dest /\ Put(d).state = d.state /\ Put(d).queue = d.queue /\ Put(d).path = d.path
         /\ Put(d).refs = d.refs - 1 /\ d.refs \in Int
<1>1. Put(d) = [state |-> d.state, queue |-> d.queue, path |-> d.path, refs |-> d.refs - 1]
  BY SMTT(30) DEF Put, Dest
<1> QED
  BY <1>1, SMTT(30) DEF Dest

\* Only references of o are taken or given back, and t goes on with job j.
LEMMA RefStep ==
  ASSUME AInv, NEW t \in Threads, NEW o \in DOMAIN dest, NEW d \in Dest, NEW j, NEW n,
         dest' = [dest EXCEPT ![o] = d], job' = [job EXCEPT ![t] = j],
         d.state = dest[o].state, d.queue = dest[o].queue, d.path = dest[o].path,
         UNCHANGED <<map, sa, req, reply, taken>>, Runs, JobOK(t, j, Len(dest)),
         j.at = "complete" => j = job[t],
         job[t].at = "complete" => j = job[t] \/ dest[job[t].dest].queue = <<>>,
         \A p \in DOMAIN dest : (p = o => dest[o].state = "QUERY_ADDR") /\ Awaits(Unhandled, msgs, p)
                                   => Awaits(Unhandled', msgs', p),
         TouchHolds(t, o, d, j, n), EndpointInv'
  PROVE  AInv'
<1>0. Shape /\ EndpointInv /\ AnswersInv /\ PursuitInv /\ RefsExact
  BY DEF AInv
<1>1. Touches(t, o, d, j, sa[o], n)
  <2>1. sa' = [sa EXCEPT ![o] = sa[o]] /\ sa[o] \in Query
    BY <1>0, ShapeNow
  <2>2. DestOK(d)
    BY <1>0 DEF DestOK, AnswersInv
  <2> QED
    BY <2>1, <2>2 DEF Touches
<1>2. TouchAnswers(t, o, d, j)
  BY DEF TouchAnswers
<1>3. TouchPursues(t, o, d, j, sa[o])
  <2>1. (dest[o].state = "QUERY_ROUTE" <=> sa[o] # "none") /\ (dest[o].state = "QUERY_ADDR" => Awaits(Unhandled, msgs, o))
    BY <1>0, AwakeIs DEF QueryLives, Awaits
  <2> QED
    BY <2>1 DEF TouchPursues
<1> QED
  BY <1>1, <1>2, <1>3, TouchStep
LEMMA NoJobHolds ==
  /\ NoJob.ref = FALSE /\ NoJob.at = "idle" /\ NoJob.dest = 0 /\ NoJob \in Job
  /\ \A o : Ref(NoJob, o) = 0
  /\ \A t, N : JobOK(t, NoJob, N)
BY DEF NoJob, Ref, JobOK, Job

\* The daemon starts with the invariant.
LEMMA InitHolds == Init => AInv
<1> SUFFICES ASSUME Init PROVE AInv
  OBVIOUS
<1>1. /\ env \in Use /\ dest = <<>> /\ map = [a \in Addrs |-> 0]
      /\ msgs = <<>> /\ active = {} /\ wait_queue = <<>> /\ timeout_list = <<>>
      /\ pending = [k \in Kinds |-> <<>>] /\ credits = [k \in Kinds |-> Depth]
      /\ sa = [o \in 1..env.dests |-> "none"] /\ job = [t \in Threads |-> NoJob] /\ retry = "check"
      /\ req = [r \in Requests |-> [at |-> "new", dest |-> 0]] /\ reply = [r \in Requests |-> <<>>]
      /\ missed = FALSE
  BY OptionsAssumption DEF Init, Use
<1>2. Range(<<>>) = {} /\ IsInjective(<<>>) /\ DOMAIN <<>> = {} /\ Len(<<>>) = 0 /\ \A S : <<>> \in Seq(S)
  BY SMTT(30) DEF Range, IsInjective
<1>3. env.dests \in Nat
  BY <1>1 DEF Use
<1>4. "resolve" \in Kinds /\ "resp" \in Kinds /\ Depth \in Nat
  BY DepthType DEF Kinds
<1>5. Shape
  <2>1. 0 <= env.dests
    BY <1>3, SMTT(30)
  <2>2. \A r \in Requests : req[r].at = "new"
    BY <1>1
  <2>3. req \in [Requests -> [at : {"new", "have", "done"}, dest : Nat]]
    BY <1>1
  <2>4. map \in [Addrs -> 0..0] /\ reply \in [Requests -> Seq([status : {"ok", "error"}, path : Paths])]
    BY <1>1, <1>2, SMTT(30)
  <2>5. job \in [Threads -> Job] /\ \A t \in Threads : job[t] = NoJob
    BY <1>1, NoJobHolds
  <2>6. dest \in Seq(Dest) /\ Len(dest) = 0
    BY <1>1, <1>2
  <2>7. sa \in [1..env.dests -> {"none", "dest", "resolve"}]
    BY <1>1
  <2> QED
    BY <1>1, <2>1, <2>2, <2>3, <2>4, <2>5, <2>6, <2>7 DEF Shape, Use
<1>6. EndpointInv
  <2>1. OnePlace
    BY <1>1, <1>2, <1>4 DEF OnePlace
  <2>2. CreditsExact
    <3>1. \A k \in Kinds : Held(k) = {}
      BY <1>1, <1>2 DEF Held
    <3>2. Cardinality({}) = 0
      BY FS_EmptySet
    <3>3. \A k \in Kinds : credits[k] = Depth /\ pending[k] = <<>>
      BY <1>1
    <3>4. ASSUME NEW k \in Kinds
          PROVE  credits[k] + Cardinality(Held(k)) = Depth /\ (pending[k] # <<>> => credits[k] = 0)
      <4>1. Cardinality(Held(k)) = 0
        BY <3>1, <3>2
      <4>2. credits[k] = Depth /\ pending[k] = <<>>
        BY <3>3
      <4>3. credits[k] + Cardinality(Held(k)) = Depth + 0
        BY <4>1, <4>2
      <4> QED
        BY <1>4, <4>2, <4>3, SMTT(30)
    <3> QED
      BY <3>4 DEF CreditsExact
  <2>3. /\ msgs \in Seq(Msg) /\ active \subseteq DOMAIN msgs /\ DOMAIN msgs = {}
        /\ wait_queue \in Seq(DOMAIN msgs) /\ timeout_list \in Seq(DOMAIN msgs)
        /\ credits \in [Kinds -> Nat]
    BY <1>1, <1>2, <1>4
  <2>4. pending \in [Kinds -> Seq(DOMAIN msgs)]
    BY <1>1, <1>2
  <2>5. Range(wait_queue) = {} /\ Range(timeout_list) = {} /\ Range(pending["resolve"]) = {} /\ Range(pending["resp"]) = {}
    BY <1>1, <1>2, <1>4
  <2> QED
    BY <2>1, <2>2, <2>3, <2>4, <2>5 DEF EndpointInv
<1>7. AnswersInv
  <2>1. \A r \in Requests : reply[r] = <<>>
    BY <1>1
  <2>2. \A t \in Threads : job[t].at = "idle"
    BY <1>1, NoJobHolds
  <2>3. DOMAIN dest = {}
    BY <1>1, <1>2
  <2>4. \A r \in Requests : Len(reply[r]) <= 1
    BY <1>2, <2>1, SMTT(30)
  <2> QED
    BY <2>1, <2>2, <2>3, <2>4 DEF AnswersInv, AnswersRight, AnsweredOnce, SuccessMeansResolved
<1>8. PursuitInv
  BY <1>1, <1>2, AwakeIs DEF QueryLives, QueuedIsPursued, Awake
<1>9. RefsExact
  BY <1>1, <1>2 DEF RefsExact
<1> QED
  BY <1>5, <1>6, <1>7, <1>8, <1>9 DEF AInv

(* What a handler's outcome x for a destination d must be like.             *)
Fits(d, x) ==
    /\ x \in [state : States \ {"QUERY_ADDR"}, path : Paths, query : Query, status : {"wait", "ok", "error"}]
    /\ x.state = "READY" => x.path = "full"
    /\ x.state = "ADDR_RESOLVED" => x.path = "addr"
    /\ (x.state = "QUERY_ROUTE" <=> x.query # "none" \/ d.state = "QUERY_ROUTE")
    /\ x.status = "ok" => x.state = "READY"
    /\ x.status = "wait" /\ d.queue # <<>> /\ d.state \in Querying => x.state = "QUERY_ROUTE"

LEMMA BecomesIs ==
  ASSUME NEW d \in Dest, NEW x, Fits(d, x)
  PROVE  /\ Becomes(d, x) \in Dest /\ Becomes(d, x).state = x.state /\ Becomes(d, x).path = x.path
         /\ Becomes(d, x).queue = d.queue /\ Becomes(d, x).refs = d.refs
<1>1. Becomes(d, x) = [state |-> x.state, queue |-> d.queue, path |-> x.path, refs |-> d.refs]
  <2>1. d = [state |-> d.state, queue |-> d.queue, path |-> d.path, refs |-> d.refs]
    BY DEF Dest
  <2>2. Becomes(d, x) = [[d EXCEPT !.state = x.state] EXCEPT !.path = x.path]
    BY <2>1 DEF Becomes
  <2>3. [d EXCEPT !.state = x.state] = [state |-> x.state, queue |-> d.queue, path |-> d.path, refs |-> d.refs]
    BY <2>1, SMTT(30)
  <2> QED
    BY <2>2, <2>3
<1>2. x.state \in States /\ x.path \in Paths
  BY DEF Fits
<1> QED
  BY <1>1, <1>2, SMTT(30) DEF Dest

CompletingJob(o, status, respond, ref) ==
    [at |-> "complete", dest |-> o, status |-> status, respond |-> respond, ref |-> ref]

\* Thread t, whose work holds o, applies outcome x to o.
LEMMA OutcomeStep ==
  ASSUME AInv, NEW t \in Threads, NEW o \in DOMAIN dest, NEW x, NEW respond \in BOOLEAN, NEW n \in Int,
         Fits(dest[o], x), StartSa(o, x), job[t].at # "complete", job[t].ref => job[t].dest = o,
         IF x.status = "wait"
         THEN Set(o, Put(Becomes(dest[o], x))) /\ job' = [job EXCEPT ![t] = NoJob]
         ELSE Set(o, Becomes(dest[o], x)) /\ Completing(t, o, x.status, respond, TRUE),
         taken' = IF dest[o].state = "READY" /\ x.state # "READY" THEN taken \cup {o} ELSE taken,
         UNCHANGED <<map, req, reply>>, Runs,
         \A p \in DOMAIN dest \ {o} : Awaits(Unhandled, msgs, p) => Awaits(Unhandled', msgs', p),
         \A p \in DOMAIN dest : Cardinality(InMsg(Holding', msgs', p)) =
            Cardinality(InMsg(Holding, msgs, p)) + IF p = o THEN n ELSE 0,
         n = Ref(job[t], o) - 1, EndpointInv'
  PROVE  AInv'
<1>0. Shape /\ EndpointInv /\ AnswersInv /\ PursuitInv /\ RefsExact
  BY DEF AInv
<1> DEFINE b == Becomes(dest[o], x)
           d == IF x.status = "wait" THEN Put(b) ELSE b
           j == IF x.status = "wait" THEN NoJob ELSE CompletingJob(o, x.status, respond, TRUE)
           s == IF x.query = "none" THEN sa[o] ELSE x.query
<1>1. dest' = [dest EXCEPT ![o] = d] /\ job' = [job EXCEPT ![t] = j]
  BY DEF Set, Completing, CompletingJob
<1>2. sa' = [sa EXCEPT ![o] = s] /\ s \in Query
  BY <1>0, ShapeNow DEF StartSa, Fits
<1>3. /\ b \in Dest /\ b.state = x.state /\ b.path = x.path
      /\ b.queue = dest[o].queue /\ b.refs = dest[o].refs /\ dest[o].refs \in Int
  <2>1. dest[o] \in Dest
    BY <1>0, ShapeNow
  <2> QED
    BY <2>1, BecomesIs DEF Dest
<1> HIDE DEF b
<1>4. /\ d \in Dest /\ d.state = x.state /\ d.path = x.path /\ d.queue = dest[o].queue
      /\ d.refs = IF x.status = "wait" THEN dest[o].refs - 1 ELSE dest[o].refs
  BY <1>3, PutIs
<1>5. /\ JobOK(t, j, Len(dest)) /\ (j.ref => j.dest = o) /\ Ref(j, o) = IF x.status = "wait" THEN 0 ELSE 1
      /\ j.at = "complete" => j.status = x.status /\ j.dest = o
      /\ x.status # "wait" => j.at = "complete" /\ j.dest = o
  <2>1. CASE x.status = "wait"
    <3>1. j = NoJob
      BY <2>1
    <3> HIDE DEF j
    <3> QED
      BY <2>1, <3>1, NoJobHolds
  <2>2. CASE x.status # "wait"
    <3>1. j = CompletingJob(o, x.status, respond, TRUE)
      BY <2>2
    <3>2. x.status \in {"ok", "error"} /\ o \in Nat /\ o \in 1..Len(dest)
      BY <1>0, <2>2, ShapeNow DEF Fits
    <3>3. /\ CompletingJob(o, x.status, respond, TRUE) \in Job
          /\ CompletingJob(o, x.status, respond, TRUE).at = "complete"
          /\ CompletingJob(o, x.status, respond, TRUE).dest = o
          /\ CompletingJob(o, x.status, respond, TRUE).ref = TRUE
          /\ CompletingJob(o, x.status, respond, TRUE).status = x.status
      BY <3>2 DEF CompletingJob, Job
    <3> HIDE DEF j
    <3> QED
      BY <2>2, <3>1, <3>2, <3>3 DEF JobOK, Ref
  <2> HIDE DEF j
  <2> QED
    BY <2>1, <2>2
<1> HIDE DEF d, j, s
<1>6. Touches(t, o, d, j, s, n)
  <2>1. DestOK(d)
    BY <1>4 DEF DestOK, Fits
  <2> QED
    BY <1>1, <1>2, <1>4, <1>5, <2>1 DEF Touches
<1>7. TouchAnswers(t, o, d, j)
  BY <1>4, <1>5 DEF TouchAnswers, Fits
<1>8. TouchPursues(t, o, d, j, s)
  <2>1. (dest[o].state = "QUERY_ROUTE" <=> sa[o] # "none")
    BY <1>0, AwakeIs DEF QueryLives
  <2>2. x.state # "QUERY_ADDR" /\ (x.state = "QUERY_ROUTE" <=> s # "none")
    BY <2>1 DEF Fits, s
  <2>3. d.queue # <<>> => \/ d.state \in Querying \/ dest[o].state \notin Querying
                          \/ j.at = "complete" /\ j.dest = o
    BY <1>4, <1>5 DEF Fits, Querying
  <2> QED
    BY <1>4, <2>2, <2>3 DEF TouchPursues
<1>9. TouchHolds(t, o, d, j, n)
  <2>1. Ref(job[t], o) \in Int
    BY SMTT(30) DEF Ref
  <2>2. d.refs = ((dest[o].refs - Ref(job[t], o)) + Ref(j, o)) + n
    <3>1. CASE x.status = "wait"
      BY <1>3, <1>4, <1>5, <2>1, <3>1, SMTT(30)
    <3>2. CASE x.status # "wait"
      BY <1>3, <1>4, <1>5, <2>1, <3>2, SMTT(60)
    <3> QED
      BY <3>1, <3>2
  <2> QED
    BY <1>5, <2>2 DEF TouchHolds
<1> QED
  BY <1>6, <1>7, <1>8, <1>9, TouchStep

LEMMA CompleteSendStep ==
  ASSUME AInv, NEW m \in DOMAIN msgs, acmp_complete_send(m)
  PROVE  AInv'
<1>0. Shape /\ EndpointInv /\ AnswersInv /\ PursuitInv /\ RefsExact
  BY DEF AInv
<1>1. /\ m \in active /\ UNCHANGED <<msgs, timeout_list>> /\ UNCHANGED <<map, sa, job, req, reply, taken>>
      /\ env' = env /\ job["comp"] = NoJob
  BY DEF acmp_complete_send
<1>2. CASE msgs[m].tries > 0
  <2>1. /\ active' = active \ {m} /\ wait_queue' = Append(wait_queue, m) /\ UNCHANGED <<dest, pending, credits>>
    BY <1>2 DEF acmp_complete_send
  <2>2. Kept
    BY <1>0, <1>1, <1>2, <2>1, SendWaits
  <2>3. /\ retry' \in {"check", "drowsy", "asleep", "scan", "timeouts"} /\ missed' \in BOOLEAN
    BY <1>0, <1>2, ShapeNow DEF acmp_complete_send
  <2>4. Awake'
    <3>1. Awake /\ retry \in {"check", "drowsy", "asleep", "scan", "timeouts"}
      BY <1>0, AwakeIs, ShapeNow
    <3>2. CASE wait_queue = <<>>
      BY <1>2, <3>1, <3>2 DEF acmp_complete_send, FirstToWait, Awake
    <3>3. CASE wait_queue # <<>>
      BY <1>2, <3>1, <3>3 DEF acmp_complete_send, FirstToWait, Awake
    <3> QED
      BY <3>2, <3>3
  <2>5. Runs
    BY <1>0, <1>1, <2>3, <2>4, ShapeNow DEF Runs
  <2> QED
    BY <1>1, <2>1, <2>2, <2>5, QuietStep
<1>3. CASE ~(msgs[m].tries > 0)
  <2>1. /\ SetQueues(acmp_send_available([Queues EXCEPT !.active = @ \ {m}], msgs[m].kind))
        /\ dest' = FreeSend(m) /\ UNCHANGED <<wait_queue, retry, missed>>
    BY <1>3 DEF acmp_complete_send
  <2>2. Runs
    BY <1>1, <2>1, RunsOn
  <2> DEFINE o == msgs[m].dest
             d == Put(dest[o])
  <2>3. o \in DOMAIN dest
    BY <1>0, HeldAreMessages
  <2>4. CASE msgs[m].kind # "resp"
    <3>1. dest' = dest
      BY <2>1, <2>4 DEF FreeSend
    <3>2. Kept
      BY <1>0, <1>1, <1>3, <2>1, <2>4, <3>1, SendDone
    <3> QED
      BY <1>1, <2>2, <3>1, <3>2, QuietStep
  <2>5. CASE msgs[m].kind = "resp"
    <3>1. dest' = [dest EXCEPT ![o] = d]
      BY <2>1, <2>5 DEF FreeSend, Put
    <3>2. DOMAIN dest' = DOMAIN dest
      BY <3>1
    <3>3. Freed(m)
      BY <1>0, <1>1, <1>3, <2>1, <2>5, <3>2, SendDone
    <3>4. /\ d \in Dest /\ d.state = dest[o].state /\ d.queue = dest[o].queue /\ d.path = dest[o].path
          /\ d.refs = dest[o].refs - 1 /\ dest[o].refs \in Int /\ dest[o] \in Dest
      BY <1>0, <2>3, ShapeNow, PutIs
    <3> HIDE DEF o, d
    <3>5. job' = [job EXCEPT !["comp"] = NoJob] /\ EndpointInv' /\ "comp" \in Threads
      BY <1>0, <1>1, <3>3, ShapeNow DEF Freed, Threads
    <3>6. \A p : Awaits(Unhandled, msgs, p) => Awaits(Unhandled', msgs', p)
      BY <1>0, <3>3, OthersPursued
    <3>7. TouchHolds("comp", o, d, NoJob, -1)
      <4>1. d.refs = ((dest[o].refs - Ref(NoJob, o)) + Ref(NoJob, o)) + -1
        BY <3>4, NoJobHolds, SMTT(30)
      <4> QED
        BY <1>0, <1>1, <3>3, <4>1, NoJobHolds, OneHolderLess DEF TouchHolds, o
    <3> QED
      BY <1>1, <2>2, <2>3, <3>1, <3>4, <3>5, <3>6, <3>7, NoJobHolds, RefStep DEF o
  <2> QED
    BY <2>4, <2>5
<1> QED
  BY <1>2, <1>3

LEMMA HandledNow ==
  ASSUME EndpointInv, NEW m, Handled(m)
  PROVE  /\ EndpointInv' /\ msgs[m].dest \in DOMAIN dest
         /\ \A p \in DOMAIN dest \ {msgs[m].dest} : Awaits(Unhandled, msgs, p) => Awaits(Unhandled', msgs', p)
         /\ -1 \in Int
         /\ \A p \in DOMAIN dest : Cardinality(InMsg(Holding', msgs', p)) =
              Cardinality(InMsg(Holding, msgs, p)) + IF p = msgs[m].dest THEN -1 ELSE 0
<1>1. m \in DOMAIN msgs
  BY HeldAreMessages DEF Handled
<1> QED
  BY <1>1, HeldAreMessages, OthersPursued, OneHolderLess DEF Handled

\* An answer or a timeout.
LEMMA AddrRespStep ==
  ASSUME AInv, NEW t \in Threads, NEW m, NEW good \in BOOLEAN, Handled(m), job[t] = NoJob,
         acmp_process_addr_resp(t, m, good), UNCHANGED <<map, req, reply, taken>>, Runs
  PROVE  AInv'
<1> DEFINE o == msgs[m].dest
<1>0. Shape /\ EndpointInv /\ AnswersInv /\ PursuitInv /\ RefsExact
  BY DEF AInv
<1>1. /\ EndpointInv' /\ o \in DOMAIN dest /\ -1 \in Int
      /\ \A p \in DOMAIN dest \ {o} : Awaits(Unhandled, msgs, p) => Awaits(Unhandled', msgs', p)
      /\ \A p \in DOMAIN dest : Cardinality(InMsg(Holding', msgs', p)) =
           Cardinality(InMsg(Holding, msgs, p)) + IF p = o THEN -1 ELSE 0
  BY <1>0, HandledNow
<1>2. dest[o] \in Dest /\ job' = [job EXCEPT ![t] = job'[t]]
  <2>1. job' = job \/ \E v : job' = [job EXCEPT ![t] = v]
    BY DEF acmp_process_addr_resp, Completing
  <2> QED
    BY <1>0, <1>1, <2>1, ShapeNow
<1>3. CASE dest[o].state # "QUERY_ADDR"
  <2> DEFINE d == Put(dest[o])
  <2>1. dest' = [dest EXCEPT ![o] = d] /\ UNCHANGED <<sa, job>>
    BY <1>3 DEF acmp_process_addr_resp, AddrExpected, Set
  <2>2. /\ d \in Dest /\ d.state = dest[o].state /\ d.queue = dest[o].queue /\ d.path = dest[o].path
        /\ d.refs = dest[o].refs - 1 /\ dest[o].refs \in Int
    BY <1>2, PutIs
  <2> HIDE DEF o, d
  <2>3. job' = [job EXCEPT ![t] = NoJob]
    BY <1>0, <2>1, ShapeNow
  <2>4. TouchHolds(t, o, d, NoJob, -1)
    <3>1. d.refs = ((dest[o].refs - Ref(NoJob, o)) + Ref(NoJob, o)) + -1
      BY <2>2, NoJobHolds, SMTT(30)
    <3> QED
      BY <1>1, <3>1, NoJobHolds DEF TouchHolds
  <2>5. \A p \in DOMAIN dest : (p = o => dest[o].state = "QUERY_ADDR") /\ Awaits(Unhandled, msgs, p)
                                 => Awaits(Unhandled', msgs', p)
    BY <1>1, <1>3
  <2>6. /\ JobOK(t, NoJob, Len(dest)) /\ NoJob.at # "complete"
    BY NoJobHolds
  <2> QED
    BY <1>1, <2>1, <2>2, <2>3, <2>4, <2>5, <2>6, RefStep
<1>4. CASE dest[o].state = "QUERY_ADDR"
  <2>1. PICK x \in IF good THEN AddrKnown(dest[o].path, "dest") ELSE {Outcome("INIT", dest[o].path, "none", "error")} :
           /\ StartSa(o, x)
           /\ IF x.status = "wait" THEN Set(o, Put(Becomes(dest[o], x))) /\ UNCHANGED job
              ELSE Set(o, Becomes(dest[o], x)) /\ Completing(t, o, x.status, FALSE, TRUE)
    BY <1>4 DEF acmp_process_addr_resp, AddrExpected
  <2>2. x \in { Outcome("INIT", dest[o].path, "none", "error"), Outcome("READY", "full", "none", "ok"),
                Outcome("QUERY_ROUTE", "addr", "dest", "wait"), Outcome("INIT", "addr", "none", "error") }
    BY <2>1 DEF AddrKnown, acmp_record_acm_route, acmp_resolve_path_sa
  <2>3. Fits(dest[o], x)
    <3>1. dest[o].path \in Paths
      BY <1>2 DEF Dest
    <3> QED
      BY <1>4, <2>2, <3>1, SMTT(30) DEF Fits, Outcome, States, Paths, Query
  <2>4. UNCHANGED job => job' = [job EXCEPT ![t] = NoJob]
    BY <1>0, ShapeNow
  <2>5. taken' = IF dest[o].state = "READY" /\ x.state # "READY" THEN taken \cup {o} ELSE taken
    BY <1>4
  <2>6. -1 = Ref(job[t], o) - 1 /\ job[t].at # "complete" /\ (job[t].ref => job[t].dest = o)
    BY NoJobHolds, SMTT(30)
  <2> HIDE DEF o
  <2>7. IF x.status = "wait" THEN Set(o, Put(Becomes(dest[o], x))) /\ job' = [job EXCEPT ![t] = NoJob]
        ELSE Set(o, Becomes(dest[o], x)) /\ Completing(t, o, x.status, FALSE, TRUE)
    BY <2>1, <2>4
  <2> QED
    BY <1>1, <2>1, <2>3, <2>5, <2>6, <2>7, OutcomeStep
<1> QED
  BY <1>3, <1>4

LEMMA AddrRespDomain ==
  ASSUME NEW t, NEW m, NEW good, acmp_process_addr_resp(t, m, good)
  PROVE  DOMAIN dest' = DOMAIN dest
BY DEF acmp_process_addr_resp, Set

LEMMA RecvStep ==
  ASSUME AInv, NEW m \in DOMAIN msgs, acmp_process_acm_recv(m)
  PROVE  AInv'
<1>1. PICK good \in BOOLEAN : acmp_process_addr_resp("comp", m, good)
  BY DEF acmp_process_acm_recv
<1>2. /\ job["comp"] = NoJob /\ acmp_get_request(m) /\ UNCHANGED <<map, req, reply, taken>>
      /\ UNCHANGED <<env, retry, missed>> /\ timeout_list' = timeout_list /\ "comp" \in Threads
  BY DEF acmp_process_acm_recv, Threads
<1>3. DOMAIN dest' = DOMAIN dest
  BY <1>1, AddrRespDomain
<1>4. Handled(m) /\ (wait_queue' # <<>> => wait_queue # <<>>)
  BY <1>2, <1>3, ResponseTakes DEF AInv
<1>5. Runs
  BY <1>2, <1>4, RunsOn
<1> QED
  BY <1>1, <1>2, <1>4, <1>5, AddrRespStep

LEMMA TimeoutsStep ==
  ASSUME AInv, acmp_process_timeouts
  PROVE  AInv'
<1>1. /\ job["retry"] = NoJob /\ retry = "timeouts" /\ UNCHANGED <<map, req, reply, taken>>
      /\ UNCHANGED <<env, missed>> /\ UNCHANGED <<msgs, active, wait_queue, pending, credits>> /\ "retry" \in Threads
  BY DEF acmp_process_timeouts, Threads
<1>2. CASE timeout_list = <<>>
  <2>1. UNCHANGED <<dest, sa, job, timeout_list>> /\ retry' = "check"
    BY <1>2 DEF acmp_process_timeouts
  <2>2. Kept
    BY <1>1, <2>1, Untouched DEF AInv
  <2>3. Runs
    BY <1>1, <2>1, ShapeNow DEF AInv, Runs, Awake
  <2> QED
    BY <1>1, <2>1, <2>2, <2>3, QuietStep
<1>3. CASE timeout_list # <<>>
  <2>1. /\ acmp_process_addr_resp("retry", Head(timeout_list), FALSE)
        /\ timeout_list' = Tail(timeout_list) /\ UNCHANGED retry
    BY <1>3 DEF acmp_process_timeouts
  <2>2. DOMAIN dest' = DOMAIN dest
    BY <2>1, AddrRespDomain
  <2>3. Handled(Head(timeout_list))
    BY <1>1, <1>3, <2>1, <2>2, TimedOut DEF AInv
  <2>4. Runs
    BY <1>1, <2>1, RunsOn
  <2> QED
    BY <1>1, <2>1, <2>3, <2>4, AddrRespStep
<1> QED
  BY <1>2, <1>3

LEMMA KeptNow ==
  ASSUME EndpointInv, Kept
  PROVE  /\ EndpointInv' /\ \A p : Awaits(Unhandled, msgs, p) => Awaits(Unhandled', msgs', p)
         /\ \A p, o : Cardinality(InMsg(Holding', msgs', p)) =
              Cardinality(InMsg(Holding, msgs, p)) + IF p = o THEN 0 ELSE 0
<1>1. \A p : Awaits(Unhandled, msgs, p) => Awaits(Unhandled', msgs', p)
  BY OthersPursued
<1>2. ASSUME NEW p, NEW o
      PROVE  Cardinality(InMsg(Holding', msgs', p)) = Cardinality(InMsg(Holding, msgs, p)) + IF p = o THEN 0 ELSE 0
  <2>1. Cardinality(InMsg(Holding', msgs', p)) = Cardinality(InMsg(Holding, msgs, p))
        /\ Cardinality(InMsg(Holding, msgs, p)) \in Nat
    BY MessageCount
  <2> QED
    BY <2>1, SMTT(30)
<1> QED
  BY <1>1, <1>2 DEF Kept

LEMMA SaRespStep ==
  ASSUME AInv, NEW o \in DOMAIN dest, NEW good \in BOOLEAN, acmp_dest_sa_resp(o, good)
  PROVE  AInv'
<1>0. Shape /\ EndpointInv /\ AnswersInv /\ PursuitInv /\ RefsExact
  BY DEF AInv
<1>1. /\ job["sa"] = NoJob /\ sa[o] # "none" /\ sa' = [sa EXCEPT ![o] = "none"]
      /\ UNCHANGED <<env, map, sends, retry, req, reply, missed, taken>> /\ "sa" \in Threads
      /\ UNCHANGED <<msgs, active, wait_queue, timeout_list, pending, credits>>
  BY DEF acmp_dest_sa_resp, Threads, sends
<1>2. dest[o].state = "QUERY_ROUTE"
  BY <1>0, <1>1, AwakeIs DEF QueryLives
<1> DEFINE x == SaOutcome(dest[o], good)
           d == Becomes(dest[o], x)
           w == sa[o] = "resolve"
           j == CompletingJob(o, x.status, w, FALSE)
<1>3. dest' = [dest EXCEPT ![o] = d] /\ job' = [job EXCEPT !["sa"] = j]
  BY <1>2 DEF acmp_dest_sa_resp, Set, Completing, CompletingJob
<1>4. /\ dest[o] \in Dest /\ o \in Nat /\ o \in 1..Len(dest)
      /\ dest[o] = [state |-> dest[o].state, queue |-> dest[o].queue, path |-> dest[o].path, refs |-> dest[o].refs]
      /\ dest[o].path \in Paths /\ dest[o].queue \in Seq(Requests) /\ dest[o].refs \in Int
  BY <1>0, ShapeNow DEF Dest
<1>5. \/ x.state = "READY" /\ x.path = "full" /\ x.status = "ok"
      \/ x.state = "INIT" /\ x.path = dest[o].path /\ x.status = "error"
  BY DEF SaOutcome, Outcome
<1> HIDE DEF x
<1>6. d = [state |-> x.state, queue |-> dest[o].queue, path |-> x.path, refs |-> dest[o].refs]
  <2>1. d = [[dest[o] EXCEPT !.state = x.state] EXCEPT !.path = x.path]
    BY <1>4 DEF Becomes
  <2>2. [dest[o] EXCEPT !.state = x.state] =
          [state |-> x.state, queue |-> dest[o].queue, path |-> dest[o].path, refs |-> dest[o].refs]
    BY <1>4, SMTT(30)
  <2> QED
    BY <2>1, <2>2
<1> HIDE DEF d
<1>7. /\ d \in Dest /\ d.state = x.state /\ d.path = x.path /\ d.queue = dest[o].queue /\ d.refs = dest[o].refs
  <2>1. x.state \in States /\ x.path \in Paths
    BY <1>4, <1>5 DEF States, Paths
  <2> QED
    BY <1>4, <1>6, <2>1 DEF Dest
<1>8. /\ j \in Job /\ j.at = "complete" /\ j.dest = o /\ j.status = x.status /\ j.ref = FALSE
  <2>1. w \in BOOLEAN /\ x.status \in {"ok", "error"}
    BY <1>5
  <2> QED
    BY <1>4, <2>1 DEF CompletingJob, Job
<1> HIDE DEF j
<1>9. Kept
  <2>1. DOMAIN dest' = DOMAIN dest
    BY <1>3
  <2> QED
    BY <1>0, <1>1, <2>1, Untouched
<1>10. Runs
  BY <1>1, RunsOn
<1>11. Touches("sa", o, d, j, "none", 0)
  BY <1>1, <1>3, <1>4, <1>5, <1>7, <1>8, <1>10 DEF Touches, DestOK, JobOK, Query
<1>12. TouchAnswers("sa", o, d, j)
  BY <1>1, <1>2, <1>5, <1>7, <1>8 DEF TouchAnswers
<1>13. TouchPursues("sa", o, d, j, "none")
  BY <1>0, <1>1, <1>5, <1>7, <1>8, <1>9, KeptNow, NoJobHolds DEF TouchPursues
<1>14. TouchHolds("sa", o, d, j, 0)
  <2>1. Ref(j, o) = 0 /\ Ref(job["sa"], o) = 0
    BY <1>1, <1>8, NoJobHolds DEF Ref
  <2>2. d.refs = ((dest[o].refs - Ref(job["sa"], o)) + Ref(j, o)) + 0
    BY <1>4, <1>7, <2>1, SMTT(30)
  <2> QED
    BY <1>0, <1>1, <1>8, <1>9, <2>2, KeptNow, NoJobHolds, SMTT(30) DEF TouchHolds
<1> QED
  BY <1>0, <1>1, <1>9, <1>11, <1>12, <1>13, <1>14, KeptNow, TouchStep

LEMMA CompletedStep ==
  ASSUME AInv, NEW t \in Threads, acmp_complete_queued_req(t), dest[job[t].dest].queue = <<>>
  PROVE  AInv'
<1> DEFINE j == job[t]
           o == j.dest
           more == j.respond /\ (t = "sa" \/ j.status = "ok")
           k == IF more THEN [j EXCEPT !.at = "respond"] ELSE NoJob
           d == IF ~more /\ j.ref THEN Put(dest[o]) ELSE dest[o]
<1>0. Shape /\ EndpointInv /\ AnswersInv /\ PursuitInv /\ RefsExact
  BY DEF AInv
<1>1. /\ j.at = "complete" /\ UNCHANGED <<env, map, sends, sa, retry, req, missed, taken>>
      /\ UNCHANGED <<msgs, active, wait_queue, timeout_list, pending, credits>> /\ reply' = reply
      /\ job' = [job EXCEPT ![t] = k] /\ IF ~more /\ j.ref THEN Set(o, Put(dest[o])) ELSE UNCHANGED dest
  BY DEF acmp_complete_queued_req, sends
<1>2. j \in Job /\ j # NoJob /\ JobOK(t, j, Len(dest)) /\ o \in DOMAIN dest /\ dest[o] \in Dest /\ o \in Nat
      /\ j.ref \in BOOLEAN /\ j.respond \in BOOLEAN
  <2>1. j \in Job /\ j # NoJob /\ JobOK(t, j, Len(dest))
    BY <1>0, <1>1, ShapeNow, NoJobHolds
  <2>2. j.dest \in 1..Len(dest)
    BY <2>1 DEF JobOK
  <2> QED
    BY <1>0, <2>1, <2>2, ShapeNow DEF Job
<1>3. more \in BOOLEAN
  BY <1>2
<1> HIDE DEF more
<1>4. dest' = [dest EXCEPT ![o] = d]
  BY <1>0, <1>1, <1>2, ShapeNow, SMTT(30) DEF Set
<1>5. /\ d \in Dest /\ d.state = dest[o].state /\ d.queue = dest[o].queue /\ d.path = dest[o].path
      /\ d.refs = dest[o].refs - (IF ~more /\ j.ref THEN 1 ELSE 0) /\ dest[o].refs \in Int
  <2>1. dest[o].refs \in Int
    BY <1>2 DEF Dest
  <2> QED
    BY <1>2, <2>1, PutIs, SMTT(30)
<1>6. /\ JobOK(t, k, Len(dest)) /\ k.at # "complete" /\ (k.ref => k.dest = o)
      /\ Ref(k, o) = IF more /\ j.ref THEN 1 ELSE 0
  <2>1. CASE ~more
    BY <2>1, NoJobHolds
  <2>2. CASE more
    <3>1. j = [at |-> j.at, dest |-> j.dest, status |-> j.status, respond |-> j.respond, ref |-> j.ref]
      BY <1>2 DEF Job
    <3>2. k = [at |-> "respond", dest |-> j.dest, status |-> j.status, respond |-> j.respond, ref |-> j.ref]
      BY <2>2, <3>1
    <3> HIDE DEF k
    <3>3. k \in Job /\ k.at = "respond" /\ k.dest = o /\ k.ref = j.ref
      BY <1>2, <3>2 DEF Job
    <3>4. o \in 1..Len(dest)
      BY <1>0, <1>2, ShapeNow
    <3> QED
      BY <2>2, <3>3, <3>4 DEF JobOK, Ref
  <2> HIDE DEF k
  <2> QED
    BY <1>3, <2>1, <2>2
<1>7. Ref(j, o) = IF j.ref THEN 1 ELSE 0
  BY DEF Ref
<1>8. Kept
  <2>1. DOMAIN dest' = DOMAIN dest
    BY <1>4
  <2> QED
    BY <1>0, <1>1, <2>1, Untouched
<1>9. Runs
  BY <1>1, RunsOn
<1> HIDE DEF d, k
<1>10. TouchHolds(t, o, d, k, 0)
  <2>1. d.refs = ((dest[o].refs - Ref(j, o)) + Ref(k, o)) + 0
    BY <1>2, <1>3, <1>5, <1>6, <1>7, SMTT(30)
  <2> QED
    BY <1>0, <1>6, <1>8, <2>1, KeptNow, SMTT(30) DEF TouchHolds
<1>11. EndpointInv' /\ \A p \in DOMAIN dest : Awaits(Unhandled, msgs, p) => Awaits(Unhandled', msgs', p)
  BY <1>0, <1>8, KeptNow
<1> QED
  BY <1>1, <1>2, <1>4, <1>5, <1>6, <1>9, <1>10, <1>11, RefStep

LEMMA PostedNow ==
  ASSUME EndpointInv, NEW k, NEW o, Posted(k, o)
  PROVE  /\ EndpointInv' /\ \A p : Awaits(Unhandled, msgs, p) => Awaits(Unhandled', msgs', p)
         /\ k = "resolve" => Awaits(Unhandled', msgs', o)
         /\ \A p : Cardinality(InMsg(Holding', msgs', p)) =
              Cardinality(InMsg(Holding, msgs, p)) + IF p = o THEN 1 ELSE 0
<1>1. Unhandled \subseteq DOMAIN msgs
  BY HeldAreMessages
<1>2. /\ EndpointInv' /\ Unhandled \subseteq Unhandled' /\ \A n \in DOMAIN msgs : msgs'[n] = msgs[n]
      /\ k = "resolve" => \E m \in Unhandled' : msgs'[m].dest = o
  BY DEF Posted
<1>3. ASSUME NEW p
      PROVE  Cardinality(InMsg(Holding', msgs', p)) = Cardinality(InMsg(Holding, msgs, p)) + IF p = o THEN 1 ELSE 0
  <2>1. /\ Cardinality(InMsg(Holding, msgs, p)) \in Nat
        /\ Cardinality(InMsg(Holding', msgs', p)) = Cardinality(InMsg(Holding, msgs, p)) + Eq(o, p)
    BY MessageCount
  <2> QED
    BY <2>1 DEF Eq
<1> QED
  BY <1>1, <1>2, <1>3 DEF Awaits

LEMMA GetIs ==
  ASSUME NEW d \in Dest
  PROVE  /\ [d EXCEPT !.refs = @ + 1] \in Dest /\ [d EXCEPT !.refs = @ + 1].state = d.state
         /\ [d EXCEPT !.refs = @ + 1].queue = d.queue /\ [d EXCEPT !.refs = @ + 1].path = d.path
         /\ [d EXCEPT !.refs = @ + 1].refs = d.refs + 1 /\ d.refs \in Int
<1>1. [d EXCEPT !.refs = @ + 1] = [state |-> d.state, queue |-> d.queue, path |-> d.path, refs |-> d.refs + 1]
  BY SMTT(30) DEF Dest
<1> QED
  BY <1>1, SMTT(30) DEF Dest

LEMMA SendRespStep ==
  ASSUME AInv, NEW t \in Threads, acmp_send_addr_resp(t)
  PROVE  AInv'
<1> DEFINE j == job[t]
           o == j.dest
           d == IF j.ref THEN Put(dest[o]) ELSE dest[o]
           e == [d EXCEPT !.refs = @ + 1]
<1>0. Shape /\ EndpointInv /\ AnswersInv /\ PursuitInv /\ RefsExact
  BY DEF AInv
<1>1. /\ j.at = "respond" /\ job' = [job EXCEPT ![t] = NoJob]
      /\ UNCHANGED <<map, sa, req, reply, taken>> /\ UNCHANGED <<env, retry, missed>>
      /\ \/ acmp_post_send("resp", o, 0) /\ dest' = [dest EXCEPT ![o] = e]
         \/ UNCHANGED sends /\ dest' = [dest EXCEPT ![o] = d]
  BY DEF acmp_send_addr_resp, Set
<1>2. j \in Job /\ j # NoJob /\ o \in DOMAIN dest /\ dest[o] \in Dest /\ dest \in Seq(Dest)
  <2>1. j \in Job /\ j # NoJob /\ JobOK(t, j, Len(dest))
    BY <1>0, <1>1, ShapeNow, NoJobHolds
  <2>2. j.dest \in 1..Len(dest)
    BY <2>1 DEF JobOK
  <2> QED
    BY <1>0, <2>1, <2>2, ShapeNow
<1>3. /\ d \in Dest /\ d.state = dest[o].state /\ d.queue = dest[o].queue /\ d.path = dest[o].path
      /\ d.refs = (dest[o].refs - Ref(j, o)) + Ref(NoJob, o) /\ dest[o].refs \in Int /\ Ref(j, o) \in Int
  <2>1. dest[o].refs \in Int /\ Ref(NoJob, o) = 0 /\ Ref(j, o) = IF j.ref THEN 1 ELSE 0
    BY <1>2, NoJobHolds DEF Dest, Ref
  <2> QED
    BY <1>2, <2>1, PutIs, SMTT(30)
<1>4. /\ JobOK(t, NoJob, Len(dest)) /\ NoJob.at # "complete" /\ (NoJob.ref => NoJob.dest = o)
      /\ Ref(NoJob, o) = 0
  BY NoJobHolds
<1> HIDE DEF d
<1>5. CASE acmp_post_send("resp", o, 0) /\ dest' = [dest EXCEPT ![o] = e]
  <2>1. /\ e \in Dest /\ e.state = d.state /\ e.queue = d.queue /\ e.path = d.path /\ e.refs = d.refs + 1
    BY <1>3, GetIs
  <2> HIDE DEF e
  <2>2. Posted("resp", o)
    <3>1. DOMAIN dest' = DOMAIN dest /\ "resp" \in Kinds
      BY <1>5 DEF Kinds
    <3> QED
      BY <1>0, <1>2, <1>5, <3>1, Posting
  <2>3. Runs
    <3>1. wait_queue' = wait_queue
      BY <1>5 DEF acmp_post_send
    <3> QED
      BY <1>1, <3>1, RunsOn
  <2>4. TouchHolds(t, o, e, NoJob, 1)
    <3>1. e.refs = ((dest[o].refs - Ref(j, o)) + Ref(NoJob, o)) + 1
      BY <1>3, <2>1
    <3> QED
      BY <1>0, <1>4, <2>2, <3>1, PostedNow, SMTT(30) DEF TouchHolds
  <2>5. EndpointInv' /\ \A p \in DOMAIN dest : Awaits(Unhandled, msgs, p) => Awaits(Unhandled', msgs', p)
    BY <1>0, <2>2, PostedNow
  <2> QED
    BY <1>1, <1>2, <1>3, <1>4, <1>5, <2>1, <2>3, <2>4, <2>5, RefStep
<1>6. CASE UNCHANGED sends /\ dest' = [dest EXCEPT ![o] = d]
  <2>1. UNCHANGED <<msgs, active, wait_queue, timeout_list, pending, credits>> /\ DOMAIN dest' = DOMAIN dest
    BY <1>6 DEF sends
  <2>2. Kept /\ Runs
    BY <1>0, <1>1, <2>1, Untouched, RunsOn
  <2>3. TouchHolds(t, o, d, NoJob, 0)
    <3>1. d.refs = ((dest[o].refs - Ref(j, o)) + Ref(NoJob, o)) + 0
      BY <1>3, <1>4, SMTT(30)
    <3> QED
      BY <1>0, <1>4, <2>2, <3>1, KeptNow, SMTT(30) DEF TouchHolds
  <2>4. EndpointInv' /\ \A p \in DOMAIN dest : Awaits(Unhandled, msgs, p) => Awaits(Unhandled', msgs', p)
    BY <1>0, <2>2, KeptNow
  <2> QED
    BY <1>1, <1>2, <1>3, <1>4, <1>6, <2>2, <2>3, <2>4, RefStep
<1> QED
  BY <1>1, <1>5, <1>6

LEMMA AddrReqStep ==
  ASSUME AInv, acmp_process_addr_req
  PROVE  AInv'
<1> DEFINE j == job["comp"]
           o == j.dest
           d == dest[o]
<1>0. Shape /\ EndpointInv /\ AnswersInv /\ PursuitInv /\ RefsExact
  BY DEF AInv
<1>1. j.at = "addr_req" /\ UNCHANGED <<env, map, sends, retry, req, reply, missed>> /\ "comp" \in Threads
  BY DEF acmp_process_addr_req, Threads
<1>2. j \in Job /\ o \in DOMAIN dest /\ d \in Dest /\ j.ref /\ j.respond \in BOOLEAN
  <2>1. j \in Job /\ j # NoJob /\ JobOK("comp", j, Len(dest))
    BY <1>0, <1>1, ShapeNow, NoJobHolds
  <2>2. j.dest \in 1..Len(dest) /\ j.ref
    BY <1>1, <2>1 DEF JobOK
  <2> QED
    BY <1>0, <2>1, <2>2, ShapeNow DEF Job
<1>3. PICK x : /\ \/ d.state = "READY" /\ x = Outcome("READY", d.path, "none", "ok")
                  \/ d.state # "QUERY_ROUTE" /\ x = Outcome("INIT", d.path, "none", "error")
                  \/ d.state # "QUERY_ROUTE" /\ x = Outcome("READY", "full", "none", "ok")
                  \/ d.state # "QUERY_ROUTE" /\ x = Outcome("QUERY_ROUTE", "addr", "resolve", "wait")
                  \/ d.state # "QUERY_ROUTE" /\ x = Outcome("INIT", "addr", "none", "error")
                  \/ d.state # "QUERY_ROUTE" /\ d.queue = <<>> /\ x = Outcome("ADDR_RESOLVED", "addr", "none", "wait")
                  \/ d.state = "QUERY_ROUTE" /\ x = Outcome("QUERY_ROUTE", d.path, "none", "wait")
               /\ StartSa(o, x)
               /\ taken' = IF d.state = "READY" /\ x.state # "READY" THEN taken \cup {o} ELSE taken
               /\ IF x.status = "wait"
                  THEN Set(o, Put(Becomes(d, x))) /\ job' = [job EXCEPT !["comp"] = NoJob]
                  ELSE Set(o, Becomes(d, x)) /\ Completing("comp", o, x.status, j.respond, TRUE)
  <2>1. d.state \in {"INIT", "QUERY_ADDR", "ADDR_RESOLVED", "QUERY_ROUTE", "READY"}
    BY <1>2 DEF Dest, States
  <2> HIDE DEF d, o, j
  <2> QED
    BY <2>1 DEF acmp_process_addr_req, acmp_record_acm_route, acmp_resolve_path_sa, RouteWanted, d, o, j
<1>4. d.path \in Paths /\ (d.state = "READY" => d.path = "full")
  BY <1>0, <1>2 DEF Dest, AnswersInv
<1>5. Fits(d, x)
  BY <1>3, <1>4, SMTT(30) DEF Fits, Outcome, States, Paths, Query
<1>6. DOMAIN dest' = DOMAIN dest
  BY <1>3 DEF Set
<1>7. UNCHANGED <<msgs, active, wait_queue, timeout_list, pending, credits>>
  BY <1>1 DEF sends
<1>8. Kept /\ Runs
  BY <1>0, <1>1, <1>6, <1>7, Untouched, RunsOn
<1>9. 0 = Ref(j, o) - 1 /\ 0 \in Int
  BY <1>2, SMTT(30) DEF Ref
<1>10. /\ \A p \in DOMAIN dest \ {o} : Awaits(Unhandled, msgs, p) => Awaits(Unhandled', msgs', p)
       /\ \A p \in DOMAIN dest : Cardinality(InMsg(Holding', msgs', p)) =
            Cardinality(InMsg(Holding, msgs, p)) + IF p = o THEN 0 ELSE 0
       /\ EndpointInv'
  BY <1>0, <1>8, KeptNow
<1> QED
  BY <1>1, <1>2, <1>3, <1>5, <1>8, <1>9, <1>10, OutcomeStep

LEMMA QueueIs ==
  ASSUME NEW d \in Dest, NEW q \in Seq(Requests)
  PROVE  /\ [d EXCEPT !.queue = q] \in Dest /\ [d EXCEPT !.queue = q].state = d.state
         /\ [d EXCEPT !.queue = q].queue = q /\ [d EXCEPT !.queue = q].path = d.path
         /\ [d EXCEPT !.queue = q].refs = d.refs
<1>1. [d EXCEPT !.queue = q] = [state |-> d.state, queue |-> q, path |-> d.path, refs |-> d.refs]
  BY SMTT(30) DEF Dest
<1> QED
  BY <1>1 DEF Dest

\* Writing one element of a sequence.
LEMMA OneWritten ==
  ASSUME NEW S, NEW s \in Seq(S), NEW i \in DOMAIN s, NEW x \in S
  PROVE  LET u == [s EXCEPT ![i] = x]
         IN  /\ u \in Seq(S) /\ Len(u) = Len(s) /\ DOMAIN u = DOMAIN s
             /\ u[i] = x /\ \A p \in DOMAIN s : p # i => u[p] = s[p]
BY SMTT(30)

\* The head of the queue of t's destination is answered.
LEMMA ReplyStep ==
  ASSUME AInv, NEW t \in Threads, acmp_complete_queued_req(t), dest[job[t].dest].queue # <<>>
  PROVE  AInv'
<1> DEFINE j == job[t]
           o == j.dest
           d == dest[o]
           r == Head(d.queue)
           e == [d EXCEPT !.queue = Tail(@)]
           v == [status |-> j.status, path |-> d.path]
<1>0. Shape /\ EndpointInv /\ AnswersInv /\ PursuitInv /\ RefsExact
  BY DEF AInv
<1>1. /\ j.at = "complete" /\ dest' = [dest EXCEPT ![o] = e]
      /\ reply' = [reply EXCEPT ![r] = Append(reply[r], v)] /\ job' = job
      /\ UNCHANGED <<env, map, sends, sa, retry, req, missed, taken>>
      /\ UNCHANGED <<msgs, active, wait_queue, timeout_list, pending, credits>>
  BY DEF acmp_complete_queued_req, sends, Set
<1>2. /\ j.dest \in DOMAIN dest /\ d \in Dest /\ j.status \in {"ok", "error"} /\ d.path \in Paths
      /\ d.queue \in Seq(Requests) /\ DOMAIN reply = Requests
  <2>1. j # NoJob /\ JobOK(t, j, Len(dest))
    BY <1>0, <1>1, ShapeNow, NoJobHolds
  <2>2. j.dest \in DOMAIN dest /\ j.status \in {"ok", "error"}
    <3>1. j.dest \in 1..Len(dest) /\ j.status \in {"ok", "error"}
      BY <1>1, <2>1 DEF JobOK
    <3> QED
      BY <1>0, <3>1, ShapeNow
  <2>3. d \in Dest
    BY <1>0, <2>2, ShapeNow
  <2> QED
    BY <1>0, <2>2, <2>3, ShapeNow DEF Dest
<1>3. /\ r \in Requests /\ Tail(d.queue) \in Seq(Requests) /\ r \in Range(d.queue)
      /\ Range(d.queue) = Range(Tail(d.queue)) \cup {r}
      /\ IsInjective(d.queue) => IsInjective(Tail(d.queue)) /\ r \notin Range(Tail(d.queue))
  BY <1>2, TakeFrom, SMTT(30)
<1>4. IsInjective(d.queue) /\ reply[r] = <<>> /\ req[r] = [at |-> "done", dest |-> o]
  BY <1>0, <1>2, <1>3 DEF AnswersInv, AnswersRight, AnsweredOnce, Queued
<1>5. /\ e \in Dest /\ e.state = d.state /\ e.queue = Tail(d.queue) /\ e.path = d.path /\ e.refs = d.refs
  <2> HIDE DEF d
  <2> QED
    BY <1>2, <1>3, QueueIs
<1>6. /\ dest' \in Seq(Dest) /\ Len(dest') = Len(dest) /\ DOMAIN dest' = DOMAIN dest
      /\ dest'[o] = e /\ \A p \in DOMAIN dest : p # o => dest'[p] = dest[p]
  <2> HIDE DEF e, o
  <2>1. dest \in Seq(Dest) /\ o \in DOMAIN dest /\ e \in Dest /\ dest' = [dest EXCEPT ![o] = e]
    BY <1>0, <1>1, <1>2, <1>5, ShapeNow DEF o
  <2> QED
    BY <2>1, OneWritten, SMTT(30)
<1>7. v \in [status : {"ok", "error"}, path : Paths] /\ Append(reply[r], v) = <<v>>
  BY <1>2, <1>4, SMTT(30)
<1>8. /\ reply' \in [Requests -> Seq([status : {"ok", "error"}, path : Paths])]
      /\ reply'[r] = <<v>> /\ \A q \in Requests : q # r => reply'[q] = reply[q]
  <2> HIDE DEF v, r
  <2>1. <<v>> \in Seq([status : {"ok", "error"}, path : Paths])
    BY <1>7, SMTT(30)
  <2> QED
    BY <1>0, <1>1, <1>2, <1>3, <1>7, <2>1, ShapeNow
<1>9. v.status = j.status /\ v.path = d.path
  OBVIOUS
<1> HIDE DEF e, v, r
<1>10. Kept /\ Runs
  BY <1>0, <1>1, <1>6, Untouched, RunsOn
<1>11. Shape'
  BY <1>0, <1>1, <1>6, <1>8, <1>10, ShapeNow, ShapeBy DEF Runs
<1>12. \A p \in DOMAIN dest : /\ dest'[p].state = dest[p].state /\ dest'[p].path = dest[p].path
                              /\ dest'[p].refs = dest[p].refs
                              /\ Range(dest'[p].queue) \subseteq Range(dest[p].queue)
                              /\ IsInjective(dest[p].queue) => IsInjective(dest'[p].queue)
                              /\ r \notin Range(dest'[p].queue)
                              /\ dest'[p].queue # <<>> => dest[p].queue # <<>>
  <2>1. ASSUME NEW p \in DOMAIN dest, p # o
        PROVE  r \notin Range(dest[p].queue)
    <3>1. \A q \in Range(dest[p].queue) : req[q] = [at |-> "done", dest |-> p]
      BY <1>0 DEF AnswersInv, AnswersRight, AnsweredOnce, Queued
    <3>2. [at |-> "done", dest |-> p] # [at |-> "done", dest |-> o]
      BY <2>1
    <3> QED
      BY <1>4, <3>1, <3>2
  <2> QED
    BY <1>3, <1>4, <1>5, <1>6, <2>1
<1>13. AnswersInv'
  <2>1. AnsweredOnce'
    <3>1. \A q \in Requests : Len(reply'[q]) <= 1
      <4>1. \A q \in Requests : Len(reply[q]) <= 1
        BY <1>0 DEF AnswersInv, AnswersRight, AnsweredOnce
      <4>3. ASSUME NEW q \in Requests PROVE Len(reply'[q]) <= 1
        <5>1. CASE q = r
          <6>1. reply'[q] = <<v>>
            BY <1>8, <5>1
          <6>2. Len(reply'[q]) = 1
            BY <6>1, SMTT(30)
          <6> QED
            BY <6>2, SMTT(30)
        <5>2. CASE q # r
          BY <1>8, <4>1, <5>2
        <5> QED
          BY <5>1, <5>2
      <4> QED
        BY <4>3
    <3>2. ASSUME NEW p \in DOMAIN dest
          PROVE  /\ IsInjective(dest'[p].queue)
                 /\ \A q \in Range(dest'[p].queue) : reply'[q] = <<>> /\ req'[q] = [at |-> "done", dest |-> p]
      <4>1. /\ IsInjective(dest[p].queue)
            /\ \A q \in Range(dest[p].queue) : reply[q] = <<>> /\ req[q] = [at |-> "done", dest |-> p]
        BY <1>0 DEF AnswersInv, AnswersRight, AnsweredOnce, Queued
      <4>2. Range(dest'[p].queue) \subseteq Requests
        <5>1. dest'[p].queue \in Seq(Requests)
          <6>1. dest'[p] \in Dest
            BY <1>6, SMTT(30)
          <6> QED
            BY <6>1 DEF Dest
        <5> QED
          BY <5>1, SMTT(30) DEF Range
      <4>3. ASSUME NEW q \in Range(dest'[p].queue)
            PROVE  reply'[q] = <<>> /\ req'[q] = [at |-> "done", dest |-> p]
        <5>1. q \in Requests /\ q # r /\ q \in Range(dest[p].queue)
          BY <1>12, <4>2
        <5>2. reply'[q] = reply[q] /\ req'[q] = req[q]
          BY <1>1, <1>8, <5>1
        <5> QED
          BY <4>1, <5>1, <5>2
      <4> QED
        BY <1>12, <4>1, <4>3
    <3> QED
      BY <1>6, <3>1, <3>2 DEF AnsweredOnce, Queued
  <2>2. SuccessMeansResolved'
    <3>1. ASSUME NEW q \in Requests, reply'[q] # <<>>, reply'[q][1].status = "ok", req'[q].dest \notin taken'
          PROVE  reply'[q][1].path \in IF Op[q] = "ip" THEN {"addr", "full"} ELSE {"full"}
      <4>1. CASE q = r
        <5>1. reply'[q][1] = v /\ req[r].dest = o
          BY <1>4, <1>8, <4>1, SMTT(30)
        <5>2. d.state = "READY"
          BY <1>0, <1>1, <1>9, <3>1, <4>1, <5>1 DEF AnswersInv
        <5>3. d.path = "full"
          BY <1>0, <1>2, <5>2 DEF AnswersInv
        <5> QED
          BY <1>9, <5>1, <5>3
      <4>2. CASE q # r
        BY <1>0, <1>1, <1>8, <3>1, <4>2, SMTT(30) DEF AnswersInv, AnswersRight, SuccessMeansResolved
      <4> QED
        BY <4>1, <4>2
    <3> QED
      BY <3>1, SMTT(30) DEF SuccessMeansResolved
  <2>3. \A q \in Requests : req'[q].at # "done" => reply'[q] = <<>>
    BY <1>0, <1>1, <1>4, <1>8, SMTT(30) DEF AnswersInv
  <2>4. \A p \in DOMAIN dest' : /\ dest'[p].state = "READY" => dest'[p].path = "full"
                                /\ dest'[p].state = "ADDR_RESOLVED" => dest'[p].path = "addr"
    BY <1>0, <1>6, <1>12, SMTT(30) DEF AnswersInv
  <2>5. \A u \in Threads : job'[u].at = "complete" /\ job'[u].status = "ok" /\ job'[u].dest \notin taken'
                             => dest'[job'[u].dest].state = "READY"
    <3>1. \A u \in Threads : job[u].at = "complete" => job[u].dest \in DOMAIN dest
      BY <1>0, ShapeNow, NoJobHolds, SMTT(30) DEF JobOK
    <3> QED
      BY <1>0, <1>1, <1>12, <3>1, SMTT(30) DEF AnswersInv
  <2> QED
    BY <2>1, <2>2, <2>3, <2>4, <2>5 DEF AnswersInv, AnswersRight
<1>14. PursuitInv'
  <2>1. QueryLives /\ QueuedIsPursued /\ \A p \in DOMAIN sa : p > Len(dest) => sa[p] = "none"
    BY <1>0, AwakeIs
  <2>2. \A p : Awaits(Unhandled, msgs, p) => Awaits(Unhandled', msgs', p)
    BY <1>0, <1>10, KeptNow
  <2>3. QueryLives'
    <3>1. ASSUME NEW p \in DOMAIN dest
          PROVE  /\ dest'[p].state = "QUERY_ADDR" => Awaits(Unhandled', msgs', p)
                 /\ (dest'[p].state = "QUERY_ROUTE" <=> sa'[p] # "none")
      <4>1. /\ dest[p].state = "QUERY_ADDR" => Awaits(Unhandled, msgs, p)
            /\ (dest[p].state = "QUERY_ROUTE" <=> sa[p] # "none")
        BY <2>1 DEF QueryLives, Awaits
      <4>2. dest'[p].state = dest[p].state /\ sa'[p] = sa[p]
        BY <1>1, <1>12
      <4> QED
        BY <2>2, <4>1, <4>2
    <3> QED
      BY <1>6, <3>1 DEF QueryLives, Awaits
  <2>4. QueuedIsPursued'
    BY <1>1, <1>6, <1>12, <2>1, SMTT(30) DEF QueuedIsPursued
  <2> QED
    BY <1>1, <1>6, <1>10, <2>1, <2>3, <2>4, AwakeIsNext DEF Runs
<1>15. RefsExact'
  <2>1. \A p : Cardinality(InMsg(Holding', msgs', p)) = Cardinality(InMsg(Holding, msgs, p))
    BY <1>0, <1>10, MessageCount
  <2> QED
    BY <1>0, <1>1, <1>6, <1>12, <2>1, RefsAre, RefsAreNext, SMTT(30)
<1> QED
  BY <1>10, <1>11, <1>13, <1>14, <1>15 DEF AInv, Kept

=============================================================================
