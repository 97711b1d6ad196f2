------------------------- MODULE TokenBucketProofs -------------------------
(***************************************************************************)
(* TLAPS proofs about TokenBucket, for any number of threads and buckets   *)
(* and any rates: the invariant IInv, the safety properties that follow    *)
(* from it, the refinement of RateLimiter, and bounds on what a bucket     *)
(* hands out over time.                                                    *)
(***************************************************************************)
EXTENDS TokenBucket, WellFoundedInduction, TLAPS

\* The time a leaf may take.
USE SMTT(30), ZenonT(30)

\* Integer division of naturals is a natural.
LEMMA DivNat ==
  ASSUME NEW a \in Nat, NEW d \in Nat, d > 0
  PROVE  a \div d \in Nat
  OBVIOUS

\* A product of naturals is a natural.
LEMMA MulNat ==
  ASSUME NEW a \in Nat, NEW b \in Nat
  PROVE  a * b \in Nat
  OBVIOUS

\* The virtual time a chunk costs is a natural, whatever rate is set.
LEMMA TimeNeededNat ==
  ASSUME NEW n \in Nat, NEW r \in Rates
  PROVE  TimeNeeded(n, r) \in Nat
<1> DEFINE p == n * NSEC * NR_BUCKET
<1>1. p \in Nat
  BY MulNat, ConstantsAssumption
<1>2. CASE r = 0
  BY <1>2, ConstantsAssumption DEF TimeNeeded
<1>3. CASE r # 0
  <2>1. r \in Nat /\ r > 0
    BY <1>3, ConstantsAssumption
  <2>2. p \div r \in Nat
    BY <1>1, <2>1, DivNat
  <2> QED
    BY <1>3, <2>2 DEF TimeNeeded
<1> QED
  BY <1>2, <1>3

\* min_time lies after the time one burst ahead of the initialisation.
LEMMA MinTimeBound ==
  ASSUME NEW now \in Nat, Boot <= now, NEW r \in Rates
  PROVE  MinTime(now, r) \in Nat /\ Boot - MaxBurstTime <= MinTime(now, r)
<1>1. CASE r = 0
  BY <1>1, ConstantsAssumption, UptimeAssumption DEF MinTime
<1>2. CASE r # 0
  <2> DEFINE p == burst_size * NSEC
             q == p + r - 1
  <2>1. r \in Nat /\ r > 0
    BY <1>2, ConstantsAssumption
  <2>2. p \in Nat
    BY MulNat, ConstantsAssumption
  <2>3. q \in Nat
    BY <2>1, <2>2
  <2>4. q \div r \in Nat
    BY <2>1, <2>3, DivNat
  <2>5. BurstTime(r) \in Nat /\ BurstTime(r) <= MaxBurstTime
    BY <1>2, <2>4, UptimeAssumption DEF BurstTime
  <2> QED
    BY <1>2, <2>5, ConstantsAssumption, UptimeAssumption DEF MinTime
<1> QED
  BY <1>1, <1>2

\* A call's frame is well formed: when wait_for_token builds it, and when a
\* chunk of it is paid.
LEMMA FrameType ==
  ASSUME NEW n \in Sizes, NEW b \in Buckets
  PROVE  Frame(n, b) \in Call
<1>1. small_burst_size \in Nat /\ small_burst_size > 0
  BY ConstantsAssumption DEF small_burst_size
<1>2. n \in Nat
  BY ConstantsAssumption
<1>3. n \div small_burst_size \in Nat /\ n % small_burst_size \in Nat
  BY <1>1, <1>2, DivNat
<1> QED
  BY <1>1, <1>2, <1>3 DEF Frame, Call

LEMMA PaidType ==
  ASSUME NEW c \in Call
  PROVE  Paid(c) \in Call /\ Paid(c).bucket = c.bucket /\ Chunk(c) \in Nat
<1>1. CASE c.iteration > 0
  <2>1. c.iteration - 1 \in Nat /\ c.paid + c.small_token \in Nat
    BY <1>1 DEF Call
  <2> QED
    BY <1>1, <2>1, ZenonT(30) DEF Paid, Call, Chunk
<1>2. CASE ~(c.iteration > 0)
  <2>1. c.paid + c.rem \in Nat
    BY DEF Call
  <2> QED
    BY <1>2, <2>1, ZenonT(30) DEF Paid, Call, Chunk
<1> QED
  BY <1>1, <1>2

-----------------------------------------------------------------------------
THEOREM InitIInv == Init => IInv
<1> SUFFICES ASSUME Init PROVE IInv
  OBVIOUS
<1> USE ConstantsAssumption, UptimeAssumption DEF Init
<1>1. TypeOK
  BY DEF TypeOK, Buckets, Call, Local, NoLocal
<1>2. ThreadInv
  BY ZenonT(30) DEF ThreadInv, ThreadOK
<1>3. BucketInv
  BY DEF BucketInv
<1>4. NoDoubleSpend /\ NothingFromTheFuture /\ NothingFromBeforeInit
  BY DEF NoDoubleSpend, NothingFromTheFuture, NothingFromBeforeInit
<1> QED
  BY <1>1, <1>2, <1>3, <1>4 DEF IInv

\* A step that changes neither the buckets nor the history of grants, and does
\* not turn the clock back, keeps what IInv says of them.
LEMMA BucketsAlone ==
  ASSUME IInv, UNCHANGED <<time, grants>>, clock' \in Int, clock <= clock'
  PROVE  /\ BucketInv' /\ NoDoubleSpend'
         /\ NothingFromTheFuture' /\ NothingFromBeforeInit'
<1>1. BucketInv' /\ NoDoubleSpend' /\ NothingFromBeforeInit'
  BY DEF IInv, BucketInv, NoDoubleSpend, NothingFromBeforeInit
<1>2. NothingFromTheFuture'
  <2> SUFFICES ASSUME NEW b \in Buckets, NEW i \in DOMAIN grants[b]
               PROVE  /\ grants[b][i].hi <= grants[b][i].now
                      /\ grants[b][i].now <= clock'
    BY DEF NothingFromTheFuture
  <2>1. grants[b][i] \in Grant
    BY DEF IInv, TypeOK
  <2>2. grants[b][i].now \in Nat /\ clock \in Int
    BY <2>1, ConstantsAssumption DEF Grant, IInv, TypeOK
  <2> QED
    BY <2>2 DEF IInv, NothingFromTheFuture
<1> QED
  BY <1>1, <1>2

\* set_rate touches only the three rate fields.
LEMMA SetRateStep == IInv /\ set_rate => IInv'
<1> SUFFICES ASSUME IInv, set_rate PROVE IInv'
  OBVIOUS
<1>1. UNCHANGED <<clock, time, pc, call, loc, grants>>
  BY DEF set_rate, SetRate, SetTimePerToken, SetTimePerBurst
<1>2. TypeOK'
  BY <1>1 DEF IInv, TypeOK, set_rate, SetRate, SetTimePerToken, SetTimePerBurst
<1>3. ThreadInv'
  BY <1>1 DEF IInv, ThreadInv, ThreadOK
<1>4. clock \in Int
  BY ConstantsAssumption DEF IInv, TypeOK
<1> QED
  BY <1>1, <1>2, <1>3, <1>4, BucketsAlone DEF IInv

LEMMA TickStep == IInv /\ Tick => IInv'
<1> SUFFICES ASSUME IInv, Tick PROVE IInv'
  OBVIOUS
<1>1. clock \in Int /\ clock' \in Boot .. MaxClock /\ clock <= clock'
  BY ConstantsAssumption DEF IInv, TypeOK, Tick
<1>2. TypeOK'
  BY <1>1 DEF IInv, TypeOK, Tick, tbVars
<1>3. ThreadInv'
  <2> SUFFICES ASSUME NEW t \in Threads, Boot <= loc[t].now, loc[t].now <= clock
               PROVE  loc[t].now <= clock'
    BY DEF IInv, ThreadInv, ThreadOK, Tick, tbVars
  <2>1. loc[t].now \in Nat
    BY DEF IInv, TypeOK, Local
  <2> QED
    BY <1>1, <2>1
<1> QED
  BY <1>1, <1>2, <1>3, BucketsAlone, ConstantsAssumption DEF IInv, Tick, tbVars

\* A step of one thread that leaves clock, buckets and history alone keeps IInv
\* when it keeps the types and what IInv says of that thread.
LEMMA ThreadAlone ==
  ASSUME IInv, TypeOK', NEW t \in Threads, ThreadOK(t)',
         UNCHANGED <<clock, time, grants>>,
         \A u \in Threads \ {t} :
           pc'[u] = pc[u] /\ call'[u] = call[u] /\ loc'[u] = loc[u]
  PROVE  IInv'
<1>1. ThreadInv'
  <2> SUFFICES ASSUME NEW u \in Threads \ {t} PROVE ThreadOK(u)'
    BY DEF ThreadInv
  <2> QED
    BY DEF IInv, ThreadInv, ThreadOK
<1>2. clock' \in Int /\ clock <= clock'
  BY ConstantsAssumption DEF IInv, TypeOK
<1> QED
  BY <1>1, <1>2, BucketsAlone DEF IInv

LEMMA WaitForTokenStep ==
  ASSUME IInv, NEW t \in Threads, NEW n \in Sizes, NEW b \in Buckets,
         WaitForToken(t, n, b)
  PROVE  IInv'
<1>1. TypeOK'
  BY FrameType DEF IInv, TypeOK, WaitForToken, Goto, tbVars
<1>2. pc'[t] = "now"
  BY DEF IInv, TypeOK, WaitForToken, Goto
<1>3. ThreadOK(t)'
  BY <1>2 DEF ThreadOK
<1> QED
  BY <1>1, <1>3, ThreadAlone DEF IInv, TypeOK, WaitForToken, Goto, tbVars

LEMMA ReadNowStep ==
  ASSUME IInv, NEW t \in Threads, ReadNow(t)
  PROVE  IInv'
<1> USE DEF ReadNow, Goto, tbVars
<1>1. clock \in Nat /\ Boot <= clock
  BY ConstantsAssumption DEF IInv, TypeOK
<1>2. TypeOK'
  BY <1>1, ZenonT(30) DEF IInv, TypeOK, Local
<1>3. pc'[t] = "tpt" /\ loc'[t].now = clock
  BY DEF IInv, TypeOK, Local
<1>4. ThreadOK(t)'
  BY <1>1, <1>3 DEF ThreadOK
<1> QED
  BY <1>2, <1>4, ThreadAlone DEF IInv, TypeOK

LEMMA ReadTimePerTokenStep ==
  ASSUME IInv, NEW t \in Threads, ReadTimePerToken(t)
  PROVE  IInv'
<1> USE DEF ReadTimePerToken, Goto, tbVars
<1>1. TypeOK'
  BY ZenonT(30) DEF IInv, TypeOK, Local
<1>2. pc'[t] = "tpb" /\ loc'[t].now = loc[t].now
  BY DEF IInv, TypeOK, Local
<1>3. ThreadOK(t)'
  BY <1>2 DEF IInv, ThreadInv, ThreadOK
<1> QED
  BY <1>1, <1>3, ThreadAlone DEF IInv, TypeOK

LEMMA ReadTimePerBurstStep ==
  ASSUME IInv, NEW t \in Threads, ReadTimePerBurst(t)
  PROVE  IInv'
<1> USE DEF ReadTimePerBurst, Goto, tbVars
<1>1. TypeOK'
  BY ZenonT(30) DEF IInv, TypeOK, Local
<1>2. pc'[t] = "time" /\ loc'[t].now = loc[t].now
  BY DEF IInv, TypeOK, Local
<1>3. ThreadOK(t)'
  BY <1>2 DEF IInv, ThreadInv, ThreadOK
<1> QED
  BY <1>1, <1>3, ThreadAlone DEF IInv, TypeOK

\* The clamp makes the base lie after the time one burst ahead of the start.
LEMMA ReadTimeStep ==
  ASSUME IInv, NEW t \in Threads, ReadTime(t)
  PROVE  IInv'
<1> USE DEF ReadTime, Goto, tbVars
<1> DEFINE old == time[call[t].bucket]
           min_time == MinTime(loc[t].now, loc[t].burst)
           base == IF min_time > old THEN min_time ELSE old
<1>1. old \in Nat
  BY DEF IInv, TypeOK, Call
<1>2. min_time \in Nat /\ Boot - MaxBurstTime <= min_time
  BY MinTimeBound DEF IInv, TypeOK, ThreadInv, ThreadOK, Local
<1> HIDE DEF min_time
<1>3. base \in Nat /\ old <= base /\ Boot - MaxBurstTime <= base
  BY <1>1, <1>2, ConstantsAssumption, UptimeAssumption
<1>4. loc' = [loc EXCEPT ![t].old = old, ![t].base = base]
  BY DEF min_time
<1> HIDE DEF old, base
<1>5. TypeOK'
  <2>1. loc[t] \in Local
    BY DEF IInv, TypeOK
  <2>2. [loc[t] EXCEPT !.old = old, !.base = base] \in Local
    BY <1>1, <1>3, <2>1, ZenonT(30) DEF Local
  <2>3. loc' = [loc EXCEPT ![t] = [loc[t] EXCEPT !.old = old, !.base = base]]
    BY <1>4, ZenonT(30) DEF IInv, TypeOK
  <2> QED
    BY <2>2, <2>3, ZenonT(30) DEF IInv, TypeOK
<1>6. /\ pc'[t] = "swap" /\ loc'[t].now = loc[t].now
      /\ loc'[t].old = old /\ loc'[t].base = base
  BY <1>4 DEF IInv, TypeOK, Local
<1>7. ThreadOK(t)'
  BY <1>1, <1>3, <1>6 DEF IInv, ThreadInv, ThreadOK, old
<1> QED
  BY <1>5, <1>7, ThreadAlone DEF IInv, TypeOK

LEMMA RefusedStep ==
  ASSUME IInv, NEW t \in Threads, Refused(t)
  PROVE  IInv'
<1> USE DEF Refused, Goto, tbVars
<1> DEFINE next == (call[t].bucket + 1) % NR_BUCKET
<1>1. call[t] \in Call
  BY DEF IInv, TypeOK
<1>2. next \in Buckets
  BY <1>1, ConstantsAssumption DEF Call, Buckets
<1>3. NoLocal \in Local
  BY ConstantsAssumption DEF NoLocal, Local
<1>4. [call[t] EXCEPT !.bucket = next] \in Call
  BY <1>1, <1>2 DEF Call
<1>5. TypeOK'
  BY <1>3, <1>4 DEF IInv, TypeOK
<1>6. pc'[t] = "now"
  BY DEF IInv, TypeOK
<1>7. ThreadOK(t)'
  BY <1>6 DEF ThreadOK
<1> QED
  BY <1>5, <1>7, ThreadAlone DEF IInv, TypeOK

\* A failed swap shows that the bucket moved on from what the thread read.
LEMMA SwapFailedStep ==
  ASSUME IInv, NEW t \in Threads, SwapFailed(t)
  PROVE  IInv'
<1> USE DEF SwapFailed, Goto, tbVars
<1>1. TypeOK'
  BY DEF IInv, TypeOK
<1>2. pc'[t] = "reread" /\ loc'[t] = loc[t] /\ call'[t] = call[t]
  BY DEF IInv, TypeOK
<1>3. loc[t].old \in Nat /\ time[call[t].bucket] \in Nat
  BY DEF IInv, TypeOK, Local, Call
<1>4. loc[t].old < time[call[t].bucket]
  BY <1>3 DEF IInv, ThreadInv, ThreadOK
<1>5. ThreadOK(t)'
  BY <1>2, <1>4 DEF IInv, ThreadInv, ThreadOK
<1> QED
  BY <1>1, <1>5, ThreadAlone DEF IInv, TypeOK

\* The missing clamp: the bucket has moved, so it is not at its initial 0, and
\* where it stands now an earlier grant ended.
LEMMA RereadStep ==
  ASSUME IInv, NEW t \in Threads, Reread(t)
  PROVE  IInv'
<1> USE DEF Reread, Goto, tbVars
<1> DEFINE old == time[call[t].bucket]
           l == [loc[t] EXCEPT !.old = old, !.base = old, !.retried = TRUE]
<1>1. loc[t] \in Local /\ call[t].bucket \in Buckets
  BY DEF IInv, TypeOK, Call
<1>2. old \in Nat
  BY <1>1 DEF IInv, TypeOK
<1>3. Boot - MaxBurstTime <= old
  <2>1. loc[t].old < old
    BY DEF IInv, ThreadInv, ThreadOK
  <2>2. old > 0
    BY <1>1, <1>2, <2>1 DEF Local
  <2> QED
    BY <1>1, <2>2 DEF IInv, BucketInv
<1>4. l \in Local
  BY <1>1, <1>2, ZenonT(30) DEF Local
<1>5. loc' = [loc EXCEPT ![t] = l]
  BY ZenonT(30) DEF IInv, TypeOK
<1>6. TypeOK'
  BY <1>4, <1>5 DEF IInv, TypeOK
<1>7. /\ pc'[t] = "swap" /\ loc'[t].now = loc[t].now
      /\ loc'[t].old = old /\ loc'[t].base = old
  BY <1>1, <1>5 DEF IInv, TypeOK, Local
<1>8. ThreadOK(t)'
  BY <1>2, <1>3, <1>7 DEF IInv, ThreadInv, ThreadOK
<1> QED
  BY <1>6, <1>8, ThreadAlone DEF IInv, TypeOK

\* The only step that moves a bucket.
\* The time consume asks for is a natural, no earlier than where it starts.
LEMMA NewTimeNat ==
  ASSUME TypeOK, NEW t \in Threads
  PROVE  Chunk(call[t]) \in Nat /\ NewTime(t) \in Nat /\ loc[t].base <= NewTime(t)
<1>1. call[t] \in Call /\ loc[t] \in Local
  BY DEF TypeOK
<1>2. TimeNeeded(Chunk(call[t]), loc[t].price) \in Nat /\ Chunk(call[t]) \in Nat
  BY <1>1, PaidType, TimeNeededNat DEF Local
<1>3. loc[t].base \in Nat
  BY <1>1 DEF Local
<1> QED BY <1>2, <1>3 DEF NewTime

LEMMA GrantedStep ==
  ASSUME IInv, NEW t \in Threads, Granted(t)
  PROVE  /\ IInv'
         /\ \A b \in Buckets : time[b] <= time'[b]
<1> USE DEF Granted, Grants, Goto
<1> DEFINE b == call[t].bucket
           new == NewTime(t)
           g == [lo |-> loc[t].base, hi |-> new, tokens |-> Chunk(call[t]),
                 now |-> loc[t].now, price |-> loc[t].price, burst |-> loc[t].burst,
                 retried |-> loc[t].retried]
           n == Len(grants[b])
<1>1. loc[t] \in Local /\ call[t] \in Call /\ b \in Buckets
  BY DEF IInv, TypeOK, Call
<1>2. /\ new \in Nat /\ loc[t].base \in Nat /\ loc[t].now \in Nat /\ time[b] \in Nat
      /\ Chunk(call[t]) \in Nat /\ loc[t].base <= new
  BY <1>1, NewTimeNat DEF IInv, TypeOK, Local
<1>3. /\ time[b] <= loc[t].base /\ loc[t].base <= new /\ new <= loc[t].now
      /\ loc[t].now <= clock /\ Boot - MaxBurstTime <= loc[t].base
  BY <1>1, <1>2 DEF IInv, ThreadInv, ThreadOK
<1>4. g \in Grant
  <2> HIDE DEF new
  <2>1. loc[t].price \in Rates /\ loc[t].burst \in Rates /\ loc[t].retried \in BOOLEAN
    BY <1>1 DEF Local
  <2> QED BY <1>2, <2>1, ZenonT(30) DEF Grant
<1>5. /\ time' = [time EXCEPT ![b] = new]
      /\ grants' = [grants EXCEPT ![b] = Append(grants[b], g)]
      /\ clock' = clock
  BY DEF IInv, TypeOK
<1> HIDE DEF new, g
<1>6. grants[b] \in Seq(Grant) /\ n \in Nat
  BY <1>1 DEF IInv, TypeOK
<1>7. /\ grants'[b] \in Seq(Grant) /\ Len(grants'[b]) = n + 1
      /\ grants'[b][n + 1] = g
      /\ \A i \in 1 .. n : grants'[b][i] = grants[b][i]
  BY <1>1, <1>4, <1>5, <1>6 DEF IInv, TypeOK
<1>8. TypeOK'
  <2>1. Paid(call[t]) \in Call /\ NoLocal \in Local
    BY <1>1, PaidType, ConstantsAssumption DEF NoLocal, Local
  <2>2. grants' \in [Buckets -> Seq(Grant)]
    BY <1>1, <1>5, <1>7 DEF IInv, TypeOK
  <2> QED
    BY <1>2, <1>5, <2>1, <2>2 DEF IInv, TypeOK
<1>9. \A d \in Buckets : time[d] <= time'[d]
  BY <1>1, <1>2, <1>3, <1>5 DEF IInv, TypeOK
<1>10. ThreadInv'
  <2> SUFFICES ASSUME NEW u \in Threads PROVE ThreadOK(u)'
    BY DEF ThreadInv
  <2>1. CASE u = t
    <3>1. pc'[u] \in {"idle", "now"}
      BY <2>1 DEF IInv, TypeOK
    <3> QED
      BY <3>1 DEF ThreadOK
  <2>2. CASE u # t
    <3> DEFINE d == call[u].bucket
    <3>1. pc'[u] = pc[u] /\ call'[u] = call[u] /\ loc'[u] = loc[u]
      BY <2>2 DEF IInv, TypeOK
    <3>2. d \in Buckets /\ loc[u].old \in Nat
      BY DEF IInv, TypeOK, Call, Local
    <3>3. time[d] \in Nat /\ time'[d] \in Nat /\ time[d] <= time'[d]
      BY <1>8, <1>9, <3>2 DEF IInv, TypeOK
    <3>4. ThreadOK(u)
      BY DEF IInv, ThreadInv
    <3> QED
      BY <1>5, <3>1, <3>2, <3>3, <3>4 DEF ThreadOK
  <2> QED
    BY <2>1, <2>2
<1> HIDE DEF Granted, Grants, Goto, NewTime, b, n
<1>11. \A d \in Buckets \ {b} : time'[d] = time[d] /\ grants'[d] = grants[d]
  BY <1>5 DEF IInv, TypeOK
<1>12. time'[b] = new
  BY <1>1, <1>5 DEF IInv, TypeOK
<1>13. \A i \in 1 .. n : /\ grants[b][i] \in Grant
                        /\ grants[b][i].lo <= grants[b][i].hi
                        /\ grants[b][i].hi <= time[b]
  BY <1>1, <1>6 DEF IInv, BucketInv, n
<1>14. \A i \in 1 .. n : /\ grants[b][i].lo \in Nat /\ grants[b][i].hi \in Nat
                        /\ grants[b][i].now \in Nat
  BY <1>13 DEF Grant
<1>15. g.lo = loc[t].base /\ g.hi = new /\ g.now = loc[t].now
  BY DEF g
<1>16. BucketInv'
  <2> SUFFICES ASSUME NEW d \in Buckets
               PROVE  /\ grants'[d] = << >> => time'[d] = 0
                      /\ grants'[d] # << >> =>
                           time'[d] = grants'[d][Len(grants'[d])].hi
                      /\ time'[d] > 0 => time'[d] >= Boot - MaxBurstTime
                      /\ \A i \in DOMAIN grants'[d] :
                           /\ grants'[d][i].lo <= grants'[d][i].hi
                           /\ grants'[d][i].hi <= time'[d]
    BY DEF BucketInv
  <2>1. CASE d # b
    BY <1>11, <2>1 DEF IInv, BucketInv
  <2>2. CASE d = b
    <3>1. grants'[b] # << >> /\ time'[b] = grants'[b][Len(grants'[b])].hi
      BY <1>6, <1>7, <1>12, <1>15
    <3>2. time'[b] >= Boot - MaxBurstTime
      BY <1>2, <1>3, <1>12, ConstantsAssumption, UptimeAssumption
    <3>3. ASSUME NEW i \in DOMAIN grants'[b]
          PROVE  /\ grants'[b][i].lo <= grants'[b][i].hi
                 /\ grants'[b][i].hi <= time'[b]
      <4>1. CASE i = n + 1
        BY <1>2, <1>3, <1>7, <1>12, <1>15, <4>1
      <4>2. CASE i \in 1 .. n
        BY <1>2, <1>3, <1>7, <1>12, <1>13, <1>14, <4>2
      <4> QED
        BY <1>6, <1>7, <4>1, <4>2
    <3> QED
      BY <2>2, <3>1, <3>2, <3>3
  <2> QED
    BY <2>1, <2>2
<1>17. NoDoubleSpend'
  <2> SUFFICES ASSUME NEW d \in Buckets, NEW i \in DOMAIN grants'[d],
                      NEW j \in DOMAIN grants'[d], i < j
               PROVE  grants'[d][i].hi <= grants'[d][j].lo
    BY DEF NoDoubleSpend
  <2>1. CASE d # b
    BY <1>11, <2>1 DEF IInv, NoDoubleSpend
  <2>2. CASE d = b /\ j \in 1 .. n
    <3>1. i \in 1 .. n
      BY <1>6, <1>7, <2>2
    <3>2. \A k, l \in DOMAIN grants[b] : k < l => grants[b][k].hi <= grants[b][l].lo
      BY <1>1, ZenonT(30) DEF IInv, NoDoubleSpend
    <3>3. i \in DOMAIN grants[b] /\ j \in DOMAIN grants[b]
      <4>1. DOMAIN grants[b] = 1 .. n
        BY <1>6 DEF n
      <4> QED
        BY <2>2, <3>1, <4>1, ZenonT(30)
    <3>4. grants[b][i].hi <= grants[b][j].lo
      BY <3>2, <3>3, ZenonT(30)
    <3> QED
      BY <1>7, <2>2, <3>1, <3>4
  <2>3. CASE d = b /\ j = n + 1
    <3>1. i \in 1 .. n
      BY <1>6, <1>7, <2>3
    <3> QED
      BY <1>2, <1>3, <1>7, <1>13, <1>14, <1>15, <2>3, <3>1
  <2> QED
    BY <1>6, <1>7, <2>1, <2>2, <2>3
<1>18. NothingFromTheFuture' /\ NothingFromBeforeInit'
  <2> SUFFICES ASSUME NEW d \in Buckets, NEW i \in DOMAIN grants'[d]
               PROVE  /\ grants'[d][i].hi <= grants'[d][i].now
                      /\ grants'[d][i].now <= clock'
                      /\ grants'[d][i].lo >= Boot - MaxBurstTime
    BY DEF NothingFromTheFuture, NothingFromBeforeInit
  <2>1. CASE d # b
    BY <1>5, <1>11, <2>1 DEF IInv, NothingFromTheFuture, NothingFromBeforeInit
  <2>2. CASE d = b /\ i \in 1 .. n
    BY <1>1, <1>5, <1>6, <1>7, <2>2
       DEF IInv, NothingFromTheFuture, NothingFromBeforeInit
  <2>3. CASE d = b /\ i = n + 1
    BY <1>2, <1>3, <1>5, <1>7, <1>15, <2>3, ConstantsAssumption, UptimeAssumption
  <2> QED
    BY <1>6, <1>7, <2>1, <2>2, <2>3
<1> QED
  BY <1>8, <1>9, <1>10, <1>16, <1>17, <1>18 DEF IInv

\* A stuttering step.
LEMMA StutterStep == IInv /\ UNCHANGED vars => IInv'
<1> SUFFICES ASSUME IInv, UNCHANGED vars PROVE IInv'
  OBVIOUS
<1>1. TypeOK'
  BY DEF vars, IInv, TypeOK
<1>2. ThreadInv'
  BY DEF vars, IInv, ThreadInv, ThreadOK
<1>3. clock \in Int
  BY ConstantsAssumption DEF IInv, TypeOK
<1> QED
  BY <1>1, <1>2, <1>3, BucketsAlone DEF vars, IInv

THEOREM NextIInv == IInv /\ [Next]_vars => IInv'
<1> SUFFICES ASSUME IInv, [Next]_vars PROVE IInv'
  OBVIOUS
<1>1. CASE Tick
  BY <1>1, TickStep
<1>2. CASE set_rate
  BY <1>2, SetRateStep
<1>3. ASSUME NEW t \in Threads, NEW n \in Sizes, NEW b \in Buckets,
             WaitForToken(t, n, b)
      PROVE  IInv'
  BY <1>3, WaitForTokenStep
<1>4. ASSUME NEW t \in Threads, consume(t)
      PROVE  IInv'
  BY <1>4, ReadNowStep, ReadTimePerTokenStep, ReadTimePerBurstStep, ReadTimeStep,
     RefusedStep, GrantedStep, SwapFailedStep, RereadStep DEF consume
<1>5. CASE UNCHANGED vars
  BY <1>5, StutterStep
<1> QED
  BY <1>1, <1>2, <1>3, <1>4, <1>5 DEF Next

\* The strengthened invariant holds of every behaviour of the token bucket.
THEOREM Invariance == Spec => []IInv
<1>1. Init => IInv
  BY InitIInv
<1>2. IInv /\ [Next]_vars => IInv'
  BY NextIInv
<1> QED
  BY <1>1, <1>2, PTL DEF Spec

-----------------------------------------------------------------------------
\* Every variable of consume, wait_for_token and set_rate keeps its type; in
\* particular no subtraction in consume goes below zero.
THEOREM TypeCorrect == Spec => []TypeOK
<1>1. IInv => TypeOK
  BY DEF IInv
<1> QED
  BY <1>1, Invariance, PTL

\* Successful calls of consume never spend the same virtual time twice.
THEOREM NeverSpendsTwice == Spec => []NoDoubleSpend
<1>1. IInv => NoDoubleSpend
  BY DEF IInv
<1> QED
  BY <1>1, Invariance, PTL

\* consume never spends time that its caller's clock had not reached.
THEOREM NeverSpendsTheFuture == Spec => []NothingFromTheFuture
<1>1. IInv => NothingFromTheFuture
  BY DEF IInv
<1> QED
  BY <1>1, Invariance, PTL

\* consume never spends time from before one burst ahead of init_token_bucket,
\* although it skips the clamp when it retries.
THEOREM NeverSpendsThePast == Spec => []NothingFromBeforeInit
<1>1. IInv => NothingFromBeforeInit
  BY DEF IInv
<1> QED
  BY <1>1, Invariance, PTL

\* No step moves a bucket's virtual time back.
THEOREM TimeNeverGoesBack == Spec => TimeMonotone
<1>1. IInv /\ [Next]_vars => [\A b \in Buckets : time'[b] >= time[b]]_time
  <2> SUFFICES ASSUME IInv, [Next]_vars, time' # time
               PROVE  \A b \in Buckets : time'[b] >= time[b]
    OBVIOUS
  <2>1. PICK t \in Threads : Granted(t)
    BY ZenonT(30) DEF Next, vars, tbVars, Tick, set_rate, SetRate, SetTimePerToken,
           SetTimePerBurst, WaitForToken, consume, ReadNow, ReadTimePerToken,
           ReadTimePerBurst, ReadTime, Refused, SwapFailed, Reread
  <2>2. IInv' /\ \A b \in Buckets : time[b] <= time'[b]
    BY <2>1, GrantedStep
  <2> QED
    BY <2>2 DEF IInv, TypeOK
<1> QED
  BY <1>1, Invariance, PTL DEF Spec, TimeMonotone

-----------------------------------------------------------------------------
\* A grant of consume is a grant of the abstract limiter.
LEMMA GrantedIsGrant ==
  ASSUME IInv, NEW t \in Threads, Granted(t)
  PROVE  Limiter!Grant(call[t].bucket)
<1> DEFINE b == call[t].bucket
           lo == loc[t].base
           hi == NewTime(t)
           g == [lo |-> lo, hi |-> hi, tokens |-> Chunk(call[t]),
                 now |-> loc[t].now, price |-> loc[t].price, burst |-> loc[t].burst,
                 retried |-> loc[t].retried]
<1>1. loc[t] \in Local /\ b \in Buckets /\ clock \in 0 .. MaxClock
  BY ConstantsAssumption DEF IInv, TypeOK, Call
<1>2. lo \in Nat /\ hi \in Nat /\ loc[t].now \in Nat /\ time[b] \in Nat /\ lo <= hi
  BY <1>1, NewTimeNat DEF IInv, TypeOK, Local
<1>3. /\ time[b] <= lo /\ lo <= hi /\ hi <= loc[t].now
      /\ loc[t].now <= clock /\ Boot - MaxBurstTime <= lo
  BY <1>1, <1>2 DEF IInv, ThreadInv, ThreadOK, Granted
<1>4. lo \in 0 .. MaxClock /\ hi \in 0 .. MaxClock /\ hi <= clock
  BY <1>1, <1>2, <1>3, ConstantsAssumption
<1>5. /\ time' = [time EXCEPT ![b] = hi] /\ clock' = clock
      /\ grants' = [grants EXCEPT ![b] = Append(grants[b], g)]
  BY DEF Granted, Grants, IInv, TypeOK
<1>6. grants[b] \in Seq(Grant) /\ g.lo = lo /\ g.hi = hi
  BY <1>1 DEF IInv, TypeOK
<1> HIDE DEF b, lo, hi, g
<1>7. Stretches' = [Stretches EXCEPT ![b] = Append(Stretches[b], <<lo, hi>>)]
  <2> SUFFICES ASSUME NEW d \in Buckets
               PROVE  Stretches'[d] = IF d = b THEN Append(Stretches[b], <<lo, hi>>)
                                               ELSE Stretches[d]
    BY <1>1, ZenonT(30) DEF Stretches
  <2>1. CASE d # b
    BY <1>5, <2>1 DEF Stretches, IInv, TypeOK
  <2>2. CASE d = b
    <3> DEFINE n == Len(grants[b])
               P(i) == <<grants[b][i].lo, grants[b][i].hi>>
    <3>1. n \in Nat /\ grants'[b] = Append(grants[b], g)
      BY <1>1, <1>5, <1>6 DEF IInv, TypeOK
    <3>2. Len(grants'[b]) = n + 1 /\ grants'[b][n + 1] = g
      BY <1>6, <3>1
    <3>3. \A i \in 1 .. n : grants'[b][i] = grants[b][i]
      BY <1>6, <3>1
    <3>4. Stretches[b] = [i \in 1 .. n |-> P(i)]
      BY <1>1 DEF Stretches
    <3>5. Stretches'[b] = [i \in 1 .. n + 1 |->
                            <<grants'[b][i].lo, grants'[b][i].hi>>]
      BY <1>1, <3>2 DEF Stretches
    <3>6. Append(Stretches[b], <<lo, hi>>) =
            [i \in 1 .. n + 1 |-> IF i = n + 1 THEN <<lo, hi>> ELSE P(i)]
      BY <3>1, <3>4
    <3>7. ASSUME NEW i \in 1 .. n + 1
          PROVE  <<grants'[b][i].lo, grants'[b][i].hi>> =
                   IF i = n + 1 THEN <<lo, hi>> ELSE P(i)
      BY <1>6, <3>1, <3>2, <3>3
    <3> HIDE DEF P, n
    <3> QED
      BY <2>2, <3>5, <3>6, <3>7, ZenonT(30)
  <2> QED
    BY <2>1, <2>2
<1> QED
  BY <1>3, <1>4, <1>5, <1>7, ZenonT(30) DEF Limiter!Grant, b

\* consume with its races implements the limiter that grants in one step.
THEOREM Refinement == Spec => ImplementsLimiter
<1>1. Init => Limiter!Init
  BY DEF Init, Limiter!Init, Stretches
<1>2. IInv /\ [Next]_vars => [Limiter!Next]_Limiter!vars
  <2> SUFFICES ASSUME IInv, [Next]_vars
               PROVE  Limiter!Next \/ UNCHANGED Limiter!vars
    OBVIOUS
  <2>1. CASE Tick
    BY <2>1 DEF Tick, tbVars, Limiter!Next, Limiter!Tick, Stretches
  <2>2. ASSUME NEW t \in Threads, Granted(t)
        PROVE  Limiter!Next
    <3>1. call[t].bucket \in Buckets
      BY DEF IInv, TypeOK, Call
    <3> QED
      BY <2>2, <3>1, GrantedIsGrant DEF Limiter!Next
  <2>3. CASE UNCHANGED <<clock, time, grants>>
    BY <2>3 DEF Limiter!vars, Stretches
  <2> QED
    BY <2>1, <2>2, <2>3, ZenonT(30)
       DEF Next, vars, tbVars, set_rate, SetRate, SetTimePerToken,
           SetTimePerBurst, WaitForToken, consume, ReadNow, ReadTimePerToken,
           ReadTimePerBurst, ReadTime, Refused, SwapFailed, Reread
<1> QED
  BY <1>1, <1>2, Invariance, PTL DEF Spec, ImplementsLimiter, Limiter!Spec

-----------------------------------------------------------------------------
(* wait_for_token pays for exactly what it was asked for.                   *)

\* Splitting a call into shares and a remainder loses and adds nothing.
LEMMA FrameSum ==
  ASSUME NEW n \in Sizes, NEW b \in Buckets
  PROVE  LET c == Frame(n, b) IN
         c.paid + c.iteration * c.small_token + c.rem = c.tokens
<1> DEFINE s == small_burst_size
<1>1. s \in Nat /\ s > 0 /\ n \in Nat
  BY ConstantsAssumption DEF small_burst_size
<1> HIDE DEF s
<1>2. n = (n \div s) * s + (n % s)
  BY <1>1
<1>3. n \div s \in Nat /\ n % s \in Nat
  BY <1>1, DivNat
<1>4. (n \div s) * s \in Nat
  BY <1>1, <1>3, MulNat
<1>5. CASE n <= small_burst_size
  BY <1>1, <1>5 DEF Frame
<1>6. CASE ~(n <= small_burst_size)
  BY <1>1, <1>2, <1>3, <1>4, <1>6 DEF Frame, s
<1> QED
  BY <1>5, <1>6

\* Paying a chunk moves it from what is owed to what is paid.
LEMMA PaidSum ==
  ASSUME NEW c \in Call,
         c.paid + c.iteration * c.small_token + c.rem = c.tokens
  PROVE  LET d == Paid(c) IN
         /\ d.paid + d.iteration * d.small_token + d.rem = d.tokens
         /\ Finished(d) => d.paid = d.tokens
<1> DEFINE i == c.iteration
           s == c.small_token
<1>1. /\ i \in Nat /\ s \in Nat /\ c.rem \in Nat /\ c.paid \in Nat
      /\ c.tokens \in Nat
  BY DEF Call
<1> HIDE DEF i, s
<1>2. (i - 1) * s = i * s - s
  BY <1>1
<1>3. i * s \in Nat
  BY <1>1, MulNat
<1>4. CASE i > 0
  <2>1. /\ Paid(c).iteration = i - 1 /\ Paid(c).small_token = s
        /\ Paid(c).rem = c.rem /\ Paid(c).paid = c.paid + s
        /\ Paid(c).tokens = c.tokens
    BY <1>4 DEF Paid, Call, i, s
  <2>2. Paid(c).paid + (i - 1) * s + c.rem = c.tokens
    BY <1>1, <1>2, <1>3, <2>1 DEF i, s
  <2>3. Finished(Paid(c)) => (i - 1) * s = 0 /\ c.rem = 0
    BY <1>1, <2>1 DEF Finished
  <2> QED
    BY <1>1, <2>1, <2>2, <2>3
<1>5. CASE ~(i > 0)
  <2>1. /\ Paid(c).iteration = 0 /\ Paid(c).small_token = s
        /\ Paid(c).rem = 0 /\ Paid(c).paid = c.paid + c.rem
        /\ Paid(c).tokens = c.tokens
    BY <1>1, <1>5 DEF Paid, Call, i, s
  <2>2. i * s = 0 /\ 0 * s = 0
    BY <1>1, <1>5
  <2> QED
    BY <1>1, <2>1, <2>2 DEF i, s
<1> QED
  BY <1>4, <1>5

\* A wait_for_token that has returned was charged for all of its tokens, and one
\* that is running has paid for, or still owes, exactly its tokens.
THEOREM PaysExactlyAlways == Spec => []PaysExactly
<1>1. Init => PaysExactly
  <2> SUFFICES ASSUME Init, NEW t \in Threads
               PROVE  /\ call[t].paid + call[t].iteration * call[t].small_token
                           + call[t].rem = call[t].tokens
                      /\ pc[t] = "idle" => call[t].paid = call[t].tokens
    BY ZenonT(30) DEF PaysExactly
  <2>1. /\ call[t].iteration = 0 /\ call[t].small_token = 0
        /\ call[t].rem = 0 /\ call[t].paid = 0 /\ call[t].tokens = 0
    BY DEF Init
  <2>2. call[t].iteration * call[t].small_token = 0
    BY <2>1
  <2> QED
    BY <2>1, <2>2
<1>2. IInv /\ PaysExactly /\ [Next]_vars => PaysExactly'
  <2> SUFFICES ASSUME IInv, PaysExactly, [Next]_vars
               PROVE  PaysExactly'
    OBVIOUS
  <2>1. CASE UNCHANGED <<pc, call>>
    BY <2>1 DEF PaysExactly
  <2>2. ASSUME NEW t \in Threads, NEW n \in Sizes, NEW b \in Buckets,
               WaitForToken(t, n, b)
        PROVE  PaysExactly'
    BY <2>2, FrameSum DEF PaysExactly, WaitForToken, Goto, IInv, TypeOK
  <2>3. ASSUME NEW t \in Threads, Granted(t)
        PROVE  PaysExactly'
    <3>1. call[t] \in Call
      BY DEF IInv, TypeOK
    <3>2. call'[t] = Paid(call[t])
      BY <2>3 DEF Granted, Grants, IInv, TypeOK
    <3>3. pc'[t] = "idle" => Finished(Paid(call[t]))
      BY <2>3 DEF Granted, Grants, Goto, IInv, TypeOK
    <3>4. \A u \in Threads \ {t} : call'[u] = call[u] /\ pc'[u] = pc[u]
      BY <2>3 DEF Granted, Grants, Goto, IInv, TypeOK
    <3> QED
      BY <3>1, <3>2, <3>3, <3>4, PaidSum DEF PaysExactly
  <2>4. ASSUME NEW t \in Threads, Refused(t)
        PROVE  PaysExactly'
    <3>1. call[t] \in Call
      BY DEF IInv, TypeOK
    <3>2. pc'[t] = "now" /\ call'[t] = [call[t] EXCEPT
                                          !.bucket = (@ + 1) % NR_BUCKET]
      BY <2>4 DEF Refused, Goto, IInv, TypeOK
    <3>3. \A u \in Threads \ {t} : call'[u] = call[u] /\ pc'[u] = pc[u]
      BY <2>4 DEF Refused, Goto, IInv, TypeOK
    <3> QED
      BY <3>1, <3>2, <3>3 DEF PaysExactly, Call
  <2>5. ASSUME NEW t \in Threads,
               ReadNow(t) \/ ReadTimePerToken(t) \/ ReadTimePerBurst(t)
                 \/ ReadTime(t) \/ SwapFailed(t) \/ Reread(t)
        PROVE  PaysExactly'
    <3>1. call' = call /\ \A u \in Threads : pc'[u] = "idle" => pc[u] = "idle"
      BY <2>5 DEF ReadNow, ReadTimePerToken, ReadTimePerBurst, ReadTime,
                  SwapFailed, Reread, Goto, IInv, TypeOK
    <3> QED
      BY <3>1 DEF PaysExactly
  <2> QED
    BY <2>1, <2>2, <2>3, <2>4, <2>5
       DEF Next, vars, tbVars, Tick, set_rate, SetRate, SetTimePerToken, SetTimePerBurst,
           consume
<1> QED
  BY <1>1, <1>2, Invariance, PTL DEF Spec

-----------------------------------------------------------------------------
(* A full bucket grants every chunk.                                        *)

\* Division by the same number keeps the order.
LEMMA DivMonotone ==
  ASSUME NEW x \in Nat, NEW y \in Nat, x <= y, NEW r \in Nat, r > 0
  PROVE  x \div r <= y \div r
<1> DEFINE p == x \div r
           q == y \div r
<1>1. p \in Nat /\ q \in Nat
  BY DivNat
<1>2. r * p <= x /\ y < r * q + r
  <2>1. x = r * p + (x % r) /\ x % r \in 0 .. r - 1
    OBVIOUS
  <2>2. y = r * q + (y % r) /\ y % r \in 0 .. r - 1
    OBVIOUS
  <2>3. r * p \in Nat /\ r * q \in Nat
    BY <1>1, MulNat
  <2> QED BY <2>1, <2>2, <2>3
<1> HIDE DEF p, q
<1>3. r * p \in Nat /\ r * q \in Nat /\ r * (q + 1) = r * q + r
  BY <1>1, MulNat
<1>4. r * p < r * (q + 1)
  BY <1>1, <1>2, <1>3
<1>5. ~(p >= q + 1)
  <2> SUFFICES ASSUME p >= q + 1 PROVE FALSE
    OBVIOUS
  <2>1. r * p >= r * (q + 1)
    BY <1>1
  <2> QED BY <1>1, <1>3, <1>4, <2>1
<1>6. p <= q
  BY <1>1, <1>5
<1> QED BY <1>6 DEF p, q

\* A bucket's share of the burst costs no more than time_per_burst, although both
\* divisions truncate.
LEMMA ChunkFits ==
  ASSUME NEW n \in Nat, n <= small_burst_size, NEW r \in Rates, r # 0
  PROVE  TimeNeeded(n, r) <= BurstTime(r)
<1> DEFINE s == small_burst_size
           x == n * NSEC * NR_BUCKET
           y == burst_size * NSEC
<1>1. /\ r \in Nat /\ r > 0 /\ NSEC \in Nat /\ burst_size \in Nat
      /\ NR_BUCKET \in Nat /\ NR_BUCKET > 0
  BY ConstantsAssumption
<1>2. s \in Nat /\ s * NR_BUCKET <= burst_size
  <2>1. /\ burst_size = NR_BUCKET * (burst_size \div NR_BUCKET) + (burst_size % NR_BUCKET)
        /\ burst_size % NR_BUCKET \in 0 .. NR_BUCKET - 1
    BY <1>1
  <2>2. s \in Nat
    BY <1>1, DivNat DEF small_burst_size
  <2>3. NR_BUCKET * s = s * NR_BUCKET /\ s * NR_BUCKET \in Nat
    BY <1>1, <2>2, MulNat
  <2> QED BY <1>1, <2>1, <2>2, <2>3 DEF small_burst_size
<1>3. n * NR_BUCKET <= burst_size
  <2>1. n * NR_BUCKET <= s * NR_BUCKET
    BY <1>1, <1>2
  <2>2. n * NR_BUCKET \in Nat /\ s * NR_BUCKET \in Nat
    BY <1>1, <1>2, MulNat
  <2> QED BY <1>1, <1>2, <2>1, <2>2
<1>4. x \in Nat /\ y \in Nat /\ x <= y
  <2> DEFINE m == n * NR_BUCKET
  <2>1. m \in Nat /\ m <= burst_size
    BY <1>1, <1>3, MulNat
  <2>2. x = m * NSEC
    BY <1>1
  <2> HIDE DEF m
  <2>3. m * NSEC <= burst_size * NSEC
    BY <1>1, <2>1
  <2> QED BY <1>1, <2>1, <2>2, <2>3, MulNat
<1> HIDE DEF s, x, y
<1>5. y + r - 1 \in Nat /\ x <= y + r - 1
  BY <1>1, <1>4
<1>6. x \div r <= (y + r - 1) \div r
  BY <1>1, <1>4, <1>5, DivMonotone
<1> QED BY <1>1, <1>6 DEF TimeNeeded, BurstTime, x, y

\* The chunks of a frame fit a bucket, when it is built and when one is paid.
LEMMA FrameFits ==
  ASSUME NEW n \in Sizes, NEW b \in Buckets
  PROVE  Frame(n, b).small_token <= small_burst_size /\ Frame(n, b).rem <= small_burst_size
<1>1. small_burst_size \in Nat /\ small_burst_size > 0 /\ n \in Nat
  BY ConstantsAssumption DEF small_burst_size
<1>2. n % small_burst_size \in 0 .. small_burst_size - 1
  BY <1>1
<1> QED BY <1>1, <1>2 DEF Frame

LEMMA PaidFits ==
  ASSUME NEW c \in Call, c.small_token <= small_burst_size, c.rem <= small_burst_size
  PROVE  Paid(c).small_token <= small_burst_size /\ Paid(c).rem <= small_burst_size
<1>1. small_burst_size \in Nat
  BY ConstantsAssumption DEF small_burst_size
<1>2. CASE c.iteration > 0
  BY <1>2 DEF Paid, Call
<1>3. CASE ~(c.iteration > 0)
  BY <1>1, <1>3 DEF Paid, Call
<1> QED BY <1>2, <1>3

\* Every step keeps the chunks small and the start of a full bucket at min_time.
LEMMA ChunksFitStep ==
  ASSUME IInv, ChunksFit, [Next]_vars
  PROVE  ChunksFit'
<1>0. call \in [Threads -> Call] /\ loc \in [Threads -> Local] /\ DOMAIN pc = Threads
  BY DEF IInv, TypeOK
<1>1. CASE UNCHANGED <<pc, call, loc>>
  BY <1>1 DEF ChunksFit
<1>2. ASSUME NEW t \in Threads, NEW n \in Sizes, NEW b \in Buckets, WaitForToken(t, n, b)
      PROVE  ChunksFit'
  BY <1>0, <1>2, FrameFits DEF ChunksFit, WaitForToken, Goto
<1>3. ASSUME NEW t \in Threads, ReadNow(t) \/ ReadTimePerToken(t) \/ ReadTimePerBurst(t)
                               \/ SwapFailed(t) \/ Reread(t)
      PROVE  ChunksFit'
  <2>1. UNCHANGED call /\ \A u \in Threads \ {t} : pc'[u] = pc[u] /\ loc'[u] = loc[u]
    BY <1>0, <1>3 DEF ReadNow, ReadTimePerToken, ReadTimePerBurst, SwapFailed, Reread, Goto
  <2>2. pc'[t] # "swap" \/ loc'[t].old = loc'[t].base
    BY <1>0, <1>3 DEF ReadNow, ReadTimePerToken, ReadTimePerBurst, SwapFailed, Reread, Goto, Local
  <2>3. pc'[t] = "swap" => ~(loc'[t].old < loc'[t].base)
    <3>1. loc' \in [Threads -> Local]
      BY NextIInv DEF IInv, TypeOK
    <3> QED BY <2>2, <3>1 DEF Local
  <2> QED BY <2>1, <2>3 DEF ChunksFit
<1>4. ASSUME NEW t \in Threads, ReadTime(t) PROVE ChunksFit'
  <2> DEFINE old == time[call[t].bucket]
             min_time == MinTime(loc[t].now, loc[t].burst)
  <2>1. UNCHANGED call /\ \A u \in Threads \ {t} : pc'[u] = pc[u] /\ loc'[u] = loc[u]
    BY <1>0, <1>4 DEF ReadTime, Goto
  <2>2. /\ loc'[t].old = old /\ loc'[t].base = IF min_time > old THEN min_time ELSE old
        /\ loc'[t].now = loc[t].now /\ loc'[t].burst = loc[t].burst
    BY <1>0, <1>4 DEF ReadTime, Local
  <2>3. old \in Nat
    BY <1>0 DEF IInv, TypeOK, Call
  <2>4. loc'[t].old < loc'[t].base => loc'[t].base = min_time
    BY <2>2, <2>3
  <2> QED BY <2>1, <2>2, <2>4 DEF ChunksFit
<1>5. ASSUME NEW t \in Threads, Refused(t) PROVE ChunksFit'
  BY <1>0, <1>5 DEF ChunksFit, Refused, Goto, Call
<1>6. ASSUME NEW t \in Threads, Granted(t) PROVE ChunksFit'
  <2>1. \A u \in Threads \ {t} : call'[u] = call[u] /\ pc'[u] = pc[u] /\ loc'[u] = loc[u]
    BY <1>0, <1>6 DEF Granted, Grants, Goto
  <2>2. call'[t] = Paid(call[t]) /\ pc'[t] # "swap" /\ call[t] \in Call
    BY <1>0, <1>6 DEF Granted, Grants, Goto
  <2> QED BY <2>1, <2>2, PaidFits DEF ChunksFit
<1>7. CASE Tick \/ set_rate \/ UNCHANGED vars
  BY <1>1, <1>7 DEF Tick, set_rate, SetRate, SetTimePerToken, SetTimePerBurst, vars
<1> QED BY <1>2, <1>3, <1>4, <1>5, <1>6, <1>7 DEF Next, consume

\* For any burst, number of buckets and rate: a chunk never costs more than a full
\* bucket holds, so that truncation never makes wait_for_token spin for ever.
THEOREM FullBucketAlwaysGrants == Spec => []FullBucketGrants
<1>1. Init => ChunksFit
  <2>1. small_burst_size \in Nat
    BY ConstantsAssumption DEF small_burst_size
  <2> SUFFICES ASSUME Init, NEW t \in Threads
               PROVE  /\ call[t].small_token <= small_burst_size
                      /\ call[t].rem <= small_burst_size
                      /\ pc[t] # "swap"
    BY ZenonT(30) DEF ChunksFit
  <2>2. call[t].small_token = 0 /\ call[t].rem = 0 /\ pc[t] = "idle"
    BY DEF Init
  <2> QED BY <2>1, <2>2
<1>2. IInv /\ ChunksFit /\ [Next]_vars => ChunksFit'
  BY ChunksFitStep
<1>3. IInv /\ ChunksFit => FullBucketGrants
  <2> SUFFICES ASSUME IInv, ChunksFit, NEW t \in Threads, pc[t] = "swap",
                      loc[t].burst # 0, loc[t].old < loc[t].base,
                      loc[t].price = loc[t].burst
               PROVE  NewTime(t) <= loc[t].now
    BY DEF FullBucketGrants
  <2> DEFINE n == Chunk(call[t])
             r == loc[t].burst
  <2>1. n \in Nat /\ n <= small_burst_size /\ r \in Rates /\ r # 0 /\ loc[t].now \in Nat
    BY DEF IInv, TypeOK, Call, Local, Chunk, ChunksFit
  <2>2. loc[t].base = loc[t].now - BurstTime(r)
    BY <2>1 DEF ChunksFit, MinTime
  <2>3. BurstTime(r) \in Int
    <3> HIDE DEF n, r
    <3>1. r \in Nat /\ r > 0
      BY <2>1, ConstantsAssumption
    <3>2. burst_size * NSEC \in Nat
      BY MulNat, ConstantsAssumption
    <3> QED BY <3>1, <3>2 DEF BurstTime
  <2>4. TimeNeeded(n, r) <= BurstTime(r) /\ TimeNeeded(n, r) \in Nat
    BY <2>1, ChunkFits, TimeNeededNat
  <2> QED BY <2>1, <2>2, <2>3, <2>4 DEF NewTime
<1> QED BY <1>1, <1>2, <1>3, Invariance, PTL DEF Spec

-----------------------------------------------------------------------------
(* What a bucket hands out.                                                 *)

\* Induction: a set with 0 and with the successor of each of its numbers below N has
\* all numbers up to N.
LEMMA UpTo ==
  ASSUME NEW N \in Nat, NEW S, 0 \in S, \A i \in 0 .. N : i \in S /\ i < N => i + 1 \in S
  PROVE  0 .. N \subseteq S
<1> DEFINE T == {i \in 0 .. N : i \notin S}
<1> SUFFICES ASSUME T # {} PROVE FALSE
  OBVIOUS
<1>1. T \subseteq Nat
  OBVIOUS
<1>2. PICK x \in T : \A y \in T : ~(y < x)
  <2> DEFINE Less == OpToRel(<, Nat)
  <2>1. IsWellFoundedOn(Less, Nat)
    BY NatLessThanWellFounded
  <2>2. \A i, j \in Nat : i < j => <<i, j>> \in Less
    BY DEF OpToRel
  <2> HIDE DEF T, Less
  <2>3. \E x \in T : \A y \in T : ~(<<y, x>> \in Less)
    BY <1>1, <2>1, WFMin, Zenon
  <2> QED
    BY <1>1, <2>2, <2>3, Zenon
<1>3. x # 0 /\ x - 1 \in 0 .. N /\ x - 1 < N
  OBVIOUS
<1>4. x - 1 \notin T
  BY <1>2, <1>3
<1>5. (x - 1) + 1 \in S
  BY <1>3, <1>4
<1> QED
  BY <1>5

\* f sums up what the tokens of the grants g cost at rate r that are counted in S.
Sums(f, g, S, r) ==
  /\ f[0] = 0
  /\ \A n \in 1 .. Len(g) :
       f[n] = IF n \in S THEN f[n - 1] + TimeNeeded(g[n].tokens, r) ELSE f[n - 1]

\* The sum is what its recursion says.
LEMMA CostIs ==
  ASSUME NEW g \in Seq(Grant), NEW S, NEW r
  PROVE  Sums(CostBy(g, S, r), g, S, r)
<1> DEFINE N == Len(g)
           step(x, n) == IF n \in S THEN x + TimeNeeded(g[n].tokens, r) ELSE x
           Is(f, k) == f = [n \in 0 .. k |-> IF n = 0 THEN 0 ELSE step(f[n - 1], n)]
           Ks == {k \in 0 .. N : \E f : Is(f, k)}
<1>0. N \in Nat
  OBVIOUS
<1>1. 0 \in Ks
  <2>1. 0 \in 0 .. N
    BY <1>0
  <2>2. Is([n \in 0 .. 0 |-> 0], 0)
    OBVIOUS
  <2> QED BY <2>1, <2>2, Zenon
<1>2. ASSUME NEW k \in 0 .. N, k \in Ks, k < N PROVE k + 1 \in Ks
  <2>1. PICK f : Is(f, k)
    BY <1>2
  <2> DEFINE h == [n \in 0 .. (k + 1) |-> IF n = k + 1 THEN step(f[k], k + 1) ELSE f[n]]
  <2> HIDE DEF N, step
  <2>2. Is(h, k + 1)
    <3>1. ASSUME NEW n \in 0 .. (k + 1)
          PROVE  h[n] = IF n = 0 THEN 0 ELSE step(h[n - 1], n)
      <4>1. CASE n = k + 1
        <5>1. n # 0 /\ n - 1 = k /\ k \in 0 .. (k + 1) /\ k # k + 1
          BY <1>0, <4>1
        <5>2. h[n] = step(f[k], n) /\ h[k] = f[k]
          BY <4>1, <5>1
        <5> QED BY <5>1, <5>2
      <4>2. CASE n # k + 1
        <5>1. n \in 0 .. k /\ h[n] = f[n]
          BY <1>0, <4>2
        <5>2. f[n] = IF n = 0 THEN 0 ELSE step(f[n - 1], n)
          BY <2>1, <5>1, Zenon
        <5>3. n # 0 => n - 1 \in 0 .. (k + 1) /\ n - 1 # k + 1
          BY <1>0, <5>1
        <5>4. n # 0 => h[n - 1] = f[n - 1]
          BY <5>3
        <5> QED BY <5>1, <5>2, <5>4
      <4> QED BY <4>1, <4>2
    <3> QED BY <3>1, Zenon
  <2>3. k + 1 \in 0 .. N
    BY <1>0, <1>2
  <2> QED BY <2>2, <2>3, Zenon
<1>3. N \in Ks
  <2> HIDE DEF Ks, N
  <2>1. 0 .. N \subseteq Ks
    BY <1>0, <1>1, <1>2, UpTo
  <2> QED BY <1>0, <2>1
<1>4. Is(CostBy(g, S, r), N)
  <2>1. \E f : Is(f, N)
    BY <1>3, Zenon
  <2>2. CostBy(g, S, r) = CHOOSE f : Is(f, N)
    BY Zenon DEF CostBy
  <2> QED BY <2>1, <2>2, Zenon
<1>5. ASSUME NEW n \in 0 .. N
      PROVE  CostBy(g, S, r)[n] = IF n = 0 THEN 0 ELSE step(CostBy(g, S, r)[n - 1], n)
  BY <1>4, Zenon
<1> QED BY <1>0, <1>5 DEF Sums

\* A bucket's grants.
LEMMA GrantsAre ==
  ASSUME NEW g \in Seq(Grant)
  PROVE  /\ Len(g) \in Nat /\ DOMAIN g = 1 .. Len(g)
         /\ \A n \in 1 .. Len(g) : g[n].lo \in Nat /\ g[n].hi \in Nat /\ g[n].now \in Nat
                                /\ g[n].tokens \in Nat /\ g[n].price \in Rates
                                /\ g[n].burst \in Rates /\ g[n].retried \in BOOLEAN
<1>1. Len(g) \in Nat /\ DOMAIN g = 1 .. Len(g) /\ \A n \in 1 .. Len(g) : g[n] \in Grant
  OBVIOUS
<1> QED BY <1>1 DEF Grant

\* Grants that follow one another, and of which those counted lie between B and E and
\* spent what their tokens cost at rate r, had tokens for the time from B to E.
LEMMA CostWithin ==
  ASSUME NEW g \in Seq(Grant), NEW S, NEW r \in Rates,
         NEW B \in Int, NEW E \in Int, B <= E,
         \A i \in DOMAIN g : g[i].lo <= g[i].hi,
         \A i, j \in DOMAIN g : i < j => g[i].hi <= g[j].lo,
         \A i \in DOMAIN g : i \in S =>
           /\ B <= g[i].lo /\ g[i].hi <= E
           /\ TimeNeeded(g[i].tokens, r) <= g[i].hi - g[i].lo
  PROVE  CostBy(g, S, r)[Len(g)] <= E - B
<1> DEFINE sum == CostBy(g, S, r)
           N == Len(g)
           cost(n) == TimeNeeded(g[n].tokens, r)
           T == {n \in 0 .. N : /\ sum[n] \in Int /\ sum[n] <= E - B
                                /\ sum[n] <= 0 \/ (n > 0 /\ sum[n] <= g[n].hi - B)}
<1>0. N \in Nat /\ DOMAIN g = 1 .. N
  BY GrantsAre, Zenon
<1>1. Sums(sum, g, S, r)
  BY CostIs, Zenon
<1>2. \A n \in 1 .. N : /\ g[n].lo \in Nat /\ g[n].hi \in Nat /\ g[n].lo <= g[n].hi
                        /\ cost(n) \in Nat
  BY <1>0, GrantsAre, TimeNeededNat, Zenon
<1> HIDE DEF sum, N
<1>3. 0 \in T
  BY <1>0, <1>1 DEF Sums
<1>4. ASSUME NEW n \in 0 .. N, n \in T, n < N PROVE n + 1 \in T
  <2>1. /\ n + 1 \in 1 .. N /\ n + 1 \in DOMAIN g /\ (n + 1) - 1 = n
        /\ n > 0 => n \in 1 .. N /\ n \in DOMAIN g /\ n < n + 1
    BY <1>0, <1>4
  <2> DEFINE lo == g[n + 1].lo
             hi == g[n + 1].hi
             c == cost(n + 1)
             old == sum[n]
             new == sum[n + 1]
  <2>2. /\ lo \in Nat /\ hi \in Nat /\ c \in Nat /\ lo <= hi
        /\ n + 1 \in S => B <= lo /\ hi <= E /\ c <= hi - lo
    BY <1>2, <2>1
  <2>3. n > 0 => g[n].hi \in Nat /\ g[n].hi <= lo
    BY <1>2, <2>1
  <2>4. new = IF n + 1 \in S THEN old + c ELSE old
    BY <1>1, <2>1 DEF Sums, N
  <2>5. /\ old \in Int /\ old <= E - B
        /\ old <= 0 \/ (n > 0 /\ old <= g[n].hi - B)
    BY <1>4
  <2>6. old <= 0 \/ old <= lo - B
    BY <2>2, <2>3, <2>5
  <2> HIDE DEF lo, hi, c, old, new
  <2>7. /\ new \in Int /\ new <= E - B
        /\ new <= 0 \/ new <= hi - B
    BY <2>2, <2>4, <2>5, <2>6
  <2> QED BY <1>0, <1>4, <2>7 DEF new, hi
<1>5. N \in T
  <2> HIDE DEF T
  <2>1. 0 .. N \subseteq T
    BY <1>0, <1>3, <1>4, UpTo, ZenonT(30)
  <2> QED BY <1>0, <2>1
<1> QED BY <1>5 DEF sum, N

\* min_time lies at most the longest burst before the clock that was read.
LEMMA BurstBound ==
  ASSUME NEW now \in Nat, NEW r \in Rates, r # 0
  PROVE  MinTime(now, r) \in Int /\ MinTime(now, r) >= now - MaxBurstTime
<1>1. r \in Nat /\ r > 0 /\ burst_size * NSEC \in Nat
  BY MulNat, ConstantsAssumption
<1>2. BurstTime(r) \in Int
  BY <1>1 DEF BurstTime
<1>3. BurstTime(r) <= MaxBurstTime /\ MaxBurstTime \in Nat
  BY UptimeAssumption
<1> QED BY <1>2, <1>3 DEF MinTime

\* Every step keeps first tries at min_time or later.
LEMMA ClampedFirstStep ==
  ASSUME IInv, ClampedFirst, [Next]_vars
  PROVE  ClampedFirst'
<1>0. call \in [Threads -> Call] /\ loc \in [Threads -> Local] /\ DOMAIN pc = Threads
  BY DEF IInv, TypeOK
<1>1. CASE UNCHANGED <<pc, loc, grants>>
  BY <1>1 DEF ClampedFirst
<1>2. ASSUME NEW t \in Threads,
             \/ \E n \in Sizes, b \in Buckets : WaitForToken(t, n, b)
             \/ ReadNow(t) \/ ReadTimePerToken(t) \/ ReadTimePerBurst(t)
             \/ SwapFailed(t) \/ Reread(t) \/ Refused(t)
      PROVE  ClampedFirst'
  <2>1. /\ UNCHANGED grants
        /\ \A u \in Threads \ {t} : pc'[u] = pc[u] /\ loc'[u] = loc[u]
        /\ pc'[t] = "swap" => loc'[t].retried
    BY <1>0, <1>2 DEF WaitForToken, ReadNow, ReadTimePerToken, ReadTimePerBurst, SwapFailed,
                     Reread, Refused, Goto, Local
  <2> QED BY <2>1 DEF ClampedFirst
<1>3. ASSUME NEW t \in Threads, ReadTime(t) PROVE ClampedFirst'
  <2> DEFINE old == time[call[t].bucket]
             min_time == MinTime(loc[t].now, loc[t].burst)
  <2>1. UNCHANGED grants /\ \A u \in Threads \ {t} : pc'[u] = pc[u] /\ loc'[u] = loc[u]
    BY <1>0, <1>3 DEF ReadTime, Goto
  <2>2. /\ loc'[t].base = IF min_time > old THEN min_time ELSE old
        /\ loc'[t].now = loc[t].now /\ loc'[t].burst = loc[t].burst
    BY <1>0, <1>3 DEF ReadTime, Local
  <2>3. old \in Nat /\ min_time \in Nat
    <3>1. loc[t].now \in Nat /\ Boot <= loc[t].now /\ loc[t].burst \in Rates
      BY <1>0, <1>3 DEF ReadTime, IInv, ThreadInv, ThreadOK, Local
    <3> QED BY <1>0, <3>1, MinTimeBound DEF IInv, TypeOK, Call
  <2>4. loc'[t].base >= MinTime(loc'[t].now, loc'[t].burst)
    BY <2>2, <2>3
  <2> QED BY <2>1, <2>4 DEF ClampedFirst
<1>4. ASSUME NEW t \in Threads, Granted(t) PROVE ClampedFirst'
  <2> DEFINE b == call[t].bucket
             new == [lo |-> loc[t].base, hi |-> NewTime(t), tokens |-> Chunk(call[t]),
                     now |-> loc[t].now, price |-> loc[t].price, burst |-> loc[t].burst,
                     retried |-> loc[t].retried]
  <2>1. /\ \A u \in Threads \ {t} : pc'[u] = pc[u] /\ loc'[u] = loc[u]
        /\ pc'[t] # "swap" /\ pc[t] = "swap"
    BY <1>0, <1>4 DEF Granted, Grants, Goto
  <2>2. b \in Buckets /\ grants[b] \in Seq(Grant)
    BY <1>0 DEF Call, IInv, TypeOK
  <2>3. grants' = [grants EXCEPT ![b] = Append(grants[b], new)]
    BY <1>4 DEF Granted, Grants
  <2>4. ~new.retried => new.lo >= MinTime(new.now, new.burst)
    BY <2>1 DEF ClampedFirst
  <2> HIDE DEF new
  <2>5. ASSUME NEW c \in Buckets, NEW i \in DOMAIN grants'[c], ~grants'[c][i].retried
        PROVE  grants'[c][i].lo >= MinTime(grants'[c][i].now, grants'[c][i].burst)
    <3>1. CASE i \in DOMAIN grants[c] /\ grants'[c][i] = grants[c][i]
      BY <2>5, <3>1 DEF ClampedFirst
    <3>2. CASE grants'[c][i] = new
      BY <2>4, <2>5, <3>2
    <3>3. CASE c # b
      <4>1. grants'[c] = grants[c]
        BY <2>3, <3>3 DEF IInv, TypeOK
      <4> QED BY <2>5, <4>1 DEF ClampedFirst
    <3>4. CASE c = b
      <4>1. grants'[c] = Append(grants[b], new)
        BY <2>2, <2>3, <3>4 DEF IInv, TypeOK
      <4>2. (i \in DOMAIN grants[b] /\ grants'[c][i] = grants[b][i]) \/ grants'[c][i] = new
        BY <2>2, <2>5, <4>1
      <4> QED BY <3>1, <3>2, <3>4, <4>2
    <3> QED BY <3>3, <3>4
  <2> QED BY <2>1, <2>5 DEF ClampedFirst
<1>5. CASE Tick \/ set_rate \/ UNCHANGED vars
  BY <1>1, <1>5 DEF Tick, set_rate, SetRate, SetTimePerToken, SetTimePerBurst, vars
<1> QED BY <1>2, <1>3, <1>4, <1>5 DEF Next, consume

\* A call about to be granted has read a positive time_per_burst: at rate 0 min_time lies
\* in the future.
LEMMA BurstPositive ==
  ASSUME IInv, ClampedFirst, Priced, NEW t \in Threads, pc[t] = "swap", NewTime(t) <= loc[t].now
  PROVE  loc[t].burst # 0
<1>1. CASE loc[t].retried
  BY <1>1 DEF Priced
<1>2. CASE ~loc[t].retried
  <2> DEFINE l == loc[t]
             new == NewTime(t)
  <2>1. l.base >= MinTime(l.now, l.burst)
    BY <1>2 DEF ClampedFirst
  <2>2. l.base \in Nat /\ l.now \in Nat
    BY DEF IInv, TypeOK, Local
  <2>3. new \in Nat /\ l.base <= new /\ new <= l.now
    BY NewTimeNat DEF IInv
  <2>4. l.now <= clock /\ clock \in Nat /\ clock < HUGE /\ HUGE \in Nat
    BY ConstantsAssumption DEF IInv, TypeOK, ThreadInv, ThreadOK
  <2> HIDE DEF new
  <2> QED BY <2>1, <2>2, <2>3, <2>4 DEF MinTime
<1> QED BY <1>1, <1>2

\* Every step keeps grants priced.
LEMMA PricedStep ==
  ASSUME IInv, ClampedFirst, Priced, [Next]_vars
  PROVE  Priced'
<1>0. call \in [Threads -> Call] /\ loc \in [Threads -> Local] /\ DOMAIN pc = Threads
  BY DEF IInv, TypeOK
<1>1. CASE UNCHANGED <<pc, loc, grants>>
  BY <1>1 DEF Priced
<1>2. ASSUME NEW t \in Threads,
             \/ \E n \in Sizes, b \in Buckets : WaitForToken(t, n, b)
             \/ ReadNow(t) \/ ReadTimePerToken(t) \/ ReadTimePerBurst(t) \/ ReadTime(t)
             \/ Refused(t)
      PROVE  Priced'
  <2>1. UNCHANGED grants /\ \A u \in Threads \ {t} : pc'[u] = pc[u] /\ loc'[u] = loc[u]
    BY <1>0, <1>2 DEF WaitForToken, ReadNow, ReadTimePerToken, ReadTimePerBurst, ReadTime,
                      Refused, Goto
  <2>2. CASE \E n \in Sizes, b \in Buckets : WaitForToken(t, n, b)
    <3>1. loc'[t] = loc[t] /\ pc[t] = "idle" /\ pc'[t] = "now"
      BY <1>0, <2>2 DEF WaitForToken, Goto
    <3> QED BY <2>1, <3>1 DEF Priced
  <2>3. CASE ReadNow(t) \/ ReadTimePerToken(t) \/ ReadTimePerBurst(t) \/ ReadTime(t)
    <3>1. loc'[t].retried = loc[t].retried
      BY <1>0, <2>3 DEF ReadNow, ReadTimePerToken, ReadTimePerBurst, ReadTime, Local
    <3>2. pc[t] \notin {"swap", "reread"} /\ pc'[t] # "reread"
      BY <1>0, <2>3 DEF ReadNow, ReadTimePerToken, ReadTimePerBurst, ReadTime, Goto
    <3> QED BY <2>1, <3>1, <3>2 DEF Priced
  <2>4. CASE Refused(t)
    <3>1. ~loc'[t].retried /\ pc'[t] = "now"
      BY <1>0, <2>4 DEF Refused, Goto, NoLocal
    <3> QED BY <2>1, <3>1 DEF Priced
  <2> QED BY <1>2, <2>2, <2>3, <2>4
<1>3. ASSUME NEW t \in Threads, SwapFailed(t) \/ Reread(t) PROVE Priced'
  <2>1. UNCHANGED grants /\ \A u \in Threads \ {t} : pc'[u] = pc[u] /\ loc'[u] = loc[u]
    BY <1>0, <1>3 DEF SwapFailed, Reread, Goto
  <2>2. loc'[t].burst = loc[t].burst /\ pc'[t] \in {"swap", "reread"}
    BY <1>0, <1>3 DEF SwapFailed, Reread, Goto, Local
  <2>3. loc[t].burst # 0
    BY <1>3, BurstPositive DEF Priced, SwapFailed, Reread
  <2> QED BY <2>1, <2>2, <2>3 DEF Priced
<1>4. ASSUME NEW t \in Threads, Granted(t) PROVE Priced'
  <2> DEFINE b == call[t].bucket
             new == [lo |-> loc[t].base, hi |-> NewTime(t), tokens |-> Chunk(call[t]),
                     now |-> loc[t].now, price |-> loc[t].price, burst |-> loc[t].burst,
                     retried |-> loc[t].retried]
             Right(g) == g.hi = g.lo + TimeNeeded(g.tokens, g.price) /\ g.burst # 0
  <2>1. /\ \A u \in Threads \ {t} : pc'[u] = pc[u] /\ loc'[u] = loc[u]
        /\ pc'[t] \notin {"swap", "reread"} /\ ~loc'[t].retried
    BY <1>0, <1>4 DEF Granted, Grants, Goto, NoLocal
  <2>2. b \in Buckets /\ grants[b] \in Seq(Grant) /\ DOMAIN grants = Buckets
    BY <1>0 DEF Call, IInv, TypeOK
  <2>3. grants' = [grants EXCEPT ![b] = Append(grants[b], new)]
    BY <1>4 DEF Granted, Grants
  <2>4. Right(new)
    BY <1>4, BurstPositive DEF Granted, NewTime
  <2> HIDE DEF new, Right
  <2>5. ASSUME NEW c \in Buckets, NEW i \in DOMAIN grants[c] PROVE Right(grants[c][i])
    BY Zenon DEF Priced, Right
  <2>6. ASSUME NEW c \in Buckets, NEW i \in DOMAIN grants'[c] PROVE Right(grants'[c][i])
    <3>1. CASE c # b
      <4>1. grants'[c] = grants[c]
        BY <2>2, <2>3, <3>1
      <4> QED BY <2>5, <2>6, <4>1
    <3>2. CASE c = b
      <4>1. grants'[c] = Append(grants[b], new)
        BY <2>2, <2>3, <3>2
      <4>2. (i \in DOMAIN grants[b] /\ grants'[c][i] = grants[b][i]) \/ grants'[c][i] = new
        BY <2>2, <2>6, <4>1
      <4> QED BY <2>4, <2>5, <3>2, <4>2
    <3> QED BY <3>1, <3>2
  <2> QED BY <2>1, <2>6, Zenon DEF Priced, Right
<1>5. CASE Tick \/ set_rate \/ UNCHANGED vars
  BY <1>1, <1>5 DEF Tick, set_rate, SetRate, SetTimePerToken, SetTimePerBurst, vars
<1> QED BY <1>2, <1>3, <1>4, <1>5 DEF Next, consume

\* What the two bounds rest on.
LEMMA InvariancePriced == Spec => [](IInv /\ ClampedFirst /\ Priced)
<1>1. Init => ClampedFirst /\ Priced
  BY DEF Init, ClampedFirst, Priced, NoLocal
<1>2. IInv /\ ClampedFirst /\ Priced /\ [Next]_vars => ClampedFirst' /\ Priced'
  BY ClampedFirstStep, PricedStep
<1> QED BY <1>1, <1>2, Invariance, PTL DEF Spec

\* Division by a smaller number gives no less.
LEMMA DivAntitone ==
  ASSUME NEW x \in Nat, NEW r \in Nat, NEW s \in Nat, s > 0, s <= r
  PROVE  x \div r <= x \div s
<1> DEFINE p == x \div r
           q == x \div s
<1>1. p \in Nat /\ q \in Nat
  BY DivNat
<1>2. r * p <= x /\ x < s * q + s
  <2>1. x = r * p + (x % r) /\ x % r \in 0 .. r - 1
    OBVIOUS
  <2>2. x = s * q + (x % s) /\ x % s \in 0 .. s - 1
    OBVIOUS
  <2>3. r * p \in Nat /\ s * q \in Nat
    BY <1>1, MulNat
  <2> QED BY <2>1, <2>2, <2>3
<1> HIDE DEF p, q
<1>3. /\ r * p \in Nat /\ s * q \in Nat /\ s * p \in Nat
      /\ s * (q + 1) = s * q + s
  BY <1>1, MulNat
<1>4. s * p <= r * p
  BY <1>1
<1>5. s * p < s * (q + 1)
  BY <1>1, <1>2, <1>3, <1>4
<1>6. ~(p >= q + 1)
  <2> SUFFICES ASSUME p >= q + 1 PROVE FALSE
    OBVIOUS
  <2>1. s * p >= s * (q + 1)
    BY <1>1
  <2> QED BY <1>1, <1>3, <1>5, <2>1
<1>7. p <= q
  BY <1>1, <1>6
<1> QED BY <1>7 DEF p, q

\* Tokens charged at a rate up to r cost at least as much as at rate r.
LEMMA ChargedEnough ==
  ASSUME IInv, Priced, NEW b \in Buckets, NEW r \in Rates \ {0}, NEW i \in ChargedUpTo(b, r)
  PROVE  /\ i \in DOMAIN grants[b]
         /\ TimeNeeded(grants[b][i].tokens, r) <= grants[b][i].hi - grants[b][i].lo
<1> DEFINE g == grants[b][i]
           n == g.tokens
           s == g.price
           x == n * NSEC * NR_BUCKET
<1>1. i \in DOMAIN grants[b] /\ s \in 1 .. r
  BY DEF ChargedUpTo
<1>2. grants[b] \in Seq(Grant)
  BY DEF IInv, TypeOK
<1>3. g.lo \in Nat /\ g.hi \in Nat /\ n \in Nat /\ s \in Rates
  BY <1>1, <1>2, GrantsAre
<1>4. g.hi = g.lo + TimeNeeded(n, s)
  BY <1>1 DEF Priced
<1>5. r \in Nat /\ s \in Nat /\ s > 0 /\ s <= r /\ r # 0 /\ s # 0
  BY <1>1, <1>3, ConstantsAssumption
<1>6. x \in Nat
  BY <1>3, MulNat, ConstantsAssumption
<1>7. TimeNeeded(n, r) = x \div r /\ TimeNeeded(n, s) = x \div s
  BY <1>5 DEF TimeNeeded
<1>8. TimeNeeded(n, r) \in Nat /\ TimeNeeded(n, s) \in Nat
  BY <1>3, TimeNeededNat
<1> HIDE DEF g, n, s, x
<1>9. TimeNeeded(n, r) <= TimeNeeded(n, s)
  BY <1>5, <1>6, <1>7, DivAntitone
<1>10. TimeNeeded(n, r) <= g.hi - g.lo
  BY <1>3, <1>4, <1>8, <1>9
<1> QED BY <1>1, <1>10 DEF g, n

\* For any threads, buckets and rates: since its initialisation a bucket granted no more
\* tokens at rates up to r than r allows in the time that has passed and one burst, in
\* spite of every race of consume with itself, and nothing to a call that read
\* time_per_burst of rate 0.
THEOREM AlwaysLongRunRate == Spec => []LongRunRate
<1>1. IInv /\ Priced => LongRunRate
  <2> SUFFICES ASSUME IInv, Priced, NEW b \in Buckets
               PROVE  /\ \A r \in Rates \ {0} :
                           Cost(b, ChargedUpTo(b, r), r) <= clock - Boot + MaxBurstTime
                      /\ \A i \in DOMAIN grants[b] : grants[b][i].burst # 0
    BY DEF LongRunRate
  <2>0. \A i \in DOMAIN grants[b] : grants[b][i].burst # 0
    BY DEF Priced
  <2> SUFFICES ASSUME NEW r \in Rates \ {0}
               PROVE  Cost(b, ChargedUpTo(b, r), r) <= clock - Boot + MaxBurstTime
    BY <2>0
  <2> DEFINE g == grants[b]
             S == ChargedUpTo(b, r)
             B == Boot - MaxBurstTime
  <2>1. g \in Seq(Grant) /\ clock \in Int /\ B \in Int /\ B <= clock
    BY ConstantsAssumption, UptimeAssumption DEF IInv, TypeOK
  <2>2. \A i \in DOMAIN g : /\ g[i].lo \in Nat /\ g[i].hi \in Nat /\ g[i].now \in Nat
                            /\ g[i].lo <= g[i].hi
                            /\ B <= g[i].lo /\ g[i].hi <= g[i].now /\ g[i].now <= clock
    BY <2>1, GrantsAre DEF IInv, BucketInv, NothingFromTheFuture, NothingFromBeforeInit
  <2>3. \A i, j \in DOMAIN g : i < j => g[i].hi <= g[j].lo
    BY DEF IInv, NoDoubleSpend
  <2>4. \A i \in DOMAIN g : g[i].lo <= g[i].hi /\ B <= g[i].lo /\ g[i].hi <= clock
    BY <2>1, <2>2
  <2>5. \A i \in DOMAIN g : i \in S => TimeNeeded(g[i].tokens, r) <= g[i].hi - g[i].lo
    BY ChargedEnough, Zenon
  <2> HIDE DEF g, B, S
  <2>6. CostBy(g, S, r)[Len(g)] <= clock - B
    BY <2>1, <2>3, <2>4, <2>5, CostWithin, ZenonT(30)
  <2>7. clock - B = clock - Boot + MaxBurstTime
    BY <2>1, ConstantsAssumption, UptimeAssumption DEF B
  <2> QED BY <2>6, <2>7 DEF Cost, g, S
<1> QED BY <1>1, InvariancePriced, PTL

\* For any threads, buckets and rates: the grants that consume made without a failed
\* swap had, in every window of time and at rates up to r, no more tokens than r allows
\* in the window and one burst.
THEOREM AlwaysFirstTryBurst == Spec => []FirstTryBurst
<1>1. IInv /\ ClampedFirst /\ Priced => FirstTryBurst
  <2> SUFFICES ASSUME IInv, ClampedFirst, Priced, NEW b \in Buckets, NEW r \in Rates \ {0},
                      NEW s \in Boot .. clock, NEW e \in Boot .. clock, s <= e
               PROVE  Cost(b, {i \in ChargedUpTo(b, r) :
                                 ~grants[b][i].retried /\ grants[b][i].now \in s .. e}, r)
                        <= e - s + MaxBurstTime
    BY DEF FirstTryBurst
  <2> DEFINE g == grants[b]
             S == {i \in ChargedUpTo(b, r) : ~g[i].retried /\ g[i].now \in s .. e}
             B == s - MaxBurstTime
  <2>1. /\ g \in Seq(Grant) /\ e \in Int /\ B \in Int /\ B <= e /\ clock \in Int /\ s \in Int
        /\ MaxBurstTime \in Nat
    BY ConstantsAssumption, UptimeAssumption DEF IInv, TypeOK
  <2>2. \A i \in DOMAIN g : /\ g[i].lo \in Nat /\ g[i].hi \in Nat /\ g[i].now \in Nat
                            /\ g[i].burst \in Rates /\ g[i].burst # 0
                            /\ g[i].lo <= g[i].hi
                            /\ g[i].hi <= g[i].now /\ g[i].now <= clock
    BY <2>1, GrantsAre DEF IInv, BucketInv, NothingFromTheFuture, Priced
  <2>3. \A i, j \in DOMAIN g : i < j => g[i].hi <= g[j].lo
    BY DEF IInv, NoDoubleSpend
  <2>4. ASSUME NEW i \in DOMAIN g, i \in S PROVE B <= g[i].lo /\ g[i].hi <= e
    <3>1. g[i].now \in s .. e /\ ~g[i].retried
      BY <2>4
    <3>2. g[i].lo >= MinTime(g[i].now, g[i].burst)
      BY <3>1 DEF ClampedFirst
    <3> DEFINE lo == g[i].lo
               hi == g[i].hi
               now == g[i].now
               q == g[i].burst
    <3>3. /\ lo \in Nat /\ hi \in Nat /\ now \in Nat /\ q \in Rates /\ q # 0
          /\ lo <= hi /\ hi <= now
      BY <2>2
    <3>4. lo >= MinTime(now, q) /\ s <= now /\ now <= e
      BY <2>1, <3>1, <3>2, <3>3
    <3> HIDE DEF g, lo, hi, now, q
    <3>5. MinTime(now, q) \in Int /\ MinTime(now, q) >= now - MaxBurstTime
      BY <3>3, BurstBound
    <3>6. B <= lo /\ hi <= e
      BY <2>1, <3>3, <3>4, <3>5
    <3> QED BY <3>6 DEF lo, hi
  <2>5. \A i \in DOMAIN g : i \in S => TimeNeeded(g[i].tokens, r) <= g[i].hi - g[i].lo
    BY ChargedEnough, Zenon
  <2> HIDE DEF g, S, B
  <2>6. CostBy(g, S, r)[Len(g)] <= e - B
    BY <2>1, <2>2, <2>3, <2>4, <2>5, CostWithin, ZenonT(30)
  <2>7. e - B = e - s + MaxBurstTime
    BY <2>1 DEF B
  <2> QED BY <2>6, <2>7 DEF Cost, g, S
<1> QED BY <1>1, InvariancePriced, PTL
=============================================================================
