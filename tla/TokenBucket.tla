---------------------------- MODULE TokenBucket ----------------------------
(***************************************************************************)
(* The token bucket of libibverbs/tokenbucket.[ch] in shared memory: one   *)
(* array of NR_BUCKET time stamps per link, posted to by the threads of    *)
(* every best-effort process (wait_for_token, consume), while the monitor  *)
(* process changes the rate (set_rate).                                    *)
(*                                                                         *)
(* A bucket stores no token count but a virtual time: tokens not yet spent *)
(* are the distance from buckets[b].time to the clock.  consume moves the  *)
(* virtual time forward with a compare-and-swap.  Every load and store of  *)
(* shared memory is a step of its own.                                     *)
(*                                                                         *)
(* Doubles.  time_per_token and time_per_burst are volatile doubles that   *)
(* are only ever converted to uint64_t after a multiplication or a         *)
(* subtraction.  Each of the two fields is represented by the rate it was  *)
(* computed from, and time_needed and min_time give the truncated result.  *)
(***************************************************************************)
EXTENDS Integers, Sequences

CONSTANTS
  Threads,      \* posting threads, of any best-effort process
  NR_BUCKET,    \* NR_BUCKET of tokenbucket.h
  burst_size,   \* burst_size of the bucket, in tokens
  Rates,        \* the rates, in tokens per second, the monitor may set
  InitRate,     \* the rate given to init_token_bucket
  Sizes,        \* the token counts wait_for_token is called with
  NSEC,         \* clock ticks per second
  Boot,         \* the clock when init_token_bucket returned
  MaxClock,     \* bound on the clock
  MaxGrants,    \* bound on the grants of a bucket before calls stop starting
  MaxBurstTime, \* bound on time_per_burst over the rates the monitor sets
  HUGE          \* 2^63: what a conversion of an infinite double yields

Buckets == 0 .. NR_BUCKET - 1

\* (double) burst_size / NR_BUCKET, converted to uint64_t.
small_burst_size == burst_size \div NR_BUCKET

\* trunc(tokens * time_per_token).  With rate 0 the double is +infinity, whose
\* conversion on x86-64 is 0, or NaN when tokens is 0, whose conversion is 2^63.
TimeNeeded(tokens, r) ==
  IF r = 0 THEN (IF tokens = 0 THEN HUGE ELSE 0)
           ELSE (tokens * NSEC * NR_BUCKET) \div r

\* time_per_burst of a positive rate, rounded up.
BurstTime(r) == (burst_size * NSEC + r - 1) \div r

\* trunc(now - time_per_burst); minus infinity converts to 2^63.
MinTime(now, r) == IF r = 0 THEN HUGE ELSE now - BurstTime(r)

ASSUME ConstantsAssumption ==
  /\ NR_BUCKET \in Nat \ {0}
  /\ burst_size \in Nat /\ burst_size >= NR_BUCKET
  /\ Rates \subseteq Nat /\ InitRate \in Rates \ {0}
  /\ Sizes \subseteq Nat
  /\ NSEC \in Nat \ {0}
  /\ Boot \in Nat /\ MaxClock \in Nat /\ Boot <= MaxClock
  /\ HUGE \in Nat /\ HUGE > MaxClock
  /\ MaxGrants \in Nat

\* The machine has been up for longer than any time_per_burst, so that
\* now - time_per_burst is never negative.
ASSUME UptimeAssumption ==
  /\ MaxBurstTime \in Nat /\ MaxBurstTime <= Boot
  /\ \A r \in Rates \ {0} : BurstTime(r) <= MaxBurstTime

VARIABLES
  clock,      \* CLOCK_MONOTONIC
  time,       \* buckets[b].time
  rate,       \* tb->rate
  tpt,        \* the rate tb->time_per_token was computed from
  tpb,        \* the rate tb->time_per_burst was computed from
  mpc,        \* where the monitor is in set_rate
  pc,         \* where each thread is in wait_for_token and consume
  call,       \* each thread's wait_for_token frame
  loc,        \* each thread's consume frame
  grants      \* history: the successful calls of consume, in order, per bucket

tbVars == <<time, rate, tpt, tpb>>
vars == <<clock, time, rate, tpt, tpb, mpc, pc, call, loc, grants>>

\* The frame of wait_for_token: the bucket tried next, the chunks of
\* small_burst_size still to pay, the remainder after them, and the history
\* fields "tokens" (the argument) and "paid" (what consume granted so far).
Call == [bucket : Buckets, iteration : Nat, small_token : Nat, rem : Nat,
         tokens : Nat, paid : Nat]

\* The frame of consume.  price and burst are the rates behind the values of
\* time_per_token and time_per_burst it read.  "retried" is history: the swap
\* failed at least once.
Local == [now : Nat, price : Rates, burst : Rates, old : Nat, base : Nat,
          retried : BOOLEAN]

\* A successful consume of tokens moved its bucket from lo (after the min_time
\* clamp) to hi; now, price and burst are what it had read, retried as above.
Grant == [lo : Nat, hi : Nat, tokens : Nat, now : Nat, price : Rates, burst : Rates,
          retried : BOOLEAN]

\* A thread outside consume has no frame.
NoLocal == [now |-> 0, price |-> InitRate, burst |-> InitRate, old |-> 0, base |-> 0,
            retried |-> FALSE]

TypeOK ==
  /\ clock \in Boot .. MaxClock
  /\ time \in [Buckets -> Nat]
  /\ rate \in Rates /\ tpt \in Rates /\ tpb \in Rates
  /\ mpc \in {"idle", "tpt", "tpb"}
  /\ pc \in [Threads -> {"idle", "now", "tpt", "tpb", "time", "swap", "reread"}]
  /\ call \in [Threads -> Call]
  /\ loc \in [Threads -> Local]
  /\ grants \in [Buckets -> Seq(Grant)]

Init ==
  /\ clock = Boot
  /\ time = [b \in Buckets |-> 0]
  /\ rate = InitRate /\ tpt = InitRate /\ tpb = InitRate
  /\ mpc = "idle"
  /\ pc = [t \in Threads |-> "idle"]
  /\ call = [t \in Threads |-> [bucket |-> 0, iteration |-> 0, small_token |-> 0,
                                rem |-> 0, tokens |-> 0, paid |-> 0]]
  /\ loc = [t \in Threads |-> NoLocal]
  /\ grants = [b \in Buckets |-> << >>]

-----------------------------------------------------------------------------
(* The monitor process: set_rate stores its three fields one by one.        *)

SetRate(r) ==
  /\ mpc = "idle" /\ rate' = r /\ mpc' = "tpt"
  /\ UNCHANGED <<clock, time, tpt, tpb, pc, call, loc, grants>>

SetTimePerToken ==
  /\ mpc = "tpt" /\ tpt' = rate /\ mpc' = "tpb"
  /\ UNCHANGED <<clock, time, rate, tpb, pc, call, loc, grants>>

SetTimePerBurst ==
  /\ mpc = "tpb" /\ tpb' = tpt /\ mpc' = "idle"
  /\ UNCHANGED <<clock, time, rate, tpt, pc, call, loc, grants>>

set_rate == (\E r \in Rates : SetRate(r)) \/ SetTimePerToken \/ SetTimePerBurst

-----------------------------------------------------------------------------
(* A posting thread.                                                        *)

Goto(t, label) == pc' = [pc EXCEPT ![t] = label]

\* Mutant of Frame: the tokens are compared with the burst of the whole array.
FrameOfWholeBurst(tokens, start) ==
  IF tokens <= burst_size
  THEN [bucket |-> start, iteration |-> 1, small_token |-> tokens, rem |-> 0,
        tokens |-> tokens, paid |-> 0]
  ELSE [bucket |-> start, iteration |-> tokens \div burst_size,
        small_token |-> burst_size, rem |-> tokens % burst_size,
        tokens |-> tokens, paid |-> 0]

\* The frame wait_for_token builds: one chunk when the tokens fit a bucket's
\* share of the burst, else whole shares and a remainder.
Frame(tokens, start) ==
  IF tokens <= small_burst_size
  THEN [bucket |-> start, iteration |-> 1, small_token |-> tokens, rem |-> 0,
        tokens |-> tokens, paid |-> 0]
  ELSE [bucket |-> start, iteration |-> tokens \div small_burst_size,
        small_token |-> small_burst_size, rem |-> tokens % small_burst_size,
        tokens |-> tokens, paid |-> 0]

\* The chunk that the loops of wait_for_token ask consume for.
Chunk(c) == IF c.iteration > 0 THEN c.small_token ELSE c.rem

\* The frame after consume granted a chunk.
Paid(c) ==
  IF c.iteration > 0
  THEN [c EXCEPT !.iteration = @ - 1, !.paid = @ + c.small_token]
  ELSE [c EXCEPT !.rem = 0, !.paid = @ + c.rem]

Finished(c) == c.iteration = 0 /\ c.rem = 0

WaitForToken(t, tokens, start) ==
  /\ pc[t] = "idle"
  /\ Len(grants[start]) < MaxGrants
  /\ call' = [call EXCEPT ![t] = Frame(tokens, start)]
  /\ Goto(t, "now")
  /\ UNCHANGED <<clock, tbVars, mpc, loc, grants>>

\* consume: now = get_now()
ReadNow(t) ==
  /\ pc[t] = "now"
  /\ loc' = [loc EXCEPT ![t].now = clock]
  /\ Goto(t, "tpt")
  /\ UNCHANGED <<clock, tbVars, mpc, call, grants>>

\* consume: time_needed = tokens * tb->time_per_token
ReadTimePerToken(t) ==
  /\ pc[t] = "tpt"
  /\ loc' = [loc EXCEPT ![t].price = tpt]
  /\ Goto(t, "tpb")
  /\ UNCHANGED <<clock, tbVars, mpc, call, grants>>

\* consume: min_time = now - tb->time_per_burst
ReadTimePerBurst(t) ==
  /\ pc[t] = "tpb"
  /\ loc' = [loc EXCEPT ![t].burst = tpb]
  /\ Goto(t, "time")
  /\ UNCHANGED <<clock, tbVars, mpc, call, grants>>

\* Mutant of ReadTime: min_time is not applied.
ReadTimeUnclamped(t) ==
  LET old == time[call[t].bucket] IN
  /\ pc[t] = "time"
  /\ loc' = [loc EXCEPT ![t].old = old, ![t].base = old]
  /\ Goto(t, "swap")
  /\ UNCHANGED <<clock, tbVars, mpc, call, grants>>

\* Mutant of ReadTime: the comparison with min_time is turned around.
ReadTimeTakesSmaller(t) ==
  LET old == time[call[t].bucket]
      min_time == MinTime(loc[t].now, loc[t].burst) IN
  /\ pc[t] = "time"
  /\ loc' = [loc EXCEPT ![t].old = old,
                        ![t].base = IF min_time < old THEN min_time ELSE old]
  /\ Goto(t, "swap")
  /\ UNCHANGED <<clock, tbVars, mpc, call, grants>>

\* consume: old_time = buckets[b].time; new_time = max(old_time, min_time)
ReadTime(t) ==
  LET old == time[call[t].bucket]
      min_time == MinTime(loc[t].now, loc[t].burst) IN
  /\ pc[t] = "time"
  /\ loc' = [loc EXCEPT ![t].old = old,
                        ![t].base = IF min_time > old THEN min_time ELSE old]
  /\ Goto(t, "swap")
  /\ UNCHANGED <<clock, tbVars, mpc, call, grants>>

NewTime(t) == loc[t].base + TimeNeeded(Chunk(call[t]), loc[t].price)

\* consume returns false; wait_for_token tries the next bucket.
Refused(t) ==
  /\ pc[t] = "swap"
  /\ NewTime(t) > loc[t].now
  /\ call' = [call EXCEPT ![t].bucket = (@ + 1) % NR_BUCKET]
  /\ loc' = [loc EXCEPT ![t] = NoLocal]
  /\ Goto(t, "now")
  /\ UNCHANGED <<clock, tbVars, mpc, grants>>

\* The state after a grant.
Grants(t) ==
  LET b == call[t].bucket IN
  /\ time' = [time EXCEPT ![b] = NewTime(t)]
  /\ grants' = [grants EXCEPT ![b] = Append(@,
       [lo |-> loc[t].base, hi |-> NewTime(t), tokens |-> Chunk(call[t]),
        now |-> loc[t].now, price |-> loc[t].price, burst |-> loc[t].burst,
        retried |-> loc[t].retried])]
  /\ call' = [call EXCEPT ![t] = Paid(@)]
  /\ Goto(t, IF Finished(Paid(call[t])) THEN "idle" ELSE "now")
  /\ loc' = [loc EXCEPT ![t] = NoLocal]
  /\ UNCHANGED <<clock, rate, tpt, tpb, mpc>>

\* Mutant of Granted: a plain store instead of the compare-and-swap.
GrantedByStore(t) ==
  /\ pc[t] = "swap"
  /\ NewTime(t) <= loc[t].now
  /\ Grants(t)

\* The swap succeeds and consume returns true.
Granted(t) ==
  /\ pc[t] = "swap"
  /\ NewTime(t) <= loc[t].now
  /\ time[call[t].bucket] = loc[t].old
  /\ Grants(t)

\* The swap fails: another thread moved the bucket in between.
SwapFailed(t) ==
  /\ pc[t] = "swap"
  /\ NewTime(t) <= loc[t].now
  /\ time[call[t].bucket] # loc[t].old
  /\ Goto(t, "reread")
  /\ UNCHANGED <<clock, tbVars, mpc, call, loc, grants>>

\* Mutant of Reread: new_time is not set back to old_time, so that the loop adds
\* time_needed to the refused value.
RereadKeepsNewTime(t) ==
  LET old == time[call[t].bucket] IN
  /\ pc[t] = "reread"
  /\ loc' = [loc EXCEPT ![t].old = old, ![t].base = NewTime(t),
                        ![t].retried = TRUE]
  /\ Goto(t, "swap")
  /\ UNCHANGED <<clock, tbVars, mpc, call, grants>>

\* consume: old_time = buckets[b].time; new_time = old_time (min_time is not
\* applied again).
Reread(t) ==
  LET old == time[call[t].bucket] IN
  /\ pc[t] = "reread"
  /\ loc' = [loc EXCEPT ![t].old = old, ![t].base = old, ![t].retried = TRUE]
  /\ Goto(t, "swap")
  /\ UNCHANGED <<clock, tbVars, mpc, call, grants>>

consume(t) ==
  \/ ReadNow(t) \/ ReadTimePerToken(t) \/ ReadTimePerBurst(t) \/ ReadTime(t)
  \/ Refused(t) \/ Granted(t) \/ SwapFailed(t) \/ Reread(t)

Tick ==
  /\ clock < MaxClock
  /\ clock' = clock + 1
  /\ UNCHANGED <<tbVars, mpc, pc, call, loc, grants>>

Next ==
  \/ Tick
  \/ set_rate
  \/ \E t \in Threads :
       \/ \E n \in Sizes, b \in Buckets : WaitForToken(t, n, b)
       \/ consume(t)

Spec == Init /\ [][Next]_vars

-----------------------------------------------------------------------------
(* Properties.                                                              *)

\* No two successful calls of consume spend the same stretch of a bucket's
\* virtual time, whatever the interleaving of their loads and swaps: each
\* starts where the earlier ones ended, or later.
NoDoubleSpend ==
  \A b \in Buckets : \A i, j \in DOMAIN grants[b] :
    i < j => grants[b][i].hi <= grants[b][j].lo

\* consume never spends time that its caller's clock had not reached yet.
NothingFromTheFuture ==
  \A b \in Buckets : \A i \in DOMAIN grants[b] :
    grants[b][i].hi <= grants[b][i].now /\ grants[b][i].now <= clock

\* consume never spends time from before one burst ahead of the bucket's
\* initialisation, not even when a failed swap made it skip the min_time clamp.
NothingFromBeforeInit ==
  \A b \in Buckets : \A i \in DOMAIN grants[b] :
    grants[b][i].lo >= Boot - MaxBurstTime

\* The virtual time that tokens cost at rate r: those of the first n of the
\* grants g, counting the grants whose index is in S.
CostBy(g, S, r) ==
  LET sum[n \in 0 .. Len(g)] ==
        IF n = 0 THEN 0
        ELSE IF n \in S THEN sum[n - 1] + TimeNeeded(g[n].tokens, r) ELSE sum[n - 1]
  IN  sum

Cost(b, S, r) == CostBy(grants[b], S, r)[Len(grants[b])]

\* The grants of bucket b that were charged at rate r or a lower one.  A call
\* that read time_per_token of rate 0 was charged nothing.
ChargedUpTo(b, r) == {i \in DOMAIN grants[b] : grants[b][i].price \in 1 .. r}

\* Since its initialisation a bucket granted no more tokens at rates up to r
\* than r allows in the time that has passed and one burst (a grant costs a
\* whole number of ticks): consume and wait_for_token enforce the rate in the
\* long run, in spite of every race between them.  A call that reads
\* time_per_burst of rate 0 is granted nothing; one that reads time_per_token of
\* rate 0 and time_per_burst of another, in a race with set_rate, pays nothing.
LongRunRate ==
  \A b \in Buckets :
    /\ \A r \in Rates \ {0} : Cost(b, ChargedUpTo(b, r), r) <= clock - Boot + MaxBurstTime
    /\ \A i \in DOMAIN grants[b] : grants[b][i].burst # 0

\* The grants that consume made without a failed swap respect the burst in
\* every window of time: at rates up to r no more tokens than r allows in the
\* window and one burst.
FirstTryBurst ==
  \A b \in Buckets, r \in Rates \ {0} : \A s, e \in Boot .. clock :
    LET firsts == {i \in ChargedUpTo(b, r) :
                     ~grants[b][i].retried /\ grants[b][i].now \in s .. e}
    IN  s <= e => Cost(b, firsts, r) <= e - s + MaxBurstTime

\* Its inductive form: a first try starts at min_time or later.
ClampedFirst ==
  /\ \A t \in Threads : pc[t] = "swap" /\ ~loc[t].retried =>
       loc[t].base >= MinTime(loc[t].now, loc[t].burst)
  /\ \A b \in Buckets : \A i \in DOMAIN grants[b] : ~grants[b][i].retried =>
       grants[b][i].lo >= MinTime(grants[b][i].now, grants[b][i].burst)

\* What a grant was charged, and that a call that goes on after a failed swap,
\* like a grant, was made at a positive time_per_burst.
Priced ==
  /\ \A t \in Threads : pc[t] \notin {"swap", "reread"} => ~loc[t].retried
  /\ \A t \in Threads : pc[t] = "reread" \/ (pc[t] = "swap" /\ loc[t].retried) =>
       loc[t].burst # 0
  /\ \A b \in Buckets : \A i \in DOMAIN grants[b] :
       LET g == grants[b][i] IN
       g.hi = g.lo + TimeNeeded(g.tokens, g.price) /\ g.burst # 0

\* A running wait_for_token has paid for, or still owes, exactly the tokens it
\* was called with; when it returns it has paid for all of them.
PaysExactly ==
  \A t \in Threads :
    LET c == call[t] IN
    /\ c.paid + c.iteration * c.small_token + c.rem = c.tokens
    /\ pc[t] = "idle" => c.paid = c.tokens

\* A chunk always fits a full bucket: when consume read both rate fields of one
\* positive rate and found the bucket a whole burst behind, it grants, so that
\* wait_for_token never waits for more than a bucket can hold.
FullBucketGrants ==
  \A t \in Threads :
    LET l == loc[t] IN
    /\ pc[t] = "swap" /\ l.burst # 0 /\ l.old < l.base
    /\ l.price = l.burst
    => NewTime(t) <= l.now

\* Its inductive form: a frame's chunks fit a bucket's share of the burst, and a
\* thread that starts after the bucket's time starts at min_time.
ChunksFit ==
  \A t \in Threads :
    LET l == loc[t] IN
    /\ call[t].small_token <= small_burst_size /\ call[t].rem <= small_burst_size
    /\ pc[t] = "swap" /\ l.old < l.base => l.base = MinTime(l.now, l.burst)

\* The stretches of virtual time that consume granted, bucket by bucket.
Stretches ==
  [b \in Buckets |->
     [i \in 1 .. Len(grants[b]) |-> <<grants[b][i].lo, grants[b][i].hi>>]]

Limiter == INSTANCE RateLimiter WITH spent <- Stretches

\* The lock-free consume, with its stale clock reads, its swaps and its
\* re-reads, behaves like a limiter that grants in one step.
ImplementsLimiter == Limiter!Spec

\* A bucket's virtual time never goes back.
TimeMonotone == [][\A b \in Buckets : time'[b] >= time[b]]_time

-----------------------------------------------------------------------------
(* The inductive invariant behind the safety properties.                    *)

\* What a thread inside consume knows about the bucket it is trying.
ThreadOK(t) ==
  LET l == loc[t]  b == call[t].bucket IN
  /\ pc[t] \in {"tpt", "tpb", "time", "swap", "reread"} =>
       Boot <= l.now /\ l.now <= clock
  /\ pc[t] = "swap" =>
       l.old <= time[b] /\ l.old <= l.base /\ Boot - MaxBurstTime <= l.base
  /\ pc[t] = "reread" => l.old < time[b]

ThreadInv == \A t \in Threads : ThreadOK(t)

\* A bucket's time is where its last grant ended.
BucketInv ==
  \A b \in Buckets :
    /\ grants[b] = << >> => time[b] = 0
    /\ grants[b] # << >> => time[b] = grants[b][Len(grants[b])].hi
    /\ time[b] > 0 => time[b] >= Boot - MaxBurstTime
    /\ \A i \in DOMAIN grants[b] :
         grants[b][i].lo <= grants[b][i].hi /\ grants[b][i].hi <= time[b]

IInv ==
  /\ TypeOK /\ ThreadInv /\ BucketInv
  /\ NoDoubleSpend /\ NothingFromTheFuture /\ NothingFromBeforeInit
=============================================================================
