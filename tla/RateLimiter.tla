---------------------------- MODULE RateLimiter ----------------------------
(***************************************************************************)
(* What a token bucket promises: every grant takes a stretch lo..hi of its *)
(* bucket's time that lies after all earlier grants, not before one burst  *)
(* ahead of the start and not after the present.  A grant is one step.     *)
(***************************************************************************)
EXTENDS Integers, Sequences

CONSTANTS
  Buckets,      \* the buckets
  Boot,         \* the clock at the start
  MaxClock,     \* bound on the clock
  MaxBurstTime  \* the burst, as a stretch of time

VARIABLES
  clock,        \* the present
  time,         \* per bucket, the end of its last grant
  spent         \* per bucket, the stretches granted, in order

vars == <<clock, time, spent>>

Init ==
  /\ clock = Boot
  /\ time = [b \in Buckets |-> 0]
  /\ spent = [b \in Buckets |-> << >>]

Tick == clock < MaxClock /\ clock' = clock + 1 /\ UNCHANGED <<time, spent>>

Grant(b) ==
  /\ \E lo, hi \in 0 .. MaxClock :
       /\ time[b] <= lo /\ Boot - MaxBurstTime <= lo
       /\ lo <= hi /\ hi <= clock
       /\ time' = [time EXCEPT ![b] = hi]
       /\ spent' = [spent EXCEPT ![b] = Append(@, <<lo, hi>>)]
  /\ UNCHANGED clock

Next == Tick \/ \E b \in Buckets : Grant(b)

Spec == Init /\ [][Next]_vars
=============================================================================
