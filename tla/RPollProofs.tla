---------------------------- MODULE RPollProofs ----------------------------
(***************************************************************************)
(* The gate of rpoll for any number of threads, calls and kinds of events: *)
(* pollcnt is exact up to the places that timeouts keep, and the gate is   *)
(* closed only while somebody has still to leave.                          *)
(***************************************************************************)
EXTENDS RPoll, FiniteSetTheorems, TLAPS

\* The time a leaf may take.
USE SMTT(30), ZenonT(30)

\* The threads inside are finitely many, so that their number is a natural.
LEMMA InsideFinite ==
  ASSUME TypeOK
  PROVE  IsFiniteSet(Inside) /\ Cardinality(Inside) \in Nat
<1>1. Inside \subseteq Threads
  BY DEF Inside
<1>2. IsFiniteSet(Inside)
  BY <1>1, ThreadsAssumption, FS_Subset
<1> QED BY <1>2, FS_CardinalityType

\* A thread that moves about on one side of the gate does not change who is in.
LEMMA StaysPut ==
  ASSUME TypeOK, NEW t \in Threads, NEW l, pc' = [pc EXCEPT ![t] = l],
         t \in Inside <=> l \in {"asleep", "woken", "leaving"}
  PROVE  Inside' = Inside
BY DEF Inside, TypeOK

\* rs_poll_enter adds its thread to those inside.
LEMMA GoesIn ==
  ASSUME TypeOK, NEW t \in Threads, pc[t] = "enter",
         pc' = [pc EXCEPT ![t] = "asleep"]
  PROVE  Cardinality(Inside') = Cardinality(Inside) + 1
<1>1. Inside' = Inside \cup {t} /\ t \notin Inside
  BY DEF Inside, TypeOK
<1> QED BY <1>1, InsideFinite, FS_AddElement

\* rs_poll_exit and rs_poll_stop take their thread from those inside.
LEMMA GoesOut ==
  ASSUME TypeOK, NEW t \in Inside, NEW l, pc' = [pc EXCEPT ![t] = l],
         l \notin {"asleep", "woken", "leaving"}
  PROVE  Cardinality(Inside') = Cardinality(Inside) - 1
<1>1. Inside' = Inside \ {t}
  BY DEF Inside, TypeOK
<1> QED BY <1>1, InsideFinite, FS_RemoveElement, ZenonT(30)

\* Every step keeps the variables in their types; pollcnt, which rs_poll_exit
\* and rs_poll_stop lower, is not zero there, because its caller is counted.
LEMMA TypeStep ==
  ASSUME GateInv, [Next]_vars
  PROVE  TypeOK'
<1> USE WantsAssumption, ThreadsAssumption
<1>0. TypeOK BY DEF GateInv
<1>1. CASE UNCHANGED vars
  BY <1>0, <1>1 DEF TypeOK, vars, gate, socket
<1>2. ASSUME NEW t \in Threads, Step(t)
      PROVE  TypeOK'
  <2>1. t \in Inside => pollcnt - 1 \in Nat
    <3>1. SUFFICES ASSUME t \in Inside PROVE pollcnt - 1 \in Nat
      OBVIOUS
    <3>2. Cardinality(Inside) # 0
      BY <3>1, <1>0, InsideFinite, FS_EmptySet
    <3> QED BY <3>2, <1>0, InsideFinite DEF GateInv, TypeOK
  <2>2. CASE rs_poll_check(t)
    BY <1>0, <2>2 DEF TypeOK, rs_poll_check, Process, PolledFor, Goto, gate
  <2>3. CASE rs_poll_arm(t)
    BY <1>0, <2>3 DEF TypeOK, rs_poll_arm, Process, PolledFor, Goto, gate
  <2>4. CASE rs_poll_enter(t)
    BY <1>0, <2>4 DEF TypeOK, rs_poll_enter, Goto, socket
  <2>5. CASE Wakes(t)
    BY <1>0, <2>5 DEF TypeOK, Wakes, Goto, gate, socket
  <2>6. CASE rs_poll_exit(t)
    <3>1. pollcnt' \in Nat /\ suspendpoll' \in BOOLEAN /\ signals' \in Nat
      <4>1. CASE pollcnt = 1
        <5>1. /\ pollcnt' = 0 /\ suspendpoll' = FALSE
              /\ signals' = IF signals > 0 THEN signals - 1 ELSE 0
          BY <2>6, <4>1 DEF rs_poll_exit, OpenGate
        <5>2. signals' \in Nat
          BY <1>0, <5>1 DEF TypeOK
        <5> QED BY <5>1, <5>2, ZenonT(30)
      <4>2. CASE pollcnt # 1
        BY <1>0, <2>1, <2>6, <4>2 DEF TypeOK, rs_poll_exit, Inside
      <4> QED BY <4>1, <4>2
    <3> QED BY <1>0, <2>6, <3>1 DEF TypeOK, rs_poll_exit, Goto, socket
  <2>7. CASE rs_poll_events(t)
    <3>1. cq_armed' \in BOOLEAN /\ fired' \in BOOLEAN
      BY <2>7 DEF rs_poll_events
    <3>2. found' \in [Threads -> BOOLEAN]
      BY <1>0, <2>7 DEF TypeOK, rs_poll_events, Ready
    <3> QED BY <1>0, <2>7, <3>1, <3>2 DEF TypeOK, rs_poll_events, Process, PolledFor, Goto, gate
  <2>8. CASE rs_poll_stop(t)
    <3>1. pollcnt' \in Nat /\ suspendpoll' \in BOOLEAN /\ signals' \in Nat
      <4>1. CASE pollcnt = 1
        <5>1. /\ pollcnt' = 0 /\ suspendpoll' = FALSE
              /\ signals' = IF signals > 0 THEN signals - 1 ELSE 0
          BY <2>8, <4>1 DEF rs_poll_stop, OpenGate
        <5>2. signals' \in Nat
          BY <1>0, <5>1 DEF TypeOK
        <5> QED BY <5>1, <5>2, ZenonT(30)
      <4>2. CASE pollcnt # 1 /\ suspendpoll
        BY <1>0, <2>1, <2>8, <4>2 DEF TypeOK, rs_poll_stop, Inside
      <4>3. CASE pollcnt # 1 /\ ~suspendpoll
        BY <1>0, <2>1, <2>8, <4>3 DEF TypeOK, rs_poll_stop, CloseGate, Inside
      <4> QED BY <4>1, <4>2, <4>3
    <3> QED BY <1>0, <2>8, <3>1 DEF TypeOK, rs_poll_stop, Goto, socket
  <2> QED BY <1>2, <2>2, <2>3, <2>4, <2>5, <2>6, <2>7, <2>8 DEF Step
<1>3. ASSUME NEW k \in Kinds, Complete(k)
      PROVE  TypeOK'
  BY <1>0, <1>3 DEF TypeOK, Complete, gate
<1>4. CASE rs_handle_cm_event
  BY <1>0, <1>4 DEF TypeOK, rs_handle_cm_event, gate
<1>5. CASE rs_poll_signal
  <2>1. suspendpoll' \in BOOLEAN /\ signals' \in Nat
    <3>1. CASE pollcnt > 0 /\ ~suspendpoll
      BY <1>0, <1>5, <3>1 DEF TypeOK, rs_poll_signal, CloseGate
    <3>2. CASE ~(pollcnt > 0 /\ ~suspendpoll)
      BY <1>0, <1>5, <3>2 DEF TypeOK, rs_poll_signal
    <3> QED BY <3>1, <3>2
  <2> QED BY <1>0, <1>5, <2>1, ZenonT(30) DEF TypeOK, rs_poll_signal, socket
<1> QED BY <1>1, <1>2, <1>3, <1>4, <1>5 DEF Next

\* The gate after a step of a thread.
LEMMA ThreadStep ==
  ASSUME GateInv, NEW t \in Threads, Step(t)
  PROVE  /\ pollcnt' = Cardinality(Inside') + leaked'
         /\ signals' = IF suspendpoll' THEN 1 ELSE 0
         /\ suspendpoll' => pollcnt' > 0
<1>0. /\ TypeOK /\ Cardinality(Inside) \in Nat
      /\ pollcnt = Cardinality(Inside) + leaked
      /\ signals = IF suspendpoll THEN 1 ELSE 0
      /\ suspendpoll => pollcnt > 0
      /\ pollcnt \in Nat /\ leaked \in Nat
  BY InsideFinite DEF GateInv, TypeOK
<1>1. CASE rs_poll_check(t)
  <2>1. Inside' = Inside
    BY <1>0, <1>1, StaysPut DEF rs_poll_check, Goto, Inside
  <2> QED BY <1>0, <1>1, <2>1 DEF rs_poll_check, gate
<1>2. CASE rs_poll_arm(t)
  <2>1. Inside' = Inside
    BY <1>0, <1>2, StaysPut DEF rs_poll_arm, Goto, Inside
  <2> QED BY <1>0, <1>2, <2>1 DEF rs_poll_arm, gate
<1>3. CASE rs_poll_enter(t)
  <2>1. CASE suspendpoll /\ Goto(t, "arm") /\ UNCHANGED <<pollcnt, leaked>>
    <3>1. Inside' = Inside
      BY <1>0, <1>3, <2>1, StaysPut DEF rs_poll_enter, Goto, Inside
    <3> QED BY <1>0, <1>3, <2>1, <3>1 DEF rs_poll_enter
  <2>2. CASE ~suspendpoll /\ Goto(t, "asleep") /\ pollcnt' = pollcnt + 1 /\ UNCHANGED leaked
    <3>1. Cardinality(Inside') = Cardinality(Inside) + 1
      BY <1>0, <1>3, <2>2, GoesIn, ZenonT(30) DEF rs_poll_enter, Goto
    <3> QED BY <1>0, <1>3, <2>2, <3>1 DEF rs_poll_enter
  <2>3. CASE /\ ~suspendpoll /\ t \in Timed
             /\ Goto(t, "idle") /\ pollcnt' = pollcnt + 1 /\ leaked' = leaked + 1
    <3>1. Inside' = Inside
      BY <1>0, <1>3, <2>3, StaysPut DEF rs_poll_enter, Goto, Inside
    <3> QED BY <1>0, <1>3, <2>3, <3>1 DEF rs_poll_enter
  <2> QED BY <1>3, <2>1, <2>2, <2>3 DEF rs_poll_enter
<1>4. CASE Wakes(t)
  <2>1. Inside' = Inside
    BY <1>0, <1>4, StaysPut DEF Wakes, Goto, Inside
  <2> QED BY <1>0, <1>4, <2>1 DEF Wakes, gate
<1>5. CASE rs_poll_exit(t)
  <2>1. Cardinality(Inside') = Cardinality(Inside) - 1
    BY <1>0, <1>5, GoesOut, ZenonT(30) DEF rs_poll_exit, Goto, Inside
  <2> QED BY <1>0, <1>5, <2>1 DEF rs_poll_exit, OpenGate
<1>6. CASE rs_poll_events(t)
  <2>1. Inside' = Inside
    BY <1>0, <1>6, StaysPut DEF rs_poll_events, Goto, Inside
  <2> QED BY <1>0, <1>6, <2>1 DEF rs_poll_events, gate
<1>7. CASE rs_poll_stop(t)
  <2>1. Cardinality(Inside') = Cardinality(Inside) - 1
    <3> DEFINE l == IF found[t] THEN "idle" ELSE "arm"
    <3>1. t \in Inside /\ pc' = [pc EXCEPT ![t] = l]
      BY <1>7 DEF rs_poll_stop, Goto, Inside
    <3>2. l \notin {"asleep", "woken", "leaving"}
      OBVIOUS
    <3> HIDE DEF l
    <3> QED BY <1>0, <3>1, <3>2, GoesOut, ZenonT(30)
  <2>2. leaked' = leaked
    BY <1>7 DEF rs_poll_stop
  <2>3. CASE pollcnt = 1
    <3>1. pollcnt' = 0 /\ suspendpoll' = FALSE /\ signals' = 0
      BY <1>0, <1>7, <2>3 DEF rs_poll_stop, OpenGate
    <3> QED BY <1>0, <2>1, <2>2, <2>3, <3>1
  <2>4. CASE pollcnt # 1 /\ suspendpoll
    <3>1. pollcnt' = pollcnt - 1 /\ UNCHANGED <<suspendpoll, signals>>
      BY <1>7, <2>4 DEF rs_poll_stop
    <3> QED BY <1>0, <2>1, <2>2, <2>4, <3>1
  <2>5. CASE pollcnt # 1 /\ ~suspendpoll
    <3>1. pollcnt' = pollcnt - 1 /\ suspendpoll' = TRUE /\ signals' = 1
      BY <1>0, <1>7, <2>5 DEF rs_poll_stop, CloseGate
    <3>2. pollcnt > 0
      BY <1>0, <1>7, InsideFinite, FS_EmptySet DEF rs_poll_stop, Inside
    <3> QED BY <1>0, <2>1, <2>2, <2>5, <3>1, <3>2
  <2> QED BY <2>3, <2>4, <2>5
<1> QED BY <1>1, <1>2, <1>3, <1>4, <1>5, <1>6, <1>7 DEF Step

\* The gate is consistent in every reachable state, for any threads: pollcnt
\* counts those inside and the leaked places, the signal is pending exactly
\* while the gate is closed, and a closed gate has somebody counted.
THEOREM GateConsistent == Spec => []GateInv
<1>1. Init => GateInv
  <2> SUFFICES ASSUME Init PROVE GateInv
    OBVIOUS
  <2>1. Inside = {}
    BY DEF Init, Inside
  <2>2. TypeOK
    <3>1. calls \in [Threads -> 0..MaxCalls]
      BY ThreadsAssumption DEF Init
    <3> QED BY <3>1, ZenonT(30) DEF Init, TypeOK
  <2> QED BY <2>1, <2>2, FS_EmptySet DEF Init, GateInv
<1>2. GateInv /\ [Next]_vars => GateInv'
  <2> SUFFICES ASSUME GateInv, [Next]_vars PROVE GateInv'
    OBVIOUS
  <2>1. TypeOK'
    BY TypeStep
  <2>2. ASSUME NEW t \in Threads, Step(t) PROVE GateInv'
    BY <2>1, <2>2, ThreadStep DEF GateInv
  <2>3. CASE UNCHANGED pc /\ UNCHANGED <<pollcnt, leaked>>
             /\ UNCHANGED <<suspendpoll, signals>>
    BY <2>1, <2>3 DEF GateInv, Inside
  <2>4. CASE rs_poll_signal
    BY <2>1, <2>4 DEF GateInv, TypeOK, Inside, rs_poll_signal, CloseGate
  <2>5. ASSUME NEW k \in Kinds, Complete(k) PROVE GateInv'
    BY <2>3, <2>5 DEF gate, Complete
  <2>6. CASE rs_handle_cm_event
    BY <2>3, <2>6 DEF gate, rs_handle_cm_event
  <2>7. CASE UNCHANGED vars
    BY <2>3, <2>7 DEF vars, gate
  <2> QED BY <2>2, <2>4, <2>5, <2>6, <2>7 DEF Next
<1> QED BY <1>1, <1>2, PTL DEF Spec

\* The state of all sockets settles, as the comment on rs_poll_enter asks: as
\* long as no timeout kept its place, a closed gate has a thread that opens it.
THEOREM AlwaysSettles == Spec => []Settles
<1>1. GateInv => Settles
  <2> SUFFICES ASSUME GateInv, suspendpoll, leaked = 0, Inside = {} PROVE FALSE
    BY DEF Settles
  <2> QED BY FS_EmptySet DEF GateInv, TypeOK
<1> QED BY <1>1, GateConsistent, PTL

-----------------------------------------------------------------------------
(* Sleepers.                                                                *)

\* When one of two threads inside leaves, it is not the last.
LEMMA NotTheLast ==
  ASSUME GateInv, NEW t \in Inside, NEW s \in Inside, s # t
  PROVE  pollcnt > 1
<1>1. IsFiniteSet(Inside) /\ Cardinality(Inside) \in Nat /\ leaked \in Nat
  BY InsideFinite DEF GateInv, TypeOK
<1>2. IsFiniteSet(Inside \ {t}) /\ Cardinality(Inside \ {t}) = Cardinality(Inside) - 1
  BY <1>1, FS_RemoveElement
<1>3. Cardinality(Inside \ {t}) \in Nat /\ Cardinality(Inside \ {t}) # 0
  BY <1>2, FS_EmptySet, FS_CardinalityType
<1> QED BY <1>1, <1>2, <1>3 DEF GateInv

\* While the gate is open or closed, a reason that nobody takes away stays.
LEMMA ReasonStays ==
  ASSUME TypeOK, NEW s \in Threads, NEW t \in Threads, pc[t] \notin {"woken", "leaving"},
         NEW l, pc' = [pc EXCEPT ![t] = l], HasReason(s),
         fired => fired', signals' = signals, svc' = svc, s \in late => s \in late'
  PROVE  HasReason(s)'
<1>1. CASE \E u \in Threads : pc[u] \in {"woken", "leaving"}
  BY <1>1 DEF HasReason, TypeOK
<1>2. CASE fired \/ signals > 0 \/ svc \/ s \in late
  BY <1>2 DEF HasReason
<1> QED BY <1>1, <1>2 DEF HasReason

\* A thread that polls the socket for itself does not make it ready for one that
\* sleeps without a reason: nothing was there to poll.
LEMMA QuietPoll ==
  ASSUME SleepInv, NEW s \in Threads, ~HasReason(s), cq_armed, ~Ready(s, state),
         NEW t \in Threads, NEW used \in BOOLEAN, Process(t, used)
  PROVE  ~Ready(s, state')
<1>1. cq = {}
  BY DEF SleepInv, HasReason
<1>2. state' \subseteq state
  BY <1>1 DEF Process, PolledFor
<1> QED BY <1>2 DEF Ready

\* What a step of t leaves to another thread s that sleeps on.
LEMMA SleeperStep ==
  ASSUME SleepInv, NEW t \in Threads, Step(t),
         NEW s \in Threads, s # t, pc[s] = "asleep"
  PROVE  HasReason(s)' \/ (cq_armed' /\ ~Ready(s, state'))
<1>0. /\ GateInv /\ TypeOK
      /\ HasReason(s) \/ (cq_armed /\ ~Ready(s, state))
      /\ s \in Inside
  BY DEF SleepInv, GateInv, Inside
<1>r. \A r : Ready(t, r) \in BOOLEAN
  BY DEF Ready
<1>1. CASE rs_poll_check(t)
  <2>1. CASE HasReason(s)
    BY <1>0, <1>1, <2>1, ReasonStays, ZenonT(30) DEF rs_poll_check, Goto, gate
  <2>2. CASE ~HasReason(s)
    BY <1>0, <1>1, <1>r, <2>2, QuietPoll DEF rs_poll_check
  <2> QED BY <2>1, <2>2
<1>2. CASE rs_poll_arm(t)
  <2>1. CASE HasReason(s)
    BY <1>0, <1>2, <2>1, ReasonStays, ZenonT(30) DEF rs_poll_arm, Goto, gate
  <2>2. CASE ~HasReason(s)
    BY <1>0, <1>2, <1>r, <2>2, QuietPoll DEF rs_poll_arm
  <2> QED BY <2>1, <2>2
<1>3. CASE rs_poll_enter(t)
  <2>1. /\ pc[t] = "enter" /\ UNCHANGED <<fired, signals, svc, cq_armed, state>>
        /\ s \in late => s \in late'
    BY <1>3 DEF rs_poll_enter, socket
  <2>2. \E l : pc' = [pc EXCEPT ![t] = l]
    BY <1>3 DEF rs_poll_enter, Goto
  <2> QED BY <1>0, <2>1, <2>2, ReasonStays, ZenonT(30)
<1>4. CASE Wakes(t)
  BY <1>0, <1>4 DEF Wakes, Goto, HasReason, TypeOK
<1>5. CASE rs_poll_exit(t)
  <2>1. pollcnt > 1 /\ pollcnt \in Nat
    BY <1>0, <1>5, NotTheLast DEF rs_poll_exit, Inside, TypeOK
  <2>2. UNCHANGED <<signals, fired, svc, late, cq_armed, state>>
    BY <1>5, <2>1 DEF rs_poll_exit, socket
  <2> QED BY <1>0, <1>5, <2>2, ReasonStays, ZenonT(30) DEF rs_poll_exit, Goto
<1>6. CASE rs_poll_events(t)
  BY <1>0, <1>6 DEF rs_poll_events, Goto, HasReason, TypeOK
<1>7. CASE rs_poll_stop(t)
  <2>1. pollcnt > 1 /\ pollcnt \in Nat
    BY <1>0, <1>7, NotTheLast DEF rs_poll_stop, Inside, TypeOK
  <2>2. signals' > 0
    BY <1>0, <1>7, <2>1 DEF rs_poll_stop, CloseGate, GateInv, TypeOK
  <2> QED BY <2>2 DEF HasReason
<1> QED BY <1>1, <1>2, <1>3, <1>4, <1>5, <1>6, <1>7 DEF Step

\* A thread that falls asleep does so on an armed socket that is not ready for
\* it, or is late.
LEMMA FallsAsleep ==
  ASSUME SleepInv, NEW t \in Threads, Step(t), pc'[t] = "asleep"
  PROVE  HasReason(t)' \/ (cq_armed' /\ ~Ready(t, state'))
<1>1. rs_poll_enter(t)
  BY DEF SleepInv, GateInv, TypeOK, Step, Goto, rs_poll_check, rs_poll_arm, Wakes,
         rs_poll_exit, rs_poll_events, rs_poll_stop
<1> QED BY <1>1 DEF rs_poll_enter, socket, HasReason

\* Every step keeps the event of an armed channel with unpolled completions.
LEMMA EventStays ==
  ASSUME SleepInv, [Next]_vars
  PROVE  cq' # {} /\ cq_armed' => fired'
<1>0. cq # {} /\ cq_armed => fired
  BY DEF SleepInv
<1>1. CASE UNCHANGED vars
  BY <1>0, <1>1 DEF vars, socket
<1>2. ASSUME NEW t \in Threads, Step(t) PROVE cq' # {} /\ cq_armed' => fired'
  BY <1>0, <1>2, ZenonT(30) DEF Step, Process, socket, rs_poll_check, rs_poll_arm, rs_poll_enter,
       Wakes, rs_poll_exit, rs_poll_events, rs_poll_stop
<1>3. ASSUME NEW k \in Kinds, Complete(k) PROVE cq' # {} /\ cq_armed' => fired'
  BY <1>0, <1>3, ZenonT(30) DEF Complete
<1>4. CASE rs_handle_cm_event \/ rs_poll_signal
  BY <1>0, <1>4, ZenonT(30) DEF rs_handle_cm_event, rs_poll_signal, socket
<1> QED BY <1>1, <1>2, <1>3, <1>4 DEF Next

\* No sleeper is forgotten: a thread whose socket becomes ready while it sleeps
\* in poll finds an event or the signal, or somebody who will signal, whatever
\* the other threads, the hardware and the connection service do.
THEOREM NobodyForgotten == Spec => []NoForgottenSleeper
<1>1. Init /\ GateInv => SleepInv
  BY DEF Init, SleepInv
<1>2. SleepInv /\ GateInv' /\ [Next]_vars => SleepInv'
  <2> SUFFICES ASSUME SleepInv, GateInv', [Next]_vars, NEW s \in Threads, pc'[s] = "asleep"
               PROVE  HasReason(s)' \/ (cq_armed' /\ ~Ready(s, state'))
    BY EventStays DEF SleepInv, Ready
  <2>0. GateInv /\ TypeOK
    BY DEF SleepInv, GateInv
  <2>1. ASSUME NEW t \in Threads, Step(t)
        PROVE  HasReason(s)' \/ (cq_armed' /\ ~Ready(s, state'))
    <3>1. CASE s = t
      BY <2>1, <3>1, FallsAsleep
    <3>2. CASE s # t
      <4>1. \E l : pc' = [pc EXCEPT ![t] = l]
        BY <2>1 DEF Step, Goto, rs_poll_check, rs_poll_arm, rs_poll_enter, Wakes,
             rs_poll_exit, rs_poll_events, rs_poll_stop
      <4>2. pc[s] = "asleep"
        BY <2>0, <3>2, <4>1 DEF TypeOK
      <4> QED BY <2>1, <3>2, <4>2, SleeperStep
    <3> QED BY <3>1, <3>2
  <2>2. ASSUME NEW k \in Kinds, Complete(k)
        PROVE  HasReason(s)' \/ (cq_armed' /\ ~Ready(s, state'))
    <3>1. UNCHANGED <<pc, signals, svc, late, cq_armed, state>> /\ (fired => fired')
      BY <2>2, ZenonT(30) DEF Complete, gate
    <3>2. pc[s] = "asleep" /\ (HasReason(s) \/ (cq_armed /\ ~Ready(s, state)))
      BY <3>1 DEF SleepInv
    <3> QED BY <3>1, <3>2 DEF HasReason
  <2>3. CASE rs_handle_cm_event
    BY <2>3 DEF rs_handle_cm_event, HasReason
  <2>4. CASE rs_poll_signal
    <3>1. UNCHANGED <<pc, pollcnt>>
      BY <2>4 DEF rs_poll_signal
    <3>2. s \in Inside
      BY <3>1 DEF Inside
    <3>3. pollcnt > 0 /\ pollcnt \in Nat
      BY <2>0, <3>2, InsideFinite, FS_EmptySet DEF GateInv, TypeOK
    <3>4. signals' > 0
      BY <2>0, <2>4, <3>3 DEF rs_poll_signal, CloseGate, GateInv, TypeOK
    <3> QED BY <3>4 DEF HasReason
  <2>5. CASE UNCHANGED vars
    BY <2>5 DEF vars, gate, socket, SleepInv, HasReason
  <2> QED BY <2>1, <2>2, <2>3, <2>4, <2>5 DEF Next
<1>3. SleepInv => NoForgottenSleeper
  <2> SUFFICES ASSUME SleepInv, NEW t \in Threads, pc[t] = "asleep", Ready(t, state \cup cq),
                      ~HasReason(t)
               PROVE  FALSE
    BY DEF NoForgottenSleeper
  <2>1. cq_armed /\ ~Ready(t, state) /\ ~fired
    BY DEF SleepInv, HasReason
  <2>2. cq = {}
    BY <2>1 DEF SleepInv
  <2> QED BY <2>1, <2>2 DEF Ready
<1> QED BY <1>1, <1>2, <1>3, GateConsistent, PTL DEF Spec
=============================================================================
