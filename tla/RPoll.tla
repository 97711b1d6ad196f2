-------------------------------- MODULE RPoll --------------------------------
(***************************************************************************)
(* rpoll (librdmacm/rsocket.c): threads that sleep in poll(2) on the       *)
(* completion channel of one rsocket and on the eventfd pollsignal.  The   *)
(* event of the channel is read by one thread only, and what it announces  *)
(* may be what another waits for, so threads enter and leave poll through  *)
(* a gate: pollcnt counts those inside, and a thread that saw something    *)
(* closes the gate (suspendpoll) and signals until all have left.          *)
(***************************************************************************)
EXTENDS Naturals, FiniteSets

CONSTANTS
    Threads,    \* the threads that call rpoll
    Timed,      \* those that pass a timeout
    Wants,      \* [Threads -> SUBSET Kinds]: the events they ask for
    Kinds,      \* what a completion can make the socket ready for
    MaxCalls    \* bound: rpoll calls of each thread

VARIABLES
    pc,         \* [Threads -> where the thread is in rpoll]
    saw,        \* [Threads -> BOOLEAN]: poll(2) reported the channel
    found,      \* [Threads -> BOOLEAN]: rs_poll_events found what is wanted
    calls,      \* [Threads -> Nat]: calls made
    pollcnt, suspendpoll,
    signals,    \* the counter of the eventfd pollsignal
    cq,         \* SUBSET Kinds: completions nobody has polled
    state,      \* SUBSET Kinds: what the socket is ready for
    cq_armed,
    fired,      \* an event waits in the completion channel
    svc,        \* the connection service owes a rs_poll_signal
    nonblock,   \* the descriptors are O_NONBLOCK
    leaked,     \* history: returns that kept their place in pollcnt
    late        \* history: threads that went to sleep on a ready or a disarmed socket
gate == <<pollcnt, suspendpoll, signals>>
socket == <<cq, state, cq_armed, fired>>
vars == <<pc, saw, found, calls, gate, socket, svc, nonblock, leaked, late>>

ASSUME WantsAssumption == Timed \subseteq Threads /\ Wants \in [Threads -> SUBSET Kinds]
ASSUME ThreadsAssumption == IsFiniteSet(Threads) /\ MaxCalls \in Nat

Init ==
    /\ pc = [t \in Threads |-> "idle"]
    /\ saw = [t \in Threads |-> FALSE] /\ found = [t \in Threads |-> FALSE]
    /\ calls = [t \in Threads |-> 0]
    /\ pollcnt = 0 /\ suspendpoll = FALSE /\ signals = 0
    /\ cq = {} /\ state = {} /\ cq_armed = FALSE /\ fired = FALSE
    /\ svc = FALSE /\ nonblock \in BOOLEAN /\ leaked = 0 /\ late = {}

Inside == {t \in Threads : pc[t] \in {"asleep", "woken", "leaving"}}
Ready(t, st) == st \cap Wants[t] # {}
Goto(t, l) == pc' = [pc EXCEPT ![t] = l]

\* rs_process_cq as far as rpoll is concerned; the caller then uses what it found.
PolledFor(t) == state \cup cq
Process(t, used) ==
    /\ cq' = {}
    /\ state' = IF used THEN PolledFor(t) \ Wants[t] ELSE PolledFor(t)

-----------------------------------------------------------------------------
(* rs_poll_check, at the start of a call.                                  *)
rs_poll_check(t) ==
    /\ pc[t] = "idle" /\ calls[t] < MaxCalls
    /\ calls' = [calls EXCEPT ![t] = @ + 1]
    /\ Process(t, Ready(t, PolledFor(t)))
    /\ Goto(t, IF Ready(t, PolledFor(t)) THEN "idle" ELSE "arm")
    /\ UNCHANGED <<saw, found, gate, cq_armed, fired, svc, nonblock, leaked, late>>

(* rs_poll_arm: arm the channel and look again.                            *)
rs_poll_arm(t) ==
    /\ pc[t] = "arm"
    /\ cq_armed' = TRUE
    /\ Process(t, Ready(t, PolledFor(t)))
    /\ Goto(t, IF Ready(t, PolledFor(t)) THEN "idle" ELSE "enter")
    /\ UNCHANGED <<saw, found, calls, gate, fired, svc, nonblock, leaked, late>>

(* rs_poll_enter and what follows it: a closed gate sends the thread back; *)
(* a timeout that has run out returns from rpoll as it is.                 *)
rs_poll_enter(t) ==
    /\ pc[t] = "enter"
    /\ \/ suspendpoll /\ Goto(t, "arm") /\ UNCHANGED <<pollcnt, leaked>>
       \/ ~suspendpoll /\ Goto(t, "asleep") /\ pollcnt' = pollcnt + 1 /\ UNCHANGED leaked
       \/ /\ ~suspendpoll /\ t \in Timed
          /\ Goto(t, "idle") /\ pollcnt' = pollcnt + 1 /\ leaked' = leaked + 1
    /\ late' = IF Ready(t, state) \/ ~cq_armed THEN late \cup {t} ELSE late \ {t}
    /\ UNCHANGED <<saw, found, calls, suspendpoll, signals, socket, svc, nonblock>>

\* Only an event or a signal wakes the thread.
WakesWhenTold(t) ==
    /\ pc[t] = "asleep"
    /\ fired \/ signals > 0
    /\ saw' = [saw EXCEPT ![t] = fired]
    /\ Goto(t, "woken")
    /\ UNCHANGED <<found, calls, gate, socket, svc, nonblock, leaked, late>>

(* poll(2) returns: the channel, the signal, or wake_up_interval.          *)
Wakes(t) ==
    /\ pc[t] = "asleep"
    /\ saw' = [saw EXCEPT ![t] = fired]
    /\ Goto(t, "woken")
    /\ UNCHANGED <<found, calls, gate, socket, svc, nonblock, leaked, late>>

OpenGate == pollcnt' = 0 /\ suspendpoll' = FALSE /\ signals' = IF signals > 0 THEN signals - 1 ELSE 0

\* The last one out leaves the gate as it is.
ExitOnly(t) ==
    /\ pc[t] = "asleep"
    /\ pollcnt' = pollcnt - 1
    /\ Goto(t, "idle")
    /\ UNCHANGED <<saw, found, calls, suspendpoll, signals, socket, svc, nonblock, leaked, late>>

(* poll(2) fails (EINTR): rs_poll_exit.                                    *)
rs_poll_exit(t) ==
    /\ pc[t] = "asleep"
    /\ IF pollcnt = 1 THEN OpenGate
       ELSE pollcnt' = pollcnt - 1 /\ UNCHANGED <<suspendpoll, signals>>
    /\ Goto(t, "idle")
    /\ UNCHANGED <<saw, found, calls, socket, svc, nonblock, leaked, late>>

(* rs_poll_events: rs_get_cq_event, which waits for an event if the        *)
(* channel is armed and blocking, then the socket.                         *)
GetEventBlocks(t) == pc[t] = "woken" /\ saw[t] /\ cq_armed /\ ~fired /\ ~nonblock

rs_poll_events(t) ==
    LET read == saw[t] /\ cq_armed /\ fired
    IN  /\ pc[t] = "woken" /\ ~GetEventBlocks(t)
        /\ cq_armed' = (cq_armed /\ ~read)
        /\ fired' = (fired /\ ~read)
        /\ Process(t, Ready(t, PolledFor(t)))
        /\ found' = [found EXCEPT ![t] = Ready(t, PolledFor(t))]
        /\ saw' = [saw EXCEPT ![t] = FALSE]
        /\ Goto(t, "leaving")
        /\ UNCHANGED <<calls, gate, svc, nonblock, leaked, late>>

CloseGate == suspendpoll' = TRUE /\ signals' = signals + 1

\* A thread that found nothing tells nobody.
StopQuietly(t) ==
    /\ pc[t] = "leaving"
    /\ IF pollcnt = 1 THEN OpenGate
       ELSE /\ pollcnt' = pollcnt - 1
            /\ IF suspendpoll \/ ~found[t] THEN UNCHANGED <<suspendpoll, signals>> ELSE CloseGate
    /\ Goto(t, IF found[t] THEN "idle" ELSE "arm")
    /\ found' = [found EXCEPT ![t] = FALSE]
    /\ UNCHANGED <<saw, calls, socket, svc, nonblock, leaked, late>>

rs_poll_stop(t) ==
    /\ pc[t] = "leaving"
    /\ IF pollcnt = 1 THEN OpenGate
       ELSE /\ pollcnt' = pollcnt - 1
            /\ IF suspendpoll THEN UNCHANGED <<suspendpoll, signals>> ELSE CloseGate
    /\ Goto(t, IF found[t] THEN "idle" ELSE "arm")
    /\ found' = [found EXCEPT ![t] = FALSE]
    /\ UNCHANGED <<saw, calls, socket, svc, nonblock, leaked, late>>

-----------------------------------------------------------------------------
(* The hardware completes something; an armed channel gets an event.       *)
Complete(k) ==
    /\ k \notin cq \cup state
    /\ cq' = cq \cup {k}
    /\ fired' = (fired \/ cq_armed)
    /\ UNCHANGED <<pc, saw, found, calls, gate, state, cq_armed, svc, nonblock, leaked, late>>

(* The connection service changes the state of a socket, then signals.     *)
rs_handle_cm_event ==
    /\ ~svc /\ svc' = TRUE
    /\ \E k \in Kinds \ (cq \cup state) : state' = state \cup {k}
    /\ UNCHANGED <<pc, saw, found, calls, gate, cq, cq_armed, fired, nonblock, leaked, late>>

rs_poll_signal ==
    /\ svc /\ svc' = FALSE
    /\ IF pollcnt > 0 /\ ~suspendpoll THEN CloseGate ELSE UNCHANGED <<suspendpoll, signals>>
    /\ UNCHANGED <<pc, saw, found, calls, pollcnt, socket, nonblock, leaked, late>>

Step(t) ==
    \/ rs_poll_check(t) \/ rs_poll_arm(t) \/ rs_poll_enter(t) \/ Wakes(t)
    \/ rs_poll_exit(t) \/ rs_poll_events(t) \/ rs_poll_stop(t)

Next ==
    \/ \E t \in Threads : Step(t)
    \/ \E k \in Kinds : Complete(k)
    \/ rs_handle_cm_event \/ rs_poll_signal

Spec == Init /\ [][Next]_vars

(* A thread inside rpoll goes on; wake_up_interval bounds its sleep.       *)
FairSpec ==
    /\ Spec
    /\ \A t \in Threads : WF_vars(\/ rs_poll_arm(t) \/ rs_poll_enter(t) \/ Wakes(t)
                                   \/ rs_poll_events(t) \/ rs_poll_stop(t))

-----------------------------------------------------------------------------
TypeOK ==
    /\ pc \in [Threads -> {"idle", "arm", "enter", "asleep", "woken", "leaving"}]
    /\ saw \in [Threads -> BOOLEAN] /\ found \in [Threads -> BOOLEAN]
    /\ calls \in [Threads -> 0..MaxCalls]
    /\ pollcnt \in Nat /\ suspendpoll \in BOOLEAN /\ signals \in Nat
    /\ cq \in SUBSET Kinds /\ state \in SUBSET Kinds
    /\ cq_armed \in BOOLEAN /\ fired \in BOOLEAN
    /\ svc \in BOOLEAN /\ nonblock \in BOOLEAN /\ leaked \in Nat /\ late \in SUBSET Threads

(* pollcnt counts the threads inside and the timeouts that returned from   *)
(* inside without leaving; the signal is pending exactly while the gate is *)
(* closed, and the gate is closed only while pollcnt is not zero.  So      *)
(* unless a timeout leaked its place, the gate opens when all have left.   *)
GateInv ==
    /\ TypeOK
    /\ pollcnt = Cardinality(Inside) + leaked
    /\ signals = IF suspendpoll THEN 1 ELSE 0
    /\ suspendpoll => pollcnt > 0

(* What will make t wake, or what kept it from looking in time.           *)
HasReason(t) ==
    \/ fired \/ signals > 0 \/ svc
    \/ \E u \in Threads : pc[u] \in {"woken", "leaving"}
    \/ t \in late

(* A thread whose socket becomes ready for it while it sleeps has a reason *)
(* to wake: the event is still in the channel, or the signal is, or a      *)
(* thread that has yet to leave, or the service, will signal.  (The gate   *)
(* does not help a thread that armed its socket and looked at it before    *)
(* another thread took the event, and falls asleep after it: `late'.)      *)
NoForgottenSleeper ==
    \A t \in Threads : pc[t] = "asleep" /\ Ready(t, state \cup cq) => HasReason(t)

(* The inductive invariant behind it: a completion that nobody has polled  *)
(* on an armed channel has its event in it, and a sleeper without a reason *)
(* to wake sleeps on an armed channel and a socket not ready for it.       *)
SleepInv ==
    /\ GateInv
    /\ cq # {} /\ cq_armed => fired
    /\ \A t \in Threads : pc[t] = "asleep" => HasReason(t) \/ (cq_armed /\ ~Ready(t, state))

(* On nonblocking descriptors, rpoll returns once its socket is ready and  *)
(* nobody else takes what is there.                                        *)
ReadyReturns ==
    \A t \in Threads :
        nonblock /\ pc[t] # "idle" /\ Ready(t, state) ~> pc[t] = "idle" \/ ~Ready(t, state)

(* The state of all sockets settles: the gate is closed only while some    *)
(* thread has still to leave poll, who opens it; unless a timeout has      *)
(* returned from rpoll and kept its place in pollcnt.                      *)
Settles == suspendpoll /\ leaked = 0 => Inside # {}

=============================================================================
