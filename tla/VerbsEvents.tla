---------------------------- MODULE VerbsEvents ----------------------------
(***************************************************************************)
(* Events and the lifetime of verbs objects in libibverbs.  A thread gets  *)
(* an event of an object from a completion channel (ibv_get_cq_event) or   *)
(* from the context (ibv_get_async_event) and acknowledges it later.       *)
(* Destroying an object waits until every event the kernel has reported    *)
(* for it is acknowledged.  A completion channel counts the CQs on it.     *)
(*                                                                         *)
(* The kernel is external: it queues events of live objects, counts those  *)
(* it hands out, and drops the others when the object is destroyed.  The   *)
(* application acknowledges every event it gets, as the man pages ask.     *)
(***************************************************************************)
EXTENDS Integers, FiniteSets

CONSTANTS
  CQs,              \* completion queues, all on one channel
  Others,           \* QPs, SRQs and WQs, which have asynchronous events only
  Threads,          \* the threads that get and acknowledge events
  WORD,             \* the size of the counters (2^32)
  MaxEvents,        \* bound on the events of all objects
  CanDisassociate   \* the device may go away, with
                    \* verbs_allow_disassociate_destroy set

ASSUME EventsAssumption ==
  /\ IsFiniteSet(CQs) /\ IsFiniteSet(Threads) /\ CQs \cap Others = {}
  /\ WORD \in Nat /\ WORD > 1 /\ MaxEvents \in Nat
  /\ CanDisassociate \in BOOLEAN

Objects == CQs \cup Others

\* The streams of events: a CQ has two.
Streams == ({"comp"} \X CQs) \cup ({"async"} \X Objects)
StreamsOf(o) == {s \in Streams : s[2] = o}

VARIABLES
  channel,    \* the completion channel: state and refcnt
  st,         \* where each object is in its life
  completed,  \* comp_events_completed, async_events_completed, events_completed
  reported,   \* the kernel's count of the events it has handed out
  pending,    \* events the kernel has queued
  made,       \* how many events there have been
  reading,    \* the event a thread is about to return from a get call
  unacked,    \* the events a thread has got and not acknowledged
  gone        \* the device is disassociated

vars == <<channel, st, completed, reported, pending, made, reading, unacked, gone>>
events == <<reported, pending, made, reading, unacked>>

None == <<"none", "none">>

\* "made": the provider has created it; "waiting": ibv_cmd_destroy_* is in its
\* loop; "asleep": it is in pthread_cond_wait; "freed": the provider has freed it;
\* "dead": ibv_destroy_* has returned.
State == {"none", "made", "live", "waiting", "asleep", "freed", "dead"}

TypeOK ==
  /\ channel \in [state : {"none", "open", "closed"}, refcnt : 0 .. Cardinality(CQs)]
  /\ st \in [Objects -> State]
  /\ completed \in [Streams -> 0 .. WORD - 1]
  /\ reported \in [Streams -> 0 .. WORD - 1]
  /\ pending \in [Streams -> Nat]
  /\ made \in 0 .. MaxEvents
  /\ reading \in [Threads -> Streams \cup {None}]
  /\ unacked \in [Threads -> [Streams -> Nat]]
  /\ gone \in BOOLEAN

\* The events of a stream that threads still have in hand.
Readers(s) == {t \in Threads : reading[t] = s}
Got(s) == UNION {{t} \X (1 .. unacked[t][s]) : t \in Threads}
InHand(s) == Cardinality(Got(s)) + Cardinality(Readers(s))

Init ==
  /\ channel = [state |-> "none", refcnt |-> 0]
  /\ st = [o \in Objects |-> "none"]
  /\ completed = [s \in Streams |-> 0] /\ reported = completed
  /\ pending = completed /\ made = 0
  /\ reading = [t \in Threads |-> None]
  /\ unacked = [t \in Threads |-> [s \in Streams |-> 0]]
  /\ gone = FALSE

-----------------------------------------------------------------------------
(* The completion channel.                                                  *)

ibv_create_comp_channel ==
  /\ channel.state = "none" /\ ~gone
  /\ channel' = [state |-> "open", refcnt |-> 0]
  /\ UNCHANGED <<st, completed, events, gone>>

\* With CQs on the channel it fails and changes nothing.  The application does
\* not call it while it creates a CQ on the channel.
ibv_destroy_comp_channel ==
  /\ channel.state = "open" /\ \A q \in CQs : st[q] # "made"
  /\ channel.refcnt = 0
  /\ channel' = [channel EXCEPT !.state = "closed"]
  /\ UNCHANGED <<st, completed, events, gone>>

-----------------------------------------------------------------------------
(* The objects.                                                             *)

\* The provider's create function, called by ibv_create_cq, ibv_create_qp ...
Create(o) ==
  /\ st[o] = "none" /\ ~gone
  /\ o \in CQs => channel.state = "open"
  /\ st' = [st EXCEPT ![o] = "made"]
  /\ UNCHANGED <<channel, completed, events, gone>>

\* verbs_init_cq, and what the other create functions do after the provider's.
verbs_init_cq(o) ==
  /\ st[o] = "made"
  /\ st' = [st EXCEPT ![o] = "live"]
  /\ completed' = [s \in Streams |-> IF s \in StreamsOf(o) THEN 0 ELSE completed[s]]
  /\ channel' = IF o \in CQs THEN [channel EXCEPT !.refcnt = @ + 1] ELSE channel
  /\ UNCHANGED <<events, gone>>

\* ibv_cmd_destroy_cq, _qp, _srq and _wq: the kernel destroys the object; its
\* answer is the count of reported events, which no longer changes.
ibv_cmd_destroy(o) ==
  /\ st[o] = "live" /\ ~gone
  /\ pending' = [s \in Streams |-> IF s \in StreamsOf(o) THEN 0 ELSE pending[s]]
  /\ st' = [st EXCEPT ![o] = "waiting"]
  /\ UNCHANGED <<channel, completed, reported, made, reading, unacked, gone>>

\* verbs_is_destroy_err: the device has gone, the command fails with EIO, and the
\* object is freed at once.
DestroyDisassociated(o) ==
  /\ st[o] = "live" /\ gone
  /\ st' = [st EXCEPT ![o] = "freed"]
  /\ UNCHANGED <<channel, completed, events, gone>>

\* Mutant of Acknowledged: only one of the two counters of a CQ is compared.
AcknowledgedAsync(o) == completed[<<"async", o>>] = reported[<<"async", o>>]

Acknowledged(o) == \A s \in StreamsOf(o) : completed[s] = reported[s]

\* pthread_cond_wait: the test and going to sleep are one step under the mutex.
CondWait(o) ==
  /\ st[o] = "waiting" /\ ~Acknowledged(o)
  /\ st' = [st EXCEPT ![o] = "asleep"]
  /\ UNCHANGED <<channel, completed, events, gone>>

\* ibv_cmd_destroy_* returns and the provider frees the object.
Free(o) ==
  /\ st[o] = "waiting" /\ Acknowledged(o)
  /\ st' = [st EXCEPT ![o] = "freed"]
  /\ UNCHANGED <<channel, completed, events, gone>>

\* Mutant of ibv_destroy_cq: the channel is not told.
DestroyCqKeepsRef(o) ==
  /\ st[o] = "freed"
  /\ st' = [st EXCEPT ![o] = "dead"]
  /\ UNCHANGED <<channel, completed, events, gone>>

\* The end of ibv_destroy_cq and of the other destroy functions.
ibv_destroy_cq(o) ==
  /\ st[o] = "freed"
  /\ st' = [st EXCEPT ![o] = "dead"]
  /\ channel' = IF o \in CQs THEN [channel EXCEPT !.refcnt = @ - 1] ELSE channel
  /\ UNCHANGED <<completed, events, gone>>

-----------------------------------------------------------------------------
(* The events.                                                              *)

\* The kernel queues an event.
KernelEvent(s) ==
  /\ st[s[2]] = "live" /\ ~gone /\ made < MaxEvents
  /\ made' = made + 1
  /\ pending' = [pending EXCEPT ![s] = @ + 1]
  /\ UNCHANGED <<channel, st, completed, reported, reading, unacked, gone>>

\* read() in ibv_get_cq_event and ibv_get_async_event.  Fewer than WORD events
\* are outstanding.
GetEvent(t, s) ==
  /\ reading[t] = None /\ pending[s] > 0
  /\ s[1] = "comp" => channel.state = "open"
  /\ InHand(s) + 1 < WORD
  /\ pending' = [pending EXCEPT ![s] = @ - 1]
  /\ reported' = [reported EXCEPT ![s] = (@ + 1) % WORD]
  /\ reading' = [reading EXCEPT ![t] = s]
  /\ UNCHANGED <<channel, st, completed, made, unacked, gone>>

\* The rest of the call, which reads cq->cq_context and calls the provider.
GotEvent(t) ==
  /\ reading[t] # None
  /\ unacked' = [unacked EXCEPT ![t][reading[t]] = @ + 1]
  /\ reading' = [reading EXCEPT ![t] = None]
  /\ UNCHANGED <<channel, st, completed, reported, pending, made, gone>>

\* Mutant of Ack: the waiting thread is not signalled.
AckUnsignalled(t, s, nevents) ==
  /\ reading[t] = None /\ nevents <= unacked[t][s]
  /\ s[1] = "async" => nevents = 1
  /\ completed' = [completed EXCEPT ![s] = (@ + nevents) % WORD]
  /\ unacked' = [unacked EXCEPT ![t][s] = @ - nevents]
  /\ UNCHANGED <<channel, st, reported, pending, made, reading, gone>>

\* Mutant of Ack: one event is counted, whatever nevents is.
AckOne(t, s, nevents) ==
  /\ reading[t] = None /\ nevents <= unacked[t][s]
  /\ s[1] = "async" => nevents = 1
  /\ completed' = [completed EXCEPT ![s] = (@ + 1) % WORD]
  /\ unacked' = [unacked EXCEPT ![t][s] = @ - nevents]
  /\ st' = [st EXCEPT ![s[2]] = IF @ = "asleep" THEN "waiting" ELSE @]
  /\ UNCHANGED <<channel, reported, pending, made, reading, gone>>

\* ibv_ack_cq_events acknowledges several events, ibv_ack_async_event one; the
\* thread asleep in pthread_cond_wait is signalled.
Ack(t, s, nevents) ==
  /\ reading[t] = None /\ nevents <= unacked[t][s]
  /\ s[1] = "async" => nevents = 1
  /\ completed' = [completed EXCEPT ![s] = (@ + nevents) % WORD]
  /\ unacked' = [unacked EXCEPT ![t][s] = @ - nevents]
  /\ st' = [st EXCEPT ![s[2]] = IF @ = "asleep" THEN "waiting" ELSE @]
  /\ UNCHANGED <<channel, reported, pending, made, reading, gone>>

\* The device goes away; the kernel drops the events it has queued.
Disassociate ==
  /\ CanDisassociate /\ ~gone
  /\ gone' = TRUE
  /\ pending' = [s \in Streams |-> 0]
  /\ UNCHANGED <<channel, st, completed, reported, made, reading, unacked>>

AckSome(t, s) == \E n \in 1 .. MaxEvents : Ack(t, s, n)
Destroying(o) == CondWait(o) \/ Free(o) \/ ibv_destroy_cq(o)

Next ==
  \/ ibv_create_comp_channel \/ ibv_destroy_comp_channel \/ Disassociate
  \/ \E o \in Objects :
       \/ Create(o) \/ verbs_init_cq(o)
       \/ ibv_cmd_destroy(o) \/ DestroyDisassociated(o) \/ Destroying(o)
  \/ \E s \in Streams : KernelEvent(s) \/ \E t \in Threads : GetEvent(t, s)
  \/ \E t \in Threads : GotEvent(t) \/ \E s \in Streams : AckSome(t, s)

Spec == Init /\ [][Next]_vars

-----------------------------------------------------------------------------
(* Properties.                                                              *)

\* Acknowledgements and successful gets correspond one to one: what the two
\* counters differ by, as they wrap, is what threads have in hand.
OneToOne ==
  /\ TypeOK
  /\ \A s \in Streams : st[s[2]] \notin {"none", "made"} =>
       (completed[s] + InHand(s)) % WORD = reported[s]

\* An object is freed only when no thread has an event of it in hand, which a
\* get call or an acknowledgement would still write to.
EventsPinObject ==
  \A s \in Streams : InHand(s) > 0 => st[s[2]] \notin {"freed", "dead"}

\* That is so while the device is there: ibv_cmd_destroy_* waits.
PinsUntilGone == ~gone => EventsPinObject

\* A channel is closed only when no CQ on it is left.
ChannelOutlives ==
  channel.state = "closed" => \A q \in CQs : st[q] \in {"none", "dead"}

\* An application that destroys its CQs can always destroy the channel: the count
\* returns to zero with them.
RefcntExact ==
  (\A q \in CQs : st[q] \in {"none", "dead"}) => channel.refcnt = 0

\* The channel is there as long as its CQs and no longer than the application
\* wants it.
ChannelCounted == ChannelOutlives /\ RefcntExact

\* The inductive form: refcnt counts the CQs from verbs_init_cq to the end of
\* ibv_destroy_cq, and the channel is open from their creation on.
Counted == {q \in CQs : st[q] \in {"live", "waiting", "asleep", "freed"}}
ChannelInv ==
  /\ TypeOK
  /\ channel.refcnt = Cardinality(Counted)
  /\ \A q \in CQs : st[q] \notin {"none", "dead"} => channel.state = "open"

\* A thread sleeps in ibv_cmd_destroy_* only while some event of the object is in
\* hand, whose acknowledgement will wake it: no wakeup is lost.
SleepsForAck ==
  \A o \in Objects : st[o] = "asleep" => \E s \in StreamsOf(o) : InHand(s) > 0

\* The inductive form of OneToOne, PinsUntilGone and SleepsForAck: a new object
\* has no events, only a live one of a device that is there has queued ones.
StreamInv(s) ==
  /\ InHand(s) < WORD
  /\ (completed[s] + InHand(s)) % WORD = reported[s]
  /\ pending[s] > 0 => st[s[2]] = "live" /\ ~gone
  /\ st[s[2]] \in {"none", "made"} => InHand(s) = 0 /\ completed[s] = 0
EventsInv ==
  ChannelInv /\ (\A s \in Streams : StreamInv(s)) /\ PinsUntilGone /\ SleepsForAck
=============================================================================
