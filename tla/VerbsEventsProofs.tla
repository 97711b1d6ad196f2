------------------------- MODULE VerbsEventsProofs -------------------------
(***************************************************************************)
(* Events and the lifetime of objects for any number of objects, threads   *)
(* and events, and counters of any width.                                  *)
(***************************************************************************)
EXTENDS VerbsEvents, FiniteSetTheorems, TLAPS

\* The time a leaf may take.
USE SMTT(30), ZenonT(30)

-----------------------------------------------------------------------------
(* Counters that wrap.                                                      *)

\* What wrapping does.
LEMMA Wrapped ==
  ASSUME NEW a \in Nat
  PROVE  /\ a % WORD \in 0 .. WORD - 1
         /\ \E q \in Nat : a = q * WORD + (a % WORD)
<1>1. WORD \in Nat /\ WORD > 0
  BY EventsAssumption
<1>2. /\ a % WORD \in 0 .. WORD - 1
      /\ a \div WORD \in Nat /\ a = WORD * (a \div WORD) + (a % WORD)
  BY <1>1
<1>3. a = (a \div WORD) * WORD + (a % WORD)
  BY <1>1, <1>2
<1>4. \E q \in Nat : a = q * WORD + (a % WORD)
  <2>1. a \div WORD \in Nat BY <1>2
  <2> WITNESS a \div WORD \in Nat
  <2> QED BY <1>3
<1> QED BY <1>2, <1>4

\* A number below WORD that is WORD times something away is the remainder.
LEMMA Unique ==
  ASSUME NEW a \in Nat, NEW q \in Int, NEW r \in 0 .. WORD - 1, a = q * WORD + r
  PROVE  a % WORD = r
<1>0. WORD \in Nat /\ WORD > 0
  BY EventsAssumption
<1>1. PICK p \in Nat : a = p * WORD + (a % WORD)
  BY Wrapped
<1>2. a % WORD \in 0 .. WORD - 1
  BY Wrapped
<1> DEFINE d == p - q  x == a % WORD
<1>3. d \in Int /\ x \in 0 .. WORD - 1 /\ d * WORD = r - x
  BY <1>0, <1>1, <1>2
<1> HIDE DEF d, x
<1>4. d < 1
  <2> SUFFICES ASSUME d >= 1 PROVE FALSE
    BY <1>3
  <2>1. d * WORD >= WORD
    BY <1>0, <1>3
  <2> QED BY <1>0, <1>3, <2>1
<1>5. d > -1
  <2> SUFFICES ASSUME d <= -1 PROVE FALSE
    BY <1>3
  <2>1. d * WORD <= -WORD
    BY <1>0, <1>3
  <2> QED BY <1>0, <1>3, <2>1
<1>6. d = 0
  BY <1>3, <1>4, <1>5
<1>7. x = r
  BY <1>0, <1>3, <1>6
<1> QED BY <1>7 DEF x

\* A number below WORD is not changed.
LEMMA Small ==
  ASSUME NEW a \in 0 .. WORD - 1
  PROVE  a % WORD = a
<1>1. WORD \in Nat
  BY EventsAssumption
<1>2. a \in Nat /\ a = 0 * WORD + a
  BY <1>1
<1> QED BY <1>2, Unique

\* Adding before and after wrapping is the same.
LEMMA AddWrapped ==
  ASSUME NEW a \in Nat, NEW b \in Nat
  PROVE  ((a % WORD) + b) % WORD = (a + b) % WORD
<1>0. WORD \in Nat /\ WORD > 0
  BY EventsAssumption
<1>1. PICK p \in Nat : a = p * WORD + (a % WORD)
  BY Wrapped
<1> DEFINE x == a % WORD
<1>2. x \in Nat
  BY Wrapped, <1>0
<1>3. PICK q \in Nat : x + b = q * WORD + ((x + b) % WORD)
  BY <1>2, Wrapped
<1>4. (x + b) % WORD \in 0 .. WORD - 1
  BY <1>2, Wrapped
<1> DEFINE y == (x + b) % WORD
<1>5. a = p * WORD + x /\ x + b = q * WORD + y /\ y \in 0 .. WORD - 1
  BY <1>1, <1>3, <1>4
<1> HIDE DEF x, y
<1>6. a + b = (p + q) * WORD + y
  BY <1>0, <1>2, <1>5
<1>7. (a + b) % WORD = y
  BY <1>5, <1>6, Unique
<1> QED BY <1>7 DEF x, y

\* A counter that something below WORD does not change is added nothing to.
LEMMA NothingAdded ==
  ASSUME NEW c \in 0 .. WORD - 1, NEW h \in Nat, h < WORD, (c + h) % WORD = c
  PROVE  h = 0
<1>0. WORD \in Nat /\ WORD > 0
  BY EventsAssumption
<1>1. PICK p \in Nat : c + h = p * WORD + c
  BY Wrapped
<1>2. h = p * WORD
  BY <1>0, <1>1
<1>3. p < 1
  <2> SUFFICES ASSUME p >= 1 PROVE FALSE
    OBVIOUS
  <2>1. p * WORD >= WORD
    BY <1>0
  <2> QED BY <1>0, <1>2, <2>1
<1>4. p = 0
  BY <1>3
<1> QED BY <1>0, <1>2, <1>4

-----------------------------------------------------------------------------
(* The events in hand.                                                      *)

\* The events a thread has got and the threads in a get call are finitely many.
LEMMA HandFinite ==
  ASSUME TypeOK, NEW s \in Streams
  PROVE  IsFiniteSet(Got(s)) /\ IsFiniteSet(Readers(s)) /\ InHand(s) \in Nat
<1> DEFINE G == {{t} \X (1 .. unacked[t][s]) : t \in Threads}
           f == [t \in Threads |-> {t} \X (1 .. unacked[t][s])]
<1>1. f \in Surjection(Threads, G)
  BY DEF Surjection
<1>2. IsFiniteSet(G)
  BY <1>1, EventsAssumption, FS_Surjection
<1>3. ASSUME NEW T \in G PROVE IsFiniteSet(T)
  <2>1. PICK t \in Threads : T = {t} \X (1 .. unacked[t][s])
    OBVIOUS
  <2>2. unacked[t][s] \in Nat
    BY DEF TypeOK
  <2>3. IsFiniteSet(1 .. unacked[t][s])
    <3>1. \A b \in Int : IsFiniteSet(1 .. b)
      BY FS_Interval
    <3> QED BY <2>2, <3>1
  <2>4. IsFiniteSet({t})
    BY FS_Singleton, ZenonT(30)
  <2> QED BY <2>1, <2>3, <2>4, FS_Product, ZenonT(30)
<1>4. IsFiniteSet(Got(s))
  BY <1>2, <1>3, FS_UNION, ZenonT(30) DEF Got
<1>5. IsFiniteSet(Readers(s))
  BY EventsAssumption, FS_Subset DEF Readers
<1> QED BY <1>4, <1>5, FS_CardinalityType DEF InHand

\* What a thread has got are numbers up to its count.
LEMMA GotMember ==
  ASSUME NEW s, NEW x
  PROVE  x \in Got(s) <=> \E t \in Threads : \E i \in 1 .. unacked[t][s] : x = <<t, i>>
BY DEF Got

\* A stream for which no thread's count and no get call changes.
LEMMA SameHand ==
  ASSUME NEW s, \A t \in Threads : unacked'[t][s] = unacked[t][s],
         \A t \in Threads : reading'[t] = s <=> reading[t] = s
  PROVE  InHand(s)' = InHand(s)
<1>1. Got(s)' = Got(s)
  BY DEF Got
<1>2. Readers(s)' = Readers(s)
  BY DEF Readers
<1> QED BY <1>1, <1>2 DEF InHand

\* The read of a get call takes one event more into hand.
LEMMA TakesOne ==
  ASSUME TypeOK, NEW t \in Threads, NEW s \in Streams, reading[t] # s,
         reading' = [reading EXCEPT ![t] = s], UNCHANGED unacked
  PROVE  InHand(s)' = InHand(s) + 1
<1>1. Got(s)' = Got(s)
  BY DEF Got
<1>2. Readers(s)' = Readers(s) \cup {t} /\ t \notin Readers(s)
  BY DEF Readers, TypeOK
<1>3. Cardinality(Readers(s)') = Cardinality(Readers(s)) + 1
  BY <1>2, HandFinite, FS_AddElement, ZenonT(30)
<1>4. Cardinality(Got(s)) \in Nat /\ Cardinality(Readers(s)) \in Nat
  BY HandFinite, FS_CardinalityType
<1> QED BY <1>1, <1>3, <1>4 DEF InHand

\* The rest of the call keeps it in hand.
LEMMA KeepsOne ==
  ASSUME TypeOK, NEW t \in Threads, NEW s \in Streams, reading[t] = s,
         reading' = [reading EXCEPT ![t] = None],
         unacked' = [unacked EXCEPT ![t][s] = @ + 1]
  PROVE  InHand(s)' = InHand(s)
<1> DEFINE u == unacked[t][s]
<1>0. s # None
  BY DEF Streams, None
<1>1. Readers(s)' = Readers(s) \ {t} /\ t \in Readers(s)
  BY <1>0 DEF Readers, TypeOK
<1>2. u \in Nat /\ unacked'[t][s] = u + 1
      /\ \A r \in Threads \ {t} : unacked'[r][s] = unacked[r][s]
  BY DEF TypeOK
<1> HIDE DEF u
<1>3. 1 .. u + 1 = (1 .. u) \cup {u + 1} /\ u + 1 \notin 1 .. u
  BY <1>2
<1>4. <<t, u + 1>> \notin Got(s)
  BY <1>3, GotMember DEF u
<1>5. Got(s)' = Got(s) \cup {<<t, u + 1>>}
  <2>1. ASSUME NEW x
        PROVE  x \in Got(s)' <=> \E r \in Threads : \E i \in 1 .. unacked'[r][s] : x = <<r, i>>
    BY DEF Got
  <2>2. ASSUME NEW x
        PROVE  x \in Got(s)' <=> x \in Got(s) \cup {<<t, u + 1>>}
    <3>1. (\E r \in Threads : \E i \in 1 .. unacked'[r][s] : x = <<r, i>>)
          <=> \/ \E r \in Threads : \E i \in 1 .. unacked[r][s] : x = <<r, i>>
              \/ x = <<t, u + 1>>
      BY <1>2, <1>3 DEF u
    <3> QED BY <2>1, <3>1, GotMember
  <2> QED BY <2>2
<1>6. Cardinality(Got(s)') = Cardinality(Got(s)) + 1
  BY <1>4, <1>5, HandFinite, FS_AddElement, ZenonT(30)
<1>7. Cardinality(Readers(s)') = Cardinality(Readers(s)) - 1
  BY <1>1, HandFinite, FS_RemoveElement, ZenonT(30)
<1>8. Cardinality(Got(s)) \in Nat /\ Cardinality(Readers(s)) \in Nat
  BY HandFinite, FS_CardinalityType
<1> QED BY <1>6, <1>7, <1>8 DEF InHand

\* An acknowledgement of n events takes n out of hand.
LEMMA GivesBack ==
  ASSUME TypeOK, NEW t \in Threads, NEW s \in Streams, NEW n \in Nat,
         n <= unacked[t][s], UNCHANGED reading,
         unacked' = [unacked EXCEPT ![t][s] = @ - n]
  PROVE  InHand(s)' = InHand(s) - n /\ InHand(s) >= n
<1> DEFINE u == unacked[t][s]
           D == {t} \X (u - n + 1 .. u)
<1>1. Readers(s)' = Readers(s)
  BY DEF Readers
<1>2. u \in Nat /\ n <= u /\ unacked'[t][s] = u - n
      /\ \A r \in Threads \ {t} : unacked'[r][s] = unacked[r][s]
  BY DEF TypeOK
<1>3. IsFiniteSet(D) /\ Cardinality(D) = n
  <2>1. IsFiniteSet({t}) /\ Cardinality({t}) = 1
    BY FS_Singleton, ZenonT(30)
  <2> DEFINE a == u - n + 1
             I == a .. u
  <2>2. a \in Int /\ u \in Int
    BY <1>2
  <2> HIDE DEF a
  <2>3. IsFiniteSet(I) /\ Cardinality(I) = IF a > u THEN 0 ELSE u - a + 1
    BY <2>2, FS_Interval
  <2>4. Cardinality(I) = n
    BY <1>2, <2>3 DEF a
  <2> HIDE DEF I
  <2>5. IsFiniteSet({t} \X I) /\ Cardinality({t} \X I) = 1 * n
    BY <2>1, <2>3, <2>4, FS_Product
  <2> QED BY <2>5 DEF I, a
<1>4. D \subseteq Got(s)
  <2> SUFFICES ASSUME NEW i \in u - n + 1 .. u PROVE <<t, i>> \in Got(s)
    OBVIOUS
  <2>1. i \in 1 .. unacked[t][s]
    BY <1>2
  <2> QED BY <2>1, GotMember
<1>5. Got(s)' = Got(s) \ D
  <2>1. ASSUME NEW x
        PROVE  x \in Got(s)' <=> \E r \in Threads : \E i \in 1 .. unacked'[r][s] : x = <<r, i>>
    BY DEF Got
  <2>2. 1 .. u - n = (1 .. u) \ (u - n + 1 .. u)
    BY <1>2
  <2>3. ASSUME NEW x
        PROVE  x \in Got(s)' <=> x \in Got(s) \ D
    <3>1. (\E r \in Threads : \E i \in 1 .. unacked'[r][s] : x = <<r, i>>)
          <=> /\ \E r \in Threads : \E i \in 1 .. unacked[r][s] : x = <<r, i>>
              /\ x \notin D
      BY <1>2, <2>2
    <3> QED BY <2>1, <3>1, GotMember
  <2> QED BY <2>3
<1> HIDE DEF D
<1>6. Got(s) \cap D = D
  BY <1>4
<1>7. IsFiniteSet(Got(s)') /\ Cardinality(Got(s)') = Cardinality(Got(s)) - n
  BY <1>3, <1>5, <1>6, HandFinite, FS_Difference, ZenonT(30)
<1>8. /\ Cardinality(Got(s)) \in Nat /\ Cardinality(Readers(s)) \in Nat
      /\ Cardinality(Got(s)') \in Nat
  BY <1>7, HandFinite, FS_CardinalityType
<1> QED BY <1>1, <1>7, <1>8 DEF InHand

-----------------------------------------------------------------------------
(* The channel.                                                             *)

\* A set of CQs can be counted.
LEMMA Countable ==
  ASSUME NEW S \in SUBSET CQs
  PROVE  IsFiniteSet(S) /\ Cardinality(S) \in 0 .. Cardinality(CQs)
<1>1. IsFiniteSet(S) /\ Cardinality(S) <= Cardinality(CQs)
  BY EventsAssumption, FS_Subset
<1>2. Cardinality(S) \in Nat /\ Cardinality(CQs) \in Nat
  BY <1>1, EventsAssumption, FS_CardinalityType
<1> QED BY <1>1, <1>2

\* An object that does not enter or leave the set of the counted CQs, and that
\* leaves the states "none" and "dead" only with an open channel.
LEMMA StaysCounted ==
  ASSUME ChannelInv, NEW o \in Objects, NEW l \in State,
         st' = [st EXCEPT ![o] = l], UNCHANGED channel,
         st[o] \in {"live", "waiting", "asleep", "freed"}
           <=> l \in {"live", "waiting", "asleep", "freed"},
         st[o] \in {"none", "dead"} /\ o \in CQs => channel.state = "open"
  PROVE  /\ st' \in [Objects -> State]
         /\ Counted' = Counted
         /\ \A q \in CQs : st'[q] \notin {"none", "dead"} => channel'.state = "open"
<1>1. st \in [Objects -> State]
  BY DEF ChannelInv, TypeOK
<1>2. Counted' = Counted
  BY <1>1 DEF Counted, Objects
<1> QED BY <1>1, <1>2 DEF ChannelInv, Objects

\* What a step does to the channel and to the states of the objects.
LEMMA ChannelStep ==
  ASSUME ChannelInv, [Next]_vars
  PROVE  /\ channel'.state \in {"none", "open", "closed"}
         /\ channel' = [state |-> channel'.state, refcnt |-> channel'.refcnt]
         /\ st' \in [Objects -> State]
         /\ channel'.refcnt = Cardinality(Counted')
         /\ \A q \in CQs : st'[q] \notin {"none", "dead"} => channel'.state = "open"
<1> DEFINE Goal == /\ channel'.state \in {"none", "open", "closed"}
                   /\ channel' = [state |-> channel'.state, refcnt |-> channel'.refcnt]
                   /\ st' \in [Objects -> State]
                   /\ channel'.refcnt = Cardinality(Counted')
                   /\ \A q \in CQs : st'[q] \notin {"none", "dead"} => channel'.state = "open"
<1> SUFFICES Goal OBVIOUS
<1>0. /\ channel.state \in {"none", "open", "closed"}
      /\ channel = [state |-> channel.state, refcnt |-> channel.refcnt]
      /\ st \in [Objects -> State] /\ CQs \subseteq Objects
      /\ channel.refcnt = Cardinality(Counted)
      /\ \A q \in CQs : st[q] \notin {"none", "dead"} => channel.state = "open"
  BY DEF ChannelInv, TypeOK, Objects
<1>a. IsFiniteSet(Counted) /\ Cardinality(Counted) \in Nat
  BY Countable DEF Counted
<1>1. CASE UNCHANGED <<channel, st>>
  BY <1>0, <1>1 DEF Counted
<1>2. CASE ibv_create_comp_channel
  <2>1. Counted = {} /\ Counted' = Counted
    BY <1>0, <1>2 DEF ibv_create_comp_channel, Counted
  <2>2. channel'.refcnt = Cardinality(Counted')
    BY <1>2, <2>1, FS_EmptySet DEF ibv_create_comp_channel
  <2> QED BY <1>0, <1>2, <2>2 DEF ibv_create_comp_channel
<1>3. CASE ibv_destroy_comp_channel
  <2>1. Counted = {} /\ Counted' = Counted
    BY <1>0, <1>a, <1>3, FS_EmptySet DEF ibv_destroy_comp_channel, Counted
  <2>2. \A q \in CQs : st[q] \in {"none", "dead"}
    BY <1>0, <1>3, <2>1 DEF ibv_destroy_comp_channel, Counted, State
  <2> QED BY <1>0, <1>3, <2>1, <2>2, ZenonT(30) DEF ibv_destroy_comp_channel
<1>4. ASSUME NEW o \in Objects, NEW l \in State,
             st' = [st EXCEPT ![o] = l], UNCHANGED channel,
             st[o] \in {"live", "waiting", "asleep", "freed"}
               <=> l \in {"live", "waiting", "asleep", "freed"},
             st[o] \in {"none", "dead"} /\ o \in CQs => channel.state = "open"
      PROVE  Goal
  BY <1>0, <1>4, StaysCounted, ZenonT(30)
<1>5. ASSUME NEW o \in Objects, Create(o) \/ ibv_cmd_destroy(o) \/ DestroyDisassociated(o)
                               \/ CondWait(o) \/ Free(o)
      PROVE  Goal
  <2>1. CASE Create(o)
    BY <2>1, <1>4, ZenonT(30) DEF Create, State
  <2>2. CASE ibv_cmd_destroy(o)
    BY <2>2, <1>4, ZenonT(30) DEF ibv_cmd_destroy, State
  <2>3. CASE DestroyDisassociated(o)
    BY <2>3, <1>4, ZenonT(30) DEF DestroyDisassociated, State
  <2>4. CASE CondWait(o)
    BY <2>4, <1>4, ZenonT(30) DEF CondWait, State
  <2>5. CASE Free(o)
    BY <2>5, <1>4, ZenonT(30) DEF Free, State
  <2> QED BY <1>5, <2>1, <2>2, <2>3, <2>4, <2>5
<1>6. ASSUME NEW o \in Objects, verbs_init_cq(o) PROVE Goal
  <2>1. st' = [st EXCEPT ![o] = "live"] /\ st[o] = "made" /\ "live" \in State
    BY <1>6 DEF verbs_init_cq, State
  <2>2. CASE o \in CQs
    <3>1. Counted' = Counted \cup {o} /\ o \notin Counted
      BY <1>0, <2>1, <2>2 DEF Counted
    <3>2. Cardinality(Counted') = Cardinality(Counted) + 1
      BY <1>a, <3>1, FS_AddElement
    <3>3. channel' = [channel EXCEPT !.refcnt = @ + 1]
      BY <1>6, <2>2 DEF verbs_init_cq
    <3> QED BY <1>0, <2>1, <2>2, <3>2, <3>3
  <2>3. CASE o \notin CQs
    <3>1. Counted' = Counted /\ UNCHANGED channel
      BY <1>0, <1>6, <2>1, <2>3 DEF Counted, verbs_init_cq
    <3> QED BY <1>0, <2>1, <2>3, <3>1
  <2> QED BY <2>2, <2>3
<1>7. ASSUME NEW o \in Objects, ibv_destroy_cq(o) PROVE Goal
  <2>1. st' = [st EXCEPT ![o] = "dead"] /\ st[o] = "freed" /\ "dead" \in State
    BY <1>7 DEF ibv_destroy_cq, State
  <2>2. CASE o \in CQs
    <3>1. Counted' = Counted \ {o} /\ o \in Counted
      BY <1>0, <2>1, <2>2 DEF Counted
    <3>2. Cardinality(Counted') = Cardinality(Counted) - 1
      BY <1>a, <3>1, FS_RemoveElement
    <3>3. channel' = [channel EXCEPT !.refcnt = @ - 1]
      BY <1>7, <2>2 DEF ibv_destroy_cq
    <3> QED BY <1>0, <2>1, <2>2, <3>2, <3>3
  <2>3. CASE o \notin CQs
    <3>1. Counted' = Counted /\ UNCHANGED channel
      BY <1>0, <1>7, <2>1, <2>3 DEF Counted, ibv_destroy_cq
    <3> QED BY <1>0, <2>1, <2>3, <3>1
  <2> QED BY <2>2, <2>3
<1>8. ASSUME NEW t \in Threads, NEW s \in Streams, AckSome(t, s) PROVE Goal
  <2>1. s[2] \in Objects
    BY DEF Streams, Objects
  <2>2. CASE st[s[2]] = "asleep"
    <3>1. st' = [st EXCEPT ![s[2]] = "waiting"] /\ UNCHANGED channel
      BY <1>8, <2>2 DEF AckSome, Ack
    <3> QED BY <2>1, <2>2, <3>1, <1>4, ZenonT(30) DEF State
  <2>3. CASE st[s[2]] # "asleep"
    <3>1. UNCHANGED <<channel, st>>
      BY <1>0, <1>8, <2>1, <2>3 DEF AckSome, Ack
    <3> QED BY <1>1, <3>1
  <2> QED BY <2>2, <2>3
<1>9. CASE UNCHANGED vars
  BY <1>1, <1>9 DEF vars
<1>10. CASE Disassociate
  BY <1>1, <1>10 DEF Disassociate
<1>11. ASSUME NEW s \in Streams, KernelEvent(s) \/ \E t \in Threads : GetEvent(t, s)
       PROVE  Goal
  BY <1>1, <1>11 DEF KernelEvent, GetEvent
<1>12. ASSUME NEW t \in Threads, GotEvent(t) PROVE Goal
  BY <1>1, <1>12 DEF GotEvent
<1> HIDE DEF Goal
<1>13. CASE \E o \in Objects :
              \/ Create(o) \/ verbs_init_cq(o)
              \/ ibv_cmd_destroy(o) \/ DestroyDisassociated(o) \/ Destroying(o)
  BY <1>5, <1>6, <1>7, <1>13 DEF Destroying
<1>14. CASE \E t \in Threads : GotEvent(t) \/ \E s \in Streams : AckSome(t, s)
  BY <1>8, <1>12, <1>14
<1> QED BY <1>2, <1>3, <1>9, <1>10, <1>11, <1>13, <1>14 DEF Next

\* Every step keeps the variables in their types.
LEMMA TypeStep ==
  ASSUME ChannelInv, [Next]_vars
  PROVE  TypeOK'
<1> DEFINE Goal == /\ completed' \in [Streams -> 0 .. WORD - 1]
                   /\ reported' \in [Streams -> 0 .. WORD - 1]
                   /\ pending' \in [Streams -> Nat]
                   /\ made' \in 0 .. MaxEvents
                   /\ reading' \in [Threads -> Streams \cup {None}]
                   /\ unacked' \in [Threads -> [Streams -> Nat]]
                   /\ gone' \in BOOLEAN
<1>1. channel' \in [state : {"none", "open", "closed"}, refcnt : 0 .. Cardinality(CQs)]
  <2>1. Cardinality(Counted') \in 0 .. Cardinality(CQs)
    BY Countable DEF Counted
  <2> QED BY <2>1, ChannelStep
<1>2. st' \in [Objects -> State]
  BY ChannelStep
<1> SUFFICES Goal
  BY <1>1, <1>2 DEF TypeOK
<1>0. /\ TypeOK /\ WORD \in Nat /\ WORD > 1 /\ MaxEvents \in Nat
  BY EventsAssumption DEF ChannelInv
<1>3. CASE UNCHANGED <<completed, events, gone>>
  BY <1>0, <1>3 DEF TypeOK, events
<1>4. ASSUME NEW o \in Objects, verbs_init_cq(o) PROVE Goal
  BY <1>0, <1>4 DEF TypeOK, verbs_init_cq, events
<1>5. ASSUME NEW o \in Objects, ibv_cmd_destroy(o) PROVE Goal
  BY <1>0, <1>5 DEF TypeOK, ibv_cmd_destroy
<1>6. ASSUME NEW o \in Objects,
             Create(o) \/ DestroyDisassociated(o) \/ Destroying(o)
      PROVE  Goal
  BY <1>3, <1>6 DEF Create, DestroyDisassociated, Destroying, CondWait, Free, ibv_destroy_cq
<1>7. ASSUME NEW s \in Streams, KernelEvent(s) PROVE Goal
  BY <1>0, <1>7 DEF TypeOK, KernelEvent
<1>8. ASSUME NEW s \in Streams, NEW t \in Threads, GetEvent(t, s) PROVE Goal
  <2>1. (reported[s] + 1) % WORD \in 0 .. WORD - 1
    <3>1. reported[s] + 1 \in Nat
      BY <1>0 DEF TypeOK
    <3> QED BY <3>1, Wrapped
  <2> QED BY <1>0, <1>8, <2>1 DEF TypeOK, GetEvent
<1>9. ASSUME NEW t \in Threads, GotEvent(t) PROVE Goal
  <2>1. reading[t] \in Streams
    BY <1>0, <1>9 DEF TypeOK, GotEvent
  <2> QED BY <1>0, <1>9, <2>1 DEF TypeOK, GotEvent
<1>10. ASSUME NEW t \in Threads, NEW s \in Streams, AckSome(t, s) PROVE Goal
  <2>1. PICK n \in 1 .. MaxEvents : Ack(t, s, n)
    BY <1>10 DEF AckSome
  <2>2. (completed[s] + n) % WORD \in 0 .. WORD - 1
    <3>1. completed[s] + n \in Nat
      BY <1>0 DEF TypeOK
    <3> QED BY <3>1, Wrapped
  <2>3. unacked[t][s] - n \in Nat
    BY <1>0, <2>1 DEF TypeOK, Ack
  <2> QED BY <1>0, <2>1, <2>2, <2>3 DEF TypeOK, Ack
<1>11. CASE Disassociate
  BY <1>0, <1>11 DEF TypeOK, Disassociate
<1>12. CASE ibv_create_comp_channel \/ ibv_destroy_comp_channel \/ UNCHANGED vars
  BY <1>3, <1>12 DEF ibv_create_comp_channel, ibv_destroy_comp_channel, vars, events
<1> HIDE DEF Goal
<1>13. CASE \E t \in Threads : GotEvent(t) \/ \E s \in Streams : AckSome(t, s)
  BY <1>9, <1>10, <1>13
<1>14. CASE \E s \in Streams : KernelEvent(s) \/ \E t \in Threads : GetEvent(t, s)
  BY <1>7, <1>8, <1>14
<1> QED BY <1>4, <1>5, <1>6, <1>11, <1>12, <1>13, <1>14 DEF Next

\* Nothing exists at first.
LEMMA ChannelInit ==
  ASSUME Init
  PROVE  ChannelInv
<1>1. Counted = {}
  BY DEF Init, Counted, Objects
<1>2. 0 \in 0 .. Cardinality(CQs) /\ 0 \in 0 .. WORD - 1 /\ 0 \in 0 .. MaxEvents
  BY EventsAssumption, FS_CardinalityType
<1>3. TypeOK
  BY <1>2, ZenonT(30) DEF Init, TypeOK, State
<1> QED BY <1>1, <1>3, FS_EmptySet DEF Init, ChannelInv, Objects

\* For any CQs: the channel is closed only when none of them is left, and can be
\* closed then (ibv_destroy_comp_channel finds refcnt at zero).
THEOREM ChannelAlwaysCounted == Spec => []ChannelCounted
<1>1. Init => ChannelInv
  BY ChannelInit
<1>2. ChannelInv /\ [Next]_vars => ChannelInv'
  BY ChannelStep, TypeStep DEF ChannelInv
<1>3. ChannelInv => ChannelCounted
  <2> SUFFICES ASSUME ChannelInv PROVE ChannelCounted
    OBVIOUS
  <2>1. ChannelOutlives
    BY DEF ChannelInv, ChannelOutlives
  <2>2. RefcntExact
    <3> SUFFICES ASSUME \A q \in CQs : st[q] \in {"none", "dead"} PROVE channel.refcnt = 0
      BY DEF RefcntExact
    <3>1. Counted = {}
      BY DEF Counted
    <3> QED BY <3>1, FS_EmptySet DEF ChannelInv
  <2> QED BY <2>1, <2>2 DEF ChannelCounted
<1> QED BY <1>1, <1>2, <1>3, PTL DEF Spec

-----------------------------------------------------------------------------
(* The events.                                                              *)

\* Steps that neither get nor acknowledge an event leave them in hand.
LEMMA HandUnmoved ==
  ASSUME UNCHANGED <<unacked, reading>>
  PROVE  \A s \in Streams : InHand(s)' = InHand(s)
BY SameHand

\* The events in hand after the read of a get call,
LEMMA HandAfterGet ==
  ASSUME TypeOK, NEW t \in Threads, NEW r \in Streams, GetEvent(t, r), NEW s \in Streams
  PROVE  InHand(s)' = IF s = r THEN InHand(s) + 1 ELSE InHand(s)
<1>1. r # None /\ s # None
  BY DEF Streams, None
<1>2. CASE s = r
  BY <1>1, <1>2, TakesOne, ZenonT(30) DEF GetEvent
<1>3. CASE s # r
  <2>1. \A u \in Threads : reading'[u] = s <=> reading[u] = s
    BY <1>1, <1>3 DEF GetEvent, TypeOK
  <2> QED BY <1>3, <2>1, SameHand DEF GetEvent
<1> QED BY <1>2, <1>3

\* after the rest of it,
LEMMA HandAfterGot ==
  ASSUME TypeOK, NEW t \in Threads, GotEvent(t), NEW s \in Streams
  PROVE  InHand(s)' = InHand(s)
<1>1. s # None /\ reading[t] \in Streams
  BY DEF Streams, None, GotEvent, TypeOK
<1>2. CASE s = reading[t]
  BY <1>2, KeepsOne, ZenonT(30) DEF GotEvent
<1>3. CASE s # reading[t]
  <2>1. \A u \in Threads : reading'[u] = s <=> reading[u] = s
    BY <1>1, <1>3 DEF GotEvent, TypeOK
  <2>2. \A u \in Threads : unacked'[u][s] = unacked[u][s]
    BY <1>1, <1>3 DEF GotEvent, TypeOK
  <2> QED BY <2>1, <2>2, SameHand
<1> QED BY <1>2, <1>3

\* and after an acknowledgement.
LEMMA HandAfterAck ==
  ASSUME TypeOK, NEW t \in Threads, NEW r \in Streams, NEW n \in 1 .. MaxEvents,
         Ack(t, r, n), NEW s \in Streams
  PROVE  /\ InHand(s)' = IF s = r THEN InHand(s) - n ELSE InHand(s)
         /\ s = r => InHand(s) >= n
<1>1. n \in Nat
  BY EventsAssumption
<1>2. CASE s = r
  BY <1>1, <1>2, GivesBack, ZenonT(30) DEF Ack
<1>3. CASE s # r
  <2>1. \A u \in Threads : unacked'[u][s] = unacked[u][s]
    BY <1>3 DEF Ack, TypeOK
  <2>2. \A u \in Threads : reading'[u] = s <=> reading[u] = s
    BY DEF Ack
  <2>3. InHand(s)' = InHand(s)
    BY <2>1, <2>2, SameHand
  <2> QED BY <1>3, <2>3
<1> QED BY <1>2, <1>3

\* A step that moves no event and no counter, and object o at most, keeps the
\* counters of a stream matched.
LEMMA QuietStep ==
  ASSUME EventsInv, NEW s \in Streams,
         InHand(s)' = InHand(s), completed'[s] = completed[s], reported'[s] = reported[s],
         pending'[s] > 0 => st'[s[2]] = "live" /\ ~gone',
         st'[s[2]] \in {"none", "made"} => st[s[2]] \in {"none", "made"}
  PROVE  StreamInv(s)'
BY DEF EventsInv, StreamInv

\* Every step keeps the counters of every stream matched.
LEMMA StreamStep ==
  ASSUME EventsInv, [Next]_vars, NEW s \in Streams
  PROVE  StreamInv(s)'
<1>0. /\ TypeOK /\ ChannelInv /\ StreamInv(s) /\ InHand(s) \in Nat
      /\ WORD \in Nat /\ WORD > 1 /\ MaxEvents \in Nat
  BY EventsAssumption, HandFinite DEF EventsInv, ChannelInv
<1>a. /\ completed[s] \in 0 .. WORD - 1 /\ reported[s] \in 0 .. WORD - 1
      /\ pending[s] \in Nat /\ s[2] \in Objects /\ st \in [Objects -> State]
  BY <1>0 DEF TypeOK, Streams, Objects
<1>1. CASE UNCHANGED <<st, completed, reported, pending, reading, unacked, gone>>
  BY <1>0, <1>1, HandUnmoved DEF StreamInv
<1>2. ASSUME NEW o \in Objects, NEW l \in State \ {"none"},
             st[o] # "live", l = "made" => st[o] = "none",
             st' = [st EXCEPT ![o] = l],
             UNCHANGED <<completed, reported, pending, reading, unacked, gone>>
      PROVE  StreamInv(s)'
  <2>1. InHand(s)' = InHand(s)
    BY <1>2, HandUnmoved
  <2>2. pending'[s] > 0 => st'[s[2]] = "live" /\ ~gone'
    BY <1>0, <1>a, <1>2 DEF StreamInv
  <2>3. st'[s[2]] \in {"none", "made"} => st[s[2]] \in {"none", "made"}
    BY <1>a, <1>2
  <2> QED BY <1>2, <2>1, <2>2, <2>3, QuietStep
<1>3. ASSUME NEW o \in Objects, Create(o) \/ Destroying(o) PROVE StreamInv(s)'
  BY <1>2, <1>3 DEF Create, Destroying, CondWait, Free, ibv_destroy_cq, State, events
<1>4. ASSUME NEW o \in Objects, DestroyDisassociated(o) PROVE StreamInv(s)'
  <2>1. InHand(s)' = InHand(s)
    BY <1>4, HandUnmoved DEF DestroyDisassociated, events
  <2>2. ~(pending'[s] > 0)
    BY <1>0, <1>4 DEF DestroyDisassociated, events, StreamInv
  <2>3. st'[s[2]] \in {"none", "made"} => st[s[2]] \in {"none", "made"}
    BY <1>a, <1>4 DEF DestroyDisassociated
  <2> QED BY <1>4, <2>1, <2>2, <2>3, QuietStep DEF DestroyDisassociated, events
<1>5. ASSUME NEW o \in Objects, verbs_init_cq(o) PROVE StreamInv(s)'
  <2>1. InHand(s)' = InHand(s)
    BY <1>5, HandUnmoved DEF verbs_init_cq, events
  <2>2. completed'[s] = completed[s]
    BY <1>0, <1>5 DEF verbs_init_cq, StreamsOf, StreamInv
  <2>3. pending'[s] > 0 => st'[s[2]] = "live" /\ ~gone'
    BY <1>0, <1>a, <1>5 DEF verbs_init_cq, events, StreamInv
  <2>4. st'[s[2]] \in {"none", "made"} => st[s[2]] \in {"none", "made"}
    BY <1>a, <1>5 DEF verbs_init_cq
  <2> QED BY <1>5, <2>1, <2>2, <2>3, <2>4, QuietStep DEF verbs_init_cq, events
<1>6. ASSUME NEW o \in Objects, ibv_cmd_destroy(o) PROVE StreamInv(s)'
  <2>1. InHand(s)' = InHand(s)
    BY <1>6, HandUnmoved DEF ibv_cmd_destroy
  <2>2. pending'[s] > 0 => st'[s[2]] = "live" /\ ~gone'
    BY <1>0, <1>a, <1>6 DEF ibv_cmd_destroy, StreamsOf, StreamInv
  <2>3. st'[s[2]] \in {"none", "made"} => st[s[2]] \in {"none", "made"}
    BY <1>a, <1>6 DEF ibv_cmd_destroy
  <2> QED BY <1>6, <2>1, <2>2, <2>3, QuietStep DEF ibv_cmd_destroy
<1>7. ASSUME NEW r \in Streams, KernelEvent(r) PROVE StreamInv(s)'
  <2>1. InHand(s)' = InHand(s)
    BY <1>7, HandUnmoved DEF KernelEvent
  <2>2. pending'[s] > 0 => st'[s[2]] = "live" /\ ~gone'
    <3>1. CASE s = r
      BY <1>7, <3>1 DEF KernelEvent
    <3>2. CASE s # r
      BY <1>0, <1>7, <3>2 DEF KernelEvent, StreamInv, TypeOK
    <3> QED BY <3>1, <3>2
  <2> QED BY <1>7, <2>1, <2>2, QuietStep DEF KernelEvent
<1>8. ASSUME NEW t \in Threads, NEW r \in Streams, GetEvent(t, r) PROVE StreamInv(s)'
  <2>1. InHand(s)' = IF s = r THEN InHand(s) + 1 ELSE InHand(s)
    BY <1>0, <1>8, HandAfterGet
  <2>2. CASE s = r
    <3>1. /\ InHand(s)' = InHand(s) + 1 /\ InHand(s) + 1 < WORD
          /\ reported'[s] = (reported[s] + 1) % WORD /\ completed'[s] = completed[s]
          /\ pending[s] > 0 /\ UNCHANGED <<st, gone>>
      BY <1>0, <1>8, <2>1, <2>2 DEF GetEvent, TypeOK
    <3>2. st[s[2]] = "live" /\ ~gone
      BY <1>0, <3>1 DEF StreamInv
    <3> DEFINE a == completed[s] + InHand(s)
    <3>3. a \in Nat /\ reported[s] = a % WORD
      BY <1>0, <1>a DEF StreamInv
    <3>4. completed[s] + (InHand(s) + 1) = a + 1
      BY <1>0, <1>a
    <3> HIDE DEF a
    <3>5. ((a % WORD) + 1) % WORD = (a + 1) % WORD
      BY <3>3, AddWrapped
    <3>6. (completed'[s] + InHand(s)') % WORD = reported'[s]
      BY <3>1, <3>3, <3>4, <3>5
    <3> QED BY <3>1, <3>2, <3>6 DEF StreamInv
  <2>3. CASE s # r
    <3>1. InHand(s)' = InHand(s) /\ UNCHANGED <<st, gone, completed>>
          /\ reported'[s] = reported[s] /\ pending'[s] = pending[s]
      BY <1>0, <1>8, <2>1, <2>3 DEF GetEvent, TypeOK
    <3> QED BY <1>0, <3>1 DEF StreamInv
  <2> QED BY <2>2, <2>3
<1>9. ASSUME NEW t \in Threads, GotEvent(t) PROVE StreamInv(s)'
  <2>1. InHand(s)' = InHand(s)
    BY <1>0, <1>9, HandAfterGot
  <2> QED BY <1>0, <1>9, <2>1 DEF GotEvent, StreamInv
<1>10. ASSUME NEW t \in Threads, NEW r \in Streams, AckSome(t, r) PROVE StreamInv(s)'
  <2>1. PICK n \in 1 .. MaxEvents : Ack(t, r, n)
    BY <1>10 DEF AckSome
  <2>2. /\ InHand(s)' = IF s = r THEN InHand(s) - n ELSE InHand(s)
        /\ s = r => InHand(s) >= n
    BY <1>0, <2>1, HandAfterAck
  <2>3. /\ st'[s[2]] = "live" <=> st[s[2]] = "live"
        /\ st'[s[2]] \in {"none", "made"} => st[s[2]] \in {"none", "made"}
    <3>1. r[2] \in Objects
      BY DEF Streams, Objects
    <3> QED BY <1>a, <2>1, <3>1 DEF Ack
  <2>4. CASE s = r
    <3>1. /\ InHand(s)' = InHand(s) - n /\ n \in Nat /\ n > 0
          /\ completed'[s] = (completed[s] + n) % WORD
          /\ UNCHANGED <<reported, pending, gone>>
      BY <1>0, <2>1, <2>2, <2>4 DEF Ack, TypeOK
    <3>2. InHand(s)' \in Nat
      BY <1>0, <2>2, <2>4, <3>1
    <3> DEFINE a == completed[s] + n  b == InHand(s) - n
    <3>3. a \in Nat /\ b \in Nat /\ a + b = completed[s] + InHand(s)
      BY <1>0, <1>a, <3>1, <3>2
    <3> HIDE DEF a, b
    <3>4. ((a % WORD) + b) % WORD = (a + b) % WORD
      BY <3>3, AddWrapped
    <3>5. (completed'[s] + InHand(s)') % WORD = reported'[s]
      BY <1>0, <3>1, <3>3, <3>4 DEF StreamInv, a, b
    <3>6. InHand(s) > 0
      BY <1>0, <3>1, <3>2
    <3>7. st'[s[2]] \notin {"none", "made"}
      BY <1>0, <2>3, <3>6 DEF StreamInv
    <3> QED BY <1>0, <2>3, <3>1, <3>2, <3>5, <3>7 DEF StreamInv
  <2>5. CASE s # r
    <3>1. InHand(s)' = InHand(s) /\ UNCHANGED <<reported, pending, gone>>
          /\ completed'[s] = completed[s]
      BY <1>0, <2>1, <2>2, <2>5 DEF Ack, TypeOK
    <3> QED BY <1>0, <2>3, <3>1 DEF StreamInv
  <2> QED BY <2>4, <2>5
<1>11. CASE Disassociate
  <2>1. InHand(s)' = InHand(s)
    BY <1>11, HandUnmoved DEF Disassociate
  <2> QED BY <1>0, <1>11, <2>1 DEF Disassociate, StreamInv
<1>12. CASE ibv_create_comp_channel \/ ibv_destroy_comp_channel \/ UNCHANGED vars
  BY <1>1, <1>12 DEF ibv_create_comp_channel, ibv_destroy_comp_channel, vars, events
<1>13. CASE \E t \in Threads : GotEvent(t) \/ \E r \in Streams : AckSome(t, r)
  BY <1>9, <1>10, <1>13
<1>14. CASE \E r \in Streams : KernelEvent(r) \/ \E t \in Threads : GetEvent(t, r)
  BY <1>7, <1>8, <1>14
<1>15. CASE \E o \in Objects :
              \/ Create(o) \/ verbs_init_cq(o)
              \/ ibv_cmd_destroy(o) \/ DestroyDisassociated(o) \/ Destroying(o)
  BY <1>3, <1>4, <1>5, <1>6, <1>15
<1> QED BY <1>11, <1>12, <1>13, <1>14, <1>15 DEF Next

\* An object that a step frees has no events in hand, unless the device is gone.
LEMMA PinStep ==
  ASSUME EventsInv, [Next]_vars
  PROVE  PinsUntilGone'
<1> SUFFICES ASSUME NEW s \in Streams, ~gone', InHand(s)' > 0
             PROVE  st'[s[2]] \notin {"freed", "dead"}
  BY DEF PinsUntilGone, EventsPinObject
<1>0. /\ TypeOK /\ StreamInv(s) /\ InHand(s) \in Nat
      /\ s[2] \in Objects /\ st \in [Objects -> State]
      /\ completed[s] \in 0 .. WORD - 1
      /\ ~gone /\ InHand(s) > 0 => st[s[2]] \notin {"freed", "dead"}
  <2>1. TypeOK
    BY DEF EventsInv, ChannelInv
  <2>2. InHand(s) \in Nat
    BY <2>1, HandFinite
  <2> QED BY <2>1, <2>2 DEF EventsInv, TypeOK, Streams, Objects, PinsUntilGone, EventsPinObject
<1>1. CASE UNCHANGED <<st, reading, unacked, gone>>
  BY <1>0, <1>1, HandUnmoved
<1>2. ASSUME NEW o \in Objects, NEW l \in State,
             l \in {"freed", "dead"} => st[o] = "freed",
             st' = [st EXCEPT ![o] = l], UNCHANGED <<reading, unacked, gone>>
      PROVE  st'[s[2]] \notin {"freed", "dead"}
  <2>1. InHand(s)' = InHand(s)
    BY <1>2, HandUnmoved
  <2> QED BY <1>0, <1>2, <2>1
<1>3. ASSUME NEW o \in Objects,
             \/ Create(o) \/ verbs_init_cq(o) \/ ibv_cmd_destroy(o)
             \/ CondWait(o) \/ ibv_destroy_cq(o)
      PROVE  st'[s[2]] \notin {"freed", "dead"}
  BY <1>2, <1>3 DEF Create, verbs_init_cq, ibv_cmd_destroy, CondWait, ibv_destroy_cq, State, events
<1>4. ASSUME NEW o \in Objects, Free(o) PROVE st'[s[2]] \notin {"freed", "dead"}
  <2>1. InHand(s)' = InHand(s) /\ gone' = gone
    BY <1>4, HandUnmoved DEF Free, events
  <2>2. CASE s[2] = o
    <3>1. completed[s] = reported[s]
      BY <1>4, <2>2 DEF Free, Acknowledged, StreamsOf
    <3>2. InHand(s) = 0
      BY <1>0, <3>1, NothingAdded DEF StreamInv
    <3> QED BY <2>1, <3>2
  <2>3. CASE s[2] # o
    BY <1>0, <1>4, <2>1, <2>3 DEF Free
  <2> QED BY <2>2, <2>3
<1>5. ASSUME NEW o \in Objects, DestroyDisassociated(o) PROVE FALSE
  BY <1>5 DEF DestroyDisassociated
<1>6. ASSUME NEW r \in Streams, KernelEvent(r) PROVE st'[s[2]] \notin {"freed", "dead"}
  BY <1>1, <1>6 DEF KernelEvent
<1>7. ASSUME NEW t \in Threads, NEW r \in Streams, GetEvent(t, r)
      PROVE  st'[s[2]] \notin {"freed", "dead"}
  <2>1. InHand(s)' = IF s = r THEN InHand(s) + 1 ELSE InHand(s)
    BY <1>0, <1>7, HandAfterGet
  <2>2. CASE s = r
    BY <1>0, <1>7, <2>2 DEF GetEvent, StreamInv
  <2>3. CASE s # r
    BY <1>0, <1>7, <2>1, <2>3 DEF GetEvent
  <2> QED BY <2>2, <2>3
<1>8. ASSUME NEW t \in Threads, GotEvent(t) PROVE st'[s[2]] \notin {"freed", "dead"}
  <2>1. InHand(s)' = InHand(s)
    BY <1>0, <1>8, HandAfterGot
  <2> QED BY <1>0, <1>8, <2>1 DEF GotEvent
<1>9. ASSUME NEW t \in Threads, NEW r \in Streams, AckSome(t, r)
      PROVE  st'[s[2]] \notin {"freed", "dead"}
  <2>1. PICK n \in 1 .. MaxEvents : Ack(t, r, n)
    BY <1>9 DEF AckSome
  <2>2. InHand(s) > 0
    <3>1. n \in Nat /\ n > 0
      BY EventsAssumption
    <3>2. InHand(s)' = IF s = r THEN InHand(s) - n ELSE InHand(s)
      BY <1>0, <2>1, HandAfterAck
    <3> QED BY <1>0, <3>1, <3>2
  <2>3. r[2] \in Objects
    BY DEF Streams, Objects
  <2> QED BY <1>0, <2>1, <2>2, <2>3 DEF Ack
<1>10. CASE Disassociate
  BY <1>10 DEF Disassociate
<1>11. CASE ibv_create_comp_channel \/ ibv_destroy_comp_channel \/ UNCHANGED vars
  BY <1>1, <1>11 DEF ibv_create_comp_channel, ibv_destroy_comp_channel, vars, events
<1>12. CASE \E t \in Threads : GotEvent(t) \/ \E r \in Streams : AckSome(t, r)
  BY <1>8, <1>9, <1>12
<1>13. CASE \E r \in Streams : KernelEvent(r) \/ \E t \in Threads : GetEvent(t, r)
  BY <1>6, <1>7, <1>13
<1>14. CASE \E o \in Objects :
              \/ Create(o) \/ verbs_init_cq(o)
              \/ ibv_cmd_destroy(o) \/ DestroyDisassociated(o) \/ Destroying(o)
  BY <1>3, <1>4, <1>5, <1>14 DEF Destroying
<1> QED BY <1>10, <1>11, <1>12, <1>13, <1>14 DEF Next

\* A thread that a step sends or leaves asleep has an event to wait for.
LEMMA SleepStep ==
  ASSUME EventsInv, [Next]_vars
  PROVE  SleepsForAck'
<1> SUFFICES ASSUME NEW p \in Objects, st'[p] = "asleep"
             PROVE  \E s \in StreamsOf(p) : InHand(s)' > 0
  BY DEF SleepsForAck, StreamsOf
<1> DEFINE Goal == \E s \in StreamsOf(p) : InHand(s)' > 0
<1>0. /\ TypeOK /\ st \in [Objects -> State]
      /\ st[p] = "asleep" => \E s \in StreamsOf(p) : InHand(s) > 0
      /\ \A s \in Streams : StreamInv(s)
  BY DEF EventsInv, ChannelInv, TypeOK, SleepsForAck
<1>a. \A s \in Streams : InHand(s) \in Nat
  BY <1>0, HandFinite
<1>b. StreamsOf(p) \subseteq Streams
  BY DEF StreamsOf
<1>1. ASSUME st[p] = "asleep", \A s \in StreamsOf(p) : InHand(s)' >= InHand(s),
             \A s \in StreamsOf(p) : InHand(s)' \in Nat
      PROVE  Goal
  <2>1. PICK s \in StreamsOf(p) : InHand(s) > 0
    BY <1>0, <1>1
  <2>2. InHand(s)' > 0
    BY <1>1, <1>a, <1>b, <2>1
  <2> QED BY <2>2
<1>2. CASE st[p] = "asleep" /\ UNCHANGED <<reading, unacked>>
  <2>1. \A s \in StreamsOf(p) : InHand(s)' = InHand(s)
    BY <1>2, <1>b, HandUnmoved
  <2> QED BY <1>1, <1>2, <1>a, <1>b, <2>1
<1>3. ASSUME NEW o \in Objects, CondWait(o) PROVE Goal
  <2>1. \A s \in Streams : InHand(s)' = InHand(s)
    BY <1>3, HandUnmoved DEF CondWait, events
  <2>2. CASE p = o
    <3>1. PICK s \in StreamsOf(p) : completed[s] # reported[s]
      BY <1>3, <2>2 DEF CondWait, Acknowledged
    <3>2. completed[s] \in 0 .. WORD - 1 /\ InHand(s) \in Nat
          /\ (completed[s] + InHand(s)) % WORD = reported[s]
      BY <1>0, <1>a, <1>b DEF TypeOK, StreamInv
    <3>3. InHand(s) # 0
      <4> SUFFICES ASSUME InHand(s) = 0 PROVE FALSE
        OBVIOUS
      <4>1. completed[s] + InHand(s) = completed[s]
        BY <3>2, EventsAssumption
      <4> QED BY <3>1, <3>2, <4>1, Small
    <3>4. InHand(s)' > 0
      BY <1>b, <2>1, <3>2, <3>3
    <3> QED BY <3>4
  <2>3. CASE p # o
    BY <1>0, <1>2, <1>3, <2>3 DEF CondWait, events
  <2> QED BY <2>2, <2>3
<1>4. ASSUME NEW o \in Objects, NEW l \in State \ {"asleep"},
             st' = [st EXCEPT ![o] = l], UNCHANGED <<reading, unacked>>
      PROVE  Goal
  BY <1>0, <1>2, <1>4
<1>5. ASSUME NEW o \in Objects,
             \/ Create(o) \/ verbs_init_cq(o) \/ ibv_cmd_destroy(o)
             \/ DestroyDisassociated(o) \/ Free(o) \/ ibv_destroy_cq(o)
      PROVE  Goal
  BY <1>4, <1>5 DEF Create, verbs_init_cq, ibv_cmd_destroy, DestroyDisassociated, Free,
                    ibv_destroy_cq, State, events
<1>6. ASSUME NEW r \in Streams, KernelEvent(r) PROVE Goal
  BY <1>2, <1>6 DEF KernelEvent
<1>7. ASSUME NEW t \in Threads, NEW r \in Streams, GetEvent(t, r) PROVE Goal
  <2>1. \A s \in StreamsOf(p) : InHand(s)' = IF s = r THEN InHand(s) + 1 ELSE InHand(s)
    BY <1>0, <1>7, <1>b, HandAfterGet
  <2>2. \A s \in StreamsOf(p) : InHand(s)' \in Nat /\ InHand(s)' >= InHand(s)
    BY <1>a, <1>b, <2>1
  <2> QED BY <1>1, <1>7, <2>2 DEF GetEvent
<1>8. ASSUME NEW t \in Threads, GotEvent(t) PROVE Goal
  <2>1. \A s \in StreamsOf(p) : InHand(s)' = InHand(s)
    BY <1>0, <1>8, <1>b, HandAfterGot
  <2>2. \A s \in StreamsOf(p) : InHand(s)' \in Nat /\ InHand(s)' >= InHand(s)
    BY <1>a, <1>b, <2>1
  <2> QED BY <1>1, <1>8, <2>2 DEF GotEvent
<1>9. ASSUME NEW t \in Threads, NEW r \in Streams, AckSome(t, r) PROVE Goal
  <2>1. PICK n \in 1 .. MaxEvents : Ack(t, r, n)
    BY <1>9 DEF AckSome
  <2>2. r[2] # p /\ st[p] = "asleep"
    <3>1. r[2] \in Objects
      BY DEF Streams, Objects
    <3> QED BY <1>0, <2>1, <3>1 DEF Ack
  <2>3. \A s \in StreamsOf(p) : s # r
    BY <2>2 DEF StreamsOf
  <2>4. \A s \in StreamsOf(p) : InHand(s)' = InHand(s)
    BY <1>0, <1>b, <2>1, <2>3, HandAfterAck
  <2>5. \A s \in StreamsOf(p) : InHand(s)' \in Nat /\ InHand(s)' >= InHand(s)
    BY <1>a, <1>b, <2>4
  <2> QED BY <1>1, <2>2, <2>5
<1>10. CASE \/ Disassociate \/ ibv_create_comp_channel
            \/ ibv_destroy_comp_channel \/ UNCHANGED vars
  BY <1>2, <1>10 DEF Disassociate, ibv_create_comp_channel, ibv_destroy_comp_channel, vars, events
<1> HIDE DEF Goal
<1>11. CASE \E t \in Threads : GotEvent(t) \/ \E r \in Streams : AckSome(t, r)
  BY <1>8, <1>9, <1>11 DEF Goal
<1>12. CASE \E r \in Streams : KernelEvent(r) \/ \E t \in Threads : GetEvent(t, r)
  BY <1>6, <1>7, <1>12 DEF Goal
<1>13. CASE \E o \in Objects :
              \/ Create(o) \/ verbs_init_cq(o)
              \/ ibv_cmd_destroy(o) \/ DestroyDisassociated(o) \/ Destroying(o)
  BY <1>3, <1>5, <1>13 DEF Destroying, Goal
<1> QED BY <1>10, <1>11, <1>12, <1>13 DEF Next

\* The strengthened invariant is inductive.
THEOREM EventsInvariance == Spec => []EventsInv
<1>1. Init => EventsInv
  <2> SUFFICES ASSUME Init PROVE EventsInv
    OBVIOUS
  <2>1. ChannelInv
    BY ChannelInit
  <2>2. ASSUME NEW s \in Streams
        PROVE  InHand(s) = 0
    <3>1. s # None
      BY DEF Streams, None
    <3>2. Readers(s) = {}
      BY <3>1 DEF Init, Readers
    <3>3. Got(s) = {}
      <4> SUFFICES ASSUME NEW x \in Got(s) PROVE FALSE
        OBVIOUS
      <4>1. PICK t \in Threads : \E i \in 1 .. unacked[t][s] : x = <<t, i>>
        BY GotMember
      <4>2. unacked[t][s] = 0
        BY DEF Init
      <4> QED BY <4>1, <4>2
    <3> QED BY <3>2, <3>3, FS_EmptySet DEF InHand
  <2>3. ASSUME NEW s \in Streams PROVE StreamInv(s)
    <3>1. WORD \in Nat /\ WORD > 1 /\ 0 \in 0 .. WORD - 1
      BY EventsAssumption
    <3>2. 0 % WORD = 0
      BY <3>1, Small
    <3> QED BY <2>2, <3>1, <3>2 DEF Init, StreamInv
  <2>4. PinsUntilGone
    BY <2>2 DEF PinsUntilGone, EventsPinObject
  <2>5. SleepsForAck
    BY DEF Init, SleepsForAck
  <2> QED BY <2>1, <2>3, <2>4, <2>5 DEF EventsInv
<1>2. EventsInv /\ [Next]_vars => EventsInv'
  <2> SUFFICES ASSUME EventsInv, [Next]_vars PROVE EventsInv'
    OBVIOUS
  <2>1. ChannelInv'
    BY ChannelStep, TypeStep DEF EventsInv, ChannelInv
  <2>2. \A s \in Streams : StreamInv(s)'
    BY StreamStep
  <2> QED BY <2>1, <2>2, PinStep, SleepStep DEF EventsInv
<1> QED BY <1>1, <1>2, PTL DEF Spec

\* For any objects, threads and events: acknowledgements and successful gets
\* correspond one to one, however the counters wrap.
THEOREM AlwaysOneToOne == Spec => []OneToOne
<1>1. EventsInv => OneToOne
  BY DEF EventsInv, ChannelInv, StreamInv, OneToOne
<1> QED BY <1>1, EventsInvariance, PTL

\* While the device is there, no object is freed under a thread that has an event
\* of it in hand.
THEOREM AlwaysPinned == Spec => []PinsUntilGone
<1>1. EventsInv => PinsUntilGone
  BY DEF EventsInv
<1> QED BY <1>1, EventsInvariance, PTL

\* A destroying thread is asleep only while an acknowledgement is still to come.
THEOREM NeverSleepsForNothing == Spec => []SleepsForAck
<1>1. EventsInv => SleepsForAck
  BY DEF EventsInv
<1> QED BY <1>1, EventsInvariance, PTL
=============================================================================
