------------------------ MODULE ResourceTableProofs ------------------------
(***************************************************************************)
(* Proofs about ResourceTable, for any number of tasks, reports and starts *)
(* of the monitor.                                                         *)
(***************************************************************************)
EXTENDS ResourceTable, TLAPS

\* The time a leaf may take.
USE SMTT(30), ZenonT(30)

\* init_resource and ibverbs_init write one field of an entry.
LEMMA TurnsOn ==
  ASSUME NEW x \in Entry, NEW v \in BOOLEAN
  PROVE  [x EXCEPT !.on = v] \in Entry /\ [x EXCEPT !.on = v].type = x.type
  BY DEF Entry

-----------------------------------------------------------------------------
(* The arithmetic of network_monitor.                                       *)

\* A residue modulo WORD is a word, and a word is its own residue.
LEMMA Residue ==
  ASSUME NEW x \in Int
  PROVE  /\ x % WORD \in 0 .. WORD - 1
         /\ x \in 0 .. WORD - 1 => x % WORD = x
<1>1. WORD \in Nat /\ WORD > 0
  BY BandwidthAssumption
<1> QED
  BY <1>1

\* Every value that network_monitor passes to set_rate fits in 64 bits.
LEMMA BeBwFits ==
  ASSUME NEW u \in Nat, NEW r \in BeBw(u)
  PROVE  r \in 0 .. WORD - 1
<1> DEFINE d == (TOTAL_BW - u) % WORD
           left == 20 * d - Reserve(u)
<1>1. WORD \in Nat /\ WORD > 0 /\ TOTAL_BW \in Nat
  BY BandwidthAssumption
<1>2. d \in 0 .. WORD - 1
  BY <1>1, Residue
<1>3. Reserve(u) \in Nat
  BY <1>1 DEF Reserve
<1>4. r \in IF left >= 0 THEN {left \div 20}
            ELSE {(-((-left) \div 20)) % WORD, WORD - 1}
  BY DEF BeBw
<1> HIDE DEF d
<1>5. CASE left >= 0
  BY <1>1, <1>2, <1>3, <1>4, <1>5
<1>6. CASE ~(left >= 0)
  <2>1. -((-left) \div 20) \in Int
    BY <1>2, <1>3, <1>6
  <2>2. (-((-left) \div 20)) % WORD \in 0 .. WORD - 1
    BY <2>1, Residue
  <2> QED
    BY <1>1, <1>4, <1>6, <2>2
<1> QED
  BY <1>5, <1>6

\* A primary that uses at most three quarters of the link and the rate set for
\* the others add up to at most three quarters of it.
LEMMA BeBwLeavesBuffer ==
  ASSUME NEW u \in Nat, 4 * u <= 3 * TOTAL_BW, NEW r \in BeBw(u)
  PROVE  4 * (r + u) <= 3 * TOTAL_BW
<1>1. WORD \in Nat /\ TOTAL_BW \in Nat /\ TOTAL_BW < WORD
  BY BandwidthAssumption
<1>2. (TOTAL_BW - u) % WORD = TOTAL_BW - u
  BY <1>1, Residue
<1>3. Reserve(u) = 5 * TOTAL_BW
  BY <1>1 DEF Reserve
<1>4. r = (20 * (TOTAL_BW - u) - 5 * TOTAL_BW) \div 20
  BY <1>1, <1>2, <1>3 DEF BeBw
<1> QED
  BY <1>1, <1>4

-----------------------------------------------------------------------------
(* The invariant.                                                           *)

\* Every variable keeps its type, and the entries whose line the monitor has read
\* since it cleared the table have the type of the configuration file.
LEMMA InitTInv == Init => TInv
<1> SUFFICES ASSUME Init PROVE TInv
  OBVIOUS
<1>1. WORD \in Nat /\ WORD > 0 /\ NrTask \in Nat /\ Qos \in Nat /\ MaxStarts \in Nat
  BY BandwidthAssumption, TableAssumption
<1>2. table \in [Tasks -> Entry]
  BY DEF Init, Entry, ZeroEntry
<1>3. task \in [Tasks -> TaskRec]
  <2>1. [pc |-> "out", bucket |-> 0, since |-> FALSE] \in TaskRec
    BY <1>1 DEF TaskPC, TaskRec
  <2> QED
    BY <2>1 DEF Init
<1>4. tb \in [rate : 0 .. WORD - 1, burst : BOOLEAN, next : Int]
  BY <1>1 DEF Init, ZeroBucket
<1>5. slack \in (0 .. Qos) \X {0, Qos}
  BY <1>1 DEF Init
<1>6. shm = FALSE /\ mon = "off" /\ line = 0 /\ net = -1 /\ starts = 0
  BY DEF Init
<1>7. TypeOK
  <2>1. line \in 0 .. NrTask /\ starts \in 0 .. MaxStarts
    BY <1>1, <1>6
  <2> QED
    BY <1>2, <1>3, <1>4, <1>5, <1>6, <2>1, ZenonT(30) DEF TypeOK
<1> QED
  BY <1>6, <1>7 DEF TInv, Configured

LEMMA NextTInv == TInv /\ [Next]_vars => TInv'
<1> SUFFICES ASSUME TInv, [Next]_vars PROVE TInv'
  OBVIOUS
<1> USE DEF TInv
<1>c. /\ WORD \in Nat /\ WORD > 0 /\ WORD32 \in Nat /\ WORD32 > 0
      /\ NrTask \in Nat /\ NrTask > 0
      /\ Qos \in Nat /\ MaxStarts \in Nat /\ INIT_BANDWIDTH \in 0 .. WORD - 1
  BY BandwidthAssumption, TableAssumption
<1>d. (\A b \in Bandwidths : b \in Nat) /\ (\A l \in Tails : l \in Nat)
  BY TableAssumption
<1>z. ZeroEntry \in Entry /\ ZeroBucket \in [rate : 0 .. WORD - 1, burst : BOOLEAN, next : Int]
  BY <1>c DEF ZeroEntry, ZeroBucket, Entry
<1>s. <<0, 0>> \in (0 .. Qos) \X {0, Qos}
  BY <1>c
<1>1. CASE Start
  <2>1. table' \in [Tasks -> Entry]
    BY <1>1, <1>z DEF Start
  <2>2. task' \in [Tasks -> TaskRec]
    <3>1. \A i \in Tasks : [task[i] EXCEPT !.since = FALSE] \in TaskRec
      BY ZenonT(30) DEF TypeOK, TaskRec
    <3> QED
      BY <1>1, <3>1 DEF Start
  <2>3. TypeOK'
    BY <1>1, <1>c, <1>z, <1>s, <2>1, <2>2 DEF Start, TypeOK
  <2> QED
    BY <1>1, <2>3, <1>c DEF Start, Configured, Tasks
<1>2. CASE ReadLine
  <2> DEFINE ty == ConfiguredType(line)
             e == [table[line] EXCEPT !.type = ty,
                                      !.qos = IF ty = "LATENCY" THEN Qos ELSE @]
  <2>1. line \in Tasks
    BY <1>2, <1>c DEF ReadLine, TypeOK, Tasks
  <2>2. table' = [table EXCEPT ![line] = e]
    BY <1>2, <2>1, ZenonT(30) DEF ReadLine, TypeOK, Entry
  <2>3. e \in Entry /\ e.type = ty
    <3>1. table[line] \in Entry
      BY <2>1 DEF TypeOK
    <3>2. ty \in {"LATENCY", "SECONDARY"}
      BY DEF ConfiguredType
    <3> QED
      BY <3>1, <3>2, ZenonT(30) DEF Entry
  <2> HIDE DEF e, ty
  <2>4. table' \in [Tasks -> Entry]
    BY <2>1, <2>2, <2>3 DEF TypeOK
  <2>5. TypeOK'
    BY <1>2, <1>c, <2>4 DEF ReadLine, TypeOK
  <2>6. \A i \in Tasks : i < line' => table'[i].type = ConfiguredType(i)
    <3> SUFFICES ASSUME NEW i \in Tasks, i < line'
                 PROVE  table'[i].type = ConfiguredType(i)
      OBVIOUS
    <3>1. CASE i = line
      BY <2>1, <2>2, <2>3, <3>1 DEF TypeOK, ty
    <3>2. CASE i # line
      <4>1. i < line
        <5>1. line \in Int /\ line' = line + 1
          BY <1>2 DEF ReadLine, TypeOK
        <5>2. i \in Int
          BY DEF Tasks
        <5> QED
          BY <5>1, <5>2, <3>2
      <4>2. table[i].type = ConfiguredType(i)
        BY <1>2, <4>1 DEF ReadLine, Configured
      <4> QED
        BY <2>1, <2>2, <3>2, <4>2 DEF TypeOK
    <3> QED
      BY <3>1, <3>2
  <2> QED
    BY <1>2, <2>5, <2>6, ZenonT(30) DEF ReadLine, Configured
<1>3. CASE init_token_bucket
  <2>1. TypeOK'
    BY <1>3, <1>c DEF init_token_bucket, TypeOK
  <2> QED
    BY <1>3, <1>c, <2>1 DEF init_token_bucket, Configured, Tasks
<1>4. CASE init_resource
  <2> DEFINE e == [table[line] EXCEPT !.on = FALSE]
  <2>1. line \in Tasks
    BY <1>4, <1>c DEF init_resource, TypeOK, Tasks
  <2>2. table' = [table EXCEPT ![line] = e]
    BY <1>4 DEF init_resource
  <2>3. e \in Entry /\ e.type = table[line].type
    <3>1. table[line] \in Entry
      BY <2>1 DEF TypeOK
    <3> QED
      BY <3>1, TurnsOn, ZenonT(30)
  <2> HIDE DEF e
  <2>4. TypeOK'
    <3>1. table' \in [Tasks -> Entry]
      BY <2>1, <2>2, <2>3 DEF TypeOK
    <3> QED
      BY <1>4, <1>c, <3>1 DEF init_resource, TypeOK
  <2> QED
    BY <1>4, <2>1, <2>2, <2>3, <2>4 DEF init_resource, Configured, TypeOK
<1>5. CASE InitDone
  <2>1. TypeOK'
    BY <1>5, <1>c DEF InitDone, TypeOK
  <2> QED
    BY <1>5, <2>1 DEF InitDone, Configured
<1>6. CASE NetRead
  <2>1. 0 \in Tasks
    BY <1>c DEF Tasks
  <2>2. table[0].bw \in Nat
    <3>1. table[0] \in Entry
      BY <2>1 DEF TypeOK
    <3>2. table[0].bw \in Bandwidths \cup {0}
      BY <3>1 DEF Entry
    <3> QED
      BY <3>2, <1>d
  <2>3. net' \in 0 .. WORD32 - 1
    BY <1>6, <2>2, <1>c DEF NetRead, get_bw
  <2>4. TypeOK'
    BY <1>6, <2>3 DEF NetRead, TypeOK
  <2> QED
    BY <1>6, <2>4 DEF NetRead, Configured
<1>7. CASE NetSet
  <2>1. net \in Nat
    BY <1>7, <1>c DEF NetSet, TypeOK
  <2>2. PICK r \in BeBw(net) : tb' = [tb EXCEPT !.rate = r]
    BY <1>7 DEF NetSet
  <2>3. r \in 0 .. WORD - 1
    BY <2>1, BeBwFits
  <2>4. TypeOK'
    BY <1>7, <2>2, <2>3 DEF NetSet, TypeOK
  <2> QED
    BY <1>7, <2>4 DEF NetSet, Configured
<1>8. CASE Slack
  <2>1. 0 \in Tasks
    BY <1>c DEF Tasks
  <2>2. table[0] \in Entry
    BY <2>1 DEF TypeOK
  <2>3. cal_slack(table[0]) \in (0 .. Qos) \X {0, Qos}
    <3>1. table[0].qos \in {0, Qos} /\ table[0].tail \in Tails \cup {0}
      BY <2>2 DEF Entry
    <3>2. table[0].tail \in Nat
      BY <3>1, <1>d
    <3> QED
      BY <3>1, <3>2, <1>c DEF cal_slack
  <2>4. slack' \in (0 .. Qos) \X {0, Qos}
    BY <1>8, <2>3 DEF Slack, TypeOK
  <2>5. TypeOK'
    BY <1>8, <2>4 DEF Slack, TypeOK
  <2> QED
    BY <1>8, <2>5 DEF Slack, Configured
<1>9. CASE KillMonitor
  <2>1. TypeOK'
    BY <1>9, <1>c, <1>s DEF KillMonitor, TypeOK
  <2> QED
    BY <1>9, <2>1 DEF KillMonitor, Configured
<1>10. ASSUME NEW i \in Tasks, Task(i) PROVE TInv'
  <2>1. CASE init_resource_table(i)
    <3>1. task' \in [Tasks -> TaskRec]
      <4> DEFINE p == IF shm THEN "mapped" ELSE "dead"
                 n == (mon = "run")
      <4>1. p \in TaskPC /\ n \in BOOLEAN
        BY DEF TaskPC
      <4> DEFINE e == [task[i] EXCEPT !.pc = p, !.since = n]
      <4>2. task' = [task EXCEPT ![i] = e]
        BY <2>1, ZenonT(30) DEF init_resource_table, TypeOK
      <4> HIDE DEF p, n
      <4>3. e \in TaskRec
        BY <4>1, ZenonT(30) DEF TypeOK, TaskRec
      <4> HIDE DEF e
      <4> QED
        BY <4>2, <4>3 DEF TypeOK
    <3> QED
      BY <2>1, <3>1 DEF init_resource_table, TypeOK, Configured, monVars
  <2>2. CASE ibverbs_init(i)
    <3> DEFINE e == [table[i] EXCEPT !.on = TRUE]
    <3>1. task' \in [Tasks -> TaskRec]
      BY <2>2 DEF ibverbs_init, Goto, TypeOK, TaskPC, TaskRec
    <3>2. table' = [table EXCEPT ![i] = e] /\ e \in Entry /\ e.type = table[i].type
      <4>1. table[i] \in Entry
        BY DEF TypeOK
      <4> QED
        BY <2>2, <4>1, TurnsOn, ZenonT(30) DEF ibverbs_init
    <3> HIDE DEF e
    <3>3. TypeOK'
      <4>1. table' \in [Tasks -> Entry]
        BY <3>2 DEF TypeOK
      <4> QED
        BY <2>2, <3>1, <4>1 DEF ibverbs_init, TypeOK, monVars
    <3> QED
      BY <2>2, <3>2, <3>3 DEF ibverbs_init, TypeOK, Configured, monVars
  <2>3. CASE ibv_create_qp(i)
    <3>1. task' \in [Tasks -> TaskRec]
      BY <2>3 DEF ibv_create_qp, Goto, TypeOK, TaskPC, TaskRec
    <3>2. (tb.next + 1) % NR_BUCKET \in Int
      BY TableAssumption DEF TypeOK
    <3>3. tb' \in [rate : 0 .. WORD - 1, burst : BOOLEAN, next : Int]
      BY <2>3, <3>2 DEF ibv_create_qp, TypeOK
    <3> QED
      BY <2>3, <3>1, <3>3 DEF ibv_create_qp, TypeOK, Configured, monVars
  <2>4. CASE get_base_bucket(i)
    <3> DEFINE e == [task[i] EXCEPT !.pc = "ready", !.bucket = tb.next]
    <3>1. e \in TaskRec
      <4>1. task[i] \in TaskRec /\ tb.next \in Int
        BY DEF TypeOK
      <4> QED
        BY <4>1, ZenonT(30) DEF TaskPC, TaskRec
    <3>2. task' \in [Tasks -> TaskRec]
      <4>1. task' = [task EXCEPT ![i] = e]
        BY <2>4, ZenonT(30) DEF get_base_bucket, TypeOK
      <4> HIDE DEF e
      <4> QED
        BY <3>1, <4>1 DEF TypeOK
    <3> QED
      BY <2>4, <3>2 DEF get_base_bucket, TypeOK, Configured, monVars
  <2>5. CASE ibv_post_send(i)
    <3>1. task' \in [Tasks -> TaskRec]
      BY <2>5 DEF ibv_post_send, Goto, TypeOK, TaskPC, TaskRec
    <3> QED
      BY <2>5, <3>1 DEF ibv_post_send, TypeOK, Configured, monVars
  <2>6. CASE wait_for_token(i)
    <3>1. task' \in [Tasks -> TaskRec]
      BY <2>6 DEF wait_for_token, Goto, TypeOK, TaskPC, TaskRec
    <3> QED
      BY <2>6, <3>1 DEF wait_for_token, TypeOK, Configured, monVars
  <2>7. CASE post_send(i)
    <3>1. task' \in [Tasks -> TaskRec]
      BY <2>7 DEF post_send, Goto, TypeOK, TaskPC, TaskRec
    <3> QED
      BY <2>7, <3>1 DEF post_send, TypeOK, Configured, monVars
  <2>8. ASSUME NEW b \in Bandwidths, report_bw(i, b) PROVE TInv'
    <3> DEFINE e == [table[i] EXCEPT !.bw = b]
    <3>1. table' = [table EXCEPT ![i] = e] /\ e \in Entry /\ e.type = table[i].type
      <4>1. table[i] \in Entry
        BY DEF TypeOK
      <4>2. e \in Entry /\ e.type = table[i].type
        BY <4>1 DEF Entry
      <4> QED
        BY <2>8, <4>2 DEF report_bw
    <3> HIDE DEF e
    <3>2. TypeOK'
      BY <2>8, <3>1 DEF report_bw, TypeOK, monVars
    <3> QED
      BY <2>8, <3>1, <3>2 DEF report_bw, TypeOK, Configured, monVars
  <2>9. ASSUME NEW l \in Tails, report_latency(i, l) PROVE TInv'
    <3> DEFINE e == [table[i] EXCEPT !.tail = l]
    <3>1. table' = [table EXCEPT ![i] = e] /\ e \in Entry /\ e.type = table[i].type
      <4>1. table[i] \in Entry
        BY DEF TypeOK
      <4>2. e \in Entry /\ e.type = table[i].type
        BY <4>1 DEF Entry
      <4> QED
        BY <2>9, <4>2 DEF report_latency
    <3> HIDE DEF e
    <3>2. TypeOK'
      BY <2>9, <3>1 DEF report_latency, TypeOK, monVars
    <3> QED
      BY <2>9, <3>1, <3>2 DEF report_latency, TypeOK, Configured, monVars
  <2>10. CASE Exit(i)
    <3>1. [pc |-> "out", bucket |-> 0, since |-> FALSE] \in TaskRec
      BY TableAssumption DEF TaskPC, TaskRec
    <3>2. task' \in [Tasks -> TaskRec]
      BY <2>10, <3>1 DEF Exit, TypeOK
    <3> QED
      BY <2>10, <3>2 DEF Exit, TypeOK, Configured, monVars
  <2> QED
    BY <1>10, <2>1, <2>2, <2>3, <2>4, <2>5, <2>6, <2>7, <2>8, <2>9, <2>10 DEF Task
<1>11. CASE UNCHANGED vars
  BY <1>11 DEF vars, TypeOK, Configured
<1> QED
  BY <1>1, <1>2, <1>3, <1>4, <1>5, <1>6, <1>7, <1>8, <1>9, <1>10, <1>11
     DEF Next, Monitor

\* Whatever starts, dies and restarts, the types and the configuration of the
\* table are kept: TInv is an invariant.
THEOREM TInvariant == Spec => []TInv
  BY InitTInv, NextTInv, PTL DEF Spec

-----------------------------------------------------------------------------
(* Consequences.                                                            *)

\* Type correctness: no rate, slack or report leaves its range.
THEOREM TableTypes == Spec => []TypeOK
<1>1. TInv => TypeOK
  BY DEF TInv
<1> QED
  BY <1>1, TInvariant, PTL

\* A post of a secondary task that begins while the monitor runs is throttled,
\* however often the monitor and the tasks were restarted before.
THEOREM RunningAlwaysThrottles == Spec => RunningThrottles
<1> DEFINE Good == \A i \in Tasks :
             task[i].pc = "ready" /\ task'[i].pc = "free" /\ mon = "run"
               => ConfiguredType(i) = "LATENCY"
<1>1. TInv /\ [Next]_vars => [Good]_vars
  <2> SUFFICES ASSUME TInv, Next, NEW i \in Tasks,
                      task[i].pc = "ready", task'[i].pc = "free", mon = "run"
               PROVE  ConfiguredType(i) = "LATENCY"
    OBVIOUS
  <2>1. task \in [Tasks -> TaskRec]
    BY DEF TInv, TypeOK
  <2>2. table[i].type = ConfiguredType(i)
    BY DEF TInv, Configured
  <2>3. PICK j \in Tasks : Task(j)
    BY DEF Next, Monitor, Start, ReadLine, init_token_bucket, init_resource,
           InitDone, NetRead, NetSet, Slack, KillMonitor
  <2>4. ibv_post_send(i)
    BY <2>1, <2>3 DEF Task, Goto, TaskRec, init_resource_table, ibverbs_init, ibv_create_qp,
         get_base_bucket, ibv_post_send, wait_for_token, post_send, report_bw,
         report_latency, Exit
  <2>5. table[i].type # "SECONDARY"
    BY <2>1, <2>4 DEF ibv_post_send, Goto, TaskRec
  <2> QED
    BY <2>2, <2>5 DEF ConfiguredType
<1> QED
  BY <1>1, TInvariant, PTL DEF Spec, RunningThrottles

\* The rate that network_monitor sets and the bandwidth it read add up to at most
\* three quarters of the link, when the primary alone uses no more than that.
THEOREM AlwaysLeavesBuffer == Spec => LeavesBuffer
<1> DEFINE Good == net # -1 /\ net' = -1 /\ mon' = "run" /\ 4 * net <= 3 * TOTAL_BW
                     => 4 * (tb'.rate + net) <= 3 * TOTAL_BW
<1>1. TInv /\ [Next]_vars => [Good]_vars
  <2> SUFFICES ASSUME TInv, Next, net # -1, net' = -1, mon' = "run",
                      4 * net <= 3 * TOTAL_BW
               PROVE  4 * (tb'.rate + net) <= 3 * TOTAL_BW
    OBVIOUS
  <2>1. net \in Nat /\ tb \in [rate : 0 .. WORD - 1, burst : BOOLEAN, next : Int]
    BY BandwidthAssumption DEF TInv, TypeOK
  <2>2. NetSet
    BY ZenonT(30) DEF Next, Monitor, Task, Start, ReadLine, init_token_bucket, init_resource,
           InitDone, NetRead, Slack, KillMonitor, init_resource_table, ibverbs_init,
           ibv_create_qp, get_base_bucket, ibv_post_send, wait_for_token, post_send,
           report_bw, report_latency, Exit, monVars
  <2>3. PICK r \in BeBw(net) : tb' = [tb EXCEPT !.rate = r]
    BY <2>2 DEF NetSet
  <2>4. tb'.rate = r
    BY <2>1, <2>3
  <2> QED
    BY <2>1, <2>4, BeBwLeavesBuffer
<1> QED
  BY <1>1, TInvariant, PTL DEF Spec, LeavesBuffer

-----------------------------------------------------------------------------
(* Tasks that are started in order.                                         *)

\* A step that keeps the flags, the history and the position of the tasks, the
\* configured types and next_bucket keeps the invariant of orderly tasks.
LEMMA OrderlyUntouched ==
  ASSUME OInv, TInv', task' = task, shm' = shm, tb'.burst = tb.burst,
         tb'.next = tb.next, mon' = mon \/ mon' = "off",
         \A j \in Tasks : table'[j].type = table[j].type
  PROVE  OInv'
<1>1. OrderlyServed'
  BY DEF OInv, OrderlyServed, OrderlyThrottled, InRange, Orderly, HasQp
<1> QED
  BY <1>1 DEF OInv, Orderly

\* A step of a task that only moves it, or gives it the bucket it loaded.
LEMMA OrderlyMoves ==
  ASSUME OInv, TInv', NEW i \in Tasks, NEW e \in TaskRec, task' = [task EXCEPT ![i] = e],
         UNCHANGED <<shm, mon>>, tb'.burst = tb.burst,
         \A j \in Tasks : table'[j].type = table[j].type,
         tb'.next = tb.next \/ tb'.next \in 0 .. NR_BUCKET - 1,
         e.since => /\ mon \in {"run", "off"} /\ tb.burst
                    /\ \A j \in Tasks : table[j].type = ConfiguredType(j)
                    /\ e.pc = "free" => ConfiguredType(i) = "LATENCY"
                    /\ e.pc # "dead"
                    /\ e.pc = "store" => tb'.next \in 0 .. NR_BUCKET - 1
                    /\ e.pc \in {"ready", "wait", "free", "throttled"}
                         => e.bucket \in 0 .. NR_BUCKET - 1
  PROVE  OInv'
<1>0. task \in [Tasks -> TaskRec]
  BY DEF OInv, TInv, TypeOK
<1>1. \A j \in Tasks : task'[j] = IF j = i THEN e ELSE task[j]
  BY <1>0
<1>2. OrderlyThrottled'
  BY <1>1 DEF OInv, OrderlyServed, OrderlyThrottled, Orderly
<1>3. InRange'
  BY <1>1 DEF OInv, OrderlyServed, InRange, Orderly, HasQp
<1>4. \A j \in Tasks : Orderly(j)' =>
        /\ mon' \in {"run", "off"} /\ tb'.burst
        /\ \A k \in Tasks : table'[k].type = ConfiguredType(k)
        /\ task'[j].pc = "store" => tb'.next \in 0 .. NR_BUCKET - 1
  <2> SUFFICES ASSUME NEW j \in Tasks, Orderly(j)'
               PROVE  /\ mon' \in {"run", "off"} /\ tb'.burst
                      /\ \A k \in Tasks : table'[k].type = ConfiguredType(k)
                      /\ task'[j].pc = "store" => tb'.next \in 0 .. NR_BUCKET - 1
    OBVIOUS
  <2>1. CASE j = i
    BY <1>1, <2>1 DEF Orderly
  <2>2. CASE j # i
    BY <1>1, <2>2 DEF OInv, Orderly
  <2> QED
    BY <2>1, <2>2
<1> QED
  BY <1>2, <1>3, <1>4 DEF OInv, OrderlyServed

\* What the monitor and the tasks do, killed and restarted at any point, keeps
\* the invariant.
LEMMA NextOInv == OInv /\ [Next]_vars => OInv'
<1> SUFFICES ASSUME OInv, [Next]_vars PROVE OInv'
  OBVIOUS
<1>0. TInv /\ TInv'
  BY NextTInv DEF OInv
<1>t. /\ task \in [Tasks -> TaskRec] /\ table \in [Tasks -> Entry]
      /\ tb \in [rate : 0 .. WORD - 1, burst : BOOLEAN, next : Int]
  BY <1>0 DEF TInv, TypeOK
<1>n. NR_BUCKET \in Nat /\ NR_BUCKET > 0
  BY TableAssumption
<1>1. CASE Start
  <2>1. \A i \in Tasks : ~Orderly(i)'
    BY <1>1, <1>t DEF Start, Orderly, TaskRec
  <2> QED
    BY <1>0, <1>1, <2>1
       DEF Start, OInv, OrderlyServed, OrderlyThrottled, InRange
<1>2. CASE ReadLine
  <2>1. \A i \in Tasks : ~Orderly(i) /\ ~Orderly(i)'
    BY <1>2 DEF ReadLine, OInv, Orderly
  <2> QED
    BY <1>0, <1>2, <2>1
       DEF ReadLine, OInv, OrderlyServed, OrderlyThrottled, InRange
<1>3. CASE init_token_bucket
  <2>1. \A i \in Tasks : ~Orderly(i) /\ ~Orderly(i)'
    BY <1>3 DEF init_token_bucket, OInv, Orderly
  <2> QED
    BY <1>0, <1>3, <2>1
       DEF init_token_bucket, OInv, OrderlyServed, OrderlyThrottled, InRange
<1>4. CASE init_resource
  <2>1. \A i \in Tasks : ~Orderly(i) /\ ~Orderly(i)'
    BY <1>4 DEF init_resource, OInv, Orderly
  <2> QED
    BY <1>0, <1>4, <2>1
       DEF init_resource, OInv, OrderlyServed, OrderlyThrottled, InRange
<1>5. CASE InitDone
  <2>1. \A i \in Tasks : ~Orderly(i) /\ ~Orderly(i)'
    BY <1>5 DEF InitDone, OInv, Orderly
  <2> QED
    BY <1>0, <1>5, <2>1
       DEF InitDone, OInv, OrderlyServed, OrderlyThrottled, InRange
<1>6. CASE NetRead
  BY <1>0, <1>6, OrderlyUntouched DEF NetRead
<1>7. CASE NetSet
  <2>1. PICK r \in BeBw(net) : tb' = [tb EXCEPT !.rate = r]
    BY <1>7 DEF NetSet
  <2>2. tb'.burst = tb.burst /\ tb'.next = tb.next
    BY <1>t, <2>1
  <2> QED
    BY <1>0, <1>7, <2>2, OrderlyUntouched DEF NetSet
<1>8. CASE Slack
  BY <1>0, <1>8, OrderlyUntouched DEF Slack
<1>9. CASE KillMonitor
  BY <1>0, <1>9, OrderlyUntouched DEF KillMonitor
<1>10. ASSUME NEW i \in Tasks, Task(i) PROVE OInv'
  <2>0. /\ task[i] \in TaskRec
        /\ task[i].since =>
             /\ mon \in {"run", "off"} /\ tb.burst
             /\ \A j \in Tasks : table[j].type = ConfiguredType(j)
             /\ task[i].pc = "store" => tb.next \in 0 .. NR_BUCKET - 1
             /\ HasQp(i) => task[i].bucket \in 0 .. NR_BUCKET - 1
             /\ task[i].pc = "free" => ConfiguredType(i) = "LATENCY"
             /\ task[i].pc # "dead"
    BY <1>t DEF OInv, Orderly, OrderlyServed, OrderlyThrottled, InRange
  <2>1. CASE init_resource_table(i)
    <3> DEFINE p == IF shm THEN "mapped" ELSE "dead"
               e == [task[i] EXCEPT !.pc = p, !.since = (mon = "run")]
    <3>1. task' = [task EXCEPT ![i] = e]
      BY <1>t, <2>1, ZenonT(30) DEF init_resource_table
    <3>2. e.pc = p /\ (e.since <=> mon = "run") /\ e \in TaskRec
      <4>1. p \in TaskPC
        BY DEF TaskPC
      <4> HIDE DEF p
      <4> QED
        BY <2>0, <4>1, ZenonT(30) DEF TaskRec
    <3>3. mon = "run" => /\ shm /\ tb.burst
                         /\ \A j \in Tasks : table[j].type = ConfiguredType(j)
      BY <1>0 DEF OInv, TInv, Configured
    <3>4. UNCHANGED <<shm, table, tb, mon>>
      BY <2>1 DEF init_resource_table, monVars
    <3> HIDE DEF e
    <3> QED
      BY <1>0, <3>1, <3>2, <3>3, <3>4, OrderlyMoves, ZenonT(30)
  <2>2. CASE ibverbs_init(i)
    <3> DEFINE e == [task[i] EXCEPT !.pc = "on"]
    <3>1. task' = [task EXCEPT ![i] = e]
      BY <2>2 DEF ibverbs_init, Goto
    <3>2. e.pc = "on" /\ e.since = task[i].since /\ e \in TaskRec
      BY <2>0 DEF TaskRec, TaskPC
    <3>3. \A j \in Tasks : table'[j].type = table[j].type
      BY <1>t, <2>2 DEF ibverbs_init, Entry
    <3>4. UNCHANGED <<shm, tb, mon>>
      BY <2>2 DEF ibverbs_init, monVars
    <3> HIDE DEF e
    <3> QED
      BY <1>0, <2>0, <3>1, <3>2, <3>3, <3>4, OrderlyMoves, ZenonT(30)
  <2>3. CASE ibv_create_qp(i)
    <3> DEFINE e == [task[i] EXCEPT !.pc = "store"]
    <3>1. task' = [task EXCEPT ![i] = e]
      BY <2>3 DEF ibv_create_qp, Goto
    <3>2. e.pc = "store" /\ e.since = task[i].since /\ e \in TaskRec
      BY <2>0 DEF TaskRec, TaskPC
    <3>3. tb'.burst = tb.burst /\ tb'.next = (tb.next + 1) % NR_BUCKET
      BY <1>t, <2>3 DEF ibv_create_qp
    <3>4. tb'.next \in 0 .. NR_BUCKET - 1
      <4>1. tb.next + 1 \in Int
        BY <1>t
      <4> HIDE DEF e
      <4> QED
        BY <1>n, <3>3, <4>1
    <3>5. UNCHANGED <<shm, table, mon>>
      BY <2>3 DEF ibv_create_qp, monVars
    <3> HIDE DEF e
    <3> QED
      BY <1>0, <2>0, <3>1, <3>2, <3>3, <3>4, <3>5, OrderlyMoves, ZenonT(30)
  <2>4. CASE get_base_bucket(i)
    <3> DEFINE e == [task[i] EXCEPT !.pc = "ready", !.bucket = tb.next]
    <3>1. task' = [task EXCEPT ![i] = e] /\ task[i].pc = "store"
      BY <1>t, <2>4, ZenonT(30) DEF get_base_bucket
    <3>2. e.pc = "ready" /\ e.since = task[i].since /\ e.bucket = tb.next /\ e \in TaskRec
      BY <1>t, <2>0, ZenonT(30) DEF TaskRec, TaskPC
    <3>3. UNCHANGED <<shm, table, tb, mon>>
      BY <2>4 DEF get_base_bucket, monVars
    <3> HIDE DEF e
    <3> QED
      BY <1>0, <2>0, <3>1, <3>2, <3>3, OrderlyMoves, ZenonT(30)
  <2>5. CASE ibv_post_send(i)
    <3> DEFINE p == IF table[i].type = "SECONDARY" THEN "wait" ELSE "free"
               e == [task[i] EXCEPT !.pc = p]
    <3>1. task' = [task EXCEPT ![i] = e] /\ task[i].pc = "ready"
      BY <2>5 DEF ibv_post_send, Goto
    <3>2. /\ e.pc = p /\ e.since = task[i].since /\ e.bucket = task[i].bucket
          /\ e \in TaskRec
      <4>1. p \in TaskPC
        BY DEF TaskPC
      <4> HIDE DEF p
      <4> QED
        BY <2>0, <4>1 DEF TaskRec
    <3>3. UNCHANGED <<shm, table, tb, mon>>
      BY <2>5 DEF ibv_post_send, monVars
    <3>4. task[i].since /\ p = "free" => ConfiguredType(i) = "LATENCY"
      BY <2>0 DEF ConfiguredType
    <3>5. p # "dead" /\ p # "store"
      OBVIOUS
    <3> HIDE DEF e, p
    <3> QED
      BY <1>0, <2>0, <3>1, <3>2, <3>3, <3>4, <3>5, OrderlyMoves, ZenonT(30) DEF HasQp
  <2>6. CASE wait_for_token(i)
    <3> DEFINE p == IF tb.burst THEN "throttled" ELSE "dead"
               e == [task[i] EXCEPT !.pc = p]
    <3>1. task' = [task EXCEPT ![i] = e] /\ task[i].pc = "wait"
      BY <2>6 DEF wait_for_token, Goto
    <3>2. /\ e.pc = p /\ e.since = task[i].since /\ e.bucket = task[i].bucket
          /\ e \in TaskRec
      <4>1. p \in TaskPC
        BY DEF TaskPC
      <4> HIDE DEF p
      <4> QED
        BY <2>0, <4>1 DEF TaskRec
    <3>3. UNCHANGED <<shm, table, tb, mon>>
      BY <2>6 DEF wait_for_token, monVars
    <3>4. task[i].since => p = "throttled"
      BY <2>0
    <3> HIDE DEF e, p
    <3> QED
      BY <1>0, <2>0, <3>1, <3>2, <3>3, <3>4, OrderlyMoves, ZenonT(30) DEF HasQp
  <2>7. CASE post_send(i)
    <3> DEFINE e == [task[i] EXCEPT !.pc = "ready"]
    <3>1. task' = [task EXCEPT ![i] = e] /\ HasQp(i)
      BY <2>7 DEF post_send, Goto, HasQp
    <3>2. /\ e.pc = "ready" /\ e.since = task[i].since /\ e.bucket = task[i].bucket
          /\ e \in TaskRec
      BY <2>0 DEF TaskRec, TaskPC
    <3>3. UNCHANGED <<shm, table, tb, mon>>
      BY <2>7 DEF post_send, monVars
    <3> HIDE DEF e
    <3> QED
      BY <1>0, <2>0, <3>1, <3>2, <3>3, OrderlyMoves, ZenonT(30)
  <2>8. ASSUME NEW b \in Bandwidths, report_bw(i, b) PROVE OInv'
    <3>1. \A j \in Tasks : table'[j].type = table[j].type
      BY <1>t, <2>8 DEF report_bw, Entry
    <3> QED
      BY <1>0, <2>8, <3>1, OrderlyUntouched DEF report_bw, monVars
  <2>9. ASSUME NEW l \in Tails, report_latency(i, l) PROVE OInv'
    <3>1. \A j \in Tasks : table'[j].type = table[j].type
      BY <1>t, <2>9 DEF report_latency, Entry
    <3> QED
      BY <1>0, <2>9, <3>1, OrderlyUntouched DEF report_latency, monVars
  <2>10. CASE Exit(i)
    <3> DEFINE e == [pc |-> "out", bucket |-> 0, since |-> FALSE]
    <3>1. task' = [task EXCEPT ![i] = e] /\ UNCHANGED <<shm, table, tb, mon>>
      BY <2>10 DEF Exit, monVars
    <3>2. ~e.since /\ e \in TaskRec
      BY DEF TaskRec, TaskPC
    <3> HIDE DEF e
    <3> QED
      BY <1>0, <3>1, <3>2, OrderlyMoves, ZenonT(30)
  <2> QED
    BY <1>10, <2>1, <2>2, <2>3, <2>4, <2>5, <2>6, <2>7, <2>8, <2>9, <2>10 DEF Task
<1>11. CASE UNCHANGED vars
  BY <1>0, <1>11, OrderlyUntouched DEF vars
<1> QED
  BY <1>1, <1>2, <1>3, <1>4, <1>5, <1>6, <1>7, <1>8, <1>9, <1>10, <1>11
     DEF Next, Monitor

\* A task that was started after "init done", with no restart of the monitor since,
\* is throttled as the configuration file says, is killed neither by a missing table
\* nor by burst_size 0, and its QP has a bucket of the table: for any number of tasks,
\* which start, die and restart at any point, and a monitor that may be killed.
THEOREM OrderlyAlwaysServed == Spec => []OrderlyServed
<1>1. Init => OInv
  <2> SUFFICES ASSUME Init PROVE OInv
    OBVIOUS
  <2>1. \A i \in Tasks : ~Orderly(i)
    BY DEF Init, Orderly
  <2> QED
    BY <2>1, InitTInv
       DEF Init, OInv, OrderlyServed, OrderlyThrottled, InRange
<1>2. OInv => OrderlyServed
  BY DEF OInv
<1> QED
  BY <1>1, <1>2, NextOInv, PTL DEF Spec
=============================================================================
