--------------------------- MODULE ResourceTable ---------------------------
(***************************************************************************)
(* The resource table: the shared memory through which the monitor         *)
(* (monitor.c) and the tasks (processes linked with libibverbs) meet.  The *)
(* monitor creates, clears and configures it and then runs two threads;    *)
(* a task maps it in ibverbs_init, takes a bucket for every QP, and is     *)
(* throttled in ibv_post_send by the type it finds in its entry.  Nothing  *)
(* orders the start of the monitor and of the tasks, and each may be       *)
(* killed and started again.                                               *)
(***************************************************************************)
EXTENDS BeBandwidth, FiniteSets

CONSTANTS
  NrTask,         \* number of lines of the configuration file; line i is task i
  Bandwidths,     \* what the primary task reports: its bandwidth
  Tails,          \*   and its tail latency
  Qos,            \* the latency the configuration file asks for
  INIT_BANDWIDTH,
  NR_BUCKET,
  MaxStarts       \* bound on the starts of the monitor

ASSUME TableAssumption ==
  /\ NrTask \in Nat \ {0} /\ NR_BUCKET \in Nat \ {0} /\ MaxStarts \in Nat
  /\ Bandwidths \subseteq Nat /\ Tails \subseteq Nat /\ Qos \in Nat \ {0}
  /\ INIT_BANDWIDTH \in 0 .. WORD - 1

Tasks == 0 .. NrTask - 1

VARIABLES
  shm,      \* /resource_table exists
  table,    \* r_table: on, type, stat.qos, stat.cur_tail, stat.bandwidth
  tb,       \* r_table[0].tb: rate, whether burst_size is set, next_bucket
  mon,      \* where the monitor's main is; "off" when it does not run
  line,     \* its loop counter
  net,      \* bw_usage of network_monitor, -1 while it sleeps
  slack,    \* slack[0] as <<diff, qos>>
  starts,   \* how often the monitor was started
  task      \* each task: where it is, the bucket of its QP, and (history)
            \* whether it mapped the table after "init done" of the present monitor

vars == <<shm, table, tb, mon, line, net, slack, starts, task>>
monVars == <<mon, line, net, slack, starts>>

Entry == [on : BOOLEAN, type : {"LATENCY", "SECONDARY"}, qos : {0, Qos},
          tail : Tails \cup {0}, bw : Bandwidths \cup {0}]
\* memset gives an entry the type LATENCY and turns it off.
ZeroEntry == [on |-> FALSE, type |-> "LATENCY", qos |-> 0, tail |-> 0, bw |-> 0]
ZeroBucket == [rate |-> 0, burst |-> FALSE, next |-> 0]

\* The types of config.txt; main makes every task but the first SECONDARY.
ConfiguredType(i) == IF i # 0 THEN "SECONDARY" ELSE "LATENCY"

\* Steps of a task.  "mapped": init_resource_table is done; "on": ibverbs_init is;
\* "store": between the store and the load of get_base_bucket; "wait", "free" and "throttled": inside
\* ibv_post_send; "dead": killed by a signal (a null pointer, a division by zero).
TaskPC == {"out", "mapped", "on", "store", "ready", "wait", "free", "throttled", "dead"}
TaskRec == [pc : TaskPC, bucket : Int, since : BOOLEAN]
HasQp(i) == task[i].pc \in {"ready", "wait", "free", "throttled"}

TypeOK ==
  /\ shm \in BOOLEAN
  /\ table \in [Tasks -> Entry]
  /\ tb \in [rate : 0 .. WORD - 1, burst : BOOLEAN, next : Int]
  /\ mon \in {"off", "config", "resource", "run"}
  /\ line \in 0 .. NrTask
  /\ net \in {-1} \cup 0 .. WORD32 - 1
  /\ slack \in (0 .. Qos) \X {0, Qos}
  /\ starts \in 0 .. MaxStarts
  /\ task \in [Tasks -> TaskRec]

Init ==
  /\ shm = FALSE
  /\ table = [i \in Tasks |-> ZeroEntry] /\ tb = ZeroBucket
  /\ mon = "off" /\ line = 0 /\ net = -1 /\ slack = <<0, 0>> /\ starts = 0
  /\ task = [i \in Tasks |-> [pc |-> "out", bucket |-> 0, since |-> FALSE]]

-----------------------------------------------------------------------------
(* The monitor.                                                             *)

\* main up to memset; tasks that run already were not started after it (history).
Start ==
  /\ mon = "off" /\ starts < MaxStarts
  /\ starts' = starts + 1
  /\ shm' = TRUE
  /\ table' = [i \in Tasks |-> ZeroEntry] /\ tb' = ZeroBucket
  /\ mon' = "config" /\ line' = 0 /\ net' = -1 /\ slack' = <<0, 0>>
  /\ task' = [i \in Tasks |-> [task[i] EXCEPT !.since = FALSE]]

\* One line of the configuration file.
ReadLine ==
  LET type == ConfiguredType(line) IN
  /\ mon = "config" /\ line < NrTask
  /\ table' = [table EXCEPT ![line].type = type,
                            ![line].qos = IF type = "LATENCY" THEN Qos ELSE @]
  /\ line' = line + 1
  /\ UNCHANGED <<shm, tb, mon, net, slack, starts, task>>

\* Mutant of init_token_bucket: burst_size is not set.
InitBucketNoBurst ==
  /\ mon = "config" /\ line = NrTask
  /\ tb' = [tb EXCEPT !.rate = INIT_BANDWIDTH, !.next = -1]
  /\ mon' = "resource" /\ line' = 0
  /\ UNCHANGED <<shm, table, net, slack, starts, task>>

\* Both buckets are initialised.
init_token_bucket ==
  /\ mon = "config" /\ line = NrTask
  /\ tb' = [rate |-> INIT_BANDWIDTH, burst |-> TRUE, next |-> -1]
  /\ mon' = "resource" /\ line' = 0
  /\ UNCHANGED <<shm, table, net, slack, starts, task>>

\* Mutant of init_resource: the whole entry is cleared.
InitResourceClears ==
  /\ mon = "resource" /\ line < NrTask
  /\ table' = [table EXCEPT ![line] = ZeroEntry]
  /\ line' = line + 1
  /\ UNCHANGED <<shm, tb, mon, net, slack, starts, task>>

init_resource ==
  /\ mon = "resource" /\ line < NrTask
  /\ table' = [table EXCEPT ![line].on = FALSE]
  /\ line' = line + 1
  /\ UNCHANGED <<shm, tb, mon, net, slack, starts, task>>

InitDone ==
  /\ mon = "resource" /\ line = NrTask
  /\ mon' = "run" /\ line' = 0
  /\ UNCHANGED <<shm, table, tb, net, slack, starts, task>>

\* Mutant of NetRead: the report of another task is read.
NetReadLast ==
  /\ mon = "run" /\ net = -1
  /\ net' = get_bw(table[NrTask - 1].bw)
  /\ UNCHANGED <<shm, table, tb, mon, line, slack, starts, task>>

\* The two halves of an iteration of network_monitor.
NetRead ==
  /\ mon = "run" /\ net = -1
  /\ net' = get_bw(table[0].bw)
  /\ UNCHANGED <<shm, table, tb, mon, line, slack, starts, task>>

NetSet ==
  /\ mon = "run" /\ net # -1
  /\ \E r \in BeBw(net) : tb' = [tb EXCEPT !.rate = r]
  /\ net' = -1
  /\ UNCHANGED <<shm, table, mon, line, slack, starts, task>>

\* cal_slack for the one entry that can be primary.
cal_slack(e) == <<IF e.qos < e.tail THEN 0 ELSE e.qos - e.tail, e.qos>>

\* An iteration of the loop of monitor.
Slack ==
  /\ mon = "run" /\ table[0].on
  /\ slack' = IF table[0].type = "LATENCY" THEN cal_slack(table[0]) ELSE slack
  /\ UNCHANGED <<shm, table, tb, mon, line, net, starts, task>>

\* The monitor is killed; /resource_table stays.
KillMonitor ==
  /\ mon # "off"
  /\ mon' = "off" /\ line' = 0 /\ net' = -1 /\ slack' = <<0, 0>>
  /\ UNCHANGED <<shm, table, tb, starts, task>>

Monitor ==
  \/ ReadLine \/ init_token_bucket \/ init_resource \/ InitDone
  \/ NetRead \/ NetSet \/ Slack

-----------------------------------------------------------------------------
(* The tasks.                                                               *)

Goto(i, pc) == task' = [task EXCEPT ![i].pc = pc]

\* ibverbs_init up to init_resource_table; without /resource_table my_res is NULL
\* and ibverbs_init dereferences it.
init_resource_table(i) ==
  /\ task[i].pc = "out"
  /\ task' = [task EXCEPT ![i].pc = IF shm THEN "mapped" ELSE "dead",
                          ![i].since = (mon = "run")]
  /\ UNCHANGED <<shm, table, tb, monVars>>

\* Mutant of ibverbs_init: the entry is not turned on.
InitStaysOff(i) ==
  /\ task[i].pc = "mapped" /\ Goto(i, "on")
  /\ UNCHANGED <<shm, table, tb, monVars>>

\* The rest of ibverbs_init.
ibverbs_init(i) ==
  /\ task[i].pc = "mapped" /\ Goto(i, "on")
  /\ table' = [table EXCEPT ![i].on = TRUE]
  /\ UNCHANGED <<shm, tb, monVars>>

\* ibv_create_qp calls get_base_bucket, which stores next_bucket
ibv_create_qp(i) ==
  /\ task[i].pc = "on" /\ Goto(i, "store")
  /\ tb' = [tb EXCEPT !.next = (@ + 1) % NR_BUCKET]
  /\ UNCHANGED <<shm, table, monVars>>

\* and loads it again.
get_base_bucket(i) ==
  /\ task[i].pc = "store"
  /\ task' = [task EXCEPT ![i].pc = "ready", ![i].bucket = tb.next]
  /\ UNCHANGED <<shm, table, tb, monVars>>

\* ibv_post_send looks at the type.
ibv_post_send(i) ==
  /\ task[i].pc = "ready"
  /\ Goto(i, IF table[i].type = "SECONDARY" THEN "wait" ELSE "free")
  /\ UNCHANGED <<shm, table, tb, monVars>>

\* wait_for_request_token and wait_for_token; with burst_size 0 the latter
\* divides by it.
wait_for_token(i) ==
  /\ task[i].pc = "wait"
  /\ Goto(i, IF tb.burst THEN "throttled" ELSE "dead")
  /\ UNCHANGED <<shm, table, tb, monVars>>

\* The provider's post_send.
post_send(i) ==
  /\ task[i].pc \in {"free", "throttled"}
  /\ Goto(i, "ready")
  /\ UNCHANGED <<shm, table, tb, monVars>>

report_bw(i, bandwidth) ==
  /\ i = 0 /\ HasQp(i)
  /\ table' = [table EXCEPT ![i].bw = bandwidth]
  /\ UNCHANGED <<shm, tb, monVars, task>>

report_latency(i, tail) ==
  /\ i = 0 /\ HasQp(i)
  /\ table' = [table EXCEPT ![i].tail = tail]
  /\ UNCHANGED <<shm, tb, monVars, task>>

\* A task ends, wherever it is; nothing clears its entry.
Exit(i) ==
  /\ task[i].pc # "out"
  /\ task' = [task EXCEPT ![i] = [pc |-> "out", bucket |-> 0, since |-> FALSE]]
  /\ UNCHANGED <<shm, table, tb, monVars>>

Task(i) ==
  \/ init_resource_table(i) \/ ibverbs_init(i) \/ ibv_create_qp(i)
  \/ get_base_bucket(i) \/ ibv_post_send(i) \/ wait_for_token(i) \/ post_send(i)
  \/ \E b \in Bandwidths : report_bw(i, b)
  \/ \E l \in Tails : report_latency(i, l)
  \/ Exit(i)

Next == Start \/ Monitor \/ KillMonitor \/ \E i \in Tasks : Task(i)

\* The monitor's threads are scheduled and sleep for a bounded time.
Spec == Init /\ [][Next]_vars
FairSpec == Spec /\ WF_vars(NetRead) /\ WF_vars(NetSet) /\ WF_vars(Slack)

-----------------------------------------------------------------------------
(* Properties.                                                              *)

\* The entries whose line the monitor has read have their configured type.
Configured ==
  /\ mon = "config" => \A i \in Tasks : i < line => table[i].type = ConfiguredType(i)
  /\ mon \in {"resource", "run"} => \A i \in Tasks : table[i].type = ConfiguredType(i)

\* The inductive invariant: types, and the configuration is in the table from the
\* moment its lines are read, whatever tasks do meanwhile.
TInv == TypeOK /\ Configured

\* A task that was started after "init done", with no restart of the monitor since.
Orderly(i) == task[i].since

\* No task that the configuration file calls secondary posts without tokens.
AlwaysThrottled ==
  \A i \in Tasks : task[i].pc = "free" => ConfiguredType(i) = "LATENCY"

\* It does not when it was started after the monitor had finished main's
\* initialisation, whatever other tasks do; and ibverbs_init and ibv_post_send do
\* not kill it.
OrderlyThrottled ==
  \A i \in Tasks : Orderly(i) =>
    /\ task[i].pc = "free" => ConfiguredType(i) = "LATENCY"
    /\ task[i].pc # "dead"

\* The bucket index of its QP is an index of buckets[].
InRange ==
  \A i \in Tasks : Orderly(i) /\ HasQp(i) => task[i].bucket \in 0 .. NR_BUCKET - 1

\* A task started in order is throttled as configured, survives ibverbs_init and
\* ibv_post_send, and its QP starts at a bucket that exists.
OrderlyServed == OrderlyThrottled /\ InRange

\* The inductive invariant behind it: while an orderly task runs nobody is between
\* Start and "init done", so the types, burst_size and, once some QP was created,
\* next_bucket are the configured ones; they outlive the monitor that wrote them.
OInv ==
  /\ TInv
  /\ mon # "off" => shm
  /\ mon \in {"resource", "run"} => tb.burst
  /\ \A i \in Tasks : Orderly(i) =>
       /\ mon \in {"run", "off"} /\ tb.burst
       /\ \A j \in Tasks : table[j].type = ConfiguredType(j)
       /\ task[i].pc = "store" => tb.next \in 0 .. NR_BUCKET - 1
  /\ OrderlyServed

\* The slack of such a primary task becomes the one of its latency when that stays
\* the same: the "on" of ibverbs_init is not lost and the loop of monitor sees it.
SlackFollows ==
  \A l \in Tails :
    <>[](Orderly(0) /\ HasQp(0) /\ mon = "run" /\ table[0].tail = l)
      => <>[](slack = <<IF Qos < l THEN 0 ELSE Qos - l, Qos>>)

\* However the tasks and the monitor start, die and start again: a post that
\* begins while the monitor runs is throttled when its task is secondary.
RunningThrottles ==
  [][\A i \in Tasks :
       task[i].pc = "ready" /\ task'[i].pc = "free" /\ mon = "run"
         => ConfiguredType(i) = "LATENCY"]_vars

\* network_monitor gives away no more than three quarters of the link together
\* with what the primary reported, when the primary alone uses no more than that.
LeavesBuffer ==
  [][net # -1 /\ net' = -1 /\ mon' = "run" /\ 4 * net <= 3 * TOTAL_BW
       => 4 * (tb'.rate + net) <= 3 * TOTAL_BW]_vars

\* Once the primary's report no longer changes, the rate becomes the one for it.
RateFollows ==
  \A b \in Bandwidths :
    <>[](mon = "run" /\ table[0].bw = b) => <>[](tb.rate \in BeBw(b % WORD32))
=============================================================================
