-------------------------------- MODULE Acmp ---------------------------------
(***************************************************************************)
(* Address and route resolution of ibacm (prov/acmp/src/acmp.c).  Clients  *)
(* ask for a destination; requests wait in its queue while a resolve       *)
(* message is multicast, retried and timed out, and while the SA (subnet   *)
(* administrator) is asked for the route.  Four kinds of threads meet at a *)
(* destination: clients, the completion handler "comp", the retry thread   *)
(* "retry" and the SA handler "sa".                                        *)
(*                                                                         *)
(* A step is one critical section of dest->lock or ep->lock; only          *)
(* acmp_process_acm_recv joins the two it has, as the message it has taken *)
(* off the endpoint is in nobody else's reach until it has the other lock. *)
(* Messages are numbered in the order they are allocated (their            *)
(* transaction ids), and destinations are objects: an expired one is       *)
(* replaced, not reset.                                                    *)
(***************************************************************************)
EXTENDS Integers, Sequences, FiniteSets, Functions

CONSTANTS
    Requests,   \* client requests
    Addr,       \* [Requests -> Nat]: the address each one asks for
    Op,         \* [Requests -> {"name", "ip", "path"}]: what it resolves, or asks for
    Uses,       \* the uses considered: see env
    Retries,    \* the option `retries'
    Depth       \* the option `resolve_depth', and `resp_depth'

ASSUME OptionsAssumption ==
    /\ Retries \in Nat /\ Depth \in Nat \ {0}
    /\ IsFiniteSet(Requests)
    /\ Uses \subseteq [route_prot : {"acm", "sa"}, asks : SUBSET Requests, msgs : Nat,
                       dests : Nat, old : Nat, solicits : Nat, fails : Nat]

Addrs == {Addr[r] : r \in Requests}
Threads == {"comp", "retry", "sa"}
Kinds == {"resolve", "resp"}

VARIABLES
    env,        \* the use: option route_prot, the requests that come, and what may
                \* still happen: messages, destinations, timeouts of a record,
                \* unsolicited requests, and sends that complete in error
    dest,       \* Seq of destinations: [state, queue, path, refs]
    map,        \* [Addrs -> index of the current destination, or 0]: ep->dest_map
    msgs,       \* Seq of messages: [kind, dest, tries]
    active,     \* ep->active_queue: messages given to the queue pair
    dead,       \* the active messages whose completion reported an error
    wait_queue, \* ep->wait_queue, in order; wait_cnt is its length
    timeout_list,
    pending, credits,  \* [Kinds -> Seq], [Kinds -> Nat]: the send queues
    sa,         \* [index -> "none", "dest", "resolve"]: the SA query that is out
    job,        \* [Threads -> what the thread still has to do]
    retry,      \* where acmp_retry_handler is
    req,        \* [Requests -> [at, dest]]: the client threads
    reply,      \* [Requests -> Seq of replies [status, path]]
    missed,     \* history: a signal came while the retry thread went to sleep
    taken       \* history: the destinations that were READY and at some time taken back
sends == <<msgs, active, dead, wait_queue, timeout_list, pending, credits>>
vars == <<env, dest, map, sends, sa, job, retry, req, reply, missed, taken>>

NoJob == [at |-> "idle", dest |-> 0, status |-> "none", respond |-> FALSE, ref |-> FALSE]

Init ==
    /\ env \in Uses
    /\ dest = <<>> /\ map = [a \in Addrs |-> 0]
    /\ msgs = <<>> /\ active = {} /\ dead = {} /\ wait_queue = <<>> /\ timeout_list = <<>>
    /\ pending = [k \in Kinds |-> <<>>] /\ credits = [k \in Kinds |-> Depth]
    /\ sa = [o \in 1..env.dests |-> "none"]
    /\ job = [t \in Threads |-> NoJob] /\ retry = "check"
    /\ req = [r \in Requests |-> [at |-> "new", dest |-> 0]]
    /\ reply = [r \in Requests |-> <<>>]
    /\ missed = FALSE /\ taken = {}

-----------------------------------------------------------------------------
(* Destinations.                                                           *)

NewDest == [state |-> "INIT", queue |-> <<>>, path |-> "none", refs |-> 2]

\* The reference taken by the lookup of an expired record is given back.
AcquirePuts(a, expired) ==
    LET o == map[a]
    IN  IF o = 0 \/ expired
        THEN [map |-> [map EXCEPT ![a] = Len(dest) + 1], got |-> Len(dest) + 1,
              dest |-> Append(IF o = 0 THEN dest ELSE [dest EXCEPT ![o].refs = @ - 1], NewDest)]
        ELSE [map |-> map, got |-> o, dest |-> [dest EXCEPT ![o].refs = @ + 1]]

(* acmp_acquire_dest.  The lookup takes a reference; when the record has    *)
(* expired, acmp_remove_dest gives back the map's reference and the one of  *)
(* the lookup stays.                                                        *)
acmp_acquire_dest(a, expired) ==
    LET o == map[a]
    IN  IF o = 0 \/ expired
        THEN [map |-> [map EXCEPT ![a] = Len(dest) + 1], got |-> Len(dest) + 1,
              dest |-> Append(dest, NewDest)]
        ELSE [map |-> map, got |-> o, dest |-> [dest EXCEPT ![o].refs = @ + 1]]

CanAcquire(a, expired) ==
    /\ expired => map[a] # 0 /\ dest[map[a]].state = "READY"
    /\ map[a] = 0 \/ expired => Len(dest) < env.dests

(* The new record cannot be allocated: an expired one is off the map, with  *)
(* the reference of the lookup.                                             *)
NoDest(a) ==
    /\ map[a] # 0 => dest[map[a]].state = "READY"
    /\ map' = [map EXCEPT ![a] = 0]

Set(o, d) == dest' = [dest EXCEPT ![o] = d]
Put(d) == [d EXCEPT !.refs = @ - 1]

-----------------------------------------------------------------------------
(* Messages.                                                               *)

acmp_alloc_send(k, o, tries) == [kind |-> k, dest |-> o, tries |-> tries]

(* acmp_post_send of a message that was allocated for it.                  *)
acmp_post_send(k, o, tries) ==
    LET m == Len(msgs) + 1
    IN  /\ m <= env.msgs
        /\ msgs' = Append(msgs, acmp_alloc_send(k, o, tries))
        /\ IF credits[k] > 0
           THEN /\ credits' = [credits EXCEPT ![k] = @ - 1]
                /\ active' = active \cup {m} /\ UNCHANGED pending
           ELSE /\ pending' = [pending EXCEPT ![k] = Append(@, m)]
                /\ UNCHANGED <<credits, active>>
        /\ UNCHANGED <<dead, wait_queue, timeout_list>>

\* The credit comes back although a pending message takes its place.
AvailableTwice(q, k) ==
    IF q.pending[k] = <<>> THEN [q EXCEPT !.credits[k] = @ + 1]
    ELSE [q EXCEPT !.active = @ \cup {Head(q.pending[k])}, !.pending[k] = Tail(@), !.credits[k] = @ + 1]

(* acmp_send_available, on the part of the endpoint it changes.            *)
Queues == [active |-> active, pending |-> pending, credits |-> credits]
acmp_send_available(q, k) ==
    IF q.pending[k] = <<>> THEN [q EXCEPT !.credits[k] = @ + 1]
    ELSE [q EXCEPT !.active = @ \cup {Head(q.pending[k])}, !.pending[k] = Tail(@)]
SetQueues(q) == active' = q.active /\ pending' = q.pending /\ credits' = q.credits

(* acmp_free_send: a response holds its destination, a resolve message the *)
(* multicast group.                                                        *)
FreeSend(m) == IF msgs[m].kind = "resp" THEN [dest EXCEPT ![msgs[m].dest].refs = @ - 1] ELSE dest

FirstToWait == wait_queue = <<>>

(* acmp_complete_send: the send is done.  A message that wants a response  *)
(* waits for it; the first one to wait wakes the retry thread.             *)
acmp_complete_send(m) ==
    /\ job["comp"] = NoJob
    /\ m \in active \ dead
    /\ IF msgs[m].tries > 0
       THEN /\ active' = active \ {m}
            /\ wait_queue' = Append(wait_queue, m)
            /\ IF ~FirstToWait THEN UNCHANGED <<retry, missed>>
               ELSE IF retry = "asleep" THEN retry' = "check" /\ UNCHANGED missed
               ELSE missed' = (missed \/ retry = "drowsy") /\ UNCHANGED retry
            /\ UNCHANGED <<dest, pending, credits>>
       ELSE /\ SetQueues(acmp_send_available([Queues EXCEPT !.active = @ \ {m}], msgs[m].kind))
            /\ dest' = FreeSend(m)
            /\ UNCHANGED <<wait_queue, retry, missed>>
    /\ UNCHANGED <<env, map, msgs, dead, timeout_list, sa, job, req, reply, taken>>

(* acmp_process_comp of a completion in error: logged, nothing else.       *)
SendFails(m) ==
    /\ env.fails > 0 /\ env' = [env EXCEPT !.fails = @ - 1]
    /\ job["comp"] = NoJob
    /\ m \in active \ dead
    /\ dead' = dead \cup {m}
    /\ UNCHANGED <<dest, map, msgs, active, wait_queue, timeout_list, pending, credits,
                   sa, job, retry, req, reply, missed, taken>>

-----------------------------------------------------------------------------
(* What a handler makes of a destination: its new state and path, the SA   *)
(* query it starts and the status its queued requests are answered with    *)
(* ("wait": not yet).                                                      *)

Outcome(state, path, query, status) ==
    [state |-> state, path |-> path, query |-> query, status |-> status]

(* acmp_resolve_path_sa: the query is out, or could not be sent.           *)
acmp_resolve_path_sa(handler) ==
    { Outcome("QUERY_ROUTE", "addr", handler, "wait"), Outcome("INIT", "addr", "none", "error") }

(* The mgid was taken from the table it is looked up in.                   *)
acmp_record_acm_route == { Outcome("READY", "full", "none", "ok") }

(* acmp_record_acm_addr, then acmp_record_acm_route or the SA.             *)
AddrKnown(path, handler) ==
    { Outcome("INIT", path, "none", "error") }    \* no shared multicast group
    \cup IF env.route_prot = "acm" THEN acmp_record_acm_route
         ELSE acmp_resolve_path_sa(handler)

Becomes(d, x) == [d EXCEPT !.state = x.state, !.path = x.path]
StartSa(o, x) == sa' = IF x.query = "none" THEN sa ELSE [sa EXCEPT ![o] = x.query]

Completing(t, o, status, respond, ref) ==
    job' = [job EXCEPT ![t] = [at |-> "complete", dest |-> o, status |-> status,
                               respond |-> respond, ref |-> ref]]

AddrExpected(d) == d.state = "QUERY_ADDR"

(* acmp_process_addr_resp, run by t for message m: an answer, or a timeout.*)
acmp_process_addr_resp(t, m, good) ==
    LET o == msgs[m].dest
        d == dest[o]
    IN  IF ~AddrExpected(d)
        THEN Set(o, Put(d)) /\ UNCHANGED <<sa, job>>
        ELSE \E x \in IF good THEN AddrKnown(d.path, "dest")
                      ELSE {Outcome("INIT", d.path, "none", "error")} :
               /\ StartSa(o, x)
               /\ IF x.status = "wait" THEN Set(o, Put(Becomes(d, x))) /\ UNCHANGED job
                  ELSE Set(o, Becomes(d, x)) /\ Completing(t, o, x.status, FALSE, TRUE)

(* list_del of the i-th entry of a list.                                   *)
list_del(s, i) == SubSeq(s, 1, i - 1) \o SubSeq(s, i + 1, Len(s))

(* acmp_get_request finds the message of a response among those that wait *)
(* or those still being sent.  A duplicate, or a response that comes after *)
(* the timeout, finds none.                                                *)
acmp_get_request(m) ==
    \/ /\ \E i \in DOMAIN wait_queue :
            wait_queue[i] = m /\ wait_queue' = list_del(wait_queue, i)
       /\ SetQueues(acmp_send_available(Queues, "resolve"))
       /\ UNCHANGED msgs
    \/ /\ m \in active /\ msgs[m].tries > 0
       /\ msgs' = [msgs EXCEPT ![m].tries = 0]
       /\ UNCHANGED <<wait_queue, active, pending, credits>>

acmp_process_acm_recv(m) ==
    /\ job["comp"] = NoJob
    /\ acmp_get_request(m)
    /\ \E good \in BOOLEAN : acmp_process_addr_resp("comp", m, good)
    /\ UNCHANGED <<env, map, dead, timeout_list, retry, req, reply, missed, taken>>

SaOutcome(d, good) ==
    IF good THEN Outcome("READY", "full", "none", "ok") ELSE Outcome("INIT", d.path, "none", "error")

(* acmp_dest_sa_resp, and acmp_resolve_sa_resp around it.                  *)
acmp_dest_sa_resp(o, good) ==
    /\ job["sa"] = NoJob /\ sa[o] # "none"
    /\ sa' = [sa EXCEPT ![o] = "none"]
    /\ IF dest[o].state # "QUERY_ROUTE"
       THEN /\ UNCHANGED dest
            /\ job' = IF sa[o] = "dest" THEN job
                      ELSE [job EXCEPT !["sa"] = [NoJob EXCEPT !.at = "respond", !.dest = o]]
       ELSE LET x == SaOutcome(dest[o], good)
            IN  Set(o, Becomes(dest[o], x)) /\ Completing("sa", o, x.status, sa[o] = "resolve", FALSE)
    /\ UNCHANGED <<env, map, sends, retry, req, reply, missed, taken>>

(* acmp_complete_queued_req: one request at a time, without the lock while *)
(* it is answered; then what the caller does after it.                     *)
acmp_complete_queued_req(t) ==
    LET j == job[t]
        d == dest[j.dest]
        more == j.respond /\ (t = "sa" \/ j.status = "ok")
    IN  /\ j.at = "complete"
        /\ IF d.queue # <<>>
           THEN /\ Set(j.dest, [d EXCEPT !.queue = Tail(@)])
                /\ reply' = [reply EXCEPT ![Head(d.queue)] =
                                Append(@, [status |-> j.status, path |-> d.path])]
                /\ UNCHANGED job
           ELSE /\ job' = [job EXCEPT ![t] = IF more THEN [j EXCEPT !.at = "respond"] ELSE NoJob]
                /\ IF ~more /\ j.ref THEN Set(j.dest, Put(d)) ELSE UNCHANGED dest
                /\ UNCHANGED reply
        /\ UNCHANGED <<env, map, sends, sa, retry, req, missed, taken>>

(* acmp_send_addr_resp, or its failure to allocate the message.            *)
acmp_send_addr_resp(t) ==
    LET j == job[t]
        d == IF j.ref THEN Put(dest[j.dest]) ELSE dest[j.dest]
    IN  /\ j.at = "respond"
        /\ job' = [job EXCEPT ![t] = NoJob]
        /\ \/ /\ t = "sa" => dest[j.dest].state = "READY"
              /\ acmp_post_send("resp", j.dest, 0)
              /\ Set(j.dest, [d EXCEPT !.refs = @ + 1])
           \/ UNCHANGED sends /\ Set(j.dest, d)
        /\ UNCHANGED <<env, map, sa, retry, req, reply, missed, taken>>

-----------------------------------------------------------------------------
(* An unsolicited request of another node: acmp_process_addr_req.          *)

Solicit(a) ==
    /\ env.solicits > 0 /\ env' = [env EXCEPT !.solicits = @ - 1]
    /\ job["comp"] = NoJob
    /\ \E expired, mine \in BOOLEAN :
         LET k == acmp_acquire_dest(a, expired)
         IN  /\ CanAcquire(a, expired)
             /\ dest' = k.dest /\ map' = k.map
             /\ job' = [job EXCEPT !["comp"] = [at |-> "addr_req", dest |-> k.got, status |-> "ok",
                                                respond |-> mine, ref |-> TRUE]]
    /\ UNCHANGED <<sends, sa, retry, req, reply, missed, taken>>

SolicitFails(a) ==
    /\ env.solicits > 0 /\ env' = [env EXCEPT !.solicits = @ - 1]
    /\ job["comp"] = NoJob
    /\ NoDest(a)
    /\ UNCHANGED <<dest, sends, sa, job, retry, req, reply, missed, taken>>

\* The route is looked up for the sender of the request only.
RouteForSender(d, mine) == mine

RouteWanted(d, mine) == mine \/ d.queue # <<>>

acmp_process_addr_req ==
    LET j == job["comp"]
        d == dest[j.dest]
        Route == IF env.route_prot = "acm" THEN acmp_record_acm_route
                 ELSE IF RouteWanted(d, j.respond) THEN acmp_resolve_path_sa("resolve")
                 ELSE {Outcome("ADDR_RESOLVED", "addr", "none", "wait")}
        NoGroup == {Outcome("INIT", d.path, "none", "error")}
        Ends == CASE d.state = "READY" -> {Outcome("READY", d.path, "none", "ok")} \cup NoGroup \cup Route
                  [] d.state \in {"INIT", "QUERY_ADDR"} -> NoGroup \cup Route
                  [] d.state = "ADDR_RESOLVED" -> Route
                  [] OTHER -> {Outcome(d.state, d.path, "none", "wait")}
    IN  /\ j.at = "addr_req"
        /\ \E x \in Ends :
             /\ StartSa(j.dest, x)
             /\ taken' = IF d.state = "READY" /\ x.state # "READY" THEN taken \cup {j.dest} ELSE taken
             /\ IF x.status = "wait"
                THEN Set(j.dest, Put(Becomes(d, x))) /\ job' = [job EXCEPT !["comp"] = NoJob]
                ELSE Set(j.dest, Becomes(d, x)) /\ Completing("comp", j.dest, x.status, j.respond, TRUE)
        /\ UNCHANGED <<env, map, sends, retry, req, reply, missed>>

-----------------------------------------------------------------------------
(* A client: acmp_resolve_dest, which takes the destination and then its   *)
(* lock.                                                                   *)

Acquire(r) ==
    /\ r \in env.asks /\ req[r].at = "new"
    /\ \E expired \in BOOLEAN :
         LET k == acmp_acquire_dest(Addr[r], expired)
         IN  /\ CanAcquire(Addr[r], expired)
             /\ dest' = k.dest /\ map' = k.map
             /\ req' = [req EXCEPT ![r] = [at |-> "have", dest |-> k.got]]
    /\ UNCHANGED <<env, sends, sa, job, retry, reply, missed, taken>>

Answer(r, status, path) == reply' = [reply EXCEPT ![r] = Append(@, [status |-> status, path |-> path])]

AcquireFails(r) ==
    /\ r \in env.asks /\ req[r].at = "new" /\ req' = [req EXCEPT ![r].at = "done"]
    /\ NoDest(Addr[r]) /\ Answer(r, "error", "none")
    /\ UNCHANGED <<env, dest, sends, sa, job, retry, missed, taken>>

\* The client is answered, and its request stays in the queue.
QueueAndDecline(r, o, d) ==
    Set(o, Put([d EXCEPT !.queue = Append(@, r)])) /\ Answer(r, "error", d.path)

acmp_send_resolve(o) == acmp_post_send("resolve", o, Retries + 1)

(* acmp_queue_req; the client is told at once when it will not wait        *)
(* (ACM_FLAGS_NODELAY) or the request cannot be allocated.                 *)
acmp_queue_req(r, o, d) ==
    \/ Set(o, Put([d EXCEPT !.queue = Append(@, r)])) /\ UNCHANGED reply
    \/ Set(o, Put(d)) /\ Answer(r, "error", d.path)

(* acmp_dest_timeout: the record is good, or its address or its route is   *)
(* too old.                                                                *)
acmp_dest_timeout(d) ==
    {d} \cup IF d.state # "READY" \/ env.old = 0 THEN {}
             ELSE { [d EXCEPT !.state = "INIT"], [d EXCEPT !.state = "ADDR_RESOLVED", !.path = "addr"] }

(* acmp_resolve_dest and acmp_resolve_path, from taking the lock on.       *)
acmp_resolve_dest(r) ==
    LET o == req[r].dest
    IN  /\ req[r].at = "have" /\ req' = [req EXCEPT ![r].at = "done"]
        /\ \E d \in acmp_dest_timeout(dest[o]) :
             /\ IF d = dest[o] THEN UNCHANGED <<env, taken>>
                ELSE env' = [env EXCEPT !.old = @ - 1] /\ taken' = taken \cup {o}
             /\ \/ /\ d.state = "READY" \/ (d.state = "ADDR_RESOLVED" /\ Op[r] = "ip")
                   /\ Set(o, Put(d)) /\ Answer(r, "ok", d.path)
                   /\ UNCHANGED <<sends, sa>>
                \/ /\ IF Op[r] = "path" THEN d.state \in {"INIT", "ADDR_RESOLVED"}
                      ELSE d.state = "ADDR_RESOLVED" /\ Op[r] # "ip"
                   /\ \E x \in acmp_resolve_path_sa("dest") :
                        /\ StartSa(o, x)
                        /\ IF x.status = "wait" THEN acmp_queue_req(r, o, Becomes(d, x))
                           ELSE Set(o, Put(Becomes(d, x))) /\ Answer(r, x.status, x.path)
                   /\ UNCHANGED sends
                \/ /\ d.state = "INIT" /\ Op[r] # "path"
                   /\ \/ /\ acmp_send_resolve(o)
                         /\ acmp_queue_req(r, o, [d EXCEPT !.state = "QUERY_ADDR", !.refs = @ + 1])
                      \/ UNCHANGED sends /\ Set(o, Put(d)) /\ Answer(r, "error", d.path)
                   /\ UNCHANGED sa
                \/ /\ d.state \in {"QUERY_ADDR", "QUERY_ROUTE"}
                   /\ acmp_queue_req(r, o, d)
                   /\ UNCHANGED <<sends, sa>>
        /\ UNCHANGED <<map, job, retry, missed>>

-----------------------------------------------------------------------------
(* The retry thread.                                                       *)

(* It reads wait_cnt, and waits for a signal if it is zero.                *)
RetryCheck ==
    /\ retry = "check" /\ retry' = IF wait_queue = <<>> THEN "drowsy" ELSE "scan"
    /\ UNCHANGED <<env, dest, map, sends, sa, job, req, reply, missed, taken>>

event_wait ==
    /\ retry = "drowsy" /\ retry' = "asleep"
    /\ UNCHANGED <<env, dest, map, sends, sa, job, req, reply, missed, taken>>

\* The tries are not counted down.
ExpireUncounted(q, m) == [q EXCEPT !.queues.active = @ \cup {m}]

Expire(q, m) ==
    IF q.msgs[m].tries > 1
    THEN [q EXCEPT !.msgs[m].tries = @ - 1, !.queues.active = @ \cup {m}]
    ELSE [q EXCEPT !.msgs[m].tries = 0, !.list = Append(@, m),
                   !.queues = acmp_send_available(@, q.msgs[m].kind)]

(* The loop of acmp_process_wait_queue after its first n messages.          *)
Scanned[n \in 0..Len(wait_queue)] ==
    IF n = 0 THEN [msgs |-> msgs, queues |-> Queues, list |-> timeout_list]
    ELSE Expire(Scanned[n - 1], wait_queue[n])

(* acmp_process_wait_queue: the messages at the front have expired.        *)
acmp_process_wait_queue ==
    /\ retry = "scan" /\ retry' = "timeouts"
    /\ \E n \in 0..Len(wait_queue) :
         LET q == Scanned[n]
         IN  /\ msgs' = q.msgs /\ SetQueues(q.queues) /\ timeout_list' = q.list
             /\ wait_queue' = SubSeq(wait_queue, n + 1, Len(wait_queue))
    /\ UNCHANGED <<env, dest, map, dead, sa, job, req, reply, missed, taken>>

(* acmp_process_timeouts.  Afterwards the thread waits for the next expiry *)
(* at most, and looks at wait_cnt again.                                   *)
acmp_process_timeouts ==
    /\ retry = "timeouts" /\ job["retry"] = NoJob
    /\ IF timeout_list = <<>>
       THEN retry' = "check" /\ UNCHANGED <<dest, sa, job, timeout_list>>
       ELSE /\ acmp_process_addr_resp("retry", Head(timeout_list), FALSE)
            /\ timeout_list' = Tail(timeout_list)
            /\ UNCHANGED retry
    /\ UNCHANGED <<env, map, msgs, active, dead, wait_queue, pending, credits, req, reply, missed, taken>>

-----------------------------------------------------------------------------
Retrying == RetryCheck \/ event_wait \/ acmp_process_wait_queue \/ acmp_process_timeouts
Finishing(t) == acmp_complete_queued_req(t) \/ acmp_send_addr_resp(t)
Client(r) == Acquire(r) \/ AcquireFails(r) \/ acmp_resolve_dest(r)
CompleteSend == \E m \in DOMAIN msgs : acmp_complete_send(m)
SaAnswers == \E o \in DOMAIN dest, good \in BOOLEAN : acmp_dest_sa_resp(o, good)

Next ==
    \/ \E r \in Requests : Client(r)
    \/ \E a \in Addrs : Solicit(a) \/ SolicitFails(a)
    \/ acmp_process_addr_req
    \/ CompleteSend
    \/ \E m \in DOMAIN msgs : SendFails(m) \/ acmp_process_acm_recv(m)
    \/ SaAnswers
    \/ \E t \in Threads : Finishing(t)
    \/ Retrying

Spec == Init /\ [][Next]_vars

(* The threads run, the device completes what is posted, the SA layer      *)
(* answers or times out every query, and time passes: a message that stays *)
(* in the wait queue is found expired at last.                             *)
FairSpec ==
    /\ Spec
    /\ WF_vars(CompleteSend) /\ WF_vars(SaAnswers) /\ WF_vars(acmp_process_addr_req)
    /\ \A t \in Threads : WF_vars(Finishing(t))
    /\ WF_vars(Retrying)
    /\ SF_vars(acmp_process_wait_queue /\ wait_queue' # wait_queue)

-----------------------------------------------------------------------------
(* Properties.                                                             *)

States == {"INIT", "QUERY_ADDR", "ADDR_RESOLVED", "QUERY_ROUTE", "READY"}
Queued(o) == Range(dest[o].queue)
\* Messages that are somewhere; those whose handler has not run; and of these the
\* ones that somebody will handle: acmp_process_comp leaves a message whose send
\* completed in error in active_queue, for a late answer at most.
Held(k) == {m \in active \cup Range(wait_queue) : msgs[m].kind = k}
Unhandled == {m \in active : msgs[m].tries > 0} \cup Range(wait_queue)
                \cup Range(timeout_list) \cup Range(pending["resolve"])
Pursuing == Unhandled \ dead

(* A message is in at most one of the endpoint's lists, and once.          *)
OnePlace ==
    /\ IsInjective(wait_queue) /\ IsInjective(timeout_list)
    /\ \A k \in Kinds : IsInjective(pending[k])
    /\ active \cap Range(wait_queue) = {}
    /\ (active \cup Range(wait_queue)) \cap Range(timeout_list) = {}
    /\ \A k \in Kinds : (active \cup Range(wait_queue) \cup Range(timeout_list)) \cap Range(pending[k]) = {}
    /\ Range(pending["resolve"]) \cap Range(pending["resp"]) = {}

(* Every component of the state has its type, and a message is in one place.*)
TypeOK ==
    /\ \A o \in DOMAIN dest : /\ dest[o].state \in States /\ dest[o].refs \in Nat
                              /\ dest[o].path \in {"none", "addr", "full"}
                              /\ Queued(o) \subseteq Requests
    /\ \A a \in Addrs : map[a] \in 0..Len(dest)
    /\ \A m \in DOMAIN msgs : msgs[m].tries \in 0..Retries + 1
    /\ OnePlace
    /\ retry \in {"check", "drowsy", "asleep", "scan", "timeouts"}

(* acmp_post_send, acmp_send_available: every credit of a send queue is    *)
(* either free or held by one message, from its first send through all its *)
(* retries until it is answered, fails or is freed; and a message is       *)
(* delayed only while no credit is free.                                   *)
CreditsExact ==
    \A k \in Kinds : /\ credits[k] + Cardinality(Held(k)) = Depth
                     /\ pending[k] # <<>> => credits[k] = 0

(* The state of an endpoint is well formed and its credits balance.        *)
EndpointBalanced == TypeOK /\ CreditsExact

(* A destination is given up when the send of a message for it completed   *)
(* in error: that message is neither retried nor timed out.                *)
GivenUp(o) == \E m \in Unhandled \cap dead : msgs[m].dest = o

(* A destination that waits is waited for: in QUERY_ADDR some resolve      *)
(* message for it has still to be answered or to time out, unless it is    *)
(* given up; and its SA query is out exactly in QUERY_ROUTE.               *)
(* (acmp_dest_sa_resp never has to discard a response.)                    *)
QueryIsOut ==
    \A o \in DOMAIN dest :
        /\ dest[o].state = "QUERY_ADDR" => GivenUp(o) \/ \E m \in Pursuing : msgs[m].dest = o
        /\ dest[o].state = "QUERY_ROUTE" <=> sa[o] # "none"

(* No queued request is forgotten: while one is in the queue of a          *)
(* destination, that waits (see QueryIsOut), or some thread is in          *)
(* acmp_complete_queued_req for it, although that drops the lock between   *)
(* requests and clients queue new ones meanwhile.                          *)
QueuedIsPursued ==
    \A o \in DOMAIN dest : dest[o].queue # <<>> =>
        \/ dest[o].state \in {"QUERY_ADDR", "QUERY_ROUTE"}
        \/ \E t \in Threads : job[t].at = "complete" /\ job[t].dest = o

(* A request gets one reply: it is not in a queue after its reply, and not *)
(* in two places of the queues, whichever threads complete them.           *)
AnsweredOnce ==
    /\ \A r \in Requests : Len(reply[r]) <= 1
    /\ \A o \in DOMAIN dest : /\ IsInjective(dest[o].queue)
                              /\ \A r \in Queued(o) : reply[r] = <<>> /\ req[r] = [at |-> "done", dest |-> o]

(* A reply of success carries a complete path (for an IP lookup, the       *)
(* address), unless the record was ever taken back (a timeout, or a new    *)
(* queue pair of the node): its requests may still be being answered then. *)
SuccessMeansResolved ==
    \A r \in Requests, i \in 1..1 :
        reply[r] # <<>> /\ reply[r][i].status = "ok" /\ req[r].dest \notin taken
            => reply[r][i].path \in IF Op[r] = "ip" THEN {"addr", "full"} ELSE {"full"}

(* acmp_resolve_response answers a request once, and with a path if it     *)
(* reports success.                                                        *)
AnswersRight == AnsweredOnce /\ SuccessMeansResolved

(* No thread uses a destination after acmp_put_dest has freed it.  The SA  *)
(* query and its handlers keep no reference of their own.                  *)
InUseIsHeld ==
    \A o \in DOMAIN dest :
        \/ dest[o].refs > 0
        \/ /\ sa[o] = "none" /\ o \notin Range(map)
           /\ \A t \in Threads : job[t].dest # o
           /\ \A r \in Requests : req[r] # [at |-> "have", dest |-> o]
           /\ \A m \in Unhandled \cup active \cup Range(pending["resp"]) : msgs[m].dest # o

(* The retry thread sleeps without a limit over a waiting message only     *)
(* when the signal came between its look at wait_cnt and its wait.         *)
OversleepsOnlyByRace == retry = "asleep" /\ wait_queue # <<>> => missed

(* Somebody works for every destination that waits and is not given up,    *)
(* and for every request that is queued at another one; and the retry      *)
(* thread for every message that waits, but for the race.                  *)
EverythingPursued == QueryIsOut /\ QueuedIsPursued /\ OversleepsOnlyByRace

(* A queued request is answered, by the response, the SA or the last       *)
(* timeout; unless the retry thread oversleeps, or a send completes with   *)
(* an error, after which its message is neither retried nor timed out.     *)
QueuedIsAnswered ==
    \A r \in Requests :
        (req[r].at = "done" /\ reply[r] = <<>>) ~> (reply[r] # <<>> \/ missed \/ dead # {})

-----------------------------------------------------------------------------
(* The inductive invariant.                                                *)

Paths == {"none", "addr", "full"}
Dest == [state : States, queue : Seq(Requests), path : Paths, refs : Int]
Msg == [kind : Kinds, dest : Nat, tries : 0..Retries + 1]
Job == [at : {"idle", "addr_req", "complete", "respond"}, dest : Nat,
        status : {"none", "ok", "error"}, respond : BOOLEAN, ref : BOOLEAN]

(* The types; indices are those of destinations that exist.                *)
Shape ==
    /\ env \in [route_prot : {"acm", "sa"}, asks : SUBSET Requests, msgs : Nat,
                dests : Nat, old : Nat, solicits : Nat, fails : Nat]
    /\ dest \in Seq(Dest) /\ Len(dest) <= env.dests
    /\ map \in [Addrs -> 0..Len(dest)]
    /\ sa \in [1..env.dests -> {"none", "dest", "resolve"}]
    /\ job \in [Threads -> Job]
    /\ \A t \in Threads :
        \/ job[t] = NoJob
        \/ /\ job[t].at # "idle" /\ job[t].dest \in 1..Len(dest)
           /\ job[t].at = "addr_req" => t = "comp" /\ job[t].ref
           /\ job[t].at = "complete" => job[t].status \in {"ok", "error"}
    /\ req \in [Requests -> [at : {"new", "have", "done"}, dest : Nat]]
    /\ \A r \in Requests : req[r].at = "have" => req[r].dest \in 1..Len(dest)
    /\ reply \in [Requests -> Seq([status : {"ok", "error"}, path : Paths])]
    /\ retry \in {"check", "drowsy", "asleep", "scan", "timeouts"}
    /\ missed \in BOOLEAN

(* The endpoint's lists.  A message with tries left is a resolve message,  *)
(* and one that waits, or waits to be sent, has tries left.                *)
EndpointInv ==
    /\ msgs \in Seq(Msg) /\ active \subseteq DOMAIN msgs
    /\ wait_queue \in Seq(DOMAIN msgs) /\ timeout_list \in Seq(DOMAIN msgs)
    /\ pending \in [Kinds -> Seq(DOMAIN msgs)] /\ credits \in [Kinds -> Nat]
    /\ \A m \in DOMAIN msgs : /\ msgs[m].kind = "resp" => msgs[m].tries = 0
                              /\ msgs[m].dest \in DOMAIN dest
    /\ \A m \in Range(wait_queue) \cup Range(pending["resolve"]) : msgs[m].tries > 0
    /\ \A m \in Range(timeout_list) : msgs[m].kind = "resolve"
    /\ \A m \in Range(pending["resp"]) : msgs[m].kind = "resp"
    /\ OnePlace /\ CreditsExact

(* A request is queued or answered once its client is done, and not before;*)
(* the record that a reply of success is taken from is READY.              *)
AnswersInv ==
    /\ AnswersRight
    /\ \A r \in Requests : req[r].at # "done" => reply[r] = <<>>
    /\ \A o \in DOMAIN dest : /\ dest[o].state = "READY" => dest[o].path = "full"
                              /\ dest[o].state = "ADDR_RESOLVED" => dest[o].path = "addr"
    /\ \A t \in Threads : job[t].at = "complete" /\ job[t].status = "ok" /\ job[t].dest \notin taken
                            => dest[job[t].dest].state = "READY"

PursuitInv ==
    /\ EverythingPursued
    /\ \A o \in DOMAIN sa : o > Len(dest) => sa[o] = "none"
    /\ retry = "drowsy" /\ wait_queue # <<>> => missed

(* Who holds a reference of a destination: clients that have it and not    *)
(* queued for it yet, threads, and messages until they are handled or sent.*)
(* One more is the map's or, of a record that has expired, nobody's.       *)
HoldingRequests(o) == {r \in Requests : req[r] = [at |-> "have", dest |-> o]}
HoldingThreads(o) == {t \in Threads : job[t].ref /\ job[t].dest = o}
HoldingMessages(o) ==
    {m \in Unhandled \cup {n \in active : msgs[n].kind = "resp"} \cup Range(pending["resp"]) :
        msgs[m].dest = o}
RefsExact ==
    \A o \in DOMAIN dest :
        dest[o].refs = 1 + Cardinality(HoldingRequests(o)) + Cardinality(HoldingThreads(o))
                         + Cardinality(HoldingMessages(o))

AInv == Shape /\ EndpointInv /\ AnswersInv /\ PursuitInv /\ RefsExact
=============================================================================
