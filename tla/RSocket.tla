------------------------------- MODULE RSocket -------------------------------
(***************************************************************************)
(* The stream protocol of rsockets (librdmacm/rsocket.c): two connected    *)
(* sockets that move bytes with RDMA writes.  A sender writes into the     *)
(* windows its peer granted (target_sgl), announces each write with a      *)
(* message, and spends one message credit and one send queue entry on it.  *)
(* A receiver queues the announcements in rmsg and grants half of its      *)
(* receive buffer anew each time half of it has been read.  Control        *)
(* messages have send queue entries of their own.                          *)
(*                                                                         *)
(* Each side has one application thread.  ep[s] is struct rsocket together *)
(* with what its queue pair holds: sq (posted work requests, the first     *)
(* `ran' of them executed at the peer), recvs (posted receives) and cq.    *)
(***************************************************************************)
EXTENDS Integers, Sequences, SequencesExt, TLC

CONSTANTS
    WORD,       \* 2^16: the range of sseq_no, sseq_comp, rseq_no, rseq_comp
    RQ,         \* rq_size
    Uses        \* the ways the pair is used: records of
                \*   sqe, ctrl, sbuf, rbuf  the sizes below
                \*   msg_send  whether a message is a work request of its own
                \*             (RS_OPT_MSG_SEND: iWARP)
                \*   bytes     [Sides -> Nat], what each application sends
                \*   block     the sides whose calls block
                \*   polls     the sides that also call rpoll
                \*   shut      the rshutdown calls: a set of <<side, how>>
                \*   fails     whether the connection may fail

Sides == {"a", "b"}
Peer(s) == IF s = "a" THEN "b" ELSE "a"

ASSUME SizesAssumption ==
    /\ RQ \in Nat /\ RQ >= 2 /\ RQ <= WORD - 2
    /\ \A u \in Uses :
         /\ u.rbuf > 0 /\ u.rbuf % 2 = 0 /\ u.sbuf >= 1
         /\ LET least == IF u.msg_send THEN 2 ELSE 1 IN u.ctrl >= least /\ u.sqe >= least

VARIABLES
    use,        \* the member of Uses this behaviour is one of
    ep,         \* [Sides -> the socket]
    sent,       \* [Sides -> Nat]: bytes handed to rs_write_data so far
    got,        \* [Sides -> Nat]: bytes rrecv has returned so far
    promised    \* [Sides -> Nat]: bytes sent when the side shut down sending
vars == <<use, ep, sent, got, promised>>

NotYet == -1
SQE == use.sqe          \* sq_size - RS_QP_CTRL_SIZE
CTRL == use.ctrl        \* RS_QP_CTRL_SIZE
SBUF == use.sbuf        \* sbuf_size, with RS_SNDLOWAT as the unit
RBUF == use.rbuf        \* rbuf_size
Half == RBUF \div 2
RdWr == {"connected", "readable", "writable"}   \* rs_connect_rdwr
Disconnected == {}                              \* rs_disconnected
Error == {"error"}                              \* rs_error
Idle == [at |-> "idle", call |-> "none", ctrl |-> "none"]

(* rs_init_bufs, rs_create_ep and the exchange of rs_conn_data: each side   *)
(* starts with the first half of its peer's buffer and RQ message credits.  *)
(* The event that rs_create_cq asks for, which makes the first wait return  *)
(* without a reason, has been read.                                         *)
Start ==
    [st |-> RdWr, up |-> TRUE, pc |-> Idle,
     sseq_no |-> 0, sseq_comp |-> RQ % WORD,
     rseq_no |-> 0, rseq_comp |-> RQ \div 2,
     ctrl |-> CTRL, sqe_avail |-> SQE, sbuf_bytes_avail |-> SBUF,
     rbuf_bytes_avail |-> Half, rbuf_free_offset |-> Half % RBUF, rbuf_offset |-> 0,
     remote_sge |-> 1, target_sge |-> 0,
     target_sgl |-> [i \in 0..1 |-> [addr |-> 0, length |-> IF i = 0 THEN Half ELSE 0]],
     rmsg |-> <<>>, rbuf |-> [i \in 0..RBUF-1 |-> 0],
     recvs |-> RQ, sq |-> <<>>, ran |-> 0, cq |-> <<>>,
     cq_armed |-> FALSE, event |-> "off", shut |-> {}, told |-> "no"]

Init ==
    /\ use \in Uses
    /\ ep = [s \in Sides |-> Start]
    /\ sent = [s \in Sides |-> 0]
    /\ got = [s \in Sides |-> 0]
    /\ promised = [s \in Sides |-> NotYet]

-----------------------------------------------------------------------------
(* Work requests.  A request may write remote memory (`write': len bytes of *)
(* the stream from `first' on at rbuf offset `at', or a window of len bytes *)
(* at address `first' into the target_sgl entry `at') and may announce      *)
(* itself (`imm'); `back' is what its completion reports in wr_id.          *)

NoWrite == [write |-> FALSE, at |-> 0, first |-> 0, len |-> 0]

rs_post_msg(op, data) ==
    << NoWrite @@ [op |-> op, data |-> data, imm |-> TRUE, back |-> data] >>

rs_post_write_msg(op, data, at, first, len) ==
    LET w == [write |-> TRUE, at |-> at, first |-> first, len |-> len]
    IN  IF ~use.msg_send
        THEN << w @@ [op |-> op, data |-> data, imm |-> TRUE, back |-> data] >>
        ELSE << w @@ [op |-> op, data |-> data, imm |-> FALSE, back |-> data],
                NoWrite @@ [op |-> op, data |-> data, imm |-> TRUE, back |-> 0] >>

-----------------------------------------------------------------------------
(* Credits.                                                                *)

Signed(x) == LET w == x % WORD IN IF 2 * w >= WORD THEN w - WORD ELSE w

\* ctrl is ctrl_max_seqno - ctrl_seqno: the free control entries.
rs_ctrl_avail(e) == e.ctrl > 0
rs_2ctrl_avail(e) == e.ctrl > 1

rs_give_credits(e) ==
    /\ \/ e.rbuf_bytes_avail >= Half
       \/ Signed(e.rseq_no - e.rseq_comp) >= 0
    /\ IF use.msg_send THEN rs_2ctrl_avail(e) ELSE rs_ctrl_avail(e)
    /\ "connected" \in e.st

\* The window granted is not taken off the free bytes.
SendTwice(e) ==
    LET window == rs_post_write_msg("SGL", (e.rseq_no + RQ) % WORD, e.remote_sge, e.rbuf_free_offset, Half)
    IN  [e EXCEPT !.rseq_comp = (e.rseq_no + RQ \div 2) % WORD,
                  !.ctrl = @ - Len(window), !.sq = @ \o window,
                  !.rbuf_free_offset = IF @ + Half >= RBUF THEN 0 ELSE @ + Half,
                  !.remote_sge = 1 - @]

rs_send_credits(e) ==
    LET credit == (e.rseq_no + RQ) % WORD
        c == [e EXCEPT !.rseq_comp = (e.rseq_no + RQ \div 2) % WORD]
        window == rs_post_write_msg("SGL", credit, e.remote_sge, e.rbuf_free_offset, Half)
        note == rs_post_msg("SGL", credit)
    IN  IF e.rbuf_bytes_avail >= Half
        THEN [c EXCEPT !.ctrl = @ - Len(window), !.sq = @ \o window,
                       !.rbuf_bytes_avail = @ - Half,
                       !.rbuf_free_offset = IF @ + Half >= RBUF THEN 0 ELSE @ + Half,
                       !.remote_sge = 1 - @]
        ELSE [c EXCEPT !.ctrl = @ - 1, !.sq = @ \o note]

rs_update_credits(e) == IF rs_give_credits(e) THEN rs_send_credits(e) ELSE e

-----------------------------------------------------------------------------
(* rs_poll_cq: every completion that is there, in order.  A disconnect     *)
(* leaves the loop at once; otherwise the receives used are posted again.  *)

Received(acc, e, c) ==
    LET one == [acc EXCEPT !.e = e, !.rcnt = @ + 1]
        gone == [acc EXCEPT !.e = [e EXCEPT !.st = Disconnected], !.stop = TRUE]
    IN  CASE c.op = "SGL" -> [one EXCEPT !.e.sseq_comp = c.data]
          [] c.op = "CTRL" /\ c.data = "DISCONNECT" -> gone
          [] c.op = "CTRL" /\ c.data = "SHUTDOWN" ->
               IF "writable" \in e.st
               THEN [one EXCEPT !.e.st = @ \ {"readable"}]
               ELSE gone
          [] c.op = "DATA" -> [one EXCEPT !.e.rmsg = Append(@, c.data)]

\* The completion of a control message frees no control entry.
SendDoneForgets(e, c) ==
    LET d == CASE c.op = "SGL" -> [e EXCEPT !.ctrl = @ + 1]
               [] c.op = "CTRL" -> [e EXCEPT !.st = IF c.data = "DISCONNECT" THEN Disconnected ELSE @]
               [] c.op = "DATA" -> [e EXCEPT !.sqe_avail = @ + 1, !.sbuf_bytes_avail = @ + c.data]
    IN  IF ~c.ok /\ "connected" \in d.st THEN [d EXCEPT !.st = Error] ELSE d

SendDone(e, c) ==
    LET d == CASE c.op = "SGL" -> [e EXCEPT !.ctrl = @ + 1]
               [] c.op = "CTRL" ->
                    [e EXCEPT !.ctrl = @ + 1,
                              !.st = IF c.data = "DISCONNECT" THEN Disconnected ELSE @]
               [] c.op = "DATA" ->
                    [e EXCEPT !.sqe_avail = @ + 1, !.sbuf_bytes_avail = @ + c.data]
    IN  IF ~c.ok /\ "connected" \in d.st THEN [d EXCEPT !.st = Error] ELSE d

PollOne(acc, c) ==
    LET e == [acc.e EXCEPT !.cq = Tail(@)]
    IN  IF acc.stop THEN acc
        ELSE IF ~c.recv THEN [acc EXCEPT !.e = SendDone(e, c)]
        ELSE IF ~c.ok THEN [acc EXCEPT !.e = e]
        ELSE Received(acc, e, c)

rs_poll_cq(e) ==
    LET acc == FoldLeft(PollOne, [e |-> e, rcnt |-> 0, stop |-> FALSE], e.cq)
    IN  IF ~acc.stop /\ "connected" \in acc.e.st
        THEN [acc.e EXCEPT !.recvs = @ + acc.rcnt]
        ELSE acc.e

-----------------------------------------------------------------------------
(* What the calls wait for.                                                *)

rs_can_send(e) ==
    /\ e.sqe_avail >= IF use.msg_send THEN 2 ELSE 1
    /\ e.sbuf_bytes_avail >= 1
    /\ e.sseq_no # e.sseq_comp
    /\ e.target_sgl[e.target_sge].length # 0

\* rshutdown waits for a free control entry instead of all its sends.
CtrlEntryFree(e) == rs_ctrl_avail(e) \/ "connected" \notin e.st

rs_conn_all_sends_done(e) ==
    e.ctrl + e.sqe_avail = SQE + CTRL \/ "connected" \notin e.st

\* rshutdown does not wait for a control entry.
TestWithoutCtrl(call, e) ==
    CASE call = "send" -> rs_can_send(e) \/ "writable" \notin e.st
      [] call = "recv" -> e.rmsg # <<>> \/ "readable" \notin e.st
      [] call \in {"poll", "ctrl"} -> TRUE
      [] call = "done" -> rs_conn_all_sends_done(e)

Test(call, e) ==
    CASE call = "send" -> rs_can_send(e) \/ "writable" \notin e.st
      [] call = "recv" -> e.rmsg # <<>> \/ "readable" \notin e.st
      [] call = "poll" -> TRUE
      [] call = "ctrl" -> rs_ctrl_avail(e) \/ "connected" \notin e.st
      [] call = "done" -> rs_conn_all_sends_done(e)

-----------------------------------------------------------------------------
(* Calls of the application.                                               *)

Set(s, e) == ep' = [ep EXCEPT ![s] = e]
At(e, at, call) == [e EXCEPT !.pc = [Idle EXCEPT !.at = at, !.call = call]]

(* rs_write_data; the target window moves on.                              *)
rs_write_data(s, len) ==
    LET e == ep[s]
        t == e.target_sgl[e.target_sge]
        wr == rs_post_write_msg("DATA", len, t.addr, sent[s] + 1, len)
    IN  Set(s, [e EXCEPT !.sseq_no = (@ + 1) % WORD,
                         !.sqe_avail = @ - Len(wr),
                         !.sbuf_bytes_avail = @ - len,
                         !.target_sgl[e.target_sge] = [addr |-> t.addr + len, length |-> t.length - len],
                         !.target_sge = IF t.length = len THEN 1 - @ ELSE @,
                         !.sq = @ \o wr])

(* rsend, one turn of its loop: as much as the buffers and the window take.*)
(* The state is not looked at while there is room to send.                 *)
rsend(s) ==
    /\ ep[s].pc = Idle
    /\ rs_can_send(ep[s])
    /\ \E len \in 1..(use.bytes[s] - sent[s]) :
         /\ len <= ep[s].sbuf_bytes_avail
         /\ len <= ep[s].target_sgl[ep[s].target_sge].length
         /\ rs_write_data(s, len)
         /\ sent' = [sent EXCEPT ![s] = @ + len]
    /\ UNCHANGED <<use, got, promised>>

(* rrecv, one turn of its copy loop: part of the first message or all of it.*)
rrecv(s) ==
    /\ ep[s].pc = Idle
    /\ ep[s].rmsg # <<>>
    /\ \E n \in 1..Head(ep[s].rmsg) :
         LET e == ep[s]
             whole == n = Head(e.rmsg)
             end_size == RBUF - e.rbuf_offset
         IN  /\ Set(s, [e EXCEPT !.rmsg = IF whole THEN Tail(@) ELSE [@ EXCEPT ![1] = @ - n],
                                 !.rseq_no = IF whole THEN (@ + 1) % WORD ELSE @,
                                 !.rbuf_offset = IF n > end_size THEN n - end_size ELSE @ + n,
                                 !.rbuf_bytes_avail = @ + n])
             /\ got' = [got EXCEPT ![s] = @ + n]
    /\ UNCHANGED <<use, sent, promised>>

(* The end of rshutdown: a disconnected socket takes its queue pair to the *)
(* error state (ucma_shutdown).                                            *)
Out(e) ==
    IF e.st # Disconnected THEN [e EXCEPT !.pc = Idle]
    ELSE [e EXCEPT !.pc = Idle, !.up = FALSE, !.event = IF @ = "off" THEN "armed" ELSE @]

(* rshutdown after the wait for a control entry: post the message if there *)
(* is one, then wait for the sends that are out.                           *)
PostCtrl(e, ctrl) ==
    IF "connected" \notin e.st THEN Out(e)
    ELSE IF ~rs_ctrl_avail(e) THEN At(e, "loop", "done")
    ELSE At([e EXCEPT !.ctrl = @ - 1, !.sq = @ \o rs_post_msg("CTRL", ctrl), !.told = "told"],
            "loop", "done")

rshutdown(s, how) ==
    LET e == ep[s]
        left == e.st \ (CASE how = "RDWR" -> {"readable", "writable"}
                          [] how = "WR" -> {"writable"}
                          [] how = "RD" -> {"readable"})
        ctrl == IF "readable" \in left THEN "SHUTDOWN" ELSE "DISCONNECT"
        f == [e EXCEPT !.st = left, !.shut = @ \cup {how}]
    IN  /\ e.pc = Idle
        /\ <<s, how>> \in use.shut /\ how \notin e.shut
        /\ promised' = [promised EXCEPT ![s] = IF @ = NotYet /\ how # "RD" THEN sent[s] ELSE @]
        /\ Set(s, IF "connected" \notin e.st THEN Out([f EXCEPT !.st = e.st])
                  ELSE IF how = "RD" /\ "writable" \in left THEN Out(f)
                  ELSE IF rs_ctrl_avail(f) THEN PostCtrl(f, ctrl)
                  ELSE [f EXCEPT !.pc = [Idle EXCEPT !.at = "loop", !.call = "ctrl", !.ctrl = ctrl]])
        /\ UNCHANGED <<use, sent, got>>

-----------------------------------------------------------------------------
(* rs_process_cq, one turn of its loop per step.  Between the poll, the    *)
(* arming and the wait, the hardware may move.                             *)

Leave(e) ==
    LET f == rs_update_credits(e)
        spent == rs_ctrl_avail(e) /\ ~rs_ctrl_avail(f)
    IN  CASE e.pc.call = "ctrl" -> PostCtrl(IF spent THEN [f EXCEPT !.told = "spent"] ELSE f, e.pc.ctrl)
          [] e.pc.call = "done" -> Out(f)
          [] OTHER -> [f EXCEPT !.pc = Idle]

\* The thread goes to wait without giving the credits the poll made possible.
TurnKeepsCredits(s, e0) ==
    LET e == rs_poll_cq(rs_update_credits(e0))
        nonblock == s \notin use.block /\ e.pc.call \in {"send", "recv"}
    IN  IF Test(e.pc.call, e) \/ nonblock THEN Leave(e)
        ELSE IF ~e.cq_armed THEN [e EXCEPT !.pc.at = "arm"]
        ELSE [e EXCEPT !.pc.at = "wait"]

Turn(s, e0) ==
    LET e == rs_poll_cq(rs_update_credits(e0))
        nonblock == s \notin use.block /\ e.pc.call \in {"send", "recv"}
    IN  IF Test(e.pc.call, e) \/ nonblock THEN Leave(e)
        ELSE IF ~e.cq_armed THEN [e EXCEPT !.pc.at = "arm"]
        ELSE [rs_update_credits(e) EXCEPT !.pc.at = "wait"]

Poll(s) ==
    /\ ep[s].pc.at = "loop"
    /\ Set(s, Turn(s, ep[s]))
    /\ UNCHANGED <<use, sent, got, promised>>

(* rsend and rrecv that find nothing to do enter rs_process_cq; rpoll does  *)
(* so whatever it finds (rs_poll_check).                                    *)
Call(s, call) ==
    /\ ep[s].pc = Idle
    /\ \/ call = "send" /\ ~rs_can_send(ep[s]) /\ sent[s] < use.bytes[s]
       \/ call = "recv" /\ ep[s].rmsg = <<>> /\ got[s] < use.bytes[Peer(s)]
       \/ call = "poll" /\ s \in use.polls
    /\ Set(s, Turn(s, At(ep[s], "loop", call)))
    /\ UNCHANGED <<use, sent, got, promised>>

\* The queue is not polled again between the arming and the wait.
ArmThenWait(s) ==
    /\ ep[s].pc.at = "arm"
    /\ Set(s, [ep[s] EXCEPT !.cq_armed = TRUE, !.event = "armed", !.pc.at = "wait"])
    /\ UNCHANGED <<use, sent, got, promised>>

Arm(s) ==
    /\ ep[s].pc.at = "arm"
    /\ Set(s, [ep[s] EXCEPT !.cq_armed = TRUE, !.event = "armed", !.pc.at = "loop"])
    /\ UNCHANGED <<use, sent, got, promised>>

(* rs_get_cq_event returns.                                                *)
Wake(s) ==
    /\ ep[s].pc.at = "wait"
    /\ ep[s].event = "fired"
    /\ Set(s, [ep[s] EXCEPT !.cq_armed = FALSE, !.event = "off", !.pc.at = "loop"])
    /\ UNCHANGED <<use, sent, got, promised>>

-----------------------------------------------------------------------------
(* The queue pairs: a reliable connection executes the requests of one     *)
(* side in order.  A message waits until the peer has a receive posted     *)
(* (RNR retries are without end); iWARP has no such retries.               *)

Report(e, c) ==
    [e EXCEPT !.cq = Append(@, c), !.event = IF @ = "armed" THEN "fired" ELSE @]

Execute(s) ==
    LET e == ep[s]
        p == ep[Peer(s)]
        w == e.sq[e.ran + 1]
        q == IF ~w.write THEN p
             ELSE IF w.op = "SGL"
             THEN [p EXCEPT !.target_sgl[w.at] = [addr |-> w.first, length |-> w.len]]
             ELSE [p EXCEPT !.rbuf = [i \in DOMAIN @ |->
                       IF i \in w.at..(w.at + w.len - 1) THEN w.first + (i - w.at) ELSE @[i]]]
    IN  /\ e.up /\ p.up
        /\ e.ran < Len(e.sq)
        /\ w.imm => p.recvs > 0
        /\ ep' = [ep EXCEPT ![s].ran = @ + 1,
                            ![Peer(s)] = IF ~w.imm THEN q
                                ELSE Report([q EXCEPT !.recvs = @ - 1],
                                            [recv |-> TRUE, op |-> w.op, data |-> w.data, ok |-> TRUE])]
        /\ UNCHANGED <<use, sent, got, promised>>

(* iWARP: a message that finds no receive ends the connection.             *)
Overrun(s) ==
    /\ use.msg_send
    /\ ep[s].up /\ ep[Peer(s)].up
    /\ ep[s].ran < Len(ep[s].sq)
    /\ ep[s].sq[ep[s].ran + 1].imm /\ ep[Peer(s)].recvs = 0
    /\ ep' = [t \in Sides |-> [ep[t] EXCEPT !.up = FALSE]]
    /\ UNCHANGED <<use, sent, got, promised>>

Complete(s) ==
    LET w == Head(ep[s].sq)
    IN  /\ ep[s].up /\ ep[s].ran > 0
        /\ Set(s, Report([ep[s] EXCEPT !.sq = Tail(@), !.ran = @ - 1],
                         [recv |-> FALSE, op |-> w.op, data |-> w.back, ok |-> TRUE]))
        /\ UNCHANGED <<use, sent, got, promised>>

(* A queue pair in the error state returns what it holds with an error.    *)
Flush(s) ==
    LET w == Head(ep[s].sq)
    IN  /\ ~ep[s].up
        /\ \/ /\ ep[s].sq # <<>>
              /\ Set(s, Report([ep[s] EXCEPT !.sq = Tail(@), !.ran = IF @ > 0 THEN @ - 1 ELSE 0],
                               [recv |-> FALSE, op |-> w.op, data |-> w.back, ok |-> FALSE]))
           \/ /\ ep[s].recvs > 0
              /\ Set(s, Report([ep[s] EXCEPT !.recvs = 0],
                               [recv |-> TRUE, op |-> "none", data |-> 0, ok |-> FALSE]))
        /\ UNCHANGED <<use, sent, got, promised>>

(* Requests to a peer whose queue pair is gone are retried in vain.        *)
RetriesExceeded(s) ==
    /\ ep[s].up /\ ~ep[Peer(s)].up
    /\ ep[s].ran < Len(ep[s].sq)
    /\ Set(s, [ep[s] EXCEPT !.up = FALSE])
    /\ UNCHANGED <<use, sent, got, promised>>

LinkFails(s) ==
    /\ use.fails /\ ep[s].up
    /\ Set(s, [ep[s] EXCEPT !.up = FALSE])
    /\ UNCHANGED <<use, sent, got, promised>>

App(s) ==
    \/ rsend(s) \/ rrecv(s)
    \/ \E call \in {"send", "recv", "poll"} : Call(s, call)
    \/ \E how \in {"RD", "WR", "RDWR"} : rshutdown(s, how)
    \/ Poll(s) \/ Arm(s) \/ Wake(s)

Hardware(s) == Execute(s) \/ Overrun(s) \/ Complete(s) \/ Flush(s) \/ RetriesExceeded(s) \/ LinkFails(s)

Next == \E s \in Sides : App(s) \/ Hardware(s)

Spec == Init /\ [][Next]_vars

-----------------------------------------------------------------------------
(* Properties.                                                             *)

Total(q) == FoldLeft(+, 0, q)
Sends(e) == SelectSeq(e.cq, LAMBDA c : ~c.recv)
Recvs(e) == SelectSeq(e.cq, LAMBDA c : c.recv)

(* The types of the counters: no credit, entry or byte count goes below    *)
(* zero or above what it started with.                                     *)
TypeOK ==
    \A s \in Sides :
        /\ ep[s].ctrl \in 0..CTRL /\ ep[s].sqe_avail \in 0..SQE
        /\ ep[s].sbuf_bytes_avail \in 0..SBUF /\ ep[s].rbuf_bytes_avail \in 0..RBUF
        /\ ep[s].recvs \in 0..RQ /\ ep[s].ran \in 0..Len(ep[s].sq)
        /\ \A i \in 0..1 : ep[s].target_sgl[i].length \in 0..Half

(* The bytes announced in rmsg and not yet read are in the receive buffer, *)
(* from rbuf_offset on and in the order they were sent: no write of the    *)
(* peer has landed on them.                                                *)
UnreadIntact ==
    \A s \in Sides : \A i \in 0..(Total(ep[s].rmsg) - 1) :
        ep[s].rbuf[(ep[s].rbuf_offset + i) % RBUF] = got[s] + 1 + i

(* rmsg has rq_size + 1 slots, so it holds rq_size messages: the credits   *)
(* keep the peer from announcing more, though the 16-bit counts wrap.      *)
AnnouncementsFit == \A s \in Sides : Len(ep[s].rmsg) <= RQ

(* A window arrives in an entry of target_sgl the sender has used up, so   *)
(* the two never write one entry at the same time.                         *)
WindowsArriveInFreeEntries ==
    \A s \in Sides : \A i \in (ep[s].ran + 1)..Len(ep[s].sq) :
        LET w == ep[s].sq[i] IN
        w.write /\ w.op = "SGL" => ep[Peer(s)].target_sgl[w.at].length = 0

(* The receives posted last for all the data that the credits allow.      *)
(* Control messages spend no credit: those the peer has not polled yet may *)
(* leave data without a receive, which only InfiniBand's RNR retries cure. *)
ReceivesLastForData ==
    \A s \in Sides :
        LET e == ep[s]
            p == ep[Peer(s)]
        IN  e.up /\ p.up /\ e.ran < Len(e.sq) /\ e.sq[e.ran + 1].op = "DATA" /\ p.recvs = 0
            => \E i \in DOMAIN p.cq : p.cq[i].recv /\ p.cq[i].op # "DATA"

(* Neither side overruns the other: the bytes, announcements and windows   *)
(* that rs_post_write_msg sends find room at the peer, and data finds a    *)
(* receive unless control messages have taken those of its credit.         *)
NoOverrun ==
    UnreadIntact /\ AnnouncementsFit /\ WindowsArriveInFreeEntries /\ ReceivesLastForData

(* Every entry of the send queue is counted once: free, posted, or         *)
(* completed and not yet polled.  So a post never finds the send queue     *)
(* full, and rshutdown's wait for all sends can end.                       *)
EntriesCounted ==
    \A s \in Sides :
        LET e == ep[s] IN
        e.ctrl + e.sqe_avail + Len(e.sq) + Len(Sends(e)) = SQE + CTRL

(* The counters of rs_post_msg and rs_poll_cq keep their types and add up. *)
CountersExact == TypeOK /\ EntriesCounted

(* A thread waits for a completion event only when the queue is empty or   *)
(* the event is on its way.                                                *)
NoLostWakeup ==
    \A s \in Sides : ep[s].pc.at = "wait" /\ ep[s].cq # <<>> => ep[s].event = "fired"

(* rshutdown for writing that has returned on a connection that still      *)
(* holds has waited for its sends: every byte sent before has reached the  *)
(* peer, which has read it, has it in rmsg or finds it in its CQ.  (rsend  *)
(* does not look at the state while it has room, so more may follow.)      *)
Announced(e) ==
    LET a == SelectSeq(e.cq, LAMBDA c : c.recv /\ c.op = "DATA")
    IN  [i \in DOMAIN a |-> a[i].data]
ShutdownDelivers ==
    \A s \in Sides :
        LET p == ep[Peer(s)] IN
        /\ promised[s] # NotYet /\ ep[s].pc = Idle /\ "connected" \in ep[s].st
        => got[Peer(s)] + Total(p.rmsg) + Total(Announced(p)) >= promised[s]

(* rshutdown that has returned on a connection that is still up has told   *)
(* the peer, unless the rs_update_credits that ends its wait for a control *)
(* entry spent the entry the wait had found.                               *)
ShutdownToldOrSpent ==
    \A s \in Sides :
        /\ ep[s].shut \cap {"WR", "RDWR"} # {}
        /\ ep[s].pc = Idle /\ "connected" \in ep[s].st
        => ep[s].told # "no"

(* The two sides never wait for each other: as long as nobody shuts down   *)
(* and the connection holds, some thread or some queue pair can move until *)
(* every byte has been received.  A side out of credits, windows or queue  *)
(* entries is always owed them by someone who can send them.  What the     *)
(* sockets cannot prevent is two applications that block on each other:    *)
(* both in rsend with bytes they do not read, or both in rrecv with all    *)
(* that was sent read.                                                     *)
CanMove(s) ==
    LET e == ep[s]
        Acts(call) == Turn(s, At(e, "loop", call)) # e
    IN  \/ e.pc.at \in {"loop", "arm"}
        \/ e.pc.at = "wait" /\ e.event = "fired"
        \/ e.ran > 0
        \/ e.ran < Len(e.sq) /\ (e.sq[e.ran + 1].imm => ep[Peer(s)].recvs > 0)
        \/ e.pc = Idle /\ e.rmsg # <<>>
        \/ e.pc = Idle /\ sent[s] < use.bytes[s] /\ (rs_can_send(e) \/ Acts("send"))
        \/ e.pc = Idle /\ got[s] < use.bytes[Peer(s)] /\ Acts("recv")

NoStandstill ==
    use.shut = {} /\ (\A s \in Sides : ep[s].up) =>
        \/ \A s \in Sides : got[s] = use.bytes[Peer(s)]
        \/ \E s \in Sides : CanMove(s)
        \/ \A s \in Sides : ep[s].pc.call = "send" /\ ep[s].rmsg # <<>>
        \/ \A s \in Sides : ep[s].pc.call = "recv" /\ got[s] = sent[Peer(s)]

=============================================================================
