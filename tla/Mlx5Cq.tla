------------------------------- MODULE Mlx5Cq -------------------------------
(* The completion path of the mlx5 provider (providers/mlx5: cq.c, srq.c,   *)
(* qp.c, verbs.c).  Completion queues are rings of entries (CQEs) whose     *)
(* owner bit tells software from hardware; polling a CQE gives its work     *)
(* queue entry (WQE) back to a send queue, a receive queue or the linked    *)
(* list of a shared receive queue (SRQ).  Resetting a QP sweeps its CQEs    *)
(* out of the ring, and resizing a CQ moves the ring to another buffer,     *)
(* while the hardware keeps writing and other threads keep posting.         *)
EXTENDS Integers, Sequences, FiniteSets, SequencesExt, FiniteSetsExt

CONSTANTS
  CQs, QPs,
  Uses,          \* the ways the queues are set up; see Init
  CqSizes,       \* the sizes, powers of two, a CQ is created with or resized to
  WORD,          \* index width: a multiple of twice every ring size
  SqCnt, SqMax,  \* send queue: basic blocks, and the blocks of the largest WQE
  RqCnt,         \* receive queue: entries
  MaxSrqWr,      \* the device's limit on the entries of an SRQ
  Ids            \* wr_ids of one queue; the bound on an application's requests

ASSUME ConstantsOK ==
  /\ {SqCnt, SqMax, RqCnt} \subseteq Nat \ {0} /\ SqMax <= SqCnt /\ IsFiniteSet(Ids) /\ Ids \subseteq Nat
  /\ \A n \in CqSizes \cup {SqCnt, RqCnt} : WORD % (2 * n) = 0

VARIABLES
  use,     \* the way the queues are set up
  cq,      \* struct mlx5_cq of each CQ, with the hardware's producer index
  pc,      \* what the holder of cq->lock is doing, "idle" if it is free
  job,     \* locals of the holder of cq->lock
  due,     \* CQEs the hardware wrote that were neither polled nor swept away
  srq,     \* struct mlx5_srq with its buffer
  hw,      \* the hardware's place in the SRQ's list and WQEs left there
  sq, rq,  \* struct mlx5_wq of each QP
  wire,    \* sends the hardware still works on, per QP
  quiet,   \* unsignaled sends finished since the last CQE, per QP
  qp,      \* QP state: "ready", "reset" (kernel) then the CQs to sweep
  owed,    \* requests the application posted and has not been told about
  left,    \* bound: completions, resets and resizes still to come
  recent,  \* history: the last page-faulted SRQ WQEs, as many as wait
  astray   \* history: CQEs whose inline data a poll copied into a foreign buffer

vars == <<use, cq, pc, job, due, srq, hw, sq, rq, wire, quiet, qp, owed, left, recent, astray>>
-----------------------------------------------------------------------------
(* Rings                                                                   *)
Up(i, k) == (i + k) % WORD
Dist(from, to) == (to - from) % WORD

sw_ownership_bit(i, n) == (i \div n) % 2

NoCqe == [op |-> "invalid", own |-> 0, qp |-> "none", idx |-> 0, id |-> 0, inl |-> FALSE, covers |-> {}]

\* mlx5_alloc_cq_buf: every entry starts invalid.
NewBuf(n) == [i \in 0..(n - 1) |-> NoCqe]

SwOwned(e, i, n) == e.own = sw_ownership_bit(i, n)
get_sw_cqe(q, i) == LET e == q.buf[i % q.n] IN e.op # "invalid" /\ SwOwned(e, i, q.n)

\* The CQEs that polling from cons_index on would return, oldest first.
Visible(q) ==
  LET stop == Min({k \in 0..q.n : k = q.n \/ ~get_sw_cqe(q, Up(q.cons, k))})
  IN  [k \in 1..stop |-> q.buf[Up(q.cons, k - 1) % q.n]]

Strip(e) == [e EXCEPT !.own = 0]
StripAll(s) == [k \in DOMAIN s |-> Strip(s[k])]

QpCqs(q) == {use.rcq[q], use.scq[q]}
-----------------------------------------------------------------------------
(* Shared receive queue                                                    *)
Align(k) == Min({2^j : j \in 0..8} \cap {i \in 0..256 : i >= k})

\* mlx5_alloc_srq_buf: extra WQEs for the wait queue if the device allows.
WithWaitq(wr) == wr * 2 + 1 <= MaxSrqWr
SrqTail(wr) == Align(wr + 1) - 1
SrqMax(wr) == Align(IF WithWaitq(wr) THEN wr * 2 + 1 ELSE wr + 1)
NewSrq(wr) ==
  LET max == SrqMax(wr) t == SrqTail(wr)
  IN  [next |-> [i \in 0..(max - 1) |-> IF i \in {t, max - 1} THEN 0 ELSE i + 1],
       wrid |-> [i \in 0..(max - 1) |-> 0], scat |-> [i \in 0..(max - 1) |-> 0],
       head |-> 0, tail |-> t,
       waitq_head |-> IF WithWaitq(wr) THEN t + 1 ELSE -1,
       waitq_tail |-> IF WithWaitq(wr) THEN max - 1 ELSE -1]

FreeAtHead(s, i) == [s EXCEPT !.next[i] = s.head, !.head = i]
mlx5_free_srq_wqe(s, i) == [s EXCEPT !.next[s.tail] = i, !.tail = i]

srq_put_in_waitq(s, i) == [s EXCEPT !.next[s.waitq_tail] = i, !.waitq_tail = i]
srq_get_from_waitq(s) ==
  [s EXCEPT !.next[s.tail] = s.waitq_head, !.tail = s.waitq_head, !.waitq_head = s.next[s.waitq_head]]

NeverWaits(s, i) == mlx5_free_srq_wqe(s, i)
srq_cooldown_wqe(s, i) ==
  IF s.waitq_head >= 0 THEN srq_get_from_waitq(srq_put_in_waitq(s, i)) ELSE mlx5_free_srq_wqe(s, i)

\* A WQE written at the head of the list and handed to the hardware.
PostAtHead(s, wrid, buf) ==
  [s EXCEPT !.wrid[s.head] = wrid, !.scat[s.head] = buf, !.head = s.next[s.head]]

srq_repost(s, i) == PostAtHead(s, s.wrid[i], s.scat[i])

FaultNotReposted(s, i) == srq_cooldown_wqe(s, i)
mlx5_complete_odp_fault(s, i) == srq_repost(srq_cooldown_wqe(s, i), i)

\* WQEs from i on, following next_wqe_index.
Walk(s, i) == LET w[k \in 0..Cardinality(DOMAIN s.next)] == IF k = 0 THEN i ELSE s.next[w[k - 1]] IN w
Chain(s, i, j) ==
  LET w == Walk(s, i) IN [k \in 1..(1 + Min({k \in DOMAIN w : w[k] = j} \cup {Cardinality(DOMAIN s.next)})) |-> w[k - 1]]
FreeList == Chain(srq, srq.head, srq.tail)
WaitList == IF srq.waitq_head >= 0 THEN Chain(srq, srq.waitq_head, srq.waitq_tail) ELSE <<>>
Posted == LET w == Walk(srq, hw.head) IN [k \in 1..hw.left |-> w[k - 1]]
-----------------------------------------------------------------------------
(* The application posts                                                   *)
SqOf(q) == <<"sq", q>>
RqOf(q) == <<"rq", q>>
TheSrq == <<"srq", "srq">>
RecvQueue(q) == IF use.srq[q] THEN TheSrq ELSE RqOf(q)
Queues == {SqOf(q) : q \in QPs} \cup {RqOf(q) : q \in QPs} \cup {TheSrq}

\* The max_send_wr, max_recv_wr and max_wr the application is told.
Capacity(w) == CASE w[1] = "sq" -> SqCnt \div SqMax [] w[1] = "rq" -> RqCnt [] w[1] = "srq" -> SrqTail(use.wr)

\* A polite application counts: it never has more requests out than it was
\* told it may.  Any other relies on ENOMEM.
MayPost(w, k) ==
  /\ Cardinality(owed[w]) + k <= Cardinality(Ids)
  /\ use.polite => Cardinality(owed[w]) + k <= Capacity(w)
Fresh(out) == Min(Ids \ out)

NewSq == [head |-> 0, tail |-> 0, cur_post |-> 0, wrid |-> [i \in 0..(SqCnt - 1) |-> 0],
          wqe_head |-> [i \in 0..(SqCnt - 1) |-> 0], bb |-> [i \in 0..(SqCnt - 1) |-> 0]]
NewRq == [head |-> 0, tail |-> 0, taken |-> 0, wrid |-> [i \in 0..(RqCnt - 1) |-> 0], scat |-> [i \in 0..(RqCnt - 1) |-> 0]]

OverflowLate(head, tail, nreq, max_post) == Dist(tail, head) + nreq > max_post
mlx5_wq_overflow(head, tail, nreq, max_post) == Dist(tail, head) + nreq >= max_post

\* One work request of blks basic blocks in the list given to mlx5_post_send.
HeadOfWqe(s, nreq) == Up(s.head, nreq)
SendOne(acc, wr) ==
  LET s == acc.sq
      idx == s.cur_post % SqCnt
      id == Fresh(acc.out)
  IN  IF acc.err \/ mlx5_wq_overflow(s.head, s.tail, acc.nreq, SqCnt \div SqMax)
      THEN [acc EXCEPT !.err = TRUE]
      ELSE [acc EXCEPT !.nreq = @ + 1, !.out = @ \cup {id},
              !.sent = Append(@, [idx |-> idx, blks |-> wr.blks, id |-> id, sig |-> wr.sig]),
              !.sq = [s EXCEPT !.wrid[idx] = id, !.wqe_head[idx] = HeadOfWqe(s, acc.nreq),
                               !.cur_post = Up(@, wr.blks),
                               !.bb = [b \in DOMAIN @ |-> IF (b - idx) % SqCnt < wr.blks THEN id ELSE @[b]]]]

mlx5_post_send(q, wrs) ==
  /\ q \in use.sends /\ qp[q].st = "ready" /\ MayPost(SqOf(q), Len(wrs))
  /\ LET a == FoldLeft(SendOne, [sq |-> sq[q], nreq |-> 0, out |-> owed[SqOf(q)], sent |-> <<>>, err |-> FALSE], wrs)
     IN  /\ sq' = [sq EXCEPT ![q] = [a.sq EXCEPT !.head = Up(@, a.nreq)]]
         /\ wire' = [wire EXCEPT ![q] = @ \o a.sent]
         /\ owed' = [owed EXCEPT ![SqOf(q)] = a.out]
  /\ UNCHANGED <<use, cq, pc, job, due, srq, hw, rq, quiet, qp, left, recent, astray>>

mlx5_post_recv(q) ==
  LET r == rq[q]
      ind == r.head % RqCnt
      id == Fresh(owed[RqOf(q)])
  IN  /\ q \in use.recvs /\ ~use.srq[q] /\ qp[q].st = "ready" /\ MayPost(RqOf(q), 1)
      /\ ~mlx5_wq_overflow(r.head, r.tail, 0, RqCnt)
      /\ rq' = [rq EXCEPT ![q] = [r EXCEPT !.head = Up(@, 1), !.wrid[ind] = id, !.scat[ind] = id]]
      /\ owed' = [owed EXCEPT ![RqOf(q)] = @ \cup {id}]
      /\ UNCHANGED <<use, cq, pc, job, due, srq, hw, sq, wire, quiet, qp, left, recent, astray>>

SrqFull(s) == s.head = s.tail
mlx5_post_srq_recv ==
  LET id == Fresh(owed[TheSrq])
  IN  /\ \E q \in use.recvs : use.srq[q]
      /\ MayPost(TheSrq, 1) /\ ~SrqFull(srq)
      /\ srq' = PostAtHead(srq, id, id)
      /\ hw' = [hw EXCEPT !.left = @ + 1]
      /\ owed' = [owed EXCEPT ![TheSrq] = @ \cup {id}]
      /\ UNCHANGED <<use, cq, pc, job, due, sq, rq, wire, quiet, qp, left, recent, astray>>
-----------------------------------------------------------------------------
(* The hardware                                                            *)
\* The ring the hardware writes into: the new one once a resize was ordered.
HwSize(c) == IF cq[c].nn = 0 THEN cq[c].n ELSE cq[c].nn

\* Applications do not let more completions pile up than the cqe they were
\* told, one less than the entries; the hardware stops at its consumer index.
Room(c) == Len(due[c]) < HwSize(c) - 1 /\ Dist(cq[c].ci, cq[c].prod) < HwSize(c)

Put(c, e) ==
  LET k == cq[c]
      full == [e EXCEPT !.own = sw_ownership_bit(k.prod, HwSize(c))]
  IN  [k EXCEPT !.prod = Up(@, 1),
         !.buf = IF k.nn = 0 THEN [@ EXCEPT ![k.prod % k.n] = full] ELSE @,
         !.nbuf = IF k.nn = 0 THEN @ ELSE [@ EXCEPT ![k.prod % k.nn] = full]]

Complete(c, e) ==
  /\ Room(c) /\ left.cqes > 0
  /\ left' = [left EXCEPT !.cqes = @ - 1]
  /\ cq' = [cq EXCEPT ![c] = Put(c, e)]
  /\ due' = [due EXCEPT ![c] = Append(@, e)]

HwSend(q) ==
  /\ wire[q] # <<>>
  /\ wire' = [wire EXCEPT ![q] = Tail(@)]
  /\ LET w == Head(wire[q])
     IN  \/ /\ w.sig
            /\ \E inl \in {FALSE, use.inline} :
                 Complete(use.scq[q], [NoCqe EXCEPT !.op = "req", !.qp = q, !.idx = w.idx, !.id = w.id,
                                                    !.inl = inl, !.covers = quiet[q] \cup {w.id}])
            /\ quiet' = [quiet EXCEPT ![q] = {}]
         \/ /\ ~w.sig
            /\ quiet' = [quiet EXCEPT ![q] = @ \cup {w.id}]
            /\ UNCHANGED <<cq, due, left>>
  /\ UNCHANGED <<use, pc, job, srq, hw, sq, rq, qp, owed, recent, astray>>

\* A message, or an error, uses up the oldest receive WQE and its buffer.
HwRecv(q, inl) ==
  /\ q \in use.recvs /\ qp[q].st = "ready" /\ (inl => use.inline)
  /\ LET i == IF use.srq[q] THEN hw.head ELSE rq[q].taken % RqCnt
     IN  Complete(use.rcq[q], [NoCqe EXCEPT !.op = "resp", !.qp = q, !.idx = i, !.inl = inl,
                                 !.id = IF use.srq[q] THEN srq.scat[i] ELSE rq[q].scat[i]])
  /\ IF use.srq[q]
     THEN hw.left > 0 /\ hw' = [head |-> srq.next[hw.head], left |-> hw.left - 1] /\ UNCHANGED rq
     ELSE rq[q].taken # rq[q].head /\ rq' = [rq EXCEPT ![q].taken = Up(@, 1)] /\ UNCHANGED hw
  /\ UNCHANGED <<use, pc, job, srq, sq, wire, quiet, qp, owed, recent, astray>>

\* An on-demand-paging fault on an SRQ WQE is reported with an error CQE.
HwFault(q) ==
  /\ use.faults /\ q \in use.recvs /\ use.srq[q] /\ qp[q].st = "ready" /\ hw.left > 0
  /\ Complete(use.rcq[q], [NoCqe EXCEPT !.op = "fault", !.qp = q, !.idx = hw.head, !.id = srq.scat[hw.head]])
  /\ hw' = [head |-> srq.next[hw.head], left |-> hw.left - 1]
  /\ UNCHANGED <<use, pc, job, srq, sq, rq, wire, quiet, qp, owed, recent, astray>>
-----------------------------------------------------------------------------
(* Polling: poll_cq holds cq->lock from the first CQE to the doorbell.     *)
NoJob == [told |-> {}, cqe |-> NoCqe, qp |-> "none", cnt |-> 0]

PollStart(c) ==
  /\ pc[c] = "idle" /\ \E q \in QPs : c \in QpCqs(q)
  /\ pc' = [pc EXCEPT ![c] = "poll"]
  /\ UNCHANGED <<use, cq, job, due, srq, hw, sq, rq, wire, quiet, qp, owed, left, recent, astray>>

\* mlx5_get_next_cqe has found a CQE; the actions below are mlx5_parse_cqe.
\* It would report the mark of a resize too: CompletionsExact says none shows.
Next1(c) == /\ pc[c] \in {"poll", "again"} /\ get_sw_cqe(cq[c], cq[c].cons)
            /\ cq' = [cq EXCEPT ![c].cons = Up(@, 1)]
            /\ due' = [due EXCEPT ![c] = IF @ = <<>> THEN @ ELSE Tail(@)]
TheCqe(c) == cq[c].buf[cq[c].cons % cq[c].n]
Tell(c, w, ids) == [job EXCEPT ![c].told = @ \cup ({w} \X ids)]

\* Inline data of a receive is copied after the WQE was given back, that of
\* a read or an atomic before.
CopyLast(e) == e.inl
CopyAfterRelease(e) == e.inl /\ e.op = "resp"

ReleaseTo(s, idx) == Up(s.wqe_head[idx], 1)
PollReq(c) ==
  LET e == TheCqe(c)
      s == sq[e.qp]
  IN  /\ Next1(c) /\ e.op = "req"
      /\ sq' = [sq EXCEPT ![e.qp].tail = ReleaseTo(s, e.idx)]
      /\ job' = [Tell(c, SqOf(e.qp), (e.covers \ {e.id}) \cup {s.wrid[e.idx]}) EXCEPT ![c].cqe = Strip(e)]
      /\ pc' = [pc EXCEPT ![c] = IF CopyAfterRelease(e) THEN "copy" ELSE "poll"]
      /\ astray' = IF e.inl /\ s.bb[e.idx] # e.id THEN astray \cup {"req"} ELSE astray
      /\ UNCHANGED <<use, srq, hw, rq, wire, quiet, qp, owed, left, recent>>

RqSlot(r) == r.tail % RqCnt
handle_responder(c) ==
  LET e == TheCqe(c)
      w == RecvQueue(e.qp)
      i == IF w = TheSrq THEN e.idx ELSE RqSlot(rq[e.qp])
  IN  /\ Next1(c) /\ e.op = "resp"
      /\ job' = [Tell(c, w, {IF w = TheSrq THEN srq.wrid[i] ELSE rq[e.qp].wrid[i]})
                   EXCEPT ![c].cqe = [Strip(e) EXCEPT !.idx = i]]
      /\ IF w = TheSrq
         THEN srq' = mlx5_free_srq_wqe(srq, i) /\ UNCHANGED rq
         ELSE rq' = [rq EXCEPT ![e.qp].tail = Up(@, 1)] /\ UNCHANGED srq
      /\ pc' = [pc EXCEPT ![c] = IF CopyAfterRelease(e) THEN "copy" ELSE "poll"]
      /\ UNCHANGED <<use, hw, sq, wire, quiet, qp, owed, left, recent, astray>>

PollCopy(c) ==
  LET e == job[c].cqe
      buf == CASE e.op = "req" -> sq[e.qp].bb[e.idx]
               [] e.op = "resp" /\ use.srq[e.qp] -> srq.scat[e.idx]
               [] OTHER -> rq[e.qp].scat[e.idx]
  IN  /\ pc[c] = "copy"
      /\ astray' = IF buf # e.id THEN astray \cup {e.op} ELSE astray
      /\ pc' = [pc EXCEPT ![c] = "poll"]
      /\ job' = [job EXCEPT ![c].cqe = NoCqe]
      /\ UNCHANGED <<use, cq, due, srq, hw, sq, rq, wire, quiet, qp, owed, left, recent>>

\* The fault CQE is not shown to the caller, who gets the one after it.
PollFault(c) ==
  LET e == TheCqe(c)
  IN  /\ Next1(c) /\ e.op = "fault"
      /\ srq' = mlx5_complete_odp_fault(srq, e.idx)
      /\ hw' = [hw EXCEPT !.left = @ + 1]
      /\ recent' = IF srq.waitq_head >= 0
                   THEN Append(IF Len(recent) = Len(WaitList) THEN Tail(recent) ELSE recent, e.idx) ELSE recent
      /\ pc' = [pc EXCEPT ![c] = "again"]
      /\ UNCHANGED <<use, job, sq, rq, wire, quiet, qp, owed, left, astray>>

\* The entries asked for are filled, or the CQ is empty: update_cons_index.
PollEnd(c) ==
  /\ pc[c] = "poll" \/ (pc[c] = "again" /\ ~get_sw_cqe(cq[c], cq[c].cons))
  /\ cq' = [cq EXCEPT ![c].ci = cq[c].cons]
  /\ owed' = [w \in Queues |-> {id \in owed[w] : <<w, id>> \notin job[c].told}]
  /\ job' = [job EXCEPT ![c] = NoJob]
  /\ pc' = [pc EXCEPT ![c] = "idle"]
  /\ UNCHANGED <<use, due, srq, hw, sq, rq, wire, quiet, qp, left, recent, astray>>
-----------------------------------------------------------------------------
(* mlx5_modify_qp to RESET                                                 *)
\* The kernel has moved the QP: the hardware drops what it had of it.
ResetKernel(q) ==
  /\ q \in use.resets /\ qp[q].st = "ready" /\ left.resets > 0
  /\ qp' = [qp EXCEPT ![q] = [st |-> "reset",
              todo |-> <<use.rcq[q]>> \o (IF use.scq[q] = use.rcq[q] THEN <<>> ELSE <<use.scq[q]>>)]]
  /\ left' = [left EXCEPT !.resets = @ - 1]
  /\ wire' = [wire EXCEPT ![q] = <<>>]
  /\ quiet' = [quiet EXCEPT ![q] = {}]
  /\ UNCHANGED <<use, cq, pc, job, due, srq, hw, sq, rq, owed, recent, astray>>

\* __mlx5_cq_clean, first loop: how far the ring is filled.
Scan(k) == Min({j \in 0..(k.n - 1) : j = k.n - 1 \/ ~get_sw_cqe(k, Up(k.cons, j))})

CleanScan(q, c) ==
  /\ qp[q].st = "reset" /\ qp[q].todo # <<>> /\ Head(qp[q].todo) = c /\ pc[c] = "idle"
  /\ pc' = [pc EXCEPT ![c] = "clean"]
  /\ job' = [job EXCEPT ![c] = [NoJob EXCEPT !.qp = q, !.cnt = Scan(cq[c])]]
  /\ UNCHANGED <<use, cq, due, srq, hw, sq, rq, wire, quiet, qp, owed, left, recent, astray>>

\* Second loop, one step: the CQE at distance j from cons_index is dropped
\* or moved up over the ones dropped; the owner bit stays with the place.
free_res_cqe(s, e, free) == IF free /\ e.op \in {"resp", "fault"} THEN mlx5_free_srq_wqe(s, e.idx) ELSE s
MoveWhole(dest, e) == e
MoveKeepsOwner(dest, e) == [e EXCEPT !.own = dest.own]
SweepOne(acc, j) ==
  LET k == acc.k
      e == k.buf[Up(k.cons, j) % k.n]
      d == Up(k.cons, j + acc.nfreed) % k.n
  IN  IF e.qp = acc.qp
      THEN [acc EXCEPT !.nfreed = @ + 1, !.srq = free_res_cqe(@, e, acc.free)]
      ELSE IF acc.nfreed > 0 THEN [acc EXCEPT !.k.buf[d] = MoveKeepsOwner(@, e)] ELSE acc

CleanSweep(c) ==
  LET q == job[c].qp
      a == FoldLeft(SweepOne, [k |-> cq[c], nfreed |-> 0, srq |-> srq, qp |-> q, free |-> use.srq[q] /\ c = use.rcq[q]],
                    [j \in 1..job[c].cnt |-> job[c].cnt - j])
      mine == {e \in ToSet(due[c]) : e.qp = q}
  IN  /\ pc[c] = "clean"
      /\ cq' = [cq EXCEPT ![c] = IF a.nfreed = 0 THEN @
                  ELSE [a.k EXCEPT !.cons = Up(@, a.nfreed), !.ci = Up(cq[c].cons, a.nfreed)]]
      /\ srq' = a.srq
      /\ due' = [due EXCEPT ![c] = SelectSeq(@, LAMBDA e : e.qp # q)]
      /\ owed' = IF use.srq[q] THEN [owed EXCEPT ![TheSrq] = @ \ {e.id : e \in {x \in mine : x.op # "req"}}] ELSE owed
      /\ qp' = [qp EXCEPT ![q].todo = Tail(@)]
      /\ pc' = [pc EXCEPT ![c] = "idle"]
      /\ job' = [job EXCEPT ![c] = NoJob]
      /\ UNCHANGED <<use, hw, sq, rq, wire, quiet, left, recent, astray>>

\* mlx5_init_qp_indices; the application knows its requests are gone.
mlx5_init_qp_indices(q) ==
  /\ qp[q].st = "reset" /\ qp[q].todo = <<>>
  /\ qp' = [qp EXCEPT ![q].st = "ready"]
  /\ sq' = [sq EXCEPT ![q] = [@ EXCEPT !.head = 0, !.tail = 0, !.cur_post = 0]]
  /\ rq' = [rq EXCEPT ![q] = [@ EXCEPT !.head = 0, !.tail = 0, !.taken = 0]]
  /\ owed' = [owed EXCEPT ![SqOf(q)] = {}, ![RqOf(q)] = {}]
  /\ UNCHANGED <<use, cq, pc, job, due, srq, hw, wire, quiet, left, recent, astray>>
-----------------------------------------------------------------------------
(* mlx5_resize_cq                                                          *)
\* The kernel refuses a ring too small for the completions that wait; else
\* the hardware ends the old ring with a mark and goes on in the new one.
ResizeKernel(c, n) ==
  LET k == cq[c]
      mark == [NoCqe EXCEPT !.op = "resize", !.own = sw_ownership_bit(k.prod, k.n)]
  IN  /\ pc[c] = "idle" /\ n # k.n /\ left.resizes > 0
      /\ Dist(k.ci, k.prod) < Min({n, k.n})
      /\ left' = [left EXCEPT !.resizes = @ - 1]
      /\ pc' = [pc EXCEPT ![c] = "resize"]
      /\ cq' = [cq EXCEPT ![c] = [k EXCEPT !.buf[k.prod % k.n] = mark, !.prod = Up(@, 1), !.nn = n, !.nbuf = NewBuf(n)]]
      /\ UNCHANGED <<use, job, due, srq, hw, sq, rq, wire, quiet, qp, owed, recent, astray>>

\* mlx5_cq_resize_copy_cqes: the waiting CQEs move one place up, past the
\* mark; the copy gives up at an entry of the hardware or after one round.
CopyPlace(i) == Up(i, 1)
mlx5_cq_resize_copy_cqes(k) ==
  LET at(j) == k.buf[Up(k.cons, j) % k.n]
      sw(j) == SwOwned(at(j), Up(k.cons, j), k.n)
      stop == Min({j \in 0..k.n : j = k.n \/ ~sw(j) \/ at(j).op = "resize"})
      moved == [i \in {CopyPlace(Up(k.cons, j)) : j \in 0..(stop - 1)} |->
                  [at(Min({j \in 0..(stop - 1) : CopyPlace(Up(k.cons, j)) = i})) EXCEPT !.own = sw_ownership_bit(i, k.nn)]]
      over(b) == {i \in DOMAIN moved : i % k.nn = b}
  IN  [k EXCEPT !.buf = [b \in 0..(k.nn - 1) |-> IF over(b) = {} THEN k.nbuf[b] ELSE moved[CHOOSE i \in over(b) : TRUE]],
                !.n = k.nn, !.nn = 0, !.nbuf = NewBuf(1),
                !.cons = IF stop < k.n /\ sw(stop) THEN Up(@, 1) ELSE @]

ResizeCopy(c) ==
  /\ pc[c] = "resize"
  /\ cq' = [cq EXCEPT ![c] = mlx5_cq_resize_copy_cqes(@)]
  /\ pc' = [pc EXCEPT ![c] = "idle"]
  /\ UNCHANGED <<use, job, due, srq, hw, sq, rq, wire, quiet, qp, owed, left, recent, astray>>
-----------------------------------------------------------------------------
NewCq(n) == [buf |-> NewBuf(n), n |-> n, cons |-> 0, ci |-> 0, prod |-> 0, nn |-> 0, nbuf |-> NewBuf(1)]

Init ==
  /\ use \in Uses
  /\ cq = [c \in CQs |-> NewCq(use.size)]
  /\ pc = [c \in CQs |-> "idle"]
  /\ job = [c \in CQs |-> NoJob]
  /\ due = [c \in CQs |-> <<>>]
  /\ srq = NewSrq(use.wr)
  /\ hw = [head |-> 0, left |-> 0]
  /\ sq = [q \in QPs |-> NewSq] /\ rq = [q \in QPs |-> NewRq]
  /\ wire = [q \in QPs |-> <<>>] /\ quiet = [q \in QPs |-> {}]
  /\ qp = [q \in QPs |-> [st |-> "ready", todo |-> <<>>]]
  /\ owed = [w \in Queues |-> {}]
  /\ left = use.left
  /\ recent = <<>> /\ astray = {}

Next ==
  \/ mlx5_post_srq_recv
  \/ \E q \in QPs :
       \/ mlx5_post_recv(q) \/ HwSend(q) \/ HwFault(q)
       \/ ResetKernel(q) \/ mlx5_init_qp_indices(q)
       \/ \E wrs \in use.lists : mlx5_post_send(q, wrs)
       \/ \E inl \in BOOLEAN : HwRecv(q, inl)
       \/ \E c \in CQs : CleanScan(q, c)
  \/ \E c \in CQs :
       \/ PollStart(c) \/ PollReq(c) \/ handle_responder(c) \/ PollCopy(c)
       \/ PollFault(c) \/ PollEnd(c) \/ CleanSweep(c) \/ ResizeCopy(c)
       \/ \E n \in CqSizes : ResizeKernel(c, n)

Spec == Init /\ [][Next]_vars
-----------------------------------------------------------------------------
(* Properties                                                              *)

\* Every variable keeps to its type; indices stay in their width and every
\* WQE index is one of its queue (the fields of struct mlx5_cq, mlx5_srq and
\* mlx5_wq).
TypeOK ==
  /\ \A c \in CQs :
       /\ {cq[c].cons, cq[c].ci, cq[c].prod} \subseteq 0..(WORD - 1) /\ cq[c].n \in CqSizes
       /\ pc[c] \in {"idle", "poll", "again", "copy", "clean", "resize"}
  /\ {srq.head, srq.tail, hw.head} \subseteq DOMAIN srq.next /\ hw.left \in 0..Cardinality(DOMAIN srq.next)
  /\ srq.waitq_head \in DOMAIN srq.next \cup {-1}
  /\ \A q \in QPs : {sq[q].head, sq[q].tail, sq[q].cur_post, rq[q].head, rq[q].tail, rq[q].taken} \subseteq 0..(WORD - 1)
  /\ owed \in [Queues -> SUBSET Ids] /\ astray \subseteq {"req", "resp"}

\* What polling would return is exactly what the hardware completed and
\* nobody polled or swept away yet, in the order it was written: the owner
\* bits tell them from old entries after any number of rounds, sweeps and
\* resizes, and the mark of a resize is never among them (get_sw_cqe,
\* __mlx5_cq_clean, mlx5_cq_resize_copy_cqes).
CompletionsExact ==
  \A c \in CQs : pc[c] # "resize" => StripAll(Visible(cq[c])) = due[c]

\* Every WQE of the SRQ is in exactly one place: the free list, the wait
\* queue, the list the hardware follows, or a CQE nobody handled yet; and the
\* hardware's list runs into the free list, so that the next WQE posted is
\* the next it finds (the next_wqe_index links of srq.c).
WqesConserved ==
  LET waiting == FoldLeft(LAMBDA a, c : a \o SelectSeq(due[c], LAMBDA e : e.op = "fault" \/ (e.op = "resp" /\ use.srq[e.qp])),
                          <<>>, SetToSeq(CQs))
      all == FreeList \o WaitList \o Posted \o [k \in DOMAIN waiting |-> waiting[k].idx]
  IN  /\ Len(all) = Cardinality(DOMAIN srq.next) /\ ToSet(all) = DOMAIN srq.next
      /\ Walk(srq, hw.head)[hw.left] = srq.head

\* The links of the SRQ stay whole and every index stays in its range.
ListsWhole == TypeOK /\ WqesConserved

\* A completion names the request whose buffer the message went to, or whose
\* send it reports: between the post and the poll neither wrid nor the place
\* mlx5_parse_cqe looks it up moves, page faults and reposts included.
WridMatches ==
  \A c \in CQs : \A k \in DOMAIN due[c] :
    LET e == due[c][k]
        nth == Cardinality({j \in 1..(k - 1) : due[c][j].op = "resp" /\ due[c][j].qp = e.qp})
    IN  e.id = CASE e.op = "req" -> sq[e.qp].wrid[e.idx]
                 [] e.op \in {"resp", "fault"} /\ use.srq[e.qp] -> srq.wrid[e.idx]
                 [] OTHER -> rq[e.qp].wrid[Up(rq[e.qp].tail, nth) % RqCnt]

\* No request is lost or answered twice: a receive posted to the SRQ is with
\* the hardware, in a CQE, or among the completions the current poll will
\* return, and in only one of them.
RequestsConserved ==
  LET inCqes == UNION {{<<c, k>> : k \in {j \in DOMAIN due[c] : due[c][j].op = "fault" \/ (due[c][j].op = "resp" /\ use.srq[due[c][j].qp])}} : c \in CQs}
      told == UNION {{t[2] : t \in {x \in job[c].told : x[1] = TheSrq}} : c \in CQs}
      posted == {srq.wrid[Posted[k]] : k \in DOMAIN Posted}
  IN  /\ owed[TheSrq] = posted \cup {due[p[1]][p[2]].id : p \in inCqes} \cup told
      /\ Cardinality(owed[TheSrq]) = hw.left + Cardinality(inCqes) + Cardinality(told)

\* Requests and completions match one to one, and by wr_id.
RequestsMatched == RequestsConserved /\ WridMatches

\* A send WQE the hardware has not finished, or whose CQE waits, keeps all
\* its basic blocks, and a receive WQE its buffer: mlx5_wq_overflow never
\* lets a post write over it, though WQEs differ in size and only signaled
\* ones move sq.tail.
WqesIntact ==
  \A q \in QPs : qp[q].st = "ready" =>
    /\ \A k \in DOMAIN wire[q] : \A b \in 0..(wire[q][k].blks - 1) :
         sq[q].bb[(wire[q][k].idx + b) % SqCnt] = wire[q][k].id
    /\ \A k \in DOMAIN due[use.scq[q]] :
         LET e == due[use.scq[q]][k] IN e.qp = q /\ e.op = "req" => sq[q].bb[e.idx] = e.id
    /\ Dist(rq[q].tail, rq[q].head) <= RqCnt /\ Dist(sq[q].tail, sq[q].head) <= SqCnt \div SqMax
    /\ Dist(rq[q].tail, rq[q].taken) <= Dist(rq[q].tail, rq[q].head)

\* Inline data reaches the buffer of the request the completion names.  For
\* a read or an atomic it always does.  handle_responder copies after it gave
\* the WQE back: there it takes an application that never has more requests
\* out than it was told it may, and one CQ for all receives of an SRQ.
InlineReachesItsBuffer ==
  /\ "req" \notin astray
  /\ use.polite /\ Cardinality({use.rcq[q] : q \in use.recvs}) <= 1 => "resp" \notin astray

\* Once its completion is retrieved a receive is done and its data is in its
\* buffer, whatever the number of CQs, for an application that counts.
RetrievedIsDone == use.polite => "resp" \notin astray

\* A page-faulted WQE rests: with a wait queue of n WQEs it is not posted
\* again before n more faults (srq_cooldown_wqe).
CooledDown == ToSet(recent) \subseteq ToSet(WaitList)
=============================================================================
