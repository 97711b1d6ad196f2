------------------------------ MODULE MCMlx5Cq ------------------------------
(* Mlx5Cq on one or two CQs and QPs.  Each use exercises a part: the SRQ    *)
(* with and without a wait queue, send and receive queues, one CQ or two.   *)
EXTENDS Mlx5Cq

CONSTANTS c1, c2, q1, q2

All(v) == [q \in QPs |-> v]
Bound(a, b, c) == [cqes |-> a, resets |-> b, resizes |-> c]
Wr(n, s) == [blks |-> n, sig |-> s]
Base == [srq |-> All(TRUE), rcq |-> All(c1), scq |-> All(c1), size |-> 4, wr |-> 3, polite |-> TRUE, faults |-> FALSE,
         inline |-> FALSE, sends |-> {}, recvs |-> {}, resets |-> {}, left |-> Bound(0, 0, 0),
         lists |-> {<<Wr(1, TRUE)>>, <<Wr(2, FALSE), Wr(1, TRUE)>>, <<Wr(2, TRUE), Wr(2, TRUE)>>}]
OwnQueues == [Base EXCEPT !.srq = All(FALSE)]
TwoCqs == [Base EXCEPT !.rcq = [q \in QPs |-> IF q = q1 THEN c1 ELSE c2], !.recvs = {q1, q2}, !.inline = TRUE, !.left = Bound(3, 0, 0)]

MCUses == {
  \* an SRQ with a wait queue: page faults and a reset
  [Base EXCEPT !.wr = 1, !.faults = TRUE, !.recvs = {q1}, !.resets = {q1}, !.left = Bound(6, 1, 0)],
  \* page faults without a wait queue
  [Base EXCEPT !.faults = TRUE, !.recvs = {q1}, !.left = Bound(4, 0, 0)],
  \* two QPs on one SRQ: sweeping the CQEs of one from between the other's
  [Base EXCEPT !.recvs = {q1, q2}, !.resets = {q1}, !.left = Bound(5, 1, 0)],
  \* a ring that shrinks and grows, and one that is swept besides
  [Base EXCEPT !.recvs = {q1}, !.left = Bound(5, 0, 2)],
  [Base EXCEPT !.recvs = {q1, q2}, !.resets = {q1}, !.left = Bound(3, 1, 1)],
  \* inline data: one CQ and an application that counts, or two, or neither
  [Base EXCEPT !.recvs = {q1}, !.inline = TRUE, !.left = Bound(4, 0, 0)], TwoCqs,
  [OwnQueues EXCEPT !.recvs = {q1}, !.inline = TRUE, !.left = Bound(4, 0, 0)],
  [OwnQueues EXCEPT !.recvs = {q1}, !.polite = FALSE, !.inline = TRUE, !.left = Bound(4, 0, 0)],
  \* sends, from an application that posts until ENOMEM, and with a reset
  [OwnQueues EXCEPT !.sends = {q1}, !.polite = FALSE, !.inline = TRUE, !.left = Bound(3, 0, 0)],
  [OwnQueues EXCEPT !.sends = {q1}, !.resets = {q1}, !.left = Bound(3, 1, 0)],
  \* sends and receives of one QP complete on two CQs
  [Base EXCEPT !.scq = All(c2), !.recvs = {q1}, !.sends = {q1}, !.resets = {q1}, !.left = Bound(2, 1, 0), !.wr = 1,
               !.lists = {<<Wr(1, TRUE)>>}]}
MCTwoCqs == {TwoCqs}
=============================================================================
