----------------------------- MODULE MCRSocket ------------------------------
(* Small sockets.  In turn: a sends more bytes than its peer's buffer      *)
(* holds, in more messages than it has credits, so that windows, credits   *)
(* and the 16-bit counts (here 2 bits wide) all come round; both send at   *)
(* once; iWARP; and the ways to shut down.                                 *)
EXTENDS RSocket

Large == [sqe |-> 2, ctrl |-> 2, sbuf |-> 2, rbuf |-> 4]
Small == [sqe |-> 1, ctrl |-> 1, sbuf |-> 1, rbuf |-> 2]

MCUse(size, msg_send, a, b, block, polls, shut, fails) ==
    size @@
    [msg_send |-> msg_send, bytes |-> [s \in Sides |-> IF s = "a" THEN a ELSE b],
     block |-> block, polls |-> polls, shut |-> shut, fails |-> fails]

MCUses == {
    MCUse(Large, FALSE, 6, 0, {"b"}, {}, {}, FALSE),
    MCUse(Large, FALSE, 3, 0, {"a"}, {"b"}, {}, FALSE),
    MCUse(Small, FALSE, 3, 3, {}, {}, {}, FALSE),
    MCUse(Small, FALSE, 1, 1, Sides, {}, {}, FALSE),
    MCUse(Large, TRUE, 2, 0, {"b"}, {}, {}, FALSE),
    MCUse(Large, TRUE, 1, 0, {}, {}, {<<"a", "WR">>}, FALSE),
    MCUse(Large, FALSE, 2, 0, {"b"}, {}, {<<"a", "WR">>}, FALSE),
    MCUse(Large, FALSE, 1, 0, {"b"}, {}, {<<"a", "WR">>, <<"a", "RD">>}, FALSE),
    MCUse(Large, FALSE, 1, 0, {"b"}, {}, {<<"a", "RDWR">>}, TRUE),
    \* the receiver, which owes credits, shuts down
    MCUse(Large, FALSE, 3, 0, {"b"}, {}, {<<"b", "WR">>}, FALSE) }
=============================================================================
