------------------------------ MODULE MCRPoll -------------------------------
(* Three threads poll one rsocket: two for input, one for output.          *)
EXTENDS RPoll
CONSTANTS t1, t2, t3
MCWants == [t \in Threads |-> IF t = t2 THEN {"out"} ELSE {"in"}]
=============================================================================
