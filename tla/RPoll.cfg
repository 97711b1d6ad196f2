CONSTANTS
    t1 = t1
    t2 = t2
    t3 = t3
    Threads = {t1, t2, t3}
    Timed = {t1}
    Kinds = {"in", "out"}
    Wants <- MCWants
    MaxCalls = 1
SPECIFICATION FairSpec
CHECK_DEADLOCK FALSE
INVARIANTS GateInv NoForgottenSleeper
PROPERTY ReadyReturns
