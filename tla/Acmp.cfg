CONSTANTS
    r1 = r1
    r2 = r2
    r3 = r3
    r4 = r4
    Requests = {r1, r2, r3, r4}
    Addr <- MCAddr
    Op <- MCOp
    Uses <- MCUses
    Retries = 1
    Depth = 1
SPECIFICATION FairSpec
CHECK_DEADLOCK FALSE
INVARIANTS EndpointBalanced  AnswersRight InUseIsHeld
PROPERTY QueuedIsAnswered
