CONSTANTS
    WORD = 4
    RQ = 2
    Uses <- MCUses
SPECIFICATION Spec
CHECK_DEADLOCK FALSE
INVARIANTS NoOverrun CountersExact NoLostWakeup  ShutdownToldOrSpent NoStandstill
