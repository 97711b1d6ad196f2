SPECIFICATION Spec
CONSTANTS
  CQs = {"cq1", "cq2"}
  Others = {"qp1"}
  t1 = t1
  t2 = t2
  Threads = {t1, t2}
  WORD = 3
  MaxEvents = 3
  CanDisassociate = TRUE
SYMMETRY Symmetry
CHECK_DEADLOCK FALSE
INVARIANTS OneToOne PinsUntilGone SleepsForAck ChannelCounted
