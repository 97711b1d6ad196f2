CONSTANTS
  t1 = t1
  t2 = t2
  Threads = {t1, t2}
  NR_BUCKET = 1
  burst_size = 2
  Rates = {0, 1, 2}
  InitRate = 2
  Sizes = {1}
  NSEC = 2
  Boot = 6
  MaxClock = 7
  MaxBurstTime = 4
  MaxGrants = 2
  HUGE = 1000
SPECIFICATION Spec
SYMMETRY Symmetry
CHECK_DEADLOCK FALSE
INVARIANTS NoDoubleSpend  FirstTryBurst
