CONSTANTS
  t1 = t1
  t2 = t2
  Threads = {t1, t2}
  NR_BUCKET = 2
  burst_size = 5
  Rates = {4}
  InitRate = 4
  Sizes = {5}
  NSEC = 2
  Boot = 3
  MaxClock = 5
  MaxBurstTime = 3
  MaxGrants = 2
  HUGE = 1000
SPECIFICATION Spec
SYMMETRY Symmetry
CHECK_DEADLOCK FALSE
INVARIANT FullBucketGrants
PROPERTY ImplementsLimiter
