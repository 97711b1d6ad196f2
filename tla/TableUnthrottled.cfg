SPECIFICATION Spec
CONSTANTS
  NrTask = 2
  Bandwidths = {2}
  Tails = {}
  Qos = 2
  TOTAL_BW = 8
  WORD32 = 16
  WORD = 64
  INIT_BANDWIDTH = 1
  NR_BUCKET = 2
  MaxStarts = 1
INVARIANT AlwaysThrottled
