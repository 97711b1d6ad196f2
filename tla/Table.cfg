SPECIFICATION FairSpec
CONSTANTS
  NrTask = 2
  Bandwidths = {7, 18}
  Tails = {1, 3}
  Qos = 2
  TOTAL_BW = 8
  WORD32 = 16
  WORD = 64
  INIT_BANDWIDTH = 1
  NR_BUCKET = 2
  MaxStarts = 2
INVARIANT OrderlyServed
PROPERTIES RunningThrottles SlackFollows RateFollows
