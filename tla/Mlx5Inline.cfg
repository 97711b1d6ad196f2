SPECIFICATION Spec
CONSTANTS
  c1 = c1
  c2 = c2
  q1 = q1
  q2 = q2
  CQs = {c1, c2}
  QPs = {q1, q2}
  Uses <- MCTwoCqs
  CqSizes = {2, 4}
  WORD = 8
  SqCnt = 4
  SqMax = 2
  RqCnt = 2
  MaxSrqWr = 4
  Ids = {1, 2, 3, 4}
INVARIANT RetrievedIsDone
