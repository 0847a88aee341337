CONSTANTS
  w1 = w1
  w2 = w2
  r1 = r1
  Workers = {w1}
  Readers = {r1}
  MaxBar = 5
  Opened = 2
  Quoted <- Quoted0
  Calendar <- Calendar0
  Need = 3
  ChunkSize = 3
  Cap = 3
  Extra = 1
  Lookback = 1
  Windows <- Windows0
  Drift = 1
  MaxFaults = 1
SPECIFICATION FairSpec
INVARIANT AnswerHonest
INVARIANT Delivered
PROPERTY NotTorn
PROPERTY CatchesUp
CHECK_DEADLOCK FALSE
