\* One worker that claims two messages at once; one crash or failed write.
CONSTANTS
  r1 = r1
  r2 = r2
  w1 = w1
  w2 = w2
  Rows = {r1, r2}
  Workers = {w1}
  NoJob = NoJob
  Batch = 2
  PollInterval = 1
  Lease = 2
  BaseBackoff = 1
  MaxBackoff = 2
  MaxAttempts = 2
  MaxFaults = 1
SPECIFICATION FairSpec
PROPERTIES
  EveryMessageEnds
\* Once every message is sent or failed there is nothing left to do.
CHECK_DEADLOCK FALSE
