SPECIFICATION SnapshotsSpec
CONSTANTS
  acct = acct u1 = u1 u2 = u2 worker = worker flush = flush
  Accounts = acct
  UserFile = {u1, u2}
  Rank <- PathOrder
  Uploader = {worker}
  Worker = worker
  Private = FALSE
  MaxWrites = 3
  MaxFaults = 0
INVARIANT CleanMeansMirrored
CHECK_DEADLOCK FALSE
