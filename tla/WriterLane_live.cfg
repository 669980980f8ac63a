SPECIFICATION FairSpec
CONSTANTS
  s1 = s1
  s2 = s2
  r1 = r1
  d1 = d1
  Syncs = {s1, s2}
  Writers = {}
  Docs = {}
  WorkKey <- MCWorkKey
  NoJob = NoJob
  MaxRetries = 0
  MaxRestarts = 1
  PersistFails = FALSE
CHECK_DEADLOCK FALSE
PROPERTIES WorkersSettle RecoveryFenceLifts
