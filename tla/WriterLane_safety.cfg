SPECIFICATION Spec
CONSTANTS
  s1 = s1
  s2 = s2
  r1 = r1
  d1 = d1
  Syncs = {s1, s2}
  Writers = {d1}
  Docs = {d1}
  WorkKey <- MCSameSyncKey
  NoJob = NoJob
  MaxRetries = 1
  MaxRestarts = 1
  PersistFails = TRUE
SYMMETRY SyncSymmetry
CHECK_DEADLOCK FALSE
INVARIANTS TypeOK LaneExclusive ClearFenceQuiet
