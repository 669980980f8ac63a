SPECIFICATION BoundarySpec
CONSTANTS
  s1 = s1
  s2 = s2
  r1 = r1
  d1 = d1
  Syncs = {s1, s2}
  Writers = {r1}
  Docs = {}
  WorkKey <- MCSameSyncKey
  NoJob = NoJob
  MaxRetries = 0
  MaxRestarts = 1
  PersistFails = FALSE
  Runners = {w1, w2}
  DocPaths = {1, 2}
  Edited = {2}
  Texts = {x, y}
  OtherDoc = OtherDoc
  NoDoc = NoDoc
  BatchSize = 2
  Budgets = {1}
  RetainCommitted = 1
  MaxVectors = 1
  MaxRequests = 2
  MaxEdits = 1
  MaxFaults = 1
  MaxStops = 1
  Doers = {s1, s2}
  MaxResends = 1
  MaxOthers = 1
  MaxLost = 1
  PushMidMerge = FALSE
  NoCommit = NoCommit
  Appliers = {s1, s2}
  MaxMoves = 1
  MaxReviews = 1
  MovesMidApply = FALSE
  NoReview = NoReview
SYMMETRY SyncSymmetry
CHECK_DEADLOCK FALSE
INVARIANTS BoundaryTypeOK  IndexIsExact  
