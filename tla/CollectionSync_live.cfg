SPECIFICATION CollectionLiveSpec
CONSTANTS
  Records = {a, b}
  PerPage = 1
  MaxStamp = 3
  MaxRuns = 1
  Caps = {0}
  MayFail = FALSE
  MayOverlap = FALSE
PROPERTY CacheCatchesUp
CHECK_DEADLOCK FALSE
