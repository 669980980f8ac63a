SPECIFICATION CollectionSpec
CONSTANTS
  Records = {a, b, c}
  PerPage = 2
  MaxStamp = 4
  MaxRuns = 2
  Caps = {0}
  MayFail = TRUE
  MayOverlap = FALSE
SYMMETRY RecordSymmetry
INVARIANT WatermarkIsSound
CHECK_DEADLOCK FALSE
