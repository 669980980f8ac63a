SPECIFICATION UpkeepSpec
CONSTANTS
  Records = {a, b, c}
  PerPage = 2
  MaxStamp = 3
  MaxRuns = 2
  Caps = {0}
  MayFail = FALSE
  MayOverlap = FALSE
  Issues = {i1, i2}
  NoIssue = NoIssue
  MaxComments = 3
  MaxRevision = 3
  MaxPasses = 2
  AggregatePage = 2
  NewestFirst = TRUE
  Clients = {p1, p2}
  MaxVisits = 4
  NoClient = NoClient
  Commands = {m1}
  MaxCommands = 2
  MaxBoots = 2
  DaemonsOverlap = FALSE
  NoState = NoState
  NoIntent = NoIntent
  NoReceipt = NoReceipt
  MaxGeneration = 3
  MaxStarted = 1
  MaxContent = 1
  MaxUnsaved = 1
  MaxReboots = 1
  Paths = {p1, p2}
  Repos = {a, b}
  Main = a
  Alias = a2
  Policies = {q1, q2}
  Operators = {o1, o2}
  EnrolKeys = {k1}
  CloneId = CloneId
  LostId = LostId
  MaxResolutions = 1
  MaxRows = 3
  MaxSize = 2
  Answers = {"ok", "gone", "snapshot"}
  EnrolMidConflict = FALSE
  MixedCohorts = FALSE
  NoPlan = NoPlan
  Callers = {o1, o2}
  Pages = {i1}
  MaxVersions = 2
  MaxOps = 3
  MaxMishaps = 1
  Reverts = FALSE
  NoCaller = NoCaller
INVARIANTS
  UpkeepTypeOK   MigratorsExclude UpgradesAreWhole
     
PROPERTIES RowsAdvance
CHECK_DEADLOCK FALSE
