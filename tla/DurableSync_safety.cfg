SPECIFICATION Spec
CONSTANTS
  Last = 2
  Collections <- MCCollections
  Budget = 2
  Cancels = TRUE
  Expiry = TRUE
  MaxFailures = 1
  MaxCrashes = 1
INVARIANTS TypeOK EvidenceIsKept OneCrashIsSurvived
PROPERTY LedgerSpec
CHECK_DEADLOCK FALSE
