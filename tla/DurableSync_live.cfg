SPECIFICATION FairSpec
CONSTANTS
  Last = 2
  Collections <- MCCollections
  Budget = 2
  Cancels = FALSE
  Expiry = FALSE
  MaxFailures = 1
  MaxCrashes = 1
PROPERTY Settles
CHECK_DEADLOCK FALSE
