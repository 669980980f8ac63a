SPECIFICATION ClientsFairSpec
CONSTANTS
  Callers = {c1, c2}
  Requesters = {r1}
  MaxJobs = 1
  MaxGen = 2
  MaxAdmissions = 1
  MaxCancels = 2
  MaxFailures = 1
  MaxRestarts = 0
  Shutdowns = TRUE
  Selectors = {p1, p2}
  Projects = {p1, p2}
  Shelves = {p1, p2}
  Setups = {c1, c2}
  Guests = {c1, c2}
  Tokens = {}
  NoBinding = NoBinding
  NoProject = NoProject
  NoSetup = NoSetup
  MaxSetups = 2
  MaxRequests = 2
  MaxAsked = 3
  MaxStarts = 1
  MaxSwaps = 1
  MaxMishaps = 1
  Slots = 2
  SegmentSize = 1
  MaxBacklog = 1
  Ahead = 2
  MaxEmits = 2
  MaxBoots = 2
  MaxFaults = 1
  MaxTotal = 3
  NoEvent = NoEvent
PROPERTIES CancelIsAnswered WorkerUnwinds
CHECK_DEADLOCK FALSE
