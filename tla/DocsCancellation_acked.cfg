SPECIFICATION Spec
CONSTANTS
  Callers = {c1, c2}
  Requesters = {r1}
  MaxJobs = 2
  MaxGen = 2
  MaxAdmissions = 2
  MaxCancels = 2
  MaxFailures = 0
  MaxRestarts = 0
  Shutdowns = FALSE
PROPERTY AckedStaysCancelled
CHECK_DEADLOCK FALSE
