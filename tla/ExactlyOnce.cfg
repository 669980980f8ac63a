SPECIFICATION OnceSpec
CONSTANTS
  Keys = {x1, x2}
  Regs = {y1, y2}
  MaxJobs = 3
  MaxTime = 1
  SuccessTTL = 1
  DiagnosticTTL = 1
  MaxTerminalJobs = 1
  MaxDiagnosticJobs = 1
  MaxReceipts = 1
  MaxFails = 1
  MaxRestarts = 1
  NoJob = NoJob
  NoReceipt = NoReceipt
  NoKey = NoKey
  Callers = {x1, x2}
  GitKeys = {y1, y2}
  Kinds = {"issue"}
  Bodies = {z1, z2}
  MaxId = 2
  MaxHistory = 3
  MaxCalls = 3
  MaxOutside = 1
  NoEntity = NoEntity
  NoGitReceipt = NoGitReceipt
  NoBody = NoBody
  NoGitKey = NoGitKey
  NoCaller = NoCaller
  Writers = {x1, x2}
  Commands = {"create-issue", "create-pr", "update-issue", "update-pr", "merge-pr", "wiki", "milestone", "label", "comment", "mirror", "plain"}
  Payloads = {y1, y2}
  MaxWrites = 3
  MaxEdits = 1
  MaxFaults = 1
  NoRow = NoRow
  NoDoc = NoDoc
  NoPayload = NoPayload
SYMMETRY OnceSymmetry
INVARIANTS
  OnceTypeOK  HistoryIsSound MutationsApplyOnce
PROPERTIES  EffectsStand RemoteWriteIsSound
CHECK_DEADLOCK FALSE
