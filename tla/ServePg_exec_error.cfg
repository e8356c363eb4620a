SPECIFICATION Spec
CONSTANTS
  MaxRequests = 3
  Outcomes = {"ok", "exec_error"}
  Faults = {}
  DebugBuild = TRUE
INVARIANT InSyncAtAccept
