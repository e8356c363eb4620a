SPECIFICATION Spec
CONSTANTS
  MaxRequests = 3
  Outcomes = {"ok", "commit_error"}
  Faults = {}
  DebugBuild = TRUE
INVARIANT ProcessSurvives
