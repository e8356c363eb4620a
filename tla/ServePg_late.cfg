SPECIFICATION Spec
CONSTANTS
  MaxRequests = 3
  Outcomes = {"ok"}
  Faults = {"late"}
  DebugBuild = TRUE
INVARIANT OwnAnswer
