SPECIFICATION Spec
CONSTANTS
  MaxRequests = 3
  Outcomes <- RoughOutcomes
  Faults <- RoughFaults
  DebugBuild = FALSE
INVARIANTS TypeOK OneReply
PROPERTY EveryRequestAnswered
