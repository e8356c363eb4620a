SPECIFICATION AnsweringSpec
CONSTANTS
  MaxRequests = 3
  Outcomes <- HandledOutcomes
  Faults <- HandledFaults
  DebugBuild = FALSE
INVARIANTS
  OwnAnswer HonestSuccess CommittedIsReported BadRequestIsOwn
  InSyncAtAccept AtMostOneLost ProcessSurvives IInv
PROPERTIES ImplementsCall Reconnects
