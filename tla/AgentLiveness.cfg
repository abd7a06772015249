\* One PC, one stop, one call on its way; interrupted jobs stay parked.
SPECIFICATION ProtocolSpec
CONSTANTS
  d1 = d1
  r1 = r1
  r2 = r2
  Device <- OneDevice
  Pc = d1
  Code <- None
  Request <- TwoRequests
  MaxJobs = 2
  ExitCode <- Exits
  StaleAfter = 0
  MaxSequence = 0
  Payload <- None
  MaxLate = 1
  MaxCrashes = 1
  FaultyDisk = FALSE
  AdminResolves = FALSE
PROPERTIES
  ResultDelivered
  AgentReturns
  QueuedIsClaimed
  RunningEnds
