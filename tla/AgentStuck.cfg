\* The same with an administrator who resolves interrupted jobs; no stop.
SPECIFICATION ProtocolSpec
CONSTANTS
  d1 = d1
  r1 = r1
  r2 = r2
  Device <- OneDevice
  Pc = d1
  Code <- None
  Request <- TwoRequests
  MaxJobs = 2
  ExitCode <- Exits
  StaleAfter = 0
  MaxSequence = 0
  Payload <- None
  MaxLate = 0
  MaxCrashes = 0
  FaultyDisk = FALSE
  AdminResolves = TRUE
PROPERTIES
  QueuedIsClaimed
