\* One PC with a faulty disk: two stops, one call still on its way, two jobs.
SPECIFICATION ProtocolSafety
CONSTANTS
  d1 = d1
  r1 = r1
  r2 = r2
  Device <- OneDevice
  Pc = d1
  Code <- None
  Request <- TwoRequests
  MaxJobs = 2
  ExitCode <- Exits
  StaleAfter = 0
  MaxSequence = 0
  Payload <- None
  MaxLate = 1
  MaxCrashes = 2
  FaultyDisk = TRUE
  AdminResolves = TRUE
INVARIANTS
  ProtocolTypeOK
  OneInstallerEver
  ClosedMeansEnded
