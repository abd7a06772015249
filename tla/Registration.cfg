SPECIFICATION RegSpec
CONSTANTS
  d1 = d1
  r1 = r1
  Device <- OnePc
  Pc = d1
  Code <- None
  Request <- OneRequest
  MaxJobs = 1
  ExitCode <- Exits
  StaleAfter = 0
  MaxSequence = 0
  Payload <- None
  MaxLate = 0
  MaxCrashes = 1
  FaultyDisk = FALSE
  AdminResolves = TRUE
  MaxTrouble = 2
INVARIANTS
  RegTypeOK
  KeysMatch
  NoJobWhileReplacing
PROPERTIES
  PcIsServed
