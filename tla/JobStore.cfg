\* Two devices sharing the tables: two jobs, on one device or on both, two request
\* ids, one enrolment code, every class of exit code, and progress events of two
\* texts under the one number an agent uses.
SPECIFICATION Spec
CONSTANTS
  d1 = d1
  d2 = d2
  c1 = c1
  r1 = r1
  r2 = r2
  p1 = p1
  p2 = p2
  Device <- TwoDevices
  Code <- OneCode
  Request <- TwoRequests
  MaxJobs = 2
  ExitCode <- Exits
  StaleAfter = 1
  MaxSequence = 1
  Payload <- TwoPayloads
SYMMETRY Symmetry
INVARIANTS
  TypeOK
  OneOpenJob
  OpenJobHasApprovedAgent
  LogMatchesJob
  OneJobPerRequest
PROPERTIES
  ResultIsFinal
  ImplementsSlot
  LogIsAppendOnly
