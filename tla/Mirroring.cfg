\* Two reports for the sheet and one without a school, all of one PC; one lease and
\* one slot, so that the server's threads and the replay command wait for each other.
SPECIFICATION MirrorSpec
CONSTANTS
  a = a
  b = b
  c = c
  pc = pc
  s1 = s1
  s2 = s2
  k = k
  server = server
  command = command
  Nobody = Nobody
  NoReport = NoReport
  Nothing = Nothing
  Report <- TwoReports
  Local = {c}
  Pc <- OnePc
  Of <- FromOnePc
  Observed <- InOrder
  Worker <- ThreeWorkers
  Process <- Processes
  ProcessOf <- Home
  Slots = 1
  MaxSending = 1
  MaxAttempts = 2
  Lease = 1
  MaxReplays = 1
  MaxFaults = 1
SYMMETRY Symmetry
INVARIANTS
  MirrorTypeOK
  LeasesLimited
  SentIsMirrored
  Converged
PROPERTIES
  NeverGoesBack
  ImplementsDelivery
