\* Two reports, one lease at a time: workers of two processes wait for each other.
SPECIFICATION Spec
CONSTANTS
  a = a
  b = b
  s1 = s1
  k = k
  server = server
  command = command
  Nobody = Nobody
  NoReport = NoReport
  Report <- TwoReports
  Worker <- TwoWorkers
  Process <- Processes
  ProcessOf <- Home
  Slots = 1
  MaxSending = 1
  MaxAttempts = 2
  Lease = 1
  MaxReplays = 1
  MaxFaults = 1
PROPERTIES
  EventuallySettled
