\* Two jobs of one PC, files of three and one lines, batches of two, two faults.
SPECIFICATION Spec
CONSTANTS
  MaxJobs = 2
  MaxLines <- LongThenShort
  BatchSize = 2
  MaxFaults = 2
INVARIANTS
  DeliveryTypeOK
  LogHasNoGap
  SuccessHasWholeLog
PROPERTIES
  KeepsPromise
\* All jobs may be over, or an agent hold a result the service refuses.
CHECK_DEADLOCK FALSE
