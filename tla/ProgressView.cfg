\* Two jobs, logs of up to three events read in pages of two, two watches.
SPECIFICATION Spec
CONSTANTS
  NoJob = 0
  Job <- TwoJobs
  MaxLines <- LongAndShort
  PageSize = 2
  MaxWatches = 2
  MaxLogins = 2
  MaxFailures = 1
INVARIANTS
  ViewTypeOK
  PageShowsPrefix
PROPERTIES
  PanelSettles
\* All jobs may be over and all readers at their end.
CHECK_DEADLOCK FALSE
