\* One job and one reader, no failed calls: the job is interrupted and goes on.
SPECIFICATION Spec
CONSTANTS
  NoJob = 0
  Job <- OneJob
  MaxLines <- Short
  PageSize = 2
  MaxWatches = 1
  MaxLogins = 1
  MaxFailures = 0
PROPERTIES
  PanelShowsOutcome
CHECK_DEADLOCK FALSE
