SPECIFICATION SetupSpec
CONSTANTS
  a1 = a1
  a2 = a2
  OldApp <- OldApps
  Orphan <- Orphans
  NoState = NoState
  FaultyDisk = TRUE
  MaxFaults = 2
INVARIANTS
  SetupTypeOK
  SuccessRemembersReboot
PROPERTIES
  SucceededMeansInstalled
  TargetIsKept
  ReportsAreCurrent
  HancomOnCleanSystem
  Converges
