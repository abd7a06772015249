SPECIFICATION SetupSpec
CONSTANTS
  a1 = a1
  a2 = a2
  OldApp <- OldApps
  Orphan <- Orphans
  NoState = NoState
  FaultyDisk = FALSE
  MaxFaults = 1
INVARIANTS
  RebootIsRemembered
