\* Three runs in two slots, two sites in one fallback file; a crash, I/O failures.
CONSTANTS
  p1 = p1
  p2 = p2
  p3 = p3
  siteA = siteA
  siteB = siteB
  Proc <- Procs2
  Site <- Sites2
  FileSite <- Sites2
  RefreshTimeout = 2
  LockTimeout = 3
  MaxIssue = 2
  MaxRuns = 3
  MaxCrashes = 1
  Faults = TRUE
SPECIFICATION Spec
INVARIANTS RaceNeedsLeftover OneRefresher NoNeedlessRefresh GrantKept ReauthIsHonest ReturnedIsStored
PROPERTY StoredAdvances
SYMMETRY ProcSymmetry
CHECK_DEADLOCK FALSE
