\* Three runs of one site queue for the lock; nothing crashes.
CONSTANTS
  p1 = p1
  p2 = p2
  p3 = p3
  siteA = siteA
  siteB = siteB
  Proc <- Procs3
  Site <- Sites1
  FileSite <- Sites0
  RefreshTimeout = 2
  LockTimeout = 3
  MaxIssue = 2
  MaxRuns = 3
  MaxCrashes = 0
  Faults = FALSE
SPECIFICATION Spec
INVARIANTS BypassNeedsCrash
SYMMETRY ProcSymmetry
CHECK_DEADLOCK FALSE
