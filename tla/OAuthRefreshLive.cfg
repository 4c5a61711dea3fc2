\* Every run ends, with a crash, I/O failures and a leftover lock.
CONSTANTS
  p1 = p1
  p2 = p2
  p3 = p3
  siteA = siteA
  siteB = siteB
  Proc <- Procs2
  Site <- Sites1
  FileSite <- Sites0
  RefreshTimeout = 2
  LockTimeout = 3
  MaxIssue = 2
  MaxRuns = 3
  MaxCrashes = 1
  Faults = TRUE
SPECIFICATION FairSpec
PROPERTY RunEnds
CHECK_DEADLOCK FALSE
