\* One auth command at a time, two product runs, two sites.
CONSTANTS
  p1 = p1
  r1 = r1
  r2 = r2
  siteA = siteA
  siteB = siteB
  None = None
  Proc <- Procs1
  Reader <- Readers2
  Site <- Sites2
  Overlap = FALSE
  MaxRuns = 3
  MaxStops = 1
SYMMETRY Symmetry
SPECIFICATION Spec
INVARIANTS GrantStays UseMatches HonestRefusal NothingReturns
CHECK_DEADLOCK FALSE
