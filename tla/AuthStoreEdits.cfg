\* Commands one after another or two at a time, with failures and crashes at any step.
CONSTANTS
  p1 = p1
  p2 = p2
  siteA = siteA
  siteB = siteB
  aliasX = aliasX
  None = None
  Proc <- Procs2
  Site <- Sites2
  Alias <- Aliases
  Overlap = TRUE
  MaxRuns = 4
  MaxStops = 2
SYMMETRY Symmetry
SPECIFICATION Spec
INVARIANTS Resolvable NoLeftover DefaultConfigured
PROPERTY Serial
CHECK_DEADLOCK FALSE
