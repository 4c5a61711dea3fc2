\* A logout overlaps with another command.
CONSTANTS
  p1 = p1
  p2 = p2
  siteA = siteA
  siteB = siteB
  aliasX = aliasX
  None = None
  Proc <- Procs2
  Site <- Sites2
  Alias <- Aliases
  Overlap = TRUE
  MaxRuns = 3
  MaxStops = 0
SPECIFICATION Spec
PROPERTY LogoutKeepsOthers
CHECK_DEADLOCK FALSE
