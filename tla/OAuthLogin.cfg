\* Two logins on one port, two callbacks, another program on the port.
CONSTANTS
  r1 = r1
  r2 = r2
  idA = idA
  idB = idB
  meant = meant
  elsewhere = elsewhere
  Free = Free
  Other = Other
  None = None
  Run <- Runs2
  Sites <- Lists
  Meant <- meant
  Override <- Overrides
  MaxVisits = 2
  MaxOther = 2
SPECIFICATION FairSpec
INVARIANTS CodeIsGood PageFirst GrantFits
PROPERTY LoginEnds
CHECK_DEADLOCK FALSE
