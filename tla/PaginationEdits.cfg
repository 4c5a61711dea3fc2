\* Two changes of a collection of up to 4 items, pages of 1 or 2, a cap of 3 pages.
CONSTANTS
  N = 4
  PageSize = 2
  MaxFollowPages = 3
  MaxEdits = 2
SPECIFICATION FairSpec
INVARIANTS EveryItem OnceEach CapIsHonest
PROPERTY LoopEnds
CHECK_DEADLOCK FALSE
