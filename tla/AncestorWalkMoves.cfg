\* Up to three ancestors, batches of one or two, a cap of 2 requests, two moves.
CONSTANTS
  start = start
  a = a
  b = b
  c = c
  page_ = page_
  folder = folder
  Content <- Contents
  Start = start
  Kind <- Kinds
  Page = page_
  Alien = Alien
  None = None
  BatchSize = 2
  MaxFollowPages = 2
  MaxMoves = 2
SPECIFICATION WalkSpec
INVARIANTS NoRepeats WholeChain
CHECK_DEADLOCK FALSE
