\* Three aliases of all kinds, one change while the run is under way.
CONSTANTS
  a = a
  b = b
  c = c
  issue = issue
  version = version
  helper = helper
  Exec = Exec
  Flag = Flag
  Blank = Blank
  Undefined = Undefined
  Broken = Broken
  Word <- Words
  Builtin <- Builtins
  Leaf <- Leaves
  AliasName <- AliasNames
  Name <- Names
  Status <- Statuses
  Expansion <- Expansions
  Typed <- CommandLines
  MaxDepth = 2
  Letters = {"x"}
  WordLength = 2
  TextLength = 3
  MaxChanges = 1
SPECIFICATION Spec
INVARIANTS SplitsIntoWords ArgsKept OneVoice NeverMissed
PROPERTIES BrokenNeedsHand
CHECK_DEADLOCK FALSE
