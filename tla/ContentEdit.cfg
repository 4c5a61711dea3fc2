\* Two edits of one piece of content, with one version made by others between them.
CONSTANTS
  r1 = r1
  r2 = r2
  old = old
  new = new
  text = text
  Empty = Empty
  Keep = Keep
  Run <- Runs2
  Title <- Titles
  Text <- Texts
  MaxVersion = 2
SYMMETRY Symmetry
SPECIFICATION Spec
INVARIANTS Reported
PROPERTIES AtomicEdits NothingCleared
CHECK_DEADLOCK FALSE
