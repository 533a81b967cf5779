\* Two tasks, three calls, two losses of power at any step.
SPECIFICATION Spec
CONSTANTS
  Names = {n1, n2}
  Passwords = {p1, p2}
  Empty = Empty
  MaxCalls = 3
  MaxRestarts = 2
SYMMETRY Symmetry
INVARIANTS
  ValidUnlessMarred
  FlashIsMemory
  ClosedWhenIdle
PROPERTIES
  TriesWhatWasPosted
  WholePairs
CHECK_DEADLOCK FALSE
