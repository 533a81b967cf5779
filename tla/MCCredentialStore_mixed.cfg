\* One task, two calls, one loss of power: hasCredentials() finds a mixed pair.
SPECIFICATION Spec
CONSTANTS
  Names = {n1, n2}
  Passwords = {p1, p2}
  Empty = Empty
  MaxCalls = 2
  MaxRestarts = 1
SYMMETRY Symmetry
INVARIANT ValidIfAvailable
CHECK_DEADLOCK FALSE
