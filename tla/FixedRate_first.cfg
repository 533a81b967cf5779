\* createTask ends while the task that it has created sleeps.
SPECIFICATION Spec
CONSTANTS
  TickRange = 16
  Periods = {1, 2, 5}
  Margin = 0
  MaxTime = 40
  MaxRound = 10
PROPERTY
  LateOnlyIfLong
CHECK_DEADLOCK FALSE
