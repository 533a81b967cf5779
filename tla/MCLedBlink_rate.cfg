\* Two patterns with three periods between them, across several wraps of a small tick
\* count; the index wraps, too.
SPECIFICATION LedSpec
CONSTANTS
  TickRange = 16
  Periods = {1, 2, 5}
  Margin = 1
  MaxTime = 40
  MaxRound = 10
  NUM_PERIODS = 6
  Patterns <- MCPatterns
  OffOn <- MCOffOn
INVARIANTS
  IndInv
  LitAsTabled
PROPERTIES
  OnSchedule
  WarnedIfLate
CHECK_DEADLOCK FALSE
