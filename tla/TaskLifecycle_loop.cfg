\* Any number of stop() calls against three runs of a task that may break out.
SPECIFICATION FairSpec
CONSTANTS
  MaxRuns = 3
  BreaksOut = TRUE
INVARIANTS
  IndInv
  OneRoundAfterStop
PROPERTIES
  StopEnds
