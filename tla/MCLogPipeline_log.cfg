\* Three tasks, the shared queue and one queue of its own, messages too long.
SPECIFICATION FairSpec
CONSTANTS
  led = led
  wifi = wifi
  printer = printer
  NumQueues = 2
  Room <- SmallRoom
  Tasks = {led, wifi, printer}
  Printer = printer
  Uses <- LedOwnsOne
  NoOne = NoOne
  MaxLogs = 3
  MaxTime = 2
INVARIANTS
  IndInv
  FalseMeansEmpty
  OldestFrontChosen
PROPERTY EverythingIsPrinted
CHECK_DEADLOCK FALSE
