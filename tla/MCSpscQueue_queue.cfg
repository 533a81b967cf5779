\* Two producers that share a queue of four slots under the mutex; the printer may
\* stop at any point.
SPECIFICATION ProducerFairSpec
CONSTANTS
  Capacity = 4
  Msgs = {m1, m2}
  Producers = {p1, p2}
  GlobalLock = TRUE
  Torn = Torn
  NoOne = NoOne
  MaxCalls = 4
INVARIANTS
  IndInv
  NoOverlap
  PeekedIsPopped
  LoadNotOverstated
  DropNotSilent
  MaskIsModulus
PROPERTIES
  Fifo
  PushReturns
  PublishedIsDelivered
