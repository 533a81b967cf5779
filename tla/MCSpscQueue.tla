---------------------------- MODULE MCSpscQueue ----------------------------
(***************************************************************************)
(* SpscQueue for TLC, and the mask of the code against its modulus.        *)
(***************************************************************************)
EXTENDS SpscQueue

R == INSTANCE RingIndex

\* SpscQueue.hpp:26 "Must be a power of two": for the capacities of the firmware (16
\* and 32) and the other small ones the index the code masks is the index modulo the
\* capacity, so that the ring visits every slot.
MaskIsModulus ==
  \A capacity \in {2, 4, 8, 16, 32, Capacity} :
    /\ \A i \in 0 .. capacity - 1 : R!Increment(capacity, i) = (i + 1) % capacity
    /\ capacity = Capacity => R!Increment(capacity, head) = Increment(head)
=============================================================================
