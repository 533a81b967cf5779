----------------------------- MODULE RingIndex -----------------------------
(***************************************************************************)
(* The index arithmetic of typ::SpscQueue as the code computes it, with a  *)
(* bit mask.  SpscQueue uses the modulus, which the provers know.          *)
(***************************************************************************)
EXTENDS Naturals, Bitwise

\* Mutated: the mask is the capacity itself.
IncrementMaskOffByOne(capacity, index) == (index + 1) & capacity

\* SpscQueue::increment.
Increment(capacity, index) == (index + 1) & (capacity - 1)
=============================================================================
