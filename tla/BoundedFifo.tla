---------------------------- MODULE BoundedFifo ----------------------------
(***************************************************************************)
(* What typ::SpscQueue promises to its two clients, with no index, slot or *)
(* thread in sight: a first-in first-out queue of at most N messages.  A   *)
(* push either enqueues the whole message or, when the queue is full,      *)
(* rejects it at once; a pop hands over the oldest message.  Neither call  *)
(* ever waits.                                                             *)
(***************************************************************************)
EXTENDS Naturals, Sequences

CONSTANTS N,     \* usable capacity
          Msgs   \* the messages

VARIABLES q,          \* the queued messages, oldest first
          delivered,  \* every message pop has handed over, in order
          rejected    \* how many pushes were refused

fifoVars == <<q, delivered, rejected>>

Init == /\ q = << >>
        /\ delivered = << >>
        /\ rejected = 0

Push(m) == /\ Len(q) < N
           /\ q' = Append(q, m)
           /\ UNCHANGED <<delivered, rejected>>

\* A push may be refused only while the queue holds N messages.
Reject == /\ Len(q) = N
          /\ rejected' = rejected + 1
          /\ UNCHANGED <<q, delivered>>

Pop == /\ q # << >>
       /\ delivered' = Append(delivered, Head(q))
       /\ q' = Tail(q)
       /\ UNCHANGED rejected

Next == \/ \E m \in Msgs : Push(m)
        \/ Reject
        \/ Pop

Spec == Init /\ [][Next]_fifoVars
=============================================================================
