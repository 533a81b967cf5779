--------------------------- MODULE BoundedString ---------------------------
(***************************************************************************)
(* What typ::StaticString promises: a string of at most N letters.  A      *)
(* mutator takes the whole of its argument at the moment it begins, or,    *)
(* if that does not fit, does not begin; nothing changes as it returns.    *)
(***************************************************************************)
EXTENDS Naturals, Sequences

CONSTANTS N, Letters

VARIABLES
  value,  \* the text
  op      \* the mutator that runs

boundedVars == <<value, op>>

Init == value \in Seq(Letters) /\ Len(value) <= N /\ op = "none"

Assign ==
  /\ op = "none" /\ op' = "assign"
  /\ value' \in Seq(Letters) /\ Len(value') <= N

PushBack ==
  /\ op = "none" /\ op' = "append"
  /\ Len(value) < N
  /\ \E c \in Letters : value' = Append(value, c)

Return ==
  /\ op # "none" /\ op' = "none"
  /\ value' = value

Next == Assign \/ PushBack \/ Return

Spec == Init /\ [][Next]_boundedVars
=============================================================================
