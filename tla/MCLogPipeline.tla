--------------------------- MODULE MCLogPipeline ---------------------------
(***************************************************************************)
(* LogPipeline for TLC: the shared queue (1), which every task uses, and   *)
(* the queue of one task (2), small enough to run full.                    *)
(***************************************************************************)
EXTENDS LogPipeline

CONSTANTS led, wifi, printer

SmallRoom == [q \in 1 .. 2 |-> IF q = 1 THEN 2 ELSE 1]
LedOwnsOne == [t \in {led, wifi, printer} |-> IF t = led THEN {1, 2} ELSE {1}]
=============================================================================
