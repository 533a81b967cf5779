---------------------------- MODULE MCLedBlink ----------------------------
(***************************************************************************)
(* LedBlink for TLC: a pattern of even periods and one of uneven ones, as  *)
(* HEART_BEAT and IDLE are.                                                *)
(***************************************************************************)
EXTENDS LedBlink

MCPatterns == {"HEART_BEAT", "IDLE"}

MCOffOn == [p \in MCPatterns |-> IF p = "HEART_BEAT" THEN <<2, 2>> ELSE <<1, 5>>]
=============================================================================
