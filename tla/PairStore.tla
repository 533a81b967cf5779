----------------------------- MODULE PairStore -----------------------------
(***************************************************************************)
(* What glob::Credentials promises to the tasks that use it, with no       *)
(* string, key or caller in sight: SSID and password are one value, which  *)
(* a call replaces as a whole, in memory and then in flash; the station is *)
(* told a pair only when both hold it; a restart brings back what flash    *)
(* holds.  A pair that lacks one of the two counts as none (NoCreds).      *)
(*                                                                         *)
(* The promise has an end: when calls overlap, or power is lost at the one *)
(* moment that splits a pair, nothing is said of the pairs until a call    *)
(* has run alone.                                                          *)
(***************************************************************************)
CONSTANTS
  Credentials,  \* the pairs that count
  NoCreds       \* none

VARIABLES
  wanted,  \* what the last call asked for
  creds,   \* in memory
  kept,    \* in flash
  tried,   \* the station was told this pair
  sound    \* the promise holds

pairVars == <<wanted, creds, kept, tried, sound>>

All == Credentials \cup {NoCreds}
Done == creds = wanted /\ kept = wanted

Init ==
  /\ wanted \in All /\ Done
  /\ tried = NoCreds /\ sound = TRUE

\* save(c), or clear() if c is NoCreds, with as much of it as is done at once.
Ask(c) ==
  /\ sound /\ Done
  /\ wanted' = c /\ creds' \in {creds, c} /\ kept' \in {kept, creds'}
  /\ UNCHANGED <<tried, sound>>

Use == sound /\ creds' = wanted /\ UNCHANGED <<wanted, kept, tried, sound>>

Keep ==
  /\ sound /\ creds = wanted
  /\ kept' = creds
  /\ UNCHANGED <<wanted, creds, tried, sound>>

\* WiFi.begin(ssid, password), and WiFi.disconnect.
Try == sound /\ Done /\ tried' = creds /\ UNCHANGED <<wanted, creds, kept, sound>>
Forget == sound /\ tried' = NoCreds /\ UNCHANGED <<wanted, creds, kept, sound>>

Restart ==
  /\ sound
  /\ wanted' = kept /\ creds' = kept /\ tried' = NoCreds
  /\ UNCHANGED <<kept, sound>>

\* The promise is broken, or was and is not restored yet.
Mar == sound' = FALSE /\ wanted' \in All /\ creds' \in All /\ kept' \in All /\ tried' \in All

\* A call that ran alone is over.
Mend ==
  /\ ~sound /\ sound' = TRUE
  /\ creds' = wanted /\ kept' = wanted
  /\ UNCHANGED <<wanted, tried>>

Next == Use \/ Keep \/ Try \/ Forget \/ Restart \/ Mar \/ Mend \/ \E c \in All : Ask(c)

Spec == Init /\ [][Next]_pairVars
=============================================================================
