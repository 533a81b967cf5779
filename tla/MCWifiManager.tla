--------------------------- MODULE MCWifiManager ---------------------------
(***************************************************************************)
(* WifiManager for TLC: a network that accepts the device, one that does   *)
(* not, and one that needs no password.                                    *)
(***************************************************************************)
EXTENDS WifiManager

CONSTANTS home, wrong, cafe
=============================================================================
