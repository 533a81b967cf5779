------------------------- MODULE MCPortalLifecycle -------------------------
(***************************************************************************)
(* PortalLifecycle for TLC: one network, which accepts the device.         *)
(***************************************************************************)
EXTENDS PortalLifecycle

CONSTANT home
=============================================================================
