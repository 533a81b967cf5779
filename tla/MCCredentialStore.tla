------------------------- MODULE MCCredentialStore -------------------------
(***************************************************************************)
(* CredentialStore for TLC.  Names and passwords are only copied and       *)
(* compared with the empty string.                                         *)
(***************************************************************************)
EXTENDS CredentialStore, TLC

Symmetry == Permutations(Names) \cup Permutations(Passwords)
=============================================================================
