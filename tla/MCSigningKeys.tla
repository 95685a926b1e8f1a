---------------------------- MODULE MCSigningKeys ----------------------------
(* Finite instances of SigningKeys for TLC.                                 *)
EXTENDS SigningKeys
=============================================================================
