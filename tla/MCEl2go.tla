------------------------------ MODULE MCEl2go -------------------------------
(* El2go for TLC; it has no constants.                                     *)
EXTENDS El2go
=============================================================================
