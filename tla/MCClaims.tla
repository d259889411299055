------------------------------- MODULE MCClaims -------------------------------
(* An instance of Claims for TLC.                                          *)
EXTENDS Claims

=============================================================================
