---------------------------- MODULE MCStatusCache ----------------------------
(* Instances of StatusCache for TLC.                                       *)
EXTENDS StatusCache

CONSTANTS i1, i2

MCUpdatesOfTwo == <<i1, i2, i1>>

=============================================================================
