------------------------------ MODULE MCPoller ------------------------------
(* Instances of Poller for TLC: more items than slots.                     *)
EXTENDS Poller

=============================================================================
