----------------------------- MODULE MCEmulator -----------------------------
(* Instances of Emulator for TLC: one track of a carrier with a limit and  *)
(* one of a carrier without.                                               *)
EXTENDS Emulator, TLC

CONSTANTS cdek, other

MCLimitPerMin == cdek :> 1
MCTracks == {[carrier |-> c, number |-> 1] : c \in {cdek, other}}
Interchangeable == Permutations(Handlers)

=============================================================================
