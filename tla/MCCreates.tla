------------------------------ MODULE MCCreates ------------------------------
(* An instance of Creates for TLC: three pairs, two of which the service   *)
(* cannot tell apart ("x" with "y|z", and "x|y" with "z").                 *)
EXTENDS Creates

CONSTANTS a, b, c, bad

MCKeyOf == [p \in Pairs \cup {bad} |-> IF p = c THEN b ELSE p]
MCBatches == {<<a, b>>, <<b, a>>, <<c, a, a>>, <<b, c>>, <<>>, <<a, bad>>,
              <<a, b, c, a>>}

=============================================================================
