----------------------------- MODULE MCRateLimit -----------------------------
(* Instances of RateLimit for TLC: a carrier with a limit of its own and   *)
(* one without, as CDEK and any unlisted carrier.                          *)
EXTENDS RateLimit

CONSTANTS cdek, other

MCCarrierLimit == [c \in Carriers |-> IF c = cdek THEN 2 ELSE 0]

=============================================================================
