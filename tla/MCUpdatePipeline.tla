-------------------------- MODULE MCUpdatePipeline --------------------------
(* Instances of UpdatePipeline for TLC: the delays of a small clock.       *)
EXTENDS UpdatePipeline, TLC

(* The planner's delays in a unit in which the shortest is one.            *)
P == INSTANCE Planner WITH
       Second <- 1,
       Defaults <- [delivered |-> 9, inTransitMin |-> 1, inTransitMax |-> 1,
                    unknown |-> 1, backoff |-> <<1, 1, 2, 2>>]
MCPlanner ==
    P!NewPlanner(P!PlannerCfg([inTransitMin |-> 0, inTransitMax |-> 2, unknown |-> 0,
                               backoff |-> <<0, 0, 0, 0>>]))
MCRecheckDelays ==
    P!NextCheckDelays(MCPlanner, "UNKNOWN") \cup P!NextCheckDelays(MCPlanner, "IN_TRANSIT")
MCBackoff == [i \in 1..4 |-> P!BackoffDelay(MCPlanner, i)]
Interchangeable == Permutations(Workers) \cup Permutations(Partitions)
                     \cup Permutations(Trackings)

=============================================================================
