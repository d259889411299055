------------------------------ MODULE Planner ------------------------------
(***************************************************************************)
(* When a tracking is looked at again: the delays that a planner with a    *)
(* given configuration may choose.  Durations are numbers of some unit of  *)
(* time, Second of which make a second; the random choice is a set.        *)
(***************************************************************************)
EXTENDS Integers

CONSTANTS
    Second,     \* units of time in a second
    Defaults    \* what stands in for a delay that is not configured

Config == [delivered : Int, inTransitMin : Int, inTransitMax : Int,
           unknown : Int, backoff : [1..4 -> Int]]

Minute == 60 * Second
Hour == 60 * Minute

(* The defaults of the program.                                            *)
DefaultPlannerConfig ==
    [delivered    |-> 365 * 24 * Hour,
     inTransitMin |-> Minute, inTransitMax |-> Minute, unknown |-> Minute,
     backoff      |-> <<5 * Minute, 15 * Minute, 30 * Minute, Hour>>]

(* Settings of the worker, in whole seconds; 0 or less leaves the default. *)
Settings == [inTransitMin : Int, inTransitMax : Int, unknown : Int,
             backoff : [1..4 -> Int]]

InSeconds(s) == IF s > 0 THEN s * Second ELSE 0

PlannerCfg(settings) ==
    [delivered    |-> 0,
     inTransitMin |-> InSeconds(settings.inTransitMin),
     inTransitMax |-> InSeconds(settings.inTransitMax),
     unknown      |-> InSeconds(settings.unknown),
     backoff      |-> [i \in 1..4 |-> InSeconds(settings.backoff[i])]]

OrDefault(d, default) == IF d <= 0 THEN default ELSE d

AtLeast(d, low) == IF d < low THEN low ELSE d

NewPlanner(cfg) ==
    LET min == OrDefault(cfg.inTransitMin, Defaults.inTransitMin)
        max == OrDefault(cfg.inTransitMax, Defaults.inTransitMax)
    IN  [delivered    |-> OrDefault(cfg.delivered, Defaults.delivered),
         inTransitMin |-> min,
         inTransitMax |-> AtLeast(max, min),
         unknown      |-> OrDefault(cfg.unknown, Defaults.unknown),
         backoff      |-> [i \in 1..4 |-> OrDefault(cfg.backoff[i], Defaults.backoff[i])]]

(* Different bounds are cut to whole seconds before one between is drawn.  *)
InTransitDelays(p) ==
    IF p.inTransitMax = p.inTransitMin
    THEN {p.inTransitMin}
    ELSE {s * Second : s \in (p.inTransitMin \div Second)..(p.inTransitMax \div Second)}

NextCheckDelays(p, status) ==
    IF status = "DELIVERED" THEN {p.delivered}
    ELSE IF status = "IN_TRANSIT" THEN InTransitDelays(p)
    ELSE {p.unknown}

BackoffDelay(p, nextFailCount) ==
    p.backoff[IF nextFailCount <= 1 THEN 1 ELSE IF nextFailCount <= 4 THEN nextFailCount ELSE 4]

=============================================================================
