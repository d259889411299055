------------------------------- MODULE Lifecycle -------------------------------
(***************************************************************************)
(* What TrackBox promises of a tracking, without workers, leases, messages *)
(* or offsets: the carrier announces one event after another; now and then *)
(* the system learns, in one step, a prefix of what has been announced,    *)
(* shows the last of it as the status, and keeps all of it as the history. *)
(***************************************************************************)
EXTENDS Naturals

CONSTANTS
    Trackings,
    MaxStep      \* the event that means DELIVERED, the last one

VARIABLES
    announced,   \* [Trackings -> events the carrier has announced]
    status,      \* [Trackings -> the event shown as current, 0: none yet]
    history      \* [Trackings -> the events stored]

lifecycleVars == <<announced, status, history>>

Init ==
    /\ announced = [t \in Trackings |-> 1]
    /\ status = [t \in Trackings |-> 0]
    /\ history = [t \in Trackings |-> {}]

Announce(t) ==
    /\ announced[t] < MaxStep
    /\ announced' = [announced EXCEPT ![t] = @ + 1]
    /\ UNCHANGED <<status, history>>

(* Never more than was announced, never less than was known.               *)
Learn(t) ==
    \E n \in status[t]..announced[t] :
        /\ status' = [status EXCEPT ![t] = n]
        /\ history' = [history EXCEPT ![t] = @ \cup 1..n]
        /\ UNCHANGED announced

Next == \E t \in Trackings : Announce(t) \/ Learn(t)

Spec == Init /\ [][Next]_lifecycleVars

=============================================================================
