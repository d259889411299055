------------------------------ MODULE Emulator ------------------------------
(***************************************************************************)
(* The endpoint /v1/tracking/{carrier}/{track_number} of carrier-emulator: *)
(* it counts the requests of a carrier per minute, keeps a scenario per    *)
(* track and moves it on now and then.  FastAPI runs the handler, a plain  *)
(* function, in a pool of threads; nothing is locked, so each access to a  *)
(* shared dictionary is a step of its own.                                 *)
(*                                                                         *)
(* A scenario is an object that threads hold by reference: a reset or a    *)
(* new seed replaces the dictionary's entry, not the object in use.  When  *)
(* a step is due (by time or by chance) is left open.  A request that      *)
(* fails at random before it touches anything is no step.                  *)
(***************************************************************************)
EXTENDS Naturals, Sequences, FiniteSets, SequencesExt

CONSTANTS
    Handlers,       \* threads of the pool
    Carriers,
    LimitPerMin,    \* limits by carrier; some carriers have none
    Tracks,         \* [carrier : Carriers, number : ...], the keys of tracks
    DefaultSteps    \* length of the scenario made up for an unknown track

CONSTANTS           \* bounds of the model, not of the program
    SeedSizes,      \* lengths of seeded scenarios
    MaxMinute,      \* the clock stops here
    MaxRequests,    \* requests served by each thread
    MaxAdmin        \* calls of seed-v1 and reset

ASSUME LimitsAssumption ==
    /\ DOMAIN LimitPerMin \subseteq Carriers
    /\ \A c \in DOMAIN LimitPerMin : LimitPerMin[c] \in Nat
ASSUME TracksAssumption ==
    /\ Tracks # {} /\ \A t \in Tracks : t.carrier \in Carriers
    /\ IsFiniteSet(Handlers)
ASSUME ScenariosAssumption == DefaultSteps \in Nat \ {0} /\ SeedSizes \subseteq Nat
ASSUME BoundsAssumption ==
    MaxMinute \in Nat /\ MaxRequests \in Nat /\ MaxAdmin \in Nat

VARIABLES
    minute,     \* the clock, in minutes
    counter,    \* REQ_COUNTERS: [Carriers -> [minutes -> count, 0 if absent]]
    state,      \* TRACK_STATE: [Tracks -> number of an object, 0 if absent]
    object,     \* the scenarios ever made, in use or not
    handler,    \* [Handlers -> the thread and its local variables]
    admin,      \* calls of seed-v1 and reset so far
    begun       \* [Carriers -> [minutes -> requests that began in it]]

environment == <<minute, admin, begun>>
vars == <<minute, counter, state, object, handler, admin, begun>>

Minutes == 0..MaxMinute
Scenario == [steps : Nat, index : Nat, events : Seq(Nat)]
Handler == [pc : {"idle", "counting", "writing", "comparing", "looking",
                  "creating", "stepping", "advancing", "recording", "closing",
                  "filling", "answered", "refused", "broken"},
            track : Tracks, minute : Minutes,
            seen : Nat,         \* the counter it read
            object : Nat,       \* st, a reference
            index : Nat,        \* idx
            calls : Nat]        \* requests so far

TypeOK ==
    /\ minute \in Minutes
    /\ counter \in [Carriers -> [Minutes -> Nat]]
    /\ state \in [Tracks -> 0..Len(object)]
    /\ object \in Seq(Scenario)
    /\ handler \in [Handlers -> Handler]
    /\ \A h \in Handlers : handler[h].object <= Len(object)
    /\ admin \in Nat
    /\ begun \in [Carriers -> [Minutes -> Nat]]

Init ==
    /\ minute = 0
    /\ counter = [c \in Carriers |-> [m \in Minutes |-> 0]]
    /\ state = [t \in Tracks |-> 0]
    /\ object = <<>>
    /\ handler = [h \in Handlers |->
                     [pc |-> "idle", track |-> CHOOSE t \in Tracks : TRUE, minute |-> 0,
                      seen |-> 0, object |-> 0, index |-> 0, calls |-> 0]]
    /\ admin = 0
    /\ begun = counter

-----------------------------------------------------------------------------
(* The environment: time and the administrator.                            *)

Tick ==
    /\ minute < MaxMinute
    /\ minute' = minute + 1
    /\ UNCHANGED <<counter, state, object, handler, admin, begun>>

(* Wrong: before its first step a scenario stands at -1.                   *)
NewScenarioBefore(n) == [steps |-> n, index |-> 0 - 1, events |-> <<>>]

NewScenario(n) == [steps |-> n, index |-> 0, events |-> <<>>]

SeedV1(t) ==
    /\ admin < MaxAdmin /\ admin' = admin + 1
    /\ \E n \in SeedSizes : object' = Append(object, NewScenario(n))
    /\ state' = [state EXCEPT ![t] = Len(object) + 1]
    /\ UNCHANGED <<minute, counter, handler, begun>>

Reset ==
    /\ admin < MaxAdmin /\ admin' = admin + 1
    /\ state' = [t \in Tracks |-> 0]
    /\ counter' = [c \in Carriers |-> [m \in Minutes |-> 0]]
    /\ UNCHANGED <<minute, object, handler, begun>>

-----------------------------------------------------------------------------
(* v1_tracking: the limit of the carrier.                                  *)

Idle(h) == handler[h].pc \in {"idle", "answered", "refused", "broken"}

(* A request that survived maybe_delay_and_fail: it reads the clock, and   *)
(* is counted if its carrier has a limit.                                  *)
Request(h) ==
    /\ Idle(h) /\ handler[h].calls < MaxRequests
    /\ \E t \in Tracks :
        /\ handler' = [handler EXCEPT ![h] =
               [pc |-> IF t.carrier \in DOMAIN LimitPerMin THEN "counting" ELSE "looking",
                track |-> t, minute |-> minute, seen |-> 0, object |-> 0,
                index |-> 0, calls |-> @.calls + 1]]
        /\ begun' = [begun EXCEPT ![t.carrier][minute] = @ + 1]
    /\ UNCHANGED <<minute, counter, state, object, admin>>

(* Wrong: the key names the hour only.                                     *)
MinuteKeyOfHour(m) == 0

MinuteKey(m) == m

CountOf(h) == counter[handler[h].track.carrier][MinuteKey(handler[h].minute)]

ReadCounter(h) ==
    /\ handler[h].pc = "counting"
    /\ handler' = [handler EXCEPT ![h].pc = "writing", ![h].seen = CountOf(h)]
    /\ UNCHANGED <<environment, counter, state, object>>

WriteCounter(h) ==
    /\ handler[h].pc = "writing"
    /\ counter' = [counter EXCEPT
           ![handler[h].track.carrier][MinuteKey(handler[h].minute)] = handler[h].seen + 1]
    /\ handler' = [handler EXCEPT ![h].pc = "comparing"]
    /\ UNCHANGED <<environment, state, object>>

(* The counter is read again; after a reset it is gone (KeyError, 500).    *)
CompareCounter(h) ==
    /\ handler[h].pc = "comparing"
    /\ handler' = [handler EXCEPT ![h].pc =
           IF CountOf(h) = 0 THEN "broken"
           ELSE IF CountOf(h) > LimitPerMin[handler[h].track.carrier] THEN "refused"
           ELSE "looking"]
    /\ UNCHANGED <<environment, counter, state, object>>

-----------------------------------------------------------------------------
(* v1_tracking: the scenario of the track.                                 *)

GetState(h) ==
    /\ handler[h].pc = "looking"
    /\ LET o == state[handler[h].track] IN
       handler' = [handler EXCEPT ![h].object = o,
                      ![h].pc = IF o = 0 THEN "creating" ELSE "stepping"]
    /\ UNCHANGED <<environment, counter, state, object>>

CreateState(h) ==
    /\ handler[h].pc = "creating"
    /\ object' = Append(object, NewScenario(DefaultSteps))
    /\ state' = [state EXCEPT ![handler[h].track] = Len(object) + 1]
    /\ handler' = [handler EXCEPT ![h].object = Len(object) + 1, ![h].pc = "stepping"]
    /\ UNCHANGED <<environment, counter>>

Scene(h) == object[handler[h].object]

(* idx := st["step_index"]; if there is a next step it may be due.         *)
ReadStep(h) ==
    /\ handler[h].pc = "stepping"
    /\ \E pc \in {"closing"} \cup
                 (IF Scene(h).index + 1 < Scene(h).steps THEN {"advancing"} ELSE {}) :
           handler' = [handler EXCEPT ![h].pc = pc, ![h].index = Scene(h).index]
    /\ UNCHANGED <<environment, counter, state, object>>

(* Wrong: st["step_index"] += 1, which another thread may have moved.      *)
NextStepInPlace(h) == Scene(h).index + 1

NextStep(h) == handler[h].index + 1

WriteStep(h) ==
    /\ handler[h].pc = "advancing"
    /\ object' = [object EXCEPT ![handler[h].object].index = NextStep(h)]
    /\ handler' = [handler EXCEPT ![h].index = NextStep(h), ![h].pc = "recording"]
    /\ UNCHANGED <<environment, counter, state>>

(* Wrong: the event is that of st["step_index"], not of this thread's step. *)
StepOfScenario(h) == Scene(h).index

StepReached(h) == handler[h].index

AppendEvent(h) ==
    object' = [object EXCEPT ![handler[h].object].events = Append(@, StepReached(h))]

RecordStep(h) ==
    /\ handler[h].pc = "recording" /\ AppendEvent(h)
    /\ handler' = [handler EXCEPT ![h].pc = "closing"]
    /\ UNCHANGED <<environment, counter, state>>

NothingRecorded(h) == Scene(h).events = <<>>

(* steps[idx] fails for a scenario seeded without steps (IndexError, 500). *)
CheckHistory(h) ==
    /\ handler[h].pc = "closing"
    /\ handler' = [handler EXCEPT ![h].pc =
           IF Scene(h).steps = 0 THEN "broken"
           ELSE IF NothingRecorded(h) THEN "filling" ELSE "answered"]
    /\ UNCHANGED <<environment, counter, state, object>>

FillHistory(h) ==
    /\ handler[h].pc = "filling" /\ AppendEvent(h)
    /\ handler' = [handler EXCEPT ![h].pc = "answered"]
    /\ UNCHANGED <<environment, counter, state>>

Next ==
    \/ Tick \/ Reset
    \/ \E t \in Tracks : SeedV1(t)
    \/ \E h \in Handlers :
        \/ Request(h)
        \/ ReadCounter(h) \/ WriteCounter(h) \/ CompareCounter(h)
        \/ GetState(h) \/ CreateState(h)
        \/ ReadStep(h) \/ WriteStep(h) \/ RecordStep(h)
        \/ CheckHistory(h) \/ FillHistory(h)

Spec == Init /\ [][Next]_vars

-----------------------------------------------------------------------------
(* Properties.                                                             *)

(* A request is refused only in a minute in which more requests than the   *)
(* limit began: lost increments, late threads and resets may let more      *)
(* through, never fewer (app.py:150-157).                                  *)
RefusedOnlyOverLimit ==
    \A h \in Handlers :
        handler[h].pc = "refused" =>
            begun[handler[h].track.carrier][handler[h].minute]
                > LimitPerMin[handler[h].track.carrier]

(* No interleaving takes a scenario past its last step, which would make   *)
(* every later request fail (app.py:219-242).                              *)
StepWithinScenario ==
    \A o \in DOMAIN object :
        object[o].index > 0 => object[o].index < object[o].steps

(* Every step a scenario has reached is in its history, or a thread is     *)
(* about to record it (app.py:226-240).                                    *)
HistoryHasNoGaps ==
    \A o \in DOMAIN object : \A k \in 1..object[o].index :
        \/ k \in ToSet(object[o].events)
        \/ \E h \in Handlers :
               handler[h].pc = "recording" /\ handler[h].object = o /\ handler[h].index = k

=============================================================================
