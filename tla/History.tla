-------------------------------- MODULE History --------------------------------
(***************************************************************************)
(* How the history of one tracking comes about and is read: the emulator   *)
(* shows more and more steps, every check brings all of them again, the    *)
(* unique key of tracking_events keeps one copy of each, and clients of    *)
(* the API read the result page by page while it grows.                    *)
(*                                                                         *)
(* The emulator answers with what it knows for the configured client, in   *)
(* threads without locks: a request reads its clock, and then one access   *)
(* to what threads share is one step.  The limits, seeds and scenarios     *)
(* without steps of the endpoint v1 are left to Emulator.  A check that    *)
(* fails before it reaches the emulator changes nothing of this, and one   *)
(* whose answer is lost goes no further (UpdatePipeline has both).         *)
(***************************************************************************)
EXTENDS Carriers, FiniteSets

CONSTANTS
    Checks,        \* checks that may overlap
    Modes,         \* values of carrier_emulator_mode
    Seeds,         \* steps an operator may seed: sequences of texts
    DefaultSteps,  \* steps of a parcel that nobody seeded
    V1Steps,       \* [status, text] of the same on the endpoint v1
    StepSeconds,   \* seconds between steps
    Limits,        \* page sizes that clients ask for
    DefaultLimit, MaxLimit

CONSTANTS          \* bounds of the model
    MaxTime,       \* by client: the clock stops here
    MaxScenarios   \* scenarios made by seeds, first requests and restarts

Clients == {"v1", "track24", "fake"}

ASSUME HistoryAssumption ==
    /\ Modes \subseteq STRING /\ Limits \subseteq Int
    /\ DefaultSteps \in Seq(STRING) /\ Len(DefaultSteps) > 0
    /\ DefaultLimit \in Nat \ {0} /\ MaxLimit \in Nat \ {0}
    /\ StepSeconds \in Nat /\ MaxScenarios \in Nat
    /\ MaxTime \in [Clients -> Nat]

(* A check of a parcel that is seeded without steps fails.                 *)
ASSUME SeedsAssumption ==
    \A steps \in Seeds : steps \in Seq(STRING) /\ Len(steps) > 0

ASSUME V1Assumption ==
    /\ V1Steps \in Seq([status : STRING, text : STRING]) /\ Len(V1Steps) > 0
    /\ \A i \in 1..Len(V1Steps) :
          V1Steps[i].status \in {"", "UNKNOWN", "IN_TRANSIT", "DELIVERED"}

VARIABLES
    now,           \* the clock
    client,        \* the worker's client, by its configuration
    scenario,      \* the emulator's record of the parcel
    scenarios,     \* how many were made
    object,        \* those of v1, which threads hold by reference
    check,         \* [Checks -> where a check stands]
    status,        \* the row's status
    stored,        \* its rows in tracking_events
    reader         \* a client of ListTrackingEvents

checkVars == <<check, scenario, scenarios, object>>
rowVars   == <<status, stored>>
vars == <<now, client, checkVars, rowVars, reader>>

NoScenario == [made |-> FALSE]
Idle       == [pc |-> "idle"]
NotReading == [pc |-> "idle"]

(* A scenario of v1: the step it is at, and the events recorded so far.    *)
NewObject == [idx |-> 1, events |-> {}]

(* No event is newer than the clock.                                       *)
EventTimes == -(StepSeconds * Len(DefaultSteps))..now

TypeOK ==
    /\ client \in Clients /\ now \in 0..MaxTime[client]
    /\ scenarios \in 0..MaxScenarios
    /\ \A c \in Checks : check[c].pc \in
          {"idle", "looking", "making", "answered",
           "stepping", "advancing", "recording", "closing", "filling"}
    /\ \A o \in 1..MaxScenarios : object[o].idx \in 1..Len(V1Steps)
    /\ status \in {"UNKNOWN", "IN_TRANSIT", "DELIVERED"}
    /\ \A e \in stored : e.time \in EventTimes
    /\ reader.pc = "reading" => reader.missing \subseteq stored

Init ==
    /\ now = 0
    /\ client \in {ClientFor("url", mode) : mode \in Modes}
    /\ scenario = NoScenario /\ scenarios = 0
    /\ object = [o \in 1..MaxScenarios |-> NewObject]
    /\ check = [c \in Checks |-> Idle]
    /\ status = "UNKNOWN" /\ stored = {}
    /\ reader = NotReading

Tick ==
    /\ now < MaxTime[client]
    /\ now' = now + 1
    /\ UNCHANGED <<client, checkVars, rowVars, reader>>

-----------------------------------------------------------------------------
(* The emulator                                                            *)

Room == scenarios + Cardinality({c \in Checks : check[c].pc = "making"})
          < MaxScenarios

Made(s) ==
    /\ scenarios' = scenarios + 1
    /\ scenario' = s

(* Wrong: ten minutes in the future.                                       *)
DefaultAhead(at) == [made |-> TRUE, steps |-> DefaultSteps,
                     created |-> at + StepSeconds * Len(DefaultSteps)]

(* A parcel nobody seeded is ten minutes old.                              *)
Default(at) == [made |-> TRUE, steps |-> DefaultSteps,
                created |-> at - StepSeconds * Len(DefaultSteps)]

(* POST /v1/admin/seed                                                     *)
AdminSeed ==
    /\ client = "track24" /\ Room
    /\ \E steps \in Seeds :
          Made([made |-> TRUE, steps |-> steps, created |-> now])
    /\ UNCHANGED <<now, client, check, object, rowVars, reader>>

(* A restart, or POST /v1/admin/reset, forgets everything but the objects  *)
(* that threads hold.                                                      *)
EmulatorForgets ==
    /\ scenario.made
    /\ scenario' = NoScenario
    /\ UNCHANGED <<now, client, check, scenarios, object, rowVars, reader>>

Elapsed(s, at) == IF at > s.created THEN at - s.created ELSE 0

(* Wrong: the last step is never reached.                                  *)
CurrentStepIndexBeforeLast(s, at) ==
    LET reached == 1 + Elapsed(s, at) \div StepSeconds
    IN  IF StepSeconds <= 0 THEN 1
        ELSE IF reached < Len(s.steps) THEN reached ELSE Len(s.steps) - 1

CurrentStepIndex(s, at) ==
    LET reached == 1 + Elapsed(s, at) \div StepSeconds
    IN  IF StepSeconds <= 0 THEN 1
        ELSE IF reached < Len(s.steps) THEN reached ELSE Len(s.steps)

TimeOfStep(s, i) == s.created + StepSeconds * (i - 1)

Track24Answer(s, at) ==
    [code |-> 200, status |-> "ok",
     operations |-> [i \in 1..CurrentStepIndex(s, at) |->
                       [text |-> s.steps[i], dated |-> TRUE,
                        time |-> TimeOfStep(s, i)]]]

-----------------------------------------------------------------------------
(* Checks                                                                  *)

CanCheck(c) == check[c].pc = "idle" /\ status # "DELIVERED"

Moves(c, x) == check' = [check EXCEPT ![c] = x]

Answered(c, result) == Moves(c, [pc |-> "answered", result |-> result])

CheckFake(c) ==
    /\ CanCheck(c) /\ client = "fake"
    /\ \E delivers \in BOOLEAN : Answered(c, FakeResult(delivers, now))
    /\ UNCHANGED <<now, client, scenario, scenarios, object, rowVars, reader>>

(* A request reaches the emulator; its thread reads the clock.             *)
Ask(c) ==
    /\ CanCheck(c) /\ client # "fake"
    /\ Moves(c, [pc |-> "looking", at |-> now])
    /\ UNCHANGED <<now, client, scenario, scenarios, object, rowVars, reader>>

(* There is no scenario: between looking for one and putting the default   *)
(* there another thread may have made its own.                             *)
MissScenario(c) ==
    /\ check[c].pc = "looking" /\ ~scenario.made /\ Room
    /\ Moves(c, [check[c] EXCEPT !.pc = "making"])
    /\ UNCHANGED <<now, client, scenario, scenarios, object, rowVars, reader>>

(* track24_tracking with a scenario at hand ...                            *)
CheckTrack24(c) ==
    /\ check[c].pc = "looking" /\ client = "track24" /\ scenario.made
    /\ Answered(c, Track24Result(Track24Answer(scenario, check[c].at), now))
    /\ UNCHANGED <<now, client, scenario, scenarios, object, rowVars, reader>>

(* ... and without.                                                        *)
MakeDefault(c) ==
    /\ check[c].pc = "making" /\ client = "track24"
    /\ LET s == Default(check[c].at)
       IN  /\ Made(s)
           /\ Answered(c, Track24Result(Track24Answer(s, check[c].at), now))
    /\ UNCHANGED <<now, client, object, rowVars, reader>>

-----------------------------------------------------------------------------
(* v1_tracking: a thread with its clock, its object and its step.          *)

V1Thread(pc, at, o, i) == [pc |-> pc, at |-> at, object |-> o, idx |-> i]

Object(c) == object[check[c].object]

FindV1(c) ==
    /\ check[c].pc = "looking" /\ client = "v1" /\ scenario.made
    /\ Moves(c, V1Thread("stepping", check[c].at, scenario.object, 1))
    /\ UNCHANGED <<now, client, scenario, scenarios, object, rowVars, reader>>

MakeV1(c) ==
    /\ check[c].pc = "making" /\ client = "v1"
    /\ Made([made |-> TRUE, object |-> scenarios + 1])
    /\ Moves(c, V1Thread("stepping", check[c].at, scenarios + 1, 1))
    /\ UNCHANGED <<now, client, object, rowVars, reader>>

(* The next step, if there is one, may be due by its timer or by chance.   *)
ReadStep(c) ==
    /\ check[c].pc = "stepping"
    /\ \E pc \in {"closing"} \cup
                 (IF Object(c).idx < Len(V1Steps) THEN {"advancing"} ELSE {}) :
          Moves(c, V1Thread(pc, check[c].at, check[c].object, Object(c).idx))
    /\ UNCHANGED <<now, client, scenario, scenarios, object, rowVars, reader>>

WriteStep(c) ==
    /\ check[c].pc = "advancing"
    /\ LET i == check[c].idx + 1
       IN  /\ object' = [object EXCEPT ![check[c].object].idx = i]
           /\ Moves(c, V1Thread("recording", check[c].at, check[c].object, i))
    /\ UNCHANGED <<now, client, scenario, scenarios, rowVars, reader>>

FindNothing(c) ==
    /\ check[c].pc = "closing" /\ Object(c).events = {}
    /\ Moves(c, [check[c] EXCEPT !.pc = "filling"])
    /\ UNCHANGED <<now, client, scenario, scenarios, object, rowVars, reader>>

V1Event(c) == [step |-> V1Steps[check[c].idx].text, time |-> check[c].at]

(* Of the step this thread has moved to, or of the one it found.           *)
RecordEvent(c) ==
    /\ check[c].pc \in {"recording", "filling"}
    /\ object' = [object EXCEPT ![check[c].object].events =
                     Object(c).events \cup {V1Event(c)}]
    /\ Moves(c, [check[c] EXCEPT !.pc = "closing"])
    /\ UNCHANGED <<now, client, scenario, scenarios, rowVars, reader>>

(* Of the object as it is when the answer is written.                      *)
V1Answer(c) ==
    [code |-> 200, status |-> V1Steps[check[c].idx].status, events |-> Object(c).events]

AnswerV1(c) ==
    /\ check[c].pc = "closing" /\ Object(c).events # {}
    /\ Answered(c, V1Result(V1Answer(c)))
    /\ UNCHANGED <<now, client, scenario, scenarios, object, rowVars, reader>>

-----------------------------------------------------------------------------

(* The update is applied: overlapping ones in any order.                   *)
Apply(c) ==
    /\ check[c].pc = "answered"
    /\ status' = check[c].result.status
    /\ stored' = stored \cup check[c].result.events
    /\ Moves(c, Idle)
    /\ UNCHANGED <<now, client, scenario, scenarios, object, reader>>

-----------------------------------------------------------------------------
(* ListTrackingEvents                                                      *)

EffectiveLimit(limit) ==
    IF limit <= 0 \/ limit > MaxLimit THEN DefaultLimit ELSE limit

NoneLater(S, T) == \A e \in S, f \in T : f.time <= e.time

(* Wrong: no ORDER BY.                                                     *)
PagesUnordered(S, limit, offset) ==
    {P \in SUBSET S :
        \E A \in SUBSET (S \ P) :
           /\ Cardinality(A) = IF offset < Cardinality(S) THEN offset ELSE Cardinality(S)
           /\ \/ Cardinality(P) = limit
              \/ Cardinality(P) < limit /\ A \cup P = S}

(* ORDER BY event_time DESC LIMIT limit OFFSET offset: A comes before the  *)
(* page, and among equal times any order is as good.                       *)
Pages(S, limit, offset) ==
    {P \in SUBSET S :
        \E A \in SUBSET (S \ P) :
           /\ Cardinality(A) = IF offset < Cardinality(S) THEN offset ELSE Cardinality(S)
           /\ \/ Cardinality(P) = limit
              \/ Cardinality(P) < limit /\ A \cup P = S
           /\ NoneLater(A, P) /\ NoneLater(A \cup P, S \ (A \cup P))}

StartReading(limit) ==
    /\ reader.pc # "reading"
    /\ reader' = [pc |-> "reading", limit |-> EffectiveLimit(limit),
                  offset |-> 0, missing |-> stored]
    /\ UNCHANGED <<now, client, checkVars, rowVars>>

(* The client goes on by as many as it got, until it gets none.            *)
ReadPage ==
    /\ reader.pc = "reading"
    /\ \E page \in Pages(stored, reader.limit, reader.offset) :
          reader' = IF page = {}
                    THEN [pc |-> "done", missing |-> reader.missing]
                    ELSE [reader EXCEPT !.offset = @ + Cardinality(page),
                                        !.missing = @ \ page]
    /\ UNCHANGED <<now, client, checkVars, rowVars>>

-----------------------------------------------------------------------------

CheckStep(c) ==
    \/ CheckFake(c) \/ Ask(c) \/ MissScenario(c)
    \/ CheckTrack24(c) \/ MakeDefault(c)
    \/ FindV1(c) \/ MakeV1(c) \/ ReadStep(c) \/ WriteStep(c)
    \/ FindNothing(c) \/ RecordEvent(c) \/ AnswerV1(c)
    \/ Apply(c)

Next ==
    \/ Tick \/ AdminSeed \/ EmulatorForgets
    \/ \E c \in Checks : CheckStep(c)
    \/ \E limit \in Limits : StartReading(limit)
    \/ ReadPage

Spec == Init /\ [][Next]_vars

(* Time passes and checks are repeated.                                    *)
FairSpec == Spec /\ WF_vars(Tick) /\ \A c \in Checks : WF_vars(CheckStep(c))

-----------------------------------------------------------------------------

(* Every check brings the whole history again, checks overlap, and the     *)
(* Track24 answer has no ids that are kept: still a step is stored once    *)
(* for each time the emulator began to tell the story, because its time    *)
(* does not depend on when it is asked.  That cannot be said of v1, where  *)
(* overlapping threads may each record a step, with a time of their own.   *)
StepsStoredOnce ==
    client = "track24" =>
       \A e \in stored :
          Cardinality({f \in stored : f.step = e.step}) <= scenarios

(* A client that reads page after page while checks add events misses none *)
(* of those that were there when it began, except that of two events with  *)
(* one time it may get one twice instead of both: ORDER BY event_time      *)
(* alone does not tell them apart.                                         *)
SkippedOnlyAmongTies ==
    reader.pc = "done" =>
       \A e \in reader.missing : \E f \in stored \ {e} : f.time = e.time

(* The history catches up with the emulator again and again: what          *)
(* Track24 shows by its clock is stored, unless a text that sounds like    *)
(* delivery (even of a step before the last) has ended the checks.         *)
HistoryCatchesUp ==
    []<>(client = "track24" /\ scenario.made /\ status # "DELIVERED"
           => \A i \in 1..Len(scenario.steps) :
                 TimeOfStep(scenario, i) <= now
                   => [step |-> scenario.steps[i],
                       time |-> TimeOfStep(scenario, i)] \in stored)

=============================================================================
