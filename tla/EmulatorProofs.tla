---------------------------- MODULE EmulatorProofs ----------------------------
(* Proofs about Emulator, for every number of threads, tracks and steps.   *)
EXTENDS Emulator, FiniteSetTheorems, SequenceTheorems, TLAPS

-----------------------------------------------------------------------------
(* Types                                                                   *)

(* What a thread relies on at each line of the handler.                    *)
Fits(n) ==
    /\ n.pc \in {"stepping", "advancing", "recording", "closing", "filling"} =>
          n.object # 0
    /\ n.pc \in {"counting", "writing", "comparing", "refused"} =>
          n.track.carrier \in DOMAIN LimitPerMin

TypeInv == TypeOK /\ \A h \in Handlers : Fits(handler[h])

LEMMA ScenarioFields ==
    ASSUME NEW s \in Scenario
    PROVE  /\ s.steps \in Nat /\ s.index \in Nat /\ s.events \in Seq(Nat)
           /\ \A i \in Nat : /\ [s EXCEPT !.index = i] \in Scenario
                             /\ [s EXCEPT !.index = i].index = i
                             /\ [s EXCEPT !.index = i].steps = s.steps
                             /\ [s EXCEPT !.index = i].events = s.events
           /\ \A e \in Seq(Nat) : /\ [s EXCEPT !.events = e] \in Scenario
                                  /\ [s EXCEPT !.events = e].events = e
                                  /\ [s EXCEPT !.events = e].steps = s.steps
                                  /\ [s EXCEPT !.events = e].index = s.index
BY DEF Scenario

LEMMA NewScenarioType ==
    ASSUME NEW n \in Nat
    PROVE  /\ NewScenario(n) \in Scenario /\ NewScenario(n).index = 0
           /\ NewScenario(n).events = <<>>
BY DEF NewScenario, Scenario

(* A scenario replaces the o-th one, or is added to them.                  *)
LEMMA Replaced ==
    ASSUME NEW s \in Seq(Scenario), NEW o \in 1..Len(s), NEW x \in Scenario
    PROVE  /\ [s EXCEPT ![o] = x] \in Seq(Scenario)
           /\ Len([s EXCEPT ![o] = x]) = Len(s)
           /\ \A p \in 1..Len(s) :
                 [s EXCEPT ![o] = x][p] = IF p = o THEN x ELSE s[p]
BY ExceptSeq

LEMMA Added ==
    ASSUME NEW s \in Seq(Scenario), NEW x \in Scenario
    PROVE  /\ Append(s, x) \in Seq(Scenario)
           /\ Len(Append(s, x)) = Len(s) + 1
           /\ \A p \in 1..(Len(s) + 1) :
                 Append(s, x)[p] = IF p = Len(s) + 1 THEN x ELSE s[p]
BY AppendProperties

(* The fields of a thread's record.                                        *)
LEMMA ThreadFields ==
    ASSUME TypeInv, NEW h \in Handlers
    PROVE  /\ handler[h] \in Handler /\ Fits(handler[h])
           /\ handler[h].track \in Tracks /\ handler[h].track.carrier \in Carriers
           /\ handler[h].minute \in Minutes /\ handler[h].seen \in Nat
           /\ handler[h].object \in Nat /\ handler[h].object <= Len(object)
           /\ handler[h].index \in Nat /\ handler[h].calls \in Nat
BY TracksAssumption DEF TypeInv, TypeOK, Handler

(* The scenario a thread refers to.                                        *)
LEMMA SceneType ==
    ASSUME TypeInv, NEW h \in Handlers, handler[h].object # 0
    PROVE  /\ handler[h].object \in DOMAIN object
           /\ handler[h].object \in 1..Len(object)
           /\ Scene(h) = object[handler[h].object]
           /\ Scene(h) \in Scenario
<1>1. object \in Seq(Scenario) /\ Len(object) \in Nat
  BY DEF TypeInv, TypeOK
<1>2. handler[h].object \in 1..Len(object)
  BY <1>1, ThreadFields
<1>3. QED BY <1>1, <1>2 DEF Scene

-----------------------------------------------------------------------------
(* What each line of the handler does to the thread that runs it.          *)

(* Only thread h moves.                                                    *)
Moves(h) ==
    /\ handler' \in [Handlers -> Handler]
    /\ \A k \in Handlers \ {h} : handler'[k] = handler[k]

(* It goes on to pc with the same request.                                 *)
GoesTo(h, pc) ==
    /\ Moves(h)
    /\ handler'[h].pc = pc
    /\ handler'[h].track = handler[h].track
    /\ handler'[h].minute = handler[h].minute

LEMMA MoveRecord ==
    ASSUME TypeInv, NEW h \in Handlers, NEW n \in Handler,
           handler' = [handler EXCEPT ![h] = n]
    PROVE  Moves(h) /\ handler'[h] = n
BY DEF TypeInv, TypeOK, Moves

LEMMA CountType ==
    ASSUME TypeInv, NEW h \in Handlers
    PROVE  /\ CountOf(h) = counter[handler[h].track.carrier][handler[h].minute]
           /\ CountOf(h) \in Nat
BY ThreadFields DEF TypeInv, TypeOK, CountOf, MinuteKey

LEMMA RequestStep ==
    ASSUME TypeInv, NEW h \in Handlers, Request(h)
    PROVE  /\ handler[h].pc \in {"idle", "answered", "refused", "broken"}
           /\ Moves(h) /\ handler'[h].minute = minute /\ handler'[h].object = 0
           /\ handler'[h].pc =
                 IF handler'[h].track.carrier \in DOMAIN LimitPerMin
                 THEN "counting" ELSE "looking"
           /\ begun' = [begun EXCEPT ![handler'[h].track.carrier][minute] = @ + 1]
           /\ UNCHANGED <<minute, counter, state, object, admin>>
<1>1. PICK t \in Tracks :
        /\ handler' = [handler EXCEPT ![h] =
               [pc |-> IF t.carrier \in DOMAIN LimitPerMin THEN "counting" ELSE "looking",
                track |-> t, minute |-> minute, seen |-> 0, object |-> 0,
                index |-> 0, calls |-> handler[h].calls + 1]]
        /\ begun' = [begun EXCEPT ![t.carrier][minute] = @ + 1]
  BY DEF Request
<1> DEFINE pc == IF t.carrier \in DOMAIN LimitPerMin THEN "counting" ELSE "looking"
           n == [pc |-> pc, track |-> t, minute |-> minute, seen |-> 0, object |-> 0,
                 index |-> 0, calls |-> handler[h].calls + 1]
<1>2. n \in Handler
  <2>1. minute \in Minutes /\ handler[h].calls + 1 \in Nat
    BY ThreadFields DEF TypeInv, TypeOK
  <2>2. QED BY <2>1 DEF Handler
<1>3. /\ n.pc = pc /\ n.track = t /\ n.minute = minute /\ n.object = 0
      /\ handler' = [handler EXCEPT ![h] = n]
  BY <1>1
<1> HIDE DEF n
<1>4. Moves(h) /\ handler'[h] = n
  BY <1>2, <1>3, MoveRecord
<1>5. /\ handler[h].pc \in {"idle", "answered", "refused", "broken"}
      /\ UNCHANGED <<minute, counter, state, object, admin>>
  BY DEF Request, Idle
<1>6. QED BY <1>1, <1>3, <1>4, <1>5

LEMMA ReadCounterStep ==
    ASSUME TypeInv, NEW h \in Handlers, ReadCounter(h)
    PROVE  /\ handler[h].pc = "counting" /\ GoesTo(h, "writing")
           /\ handler'[h].object = handler[h].object
           /\ handler'[h].seen = counter[handler[h].track.carrier][handler[h].minute]
           /\ UNCHANGED <<minute, admin, begun, counter, state, object>>
<1> DEFINE n == [handler[h] EXCEPT !.pc = "writing", !.seen = CountOf(h)]
<1>1. handler' = [handler EXCEPT ![h] = n]
  BY ThreadFields DEF ReadCounter, TypeInv, TypeOK
<1>2. /\ n \in Handler /\ n.pc = "writing" /\ n.track = handler[h].track
      /\ n.minute = handler[h].minute /\ n.object = handler[h].object
      /\ n.seen = CountOf(h)
  BY ThreadFields, CountType DEF Handler
<1> HIDE DEF n
<1>3. Moves(h) /\ handler'[h] = n
  BY <1>1, <1>2, MoveRecord
<1>4. handler[h].pc = "counting" /\ UNCHANGED <<minute, admin, begun, counter, state, object>>
  BY DEF ReadCounter, environment
<1>5. QED BY <1>2, <1>3, <1>4, CountType DEF GoesTo

LEMMA WriteCounterStep ==
    ASSUME TypeInv, NEW h \in Handlers, WriteCounter(h)
    PROVE  /\ handler[h].pc = "writing" /\ GoesTo(h, "comparing")
           /\ handler'[h].object = handler[h].object
           /\ counter' = [counter EXCEPT
                 ![handler[h].track.carrier][handler[h].minute] = handler[h].seen + 1]
           /\ UNCHANGED <<minute, admin, begun, state, object>>
<1> DEFINE n == [handler[h] EXCEPT !.pc = "comparing"]
<1>1. handler' = [handler EXCEPT ![h] = n]
  BY ThreadFields DEF WriteCounter, TypeInv, TypeOK
<1>2. /\ n \in Handler /\ n.pc = "comparing" /\ n.track = handler[h].track
      /\ n.minute = handler[h].minute /\ n.object = handler[h].object
  BY ThreadFields DEF Handler
<1> HIDE DEF n
<1>3. Moves(h) /\ handler'[h] = n
  BY <1>1, <1>2, MoveRecord
<1>4. /\ handler[h].pc = "writing" /\ UNCHANGED <<minute, admin, begun, state, object>>
      /\ counter' = [counter EXCEPT
            ![handler[h].track.carrier][handler[h].minute] = handler[h].seen + 1]
  BY DEF WriteCounter, environment, MinuteKey
<1>5. QED BY <1>2, <1>3, <1>4 DEF GoesTo

LEMMA CompareCounterStep ==
    ASSUME TypeInv, NEW h \in Handlers, CompareCounter(h)
    PROVE  /\ handler[h].pc = "comparing"
           /\ \E pc \in {"broken", "refused", "looking"} :
                 /\ GoesTo(h, pc)
                 /\ pc = "refused" =>
                       counter[handler[h].track.carrier][handler[h].minute]
                           > LimitPerMin[handler[h].track.carrier]
           /\ handler'[h].object = handler[h].object
           /\ UNCHANGED <<minute, admin, begun, counter, state, object>>
<1> DEFINE pc == IF CountOf(h) = 0 THEN "broken"
                 ELSE IF CountOf(h) > LimitPerMin[handler[h].track.carrier] THEN "refused"
                 ELSE "looking"
           n == [handler[h] EXCEPT !.pc = pc]
<1>1. handler' = [handler EXCEPT ![h] = n]
  BY ThreadFields DEF CompareCounter, TypeInv, TypeOK
<1>2. pc \in {"broken", "refused", "looking"}
      /\ (pc = "refused" => CountOf(h) > LimitPerMin[handler[h].track.carrier])
  OBVIOUS
<1> HIDE DEF pc
<1>3. /\ n \in Handler /\ n.pc = pc /\ n.track = handler[h].track
      /\ n.minute = handler[h].minute /\ n.object = handler[h].object
  BY <1>2, ThreadFields DEF Handler
<1> HIDE DEF n
<1>4. Moves(h) /\ handler'[h] = n
  BY <1>1, <1>3, MoveRecord
<1>5. handler[h].pc = "comparing" /\ UNCHANGED <<minute, admin, begun, counter, state, object>>
  BY DEF CompareCounter, environment
<1>6. QED BY <1>2, <1>3, <1>4, <1>5, CountType DEF GoesTo

LEMMA GetStateStep ==
    ASSUME TypeInv, NEW h \in Handlers, GetState(h)
    PROVE  /\ handler[h].pc = "looking"
           /\ GoesTo(h, IF handler'[h].object = 0 THEN "creating" ELSE "stepping")
           /\ handler'[h].object = state[handler[h].track]
           /\ UNCHANGED <<minute, admin, begun, counter, state, object>>
<1> DEFINE o  == state[handler[h].track]
           pc == IF o = 0 THEN "creating" ELSE "stepping"
           n  == [handler[h] EXCEPT !.object = o, !.pc = pc]
<1>1. handler' = [handler EXCEPT ![h] = n]
  BY ThreadFields DEF GetState, TypeInv, TypeOK
<1>2. o \in Nat
  BY ThreadFields DEF TypeInv, TypeOK
<1>3. /\ n \in Handler /\ n.pc = pc /\ n.track = handler[h].track
      /\ n.minute = handler[h].minute /\ n.object = o
  BY <1>2, ThreadFields DEF Handler
<1> HIDE DEF n
<1>4. Moves(h) /\ handler'[h] = n
  BY <1>1, <1>3, MoveRecord
<1>5. handler[h].pc = "looking" /\ UNCHANGED <<minute, admin, begun, counter, state, object>>
  BY DEF GetState, environment
<1>6. QED BY <1>3, <1>4, <1>5 DEF GoesTo

LEMMA CreateStateStep ==
    ASSUME TypeInv, NEW h \in Handlers, CreateState(h)
    PROVE  /\ handler[h].pc = "creating" /\ GoesTo(h, "stepping")
           /\ handler'[h].object = Len(object) + 1
           /\ object' = Append(object, NewScenario(DefaultSteps))
           /\ state' = [state EXCEPT ![handler[h].track] = Len(object) + 1]
           /\ UNCHANGED <<minute, admin, begun, counter>>
<1> DEFINE n == [handler[h] EXCEPT !.object = Len(object) + 1, !.pc = "stepping"]
<1>1. handler' = [handler EXCEPT ![h] = n]
  BY ThreadFields DEF CreateState, TypeInv, TypeOK
<1>2. Len(object) + 1 \in Nat
  BY DEF TypeInv, TypeOK
<1>3. /\ n \in Handler /\ n.pc = "stepping" /\ n.track = handler[h].track
      /\ n.minute = handler[h].minute /\ n.object = Len(object) + 1
  BY <1>2, ThreadFields DEF Handler
<1> HIDE DEF n
<1>4. Moves(h) /\ handler'[h] = n
  BY <1>1, <1>3, MoveRecord
<1>5. /\ handler[h].pc = "creating" /\ UNCHANGED <<minute, admin, begun, counter>>
      /\ object' = Append(object, NewScenario(DefaultSteps))
      /\ state' = [state EXCEPT ![handler[h].track] = Len(object) + 1]
  BY DEF CreateState, environment
<1>6. QED BY <1>3, <1>4, <1>5 DEF GoesTo

LEMMA ReadStepStep ==
    ASSUME TypeInv, NEW h \in Handlers, ReadStep(h)
    PROVE  /\ handler[h].pc = "stepping"
           /\ \E pc \in {"closing", "advancing"} :
                 /\ GoesTo(h, pc)
                 /\ pc = "advancing" => Scene(h).index + 1 < Scene(h).steps
           /\ handler'[h].object = handler[h].object
           /\ handler'[h].index = Scene(h).index
           /\ UNCHANGED <<minute, admin, begun, counter, state, object>>
<1>1. handler[h].pc = "stepping" /\ UNCHANGED <<minute, admin, begun, counter, state, object>>
  BY DEF ReadStep, environment
<1>2. PICK pc \in {"closing", "advancing"} :
         /\ handler' = [handler EXCEPT ![h].pc = pc, ![h].index = Scene(h).index]
         /\ pc = "advancing" => Scene(h).index + 1 < Scene(h).steps
  BY DEF ReadStep
<1> DEFINE n == [handler[h] EXCEPT !.pc = pc, !.index = Scene(h).index]
<1>3. handler' = [handler EXCEPT ![h] = n]
  BY <1>2, ThreadFields DEF TypeInv, TypeOK
<1>4. Scene(h).index \in Nat
  BY <1>1, SceneType, ScenarioFields, ThreadFields DEF Fits
<1>5. /\ n \in Handler /\ n.pc = pc /\ n.track = handler[h].track
      /\ n.minute = handler[h].minute /\ n.object = handler[h].object
      /\ n.index = Scene(h).index
  BY <1>4, ThreadFields DEF Handler
<1> HIDE DEF n
<1>6. Moves(h) /\ handler'[h] = n
  BY <1>3, <1>5, MoveRecord
<1>7. QED BY <1>1, <1>2, <1>5, <1>6 DEF GoesTo

LEMMA WriteStepStep ==
    ASSUME TypeInv, NEW h \in Handlers, WriteStep(h)
    PROVE  /\ handler[h].pc = "advancing" /\ GoesTo(h, "recording")
           /\ handler'[h].object = handler[h].object
           /\ handler'[h].index = handler[h].index + 1
           /\ object' = [object EXCEPT
                 ![handler[h].object] = [Scene(h) EXCEPT !.index = handler[h].index + 1]]
           /\ UNCHANGED <<minute, admin, begun, counter, state>>
<1> DEFINE n == [handler[h] EXCEPT !.index = NextStep(h), !.pc = "recording"]
<1>1. handler' = [handler EXCEPT ![h] = n]
  BY ThreadFields DEF WriteStep, TypeInv, TypeOK
<1>2. NextStep(h) \in Nat /\ NextStep(h) = handler[h].index + 1
  BY ThreadFields DEF NextStep
<1>3. /\ n \in Handler /\ n.pc = "recording" /\ n.track = handler[h].track
      /\ n.minute = handler[h].minute /\ n.object = handler[h].object
      /\ n.index = handler[h].index + 1
  BY <1>2, ThreadFields DEF Handler
<1> HIDE DEF n
<1>4. Moves(h) /\ handler'[h] = n
  BY <1>1, <1>3, MoveRecord
<1>5. /\ handler[h].pc = "advancing" /\ UNCHANGED <<minute, admin, begun, counter, state>>
      /\ object' = [object EXCEPT
            ![handler[h].object] = [Scene(h) EXCEPT !.index = handler[h].index + 1]]
  BY <1>2 DEF WriteStep, environment, Scene
<1>6. QED BY <1>3, <1>4, <1>5 DEF GoesTo

(* RecordStep and FillHistory.                                             *)
LEMMA AppendEventStep ==
    ASSUME TypeInv, NEW h \in Handlers, RecordStep(h) \/ FillHistory(h)
    PROVE  /\ \/ handler[h].pc = "recording" /\ GoesTo(h, "closing")
              \/ handler[h].pc = "filling" /\ GoesTo(h, "answered")
           /\ handler'[h].object = handler[h].object
           /\ handler'[h].index = handler[h].index
           /\ object' = [object EXCEPT ![handler[h].object] =
                 [Scene(h) EXCEPT !.events = Append(Scene(h).events, handler[h].index)]]
           /\ UNCHANGED <<minute, admin, begun, counter, state>>
<1>1. PICK pc \in {"closing", "answered"} :
         /\ handler' = [handler EXCEPT ![h].pc = pc]
         /\ \/ handler[h].pc = "recording" /\ pc = "closing"
            \/ handler[h].pc = "filling" /\ pc = "answered"
  BY DEF RecordStep, FillHistory
<1> DEFINE n == [handler[h] EXCEPT !.pc = pc]
<1>2. handler' = [handler EXCEPT ![h] = n]
  BY <1>1, ThreadFields DEF TypeInv, TypeOK
<1>3. /\ n \in Handler /\ n.pc = pc /\ n.track = handler[h].track
      /\ n.minute = handler[h].minute /\ n.object = handler[h].object
      /\ n.index = handler[h].index
  BY <1>1, ThreadFields DEF Handler
<1> HIDE DEF n
<1>4. Moves(h) /\ handler'[h] = n
  BY <1>2, <1>3, MoveRecord
<1>5. /\ UNCHANGED <<minute, admin, begun, counter, state>>
      /\ object' = [object EXCEPT ![handler[h].object] =
            [Scene(h) EXCEPT !.events = Append(Scene(h).events, handler[h].index)]]
  BY DEF RecordStep, FillHistory, AppendEvent, StepReached, environment, Scene
<1>6. QED BY <1>1, <1>3, <1>4, <1>5 DEF GoesTo

LEMMA CheckHistoryStep ==
    ASSUME TypeInv, NEW h \in Handlers, CheckHistory(h)
    PROVE  /\ handler[h].pc = "closing"
           /\ \E pc \in {"broken", "filling", "answered"} : GoesTo(h, pc)
           /\ handler'[h].object = handler[h].object
           /\ UNCHANGED <<minute, admin, begun, counter, state, object>>
<1> DEFINE pc == IF Scene(h).steps = 0 THEN "broken"
                 ELSE IF NothingRecorded(h) THEN "filling" ELSE "answered"
           n == [handler[h] EXCEPT !.pc = pc]
<1>1. handler' = [handler EXCEPT ![h] = n]
  BY ThreadFields DEF CheckHistory, TypeInv, TypeOK
<1>2. pc \in {"broken", "filling", "answered"}
  OBVIOUS
<1> HIDE DEF pc
<1>3. /\ n \in Handler /\ n.pc = pc /\ n.track = handler[h].track
      /\ n.minute = handler[h].minute /\ n.object = handler[h].object
  BY <1>2, ThreadFields DEF Handler
<1> HIDE DEF n
<1>4. Moves(h) /\ handler'[h] = n
  BY <1>1, <1>3, MoveRecord
<1>5. handler[h].pc = "closing" /\ UNCHANGED <<minute, admin, begun, counter, state, object>>
  BY DEF CheckHistory, environment
<1>6. QED BY <1>2, <1>3, <1>4, <1>5 DEF GoesTo

-----------------------------------------------------------------------------
(* Type correctness.                                                       *)

LEMMA ThreadMoves ==
    ASSUME TypeInv, NEW h \in Handlers, Moves(h), Fits(handler'[h]),
           handler'[h].object <= Len(object'), Len(object) <= Len(object'),
           object' \in Seq(Scenario), minute' \in Minutes, admin' \in Nat,
           counter' \in [Carriers -> [Minutes -> Nat]],
           begun' \in [Carriers -> [Minutes -> Nat]],
           state' \in [Tracks -> 0..Len(object')]
    PROVE  TypeInv'
<1>1. ASSUME NEW k \in Handlers
      PROVE  handler'[k].object <= Len(object') /\ Fits(handler'[k])
  <2>1. CASE k = h
    BY <2>1
  <2>2. CASE k # h
    <3>1. handler'[k] = handler[k]
      BY <2>2 DEF Moves
    <3>2. /\ handler[k].object \in Nat /\ handler[k].object <= Len(object)
          /\ Fits(handler[k])
      BY ThreadFields
    <3>3. Len(object) \in Nat /\ Len(object') \in Nat
      BY DEF TypeInv, TypeOK
    <3>4. QED BY <3>1, <3>2, <3>3
  <2>3. QED BY <2>1, <2>2
<1>2. QED BY <1>1 DEF TypeInv, TypeOK, Moves

LEMMA SameScenarios ==
    ASSUME TypeInv
    PROVE  /\ Len(object) \in Nat /\ Len(object) <= Len(object)
           /\ object \in Seq(Scenario) /\ minute \in Minutes /\ admin \in Nat
           /\ counter \in [Carriers -> [Minutes -> Nat]]
           /\ begun \in [Carriers -> [Minutes -> Nat]]
           /\ state \in [Tracks -> 0..Len(object)]
BY DEF TypeInv, TypeOK

LEMMA CountSet ==
    ASSUME NEW f \in [Carriers -> [Minutes -> Nat]], NEW c \in Carriers,
           NEW m \in Minutes, NEW n \in Nat
    PROVE  /\ [f EXCEPT ![c][m] = n] \in [Carriers -> [Minutes -> Nat]]
           /\ \A d \in Carriers : \A i \in Minutes :
                 [f EXCEPT ![c][m] = n][d][i] = IF d = c /\ i = m THEN n ELSE f[d][i]
<1> DEFINE g == [f EXCEPT ![c][m] = n]
<1>1. \A d \in Carriers : f[d] \in [Minutes -> Nat]
  OBVIOUS
<1>2. ASSUME NEW d \in Carriers
      PROVE  /\ g[d] \in [Minutes -> Nat]
             /\ \A i \in Minutes :
                   g[d][i] = IF d = c /\ i = m THEN n ELSE f[d][i]
  BY <1>1
<1>3. QED BY <1>2

LEMMA TypeInvInitial == Init => TypeInv
<1> SUFFICES ASSUME Init PROVE TypeInv
  OBVIOUS
<1>1. 0 \in Minutes
  BY BoundsAssumption DEF Minutes
<1>2. object = <<>> /\ object \in Seq(Scenario) /\ Len(object) = 0
  BY DEF Init
<1>3. (CHOOSE t \in Tracks : TRUE) \in Tracks
  BY TracksAssumption
<1>4. /\ handler \in [Handlers -> Handler]
      /\ \A h \in Handlers : handler[h].object = 0 /\ handler[h].pc = "idle"
  BY <1>1, <1>3 DEF Init, Handler
<1>5. QED BY <1>1, <1>2, <1>4 DEF Init, TypeInv, TypeOK, Fits

LEMMA TypeInvTick ==
    ASSUME TypeInv, Tick PROVE TypeInv'
<1>1. minute' \in Minutes
  BY BoundsAssumption DEF TypeInv, TypeOK, Tick, Minutes
<1>2. QED BY <1>1 DEF TypeInv, TypeOK, Tick

LEMMA TypeInvReset ==
    ASSUME TypeInv, Reset PROVE TypeInv'
<1>1. state' \in [Tracks -> 0..Len(object)] /\ admin' \in Nat
  BY DEF TypeInv, TypeOK, Reset
<1>2. counter' \in [Carriers -> [Minutes -> Nat]]
  BY DEF Reset
<1>3. QED BY <1>1, <1>2 DEF TypeInv, TypeOK, Reset

(* A new scenario, the entry of t.                                         *)
LEMMA Entered ==
    ASSUME TypeInv, NEW t \in Tracks, NEW n \in Nat,
           object' = Append(object, NewScenario(n)),
           state' = [state EXCEPT ![t] = Len(object) + 1]
    PROVE  /\ object' \in Seq(Scenario) /\ Len(object') = Len(object) + 1
           /\ Len(object') \in Nat
           /\ state' \in [Tracks -> 0..Len(object')]
<1>1. object \in Seq(Scenario) /\ Len(object) \in Nat /\ state \in [Tracks -> 0..Len(object)]
  BY SameScenarios
<1>2. object' \in Seq(Scenario) /\ Len(object') = Len(object) + 1
  BY <1>1, Added, NewScenarioType
<1>3. ASSUME NEW u \in Tracks PROVE state'[u] \in 0..Len(object')
  BY <1>1, <1>2
<1>4. DOMAIN state' = Tracks /\ state' = [u \in Tracks |-> state'[u]]
  BY <1>1
<1>5. QED BY <1>1, <1>2, <1>3, <1>4

LEMMA TypeInvSeed ==
    ASSUME TypeInv, NEW t \in Tracks, SeedV1(t) PROVE TypeInv'
<1>1. PICK n \in SeedSizes : object' = Append(object, NewScenario(n))
  BY DEF SeedV1
<1>2. n \in Nat
  BY ScenariosAssumption
<1>3. /\ object' \in Seq(Scenario) /\ Len(object') = Len(object) + 1
      /\ Len(object') \in Nat /\ state' \in [Tracks -> 0..Len(object')]
  BY <1>1, <1>2, Entered DEF SeedV1
<1>4. admin' \in Nat /\ UNCHANGED <<minute, counter, handler, begun>>
  BY DEF SeedV1, TypeInv, TypeOK
<1>5. \A h \in Handlers : handler[h].object <= Len(object')
  BY <1>3, SameScenarios, ThreadFields
<1>6. QED BY <1>3, <1>4, <1>5 DEF TypeInv, TypeOK

(* A thread that reads, counts or answers leaves the scenarios alone.      *)
LEMMA TypeInvRequest ==
    ASSUME TypeInv, NEW h \in Handlers, Request(h) PROVE TypeInv'
<1> DEFINE c == handler'[h].track.carrier
<1>1. Moves(h) /\ handler'[h].object = 0 /\ UNCHANGED <<minute, counter, state, object, admin>>
  BY RequestStep
<1>2. c \in Carriers
  BY <1>1, TracksAssumption DEF Moves, Handler
<1>3. Fits(handler'[h])
  BY RequestStep DEF Fits
<1>4. begun' \in [Carriers -> [Minutes -> Nat]]
  <2>1. begun' = [begun EXCEPT ![c][minute] = begun[c][minute] + 1]
    BY RequestStep
  <2>2. begun[c][minute] + 1 \in Nat
    BY <1>2, SameScenarios
  <2> HIDE DEF c
  <2>3. QED BY <2>1, <2>2, <1>2, SameScenarios, CountSet
<1>5. /\ handler'[h].object <= Len(object') /\ Len(object) <= Len(object')
      /\ object' \in Seq(Scenario) /\ minute' \in Minutes /\ admin' \in Nat
      /\ counter' \in [Carriers -> [Minutes -> Nat]]
      /\ state' \in [Tracks -> 0..Len(object')]
  BY <1>1, SameScenarios
<1>6. Moves(h)
  BY <1>1
<1> HIDE DEF c
<1>7. QED BY <1>3, <1>4, <1>5, <1>6, ThreadMoves

LEMMA TypeInvCounts ==
    ASSUME TypeInv, NEW h \in Handlers,
           ReadCounter(h) \/ WriteCounter(h) \/ CompareCounter(h)
    PROVE  TypeInv'
<1>1. handler[h].pc \in {"counting", "writing", "comparing"}
  BY DEF ReadCounter, WriteCounter, CompareCounter
<1>2. \E pc \in {"writing", "comparing", "broken", "refused", "looking"} : GoesTo(h, pc)
  BY ReadCounterStep, WriteCounterStep, CompareCounterStep
<1>3. handler'[h].object = handler[h].object /\ UNCHANGED <<minute, admin, begun, state, object>>
  BY ReadCounterStep, WriteCounterStep, CompareCounterStep
<1>4. Moves(h) /\ Fits(handler'[h])
  BY <1>1, <1>2, ThreadFields DEF GoesTo, Fits
<1>5. counter' \in [Carriers -> [Minutes -> Nat]]
  <2>1. CASE WriteCounter(h)
    <3> DEFINE c == handler[h].track.carrier
               m == handler[h].minute
               n == handler[h].seen + 1
    <3>1. counter' = [counter EXCEPT ![c][m] = n]
      BY <2>1, WriteCounterStep
    <3>2. c \in Carriers /\ m \in Minutes /\ n \in Nat
      BY ThreadFields
    <3> HIDE DEF c, m, n
    <3>3. QED BY <3>1, <3>2, SameScenarios, CountSet
  <2>2. CASE ~WriteCounter(h)
    BY <2>2, ReadCounterStep, CompareCounterStep, SameScenarios
  <2>3. QED BY <2>1, <2>2
<1>6. handler'[h].object <= Len(object')
  BY <1>3, ThreadFields
<1>7. QED BY <1>3, <1>4, <1>5, <1>6, SameScenarios, ThreadMoves

LEMMA TypeInvReads ==
    ASSUME TypeInv, NEW h \in Handlers, GetState(h) \/ ReadStep(h) \/ CheckHistory(h)
    PROVE  TypeInv'
<1>1. Moves(h) /\ UNCHANGED <<minute, admin, begun, counter, state, object>>
  BY GetStateStep, ReadStepStep, CheckHistoryStep DEF GoesTo
<1>2. Fits(handler'[h]) /\ handler'[h].object <= Len(object')
  <2>1. CASE GetState(h)
    <3>1. handler'[h].object \in 0..Len(object)
      BY <2>1, GetStateStep, ThreadFields, SameScenarios
    <3>2. QED BY <2>1, <3>1, <1>1, GetStateStep, SameScenarios DEF GoesTo, Fits
  <2>2. CASE ReadStep(h)
    BY <2>2, ReadStepStep, ThreadFields DEF GoesTo, Fits
  <2>3. CASE CheckHistory(h)
    BY <2>3, CheckHistoryStep, ThreadFields DEF GoesTo, Fits
  <2>4. QED BY <2>1, <2>2, <2>3
<1>3. QED BY <1>1, <1>2, SameScenarios, ThreadMoves

LEMMA TypeInvCreateState ==
    ASSUME TypeInv, NEW h \in Handlers, CreateState(h) PROVE TypeInv'
<1>1. /\ GoesTo(h, "stepping") /\ handler'[h].object = Len(object) + 1
      /\ UNCHANGED <<minute, admin, begun, counter>>
  BY CreateStateStep
<1>2. /\ object' \in Seq(Scenario) /\ Len(object') = Len(object) + 1
      /\ Len(object') \in Nat /\ state' \in [Tracks -> 0..Len(object')]
  BY CreateStateStep, Entered, ThreadFields, ScenariosAssumption
<1>3. Moves(h) /\ Fits(handler'[h])
  BY <1>1, SameScenarios DEF GoesTo, Fits
<1>4. /\ handler'[h].object <= Len(object') /\ Len(object) <= Len(object')
      /\ minute' \in Minutes /\ admin' \in Nat
      /\ counter' \in [Carriers -> [Minutes -> Nat]]
      /\ begun' \in [Carriers -> [Minutes -> Nat]]
  BY <1>1, <1>2, SameScenarios
<1>5. QED BY <1>2, <1>3, <1>4, ThreadMoves

(* WriteStep, RecordStep and FillHistory replace the thread's scenario by  *)
(* one of as many steps.                                                   *)
LEMMA SceneReplaced ==
    ASSUME TypeInv, NEW h \in Handlers,
           WriteStep(h) \/ RecordStep(h) \/ FillHistory(h)
    PROVE  /\ object' \in Seq(Scenario) /\ Len(object') = Len(object)
           /\ handler[h].object \in 1..Len(object)
           /\ handler'[h].object = handler[h].object
           /\ \A o \in 1..Len(object) :
                 /\ object'[o].steps = object[o].steps
                 /\ o # handler[h].object => object'[o] = object[o]
           /\ UNCHANGED <<minute, admin, begun, counter, state>>
<1> DEFINE o == handler[h].object
           moved == [Scene(h) EXCEPT !.index = handler[h].index + 1]
           told == [Scene(h) EXCEPT !.events = Append(Scene(h).events, handler[h].index)]
<1>1. handler[h].pc \in {"advancing", "recording", "filling"}
  BY DEF WriteStep, RecordStep, FillHistory
<1>2. handler[h].object # 0
  BY <1>1, ThreadFields DEF Fits
<1>3. o \in 1..Len(object) /\ Scene(h) = object[o] /\ Scene(h) \in Scenario
  BY <1>2, SceneType
<1>4. PICK x \in {moved, told} : object' = [object EXCEPT ![o] = x]
  BY WriteStepStep, AppendEventStep
<1>5. x \in Scenario /\ x.steps = object[o].steps
  <2>1. handler[h].index \in Nat /\ handler[h].index + 1 \in Nat
    BY ThreadFields
  <2>2. Append(Scene(h).events, handler[h].index) \in Seq(Nat)
    BY <2>1, <1>3, ScenarioFields, AppendProperties
  <2>3. moved \in Scenario /\ moved.steps = Scene(h).steps
    BY <1>3, <2>1, ScenarioFields
  <2>4. told \in Scenario /\ told.steps = Scene(h).steps
    BY <1>3, <2>2, ScenarioFields
  <2> HIDE DEF moved, told
  <2>5. QED BY <1>3, <1>4, <2>3, <2>4
<1> HIDE DEF moved, told, o
<1>6. /\ object' \in Seq(Scenario) /\ Len(object') = Len(object)
      /\ \A p \in 1..Len(object) : object'[p] = IF p = o THEN x ELSE object[p]
  BY <1>3, <1>4, <1>5, SameScenarios, Replaced
<1>7. handler'[h].object = handler[h].object /\ UNCHANGED <<minute, admin, begun, counter, state>>
  BY WriteStepStep, AppendEventStep
<1>8. QED BY <1>3, <1>5, <1>6, <1>7 DEF o

LEMMA TypeInvScene ==
    ASSUME TypeInv, NEW h \in Handlers,
           WriteStep(h) \/ RecordStep(h) \/ FillHistory(h)
    PROVE  TypeInv'
<1>1. \E pc \in {"recording", "closing", "answered"} : GoesTo(h, pc)
  BY WriteStepStep, AppendEventStep
<1>2. /\ object' \in Seq(Scenario) /\ Len(object') = Len(object)
      /\ handler[h].object \in 1..Len(object) /\ handler'[h].object = handler[h].object
      /\ UNCHANGED <<minute, admin, begun, counter, state>>
  BY SceneReplaced
<1>3. Moves(h) /\ Fits(handler'[h]) /\ handler'[h].object <= Len(object')
  BY <1>1, <1>2, SameScenarios DEF GoesTo, Fits
<1>4. QED BY <1>2, <1>3, SameScenarios, ThreadMoves

LEMMA TypeInvPreserved == TypeInv /\ [Next]_vars => TypeInv'
<1> SUFFICES ASSUME TypeInv, [Next]_vars PROVE TypeInv'
  OBVIOUS
<1>1. CASE Tick
  BY <1>1, TypeInvTick
<1>2. CASE Reset
  BY <1>2, TypeInvReset
<1>3. CASE \E t \in Tracks : SeedV1(t)
  BY <1>3, TypeInvSeed
<1>4. CASE \E h \in Handlers : Request(h)
  BY <1>4, TypeInvRequest
<1>5. CASE \E h \in Handlers : ReadCounter(h) \/ WriteCounter(h) \/ CompareCounter(h)
  BY <1>5, TypeInvCounts
<1>6. CASE \E h \in Handlers : GetState(h) \/ ReadStep(h) \/ CheckHistory(h)
  BY <1>6, TypeInvReads
<1>7. CASE \E h \in Handlers : CreateState(h)
  BY <1>7, TypeInvCreateState
<1>8. CASE \E h \in Handlers : WriteStep(h) \/ RecordStep(h) \/ FillHistory(h)
  BY <1>8, TypeInvScene
<1>9. CASE UNCHANGED vars
  BY <1>9 DEF vars, TypeInv, TypeOK
<1>10. QED
  BY <1>1, <1>2, <1>3, <1>4, <1>5, <1>6, <1>7, <1>8, <1>9 DEF Next

(* Every variable of the emulator keeps its type, and a thread refers to a *)
(* scenario there is whenever it reads or moves one (app.py:143-280).      *)
THEOREM EmulatorTypeCorrect == Spec => []TypeOK
<1>1. Init => TypeInv
  BY TypeInvInitial
<1>2. TypeInv /\ [Next]_vars => TypeInv'
  BY TypeInvPreserved
<1>3. TypeInv => TypeOK
  BY DEF TypeInv
<1>4. QED BY <1>1, <1>2, <1>3, PTL DEF Spec

-----------------------------------------------------------------------------
(* Scenarios and their histories.                                          *)

Recording(h, o, k) ==
    handler[h].pc = "recording" /\ handler[h].object = o /\ handler[h].index = k

Covered(o, k) ==
    k \in ToSet(object[o].events) \/ \E h \in Handlers : Recording(h, o, k)

(* A thread that has read idx and will move on may be late: meanwhile the  *)
(* scenario has moved, but it has as many steps as then, and a step once   *)
(* reached stays accounted for.                                            *)
LateStepFits ==
    \A h \in Handlers : handler[h].pc = "advancing" =>
        /\ handler[h].index + 1 < object[handler[h].object].steps
        /\ \A k \in 1..handler[h].index : Covered(handler[h].object, k)

SceneInv == TypeInv /\ StepWithinScenario /\ HistoryHasNoGaps /\ LateStepFits

LEMMA Told ==
    ASSUME NEW e \in Seq(Nat), NEW n \in Nat
    PROVE  ToSet(Append(e, n)) = ToSet(e) \cup {n}
<1>1. /\ Len(e) \in Nat /\ DOMAIN e = 1..Len(e)
      /\ DOMAIN Append(e, n) = 1..(Len(e) + 1)
      /\ \A i \in 1..Len(e) : Append(e, n)[i] = e[i]
      /\ Append(e, n)[Len(e) + 1] = n
  BY AppendProperties
<1>2. ASSUME NEW x \in ToSet(Append(e, n)) PROVE x \in ToSet(e) \cup {n}
  <2>1. PICK i \in 1..(Len(e) + 1) : x = Append(e, n)[i]
    BY <1>1 DEF ToSet
  <2>2. CASE i = Len(e) + 1
    BY <1>1, <2>1, <2>2
  <2>3. CASE i \in 1..Len(e)
    BY <1>1, <2>1, <2>3 DEF ToSet
  <2>4. QED BY <1>1, <2>2, <2>3
<1>3. ASSUME NEW x \in ToSet(e) \cup {n} PROVE x \in ToSet(Append(e, n))
  <2>1. PICK i \in 1..(Len(e) + 1) : x = Append(e, n)[i]
    BY <1>1 DEF ToSet
  <2>2. QED BY <1>1, <2>1 DEF ToSet
<1>4. QED BY <1>2, <1>3

LEMMA WriteStepScene ==
    ASSUME TypeInv, NEW h \in Handlers, WriteStep(h)
    PROVE  /\ object'[handler[h].object].events = object[handler[h].object].events
           /\ object'[handler[h].object].index = handler[h].index + 1
<1> DEFINE o == handler[h].object
           x == [Scene(h) EXCEPT !.index = handler[h].index + 1]
<1>1. o \in 1..Len(object) /\ Scene(h) = object[o] /\ Scene(h) \in Scenario
  BY WriteStepStep, ThreadFields, SceneType DEF Fits
<1>2. handler[h].index + 1 \in Nat
  BY ThreadFields
<1>3. /\ x \in Scenario /\ x.events = object[o].events
      /\ x.index = handler[h].index + 1
  BY <1>1, <1>2, ScenarioFields
<1>4. object' = [object EXCEPT ![o] = x]
  BY WriteStepStep
<1> HIDE DEF x
<1>5. object'[o] = x
  BY <1>1, <1>3, <1>4, SameScenarios, Replaced
<1>6. QED BY <1>3, <1>5

LEMMA AppendEventScene ==
    ASSUME TypeInv, NEW h \in Handlers, RecordStep(h) \/ FillHistory(h)
    PROVE  /\ ToSet(object'[handler[h].object].events)
                 = ToSet(object[handler[h].object].events) \cup {handler[h].index}
           /\ object'[handler[h].object].index = object[handler[h].object].index
<1> DEFINE o == handler[h].object
           e == Append(Scene(h).events, handler[h].index)
           x == [Scene(h) EXCEPT !.events = e]
<1>1. o \in 1..Len(object) /\ Scene(h) = object[o] /\ Scene(h) \in Scenario
  BY AppendEventStep, ThreadFields, SceneType DEF Fits
<1>2. e \in Seq(Nat) /\ ToSet(e) = ToSet(object[o].events) \cup {handler[h].index}
  BY <1>1, ThreadFields, ScenarioFields, AppendProperties, Told
<1>3. object' = [object EXCEPT ![o] = x]
  BY AppendEventStep
<1> HIDE DEF e
<1>4. x \in Scenario /\ x.events = e /\ x.index = object[o].index
  BY <1>1, <1>2, ScenarioFields
<1> HIDE DEF x
<1>5. object'[o] = x
  BY <1>1, <1>3, <1>4, SameScenarios, Replaced
<1>6. QED BY <1>2, <1>4, <1>5

(* What a step covers stays covered.                                       *)
Kept ==
    /\ Len(object) <= Len(object')
    /\ \A o \in 1..Len(object) :
          /\ object'[o].steps = object[o].steps
          /\ \A k \in Nat : Covered(o, k) => Covered(o, k)'

LEMMA CoveredKept ==
    ASSUME NEW o \in 1..Len(object), NEW k \in Nat, Covered(o, k),
           ToSet(object[o].events) \subseteq ToSet(object'[o].events),
           \A h \in Handlers : Recording(h, o, k) =>
               handler'[h] = handler[h] \/ k \in ToSet(object'[o].events)
    PROVE  Covered(o, k)'
<1>1. CASE k \in ToSet(object[o].events)
  BY <1>1 DEF Covered
<1>2. CASE \E h \in Handlers : Recording(h, o, k)
  BY <1>2 DEF Covered, Recording
<1>3. QED BY <1>1, <1>2 DEF Covered

(* Scenarios in use are not touched by a step that records nothing.        *)
LEMMA KeptBySameScenes ==
    ASSUME TypeInv, Len(object) <= Len(object'),
           \A o \in 1..Len(object) : object'[o] = object[o],
           \A h \in Handlers : handler[h].pc = "recording" => handler'[h] = handler[h]
    PROVE  Kept
<1>1. ASSUME NEW o \in 1..Len(object), NEW k \in Nat, Covered(o, k)
      PROVE  Covered(o, k)'
  <2>1. \A h \in Handlers : Recording(h, o, k) => handler'[h] = handler[h]
    BY DEF Recording
  <2>2. QED BY <1>1, <2>1, CoveredKept
<1>2. QED BY <1>1 DEF Kept

LEMMA KeptByScene ==
    ASSUME TypeInv, NEW h \in Handlers,
           WriteStep(h) \/ RecordStep(h) \/ FillHistory(h)
    PROVE  Kept
<1>1. /\ Len(object') = Len(object) /\ Len(object) \in Nat
      /\ handler[h].object \in 1..Len(object)
      /\ \A o \in 1..Len(object) :
            /\ object'[o].steps = object[o].steps
            /\ o # handler[h].object => object'[o] = object[o]
  BY SceneReplaced, SameScenarios
<1>2. Moves(h)
  BY WriteStepStep, AppendEventStep DEF GoesTo
<1>3. ASSUME NEW o \in 1..Len(object)
      PROVE  ToSet(object[o].events) \subseteq ToSet(object'[o].events)
  BY <1>1, WriteStepScene, AppendEventScene
<1>4. ASSUME NEW o \in 1..Len(object), NEW k \in Nat, NEW i \in Handlers,
             Recording(i, o, k)
      PROVE  handler'[i] = handler[i] \/ k \in ToSet(object'[o].events)
  <2>1. CASE i # h
    BY <1>2, <2>1 DEF Moves
  <2>2. CASE i = h
    <3>1. handler[h].pc = "recording" /\ handler[h].object = o /\ handler[h].index = k
      BY <1>4, <2>2 DEF Recording
    <3>2. RecordStep(h) \/ FillHistory(h)
      BY <3>1, WriteStepStep
    <3>3. QED BY <3>1, <3>2, AppendEventScene
  <2>3. QED BY <2>1, <2>2
<1>5. ASSUME NEW o \in 1..Len(object), NEW k \in Nat, Covered(o, k)
      PROVE  Covered(o, k)'
  BY <1>3, <1>4, <1>5, CoveredKept
<1>6. QED BY <1>1, <1>5 DEF Kept

(* How the rest of a step changes where a scenario stands and which        *)
(* threads are about to move it.                                           *)
LEMMA SceneStep ==
    ASSUME TypeInv, [Next]_vars
    PROVE  /\ Kept
           /\ \A o \in 1..Len(object') :
                 \/ object'[o].index = 0
                 \/ o \in 1..Len(object) /\ object'[o].index = object[o].index
                 \/ \E h \in Handlers : WriteStep(h) /\ handler[h].object = o
           /\ \A h \in Handlers : handler'[h].pc = "advancing" =>
                 \/ handler'[h] = handler[h]
                 \/ ReadStep(h)
<1>0. Len(object) \in Nat
  BY SameScenarios
<1> DEFINE Standing == \A o \in 1..Len(object') :
                 \/ object'[o].index = 0
                 \/ o \in 1..Len(object) /\ object'[o].index = object[o].index
                 \/ \E h \in Handlers : WriteStep(h) /\ handler[h].object = o
           Turning == \A h \in Handlers : handler'[h].pc = "advancing" =>
                 \/ handler'[h] = handler[h]
                 \/ ReadStep(h)
<1>1. CASE Tick \/ Reset \/ UNCHANGED vars
  <2>1. object' = object /\ handler' = handler
    BY <1>1 DEF Tick, Reset, vars
  <2>2. Kept
    BY <2>1, <1>0, KeptBySameScenes
  <2>3. QED BY <2>1, <2>2
<1>2. CASE \E t \in Tracks : SeedV1(t)
  <2>1. PICK n \in SeedSizes : object' = Append(object, NewScenario(n))
    BY <1>2 DEF SeedV1
  <2>2. /\ Len(object') = Len(object) + 1
        /\ \A o \in 1..(Len(object) + 1) :
              object'[o] = IF o = Len(object) + 1 THEN NewScenario(n) ELSE object[o]
        /\ NewScenario(n).index = 0
    BY <2>1, SameScenarios, ScenariosAssumption, NewScenarioType, Added
  <2>3. handler' = handler
    BY <1>2 DEF SeedV1
  <2>4. Kept
    BY <1>0, <2>2, <2>3, KeptBySameScenes
  <2>5. Standing
    BY <1>0, <2>2
  <2>6. QED BY <2>3, <2>4, <2>5
<1>3. ASSUME NEW h \in Handlers, CreateState(h) PROVE Kept /\ Standing /\ Turning
  <2>1. object' = Append(object, NewScenario(DefaultSteps))
    BY <1>3, CreateStateStep
  <2>2. /\ Len(object') = Len(object) + 1
        /\ \A o \in 1..(Len(object) + 1) :
              object'[o] = IF o = Len(object) + 1 THEN NewScenario(DefaultSteps)
                           ELSE object[o]
        /\ NewScenario(DefaultSteps).index = 0
    BY <2>1, SameScenarios, ScenariosAssumption, NewScenarioType, Added
  <2>3. /\ handler[h].pc = "creating" /\ handler'[h].pc = "stepping"
        /\ \A i \in Handlers \ {h} : handler'[i] = handler[i]
    BY <1>3, CreateStateStep DEF GoesTo, Moves
  <2>4. Kept
    BY <1>0, <2>2, <2>3, KeptBySameScenes
  <2>5. Standing
    BY <1>0, <2>2
  <2>6. Turning
    BY <2>3
  <2>7. QED BY <2>4, <2>5, <2>6
<1>4. ASSUME NEW h \in Handlers,
             Request(h) \/ ReadCounter(h) \/ WriteCounter(h) \/ CompareCounter(h)
                 \/ GetState(h) \/ ReadStep(h) \/ CheckHistory(h)
      PROVE  Kept /\ Standing /\ Turning
  <2>1. /\ object' = object /\ handler[h].pc # "recording"
        /\ \A i \in Handlers \ {h} : handler'[i] = handler[i]
    BY <1>4, RequestStep, ReadCounterStep, WriteCounterStep, CompareCounterStep,
       GetStateStep, ReadStepStep, CheckHistoryStep DEF GoesTo, Moves
  <2>2. handler'[h].pc # "advancing" \/ ReadStep(h)
    BY <1>4, RequestStep, ReadCounterStep, WriteCounterStep, CompareCounterStep,
       GetStateStep, CheckHistoryStep DEF GoesTo
  <2>3. Kept
    BY <1>0, <2>1, KeptBySameScenes
  <2>4. QED BY <2>1, <2>2, <2>3
<1>5. ASSUME NEW h \in Handlers, WriteStep(h) \/ RecordStep(h) \/ FillHistory(h)
      PROVE  Kept /\ Standing /\ Turning
  <2>1. Kept
    BY <1>5, KeptByScene
  <2>2. handler'[h].pc # "advancing" /\ \A i \in Handlers \ {h} : handler'[i] = handler[i]
    BY <1>5, WriteStepStep, AppendEventStep DEF GoesTo, Moves
  <2>3. ASSUME NEW o \in 1..Len(object') PROVE
                 \/ o \in 1..Len(object) /\ object'[o].index = object[o].index
                 \/ \E i \in Handlers : WriteStep(i) /\ handler[i].object = o
    <3>1. o \in 1..Len(object) /\ (o # handler[h].object => object'[o] = object[o])
      BY <1>5, SceneReplaced
    <3>2. QED BY <1>5, <3>1, AppendEventScene
  <2>4. QED BY <2>1, <2>2, <2>3
<1>6. QED
  BY <1>1, <1>2, <1>3, <1>4, <1>5 DEF Next

LEMMA SceneInvPreserved == SceneInv /\ [Next]_vars => SceneInv'
<1> SUFFICES ASSUME SceneInv, [Next]_vars PROVE SceneInv'
  OBVIOUS
<1>1. TypeInv /\ TypeInv' /\ Len(object) \in Nat /\ Len(object') \in Nat
  BY TypeInvPreserved DEF SceneInv, TypeInv, TypeOK
<1>2. /\ DOMAIN object = 1..Len(object) /\ DOMAIN object' = 1..Len(object')
      /\ \A o \in 1..Len(object) : object[o] \in Scenario
      /\ \A o \in 1..Len(object') : object'[o] \in Scenario
  BY <1>1 DEF TypeInv, TypeOK
<1>3. Kept
  BY <1>1, SceneStep
<1>4. ASSUME NEW o \in 1..Len(object'), object'[o].index > 0
      PROVE  /\ object'[o].index < object'[o].steps
             /\ \A k \in 1..object'[o].index : Covered(o, k)'
  <2>1. CASE o \in 1..Len(object) /\ object'[o].index = object[o].index
    <3>1. object[o].index < object[o].steps
      BY <1>2, <1>4, <2>1 DEF SceneInv, StepWithinScenario
    <3>2. \A k \in 1..object[o].index : k \in Nat /\ Covered(o, k)
      BY <1>2, <2>1, ScenarioFields DEF SceneInv, HistoryHasNoGaps, Covered, Recording
    <3>3. QED BY <1>3, <2>1, <3>1, <3>2 DEF Kept
  <2>2. ASSUME NEW h \in Handlers, WriteStep(h), handler[h].object = o
        PROVE  /\ object'[o].index < object'[o].steps
               /\ \A k \in 1..object'[o].index : Covered(o, k)'
    <3>1. o \in 1..Len(object) /\ object'[o].steps = object[o].steps
      BY <1>1, <2>2, SceneReplaced
    <3>2. handler[h].index \in Nat /\ object'[o].index = handler[h].index + 1
      BY <1>1, <2>2, WriteStepScene, ThreadFields
    <3>3. /\ handler[h].pc = "advancing" /\ handler'[h].pc = "recording"
          /\ handler'[h].object = o /\ handler'[h].index = handler[h].index + 1
      BY <1>1, <2>2, WriteStepStep DEF GoesTo
    <3>4. /\ handler[h].index + 1 < object[o].steps
          /\ \A k \in 1..handler[h].index : Covered(o, k)
      BY <2>2, <3>3 DEF SceneInv, LateStepFits
    <3>6. ASSUME NEW k \in 1..(handler[h].index + 1) PROVE Covered(o, k)'
      <4>1. CASE k = handler[h].index + 1
        BY <4>1, <3>3 DEF Covered, Recording
      <4>2. CASE k \in 1..handler[h].index
        BY <1>3, <3>1, <3>4, <4>2 DEF Kept
      <4>3. QED BY <3>2, <4>1, <4>2
    <3>7. QED BY <3>1, <3>2, <3>4, <3>6
  <2>3. QED BY <1>1, <1>4, <2>1, <2>2, SceneStep
<1>5. StepWithinScenario'
  BY <1>2, <1>4 DEF StepWithinScenario
<1>6. HistoryHasNoGaps'
  <2>1. ASSUME NEW o \in 1..Len(object'), NEW k \in 1..object'[o].index
        PROVE  Covered(o, k)'
    BY <1>2, <1>4, ScenarioFields
  <2>2. QED BY <1>2, <2>1 DEF HistoryHasNoGaps, Covered, Recording
<1>7. LateStepFits'
  <2> SUFFICES ASSUME NEW h \in Handlers, handler'[h].pc = "advancing",
                      NEW o, o = handler'[h].object
               PROVE  /\ handler'[h].index + 1 < object'[o].steps
                      /\ \A k \in 1..handler'[h].index : Covered(o, k)'
    BY DEF LateStepFits, Covered, Recording
  <2>1. CASE handler'[h] = handler[h]
    <3>1. /\ handler[h].pc = "advancing" /\ handler[h].object = o
          /\ o \in 1..Len(object) /\ handler[h].index \in Nat
      BY <1>1, <2>1, ThreadFields, SceneType DEF Fits
    <3>2. /\ handler[h].index + 1 < object[o].steps
          /\ \A k \in 1..handler[h].index : k \in Nat /\ Covered(o, k)
      BY <3>1 DEF SceneInv, LateStepFits
    <3>3. QED BY <1>3, <2>1, <3>1, <3>2 DEF Kept
  <2>2. CASE ReadStep(h)
    <3>1. /\ Scene(h).index + 1 < Scene(h).steps /\ handler[h].object = o
          /\ handler'[h].index = Scene(h).index /\ handler[h].pc = "stepping"
      BY <1>1, <2>2, ReadStepStep DEF GoesTo
    <3>2. o \in 1..Len(object) /\ Scene(h) = object[o] /\ Scene(h).index \in Nat
      BY <1>1, <3>1, ThreadFields, SceneType, ScenarioFields DEF Fits
    <3>3. \A k \in 1..object[o].index : k \in Nat /\ Covered(o, k)
      BY <1>2, <3>2 DEF SceneInv, HistoryHasNoGaps, Covered, Recording
    <3>4. QED BY <1>3, <3>1, <3>2, <3>3 DEF Kept
  <2>3. QED BY <1>1, <2>1, <2>2, SceneStep
<1>8. QED BY <1>1, <1>5, <1>6, <1>7 DEF SceneInv

LEMMA SceneInvCorrect == Spec => []SceneInv
<1>1. Init => SceneInv
  <2> SUFFICES ASSUME Init PROVE SceneInv
    OBVIOUS
  <2>1. TypeInv
    BY TypeInvInitial
  <2>2. DOMAIN object = {} /\ \A h \in Handlers : handler[h].pc = "idle"
    BY DEF Init
  <2>3. QED
    BY <2>1, <2>2 DEF SceneInv, StepWithinScenario, HistoryHasNoGaps, LateStepFits
<1>2. SceneInv /\ [Next]_vars => SceneInv'
  BY SceneInvPreserved
<1>3. QED BY <1>1, <1>2, PTL DEF Spec

(* No interleaving of requests, seeds and resets takes a scenario past its *)
(* last step, however late a thread writes it (app.py:219-242).            *)
THEOREM ScenariosStayInRange == Spec => []StepWithinScenario
<1>1. SceneInv => StepWithinScenario
  BY DEF SceneInv
<1>2. QED BY <1>1, SceneInvCorrect, PTL

(* Every step a scenario has reached is in its history or about to be,     *)
(* also when threads overtake one another (app.py:226-240).                *)
THEOREM HistoriesAreWhole == Spec => []HistoryHasNoGaps
<1>1. SceneInv => HistoryHasNoGaps
  BY DEF SceneInv
<1>2. QED BY <1>1, SceneInvCorrect, PTL

-----------------------------------------------------------------------------
(* The limit of a carrier.                                                 *)

(* Requests counted in the minute m that have not written the counter yet. *)
Waiting(c, m) ==
    {h \in Handlers : /\ handler[h].pc \in {"counting", "writing"}
                      /\ handler[h].track.carrier = c /\ handler[h].minute = m}

(* Whatever is lost or written twice, a counter and the requests still to  *)
(* be written into it never exceed the requests that began.                *)
NeverCountsTooMany ==
    \A c \in Carriers : \A m \in Minutes :
        /\ counter[c][m] + Cardinality(Waiting(c, m)) <= begun[c][m]
        /\ \A h \in Waiting(c, m) : handler[h].pc = "writing" =>
              handler[h].seen + Cardinality(Waiting(c, m)) <= begun[c][m]

CountInv == TypeInv /\ NeverCountsTooMany /\ RefusedOnlyOverLimit

LEMMA WaitingType ==
    ASSUME NEW c, NEW m
    PROVE  /\ IsFiniteSet(Waiting(c, m)) /\ IsFiniteSet(Waiting(c, m)')
           /\ Cardinality(Waiting(c, m)) \in Nat
           /\ Cardinality(Waiting(c, m)') \in Nat
           /\ Waiting(c, m)' \subseteq Waiting(c, m) =>
                 Cardinality(Waiting(c, m)') <= Cardinality(Waiting(c, m))
<1>1. Waiting(c, m) \subseteq Handlers /\ Waiting(c, m)' \subseteq Handlers
  BY DEF Waiting
<1>2. IsFiniteSet(Waiting(c, m)) /\ IsFiniteSet(Waiting(c, m)')
  BY <1>1, TracksAssumption, FS_Subset
<1>3. QED BY <1>2, FS_CardinalityType, FS_Subset

LEMMA CountTypes ==
    ASSUME TypeInv, NEW c \in Carriers, NEW m \in Minutes
    PROVE  counter[c][m] \in Nat /\ begun[c][m] \in Nat
BY DEF TypeInv, TypeOK

(* Steps that write neither a counter nor begin a request.                 *)
LEMMA CountsKept ==
    ASSUME CountInv, TypeInv', counter' = counter, begun' = begun,
           \A c, m : Waiting(c, m)' \subseteq Waiting(c, m),
           \A h \in Handlers : handler'[h].pc = "writing" =>
               \/ handler'[h] = handler[h]
               \/ handler'[h].seen
                     = counter[handler'[h].track.carrier][handler'[h].minute],
           \A h \in Handlers : handler'[h].pc = "refused" =>
               \/ handler'[h] = handler[h]
               \/ /\ handler'[h].track.carrier \in DOMAIN LimitPerMin
                  /\ counter[handler'[h].track.carrier][handler'[h].minute]
                        > LimitPerMin[handler'[h].track.carrier]
    PROVE  CountInv'
<1>1. TypeInv /\ NeverCountsTooMany /\ RefusedOnlyOverLimit
  BY DEF CountInv
<1>2. NeverCountsTooMany'
  <2> SUFFICES ASSUME NEW c \in Carriers, NEW m \in Minutes
               PROVE  /\ counter'[c][m] + Cardinality(Waiting(c, m)') <= begun'[c][m]
                      /\ \A h \in Waiting(c, m)' : handler'[h].pc = "writing" =>
                            handler'[h].seen + Cardinality(Waiting(c, m)') <= begun'[c][m]
    BY DEF NeverCountsTooMany
  <2> DEFINE now == Cardinality(Waiting(c, m))
             then == Cardinality(Waiting(c, m)')
  <2>1. /\ now \in Nat /\ then \in Nat /\ then <= now
        /\ counter[c][m] \in Nat /\ begun[c][m] \in Nat
        /\ counter[c][m] + now <= begun[c][m]
    BY <1>1, WaitingType, CountTypes DEF NeverCountsTooMany
  <2>2. ASSUME NEW h \in Waiting(c, m)', handler'[h].pc = "writing"
        PROVE  handler'[h].seen \in Nat /\ handler'[h].seen + now <= begun[c][m]
    <3>1. /\ h \in Waiting(c, m) /\ h \in Handlers
          /\ handler'[h].track.carrier = c /\ handler'[h].minute = m
      BY <2>2 DEF Waiting
    <3>2. CASE handler'[h] = handler[h]
      BY <1>1, <2>2, <3>1, <3>2, ThreadFields DEF NeverCountsTooMany
    <3>3. CASE handler'[h].seen = counter[c][m]
      BY <2>1, <3>3
    <3>4. QED BY <2>2, <3>1, <3>2, <3>3
  <2> HIDE DEF now, then
  <2>3. counter[c][m] + then <= begun[c][m]
    BY <2>1
  <2>4. \A h \in Waiting(c, m)' : handler'[h].pc = "writing" =>
            handler'[h].seen + then <= begun[c][m]
    BY <2>1, <2>2
  <2>5. QED BY <2>3, <2>4 DEF then
<1>3. RefusedOnlyOverLimit'
  <2> SUFFICES ASSUME NEW h \in Handlers, handler'[h].pc = "refused",
                      NEW c, c = handler'[h].track.carrier,
                      NEW m, m = handler'[h].minute
               PROVE  begun[c][m] > LimitPerMin[c]
    BY DEF RefusedOnlyOverLimit
  <2>1. CASE handler'[h] = handler[h]
    BY <1>1, <2>1 DEF RefusedOnlyOverLimit
  <2>2. CASE c \in DOMAIN LimitPerMin /\ counter[c][m] > LimitPerMin[c]
    <3>1. c \in Carriers /\ m \in Minutes
      BY TracksAssumption DEF TypeInv, TypeOK, Handler
    <3>2. counter[c][m] + Cardinality(Waiting(c, m)) <= begun[c][m]
      BY <1>1, <3>1 DEF NeverCountsTooMany
    <3>3. /\ counter[c][m] \in Nat /\ begun[c][m] \in Nat
          /\ Cardinality(Waiting(c, m)) \in Nat /\ LimitPerMin[c] \in Nat
      BY <1>1, <2>2, <3>1, CountTypes, WaitingType, LimitsAssumption
    <3>4. QED BY <2>2, <3>2, <3>3
  <2>3. QED BY <2>1, <2>2
<1>4. QED BY <1>2, <1>3 DEF CountInv

(* A request joins those waiting in its minute, and began in it.           *)
LEMMA CountRequest ==
    ASSUME CountInv, TypeInv', NEW h \in Handlers, Request(h)
    PROVE  CountInv'
<1>1. TypeInv /\ NeverCountsTooMany /\ RefusedOnlyOverLimit
  BY DEF CountInv
<1> DEFINE d == handler'[h].track.carrier
<1>2. /\ handler[h].pc \notin {"counting", "writing"}
      /\ handler'[h].pc \in {"counting", "looking"}
      /\ handler'[h].minute = minute /\ counter' = counter
      /\ \A i \in Handlers \ {h} : handler'[i] = handler[i]
      /\ begun' = [begun EXCEPT ![d][minute] = begun[d][minute] + 1]
  BY <1>1, RequestStep DEF Moves
<1>3. d \in Carriers /\ minute \in Minutes /\ begun[d][minute] \in Nat
  BY <1>1, TracksAssumption, CountTypes DEF TypeInv, TypeOK, Handler
<1>4. \A c \in Carriers : \A m \in Minutes :
         begun'[c][m] = IF c = d /\ m = minute THEN begun[c][m] + 1 ELSE begun[c][m]
  <2> DEFINE n == begun[d][minute] + 1
  <2>1. n \in Nat
    BY <1>3
  <2> HIDE DEF n, d
  <2>2. begun' = [begun EXCEPT ![d][minute] = n]
    BY <1>2 DEF n
  <2>3. \A c \in Carriers : \A m \in Minutes :
           begun'[c][m] = IF c = d /\ m = minute THEN n ELSE begun[c][m]
    BY <1>1, <1>3, <2>1, <2>2, SameScenarios, CountSet
  <2>4. QED BY <2>3 DEF n
<1>5. NeverCountsTooMany'
  <2> SUFFICES ASSUME NEW c \in Carriers, NEW m \in Minutes
               PROVE  /\ counter'[c][m] + Cardinality(Waiting(c, m)') <= begun'[c][m]
                      /\ \A i \in Waiting(c, m)' : handler'[i].pc = "writing" =>
                            handler'[i].seen + Cardinality(Waiting(c, m)') <= begun'[c][m]
    BY DEF NeverCountsTooMany
  <2> DEFINE now == Cardinality(Waiting(c, m))
             then == Cardinality(Waiting(c, m)')
  <2>1. /\ now \in Nat /\ then \in Nat /\ IsFiniteSet(Waiting(c, m))
        /\ counter[c][m] \in Nat /\ begun[c][m] \in Nat
        /\ counter[c][m] + now <= begun[c][m]
    BY <1>1, WaitingType, CountTypes DEF NeverCountsTooMany
  <2>2. CASE c = d /\ m = minute
    <3>1. Waiting(c, m)' \subseteq Waiting(c, m) \cup {h}
      BY <1>2 DEF Waiting
    <3>2. then <= now + 1
      <4>1. /\ IsFiniteSet(Waiting(c, m) \cup {h})
            /\ Cardinality(Waiting(c, m) \cup {h}) \in {now, now + 1}
        BY <2>1, FS_AddElement
      <4>2. /\ then <= Cardinality(Waiting(c, m) \cup {h})
            /\ Cardinality(Waiting(c, m) \cup {h}) \in Nat
        BY <3>1, <4>1, FS_Subset, FS_CardinalityType
      <4> HIDE DEF now, then
      <4>3. QED BY <2>1, <4>1, <4>2
    <3>3. begun'[c][m] = begun[c][m] + 1
      BY <1>4, <2>2
    <3>4. ASSUME NEW i \in Waiting(c, m)', handler'[i].pc = "writing"
          PROVE  handler'[i].seen \in Nat /\ handler'[i].seen + now <= begun[c][m]
      <4>1. i # h
        BY <1>2, <3>4
      <4>2. handler'[i] = handler[i] /\ i \in Waiting(c, m) /\ i \in Handlers
        BY <1>2, <4>1 DEF Waiting
      <4>3. QED BY <1>1, <3>4, <4>2, ThreadFields DEF NeverCountsTooMany
    <3> HIDE DEF now, then
    <3>5. counter'[c][m] + then <= begun'[c][m]
      BY <1>2, <2>1, <3>2, <3>3
    <3>6. \A i \in Waiting(c, m)' : handler'[i].pc = "writing" =>
             handler'[i].seen + then <= begun'[c][m]
      BY <2>1, <3>2, <3>3, <3>4
    <3>7. QED BY <3>5, <3>6 DEF then
  <2>3. CASE ~(c = d /\ m = minute)
    <3>1. Waiting(c, m)' = Waiting(c, m)
      BY <1>2, <2>3 DEF Waiting
    <3>2. \A i \in Waiting(c, m) : handler'[i] = handler[i]
      BY <1>2, <2>3 DEF Waiting
    <3>3. begun'[c][m] = begun[c][m]
      BY <1>4, <2>3
    <3>4. QED BY <1>1, <1>2, <3>1, <3>2, <3>3 DEF NeverCountsTooMany
  <2>4. QED BY <2>2, <2>3
<1>6. RefusedOnlyOverLimit'
  <2> SUFFICES ASSUME NEW i \in Handlers, handler'[i].pc = "refused",
                      NEW c, c = handler'[i].track.carrier,
                      NEW m, m = handler'[i].minute
               PROVE  begun'[c][m] > LimitPerMin[c]
    BY DEF RefusedOnlyOverLimit
  <2>1. handler'[i] = handler[i]
    BY <1>2
  <2>2. begun[c][m] > LimitPerMin[c]
    BY <1>1, <2>1 DEF RefusedOnlyOverLimit
  <2>3. c \in Carriers /\ m \in Minutes /\ c \in DOMAIN LimitPerMin
    BY <1>1, <2>1, ThreadFields DEF Fits
  <2>4. begun[c][m] \in Nat /\ LimitPerMin[c] \in Nat
    BY <1>1, <2>3, CountTypes, LimitsAssumption
  <2>5. QED BY <1>4, <2>2, <2>3, <2>4
<1>7. QED BY <1>5, <1>6 DEF CountInv

(* The thread that writes a counter no longer waits.                       *)
LEMMA CountWrite ==
    ASSUME CountInv, TypeInv', NEW h \in Handlers, WriteCounter(h)
    PROVE  CountInv'
<1>1. TypeInv /\ NeverCountsTooMany /\ RefusedOnlyOverLimit
  BY DEF CountInv
<1> DEFINE d == handler[h].track.carrier
           t == handler[h].minute
           n == handler[h].seen + 1
<1>2. /\ handler[h].pc = "writing" /\ handler'[h].pc = "comparing"
      /\ \A i \in Handlers \ {h} : handler'[i] = handler[i]
      /\ counter' = [counter EXCEPT ![d][t] = n] /\ begun' = begun
  BY <1>1, WriteCounterStep DEF GoesTo, Moves
<1>3. /\ d \in Carriers /\ t \in Minutes /\ n \in Nat
      /\ handler[h].seen \in Nat /\ n = handler[h].seen + 1
  BY <1>1, ThreadFields
<1> HIDE DEF n
<1>4. \A c \in Carriers : \A m \in Minutes :
         counter'[c][m] = IF c = d /\ m = t THEN n ELSE counter[c][m]
  <2> HIDE DEF d, t
  <2>1. QED BY <1>1, <1>2, <1>3, SameScenarios, CountSet
<1>5. NeverCountsTooMany'
  <2> SUFFICES ASSUME NEW c \in Carriers, NEW m \in Minutes
               PROVE  /\ counter'[c][m] + Cardinality(Waiting(c, m)') <= begun'[c][m]
                      /\ \A i \in Waiting(c, m)' : handler'[i].pc = "writing" =>
                            handler'[i].seen + Cardinality(Waiting(c, m)') <= begun'[c][m]
    BY DEF NeverCountsTooMany
  <2> DEFINE now == Cardinality(Waiting(c, m))
             then == Cardinality(Waiting(c, m)')
  <2>1. /\ now \in Nat /\ then \in Nat /\ IsFiniteSet(Waiting(c, m))
        /\ counter[c][m] \in Nat /\ begun[c][m] \in Nat
        /\ counter[c][m] + now <= begun[c][m]
    BY <1>1, WaitingType, CountTypes DEF NeverCountsTooMany
  <2>2. /\ Waiting(c, m)' = Waiting(c, m) \ {h}
        /\ \A i \in Waiting(c, m)' : i \in Handlers /\ handler'[i] = handler[i]
    BY <1>2 DEF Waiting
  <2>3. then <= now
    BY <2>2, WaitingType
  <2>4. ASSUME NEW i \in Waiting(c, m)', handler'[i].pc = "writing"
        PROVE  handler'[i].seen + then <= begun'[c][m]
    <3>1. handler[i].seen \in Nat /\ handler[i].seen + now <= begun[c][m]
      BY <1>1, <2>2, <2>4, ThreadFields DEF NeverCountsTooMany
    <3> HIDE DEF now, then
    <3>2. QED BY <1>2, <2>1, <2>2, <2>3, <3>1
  <2>5. counter'[c][m] + then <= begun'[c][m]
    <3>1. CASE c = d /\ m = t
      <4>1. h \in Waiting(c, m)
        BY <1>2, <3>1 DEF Waiting
      <4>2. then = now - 1
        BY <2>1, <2>2, <4>1, FS_RemoveElement
      <4>3. handler[h].seen + now <= begun[c][m]
        BY <1>1, <1>2, <4>1 DEF NeverCountsTooMany
      <4> HIDE DEF now, then
      <4>4. counter'[c][m] = handler[h].seen + 1
        BY <1>3, <1>4, <3>1
      <4>5. QED BY <1>2, <1>3, <2>1, <4>2, <4>3, <4>4
    <3>2. CASE ~(c = d /\ m = t)
      <4>1. counter'[c][m] = counter[c][m]
        BY <1>4, <3>2
      <4> HIDE DEF now, then
      <4>2. QED BY <1>2, <2>1, <2>3, <4>1
    <3>3. QED BY <3>1, <3>2
  <2>6. QED BY <2>4, <2>5
<1>6. RefusedOnlyOverLimit'
  <2> SUFFICES ASSUME NEW i \in Handlers, handler'[i].pc = "refused",
                      NEW c, c = handler'[i].track.carrier,
                      NEW m, m = handler'[i].minute
               PROVE  begun'[c][m] > LimitPerMin[c]
    BY DEF RefusedOnlyOverLimit
  <2>1. handler'[i] = handler[i]
    BY <1>2
  <2>2. QED BY <1>1, <1>2, <2>1 DEF RefusedOnlyOverLimit
<1>7. QED BY <1>5, <1>6 DEF CountInv

(* Reset forgets the counts, not the requests.                             *)
LEMMA CountReset ==
    ASSUME CountInv, TypeInv', Reset
    PROVE  CountInv'
<1>1. TypeInv /\ NeverCountsTooMany /\ RefusedOnlyOverLimit
  BY DEF CountInv
<1>2. /\ handler' = handler /\ begun' = begun
      /\ \A c \in Carriers : \A m \in Minutes : counter'[c][m] = 0
  BY DEF Reset
<1>3. ASSUME NEW c \in Carriers, NEW m \in Minutes
      PROVE  /\ 0 + Cardinality(Waiting(c, m)) <= begun[c][m]
             /\ Waiting(c, m)' = Waiting(c, m)
             /\ \A h \in Waiting(c, m) : handler[h].pc = "writing" =>
                   handler[h].seen + Cardinality(Waiting(c, m)) <= begun[c][m]
  <2> DEFINE now == Cardinality(Waiting(c, m))
  <2>1. /\ now \in Nat /\ counter[c][m] \in Nat /\ begun[c][m] \in Nat
        /\ counter[c][m] + now <= begun[c][m]
    BY <1>1, WaitingType, CountTypes DEF NeverCountsTooMany
  <2>2. Waiting(c, m)' = Waiting(c, m)
    BY <1>2 DEF Waiting
  <2>3. \A h \in Waiting(c, m) : handler[h].pc = "writing" =>
            handler[h].seen + now <= begun[c][m]
    BY <1>1 DEF NeverCountsTooMany
  <2> HIDE DEF now
  <2>4. 0 + now <= begun[c][m]
    BY <2>1
  <2>5. QED BY <2>2, <2>3, <2>4 DEF now
<1>4. NeverCountsTooMany'
  BY <1>2, <1>3 DEF NeverCountsTooMany
<1>5. RefusedOnlyOverLimit'
  BY <1>1, <1>2 DEF RefusedOnlyOverLimit
<1>6. QED BY <1>4, <1>5 DEF CountInv

LEMMA CountInvPreserved == CountInv /\ [Next]_vars => CountInv'
<1> SUFFICES ASSUME CountInv, [Next]_vars PROVE CountInv'
  OBVIOUS
<1>1. TypeInv /\ TypeInv'
  BY TypeInvPreserved DEF CountInv
<1>2. CASE Reset
  BY <1>1, <1>2, CountReset
<1>3. CASE \E h \in Handlers : Request(h)
  BY <1>1, <1>3, CountRequest
<1>4. CASE \E h \in Handlers : WriteCounter(h)
  BY <1>1, <1>4, CountWrite
<1>5. CASE Tick \/ (\E t \in Tracks : SeedV1(t)) \/ UNCHANGED vars
  <2>1. handler' = handler /\ counter' = counter /\ begun' = begun
    BY <1>5 DEF Tick, SeedV1, vars
  <2>2. \A c, m : Waiting(c, m)' \subseteq Waiting(c, m)
    BY <2>1 DEF Waiting
  <2>3. QED BY <1>1, <2>1, <2>2, CountsKept
<1>6. ASSUME NEW h \in Handlers, ReadCounter(h) PROVE CountInv'
  <2>1. /\ counter' = counter /\ begun' = begun /\ handler[h].pc = "counting"
        /\ handler'[h].pc = "writing" /\ handler'[h].track = handler[h].track
        /\ handler'[h].minute = handler[h].minute
        /\ handler'[h].seen = counter[handler[h].track.carrier][handler[h].minute]
        /\ \A i \in Handlers \ {h} : handler'[i] = handler[i]
    BY <1>1, <1>6, ReadCounterStep DEF GoesTo, Moves
  <2>2. \A c, m : Waiting(c, m)' \subseteq Waiting(c, m)
    BY <2>1 DEF Waiting
  <2>3. QED BY <1>1, <2>1, <2>2, CountsKept
<1>7. ASSUME NEW h \in Handlers, CompareCounter(h) PROVE CountInv'
  <2>1. /\ counter' = counter /\ begun' = begun /\ handler[h].pc = "comparing"
        /\ handler'[h].pc \in {"broken", "refused", "looking"}
        /\ handler'[h].track = handler[h].track /\ handler'[h].minute = handler[h].minute
        /\ handler'[h].pc = "refused" =>
              counter[handler[h].track.carrier][handler[h].minute]
                  > LimitPerMin[handler[h].track.carrier]
        /\ \A i \in Handlers \ {h} : handler'[i] = handler[i]
    BY <1>1, <1>7, CompareCounterStep DEF GoesTo, Moves
  <2>2. handler[h].track.carrier \in DOMAIN LimitPerMin
    BY <1>1, <2>1, ThreadFields DEF Fits
  <2>3. \A c, m : Waiting(c, m)' \subseteq Waiting(c, m)
    BY <2>1 DEF Waiting
  <2>4. QED BY <1>1, <2>1, <2>2, <2>3, CountsKept
<1>8. ASSUME NEW h \in Handlers,
             GetState(h) \/ CreateState(h) \/ ReadStep(h) \/ WriteStep(h)
                 \/ RecordStep(h) \/ CheckHistory(h) \/ FillHistory(h)
      PROVE  CountInv'
  <2>1. /\ counter' = counter /\ begun' = begun
        /\ handler[h].pc \notin {"counting", "writing"}
        /\ handler'[h].pc \notin {"counting", "writing", "refused"}
        /\ \A i \in Handlers \ {h} : handler'[i] = handler[i]
    BY <1>1, <1>8, GetStateStep, CreateStateStep, ReadStepStep, WriteStepStep,
       AppendEventStep, CheckHistoryStep DEF GoesTo, Moves
  <2>2. \A c, m : Waiting(c, m)' \subseteq Waiting(c, m)
    BY <2>1 DEF Waiting
  <2>3. QED BY <1>1, <2>1, <2>2, CountsKept
<1>9. QED
  BY <1>2, <1>3, <1>4, <1>5, <1>6, <1>7, <1>8 DEF Next

LEMMA CountInvInitial == Init => CountInv
<1> SUFFICES ASSUME Init PROVE CountInv
  OBVIOUS
<1>1. TypeInv
  BY TypeInvInitial
<1>2. /\ \A h \in Handlers : handler[h].pc = "idle"
      /\ \A c \in Carriers : \A m \in Minutes : counter[c][m] = 0 /\ begun[c][m] = 0
  BY DEF Init
<1>3. \A c, m : Waiting(c, m) = {}
  BY <1>2 DEF Waiting
<1>4. Cardinality({}) = 0
  BY FS_EmptySet
<1>5. QED BY <1>1, <1>2, <1>3, <1>4 DEF CountInv, NeverCountsTooMany, RefusedOnlyOverLimit

(* A request is refused only in a minute in which more requests than the   *)
(* limit began, whatever increments are lost, threads are late and resets  *)
(* forget (app.py:150-157).                                                *)
THEOREM RefusalsAreEarned == Spec => []RefusedOnlyOverLimit
<1>1. CountInv => RefusedOnlyOverLimit
  BY DEF CountInv
<1>2. QED BY <1>1, CountInvInitial, CountInvPreserved, PTL DEF Spec

=============================================================================
