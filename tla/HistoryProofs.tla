----------------------------- MODULE HistoryProofs -----------------------------
(* Proofs about History, for any number of checks, steps and page sizes.   *)
EXTENDS History, FiniteSetTheorems, TLAPS

-----------------------------------------------------------------------------
(* One page.                                                               *)

IsEvents(S) == IsFiniteSet(S) /\ \A e \in S : e.time \in Int

Later(S, e) == {f \in S : f.time > e.time}
Tied(S, e)  == \E f \in S \ {e} : f.time = e.time

LEMMA LaterType ==
    ASSUME NEW S, IsEvents(S), NEW e
    PROVE  IsFiniteSet(Later(S, e)) /\ Cardinality(Later(S, e)) \in Nat
<1>1. Later(S, e) \subseteq S /\ IsFiniteSet(S)
  BY DEF Later, IsEvents
<1>2. QED BY <1>1, FS_Subset, FS_CardinalityType

(* An event without a tie that has as many later ones as the client has    *)
(* got rows is on the next page, or has as many as it will have got then.  *)
LEMMA PageSkipsNothing ==
    ASSUME NEW S, IsEvents(S), NEW limit \in Nat \ {0}, NEW offset \in Nat,
           NEW P \in Pages(S, limit, offset),
           NEW e \in S, ~Tied(S, e), offset <= Cardinality(Later(S, e)),
           e \notin P
    PROVE  P # {} /\ offset + Cardinality(P) <= Cardinality(Later(S, e))
<1>1. /\ P \subseteq S /\ IsFiniteSet(S) /\ \A f \in S : f.time \in Int
      /\ \A f \in S : f.time = e.time => f = e
  BY DEF IsEvents, Pages, Tied
<1>2. PICK A \in SUBSET (S \ P) :
         /\ Cardinality(A) = IF offset < Cardinality(S) THEN offset ELSE Cardinality(S)
         /\ \/ Cardinality(P) = limit
            \/ Cardinality(P) < limit /\ A \cup P = S
         /\ NoneLater(A, P) /\ NoneLater(A \cup P, S \ (A \cup P))
  BY DEF Pages
<1> DEFINE L == Later(S, e)
           a == Cardinality(A)
           p == Cardinality(P)
           l == Cardinality(L)
           n == Cardinality(S)
<1>3. /\ IsFiniteSet(A) /\ IsFiniteSet(P) /\ IsFiniteSet(L)
      /\ a \in Nat /\ p \in Nat /\ l \in Nat /\ n \in Nat
  BY <1>1, FS_Subset, FS_CardinalityType, LaterType
<1>4. e \notin A
  <2> SUFFICES ASSUME e \in A PROVE FALSE
    OBVIOUS
  <2>1. L \cup {e} \subseteq A
    BY <1>1, <1>2 DEF Later, NoneLater
  <2>2. e \notin L
    BY <1>1 DEF Later
  <2>3. IsFiniteSet(L \cup {e}) /\ Cardinality(L \cup {e}) = l + 1
    BY <1>3, <2>2, FS_AddElement
  <2>4. Cardinality(L \cup {e}) <= a
    BY <1>3, <2>1, FS_Subset
  <2> HIDE DEF a, l, n, L
  <2>5. a <= offset
    BY <1>2, <1>3 DEF a, n
  <2>6. QED BY <1>3, <2>3, <2>4, <2>5 DEF l, L
<1>5. A \cup P \subseteq L
  BY <1>1, <1>2, <1>4 DEF Later, NoneLater
<1>6. a + p <= l
  <2>1. A \cap P = {}
    OBVIOUS
  <2>2. Cardinality(A \cup P) = a + p /\ IsFiniteSet(A \cup P)
    <3>1. /\ Cardinality(A \cup P) = a + p - Cardinality(A \cap P)
          /\ IsFiniteSet(A \cup P)
      BY <1>3, FS_Union
    <3>2. Cardinality(A \cap P) = 0
      BY <2>1, FS_EmptySet
    <3> HIDE DEF a, p
    <3>3. QED BY <1>3, <3>1, <3>2
  <2>3. Cardinality(A \cup P) <= l
    BY <1>3, <1>5, FS_Subset
  <2>4. QED BY <2>2, <2>3
<1>7. a = offset
  <2> SUFFICES ASSUME a = n PROVE FALSE
    BY <1>2
  <2>1. A = S
    BY <1>1, <1>2, FS_Subset
  <2>2. QED BY <1>4, <2>1
<1>8. P # {}
  <2> SUFFICES ASSUME P = {} PROVE FALSE
    OBVIOUS
  <2>1. p = 0
    BY FS_EmptySet
  <2>2. A \cup P = S
    BY <1>2, <2>1
  <2>3. QED BY <1>4, <2>2
<1>9. QED
  BY <1>6, <1>7, <1>8

-----------------------------------------------------------------------------
(* What is stored are events with times, none of them newer than the clock *)
(* or older than a default story.                                          *)

LEMMA SequenceOfEvents ==
    ASSUME NEW n \in Nat, NEW f, DOMAIN f = 1..n, f = [i \in 1..n |-> f[i]],
           \A i \in 1..n : f[i].time \in Int
    PROVE  IsEvents({f[i] : i \in 1..n})
<1> DEFINE S == {f[i] : i \in 1..n}
<1>1. f \in Surjection(1..n, S)
  BY DEF Surjection
<1>2. ExistsSurjection(1..n, S)
  BY <1>1 DEF ExistsSurjection
<1> HIDE DEF S
<1>3. IsFiniteSet(S)
  BY <1>2, FS_NatSurjection
<1>4. QED BY <1>3 DEF IsEvents, S

Statuses == {"UNKNOWN", "IN_TRANSIT", "DELIVERED"}
Oldest   == -(StepSeconds * Len(DefaultSteps))

LEMMA OldestIsPast == Oldest \in Int /\ Oldest <= 0
<1>1. Len(DefaultSteps) \in Nat /\ StepSeconds \in Nat
  BY HistoryAssumption
<1>2. StepSeconds * Len(DefaultSteps) \in Nat
  BY <1>1
<1>3. QED BY <1>2 DEF Oldest

Dated(E, t) == IsFiniteSet(E) /\ \A e \in E : e.time \in Oldest..t

LEMMA DatedEvents ==
    ASSUME NEW E, NEW t \in Int, Dated(E, t)
    PROVE  IsEvents(E)
BY OldestIsPast DEF Dated, IsEvents

LEMMA StillDated ==
    ASSUME NEW E, NEW t \in Int, NEW u \in Int, t <= u, Dated(E, t)
    PROVE  Dated(E, u)
BY OldestIsPast DEF Dated

LEMMA DatedOne ==
    ASSUME NEW e, NEW t, e.time \in Oldest..t
    PROVE  Dated({e}, t)
BY FS_Singleton DEF Dated

LEMMA DatedBoth ==
    ASSUME NEW E, NEW F, NEW t, Dated(E, t), Dated(F, t)
    PROVE  Dated(E \cup F, t)
BY FS_Union DEF Dated

LEMMA DatedNone ==
    ASSUME NEW t
    PROVE  Dated({}, t)
BY FS_EmptySet DEF Dated

-----------------------------------------------------------------------------
(* What the emulator tells.                                                *)

IsStory(s) ==
    /\ s.made = TRUE /\ s.created \in Int
    /\ s.steps \in Seq(STRING) /\ Len(s.steps) > 0

LEMMA StepIndexType ==
    ASSUME NEW s, IsStory(s), NEW at \in Int
    PROVE  CurrentStepIndex(s, at) \in 1..Len(s.steps)
<1>1. Len(s.steps) \in Nat \ {0} /\ StepSeconds \in Nat
  BY HistoryAssumption DEF IsStory
<1>2. Elapsed(s, at) \in Nat
  BY DEF IsStory, Elapsed
<1>3. CASE StepSeconds <= 0
  BY <1>1, <1>3 DEF CurrentStepIndex
<1>4. CASE StepSeconds > 0
  <2>1. Elapsed(s, at) \div StepSeconds \in Nat
    BY <1>1, <1>2, <1>4
  <2>2. QED BY <1>1, <2>1, <1>4 DEF CurrentStepIndex
<1>5. QED BY <1>1, <1>3, <1>4

LEMMA QuotientType ==
    ASSUME NEW d \in Nat, d > 0, NEW x \in Nat
    PROVE  x \div d \in Nat
BY SMTT(30)

LEMMA QuotientBelow ==
    ASSUME NEW d \in Nat \ {0}, NEW x \in Nat, NEW i \in Nat, i <= x \div d
    PROVE  d * i <= x
<1> DEFINE q == x \div d
<1>1. q \in Int /\ d * q <= x
  BY SMTT(30)
<1>2. d * i <= d * q
  BY <1>1, SMTT(30)
<1>3. d * i \in Int /\ d * q \in Int
  BY <1>1, SMTT(30)
<1> HIDE DEF q
<1>4. QED BY <1>1, <1>2, <1>3

(* Track24 shows no step before its time, nor before the story begins.     *)
LEMMA StepTimes ==
    ASSUME NEW s, IsStory(s), NEW at \in Int, NEW t \in Int, at <= t, s.created <= t,
           NEW i \in 1..CurrentStepIndex(s, at)
    PROVE  TimeOfStep(s, i) \in s.created..t
<1>1. /\ s.created \in Int /\ StepSeconds \in Nat /\ Len(s.steps) \in Nat
      /\ CurrentStepIndex(s, at) \in Int
  <2>1. s.created \in Int /\ StepSeconds \in Nat /\ Len(s.steps) \in Nat
    BY HistoryAssumption DEF IsStory
  <2>2. CurrentStepIndex(s, at) \in 1..Len(s.steps)
    BY StepIndexType
  <2>3. QED BY <2>1, <2>2
<1>2. i \in Nat \ {0} /\ i <= CurrentStepIndex(s, at)
  BY <1>1
<1>3. CASE StepSeconds = 0
  BY <1>1, <1>2, <1>3 DEF TimeOfStep
<1>4. CASE StepSeconds > 0
  <2> DEFINE x == Elapsed(s, at)
             q == x \div StepSeconds
  <2>1. x \in Nat /\ s.created + x <= t
    BY <1>1 DEF Elapsed
  <2>2. q \in Nat
    <3> HIDE DEF x
    <3> QED BY <1>1, <1>4, <2>1, QuotientType
  <2>3. CurrentStepIndex(s, at) = IF 1 + q < Len(s.steps) THEN 1 + q ELSE Len(s.steps)
    BY <1>1, <1>4 DEF CurrentStepIndex
  <2>4. i - 1 \in Nat /\ i - 1 <= q
    BY <1>1, <1>2, <2>2, <2>3
  <2> HIDE DEF x
  <2>5. StepSeconds * (i - 1) <= x
    <3>1. StepSeconds \in Nat \ {0}
      BY <1>1, <1>4
    <3> HIDE DEF q
    <3> DEFINE k == i - 1
    <3>2. k \in Nat /\ k <= x \div StepSeconds
      BY <2>4 DEF q
    <3> HIDE DEF k
    <3>3. StepSeconds * k <= x
      BY <2>1, <3>1, <3>2, QuotientBelow
    <3>4. QED BY <3>3 DEF k
  <2>6. StepSeconds * (i - 1) \in Nat
    BY <1>1, <2>4
  <2>7. TimeOfStep(s, i) = s.created + StepSeconds * (i - 1)
    BY DEF TimeOfStep
  <2> DEFINE y == StepSeconds * (i - 1)
  <2> HIDE DEF y
  <2>8. y \in Nat /\ y <= x /\ TimeOfStep(s, i) = s.created + y
    BY <2>5, <2>6, <2>7 DEF y
  <2>9. QED BY <1>1, <2>1, <2>8
<1>5. QED BY <1>1, <1>3, <1>4

Good(r, t) == r.status \in Statuses /\ Dated(r.events, t)

LEMMA Track24Bounds ==
    ASSUME NEW s, IsStory(s), NEW at \in Int, NEW when \in Int,
           NEW t \in Int, at <= t, s.created \in Oldest..t
    PROVE  Good(Track24Result(Track24Answer(s, at), when), t)
<1> DEFINE m == CurrentStepIndex(s, at)
           op == Track24Answer(s, at).operations
           r == Track24Result(Track24Answer(s, at), when)
<1>1. m \in Nat
  <2>1. Len(s.steps) \in Nat
    BY DEF IsStory
  <2>2. m \in 1..Len(s.steps)
    BY StepIndexType
  <2>3. QED BY <2>1, <2>2
<1>2. /\ Track24Answer(s, at).code = 200 /\ Track24Answer(s, at).status = "ok"
      /\ op = [i \in 1..m |-> [text |-> s.steps[i], dated |-> TRUE,
                               time |-> TimeOfStep(s, i)]]
  BY DEF Track24Answer
<1>3. ASSUME NEW i \in 1..m
      PROVE  OperationTime(op[i], when) \in Oldest..t
  <2>1. OperationTime(op[i], when) = TimeOfStep(s, i)
    BY <1>2 DEF OperationTime
  <2>2. s.created \in Int /\ s.created <= t /\ Oldest <= s.created
    BY OldestIsPast
  <2>3. TimeOfStep(s, i) \in s.created..t
    BY <2>2, StepTimes
  <2>4. QED BY <2>1, <2>2, <2>3, OldestIsPast
<1> HIDE DEF m, op
<1>4. Len(op) = m
  BY <1>1, <1>2
<1>5. /\ r.events = {[step |-> op[i].text, time |-> OperationTime(op[i], when)] : i \in 1..m}
      /\ r.status \in {"DELIVERED", "IN_TRANSIT"}
  BY <1>2, <1>4 DEF Track24Result, op
<1> HIDE DEF r
<1> DEFINE f == [i \in 1..m |-> [step |-> op[i].text, time |-> OperationTime(op[i], when)]]
<1>6. /\ DOMAIN f = 1..m /\ f = [i \in 1..m |-> f[i]]
      /\ \A i \in 1..m : f[i].time \in Int /\ f[i].time \in Oldest..t
  BY <1>3, OldestIsPast
<1>7. r.events = {f[i] : i \in 1..m}
  BY <1>5
<1> HIDE DEF f
<1>8. IsFiniteSet(r.events)
  BY <1>1, <1>6, <1>7, SequenceOfEvents DEF IsEvents
<1>9. Dated(r.events, t)
  BY <1>6, <1>7, <1>8 DEF Dated
<1>10. r.status \in Statuses
  BY <1>5 DEF Statuses
<1>11. QED BY <1>9, <1>10 DEF r, Good

-----------------------------------------------------------------------------
(* The invariant: checks, scenarios and the row are what they are said to  *)
(* be, and the bound on the stories made is kept by counting those that    *)
(* are about to be made.                                                   *)

V1Pcs == {"stepping", "advancing", "recording", "closing", "filling"}

IsThread(k, t) ==
    /\ k = V1Thread(k.pc, k.at, k.object, k.idx)
    /\ k.at \in 0..t /\ k.object \in 1..MaxScenarios /\ k.idx \in 1..Len(V1Steps)
    /\ k.pc = "advancing" => k.idx < Len(V1Steps)

GoodCheck(k, t) ==
    /\ k.pc \in {"idle", "looking", "making", "answered"} \cup V1Pcs
    /\ k.pc \in {"looking", "making"} => k = [pc |-> k.pc, at |-> k.at] /\ k.at \in 0..t
    /\ k.pc \in V1Pcs => client = "v1" /\ IsThread(k, t)
    /\ k.pc = "answered" => Good(k.result, t)

(* Nothing but the client that is configured checks.                       *)
GoodScenario(s, t) ==
    s.made => /\ client = "track24" => IsStory(s) /\ s.created \in Oldest..t
              /\ client = "v1" => s.object \in 1..MaxScenarios

GoodObject(x, t) ==
    /\ x = [idx |-> x.idx, events |-> x.events]
    /\ x.idx \in 1..Len(V1Steps) /\ Dated(x.events, t)

Making == {c \in Checks : check[c].pc = "making"}

Budget ==
    /\ IsFiniteSet(Making) /\ scenarios \in Nat
    /\ scenarios + Cardinality(Making) <= MaxScenarios

HistoryInv ==
    /\ client \in Clients /\ now \in 0..MaxTime[client]
    /\ status \in Statuses /\ Dated(stored, now)
    /\ GoodScenario(scenario, now)
    /\ DOMAIN object = 1..MaxScenarios
    /\ \A o \in 1..MaxScenarios : GoodObject(object[o], now)
    /\ DOMAIN check = Checks /\ \A c \in Checks : GoodCheck(check[c], now)
    /\ Budget

LEMMA NoRetraction ==
    ASSUME Next \/ UNCHANGED vars
    PROVE  client' = client /\ stored \subseteq stored'
BY DEF Next, vars, checkVars, rowVars, Tick, AdminSeed, EmulatorForgets, CheckStep,
       CheckFake, Ask, MissScenario, CheckTrack24, MakeDefault, FindV1, MakeV1,
       ReadStep, WriteStep, FindNothing, RecordEvent, AnswerV1, Apply,
       StartReading, ReadPage

LEMMA ClockType ==
    ASSUME client \in Clients, now \in 0..MaxTime[client]
    PROVE  now \in Nat /\ now \in Int /\ MaxTime[client] \in Nat
BY HistoryAssumption

LEMMA V1Length == Len(V1Steps) \in Nat \ {0}
<1> DEFINE step == [status : STRING, text : STRING]
<1>1. V1Steps \in Seq(step) /\ Len(V1Steps) > 0
  BY V1Assumption
<1> HIDE DEF step
<1>2. QED BY <1>1

LEMMA BudgetKept ==
    ASSUME Budget, DOMAIN check = Checks, NEW c \in Checks, NEW x,
           check' = [check EXCEPT ![c] = x], check[c].pc # "making", x.pc # "making",
           \/ scenarios' = scenarios
           \/ scenarios' = scenarios + 1 /\ Room
    PROVE  Budget'
<1>1. Making' = Making
  BY DEF Making
<1>2. IsFiniteSet(Making) /\ Cardinality(Making) \in Nat
  BY FS_CardinalityType DEF Budget
<1>3. Room => scenarios + Cardinality(Making) < MaxScenarios
  BY DEF Room, Making
<1>4. QED BY <1>1, <1>2, <1>3, HistoryAssumption DEF Budget

LEMMA BudgetTaken ==
    ASSUME Budget, DOMAIN check = Checks, NEW c \in Checks, NEW x,
           check' = [check EXCEPT ![c] = x], check[c].pc # "making", x.pc = "making",
           scenarios' = scenarios, Room
    PROVE  Budget'
<1>1. Making' = Making \cup {c} /\ c \notin Making
  BY DEF Making
<1>2. IsFiniteSet(Making) /\ Cardinality(Making) \in Nat
  BY FS_CardinalityType DEF Budget
<1>3. /\ IsFiniteSet(Making \cup {c})
      /\ Cardinality(Making \cup {c}) = Cardinality(Making) + 1
  BY <1>1, <1>2, FS_AddElement
<1>4. scenarios + Cardinality(Making) < MaxScenarios
  BY DEF Room, Making
<1>5. QED BY <1>1, <1>2, <1>3, <1>4, HistoryAssumption DEF Budget

LEMMA BudgetSpent ==
    ASSUME Budget, DOMAIN check = Checks, NEW c \in Checks, NEW x,
           check' = [check EXCEPT ![c] = x], check[c].pc = "making", x.pc # "making",
           scenarios' = scenarios + 1
    PROVE  Budget'
<1>1. Making' = Making \ {c} /\ c \in Making
  BY DEF Making
<1>2. IsFiniteSet(Making) /\ Cardinality(Making) \in Nat
  BY FS_CardinalityType DEF Budget
<1>3. /\ IsFiniteSet(Making \ {c})
      /\ Cardinality(Making \ {c}) = Cardinality(Making) - 1
  BY <1>1, <1>2, FS_RemoveElement
<1>4. QED BY <1>1, <1>2, <1>3, HistoryAssumption DEF Budget

(* One check moves, ...                                                    *)
LEMMA OneCheck ==
    ASSUME DOMAIN check = Checks, \A d \in Checks : GoodCheck(check[d], now),
           UNCHANGED <<now, client>>, NEW c \in Checks, NEW x,
           check' = [check EXCEPT ![c] = x], GoodCheck(x, now)
    PROVE  DOMAIN check' = Checks /\ \A d \in Checks : GoodCheck(check[d], now)'
<1>1. ASSUME NEW d \in Checks PROVE GoodCheck(check[d], now)'
  <2>1. GoodCheck(check'[d], now)
    <3>1. check'[d] = x \/ check'[d] = check[d]
      OBVIOUS
    <3>2. QED BY <3>1
  <2>2. QED BY <2>1 DEF GoodCheck
<1>2. QED BY <1>1

(* ... and nothing else does.                                              *)
LEMMA OnlyOneCheck ==
    ASSUME HistoryInv, NEW c \in Checks, NEW x, check' = [check EXCEPT ![c] = x],
           GoodCheck(x, now), check[c].pc # "making", x.pc # "making",
           UNCHANGED <<now, client, scenario, scenarios, object, status, stored>>
    PROVE  HistoryInv'
<1>1. DOMAIN check' = Checks /\ \A d \in Checks : GoodCheck(check[d], now)'
  BY OneCheck DEF HistoryInv
<1>2. Budget'
  BY BudgetKept DEF HistoryInv
<1>3. GoodScenario(scenario, now)'
  BY DEF HistoryInv, GoodScenario
<1>4. QED BY <1>1, <1>2, <1>3 DEF HistoryInv

(* A thread of v1 moves, and perhaps its object.                           *)
LEMMA OneThread ==
    ASSUME HistoryInv, NEW c \in Checks, NEW x, check' = [check EXCEPT ![c] = x],
           GoodCheck(x, now), check[c].pc # "making", x.pc # "making",
           NEW o \in 1..MaxScenarios, NEW y, object' = [object EXCEPT ![o] = y],
           GoodObject(y, now),
           UNCHANGED <<now, client, scenario, scenarios, status, stored>>
    PROVE  HistoryInv'
<1>1. DOMAIN check' = Checks /\ \A d \in Checks : GoodCheck(check[d], now)'
  BY OneCheck DEF HistoryInv
<1>2. Budget'
  BY BudgetKept DEF HistoryInv
<1>3. GoodScenario(scenario, now)'
  BY DEF HistoryInv, GoodScenario
<1>4. /\ DOMAIN object' = 1..MaxScenarios
      /\ \A p \in 1..MaxScenarios : GoodObject(object[p], now)'
  <2>1. DOMAIN object = 1..MaxScenarios
    BY DEF HistoryInv
  <2>2. ASSUME NEW p \in 1..MaxScenarios PROVE GoodObject(object'[p], now)
    <3>1. object'[p] = y \/ object'[p] = object[p]
      BY <2>1
    <3>2. QED BY <3>1 DEF HistoryInv
  <2>3. QED BY <2>1, <2>2
<1>5. QED BY <1>1, <1>2, <1>3, <1>4 DEF HistoryInv

LEMMA ThreadOf ==
    ASSUME HistoryInv, NEW c \in Checks, check[c].pc \in V1Pcs
    PROVE  /\ client = "v1" /\ IsThread(check[c], now)
           /\ check[c].at \in 0..now /\ check[c].object \in 1..MaxScenarios
           /\ check[c].idx \in 1..Len(V1Steps)
           /\ GoodObject(Object(c), now) /\ check[c].pc # "making"
BY DEF HistoryInv, GoodCheck, IsThread, Object, V1Pcs

LEMMA ThreadIsGood ==
    ASSUME client = "v1", NEW pc \in V1Pcs, NEW at \in 0..now,
           NEW o \in 1..MaxScenarios, NEW i \in 1..Len(V1Steps),
           pc = "advancing" => i < Len(V1Steps)
    PROVE  /\ GoodCheck(V1Thread(pc, at, o, i), now)
           /\ V1Thread(pc, at, o, i).pc # "making"
BY DEF GoodCheck, IsThread, V1Thread, V1Pcs

LEMMA SameThread ==
    ASSUME NEW k, NEW t, IsThread(k, t), NEW pc
    PROVE  [k EXCEPT !.pc = pc] = V1Thread(pc, k.at, k.object, k.idx)
BY DEF IsThread, V1Thread

LEMMA AnswerIsGood ==
    ASSUME NEW r, Good(r, now)
    PROVE  LET x == [pc |-> "answered", result |-> r]
           IN  GoodCheck(x, now) /\ x.pc # "making"
BY DEF GoodCheck, V1Pcs

LEMMA V1ResultIsGood ==
    ASSUME NEW i \in 1..Len(V1Steps), NEW E, NEW t, Dated(E, t)
    PROVE  Good(V1Result([code |-> 200, status |-> V1Steps[i].status, events |-> E]), t)
<1> DEFINE st == V1Steps[i].status
           a  == [code |-> 200, status |-> st, events |-> E]
<1>1. st \in {"", "UNKNOWN", "IN_TRANSIT", "DELIVERED"}
  BY V1Assumption
<1>2. a.code = 200 /\ a.status = st /\ a.events = E
  OBVIOUS
<1> HIDE DEF a, st
<1>3. V1Result(a) = [status |-> IF st = "" THEN "UNKNOWN" ELSE st, events |-> E]
  BY <1>2 DEF V1Result
<1> DEFINE shown == IF st = "" THEN "UNKNOWN" ELSE st
<1>4. shown \in Statuses
  BY <1>1 DEF Statuses
<1> HIDE DEF shown
<1>5. V1Result(a).status = shown /\ V1Result(a).events = E
  <2>1. V1Result(a) = [status |-> shown, events |-> E]
    BY <1>3 DEF shown
  <2>2. QED BY <2>1
<1>6. Good(V1Result(a), t)
  BY <1>4, <1>5 DEF Good
<1>7. QED BY <1>6 DEF a, st

LEMMA CheckOfTrack24 ==
    ASSUME HistoryInv, NEW c \in Checks,
           CheckFake(c) \/ Ask(c) \/ MissScenario(c) \/ CheckTrack24(c) \/ MakeDefault(c)
    PROVE  HistoryInv'
<1> DEFINE answered(r) == [pc |-> "answered", result |-> r]
<1>1. /\ now \in Nat /\ now \in Int /\ DOMAIN check = Checks
      /\ GoodCheck(check[c], now) /\ GoodScenario(scenario, now) /\ Budget
  BY ClockType DEF HistoryInv
<1>2. CASE CheckFake(c)
  <2>1. PICK d \in BOOLEAN : Answered(c, FakeResult(d, now))
    BY <1>2 DEF CheckFake
  <2> DEFINE r == FakeResult(d, now)
             x == answered(r)
  <2>2. check' = [check EXCEPT ![c] = x]
    BY <2>1 DEF Answered, Moves
  <2>3. Good(r, now)
    <3> DEFINE st == IF d THEN "DELIVERED" ELSE "IN_TRANSIT"
    <3>1. r = [status |-> st, events |-> {[step |-> st, time |-> now]}]
      BY DEF FakeResult
    <3>2. st \in Statuses
      BY DEF Statuses
    <3> HIDE DEF st
    <3> DEFINE e == [step |-> st, time |-> now]
    <3>3. Dated({e}, now)
      <4>1. e.time \in Oldest..now
        BY <1>1, OldestIsPast
      <4> HIDE DEF e
      <4>2. QED BY <4>1, DatedOne
    <3> HIDE DEF r
    <3>4. QED BY <3>1, <3>2, <3>3 DEF Good
  <2> HIDE DEF r
  <2>4. GoodCheck(x, now) /\ x.pc # "making"
    BY <2>3, AnswerIsGood
  <2> HIDE DEF x
  <2>5. /\ check[c].pc # "making"
        /\ UNCHANGED <<now, client, scenario, scenarios, object, status, stored>>
    BY <1>2 DEF CheckFake, CanCheck, rowVars
  <2>6. QED BY <2>2, <2>4, <2>5, OnlyOneCheck
<1>3. CASE Ask(c)
  <2> DEFINE x == [pc |-> "looking", at |-> now]
  <2>1. check' = [check EXCEPT ![c] = x]
    BY <1>3 DEF Ask, Moves
  <2>2. GoodCheck(x, now) /\ x.pc # "making"
    BY <1>1 DEF GoodCheck, V1Pcs
  <2> HIDE DEF x
  <2>3. /\ check[c].pc # "making"
        /\ UNCHANGED <<now, client, scenario, scenarios, object, status, stored>>
    BY <1>3 DEF Ask, CanCheck, rowVars
  <2>4. QED BY <2>1, <2>2, <2>3, OnlyOneCheck
<1>4. CASE MissScenario(c)
  <2> DEFINE x == [check[c] EXCEPT !.pc = "making"]
  <2>1. /\ check' = [check EXCEPT ![c] = x] /\ check[c].pc = "looking" /\ Room
        /\ UNCHANGED <<now, client, scenario, scenarios, object, status, stored>>
    BY <1>4 DEF MissScenario, Moves, rowVars
  <2>2. x = [pc |-> "making", at |-> check[c].at] /\ check[c].at \in 0..now
    BY <1>1, <2>1 DEF GoodCheck
  <2> HIDE DEF x
  <2>3. GoodCheck(x, now) /\ x.pc = "making"
    BY <2>2 DEF GoodCheck, V1Pcs
  <2>4. DOMAIN check' = Checks /\ \A d \in Checks : GoodCheck(check[d], now)'
    BY <2>1, <2>3, OneCheck DEF HistoryInv
  <2>5. Budget'
    BY <1>1, <2>1, <2>3, BudgetTaken
  <2>6. GoodScenario(scenario, now)'
    BY <1>1, <2>1 DEF GoodScenario
  <2>7. QED BY <2>1, <2>4, <2>5, <2>6 DEF HistoryInv
<1>5. CASE CheckTrack24(c)
  <2> DEFINE r == Track24Result(Track24Answer(scenario, check[c].at), now)
             x == answered(r)
  <2>1. /\ check[c].pc = "looking" /\ client = "track24" /\ scenario.made
        /\ check' = [check EXCEPT ![c] = x]
        /\ UNCHANGED <<now, client, scenario, scenarios, object, status, stored>>
    BY <1>5 DEF CheckTrack24, Answered, Moves, rowVars
  <2>2. check[c].at \in 0..now
    BY <1>1, <2>1 DEF GoodCheck
  <2>3. IsStory(scenario) /\ scenario.created \in Oldest..now
    BY <1>1, <2>1 DEF GoodScenario
  <2>4. check[c].at \in Int /\ check[c].at <= now
    BY <1>1, <2>2
  <2>5. Good(r, now)
    BY <1>1, <2>3, <2>4, Track24Bounds
  <2> HIDE DEF r
  <2>6. GoodCheck(x, now) /\ x.pc # "making"
    BY <2>5, AnswerIsGood
  <2> HIDE DEF x
  <2>7. QED BY <2>1, <2>6, OnlyOneCheck
<1>6. CASE MakeDefault(c)
  <2> DEFINE at == check[c].at
             s == Default(at)
             r == Track24Result(Track24Answer(s, at), now)
             x == answered(r)
  <2>1. /\ check[c].pc = "making" /\ client = "track24"
        /\ scenario' = s /\ scenarios' = scenarios + 1 /\ check' = [check EXCEPT ![c] = x]
        /\ UNCHANGED <<now, client, object, status, stored>>
    BY <1>6 DEF MakeDefault, Made, Answered, Moves, rowVars
  <2>2. at \in 0..now
    BY <1>1, <2>1 DEF GoodCheck
  <2>3. IsStory(s) /\ s.created \in Oldest..now
    <3>1. StepSeconds * Len(DefaultSteps) \in Int
      BY HistoryAssumption
    <3>2. s.created = at - StepSeconds * Len(DefaultSteps)
      BY DEF Default
    <3>3. s.created = at + Oldest
      BY <2>2, <3>1, <3>2 DEF Oldest
    <3>4. s.created \in Oldest..now /\ s.created \in Int
      BY <1>1, <2>2, <3>3, OldestIsPast
    <3>5. s.made = TRUE /\ s.steps = DefaultSteps
      BY DEF Default
    <3> HIDE DEF s
    <3>6. QED BY <3>4, <3>5, HistoryAssumption DEF IsStory
  <2> HIDE DEF s
  <2>4. at \in Int /\ at <= now
    BY <1>1, <2>2
  <2> HIDE DEF at
  <2>5. Good(r, now)
    BY <1>1, <2>3, <2>4, Track24Bounds
  <2> HIDE DEF r
  <2>6. GoodCheck(x, now) /\ x.pc # "making"
    BY <2>5, AnswerIsGood
  <2> HIDE DEF x
  <2>7. DOMAIN check' = Checks /\ \A d \in Checks : GoodCheck(check[d], now)'
    BY <2>1, <2>6, OneCheck DEF HistoryInv
  <2>8. Budget'
    BY <1>1, <2>1, <2>6, BudgetSpent
  <2>9. GoodScenario(scenario, now)'
    BY <2>1, <2>3 DEF GoodScenario
  <2>10. QED BY <2>1, <2>7, <2>8, <2>9 DEF HistoryInv
<1>7. QED BY <1>2, <1>3, <1>4, <1>5, <1>6

LEMMA CheckOfV1 ==
    ASSUME HistoryInv, NEW c \in Checks,
           \/ FindV1(c) \/ MakeV1(c) \/ ReadStep(c) \/ WriteStep(c)
           \/ FindNothing(c) \/ RecordEvent(c) \/ AnswerV1(c)
    PROVE  HistoryInv'
<1> DEFINE o == check[c].object
<1>1. /\ now \in Nat /\ now \in Int /\ DOMAIN check = Checks
      /\ GoodCheck(check[c], now) /\ GoodScenario(scenario, now) /\ Budget
      /\ Len(V1Steps) \in Nat \ {0} /\ 1 \in 1..Len(V1Steps)
  <2>1. Len(V1Steps) \in Nat \ {0}
    BY V1Length
  <2>2. QED BY <2>1, ClockType DEF HistoryInv
<1>2. CASE FindV1(c)
  <2> DEFINE x == V1Thread("stepping", check[c].at, scenario.object, 1)
  <2>1. /\ check[c].pc = "looking" /\ client = "v1" /\ scenario.made
        /\ check' = [check EXCEPT ![c] = x]
        /\ UNCHANGED <<now, client, scenario, scenarios, object, status, stored>>
    BY <1>2 DEF FindV1, Moves, rowVars
  <2>2. check[c].at \in 0..now /\ scenario.object \in 1..MaxScenarios
    BY <1>1, <2>1 DEF GoodCheck, GoodScenario
  <2>3. GoodCheck(x, now) /\ x.pc # "making"
    BY <1>1, <2>1, <2>2, ThreadIsGood DEF V1Pcs
  <2> HIDE DEF x
  <2>4. QED BY <2>1, <2>3, OnlyOneCheck
<1>3. CASE MakeV1(c)
  <2> DEFINE x == V1Thread("stepping", check[c].at, scenarios + 1, 1)
  <2>1. /\ check[c].pc = "making" /\ client = "v1"
        /\ scenario' = [made |-> TRUE, object |-> scenarios + 1]
        /\ scenarios' = scenarios + 1 /\ check' = [check EXCEPT ![c] = x]
        /\ UNCHANGED <<now, client, object, status, stored>>
    BY <1>3 DEF MakeV1, Made, Moves, rowVars
  <2>2. check[c].at \in 0..now
    BY <1>1, <2>1 DEF GoodCheck
  <2>3. scenarios + 1 \in 1..MaxScenarios
    <3>1. IsFiniteSet(Making) /\ c \in Making
      BY <1>1, <2>1 DEF Budget, Making
    <3>2. Cardinality(Making) \in Nat /\ Cardinality(Making) # 0
      BY <3>1, FS_CardinalityType, FS_EmptySet
    <3>3. QED BY <1>1, <3>2, HistoryAssumption DEF Budget
  <2>4. GoodCheck(x, now) /\ x.pc # "making"
    BY <1>1, <2>1, <2>2, <2>3, ThreadIsGood DEF V1Pcs
  <2> HIDE DEF x
  <2>5. DOMAIN check' = Checks /\ \A d \in Checks : GoodCheck(check[d], now)'
    BY <2>1, <2>4, OneCheck DEF HistoryInv
  <2>6. Budget'
    BY <1>1, <2>1, <2>4, BudgetSpent
  <2>7. GoodScenario(scenario, now)'
    BY <2>1, <2>3 DEF GoodScenario
  <2>8. QED BY <2>1, <2>5, <2>6, <2>7 DEF HistoryInv
<1>4. CASE ReadStep(c)
  <2>1. PICK pc \in {"closing"} \cup
               (IF Object(c).idx < Len(V1Steps) THEN {"advancing"} ELSE {}) :
          Moves(c, V1Thread(pc, check[c].at, o, Object(c).idx))
    BY <1>4 DEF ReadStep
  <2> DEFINE x == V1Thread(pc, check[c].at, o, Object(c).idx)
  <2>2. /\ check[c].pc \in V1Pcs /\ check' = [check EXCEPT ![c] = x]
        /\ UNCHANGED <<now, client, scenario, scenarios, object, status, stored>>
    BY <1>4, <2>1 DEF ReadStep, Moves, rowVars, V1Pcs
  <2>3. /\ pc \in V1Pcs
        /\ pc = "advancing" => Object(c).idx < Len(V1Steps)
    BY <2>1 DEF V1Pcs
  <2>4. /\ client = "v1" /\ check[c].at \in 0..now /\ o \in 1..MaxScenarios
        /\ Object(c).idx \in 1..Len(V1Steps) /\ check[c].pc # "making"
    BY <2>2, ThreadOf DEF GoodObject
  <2>5. GoodCheck(x, now) /\ x.pc # "making"
    BY <2>3, <2>4, ThreadIsGood
  <2> HIDE DEF x
  <2>6. QED BY <2>2, <2>4, <2>5, OnlyOneCheck
<1>5. CASE WriteStep(c)
  <2> DEFINE i == check[c].idx + 1
             x == V1Thread("recording", check[c].at, o, i)
             y == [idx |-> i, events |-> Object(c).events]
  <2>1. /\ check[c].pc = "advancing" /\ check[c].pc \in V1Pcs
        /\ object' = [object EXCEPT ![o].idx = i] /\ check' = [check EXCEPT ![c] = x]
        /\ UNCHANGED <<now, client, scenario, scenarios, status, stored>>
    BY <1>5 DEF WriteStep, Moves, rowVars, V1Pcs
  <2>2. /\ client = "v1" /\ check[c].at \in 0..now /\ o \in 1..MaxScenarios
        /\ GoodObject(Object(c), now) /\ check[c].pc # "making"
        /\ check[c].idx \in 1..Len(V1Steps) /\ IsThread(check[c], now)
    BY <2>1, ThreadOf
  <2>3. i \in 1..Len(V1Steps)
    BY <1>1, <2>1, <2>2 DEF IsThread
  <2>4. GoodCheck(x, now) /\ x.pc # "making"
    BY <2>2, <2>3, ThreadIsGood DEF V1Pcs
  <2>5. GoodObject(y, now)
    BY <2>2, <2>3 DEF GoodObject
  <2>6. object' = [object EXCEPT ![o] = y]
    <3>1. [Object(c) EXCEPT !.idx = i] = y
      BY <2>2 DEF GoodObject
    <3>2. object' = [object EXCEPT ![o] = [Object(c) EXCEPT !.idx = i]]
      BY <2>1 DEF Object
    <3> HIDE DEF y
    <3>3. QED BY <3>1, <3>2
  <2> HIDE DEF x, y, o
  <2>7. QED BY <2>1, <2>2, <2>4, <2>5, <2>6, OneThread
<1>6. CASE FindNothing(c)
  <2> DEFINE x == [check[c] EXCEPT !.pc = "filling"]
  <2>1. /\ check[c].pc \in V1Pcs /\ check' = [check EXCEPT ![c] = x]
        /\ UNCHANGED <<now, client, scenario, scenarios, object, status, stored>>
    BY <1>6 DEF FindNothing, Moves, rowVars, V1Pcs
  <2>2. /\ client = "v1" /\ check[c].at \in 0..now /\ o \in 1..MaxScenarios
        /\ check[c].idx \in 1..Len(V1Steps) /\ check[c].pc # "making"
        /\ IsThread(check[c], now)
    BY <2>1, ThreadOf
  <2>3. x = V1Thread("filling", check[c].at, o, check[c].idx)
    BY <2>2, SameThread
  <2> HIDE DEF x
  <2>4. GoodCheck(x, now) /\ x.pc # "making"
    BY <2>2, <2>3, ThreadIsGood DEF V1Pcs
  <2>5. QED BY <2>1, <2>2, <2>4, OnlyOneCheck
<1>7. CASE RecordEvent(c)
  <2> DEFINE x == [check[c] EXCEPT !.pc = "closing"]
             E == Object(c).events \cup {V1Event(c)}
             y == [idx |-> Object(c).idx, events |-> E]
  <2>1. /\ check[c].pc \in V1Pcs /\ check' = [check EXCEPT ![c] = x]
        /\ object' = [object EXCEPT ![o].events = E]
        /\ UNCHANGED <<now, client, scenario, scenarios, status, stored>>
    BY <1>7 DEF RecordEvent, Moves, rowVars, V1Pcs
  <2>2. /\ client = "v1" /\ check[c].at \in 0..now /\ o \in 1..MaxScenarios
        /\ check[c].idx \in 1..Len(V1Steps) /\ check[c].pc # "making"
        /\ IsThread(check[c], now) /\ GoodObject(Object(c), now)
    BY <2>1, ThreadOf
  <2>3. x = V1Thread("closing", check[c].at, o, check[c].idx)
    BY <2>2, SameThread
  <2>4. Dated(E, now)
    <3>1. V1Event(c).time \in Oldest..now
      BY <1>1, <2>2, OldestIsPast DEF V1Event
    <3>2. Dated({V1Event(c)}, now)
      BY <3>1, DatedOne
    <3>3. QED BY <2>2, <3>2, DatedBoth DEF GoodObject
  <2>5. object' = [object EXCEPT ![o] = y]
    <3> HIDE DEF E
    <3>1. [Object(c) EXCEPT !.events = E] = y
      BY <2>2 DEF GoodObject
    <3>2. object' = [object EXCEPT ![o] = [Object(c) EXCEPT !.events = E]]
      BY <2>1 DEF Object
    <3> HIDE DEF y
    <3>3. QED BY <3>1, <3>2
  <2> HIDE DEF E
  <2>6. GoodObject(y, now)
    BY <2>2, <2>4 DEF GoodObject
  <2> HIDE DEF x, y
  <2>7. GoodCheck(x, now) /\ x.pc # "making"
    BY <2>2, <2>3, ThreadIsGood DEF V1Pcs
  <2> HIDE DEF o
  <2>8. QED BY <2>1, <2>2, <2>5, <2>6, <2>7, OneThread
<1>8. CASE AnswerV1(c)
  <2> DEFINE r == V1Result(V1Answer(c))
             x == [pc |-> "answered", result |-> r]
  <2>1. /\ check[c].pc \in V1Pcs /\ check' = [check EXCEPT ![c] = x]
        /\ UNCHANGED <<now, client, scenario, scenarios, object, status, stored>>
    BY <1>8 DEF AnswerV1, Answered, Moves, rowVars, V1Pcs
  <2>2. /\ check[c].idx \in 1..Len(V1Steps) /\ check[c].pc # "making"
        /\ Dated(Object(c).events, now)
    BY <2>1, ThreadOf DEF GoodObject
  <2>3. Good(r, now)
    BY <2>2, V1ResultIsGood DEF V1Answer
  <2> HIDE DEF r
  <2>4. GoodCheck(x, now) /\ x.pc # "making"
    BY <2>3, AnswerIsGood
  <2> HIDE DEF x
  <2>5. QED BY <2>1, <2>2, <2>4, OnlyOneCheck
<1>9. QED BY <1>2, <1>3, <1>4, <1>5, <1>6, <1>7, <1>8

LEMMA CheckEnds ==
    ASSUME HistoryInv, NEW c \in Checks, Apply(c)
    PROVE  HistoryInv'
<1> DEFINE x == Idle
<1>1. /\ check[c].pc = "answered" /\ status' = check[c].result.status
      /\ stored' = stored \cup check[c].result.events
      /\ check' = [check EXCEPT ![c] = x]
      /\ UNCHANGED <<now, client, scenario, scenarios, object>>
  BY DEF Apply, Moves
<1>2. Good(check[c].result, now)
  BY <1>1 DEF HistoryInv, GoodCheck
<1>3. status' \in Statuses /\ Dated(stored', now)
  BY <1>1, <1>2, DatedBoth DEF Good, HistoryInv
<1>4. GoodCheck(x, now) /\ x.pc # "making"
  BY DEF GoodCheck, Idle, V1Pcs
<1> HIDE DEF x
<1>5. DOMAIN check' = Checks /\ \A d \in Checks : GoodCheck(check[d], now)'
  BY <1>1, <1>4, OneCheck DEF HistoryInv
<1>6. Budget'
  BY <1>1, <1>4, BudgetKept DEF HistoryInv
<1>7. GoodScenario(scenario, now)'
  BY <1>1 DEF HistoryInv, GoodScenario
<1>8. QED BY <1>1, <1>3, <1>5, <1>6, <1>7 DEF HistoryInv

LEMMA TimePasses ==
    ASSUME HistoryInv, Tick
    PROVE  HistoryInv'
<1>1. /\ now \in Nat /\ now \in Int /\ MaxTime[client] \in Nat
      /\ GoodScenario(scenario, now) /\ Budget
  BY ClockType DEF HistoryInv
<1>2. /\ now < MaxTime[client] /\ now' = now + 1
      /\ UNCHANGED <<client, check, scenario, scenarios, object, status, stored>>
  BY DEF Tick, checkVars, rowVars
<1>3. /\ now' \in 0..MaxTime[client] /\ now' \in Int /\ now' \in Nat /\ now <= now'
      /\ \A E : Dated(E, now) => Dated(E, now')
      /\ \A r : Good(r, now) => Good(r, now')
  BY <1>1, <1>2, StillDated DEF Good
<1>4. GoodScenario(scenario, now)'
  BY <1>1, <1>2, <1>3, OldestIsPast DEF GoodScenario
<1>5. \A o \in 1..MaxScenarios : GoodObject(object[o], now)'
  BY <1>2, <1>3 DEF HistoryInv, GoodObject
<1>6. ASSUME NEW d \in Checks PROVE GoodCheck(check[d], now)'
  <2> DEFINE k == check[d]
  <2>1. GoodCheck(k, now)
    BY DEF HistoryInv
  <2>2. k.at \in 0..now => k.at \in 0..now'
    BY <1>1, <1>3
  <2> HIDE DEF k
  <2>3. IsThread(k, now) => IsThread(k, now')
    BY <2>2 DEF IsThread
  <2>4. GoodCheck(k, now')
    BY <1>3, <2>1, <2>2, <2>3 DEF GoodCheck
  <2>5. QED BY <1>2, <2>4 DEF GoodCheck, k
<1>7. Budget'
  BY <1>1, <1>2 DEF Budget, Making
<1>8. QED BY <1>2, <1>3, <1>4, <1>5, <1>6, <1>7 DEF HistoryInv

LEMMA HistoryInvPreserved == HistoryInv /\ [Next]_vars => HistoryInv'
<1> SUFFICES ASSUME HistoryInv, [Next]_vars PROVE HistoryInv'
  OBVIOUS
<1>1. ASSUME NEW c \in Checks, CheckStep(c) PROVE HistoryInv'
  BY <1>1, CheckOfTrack24, CheckOfV1, CheckEnds DEF CheckStep
<1>2. CASE AdminSeed
  <2>1. PICK steps \in Seeds :
           scenario' = [made |-> TRUE, steps |-> steps, created |-> now]
    BY <1>2 DEF AdminSeed, Made
  <2>2. /\ client = "track24" /\ Room /\ scenarios' = scenarios + 1
        /\ UNCHANGED <<now, client, check, object, status, stored>>
    BY <1>2 DEF AdminSeed, Made, rowVars
  <2>3. now \in Int /\ now \in Nat
    BY ClockType DEF HistoryInv
  <2>4. IsStory(scenario') /\ scenario'.created = now
    BY <2>1, <2>3, SeedsAssumption DEF IsStory
  <2>5. GoodScenario(scenario, now)'
    BY <2>2, <2>3, <2>4, OldestIsPast DEF GoodScenario
  <2>6. Budget'
    <3>1. Making' = Making
      BY <2>2 DEF Making
    <3>2. IsFiniteSet(Making) /\ Cardinality(Making) \in Nat /\ scenarios \in Nat
      BY FS_CardinalityType DEF Budget, HistoryInv
    <3>3. scenarios + Cardinality(Making) < MaxScenarios
      BY <2>2 DEF Room, Making
    <3>4. QED BY <2>2, <3>1, <3>2, <3>3, HistoryAssumption DEF Budget
  <2>7. QED BY <2>2, <2>5, <2>6 DEF HistoryInv, GoodCheck
<1>3. CASE EmulatorForgets
  <2>1. /\ scenario'.made = FALSE
        /\ UNCHANGED <<now, client, check, scenarios, object, status, stored>>
    BY <1>3 DEF EmulatorForgets, NoScenario, rowVars
  <2>2. GoodScenario(scenario, now)' /\ Budget'
    BY <2>1 DEF HistoryInv, GoodScenario, Budget, Making
  <2>3. QED BY <2>1, <2>2 DEF HistoryInv, GoodCheck
<1>4. CASE (\E limit \in Limits : StartReading(limit)) \/ ReadPage \/ UNCHANGED vars
  <2>1. UNCHANGED <<now, client, check, scenario, scenarios, object, status, stored>>
    BY <1>4 DEF StartReading, ReadPage, vars, checkVars, rowVars
  <2>2. QED BY <2>1 DEF HistoryInv, GoodScenario, GoodCheck, Budget, Making
<1>5. QED BY <1>1, <1>2, <1>3, <1>4, TimePasses DEF Next

LEMMA HistoryInvInitial == Init => HistoryInv
<1> SUFFICES ASSUME Init PROVE HistoryInv
  OBVIOUS
<1>1. /\ now = 0 /\ stored = {} /\ scenario.made = FALSE /\ scenarios = 0
      /\ status = "UNKNOWN" /\ DOMAIN check = Checks
      /\ object = [o \in 1..MaxScenarios |-> NewObject]
      /\ \A c \in Checks : check[c].pc = "idle"
  BY DEF Init, NoScenario, Idle
<1>2. client \in Clients
  BY DEF Init, ClientFor, Clients
<1>3. 0 \in 0..MaxTime[client]
  BY <1>2, HistoryAssumption
<1>4. GoodObject(NewObject, 0)
  BY V1Length, DatedNone DEF GoodObject, NewObject
<1>5. \A o \in 1..MaxScenarios : GoodObject(object[o], now)
  BY <1>1, <1>4
<1>6. Making = {}
  BY <1>1 DEF Making
<1>7. Budget
  BY <1>1, <1>6, FS_EmptySet, HistoryAssumption DEF Budget
<1>8. \A c \in Checks : GoodCheck(check[c], now)
  BY <1>1 DEF GoodCheck, V1Pcs
<1>9. GoodScenario(scenario, now) /\ status \in Statuses /\ Dated(stored, now)
  BY <1>1, DatedNone DEF GoodScenario, Statuses
<1>10. QED BY <1>1, <1>2, <1>3, <1>5, <1>7, <1>8, <1>9 DEF HistoryInv

-----------------------------------------------------------------------------
(* The reader.                                                             *)

Reading ==
    [pc : {"reading"}, limit : Nat \ {0}, offset : Nat, missing : SUBSET stored]

(* What has not been read is tied, or has so many later events that the    *)
(* next pages are still to bring it.                                       *)
StillToCome ==
    reader.pc = "reading" =>
        /\ reader \in Reading
        /\ \A e \in reader.missing :
              Tied(stored, e) \/ reader.offset <= Cardinality(Later(stored, e))

ReaderInv == HistoryInv /\ StillToCome /\ SkippedOnlyAmongTies

LEMMA StoredEvents ==
    /\ HistoryInv => IsEvents(stored)
    /\ HistoryInv' => IsEvents(stored')
<1>1. ASSUME HistoryInv PROVE IsEvents(stored)
  <2>1. now \in Int /\ Dated(stored, now)
    BY <1>1, ClockType DEF HistoryInv
  <2>2. QED BY <2>1, DatedEvents
<1>2. ASSUME HistoryInv' PROVE IsEvents(stored')
  <2>1. client' \in Clients /\ now' \in 0..MaxTime[client'] /\ Dated(stored', now')
    BY <1>2 DEF HistoryInv
  <2>2. now' \in Int
    BY <2>1, HistoryAssumption
  <2>3. QED BY <2>1, <2>2, DatedEvents
<1>3. QED BY <1>1, <1>2

(* More events do not bring e nearer.                                      *)
LEMMA MoreLater ==
    ASSUME NEW S, NEW T, IsEvents(S), IsEvents(T), S \subseteq T, NEW e
    PROVE  /\ Tied(S, e) => Tied(T, e)
           /\ Cardinality(Later(S, e)) <= Cardinality(Later(T, e))
<1>1. Later(S, e) \subseteq Later(T, e)
  BY DEF Later
<1>2. QED BY <1>1, LaterType, FS_Subset DEF Tied

LEMMA ReaderWaits ==
    ASSUME ReaderInv, HistoryInv', reader' = reader, stored \subseteq stored'
    PROVE  ReaderInv'
<1>1. IsEvents(stored) /\ IsEvents(stored')
  BY StoredEvents DEF ReaderInv
<1>2. StillToCome'
  <2> SUFFICES ASSUME reader.pc = "reading"
               PROVE  /\ reader \in Reading'
                      /\ \A e \in reader.missing :
                            \/ Tied(stored', e)
                            \/ reader.offset <= Cardinality(Later(stored', e))
    BY DEF StillToCome
  <2>1. reader \in Reading /\ reader.offset \in Nat
    BY DEF ReaderInv, StillToCome, Reading
  <2>2. reader \in Reading'
    BY <2>1 DEF Reading
  <2>3. ASSUME NEW e \in reader.missing
        PROVE  \/ Tied(stored', e)
               \/ reader.offset <= Cardinality(Later(stored', e))
    <3>1. Tied(stored, e) \/ reader.offset <= Cardinality(Later(stored, e))
      BY DEF ReaderInv, StillToCome
    <3>2. /\ Cardinality(Later(stored, e)) \in Nat
          /\ Cardinality(Later(stored', e)) \in Nat
          /\ Cardinality(Later(stored, e)) <= Cardinality(Later(stored', e))
          /\ Tied(stored, e) => Tied(stored', e)
      BY <1>1, LaterType, MoreLater
    <3>3. QED BY <2>1, <3>1, <3>2
  <2>4. QED BY <2>2, <2>3
<1>3. SkippedOnlyAmongTies'
  BY DEF ReaderInv, SkippedOnlyAmongTies
<1>4. QED BY <1>2, <1>3 DEF ReaderInv

LEMMA ReaderStarts ==
    ASSUME ReaderInv, HistoryInv', NEW limit \in Limits, StartReading(limit)
    PROVE  ReaderInv'
<1>1. EffectiveLimit(limit) \in Nat \ {0}
  BY HistoryAssumption DEF EffectiveLimit
<1>2. /\ stored' = stored /\ IsEvents(stored)
      /\ reader' = [pc |-> "reading", limit |-> EffectiveLimit(limit),
                    offset |-> 0, missing |-> stored]
  BY StoredEvents DEF StartReading, rowVars, ReaderInv
<1>3. reader' \in Reading' /\ reader'.offset = 0 /\ reader'.pc = "reading"
  BY <1>1, <1>2 DEF Reading
<1>4. \A e : 0 <= Cardinality(Later(stored, e))
  BY <1>2, LaterType
<1>5. QED
  BY <1>2, <1>3, <1>4 DEF ReaderInv, StillToCome, SkippedOnlyAmongTies

LEMMA ReaderReads ==
    ASSUME ReaderInv, HistoryInv', ReadPage
    PROVE  ReaderInv'
<1>1. /\ reader.pc = "reading" /\ stored' = stored /\ IsEvents(stored)
      /\ reader \in Reading
  BY StoredEvents DEF ReadPage, rowVars, ReaderInv, StillToCome
<1>2. PICK page \in Pages(stored, reader.limit, reader.offset) :
          reader' = IF page = {}
                    THEN [pc |-> "done", missing |-> reader.missing]
                    ELSE [reader EXCEPT !.offset = reader.offset + Cardinality(page),
                                        !.missing = reader.missing \ page]
  BY DEF ReadPage
<1>3. /\ reader.limit \in Nat \ {0} /\ reader.offset \in Nat
      /\ reader.missing \subseteq stored
  BY <1>1 DEF Reading
<1>4. ASSUME NEW e \in reader.missing, e \notin page
      PROVE  \/ Tied(stored, e)
             \/ /\ page # {}
                /\ reader.offset + Cardinality(page) <= Cardinality(Later(stored, e))
  <2>1. Tied(stored, e) \/ reader.offset <= Cardinality(Later(stored, e))
    BY <1>1 DEF ReaderInv, StillToCome
  <2>2. QED BY <1>1, <1>2, <1>3, <1>4, <2>1, PageSkipsNothing
<1>5. CASE page = {}
  <2>1. reader' = [pc |-> "done", missing |-> reader.missing]
    BY <1>2, <1>5
  <2>2. \A e \in reader'.missing : Tied(stored, e)
    BY <1>4, <1>5, <2>1
  <2>3. QED
    BY <1>1, <2>1, <2>2 DEF ReaderInv, StillToCome, SkippedOnlyAmongTies, Tied
<1>6. CASE page # {}
  <2> DEFINE offset == reader.offset + Cardinality(page)
             missing == reader.missing \ page
  <2>1. reader' = [reader EXCEPT !.offset = offset, !.missing = missing]
    BY <1>2, <1>6
  <2>2. offset \in Nat
    <3>1. page \subseteq stored /\ IsFiniteSet(stored)
      BY <1>1 DEF Pages, IsEvents
    <3>2. Cardinality(page) \in Nat
      BY <3>1, FS_Subset, FS_CardinalityType
    <3>3. QED BY <1>3, <3>2
  <2>3. missing \subseteq stored
    BY <1>3
  <2>4. \A e \in missing : Tied(stored, e) \/ offset <= Cardinality(Later(stored, e))
    BY <1>4
  <2> HIDE DEF offset, missing
  <2>5. /\ reader' \in Reading /\ reader'.pc = "reading"
        /\ reader'.offset = offset /\ reader'.missing = missing
    BY <1>1, <2>1, <2>2, <2>3 DEF Reading
  <2>6. Reading' = Reading
    BY <1>1 DEF Reading
  <2>7. QED
    BY <1>1, <2>4, <2>5, <2>6 DEF ReaderInv, StillToCome, SkippedOnlyAmongTies
<1>7. QED BY <1>5, <1>6

LEMMA ReaderInvPreserved == ReaderInv /\ [Next]_vars => ReaderInv'
<1> SUFFICES ASSUME ReaderInv, [Next]_vars PROVE ReaderInv'
  OBVIOUS
<1>1. HistoryInv'
  BY HistoryInvPreserved DEF ReaderInv
<1>2. stored \subseteq stored'
  BY NoRetraction
<1>3. CASE reader' = reader
  BY <1>1, <1>2, <1>3, ReaderWaits
<1>4. CASE \E limit \in Limits : StartReading(limit)
  BY <1>1, <1>4, ReaderStarts
<1>5. CASE ReadPage
  BY <1>1, <1>5, ReaderReads
<1>6. CASE Tick \/ AdminSeed \/ EmulatorForgets \/ (\E c \in Checks : CheckStep(c))
               \/ UNCHANGED vars
  BY <1>3, <1>6 DEF Tick, AdminSeed, EmulatorForgets, CheckStep, CheckFake, Ask,
                    MissScenario, CheckTrack24, MakeDefault, FindV1, MakeV1, ReadStep,
                    WriteStep, FindNothing, RecordEvent, AnswerV1, Apply, vars
<1>7. QED BY <1>4, <1>5, <1>6 DEF Next

(* A client that reads page after page while checks store more misses none *)
(* of the events that were there when it began, but one of two with the    *)
(* same time (events_repo.go:14-40).                                       *)
THEOREM ReadersMissOnlyTies == Spec => []SkippedOnlyAmongTies
<1>1. Init => ReaderInv
  <2>1. Init => reader.pc = "idle"
    BY DEF Init, NotReading
  <2>2. QED BY <2>1, HistoryInvInitial DEF ReaderInv, StillToCome, SkippedOnlyAmongTies
<1>2. ReaderInv => SkippedOnlyAmongTies
  BY DEF ReaderInv
<1>3. QED BY <1>1, <1>2, ReaderInvPreserved, PTL DEF Spec

-----------------------------------------------------------------------------
(* On track24 a step is stored once.  Known is all that the row, the       *)
(* answers under way and the emulator's present story hold: the whole      *)
(* story, for the times of its steps are settled when it begins.           *)

Story(s) ==
    {[step |-> s.steps[i], time |-> TimeOfStep(s, i)] : i \in 1..Len(s.steps)}

Foretold == IF scenario.made THEN Story(scenario) ELSE {}

Told(c) == IF check[c].pc = "answered" THEN check[c].result.events ELSE {}

Known == stored \cup Foretold \cup UNION {Told(c) : c \in Checks}

Copies(K, x) == {e \in K : e.step = x}

(* No step has more than n copies in K.                                    *)
Fits(K, n) ==
    \A x : IsFiniteSet(Copies(K, x)) /\ Cardinality(Copies(K, x)) <= n

OnceInv == HistoryInv /\ (client = "track24" => Fits(Known, scenarios))

(* A parcel's steps differ in their texts; of a story that tells one twice *)
(* the history has it twice, and rightly so.                               *)
StepsDistinct ==
    \A s \in Seeds \cup {DefaultSteps} :
       \A i, j \in 1..Len(s) : s[i] = s[j] => i = j

LEMMA OneCopyMore ==
    ASSUME NEW S, IsFiniteSet(S), NEW e, NEW R, R \subseteq S \cup {e}
    PROVE  /\ IsFiniteSet(R) /\ Cardinality(R) \in Nat /\ Cardinality(S) \in Nat
           /\ Cardinality(R) <= Cardinality(S) + 1
<1>1. /\ IsFiniteSet(S \cup {e}) /\ Cardinality(S) \in Nat
      /\ \/ Cardinality(S \cup {e}) = Cardinality(S)
         \/ Cardinality(S \cup {e}) = Cardinality(S) + 1
  BY FS_AddElement, FS_CardinalityType
<1>2. IsFiniteSet(R) /\ Cardinality(R) <= Cardinality(S \cup {e})
  BY <1>1, FS_Subset
<1>3. Cardinality(R) \in Nat
  BY <1>2, FS_CardinalityType
<1>4. QED BY <1>1, <1>2, <1>3

LEMMA FewerCopies ==
    ASSUME NEW S, IsFiniteSet(S), NEW R, R \subseteq S
    PROVE  /\ IsFiniteSet(R) /\ Cardinality(R) \in Nat /\ Cardinality(S) \in Nat
           /\ Cardinality(R) <= Cardinality(S)
BY FS_Subset, FS_CardinalityType

LEMMA FitsWithin ==
    ASSUME NEW K, NEW n \in Nat, Fits(K, n), NEW L, L \subseteq K
    PROVE  /\ Fits(L, n)
           /\ \A x : Cardinality(Copies(L, x)) <= Cardinality(Copies(K, x))
           /\ \A x : Cardinality(Copies(L, x)) \in Nat /\ Cardinality(Copies(K, x)) \in Nat
<1>1. ASSUME NEW x
      PROVE  /\ IsFiniteSet(Copies(L, x)) /\ Cardinality(Copies(L, x)) \in Nat
             /\ Cardinality(Copies(L, x)) <= n
             /\ Cardinality(Copies(L, x)) <= Cardinality(Copies(K, x))
             /\ Cardinality(Copies(K, x)) \in Nat
  <2>1. Copies(L, x) \subseteq Copies(K, x)
    BY DEF Copies
  <2>2. IsFiniteSet(Copies(K, x)) /\ Cardinality(Copies(K, x)) <= n
    BY DEF Fits
  <2>3. /\ IsFiniteSet(Copies(L, x)) /\ Cardinality(Copies(L, x)) \in Nat
        /\ Cardinality(Copies(K, x)) \in Nat
        /\ Cardinality(Copies(L, x)) <= Cardinality(Copies(K, x))
    BY <2>1, <2>2, FewerCopies
  <2>4. QED BY <2>2, <2>3
<1>2. QED BY <1>1 DEF Fits

(* A new story adds one copy of a step at most ...                         *)
LEMMA FitsOneMore ==
    ASSUME NEW K, NEW n \in Nat, Fits(K, n),
           NEW T, \A e, f \in T : e.step = f.step => e = f,
           NEW L, L \subseteq K \cup T
    PROVE  Fits(L, n + 1)
<1> SUFFICES ASSUME NEW x
             PROVE  IsFiniteSet(Copies(L, x)) /\ Cardinality(Copies(L, x)) <= n + 1
  BY DEF Fits
<1>1. IsFiniteSet(Copies(K, x)) /\ Cardinality(Copies(K, x)) <= n
  BY DEF Fits
<1>2. CASE \E e \in T : e.step = x
  <2>1. PICK e \in T : e.step = x
    BY <1>2
  <2>2. Copies(L, x) \subseteq Copies(K, x) \cup {e}
    BY <2>1 DEF Copies
  <2>3. QED BY <1>1, <2>2, OneCopyMore
<1>3. CASE \A e \in T : e.step # x
  <2>1. Copies(L, x) \subseteq Copies(K, x)
    BY <1>3 DEF Copies
  <2>2. QED BY <1>1, <2>1, FewerCopies
<1>4. QED BY <1>2, <1>3

(* What track24 answers is part of its story, whenever it is asked.        *)
LEMMA AnswersAreOfTheStory ==
    ASSUME NEW s, IsStory(s), NEW at \in Int, NEW when \in Int
    PROVE  Track24Result(Track24Answer(s, at), when).events \subseteq Story(s)
<1> DEFINE m == CurrentStepIndex(s, at)
           op == Track24Answer(s, at).operations
<1>1. m \in 1..Len(s.steps) /\ Len(s.steps) \in Nat
  <2>1. Len(s.steps) \in Nat
    BY DEF IsStory
  <2>2. QED BY <2>1, StepIndexType
<1>2. /\ Track24Answer(s, at).code = 200 /\ Track24Answer(s, at).status = "ok"
      /\ op = [i \in 1..m |-> [text |-> s.steps[i], dated |-> TRUE,
                               time |-> TimeOfStep(s, i)]]
  BY DEF Track24Answer
<1>3. \A i \in 1..m : /\ i \in 1..Len(s.steps) /\ op[i].text = s.steps[i]
                      /\ OperationTime(op[i], when) = TimeOfStep(s, i)
  BY <1>1, <1>2 DEF OperationTime
<1> HIDE DEF m, op
<1>4. Len(op) = m
  BY <1>1, <1>2
<1>5. Track24Result(Track24Answer(s, at), when).events
        = {[step |-> op[i].text, time |-> OperationTime(op[i], when)] : i \in 1..m}
  BY <1>2, <1>4 DEF Track24Result, op
<1>6. QED BY <1>3, <1>5 DEF Story

LEMMA StoryTellsOnce ==
    ASSUME NEW s, \A i, j \in 1..Len(s.steps) : s.steps[i] = s.steps[j] => i = j
    PROVE  \A e, f \in Story(s) : e.step = f.step => e = f
BY DEF Story

(* How Known grows: only by T, when everything it is made of does.         *)
LEMMA KnownGrows ==
    ASSUME NEW T, stored' \subseteq Known \cup T, Foretold' \subseteq Known \cup T,
           \A c \in Checks : Told(c)' \subseteq Known \cup T
    PROVE  Known' \subseteq Known \cup T
BY DEF Known

LEMMA KnownHolds ==
    /\ stored \subseteq Known /\ Foretold \subseteq Known
    /\ \A c \in Checks : Told(c) \subseteq Known
BY DEF Known

LEMMA ToldAfter ==
    ASSUME DOMAIN check = Checks, NEW c \in Checks, NEW x,
           check' = [check EXCEPT ![c] = x], NEW T,
           x.pc = "answered" => x.result.events \subseteq Known \cup T
    PROVE  \A d \in Checks : Told(d)' \subseteq Known \cup T
<1> SUFFICES ASSUME NEW d \in Checks PROVE Told(d)' \subseteq Known \cup T
  OBVIOUS
<1>1. CASE d = c
  <2>1. check'[d] = x
    BY <1>1
  <2>2. QED BY <2>1 DEF Told
<1>2. CASE d # c
  <2>1. check'[d] = check[d]
    BY <1>2
  <2>2. Told(d)' = Told(d)
    BY <2>1 DEF Told
  <2>3. QED BY <2>2, KnownHolds
<1>3. QED BY <1>1, <1>2

(* A step that brings nothing new.                                         *)
LEMMA NothingNew ==
    ASSUME OnceInv, HistoryInv', UNCHANGED <<client, scenarios>>,
           scenario' = scenario \/ scenario'.made = FALSE,
           stored' \subseteq Known, \A c \in Checks : Told(c)' \subseteq Known
    PROVE  OnceInv'
<1>1. Foretold' \subseteq Known
  BY KnownHolds DEF Foretold, Story, TimeOfStep
<1>2. Known' \subseteq Known
  <2>1. Known' \subseteq Known \cup {}
    BY <1>1, KnownGrows
  <2>2. QED BY <2>1
<1>3. scenarios \in Nat
  BY DEF OnceInv, HistoryInv, Budget
<1>4. client = "track24" => Fits(Known', scenarios)
  BY <1>2, <1>3, FitsWithin DEF OnceInv
<1>5. QED BY <1>4 DEF OnceInv, Fits, Copies

(* A step that begins a story.                                             *)
LEMMA StoryBegins ==
    ASSUME OnceInv, HistoryInv', client' = client, client = "track24",
           scenarios' = scenarios + 1, scenario'.made = TRUE,
           \A i, j \in 1..Len(scenario'.steps) :
              scenario'.steps[i] = scenario'.steps[j] => i = j,
           stored' = stored,
           \A c \in Checks : Told(c)' \subseteq Known \cup Story(scenario')
    PROVE  OnceInv'
<1> DEFINE T == Story(scenario')
<1>1. Foretold' \subseteq Known \cup T
  BY DEF Foretold, Story, TimeOfStep
<1>2. \A e, f \in T : e.step = f.step => e = f
  BY StoryTellsOnce
<1> HIDE DEF T
<1>3. stored' \subseteq Known \cup T
  BY KnownHolds
<1>4. Known' \subseteq Known \cup T
  <2>1. \A c \in Checks : Told(c)' \subseteq Known \cup T
    BY DEF T
  <2>2. QED BY <1>1, <1>3, <2>1, KnownGrows
<1>5. scenarios \in Nat /\ Fits(Known, scenarios)
  BY DEF OnceInv, HistoryInv, Budget
<1>6. Fits(Known', scenarios + 1)
  BY <1>2, <1>4, <1>5, FitsOneMore
<1>7. QED BY <1>6 DEF OnceInv, Fits, Copies

LEMMA OnceOnTrack24 ==
    ASSUME StepsDistinct, OnceInv, HistoryInv', client = "track24", NEW c \in Checks,
           Ask(c) \/ MissScenario(c) \/ CheckTrack24(c) \/ MakeDefault(c)
    PROVE  OnceInv'
<1>1. /\ DOMAIN check = Checks /\ now \in Int /\ GoodCheck(check[c], now)
      /\ GoodScenario(scenario, now)
  BY ClockType DEF OnceInv, HistoryInv
<1>2. client' = client /\ stored' = stored
  BY DEF Ask, MissScenario, CheckTrack24, MakeDefault, rowVars
<1>3. stored' \subseteq Known
  BY <1>2, KnownHolds
<1>4. CASE CheckTrack24(c)
  <2> DEFINE at == check[c].at
             r == Track24Result(Track24Answer(scenario, at), now)
             x == [pc |-> "answered", result |-> r]
  <2>1. /\ check[c].pc = "looking" /\ scenario.made
        /\ scenario' = scenario /\ scenarios' = scenarios
        /\ check' = [check EXCEPT ![c] = x]
    BY <1>4 DEF CheckTrack24, Answered, Moves
  <2>2. at \in Int /\ IsStory(scenario)
    BY <1>1, <2>1 DEF GoodCheck, GoodScenario
  <2> HIDE DEF at
  <2>3. r.events \subseteq Story(scenario)
    BY <1>1, <2>2, AnswersAreOfTheStory
  <2>4. Foretold = Story(scenario)
    BY <2>1 DEF Foretold
  <2> HIDE DEF r
  <2>5. x.pc = "answered" => x.result.events \subseteq Known \cup {}
    BY <2>3, <2>4, KnownHolds
  <2> HIDE DEF x
  <2>6. \A d \in Checks : Told(d)' \subseteq Known \cup {}
    BY <1>1, <2>1, <2>5, ToldAfter
  <2>7. \A d \in Checks : Told(d)' \subseteq Known
    BY <2>6
  <2>8. QED BY <1>2, <1>3, <2>1, <2>7, NothingNew
<1>5. CASE Ask(c) \/ MissScenario(c)
  <2>1. PICK x : check' = [check EXCEPT ![c] = x] /\ x.pc # "answered"
    <3>1. CASE Ask(c)
      <4> DEFINE y == [pc |-> "looking", at |-> now]
      <4>1. check' = [check EXCEPT ![c] = y] /\ y.pc # "answered"
        BY <3>1 DEF Ask, Moves
      <4> HIDE DEF y
      <4>2. QED BY <4>1
    <3>2. CASE MissScenario(c)
      <4> DEFINE y == [check[c] EXCEPT !.pc = "making"]
      <4>1. check' = [check EXCEPT ![c] = y] /\ check[c].pc = "looking"
        BY <3>2 DEF MissScenario, Moves
      <4>2. y = [pc |-> "making", at |-> check[c].at]
        BY <1>1, <4>1 DEF GoodCheck
      <4>3. y.pc # "answered"
        BY <4>2
      <4> HIDE DEF y
      <4>4. QED BY <4>1, <4>3
    <3>3. QED BY <1>5, <3>1, <3>2
  <2>2. \A d \in Checks : Told(d)' \subseteq Known \cup {}
    BY <1>1, <2>1, ToldAfter
  <2>3. \A d \in Checks : Told(d)' \subseteq Known
    BY <2>2
  <2>4. scenario' = scenario /\ scenarios' = scenarios
    BY <1>5 DEF Ask, MissScenario
  <2>5. QED BY <1>2, <1>3, <2>3, <2>4, NothingNew
<1>6. CASE MakeDefault(c)
  <2> DEFINE at == check[c].at
             s == Default(at)
             r == Track24Result(Track24Answer(s, at), now)
             x == [pc |-> "answered", result |-> r]
  <2>1. /\ check[c].pc = "making" /\ scenario' = s /\ scenarios' = scenarios + 1
        /\ check' = [check EXCEPT ![c] = x]
    BY <1>6 DEF MakeDefault, Made, Answered, Moves
  <2>2. at \in Int
    BY <1>1, <2>1 DEF GoodCheck
  <2>3. IsStory(s) /\ s.steps = DefaultSteps
    <3>1. StepSeconds * Len(DefaultSteps) \in Int
      BY HistoryAssumption
    <3>2. QED BY <2>2, <3>1, HistoryAssumption DEF Default, IsStory
  <2>4. scenario'.made = TRUE
    BY <2>1 DEF Default
  <2> HIDE DEF s, at
  <2>5. r.events \subseteq Story(s)
    BY <1>1, <2>2, <2>3, AnswersAreOfTheStory
  <2> HIDE DEF r
  <2>6. x.pc = "answered" => x.result.events \subseteq Known \cup Story(s)
    BY <2>5
  <2> HIDE DEF x
  <2>7. \A d \in Checks : Told(d)' \subseteq Known \cup Story(s)
    BY <1>1, <2>1, <2>6, ToldAfter
  <2>8. \A i, j \in 1..Len(scenario'.steps) :
           scenario'.steps[i] = scenario'.steps[j] => i = j
    BY <2>1, <2>3 DEF StepsDistinct
  <2>9. \A d \in Checks : Told(d)' \subseteq Known \cup Story(scenario')
    BY <2>1, <2>7
  <2>10. QED BY <1>2, <2>1, <2>4, <2>8, <2>9, StoryBegins
<1>7. QED BY <1>4, <1>5, <1>6

LEMMA OnceInvPreserved ==
    ASSUME StepsDistinct
    PROVE  OnceInv /\ [Next]_vars => OnceInv'
<1> SUFFICES ASSUME OnceInv, [Next]_vars PROVE OnceInv'
  OBVIOUS
<1>1. HistoryInv'
  BY HistoryInvPreserved DEF OnceInv
<1>2. DOMAIN check = Checks /\ client' = client
  BY NoRetraction DEF OnceInv, HistoryInv
<1>3. CASE client # "track24"
  BY <1>1, <1>2, <1>3 DEF OnceInv
<1>4. CASE UNCHANGED <<check, scenarios, stored>>
           /\ (scenario' = scenario \/ scenario'.made = FALSE)
  <2>1. \A d \in Checks : Told(d)' \subseteq Known
    <3>1. \A d \in Checks : Told(d)' = Told(d)
      BY <1>4 DEF Told
    <3>2. QED BY <3>1, KnownHolds
  <2>2. stored' \subseteq Known
    BY <1>4, KnownHolds
  <2>3. QED BY <1>1, <1>2, <1>4, <2>1, <2>2, NothingNew
<1>5. CASE Tick \/ EmulatorForgets \/ (\E limit \in Limits : StartReading(limit))
               \/ ReadPage \/ UNCHANGED vars
  <2>1. UNCHANGED <<check, scenarios, stored>>
    BY <1>5 DEF Tick, EmulatorForgets, StartReading, ReadPage, vars, checkVars, rowVars
  <2>2. scenario' = scenario \/ scenario' = NoScenario
    BY <1>5, Zenon DEF Tick, EmulatorForgets, StartReading, ReadPage, vars, checkVars
  <2>3. NoScenario.made = FALSE
    BY DEF NoScenario
  <2>4. QED BY <1>4, <2>1, <2>2, <2>3
<1>6. CASE AdminSeed
  <2>1. PICK steps \in Seeds :
           scenario' = [made |-> TRUE, steps |-> steps, created |-> now]
    BY <1>6 DEF AdminSeed, Made
  <2>2. /\ client = "track24" /\ scenarios' = scenarios + 1
        /\ stored' = stored /\ check' = check
    BY <1>6 DEF AdminSeed, Made, rowVars
  <2>3. scenario'.made = TRUE /\ scenario'.steps = steps
    BY <2>1
  <2>4. \A i, j \in 1..Len(scenario'.steps) :
           scenario'.steps[i] = scenario'.steps[j] => i = j
    BY <2>3 DEF StepsDistinct
  <2>5. \A d \in Checks : Told(d)' \subseteq Known \cup Story(scenario')
    <3>1. \A d \in Checks : Told(d)' = Told(d)
      BY <2>2 DEF Told
    <3>2. QED BY <3>1, KnownHolds
  <2>6. QED BY <1>1, <1>2, <2>2, <2>3, <2>4, <2>5, StoryBegins
<1>7. ASSUME client = "track24", NEW c \in Checks, CheckStep(c) PROVE OnceInv'
  <2>1. GoodCheck(check[c], now)
    BY DEF OnceInv, HistoryInv
  <2>2. ~CheckFake(c) /\ ~FindV1(c) /\ ~MakeV1(c)
    BY <1>7 DEF CheckFake, FindV1, MakeV1
  <2>3. /\ ~ReadStep(c) /\ ~WriteStep(c) /\ ~FindNothing(c)
        /\ ~RecordEvent(c) /\ ~AnswerV1(c)
    <3>1. check[c].pc \notin V1Pcs
      BY <1>7, <2>1 DEF GoodCheck
    <3>2. QED BY <3>1 DEF ReadStep, WriteStep, FindNothing, RecordEvent, AnswerV1, V1Pcs
  <2>4. CASE Ask(c) \/ MissScenario(c) \/ CheckTrack24(c) \/ MakeDefault(c)
    BY <1>1, <1>7, <2>4, OnceOnTrack24
  <2>5. CASE Apply(c)
    <3> DEFINE x == Idle
    <3>1. /\ check' = [check EXCEPT ![c] = x] /\ scenario' = scenario
          /\ scenarios' = scenarios /\ stored' = stored \cup Told(c)
      BY <2>5 DEF Apply, Told, Moves
    <3>2. x.pc # "answered"
      BY DEF Idle
    <3> HIDE DEF x
    <3>3. \A d \in Checks : Told(d)' \subseteq Known \cup {}
      BY <1>2, <3>1, <3>2, ToldAfter
    <3>4. (\A d \in Checks : Told(d)' \subseteq Known) /\ stored' \subseteq Known
      BY <3>1, <3>3, KnownHolds
    <3>5. QED BY <1>1, <1>2, <3>1, <3>4, NothingNew
  <2>6. QED BY <1>7, <2>2, <2>3, <2>4, <2>5 DEF CheckStep
<1>8. QED BY <1>3, <1>5, <1>6, <1>7 DEF Next

LEMMA OnceInvInitial == Init => OnceInv
<1> SUFFICES ASSUME Init PROVE OnceInv
  OBVIOUS
<1>1. /\ stored = {} /\ scenario.made = FALSE /\ scenarios = 0
      /\ \A c \in Checks : check[c].pc = "idle"
  BY DEF Init, NoScenario, Idle
<1>2. \A x : Copies(Known, x) = {}
  BY <1>1 DEF Known, Foretold, Told, Copies
<1>3. Fits(Known, scenarios)
  BY <1>1, <1>2, FS_EmptySet DEF Fits
<1>4. QED BY <1>3, HistoryInvInitial DEF OnceInv

(* However checks overlap and updates are reordered, a step of Track24 is  *)
(* stored once for each time the emulator began to tell the story: the     *)
(* times it shows do not depend on when it is asked (app.py:315-320), and  *)
(* the key of tracking_events drops what is there already                  *)
(* (events_repo.go:143).                                                   *)
THEOREM EachStepIsStoredOnce == StepsDistinct => (Spec => []StepsStoredOnce)
<1> SUFFICES ASSUME StepsDistinct PROVE Spec => []StepsStoredOnce
  OBVIOUS
<1>1. OnceInv /\ [Next]_vars => OnceInv'
  BY OnceInvPreserved
<1>2. OnceInv => StepsStoredOnce
  <2> SUFFICES ASSUME OnceInv, client = "track24", NEW e \in stored
               PROVE  Cardinality({f \in stored : f.step = e.step}) <= scenarios
    BY DEF StepsStoredOnce
  <2>1. scenarios \in Nat /\ Fits(Known, scenarios) /\ stored \subseteq Known
    BY KnownHolds DEF OnceInv, HistoryInv, Budget
  <2>2. Fits(stored, scenarios)
    BY <2>1, FitsWithin
  <2>3. QED BY <2>2 DEF Fits, Copies
<1>3. QED BY <1>1, <1>2, OnceInvInitial, PTL DEF Spec

-----------------------------------------------------------------------------
(* Type correctness.                                                       *)

(* The clock, the row, its events, the threads and the scenarios are what  *)
(* they are said to be: above all no event that is stored is newer than    *)
(* the clock, though the emulator computes the times of its steps          *)
(* (app.py:28-33, 315-320), requests keep the clock they began with and    *)
(* clients see the newest first; and no thread of v1 takes a scenario past *)
(* its last step.                                                          *)
THEOREM HistoryTypeCorrect == Spec => []TypeOK
<1>1. ReaderInv => TypeOK
  <2> SUFFICES ASSUME ReaderInv PROVE TypeOK
    OBVIOUS
  <2>1. HistoryInv
    BY DEF ReaderInv
  <2>2. \A e \in stored : e.time \in EventTimes
    BY <2>1 DEF HistoryInv, Dated, EventTimes, Oldest
  <2>3. scenarios \in 0..MaxScenarios
    <3>1. IsFiniteSet(Making) /\ Cardinality(Making) \in Nat
      BY <2>1, FS_CardinalityType DEF HistoryInv, Budget
    <3>2. QED BY <2>1, <3>1, HistoryAssumption DEF HistoryInv, Budget
  <2>4. reader.pc = "reading" => reader.missing \subseteq stored
    BY DEF ReaderInv, StillToCome, Reading
  <2>5. \A c \in Checks : check[c].pc \in {"idle", "looking", "making", "answered"} \cup V1Pcs
    BY <2>1 DEF HistoryInv, GoodCheck
  <2>6. \A o \in 1..MaxScenarios : object[o].idx \in 1..Len(V1Steps)
    BY <2>1 DEF HistoryInv, GoodObject
  <2>7. client \in Clients /\ now \in 0..MaxTime[client] /\ status \in Statuses
    BY <2>1 DEF HistoryInv
  <2>8. QED BY <2>2, <2>3, <2>4, <2>5, <2>6, <2>7 DEF TypeOK, Statuses, V1Pcs
<1>2. Init => ReaderInv
  <2>1. Init => reader.pc = "idle"
    BY DEF Init, NotReading
  <2>2. QED BY <2>1, HistoryInvInitial DEF ReaderInv, StillToCome, SkippedOnlyAmongTies
<1>3. QED BY <1>1, <1>2, ReaderInvPreserved, PTL DEF Spec

=============================================================================
