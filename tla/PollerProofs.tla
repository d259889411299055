----------------------------- MODULE PollerProofs -----------------------------
(* Proofs about the package poller: its loop, for every batch size,        *)
(* concurrency and counter width, and its planner, whatever is configured. *)
EXTENDS Poller, Planner, FiniteSetTheorems, TLAPS

-----------------------------------------------------------------------------
(* Counting goroutines                                                     *)

Stages == {"idle", "working", "failed", "counted", "left", "released"}

(* The goroutines of f at one of the stages S.                             *)
Count(f, S) == Cardinality({k \in Tasks : f[k] \in S})

LEMMA TasksFinite == IsFiniteSet(Tasks) /\ Cardinality(Tasks) = BatchSize
<1>1. BatchSize \in Int /\ 1 \in Int /\ ~(1 > BatchSize) /\ BatchSize - 1 + 1 = BatchSize
  BY PollerAssumption
<1>2. QED BY <1>1, FS_Interval DEF Tasks

LEMMA CountBounds ==
    ASSUME NEW f, NEW S
    PROVE  Count(f, S) \in Nat /\ Count(f, S) <= BatchSize
<1>1. {k \in Tasks : f[k] \in S} \in SUBSET Tasks
  OBVIOUS
<1>2. QED BY <1>1, TasksFinite, FS_Subset, FS_CardinalityType DEF Count

LEMMA CountZero ==
    ASSUME NEW f, NEW S
    PROVE  Count(f, S) = 0 <=> \A k \in Tasks : f[k] \notin S
<1> DEFINE T == {k \in Tasks : f[k] \in S}
<1>1. IsFiniteSet(T)
  BY TasksFinite, FS_Subset
<1>2. Cardinality(T) = 0 <=> T = {}
  BY <1>1, FS_EmptySet
<1>3. QED BY <1>2 DEF Count

LEMMA CountSubset ==
    ASSUME NEW f, NEW S, NEW T, S \subseteq T
    PROVE  Count(f, S) <= Count(f, T)
<1> DEFINE A == {k \in Tasks : f[k] \in S}
           B == {k \in Tasks : f[k] \in T}
<1>1. IsFiniteSet(B) /\ A \in SUBSET B
  BY TasksFinite, FS_Subset
<1>2. QED BY <1>1, FS_Subset DEF Count

(* One goroutine moves on: into S, out of S, or neither.                   *)
LEMMA CountSame ==
    ASSUME NEW f, NEW g, NEW S,
           \A j \in Tasks : g[j] \in S <=> f[j] \in S
    PROVE  Count(g, S) = Count(f, S)
<1>1. {j \in Tasks : g[j] \in S} = {j \in Tasks : f[j] \in S}
  OBVIOUS
<1>2. QED BY <1>1 DEF Count

LEMMA CountLess ==
    ASSUME NEW f, NEW g, NEW S, NEW k \in Tasks, f[k] \in S, g[k] \notin S,
           \A j \in Tasks \ {k} : g[j] = f[j]
    PROVE  Count(g, S) = Count(f, S) - 1 /\ Count(f, S) > 0
<1> DEFINE A == {j \in Tasks : f[j] \in S}
           B == {j \in Tasks : g[j] \in S}
<1>1. B = A \ {k} /\ k \in A
  OBVIOUS
<1>2. IsFiniteSet(A)
  BY TasksFinite, FS_Subset
<1>3. Count(f, S) = Cardinality(A) /\ Count(g, S) = Cardinality(B)
  BY DEF Count
<1>4. Count(f, S) > 0
  BY CountZero, CountBounds
<1> HIDE DEF A, B
<1>5. Cardinality(B) = Cardinality(A) - 1
  BY <1>1, <1>2, FS_RemoveElement
<1>6. QED BY <1>3, <1>4, <1>5

LEMMA CountMore ==
    ASSUME NEW f, NEW g, NEW S, NEW k \in Tasks, f[k] \notin S, g[k] \in S,
           \A j \in Tasks \ {k} : g[j] = f[j]
    PROVE  Count(g, S) = Count(f, S) + 1
<1>1. Count(f, S) = Count(g, S) - 1
  BY CountLess
<1>2. QED BY <1>1, CountBounds

-----------------------------------------------------------------------------
(* Counters that wrap                                                      *)

LEMMA Wrapped ==
    ASSUME NEW x \in 0..(Wrap - 1)
    PROVE  x % Wrap = x /\ (x + Wrap) % Wrap = x
BY PollerAssumption, SMT

LEMMA AddType ==
    ASSUME NEW x \in Counter, NEW n \in 0..BatchSize
    PROVE  /\ Add(x, n) \in Counter
           /\ n > 0 => Add(Add(x, 1), n - 1) = Add(x, n)
<1>1. /\ Wrap \in Nat /\ BatchSize \in Nat /\ BatchSize < Wrap
      /\ x \in Nat /\ x < Wrap /\ n \in Nat /\ n <= BatchSize
  BY PollerAssumption DEF Counter
<1>2. CASE x + n < Wrap
  <2>1. Add(x, n) = x + n
    BY <1>1, <1>2, Wrapped DEF Add
  <2>2. ASSUME n > 0 PROVE Add(x, 1) = x + 1 /\ Add(x + 1, n - 1) = x + n
    <3>1. x + 1 \in 0..(Wrap - 1) /\ x + n \in 0..(Wrap - 1) /\ x + 1 + (n - 1) = x + n
      BY <1>1, <1>2, <2>2
    <3>2. QED BY <3>1, Wrapped DEF Add
  <2>3. QED BY <1>1, <1>2, <2>1, <2>2 DEF Counter
<1>3. CASE ~(x + n < Wrap)
  <2> DEFINE y == x + n - Wrap
  <2>1. y \in 0..(Wrap - 1) /\ x + n = y + Wrap
    BY <1>1, <1>3
  <2>2. Add(x, n) = y
    BY <2>1, Wrapped DEF Add
  <2>3. ASSUME n > 0, x + 1 < Wrap PROVE Add(Add(x, 1), n - 1) = y
    <3>1. x + 1 \in 0..(Wrap - 1) /\ x + 1 + (n - 1) = y + Wrap
      BY <1>1, <1>3, <2>3
    <3>2. Add(x, 1) = x + 1
      BY <3>1, Wrapped DEF Add
    <3>3. QED BY <2>1, <3>1, <3>2, Wrapped DEF Add
  <2>4. ASSUME n > 0, ~(x + 1 < Wrap) PROVE Add(Add(x, 1), n - 1) = y
    <3>1. x + 1 = 0 + Wrap /\ 0 \in 0..(Wrap - 1) /\ 0 + (n - 1) = y
      BY <1>1, <1>3, <2>4
    <3>2. Add(x, 1) = 0
      BY <3>1, Wrapped DEF Add
    <3>3. QED BY <2>1, <3>1, <3>2, Wrapped DEF Add
  <2>5. QED BY <2>1, <2>2, <2>3, <2>4 DEF Counter
<1>4. QED BY <1>2, <1>3

-----------------------------------------------------------------------------
(* The inductive invariant: slots, gauge and WaitGroup each count the      *)
(* goroutines that have not yet given them back.                           *)

Pending == {"working", "failed"}
Flying  == {"working", "failed", "counted"}
Holding == {"working", "failed", "counted", "left"}
Running == {"working", "failed", "counted", "left", "released"}

Books ==
    /\ inFlight = Count(task, Flying)
    /\ sem = Count(task, Holding) + (IF loop = "acquired" THEN 1 ELSE 0)
    /\ wg = Count(task, Running)
    /\ left + Count(task, Running) <= BatchSize
    /\ totalClaimed = Add(totalProcessed, left + Count(task, Pending))

Phases ==
    /\ loop \in {"select", "claiming", "returned"} =>
          left = 0 /\ Count(task, Running) = 0
    /\ loop = "acquired" => left > 0
    /\ loop = "waiting" => left = 0

LoopInv == TypeOK /\ Books /\ Phases

LEMMA Ordered ==
    ASSUME NEW f
    PROVE  /\ Count(f, Pending) <= Count(f, Flying)
           /\ Count(f, Flying) <= Count(f, Holding)
           /\ Count(f, Holding) <= Count(f, Running)
           /\ Count(f, Running) <= BatchSize
           /\ Count(f, Pending) \in Nat /\ Count(f, Flying) \in Nat
           /\ Count(f, Holding) \in Nat /\ Count(f, Running) \in Nat
<1>1. Pending \subseteq Flying /\ Flying \subseteq Holding /\ Holding \subseteq Running
  BY DEF Pending, Flying, Holding, Running
<1>2. QED BY <1>1, CountSubset, CountBounds

LEMMA Sizes ==
    /\ BatchSize \in Nat /\ BatchSize > 0
    /\ Concurrency \in Nat /\ Concurrency > 0
    /\ Wrap \in Nat /\ Wrap > BatchSize
    /\ 0 \in Counter
BY PollerAssumption DEF Counter

LEMMA InitLoop == Init => LoopInv
<1> SUFFICES ASSUME Init PROVE LoopInv
  OBVIOUS
<1>1. task \in [Tasks -> Stages] /\ \A k \in Tasks : task[k] = "idle"
  BY DEF Init, Stages
<1>2. /\ Count(task, Pending) = 0 /\ Count(task, Flying) = 0
      /\ Count(task, Holding) = 0 /\ Count(task, Running) = 0
  BY <1>1, CountZero DEF Pending, Flying, Holding, Running
<1>3. Add(0, 0) = 0
  <2>1. 0 \in 0..(Wrap - 1) /\ 0 + 0 = 0
    BY Sizes
  <2>2. QED BY <2>1, Wrapped DEF Add
<1>4. TypeOK
  <2>1. 0 \in 0..1 /\ 0 \in 0..BatchSize /\ 0 \in 0..Concurrency /\ 0 \in Counter
    BY Sizes
  <2>2. QED BY <1>1, <2>1 DEF Init, TypeOK, Stages
<1>5. Books
  BY <1>2, <1>3, Sizes DEF Init, Books
<1>6. Phases
  BY <1>2 DEF Init, Phases
<1>7. QED BY <1>4, <1>5, <1>6 DEF LoopInv

(* A step of Run or runOnce that starts no goroutine and takes no slot.    *)
LEMMA LoopMoves ==
    ASSUME LoopInv, UNCHANGED <<left, task, sem, wg, statVars>>,
           loop # "acquired", loop' # "acquired",
           loop' \in {"select", "claiming", "dispatching", "waiting", "returned"},
           tick' \in 0..1, trigger' \in 0..1, cancelled' \in BOOLEAN,
           loop' \in {"select", "claiming", "returned"} =>
               left = 0 /\ Count(task, Running) = 0,
           loop' = "waiting" => left = 0
    PROVE  LoopInv'
<1>1. TypeOK'
  BY DEF LoopInv, TypeOK, statVars
<1>2. Books'
  BY DEF LoopInv, Books, statVars, Count
<1>3. Phases'
  BY DEF LoopInv, Phases, Count
<1>4. QED BY <1>1, <1>2, <1>3 DEF LoopInv

LEMMA WorldKeeps == ASSUME LoopInv, World PROVE LoopInv'
<1>1. /\ UNCHANGED <<loop, left, task, sem, wg, statVars>>
      /\ tick' \in 0..1 /\ trigger' \in 0..1 /\ cancelled' \in BOOLEAN
  <2>1. 1 \in 0..1 /\ tick \in 0..1 /\ trigger \in 0..1 /\ cancelled \in BOOLEAN
    BY DEF LoopInv, TypeOK
  <2>2. CASE TickerFires
    BY <2>1, <2>2 DEF TickerFires, cycleVars
  <2>3. CASE Trigger
    BY <2>1, <2>3 DEF Trigger, cycleVars
  <2>4. CASE Cancel
    BY <2>1, <2>4 DEF Cancel, cycleVars
  <2>5. QED BY <2>2, <2>3, <2>4 DEF World
<1>2. TypeOK'
  BY <1>1 DEF LoopInv, TypeOK, statVars
<1>3. Books'
  BY <1>1 DEF LoopInv, Books, statVars, Count
<1>4. Phases'
  BY <1>1 DEF LoopInv, Phases, Count
<1>5. QED BY <1>2, <1>3, <1>4 DEF LoopInv

LEMMA SelectKeeps ==
    ASSUME LoopInv, TakeTick \/ TakeTrigger \/ TakeDone
    PROVE  LoopInv'
<1>1. /\ loop = "select" /\ loop' \in {"claiming", "returned"}
      /\ tick' \in 0..1 /\ trigger' \in 0..1 /\ cancelled' \in BOOLEAN
      /\ UNCHANGED <<left, task, sem, wg, statVars>>
  BY DEF TakeTick, TakeTrigger, TakeDone, cycleVars, LoopInv, TypeOK
<1>2. left = 0 /\ Count(task, Running) = 0
  BY <1>1 DEF LoopInv, Phases
<1>3. QED BY <1>1, <1>2, LoopMoves

LEMMA ClaimKeeps == ASSUME LoopInv, ClaimSucceeds PROVE LoopInv'
<1>1. PICK n \in 0..BatchSize : left' = n /\ totalClaimed' = Add(totalClaimed, n)
  BY DEF ClaimSucceeds
<1>2. /\ loop = "claiming" /\ loop' = "dispatching" /\ sem' = 0 /\ wg' = 0
      /\ UNCHANGED <<tick, trigger, cancelled, task, inFlight, totalProcessed, totalErrors>>
  BY DEF ClaimSucceeds
<1>3. left = 0 /\ Count(task, Running) = 0
  BY <1>2 DEF LoopInv, Phases
<1>4. Count(task, Holding) = 0 /\ Count(task, Pending) = 0 /\ Count(task, Flying) = 0
  BY <1>3, Ordered
<1>5. totalProcessed \in Counter
  BY DEF LoopInv, TypeOK
<1>6. totalClaimed = totalProcessed
  <2>1. totalClaimed = Add(totalProcessed, 0) /\ totalProcessed + 0 = totalProcessed
    BY <1>3, <1>4, <1>5, Sizes DEF LoopInv, Books, Counter
  <2>2. QED BY <1>5, <2>1, Wrapped DEF Add, Counter
<1>7. totalClaimed' \in Counter
  BY <1>1, <1>5, <1>6, AddType
<1>8. TypeOK'
  BY <1>1, <1>2, <1>7, Sizes DEF LoopInv, TypeOK
<1>9. Books'
  <2>1. /\ Count(task, Pending)' = 0 /\ Count(task, Flying)' = 0
        /\ Count(task, Holding)' = 0 /\ Count(task, Running)' = 0
    BY <1>2, <1>3, <1>4 DEF Count
  <2>2. inFlight' = 0
    BY <1>2, <1>4 DEF LoopInv, Books
  <2>3. n + 0 = n /\ n <= BatchSize
    BY <1>1, Sizes
  <2>4. totalClaimed' = Add(totalProcessed', n + 0)
    BY <1>1, <1>2, <1>6, <2>3
  <2>5. QED BY <1>1, <1>2, <2>1, <2>2, <2>3, <2>4 DEF Books
<1>10. Phases'
  BY <1>2 DEF Phases
<1>11. QED BY <1>8, <1>9, <1>10 DEF LoopInv

LEMMA AcquireKeeps == ASSUME LoopInv, AcquireSlot PROVE LoopInv'
<1>1. /\ loop = "dispatching" /\ left > 0 /\ sem < Concurrency
      /\ sem' = sem + 1 /\ loop' = "acquired"
      /\ UNCHANGED <<tick, trigger, cancelled, left, task, wg, statVars>>
  BY DEF AcquireSlot
<1>2. TypeOK'
  BY <1>1, Sizes DEF LoopInv, TypeOK, statVars
<1>3. Books'
  <2>1. /\ Count(task, Pending)' = Count(task, Pending)
        /\ Count(task, Flying)' = Count(task, Flying)
        /\ Count(task, Holding)' = Count(task, Holding)
        /\ Count(task, Running)' = Count(task, Running)
    BY <1>1 DEF Count
  <2>2. sem' = Count(task, Holding) + 1
    BY <1>1, Ordered DEF LoopInv, Books
  <2>3. QED BY <1>1, <2>1, <2>2 DEF LoopInv, Books, statVars
<1>4. Phases'
  BY <1>1 DEF Phases
<1>5. QED BY <1>2, <1>3, <1>4 DEF LoopInv

(* What a move of one goroutine does to the counts.                        *)
LEMMA MoveCounts ==
    ASSUME LoopInv, NEW k \in Tasks, NEW to \in Stages,
           task' = [task EXCEPT ![k] = to]
    PROVE  /\ task' \in [Tasks -> Stages]
           /\ \A S \in SUBSET Stages :
                 /\ (task[k] \in S <=> to \in S) => Count(task', S) = Count(task, S)
                 /\ task[k] \in S /\ to \notin S =>
                       Count(task', S) = Count(task, S) - 1 /\ Count(task, S) > 0
                 /\ task[k] \notin S /\ to \in S =>
                       Count(task', S) = Count(task, S) + 1
<1>1. task \in [Tasks -> Stages]
  BY DEF LoopInv, TypeOK, Stages
<1>2. task' \in [Tasks -> Stages]
  BY <1>1
<1>3. ASSUME NEW S \in SUBSET Stages
      PROVE  /\ (task[k] \in S <=> to \in S) => Count(task', S) = Count(task, S)
             /\ task[k] \in S /\ to \notin S => /\ Count(task', S) = Count(task, S) - 1
                                                /\ Count(task, S) > 0
             /\ task[k] \notin S /\ to \in S => Count(task', S) = Count(task, S) + 1
  <2>1. task'[k] = to /\ \A j \in Tasks \ {k} : task'[j] = task[j]
    BY <1>1
  <2>2. CASE task[k] \in S <=> to \in S
    <3>1. \A j \in Tasks : task'[j] \in S <=> task[j] \in S
      BY <2>1, <2>2
    <3>2. Count(task', S) = Count(task, S)
      BY <3>1, CountSame
    <3>3. QED BY <2>2, <3>2
  <2>3. CASE task[k] \in S /\ to \notin S
    <3>0. task'[k] \notin S /\ task[k] \in S /\ \A j \in Tasks \ {k} : task[j] = task'[j]
      BY <2>1, <2>3
    <3>1. Count(task, S) = Count(task', S) + 1
      BY <3>0, CountMore
    <3>2. QED BY <2>3, <3>1, CountBounds
  <2>4. CASE task[k] \notin S /\ to \in S
    <3>1. Count(task', S) = Count(task, S) + 1
      BY <2>1, <2>4, CountMore
    <3>2. QED BY <2>4, <3>1
  <2>5. QED BY <2>2, <2>3, <2>4
<1>4. QED BY <1>2, <1>3

LEMMA StageSets ==
    /\ Pending \in SUBSET Stages /\ Flying \in SUBSET Stages
    /\ Holding \in SUBSET Stages /\ Running \in SUBSET Stages
BY DEF Pending, Flying, Holding, Running, Stages

LEMMA StartKeeps ==
    ASSUME LoopInv, NEW k \in Tasks, StartTask(k) PROVE LoopInv'
<1>1. /\ loop = "acquired" /\ task[k] = "idle" /\ loop' = "dispatching"
      /\ wg' = wg + 1 /\ inFlight' = inFlight + 1 /\ left' = left - 1
      /\ task' = [task EXCEPT ![k] = "working"]
      /\ UNCHANGED <<tick, trigger, cancelled, sem, totalClaimed, totalProcessed,
                     totalErrors>>
  BY DEF StartTask
<1>2. task \in [Tasks -> Stages] /\ "working" \in Stages
  BY DEF LoopInv, TypeOK, Stages
<1>3. left > 0 /\ left \in Nat /\ left + Count(task, Running) <= BatchSize
  BY <1>1, Sizes DEF LoopInv, Phases, TypeOK, Books
<1>4. /\ task' \in [Tasks -> Stages]
      /\ Count(task', Pending) = Count(task, Pending) + 1
      /\ Count(task', Flying) = Count(task, Flying) + 1
      /\ Count(task', Holding) = Count(task, Holding) + 1
      /\ Count(task', Running) = Count(task, Running) + 1
  <2>1. /\ task[k] \notin Pending /\ "working" \in Pending
        /\ task[k] \notin Flying  /\ "working" \in Flying
        /\ task[k] \notin Holding /\ "working" \in Holding
        /\ task[k] \notin Running /\ "working" \in Running
    BY <1>1 DEF Pending, Flying, Holding, Running
  <2>2. QED BY <1>1, <1>2, <2>1, StageSets, MoveCounts
<1>5. Books'
  <2>1. left' + Count(task', Pending) = left + Count(task, Pending)
    BY <1>1, <1>3, <1>4, Ordered
  <2>2. totalClaimed' = Add(totalProcessed', left' + Count(task', Pending))
    BY <1>1, <2>1 DEF LoopInv, Books
  <2>3. left' + Count(task', Running) <= BatchSize
    BY <1>1, <1>3, <1>4, Ordered
  <2>4. QED BY <1>1, <1>4, <2>2, <2>3, Ordered DEF LoopInv, Books
<1>6. TypeOK'
  <2>1. /\ inFlight' \in 0..BatchSize /\ wg' \in 0..BatchSize
    BY <1>5, Ordered, Sizes DEF Books
  <2>2. left' \in 0..BatchSize
    BY <1>1, <1>3, Sizes DEF LoopInv, TypeOK
  <2>3. QED BY <1>1, <1>4, <2>1, <2>2 DEF LoopInv, TypeOK, Stages
<1>7. Phases'
  BY <1>1 DEF Phases
<1>8. QED BY <1>5, <1>6, <1>7 DEF LoopInv

LEMMA RunOnceKeeps == ASSUME LoopInv, RunOnce PROVE LoopInv'
<1>1. CASE ClaimFails
  <2>1. /\ loop = "claiming" /\ loop' = "select"
        /\ UNCHANGED <<tick, trigger, cancelled, left, task, sem, wg, statVars>>
    BY <1>1 DEF ClaimFails, cycleVars
  <2>2. left = 0 /\ Count(task, Running) = 0
    BY <2>1 DEF LoopInv, Phases
  <2>3. tick' \in 0..1 /\ trigger' \in 0..1 /\ cancelled' \in BOOLEAN
    BY <2>1 DEF LoopInv, TypeOK
  <2>4. QED BY <2>1, <2>2, <2>3, LoopMoves
<1>2. CASE AllStarted
  <2>1. /\ loop = "dispatching" /\ loop' = "waiting" /\ left = 0
        /\ UNCHANGED <<tick, trigger, cancelled, left, task, sem, wg, statVars>>
    BY <1>2 DEF AllStarted, cycleVars
  <2>2. tick' \in 0..1 /\ trigger' \in 0..1 /\ cancelled' \in BOOLEAN
    BY <2>1 DEF LoopInv, TypeOK
  <2>3. QED BY <2>1, <2>2, LoopMoves
<1>3. CASE WaitReturns
  <2>1. /\ loop = "waiting" /\ loop' = "select" /\ wg = 0
        /\ UNCHANGED <<tick, trigger, cancelled, left, task, sem, wg, statVars>>
    BY <1>3 DEF WaitReturns, cycleVars
  <2>2. left = 0 /\ Count(task, Running) = 0
    BY <2>1 DEF LoopInv, Phases, Books
  <2>3. tick' \in 0..1 /\ trigger' \in 0..1 /\ cancelled' \in BOOLEAN
    BY <2>1 DEF LoopInv, TypeOK
  <2>4. QED BY <2>1, <2>2, <2>3, LoopMoves
<1>4. QED BY <1>1, <1>2, <1>3, ClaimKeeps, AcquireKeeps, StartKeeps DEF RunOnce

(* A step of a goroutine that keeps the books keeps the invariant.         *)
LEMMA BooksKept ==
    ASSUME LoopInv, UNCHANGED <<loop, tick, trigger, cancelled, left, totalClaimed>>,
           task' \in [Tasks -> Stages],
           inFlight' = Count(task', Flying),
           sem' = Count(task', Holding) + (IF loop = "acquired" THEN 1 ELSE 0),
           wg' = Count(task', Running),
           Count(task', Holding) <= Count(task, Holding),
           Count(task', Running) <= Count(task, Running),
           totalClaimed = Add(totalProcessed', left + Count(task', Pending)),
           totalProcessed' \in Counter, totalErrors' \in Counter
    PROVE  LoopInv'
<1>1. /\ inFlight \in Nat /\ sem \in Nat /\ wg \in Nat /\ left \in Nat
      /\ BatchSize \in Nat /\ sem <= Concurrency /\ Concurrency \in Nat
  BY Sizes DEF LoopInv, TypeOK
<1>2. /\ Count(task, Flying) \in Nat /\ Count(task', Flying) \in Nat
      /\ Count(task, Holding) \in Nat /\ Count(task', Holding) \in Nat
      /\ Count(task, Running) \in Nat /\ Count(task', Running) \in Nat
      /\ Count(task', Flying) <= BatchSize /\ Count(task', Running) <= BatchSize
  BY CountBounds
<1>3. /\ left + Count(task', Running) <= BatchSize
      /\ Count(task, Running) = 0 => Count(task', Running) = 0
  BY <1>1, <1>2 DEF LoopInv, Books
<1>4. inFlight' \in 0..BatchSize /\ wg' \in 0..BatchSize /\ sem' \in 0..Concurrency
  <2>1. sem = Count(task, Holding) + (IF loop = "acquired" THEN 1 ELSE 0)
    BY DEF LoopInv, Books
  <2>2. CASE loop = "acquired"
    BY <1>1, <1>2, <2>1, <2>2
  <2>3. CASE loop # "acquired"
    BY <1>1, <1>2, <2>1, <2>3
  <2>4. QED BY <2>2, <2>3
<1>5. TypeOK'
  BY <1>4 DEF LoopInv, TypeOK, Stages
<1>6. Books'
  BY <1>3 DEF LoopInv, Books
<1>7. Phases'
  BY <1>3 DEF LoopInv, Phases
<1>8. QED BY <1>5, <1>6, <1>7 DEF LoopInv

(* A goroutine moves on: each count changes as far as its stages do.       *)
LEMMA TaskKeeps ==
    ASSUME LoopInv, NEW k \in Tasks, TaskStep(k) PROVE LoopInv'
<1>0. /\ task \in [Tasks -> Stages] /\ totalProcessed \in Counter
      /\ totalErrors \in Counter /\ Add(totalErrors, 1) \in Counter
      /\ Add(totalProcessed, 1) \in Counter
  <2>1. 1 \in 0..BatchSize
    BY Sizes
  <2>2. QED BY <2>1, AddType DEF LoopInv, TypeOK, Stages
<1>1. CASE TaskFails(k)
  <2>1. /\ task[k] = "working" /\ task' = [task EXCEPT ![k] = "failed"]
        /\ UNCHANGED <<loop, tick, trigger, cancelled, left, totalClaimed, sem, wg,
                       inFlight, totalProcessed>>
        /\ totalErrors' \in Counter
    BY <1>0, <1>1 DEF TaskFails, Moves
  <2>2. "failed" \in Stages
        /\ \A S \in {Pending, Flying, Holding, Running} : task[k] \in S /\ "failed" \in S
    BY <2>1 DEF Pending, Flying, Holding, Running, Stages
  <2>3. /\ task' \in [Tasks -> Stages]
        /\ Count(task', Pending) = Count(task, Pending)
        /\ Count(task', Flying) = Count(task, Flying)
        /\ Count(task', Holding) = Count(task, Holding)
        /\ Count(task', Running) = Count(task, Running)
    BY <2>1, <2>2, StageSets, MoveCounts
  <2>4. /\ inFlight' = Count(task', Flying)
        /\ sem' = Count(task', Holding) + (IF loop = "acquired" THEN 1 ELSE 0)
        /\ wg' = Count(task', Running)
        /\ totalClaimed = Add(totalProcessed', left + Count(task', Pending))
    BY <2>1, <2>3 DEF LoopInv, Books
  <2>5. QED BY <1>0, <2>1, <2>3, <2>4, Ordered, BooksKept
<1>2. CASE CountProcessed(k)
  <2>1. /\ task[k] \in {"working", "failed"} /\ task' = [task EXCEPT ![k] = "counted"]
        /\ UNCHANGED <<loop, tick, trigger, cancelled, left, totalClaimed, sem, wg,
                       inFlight, totalErrors>>
        /\ totalProcessed' = Add(totalProcessed, 1)
    BY <1>2 DEF CountProcessed, Moves
  <2>2. /\ "counted" \in Stages /\ task[k] \in Pending /\ "counted" \notin Pending
        /\ \A S \in {Flying, Holding, Running} : task[k] \in S /\ "counted" \in S
    BY <2>1 DEF Pending, Flying, Holding, Running, Stages
  <2>3. /\ task' \in [Tasks -> Stages]
        /\ Count(task', Pending) = Count(task, Pending) - 1 /\ Count(task, Pending) > 0
        /\ Count(task', Flying) = Count(task, Flying)
        /\ Count(task', Holding) = Count(task, Holding)
        /\ Count(task', Running) = Count(task, Running)
    BY <2>1, <2>2, StageSets, MoveCounts
  <2>4. totalClaimed = Add(totalProcessed', left + Count(task', Pending))
    <3> DEFINE n == left + Count(task, Pending)
    <3>1. /\ n \in 0..BatchSize /\ n > 0
          /\ left + Count(task', Pending) = n - 1
      BY <2>3, Ordered, Sizes DEF LoopInv, Books, TypeOK
    <3>2. totalClaimed = Add(totalProcessed, n)
      BY DEF LoopInv, Books
    <3> HIDE DEF n
    <3>3. QED BY <1>0, <2>1, <3>1, <3>2, AddType
  <2>5. /\ inFlight' = Count(task', Flying)
        /\ sem' = Count(task', Holding) + (IF loop = "acquired" THEN 1 ELSE 0)
        /\ wg' = Count(task', Running)
    BY <2>1, <2>3 DEF LoopInv, Books
  <2>6. QED BY <1>0, <2>1, <2>3, <2>4, <2>5, Ordered, BooksKept
<1>3. CASE LeaveFlight(k)
  <2>1. /\ task[k] = "counted" /\ task' = [task EXCEPT ![k] = "left"]
        /\ UNCHANGED <<loop, tick, trigger, cancelled, left, totalClaimed, sem, wg,
                       totalProcessed, totalErrors>>
        /\ inFlight' = inFlight - 1
    BY <1>3 DEF LeaveFlight, Moves
  <2>2. /\ "left" \in Stages /\ task[k] \in Flying /\ "left" \notin Flying
        /\ task[k] \notin Pending /\ "left" \notin Pending
        /\ \A S \in {Holding, Running} : task[k] \in S /\ "left" \in S
    BY <2>1 DEF Pending, Flying, Holding, Running, Stages
  <2>3. /\ task' \in [Tasks -> Stages]
        /\ Count(task', Pending) = Count(task, Pending)
        /\ Count(task', Flying) = Count(task, Flying) - 1
        /\ Count(task', Holding) = Count(task, Holding)
        /\ Count(task', Running) = Count(task, Running)
    BY <2>1, <2>2, StageSets, MoveCounts
  <2>4. /\ inFlight' = Count(task', Flying)
        /\ sem' = Count(task', Holding) + (IF loop = "acquired" THEN 1 ELSE 0)
        /\ wg' = Count(task', Running)
        /\ totalClaimed = Add(totalProcessed', left + Count(task', Pending))
    <3>1. /\ sem = Count(task, Holding) + (IF loop = "acquired" THEN 1 ELSE 0)
          /\ inFlight = Count(task, Flying) /\ wg = Count(task, Running)
          /\ totalClaimed = Add(totalProcessed, left + Count(task, Pending))
      BY DEF LoopInv, Books
    <3>2. CASE loop = "acquired"
      BY <2>1, <2>3, <3>1, <3>2, Ordered
    <3>3. CASE loop # "acquired"
      BY <2>1, <2>3, <3>1, <3>3, Ordered
    <3>4. QED BY <3>2, <3>3
  <2>5. QED BY <1>0, <2>1, <2>3, <2>4, Ordered, BooksKept
<1>4. CASE ReleaseSlot(k)
  <2>1. /\ task[k] = "left" /\ task' = [task EXCEPT ![k] = "released"]
        /\ UNCHANGED <<loop, tick, trigger, cancelled, left, totalClaimed, wg,
                       inFlight, totalProcessed, totalErrors>>
        /\ sem' = sem - 1
    BY <1>4 DEF ReleaseSlot, Moves
  <2>2. /\ "released" \in Stages /\ task[k] \in Holding /\ "released" \notin Holding
        /\ task[k] \in Running /\ "released" \in Running
        /\ \A S \in {Pending, Flying} : task[k] \notin S /\ "released" \notin S
    BY <2>1 DEF Pending, Flying, Holding, Running, Stages
  <2>3. /\ task' \in [Tasks -> Stages]
        /\ Count(task', Pending) = Count(task, Pending)
        /\ Count(task', Flying) = Count(task, Flying)
        /\ Count(task', Holding) = Count(task, Holding) - 1 /\ Count(task, Holding) > 0
        /\ Count(task', Running) = Count(task, Running)
    BY <2>1, <2>2, StageSets, MoveCounts
  <2>4. /\ inFlight' = Count(task', Flying)
        /\ sem' = Count(task', Holding) + (IF loop = "acquired" THEN 1 ELSE 0)
        /\ wg' = Count(task', Running)
        /\ totalClaimed = Add(totalProcessed', left + Count(task', Pending))
    <3>1. /\ sem = Count(task, Holding) + (IF loop = "acquired" THEN 1 ELSE 0)
          /\ inFlight = Count(task, Flying) /\ wg = Count(task, Running)
          /\ totalClaimed = Add(totalProcessed, left + Count(task, Pending))
      BY DEF LoopInv, Books
    <3>2. CASE loop = "acquired"
      BY <2>1, <2>3, <3>1, <3>2, Ordered
    <3>3. CASE loop # "acquired"
      BY <2>1, <2>3, <3>1, <3>3, Ordered
    <3>4. QED BY <3>2, <3>3
  <2>5. QED BY <1>0, <2>1, <2>3, <2>4, Ordered, BooksKept
<1>5. CASE TaskDone(k)
  <2>1. /\ task[k] = "released" /\ task' = [task EXCEPT ![k] = "idle"]
        /\ UNCHANGED <<loop, tick, trigger, cancelled, left, totalClaimed, sem,
                       inFlight, totalProcessed, totalErrors>>
        /\ wg' = wg - 1
    BY <1>5 DEF TaskDone, Moves
  <2>2. /\ "idle" \in Stages /\ task[k] \in Running /\ "idle" \notin Running
        /\ \A S \in {Pending, Flying, Holding} : task[k] \notin S /\ "idle" \notin S
    BY <2>1 DEF Pending, Flying, Holding, Running, Stages
  <2>3. /\ task' \in [Tasks -> Stages]
        /\ Count(task', Pending) = Count(task, Pending)
        /\ Count(task', Flying) = Count(task, Flying)
        /\ Count(task', Holding) = Count(task, Holding)
        /\ Count(task', Running) = Count(task, Running) - 1 /\ Count(task, Running) > 0
    BY <2>1, <2>2, StageSets, MoveCounts
  <2>4. /\ inFlight' = Count(task', Flying)
        /\ sem' = Count(task', Holding) + (IF loop = "acquired" THEN 1 ELSE 0)
        /\ wg' = Count(task', Running)
        /\ totalClaimed = Add(totalProcessed', left + Count(task', Pending))
    <3>1. /\ sem = Count(task, Holding) + (IF loop = "acquired" THEN 1 ELSE 0)
          /\ inFlight = Count(task, Flying) /\ wg = Count(task, Running)
          /\ totalClaimed = Add(totalProcessed, left + Count(task, Pending))
      BY DEF LoopInv, Books
    <3>2. CASE loop = "acquired"
      BY <2>1, <2>3, <3>1, <3>2, Ordered
    <3>3. CASE loop # "acquired"
      BY <2>1, <2>3, <3>1, <3>3, Ordered
    <3>4. QED BY <3>2, <3>3
  <2>5. QED BY <1>0, <2>1, <2>3, <2>4, Ordered, BooksKept
<1>6. QED BY <1>1, <1>2, <1>3, <1>4, <1>5 DEF TaskStep

LEMMA NextLoop == ASSUME LoopInv, [Next]_vars PROVE LoopInv'
<1>1. CASE World
  BY <1>1, WorldKeeps
<1>2. CASE TakeTick \/ TakeTrigger \/ TakeDone
  BY <1>2, SelectKeeps
<1>3. CASE RunOnce
  BY <1>3, RunOnceKeeps
<1>4. CASE \E k \in Tasks : TaskStep(k)
  BY <1>4, TaskKeeps
<1>5. CASE UNCHANGED vars
  BY <1>5 DEF vars, cycleVars, statVars, LoopInv, TypeOK, Books, Phases, Count
<1>6. QED BY <1>1, <1>2, <1>3, <1>4, <1>5 DEF Next

-----------------------------------------------------------------------------
(* What holds of every execution.                                          *)

(* The strengthened invariant holds of every reachable state.              *)
THEOREM LoopInvCorrect == Spec => []LoopInv
<1>1. QED BY InitLoop, NextLoop, PTL DEF Spec

(* The variables keep their types: no counter goes below zero.             *)
THEOREM PollerTypeCorrect == Spec => []TypeOK
<1>1. LoopInv => TypeOK
  BY DEF LoopInv
<1>2. QED BY <1>1, LoopInvCorrect, PTL

(* The semaphore of runOnce bounds the items in work, and inFlight of      *)
(* Stats never shows more.                                                 *)
THEOREM ConcurrencyIsBounded == Spec => []ConcurrencyBounded
<1>1. ASSUME LoopInv PROVE ConcurrencyBounded
  <2>1. {k \in Tasks : Live(k)} = {k \in Tasks : task[k] \in Holding}
    BY DEF Live, Holding
  <2>2. Cardinality({k \in Tasks : Live(k)}) = Count(task, Holding)
    BY <2>1 DEF Count
  <2>3. Count(task, Holding) <= sem /\ inFlight <= Count(task, Holding)
    BY <1>1, Ordered DEF LoopInv, Books
  <2>4. /\ sem \in Nat /\ sem <= Concurrency /\ inFlight \in Nat
        /\ Concurrency \in Nat /\ Count(task, Holding) \in Nat
    BY <1>1, Sizes, Ordered DEF LoopInv, TypeOK
  <2>5. QED BY <2>2, <2>3, <2>4 DEF ConcurrencyBounded
<1>2. QED BY <1>1, LoopInvCorrect, PTL

(* Stats adds up at every moment, also when its counters wrap.             *)
THEOREM ClaimsAreAccounted == Spec => []EveryClaimAccounted
<1>1. LoopInv => EveryClaimAccounted
  BY DEF LoopInv, Books, EveryClaimAccounted, Count, Pending
<1>2. QED BY <1>1, LoopInvCorrect, PTL

(* runOnce leaves nothing behind: wg.Wait returns when the last goroutine  *)
(* has released its slot.                                                  *)
THEOREM CyclesAreSeparate == Spec => []CyclesDoNotOverlap
<1>1. ASSUME LoopInv PROVE CyclesDoNotOverlap
  <2>1. SUFFICES ASSUME loop \in {"select", "claiming", "returned"}
                 PROVE  /\ \A k \in Tasks : task[k] = "idle"
                        /\ left = 0 /\ wg = 0 /\ sem = 0 /\ inFlight = 0
    BY DEF CyclesDoNotOverlap
  <2>2. left = 0 /\ Count(task, Running) = 0
    BY <1>1, <2>1 DEF LoopInv, Phases
  <2>3. Count(task, Holding) = 0 /\ Count(task, Flying) = 0
    BY <2>2, Ordered
  <2>4. wg = 0 /\ sem = 0 /\ inFlight = 0
    BY <1>1, <2>1, <2>2, <2>3 DEF LoopInv, Books
  <2>5. \A k \in Tasks : task[k] \notin Running /\ task[k] \in Stages
    BY <1>1, <2>2, CountZero DEF LoopInv, TypeOK, Stages
  <2>6. QED BY <2>2, <2>4, <2>5 DEF Running, Stages
<1>2. QED BY <1>1, LoopInvCorrect, PTL

-----------------------------------------------------------------------------
(* The planner                                                             *)

Positive(c) ==
    /\ c.delivered > 0 /\ c.inTransitMin > 0 /\ c.inTransitMax > 0
    /\ c.unknown > 0
    /\ \A i \in 1..4 : c.backoff[i] > 0

SoundDefaults == Second \in Nat \ {0} /\ Defaults \in Config /\ Positive(Defaults)

(* The defaults of the program meet this premise and the one below       *)
(* (planner.go:26-41).                                                     *)
THEOREM DefaultsAreSound ==
    ASSUME Second \in Nat \ {0}, Defaults = DefaultPlannerConfig
    PROVE  SoundDefaults /\ Defaults.inTransitMin >= Second /\ Defaults.unknown >= Second
<1>1. /\ Minute \in Nat /\ Minute >= Second
      /\ Hour \in Nat /\ Hour >= Second
  BY DEF Minute, Hour
<1>2. /\ 5 * Minute \in Int /\ 5 * Minute > 0 /\ 15 * Minute \in Int /\ 15 * Minute > 0
      /\ 30 * Minute \in Int /\ 30 * Minute > 0
      /\ 365 * 24 * Hour \in Int /\ 365 * 24 * Hour > 0
  BY <1>1
<1>3. /\ Defaults.backoff \in [1..4 -> Int]
      /\ \A i \in 1..4 : Defaults.backoff[i] > 0
  BY <1>1, <1>2 DEF DefaultPlannerConfig
<1>4. Defaults \in Config /\ Positive(Defaults)
  BY <1>1, <1>2, <1>3 DEF DefaultPlannerConfig, Config, Positive
<1> QED BY <1>1, <1>4 DEF SoundDefaults, DefaultPlannerConfig

(* Whole multiples of a second between two bounds: there is one as soon as *)
(* the bounds are in order, and none exceeds the upper bound.              *)
LEMMA MultiplesBetween ==
    ASSUME Second \in Nat \ {0}, NEW lo \in Nat, NEW hi \in Nat, lo <= hi
    PROVE  /\ lo \div Second \in Nat /\ hi \div Second \in Nat
           /\ lo \div Second <= hi \div Second
           /\ \A s \in (lo \div Second)..(hi \div Second) :
                 s * Second \in Nat /\ s * Second <= hi
<1> DEFINE l == lo \div Second
           h == hi \div Second
<1>1. /\ l \in Int /\ h \in Int
      /\ l * Second <= lo /\ lo < (l + 1) * Second
      /\ h * Second <= hi /\ hi < (h + 1) * Second
  BY SMTT(30)
<1>2. l \in Nat /\ h \in Nat /\ l <= h
  BY <1>1, SMTT(30)
<1>3. ASSUME NEW s \in l..h
      PROVE  s * Second \in Nat /\ s * Second <= hi
  BY <1>1, <1>2, SMTT(30)
<1> QED BY <1>2, <1>3

(* NewPlanner repairs every configuration: all delays are positive and the *)
(* bounds of the random delay are in order (planner.go:48-81), so that     *)
(* Intn is never called with a number below one.                           *)
THEOREM PlannerIsSound ==
    ASSUME SoundDefaults, NEW cfg \in Config
    PROVE  /\ NewPlanner(cfg) \in Config
           /\ Positive(NewPlanner(cfg))
           /\ NewPlanner(cfg).inTransitMin <= NewPlanner(cfg).inTransitMax
  BY DEF SoundDefaults, Config, Positive, NewPlanner, OrDefault, AtLeast

(* A tracking that is not delivered gets some delay, and none beyond the   *)
(* larger of the two bounds that hold for it (planner.go:83-105): the      *)
(* premise under which UpdatePipeline speaks of a Horizon.                 *)
THEOREM DelaysAreBounded ==
    ASSUME SoundDefaults, NEW cfg \in Config, NEW status, status # "DELIVERED"
    PROVE  /\ NextCheckDelays(NewPlanner(cfg), status) # {}
           /\ \A d \in NextCheckDelays(NewPlanner(cfg), status) :
                 /\ d \in Nat
                 /\ d <= NewPlanner(cfg).inTransitMax \/ d <= NewPlanner(cfg).unknown
<1> DEFINE p == NewPlanner(cfg)
<1>1. p \in Config /\ Positive(p) /\ p.inTransitMin <= p.inTransitMax
  BY PlannerIsSound
<1>2. p.inTransitMin \in Nat /\ p.inTransitMax \in Nat /\ p.unknown \in Nat
  BY <1>1 DEF Config, Positive
<1> HIDE DEF p
<1>3. InTransitDelays(p) # {}
      /\ \A d \in InTransitDelays(p) : d \in Nat /\ d <= p.inTransitMax
  <2>1. CASE p.inTransitMax = p.inTransitMin
    <3>1. InTransitDelays(p) = {p.inTransitMin}
      BY <2>1 DEF InTransitDelays
    <3>2. QED BY <1>1, <1>2, <3>1
  <2>2. CASE p.inTransitMax # p.inTransitMin
    <3> DEFINE lo == p.inTransitMin \div Second
               hi == p.inTransitMax \div Second
    <3>1. InTransitDelays(p) = {s * Second : s \in lo..hi}
      BY <2>2 DEF InTransitDelays
    <3>2. /\ lo \in Nat /\ hi \in Nat /\ lo <= hi
          /\ \A s \in lo..hi : s * Second \in Nat /\ s * Second <= p.inTransitMax
      BY <1>1, <1>2, MultiplesBetween DEF SoundDefaults
    <3> HIDE DEF lo, hi
    <3>3. lo \in lo..hi
      BY <3>2
    <3>4. lo * Second \in InTransitDelays(p)
      BY <3>1, <3>3
    <3>5. \A d \in InTransitDelays(p) : d \in Nat /\ d <= p.inTransitMax
      BY <3>1, <3>2
    <3>6. QED BY <3>4, <3>5
  <2>3. QED BY <2>1, <2>2
<1>4. NextCheckDelays(p, status) = InTransitDelays(p)
        \/ NextCheckDelays(p, status) = {p.unknown}
  BY DEF NextCheckDelays
<1>5. NextCheckDelays(p, status) # {}
      /\ \A d \in NextCheckDelays(p, status) :
            d \in Nat /\ (d <= p.inTransitMax \/ d <= p.unknown)
  BY <1>2, <1>3, <1>4
<1> QED BY <1>5 DEF p

(* With the settings of track-worker, which are whole seconds, and defaults *)
(* of at least a second, cutting to seconds never makes a delay zero, and   *)
(* so no tracking is checked in a tight loop (cmd/track-worker/app.go:132). *)
THEOREM RecheckIsNeverImmediate ==
    ASSUME SoundDefaults, NEW settings \in Settings, NEW status, status # "DELIVERED",
           Defaults.inTransitMin >= Second, Defaults.unknown >= Second
    PROVE  \A d \in NextCheckDelays(NewPlanner(PlannerCfg(settings)), status) :
              d >= Second
<1> DEFINE cfg == PlannerCfg(settings)
           p   == NewPlanner(cfg)
<1>1. \A s \in Int : InSeconds(s) \in Int /\ (InSeconds(s) > 0 => InSeconds(s) >= Second)
  BY SMTT(30) DEF SoundDefaults, InSeconds
<1>2. cfg \in Config
  BY <1>1 DEF PlannerCfg, Config, Settings
<1>3. /\ cfg.inTransitMin > 0 => cfg.inTransitMin >= Second
      /\ cfg.unknown > 0 => cfg.unknown >= Second
  BY <1>1 DEF PlannerCfg, Settings
<1>4. p.inTransitMin >= Second /\ p.unknown >= Second
  BY <1>2, <1>3 DEF NewPlanner, OrDefault, Config, SoundDefaults
<1>5. /\ Second \in Nat \ {0} /\ p.inTransitMin \in Nat /\ p.inTransitMax \in Nat
      /\ p.inTransitMin <= p.inTransitMax
  BY <1>2, PlannerIsSound DEF SoundDefaults, Config, Positive
<1> HIDE DEF p, cfg
<1>6. p.inTransitMin \div Second \in Nat /\ p.inTransitMin \div Second >= 1
      /\ p.inTransitMax \div Second \in Nat
  BY <1>4, <1>5, SMTT(30)
<1>7. \A s \in (p.inTransitMin \div Second)..(p.inTransitMax \div Second) :
         s * Second >= Second
  BY <1>5, <1>6, SMTT(30)
<1>8. \A d \in InTransitDelays(p) : d >= Second
  BY <1>4, <1>7 DEF InTransitDelays
<1>9. \A d \in NextCheckDelays(p, status) : d >= Second
  BY <1>4, <1>8 DEF NextCheckDelays
<1> QED BY <1>9 DEF p, cfg

(* Every failure count, an overflowed one too, leads to one of the four    *)
(* back-offs, and none is zero (planner.go:107-118).                       *)
THEOREM BackoffIsPositive ==
    ASSUME SoundDefaults, NEW cfg \in Config, NEW n \in Int
    PROVE  /\ BackoffDelay(NewPlanner(cfg), n) > 0
           /\ \E i \in 1..4 : BackoffDelay(NewPlanner(cfg), n) = NewPlanner(cfg).backoff[i]
<1> DEFINE p == NewPlanner(cfg)
<1>1. Positive(p)
  BY PlannerIsSound
<1> HIDE DEF p
<1>2. PICK i \in 1..4 : BackoffDelay(p, n) = p.backoff[i]
  BY DEF BackoffDelay
<1>3. BackoffDelay(p, n) > 0
  BY <1>1, <1>2 DEF Positive
<1> QED BY <1>2, <1>3 DEF p

=============================================================================
