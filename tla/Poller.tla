------------------------------- MODULE Poller -------------------------------
(***************************************************************************)
(* The loop of a track-worker: Run selects between cancellation, a ticker  *)
(* and the trigger channel; runOnce claims a batch, starts a goroutine per *)
(* item behind a semaphore, and waits for all of them.  The counters of    *)
(* Stats are atomics touched one at a time by the loop and the goroutines. *)
(***************************************************************************)
EXTENDS Integers, FiniteSets

CONSTANTS
    BatchSize,    \* items a claim may return
    Concurrency,  \* capacity of the semaphore
    Wrap          \* the counters are kept modulo Wrap (2^64 in the code)

ASSUME PollerAssumption ==
    /\ BatchSize \in Nat \ {0} /\ Concurrency \in Nat \ {0}
    /\ Wrap \in Nat /\ Wrap > BatchSize

VARIABLES
    loop,       \* where Run and runOnce stand
    tick,       \* ticks waiting in the ticker's channel
    trigger,    \* triggers waiting in triggerCh
    cancelled,  \* ctx is done
    left,       \* claimed items without a goroutine yet
    task,       \* [Tasks -> where the goroutine stands]
    sem,        \* tokens in the semaphore of this cycle
    wg,         \* the WaitGroup of this cycle
    inFlight, totalClaimed, totalProcessed, totalErrors   \* Stats

cycleVars == <<left, task, sem, wg>>
statVars  == <<inFlight, totalClaimed, totalProcessed, totalErrors>>
vars == <<loop, tick, trigger, cancelled, cycleVars, statVars>>

Tasks == 1..BatchSize
Counter == 0..(Wrap - 1)

TypeOK ==
    /\ loop \in {"select", "claiming", "dispatching", "acquired", "waiting",
                 "returned"}
    /\ tick \in 0..1 /\ trigger \in 0..1
    /\ cancelled \in BOOLEAN
    /\ left \in 0..BatchSize
    /\ task \in [Tasks -> {"idle", "working", "failed", "counted", "left",
                           "released"}]
    /\ sem \in 0..Concurrency
    /\ wg \in 0..BatchSize
    /\ inFlight \in 0..BatchSize
    /\ totalClaimed \in Counter /\ totalProcessed \in Counter
    /\ totalErrors \in Counter

Init ==
    /\ loop = "select"
    /\ tick = 0 /\ trigger = 0
    /\ cancelled = FALSE
    /\ left = 0
    /\ task = [k \in Tasks |-> "idle"]
    /\ sem = 0 /\ wg = 0
    /\ inFlight = 0
    /\ totalClaimed = 0 /\ totalProcessed = 0 /\ totalErrors = 0

Add(counter, n) == (counter + n) % Wrap

-----------------------------------------------------------------------------
(* The world outside the loop                                              *)

(* The ticker drops a tick that finds its channel full.                    *)
TickerFires ==
    /\ tick' = 1
    /\ UNCHANGED <<loop, trigger, cancelled, cycleVars, statVars>>

(* Wrong: a channel that takes every trigger.                              *)
TriggerQueued ==
    /\ trigger' = trigger + 1
    /\ UNCHANGED <<loop, tick, cancelled, cycleVars, statVars>>

(* POST /trigger never blocks: a trigger that is waiting stands for all.   *)
Trigger ==
    /\ trigger' = 1
    /\ UNCHANGED <<loop, tick, cancelled, cycleVars, statVars>>

Cancel ==
    /\ cancelled' = TRUE
    /\ UNCHANGED <<loop, tick, trigger, cycleVars, statVars>>

-----------------------------------------------------------------------------
(* Run                                                                     *)

TakeTick ==
    /\ loop = "select" /\ tick = 1
    /\ tick' = 0
    /\ loop' = "claiming"
    /\ UNCHANGED <<trigger, cancelled, cycleVars, statVars>>

(* Wrong: the trigger is taken but no cycle is run for it.                 *)
TakeTriggerOnly ==
    /\ loop = "select" /\ trigger = 1
    /\ trigger' = 0
    /\ UNCHANGED <<loop, tick, cancelled, cycleVars, statVars>>

TakeTrigger ==
    /\ loop = "select" /\ trigger = 1
    /\ trigger' = 0
    /\ loop' = "claiming"
    /\ UNCHANGED <<tick, cancelled, cycleVars, statVars>>

(* Wrong: the case of ctx.Done() leaves the select, not the loop.          *)
BreakOnDone ==
    /\ loop = "select" /\ cancelled
    /\ UNCHANGED vars

TakeDone ==
    /\ loop = "select" /\ cancelled
    /\ loop' = "returned"
    /\ UNCHANGED <<tick, trigger, cancelled, cycleVars, statVars>>

-----------------------------------------------------------------------------
(* runOnce                                                                 *)

ClaimSucceeds ==
    /\ loop = "claiming"
    /\ \E n \in 0..BatchSize :
          /\ left' = n
          /\ totalClaimed' = Add(totalClaimed, n)
    /\ loop' = "dispatching"
    /\ sem' = 0 /\ wg' = 0
    /\ UNCHANGED <<tick, trigger, cancelled, task, inFlight, totalProcessed,
                   totalErrors>>

(* Postgres fails, or ctx is done: the cycle is over.                      *)
ClaimFails ==
    /\ loop = "claiming"
    /\ loop' = "select"
    /\ UNCHANGED <<tick, trigger, cancelled, cycleVars, statVars>>

(* Wrong: the goroutine takes the slot, so the loop does not wait for one. *)
GoWithoutSlot ==
    /\ loop = "dispatching" /\ left > 0
    /\ loop' = "acquired"
    /\ UNCHANGED <<tick, trigger, cancelled, cycleVars, statVars>>

(* sem <- struct{}{} blocks while all slots are taken.                     *)
AcquireSlot ==
    /\ loop = "dispatching" /\ left > 0 /\ sem < Concurrency
    /\ sem' = sem + 1
    /\ loop' = "acquired"
    /\ UNCHANGED <<tick, trigger, cancelled, left, task, wg, statVars>>

(* The loop counts the goroutine before it starts it.                      *)
StartTask(k) ==
    /\ loop = "acquired" /\ task[k] = "idle"
    /\ wg' = wg + 1
    /\ inFlight' = inFlight + 1
    /\ task' = [task EXCEPT ![k] = "working"]
    /\ left' = left - 1
    /\ loop' = "dispatching"
    /\ UNCHANGED <<tick, trigger, cancelled, sem, totalClaimed,
                   totalProcessed, totalErrors>>

AllStarted ==
    /\ loop = "dispatching" /\ left = 0
    /\ loop' = "waiting"
    /\ UNCHANGED <<tick, trigger, cancelled, cycleVars, statVars>>

(* Wrong: the next cycle does not wait for the goroutines of this one.     *)
ReturnAtOnce ==
    /\ loop = "waiting"
    /\ loop' = "select"
    /\ UNCHANGED <<tick, trigger, cancelled, cycleVars, statVars>>

(* wg.Wait returns, and runOnce with it.                                   *)
WaitReturns ==
    /\ loop = "waiting" /\ wg = 0
    /\ loop' = "select"
    /\ UNCHANGED <<tick, trigger, cancelled, cycleVars, statVars>>

-----------------------------------------------------------------------------
(* A goroutine: processOne, the counters, the deferred release.            *)

Moves(k, from, to) ==
    /\ task[k] = from
    /\ task' = [task EXCEPT ![k] = to]
    /\ UNCHANGED <<loop, tick, trigger, cancelled, left, totalClaimed>>

(* Wrong: a failed item returns before it is counted as processed.         *)
TaskFailsUncounted(k) ==
    /\ Moves(k, "working", "counted")
    /\ totalErrors' = Add(totalErrors, 1)
    /\ UNCHANGED <<sem, wg, inFlight, totalProcessed>>

TaskFails(k) ==
    /\ Moves(k, "working", "failed")
    /\ totalErrors' = Add(totalErrors, 1)
    /\ UNCHANGED <<sem, wg, inFlight, totalProcessed>>

CountProcessed(k) ==
    /\ Moves(k, "working", "counted") \/ Moves(k, "failed", "counted")
    /\ totalProcessed' = Add(totalProcessed, 1)
    /\ UNCHANGED <<sem, wg, inFlight, totalErrors>>

LeaveFlight(k) ==
    /\ Moves(k, "counted", "left")
    /\ inFlight' = inFlight - 1
    /\ UNCHANGED <<sem, wg, totalProcessed, totalErrors>>

ReleaseSlot(k) ==
    /\ Moves(k, "left", "released")
    /\ sem' = sem - 1
    /\ UNCHANGED <<wg, inFlight, totalProcessed, totalErrors>>

TaskDone(k) ==
    /\ Moves(k, "released", "idle")
    /\ wg' = wg - 1
    /\ UNCHANGED <<sem, inFlight, totalProcessed, totalErrors>>

-----------------------------------------------------------------------------

World == TickerFires \/ Trigger \/ Cancel

RunOnce ==
    \/ ClaimSucceeds
    \/ ClaimFails
    \/ AcquireSlot
    \/ \E k \in Tasks : StartTask(k)
    \/ AllStarted
    \/ WaitReturns

TaskStep(k) ==
    \/ TaskFails(k)
    \/ CountProcessed(k)
    \/ LeaveFlight(k)
    \/ ReleaseSlot(k)
    \/ TaskDone(k)

Next ==
    \/ World
    \/ TakeTick
    \/ TakeTrigger
    \/ TakeDone
    \/ RunOnce
    \/ \E k \in Tasks : TaskStep(k)

Spec == Init /\ [][Next]_vars

(* Goroutines run, and calls to Postgres, Redis, Kafka and the carrier     *)
(* return.  A select with several ready cases picks one at random: a case  *)
(* that is ready again and again is chosen in the end.                     *)
Fairness ==
    /\ WF_vars(RunOnce)
    /\ SF_vars(TakeTrigger)
    /\ SF_vars(TakeDone)
    /\ \A k \in Tasks : WF_vars(TaskStep(k))

FairSpec == Spec /\ Fairness

-----------------------------------------------------------------------------
(* What the loop promises.                                                 *)

Live(k) == task[k] \in {"working", "failed", "counted", "left"}

(* No more items are processed at once than the semaphore has slots, and   *)
(* the gauge that Stats shows never says otherwise.                        *)
ConcurrencyBounded ==
    /\ Cardinality({k \in Tasks : Live(k)}) <= Concurrency
    /\ inFlight <= Concurrency

(* Every claimed item is accounted for at every moment: processed, being   *)
(* processed, or waiting for a slot, also when processing it fails.        *)
EveryClaimAccounted ==
    totalClaimed = Add(totalProcessed,
        left + Cardinality({k \in Tasks : task[k] \in {"working", "failed"}}))

(* Cycles never overlap: at the select, and while it claims, the worker    *)
(* has no goroutine, slot or item left over from an earlier cycle.         *)
CyclesDoNotOverlap ==
    loop \in {"select", "claiming", "returned"} =>
        /\ \A k \in Tasks : task[k] = "idle"
        /\ left = 0 /\ wg = 0 /\ sem = 0 /\ inFlight = 0

(* An accepted trigger is followed by a claim that starts after it, also   *)
(* when it arrives in the middle of a cycle; only cancellation takes it    *)
(* back.                                                                   *)
TriggerLeadsToClaim ==
    trigger = 1 ~> loop \in {"claiming", "returned"}

(* A cancelled worker finishes the cycle it is in, and Run returns: ticks  *)
(* and triggers cannot keep it going, and no slot is waited for in vain.   *)
CancelledReturns == cancelled ~> loop = "returned"

=============================================================================
