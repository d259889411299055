# TrackBox in TLA+

TrackBox stores parcel tracking numbers, checks them against carriers in the
background, and serves the current status and the history of events. This
directory holds TLA+ models of it, TLC configurations that model-check them on
small instances, and TLAPS proofs about them. Paths below are relative to the
repository.

## 1. The system

| Part | State it keeps | Operations | Interacts with |
|---|---|---|---|
| `track-api`: service (`internal/services/trackings`) | none of its own | create, get by ids, list events, refresh, apply an update | Postgres, Redis cache; called by gRPC and by the consumer goroutine |
| `track-api`: consumer (`internal/broker/kafka/consumer.go`, `cmd/track-api/app.go`) | position of the reader, committed offset | fetch, handle, commit; ends at the first error | Kafka, service |
| `track-worker`: poll loop (`internal/services/poller/poller.go`) | trigger channel, semaphore, WaitGroup, atomic counters | `Run`, `Trigger`, `runOnce`, `Stats` | Postgres (claim), HTTP `/trigger` |
| `track-worker`: `processOne` | the item, one clock reading, the message | limiter, carrier, plan, publish with 10 attempts | Redis, carrier, Kafka |
| planner (`planner.go`) | delays | `NextCheckDelay`, `BackoffDelay` | `processOne` |
| storage (`internal/storage/pgtracking`) | tables `trackings`, `tracking_events` | create-or-get, get, refresh, claim with lease, apply, list events | both processes |
| schema (`schema.go`) | the tables' indexes and constraints | twelve statements at every start | both processes |
| cache and limiter (`internal/cache/rediscache`) | keys with a TTL | `Get`, `Set`; `Allow` | service; `processOne` |
| carrier clients (`internal/integrations/carrier`) | none | make a status and events of an answer, or an error | `processOne`, emulator |
| `carrier-emulator/` | scenarios, counters per minute, without locks | answer a query, seed, reset | carrier clients |
| the processes (`cmd/track-api`, `cmd/track-worker`) | what is open: pool, listeners, goroutines | start with retries, serve, drain, close | Postgres, the operating system |
| gRPC API, gateway, ops HTTP server, configuration, generated code, demo generator | none that matters here | conversions and wiring | |

One update travels like this: a worker *claims* due rows in one transaction
(`SELECT ... FOR UPDATE SKIP LOCKED`, then `next_check_at := now + lease`); a
goroutine per row asks the carrier and *publishes* a message with status, events
and the next `next_check_at`; the consumer in track-api *applies* it in one
transaction, refreshes the cache, and only then commits the offset.

What is hard about it: several workers share the rows under a lease that is a
time and not a lock; publications may be repeated, reordered across partitions
(the writer balances by bytes and ignores the key) and replayed after a crash;
the row has no guard against an older message; the cache is written by readers
and by the consumer without any coordination; Redis, Postgres, Kafka and the
carrier may each fail between any two steps; the consumer ends at its first
error; the limiter delays but does not stop; a claim takes the oldest rows of a
backlog that everything else reorders; both programs migrate the same database
when they start, beside each other and beside older versions; they stop while
calls, handlers and goroutines hold connections; a history is read page by page
while it grows.

What makes each part correct:

* pipeline: no committed message is lost, a status is explained by stored
  events, an undelivered tracking is never parked, a status does not go back
  where the deployment keeps messages in order;
* claims: a due tracking is claimed, however long the backlog;
* poll loop: concurrency is bounded, cycles do not overlap, each claimed item is
  accounted for, triggers are served, cancellation ends the loop;
* service and cache: answers are complete and never show what is not committed;
  a stale entry dies and stays dead;
* limiter and emulator: no minute sees more allowed requests than the limit, and
  a refusal has a reason;
* creation: a batch is all or nothing, a pair keeps its id, every call ends;
* schema and processes: a start loses no history, nobody serves on an incomplete
  schema or gives up for a lost race, a signal ends a serving process;
* history: a step of Track24 is stored once, a paging client misses nothing, what
  the carrier shows is stored in the end.

`PROJECT.json` lists every hazard at its line with the properties that would
notice it.

## 2. Modules

| Module | Models | Instance | Proofs |
|---|---|---|---|
| `UpdatePipeline` | claim, `processOne`, Kafka, consumer, apply | `MCUpdatePipeline` (three configurations) | `UpdatePipelineProofs` |
| `Lifecycle` | abstract: what a user sees of a tracking | as a property of `MCUpdatePipeline` | as above |
| `Planner` | settings, defaults, delays | operators, used by `MCUpdatePipeline` | `PollerProofs` |
| `Claims` | the claim's row locks and the backlog, for ever | `MCClaims` | `StorageProofs` |
| `Poller` | `Run`, `runOnce`, goroutines, counters | `MCPoller` | `PollerProofs` |
| `StatusCache` | GETs, the consumer's cache write, expiry | `MCStatusCache` | `StatusCacheProofs` |
| `RateLimit` | `Allow` and what `processOne` makes of it | `MCRateLimit` (two configurations) | `RateLimitProofs` |
| `Creates` | `CreateTrackings` for several clients | `MCCreates` | `StorageProofs` |
| `Registry` | abstract: what `CreateTrackings` promises | as a property of `MCCreates` | as above |
| `Emulator` | the emulator's threads on shared dictionaries | `MCEmulator` | `EmulatorProofs` |
| `Schema` | `initSchema` statement by statement | through `Processes` | `ProcessesProofs` |
| `Processes` | start, service, stop of both programs, over `Schema` | `MCProcesses` | `ProcessesProofs` |
| `Carriers` | what each client makes of an answer | through `History` | |
| `History` | steps of a parcel, events stored, pages read, over `Carriers` | `MCHistory` | `HistoryProofs` |

UpdatePipeline composes worker, broker, consumer and storage; the other modules
look closer at one of its parts, or at one beside it. What UpdatePipeline takes
for granted of a part is a property there: that a worker claims only when all
its goroutines are done is Poller's `CyclesDoNotOverlap`; that events are a set
is Processes' `ServesOnSoundSchema`; its delays are the planner's, for which
PollerProofs shows what `DelaysAssumption` asks. That its claim is one step,
the row locks of Claims justify: two open claims never hold the same row, and
what a claim holds stays due until it ends (`ClaimsTypeOK`).

In every module an operator commented "Wrong:" is a plausible bug of the
definition below it; a property is trusted only after it failed with that bug.

### UpdatePipeline (the core; MCUpdatePipeline, UpdatePipelineProofs)

Claim, `processOne`, Kafka and `ApplyTrackingUpdate` together.

| Variable | Code |
|---|---|
| `now` | UTC clocks of the processes, assumed to agree |
| `carrier[t]` | external: the number of events the carrier has announced; 0 is UNKNOWN, `MaxStep` is DELIVERED |
| `row[t]` | `status`, `next_check_at`, `check_fail_count` |
| `events[t]` | rows of `tracking_events`, which the unique key makes a set |
| `job[w][t]` | the goroutine of `processOne`: the claimed failure count, the clock reading, the message, the attempt |
| `log[p]`, `committed[p]`, `position[p]` | a partition, the group's offset, the reader's place |
| `consumer` | where `Consume` stands: idle, fetched, applied, stopped |

Each action is one atomic interaction: a transaction of Postgres, a call to
Redis or the carrier, one attempt to publish, a fetch, a commit of an offset.
`ClaimDueTrackings` is guarded by all goroutines of the worker being done,
because `runOnce` waits for them (that this wait works is Poller's
`CyclesDoNotOverlap`). `SKIP LOCKED` is an arbitrary set of skipped rows.
`PublishUnacknowledged` is the attempt that reports an error although the broker
has the message. `ApplyTrackingUpdate` may commit while its answer is lost;
`ApiRestarts` and `WorkerRestarts` may happen at any step.

### Lifecycle

Three variables for each tracking: what the carrier has announced, the status
shown, the history. One action lets the carrier announce, one lets the system
learn a prefix of what was announced, never less than it knew. Workers, leases,
failures and offsets are stuttering. UpdatePipeline implements it where one
worker and one partition keep messages in order: `announced` is `carrier`,
`status` the row's, `history` the rows of `tracking_events`.

### Claims (MCClaims, StorageProofs)

The claim as three steps (`SelectDue` locks rows, then `CommitClaim` or
`RollbackClaim`) over a backlog longer than `BatchSize`. Times are kept by order
alone: `earlier[t]` has the undelivered rows with a smaller `next_check_at` than
`t`, `due` those whose time has come. So the clock has no bound, and it makes
sense to ask what happens for ever. Rows of one claim get the same time, as
rows of one batch do when they are created, and `ORDER BY` leaves open which of
them a `LIMIT` takes (`Selected`). `checks[t]` has a set for each check of `t`
under way: the rows that were due when it was claimed and have not moved since.
`Applied` puts `t` behind all of these, since its time was computed later; among
the others it may land anywhere. `RefreshTracking` sets `now`, which is behind
whoever is due already.

### StatusCache (MCStatusCache)

`GetTrackingsByIDs` call by call (a `Get` per id, one `SELECT`, a `Set` per row)
for several concurrent handlers, against `ApplyKafkaUpdate` (apply, reload,
`Set`), refreshes and claims that change rows behind the cache, expiry, failures
of any call, and restarts. A row is reduced to the update that gave its status
and the rescheduling that gave its `next_check_at`. All ids asked for exist (an
id without a row is left out of the answer in the code as well).

### Poller (MCPoller)

`Run`'s select, the one-slot trigger channel, the ticker, `runOnce` with
semaphore and WaitGroup, and the goroutines' deferred release in its order:
in-flight counter, slot, WaitGroup. The 64-bit counters are kept modulo `Wrap`.

### RateLimit (MCRateLimit)

`Allow` as one MULTI/EXEC on a key of carrier and minute with a TTL, its
failures with and without effect, and `processOne`'s use of the reply: the clock
is read before the call, a refusal costs 500 ms, the carrier is called either
way. `MaxDelay` bounds the time between the clock reading and the answer of
Redis, which is sound while client time-outs stay below the ten seconds by which
the TTL (70 s) exceeds the minute; the assumption `Minute + MaxDelay <= KeyTTL`
states it.

### Creates and Registry (MCCreates, StorageProofs)

`CreateTrackings` and `CreateOrGetTrackings` for several clients at once.

| Variable | Code |
|---|---|
| `row[p]` | the committed row of a pair of carrier and number, as its id |
| `holder[p]` | external: the open transaction that inserted or updated the pair |
| `nextId` | the sequence of `trackings.id`, without its gaps |
| `call[r]` | one call: the cleaned batch, ids returned so far, the answer |

Each upsert is a step and waits while another transaction holds the pair. A
cycle of such waits ends when Postgres aborts one of it (`DeadlockDetected`). A
commit may fail without effect or lose its answer; reading back may fail after
the commit. Transactions occupy a connection of the pool. `KeyOf` is the
de-duplication key, which joins carrier and number with a bar and so may confuse
two pairs; the instance has such a pair.

Registry is what a client may rely on. A call asks for pairs, of which one per
key stands for the rest; its batch is registered in one step, whole, with ids
that are nobody else's and stay for ever; it is answered with these. A client
that is told of a failure does not know whether its batch was registered.
Creates implements it: connections, statements, waits and deadlocks are
stuttering, `id` is `row`, and a batch counts as registered when its
transaction commits, whether or not the client learns of it.

### Planner (PollerProofs)

The settings of the worker, the defaults, `NewPlanner`'s repairs and the delays
it may choose, as pure operators. There is nothing to run; `PollerProofs`
proves what holds for every configuration, and MCUpdatePipeline takes the delays
of its instances from a planner of a small unit of time.

### Emulator (MCEmulator)

The endpoint `/v1/tracking/...` of the carrier emulator, with `seed-v1` and
`reset`. FastAPI runs it in a thread pool, so every access to a shared
dictionary is a step. A scenario is an object held by reference (`object`); the
dictionary (`state`) may point to another one meanwhile. Whether a step is due
is left open, which covers timer and chance; step 0 has no event until an answer
needs one.

### Schema and Processes (MCProcesses, ProcessesProofs)

| Variable | Code |
|---|---|
| `objects` | which tables, indexes and NOT NULL constraints exist |
| `rows`, `lastRow` | `tracking_events`: id, the event by its de-duplication key, whether a text column is NULL; the sequence of ids |
| `session[p]` | the statement of `initSchema` a starter has reached, whether it has taken its snapshot, and the ids its DELETE has chosen |
| `process[p]` | where `main` stands, the attempts left, whether Postgres was away, the signal |
| `server[p]`, `call[p][c]` | the gRPC server (accepting, draining, stopped) and its handlers with their connections |
| `handler[p]` | the consumer's handler in track-api, the poll cycle in the worker |
| `older` | external: an older version, with a plain INSERT, still writes |

Each statement runs in a transaction of its own. `CREATE ... IF NOT EXISTS` and
the `DELETE` of duplicates read first (`PlanCreate`, `PlanDelete`) and act
later, so others may come between; a statement may be refused for what they did
(`CreateFails`, `Refused`). `BootFails` is such a refusal or an outage and uses
up an attempt; an outage may last any time. The database is new, or of a version
without the constraints and with a duplicate. `Stop` is the end of
`GracefulStop` or the `Stop` two seconds later; nobody waits for it in `main`.
`CloseDB` waits for every connection. Postgres may leave any call without an
answer: no fairness concerns it.

### Carriers and History (MCHistory, HistoryProofs)

Carriers has `NewCarrierClient`'s choice and the result of each client: v1 takes
the answer's status, track24 derives one from the text of the last operation,
fake makes one up. History has the emulator by the clock (a scenario shows step
after step, may be seeded, is made up when first asked for and forgotten at a
restart), checks that overlap and are applied in any order, the rows of
`tracking_events`, and a client that reads `ListTrackingEvents` by pages with
`LIMIT` and `OFFSET`. `ORDER BY event_time DESC` leaves the order of equal times
open (`Pages`). Between looking for a scenario and making the default another
thread may come (`MissScenario`, `MakeDefault`, `MakeV1`).

A request reads its clock first (`Ask`) and keeps it, however late it goes on.
Endpoint v1 then goes access by access, as its threads hold no lock: find or
make the object (`FindV1`, `MakeV1`), read its step (`ReadStep`), write the next
one if it is due (`WriteStep`), record it with the thread's own clock
(`RecordEvent`), see whether there is an event at all (`FindNothing`), and answer
with the object's events as they are when the answer is written (`AnswerV1`).
`scenario` names the object by number and `object` has all of them, because a
thread keeps the one it found after the emulator has forgotten it or another
thread has put its own in its place. The limits, seeds and scenarios without
steps of v1 are left to Emulator, which has the same threads without the clock.

## 3. Runs

| Run | Instance | Question |
|---|---|---|
| `pipeline_one_worker` | 1 worker, 1 tracking, 1 partition, 2 attempts, 3 messages, 1 restart | the deployment of docker-compose: no committed update lost, the status never goes back, Lifecycle is implemented, every message is consumed unless the consumer has ended |
| `pipeline_reordered` | 2 workers, 1 tracking, 2 partitions of 1 message, 1 restart | overlapping checks and reordered messages: the history still explains the status, only delivered trackings are parked |
| `pipeline_lease` | 2 workers | *violated*: a row under a lease is claimed again while it is processed |
| `cache` | 2 ids, 1 GET at a time, 3 updates, a TTL of 2 ticks, 1 rescheduling, any call may fail | complete answers, nothing uncommitted shown, the consumer caches what it stored, stale entries die and stay dead |
| `poller` | 3 items, 2 slots, counters modulo 4 | bounds, accounting, no overlap, triggers, cancellation |
| `rate_limit` | 2 goroutines, 2 carriers (limits 2 and 1), 2 minutes of 3 ticks, 4 checks | the limiter never allows more than the limit |
| `rate_limit_kept` | as above | *violated*: more requests than the limit are sent |
| `creates` | 3 clients, 2 connections, 3 pairs of which 2 share a key, batches in both orders, with repetitions, empty, malformed and too long | Registry is implemented: whole batches; stable ids, complete answers, and every call ends |
| `emulator` | 2 threads with 2 requests each, a carrier with limit 1 and one without, 2 minutes, one reset or seed (of 0 or 2 steps) | refusals are justified, scenarios are not overrun, histories are complete |
| `processes` | track-api and a worker, 1 event, 1 call, a pool of 1, 6 attempts, 3 row ids | no history lost, nobody serves too early or gives up for a lost race, a signal ends a serving process |
| `history` | 2 overlapping checks with each of the three clients, 3 instants (2 for v1), 2 scenarios, page sizes 0, 2, 3 | a step of Track24 is stored once a telling, pages miss only one of two equal times, the history catches up |
| `claims` | 2 workers, 3 trackings, claims of 1 row, 2 checks of a tracking under way | a due tracking is claimed, unless it is refreshed for ever |

Bounds. A pipeline clock of two or three instants and delays of 1 and 2 let a
lease expire during a check, two checks overlap and each order of the two
messages arise; two positions are the least at which an older status can
overwrite a newer one, and three messages in one log hold a duplicate and its
successor. Rows do not interact except through `BatchSize`, which Claims is
about, so one tracking suffices for per-row properties; the proofs cover any
number. Three trackings against claims of one row make two wait for the third.
Two minutes are needed for a check to be counted after its minute ended; the
limits 2 and 1 are exceeded by 4 checks. The counters of Poller wrap in the
instance. One GET at a time suffices for the cache: its readers interact only
through entries, and one that restarts while the consumer goes on meets entries
of all ages; the proofs cover any number. Three clients on two connections make
one wait for the pool while two wait for each other's pairs; the third also
stands for a client that repeats a call. Two threads with two requests each let
one thread fall behind by two steps of a scenario of three. Two starters and an
older writer make every statement race with each other; six attempts are more
than the races that three row ids and five relations allow, so that giving up
would have to be somebody's mistake. One connection is the pool in which a call
and a handler wait for each other soonest. Three instants and two texts show a
parcel whole; with v1 two suffice for two threads to record one step at
different times. A page size of 0 is replaced by the default of 1, 3 by the default
as well, since it exceeds the maximum.

Workers, partitions and trackings are interchangeable, as are the emulator's
threads; the symmetry is used in `pipeline_reordered` and `emulator` only, which
check no temporal property.

The last tick, message or restart ends the growth of the model, not of the
program: `MaxTime`, `MaxLog`, `MaxRestarts`, `MaxReschedules`, `MaxChecks`,
`MaxCalls`, `MaxMinute`, `MaxRequests`, `MaxAdmin`, `SeedSizes`, `MaxRow` and
`MaxScenarios` are the only such bounds. `BoundsReached` in RateLimit marks
their end. Deadlock checking is off in `creates` and `emulator`, where nothing
happens once the clients have asked all they may, and in `claims`, where nothing
is left when all are delivered; that calls of Creates do not wait for each other
for ever is `EveryCallEnds`.

Fairness.

* `EveryUpdateConsumed`: weak fairness of the consumer goroutine as a whole,
  since the Go scheduler runs it but nothing makes a handler succeed; its
  promise therefore excepts a stopped consumer. A failing fetch is outside that
  fairness: nothing forces it.
* `EventuallyCurrent`: time passes, and a handler once started runs on; no
  request, update, or working consumer is assumed.
* `TriggerLeadsToClaim`, `CancelledReturns`: the loop and the goroutines run and
  their calls return (they carry time-outs or contexts), and a select among
  ready cases is fair, as Go chooses uniformly, hence strong fairness of the two
  cases.
* `EveryCallEnds`: a handler that can run does, and Postgres looks for
  deadlocks; no failure has to happen. Weak fairness suffices because calls are
  bounded; in the program the queues of the pool and of Postgres keep a waiting
  call from being overtaken for ever.
* `SignalEndsProcess`: the goroutines that a signal sets in motion are
  scheduled, the two-second timer fires, a cancelled call returns. Nothing is
  asked of Postgres.
* `HistoryCatchesUp`: the clock goes on (up to its bound, when every step of a
  parcel is due), and a check that has begun goes on and is repeated, as the poll
  loop does. A check whose answer is lost is one that goes no further; the safety
  properties, which ask no fairness, hold with such checks.
* `DueIsClaimed`: workers poll and checks end (weak fairness, the ticker and the
  time-outs); a claim that locks a row again and again commits it sometimes
  (strong fairness: a database that rolled back every claim of a row for ever
  would keep it from being checked).

## 4. Where the code and its documents differ

* The comment of `ClaimDueTrackings` (`trackings_repo.go:103`) promises that a
  claimed row is not selected again while it is processed. The lease does not
  say how long processing takes: `pipeline_lease`.
* `README.md:8` and `config.trackbox.docker.demo.yaml:30` say that the limits
  are kept. `poller.go:232-239` calls the carrier after a refusal:
  `rate_limit_kept`. What does hold is in `rate_limit`.

Smaller ones have no run:

* `service.go:174` and `README.md:7` speak of caching the *current* status. A
  GET's late `Set` may put an older one back after the consumer has refreshed
  the cache; it lasts for a TTL at most, as `EventuallyCurrent` shows.
* `README.md:71` calls refresh an accelerator. For a row that is overdue
  already, `next_check_at = now` is a later time than it had: it goes behind the
  backlog (`RefreshTracking` in Claims), and only such refreshes can keep a
  tracking from being claimed (`DueIsClaimed`).
* `config.go:64` offers the mode `gdeposylka`; `app.go:60` of the worker takes
  the fake client for it (`ClientFor`).
* `config.go:53-54` names default delays of 30 to 120 and 90 minutes;
  `planner.go:31-34` has one minute.
* The track24 client takes any last operation with "достав" in its text for a
  delivery, "sent for delivery" among them, and a delivered tracking is parked
  for a year; hence the exception in `HistoryCatchesUp`.
* The comment of `Allow` (`ratelimiter.go:21`) says that the TTL is set when the
  key is created; it is set on every call, which does no harm as keys name their
  minute.
* The emulator's scenario may go back a step when requests for one track overlap
  (`app.py:216-227`), although UpdatePipeline assumes of carriers that they do
  not: with the emulator, overlapping checks (`pipeline_lease`) may therefore
  also take a status back at its source. The window between the new step and its
  event (`app.py:227-231`) may even answer with a status whose event is not in
  the list yet, where UpdatePipeline assumes that an answer has every event up to
  its status; a later check brings it.
* With v1 a step may be stored twice although it happened once. Two overlapping
  requests record the step each has moved the track to with its own clock
  (`app.py:216-240`), and the unique key of `tracking_events` contains the time.
  So `StepsStoredOnce` is about Track24, whose times follow from the scenario
  (`app.py:320`). Without that condition TLC finds the second copy with v1, two
  checks and two instants.

## 5. Proofs

Each theorem holds for all values of the constants under the named assumptions
of its module, which TLC evaluates in the runs. Each proof module defines its
inductive invariant, shows that Init implies it and that every step keeps it,
and derives the theorems.

| Theorem | States | Inductive invariant, and why the property is not inductive alone |
|---|---|---|
| `UpdatePipelineProofs!TypeCorrect` | `TypeOK` | applying needs the message in hand to exist. `Inv` adds `ReaderInOrder`: the reader is between the committed offset and the end of each log, and one past the offset of the partition in hand |
| `...!CommittedIsStored` | `NoUpdateLost` | `HistoryInv` adds that after the apply the message in hand is stored; committing moves the offset over that message only, and events are never removed |
| `...!StatusIsExplained` | `HistoryCoversStatus` | part of `HistoryInv`: status and events are written together |
| `...!AlwaysScheduled` | `NeverParkedUndelivered` | a row may be overwritten by any message in the log, so `ScheduleInv` asks the same of every row, message and message under construction, and that a goroutine's clock reading lies in the past |
| `...!StatusOnlyClimbs` | one worker, one partition: `StatusNeverRegresses` | `ClimbInv`: positions in the log are sorted per tracking, the message being published is not behind them, and the row is not ahead of any message still to be applied. A replay starts at the committed offset, so it repeats at most the message last applied |
| `...!PipelineImplementsLifecycle` | one worker, one partition: `ImplementsLifecycle` | refinement: `ClimbInv` makes an apply a `Learn` (what it brings was announced and is not behind the status), the carrier's step is `Announce`, everything else stutters |
| `RateLimitProofs!LimiterIsSafe` | `AllowedWithinLimit` | `RateInv`: a key lives longer than any check of its minute may still take (`KeyOutlives`), it knows of every permission given (`KeyKnows`), and what was sent with permission plus what is about to be stays within the limit (`GrantedWithinLimit`) |
| `StatusCacheProofs!AnswersAreComplete` | `EveryIdAnswered` | `AnswerComes`: at every stage of a handler, the ids got and the ids still to be got make up those asked for |
| `...!NothingUncommittedShows`, `...!ConsumerIsCurrent` | `OnlyStoredStatuses`, `ConsumerCachesNewest` | `ConsumerInOrder`: what the consumer holds is the row of the update it has just applied, and only it changes statuses |
| `PollerProofs!ConcurrencyIsBounded`, `...!ClaimsAreAccounted`, `...!CyclesAreSeparate` | `ConcurrencyBounded`, `EveryClaimAccounted`, `CyclesDoNotOverlap` | `Books`: semaphore, WaitGroup, gauge and counters are the numbers of goroutines at the stages of the deferred release, and `Phases`: between cycles there is no goroutine and no item left |
| `EmulatorProofs!ScenariosStayInRange`, `...!HistoriesAreWhole` | `StepWithinScenario`, `HistoryHasNoGaps` | `TypeInv` says what the local variables of a thread mean for the object it holds; `LateStepFits`: a thread that writes its step late, after others have gone on, stays in range, and the steps before it are in the history or about to be |
| `EmulatorProofs!RefusalsAreEarned` | `RefusedOnlyOverLimit` | `NeverCountsTooMany`: a counter, or the value a thread has read of it, plus the requests that still have to write it, never exceeds the requests begun; increments may be lost, but none is invented |
| `ProcessesProofs!StartsKeepHistory` | `HistoryKept` | `OldestSpared`: the oldest copy of an event is in no starter's snapshot to delete; it rests on `IdsInOrder` (a row inserted later has a higher id) |
| `ProcessesProofs!NobodyServesTooEarly` | `ServesOnSoundSchema` | `ConstraintsHold`: the rows satisfy each constraint that exists, and `DoneStays`: what a starter's earlier statements have made is still there |
| `HistoryProofs!ReadersMissOnlyTies` | `SkippedOnlyAmongTies` | `StillToCome`: an event that was there at the start and is still missing shares its time with another, or has at least as many later events as have been skipped and read, so that a page to come will bring it; new events only add to these |
| `...!EachStepIsStoredOnce` | steps of a story distinct: `StepsStoredOnce` (Track24) | `OnceInv` takes the rows together with the answers under way and what the emulator may still tell (`Known`): of each step there are no more times than tellings have begun, because the time of a step follows from its scenario |
| `StorageProofs!CreatesImplementsRegistry` | `ImplementsRegistry` | refinement: `CreatesInv` makes a commit a `Register`. It says that an open transaction holds the pairs it has written (`HoldsWritten`), so that the ids it was given are still right when it commits, and that no id, committed or given, is given to two pairs (`IdsApart`) |
| `...!AnswersCoverBatches`, `...!IdsAreStable`, `...!TrackingsHaveTheirOwnIds` | `AnswerCoversBatch`; `IdsNeverChange`; no id twice | the same: `ReadsStored` (the ids to be read back are those of the batch's rows) and `Represents` (the cleaned batch has one pair per key of what was asked for) |
| `ProcessesProofs!RacesAloneStopNobody` | enough attempts: `GivesUpOnlyAfterOutage` | every refusal is paid for: a starter's lost attempts never exceed the relations that have come to exist and the rows that older versions have written since, of which there are only so many |
| `StorageProofs!ClaimsAreExclusive` | `ClaimsTypeOK`: no row in two open claims, a claimed row stays due | `RoomInv` is added: a locked row has room for the check that its claim will begin. `PlacedByTime` shows that a row put between others leaves an order |
| `...!OvertakingTakesOldChecks` | no row overtakes a due one but by a check that is older, and these only become fewer | the checks of a row hold only rows that have been due and unmoved since their claim (`ChecksInv`), so those claimed while `t` waits know of it. With the fairness of its run this is why `DueIsClaimed` holds |
| `PollerProofs!PlannerIsSound`, `...!DelaysAreBounded`, `...!RecheckIsNeverImmediate` | positive delays and ordered bounds for every configuration; the planner's part of `DelaysAssumption`; whole-second settings never give a zero delay | from `SoundDefaults`, which `DefaultsAreSound` shows of the program's defaults; `MultiplesBetween` bounds the multiples of a second between two delays |

Type correctness of RateLimit, StatusCache, Poller, Emulator, Processes,
History and Creates is proved too (`RateTypeCorrect`, `CacheTypeCorrect`,
`PollerTypeCorrect`, `EmulatorTypeCorrect`, `ProcessesTypeCorrect`,
`HistoryTypeCorrect`, `CreatesTypeCorrect`). In History that is more than types:
no stored event is newer than the clock, although requests answer with a clock
they read earlier, and no thread of v1 takes an object past its last step. All
three theorems rest on one `HistoryInv`, in which a thread's clock lies in the
past and its step within the story. Lemmas classify steps once
(`StepKinds`, `JobChanges`, `RowChanges` in UpdatePipelineProofs, `OneCheck`
in HistoryProofs and their like), so that an invariant is proved by a few cases
and not one per action.

Only model-checked:

* liveness under fairness, which is out of the prover's reach, as is `ENABLED`:
  `EveryUpdateConsumed`, `EventuallyCurrent`, `TriggerLeadsToClaim`,
  `CancelledReturns`, `EveryCallEnds`, `SignalEndsProcess`, `HistoryCatchesUp`,
  `DueIsClaimed`. What safety they rest on is proved for the last
  (`OvertakingTakesOldChecks`).

Besides those of one worker and one partition, two theorems have a condition of
their own, which is no assumption of the module as other values are possible:

* `EnoughTries` (`RacesAloneStopNobody`): more attempts than the five tables and
  indexes that can be made by somebody else, and, over an old database, more
  than one for the unique index plus one for each row an older version may still
  write (`MaxRow` bounds these). Both programs try for a minute with a second in
  between, so about 60 times unless Postgres is slow. With fewer attempts than
  such rows an older writer could indeed use them up, adding a duplicate each
  time between the `DELETE` and the unique index.
* `StepsDistinct` (`EachStepIsStoredOnce`): no text appears twice in a story. A
  story that repeats a text stores it once for each time, rightly. The
  emulator's default steps are distinct. The theorem says nothing of v1 (section 4).

The assumptions of History exclude a parcel seeded without steps: the emulator
accepts it and then fails every check of it (`app.py:242` and `319` read a step
that is not there), so nothing is stored.

Induction over data (what a recursive definition computes for all inputs) is out
of reach as well. No module here declares a recursive operator.

## 6. What is not modelled, and what is left

Not modelled: the conversions between protobuf, JSON and model types and the
HTTP gateway (no state of their own), generated code, reading YAML, health and
statistics endpoints and the timestamps in `Stats` (reads only), the emulator's
gdeposylka endpoint (no client uses it), the demo generator (a sequential
script), the data race on the planner's random source (`planner.go:101`:
repeated delays, which the choice of delays covers, or a panic, which is a
restart), connections left open by failed attempts to open Postgres
(`pgtracking.go:26`). Clocks of different processes are assumed to agree.

Abstractions that a reader of the code should know:

* UpdatePipeline assumes that carriers do not take back an event and that an
  answer has every event up to its status. A carrier that breaks the first makes
  `StatusNeverRegresses` meaningless, one that breaks the second
  `HistoryCoversStatus`; the emulator's v1 endpoint can break both when requests
  overlap (section 4).
* `RefreshTracking` of Claims takes its time at the update. In the program
  `now()` is the start of the transaction, and the statement may wait for a row
  lock after it, so a refreshed row may stand before rows that became due
  meanwhile, as any late check may.
* `Reset` of Emulator clears its dictionaries in one step, where the program
  clears one after the other.
* Schema has the statements that fail because another starter was faster, but no
  refusals of Postgres for deadlocks between them. Each would cost one attempt
  more, which `RacesAloneStopNobody` does not count.
* `Track24Result` takes an answer whose status is not "ok" for a failed check, as
  the client does; the emulator never gives one.

Left for later:

1. That the claim of Claims implements the claim of UpdatePipeline, by a
   refinement that maps `earlier` and `due` to `next_check_at` and the clock.
