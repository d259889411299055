--------------------------- MODULE UpdatePipeline ---------------------------
(***************************************************************************)
(* The life of one tracking through TrackBox: a worker claims its row in   *)
(* Postgres under a lease, asks the carrier, publishes what it learnt on   *)
(* the Kafka topic tracking.updated; the consumer inside track-api applies *)
(* the message in one transaction and only then commits its offset.        *)
(*                                                                         *)
(* Time is a clock read by every process (the code compares absolute UTC   *)
(* timestamps).  A carrier is external: all that is used of it is that it  *)
(* answers a query with the position the parcel has reached and the list   *)
(* of the events so far, or with an error.  Position n means that the      *)
(* carrier has announced n events, the last of which gives the status:     *)
(* MaxStep is DELIVERED, 1..MaxStep-1 are not, and 0 is the UNKNOWN of a   *)
(* row that was never checked.  Event n is named by its number n.          *)
(***************************************************************************)
EXTENDS Naturals, Sequences, FiniteSets

CONSTANTS
    Workers,        \* track-worker processes
    Trackings,      \* rows of the table trackings
    Partitions,     \* partitions of the topic tracking.updated
    MaxStep,        \* the position that means DELIVERED
    Lease,          \* how long a claim keeps a row from being due
    RecheckDelays,  \* delays the planner may choose while not delivered
    Backoff,        \* delays after 1, 2, 3 and at least 4 failed checks
    DeliveredDelay, \* delay once delivered (365 days)
    BatchSize,      \* rows one claim may take
    Attempts,       \* tries of one publication
    Horizon         \* longest delay of a tracking that is not delivered

CONSTANTS           \* bounds of the model, not of the program
    MaxTime,        \* the clock stops here
    MaxLog,         \* messages per partition
    MaxRestarts     \* restarts of track-api

ASSUME StepsAssumption == MaxStep \in Nat \ {0}
ASSUME DelaysAssumption ==
    /\ Lease \in Nat /\ Horizon \in Nat /\ DeliveredDelay \in Nat
    /\ RecheckDelays \in SUBSET Nat /\ RecheckDelays # {}
    /\ Backoff \in [1..4 -> Nat]
    /\ Lease <= Horizon
    /\ \A d \in RecheckDelays : d <= Horizon
    /\ \A i \in 1..4 : Backoff[i] <= Horizon
ASSUME LimitsAssumption ==
    /\ BatchSize \in Nat \ {0} /\ Attempts \in Nat \ {0}
    /\ MaxTime \in Nat /\ MaxLog \in Nat /\ MaxRestarts \in Nat

VARIABLES
    now,        \* the clock
    carrier,    \* [Trackings -> position the parcel has really reached]
    row,        \* [Trackings -> the columns of its row that matter]
    events,     \* [Trackings -> rows of tracking_events, as positions]
    job,        \* [Workers -> [Trackings -> the goroutine of processOne]]
    log,        \* [Partitions -> sequence of messages]
    committed,  \* [Partitions -> offset the consumer group has committed]
    position,   \* [Partitions -> messages this reader has fetched]
    consumer,   \* where the consumer goroutine of track-api stands
    restarts    \* restarts of track-api so far

dbVars       == <<row, events>>
kafkaVars    == <<log, committed>>
consumerVars == <<position, consumer, restarts>>
vars == <<now, carrier, row, events, job, log, committed, position,
          consumer, restarts>>

Steps == 0..MaxStep
Failed == 0                       \* message.error is set: no position
Delivered(step) == step = MaxStep

Row     == [step : Steps, nextAt : Nat, fails : Nat]
Message == [tracking : Trackings, step : Steps, nextAt : Nat]
Job     == [pc : {"idle", "claimed", "started", "publishing"},
            fails : Nat, at : Nat, step : Steps, nextAt : Nat, attempt : Nat]
Consumer == [pc : {"idle", "fetched", "applied", "stopped"},
             part : Partitions]

IdleJob == [pc |-> "idle", fails |-> 0, at |-> 0, step |-> 0,
            nextAt |-> 0, attempt |-> 0]

TypeOK ==
    /\ now \in Nat
    /\ carrier \in [Trackings -> 1..MaxStep]
    /\ row \in [Trackings -> Row]
    /\ events \in [Trackings -> SUBSET (1..MaxStep)]
    /\ job \in [Workers -> [Trackings -> Job]]
    /\ log \in [Partitions -> Seq(Message)]
    /\ committed \in [Partitions -> Nat]
    /\ position \in [Partitions -> Nat]
    /\ consumer \in Consumer
    /\ restarts \in Nat

(* Freshly created trackings: UNKNOWN and due at once; nothing published.  *)
Init ==
    /\ now = 0
    /\ carrier = [t \in Trackings |-> 1]
    /\ row = [t \in Trackings |-> [step |-> 0, nextAt |-> 0, fails |-> 0]]
    /\ events = [t \in Trackings |-> {}]
    /\ job = [w \in Workers |-> [t \in Trackings |-> IdleJob]]
    /\ log = [p \in Partitions |-> <<>>]
    /\ committed = [p \in Partitions |-> 0]
    /\ position = [p \in Partitions |-> 0]
    /\ consumer \in [pc : {"idle"}, part : Partitions]
    /\ restarts = 0

-----------------------------------------------------------------------------
(* The environment.                                                        *)

Tick ==
    /\ now < MaxTime
    /\ now' = now + 1
    /\ UNCHANGED <<carrier, dbVars, job, kafkaVars, consumerVars>>

(* A parcel moves on: a carrier never takes a position back.               *)
CarrierMoves(t) ==
    /\ carrier[t] < MaxStep
    /\ carrier' = [carrier EXCEPT ![t] = @ + 1]
    /\ UNCHANGED <<now, dbVars, job, kafkaVars, consumerVars>>

(* RefreshTracking: POST /trackings/{id}/refresh makes the row due.        *)
RefreshTracking(t) ==
    /\ row' = [row EXCEPT ![t].nextAt = now]
    /\ UNCHANGED <<now, carrier, events, job, kafkaVars, consumerVars>>

-----------------------------------------------------------------------------
(* Planner                                                                 *)

NextCheckDelays(step) ==
    IF Delivered(step) THEN {DeliveredDelay} ELSE RecheckDelays

BackoffDelay(fails) == Backoff[IF fails > 4 THEN 4 ELSE fails]

-----------------------------------------------------------------------------
(* Worker: runOnce and processOne                                          *)

Due == {t \in Trackings : row[t].nextAt <= now /\ ~Delivered(row[t].step)}

(* ORDER BY next_check_at LIMIT BatchSize over the rows of S.              *)
FirstDue(S) ==
    {B \in SUBSET S :
        /\ Cardinality(B) <= BatchSize
        /\ B = S \/ Cardinality(B) = BatchSize
        /\ \A b \in B, r \in S \ B : row[b].nextAt <= row[r].nextAt}

Booked(batch) ==
    [t \in Trackings |-> IF t \in batch
                         THEN [row[t] EXCEPT !.nextAt = now + Lease]
                         ELSE row[t]]

(* ClaimDueTrackings.  runOnce waits for all goroutines of a cycle before  *)
(* the next claim, so none of the worker's jobs is live.  FOR UPDATE SKIP  *)
(* LOCKED leaves out the rows that other open transactions hold: any set.  *)
ClaimDueTrackings(w) ==
    /\ \A t \in Trackings : job[w][t].pc = "idle"
    /\ \E locked \in SUBSET Due :
       \E batch \in FirstDue(Due \ locked) :
          /\ batch # {}
          /\ row' = Booked(batch)
          /\ job' = [job EXCEPT ![w] = [t \in Trackings |->
                IF t \in batch
                THEN [IdleJob EXCEPT !.pc = "claimed", !.fails = row[t].fails]
                ELSE IdleJob]]
    /\ UNCHANGED <<now, carrier, events, kafkaVars, consumerVars>>

(* processOne begins (a slot of the semaphore is free): it reads the clock *)
(* once; the limiter answers, and waiting when over the limit is only time *)
(* passing before the carrier is called.                                   *)
StartProcessing(w, t) ==
    /\ job[w][t].pc = "claimed"
    /\ job' = [job EXCEPT ![w][t].pc = "started", ![w][t].at = now]
    /\ UNCHANGED <<now, carrier, dbVars, kafkaVars, consumerVars>>

(* Redis fails: processOne returns, nothing is published for this claim.   *)
LimiterFails(w, t) ==
    /\ job[w][t].pc = "claimed"
    /\ job' = [job EXCEPT ![w][t] = IdleJob]
    /\ UNCHANGED <<now, carrier, dbVars, kafkaVars, consumerVars>>

(* The message is built; the clock reading and the claim are used up.      *)
Prepared(step, nextAt) ==
    [IdleJob EXCEPT !.pc = "publishing", !.step = step, !.nextAt = nextAt]

(* The carrier answers with the parcel's present position.                 *)
CarrierAnswers(w, t) ==
    /\ job[w][t].pc = "started"
    /\ \E d \in NextCheckDelays(carrier[t]) :
          job' = [job EXCEPT ![w][t] =
                     Prepared(carrier[t], job[w][t].at + d)]
    /\ UNCHANGED <<now, carrier, dbVars, kafkaVars, consumerVars>>

(* The carrier answers with an error: the message carries no position, and *)
(* backs off by the count of failures the row had when it was claimed.     *)
CarrierFails(w, t) ==
    /\ job[w][t].pc = "started"
    /\ job' = [job EXCEPT ![w][t] =
                  Prepared(Failed,
                           job[w][t].at + BackoffDelay(job[w][t].fails + 1))]
    /\ UNCHANGED <<now, carrier, dbVars, kafkaVars, consumerVars>>

(* The broker appends the message to any partition: the writer balances by *)
(* bytes and does not look at the key.                                     *)
Written(w, t, p) ==
    /\ Len(log[p]) < MaxLog
    /\ log' = [log EXCEPT ![p] = Append(@, [tracking |-> t,
                                            step     |-> job[w][t].step,
                                            nextAt   |-> job[w][t].nextAt])]
    /\ UNCHANGED committed

(* After an error the loop tries again, and gives up after Attempts tries. *)
AfterPublishError(j) ==
    IF j.attempt + 1 < Attempts THEN [j EXCEPT !.attempt = @ + 1] ELSE IdleJob

PublishSucceeds(w, t, p) ==
    /\ job[w][t].pc = "publishing"
    /\ Written(w, t, p)
    /\ job' = [job EXCEPT ![w][t] = IdleJob]
    /\ UNCHANGED <<now, carrier, dbVars, consumerVars>>

(* The message is in the log but its acknowledgement is lost.              *)
PublishUnacknowledged(w, t, p) ==
    /\ job[w][t].pc = "publishing"
    /\ Written(w, t, p)
    /\ job' = [job EXCEPT ![w][t] = AfterPublishError(@)]
    /\ UNCHANGED <<now, carrier, dbVars, consumerVars>>

PublishFails(w, t) ==
    /\ job[w][t].pc = "publishing"
    /\ job' = [job EXCEPT ![w][t] = AfterPublishError(@)]
    /\ UNCHANGED <<now, carrier, dbVars, kafkaVars, consumerVars>>

(* A worker dies and is started again: its goroutines are gone.            *)
WorkerRestarts(w) ==
    /\ \E t \in Trackings : job[w][t].pc # "idle"
    /\ job' = [job EXCEPT ![w] = [t \in Trackings |-> IdleJob]]
    /\ UNCHANGED <<now, carrier, dbVars, kafkaVars, consumerVars>>

-----------------------------------------------------------------------------
(* Consumer: Consume, its handler ApplyKafkaUpdate and ApplyTrackingUpdate *)

InHand == log[consumer.part][position[consumer.part]]

(* Wrong: ReadMessage in place of FetchMessage, which commits on delivery. *)
FetchAndCommit(p) ==
    /\ consumer.pc = "idle"
    /\ position[p] < Len(log[p])
    /\ position' = [position EXCEPT ![p] = @ + 1]
    /\ committed' = [committed EXCEPT ![p] = @ + 1]
    /\ consumer' = [pc |-> "fetched", part |-> p]
    /\ UNCHANGED <<now, carrier, dbVars, job, log, restarts>>

(* Wrong: the newest message is taken for not yet available.               *)
FetchAllButNewest(p) ==
    /\ consumer.pc = "idle"
    /\ position[p] + 1 < Len(log[p])
    /\ position' = [position EXCEPT ![p] = @ + 1]
    /\ consumer' = [pc |-> "fetched", part |-> p]
    /\ UNCHANGED <<now, carrier, dbVars, job, kafkaVars, restarts>>

(* FetchMessage: the reader hands out the next message of some partition.  *)
FetchMessage(p) ==
    /\ consumer.pc = "idle"
    /\ position[p] < Len(log[p])
    /\ position' = [position EXCEPT ![p] = @ + 1]
    /\ consumer' = [pc |-> "fetched", part |-> p]
    /\ UNCHANGED <<now, carrier, dbVars, job, kafkaVars, restarts>>

(* FetchMessage returns an error, as it does once its reader is closed or  *)
(* its context is done: Consume returns too.                               *)
FetchFails ==
    /\ consumer.pc = "idle"
    /\ consumer' = [consumer EXCEPT !.pc = "stopped"]
    /\ UNCHANGED <<now, carrier, dbVars, job, kafkaVars, position, restarts>>

(* Wrong: a guard against older messages that protects one column only.    *)
AppliedRowNeverEarlier(r, m) ==
    LET later == IF m.nextAt > r.nextAt THEN m.nextAt ELSE r.nextAt
    IN  IF m.step = Failed
        THEN [step |-> r.step, nextAt |-> later, fails |-> r.fails + 1]
        ELSE [step |-> m.step, nextAt |-> later, fails |-> 0]

(* The row after the UPDATE of ApplyTrackingUpdate: no column says which   *)
(* of two messages is the younger one, the last applied wins.              *)
AppliedRow(r, m) ==
    IF m.step = Failed
    THEN [step |-> r.step, nextAt |-> m.nextAt, fails |-> r.fails + 1]
    ELSE [step |-> m.step, nextAt |-> m.nextAt, fails |-> 0]

(* Wrong: a check that failed leaves an event too.                         *)
AppliedEventsOfFailures(stored, m) == stored \cup 0..m.step

(* Wrong: only the newest event of an answer is stored.                    *)
AppliedEventsNewestOnly(stored, m) == stored \cup ({m.step} \ {0})

(* The events of an answer; those already stored hit ON CONFLICT DO NOTHING.*)
AppliedEvents(stored, m) == stored \cup 1..m.step

(* The whole transaction of ApplyTrackingUpdate commits.  When only the    *)
(* answer to COMMIT is lost the handler reports an error all the same.     *)
ApplyTrackingUpdate ==
    /\ consumer.pc = "fetched"
    /\ row' = [row EXCEPT ![InHand.tracking] = AppliedRow(@, InHand)]
    /\ events' = [events EXCEPT ![InHand.tracking] = AppliedEvents(@, InHand)]
    /\ \E acknowledged \in BOOLEAN :
          consumer' = [consumer EXCEPT
                          !.pc = IF acknowledged THEN "applied" ELSE "stopped"]
    /\ UNCHANGED <<now, carrier, job, kafkaVars, position, restarts>>

(* Wrong: without a transaction the UPDATE outlives a failed INSERT.       *)
HandlerFailsHalfway ==
    /\ consumer.pc = "fetched"
    /\ row' = [row EXCEPT ![InHand.tracking] = AppliedRow(@, InHand)]
    /\ consumer' = [consumer EXCEPT !.pc = "stopped"]
    /\ UNCHANGED <<now, carrier, events, job, kafkaVars, position, restarts>>

(* The handler returns an error before COMMIT: the transaction is rolled   *)
(* back, Consume returns, and the goroutine that ran it ends.              *)
HandlerFails ==
    /\ consumer.pc = "fetched"
    /\ consumer' = [consumer EXCEPT !.pc = "stopped"]
    /\ UNCHANGED <<now, carrier, dbVars, job, kafkaVars, position, restarts>>

(* Wrong: the offset of the message itself, not of the one after it.       *)
CommitMessageItself ==
    /\ consumer.pc = "applied"
    /\ committed' = [committed EXCEPT
                        ![consumer.part] = position[consumer.part] - 1]
    /\ consumer' = [consumer EXCEPT !.pc = "idle"]
    /\ UNCHANGED <<now, carrier, dbVars, job, log, position, restarts>>

(* CommitMessages: the group's offset moves past the message in hand.      *)
CommitMessages ==
    /\ consumer.pc = "applied"
    /\ committed' = [committed EXCEPT ![consumer.part] = position[consumer.part]]
    /\ consumer' = [consumer EXCEPT !.pc = "idle"]
    /\ UNCHANGED <<now, carrier, dbVars, job, log, position, restarts>>

(* CommitMessages returns an error, the offset may have been stored or not.*)
CommitFails ==
    /\ consumer.pc = "applied"
    /\ \/ committed' = [committed EXCEPT ![consumer.part] =
                                                 position[consumer.part]]
       \/ UNCHANGED committed
    /\ consumer' = [consumer EXCEPT !.pc = "stopped"]
    /\ UNCHANGED <<now, carrier, dbVars, job, log, position, restarts>>

(* track-api dies, or is killed, at any moment and is started again: a new *)
(* reader of the same group resumes at the committed offsets.              *)
ApiRestarts ==
    /\ restarts < MaxRestarts
    /\ restarts' = restarts + 1
    /\ position' = committed
    /\ consumer' = [consumer EXCEPT !.pc = "idle"]
    /\ UNCHANGED <<now, carrier, dbVars, job, kafkaVars>>

-----------------------------------------------------------------------------

Environment ==
    \/ Tick
    \/ \E t \in Trackings : CarrierMoves(t)
    \/ \E t \in Trackings : RefreshTracking(t)

WorkerStep(w) ==
    \/ ClaimDueTrackings(w)
    \/ \E t \in Trackings :
          \/ StartProcessing(w, t)
          \/ LimiterFails(w, t)
          \/ CarrierAnswers(w, t)
          \/ CarrierFails(w, t)
          \/ \E p \in Partitions : PublishSucceeds(w, t, p)
          \/ \E p \in Partitions : PublishUnacknowledged(w, t, p)
          \/ PublishFails(w, t)

ConsumerStep ==
    \/ \E p \in Partitions : FetchMessage(p)
    \/ ApplyTrackingUpdate
    \/ HandlerFails
    \/ CommitMessages
    \/ CommitFails

Next ==
    \/ Environment
    \/ \E w \in Workers : WorkerStep(w) \/ WorkerRestarts(w)
    \/ ConsumerStep
    \/ FetchFails
    \/ ApiRestarts

Spec == Init /\ [][Next]_vars

(* Scheduling: the consumer goroutine keeps running.  Nothing makes a      *)
(* handler fail or succeed, so fairness is on the goroutine as a whole;    *)
(* nothing makes a fetch fail while there are messages.                    *)
FairSpec == Spec /\ WF_vars(ConsumerStep)

(* A published message is committed, unless the goroutine has ended: which *)
(* one error of a handler or of a commit is enough for, and only a restart *)
(* of the process undoes.                                                  *)
EveryUpdateConsumed ==
    \A p \in Partitions : \A i \in 1..MaxLog :
        Len(log[p]) >= i ~> committed[p] >= i \/ consumer.pc = "stopped"

-----------------------------------------------------------------------------
(* What the pipeline promises.                                             *)

(* At-least-once delivery ends in the database: once the offset of a       *)
(* message is committed, and Kafka will not send it again, the events it   *)
(* carried are stored, through handler errors, lost acknowledgements and   *)
(* restarts of track-api ("commit only on success", Consumer.Consume).     *)
NoUpdateLost ==
    \A p \in Partitions : \A i \in 1..committed[p] :
        1..log[p][i].step \subseteq events[log[p][i].tracking]

(* ApplyTrackingUpdate writes the row and the events in one transaction: a *)
(* position the API shows as current status is explained by the history,   *)
(* whatever the order in which messages arrive and wherever a handler dies.*)
HistoryCoversStatus ==
    \A t \in Trackings : 1..row[t].step \subseteq events[t]

(* Only a delivered tracking is ever parked for a year: status and         *)
(* next_check_at come from the same message, so even replayed and          *)
(* overtaken messages, leases and refreshes leave every undelivered        *)
(* tracking due again within the longest ordinary delay.                   *)
NeverParkedUndelivered ==
    \A t \in Trackings :
        row[t].nextAt > now + Horizon => Delivered(row[t].step)

(* With one worker and one partition, the deployment of docker-compose,    *)
(* the status shown never goes back, although messages are repeated and    *)
(* no column guards the UPDATE against an older one: wg.Wait orders the    *)
(* checks of a tracking, and a replay can repeat the last message only.    *)
StatusNeverRegresses ==
    [][\A t \in Trackings : row[t].step <= row'[t].step]_vars

(* With that deployment the workers, leases, queues, offsets and restarts  *)
(* disappear behind the abstract Lifecycle: every step of the pipeline is  *)
(* an announcement of the carrier, one learning of a prefix of what was    *)
(* announced, or nothing a user of the API can see.                        *)
L == INSTANCE Lifecycle WITH
       announced <- carrier,
       status    <- [t \in Trackings |-> row[t].step],
       history   <- events

ImplementsLifecycle == L!Spec

(* FOR UPDATE SKIP LOCKED with a lease, as ClaimDueTrackings announces it: *)
(* a tracking is not selected again while a worker processes it.           *)
NotSelectedWhileProcessed ==
    \A t \in Trackings, v, w \in Workers :
        job[v][t].pc # "idle" /\ job[w][t].pc # "idle" => v = w

=============================================================================
