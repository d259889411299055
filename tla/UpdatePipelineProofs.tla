------------------------ MODULE UpdatePipelineProofs ------------------------
(* Proofs about UpdatePipeline, for every value of its constants.          *)
EXTENDS UpdatePipeline, TLAPS

(* Where the reader stands: between the committed offset and the end of    *)
(* every log, and exactly one message past the committed offset of the     *)
(* partition it took its message from.                                     *)
ReaderInOrder ==
    /\ \A p \in Partitions :
          committed[p] <= position[p] /\ position[p] <= Len(log[p])
    /\ consumer.pc = "idle" => \A p \in Partitions : position[p] = committed[p]
    /\ consumer.pc \in {"fetched", "applied"} =>
          \A p \in Partitions :
              position[p] = IF p = consumer.part THEN committed[p] + 1
                                                 ELSE committed[p]

Inv == TypeOK /\ ReaderInOrder

(* While the consumer handles a message, that message exists in the log and*)
(* lies just past the committed offset: InHand is never applied to a       *)
(* position that is not there.                                             *)
LEMMA InHandIsMessage ==
    ASSUME Inv, consumer.pc \in {"fetched", "applied"}
    PROVE  /\ InHand \in Message
           /\ consumer.part \in Partitions
           /\ position[consumer.part] \in 1..Len(log[consumer.part])
           /\ position[consumer.part] = committed[consumer.part] + 1
<1>1. consumer.part \in Partitions
  BY DEF Inv, TypeOK, Consumer
<1>2. position[consumer.part] = committed[consumer.part] + 1
  BY <1>1 DEF Inv, ReaderInOrder
<1>3. position[consumer.part] \in 1..Len(log[consumer.part])
  BY <1>1, <1>2 DEF Inv, TypeOK, ReaderInOrder
<1>4. log[consumer.part] \in Seq(Message)
  BY <1>1 DEF Inv, TypeOK
<1>5. InHand \in Message
  BY <1>3, <1>4 DEF InHand
<1>6. QED BY <1>1, <1>2, <1>3, <1>5

(* The record updates the actions make.                                    *)
LEMMA IdleJobType == IdleJob \in Job
BY StepsAssumption DEF IdleJob, Job, Steps

(* The updates of a goroutine's record that the worker's actions make keep *)
(* its type.                                                               *)
LEMMA JobUpdates ==
    ASSUME NEW j \in Job, NEW n \in Nat, NEW s \in Steps
    PROVE  /\ [j EXCEPT !.pc = "claimed", !.fails = n] \in Job
           /\ [j EXCEPT !.pc = "started", !.at = n] \in Job
           /\ [j EXCEPT !.pc = "publishing", !.step = s, !.nextAt = n] \in Job
           /\ [j EXCEPT !.attempt = @ + 1] \in Job
<1>1. [j EXCEPT !.pc = "claimed", !.fails = n] \in Job
  BY DEF Job
<1>2. [j EXCEPT !.pc = "started", !.at = n] \in Job
  BY DEF Job
<1>3. [j EXCEPT !.pc = "publishing", !.step = s, !.nextAt = n] \in Job
  BY DEF Job
<1>4. [j EXCEPT !.attempt = @ + 1] \in Job
  BY DEF Job
<1>5. QED BY <1>1, <1>2, <1>3, <1>4

(* A system that has just been set up satisfies the invariant.             *)
LEMMA InitInv == Init => Inv
<1>1. SUFFICES ASSUME Init PROVE Inv
  OBVIOUS
<1>2. TypeOK
  BY <1>1, StepsAssumption DEF Init, TypeOK, Row, Job, Steps, IdleJob, Consumer
<1>3. ReaderInOrder
  BY <1>1 DEF Init, ReaderInOrder
<1>4. QED BY <1>2, <1>3 DEF Inv

(* An appended message: the log grows by one well-formed message.          *)
LEMMA WrittenInv ==
    ASSUME Inv, NEW w \in Workers, NEW t \in Trackings, NEW p \in Partitions,
           Written(w, t, p)
    PROVE  /\ log' \in [Partitions -> Seq(Message)]
           /\ committed' = committed
           /\ \A q \in Partitions : Len(log[q]) <= Len(log'[q])
           /\ \A q \in Partitions : \A i \in 1..Len(log[q]) :
                 log'[q][i] = log[q][i]
           /\ \A q \in Partitions \ {p} : log'[q] = log[q]
           /\ Len(log'[p]) = Len(log[p]) + 1
           /\ log'[p][Len(log[p]) + 1] =
                 [tracking |-> t, step |-> job[w][t].step,
                  nextAt |-> job[w][t].nextAt]
<1> DEFINE m == [tracking |-> t, step |-> job[w][t].step,
                 nextAt |-> job[w][t].nextAt]
<1>1. m \in Message
  BY DEF Inv, TypeOK, Job, Message
<1>2. log' = [log EXCEPT ![p] = Append(@, m)] /\ committed' = committed
  BY DEF Written
<1>3. log[p] \in Seq(Message) /\ Append(log[p], m) \in Seq(Message)
  BY <1>1 DEF Inv, TypeOK
<1>4. log' \in [Partitions -> Seq(Message)]
  BY <1>2, <1>3 DEF Inv, TypeOK
<1>5. log'[p] = Append(log[p], m)
  BY <1>2 DEF Inv, TypeOK
<1>6. \A q \in Partitions \ {p} : log'[q] = log[q]
  BY <1>2 DEF Inv, TypeOK
<1> HIDE DEF m
<1>7. /\ Len(Append(log[p], m)) = Len(log[p]) + 1
      /\ \A i \in 1..Len(log[p]) : Append(log[p], m)[i] = log[p][i]
      /\ Append(log[p], m)[Len(log[p]) + 1] = m
  BY <1>3, <1>1
<1>8. \A q \in Partitions : Len(log[q]) \in Nat
  BY DEF Inv, TypeOK
<1>9. QED BY <1>2, <1>4, <1>5, <1>6, <1>7, <1>8 DEF m

(* Every step of the environment, a worker or the consumer keeps the types *)
(* of the variables.                                                       *)
LEMMA NextType == Inv /\ [Next]_vars => TypeOK'
<1> SUFFICES ASSUME Inv, [Next]_vars PROVE TypeOK'
  OBVIOUS
<1> USE DEF Inv, TypeOK
<1>1. CASE UNCHANGED vars
  BY <1>1 DEF vars
<1>2. CASE Tick
  BY <1>2 DEF Tick, dbVars, kafkaVars, consumerVars
<1>3. ASSUME NEW t \in Trackings, CarrierMoves(t) PROVE TypeOK'
  BY <1>3, StepsAssumption DEF CarrierMoves, dbVars, kafkaVars, consumerVars
<1>4. ASSUME NEW t \in Trackings, RefreshTracking(t) PROVE TypeOK'
  BY <1>4 DEF RefreshTracking, Row, kafkaVars, consumerVars
<1>5. ASSUME NEW w \in Workers, ClaimDueTrackings(w) PROVE TypeOK'
  <2>1. PICK batch \in SUBSET Trackings :
           /\ row' = Booked(batch)
           /\ job' = [job EXCEPT ![w] = [t \in Trackings |->
                IF t \in batch
                THEN [IdleJob EXCEPT !.pc = "claimed", !.fails = row[t].fails]
                ELSE IdleJob]]
    BY <1>5 DEF ClaimDueTrackings, FirstDue, Due
  <2>2. row' \in [Trackings -> Row]
    <3>1. now + Lease \in Nat
      BY DelaysAssumption
    <3>2. \A t \in Trackings : [row[t] EXCEPT !.nextAt = now + Lease] \in Row
      BY <3>1 DEF Row
    <3>3. QED BY <2>1, <3>2 DEF Booked
  <2>3. job' \in [Workers -> [Trackings -> Job]]
    <3>1. \A t \in Trackings : row[t].fails \in Nat
      BY DEF Row
    <3>2. 0 \in Steps
      BY StepsAssumption DEF Steps
    <3>3. \A t \in Trackings :
             [IdleJob EXCEPT !.pc = "claimed", !.fails = row[t].fails] \in Job
      BY <3>1, <3>2, IdleJobType, JobUpdates
    <3>4. QED BY <2>1, <3>3, IdleJobType
  <2>4. QED BY <1>5, <2>2, <2>3 DEF ClaimDueTrackings, kafkaVars, consumerVars
<1>6. ASSUME NEW w \in Workers, NEW t \in Trackings, StartProcessing(w, t)
      PROVE  TypeOK'
  <2>1. job[w][t] \in Job /\ 0 \in Steps
    BY StepsAssumption DEF Steps
  <2>2. [job[w][t] EXCEPT !.pc = "started", !.at = now] \in Job
    BY <2>1, JobUpdates
  <2>3. PICK j \in Job : job' = [job EXCEPT ![w][t] = j]
    BY <1>6, <2>2 DEF StartProcessing
  <2>4. job' \in [Workers -> [Trackings -> Job]]
    BY <2>3
  <2>5. QED BY <1>6, <2>4 DEF StartProcessing, dbVars, kafkaVars, consumerVars
<1>7. ASSUME NEW w \in Workers, NEW t \in Trackings, LimiterFails(w, t)
      PROVE  TypeOK'
  BY <1>7, IdleJobType DEF LimiterFails, dbVars, kafkaVars, consumerVars
<1>8. ASSUME NEW w \in Workers, NEW t \in Trackings, CarrierAnswers(w, t)
      PROVE  TypeOK'
  <2>1. PICK d \in NextCheckDelays(carrier[t]) :
           job' = [job EXCEPT ![w][t] =
                      Prepared(carrier[t], job[w][t].at + d)]
    BY <1>8 DEF CarrierAnswers
  <2>2. d \in Nat
    BY DelaysAssumption DEF NextCheckDelays
  <2>3. Prepared(carrier[t], job[w][t].at + d) \in Job
    <3>1. carrier[t] \in Steps
      BY StepsAssumption DEF Steps
    <3>2. job[w][t].at + d \in Nat
      BY <2>2 DEF Job
    <3>3. QED BY <3>1, <3>2, IdleJobType, JobUpdates DEF Prepared
  <2>4. QED BY <1>8, <2>1, <2>3
           DEF CarrierAnswers, dbVars, kafkaVars, consumerVars
<1>9. ASSUME NEW w \in Workers, NEW t \in Trackings, CarrierFails(w, t)
      PROVE  TypeOK'
  <2>1. BackoffDelay(job[w][t].fails + 1) \in Nat
    BY DelaysAssumption DEF BackoffDelay, Job
  <2>2. Prepared(Failed, job[w][t].at + BackoffDelay(job[w][t].fails + 1))
           \in Job
    <3>1. Failed \in Steps
      BY StepsAssumption DEF Steps, Failed
    <3>2. job[w][t].at + BackoffDelay(job[w][t].fails + 1) \in Nat
      BY <2>1 DEF Job
    <3>3. QED BY <3>1, <3>2, IdleJobType, JobUpdates DEF Prepared
  <2>3. QED BY <1>9, <2>2 DEF CarrierFails, dbVars, kafkaVars, consumerVars
<1>10. ASSUME NEW w \in Workers, NEW t \in Trackings,
              job' = [job EXCEPT ![w][t] = AfterPublishError(@)]
       PROVE  job' \in [Workers -> [Trackings -> Job]]
  <2>1. AfterPublishError(job[w][t]) \in Job
    <3>1. 0 \in Nat /\ 0 \in Steps /\ job[w][t] \in Job
      BY StepsAssumption DEF Steps
    <3>2. QED BY <3>1, IdleJobType, JobUpdates DEF AfterPublishError
  <2>2. QED BY <1>10, <2>1
<1>11. ASSUME NEW w \in Workers, NEW t \in Trackings, NEW p \in Partitions,
              PublishSucceeds(w, t, p)
       PROVE  TypeOK'
  <2>1. log' \in [Partitions -> Seq(Message)] /\ committed' = committed
    BY <1>11, WrittenInv DEF PublishSucceeds
  <2>2. job' \in [Workers -> [Trackings -> Job]]
    BY <1>11, IdleJobType DEF PublishSucceeds
  <2>3. QED BY <1>11, <2>1, <2>2 DEF PublishSucceeds, dbVars, consumerVars
<1>12. ASSUME NEW w \in Workers, NEW t \in Trackings, NEW p \in Partitions,
              PublishUnacknowledged(w, t, p)
       PROVE  TypeOK'
  <2>1. log' \in [Partitions -> Seq(Message)] /\ committed' = committed
    BY <1>12, WrittenInv DEF PublishUnacknowledged
  <2>2. job' \in [Workers -> [Trackings -> Job]]
    BY <1>12, <1>10 DEF PublishUnacknowledged
  <2>3. QED BY <1>12, <2>1, <2>2 DEF PublishUnacknowledged, dbVars, consumerVars
<1>13. ASSUME NEW w \in Workers, NEW t \in Trackings, PublishFails(w, t)
       PROVE  TypeOK'
  BY <1>13, <1>10 DEF PublishFails, dbVars, kafkaVars, consumerVars
<1>14. ASSUME NEW w \in Workers, WorkerRestarts(w) PROVE TypeOK'
  BY <1>14, IdleJobType DEF WorkerRestarts, dbVars, kafkaVars, consumerVars
<1>15. ASSUME NEW p \in Partitions, FetchMessage(p) PROVE TypeOK'
  BY <1>15 DEF FetchMessage, Consumer, dbVars, kafkaVars
<1>16. CASE ApplyTrackingUpdate
  <2>1. InHand \in Message
    BY <1>16, InHandIsMessage DEF ApplyTrackingUpdate
  <2>2. AppliedRow(row[InHand.tracking], InHand) \in Row
    BY <2>1 DEF AppliedRow, Row, Message
  <2>3. AppliedEvents(events[InHand.tracking], InHand) \subseteq 1..MaxStep
    BY <2>1, StepsAssumption DEF AppliedEvents, Message, Steps
  <2>4. row' \in [Trackings -> Row]
    BY <1>16, <2>1, <2>2 DEF ApplyTrackingUpdate, Message
  <2>5. events' \in [Trackings -> SUBSET (1..MaxStep)]
    BY <1>16, <2>1, <2>3 DEF ApplyTrackingUpdate, Message
  <2>6. consumer' \in Consumer
    BY <1>16 DEF ApplyTrackingUpdate, Consumer
  <2>7. QED BY <1>16, <2>4, <2>5, <2>6 DEF ApplyTrackingUpdate, kafkaVars
<1>17. CASE HandlerFails
  BY <1>17 DEF HandlerFails, Consumer, dbVars, kafkaVars
<1>18. CASE CommitMessages
  BY <1>18 DEF CommitMessages, Consumer, dbVars
<1>19. CASE CommitFails
  BY <1>19 DEF CommitFails, Consumer, dbVars
<1>20. CASE ApiRestarts
  <2>1. consumer' \in Consumer
    BY <1>20 DEF ApiRestarts, Consumer
  <2>2. QED BY <1>20, <2>1 DEF ApiRestarts, dbVars, kafkaVars
<1>21. CASE FetchFails
  BY <1>21 DEF FetchFails, Consumer, dbVars, kafkaVars
<1>22. QED
  BY <1>1, <1>2, <1>3, <1>4, <1>5, <1>6, <1>7, <1>8, <1>9, <1>11, <1>12,
     <1>13, <1>14, <1>15, <1>16, <1>17, <1>18, <1>19, <1>20, <1>21
     DEF Next, Environment, WorkerStep, ConsumerStep

-----------------------------------------------------------------------------
(* The steps seen from the topic and the history: most touch neither.      *)

Quiet ==
    /\ UNCHANGED <<log, committed, position, consumer, events>>
    /\ \A t \in Trackings : row'[t].step = row[t].step

Publishes(w, t, p) ==
    /\ job[w][t].pc = "publishing"
    /\ Written(w, t, p)
    /\ UNCHANGED <<now, carrier, row, events, position, consumer>>

(* Sorts the steps by what they do to the reader and the log: all but a    *)
(* publication, the steps of the consumer and a restart leave both alone.  *)
LEMMA StepKinds ==
    ASSUME Inv, [Next]_vars
    PROVE  \/ Quiet
           \/ \E w \in Workers, t \in Trackings, p \in Partitions :
                 Publishes(w, t, p)
           \/ \E p \in Partitions : FetchMessage(p)
           \/ ApplyTrackingUpdate \/ FetchFails \/ HandlerFails
           \/ CommitMessages \/ CommitFails \/ ApiRestarts
<1>1. CASE UNCHANGED vars
  BY <1>1 DEF vars, Quiet
<1>2. CASE Tick
  BY <1>2 DEF Tick, Quiet, dbVars, kafkaVars, consumerVars
<1>3. ASSUME NEW t \in Trackings, CarrierMoves(t) PROVE Quiet
  BY <1>3 DEF CarrierMoves, Quiet, dbVars, kafkaVars, consumerVars
<1>4. ASSUME NEW t \in Trackings, RefreshTracking(t) PROVE Quiet
  <2>1. row \in [Trackings -> Row]
    BY DEF Inv, TypeOK
  <2>2. \A u \in Trackings : row'[u].step = row[u].step
    BY <1>4, <2>1 DEF RefreshTracking, Row
  <2>3. QED BY <1>4, <2>2 DEF RefreshTracking, Quiet, kafkaVars, consumerVars
<1>5. ASSUME NEW w \in Workers, ClaimDueTrackings(w) PROVE Quiet
  <2>1. PICK batch : row' = Booked(batch)
    BY <1>5 DEF ClaimDueTrackings
  <2>2. row \in [Trackings -> Row]
    BY DEF Inv, TypeOK
  <2>3. \A u \in Trackings :
           [row[u] EXCEPT !.nextAt = now + Lease].step = row[u].step
    BY <2>2 DEF Row
  <2>4. \A u \in Trackings : row'[u].step = row[u].step
    BY <2>1, <2>3 DEF Booked
  <2>5. QED BY <1>5, <2>4 DEF ClaimDueTrackings, Quiet, kafkaVars, consumerVars
<1>6. ASSUME NEW w \in Workers, NEW t \in Trackings,
             \/ StartProcessing(w, t) \/ LimiterFails(w, t)
             \/ CarrierAnswers(w, t) \/ CarrierFails(w, t)
             \/ PublishFails(w, t)
      PROVE  Quiet
  BY <1>6 DEF StartProcessing, LimiterFails, CarrierAnswers, CarrierFails,
              PublishFails, Quiet, dbVars, kafkaVars, consumerVars
<1>7. ASSUME NEW w \in Workers, WorkerRestarts(w) PROVE Quiet
  BY <1>7 DEF WorkerRestarts, Quiet, dbVars, kafkaVars, consumerVars
<1>8. ASSUME NEW w \in Workers, NEW t \in Trackings, NEW p \in Partitions,
             PublishSucceeds(w, t, p) \/ PublishUnacknowledged(w, t, p)
      PROVE  Publishes(w, t, p)
  BY <1>8 DEF PublishSucceeds, PublishUnacknowledged, Publishes, dbVars,
              consumerVars
<1>9. QED
  BY <1>1, <1>2, <1>3, <1>4, <1>5, <1>6, <1>7, <1>8
     DEF Next, Environment, WorkerStep, ConsumerStep

(* Every step keeps the reader where its offsets say it is: fetching moves *)
(* one past the committed offset, committing catches up, a restart returns.*)
LEMMA NextReader == Inv /\ [Next]_vars => ReaderInOrder'
<1> SUFFICES ASSUME Inv, [Next]_vars PROVE ReaderInOrder'
  OBVIOUS
<1>1. /\ \A p \in Partitions : /\ Len(log[p]) \in Nat
                               /\ committed[p] \in Nat
                               /\ position[p] \in Nat
      /\ committed \in [Partitions -> Nat]
      /\ position \in [Partitions -> Nat]
      /\ consumer \in Consumer
      /\ ReaderInOrder
  BY DEF Inv, TypeOK
<1>2. CASE Quiet
  BY <1>1, <1>2 DEF Quiet, ReaderInOrder
<1>3. ASSUME NEW w \in Workers, NEW t \in Trackings, NEW p \in Partitions,
             Publishes(w, t, p)
      PROVE  ReaderInOrder'
  <2>1. committed' = committed
        /\ \A q \in Partitions : Len(log[q]) <= Len(log'[q])
    BY <1>3, WrittenInv DEF Publishes
  <2>2. \A q \in Partitions : Len(log'[q]) \in Nat
    BY <1>3, WrittenInv DEF Publishes
  <2>3. QED BY <1>1, <1>3, <2>1, <2>2 DEF Publishes, ReaderInOrder
<1>4. ASSUME NEW p \in Partitions, FetchMessage(p) PROVE ReaderInOrder'
  BY <1>1, <1>4 DEF FetchMessage, ReaderInOrder, kafkaVars
<1>5. CASE ApplyTrackingUpdate
  BY <1>1, <1>5 DEF ApplyTrackingUpdate, ReaderInOrder, Consumer, kafkaVars
<1>6. CASE HandlerFails
  BY <1>1, <1>6 DEF HandlerFails, ReaderInOrder, Consumer, kafkaVars
<1>7. CASE CommitMessages
  BY <1>1, <1>7 DEF CommitMessages, ReaderInOrder, Consumer
<1>8. CASE CommitFails
  BY <1>1, <1>8 DEF CommitFails, ReaderInOrder, Consumer
<1>9. CASE ApiRestarts
  BY <1>1, <1>9 DEF ApiRestarts, ReaderInOrder, Consumer, kafkaVars
<1>10. CASE FetchFails
  BY <1>1, <1>10 DEF FetchFails, ReaderInOrder, Consumer, kafkaVars
<1>11. QED
  BY StepKinds, <1>2, <1>3, <1>4, <1>5, <1>6, <1>7, <1>8, <1>9, <1>10

(* The invariant is inductive.                                             *)
LEMMA NextInv == Inv /\ [Next]_vars => Inv'
BY NextType, NextReader DEF Inv

(* The invariant of every execution: types hold, and the reader of track-  *)
(* api is never more than the message in hand away from the committed      *)
(* offsets (Consume fetches again only after CommitMessages).              *)
THEOREM InvCorrect == Spec => []Inv
BY InitInv, NextInv, PTL DEF Spec

(* Every variable keeps its type: in particular the consumer only reads    *)
(* messages that are in the log.                                           *)
THEOREM TypeCorrect == Spec => []TypeOK
<1>1. Inv => TypeOK
  BY DEF Inv
<1>2. QED BY InvCorrect, <1>1, PTL

-----------------------------------------------------------------------------
(* Nothing is lost, and the history explains the status.  The step that    *)
(* counts is the commit of an offset; what makes it safe is that the       *)
(* message in hand has been applied when the consumer stands at "applied". *)

Stored(m) == 1..m.step \subseteq events[m.tracking]

HistoryInv ==
    /\ NoUpdateLost
    /\ HistoryCoversStatus
    /\ consumer.pc = "applied" => Stored(InHand)

(* What is committed stays stored, and a row never shows a position whose  *)
(* events are missing, step by step: the apply stores both at once and     *)
(* nothing ever deletes an event.                                          *)
LEMMA NextHistory == Inv /\ Inv' /\ HistoryInv /\ [Next]_vars => HistoryInv'
<1> SUFFICES ASSUME Inv, Inv', HistoryInv, [Next]_vars PROVE HistoryInv'
  OBVIOUS
<1>1. /\ \A p \in Partitions :
            /\ log[p] \in Seq(Message) /\ Len(log[p]) \in Nat
            /\ committed[p] \in Nat
            /\ committed[p] <= position[p] /\ position[p] <= Len(log[p])
      /\ position \in [Partitions -> Nat]
      /\ committed \in [Partitions -> Nat]
      /\ row \in [Trackings -> Row]
      /\ events \in [Trackings -> SUBSET (1..MaxStep)]
      /\ consumer \in Consumer
  BY DEF Inv, TypeOK, ReaderInOrder
<1>2. CASE Quiet
  BY <1>2 DEF Quiet, HistoryInv, NoUpdateLost, HistoryCoversStatus, Stored,
              InHand
<1>3. ASSUME NEW w \in Workers, NEW t \in Trackings, NEW p \in Partitions,
             Publishes(w, t, p)
      PROVE  HistoryInv'
  <2>1. /\ committed' = committed
        /\ \A q \in Partitions : \A i \in 1..Len(log[q]) :
              log'[q][i] = log[q][i]
    BY <1>3, WrittenInv DEF Publishes
  <2>2. NoUpdateLost'
    BY <1>1, <1>3, <2>1 DEF Publishes, HistoryInv, NoUpdateLost
  <2>3. HistoryCoversStatus'
    BY <1>3 DEF Publishes, HistoryInv, HistoryCoversStatus
  <2>4. consumer.pc = "applied" => InHand' = InHand
    BY <1>3, <2>1, InHandIsMessage DEF Publishes, InHand
  <2>5. QED BY <1>3, <2>2, <2>3, <2>4 DEF Publishes, HistoryInv, Stored
<1>4. ASSUME NEW p \in Partitions, FetchMessage(p) PROVE HistoryInv'
  BY <1>4 DEF FetchMessage, HistoryInv, NoUpdateLost, HistoryCoversStatus,
              dbVars, kafkaVars
<1>5. CASE ApplyTrackingUpdate
  <2> DEFINE m == InHand
             t == InHand.tracking
  <2>1. m \in Message /\ t \in Trackings
    BY <1>5, InHandIsMessage DEF ApplyTrackingUpdate, Message
  <2>2. InHand' = InHand
    BY <1>1, <1>5 DEF ApplyTrackingUpdate, InHand, kafkaVars, Consumer
  <2>3. /\ events'[t] = events[t] \cup 1..m.step
        /\ \A u \in Trackings : events[u] \subseteq events'[u]
    BY <1>1, <1>5, <2>1 DEF ApplyTrackingUpdate, AppliedEvents
  <2>4. NoUpdateLost'
    <3>1. \A p \in Partitions : \A i \in 1..committed[p] :
             log[p][i].tracking \in Trackings
      <4>1. \A p \in Partitions : \A i \in 1..committed[p] :
               i \in 1..Len(log[p])
        BY <1>1
      <4>2. \A p \in Partitions : \A i \in 1..Len(log[p]) : log[p][i] \in Message
        BY <1>1
      <4>3. QED BY <4>1, <4>2 DEF Message
    <3>2. QED BY <1>5, <2>3, <3>1
             DEF ApplyTrackingUpdate, HistoryInv, NoUpdateLost, kafkaVars
  <2>5. \A u \in Trackings : 1..row'[u].step \subseteq events'[u]
    <3>1. CASE m.step = Failed
      <4>1. \A u \in Trackings : row'[u].step = row[u].step
        BY <1>1, <1>5, <2>1, <3>1 DEF ApplyTrackingUpdate, AppliedRow
      <4>2. QED BY <2>3, <4>1 DEF HistoryInv, HistoryCoversStatus
    <3>2. CASE m.step # Failed
      <4>1. row'[t].step = m.step
        BY <1>1, <1>5, <2>1, <3>2 DEF ApplyTrackingUpdate, AppliedRow
      <4>2. \A u \in Trackings \ {t} : row'[u].step = row[u].step
        BY <1>1, <1>5, <2>1 DEF ApplyTrackingUpdate
      <4>3. QED BY <2>3, <4>1, <4>2 DEF HistoryInv, HistoryCoversStatus
    <3>3. QED BY <3>1, <3>2
  <2>6. Stored(InHand)'
    BY <2>2, <2>3 DEF Stored
  <2>7. QED BY <2>4, <2>5, <2>6 DEF HistoryInv, HistoryCoversStatus
<1>6. CASE HandlerFails
  BY <1>1, <1>6 DEF HandlerFails, HistoryInv, NoUpdateLost,
                    HistoryCoversStatus, Consumer, dbVars, kafkaVars
<1>7. ASSUME consumer.pc = "applied",
             committed' = [committed EXCEPT ![consumer.part] =
                                                    position[consumer.part]],
             UNCHANGED <<log, events>>
      PROVE  NoUpdateLost'
  <2> DEFINE q == consumer.part
  <2>1. q \in Partitions /\ position[q] = committed[q] + 1
    BY <1>7, InHandIsMessage
  <2>2. Stored(log[q][position[q]])
    BY <1>7 DEF HistoryInv, InHand
  <2>3. \A p \in Partitions : \A i \in 1..committed'[p] :
           i \in 1..committed[p] \/ (p = q /\ i = position[q])
    BY <1>1, <1>7, <2>1
  <2>4. QED BY <1>7, <2>2, <2>3 DEF HistoryInv, NoUpdateLost, Stored
<1>8. CASE CommitMessages
  BY <1>1, <1>7, <1>8 DEF CommitMessages, HistoryInv, HistoryCoversStatus,
                          Consumer, dbVars
<1>9. CASE CommitFails
  <2>1. NoUpdateLost'
    BY <1>7, <1>9 DEF CommitFails, HistoryInv, NoUpdateLost, dbVars
  <2>2. QED BY <1>1, <1>9, <2>1 DEF CommitFails, HistoryInv,
                                    HistoryCoversStatus, Consumer, dbVars
<1>10. CASE ApiRestarts
  BY <1>1, <1>10 DEF ApiRestarts, HistoryInv, NoUpdateLost,
                     HistoryCoversStatus, Consumer, dbVars, kafkaVars
<1>11. CASE FetchFails
  BY <1>1, <1>11 DEF FetchFails, HistoryInv, NoUpdateLost,
                     HistoryCoversStatus, Consumer, dbVars, kafkaVars
<1>12. QED
  BY StepKinds, <1>2, <1>3, <1>4, <1>5, <1>6, <1>8, <1>9, <1>10, <1>11

(* The invariant about stored events holds in every execution.             *)
LEMMA HistoryInvCorrect == Spec => []HistoryInv
<1>1. Init => HistoryInv
  BY DEF Init, HistoryInv, NoUpdateLost, HistoryCoversStatus, Consumer
<1>2. QED BY <1>1, InvCorrect, NextHistory, PTL DEF Spec

(* A committed offset is never in front of the database: at-least-once     *)
(* delivery, for any number of workers, partitions and restarts.           *)
THEOREM CommittedIsStored == Spec => []NoUpdateLost
<1>1. HistoryInv => NoUpdateLost
  BY DEF HistoryInv
<1>2. QED BY HistoryInvCorrect, <1>1, PTL

(* The events behind a status are stored with it, however messages are     *)
(* repeated, reordered or interrupted.                                     *)
THEOREM StatusIsExplained == Spec => []HistoryCoversStatus
<1>1. HistoryInv => HistoryCoversStatus
  BY DEF HistoryInv
<1>2. QED BY HistoryInvCorrect, <1>1, PTL

-----------------------------------------------------------------------------
(* What one step can do to a goroutine of processOne, and to a row.        *)

JobChange(w, t) ==
    \/ job'[w][t].pc \in {"idle", "claimed"}
    \/ /\ job'[w][t].pc = "started"
       /\ \/ job[w][t].pc = "started" /\ job'[w][t].at = job[w][t].at
          \/ job'[w][t].at = now
    \/ /\ job'[w][t].pc = "publishing" /\ job[w][t].pc = "publishing"
       /\ job'[w][t].step = job[w][t].step
       /\ job'[w][t].nextAt = job[w][t].nextAt
    \/ CarrierAnswers(w, t)
    \/ CarrierFails(w, t)

(* A goroutine whose record does not change makes no step worth a case.    *)
LEMMA SameJob ==
    ASSUME Inv, NEW w \in Workers, NEW t \in Trackings,
           job'[w][t] = job[w][t]
    PROVE  JobChange(w, t)
<1>1. job[w][t] \in Job
  BY DEF Inv, TypeOK
<1>2. job[w][t].pc \in {"idle", "claimed", "started", "publishing"}
  BY <1>1 DEF Job
<1>3. QED BY <1>2 DEF JobChange

(* Updating the record of one goroutine leaves those of the others alone.  *)
LEMMA OtherJobs ==
    ASSUME Inv, NEW w \in Workers, NEW t \in Trackings, NEW j \in Job,
           job' = [job EXCEPT ![w][t] = j],
           NEW v \in Workers, NEW u \in Trackings, v # w \/ u # t
    PROVE  job'[v][u] = job[v][u]
BY DEF Inv, TypeOK

(* All a step can do to the record of a goroutine: keep it, end it, claim  *)
(* or start it, or build its message from the carrier's answer.            *)
LEMMA JobChanges ==
    ASSUME Inv, [Next]_vars, NEW v \in Workers, NEW u \in Trackings
    PROVE  JobChange(v, u)
<1>1. job \in [Workers -> [Trackings -> Job]]
  BY DEF Inv, TypeOK
<1>2. IdleJob.pc = "idle"
  BY DEF IdleJob
<1>3. CASE UNCHANGED job
  BY <1>3, SameJob
<1>4. ASSUME NEW w \in Workers, ClaimDueTrackings(w) PROVE JobChange(v, u)
  <2>1. PICK batch :
           job' = [job EXCEPT ![w] = [t \in Trackings |->
                IF t \in batch
                THEN [IdleJob EXCEPT !.pc = "claimed", !.fails = row[t].fails]
                ELSE IdleJob]]
    BY <1>4 DEF ClaimDueTrackings
  <2>2. CASE v = w
    <3>1. job'[v][u] = [IdleJob EXCEPT !.pc = "claimed", !.fails = row[u].fails]
          \/ job'[v][u] = IdleJob
      BY <1>1, <2>1, <2>2
    <3>2. [IdleJob EXCEPT !.pc = "claimed", !.fails = row[u].fails].pc = "claimed"
      BY IdleJobType DEF Job
    <3>3. job'[v][u].pc \in {"idle", "claimed"}
      BY <1>2, <3>1, <3>2
    <3>4. QED BY <3>3 DEF JobChange
  <2>3. CASE v # w
    BY <1>1, <2>1, <2>3, SameJob
  <2>4. QED BY <2>2, <2>3
<1>5. ASSUME NEW w \in Workers, NEW t \in Trackings,
             job' = [job EXCEPT ![w][t] = IdleJob]
      PROVE  JobChange(v, u)
  <2>1. CASE v = w /\ u = t
    BY <1>1, <1>2, <1>5, <2>1 DEF JobChange
  <2>2. CASE v # w \/ u # t
    BY <1>5, <2>2, IdleJobType, OtherJobs, SameJob
  <2>3. QED BY <2>1, <2>2
<1>6. ASSUME NEW w \in Workers, NEW t \in Trackings, StartProcessing(w, t)
      PROVE  JobChange(v, u)
  <2>1. job[w][t] \in Job /\ 0 \in Steps /\ now \in Nat
    BY <1>1, StepsAssumption DEF Steps, Inv, TypeOK
  <2> DEFINE j == [job[w][t] EXCEPT !.pc = "started", !.at = now]
  <2>2. j \in Job /\ j.pc = "started" /\ j.at = now
    BY <2>1, JobUpdates DEF Job
  <2>3. job' = [job EXCEPT ![w][t] = j]
    BY <1>6 DEF StartProcessing
  <2> HIDE DEF j
  <2>4. CASE v = w /\ u = t
    BY <1>1, <2>2, <2>3, <2>4 DEF JobChange
  <2>5. CASE v # w \/ u # t
    BY <2>2, <2>3, <2>5, OtherJobs, SameJob
  <2>6. QED BY <2>4, <2>5
<1>7. ASSUME NEW w \in Workers, NEW t \in Trackings,
             CarrierAnswers(w, t) \/ CarrierFails(w, t)
      PROVE  JobChange(v, u)
  <2>1. CASE v = w /\ u = t
    BY <1>7, <2>1 DEF JobChange
  <2>2. CASE v # w \/ u # t
    BY <1>1, <1>7, <2>2, SameJob DEF CarrierAnswers, CarrierFails
  <2>3. QED BY <2>1, <2>2
<1>8. ASSUME NEW w \in Workers, NEW t \in Trackings,
             job[w][t].pc = "publishing",
             job' = [job EXCEPT ![w][t] = AfterPublishError(@)]
      PROVE  JobChange(v, u)
  <2>1. CASE v = w /\ u = t
    <3>1. job'[v][u] = AfterPublishError(job[v][u])
      BY <1>1, <1>8, <2>1
    <3>2. CASE job'[v][u] = IdleJob
      BY <1>2, <3>2 DEF JobChange
    <3>3. CASE job'[v][u] = [job[v][u] EXCEPT !.attempt = @ + 1]
      <4>1. job[v][u] \in Job
        BY <1>1
      <4>2. /\ job'[v][u].pc = job[v][u].pc
            /\ job'[v][u].step = job[v][u].step
            /\ job'[v][u].nextAt = job[v][u].nextAt
        BY <3>3, <4>1 DEF Job
      <4>3. QED BY <1>8, <2>1, <4>2 DEF JobChange
    <3>4. QED BY <3>1, <3>2, <3>3 DEF AfterPublishError
  <2>2. CASE v # w \/ u # t
    BY <1>1, <1>8, <2>2, SameJob
  <2>3. QED BY <2>1, <2>2
<1>9. ASSUME NEW w \in Workers, WorkerRestarts(w) PROVE JobChange(v, u)
  <2>1. CASE v = w
    BY <1>1, <1>2, <1>9, <2>1 DEF WorkerRestarts, JobChange
  <2>2. CASE v # w
    BY <1>1, <1>9, <2>2, SameJob DEF WorkerRestarts
  <2>3. QED BY <2>1, <2>2
<1>10. ASSUME NEW w \in Workers, NEW t \in Trackings,
              LimiterFails(w, t)
              \/ \E p \in Partitions : PublishSucceeds(w, t, p)
       PROVE  JobChange(v, u)
  BY <1>5, <1>10 DEF LimiterFails, PublishSucceeds
<1>11. ASSUME NEW w \in Workers, NEW t \in Trackings,
              PublishFails(w, t)
              \/ \E p \in Partitions : PublishUnacknowledged(w, t, p)
       PROVE  JobChange(v, u)
  BY <1>8, <1>11 DEF PublishFails, PublishUnacknowledged
<1>12. ASSUME \/ UNCHANGED vars \/ Environment \/ ConsumerStep \/ FetchFails
              \/ ApiRestarts
       PROVE  UNCHANGED job
  BY <1>12 DEF vars, Environment, Tick, CarrierMoves, RefreshTracking,
               ConsumerStep, FetchMessage, ApplyTrackingUpdate, FetchFails, HandlerFails,
               CommitMessages, CommitFails, ApiRestarts
<1>13. QED
  BY <1>3, <1>4, <1>6, <1>7, <1>9, <1>10, <1>11, <1>12 DEF Next, WorkerStep

(* What the carrier's answer puts into the message.                        *)
LEMMA PreparedFields ==
    ASSUME NEW step \in Steps, NEW n \in Nat
    PROVE  /\ Prepared(step, n).pc = "publishing"
           /\ Prepared(step, n).step = step
           /\ Prepared(step, n).nextAt = n
BY IdleJobType DEF Prepared, Job

(* The message built from an answer: the carrier's present position, and   *)
(* the clock reading at the start plus a planner's delay.                  *)
LEMMA CarrierAnswerFields ==
    ASSUME Inv, NEW w \in Workers, NEW t \in Trackings, CarrierAnswers(w, t)
    PROVE  /\ job[w][t].pc = "started"
           /\ job'[w][t].pc = "publishing"
           /\ job'[w][t].step = carrier[t]
           /\ \E d \in NextCheckDelays(carrier[t]) :
                 job'[w][t].nextAt = job[w][t].at + d
           /\ UNCHANGED <<now, carrier, row, events, log>>
<1>1. PICK d \in NextCheckDelays(carrier[t]) :
         job' = [job EXCEPT ![w][t] = Prepared(carrier[t], job[w][t].at + d)]
  BY DEF CarrierAnswers
<1>2. carrier[t] \in Steps /\ job[w][t].at + d \in Nat
  <2>1. d \in Nat
    BY DelaysAssumption DEF NextCheckDelays
  <2>2. carrier[t] \in 1..MaxStep /\ job[w][t] \in Job
    BY DEF Inv, TypeOK
  <2>3. QED BY <2>1, <2>2, StepsAssumption DEF Steps, Job
<1>3. job'[w][t] = Prepared(carrier[t], job[w][t].at + d)
  BY <1>1 DEF Inv, TypeOK
<1>4. QED
  BY <1>2, <1>3, PreparedFields DEF CarrierAnswers, dbVars, kafkaVars

(* The message built from an error: no position, and a backed-off delay.   *)
LEMMA CarrierFailFields ==
    ASSUME Inv, NEW w \in Workers, NEW t \in Trackings, CarrierFails(w, t)
    PROVE  /\ job[w][t].pc = "started"
           /\ job'[w][t].pc = "publishing"
           /\ job'[w][t].step = Failed
           /\ \E i \in 1..4 : job'[w][t].nextAt = job[w][t].at + Backoff[i]
           /\ UNCHANGED <<now, carrier, row, events, log>>
<1>1. job[w][t] \in Job
  BY DEF Inv, TypeOK
<1>2. PICK i \in 1..4 : BackoffDelay(job[w][t].fails + 1) = Backoff[i]
  BY <1>1 DEF BackoffDelay, Job
<1>3. Failed \in Steps /\ job[w][t].at + Backoff[i] \in Nat
  BY <1>1, DelaysAssumption, StepsAssumption DEF Failed, Steps, Job
<1>4. job'[w][t] = Prepared(Failed, job[w][t].at + Backoff[i])
  BY <1>2 DEF CarrierFails, Inv, TypeOK
<1>5. QED
  BY <1>3, <1>4, PreparedFields DEF CarrierFails, dbVars, kafkaVars

(* Every step that is not an apply leaves a row alone, or makes it due     *)
(* within the longest ordinary delay without touching its status.          *)
LEMMA RowChanges ==
    ASSUME Inv, [Next]_vars, ~ApplyTrackingUpdate, NEW t \in Trackings
    PROVE  /\ row'[t].step = row[t].step
           /\ \/ row'[t].nextAt = row[t].nextAt
              \/ now' = now /\ row'[t].nextAt <= now + Horizon
<1>1. row \in [Trackings -> Row] /\ now \in Nat
  BY DEF Inv, TypeOK
<1>2. CASE UNCHANGED row
  BY <1>2
<1>3. ASSUME NEW u \in Trackings, RefreshTracking(u)
      PROVE  /\ row'[t].step = row[t].step
             /\ \/ row'[t].nextAt = row[t].nextAt
                \/ now' = now /\ row'[t].nextAt <= now + Horizon
  BY <1>1, <1>3, DelaysAssumption DEF RefreshTracking, Row
<1>4. ASSUME NEW w \in Workers, ClaimDueTrackings(w)
      PROVE  /\ row'[t].step = row[t].step
             /\ \/ row'[t].nextAt = row[t].nextAt
                \/ now' = now /\ row'[t].nextAt <= now + Horizon
  <2>1. PICK batch : row' = Booked(batch)
    BY <1>4 DEF ClaimDueTrackings
  <2>2. CASE t \in batch
    <3>1. row'[t] = [row[t] EXCEPT !.nextAt = now + Lease]
      BY <2>1, <2>2 DEF Booked
    <3>2. row'[t].step = row[t].step /\ row'[t].nextAt = now + Lease
      BY <1>1, <3>1 DEF Row
    <3>3. now' = now
      BY <1>4 DEF ClaimDueTrackings
    <3>4. now + Lease <= now + Horizon
      BY <1>1, DelaysAssumption
    <3>5. QED BY <3>2, <3>3, <3>4
  <2>3. CASE t \notin batch
    BY <2>1, <2>3 DEF Booked
  <2>4. QED BY <2>2, <2>3
<1>5. ASSUME NEW w \in Workers, WorkerStep(w) \/ WorkerRestarts(w),
             ~ClaimDueTrackings(w)
      PROVE  UNCHANGED row
  BY <1>5 DEF WorkerStep, WorkerRestarts, StartProcessing, LimiterFails,
              CarrierAnswers, CarrierFails, PublishSucceeds,
              PublishUnacknowledged, PublishFails, dbVars
<1>6. ASSUME ConsumerStep \/ FetchFails \/ ApiRestarts PROVE UNCHANGED row
  BY <1>6 DEF ConsumerStep, FetchMessage, FetchFails, HandlerFails, CommitMessages,
              CommitFails, ApiRestarts, dbVars
<1>7. QED
  BY <1>2, <1>3, <1>4, <1>5, <1>6
     DEF Next, Environment, Tick, CarrierMoves, vars, dbVars

(* The clock never goes back.                                              *)
LEMMA TimePasses == Inv /\ [Next]_vars => now' \in Nat /\ now <= now'
<1> SUFFICES ASSUME Inv, [Next]_vars PROVE now' \in Nat /\ now <= now'
  OBVIOUS
<1>1. now \in Nat
  BY DEF Inv, TypeOK
<1>2. now' = now \/ now' = now + 1
  BY DEF Next, vars, Environment, Tick, CarrierMoves, RefreshTracking,
         WorkerStep, ClaimDueTrackings, StartProcessing, LimiterFails,
         CarrierAnswers, CarrierFails, PublishSucceeds, PublishUnacknowledged,
         PublishFails, WorkerRestarts, ConsumerStep, FetchMessage,
         ApplyTrackingUpdate, FetchFails, HandlerFails, CommitMessages, CommitFails,
         ApiRestarts
<1>3. QED BY <1>1, <1>2

(* A parcel's position never goes back.                                    *)
LEMMA CarrierNeverGoesBack ==
    Inv /\ [Next]_vars => \A t \in Trackings : carrier[t] <= carrier'[t]
<1> SUFFICES ASSUME Inv, [Next]_vars, NEW t \in Trackings
             PROVE  carrier[t] <= carrier'[t]
  OBVIOUS
<1>1. carrier \in [Trackings -> 1..MaxStep]
  BY DEF Inv, TypeOK
<1>2. ASSUME NEW u \in Trackings, CarrierMoves(u)
      PROVE  carrier[t] <= carrier'[t]
  BY <1>1, <1>2, StepsAssumption DEF CarrierMoves
<1>3. CASE UNCHANGED carrier
  BY <1>1, <1>3, StepsAssumption
<1>4. QED
  BY <1>2, <1>3
     DEF Next, vars, Environment, Tick, RefreshTracking, WorkerStep,
         ClaimDueTrackings, StartProcessing, LimiterFails, CarrierAnswers,
         CarrierFails, PublishSucceeds, PublishUnacknowledged, PublishFails,
         WorkerRestarts, ConsumerStep, FetchMessage, ApplyTrackingUpdate,
         FetchFails, HandlerFails, CommitMessages, CommitFails, ApiRestarts

(* Only a publication changes the log of a partition.                      *)
LEMMA LogChanges ==
    ASSUME Inv, [Next]_vars
    PROVE  \/ UNCHANGED log
           \/ \E w \in Workers, t \in Trackings, p \in Partitions :
                 Publishes(w, t, p)
BY StepKinds DEF Quiet, FetchMessage, ApplyTrackingUpdate, FetchFails, HandlerFails,
                 CommitMessages, CommitFails, ApiRestarts, kafkaVars

-----------------------------------------------------------------------------
(* No undelivered tracking is parked: what holds of a row must hold of the *)
(* messages that may overwrite it, and of the messages being prepared.     *)

OnTime(x) == x.nextAt <= now + Horizon \/ Delivered(x.step)

ScheduleInv ==
    /\ \A t \in Trackings : OnTime(row[t])
    /\ \A p \in Partitions : \A i \in 1..Len(log[p]) : OnTime(log[p][i])
    /\ \A w \in Workers, t \in Trackings :
          /\ job[w][t].pc = "started" => job[w][t].at <= now
          /\ job[w][t].pc = "publishing" => OnTime(job[w][t])

(* A time within the longest ordinary delay stays so as the clock moves on.*)
LEMMA LaterIsOnTime ==
    ASSUME Inv, [Next]_vars, NEW n \in Nat, NEW step,
           n <= now + Horizon \/ Delivered(step)
    PROVE  n <= now' + Horizon \/ Delivered(step)
<1>1. now \in Nat /\ now' \in Nat /\ now <= now'
  BY TimePasses DEF Inv, TypeOK
<1>2. Horizon \in Nat
  BY DelaysAssumption
<1>3. \A a, b, c, h \in Nat : b <= c /\ a <= b + h => a <= c + h
  OBVIOUS
<1>4. n <= now + Horizon => n <= now' + Horizon
  BY <1>1, <1>2, <1>3
<1>5. QED BY <1>4

(* Every step keeps rows, messages and goroutines on time: an overdue      *)
(* reading of the clock only makes a check earlier, and the long delay of a*)
(* delivered tracking travels with its status.                             *)
LEMMA NextSchedule == Inv /\ ScheduleInv /\ [Next]_vars => ScheduleInv'
<1> SUFFICES ASSUME Inv, ScheduleInv, [Next]_vars PROVE ScheduleInv'
  OBVIOUS
<1>1. /\ row \in [Trackings -> Row]
      /\ job \in [Workers -> [Trackings -> Job]]
      /\ now \in Nat /\ now' \in Nat /\ now <= now'
      /\ \A p \in Partitions : log[p] \in Seq(Message) /\ Len(log[p]) \in Nat
  BY TimePasses DEF Inv, TypeOK
<1>2. \A p \in Partitions : \A i \in 1..Len(log[p]) : OnTime(log[p][i])'
      \/ log'[p][i] # log[p][i]
  <2> SUFFICES ASSUME NEW p \in Partitions, NEW i \in 1..Len(log[p]),
                      log'[p][i] = log[p][i]
               PROVE  OnTime(log[p][i])'
    OBVIOUS
  <2>1. log[p][i] \in Message
    BY <1>1
  <2>2. log[p][i].nextAt \in Nat /\ OnTime(log[p][i])
    BY <2>1 DEF Message, ScheduleInv
  <2>3. QED BY <2>2, LaterIsOnTime DEF OnTime
<1>3. ASSUME NEW p \in Partitions, NEW i \in 1..Len(log'[p])
      PROVE  OnTime(log[p][i])'
  <2>1. CASE UNCHANGED log
    BY <1>2, <1>3, <2>1
  <2>2. ASSUME NEW w \in Workers, NEW t \in Trackings, NEW q \in Partitions,
               Publishes(w, t, q)
        PROVE  OnTime(log[p][i])'
    <3>1. job[w][t].nextAt \in Nat /\ OnTime(job[w][t]) /\ Written(w, t, q)
      BY <1>1, <2>2 DEF Publishes, ScheduleInv, Job
    <3>2. /\ \A r \in Partitions : \A k \in 1..Len(log[r]) :
                log'[r][k] = log[r][k]
          /\ \A r \in Partitions \ {q} : log'[r] = log[r]
          /\ Len(log'[q]) = Len(log[q]) + 1
          /\ log'[q][Len(log[q]) + 1] =
                [tracking |-> t, step |-> job[w][t].step,
                 nextAt |-> job[w][t].nextAt]
      BY <3>1, WrittenInv
    <3>3. CASE i \in 1..Len(log[p])
      BY <1>2, <3>2, <3>3
    <3>4. CASE i \notin 1..Len(log[p])
      <4>1. p = q
        BY <1>3, <3>2, <3>4
      <4>2. i = Len(log[q]) + 1
        BY <1>1, <1>3, <3>2, <3>4, <4>1
      <4>3. /\ log'[p][i].step = job[w][t].step
            /\ log'[p][i].nextAt = job[w][t].nextAt
        BY <3>2, <4>1, <4>2
      <4>4. QED BY <3>1, <4>3, LaterIsOnTime DEF OnTime
    <3>5. QED BY <3>3, <3>4
  <2>3. QED BY <2>1, <2>2, LogChanges
<1>4. ASSUME NEW w \in Workers, NEW t \in Trackings
      PROVE  /\ job'[w][t].pc = "started" => job'[w][t].at <= now'
             /\ job'[w][t].pc = "publishing" => OnTime(job[w][t])'
  <2>1. job[w][t] \in Job
    BY <1>1
  <2>2. JobChange(w, t)
    BY JobChanges
  <2>3. CASE job'[w][t].pc \in {"idle", "claimed"}
    BY <2>3
  <2>4. CASE /\ job'[w][t].pc = "started"
             /\ \/ job[w][t].pc = "started" /\ job'[w][t].at = job[w][t].at
                \/ job'[w][t].at = now
    BY <1>1, <2>1, <2>4 DEF ScheduleInv, Job
  <2>5. CASE /\ job'[w][t].pc = "publishing" /\ job[w][t].pc = "publishing"
             /\ job'[w][t].step = job[w][t].step
             /\ job'[w][t].nextAt = job[w][t].nextAt
    <3>1. job[w][t].nextAt \in Nat /\ OnTime(job[w][t])
      BY <2>1, <2>5 DEF ScheduleInv, Job
    <3>2. QED BY <2>5, <3>1, LaterIsOnTime DEF OnTime
  <2>6. CASE CarrierAnswers(w, t)
    <3>1. PICK d \in NextCheckDelays(carrier[t]) :
             /\ job[w][t].pc = "started"
             /\ job'[w][t].pc = "publishing"
             /\ job'[w][t].step = carrier[t]
             /\ job'[w][t].nextAt = job[w][t].at + d
             /\ now' = now
      BY <2>6, CarrierAnswerFields
    <3>2. d \in Nat /\ (d <= Horizon \/ Delivered(carrier[t]))
      BY DelaysAssumption DEF NextCheckDelays
    <3>3. job[w][t].at \in Nat /\ job[w][t].at <= now
      BY <2>1, <3>1 DEF ScheduleInv, Job
    <3>4. QED BY <1>1, <3>1, <3>2, <3>3, DelaysAssumption DEF OnTime
  <2>7. CASE CarrierFails(w, t)
    <3>1. PICK i \in 1..4 :
             /\ job[w][t].pc = "started"
             /\ job'[w][t].pc = "publishing"
             /\ job'[w][t].nextAt = job[w][t].at + Backoff[i]
             /\ now' = now
      BY <2>7, CarrierFailFields
    <3>2. Backoff[i] \in Nat /\ Backoff[i] <= Horizon
      BY DelaysAssumption
    <3>3. job[w][t].at \in Nat /\ job[w][t].at <= now
      BY <2>1, <3>1 DEF ScheduleInv, Job
    <3>4. QED BY <1>1, <3>1, <3>2, <3>3, DelaysAssumption DEF OnTime
  <2>8. QED BY <2>2, <2>3, <2>4, <2>5, <2>6, <2>7 DEF JobChange
<1>5. ASSUME NEW t \in Trackings PROVE OnTime(row[t])'
  <2>1. row[t].nextAt \in Nat /\ OnTime(row[t])
    BY <1>1 DEF ScheduleInv, Row
  <2>2. CASE ApplyTrackingUpdate
    <3>1. InHand \in Message /\ OnTime(InHand)
      BY <2>2, InHandIsMessage DEF ApplyTrackingUpdate, ScheduleInv, InHand
    <3>2. InHand.tracking \in Trackings /\ InHand.nextAt \in Nat
      BY <3>1 DEF Message
    <3>3. CASE t # InHand.tracking
      <4>1. row'[t] = row[t]
        BY <1>1, <2>2, <3>2, <3>3 DEF ApplyTrackingUpdate
      <4>2. QED BY <2>1, <4>1, LaterIsOnTime DEF OnTime
    <3>4. CASE t = InHand.tracking
      <4>1. row'[t] = AppliedRow(row[t], InHand)
        BY <1>1, <2>2, <3>2, <3>4 DEF ApplyTrackingUpdate
      <4>2. ~Delivered(Failed)
        BY StepsAssumption DEF Delivered, Failed
      <4>3. /\ row'[t].nextAt = InHand.nextAt
            /\ InHand.step # Failed => row'[t].step = InHand.step
        BY <4>1 DEF AppliedRow
      <4>4. QED BY <3>1, <3>2, <4>2, <4>3, LaterIsOnTime DEF OnTime
    <3>5. QED BY <3>3, <3>4
  <2>3. CASE ~ApplyTrackingUpdate
    <3>1. /\ row'[t].step = row[t].step
          /\ \/ row'[t].nextAt = row[t].nextAt
             \/ now' = now /\ row'[t].nextAt <= now + Horizon
      BY <2>3, RowChanges
    <3>2. QED BY <2>1, <3>1, LaterIsOnTime DEF OnTime
  <2>4. QED BY <2>2, <2>3
<1>6. QED BY <1>3, <1>4, <1>5 DEF ScheduleInv

(* A row that is not DELIVERED is due again within the longest ordinary    *)
(* delay, at every moment and whatever was lost, repeated or reordered.    *)
THEOREM AlwaysScheduled == Spec => []NeverParkedUndelivered
<1>1. Init => ScheduleInv
  <2> SUFFICES ASSUME Init PROVE ScheduleInv
    OBVIOUS
  <2>1. \A t \in Trackings : OnTime(row[t])
    BY DelaysAssumption DEF Init, OnTime
  <2>2. \A w \in Workers, t \in Trackings : job[w][t].pc = "idle"
    BY DEF Init, IdleJob
  <2>3. \A p \in Partitions : Len(log[p]) = 0
    BY DEF Init
  <2>4. QED BY <2>1, <2>2, <2>3 DEF ScheduleInv
<1>2. Inv /\ ScheduleInv => NeverParkedUndelivered
  <2> SUFFICES ASSUME Inv, ScheduleInv, NEW t \in Trackings,
                      row[t].nextAt > now + Horizon
               PROVE  Delivered(row[t].step)
    BY DEF NeverParkedUndelivered
  <2>1. row[t].nextAt \in Nat /\ now \in Nat
    BY DEF Inv, TypeOK, Row
  <2>2. OnTime(row[t])
    BY DEF ScheduleInv
  <2>3. QED BY <2>1, <2>2, DelaysAssumption DEF OnTime
<1>3. QED BY <1>1, <1>2, InvCorrect, NextSchedule, PTL DEF Spec

-----------------------------------------------------------------------------
(* One worker and one partition: the status never goes back.               *)

SingleWorkerAndPartition ==
    /\ \E w \in Workers : Workers = {w}
    /\ \E p \in Partitions : Partitions = {p}

(* A position learnt about t: a failed check has none.                     *)
Tells(m, t) == m.tracking = t /\ m.step # Failed

(* The log of a tracking climbs; the row is at most at the next message to *)
(* apply, a message in preparation at least at all that is in the log.     *)
ClimbInv ==
    /\ \A t \in Trackings : row[t].step <= carrier[t]
    /\ \A p \in Partitions, t \in Trackings : \A i \in 1..Len(log[p]) :
          Tells(log[p][i], t) =>
             /\ log[p][i].step <= carrier[t]
             /\ \A k \in 1..Len(log[p]) :
                   i < k /\ Tells(log[p][k], t) => log[p][i].step <= log[p][k].step
             /\ i > committed[p] => row[t].step <= log[p][i].step
    /\ \A w \in Workers, t \in Trackings :
          job[w][t].pc = "publishing" /\ job[w][t].step # Failed =>
             /\ job[w][t].step <= carrier[t]
             /\ row[t].step <= job[w][t].step
             /\ \A p \in Partitions : \A i \in 1..Len(log[p]) :
                   Tells(log[p][i], t) => log[p][i].step <= job[w][t].step

(* What the apply of the message in hand does to the rows.                 *)
LEMMA AppliedSteps ==
    ASSUME Inv, ClimbInv, ApplyTrackingUpdate, NEW t \in Trackings
    PROVE  /\ row[t].step <= row'[t].step
           /\ \/ row'[t].step = row[t].step
              \/ /\ Tells(InHand, t)
                 /\ row'[t].step = InHand.step
<1>1. InHand \in Message /\ row \in [Trackings -> Row]
  BY InHandIsMessage DEF ApplyTrackingUpdate, Inv, TypeOK
<1>2. row[t].step \in Steps /\ InHand.tracking \in Trackings
  BY <1>1 DEF Row, Message
<1>3. CASE t = InHand.tracking /\ InHand.step # Failed
  <2>1. row'[t].step = InHand.step
    BY <1>1, <1>2, <1>3 DEF ApplyTrackingUpdate, AppliedRow
  <2>2. Tells(InHand, t)
    BY <1>3 DEF Tells
  <2>3. /\ consumer.part \in Partitions
        /\ position[consumer.part] \in 1..Len(log[consumer.part])
        /\ position[consumer.part] > committed[consumer.part]
    BY InHandIsMessage DEF ApplyTrackingUpdate, Inv, TypeOK
  <2>4. row[t].step <= InHand.step
    BY <2>2, <2>3 DEF ClimbInv, InHand
  <2>5. QED BY <2>1, <2>2, <2>4
<1>4. CASE ~(t = InHand.tracking /\ InHand.step # Failed)
  <2>1. row'[t].step = row[t].step
    BY <1>1, <1>2, <1>4 DEF ApplyTrackingUpdate, AppliedRow
  <2>2. QED BY <1>2, <2>1, StepsAssumption DEF Steps
<1>5. QED BY <1>3, <1>4

(* With one worker and one partition, every step keeps the positions in a  *)
(* log sorted per tracking, and the row not ahead of what is still to be   *)
(* applied.                                                                *)
LEMMA NextClimb ==
    SingleWorkerAndPartition /\ Inv /\ Inv' /\ ClimbInv /\ [Next]_vars
      => ClimbInv'
<1> SUFFICES ASSUME SingleWorkerAndPartition, Inv, Inv', ClimbInv, [Next]_vars
             PROVE  ClimbInv'
  OBVIOUS
<1>1. /\ \A t \in Trackings :
            /\ row[t].step \in Nat /\ row'[t].step \in Nat
            /\ carrier[t] \in Nat /\ carrier'[t] \in Nat
            /\ carrier[t] <= carrier'[t]
      /\ \A w \in Workers, t \in Trackings :
            job[w][t].step \in Nat /\ job'[w][t].step \in Nat
  <2>1. \A s \in Steps : s \in Nat
    BY StepsAssumption DEF Steps
  <2>2. \A t \in Trackings : row[t] \in Row /\ row'[t] \in Row
    BY DEF Inv, TypeOK
  <2>3. \A w \in Workers, t \in Trackings :
           job[w][t] \in Job /\ job'[w][t] \in Job
    BY DEF Inv, TypeOK
  <2>4. \A t \in Trackings : carrier[t] \in Nat /\ carrier'[t] \in Nat
    BY StepsAssumption DEF Inv, TypeOK
  <2>5. QED BY <2>1, <2>2, <2>3, <2>4, CarrierNeverGoesBack DEF Row, Job
<1>2. \A p \in Partitions : \A i \in 1..Len(log[p]) : log[p][i].step \in Nat
  <2>1. \A p \in Partitions : log[p] \in Seq(Message)
    BY DEF Inv, TypeOK
  <2>2. \A p \in Partitions : \A i \in 1..Len(log[p]) : log[p][i] \in Message
    BY <2>1
  <2>3. QED BY <2>2, StepsAssumption DEF Message, Steps
<1>3. \A p \in Partitions :
         /\ Len(log[p]) \in Nat
         /\ committed[p] \in Nat /\ committed'[p] \in Nat
         /\ committed[p] <= committed'[p]
  <2>1. committed \in [Partitions -> Nat] /\ position \in [Partitions -> Nat]
        /\ committed' \in [Partitions -> Nat]
    BY DEF Inv, TypeOK
  <2>2. \A p \in Partitions : committed[p] <= position[p]
    BY DEF Inv, ReaderInOrder
  <2>3. \A p \in Partitions :
           committed'[p] = committed[p] \/ committed'[p] = position[p]
    BY <2>1, StepKinds, WrittenInv
       DEF Quiet, Publishes, FetchMessage, ApplyTrackingUpdate, FetchFails, HandlerFails,
           CommitMessages, CommitFails, ApiRestarts, kafkaVars
  <2>4. \A p \in Partitions : log[p] \in Seq(Message)
    BY DEF Inv, TypeOK
  <2>5. \A p \in Partitions :
           /\ committed[p] \in Nat /\ committed'[p] \in Nat
           /\ committed[p] <= committed'[p]
    BY <2>1, <2>2, <2>3
  <2>6. QED BY <2>4, <2>5
<1>4. CASE ApplyTrackingUpdate
  <2>1. UNCHANGED <<log, committed, carrier, job>>
    BY <1>4 DEF ApplyTrackingUpdate, kafkaVars
  <2>2. PICK q \in Partitions : Partitions = {q}
    BY DEF SingleWorkerAndPartition
  <2>3. /\ consumer.part = q
        /\ position[q] \in 1..Len(log[q])
        /\ position[q] = committed[q] + 1
        /\ InHand = log[q][position[q]]
    BY <1>4, <2>2, InHandIsMessage DEF ApplyTrackingUpdate, InHand
  <2>4. ASSUME NEW t \in Trackings PROVE row'[t].step <= carrier[t]
    BY <1>4, <2>3, AppliedSteps DEF ClimbInv
  <2>5. ASSUME NEW t \in Trackings, NEW i \in 1..Len(log[q]),
               Tells(log[q][i], t), i > committed[q]
        PROVE  row'[t].step <= log[q][i].step
    <3>1. CASE row'[t].step = row[t].step
      BY <2>5, <3>1 DEF ClimbInv
    <3>2. CASE Tells(InHand, t) /\ row'[t].step = InHand.step
      <4>1. CASE i = position[q]
        BY <1>2, <2>3, <3>2, <4>1
      <4>2. CASE position[q] < i
        BY <2>3, <2>5, <3>2, <4>2 DEF ClimbInv
      <4>3. i = position[q] \/ position[q] < i
        BY <1>3, <2>3, <2>5
      <4>4. QED BY <4>1, <4>2, <4>3
    <3>3. QED BY <1>4, <3>1, <3>2, AppliedSteps
  <2>6. ASSUME NEW w \in Workers, NEW t \in Trackings,
               job[w][t].pc = "publishing", job[w][t].step # Failed
        PROVE  row'[t].step <= job[w][t].step
    BY <1>4, <2>3, <2>6, AppliedSteps DEF ClimbInv
  <2>7. QED BY <2>1, <2>2, <2>4, <2>5, <2>6 DEF ClimbInv, Tells
<1>5. ASSUME UNCHANGED log, ~ApplyTrackingUpdate
      PROVE  ClimbInv'
  <2>1. \A t \in Trackings : row'[t].step = row[t].step
    BY <1>5, RowChanges
  <2>2. ASSUME NEW t \in Trackings PROVE row'[t].step <= carrier'[t]
    BY <1>1, <2>1 DEF ClimbInv
  <2>3. ASSUME NEW p \in Partitions, NEW t \in Trackings,
               NEW i \in 1..Len(log[p]), Tells(log[p][i], t)
        PROVE  /\ log[p][i].step <= carrier'[t]
               /\ \A k \in 1..Len(log[p]) :
                     i < k /\ Tells(log[p][k], t)
                       => log[p][i].step <= log[p][k].step
               /\ i > committed'[p] => row'[t].step <= log[p][i].step
    <3>1. /\ log[p][i].step <= carrier[t]
          /\ \A k \in 1..Len(log[p]) :
                i < k /\ Tells(log[p][k], t) => log[p][i].step <= log[p][k].step
          /\ i > committed[p] => row[t].step <= log[p][i].step
      BY <2>3 DEF ClimbInv
    <3>2. /\ log[p][i].step \in Nat /\ i \in Nat
          /\ carrier[t] \in Nat /\ carrier'[t] \in Nat /\ carrier[t] <= carrier'[t]
      BY <1>1, <1>2, <1>3
    <3>3. committed[p] \in Nat /\ committed'[p] \in Nat /\ committed[p] <= committed'[p]
      BY <1>3
    <3>4. log[p][i].step <= carrier'[t]
      BY <3>1, <3>2
    <3>5. i > committed'[p] => row'[t].step <= log[p][i].step
      BY <2>1, <3>1, <3>2, <3>3
    <3>6. QED BY <3>1, <3>4, <3>5
  <2>4. ASSUME NEW w \in Workers, NEW t \in Trackings,
               job'[w][t].pc = "publishing", job'[w][t].step # Failed
        PROVE  /\ job'[w][t].step <= carrier'[t]
               /\ row'[t].step <= job'[w][t].step
               /\ \A p \in Partitions : \A i \in 1..Len(log[p]) :
                     Tells(log[p][i], t) => log[p][i].step <= job'[w][t].step
    <3>1. CASE /\ job[w][t].pc = "publishing"
               /\ job'[w][t].step = job[w][t].step
      BY <1>1, <2>1, <2>4, <3>1 DEF ClimbInv
    <3>2. CASE CarrierAnswers(w, t)
      <4>1. job'[w][t].step = carrier[t]
        BY <3>2, CarrierAnswerFields
      <4>2. QED BY <1>1, <2>1, <4>1 DEF ClimbInv
    <3>3. CASE CarrierFails(w, t)
      BY <2>4, <3>3, CarrierFailFields
    <3>4. JobChange(w, t)
      BY JobChanges
    <3>5. QED BY <2>4, <3>1, <3>2, <3>3, <3>4 DEF JobChange
  <2>5. QED BY <1>5, <2>2, <2>3, <2>4 DEF ClimbInv, Tells
<1>6. ASSUME NEW v \in Workers, NEW u \in Trackings, NEW q \in Partitions,
             Publishes(v, u, q)
      PROVE  ClimbInv'
  <2> DEFINE n == Len(log[q]) + 1
  <2>1. Workers = {v} /\ Partitions = {q}
    BY DEF SingleWorkerAndPartition
  <2>2. /\ \A i \in 1..Len(log[q]) : log'[q][i] = log[q][i]
        /\ Len(log'[q]) = n
        /\ log'[q][n] = [tracking |-> u, step |-> job[v][u].step,
                         nextAt |-> job[v][u].nextAt]
        /\ UNCHANGED <<committed, carrier, row>>
    BY <1>6, WrittenInv DEF Publishes
  <2>3. /\ log'[q][n].tracking = u
        /\ log'[q][n].step = job[v][u].step
    BY <2>2
  <2>4. \A i \in 1..Len(log'[q]) : i \in 1..Len(log[q]) \/ i = n
    BY <1>3, <2>2
  <2>5. job[v][u].step # Failed =>
          /\ job[v][u].step <= carrier[u]
          /\ row[u].step <= job[v][u].step
          /\ \A i \in 1..Len(log[q]) :
                Tells(log[q][i], u) => log[q][i].step <= job[v][u].step
    BY <1>6 DEF Publishes, ClimbInv
  <2> HIDE DEF n
  <2>6. ASSUME NEW t \in Trackings, NEW i \in 1..Len(log'[q]),
               Tells(log'[q][i], t)
        PROVE  /\ log'[q][i].step <= carrier'[t]
               /\ \A k \in 1..Len(log'[q]) :
                     i < k /\ Tells(log'[q][k], t)
                       => log'[q][i].step <= log'[q][k].step
               /\ i > committed'[q] => row'[t].step <= log'[q][i].step
    <3>1. CASE i = n
      <4>1. t = u /\ job[v][u].step # Failed /\ log'[q][i].step = job[v][u].step
        BY <2>3, <2>6, <3>1 DEF Tells
      <4>2. \A k \in 1..Len(log'[q]) : ~(i < k)
        BY <1>3, <2>2, <3>1 DEF n
      <4>3. QED BY <2>2, <2>5, <4>1, <4>2
    <3>2. CASE i \in 1..Len(log[q])
      <4>1. log'[q][i] = log[q][i] /\ Tells(log[q][i], t)
        BY <2>2, <2>6, <3>2 DEF Tells
      <4>2. ASSUME NEW k \in 1..Len(log'[q]), i < k, Tells(log'[q][k], t)
            PROVE  log'[q][i].step <= log'[q][k].step
        <5>1. CASE k \in 1..Len(log[q])
          <6>1. log'[q][k] = log[q][k]
            BY <2>2, <5>1
          <6>2. QED BY <3>2, <4>1, <4>2, <5>1, <6>1 DEF ClimbInv
        <5>2. CASE k = n
          <6>1. t = u /\ job[v][u].step # Failed
                /\ log'[q][k].step = job[v][u].step
            BY <2>3, <4>2, <5>2 DEF Tells
          <6>2. QED BY <2>5, <3>2, <4>1, <6>1
        <5>3. QED BY <2>4, <5>1, <5>2
      <4>3. /\ log[q][i].step <= carrier[t]
            /\ i > committed[q] => row[t].step <= log[q][i].step
        BY <3>2, <4>1 DEF ClimbInv
      <4>4. QED BY <2>2, <4>1, <4>2, <4>3
    <3>3. QED BY <2>4, <3>1, <3>2
  <2>7. ASSUME NEW t \in Trackings,
               job'[v][t].pc = "publishing", job'[v][t].step # Failed
        PROVE  /\ job'[v][t].step <= carrier'[t]
               /\ row'[t].step <= job'[v][t].step
               /\ \A i \in 1..Len(log'[q]) :
                     Tells(log'[q][i], t) => log'[q][i].step <= job'[v][t].step
    <3>1. /\ job[v][t].pc = "publishing"
          /\ job'[v][t].step = job[v][t].step
      <4>1. JobChange(v, t)
        BY JobChanges
      <4>2. ~CarrierAnswers(v, t) /\ ~CarrierFails(v, t)
        <5>1. Len(log'[q]) # Len(log[q])
          BY <1>3, <2>2 DEF n
        <5>2. QED BY <5>1, CarrierAnswerFields, CarrierFailFields
      <4>3. QED BY <2>7, <4>1, <4>2 DEF JobChange
    <3>2. /\ job[v][t].step <= carrier[t]
          /\ row[t].step <= job[v][t].step
          /\ \A i \in 1..Len(log[q]) :
                Tells(log[q][i], t) => log[q][i].step <= job[v][t].step
      BY <2>7, <3>1 DEF ClimbInv
    <3>3. ASSUME NEW i \in 1..Len(log'[q]), Tells(log'[q][i], t)
          PROVE  log'[q][i].step <= job[v][t].step
      <4>1. CASE i \in 1..Len(log[q])
        <5>1. log'[q][i] = log[q][i]
          BY <2>2, <4>1
        <5>2. QED BY <3>2, <3>3, <4>1, <5>1
      <4>2. CASE i = n
        <5>1. t = u /\ log'[q][i].step = job[v][t].step
          BY <2>3, <3>3, <4>2 DEF Tells
        <5>2. QED BY <1>1, <5>1
      <4>3. QED BY <2>4, <4>1, <4>2
    <3>4. QED BY <2>2, <3>1, <3>2, <3>3
  <2>8. \A t \in Trackings : row'[t].step <= carrier'[t]
    BY <2>2 DEF ClimbInv
  <2>9. QED BY <2>1, <2>6, <2>7, <2>8 DEF ClimbInv, Tells
<1>7. QED BY <1>4, <1>5, <1>6, LogChanges

(* In the beginning nothing is prepared, published or applied.             *)
LEMMA InitClimb == Init => ClimbInv
<1> SUFFICES ASSUME Init PROVE ClimbInv
  OBVIOUS
<1>1. \A t \in Trackings : row[t].step <= carrier[t]
  BY DEF Init
<1>2. \A w \in Workers, t \in Trackings : job[w][t].pc = "idle"
  BY DEF Init, IdleJob
<1>3. \A p \in Partitions : Len(log[p]) = 0
  BY DEF Init
<1>4. QED BY <1>1, <1>2, <1>3 DEF ClimbInv

(* With one worker and one partition the status of a tracking only climbs, *)
(* through every crash, retry and replay.                                  *)
THEOREM StatusOnlyClimbs ==
    SingleWorkerAndPartition => (Spec => StatusNeverRegresses)
<1> SUFFICES ASSUME SingleWorkerAndPartition PROVE Spec => StatusNeverRegresses
  OBVIOUS
<1>1. Init => ClimbInv
  BY InitClimb
<1>2. Inv /\ Inv' /\ ClimbInv /\ [Next]_vars => ClimbInv'
  BY NextClimb
<1>3. Inv /\ ClimbInv /\ [Next]_vars =>
        [\A t \in Trackings : row[t].step <= row'[t].step]_vars
  <2> SUFFICES ASSUME Inv, ClimbInv, [Next]_vars, NEW t \in Trackings
               PROVE  row[t].step <= row'[t].step
    OBVIOUS
  <2>1. CASE ApplyTrackingUpdate
    BY <2>1, AppliedSteps
  <2>2. CASE ~ApplyTrackingUpdate
    <3>1. row[t].step \in Nat
      BY StepsAssumption DEF Inv, TypeOK, Row, Steps
    <3>2. QED BY <2>2, <3>1, RowChanges
  <2>3. QED BY <2>1, <2>2
<1>4. QED
  BY <1>1, <1>2, <1>3, InvCorrect, PTL DEF Spec, StatusNeverRegresses

-----------------------------------------------------------------------------
(* One worker and one partition: the pipeline implements Lifecycle.        *)

Statuses == [t \in Trackings |-> row[t].step]

(* The apply of the message in hand is one learning, or nothing.           *)
LEMMA ApplyLearns ==
    ASSUME Inv, ClimbInv, ApplyTrackingUpdate
    PROVE  (\E t \in Trackings : L!Learn(t)) \/ UNCHANGED <<carrier, Statuses, events>>
<1>1. /\ InHand \in Message
      /\ consumer.part \in Partitions
      /\ position[consumer.part] \in 1..Len(log[consumer.part])
  BY InHandIsMessage DEF ApplyTrackingUpdate
<1>2. /\ row \in [Trackings -> Row] /\ events \in [Trackings -> SUBSET (1..MaxStep)]
      /\ InHand.tracking \in Trackings /\ InHand.step \in Nat
      /\ \A t \in Trackings : row[t].step \in Nat /\ carrier[t] \in Nat
  <2>1. \A n \in Steps : n \in Nat
    BY StepsAssumption DEF Steps
  <2>2. /\ row \in [Trackings -> Row] /\ events \in [Trackings -> SUBSET (1..MaxStep)]
        /\ carrier \in [Trackings -> 1..MaxStep]
    BY DEF Inv, TypeOK
  <2>3. InHand.tracking \in Trackings /\ InHand.step \in Nat
    BY <1>1, <2>1 DEF Message
  <2>4. \A t \in Trackings : row[t].step \in Nat
    BY <2>1, <2>2 DEF Row
  <2>5. \A t \in Trackings : carrier[t] \in Nat
    BY <2>2, StepsAssumption
  <2>6. QED BY <2>2, <2>3, <2>4, <2>5
<1>3. /\ row' = [row EXCEPT ![InHand.tracking] = AppliedRow(@, InHand)]
      /\ events' = [events EXCEPT ![InHand.tracking] = @ \cup 1..InHand.step]
      /\ carrier' = carrier
  BY DEF ApplyTrackingUpdate, AppliedEvents
<1>4. CASE InHand.step = Failed
  <2>1. Statuses' = Statuses
    BY <1>2, <1>3, <1>4 DEF AppliedRow, Statuses
  <2>2. 1..InHand.step = {}
    BY <1>4 DEF Failed
  <2>3. events' = events
    BY <1>2, <1>3, <2>2
  <2>4. QED BY <1>3, <2>1, <2>3
<1>5. CASE InHand.step # Failed
  <2>1. Tells(InHand, InHand.tracking)
    BY <1>5 DEF Tells
  <2>2. InHand.step <= carrier[InHand.tracking]
    BY <1>1, <1>2, <2>1 DEF ClimbInv, InHand
  <2>3. row'[InHand.tracking].step = InHand.step
    BY <1>2, <1>3, <1>5 DEF AppliedRow
  <2>4. row[InHand.tracking].step <= InHand.step
    BY <1>2, <2>3, AppliedSteps
  <2>5. InHand.step \in Statuses[InHand.tracking]..carrier[InHand.tracking]
    BY <1>2, <2>2, <2>4 DEF Statuses
  <2>6. Statuses' = [Statuses EXCEPT ![InHand.tracking] = InHand.step]
    BY <1>2, <1>3, <2>3 DEF Statuses
  <2>7. PICK t \in Trackings : t = InHand.tracking
    BY <1>2
  <2>8. L!Learn(t)
    BY <1>3, <2>5, <2>6, <2>7 DEF L!Learn, Statuses
  <2>9. QED BY <2>8
<1>6. QED BY <1>4, <1>5

(* Only an apply stores events, and only the carrier announces them.       *)
LEMMA HiddenSteps ==
    ASSUME Inv, [Next]_vars, ~ApplyTrackingUpdate,
           \A t \in Trackings : ~CarrierMoves(t)
    PROVE  UNCHANGED <<carrier, Statuses, events>>
<1>1. UNCHANGED <<carrier, events>>
  BY DEF Next, vars, dbVars, Environment, Tick, RefreshTracking, WorkerStep,
         ClaimDueTrackings, StartProcessing, LimiterFails, CarrierAnswers,
         CarrierFails, PublishSucceeds, PublishUnacknowledged, PublishFails,
         WorkerRestarts, ConsumerStep, FetchMessage, FetchFails, HandlerFails,
         CommitMessages, CommitFails, ApiRestarts
<1>2. Statuses' = Statuses
  BY RowChanges DEF Statuses
<1>3. QED BY <1>1, <1>2

(* With one worker and one partition the pipeline is an implementation of  *)
(* the abstract Lifecycle: claims, leases, retries, lost acknowledgements, *)
(* replays and crashes are invisible to a user of the API, and each        *)
(* message that is applied is one learning of a prefix of the announced.   *)
THEOREM PipelineImplementsLifecycle ==
    SingleWorkerAndPartition => (Spec => ImplementsLifecycle)
<1> SUFFICES ASSUME SingleWorkerAndPartition PROVE Spec => ImplementsLifecycle
  OBVIOUS
<1>1. Init => ClimbInv
  BY InitClimb
<1>2. Inv /\ Inv' /\ ClimbInv /\ [Next]_vars => ClimbInv'
  BY NextClimb
<1>3. Init => L!Init
  BY DEF Init, L!Init
<1>4. Inv /\ ClimbInv /\ [Next]_vars => [L!Next]_(L!lifecycleVars)
  <2> SUFFICES ASSUME Inv, ClimbInv, [Next]_vars
               PROVE  L!Next \/ UNCHANGED <<carrier, Statuses, events>>
    BY DEF L!lifecycleVars, Statuses
  <2>1. CASE ApplyTrackingUpdate
    BY <2>1, ApplyLearns DEF L!Next
  <2>2. ASSUME NEW t \in Trackings, CarrierMoves(t) PROVE L!Announce(t)
    BY <2>2 DEF CarrierMoves, dbVars, L!Announce
  <2>3. CASE ~ApplyTrackingUpdate /\ \A t \in Trackings : ~CarrierMoves(t)
    BY <2>3, HiddenSteps
  <2>4. QED BY <2>1, <2>2, <2>3 DEF L!Next
<1>5. QED
  BY <1>1, <1>2, <1>3, <1>4, InvCorrect, PTL DEF Spec, ImplementsLifecycle, L!Spec

=============================================================================
