----------------------------- MODULE StatusCache -----------------------------
(***************************************************************************)
(* The cache of current statuses inside track-api.  GET handlers read      *)
(* through Redis: ask the cache for every id, read the misses from         *)
(* Postgres, fill the cache.  The consumer applies an update to Postgres,  *)
(* reloads the row and overwrites the cached copy.  Neither holds a lock   *)
(* between its calls, refreshes and claims change rows behind the cache,   *)
(* and every error of Redis is ignored.                                    *)
(*                                                                         *)
(* Of a row the model keeps which update gave it its status (its index in  *)
(* Updates, 0 for none) and which rescheduling gave it its next_check_at   *)
(* (0: the update itself).                                                 *)
(***************************************************************************)
EXTENDS Naturals, Sequences, FiniteSets

CONSTANTS
    Ids,            \* trackings
    Readers,        \* concurrent GET handlers
    Updates,        \* the messages: Updates[n] is the tracking of the n-th
    TTL,            \* ticks an entry lives; 0 turns the cache off
    CallsMayFail,   \* whether best-effort calls (Redis, the reload) may fail
    MaxReschedules  \* bound: refreshes and claims

ASSUME CacheAssumption ==
    /\ Updates \in Seq(Ids)
    /\ TTL \in Nat /\ MaxReschedules \in Nat
    /\ CallsMayFail \in BOOLEAN

VARIABLES
    db,           \* [Ids -> row in Postgres]
    cache,        \* [Ids -> entry in Redis: a row and its remaining life]
    reader,       \* [Readers -> where the GET handler stands]
    consumer,     \* where the handler of the consumer goroutine stands
    committed,    \* updates whose offset is committed
    reschedules   \* refreshes and claims so far

vars == <<db, cache, reader, consumer, committed, reschedules>>

Row     == [status : 0..Len(Updates), schedule : 0..MaxReschedules]
NewRow  == [status |-> 0, schedule |-> 0]
Entry   == [row : Row, ttl : 0..TTL]
Absent  == [row |-> NewRow, ttl |-> 0]
Rows    == UNION {[S -> Row] : S \in SUBSET Ids}
Reader  == [pc : {"idle", "asking", "reading", "filling", "done"},
            ids : SUBSET Ids, left : SUBSET Ids, miss : SUBSET Ids, got : Rows]
Consumer == [pc : {"idle", "reloading", "caching", "committing", "stopped"},
             row : Row]

NoRows == [i \in {} |-> NewRow]
IdleReader == [pc |-> "idle", ids |-> {}, left |-> {}, miss |-> {},
               got |-> NoRows]
IdleConsumer == [pc |-> "idle", row |-> NewRow]

TypeOK ==
    /\ db \in [Ids -> Row]
    /\ cache \in [Ids -> Entry]
    /\ reader \in [Readers -> Reader]
    /\ consumer \in Consumer
    /\ committed \in 0..Len(Updates)
    /\ reschedules \in 0..MaxReschedules

Init ==
    /\ db = [i \in Ids |-> NewRow]
    /\ cache = [i \in Ids |-> Absent]
    /\ reader = [r \in Readers |-> IdleReader]
    /\ consumer = IdleConsumer
    /\ committed = 0
    /\ reschedules = 0

CacheEnabled == TTL > 0

-----------------------------------------------------------------------------
(* Redis and Postgres                                                      *)

Aged(e) == IF e.ttl <= 1 THEN Absent ELSE [e EXCEPT !.ttl = @ - 1]

(* Time passes: entries lose a tick of life, and vanish with the last.     *)
Tick ==
    /\ \E i \in Ids : cache[i].ttl > 0
    /\ cache' = [i \in Ids |-> Aged(cache[i])]
    /\ UNCHANGED <<db, reader, consumer, committed, reschedules>>

(* Wrong: an extra tick of slack on top of the configured life.            *)
SetWithSlack(i, r) ==
    cache' = [cache EXCEPT ![i] = [row |-> r, ttl |-> TTL + 1]]

(* SET key value EX ttl.                                                   *)
Set(i, r) == cache' = [cache EXCEPT ![i] = [row |-> r, ttl |-> TTL]]

(* A Set whose error the service drops.                                    *)
SetOrFail(i, r) ==
    \/ Set(i, r)
    \/ CallsMayFail /\ UNCHANGED cache

(* RefreshTracking, or the claim of a worker: next_check_at changes in     *)
(* Postgres and nobody tells the cache.                                    *)
Reschedule(i) ==
    /\ reschedules < MaxReschedules
    /\ reschedules' = reschedules + 1
    /\ db' = [db EXCEPT ![i].schedule = reschedules']
    /\ UNCHANGED <<cache, reader, consumer, committed>>

-----------------------------------------------------------------------------
(* GetTrackingsByIDs                                                       *)

(* A request for some ids; without a cache all of them are misses.         *)
StartGet(r) ==
    /\ reader[r].pc = "idle"
    /\ \E ids \in SUBSET Ids \ {{}} :
          reader' = [reader EXCEPT ![r] =
              IF CacheEnabled
              THEN [IdleReader EXCEPT !.pc = "asking", !.ids = ids, !.left = ids]
              ELSE [IdleReader EXCEPT !.pc = "reading", !.ids = ids, !.miss = ids]]
    /\ UNCHANGED <<db, cache, consumer, committed, reschedules>>

AfterAsking(h) ==
    IF h.left # {} THEN h
    ELSE [h EXCEPT !.pc = IF h.miss = {} THEN "done" ELSE "reading"]

WithRow(got, i, row) ==
    [k \in DOMAIN got \cup {i} |-> IF k = i THEN row ELSE got[k]]

(* Wrong: a hit renews the entry (GETEX), which then never expires.        *)
CacheHitRenews(r, i) ==
    /\ reader[r].pc = "asking" /\ i \in reader[r].left
    /\ cache[i].ttl > 0
    /\ Set(i, cache[i].row)
    /\ reader' = [reader EXCEPT ![r] =
          AfterAsking([reader[r] EXCEPT !.left = @ \ {i},
                                        !.got = WithRow(@, i, cache[i].row)])]
    /\ UNCHANGED <<db, consumer, committed, reschedules>>

CacheHit(r, i) ==
    /\ reader[r].pc = "asking" /\ i \in reader[r].left
    /\ cache[i].ttl > 0
    /\ reader' = [reader EXCEPT ![r] =
          AfterAsking([reader[r] EXCEPT !.left = @ \ {i},
                                        !.got = WithRow(@, i, cache[i].row)])]
    /\ UNCHANGED <<db, cache, consumer, committed, reschedules>>

(* Wrong: an error of the cache is not a miss, the id is passed over.      *)
CacheMissOrSkip(r, i) ==
    /\ reader[r].pc = "asking" /\ i \in reader[r].left
    /\ cache[i].ttl = 0 \/ CallsMayFail
    /\ reader' = [reader EXCEPT ![r] =
          AfterAsking([reader[r] EXCEPT !.left = @ \ {i},
                                        !.miss = IF cache[i].ttl = 0
                                                 THEN @ \cup {i} ELSE @])]
    /\ UNCHANGED <<db, cache, consumer, committed, reschedules>>

(* No entry, an error of Redis, or an entry that does not parse.           *)
CacheMiss(r, i) ==
    /\ reader[r].pc = "asking" /\ i \in reader[r].left
    /\ cache[i].ttl = 0 \/ CallsMayFail
    /\ reader' = [reader EXCEPT ![r] =
          AfterAsking([reader[r] EXCEPT !.left = @ \ {i}, !.miss = @ \cup {i}])]
    /\ UNCHANGED <<db, cache, consumer, committed, reschedules>>

(* One SELECT for all the misses.                                          *)
ReadMisses(r) ==
    /\ reader[r].pc = "reading"
    /\ reader' = [reader EXCEPT ![r] =
          [reader[r] EXCEPT
              !.pc = IF CacheEnabled THEN "filling" ELSE "done",
              !.left = reader[r].miss,
              !.got = [k \in DOMAIN reader[r].got \cup reader[r].miss |->
                          IF k \in reader[r].miss THEN db[k] ELSE reader[r].got[k]]]]
    /\ UNCHANGED <<db, cache, consumer, committed, reschedules>>

(* The SELECT fails: the request returns the error and no row at all.      *)
ReadFails(r) ==
    /\ reader[r].pc = "reading"
    /\ reader' = [reader EXCEPT ![r] = IdleReader]
    /\ UNCHANGED <<db, cache, consumer, committed, reschedules>>

(* The row that was read is written to the cache, however old by now.      *)
FillCache(r, i) ==
    /\ reader[r].pc = "filling" /\ i \in reader[r].left
    /\ SetOrFail(i, reader[r].got[i])
    /\ reader' = [reader EXCEPT
          ![r].left = @ \ {i},
          ![r].pc = IF reader[r].left = {i} THEN "done" ELSE @]
    /\ UNCHANGED <<db, consumer, committed, reschedules>>

Respond(r) ==
    /\ reader[r].pc = "done"
    /\ reader' = [reader EXCEPT ![r] = IdleReader]
    /\ UNCHANGED <<db, cache, consumer, committed, reschedules>>

-----------------------------------------------------------------------------
(* ApplyKafkaUpdate, called by Consume for the update after the committed  *)

Target == Updates[committed + 1]

(* The transaction commits.  If only the answer to COMMIT is lost, Consume *)
(* returns although the update is stored.                                  *)
ApplyUpdate ==
    /\ consumer.pc = "idle" /\ committed < Len(Updates)
    /\ db' = [db EXCEPT ![Target] = [status |-> committed + 1, schedule |-> 0]]
    /\ \E pc \in {IF CacheEnabled THEN "reloading" ELSE "committing", "stopped"} :
          consumer' = [consumer EXCEPT !.pc = pc]
    /\ UNCHANGED <<cache, reader, committed, reschedules>>

(* Wrong: the cache is written first, and keeps what is rolled back.       *)
ApplyFailsAfterCaching ==
    /\ consumer.pc = "idle" /\ committed < Len(Updates)
    /\ SetOrFail(Target, [status |-> committed + 1, schedule |-> 0])
    /\ consumer' = [consumer EXCEPT !.pc = "stopped"]
    /\ UNCHANGED <<db, reader, committed, reschedules>>

(* The transaction fails: nothing is written, Consume returns.             *)
ApplyFails ==
    /\ consumer.pc = "idle" /\ committed < Len(Updates)
    /\ consumer' = [consumer EXCEPT !.pc = "stopped"]
    /\ UNCHANGED <<db, cache, reader, committed, reschedules>>

(* Wrong: the row is taken from the cache when it is there.                *)
ReloadThroughCache ==
    /\ consumer.pc = "reloading"
    /\ consumer' = [pc  |-> "caching",
                    row |-> IF cache[Target].ttl > 0 THEN cache[Target].row
                                                     ELSE db[Target]]
    /\ UNCHANGED <<db, cache, reader, committed, reschedules>>

(* The row is read back from Postgres, after the transaction.              *)
Reload ==
    /\ consumer.pc = "reloading"
    /\ consumer' = [pc |-> "caching", row |-> db[Target]]
    /\ UNCHANGED <<db, cache, reader, committed, reschedules>>

(* The reload fails: the error is dropped and the cache stays as it is.    *)
ReloadFails ==
    /\ consumer.pc = "reloading" /\ CallsMayFail
    /\ consumer' = [consumer EXCEPT !.pc = "committing"]
    /\ UNCHANGED <<db, cache, reader, committed, reschedules>>

UpdateCache ==
    /\ consumer.pc = "caching"
    /\ SetOrFail(Target, consumer.row)
    /\ consumer' = [IdleConsumer EXCEPT !.pc = "committing"]
    /\ UNCHANGED <<db, reader, committed, reschedules>>

Commit ==
    /\ consumer.pc = "committing"
    /\ committed' = committed + 1
    /\ consumer' = IdleConsumer
    /\ UNCHANGED <<db, cache, reader, reschedules>>

(* The offset may have been stored or not.                                 *)
CommitFails ==
    /\ consumer.pc = "committing"
    /\ committed' \in {committed, committed + 1}
    /\ consumer' = [consumer EXCEPT !.pc = "stopped"]
    /\ UNCHANGED <<db, cache, reader, reschedules>>

(* track-api is started again: its handlers are gone, Redis is not, and    *)
(* the update in progress is delivered again.                              *)
ApiRestarts ==
    /\ consumer' = IdleConsumer
    /\ reader' = [r \in Readers |-> IdleReader]
    /\ UNCHANGED <<db, cache, committed, reschedules>>

-----------------------------------------------------------------------------

ReaderStep(r) ==
    \/ \E i \in Ids : CacheHit(r, i) \/ CacheMiss(r, i) \/ FillCache(r, i)
    \/ ReadMisses(r)
    \/ ReadFails(r)
    \/ Respond(r)

ConsumerStep ==
    \/ ApplyUpdate
    \/ ApplyFails
    \/ Reload
    \/ ReloadFails
    \/ UpdateCache
    \/ Commit
    \/ CommitFails

Next ==
    \/ Tick
    \/ \E i \in Ids : Reschedule(i)
    \/ \E r \in Readers : StartGet(r) \/ ReaderStep(r)
    \/ ConsumerStep
    \/ ApiRestarts

Spec == Init /\ [][Next]_vars

(* Handlers that were started run on, and time passes.  Nobody has to ask, *)
(* to publish an update, or to keep the consumer alive.                    *)
FairSpec == Spec /\ WF_vars(Tick) /\ \A r \in Readers : WF_vars(ReaderStep(r))

-----------------------------------------------------------------------------
(* What the cache promises.                                                *)

(* Whatever was cached, missed or failed, an answer has a row for each id  *)
(* asked for: a failing cache costs a read of Postgres, never a row.       *)
EveryIdAnswered ==
    \A r \in Readers :
        reader[r].pc = "done" => DOMAIN reader[r].got = reader[r].ids

(* No status reaches a cache entry or an answer before the transaction     *)
(* that stores it has committed: after a rollback nobody has seen it.      *)
OnlyStoredStatuses ==
    /\ \A i \in Ids : cache[i].row.status <= db[i].status
    /\ \A r \in Readers : \A i \in DOMAIN reader[r].got :
          reader[r].got[i].status <= db[i].status

(* The consumer leaves the status it has just stored in the cache: reading *)
(* it back after the commit, it can overwrite only an older one.           *)
ConsumerCachesNewest ==
    [][UpdateCache => \A i \in Ids : cache'[i] = cache[i]
                                     \/ cache'[i].row.status = db[i].status]_vars

(* Every stale copy dies with its entry: no write reaches Postgres any     *)
(* more, and from some moment on the cache holds what Postgres holds, even *)
(* when each call to Redis may have failed or the consumer has stopped.    *)
EventuallyCurrent ==
    <>[](\A i \in Ids : cache[i].ttl > 0 => cache[i].row = db[i])

=============================================================================
