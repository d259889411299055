------------------------------- MODULE Processes -------------------------------
(***************************************************************************)
(* Start and stop of the two programs.  Both open Postgres with retries    *)
(* and run the statements of Schema; track-api then listens, serves gRPC   *)
(* calls, and applies Kafka messages; a signal makes it drain its server   *)
(* for two seconds while main closes the consumer and the pool; the worker *)
(* waits for its goroutines.  Anything may start again.                    *)
(*                                                                         *)
(* A gRPC call is a create: a transaction, then a read on a connection of  *)
(* its own.  A handler of the consumer is one transaction.  Postgres may   *)
(* leave any of them without an answer for as long as it likes.            *)
(***************************************************************************)
EXTENDS Schema

CONSTANTS
    Apis,        \* processes that are track-api; the others are workers
    Calls,       \* gRPC calls, per process
    PoolSize,    \* connections of a pool
    Tries        \* attempts to open Postgres that fit before the deadline

ASSUME ProcessesAssumption ==
    /\ Apis \subseteq Processes
    /\ PoolSize \in Nat \ {0} /\ Tries \in Nat \ {0}

VARIABLES
    process,     \* [Processes -> where main stands]
    server,      \* [Processes -> the gRPC server]
    call,        \* [Processes -> [Calls -> the handler of a call]]
    handler,     \* [Processes -> the consumer's handler, or a poll cycle]
    older        \* whether a track-api of an older version still runs

mainVars == <<process, server, call, handler>>
vars     == <<schemaVars, mainVars, older>>

Process == [pc : {"off", "booting", "serving", "closing", "closingDB"},
            left : 0..Tries, outage : BOOLEAN, signalled : BOOLEAN,
            gaveUp : BOOLEAN]
Call    == {"none", "waiting", "inTx", "committed", "reading"}

Off  == [pc |-> "off", left |-> 0, outage |-> FALSE, signalled |-> FALSE,
         gaveUp |-> FALSE]
Live == Call \ {"none"}
Held == {"inTx", "reading"}         \* the handler holds a connection

TypeOK ==
    /\ SchemaTypeOK
    /\ process \in [Processes -> Process]
    /\ server \in [Processes -> {"off", "accepting", "draining", "stopped"}]
    /\ call \in [Processes -> [Calls -> Call]]
    /\ handler \in [Processes -> {"off", "idle", "busy"}]
    /\ older \in BOOLEAN

NoCalls == [c \in Calls |-> "none"]

Init ==
    /\ SchemaInit
    /\ process = [p \in Processes |-> Off]
    /\ server = [p \in Processes |-> "off"]
    /\ call = [p \in Processes |-> NoCalls]
    /\ handler = [p \in Processes |-> "off"]
    /\ older \in BOOLEAN /\ (older => objects # {})

At(p, pc) == process[p].pc = pc
Moved(p, pc) == process' = [process EXCEPT ![p].pc = pc]

(* main returned or panicked, or the process was killed: all goroutines go *)
(* with it, calls in progress are cut off without an answer.               *)
Gone(p, q) ==
    /\ process' = [process EXCEPT ![p] = q]
    /\ server' = [server EXCEPT ![p] = "off"]
    /\ call' = [call EXCEPT ![p] = NoCalls]
    /\ handler' = [handler EXCEPT ![p] = "off"]

-----------------------------------------------------------------------------
(* Start                                                                   *)

Start(p) ==
    /\ At(p, "off")
    /\ process' = [process EXCEPT ![p] =
                      [Off EXCEPT !.pc = "booting", !.left = Tries]]
    /\ session' = [session EXCEPT ![p] = FirstStatement]
    /\ UNCHANGED <<objects, rows, lastRow, server, call, handler>>

Boot(p) == At(p, "booting") /\ StatementRuns(p) /\ UNCHANGED mainVars

(* Wrong: an error of initSchema is passed over.                           *)
AttemptIgnored(p, q) ==
    /\ process' = [process EXCEPT ![p] = q]
    /\ session' = [session EXCEPT ![p] = Executed(p)]
    /\ UNCHANGED <<server, call, handler>>

(* Wrong: one failed attempt is enough.                                    *)
AttemptIsLast(p, q) ==
    /\ Gone(p, [Off EXCEPT !.outage = q.outage, !.gaveUp = TRUE])
    /\ UNCHANGED session

(* New returned an error: another attempt from the first statement after a *)
(* second's sleep, or, past the deadline, the end of the process.          *)
AttemptFailed(p, q) ==
    IF q.left = 0
    THEN Gone(p, [Off EXCEPT !.outage = q.outage, !.gaveUp = TRUE])
         /\ UNCHANGED session
    ELSE /\ process' = [process EXCEPT ![p] = q]
         /\ session' = [session EXCEPT ![p] = FirstStatement]
         /\ UNCHANGED <<server, call, handler>>

(* Wrong: every failure puts the deadline off.                             *)
RemainingExtended(p, outage) ==
    IF outage THEN {0, Tries} ELSE {process[p].left + 1}

(* A lost race takes one attempt; once Postgres was away, for as long as   *)
(* it liked, any number may be left.                                       *)
Remaining(p, outage) ==
    IF outage THEN {0, Tries} ELSE {process[p].left - 1}

(* Another session was faster, or Postgres does not answer.                *)
BootFails(p) ==
    /\ At(p, "booting")
    /\ \E away \in BOOLEAN :
       LET outage == process[p].outage \/ away IN
          /\ away \/ Refused(p)
          /\ \E l \in Remaining(p, outage) :
                AttemptFailed(p, [process[p] EXCEPT !.left = l, !.outage = outage])
    /\ UNCHANGED <<objects, rows, lastRow>>

(* The retries are forgotten.                                              *)
Booted(p, pc) ==
    /\ At(p, "booting") /\ ~HasMore(p)
    /\ process' = [process EXCEPT ![p] =
                      [Off EXCEPT !.pc = pc, !.signalled = process[p].signalled]]

(* Postgres is open.  track-api listens on both addresses and starts its   *)
(* goroutines, the worker its poller.                                      *)
Listen(p) ==
    /\ Booted(p, "serving")
    /\ server' = [server EXCEPT ![p] = IF p \in Apis THEN "accepting" ELSE @]
    /\ handler' = [handler EXCEPT ![p] = "idle"]
    /\ UNCHANGED <<schemaVars, call>>

(* An address is taken: Run returns the error, and main closes and panics. *)
ListenFails(p) ==
    /\ p \in Apis
    /\ Booted(p, "closing")
    /\ UNCHANGED <<schemaVars, server, call, handler>>

(* SIGTERM.  track-api installs its handler once Postgres is open, and is  *)
(* killed before; the worker does so first, and looks at it when it polls. *)
Signal(p) ==
    /\ ~At(p, "off") /\ ~process[p].signalled
    /\ IF p \in Apis /\ At(p, "booting")
       THEN Gone(p, Off)
       ELSE /\ process' = [process EXCEPT ![p].signalled = TRUE]
            /\ UNCHANGED <<server, call, handler>>
    /\ UNCHANGED schemaVars

Crash(p) ==
    /\ ~At(p, "off")
    /\ Gone(p, Off)
    /\ UNCHANGED schemaVars

-----------------------------------------------------------------------------
(* Service                                                                 *)

(* The context of consumer and poller is done.                             *)
Cancelled(p) ==
    process[p].signalled \/ process[p].pc \in {"closing", "closingDB"}

FreeConnection(p) ==
    /\ process[p].pc \in {"serving", "closing"}
    /\ Cardinality({c \in Calls : call[p][c] \in Held})
         + (IF handler[p] = "busy" THEN 1 ELSE 0) < PoolSize

CallMoves(p, c, from, to) ==
    /\ call[p][c] = from
    /\ call' = [call EXCEPT ![p][c] = to]
    /\ UNCHANGED <<schemaVars, process, server, handler>>

Accept(p, c) ==
    /\ server[p] = "accepting"
    /\ CallMoves(p, c, "none", "waiting")

Acquire(p, c) ==
    /\ FreeConnection(p)
    /\ \/ CallMoves(p, c, "waiting", "inTx")
       \/ CallMoves(p, c, "committed", "reading")

CallCommits(p, c) == CallMoves(p, c, "inTx", "committed")
CallAnswers(p, c) == CallMoves(p, c, "reading", "none")

(* Any call to Postgres may fail, and does when the pool is closed or the  *)
(* server has cancelled the context of the call.                           *)
CallFails(p, c) == \E from \in Live : CallMoves(p, c, from, "none")
CallGivesUp(p, c) ==
    /\ server[p] = "stopped" \/ (At(p, "closingDB") /\ call[p][c] \notin Held)
    /\ CallFails(p, c)

HandlerMoves(p, from, to) ==
    /\ handler[p] = from
    /\ handler' = [handler EXCEPT ![p] = to]
    /\ UNCHANGED <<process, server, call>>

(* The worker's cycle is started by the ticker and runs its claim.         *)
HandlerStarts(p) ==
    /\ FreeConnection(p) /\ ~Cancelled(p)
    /\ HandlerMoves(p, "idle", "busy")
    /\ UNCHANGED schemaVars

(* INSERT ... ON CONFLICT DO NOTHING needs the unique index.               *)
HandlerApplies(p, e) ==
    /\ p \in Apis
    /\ "uq_tracking_events_dedup" \in objects
    /\ HandlerMoves(p, "busy", "idle")
    /\ \/ Insert(e, FALSE)
       \/ (\E r \in rows : r.event = e) /\ UNCHANGED schemaVars

(* A cycle is over, or one error has ended the consumer goroutine.         *)
HandlerEnds(p) ==
    /\ HandlerMoves(p, "busy", IF p \in Apis THEN "off" ELSE "idle")
    /\ UNCHANGED schemaVars

(* The older version has a plain INSERT.                                   *)
OlderWriter(e) ==
    /\ older
    /\ \E null \in BOOLEAN : Insert(e, null)
    /\ UNCHANGED <<mainVars, older>>
OlderStops ==
    /\ older /\ older' = FALSE
    /\ UNCHANGED <<schemaVars, mainVars>>

-----------------------------------------------------------------------------
(* Stop                                                                    *)

(* ctx.Done: GracefulStop takes no new calls and waits for the old ones.   *)
GracefulStop(p) ==
    /\ server[p] = "accepting" /\ Cancelled(p)
    /\ server' = [server EXCEPT ![p] = "draining"]
    /\ UNCHANGED <<schemaVars, process, call, handler>>

(* Wrong: no Stop after two seconds.                                       *)
StopWhenDrained(p) ==
    /\ server[p] = "draining"
    /\ \A c \in Calls : call[p][c] \notin Live
    /\ server' = [server EXCEPT ![p] = "stopped"]
    /\ UNCHANGED <<schemaVars, process, call, handler>>

(* All calls are through, or two seconds have passed and the contexts of   *)
(* the rest are cancelled.                                                 *)
Stop(p) ==
    /\ server[p] = "draining"
    /\ server' = [server EXCEPT ![p] = "stopped"]
    /\ UNCHANGED <<schemaVars, process, call, handler>>

(* runTrackAPI returns, on the signal or because a server has failed; the  *)
(* poller's Run returns when the goroutines of its cycle are done.         *)
RunReturns(p) ==
    /\ At(p, "serving")
    /\ IF p \in Apis THEN TRUE ELSE Cancelled(p) /\ handler[p] = "idle"
    /\ Moved(p, "closing")
    /\ UNCHANGED <<schemaVars, server, call, handler>>

(* Close: cancel, consumer.Close, and the pool takes no more requests ...  *)
CloseConsumer(p) ==
    /\ At(p, "closing")
    /\ Moved(p, "closingDB")
    /\ UNCHANGED <<schemaVars, server, call, handler>>

(* ... and is closed when all its connections are back; main ends.         *)
CloseDB(p) ==
    /\ At(p, "closingDB")
    /\ handler[p] # "busy"
    /\ \A c \in Calls : call[p][c] \notin Held
    /\ Gone(p, Off)
    /\ UNCHANGED schemaVars

-----------------------------------------------------------------------------

(* The goroutines a signal sets in motion.                                 *)
ServerStops(p)  == GracefulStop(p) \/ Stop(p)
MainEnds(p)     == (Cancelled(p) /\ RunReturns(p)) \/ CloseConsumer(p) \/ CloseDB(p)
HandlerStops(p) == Cancelled(p) /\ HandlerEnds(p)

ProcessStep(p) ==
    \/ Start(p) \/ Boot(p) \/ BootFails(p)
    \/ Listen(p) \/ ListenFails(p) \/ Signal(p) \/ Crash(p)
    \/ HandlerStarts(p) \/ HandlerEnds(p)
    \/ \E e \in Events : HandlerApplies(p, e)
    \/ \E c \in Calls :
          \/ Accept(p, c) \/ Acquire(p, c)
          \/ CallCommits(p, c) \/ CallAnswers(p, c) \/ CallFails(p, c)
    \/ RunReturns(p) \/ CloseConsumer(p) \/ CloseDB(p) \/ ServerStops(p)

Next ==
    \/ \E p \in Processes : ProcessStep(p) /\ UNCHANGED older
    \/ \E e \in Events : OlderWriter(e)
    \/ OlderStops

Spec == Init /\ [][Next]_vars

(* Goroutines are scheduled and timers fire.  Nothing is asked of Postgres.*)
FairSpec ==
    /\ Spec
    /\ \A p \in Processes :
          /\ WF_mainVars(ServerStops(p)) /\ WF_mainVars(MainEnds(p))
          /\ WF_mainVars(HandlerStops(p))
          /\ \A c \in Calls : WF_mainVars(CallGivesUp(p, c))

-----------------------------------------------------------------------------

(* Whatever the database was and however the starters raced, a program     *)
(* serves only on the complete schema, and nobody can spoil it later: the  *)
(* de-duplication of ApplyTrackingUpdate rests on it.                      *)
ServesOnSoundSchema ==
    \A p \in Processes :
        At(p, "serving") => objects = Objects /\ ~Duplicated /\ ~SomeNull

(* Lost races alone never use up the attempts (mustOpenPostgresWithRetry,  *)
(* openPostgresWithRetry): a program gives up only if Postgres was away.   *)
GivesUpOnlyAfterOutage ==
    \A p \in Processes : process[p].gaveUp => process[p].outage

(* A signal ends a program that serves, although nobody waits for the gRPC *)
(* server and Close waits for every connection: handlers stuck in Postgres *)
(* are cancelled in time, and none can wait for main while main waits.     *)
SignalEndsProcess ==
    \A p \in Processes :
        At(p, "serving") /\ process[p].signalled ~> At(p, "off")

=============================================================================
