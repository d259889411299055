------------------------------ MODULE Creates ------------------------------
(***************************************************************************)
(* CreateTrackings: batches of (carrier, track number) pairs that several  *)
(* clients hand in at the same time.  The service validates a batch and    *)
(* drops repeated pairs; CreateOrGetTrackings upserts one pair after the   *)
(* other inside one transaction, commits, and reads the rows back.         *)
(*                                                                         *)
(* Postgres is external.  What matters of INSERT ... ON CONFLICT DO UPDATE *)
(* is that the statement waits while another open transaction has inserted *)
(* or updated the same pair, that its transaction then holds the pair      *)
(* until it ends, and that one transaction of a cycle of waits is aborted. *)
(* Transactions and queries take a connection of the pool while they last. *)
(***************************************************************************)
EXTENDS Naturals, Sequences, FiniteSets, SequencesExt

CONSTANTS
    Requests,   \* clients, each with one call of CreateTrackings at a time
    Pairs,      \* well-formed (carrier, track number) pairs
    Malformed,  \* stands for an item without a carrier or without a number
    KeyOf,      \* [items -> the string the service de-duplicates by]
    Batches,    \* what clients may send
    MaxItems,   \* the longest batch the service accepts (10,000)
    PoolSize,   \* connections of the pool
    Nobody      \* no request

CONSTANTS       \* bound of the model, not of the program
    MaxCalls    \* calls by each client

ASSUME PairsAssumption == Malformed \notin Pairs /\ Nobody \notin Requests
ASSUME BatchesAssumption == Batches \subseteq Seq(Pairs \cup {Malformed})
ASSUME SizesAssumption ==
    MaxItems \in Nat /\ PoolSize \in Nat \ {0} /\ MaxCalls \in Nat

VARIABLES
    row,        \* [Pairs -> id of the committed row, 0 if there is none]
    holder,     \* [Pairs -> the open transaction that wrote the pair]
    nextId,     \* the sequence behind trackings.id
    call        \* [Requests -> where the call of this client stands]

vars == <<row, holder, nextId, call>>

Call == [pc : {"idle", "queued", "open", "reading", "answered", "failed"},
         asked : SUBSET Pairs,       \* the pairs of the batch
         items : Seq(Pairs),         \* the batch without repetitions
         ids : Seq(Nat),             \* ids its INSERTs have returned
         rows : SUBSET (Pairs \X Nat),   \* the answer
         calls : Nat]

TypeOK ==
    /\ row \in [Pairs -> Nat]
    /\ holder \in [Pairs -> Requests \cup {Nobody}]
    /\ nextId \in Nat \ {0}
    /\ call \in [Requests -> Call]

Init ==
    /\ row = [p \in Pairs |-> 0]
    /\ holder = [p \in Pairs |-> Nobody]
    /\ nextId = 1
    /\ call = [r \in Requests |-> [pc |-> "idle", asked |-> {},
                  items |-> <<>>, ids |-> <<>>, rows |-> {}, calls |-> 0]]

-----------------------------------------------------------------------------
(* The service.                                                            *)

FirstOfKey(items) ==
    {i \in DOMAIN items : \A j \in 1..(i - 1) : KeyOf[items[j]] # KeyOf[items[i]]}

(* The first pair of each key, in the order of the batch.                  *)
Clean(items) ==
    LET firsts == FirstOfKey(items)
        nth(k) == CHOOSE i \in firsts : Cardinality({j \in firsts : j <= i}) = k
    IN  [k \in 1..Cardinality(firsts) |-> items[nth(k)]]

(* Wrong: only the size is looked at.                                      *)
RejectedBySize(items) == items = <<>> \/ Len(items) > MaxItems

Rejected(items) ==
    \/ items = <<>> \/ Len(items) > MaxItems
    \/ Malformed \in ToSet(items)

CreateTrackings(r) ==
    /\ call[r].pc \in {"idle", "answered", "failed"}
    /\ call[r].calls < MaxCalls
    /\ \E items \in Batches :
           call' = [call EXCEPT ![r] =
               IF Rejected(items)
               THEN [pc |-> "failed", asked |-> {}, items |-> <<>>,
                     ids |-> <<>>, rows |-> {}, calls |-> @.calls + 1]
               ELSE [pc |-> "queued", asked |-> ToSet(items), items |-> Clean(items),
                     ids |-> <<>>, rows |-> {}, calls |-> @.calls + 1]]
    /\ UNCHANGED <<row, holder, nextId>>

-----------------------------------------------------------------------------
(* The transaction of CreateOrGetTrackings.                                *)

Open == {r \in Requests : call[r].pc = "open"}
FreeConnection == Cardinality(Open) < PoolSize

BeginTx(r) ==
    /\ call[r].pc = "queued"
    /\ FreeConnection
    /\ call' = [call EXCEPT ![r].pc = "open"]
    /\ UNCHANGED <<row, holder, nextId>>

BeginFails(r) ==
    /\ call[r].pc = "queued"
    /\ call' = [call EXCEPT ![r].pc = "failed"]
    /\ UNCHANGED <<row, holder, nextId>>

HasMore(r) == call[r].pc = "open" /\ Len(call[r].ids) < Len(call[r].items)
Current(r) == call[r].items[Len(call[r].ids) + 1]

IdFor(p) == IF row[p] # 0 THEN row[p] ELSE nextId

(* Wrong: no unique constraint, so that nothing makes the INSERT wait.     *)
BlockedByNothing(r) == HasMore(r) /\ FALSE

Blocked(r) == HasMore(r) /\ holder[Current(r)] \notin {Nobody, r}

(* Wrong: each INSERT commits by itself.                                   *)
InsertTrackingAlone(r) ==
    /\ HasMore(r) /\ ~Blocked(r)
    /\ LET p == Current(r) IN
       /\ call' = [call EXCEPT ![r].ids = Append(@, IdFor(p))]
       /\ nextId' = IF IdFor(p) = nextId THEN nextId + 1 ELSE nextId
       /\ row' = [row EXCEPT ![p] = IdFor(p)]
    /\ UNCHANGED holder

(* One INSERT: the id of the committed row if there is one, else a new     *)
(* one.  (The gaps that unused ids leave in the sequence are left out.)    *)
InsertTracking(r) ==
    /\ HasMore(r) /\ ~Blocked(r)
    /\ LET p == Current(r) IN
       /\ call' = [call EXCEPT ![r].ids = Append(@, IdFor(p))]
       /\ nextId' = IF IdFor(p) = nextId THEN nextId + 1 ELSE nextId
       /\ holder' = [holder EXCEPT ![p] = r]
    /\ UNCHANGED row

-----------------------------------------------------------------------------
(* How the transaction ends.  Postgres releases its pairs, and the pool    *)
(* gets the connection back, at the commit or at the deferred Rollback.    *)

Released(r) == [p \in Pairs |-> IF holder[p] = r THEN Nobody ELSE holder[p]]

(* Wrong: an error path that returns without the rollback.                 *)
StatementFailsOpen(r) ==
    /\ HasMore(r)
    /\ call' = [call EXCEPT ![r].pc = "failed"]
    /\ UNCHANGED <<row, holder, nextId>>

(* The connection breaks or the client cancels, also while an INSERT waits. *)
StatementFails(r) ==
    /\ HasMore(r)
    /\ call' = [call EXCEPT ![r].pc = "failed"]
    /\ holder' = Released(r)
    /\ UNCHANGED <<row, nextId>>

(* S is a cycle of waits, or several: each waits for one of S, and each is *)
(* waited for by one of S.                                                 *)
Cyclic(S) ==
    /\ \A x \in S : Blocked(x) /\ holder[Current(x)] \in S
    /\ \A x \in S : \E y \in S : holder[Current(y)] = x

InDeadlock(r) == \E S \in SUBSET Requests : r \in S /\ Cyclic(S)

(* Postgres aborts a transaction that is part of a cycle of waits.         *)
DeadlockDetected(r) ==
    /\ InDeadlock(r)
    /\ call' = [call EXCEPT ![r].pc = "failed"]
    /\ holder' = Released(r)
    /\ UNCHANGED <<row, nextId>>

Finished(r) == call[r].pc = "open" /\ Len(call[r].ids) = Len(call[r].items)

Stored(r) == [p \in Pairs |->
    IF \E i \in DOMAIN call[r].items : call[r].items[i] = p
    THEN call[r].ids[CHOOSE i \in DOMAIN call[r].items : call[r].items[i] = p]
    ELSE row[p]]

Commit(r) ==
    /\ Finished(r)
    /\ row' = Stored(r)
    /\ holder' = Released(r)
    /\ call' = [call EXCEPT ![r].pc = "reading"]
    /\ UNCHANGED nextId

(* Wrong: the error of the commit is ignored.                              *)
CommitFailsUnnoticed(r) ==
    /\ Finished(r)
    /\ row' \in {row, Stored(r)}
    /\ holder' = Released(r)
    /\ call' = [call EXCEPT ![r].pc = "reading"]
    /\ UNCHANGED nextId

(* The client of Postgres reports an error: nothing was committed, or the  *)
(* answer of a commit that took effect was lost.                           *)
CommitFails(r) ==
    /\ Finished(r)
    /\ row' \in {row, Stored(r)}
    /\ holder' = Released(r)
    /\ call' = [call EXCEPT ![r].pc = "failed"]
    /\ UNCHANGED nextId

(* GetTrackingsByIDs of the ids, on a connection of its own.               *)
ReadBack(r) ==
    /\ call[r].pc = "reading"
    /\ FreeConnection
    /\ call' = [call EXCEPT ![r].pc = "answered",
           ![r].rows = {<<p, row[p]>> : p \in {q \in Pairs : row[q] \in ToSet(call[r].ids) \ {0}}}]
    /\ UNCHANGED <<row, holder, nextId>>

(* The rows exist, but the client is told that the call failed.            *)
ReadBackFails(r) ==
    /\ call[r].pc = "reading"
    /\ call' = [call EXCEPT ![r].pc = "failed"]
    /\ UNCHANGED <<row, holder, nextId>>

Next ==
    \E r \in Requests :
        \/ CreateTrackings(r)
        \/ BeginTx(r) \/ BeginFails(r)
        \/ InsertTracking(r) \/ StatementFails(r) \/ DeadlockDetected(r)
        \/ Commit(r) \/ CommitFails(r)
        \/ ReadBack(r) \/ ReadBackFails(r)

Spec == Init /\ [][Next]_vars

(* A handler that can run does.  Calls are bounded, so weak fairness is    *)
(* enough: a waiting handler cannot be overtaken for ever.  (In the        *)
(* program the queues of the pool and of Postgres see to that.)            *)
Progress(r) == BeginTx(r) \/ InsertTracking(r) \/ DeadlockDetected(r)
                 \/ Commit(r) \/ ReadBack(r)

Fairness == \A r \in Requests : WF_vars(Progress(r))

FairSpec == Spec /\ Fairness

-----------------------------------------------------------------------------
(* Properties.                                                             *)

(* The id of a tracking never changes once a client may have been told it: *)
(* concurrent batches with a pair in common agree on its id                *)
(* (UNIQUE (carrier_code, track_number), schema.go:25).                    *)
IdsNeverChange == [][\A p \in Pairs : row[p] # 0 => row'[p] = row[p]]_vars

(* What a client of the Registry sees of a call.                           *)
PhaseOf(pc) ==
    CASE pc \in {"queued", "open"}      -> "asked"
      [] pc = "reading"                 -> "registered"
      [] pc \in {"answered", "failed"} -> pc
      [] pc = "idle"                    -> "ready"

R == INSTANCE Registry WITH
       id     <- row,
       phase  <- [r \in Requests |-> PhaseOf(call[r].pc)],
       asked  <- [r \in Requests |-> call[r].asked],
       batch  <- [r \in Requests |-> ToSet(call[r].items)],
       answer <- [r \in Requests |-> call[r].rows]

(* All or nothing, and answered from what was registered: transactions,    *)
(* waits, deadlocks and lost commits disappear behind the abstract         *)
(* Registry, where a whole batch gets its ids in one step                  *)
(* (trackings_repo.go:20-46).                                              *)
ImplementsRegistry == R!Spec

(* An answer has a row for every pair asked for, or for one with the same  *)
(* key, only rows that are stored, and none that was not asked for, as     *)
(* rows are read back by their ids (service.go:44-61).                     *)
AnswerCoversBatch ==
    \A r \in Requests :
        call[r].pc = "answered" =>
            /\ \A t \in call[r].rows :
                   t[1] \in call[r].asked /\ t[2] # 0 /\ row[t[1]] = t[2]
            /\ \A p \in call[r].asked :
                   \E t \in call[r].rows : KeyOf[t[1]] = KeyOf[p]

(* Every call ends, although batches wait for each other's pairs and for   *)
(* connections: aborted transactions leave nothing behind, and the rows    *)
(* are read back after the connection of the transaction was returned.     *)
EveryCallEnds ==
    \A r \in Requests :
        call[r].pc \in {"queued", "open", "reading"} ~>
            call[r].pc \in {"answered", "failed"}

=============================================================================
