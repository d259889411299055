-------------------------------- MODULE Schema --------------------------------
(***************************************************************************)
(* initSchema: the statements that every process of TrackBox runs against  *)
(* Postgres when it starts, each in a transaction of its own, one starter  *)
(* among others that may be at any other statement.                        *)
(*                                                                         *)
(* Of the tables the model keeps which relations and constraints exist and *)
(* the rows of tracking_events: the event a row records (everything in the *)
(* de-duplication key, with NULL read as '') and whether a text column is  *)
(* still NULL, as older versions of the schema allowed.                    *)
(***************************************************************************)
EXTENDS Naturals, FiniteSets, Sequences

CONSTANTS
    Processes,   \* starters
    Events,      \* events a tracking may have
    MaxRow       \* bound: ids of tracking_events

ASSUME RowAssumption == MaxRow \in Nat /\ MaxRow >= 2

VARIABLES
    objects,     \* what exists: tables, indexes, NOT NULL constraints
    rows,        \* the rows of tracking_events
    lastRow,     \* the sequence of their ids
    session      \* [Processes -> the statement a process has reached]

schemaVars == <<objects, rows, lastRow, session>>

(* The statements in their order.  The UPDATEs of location and message,    *)
(* and the ALTERs of both, are one statement each; the two SET DEFAULTs    *)
(* change nothing that an insert of the program would notice.              *)
Statements == <<"trackings", "idx_trackings_next_check_at",
                "tracking_events", "idx_tracking_events_event_time",
                "fill", "not_null", "dedup", "uq_tracking_events_dedup">>
Relations == {"trackings", "idx_trackings_next_check_at", "tracking_events",
              "idx_tracking_events_event_time", "uq_tracking_events_dedup"}
Objects   == Relations \cup {"not_null"}

Row == [id : 1..MaxRow, event : Events, null : BOOLEAN]

(* at: the statement in hand; planned: it has read what it will act on;    *)
(* doomed: the ids the DELETE has chosen.                                  *)
Session == [at : 1..(Len(Statements) + 1), planned : BOOLEAN,
            doomed : SUBSET (1..MaxRow)]
FirstStatement == [at |-> 1, planned |-> FALSE, doomed |-> {}]

SchemaTypeOK ==
    /\ objects \subseteq Objects
    /\ rows \subseteq Row
    /\ lastRow \in 0..MaxRow
    /\ session \in [Processes -> Session]

(* Databases that a process may find: none of ours, or one of an older     *)
(* version, without the constraints and with the rows they now forbid.     *)
FreshDatabase == objects = {} /\ rows = {} /\ lastRow = 0
OldDatabase ==
    /\ objects = Relations \ {"uq_tracking_events_dedup"}
    /\ lastRow = 2
    /\ \E e \in Events :
          rows = {[id |-> 1, event |-> e, null |-> TRUE],
                  [id |-> 2, event |-> e, null |-> FALSE]}

SchemaInit ==
    /\ FreshDatabase \/ OldDatabase
    /\ session = [p \in Processes |-> FirstStatement]

Statement(p) == Statements[session[p].at]
HasMore(p)   == session[p].at <= Len(Statements)
Executed(p)  == [FirstStatement EXCEPT !.at = session[p].at + 1]

-----------------------------------------------------------------------------
(* CREATE ... IF NOT EXISTS                                                *)

(* The relation is there: nothing to do.                                   *)
SkipCreate(p) ==
    /\ HasMore(p) /\ Statement(p) \in Relations /\ ~session[p].planned
    /\ Statement(p) \in objects
    /\ session' = [session EXCEPT ![p] = Executed(p)]
    /\ UNCHANGED <<objects, rows, lastRow>>

(* It is not there when the catalogue is read.                             *)
PlanCreate(p) ==
    /\ HasMore(p) /\ Statement(p) \in Relations /\ ~session[p].planned
    /\ Statement(p) \notin objects
    /\ session' = [session EXCEPT ![p].planned = TRUE]
    /\ UNCHANGED <<objects, rows, lastRow>>

(* A row for an event that another row has, too.                           *)
Duplicated == \E r, s \in rows : r # s /\ r.event = s.event

(* Another session has created it since, or the rows contradict the index. *)
CreateFails(p) ==
    \/ Statement(p) \in objects
    \/ Statement(p) = "uq_tracking_events_dedup" /\ Duplicated

(* The table of today comes with the constraint.                           *)
Brings(s) == IF s = "tracking_events" THEN {s, "not_null"} ELSE {s}

Create(p) ==
    /\ HasMore(p) /\ Statement(p) \in Relations /\ session[p].planned
    /\ ~CreateFails(p)
    /\ objects' = objects \cup Brings(Statement(p))
    /\ session' = [session EXCEPT ![p] = Executed(p)]
    /\ UNCHANGED <<rows, lastRow>>

-----------------------------------------------------------------------------
(* Migrations of older data                                                *)

(* UPDATE tracking_events SET location = '' WHERE location IS NULL         *)
Fill(p) ==
    /\ HasMore(p) /\ Statement(p) = "fill"
    /\ rows' = {[r EXCEPT !.null = FALSE] : r \in rows}
    /\ session' = [session EXCEPT ![p] = Executed(p)]
    /\ UNCHANGED <<objects, lastRow>>

SomeNull == \E r \in rows : r.null

(* ALTER COLUMN ... SET NOT NULL, which scans the table.                   *)
SetNotNull(p) ==
    /\ HasMore(p) /\ Statement(p) = "not_null"
    /\ ~SomeNull
    /\ objects' = objects \cup {"not_null"}
    /\ session' = [session EXCEPT ![p] = Executed(p)]
    /\ UNCHANGED <<rows, lastRow>>

(* Wrong: ROW_NUMBER() without ORDER BY id: any copy may come first.       *)
SurplusOfAnyOrder ==
    {D \in SUBSET {r.id : r \in rows} :
        \A e \in Events : LET copies == {r.id : r \in {q \in rows : q.event = e}}
                          IN  copies # {} => Cardinality(copies \ D) = 1}

(* The ids with rn > 1: of the copies of an event all but the oldest.      *)
Surplus ==
    {{r.id : r \in {q \in rows : \E s \in rows :
                        s.event = q.event /\ s.id < q.id}}}

(* The DELETE reads its snapshot ...                                       *)
PlanDelete(p) ==
    /\ HasMore(p) /\ Statement(p) = "dedup" /\ ~session[p].planned
    /\ \E D \in Surplus :
          session' = [session EXCEPT ![p].planned = TRUE, ![p].doomed = D]
    /\ UNCHANGED <<objects, rows, lastRow>>

(* ... and removes what is left of it by then.                             *)
Delete(p) ==
    /\ HasMore(p) /\ Statement(p) = "dedup" /\ session[p].planned
    /\ rows' = {r \in rows : r.id \notin session[p].doomed}
    /\ session' = [session EXCEPT ![p] = Executed(p)]
    /\ UNCHANGED <<objects, lastRow>>

-----------------------------------------------------------------------------

StatementRuns(p) ==
    \/ SkipCreate(p) \/ PlanCreate(p) \/ Create(p)
    \/ Fill(p) \/ SetNotNull(p)
    \/ PlanDelete(p) \/ Delete(p)

(* The statement is refused by what the others have done meanwhile.        *)
Refused(p) ==
    /\ HasMore(p)
    /\ \/ Statement(p) \in Relations /\ session[p].planned /\ CreateFails(p)
       \/ Statement(p) = "not_null" /\ SomeNull

(* INSERT of an event: the constraints that exist decide.                  *)
Insertable(e, null) ==
    /\ "tracking_events" \in objects /\ lastRow < MaxRow
    /\ null => "not_null" \notin objects
    /\ "uq_tracking_events_dedup" \in objects => \A r \in rows : r.event # e

Insert(e, null) ==
    /\ Insertable(e, null)
    /\ lastRow' = lastRow + 1
    /\ rows' = rows \cup {[id |-> lastRow + 1, event |-> e, null |-> null]}
    /\ UNCHANGED <<objects, session>>

-----------------------------------------------------------------------------

(* "Enforce de-duplication of events", "remove existing duplicates": no    *)
(* start-up loses an event that was recorded, although several starters    *)
(* delete surplus copies from snapshots of their own, and restarts repeat  *)
(* the statements from the first.                                          *)
HistoryKept ==
    [][\A r \in rows : \E s \in rows' : s.event = r.event]_schemaVars

=============================================================================
