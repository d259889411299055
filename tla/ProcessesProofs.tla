---------------------------- MODULE ProcessesProofs ----------------------------
(* Proofs about Schema and Processes, for any number of starters, restarts *)
(* and events, and whatever else writes to the database meanwhile.         *)
EXTENDS Processes, FiniteSetTheorems, TLAPS

-----------------------------------------------------------------------------
(* The database as any of them leaves it.                                  *)

(* Ids are given out in order, each once; a DELETE has chosen among them.  *)
IdsInOrder ==
    /\ \A r \in rows : r.id <= lastRow
    /\ \A r, s \in rows : r.id = s.id => r = s
    /\ \A p \in Processes : \A i \in session[p].doomed : i <= lastRow

(* What exists holds: constraints, and no row without its table.           *)
ConstraintsHold ==
    /\ "uq_tracking_events_dedup" \in objects => ~Duplicated
    /\ "not_null" \in objects => ~SomeNull
    /\ "tracking_events" \notin objects => rows = {}

(* What a session has been through, nobody takes back.                     *)
DoneStays ==
    \A p \in Processes : \A k \in 1..Len(Statements) :
        k < session[p].at /\ Statements[k] \in Objects => Statements[k] \in objects

(* The oldest copy of an event: there is one, and no DELETE has chosen it, *)
(* however old its snapshot.                                               *)
Oldest(s) == \A r \in rows : r.event = s.event => s.id <= r.id

OldestSpared ==
    /\ \A r \in rows : \E s \in rows : s.event = r.event /\ Oldest(s)
    /\ \A s \in rows : Oldest(s) => \A p \in Processes : s.id \notin session[p].doomed

SchemaInv == SchemaTypeOK /\ IdsInOrder /\ ConstraintsHold /\ DoneStays /\ OldestSpared

LEMMA StatementsAre ==
    /\ Len(Statements) = 8
    /\ Objects = {Statements[k] : k \in {1, 2, 3, 4, 6, 8}}
    /\ {1, 2, 3, 4, 6, 8} \subseteq 1..Len(Statements)
BY DEF Statements, Objects, Relations

(* A session starts again, moves on, or has planned something.             *)
SessionGoes(p, x) ==
    /\ x \in Session
    /\ session' = [session EXCEPT ![p] = x]

(* What may happen to the schema and the events.                           *)
SchemaNext ==
    \/ \E p \in Processes : StatementRuns(p)
    \/ \E p \in Processes : /\ session' = [session EXCEPT ![p] = FirstStatement]
                            /\ UNCHANGED <<objects, rows, lastRow>>
    \/ \E e \in Events, null \in BOOLEAN : Insert(e, null)
    \/ UNCHANGED schemaVars

LEMMA SchemaSteps == [Next]_vars => SchemaNext
<1> SUFFICES ASSUME [Next]_vars PROVE SchemaNext
  OBVIOUS
<1> USE DEF SchemaNext, schemaVars
<1>1. CASE UNCHANGED vars
  BY <1>1 DEF vars
<1>2. CASE \E e \in Events : OlderWriter(e)
  BY <1>2 DEF OlderWriter
<1>3. CASE OlderStops
  BY <1>3 DEF OlderStops
<1>4. ASSUME NEW p \in Processes, ProcessStep(p) PROVE SchemaNext
  <2>1. CASE Start(p)
    BY <2>1 DEF Start
  <2>2. CASE Boot(p)
    BY <2>2 DEF Boot
  <2>3. CASE BootFails(p)
    <3>1. \/ session' = session
          \/ session' = [session EXCEPT ![p] = FirstStatement]
      BY <2>3 DEF BootFails, AttemptFailed
    <3>2. QED BY <2>3, <3>1 DEF BootFails
  <2>4. CASE Listen(p) \/ ListenFails(p) \/ Signal(p) \/ Crash(p)
    BY <2>4 DEF Listen, ListenFails, Signal, Crash
  <2>5. CASE HandlerStarts(p) \/ HandlerEnds(p)
    BY <2>5 DEF HandlerStarts, HandlerEnds
  <2>6. CASE \E e \in Events : HandlerApplies(p, e)
    BY <2>6 DEF HandlerApplies
  <2>7. CASE \E c \in Calls : \/ Accept(p, c) \/ Acquire(p, c)
                              \/ CallCommits(p, c) \/ CallAnswers(p, c) \/ CallFails(p, c)
    BY <2>7 DEF Accept, Acquire, CallCommits, CallAnswers, CallFails, CallMoves
  <2>8. CASE RunReturns(p) \/ CloseConsumer(p) \/ CloseDB(p) \/ ServerStops(p)
    BY <2>8 DEF RunReturns, CloseConsumer, CloseDB, ServerStops, GracefulStop, Stop
  <2>9. QED
    BY <1>4, <2>1, <2>2, <2>3, <2>4, <2>5, <2>6, <2>7, <2>8 DEF ProcessStep
<1>5. QED BY <1>1, <1>2, <1>3, <1>4 DEF Next

-----------------------------------------------------------------------------
(* Statements and inserts keep SchemaInv.                                  *)

LEMMA SessionTypes ==
    ASSUME SchemaInv, NEW p \in Processes
    PROVE  /\ session \in [Processes -> Session]
           /\ session[p].at \in 1..9 /\ session[p].doomed \subseteq 1..MaxRow
           /\ FirstStatement \in Session /\ FirstStatement.at = 1
           /\ FirstStatement.doomed = {}
           /\ HasMore(p) => /\ session[p].at \in 1..Len(Statements)
                            /\ Executed(p) \in Session
                            /\ Executed(p).at = session[p].at + 1
                            /\ Executed(p).doomed = {}
<1>1. session \in [Processes -> Session] /\ Len(Statements) = 8
  BY StatementsAre DEF SchemaInv, SchemaTypeOK
<1>2. session[p].at \in 1..9 /\ session[p].doomed \subseteq 1..MaxRow
  BY <1>1 DEF Session
<1>3. ASSUME NEW i \in 1..9
      PROVE  /\ [FirstStatement EXCEPT !.at = i] \in Session
             /\ [FirstStatement EXCEPT !.at = i].at = i
             /\ [FirstStatement EXCEPT !.at = i].doomed = {}
  <2>1. \A x \in Session : /\ [x EXCEPT !.at = i] \in Session
                           /\ [x EXCEPT !.at = i].at = i
                           /\ [x EXCEPT !.at = i].doomed = x.doomed
    BY <1>1 DEF Session
  <2>2. FirstStatement \in Session /\ FirstStatement.doomed = {}
    BY <1>1 DEF FirstStatement, Session
  <2>3. QED BY <2>1, <2>2
<1>4. /\ FirstStatement \in Session /\ FirstStatement.at = 1
      /\ FirstStatement.doomed = {}
  BY <1>1 DEF FirstStatement, Session
<1>5. ASSUME HasMore(p)
      PROVE  session[p].at \in 1..Len(Statements) /\ session[p].at + 1 \in 1..9
  BY <1>1, <1>2, <1>5 DEF HasMore
<1>6. QED BY <1>1, <1>2, <1>3, <1>4, <1>5 DEF Executed

(* A session that moves on leaves done what it has done.                   *)
LEMMA DoneKept ==
    ASSUME SchemaInv, NEW p \in Processes, NEW x \in Session,
           session' = [session EXCEPT ![p] = x], objects \subseteq objects',
           \/ x.at <= session[p].at
           \/ /\ HasMore(p) /\ x.at = session[p].at + 1
              /\ Statement(p) \in Objects => Statement(p) \in objects'
    PROVE  DoneStays'
<1> SUFFICES ASSUME NEW q \in Processes, NEW k \in 1..Len(Statements),
                    k < session'[q].at, Statements[k] \in Objects
             PROVE  Statements[k] \in objects'
  BY DEF DoneStays
<1>1. CASE k < session[q].at
  BY <1>1 DEF SchemaInv, DoneStays
<1>2. CASE ~(k < session[q].at)
  <2>1. q = p /\ session'[q] = x
    BY <1>2, SessionTypes
  <2>2. k = session[p].at /\ Statement(p) = Statements[k]
    BY <1>2, <2>1, SessionTypes, StatementsAre DEF Session, Statement
  <2>3. QED BY <1>2, <2>1, <2>2, SessionTypes, StatementsAre DEF Session
<1>3. QED BY <1>1, <1>2

(* Fewer doomed, and the same copies.                                      *)
LEMMA SessionMovesKeepSchema ==
    ASSUME SchemaInv, NEW p \in Processes, NEW x \in Session,
           session' = [session EXCEPT ![p] = x],
           UNCHANGED <<objects, rows, lastRow>>,
           \A i \in x.doomed : i <= lastRow,
           \A s \in rows : Oldest(s) => s.id \notin x.doomed,
           \/ x.at <= session[p].at
           \/ /\ HasMore(p) /\ x.at = session[p].at + 1
              /\ Statement(p) \in Objects => Statement(p) \in objects
    PROVE  SchemaInv'
<1>1. session' \in [Processes -> Session] /\ session'[p] = x
      /\ \A q \in Processes \ {p} : session'[q] = session[q]
  BY SessionTypes
<1>2. SchemaTypeOK' /\ IdsInOrder'
  BY <1>1 DEF SchemaInv, SchemaTypeOK, IdsInOrder
<1>3. ConstraintsHold'
  BY DEF SchemaInv, ConstraintsHold, Duplicated, SomeNull
<1>4. DoneStays'
  BY DoneKept
<1>5. OldestSpared'
  BY <1>1 DEF SchemaInv, OldestSpared, Oldest
<1>6. QED BY <1>2, <1>3, <1>4, <1>5 DEF SchemaInv

LEMMA FirstStatementKeepsSchema ==
    ASSUME SchemaInv, NEW p \in Processes,
           session' = [session EXCEPT ![p] = FirstStatement],
           UNCHANGED <<objects, rows, lastRow>>
    PROVE  SchemaInv'
<1>1. /\ FirstStatement \in Session /\ FirstStatement.at <= session[p].at
      /\ FirstStatement.doomed = {}
  BY SessionTypes
<1>2. QED BY <1>1, SessionMovesKeepSchema

LEMMA SkipCreateKeepsSchema ==
    ASSUME SchemaInv, NEW p \in Processes, SkipCreate(p)
    PROVE  SchemaInv'
BY SessionTypes, SessionMovesKeepSchema DEF SkipCreate

LEMMA PlannedType ==
    ASSUME SchemaInv, NEW p \in Processes, NEW D \in SUBSET (1..MaxRow)
    PROVE  /\ [session[p] EXCEPT !.planned = TRUE, !.doomed = D] \in Session
           /\ [session[p] EXCEPT !.planned = TRUE, !.doomed = D].at = session[p].at
           /\ [session[p] EXCEPT !.planned = TRUE, !.doomed = D].doomed = D
           /\ [session[p] EXCEPT !.planned = TRUE] \in Session
           /\ [session[p] EXCEPT !.planned = TRUE].at = session[p].at
           /\ [session[p] EXCEPT !.planned = TRUE].doomed = session[p].doomed
BY SessionTypes DEF Session

LEMMA PlanCreateKeepsSchema ==
    ASSUME SchemaInv, NEW p \in Processes, PlanCreate(p)
    PROVE  SchemaInv'
<1> DEFINE x == [session[p] EXCEPT !.planned = TRUE]
<1>1. session' = [session EXCEPT ![p] = x] /\ UNCHANGED <<objects, rows, lastRow>>
  BY SessionTypes DEF PlanCreate
<1>2. x \in Session /\ x.at = session[p].at /\ x.doomed = session[p].doomed
  BY PlannedType
<1> HIDE DEF x
<1>3. /\ \A i \in x.doomed : i <= lastRow
      /\ \A s \in rows : Oldest(s) => s.id \notin x.doomed
  BY <1>2 DEF SchemaInv, IdsInOrder, OldestSpared
<1>4. x.at <= session[p].at
  BY <1>2, SessionTypes
<1>5. QED BY <1>1, <1>2, <1>3, <1>4, SessionMovesKeepSchema

(* A copy with an older one besides is chosen, the oldest is not.          *)
LEMMA PlanDeleteKeepsSchema ==
    ASSUME SchemaInv, NEW p \in Processes, PlanDelete(p)
    PROVE  SchemaInv'
<1>1. PICK D \in Surplus :
         session' = [session EXCEPT ![p].planned = TRUE, ![p].doomed = D]
  BY DEF PlanDelete
<1> DEFINE x == [session[p] EXCEPT !.planned = TRUE, !.doomed = D]
<1>2. D = {r.id : r \in {q \in rows : \E s \in rows :
                           s.event = q.event /\ s.id < q.id}}
  BY DEF Surplus
<1>3. D \in SUBSET (1..MaxRow) /\ \A i \in D : i <= lastRow
  BY <1>2 DEF SchemaInv, SchemaTypeOK, IdsInOrder, Row
<1>4. session' = [session EXCEPT ![p] = x] /\ UNCHANGED <<objects, rows, lastRow>>
  BY <1>1, SessionTypes DEF PlanDelete
<1>5. x \in Session /\ x.at = session[p].at /\ x.doomed = D
  BY <1>3, PlannedType
<1> HIDE DEF x
<1>6. ASSUME NEW s \in rows, Oldest(s) PROVE s.id \notin x.doomed
  <2> SUFFICES ASSUME s.id \in D PROVE FALSE
    BY <1>5
  <2>1. PICK q \in rows : q.id = s.id /\ \E t \in rows : t.event = q.event /\ t.id < q.id
    BY <1>2
  <2>2. q = s
    BY <2>1 DEF SchemaInv, IdsInOrder
  <2>3. PICK t \in rows : t.event = s.event /\ t.id < s.id
    BY <2>1, <2>2
  <2>4. t.id \in Nat /\ s.id \in Nat
    BY DEF SchemaInv, SchemaTypeOK, Row
  <2>5. QED BY <1>6, <2>3, <2>4 DEF Oldest
<1>7. x.at <= session[p].at
  BY <1>5, SessionTypes
<1>8. QED BY <1>3, <1>4, <1>5, <1>6, <1>7, SessionMovesKeepSchema

(* Statements that change the database.                                    *)

LEMMA ExecutedKeepsSchema ==
    ASSUME SchemaInv, NEW p \in Processes, HasMore(p),
           session' = [session EXCEPT ![p] = Executed(p)],
           objects \subseteq objects', objects' \subseteq Objects,
           Statement(p) \in Objects => Statement(p) \in objects',
           UNCHANGED <<rows, lastRow>>, ConstraintsHold'
    PROVE  SchemaInv'
<1>1. /\ Executed(p) \in Session /\ Executed(p).at = session[p].at + 1
      /\ Executed(p).doomed = {} /\ session \in [Processes -> Session]
  BY SessionTypes
<1>2. session' \in [Processes -> Session] /\ session'[p] = Executed(p)
      /\ \A q \in Processes \ {p} : session'[q] = session[q]
  BY <1>1
<1>3. SchemaTypeOK'
  BY <1>2 DEF SchemaInv, SchemaTypeOK
<1>4. IdsInOrder'
  BY <1>1, <1>2 DEF SchemaInv, IdsInOrder
<1>5. DoneStays'
  BY <1>1, DoneKept
<1>6. OldestSpared'
  BY <1>1, <1>2 DEF SchemaInv, OldestSpared, Oldest
<1>7. QED BY <1>3, <1>4, <1>5, <1>6 DEF SchemaInv

LEMMA CreateKeepsSchema ==
    ASSUME SchemaInv, NEW p \in Processes, Create(p)
    PROVE  SchemaInv'
<1>1. /\ HasMore(p) /\ Statement(p) \in Relations /\ ~CreateFails(p)
      /\ objects' = objects \cup Brings(Statement(p))
      /\ session' = [session EXCEPT ![p] = Executed(p)]
      /\ UNCHANGED <<rows, lastRow>>
  BY DEF Create
<1>2. /\ Statement(p) \in Brings(Statement(p))
      /\ Brings(Statement(p)) \subseteq Objects
  BY <1>1 DEF Brings, Objects
<1>3. objects' \subseteq Objects
  BY <1>1, <1>2 DEF SchemaInv, SchemaTypeOK
<1>4. ConstraintsHold'
  <2>1. "uq_tracking_events_dedup" \in objects' => ~Duplicated
    BY <1>1 DEF Brings, CreateFails, SchemaInv, ConstraintsHold
  <2>2. "not_null" \in objects' => ~SomeNull
    <3>1. CASE Statement(p) = "tracking_events"
      <4>1. rows = {}
        BY <1>1, <3>1 DEF CreateFails, SchemaInv, ConstraintsHold
      <4>2. QED BY <4>1 DEF SomeNull
    <3>2. CASE Statement(p) # "tracking_events"
      BY <1>1, <3>2 DEF Brings, Relations, SchemaInv, ConstraintsHold
    <3>3. QED BY <3>1, <3>2
  <2>3. "tracking_events" \notin objects' => rows = {}
    BY <1>1 DEF SchemaInv, ConstraintsHold
  <2>4. Duplicated' = Duplicated /\ SomeNull' = SomeNull
    BY <1>1 DEF Duplicated, SomeNull
  <2>5. QED BY <1>1, <2>1, <2>2, <2>3, <2>4 DEF ConstraintsHold
<1>5. QED BY <1>1, <1>2, <1>3, <1>4, ExecutedKeepsSchema

LEMMA SetNotNullKeepsSchema ==
    ASSUME SchemaInv, NEW p \in Processes, SetNotNull(p)
    PROVE  SchemaInv'
<1>1. /\ HasMore(p) /\ Statement(p) = "not_null" /\ ~SomeNull
      /\ objects' = objects \cup {"not_null"}
      /\ session' = [session EXCEPT ![p] = Executed(p)]
      /\ UNCHANGED <<rows, lastRow>>
  BY DEF SetNotNull
<1>2. ConstraintsHold'
  BY <1>1 DEF SchemaInv, ConstraintsHold, Duplicated, SomeNull
<1>3. objects' \subseteq Objects
  BY <1>1 DEF SchemaInv, SchemaTypeOK, Objects
<1>4. QED BY <1>1, <1>2, <1>3, ExecutedKeepsSchema

LEMMA FillKeepsSchema ==
    ASSUME SchemaInv, NEW p \in Processes, Fill(p)
    PROVE  SchemaInv'
<1> DEFINE filled(r) == [r EXCEPT !.null = FALSE]
<1>1. /\ HasMore(p) /\ Statement(p) = "fill" /\ rows' = {filled(r) : r \in rows}
      /\ session' = [session EXCEPT ![p] = Executed(p)]
      /\ UNCHANGED <<objects, lastRow>>
  BY DEF Fill
<1>2. \A r \in rows : /\ filled(r) \in Row /\ filled(r).id = r.id
                      /\ filled(r).event = r.event /\ filled(r).null = FALSE
  BY DEF SchemaInv, SchemaTypeOK, Row
<1> HIDE DEF filled
<1>3. /\ Executed(p) \in Session /\ Executed(p).at = session[p].at + 1
      /\ Executed(p).doomed = {} /\ session \in [Processes -> Session]
  BY <1>1, SessionTypes
<1>4. session' \in [Processes -> Session] /\ session'[p] = Executed(p)
      /\ \A q \in Processes \ {p} : session'[q] = session[q]
  BY <1>1, <1>3
<1>5. SchemaTypeOK'
  BY <1>1, <1>2, <1>4 DEF SchemaInv, SchemaTypeOK
<1>6. IdsInOrder'
  BY <1>1, <1>2, <1>3, <1>4 DEF SchemaInv, IdsInOrder
<1>7. ConstraintsHold'
  BY <1>1, <1>2 DEF SchemaInv, ConstraintsHold, Duplicated, SomeNull
<1>8. DoneStays'
  <2>1. Statement(p) \notin Objects
    BY <1>1 DEF Objects, Relations
  <2>2. QED BY <1>1, <1>3, <2>1, DoneKept
<1>9. OldestSpared'
  <2>1. \A s \in rows : Oldest(s) => Oldest(filled(s))'
    BY <1>1, <1>2 DEF Oldest
  <2>2. \A s \in rows : Oldest(filled(s))' => Oldest(s)
    BY <1>1, <1>2 DEF Oldest
  <2>3. \A s \in rows : Oldest(s) => \A q \in Processes : s.id \notin session'[q].doomed
    BY <1>3, <1>4 DEF SchemaInv, OldestSpared
  <2>4. QED BY <1>1, <1>2, <2>1, <2>2, <2>3 DEF SchemaInv, OldestSpared
<1>10. QED BY <1>5, <1>6, <1>7, <1>8, <1>9 DEF SchemaInv

(* Only copies with an older one go, and the oldest stays the oldest.      *)
LEMMA DeleteKeepsSchema ==
    ASSUME SchemaInv, NEW p \in Processes, Delete(p)
    PROVE  SchemaInv'
<1>1. /\ HasMore(p) /\ Statement(p) = "dedup"
      /\ rows' = {r \in rows : r.id \notin session[p].doomed}
      /\ session' = [session EXCEPT ![p] = Executed(p)]
      /\ UNCHANGED <<objects, lastRow>>
  BY DEF Delete
<1>2. /\ Executed(p) \in Session /\ Executed(p).at = session[p].at + 1
      /\ Executed(p).doomed = {} /\ session \in [Processes -> Session]
  BY <1>1, SessionTypes
<1>3. session' \in [Processes -> Session] /\ session'[p] = Executed(p)
      /\ \A q \in Processes \ {p} : session'[q] = session[q]
  BY <1>1, <1>2
<1>4. SchemaTypeOK'
  BY <1>1, <1>3 DEF SchemaInv, SchemaTypeOK
<1>5. IdsInOrder'
  BY <1>1, <1>2, <1>3 DEF SchemaInv, IdsInOrder
<1>6. ConstraintsHold'
  BY <1>1 DEF SchemaInv, ConstraintsHold, Duplicated, SomeNull
<1>7. DoneStays'
  <2>1. Statement(p) \notin Objects
    BY <1>1 DEF Objects, Relations
  <2>2. QED BY <1>1, <1>2, <2>1, DoneKept
<1>8. OldestSpared'
  <2>1. ASSUME NEW r \in rows
        PROVE  \E s \in rows' : s \in rows /\ s.event = r.event /\ Oldest(s)
    <3>1. PICK s \in rows : s.event = r.event /\ Oldest(s)
      BY DEF SchemaInv, OldestSpared
    <3>2. s \in rows'
      BY <1>1, <3>1 DEF SchemaInv, OldestSpared
    <3>3. QED BY <3>1, <3>2
  <2>2. \A s \in rows' : s \in rows /\ (Oldest(s) => Oldest(s)')
    BY <1>1 DEF Oldest
  <2>3. ASSUME NEW s \in rows', Oldest(s)'
        PROVE  Oldest(s)
    <3>1. PICK t \in rows' : t \in rows /\ t.event = s.event /\ Oldest(t)
      BY <2>1, <2>2
    <3>2. s.id <= t.id /\ t.id \in Nat /\ s.id \in Nat
      BY <2>2, <2>3, <3>1 DEF Oldest, SchemaInv, SchemaTypeOK, Row
    <3>3. \A r \in rows : r.event = s.event => s.id <= r.id
      BY <3>1, <3>2 DEF Oldest, SchemaInv, SchemaTypeOK, Row
    <3>4. QED BY <3>3 DEF Oldest
  <2>4. \A s \in rows : Oldest(s) => \A q \in Processes : s.id \notin session'[q].doomed
    BY <1>2, <1>3 DEF SchemaInv, OldestSpared
  <2>5. QED BY <2>1, <2>2, <2>3, <2>4 DEF OldestSpared
<1>9. QED BY <1>4, <1>5, <1>6, <1>7, <1>8 DEF SchemaInv

LEMMA InsertKeepsSchema ==
    ASSUME SchemaInv, NEW e \in Events, NEW null \in BOOLEAN, Insert(e, null)
    PROVE  SchemaInv'
<1> DEFINE n == [id |-> lastRow + 1, event |-> e, null |-> null]
<1>1. /\ Insertable(e, null) /\ lastRow' = lastRow + 1
      /\ rows' = rows \cup {n} /\ UNCHANGED <<objects, session>>
  BY DEF Insert
<1>2. n.id = lastRow + 1 /\ n.event = e /\ n.null = null
  OBVIOUS
<1>3. n \in Row /\ lastRow \in Nat /\ lastRow + 1 \in 1..MaxRow
  BY <1>1, RowAssumption DEF Insertable, SchemaInv, SchemaTypeOK, Row
<1> HIDE DEF n
<1>4. SchemaTypeOK'
  BY <1>1, <1>3 DEF SchemaInv, SchemaTypeOK
<1>5. \A r \in rows : r.id \in Nat /\ r.id < n.id
  BY <1>2, <1>3 DEF SchemaInv, SchemaTypeOK, IdsInOrder, Row
<1>6. IdsInOrder'
  <2>1. \A r \in rows' : r.id <= lastRow'
    BY <1>1, <1>2, <1>3, <1>5
  <2>2. \A r, s \in rows' : r.id = s.id => r = s
    BY <1>1, <1>5 DEF SchemaInv, IdsInOrder
  <2>3. ASSUME NEW p \in Processes, NEW i \in session'[p].doomed PROVE i <= lastRow'
    <3>1. i \in 1..MaxRow /\ i <= lastRow
      BY <1>1, <2>3, SessionTypes DEF SchemaInv, IdsInOrder
    <3>2. QED BY <1>1, <1>3, <3>1
  <2>4. QED BY <2>1, <2>2, <2>3 DEF IdsInOrder
<1>7. ConstraintsHold'
  <2>1. "uq_tracking_events_dedup" \in objects' => ~Duplicated'
    BY <1>1, <1>2 DEF Insertable, SchemaInv, ConstraintsHold, Duplicated
  <2>2. "not_null" \in objects' => ~SomeNull'
    BY <1>1, <1>2 DEF Insertable, SchemaInv, ConstraintsHold, SomeNull
  <2>3. QED BY <1>1, <2>1, <2>2 DEF Insertable, ConstraintsHold
<1>8. DoneStays'
  BY <1>1 DEF SchemaInv, DoneStays
<1>9. OldestSpared'
  <2>1. ASSUME NEW s \in rows, Oldest(s) PROVE Oldest(s)'
    <3>1. s.id <= n.id
      BY <1>3, <1>5 DEF Row
    <3>2. QED BY <1>1, <2>1, <3>1 DEF Oldest
  <2>2. ASSUME NEW s \in rows', Oldest(s)' PROVE Oldest(s)
    BY <1>1, <2>2 DEF Oldest
  <2>3. ASSUME NEW r \in rows' PROVE \E s \in rows' : s.event = r.event /\ Oldest(s)'
    <3>1. CASE \E q \in rows : q.event = r.event
      BY <1>1, <2>1, <3>1 DEF SchemaInv, OldestSpared
    <3>2. CASE ~ \E q \in rows : q.event = r.event
      <4>1. r = n /\ \A q \in rows' : q.event = r.event => q = n
        BY <1>1, <3>2
      <4>2. n.id <= n.id
        BY <1>2, <1>3
      <4>3. QED BY <4>1, <4>2 DEF Oldest
    <3>3. QED BY <3>1, <3>2
  <2>4. ASSUME NEW p \in Processes PROVE n.id \notin session[p].doomed
    <3>1. \A i \in session[p].doomed : i \in 1..MaxRow /\ i <= lastRow
      BY SessionTypes DEF SchemaInv, IdsInOrder
    <3>2. QED BY <1>2, <1>3, <3>1
  <2>5. QED BY <1>1, <2>2, <2>3, <2>4 DEF SchemaInv, OldestSpared
<1>10. QED BY <1>4, <1>6, <1>7, <1>8, <1>9 DEF SchemaInv

LEMMA SchemaInvPreserved == SchemaInv /\ [Next]_vars => SchemaInv'
<1> SUFFICES ASSUME SchemaInv, SchemaNext PROVE SchemaInv'
  BY SchemaSteps
<1>1. ASSUME NEW p \in Processes, StatementRuns(p) PROVE SchemaInv'
  BY <1>1, SkipCreateKeepsSchema, PlanCreateKeepsSchema, CreateKeepsSchema,
     FillKeepsSchema, SetNotNullKeepsSchema, PlanDeleteKeepsSchema, DeleteKeepsSchema
     DEF StatementRuns
<1>2. CASE UNCHANGED schemaVars
  BY <1>2 DEF schemaVars, SchemaInv, SchemaTypeOK, IdsInOrder, ConstraintsHold,
              Duplicated, SomeNull, DoneStays, OldestSpared, Oldest
<1>3. QED
  BY <1>1, <1>2, FirstStatementKeepsSchema, InsertKeepsSchema DEF SchemaNext

LEMMA SchemaInvInitial == Init => SchemaInv
<1> SUFFICES ASSUME SchemaInit PROVE SchemaInv
  BY DEF Init
<1>1. \A p \in Processes : session[p] = FirstStatement
  BY DEF SchemaInit
<1>2. FirstStatement \in Session /\ FirstStatement.at = 1 /\ FirstStatement.doomed = {}
  BY StatementsAre DEF FirstStatement, Session
<1>3. session \in [Processes -> Session]
  BY <1>2 DEF SchemaInit
<1>4. DoneStays
  BY <1>1, <1>2, StatementsAre DEF DoneStays
<1>5. CASE FreshDatabase
  BY <1>1, <1>2, <1>3, <1>4, <1>5, RowAssumption
     DEF FreshDatabase, SchemaInv, SchemaTypeOK, IdsInOrder, ConstraintsHold,
         Duplicated, SomeNull, OldestSpared
<1>6. CASE OldDatabase
  <2>1. PICK e \in Events :
           rows = {[id |-> 1, event |-> e, null |-> TRUE],
                   [id |-> 2, event |-> e, null |-> FALSE]}
    BY <1>6 DEF OldDatabase
  <2>2. objects = Relations \ {"uq_tracking_events_dedup"} /\ lastRow = 2
    BY <1>6 DEF OldDatabase
  <2>3. SchemaTypeOK
    <3>1. 1 \in 1..MaxRow /\ 2 \in 1..MaxRow /\ 2 \in 0..MaxRow
      BY RowAssumption
    <3>2. rows \subseteq Row
      BY <2>1, <3>1 DEF Row
    <3>3. QED BY <1>3, <2>2, <3>1, <3>2 DEF SchemaTypeOK, Objects
  <2>4. IdsInOrder
    BY <1>1, <1>2, <2>1, <2>2 DEF IdsInOrder
  <2>5. ConstraintsHold
    BY <2>2 DEF ConstraintsHold, Relations
  <2>6. OldestSpared
    <3>1. Oldest([id |-> 1, event |-> e, null |-> TRUE])
      BY <2>1 DEF Oldest
    <3>2. QED BY <1>1, <1>2, <2>1, <3>1 DEF OldestSpared
  <2>7. QED BY <1>4, <2>3, <2>4, <2>5, <2>6 DEF SchemaInv
<1>7. QED BY <1>5, <1>6 DEF SchemaInit

LEMMA SchemaInvCorrect == Spec => []SchemaInv
BY SchemaInvInitial, SchemaInvPreserved, PTL DEF Spec

(* No start loses history: of the copies of an event that several starters *)
(* choose from snapshots of their own, the oldest is in none of them       *)
(* (schema.go:31-60).                                                      *)
THEOREM StartsKeepHistory == Spec => HistoryKept
<1>1. SchemaInv /\ [Next]_vars =>
         [\A r \in rows : \E s \in rows' : s.event = r.event]_schemaVars
  <2> SUFFICES ASSUME SchemaInv, SchemaNext, NEW r \in rows
               PROVE  \E s \in rows' : s.event = r.event
    BY SchemaSteps
  <2>1. ASSUME NEW p \in Processes, StatementRuns(p)
        PROVE  \E s \in rows' : s.event = r.event
    <3>1. CASE Fill(p)
      <4>1. [r EXCEPT !.null = FALSE].event = r.event
        BY DEF SchemaInv, SchemaTypeOK, Row
      <4>2. [r EXCEPT !.null = FALSE] \in rows'
        BY <3>1 DEF Fill
      <4>3. QED BY <4>1, <4>2
    <3>2. CASE Delete(p)
      <4>1. PICK s \in rows : s.event = r.event /\ s.id \notin session[p].doomed
        BY DEF SchemaInv, OldestSpared
      <4>2. QED BY <3>2, <4>1 DEF Delete
    <3>3. CASE ~Fill(p) /\ ~Delete(p)
      <4>1. rows' = rows
        BY <2>1, <3>3 DEF StatementRuns, SkipCreate, PlanCreate, Create, SetNotNull,
                          PlanDelete
      <4>2. QED BY <4>1
    <3>4. QED BY <3>1, <3>2, <3>3
  <2>2. CASE \E e \in Events, null \in BOOLEAN : Insert(e, null)
    BY <2>2 DEF Insert
  <2>3. CASE rows' = rows
    BY <2>3
  <2>4. QED BY <2>1, <2>2, <2>3 DEF SchemaNext, schemaVars
<1>2. QED BY <1>1, SchemaInvCorrect, PTL DEF Spec, HistoryKept

-----------------------------------------------------------------------------
(* The processes.                                                          *)

(* Whoever boots has an attempt left, and whoever serves has been through  *)
(* all statements.                                                         *)
ProcessInv ==
    /\ SchemaInv /\ TypeOK
    /\ \A p \in Processes : At(p, "booting") => process[p].left # 0
    /\ \A p \in Processes : At(p, "serving") => objects = Objects

(* How main of one process goes on.                                        *)
GoesOn(p, x) ==
    /\ x \in Process
    /\ x.pc = "booting" => x.left # 0
    /\ x.pc = "serving" => \/ process[p].pc = "serving"
                           \/ process[p].pc = "booting" /\ ~HasMore(p)
    /\ process' = [process EXCEPT ![p] = x]

OthersTyped ==
    /\ server' \in [Processes -> {"off", "accepting", "draining", "stopped"}]
    /\ call' \in [Processes -> [Calls -> Call]]
    /\ handler' \in [Processes -> {"off", "idle", "busy"}]

LEMMA ProcessFields ==
    ASSUME NEW x \in Process
    PROVE  /\ \A pc \in {"off", "booting", "serving", "closing", "closingDB"} :
                 /\ [x EXCEPT !.pc = pc] \in Process
                 /\ [x EXCEPT !.pc = pc].pc = pc /\ [x EXCEPT !.pc = pc].left = x.left
           /\ \A l \in 0..Tries : /\ [x EXCEPT !.left = l] \in Process
                                  /\ [x EXCEPT !.left = l].left = l
                                  /\ [x EXCEPT !.left = l].pc = x.pc
           /\ \A b \in BOOLEAN :
                 /\ [x EXCEPT !.outage = b] \in Process
                 /\ [x EXCEPT !.outage = b].left = x.left /\ [x EXCEPT !.outage = b].pc = x.pc
                 /\ [x EXCEPT !.signalled = b] \in Process
                 /\ [x EXCEPT !.signalled = b].left = x.left
                 /\ [x EXCEPT !.signalled = b].pc = x.pc
                 /\ [x EXCEPT !.gaveUp = b] \in Process
                 /\ [x EXCEPT !.gaveUp = b].pc = x.pc
           /\ x.outage \in BOOLEAN /\ x.signalled \in BOOLEAN /\ x.left \in 0..Tries
           /\ x.pc \in {"off", "booting", "serving", "closing", "closingDB"}
BY DEF Process

LEMMA OffType ==
    /\ Off \in Process /\ Off.pc = "off"
    /\ \A p \in Processes : GoesOn(p, Off) <=> process' = [process EXCEPT ![p] = Off]
BY ProcessesAssumption DEF Off, Process, GoesOn

LEMMA NowTyped ==
    ASSUME ProcessInv, NEW p \in Processes
    PROVE  /\ process[p] \in Process /\ process \in [Processes -> Process]
           /\ server \in [Processes -> {"off", "accepting", "draining", "stopped"}]
           /\ call \in [Processes -> [Calls -> Call]]
           /\ handler \in [Processes -> {"off", "idle", "busy"}]
           /\ process[p].pc = "booting" => process[p].left # 0
BY DEF ProcessInv, TypeOK, At

LEMMA NothingGoesOn ==
    ASSUME ProcessInv, NEW p \in Processes, process' = process
    PROVE  GoesOn(p, process[p])
<1>1. process = [process EXCEPT ![p] = process[p]]
  BY NowTyped
<1>2. QED BY <1>1, NowTyped DEF GoesOn

LEMMA GoneTyped ==
    ASSUME ProcessInv, NEW p \in Processes, NEW x, Gone(p, x)
    PROVE  OthersTyped
<1>1. NoCalls \in [Calls -> Call]
  BY DEF NoCalls, Call
<1>2. QED BY <1>1, NowTyped DEF Gone, OthersTyped

LEMMA StartGoesOn ==
    ASSUME ProcessInv, NEW p \in Processes, Start(p)
    PROVE  (\E x : GoesOn(p, x)) /\ OthersTyped
<1> DEFINE x == [Off EXCEPT !.pc = "booting", !.left = Tries]
<1>1. x \in Process /\ x.pc = "booting" /\ x.left = Tries
  <2>1. Tries \in 0..Tries
    BY ProcessesAssumption
  <2>2. \A y \in Process :
           /\ [y EXCEPT !.pc = "booting", !.left = Tries] \in Process
           /\ [y EXCEPT !.pc = "booting", !.left = Tries].pc = "booting"
           /\ [y EXCEPT !.pc = "booting", !.left = Tries].left = Tries
    BY <2>1 DEF Process
  <2>3. Off \in Process
    BY OffType
  <2>4. QED BY <2>2, <2>3
<1>2. process' = [process EXCEPT ![p] = x] /\ UNCHANGED <<server, call, handler>>
  BY DEF Start
<1> HIDE DEF x
<1>3. GoesOn(p, x)
  BY <1>1, <1>2, ProcessesAssumption DEF GoesOn
<1>4. QED BY <1>2, <1>3, NowTyped DEF OthersTyped

LEMMA BootFailsGoesOn ==
    ASSUME ProcessInv, NEW p \in Processes, BootFails(p)
    PROVE  (\E x : GoesOn(p, x)) /\ OthersTyped
<1>1. process[p].pc = "booting" /\ process[p].left # 0
  BY NowTyped DEF BootFails, At
<1>2. PICK outage \in BOOLEAN : \E l \in Remaining(p, outage) :
         AttemptFailed(p, [process[p] EXCEPT !.left = l, !.outage = outage])
  <2>1. PICK away \in BOOLEAN :
           \E l \in Remaining(p, process[p].outage \/ away) :
              AttemptFailed(p, [process[p] EXCEPT !.left = l,
                                                  !.outage = process[p].outage \/ away])
    BY DEF BootFails
  <2>2. (process[p].outage \/ away) \in BOOLEAN
    OBVIOUS
  <2>3. QED BY <2>1, <2>2
<1>3. PICK l \in 0..Tries :
         AttemptFailed(p, [process[p] EXCEPT !.left = l, !.outage = outage])
  <2>1. process[p].left \in 0..Tries /\ Tries \in Nat
    BY NowTyped, ProcessFields, ProcessesAssumption
  <2>2. process[p].left - 1 \in 0..Tries /\ {0, Tries} \subseteq 0..Tries
    BY <1>1, <2>1
  <2>3. Remaining(p, outage) \subseteq 0..Tries
    BY <2>2 DEF Remaining
  <2>4. QED BY <1>2, <2>3
<1> DEFINE q == [process[p] EXCEPT !.left = l, !.outage = outage]
           off == [Off EXCEPT !.outage = q.outage, !.gaveUp = TRUE]
<1>4. q \in Process /\ q.pc = "booting" /\ q.left = l /\ q.outage = outage
  BY <1>1, <1>3, NowTyped DEF Process
<1>5. AttemptFailed(p, q)
  BY <1>3
<1> HIDE DEF q
<1>6. off \in Process /\ off.pc = "off"
  BY <1>4, OffType DEF Process
<1>7. CASE q.left = 0
  <2>1. Gone(p, off)
    BY <1>5, <1>7 DEF AttemptFailed
  <2> HIDE DEF off
  <2>2. GoesOn(p, off)
    BY <1>6, <2>1 DEF Gone, GoesOn
  <2>3. QED BY <2>1, <2>2, GoneTyped
<1>8. CASE q.left # 0
  <2>1. process' = [process EXCEPT ![p] = q] /\ UNCHANGED <<server, call, handler>>
    BY <1>5, <1>8 DEF AttemptFailed
  <2>2. GoesOn(p, q)
    BY <1>4, <1>8, <2>1 DEF GoesOn
  <2>3. QED BY <2>1, <2>2, NowTyped DEF OthersTyped
<1>9. QED BY <1>7, <1>8

LEMMA ListenGoesOn ==
    ASSUME ProcessInv, NEW p \in Processes, Listen(p) \/ ListenFails(p)
    PROVE  (\E x : GoesOn(p, x)) /\ OthersTyped
<1>1. PICK pc \in {"serving", "closing"} : Booted(p, pc)
  BY DEF Listen, ListenFails
<1> DEFINE x == [Off EXCEPT !.pc = pc, !.signalled = process[p].signalled]
<1>2. /\ process[p].pc = "booting" /\ ~HasMore(p)
      /\ process' = [process EXCEPT ![p] = x]
  BY <1>1 DEF Booted, At
<1>3. x \in Process /\ x.pc = pc
  BY OffType, NowTyped, ProcessFields DEF Process
<1> HIDE DEF x
<1>4. GoesOn(p, x)
  BY <1>2, <1>3 DEF GoesOn
<1>5. OthersTyped
  BY NowTyped DEF Listen, ListenFails, OthersTyped
<1>6. QED BY <1>4, <1>5

LEMMA EndGoesOn ==
    ASSUME ProcessInv, NEW p \in Processes, Signal(p) \/ Crash(p) \/ CloseDB(p)
    PROVE  (\E x : GoesOn(p, x)) /\ OthersTyped
<1>1. CASE Gone(p, Off)
  <2>1. GoesOn(p, Off)
    BY <1>1, OffType DEF Gone
  <2>2. QED BY <1>1, <2>1, GoneTyped
<1>2. CASE ~Gone(p, Off)
  <2> DEFINE x == [process[p] EXCEPT !.signalled = TRUE]
  <2>1. process' = [process EXCEPT ![p].signalled = TRUE] /\ UNCHANGED <<server, call, handler>>
    BY <1>2 DEF Signal, Crash, CloseDB
  <2>2. process' = [process EXCEPT ![p] = x]
    BY <2>1, NowTyped
  <2>3. x \in Process /\ x.pc = process[p].pc /\ x.left = process[p].left
    BY NowTyped, ProcessFields
  <2> HIDE DEF x
  <2>4. GoesOn(p, x)
    BY <2>2, <2>3, NowTyped DEF GoesOn
  <2>5. QED BY <2>1, <2>4, NowTyped DEF OthersTyped
<1>3. QED BY <1>1, <1>2

LEMMA MovedGoesOn ==
    ASSUME ProcessInv, NEW p \in Processes, RunReturns(p) \/ CloseConsumer(p)
    PROVE  (\E x : GoesOn(p, x)) /\ OthersTyped
<1>1. PICK pc \in {"closing", "closingDB"} : Moved(p, pc)
  BY DEF RunReturns, CloseConsumer
<1> DEFINE x == [process[p] EXCEPT !.pc = pc]
<1>2. process' = [process EXCEPT ![p] = x]
  BY <1>1, NowTyped DEF Moved
<1>3. x \in Process /\ x.pc = pc
  <2>1. process[p] \in Process
    BY NowTyped
  <2>2. QED BY <2>1 DEF Process
<1> HIDE DEF x
<1>4. GoesOn(p, x)
  BY <1>2, <1>3 DEF GoesOn
<1>5. OthersTyped
  BY NowTyped DEF RunReturns, CloseConsumer, OthersTyped
<1>6. QED BY <1>4, <1>5

(* Servers, calls and handlers leave main where it is.                     *)
LEMMA ServiceGoesOn ==
    ASSUME ProcessInv, NEW p \in Processes,
           \/ Boot(p) \/ HandlerStarts(p) \/ HandlerEnds(p) \/ ServerStops(p)
           \/ \E e \in Events : HandlerApplies(p, e)
           \/ \E c \in Calls : \/ Accept(p, c) \/ Acquire(p, c) \/ CallCommits(p, c)
                               \/ CallAnswers(p, c) \/ CallFails(p, c)
    PROVE  (\E x : GoesOn(p, x)) /\ OthersTyped
<1>1. CASE Boot(p)
  BY <1>1, NothingGoesOn, NowTyped DEF Boot, mainVars, OthersTyped
<1>2. CASE HandlerStarts(p) \/ HandlerEnds(p) \/ \E e \in Events : HandlerApplies(p, e)
  <2>1. PICK to \in {"off", "idle", "busy"} :
           /\ handler' = [handler EXCEPT ![p] = to]
           /\ UNCHANGED <<process, server, call>>
    BY <1>2 DEF HandlerStarts, HandlerEnds, HandlerApplies, HandlerMoves
  <2>2. QED BY <2>1, NothingGoesOn, NowTyped DEF OthersTyped
<1>3. CASE ServerStops(p)
  BY <1>3, NothingGoesOn, NowTyped DEF ServerStops, GracefulStop, Stop, OthersTyped
<1>4. ASSUME NEW c \in Calls,
             \/ Accept(p, c) \/ Acquire(p, c) \/ CallCommits(p, c)
             \/ CallAnswers(p, c) \/ CallFails(p, c)
      PROVE  (\E x : GoesOn(p, x)) /\ OthersTyped
  <2>1. PICK to \in Call :
           call' = [call EXCEPT ![p][c] = to] /\ UNCHANGED <<process, server, handler>>
    BY <1>4 DEF Accept, Acquire, CallCommits, CallAnswers, CallFails, CallMoves, Call
  <2>2. call' \in [Processes -> [Calls -> Call]]
    BY <2>1, NowTyped
  <2>3. QED BY <2>1, <2>2, NothingGoesOn, NowTyped DEF OthersTyped
<1>5. QED BY <1>1, <1>2, <1>3, <1>4

LEMMA ObjectsStay ==
    ASSUME SchemaInv, SchemaNext
    PROVE  objects \subseteq objects'
<1>1. ASSUME NEW p \in Processes, StatementRuns(p) PROVE objects \subseteq objects'
  BY <1>1 DEF StatementRuns, SkipCreate, PlanCreate, Create, Fill, SetNotNull,
              PlanDelete, Delete
<1>2. QED BY <1>1 DEF SchemaNext, Insert, schemaVars

LEMMA ProcessInvPreserved == ProcessInv /\ [Next]_vars => ProcessInv'
<1> SUFFICES ASSUME ProcessInv, [Next]_vars PROVE ProcessInv'
  OBVIOUS
<1>1. SchemaInv /\ SchemaInv' /\ objects \subseteq objects'
  BY SchemaInvPreserved, SchemaSteps, ObjectsStay DEF ProcessInv
<1>2. SchemaTypeOK' /\ objects' \subseteq Objects
  BY <1>1 DEF SchemaInv, SchemaTypeOK
<1>3. ASSUME NEW p \in Processes, ~HasMore(p) PROVE objects = Objects
  <2>1. session[p].at \in 1..9 /\ ~(session[p].at <= 8)
    BY <1>1, <1>3, SessionTypes, StatementsAre DEF HasMore
  <2>2. \A k \in 1..Len(Statements) : k < session[p].at
    BY <2>1, StatementsAre
  <2>3. Objects \subseteq objects
    BY <1>1, <2>2, StatementsAre DEF SchemaInv, DoneStays
  <2>4. QED BY <1>1, <2>3 DEF SchemaInv, SchemaTypeOK
<1>4. ASSUME NEW p \in Processes, NEW x, GoesOn(p, x), OthersTyped, older' \in BOOLEAN
      PROVE  ProcessInv'
  <2>1. /\ process' \in [Processes -> Process] /\ process'[p] = x
        /\ \A q \in Processes \ {p} : process'[q] = process[q]
    BY <1>4, NowTyped DEF GoesOn
  <2>2. TypeOK'
    BY <1>2, <1>4, <2>1 DEF TypeOK, OthersTyped
  <2>3. \A q \in Processes : process'[q].pc = "booting" => process'[q].left # 0
    BY <1>4, <2>1, NowTyped DEF GoesOn
  <2>4. ASSUME NEW q \in Processes, process'[q].pc = "serving" PROVE objects' = Objects
    <3>1. process[q].pc = "serving" \/ ~HasMore(q)
      BY <1>4, <2>1, <2>4 DEF GoesOn
    <3>2. objects = Objects
      BY <1>3, <3>1 DEF ProcessInv, At
    <3>3. QED BY <1>1, <1>2, <3>2
  <2>5. QED BY <1>1, <2>2, <2>3, <2>4 DEF ProcessInv, At
<1>5. older \in BOOLEAN
  BY DEF ProcessInv, TypeOK
<1>6. ASSUME NEW p \in Processes, ProcessStep(p), UNCHANGED older PROVE ProcessInv'
  <2>1. (\E x : GoesOn(p, x)) /\ OthersTyped
    BY <1>6, StartGoesOn, BootFailsGoesOn, ListenGoesOn, EndGoesOn, MovedGoesOn,
       ServiceGoesOn DEF ProcessStep
  <2>2. QED BY <1>4, <1>5, <1>6, <2>1
<1>7. CASE UNCHANGED mainVars /\ older' \in BOOLEAN
  <2>1. TypeOK'
    BY <1>2, <1>7 DEF ProcessInv, TypeOK, mainVars
  <2>2. QED BY <1>1, <1>2, <1>7, <2>1 DEF ProcessInv, mainVars, At
<1>8. CASE (\E e \in Events : OlderWriter(e)) \/ OlderStops \/ UNCHANGED vars
  <2>1. UNCHANGED mainVars /\ older' \in BOOLEAN
    BY <1>5, <1>8 DEF OlderWriter, OlderStops, vars
  <2>2. QED BY <1>7, <2>1
<1>9. QED BY <1>6, <1>8 DEF Next

LEMMA ProcessInvCorrect == Spec => []ProcessInv
<1>1. Init => ProcessInv
  <2> SUFFICES ASSUME Init PROVE ProcessInv
    OBVIOUS
  <2>1. SchemaInv
    BY SchemaInvInitial
  <2>2. NoCalls \in [Calls -> Call]
    BY DEF NoCalls, Call
  <2>3. TypeOK
    BY <2>1, <2>2, OffType DEF Init, TypeOK, SchemaInv
  <2>4. \A p \in Processes : process[p].pc = "off"
    BY OffType DEF Init
  <2>5. QED BY <2>1, <2>3, <2>4 DEF ProcessInv, At
<1>2. QED BY <1>1, ProcessInvPreserved, PTL DEF Spec

(* Every variable of the processes and of the schema keeps its type, and   *)
(* nobody boots with no attempt left (bootstrap.go).                       *)
THEOREM ProcessesTypeCorrect == Spec => []TypeOK
<1>1. ProcessInv => TypeOK
  BY DEF ProcessInv
<1>2. QED BY <1>1, ProcessInvCorrect, PTL

(* Nobody serves without the unique index, a NOT NULL constraint or a      *)
(* table, whatever raced with it, and nobody spoils them later             *)
(* (schema.go:9-64, pgtracking.go:14-36).                                  *)
THEOREM NobodyServesTooEarly == Spec => []ServesOnSoundSchema
<1>1. ProcessInv => ServesOnSoundSchema
  BY DEF ProcessInv, SchemaInv, ConstraintsHold, ServesOnSoundSchema, Objects, Relations
<1>2. QED BY <1>1, ProcessInvCorrect, PTL

-----------------------------------------------------------------------------
(* Lost races.                                                             *)

(* p boots, and Postgres was there in all of its attempts.                 *)
Racing(p) == At(p, "booting") /\ ~process[p].outage
Lost(p)   == Tries - process[p].left

CopiesBesides(D) ==
    \E r, s \in rows : r # s /\ r.event = s.event /\ r.id \notin D /\ s.id \notin D

(* What the others did since its attempt began may refuse a statement of p.*)
Threatened(p) ==
    /\ HasMore(p)
    /\ \/ session[p].planned /\ Statement(p) \in Relations \cap objects
       \/ Statement(p) = "not_null" /\ SomeNull
       \/ /\ Statement(p) = "dedup" /\ session[p].planned
          /\ CopiesBesides(session[p].doomed)
       \/ Statement(p) = "uq_tracking_events_dedup" /\ Duplicated

(* Of n things that can refuse a statement once, each lost attempt has     *)
(* used up one, and the attempt that is threatened has one besides.        *)
Charged(n) ==
    \A p \in Processes :
        Racing(p) => Lost(p) <= n /\ (Threatened(p) => Lost(p) < n)

Created == Cardinality(objects \cap Relations)

(* From an empty database nobody writes rows that a constraint could       *)
(* reject: attempts are lost to relations that another session created.    *)
FreshRun == ~older /\ ~SomeNull /\ ~Duplicated /\ Charged(Created)

(* Over an older one only the unique index is new, but an older version    *)
(* may go on to write rows.                                                *)
OldCredit ==
    (IF "uq_tracking_events_dedup" \in objects THEN 1 ELSE 0) + lastRow - 2
OldRun ==
    /\ Relations \ {"uq_tracking_events_dedup"} \subseteq objects /\ lastRow >= 2
    /\ Charged(OldCredit)

RaceInv == ProcessInv /\ GivesUpOnlyAfterOutage /\ (FreshRun \/ OldRun)

(* Five relations; one index, and the rows that are still to be written.   *)
EnoughTries == Tries > 5 /\ Tries > 1 + (MaxRow - 2)

(* What a step does to the attempts of p.                                  *)
Fate(p) ==
    /\ Racing(p)' =>
          \/ /\ Racing(p) /\ process'[p].left = process[p].left
             /\ session'[p] = session[p] \/ StatementRuns(p)
          \/ process'[p].left = Tries /\ session'[p] = FirstStatement
          \/ /\ Racing(p) /\ Threatened(p) /\ process'[p].left = process[p].left - 1
             /\ session'[p] = FirstStatement
    /\ process'[p].gaveUp /\ ~process'[p].outage =>
          \/ process[p].gaveUp /\ ~process[p].outage
          \/ Racing(p) /\ Threatened(p) /\ process[p].left = 1

LEMMA RefusalThreatens ==
    ASSUME NEW p \in Processes, Refused(p)
    PROVE  Threatened(p)
BY DEF Refused, Threatened, CreateFails

(* main stays, or is no longer booting.                                    *)
LEMMA OtherFate ==
    ASSUME NEW p \in Processes,
           session'[p] = session[p] \/ StatementRuns(p),
           process'[p].gaveUp => process[p].gaveUp,
           \/ process'[p].pc # "booting" /\ ~process'[p].gaveUp
           \/ /\ process'[p].pc = process[p].pc /\ process'[p].left = process[p].left
              /\ process'[p].outage = process[p].outage
    PROVE  Fate(p)
BY DEF Fate, Racing, At

LEMMA BootFailsFate ==
    ASSUME ProcessInv, NEW p \in Processes, BootFails(p)
    PROVE  Fate(p)
<1>1. /\ process \in [Processes -> Process] /\ process[p] \in Process
      /\ session \in [Processes -> Session]
      /\ process[p].pc = "booting" /\ process[p].left \in 1..Tries /\ Tries \in Nat
      /\ process[p].outage \in BOOLEAN
  BY NowTyped, ProcessesAssumption
     DEF BootFails, At, Process, ProcessInv, TypeOK, SchemaTypeOK
<1>2. PICK away \in BOOLEAN, outage \in BOOLEAN, l \in 0..Tries :
         /\ outage = (process[p].outage \/ away) /\ l \in Remaining(p, outage)
         /\ away \/ Refused(p)
         /\ AttemptFailed(p, [process[p] EXCEPT !.left = l, !.outage = outage])
  <2>1. PICK away \in BOOLEAN :
           /\ away \/ Refused(p)
           /\ \E l \in Remaining(p, process[p].outage \/ away) :
                 AttemptFailed(p, [process[p] EXCEPT !.left = l,
                                                     !.outage = process[p].outage \/ away])
    BY DEF BootFails
  <2>2. (process[p].outage \/ away) \in BOOLEAN
    OBVIOUS
  <2>3. \A outage \in BOOLEAN : Remaining(p, outage) \subseteq 0..Tries
    BY <1>1 DEF Remaining
  <2>4. QED BY <2>1, <2>2, <2>3
<1> DEFINE q == [process[p] EXCEPT !.left = l, !.outage = outage]
           g == [Off EXCEPT !.outage = q.outage, !.gaveUp = TRUE]
<1>3. l \in 0..Tries /\ (~outage => l = process[p].left - 1)
  BY <1>1, <1>2 DEF Remaining
<1>4. /\ q \in Process /\ q.left = l /\ q.outage = outage /\ q.pc = "booting"
      /\ q.gaveUp = process[p].gaveUp
  BY <1>1, <1>3 DEF Process
<1>5. g.outage = outage /\ g.pc = "off"
  BY <1>2, <1>4 DEF Off
<1> HIDE DEF q, g
<1>6. \/ l = 0 /\ process'[p] = g
      \/ process'[p] = q /\ session'[p] = FirstStatement
  BY <1>1, <1>2, <1>4 DEF AttemptFailed, Gone, q, g
<1>7. CASE outage
  BY <1>4, <1>5, <1>6, <1>7 DEF Fate, Racing, At
<1>8. CASE ~outage
  <2>1. Racing(p) /\ Threatened(p)
    BY <1>1, <1>2, <1>8, RefusalThreatens DEF Racing, At
  <2>2. CASE l = 0 /\ process'[p] = g
    BY <1>1, <1>3, <1>5, <1>8, <2>1, <2>2 DEF Fate, Racing, At
  <2>3. CASE process'[p] = q /\ session'[p] = FirstStatement
    BY <1>3, <1>4, <1>8, <2>1, <2>3 DEF Fate, Racing, At
  <2>4. QED BY <1>6, <2>2, <2>3
<1>9. QED BY <1>2, <1>7, <1>8

LEMMA StartFate ==
    ASSUME ProcessInv, NEW p \in Processes, Start(p)
    PROVE  Fate(p)
<1>1. process \in [Processes -> Process] /\ session \in [Processes -> Session]
  BY NowTyped DEF ProcessInv, TypeOK, SchemaTypeOK
<1>2. session'[p] = FirstStatement
  BY <1>1 DEF Start
<1> DEFINE x == [Off EXCEPT !.pc = "booting", !.left = Tries]
<1>3. x.left = Tries /\ x.gaveUp = FALSE
  BY DEF Off
<1>4. process'[p] = x
  BY <1>1 DEF Start
<1> HIDE DEF x
<1>5. QED BY <1>2, <1>3, <1>4 DEF Fate

LEMMA EndFate ==
    ASSUME ProcessInv, NEW p \in Processes,
           Listen(p) \/ ListenFails(p) \/ Signal(p) \/ Crash(p) \/ CloseDB(p)
    PROVE  Fate(p)
<1>1. process \in [Processes -> Process] /\ session' = session
  BY NowTyped DEF Listen, ListenFails, Signal, Crash, CloseDB, schemaVars
<1>2. CASE Gone(p, Off)
  <2>1. process'[p] = Off
    BY <1>1, <1>2 DEF Gone
  <2>2. QED BY <1>1, <2>1, OtherFate DEF Off
<1>3. CASE Listen(p) \/ ListenFails(p)
  <2>1. PICK pc \in {"serving", "closing"} : Booted(p, pc)
    BY <1>3 DEF Listen, ListenFails
  <2> DEFINE x == [Off EXCEPT !.pc = pc, !.signalled = process[p].signalled]
  <2>2. x.pc = pc /\ x.gaveUp = FALSE
    BY DEF Off
  <2>3. process'[p] = x
    BY <1>1, <2>1 DEF Booted
  <2> HIDE DEF x
  <2>4. QED BY <1>1, <2>2, <2>3, OtherFate
<1>4. CASE process' = [process EXCEPT ![p].signalled = TRUE]
  <2>1. \A y \in Process : LET z == [y EXCEPT !.signalled = TRUE] IN
           z.pc = y.pc /\ z.left = y.left /\ z.outage = y.outage /\ z.gaveUp = y.gaveUp
    BY DEF Process
  <2>2. process'[p] = [process[p] EXCEPT !.signalled = TRUE] /\ process[p] \in Process
    BY <1>1, <1>4
  <2>3. QED BY <1>1, <2>1, <2>2, OtherFate
<1>5. QED BY <1>2, <1>3, <1>4 DEF Signal, Crash, CloseDB

LEMMA MovedFate ==
    ASSUME ProcessInv, NEW p \in Processes, RunReturns(p) \/ CloseConsumer(p)
    PROVE  Fate(p)
<1>1. process \in [Processes -> Process] /\ session' = session /\ process[p] \in Process
      /\ process[p].pc # "booting"
  BY NowTyped DEF RunReturns, CloseConsumer, schemaVars, At
<1>2. PICK pc \in {"closing", "closingDB"} : Moved(p, pc)
  BY DEF RunReturns, CloseConsumer
<1>3. \A y \in Process : LET z == [y EXCEPT !.pc = pc] IN
         z.pc = pc /\ z.left = y.left /\ z.outage = y.outage /\ z.gaveUp = y.gaveUp
  BY DEF Process
<1>4. process'[p] = [process[p] EXCEPT !.pc = pc]
  BY <1>1, <1>2 DEF Moved
<1>5. QED BY <1>1, <1>3, <1>4 DEF Fate, Racing, At

(* main stays, and so does the session unless it runs a statement.         *)
LEMMA StaysFate ==
    ASSUME NEW p \in Processes, process'[p] = process[p],
           session'[p] = session[p] \/ StatementRuns(p)
    PROVE  Fate(p)
BY OtherFate

LEMMA Fates ==
    ASSUME ProcessInv, [Next]_vars, NEW p \in Processes
    PROVE  Fate(p)
<1>1. process \in [Processes -> Process] /\ session \in [Processes -> Session]
  BY NowTyped DEF ProcessInv, TypeOK, SchemaTypeOK
<1>2. CASE (\E e \in Events : OlderWriter(e)) \/ OlderStops \/ UNCHANGED vars
  <2>1. process' = process /\ session' = session
    BY <1>2 DEF OlderWriter, OlderStops, vars, mainVars, schemaVars, Insert
  <2>2. QED BY <2>1, StaysFate
<1>3. ASSUME NEW q \in Processes, ProcessStep(q) PROVE Fate(p)
  <2>1. CASE Boot(q)
    <3>1. process' = process
      BY <2>1 DEF Boot, mainVars
    <3>2. CASE q = p
      BY <2>1, <3>1, <3>2, StaysFate DEF Boot
    <3>3. CASE q # p
      <4>1. session'[p] = session[p]
        BY <1>1, <2>1, <3>3 DEF Boot, StatementRuns, SkipCreate, PlanCreate, Create,
                            Fill, SetNotNull, PlanDelete, Delete
      <4>2. QED BY <3>1, <4>1, StaysFate
    <3>4. QED BY <3>2, <3>3
  <2>2. CASE Start(q) \/ BootFails(q)
    <3>1. CASE q = p
      BY <2>2, <3>1, StartFate, BootFailsFate
    <3>2. CASE q # p
      <4>1. process'[p] = process[p] /\ session'[p] = session[p]
        BY <1>1, <2>2, <3>2 DEF Start, BootFails, AttemptFailed, Gone
      <4>2. QED BY <4>1, StaysFate
    <3>3. QED BY <3>1, <3>2
  <2>3. CASE \/ Listen(q) \/ ListenFails(q) \/ Signal(q) \/ Crash(q) \/ CloseDB(q)
             \/ RunReturns(q) \/ CloseConsumer(q)
    <3>1. CASE q = p
      BY <2>3, <3>1, EndFate, MovedFate
    <3>2. CASE q # p
      <4>1. process'[p] = process[p] /\ session'[p] = session[p]
        BY <1>1, <2>3, <3>2 DEF Listen, ListenFails, Booted, Signal, Crash, CloseDB,
                            RunReturns, CloseConsumer, Moved, Gone, schemaVars
      <4>2. QED BY <4>1, StaysFate
    <3>3. QED BY <3>1, <3>2
  <2>4. CASE \/ HandlerStarts(q) \/ HandlerEnds(q) \/ ServerStops(q)
             \/ \E e \in Events : HandlerApplies(q, e)
             \/ \E c \in Calls : \/ Accept(q, c) \/ Acquire(q, c) \/ CallCommits(q, c)
                                 \/ CallAnswers(q, c) \/ CallFails(q, c)
    <3>1. process' = process /\ session' = session
      BY <2>4 DEF HandlerStarts, HandlerEnds, HandlerApplies, HandlerMoves, Insert,
                  ServerStops, GracefulStop, Stop, Accept, Acquire, CallCommits,
                  CallAnswers, CallFails, CallMoves, schemaVars
    <3>2. QED BY <3>1, StaysFate
  <2>5. QED BY <1>3, <2>1, <2>2, <2>3, <2>4 DEF ProcessStep
<1>4. QED BY <1>2, <1>3 DEF Next

(* What the rows of other sessions may threaten comes of inserts alone.    *)
LEMMA OnlyInsertsThreaten ==
    ASSUME SchemaInv, SchemaNext
    PROVE  \/ \E e \in Events, null \in BOOLEAN : Insert(e, null)
           \/ /\ lastRow' = lastRow
              /\ (SomeNull' => SomeNull) /\ (Duplicated' => Duplicated)
              /\ \A D : CopiesBesides(D)' => CopiesBesides(D)
<1>1. CASE rows' \subseteq rows /\ lastRow' = lastRow
  BY <1>1 DEF SomeNull, Duplicated, CopiesBesides
<1>2. ASSUME NEW p \in Processes, Fill(p)
      PROVE  /\ lastRow' = lastRow
             /\ (SomeNull' => SomeNull) /\ (Duplicated' => Duplicated)
             /\ \A D : CopiesBesides(D)' => CopiesBesides(D)
  <2> DEFINE filled(r) == [r EXCEPT !.null = FALSE]
  <2>1. rows' = {filled(r) : r \in rows} /\ lastRow' = lastRow
    BY <1>2 DEF Fill
  <2>2. \A r \in rows : /\ filled(r).id = r.id /\ filled(r).event = r.event
                        /\ filled(r).null = FALSE
    BY DEF SchemaInv, SchemaTypeOK, Row
  <2> HIDE DEF filled
  <2>3. QED BY <2>1, <2>2 DEF SomeNull, Duplicated, CopiesBesides
<1>3. ASSUME NEW p \in Processes, StatementRuns(p), ~Fill(p)
      PROVE  rows' \subseteq rows /\ lastRow' = lastRow
  BY <1>3 DEF StatementRuns, SkipCreate, PlanCreate, Create, SetNotNull, PlanDelete, Delete
<1>4. QED BY <1>1, <1>2, <1>3 DEF SchemaNext, schemaVars

(* A step that gives somebody something more to lose a race to.            *)
Added ==
    \/ objects' \cap Relations # objects \cap Relations
    \/ lastRow' # lastRow /\ (SomeNull' \/ Duplicated')

LEMMA StatementNames ==
    ASSUME NEW p \in Processes, session[p].at \in 1..Len(Statements)
    PROVE  /\ Statement(p) \in Relations <=> session[p].at \in {1, 2, 3, 4, 8}
           /\ Statement(p) = "fill" <=> session[p].at = 5
           /\ Statement(p) = "not_null" <=> session[p].at = 6
           /\ Statement(p) = "dedup" <=> session[p].at = 7
           /\ Statement(p) = "uq_tracking_events_dedup" <=> session[p].at = 8
<1>1. session[p].at \in 1..8
  BY StatementsAre
<1>2. \/ session[p].at = 1 /\ Statement(p) = "trackings"
      \/ session[p].at = 2 /\ Statement(p) = "idx_trackings_next_check_at"
      \/ session[p].at = 3 /\ Statement(p) = "tracking_events"
      \/ session[p].at = 4 /\ Statement(p) = "idx_tracking_events_event_time"
      \/ session[p].at = 5 /\ Statement(p) = "fill"
      \/ session[p].at = 6 /\ Statement(p) = "not_null"
      \/ session[p].at = 7 /\ Statement(p) = "dedup"
      \/ session[p].at = 8 /\ Statement(p) = "uq_tracking_events_dedup"
  BY <1>1 DEF Statement, Statements
<1>3. QED BY <1>2 DEF Relations

(* The same by the number of the statement.                                *)
ThreatByNumber(p) ==
    \/ /\ session[p].planned /\ session[p].at \in {1, 2, 3, 4, 8}
       /\ Statement(p) \in objects
    \/ session[p].at = 6 /\ SomeNull
    \/ session[p].at = 7 /\ session[p].planned /\ CopiesBesides(session[p].doomed)
    \/ session[p].at = 8 /\ Duplicated

LEMMA ThreatenedIs ==
    \A p \in Processes :
        session[p].at \in 1..9 => (Threatened(p) <=> ThreatByNumber(p))
<1> SUFFICES ASSUME NEW p \in Processes, session[p].at \in 1..9
             PROVE  Threatened(p) <=> ThreatByNumber(p)
  OBVIOUS
<1>1. HasMore(p) <=> session[p].at \in 1..Len(Statements)
  BY StatementsAre DEF HasMore
<1>2. {1, 2, 3, 4, 6, 7, 8} \subseteq 1..Len(Statements)
  BY StatementsAre
<1>3. QED BY <1>1, <1>2, StatementNames DEF Threatened, ThreatByNumber

LEMMA ThreatenedWillBe ==
    \A p \in Processes :
        session'[p].at \in 1..9 => (Threatened(p)' <=> ThreatByNumber(p)')
<1> DEFINE Agree == \A p \in Processes :
              session[p].at \in 1..9 => (Threatened(p) <=> ThreatByNumber(p))
<1>1. Agree
  BY ThreatenedIs
<1> HIDE DEF Agree
<1>2. Agree'
  BY <1>1, PTL
<1>3. QED BY <1>2 DEF Agree

LEMMA FirstIsNotThreatened ==
    ASSUME NEW p \in Processes, session'[p] = FirstStatement
    PROVE  ~Threatened(p)'
<1>1. session'[p].at = 1 /\ session'[p].planned = FALSE
  BY DEF FirstStatement
<1>2. session'[p].at \in 1..9
  BY <1>1
<1>3. QED BY <1>1, <1>2, ThreatenedWillBe DEF ThreatByNumber

(* After its own statement a session is threatened by what is left to do.  *)
LEMMA OwnStatements ==
    ASSUME SchemaInv, SchemaInv', NEW p \in Processes, StatementRuns(p), ~Added,
           Threatened(p)'
    PROVE  Threatened(p)
<1>1. /\ session \in [Processes -> Session] /\ session[p].at \in 1..9
      /\ session'[p].at \in 1..9 /\ session[p] \in Session
  <2>1. session[p].at \in 1..9 /\ session \in [Processes -> Session]
    BY SessionTypes
  <2>2. session'[p] \in Session
    BY DEF SchemaInv, SchemaTypeOK
  <2>3. session'[p].at \in 1..9
    BY <2>2, StatementsAre DEF Session
  <2>4. QED BY <2>1, <2>3
<1>2. HasMore(p) /\ session[p].at \in 1..Len(Statements)
  BY <1>1, SessionTypes
     DEF StatementRuns, SkipCreate, PlanCreate, Create, Fill, SetNotNull, PlanDelete, Delete
<1>3. Executed(p).at = session[p].at + 1 /\ Executed(p).planned = FALSE
  <2>1. FirstStatement \in Session /\ FirstStatement.planned = FALSE
    BY SessionTypes DEF FirstStatement
  <2>2. QED BY <1>2, <2>1, SessionTypes DEF Executed, Session
<1>4. \/ session'[p].at = 6 /\ SomeNull'
      \/ session'[p].at = 8 /\ Duplicated'
      \/ /\ session'[p].planned /\ session'[p].at = 7
         /\ CopiesBesides(session[p].doomed)'
      \/ /\ session'[p].planned /\ session'[p].at \in {1, 2, 3, 4, 8}
         /\ Statements[session'[p].at] \in objects'
  <2>1. Statement(p)' = Statements[session'[p].at]
    BY DEF Statement, Statements
  <2>2. ThreatByNumber(p)'
    BY <1>1, ThreatenedWillBe
  <2>3. QED BY <2>1, <2>2 DEF ThreatByNumber
<1>5. CASE SkipCreate(p) \/ Create(p)
  <2>1. /\ session'[p] = Executed(p) /\ rows' = rows
        /\ session[p].at \in {1, 2, 3, 4, 8}
    BY <1>1, <1>2, <1>5, StatementNames DEF SkipCreate, Create
  <2>2. QED BY <1>3, <1>4, <2>1
<1>6. CASE PlanCreate(p)
  <2> DEFINE x == [session[p] EXCEPT !.planned = TRUE]
  <2>1. /\ session'[p] = x /\ rows' = rows /\ objects' = objects
        /\ session[p].at \in {1, 2, 3, 4, 8} /\ Statements[session[p].at] \notin objects
    BY <1>1, <1>2, <1>6, StatementNames DEF PlanCreate, Statement
  <2>2. x.at = session[p].at
    BY PlannedType
  <2> HIDE DEF x
  <2>3. session[p].at = 8 /\ Duplicated
    BY <1>4, <2>1, <2>2 DEF Duplicated
  <2>4. QED BY <1>1, <2>3, ThreatenedIs DEF ThreatByNumber
<1>7. CASE Fill(p)
  <2>1. session'[p] = Executed(p) /\ session[p].at = 5
    BY <1>1, <1>2, <1>7, StatementNames DEF Fill
  <2>2. ~SomeNull'
    <3>1. \A r \in rows : [r EXCEPT !.null = FALSE].null = FALSE
      BY DEF SchemaInv, SchemaTypeOK, Row
    <3>2. QED BY <1>7, <3>1 DEF Fill, SomeNull
  <2>3. QED BY <1>3, <1>4, <2>1, <2>2
<1>8. CASE SetNotNull(p)
  <2>1. session'[p] = Executed(p) /\ session[p].at = 6
    BY <1>1, <1>2, <1>8, StatementNames DEF SetNotNull
  <2>2. QED BY <1>3, <1>4, <2>1
<1>9. CASE PlanDelete(p)
  <2>1. PICK D \in Surplus :
           session' = [session EXCEPT ![p].planned = TRUE, ![p].doomed = D]
    BY <1>9 DEF PlanDelete
  <2> DEFINE x == [session[p] EXCEPT !.planned = TRUE, !.doomed = D]
  <2>2. session[p].at = 7 /\ session'[p] = x /\ rows' = rows
    BY <1>1, <1>2, <1>9, <2>1, StatementNames DEF PlanDelete
  <2>3. D = {r.id : r \in {q \in rows : \E s \in rows :
                             s.event = q.event /\ s.id < q.id}}
    BY DEF Surplus
  <2>4. x.at = 7 /\ x.doomed = D
    <3>1. D \in SUBSET (1..MaxRow)
      BY <2>3 DEF SchemaInv, SchemaTypeOK, Row
    <3>2. QED BY <2>2, <3>1, PlannedType
  <2> HIDE DEF x
  <2>5. ASSUME NEW r \in rows, NEW s \in rows, r # s, r.event = s.event
        PROVE  r.id \in D \/ s.id \in D
    <3>1. r.id \in Nat /\ s.id \in Nat /\ r.id # s.id
      BY <2>5 DEF SchemaInv, SchemaTypeOK, IdsInOrder, Row
    <3>2. r.id < s.id \/ s.id < r.id
      BY <3>1
    <3>3. QED BY <2>3, <2>5, <3>2
  <2>6. ~CopiesBesides(session[p].doomed)'
    BY <2>2, <2>4, <2>5 DEF CopiesBesides
  <2>7. QED BY <1>4, <2>2, <2>4, <2>6
<1>10. CASE Delete(p)
  <2>1. /\ session'[p] = Executed(p) /\ session[p].at = 7 /\ session[p].planned
        /\ rows' = {r \in rows : r.id \notin session[p].doomed}
    BY <1>1, <1>2, <1>10, StatementNames DEF Delete
  <2>2. Duplicated'
    BY <1>3, <1>4, <2>1
  <2>3. CopiesBesides(session[p].doomed)
    BY <2>1, <2>2 DEF Duplicated, CopiesBesides
  <2>4. QED BY <1>1, <2>1, <2>3, ThreatenedIs DEF ThreatByNumber
<1>11. QED BY <1>5, <1>6, <1>7, <1>8, <1>9, <1>10 DEF StatementRuns

LEMMA ThreatIsNew ==
    ASSUME SchemaInv, SchemaInv', SchemaNext, NEW p \in Processes, ~Added,
           session'[p] = session[p] \/ StatementRuns(p), Threatened(p)'
    PROVE  Threatened(p)
<1>1. CASE session'[p] = session[p]
  <2>1. CASE \E e \in Events, null \in BOOLEAN : Insert(e, null)
    <3>1. lastRow' # lastRow /\ objects' = objects
      BY <2>1 DEF Insert, SchemaInv, SchemaTypeOK
    <3>2. ~SomeNull' /\ ~Duplicated'
      BY <3>1 DEF Added
    <3>3. \A D : ~CopiesBesides(D)'
      BY <3>2 DEF CopiesBesides, Duplicated
    <3>4. QED BY <1>1, <3>1, <3>2, <3>3 DEF Threatened, HasMore, Statement
  <2>2. CASE /\ (SomeNull' => SomeNull) /\ (Duplicated' => Duplicated)
             /\ \A D : CopiesBesides(D)' => CopiesBesides(D)
    BY <1>1, <2>2 DEF Threatened, Added, HasMore, Statement
  <2>3. QED BY <2>1, <2>2, OnlyInsertsThreaten
<1>2. QED BY <1>1, OwnStatements

(* Who has lost an attempt had one thing more to lose it to.               *)
LEMMA ChargedStays ==
    ASSUME ProcessInv, ProcessInv', [Next]_vars,
           NEW n \in Nat, NEW m \in Nat, Charged(n), n <= m, Added => n < m
    PROVE  Charged(m)'
<1> SUFFICES ASSUME NEW p \in Processes, Racing(p)'
             PROVE  Lost(p)' <= m /\ (Threatened(p)' => Lost(p)' < m)
  BY DEF Charged
<1>1. SchemaInv /\ SchemaInv' /\ SchemaNext
  BY SchemaSteps DEF ProcessInv
<1>2. /\ process[p].left \in Nat /\ process'[p].left \in Nat /\ Tries \in Nat
      /\ process'[p].left <= Tries
  <2>1. process[p] \in Process /\ process'[p] \in Process
    BY DEF ProcessInv, TypeOK
  <2>2. QED BY <2>1, ProcessesAssumption DEF Process
<1>3. CASE /\ Racing(p) /\ process'[p].left = process[p].left
           /\ session'[p] = session[p] \/ StatementRuns(p)
  <2>1. Lost(p) <= n /\ (Threatened(p) => Lost(p) < n)
    BY <1>3 DEF Charged
  <2>2. Lost(p)' = Lost(p) /\ Lost(p) \in Int
    BY <1>2, <1>3 DEF Lost
  <2>3. Threatened(p)' => Threatened(p) \/ Added
    BY <1>1, <1>3, ThreatIsNew
  <2>4. QED BY <2>1, <2>2, <2>3
<1>4. CASE process'[p].left = Tries /\ session'[p] = FirstStatement
  <2>1. Lost(p)' = 0
    BY <1>2, <1>4 DEF Lost
  <2>2. QED BY <1>4, <2>1, FirstIsNotThreatened
<1>5. CASE /\ Racing(p) /\ Threatened(p) /\ process'[p].left = process[p].left - 1
           /\ session'[p] = FirstStatement
  <2>1. Lost(p) < n
    BY <1>5 DEF Charged
  <2>2. Lost(p)' = Lost(p) + 1 /\ Lost(p) \in Int
    BY <1>2, <1>5 DEF Lost
  <2>3. ~Threatened(p)'
    BY <1>5, FirstIsNotThreatened
  <2>4. QED BY <2>1, <2>2, <2>3
<1>6. QED BY <1>3, <1>4, <1>5, Fates DEF Fate

(* Nobody gives up with more attempts than there are things to lose to.    *)
LEMMA NobodyGivesUp ==
    ASSUME ProcessInv, [Next]_vars, GivesUpOnlyAfterOutage,
           NEW n \in Nat, Charged(n), n < Tries
    PROVE  GivesUpOnlyAfterOutage'
<1> SUFFICES ASSUME NEW p \in Processes, process'[p].gaveUp, ~process'[p].outage
             PROVE  FALSE
  BY DEF GivesUpOnlyAfterOutage
<1>1. Racing(p) /\ Threatened(p) /\ process[p].left = 1
  BY Fates DEF Fate, GivesUpOnlyAfterOutage
<1>2. Tries - 1 < n /\ Tries \in Nat
  BY <1>1, ProcessesAssumption DEF Charged, Lost
<1>3. QED BY <1>2

LEMMA CreatedCounts ==
    ASSUME SchemaInv, SchemaNext
    PROVE  /\ Created \in Nat /\ Created' \in Nat /\ Created <= 5
           /\ Created <= Created'
           /\ objects' \cap Relations # objects \cap Relations => Created < Created'
<1> DEFINE R4 == {"trackings", "idx_trackings_next_check_at", "tracking_events",
                  "idx_tracking_events_event_time"}
           old == objects \cap Relations
           new == objects' \cap Relations
<1>1. IsFiniteSet(Relations) /\ Cardinality(Relations) = 5
  <2> DEFINE A == {"trackings"}
             B == A \cup {"idx_trackings_next_check_at"}
             C == B \cup {"tracking_events"}
             D == C \cup {"idx_tracking_events_event_time"}
             E == D \cup {"uq_tracking_events_dedup"}
  <2>1. IsFiniteSet(A) /\ Cardinality(A) = 1
    BY FS_Singleton
  <2>2. "idx_trackings_next_check_at" \notin A
    OBVIOUS
  <2>3. "tracking_events" \notin B
    OBVIOUS
  <2>4. "idx_tracking_events_event_time" \notin C
    OBVIOUS
  <2>5. "uq_tracking_events_dedup" \notin D
    OBVIOUS
  <2>6. Relations = E
    BY DEF Relations
  <2> HIDE DEF A, B, C, D, E
  <2>7. IsFiniteSet(B) /\ Cardinality(B) = 2
    BY <2>1, <2>2, FS_AddElement DEF B
  <2>8. IsFiniteSet(C) /\ Cardinality(C) = 3
    BY <2>3, <2>7, FS_AddElement DEF C
  <2>9. IsFiniteSet(D) /\ Cardinality(D) = 4
    BY <2>4, <2>8, FS_AddElement DEF D
  <2>10. IsFiniteSet(E) /\ Cardinality(E) = 5
    BY <2>5, <2>9, FS_AddElement DEF E
  <2>11. QED BY <2>6, <2>10
<1>2. old \subseteq new /\ new \subseteq Relations /\ old \subseteq Relations
  BY ObjectsStay
<1> HIDE DEF old, new
<1>3. IsFiniteSet(new) /\ Cardinality(new) \in Nat
  BY <1>1, <1>2, FS_Subset, FS_CardinalityType
<1>4. IsFiniteSet(old) /\ Cardinality(old) \in Nat /\ Cardinality(old) <= 5
  BY <1>1, <1>2, FS_Subset, FS_CardinalityType
<1>5. Cardinality(old) <= Cardinality(new)
      /\ (Cardinality(old) = Cardinality(new) => old = new)
  BY <1>2, <1>3, FS_Subset
<1>6. new # old => Cardinality(old) < Cardinality(new)
  BY <1>3, <1>4, <1>5
<1>7. QED BY <1>3, <1>4, <1>5, <1>6 DEF Created, old, new

(* Only handlers write, once the unique index is there.                    *)
LEMMA FreshInserts ==
    ASSUME [Next]_vars, ~older, lastRow' # lastRow
    PROVE  \E e \in Events : "uq_tracking_events_dedup" \in objects /\ Insert(e, FALSE)
<1>1. ASSUME NEW p \in Processes, ProcessStep(p)
      PROVE  \E e \in Events : HandlerApplies(p, e)
  <2>1. ~(Start(p) \/ Boot(p) \/ BootFails(p))
    BY DEF Start, Boot, BootFails, StatementRuns, SkipCreate, PlanCreate, Create, Fill,
           SetNotNull, PlanDelete, Delete
  <2>2. /\ ~(Listen(p) \/ ListenFails(p) \/ Signal(p) \/ Crash(p))
        /\ ~(HandlerStarts(p) \/ HandlerEnds(p))
        /\ ~(RunReturns(p) \/ CloseConsumer(p) \/ CloseDB(p) \/ ServerStops(p))
    BY DEF Listen, ListenFails, Signal, Crash, HandlerStarts, HandlerEnds, RunReturns,
           CloseConsumer, CloseDB, ServerStops, GracefulStop, Stop, schemaVars
  <2>3. \A c \in Calls : ~(Accept(p, c) \/ Acquire(p, c) \/ CallCommits(p, c)
                            \/ CallAnswers(p, c) \/ CallFails(p, c))
    BY DEF Accept, Acquire, CallCommits, CallAnswers, CallFails, CallMoves, schemaVars
  <2>4. QED BY <1>1, <2>1, <2>2, <2>3 DEF ProcessStep
<1>2. \E p \in Processes : ProcessStep(p)
  BY DEF Next, OlderWriter, OlderStops, vars, schemaVars
<1>3. PICK p \in Processes, e \in Events : HandlerApplies(p, e)
  BY <1>1, <1>2
<1>4. QED BY <1>3 DEF HandlerApplies, schemaVars

LEMMA FreshStays ==
    ASSUME ProcessInv, ProcessInv', [Next]_vars, FreshRun
    PROVE  FreshRun'
<1>1. SchemaInv /\ SchemaNext /\ SchemaInv'
  BY SchemaSteps DEF ProcessInv
<1>2. ~older'
  BY DEF FreshRun, Next, OlderWriter, OlderStops, vars
<1>3. ~SomeNull' /\ ~Duplicated'
  <2>1. CASE lastRow' = lastRow
    <3>1. ~ \E e \in Events, null \in BOOLEAN : Insert(e, null)
      BY <1>1, <2>1 DEF Insert, SchemaInv, SchemaTypeOK
    <3>2. QED BY <1>1, <3>1, OnlyInsertsThreaten DEF FreshRun
  <2>2. CASE lastRow' # lastRow
    <3>1. PICK e \in Events : "uq_tracking_events_dedup" \in objects /\ Insert(e, FALSE)
      BY <2>2, FreshInserts DEF FreshRun
    <3>2. "uq_tracking_events_dedup" \in objects'
      BY <3>1 DEF Insert
    <3>3. ~Duplicated'
      BY <1>1, <3>2 DEF SchemaInv, ConstraintsHold
    <3>4. ~SomeNull'
      <4>1. rows' = rows \cup {[id |-> lastRow + 1, event |-> e, null |-> FALSE]}
        BY <3>1 DEF Insert
      <4>2. QED BY <4>1 DEF SomeNull, FreshRun
    <3>5. QED BY <3>3, <3>4
  <2>3. QED BY <2>1, <2>2
<1>4. /\ Created \in Nat /\ Created' \in Nat /\ Created <= Created'
      /\ Added => Created < Created'
  BY <1>1, <1>3, CreatedCounts DEF Added
<1>5. ASSUME NEW n \in Nat, NEW m \in Nat, n = Created, m = Created'
      PROVE  Charged(m)'
  BY <1>4, <1>5, ChargedStays DEF FreshRun
<1>6. Charged(Created)'
  BY <1>4, <1>5 DEF Charged
<1>7. QED BY <1>2, <1>3, <1>6 DEF FreshRun

LEMMA OldStays ==
    ASSUME ProcessInv, ProcessInv', [Next]_vars, OldRun
    PROVE  OldRun'
<1>1. SchemaInv /\ SchemaNext /\ SchemaInv'
  BY SchemaSteps DEF ProcessInv
<1>2. objects \subseteq objects' /\ lastRow \in Nat /\ lastRow' \in Nat
  BY <1>1, ObjectsStay, RowAssumption DEF SchemaInv, SchemaTypeOK
<1>3. lastRow' = lastRow \/ lastRow' = lastRow + 1
  BY <1>1, OnlyInsertsThreaten DEF Insert
<1>4. /\ OldCredit \in Nat /\ OldCredit' \in Nat /\ OldCredit <= OldCredit'
      /\ Added => OldCredit < OldCredit'
  <2>1. Relations \ {"uq_tracking_events_dedup"} \subseteq objects /\ lastRow >= 2
    BY DEF OldRun
  <2>2. Added => \/ lastRow' = lastRow + 1
                 \/ /\ "uq_tracking_events_dedup" \in objects'
                    /\ "uq_tracking_events_dedup" \notin objects
    BY <1>2, <1>3, <2>1 DEF Added
  <2>3. "uq_tracking_events_dedup" \in objects =>
          /\ OldCredit = lastRow - 1 /\ OldCredit' = lastRow' - 1
          /\ "uq_tracking_events_dedup" \in objects'
    BY <1>2 DEF OldCredit
  <2>4. "uq_tracking_events_dedup" \notin objects => OldCredit = lastRow - 2
    BY <1>2 DEF OldCredit
  <2>5. /\ "uq_tracking_events_dedup" \in objects' => OldCredit' = lastRow' - 1
        /\ "uq_tracking_events_dedup" \notin objects' => OldCredit' = lastRow' - 2
    BY <1>2 DEF OldCredit
  <2>6. OldCredit \in Nat /\ OldCredit' \in Nat
    BY <1>2, <1>3, <2>1, <2>3, <2>4, <2>5
  <2>7. OldCredit <= OldCredit'
    BY <1>2, <1>3, <2>1, <2>3, <2>4, <2>5
  <2>8. ASSUME Added PROVE OldCredit < OldCredit'
    BY <1>2, <1>3, <2>1, <2>2, <2>3, <2>4, <2>5, <2>8
  <2>9. QED BY <2>6, <2>7, <2>8
<1>5. ASSUME NEW n \in Nat, NEW m \in Nat, n = OldCredit, m = OldCredit'
      PROVE  Charged(m)'
  BY <1>4, <1>5, ChargedStays DEF OldRun
<1>6. Charged(OldCredit)'
  BY <1>4, <1>5 DEF Charged
<1>7. QED BY <1>2, <1>3, <1>6 DEF OldRun

LEMMA RaceInvPreserved == EnoughTries /\ RaceInv /\ [Next]_vars => RaceInv'
<1> SUFFICES ASSUME EnoughTries, RaceInv, [Next]_vars PROVE RaceInv'
  OBVIOUS
<1>1. ProcessInv /\ ProcessInv' /\ SchemaInv /\ SchemaNext /\ GivesUpOnlyAfterOutage
  BY ProcessInvPreserved, SchemaSteps DEF RaceInv, ProcessInv
<1>2. Tries \in Nat /\ MaxRow \in Nat
  BY ProcessesAssumption, RowAssumption
<1>3. CASE FreshRun
  <2>1. Created \in Nat /\ Created < Tries
    BY <1>1, <1>2, CreatedCounts DEF EnoughTries
  <2>2. GivesUpOnlyAfterOutage'
    BY <1>1, <1>3, <2>1, NobodyGivesUp DEF FreshRun
  <2>3. QED BY <1>1, <1>3, <2>2, FreshStays DEF RaceInv
<1>4. CASE OldRun
  <2>1. lastRow \in Nat /\ lastRow <= MaxRow /\ lastRow >= 2
    BY <1>1, <1>2, <1>4 DEF OldRun, SchemaInv, SchemaTypeOK
  <2>2. OldCredit \in Nat /\ OldCredit < Tries
    BY <1>2, <2>1 DEF EnoughTries, OldCredit
  <2>3. GivesUpOnlyAfterOutage'
    BY <1>1, <1>4, <2>2, NobodyGivesUp DEF OldRun
  <2>4. QED BY <1>1, <1>4, <2>3, OldStays DEF RaceInv
<1>5. QED BY <1>3, <1>4 DEF RaceInv

LEMMA RaceInvInitial == Init => FreshRun \/ OldRun
<1> SUFFICES ASSUME Init PROVE FreshRun \/ OldRun
  OBVIOUS
<1>1. \A n : Charged(n)
  BY OffType DEF Init, Charged, Racing, At
<1>2. CASE FreshDatabase
  BY <1>1, <1>2 DEF Init, FreshDatabase, FreshRun, SomeNull, Duplicated
<1>3. CASE OldDatabase
  BY <1>1, <1>3 DEF OldDatabase, OldRun
<1>4. QED BY <1>2, <1>3 DEF Init, SchemaInit

(* With more attempts than there are relations to create, and than rows    *)
(* that an older version may still write besides the index, no process     *)
(* loses so many races that it gives up, however many start at once        *)
(* (bootstrap.go).                                                         *)
THEOREM RacesAloneStopNobody == EnoughTries => (Spec => []GivesUpOnlyAfterOutage)
<1> SUFFICES ASSUME EnoughTries PROVE Spec => []GivesUpOnlyAfterOutage
  OBVIOUS
<1>1. Init => GivesUpOnlyAfterOutage
  BY DEF Init, GivesUpOnlyAfterOutage, Off
<1>2. RaceInv /\ [Next]_vars => RaceInv'
  BY RaceInvPreserved
<1>3. Init /\ ProcessInv => RaceInv
  BY <1>1, RaceInvInitial DEF RaceInv
<1>4. RaceInv => GivesUpOnlyAfterOutage
  BY DEF RaceInv
<1>5. QED BY <1>2, <1>3, <1>4, ProcessInvCorrect, PTL DEF Spec

=============================================================================
