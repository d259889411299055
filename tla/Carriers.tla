------------------------------- MODULE Carriers -------------------------------
(***************************************************************************)
(* The carrier clients of the worker, as what they make of an answer: a    *)
(* status and a set of events, or an error.  Of an event the model keeps   *)
(* which step of the parcel it reports (status_raw, location and message)  *)
(* and its time, which together are the key that de-duplicates it.         *)
(***************************************************************************)
EXTENDS Integers, Sequences

CONSTANT DeliverySounding   \* texts with "вруч", "достав" or "delivered"

Error == [status |-> "ERROR", events |-> {}]

(* Which client a configuration gets; "gdeposylka", which the comment on   *)
(* the setting offers, is not among them.                                  *)
ClientFor(baseURL, mode) ==
    IF baseURL # "" /\ mode \in {"v1", "track24"} THEN mode ELSE "fake"

(* emulatorv1: the answer's own status and events.                         *)
V1Result(response) ==
    IF response.code # 200 THEN Error
    ELSE [status |-> IF response.status = "" THEN "UNKNOWN" ELSE response.status,
          events |-> response.events]

(* Wrong: the time of the check for every event.                           *)
OperationTimeOfCheck(operation, now) == now

(* track24http: an event without a legible date happened now.              *)
OperationTime(operation, now) ==
    IF operation.dated THEN operation.time ELSE now

(* The events, and a status by the text of the last one; every event is    *)
(* stored as IN_TRANSIT, whatever its text.                                *)
Track24Result(response, now) ==
    LET operations == response.operations
        n == Len(operations)
    IN  IF response.code # 200 \/ response.status # "ok" THEN Error
        ELSE [status |-> IF n > 0 /\ operations[n].text \in DeliverySounding
                         THEN "DELIVERED" ELSE "IN_TRANSIT",
              events |-> {[step |-> operations[i].text,
                           time |-> OperationTime(operations[i], now)] : i \in 1..n}]

(* fake: one event, now, with a status by the hash of the number.          *)
FakeResult(delivers, now) ==
    LET status == IF delivers THEN "DELIVERED" ELSE "IN_TRANSIT"
    IN  [status |-> status, events |-> {[step |-> status, time |-> now]}]

=============================================================================
