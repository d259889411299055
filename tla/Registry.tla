------------------------------- MODULE Registry -------------------------------
(***************************************************************************)
(* What CreateTrackings promises, without transactions, locks, connections *)
(* or statements: a batch is registered in one step, after which each of   *)
(* its pairs (or one that the service takes for the same) has an id of its *)
(* own for ever; it is answered with what was registered.  A client that   *)
(* is told of a failure knows nothing: its batch may be registered or not. *)
(***************************************************************************)
EXTENDS Naturals

CONSTANTS
    Requests, Pairs,
    KeyOf            \* pairs with the same key are the same to the service

VARIABLES
    id,              \* [Pairs -> id of the tracking, 0: there is none]
    phase,           \* [Requests -> how far its call has come]
    asked,           \* [Requests -> the pairs it has asked for]
    batch,           \* [Requests -> those that stand for them]
    answer           \* [Requests -> pairs with their ids]

registryVars == <<id, phase, asked, batch, answer>>

Init ==
    /\ id = [p \in Pairs |-> 0]
    /\ phase = [r \in Requests |-> "ready"]
    /\ asked = [r \in Requests |-> {}]
    /\ batch = [r \in Requests |-> {}]
    /\ answer = [r \in Requests |-> {}]

(* One pair of A for each key of A.                                        *)
StandsFor(B, A) ==
    /\ B \subseteq A
    /\ \A p \in A : \E q \in B : KeyOf[q] = KeyOf[p]
    /\ \A p, q \in B : KeyOf[p] = KeyOf[q] => p = q

Ready(r) == phase[r] \in {"ready", "answered", "failed"}

Ask(r) ==
    /\ Ready(r)
    /\ \E A \in SUBSET Pairs : \E B \in SUBSET A :
          /\ A # {} /\ StandsFor(B, A)
          /\ asked' = [asked EXCEPT ![r] = A]
          /\ batch' = [batch EXCEPT ![r] = B]
    /\ phase' = [phase EXCEPT ![r] = "asked"]
    /\ answer' = [answer EXCEPT ![r] = {}]
    /\ UNCHANGED id

Reject(r) ==
    /\ Ready(r)
    /\ phase' = [phase EXCEPT ![r] = "failed"]
    /\ asked' = [asked EXCEPT ![r] = {}]
    /\ batch' = [batch EXCEPT ![r] = {}]
    /\ answer' = [answer EXCEPT ![r] = {}]
    /\ UNCHANGED id

(* All of B, nothing else, and no id twice.                                *)
Registers(B) ==
    /\ \A p \in Pairs : id'[p] \in Nat
    /\ \A p \in Pairs : id[p] # 0 => id'[p] = id[p]
    /\ \A p \in Pairs : id'[p] # 0 <=> id[p] # 0 \/ p \in B
    /\ \A p, q \in Pairs : id'[p] # 0 /\ id'[p] = id'[q] => p = q

Register(r) ==
    /\ phase[r] = "asked"
    /\ Registers(batch[r])
    /\ \E told \in {"registered", "failed"} : phase' = [phase EXCEPT ![r] = told]
    /\ UNCHANGED <<asked, batch, answer>>

Answer(r) ==
    /\ phase[r] = "registered"
    /\ phase' = [phase EXCEPT ![r] = "answered"]
    /\ answer' = [answer EXCEPT ![r] = {<<p, id[p]>> : p \in batch[r]}]
    /\ UNCHANGED <<id, asked, batch>>

Fail(r) ==
    /\ phase[r] \in {"asked", "registered"}
    /\ phase' = [phase EXCEPT ![r] = "failed"]
    /\ UNCHANGED <<id, asked, batch, answer>>

Next ==
    \E r \in Requests :
        Ask(r) \/ Reject(r) \/ Register(r) \/ Answer(r) \/ Fail(r)

Spec == Init /\ [][Next]_registryVars

=============================================================================
