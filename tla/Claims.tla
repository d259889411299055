-------------------------------- MODULE Claims --------------------------------
(***************************************************************************)
(* A backlog: more trackings are due than one claim may take.  The claim   *)
(* is a transaction that locks the rows it selects, among other claims,    *)
(* applied updates (late and overtaken ones, too) and refreshes.           *)
(*                                                                         *)
(* Times are kept by their order alone: earlier[t] holds the rows that     *)
(* have a smaller next_check_at than t, due those whose time has come.     *)
(* Thus time has no bound and it makes sense to ask what happens for ever. *)
(* Delivered rows have no order: nobody claims them.                       *)
(***************************************************************************)
EXTENDS Naturals, FiniteSets, SequencesExt

CONSTANTS
    Workers, Trackings,
    BatchSize,       \* LIMIT of the claim
    MaxChecks        \* bound: checks of one tracking under way

ASSUME ClaimsAssumption == BatchSize \in Nat \ {0} /\ MaxChecks \in Nat

VARIABLES
    earlier,  \* [rows not delivered -> those with an earlier next_check_at]
    due,      \* the rows that are due
    tx,       \* [Workers -> rows its open claim has locked]
    checks    \* [Trackings -> for each check under way the rows that were
              \*               due longer when it was claimed, and still are]

claimsVars == <<earlier, due, tx, checks>>

Queued  == DOMAIN earlier
Locked  == UNION {tx[w] : w \in Workers}

(* R orders the rows by their times; several may have the same.            *)
IsByTime(R) ==
    \A s, t \in DOMAIN R :
        /\ s \notin R[s]
        /\ IF s \in R[t] THEN R[s] \subseteq R[t] ELSE R[t] \subseteq R[s]

(* Types; and what FOR UPDATE is for: no row is in two open claims, and    *)
(* one that is in a claim stays due until the claim ends                   *)
(* (trackings_repo.go:113-126).                                            *)
ClaimsTypeOK ==
    /\ Queued \subseteq Trackings /\ earlier \in [Queued -> SUBSET Queued]
    /\ IsByTime(earlier)
    /\ due \subseteq Queued /\ \A t \in due : earlier[t] \subseteq due
    /\ tx \in [Workers -> SUBSET due]
    /\ \A v, w \in Workers : v # w => tx[v] \cap tx[w] = {}
    /\ checks \in [Trackings -> Seq(SUBSET Trackings)]
    /\ \A t \in Trackings : /\ Len(checks[t]) <= MaxChecks
                            /\ \A i \in DOMAIN checks[t] :
                                   checks[t][i] \subseteq due \ {t}

ClaimsInit ==
    /\ earlier \in {R \in [Trackings -> SUBSET Trackings] : IsByTime(R)}
    /\ due = Trackings
    /\ tx = [w \in Workers |-> {}]
    /\ checks = [t \in Trackings |-> <<>>]

(* The rows S have got a new next_check_at: nobody waits behind their old  *)
(* one any more.                                                           *)
NotBehind(c, S) ==
    [t \in Trackings |-> [i \in DOMAIN c[t] |-> c[t][i] \ S]]

(* E are the first rows of the queue without S.                            *)
ComeFirst(E, S) ==
    /\ E \subseteq Queued \ S
    /\ \A s \in E, t \in Queued \ (S \cup E) : s \in earlier[t]

(* The rows S come to stand at one time, behind the rows E and before the  *)
(* others.                                                                 *)
Place(S, E) ==
    /\ ComeFirst(E, S)
    /\ earlier' = [t \in Queued \cup S |->
          IF t \in S THEN E
          ELSE IF t \in E THEN earlier[t] \ S
          ELSE earlier[t] \cup S]

TimePasses ==
    /\ due # Queued
    /\ due' = due \cup {t \in Queued : earlier[t] \subseteq due}
    /\ UNCHANGED <<earlier, tx, checks>>

-----------------------------------------------------------------------------
(* ClaimDueTrackings                                                       *)

FreeDue == due \ Locked

(* LIMIT BatchSize of the rows F.                                          *)
Limited(F) ==
    {S \in SUBSET F : Cardinality(S) =
        IF Cardinality(F) < BatchSize THEN Cardinality(F) ELSE BatchSize}

(* Wrong: SKIP LOCKED is missing, and rows are not locked either.          *)
SelectedRegardless ==
    {S \in Limited(due) : \A s \in S, t \in due \ S : t \notin earlier[s]}

(* Wrong: ORDER BY next_check_at DESC.                                     *)
SelectedNewestFirst ==
    {S \in Limited(FreeDue) : \A s \in S, t \in FreeDue \ S : s \notin earlier[t]}

(* ORDER BY next_check_at ASC LIMIT BatchSize FOR UPDATE SKIP LOCKED: what *)
(* may be selected, as the order of equal times is open.                   *)
Selected ==
    {S \in Limited(FreeDue) : \A s \in S, t \in FreeDue \ S : t \notin earlier[s]}

SelectDue(w) ==
    /\ tx[w] = {}
    /\ \E S \in Selected :
          /\ S # {} /\ \A t \in S : Len(checks[t]) < MaxChecks
          /\ tx' = [tx EXCEPT ![w] = S]
    /\ UNCHANGED <<earlier, due, checks>>

(* The lease has ended for all its rows at one time, after those now due   *)
(* and anywhere among the others; each row gets a check.                   *)
CommitClaim(w) ==
    /\ tx[w] # {}
    /\ \E E \in SUBSET (Queued \ tx[w]) : due \ tx[w] \subseteq E /\ Place(tx[w], E)
    /\ due' = due \ tx[w]
    /\ checks' = [t \in Trackings |->
          IF t \in tx[w] THEN Append(NotBehind(checks, tx[w])[t], due \ tx[w])
          ELSE NotBehind(checks, tx[w])[t]]
    /\ tx' = [tx EXCEPT ![w] = {}]

(* An UPDATE or the COMMIT fails: rolled back.                             *)
RollbackClaim(w) ==
    /\ tx[w] # {}
    /\ tx' = [tx EXCEPT ![w] = {}]
    /\ UNCHANGED <<earlier, due, checks>>

-----------------------------------------------------------------------------
(* What moves rows besides                                                 *)

(* A check ends without a message that is applied.                         *)
CheckLost(t) ==
    /\ \E i \in DOMAIN checks[t] :
          checks' = [checks EXCEPT ![t] = RemoveAt(@, i)]
    /\ UNCHANGED <<earlier, due, tx>>

(* next_check_at is a delay after the claim, so later than that of the     *)
(* rows B that were due at the claim, but maybe earlier than all the rest; *)
(* its time may have come already.                                         *)
Reschedule(t, B) ==
    \E E \in SUBSET (Queued \ {t}) :
        /\ B \subseteq E /\ Place({t}, E)
        /\ \/ E \subseteq due /\ due' = due \cup {t}
           \/ due \ {t} \subseteq E /\ due' = due \ {t}

(* Delivered: parked for a year.                                           *)
Park(t) ==
    /\ earlier' = [s \in Queued \ {t} |-> earlier[s] \ {t}]
    /\ due' = due \ {t}

(* ApplyTrackingUpdate, of any check of t that is under way.               *)
Applied(t) ==
    /\ t \notin Locked
    /\ \E i \in DOMAIN checks[t] :
          /\ Reschedule(t, checks[t][i]) \/ Park(t)
          /\ checks' = NotBehind([checks EXCEPT ![t] = RemoveAt(@, i)], {t})
    /\ UNCHANGED tx

(* RefreshTracking: next_check_at is now, behind whoever is due.           *)
RefreshTracking(t) ==
    /\ t \notin Locked /\ t \in Queued
    /\ Place({t}, due \ {t})
    /\ due' = due \cup {t}
    /\ checks' = NotBehind(checks, {t})
    /\ UNCHANGED tx

-----------------------------------------------------------------------------

Claim(w) == SelectDue(w) \/ CommitClaim(w) \/ RollbackClaim(w)

ClaimsNext ==
    \/ TimePasses
    \/ \E w \in Workers : Claim(w)
    \/ \E t \in Trackings : CheckLost(t) \/ Applied(t) \/ RefreshTracking(t)

ClaimsSpec == ClaimsInit /\ [][ClaimsNext]_claimsVars

(* Workers poll; checks end; and a claim of a row that is tried for ever   *)
(* is committed sometimes.                                                 *)
ClaimsFairSpec ==
    /\ ClaimsSpec
    /\ \A w \in Workers :
          /\ WF_claimsVars(Claim(w))
          /\ \A t \in Trackings : SF_claimsVars(t \in tx[w] /\ CommitClaim(w))
    /\ \A t \in Trackings : WF_claimsVars(CheckLost(t) \/ Applied(t))

-----------------------------------------------------------------------------

(* However long the backlog, and whatever late updates, lost checks and    *)
(* refreshes of others put before it, a tracking that is due gets claimed: *)
(* only refreshing it again and again can keep it waiting.                 *)
DueIsClaimed ==
    \A t \in Trackings :
        []<>(t \notin due) \/ []<><<RefreshTracking(t)>>_claimsVars

=============================================================================
