------------------------------ MODULE RateLimit ------------------------------
(***************************************************************************)
(* The limiter in front of the carriers: goroutines of any number of       *)
(* workers count a check in Redis under a key of the carrier and of the    *)
(* minute in which the check began.  MULTI/EXEC runs INCR and EXPIRE as    *)
(* one step; the reply says whether the limit is still kept.  Over the     *)
(* limit the goroutine sleeps 500 ms and calls the carrier all the same.   *)
(***************************************************************************)
EXTENDS Naturals, FiniteSets

CONSTANTS
    Goroutines,     \* goroutines of processOne, of all workers
    Carriers,
    CarrierLimit,   \* [Carriers -> limit of its own, 0 for none]
    GlobalLimit,    \* requests per minute of the other carriers
    Minute,         \* ticks in a minute
    KeyTTL,         \* ticks a key outlives its last use (70 seconds)
    MaxDelay        \* ticks from the start of a check to Redis' answer

CONSTANTS           \* bounds of the model
    MaxTime, MaxChecks

ASSUME RateAssumption ==
    /\ IsFiniteSet(Goroutines)
    /\ CarrierLimit \in [Carriers -> Nat] /\ GlobalLimit \in Nat \ {0}
    /\ Minute \in Nat \ {0} /\ KeyTTL \in Nat /\ MaxDelay \in Nat
    /\ Minute + MaxDelay <= KeyTTL
    /\ MaxTime \in Nat /\ MaxChecks \in Nat

VARIABLES
    now,
    key,      \* [Carriers -> [Minutes -> counter in Redis and its expiry]]
    check,    \* [Goroutines -> the check it is at]
    calls,    \* [Carriers -> [Minutes -> requests sent, by limiter's reply]]
    checks    \* checks begun

vars == <<now, key, check, calls, checks>>

MinuteOf(t) == t \div Minute
Minutes == 0..MinuteOf(MaxTime)

Key   == [count : Nat, expires : Nat]
NoKey == [count |-> 0, expires |-> 0]
Check == [pc : {"idle", "asking", "sleeping", "calling"}, carrier : Carriers,
          at : Nat, allowed : BOOLEAN]
Sent  == [allowed : Nat, over : Nat]

TypeOK ==
    /\ now \in Nat
    /\ key \in [Carriers -> [Minutes -> Key]]
    /\ check \in [Goroutines -> Check]
    /\ calls \in [Carriers -> [Minutes -> Sent]]
    /\ checks \in Nat

Init ==
    /\ now = 0
    /\ key = [c \in Carriers |-> [m \in Minutes |-> NoKey]]
    /\ \E c \in Carriers :
          check = [g \in Goroutines |-> [pc |-> "idle", carrier |-> c,
                                         at |-> 0, allowed |-> FALSE]]
    /\ calls = [c \in Carriers |-> [m \in Minutes |->
                                       [allowed |-> 0, over |-> 0]]]
    /\ checks = 0

LimitOf(c) == IF CarrierLimit[c] > 0 THEN CarrierLimit[c] ELSE GlobalLimit

-----------------------------------------------------------------------------

(* Redis drops the keys whose time has come.                               *)
Tick ==
    /\ now < MaxTime
    /\ now' = now + 1
    /\ key' = [c \in Carriers |-> [m \in Minutes |->
                  IF key[c][m].expires <= now' THEN NoKey ELSE key[c][m]]]
    /\ UNCHANGED <<check, calls, checks>>

(* Wrong: the clock is read before the goroutine has its slot.             *)
BeginInThePast(g, c) ==
    /\ check[g].pc = "idle" /\ checks < MaxChecks
    /\ checks' = checks + 1
    /\ check' = [check EXCEPT ![g] = [pc |-> "asking", carrier |-> c,
                                      at |-> now - 1, allowed |-> FALSE]]
    /\ UNCHANGED <<now, key, calls>>

(* processOne reads the clock: the minute of the key is fixed here.        *)
Begin(g, c) ==
    /\ check[g].pc = "idle" /\ checks < MaxChecks
    /\ checks' = checks + 1
    /\ check' = [check EXCEPT ![g] = [pc |-> "asking", carrier |-> c,
                                      at |-> now, allowed |-> FALSE]]
    /\ UNCHANGED <<now, key, calls>>

InTime(g) == now <= check[g].at + MaxDelay

(* Wrong: a key that lives for a minute, not a little longer.              *)
CountedForMinute(k) == [count |-> k.count + 1, expires |-> now + Minute]

(* INCR and EXPIRE, whether or not the key was there.                      *)
Counted(k) == [count |-> k.count + 1, expires |-> now + KeyTTL]

(* The check is counted first, then compared with the limit.               *)
Allow(g) ==
    LET c == check[g].carrier  m == MinuteOf(check[g].at)
        allowed == key'[c][m].count <= LimitOf(c)
    IN  /\ check[g].pc = "asking" /\ InTime(g)
        /\ key' = [key EXCEPT ![c][m] = Counted(@)]
        /\ check' = [check EXCEPT
                        ![g].pc = IF allowed THEN "calling" ELSE "sleeping",
                        ![g].allowed = allowed]
        /\ UNCHANGED <<now, calls, checks>>

(* Redis cannot be reached, or its reply is lost after EXEC: the check is  *)
(* given up, the carrier is not called.                                    *)
AllowFails(g) ==
    LET c == check[g].carrier  m == MinuteOf(check[g].at)
    IN  /\ check[g].pc = "asking"
        /\ \/ UNCHANGED key
           \/ InTime(g) /\ key' = [key EXCEPT ![c][m] = Counted(@)]
        /\ check' = [check EXCEPT ![g].pc = "idle"]
        /\ UNCHANGED <<now, calls, checks>>

(* 500 ms later.                                                           *)
WakeUp(g) ==
    /\ check[g].pc = "sleeping"
    /\ check' = [check EXCEPT ![g].pc = "calling"]
    /\ UNCHANGED <<now, key, calls, checks>>

(* carrier.GetTracking, with either reply of the limiter.                  *)
CallCarrier(g) ==
    LET c == check[g].carrier  m == MinuteOf(check[g].at)
    IN  /\ check[g].pc = "calling"
        /\ calls' = IF check[g].allowed
                    THEN [calls EXCEPT ![c][m].allowed = @ + 1]
                    ELSE [calls EXCEPT ![c][m].over = @ + 1]
        /\ check' = [check EXCEPT ![g].pc = "idle"]
        /\ UNCHANGED <<now, key, checks>>

(* The bounds of the model are reached: nothing is left to explore.        *)
BoundsReached ==
    /\ now = MaxTime /\ checks = MaxChecks
    /\ \A g \in Goroutines : check[g].pc = "idle"
    /\ UNCHANGED vars

Next ==
    \/ Tick
    \/ BoundsReached
    \/ \E g \in Goroutines :
          \/ \E c \in Carriers : Begin(g, c)
          \/ Allow(g)
          \/ AllowFails(g)
          \/ WakeUp(g)
          \/ CallCarrier(g)

Spec == Init /\ [][Next]_vars

-----------------------------------------------------------------------------

(* However goroutines and workers interleave, and wherever a check meets   *)
(* the end of its minute, no more requests are allowed per minute than the *)
(* limit of the carrier: a key must outlive the last check that counts on  *)
(* it, which the 10 seconds beyond the minute are for.                     *)
AllowedWithinLimit ==
    \A c \in Carriers, m \in Minutes : calls[c][m].allowed <= LimitOf(c)

(* "Keeps the rate limit per carrier" (README): the requests sent on       *)
(* account of a minute are at most the carrier's limit.                    *)
LimitKept ==
    \A c \in Carriers, m \in Minutes :
        calls[c][m].allowed + calls[c][m].over <= LimitOf(c)

=============================================================================
