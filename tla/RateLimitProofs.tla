--------------------------- MODULE RateLimitProofs ---------------------------
(* Proofs about RateLimit, for every value of its constants.               *)
EXTENDS RateLimit, FiniteSetTheorems, TLAPS

(* A moment lies within its minute.                                        *)
LEMMA MinuteBounds ==
    ASSUME NEW t \in Nat
    PROVE  /\ MinuteOf(t) \in Nat
           /\ MinuteOf(t) * Minute <= t
           /\ t < MinuteOf(t) * Minute + Minute
BY RateAssumption DEF MinuteOf

(* The moments of the model lie in its minutes.                            *)
LEMMA MinuteInRange ==
    ASSUME NEW t \in 0..MaxTime
    PROVE  MinuteOf(t) \in Minutes
<1> DEFINE a == MinuteOf(t)
           b == MinuteOf(MaxTime)
<1>1. /\ a \in Nat /\ a * Minute <= t
      /\ b \in Nat /\ MaxTime < b * Minute + Minute
  BY MinuteBounds, RateAssumption
<1>2. ASSUME a > b PROVE FALSE
  <2>1. a * Minute >= (b + 1) * Minute
    BY <1>1, <1>2, RateAssumption
  <2>2. (b + 1) * Minute = b * Minute + Minute
    BY <1>1, RateAssumption
  <2>3. /\ a * Minute \in Nat /\ b * Minute \in Nat /\ t \in Nat /\ t <= MaxTime
        /\ Minute \in Nat /\ MaxTime \in Nat
    BY <1>1, RateAssumption
  <2>4. QED BY <1>1, <2>1, <2>2, <2>3
<1>3. a <= b
  BY <1>1, <1>2
<1>4. QED BY <1>1, <1>3 DEF Minutes

-----------------------------------------------------------------------------
(* The inductive invariant: while a check that counts on a key can still   *)
(* come, the key is there and knows of every request that was allowed.     *)

(* Checks that were allowed on account of minute m and have not called.    *)
Pending(c, m) ==
    {g \in Goroutines : /\ check[g].pc = "calling" /\ check[g].allowed
                        /\ check[g].carrier = c /\ MinuteOf(check[g].at) = m}

Granted(c, m) == calls[c][m].allowed + Cardinality(Pending(c, m))

(* The last moment at which a check of minute m may be counted is past.    *)
Closed(m) == m * Minute + Minute + MaxDelay

ClockInOrder ==
    /\ now <= MaxTime
    /\ \A g \in Goroutines : check[g].at <= now
    /\ \A g \in Goroutines : check[g].pc = "sleeping" => ~check[g].allowed

KeyOutlives ==
    \A c \in Carriers, m \in Minutes :
        key[c][m].count > 0 => key[c][m].expires >= Closed(m)

KeyKnows ==
    \A c \in Carriers, m \in Minutes :
        now < Closed(m) => Granted(c, m) <= key[c][m].count

GrantedWithinLimit ==
    \A c \in Carriers, m \in Minutes : Granted(c, m) <= LimitOf(c)

RateInv ==
    TypeOK /\ ClockInOrder /\ KeyOutlives /\ KeyKnows /\ GrantedWithinLimit

LEMMA LimitType == \A c \in Carriers : LimitOf(c) \in Nat
BY RateAssumption DEF LimitOf

LEMMA PendingFinite ==
    \A c \in Carriers, m \in Minutes :
        IsFiniteSet(Pending(c, m)) /\ Cardinality(Pending(c, m)) \in Nat
<1> TAKE c \in Carriers, m \in Minutes
<1>1. Pending(c, m) \subseteq Goroutines
  BY DEF Pending
<1>2. IsFiniteSet(Pending(c, m))
  BY <1>1, RateAssumption, FS_Subset
<1>3. QED BY <1>2, FS_CardinalityType

LEMMA GrantedType ==
    ASSUME TypeOK, NEW c \in Carriers, NEW m \in Minutes
    PROVE  Granted(c, m) \in Nat
<1>1. calls[c][m] \in Sent
  BY DEF TypeOK
<1>2. QED BY <1>1, PendingFinite DEF Granted, Sent

LEMMA ClosedType == \A m \in Minutes : Closed(m) \in Nat
<1>1. MinuteOf(MaxTime) \in Nat
  BY MinuteBounds, RateAssumption
<1>2. \A m \in Minutes : m \in Nat
  BY <1>1 DEF Minutes
<1>3. \A m \in Minutes : m * Minute \in Nat
  BY <1>2, RateAssumption
<1>4. QED BY <1>3, RateAssumption DEF Closed

(* Before anything was checked nothing is granted.                         *)
LEMMA InitRate == Init => RateInv
<1> SUFFICES ASSUME Init PROVE RateInv
  OBVIOUS
<1>1. PICK c0 \in Carriers :
         check = [g \in Goroutines |-> [pc |-> "idle", carrier |-> c0,
                                        at |-> 0, allowed |-> FALSE]]
  BY DEF Init
<1>2. TypeOK
  BY <1>1 DEF Init, TypeOK, Key, NoKey, Check, Sent
<1>3. ClockInOrder
  BY <1>1, RateAssumption DEF Init, ClockInOrder
<1>4. KeyOutlives
  BY DEF Init, KeyOutlives, NoKey
<1>5. \A c \in Carriers, m \in Minutes : Granted(c, m) = 0
  <2> TAKE c \in Carriers, m \in Minutes
  <2>1. Pending(c, m) = {}
    BY <1>1 DEF Pending
  <2>2. calls[c][m].allowed = 0
    BY DEF Init
  <2>3. QED BY <2>1, <2>2, FS_EmptySet DEF Granted
<1>6. KeyKnows
  BY <1>5 DEF KeyKnows, Init, NoKey
<1>7. GrantedWithinLimit
  BY <1>5, LimitType DEF GrantedWithinLimit
<1>8. QED BY <1>2, <1>3, <1>4, <1>6, <1>7 DEF RateInv

-----------------------------------------------------------------------------
(* Steps.                                                                  *)

(* A check is at a carrier, and at a minute of the model.                  *)
LEMMA CheckAt ==
    ASSUME RateInv, NEW g \in Goroutines
    PROVE  /\ check[g] \in Check
           /\ check[g].carrier \in Carriers
           /\ MinuteOf(check[g].at) \in Minutes
<1>1. check[g] \in Check /\ check[g].at <= now /\ now <= MaxTime /\ now \in Nat
  BY DEF RateInv, TypeOK, ClockInOrder
<1>2. check[g].at \in 0..MaxTime
  BY <1>1, RateAssumption DEF Check
<1>3. QED BY <1>1, <1>2, MinuteInRange DEF Check

(* A step that counts: one key gets one more and a new expiry.             *)
Counts(g) ==
    key' = [key EXCEPT ![check[g].carrier][MinuteOf(check[g].at)] = Counted(@)]

LEMMA CountsKey ==
    ASSUME RateInv, NEW g \in Goroutines, Counts(g)
    PROVE  /\ key' \in [Carriers -> [Minutes -> Key]]
           /\ \A c \in Carriers, m \in Minutes :
                 key'[c][m] = IF c = check[g].carrier /\ m = MinuteOf(check[g].at)
                              THEN Counted(key[c][m]) ELSE key[c][m]
<1> DEFINE c0 == check[g].carrier
           m0 == MinuteOf(check[g].at)
<1>1. key \in [Carriers -> [Minutes -> Key]] /\ now \in Nat
  BY DEF RateInv, TypeOK
<1>2. c0 \in Carriers /\ m0 \in Minutes
  BY CheckAt
<1>3. key[c0][m0] \in Key
  BY <1>1, <1>2
<1>4. Counted(key[c0][m0]) \in Key
  BY <1>1, <1>3, RateAssumption DEF Key, Counted
<1>5. key' = [key EXCEPT ![c0][m0] = Counted(key[c0][m0])]
  BY DEF Counts
<1> HIDE DEF c0, m0
<1>6. key' \in [Carriers -> [Minutes -> Key]]
  BY <1>1, <1>2, <1>4, <1>5
<1>7. \A c \in Carriers, m \in Minutes :
         key'[c][m] = IF c = c0 /\ m = m0 THEN Counted(key[c][m]) ELSE key[c][m]
  BY <1>1, <1>2, <1>5
<1>8. QED BY <1>6, <1>7 DEF c0, m0

(* What the reply of the limiter does.                                     *)
LEMMA AllowForm ==
    ASSUME RateInv, NEW g \in Goroutines, Allow(g)
    PROVE  LET c0 == check[g].carrier
               m0 == MinuteOf(check[g].at)
           IN  /\ Counts(g) /\ InTime(g)
               /\ UNCHANGED <<now, calls, checks>>
               /\ \E a \in BOOLEAN :
                     /\ a = (key[c0][m0].count + 1 <= LimitOf(c0))
                     /\ check' = [check EXCEPT ![g] =
                                    [@ EXCEPT !.pc = IF a THEN "calling" ELSE "sleeping",
                                              !.allowed = a]]
<1> DEFINE c0 == check[g].carrier
           m0 == MinuteOf(check[g].at)
           a  == key'[c0][m0].count <= LimitOf(c0)
<1>1. Counts(g) /\ InTime(g) /\ UNCHANGED <<now, calls, checks>>
  BY DEF Allow, Counts
<1>2. c0 \in Carriers /\ m0 \in Minutes
  BY CheckAt
<1>3. key'[c0][m0].count = key[c0][m0].count + 1
  <2>1. key'[c0][m0] = Counted(key[c0][m0])
    BY <1>1, <1>2, CountsKey
  <2>2. QED BY <2>1 DEF Counted
<1>4. check' = [check EXCEPT ![g].pc = IF a THEN "calling" ELSE "sleeping",
                             ![g].allowed = a]
  BY DEF Allow
<1>5. a \in BOOLEAN /\ a = (key[c0][m0].count + 1 <= LimitOf(c0))
  BY <1>3
<1> HIDE DEF a
<1>6. check' = [check EXCEPT ![g] =
                   [@ EXCEPT !.pc = IF a THEN "calling" ELSE "sleeping",
                             !.allowed = a]]
  BY <1>4 DEF RateInv, TypeOK
<1>7. QED BY <1>1, <1>5, <1>6

(* What a request to the carrier does.                                     *)
LEMMA CallForm ==
    ASSUME RateInv, NEW g \in Goroutines, CallCarrier(g)
    PROVE  /\ UNCHANGED <<now, key, checks>>
           /\ check[g].pc = "calling"
           /\ check' = [check EXCEPT ![g].pc = "idle"]
           /\ calls' \in [Carriers -> [Minutes -> Sent]]
           /\ \A c \in Carriers, m \in Minutes :
                 calls'[c][m].allowed =
                    IF /\ c = check[g].carrier /\ m = MinuteOf(check[g].at)
                       /\ check[g].allowed
                    THEN calls[c][m].allowed + 1 ELSE calls[c][m].allowed
<1> DEFINE c0 == check[g].carrier
           m0 == MinuteOf(check[g].at)
           s0 == IF check[g].allowed THEN [calls[c0][m0] EXCEPT !.allowed = @ + 1]
                                     ELSE [calls[c0][m0] EXCEPT !.over = @ + 1]
<1>1. calls \in [Carriers -> [Minutes -> Sent]]
  BY DEF RateInv, TypeOK
<1>2. c0 \in Carriers /\ m0 \in Minutes
  BY CheckAt
<1>3. calls[c0][m0] \in Sent
  BY <1>1, <1>2
<1>4. /\ s0 \in Sent
      /\ s0.allowed = IF check[g].allowed THEN calls[c0][m0].allowed + 1
                                          ELSE calls[c0][m0].allowed
  BY <1>3 DEF Sent
<1>5. calls' = [calls EXCEPT ![c0][m0] = s0]
  BY DEF CallCarrier
<1> HIDE DEF c0, m0, s0
<1>6. calls' \in [Carriers -> [Minutes -> Sent]]
  BY <1>1, <1>2, <1>4, <1>5
<1>7. \A c \in Carriers, m \in Minutes :
         calls'[c][m].allowed = IF c = c0 /\ m = m0 THEN s0.allowed
                                                    ELSE calls[c][m].allowed
  BY <1>1, <1>2, <1>5
<1>8. QED BY <1>4, <1>6, <1>7 DEF CallCarrier, c0, m0

(* Every step keeps every variable in its type.                            *)
LEMMA NextType == RateInv /\ [Next]_vars => TypeOK'
<1> SUFFICES ASSUME RateInv, [Next]_vars PROVE TypeOK'
  OBVIOUS
<1>1. /\ now \in Nat /\ now <= MaxTime
      /\ key \in [Carriers -> [Minutes -> Key]]
      /\ check \in [Goroutines -> Check]
      /\ calls \in [Carriers -> [Minutes -> Sent]]
      /\ checks \in Nat
  BY DEF RateInv, TypeOK, ClockInOrder
<1>3. CASE UNCHANGED vars
  BY <1>1, <1>3 DEF vars, TypeOK
<1>4. CASE Tick
  <2>1. key' \in [Carriers -> [Minutes -> Key]]
    BY <1>1, <1>4 DEF Tick, Key, NoKey
  <2>2. QED BY <1>1, <1>4, <2>1 DEF Tick, TypeOK
<1>5. ASSUME NEW g \in Goroutines, NEW c \in Carriers, Begin(g, c) PROVE TypeOK'
  BY <1>1, <1>5 DEF Begin, TypeOK, Check
<1>6. ASSUME NEW g \in Goroutines, Allow(g) PROVE TypeOK'
  <2>1. key' \in [Carriers -> [Minutes -> Key]]
    BY <1>6, AllowForm, CountsKey
  <2>2. PICK a \in BOOLEAN :
           check' = [check EXCEPT ![g] =
                       [@ EXCEPT !.pc = IF a THEN "calling" ELSE "sleeping",
                                 !.allowed = a]]
    BY <1>6, AllowForm
  <2>3. check' \in [Goroutines -> Check]
    BY <1>1, <2>2 DEF Check
  <2>4. QED BY <1>1, <1>6, <2>1, <2>3, AllowForm DEF TypeOK
<1>7. ASSUME NEW g \in Goroutines, AllowFails(g) PROVE TypeOK'
  <2>1. key' = key \/ Counts(g)
    BY <1>7 DEF AllowFails, Counts
  <2>2. key' \in [Carriers -> [Minutes -> Key]]
    BY <1>1, <2>1, CountsKey
  <2>3. check' \in [Goroutines -> Check]
    BY <1>1, <1>7 DEF AllowFails, Check
  <2>4. QED BY <1>1, <1>7, <2>2, <2>3 DEF AllowFails, TypeOK
<1>8. ASSUME NEW g \in Goroutines, WakeUp(g) PROVE TypeOK'
  BY <1>1, <1>8 DEF WakeUp, TypeOK, Check
<1>9. ASSUME NEW g \in Goroutines, CallCarrier(g) PROVE TypeOK'
  <2>1. check' \in [Goroutines -> Check]
    <3>1. check' = [check EXCEPT ![g].pc = "idle"]
      BY <1>9, CallForm
    <3>2. QED BY <1>1, <3>1 DEF Check
  <2>2. QED BY <1>1, <1>9, <2>1, CallForm DEF TypeOK
<1>10. QED
  BY <1>3, <1>4, <1>5, <1>6, <1>7, <1>8, <1>9 DEF Next, BoundsReached

(* Where goroutine g stands after a step of its own; the others stay.      *)
LEMMA NextClock == RateInv /\ [Next]_vars => ClockInOrder'
<1> SUFFICES ASSUME RateInv, [Next]_vars PROVE ClockInOrder'
  OBVIOUS
<1>1. /\ now \in Nat /\ now <= MaxTime /\ MaxTime \in Nat
      /\ check \in [Goroutines -> Check]
      /\ \A g \in Goroutines : check[g].at \in Nat /\ check[g].at <= now
      /\ \A g \in Goroutines : check[g].pc = "sleeping" => ~check[g].allowed
  BY RateAssumption DEF RateInv, TypeOK, ClockInOrder, Check
<1>2. CASE UNCHANGED vars
  BY <1>1, <1>2 DEF vars, ClockInOrder
<1>3. CASE Tick
  <2>1. now' = now + 1 /\ now' <= MaxTime /\ check' = check
    BY <1>1, <1>3 DEF Tick
  <2>2. QED BY <1>1, <2>1 DEF ClockInOrder
<1>4. ASSUME NEW g \in Goroutines, NEW c \in Carriers, Begin(g, c)
      PROVE  ClockInOrder'
  BY <1>1, <1>4 DEF Begin, ClockInOrder
<1>5. ASSUME NEW g \in Goroutines, Allow(g) PROVE ClockInOrder'
  <2>1. PICK a \in BOOLEAN :
           check' = [check EXCEPT ![g] =
                       [@ EXCEPT !.pc = IF a THEN "calling" ELSE "sleeping",
                                 !.allowed = a]]
    BY <1>5, AllowForm
  <2>2. now' = now
    BY <1>5, AllowForm
  <2>3. QED BY <1>1, <2>1, <2>2 DEF ClockInOrder, Check
<1>6. ASSUME NEW g \in Goroutines, AllowFails(g) \/ WakeUp(g) \/ CallCarrier(g)
      PROVE  ClockInOrder'
  BY <1>1, <1>6 DEF AllowFails, WakeUp, CallCarrier, ClockInOrder, Check
<1>7. QED
  BY <1>2, <1>3, <1>4, <1>5, <1>6 DEF Next, BoundsReached

(* Counting moves the expiry of a key of an open minute past its closing.  *)
LEMMA CountedOutlives ==
    ASSUME RateInv, NEW g \in Goroutines, NEW k \in Key
    PROVE  Counted(k).expires >= Closed(MinuteOf(check[g].at))
<1>1. /\ now \in Nat /\ check[g].at \in Nat /\ check[g].at <= now
  BY DEF RateInv, TypeOK, ClockInOrder, Check
<1>2. /\ MinuteOf(check[g].at) \in Nat
      /\ MinuteOf(check[g].at) * Minute <= check[g].at
  BY <1>1, MinuteBounds
<1>3. MinuteOf(check[g].at) * Minute \in Nat
  BY <1>2, RateAssumption
<1>4. Counted(k).expires = now + KeyTTL
  BY DEF Counted
<1>5. QED BY <1>1, <1>2, <1>3, <1>4, RateAssumption DEF Closed

LEMMA NextOutlives == RateInv /\ [Next]_vars => KeyOutlives'
<1> SUFFICES ASSUME RateInv, [Next]_vars, NEW c \in Carriers, NEW m \in Minutes,
                    key'[c][m].count > 0
             PROVE  key'[c][m].expires >= Closed(m)
  BY DEF KeyOutlives, Closed
<1>1. key \in [Carriers -> [Minutes -> Key]] /\ key[c][m] \in Key
  BY DEF RateInv, TypeOK
<1>2. key[c][m].count > 0 => key[c][m].expires >= Closed(m)
  BY DEF RateInv, KeyOutlives
<1>3. CASE key'[c][m] = key[c][m]
  BY <1>2, <1>3
<1>4. CASE Tick
  <2>1. key'[c][m] = NoKey \/ key'[c][m] = key[c][m]
    BY <1>4 DEF Tick
  <2>2. key'[c][m] # NoKey
    BY DEF NoKey
  <2>3. QED BY <1>3, <2>1, <2>2
<1>5. ASSUME NEW g \in Goroutines, Counts(g)
      PROVE  key'[c][m].expires >= Closed(m)
  <2>1. CASE c = check[g].carrier /\ m = MinuteOf(check[g].at)
    BY <1>1, <1>5, <2>1, CountsKey, CountedOutlives
  <2>2. CASE ~(c = check[g].carrier /\ m = MinuteOf(check[g].at))
    BY <1>3, <1>5, <2>2, CountsKey
  <2>3. QED BY <2>1, <2>2
<1>6. CASE UNCHANGED key
  BY <1>3, <1>6
<1>7. QED
  BY <1>4, <1>5, <1>6
     DEF Next, vars, BoundsReached, Begin, Allow, AllowFails, WakeUp, CallCarrier,
         Counts

-----------------------------------------------------------------------------
(* What is granted.                                                        *)

(* g is pending on account of minute m of carrier c.                       *)
IsPending(g, c, m) ==
    /\ check[g].pc = "calling" /\ check[g].allowed
    /\ check[g].carrier = c /\ MinuteOf(check[g].at) = m

(* A step of g leaves the other goroutines pending or not.                 *)
LEMMA PendingOfOthers ==
    ASSUME RateInv, NEW g \in Goroutines, NEW k, check' = [check EXCEPT ![g] = k],
           NEW c \in Carriers, NEW m \in Minutes
    PROVE  /\ (IsPending(g, c, m)' <=> IsPending(g, c, m)) => Pending(c, m)' = Pending(c, m)
           /\ ~IsPending(g, c, m) /\ IsPending(g, c, m)' =>
                 Cardinality(Pending(c, m)') = Cardinality(Pending(c, m)) + 1
           /\ IsPending(g, c, m) /\ ~IsPending(g, c, m)' =>
                 Cardinality(Pending(c, m)') = Cardinality(Pending(c, m)) - 1
<1>1. \A h \in Goroutines : h # g => check'[h] = check[h]
  BY DEF RateInv, TypeOK
<1>2. \A h \in Goroutines :
         /\ h \in Pending(c, m) <=> IsPending(h, c, m)
         /\ h \in Pending(c, m)' <=> IsPending(h, c, m)'
  BY DEF Pending, IsPending
<1>3. \A h \in Goroutines : h # g => (IsPending(h, c, m)' <=> IsPending(h, c, m))
  BY <1>1 DEF IsPending, MinuteOf
<1>4. Pending(c, m) \subseteq Goroutines /\ Pending(c, m)' \subseteq Goroutines
  BY DEF Pending
<1>5. IsFiniteSet(Pending(c, m)) /\ Cardinality(Pending(c, m)) \in Nat
  BY PendingFinite
<1>6. ASSUME IsPending(g, c, m)' <=> IsPending(g, c, m)
      PROVE  Pending(c, m)' = Pending(c, m)
  BY <1>2, <1>3, <1>4, <1>6
<1>7. ASSUME ~IsPending(g, c, m), IsPending(g, c, m)'
      PROVE  Cardinality(Pending(c, m)') = Cardinality(Pending(c, m)) + 1
  <2>1. Pending(c, m)' = Pending(c, m) \cup {g} /\ g \notin Pending(c, m)
    BY <1>2, <1>3, <1>4, <1>7
  <2>2. QED BY <1>5, <2>1, FS_AddElement
<1>8. ASSUME IsPending(g, c, m), ~IsPending(g, c, m)'
      PROVE  Cardinality(Pending(c, m)') = Cardinality(Pending(c, m)) - 1
  <2>1. Pending(c, m)' = Pending(c, m) \ {g} /\ g \in Pending(c, m)
    BY <1>2, <1>3, <1>4, <1>8
  <2>2. QED BY <1>5, <2>1, FS_RemoveElement
<1>9. QED BY <1>6, <1>7, <1>8

(* A step that grants nothing.                                             *)
LEMMA NothingGranted ==
    ASSUME RateInv, UNCHANGED <<calls, check>>, NEW c \in Carriers, NEW m \in Minutes
    PROVE  Granted(c, m)' = Granted(c, m)
BY DEF Granted, Pending

(* Steps of a goroutine other than the limiter's reply and the request.    *)
LEMMA QuietGranted ==
    ASSUME RateInv, NEW g \in Goroutines, NEW c \in Carriers, NEW m \in Minutes,
           (\E d \in Carriers : Begin(g, d)) \/ AllowFails(g) \/ WakeUp(g)
    PROVE  Granted(c, m)' = Granted(c, m)
<1>1. check \in [Goroutines -> Check] /\ check[g] \in Check
  BY DEF RateInv, TypeOK
<1>2. PICK k : check' = [check EXCEPT ![g] = k] /\ (k.pc = "calling" => ~k.allowed)
  <2>1. ASSUME NEW d \in Carriers, Begin(g, d)
        PROVE  \E k : check' = [check EXCEPT ![g] = k] /\ (k.pc = "calling" => ~k.allowed)
    <3> DEFINE j == [pc |-> "asking", carrier |-> d, at |-> now, allowed |-> FALSE]
    <3>1. j.pc = "asking" /\ check' = [check EXCEPT ![g] = j]
      BY <2>1 DEF Begin
    <3> HIDE DEF j
    <3>2. QED BY <3>1
  <2>2. ASSUME AllowFails(g)
        PROVE  \E k : check' = [check EXCEPT ![g] = k] /\ (k.pc = "calling" => ~k.allowed)
    <3>1. [check[g] EXCEPT !.pc = "idle"].pc = "idle"
      BY <1>1 DEF Check
    <3>2. QED BY <2>2, <3>1 DEF AllowFails
  <2>3. ASSUME WakeUp(g)
        PROVE  \E k : check' = [check EXCEPT ![g] = k] /\ (k.pc = "calling" => ~k.allowed)
    <3>1. [check[g] EXCEPT !.pc = "calling"].allowed = check[g].allowed
      BY <1>1 DEF Check
    <3>2. ~check[g].allowed
      BY <2>3 DEF WakeUp, RateInv, ClockInOrder
    <3>3. QED BY <2>3, <3>1, <3>2 DEF WakeUp
  <2>4. QED BY <2>1, <2>2, <2>3
<1>3. check'[g] = k
  BY <1>1, <1>2
<1>4. ~IsPending(g, c, m)'
  BY <1>2, <1>3 DEF IsPending
<1>5. ~IsPending(g, c, m)
  BY DEF IsPending, Begin, AllowFails, WakeUp
<1>6. Pending(c, m)' = Pending(c, m)
  BY <1>2, <1>4, <1>5, PendingOfOthers
<1>7. calls' = calls
  BY DEF Begin, AllowFails, WakeUp
<1>8. QED BY <1>6, <1>7 DEF Granted

(* A request that was allowed ceases to be pending when it is sent.        *)
LEMMA CallGranted ==
    ASSUME RateInv, NEW g \in Goroutines, NEW c \in Carriers, NEW m \in Minutes,
           CallCarrier(g)
    PROVE  Granted(c, m)' = Granted(c, m)
<1>1. check \in [Goroutines -> Check] /\ check[g] \in Check
      /\ calls[c][m] \in Sent
  BY DEF RateInv, TypeOK
<1>2. check' = [check EXCEPT ![g] = [@ EXCEPT !.pc = "idle"]] /\ check[g].pc = "calling"
  BY CallForm
<1>3. ~IsPending(g, c, m)'
  BY <1>1, <1>2 DEF IsPending, Check
<1>4. Cardinality(Pending(c, m)) \in Nat /\ calls[c][m].allowed \in Nat
  BY <1>1, PendingFinite DEF Sent
<1>5. CASE IsPending(g, c, m)
  <2>1. Cardinality(Pending(c, m)') = Cardinality(Pending(c, m)) - 1
    BY <1>2, <1>3, <1>5, PendingOfOthers
  <2>2. calls'[c][m].allowed = calls[c][m].allowed + 1
    BY <1>5, CallForm DEF IsPending
  <2>3. QED BY <1>4, <2>1, <2>2 DEF Granted
<1>6. CASE ~IsPending(g, c, m)
  <2>1. Pending(c, m)' = Pending(c, m)
    BY <1>2, <1>3, <1>6, PendingOfOthers
  <2>2. calls'[c][m].allowed = calls[c][m].allowed
    BY <1>2, <1>6, CallForm DEF IsPending
  <2>3. QED BY <2>1, <2>2 DEF Granted
<1>7. QED BY <1>5, <1>6

(* The limiter's reply: a check that is allowed is granted, once, and      *)
(* counted in its key before.                                              *)
LEMMA AllowGranted ==
    ASSUME RateInv, NEW g \in Goroutines, NEW c \in Carriers, NEW m \in Minutes,
           Allow(g)
    PROVE  \/ Granted(c, m)' = Granted(c, m)
           \/ /\ c = check[g].carrier /\ m = MinuteOf(check[g].at)
              /\ Granted(c, m)' = Granted(c, m) + 1
              /\ key[c][m].count + 1 <= LimitOf(c)
<1>1. check \in [Goroutines -> Check] /\ check[g] \in Check
      /\ calls[c][m] \in Sent
  BY DEF RateInv, TypeOK
<1>2. PICK a \in BOOLEAN :
         /\ a = (key[check[g].carrier][MinuteOf(check[g].at)].count + 1
                   <= LimitOf(check[g].carrier))
         /\ check' = [check EXCEPT ![g] =
                        [@ EXCEPT !.pc = IF a THEN "calling" ELSE "sleeping",
                                  !.allowed = a]]
  BY AllowForm
<1>3. calls' = calls
  BY AllowForm
<1>4. check'[g].carrier = check[g].carrier /\ check'[g].at = check[g].at
      /\ check'[g].allowed = a
  BY <1>1, <1>2 DEF Check
<1>5. ~IsPending(g, c, m)
  BY DEF Allow, IsPending
<1>6. CASE IsPending(g, c, m)'
  <2>1. a /\ c = check[g].carrier /\ m = MinuteOf(check[g].at)
    BY <1>4, <1>6 DEF IsPending, MinuteOf
  <2>2. Cardinality(Pending(c, m)') = Cardinality(Pending(c, m)) + 1
    BY <1>2, <1>5, <1>6, PendingOfOthers
  <2>3. Granted(c, m)' = Granted(c, m) + 1
    <3>1. Cardinality(Pending(c, m)) \in Nat /\ calls[c][m].allowed \in Nat
      BY <1>1, PendingFinite DEF Sent
    <3>2. QED BY <1>3, <2>2, <3>1 DEF Granted
  <2>4. QED BY <1>2, <2>1, <2>3
<1>7. CASE ~IsPending(g, c, m)'
  <2>1. Pending(c, m)' = Pending(c, m)
    BY <1>2, <1>5, <1>7, PendingOfOthers
  <2>2. QED BY <1>3, <2>1 DEF Granted
<1>8. QED BY <1>6, <1>7

(* What is granted is known to the key and within the limit, as long as a  *)
(* check that counts on the key can come.                                  *)
LEMMA NextGranted == RateInv /\ [Next]_vars => KeyKnows' /\ GrantedWithinLimit'
<1> SUFFICES ASSUME RateInv, [Next]_vars, NEW c \in Carriers, NEW m \in Minutes
             PROVE  /\ now' < Closed(m) => Granted(c, m)' <= key'[c][m].count
                    /\ Granted(c, m)' <= LimitOf(c)
  BY DEF KeyKnows, GrantedWithinLimit, Closed, LimitOf
<1>1. /\ key \in [Carriers -> [Minutes -> Key]] /\ key[c][m].count \in Nat
      /\ key[c][m].expires \in Nat /\ now \in Nat
  BY DEF RateInv, TypeOK, Key
<1>2. Granted(c, m) \in Nat /\ LimitOf(c) \in Nat /\ Closed(m) \in Nat
  BY GrantedType, LimitType, ClosedType DEF RateInv
<1>3. /\ now < Closed(m) => Granted(c, m) <= key[c][m].count
      /\ Granted(c, m) <= LimitOf(c)
      /\ key[c][m].count > 0 => key[c][m].expires >= Closed(m)
  BY DEF RateInv, KeyKnows, GrantedWithinLimit, KeyOutlives
<1>4. CASE UNCHANGED vars
  <2>1. Granted(c, m)' = Granted(c, m)
    BY <1>4, NothingGranted DEF vars
  <2>2. QED BY <1>3, <1>4, <2>1 DEF vars
<1>5. CASE Tick
  <2>1. Granted(c, m)' = Granted(c, m)
    BY <1>5, NothingGranted DEF Tick
  <2>2. now' = now + 1
    BY <1>5 DEF Tick
  <2>3. key'[c][m] = IF key[c][m].expires <= now' THEN NoKey ELSE key[c][m]
    BY <1>5 DEF Tick
  <2>4. ASSUME now' < Closed(m) PROVE key'[c][m].count = key[c][m].count
    <3>1. CASE key[c][m].expires <= now'
      <4>1. key[c][m].count = 0
        BY <1>1, <1>2, <1>3, <2>2, <2>4, <3>1
      <4>2. QED BY <2>3, <3>1, <4>1 DEF NoKey
    <3>2. CASE ~(key[c][m].expires <= now')
      BY <2>3, <3>2
    <3>3. QED BY <3>1, <3>2
  <2>5. QED BY <1>1, <1>2, <1>3, <2>1, <2>2, <2>4
<1>6. ASSUME NEW g \in Goroutines,
             (\E d \in Carriers : Begin(g, d)) \/ AllowFails(g) \/ WakeUp(g)
      PROVE  /\ now' < Closed(m) => Granted(c, m)' <= key'[c][m].count
             /\ Granted(c, m)' <= LimitOf(c)
  <2>1. Granted(c, m)' = Granted(c, m)
    BY <1>6, QuietGranted
  <2>2. now' = now /\ (key' = key \/ Counts(g))
    BY <1>6 DEF Begin, AllowFails, WakeUp, Counts
  <2>3. key'[c][m] = key[c][m] \/ key'[c][m] = Counted(key[c][m])
    BY <2>2, CountsKey
  <2>4. key'[c][m].count >= key[c][m].count
    BY <1>1, <2>3 DEF Counted
  <2>5. key'[c][m].count \in Nat
    BY <1>1, <2>3 DEF Counted
  <2>6. QED BY <1>1, <1>2, <1>3, <2>1, <2>2, <2>4, <2>5
<1>7. ASSUME NEW g \in Goroutines, CallCarrier(g)
      PROVE  /\ now' < Closed(m) => Granted(c, m)' <= key'[c][m].count
             /\ Granted(c, m)' <= LimitOf(c)
  <2>1. Granted(c, m)' = Granted(c, m)
    BY <1>7, CallGranted
  <2>2. now' = now /\ key' = key
    BY <1>7, CallForm
  <2>3. QED BY <1>3, <2>1, <2>2
<1>8. ASSUME NEW g \in Goroutines, Allow(g)
      PROVE  /\ now' < Closed(m) => Granted(c, m)' <= key'[c][m].count
             /\ Granted(c, m)' <= LimitOf(c)
  <2>1. now' = now /\ Counts(g) /\ InTime(g)
    BY <1>8, AllowForm
  <2>2. key'[c][m] = IF c = check[g].carrier /\ m = MinuteOf(check[g].at)
                     THEN Counted(key[c][m]) ELSE key[c][m]
    BY <2>1, CountsKey
  <2>3. CASE Granted(c, m)' = Granted(c, m)
    <3>1. key'[c][m].count \in Nat /\ key'[c][m].count >= key[c][m].count
      BY <1>1, <2>2 DEF Counted
    <3>2. QED BY <1>1, <1>2, <1>3, <2>1, <2>3, <3>1
  <2>4. CASE /\ c = check[g].carrier /\ m = MinuteOf(check[g].at)
             /\ Granted(c, m)' = Granted(c, m) + 1
             /\ key[c][m].count + 1 <= LimitOf(c)
    <3>1. now < Closed(m)
      <4>1. check[g].at \in Nat /\ now <= check[g].at + MaxDelay
        BY <2>1, CheckAt DEF Check, InTime
      <4>2. check[g].at < m * Minute + Minute /\ m * Minute \in Nat
        BY <2>4, <4>1, MinuteBounds, RateAssumption
      <4>3. QED BY <1>1, <4>1, <4>2, RateAssumption DEF Closed
    <3>2. key'[c][m].count = key[c][m].count + 1
      BY <2>2, <2>4 DEF Counted
    <3>3. QED BY <1>1, <1>2, <1>3, <2>4, <3>1, <3>2
  <2>5. QED BY <1>8, <2>3, <2>4, AllowGranted
<1>9. QED
  BY <1>4, <1>5, <1>6, <1>7, <1>8 DEF Next, BoundsReached

THEOREM RateInvCorrect == Spec => []RateInv
<1>1. Init => RateInv
  BY InitRate
<1>2. RateInv /\ [Next]_vars => RateInv'
  BY NextType, NextClock, NextOutlives, NextGranted DEF RateInv
<1>3. QED BY <1>1, <1>2, PTL DEF Spec

(* Every variable of the limiter keeps its type.                           *)
THEOREM RateTypeCorrect == Spec => []TypeOK
<1>1. RateInv => TypeOK
  BY DEF RateInv
<1>2. QED BY <1>1, RateInvCorrect, PTL

(* For any number of goroutines and carriers, any limits and any length of *)
(* the minute: if a key outlives its minute by the time a check may take   *)
(* to reach Redis, no minute sees more requests allowed than the limit.    *)
THEOREM LimiterIsSafe == Spec => []AllowedWithinLimit
<1>1. RateInv => AllowedWithinLimit
  <2> SUFFICES ASSUME RateInv, NEW c \in Carriers, NEW m \in Minutes
               PROVE  calls[c][m].allowed <= LimitOf(c)
    BY DEF AllowedWithinLimit
  <2>1. calls[c][m].allowed \in Nat
    BY DEF RateInv, TypeOK, Sent
  <2>2. Cardinality(Pending(c, m)) \in Nat /\ LimitOf(c) \in Nat
    BY PendingFinite, LimitType
  <2>3. calls[c][m].allowed + Cardinality(Pending(c, m)) <= LimitOf(c)
    BY DEF RateInv, GrantedWithinLimit, Granted
  <2>4. QED BY <2>1, <2>2, <2>3
<1>2. QED BY <1>1, RateInvCorrect, PTL

=============================================================================
