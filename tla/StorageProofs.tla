---------------------------- MODULE StorageProofs ----------------------------
(* Proofs about the transactions of the repository: Creates, and Claims.   *)
EXTENDS Creates, Claims, FiniteSetTheorems, SequenceTheorems, WellFoundedInduction, TLAPS

-----------------------------------------------------------------------------
(* Sets of positions                                                       *)

LEMMA SmallestPosition ==
    ASSUME NEW S \in SUBSET Nat, S # {}
    PROVE  \E i \in S : \A j \in S : i <= j
<1>1. PICK i \in S : \A j \in S : ~(<<j, i>> \in OpToRel(<, Nat))
  BY NatLessThanWellFounded, WFMin
<1>2. ASSUME NEW j \in S PROVE i <= j
  <2>1. ~(j < i)
    BY <1>1 DEF OpToRel
  <2>2. i \in Nat /\ j \in Nat
    OBVIOUS
  <2>3. QED BY <2>1, <2>2
<1>3. QED BY <1>2

UpTo(S, i) == {j \in S : j <= i}

(* Counted from the first, the positions of a set have the numbers from    *)
(* one to their count, each once.                                          *)
LEMMA Ranks ==
    ASSUME NEW n \in Nat, NEW S \in SUBSET (1..n)
    PROVE  /\ IsFiniteSet(S) /\ Cardinality(S) \in Nat
           /\ \A i \in S : Cardinality(UpTo(S, i)) \in 1..Cardinality(S)
           /\ \A i, j \in S : Cardinality(UpTo(S, i)) = Cardinality(UpTo(S, j)) => i = j
           /\ \A k \in 1..Cardinality(S) : \E i \in S : Cardinality(UpTo(S, i)) = k
<1> DEFINE m == Cardinality(S)
           rank == [i \in S |-> Cardinality(UpTo(S, i))]
<1>1. IsFiniteSet(S) /\ m \in Nat
  <2>1. 1 \in Int /\ n \in Int
    OBVIOUS
  <2>2. IsFiniteSet(1..n)
    BY <2>1, FS_Interval
  <2>3. IsFiniteSet(S)
    BY <2>2, FS_Subset
  <2>4. QED BY <2>3, FS_CardinalityType
<1>2. ASSUME NEW i \in S
      PROVE  IsFiniteSet(UpTo(S, i)) /\ Cardinality(UpTo(S, i)) \in 1..m
  <2>1. UpTo(S, i) \in SUBSET S /\ i \in UpTo(S, i)
    BY DEF UpTo
  <2>2. IsFiniteSet(UpTo(S, i)) /\ Cardinality(UpTo(S, i)) <= m
    BY <1>1, <2>1, FS_Subset
  <2>3. Cardinality(UpTo(S, i)) \in Nat /\ Cardinality(UpTo(S, i)) # 0
    BY <2>1, <2>2, FS_EmptySet, FS_CardinalityType
  <2>4. QED BY <1>1, <2>2, <2>3
<1>3. ASSUME NEW i \in S, NEW j \in S, Cardinality(UpTo(S, i)) = Cardinality(UpTo(S, j)), i < j
      PROVE  FALSE
  <2>0. \A x \in S : x \in Int
    OBVIOUS
  <2>1. UpTo(S, i) \in SUBSET UpTo(S, j) /\ j \in UpTo(S, j) /\ j \notin UpTo(S, i)
    <3>1. \A x \in S : x <= i => x <= j
      BY <1>3, <2>0
    <3>2. ~(j <= i) /\ j <= j
      BY <1>3, <2>0
    <3>3. QED BY <3>1, <3>2 DEF UpTo
  <2>2. UpTo(S, i) = UpTo(S, j)
    BY <1>2, <1>3, <2>1, FS_Subset
  <2>3. QED BY <2>1, <2>2
<1>4. \A i, j \in S : Cardinality(UpTo(S, i)) = Cardinality(UpTo(S, j)) => i = j
  <2>1. \A i, j \in S : i < j \/ j < i \/ i = j
    OBVIOUS
  <2>2. QED BY <1>3, <2>1
<1>5. rank \in Injection(S, 1..m)
  BY <1>2, <1>4 DEF Injection, IsInjective
<1>6. IsFiniteSet(1..m) /\ Cardinality(1..m) = m
  BY <1>1, FS_Interval
<1>7. rank \in Surjection(S, 1..m)
  BY <1>5, <1>6, FS_Injection
<1>8. \A k \in 1..m : \E i \in S : Cardinality(UpTo(S, i)) = k
  BY <1>7 DEF Surjection
<1>9. QED BY <1>1, <1>2, <1>4, <1>8

-----------------------------------------------------------------------------
(* The batch without repetitions                                           *)

(* It has pairs of the batch, of different keys, one for each key.         *)
LEMMA CleanIs ==
    ASSUME NEW X, NEW items \in Seq(X)
    PROVE  /\ Clean(items) \in Seq(X)
           /\ \A k \in DOMAIN Clean(items) : Clean(items)[k] \in ToSet(items)
           /\ \A k, l \in DOMAIN Clean(items) :
                 KeyOf[Clean(items)[k]] = KeyOf[Clean(items)[l]] => k = l
           /\ \A p \in ToSet(items) :
                 \E k \in DOMAIN Clean(items) : KeyOf[Clean(items)[k]] = KeyOf[p]
<1> DEFINE S == FirstOfKey(items)
           n == Len(items)
           m == Cardinality(S)
           nth(k) == CHOOSE i \in S : Cardinality(UpTo(S, i)) = k
<1>1. n \in Nat /\ DOMAIN items = 1..n /\ S \in SUBSET (1..n)
      /\ \A i \in 1..n : items[i] \in X
  BY DEF FirstOfKey
<1>2. /\ m \in Nat
      /\ \A i \in S : Cardinality(UpTo(S, i)) \in 1..m
      /\ \A i, j \in S : Cardinality(UpTo(S, i)) = Cardinality(UpTo(S, j)) => i = j
      /\ \A k \in 1..m : \E i \in S : Cardinality(UpTo(S, i)) = k
  <2> HIDE DEF S
  <2>1. QED BY <1>1, Ranks
<1>3. Clean(items) = [k \in 1..m |-> items[nth(k)]]
  BY DEF Clean, UpTo
<1>4. \A i \in S, j \in S : KeyOf[items[i]] = KeyOf[items[j]] => i = j
  <2>1. ASSUME NEW i \in S, NEW j \in S, i < j PROVE KeyOf[items[i]] # KeyOf[items[j]]
    <3>1. i \in 1..(j - 1)
      BY <1>1, <2>1
    <3>2. QED BY <3>1 DEF FirstOfKey
  <2>2. \A i, j \in S : i < j \/ j < i \/ i = j
    BY <1>1
  <2>3. QED BY <2>1, <2>2
<1>5. ASSUME NEW i \in 1..n
      PROVE  \E j \in S : KeyOf[items[j]] = KeyOf[items[i]]
  <2> DEFINE T == {j \in 1..n : KeyOf[items[j]] = KeyOf[items[i]]}
  <2>1. T \in SUBSET Nat /\ i \in T
    BY <1>1
  <2>2. PICK j \in T : \A k \in T : j <= k
    <3> HIDE DEF T
    <3>1. T # {}
      BY <2>1
    <3>2. QED BY <2>1, <3>1, SmallestPosition
  <2>3. \A k \in 1..(j - 1) : KeyOf[items[k]] # KeyOf[items[j]]
    <3>1. ASSUME NEW k \in 1..(j - 1) PROVE k \in 1..n /\ ~(j <= k)
      BY <1>1
    <3>2. QED BY <2>2, <3>1
  <2>4. QED BY <1>1, <2>3 DEF FirstOfKey
<1> HIDE DEF S, m
<1>6. \A k \in 1..m : nth(k) \in S /\ Cardinality(UpTo(S, nth(k))) = k
  BY <1>2
<1>7. \A i \in S : nth(Cardinality(UpTo(S, i))) = i
  BY <1>2, <1>6
<1> HIDE DEF nth
<1>8. \A k \in 1..m : Clean(items)[k] = items[nth(k)] /\ nth(k) \in 1..n
  BY <1>1, <1>3, <1>6
<1>9. DOMAIN Clean(items) = 1..m /\ Clean(items) \in Seq(X)
  BY <1>1, <1>2, <1>3, <1>8
<1>10. \A k \in 1..m : Clean(items)[k] \in ToSet(items)
  BY <1>1, <1>8 DEF ToSet
<1>11. \A k, l \in 1..m : KeyOf[Clean(items)[k]] = KeyOf[Clean(items)[l]] => k = l
  BY <1>4, <1>6, <1>8
<1>12. ASSUME NEW p \in ToSet(items)
       PROVE  \E k \in 1..m : KeyOf[Clean(items)[k]] = KeyOf[p]
  <2>1. PICK i \in 1..n : p = items[i]
    BY <1>1 DEF ToSet
  <2>2. PICK j \in S : KeyOf[items[j]] = KeyOf[p]
    BY <1>5, <2>1
  <2>3. Cardinality(UpTo(S, j)) \in 1..m
    BY <1>2
  <2>4. Clean(items)[Cardinality(UpTo(S, j))] = items[j]
    BY <1>7, <1>8, <2>3
  <2>5. QED BY <2>2, <2>3, <2>4
<1>13. QED BY <1>9, <1>10, <1>11, <1>12

-----------------------------------------------------------------------------
(* The inductive invariant                                                 *)

(* An open transaction holds the pairs it has written, and their ids are   *)
(* those of the rows where there are rows.                                 *)
HoldsWritten(r) ==
    /\ call[r].pc = "queued" => call[r].ids = <<>>
    /\ call[r].pc = "open" =>
        /\ Len(call[r].ids) <= Len(call[r].items)
        /\ \A i \in 1..Len(call[r].ids) :
              /\ holder[call[r].items[i]] = r
              /\ call[r].ids[i] # 0
              /\ row[call[r].items[i]] # 0 => call[r].ids[i] = row[call[r].items[i]]

(* The batch without repetitions stands for the batch.                     *)
Represents(r) ==
    call[r].pc \in {"queued", "open", "reading"} =>
        /\ \A i \in DOMAIN call[r].items : call[r].items[i] \in call[r].asked
        /\ \A i, j \in DOMAIN call[r].items :
              call[r].items[i] = call[r].items[j] => i = j
        /\ \A p \in call[r].asked :
              \E i \in DOMAIN call[r].items : KeyOf[call[r].items[i]] = KeyOf[p]

(* What is read back was committed.                                        *)
ReadsStored(r) ==
    call[r].pc = "reading" =>
        /\ \A i \in DOMAIN call[r].items :
              row[call[r].items[i]] # 0 /\ row[call[r].items[i]] \in ToSet(call[r].ids)
        /\ \A n \in ToSet(call[r].ids) :
              \E i \in DOMAIN call[r].items : row[call[r].items[i]] = n

(* p has the id n, or would have if an open transaction committed.         *)
Gives(p, n) ==
    \/ n # 0 /\ row[p] = n
    \/ \E r \in Requests :
          /\ call[r].pc = "open"
          /\ \E i \in 1..Len(call[r].ids) :
                call[r].items[i] = p /\ call[r].ids[i] = n

(* Rows are read back by their ids: no two pairs may have the same.        *)
IdsApart ==
    \A p \in Pairs, n \in Nat : Gives(p, n) =>
        /\ n < nextId
        /\ \A q \in Pairs : Gives(q, n) => q = p

AnswerRight(r) ==
    call[r].pc = "answered" =>
        /\ \A t \in call[r].rows :
               t[1] \in call[r].asked /\ t[2] # 0 /\ row[t[1]] = t[2]
        /\ \A p \in call[r].asked :
               \E t \in call[r].rows : KeyOf[t[1]] = KeyOf[p]

CallInv(r) == HoldsWritten(r) /\ Represents(r) /\ ReadsStored(r) /\ AnswerRight(r)

CreatesInv == TypeOK /\ IdsApart /\ \A r \in Requests : CallInv(r)

LEMMA CreatesInvInitial == Init => CreatesInv
<1> SUFFICES ASSUME Init PROVE CreatesInv
  OBVIOUS
<1>1. TypeOK
  BY DEF Init, TypeOK, Call
<1>2. IdsApart
  BY DEF Init, IdsApart, Gives
<1>3. \A r \in Requests : CallInv(r)
  BY DEF Init, CallInv, HoldsWritten, Represents, ReadsStored, AnswerRight
<1>4. QED BY <1>1, <1>2, <1>3 DEF CreatesInv

(* A step of r leaves the calls of the others alone, the pairs they hold,  *)
(* and every row there is.                                                 *)
Spares(r) ==
    /\ \A s \in Requests \ {r} : call'[s] = call[s]
    /\ \A p \in Pairs : row[p] # 0 => row'[p] = row[p]
    /\ \A p \in Pairs : \A s \in Requests \ {r} :
          holder[p] = s => holder'[p] = s /\ row'[p] = row[p]

LEMMA OthersSpared ==
    ASSUME CreatesInv, NEW r \in Requests, Spares(r), NEW s \in Requests \ {r}
    PROVE  CallInv(s)'
<1> DEFINE c == call[s]
<1>1. call'[s] = c /\ CallInv(s) /\ c \in Call
  BY DEF Spares, CreatesInv, TypeOK
<1>2. c.items \in Seq(Pairs) /\ c.asked \in SUBSET Pairs /\ c.ids \in Seq(Nat)
      /\ c.rows \in SUBSET (Pairs \X Nat)
  BY <1>1 DEF Call
<1>3. \A i \in DOMAIN c.items : c.items[i] \in Pairs
  BY <1>2
<1>4. HoldsWritten(s)'
  <2>1. CASE c.pc = "open"
    <3>1. \A i \in 1..Len(c.ids) : i \in DOMAIN c.items
      BY <1>1, <1>2, <2>1 DEF CallInv, HoldsWritten
    <3>2. \A i \in 1..Len(c.ids) :
             holder'[c.items[i]] = s /\ row'[c.items[i]] = row[c.items[i]]
      BY <1>1, <1>3, <2>1, <3>1 DEF CallInv, HoldsWritten, Spares
    <3>3. QED BY <1>1, <2>1, <3>2 DEF CallInv, HoldsWritten
  <2>2. CASE c.pc # "open"
    BY <1>1, <2>2 DEF CallInv, HoldsWritten
  <2>3. QED BY <2>1, <2>2
<1>5. Represents(s)'
  BY <1>1 DEF CallInv, Represents
<1>6. ReadsStored(s)'
  BY <1>1, <1>3 DEF CallInv, ReadsStored, Spares
<1>7. AnswerRight(s)'
  <2>1. \A t \in c.rows : t[1] \in Pairs
    BY <1>2
  <2>2. QED BY <1>1, <2>1 DEF CallInv, AnswerRight, Spares
<1>8. QED BY <1>4, <1>5, <1>6, <1>7 DEF CallInv

LEMMA StillApart ==
    ASSUME CreatesInv, nextId' = nextId,
           \A p \in Pairs, n \in Nat : Gives(p, n)' => Gives(p, n)
    PROVE  IdsApart'
BY DEF CreatesInv, IdsApart

LEMMA StepKeeps ==
    ASSUME CreatesInv, NEW r \in Requests, Spares(r), CallInv(r)', TypeOK', IdsApart'
    PROVE  CreatesInv'
BY OthersSpared DEF CreatesInv

(* Steps that move only the call of r, and not into its transaction.       *)
LEMMA OnlyCallMoves ==
    ASSUME CreatesInv, NEW r \in Requests, NEW y \in Call,
           call' = [call EXCEPT ![r] = y], UNCHANGED <<row, nextId>>,
           \/ UNCHANGED holder
           \/ holder' = Released(r),
           y.pc = "open" => y.ids = <<>>,
           CallInv(r)'
    PROVE  CreatesInv'
<1>1. TypeOK
  BY DEF CreatesInv
<1>2. holder' \in [Pairs -> Requests \cup {Nobody}]
  BY <1>1 DEF TypeOK, Released
<1>3. TypeOK'
  BY <1>1, <1>2 DEF TypeOK
<1>4. call'[r] = y /\ \A s \in Requests \ {r} : call'[s] = call[s]
  BY <1>1 DEF TypeOK
<1>5. Spares(r)
  BY <1>1, <1>4 DEF Spares, Released, TypeOK
<1>6. IdsApart'
  <2>1. ASSUME NEW p \in Pairs, NEW n \in Nat, Gives(p, n)' PROVE Gives(p, n)
    BY <1>4, <2>1 DEF Gives
  <2>2. QED BY <2>1, StillApart
<1>7. QED BY <1>3, <1>5, <1>6, StepKeeps

(* The other stages of a call.                                             *)
LEMMA CallFields ==
    ASSUME NEW y \in Call,
           NEW pc \in {"idle", "queued", "open", "reading", "answered", "failed"}
    PROVE  /\ [y EXCEPT !.pc = pc] \in Call
           /\ [y EXCEPT !.pc = pc].pc = pc
           /\ [y EXCEPT !.pc = pc].asked = y.asked
           /\ [y EXCEPT !.pc = pc].items = y.items
           /\ [y EXCEPT !.pc = pc].ids = y.ids
           /\ [y EXCEPT !.pc = pc].rows = y.rows
BY DEF Call

-----------------------------------------------------------------------------
(* Each step keeps the invariant                                           *)

LEMMA CreateTrackingsKeeps ==
    ASSUME CreatesInv, NEW r \in Requests, CreateTrackings(r)
    PROVE  CreatesInv'
<1>1. TypeOK
  BY DEF CreatesInv
<1>2. PICK items \in Batches : call' = [call EXCEPT ![r] =
         IF Rejected(items)
         THEN [pc |-> "failed", asked |-> {}, items |-> <<>>,
               ids |-> <<>>, rows |-> {}, calls |-> call[r].calls + 1]
         ELSE [pc |-> "queued", asked |-> ToSet(items), items |-> Clean(items),
               ids |-> <<>>, rows |-> {}, calls |-> call[r].calls + 1]]
  BY DEF CreateTrackings
<1>3. call[r].calls + 1 \in Nat
  BY <1>1 DEF TypeOK, Call
<1>4. UNCHANGED <<row, holder, nextId>>
  BY DEF CreateTrackings
<1>5. CASE Rejected(items)
  <2> DEFINE y == [pc |-> "failed", asked |-> {}, items |-> <<>>,
                   ids |-> <<>>, rows |-> {}, calls |-> call[r].calls + 1]
  <2>1. y \in Call /\ y.pc = "failed"
    BY <1>3 DEF Call
  <2>2. call' = [call EXCEPT ![r] = y] /\ call'[r] = y
    BY <1>1, <1>2, <1>5 DEF TypeOK
  <2> HIDE DEF y
  <2>3. CallInv(r)'
    BY <2>1, <2>2 DEF CallInv, HoldsWritten, Represents, ReadsStored, AnswerRight
  <2>4. QED BY <1>4, <2>1, <2>2, <2>3, OnlyCallMoves
<1>6. CASE ~Rejected(items)
  <2> DEFINE y == [pc |-> "queued", asked |-> ToSet(items), items |-> Clean(items),
                   ids |-> <<>>, rows |-> {}, calls |-> call[r].calls + 1]
  <2>1. items \in Seq(Pairs \cup {Malformed}) /\ Malformed \notin ToSet(items)
    BY <1>6, BatchesAssumption DEF Rejected
  <2>2. items \in Seq(Pairs) /\ ToSet(items) \in SUBSET Pairs
    BY <2>1 DEF ToSet
  <2>3. /\ Clean(items) \in Seq(Pairs)
        /\ \A k \in DOMAIN Clean(items) : Clean(items)[k] \in ToSet(items)
        /\ \A k, l \in DOMAIN Clean(items) :
              KeyOf[Clean(items)[k]] = KeyOf[Clean(items)[l]] => k = l
        /\ \A p \in ToSet(items) :
              \E k \in DOMAIN Clean(items) : KeyOf[Clean(items)[k]] = KeyOf[p]
    BY <2>2, CleanIs
  <2>4. /\ y \in Call /\ y.pc = "queued" /\ y.asked = ToSet(items)
        /\ y.items = Clean(items) /\ y.ids = <<>>
    BY <1>3, <2>2, <2>3 DEF Call
  <2>5. call' = [call EXCEPT ![r] = y] /\ call'[r] = y
    BY <1>1, <1>2, <1>6 DEF TypeOK
  <2> HIDE DEF y
  <2>6. CallInv(r)'
    BY <2>3, <2>4, <2>5 DEF CallInv, HoldsWritten, Represents, ReadsStored, AnswerRight
  <2>7. QED BY <1>4, <2>4, <2>5, <2>6, OnlyCallMoves
<1>7. QED BY <1>5, <1>6

LEMMA BeginTxKeeps ==
    ASSUME CreatesInv, NEW r \in Requests, BeginTx(r)
    PROVE  CreatesInv'
<1> DEFINE y == [call[r] EXCEPT !.pc = "open"]
<1>1. call \in [Requests -> Call] /\ call[r] \in Call /\ CallInv(r)
  BY DEF CreatesInv, TypeOK
<1>2. call[r].pc = "queued" /\ UNCHANGED <<row, holder, nextId>>
      /\ call' = [call EXCEPT ![r] = y] /\ call'[r] = y
  BY <1>1 DEF BeginTx
<1>3. y \in Call /\ y.pc = "open" /\ y.asked = call[r].asked
      /\ y.items = call[r].items /\ y.ids = call[r].ids
  BY <1>1, CallFields
<1>4. call[r].ids = <<>> /\ call[r].items \in Seq(Pairs)
  BY <1>1, <1>2 DEF CallInv, HoldsWritten, Call
<1> HIDE DEF y
<1>5. HoldsWritten(r)'
  BY <1>2, <1>3, <1>4 DEF HoldsWritten
<1>6. Represents(r)' /\ ReadsStored(r)' /\ AnswerRight(r)'
  BY <1>1, <1>2, <1>3 DEF CallInv, Represents, ReadsStored, AnswerRight
<1>7. QED BY <1>2, <1>3, <1>4, <1>5, <1>6, OnlyCallMoves DEF CallInv

(* A call that fails without having committed.                             *)
LEMMA FailureKeeps ==
    ASSUME CreatesInv, NEW r \in Requests,
           call' = [call EXCEPT ![r].pc = "failed"], UNCHANGED <<row, nextId>>,
           \/ UNCHANGED holder
           \/ holder' = Released(r)
    PROVE  CreatesInv'
<1> DEFINE y == [call[r] EXCEPT !.pc = "failed"]
<1>1. call \in [Requests -> Call] /\ call[r] \in Call
  BY DEF CreatesInv, TypeOK
<1>2. call' = [call EXCEPT ![r] = y] /\ call'[r] = y
  BY <1>1
<1>3. y \in Call /\ y.pc = "failed"
  BY <1>1, CallFields
<1> HIDE DEF y
<1>4. CallInv(r)'
  BY <1>2, <1>3 DEF CallInv, HoldsWritten, Represents, ReadsStored, AnswerRight
<1>5. QED BY <1>2, <1>3, <1>4, OnlyCallMoves

LEMMA ReadBackKeeps ==
    ASSUME CreatesInv, NEW r \in Requests, ReadBack(r)
    PROVE  CreatesInv'
<1> DEFINE found == {q \in Pairs : row[q] \in ToSet(call[r].ids) \ {0}}
           answer == {<<p, row[p]>> : p \in found}
           y == [call[r] EXCEPT !.pc = "answered", !.rows = answer]
<1>1. call \in [Requests -> Call] /\ call[r] \in Call /\ row \in [Pairs -> Nat]
      /\ CallInv(r) /\ IdsApart
  BY DEF CreatesInv, TypeOK
<1>2. call[r].pc = "reading" /\ UNCHANGED <<row, holder, nextId>>
      /\ call' = [call EXCEPT ![r] = y] /\ call'[r] = y
  BY <1>1 DEF ReadBack
<1>3. answer \in SUBSET (Pairs \X Nat)
  BY <1>1
<1>4. y \in Call /\ y.pc = "answered" /\ y.asked = call[r].asked /\ y.rows = answer
  <2> HIDE DEF answer
  <2>1. QED BY <1>1, <1>3 DEF Call
<1>5. /\ call[r].items \in Seq(Pairs)
      /\ \A i \in DOMAIN call[r].items :
             /\ call[r].items[i] \in call[r].asked /\ call[r].items[i] \in Pairs
             /\ row[call[r].items[i]] # 0 /\ row[call[r].items[i]] \in ToSet(call[r].ids)
      /\ \A n \in ToSet(call[r].ids) :
             \E i \in DOMAIN call[r].items : row[call[r].items[i]] = n
      /\ \A p \in call[r].asked :
             \E i \in DOMAIN call[r].items : KeyOf[call[r].items[i]] = KeyOf[p]
  <2>1. call[r].items \in Seq(Pairs)
    BY <1>1 DEF Call
  <2>2. QED BY <1>1, <1>2, <2>1 DEF CallInv, Represents, ReadsStored
<1>6. ASSUME NEW p \in found PROVE p \in call[r].asked /\ row[p] # 0
  <2>1. PICK i \in DOMAIN call[r].items : row[call[r].items[i]] = row[p]
    BY <1>5
  <2>2. row[p] \in Nat /\ Gives(call[r].items[i], row[p]) /\ Gives(p, row[p])
    BY <1>1, <2>1 DEF Gives
  <2>3. call[r].items[i] = p
    BY <1>1, <1>5, <2>2 DEF IdsApart
  <2>4. QED BY <1>5, <2>3
<1>7. \A t \in answer : t[1] \in call[r].asked /\ t[2] # 0 /\ row[t[1]] = t[2]
  BY <1>6
<1>8. \A i \in DOMAIN call[r].items : <<call[r].items[i], row[call[r].items[i]]>> \in answer
  BY <1>5
<1>9. \A p \in call[r].asked : \E t \in answer : KeyOf[t[1]] = KeyOf[p]
  <2> HIDE DEF answer
  <2>1. ASSUME NEW p \in call[r].asked PROVE \E t \in answer : KeyOf[t[1]] = KeyOf[p]
    <3>1. PICK i \in DOMAIN call[r].items : KeyOf[call[r].items[i]] = KeyOf[p]
      BY <1>5
    <3> DEFINE t == <<call[r].items[i], row[call[r].items[i]]>>
    <3>2. t \in answer /\ t[1] = call[r].items[i]
      BY <1>8
    <3>3. QED BY <3>1, <3>2
  <2>2. QED BY <2>1
<1> HIDE DEF y, answer, found
<1>10. CallInv(r)'
  BY <1>2, <1>4, <1>7, <1>9 DEF CallInv, HoldsWritten, Represents, ReadsStored, AnswerRight
<1>11. QED BY <1>2, <1>4, <1>10, OnlyCallMoves

(* A new id is above all that were given.                                  *)
LEMMA InsertTrackingKeeps ==
    ASSUME CreatesInv, NEW r \in Requests, InsertTracking(r)
    PROVE  CreatesInv'
<1> DEFINE p == Current(r)
           id == IdFor(p)
           k == Len(call[r].ids) + 1
           y == [call[r] EXCEPT !.ids = Append(call[r].ids, id)]
<1>1. /\ call \in [Requests -> Call] /\ call[r] \in Call /\ row \in [Pairs -> Nat]
      /\ holder \in [Pairs -> Requests \cup {Nobody}] /\ nextId \in Nat \ {0}
      /\ CallInv(r) /\ IdsApart
  BY DEF CreatesInv, TypeOK
<1>2. /\ call[r].pc = "open" /\ Len(call[r].ids) < Len(call[r].items)
      /\ holder[p] \in {Nobody, r} /\ p = call[r].items[k]
  BY DEF InsertTracking, HasMore, Blocked, Current
<1>3. /\ call' = [call EXCEPT ![r] = y] /\ call'[r] = y
      /\ nextId' = IF id = nextId THEN nextId + 1 ELSE nextId
      /\ holder' = [holder EXCEPT ![p] = r]
      /\ row' = row
  BY <1>1 DEF InsertTracking
<1>4. call[r].items \in Seq(Pairs) /\ call[r].ids \in Seq(Nat)
      /\ Len(call[r].items) \in Nat /\ Len(call[r].ids) \in Nat
  BY <1>1 DEF Call
<1>5. k \in 1..Len(call[r].items) /\ p \in Pairs
  BY <1>2, <1>4
<1>6. id \in Nat \ {0} /\ (row[p] # 0 => id = row[p])
      /\ (row[p] = 0 => id = nextId) /\ nextId' \in Nat \ {0} /\ id < nextId'
      /\ nextId <= nextId'
  <2>1. row[p] \in Nat
    BY <1>1, <1>5
  <2>2. CASE row[p] = 0
    BY <1>1, <1>3, <2>2 DEF IdFor
  <2>3. CASE row[p] # 0
    <3>1. id = row[p] /\ row[p] \in Nat \ {0}
      BY <2>1, <2>3 DEF IdFor
    <3>2. Gives(p, row[p])
      BY <2>3 DEF Gives
    <3>3. row[p] < nextId
      BY <1>1, <1>5, <2>1, <3>2 DEF IdsApart
    <3>4. QED BY <1>1, <1>3, <2>3, <3>1, <3>3
  <2>4. QED BY <2>2, <2>3
<1> HIDE DEF id, p
<1>7. /\ y \in Call /\ y.pc = "open" /\ y.items = call[r].items
      /\ y.asked = call[r].asked /\ y.ids = Append(call[r].ids, id)
  <2>1. Append(call[r].ids, id) \in Seq(Nat)
    BY <1>4, <1>6
  <2>2. QED BY <1>1, <1>2, <2>1 DEF Call
<1> HIDE DEF y
<1>8. /\ Len(y.ids) = k /\ y.ids[k] = id
      /\ \A i \in 1..Len(call[r].ids) : y.ids[i] = call[r].ids[i]
      /\ \A i \in 1..k : i \in 1..Len(call[r].ids) \/ i = k
  BY <1>4, <1>6, <1>7
<1>9. TypeOK'
  BY <1>1, <1>3, <1>5, <1>6, <1>7 DEF TypeOK
<1>10. Spares(r)
  <2>1. \A s \in Requests \ {r} : call'[s] = call[s]
    BY <1>1, <1>3
  <2>2. \A q \in Pairs : \A s \in Requests \ {r} : holder[q] = s => holder'[q] = s
    BY <1>1, <1>2, <1>3, PairsAssumption
  <2>3. QED BY <1>3, <2>1, <2>2 DEF Spares
<1>11. CallInv(r)'
  <2>1. HoldsWritten(r)'
    <3>1. ASSUME NEW i \in 1..k
          PROVE  /\ holder'[y.items[i]] = r
                 /\ y.ids[i] # 0
                 /\ row'[y.items[i]] # 0 => y.ids[i] = row'[y.items[i]]
      <4>1. y.items[i] \in Pairs
        BY <1>4, <1>5, <1>7
      <4>2. CASE i = k
        BY <1>1, <1>2, <1>3, <1>5, <1>6, <1>7, <1>8, <4>2
      <4>3. CASE i \in 1..Len(call[r].ids)
        BY <1>1, <1>2, <1>3, <1>7, <1>8, <4>1, <4>3 DEF CallInv, HoldsWritten
      <4>4. QED BY <1>8, <4>2, <4>3
    <3>2. k <= Len(y.items)
      BY <1>5, <1>7
    <3>3. call'[r] = y /\ Len(y.ids) = k
      BY <1>3, <1>7, <1>8
    <3>4. /\ Len(y.ids) <= Len(y.items)
          /\ \A i \in 1..Len(y.ids) : /\ holder'[y.items[i]] = r
                                      /\ y.ids[i] # 0
                                      /\ row'[y.items[i]] # 0 => y.ids[i] = row'[y.items[i]]
      BY <3>1, <3>2, <3>3
    <3>5. y.pc = "open" /\ call'[r] = y
      BY <1>7, <3>3
    <3>6. QED BY <3>4, <3>5 DEF HoldsWritten
  <2>2. Represents(r)'
    <3>1. Represents(r)
      BY <1>1 DEF CallInv
    <3>2. call[r].pc = "open" /\ call'[r] = y /\ y.items = call[r].items
          /\ y.asked = call[r].asked
      BY <1>2, <1>3, <1>7
    <3>3. QED BY <3>1, <3>2 DEF Represents
  <2>3. ReadsStored(r)' /\ AnswerRight(r)'
    BY <1>3, <1>7 DEF ReadsStored, AnswerRight
  <2>4. QED BY <2>1, <2>2, <2>3 DEF CallInv
<1>12. ASSUME NEW q \in Pairs, NEW n \in Nat, Gives(q, n)'
       PROVE  Gives(q, n) \/ (q = p /\ n = id)
  <2>1. CASE n # 0 /\ row'[q] = n
    BY <1>3, <2>1 DEF Gives
  <2>2. ASSUME NEW s \in Requests, call'[s].pc = "open",
               NEW i \in 1..Len(call'[s].ids),
               call'[s].items[i] = q, call'[s].ids[i] = n
        PROVE  Gives(q, n) \/ (q = p /\ n = id)
    <3>1. CASE s # r
      <4>1. call'[s] = call[s]
        BY <1>10, <3>1 DEF Spares
      <4>2. QED BY <2>2, <4>1 DEF Gives
    <3>2. CASE s = r
      <4>1. call'[s] = y /\ i \in 1..k
        BY <1>3, <1>8, <2>2, <3>2
      <4>2. CASE i = k
        BY <1>2, <1>7, <1>8, <2>2, <4>1, <4>2
      <4>3. CASE i \in 1..Len(call[r].ids)
        <5>1. call[r].items[i] = q /\ call[r].ids[i] = n
          BY <1>7, <1>8, <2>2, <4>1, <4>3
        <5>2. QED BY <1>2, <4>3, <5>1 DEF Gives
      <4>4. QED BY <1>8, <4>1, <4>2, <4>3
    <3>3. QED BY <3>1, <3>2
  <2>3. QED BY <1>12, <2>1, <2>2 DEF Gives
<1>13. ASSUME NEW q \in Pairs, Gives(q, id)
       PROVE  q = p
  <2>1. CASE row[p] # 0
    <3>1. Gives(p, id)
      BY <1>6, <2>1 DEF Gives
    <3>2. QED BY <1>1, <1>5, <1>6, <1>13, <3>1 DEF IdsApart
  <2>2. CASE row[p] = 0
    <3>1. id < nextId
      BY <1>1, <1>6, <1>13 DEF IdsApart
    <3>2. QED BY <1>1, <1>6, <2>2, <3>1
  <2>3. QED BY <2>1, <2>2
<1>14. IdsApart'
  <2>1. ASSUME NEW q \in Pairs, NEW n \in Nat, Gives(q, n)'
        PROVE  n < nextId' /\ \A o \in Pairs : Gives(o, n)' => o = q
    <3>1. CASE n = id
      <4>1. ASSUME NEW o \in Pairs, Gives(o, n)' PROVE o = p
        <5>1. Gives(o, n) => o = p
          BY <1>13, <3>1
        <5>2. QED BY <1>12, <4>1, <5>1
      <4>2. QED BY <1>6, <2>1, <3>1, <4>1
    <3>2. CASE n # id
      <4>1. Gives(q, n) /\ \A o \in Pairs : Gives(o, n)' => Gives(o, n)
        BY <1>12, <2>1, <3>2
      <4>2. n < nextId /\ \A o \in Pairs : Gives(o, n) => o = q
        BY <1>1, <4>1 DEF IdsApart
      <4>3. n < nextId'
        BY <1>1, <1>6, <4>2
      <4>4. QED BY <4>1, <4>2, <4>3
    <3>3. QED BY <3>1, <3>2
  <2>2. QED BY <2>1 DEF IdsApart
<1>15. QED BY <1>9, <1>10, <1>11, <1>14, StepKeeps

(* What a transaction that commits stores: its ids for its pairs, which    *)
(* are those of the rows there are, and for no pair that another holds.    *)
LEMMA StoredIs ==
    ASSUME CreatesInv, NEW r \in Requests, Finished(r)
    PROVE  /\ Stored(r) \in [Pairs -> Nat]
           /\ \A i \in DOMAIN call[r].items :
                 Stored(r)[call[r].items[i]] = call[r].ids[i] /\ call[r].ids[i] # 0
           /\ \A p \in Pairs : (\A i \in DOMAIN call[r].items : call[r].items[i] # p)
                 => Stored(r)[p] = row[p]
           /\ \A p \in Pairs : row[p] # 0 => Stored(r)[p] = row[p]
           /\ \A p \in Pairs : holder[p] # r => Stored(r)[p] = row[p]
           /\ \A p \in Pairs : Stored(r)[p] # 0 => Gives(p, Stored(r)[p])
           /\ \A i \in DOMAIN call[r].items : call[r].items[i] \in Pairs
           /\ DOMAIN call[r].items = DOMAIN call[r].ids
<1> DEFINE items == call[r].items
           ids == call[r].ids
<1>1. /\ call[r] \in Call /\ row \in [Pairs -> Nat] /\ CallInv(r)
  BY DEF CreatesInv, TypeOK
<1>2. items \in Seq(Pairs) /\ ids \in Seq(Nat) /\ Len(ids) = Len(items)
      /\ call[r].pc = "open"
  BY <1>1 DEF Call, Finished
<1>3. DOMAIN items = 1..Len(ids) /\ DOMAIN ids = DOMAIN items
      /\ \A i \in DOMAIN items : items[i] \in Pairs /\ ids[i] \in Nat
  BY <1>2
<1>4. \A i \in DOMAIN items : /\ holder[items[i]] = r /\ ids[i] # 0
                              /\ row[items[i]] # 0 => ids[i] = row[items[i]]
  BY <1>1, <1>2, <1>3 DEF CallInv, HoldsWritten
<1>5. \A i, j \in DOMAIN items : items[i] = items[j] => i = j
  BY <1>1, <1>2 DEF CallInv, Represents
<1>6. ASSUME NEW i \in DOMAIN items
      PROVE  Stored(r)[items[i]] = ids[i] /\ Gives(items[i], ids[i])
  <2>1. (CHOOSE j \in DOMAIN items : items[j] = items[i]) = i
    BY <1>5
  <2>2. QED BY <1>2, <1>3, <2>1 DEF Stored, Gives
<1>7. ASSUME NEW p \in Pairs
      PROVE  \/ \E i \in DOMAIN items : items[i] = p
             \/ Stored(r)[p] = row[p] /\ \A i \in DOMAIN items : items[i] # p
  BY DEF Stored
<1>8. \A p \in Pairs : row[p] # 0 => Gives(p, row[p])
  BY DEF Gives
<1>9. Stored(r) = [p \in Pairs |-> Stored(r)[p]]
  BY DEF Stored
<1> HIDE DEF items, ids
<1>10. \A p \in Pairs : /\ Stored(r)[p] \in Nat
                        /\ row[p] # 0 => Stored(r)[p] = row[p]
                        /\ holder[p] # r => Stored(r)[p] = row[p]
                        /\ Stored(r)[p] # 0 => Gives(p, Stored(r)[p])
  BY <1>1, <1>3, <1>4, <1>6, <1>7, <1>8
<1>11. Stored(r) \in [Pairs -> Nat]
  BY <1>9, <1>10
<1>12. QED BY <1>3, <1>4, <1>6, <1>7, <1>10, <1>11 DEF items, ids

(* A commit that took effect, whatever its client is told.                 *)
LEMMA StoredKeeps ==
    ASSUME CreatesInv, NEW r \in Requests, Finished(r),
           NEW pc \in {"reading", "failed"},
           call' = [call EXCEPT ![r].pc = pc], row' = Stored(r),
           holder' = Released(r), nextId' = nextId
    PROVE  CreatesInv'
<1> DEFINE y == [call[r] EXCEPT !.pc = pc]
<1>1. /\ call \in [Requests -> Call] /\ call[r] \in Call /\ row \in [Pairs -> Nat]
      /\ holder \in [Pairs -> Requests \cup {Nobody}] /\ nextId \in Nat \ {0}
      /\ CallInv(r) /\ IdsApart
  BY DEF CreatesInv, TypeOK
<1>2. /\ row' \in [Pairs -> Nat]
      /\ \A i \in DOMAIN call[r].items :
            row'[call[r].items[i]] = call[r].ids[i] /\ call[r].ids[i] # 0
      /\ \A p \in Pairs : row[p] # 0 => row'[p] = row[p]
      /\ \A p \in Pairs : holder[p] # r => row'[p] = row[p]
      /\ \A p \in Pairs : row'[p] # 0 => Gives(p, row'[p])
      /\ DOMAIN call[r].items = DOMAIN call[r].ids
  BY StoredIs
<1>3. call' = [call EXCEPT ![r] = y] /\ call'[r] = y
      /\ \A s \in Requests \ {r} : call'[s] = call[s]
  BY <1>1
<1>4. y \in Call /\ y.pc = pc /\ y.asked = call[r].asked
      /\ y.items = call[r].items /\ y.ids = call[r].ids
  <2>1. \A c \in Call : LET z == [c EXCEPT !.pc = pc] IN
            /\ z \in Call /\ z.pc = pc /\ z.asked = c.asked
            /\ z.items = c.items /\ z.ids = c.ids
    BY DEF Call
  <2>2. QED BY <1>1, <2>1
<1> HIDE DEF y
<1>5. TypeOK'
  BY <1>1, <1>2, <1>3, <1>4 DEF TypeOK, Released
<1>6. Spares(r)
  BY <1>1, <1>2, <1>3, PairsAssumption DEF Spares, Released
<1>7. CallInv(r)'
  <2>1. Represents(r)'
    BY <1>1, <1>3, <1>4 DEF CallInv, Represents, Finished
  <2>2. ReadsStored(r)'
    <3>1. \A i \in DOMAIN y.items : row'[y.items[i]] # 0 /\ row'[y.items[i]] \in ToSet(y.ids)
      BY <1>2, <1>4 DEF ToSet
    <3>2. \A n \in ToSet(y.ids) : \E i \in DOMAIN y.items : row'[y.items[i]] = n
      BY <1>2, <1>4 DEF ToSet
    <3>3. QED BY <1>3, <3>1, <3>2 DEF ReadsStored
  <2>3. QED BY <1>3, <1>4, <2>1, <2>2 DEF CallInv, HoldsWritten, AnswerRight
<1>8. IdsApart'
  <2>1. ASSUME NEW p \in Pairs, NEW n \in Nat, Gives(p, n)' PROVE Gives(p, n)
    <3>1. CASE n # 0 /\ row'[p] = n
      BY <1>2, <3>1
    <3>2. ASSUME NEW s \in Requests, call'[s].pc = "open",
                 NEW i \in 1..Len(call'[s].ids),
                 call'[s].items[i] = p, call'[s].ids[i] = n
          PROVE  Gives(p, n)
      <4>1. s # r
        BY <1>3, <1>4, <3>2
      <4>2. call'[s] = call[s]
        BY <1>3, <4>1
      <4>3. QED BY <3>2, <4>2 DEF Gives
    <3>3. QED BY <2>1, <3>1, <3>2 DEF Gives
  <2>2. QED BY <2>1, StillApart
<1>9. QED BY <1>5, <1>6, <1>7, <1>8, StepKeeps

LEMMA CreatesInvPreserved == CreatesInv /\ [Next]_vars => CreatesInv'
<1> SUFFICES ASSUME CreatesInv, [Next]_vars PROVE CreatesInv'
  OBVIOUS
<1>1. CASE UNCHANGED vars
  <2>1. TypeOK' /\ IdsApart'
    BY <1>1 DEF vars, CreatesInv, TypeOK, IdsApart, Gives
  <2>2. ASSUME NEW r \in Requests PROVE CallInv(r)'
    <3>1. CallInv(r)
      BY DEF CreatesInv
    <3>2. HoldsWritten(r)' /\ Represents(r)'
      BY <1>1, <3>1 DEF vars, CallInv, HoldsWritten, Represents
    <3>3. ReadsStored(r)' /\ AnswerRight(r)'
      BY <1>1, <3>1 DEF vars, CallInv, ReadsStored, AnswerRight
    <3>4. QED BY <3>2, <3>3 DEF CallInv
  <2>3. QED BY <2>1, <2>2 DEF CreatesInv
<1>2. ASSUME NEW r \in Requests, CreateTrackings(r) PROVE CreatesInv'
  BY <1>2, CreateTrackingsKeeps
<1>3. ASSUME NEW r \in Requests, BeginTx(r) PROVE CreatesInv'
  BY <1>3, BeginTxKeeps
<1>4. ASSUME NEW r \in Requests, BeginFails(r) PROVE CreatesInv'
  BY <1>4, FailureKeeps DEF BeginFails
<1>5. ASSUME NEW r \in Requests, InsertTracking(r) PROVE CreatesInv'
  BY <1>5, InsertTrackingKeeps
<1>6. ASSUME NEW r \in Requests, StatementFails(r) PROVE CreatesInv'
  BY <1>6, FailureKeeps DEF StatementFails
<1>7. ASSUME NEW r \in Requests, DeadlockDetected(r) PROVE CreatesInv'
  BY <1>7, FailureKeeps DEF DeadlockDetected
<1>8. ASSUME NEW r \in Requests, Commit(r) PROVE CreatesInv'
  BY <1>8, StoredKeeps DEF Commit
<1>9. ASSUME NEW r \in Requests, CommitFails(r) PROVE CreatesInv'
  <2>1. CASE row' = row
    BY <1>9, <2>1, FailureKeeps DEF CommitFails
  <2>2. CASE row' = Stored(r)
    BY <1>9, <2>2, StoredKeeps DEF CommitFails
  <2>3. QED BY <1>9, <2>1, <2>2 DEF CommitFails
<1>10. ASSUME NEW r \in Requests, ReadBack(r) PROVE CreatesInv'
  BY <1>10, ReadBackKeeps
<1>11. ASSUME NEW r \in Requests, ReadBackFails(r) PROVE CreatesInv'
  BY <1>11, FailureKeeps DEF ReadBackFails
<1>12. QED BY <1>1, <1>2, <1>3, <1>4, <1>5, <1>6, <1>7, <1>8, <1>9, <1>10, <1>11 DEF Next

LEMMA CreatesInvHolds == Spec => []CreatesInv
BY CreatesInvInitial, CreatesInvPreserved, PTL DEF Spec

-----------------------------------------------------------------------------
(* The theorems                                                            *)

(* Rows, holders, the sequence of ids and every call keep their types.     *)
THEOREM CreatesTypeCorrect == Spec => []TypeOK
<1>1. CreatesInv => TypeOK
  BY DEF CreatesInv
<1>2. QED BY CreatesInvHolds, <1>1, PTL

(* However batches with common pairs interleave, wait for each other, fail *)
(* and are aborted: an answer has the stored row of every key asked for,   *)
(* and no row of a pair that the batch did not have (service.go:44-61).    *)
THEOREM AnswersCoverBatches == Spec => []AnswerCoversBatch
<1>1. CreatesInv => AnswerCoversBatch
  BY DEF CreatesInv, CallInv, AnswerRight, AnswerCoversBatch
<1>2. QED BY CreatesInvHolds, <1>1, PTL

(* No two trackings have the same id, nor a tracking the id that an open   *)
(* transaction has got for another pair (trackings_repo.go:28-40).         *)
THEOREM TrackingsHaveTheirOwnIds ==
    Spec => [](\A p, q \in Pairs : row[p] # 0 /\ row[p] = row[q] => p = q)
<1>1. CreatesInv => \A p, q \in Pairs : row[p] # 0 /\ row[p] = row[q] => p = q
  BY DEF CreatesInv, TypeOK, IdsApart, Gives
<1>2. QED BY CreatesInvHolds, <1>1, PTL

LEMMA RowsMoveOnlyAtCommits ==
    ASSUME CreatesInv, [Next]_vars
    PROVE  \/ row' = row
           \/ \E r \in Requests : /\ Finished(r) /\ row' = Stored(r)
                                 /\ \E pc \in {"reading", "failed"} :
                                       call' = [call EXCEPT ![r].pc = pc]
BY DEF Next, vars, CreateTrackings, BeginTx, BeginFails, InsertTracking, StatementFails,
       DeadlockDetected, Commit, CommitFails, ReadBack, ReadBackFails

(* The id of a tracking never changes, whatever batches have its pair.     *)
THEOREM IdsAreStable == Spec => IdsNeverChange
<1>1. CreatesInv /\ [Next]_vars =>
         [\A p \in Pairs : row[p] # 0 => row'[p] = row[p]]_vars
  BY RowsMoveOnlyAtCommits, StoredIs
<1>2. QED BY CreatesInvHolds, <1>1, PTL DEF Spec, IdsNeverChange

-----------------------------------------------------------------------------
(* The transactions implement the Registry                                 *)

Phases  == [r \in Requests |-> PhaseOf(call[r].pc)]
Askings == [r \in Requests |-> call[r].asked]
Tidied  == [r \in Requests |-> ToSet(call[r].items)]
Answers == [r \in Requests |-> call[r].rows]

LEMMA PhaseIs ==
    /\ PhaseOf("idle") = "ready" /\ PhaseOf("queued") = "asked"
    /\ PhaseOf("open") = "asked" /\ PhaseOf("reading") = "registered"
    /\ PhaseOf("answered") = "answered" /\ PhaseOf("failed") = "failed"
BY DEF PhaseOf

LEMMA OneCallSeen ==
    ASSUME call \in [Requests -> Call], NEW r \in Requests, NEW y,
           call' = [call EXCEPT ![r] = y]
    PROVE  /\ Phases' = [Phases EXCEPT ![r] = PhaseOf(y.pc)]
           /\ Askings' = [Askings EXCEPT ![r] = y.asked]
           /\ Tidied' = [Tidied EXCEPT ![r] = ToSet(y.items)]
           /\ Answers' = [Answers EXCEPT ![r] = y.rows]
BY DEF Phases, Askings, Tidied, Answers

(* Only the stage of the call of r changes.                                *)
LEMMA StageSeen ==
    ASSUME CreatesInv, NEW r \in Requests,
           NEW pc \in {"idle", "queued", "open", "reading", "answered", "failed"},
           call' = [call EXCEPT ![r].pc = pc]
    PROVE  /\ Phases' = [Phases EXCEPT ![r] = PhaseOf(pc)]
           /\ Askings' = Askings /\ Tidied' = Tidied /\ Answers' = Answers
<1> DEFINE y == [call[r] EXCEPT !.pc = pc]
<1>1. call \in [Requests -> Call] /\ call[r] \in Call
  BY DEF CreatesInv, TypeOK
<1>2. /\ y.pc = pc /\ y.asked = call[r].asked /\ y.items = call[r].items
      /\ y.rows = call[r].rows
  BY <1>1, CallFields
<1>3. call' = [call EXCEPT ![r] = y]
  OBVIOUS
<1> HIDE DEF y
<1>4. /\ Phases' = [Phases EXCEPT ![r] = PhaseOf(y.pc)]
      /\ Askings' = [Askings EXCEPT ![r] = y.asked]
      /\ Tidied' = [Tidied EXCEPT ![r] = ToSet(y.items)]
      /\ Answers' = [Answers EXCEPT ![r] = y.rows]
  BY <1>1, <1>3, OneCallSeen
<1>5. /\ [Askings EXCEPT ![r] = y.asked] = Askings
      /\ [Tidied EXCEPT ![r] = ToSet(y.items)] = Tidied
      /\ [Answers EXCEPT ![r] = y.rows] = Answers
  BY <1>2 DEF Askings, Tidied, Answers
<1>6. QED BY <1>2, <1>4, <1>5

LEMMA AskSeen ==
    ASSUME CreatesInv, NEW r \in Requests, CreateTrackings(r)
    PROVE  R!Ask(r) \/ R!Reject(r)
<1>1. call \in [Requests -> Call] /\ call[r] \in Call
  BY DEF CreatesInv, TypeOK
<1>2. PICK items \in Batches : call' = [call EXCEPT ![r] =
         IF Rejected(items)
         THEN [pc |-> "failed", asked |-> {}, items |-> <<>>,
               ids |-> <<>>, rows |-> {}, calls |-> call[r].calls + 1]
         ELSE [pc |-> "queued", asked |-> ToSet(items), items |-> Clean(items),
               ids |-> <<>>, rows |-> {}, calls |-> call[r].calls + 1]]
  BY DEF CreateTrackings
<1>3. Phases[r] \in {"ready", "answered", "failed"} /\ row' = row
  BY PhaseIs DEF CreateTrackings, Phases
<1>4. CASE Rejected(items)
  <2> DEFINE y == [pc |-> "failed", asked |-> {}, items |-> <<>>,
                   ids |-> <<>>, rows |-> {}, calls |-> call[r].calls + 1]
  <2>1. /\ call' = [call EXCEPT ![r] = y] /\ y.pc = "failed" /\ y.asked = {}
        /\ ToSet(y.items) = {} /\ y.rows = {}
    BY <1>2, <1>4 DEF ToSet
  <2> HIDE DEF y
  <2>2. /\ Phases' = [Phases EXCEPT ![r] = PhaseOf(y.pc)]
        /\ Askings' = [Askings EXCEPT ![r] = y.asked]
        /\ Tidied' = [Tidied EXCEPT ![r] = ToSet(y.items)]
        /\ Answers' = [Answers EXCEPT ![r] = y.rows]
    BY <1>1, <2>1, OneCallSeen
  <2>3. /\ Phases' = [Phases EXCEPT ![r] = "failed"]
        /\ Askings' = [Askings EXCEPT ![r] = {}]
        /\ Tidied' = [Tidied EXCEPT ![r] = {}]
        /\ Answers' = [Answers EXCEPT ![r] = {}]
    BY <2>1, <2>2, PhaseIs
  <2>4. R!Reject(r)
    BY <1>3, <2>3 DEF R!Reject, R!Ready, Phases, Askings, Tidied, Answers
  <2>5. QED BY <2>4
<1>5. CASE ~Rejected(items)
  <2> DEFINE A == ToSet(items)
             B == ToSet(Clean(items))
             y == [pc |-> "queued", asked |-> A, items |-> Clean(items),
                   ids |-> <<>>, rows |-> {}, calls |-> call[r].calls + 1]
  <2>1. items \in Seq(Pairs \cup {Malformed}) /\ Malformed \notin ToSet(items)
        /\ items # <<>>
    BY <1>5, BatchesAssumption DEF Rejected
  <2>2. items \in Seq(Pairs) /\ A \in SUBSET Pairs /\ A # {}
    BY <2>1 DEF ToSet
  <2>3. B \in SUBSET A /\ R!StandsFor(B, A)
    <3>1. /\ \A k \in DOMAIN Clean(items) : Clean(items)[k] \in A
          /\ \A k, l \in DOMAIN Clean(items) :
                KeyOf[Clean(items)[k]] = KeyOf[Clean(items)[l]] => k = l
          /\ \A p \in A : \E k \in DOMAIN Clean(items) : KeyOf[Clean(items)[k]] = KeyOf[p]
      BY <2>2, CleanIs
    <3> HIDE DEF A
    <3>2. QED BY <3>1 DEF R!StandsFor, ToSet
  <2>4. /\ call' = [call EXCEPT ![r] = y] /\ y.pc = "queued" /\ y.asked = A
        /\ ToSet(y.items) = B /\ y.rows = {}
    BY <1>2, <1>5
  <2> HIDE DEF y, A, B
  <2>5. /\ Phases' = [Phases EXCEPT ![r] = PhaseOf(y.pc)]
        /\ Askings' = [Askings EXCEPT ![r] = y.asked]
        /\ Tidied' = [Tidied EXCEPT ![r] = ToSet(y.items)]
        /\ Answers' = [Answers EXCEPT ![r] = y.rows]
    BY <1>1, <2>4, OneCallSeen
  <2>6. /\ Phases' = [Phases EXCEPT ![r] = "asked"]
        /\ Askings' = [Askings EXCEPT ![r] = A]
        /\ Tidied' = [Tidied EXCEPT ![r] = B]
        /\ Answers' = [Answers EXCEPT ![r] = {}]
    BY <2>4, <2>5, PhaseIs
  <2>7. \E A_1 \in SUBSET Pairs : \E B_1 \in SUBSET A_1 :
           /\ A_1 # {} /\ R!StandsFor(B_1, A_1)
           /\ Askings' = [Askings EXCEPT ![r] = A_1]
           /\ Tidied' = [Tidied EXCEPT ![r] = B_1]
    BY <2>2, <2>3, <2>6
  <2>8. R!Ask(r)
    BY <1>3, <2>6, <2>7 DEF R!Ask, R!Ready, Phases, Askings, Tidied, Answers
  <2>9. QED BY <2>8
<1>6. QED BY <1>4, <1>5

LEMMA FailureSeen ==
    ASSUME CreatesInv, NEW r \in Requests, call[r].pc \in {"queued", "open", "reading"},
           call' = [call EXCEPT ![r].pc = "failed"], row' = row
    PROVE  R!Fail(r)
<1>1. /\ Phases' = [Phases EXCEPT ![r] = "failed"]
      /\ Askings' = Askings /\ Tidied' = Tidied /\ Answers' = Answers
  BY StageSeen, PhaseIs
<1>2. Phases[r] \in {"asked", "registered"}
  BY PhaseIs DEF Phases
<1>3. QED BY <1>1, <1>2 DEF R!Fail, Phases, Askings, Tidied, Answers

LEMMA CommitSeen ==
    ASSUME CreatesInv, CreatesInv', NEW r \in Requests, Finished(r), row' = Stored(r),
           NEW pc \in {"reading", "failed"}, call' = [call EXCEPT ![r].pc = pc]
    PROVE  R!Register(r)
<1>1. /\ Phases' = [Phases EXCEPT ![r] = PhaseOf(pc)]
      /\ Askings' = Askings /\ Tidied' = Tidied /\ Answers' = Answers
  BY StageSeen
<1>2. PhaseOf(pc) \in {"registered", "failed"} /\ Phases[r] = "asked"
  BY PhaseIs DEF Phases, Finished
<1> DEFINE B == ToSet(call[r].items)
<1>3. /\ \A p \in Pairs : row'[p] \in Nat
      /\ \A p, q \in Pairs : row'[p] # 0 /\ row'[p] = row'[q] => p = q
  <2>1. \A p, q \in Pairs : /\ row[p] \in Nat
                            /\ row[p] # 0 /\ row[p] = row[q] => p = q
    BY DEF CreatesInv, TypeOK, IdsApart, Gives
  <2>2. \A p, q \in Pairs : /\ row'[p] \in Nat
                            /\ row'[p] # 0 /\ row'[p] = row'[q] => p = q
    BY DEF CreatesInv, TypeOK, IdsApart, Gives
  <2>3. QED BY <2>2
<1>4. /\ \A p \in Pairs : row[p] # 0 => row'[p] = row[p]
      /\ \A p \in Pairs : row'[p] # 0 <=> row[p] # 0 \/ p \in B
  <2>1. /\ \A i \in DOMAIN call[r].items : row'[call[r].items[i]] # 0
        /\ \A p \in Pairs : (\A i \in DOMAIN call[r].items : call[r].items[i] # p)
              => row'[p] = row[p]
        /\ \A p \in Pairs : row[p] # 0 => row'[p] = row[p]
    BY StoredIs
  <2>2. QED BY <2>1 DEF ToSet
<1>5. Tidied[r] = B
  BY DEF Tidied
<1> HIDE DEF B
<1>6. R!Registers(B)
  BY <1>3, <1>4 DEF R!Registers
<1>7. R!Registers(Tidied[r])
  BY <1>5, <1>6
<1>8. \E told \in {"registered", "failed"} : Phases' = [Phases EXCEPT ![r] = told]
  BY <1>1, <1>2
<1>9. QED
  BY <1>1, <1>2, <1>7, <1>8 DEF R!Register, Phases, Askings, Tidied, Answers

LEMMA AnswerSeen ==
    ASSUME CreatesInv, NEW r \in Requests, ReadBack(r)
    PROVE  R!Answer(r)
<1> DEFINE found == {q \in Pairs : row[q] \in ToSet(call[r].ids) \ {0}}
           rows  == {<<p, row[p]>> : p \in found}
           y == [call[r] EXCEPT !.pc = "answered", !.rows = rows]
<1>1. /\ call \in [Requests -> Call] /\ call[r] \in Call /\ row \in [Pairs -> Nat]
      /\ CallInv(r) /\ IdsApart /\ call[r].pc = "reading"
  BY DEF CreatesInv, TypeOK, ReadBack
<1>2. call' = [call EXCEPT ![r] = y] /\ row' = row
  BY DEF ReadBack
<1>3. found = ToSet(call[r].items)
  <2>1. /\ call[r].items \in Seq(Pairs)
        /\ \A i \in DOMAIN call[r].items :
               row[call[r].items[i]] # 0 /\ row[call[r].items[i]] \in ToSet(call[r].ids)
        /\ \A n \in ToSet(call[r].ids) :
               \E i \in DOMAIN call[r].items : row[call[r].items[i]] = n
    BY <1>1 DEF Call, CallInv, ReadsStored
  <2>2. \A i \in DOMAIN call[r].items : call[r].items[i] \in Pairs
    BY <2>1
  <2>3. \A p, q \in Pairs : row[p] # 0 /\ row[p] = row[q] => p = q
    BY <1>1 DEF IdsApart, Gives
  <2>4. ASSUME NEW p \in found PROVE p \in ToSet(call[r].items)
    <3>1. PICK i \in DOMAIN call[r].items : row[call[r].items[i]] = row[p]
      BY <2>1
    <3>2. call[r].items[i] = p
      BY <2>2, <2>3, <3>1
    <3>3. QED BY <3>2 DEF ToSet
  <2>5. ASSUME NEW p \in ToSet(call[r].items) PROVE p \in found
    BY <2>1, <2>2 DEF ToSet
  <2>6. QED BY <2>4, <2>5
<1>4. y.pc = "answered" /\ y.asked = call[r].asked /\ y.items = call[r].items
      /\ y.rows = {<<p, row[p]>> : p \in ToSet(call[r].items)}
  <2>1. rows = {<<p, row[p]>> : p \in ToSet(call[r].items)}
    BY <1>3
  <2> HIDE DEF rows
  <2>2. QED BY <1>1, <2>1 DEF Call
<1> HIDE DEF y
<1>5. /\ Phases' = [Phases EXCEPT ![r] = "answered"]
      /\ Askings' = [Askings EXCEPT ![r] = call[r].asked]
      /\ Tidied' = [Tidied EXCEPT ![r] = ToSet(call[r].items)]
      /\ Answers' = [Answers EXCEPT ![r] = {<<p, row[p]>> : p \in ToSet(call[r].items)}]
  <2>1. /\ Phases' = [Phases EXCEPT ![r] = PhaseOf(y.pc)]
        /\ Askings' = [Askings EXCEPT ![r] = y.asked]
        /\ Tidied' = [Tidied EXCEPT ![r] = ToSet(y.items)]
        /\ Answers' = [Answers EXCEPT ![r] = y.rows]
    BY <1>1, <1>2, OneCallSeen
  <2>2. QED BY <1>4, <2>1, PhaseIs
<1>6. /\ [Askings EXCEPT ![r] = call[r].asked] = Askings
      /\ [Tidied EXCEPT ![r] = ToSet(call[r].items)] = Tidied
      /\ Tidied[r] = ToSet(call[r].items) /\ Phases[r] = "registered"
  BY <1>1, PhaseIs DEF Askings, Tidied, Phases
<1>7. Answers' = [Answers EXCEPT ![r] = {<<p, row[p]>> : p \in Tidied[r]}]
  BY <1>5, <1>6
<1>8. Askings' = Askings /\ Tidied' = Tidied
  BY <1>5, <1>6
<1>9. QED
  BY <1>2, <1>5, <1>6, <1>7, <1>8 DEF R!Answer, Phases, Askings, Tidied, Answers

(* Inside a transaction nothing is to be seen.                             *)
LEMMA NothingSeen ==
    ASSUME CreatesInv, NEW r \in Requests, BeginTx(r) \/ InsertTracking(r)
    PROVE  UNCHANGED <<row, Phases, Askings, Tidied, Answers>>
<1>1. call \in [Requests -> Call] /\ call[r] \in Call /\ row' = row
  BY DEF CreatesInv, TypeOK, BeginTx, InsertTracking
<1>2. CASE BeginTx(r)
  <2>1. /\ Phases' = [Phases EXCEPT ![r] = "asked"]
        /\ Askings' = Askings /\ Tidied' = Tidied /\ Answers' = Answers
    BY <1>2, StageSeen, PhaseIs DEF BeginTx
  <2>2. [Phases EXCEPT ![r] = "asked"] = Phases
    BY <1>2, PhaseIs DEF BeginTx, Phases
  <2>3. QED BY <1>1, <2>1, <2>2
<1>3. CASE InsertTracking(r)
  <2> DEFINE ids == Append(call[r].ids, IdFor(Current(r)))
             y == [call[r] EXCEPT !.ids = ids]
  <2>1. call' = [call EXCEPT ![r] = y]
    BY <1>3 DEF InsertTracking
  <2> HIDE DEF ids
  <2>2. /\ y.pc = call[r].pc /\ y.asked = call[r].asked /\ y.items = call[r].items
        /\ y.rows = call[r].rows
    BY <1>1 DEF Call
  <2> HIDE DEF y
  <2>3. /\ Phases' = [Phases EXCEPT ![r] = PhaseOf(y.pc)]
        /\ Askings' = [Askings EXCEPT ![r] = y.asked]
        /\ Tidied' = [Tidied EXCEPT ![r] = ToSet(y.items)]
        /\ Answers' = [Answers EXCEPT ![r] = y.rows]
    BY <1>1, <2>1, OneCallSeen
  <2>4. /\ Phases' = [Phases EXCEPT ![r] = PhaseOf(call[r].pc)]
        /\ Askings' = [Askings EXCEPT ![r] = call[r].asked]
        /\ Tidied' = [Tidied EXCEPT ![r] = ToSet(call[r].items)]
        /\ Answers' = [Answers EXCEPT ![r] = call[r].rows]
    BY <2>2, <2>3
  <2>5. QED BY <1>1, <2>4 DEF Phases, Askings, Tidied, Answers
<1>4. QED BY <1>2, <1>3

LEMMA StepSeen ==
    ASSUME CreatesInv, CreatesInv', Next
    PROVE  R!Next \/ UNCHANGED <<row, Phases, Askings, Tidied, Answers>>
<1>1. PICK r \in Requests :
         \/ CreateTrackings(r)
         \/ BeginTx(r) \/ BeginFails(r)
         \/ InsertTracking(r) \/ StatementFails(r) \/ DeadlockDetected(r)
         \/ Commit(r) \/ CommitFails(r)
         \/ ReadBack(r) \/ ReadBackFails(r)
  BY DEF Next
<1>2. CASE CreateTrackings(r)
  BY <1>2, AskSeen DEF R!Next
<1>3. CASE BeginTx(r) \/ InsertTracking(r)
  BY <1>3, NothingSeen
<1>4. CASE \/ BeginFails(r)
           \/ StatementFails(r)
           \/ DeadlockDetected(r)
           \/ CommitFails(r) /\ row' = row
           \/ ReadBackFails(r)
  <2>1. call[r].pc \in {"queued", "open", "reading"}
    <3>1. InDeadlock(r) => Blocked(r)
      BY DEF InDeadlock, Cyclic
    <3>2. QED BY <1>4, <3>1 DEF BeginFails, StatementFails, DeadlockDetected, CommitFails,
                              ReadBackFails, HasMore, Blocked, Finished
  <2>2. call' = [call EXCEPT ![r].pc = "failed"] /\ row' = row
    BY <1>4 DEF BeginFails, StatementFails, DeadlockDetected, CommitFails, ReadBackFails
  <2>3. R!Fail(r)
    BY <2>1, <2>2, FailureSeen
  <2>4. QED BY <2>3 DEF R!Next
<1>5. CASE \/ Commit(r)
           \/ CommitFails(r) /\ row' # row
  <2>1. /\ Finished(r) /\ row' = Stored(r)
        /\ \E pc \in {"reading", "failed"} : call' = [call EXCEPT ![r].pc = pc]
    BY <1>5 DEF Commit, CommitFails
  <2>2. R!Register(r)
    BY <2>1, CommitSeen
  <2>3. QED BY <2>2 DEF R!Next
<1>6. CASE ReadBack(r)
  BY <1>6, AnswerSeen DEF R!Next
<1>7. QED BY <1>1, <1>2, <1>3, <1>4, <1>5, <1>6

(* Overlapping transactions, their waits, deadlocks and failures implement *)
(* the Registry: a whole batch gets its ids in one step and for ever, and  *)
(* is answered with these (trackings_repo.go:17-49, service.go:36-62).     *)
THEOREM CreatesImplementsRegistry == Spec => ImplementsRegistry
<1>1. Init => R!Init
  BY PhaseIs DEF Init, R!Init, ToSet
<1>2. CreatesInv /\ CreatesInv' /\ [Next]_vars => [R!Next]_(R!registryVars)
  <2> SUFFICES ASSUME CreatesInv, CreatesInv', [Next]_vars
               PROVE  R!Next \/ UNCHANGED <<row, Phases, Askings, Tidied, Answers>>
    BY DEF R!registryVars, Phases, Askings, Tidied, Answers
  <2>1. CASE Next
    BY <2>1, StepSeen
  <2>2. CASE UNCHANGED vars
    BY <2>2 DEF vars, Phases, Askings, Tidied, Answers
  <2>3. QED BY <2>1, <2>2
<1>3. QED BY <1>1, <1>2, CreatesInvHolds, PTL DEF Spec, ImplementsRegistry, R!Spec

-----------------------------------------------------------------------------
(* Claims: the order of the rows                                           *)

(* What is before a row of the front is in the front.                      *)
LEMMA FrontIsClosed ==
    ASSUME NEW before, IsByTime(before), NEW S, NEW E,
           E \subseteq DOMAIN before \ S,
           \A s \in E, t \in DOMAIN before \ (S \cup E) : s \in before[t],
           NEW t \in E, before[t] \subseteq DOMAIN before
    PROVE  before[t] \ S \subseteq E
<1> SUFFICES ASSUME NEW x \in before[t], x \notin S, x \notin E PROVE FALSE
  OBVIOUS
<1>1. x \in DOMAIN before /\ t \in DOMAIN before /\ t \in before[x]
  OBVIOUS
<1>2. before[x] \subseteq before[t] /\ t \notin before[t]
  BY <1>1 DEF IsByTime
<1>3. QED BY <1>1, <1>2

LEMMA PlacedByTime ==
    ASSUME earlier \in [Queued -> SUBSET Queued], IsByTime(earlier),
           NEW S, NEW E, Place(S, E)
    PROVE  /\ Queued' = Queued \cup S
           /\ earlier' \in [Queued' -> SUBSET Queued']
           /\ IsByTime(earlier')
<1> DEFINE Q == Queued \cup S
           after == Q \ (S \cup E)
<1>1. /\ E \subseteq Queued /\ E \cap S = {}
      /\ \A s \in E, t \in after : s \in earlier[t]
      /\ DOMAIN earlier' = Q
      /\ \A t \in S : earlier'[t] = E
      /\ \A t \in E : earlier'[t] = earlier[t] \ S
      /\ \A t \in after : earlier'[t] = earlier[t] \cup S
  BY DEF Place, ComeFirst, Queued
<1>2. \A t \in E : earlier[t] \ S \subseteq E
  BY FrontIsClosed DEF Place, ComeFirst, Queued
<1>3. \A t \in Q : \/ t \in S
                   \/ t \in E /\ t \in Queued /\ t \notin S
                   \/ t \in after /\ t \in Queued /\ t \notin S /\ t \notin E
  BY <1>1
<1>4. \A t \in Queued : earlier[t] \subseteq Queued /\ t \notin earlier[t]
  BY DEF IsByTime, Queued
<1>5. \A s, t \in Queued :
         IF s \in earlier[t] THEN earlier[s] \subseteq earlier[t]
                             ELSE earlier[t] \subseteq earlier[s]
  BY DEF IsByTime, Queued
<1> HIDE DEF Q, after
<1>6. \A t \in Q : earlier'[t] \subseteq Q
  <2> TAKE t \in Q
  <2>1. E \subseteq Q /\ S \subseteq Q /\ Queued \subseteq Q
    BY <1>1 DEF Q
  <2>2. QED BY <1>1, <1>2, <1>3, <1>4, <2>1
<1>7. earlier' \in [Q -> SUBSET Q]
  <2>1. earlier' = [t \in Q |-> earlier'[t]]
    BY DEF Place, Q
  <2>2. QED BY <1>6, <2>1
<1>8. ASSUME NEW s \in Q, NEW t \in Q
      PROVE  IF s \in earlier'[t] THEN earlier'[s] \subseteq earlier'[t]
                                  ELSE earlier'[t] \subseteq earlier'[s]
  <2>2. CASE t \in S
    BY <1>1, <1>2, <1>3, <2>2
  <2>3. CASE t \in E /\ t \in Queued /\ t \notin S
    <3>1. earlier'[t] = earlier[t] \ S /\ earlier'[t] \subseteq E
      BY <1>1, <1>2, <2>3
    <3>2. CASE s \in S
      BY <1>1, <3>1, <3>2
    <3>3. CASE s \in E /\ s \in Queued /\ s \notin S
      BY <1>1, <1>5, <2>3, <3>1, <3>3
    <3>4. CASE s \in after /\ s \in Queued /\ s \notin S /\ s \notin E
      BY <1>1, <3>1, <3>4
    <3>5. QED BY <1>3, <3>2, <3>3, <3>4
  <2>4. CASE t \in after /\ t \in Queued /\ t \notin S /\ t \notin E
    <3>1. earlier'[t] = earlier[t] \cup S
      BY <1>1, <2>4
    <3>2. CASE s \in S
      BY <1>1, <2>4, <3>1, <3>2
    <3>3. CASE s \in E /\ s \in Queued /\ s \notin S
      <4>1. s \in earlier[t] /\ earlier[s] \subseteq earlier[t]
        BY <1>1, <1>5, <2>4, <3>3
      <4>2. QED BY <1>1, <3>1, <3>3, <4>1
    <3>4. CASE s \in after /\ s \in Queued /\ s \notin S /\ s \notin E
      BY <1>1, <1>5, <2>4, <3>1, <3>4
    <3>5. QED BY <1>3, <3>2, <3>3, <3>4
  <2>5. QED BY <1>3, <2>2, <2>3, <2>4
<1>9. DOMAIN earlier' = Q /\ Queued' = Q
  BY <1>1 DEF Queued
<1>10. IsByTime(earlier')
  <2>1. \A s \in Q : s \notin earlier'[s]
    BY <1>1, <1>3, <1>4
  <2>2. QED BY <1>8, <1>9, <2>1 DEF IsByTime
<1>11. QED BY <1>7, <1>9, <1>10 DEF Q

-----------------------------------------------------------------------------
(* Claims: the checks under way                                            *)

Lists == [Trackings -> Seq(SUBSET Trackings)]

LEMMA NotBehindIs ==
    ASSUME NEW c \in Lists, NEW S
    PROVE  /\ NotBehind(c, S) \in Lists
           /\ \A t \in Trackings :
                 /\ Len(NotBehind(c, S)[t]) = Len(c[t])
                 /\ \A i \in 1..Len(c[t]) : NotBehind(c, S)[t][i] = c[t][i] \ S
<1> SUFFICES ASSUME NEW t \in Trackings
             PROVE  /\ NotBehind(c, S)[t] \in Seq(SUBSET Trackings)
                    /\ Len(NotBehind(c, S)[t]) = Len(c[t])
                    /\ \A i \in 1..Len(c[t]) : NotBehind(c, S)[t][i] = c[t][i] \ S
  BY DEF NotBehind, Lists
<1> DEFINE l == [i \in DOMAIN c[t] |-> c[t][i] \ S]
<1>1. NotBehind(c, S)[t] = l
  BY DEF NotBehind
<1>2. c[t] \in Seq(SUBSET Trackings)
  BY DEF Lists
<1>3. DOMAIN c[t] = 1..Len(c[t]) /\ Len(c[t]) \in Nat
      /\ \A i \in 1..Len(c[t]) : c[t][i] \in SUBSET Trackings
  BY <1>2
<1>4. l \in [1..Len(c[t]) -> SUBSET Trackings]
  BY <1>3
<1>5. l \in Seq(SUBSET Trackings) /\ Len(l) = Len(c[t])
  BY <1>3, <1>4, IsASeq, LenProperties
<1>6. QED BY <1>1, <1>3, <1>5

LEMMA RemoveAtIs ==
    ASSUME NEW X, NEW l \in Seq(X), NEW i \in 1..Len(l)
    PROVE  /\ RemoveAt(l, i) \in Seq(X)
           /\ Len(RemoveAt(l, i)) = Len(l) - 1
           /\ \A j \in 1..Len(l) - 1 :
                 RemoveAt(l, i)[j] = IF j < i THEN l[j] ELSE l[j + 1]
<1> DEFINE a == SubSeq(l, 1, i - 1)
           b == SubSeq(l, i + 1, Len(l))
<1>1. /\ a \in Seq(X) /\ Len(a) = i - 1
      /\ \A j \in 1..i - 1 : a[j] = l[j]
  OBVIOUS
<1>2. /\ b \in Seq(X) /\ Len(b) = Len(l) - i
      /\ \A j \in 1..Len(l) - i : b[j] = l[j + i]
  OBVIOUS
<1> HIDE DEF a, b
<1>3. /\ a \o b \in Seq(X) /\ Len(a \o b) = Len(a) + Len(b)
      /\ \A j \in 1..Len(a) + Len(b) :
            (a \o b)[j] = IF j <= Len(a) THEN a[j] ELSE b[j - Len(a)]
  BY <1>1, <1>2, ConcatProperties
<1>4. RemoveAt(l, i) = a \o b
  BY DEF RemoveAt, a, b
<1>5. Len(l) \in Nat /\ i \in 1..Len(l)
  OBVIOUS
<1>6. ASSUME NEW j \in 1..Len(l) - 1
      PROVE  (a \o b)[j] = IF j < i THEN l[j] ELSE l[j + 1]
  <2>1. CASE j < i
    BY <1>1, <1>2, <1>3, <1>5, <2>1
  <2>2. CASE ~(j < i)
    <3>1. (a \o b)[j] = b[j - (i - 1)] /\ j - (i - 1) \in 1..Len(l) - i
      BY <1>1, <1>2, <1>3, <1>5, <2>2
    <3>2. b[j - (i - 1)] = l[(j - (i - 1)) + i]
      BY <1>2, <3>1
    <3>3. QED BY <1>5, <2>2, <3>1, <3>2
  <2>3. QED BY <2>1, <2>2
<1>7. RemoveAt(l, i) \in Seq(X) /\ Len(RemoveAt(l, i)) = Len(l) - 1
  BY <1>1, <1>2, <1>3, <1>4, <1>5
<1>8. \A j \in 1..Len(l) - 1 : RemoveAt(l, i)[j] = IF j < i THEN l[j] ELSE l[j + 1]
  BY <1>4, <1>6
<1>9. QED BY <1>7, <1>8

LEMMA OneCheckLess ==
    ASSUME checks \in Lists, NEW t \in Trackings, NEW i \in DOMAIN checks[t]
    PROVE  LET c == [checks EXCEPT ![t] = RemoveAt(@, i)] IN
           /\ c \in Lists
           /\ \A s \in Trackings :
                 /\ Len(c[s]) <= Len(checks[s])
                 /\ \A j \in 1..Len(c[s]) :
                       \E k \in 1..Len(checks[s]) : c[s][j] = checks[s][k]
<1> DEFINE l == RemoveAt(checks[t], i)
           c == [checks EXCEPT ![t] = l]
<1>1. checks[t] \in Seq(SUBSET Trackings) /\ i \in 1..Len(checks[t])
  BY DEF Lists
<1>2. /\ l \in Seq(SUBSET Trackings) /\ Len(l) = Len(checks[t]) - 1
      /\ \A j \in 1..Len(checks[t]) - 1 :
            l[j] = IF j < i THEN checks[t][j] ELSE checks[t][j + 1]
  BY <1>1, RemoveAtIs
<1> HIDE DEF l
<1>3. c \in Lists /\ c[t] = l /\ \A s \in Trackings \ {t} : c[s] = checks[s]
  BY <1>2 DEF Lists
<1>4. \A s \in Trackings : Len(checks[s]) \in Nat
  BY DEF Lists
<1>5. \A j \in 1..Len(l) : \E k \in 1..Len(checks[t]) : l[j] = checks[t][k]
  <2> TAKE j \in 1..Len(l)
  <2>1. j \in 1..Len(checks[t]) /\ j + 1 \in 1..Len(checks[t])
        /\ l[j] = IF j < i THEN checks[t][j] ELSE checks[t][j + 1]
    BY <1>1, <1>2, <1>4
  <2>2. QED BY <2>1
<1> HIDE DEF c
<1>6. ASSUME NEW s \in Trackings
      PROVE  /\ Len(c[s]) <= Len(checks[s])
             /\ \A j \in 1..Len(c[s]) :
                   \E k \in 1..Len(checks[s]) : c[s][j] = checks[s][k]
  <2>1. CASE s = t
    <3>1. c[s] = l /\ Len(checks[s]) \in Nat
      BY <1>3, <1>4, <2>1
    <3>2. Len(c[s]) <= Len(checks[s])
      BY <1>2, <2>1, <3>1
    <3>3. QED BY <1>5, <2>1, <3>1, <3>2
  <2>2. CASE s # t
    <3>1. c[s] = checks[s] /\ Len(checks[s]) \in Nat
      BY <1>3, <1>4, <2>2
    <3>2. QED BY <3>1
  <2>3. QED BY <2>1, <2>2
<1>7. QED BY <1>3, <1>6 DEF c, l

-----------------------------------------------------------------------------
(* Claims: the invariant                                                   *)

OrderInv ==
    /\ Queued \subseteq Trackings /\ earlier \in [Queued -> SUBSET Queued]
    /\ IsByTime(earlier)
    /\ due \subseteq Queued /\ \A t \in due : earlier[t] \subseteq due

LocksInv ==
    /\ tx \in [Workers -> SUBSET due]
    /\ \A v, w \in Workers : v # w => tx[v] \cap tx[w] = {}

ChecksInv ==
    /\ checks \in Lists
    /\ \A t \in Trackings : /\ Len(checks[t]) <= MaxChecks
                            /\ \A i \in 1..Len(checks[t]) :
                                   checks[t][i] \subseteq due \ {t}

(* A row that is locked will get one check more.                           *)
RoomInv == \A w \in Workers : \A t \in tx[w] : Len(checks[t]) < MaxChecks

ClaimsInv == OrderInv /\ LocksInv /\ ChecksInv /\ RoomInv

LEMMA ClaimsInvIsType ==
    ClaimsInv <=> ClaimsTypeOK /\ RoomInv
<1>1. checks \in Lists => \A t \in Trackings : DOMAIN checks[t] = 1..Len(checks[t])
  BY DEF Lists
<1>2. QED
  BY <1>1 DEF ClaimsInv, ClaimsTypeOK, OrderInv, LocksInv, ChecksInv, Lists

LEMMA ClaimsInvInitial == ClaimsInit => ClaimsInv
<1> SUFFICES ASSUME ClaimsInit PROVE ClaimsInv
  OBVIOUS
<1>1. /\ earlier \in [Trackings -> SUBSET Trackings] /\ IsByTime(earlier)
      /\ due = Trackings /\ tx = [w \in Workers |-> {}]
      /\ checks = [t \in Trackings |-> << >>]
  BY DEF ClaimsInit
<1>2. OrderInv /\ LocksInv
  BY <1>1 DEF OrderInv, LocksInv, Queued
<1>3. ChecksInv /\ RoomInv
  BY <1>1, ClaimsAssumption DEF ChecksInv, RoomInv, Lists
<1>4. QED BY <1>2, <1>3 DEF ClaimsInv

(* Nobody but the claims of w moves what w has locked.                     *)
LEMMA TimePassesKeepsInv ==
    ASSUME ClaimsInv, TimePasses PROVE ClaimsInv'
<1>1. /\ earlier' = earlier /\ tx' = tx /\ checks' = checks
      /\ due' = due \cup {t \in Queued : earlier[t] \subseteq due}
      /\ due \subseteq due'
  BY DEF TimePasses
<1>2. Queued' = Queued
  BY <1>1 DEF Queued
<1>3. OrderInv'
  BY <1>1, <1>2 DEF ClaimsInv, OrderInv, IsByTime
<1>4. LocksInv'
  BY <1>1 DEF ClaimsInv, LocksInv
<1>5. ChecksInv' /\ RoomInv'
  BY <1>1 DEF ClaimsInv, ChecksInv, RoomInv
<1>6. QED BY <1>3, <1>4, <1>5 DEF ClaimsInv

LEMMA SelectDueKeepsInv ==
    ASSUME ClaimsInv, NEW w \in Workers, SelectDue(w) PROVE ClaimsInv'
<1>1. PICK S \in Selected :
         /\ \A t \in S : Len(checks[t]) < MaxChecks
         /\ tx' = [tx EXCEPT ![w] = S]
  BY DEF SelectDue
<1>2. S \subseteq due /\ \A v \in Workers : tx[v] \cap S = {}
  BY DEF Selected, Limited, FreeDue, Locked
<1>3. earlier' = earlier /\ due' = due /\ checks' = checks /\ Queued' = Queued
  BY DEF SelectDue, Queued
<1>4. OrderInv'
  BY <1>3 DEF ClaimsInv, OrderInv, IsByTime
<1>5. LocksInv'
  BY <1>1, <1>2, <1>3 DEF ClaimsInv, LocksInv
<1>6. ChecksInv' /\ RoomInv'
  BY <1>1, <1>3 DEF ClaimsInv, LocksInv, ChecksInv, RoomInv
<1>7. QED BY <1>4, <1>5, <1>6 DEF ClaimsInv

LEMMA RollbackKeepsInv ==
    ASSUME ClaimsInv, NEW w \in Workers, RollbackClaim(w) PROVE ClaimsInv'
<1>1. /\ earlier' = earlier /\ due' = due /\ checks' = checks /\ Queued' = Queued
      /\ tx' = [tx EXCEPT ![w] = {}]
  BY DEF RollbackClaim, Queued
<1>2. OrderInv'
  BY <1>1 DEF ClaimsInv, OrderInv, IsByTime
<1>3. LocksInv'
  BY <1>1 DEF ClaimsInv, LocksInv
<1>4. ChecksInv' /\ RoomInv'
  BY <1>1 DEF ClaimsInv, LocksInv, ChecksInv, RoomInv
<1>5. QED BY <1>2, <1>3, <1>4 DEF ClaimsInv

(* Rows that come to stand behind those still due take nobody's turn.      *)
LEMMA PlaceKeepsOrder ==
    ASSUME OrderInv, NEW S, S \subseteq Trackings, NEW E, Place(S, E),
           \/ due \ S \subseteq E /\ due' = due \ S
           \/ E \subseteq due /\ due' = due \cup S
    PROVE  OrderInv'
<1>1. /\ Queued' = Queued \cup S
      /\ earlier' \in [Queued' -> SUBSET Queued']
      /\ IsByTime(earlier')
  BY PlacedByTime DEF OrderInv
<1>2. IsByTime(earlier)'
  BY <1>1 DEF IsByTime
<1>3. /\ E \subseteq Queued \ S
      /\ \A t \in S : earlier'[t] = E
      /\ \A t \in E : earlier'[t] = earlier[t] \ S
      /\ \A t \in Queued \ (S \cup E) : earlier'[t] = earlier[t] \cup S
  BY DEF Place, ComeFirst
<1>4. \A t \in E : earlier[t] \ S \subseteq E
  BY FrontIsClosed DEF Place, ComeFirst, OrderInv, Queued
<1>5. Queued' \subseteq Trackings /\ due' \subseteq Queued'
  BY <1>1 DEF OrderInv
<1>6. ASSUME NEW t \in due' PROVE earlier'[t] \subseteq due'
  <2>1. CASE due \ S \subseteq E /\ due' = due \ S
    BY <1>3, <1>6, <2>1 DEF OrderInv
  <2>2. CASE E \subseteq due /\ due' = due \cup S
    <3>1. CASE t \in S
      BY <1>3, <2>2, <3>1
    <3>2. CASE t \in E
      BY <1>3, <1>4, <2>2, <3>2
    <3>3. CASE t \in due /\ t \in Queued \ (S \cup E)
      BY <1>3, <2>2, <3>3 DEF OrderInv
    <3>4. QED BY <1>6, <2>2, <3>1, <3>2, <3>3 DEF OrderInv
  <2>3. QED BY <2>1, <2>2
<1>7. QED BY <1>1, <1>2, <1>5, <1>6 DEF OrderInv

(* Some of the checks, without the rows S.                                 *)
LEMMA FewerChecksKeep ==
    ASSUME ChecksInv, NEW c \in Lists, NEW S,
           \A t \in Trackings :
              /\ Len(c[t]) <= Len(checks[t])
              /\ \A i \in 1..Len(c[t]) :
                    \E k \in 1..Len(checks[t]) : c[t][i] = checks[t][k],
           checks' = NotBehind(c, S), due \ S \subseteq due'
    PROVE  ChecksInv' /\ \A t \in Trackings : Len(checks'[t]) <= Len(checks[t])
<1>1. /\ checks' \in Lists
      /\ \A t \in Trackings : /\ Len(checks'[t]) = Len(c[t])
                              /\ \A i \in 1..Len(c[t]) : checks'[t][i] = c[t][i] \ S
  BY NotBehindIs
<1>2. \A t \in Trackings : Len(checks[t]) \in Nat /\ Len(c[t]) \in Nat
  BY DEF ChecksInv, Lists
<1>3. \A t \in Trackings : Len(checks'[t]) <= Len(checks[t]) /\ Len(checks'[t]) <= MaxChecks
  BY <1>1, <1>2, ClaimsAssumption DEF ChecksInv
<1>4. ASSUME NEW t \in Trackings, NEW i \in 1..Len(checks'[t])
      PROVE  checks'[t][i] \subseteq due' \ {t}
  <2>1. checks'[t][i] = c[t][i] \ S /\ i \in 1..Len(c[t])
    BY <1>1
  <2>2. PICK k \in 1..Len(checks[t]) : c[t][i] = checks[t][k]
    BY <2>1
  <2>3. c[t][i] \subseteq due \ {t}
    BY <2>2 DEF ChecksInv
  <2>4. QED BY <2>1, <2>3
<1>5. QED BY <1>1, <1>3, <1>4 DEF ChecksInv

LEMMA CommitKeepsInv ==
    ASSUME ClaimsInv, NEW w \in Workers, CommitClaim(w) PROVE ClaimsInv'
<1> DEFINE S == tx[w]
           L == NotBehind(checks, S)
<1>1. PICK E : due \ S \subseteq E /\ Place(S, E)
  BY DEF CommitClaim
<1>2. /\ due' = due \ S /\ tx' = [tx EXCEPT ![w] = {}]
      /\ checks' = [t \in Trackings |-> IF t \in S THEN Append(L[t], due \ S) ELSE L[t]]
  BY DEF CommitClaim
<1>3. OrderInv /\ LocksInv /\ ChecksInv /\ RoomInv
  BY DEF ClaimsInv
<1>4. S \subseteq due /\ S \subseteq Trackings /\ due \subseteq Trackings
  BY <1>3 DEF OrderInv, LocksInv
<1>5. OrderInv'
  BY <1>1, <1>2, <1>3, <1>4, PlaceKeepsOrder
<1>6. LocksInv'
  BY <1>2, <1>3 DEF LocksInv
<1>7. /\ L \in Lists
      /\ \A t \in Trackings :
            /\ Len(L[t]) = Len(checks[t])
            /\ \A i \in 1..Len(checks[t]) : L[t][i] = checks[t][i] \ S
  BY <1>3, NotBehindIs DEF ChecksInv
<1> HIDE DEF L
<1>8. ASSUME NEW t \in Trackings
      PROVE  /\ checks'[t] \in Seq(SUBSET Trackings)
             /\ Len(checks'[t]) <= MaxChecks
             /\ t \notin S => Len(checks'[t]) = Len(checks[t])
             /\ \A i \in 1..Len(checks'[t]) : checks'[t][i] \subseteq (due \ S) \ {t}
  <2>1. L[t] \in Seq(SUBSET Trackings) /\ Len(checks[t]) \in Nat
    BY <1>3, <1>7 DEF Lists, ChecksInv
  <2>2. \A i \in 1..Len(L[t]) : L[t][i] \subseteq (due \ S) \ {t}
    BY <1>3, <1>7 DEF ChecksInv
  <2>3. CASE t \in S
    <3>1. checks'[t] = Append(L[t], due \ S) /\ due \ S \in SUBSET Trackings
      BY <1>2, <1>4, <2>3
    <3>2. /\ checks'[t] \in Seq(SUBSET Trackings)
          /\ Len(checks'[t]) = Len(L[t]) + 1
          /\ \A i \in 1..Len(L[t]) : checks'[t][i] = L[t][i]
          /\ checks'[t][Len(L[t]) + 1] = due \ S
      BY <2>1, <3>1, AppendProperties
    <3>3. Len(checks[t]) < MaxChecks /\ Len(L[t]) = Len(checks[t]) /\ MaxChecks \in Nat
      BY <1>3, <1>7, <2>3, ClaimsAssumption DEF RoomInv
    <3>4. \A i \in 1..Len(checks'[t]) : i \in 1..Len(L[t]) \/ i = Len(L[t]) + 1
      BY <2>1, <3>2, <3>3
    <3>5. \A i \in 1..Len(checks'[t]) : checks'[t][i] \subseteq (due \ S) \ {t}
      BY <2>2, <2>3, <3>2, <3>4
    <3>6. Len(checks'[t]) <= MaxChecks
      BY <2>1, <3>2, <3>3
    <3>7. QED BY <2>3, <3>2, <3>5, <3>6
  <2>4. CASE t \notin S
    <3>1. checks'[t] = L[t] /\ Len(L[t]) = Len(checks[t]) /\ Len(checks[t]) <= MaxChecks
      BY <1>2, <1>3, <1>7, <2>4 DEF ChecksInv
    <3>2. QED BY <2>1, <2>2, <2>4, <3>1
  <2>5. QED BY <2>3, <2>4
<1>9. checks' \in Lists
  <2>1. checks' = [t \in Trackings |-> checks'[t]]
    BY <1>2
  <2>2. QED BY <1>8, <2>1 DEF Lists
<1>10. ChecksInv'
  BY <1>2, <1>8, <1>9 DEF ChecksInv
<1>11. RoomInv'
  <2> SUFFICES ASSUME NEW v \in Workers, NEW t \in tx'[v]
               PROVE  Len(checks'[t]) < MaxChecks
    BY DEF RoomInv
  <2>1. v # w /\ t \in tx[v] /\ t \notin S /\ t \in Trackings
    BY <1>2, <1>3, <1>4 DEF LocksInv
  <2>2. QED BY <1>3, <1>8, <2>1 DEF RoomInv
<1>12. QED BY <1>5, <1>6, <1>10, <1>11 DEF ClaimsInv

LEMMA CheckLostKeepsInv ==
    ASSUME ClaimsInv, NEW t \in Trackings, CheckLost(t) PROVE ClaimsInv'
<1>1. PICK i \in DOMAIN checks[t] : checks' = [checks EXCEPT ![t] = RemoveAt(@, i)]
  BY DEF CheckLost
<1>2. earlier' = earlier /\ due' = due /\ tx' = tx /\ Queued' = Queued
  BY DEF CheckLost, Queued
<1>3. /\ checks' \in Lists
      /\ \A s \in Trackings :
            /\ Len(checks'[s]) <= Len(checks[s])
            /\ \A j \in 1..Len(checks'[s]) :
                  \E k \in 1..Len(checks[s]) : checks'[s][j] = checks[s][k]
  <2> DEFINE c == [checks EXCEPT ![t] = RemoveAt(@, i)]
  <2>1. /\ c \in Lists
        /\ \A s \in Trackings :
              /\ Len(c[s]) <= Len(checks[s])
              /\ \A j \in 1..Len(c[s]) :
                    \E k \in 1..Len(checks[s]) : c[s][j] = checks[s][k]
    BY OneCheckLess DEF ClaimsInv, ChecksInv
  <2>2. checks' = c
    BY <1>1
  <2> HIDE DEF c
  <2>3. QED BY <2>1, <2>2
<1>4. \A s \in Trackings : Len(checks[s]) \in Nat /\ Len(checks'[s]) \in Nat
  BY <1>3 DEF ClaimsInv, ChecksInv, Lists
<1>5. OrderInv' /\ LocksInv'
  BY <1>2 DEF ClaimsInv, OrderInv, LocksInv, IsByTime
<1>6. ChecksInv'
  <2>1. \A s \in Trackings : Len(checks'[s]) <= MaxChecks
    BY <1>3, <1>4, ClaimsAssumption DEF ClaimsInv, ChecksInv
  <2>2. \A s \in Trackings : \A j \in 1..Len(checks'[s]) : checks'[s][j] \subseteq due \ {s}
    <3> TAKE s \in Trackings
    <3> TAKE j \in 1..Len(checks'[s])
    <3>1. PICK k \in 1..Len(checks[s]) : checks'[s][j] = checks[s][k]
      BY <1>3
    <3>2. checks[s][k] \subseteq due \ {s}
      BY <3>1 DEF ClaimsInv, ChecksInv
    <3>3. QED BY <3>1, <3>2
  <2>3. QED BY <1>2, <1>3, <2>1, <2>2 DEF ChecksInv
<1>7. RoomInv'
  <2>1. \A v \in Workers : tx[v] \subseteq Trackings
    BY DEF ClaimsInv, LocksInv, OrderInv
  <2>2. QED BY <1>2, <1>3, <1>4, <2>1, ClaimsAssumption DEF ClaimsInv, RoomInv
<1>8. QED BY <1>5, <1>6, <1>7 DEF ClaimsInv

(* A row that is in no claim moves.                                        *)
LEMMA MoveKeepsInv ==
    ASSUME ClaimsInv, NEW t \in Trackings, t \notin Locked, OrderInv',
           due \ {t} \subseteq due', tx' = tx,
           NEW c \in Lists,
           \A s \in Trackings :
              /\ Len(c[s]) <= Len(checks[s])
              /\ \A i \in 1..Len(c[s]) :
                    \E k \in 1..Len(checks[s]) : c[s][i] = checks[s][k],
           checks' = NotBehind(c, {t})
    PROVE  ClaimsInv'
<1>1. ChecksInv' /\ \A s \in Trackings : Len(checks'[s]) <= Len(checks[s])
  BY FewerChecksKeep DEF ClaimsInv
<1>2. \A w \in Workers : tx[w] \subseteq due \ {t} /\ tx[w] \subseteq Trackings
  BY DEF ClaimsInv, LocksInv, OrderInv, Locked
<1>3. LocksInv'
  BY <1>2 DEF ClaimsInv, LocksInv
<1>4. \A s \in Trackings : Len(checks[s]) \in Nat /\ Len(checks'[s]) \in Nat
  BY <1>1 DEF ClaimsInv, ChecksInv, Lists
<1>5. ASSUME NEW w \in Workers, NEW s \in tx[w] PROVE Len(checks'[s]) < MaxChecks
  <2>1. s \in Trackings /\ Len(checks[s]) < MaxChecks
    BY <1>2 DEF ClaimsInv, RoomInv
  <2>2. Len(checks'[s]) <= Len(checks[s])
    BY <1>1, <2>1
  <2>3. QED BY <1>4, <2>1, <2>2, ClaimsAssumption
<1>6. RoomInv'
  <2>1. tx' = tx
    OBVIOUS
  <2>2. QED BY <1>5, <2>1 DEF RoomInv
<1>7. QED BY <1>1, <1>3, <1>6 DEF ClaimsInv

LEMMA RefreshKeepsInv ==
    ASSUME ClaimsInv, NEW t \in Trackings, RefreshTracking(t) PROVE ClaimsInv'
<1>1. /\ t \notin Locked /\ Place({t}, due \ {t}) /\ due' = due \cup {t} /\ tx' = tx
      /\ checks' = NotBehind(checks, {t})
  BY DEF RefreshTracking
<1>2. OrderInv'
  <2>1. OrderInv /\ {t} \subseteq Trackings /\ due \ {t} \subseteq due
    BY DEF ClaimsInv
  <2>2. QED BY <1>1, <2>1, PlaceKeepsOrder
<1>3. checks \in Lists /\ \A s \in Trackings : Len(checks[s]) \in Nat
  BY DEF ClaimsInv, ChecksInv, Lists
<1>4. QED BY <1>1, <1>2, <1>3, MoveKeepsInv

LEMMA ParkKeepsOrder ==
    ASSUME OrderInv, NEW t, Park(t) PROVE OrderInv'
<1>1. /\ earlier' = [s \in Queued \ {t} |-> earlier[s] \ {t}] /\ due' = due \ {t}
      /\ Queued' = Queued \ {t}
  BY DEF Park, Queued
<1>2. earlier' \in [Queued' -> SUBSET Queued']
  BY <1>1 DEF OrderInv
<1>3. \A r, s \in Queued' :
         /\ r \notin earlier'[r]
         /\ IF r \in earlier'[s] THEN earlier'[r] \subseteq earlier'[s]
                                 ELSE earlier'[s] \subseteq earlier'[r]
  BY <1>1 DEF OrderInv, IsByTime, Queued
<1>4. IsByTime(earlier)'
  BY <1>3 DEF IsByTime, Queued
<1>5. Queued' \subseteq Trackings /\ due' \subseteq Queued'
      /\ \A s \in due' : earlier'[s] \subseteq due'
  BY <1>1 DEF OrderInv
<1>6. QED BY <1>2, <1>4, <1>5 DEF OrderInv

LEMMA AppliedKeepsInv ==
    ASSUME ClaimsInv, NEW t \in Trackings, Applied(t) PROVE ClaimsInv'
<1>1. PICK i \in DOMAIN checks[t] :
         /\ Reschedule(t, checks[t][i]) \/ Park(t)
         /\ checks' = NotBehind([checks EXCEPT ![t] = RemoveAt(@, i)], {t})
  BY DEF Applied
<1>2. t \notin Locked /\ tx' = tx /\ OrderInv
  BY DEF Applied, ClaimsInv
<1>3. OrderInv' /\ due \ {t} \subseteq due'
  <2>1. CASE Reschedule(t, checks[t][i])
    <3>1. PICK E : /\ Place({t}, E)
                   /\ \/ E \subseteq due /\ due' = due \cup {t}
                      \/ due \ {t} \subseteq E /\ due' = due \ {t}
      BY <2>1 DEF Reschedule
    <3>2. QED BY <1>2, <3>1, PlaceKeepsOrder
  <2>2. CASE Park(t)
    BY <1>2, <2>2, ParkKeepsOrder DEF Park
  <2>3. QED BY <1>1, <2>1, <2>2
<1> DEFINE c == [checks EXCEPT ![t] = RemoveAt(@, i)]
<1>4. /\ c \in Lists
      /\ \A s \in Trackings :
            /\ Len(c[s]) <= Len(checks[s])
            /\ \A j \in 1..Len(c[s]) :
                  \E k \in 1..Len(checks[s]) : c[s][j] = checks[s][k]
  BY OneCheckLess DEF ClaimsInv, ChecksInv
<1>5. checks' = NotBehind(c, {t})
  BY <1>1
<1> HIDE DEF c
<1>6. QED BY <1>2, <1>3, <1>4, <1>5, MoveKeepsInv

LEMMA ClaimsInvPreserved == ClaimsInv /\ [ClaimsNext]_claimsVars => ClaimsInv'
<1> SUFFICES ASSUME ClaimsInv, [ClaimsNext]_claimsVars PROVE ClaimsInv'
  OBVIOUS
<1>1. CASE UNCHANGED claimsVars
  <2>1. earlier' = earlier /\ due' = due /\ tx' = tx /\ checks' = checks /\ Queued' = Queued
    BY <1>1 DEF claimsVars, Queued
  <2>2. OrderInv' /\ LocksInv'
    BY <2>1 DEF ClaimsInv, OrderInv, LocksInv, IsByTime
  <2>3. ChecksInv' /\ RoomInv'
    BY <2>1 DEF ClaimsInv, ChecksInv, RoomInv
  <2>4. QED BY <2>2, <2>3 DEF ClaimsInv
<1>2. CASE TimePasses
  BY <1>2, TimePassesKeepsInv
<1>3. ASSUME NEW w \in Workers, Claim(w) PROVE ClaimsInv'
  BY <1>3, SelectDueKeepsInv, CommitKeepsInv, RollbackKeepsInv DEF Claim
<1>4. ASSUME NEW t \in Trackings, CheckLost(t) PROVE ClaimsInv'
  BY <1>4, CheckLostKeepsInv
<1>5. ASSUME NEW t \in Trackings, Applied(t) PROVE ClaimsInv'
  BY <1>5, AppliedKeepsInv
<1>6. ASSUME NEW t \in Trackings, RefreshTracking(t) PROVE ClaimsInv'
  BY <1>6, RefreshKeepsInv
<1>7. QED BY <1>1, <1>2, <1>3, <1>4, <1>5, <1>6 DEF ClaimsNext

(* Times order the rows, the due ones come first, no row is in two open    *)
(* claims, and one that is in a claim stays due until the claim ends       *)
(* (trackings_repo.go:113-126).                                            *)
THEOREM ClaimsAreExclusive == ClaimsSpec => []ClaimsTypeOK
<1>1. ClaimsSpec => []ClaimsInv
  BY ClaimsInvInitial, ClaimsInvPreserved, PTL DEF ClaimsSpec
<1>2. ClaimsInv => ClaimsTypeOK
  BY ClaimsInvIsType
<1>3. QED BY <1>1, <1>2, PTL

-----------------------------------------------------------------------------
(* Claims: who may overtake                                                *)

(* The checks among l that were claimed before t was due, or when it stood *)
(* elsewhere: what they bring may come to stand before t.                  *)
Older(l, t) == {i \in 1..Len(l) : t \notin l[i]}

LEMMA OlderIsFinite ==
    ASSUME NEW l \in Seq(SUBSET Trackings), NEW t
    PROVE  IsFiniteSet(Older(l, t)) /\ Cardinality(Older(l, t)) \in Nat
<1>1. Len(l) \in Nat
  OBVIOUS
<1>2. IsFiniteSet(1..Len(l))
  BY <1>1, FS_Interval
<1>3. Older(l, t) \subseteq 1..Len(l)
  BY DEF Older
<1>4. QED BY <1>2, <1>3, FS_Subset, FS_CardinalityType

LEMMA OlderRemoved ==
    ASSUME NEW l \in Seq(SUBSET Trackings), NEW t, NEW i \in 1..Len(l)
    PROVE  /\ Cardinality(Older(RemoveAt(l, i), t)) <= Cardinality(Older(l, t))
           /\ t \notin l[i] =>
                 Cardinality(Older(RemoveAt(l, i), t)) < Cardinality(Older(l, t))
<1> DEFINE m == RemoveAt(l, i)
           O == Older(l, t)
           P == Older(m, t)
           f == [j \in P |-> IF j < i THEN j ELSE j + 1]
<1>1. /\ m \in Seq(SUBSET Trackings) /\ Len(m) = Len(l) - 1
      /\ \A j \in 1..Len(l) - 1 : m[j] = IF j < i THEN l[j] ELSE l[j + 1]
  BY RemoveAtIs
<1>2. Len(l) \in Nat /\ i \in 1..Len(l)
  OBVIOUS
<1> HIDE DEF m
<1>3. IsFiniteSet(O) /\ Cardinality(O) \in Nat /\ IsFiniteSet(P) /\ Cardinality(P) \in Nat
  BY <1>1, OlderIsFinite
<1>4. \A j \in P : j \in 1..Len(l) - 1 /\ t \notin m[j]
  BY <1>1 DEF Older
<1>5. \A j \in P : f[j] \in O \ {i}
  <2> TAKE j \in P
  <2>1. j \in 1..Len(l) - 1 /\ t \notin m[j] /\ m[j] = IF j < i THEN l[j] ELSE l[j + 1]
    BY <1>1, <1>4
  <2>2. f[j] = IF j < i THEN j ELSE j + 1
    OBVIOUS
  <2>3. f[j] \in 1..Len(l) /\ f[j] # i /\ m[j] = l[f[j]]
    BY <1>2, <2>1, <2>2
  <2>4. QED BY <2>1, <2>3 DEF Older
<1>6. \A j, k \in P : f[j] = f[k] => j = k
  <2> TAKE j, k \in P
  <2>1. j \in Nat /\ k \in Nat /\ i \in Nat
    BY <1>2, <1>4
  <2>2. f[j] = (IF j < i THEN j ELSE j + 1) /\ f[k] = (IF k < i THEN k ELSE k + 1)
    OBVIOUS
  <2>3. QED BY <2>1, <2>2
<1>7. f \in Injection(P, O \ {i})
  <2>1. f \in [P -> O \ {i}]
    BY <1>5
  <2> HIDE DEF f, P, O
  <2>2. QED BY <1>6, <2>1 DEF Injection, IsInjective
<1> HIDE DEF f, P, O
<1>8. /\ IsFiniteSet(O \ {i}) /\ Cardinality(O \ {i}) \in Nat
      /\ Cardinality(O \ {i}) = IF i \in O THEN Cardinality(O) - 1 ELSE Cardinality(O)
  BY <1>3, FS_RemoveElement, FS_CardinalityType
<1>9. Cardinality(P) <= Cardinality(O \ {i})
  BY <1>3, <1>7, <1>8, FS_Injection
<1>10. t \notin l[i] => i \in O
  BY <1>2 DEF O, Older
<1>11. Cardinality(P) <= Cardinality(O) /\ (i \in O => Cardinality(P) < Cardinality(O))
  BY <1>3, <1>8, <1>9
<1>12. QED BY <1>10, <1>11 DEF P, O, m

(* Rows other than t take their new places.                                *)
LEMMA OlderNotBehind ==
    ASSUME NEW c \in Lists, NEW S, NEW t, t \notin S, NEW s \in Trackings
    PROVE  Older(NotBehind(c, S)[s], t) = Older(c[s], t)
BY NotBehindIs DEF Older

LEMMA OlderAppended ==
    ASSUME NEW l \in Seq(SUBSET Trackings), NEW D \in SUBSET Trackings, NEW t \in D
    PROVE  Older(Append(l, D), t) = Older(l, t)
<1>1. /\ Len(Append(l, D)) = Len(l) + 1 /\ Len(l) \in Nat
      /\ \A i \in 1..Len(l) : Append(l, D)[i] = l[i]
      /\ Append(l, D)[Len(l) + 1] = D
  OBVIOUS
<1>2. \A i \in 1..Len(l) + 1 : i \in 1..Len(l) \/ i = Len(l) + 1
  BY <1>1
<1>3. \A i \in 1..Len(l) : i \in 1..Len(l) + 1
  BY <1>1
<1>4. QED BY <1>1, <1>2, <1>3 DEF Older

Overtake(s, t) == s \in earlier'[t] \ earlier[t]

Waits(t) == t \in due /\ t \in due' /\ ~Applied(t) /\ ~RefreshTracking(t)

LEMMA CommitOvertakesNobody ==
    ASSUME ClaimsInv, NEW w \in Workers, CommitClaim(w),
           NEW t, t \in due, t \in due', NEW s \in Trackings
    PROVE  Older(checks'[s], t) = Older(checks[s], t) /\ ~Overtake(s, t)
<1> DEFINE S == tx[w]
           L == NotBehind(checks, S)
<1>1. PICK E : due \ S \subseteq E /\ Place(S, E)
  BY DEF CommitClaim
<1>2. /\ due' = due \ S
      /\ checks' = [r \in Trackings |-> IF r \in S THEN Append(L[r], due \ S) ELSE L[r]]
  BY DEF CommitClaim
<1>3. OrderInv /\ ChecksInv
  BY DEF ClaimsInv
<1>4. t \in due \ S /\ t \in E /\ t \in Queued \cup S
  BY <1>1, <1>2, <1>3 DEF OrderInv
<1>5. earlier'[t] = earlier[t] \ S
  BY <1>1, <1>4 DEF Place
<1>6. L \in Lists /\ Older(L[s], t) = Older(checks[s], t)
  <2>1. checks \in Lists /\ t \notin S
    BY <1>3, <1>4 DEF ChecksInv
  <2>2. L \in Lists
    BY <2>1, NotBehindIs
  <2>3. Older(L[s], t) = Older(checks[s], t)
    BY <2>1, OlderNotBehind
  <2>4. QED BY <2>2, <2>3
<1> HIDE DEF L
<1>7. L[s] \in Seq(SUBSET Trackings) /\ due \ S \in SUBSET Trackings
  BY <1>3, <1>6 DEF Lists, OrderInv
<1>8. Older(Append(L[s], due \ S), t) = Older(L[s], t)
  BY <1>4, <1>7, OlderAppended
<1>9. Older(checks'[s], t) = Older(checks[s], t)
  BY <1>2, <1>6, <1>8
<1>10. QED BY <1>5, <1>9 DEF Overtake

LEMMA RefreshOvertakesNobody ==
    ASSUME ClaimsInv, NEW r \in Trackings, RefreshTracking(r),
           NEW t, t \in due, t # r, NEW s \in Trackings
    PROVE  Older(checks'[s], t) = Older(checks[s], t) /\ ~Overtake(s, t)
<1>1. OrderInv /\ checks \in Lists /\ Place({r}, due \ {r}) /\ checks' = NotBehind(checks, {r})
  BY DEF ClaimsInv, ChecksInv, RefreshTracking
<1>2. t \in due \ {r} /\ t \in Queued \cup {r}
  BY <1>1 DEF OrderInv
<1>3. earlier'[t] = earlier[t] \ {r}
  BY <1>1, <1>2 DEF Place
<1>4. Older(checks'[s], t) = Older(checks[s], t)
  BY <1>1, OlderNotBehind
<1>5. QED BY <1>3, <1>4 DEF Overtake

LEMMA AppliedOvertakes ==
    ASSUME ClaimsInv, NEW r \in Trackings, Applied(r),
           NEW t, t \in due, t # r, NEW s \in Trackings
    PROVE  /\ Cardinality(Older(checks'[s], t)) <= Cardinality(Older(checks[s], t))
           /\ Overtake(s, t) =>
                 Cardinality(Older(checks'[s], t)) < Cardinality(Older(checks[s], t))
<1>1. PICK i \in DOMAIN checks[r] :
         /\ Reschedule(r, checks[r][i]) \/ Park(r)
         /\ checks' = NotBehind([checks EXCEPT ![r] = RemoveAt(@, i)], {r})
  BY DEF Applied
<1>2. OrderInv /\ ChecksInv /\ checks \in Lists
  BY DEF ClaimsInv, ChecksInv
<1>3. /\ checks[r] \in Seq(SUBSET Trackings) /\ checks[s] \in Seq(SUBSET Trackings)
      /\ i \in 1..Len(checks[r]) /\ t \in Queued
  BY <1>2 DEF Lists, OrderInv
<1>4. Overtake(s, t) => s = r /\ t \notin checks[r][i]
  <2>1. CASE Reschedule(r, checks[r][i])
    <3>1. PICK E : checks[r][i] \subseteq E /\ Place({r}, E)
      BY <2>1 DEF Reschedule
    <3>2. t \in E => earlier'[t] = earlier[t] \ {r}
      BY <1>3, <3>1 DEF Place
    <3>3. t \notin E => earlier'[t] = earlier[t] \cup {r}
      BY <1>3, <3>1 DEF Place
    <3>4. QED BY <3>1, <3>2, <3>3 DEF Overtake
  <2>2. CASE Park(r)
    BY <1>3, <2>2 DEF Park, Overtake
  <2>3. QED BY <1>1, <2>1, <2>2
<1> DEFINE l == RemoveAt(checks[r], i)
           c == [checks EXCEPT ![r] = l]
<1>5. c \in Lists
  BY <1>2, OneCheckLess
<1>6. c[r] = l /\ (s # r => c[s] = checks[s]) /\ checks' = NotBehind(c, {r})
  BY <1>1, <1>2 DEF Lists
<1>7. /\ Cardinality(Older(l, t)) <= Cardinality(Older(checks[r], t))
      /\ t \notin checks[r][i] => Cardinality(Older(l, t)) < Cardinality(Older(checks[r], t))
  BY <1>3, OlderRemoved
<1>8. Cardinality(Older(checks[s], t)) \in Nat
  BY <1>3, OlderIsFinite
<1> HIDE DEF l, c
<1>9. Older(checks'[s], t) = Older(c[s], t)
  BY <1>5, <1>6, OlderNotBehind
<1>10. CASE s = r
  BY <1>4, <1>6, <1>7, <1>9, <1>10
<1>11. CASE s # r
  BY <1>4, <1>6, <1>8, <1>9, <1>11
<1>12. QED BY <1>10, <1>11

LEMMA CheckLostOvertakesNobody ==
    ASSUME ClaimsInv, NEW r \in Trackings, CheckLost(r), NEW t, NEW s \in Trackings
    PROVE  /\ Cardinality(Older(checks'[s], t)) <= Cardinality(Older(checks[s], t))
           /\ ~Overtake(s, t)
<1>1. PICK i \in DOMAIN checks[r] : checks' = [checks EXCEPT ![r] = RemoveAt(@, i)]
  BY DEF CheckLost
<1>2. checks \in Lists /\ earlier' = earlier
  BY DEF ClaimsInv, ChecksInv, CheckLost
<1>3. /\ checks[r] \in Seq(SUBSET Trackings) /\ checks[s] \in Seq(SUBSET Trackings)
      /\ i \in 1..Len(checks[r])
  BY <1>2 DEF Lists
<1> DEFINE l == RemoveAt(checks[r], i)
<1>4. checks'[r] = l /\ (s # r => checks'[s] = checks[s])
  BY <1>1, <1>2 DEF Lists
<1>5. Cardinality(Older(l, t)) <= Cardinality(Older(checks[r], t))
  BY <1>3, OlderRemoved
<1>6. Cardinality(Older(checks[s], t)) \in Nat
  BY <1>3, OlderIsFinite
<1> HIDE DEF l
<1>7. CASE s = r
  BY <1>2, <1>4, <1>5, <1>7 DEF Overtake
<1>8. CASE s # r
  BY <1>2, <1>4, <1>6, <1>8 DEF Overtake
<1>9. QED BY <1>7, <1>8

LEMMA OvertakingIsPaid ==
    ASSUME ClaimsInv, [ClaimsNext]_claimsVars, NEW t, Waits(t), NEW s \in Trackings
    PROVE  /\ Cardinality(Older(checks'[s], t)) <= Cardinality(Older(checks[s], t))
           /\ Overtake(s, t) =>
                 Cardinality(Older(checks'[s], t)) < Cardinality(Older(checks[s], t))
<1>1. Cardinality(Older(checks[s], t)) \in Nat
  <2>1. checks[s] \in Seq(SUBSET Trackings)
    BY DEF ClaimsInv, ChecksInv, Lists
  <2>2. QED BY <2>1, OlderIsFinite
<1>2. ASSUME Older(checks'[s], t) = Older(checks[s], t), ~Overtake(s, t)
      PROVE  /\ Cardinality(Older(checks'[s], t)) <= Cardinality(Older(checks[s], t))
             /\ ~Overtake(s, t)
  BY <1>1, <1>2
<1>3. CASE earlier' = earlier /\ checks' = checks
  BY <1>2, <1>3 DEF Overtake
<1>4. ASSUME NEW w \in Workers, CommitClaim(w)
      PROVE  Older(checks'[s], t) = Older(checks[s], t) /\ ~Overtake(s, t)
  BY <1>4, CommitOvertakesNobody DEF Waits
<1>5. ASSUME NEW r \in Trackings, RefreshTracking(r)
      PROVE  Older(checks'[s], t) = Older(checks[s], t) /\ ~Overtake(s, t)
  BY <1>5, RefreshOvertakesNobody DEF Waits
<1>6. ASSUME NEW r \in Trackings, Applied(r)
      PROVE  /\ Cardinality(Older(checks'[s], t)) <= Cardinality(Older(checks[s], t))
             /\ Overtake(s, t) =>
                   Cardinality(Older(checks'[s], t)) < Cardinality(Older(checks[s], t))
  <2>1. t \in due /\ t # r
    BY <1>6 DEF Waits
  <2>2. QED BY <1>6, <2>1, AppliedOvertakes
<1>7. ASSUME NEW r \in Trackings, CheckLost(r)
      PROVE  /\ Cardinality(Older(checks'[s], t)) <= Cardinality(Older(checks[s], t))
             /\ ~Overtake(s, t)
  BY <1>7, CheckLostOvertakesNobody
<1>8. \/ earlier' = earlier /\ checks' = checks
      \/ \E w \in Workers : CommitClaim(w)
      \/ \E r \in Trackings : CheckLost(r) \/ Applied(r) \/ RefreshTracking(r)
  BY DEF ClaimsNext, claimsVars, Claim, TimePasses, SelectDue, RollbackClaim
<1>9. QED BY <1>2, <1>3, <1>4, <1>5, <1>6, <1>7, <1>8

(* No backlog starves a row for ever by late updates.  While t is due and  *)
(* its own time does not change, the checks of another row that may put it *)
(* before t become no more, and it uses one up whenever it does so: a      *)
(* check claimed meanwhile knows that t was due before it                  *)
(* (trackings_repo.go:156-158, events_repo.go:88-118).                         *)
THEOREM OvertakingTakesOldChecks ==
    ClaimsSpec => [][\A t, s \in Trackings : Waits(t) =>
        /\ Cardinality(Older(checks'[s], t)) <= Cardinality(Older(checks[s], t))
        /\ Overtake(s, t) =>
              Cardinality(Older(checks'[s], t)) < Cardinality(Older(checks[s], t))]_claimsVars
<1>1. ClaimsInv /\ [ClaimsNext]_claimsVars =>
         [\A t, s \in Trackings : Waits(t) =>
             /\ Cardinality(Older(checks'[s], t)) <= Cardinality(Older(checks[s], t))
             /\ Overtake(s, t) =>
                   Cardinality(Older(checks'[s], t)) < Cardinality(Older(checks[s], t))]_claimsVars
  BY OvertakingIsPaid
<1>2. ClaimsSpec => []ClaimsInv
  BY ClaimsInvInitial, ClaimsInvPreserved, PTL DEF ClaimsSpec
<1>3. QED BY <1>1, <1>2, PTL DEF ClaimsSpec

=============================================================================
