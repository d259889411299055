-------------------------- MODULE StatusCacheProofs --------------------------
(* Proofs about StatusCache, for every value of its constants.             *)
EXTENDS StatusCache, TLAPS

(* What a GET has got, still has to ask for and has to read, by its stage. *)
AnswerComes(h) ==
    /\ h.pc = "asking"  => DOMAIN h.got \cup h.left \cup h.miss = h.ids
    /\ h.pc = "reading" => DOMAIN h.got \cup h.miss = h.ids
    /\ h.pc = "filling" => DOMAIN h.got = h.ids /\ h.left \subseteq h.ids
    /\ h.pc = "done"    => DOMAIN h.got = h.ids

(* The update in hand is the newest that Postgres knows of its tracking,   *)
(* and what the consumer has read back is its status.                      *)
ConsumerInOrder ==
    /\ consumer.pc \in {"reloading", "caching", "committing"} =>
          committed < Len(Updates)
    /\ consumer.pc = "caching" => consumer.row.status = db[Target].status
    /\ \A i \in Ids : db[i].status <= committed + 1

CacheInv ==
    /\ TypeOK
    /\ \A r \in Readers : AnswerComes(reader[r])
    /\ ConsumerInOrder
    /\ OnlyStoredStatuses

LEMMA RowsDef ==
    \A f : f \in Rows <=> DOMAIN f \subseteq Ids /\ f \in [DOMAIN f -> Row]
BY DEF Rows

LEMMA RowFields ==
    ASSUME NEW x \in Row
    PROVE  /\ x.status \in Nat /\ x.status \in 0..Len(Updates)
           /\ \A n \in 0..MaxReschedules : /\ [x EXCEPT !.schedule = n] \in Row
                                           /\ [x EXCEPT !.schedule = n].status = x.status
<1>1. Len(Updates) \in Nat
  BY CacheAssumption
<1>2. QED BY <1>1 DEF Row

LEMMA NewRowType == NewRow \in Row /\ NewRow.status = 0
<1>1. Len(Updates) \in Nat /\ MaxReschedules \in Nat
  BY CacheAssumption
<1>2. QED BY <1>1 DEF Row, NewRow

LEMMA IdleTypes ==
    /\ IdleReader \in Reader /\ AnswerComes(IdleReader)
    /\ DOMAIN IdleReader.got = {}
    /\ IdleConsumer \in Consumer /\ IdleConsumer.pc = "idle"
    /\ Absent \in Entry /\ Absent.row.status = 0
<1>1. NoRows \in Rows /\ DOMAIN NoRows = {}
  BY RowsDef DEF NoRows
<1>2. IdleReader \in Reader /\ IdleReader.pc = "idle" /\ IdleReader.got = NoRows
  BY <1>1 DEF IdleReader, Reader
<1>3. AnswerComes(IdleReader)
  BY <1>2 DEF AnswerComes
<1>4. IdleConsumer \in Consumer /\ IdleConsumer.pc = "idle"
  BY NewRowType DEF IdleConsumer, Consumer
<1>5. Absent \in Entry /\ Absent.row.status = 0
  BY NewRowType, CacheAssumption DEF Absent, Entry
<1>6. QED BY <1>1, <1>2, <1>3, <1>4, <1>5

(* An empty cache, no request, nothing consumed.                           *)
LEMMA InitCache == Init => CacheInv
<1> SUFFICES ASSUME Init PROVE CacheInv
  OBVIOUS
<1>1. Len(Updates) \in Nat /\ MaxReschedules \in Nat
  BY CacheAssumption
<1>2. TypeOK
  BY <1>1, NewRowType, IdleTypes DEF Init, TypeOK
<1>3. \A r \in Readers : AnswerComes(reader[r])
  BY IdleTypes DEF Init
<1>4. ConsumerInOrder
  BY IdleTypes, NewRowType DEF Init, ConsumerInOrder
<1>5. OnlyStoredStatuses
  BY IdleTypes, NewRowType DEF Init, OnlyStoredStatuses
<1>6. QED BY <1>2, <1>3, <1>4, <1>5 DEF CacheInv

(* The update after the committed ones is an update of a known tracking.   *)
LEMMA TargetType ==
    ASSUME committed \in 0..Len(Updates), committed < Len(Updates)
    PROVE  Target \in Ids
<1>1. Len(Updates) \in Nat
  BY CacheAssumption
<1>2. committed + 1 \in 1..Len(Updates)
  BY <1>1
<1>3. QED BY <1>2, CacheAssumption DEF Target

-----------------------------------------------------------------------------
(* Entries of the cache.                                                   *)

(* An entry that ages keeps its row or is gone.                            *)
LEMMA AgedEntry ==
    ASSUME NEW e \in Entry
    PROVE  Aged(e) \in Entry /\ (Aged(e).row = e.row \/ Aged(e).row.status = 0)
<1>1. [e EXCEPT !.ttl = @ - 1].row = e.row
  BY DEF Entry
<1>2. e.ttl > 1 => [e EXCEPT !.ttl = @ - 1] \in Entry
  BY CacheAssumption DEF Entry
<1>3. e.ttl \in Nat
  BY CacheAssumption DEF Entry
<1>4. QED BY <1>1, <1>2, <1>3, IdleTypes DEF Aged

(* A row that is put into the cache, or lost on the way.                   *)
LEMMA SetEntry ==
    ASSUME CacheInv, NEW i \in Ids, NEW x \in Row, SetOrFail(i, x),
           x.status <= db[i].status
    PROVE  /\ cache' \in [Ids -> Entry]
           /\ \A k \in Ids : cache'[k].row.status <= db[k].status
           /\ \A k \in Ids : cache'[k] = cache[k] \/ (k = i /\ cache'[k].row = x)
<1>1. cache \in [Ids -> Entry]
      /\ \A k \in Ids : cache[k].row.status <= db[k].status
  BY DEF CacheInv, TypeOK, OnlyStoredStatuses
<1>2. [row |-> x, ttl |-> TTL] \in Entry
  BY CacheAssumption DEF Entry
<1>3. CASE UNCHANGED cache
  BY <1>1, <1>3
<1>4. CASE cache' = [cache EXCEPT ![i] = [row |-> x, ttl |-> TTL]]
  BY <1>1, <1>2, <1>4
<1>5. QED BY <1>3, <1>4 DEF SetOrFail, Set

(* The rows a reader has got are rows, at most as new as those of Postgres. *)
LEMMA ReaderRows ==
    ASSUME CacheInv, NEW r \in Readers
    PROVE  /\ reader[r] \in Reader /\ AnswerComes(reader[r])
           /\ DOMAIN reader[r].got \subseteq Ids
           /\ \A i \in DOMAIN reader[r].got :
                 reader[r].got[i] \in Row /\ reader[r].got[i].status <= db[i].status
<1>1. reader[r] \in Reader /\ AnswerComes(reader[r])
  BY DEF CacheInv, TypeOK
<1>2. reader[r].got \in Rows
  BY <1>1 DEF Reader
<1>3. QED BY <1>1, <1>2, RowsDef DEF CacheInv, OnlyStoredStatuses

(* A step that replaces the record of one reader.                          *)
LEMMA OneReader ==
    ASSUME CacheInv, NEW r \in Readers, NEW h,
           h \in Reader, AnswerComes(h),
           \A i \in DOMAIN h.got : h.got[i].status <= db[i].status,
           reader' = [reader EXCEPT ![r] = h],
           UNCHANGED <<db, consumer, committed, reschedules>>,
           cache' \in [Ids -> Entry],
           \A i \in Ids : cache'[i].row.status <= db[i].status
    PROVE  CacheInv'
<1>1. reader' \in [Readers -> Reader]
      /\ \A q \in Readers : reader'[q] = IF q = r THEN h ELSE reader[q]
  BY DEF CacheInv, TypeOK
<1>2. TypeOK'
  BY <1>1 DEF CacheInv, TypeOK
<1>3. \A q \in Readers : AnswerComes(reader'[q])
  BY <1>1 DEF CacheInv
<1>4. ConsumerInOrder'
  BY DEF CacheInv, ConsumerInOrder, Target
<1>5. OnlyStoredStatuses'
  BY <1>1 DEF CacheInv, OnlyStoredStatuses
<1>6. QED BY <1>2, <1>3, <1>4, <1>5 DEF CacheInv, AnswerComes

-----------------------------------------------------------------------------
(* GET handlers.                                                           *)

LEMMA AfterAskingKeeps ==
    ASSUME NEW h \in Reader, h.pc = "asking",
           DOMAIN h.got \cup h.left \cup h.miss = h.ids
    PROVE  /\ AfterAsking(h) \in Reader /\ AnswerComes(AfterAsking(h))
           /\ AfterAsking(h).got = h.got
<1>1. CASE h.left # {}
  BY <1>1 DEF AfterAsking, AnswerComes
<1>2. CASE h.left = {}
  <2> DEFINE pc == IF h.miss = {} THEN "done" ELSE "reading"
             k  == [h EXCEPT !.pc = pc]
  <2>1. AfterAsking(h) = k
    BY <1>2 DEF AfterAsking
  <2>2. /\ k \in Reader /\ k.pc = pc /\ k.got = h.got /\ k.left = h.left
        /\ k.miss = h.miss /\ k.ids = h.ids
    BY DEF Reader
  <2>3. AnswerComes(k)
    BY <1>2, <2>2 DEF AnswerComes
  <2>4. QED BY <2>1, <2>2, <2>3
<1>3. QED BY <1>1, <1>2

LEMMA WithRowKeeps ==
    ASSUME NEW f \in Rows, NEW i \in Ids, NEW x \in Row
    PROVE  /\ WithRow(f, i, x) \in Rows
           /\ DOMAIN WithRow(f, i, x) = DOMAIN f \cup {i}
           /\ \A k \in DOMAIN f \cup {i} :
                 WithRow(f, i, x)[k] = IF k = i THEN x ELSE f[k]
<1> DEFINE g == WithRow(f, i, x)
<1>1. DOMAIN f \subseteq Ids /\ f \in [DOMAIN f -> Row]
  BY RowsDef
<1>2. /\ DOMAIN g = DOMAIN f \cup {i}
      /\ \A k \in DOMAIN f \cup {i} : g[k] = IF k = i THEN x ELSE f[k]
      /\ g \in [DOMAIN f \cup {i} -> Row]
  BY <1>1 DEF WithRow
<1>3. g \in Rows
  BY <1>1, <1>2, RowsDef
<1>4. QED BY <1>2, <1>3

LEMMA StartGetKeeps ==
    ASSUME CacheInv, NEW r \in Readers, StartGet(r) PROVE CacheInv'
<1>1. PICK ids \in SUBSET Ids :
         reader' = [reader EXCEPT ![r] =
              IF CacheEnabled
              THEN [IdleReader EXCEPT !.pc = "asking", !.ids = ids, !.left = ids]
              ELSE [IdleReader EXCEPT !.pc = "reading", !.ids = ids, !.miss = ids]]
  BY DEF StartGet
<1> DEFINE a == [IdleReader EXCEPT !.pc = "asking", !.ids = ids, !.left = ids]
           b == [IdleReader EXCEPT !.pc = "reading", !.ids = ids, !.miss = ids]
           h == IF CacheEnabled THEN a ELSE b
<1>2. a \in Reader /\ a.pc = "asking" /\ a.ids = ids /\ a.left = ids
      /\ a.got = IdleReader.got /\ a.miss = {}
  BY IdleTypes DEF IdleReader, Reader
<1>3. b \in Reader /\ b.pc = "reading" /\ b.ids = ids /\ b.miss = ids
      /\ b.got = IdleReader.got
  BY IdleTypes DEF IdleReader, Reader
<1>4. h \in Reader /\ AnswerComes(h) /\ DOMAIN h.got = {}
  BY <1>2, <1>3, IdleTypes DEF AnswerComes
<1> HIDE DEF a, b
<1>5. /\ UNCHANGED <<db, cache, consumer, committed, reschedules>>
      /\ reader' = [reader EXCEPT ![r] = h]
  BY <1>1 DEF StartGet, a, b
<1> HIDE DEF h
<1>6. cache' \in [Ids -> Entry] /\ \A i \in Ids : cache'[i].row.status <= db[i].status
  BY <1>5 DEF CacheInv, TypeOK, OnlyStoredStatuses
<1>7. QED BY <1>4, <1>5, <1>6, OneReader

LEMMA CacheHitKeeps ==
    ASSUME CacheInv, NEW r \in Readers, NEW i \in Ids, CacheHit(r, i) PROVE CacheInv'
<1> DEFINE g == WithRow(reader[r].got, i, cache[i].row)
           k == [reader[r] EXCEPT !.left = @ \ {i}, !.got = g]
           h == AfterAsking(k)
<1>1. /\ reader[r] \in Reader /\ reader[r].got \in Rows
      /\ cache[i].row \in Row /\ cache[i].row.status <= db[i].status
  BY ReaderRows DEF CacheInv, TypeOK, Reader, Entry, OnlyStoredStatuses
<1>2. /\ g \in Rows /\ DOMAIN g = DOMAIN reader[r].got \cup {i}
      /\ \A j \in DOMAIN g : g[j] = IF j = i THEN cache[i].row ELSE reader[r].got[j]
  <2>1. PICK f \in Rows, x \in Row : f = reader[r].got /\ x = cache[i].row
    BY <1>1
  <2> DEFINE y == WithRow(f, i, x)
  <2>2. /\ y \in Rows /\ DOMAIN y = DOMAIN f \cup {i}
        /\ \A j \in DOMAIN f \cup {i} : y[j] = IF j = i THEN x ELSE f[j]
    <3> HIDE DEF g, k, h
    <3>1. QED BY WithRowKeeps
  <2>3. g = y
    BY <2>1
  <2> HIDE DEF g, y
  <2>4. QED BY <2>1, <2>2, <2>3
<1>3. \A j \in DOMAIN g : g[j].status <= db[j].status
  BY <1>1, <1>2, ReaderRows
<1> HIDE DEF g
<1>4. /\ k \in Reader /\ k.pc = reader[r].pc /\ k.left = reader[r].left \ {i}
      /\ k.got = g /\ k.miss = reader[r].miss /\ k.ids = reader[r].ids
  BY <1>1, <1>2 DEF Reader
<1>5. reader[r].pc = "asking" /\ i \in reader[r].left
  BY DEF CacheHit
<1>6. DOMAIN reader[r].got \cup reader[r].left \cup reader[r].miss = reader[r].ids
  BY <1>5 DEF CacheInv, AnswerComes
<1>7. DOMAIN k.got \cup k.left \cup k.miss = k.ids
  BY <1>2, <1>4, <1>5, <1>6
<1>8. /\ UNCHANGED <<db, cache, consumer, committed, reschedules>>
      /\ reader' = [reader EXCEPT ![r] = h]
  BY DEF CacheHit, g
<1> HIDE DEF k
<1>9. h \in Reader /\ AnswerComes(h) /\ h.got = g
  BY <1>4, <1>5, <1>7, AfterAskingKeeps
<1> HIDE DEF h
<1>10. cache' \in [Ids -> Entry] /\ \A j \in Ids : cache'[j].row.status <= db[j].status
  BY <1>8 DEF CacheInv, TypeOK, OnlyStoredStatuses
<1>11. QED BY <1>3, <1>8, <1>9, <1>10, OneReader

LEMMA CacheMissKeeps ==
    ASSUME CacheInv, NEW r \in Readers, NEW i \in Ids, CacheMiss(r, i) PROVE CacheInv'
<1> DEFINE k == [reader[r] EXCEPT !.left = @ \ {i}, !.miss = @ \cup {i}]
           h == AfterAsking(k)
<1>1. reader[r] \in Reader
  BY ReaderRows
<1>2. /\ k \in Reader /\ k.pc = reader[r].pc /\ k.left = reader[r].left \ {i}
      /\ k.got = reader[r].got /\ k.miss = reader[r].miss \cup {i}
      /\ k.ids = reader[r].ids
  BY <1>1 DEF Reader
<1>3. reader[r].pc = "asking" /\ i \in reader[r].left
  BY DEF CacheMiss
<1>4. DOMAIN reader[r].got \cup reader[r].left \cup reader[r].miss = reader[r].ids
  BY <1>3 DEF CacheInv, AnswerComes
<1>5. DOMAIN k.got \cup k.left \cup k.miss = k.ids
  BY <1>2, <1>3, <1>4
<1>6. /\ UNCHANGED <<db, cache, consumer, committed, reschedules>>
      /\ reader' = [reader EXCEPT ![r] = h]
  BY DEF CacheMiss
<1> HIDE DEF k
<1>7. h \in Reader /\ AnswerComes(h) /\ h.got = reader[r].got
  BY <1>2, <1>3, <1>5, AfterAskingKeeps
<1> HIDE DEF h
<1>8. cache' \in [Ids -> Entry] /\ \A j \in Ids : cache'[j].row.status <= db[j].status
  BY <1>6 DEF CacheInv, TypeOK, OnlyStoredStatuses
<1>9. \A j \in DOMAIN h.got : h.got[j].status <= db[j].status
  BY <1>7, ReaderRows
<1>10. QED BY <1>6, <1>7, <1>8, <1>9, OneReader

LEMMA ReadMissesKeeps ==
    ASSUME CacheInv, NEW r \in Readers, ReadMisses(r) PROVE CacheInv'
<1> DEFINE m  == reader[r].miss
           g  == [k \in DOMAIN reader[r].got \cup m |->
                     IF k \in m THEN db[k] ELSE reader[r].got[k]]
           pc == IF CacheEnabled THEN "filling" ELSE "done"
           h  == [reader[r] EXCEPT !.pc = pc, !.left = m, !.got = g]
<1>1. /\ reader[r] \in Reader /\ DOMAIN reader[r].got \subseteq Ids /\ m \subseteq Ids
      /\ reader[r].got \in [DOMAIN reader[r].got -> Row]
  BY ReaderRows, RowsDef DEF Reader
<1>2. db \in [Ids -> Row] /\ \A i \in Ids : db[i].status \in Nat
  BY RowFields DEF CacheInv, TypeOK
<1>3. g \in Rows /\ DOMAIN g = DOMAIN reader[r].got \cup m
  <2>1. g \in [DOMAIN reader[r].got \cup m -> Row]
    BY <1>1, <1>2
  <2>2. QED BY <1>1, <2>1, RowsDef
<1>4. \A i \in DOMAIN g : g[i].status <= db[i].status
  BY <1>1, <1>2, ReaderRows
<1>5. reader[r].pc = "reading"
  BY DEF ReadMisses
<1>6. DOMAIN reader[r].got \cup m = reader[r].ids
  BY <1>5 DEF CacheInv, AnswerComes
<1>7. /\ UNCHANGED <<db, cache, consumer, committed, reschedules>>
      /\ reader' = [reader EXCEPT ![r] = h]
  BY DEF ReadMisses
<1> HIDE DEF g
<1>8. /\ h \in Reader /\ h.pc = pc /\ h.left = m /\ h.got = g
      /\ h.ids = reader[r].ids
  BY <1>1, <1>3 DEF Reader
<1> HIDE DEF h
<1>9. AnswerComes(h)
  BY <1>3, <1>6, <1>8 DEF AnswerComes
<1>10. cache' \in [Ids -> Entry] /\ \A j \in Ids : cache'[j].row.status <= db[j].status
  BY <1>7 DEF CacheInv, TypeOK, OnlyStoredStatuses
<1>11. QED BY <1>4, <1>7, <1>8, <1>9, <1>10, OneReader

LEMMA EndOfGetKeeps ==
    ASSUME CacheInv, NEW r \in Readers, ReadFails(r) \/ Respond(r) PROVE CacheInv'
<1>1. /\ UNCHANGED <<db, cache, consumer, committed, reschedules>>
      /\ reader' = [reader EXCEPT ![r] = IdleReader]
  BY DEF ReadFails, Respond
<1>2. cache' \in [Ids -> Entry] /\ \A j \in Ids : cache'[j].row.status <= db[j].status
  BY <1>1 DEF CacheInv, TypeOK, OnlyStoredStatuses
<1>3. QED BY <1>1, <1>2, IdleTypes, OneReader

LEMMA FillCacheKeeps ==
    ASSUME CacheInv, NEW r \in Readers, NEW i \in Ids, FillCache(r, i) PROVE CacheInv'
<1> DEFINE pc == IF reader[r].left = {i} THEN "done" ELSE reader[r].pc
           h  == [reader[r] EXCEPT !.left = @ \ {i}, !.pc = pc]
<1>1. /\ reader[r] \in Reader /\ reader \in [Readers -> Reader]
      /\ reader[r].pc = "filling" /\ i \in reader[r].left
      /\ DOMAIN reader[r].got = reader[r].ids /\ reader[r].left \subseteq reader[r].ids
  BY DEF CacheInv, TypeOK, FillCache, AnswerComes
<1>2. /\ h \in Reader /\ h.pc = pc /\ h.left = reader[r].left \ {i}
      /\ h.got = reader[r].got /\ h.ids = reader[r].ids
  BY <1>1 DEF Reader
<1>3. AnswerComes(h)
  BY <1>1, <1>2 DEF AnswerComes
<1>4. reader' = [reader EXCEPT ![r] = h]
  BY <1>1 DEF FillCache
<1>5. UNCHANGED <<db, consumer, committed, reschedules>>
  BY DEF FillCache
<1>6. reader[r].got[i] \in Row /\ reader[r].got[i].status <= db[i].status
  BY <1>1, ReaderRows
<1>7. SetOrFail(i, reader[r].got[i])
  BY DEF FillCache
<1>8. cache' \in [Ids -> Entry] /\ \A j \in Ids : cache'[j].row.status <= db[j].status
  BY <1>6, <1>7, SetEntry
<1> HIDE DEF h
<1>9. \A j \in DOMAIN h.got : h.got[j].status <= db[j].status
  BY <1>2, ReaderRows
<1>10. QED BY <1>2, <1>3, <1>4, <1>5, <1>8, <1>9, OneReader

-----------------------------------------------------------------------------
(* Postgres and Redis.                                                     *)

LEMMA TickKeeps == ASSUME CacheInv, Tick PROVE CacheInv'
<1>1. /\ UNCHANGED <<db, reader, consumer, committed, reschedules>>
      /\ cache' = [i \in Ids |-> Aged(cache[i])]
  BY DEF Tick
<1>2. ASSUME NEW i \in Ids
      PROVE  Aged(cache[i]) \in Entry /\ Aged(cache[i]).row.status <= db[i].status
  <2>1. cache[i] \in Entry /\ cache[i].row.status <= db[i].status
    BY DEF CacheInv, TypeOK, OnlyStoredStatuses
  <2>2. db[i].status \in Nat
    BY RowFields DEF CacheInv, TypeOK
  <2>3. QED BY <2>1, <2>2, AgedEntry
<1>3. cache' \in [Ids -> Entry] /\ \A i \in Ids : cache'[i].row.status <= db[i].status
  BY <1>1, <1>2
<1>4. TypeOK' /\ OnlyStoredStatuses'
  BY <1>1, <1>3 DEF CacheInv, TypeOK, OnlyStoredStatuses
<1>5. ConsumerInOrder'
  BY <1>1 DEF CacheInv, ConsumerInOrder, Target
<1>6. QED BY <1>1, <1>4, <1>5 DEF CacheInv, AnswerComes

(* A step that replaces a row of Postgres by one that is not older, and    *)
(* leaves the handlers of GET and the cache alone.                         *)
LEMMA RowReplaced ==
    ASSUME CacheInv, NEW i \in Ids, NEW x \in Row, db[i].status <= x.status,
           db' = [db EXCEPT ![i] = x], UNCHANGED <<cache, reader>>
    PROVE  /\ db' \in [Ids -> Row]
           /\ \A k \in Ids : db'[k] = IF k = i THEN x ELSE db[k]
           /\ OnlyStoredStatuses'
<1>1. /\ db \in [Ids -> Row] /\ db' \in [Ids -> Row]
      /\ \A k \in Ids : db'[k] = IF k = i THEN x ELSE db[k]
  BY DEF CacheInv, TypeOK
<1>2. ASSUME NEW k \in Ids, NEW y \in Row, y.status <= db[k].status
      PROVE  y.status <= db'[k].status
  BY <1>1, <1>2, RowFields
<1>3. \A k \in Ids : cache[k].row \in Row /\ cache[k].row.status <= db[k].status
  BY DEF CacheInv, TypeOK, Entry, OnlyStoredStatuses
<1>4. \A k \in Ids : cache'[k].row.status <= db'[k].status
  BY <1>2, <1>3
<1>5. ASSUME NEW r \in Readers, NEW k \in DOMAIN reader[r].got
      PROVE  reader[r].got[k].status <= db'[k].status
  BY <1>2, ReaderRows
<1>6. QED BY <1>1, <1>4, <1>5 DEF OnlyStoredStatuses

LEMMA RescheduleKeeps ==
    ASSUME CacheInv, NEW i \in Ids, Reschedule(i) PROVE CacheInv'
<1> DEFINE x == [db[i] EXCEPT !.schedule = reschedules']
<1>1. /\ reschedules' = reschedules + 1 /\ reschedules < MaxReschedules
      /\ db' = [db EXCEPT ![i] = x]
      /\ UNCHANGED <<cache, reader, consumer, committed>>
  BY DEF Reschedule
<1>2. reschedules' \in 0..MaxReschedules
  BY <1>1, CacheAssumption DEF CacheInv, TypeOK
<1>3. db[i] \in Row
  BY DEF CacheInv, TypeOK
<1>4. x \in Row /\ x.status = db[i].status /\ db[i].status <= x.status
  BY <1>2, <1>3, RowFields
<1> HIDE DEF x
<1>5. /\ db' \in [Ids -> Row] /\ OnlyStoredStatuses'
      /\ \A k \in Ids : db'[k] = IF k = i THEN x ELSE db[k]
  BY <1>1, <1>4, RowReplaced
<1>6. \A k \in Ids : db'[k].status = db[k].status
  BY <1>4, <1>5
<1>7. TypeOK'
  BY <1>1, <1>2, <1>5 DEF CacheInv, TypeOK
<1>8. ConsumerInOrder'
  <2>1. consumer.pc = "caching" => Target \in Ids
    BY TargetType DEF CacheInv, TypeOK, ConsumerInOrder
  <2>2. QED BY <1>1, <1>6, <2>1 DEF CacheInv, ConsumerInOrder, Target
<1>9. QED BY <1>1, <1>5, <1>7, <1>8 DEF CacheInv, AnswerComes

-----------------------------------------------------------------------------
(* The consumer.                                                           *)

LEMMA ApplyUpdateKeeps == ASSUME CacheInv, ApplyUpdate PROVE CacheInv'
<1> DEFINE x == [status |-> committed + 1, schedule |-> 0]
<1>1. /\ committed < Len(Updates) /\ committed \in Nat
      /\ db' = [db EXCEPT ![Target] = x]
      /\ UNCHANGED <<cache, reader, committed, reschedules>>
      /\ \E pc \in {"reloading", "committing", "stopped"} :
            consumer' = [consumer EXCEPT !.pc = pc]
  <2>1. Len(Updates) \in Nat
    BY CacheAssumption
  <2>2. committed \in Nat
    BY <2>1 DEF CacheInv, TypeOK
  <2>3. QED BY <2>2 DEF ApplyUpdate
<1>2. Target \in Ids
  BY <1>1, TargetType DEF CacheInv, TypeOK
<1>3. x \in Row /\ x.status = committed + 1
  BY <1>1, CacheAssumption DEF Row
<1>4. \A k \in Ids : db[k].status <= committed + 1
  BY DEF CacheInv, ConsumerInOrder
<1> HIDE DEF x
<1>5. /\ db' \in [Ids -> Row] /\ OnlyStoredStatuses'
      /\ \A k \in Ids : db'[k] = IF k = Target THEN x ELSE db[k]
  BY <1>1, <1>2, <1>3, <1>4, RowReplaced
<1>6. consumer' \in Consumer /\ consumer'.pc \in {"reloading", "committing", "stopped"}
  BY <1>1 DEF CacheInv, TypeOK, Consumer
<1>7. TypeOK'
  BY <1>1, <1>5, <1>6 DEF CacheInv, TypeOK
<1>8. \A k \in Ids : db'[k].status <= committed + 1
  BY <1>1, <1>3, <1>4, <1>5
<1>9. ConsumerInOrder'
  BY <1>1, <1>6, <1>8 DEF ConsumerInOrder
<1>10. QED BY <1>1, <1>5, <1>7, <1>9 DEF CacheInv, AnswerComes

(* A step of the consumer that changes neither Postgres nor the handlers.  *)
LEMMA ConsumerMoves ==
    ASSUME CacheInv, UNCHANGED <<db, reader, reschedules>>,
           cache' \in [Ids -> Entry],
           \A k \in Ids : cache'[k].row.status <= db[k].status,
           consumer' \in Consumer, committed' \in 0..Len(Updates),
           committed' \in {committed, committed + 1},
           consumer'.pc \in {"reloading", "caching", "committing"} =>
               committed' = committed /\ committed < Len(Updates),
           consumer'.pc = "caching" => consumer'.row.status = db[Target].status
    PROVE  CacheInv'
<1>1. TypeOK' /\ OnlyStoredStatuses'
  BY DEF CacheInv, TypeOK, OnlyStoredStatuses
<1>2. committed \in Nat /\ \A k \in Ids : db[k].status \in Nat
  BY RowFields, CacheAssumption DEF CacheInv, TypeOK
<1>3. \A k \in Ids : db'[k].status <= committed' + 1
  BY <1>2 DEF CacheInv, ConsumerInOrder
<1>4. ConsumerInOrder'
  BY <1>3 DEF ConsumerInOrder, Target
<1>5. QED BY <1>1, <1>4 DEF CacheInv, AnswerComes

LEMMA ConsumerKeeps == ASSUME CacheInv, ConsumerStep PROVE CacheInv'
<1>1. /\ consumer \in Consumer /\ committed \in 0..Len(Updates)
      /\ committed \in Nat /\ Len(Updates) \in Nat
      /\ cache \in [Ids -> Entry]
      /\ \A k \in Ids : cache[k].row.status <= db[k].status
  BY CacheAssumption DEF CacheInv, TypeOK, OnlyStoredStatuses
<1>2. consumer.pc \in {"reloading", "caching", "committing"} => committed < Len(Updates)
  BY DEF CacheInv, ConsumerInOrder
<1>3. ASSUME NEW pc \in {"committing", "stopped"}
      PROVE  [consumer EXCEPT !.pc = pc] \in Consumer
             /\ [consumer EXCEPT !.pc = pc].pc = pc
  BY <1>1 DEF Consumer
<1>4. CASE ApplyUpdate
  BY <1>4, ApplyUpdateKeeps
<1>5. CASE ApplyFails \/ ReloadFails
  <2>1. PICK pc \in {"committing", "stopped"} :
           /\ consumer' = [consumer EXCEPT !.pc = pc]
           /\ pc = "committing" => consumer.pc = "reloading"
           /\ UNCHANGED <<db, cache, reader, committed, reschedules>>
    BY <1>5 DEF ApplyFails, ReloadFails
  <2>2. consumer' \in Consumer /\ consumer'.pc = pc
    BY <1>3, <2>1
  <2>3. QED BY <1>1, <1>2, <2>1, <2>2, ConsumerMoves
<1>6. CASE Reload
  <2>1. /\ consumer.pc = "reloading" /\ consumer' = [pc |-> "caching", row |-> db[Target]]
        /\ UNCHANGED <<db, cache, reader, committed, reschedules>>
    BY <1>6 DEF Reload
  <2>2. db[Target] \in Row
    BY <1>1, <1>2, <2>1, TargetType DEF CacheInv, TypeOK
  <2>3. consumer' \in Consumer /\ consumer'.pc = "caching" /\ consumer'.row = db[Target]
    BY <2>1, <2>2 DEF Consumer
  <2>4. QED BY <1>1, <1>2, <2>1, <2>3, ConsumerMoves
<1>7. CASE UpdateCache
  <2>1. /\ consumer.pc = "caching" /\ SetOrFail(Target, consumer.row)
        /\ consumer' = [IdleConsumer EXCEPT !.pc = "committing"]
        /\ UNCHANGED <<db, reader, committed, reschedules>>
    BY <1>7 DEF UpdateCache
  <2>2. Target \in Ids
    BY <1>1, <1>2, <2>1, TargetType
  <2>3. consumer.row \in Row /\ consumer.row.status = db[Target].status
    BY <1>1, <2>1 DEF CacheInv, ConsumerInOrder, Consumer
  <2>4. consumer.row.status <= db[Target].status
    BY <2>3, RowFields
  <2>5. /\ cache' \in [Ids -> Entry]
        /\ \A k \in Ids : cache'[k].row.status <= db[k].status
    BY <2>1, <2>2, <2>3, <2>4, SetEntry
  <2>6. consumer' \in Consumer /\ consumer'.pc = "committing"
    BY <2>1, IdleTypes DEF Consumer
  <2>7. QED BY <1>1, <1>2, <2>1, <2>5, <2>6, ConsumerMoves
<1>8. CASE Commit
  <2>1. /\ consumer.pc = "committing" /\ committed' = committed + 1
        /\ consumer' = IdleConsumer /\ UNCHANGED <<db, cache, reader, reschedules>>
    BY <1>8 DEF Commit
  <2>2. committed' \in 0..Len(Updates)
    BY <1>1, <1>2, <2>1
  <2>3. QED BY <1>1, <2>1, <2>2, IdleTypes, ConsumerMoves
<1>9. CASE CommitFails
  <2>1. /\ consumer.pc = "committing" /\ committed' \in {committed, committed + 1}
        /\ consumer' = [consumer EXCEPT !.pc = "stopped"]
        /\ UNCHANGED <<db, cache, reader, reschedules>>
    BY <1>9 DEF CommitFails
  <2>2. committed' \in 0..Len(Updates)
    BY <1>1, <1>2, <2>1
  <2>3. consumer' \in Consumer /\ consumer'.pc = "stopped"
    BY <1>3, <2>1
  <2>4. QED BY <1>1, <2>1, <2>2, <2>3, ConsumerMoves
<1>10. QED BY <1>4, <1>5, <1>6, <1>7, <1>8, <1>9 DEF ConsumerStep

LEMMA RestartKeeps == ASSUME CacheInv, ApiRestarts PROVE CacheInv'
<1>1. /\ consumer' = IdleConsumer /\ reader' = [r \in Readers |-> IdleReader]
      /\ UNCHANGED <<db, cache, committed, reschedules>>
  BY DEF ApiRestarts
<1>2. TypeOK'
  BY <1>1, IdleTypes DEF CacheInv, TypeOK
<1>3. \A r \in Readers : AnswerComes(reader'[r])
  BY <1>1, IdleTypes
<1>4. ConsumerInOrder'
  BY <1>1, IdleTypes DEF CacheInv, ConsumerInOrder
<1>5. OnlyStoredStatuses'
  BY <1>1, IdleTypes DEF CacheInv, OnlyStoredStatuses
<1>6. QED BY <1>2, <1>3, <1>4, <1>5 DEF CacheInv, AnswerComes

-----------------------------------------------------------------------------
(* The specification.                                                      *)

LEMMA NextCache == ASSUME CacheInv, [Next]_vars PROVE CacheInv'
<1>1. CASE Tick
  BY <1>1, TickKeeps
<1>2. CASE \E i \in Ids : Reschedule(i)
  BY <1>2, RescheduleKeeps
<1>3. CASE \E r \in Readers : StartGet(r) \/ ReaderStep(r)
  BY <1>3, StartGetKeeps, CacheHitKeeps, CacheMissKeeps, FillCacheKeeps,
     ReadMissesKeeps, EndOfGetKeeps DEF ReaderStep
<1>4. CASE ConsumerStep
  BY <1>4, ConsumerKeeps
<1>5. CASE ApiRestarts
  BY <1>5, RestartKeeps
<1>6. CASE UNCHANGED vars
  BY <1>6 DEF vars, CacheInv, TypeOK, AnswerComes, ConsumerInOrder,
              OnlyStoredStatuses, Target
<1>7. QED BY <1>1, <1>2, <1>3, <1>4, <1>5, <1>6 DEF Next

(* The strengthened invariant holds of every reachable state.              *)
THEOREM CacheInvCorrect == Spec => []CacheInv
<1>1. QED BY InitCache, NextCache, PTL DEF Spec

(* The variables keep their types.                                         *)
THEOREM CacheTypeCorrect == Spec => []TypeOK
<1>1. CacheInv => TypeOK
  BY DEF CacheInv
<1>2. QED BY <1>1, CacheInvCorrect, PTL

(* GetTrackingsByIDs has a row for each id it was asked for, whatever the  *)
(* calls to Redis returned and whatever changed meanwhile.                 *)
THEOREM AnswersAreComplete == Spec => []EveryIdAnswered
<1>1. CacheInv => EveryIdAnswered
  BY DEF CacheInv, AnswerComes, EveryIdAnswered
<1>2. QED BY <1>1, CacheInvCorrect, PTL

(* Neither the cache nor an answer is ahead of Postgres: the cache is      *)
(* written from rows that were read after their transaction.               *)
THEOREM NothingUncommittedShows == Spec => []OnlyStoredStatuses
<1>1. CacheInv => OnlyStoredStatuses
  BY DEF CacheInv
<1>2. QED BY <1>1, CacheInvCorrect, PTL

(* ApplyKafkaUpdate puts the status into the cache that Postgres has at    *)
(* that moment, although it read the row earlier.                          *)
THEOREM ConsumerIsCurrent == Spec => ConsumerCachesNewest
<1> DEFINE Kept == \A i \in Ids : cache'[i] = cache[i]
                                  \/ cache'[i].row.status = db[i].status
<1>1. ASSUME CacheInv, UpdateCache PROVE Kept
  <2>1. /\ consumer.pc = "caching" /\ SetOrFail(Target, consumer.row)
    BY <1>1 DEF UpdateCache
  <2>2. /\ consumer \in Consumer /\ committed < Len(Updates)
        /\ committed \in 0..Len(Updates)
        /\ consumer.row.status = db[Target].status
    BY <1>1, <2>1 DEF CacheInv, TypeOK, ConsumerInOrder
  <2>3. Target \in Ids /\ consumer.row \in Row
    BY <2>2, TargetType DEF Consumer
  <2>4. consumer.row.status <= db[Target].status
    BY <2>2, <2>3, RowFields
  <2>5. \A k \in Ids : \/ cache'[k] = cache[k]
                       \/ k = Target /\ cache'[k].row = consumer.row
    BY <1>1, <2>1, <2>3, <2>4, SetEntry
  <2>6. QED BY <2>2, <2>5
<1>2. CacheInv => [UpdateCache => Kept]_vars
  BY <1>1
<1> HIDE DEF Kept
<1>3. Spec => [][UpdateCache => Kept]_vars
  BY <1>2, CacheInvCorrect, PTL DEF Spec
<1>4. QED BY <1>3 DEF ConsumerCachesNewest, Kept

=============================================================================
