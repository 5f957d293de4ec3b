-------------------------- MODULE ResearchCacheProofs --------------------------
(***************************************************************************)
(* The research cache, for any number of steps, datasets and lifetimes.    *)
(***************************************************************************)
EXTENDS ResearchCache, TLAPS

\* A payload is read after its fetched_at, in the table and in open transactions,
\* and in the hands of a step that is about to write it.
AgeInv ==
    /\ \A d \in Datasets : row[d] # NoRow => row[d].fetchedAt <= row[d].read
    /\ \A t \in Steps, d \in Datasets :
          mine[t][d] # NoRow => mine[t][d].fetchedAt <= mine[t][d].read
    /\ \A t \in Steps : now[t] <= clock
    /\ \A t \in Steps : pc[t] \in {"upsert", "insert", "update"} => now[t] <= answer[t]

\* Rows are never deleted, and a step inserts only what had no row when it began.
KnownInv ==
    \A t \in Steps :
        /\ \A d \in known[t] : row[d] # NoRow
        /\ pc[t] \in {"insert", "conflict"} => at[t] \notin known[t]

\* A step has written only datasets it has passed.
OrderInv ==
    \A t \in Steps, d \in Datasets :
        mine[t][d] # NoRow => d < at[t] \/ pc[t] = "agents"

IInv == TypeOK /\ AgeInv /\ KnownInv /\ OrderInv /\ HitsAreFresh

-----------------------------------------------------------------------------
(***************************************************************************)
(* Types                                                                   *)
(***************************************************************************)

LEMMA NoRowIsNoRow == NoRow \notin Row
  <1> SUFFICES ASSUME NoRow \in Row PROVE FALSE
    OBVIOUS
  <1>1. NoRow.fetchedAt \in Time /\ NoRow.fetchedAt = -1
    BY DEF Row, NoRow
  <1> QED
    BY <1>1, CacheAssumption DEF Time

LEMMA RowTypes ==
    ASSUME TypeOK, NEW d \in Datasets, row[d] # NoRow
    PROVE  row[d] \in Row /\ row[d].fetchedAt \in Time /\ row[d].read \in Time
  <1>1. row[d] \in Row
    BY DEF TypeOK
  <1> QED
    BY <1>1 DEF Row

LEMMA NewRowTypes ==
    ASSUME TypeOK, NEW t \in Steps
    PROVE  /\ NewRow(t) \in Row
           /\ NewRow(t).fetchedAt = now[t] /\ NewRow(t).read = answer[t]
  BY DEF TypeOK, NewRow, Row

\* load's return to its caller.
LEMMA GotoTypes ==
    ASSUME TypeOK, NEW t \in Steps, NEW d, Goto(t, d)
    PROVE  /\ pc' \in [Steps -> Place]
           /\ at' \in [Steps -> Datasets]
           /\ now' \in [Steps -> Time]
           /\ answer' \in [Steps -> Time]
  <1>1. 0 \in Time
    BY CacheAssumption DEF Time
  <1>2. pc' \in [Steps -> Place]
    BY DEF Goto, TypeOK, Place
  <1>3. at' \in [Steps -> Datasets]
    BY DEF Goto, TypeOK
  <1> QED
    BY <1>1, <1>2, <1>3 DEF Goto, TypeOK

LEMMA EndTypes ==
    ASSUME TypeOK, NEW t \in Steps, EndTransaction(t), row' \in [Datasets -> Row \cup {NoRow}]
    PROVE  TypeOK'
  <1>1. 0 \in Time /\ 1 \in Datasets
    BY CacheAssumption DEF Time, Datasets
  <1>2. mine' \in [Steps -> [Datasets -> Row \cup {NoRow}]]
    BY DEF EndTransaction, TypeOK
  <1>3. /\ pc' \in [Steps -> Place] /\ at' \in [Steps -> Datasets]
        /\ now' \in [Steps -> Time] /\ answer' \in [Steps -> Time]
    BY <1>1 DEF EndTransaction, TypeOK, Place
  <1>4. /\ hit' \in [Steps -> HitRecord \cup {NoHit}] /\ known' \in [Steps -> SUBSET Datasets]
        /\ clock' = clock
    BY DEF EndTransaction, TypeOK
  <1> QED
    BY <1>2, <1>3, <1>4 DEF TypeOK

LEMMA HitTypes ==
    ASSUME TypeOK, NEW t \in Steps, Hit(t)
    PROVE  hit' \in [Steps -> HitRecord \cup {NoHit}]
  <1> DEFINE h == [dataset |-> Current(t), read |-> row[Current(t)].read, at |-> clock]
  <1>1. Current(t) \in Datasets /\ clock \in Time
    BY DEF TypeOK, Current
  <1>2. row[Current(t)].read \in Time
    BY <1>1, RowTypes DEF Hit, Fresh
  <1>3. h \in HitRecord
    BY <1>1, <1>2 DEF HitRecord
  <1>4. hit' = [hit EXCEPT ![t] = h]
    BY DEF Hit
  <1> HIDE DEF h
  <1> QED
    BY <1>3, <1>4 DEF TypeOK

LEMMA StepTypes ==
    ASSUME TypeOK, NEW t \in Steps, Begin(t) \/ Act(t) \/ Flush(t) \/ Rollback(t)
    PROVE  TypeOK'
  <1>1. CASE Begin(t)
    <2>1. known' \in [Steps -> SUBSET Datasets]
      BY <1>1 DEF Begin, TypeOK
    <2> QED
      BY <1>1, <2>1 DEF Begin, TypeOK, Place
  <1>2. CASE Hit(t)
    BY <1>2, HitTypes, GotoTypes DEF Hit, TypeOK
  <1>3. CASE Miss(t) \/ Fetch(t)
    BY <1>3 DEF Miss, Fetch, TypeOK, Place
  <1>4. CASE FetchFails(t)
    <2>1. PICK d : Goto(t, d)
      BY <1>4 DEF FetchFails
    <2>2. hit' \in [Steps -> HitRecord \cup {NoHit}]
      BY <1>4 DEF FetchFails, TypeOK
    <2> QED
      BY <1>4, <2>1, <2>2, GotoTypes DEF FetchFails, TypeOK
  <1>5. CASE Upsert(t)
    <2>1. pc' \in [Steps -> Place]
      BY <1>5 DEF Upsert, UpsertStatement, TypeOK, Place
    <2> QED
      BY <1>5, <2>1 DEF Upsert, TypeOK
  <1>6. CASE Write(t)
    <2> DEFINE w == NewRow(t)
    <2>1. w \in Row /\ Current(t) \in Datasets
      BY NewRowTypes DEF TypeOK, Current
    <2>2. mine' = [mine EXCEPT ![t][Current(t)] = w] /\ Goto(t, at[t] + 1)
          /\ hit' = [hit EXCEPT ![t] = NoHit] /\ UNCHANGED <<clock, row, known>>
      BY <1>6 DEF Write
    <2> HIDE DEF w
    <2>3. mine' \in [Steps -> [Datasets -> Row \cup {NoRow}]]
      BY <2>1, <2>2 DEF TypeOK
    <2>4. hit' \in [Steps -> HitRecord \cup {NoHit}]
      BY <2>2 DEF TypeOK
    <2> QED
      BY <2>2, <2>3, <2>4, GotoTypes DEF TypeOK
  <1>7. CASE Conflict(t)
    BY <1>7 DEF Conflict, TypeOK, Place
  <1>8. CASE Commit(t)
    <2>1. row' \in [Datasets -> Row \cup {NoRow}]
      BY <1>8 DEF Commit, TypeOK
    <2> QED
      BY <1>8, <2>1, EndTypes DEF Commit
  <1>9. CASE Rollback(t)
    BY <1>9, EndTypes DEF Rollback, TypeOK
  <1> QED
    BY <1>1, <1>2, <1>3, <1>4, <1>5, <1>6, <1>7, <1>8, <1>9 DEF Act, Flush

LEMMA InitTypes == Init => TypeOK
  BY CacheAssumption DEF Init, TypeOK, Time, Datasets, Place

LEMMA NextTypes == TypeOK /\ [Next]_vars => TypeOK'
  <1> SUFFICES ASSUME TypeOK, [Next]_vars PROVE TypeOK'
    OBVIOUS
  <1>1. CASE Tick
    <2>1. clock' \in Time
      BY <1>1, CacheAssumption DEF Tick, TypeOK, Time
    <2> QED
      BY <1>1, <2>1 DEF Tick, TypeOK
  <1>2. CASE UNCHANGED vars
    BY <1>2 DEF TypeOK, vars
  <1> QED
    BY <1>1, <1>2, StepTypes DEF Next

-----------------------------------------------------------------------------
(***************************************************************************)
(* What a step does to the variables of another: nothing                   *)
(***************************************************************************)

LEMMA OthersStay ==
    ASSUME TypeOK, NEW t \in Steps, Begin(t) \/ Act(t) \/ Flush(t) \/ Rollback(t),
           NEW u \in Steps, u # t
    PROVE  /\ pc'[u] = pc[u] /\ at'[u] = at[u] /\ now'[u] = now[u]
           /\ answer'[u] = answer[u] /\ hit'[u] = hit[u] /\ known'[u] = known[u]
           /\ mine'[u] = mine[u] /\ clock' = clock
  <1>1. CASE Begin(t)
    BY <1>1 DEF Begin, TypeOK
  <1>2. CASE Hit(t)
    BY <1>2 DEF Hit, Goto, TypeOK
  <1>3. CASE Miss(t) \/ Fetch(t) \/ Upsert(t) \/ Conflict(t)
    BY <1>3 DEF Miss, Fetch, Upsert, Conflict, TypeOK
  <1>4. CASE FetchFails(t)
    <2>1. PICK d : Goto(t, d)
      BY <1>4 DEF FetchFails
    <2> QED
      BY <1>4, <2>1 DEF FetchFails, Goto, TypeOK
  <1>5. CASE Write(t)
    BY <1>5 DEF Write, Goto, TypeOK
  <1>6. CASE Commit(t) \/ Rollback(t)
    BY <1>6 DEF Commit, Rollback, EndTransaction, TypeOK
  <1> QED
    BY <1>1, <1>2, <1>3, <1>4, <1>5, <1>6 DEF Act, Flush

\* A row that is there stays, with the same or with another content.
LEMMA RowsStay ==
    ASSUME TypeOK, NEW t \in Steps, Begin(t) \/ Act(t) \/ Flush(t) \/ Rollback(t),
           NEW d \in Datasets
    PROVE  /\ row[d] # NoRow => row'[d] # NoRow
           /\ row'[d] = row[d] \/ (row'[d] = mine[t][d] /\ mine[t][d] # NoRow)
  <1>1. CASE Commit(t)
    BY <1>1 DEF Commit
  <1>2. CASE ~Commit(t)
    BY <1>2 DEF Begin, Act, Flush, Hit, Miss, Fetch, FetchFails, Upsert, Write, Conflict,
                Rollback
  <1> QED
    BY <1>1, <1>2

-----------------------------------------------------------------------------
(***************************************************************************)
(* The parts of the invariant                                              *)
(***************************************************************************)

LEMMA StepAge ==
    ASSUME TypeOK, AgeInv, NEW t \in Steps, Begin(t) \/ Act(t) \/ Flush(t) \/ Rollback(t)
    PROVE  AgeInv'
  <1>1. ASSUME NEW d \in Datasets, row'[d] # NoRow
        PROVE  row'[d].fetchedAt <= row'[d].read
    BY <1>1, RowsStay DEF AgeInv
  <1>2. /\ now'[t] <= clock
        /\ pc'[t] \in {"upsert", "insert", "update"} => now'[t] <= answer'[t]
    <2>0. /\ clock \in Nat /\ now[t] \in Nat /\ now[t] <= clock
          /\ pc[t] \in {"upsert", "insert", "update"} => now[t] <= answer[t]
      BY DEF TypeOK, Time, AgeInv
    <2>1. CASE Begin(t)
      BY <2>0, <2>1 DEF Begin, TypeOK
    <2>2. CASE Hit(t)
      BY <2>0, <2>2 DEF Hit, Goto, TypeOK
    <2>3. CASE Miss(t)
      BY <2>0, <2>3 DEF Miss, TypeOK
    <2>4. CASE Fetch(t)
      BY <2>0, <2>4 DEF Fetch, TypeOK
    <2>5. CASE FetchFails(t)
      <3>1. PICK d : Goto(t, d)
        BY <2>5 DEF FetchFails
      <3> QED
        BY <2>0, <3>1 DEF Goto, TypeOK
    <2>6. CASE Upsert(t)
      BY <2>0, <2>6 DEF Upsert, UpsertStatement, TypeOK
    <2>7. CASE Write(t)
      BY <2>0, <2>7 DEF Write, Goto, TypeOK
    <2>8. CASE Conflict(t)
      BY <2>0, <2>8 DEF Conflict, TypeOK
    <2>9. CASE Commit(t) \/ Rollback(t)
      BY <2>0, <2>9 DEF Commit, Rollback, EndTransaction, TypeOK
    <2> QED
      BY <2>1, <2>2, <2>3, <2>4, <2>5, <2>6, <2>7, <2>8, <2>9 DEF Act, Flush
  <1>3. ASSUME NEW d \in Datasets, mine'[t][d] # NoRow
        PROVE  mine'[t][d].fetchedAt <= mine'[t][d].read
    <2>1. CASE Write(t)
      <3> DEFINE w == NewRow(t)
      <3>1. w.fetchedAt = now[t] /\ w.read = answer[t] /\ now[t] <= answer[t]
        BY <2>1, NewRowTypes DEF Write, AgeInv
      <3>2. mine' = [mine EXCEPT ![t][Current(t)] = w]
        BY <2>1 DEF Write
      <3> HIDE DEF w
      <3>3. mine'[t][d] = w \/ mine'[t][d] = mine[t][d]
        BY <3>2 DEF TypeOK
      <3> QED
        BY <1>3, <3>1, <3>3 DEF AgeInv
    <2>2. CASE Commit(t) \/ Rollback(t)
      BY <1>3, <2>2 DEF Commit, Rollback, EndTransaction, TypeOK
    <2>3. CASE ~Write(t) /\ ~Commit(t) /\ ~Rollback(t)
      <3>1. mine' = mine
        BY <2>3 DEF Begin, Act, Flush, Hit, Miss, Fetch, FetchFails, Upsert, Conflict
      <3> QED
        BY <1>3, <3>1 DEF AgeInv
    <2> QED
      BY <2>1, <2>2, <2>3
  <1>4. clock' = clock
    BY DEF Begin, Act, Flush, Hit, Miss, Fetch, FetchFails, Upsert, Write, Conflict,
           Commit, Rollback, EndTransaction
  <1>5. ASSUME NEW u \in Steps
        PROVE  /\ now'[u] <= clock'
               /\ pc'[u] \in {"upsert", "insert", "update"} => now'[u] <= answer'[u]
               /\ \A d \in Datasets : mine'[u][d] # NoRow =>
                     mine'[u][d].fetchedAt <= mine'[u][d].read
    <2>1. CASE u = t
      BY <1>2, <1>3, <1>4, <2>1
    <2>2. CASE u # t
      BY <1>5, <2>2, OthersStay DEF AgeInv
    <2> QED
      BY <2>1, <2>2
  <1> QED
    BY <1>1, <1>5 DEF AgeInv

LEMMA StepKnown ==
    ASSUME TypeOK, KnownInv, NEW t \in Steps, Begin(t) \/ Act(t) \/ Flush(t) \/ Rollback(t)
    PROVE  KnownInv'
  <1>1. /\ \A d \in known'[t] : row[d] # NoRow
        /\ pc'[t] \in {"insert", "conflict"} => at'[t] \notin known'[t]
    <2>0. /\ \A d \in known[t] : row[d] # NoRow
          /\ pc[t] \in {"insert", "conflict"} => at[t] \notin known[t]
      BY DEF KnownInv
    <2>1. CASE Begin(t)
      BY <2>0, <2>1 DEF Begin, TypeOK
    <2>2. CASE Hit(t)
      BY <2>0, <2>2 DEF Hit, Goto, TypeOK
    <2>3. CASE Miss(t) \/ Fetch(t)
      BY <2>0, <2>3 DEF Miss, Fetch, TypeOK
    <2>4. CASE FetchFails(t)
      <3>1. PICK d : Goto(t, d)
        BY <2>4 DEF FetchFails
      <3> QED
        BY <2>0, <2>4, <3>1 DEF FetchFails, Goto, TypeOK
    <2>5. CASE Upsert(t)
      BY <2>0, <2>5 DEF Upsert, UpsertStatement, Current, TypeOK
    <2>6. CASE Write(t)
      BY <2>0, <2>6 DEF Write, Goto, TypeOK
    <2>7. CASE Conflict(t)
      BY <2>0, <2>7 DEF Conflict, TypeOK
    <2>8. CASE Commit(t) \/ Rollback(t)
      BY <2>0, <2>8 DEF Commit, Rollback, EndTransaction, TypeOK
    <2> QED
      BY <2>1, <2>2, <2>3, <2>4, <2>5, <2>6, <2>7, <2>8 DEF Act, Flush
  <1>2. TypeOK'
    BY StepTypes
  <1>3. ASSUME NEW u \in Steps
        PROVE  /\ \A d \in known'[u] : row'[d] # NoRow
               /\ pc'[u] \in {"insert", "conflict"} => at'[u] \notin known'[u]
    <2>1. known'[u] \subseteq Datasets
      BY <1>2 DEF TypeOK
    <2>2. CASE u = t
      BY <1>1, <2>1, <2>2, RowsStay
    <2>3. CASE u # t
      BY <2>1, <2>3, OthersStay, RowsStay DEF KnownInv
    <2> QED
      BY <2>2, <2>3
  <1> QED
    BY <1>3 DEF KnownInv

LEMMA StepOrder ==
    ASSUME TypeOK, OrderInv, NEW t \in Steps, Begin(t) \/ Act(t) \/ Flush(t) \/ Rollback(t)
    PROVE  OrderInv'
  <1>0. \A d \in Datasets : mine[t][d] # NoRow => d < at[t] \/ pc[t] = "agents"
    BY DEF OrderInv
  <1>1. ASSUME NEW d \in Datasets, mine'[t][d] # NoRow
        PROVE  d < at'[t] \/ pc'[t] = "agents"
    <2>0. at[t] \in Nat /\ d \in Nat /\ NumFmp \in Nat /\ NumDatasets \in Nat
      BY CacheAssumption DEF TypeOK, Datasets
    <2>1. CASE Begin(t) \/ Miss(t) \/ Fetch(t) \/ Upsert(t) \/ Conflict(t)
      BY <1>0, <1>1, <2>1 DEF Begin, Miss, Fetch, Upsert, Conflict, TypeOK
    <2>2. ASSUME NEW n \in Nat, n > at[t], Goto(t, n),
                 mine'[t][d] # NoRow => d <= at[t], pc[t] # "agents"
          PROVE  d < at'[t] \/ pc'[t] = "agents"
      <3>1. CASE n \in Datasets
        <4>1. at'[t] = n
          BY <2>2, <3>1 DEF Goto, TypeOK
        <4> QED
          BY <1>1, <2>0, <2>2, <4>1
      <3>2. CASE n \notin Datasets
        BY <2>2, <3>2 DEF Goto, TypeOK
      <3> QED
        BY <3>1, <3>2
    <2>3. CASE Hit(t)
      BY <1>0, <1>1, <2>0, <2>2, <2>3 DEF Hit
    <2>4. CASE FetchFails(t)
      <3>1. UNCHANGED mine /\ pc[t] = "fetch"
        BY <2>4 DEF FetchFails
      <3>2. at[t] <= NumDatasets
        BY DEF TypeOK, Datasets
      <3>3. PICK n \in Nat : n > at[t] /\ Goto(t, n)
        BY <2>0, <2>4, <3>2 DEF FetchFails
      <3> QED
        BY <1>0, <1>1, <2>0, <2>2, <3>1, <3>3
    <2>5. CASE Write(t)
      <3>1. mine'[t][d] # NoRow => d <= at[t]
        <4> DEFINE w == NewRow(t)
        <4>1. mine' = [mine EXCEPT ![t][at[t]] = w] /\ pc[t] \in {"insert", "update"}
          BY <2>5 DEF Write, Current
        <4> HIDE DEF w
        <4> QED
          BY <1>0, <2>0, <4>1 DEF TypeOK
      <3> QED
        BY <2>0, <2>2, <2>5, <3>1 DEF Write
    <2>6. CASE Commit(t) \/ Rollback(t)
      BY <1>1, <2>6 DEF Commit, Rollback, EndTransaction, TypeOK
    <2> QED
      BY <2>1, <2>3, <2>4, <2>5, <2>6 DEF Act, Flush
  <1> SUFFICES ASSUME NEW u \in Steps, NEW d \in Datasets, mine'[u][d] # NoRow
               PROVE  d < at'[u] \/ pc'[u] = "agents"
    BY DEF OrderInv
  <1>2. CASE u = t
    BY <1>1, <1>2
  <1>3. CASE u # t
    BY <1>3, OthersStay DEF OrderInv
  <1> QED
    BY <1>2, <1>3

\* A hit is fresh because its row is, and its row's payload is younger than the row.
LEMMA StepFresh ==
    ASSUME TypeOK, AgeInv, HitsAreFresh, NEW t \in Steps,
           Begin(t) \/ Act(t) \/ Flush(t) \/ Rollback(t)
    PROVE  HitsAreFresh'
  <1>1. ASSUME Hit(t), Ttl[Current(t)] # Forever
        PROVE  clock < row[Current(t)].read + Ttl[Current(t)]
    <2>1. Current(t) \in Datasets
      BY DEF TypeOK, Current
    <2>2. row[Current(t)] # NoRow /\ clock < row[Current(t)].fetchedAt + Ttl[Current(t)]
      BY <1>1 DEF Hit, Fresh
    <2>3. row[Current(t)].fetchedAt <= row[Current(t)].read
      BY <2>1, <2>2 DEF AgeInv
    <2>4. row[Current(t)].fetchedAt \in Nat /\ row[Current(t)].read \in Nat /\ clock \in Nat
      BY <2>1, <2>2, RowTypes DEF Time, TypeOK
    <2>5. Ttl[Current(t)] \in Nat
      BY <1>1, <2>1, CacheAssumption
    <2> QED
      BY <2>2, <2>3, <2>4, <2>5
  <1>2. CASE Hit(t)
    <2> DEFINE h == [dataset |-> Current(t), read |-> row[Current(t)].read, at |-> clock]
    <2>1. hit' = [hit EXCEPT ![t] = h]
      BY <1>2 DEF Hit
    <2>2. Ttl[h.dataset] # Forever => h.at < h.read + Ttl[h.dataset]
      BY <1>1, <1>2
    <2> HIDE DEF h
    <2>3. \A u \in Steps : hit'[u] = (IF u = t THEN h ELSE hit[u])
      BY <2>1 DEF TypeOK
    <2> QED
      BY <2>2, <2>3 DEF HitsAreFresh
  <1>3. CASE ~Hit(t)
    <2>1. hit' = hit \/ hit' = [hit EXCEPT ![t] = NoHit]
      BY <1>3 DEF Begin, Act, Flush, Miss, Fetch, FetchFails, Upsert, Write, Conflict,
                  Commit, Rollback, EndTransaction
    <2>2. \A u \in Steps : hit'[u] = hit[u] \/ hit'[u] = NoHit
      BY <2>1 DEF TypeOK
    <2> QED
      BY <2>2 DEF HitsAreFresh
  <1> QED
    BY <1>2, <1>3

-----------------------------------------------------------------------------

LEMMA InitInv == Init => IInv
  <1> SUFFICES ASSUME Init PROVE IInv
    OBVIOUS
  <1>1. TypeOK
    BY InitTypes
  <1> QED
    BY <1>1 DEF IInv, AgeInv, KnownInv, OrderInv, HitsAreFresh, Init

LEMMA NextInv == IInv /\ [Next]_vars => IInv'
  <1> SUFFICES ASSUME IInv, [Next]_vars PROVE IInv'
    OBVIOUS
  <1>1. TypeOK'
    BY NextTypes DEF IInv
  <1>2. CASE \E t \in Steps : Begin(t) \/ Act(t) \/ Flush(t) \/ Rollback(t)
    BY <1>1, <1>2, StepAge, StepKnown, StepOrder, StepFresh DEF IInv
  <1>3. CASE Tick
    <2>1. clock \in Nat /\ (\A t \in Steps : now[t] \in Nat) /\ clock' = clock + 1
      BY <1>3 DEF IInv, TypeOK, Time, Tick
    <2>2. UNCHANGED <<row, mine, pc, at, now, answer, hit, known>>
      BY <1>3 DEF Tick
    <2> QED
      BY <1>1, <2>1, <2>2 DEF IInv, AgeInv, KnownInv, OrderInv, HitsAreFresh
  <1>4. CASE UNCHANGED vars
    BY <1>1, <1>4 DEF vars, IInv, AgeInv, KnownInv, OrderInv, HitsAreFresh
  <1> QED
    BY <1>2, <1>3, <1>4 DEF Next

\* Every variable of the cache and its users stays in its type.
THEOREM TypeCorrect == Spec => []TypeOK
  BY InitTypes, NextTypes, PTL DEF Spec

\* Only the first fetch of a dataset can make a step fail over another.
THEOREM OnlyFirstFetchCollides == Spec => []CollisionIsFirstFetch
  <1>1. IInv => CollisionIsFirstFetch
    BY DEF IInv, KnownInv, CollisionIsFirstFetch, Current
  <1> QED
    BY <1>1, InitInv, NextInv, PTL DEF Spec

\* No hit is older than its dataset's ttl.
THEOREM HitsStayFresh == Spec => []HitsAreFresh
  <1>1. IInv => HitsAreFresh
    BY DEF IInv
  <1> QED
    BY <1>1, InitInv, NextInv, PTL DEF Spec

\* Step t waits for the lock that step u holds on the dataset t is at.
WaitsFor(t, u) ==
    pc[t] \in {"insert", "update"} /\ u # t /\ mine[u][at[t]] # NoRow

\* A step that is waited for is at a later dataset, or has loaded them all: steps
\* cannot wait for each other in a circle, of whatever length.
THEOREM NoCircularWait ==
    Spec => [](\A t, u \in Steps : WaitsFor(t, u) => at[t] < at[u] \/ pc[u] = "agents")
  <1>1. IInv => \A t, u \in Steps : WaitsFor(t, u) => at[t] < at[u] \/ pc[u] = "agents"
    BY DEF IInv, OrderInv, WaitsFor, TypeOK
  <1> QED
    BY <1>1, InitInv, NextInv, PTL DEF Spec

=============================================================================
