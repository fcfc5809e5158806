-------------------------- MODULE WritePath_proofs --------------------------
(***************************************************************************)
(* Theorems about WritePath for any number of writers, readers, keys and   *)
(* games, any market and any number of faults.                             *)
(***************************************************************************)
EXTENDS WritePath, LineStore_proofs, FunctionTheorems, FiniteSetTheorems, TLAPS

\* A batch, and a frame kept for a replay, is finite: so is what an insert adds.
BatchesFinite ==
  /\ \A p \in Writers : IsFiniteSet(snapshots[p])
  /\ \A s \in Streamers : \A f \in frames[s] : IsFiniteSet(f)

TypeInv == TypeOK /\ BatchesFinite

---------------------------------------------------------------------------
(* The operators *)

\* The games of rows are games.
LEMMA GamesOfType ==
  ASSUME NEW rows \in SUBSET Row
  PROVE  GamesOf(rows) \in SUBSET Games
BY WritePathAssumption DEF GamesOf, Row

\* Deduplication only drops snapshots.
LEMMA ChangedSubset ==
  ASSUME TypeInv, NEW p \in Writers
  PROVE  /\ Changed(p) \in SUBSET snapshots[p]
         /\ Changed(p) \in SUBSET Row
         /\ GamesOf(Changed(p)) \in SUBSET Games
<1>1. Changed(p) \in SUBSET snapshots[p]
  BY DEF Changed, FilterChanged
<1>2. snapshots[p] \in SUBSET Row
  BY DEF TypeInv, TypeOK
<1> QED
  BY <1>1, <1>2, GamesOfType

\* An insert adds rows of its batch only, and as many as it counts.
LEMMA InsertedRows ==
  ASSUME TypeInv, NEW p \in Writers,
         NEW new \in InsertOutcomes(table, Changed(p))
  PROVE  /\ new \in SUBSET Changed(p)
         /\ new \in SUBSET Row
         /\ GamesOf(new) \in SUBSET Games
         /\ GamesOf(new) \in SUBSET GamesOf(Changed(p))
         /\ Cardinality(new) \in Nat
<1>1. new \in SUBSET Changed(p)
  BY DEF InsertOutcomes
<1>2. new \in SUBSET Row /\ new \in SUBSET snapshots[p]
  BY <1>1, ChangedSubset
<1>3. GamesOf(new) \in SUBSET GamesOf(Changed(p))
  BY <1>1 DEF GamesOf
<1>4. IsFiniteSet(new)
  BY <1>2, FS_Subset DEF TypeInv, BatchesFinite
<1> QED
  BY <1>1, <1>2, <1>3, <1>4, GamesOfType, FS_CardinalityType

---------------------------------------------------------------------------
(* Type correctness *)

LEMMA TypeInit == Init => TypeInv
<1> SUFFICES ASSUME Init PROVE TypeInv
  OBVIOUS
<1>1. TypeOK
  BY DEF Init, TypeOK, Writers
<1>2. BatchesFinite
  BY FS_EmptySet DEF Init, BatchesFinite
<1> QED
  BY <1>1, <1>2 DEF TypeInv

OnePerKey(rows) == \A r, q \in rows : r.key = q.key => r = q

\* A new batch is a finite set of rows, one of each of its lines, at one instant.
LEMMA BatchType ==
  ASSUME NEW K \in SUBSET Keys, NEW price \in [Keys -> Prices], NEW t \in Stamps,
         NEW live \in BOOLEAN
  PROVE  LET batch == Batch(K, price, t, live)
         IN  /\ batch \in SUBSET Row /\ IsFiniteSet(batch)
             /\ OnePerKey(batch) /\ \A r \in batch : r.at = t
<1> DEFINE row(k) == [key |-> k, at |-> t, val |-> [odds |-> price[k], live |-> live]]
           batch == Batch(K, price, t, live)
<1>0. batch = {row(k) : k \in K}
  BY DEF Batch
<1>1. \A k \in K : row(k) \in Row
  BY DEF Row, Values
<1>2. IsFiniteSet(K)
  BY WritePathAssumption, FS_Subset
<1>3. IsFiniteSet(batch)
  <2> DEFINE f == [k \in K |-> row(k)]
  <2>1. f \in [K -> batch]
    BY <1>0
  <2>2. \A b \in batch : \E k \in K : f[k] = b
    BY <1>0
  <2>3. f \in Surjection(K, batch)
    BY <2>1, <2>2 DEF Surjection
  <2> HIDE DEF f, batch
  <2> QED
    BY <2>3, <1>2, FS_Surjection
<1>4. OnePerKey(batch) /\ \A r \in batch : r.at = t
  <2>1. \A k \in K : row(k).key = k /\ row(k).at = t
    OBVIOUS
  <2>2. \A r \in batch : \E k \in K : r = row(k)
    BY <1>0
  <2> HIDE DEF row, batch
  <2> QED
    BY <2>1, <2>2 DEF OnePerKey
<1> QED
  BY <1>0, <1>1, <1>3, <1>4

\* The lines of a frame are lines.
LEMMA FrameKeys ==
  ASSUME NEW g \in Games
  PROVE  FrameLines(g) \in SUBSET SUBSET Keys
BY DEF FrameLines

\* A frame, new or sent again, is submitted; every other step is one of these.
OtherStep ==
  \/ \E k \in Keys : MoveMarket(k)
  \/ \E p \in Pollers : GetOdds(p) \/ Normalize(p) \/ NormalizeFails(p)
  \/ \E p \in Writers : Abandon(p) \/ Lock(p) \/ WriterStep(p)
  \/ \E r \in Readers : ReaderStep(r) \/ \E g \in Games : Lookup(r, g)
  \/ \E g \in Games : Expire(g)
  \/ Restart
  \/ UNCHANGED vars

LEMMA StepKinds ==
  ASSUME [Next]_vars
  PROVE  OtherStep \/ \E s \in Streamers : \E frame : Submit(s, frame)
BY DEF Next, OtherStep, ReplayFrame, ReceiveFrame

\* Observing is no business of a writer past its dedup read.
LEMMA ObservingElsewhere ==
  ASSUME TypeInv,
         \/ \E w \in Pollers : GetOdds(w) \/ Normalize(w) \/ NormalizeFails(w)
         \/ \E s \in Streamers : \E frame : Submit(s, frame),
         NEW p \in Writers, pc'[p] \in {"insert", "invalidate", "publish"}
  PROVE  pc'[p] = pc[p] /\ snapshots'[p] = snapshots[p] /\ latest'[p] = latest[p]
<1> USE DEF TypeInv, TypeOK, Writers
<1>1. ASSUME NEW w \in Pollers, GetOdds(w) \/ Normalize(w) \/ NormalizeFails(w)
      PROVE  pc'[p] = pc[p] /\ snapshots'[p] = snapshots[p] /\ latest'[p] = latest[p]
  BY <1>1 DEF GetOdds, Normalize, NormalizeFails
<1>2. ASSUME NEW s \in Streamers, NEW frame, Submit(s, frame)
      PROVE  pc'[p] = pc[p] /\ snapshots'[p] = snapshots[p] /\ latest'[p] = latest[p]
  BY <1>2 DEF Submit
<1> QED
  BY <1>1, <1>2

LEMMA TypeStep == TypeInv /\ [Next]_vars => TypeInv'
<1> SUFFICES ASSUME TypeInv, [Next]_vars PROVE TypeInv'
  OBVIOUS
<1> USE DEF TypeInv, BatchesFinite, TypeOK, market_vars, source_vars, writer_vars,
            reader_vars, history_vars, InPersist, Fault, Unlocked
<1>1. ASSUME NEW k \in Keys, MoveMarket(k) PROVE TypeInv'
  BY <1>1 DEF MoveMarket
<1>2. ASSUME NEW p \in Pollers, GetOdds(p) PROVE TypeInv'
  BY <1>2, WritePathAssumption DEF GetOdds, Writers
<1>3. ASSUME NEW p \in Pollers, Normalize(p) PROVE TypeInv'
  <2>1. PICK t \in Stamps :
          snapshots' = [snapshots EXCEPT ![p] = Batch(Keys, fetched[p], t, FALSE)]
    BY <1>3 DEF Normalize
  <2>2. fetched[p] \in [Keys -> Prices]
    BY <1>3 DEF Normalize
  <2>3. LET batch == Batch(Keys, fetched[p], t, FALSE)
        IN batch \in SUBSET Row /\ IsFiniteSet(batch)
    BY <2>2, BatchType
  <2> QED
    BY <1>3, <2>1, <2>3 DEF Normalize, Writers
<1>4. ASSUME NEW p \in Pollers, NormalizeFails(p) PROVE TypeInv'
  BY <1>4 DEF NormalizeFails, Writers
<1>24. ASSUME NEW s \in Streamers, NEW frame \in frames[s], ReplayFrame(s, frame)
       PROVE  TypeInv'
  BY <1>24, WritePathAssumption DEF ReplayFrame, Submit, Writers
<1>25. ASSUME NEW s \in Streamers, NEW K \in SUBSET Keys, ReceiveFrame(s, K)
       PROVE  TypeInv'
  <2>1. PICK t \in Stamps :
          LET frame == Batch(K, market, t, TRUE)
          IN Submit(s, frame) /\ frames' = [frames EXCEPT ![s] = @ \cup {frame}]
    BY <1>25 DEF ReceiveFrame
  <2> DEFINE frame == Batch(K, market, t, TRUE)
  <2>2. frame \in SUBSET Row /\ IsFiniteSet(frame)
    BY BatchType
  <2>3. Submit(s, frame) /\ frames' = [frames EXCEPT ![s] = @ \cup {frame}]
    BY <2>1
  <2> HIDE DEF frame
  <2> QED
    BY <2>2, <2>3, WritePathAssumption DEF Submit, Writers
<1>5. ASSUME NEW p \in Writers, Abandon(p) PROVE TypeInv'
  BY <1>5, FS_EmptySet DEF Abandon
<1>6. ASSUME NEW p \in Writers, Lock(p) PROVE TypeInv'
  BY <1>6 DEF Lock
<1>7. ASSUME NEW p \in Writers, ReadUnchanged(p) PROVE TypeInv'
  BY <1>7, FS_EmptySet DEF ReadUnchanged
<1>8. ASSUME NEW p \in Writers, ReadChanged(p) PROVE TypeInv'
  <2>1. GetLatestLineValues(snapshots[p]) \in SUBSET Row
    BY DEF GetLatestLineValues, Current
  <2> QED
    BY <1>8, <2>1 DEF ReadChanged
<1>9. ASSUME NEW p \in Writers, ReadFails(p) PROVE TypeInv'
  BY <1>9, FS_EmptySet DEF ReadFails
<1>10. ASSUME NEW p \in Writers, Insert(p) PROVE TypeInv'
  <2>1. PICK new \in InsertOutcomes(table, Changed(p)) :
          Commit(new) /\ inserted' = [inserted EXCEPT ![p] = Cardinality(new)]
    BY <1>10 DEF Insert
  <2> QED
    BY <1>10, <2>1, InsertedRows, ChangedSubset DEF Insert, Commit
<1>11. ASSUME NEW p \in Writers, InsertFails(p) PROVE TypeInv'
  BY <1>11, FS_EmptySet DEF InsertFails
<1>12. ASSUME NEW p \in Writers, InsertAnswerLost(p) PROVE TypeInv'
  <2>1. PICK new \in InsertOutcomes(table, Changed(p)) :
          Commit(new) /\ tainted' = tainted \cup GamesOf(new)
                      /\ missed' = missed \cup GamesOf(new)
    BY <1>12 DEF InsertAnswerLost
  <2> QED
    BY <1>12, <2>1, InsertedRows, FS_EmptySet DEF InsertAnswerLost, Commit
<1>13. ASSUME NEW p \in Writers, NEW g \in Games, Invalidate(p, g) PROVE TypeInv'
  BY <1>13 DEF Invalidate, NextGame
<1>14. ASSUME NEW p \in Writers, NEW g \in Games, InvalidateFails(p, g) PROVE TypeInv'
  BY <1>14 DEF InvalidateFails, NextGame
<1>15. ASSUME NEW p \in Writers, Publish(p) PROVE TypeInv'
  BY <1>15, ChangedSubset, FS_EmptySet DEF Publish, Event
<1>16. ASSUME NEW p \in Writers, PublishFails(p) PROVE TypeInv'
  BY <1>16, ChangedSubset, FS_EmptySet DEF PublishFails
<1>17. ASSUME NEW r \in Readers, Load(r) PROVE TypeInv'
  <2>1. LinesOf(table, rgame[r]) \in SUBSET Row
    BY DEF LinesOf, Current
  <2> QED
    BY <1>17, <2>1 DEF Load
<1>18. ASSUME NEW r \in Readers, Fill(r) PROVE TypeInv'
  BY <1>18 DEF Fill, Answered
<1>19. ASSUME NEW r \in Readers, ReaderFails(r) PROVE TypeInv'
  BY <1>19 DEF ReaderFails, Answered
<1>20. ASSUME NEW r \in Readers, NEW g \in Games, Lookup(r, g) PROVE TypeInv'
  BY <1>20 DEF Lookup
<1>21. ASSUME NEW g \in Games, Expire(g) PROVE TypeInv'
  BY <1>21 DEF Expire
<1>22. ASSUME Restart PROVE TypeInv'
  <2>1. UNION {todo[p] : p \in Writers} \in SUBSET Games
    OBVIOUS
  <2>2. \A p \in Writers : GamesOf(Changed(p)) \in SUBSET Games
    BY ChangedSubset
  <2> DEFINE Q == {w \in Writers : pc[w] \in {"invalidate", "publish"}}
  <2>3. UNION {GamesOf(Changed(p)) : p \in Q} \in SUBSET Games
    BY <2>2
  <2> QED
    BY <1>22, <2>1, <2>3, FS_EmptySet DEF Restart, Writers
<1>23. CASE UNCHANGED vars
  BY <1>23 DEF vars
<1> QED
  BY <1>1, <1>2, <1>3, <1>4, <1>5, <1>6, <1>7, <1>8, <1>9, <1>10, <1>11, <1>12,
     <1>13, <1>14, <1>15, <1>16, <1>17, <1>18, <1>19, <1>20, <1>21, <1>22, <1>23,
     <1>24, <1>25, FrameKeys DEF Next, WriterStep, ReaderStep

\* Every variable keeps its type: among others, an event always names games
\* and a number of rows.
THEOREM TypeCorrect == Spec => []TypeOK
<1>1. Spec => []TypeInv
  BY TypeInit, TypeStep, PTL DEF Spec
<1>2. TypeInv => TypeOK
  BY DEF TypeInv
<1> QED
  BY <1>1, <1>2, PTL

---------------------------------------------------------------------------
(* The mutex, and what it is for *)

\* The inductive invariant.  DedupReadHolds is not inductive by itself: that
\* nobody else inserts between a writer's read and its insert follows from the
\* mutex being held on every path in between.
MutexInv == MutexHeld /\ DedupReadHolds

LEMMA MutexInit == Init => MutexInv
BY WritePathAssumption DEF Init, MutexInv, MutexHeld, DedupReadHolds, InPersist

\* Only a writer inside persistSnapshots holding the mutex adds rows.
LEMMA MutexStep == TypeInv /\ MutexInv /\ [Next]_vars => MutexInv'
<1> SUFFICES ASSUME TypeInv, MutexInv, [Next]_vars PROVE MutexInv'
  OBVIOUS
<1> USE WritePathAssumption
    DEF TypeInv, TypeOK, MutexInv, MutexHeld, DedupReadHolds, InPersist,
        market_vars, source_vars, writer_vars, reader_vars, history_vars, Unlocked,
        GetLatestLineValues
<1>1. ASSUME NEW k \in Keys, MoveMarket(k) PROVE MutexInv'
  BY <1>1 DEF MoveMarket
<1>2. ASSUME NEW p \in Pollers, GetOdds(p) PROVE MutexInv'
  BY <1>2 DEF GetOdds, Writers
<1>3. ASSUME NEW p \in Pollers, Normalize(p) PROVE MutexInv'
  BY <1>3 DEF Normalize, Writers
<1>4. ASSUME NEW p \in Pollers, NormalizeFails(p) PROVE MutexInv'
  BY <1>4 DEF NormalizeFails, Writers
<1>22. ASSUME NEW s \in Streamers, NEW frame \in frames[s], ReplayFrame(s, frame)
       PROVE  MutexInv'
  BY <1>22 DEF ReplayFrame, Submit, Writers
<1>23. ASSUME NEW s \in Streamers, NEW K \in SUBSET Keys, ReceiveFrame(s, K)
       PROVE  MutexInv'
  <2>1. PICK frame : Submit(s, frame)
    BY <1>23 DEF ReceiveFrame
  <2> QED
    BY <2>1 DEF Submit, Writers
<1>5. ASSUME NEW p \in Writers, Abandon(p) PROVE MutexInv'
  BY <1>5 DEF Abandon
<1>6. ASSUME NEW p \in Writers, Lock(p) PROVE MutexInv'
  BY <1>6 DEF Lock
<1>7. ASSUME NEW p \in Writers, ReadUnchanged(p) PROVE MutexInv'
  BY <1>7 DEF ReadUnchanged
<1>8. ASSUME NEW p \in Writers, ReadChanged(p) PROVE MutexInv'
  BY <1>8 DEF ReadChanged
<1>9. ASSUME NEW p \in Writers, ReadFails(p) PROVE MutexInv'
  BY <1>9 DEF ReadFails
<1>10. ASSUME NEW p \in Writers, Insert(p) PROVE MutexInv'
  BY <1>10 DEF Insert
<1>11. ASSUME NEW p \in Writers, InsertFails(p) PROVE MutexInv'
  BY <1>11 DEF InsertFails
<1>12. ASSUME NEW p \in Writers, InsertAnswerLost(p) PROVE MutexInv'
  BY <1>12 DEF InsertAnswerLost
<1>13. ASSUME NEW p \in Writers, NEW g \in Games, Invalidate(p, g) PROVE MutexInv'
  BY <1>13 DEF Invalidate, NextGame
<1>14. ASSUME NEW p \in Writers, NEW g \in Games, InvalidateFails(p, g) PROVE MutexInv'
  BY <1>14 DEF InvalidateFails, NextGame
<1>15. ASSUME NEW p \in Writers, Publish(p) PROVE MutexInv'
  BY <1>15 DEF Publish
<1>16. ASSUME NEW p \in Writers, PublishFails(p) PROVE MutexInv'
  BY <1>16 DEF PublishFails
<1>17. ASSUME NEW r \in Readers, ReaderStep(r) PROVE MutexInv'
  BY <1>17 DEF ReaderStep, Load, Fill, ReaderFails, Answered
<1>18. ASSUME NEW r \in Readers, NEW g \in Games, Lookup(r, g) PROVE MutexInv'
  BY <1>18 DEF Lookup
<1>19. ASSUME NEW g \in Games, Expire(g) PROVE MutexInv'
  BY <1>19 DEF Expire
<1>20. CASE Restart
  BY <1>20 DEF Restart
<1>21. CASE UNCHANGED vars
  BY <1>21 DEF vars
<1> QED
  BY <1>1, <1>2, <1>3, <1>4, <1>5, <1>6, <1>7, <1>8, <1>9, <1>10, <1>11, <1>12,
     <1>13, <1>14, <1>15, <1>16, <1>17, <1>18, <1>19, <1>20, <1>21, <1>22,
     <1>23, FrameKeys DEF Next, WriterStep

LEMMA Invariants == Spec => [](TypeInv /\ MutexInv)
<1>1. Init => TypeInv /\ MutexInv
  BY TypeInit, MutexInit
<1>2. TypeInv /\ MutexInv /\ [Next]_vars => (TypeInv /\ MutexInv)'
  BY TypeStep, MutexStep
<1> QED
  BY <1>1, <1>2, PTL DEF Spec

\* The mutex is held exactly by the writer inside persistSnapshots.
THEOREM MutexCorrect == Spec => []MutexHeld
BY Invariants, PTL DEF MutexInv

\* What a writer read for deduplication is still the latest when it inserts.
THEOREM DedupReadCorrect == Spec => []DedupReadHolds
BY Invariants, PTL DEF MutexInv

---------------------------------------------------------------------------
(* What is stored *)

\* An insert stores no row that repeats the current value of its line.
LEMMA InsertedRowsDiffer ==
  ASSUME TypeInv, MutexInv, NEW p \in Writers, pc[p] = "insert",
         NEW new \in InsertOutcomes(table, Changed(p)),
         NEW r \in new, NEW q \in Current(table), q.key = r.key
  PROVE  q.val # r.val
<1>1. r \in Changed(p) /\ r \in snapshots[p]
  BY InsertedRows, ChangedSubset
<1>2. GameOf[q.key] \in GamesOf(snapshots[p])
  BY <1>1 DEF GamesOf
<1>3. q \in latest[p]
  BY <1>2 DEF MutexInv, DedupReadHolds, GetLatestLineValues
<1> QED
  BY <1>1, <1>3 DEF Changed, FilterChanged

\* A step that changes the table is an insert.
LEMMA TableSteps ==
  ASSUME [Next]_vars, table' # table
  PROVE  \E p \in Writers :
           /\ pc[p] = "insert"
           /\ \E new \in InsertOutcomes(table, Changed(p)) : table' = table \cup new
<1>1. CASE \E p \in Writers : Insert(p) \/ InsertAnswerLost(p)
  BY <1>1 DEF Insert, InsertAnswerLost, Commit
<1>2. CASE ~ \E p \in Writers : Insert(p) \/ InsertAnswerLost(p)
  BY <1>2, StepKinds DEF OtherStep, vars, MoveMarket, GetOdds, Normalize,
     NormalizeFails, Submit, Abandon, Lock, WriterStep, ReadUnchanged, ReadChanged,
     ReadFails, InsertFails, Invalidate, InvalidateFails, NextGame, Publish,
     PublishFails, ReaderStep, Load, Fill, ReaderFails, Answered, Lookup, Expire,
     Restart
<1> QED
  BY <1>1, <1>2

\* No row is stored that repeats the value current at that moment.
THEOREM InsertOnlyChangesCorrect == Spec => InsertOnlyChanges
<1> DEFINE Step == [\A r \in table' \ table : \A q \in Current(table) :
                      q.key = r.key => q.val # r.val]_table
<1>1. TypeInv /\ MutexInv /\ [Next]_vars => Step
  BY TableSteps, InsertedRowsDiffer
<1> QED
  BY <1>1, Invariants, PTL DEF Spec, InsertOnlyChanges

\* The table holds one row per slot.
LEMMA SlotsStep == SlotsUnique(table) /\ [Next]_vars => SlotsUnique(table')
BY TableSteps DEF SlotsUnique, SameSlot, InsertOutcomes

\* Stored rows stay, and no slot gets a second row.
THEOREM SnapshotsImmutableCorrect == Spec => SnapshotsImmutable
<1> DEFINE Unique == SlotsUnique(table)
           Step == [table \subseteq table' /\ SlotsUnique(table')]_table
<1>1. Init => Unique
  BY DEF Init, SlotsUnique
<1>2. Unique /\ [Next]_vars => Unique'
  BY SlotsStep DEF SlotsUnique, SameSlot
<1>3. Unique /\ [Next]_vars => Step
  BY TableSteps, SlotsStep
<1> QED
  BY <1>1, <1>2, <1>3, PTL DEF Spec, SnapshotsImmutable

---------------------------------------------------------------------------
(* The cache *)

\* New rows change the current lines of their own games only.
LEMMA LinesOfOthers ==
  ASSUME NEW new, NEW g \in Games, g \notin GamesOf(new)
  PROVE  LinesOf(table \cup new, g) = LinesOf(table, g)
BY DEF LinesOf, Current, GamesOf

\* The inductive invariant: besides the causes of stale entries it knows that
\* a reader about to fill holds the current lines, unless a commit overtook it.
CacheInv ==
  /\ StaleEntryHasCause
  /\ \A r \in Readers : rpc[r] = "fill" /\ r \notin overtaken =>
       rcopy[r] = LinesOf(table, rgame[r])

LEMMA CacheInit == Init => CacheInv
BY DEF Init, CacheInv, StaleEntryHasCause

LEMMA CacheStep == TypeInv /\ MutexInv /\ CacheInv /\ [Next]_vars => CacheInv'
<1> SUFFICES ASSUME TypeInv, MutexInv, CacheInv, [Next]_vars PROVE CacheInv'
  OBVIOUS
<1> USE WritePathAssumption
    DEF TypeInv, TypeOK, MutexInv, MutexHeld, InPersist, CacheInv,
        StaleEntryHasCause, market_vars, source_vars, writer_vars, reader_vars,
        history_vars, Unlocked
<1>1. ASSUME NEW k \in Keys, MoveMarket(k) PROVE CacheInv'
  BY <1>1 DEF MoveMarket
<1>2. ASSUME NEW p \in Pollers, GetOdds(p) PROVE CacheInv'
  BY <1>2 DEF GetOdds, Writers
<1>3. ASSUME NEW p \in Pollers, Normalize(p) PROVE CacheInv'
  BY <1>3 DEF Normalize, Writers
<1>4. ASSUME NEW p \in Pollers, NormalizeFails(p) PROVE CacheInv'
  BY <1>4 DEF NormalizeFails, Writers
<1>24. ASSUME NEW s \in Streamers, NEW frame \in frames[s], ReplayFrame(s, frame)
       PROVE  CacheInv'
  BY <1>24 DEF ReplayFrame, Submit, Writers
<1>25. ASSUME NEW s \in Streamers, NEW K \in SUBSET Keys, ReceiveFrame(s, K)
       PROVE  CacheInv'
  BY <1>25 DEF ReceiveFrame, Submit, Writers
<1>5. ASSUME NEW p \in Writers, Abandon(p) PROVE CacheInv'
  BY <1>5 DEF Abandon
<1>6. ASSUME NEW p \in Writers, Lock(p) PROVE CacheInv'
  BY <1>6 DEF Lock
<1>7. ASSUME NEW p \in Writers, ReadUnchanged(p) PROVE CacheInv'
  BY <1>7 DEF ReadUnchanged
<1>8. ASSUME NEW p \in Writers, ReadChanged(p) PROVE CacheInv'
  BY <1>8 DEF ReadChanged
<1>9. ASSUME NEW p \in Writers, ReadFails(p) PROVE CacheInv'
  BY <1>9 DEF ReadFails
<1>10. ASSUME NEW p \in Writers, Insert(p) PROVE CacheInv'
  <2>1. PICK new \in InsertOutcomes(table, Changed(p)) : Commit(new)
    BY <1>10 DEF Insert
  <2>2. \A g \in Games \ GamesOf(new) : LinesOf(table, g)' = LinesOf(table, g)
    BY <2>1, LinesOfOthers DEF Commit
  <2>3. GamesOf(new) \in SUBSET GamesOf(Changed(p))
    BY InsertedRows
  <2> QED
    BY <1>10, <2>1, <2>2, <2>3 DEF Insert, Commit
<1>11. ASSUME NEW p \in Writers, InsertFails(p) PROVE CacheInv'
  BY <1>11 DEF InsertFails
<1>12. ASSUME NEW p \in Writers, InsertAnswerLost(p) PROVE CacheInv'
  <2>1. PICK new \in InsertOutcomes(table, Changed(p)) :
          Commit(new) /\ tainted' = tainted \cup GamesOf(new)
    BY <1>12 DEF InsertAnswerLost
  <2>2. \A g \in Games \ GamesOf(new) : LinesOf(table, g)' = LinesOf(table, g)
    BY <2>1, LinesOfOthers DEF Commit
  <2> QED
    BY <1>12, <2>1, <2>2 DEF InsertAnswerLost, Commit, Unlocked
<1>13. ASSUME NEW p \in Writers, NEW g \in Games, Invalidate(p, g) PROVE CacheInv'
  BY <1>13 DEF Invalidate, NextGame
<1>14. ASSUME NEW p \in Writers, NEW g \in Games, InvalidateFails(p, g) PROVE CacheInv'
  BY <1>14 DEF InvalidateFails, NextGame
<1>15. ASSUME NEW p \in Writers, Publish(p) PROVE CacheInv'
  BY <1>15 DEF Publish
<1>16. ASSUME NEW p \in Writers, PublishFails(p) PROVE CacheInv'
  BY <1>16 DEF PublishFails
<1>17. ASSUME NEW r \in Readers, Load(r) PROVE CacheInv'
  BY <1>17 DEF Load
<1>18. ASSUME NEW r \in Readers, Fill(r) PROVE CacheInv'
  BY <1>18 DEF Fill, Answered
<1>19. ASSUME NEW r \in Readers, ReaderFails(r) PROVE CacheInv'
  BY <1>19 DEF ReaderFails, Answered
<1>20. ASSUME NEW r \in Readers, NEW g \in Games, Lookup(r, g) PROVE CacheInv'
  BY <1>20 DEF Lookup
<1>21. ASSUME NEW g \in Games, Expire(g) PROVE CacheInv'
  BY <1>21 DEF Expire
<1>22. CASE Restart
  BY <1>22 DEF Restart
<1>23. CASE UNCHANGED vars
  BY <1>23 DEF vars
<1> QED
  BY <1>1, <1>2, <1>3, <1>4, <1>5, <1>6, <1>7, <1>8, <1>9, <1>10, <1>11, <1>12,
     <1>13, <1>14, <1>15, <1>16, <1>17, <1>18, <1>19, <1>20, <1>21, <1>22, <1>23,
     <1>24, <1>25, FrameKeys DEF Next, WriterStep, ReaderStep

\* A cache entry that differs from the table has a writer still to invalidate
\* it, or lost an invalidation, or was filled with overtaken lines.
THEOREM StaleEntryCorrect == Spec => []StaleEntryHasCause
<1>1. Init => CacheInv
  BY CacheInit
<1>2. TypeInv /\ MutexInv /\ CacheInv /\ [Next]_vars => CacheInv'
  BY CacheStep
<1>3. CacheInv => StaleEntryHasCause
  BY DEF CacheInv
<1> QED
  BY <1>1, <1>2, <1>3, Invariants, PTL DEF Spec

---------------------------------------------------------------------------
(* The events *)

LEMMA SilentInit == Init => SilentRowHasCause
BY DEF Init, SilentRowHasCause

LEMMA SilentStep ==
  TypeInv /\ MutexInv /\ SilentRowHasCause /\ [Next]_vars => SilentRowHasCause'
<1> SUFFICES ASSUME TypeInv, MutexInv, SilentRowHasCause, [Next]_vars
             PROVE SilentRowHasCause'
  OBVIOUS
<1> USE WritePathAssumption
    DEF TypeInv, TypeOK, MutexInv, MutexHeld, InPersist, SilentRowHasCause,
        market_vars, source_vars, writer_vars, reader_vars, history_vars, Unlocked, Changed
<1>1. ASSUME NEW k \in Keys, MoveMarket(k) PROVE SilentRowHasCause'
  BY <1>1 DEF MoveMarket
<1>2. ASSUME NEW p \in Pollers, GetOdds(p) PROVE SilentRowHasCause'
  BY <1>2 DEF GetOdds, Writers
<1>3. ASSUME NEW p \in Pollers, Normalize(p) PROVE SilentRowHasCause'
  BY <1>3 DEF Normalize, Writers
<1>4. ASSUME NEW p \in Pollers, NormalizeFails(p) PROVE SilentRowHasCause'
  BY <1>4 DEF NormalizeFails, Writers
<1>24. ASSUME NEW s \in Streamers, NEW frame \in frames[s], ReplayFrame(s, frame)
       PROVE  SilentRowHasCause'
  BY <1>24 DEF ReplayFrame, Submit, Writers
<1>25. ASSUME NEW s \in Streamers, NEW K \in SUBSET Keys, ReceiveFrame(s, K)
       PROVE  SilentRowHasCause'
  BY <1>25 DEF ReceiveFrame, Submit, Writers
<1>5. ASSUME NEW p \in Writers, Abandon(p) PROVE SilentRowHasCause'
  BY <1>5 DEF Abandon
<1>6. ASSUME NEW p \in Writers, Lock(p) PROVE SilentRowHasCause'
  BY <1>6 DEF Lock
<1>7. ASSUME NEW p \in Writers, ReadUnchanged(p) PROVE SilentRowHasCause'
  BY <1>7 DEF ReadUnchanged
<1>8. ASSUME NEW p \in Writers, ReadChanged(p) PROVE SilentRowHasCause'
  BY <1>8 DEF ReadChanged
<1>9. ASSUME NEW p \in Writers, ReadFails(p) PROVE SilentRowHasCause'
  BY <1>9 DEF ReadFails
<1>10. ASSUME NEW p \in Writers, Insert(p) PROVE SilentRowHasCause'
  <2>1. PICK new \in InsertOutcomes(table, Changed(p)) : Commit(new)
    BY <1>10 DEF Insert
  <2>2. GamesOf(new) \in SUBSET GamesOf(Changed(p))
    BY InsertedRows
  <2>3. Changed(p)' = Changed(p)
    BY <1>10 DEF Insert, Changed
  <2> QED
    BY <1>10, <2>1, <2>2, <2>3 DEF Insert, Commit
<1>11. ASSUME NEW p \in Writers, InsertFails(p) PROVE SilentRowHasCause'
  BY <1>11 DEF InsertFails
<1>12. ASSUME NEW p \in Writers, InsertAnswerLost(p) PROVE SilentRowHasCause'
  <2>1. PICK new \in InsertOutcomes(table, Changed(p)) :
          Commit(new) /\ missed' = missed \cup GamesOf(new)
    BY <1>12 DEF InsertAnswerLost
  <2> QED
    BY <1>12, <2>1 DEF InsertAnswerLost, Commit, Unlocked
<1>13. ASSUME NEW p \in Writers, NEW g \in Games, Invalidate(p, g) PROVE SilentRowHasCause'
  BY <1>13 DEF Invalidate, NextGame
<1>14. ASSUME NEW p \in Writers, NEW g \in Games, InvalidateFails(p, g) PROVE SilentRowHasCause'
  BY <1>14 DEF InvalidateFails, NextGame
<1>15. ASSUME NEW p \in Writers, Publish(p) PROVE SilentRowHasCause'
  BY <1>15 DEF Publish
<1>16. ASSUME NEW p \in Writers, PublishFails(p) PROVE SilentRowHasCause'
  BY <1>16 DEF PublishFails
<1>17. ASSUME NEW r \in Readers, Load(r) PROVE SilentRowHasCause'
  BY <1>17 DEF Load
<1>18. ASSUME NEW r \in Readers, Fill(r) PROVE SilentRowHasCause'
  BY <1>18 DEF Fill, Answered
<1>19. ASSUME NEW r \in Readers, ReaderFails(r) PROVE SilentRowHasCause'
  BY <1>19 DEF ReaderFails, Answered
<1>20. ASSUME NEW r \in Readers, NEW g \in Games, Lookup(r, g) PROVE SilentRowHasCause'
  BY <1>20 DEF Lookup
<1>21. ASSUME NEW g \in Games, Expire(g) PROVE SilentRowHasCause'
  BY <1>21 DEF Expire
<1>22. CASE Restart
  BY <1>22 DEF Restart
<1>23. CASE UNCHANGED vars
  BY <1>23 DEF vars
<1> QED
  BY <1>1, <1>2, <1>3, <1>4, <1>5, <1>6, <1>7, <1>8, <1>9, <1>10, <1>11, <1>12,
     <1>13, <1>14, <1>15, <1>16, <1>17, <1>18, <1>19, <1>20, <1>21, <1>22, <1>23,
     <1>24, <1>25, FrameKeys DEF Next, WriterStep, ReaderStep

\* A stored row no event has named is still to be announced, or its event was
\* lost to a fault.
THEOREM SilentRowCorrect == Spec => []SilentRowHasCause
<1>1. Init => SilentRowHasCause
  BY SilentInit
<1>2. TypeInv /\ MutexInv /\ SilentRowHasCause /\ [Next]_vars => SilentRowHasCause'
  BY SilentStep
<1> QED
  BY <1>1, <1>2, Invariants, PTL DEF Spec

---------------------------------------------------------------------------
(* Nothing observed is lost *)

\* Of one line nothing is observed twice at one instant: a row found in the slot of
\* a snapshot is that snapshot, however often the frame was sent.
ObservedInv ==
  /\ SlotsUnique(Observed)
  /\ \A p \in Writers : OnePerKey(snapshots[p])
  /\ \A s \in Streamers : \A f \in frames[s] : OnePerKey(f)
  /\ IsFiniteSet(table)
  /\ ObservedNotLost

\* What it is for a row to be observed.
LEMMA InObserved ==
  ASSUME NEW r
  PROVE  r \in Observed <=> \/ r \in table
                            \/ \E p \in Writers : r \in snapshots[p]
                            \/ \E s \in Streamers : \E f \in frames[s] : r \in f
BY DEF Observed

LEMMA ObservedType ==
  ASSUME TypeInv
  PROVE  \A r \in Observed : r \in Row /\ r.at \in Nat
<1>1. \A r \in Observed : r \in Row
  BY InObserved DEF TypeInv, TypeOK
<1> QED
  BY <1>1, WritePathAssumption DEF Row

LEMMA ObservedInit == Init => ObservedInv
BY FS_EmptySet DEF Init, ObservedInv, Observed, OnePerKey, SlotsUnique, ObservedNotLost

\* A step that is no new observation only moves what is observed around.
LEMMA MovedAround ==
  ASSUME TypeInv, [Next]_vars,
         ~ \E p \in Pollers : Normalize(p),
         ~ \E s \in Streamers, K \in SUBSET Keys : ReceiveFrame(s, K)
  PROVE  /\ frames' = frames
         /\ \A p \in Writers : \/ snapshots'[p] \in {snapshots[p], {}}
                               \/ \E s \in Streamers : snapshots'[p] \in frames[s]
<1> USE DEF TypeInv, TypeOK, market_vars, source_vars, writer_vars, reader_vars,
            history_vars, Unlocked
<1>1. ASSUME NEW s \in Streamers, NEW frame \in frames[s], ReplayFrame(s, frame)
      PROVE  /\ frames' = frames
             /\ \A p \in Writers : snapshots'[p] \in {snapshots[p], frame}
  BY <1>1 DEF ReplayFrame, Submit
<1>2. CASE ~ \E s \in Streamers : \E frame \in frames[s] : ReplayFrame(s, frame)
  BY <1>2, FrameKeys DEF Next, vars, MoveMarket, GetOdds, NormalizeFails, Abandon, Lock,
     WriterStep, ReadUnchanged, ReadChanged, ReadFails, Insert, InsertFails,
     InsertAnswerLost, Invalidate, InvalidateFails, NextGame, Publish, PublishFails,
     ReaderStep, Load, Fill, ReaderFails, Answered, Lookup, Expire, Restart
<1> QED
  BY <1>1, <1>2

\* The two ways to observe: a batch of one row per line, at an instant not in use.
LEMMA NewObservation ==
  ASSUME TypeInv, \/ \E p \in Pollers : Normalize(p)
                  \/ \E s \in Streamers, K \in SUBSET Keys : ReceiveFrame(s, K)
  PROVE  \E batch \in SUBSET Row, t \in Stamps :
           /\ OnePerKey(batch) /\ \A r \in batch : r.at = t
           /\ \A r \in Observed : r.at # t
           /\ table' = table
           /\ \A p \in Writers : snapshots'[p] \in {snapshots[p], batch}
           /\ \A s \in Streamers : frames'[s] \subseteq frames[s] \cup {batch}
<1> USE DEF TypeInv, TypeOK
<1>1. \A t \in Stamps : IsNow(t) \/ t \notin StampsInUse => \A r \in Observed : r.at # t
  <2>1. ASSUME NEW t \in Stamps, IsNow(t), NEW r \in Observed PROVE r.at # t
    <3>1. r.at < t /\ t \in Nat
      BY <2>1, WritePathAssumption DEF IsNow, StampsInUse
    <3> QED
      BY <3>1
  <2>2. ASSUME NEW t \in Stamps, t \notin StampsInUse, NEW r \in Observed PROVE r.at # t
    BY <2>2 DEF StampsInUse
  <2> QED
    BY <2>1, <2>2
<1>2. ASSUME NEW p \in Pollers, Normalize(p)
      PROVE  \E batch \in SUBSET Row, t \in Stamps :
               /\ OnePerKey(batch) /\ \A r \in batch : r.at = t
               /\ \A r \in Observed : r.at # t
               /\ table' = table /\ frames' = frames
               /\ \A w \in Writers : snapshots'[w] \in {snapshots[w], batch}
  <2>1. PICK t \in Stamps :
          /\ IsNow(t)
          /\ snapshots' = [snapshots EXCEPT ![p] = Batch(Keys, fetched[p], t, FALSE)]
    BY <1>2 DEF Normalize
  <2> DEFINE batch == Batch(Keys, fetched[p], t, FALSE)
  <2>2. fetched[p] \in [Keys -> Prices]
    BY <1>2 DEF Normalize
  <2>3. batch \in SUBSET Row /\ OnePerKey(batch) /\ \A r \in batch : r.at = t
    BY <2>2, BatchType
  <2>4. snapshots' = [snapshots EXCEPT ![p] = batch]
    BY <2>1
  <2> HIDE DEF batch
  <2>5. table' = table /\ frames' = frames
    BY <1>2 DEF Normalize
  <2>6. \A w \in Writers : snapshots'[w] \in {snapshots[w], batch}
    BY <2>4
  <2> QED
    BY <1>1, <2>1, <2>3, <2>5, <2>6
<1>3. ASSUME NEW s \in Streamers, NEW K \in SUBSET Keys, ReceiveFrame(s, K)
      PROVE  \E batch \in SUBSET Row, t \in Stamps :
               /\ OnePerKey(batch) /\ \A r \in batch : r.at = t
               /\ \A r \in Observed : r.at # t
               /\ table' = table
               /\ \A w \in Writers : snapshots'[w] \in {snapshots[w], batch}
               /\ \A u \in Streamers : frames'[u] \subseteq frames[u] \cup {batch}
  <2>1. PICK t \in Stamps \ StampsInUse :
          LET frame == Batch(K, market, t, TRUE)
          IN Submit(s, frame) /\ frames' = [frames EXCEPT ![s] = @ \cup {frame}]
    BY <1>3 DEF ReceiveFrame
  <2> DEFINE frame == Batch(K, market, t, TRUE)
  <2>2. frame \in SUBSET Row /\ OnePerKey(frame) /\ \A r \in frame : r.at = t
    BY BatchType
  <2>3. Submit(s, frame) /\ frames' = [frames EXCEPT ![s] = @ \cup {frame}]
    BY <2>1
  <2> HIDE DEF frame
  <2>4. /\ table' = table
        /\ \A w \in Writers : snapshots'[w] \in {snapshots[w], frame}
        /\ \A u \in Streamers : frames'[u] \subseteq frames[u] \cup {frame}
    BY <2>3 DEF Submit
  <2>5. \A r \in Observed : r.at # t
    BY <1>1
  <2> QED
    BY <2>2, <2>4, <2>5
<1> QED
  BY <1>2, <1>3

\* No two observations of a line share an instant, whatever step is taken.
LEMMA ObservedUnique ==
  ASSUME TypeInv, ObservedInv, [Next]_vars
  PROVE  /\ SlotsUnique(Observed)'
         /\ \A p \in Writers : OnePerKey(snapshots'[p])
         /\ \A s \in Streamers : \A f \in frames'[s] : OnePerKey(f)
<1>1. table' \subseteq Observed
  BY TableSteps, InsertedRows, ChangedSubset DEF Observed
<1>0. ASSUME NEW r \in Observed'
      PROVE  \/ r \in table' \/ \E p \in Writers : r \in snapshots'[p]
             \/ \E s \in Streamers : \E f \in frames'[s] : r \in f
  BY <1>0 DEF Observed
<1>2. CASE \/ \E p \in Pollers : Normalize(p)
           \/ \E s \in Streamers, K \in SUBSET Keys : ReceiveFrame(s, K)
  <2>1. PICK batch \in SUBSET Row, t \in Stamps :
           /\ OnePerKey(batch) /\ \A r \in batch : r.at = t
           /\ \A r \in Observed : r.at # t
           /\ table' = table
           /\ \A p \in Writers : snapshots'[p] \in {snapshots[p], batch}
           /\ \A s \in Streamers : frames'[s] \subseteq frames[s] \cup {batch}
    BY <1>2, NewObservation
  <2>2. ASSUME NEW r \in Observed' PROVE r \in Observed \cup batch
    BY <1>0, <2>1, <2>2, InObserved
  <2>3. \A r \in Observed, q \in batch : ~ SameSlot(r, q) /\ ~ SameSlot(q, r)
    BY <2>1 DEF SameSlot
  <2>4. SlotsUnique(Observed \cup batch)
    BY <2>1, <2>3 DEF ObservedInv, SlotsUnique, OnePerKey, SameSlot
  <2> QED
    BY <2>1, <2>2, <2>4 DEF ObservedInv, SlotsUnique
<1>3. CASE ~ \/ \E p \in Pollers : Normalize(p)
             \/ \E s \in Streamers, K \in SUBSET Keys : ReceiveFrame(s, K)
  <2>1. /\ frames' = frames
        /\ \A p \in Writers : \/ snapshots'[p] \in {snapshots[p], {}}
                              \/ \E s \in Streamers : snapshots'[p] \in frames[s]
    BY <1>3, MovedAround
  <2>2. ASSUME NEW r \in Observed' PROVE r \in Observed
    <3>1. ASSUME NEW p \in Writers, r \in snapshots'[p] PROVE r \in Observed
      BY <2>1, <3>1, InObserved
    <3> QED
      BY <1>0, <1>1, <2>1, <2>2, <3>1, InObserved
  <2>3. \A p \in Writers : OnePerKey(snapshots'[p])
    BY <2>1 DEF ObservedInv, OnePerKey
  <2> QED
    BY <2>1, <2>2, <2>3 DEF ObservedInv, SlotsUnique
<1> QED
  BY <1>2, <1>3

\* A writer that stores its batch leaves every line it was given at its value, or at
\* one with a later captured_at.
LEMMA InsertLosesNothing ==
  ASSUME TypeInv, MutexInv, ObservedInv, NEW p \in Writers, pc[p] = "insert",
         NEW new \in InsertOutcomes(table, Changed(p)), NEW s \in snapshots[p]
  PROVE  \E r \in Current(table \cup new) : r.key = s.key /\ (r.val = s.val \/ r.at > s.at)
<1>1. new \in SUBSET Changed(p) /\ new \in SUBSET snapshots[p]
  BY InsertedRows, ChangedSubset
<1>2. \A r \in table \cup new : r \in Observed /\ r \in Row /\ r.at \in Nat
  <2>1. \A r \in table \cup new : r \in Observed /\ r \in Row
    BY <1>1, InsertedRows DEF Observed, TypeInv, TypeOK
  <2> QED
    BY <2>1, WritePathAssumption DEF Row
<1>3. s \in Observed /\ s \in Row /\ s.at \in Nat
  BY InObserved, ObservedType
<1>4. CASE s \in Changed(p)
  <2>1. PICK q \in table \cup new : SameSlot(s, q)
    BY <1>4 DEF InsertOutcomes
  <2>2. q = s
    BY <1>2, <1>3, <2>1 DEF ObservedInv, SlotsUnique
  <2>3. IsFiniteSet(table \cup new)
    BY <1>1, FS_Subset, FS_Union DEF TypeInv, BatchesFinite, ObservedInv
  <2>4. PICK c \in Current(table \cup new) : c.key = s.key /\ s.at <= c.at
    BY <1>2, <2>1, <2>2, <2>3, StampsFinite, CurrentExists
  <2>5. c \in table \cup new
    BY <2>4 DEF Current
  <2>6. c.at = s.at => c = s
    BY <1>2, <1>3, <2>4, <2>5 DEF ObservedInv, SlotsUnique, SameSlot
  <2> QED
    BY <1>2, <1>3, <2>4, <2>5, <2>6
<1>5. CASE s \notin Changed(p)
  <2>1. PICK prev \in latest[p] : prev.key = s.key /\ prev.val = s.val
    BY <1>5 DEF Changed, FilterChanged
  <2>2. prev \in Current(table)
    BY <2>1 DEF MutexInv, DedupReadHolds, GetLatestLineValues
  <2>3. \A r \in new : r.key # s.key
    BY <1>1, <1>5 DEF ObservedInv, OnePerKey
  <2>4. prev \in Current(table \cup new)
    BY <2>1, <2>2, <2>3 DEF Current
  <2> QED
    BY <2>1, <2>4
<1> QED
  BY <1>4, <1>5

LEMMA ObservedStep == TypeInv /\ MutexInv /\ ObservedInv /\ [Next]_vars => ObservedInv'
<1> SUFFICES ASSUME TypeInv, MutexInv, ObservedInv, [Next]_vars PROVE ObservedInv'
  OBVIOUS
<1>1. IsFiniteSet(table')
  <2>1. CASE table' = table
    BY <2>1 DEF ObservedInv
  <2>2. CASE table' # table
    <3>1. PICK p \in Writers :
            \E new \in InsertOutcomes(table, Changed(p)) : table' = table \cup new
      BY <2>2, TableSteps
    <3>2. PICK new \in InsertOutcomes(table, Changed(p)) : table' = table \cup new
      BY <3>1
    <3>3. IsFiniteSet(new)
      BY InsertedRows, ChangedSubset, FS_Subset DEF TypeInv, BatchesFinite
    <3> QED
      BY <3>2, <3>3, FS_Union DEF ObservedInv
  <2> QED
    BY <2>1, <2>2
<1>2. ObservedNotLost'
  <2> SUFFICES ASSUME NEW p \in Writers, pc'[p] \in {"invalidate", "publish"},
                      NEW s \in snapshots'[p]
               PROVE  \E r \in Current(table') :
                        r.key = s.key /\ (r.val = s.val \/ r.at > s.at)
    BY DEF ObservedNotLost, Current
  <2>1. CASE Insert(p)
    <3>1. PICK new \in InsertOutcomes(table, Changed(p)) : Commit(new)
      BY <2>1 DEF Insert
    <3>2. pc[p] = "insert" /\ snapshots' = snapshots /\ table' = table \cup new
      BY <2>1, <3>1 DEF Insert, Commit
    <3> QED
      BY <3>2, InsertLosesNothing
  <2>2. CASE ~ Insert(p)
    <3>1. /\ pc[p] \in {"insert", "invalidate", "publish"}
          /\ snapshots'[p] = snapshots[p]
      <4>1. CASE \/ \E w \in Pollers : GetOdds(w) \/ Normalize(w) \/ NormalizeFails(w)
                 \/ \E w \in Streamers : \E frame : Submit(w, frame)
        BY <4>1, ObservingElsewhere
      <4>2. CASE ~ \/ \E w \in Pollers : GetOdds(w) \/ Normalize(w) \/ NormalizeFails(w)
                   \/ \E w \in Streamers : \E frame : Submit(w, frame)
        BY <4>2, StepKinds DEF OtherStep, vars, MoveMarket, Abandon, Lock, WriterStep,
           ReadUnchanged, ReadChanged, ReadFails, Insert, InsertFails,
           InsertAnswerLost, Invalidate, InvalidateFails, NextGame, Publish,
           PublishFails, ReaderStep, Load, Fill, ReaderFails, Answered, Lookup,
           Expire, Restart, Unlocked, TypeInv, TypeOK, market_vars, source_vars,
           writer_vars, reader_vars, history_vars
      <4> QED
        BY <4>1, <4>2
    <3>2. ASSUME pc[p] = "insert" PROVE FALSE
      <4>1. PICK w \in Writers : Abandon(w) \/ Lock(w) \/ WriterStep(w)
        BY <3>2, StepKinds DEF OtherStep, vars, MoveMarket, GetOdds, Normalize,
           NormalizeFails, Submit, ReaderStep, Load, Fill, ReaderFails, Answered,
           Lookup, Expire, Restart, Writers, TypeInv, TypeOK, market_vars,
           source_vars, writer_vars
      <4>2. w = p
        BY <3>2, <4>1 DEF Abandon, Lock, WriterStep, ReadUnchanged, ReadChanged,
           ReadFails, Insert, InsertFails, InsertAnswerLost, Invalidate,
           InvalidateFails, NextGame, Publish, PublishFails, Unlocked, TypeInv, TypeOK
      <4>3. InsertFails(p) \/ InsertAnswerLost(p)
        BY <2>2, <3>2, <4>1, <4>2 DEF Abandon, Lock, WriterStep, ReadUnchanged,
           ReadChanged, ReadFails, Invalidate, InvalidateFails, Publish, PublishFails
      <4> QED
        BY <4>3 DEF InsertFails, InsertAnswerLost, Unlocked, TypeInv, TypeOK
    <3>3. table' = table
      BY <3>1, <3>2, TableSteps DEF MutexInv, MutexHeld, InPersist
    <3> QED
      BY <3>1, <3>2, <3>3 DEF ObservedInv, ObservedNotLost
  <2> QED
    BY <2>1, <2>2
<1>3. /\ SlotsUnique(Observed)'
      /\ \A p \in Writers : OnePerKey(snapshots'[p])
      /\ \A s \in Streamers : \A f \in frames'[s] : OnePerKey(f)
  BY ObservedUnique
<1> QED
  BY <1>1, <1>2, <1>3 DEF ObservedInv, OnePerKey

\* While a writer tells the world, every line it was given has the value it was given
\* or one with a later captured_at, whatever the order in which batches came in.
THEOREM ObservedNotLostCorrect == Spec => []ObservedNotLost
<1>1. TypeInv /\ MutexInv /\ ObservedInv /\ [Next]_vars => ObservedInv'
  BY ObservedStep
<1>2. ObservedInv => ObservedNotLost
  BY DEF ObservedInv
<1> QED
  BY <1>1, <1>2, ObservedInit, Invariants, PTL DEF Spec

---------------------------------------------------------------------------
(* The write path implements LineBook *)

\* Where a writer has stored its batch and not yet announced it.
Telling == {"invalidate", "publish"}

\* Nothing is owed while nobody is telling.
LEMMA OwedNothing ==
  ASSUME \A w \in Writers : pc[w] \notin Telling
  PROVE  Owed = {}
BY DEF Owed, Telling

\* The one writer that is telling owes the games of what it found changed.
LEMMA OwedByHolder ==
  ASSUME MutexInv, NEW p \in Writers, pc[p] \in Telling
  PROVE  Owed = GamesOf(Changed(p))
<1>1. \A w \in Writers : pc[w] \in Telling => w = p
  BY DEF MutexInv, MutexHeld, InPersist, Telling
<1> QED
  BY <1>1 DEF Owed, Telling

\* What is owed stays while the writers that are telling do, and keep their batch.
LEMMA OwedKept ==
  ASSUME \A w \in Writers : pc'[w] \in Telling <=> pc[w] \in Telling,
         \A w \in Writers : pc[w] \in Telling =>
           snapshots'[w] = snapshots[w] /\ latest'[w] = latest[w]
  PROVE  Owed' = Owed
<1> DEFINE T == {w \in Writers : pc[w] \in Telling}
<1>1. T' = T
  OBVIOUS
<1>2. \A w \in T : GamesOf(Changed(w))' = GamesOf(Changed(w))
  BY DEF GamesOf, Changed
<1>3. Owed = UNION {GamesOf(Changed(w)) : w \in T}
  BY DEF Owed, Telling
<1>4. Owed' = UNION {GamesOf(Changed(w))' : w \in T'}
  BY DEF Owed, Telling
<1> HIDE DEF T
<1> QED
  BY <1>1, <1>2, <1>3, <1>4

\* A writer past its dedup read has something to tell.
TellsSomething ==
  \A p \in Writers : pc[p] \in Telling \cup {"insert"} => Changed(p) # {}

LEMMA TellsStep == TypeInv /\ TellsSomething /\ [Next]_vars => TellsSomething'
<1> SUFFICES ASSUME TypeInv, TellsSomething, [Next]_vars,
                    NEW p \in Writers, pc'[p] \in Telling \cup {"insert"}
             PROVE  Changed(p)' # {}
  BY DEF TellsSomething
<1> USE DEF TypeInv, TypeOK, market_vars, source_vars, writer_vars, reader_vars,
            history_vars, Telling
<1>1. CASE ReadChanged(p)
  BY <1>1 DEF ReadChanged, Changed
<1>2. CASE ~ ReadChanged(p)
  <2>1. /\ pc[p] \in Telling \cup {"insert"}
        /\ snapshots'[p] = snapshots[p] /\ latest'[p] = latest[p]
    <3>1. CASE \/ \E w \in Pollers : GetOdds(w) \/ Normalize(w) \/ NormalizeFails(w)
               \/ \E s \in Streamers : \E frame : Submit(s, frame)
      BY <3>1, ObservingElsewhere
    <3>2. CASE ~ \/ \E w \in Pollers : GetOdds(w) \/ Normalize(w) \/ NormalizeFails(w)
                 \/ \E s \in Streamers : \E frame : Submit(s, frame)
      BY <1>2, <3>2, StepKinds DEF OtherStep, vars, MoveMarket, Abandon, Lock,
         WriterStep, ReadUnchanged, ReadChanged, ReadFails, Insert, InsertFails,
         InsertAnswerLost, Invalidate, InvalidateFails, NextGame, Publish,
         PublishFails, ReaderStep, Load, Fill, ReaderFails, Answered, Lookup,
         Expire, Restart, Unlocked
    <3> QED
      BY <3>1, <3>2
  <2>2. Changed(p)' = Changed(p)
    BY <2>1 DEF Changed
  <2> QED
    BY <2>1, <2>2 DEF TellsSomething
<1> QED
  BY <1>1, <1>2

LEMMA BookInit == Init => LB!Init
BY DEF Init, LB!Init, Owed

\* A committed batch is news to the book.
LEMMA BookGrows ==
  ASSUME TypeInv, MutexInv, SlotsUnique(table), NEW p \in Writers, pc[p] = "insert",
         NEW new \in InsertOutcomes(table, Changed(p)), Commit(new)
  PROVE  /\ table \subseteq table' /\ LB!IsNews(table' \ table)
         /\ unannounced' = unannounced \cup LB!GamesOfRows(table' \ table)
         /\ LB!GamesOfRows(table' \ table) \subseteq GamesOf(Changed(p))
<1>1. table' = table \cup new /\ table' \ table = new
  BY DEF Commit, InsertOutcomes, SameSlot
<1>2. \A r \in new : \A q \in Current(table) : q.key = r.key => q.val # r.val
  BY InsertedRowsDiffer
<1>3. SlotsUnique(table \cup new)
  BY DEF SlotsUnique, SameSlot, InsertOutcomes
<1>4. LB!IsNews(new)
  BY <1>2, <1>3 DEF LB!IsNews, LB!Current, Current, LB!SlotsUnique, SlotsUnique,
     LB!SameSlot, SameSlot
<1>5. LB!GamesOfRows(new) = GamesOf(new)
  BY DEF LB!GamesOfRows, GamesOf
<1>6. GamesOf(new) \subseteq GamesOf(Changed(p))
  BY InsertedRows
<1> QED
  BY <1>1, <1>4, <1>5, <1>6 DEF Commit

\* Every step of the write path is a step of the book, or none of its business.
LEMMA BookStep ==
  ASSUME TypeInv, MutexInv, TellsSomething, SlotsUnique(table), [Next]_vars
  PROVE  [LB!Next]_(LB!book_vars)
<1> USE DEF market_vars, source_vars, writer_vars, reader_vars, history_vars
<1>0. TypeOK
  BY DEF TypeInv
<1>1. ASSUME NEW p \in Writers, Insert(p) PROVE LB!Record
  <2>1. PICK new \in InsertOutcomes(table, Changed(p)) : Commit(new)
    BY <1>1 DEF Insert
  <2>2. /\ table \subseteq table' /\ LB!IsNews(table' \ table)
        /\ unannounced' = unannounced \cup LB!GamesOfRows(table' \ table)
        /\ LB!GamesOfRows(table' \ table) \subseteq GamesOf(Changed(p))
    BY <1>1, <2>1, BookGrows DEF Insert
  <2>3. \A w \in Writers : pc[w] \notin Telling
    BY <1>1 DEF Insert, MutexInv, MutexHeld, InPersist, Telling
  <2>4. Owed = {}
    BY <2>3, OwedNothing
  <2>5. Owed' = GamesOf(Changed(p))
    <3>1. {w \in Writers : pc'[w] \in {"invalidate", "publish"}} = {p}
      BY <1>0, <1>1, <2>3 DEF Insert, TypeOK, Telling
    <3>2. GamesOf(Changed(p))' = GamesOf(Changed(p))
      BY <1>1 DEF Insert, GamesOf, Changed
    <3> QED
      BY <3>1, <3>2 DEF Owed
  <2>6. GamesOf(Changed(p)) \in SUBSET Games
    BY ChangedSubset
  <2>7. event' = event
    BY <1>1 DEF Insert
  <2> QED
    BY <2>2, <2>4, <2>5, <2>6, <2>7 DEF LB!Record
<1>2. ASSUME NEW p \in Writers, InsertAnswerLost(p) PROVE LB!RecordUnknowingly
  <2>1. PICK new \in InsertOutcomes(table, Changed(p)) : Commit(new)
    BY <1>2 DEF InsertAnswerLost
  <2>2. /\ table \subseteq table' /\ LB!IsNews(table' \ table)
        /\ unannounced' = unannounced \cup LB!GamesOfRows(table' \ table)
    BY <1>2, <2>1, BookGrows DEF InsertAnswerLost
  <2>3. \A w \in Writers : pc[w] \notin Telling
    BY <1>2 DEF InsertAnswerLost, MutexInv, MutexHeld, InPersist, Telling
  <2>4. \A w \in Writers : pc'[w] \notin Telling
    BY <1>0, <1>2, <2>3 DEF InsertAnswerLost, Unlocked, TypeOK, Telling
  <2>5. Owed = {} /\ Owed' = {}
    BY <2>3, <2>4, OwedNothing DEF Owed, Telling
  <2>6. event' = event
    BY <1>2 DEF InsertAnswerLost
  <2> QED
    BY <2>2, <2>5, <2>6 DEF LB!RecordUnknowingly
<1>3. ASSUME NEW p \in Writers, pc[p] = "publish", Unlocked(p)
      PROVE  Owed = GamesOf(Changed(p)) /\ Owed # {} /\ Owed' = {}
  <2>1. Owed = GamesOf(Changed(p))
    BY <1>3, OwedByHolder DEF Telling
  <2>2. Changed(p) # {}
    BY <1>3 DEF TellsSomething, Telling
  <2>3. \A w \in Writers : pc'[w] \notin Telling
    BY <1>0, <1>3 DEF Unlocked, TypeOK, MutexInv, MutexHeld, InPersist, Telling
  <2>4. GamesOf(Changed(p)) # {}
    BY <2>2 DEF GamesOf
  <2>5. Owed' = {}
    BY <2>3 DEF Owed, Telling
  <2> QED
    BY <2>1, <2>4, <2>5
<1>4. ASSUME NEW p \in Writers, Publish(p) PROVE LB!Announce
  <2>1. event' = [games |-> GamesOf(Changed(p)), count |-> inserted[p]]
    BY <1>4 DEF Publish
  <2>2. event' \in Event
    BY <1>0, <2>1, ChangedSubset DEF Event, TypeOK
  <2>3. event' # NoEvent /\ event'.games = GamesOf(Changed(p))
    BY <2>1, <2>2, WritePathAssumption
  <2> QED
    BY <1>3, <1>4, <2>3 DEF Publish, LB!Announce
<1>5. ASSUME NEW p \in Writers, PublishFails(p) PROVE LB!Forget
  BY <1>3, <1>5 DEF PublishFails, LB!Forget
<1>6. ASSUME Restart PROVE LB!Forget \/ UNCHANGED LB!book_vars
  <2>1. Owed' = {}
    BY <1>0, <1>6 DEF Restart, Owed
  <2> QED
    BY <1>6, <2>1 DEF Restart, LB!Forget, LB!book_vars
<1>7. ASSUME ~ \E p \in Writers : \/ Insert(p) \/ InsertAnswerLost(p)
                                  \/ Publish(p) \/ PublishFails(p),
             ~ Restart
      PROVE  UNCHANGED LB!book_vars
  <2> DEFINE Kept ==
        /\ \A w \in Writers : pc'[w] \in Telling <=> pc[w] \in Telling
        /\ \A w \in Writers : pc[w] \in Telling =>
             snapshots'[w] = snapshots[w] /\ latest'[w] = latest[w]
  <2>1. Kept
    <3>1. ASSUME NEW p \in Pollers, GetOdds(p) \/ Normalize(p) \/ NormalizeFails(p)
          PROVE  Kept
      BY <1>0, <3>1 DEF GetOdds, Normalize, NormalizeFails, Writers, Telling, TypeOK
    <3>2. ASSUME NEW s \in Streamers, NEW frame, Submit(s, frame) PROVE Kept
      BY <1>0, <3>2 DEF Submit, Writers, Telling, TypeOK
    <3>3. ASSUME NEW p \in Writers, Abandon(p) \/ Lock(p) \/ ReadChanged(p) PROVE Kept
      BY <1>0, <3>3 DEF Abandon, Lock, ReadChanged, Telling, TypeOK
    <3>4. ASSUME NEW p \in Writers, ReadUnchanged(p) \/ ReadFails(p) \/ InsertFails(p)
          PROVE  Kept
      BY <1>0, <3>4 DEF ReadUnchanged, ReadFails, InsertFails, Unlocked, Telling, TypeOK
    <3>5. ASSUME NEW p \in Writers, NEW g \in Games, Invalidate(p, g) \/ InvalidateFails(p, g)
          PROVE  Kept
      BY <1>0, <3>5 DEF Invalidate, InvalidateFails, NextGame, Telling, TypeOK
    <3>6. ASSUME UNCHANGED <<pc, snapshots, latest>> PROVE Kept
      BY <3>6
    <3>7. \/ \E p \in Pollers : GetOdds(p) \/ Normalize(p) \/ NormalizeFails(p)
          \/ \E s \in Streamers : \E frame : Submit(s, frame)
          \/ \E p \in Writers :
               \/ Abandon(p) \/ Lock(p) \/ ReadChanged(p)
               \/ ReadUnchanged(p) \/ ReadFails(p) \/ InsertFails(p)
               \/ \E g \in Games : Invalidate(p, g) \/ InvalidateFails(p, g)
          \/ UNCHANGED <<pc, snapshots, latest>>
      BY <1>7, StepKinds DEF OtherStep, vars, MoveMarket, WriterStep, ReaderStep, Load,
         Fill, ReaderFails, Answered, Lookup, Expire, writer_vars
    <3> HIDE DEF Kept
    <3> QED
      BY <3>1, <3>2, <3>3, <3>4, <3>5, <3>6, <3>7
  <2>2. Owed' = Owed
    BY <2>1, OwedKept
  <2>3. UNCHANGED <<table, event, unannounced>>
    BY <1>7, StepKinds DEF OtherStep, vars, MoveMarket, GetOdds, Normalize,
       NormalizeFails, Submit, Abandon, Lock, WriterStep, ReadUnchanged, ReadChanged,
       ReadFails, InsertFails, Invalidate, InvalidateFails, NextGame, ReaderStep,
       Load, Fill, ReaderFails, Answered, Lookup, Expire, Unlocked
  <2> QED
    BY <2>2, <2>3 DEF LB!book_vars
<1> QED
  BY <1>1, <1>2, <1>4, <1>5, <1>6, <1>7 DEF LB!Next

\* The write path implements LineBook: what it does for every number of pollers,
\* streams and faults is record changes one batch at a time, and announce each
\* batch in full or not at all.
THEOREM WritePathImplementsLineBook == Spec => ImplementsLineBook
<1> DEFINE Inv == TypeInv /\ MutexInv /\ TellsSomething /\ SlotsUnique(table)
<1>1. Init => LB!Init
  BY BookInit
<1>2. Init => TellsSomething /\ SlotsUnique(table)
  BY DEF Init, TellsSomething, Telling, SlotsUnique
<1>3. Inv /\ [Next]_vars => TellsSomething' /\ SlotsUnique(table)'
  BY TellsStep, SlotsStep DEF SlotsUnique, SameSlot
<1>4. Inv /\ [Next]_vars => [LB!Next]_(LB!book_vars)
  BY BookStep
<1> QED
  BY <1>1, <1>2, <1>3, <1>4, Invariants, PTL DEF Spec, ImplementsLineBook, LB!Spec
==========================================================================
