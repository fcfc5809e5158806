------------------------ MODULE ClosingSweep_proofs ------------------------
(***************************************************************************)
(* Theorems about the closing sweep for any number of games, lines and     *)
(* ingesters, any horizon and any number of faults.                        *)
(***************************************************************************)
EXTENDS ClosingSweep, LineStore_proofs

\* Every line of a game has been closed at least once.
Closed(g) == \A k \in Keys : GameOf[k] = g => closedAt[k] # Unknown

\* A game in hand between capture and mark has been captured; otherwise none is in
\* hand.  A marked game has been captured.  The scheduler does not ingest and sweep
\* at once.
TypeInv ==
  /\ TypeOK
  /\ IF spc = "mark" THEN doing \in due /\ Closed(doing.game) ELSE doing = NoGame
  /\ \A g \in Games : captured[g] => Closed(g)
  /\ ipc[Scheduler] # "idle" => spc = "off"

LEMMA NoAnswerType == NoAnswer \in Answer
<1> DEFINE none == [g \in {} |-> Unknown]
<1>1. none \in [{} -> Starts]
  OBVIOUS
<1>2. none \in UNION {[about -> Starts] : about \in SUBSET Games}
  BY <1>1
<1>3. 0 \in 0..Horizon
  BY ClosingAssumption
<1>4. NoAnswer = [at |-> 0, start |-> none]
  BY DEF NoAnswer
<1> HIDE DEF none
<1> QED
  BY <1>2, <1>3, <1>4 DEF Answer

LEMMA TypeInit == Init => TypeInv
<1> SUFFICES ASSUME Init PROVE TypeInv
  OBVIOUS
<1>1. NoAnswer \in Answer
  BY NoAnswerType
<1> QED
  BY <1>1, ClosingAssumption DEF Init, TypeInv, TypeOK, NoGame, Closed

\* The clock stays within the horizon.
LEMMA AdvanceType == TypeOK /\ Advance => clock' \in 0..Horizon
BY ClosingAssumption DEF TypeOK, Advance

\* An answer about some games, stamped with the clock, is one.
LEMMA AnswerType ==
  ASSUME TypeOK, NEW about \in SUBSET Games
  PROVE  [at |-> clock, start |-> [g \in about |-> start[g]]] \in Answer
<1>1. [g \in about |-> start[g]] \in [about -> Starts]
  BY DEF TypeOK
<1>2. [g \in about |-> start[g]] \in UNION {[a -> Starts] : a \in SUBSET Games}
  BY <1>1
<1> QED
  BY <1>2 DEF TypeOK, Answer

\* What an answer says of a game it is about is a start.
LEMMA AnswerStarts ==
  ASSUME NEW a \in Answer
  PROVE  /\ a.at \in 0..Horizon
         /\ DOMAIN a.start \in SUBSET Games
         /\ \A g \in DOMAIN a.start : a.start[g] \in Starts
<1>1. PICK about \in SUBSET Games : a.start \in [about -> Starts]
  BY DEF Answer
<1> QED
  BY <1>1 DEF Answer

\* A due game has a start.
LEMMA DueType ==
  ASSUME TypeOK, NEW d \in due
  PROVE  /\ d.game \in Games /\ d.commence \in Starts
         /\ d.commence \in Nat /\ d.commence # Unknown
<1>1. d \in Due
  BY DEF TypeOK
<1>2. d.game \in Games /\ d.commence \in Starts
  BY <1>1 DEF Due
<1>3. \A t \in Starts : t \in Nat
  BY ClosingAssumption
<1> QED
  BY <1>2, <1>3, ClosingAssumption

LEMMA TypeStep == TypeInv /\ [Next]_vars => TypeInv'
<1> SUFFICES ASSUME TypeInv, [Next]_vars PROVE TypeInv'
  OBVIOUS
<1> USE ClosingAssumption
    DEF TypeInv, TypeOK, Closed, world_vars, sweep_vars, closing_vars, Fault, Ingesters
<1>1. CASE Tick
  BY <1>1, AdvanceType DEF Tick
<1>2. ASSUME NEW g \in Games, Reschedule(g) PROVE TypeInv'
  BY <1>2 DEF Reschedule
<1>3. ASSUME NEW i \in Ingesters, NEW about \in SUBSET Games, Fetch(i, about)
      PROVE TypeInv'
  BY <1>3, AdvanceType, AnswerType DEF Fetch
<1>4. ASSUME NEW i \in Ingesters, UpsertGames(i) PROVE TypeInv'
  <2>1. commence' \in [Games -> Starts \cup {Unknown}]
    BY <1>4, AnswerStarts DEF UpsertGames
  <2> QED
    BY <1>4, <2>1 DEF UpsertGames
<1>5. ASSUME NEW i \in Ingesters, Store(i) PROVE TypeInv'
  <2>1. PICK kept \in SUBSET Keys :
          LET rows == {[key |-> k, at |-> fetched[i].at] : k \in kept}
          IN table' = table \cup rows /\ late' = late \cup (rows \ table)
    BY <1>5 DEF Store
  <2> DEFINE rows == {[key |-> k, at |-> fetched[i].at] : k \in kept}
  <2>2. rows \in SUBSET Slot
    BY AnswerStarts DEF Slot
  <2>3. table' \in SUBSET Slot /\ late' \in SUBSET table'
    BY <2>1, <2>2
  <2> QED
    BY <1>5, <2>3, NoAnswerType DEF Store, Ingested
<1>6. ASSUME NEW i \in Ingesters, IngestFails(i) PROVE TypeInv'
  BY <1>6, NoAnswerType DEF IngestFails, Ingested
<1>7. CASE QueryDue
  <2>1. due' \in SUBSET Due
    BY <1>7 DEF QueryDue, IsDue, Due
  <2>2. doing' \in due' \cup {NoGame} /\ spc' # "mark"
    BY <1>7 DEF QueryDue
  <2> QED
    BY <1>7, <2>1, <2>2 DEF QueryDue
<1>15. CASE BeginSweep
  BY <1>15, AdvanceType DEF BeginSweep
<1>8. CASE QueryFails
  BY <1>8 DEF QueryFails
<1>9. ASSUME NEW d \in due, Capture(d) PROVE TypeInv'
  <2>1. ClosingRows(d) \in SUBSET Slot
    BY DEF ClosingRows, CurrentAsOf, Current, RowsOf
  <2>2. d.game \in Games /\ d.commence \in Starts /\ d.commence # Unknown
    BY DueType
  <2>3. closing' \in SUBSET Slot /\ late' \in SUBSET table'
    BY <1>9, <2>1 DEF Capture, Close
  <2>4. closedAt' \in [Keys -> Starts \cup {Unknown}]
    BY <1>9, <2>2 DEF Capture, Close
  <2>5. \A k \in Keys : closedAt[k] # Unknown => closedAt'[k] # Unknown
    BY <1>9, <2>2 DEF Capture, Close
  <2>6. \A k \in Reached(d) : k \in Keys /\ closedAt'[k] # Unknown
    BY <1>9, <2>2 DEF Capture, Close, Reached
  <2>7. \A c \in closing' : closedAt'[c.key] # Unknown
    <3>1. \A r \in ClosingRows(d) : r.key \in Reached(d)
      BY <2>1 DEF Reached, ClosingRows, CurrentAsOf, Current, RowsOf, Slot
    <3>2. \A c \in closing : c.key \in Keys /\ closedAt[c.key] # Unknown
      BY DEF Slot
    <3> QED
      BY <1>9, <2>5, <2>6, <3>1, <3>2 DEF Capture
  <2>8. Closed(d.game)'
    <3> SUFFICES ASSUME NEW k \in Keys, GameOf[k] = d.game, k \notin Reached(d)
                 PROVE  closedAt'[k] # Unknown
      BY <2>6 DEF Closed
    <3>1. \E c \in closing : c.key = k
      BY DEF Reached
    <3> QED
      BY <2>5, <3>1
  <2>9. \A g \in Games : captured'[g] => Closed(g)'
    BY <1>9, <2>5 DEF Capture
  <2>10. doing' = d /\ due' = due /\ spc' = "mark"
    BY <1>9 DEF Capture
  <2> QED
    BY <1>9, <2>3, <2>4, <2>7, <2>8, <2>9, <2>10 DEF Capture
<1>10. ASSUME NEW d \in due, CaptureFails(d) PROVE TypeInv'
  BY <1>10 DEF CaptureFails, NextDue
<1>11. ASSUME NEW d \in due, Mark(d) PROVE TypeInv'
  <2>1. d = doing /\ Closed(d.game) /\ d.game \in Games
    BY <1>11, DueType DEF Mark
  <2>2. \A g \in Games : captured'[g] => Closed(g)
    BY <1>11, <2>1 DEF Mark
  <2> QED
    BY <1>11, <2>2 DEF Mark, NextDue
<1>12. ASSUME NEW d \in due, MarkFails(d) PROVE TypeInv'
  BY <1>12 DEF MarkFails, NextDue
<1>13. CASE Restart
  BY <1>13, NoAnswerType DEF Restart
<1>14. CASE UNCHANGED vars
  BY <1>14 DEF vars
<1> QED
  BY <1>1, <1>2, <1>3, <1>4, <1>5, <1>6, <1>7, <1>8, <1>9, <1>10, <1>11, <1>12,
     <1>13, <1>14, <1>15 DEF Next, SweepStep, IngestStep, Ingesters

LEMMA TypeInvariant == Spec => []TypeInv
BY TypeInit, TypeStep, PTL DEF Spec

\* Every variable of the sweep keeps its type; a marked game has been captured.
THEOREM TypeCorrect == Spec => []TypeOK
BY TypeInvariant, PTL DEF TypeInv

---------------------------------------------------------------------------
(* Closing rows *)

\* Only a capture changes closing rows.
LEMMA ClosingSteps ==
  ASSUME [Next]_vars, closing' # closing
  PROVE  \E d \in due : Capture(d)
BY DEF Next, vars, world_vars, sweep_vars, closing_vars, IngestStep, SweepStep, Tick,
       Reschedule, Fetch, UpsertGames, Store, Ingested, IngestFails, BeginSweep, QueryDue,
       QueryFails, CaptureFails, NextDue, Mark, MarkFails, Restart

\* What a capture stores are snapshots of its game, one for each line.
LEMMA ClosingRowsOfGame ==
  ASSUME TypeOK, NEW d \in due
  PROVE  /\ ClosingRows(d) \subseteq RowsOf(table, d.game)
         /\ \A r, q \in ClosingRows(d) : r.key = q.key => r = q
<1>1. ClosingRows(d) \subseteq RowsOf(table, d.game)
  BY DEF ClosingRows, CurrentAsOf, Current
<1>2. ASSUME NEW r \in ClosingRows(d), NEW q \in ClosingRows(d), r.key = q.key
      PROVE  r = q
  <2>1. r \in Slot /\ q \in Slot
    BY <1>1 DEF RowsOf, TypeOK
  <2>2. r.at <= q.at /\ q.at <= r.at
    BY <1>2 DEF ClosingRows, CurrentAsOf, Current
  <2>3. r.at = q.at
    BY <2>1, <2>2 DEF Slot
  <2> QED
    BY <1>2, <2>1, <2>3 DEF Slot
<1> QED
  BY <1>1, <1>2

\* One closing row per line.
OneClosingPerLine == \A c, d \in closing : c.key = d.key => c = d

LEMMA OneClosingStep ==
  TypeInv /\ OneClosingPerLine /\ [Next]_vars => OneClosingPerLine'
<1> SUFFICES ASSUME TypeInv, OneClosingPerLine, [Next]_vars
             PROVE  OneClosingPerLine'
  OBVIOUS
<1>1. CASE closing' = closing
  BY <1>1 DEF OneClosingPerLine
<1>2. CASE closing' # closing
  <2>1. PICK d \in due : Capture(d)
    BY <1>2, ClosingSteps
  <2> QED
    BY <2>1, ClosingRowsOfGame DEF Capture, OneClosingPerLine, TypeInv
<1> QED
  BY <1>1, <1>2

\* However often a game is swept again, each line has one closing row.
THEOREM OneClosingCorrect == Spec => []OneClosingPerLine
<1>1. Init => OneClosingPerLine
  BY DEF Init, OneClosingPerLine
<1> QED
  BY <1>1, OneClosingStep, TypeInvariant, PTL DEF Spec

---------------------------------------------------------------------------
(* Which snapshot closes a line *)

\* The inductive invariant: the closing row of a line once closed, swept game or not,
\* is the latest of its snapshots up to the commence time it was closed with, but for
\* the late ones.
ClosedInv ==
  \A k \in Keys : closedAt[k] # Unknown =>
    RowsOfLine(closing, k) = CurrentAsOf(RowsOfLine(table \ late, k), closedAt[k])

LEMMA ClosedInit == Init => ClosedInv
BY DEF Init, ClosedInv

\* A capture leaves of each line it reaches the row it stored, if any; the rows of
\* the other lines stay.
LEMMA CaptureReplaces ==
  ASSUME TypeOK, NEW d \in due, Capture(d), NEW k \in Keys
  PROVE  RowsOfLine(closing', k) = IF k \in Reached(d)
                                   THEN RowsOfLine(ClosingRows(d), k)
                                   ELSE RowsOfLine(closing, k)
<1>1. closing' = {c \in closing : \A r \in ClosingRows(d) : r.key # c.key}
                   \cup ClosingRows(d)
  BY DEF Capture
<1>2. CASE k \in Reached(d)
  BY <1>1, <1>2 DEF Reached, RowsOfLine
<1>3. CASE k \notin Reached(d)
  <2>1. \A r \in ClosingRows(d) : r.key # k
    BY <1>3, ClosingRowsOfGame DEF Reached, RowsOf
  <2> QED
    BY <1>1, <1>3, <2>1 DEF RowsOfLine
<1> QED
  BY <1>2, <1>3

\* The row a capture stores for a line is the latest up to the commence time.
LEMMA ClosingRowOfLine ==
  ASSUME NEW d, NEW k \in Keys, GameOf[k] = d.game
  PROVE  RowsOfLine(ClosingRows(d), k) = CurrentAsOf(RowsOfLine(table, k), d.commence)
BY DEF RowsOfLine, ClosingRows, CurrentAsOf, Current, RowsOf

\* An answer stored: every row that is not late was there before.
LEMMA StoreKeeps ==
  ASSUME NEW i \in Ingesters, Store(i)
  PROVE  table' \ late' = table \ late
BY DEF Store

LEMMA ClosedStep == TypeInv /\ ClosedInv /\ [Next]_vars => ClosedInv'
<1> SUFFICES ASSUME TypeInv, ClosedInv, [Next]_vars, NEW k \in Keys,
                    closedAt'[k] # Unknown
             PROVE  RowsOfLine(closing', k) =
                      CurrentAsOf(RowsOfLine(table' \ late', k), closedAt'[k])
  BY DEF ClosedInv
<1>0. TypeOK
  BY DEF TypeInv
<1>1. ASSUME NEW i \in Ingesters, Store(i) PROVE UNCHANGED <<table \ late, closing, closedAt>>
  BY <1>1, StoreKeeps DEF Store, Ingested, closing_vars
<1>2. ASSUME NEW d \in due, Capture(d), k \in Reached(d)
      PROVE  RowsOfLine(closing', k) =
               CurrentAsOf(RowsOfLine(table' \ late', k), closedAt'[k])
  <2>1. GameOf[k] = d.game
    BY <1>2 DEF Reached
  <2>2. closedAt'[k] = d.commence
    BY <1>2 DEF Capture, Close
  <2>3. RowsOfLine(table' \ late', k) = RowsOfLine(table, k)
    BY <1>2 DEF Capture, Close, RowsOfLine
  <2> QED
    BY <1>0, <1>2, <2>1, <2>2, <2>3, CaptureReplaces, ClosingRowOfLine
<1>3. ASSUME NEW d \in due, Capture(d), k \notin Reached(d)
      PROVE  RowsOfLine(closing', k) =
               CurrentAsOf(RowsOfLine(table' \ late', k), closedAt'[k])
  <2>1. closedAt'[k] = closedAt[k]
    BY <1>3 DEF Capture, Close
  <2>2. RowsOfLine(table' \ late', k) = RowsOfLine(table \ late, k)
    BY <1>3 DEF Capture, Close, RowsOfLine
  <2> QED
    BY <1>0, <1>3, <2>1, <2>2, CaptureReplaces DEF ClosedInv
<1>4. ASSUME ~ \E i \in Ingesters : Store(i), ~ \E d \in due : Capture(d)
      PROVE  UNCHANGED <<table, late, closing, closedAt>>
  BY <1>4 DEF Next, vars, world_vars, sweep_vars, closing_vars, IngestStep, SweepStep,
     Tick, Reschedule, Fetch, UpsertGames, Ingested, IngestFails, BeginSweep, QueryDue,
     QueryFails, CaptureFails, NextDue, Mark, MarkFails, Restart
<1> QED
  BY <1>1, <1>2, <1>3, <1>4 DEF ClosedInv

LEMMA Invariants == Spec => [](TypeInv /\ ClosedInv)
<1>1. Init => TypeInv /\ ClosedInv
  BY TypeInit, ClosedInit
<1>2. TypeInv /\ ClosedInv /\ [Next]_vars => (TypeInv /\ ClosedInv)'
  BY TypeStep, ClosedStep
<1> QED
  BY <1>1, <1>2, PTL DEF Spec

\* The only snapshots up to its commence time the closing line of a swept game misses
\* are those stored after its capture, whatever other ingesters do, wherever the game
\* is moved and whatever fails.
THEOREM ClosingMissesCorrect == Spec => []ClosingMissesOnlyLate
<1>1. TypeInv /\ ClosedInv => ClosingMissesOnlyLate
  BY ClosingAssumption DEF TypeInv, Closed, ClosedInv, ClosingMissesOnlyLate
<1> QED
  BY <1>1, Invariants, PTL

\* No sweep puts an older snapshot in the place of a closing line, unless its game was
\* moved to an earlier start.
THEOREM ClosingAdvancesCorrect == Spec => ClosingOnlyAdvances
<1> DEFINE Step == [\A c \in closing :
                      \/ closedAt'[c.key] < closedAt[c.key]
                      \/ \E d \in closing' : d.key = c.key /\ d.at >= c.at]_closing
<1>1. TypeInv /\ ClosedInv /\ [Next]_vars => Step
  <2> SUFFICES ASSUME TypeInv, ClosedInv, [Next]_vars, closing' # closing,
                      NEW c \in closing, ~ (closedAt'[c.key] < closedAt[c.key])
               PROVE  \E d \in closing' : d.key = c.key /\ d.at >= c.at
    OBVIOUS
  <2>0. TypeOK
    BY DEF TypeInv
  <2>1. PICK d \in due : Capture(d)
    BY ClosingSteps
  <2>2. c.key \in Keys /\ c.at \in Nat /\ closedAt[c.key] \in Starts
    BY <2>0, ClosingAssumption DEF TypeOK, Slot
  <2>3. CASE \A r \in ClosingRows(d) : r.key # c.key
    BY <2>1, <2>2, <2>3 DEF Capture
  <2>4. ASSUME NEW r \in ClosingRows(d), r.key = c.key
        PROVE  \E e \in closing' : e.key = c.key /\ e.at >= c.at
    <3>1. c.key \in Reached(d) /\ GameOf[c.key] = d.game
      BY <2>0, <2>2, <2>4, ClosingRowsOfGame DEF Reached, RowsOf
    <3>2. closedAt'[c.key] = d.commence
      BY <2>1, <2>2, <3>1 DEF Capture, Close
    <3>3. c \in table /\ c.at <= closedAt[c.key]
      <4>1. closedAt[c.key] # Unknown
        BY <2>0 DEF TypeOK
      <4>2. c \in CurrentAsOf(RowsOfLine(table \ late, c.key), closedAt[c.key])
        BY <2>2, <4>1 DEF ClosedInv, RowsOfLine
      <4> QED
        BY <4>2 DEF RowsOfLine, CurrentAsOf, Current
    <3>4. d.commence \in Nat /\ closedAt[c.key] \in Nat
      <4>1. \A t \in Starts : t \in Nat
        BY ClosingAssumption
      <4> QED
        BY <2>0, <2>2, <4>1, DueType
    <3>5. c.at <= d.commence
      BY <2>2, <3>2, <3>3, <3>4
    <3>6. r.at \in Nat
      BY <2>0, <2>4, ClosingRowsOfGame, ClosingAssumption DEF TypeOK, RowsOf, Slot
    <3>7. c.at <= r.at
      BY <2>4, <3>1, <3>3, <3>5 DEF ClosingRows, CurrentAsOf, Current, RowsOf
    <3> QED
      BY <2>1, <2>2, <2>4, <3>6, <3>7 DEF Capture
  <2> QED
    BY <2>3, <2>4
<1> QED
  BY <1>1, Invariants, PTL DEF Spec, ClosingOnlyAdvances
=============================================================================
