-------------------------- MODULE PropCycle_proofs --------------------------
(***************************************************************************)
(* Theorems about PropCycle for any finite list of events, any players,    *)
(* stats, prices and window, any cap, and any number of price moves,       *)
(* failures and restarts.                                                  *)
(***************************************************************************)
EXTENDS PropCycle, LineStore_proofs, TLAPS

\* What a cycle holds in each of its stages.
StageInv ==
  /\ pc = "idle" => todo = {}
  /\ pc = "listed" => tried = {}
  /\ pc # "fetch" => batch = {}
  /\ todo \cap tried = {}

\* An event of the window is to be fetched, has been asked for, or comes after as many
\* of those as the cap allows.
CapInv ==
  \A e \in scope \ (todo \cup tried) :
    Cardinality({d \in todo \cup tried : Rank[d] < Rank[e]}) = MaxEvents

\* The stamp of a cycle is later than all that earlier cycles stored; at the last
\* instant of the clock no event is left in the window, so no other cycle follows.
AgeInv ==
  /\ stamp <= clock
  /\ pc = "idle" => \A r \in table : r.at < clock \/ clock = Horizon
  /\ pc = "listed" => \A r \in table : r.at < clock
  /\ pc = "fetch" => /\ stamp < clock \/ clock = Horizon
                     /\ \A r \in table : r.at < stamp

\* A cycle prices each line of an event that it asked for once.
BatchInv ==
  /\ \A b \in batch : b.at = stamp /\ b.line[1] \in tried
  /\ \A b, c \in batch : b.line = c.line => b = c

PlanInv == TypeOK /\ StageInv /\ CapInv /\ AgeInv /\ BatchInv

\* The last price fetched of a line waits in the batch or is the current one.
AnswerInv ==
  \A l \in Lines : answered[l] # NoPrice =>
    \/ \E b \in batch : b.line = l /\ b.val = answered[l]
    \/ /\ \A b \in batch : b.line # l
       /\ \E r \in Current(table) : r.line = l /\ r.val = answered[l]

\* The condition under which a selection tells two lines of a player apart: no two
\* stats that have Over/Under outcomes share a point.
PointsDistinct ==
  \A s, t \in Stats \ YesNo : PointOf[s] = PointOf[t] => s = t
---------------------------------------------------------------------------
(* The cap *)

\* Two events of the list have different places in it.
LEMMA RankIsStrict ==
  ASSUME NEW d \in Events, NEW e \in Events
  PROVE  /\ Rank[d] \in Nat /\ Rank[e] \in Nat
         /\ d # e => Rank[d] < Rank[e] \/ Rank[e] < Rank[d]
BY PropAssumption

LEMMA RanksFinite ==
  ASSUME NEW S \in SUBSET Events
  PROVE  /\ IsFiniteSet(S)
         /\ {Rank[e] : e \in S} \in SUBSET Nat
         /\ IsFiniteSet({Rank[e] : e \in S})
<1>1. IsFiniteSet(S)
  BY PropAssumption, FS_Subset
<1>2. {Rank[e] : e \in S} \in SUBSET Nat
  BY RankIsStrict
<1>3. IsFiniteSet({Rank[e] : e \in S})
  <2> DEFINE f == [e \in S |-> Rank[e]]
  <2>1. IsFiniteSet({f[e] : e \in S})
    <3>1. DOMAIN f = S /\ f = [e \in S |-> f[e]]
      OBVIOUS
    <3> HIDE DEF f
    <3> QED
      BY <1>1, <3>1, ImageFinite
  <2> QED
    BY <2>1
<1> QED
  BY <1>1, <1>2, <1>3

\* Some events have a soonest one, and a last one.
LEMMA SoonestEvent ==
  ASSUME NEW S \in SUBSET Events, S # {}
  PROVE  \E m \in S : \A e \in S : Rank[m] <= Rank[e]
<1> DEFINE R == {Rank[e] : e \in S}
<1>1. R # {}
  OBVIOUS
<1>2. R \in SUBSET Nat /\ IsFiniteSet(R)
  BY RanksFinite
<1>3. PICK n \in R : \A k \in R : n <= k
  <2> HIDE DEF R
  <2> QED
    BY <1>1, <1>2, EarliestInstant
<1> QED
  BY <1>3

LEMMA LastEvent ==
  ASSUME NEW S \in SUBSET Events, S # {}
  PROVE  \E m \in S : \A e \in S : Rank[e] <= Rank[m]
<1> DEFINE R == {Rank[e] : e \in S}
<1>1. R # {}
  OBVIOUS
<1>2. R \in SUBSET Nat /\ IsFiniteSet(R)
  BY RanksFinite
<1>3. PICK n \in R : \A k \in R : k <= n
  <2> HIDE DEF R
  <2> QED
    BY <1>1, <1>2, LatestInstant
<1> QED
  BY <1>3

\* The events of the window that are listed before another event.
Sooner(e, now) == {d \in Events : InWindow(d, now) /\ Rank[d] < Rank[e]}

\* filterPropEvents selects no more events than the cap.
LEMMA SelectedWithinCap ==
  ASSUME NEW now
  PROVE  /\ IsFiniteSet(Selected(now))
         /\ Cardinality(Selected(now)) \in 0..MaxEvents
<1> DEFINE S == Selected(now)
<1>1. S \in SUBSET Events /\ MaxEvents \in Nat
  BY PropAssumption DEF Selected
<1>2. IsFiniteSet(S) /\ Cardinality(S) \in Nat
  BY <1>1, RanksFinite, FS_CardinalityType
<1>3. CASE S = {}
  BY <1>1, <1>2, <1>3, FS_EmptySet
<1>4. CASE S # {}
  <2>1. PICK x \in S : \A e \in S : Rank[e] <= Rank[x]
    BY <1>1, <1>4, LastEvent
  <2>2. S \ {x} \subseteq Sooner(x, now)
    <3>1. \A d \in S : d \in Events /\ InWindow(d, now)
      BY DEF Selected
    <3> QED
      BY <2>1, <3>1, RankIsStrict DEF Sooner
  <2>3. IsFiniteSet(Sooner(x, now)) /\ Cardinality(Sooner(x, now)) \in Nat
    BY RanksFinite, FS_CardinalityType DEF Sooner
  <2>4. Cardinality(Sooner(x, now)) < MaxEvents
    BY DEF Selected, Sooner
  <2>5. Cardinality(S \ {x}) = Cardinality(S) - 1
    BY <1>2, FS_RemoveElement
  <2>6. Cardinality(S \ {x}) <= Cardinality(Sooner(x, now))
    BY <2>2, <2>3, FS_Subset
  <2> HIDE DEF S
  <2>7. Cardinality(S) \in 0..MaxEvents
    BY <1>1, <1>2, <2>3, <2>4, <2>5, <2>6
  <2> QED
    BY <1>2, <2>7 DEF S
<1> QED
  BY <1>2, <1>3, <1>4

\* An event of the window that is not selected comes after as many selected ones as
\* the cap allows.
LEMMA CapUsedBySooner ==
  ASSUME NEW now, NEW e \in Events, InWindow(e, now), e \notin Selected(now)
  PROVE  Cardinality({d \in Selected(now) : Rank[d] < Rank[e]}) = MaxEvents
<1> DEFINE S == Selected(now)
           Left == {d \in Events : InWindow(d, now)} \ S
<1>1. PICK m \in Left : \A d \in Left : Rank[m] <= Rank[d]
  <2>1. Left \in SUBSET Events /\ Left # {}
    OBVIOUS
  <2> HIDE DEF Left
  <2> QED
    BY <2>1, SoonestEvent
<1>2. m \in Events /\ InWindow(m, now) /\ m \notin S
  BY <1>1
<1>3. IsFiniteSet(Sooner(m, now)) /\ Cardinality(Sooner(m, now)) \in Nat
  BY RanksFinite, FS_CardinalityType DEF Sooner
<1>4. Cardinality(Sooner(m, now)) >= MaxEvents
  BY <1>2, <1>3, PropAssumption DEF Selected, Sooner
<1>5. Sooner(m, now) \subseteq S
  <2>1. ASSUME NEW d \in Sooner(m, now), d \notin S PROVE FALSE
    <3>1. d \in Left /\ Rank[d] < Rank[m] /\ d \in Events
      BY <2>1 DEF Sooner
    <3>2. Rank[m] <= Rank[d]
      BY <1>1, <3>1
    <3> QED
      BY <1>2, <3>1, <3>2, RankIsStrict
  <2> QED
    BY <2>1
<1>6. ASSUME NEW d \in S PROVE Rank[d] < Rank[e]
  <2>1. d \in Events /\ InWindow(d, now) /\ Cardinality(Sooner(d, now)) < MaxEvents
    BY DEF Selected, Sooner
  <2>2. Rank[m] <= Rank[e]
    BY <1>1
  <2>3. Rank[d] \in Nat /\ Rank[m] \in Nat /\ Rank[e] \in Nat
    BY <1>2, <2>1, RankIsStrict
  <2>4. CASE Rank[m] <= Rank[d]
    <3>1. Sooner(m, now) \subseteq Sooner(d, now)
      BY <1>2, <2>1, <2>4, RankIsStrict DEF Sooner
    <3>2. IsFiniteSet(Sooner(d, now)) /\ Cardinality(Sooner(d, now)) \in Nat
      BY RanksFinite, FS_CardinalityType DEF Sooner
    <3>3. Cardinality(Sooner(m, now)) <= Cardinality(Sooner(d, now))
      BY <3>1, <3>2, FS_Subset
    <3> QED
      BY <1>3, <1>4, <2>1, <3>2, <3>3, PropAssumption
  <2> QED
    BY <2>2, <2>3, <2>4
<1>7. {d \in S : Rank[d] < Rank[e]} = S
  BY <1>6
<1>8. IsFiniteSet(S) /\ Cardinality(S) \in 0..MaxEvents
  BY SelectedWithinCap
<1>9. Cardinality(Sooner(m, now)) <= Cardinality(S)
  BY <1>5, <1>8, FS_Subset
<1> HIDE DEF S
<1>10. Cardinality(S) = MaxEvents
  BY <1>3, <1>4, <1>8, <1>9, PropAssumption
<1> QED
  BY <1>7, <1>10 DEF S

---------------------------------------------------------------------------
(* Types, stages, and the plan of a cycle *)

LEMMA KeyOfLine ==
  ASSUME NEW l \in Lines
  PROVE  l[1] \in Events /\ l[2] \in Players /\ l[3] \in Stats
BY DEF Lines

LEMMA PlanInit == Init => PlanInv
<1> SUFFICES ASSUME Init PROVE PlanInv
  OBVIOUS
<1>1. 0 \in 0..Horizon /\ 0 \in 0..MaxMoves /\ 0 \in 0..MaxFaults /\ 0 <= MaxEvents
  BY PropAssumption
<1>2. TypeOK
  BY <1>1, FS_EmptySet DEF Init, TypeOK
<1>3. StageInv /\ CapInv /\ AgeInv /\ BatchInv
  BY DEF Init, StageInv, CapInv, AgeInv, BatchInv
<1> QED
  BY <1>2, <1>3 DEF PlanInv

\* The clock never goes back.
LEMMA ClockAdvances ==
  ASSUME TypeOK, Advance
  PROVE  /\ clock' \in 0..Horizon /\ clock <= clock'
         /\ clock < clock' \/ clock' = Horizon
BY PropAssumption DEF TypeOK, Advance

\* What is left of a cycle that was dropped is a plan of nothing.
LEMMA DroppedKeepsPlan ==
  ASSUME PlanInv, Dropped, pc # "idle", faults' \in 0..MaxFaults
  PROVE  PlanInv'
<1> USE DEF PlanInv
<1>1. TypeOK'
  <2>1. answered' \in [Lines -> Prices \cup {NoPrice}]
    BY DEF TypeOK, Dropped
  <2>2. Cardinality(todo') <= MaxEvents
    BY FS_EmptySet, PropAssumption DEF Dropped
  <2> QED
    BY <2>1, <2>2 DEF TypeOK, Dropped, world_vars
<1>2. StageInv' /\ CapInv' /\ BatchInv'
  BY DEF Dropped, StageInv, CapInv, BatchInv
<1>3. AgeInv'
  <2>1. \A r \in table : r.at \in Nat
    BY PropAssumption DEF TypeOK
  <2>2. pc \in {"listed", "fetch"} /\ clock \in Nat /\ stamp \in Nat
    BY PropAssumption DEF TypeOK
  <2> QED
    BY <2>1, <2>2 DEF Dropped, AgeInv, world_vars
<1> QED
  BY <1>1, <1>2, <1>3

LEMMA FaultType ==
  ASSUME TypeOK, Fault
  PROVE  faults' \in 0..MaxFaults
BY PropAssumption DEF TypeOK, Fault

\* An event leaves the plan when it is asked for.
LEMMA AskedKeepsPlan ==
  ASSUME PlanInv, NEW e \in Events, NextUp(e),
         todo' = todo \ {e}, tried' = tried \cup {e},
         UNCHANGED <<clock, table, pc, stamp, scope>>
  PROVE  /\ tried' \subseteq scope' /\ todo' \subseteq scope'
         /\ Cardinality(todo') <= MaxEvents
         /\ StageInv' /\ CapInv' /\ AgeInv'
<1> USE DEF PlanInv
<1>1. e \in todo /\ e \in scope /\ pc = "fetch"
  BY DEF NextUp, TypeOK
<1>2. Cardinality(todo') <= MaxEvents
  <2>1. IsFiniteSet(todo) /\ todo' \in SUBSET todo
    BY RanksFinite DEF TypeOK
  <2>2. /\ Cardinality(todo') <= Cardinality(todo)
        /\ Cardinality(todo') \in Nat /\ Cardinality(todo) \in Nat
    BY <2>1, FS_Subset, FS_CardinalityType
  <2> QED
    BY <2>2, PropAssumption DEF TypeOK
<1>3. StageInv'
  BY <1>1 DEF StageInv
<1>4. CapInv'
  <2>1. todo' \cup tried' = todo \cup tried
    BY <1>1
  <2> QED
    BY <2>1 DEF CapInv
<1>5. AgeInv'
  BY <1>1 DEF AgeInv
<1> QED
  BY <1>1, <1>2, <1>3, <1>4, <1>5 DEF TypeOK

\* What a cycle stores comes from its batch.
LEMMA PersistStores ==
  ASSUME Persist
  PROVE  \E new \in SUBSET FilterChanged(Current(table), batch) :
           /\ new \in InsertOutcomes(table, FilterChanged(Current(table), batch))
           /\ table' = table \cup new
           /\ new \subseteq batch
BY DEF Persist, InsertOutcomes, FilterChanged

LEMMA RowsOfFetch ==
  ASSUME PlanInv, NEW e \in Events, NEW b \in Snapshots(e)
  PROVE  /\ b.line \in Lines /\ b.line[1] = e /\ b.key = KeyOf(b.line)
         /\ b.at = stamp /\ b.val = price[b.line] /\ b.val \in Prices
         /\ b.at \in 0..Horizon /\ b.read \in b.at..Horizon
<1>1. PICK l \in Lines :
        /\ l[1] = e
        /\ b = [key |-> KeyOf(l), at |-> stamp, val |-> price[l], line |-> l, read |-> clock]
  BY DEF Snapshots
<1>2. price[l] \in Prices /\ stamp \in 0..Horizon /\ clock \in stamp..Horizon
  BY PropAssumption DEF PlanInv, TypeOK, AgeInv
<1> QED
  BY <1>1, <1>2

LEMMA ListKeepsPlan ==
  ASSUME PlanInv, List
  PROVE  PlanInv'
<1> USE DEF PlanInv
<1>1. /\ todo' = Selected(clock) /\ tried' = {} /\ batch = {} /\ batch' = batch
      /\ scope' = {e \in Events : InWindow(e, clock)}
      /\ pc = "idle" /\ pc' = IF todo' = {} THEN "idle" ELSE "listed"
  BY DEF List, StageInv
<1>2. TypeOK'
  <2>1. todo' \subseteq scope' /\ scope' \subseteq Events
    BY <1>1 DEF Selected
  <2>2. Cardinality(todo') <= MaxEvents
    BY <1>1, SelectedWithinCap, PropAssumption
  <2> QED
    BY <1>1, <2>1, <2>2 DEF TypeOK, List, world_vars
<1>3. StageInv' /\ BatchInv'
  BY <1>1 DEF StageInv, BatchInv
<1>4. CapInv'
  <2>1. ASSUME NEW e \in scope' \ (todo' \cup tried')
        PROVE  Cardinality({d \in todo' \cup tried' : Rank[d] < Rank[e]}) = MaxEvents
    <3>1. e \in Events /\ InWindow(e, clock) /\ e \notin Selected(clock)
      BY <1>1, <2>1
    <3>2. todo' \cup tried' = Selected(clock)
      BY <1>1
    <3> QED
      BY <3>1, <3>2, CapUsedBySooner
  <2> QED
    BY <2>1 DEF CapInv
<1>5. AgeInv'
  <2>1. /\ stamp' = stamp /\ clock' = clock /\ table' = table
        /\ \A r \in table : r.at < clock \/ clock = Horizon
    BY <1>1 DEF List, AgeInv
  <2>2. ASSUME todo' # {} PROVE clock # Horizon
    <3>1. PICK e \in Events : Start[e] > clock
      BY <1>1, <2>2 DEF Selected, InWindow
    <3> QED
      BY <3>1, PropAssumption
  <2> QED
    BY <1>1, <2>1, <2>2 DEF AgeInv
<1> QED
  BY <1>2, <1>3, <1>4, <1>5

LEMMA PlanStep == PlanInv /\ [Next]_vars => PlanInv'
<1> SUFFICES ASSUME PlanInv, [Next]_vars PROVE PlanInv'
  OBVIOUS
<1> USE DEF PlanInv
<1>1. CASE Tick
  <2>1. Advance
    BY <1>1 DEF Tick
  <2>2. TypeOK'
    BY <1>1, <2>1, ClockAdvances DEF Tick, TypeOK, world_vars
  <2>3. StageInv' /\ CapInv' /\ BatchInv'
    BY <1>1 DEF Tick, StageInv, CapInv, BatchInv
  <2>4. AgeInv'
    <3>1. /\ clock \in Nat /\ stamp \in Nat /\ clock' \in Nat
          /\ \A r \in table : r.at \in Nat
      BY <2>1, ClockAdvances, PropAssumption DEF TypeOK
    <3>2. clock < clock'
      BY <1>1, PropAssumption DEF Tick, Advance, TypeOK
    <3>3. UNCHANGED <<stamp, table, pc>>
      BY <1>1 DEF Tick
    <3>4. stamp < clock => stamp < clock'
      BY <3>1, <3>2
    <3>5. ~ (clock = Horizon)
      BY <1>1, PropAssumption DEF Tick, TypeOK
    <3>6. \A r \in table : r.at < clock => r.at < clock'
      BY <3>1, <3>2
    <3> QED
      BY <3>1, <3>2, <3>3, <3>4, <3>5, <3>6 DEF AgeInv
  <2> QED
    BY <2>2, <2>3, <2>4
<1>2. CASE List
  BY <1>2, ListKeepsPlan
<1>3. CASE Register
  <2>1. Advance
    BY <1>3 DEF Register
  <2>2. TypeOK'
    <3>1. clock' \in 0..Horizon /\ stamp' \in 0..Horizon /\ games' \subseteq Events
      BY <1>3, <2>1, ClockAdvances DEF Register, TypeOK
    <3> QED
      BY <1>3, <3>1 DEF Register, TypeOK, world_vars
  <2>3. StageInv' /\ CapInv' /\ BatchInv'
    BY <1>3 DEF Register, StageInv, CapInv, BatchInv
  <2>4. AgeInv'
    <3>1. /\ stamp' = clock /\ pc' = "fetch" /\ table' = table
          /\ \A r \in table : r.at < clock
      BY <1>3 DEF Register, AgeInv
    <3> QED
      BY <2>1, <3>1, ClockAdvances DEF AgeInv
  <2> QED
    BY <2>2, <2>3, <2>4
<1>4. CASE RegisterFails
  BY <1>4, FaultType, DroppedKeepsPlan DEF RegisterFails
<1>5. CASE Persist
  <2>1. PICK new \in SUBSET batch : table' = table \cup new
    BY <1>5, PersistStores
  <2>2. TypeOK'
    BY <1>5, <2>1 DEF Persist, TypeOK, world_vars
  <2>3. StageInv' /\ CapInv' /\ BatchInv'
    BY <1>5 DEF Persist, StageInv, CapInv, BatchInv
  <2>4. AgeInv'
    <3>1. \A b \in batch : b.at = stamp
      BY DEF BatchInv
    <3>2. /\ pc' = "idle" /\ UNCHANGED <<clock, stamp>>
          /\ \A r \in table' : r.at <= stamp
      BY <1>5, <2>1, <3>1, PropAssumption DEF Persist, AgeInv, TypeOK
    <3>3. stamp \in Nat /\ clock \in Nat /\ \A r \in table' : r.at \in Nat
      BY <2>1, PropAssumption DEF TypeOK
    <3>4. stamp < clock \/ clock = Horizon
      BY <1>5 DEF Persist, AgeInv
    <3> QED
      BY <3>2, <3>3, <3>4 DEF AgeInv
  <2> QED
    BY <2>2, <2>3, <2>4
<1>6. CASE PersistFails
  BY <1>6, FaultType, DroppedKeepsPlan DEF PersistFails
<1>7. CASE Cancelled
  BY <1>7, FaultType, DroppedKeepsPlan DEF Cancelled
<1>8. ASSUME NEW l \in Lines, MovePrice(l) PROVE PlanInv'
  <2>1. TypeOK'
    <3>1. price' \in [Lines -> Prices] /\ moves' \in 0..MaxMoves
      BY <1>8, PropAssumption DEF MovePrice, TypeOK
    <3> QED
      BY <1>8, <3>1 DEF MovePrice, TypeOK
  <2>2. StageInv' /\ CapInv' /\ AgeInv' /\ BatchInv'
    BY <1>8 DEF MovePrice, StageInv, CapInv, AgeInv, BatchInv
  <2> QED
    BY <2>1, <2>2
<1>9. ASSUME NEW e \in Events, FetchOdds(e) PROVE PlanInv'
  <2>1. /\ NextUp(e) /\ todo' = todo \ {e} /\ tried' = tried \cup {e}
        /\ UNCHANGED <<clock, table, pc, stamp, scope>>
    BY <1>9 DEF FetchOdds
  <2>2. /\ tried' \subseteq scope' /\ todo' \subseteq scope'
        /\ Cardinality(todo') <= MaxEvents
        /\ StageInv' /\ CapInv' /\ AgeInv'
    BY <2>1, AskedKeepsPlan
  <2>3. answered' \in [Lines -> Prices \cup {NoPrice}]
    BY <1>9 DEF FetchOdds, TypeOK
  <2>4. batch' = batch \cup Snapshots(e)
    BY <1>9 DEF FetchOdds
  <2>5. TypeOK'
    BY <1>9, <2>1, <2>2, <2>3, <2>4, RowsOfFetch DEF FetchOdds, TypeOK, world_vars
  <2>6. BatchInv'
    <3>1. e \notin tried
      BY <2>1 DEF NextUp, StageInv
    <3>2. \A b \in Snapshots(e) : b.at = stamp /\ b.line[1] = e
      BY RowsOfFetch
    <3>3. \A b, c \in Snapshots(e) : b.line = c.line => b = c
      BY DEF Snapshots
    <3> QED
      BY <2>1, <2>4, <3>1, <3>2, <3>3 DEF BatchInv
  <2> QED
    BY <2>2, <2>5, <2>6
<1>10. ASSUME NEW e \in Events, FetchFails(e) PROVE PlanInv'
  <2>1. /\ NextUp(e) /\ todo' = todo \ {e} /\ tried' = tried \cup {e}
        /\ UNCHANGED <<clock, table, pc, stamp, scope>>
    BY <1>10 DEF FetchFails
  <2>2. /\ tried' \subseteq scope' /\ todo' \subseteq scope'
        /\ Cardinality(todo') <= MaxEvents
        /\ StageInv' /\ CapInv' /\ AgeInv'
    BY <2>1, AskedKeepsPlan
  <2>3. faults' \in 0..MaxFaults
    BY <1>10, FaultType DEF FetchFails
  <2>4. TypeOK'
    BY <1>10, <2>1, <2>2, <2>3 DEF FetchFails, TypeOK, world_vars
  <2>5. BatchInv'
    BY <1>10, <2>1 DEF FetchFails, BatchInv
  <2> QED
    BY <2>2, <2>4, <2>5
<1>11. CASE UNCHANGED vars
  <2>1. TypeOK'
    BY <1>11 DEF vars, world_vars, TypeOK
  <2>2. StageInv' /\ CapInv' /\ AgeInv' /\ BatchInv'
    BY <1>11 DEF vars, StageInv, CapInv, AgeInv, BatchInv
  <2> QED
    BY <2>1, <2>2
<1> QED
  BY <1>1, <1>2, <1>3, <1>4, <1>5, <1>6, <1>7, <1>8, <1>9, <1>10, <1>11 DEF Next

LEMMA PlanCorrect == Spec => []PlanInv
BY PlanInit, PlanStep, PTL DEF Spec

\* No cycle plans more events than its cap, none asks for an event outside the window
\* it listed, and every row of a prop says which line it is and when it was read, at
\* its stamp or later (IngestProps, filterPropEvents, NormalizeEventProps).
THEOREM TypeCorrect == Spec => []TypeOK
<1>1. PlanInv => TypeOK
  BY DEF PlanInv
<1> QED
  BY <1>1, PlanCorrect, PTL

\* When a cycle is over it has asked for every event that its window held, whatever
\* failed on the way, but for those the cap left out, and these come after as many as
\* the cap allows in the list (filterPropEvents and the loop of IngestProps).
THEOREM NoneMissedBelowCapCorrect == Spec => []NoneMissedBelowCap
<1>1. PlanInv => NoneMissedBelowCap
  <2> SUFFICES ASSUME PlanInv, pc = "idle", NEW e \in scope \ tried
               PROVE  Cardinality({d \in tried : Rank[d] < Rank[e]}) = MaxEvents
    BY DEF NoneMissedBelowCap
  <2>1. todo \cup tried = tried
    BY DEF PlanInv, StageInv
  <2> QED
    BY <2>1 DEF PlanInv, CapInv
<1> QED
  BY <1>1, PlanCorrect, PTL

---------------------------------------------------------------------------
(* What is stored of what was fetched *)

LEMMA KeyTellsLine ==
  ASSUME PointsDistinct, NEW k \in Lines, NEW l \in Lines, KeyOf(k) = KeyOf(l)
  PROVE  k = l
<1>1. k[1] = l[1] /\ Selection(k[2], k[3]) = Selection(l[2], l[3])
  BY DEF KeyOf
<1>2. /\ k[2] = l[2]
      /\ (IF k[3] \in YesNo THEN k[3] ELSE PointOf[k[3]])
           = (IF l[3] \in YesNo THEN l[3] ELSE PointOf[l[3]])
  BY <1>1 DEF Selection
<1>3. \A s \in Stats \ YesNo : PointOf[s] \in Nat
  BY PropAssumption
<1>4. \A s \in Stats : s \notin Nat
  BY PropAssumption
<1>5. k[3] = l[3]
  BY <1>2, <1>3, <1>4, KeyOfLine DEF PointsDistinct
<1> QED
  BY <1>1, <1>2, <1>5 DEF Lines

\* The same for two rows, stored or about to be.
LEMMA RowsOfLine ==
  ASSUME PointsDistinct, TypeOK, NEW q \in table \cup batch, NEW r \in table \cup batch
  PROVE  q.key = r.key <=> q.line = r.line
BY KeyTellsLine DEF TypeOK

\* What Persist leaves of a line whose price is in the batch, and of one that is not.
LEMMA PersistShowsBatch ==
  ASSUME PointsDistinct, PlanInv, Persist, NEW b \in batch
  PROVE  \E r \in Current(table') : r.line = b.line /\ r.val = b.val
<1> DEFINE changed == FilterChanged(Current(table), batch)
<1>1. PICK new \in SUBSET changed :
        /\ new \in InsertOutcomes(table, changed)
        /\ table' = table \cup new /\ new \subseteq batch
  BY PersistStores
<1>2. /\ \A r \in table : r.at < stamp /\ r.at \in Nat
      /\ \A c \in batch : c.at = stamp
      /\ stamp \in Nat
  BY PropAssumption DEF PlanInv, AgeInv, BatchInv, TypeOK, Persist
<1>3. \A c \in batch : c.key = b.key => c = b
  BY RowsOfLine DEF PlanInv, BatchInv
<1>4. CASE b \in changed
  <2>1. PICK q \in table \cup new : SameSlot(b, q)
    BY <1>1, <1>4 DEF InsertOutcomes
  <2>2. q \notin table
    BY <1>2, <2>1 DEF SameSlot
  <2>3. q = b
    BY <1>1, <1>3, <2>1, <2>2 DEF SameSlot
  <2>4. b \in Current(table')
    BY <1>1, <1>2, <2>2, <2>3 DEF Current
  <2> QED
    BY <2>4
<1>5. CASE b \notin changed
  <2>1. PICK prev \in Current(table) : prev.key = b.key /\ prev.val = b.val
    BY <1>5 DEF FilterChanged
  <2>2. prev \in table /\ prev.line = b.line
    BY <2>1, RowsOfLine DEF PlanInv, Current
  <2>3. \A c \in new : c.key # prev.key
    BY <1>1, <1>3, <1>5, <2>1
  <2>4. prev \in Current(table')
    BY <1>1, <2>1, <2>3 DEF Current
  <2> QED
    BY <2>1, <2>2, <2>4
<1> QED
  BY <1>4, <1>5

LEMMA PersistKeepsOthers ==
  ASSUME PointsDistinct, PlanInv, Persist,
         NEW r \in Current(table), \A b \in batch : b.line # r.line
  PROVE  r \in Current(table')
<1>1. PICK new \in SUBSET batch : table' = table \cup new
  BY PersistStores
<1>2. r \in table
  BY DEF Current
<1>3. \A c \in new : c.key # r.key
  BY <1>1, <1>2, RowsOfLine DEF PlanInv
<1> QED
  BY <1>1, <1>3 DEF Current

\* The lines whose last price a dropped cycle had in its batch are the forgotten ones.
LEMMA DroppedKeepsAnswers ==
  ASSUME PlanInv, AnswerInv, Dropped
  PROVE  AnswerInv'
<1> SUFFICES ASSUME NEW l \in Lines, answered'[l] # NoPrice
             PROVE  \E r \in Current(table) : r.line = l /\ r.val = answered'[l]
  BY DEF AnswerInv, Dropped
<1>1. l[1] \notin tried /\ answered'[l] = answered[l]
  BY DEF Dropped
<1>2. \A b \in batch : b.line # l
  BY <1>1 DEF PlanInv, BatchInv
<1> QED
  BY <1>1, <1>2 DEF AnswerInv

LEMMA AnswerStep == PointsDistinct /\ PlanInv /\ AnswerInv /\ [Next]_vars => AnswerInv'
<1> SUFFICES ASSUME PointsDistinct, PlanInv, AnswerInv, [Next]_vars PROVE AnswerInv'
  OBVIOUS
<1>1. CASE RegisterFails \/ PersistFails \/ Cancelled
  BY <1>1, DroppedKeepsAnswers DEF RegisterFails, PersistFails, Cancelled
<1>2. CASE Persist
  <2> SUFFICES ASSUME NEW l \in Lines, answered[l] # NoPrice
               PROVE  \E r \in Current(table') : r.line = l /\ r.val = answered[l]
    BY <1>2 DEF AnswerInv, Persist
  <2>1. CASE \E b \in batch : b.line = l /\ b.val = answered[l]
    BY <1>2, <2>1, PersistShowsBatch
  <2>2. CASE /\ \A b \in batch : b.line # l
             /\ \E r \in Current(table) : r.line = l /\ r.val = answered[l]
    BY <1>2, <2>2, PersistKeepsOthers
  <2> QED
    BY <2>1, <2>2 DEF AnswerInv
<1>3. ASSUME NEW e \in Events, FetchOdds(e) PROVE AnswerInv'
  <2>1. /\ batch' = batch \cup Snapshots(e) /\ table' = table
        /\ answered' = [l \in Lines |-> IF l[1] = e THEN price[l] ELSE answered[l]]
    BY <1>3 DEF FetchOdds
  <2>2. ASSUME NEW l \in Lines, l[1] = e
        PROVE  \E b \in batch' : b.line = l /\ b.val = answered'[l]
    <3> DEFINE b == [key |-> KeyOf(l), at |-> stamp, val |-> price[l],
                     line |-> l, read |-> clock]
    <3>1. b \in batch'
      BY <2>1, <2>2 DEF Snapshots
    <3>2. b.line = l /\ b.val = answered'[l]
      BY <2>1, <2>2
    <3> QED
      BY <3>1, <3>2
  <2>3. \A b \in Snapshots(e) : b.line[1] = e
    BY RowsOfFetch
  <2>4. ASSUME NEW l \in Lines, l[1] # e, answered[l] # NoPrice
        PROVE  /\ answered'[l] = answered[l]
               /\ \/ \E b \in batch' : b.line = l /\ b.val = answered[l]
                  \/ /\ \A b \in batch' : b.line # l
                     /\ \E r \in Current(table) : r.line = l /\ r.val = answered[l]
    BY <2>1, <2>3, <2>4 DEF AnswerInv
  <2> QED
    BY <2>1, <2>2, <2>4 DEF AnswerInv
<1>4. CASE UNCHANGED <<answered, batch, table>>
  BY <1>4 DEF AnswerInv
<1>5. CASE \/ Tick \/ List \/ Register \/ UNCHANGED vars
           \/ \E l \in Lines : MovePrice(l)
           \/ \E e \in Events : FetchFails(e)
  BY <1>4, <1>5 DEF Tick, List, Register, vars, MovePrice, FetchFails
<1> QED
  BY <1>1, <1>2, <1>3, <1>5 DEF Next

\* A price that was fetched, and was not lost with its cycle, is the current one of its
\* line until the next fetch, whatever failed for other events, provided that no two
\* Over/Under stats of a player share a point (buildPropSelection, persistSnapshots).
THEOREM FetchedIsCurrentCorrect ==
  ASSUME PointsDistinct
  PROVE  Spec => []FetchedIsCurrent
<1>1. Init => AnswerInv
  BY DEF Init, AnswerInv
<1>2. PlanInv /\ AnswerInv => FetchedIsCurrent
  BY DEF PlanInv, StageInv, AnswerInv, FetchedIsCurrent
<1>3. PlanInv /\ AnswerInv /\ [Next]_vars => AnswerInv'
  BY AnswerStep
<1> QED
  BY <1>1, <1>2, <1>3, PlanCorrect, PTL DEF Spec

\* Under the same condition a line whose price is what was last stored for it gets no
\* new row: nothing but two stats on one point breaks what the comment of
\* GetLatestLineValues says of dedup (line_repo.go:61-66).
THEOREM UnchangedSkippedUnlessCollision ==
  ASSUME PointsDistinct
  PROVE  Spec => UnchangedLinesSkipped
<1>1. ASSUME PlanInv, [Next]_vars
      PROVE  \A r \in table' \ table : \A q \in LastOf(r.line) : q.val # r.val
  <2> SUFFICES ASSUME NEW r \in table' \ table, NEW q \in LastOf(r.line)
               PROVE  q.val # r.val
    OBVIOUS
  <2>1. Persist
    BY <1>1 DEF Next, Tick, List, Register, RegisterFails, PersistFails, Cancelled,
                MovePrice, FetchOdds, FetchFails, Dropped, vars
  <2>2. r \in batch /\ r \in FilterChanged(Current(table), batch)
    BY <2>1, PersistStores
  <2>3. q \in table /\ q.line = r.line
    BY DEF LastOf, Current
  <2>4. q.key = r.key
    BY <1>1, <2>2, <2>3, RowsOfLine DEF PlanInv
  <2>5. \A p \in table : p.key = q.key => p.line = r.line
    BY <1>1, <2>3, RowsOfLine DEF PlanInv
  <2>6. q \in Current(table)
    BY <2>3, <2>5 DEF LastOf, Current
  <2> QED
    BY <2>2, <2>4, <2>6 DEF FilterChanged
<1> QED
  BY <1>1, PlanCorrect, PTL DEF Spec, UnchangedLinesSkipped
=============================================================================
