--------------------------- MODULE Quotes_proofs ---------------------------
(***************************************************************************)
(* Theorems about Quotes for any books, sides, points and prices, and any  *)
(* number of moves.                                                        *)
(***************************************************************************)
EXTENDS Quotes, LineStore_proofs, FunctionTheorems, FiniteSetTheorems,
        WellFoundedInduction, TLAPS

\* A row holds one price in two forms, nothing comes from the future, and only a poll
\* that finds a market that has moved stores anything.
StoreInv ==
  /\ SlotsUnique(table)
  /\ \A r \in table : r.at <= polls /\ r.val = American(r.decimal)
  /\ polls <= moves + 1
  /\ seen # offers => polls <= moves
  /\ commence # NotYet => commence <= polls
  /\ OffersAreCurrent

TypeInv == TypeOK /\ StoreInv

\* The first row of a line has the first price seen of it, the last row the last.
IsFirst(r, rows) == r \in rows /\ \A q \in rows : r.at <= q.at
IsFinal(r, rows) == r \in rows /\ \A q \in rows : q.at <= r.at

SpanInv ==
  \A k \in LineKeys :
    /\ span[k] = NoOffer => History(k) = {}
    /\ span[k] # NoOffer =>
         /\ \E f \in table : IsFirst(f, History(k)) /\ f.val = span[k].opening
         /\ \E l \in table : IsFinal(l, History(k)) /\ l.val = span[k].current

\* The same of what was known when the game started, and the sweep found just that.
UntilStart(k) == {r \in History(k) : r.at <= commence}

StartInv ==
  /\ commence = NotYet => closing = {}
  /\ commence # NotYet =>
       /\ closing \in {{}, CurrentAsOf(table, commence)}
       /\ \A k \in LineKeys : spanAtStart[k] # NoOffer =>
            \E l \in table : IsFinal(l, UntilStart(k)) /\ l.val = spanAtStart[k].current
---------------------------------------------------------------------------
(* Prices and keys *)

LEMMA AmericanIsInt ==
  ASSUME NEW d \in Prices
  PROVE  American(d) \in Int /\ American(d) \in AmericanPrices
<1>1. d \in Nat /\ d > 1000
  BY QuotesAssumption
<1>2. American(d) \in Int
  BY <1>1 DEF American
<1> QED
  BY <1>2 DEF AmericanPrices

\* No offer is not a span.
LEMMA NoOfferIsNoSpan == NoOffer \notin Span
<1>1. AmericanPrices \subseteq Int
  BY AmericanIsInt DEF AmericanPrices
<1>2. Span \subseteq [opening : Int, current : Int]
  BY <1>1 DEF Span
<1> QED
  BY <1>2, QuotesAssumption

\* The key of what a book offers on a side names the book, the side and the point.
LEMMA KeyOfOffer ==
  ASSUME NEW q \in Quoted, NEW pt \in Points
  PROVE  /\ KeyOf(q[1], Selection(q[2], pt)) = <<q[1], q[2], pt>>
         /\ KeyOf(q[1], Selection(q[2], pt)) \in LineKeys
BY DEF Quoted, KeyOf, Selection, LineKeys

\* What an ingestion sees of one offer.
SnapshotOf(q, at) ==
  [key |-> KeyOf(q[1], Selection(q[2], offers[q].point)), at |-> at,
   val |-> American(offers[q].price), decimal |-> offers[q].price]

LEMMA SnapshotFields ==
  ASSUME TypeOK, NEW q \in Quoted, offers[q] # NoOffer, NEW at
  PROVE  /\ SnapshotOf(q, at) \in Snapshots(at)
         /\ SnapshotOf(q, at).key = <<q[1], q[2], offers[q].point>>
         /\ SnapshotOf(q, at).key \in LineKeys
         /\ SnapshotOf(q, at).at = at
         /\ SnapshotOf(q, at).val = American(offers[q].price)
         /\ SnapshotOf(q, at).decimal = offers[q].price
         /\ offers[q].price \in Prices /\ offers[q].point \in Points
<1>1. offers[q].price \in Prices /\ offers[q].point \in Points
  BY DEF TypeOK, Offers
<1>2. SnapshotOf(q, at) \in Snapshots(at)
  BY DEF Snapshots, SnapshotOf
<1> QED
  BY <1>1, <1>2, KeyOfOffer DEF SnapshotOf

\* Snapshots are of one instant, of different lines, and hold one price in two forms.
LEMMA SnapshotRows ==
  ASSUME TypeOK, NEW at
  PROVE  /\ \A s \in Snapshots(at) :
              \E q \in Quoted : offers[q] # NoOffer /\ s = SnapshotOf(q, at)
         /\ \A s \in Snapshots(at) :
              /\ s.key \in LineKeys /\ s.at = at /\ s.decimal \in Prices
              /\ s.val = American(s.decimal) /\ s.val \in AmericanPrices
              /\ s = [key |-> s.key, at |-> s.at, val |-> s.val, decimal |-> s.decimal]
         /\ \A r, s \in Snapshots(at) : r.key = s.key => r = s
<1>1. \A s \in Snapshots(at) :
        \E q \in Quoted : offers[q] # NoOffer /\ s = SnapshotOf(q, at)
  BY DEF Snapshots, SnapshotOf
<1>2. ASSUME NEW s \in Snapshots(at)
      PROVE  /\ s.key \in LineKeys /\ s.at = at /\ s.decimal \in Prices
             /\ s.val = American(s.decimal) /\ s.val \in AmericanPrices
             /\ s = [key |-> s.key, at |-> s.at, val |-> s.val, decimal |-> s.decimal]
  <2>1. PICK q \in Quoted : offers[q] # NoOffer /\ s = SnapshotOf(q, at)
    BY <1>1
  <2>2. s = [key |-> s.key, at |-> s.at, val |-> s.val, decimal |-> s.decimal]
    BY <2>1 DEF SnapshotOf
  <2> QED
    BY <2>1, <2>2, SnapshotFields, AmericanIsInt
<1>3. ASSUME NEW r \in Snapshots(at), NEW s \in Snapshots(at), r.key = s.key
      PROVE  r = s
  <2>1. PICK q \in Quoted : offers[q] # NoOffer /\ r = SnapshotOf(q, at)
    BY <1>1
  <2>2. PICK p \in Quoted : offers[p] # NoOffer /\ s = SnapshotOf(p, at)
    BY <1>1
  <2>3. p[1] = q[1] /\ p[2] = q[2]
    BY <1>3, <2>1, <2>2, SnapshotFields
  <2>4. p = q
    BY <2>3 DEF Quoted
  <2> QED
    BY <2>1, <2>2, <2>4
<1> QED
  BY <1>1, <1>2, <1>3

LEMMA TableType ==
  ASSUME TypeOK, NEW r \in table
  PROVE  /\ r.key \in LineKeys /\ r.at \in Nat /\ r.at >= 1
         /\ r.val \in AmericanPrices /\ r.decimal \in Prices
<1>1. r \in StoredRow /\ MaxMoves \in Nat
  BY QuotesAssumption DEF TypeOK
<1> QED
  BY <1>1 DEF StoredRow

---------------------------------------------------------------------------
(* One poll *)

\* A poll stores, later than all there is, the snapshots that differ from the latest
\* of their line; afterwards each snapshot's line has its value.
LEMMA PollStores ==
  ASSUME TypeInv, Poll
  PROVE  \E new \in SUBSET Snapshots(polls + 1) :
           /\ table' = table \cup new
           /\ polls' = IF new = {} THEN polls ELSE polls + 1
           /\ \A s \in Snapshots(polls + 1) \ new :
                \E prev \in Current(table) : prev.key = s.key /\ prev.val = s.val
           /\ \A r \in table, s \in new : r.at < s.at
<1> DEFINE snaps == Snapshots(polls + 1)
           new == FilterChanged(Current(table), snaps)
<1>1. new \in SUBSET snaps
  BY DEF FilterChanged
<1>2. table' = table \cup new /\ polls' = IF new = {} THEN polls ELSE polls + 1
  BY DEF Poll, LatestValues
<1>3. \A s \in snaps \ new : \E prev \in Current(table) : prev.key = s.key /\ prev.val = s.val
  BY DEF FilterChanged
<1>4. polls \in Nat
  BY QuotesAssumption DEF TypeInv, TypeOK
<1>5. ASSUME NEW r \in table, NEW s \in snaps PROVE r.at < s.at
  <2>1. s.at = polls + 1
    BY SnapshotRows DEF TypeInv
  <2>2. r.at \in Nat /\ r.at <= polls
    BY TableType DEF TypeInv, StoreInv
  <2> QED
    BY <1>4, <2>1, <2>2
<1> HIDE DEF new, snaps
<1> QED
  BY <1>1, <1>2, <1>3, <1>5 DEF snaps

LEMMA PolledIsCurrent ==
  ASSUME TypeInv, Poll, NEW s \in Snapshots(polls + 1)
  PROVE  \E c \in Current(table') : c.key = s.key /\ c.val = s.val
<1>1. PICK new \in SUBSET Snapshots(polls + 1) :
           /\ table' = table \cup new
           /\ \A r \in Snapshots(polls + 1) \ new :
                \E prev \in Current(table) : prev.key = r.key /\ prev.val = r.val
           /\ \A r \in table, q \in new : r.at < q.at
  BY PollStores
<1>2. \A r \in Snapshots(polls + 1) : r.key = s.key => r = s
  BY SnapshotRows DEF TypeInv
<1>3. \A r \in table : r.at \in Nat
  BY TableType DEF TypeInv
<1>4. s.at = polls + 1 /\ polls \in Nat
  BY SnapshotRows, QuotesAssumption DEF TypeInv, TypeOK
<1>5. CASE s \in new
  BY <1>1, <1>2, <1>3, <1>4, <1>5 DEF Current
<1>6. CASE s \notin new
  <2>1. PICK prev \in Current(table) : prev.key = s.key /\ prev.val = s.val
    BY <1>1, <1>6
  <2>2. \A r \in new : r.key # s.key
    BY <1>1, <1>2, <1>6
  <2> QED
    BY <1>1, <2>1, <2>2 DEF Current
<1> QED
  BY <1>5, <1>6

\* What is on offer when a poll has been stored is what the queries show.
LEMMA PollShowsOffers ==
  ASSUME TypeInv, Poll
  PROVE  OffersAreCurrent'
<1>1. seen' = offers
  BY DEF Poll
<1> SUFFICES ASSUME NEW q \in Quoted, offers[q] # NoOffer
             PROVE  \E r \in Current(table') :
                      /\ r.key = KeyOf(q[1], Selection(q[2], offers[q].point))
                      /\ r.val = American(offers[q].price)
  BY <1>1 DEF OffersAreCurrent, Current
<1>2. SnapshotOf(q, polls + 1) \in Snapshots(polls + 1)
  BY SnapshotFields DEF TypeInv
<1>3. PICK c \in Current(table') : c.key = SnapshotOf(q, polls + 1).key
                                   /\ c.val = SnapshotOf(q, polls + 1).val
  BY <1>2, PolledIsCurrent
<1> QED
  BY <1>3 DEF SnapshotOf

\* A poll of a market that has not moved stores nothing.
LEMMA PollOfTheSame ==
  ASSUME TypeInv, Poll, seen = offers
  PROVE  polls' = polls
<1>1. ASSUME NEW s \in Snapshots(polls + 1)
      PROVE  \E prev \in Current(table) : prev.key = s.key /\ prev.val = s.val
  <2>1. PICK q \in Quoted : offers[q] # NoOffer /\ s = SnapshotOf(q, polls + 1)
    BY SnapshotRows DEF TypeInv
  <2> QED
    BY <2>1 DEF TypeInv, StoreInv, OffersAreCurrent, SnapshotOf
<1>2. FilterChanged(Current(table), Snapshots(polls + 1)) = {}
  BY <1>1 DEF FilterChanged
<1> QED
  BY <1>2 DEF Poll, LatestValues

---------------------------------------------------------------------------
(* Types, and what the queries show *)

LEMMA TypeInit == Init => TypeInv
<1> SUFFICES ASSUME Init PROVE TypeInv
  OBVIOUS
<1>1. 0 \in 0..MaxMoves /\ 0 \in 0..(MaxMoves + 1)
  BY QuotesAssumption
<1>2. TypeOK
  BY <1>1 DEF Init, TypeOK
<1>3. OffersAreCurrent
  BY DEF Init, OffersAreCurrent
<1>4. StoreInv
  BY <1>3 DEF Init, StoreInv, SlotsUnique
<1> QED
  BY <1>2, <1>4 DEF TypeInv

\* A poll extends the span of each line it quotes by the price it saw.
LEMMA SpanGrows ==
  ASSUME TypeInv, Poll, NEW k \in LineKeys
  PROVE  /\ (\A r \in Snapshots(polls + 1) : r.key # k) => span'[k] = span[k]
         /\ \A s \in Snapshots(polls + 1) : s.key = k =>
              span'[k] = [opening |-> IF span[k] = NoOffer THEN s.val ELSE span[k].opening,
                          current |-> s.val]
<1>1. span' = Extended(Snapshots(polls + 1))
  BY DEF Poll
<1>2. ASSUME NEW s \in Snapshots(polls + 1), s.key = k
      PROVE  (CHOOSE r \in Snapshots(polls + 1) : r.key = k) = s
  BY <1>2, SnapshotRows DEF TypeInv
<1> QED
  BY <1>1, <1>2 DEF Extended

\* A line that is quoted has a span.
LEMMA PolledSpan ==
  ASSUME TypeInv, Poll, NEW s \in Snapshots(polls + 1)
  PROVE  span'[s.key] \in Span /\ span'[s.key] # NoOffer
<1> DEFINE k == s.key
<1>1. s.val \in AmericanPrices /\ k \in LineKeys
  BY SnapshotRows DEF TypeInv
<1>2. span[k] # NoOffer => span[k].opening \in AmericanPrices
  BY <1>1 DEF TypeInv, TypeOK, Span
<1>3. span'[k] = [opening |-> IF span[k] = NoOffer THEN s.val ELSE span[k].opening,
                  current |-> s.val]
  BY <1>1, SpanGrows
<1>4. (IF span[k] = NoOffer THEN s.val ELSE span[k].opening) \in AmericanPrices
  BY <1>1, <1>2
<1> QED
  BY <1>1, <1>3, <1>4, NoOfferIsNoSpan DEF Span

LEMMA TypeStep == TypeInv /\ [Next]_vars => TypeInv'
<1> SUFFICES ASSUME TypeInv, [Next]_vars PROVE TypeInv'
  OBVIOUS
<1>0. MaxMoves \in Nat /\ moves \in Nat /\ polls \in Nat /\ NotYet \notin Nat
  BY QuotesAssumption DEF TypeInv, TypeOK
<1>1. CASE Poll
  <2>1. PICK new \in SUBSET Snapshots(polls + 1) :
           /\ table' = table \cup new
           /\ polls' = IF new = {} THEN polls ELSE polls + 1
           /\ \A r \in table, s \in new : r.at < s.at
    BY <1>1, PollStores
  <2>2. /\ seen' = offers
        /\ UNCHANGED <<offers, moves, commence, closing, spanAtStart>>
    BY <1>1 DEF Poll
  <2>3. polls' \in Nat /\ polls <= polls' /\ polls' <= moves + 1
    <3>1. CASE seen = offers
      BY <1>0, <1>1, <3>1, PollOfTheSame DEF TypeInv, StoreInv
    <3>2. CASE seen # offers
      BY <1>0, <2>1, <3>2 DEF TypeInv, StoreInv
    <3> QED
      BY <3>1, <3>2
  <2>4. polls' \in 0..(MaxMoves + 1)
    BY <1>0, <2>3 DEF TypeInv, TypeOK
  <2>5. \A s \in new : /\ s \in Snapshots(polls + 1) /\ s.at = polls + 1 /\ s.at = polls'
                       /\ s.key \in LineKeys /\ s.decimal \in Prices
                       /\ s.val = American(s.decimal) /\ s.val \in AmericanPrices
                       /\ s = [key |-> s.key, at |-> s.at, val |-> s.val,
                               decimal |-> s.decimal]
    BY <2>1, SnapshotRows DEF TypeInv
  <2>6. new \subseteq StoredRow
    BY <1>0, <2>4, <2>5 DEF StoredRow
  <2>7. span' \in [LineKeys -> Span \cup {NoOffer}]
    <3>1. span' = [k \in LineKeys |-> span'[k]]
      BY <1>1 DEF Poll, Extended
    <3>2. ASSUME NEW k \in LineKeys PROVE span'[k] \in Span \cup {NoOffer}
      <4>1. CASE \A r \in Snapshots(polls + 1) : r.key # k
        BY <1>1, <4>1, SpanGrows DEF TypeInv, TypeOK
      <4>2. ASSUME NEW s \in Snapshots(polls + 1), s.key = k
            PROVE  span'[k] \in Span
        BY <1>1, <4>2, PolledSpan
      <4> QED
        BY <4>1, <4>2
    <3> QED
      BY <3>1, <3>2
  <2>8. TypeOK'
    BY <2>1, <2>2, <2>4, <2>6, <2>7 DEF TypeInv, TypeOK
  <2>9. SlotsUnique(table')
    <3>1. \A r, s \in new : r.key = s.key => r = s
      BY <2>5, SnapshotRows DEF TypeInv
    <3>2. \A r \in table, s \in new : r.at # s.at
      BY <1>0, <2>1, <2>5, TableType DEF TypeInv
    <3> QED
      BY <2>1, <3>1, <3>2 DEF SlotsUnique, SameSlot, TypeInv, StoreInv
  <2>10. \A r \in table' : r.at <= polls' /\ r.val = American(r.decimal)
    BY <1>0, <2>1, <2>3, <2>5, TableType DEF TypeInv, StoreInv
  <2>11. commence' # NotYet => commence' <= polls'
    BY <1>0, <2>2, <2>3 DEF TypeInv, TypeOK, StoreInv
  <2>12. StoreInv'
    BY <1>1, <2>2, <2>3, <2>9, <2>10, <2>11, PollShowsOffers DEF StoreInv
  <2> QED
    BY <2>8, <2>12 DEF TypeInv
<1>2. CASE Start
  <2>1. TypeOK'
    BY <1>2 DEF Start, TypeInv, TypeOK
  <2>2. OffersAreCurrent'
    BY <1>2 DEF Start, TypeInv, StoreInv, OffersAreCurrent
  <2>3. StoreInv'
    BY <1>0, <1>2, <2>2 DEF Start, TypeInv, StoreInv, SlotsUnique
  <2> QED
    BY <2>1, <2>3 DEF TypeInv
<1>3. CASE CloseGame
  <2>1. CurrentAsOf(table, commence) \subseteq table
    BY DEF CurrentAsOf, Current
  <2>2. TypeOK'
    BY <1>3, <2>1 DEF CloseGame, TypeInv, TypeOK
  <2>3. OffersAreCurrent'
    BY <1>3 DEF CloseGame, TypeInv, StoreInv, OffersAreCurrent
  <2>4. StoreInv'
    BY <1>3, <2>3 DEF CloseGame, TypeInv, StoreInv, SlotsUnique
  <2> QED
    BY <2>2, <2>4 DEF TypeInv
<1>4. ASSUME NEW q \in Quoted, Move(q) PROVE TypeInv'
  <2>1. moves' = moves + 1 /\ moves' \in 0..MaxMoves
    BY <1>0, <1>4 DEF Move, TypeInv, TypeOK
  <2>2. TypeOK'
    BY <1>4, <2>1 DEF Move, TypeInv, TypeOK
  <2>3. OffersAreCurrent'
    BY <1>4 DEF Move, TypeInv, StoreInv, OffersAreCurrent
  <2>4. StoreInv'
    BY <1>0, <1>4, <2>1, <2>3 DEF Move, TypeInv, StoreInv, SlotsUnique
  <2> QED
    BY <2>2, <2>4 DEF TypeInv
<1>5. CASE UNCHANGED vars
  BY <1>5 DEF vars, TypeInv, TypeOK, StoreInv, SlotsUnique, OffersAreCurrent
<1> QED
  BY <1>1, <1>2, <1>3, <1>4, <1>5 DEF Next

\* Every variable keeps its type: among others, there are never more polls that store
\* something than the first and one per move of the market.
THEOREM TypeCorrect == Spec => []TypeOK
<1>1. Spec => []TypeInv
  BY TypeInit, TypeStep, PTL DEF Spec
<1> QED
  BY <1>1, PTL DEF TypeInv

\* What a book offered at the last poll is what the queries show for it, however often
\* point and price have moved there and back.
THEOREM OffersAreCurrentCorrect == Spec => []OffersAreCurrent
<1>1. Spec => []TypeInv
  BY TypeInit, TypeStep, PTL DEF Spec
<1> QED
  BY <1>1, PTL DEF TypeInv, StoreInv
---------------------------------------------------------------------------
(* Movements *)

LEMMA SpanInit == Init => SpanInv
BY DEF Init, SpanInv, History

LEMMA SpanStep == TypeInv /\ SpanInv /\ [Next]_vars => SpanInv'
<1> SUFFICES ASSUME TypeInv, SpanInv, [Next]_vars PROVE SpanInv'
  OBVIOUS
<1>1. CASE Poll
  <2>1. PICK new \in SUBSET Snapshots(polls + 1) :
           /\ table' = table \cup new
           /\ \A s \in Snapshots(polls + 1) \ new :
                \E prev \in Current(table) : prev.key = s.key /\ prev.val = s.val
           /\ \A r \in table, s \in new : r.at < s.at
    BY <1>1, PollStores
  <2> SUFFICES ASSUME NEW k \in LineKeys
               PROVE  /\ span'[k] = NoOffer => History(k)' = {}
                      /\ span'[k] # NoOffer =>
                           /\ \E f \in table' : IsFirst(f, History(k)') /\ f.val = span'[k].opening
                           /\ \E l \in table' : IsFinal(l, History(k)') /\ l.val = span'[k].current
    BY DEF SpanInv, IsFirst, IsFinal
  <2>2. History(k)' = History(k) \cup {r \in new : r.key = k}
    BY <2>1 DEF History
  <2>3. CASE \A r \in Snapshots(polls + 1) : r.key # k
    <3>1. span'[k] = span[k]
      BY <1>1, <2>3, SpanGrows
    <3>2. History(k)' = History(k)
      BY <2>2, <2>3
    <3> QED
      BY <2>1, <3>1, <3>2 DEF SpanInv
  <2>4. ASSUME NEW s \in Snapshots(polls + 1), s.key = k
        PROVE  /\ span'[k] = NoOffer => History(k)' = {}
               /\ span'[k] # NoOffer =>
                    /\ \E f \in table' : IsFirst(f, History(k)') /\ f.val = span'[k].opening
                    /\ \E l \in table' : IsFinal(l, History(k)') /\ l.val = span'[k].current
    <3>1. span'[k] = [opening |-> IF span[k] = NoOffer THEN s.val ELSE span[k].opening,
                      current |-> s.val]
      BY <1>1, <2>4, SpanGrows
    <3>2. \A r \in Snapshots(polls + 1) : r.key = k => r = s
      BY <2>4, SnapshotRows DEF TypeInv
    <3>3. \A r \in table : r.at \in Nat
      BY TableType DEF TypeInv
    <3>4. s.at = polls + 1 /\ polls \in Nat
      BY SnapshotRows, QuotesAssumption DEF TypeInv, TypeOK
    <3>5. CASE s \in new
      <4>1. History(k)' = History(k) \cup {s} /\ s \in table' /\ \A r \in History(k) : r.at < s.at
        BY <2>1, <2>2, <2>4, <3>2, <3>5 DEF History
      <4>2. History(k) \subseteq table
        BY DEF History
      <4>3. IsFinal(s, History(k)') /\ s.val = span'[k].current
        BY <3>1, <3>3, <3>4, <4>1, <4>2 DEF IsFinal
      <4>4. CASE span[k] = NoOffer
        <5>1. History(k) = {}
          BY <4>4 DEF SpanInv
        <5>2. IsFirst(s, History(k)') /\ s.val = span'[k].opening
          BY <3>1, <3>4, <4>1, <4>4, <5>1 DEF IsFirst
        <5> QED
          BY <1>1, <2>4, <4>1, <4>3, <5>2, PolledSpan
      <4>5. CASE span[k] # NoOffer
        <5>1. PICK f \in table : IsFirst(f, History(k)) /\ f.val = span[k].opening
          BY <4>5 DEF SpanInv
        <5>2. IsFirst(f, History(k)') /\ f.val = span'[k].opening /\ f \in table'
          BY <2>1, <3>1, <3>3, <3>4, <4>1, <4>2, <4>5, <5>1 DEF IsFirst
        <5> QED
          BY <1>1, <2>4, <4>1, <4>3, <5>2, PolledSpan
      <4> QED
        BY <4>4, <4>5
    <3>6. CASE s \notin new
      <4>1. PICK prev \in Current(table) : prev.key = s.key /\ prev.val = s.val
        BY <2>1, <3>6
      <4>2. History(k)' = History(k) /\ table' = table \cup new
        BY <2>1, <2>2, <3>2, <3>6
      <4>3. IsFinal(prev, History(k)') /\ prev.val = span'[k].current /\ prev \in table'
        BY <2>4, <3>1, <4>1, <4>2 DEF IsFinal, Current, History
      <4>4. span[k] # NoOffer
        BY <4>2, <4>3 DEF SpanInv, IsFinal
      <4>5. PICK f \in table : IsFirst(f, History(k)) /\ f.val = span[k].opening
        BY <4>4 DEF SpanInv
      <4>6. IsFirst(f, History(k)') /\ f.val = span'[k].opening /\ f \in table'
        BY <3>1, <4>2, <4>4, <4>5
      <4> QED
        BY <1>1, <2>4, <4>3, <4>6, PolledSpan
    <3> QED
      BY <3>5, <3>6
  <2> QED
    BY <2>3, <2>4
<1>2. CASE UNCHANGED <<table, span>>
  BY <1>2 DEF SpanInv, History, IsFirst, IsFinal
<1> QED
  BY <1>1, <1>2 DEF Next, Start, CloseGame, Move, vars

LEMMA SpanInvariant == Spec => [](TypeInv /\ SpanInv)
<1>1. Init => TypeInv /\ SpanInv
  BY TypeInit, SpanInit
<1>2. TypeInv /\ SpanInv /\ [Next]_vars => (TypeInv /\ SpanInv)'
  BY TypeStep, SpanStep
<1> QED
  BY <1>1, <1>2, PTL DEF Spec

\* A line's first row, and its last, are the only ones.
LEMMA OpeningAndLatest ==
  ASSUME TypeInv, NEW k \in LineKeys
  PROVE  /\ \A f \in table : IsFirst(f, History(k)) => Opening(k) = f
         /\ \A l \in table : IsFinal(l, History(k)) => Latest(k) = l
<1>1. \A r \in table : r.at \in Nat
  BY TableType DEF TypeInv
<1>2. \A r, q \in History(k) : r \in table /\ (r.at = q.at => r = q)
  BY DEF History, TypeInv, StoreInv, SlotsUnique, SameSlot
<1>3. ASSUME NEW f \in table, IsFirst(f, History(k)) PROVE Opening(k) = f
  <2>1. \A r \in History(k) : (\A q \in History(k) : r.at <= q.at) => r = f
    BY <1>1, <1>2, <1>3 DEF IsFirst
  <2> QED
    BY <1>3, <2>1 DEF IsFirst, Opening
<1>4. ASSUME NEW l \in table, IsFinal(l, History(k)) PROVE Latest(k) = l
  <2>1. \A r \in History(k) : (\A q \in History(k) : q.at <= r.at) => r = l
    BY <1>1, <1>2, <1>4 DEF IsFinal
  <2> QED
    BY <1>4, <2>1 DEF IsFinal, Latest
<1> QED
  BY <1>3, <1>4

\* A movement runs from the first price ever polled of its line to the last one.
THEOREM MovementSpansOffersCorrect == Spec => []MovementSpansOffers
<1>1. TypeInv /\ SpanInv => MovementSpansOffers
  <2> SUFFICES ASSUME TypeInv, SpanInv, NEW k \in LineKeys, span[k] # NoOffer
               PROVE  \E m \in Movements :
                        m.key = k /\ m.opening = span[k].opening /\ m.current = span[k].current
    BY DEF MovementSpansOffers
  <2>1. PICK f \in table : IsFirst(f, History(k)) /\ f.val = span[k].opening
    BY DEF SpanInv
  <2>2. PICK l \in table : IsFinal(l, History(k)) /\ l.val = span[k].current
    BY DEF SpanInv
  <2>3. Opening(k) = f /\ Latest(k) = l
    BY <2>1, <2>2, OpeningAndLatest
  <2>4. k \in {r.key : r \in table}
    BY <2>1 DEF IsFirst, History
  <2> DEFINE m == [key |-> k, opening |-> Opening(k).val, current |-> Latest(k).val,
                   closing |-> {c.val : c \in {d \in closing : d.key = k}}]
  <2>5. m \in Movements
    BY <2>4 DEF Movements
  <2>6. m.key = k /\ m.opening = span[k].opening /\ m.current = span[k].current
    BY <2>1, <2>2, <2>3
  <2> QED
    BY <2>5, <2>6
<1> QED
  BY <1>1, SpanInvariant, PTL
---------------------------------------------------------------------------
(* The close *)

LEMMA StartInit == Init => StartInv
BY DEF Init, StartInv

LEMMA StartStep == TypeInv /\ SpanInv /\ StartInv /\ [Next]_vars => StartInv'
<1> SUFFICES ASSUME TypeInv, SpanInv, StartInv, [Next]_vars PROVE StartInv'
  OBVIOUS
<1>0. polls \in Nat /\ NotYet \notin Nat /\ \A r \in table : r.at \in Nat /\ r.at <= polls
  BY QuotesAssumption, TableType DEF TypeInv, TypeOK, StoreInv
<1>1. CASE Poll
  <2>1. PICK new \in SUBSET Snapshots(polls + 1) : table' = table \cup new
    BY <1>1, PollStores
  <2>2. UNCHANGED <<commence, closing, spanAtStart>>
    BY <1>1 DEF Poll
  <2>3. CASE commence = NotYet
    BY <2>2, <2>3 DEF StartInv
  <2>4. CASE commence # NotYet
    <3>1. commence \in Nat /\ commence <= polls
      BY <2>4, QuotesAssumption DEF TypeInv, TypeOK, StoreInv
    <3>2. \A r \in new : ~ (r.at <= commence)
      BY <1>0, <3>1, SnapshotRows DEF TypeInv
    <3>3. {r \in table' : r.at <= commence} = {r \in table : r.at <= commence}
      BY <2>1, <3>2
    <3>4. CurrentAsOf(table, commence)' = CurrentAsOf(table, commence)
      BY <2>2, <3>3 DEF CurrentAsOf, Current
    <3>5. \A k \in LineKeys : UntilStart(k)' = UntilStart(k)
      BY <2>2, <3>3 DEF UntilStart, History
    <3> QED
      BY <2>1, <2>2, <2>4, <3>4, <3>5 DEF StartInv, IsFinal
  <2> QED
    BY <2>3, <2>4
<1>2. CASE Start
  <2>1. commence = NotYet /\ commence' = polls /\ spanAtStart' = span
        /\ UNCHANGED <<table, closing>>
    BY <1>2 DEF Start
  <2>2. closing' = {} /\ commence' # NotYet
    BY <1>0, <2>1 DEF StartInv
  <2>3. \A k \in LineKeys : UntilStart(k)' = History(k)
    BY <1>0, <2>1 DEF UntilStart, History
  <2>4. \A k \in LineKeys : spanAtStart'[k] # NoOffer =>
          \E l \in table' : IsFinal(l, UntilStart(k)') /\ l.val = spanAtStart'[k].current
    BY <2>1, <2>3 DEF SpanInv
  <2> QED
    BY <2>2, <2>4 DEF StartInv, IsFinal
<1>3. CASE CloseGame
  BY <1>3 DEF CloseGame, StartInv, UntilStart, History, IsFinal
<1>4. ASSUME NEW q \in Quoted, Move(q) PROVE StartInv'
  BY <1>4 DEF Move, StartInv, UntilStart, History, IsFinal
<1>5. CASE UNCHANGED vars
  BY <1>5 DEF vars, StartInv, UntilStart, History, IsFinal
<1> QED
  BY <1>1, <1>2, <1>3, <1>4, <1>5 DEF Next

\* Swept, a movement closes at the last price polled of its line before the start, and
\* one snapshot of the line, the one with that price, is flagged as closing.
THEOREM ClosingShownCorrect == Spec => []ClosingShown
<1>1. TypeInv /\ StartInv => ClosingShown
  <2> SUFFICES ASSUME TypeInv, StartInv, closing # {},
                      NEW k \in LineKeys, spanAtStart[k] # NoOffer
               PROVE  /\ \E m \in Movements :
                           m.key = k /\ m.closing = {spanAtStart[k].current}
                      /\ {r.val : r \in {h \in History(k) : IsClosing(h)}}
                           = {spanAtStart[k].current}
                      /\ Cardinality({h \in History(k) : IsClosing(h)}) = 1
    BY DEF ClosingShown
  <2>1. closing = CurrentAsOf(table, commence)
    BY DEF StartInv
  <2>2. PICK l \in table : IsFinal(l, UntilStart(k)) /\ l.val = spanAtStart[k].current
    BY DEF StartInv
  <2>3. \A r \in table : r.at \in Nat
    BY TableType DEF TypeInv
  <2>4. l.key = k /\ l.at <= commence
    BY <2>2 DEF IsFinal, UntilStart, History
  <2>5. l \in closing
    BY <2>1, <2>2, <2>4 DEF CurrentAsOf, Current, IsFinal, UntilStart, History
  <2>6. \A d \in closing : d.key = k => d = l
    <3>1. ASSUME NEW d \in closing, d.key = k PROVE d = l
      <4>1. d \in table /\ d.at <= commence
        BY <2>1 DEF CurrentAsOf, Current
      <4>2. d.at <= l.at
        BY <2>2, <3>1, <4>1 DEF IsFinal, UntilStart, History
      <4>3. l.at <= d.at
        BY <2>1, <2>2, <2>4, <3>1 DEF CurrentAsOf, Current
      <4>4. d.at = l.at
        BY <2>3, <4>1, <4>2, <4>3
      <4> QED
        BY <2>4, <3>1, <4>1, <4>4 DEF TypeInv, StoreInv, SlotsUnique, SameSlot
    <3> QED
      BY <3>1
  <2>7. {d \in closing : d.key = k} = {l}
    BY <2>4, <2>5, <2>6
  <2>8. {h \in History(k) : IsClosing(h)} = {l}
    <3>1. ASSUME NEW h \in History(k), IsClosing(h) PROVE h = l
      <4>1. PICK c \in closing : c.key = h.key /\ c.at = h.at
        BY <3>1 DEF IsClosing
      <4>2. h \in table /\ h.key = k
        BY DEF History
      <4>3. c = l
        BY <2>6, <4>1, <4>2
      <4> QED
        BY <2>4, <4>1, <4>2, <4>3 DEF TypeInv, StoreInv, SlotsUnique, SameSlot
    <3>2. l \in History(k) /\ IsClosing(l)
      BY <2>4, <2>5 DEF History, IsClosing
    <3> QED
      BY <3>1, <3>2
  <2>9. \E m \in Movements : m.key = k /\ m.closing = {spanAtStart[k].current}
    <3> DEFINE m == [key |-> k, opening |-> Opening(k).val, current |-> Latest(k).val,
                     closing |-> {c.val : c \in {d \in closing : d.key = k}}]
    <3>1. k \in {r.key : r \in table}
      BY <2>4
    <3>2. m \in Movements
      BY <3>1 DEF Movements
    <3>3. m.key = k /\ m.closing = {spanAtStart[k].current}
      BY <2>2, <2>7
    <3> QED
      BY <3>2, <3>3
  <2> QED
    BY <2>2, <2>8, <2>9, FS_Singleton
<1>2. TypeInv /\ SpanInv /\ StartInv /\ [Next]_vars => StartInv'
  BY StartStep
<1>3. Spec => []StartInv
  BY <1>2, StartInit, SpanInvariant, PTL DEF Spec
<1> QED
  BY <1>1, <1>3, SpanInvariant, PTL

---------------------------------------------------------------------------
(* The best price *)

\* Higher decimal odds are never lower American ones, rounding and the change of form
\* at evens included.
LEMMA AmericanMonotone ==
  ASSUME NEW d \in Prices, NEW e \in Prices, d <= e
  PROVE  American(d) <= American(e)
<1>1. d \in Nat /\ d > 1000 /\ e \in Nat /\ e > 1000
  BY QuotesAssumption
<1>2. CASE d >= 2000
  BY <1>1, <1>2 DEF American
<1>3. CASE d < 2000 /\ e >= 2000
  BY <1>1, <1>3 DEF American
<1>4. CASE e < 2000
  <2> DEFINE x == d - 1000
             y == e - 1000
             a == (200000 + x) \div (2 * x)
             b == (200000 + y) \div (2 * y)
  <2>1. x \in Nat /\ y \in Nat /\ x > 0 /\ y > 0 /\ x <= y
    BY <1>1
  <2>2. American(d) = -a /\ American(e) = -b
    BY <1>1, <1>4 DEF American
  <2>3. /\ a \in Nat /\ 200000 + x < (a + 1) * (2 * x)
        /\ b \in Nat /\ b * (2 * y) <= 200000 + y
    <3> HIDE DEF x, y
    <3> QED
      BY <2>1
  <2> HIDE DEF x, y, a, b
  <2>4. ASSUME a < b PROVE FALSE
    <3> DEFINE m == 2 * b - 1
    <3>1. m \in Nat /\ m > 0 /\ m >= 2 * a + 1
      BY <2>3, <2>4
    <3>2. m * y <= 200000
      BY <2>1, <2>3
    <3>3. 200000 < (2 * a + 1) * x
      BY <2>1, <2>3
    <3>4. (2 * a + 1) * x <= m * x
      <4> HIDE DEF m
      <4> QED
        BY <2>1, <2>3, <3>1
    <3>5. m * x <= m * y
      <4> HIDE DEF m
      <4> QED
        BY <2>1, <3>1
    <3> HIDE DEF m
    <3>6. m * x \in Nat /\ m * y \in Nat /\ (2 * a + 1) * x \in Nat
      BY <2>1, <2>3, <3>1
    <3> QED
      BY <3>2, <3>3, <3>4, <3>5, <3>6
  <2> QED
    BY <2>2, <2>3, <2>4
<1> QED
  BY <1>1, <1>2, <1>3, <1>4

\* One current row per line: a query loads no more rows than there are lines.
LEMMA CurrentRows ==
  ASSUME TypeInv, IsFiniteSet(LineKeys)
  PROVE  /\ IsFiniteSet(Current(table)) /\ Cardinality(Current(table)) <= Cardinality(LineKeys)
         /\ \A r, s \in Current(table) : r.key = s.key => r = s
<1> DEFINE rows == Current(table)
           f == [r \in rows |-> r.key]
<1>1. \A r \in table : r.at \in Nat /\ r.key \in LineKeys
  BY TableType DEF TypeInv
<1>2. \A r, s \in rows : r.key = s.key => r = s
  BY <1>1, CurrentUnique DEF TypeInv, StoreInv
<1>3. f \in [rows -> LineKeys]
  BY <1>1 DEF Current
<1>4. \A r, s \in rows : f[r] = f[s] => r = s
  BY <1>2
<1>5. f \in Injection(rows, LineKeys)
  BY <1>3, <1>4 DEF Injection, IsInjective
<1> HIDE DEF f, rows
<1>6. IsFiniteSet(rows) /\ Cardinality(rows) <= Cardinality(LineKeys)
  BY <1>5, FS_Injection
<1> QED
  BY <1>2, <1>6 DEF rows

\* A limit that is no less than the number of lines leaves none out.
LEMMA AllLoaded ==
  ASSUME TypeInv, IsFiniteSet(LineKeys), Cardinality(LineKeys) <= BestLimit
  PROVE  Loaded(BestLimit) = Current(table)
<1> DEFINE rows == Current(table)
<1>1. /\ IsFiniteSet(rows) /\ Cardinality(rows) <= Cardinality(LineKeys)
      /\ \A r \in rows : r.key \in LineKeys
  BY CurrentRows, TableType DEF Current, TypeInv
<1>2. Cardinality(LineKeys) \in Nat /\ BestLimit \in Nat /\ Cardinality(rows) \in Nat
  BY <1>1, FS_CardinalityType, QuotesAssumption
<1> HIDE DEF rows
<1>3. ASSUME NEW r \in rows PROVE Cardinality({s \in rows : Before(s, r)}) < BestLimit
  <2> DEFINE first == {s \in rows : Before(s, r)}
  <2>1. SortKey[r.key] \in Nat
    BY <1>1, QuotesAssumption
  <2>2. r \notin first
    BY <2>1 DEF Before
  <2>3. first \in SUBSET rows /\ first # rows
    BY <2>2
  <2> HIDE DEF first
  <2>4. IsFiniteSet(first) /\ Cardinality(first) <= Cardinality(rows)
        /\ Cardinality(first) # Cardinality(rows)
    BY <1>1, <2>3, FS_Subset
  <2>5. Cardinality(first) \in Nat
    BY <2>4, FS_CardinalityType
  <2>6. Cardinality(first) < BestLimit
    BY <1>1, <1>2, <2>4, <2>5
  <2> QED
    BY <2>6 DEF first
<1> QED
  BY <1>3 DEF Loaded, rows

\* Each side that has lines has a best one: of the highest price, the first loaded.
LEMMA BestOfSide ==
  ASSUME TypeInv, IsFiniteSet(LineKeys), Cardinality(LineKeys) <= BestLimit,
         NEW r \in Current(table)
  PROVE  \E b \in Best : b \in table /\ b.key[2] = r.key[2] /\ r.decimal <= b.decimal
<1> DEFINE rows == Current(table)
           S == {s \in rows : s.key[2] = r.key[2]}
           price == [s \in S |-> s.decimal]
           D == {price[s] : s \in S}
<1>1. \A s \in S : /\ s \in table /\ s.decimal \in Nat /\ s.key \in LineKeys
                   /\ SortKey[s.key] \in Nat
  BY TableType, QuotesAssumption DEF Current, TypeInv
<1>2. IsFiniteSet(S) /\ r \in S /\ \A s, t \in S : s.key = t.key => s = t
  BY CurrentRows, FS_Subset
<1>3. Loaded(BestLimit) = rows
  BY AllLoaded
<1>4. PICK top \in S : \A s \in S : s.decimal <= top.decimal
  <2>1. DOMAIN price = S /\ price = [s \in S |-> price[s]] /\ D \in SUBSET Nat /\ D # {}
    BY <1>1, <1>2
  <2>2. \E m \in D : \A n \in D : n <= m
    <3> HIDE DEF D, S, price
    <3>1. IsFiniteSet({price[s] : s \in S})
      BY <1>2, <2>1, ImageFinite
    <3> QED
      BY <2>1, <3>1, LatestInstant DEF D
  <2> QED
    BY <2>2
<1> DEFINE P == {s \in S : s.decimal = top.decimal}
           place == [s \in P |-> SortKey[s.key]]
           E == {place[s] : s \in P}
<1>5. PICK b \in P : \A s \in P : SortKey[b.key] <= SortKey[s.key]
  <2>1. DOMAIN place = P /\ place = [s \in P |-> place[s]] /\ E \in SUBSET Nat /\ E # {}
        /\ P \in SUBSET S
    BY <1>1, <1>4
  <2>2. \E m \in E : \A n \in E : m <= n
    <3> HIDE DEF E, P, S, place
    <3>1. IsFiniteSet(P)
      BY <1>2, <2>1, FS_Subset
    <3>2. IsFiniteSet({place[s] : s \in P})
      BY <2>1, <3>1, ImageFinite
    <3> QED
      BY <2>1, <3>2, EarliestInstant DEF E
  <2> QED
    BY <2>2
<1>6. b \in rows /\ b \in S /\ b.decimal = top.decimal
  BY <1>5
<1>7. ASSUME NEW s \in rows, s.key[2] = b.key[2], s # b
      PROVE  Better(b, s) \/ (b.decimal = s.decimal /\ Before(b, s))
  <2>1. s \in S /\ s.decimal <= b.decimal
    BY <1>4, <1>6, <1>7
  <2>2. CASE s.decimal < b.decimal
    BY <1>1, <1>6, <2>1, <2>2 DEF Better
  <2>3. CASE s.decimal = b.decimal
    <3>1. SortKey[b.key] <= SortKey[s.key]
      BY <1>5, <1>6, <2>1, <2>3
    <3>2. SortKey[b.key] # SortKey[s.key]
      BY <1>1, <1>2, <1>6, <1>7, <2>1, QuotesAssumption
    <3>3. SortKey[b.key] \in Nat /\ SortKey[s.key] \in Nat
      BY <1>1, <1>6, <2>1
    <3> QED
      BY <2>3, <3>1, <3>2, <3>3 DEF Before
  <2> QED
    BY <1>1, <1>6, <2>1, <2>2, <2>3
<1>8. b \in Best
  BY <1>3, <1>6, <1>7 DEF Best
<1> QED
  BY <1>1, <1>2, <1>4, <1>6, <1>8

\* As long as a game has no more lines than Best loads, it answers for a side odds at
\* least as good as every book offered at the last poll.
THEOREM BestBeatsOffersCorrect ==
  ASSUME IsFiniteSet(LineKeys), Cardinality(LineKeys) <= BestLimit
  PROVE  Spec => []BestBeatsOffers
<1>1. TypeInv => BestBeatsOffers
  <2> SUFFICES ASSUME TypeInv, NEW q \in Quoted, seen[q] # NoOffer
               PROVE  \E b \in Best : b.key[2] = q[2] /\ b.val >= American(seen[q].price)
    BY DEF BestBeatsOffers
  <2>1. seen[q].point \in Points
    BY DEF TypeInv, TypeOK, Offers
  <2>2. PICK r \in Current(table) :
          /\ r.key = KeyOf(q[1], Selection(q[2], seen[q].point))
          /\ r.val = American(seen[q].price)
    BY DEF TypeInv, StoreInv, OffersAreCurrent
  <2>3. r.key[2] = q[2]
    BY <2>1, <2>2, KeyOfOffer
  <2>4. PICK b \in Best : b \in table /\ b.key[2] = r.key[2] /\ r.decimal <= b.decimal
    BY BestOfSide
  <2>5. /\ r.decimal \in Prices /\ b.decimal \in Prices
        /\ r.val = American(r.decimal) /\ b.val = American(b.decimal)
    BY <2>4, TableType DEF Current, TypeInv, StoreInv
  <2>6. r.val <= b.val /\ r.val \in Int /\ b.val \in Int
    BY <2>4, <2>5, AmericanMonotone, AmericanIsInt
  <2> QED
    BY <2>2, <2>3, <2>4, <2>6
<1>2. Spec => []TypeInv
  BY TypeInit, TypeStep, PTL DEF Spec
<1> QED
  BY <1>1, <1>2, PTL
=============================================================================
