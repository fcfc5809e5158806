------------------------------ MODULE Quotes ------------------------------
(***************************************************************************)
(* What the read API says of one market of one game whose point moves.     *)
(* Each book offers each side at a point and a price.  BuildSelection puts *)
(* the point into the selection, so the line key of a snapshot is          *)
(* <<book, side, point>>: a moved line is a new key, and the rows of the   *)
(* old one stay.  A price is decimal odds in thousandths; what a row is    *)
(* compared by is their American form.  Ingestion and the closing sweep    *)
(* are one step each here (WritePath and ClosingSweep have the races).     *)
(***************************************************************************)
EXTENDS LineStore, Integers, FiniteSets

CONSTANTS
  Books, Sides,
  Points,        \* line values
  Prices,        \* decimal odds in thousandths
  SortKey,       \* the place of each line key in the order of a query
  BestLimit,     \* how many lines Best loads (200)
  NoOffer,       \* the book does not offer the side
  NotYet,        \* the game has not started
  MaxMoves       \* bound: moves of the market

Offers == [point : Points, price : Prices]
LineKeys == Books \X Sides \X Points

ASSUME QuotesAssumption ==
  /\ Prices \subseteq Nat /\ \A d \in Prices : d > 1000
  /\ SortKey \in [LineKeys -> Nat]
  /\ \A k, l \in LineKeys : SortKey[k] = SortKey[l] => k = l
  /\ BestLimit \in Nat \ {0} /\ MaxMoves \in Nat
  /\ NoOffer \notin Offers /\ NoOffer \notin [opening : Int, current : Int]
  /\ NotYet \notin Nat

VARIABLES
  offers,        \* what each book offers on each side
  moves,         \* spent of MaxMoves
  table,         \* line_snapshots
  polls,         \* polls that stored something; their captured_at
  commence,      \* when the game started
  closing,       \* closing_lines
  seen,          \* history: the offers at the last poll that could be stored
  span,          \* history: the first and last price stored polls saw of a line
  spanAtStart    \* history: span when the game started

vars == <<offers, moves, table, polls, commence, closing, seen, span, spanAtStart>>

Quoted == Books \X Sides

\* DecimalToAmerican of d thousandths, rounded half away from zero: 1909 is -110.
American(d) ==
  IF d >= 2000 THEN ((d - 1000) + 5) \div 10
               ELSE -((200000 + (d - 1000)) \div (2 * (d - 1000)))

\* A line whose first price was one thing and whose last was another, in American odds.
AmericanPrices == {American(d) : d \in Prices}
Span == [opening : AmericanPrices, current : AmericanPrices]

Init ==
  /\ offers \in [Quoted -> Offers]
  /\ seen = [q \in Quoted |-> NoOffer]
  /\ span = [k \in LineKeys |-> NoOffer] /\ spanAtStart = span
  /\ moves = 0 /\ table = {} /\ polls = 0
  /\ commence = NotYet /\ closing = {}

\* A book moves the point or the price of a side, withdraws or reopens it.
Move(q) ==
  /\ moves < MaxMoves
  /\ \E o \in (Offers \cup {NoOffer}) \ {offers[q]} : offers' = [offers EXCEPT ![q] = o]
  /\ moves' = moves + 1
  /\ UNCHANGED <<table, polls, commence, closing, seen, span, spanAtStart>>

\* BuildSelection: the selection names the side and its point.
Selection(side, point) == <<side, point>>

KeyOf(book, selection) == <<book, selection[1], selection[2]>>

\* Normalize: a snapshot per outcome that is offered.
Snapshots(at) ==
  {[key |-> KeyOf(q[1], Selection(q[2], offers[q].point)), at |-> at,
    val |-> American(offers[q].price), decimal |-> offers[q].price] :
     q \in {p \in Quoted : offers[p] # NoOffer}}

\* Faulty variant of LatestValues: any row of the key will do.
AllValues(rows) == rows

\* Faulty variant of LatestValues: the rows of the game are not found.
NoValues(rows) == {}

\* GetLatestLineValues.
LatestValues(rows) == Current(rows)

\* The price now on offer is the last one of its line, and its first if there was none.
Extended(quotes) ==
  [k \in LineKeys |->
     IF \A r \in quotes : r.key # k THEN span[k]
     ELSE LET now == (CHOOSE r \in quotes : r.key = k).val
          IN [opening |-> IF span[k] = NoOffer THEN now ELSE span[k].opening,
              current |-> now]]

\* One ingestion: what changed in American odds is stored.
Poll ==
  /\ LET latest == LatestValues(table)
         new == FilterChanged(latest, Snapshots(polls + 1)) IN
       /\ table' = table \cup new
       /\ polls' = IF new = {} THEN polls ELSE polls + 1
  /\ seen' = offers /\ span' = Extended(Snapshots(polls + 1))
  /\ UNCHANGED <<offers, moves, commence, closing, spanAtStart>>

\* The game starts.
Start ==
  /\ commence = NotYet
  /\ commence' = polls /\ spanAtStart' = span
  /\ UNCHANGED <<offers, moves, table, polls, closing, seen, span>>

\* Faulty variant of CloseGame: rows stored since the start count too.
CloseLate ==
  /\ commence # NotYet
  /\ closing' = Current(table)
  /\ UNCHANGED <<offers, moves, table, polls, commence, seen, span, spanAtStart>>

\* The closing sweep, some time after the start: CaptureClosingLines.
CloseGame ==
  /\ commence # NotYet
  /\ closing' = CurrentAsOf(table, commence)
  /\ UNCHANGED <<offers, moves, table, polls, commence, seen, span, spanAtStart>>

Next == Poll \/ Start \/ CloseGame \/ \E q \in Quoted : Move(q)

Spec == Init /\ [][Next]_vars

---------------------------------------------------------------------------
(* The queries *)

Before(r, s) == SortKey[r.key] < SortKey[s.key]

\* The lines a query of some limit loads.
Loaded(limit) ==
  LET rows == Current(table)
  IN {r \in rows : Cardinality({s \in rows : Before(s, r)}) < limit}

\* Faulty variant of Better: the lower price wins.
Lower(r, s) == r.decimal < s.decimal

Better(r, s) == r.decimal > s.decimal

\* Best: of each side the highest price, the first loaded of equals.
Best ==
  LET lines == Loaded(BestLimit)
  IN {r \in lines :
        \A s \in lines : s.key[2] = r.key[2] /\ s # r =>
          Better(r, s) \/ (r.decimal = s.decimal /\ Before(r, s))}

\* GetLineMovement: the rows of one line, which Movement groups by book and selection.
History(k) == {r \in table : r.key = k}

\* Faulty variant of Opening: ORDER BY captured_at DESC.
OpeningLatest(k) == CHOOSE r \in History(k) : \A q \in History(k) : q.at <= r.at

Opening(k) == CHOOSE r \in History(k) : \A q \in History(k) : r.at <= q.at
Latest(k) == CHOOSE r \in History(k) : \A q \in History(k) : q.at <= r.at

\* Movement: of each line the price it opened at, the price it has now, and the prices
\* closing_lines has for it (one, or none).
Movements ==
  {[key |-> k, opening |-> Opening(k).val, current |-> Latest(k).val,
    closing |-> {c.val : c \in {d \in closing : d.key = k}}] :
     k \in {r.key : r \in table}}

\* Snapshot: the flag of a row that closed its line.
IsClosing(r) == \E c \in closing : c.key = r.key /\ c.at = r.at

---------------------------------------------------------------------------
(* Properties *)

StoredRow ==
  [key : LineKeys, at : 1..(MaxMoves + 1), val : AmericanPrices, decimal : Prices]

TypeOK ==
  /\ offers \in [Quoted -> Offers \cup {NoOffer}]
  /\ seen \in [Quoted -> Offers \cup {NoOffer}]
  /\ span \in [LineKeys -> Span \cup {NoOffer}]
  /\ spanAtStart \in [LineKeys -> Span \cup {NoOffer}]
  /\ moves \in 0..MaxMoves /\ polls \in 0..(MaxMoves + 1)
  /\ commence \in 0..(MaxMoves + 1) \cup {NotYet}
  /\ table \subseteq StoredRow /\ closing \subseteq table

\* What a book offered at the last poll is, in American odds, what the queries show for
\* it, however often point and price have moved there and back, a step the conversion
\* hides included (FilterChanged against the latest row, DISTINCT ON ... captured_at DESC).
OffersAreCurrent ==
  LET current == Current(table) IN
  \A q \in Quoted : seen[q] # NoOffer =>
    \E r \in current :
      /\ r.key = KeyOf(q[1], Selection(q[2], seen[q].point))
      /\ r.val = American(seen[q].price)

\* A movement runs from the first price ever polled of its line to the last one, over
\* withdrawals, reopenings and moves there and back (the groups of Movement).
MovementSpansOffers ==
  LET movements == Movements IN
  \A k \in LineKeys : span[k] # NoOffer =>
    \E m \in movements :
      m.key = k /\ m.opening = span[k].opening /\ m.current = span[k].current

\* Once the game is swept, a movement closes at the last price polled of its line before
\* the start, however late the sweep comes, and one snapshot of the line is flagged as
\* closing, the one with that price (Movement, Snapshot, CaptureClosingLines).
ClosingShown ==
  closing # {} =>
    LET movements == Movements IN
    \A k \in LineKeys : spanAtStart[k] # NoOffer =>
      /\ \E m \in movements : m.key = k /\ m.closing = {spanAtStart[k].current}
      /\ {r.val : r \in {h \in History(k) : IsClosing(h)}} = {spanAtStart[k].current}
      /\ Cardinality({h \in History(k) : IsClosing(h)}) = 1

\* Best answers for a side odds at least as good as every book offered at the last poll,
\* "across all sportsbooks for a game" (the comment of Best, lines.go:246-247), although
\* it compares decimal odds that may have moved since they were stored.
BestBeatsOffers ==
  LET best == Best IN
  \A q \in Quoted : seen[q] # NoOffer =>
    \E b \in best : b.key[2] = q[2] /\ b.val >= American(seen[q].price)

\* Best answers prices that can be had: "the most favorable current price" (the
\* comment of Best, lines.go:246-247).
BestIsOffered ==
  \A b \in Best : \E q \in Quoted :
    /\ q = <<b.key[1], b.key[2]>> /\ seen[q] # NoOffer
    /\ seen[q].point = b.key[3] /\ American(seen[q].price) = b.val
===========================================================================
