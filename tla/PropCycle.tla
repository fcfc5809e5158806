----------------------------- MODULE PropCycle -----------------------------
(***************************************************************************)
(* PropIngestionService.IngestProps for one sport: list the events, keep   *)
(* those that start within the window, cap them, upsert their games, stamp *)
(* the cycle, then fetch the props of one event after another and store    *)
(* what was fetched through the shared write path.  The clock and the      *)
(* prices run on between the fetches.  Storing is one step here (WritePath *)
(* has the races).                                                         *)
(***************************************************************************)
EXTENDS LineStore, FiniteSets

CONSTANTS
  Events, Start, \* the listed events, when each starts
  Rank,          \* its place in the list of the API (soonest first)
  Players, Stats,\* a line is <<event, player, stat>>
  YesNo,         \* the stats with Yes/No outcomes
  PointOf,       \* the point of each other stat's line
  Prices,
  Window,        \* PROP_COMMENCE_WINDOW
  MaxEvents,     \* PROP_MAX_EVENTS_PER_RUN
  NoPrice,
  Horizon,       \* bound: the last instant of the clock
  MaxMoves,      \* bound: price changes
  MaxFaults      \* bound: failed calls and restarts

Lines == Events \X Players \X Stats

ASSUME PropAssumption ==
  /\ IsFiniteSet(Events)
  /\ Horizon \in Nat /\ Start \in [Events -> 1..(Horizon - 1)]
  /\ Rank \in [Events -> Nat]
  /\ \A d, e \in Events : Rank[d] <= Rank[e] => d = e \/ (Rank[d] < Rank[e] /\ Start[d] <= Start[e])
  /\ YesNo \subseteq Stats /\ PointOf \in [Stats \ YesNo -> Nat]
  /\ Stats \cap Nat = {}
  /\ NoPrice \notin Prices
  /\ Window \in Nat \ {0} /\ MaxEvents \in Nat \ {0}
  /\ MaxMoves \in Nat /\ MaxFaults \in Nat

VARIABLES
  clock,
  price,         \* what the books ask for each line
  moves, faults, \* spent of MaxMoves, MaxFaults
  games,         \* the games table
  table,         \* line_snapshots; a row names its line and when it was read, too
  pc,            \* idle, listed, fetch
  todo,          \* the selected events still to be fetched
  stamp,         \* capturedAt of the cycle
  batch,         \* the snapshots so far
  scope,         \* history: the events that the cycle found in the window
  tried,         \* history: the events it has asked for
  answered       \* history: the last price fetched of each line

world_vars == <<price, moves>>
vars == <<clock, world_vars, faults, games, table, pc, todo, stamp, batch,
          scope, tried, answered>>

Init ==
  /\ clock = 0 /\ moves = 0 /\ faults = 0
  /\ price \in [Lines -> Prices]
  /\ games = {} /\ table = {}
  /\ pc = "idle" /\ todo = {} /\ stamp = 0 /\ batch = {}
  /\ scope = {} /\ tried = {}
  /\ answered = [l \in Lines |-> NoPrice]

Advance == clock' = IF clock < Horizon THEN clock + 1 ELSE Horizon

Tick ==
  /\ clock < Horizon
  /\ Advance
  /\ UNCHANGED <<world_vars, faults, games, table, pc, todo, stamp, batch, scope,
                 tried, answered>>

\* A book moves a price, before the start of the event or in play.
MovePrice(l) ==
  /\ moves < MaxMoves
  /\ moves' = moves + 1
  /\ \E p \in Prices \ {price[l]} : price' = [price EXCEPT ![l] = p]
  /\ UNCHANGED <<clock, faults, games, table, pc, todo, stamp, batch, scope, tried,
                 answered>>

Fault == faults < MaxFaults /\ faults' = faults + 1

---------------------------------------------------------------------------
(* Listing *)

InWindow(e, now) == Start[e] > now /\ Start[e] <= now + Window

\* Faulty variant of Selected: no cap.
SelectedUncapped(now) == {e \in Events : InWindow(e, now)}

\* filterPropEvents: the first MaxEvents of the events in the window.
Selected(now) ==
  {e \in Events :
     /\ InWindow(e, now)
     /\ Cardinality({d \in Events : InWindow(d, now) /\ Rank[d] < Rank[e]}) < MaxEvents}

\* GetEvents and filterPropEvents; without an event the cycle is over.
List ==
  /\ pc = "idle"
  /\ todo' = Selected(clock)
  /\ pc' = IF todo' = {} THEN "idle" ELSE "listed"
  /\ scope' = {e \in Events : InWindow(e, clock)} /\ tried' = {}
  /\ UNCHANGED <<clock, world_vars, faults, games, table, stamp, batch, answered>>

\* The sportsbooks are read, the games upserted, the cycle is stamped.
Register ==
  /\ pc = "listed"
  /\ games' = games \cup todo
  /\ stamp' = clock /\ Advance
  /\ pc' = "fetch"
  /\ UNCHANGED <<world_vars, faults, table, todo, batch, scope, tried, answered>>

\* What ends a cycle before its time forgets what it had fetched.
Dropped ==
  /\ pc' = "idle" /\ todo' = {} /\ batch' = {}
  /\ scope' = {} /\ tried' = {}
  /\ answered' = [l \in Lines |-> IF l[1] \in tried THEN NoPrice ELSE answered[l]]
  /\ UNCHANGED <<clock, world_vars, games, table, stamp>>

\* GetAll or UpsertGames fails.
RegisterFails == pc = "listed" /\ Fault /\ Dropped

---------------------------------------------------------------------------
(* Fetching *)

\* Faulty variant of Selection: every stat shows its point alone.
SelectionByPoint(player, stat) ==
  <<player, IF stat \in YesNo THEN 1 ELSE PointOf[stat]>>

\* buildPropSelection: a Yes/No selection has the label of its stat, another one
\* its point.
Selection(player, stat) ==
  <<player, IF stat \in YesNo THEN stat ELSE PointOf[stat]>>

KeyOf(l) == <<l[1], Selection(l[2], l[3])>>

\* NormalizeEventProps.
Snapshots(e) ==
  {[key |-> KeyOf(l), at |-> stamp, val |-> price[l], line |-> l, read |-> clock] :
     l \in {k \in Lines : k[1] = e}}

\* The loop goes through the events in their order.
NextUp(e) == pc = "fetch" /\ e \in todo /\ \A d \in todo : Rank[e] <= Rank[d]

FetchOdds(e) ==
  /\ NextUp(e)
  /\ batch' = batch \cup Snapshots(e)
  /\ answered' = [l \in Lines |-> IF l[1] = e THEN price[l] ELSE answered[l]]
  /\ todo' = todo \ {e} /\ tried' = tried \cup {e}
  /\ UNCHANGED <<clock, world_vars, faults, games, table, pc, stamp, scope>>

\* Faulty variant of FetchFails: the loop ends at the first error.
FetchFailsBreaks(e) ==
  /\ NextUp(e) /\ Fault
  /\ todo' = {} /\ tried' = tried \cup {e}
  /\ UNCHANGED <<clock, world_vars, games, table, pc, stamp, batch, scope, answered>>

\* One bad event is skipped.
FetchFails(e) ==
  /\ NextUp(e) /\ Fault
  /\ todo' = todo \ {e} /\ tried' = tried \cup {e}
  /\ UNCHANGED <<clock, world_vars, games, table, pc, stamp, batch, scope, answered>>

\* persistSnapshots of all that was fetched, as one step.
Persist ==
  /\ pc = "fetch" /\ todo = {}
  /\ \E new \in InsertOutcomes(table, FilterChanged(Current(table), batch)) :
       table' = table \cup new
  /\ pc' = "idle" /\ batch' = {}
  /\ UNCHANGED <<clock, world_vars, faults, games, todo, stamp, scope, tried, answered>>

PersistFails == pc = "fetch" /\ todo = {} /\ Fault /\ Dropped

\* Shutdown: the loop returns at its ctx.Err() check; the next process starts over.
Cancelled == pc # "idle" /\ Fault /\ Dropped

Next ==
  \/ Tick \/ List \/ Register \/ RegisterFails \/ Persist \/ PersistFails \/ Cancelled
  \/ \E l \in Lines : MovePrice(l)
  \/ \E e \in Events : FetchOdds(e) \/ FetchFails(e)

Spec == Init /\ [][Next]_vars

---------------------------------------------------------------------------
(* Properties *)

TypeOK ==
  /\ clock \in 0..Horizon /\ stamp \in 0..Horizon
  /\ price \in [Lines -> Prices] /\ answered \in [Lines -> Prices \cup {NoPrice}]
  /\ moves \in 0..MaxMoves /\ faults \in 0..MaxFaults
  /\ pc \in {"idle", "listed", "fetch"}
  /\ games \subseteq Events /\ scope \subseteq Events /\ tried \subseteq scope
  /\ todo \subseteq scope /\ Cardinality(todo) <= MaxEvents
  /\ \A r \in table \cup batch :
       /\ r.line \in Lines /\ r.key = KeyOf(r.line) /\ r.val \in Prices
       /\ r.at \in 0..Horizon /\ r.read \in r.at..Horizon

\* Once a cycle is over, every event the window held has been asked for, a failed
\* one before it or not, unless the cap was used up by sooner ones
\* (filterPropEvents; "one bad event must not sink the cycle").
NoneMissedBelowCap ==
  pc = "idle" =>
    \A e \in scope \ tried : Cardinality({d \in tried : Rank[d] < Rank[e]}) = MaxEvents

\* A price that was fetched and not lost with its cycle is the current one of its
\* line until the next fetch, whatever became of the other events.
FetchedIsCurrent ==
  pc = "idle" =>
    \A l \in Lines : answered[l] # NoPrice =>
      \E r \in Current(table) : r.line = l /\ r.val = answered[l]

\* A line whose price is what was last stored for it gets no new row:
\* "skip persisting unchanged lines" (the comment of GetLatestLineValues,
\* line_repo.go:61-66, which says the selection tells lines apart by their stat).
LastOf(l) == Current({r \in table : r.line = l})

UnchangedLinesSkipped ==
  [][\A r \in table' \ table : \A q \in LastOf(r.line) : q.val # r.val]_vars

\* A snapshot that can close a line was priced before its event started: props are
\* fetched of events "not yet started" (the comment of PropIngestionService,
\* prop_ingestion.go:52-54) and the sweep takes the "latest pre-commence snapshot"
\* (line_repo.go:98-100).
ClosingPricesPregame ==
  \A r \in table : r.at <= Start[r.key[1]] => r.read <= Start[r.key[1]]
===========================================================================
