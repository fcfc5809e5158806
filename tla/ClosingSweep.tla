--------------------------- MODULE ClosingSweep ---------------------------
(***************************************************************************)
(* The closing-line sweep, ClosingLineService.CaptureDue, run by the       *)
(* polling scheduler after each ingestion, while another ingester (the     *)
(* live consumer, a manual trigger) upserts games and stores snapshots.    *)
(*                                                                         *)
(* A snapshot is its slot [key, at]: which of two snapshots closes a line  *)
(* depends on captured_at alone.  Whether deduplication keeps a snapshot   *)
(* is WritePath's subject; here it is a choice.                            *)
(***************************************************************************)
EXTENDS LineStore, FiniteSets

CONSTANTS
  Keys, Games, GameOf,
  Scheduler,     \* the goroutine that ingests, then sweeps
  Others,        \* goroutines that only ingest
  Starts,        \* commence times the provider may announce
  Horizon,       \* bound: the last instant of the clock
  Window,        \* how far back the sweep looks (7 days)
  MaxMoves,      \* bound: how often a game is rescheduled
  MaxFaults,     \* bound: how often a call fails or the process stops
  BadGames,      \* games whose capture fails every time
  Unknown        \* commence_time of a game that has no row yet

Ingesters == {Scheduler} \cup Others

ASSUME ClosingAssumption ==
  /\ GameOf \in [Keys -> Games]
  /\ Scheduler \notin Others
  /\ Horizon \in Nat /\ Window \in Nat \ {0}
  /\ Starts \subseteq 1..(Horizon - 1)
  /\ MaxMoves \in Nat /\ MaxFaults \in Nat
  /\ BadGames \subseteq Games
  /\ Unknown \notin Nat

VARIABLES
  clock,         \* the wall clock
  start,         \* when each game starts, as the provider has it
  moves, faults, \* spent of MaxMoves, MaxFaults
  commence,      \* games.commence_time
  captured,      \* games.closing_captured_at IS NOT NULL
  table,         \* line_snapshots, as slots
  closing,       \* closing_lines, as slots
  ipc,           \* each ingester: idle, fetched, upserted
  fetched,       \* the answer it works on: its instant and its games
  spc,           \* the sweep: off, begin, query, next, mark
  now,           \* the instant the games are to be due at, until they are read
  due,           \* the games it still has to do: [game, commence]
  doing,         \* the one it has captured and not marked yet
  late,          \* history: rows stored since their line was last closed
  closedAt       \* history: the commence time each line was last closed with

world_vars == <<start, moves>>
sweep_vars == <<spc, now, due, doing>>
closing_vars == <<closing, closedAt>>
vars == <<clock, start, moves, faults, commence, captured, table, closing, ipc,
          fetched, spc, now, due, doing, late, closedAt>>

NoGame == [game |-> Unknown, commence |-> 0]
NoAnswer == [at |-> 0, start |-> [g \in {} |-> Unknown]]
RowsOf(rows, g) == {r \in rows : GameOf[r.key] = g}
RowsOfLine(rows, k) == {r \in rows : r.key = k}

Init ==
  /\ clock = 0 /\ moves = 0 /\ faults = 0
  /\ start \in [Games -> Starts]
  /\ commence = [g \in Games |-> Unknown]
  /\ captured = [g \in Games |-> FALSE]
  /\ table = {} /\ closing = {}
  /\ ipc = [i \in Ingesters |-> "idle"]
  /\ fetched = [i \in Ingesters |-> NoAnswer]
  /\ spc = "off" /\ now = 0 /\ due = {} /\ doing = NoGame /\ late = {}
  /\ closedAt = [k \in Keys |-> Unknown]

\* Time passes.  Two readings of the clock differ, up to the horizon, which no
\* game starts after.
Advance == clock' = IF clock < Horizon THEN clock + 1 ELSE Horizon

Tick ==
  /\ clock < Horizon
  /\ Advance
  /\ UNCHANGED <<world_vars, faults, commence, captured, table, closing_vars, ipc,
                 fetched, sweep_vars, late>>

\* The provider moves a game, before its announced start or (a rain delay)
\* after it, to another time to come.
Reschedule(g) ==
  /\ moves < MaxMoves
  /\ \E t \in Starts \ {start[g]} : t > clock /\ start' = [start EXCEPT ![g] = t]
  /\ moves' = moves + 1
  /\ UNCHANGED <<clock, faults, commence, captured, table, closing_vars, ipc, fetched,
                 sweep_vars, late>>

Fault == faults < MaxFaults /\ faults' = faults + 1

---------------------------------------------------------------------------
(* Ingestion, as far as the sweep can tell *)

\* An answer or a frame about some games arrives and is stamped.  The scheduler
\* starts a cycle only when it is done with the last one.
Fetch(i, about) ==
  /\ ipc[i] = "idle"
  /\ i = Scheduler => spc = "off"
  /\ fetched' = [fetched EXCEPT ![i] = [at |-> clock, start |-> [g \in about |-> start[g]]]]
  /\ ipc' = [ipc EXCEPT ![i] = "fetched"]
  /\ Advance
  /\ UNCHANGED <<world_vars, faults, commence, captured, table, closing_vars,
                 sweep_vars, late>>

\* UpsertGames: ON CONFLICT updates commence_time and leaves
\* closing_captured_at as it is.
UpsertGames(i) ==
  /\ ipc[i] = "fetched"
  /\ commence' = [g \in Games |-> IF g \in DOMAIN fetched[i].start
                                  THEN fetched[i].start[g] ELSE commence[g]]
  /\ ipc' = [ipc EXCEPT ![i] = "upserted"]
  /\ UNCHANGED <<clock, world_vars, faults, captured, table, closing_vars, fetched,
                 sweep_vars, late>>

\* The end of an ingestion; the scheduler goes on to CaptureDue either way.
Ingested(i) ==
  /\ ipc' = [ipc EXCEPT ![i] = "idle"]
  /\ fetched' = [fetched EXCEPT ![i] = NoAnswer]
  /\ spc' = IF i = Scheduler THEN "begin" ELSE spc
  /\ UNCHANGED <<clock, world_vars, commence, captured, closing_vars, now, due, doing>>

\* persistSnapshots stores the snapshots deduplication kept.
Store(i) ==
  /\ ipc[i] = "upserted"
  /\ \E kept \in SUBSET {k \in Keys : GameOf[k] \in DOMAIN fetched[i].start} :
       LET rows == {[key |-> k, at |-> fetched[i].at] : k \in kept}
       IN table' = table \cup rows /\ late' = late \cup (rows \ table)
  /\ Ingested(i)
  /\ UNCHANGED faults

\* The upsert or the insert fails.
IngestFails(i) ==
  /\ ipc[i] # "idle"
  /\ Fault
  /\ Ingested(i)
  /\ UNCHANGED <<table, late>>

---------------------------------------------------------------------------
(* CaptureDue *)

\* GetGamesDueForClosing: started, not swept, and not older than the window.
IsDue(g, instant) ==
  /\ ~ captured[g]
  /\ commence[g] # Unknown
  /\ commence[g] <= instant
  /\ commence[g] + Window > instant

\* The sweep reads the clock, once.
BeginSweep ==
  /\ spc = "begin"
  /\ now' = clock
  /\ spc' = "query"
  /\ Advance
  /\ UNCHANGED <<world_vars, faults, commence, captured, table, closing_vars, ipc,
                 fetched, due, doing, late>>

\* The games due at that instant are read, with the commence times and the marks of
\* the moment of the query.
QueryDue ==
  /\ spc = "query"
  /\ due' = {[game |-> g, commence |-> commence[g]] : g \in {h \in Games : IsDue(h, now)}}
  /\ spc' = IF due' = {} THEN "off" ELSE "next"
  /\ now' = 0
  /\ UNCHANGED <<clock, world_vars, faults, commence, captured, table, closing_vars,
                 ipc, fetched, doing, late>>

\* The query fails: no sweep in this cycle.
QueryFails ==
  /\ spc = "query"
  /\ Fault
  /\ spc' = "off" /\ now' = 0
  /\ UNCHANGED <<clock, world_vars, commence, captured, table, closing_vars, ipc,
                 fetched, due, doing, late>>

\* The loop takes the games in commence order.
Soonest(d) == d \in due /\ \A e \in due : d.commence <= e.commence

\* Faulty variant of ClosingRows: ORDER BY captured_at ASC.
FirstRows(d) ==
  LET early == {r \in RowsOf(table, d.game) : r.at <= d.commence}
  IN {r \in early : \A q \in early : q.key = r.key => r.at <= q.at}

\* The latest snapshot of each line up to the commence time the query read.
ClosingRows(d) == CurrentAsOf(RowsOf(table, d.game), d.commence)

\* The lines of the game that the statement is the last word on: those it has a
\* row for, and those it leaves without one.  A row already there stays when the
\* line has no snapshot up to an earlier commence time.
Reached(d) ==
  {k \in Keys : GameOf[k] = d.game /\ (\/ \E r \in ClosingRows(d) : r.key = k
                                      \/ \A c \in closing : c.key # k)}

\* The history of some lines begins anew.
Close(lines, commenceTime) ==
  /\ late' = {r \in late : r.key \notin lines}
  /\ closedAt' = [k \in Keys |-> IF k \in lines THEN commenceTime ELSE closedAt[k]]

\* Faulty variant of Capture: ON CONFLICT DO NOTHING.
CaptureOnce(d) ==
  /\ spc = "next" /\ Soonest(d)
  /\ d.game \notin BadGames
  /\ closing' = closing \cup {r \in ClosingRows(d) : \A c \in closing : c.key # r.key}
  /\ Close(Reached(d), d.commence)
  /\ doing' = d
  /\ spc' = "mark"
  /\ UNCHANGED <<clock, world_vars, faults, commence, captured, table, ipc,
                 fetched, now, due>>

\* CaptureClosingLines: the latest snapshot of each line up to the commence
\* time read by the query replaces the line's closing row.
Capture(d) ==
  /\ spc = "next" /\ Soonest(d)
  /\ d.game \notin BadGames
  /\ closing' = {c \in closing : \A r \in ClosingRows(d) : r.key # c.key}
                   \cup ClosingRows(d)
  /\ Close(Reached(d), d.commence)
  /\ doing' = d
  /\ spc' = "mark"
  /\ UNCHANGED <<clock, world_vars, faults, commence, captured, table, ipc,
                 fetched, now, due>>

\* Faulty variant of NextDue: the game in hand is not let go.
NextDueKeeping(d) ==
  /\ due' = due \ {d}
  /\ spc' = IF due' = {} THEN "off" ELSE "next"
  /\ UNCHANGED <<clock, world_vars, commence, table, closing_vars, ipc, fetched,
                 now, doing, late>>

\* The loop goes on to the next game, if there is one.
NextDue(d) ==
  /\ due' = due \ {d}
  /\ spc' = IF due' = {} THEN "off" ELSE "next"
  /\ doing' = NoGame
  /\ UNCHANGED <<clock, world_vars, commence, table, closing_vars, ipc, fetched, now,
                 late>>

\* Faulty variant of CaptureFails: the first failure ends the sweep.
CaptureFailsForAll(d) ==
  /\ spc = "next" /\ Soonest(d)
  /\ d.game \in BadGames /\ UNCHANGED faults
  /\ due' = {} /\ spc' = "off"
  /\ UNCHANGED <<clock, world_vars, commence, captured, table, closing_vars, ipc,
                 fetched, now, doing, late>>

\* CaptureClosingLines fails: the game stays due, the others go on.
CaptureFails(d) ==
  /\ spc = "next" /\ Soonest(d)
  /\ \/ d.game \in BadGames /\ UNCHANGED faults
     \/ Fault
  /\ NextDue(d)
  /\ UNCHANGED captured

\* MarkClosingCaptured.
Mark(d) ==
  /\ spc = "mark" /\ d = doing
  /\ captured' = [captured EXCEPT ![d.game] = TRUE]
  /\ NextDue(d)
  /\ UNCHANGED faults

\* MarkClosingCaptured fails: the rows are there, the game stays due.
MarkFails(d) ==
  /\ spc = "mark" /\ d = doing
  /\ Fault
  /\ NextDue(d)
  /\ UNCHANGED captured

---------------------------------------------------------------------------
\* The process stops between any two steps and starts again.
Restart ==
  /\ Fault
  /\ ipc' = [i \in Ingesters |-> "idle"]
  /\ fetched' = [i \in Ingesters |-> NoAnswer]
  /\ spc' = "off" /\ now' = 0 /\ due' = {} /\ doing' = NoGame
  /\ UNCHANGED <<clock, world_vars, commence, captured, table, closing_vars, late>>

SweepStep ==
  \/ BeginSweep \/ QueryDue \/ QueryFails
  \/ \E d \in due : Capture(d) \/ CaptureFails(d) \/ Mark(d) \/ MarkFails(d)

IngestStep(i) == UpsertGames(i) \/ Store(i) \/ IngestFails(i)

\* The poll asks for every game, a frame is about one.
Next ==
  \/ Tick
  \/ \E g \in Games : Reschedule(g)
  \/ Fetch(Scheduler, Games)
  \/ \E i \in Others : \E g \in Games : Fetch(i, {g})
  \/ \E i \in Ingesters : IngestStep(i)
  \/ SweepStep
  \/ Restart

Spec == Init /\ [][Next]_vars

\* The ticker starts a cycle again and again; a cycle under way runs on.
Fairness ==
  /\ WF_vars(Fetch(Scheduler, Games))
  /\ \A i \in Ingesters : WF_vars(IngestStep(i))
  /\ WF_vars(SweepStep)
  /\ WF_vars(Tick)

LiveSpec == Spec /\ Fairness

---------------------------------------------------------------------------
(* Safety *)

Slot == [key : Keys, at : 0..Horizon]
Due == [game : Games, commence : Starts]
Answer == [at : 0..Horizon, start : UNION {[about -> Starts] : about \in SUBSET Games}]

TypeOK ==
  /\ clock \in 0..Horizon /\ moves \in Nat /\ faults \in Nat
  /\ start \in [Games -> Starts]
  /\ commence \in [Games -> Starts \cup {Unknown}]
  /\ captured \in [Games -> BOOLEAN]
  /\ table \in SUBSET Slot /\ closing \in SUBSET Slot /\ late \in SUBSET table
  /\ ipc \in [Ingesters -> {"idle", "fetched", "upserted"}]
  /\ fetched \in [Ingesters -> Answer]
  /\ spc \in {"off", "begin", "query", "next", "mark"} /\ now \in 0..Horizon
  /\ due \in SUBSET Due /\ doing \in due \cup {NoGame}
  /\ closedAt \in [Keys -> Starts \cup {Unknown}]
  /\ \A c \in closing : closedAt[c.key] # Unknown

\* line_repo.go: the closing line is "the latest pre-commence snapshot" of its
\* line.  Whatever other ingesters store meanwhile, however often a failed mark has
\* a game swept again and wherever it is moved, the only snapshots the closing line
\* of a swept game may miss are those stored after the capture.
ClosingMissesOnlyLate ==
  \A k \in Keys : captured[GameOf[k]] =>
    /\ closedAt[k] # Unknown
    /\ RowsOfLine(closing, k) = CurrentAsOf(RowsOfLine(table \ late, k), closedAt[k])

\* A closing line is replaced by an older snapshot only if its game was moved to an
\* earlier start, sweeps repeated after a failed mark included.
ClosingOnlyAdvances ==
  [][\A c \in closing :
       \/ closedAt'[c.key] < closedAt[c.key]
       \/ \E d \in closing' : d.key = c.key /\ d.at >= c.at]_closing

---------------------------------------------------------------------------
(* Liveness *)

Started(g) == commence[g] # Unknown /\ commence[g] <= clock

\* closing.go: "a failure on one game is logged and does not block the others".
\* Every game that has started is swept, unless its own capture keeps failing or
\* it is moved to another time first, whatever fails a bounded number of times.
\* (Only if the window outlasts the horizon: the sweep forgets older games.)
StartedGamesSwept ==
  \A g \in Games \ BadGames :
    Started(g) ~> captured[g] \/ ~ Started(g)

\* line_repo.go: "re-running updates existing rows, which self-corrects
\* postponed games": a game moved after its sweep gets, once it has started,
\* the closing lines of its new start.
PostponedSelfCorrects ==
  \A g \in Games :
    (captured[g] /\ commence[g] > clock) ~>
      (Started(g) /\ RowsOf(closing, g) = CurrentAsOf(RowsOf(table, g), commence[g]))
==========================================================================
