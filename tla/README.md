# Lines service: TLA+ models, checks and proofs

Verification project for the Bookie Breaker lines service (`src/`, Go). The service
polls The Odds API, consumes a SharpAPI event stream, stores betting lines as
immutable snapshots in PostgreSQL, keeps a Redis cache of each game's current
lines, announces changes on a Redis channel, captures closing lines when games
start, and answers queries over all of it.

Contents:

1. [The system](#1-the-system)
2. [Modules](#2-modules)
3. [Runs, bounds and what they show](#3-runs-bounds-and-what-they-show)
4. [Fairness](#4-fairness)
5. [Proofs](#5-proofs)
6. [Where code and documentation disagree](#6-where-code-and-documentation-disagree)
7. [Abstractions](#7-abstractions)
8. [Not modelled](#8-not-modelled)
9. [Plan](#9-plan)

To check a run: `tlc -config <cfg> <module>.tla` with the pairs of section 3. To check
the proofs: `tlapm WritePath_proofs.tla`, and likewise for the other `_proofs` modules.

## 1. The system

### Components, their state and operations

| Component | Source | State | Operations | What makes it correct |
|---|---|---|---|---|
| Write path | `service/ingestion.go`, `service/dedup.go` | the mutex `mu` | `Ingest`, `persistSnapshots` | one writer at a time between dedup read and insert; only changes stored; every stored change announced and its cache entry dropped |
| Line table | `repository/postgres/line_repo.go`, `migrations/` | `line_snapshots` with a unique slot (line key, `captured_at`), `closing_lines` | `InsertLineSnapshots`, `GetLatestLineValues`, `queryLines`, `CaptureClosingLines` | rows immutable, one per slot; latest row per key is current |
| Cache | `cache/line_cache.go` | `lines:current:<game>` in Redis, with a TTL | get, set, invalidate | an entry is not old for longer than its TTL, and then for a known reason |
| Publisher | `pubsub/publisher.go` | none | `PublishLinesUpdated` | one message per game with changes |
| Closing sweep | `service/closing.go`, `repository/postgres/game_repo.go` | `games.commence_time`, `games.closing_captured_at` | `CaptureDue` | each started game gets the latest pre-commence snapshots as its closing lines |
| Schedulers | `service/scheduler.go` | a ticker each | a cycle of sports, then the sweep | cycles of a scheduler do not overlap; whatever fails, each sport is asked for again, and the sweep comes |
| Live consumer | `service/live_consumer.go` | failure count, backoff, cached sportsbooks | `Run`, `consumeStream`, `handleFrame` | reconnects, backs off, warns once per outage, stops when cancelled |
| SharpAPI client | `adapter/sharpapi/` | a goroutine and two channels per stream | `Stream`, `readEvents`, `Normalize` | every whole frame is handed over; the goroutine ends with its stream |
| Prop ingestion | `service/prop_ingestion.go`, `adapter/oddsapi/prop_normalizer.go` | none between cycles | `IngestProps` | soonest events within the window, up to the cap; one bad event costs only itself |
| Queries | `service/lines.go`, `handler/lines.go`, `repository/cursor.go` | none | `GameLines`, `CurrentLines`, `Best`, `Movement`, `Snapshot` | a walk over the pages finds each line once; `Best` is the best price |
| Odds API normalizer | `adapter/oddsapi/normalizer.go` | none | `Normalize`, `BuildSelection`, `DecimalToAmerican` | line identity is stable; rounding hides no change that is shown |
| Odds API client | `adapter/oddsapi/client.go` | none | `GetOdds`, `GetEvents`, `GetEventOdds` | an answer or an error, in 30 seconds |
| Raw archive | `repository/postgres/raw_response_repo.go` | `raw_api_responses` | `Insert` | never in the way of the ingestion that started it |
| Manual trigger | `handler/ingestion.go` | none | starts `Ingest` on a goroutine of its own, with a context of two minutes | as the write path; it cannot stop the schedulers |
| Lifecycle | `cmd/server/main.go` | the root context | start, `cancel`, HTTP drain, closing Redis and the pool | a signal ends the process, whatever is in flight |
| The rest | sportsbooks, HTTP plumbing, configuration, telemetry, migrations | | | section 8 |

### How they interact

```
 Scheduler --Ingest--+                                +--> line_snapshots <--queries-- readers
 manual trigger -----+--> persistSnapshots (mutex) ---+--> cache: invalidate <--fill--+
 PropScheduler ------+                                +--> events:lines.updated
 LiveConsumer -------+
 Scheduler --CaptureDue--> games due --> closing_lines --> closing mark
```

The ingesters share only the mutex of `IngestionService` and the two stores. A reader
never takes the mutex. The sweep runs on the scheduler's goroutine, and so never at the
same time as its own ingestion, but at the same time as everyone else's. The
SharpAPI reader goroutine and the live consumer meet on an unbuffered frame channel and
an error channel of capacity 1.

### What is hard about it

- A price is observed, stamped and stored at three different moments, only the last of them
  under the mutex: batches are stored in another order than they were stamped, stamped in
  another than they were observed, and a replayed frame carries a stamp that is taken.
- Each of read, insert, invalidation and publish can fail alone; the later ones fail
  with no more than a warning, and deduplication then hides that from later polls.
- A reader fills the cache with what it loaded some time ago.
- The commence time of a game changes while a sweep works with an earlier one, and
  a sweep can stop between capturing and marking.
- The clock and the prices run on while the prop cycle makes its requests.
- `DISTINCT ON`, filter, limit and cursor must agree on one order; the cache serves
  only some of the pages.
- Two goroutines and two channels must come apart cleanly on every way a stream can end.
- The process can stop at any step: `cancel()` waits for nobody, and the pool is closed
  under the goroutines that still run.
- Goroutines compete for a mutex that takes no context and for a pool of connections: one
  that waited for the one while holding the other could stop all of them.

`PROJECT.json` lists each hazard at its line with the properties that watch it.

## 2. Modules

| Module | Models | State and actions |
|---|---|---|
| `LineBook` | what the write path promises: an abstract specification, with no mutex, cache or goroutine in it | a batch is recorded, knowingly or not; it is announced, or forgotten |
| `LineStore` | the table as a set of rows, with the operators every other module uses: current rows, `FilterChanged`, `ON CONFLICT DO NOTHING` | pure operators, none recursive |
| `WritePath` | `persistSnapshots` with its callers, readers, cache and publisher | one action per database or Redis call and one for its failure; `pc` is the place in `persistSnapshots` |
| `ClosingSweep` | `CaptureDue`, the games table, `closing_lines`, with several ingesters | one action per query, capture and mark, and one for the failure of each |
| `LiveConsumer` | `Run`, `consumeStream`, `handleFrame`, `Stream`, `readEvents` | consumer and reader goroutine, each with its place; channels as sets of open ends and a count |
| `LinePages` | one walk of a client over the pages of a game, with an ingester and the cache | a request is lookup, load, fill, answer |
| `Quotes` | line identity, American rounding, `Best`, `Movement` and the closing flag of `Snapshot`, over a market whose points move | moves of the books, polls, the start, the sweep |
| `PropCycle` | `IngestProps` for one sport | listing, registration, one fetch per event, storing |
| `Service` | the process: start, signal, drain, exit, crash; both schedulers, manual ingestions, read requests, archivers, the mutex and the connection pool | a job is where it stands and what it holds |
| `MC...` | the small instances TLC checks | functions for constants |
| `LineStore_proofs`, `WritePath_proofs`, `ClosingSweep_proofs`, `Service_proofs`, `LiveConsumer_proofs`, `LinePages_proofs`, `Quotes_proofs`, `PropCycle_proofs` | theorems | section 5 |

All state machines but `Service` and `LiveConsumer` rest on `LineStore`, where they store lines. What is an action of several
steps in one module is one step in another: `ClosingSweep`, `LinePages`, `Quotes` and
`PropCycle` store a batch in one step because `WritePath` shows what its steps
come to, and each says so in its heading. `LiveConsumer` treats
`persistSnapshots` as a call that succeeds or fails, and `Service` leaves out what is
stored altogether.

Each definition that stands for code is in `PROJECT.json` under `map` with the
lines it stands for. A definition with the comment *Faulty variant of X* is a plausible
bug of `X`; it is part of no specification. Each property has one that breaks it, so that a
property which nothing could break does not pass for a result.

### WritePath

`market` is what the books would quote now; nothing in the service reads it but
`GetOdds` and a frame. A poller is `idle`, then `fetched` (it has odds, and waits for the
sportsbooks), and `Normalize` stamps what it has; so two polls may be stamped and stored in any
order, whichever observed first. A frame is about any lines of one game, at an instant of the
provider's that may lie before stamps already stored; any frame a stream ever delivered may come
again. A writer that is `ready` has snapshots and waits for the mutex; then it is at `read`,
`insert`, `invalidate`, `publish`. `Insert` stores one of the outcomes of `InsertOutcomes`.
`InsertAnswerLost` is a commit whose answer never arrives: the code takes the error return
although the rows are there. `Restart` loses all memory at any point. Four history variables
(`overtaken`, `tainted`, `unannounced`, `missed`) name causes; no action reads them to decide
anything.

### ClosingSweep

The clock is explicit: whether a snapshot is before the commence time is the whole
matter. A sweep reads it in one step (`now`) and queries in another. A row is its slot. Games can
be rescheduled to a time still to come.
`fetched` is the answer an ingester works on and can be old by the time it is
written: `UpsertGames` is outside the mutex. `late` and `closedAt` are
history: the rows stored since a game's last capture, and the commence time of it.

### LiveConsumer

The reader is at `connect`, `scan`, `offer`, `offerLast`, `finish`, `report`, `return` or
`done`; the consumer at `top`, `receive`, `books`, `refresh`, `upsert`, `persist`,
`errs`, `wait` or `stopped`. `open` holds the channels not yet closed; the deferred closes
are two steps. The wait between streams has no length, only its number of units.

### LinePages

A line is its place in the order of the cursor, so that `ORDER BY`, the keyset comparison
and `nextCursor` are about one number; that they could disagree is therefore out of its reach. A
row's value is its `is_live` flag, the one thing a query filters rows by before `DISTINCT ON`.
`at` is its `captured_at`, any instant, and `seq` the place of its batch in the order of storing:
a batch captured earlier may be stored later. No action reads `seq` but `Store`.

### Quotes and PropCycle

`Quotes` is about line identity: the point is part of the selection and so of the key.
A price is decimal odds in thousandths; rows are compared by their American form, which is
computed as `DecimalToAmerican` does. `span` and `spanAtStart` are history: the first and last
price polled of each line, now and when the game started.
`PropCycle` adds the clock and the cap; a row carries the line it is of and the
instant it was read, which the code does not store and the properties need.

### LineBook and its implementation

`book` is every line ever recorded, `owed` the games of the batch just recorded,
`told` the last announcement, `silent` the games with a record no announcement has named
since. `WritePath` implements it under this mapping: `book` is the table; `owed` is
the games of the batch of whoever is between its insert and its publish; `told` is what
the last event named; `silent` is its history variable `unannounced`. An insert whose answer is lost
is `RecordUnknowingly`; a publish that fails and a restart are `Forget`; all that
polls, readers and the cache do is a stutter.

### Service

`phase` is where `main` is: `down`, `up`, `draining` (after `cancel()`), `closing` (Redis is
closed and `db.Close()` waits). A job is a scheduler or a manual ingestion; `todo` is the rest of
its cycle. Reads and archivers (`Singles`) do one query each and end. `GetAll` with `UpsertGames`,
the whole sweep, and the requests of `GetEventOdds` are one query, one query and one request:
nothing is held between their parts. `Dead` is the context a job looks at: that of the
schedulers ends with the signal, that of a manual ingestion after two minutes and not before,
signal or no signal. `Lock` does not look at it, as `sync.Mutex` takes no context.
A scheduler that is cancelled may still begin another cycle, since `select` chooses among what is ready;
the cycle then ends at its first check.

## 3. Runs, bounds and what they show

| Run | Module, configuration | Distinct states | Shows |
|---|---|---|---|
| `write_poll` | `MCWritePath`, `WritePath_poll.cfg` | 148 thousand | `StaleEntryHasCause`; `PersistEnds`, `PricesConverge`, `CacheConverges` |
| `write_stream` | `MCWritePath`, `WritePath_stream.cfg` | 900 thousand | `MutexHeld`, `DedupReadHolds`, `ObservedNotLost`, `SilentRowHasCause`, `InsertOnlyChanges`, `SnapshotsImmutable`; `ImplementsLineBook` (refinement) |
| `closing_sweep` | `MCClosingSweep`, `ClosingSweep_sweep.cfg` | 830 thousand | `ClosingMissesOnlyLate`, `ClosingOnlyAdvances`, `StartedGamesSwept` |
| `live_streams` | `MCLiveConsumer`, `LiveConsumer_streams.cfg` | 290 thousand | `NoFrameDropped`, `NoReaderLeft`, `SeededBookAccepted`, `WarnsOncePerOutage`, `BackoffFollowsOutage`, `StopsWhenCancelled`, `Reconnects` |
| `pages_walk` | `MCLinePages`, `LinePages_walk.cfg` | 2.1 million | `NoLineTwice`, `WalkComplete`, `HiddenLinesAreNew` |
| `quotes_queries` | `MCQuotes`, `Quotes_queries.cfg` | 1.0 million | `OffersAreCurrent`, `MovementSpansOffers`, `ClosingShown`, `BestBeatsOffers` |
| `prop_cycle` | `MCPropCycle`, `PropCycle_cycle.cfg` | 1.5 million | `NoneMissedBelowCap`, `FetchedIsCurrent` |
| `service_process` | `MCService`, `Service_process.cfg` | 91 thousand | `WaitersHoldNothing`; `PollingNeverStops`, `SignalEndsProcess` |
| `closing_postponed`, `prop_collide`, `prop_kickoff`, `quotes_withdrawn` | | | a statement of the documentation that the code does not keep (section 6) |

Each module has one type invariant, checked by one of its runs. No run stops by
deadlock: a process that is restarted, polled or asked again always has a next step.

### Write path

`write_poll`: a scheduler and a manual trigger poll one line while a reader fills the cache; a
market that goes there and back (`MaxMoves` 2), one manual trigger (`MaxTriggers` 1), one fault,
full fairness. The fault can be any failing call or a restart. An entry that differs from the table
is always accounted for: its invalidation is still to come, was lost, or a reader filled it with an
overtaken copy. No cache entry stays old: the TTL ends what a lost invalidation or a late fill
began.

The market has to move twice, because that is what makes a late batch dangerous. One poll fetches
20; the market returns to 10, and the other poll's 10, stamped later, is skipped as unchanged; then
the 20 is stored and is current although the market has left it. `PricesConverge`: once
the market rests, the polls that follow put this right, and it stays right. Two pollers are the
least that exchange the orders of observing, stamping and storing, and one that polls once is
enough to be the late one.

`write_stream`: the scheduler polls two lines of one game and one of another, and a live consumer
streams them, in frames of one line or two, and gets any of its frames again. Polls write `live =
FALSE` and frames `TRUE`, so each sees the other as a change; batches overlap in part, and their
stamps come in any order. `SilentRowHasCause` says what the service cannot do: announce later what
it failed to announce at once. `ImplementsLineBook` is the whole promise: whatever the two writers,
the fault and the replay do, the steps seen from outside are those of `LineBook`. The two lines of
the first game and the two prices are interchangeable (`SYMMETRY`): nothing in the module tells
them apart, and the run checks no liveness property. For the same reason all lines begin with one
price (`LevelSpec`): prices of different lines are never compared.

Bounds on stamps: the clock is the least instant after all stamps in use (section 7), and
`MaxLead` keeps the polls in flight within so many instants of the table. In `write_poll` seven
stamps are all that any behaviour comes to need, and there are eight: none is cut short for want of an
instant, which would make a liveness property hold or fail for the wrong reason. In `write_stream`
three instants allow frames before, between and after the polls; when they are used up no new
poll or frame comes, only old frames again. The properties there are safety properties.

`PageLimit` is 1 in `write_poll`, with one line: an entry is filled. Larger games than a page are the
subject of `LinePages`; the theorems of section 5 hold for every `PageLimit`.

### Closing sweep

One line, of one game, and a second game whose capture fails every time; the scheduler and a
second ingester, one reschedule, two faults. The bad game starts before, with or after the good
one, so the loop meets it first as well as last. Starts are at 2 and 3 and time ends at 4:
room for a cycle before, between and after. `Window` (seven days in the code)
outlasts the horizon.

With one reschedule and two faults this happens: the second ingester fetches a game with its early
start; the scheduler stores the later start, captures, and fails to mark; the second
ingester's delayed `UpsertGames` writes the early start back, as it is outside the mutex; the
next sweep captures with it and replaces the closing row by an older one. So the properties speak of
the commence time of the last capture (`closedAt`): the closing lines are the latest up to
*it*, but for rows stored later, and they never go back unless it did.
What the delayed upsert does to the game's own time is outside of what the sweep can know.

### Live consumer

Two sportsbooks, of which any may be in the table at first and be added at any time; two frames
a connection; `Threshold` 3 for `failureThreshold` and `MaxBackoff` 6 for
the cap of 60 units, neither a power of two, as in the code. `FailureCap` 4 is where
the count saturates: above the threshold and with the backoff at its cap all counts
behave alike, which the module's assumption states. Frames may be cut off before their
blank line, be malformed, unmapped, or of a book that is not seeded; connections may
be refused, end cleanly or break; the context may be cancelled at any step.

### Pages

Three lines of alternating sides, page sizes 1 and 2, two batches of any rows. Walks with
and without side and `is_live`. Two rows of one line and an entry that misses the second
are there with `MaxRows = 2`, and with two stamps each batch may be captured before or after the
other. `WalkComplete` is about walks that are over, with a side or without. A walk with a side whose
page the filter has emptied has `has_more` and no cursor: it is stuck, not over (section 6).

### Quotes

Two books and one side (sides do not mix: every definition compares within one), two
points, three prices of which two (1.996 and 1.998) are one in American odds, three moves:
there and back, withdrawal, reopening; the start and the sweep at any time. `BestLimit` is the
four keys of the instance, so the limit is not met; section 6 has what happens when it is.

### Props

Three events of which two start together, a cap of two, window 2: the cap bites. One Yes/No and
one Over/Under stat, two price changes, one fault at any call. Over/Under stats
of one player at one point are left out of `prop_cycle` because they collide
(`prop_collide`).

### Service

Two sports to poll and one for props: the least with a sport after the one that fails. One
manual ingestion at a time, one archiver or read, and a pool of one connection: every
two users of the pool exclude each other, so that one which waits with a connection
in hand stops the rest. Calls fail at any time and any number of times, the manual
ingestion's context ends at any step, and the process is signalled, crashes and is started again,
with an API key or without. The live consumer is not in this module: it takes the mutex and the
pool as the poll does, and ends on the schedulers' context.

## 4. Fairness

Liveness is stated under `LiveSpec`, and only for what the code's own scheduling gives:

- `WF(GetOdds)` of the schedulers, `WF(Fetch(Scheduler, ...))`: `time.Ticker` keeps firing
  (`scheduler.go:27-49`). Nobody need trigger a poll by hand, so there is none for triggers.
- `WF(Normalize)`: a poll with its odds goes on, or fails.
- `SF(Lock)`: `sync.Mutex` hands itself to a waiter that has starved for a millisecond,
  so one that finds it free again and again gets it. Weak fairness would not do: the
  other writers take it in between.
- `WF(WriterStep)`, `WF(ReaderStep)`, `WF(IngestStep)`, `WF(SweepStep)`: a goroutine inside
  a call goes on, as the calls carry contexts that end. Failures are bounded by
  `MaxFaults`; within the bound they come whenever they are worst.
- `WF(Expire)`: Redis drops an entry when its TTL is over.
- `WF(Tick)` in `ClosingSweep`: time passes.
- `WF(cancelled /\ (Refused \/ ScanEnds))`: the end of the context ends the HTTP request or
  the read of its body.

- `Service`: `WF(JobStep)`, `WF(SingleEnds)`: a request to The Odds API ends within the client's 30 seconds
  (`client.go:36-38`), and the database and Redis answer or fail. `SF(Lock \/ Acquire)`: the mutex, as
  above, and the pool, whose semaphore serves its waiters in turn. `WF(Drained \/ Exit)`: the drain
  ends after 10 seconds (`main.go:116`), and `main` goes on. Failures are not bounded here.

Nothing makes the market move, a frame arrive, a request come or a fault happen, and the
provider owes nothing: the stream's client has no timeout, so a silent connection may stay
silent for ever, and no property claims otherwise. `StartedGamesSwept` excuses games whose
own capture keeps failing and those rescheduled before they are swept.

## 5. Proofs

Checked by TLAPS for every value of the constants, that is for any number of keys, games,
writers, readers, ingesters, sports, connections, sportsbooks, frames, events and lines, any market,
page limit, threshold, window and cap, and any number of faults and reschedules. Every safety
invariant and every action property of the passing runs is a theorem. What the theorems rest on
are the named `ASSUME`s of the modules:

- the constants have their types, and a value that stands for "none" is none of the values it is
  told apart from (`NoWriter`, `NoEvent`, `None`, `NoOffer`, `Unknown`);
- the keys, the lines of a game and the events of one answer are finite in number;
- `Rank` is a strict order of the events in which an earlier one starts no later, as the API lists
  them, and the key order of `Best` tells any two lines apart;
- decimal odds exceed 1.

Two theorems have a hypothesis beyond these, because without it they are false of the code:
`BestBeatsOffersCorrect` supposes that a game has no more lines than `Best` loads (200; of more it
looks at the first 200 in key order), and the two about prices in `PropCycle_proofs` suppose
`PointsDistinct`, no two Over/Under stats of a player at one point (section 6 has what happens
otherwise). Both hold in the instances of the passing runs.

`WritePath_proofs`:

| Theorem | Says | Rests on |
|---|---|---|
| `TypeCorrect` | `[]TypeOK` | `TypeInv`: `TypeOK`, and every batch and replayed frame is finite, without which the number of rows an insert reports need not be a number |
| `MutexCorrect`, `DedupReadCorrect` | `[]MutexHeld`, `[]DedupReadHolds` | `MutexInv`, their conjunction, which is inductive: what was read stays the latest because only the holder of the mutex inserts |
| `InsertOnlyChangesCorrect` | `InsertOnlyChanges` | `TableSteps` (only inserts change the table) and `MutexInv` in the state before |
| `SnapshotsImmutableCorrect` | `SnapshotsImmutable` | `SlotsUnique(table)` is inductive |
| `StaleEntryCorrect` | `[]StaleEntryHasCause` | `CacheInv`: also, a reader about to fill holds the current lines unless a commit has overtaken it. Without that a fill could break the property with no cause |
| `SilentRowCorrect` | `[]SilentRowHasCause` | inductive with `MutexInv` |
| `ObservedNotLostCorrect` | `[]ObservedNotLost` | `ObservedInv`: of one line nothing is observed twice at one instant, over the table, what the writers hold and all the frames that may be replayed. A snapshot whose slot is taken is then the row in that slot, so `DO NOTHING` loses nothing |
| `WritePathImplementsLineBook` | `Spec => ImplementsLineBook`: the write path implements `LineBook` | `MutexInv` and `SlotsUnique`: the initial state maps to the initial state; `Insert` maps to `Record`, because what was read is still the latest when it is inserted; every other step to another action or a stutter |

`ClosingSweep_proofs`:

| Theorem | Says | Rests on |
|---|---|---|
| `TypeCorrect` | `[]TypeOK` | `TypeInv`: also, the game in hand was captured with the time it was due with, and the scheduler does not ingest and sweep at once |
| `OneClosingCorrect` | `[]OneClosingPerLine` | a capture removes the rows of the lines it writes, and writes one a line |
| `ClosingMissesCorrect` | `[]ClosingMissesOnlyLate` | `ClosedInv`: the closing rows of a line are its rows current as of `closedAt`, except for late ones. `Capture` establishes it, nothing else touches it but `Store`, whose rows are late |
| `ClosingAdvancesCorrect` | `ClosingOnlyAdvances` | `ClosedInv`, and that a capture as of a time no earlier finds a row at least as recent |

`OneClosingPerLine` is no property of a run: it is the unique index of `closing_lines` in
other words, and a lemma the others rest on.

`Service_proofs`:

| Theorem | Says | Rests on |
|---|---|---|
| `TypeCorrect` | `[]TypeOK` | also, a job has a sport left exactly while it is at one |
| `WaitersCorrect` | `[]WaitersHoldNothing` | `Inv`: with `TypeOK`, and that a process that is down holds nothing, without which `Boot` could start a scheduler with a connection in hand |

`LiveConsumer_proofs`:

| Theorem | Says | Rests on |
|---|---|---|
| `TypeCorrect`, `NoFrameDroppedCorrect` | `[]TypeOK`, `[]NoFrameDropped` | `FramesAccounted`: a whole frame sent is taken or in the reader's hand, unless the context has ended, and a reader that has read to the end has nothing in hand. `TypeOK` needs it too: it bounds `taken` by `offered` |
| `NoReaderLeftCorrect` | `[]NoReaderLeft` | `ReaderInv`: the open channels say where the reader is; the frame channel is closed last, and the consumer asks for the error only behind it |
| `SeededBookAcceptedCorrect` | `[]SeededBookAccepted` | `BooksInv`: the table only grows, so the map that `RefreshBooks` reads has all that was there when the frame came |
| `WarnsOncePerOutageCorrect` | `[]WarnsOncePerOutage` | inductive with the types; the threshold is below the cap of the count |
| `BackoffFollowsOutageCorrect` | `[]BackoffFollowsOutage` | `BackoffInv`: the backoff is the smaller of the cap and two to the power of `Doublings`, the number of waits since the start or the last frame, less the one to come. The SMT solver knows nothing of `^`; that a power doubles follows from the number of subsets of a set (`PowerDoubles`, by the library's `FS_SUBSET`) |

`LinePages_proofs`:

| Theorem | Says | Rests on |
|---|---|---|
| `TypeCorrect` | `[]TypeOK` | also, tables, entries and pages are finite and hold nothing from the future |
| `NoLineTwiceCorrect`, `WalkCompleteCorrect` | `[]NoLineTwice`, `[]WalkComplete` | `WalkInv`: up to the cursor every line of the walk is answered or hidden, beyond it none is, and a loaded page leaves out no line between its own. It holds although lines are stored and change under the walk, since the order of lines never does |
| `HiddenLinesAreNewCorrect` | `HiddenLinesAreNew` | `CacheInv`: what is cached, or about to be, was the whole game once, so a line it lacks has only rows stored later. `captured_at` plays no part in it: an entry may hide a row captured before all of its own |

`Quotes_proofs`:

| Theorem | Says | Rests on |
|---|---|---|
| `TypeCorrect`, `OffersAreCurrentCorrect` | `[]TypeOK`, `[]OffersAreCurrent` | `StoreInv`: a slot holds one row, a row one price in two forms, and only a poll that finds a market that has moved stores anything. That bounds the number of polls that store, which the type needs |
| `MovementSpansOffersCorrect` | `[]MovementSpansOffers` | `SpanInv`: the first row of a line has the first price polled of it, the last row the last, whatever dedup left out between |
| `ClosingShownCorrect` | `[]ClosingShown` | `StartInv`: the same for the rows up to the start, and the sweep found just those that were current then |
| `BestBeatsOffersCorrect` | `[]BestBeatsOffers`, under the hypothesis above | `StoreInv`, and `AmericanMonotone`: higher decimal odds never round to lower American ones, so the best decimal odds are the best American ones |

`PropCycle_proofs`:

| Theorem | Says | Rests on |
|---|---|---|
| `TypeCorrect` | `[]TypeOK` | `SelectedWithinCap`: before the last selected event there are fewer than the cap. `AgeInv` puts the reading of a price at or after its stamp |
| `NoneMissedBelowCapCorrect` | `[]NoneMissedBelowCap` | `CapInv`: an event of the window that is neither planned nor tried comes after as many of those as the cap allows. `List` establishes it (`CapUsedBySooner`, by way of the soonest event left out), and asking for an event only moves it from plan to tried |
| `FetchedIsCurrentCorrect` | `[]FetchedIsCurrent`, if `PointsDistinct` | `AnswerInv`: the last price fetched of a line waits in the batch or is its current one; `AgeInv`: the stamp of a cycle is later than all that is stored, so that what is inserted becomes current |
| `UnchangedSkippedUnlessCollision` | `UnchangedLinesSkipped`, if `PointsDistinct` | keys tell lines apart (`KeyTellsLine`). The run `prop_collide` violates the property: two stats at one point are the only way to do so |

`LineStore_proofs` has the lemmas about tables. `LatestInstant` (a finite set of instants has a
latest one) would be an induction; it follows from the well-foundedness of strict inclusion on finite
sets, applied to the sets of later instants; so does `EarliestInstant`. `CurrentExists` follows:
every line with rows has a current row. Two results about inserts are listed as theorems.
`InsertHasOutcome`: whatever table and batch hold, `InsertOutcomes` is not empty, so no action
that stores is ever blocked by what it stores, which a model could hide as a step not taken.
`RetryStoresNothing`: a batch stored again, in whole or in part and however much later, adds nothing.

`AgeInv` is inductive only with its clause about the last instant: the clock of the model stops at
`Horizon`, and two cycles with one stamp would follow if an event could still be in the window then.
The assumption that events start before `Horizon` rules it out.

Only model-checked: the liveness properties (`PersistEnds`, `PricesConverge`,
`CacheConverges`, `StartedGamesSwept`, `StopsWhenCancelled`, `Reconnects`, `PollingNeverStops`,
`SignalEndsProcess`), as fairness and `ENABLED` are out of the prover's reach. The properties of
the runs that expect a violation are false of the code; `UnchangedLinesSkipped` is the one with a
theorem that says when it does hold.

## 6. Where code and documentation disagree

Checked by runs that find the statement violated:

| Run | Statement | What the code does |
|---|---|---|
| `closing_postponed` | `line_repo.go:99-100`: re-running "self-corrects postponed games" | `UpsertGames` leaves `closing_captured_at` set, so a swept game is not swept again after its postponement |
| `prop_collide` | `line_repo.go:61-66`: unchanged lines are skipped, and the selection "disambiguates prop line identity" by its stat | an Over/Under selection has no stat: two stats of a player at one point share a key and are stored in turn as changes of each other |
| `prop_kickoff` | `prop_ingestion.go:52-54`: events "not yet started"; `line_repo.go:98-100`: the "latest pre-commence snapshot" | the clock is read once, before the requests: an event that starts meanwhile gets in-play prices stamped before its start |
| `quotes_withdrawn` | `lines.go:246-247`: the "most favorable current price" | the row of a point or market no longer offered stays current for ever, and `Best` answers it |

Met while modelling, with no run of their own:

| Where | Statement | What the code does |
|---|---|---|
| `ingestion.go:191` | `README.md:12-13`: publishes "when line changes are detected" | a replayed frame that differs from the latest row passes deduplication, finds its slot taken, stores nothing, and is announced with `change_count` 0. `Record` of `LineBook` allows a batch that adds nothing for this reason |
| `live_consumer.go:86` | `live_consumer.go:45-47`: "consecutive connection failures" | every stream without a frame *processed* counts, connected or not |
| `main.go:114` | the comment: "stop the ingestion scheduler before the HTTP server drains" | `cancel()` does not wait: a cycle under way goes on through the drain and the closing of Redis and the pool, as far as its calls let it |
| `ingestion.go:78` | `client.go:172-175`: the body is returned with the error "so callers can archive the failure" | `Ingest` returns on the error before it archives; only `IngestProps` archives failures, and only those of single events |
| `lines.go:220-232` | total movement and reverse movement of spreads and totals | movements are grouped by selection, which has the point in it, so the point of a group never moves and both stay zero and false |
| `lines.go:94` | the loop of `tests/integration/lines_test.go:266-269` goes on with `next_cursor` while `has_more` | the side filter runs after the page is cut: an empty page is answered with `has_more` and no cursor, and such a loop starts over |
| `lines.go:183` | `lines_test.go:93-107`: one selection with several line values | no ingestion writes such rows: the point is in the selection, so `Movement` shows no move of the point |
| `lines.go:254` | `lines.go:246-247`: "across all sportsbooks" | the first 200 current lines, with `hasMore` dropped |

## 7. Abstractions

- **Stamps** (`WritePath`). Only the order of instants matters, so the clock
  reads the least stamp after all those in use: of every row of the table, every batch in a
  writer's hands and every frame delivered. That bounds
  the numbers, not the orders: a later reading is later than everything before it. Two
  polls in one another's way never get one stamp. The `captured_at` of a frame is any instant not in
  use, before or after what is stored; one that lies ahead of the service's clock cannot be
  expressed, since that clock reads later than all of them. A frame with no `captured_at` gets the
  service's time, which is one of those instants; that such a frame, sent twice, gets a second and
  later one with its old price (`normalizer.go:47-50`) is not modelled.
- **Values.** The fields `sameLineValues` compares are one value: a price, and the live
  flag where it matters. Odds conversion, probabilities, names and slugs are left out.
- **A batch** is a set of rows. The batch insert is one implicit transaction
  (`SendBatch`), so its rows appear together or not at all; of two rows of a batch in one slot
  either may be kept.
- **Pages** (`WritePath`). A query of a game's lines answers all of them or is not cached; what a
  page that leaves lines behind does to the cache is the subject of `LinePages`.
- **Faults.** Outside `Service`, a call that fails, an answer that is lost and a restart each spend
  one of `MaxFaults`. A restart is a crash or a shutdown, as `cancel()` does not wait.
- **A cache entry** is the set of lines it holds; the empty set is no entry: `GameLines` takes
  an empty list for a miss (`len(cached) > 0`).
- **Time** is explicit in `ClosingSweep` and `PropCycle` only. There, two readings in two calls
  differ, up to the horizon; nothing starts at the horizon. Games move to future times only.
- **Storing** is one step outside `WritePath`; in `ClosingSweep` any subset of a batch may have
  been kept by deduplication.
- **PropCycle**: every line is offered in every fetch; the loop of sports is one sport.
- **Service**: the ticker is a cycle that starts some time; a query is one step of the pool; what
  the drain waits for is left out, because it gives up after ten seconds anyhow.
- **LiveConsumer**: jitter is left out, since waits have no length; SSE lines other than `data`
  change nothing and are left out.

## 8. Not modelled

- The opening flag of `Snapshot`, and of `Movement` the total and reverse movement, which section 6
  says cannot be anything but zero and false for spreads and totals.
- `CurrentLines`: it shares `queryLines` and `nextCursor` with `GameLines` and has no cache.
- Side derivation (`deriveSide`) beyond "a line has a side": it is about prefixes of team names. A
  name that is a prefix of the other one is a case for a unit test.
- `ImpliedProbability` and odds of exactly 1.0, at which `DecimalToAmerican` divides by zero
  (`normalizer.go:37`): `Quotes` assumes that decimal odds exceed 1.
- `GetGame`, `GetGames`, sportsbook reads: single queries.
- What the raw archive stores, which nothing reads; `GetSports` of the client, which nothing calls.
- HTTP routing and responses, health, configuration, telemetry: no state.
- Compression and retention of `line_snapshots` (18 months), and a process that is down for longer
  than the window of seven days, after which the games that started before are not swept
  (`game_repo.go:105`): outside any horizon.
- Without an API key neither schedulers nor sweep run, while the live consumer may
  (`main.go:64-90`); `Service` has the first half of that.

## 9. Plan

Done, in this order: `LineStore`, `WritePath`, `ClosingSweep`, each with its proofs, `LiveConsumer`,
`LinePages`, `Quotes`, `PropCycle`; `LineBook` with the refinement, checked and proved; `ClosingSweep`
with reschedules, and its proofs without a hypothesis about them; `Quotes` with closing lines and
rounding; `Service` with its proofs; the proofs of the live consumer, the pages, the quotes, the prop
cycle and of `ObservedNotLost`; `WritePath` with the moments of observing, stamping and storing apart,
and `LinePages` with stamps that do not follow the order of storing.

Next, the most important first:

1. **The safety half of liveness, proved.** What the liveness arguments rest on and the prover can
   reach: a measure that every step of a cancelled consumer, and of a draining process, decreases or
   keeps.
2. **Composition.** Sweep and prop cycle on top of `LineBook` instead of their one-step
   storing; the live consumer as a job of `Service`.
3. **When the other disagreements of section 6 cannot happen**, as theorems with a hypothesis, like
   `UnchangedSkippedUnlessCollision`.
