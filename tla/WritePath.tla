---------------------------- MODULE WritePath ----------------------------
(***************************************************************************)
(* The single write path for line snapshots, IngestionService              *)
(* .persistSnapshots, with everybody who meets there: the polling          *)
(* schedulers and manual triggers, the live consumers (Streamers), and the *)
(* readers of GameLines that fill the per-game cache the write path        *)
(* invalidates.                                                            *)
(*                                                                         *)
(* Each database or Redis call is a step of its own that can fail; a crash *)
(* or a shutdown can come between any two of them.  The market is the      *)
(* outside world: what a poll or a frame would see if taken now.  A batch  *)
(* is observed, stamped and stored at three different moments, so neither  *)
(* the order of stamps nor the order of storing is that of observation.    *)
(***************************************************************************)
EXTENDS LineStore, FiniteSets

CONSTANTS
  Keys,          \* line keys
  Games,         \* games
  GameOf,        \* the game of each key
  Prices,        \* what the market may quote for a key
  Stamps,        \* capture instants
  Schedulers,    \* goroutines of the schedulers: they call Ingest at every tick
  Triggers,      \* goroutines of manual triggers: they call Ingest when asked
  Streamers,     \* goroutines that run a LiveConsumer
  Readers,       \* requests of GET /lines/game/{id} with no filter
  PageLimit,     \* the page size of those requests
  MaxMoves,      \* bound: how often the market moves
  MaxTriggers,   \* bound: how often a poll is triggered by hand
  MaxFaults,     \* bound: how often a call fails or the process stops
  MaxLead,       \* bound: how far polls in flight may be ahead of the table
  NoWriter,      \* nobody holds the mutex
  NoEvent,       \* nothing published yet
  NoOdds         \* nothing fetched

Pollers == Schedulers \cup Triggers
Writers == Pollers \cup Streamers

Event == [games : SUBSET Games, count : Nat]

ASSUME WritePathAssumption ==
  /\ GameOf \in [Keys -> Games]
  /\ IsFiniteSet(Keys)
  /\ Stamps \subseteq Nat
  /\ Pollers \cap Streamers = {}
  /\ NoWriter \notin Writers /\ NoEvent \notin Event
  /\ NoOdds \notin [Keys -> Prices]
  /\ PageLimit \in Nat /\ MaxMoves \in Nat /\ MaxTriggers \in Nat
  /\ MaxFaults \in Nat /\ MaxLead \in Nat

Values == [odds : Prices, live : BOOLEAN]
Row == [key : Keys, at : Stamps, val : Values]

VARIABLES
  market,        \* Keys -> Prices, the outside world
  moves,         \* how often it moved (bounded by MaxMoves)
  triggers,      \* how often a poll was triggered by hand (bounded by MaxTriggers)
  fetched,       \* what GetOdds answered each poller, until it is normalized
  frames,        \* the frames each stream delivered
  faults,        \* how many calls failed (bounded by MaxFaults)
  mu,            \* the holder of IngestionService.mu
  pc,            \* where each writer is in Ingest or persistSnapshots
  snapshots,     \* its argument
  latest,        \* the dedup read
  todo,          \* games it still has to invalidate
  inserted,      \* what InsertLineSnapshots returned
  table,         \* lines.line_snapshots
  cache,         \* lines:current:<game>, {} when there is no usable entry
  rpc, rgame, rcopy,   \* each reader: its step, game and loaded lines
  event,         \* the last message on events:lines.updated
  \* History variables: they record causes, no action depends on them.
  overtaken,     \* readers whose copy a later commit made old
  tainted,       \* games whose entry lost an invalidation or got an old fill
  unannounced,   \* games with a stored row no event has named since
  missed         \* games whose event was lost to a fault

market_vars == <<market, moves, triggers>>
source_vars == <<fetched, frames>>
writer_vars == <<mu, pc, snapshots, latest, todo, inserted>>
reader_vars == <<rpc, rgame, rcopy>>
history_vars == <<overtaken, tainted, unannounced, missed>>
vars == <<market, moves, triggers, fetched, frames, faults, mu, pc, snapshots, latest,
          todo, inserted, table, cache, rpc, rgame, rcopy, event, overtaken,
          tainted, unannounced, missed>>

\* Faulty variant of GamesOf: line keys where game ids are wanted.
GamesOfByKey(rows) == {r.key : r \in rows}

GamesOf(rows) == {GameOf[r.key] : r \in rows}
FrameLines(g) == SUBSET {k \in Keys : GameOf[k] = g} \ {{}}
LinesOf(rows, g) == {r \in Current(rows) : GameOf[r.key] = g}

Init ==
  /\ market \in [Keys -> Prices]
  /\ moves = 0 /\ triggers = 0 /\ faults = 0
  /\ fetched = [p \in Pollers |-> NoOdds]
  /\ frames = [s \in Streamers |-> {}]
  /\ mu = NoWriter
  /\ pc = [p \in Writers |-> "idle"]
  /\ snapshots = [p \in Writers |-> {}]
  /\ latest = [p \in Writers |-> {}]
  /\ todo = [p \in Writers |-> {}]
  /\ inserted = [p \in Writers |-> 0]
  /\ table = {}
  /\ cache = [g \in Games |-> {}]
  /\ rpc = [r \in Readers |-> "idle"]
  /\ rgame \in [Readers -> Games]
  /\ rcopy = [r \in Readers |-> {}]
  /\ event = NoEvent
  /\ overtaken = {} /\ tainted = {} /\ unannounced = {} /\ missed = {}

---------------------------------------------------------------------------
(* The outside world *)

\* A book moves a line.
MoveMarket(k) ==
  /\ moves < MaxMoves
  /\ \E price \in Prices \ {market[k]} : market' = [market EXCEPT ![k] = price]
  /\ moves' = moves + 1
  /\ UNCHANGED <<triggers, source_vars, faults, writer_vars, table, cache,
                 reader_vars, event, history_vars>>

\* A call that fails spends one of the MaxFaults faults.
Fault == faults < MaxFaults /\ faults' = faults + 1

\* All that was observed and is stored, or may be some day.
Observed ==
  table \cup (UNION {snapshots[p] : p \in Writers})
        \cup (UNION {UNION frames[s] : s \in Streamers})

StampsInUse == {r.at : r \in Observed}

\* The next reading of the wall clock.  Only the order of instants matters, so
\* it is the least instant after all those still in use; MaxLead keeps polls that
\* overlap for ever from using up the instants.
IsNow(t) ==
  /\ \A u \in StampsInUse : u < t
  /\ \A t2 \in Stamps : (\A u \in StampsInUse : u < t2) => t <= t2
  /\ \E u \in {0} \cup {r.at : r \in table} : t <= u + MaxLead

---------------------------------------------------------------------------
(* Observing: what happens before persistSnapshots *)

\* Ingest: GetOdds answers with what the market is at this moment.
GetOdds(p) ==
  /\ pc[p] = "idle"
  /\ fetched' = [fetched EXCEPT ![p] = market]
  /\ pc' = [pc EXCEPT ![p] = "fetched"]
  /\ IF p \in Triggers THEN triggers < MaxTriggers /\ triggers' = triggers + 1
                        ELSE UNCHANGED triggers
  /\ UNCHANGED <<market, moves, frames, faults, mu, snapshots, latest, todo, inserted,
                 table, cache, reader_vars, event, history_vars>>

\* The snapshots of some lines at given prices.
Batch(K, price, t, live) ==
  {[key |-> k, at |-> t, val |-> [odds |-> price[k], live |-> live]] : k \in K}

\* ... GetAll answers, and Normalize stamps every snapshot with one reading of the
\* clock, taken neither with the odds nor under the mutex; REST snapshots are
\* never live.
Normalize(p) ==
  /\ pc[p] = "fetched"
  /\ \E t \in Stamps :
       /\ IsNow(t)
       /\ snapshots' = [snapshots EXCEPT ![p] = Batch(Keys, fetched[p], t, FALSE)]
  /\ fetched' = [fetched EXCEPT ![p] = NoOdds]
  /\ pc' = [pc EXCEPT ![p] = "ready"]
  /\ UNCHANGED <<market_vars, frames, faults, mu, latest, todo, inserted,
                 table, cache, reader_vars, event, history_vars>>

\* GetAll fails, or the context ends.
NormalizeFails(p) ==
  /\ pc[p] = "fetched"
  /\ Fault
  /\ fetched' = [fetched EXCEPT ![p] = NoOdds]
  /\ pc' = [pc EXCEPT ![p] = "idle"]
  /\ UNCHANGED <<market_vars, frames, mu, snapshots, latest, todo, inserted,
                 table, cache, reader_vars, event, history_vars>>

\* handleFrame hands a frame on.
Submit(s, frame) ==
  /\ pc[s] = "idle"
  /\ pc' = [pc EXCEPT ![s] = "ready"]
  /\ snapshots' = [snapshots EXCEPT ![s] = frame]
  /\ UNCHANGED <<market_vars, fetched, faults, mu, latest, todo, inserted,
                 table, cache, reader_vars, event, history_vars>>

\* A frame quotes lines of one game, under the provider's captured_at: an instant
\* of its own, though it may lie before others already seen.
ReceiveFrame(s, K) ==
  /\ \E t \in Stamps \ StampsInUse :
       LET frame == Batch(K, market, t, TRUE)
       IN Submit(s, frame) /\ frames' = [frames EXCEPT ![s] = @ \cup {frame}]

\* The provider sends a frame again (after a reconnect, say), with the captured_at
\* it had.
ReplayFrame(s, frame) ==
  /\ Submit(s, frame)
  /\ UNCHANGED frames

---------------------------------------------------------------------------
(* persistSnapshots *)

\* Leaving persistSnapshots runs the deferred Unlock.
Unlocked(p) ==
  /\ mu' = NoWriter
  /\ pc' = [pc EXCEPT ![p] = "idle"]
  /\ snapshots' = [snapshots EXCEPT ![p] = {}]
  /\ latest' = [latest EXCEPT ![p] = {}]
  /\ todo' = [todo EXCEPT ![p] = {}]
  /\ inserted' = [inserted EXCEPT ![p] = 0]

\* UpsertGames fails, or the context ends, before persistSnapshots is called.
Abandon(p) ==
  /\ pc[p] = "ready"
  /\ Fault
  /\ pc' = [pc EXCEPT ![p] = "idle"]
  /\ snapshots' = [snapshots EXCEPT ![p] = {}]
  /\ UNCHANGED <<market_vars, source_vars, mu, latest, todo, inserted, table,
                 cache, reader_vars, event, history_vars>>

\* Faulty variant of Lock: no mutex.
LockUnguarded(p) ==
  /\ pc[p] = "ready"
  /\ mu' = p
  /\ pc' = [pc EXCEPT ![p] = "read"]
  /\ UNCHANGED <<market_vars, source_vars, faults, snapshots, latest, todo,
                 inserted, table, cache, reader_vars, event, history_vars>>

\* s.mu.Lock().
Lock(p) ==
  /\ pc[p] = "ready"
  /\ mu = NoWriter
  /\ mu' = p
  /\ pc' = [pc EXCEPT ![p] = "read"]
  /\ UNCHANGED <<market_vars, source_vars, faults, snapshots, latest, todo,
                 inserted, table, cache, reader_vars, event, history_vars>>

\* Faulty variant of GetLatestLineValues: ORDER BY captured_at ASC.
GetFirstLineValues(batch) ==
  {r \in table : /\ GameOf[r.key] \in GamesOf(batch)
                 /\ \A q \in table : q.key = r.key => r.at <= q.at}

\* Faulty variant of GetLatestLineValues: no DISTINCT ON.
GetAnyLineValues(batch) == {r \in table : GameOf[r.key] \in GamesOf(batch)}

\* The latest row of every key of the games of a batch.
GetLatestLineValues(batch) ==
  {r \in Current(table) : GameOf[r.key] \in GamesOf(batch)}

Changed(p) == FilterChanged(latest[p], snapshots[p])

\* Faulty variant of ReadUnchanged: the early return forgets the mutex.
ReadUnchangedLocked(p) ==
  /\ pc[p] = "read"
  /\ FilterChanged(GetLatestLineValues(snapshots[p]), snapshots[p]) = {}
  /\ pc' = [pc EXCEPT ![p] = "idle"]
  /\ snapshots' = [snapshots EXCEPT ![p] = {}]
  /\ UNCHANGED <<market_vars, source_vars, faults, mu, latest, todo, inserted,
                 table, cache, reader_vars, event, history_vars>>

\* The dedup read finds nothing new: return without a write.
ReadUnchanged(p) ==
  /\ pc[p] = "read"
  /\ FilterChanged(GetLatestLineValues(snapshots[p]), snapshots[p]) = {}
  /\ Unlocked(p)
  /\ UNCHANGED <<market_vars, source_vars, faults, table, cache, reader_vars,
                 event, history_vars>>

\* The dedup read finds changed lines: go on to the insert.
ReadChanged(p) ==
  /\ pc[p] = "read"
  /\ FilterChanged(GetLatestLineValues(snapshots[p]), snapshots[p]) # {}
  /\ latest' = [latest EXCEPT ![p] = GetLatestLineValues(snapshots[p])]
  /\ pc' = [pc EXCEPT ![p] = "insert"]
  /\ UNCHANGED <<market_vars, source_vars, faults, mu, snapshots, todo, inserted,
                 table, cache, reader_vars, event, history_vars>>

\* GetLatestLineValues fails.
ReadFails(p) ==
  /\ pc[p] = "read"
  /\ Fault
  /\ Unlocked(p)
  /\ UNCHANGED <<market_vars, source_vars, table, cache, reader_vars, event,
                 history_vars>>

\* Faulty variant of Commit: the old row of a line is replaced.
CommitReplacing(new) ==
  /\ table' = {r \in table : \A n \in new : n.key # r.key} \cup new
  /\ overtaken' = overtaken \cup
       {r \in Readers : rpc[r] = "fill" /\ rgame[r] \in GamesOf(new)}
  /\ unannounced' = unannounced \cup GamesOf(new)

\* The batch is one implicit transaction: its rows appear together.  The
\* history variables note which readers hold older lines and which games
\* have news.
Commit(new) ==
  /\ table' = table \cup new
  /\ overtaken' = overtaken \cup
       {r \in Readers : rpc[r] = "fill" /\ rgame[r] \in GamesOf(new)}
  /\ unannounced' = unannounced \cup GamesOf(new)

\* Faulty variant of Insert: no invalidation before the publish.
InsertNoInvalidation(p) ==
  /\ pc[p] = "insert"
  /\ \E new \in InsertOutcomes(table, Changed(p)) :
       /\ Commit(new)
       /\ inserted' = [inserted EXCEPT ![p] = Cardinality(new)]
  /\ pc' = [pc EXCEPT ![p] = "publish"]
  /\ UNCHANGED <<market_vars, source_vars, faults, mu, snapshots, latest, todo,
                 cache, reader_vars, event, tainted, missed>>

\* InsertLineSnapshots commits; every game of a changed snapshot is to be
\* invalidated, stored or not.
Insert(p) ==
  /\ pc[p] = "insert"
  /\ \E new \in InsertOutcomes(table, Changed(p)) :
       /\ Commit(new)
       /\ inserted' = [inserted EXCEPT ![p] = Cardinality(new)]
  /\ todo' = [todo EXCEPT ![p] = GamesOf(Changed(p))]
  /\ pc' = [pc EXCEPT ![p] = "invalidate"]
  /\ UNCHANGED <<market_vars, source_vars, faults, mu, snapshots, latest, cache,
                 reader_vars, event, tainted, missed>>

\* InsertLineSnapshots fails and the transaction rolls back.
InsertFails(p) ==
  /\ pc[p] = "insert"
  /\ Fault
  /\ Unlocked(p)
  /\ UNCHANGED <<market_vars, source_vars, table, cache, reader_vars, event,
                 history_vars>>

\* The transaction commits but its answer is lost (the context ends, the
\* connection drops): the code takes the error return, so the games are
\* neither invalidated nor announced.
InsertAnswerLost(p) ==
  /\ pc[p] = "insert"
  /\ Fault
  /\ \E new \in InsertOutcomes(table, Changed(p)) :
       /\ Commit(new)
       /\ tainted' = tainted \cup GamesOf(new)
       /\ missed' = missed \cup GamesOf(new)
  /\ Unlocked(p)
  /\ UNCHANGED <<market_vars, source_vars, cache, reader_vars, event>>

\* The loop over the changed games moves on, to the publish after the last.
NextGame(p, g) ==
  /\ todo' = [todo EXCEPT ![p] = @ \ {g}]
  /\ pc' = [pc EXCEPT ![p] = IF todo[p] = {g} THEN "publish" ELSE "invalidate"]
  /\ UNCHANGED <<market_vars, source_vars, mu, snapshots, latest, inserted, table,
                 reader_vars, event, overtaken, unannounced, missed>>

\* InvalidateGame deletes the entry.
Invalidate(p, g) ==
  /\ pc[p] = "invalidate" /\ g \in todo[p]
  /\ cache' = [cache EXCEPT ![g] = {}]
  /\ tainted' = tainted \ {g}
  /\ NextGame(p, g)
  /\ UNCHANGED faults

\* InvalidateGame fails: a warning, and the loop goes on.
InvalidateFails(p, g) ==
  /\ pc[p] = "invalidate" /\ g \in todo[p]
  /\ Fault
  /\ tainted' = tainted \cup {g}
  /\ NextGame(p, g)
  /\ UNCHANGED cache

\* Faulty variant of Publish: the event names the first game only.
PublishFirstGame(p) ==
  /\ pc[p] = "publish"
  /\ LET first == CHOOSE g \in GamesOf(Changed(p)) : TRUE
     IN /\ event' = [games |-> {first}, count |-> inserted[p]]
        /\ unannounced' = unannounced \ {first}
        /\ missed' = missed \ {first}
  /\ Unlocked(p)
  /\ UNCHANGED <<market_vars, source_vars, faults, table, cache, reader_vars,
                 overtaken, tainted>>

\* PublishLinesUpdated names the changed games and the number of rows stored.
Publish(p) ==
  /\ pc[p] = "publish"
  /\ event' = [games |-> GamesOf(Changed(p)), count |-> inserted[p]]
  /\ unannounced' = unannounced \ GamesOf(Changed(p))
  /\ missed' = missed \ GamesOf(Changed(p))
  /\ Unlocked(p)
  /\ UNCHANGED <<market_vars, source_vars, faults, table, cache, reader_vars,
                 overtaken, tainted>>

\* PublishLinesUpdated fails: a warning, and the call still succeeds.
PublishFails(p) ==
  /\ pc[p] = "publish"
  /\ Fault
  /\ missed' = missed \cup GamesOf(Changed(p))
  /\ Unlocked(p)
  /\ UNCHANGED <<market_vars, source_vars, table, cache, reader_vars, event,
                 overtaken, tainted, unannounced>>

---------------------------------------------------------------------------
(* GameLines with no filter, and the life of a cache entry *)

\* The entry is absent, or Redis does not answer (a warning): read the table.
\* A hit answers from the entry and changes nothing.
Lookup(r, g) ==
  /\ rpc[r] = "idle"
  /\ \/ cache[g] = {} /\ UNCHANGED faults
     \/ Fault
  /\ rpc' = [rpc EXCEPT ![r] = "load"]
  /\ rgame' = [rgame EXCEPT ![r] = g]
  /\ UNCHANGED <<market_vars, source_vars, writer_vars, table, cache, rcopy,
                 event, history_vars>>

\* GetGameLines; a page that leaves lines behind (hasMore) is not cached.
Load(r) ==
  /\ rpc[r] = "load"
  /\ IF Cardinality(LinesOf(table, rgame[r])) <= PageLimit
       THEN /\ rpc' = [rpc EXCEPT ![r] = "fill"]
            /\ rcopy' = [rcopy EXCEPT ![r] = LinesOf(table, rgame[r])]
       ELSE /\ rpc' = [rpc EXCEPT ![r] = "idle"]
            /\ UNCHANGED rcopy
  /\ UNCHANGED <<market_vars, source_vars, faults, writer_vars, table, cache,
                 rgame, event, history_vars>>

\* The reader is done with its copy.
Answered(r) ==
  /\ rpc' = [rpc EXCEPT ![r] = "idle"]
  /\ rcopy' = [rcopy EXCEPT ![r] = {}]
  /\ overtaken' = overtaken \ {r}
  /\ UNCHANGED <<market_vars, source_vars, writer_vars, table, rgame, event,
                 unannounced, missed>>

\* SetCurrentLines with what was read, however old it is by now.
Fill(r) ==
  /\ rpc[r] = "fill"
  /\ cache' = [cache EXCEPT ![rgame[r]] = rcopy[r]]
  /\ tainted' = IF r \in overtaken THEN tainted \cup {rgame[r]}
                                   ELSE tainted \ {rgame[r]}
  /\ Answered(r)
  /\ UNCHANGED faults

\* The query or SetCurrentLines fails.
ReaderFails(r) ==
  /\ rpc[r] \in {"load", "fill"}
  /\ Fault
  /\ Answered(r)
  /\ UNCHANGED <<cache, tainted>>

\* Faulty variant of Expire: SET with no expiry.
ExpireNever(g) == cache[g] # {} /\ FALSE /\ UNCHANGED vars

\* lineCacheTTL runs out.
Expire(g) ==
  /\ cache[g] # {}
  /\ cache' = [cache EXCEPT ![g] = {}]
  /\ tainted' = tainted \ {g}
  /\ UNCHANGED <<market_vars, source_vars, faults, writer_vars, table,
                 reader_vars, event, overtaken, unannounced, missed>>

---------------------------------------------------------------------------
\* The process stops (SIGTERM cancels and does not wait for the goroutines, or
\* it crashes) and starts again: memory is lost, Postgres and Redis are not.
Restart ==
  /\ Fault
  /\ mu' = NoWriter
  /\ pc' = [p \in Writers |-> "idle"]
  /\ snapshots' = [p \in Writers |-> {}]
  /\ latest' = [p \in Writers |-> {}]
  /\ todo' = [p \in Writers |-> {}]
  /\ inserted' = [p \in Writers |-> 0]
  /\ fetched' = [p \in Pollers |-> NoOdds]
  /\ rpc' = [r \in Readers |-> "idle"]
  /\ rcopy' = [r \in Readers |-> {}]
  /\ overtaken' = {}
  /\ tainted' = tainted \cup UNION {todo[p] : p \in Writers}
  /\ missed' = missed \cup UNION {GamesOf(Changed(p)) :
                                    p \in {w \in Writers : pc[w] \in {"invalidate", "publish"}}}
  /\ UNCHANGED <<market_vars, frames, table, cache, rgame, event, unannounced>>

WriterStep(p) ==
  \/ ReadUnchanged(p) \/ ReadChanged(p) \/ ReadFails(p)
  \/ Insert(p) \/ InsertFails(p) \/ InsertAnswerLost(p)
  \/ \E g \in Games : Invalidate(p, g) \/ InvalidateFails(p, g)
  \/ Publish(p) \/ PublishFails(p)

ReaderStep(r) == Load(r) \/ Fill(r) \/ ReaderFails(r)

Next ==
  \/ \E k \in Keys : MoveMarket(k)
  \/ \E p \in Pollers : GetOdds(p) \/ Normalize(p) \/ NormalizeFails(p)
  \/ \E s \in Streamers :
       \/ \E g \in Games : \E K \in FrameLines(g) : ReceiveFrame(s, K)
       \/ \E frame \in frames[s] : ReplayFrame(s, frame)
  \/ \E p \in Writers : Abandon(p) \/ Lock(p) \/ WriterStep(p)
  \/ \E r \in Readers : ReaderStep(r) \/ \E g \in Games : Lookup(r, g)
  \/ \E g \in Games : Expire(g)
  \/ Restart

Spec == Init /\ [][Next]_vars

\* The ticker keeps the schedulers polling; a goroutine past its fetch runs on,
\* and sync.Mutex hands itself to a waiter that has starved; a request in
\* progress ends; Redis drops entries when their TTL runs out.  Nothing makes
\* the market move, anyone trigger a poll, a frame arrive, a request start or a
\* fault happen.
Fairness ==
  /\ \A p \in Schedulers : WF_vars(GetOdds(p))
  /\ \A p \in Pollers : WF_vars(Normalize(p))
  /\ \A p \in Writers : SF_vars(Lock(p)) /\ WF_vars(WriterStep(p))
  /\ \A r \in Readers : WF_vars(ReaderStep(r))
  /\ \A g \in Games : WF_vars(Expire(g))

LiveSpec == Spec /\ Fairness
---------------------------------------------------------------------------
(* Safety *)

InPersist == {"read", "insert", "invalidate", "publish"}

TypeOK ==
  /\ market \in [Keys -> Prices] /\ moves \in Nat /\ triggers \in Nat /\ faults \in Nat
  /\ fetched \in [Pollers -> [Keys -> Prices] \cup {NoOdds}]
  /\ \A p \in Pollers : pc[p] = "fetched" => fetched[p] # NoOdds
  /\ frames \in [Streamers -> SUBSET SUBSET Row]
  /\ mu \in Writers \cup {NoWriter}
  /\ pc \in [Writers -> {"idle", "fetched", "ready"} \cup InPersist]
  /\ snapshots \in [Writers -> SUBSET Row]
  /\ latest \in [Writers -> SUBSET Row]
  /\ todo \in [Writers -> SUBSET Games]
  /\ inserted \in [Writers -> Nat]
  /\ table \in SUBSET Row
  /\ cache \in [Games -> SUBSET Row]
  /\ rpc \in [Readers -> {"idle", "load", "fill"}]
  /\ rgame \in [Readers -> Games]
  /\ rcopy \in [Readers -> SUBSET Row]
  /\ event \in Event \cup {NoEvent}
  /\ overtaken \in SUBSET Readers /\ tainted \in SUBSET Games
  /\ unannounced \in SUBSET Games /\ missed \in SUBSET Games

\* The mutex is the write path's: exactly the writer inside persistSnapshots
\* holds it, on every way in and out.
MutexHeld == \A p \in Writers : mu = p <=> pc[p] \in InPersist

\* "The mutex keeps their dedup reads and inserts from interleaving"
\* (ingestion.go): what a writer read is still the latest when it inserts.
DedupReadHolds ==
  \A p \in Writers : pc[p] = "insert" => latest[p] = GetLatestLineValues(snapshots[p])

\* No row is stored that repeats the value current at that moment, whoever
\* else is polling or streaming the same line.
InsertOnlyChanges ==
  [][\A r \in table' \ table : \A q \in Current(table) :
        q.key = r.key => q.val # r.val]_table

\* Snapshots are immutable: a stored row stays, and no slot ever gets a second
\* row (a replayed frame, a retried batch).
SnapshotsImmutable == [][table \subseteq table' /\ SlotsUnique(table')]_table

\* A cache entry that differs from the table has one of three causes: the
\* writer whose commit made it old is still to invalidate it, an invalidation
\* was lost, or a reader filled it with lines a commit had overtaken.
StaleEntryHasCause ==
  \A g \in Games :
    cache[g] \notin {{}, LinesOf(table, g)} =>
      \/ g \in tainted
      \/ \E p \in Writers : pc[p] = "invalidate" /\ g \in todo[p]

\* A stored row no event has named since is still to be announced by the
\* writer that stored it, or its event was lost to a fault: deduplication means
\* nobody announces it later.
SilentRowHasCause ==
  \A g \in unannounced :
    \/ g \in missed
    \/ \E p \in Writers : /\ pc[p] \in {"invalidate", "publish"}
                          /\ g \in GamesOf(Changed(p))

\* What a writer was given is not lost: while it tells the world, the current value
\* of every line it was given is that value, or one with a later captured_at, whatever
\* the order the batches came in (persistSnapshots, all of it).
ObservedNotLost ==
  \A p \in Writers : pc[p] \in {"invalidate", "publish"} =>
    \A s \in snapshots[p] :
      \E r \in Current(table) : r.key = s.key /\ (r.val = s.val \/ r.at > s.at)

---------------------------------------------------------------------------
(* What the write path promises, and that it keeps the promise *)

\* The games of the batch stored last, until they are published or given up.
Owed == UNION {GamesOf(Changed(p)) :
                 p \in {w \in Writers : pc[w] \in {"invalidate", "publish"}}}

LB == INSTANCE LineBook WITH
        book <- table,
        owed <- Owed,
        told <- IF event = NoEvent THEN {} ELSE event.games,
        silent <- unannounced

\* persistSnapshots implements LineBook: polls and frames that race, replays, lost
\* answers and restarts never record a row that is no change, touch a record, or
\* record a batch while another is still to be announced.
ImplementsLineBook == LB!Spec

---------------------------------------------------------------------------
(* Liveness *)

\* Every writer that gets as far as persistSnapshots comes back out: no path
\* keeps the mutex and no writer starves for it.
PersistEnds == \A p \in Writers : pc[p] = "ready" ~> pc[p] = "idle"

\* Once the market rests, the current price of every line comes to be the
\* market's, and stays.  A poll that fetched before another and is stamped or stored
\* after it leaves an old price current, and so does one whose newer price was skipped
\* as unchanged before the older one came in; only the polls that follow make it good.
PricesConverge ==
  <>[](\A k \in Keys : \E r \in Current(table) : r.key = k /\ r.val.odds = market[k])

\* ... and no cache entry stays old for ever: the TTL ends what a lost
\* invalidation or a late fill began.
CacheConverges == <>[](\A g \in Games : cache[g] \in {{}, LinesOf(table, g)})
==========================================================================
