------------------------------ MODULE Service ------------------------------
(***************************************************************************)
(* The life of the process: main wires the two schedulers and the HTTP     *)
(* server, a signal cancels their context, the server drains, Redis and    *)
(* the pool are closed (main's deferred calls, last first) and the process *)
(* is gone.  What runs in between are goroutines that compete for the      *)
(* connections of the pool and for the mutex of persistSnapshots: the      *)
(* schedulers, manual ingestions, read requests, and one archiver per      *)
(* answer of The Odds API.  What they write is left to the other modules:  *)
(* here a goroutine is where it stands and what it holds.  (The live       *)
(* consumer, which takes the same mutex, is in LiveConsumer.)              *)
(***************************************************************************)
EXTENDS Sequences, FiniteSets, Naturals

CONSTANTS
  Poll, Props,             \* the goroutines of Scheduler and PropScheduler
  PollSports, PropSports,  \* ODDS_API_SPORTS, PROP_SPORTS: sequences
  Leagues,                 \* the sports a manual ingestion can name
  Triggers,                \* bound: manual ingestions at a time
  Singles,                 \* bound: archivers and read requests at a time
  PoolSize,                \* connections of the pool
  Free                     \* the mutex is not locked

Schedulers == {Poll, Props}
Jobs == Schedulers \cup Triggers

SportsOf(seq) == {seq[i] : i \in DOMAIN seq}
Sports == SportsOf(PollSports) \cup SportsOf(PropSports) \cup Leagues

ASSUME ServiceAssumption ==
  /\ PollSports \in Seq(Sports) /\ PropSports \in Seq(Sports)
  /\ Poll # Props /\ Triggers \cap Schedulers = {}
  /\ Singles \cap Jobs = {} /\ Free \notin Jobs
  /\ PoolSize \in Nat \ {0}

VARIABLES
  phase,      \* down, up, draining (cancelled), closing (Redis closed, pool closing)
  enabled,    \* ODDS_API_KEY is set
  pc,         \* where each job stands
  todo,       \* the sports its cycle has still to ingest, the current one first
  expired,    \* the manual ingestions whose two minutes are over
  mutex,      \* who is inside persistSnapshots
  conns,      \* the jobs and singles that hold a connection
  working     \* the singles at work: goroutines that do one query and end

life_vars == <<phase, enabled, expired>>
vars == <<life_vars, pc, todo, mutex, conns, working>>

\* The places of a job that does one query; of one inside persistSnapshots; all.
Querying == {"upserting", "reading", "inserting", "sweeping"}
Persisting == {"reading", "inserting", "announcing"}
Ingesting == {"asking", "upserting", "fetching", "locking"} \cup Persisting
Places == {"off", "wait", "next"} \cup Querying \cup Ingesting

Init ==
  /\ phase = "down" /\ enabled = FALSE
  /\ pc = [j \in Jobs |-> "off"] /\ todo = [j \in Jobs |-> <<>>]
  /\ expired = {} /\ mutex = Free /\ conns = {} /\ working = {}

\* The context of the schedulers, and of a manual ingestion (its own, two minutes).
Dead(j) == IF j \in Schedulers THEN phase # "up" ELSE j \in expired

CycleOf(s) == IF s = Poll THEN PollSports ELSE PropSports

\* A job goes to a place; at "next" it is done with a sport, and out of the mutex
\* (the deferred unlock).
MoveTo(j, place) ==
  /\ pc' = [pc EXCEPT ![j] = place]
  /\ todo' = IF place = "next" THEN [todo EXCEPT ![j] = Tail(@)] ELSE todo
  /\ mutex' = IF mutex = j /\ place = "next" THEN Free ELSE mutex

---------------------------------------------------------------------------
(* main *)

\* What the end of the process leaves: nothing.
Gone ==
  /\ phase' = "down" /\ enabled' = FALSE
  /\ pc' = [j \in Jobs |-> "off"] /\ todo' = [j \in Jobs |-> <<>>]
  /\ expired' = {} /\ mutex' = Free /\ conns' = {} /\ working' = {}

\* Both connections are there (without one the process exits, and nothing has
\* changed); with an API key the schedulers start, each with a cycle.
Boot ==
  /\ phase = "down"
  /\ phase' = "up"
  /\ enabled' \in BOOLEAN
  /\ LET started ==
        {s \in Schedulers : enabled' /\ (s = Props => PropSports # <<>>)} IN
       /\ pc' = [j \in Jobs |-> IF j \in started THEN "next" ELSE "off"]
       /\ todo' = [j \in Jobs |-> IF j \in started THEN CycleOf(j) ELSE <<>>]
  /\ UNCHANGED <<expired, mutex, conns, working>>

\* SIGTERM: the schedulers' context is cancelled, nobody waits for them.  A second
\* one changes nothing: it stays in the channel.
Signal ==
  /\ phase = "up" /\ phase' = "draining"
  /\ UNCHANGED <<enabled, expired, pc, todo, mutex, conns, working>>

\* Shutdown returns: all requests are answered, or ten seconds are over.  Then
\* Redis is closed, and the pool gives no more connections.
Drained ==
  /\ phase = "draining" /\ phase' = "closing"
  /\ UNCHANGED <<enabled, expired, pc, todo, mutex, conns, working>>

\* db.Close returns when every connection is back; main returns, and every
\* goroutine ends where it stands.
Exit == phase = "closing" /\ conns = {} /\ Gone

Crash == phase # "down" /\ Gone

---------------------------------------------------------------------------
(* Scheduler and PropScheduler *)

\* select: the next tick, or the one that came while the last cycle ran, starts a
\* cycle; it may be taken although the context is cancelled.
StartCycle(s) ==
  /\ pc[s] = "wait"
  /\ pc' = [pc EXCEPT ![s] = "next"]
  /\ todo' = [todo EXCEPT ![s] = CycleOf(s)]
  /\ UNCHANGED <<life_vars, mutex, conns, working>>

StopScheduler(s) ==
  /\ pc[s] = "wait" /\ Dead(s)
  /\ pc' = [pc EXCEPT ![s] = "off"]
  /\ UNCHANGED <<life_vars, todo, mutex, conns, working>>

\* runCycle's next sport; a scheduler looks at its context first, a manual
\* ingestion does not.
NextSport(j) ==
  /\ pc[j] = "next" /\ todo[j] # <<>>
  /\ j \in Schedulers => ~Dead(j)
  /\ MoveTo(j, "asking")
  /\ UNCHANGED <<life_vars, conns, working>>

\* Faulty variant of Abandon: the sports left are kept.
AbandonKeeping(s) ==
  /\ pc[s] = "next" /\ Dead(s)
  /\ pc' = [pc EXCEPT ![s] = "wait"]
  /\ UNCHANGED <<life_vars, todo, mutex, conns, working>>

\* Cancelled: runCycle returns, without the sweep.
Abandon(s) ==
  /\ pc[s] = "next" /\ Dead(s)
  /\ pc' = [pc EXCEPT ![s] = "wait"] /\ todo' = [todo EXCEPT ![s] = <<>>]
  /\ UNCHANGED <<life_vars, mutex, conns, working>>

\* All sports were tried: the poll goes on to the sweep.
CycleEnds(s) ==
  /\ pc[s] = "next" /\ todo[s] = <<>> /\ ~Dead(s)
  /\ pc' = [pc EXCEPT ![s] = IF s = Poll THEN "sweeping" ELSE "wait"]
  /\ UNCHANGED <<life_vars, todo, mutex, conns, working>>

---------------------------------------------------------------------------
(* Ingest and IngestProps, as far as they ask, wait and hold *)

\* Faulty variant of AnswerFails: an error ends the cycle.
AnswerFailsReturns(j) ==
  /\ pc[j] = "asking"
  /\ pc' = [pc EXCEPT ![j] = "next"] /\ todo' = [todo EXCEPT ![j] = <<>>]
  /\ UNCHANGED <<life_vars, mutex, conns, working>>

\* GetOdds or GetEvents fails: refused, unreadable, out of time, or the context is
\* over before it is sent.  The answer is not archived, whether it has a body or
\* not; the cycle goes on with the next sport.  (Or no event is in the window.)
AnswerFails(j) ==
  /\ pc[j] = "asking"
  /\ MoveTo(j, "next")
  /\ UNCHANGED <<life_vars, conns, working>>

\* An archiver (or a read) starts, unless as many are at work as the bound allows.
StartSingle == \E a \in Singles \ working : working' = working \cup {a}

\* GetOdds answers, and its archiver starts.  GetEvents answers, and no one archives it.
Answer(j) ==
  /\ pc[j] = "asking" /\ ~Dead(j)
  /\ IF j = Props THEN UNCHANGED working ELSE StartSingle
  /\ MoveTo(j, "upserting")
  /\ UNCHANGED <<life_vars, conns>>

\* GetEventOdds, once for all events of a cycle: any body is archived, an error
\* status included; without a snapshot the sport is done.
FetchOdds(j) ==
  /\ pc[j] = "fetching"
  /\ \/ ~Dead(j) /\ StartSingle
     \/ UNCHANGED working
  /\ \/ MoveTo(j, "next")
     \/ ~Dead(j) /\ MoveTo(j, "locking")
  /\ UNCHANGED <<life_vars, conns>>

\* persistSnapshots: Lock does not look at the context.
Lock(j) ==
  /\ pc[j] = "locking" /\ mutex = Free
  /\ mutex' = j
  /\ pc' = [pc EXCEPT ![j] = "reading"]
  /\ UNCHANGED <<life_vars, todo, conns, working>>

\* The entries are deleted and the event published, or Redis fails (and once it is
\* closed it always does): warnings, both.
Announce(j) ==
  /\ pc[j] = "announcing"
  /\ MoveTo(j, "next")
  /\ UNCHANGED <<life_vars, conns, working>>

---------------------------------------------------------------------------
(* The pool *)

PoolOpen == phase \in {"up", "draining"}

\* A connection is given to who needs one.
Acquire(j) ==
  /\ PoolOpen /\ pc[j] \in Querying /\ ~Dead(j)
  /\ j \notin conns /\ Cardinality(conns) < PoolSize
  /\ conns' = conns \cup {j}
  /\ UNCHANGED <<life_vars, pc, todo, mutex, working>>

\* Where a job goes when its query (the batch, the read, the sweep) has been
\* answered: there may be no snapshots, or no changes.
AfterQuery(j) ==
  CASE pc[j] = "upserting" -> IF j = Props THEN {"fetching"} ELSE {"locking", "next"}
    [] pc[j] = "reading" -> {"inserting", "next"}
    [] pc[j] = "inserting" -> {"announcing"}
    [] pc[j] = "sweeping" -> {"wait"}

AfterError(j) == IF pc[j] = "sweeping" THEN "wait" ELSE "next"

\* Faulty variant of QueryDone: the games are upserted in a transaction that stays
\* open until the snapshots are stored.
QueryDoneHolding(j) ==
  /\ j \in conns /\ pc[j] \in Querying
  /\ conns' = IF pc[j] = "upserting" THEN conns ELSE conns \ {j}
  /\ \E place \in AfterQuery(j) : MoveTo(j, place)
  /\ UNCHANGED <<life_vars, working>>

\* The query is answered and the connection is back in the pool.
QueryDone(j) ==
  /\ j \in conns /\ pc[j] \in Querying
  /\ conns' = conns \ {j}
  /\ \E place \in AfterQuery(j) : MoveTo(j, place)
  /\ UNCHANGED <<life_vars, working>>

\* Faulty variant of QueryFails: an error returns without closing the rows.
QueryFailsLeaking(j) ==
  /\ pc[j] \in Querying
  /\ j \in conns \/ Dead(j) \/ ~PoolOpen
  /\ MoveTo(j, AfterError(j))
  /\ UNCHANGED <<life_vars, conns, working>>

\* The query fails, or there is no connection to be had: the context is over, the
\* pool is closed.
QueryFails(j) ==
  /\ pc[j] \in Querying
  /\ j \in conns \/ Dead(j) \/ ~PoolOpen
  /\ conns' = conns \ {j}
  /\ MoveTo(j, AfterError(j))
  /\ UNCHANGED <<life_vars, working>>

\* rawRepo.Insert or the query of a read.
SingleAcquires(a) ==
  /\ PoolOpen /\ a \in working
  /\ a \notin conns /\ Cardinality(conns) < PoolSize
  /\ conns' = conns \cup {a}
  /\ UNCHANGED <<life_vars, pc, todo, mutex, working>>

\* It is answered or fails, or its context is over: five seconds for an archiver.
SingleEnds(a) ==
  /\ a \in working
  /\ working' = working \ {a} /\ conns' = conns \ {a}
  /\ UNCHANGED <<life_vars, pc, todo, mutex>>

---------------------------------------------------------------------------
(* HTTP *)

\* POST /ingestion/trigger: accepted, of one league or of all, and run on a
\* goroutine that no one waits for.
Trigger(t) ==
  /\ phase = "up" /\ enabled
  /\ pc[t] = "off"
  /\ pc' = [pc EXCEPT ![t] = "next"]
  /\ \E sports \in {PollSports} \cup {<<s>> : s \in Leagues} :
       todo' = [todo EXCEPT ![t] = sports]
  /\ expired' = expired \ {t}
  /\ UNCHANGED <<phase, enabled, mutex, conns, working>>

Expire(t) ==
  /\ pc[t] # "off" /\ t \notin expired
  /\ expired' = expired \cup {t}
  /\ UNCHANGED <<phase, enabled, pc, todo, mutex, conns, working>>

TriggerEnds(t) ==
  /\ pc[t] = "next" /\ todo[t] = <<>>
  /\ pc' = [pc EXCEPT ![t] = "off"]
  /\ UNCHANGED <<life_vars, todo, mutex, conns, working>>

\* A read that the cache does not answer; the listener is closed once the server
\* drains.
Serve ==
  /\ phase = "up" /\ StartSingle
  /\ UNCHANGED <<life_vars, pc, todo, mutex, conns>>

---------------------------------------------------------------------------

\* What a job does as soon as it can, and what it has to wait in line for.
JobStep(j) ==
  \/ NextSport(j) \/ AnswerFails(j) \/ Answer(j) \/ FetchOdds(j) \/ Announce(j)
  \/ QueryDone(j) \/ QueryFails(j)
  \/ j \in Schedulers /\ (StartCycle(j) \/ StopScheduler(j) \/ Abandon(j) \/ CycleEnds(j))
  \/ j \in Triggers /\ TriggerEnds(j)

Next ==
  \/ Boot \/ Signal \/ Drained \/ Exit \/ Crash \/ Serve
  \/ \E j \in Jobs : JobStep(j) \/ Lock(j) \/ Acquire(j)
  \/ \E t \in Triggers : Trigger(t) \/ Expire(t)
  \/ \E a \in Singles : SingleAcquires(a) \/ SingleEnds(a)

Spec == Init /\ [][Next]_vars

\* Goroutines run, The Odds API is given 30 seconds, the database and Redis answer
\* or fail; the pool and the mutex serve their waiters in turn; the ticker ticks,
\* and main goes on.
Fairness ==
  /\ \A j \in Jobs : WF_vars(JobStep(j)) /\ SF_vars(Lock(j) \/ Acquire(j))
  /\ \A a \in Singles : WF_vars(SingleEnds(a))
  /\ WF_vars(Drained \/ Exit)

LiveSpec == Spec /\ Fairness

---------------------------------------------------------------------------
(* Properties *)

TypeOK ==
  /\ phase \in {"down", "up", "draining", "closing"} /\ enabled \in BOOLEAN
  /\ pc \in [Jobs -> Places] /\ todo \in [Jobs -> Seq(Sports)]
  /\ \A j \in Jobs : IF pc[j] \in Ingesting THEN todo[j] # <<>>
                     ELSE pc[j] # "next" => todo[j] = <<>>
  /\ expired \subseteq Triggers
  /\ mutex \in Jobs \cup {Free}
  /\ conns \subseteq Jobs \cup Singles /\ working \subseteq Singles

\* Whoever waits for the mutex, for The Odds API, for Redis or for a tick holds no
\* connection, and only who reads, inserts or announces holds the mutex: nobody
\* can wait for another one in a circle (persistSnapshots, UpsertGames, Insert).
WaitersHoldNothing ==
  /\ \A x \in conns : x \in working \/ (x \in Jobs /\ pc[x] \in Querying)
  /\ \A j \in Jobs : mutex = j <=> pc[j] \in Persisting

\* While the process is up, each sport is asked for again and again and the sweep
\* is run again and again, whichever sports fail and however the manual
\* ingestions, the reads and the archivers fight for connections (Start, runCycle).
Asks(j, s) == pc[j] = "asking" /\ Head(todo[j]) = s

PollingNeverStops ==
  /\ \A j \in Schedulers : \A s \in SportsOf(CycleOf(j)) :
       phase = "up" /\ enabled ~> Asks(j, s) \/ phase # "up"
  /\ phase = "up" /\ enabled ~> pc[Poll] = "sweeping" \/ phase # "up"

\* A signal ends the process, whatever is in flight and although nobody waits for
\* the goroutines: every connection comes back to the pool that is closing (main).
SignalEndsProcess == phase = "draining" ~> phase = "down"
===========================================================================
