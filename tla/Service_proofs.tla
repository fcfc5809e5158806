--------------------------- MODULE Service_proofs ---------------------------
(* What Service keeps, for any sports, manual ingestions and size of the pool. *)
EXTENDS Service, SequenceTheorems, TLAPS

\* Without a process there is no goroutine.
DownIsEmpty == phase = "down" => working = {} /\ \A j \in Jobs : pc[j] = "off"

\* The invariant: a job that has the mutex is inside persistSnapshots, one that has
\* a connection is at a query; a start finds nothing of the process before.
Inv == TypeOK /\ WaitersHoldNothing /\ DownIsEmpty

\* The cycle of a scheduler is made of the service's sports.
LEMMA CycleTyped == ASSUME NEW s \in Schedulers PROVE CycleOf(s) \in Seq(Sports)
  BY ServiceAssumption DEF CycleOf

\* Nothing left to do.
LEMMA EmptyTyped == <<>> \in Seq(Sports)
  BY EmptySeq

\* Init establishes the invariant.
LEMMA InvInit == Init => Inv
<1> SUFFICES ASSUME Init PROVE Inv
  OBVIOUS
<1>1. \A j \in Jobs : pc[j] = "off" /\ todo[j] = <<>>
  BY DEF Init
<1>2. TypeOK
  BY <1>1, EmptyTyped DEF Init, TypeOK, Places, Ingesting, Persisting
<1>3. WaitersHoldNothing
  BY <1>1, ServiceAssumption DEF Init, WaitersHoldNothing, Persisting
<1>4. DownIsEmpty
  BY <1>1 DEF Init, DownIsEmpty
<1> QED BY <1>2, <1>3, <1>4 DEF Inv

\* The end of the process establishes it again.
LEMMA InvGone == Gone => Inv'
<1> SUFFICES ASSUME Gone PROVE Inv'
  OBVIOUS
<1>1. \A j \in Jobs : pc'[j] = "off" /\ todo'[j] = <<>>
  BY DEF Gone
<1>2. TypeOK'
  BY <1>1, EmptyTyped DEF Gone, TypeOK, Places, Ingesting, Persisting
<1>3. WaitersHoldNothing'
  BY <1>1, ServiceAssumption DEF Gone, WaitersHoldNothing, Persisting
<1>4. DownIsEmpty'
  BY <1>1 DEF Gone, DownIsEmpty
<1> QED BY <1>2, <1>3, <1>4 DEF Inv

\* A job that is not at a query holds no connection.
LEMMA NotHolding ==
  ASSUME Inv, NEW j \in Jobs, pc[j] \notin Querying
  PROVE  j \notin conns
  BY ServiceAssumption DEF Inv, TypeOK, WaitersHoldNothing

\* What the invariant says of pc and todo survives a move of MoveTo to a place that
\* fits what is left to do.
LEMMA MoveKeeps ==
  ASSUME Inv, NEW j \in Jobs, NEW place \in Places, MoveTo(j, place),
         place = "next" => pc[j] \in Ingesting,
         place \in Ingesting => todo[j] # <<>>,
         place \notin Ingesting \cup {"next"} => todo[j] = <<>>,
         UNCHANGED <<phase, enabled, expired>>,
         working' \in SUBSET Singles
  PROVE  /\ conns' \in SUBSET (Jobs \cup Singles) => TypeOK'
         /\ \A k \in Jobs \ {j} : pc'[k] = pc[k]
         /\ pc'[j] = place
<1>1. pc' = [pc EXCEPT ![j] = place] /\ pc' \in [Jobs -> Places]
  BY DEF Inv, TypeOK, MoveTo
<1>2. todo' \in [Jobs -> Seq(Sports)] /\ \A k \in Jobs \ {j} : todo'[k] = todo[k]
  <2>1. CASE place = "next"
    <3>1. todo[j] \in Seq(Sports) /\ todo[j] # <<>>
      BY <2>1 DEF Inv, TypeOK
    <3>2. Tail(todo[j]) \in Seq(Sports)
      BY <3>1, HeadTailProperties
    <3> QED BY <2>1, <3>2 DEF Inv, TypeOK, MoveTo
  <2>2. CASE place # "next"
    BY <2>2 DEF Inv, TypeOK, MoveTo
  <2> QED BY <2>1, <2>2
<1>3. \A k \in Jobs : IF pc'[k] \in Ingesting THEN todo'[k] # <<>>
                      ELSE pc'[k] # "next" => todo'[k] = <<>>
  <2> SUFFICES ASSUME NEW k \in Jobs
               PROVE  IF pc'[k] \in Ingesting THEN todo'[k] # <<>>
                      ELSE pc'[k] # "next" => todo'[k] = <<>>
    OBVIOUS
  <2>1. CASE k = j
    BY <2>1, <1>1 DEF Inv, TypeOK, MoveTo, Ingesting, Persisting
  <2>2. CASE k # j
    BY <2>2, <1>1, <1>2 DEF Inv, TypeOK
  <2> QED BY <2>1, <2>2
<1>4. mutex' \in Jobs \cup {Free}
  BY DEF Inv, TypeOK, MoveTo
<1> QED BY <1>1, <1>2, <1>3, <1>4 DEF Inv, TypeOK

\* What it says of the connections and the mutex survives a move of a job that holds
\* no connection any more, into and out of persistSnapshots only with its mutex.
LEMMA MoveHolds ==
  ASSUME Inv, NEW j \in Jobs, NEW place \in Places, MoveTo(j, place),
         working \subseteq working', conns' \subseteq conns \ {j},
         pc[j] \in Persisting => place \in Persisting \cup {"next"},
         place \in Persisting => pc[j] \in Persisting
  PROVE  WaitersHoldNothing'
<1>1. pc'[j] = place /\ \A k \in Jobs \ {j} : pc'[k] = pc[k]
  BY DEF Inv, TypeOK, MoveTo
<1>2. \A x \in conns' : x \in working' \/ (x \in Jobs /\ pc'[x] \in Querying)
  BY <1>1 DEF Inv, WaitersHoldNothing
<1>3. \A k \in Jobs : mutex' = k <=> pc'[k] \in Persisting
  <2> SUFFICES ASSUME NEW k \in Jobs PROVE mutex' = k <=> pc'[k] \in Persisting
    OBVIOUS
  <2>1. mutex = j <=> pc[j] \in Persisting
    BY DEF Inv, WaitersHoldNothing
  <2>2. mutex = k <=> pc[k] \in Persisting
    BY DEF Inv, WaitersHoldNothing
  <2>3. CASE k = j
    BY <2>1, <2>3, <1>1, ServiceAssumption DEF MoveTo, Persisting
  <2>4. CASE k # j
    BY <2>1, <2>2, <2>4, <1>1, ServiceAssumption DEF MoveTo, Persisting
  <2> QED BY <2>3, <2>4
<1> QED BY <1>2, <1>3 DEF WaitersHoldNothing

\* Both, for a move that leaves connections alone or gives the job's back.
LEMMA MoveInv ==
  ASSUME Inv, NEW j \in Jobs, NEW place \in Places, MoveTo(j, place), pc[j] # "off",
         place = "next" => pc[j] \in Ingesting,
         place \in Ingesting => todo[j] # <<>>,
         place \notin Ingesting \cup {"next"} => todo[j] = <<>>,
         UNCHANGED <<phase, enabled, expired>>,
         working' \in SUBSET Singles, working \subseteq working',
         conns' \subseteq conns \ {j},
         pc[j] \in Persisting => place \in Persisting \cup {"next"},
         place \in Persisting => pc[j] \in Persisting
  PROVE  Inv'
<1>1. conns' \in SUBSET (Jobs \cup Singles)
  BY DEF Inv, TypeOK
<1>2. TypeOK'
  BY <1>1, MoveKeeps
<1>3. WaitersHoldNothing'
  BY MoveHolds
<1>4. DownIsEmpty'
  BY DEF Inv, DownIsEmpty
<1> QED BY <1>2, <1>3, <1>4 DEF Inv

\* A new single is one of Singles.
LEMMA SingleTyped ==
  ASSUME Inv, StartSingle \/ UNCHANGED working
  PROVE  working' \in SUBSET Singles /\ working \subseteq working'
  BY DEF Inv, TypeOK, StartSingle

\* main: start, signal, drain; the end is Gone.
LEMMA MainKeeps == Inv /\ (Boot \/ Signal \/ Drained \/ Serve) => Inv'
<1> SUFFICES ASSUME Inv, Boot \/ Signal \/ Drained \/ Serve PROVE Inv'
  OBVIOUS
<1>1. CASE Boot
  <2> DEFINE started == {s \in Schedulers : enabled' /\ (s = Props => PropSports # <<>>)}
  <2>1. /\ pc' = [j \in Jobs |-> IF j \in started THEN "next" ELSE "off"]
        /\ todo' = [j \in Jobs |-> IF j \in started THEN CycleOf(j) ELSE <<>>]
    BY <1>1 DEF Boot
  <2>2. todo' \in [Jobs -> Seq(Sports)]
    BY <2>1, CycleTyped, EmptyTyped
  <2>3. TypeOK'
    BY <1>1, <2>1, <2>2 DEF Boot, Inv, TypeOK, Places, Ingesting, Persisting
  <2>4. conns' = {} /\ mutex' = Free
    BY <1>1, ServiceAssumption DEF Boot, Inv, TypeOK, WaitersHoldNothing, DownIsEmpty,
       Querying, Persisting
  <2>5. WaitersHoldNothing'
    BY <2>1, <2>4, ServiceAssumption DEF WaitersHoldNothing, Persisting
  <2>6. DownIsEmpty'
    BY <1>1 DEF Boot, DownIsEmpty
  <2> QED BY <2>3, <2>5, <2>6 DEF Inv
<1>2. CASE Signal
  BY <1>2 DEF Signal, Inv, TypeOK, WaitersHoldNothing, DownIsEmpty
<1>3. CASE Drained
  BY <1>3 DEF Drained, Inv, TypeOK, WaitersHoldNothing, DownIsEmpty
<1>4. CASE Serve
  BY <1>4, SingleTyped DEF Serve, life_vars, Inv, TypeOK, WaitersHoldNothing, DownIsEmpty
<1> QED BY <1>1, <1>2, <1>3, <1>4

\* runCycle's steps, and those of a manual ingestion.
LEMMA CycleKeeps ==
  ASSUME Inv, NEW j \in Jobs,
         \/ j \in Schedulers /\ (StartCycle(j) \/ StopScheduler(j) \/ Abandon(j) \/ CycleEnds(j))
         \/ j \in Triggers /\ (Trigger(j) \/ TriggerEnds(j))
  PROVE  Inv'
<1>1. /\ pc' \in [Jobs -> Places] /\ pc'[j] \notin Ingesting /\ pc[j] \notin Querying \cup Persisting
      /\ todo' \in [Jobs -> Seq(Sports)]
      /\ \A k \in Jobs \ {j} : pc'[k] = pc[k] /\ todo'[k] = todo[k]
      /\ UNCHANGED <<phase, enabled, mutex, conns, working>>
      /\ expired' \subseteq Triggers
      /\ pc'[j] # "next" => todo'[j] = <<>>
      /\ phase # "down"
  <2>1. CASE j \in Schedulers /\ StartCycle(j)
    BY <2>1, CycleTyped DEF StartCycle, life_vars, Inv, TypeOK, DownIsEmpty, Places, Ingesting,
       Persisting, Querying
  <2>2. CASE StopScheduler(j)
    BY <2>2 DEF StopScheduler, life_vars, Inv, TypeOK, DownIsEmpty, Places, Ingesting,
       Persisting, Querying
  <2>3. CASE Abandon(j)
    BY <2>3, EmptyTyped DEF Abandon, life_vars, Inv, TypeOK, DownIsEmpty, Places, Ingesting,
       Persisting, Querying
  <2>4. CASE CycleEnds(j)
    BY <2>4 DEF CycleEnds, life_vars, Inv, TypeOK, DownIsEmpty, Places, Ingesting,
       Persisting, Querying
  <2>5. CASE Trigger(j)
    <3>1. PICK sports \in {PollSports} \cup {<<s>> : s \in Leagues} :
                 todo' = [todo EXCEPT ![j] = sports]
      BY <2>5 DEF Trigger
    <3>2. sports \in Seq(Sports)
      <4>1. \A s \in Leagues : s \in Sports /\ <<s>> \in Seq(Sports)
        BY DEF Sports
      <4> QED BY <3>1, <4>1, ServiceAssumption
    <3> QED BY <2>5, <3>1, <3>2 DEF Trigger, Inv, TypeOK, Places, Ingesting,
               Persisting, Querying
  <2>6. CASE TriggerEnds(j)
    BY <2>6 DEF TriggerEnds, life_vars, Inv, TypeOK, DownIsEmpty, Places, Ingesting,
       Persisting, Querying
  <2> QED BY <2>1, <2>2, <2>3, <2>4, <2>5, <2>6
<1>2. TypeOK'
  BY <1>1 DEF Inv, TypeOK
<1>3. j \notin conns /\ mutex # j
  BY <1>1, NotHolding DEF Inv, WaitersHoldNothing
<1>4. WaitersHoldNothing'
  <2>1. \A x \in conns' : x \in working' \/ (x \in Jobs /\ pc'[x] \in Querying)
    BY <1>1, <1>3 DEF Inv, WaitersHoldNothing
  <2>2. \A k \in Jobs : mutex' = k <=> pc'[k] \in Persisting
    BY <1>1, <1>3 DEF Inv, WaitersHoldNothing, Ingesting
  <2> QED BY <2>1, <2>2 DEF WaitersHoldNothing
<1>5. DownIsEmpty'
  BY <1>1 DEF DownIsEmpty
<1> QED BY <1>2, <1>4, <1>5 DEF Inv

\* Asking, archiving and announcing.
LEMMA IngestKeeps ==
  ASSUME Inv, NEW j \in Jobs,
         NextSport(j) \/ AnswerFails(j) \/ Answer(j) \/ FetchOdds(j) \/ Announce(j)
  PROVE  Inv'
<1> USE DEF Places, Ingesting, Persisting, Querying
<1>1. pc[j] \in {"next", "asking", "fetching", "announcing"}
  BY DEF NextSport, AnswerFails, Answer, FetchOdds, Announce
<1>2. j \notin conns
  BY <1>1, NotHolding
<1>3. pc[j] # "next" => todo[j] # <<>>
  BY <1>1 DEF Inv, TypeOK
<1>4. working \in SUBSET Singles
  BY DEF Inv, TypeOK
<1>5. CASE NextSport(j)
  BY <1>2, <1>4, <1>5, MoveInv DEF NextSport, life_vars
<1>6. CASE AnswerFails(j)
  BY <1>2, <1>4, <1>6, MoveInv DEF AnswerFails, life_vars
<1>7. CASE Answer(j)
  <2>1. working' \in SUBSET Singles /\ working \subseteq working'
    BY <1>7, SingleTyped DEF Answer
  <2> QED BY <1>2, <1>3, <1>7, <2>1, MoveInv DEF Answer, life_vars
<1>8. CASE FetchOdds(j)
  <2>1. working' \in SUBSET Singles /\ working \subseteq working'
    BY <1>8, SingleTyped DEF FetchOdds
  <2> QED BY <1>2, <1>3, <1>8, <2>1, MoveInv DEF FetchOdds, life_vars
<1>9. CASE Announce(j)
  BY <1>2, <1>4, <1>9, MoveInv DEF Announce, life_vars
<1> QED BY <1>5, <1>6, <1>7, <1>8, <1>9

\* A query is answered or fails; either way the connection is given back.
LEMMA QueryKeeps ==
  ASSUME Inv, NEW j \in Jobs, QueryDone(j) \/ QueryFails(j)
  PROVE  Inv'
<1>1. pc[j] \in Querying /\ conns' = conns \ {j} /\ working' = working
      /\ UNCHANGED <<phase, enabled, expired>>
  BY DEF QueryDone, QueryFails, life_vars
<1>2. working' \in SUBSET Singles
  BY <1>1 DEF Inv, TypeOK
<1>3. pc[j] # "sweeping" => todo[j] # <<>>
  BY <1>1 DEF Inv, TypeOK, Querying, Ingesting, Persisting
<1>4. pc[j] = "sweeping" => todo[j] = <<>>
  BY DEF Inv, TypeOK, Ingesting, Persisting
<1>5. CASE QueryDone(j)
  <2>1. PICK place \in AfterQuery(j) : MoveTo(j, place)
    BY <1>5 DEF QueryDone
  <2>2. \/ pc[j] = "upserting" /\ place \in {"fetching", "locking", "next"}
        \/ pc[j] = "reading" /\ place \in {"inserting", "next"}
        \/ pc[j] = "inserting" /\ place = "announcing"
        \/ pc[j] = "sweeping" /\ place = "wait"
    BY <1>1, <2>1 DEF AfterQuery, Querying
  <2> QED BY <1>1, <1>2, <1>3, <1>4, <2>1, <2>2, MoveInv
          DEF Places, Ingesting, Persisting, Querying
<1>6. CASE QueryFails(j)
  <2>1. MoveTo(j, AfterError(j))
    BY <1>6 DEF QueryFails
  <2>2. \/ pc[j] = "sweeping" /\ AfterError(j) = "wait"
        \/ pc[j] # "sweeping" /\ AfterError(j) = "next"
    BY DEF AfterError
  <2> QED BY <1>1, <1>2, <1>3, <1>4, <2>1, <2>2, MoveInv
          DEF Places, Ingesting, Persisting, Querying
<1> QED BY <1>5, <1>6

\* The mutex and the connections are taken.
LEMMA WaitKeeps ==
  ASSUME Inv, NEW j \in Jobs, Lock(j) \/ Acquire(j)
  PROVE  Inv'
<1>1. CASE Lock(j)
  <2>1. /\ pc' = [pc EXCEPT ![j] = "reading"] /\ pc[j] = "locking" /\ mutex = Free
        /\ mutex' = j /\ UNCHANGED <<phase, enabled, expired, todo, conns, working>>
    BY <1>1 DEF Lock, life_vars
  <2>2. TypeOK'
    BY <2>1 DEF Inv, TypeOK, Places, Ingesting, Persisting
  <2>3. j \notin conns
    BY <2>1, NotHolding DEF Querying
  <2>4. pc'[j] = "reading" /\ \A k \in Jobs \ {j} : pc'[k] = pc[k]
    BY <2>1 DEF Inv, TypeOK
  <2>5. WaitersHoldNothing'
    BY <2>1, <2>3, <2>4, ServiceAssumption DEF Inv, WaitersHoldNothing, Persisting
  <2>6. DownIsEmpty'
    BY <2>1 DEF Inv, DownIsEmpty
  <2> QED BY <2>2, <2>5, <2>6 DEF Inv
<1>2. CASE Acquire(j)
  BY <1>2 DEF Acquire, life_vars, Inv, TypeOK, WaitersHoldNothing, DownIsEmpty
<1> QED BY <1>1, <1>2

\* An archiver or a read takes a connection, or ends.
LEMMA SingleKeeps ==
  ASSUME Inv, NEW a \in Singles, SingleAcquires(a) \/ SingleEnds(a)
  PROVE  Inv'
<1>1. CASE SingleAcquires(a)
  BY <1>1 DEF SingleAcquires, life_vars, Inv, TypeOK, WaitersHoldNothing, DownIsEmpty
<1>2. CASE SingleEnds(a)
  BY <1>2 DEF SingleEnds, life_vars, Inv, TypeOK, WaitersHoldNothing, DownIsEmpty
<1> QED BY <1>1, <1>2

\* Every step keeps the invariant.
LEMMA InvStep == Inv /\ [Next]_vars => Inv'
<1> SUFFICES ASSUME Inv, [Next]_vars PROVE Inv'
  OBVIOUS
<1>1. CASE UNCHANGED vars
  BY <1>1 DEF vars, life_vars, Inv, TypeOK, WaitersHoldNothing, DownIsEmpty
<1>2. CASE Boot \/ Signal \/ Drained \/ Serve
  BY <1>2, MainKeeps
<1>3. CASE Exit \/ Crash
  BY <1>3, InvGone DEF Exit, Crash
<1>4. CASE \E j \in Jobs : JobStep(j) \/ Lock(j) \/ Acquire(j)
  BY <1>4, IngestKeeps, QueryKeeps, CycleKeeps, WaitKeeps DEF JobStep
<1>5. CASE \E t \in Triggers : Trigger(t)
  BY <1>5, CycleKeeps DEF Jobs
<1>6. CASE \E t \in Triggers : Expire(t)
  BY <1>6 DEF Expire, Inv, TypeOK, WaitersHoldNothing, DownIsEmpty
<1>7. CASE \E a \in Singles : SingleAcquires(a) \/ SingleEnds(a)
  BY <1>7, SingleKeeps
<1> QED BY <1>1, <1>2, <1>3, <1>4, <1>5, <1>6, <1>7 DEF Next

\* The invariant holds in every state of the process.
THEOREM InvCorrect == Spec => []Inv
  BY InvInit, InvStep, PTL DEF Spec

\* Every variable of the process has its type, and a job has sports left to do
\* exactly when it is at one of them.
THEOREM TypeCorrect == Spec => []TypeOK
<1>1. Inv => TypeOK
  BY DEF Inv
<1> QED BY <1>1, InvCorrect, PTL

\* For any number of sports, manual ingestions, reads, archivers and connections,
\* whoever waits holds no connection, and the mutex is held inside persistSnapshots
\* only: no circle of waiters can form.
THEOREM WaitersCorrect == Spec => []WaitersHoldNothing
<1>1. Inv => WaitersHoldNothing
  BY DEF Inv
<1> QED BY <1>1, InvCorrect, PTL
===========================================================================
