--------------------------- MODULE LiveConsumer ---------------------------
(***************************************************************************)
(* The live line consumer: LiveConsumer.Run opens one SSE stream after     *)
(* another (sharpapi.Client.Stream), and handles the frames a reader       *)
(* goroutine hands over on an unbuffered channel; the reader's terminal    *)
(* error travels on a second channel of capacity 1.                        *)
(*                                                                         *)
(* A frame is the key of the sportsbook it quotes, or Unmapped when its    *)
(* sport or market is not one of ours.  What storing a frame does to the   *)
(* table is WritePath's subject; here the call succeeds or fails.          *)
(***************************************************************************)
EXTENDS Naturals

CONSTANTS
  Books,         \* keys of sportsbooks
  Unmapped,      \* a frame of a sport or a market that is not mapped
  Malformed,     \* data that does not decode
  None,          \* no frame, no map
  Threshold,     \* failureThreshold
  MaxBackoff,    \* liveBackoffMax, in units of liveBackoffInitial
  MaxFrames,     \* bound: frames the provider sends on one connection
  FailureCap     \* bound: failures are counted up to here

Frames == Books \cup {Unmapped}

\* Above the threshold, and once the backoff is at its cap, all counts of
\* failures are alike.
ASSUME LiveAssumption ==
  /\ {Unmapped, Malformed, None} \cap Books = {}
  /\ Unmapped # Malformed /\ Unmapped # None /\ Malformed # None
  /\ None \notin {"stored", "failed", "unknown", "unmapped"}
  /\ Threshold \in Nat \ {0} /\ MaxBackoff \in Nat \ {0} /\ MaxFrames \in Nat
  /\ FailureCap \in Nat /\ FailureCap > Threshold
  /\ 2^(FailureCap - 1) >= MaxBackoff

VARIABLES
  books,         \* the sportsbooks table
  cancelled,     \* ctx of main
  consumer,      \* where the Run goroutine is
  failures,      \* Run: streams in a row without a frame processed
  backoff,       \* Run: the next wait
  got,           \* consumeStream: gotFrame
  sbMap,         \* the cached keys, None before the first frame
  frame,         \* handleFrame: the frame being processed
  outcome,       \* how the last frame ended: stored, failed, unknown, unmapped
  reader,        \* where the stream's goroutine is
  open,          \* its channels that are not closed yet
  errs,          \* errors waiting in the error channel
  pending,       \* readEvents: the data not dispatched yet
  broken,        \* readEvents: scanner.Err() # nil
  offered, taken,\* history: whole frames of this stream sent and taken
  seeded,        \* history: the sportsbooks when the frame was taken
  warnings,      \* history: warnings since the last stream with a frame
  hadFrame       \* history: some stream of this process had a frame

run_vars == <<failures, backoff, warnings, hadFrame>>
frame_vars == <<sbMap, frame, outcome, seeded>>
reader_vars == <<open, errs, pending, broken, offered>>
vars == <<books, cancelled, consumer, failures, backoff, got, sbMap, frame, outcome,
          reader, open, errs, pending, broken, offered, taken, seeded, warnings,
          hadFrame>>

Init ==
  /\ books \in SUBSET Books
  /\ cancelled = FALSE /\ consumer = "top" /\ failures = 0 /\ backoff = 1
  /\ got = FALSE /\ sbMap = None /\ frame = None /\ outcome = None
  /\ reader = "none" /\ open = {} /\ errs = 0 /\ pending = None /\ broken = FALSE
  /\ offered = 0 /\ taken = 0 /\ seeded = {} /\ warnings = 0
  /\ hadFrame = FALSE

---------------------------------------------------------------------------
(* The reader goroutine of one stream *)

\* What an action of the reader leaves alone, and one of the consumer.
ConsumerUnchanged == UNCHANGED <<books, cancelled, consumer, run_vars, got, frame_vars, taken>>
ReaderUnchanged == UNCHANGED <<books, cancelled, reader, reader_vars, taken>>

\* The provider answers 200.
Connected ==
  /\ reader = "connect"
  /\ reader' = "scan"
  /\ ConsumerUnchanged /\ UNCHANGED <<reader_vars>>

\* The connection is refused, or the status is not 200 (reported even when the
\* context has ended), or the context ends the request.
Refused ==
  /\ reader = "connect"
  /\ \/ reader' = "report"
     \/ cancelled /\ reader' = "return"
  /\ ConsumerUnchanged /\ UNCHANGED <<reader_vars>>

\* The data lines of one event: a frame, or text that does not decode.  Lines of
\* other kinds change nothing; events are kept apart by blank lines.
ScanData(data) ==
  /\ reader = "scan" /\ ~cancelled
  /\ pending = None /\ offered < MaxFrames
  /\ pending' = data
  /\ offered' = IF data = Malformed THEN offered ELSE offered + 1
  /\ ConsumerUnchanged /\ UNCHANGED <<reader, open, errs, broken>>

\* dispatch: what does not decode is skipped.
Dispatch(then, offering) ==
  IF pending \in Frames
  THEN reader' = offering /\ UNCHANGED pending
  ELSE reader' = then /\ pending' = None

\* A blank line dispatches the event.
ScanBlank ==
  /\ reader = "scan" /\ ~cancelled
  /\ pending # None
  /\ Dispatch("scan", "offer")
  /\ ConsumerUnchanged /\ UNCHANGED <<open, errs, broken, offered>>

\* A line is read after the context has ended: readEvents returns.
ScanCancelled ==
  /\ reader = "scan" /\ cancelled
  /\ reader' = "return"
  /\ ConsumerUnchanged /\ UNCHANGED <<reader_vars>>

\* Faulty variant of ScanEnds: the trailing event is not dispatched.
ScanEndsUndispatched ==
  /\ reader = "scan"
  /\ broken' \in BOOLEAN
  /\ reader' = "finish" /\ pending' = None
  /\ ConsumerUnchanged /\ UNCHANGED <<open, errs, offered>>

\* The stream ends, cleanly or not; what has been read is dispatched.
ScanEnds ==
  /\ reader = "scan"
  /\ broken' \in BOOLEAN
  /\ Dispatch("finish", "offerLast")
  /\ ConsumerUnchanged /\ UNCHANGED <<open, errs, offered>>

Offering == reader \in {"offer", "offerLast"}
Offered == reader' = (IF reader = "offer" THEN "scan" ELSE "finish")

\* The other case of dispatch's select.
OfferCancelled ==
  /\ Offering /\ cancelled
  /\ Offered
  /\ pending' = None
  /\ ConsumerUnchanged /\ UNCHANGED <<open, errs, broken, offered>>

\* readEvents returns the scanner's error, unless the context has ended.
Finish ==
  /\ reader = "finish"
  /\ reader' = IF broken /\ ~cancelled THEN "report" ELSE "return"
  /\ ConsumerUnchanged /\ UNCHANGED <<reader_vars>>

\* Faulty variant of ErrsHaveRoom: the channel has no buffer.
ErrsUnbuffered == consumer = "errs" /\ errs < 1

\* The error channel has a buffer of one.
ErrsHaveRoom == errs < 1

ReportError ==
  /\ reader = "report" /\ ErrsHaveRoom
  /\ errs' = errs + 1
  /\ reader' = "return"
  /\ ConsumerUnchanged /\ UNCHANGED <<open, pending, broken, offered>>

\* Faulty variant of NextToClose: the deferred closes in the other order.
FramesFirst == IF "frames" \in open THEN "frames" ELSE "errs"

\* The deferred closes, last deferred first.
NextToClose == IF "errs" \in open THEN "errs" ELSE "frames"

CloseUnchanged ==
  ConsumerUnchanged /\ UNCHANGED <<errs, pending, broken, offered>>

\* Faulty variant of Close: the frame channel is never closed.
CloseErrsOnly ==
  /\ reader = "return" /\ reader' = "done"
  /\ open' = open \ {"errs"}
  /\ CloseUnchanged

Close ==
  /\ reader = "return"
  /\ open' = open \ {NextToClose}
  /\ reader' = IF open' = {} THEN "done" ELSE "return"
  /\ CloseUnchanged

---------------------------------------------------------------------------
(* Run and consumeStream *)

OpenStream ==
  /\ consumer = "top" /\ ~cancelled
  /\ consumer' = "receive" /\ got' = FALSE
  /\ reader' = "connect" /\ open' = {"frames", "errs"} /\ errs' = 0
  /\ pending' = None /\ broken' = FALSE
  /\ offered' = 0 /\ taken' = 0
  /\ UNCHANGED <<books, cancelled, run_vars, frame_vars>>

RunReturns ==
  /\ consumer = "top" /\ cancelled
  /\ consumer' = "stopped"
  /\ ReaderUnchanged /\ UNCHANGED <<run_vars, got, frame_vars>>

\* The reader's offer meets the consumer's receive.
TakeFrame ==
  /\ consumer = "receive" /\ Offering
  /\ Offered
  /\ frame' = pending /\ pending' = None /\ outcome' = None
  /\ taken' = taken + 1 /\ seeded' = books
  /\ consumer' = "books"
  /\ UNCHANGED <<books, cancelled, run_vars, got, sbMap, open, errs, broken, offered>>

FramesClosed ==
  /\ consumer = "receive" /\ "frames" \notin open
  /\ consumer' = "errs"
  /\ ReaderUnchanged /\ UNCHANGED <<run_vars, got, frame_vars>>

Smaller(a, b) == IF a < b THEN a ELSE b

\* Faulty variant of NextBackoff: no cap.
NextBackoffUncapped(b) == 2 * b

NextBackoff(b) == Smaller(2 * b, MaxBackoff)

\* Faulty variant of BackoffAfterFrames: no reset.
BackoffKept == backoff

BackoffAfterFrames == 1

\* Faulty variant of Warns: every failure from the threshold on.
WarnsFrom(n) == n >= Threshold

Warns(n) == n = Threshold

\* The stream is judged by whether a frame of it was processed.
Judge ==
  IF got
  THEN /\ failures' = 0 /\ backoff' = BackoffAfterFrames
       /\ warnings' = 0 /\ hadFrame' = TRUE
  ELSE /\ failures' = Smaller(failures + 1, FailureCap)
       /\ warnings' = IF Warns(failures') THEN warnings + 1 ELSE warnings
       /\ UNCHANGED <<backoff, hadFrame>>

\* consumeStream receives the error, or that there is none, and returns.
EndStream ==
  /\ consumer = "errs"
  /\ errs > 0 \/ "errs" \notin open
  /\ errs' = 0
  /\ IF cancelled
     THEN consumer' = "stopped" /\ UNCHANGED run_vars
     ELSE consumer' = "wait" /\ Judge
  /\ UNCHANGED <<books, cancelled, got, frame_vars, reader, open, pending, broken,
                 offered, taken>>

\* The jittered wait is over, or the context has ended it.
WaitEnds ==
  /\ consumer = "wait"
  /\ backoff' = NextBackoff(backoff)
  /\ consumer' = "top"
  /\ ReaderUnchanged /\ UNCHANGED <<failures, warnings, hadFrame, got, frame_vars>>

---------------------------------------------------------------------------
(* handleFrame *)

FrameEnds(how) == outcome' = how /\ consumer' = "receive"

FrameUnchanged ==
  ReaderUnchanged /\ UNCHANGED <<run_vars, frame, seeded>>

\* sportsbooks(ctx, false), before the first map.
LoadBooks ==
  /\ consumer = "books" /\ sbMap = None
  /\ sbMap' = books
  /\ FrameUnchanged /\ UNCHANGED <<consumer, got, outcome>>

\* Faulty variant of Normalize: a book the cached map lacks is unknown.
NormalizeCached ==
  /\ consumer = "books" /\ sbMap # None
  /\ IF frame = Unmapped THEN FrameEnds("unmapped")
     ELSE IF frame \in sbMap THEN consumer' = "upsert" /\ UNCHANGED outcome
     ELSE FrameEnds("unknown")
  /\ FrameUnchanged /\ UNCHANGED <<got, sbMap>>

\* Normalize on the cached map; a book it lacks asks for a new one.
Normalize ==
  /\ consumer = "books" /\ sbMap # None
  /\ IF frame = Unmapped THEN FrameEnds("unmapped")
     ELSE /\ consumer' = IF frame \in sbMap THEN "upsert" ELSE "refresh"
          /\ UNCHANGED outcome
  /\ FrameUnchanged /\ UNCHANGED <<got, sbMap>>

\* sportsbooks(ctx, true), and Normalize once more.
RefreshBooks ==
  /\ consumer = "refresh"
  /\ sbMap' = books
  /\ IF frame \in books THEN consumer' = "upsert" /\ UNCHANGED outcome
     ELSE FrameEnds("unknown")
  /\ FrameUnchanged /\ UNCHANGED got

UpsertGame ==
  /\ consumer = "upsert"
  /\ consumer' = "persist"
  /\ FrameUnchanged /\ UNCHANGED <<got, sbMap, outcome>>

Persist ==
  /\ consumer = "persist"
  /\ got' = TRUE
  /\ FrameEnds("stored")
  /\ FrameUnchanged /\ UNCHANGED sbMap

\* A call to the database fails, or is cut short by the context.
FrameFails ==
  /\ \/ consumer = "books" /\ sbMap = None
     \/ consumer \in {"refresh", "upsert", "persist"}
  /\ FrameEnds("failed")
  /\ FrameUnchanged /\ UNCHANGED <<got, sbMap>>

---------------------------------------------------------------------------
(* Around it *)

\* A sportsbook is added to the table.
AddBook(b) ==
  /\ b \notin books
  /\ books' = books \cup {b}
  /\ UNCHANGED <<cancelled, consumer, run_vars, got, frame_vars, reader, reader_vars,
                 taken>>

\* main: a signal, cancel().
Cancel ==
  /\ ~cancelled
  /\ cancelled' = TRUE
  /\ UNCHANGED <<books, consumer, run_vars, got, frame_vars, reader, reader_vars,
                 taken>>

\* The process is started again, whether or not it had come to rest.
Restart ==
  /\ cancelled /\ cancelled' = FALSE
  /\ consumer' = "top" /\ failures' = 0 /\ backoff' = 1
  /\ got' = FALSE /\ sbMap' = None /\ frame' = None /\ outcome' = None
  /\ reader' = "none" /\ open' = {} /\ errs' = 0 /\ pending' = None /\ broken' = FALSE
  /\ offered' = 0 /\ taken' = 0 /\ seeded' = {} /\ warnings' = 0
  /\ hadFrame' = FALSE
  /\ UNCHANGED books

ReaderStep ==
  OfferCancelled \/ Finish \/ ReportError \/ Close

ProviderStep ==
  \/ Connected \/ Refused \/ ScanBlank \/ ScanCancelled \/ ScanEnds
  \/ \E data \in Frames \cup {Malformed} : ScanData(data)

ConsumerStep ==
  \/ OpenStream \/ RunReturns \/ TakeFrame \/ FramesClosed \/ EndStream \/ WaitEnds
  \/ LoadBooks \/ Normalize \/ RefreshBooks \/ UpsertGame \/ Persist \/ FrameFails

Next ==
  \/ ReaderStep \/ ProviderStep \/ ConsumerStep
  \/ \E b \in Books : AddBook(b)
  \/ Cancel \/ Restart

Spec == Init /\ [][Next]_vars

\* Goroutines run, database calls return, waits end, and the end of the context
\* ends the request or the read of its body.  The provider owes nothing: the
\* stream's client has no timeout.
Fairness ==
  /\ WF_vars(ReaderStep) /\ WF_vars(ConsumerStep)
  /\ WF_vars(cancelled /\ (Refused \/ ScanEnds))

LiveSpec == Spec /\ Fairness

---------------------------------------------------------------------------
(* Properties *)

TypeOK ==
  /\ books \in SUBSET Books /\ cancelled \in BOOLEAN
  /\ consumer \in {"top", "receive", "errs", "wait", "stopped", "books", "refresh",
                   "upsert", "persist"}
  /\ failures \in 0..FailureCap /\ backoff \in 1..MaxBackoff /\ got \in BOOLEAN
  /\ sbMap \in (SUBSET Books) \cup {None} /\ frame \in Frames \cup {None}
  /\ outcome \in {None, "stored", "failed", "unknown", "unmapped"}
  /\ reader \in {"none", "connect", "scan", "offer", "offerLast", "finish", "report",
                 "return", "done"}
  /\ open \in SUBSET {"frames", "errs"} /\ errs \in 0..1
  /\ pending \in Frames \cup {Malformed, None} /\ broken \in BOOLEAN
  /\ offered \in 0..MaxFrames /\ taken \in 0..MaxFrames /\ seeded \in SUBSET Books
  /\ warnings \in Nat /\ hadFrame \in BOOLEAN

\* Every whole frame of a stream that ended by itself was taken by the consumer,
\* the last one without its blank line included (readEvents, dispatch).
NoFrameDropped == reader = "done" /\ ~cancelled => taken = offered

\* Run never waits, opens a stream or returns while the goroutine of the last
\* stream is still running (Stream's two closes, consumeStream's two receives).
NoReaderLeft == consumer \in {"top", "wait", "stopped"} => reader \in {"none", "done"}

\* An outage is warned of when it reaches the threshold, and only then (Run).
WarnsOncePerOutage == warnings = IF failures >= Threshold THEN 1 ELSE 0

\* The wait after the n-th stream in a row without a frame is the initial one
\* doubled n - 1 times, n times after a stream that had frames, up to the cap (Run).
BackoffFollowsOutage ==
  consumer = "wait" =>
    backoff = IF failures = 0 THEN 1
              ELSE Smaller(2^(IF hadFrame THEN failures ELSE failures - 1), MaxBackoff)

\* A frame of a sportsbook that was in the table when it arrived is never turned
\* away as unknown, however old the cached map (handleFrame, sportsbooks).
SeededBookAccepted == outcome = "unknown" => frame \notin seeded

\* Cancelled, Run returns and no goroutine of a stream is left behind.
StopsWhenCancelled ==
  cancelled ~> \/ ~cancelled
               \/ consumer = "stopped" /\ reader \in {"none", "done"}

\* Once a stream has ended, another one is opened, unless the process stops (Run).
Reconnects == reader = "return" ~> (reader = "connect" \/ cancelled)
===========================================================================
