------------------------ MODULE LiveConsumer_proofs ------------------------
(***************************************************************************)
(* Theorems about LiveConsumer for any set of sportsbooks, any threshold,  *)
(* any cap on the backoff and any number of frames on a connection.        *)
(***************************************************************************)
EXTENDS LiveConsumer, FiniteSetTheorems, TLAPS

\* Whole frames read and not yet handed over: the one being dispatched.
InHand == IF pending \in Frames THEN 1 ELSE 0

\* Every frame sent on the connection was taken or is in hand, unless the end of
\* the context let the reader drop it; what is offered is a frame; and a reader
\* that has read to the end has nothing in hand.
FramesAccounted ==
  /\ taken + InHand <= offered
  /\ ~ cancelled => taken + InHand = offered
  /\ reader \in {"offer", "offerLast"} => pending \in Frames
  /\ reader \in {"none", "connect"} => pending = None
  /\ ~ cancelled /\ reader \in {"finish", "report", "return", "done"} => pending = None

TypeInv == TypeOK /\ FramesAccounted

\* The channels say where the reader is, the last one closed is the frames', and
\* the consumer leaves a stream only behind both.
ReaderInv ==
  /\ reader \in {"connect", "scan", "offer", "offerLast", "finish", "report"}
       => open = {"frames", "errs"}
  /\ reader = "return" => "frames" \in open
  /\ reader \in {"none", "done"} => open = {}
  /\ consumer = "errs" => reader = "done"
  /\ reader = "none" => consumer \in {"top", "stopped"}
  /\ NoReaderLeft

\* The backoff is a power of two or the cap: the exponent grows by one when a wait
\* ends, and again shows the outage when the next stream is judged.
Doublings ==
  IF consumer = "wait"
  THEN IF hadFrame THEN failures ELSE failures - 1
  ELSE IF hadFrame THEN failures + 1 ELSE failures

BackoffInv ==
  /\ backoff = Smaller(2^Doublings, MaxBackoff)
  /\ consumer = "wait" /\ failures = 0 => hadFrame

BooksInv == seeded \subseteq books /\ SeededBookAccepted
---------------------------------------------------------------------------
(* Types, and the frames of a stream *)

\* The constants, without the bound on the count of failures.
LEMMA Constants ==
  /\ {Unmapped, Malformed, None} \cap Books = {}
  /\ Unmapped # Malformed /\ Unmapped # None /\ Malformed # None
  /\ None \notin {"stored", "failed", "unknown", "unmapped"}
  /\ Threshold \in Nat /\ Threshold >= 1 /\ MaxBackoff \in Nat /\ MaxBackoff >= 1
  /\ MaxFrames \in Nat /\ FailureCap \in Nat /\ FailureCap > Threshold
  /\ 0 \in 0..MaxFrames /\ 0 \in 0..FailureCap /\ 1 \in 1..MaxBackoff /\ 0 \in 0..1
BY LiveAssumption

LEMMA TypeInit == Init => TypeInv
<1> SUFFICES ASSUME Init PROVE TypeInv
  OBVIOUS
<1>1. TypeOK
  BY Constants DEF Init, TypeOK, Frames
<1>2. FramesAccounted
  BY Constants DEF Init, FramesAccounted, InHand, Frames
<1> QED
  BY <1>1, <1>2 DEF TypeInv

LEMMA TypeStep == TypeInv /\ [Next]_vars => TypeInv'
<1> SUFFICES ASSUME TypeInv, [Next]_vars PROVE TypeInv'
  OBVIOUS
<1> USE Constants DEF TypeInv, TypeOK, FramesAccounted, InHand, Frames,
            run_vars, frame_vars, reader_vars
<1>1. CASE Connected
  BY <1>1 DEF Connected, ConsumerUnchanged
<1>2. CASE Refused
  BY <1>2 DEF Refused, ConsumerUnchanged
<1>3. CASE ScanBlank
  BY <1>3 DEF ScanBlank, Dispatch, ConsumerUnchanged
<1>4. CASE ScanCancelled
  BY <1>4 DEF ScanCancelled, ConsumerUnchanged
<1>5. CASE ScanEnds
  BY <1>5 DEF ScanEnds, Dispatch, ConsumerUnchanged
<1>6. ASSUME NEW data \in Frames \cup {Malformed}, ScanData(data) PROVE TypeInv'
  BY <1>6 DEF ScanData, ConsumerUnchanged
<1>7. CASE OfferCancelled
  BY <1>7 DEF OfferCancelled, Offering, Offered, ConsumerUnchanged
<1>8. CASE Finish
  BY <1>8 DEF Finish, ConsumerUnchanged
<1>9. CASE ReportError
  BY <1>9 DEF ReportError, ErrsHaveRoom, ConsumerUnchanged
<1>10. CASE Close
  BY <1>10 DEF Close, NextToClose, CloseUnchanged, ConsumerUnchanged
<1>11. CASE OpenStream
  <2>1. TypeOK'
    BY <1>11 DEF OpenStream
  <2>2. FramesAccounted'
    BY <1>11 DEF OpenStream
  <2> QED
    BY <2>1, <2>2
<1>12. CASE RunReturns
  BY <1>12 DEF RunReturns, ReaderUnchanged
<1>13. CASE TakeFrame
  BY <1>13 DEF TakeFrame, Offering, Offered
<1>14. CASE FramesClosed
  BY <1>14 DEF FramesClosed, ReaderUnchanged
<1>15. CASE EndStream
  <2>1. failures' \in 0..FailureCap /\ backoff' \in 1..MaxBackoff /\ warnings' \in Nat
    BY <1>15 DEF EndStream, Judge, BackoffAfterFrames, Warns, Smaller
  <2>2. hadFrame' \in BOOLEAN
    BY <1>15 DEF EndStream, Judge, BackoffAfterFrames, Warns, Smaller
  <2>3. TypeOK'
    BY <1>15, <2>1, <2>2 DEF EndStream
  <2>4. FramesAccounted'
    BY <1>15 DEF EndStream
  <2> QED
    BY <2>3, <2>4
<1>16. CASE WaitEnds
  BY <1>16 DEF WaitEnds, NextBackoff, Smaller, ReaderUnchanged
<1>17. CASE LoadBooks
  BY <1>17 DEF LoadBooks, FrameUnchanged, ReaderUnchanged
<1>18. CASE Normalize
  BY <1>18 DEF Normalize, FrameEnds, FrameUnchanged, ReaderUnchanged
<1>19. CASE RefreshBooks
  BY <1>19 DEF RefreshBooks, FrameEnds, FrameUnchanged, ReaderUnchanged
<1>20. CASE UpsertGame
  BY <1>20 DEF UpsertGame, FrameUnchanged, ReaderUnchanged
<1>21. CASE Persist
  BY <1>21 DEF Persist, FrameEnds, FrameUnchanged, ReaderUnchanged
<1>22. CASE FrameFails
  BY <1>22 DEF FrameFails, FrameEnds, FrameUnchanged, ReaderUnchanged
<1>23. ASSUME NEW b \in Books, AddBook(b) PROVE TypeInv'
  BY <1>23 DEF AddBook
<1>24. CASE Cancel
  BY <1>24 DEF Cancel
<1>25. CASE Restart
  <2>1. TypeOK'
    BY <1>25 DEF Restart
  <2>2. FramesAccounted'
    BY <1>25 DEF Restart
  <2> QED
    BY <2>1, <2>2
<1>26. CASE UNCHANGED vars
  BY <1>26 DEF vars
<1> QED
  BY <1>1, <1>2, <1>3, <1>4, <1>5, <1>6, <1>7, <1>8, <1>9, <1>10, <1>11, <1>12,
     <1>13, <1>14, <1>15, <1>16, <1>17, <1>18, <1>19, <1>20, <1>21, <1>22,
     <1>23, <1>24, <1>25, <1>26 DEF Next, ReaderStep, ProviderStep, ConsumerStep

\* Every variable keeps its type: among others, the backoff stays between one unit
\* and the cap, and the error channel never holds more than its buffer.
THEOREM TypeCorrect == Spec => []TypeOK
<1>1. Spec => []TypeInv
  BY TypeInit, TypeStep, PTL DEF Spec
<1> QED
  BY <1>1, PTL DEF TypeInv

\* The consumer has taken every whole frame of a stream that ended by itself, the
\* one with no blank line after it included.
THEOREM NoFrameDroppedCorrect == Spec => []NoFrameDropped
<1>1. Spec => []TypeInv
  BY TypeInit, TypeStep, PTL DEF Spec
<1>2. TypeInv => NoFrameDropped
  BY LiveAssumption DEF TypeInv, TypeOK, FramesAccounted, InHand, NoFrameDropped, Frames
<1> QED
  BY <1>1, <1>2, PTL

---------------------------------------------------------------------------
(* The reader goroutine and the two channels *)

LEMMA ReaderInit == Init => ReaderInv
BY DEF Init, ReaderInv, NoReaderLeft

LEMMA ReaderInvStep == TypeInv /\ ReaderInv /\ [Next]_vars => ReaderInv'
<1> SUFFICES ASSUME TypeInv, ReaderInv, [Next]_vars PROVE ReaderInv'
  OBVIOUS
<1> USE DEF TypeInv, TypeOK, ReaderInv, NoReaderLeft, run_vars, frame_vars, reader_vars
<1>1. CASE Connected
  BY <1>1 DEF Connected, ConsumerUnchanged
<1>2. CASE Refused
  BY <1>2 DEF Refused, ConsumerUnchanged
<1>3. CASE ScanBlank
  BY <1>3 DEF ScanBlank, Dispatch, ConsumerUnchanged
<1>4. CASE ScanCancelled
  BY <1>4 DEF ScanCancelled, ConsumerUnchanged
<1>5. CASE ScanEnds
  BY <1>5 DEF ScanEnds, Dispatch, ConsumerUnchanged
<1>6. ASSUME NEW data \in Frames \cup {Malformed}, ScanData(data) PROVE ReaderInv'
  BY <1>6 DEF ScanData, ConsumerUnchanged
<1>7. CASE OfferCancelled
  BY <1>7 DEF OfferCancelled, Offering, Offered, ConsumerUnchanged
<1>8. CASE Finish
  BY <1>8 DEF Finish, ConsumerUnchanged
<1>9. CASE ReportError
  BY <1>9 DEF ReportError, ErrsHaveRoom, ConsumerUnchanged
<1>10. CASE Close
  BY <1>10 DEF Close, NextToClose, CloseUnchanged, ConsumerUnchanged
<1>11. CASE OpenStream
  BY <1>11 DEF OpenStream
<1>12. CASE RunReturns
  BY <1>12 DEF RunReturns, ReaderUnchanged
<1>13. CASE TakeFrame
  BY <1>13 DEF TakeFrame, Offering, Offered
<1>14. CASE FramesClosed
  BY <1>14 DEF FramesClosed, ReaderUnchanged
<1>15. CASE EndStream
  BY <1>15 DEF EndStream, Judge, BackoffAfterFrames, Warns, Smaller
<1>16. CASE WaitEnds
  BY <1>16 DEF WaitEnds, NextBackoff, Smaller, ReaderUnchanged
<1>17. CASE LoadBooks
  BY <1>17 DEF LoadBooks, FrameUnchanged, ReaderUnchanged
<1>18. CASE Normalize
  BY <1>18 DEF Normalize, FrameEnds, FrameUnchanged, ReaderUnchanged
<1>19. CASE RefreshBooks
  BY <1>19 DEF RefreshBooks, FrameEnds, FrameUnchanged, ReaderUnchanged
<1>20. CASE UpsertGame
  BY <1>20 DEF UpsertGame, FrameUnchanged, ReaderUnchanged
<1>21. CASE Persist
  BY <1>21 DEF Persist, FrameEnds, FrameUnchanged, ReaderUnchanged
<1>22. CASE FrameFails
  BY <1>22 DEF FrameFails, FrameEnds, FrameUnchanged, ReaderUnchanged
<1>23. ASSUME NEW b \in Books, AddBook(b) PROVE ReaderInv'
  BY <1>23 DEF AddBook
<1>24. CASE Cancel
  BY <1>24 DEF Cancel
<1>25. CASE Restart
  BY <1>25 DEF Restart
<1>26. CASE UNCHANGED vars
  BY <1>26 DEF vars
<1> QED
  BY <1>1, <1>2, <1>3, <1>4, <1>5, <1>6, <1>7, <1>8, <1>9, <1>10, <1>11, <1>12,
     <1>13, <1>14, <1>15, <1>16, <1>17, <1>18, <1>19, <1>20, <1>21, <1>22,
     <1>23, <1>24, <1>25, <1>26 DEF Next, ReaderStep, ProviderStep, ConsumerStep

\* Run never waits, opens a stream or returns while the goroutine of the last one
\* is still running.
THEOREM NoReaderLeftCorrect == Spec => []NoReaderLeft
<1>1. Init => TypeInv /\ ReaderInv
  BY TypeInit, ReaderInit
<1>2. TypeInv /\ ReaderInv /\ [Next]_vars => (TypeInv /\ ReaderInv)'
  BY TypeStep, ReaderInvStep
<1> QED
  BY <1>1, <1>2, PTL DEF Spec, ReaderInv

---------------------------------------------------------------------------
(* The sportsbooks *)

LEMMA BooksInit == Init => BooksInv
BY LiveAssumption DEF Init, BooksInv, SeededBookAccepted

LEMMA BooksStep == TypeInv /\ BooksInv /\ [Next]_vars => BooksInv'
<1> SUFFICES ASSUME TypeInv, BooksInv, [Next]_vars PROVE BooksInv'
  OBVIOUS
<1> USE Constants DEF TypeInv, TypeOK, BooksInv, SeededBookAccepted, run_vars,
            frame_vars, reader_vars
<1>1. CASE Connected
  BY <1>1 DEF Connected, ConsumerUnchanged
<1>2. CASE Refused
  BY <1>2 DEF Refused, ConsumerUnchanged
<1>3. CASE ScanBlank
  BY <1>3 DEF ScanBlank, Dispatch, ConsumerUnchanged
<1>4. CASE ScanCancelled
  BY <1>4 DEF ScanCancelled, ConsumerUnchanged
<1>5. CASE ScanEnds
  BY <1>5 DEF ScanEnds, Dispatch, ConsumerUnchanged
<1>6. ASSUME NEW data \in Frames \cup {Malformed}, ScanData(data) PROVE BooksInv'
  BY <1>6 DEF ScanData, ConsumerUnchanged
<1>7. CASE OfferCancelled
  BY <1>7 DEF OfferCancelled, Offering, Offered, ConsumerUnchanged
<1>8. CASE Finish
  BY <1>8 DEF Finish, ConsumerUnchanged
<1>9. CASE ReportError
  BY <1>9 DEF ReportError, ErrsHaveRoom, ConsumerUnchanged
<1>10. CASE Close
  BY <1>10 DEF Close, NextToClose, CloseUnchanged, ConsumerUnchanged
<1>11. CASE OpenStream
  BY <1>11 DEF OpenStream
<1>12. CASE RunReturns
  BY <1>12 DEF RunReturns, ReaderUnchanged
<1>13. CASE TakeFrame
  BY <1>13 DEF TakeFrame, Offering, Offered
<1>14. CASE FramesClosed
  BY <1>14 DEF FramesClosed, ReaderUnchanged
<1>15. CASE EndStream
  BY <1>15 DEF EndStream, Judge, BackoffAfterFrames, Warns, Smaller
<1>16. CASE WaitEnds
  BY <1>16 DEF WaitEnds, NextBackoff, Smaller, ReaderUnchanged
<1>17. CASE LoadBooks
  BY <1>17 DEF LoadBooks, FrameUnchanged, ReaderUnchanged
<1>18. CASE Normalize
  BY <1>18 DEF Normalize, FrameEnds, FrameUnchanged, ReaderUnchanged
<1>19. CASE RefreshBooks
  BY <1>19 DEF RefreshBooks, FrameEnds, FrameUnchanged, ReaderUnchanged
<1>20. CASE UpsertGame
  BY <1>20 DEF UpsertGame, FrameUnchanged, ReaderUnchanged
<1>21. CASE Persist
  BY <1>21 DEF Persist, FrameEnds, FrameUnchanged, ReaderUnchanged
<1>22. CASE FrameFails
  BY <1>22 DEF FrameFails, FrameEnds, FrameUnchanged, ReaderUnchanged
<1>23. ASSUME NEW b \in Books, AddBook(b) PROVE BooksInv'
  BY <1>23 DEF AddBook
<1>24. CASE Cancel
  BY <1>24 DEF Cancel
<1>25. CASE Restart
  BY <1>25 DEF Restart
<1>26. CASE UNCHANGED vars
  BY <1>26 DEF vars
<1> QED
  BY <1>1, <1>2, <1>3, <1>4, <1>5, <1>6, <1>7, <1>8, <1>9, <1>10, <1>11, <1>12,
     <1>13, <1>14, <1>15, <1>16, <1>17, <1>18, <1>19, <1>20, <1>21, <1>22,
     <1>23, <1>24, <1>25, <1>26 DEF Next, ReaderStep, ProviderStep, ConsumerStep

\* A frame of a sportsbook that was in the table when it arrived is never turned
\* away as unknown, however old the cached map.
THEOREM SeededBookAcceptedCorrect == Spec => []SeededBookAccepted
<1>1. Init => TypeInv /\ BooksInv
  BY TypeInit, BooksInit
<1>2. TypeInv /\ BooksInv /\ [Next]_vars => (TypeInv /\ BooksInv)'
  BY TypeStep, BooksStep
<1> QED
  BY <1>1, <1>2, PTL DEF Spec, BooksInv

---------------------------------------------------------------------------
(* Outages *)

\* Only a judgement, the end of a wait and a restart change what Run knows of an
\* outage, or where it waits.
LEMMA OutageSteps ==
  ASSUME [Next]_vars
  PROVE  \/ EndStream \/ WaitEnds \/ Restart
         \/ UNCHANGED run_vars /\ (consumer' = "wait" <=> consumer = "wait")
BY DEF Next, ReaderStep, ProviderStep, ConsumerStep, Connected, Refused, ScanBlank,
   ScanCancelled, ScanEnds, ScanData, OfferCancelled, Finish, ReportError, Close,
   CloseUnchanged, ConsumerUnchanged, ReaderUnchanged, FrameUnchanged, OpenStream,
   RunReturns, TakeFrame, FramesClosed, LoadBooks, Normalize, RefreshBooks,
   UpsertGame, Persist, FrameFails, FrameEnds, AddBook, Cancel, run_vars, vars

\* An outage is warned of when it reaches the threshold, and only then.
THEOREM WarnsOncePerOutageCorrect == Spec => []WarnsOncePerOutage
<1>1. Init => WarnsOncePerOutage
  BY LiveAssumption DEF Init, WarnsOncePerOutage
<1>2. TypeInv /\ WarnsOncePerOutage /\ [Next]_vars => WarnsOncePerOutage'
  <2> SUFFICES ASSUME TypeInv, WarnsOncePerOutage, [Next]_vars
               PROVE  WarnsOncePerOutage'
    OBVIOUS
  <2> USE LiveAssumption DEF TypeInv, TypeOK, WarnsOncePerOutage
  <2>1. CASE EndStream
    BY <2>1 DEF EndStream, Judge, Warns, Smaller, run_vars
  <2>2. CASE Restart
    BY <2>2 DEF Restart
  <2>3. CASE WaitEnds
    BY <2>3 DEF WaitEnds
  <2>4. CASE UNCHANGED run_vars
    BY <2>4 DEF run_vars
  <2> QED
    BY <2>1, <2>2, <2>3, <2>4, OutageSteps
<1> QED
  BY <1>1, <1>2, TypeInit, TypeStep, PTL DEF Spec
\* A power of two is the number of subsets of an interval.
LEMMA PowerIsNat == ASSUME NEW n \in Nat PROVE 2^n \in Nat
<1>1. IsFiniteSet(1..n) /\ Cardinality(1..n) = n
  BY FS_Interval
<1> QED
  BY <1>1, FS_SUBSET, FS_CardinalityType

\* One more element doubles the number of subsets: those without it, and those with.
LEMMA PowerDoubles == ASSUME NEW n \in Nat PROVE 2^(n + 1) = 2 * 2^n
<1> DEFINE S == 1..n
           new == n + 1
           With == {x \cup {new} : x \in SUBSET S}
<1>1. IsFiniteSet(S) /\ Cardinality(S) = n /\ IsFiniteSet(1..new) /\ Cardinality(1..new) = new
  BY FS_Interval
<1>2. IsFiniteSet(SUBSET S) /\ Cardinality(SUBSET S) = 2^n
  BY <1>1, FS_SUBSET
<1>3. Cardinality(SUBSET (1..new)) = 2^new
  <2> HIDE DEF new
  <2> QED
    BY <1>1, FS_SUBSET
<1>4. IsFiniteSet(With) /\ Cardinality(With) = 2^n
  <2> DEFINE f == [x \in SUBSET S |-> x \cup {new}]
  <2>1. f \in Bijection(SUBSET S, With)
    <3>1. f \in [SUBSET S -> With]
      OBVIOUS
    <3>2. \A x, y \in SUBSET S : f[x] = f[y] => x = y
      OBVIOUS
    <3>3. \A z \in With : \E x \in SUBSET S : f[x] = z
      OBVIOUS
    <3> HIDE DEF f, With
    <3> QED
      BY <3>1, <3>2, <3>3 DEF Bijection, Injection, Surjection, IsInjective
  <2> HIDE DEF f, With, S
  <2> QED
    BY <2>1, <1>2, FS_Bijection DEF ExistsBijection
<1>5. SUBSET (1..new) = (SUBSET S) \cup With
  <2>1. 1..new = S \cup {new}
    OBVIOUS
  <2>2. ASSUME NEW y \in SUBSET (S \cup {new}), y \notin SUBSET S PROVE y \in With
    <3>1. y \ {new} \in SUBSET S /\ y = (y \ {new}) \cup {new}
      BY <2>2
    <3> QED
      BY <3>1
  <2> HIDE DEF S, new
  <2> QED
    BY <2>1, <2>2
<1>6. (SUBSET S) \cap With = {}
  OBVIOUS
<1>7. Cardinality((SUBSET S) \cup With) = 2^n + 2^n
  <2>1. Cardinality({}) = 0
    BY FS_EmptySet
  <2> DEFINE T == SUBSET S
  <2>2. IsFiniteSet(T) /\ IsFiniteSet(With) /\ Cardinality(T) = 2^n
        /\ Cardinality(With) = 2^n /\ T \cap With = {}
    BY <1>2, <1>4, <1>6
  <2> HIDE DEF T, S, With
  <2>3. Cardinality(T \cup With) = Cardinality(T) + Cardinality(With) - Cardinality({})
    BY <2>2, FS_Union
  <2>4. 2^n \in Nat
    BY PowerIsNat
  <2>5. Cardinality(T \cup With) = 2^n + 2^n
    BY <2>1, <2>2, <2>3, <2>4
  <2> QED
    BY <2>5 DEF T
<1>8. 2^n \in Nat
  BY PowerIsNat
<1>9. 2^(n + 1) = 2^n + 2^n
  BY <1>3, <1>5, <1>7
<1> QED
  BY <1>8, <1>9

\* Capping a doubled backoff again is doubling what is capped.
LEMMA CappedDoubling ==
  ASSUME NEW n \in Nat, NEW cap \in Nat
  PROVE  Smaller(2 * Smaller(2^n, cap), cap) = Smaller(2^(n + 1), cap)
<1>1. 2^n \in Nat /\ 2^(n + 1) = 2 * 2^n
  BY PowerIsNat, PowerDoubles
<1> QED
  BY <1>1 DEF Smaller

\* From the count at which failures are no longer told apart, the backoff is at
\* its cap.
LEMMA CapReached ==
  ASSUME NEW n \in Nat, n \in {FailureCap - 1, FailureCap, FailureCap + 1}
  PROVE  Smaller(2^n, MaxBackoff) = MaxBackoff
<1> DEFINE m == FailureCap - 1
<1>1. m \in Nat /\ 2^m >= MaxBackoff /\ MaxBackoff \in Nat
  BY LiveAssumption
<1>2. 2^m \in Nat /\ 2^(m + 1) = 2 * 2^m /\ 2^(m + 1 + 1) = 2 * 2^(m + 1)
  BY <1>1, PowerIsNat, PowerDoubles
<1>3. n \in {m, m + 1, m + 1 + 1}
  BY Constants
<1> HIDE DEF m
<1>4. 2^n >= MaxBackoff /\ 2^n \in Nat
  BY <1>1, <1>2, <1>3
<1> QED
  BY <1>1, <1>4 DEF Smaller

LEMMA BackoffInit == Init => BackoffInv
<1> SUFFICES ASSUME Init PROVE BackoffInv
  OBVIOUS
<1>1. Doublings = 0 /\ consumer # "wait" /\ backoff = 1
  BY DEF Init, Doublings
<1>2. Smaller(2^0, MaxBackoff) = 1
  BY Constants DEF Smaller
<1> QED
  BY <1>1, <1>2 DEF BackoffInv

LEMMA BackoffStep == TypeInv /\ ReaderInv /\ BackoffInv /\ [Next]_vars => BackoffInv'
<1> SUFFICES ASSUME TypeInv, ReaderInv, BackoffInv, [Next]_vars PROVE BackoffInv'
  OBVIOUS
<1>1. failures \in 0..FailureCap /\ hadFrame \in BOOLEAN
  BY DEF TypeInv, TypeOK
<1>2. CASE EndStream /\ consumer' = "stopped"
  <2>1. consumer = "errs" /\ UNCHANGED run_vars
    BY <1>2 DEF EndStream
  <2> QED
    BY <1>2, <2>1 DEF BackoffInv, Doublings, run_vars
<1>3. CASE EndStream /\ consumer' # "stopped"
  <2>1. consumer = "errs" /\ consumer' = "wait" /\ Judge
    BY <1>3 DEF EndStream
  <2>2. CASE got
    <3>1. failures' = 0 /\ hadFrame' = TRUE /\ backoff' = 1
      BY <2>1, <2>2 DEF Judge, BackoffAfterFrames
    <3>2. Doublings' = 0
      BY <2>1, <3>1 DEF Doublings
    <3>3. Smaller(2^0, MaxBackoff) = 1
      BY Constants DEF Smaller
    <3> QED
      BY <3>1, <3>2, <3>3 DEF BackoffInv
  <2>3. CASE ~ got
    <3>1. failures' = Smaller(failures + 1, FailureCap) /\ UNCHANGED <<backoff, hadFrame>>
      BY <2>1, <2>3 DEF Judge
    <3>2. failures' # 0
      BY <1>1, <3>1, Constants DEF Smaller
    <3>3. CASE failures < FailureCap
      <4>1. failures' = failures + 1
        BY <1>1, <3>1, <3>3, Constants DEF Smaller
      <4>2. Doublings' = Doublings
        BY <1>1, <2>1, <3>1, <4>1 DEF Doublings
      <4> QED
        BY <3>1, <3>2, <4>2 DEF BackoffInv
    <3>4. CASE failures = FailureCap
      <4>1. failures' = FailureCap
        BY <3>1, <3>4, Constants DEF Smaller
      <4>2. /\ Doublings \in Nat /\ Doublings \in {FailureCap, FailureCap + 1}
            /\ Doublings' \in Nat /\ Doublings' \in {FailureCap - 1, FailureCap}
        BY <1>1, <2>1, <3>1, <3>4, <4>1, Constants DEF Doublings
      <4>3. Smaller(2^Doublings, MaxBackoff) = Smaller(2^(Doublings'), MaxBackoff)
        BY <4>2, CapReached
      <4> QED
        BY <3>1, <3>2, <4>3 DEF BackoffInv
    <3> QED
      BY <1>1, <3>3, <3>4, Constants
  <2> QED
    BY <2>2, <2>3
<1>4. CASE WaitEnds
  <2>1. /\ consumer = "wait" /\ consumer' = "top" /\ UNCHANGED <<failures, hadFrame>>
        /\ backoff' = Smaller(2 * backoff, MaxBackoff)
    BY <1>4 DEF WaitEnds, NextBackoff
  <2>2. Doublings \in Nat /\ Doublings' = Doublings + 1
    BY <1>1, <2>1 DEF BackoffInv, Doublings
  <2>3. backoff' = Smaller(2^(Doublings'), MaxBackoff)
    BY <2>1, <2>2, CappedDoubling, Constants DEF BackoffInv
  <2> QED
    BY <2>1, <2>3 DEF BackoffInv
<1>5. CASE Restart
  <2>1. Doublings' = 0 /\ consumer' # "wait" /\ backoff' = 1
    BY <1>5 DEF Restart, Doublings
  <2>2. Smaller(2^0, MaxBackoff) = 1
    BY Constants DEF Smaller
  <2> QED
    BY <2>1, <2>2 DEF BackoffInv
<1>6. CASE UNCHANGED run_vars /\ (consumer' = "wait" <=> consumer = "wait")
  BY <1>6 DEF BackoffInv, Doublings, run_vars
<1> QED
  BY <1>2, <1>3, <1>4, <1>5, <1>6, OutageSteps

\* The wait follows the outage: doubled from the initial one with each stream in a
\* row that had no frame, up to the cap, and the initial one again after frames.
THEOREM BackoffFollowsOutageCorrect == Spec => []BackoffFollowsOutage
<1>1. Init => TypeInv /\ ReaderInv /\ BackoffInv
  BY TypeInit, ReaderInit, BackoffInit
<1>2. TypeInv /\ ReaderInv /\ BackoffInv /\ [Next]_vars
        => (TypeInv /\ ReaderInv /\ BackoffInv)'
  BY TypeStep, ReaderInvStep, BackoffStep
<1>3. TypeInv /\ BackoffInv => BackoffFollowsOutage
  <2> SUFFICES ASSUME TypeInv, BackoffInv, consumer = "wait"
               PROVE  backoff = IF failures = 0 THEN 1
                                ELSE Smaller(2^(IF hadFrame THEN failures ELSE failures - 1),
                                             MaxBackoff)
    BY DEF BackoffFollowsOutage
  <2>1. CASE failures = 0
    <3>1. Doublings = 0
      BY <2>1 DEF BackoffInv, Doublings
    <3>2. Smaller(2^0, MaxBackoff) = 1
      BY Constants DEF Smaller
    <3> QED
      BY <2>1, <3>1, <3>2 DEF BackoffInv
  <2>2. CASE failures # 0
    BY <2>2 DEF BackoffInv, Doublings
  <2> QED
    BY <2>1, <2>2
<1> QED
  BY <1>1, <1>2, <1>3, PTL DEF Spec
=============================================================================
