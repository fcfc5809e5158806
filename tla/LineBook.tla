----------------------------- MODULE LineBook -----------------------------
(***************************************************************************)
(* What the write path promises the rest of the system, whoever polls or   *)
(* streams and whatever fails: lines are recorded one batch at a time, a   *)
(* record stays and is a change of its line, and a batch is announced      *)
(* before the next one is recorded, or never.  Nothing of how it is done   *)
(* is here: no mutex, no dedup read, no cache, no goroutines.              *)
(***************************************************************************)
EXTENDS LineStore

CONSTANTS Games, GameOf

VARIABLES
  book,     \* every line ever recorded
  owed,     \* the games the batch just recorded is to announce
  told,     \* the games the last announcement named
  silent    \* games with a record no announcement has named since

book_vars == <<book, owed, told, silent>>

GamesOfRows(rows) == {GameOf[r.key] : r \in rows}

Init == book = {} /\ owed = {} /\ told = {} /\ silent = {}

\* The records a step adds: each in a slot of its own, none the value its line had.
IsNews(new) ==
  /\ SlotsUnique(book \cup new)
  /\ \A r \in new : \A q \in Current(book) : q.key = r.key => q.val # r.val

\* A batch is recorded.  It may turn out to add nothing (a frame replayed), but it
\* is announced all the same.
Record ==
  /\ owed = {}
  /\ book \subseteq book' /\ IsNews(book' \ book)
  /\ owed' \in SUBSET Games /\ GamesOfRows(book' \ book) \subseteq owed'
  /\ silent' = silent \cup GamesOfRows(book' \ book)
  /\ UNCHANGED told

\* A batch is recorded, and whoever recorded it is told that it was not.
RecordUnknowingly ==
  /\ owed = {} /\ owed' = {}
  /\ book \subseteq book' /\ IsNews(book' \ book)
  /\ silent' = silent \cup GamesOfRows(book' \ book)
  /\ UNCHANGED told

\* Consumers are told of every game of the batch.
Announce ==
  /\ owed # {} /\ owed' = {}
  /\ told' = owed
  /\ silent' = silent \ owed
  /\ UNCHANGED book

\* The announcement is lost; nothing makes up for it.
Forget ==
  /\ owed # {} /\ owed' = {}
  /\ UNCHANGED <<book, told, silent>>

Next == Record \/ RecordUnknowingly \/ Announce \/ Forget

Spec == Init /\ [][Next]_book_vars
==========================================================================
