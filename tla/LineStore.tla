---------------------------- MODULE LineStore ----------------------------
(***************************************************************************)
(* The lines.line_snapshots table and the pure functions the service       *)
(* applies to it.  A row is [key, at, val]:                                *)
(*   key  the line key (game, sportsbook, market, selection),              *)
(*   at   captured_at, a number (only the order of two instants matters),  *)
(*   val  the value-bearing fields that dedup compares, as one value.      *)
(* A table is a set of rows; no operator here is recursive, so the modules *)
(* built on it can be reasoned about in TLAPS.                             *)
(***************************************************************************)
EXTENDS Naturals

\* Two rows fall in one slot of the unique index uq_line_snapshots_composite.
SameSlot(r, q) == r.key = q.key /\ r.at = q.at

\* No slot holds two rows.
SlotsUnique(rows) == \A r, q \in rows : SameSlot(r, q) => r = q

\* SELECT DISTINCT ON (line key) ... ORDER BY line key, captured_at DESC.
Current(rows) ==
  {r \in rows : \A q \in rows : q.key = r.key => q.at <= r.at}

\* The snapshots whose values differ from the latest row of their key, and
\* those whose key has none.
FilterChanged(latest, snapshots) ==
  {s \in snapshots : ~ \E prev \in latest : prev.key = s.key /\ prev.val = s.val}

\* Faulty variant of InsertOutcomes: a batch cut short counts as stored.
InsertSome(table, batch) ==
  {new \in SUBSET batch :
      SlotsUnique(new) /\ \A r \in new : \A q \in table : ~ SameSlot(r, q)}

\* What INSERT ... ON CONFLICT (slot) DO NOTHING may add for a batch: every
\* slot the batch names is filled, none that was taken is touched, and of two
\* snapshots in one slot one is kept (the first of the batch: the order inside
\* a batch is abstracted).
InsertOutcomes(table, batch) ==
  {new \in SUBSET batch :
      /\ SlotsUnique(new)
      /\ \A r \in new : \A q \in table : ~ SameSlot(r, q)
      /\ \A r \in batch : \E q \in table \cup new : SameSlot(r, q)}

\* The rows of the latest snapshot per key captured no later than an instant.
CurrentAsOf(rows, instant) == Current({r \in rows : r.at <= instant})
==========================================================================
