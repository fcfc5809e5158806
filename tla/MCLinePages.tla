--------------------------- MODULE MCLinePages ---------------------------
(* Small instances of LinePages for TLC: lines of two sides, in turn. *)
EXTENDS LinePages, TLC

CONSTANTS home, away

Turns == [l \in Lines |-> IF l % 2 = 1 THEN home ELSE away]
==========================================================================
