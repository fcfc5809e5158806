----------------------------- MODULE MCQuotes -----------------------------
(* Small instances of Quotes for TLC. *)
EXTENDS Quotes, TLC

CONSTANTS b1, b2, home, away

\* sportsbook first, then the selection
InOrder ==
  [k \in LineKeys |-> 100 * (IF k[1] = b1 THEN 1 ELSE 2)
                      + 10 * (IF k[2] = away THEN 1 ELSE 2) + k[3]]
===========================================================================
