-------------------------- MODULE MCClosingSweep --------------------------
(* Small instances of ClosingSweep for TLC: one line, in the first game. *)
EXTENDS ClosingSweep, TLC

CONSTANTS k1, g1, g2

OneGame == k1 :> g1
==========================================================================
