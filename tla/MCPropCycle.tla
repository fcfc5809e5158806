---------------------------- MODULE MCPropCycle ----------------------------
(* Small instances of PropCycle for TLC. *)
EXTENDS PropCycle, TLC

CONSTANTS e1, e2, e3, pl, scorer, shots, onTarget

\* the second and third event start together
MCStart == e1 :> 2 @@ e2 :> 3 @@ e3 :> 3
MCRank == e1 :> 1 @@ e2 :> 2 @@ e3 :> 3

\* one event, far enough off for three cycles
LateStart == e1 :> 4
OneRank == e1 :> 1

\* shots and shots on target at the same point
SamePoint == shots :> 1 @@ onTarget :> 1
OnePoint == shots :> 1
===========================================================================
