----------------------------- MODULE MCService -----------------------------
(* A small instance of Service for TLC. *)
EXTENDS Service

CONSTANTS nba, nfl, t

TwoSports == <<nba, nfl>>
OneSport == <<nba>>
===========================================================================
