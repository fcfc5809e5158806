--------------------------- MODULE MCWritePath ---------------------------
(* Small instances of WritePath for TLC. *)
EXTENDS WritePath, TLC

CONSTANTS k1, k2, k3, g1, g2

\* One line; or two lines of one game and one of another.
OneLine == k1 :> g1
TwoGames == k1 :> g1 @@ k2 :> g1 @@ k3 :> g2

\* The lines of the first game may change places, and so may the prices: the write
\* path only compares prices.  Used where nothing but safety is checked.
Interchangeable == Permutations({k1, k2}) \cup Permutations(Prices)

\* Nor does anything compare the prices of two lines, so the prices of each line may
\* change places by themselves: it is enough to begin with one price for all lines.
LevelInit == Init /\ \A k, l \in Keys : market[k] = market[l]
LevelSpec == LevelInit /\ [][Next]_vars
==========================================================================
