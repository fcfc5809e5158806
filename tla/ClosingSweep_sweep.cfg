SPECIFICATION LiveSpec
CONSTANTS
  k1 = k1  g1 = g1  g2 = g2
  Keys = {k1}
  Games = {g1, g2}
  GameOf <- OneGame
  Scheduler = scheduler
  Others = {live}
  Starts = {2, 3}
  Horizon = 4
  Window = 9
  MaxMoves = 1
  MaxFaults = 2
  BadGames = {g2}
  Unknown = Unknown
INVARIANTS TypeOK ClosingMissesOnlyLate
PROPERTIES ClosingOnlyAdvances StartedGamesSwept
