SPECIFICATION LiveSpec
CONSTANTS
  k1 = k1  g1 = g1  g2 = g2
  Keys = {k1}
  Games = {g1}
  GameOf <- OneGame
  Scheduler = scheduler
  Others = {}
  Starts = {2, 6}
  Horizon = 8
  Window = 9
  MaxMoves = 1
  MaxFaults = 0
  BadGames = {}
  Unknown = Unknown
PROPERTY PostponedSelfCorrects
