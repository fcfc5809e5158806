SPECIFICATION LevelSpec
CONSTANTS
  k1 = k1  k2 = k2  k3 = k3  g1 = g1  g2 = g2
  Keys = {k1, k2, k3}
  Games = {g1, g2}
  GameOf <- TwoGames
  Prices = {low, high}
  Stamps = {1, 2, 3}
  Schedulers = {scheduler}
  Triggers = {}
  Streamers = {live}
  Readers = {}
  PageLimit = 1
  MaxMoves = 1
  MaxTriggers = 0
  MaxFaults = 1
  MaxLead = 4
  NoWriter = NoWriter
  NoEvent = NoEvent
  NoOdds = NoOdds
SYMMETRY Interchangeable
INVARIANTS MutexHeld DedupReadHolds ObservedNotLost SilentRowHasCause
PROPERTIES ImplementsLineBook InsertOnlyChanges SnapshotsImmutable
