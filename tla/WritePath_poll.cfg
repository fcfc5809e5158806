SPECIFICATION LiveSpec
CONSTANTS
  k1 = k1  k2 = k2  k3 = k3  g1 = g1  g2 = g2
  Keys = {k1}
  Games = {g1}
  GameOf <- OneLine
  Prices = {10, 20}
  Stamps = {1, 2, 3, 4, 5, 6, 7, 8}
  Schedulers = {scheduler}
  Triggers = {trigger}
  Streamers = {}
  Readers = {reader}
  PageLimit = 1
  MaxMoves = 2
  MaxTriggers = 1
  MaxFaults = 1
  MaxLead = 2
  NoWriter = NoWriter
  NoEvent = NoEvent
  NoOdds = NoOdds
INVARIANTS TypeOK StaleEntryHasCause
PROPERTIES PersistEnds PricesConverge CacheConverges
