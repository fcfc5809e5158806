SPECIFICATION Spec
CONSTANTS
  e1 = e1  e2 = e2  e3 = e3  pl = pl  scorer = scorer  shots = shots  onTarget = onTarget
  Events = {e1, e2, e3}
  Start <- MCStart
  Rank <- MCRank
  Players = {pl}
  Stats = {scorer, shots}
  YesNo = {scorer}
  PointOf <- OnePoint
  Prices = {1, 2}
  Window = 2
  MaxEvents = 2
  NoPrice = NoPrice
  Horizon = 4
  MaxMoves = 2
  MaxFaults = 1
INVARIANTS TypeOK NoneMissedBelowCap FetchedIsCurrent
