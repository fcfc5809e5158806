SPECIFICATION Spec
CONSTANTS
  e1 = e1  e2 = e2  e3 = e3  pl = pl  scorer = scorer  shots = shots  onTarget = onTarget
  Events = {e1}
  Start <- LateStart
  Rank <- OneRank
  Players = {pl}
  Stats = {shots, onTarget}
  YesNo = {}
  PointOf <- SamePoint
  Prices = {1, 2}
  Window = 4
  MaxEvents = 2
  NoPrice = NoPrice
  Horizon = 5
  MaxMoves = 1
  MaxFaults = 1
PROPERTY UnchangedLinesSkipped
