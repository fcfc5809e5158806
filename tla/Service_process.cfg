SPECIFICATION LiveSpec
CONSTANTS
  nba = nba  nfl = nfl
  Poll = Poll  Props = Props  Free = Free
  t = t
  PollSports <- TwoSports
  PropSports <- OneSport
  Leagues = {nba}
  Triggers = {t}
  Singles = {1}
  PoolSize = 1
INVARIANTS TypeOK WaitersHoldNothing
PROPERTIES PollingNeverStops SignalEndsProcess
