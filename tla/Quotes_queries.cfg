SPECIFICATION Spec
CONSTANTS
  b1 = b1  b2 = b2  home = home  away = away
  Books = {b1, b2}
  Sides = {home}
  Points = {1, 2}
  Prices = {1996, 1998, 2000}
  SortKey <- InOrder
  BestLimit = 4
  NoOffer = NoOffer
  NotYet = NotYet
  MaxMoves = 3
INVARIANTS TypeOK OffersAreCurrent MovementSpansOffers ClosingShown BestBeatsOffers
