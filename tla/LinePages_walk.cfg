SPECIFICATION Spec
CONSTANTS
  home = home  away = away
  Lines = {1, 2, 4}
  Sides = {home, away}
  SideOf <- Turns
  Limits = {1, 2}
  Stamps = {1, 2}
  NoFilter = NoFilter
  MaxRows = 2
INVARIANTS TypeOK NoLineTwice WalkComplete
PROPERTY HiddenLinesAreNew
