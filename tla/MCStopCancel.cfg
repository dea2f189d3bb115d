CONSTANTS
  Capacity = 3
  MaxId = 3
  Prices = {1}
  QtyMod = 64
  QuoteSides <- MCAsks
  Qtys = {1}
  TakeQtys = {}
  Displays = {}
  StopQtys = {1}
  StopPrices = {1}
  MaxArrivals = 3
  TouchStops = TRUE
SPECIFICATION SafetySpec
INVARIANTS
  LevelOrdersComplete
