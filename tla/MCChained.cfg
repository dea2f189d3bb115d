CONSTANTS
  Capacity = 4
  MaxId = 7
  Prices = {1, 2}
  QtyMod = 64
  QuoteSides <- MCAsks
  Qtys = {1}
  TakeQtys = {1}
  Displays = {}
  StopQtys = {1}
  StopPrices = {1, 2}
  MaxArrivals = 4
  TouchStops = FALSE
  StopSides <- MCBuyStops
  Policies <- MCFifo
SPECIFICATION EngineSafetySpec
INVARIANTS
  NoStopLeftBehind
