CONSTANTS
  Capacity = 4
  MaxId = 6
  Prices = {1, 2}
  QtyMod = 64
  QuoteSides <- MCAsks
  Qtys = {2}
  TakeQtys = {1}
  Displays = {}
  StopQtys = {2}
  StopPrices = {1, 2}
  MaxArrivals = 3
  TouchStops = FALSE
  StopSides <- MCBuyStops
  Policies <- MCFifo
SPECIFICATION EngineSpec
INVARIANTS
  StalePointersHarmless
  StopsAccounted
PROPERTIES
  StopLimitRestsInFull
  CascadeEnds
