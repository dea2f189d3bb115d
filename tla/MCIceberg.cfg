CONSTANTS
  Capacity = 3
  MaxId = 3
  Prices = {1}
  QtyMod = 64
  QuoteSides <- MCAsks
  Qtys = {0, 3}
  TakeQtys = {2}
  Displays = {1}
  StopQtys = {}
  StopPrices = {1}
  MaxArrivals = 4
  TouchStops = FALSE
SPECIFICATION Spec
INVARIANTS
  TimePriority
  DepthExact
PROPERTIES
  MarketTerminates
  OnlyReplenishmentLosesPriority
  FillsConserve
