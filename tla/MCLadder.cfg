CONSTANTS
  Capacity = 3
  MaxId = 4
  Prices = {1, 2, 3}
  QtyMod = 64
  QuoteSides <- MCBoth
  Qtys = {1}
  TakeQtys = {2}
  Displays = {}
  StopQtys = {1}
  StopPrices = {1}
  MaxArrivals = 3
  TouchStops = FALSE
SPECIFICATION SafetySpec
INVARIANTS
  PoolPartition
  LevelsExact
  PendingStopsLive
  MarketBestFirst
PROPERTIES
  ModifyKeepsOrder
