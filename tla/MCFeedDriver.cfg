CONSTANTS
  Capacity = 3
  MaxId = 5
  Prices = {1, 2, 3}
  QtyMod = 64
  QuoteSides <- MCBoth
  Qtys = {1}
  TakeQtys = {1}
  Displays = {}
  StopQtys = {}
  StopPrices = {1}
  MaxArrivals = 9
  TouchStops = FALSE
  Mid = 2
  Span = 1
  DefaultQty = 2
  MaxTake = 3
  Cap = 3
  Attempts = 2
  CompactEvery = 3
  WarmupIds = 2
  DriverOrders = 3
SPECIFICATION DriverSpec
INVARIANTS
  LiveCoversBook
  ListenerAgrees
CHECK_DEADLOCK FALSE
