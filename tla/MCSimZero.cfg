CONSTANTS
  Capacity = 3
  MaxId = 3
  Prices = {1, 2, 3}
  QtyMod = 64
  QuoteSides <- MCBoth
  Qtys = {1}
  TakeQtys = {1}
  Displays = {}
  StopQtys = {}
  StopPrices = {1}
  MaxArrivals = 9
  TouchStops = FALSE
  Mid = 2
  Span = 1
  DefaultQty = 2
  MaxTake = 3
  Cap = 4
  Attempts = 8
  CompactEvery = 9
SPECIFICATION SimSpec
INVARIANTS
  StepReturns
CHECK_DEADLOCK FALSE
