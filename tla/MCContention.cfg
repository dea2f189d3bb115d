CONSTANTS
  Capacity = 2
  MaxId = 4
  Prices = {1, 2}
  QtyMod = 64
  QuoteSides <- MCSides
  Qtys = {1}
  TakeQtys = {2}
  Displays = {}
  StopQtys = {}
  StopPrices = {1}
  MaxArrivals = 9
  TouchStops = FALSE
  p1 = p1
  p2 = p2
  Producers <- MCProducers
  OpsEach = 2
  Cmds <- MCCmds
  QueueCap = 2
  MaxDrain = 2
  ShardCount = 2
  MaxAsks = 1
SPECIFICATION ContSpec
INVARIANTS
  CommandsInOrder
  QuoteCurrent
  ShardsSerial
  QuoteSettled
  NoLostUpdates
PROPERTIES
  BothReturn
