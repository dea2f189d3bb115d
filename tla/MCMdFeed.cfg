CONSTANTS
  Size = 2
  CtrMod = 4
  CtrStart = 2
  Payload = 107
  MaxCount = 2
  Orders <- MCOrders
  Tops <- MCTops
  MaxEvents = 3
  MaxStarts = 2
  Foreign <- MCForeign
  MaxRecv = 2
SPECIFICATION Spec
INVARIANTS
  NoSlotRace
  EventsAccounted
  ThreadStaysInBounds
  OwnTrafficDecodes
PROPERTIES
  RingImplementsFifo
  AcceptedIsSent
  StopReturns
