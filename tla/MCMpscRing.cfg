CONSTANTS
  p1 = p1
  p2 = p2
  p3 = p3
  Producers <- Three
  Size = 2
  MaxPush = 2
SPECIFICATION Spec
INVARIANTS
  NoDataRace
  PopsFollowClaims
PROPERTIES
  PushFailsOnlyWhenFull
  ImplementsFifo
  ClaimedIsDelivered
