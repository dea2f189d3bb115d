CONSTANTS
  Readers = {r1, r2}
  Fields = {bid, ask}
  MaxPublish = 3
SPECIFICATION Spec
INVARIANTS
  NoTornRead
  ReadIsFresh
PROPERTIES
  ReadReturns
