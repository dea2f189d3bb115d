CONSTANTS
  Capacity = 3
  MaxId = 4
  Prices = {1, 2}
  QtyMod = 32
  QuoteSides <- MCAsks
  Qtys = {2, 7}
  TakeQtys = {3, 5}
  Displays = {2}
  StopQtys = {5}
  StopPrices = {2}
  MaxArrivals = 3
  TouchStops = FALSE
  StopSides <- MCBuyStops
  Policies <- MCProRata
SPECIFICATION EngineSafetySpec
INVARIANTS
  StalePointersHarmless
PROPERTIES
  ProRataConserves
  ProRataIsFair
