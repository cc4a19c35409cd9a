SPECIFICATION LinkSpec
CONSTANTS
  Sizes <- MCSizes
  LineMax = 2
  ItemMax = 1
  RxDepth = 1
  TxDepth = 1
  Beacons = 1
  MaxDamage = 1
  MaxUpsets = 1
INVARIANTS NeighboursSpared Accounted
PROPERTY FooterSettles
CHECK_DEADLOCK FALSE
