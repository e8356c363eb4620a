SPECIFICATION Spec
CONSTANTS
  MinSize = 4
  MinIncrease = 8
  MaxIncrease = 20
  Lengths <- SomeLengths
  MaxPos = 36
INVARIANTS TypeOK InBounds
PROPERTY RowIntact
