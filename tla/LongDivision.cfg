CONSTANTS
  Operands <- SmallNumbers
  FracBits = 3
  SigMax = 143
  LimbBase = 12
  LimbBits = 4
  MaxLimbs = 2
  MaxPosQ = 16
  MaxNegQ = 16
SPECIFICATION SSpec
INVARIANTS
  SearchInv
  RoundsToNearest
  InexactIffLost
  SearchNormalizes
CHECK_DEADLOCK FALSE
