CONSTANTS
  Prec = 5
  EMin <- MinusTwo
  EMax = 5
  SmallExp10 = 9
  LargeExp10 = 4
  LimbDigits = 2
  Capacity = 6
  MaxDigits = 9
  DefaultPrecision = 4
  MaxPrecision = 6
  MinFixedExp10 <- MinusOne
  HexBits = 2
  HexDigits = 2
  ExpBase = 2
  MaxExpWidth = 5
  Layouts <- SmallLayouts
  Precisions <- AskedFor
SPECIFICATION TSpec
CHECK_DEADLOCK FALSE
INVARIANT TowardPositive
