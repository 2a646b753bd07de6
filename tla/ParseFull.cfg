CONSTANTS
  Alphabet <- NumberSymbols
  MaxLen = 7
  U64Max = 255
  SigMax = 9999
  ExpCap = 10
  Prec = 3
  EMin <- MinusOne
  EMax = 4
  SmallExp10 = 9
  LargeExp10 = 4
  WordBits = 8
  HalfWord = 16
  LemireDigits = 2
  LemireMinExp10 <- MinusThree
  LemireMaxExp10 = 1
  FastExp10 = 0
  MinDecExp10 <- MinusThree
  MaxDecExp10 = 2
  SettledExp10 <- MinusTwo
  MaxDigits = 9
  MaxBits = 30
SPECIFICATION PSpec
CONSTRAINT Plain
INVARIANTS
  NearestUnlessTie
  OkIsExact
  RefusesOnlyLong
  FastPathIdle
CHECK_DEADLOCK FALSE
