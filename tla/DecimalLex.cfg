\* The lexer stops for good when it is done, hence no deadlock check.
CONSTANTS
  Alphabet <- AllSymbols
  MaxLen = 7
  U64Max = 12
  SigMax = 199
  ExpCap = 5
  MaxSigDigits = 3
  MaxExp10 = 2
  TinyExpCap = 10
  WordBits = 10
  HalfWord = 32
  Prec = 4
  EMin <- MinusSeven
  EMax = 17
  SmallExp10 = 9
  LargeExp10 = 4
SPECIFICATION TSpec
INVARIANTS
  CallInv
  Enclosed
  DropsOnlyWhenFull
  CountsDigits
  ParsesLongestPrefix
  TinyIsNearest
  TinyKeepsItsContract
CHECK_DEADLOCK FALSE
