\* The function returns once: hence no deadlock check.
CONSTANTS
  Prec = 4
  EMin <- MinusThree
  EMax = 13
  SmallExp10 = 9
  LargeExp10 = 4
  MaxDigits = 9
  MaxSig = 15
  MaxSigExp = 3
  ExpBase = 4
  MaxExpWidth = 3
  PlainCap = 22
  SciCap = 13
  Caps <- SmallCaps
SPECIFICATION TSpec
INVARIANTS
  ReadsBack
  IsShortest
  TextReadsBack
PROPERTY AlwaysAnswers
CHECK_DEADLOCK FALSE
