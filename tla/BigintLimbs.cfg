CONSTANTS
  Base = 4
  BaseDigits = 2
  Radix = 2
  MaxLimbs = 3
  Word = 42
  Garbage <- FullLimbs
  Words <- AllWords
  Smalls = {0, 1, 2, 3, 4, 5, 7, 10}
  AppendedDigits <- AllDigits
  Operands <- AllOperands
  MaxExponent = 6
  Exponents = {0, 1, 2, 3, 4, 5, 6}
  Tables <- PowerTables
  Pow10Small <- Pow10Table
  U32Max = 9
  Factors <- AllWords
  OutCaps = {0, 1, 2, 3, 4, 5, 6, 7}
SPECIFICATION CSpec
INVARIANTS
  CInv
  Answers
  AnswersPowers
  RefusesOnlyTooLarge
  KeepsOnRefusal
  NoWrap
  MultipliesByWord
  WritesTheNumber
CHECK_DEADLOCK FALSE
