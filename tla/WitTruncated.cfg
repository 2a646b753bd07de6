\* A buffer smaller than the numbers printed.
CONSTANTS
  Numbers <- PrintedNumbers
  Typed = {}
  Locales <- AllLocales
  Rules <- AllRules
  Width = 8
  OutCap = 14
  NormCap = 4
  PlaceMod = 13
SPECIFICATION Spec
INVARIANT OverflowRefused
CHECK_DEADLOCK FALSE
