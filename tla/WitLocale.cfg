\* A call returns once: hence no deadlock check.
CONSTANTS
  Numbers <- PrintedNumbers
  Typed <- TypedTexts
  Locales <- AllLocales
  Rules <- AllRules
  Width = 8
  OutCap = 14
  NormCap = 12
  PlaceMod = 13
SPECIFICATION Spec
INVARIANTS
  ParsesWhatItFormats
  LengthIsConsumed
  RefusesMisplacedOnly
CHECK_DEADLOCK FALSE
