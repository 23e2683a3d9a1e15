CONSTANTS
  KeyBytes = 20
  Word = 65536
  Keys <- MCKeys
  MaxSlips = 2
SPECIFICATION Spec
CHECK_DEADLOCK FALSE
INVARIANTS DisplayIsBase32 TypedKeyIsDisplayed
