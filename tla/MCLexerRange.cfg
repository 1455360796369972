SPECIFICATION LexSpec
CONSTANTS
  Texts <- RangeTexts
  MaxLen = 4
  Wider = 6
INVARIANT OutOfRangeStaysOut
CHECK_DEADLOCK FALSE
