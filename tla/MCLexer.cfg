SPECIFICATION LexSpec
CONSTANTS
  Texts <- MCTexts
  MaxLen = 4
  Wider = 6
INVARIANTS
  ReadsInsideSource
  LinesAreRight
  NothingIsLost
  NumbersKeepTheirValue
CHECK_DEADLOCK FALSE
