SPECIFICATION RTSpec
CONSTANTS
  Sources <- MCSources
  Names = {"A", "B", "TOP", "R10000", "bss"}
  PastBuffer = {0, 255}
  Images <- MCImages
  MaxLines = 3
  CodeBytes = {0, 1, 15, 16, 18, 31, 80, 255}
  MaxCode = 4
INVARIANTS
  AsmTypeOK
  StatementsInOrder
  ImageLoads
  ImageHoldsProgram
  RoundTripExact
  AssembledIsReproducible
  SweepStaysInCode
  DebuggerShowsSame
PROPERTIES
  CallsAdvance
CHECK_DEADLOCK FALSE
