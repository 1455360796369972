SPECIFICATION RTSpec
CONSTANTS
  Sources <- LastSources
  Names = {"A", "B", "TOP", "R10000", "bss"}
  PastBuffer = {0}
  Images = {}
  MaxLines = 1
  CodeBytes = {0}
  MaxCode = 1
INVARIANTS
  RoundTripOfLoadable
CHECK_DEADLOCK FALSE
