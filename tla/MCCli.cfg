SPECIFICATION CliSpec
CONSTANTS
  InputWords = {0, 65535}
  Swapped = {}
  MAX_STEPS = 3
  Images <- MCImages
INVARIANTS
  ExitStatusTrusted
PROPERTIES
  RunReturns
CHECK_DEADLOCK FALSE
