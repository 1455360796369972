SPECIFICATION ReadSpec
CONSTANTS
  Inputs <- MCInputs
  MaxCalls = 3
  MaxLen = 5
INVARIANTS
  ReadsInputExactly
CHECK_DEADLOCK FALSE
