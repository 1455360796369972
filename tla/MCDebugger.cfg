SPECIFICATION DbgSpec
CONSTANTS
  InputWords = {0}
  Swapped = {}
  CONTINUE_STEP_LIMIT = 4
  DEBUGGER_MAX_BREAKPOINTS = 2
  Images <- MCImages
  Args <- MCArgs
  Counts <- MCCounts
INVARIANTS
  ContinueStopsAtBreakpoint
  StopReasonIsTrue
  ResetReproducesBoot
  StackDumpIsLiveStack
PROPERTIES
  ContinueLeavesBreakpoint
  ImplementsSet
  CommandsReturn
CHECK_DEADLOCK FALSE
