SPECIFICATION ToolSpec
CONSTANTS
  Paths <- MCPaths
  AsmPaths <- MCAsmPaths
  InitialFiles <- MCFiles
  Compile <- MCCompile
  Cuts <- MCCuts
  Faults = {"read", "open", "short_read", "short_write", "flush",
            "kill"}
  MaxCommands = 2
INVARIANTS
  ErrorsTouchNothing
  ExitZeroMeansWritten
  PartialNeverLoads
CHECK_DEADLOCK FALSE
