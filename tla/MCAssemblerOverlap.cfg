SPECIFICATION RTSpec
CONSTANTS
  Sources <- WrapSources
  Names = {"A", "B", "TOP", "R10000", "bss"}
  PastBuffer = {0, 255}
  Images = {}
  MaxLines = 3
  CodeBytes = {0}
  MaxCode = 1
INVARIANTS
  OrgKeepsClear
CHECK_DEADLOCK FALSE
