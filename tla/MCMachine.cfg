SPECIFICATION Spec
CONSTANTS
  InputWords = {0, 40000}
  Swapped <- MCSwapped
  MaxLength = 4
  OperandPairs <- MCOperandPairs
  Images <- MCImages
INVARIANTS
  TypeOK
  StackAboveProgram
  FaultExplained
  StepReturnsLastError
  LoadedExactly
PROPERTIES
  ProgramChangesOnlyByStore
  ImplementsStack
  PopDeliversTop
