SPECIFICATION Spec
CONSTANT
  Samples <- MCSamples
INVARIANTS
  CompareThenJump
  AddSubExact
  MulDivExact
  LogicExact
  ShiftsCompose
