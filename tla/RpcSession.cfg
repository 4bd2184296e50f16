SPECIFICATION Spec
INVARIANTS
  InStep
  ExitZeroMeansAllAnswered
PROPERTIES
  Implements
