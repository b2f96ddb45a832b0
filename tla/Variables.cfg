SPECIFICATION Spec
CONSTANTS
  Kinds = {"switch", "light", "sensor"}
  Values = {0, 1, 2}
  MaxCalls = 2
INVARIANT
  TypeOK
PROPERTY
  CatchesUp
