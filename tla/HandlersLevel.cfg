SPECIFICATION Spec
CONSTANTS
  Kinds = {"dimmer"}
  Level = {0, 1, 50, 100}
  Temp = {9, 44}
  Hue = {0, 120}
  MaxPending = 2
INVARIANT
  PercentageIsWritten
