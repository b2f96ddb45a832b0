SPECIFICATION Spec
CONSTANTS
  Kinds = {"switch", "sensor", "lock", "blind", "slat", "dimmer", "coltemp",
           "rgb", "bsl", "battery", "weather", "meter", "thermostat"}
  Level = {0, 1, 100}
  Temp = {9, 44}
  Hue = {0, 120}
  MaxPending = 2
INVARIANTS
  TypeOK
  Converges
  HomeKitIsToldOfChanges
