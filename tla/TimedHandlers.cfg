SPECIFICATION Spec
CONSTANTS
  Kinds = {"garage", "opener", "program"}
  MaxCommands = 3
  MaxEvents = 2
INVARIANTS
  TypeOK
  NothingDangles
  StoppedMeansSilence
  DoorIsBelieved
  DisposeDisarms
PROPERTY
  PassingEnds
\* Homebridge has shut down and everything is settled.
CHECK_DEADLOCK FALSE
