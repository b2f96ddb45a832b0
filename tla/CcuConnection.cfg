SPECIFICATION FairSpec
CONSTANTS
  N = 2
  WatchdogTime = 2
  MinInterval = 1
  MaxFlights = 2
INVARIANTS
  TypeOK
  ServedWhileRegistered
  StopUnregisters
  SilenceBounded
PROPERTIES
  NoSubscribeAfterStop
  SilenceRecovers
  StartAndStopEnd
