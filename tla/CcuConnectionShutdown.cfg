SPECIFICATION Spec
CONSTANTS
  N = 2
  WatchdogTime = 2
  MinInterval = 1
  MaxFlights = 2
INVARIANT
  ShutdownClosesServer
