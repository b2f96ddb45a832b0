SPECIFICATION FairSpec
CONSTANTS
  Op = {read, write}
  LookUp = {write}
INVARIANTS
  RenewedOnce
PROPERTIES
  ImplementsPromise
  EveryOperationSettles
CHECK_DEADLOCK FALSE
