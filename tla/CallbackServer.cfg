SPECIFICATION Spec
CONSTANTS
  Requests = {1, 2}
  Bodies <- MCBodies
  Listeners <- MCListeners
  KeyOf <- MCKeyOf
  Throwing <- MCThrowing
  MaxBytes = 2
  Handled <- handle
  Events <- EventsOf
INVARIANTS TypeOK RepliesReadBack DispatchIsComplete
PROPERTY EachEventOnce
\* Both requests are over and every listener is disposed.
CHECK_DEADLOCK FALSE
