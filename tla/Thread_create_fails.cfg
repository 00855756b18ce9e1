SPECIFICATION Spec
CONSTANTS
  Free = Free
  NoThread = NoThread
  Clients = {alice, bob}
  Workers = {first, second}
  RawRunMayFail = TRUE
INVARIANT NoUseAfterDelete
CHECK_DEADLOCK FALSE
