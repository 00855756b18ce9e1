SPECIFICATION FairSpec
CONSTANTS
  Free = Free
  NoThread = NoThread
  Clients = {alice, bob}
  Workers = {first, second}
  RawRunMayFail = FALSE
INVARIANTS NoUseAfterDelete OneWorker
PROPERTIES WaitMeansStopped ExitWaitReturns DiesUnreferenced
CHECK_DEADLOCK FALSE
