CONSTANTS
  QueueDepth = 3
  MaxAttempts = 2
  MaxJobs = 5
  MaxNames = 10
  MaxDeaths = 2
  MaxFaults = 2
SPECIFICATION WriterSpec
INVARIANTS RingConsistent OwnedOnce NoLostWakeup DrainedAtExit
PROPERTIES NothingSavedIsLost ImplementsQueue DeinitReturns
CHECK_DEADLOCK FALSE
