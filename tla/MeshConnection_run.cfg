SPECIFICATION FairSpec
CONSTANTS
  NSockets = 3
  Caller = {w}
  MaxRestarts = 1
  MaxDiskFaults = 1
INVARIANTS TypeOK ConnectedIsAlive NobodyWaitsOnClosed ConnectsWithOwnKey KeyIsKept
PROPERTIES KeyIsNeverReplaced ConnectsUnlessMute StopReturns
CHECK_DEADLOCK FALSE
