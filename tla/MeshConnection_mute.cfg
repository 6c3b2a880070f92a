SPECIFICATION FairSpec
CONSTANTS
  NSockets = 2
  Caller = {w}
  MaxRestarts = 1
  MaxDiskFaults = 1
PROPERTY ConnectsAfterOutage
CHECK_DEADLOCK FALSE
