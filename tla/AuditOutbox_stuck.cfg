SPECIFICATION FairSpec
CONSTANTS
  NEvents = 2
  Blob = {b1}
  BatchLimit = 2
  Rejectable = {1}
  MaxForgets = 1
  MaxCrashes = 1
  MaySlow = {}
  MaxMishaps = 2
PROPERTY EverySettles
CHECK_DEADLOCK FALSE
