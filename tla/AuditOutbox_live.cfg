SPECIFICATION FairSpec
CONSTANTS
  NEvents = 3
  Blob = {b1}
  BatchLimit = 2
  Rejectable = {2}
  MaxForgets = 1
  MaxCrashes = 1
  MaySlow = {1}
  MaxMishaps = 0
PROPERTY AnsweredSettle
CHECK_DEADLOCK FALSE
