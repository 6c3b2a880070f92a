SPECIFICATION MCSpec
CONSTANTS
  NEvents = 2
  Blob = {b1, b2}
  BatchLimit = 2
  Rejectable = {1, 2}
  MaxForgets = 1
  MaxCrashes = 1
  MaySlow = {}
  MaxMishaps = 2
SYMMETRY BlobSymmetry
INVARIANTS TypeOK AckedAtHub SnapshotHolds UnconfirmedHasUploader
PROPERTY DeliverySpec
CHECK_DEADLOCK FALSE
