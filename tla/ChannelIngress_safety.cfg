SPECIFICATION Spec
CONSTANTS
  e1 = e1
  e2 = e2
  e3 = e3
  m1 = m1
  m2 = m2
  b1 = b1
  Conn = {c1, c2}
  Inbound = {e1, e2, e3}
  Message = {m1, m2}
  MessageOf <- MCMessageOf
  Blob = {b1}
  BlobsOf <- MCBlobsOf
  MaxSends = 4
  MaxCrashes = 1
  InboxFails = TRUE
SYMMETRY ConnSymmetry
INVARIANTS TypeOK AcceptedIsDurable SameAnswer OneTurnPerMessage TurnIsAudited AcceptedHasTurnUnlessBroken
PROPERTY IntakeSpec
CHECK_DEADLOCK FALSE
