SPECIFICATION FairSpec
CONSTANTS
  e1 = e1
  e2 = e2
  e3 = e3
  m1 = m1
  m2 = m2
  b1 = b1
  Conn = {c1, c2}
  Inbound = {e1, e2, e3}
  Message = {m1, m2}
  MessageOf <- MCMessageOf
  Blob = {b1}
  BlobsOf <- MCBlobsOf
  MaxSends = 2
  MaxCrashes = 1
  InboxFails = FALSE
PROPERTY AcceptedReachesRuntime
CHECK_DEADLOCK FALSE
