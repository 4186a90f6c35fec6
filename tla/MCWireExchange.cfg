CONSTANTS
  MaxFrame = 5
  FirstBuf = 2
  SockBuf = 4
  Payloads = {1, 2, 3, 4, 5, 6}
  AuthLines = {0, 2, 3, 5}
SPECIFICATION FairSpec
CHECK_DEADLOCK FALSE
INVARIANTS
  TypeOK
  FrameFits
  RefusedUnreadable
PROPERTY
  SendReturns
