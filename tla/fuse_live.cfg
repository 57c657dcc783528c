SPECIFICATION Spec
CONSTANTS
  r1 = r1
  r2 = r2
  d1 = d1
  d2 = d2
  NoReq = NoReq
  Req <- OneReq
  Daemon <- TwoDaemons
  MaxBackground = 1
  UintMax = 9
  MaxUnique = 2
CHECK_DEADLOCK FALSE
PROPERTY WaitsEnd
