SPECIFICATION Spec
CONSTANTS
  r1 = r1
  r2 = r2
  d1 = d1
  d2 = d2
  NoReq = NoReq
  Req <- TwoReqs
  Daemon <- TwoDaemons
  MaxBackground = 1
  UintMax = 9
  MaxUnique = 1
SYMMETRY Symmetry
CHECK_DEADLOCK FALSE
INVARIANTS CopySafe EndSound
