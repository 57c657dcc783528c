SPECIFICATION Spec
CONSTANTS
  args = args
  value = value
  Reg <- TwoRegs
  SegSize = 3
  MaxSegs = 2
  MinPerSeg = 2
  MaxLen = 2
  MaxOps = 4
CHECK_DEADLOCK FALSE
INVARIANTS LinksRecoverable GcExact KnownKept FreeListOK
PROPERTY RequestsEnd
