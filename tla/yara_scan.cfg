SPECIFICATION Spec
CONSTANTS
  f1 = f1
  f2 = f2
  f3 = f3
  f4 = f4
  t1 = t1
  t2 = t2
  NoFile = NoFile
  File <- FourFiles
  Thread <- TwoThreads
  MaxQueuedFiles = 2
  MaxThreads = 2
CHECK_DEADLOCK FALSE
INVARIANTS SlotsExact PermitsSuffice EndsInTime
PROPERTIES ImplementsFileScan Returns
