SPECIFICATION Spec
CONSTANTS
  c1 = c1
  c2 = c2
  f1 = f1
  f2 = f2
  d1 = d1
  d2 = d2
  NoCmd = NoCmd
  NoFod = NoFod
  Nobody = Nobody
  Cmd <- TwoCmds
  Fod <- OneFod
  Deleter <- OneDeleter
  Abts <- TwoCmds
  Chunks = 2
  Dirs <- AllDirs
  DeferRcv = TRUE
  ReadRsp = TRUE
CHECK_DEADLOCK FALSE
SYMMETRY Symmetry
INVARIANTS OneOwner RefsExact FreedInTime WriteAfterData HeardOf
PROPERTY ImplementsExchange
