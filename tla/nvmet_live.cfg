SPECIFICATION Spec
CONSTANTS
  c1 = c1
  c2 = c2
  f1 = f1
  f2 = f2
  d1 = d1
  d2 = d2
  NoCmd = NoCmd
  NoFod = NoFod
  Nobody = Nobody
  Cmd <- TwoCmds
  Fod <- OneFod
  Deleter <- OneDeleter
  Abts <- OneAbts
  Chunks = 2
  Dirs <- DataDirs
  DeferRcv = FALSE
  ReadRsp = FALSE
CHECK_DEADLOCK FALSE
PROPERTY NoneHangs
