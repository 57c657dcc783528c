SPECIFICATION Spec
CONSTANTS
  a1 = a1
  a2 = a2
  q1 = q1
  q2 = q2
  i1 = i1
  i2 = i2
  c1 = c1
  Unreg = unreg
  Ctrl = ctrl
  Conf = conf
  None = none
  Assoc <- TwoAssocs
  Queue <- TwoQueues
  Iod <- TwoIods
  Cmd <- OneCmd
  MaxQid = 1
  Casts <- HostAlone
  MaxLs = 3
SYMMETRY Symmetry
CHECK_DEADLOCK FALSE
INVARIANT NeverStale
