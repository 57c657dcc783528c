SPECIFICATION Spec
CONSTANTS
  l1 = l1
  l2 = l2
  Link <- TwoLinks
  ListHead = ListHead
  Null = Null
  MaxPending = 2
CHECK_DEADLOCK FALSE
INVARIANTS ListOK TakesTurns
PROPERTIES ImplementsQueue NoneStarves
