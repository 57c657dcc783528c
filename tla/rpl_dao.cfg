SPECIFICATION Spec
CONSTANTS
  r = r
  a = a
  b = b
  c = c
  Node <- Nodes
  Root = r
  NoNode = NoNode
  Parents <- Candidates
  Capacity <- Rooms
  Modes <- Configurations
  Trees <- Beginnings
  MaxTransmissions = 2
  SeqSpace = 8
  Budgets <- Bounds
CHECK_DEADLOCK FALSE
INVARIANTS NumbersOK AckedReaches
PROPERTIES ImplementsRegistration RepetitionHeals
