CONSTANTS
  Nodes = {n1, n2}
  NoNode = NoNode
  Requests <- MCRequests
  MaxSteps = 4
SPECIFICATION Spec
SYMMETRY MCSymmetry
INVARIANT OnlyNewestIsFresh
PROPERTY AnswerIsPresent
CHECK_DEADLOCK FALSE
