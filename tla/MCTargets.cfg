CONSTANTS
  Ids = {t1, t2}
  Sessions = {s1, s2}
  Calls = {c1, c2}
  MaxGen = 2
  MaxEvents = 3
  Capacity = 2
SYMMETRY Symmetry
SPECIFICATION Spec
INVARIANT ActiveIsFlagged DanglingIsReported AcceptedSessionIsLive OldSessionRejected OnlyInversionBlocks
CHECK_DEADLOCK FALSE
