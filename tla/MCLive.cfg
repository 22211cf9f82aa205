CONSTANTS
  Main = main
  Children = {f1}
  MaxClock = 3
  MaxReconnects = 1
  Capacity = 2
  Conds = {}
SPECIFICATION Spec
INVARIANT ToldIsStale SilenceIsExcused
PROPERTY StaleStays
CHECK_DEADLOCK FALSE
