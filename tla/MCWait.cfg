CONSTANTS
  Main = main
  Children = {}
  MaxClock = 3
  MaxReconnects = 0
  Capacity = 2
  Conds = {"load", "navigated", "dom", "dialog", "expression", "ready", "url"}
SPECIFICATION Spec
INVARIANT SignalNotLost
PROPERTY NoMissedWakeup
CHECK_DEADLOCK FALSE
