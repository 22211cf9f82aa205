SPECIFICATION Spec
CONSTANTS
  Clients = {c1}
  Recoverers = {"handle", "disconnect"}
  MaxLosses = 2
INVARIANT NoCallCutOff StoppedIsClean
PROPERTY WokenShutdownCompletes RecoveryDecides
CHECK_DEADLOCK FALSE
