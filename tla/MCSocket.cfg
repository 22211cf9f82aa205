SPECIFICATION SocketSpec
CONSTANTS
  Daemons = {d1, d2, d3}
  NoFile = NoFile
  Leftover = Leftover
INVARIANT ServingIsReachable
PROPERTY EveryStartDecided
CHECK_DEADLOCK FALSE
