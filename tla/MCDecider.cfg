CONSTANTS
  Queries <- MCQueries
  Ids <- MCIds
  Numeral <- MCNumeral
  TextOf <- MCTextOf
  Modes = {"unset", "on", "off"}
  Permits = 1
  Budget = 2
  TtlUp = 3
  TtlDown = 1
  ProbeTime = 1
SPECIFICATION DeciderSpec
 
PROPERTY NoticedInTime EveryPerceptionEnds
CHECK_DEADLOCK FALSE
