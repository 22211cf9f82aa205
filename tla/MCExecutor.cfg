CONSTANTS
  p1 = p1
  p2 = p2
  t1 = t1
  Plans = {p1, p2}
  Keys = {t1}
  Workload <- MCWorkload
  MaxDom = 2
  MaxEntries = 2
SPECIFICATION Spec
INVARIANT HonestReport
PROPERTY EveryPlanAnswered
CHECK_DEADLOCK FALSE
