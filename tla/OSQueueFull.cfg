SPECIFICATION FairOS
CONSTANTS
  p1 = p1
  p2 = p2
  p3 = p3
  c1 = c1
  c2 = c2
  NULL = NULL
  Loader = Loader
  Proc = {p1, p2, p3}
  Cpu = {c1, c2}
  Dev = {c1, c2, Loader}
  MAX_PRIO = 2
  MAX_QUEUE_SIZE = 1
  ConfPrio <- MCConfPrio
  proc_name <- MCName
  Names = {"a", "b"}
  path <- MCPath
  Other <- MCOther
  StartTimes = {0}
  Programs <- MCShort
  time_slot = 1
  TimeCap = 2
PROPERTIES
  EveryProcessEnds
CHECK_DEADLOCK FALSE
