SPECIFICATION FairSys
CONSTANTS
  p1 = p1
  p2 = p2
  p3 = p3
  c1 = c1
  c2 = c2
  NULL = NULL
  Loader = Loader
  Proc = {p1, p2, p3}
  Cpu = {c1, c2}
  Dev = {c1, c2, Loader}
  MAX_PRIO = 1
  MAX_QUEUE_SIZE = 3
  ConfPrio <- MCConfPrio
  proc_name <- MCName
  Names = {"", "a", "b"}
  NoName = ""
  path <- MCPath
  Other <- MCOther
  StartTimes = {0}
  Programs <- MCPrograms
  time_slot = 1
  TimeCap = 1
  NPage = 2
  NRam = 2
  NSwp = 2
INVARIANTS
  SysTypeOK
  MemoryHasOneUser
  AllGivenBack
  KillsWhatWasWritten
  SysNoDeadlock
PROPERTIES
  EveryProcessEnds
CHECK_DEADLOCK FALSE
