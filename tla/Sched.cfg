SPECIFICATION FairBypass
CONSTANTS
  p1 = p1
  p2 = p2
  p3 = p3
  c1 = c1
  c2 = c2
  NULL = NULL
  Proc = {p1, p2, p3}
  Cpu = {c1, c2}
  MAX_PRIO = 3
  MAX_QUEUE_SIZE = 2
  ConfPrio <- MCConfPrio
  proc_name <- MCName
  Names = {"a", "b"}
INVARIANTS
  TypeOK
  ExclusiveOwner
  NoDanglingPcb
  VictimsFit
  KillallMissesNone
  NothingLost
  BoundedBypass
PROPERTIES
  NoStarvation
