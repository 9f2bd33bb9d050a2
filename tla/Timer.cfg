SPECIFICATION FairSpec
CONSTANTS
  NDev = 3
  TimeCap = 2
INVARIANTS
  TypeOK
  FreedUnused
PROPERTIES
  Lockstep
  SlotAdvances
  TimerStops
CHECK_DEADLOCK FALSE
