\* Two links over one slot, one of them sometimes enabled by the silent verbs.
SPECIFICATION FairSpec
CONSTANTS
  Links = {l1, l2}
  MaxActive = 1
  IdleTicks = 2
  MaxStarts = 2
  Silent = {l2}
INVARIANTS
  WorkHasService
  LocksOwned
PROPERTIES
  WorkIsDriven
  IdleStops
