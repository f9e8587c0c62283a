\* Two links, engine and yt-dlp: workers against every per-link and global verb.
SPECIFICATION FairSpec
CONSTANTS
  MaxLinks = 2
  MaxPackages = 0
  MaxGrab = 0
  PosBound = 3
  Priorities = {0}
  MaxActives = {1}
  Delegates = {FALSE, TRUE}
  Toggles = {}
  MoveDirs = {"UP"}
INVARIANTS
  ActiveIffWorker
  PauseAllStops
  CellsOwned
  CancelReachesWorker
  RemovalStands
  NoOrphanPartial
PROPERTIES
  CapRespected
  WorkConserving
