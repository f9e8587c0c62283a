\* One caller of each kind, and the background update.
SPECIFICATION FairSpec
CONSTANTS
  Resolves = {r1}
  Downloads = {d1}
  Prepares = {p1}
  Checks = {c1}
  Background = bg
  Nobody = nobody
INVARIANTS
  UpdateExcludesUse
  GateHonest
PROPERTIES
  ReadersServed
  CancelEndsRunning
