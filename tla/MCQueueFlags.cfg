\* One link, loose or in one of two packages: flags, settings, a priority beyond
\* the clamp, and the order of the packages.
SPECIFICATION Spec
CONSTANTS
  MaxLinks = 1
  MaxPackages = 2
  MaxGrab = 1
  PosBound = 4
  Priorities <- MCPriorities
  MaxActives = {0, 1}
  Delegates = {TRUE}
  Toggles = {FALSE, TRUE}
  MoveDirs = {"UP"}
INVARIANTS
  StoreMirrors
