\* Two links, loose or in a package, statement by statement, with deaths.
SPECIFICATION StoreSpec
CONSTANTS
  MaxLinks = 2
  MaxPackages = 1
  MaxGrab = 2
  PosBound = 3
  Priorities = {1}
  MaxActives = {1}
  Delegates = {FALSE}
  Toggles = {FALSE, TRUE}
  MoveDirs = {"UP", "DOWN", "TOP", "BOTTOM"}
  Migrations <- MCMigrations
  OldLinks = 1
  MaxVerbs = 3
INVARIANTS
  WrittenOut
  PartsListed
  ReviewSurvives
PROPERTIES
  LoadWhole
