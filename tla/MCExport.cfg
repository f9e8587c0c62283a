\* One file, moved and saved by hand: exports of two files share nothing.
SPECIFICATION FairSpec
CONSTANTS
  Links = {l1}
  ByHand = {l1}
  Crashes = TRUE
INVARIANTS
  NothingLost
  NoLitter
PROPERTIES
  MovedInTheEnd
