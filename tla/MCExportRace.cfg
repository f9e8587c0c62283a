\* One file, moved and saved by hand.
SPECIFICATION Spec
CONSTANTS
  Links = {l1}
  ByHand = {l1}
  Crashes = FALSE
INVARIANTS
  NeverLost
