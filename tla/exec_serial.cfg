SPECIFICATION FairSpec
CONSTANTS
  N = 3
  Timeouts = {}
  Misses = FALSE
  Slips = FALSE
  HelloFails = TRUE
  ChildDies = TRUE
  Interrupts = TRUE
INVARIANT LeftoversAreReported
PROPERTY Delivers
PROPERTY Terminates
