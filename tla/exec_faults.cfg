SPECIFICATION FairSpec
CONSTANTS
  N = 3
  Timeouts = {"recv"}
  Misses = TRUE
  Slips = TRUE
  HelloFails = TRUE
  ChildDies = TRUE
  Interrupts = FALSE
INVARIANT TypeOK
INVARIANT ResponseUsedOnce
INVARIANT SwapsHaveCulprits
PROPERTY Terminates
