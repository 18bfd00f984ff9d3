SPECIFICATION Spec
CONSTANTS
  N = 3
  Timeouts = {}
  Misses = TRUE
  Slips = FALSE
  HelloFails = FALSE
  ChildDies = FALSE
  Interrupts = FALSE
INVARIANT OutputIsOwn
