SPECIFICATION FairSpec
CONSTANTS
  N = 4
  MaxWorkers = 2
  Endings = {"output", "miss", "timeout_error", "exit"}
  SourceFails = TRUE
INVARIANT LazyWindow
INVARIANT NothingDropped
INVARIANT LeaksAreTimeouts
PROPERTY Settles
PROPERTY StreamEnds
