SPECIFICATION FairSpec
CONSTANTS
  Procs = {p1, p2}
  Operators = {}
  Inodes = {i1, i2, i3}
  Nobody = Nobody
  NoInode = NoInode
  AllowAgeTakeover = TRUE
  AllowAlive = FALSE
  MaxAttempts = 1
CHECK_DEADLOCK FALSE
INVARIANT SingleWriter
PROPERTY LiveHolderKeepsEntry
PROPERTY LockIsReleased
