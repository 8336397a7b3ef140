\* d1 with two volumes is replaced by d2.
SPECIFICATION FairSpec
CONSTANTS
  d1 = d1
  d2 = d2
  v1 = v1
  v2 = v2
  Drives = {d1, d2}
  Volumes = {v1, v2}
  NoDrive = NoDrive
  Start <- MCStart
  Size <- MCSize
  Room <- MCRoom
  Moves <- MCMoves
  MaxEvents = 3
INVARIANTS
  AlwaysListed
  CapacityBalanced
PROPERTIES
  PublishedStays
  ReadyIsMoved
  
\* A drive that is replaced leaves nothing to do.
CHECK_DEADLOCK FALSE
