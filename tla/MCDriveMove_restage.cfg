\* A staged volume is moved.
SPECIFICATION Spec
CONSTANTS
  d1 = d1
  d2 = d2
  v1 = v1
  v2 = v2
  Drives = {d1, d2}
  Volumes = {v1}
  NoDrive = NoDrive
  Start <- MCStart
  Size <- MCSize
  Room <- MCRoom
  Moves <- MCMoves
  MaxEvents = 1
INVARIANTS
  StagedOnItsDrive
\* A drive that is replaced leaves nothing to do.
CHECK_DEADLOCK FALSE
