\* Anything may fail, land late or race with clean: the capacity account still holds.
SPECIFICATION Spec
CONSTANTS
  d1 = d1
  d2 = d2
  v1 = v1
  v2 = v2
  c1 = c1
  NoDrive = NoDrive
  NoClaim = NoClaim
  Drives = {d1}
  Volumes = {v1}
  Claims = {c1}
  ClaimOf <- MCClaimOf
  Suitable <- MCSuitable
  Requested <- MCRequested
  Usable <- MCUsable
  Total <- MCTotal
  Size1 = 1
  Size2 = 2
  Room1 = 2
  Room2 = 3
  Overhead = 1
  ShareClaim = TRUE
  ExpandTo = {2}
  DriveEvents <- AllEvents
  Faults = TRUE
  LateWrites = TRUE
  QuietClean = FALSE
INVARIANTS
  Backed
  FreeNeverNegative
  NoOvercommit
  CapacityFieldsAgree
\* Every claim ends and volume names are not reused, so the system may stop.
CHECK_DEADLOCK FALSE
