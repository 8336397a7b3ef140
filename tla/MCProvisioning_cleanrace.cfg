\* clean runs while a claim is being provisioned.
SPECIFICATION Spec
CONSTANTS
  d1 = d1
  d2 = d2
  v1 = v1
  v2 = v2
  c1 = c1
  NoDrive = NoDrive
  NoClaim = NoClaim
  Drives = {d1}
  Volumes = {v1}
  Claims = {c1}
  ClaimOf <- MCClaimOf
  Suitable <- MCSuitable
  Requested <- MCRequested
  Usable <- MCUsable
  Total <- MCTotal
  Size1 = 1
  Size2 = 2
  Room1 = 2
  Room2 = 3
  Overhead = 1
  ShareClaim = FALSE
  ExpandTo = {}
  DriveEvents <- NoEvents
  Faults = FALSE
  LateWrites = FALSE
  QuietClean = FALSE
INVARIANTS
  BoundVolumeExists
\* Every claim ends and volume names are not reused, so the system may stop.
CHECK_DEADLOCK FALSE
