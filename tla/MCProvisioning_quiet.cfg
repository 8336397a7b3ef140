\* Two claims of one storage class compete for two drives; handlers stop half way.
SPECIFICATION Spec
CONSTANTS
  d1 = d1
  d2 = d2
  v1 = v1
  v2 = v2
  c1 = c1
  NoDrive = NoDrive
  NoClaim = NoClaim
  Drives = {d1, d2}
  Volumes = {v1, v2}
  Claims = {c1}
  ClaimOf <- MCClaimOf
  Suitable <- MCSuitable
  Requested <- MCRequested
  Usable <- MCUsable
  Total <- MCTotal
  Size1 = 1
  Size2 = 2
  Room1 = 2
  Room2 = 3
  Overhead = 1
  ShareClaim = TRUE
  ExpandTo = {}
  DriveEvents <- NoEvents
  Faults = TRUE
  LateWrites = FALSE
  QuietClean = TRUE
INVARIANTS
  ReservationSound
  BoundIsReserved
  ClaimUnique
  RefundExact
PROPERTIES
  ImplementsPlacement
\* Every claim ends and volume names are not reused, so the system may stop.
CHECK_DEADLOCK FALSE
