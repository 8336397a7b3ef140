CONSTANTS
  d1 = d1
  d2 = d2
  d3 = d3
  m1 = m1
  m2 = m2
  m3 = m3
  NoName = NoName
  NoUUID = NoUUID
  NoObject = NoObject
  Bad = Bad
  DriveOrder <- MCDriveOrder
  FirstLayout <- MCFirstLayout
  Layouts <- MCLayouts
  NodeName <- MCNodeName
  Requests <- MCRequests
  Migrated = {d2}
  Used = {d1}
  Served = {d2}
  Repaired = {d1}
  MaxEvents = 2
  MaxCommands = 1
SPECIFICATION Spec
CHECK_DEADLOCK FALSE
INVARIANTS
  ReadyIsMounted
  CapacityAddsUp
  CommandHolds
PROPERTIES
  ActsOnSelected
