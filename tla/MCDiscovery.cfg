CONSTANTS
  n1 = n1
  n2 = n2
  m1 = m1
  u1 = u1
  NoName = NoName
  NoUUID = NoUUID
  NoObject = NoObject
  NodeOrder <- MCNodeOrder
  FirstHost <- MCFirstHost
  Running <- MCRunning
  Hosts <- MCHosts
  Drives = {u1}
  Selections <- MCSelections
  MaxEvents = 2
  MaxCommands = 2
SPECIFICATION Spec
CHECK_DEADLOCK FALSE
INVARIANTS
  DiscoveryIsCurrent
PROPERTIES
  DiscoveryEnds
