CONSTANTS
  l1 = l1
  l2 = l2
  w1 = w1
  w2 = w2
  w3 = w3
  u1 = u1
  NoUUID = NoUUID
  DriveOrder <- MCDriveOrder
  VolumeOrder <- MCVolumeOrder
  FilesystemUUID <- MCFilesystemUUID
  DriveOf <- MCDriveOf
  Clusters <- MCClusters
  LateVolumes = {w3}
  MaxFaults = 1
  MaxCommands = 3
SPECIFICATION Spec
CHECK_DEADLOCK FALSE
INVARIANTS
  InstalledIsComplete
  NothingIsLost
  MigratedMatches
  RerunRepairs
  ReadIsLossless
