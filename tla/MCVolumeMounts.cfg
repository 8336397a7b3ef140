\* Three pods use a volume that is suspended, resumed and deleted; the node may reboot.
SPECIFICATION Spec
CONSTANTS
  p1 = p1
  p2 = p2
  p3 = p3
  Pods = {p1, p2, p3}
  NoPod = NoPod
  MaxChanges = 3
  MaxMounts = 3
SYMMETRY PodSymmetry
INVARIANTS
  PublishedSeesData
  DataInUseIsRecorded
  StagedOnce
  UnstagedIsUnmounted
\* A volume that is gone and taken back leaves nothing to do.
CHECK_DEADLOCK FALSE
