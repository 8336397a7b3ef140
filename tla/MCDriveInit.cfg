\* Two requests, made of old and new files, for two devices.
SPECIFICATION FairSpec
CONSTANTS
  a = a
  b = b
  r1 = r1
  r2 = r2
  Devices = {a, b}
  Requests = {r1, r2}
  NoRequest = NoRequest
  MaxFormats = 2
  MaxEvents = 4
INVARIANTS
  DrivesKeepTheirDevice
  MountedIsOwned
PROPERTIES
  SuccessIsReal
  RequestAnswered
\* Drives may stay as they are.
CHECK_DEADLOCK FALSE
