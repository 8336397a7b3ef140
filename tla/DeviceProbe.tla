----------------------------- MODULE DeviceProbe -----------------------------
(***************************************************************************)
(* What a node finds out about its block devices.                          *)
(*                                                                         *)
(* A host is a function from device numbers to what /run/udev, /sys, /proc *)
(* and the device itself say of a device; mounts are the entries of the    *)
(* mount table.  The code reads them one after the other; here a probe is  *)
(* one reading.  A size is Small, which includes none, or above the least  *)
(* one that is supported.                                                  *)
(***************************************************************************)
EXTENDS Naturals, FiniteSets

CONSTANTS
  NoName,   \* the device is in /run/udev only: it was just removed
  NoUUID    \* there is no XFS filesystem

\* Device and superBlock.  "marks" are the rest of what keeps a device from being used:
\* hidden, readOnly, partitioned, held, swapOn, cdrom, small, empty, loop.
HostDevice(name, marks, fsuuid, total) ==
  [inUdev |-> TRUE, name |-> name, marks |-> marks,
   udevUUID |-> fsuuid,     \* ID_FS_UUID, which udev wrote when it last saw the device
   fsuuid |-> fsuuid,       \* superblock, with the capacity of the filesystem
   total |-> total]

-----------------------------------------------------------------------------
(* sys/mount.go *)

\* fsuuid is the filesystem that was on the device when it was mounted.
MountEntry(device, source, target, fsuuid) ==
  [device |-> device, source |-> source, target |-> target, fsuuid |-> fsuuid]

FilterByMajorMinor(mounts, d) == {m \in mounts : m.device = d}
FilterByMountSource(mounts, name) == {m \in mounts : m.source = name}
FilterByMountPoint(mounts, t) == {m \in mounts : m.target = t}

\* mount: nothing to do if the device is mounted there; an error if another is.
MountRefused(mounts, name, target) ==
  LET at == FilterByMountPoint(mounts, target)
  IN  at # {} /\ FilterByMountSource(at, name) = {}
AlreadyMounted(mounts, name, target) ==
  FilterByMountSource(FilterByMountPoint(mounts, target), name) # {}

\* unmount: nothing to do if nothing is mounted there.
Unmounted(mounts, target) == mounts \ FilterByMountPoint(mounts, target)

-----------------------------------------------------------------------------
(* Probing *)

\* /sys/dev/block, /run/udev/data, /sys/class/block, /proc/swaps and /proc/sys/dev/cdrom
getDeviceName(host, d) == host[d].name
parseUdevData(host, d) == host[d].udevUUID
SysfsMarks(host, d) == host[d].marks \cap {"hidden", "readOnly", "partitioned", "held", "small", "empty"}
getSwaps(host) == {d \in DOMAIN host : "swapOn" \in host[d].marks}
getCDROMs(host) == {d \in DOMAIN host : "cdrom" \in host[d].marks}

\* probeFromUdev: the name of every device is looked up, that of a loop device too, and one
\* that has none makes the probe fail.
UdevFails(host) == \E d \in DOMAIN host : host[d].inUdev /\ getDeviceName(host, d) = NoName
probeFromUdev(host) == {d \in DOMAIN host : host[d].inUdev /\ "loop" \notin host[d].marks}

\* newDevice
newDevice(host, mounts, d) ==
  [majorMinor |-> d, name |-> getDeviceName(host, d), udevUUID |-> parseUdevData(host, d),
   marks |-> SysfsMarks(host, d) \cup (IF d \in getSwaps(host) THEN {"swapOn"} ELSE {})
               \cup (IF d \in getCDROMs(host) THEN {"cdrom"} ELSE {}),
   mountPoints |-> {m.target : m \in FilterByMajorMinor(mounts, d)}]

probe(host, mounts) == {newDevice(host, mounts, d) : d \in probeFromUdev(host)}

\* DeniedReason: why a device may not be initialised.  drives are the DirectPVDrive objects,
\* which may be out of reach.
DeniedReason(dev, drives, reachable) ==
  (dev.marks \cap {"small", "empty", "hidden", "readOnly", "partitioned", "held", "swapOn",
                   "cdrom"})
    \cup (IF dev.mountPoints # {} THEN {"mounted"} ELSE {})
    \cup (IF dev.udevUUID = NoUUID THEN {}
          ELSE IF ~reachable THEN {"internal error"}
          ELSE IF dev.udevUUID \in drives THEN {"used"} ELSE {})

\* ToNodeDevice.  The ID is a hash of everything that was probed, so it is the probe.
ToNodeDevice(dev, drives, reachable) ==
  [name |-> dev.name, id |-> dev, fsuuid |-> dev.udevUUID,
   deniedReason |-> DeniedReason(dev, drives, reachable)]

\* xfs.Probe reads the superblock; it fails on a device that does not answer in time, and
\* the device is passed over like one without the filesystem.
Superblock(host, d) == host[d].fsuuid

\* probeDeviceMap: the devices of each filesystem
PassedOver == {"hidden", "partitioned", "held", "swapOn", "cdrom", "empty"}
probeDeviceMap(host, mounts, silent, uuids) ==
  [u \in uuids |->
     {dev.majorMinor : dev \in {e \in probe(host, mounts) :
        e.marks \cap PassedOver = {} /\ e.majorMinor \notin silent
          /\ Superblock(host, e.majorMinor) = u}}]

\* sys.GetDeviceByFSUUID: /dev/disk/by-uuid, a link udev makes to one of the devices
ByUUID(host, u) == {d \in probeFromUdev(host) : host[d].udevUUID = u}
=============================================================================
