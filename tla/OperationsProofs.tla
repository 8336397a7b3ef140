-------------------------- MODULE OperationsProofs --------------------------
(***************************************************************************)
(* What holds while commands, Sync, checkDrive and repair jobs change the  *)
(* same drives, for any number of drives, layouts of the host, requests    *)
(* and failures.                                                           *)
(*                                                                         *)
(* None of the properties is inductive.  The free capacity of a drive is   *)
(* computed from what is allocated, so that must cover the volume.  What a *)
(* command has still to do was read some steps before, so what it read     *)
(* must be as good as what is there.  And a drive that is Ready is mounted *)
(* because nobody but its job unmounts it, the job has marked it before,   *)
(* and whoever mounts it goes by a name that was looked up on the host as  *)
(* it is.                                                                  *)
(***************************************************************************)
EXTENDS Operations, TLAPS

-----------------------------------------------------------------------------
(* Types *)

Names == UNION {{layout[x].name : x \in DOMAIN layout} : layout \in Layouts}
Devices == UNION {DOMAIN layout : layout \in Layouts}
FSUUIDs == UNION {{layout[x].fsuuid : x \in DOMAIN layout} : layout \in Layouts}

DriveObject ==
  [name : Names, status : {"Ready", "Lost", "Error", "Repairing", "Moving"},
   cond : {"none", "io", "mount", "multiple", "relabel"}, total : Nat \ {0}, free : Int,
   allocated : Int, relabel : BOOLEAN, label : {"", "set"}, unschedulable : BOOLEAN]

VolumeObject ==
  [status : {"none", "gone"} \cup VolumeStatuses, label : {"", "set"}, name : Names \cup {<<>>}]

MountObject ==
  [device : Devices, source : Names, target : Drives \cup {StagingPath(d) : d \in Drives},
   fsuuid : FSUUIDs]

Probed == [name : Names, total : Nat \ {0}]

SyncState ==
  [pc : {"down", "get", "update", "up"}, map : [Drives -> SUBSET Probed] \cup {<< >>},
   todo : Seq(Drives), read : DriveObject \cup {NoObject}]

JobPcs == {"none", "start", "marked", "checked", "unmounted", "repairing", "repaired", "mounted",
           "ended"}
JobState ==
  [pc : JobPcs, tries : {0, 1}, source : Names \cup {<<>>}, device : Devices \cup {NoObject},
   mounted : BOOLEAN]

HostType == host \in Layouts /\ mounts \subseteq MountObject
DriveType == drv \in [Drives -> DriveObject]
VolumeType ==
  /\ vol \in [Drives -> VolumeObject]
  /\ \A d \in Drives : vol[d].status = "none" => vol[d].label = ""
SyncType ==
  /\ sync \in SyncState
  /\ sync.pc \in {"get", "update"} => sync.map \in [Drives -> SUBSET Probed]
  /\ sync.pc = "update" => sync.read \in DriveObject /\ sync.todo # <<>>
CheckType == check # NoCheck => check \in [drive : Drives, read : DriveObject]
JobType ==
  /\ job \in [Drives -> JobState]
  /\ \A d \in Drives :
       job[d].pc \in {"checked", "unmounted", "repairing", "repaired"} => job[d].source \in Names

\* The types of the objects and of everyone's state
TypeOK == HostType /\ DriveType /\ VolumeType /\ SyncType /\ CheckType /\ JobType

\* What is known of a device of the host
LEMMA DeviceOfHost ==
  ASSUME NEW layout \in Layouts, NEW x \in DOMAIN layout
  PROVE  /\ layout[x].name \in Names /\ x \in Devices /\ layout[x].fsuuid \in FSUUIDs
         /\ layout[x].total \in Nat \ {0}
  BY LayoutAssumption DEF Names, Devices, FSUUIDs

\* A probe finds devices that udev knows, with the filesystem.
LEMMA ProbeFinds ==
  ASSUME NEW silent, NEW d \in Drives,
         NEW x \in probeDeviceMap(host, mounts, silent, Drives)[d]
  PROVE  x \in DOMAIN host /\ host[x].inUdev /\ host[x].fsuuid = d
<1>1. PICK e \in probe(host, mounts) :
        e.majorMinor = x /\ Superblock(host, e.majorMinor) = d
  BY DEF probeDeviceMap
<1>2. PICK y \in probeFromUdev(host) : e = newDevice(host, mounts, y)
  BY <1>1 DEF probe
<1>3. e.majorMinor = y
  BY <1>2 DEF newDevice
<1> QED BY <1>1, <1>2, <1>3 DEF probeFromUdev, Superblock

\* A drive as it was made
LEMMA NewDriveType ==
  ASSUME NEW d \in Drives
  PROVE  /\ NewDrive(d) \in DriveObject
         /\ NewDrive(d).free = NewDrive(d).total - 1 /\ NewDrive(d).allocated = 0
<1> DEFINE dev == CHOOSE x \in DOMAIN FirstLayout : FirstLayout[x].fsuuid = d
           total == FirstLayout[dev].total
           free == total - 1
           relabel == d \in Migrated
           label == IF d \in Served THEN "set" ELSE ""
           cordoned == d \in Served
<1>1. dev \in DOMAIN FirstLayout /\ FirstLayout[dev].fsuuid = d
  BY LayoutAssumption
<1>2. FirstLayout[dev].name \in Names /\ total \in Nat \ {0} /\ free \in Int /\ 0 \in Int
  BY <1>1, DeviceOfHost, LayoutAssumption
<1>3. relabel \in BOOLEAN /\ cordoned \in BOOLEAN /\ label \in {"", "set"}
  OBVIOUS
<1>4. NewDrive(d) =
       [name |-> FirstLayout[dev].name, status |-> "Ready", cond |-> "none", total |-> total,
        free |-> free, allocated |-> 0, relabel |-> relabel, label |-> label,
        unschedulable |-> cordoned]
  BY DEF NewDrive
<1>5. free = total - 1
  OBVIOUS
<1> HIDE DEF dev, total, free, relabel, label, cordoned
<1>6. [name |-> FirstLayout[dev].name, status |-> "Ready", cond |-> "none", total |-> total,
       free |-> free, allocated |-> 0, relabel |-> relabel, label |-> label,
       unschedulable |-> cordoned] \in DriveObject
  BY <1>2, <1>3, Zenon DEF DriveObject
<1>7. NewDrive(d) \in DriveObject
  BY <1>4, <1>6, Zenon
<1>8. NewDrive(d).free = NewDrive(d).total - 1 /\ NewDrive(d).allocated = 0
  BY <1>4, <1>5
<1> QED BY <1>7, <1>8

\* The initial state is well typed.
LEMMA TypeInit == DriveSyncInit => TypeOK
<1> SUFFICES ASSUME DriveSyncInit PROVE TypeOK
  OBVIOUS
<1>1. HostType
  BY LayoutAssumption DEF DriveSyncInit, HostType
<1>2. DriveType
  BY NewDriveType DEF DriveSyncInit, DriveType
<1>3. VolumeType
  BY DEF DriveSyncInit, VolumeType, VolumeObject, NoVolume
<1>4. SyncType
  BY DEF DriveSyncInit, SyncType, SyncState, Down
<1>5. CheckType
  BY DEF DriveSyncInit, CheckType
<1>6. JobType
  BY DEF DriveSyncInit, JobType, JobState, NoJob, JobPcs
<1> QED BY <1>1, <1>2, <1>3, <1>4, <1>5, <1>6 DEF TypeOK

-----------------------------------------------------------------------------
(* What becomes of a drive *)

\* Of the fields of a drive, those that only commands set, and those of its capacity
SameMarks(o, p) == p.label = o.label /\ p.unschedulable = o.unschedulable
SameCapacity(o, p) == p.total = o.total /\ p.free = o.free /\ p.allocated = o.allocated

\* verifyDrive
LEMMA MountedChange ==
  ASSUME NEW o \in DriveObject, NEW linked \in BOOLEAN
  PROVE  /\ MountFailed(o) \in DriveObject /\ Mounted(o, linked) \in DriveObject
         /\ SameMarks(o, MountFailed(o)) /\ SameMarks(o, Mounted(o, linked))
         /\ SameCapacity(o, MountFailed(o)) /\ SameCapacity(o, Mounted(o, linked))
         /\ MountFailed(o).status = "Error"
<1>1. /\ MountFailed(o) \in DriveObject /\ SameMarks(o, MountFailed(o))
      /\ SameCapacity(o, MountFailed(o)) /\ MountFailed(o).status = "Error"
  BY DEF MountFailed, DriveObject, SameMarks, SameCapacity
<1> DEFINE cured == o.status = "Lost" \/ (o.status = "Error" /\ o.cond \in {"mount", "multiple", "relabel"})
           s == IF cured THEN "Ready" ELSE o.status
           p == [o EXCEPT !.status = s]
<1>2. s \in {"Ready", "Lost", "Error", "Repairing", "Moving"}
  BY DEF DriveObject
<1>3. p \in DriveObject /\ SameMarks(o, p) /\ SameCapacity(o, p)
  BY <1>2 DEF DriveObject, SameMarks, SameCapacity
<1>4. \/ Mounted(o, linked) = p
      \/ Mounted(o, linked) = [p EXCEPT !.relabel = FALSE]
      \/ Mounted(o, linked) = [p EXCEPT !.status = "Error", !.cond = "relabel"]
  BY DEF Mounted
<1> HIDE DEF p
<1>5. /\ [p EXCEPT !.relabel = FALSE] \in DriveObject /\ SameMarks(p, [p EXCEPT !.relabel = FALSE])
      /\ SameCapacity(p, [p EXCEPT !.relabel = FALSE])
      /\ [p EXCEPT !.status = "Error", !.cond = "relabel"] \in DriveObject
      /\ SameMarks(p, [p EXCEPT !.status = "Error", !.cond = "relabel"])
      /\ SameCapacity(p, [p EXCEPT !.status = "Error", !.cond = "relabel"])
  BY <1>3 DEF DriveObject, SameMarks, SameCapacity
<1> QED BY <1>1, <1>3, <1>4, <1>5 DEF SameMarks, SameCapacity

\* syncDrive: the free capacity is that of the device less what is allocated, unless nothing
\* changed.
LEMMA SyncedChange ==
  ASSUME NEW o \in DriveObject, NEW dev \in Probed
  PROVE  /\ syncDrive(o, dev) \in DriveObject /\ SameMarks(o, syncDrive(o, dev))
         /\ syncDrive(o, dev).status = o.status /\ syncDrive(o, dev).name = dev.name
         /\ syncDrive(o, dev).allocated = o.allocated
         /\ syncDrive(o, dev).total = dev.total
         /\ \/ SameCapacity(o, syncDrive(o, dev))
            \/ syncDrive(o, dev).free = dev.total - o.allocated
            \/ syncDrive(o, dev).free = 0
<1> DEFINE free == IF dev.total > o.allocated THEN dev.total - o.allocated ELSE 0
           f == IF o.total # dev.total THEN free ELSE o.free
           p == [o EXCEPT !.name = dev.name, !.total = dev.total, !.free = f]
<1>1. dev.total \in Nat \ {0} /\ dev.name \in Names /\ o.allocated \in Int /\ o.free \in Int
  BY DEF Probed, DriveObject
<1>2. f \in Int
  BY <1>1
<1>3. (o.total = dev.total /\ f = o.free) \/ f = dev.total - o.allocated \/ f = 0
  OBVIOUS
<1>4. syncDrive(o, dev) = p
  BY DEF syncDrive
<1> HIDE DEF f
<1>5. p \in DriveObject /\ SameMarks(o, p) /\ p.status = o.status /\ p.name = dev.name
      /\ p.allocated = o.allocated /\ p.total = dev.total /\ p.free = f
  BY <1>1, <1>2 DEF DriveObject, SameMarks
<1> QED BY <1>3, <1>4, <1>5 DEF SameCapacity

\* The capacity of a drive stays, or its free capacity is computed from what is allocated.
CapacityChange(o, p) ==
  \/ SameCapacity(o, p)
  \/ p.allocated = o.allocated /\ (p.free = p.total - o.allocated \/ p.free = 0)

\* Nobody but commands changes marks, nobody but volumes takes or gives back capacity.
DrivesKept == \A d \in Drives : SameMarks(drv[d], drv'[d]) /\ CapacityChange(drv[d], drv'[d])

\* A drive that gets another object keeps the others.
LEMMA OneDrive ==
  ASSUME DriveType, NEW d \in Drives, NEW new \in DriveObject, drv' = [drv EXCEPT ![d] = new],
         SameMarks(drv[d], new), CapacityChange(drv[d], new)
  PROVE  DriveType' /\ DrivesKept
<1>1. DriveType'
  BY DEF DriveType
<1>2. drv'[d] = new /\ \A e \in Drives \ {d} : drv'[e] = drv[e]
  BY DEF DriveType
<1> QED BY <1>1, <1>2 DEF DrivesKept, SameMarks, CapacityChange, SameCapacity

\* A step that leaves drives alone
LEMMA NoDrive == ASSUME DriveType, UNCHANGED drv PROVE DriveType' /\ DrivesKept
  BY DEF DriveType, DrivesKept, SameMarks, CapacityChange, SameCapacity

\* The head of what Sync has still to do is a drive, and so is the rest.
LEMMA SyncHead ==
  ASSUME SyncType, sync.todo # <<>>
  PROVE  Head(sync.todo) \in Drives /\ Tail(sync.todo) \in Seq(Drives)
  BY DEF SyncType, SyncState

\* The three ways an update of Sync ends: with a conflict, with nothing to do, done
LEMMA EndUpdateStep ==
  ASSUME TypeOK, sync.pc = "update", NEW d, d = Head(sync.todo), NEW new \in DriveObject,
         EndUpdate(d, new)
  PROVE  /\ SyncType' /\ d \in Drives /\ sync.read \in DriveObject
         /\ sync'.pc = "get" /\ sync'.map = sync.map
         /\ \/ sync'.todo = sync.todo /\ UNCHANGED drv
            \/ sync'.todo = Tail(sync.todo) /\ new = sync.read /\ UNCHANGED drv
            \/ /\ sync'.todo = Tail(sync.todo) /\ drv[d] = sync.read
               /\ drv' = [drv EXCEPT ![d] = new]
<1>1. sync \in SyncState /\ sync.map \in [Drives -> SUBSET Probed] /\ sync.read \in DriveObject
      /\ sync.todo # <<>> /\ SyncType
  BY DEF TypeOK, SyncType
<1>2. d \in Drives /\ Tail(sync.todo) \in Seq(Drives)
  BY <1>1, SyncHead
<1>3. \A todo \in Seq(Drives) :
        LET s == [sync EXCEPT !.pc = "get", !.todo = todo, !.read = NoObject]
        IN  s \in SyncState /\ s.pc = "get" /\ s.map = sync.map /\ s.todo = todo
  BY <1>1 DEF SyncState
<1>4. sync.todo \in Seq(Drives)
  BY <1>1 DEF SyncState
<1>5. CASE /\ new = sync.read \/ drv[d] = sync.read
           /\ drv' = [drv EXCEPT ![d] = IF new = sync.read THEN @ ELSE new]
           /\ sync' = [sync EXCEPT !.pc = "get", !.todo = Tail(@), !.read = NoObject]
  <2>1. sync' = [sync EXCEPT !.pc = "get", !.todo = Tail(sync.todo), !.read = NoObject]
    BY <1>5
  <2>2. sync' \in SyncState /\ sync'.pc = "get" /\ sync'.map = sync.map
        /\ sync'.todo = Tail(sync.todo)
    BY <2>1, <1>2, <1>3
  <2>3. CASE new = sync.read
    <3>1. drv' = drv
      BY <1>5, <2>3 DEF TypeOK, DriveType
    <3> QED BY <1>1, <1>2, <2>2, <2>3, <3>1 DEF SyncType
  <2>4. CASE new # sync.read
    <3>1. drv[d] = sync.read /\ drv' = [drv EXCEPT ![d] = new]
      BY <1>5, <2>4
    <3> QED BY <1>1, <1>2, <2>2, <3>1 DEF SyncType
  <2> QED BY <2>3, <2>4
<1>6. CASE /\ new # sync.read /\ Conflict(d, sync.read)
           /\ sync' = [sync EXCEPT !.pc = "get", !.read = NoObject]
  <2>1. sync' \in SyncState /\ sync'.pc = "get" /\ sync'.map = sync.map
        /\ sync'.todo = sync.todo
    BY <1>1, <1>6 DEF SyncState
  <2> QED BY <1>1, <1>2, <1>6, <2>1 DEF SyncType, Conflict
<1> QED BY <1>5, <1>6 DEF EndUpdate

\* xfs.Mount adds at most one mount, at the directory of the drive, of a device that has
\* the name; when it succeeds something is mounted there.
LEMMA MountStep ==
  ASSUME HostType, UNCHANGED host, NEW name \in Names, NEW d \in Drives, NEW ok \in BOOLEAN,
         Mount(name, d, ok) \/ (ok /\ MountDone(name, d))
  PROVE  /\ HostType' /\ mounts \subseteq mounts'
         /\ \A m \in mounts' \ mounts :
              /\ m.target = d
              /\ \E x \in DOMAIN host : host[x].name = name /\ host[x].fsuuid # NoUUID
                                       /\ m.fsuuid = host[x].fsuuid
         /\ ok => \E m \in mounts' : m.target = d
<1>1. CASE ok /\ AlreadyMounted(mounts, name, d) /\ UNCHANGED mounts
  <2>1. \E m \in mounts : m.target = d
    BY <1>1 DEF AlreadyMounted, FilterByMountSource, FilterByMountPoint
  <2> QED BY <1>1, <2>1 DEF HostType
<1>2. CASE ~ok /\ UNCHANGED mounts
  BY <1>2 DEF HostType
<1>3. ASSUME NEW x \in KernelMounts(name),
             mounts' = mounts \cup {MountEntry(x, name, d, host[x].fsuuid)}
      PROVE  /\ HostType' /\ mounts \subseteq mounts'
             /\ \A m \in mounts' \ mounts :
                  /\ m.target = d
                  /\ \E y \in DOMAIN host : host[y].name = name /\ host[y].fsuuid # NoUUID
                                           /\ m.fsuuid = host[y].fsuuid
             /\ \E m \in mounts' : m.target = d
  <2> DEFINE m == MountEntry(x, name, d, host[x].fsuuid)
  <2>2. x \in DOMAIN host /\ host[x].name = name /\ host[x].fsuuid # NoUUID
    BY DEF KernelMounts
  <2>3. x \in Devices /\ host[x].fsuuid \in FSUUIDs
    BY <2>2, DeviceOfHost DEF HostType
  <2>4. m \in MountObject /\ m.target = d /\ m.fsuuid = host[x].fsuuid
    BY <2>3 DEF MountEntry, MountObject
  <2> QED BY <1>3, <2>2, <2>4 DEF HostType
<1> QED BY <1>1, <1>2, <1>3 DEF Mount, MountDone

-----------------------------------------------------------------------------
(* Types and drives, step by step *)

Kept == TypeOK' /\ DrivesKept

\* The map that Sync probes
LEMMA ProbedMap ==
  ASSUME HostType, NEW silent
  PROVE  [d \in Drives |-> {[name |-> host[x].name, total |-> host[x].total] :
                              x \in probeDeviceMap(host, mounts, silent, Drives)[d]}]
           \in [Drives -> SUBSET Probed]
<1> SUFFICES ASSUME NEW d \in Drives, NEW x \in probeDeviceMap(host, mounts, silent, Drives)[d]
             PROVE  [name |-> host[x].name, total |-> host[x].total] \in Probed
  OBVIOUS
<1>1. x \in DOMAIN host
  BY ProbeFinds
<1> QED BY <1>1, DeviceOfHost DEF HostType, Probed

\* The probe of Sync, which lists drives and devices
LEMMA StartSyncKeeps == ASSUME TypeOK, StartSync PROVE Kept
<1> USE DEF TypeOK
<1>1. DriveType' /\ DrivesKept
  BY NoDrive DEF StartSync
<1>2. HostType' /\ VolumeType' /\ CheckType' /\ JobType'
  BY DEF StartSync, syncFrame, HostType, VolumeType, CheckType, JobType
<1>3. SyncType'
  <2>1. PICK silent \in {{}} \cup {{x} : x \in DOMAIN host} :
          sync' = [pc |-> "get", todo |-> DriveOrder, read |-> NoObject,
                   map |-> [d \in Drives |->
                              {[name |-> host[x].name, total |-> host[x].total] :
                                 x \in probeDeviceMap(host, mounts, silent, Drives)[d]}]]
    BY DEF StartSync
  <2> DEFINE map == [d \in Drives |->
                       {[name |-> host[x].name, total |-> host[x].total] :
                          x \in probeDeviceMap(host, mounts, silent, Drives)[d]}]
  <2>2. map \in [Drives -> SUBSET Probed]
    BY ProbedMap
  <2>3. sync' = [pc |-> "get", todo |-> DriveOrder, read |-> NoObject, map |-> map]
    BY <2>1
  <2> HIDE DEF map
  <2> QED BY <2>2, <2>3, DriveSyncAssumption DEF SyncType, SyncState
<1> QED BY <1>1, <1>2, <1>3 DEF Kept

\* Sync reads the next drive, or goes on without it.
LEMMA GetDriveKeeps == ASSUME TypeOK, GetDrive PROVE Kept
<1> USE DEF TypeOK
<1>1. DriveType' /\ DrivesKept
  BY NoDrive DEF GetDrive
<1>2. HostType' /\ VolumeType' /\ CheckType' /\ JobType'
  BY DEF GetDrive, syncFrame, HostType, VolumeType, CheckType, JobType
<1>3. SyncType'
  <2>1. drv[Head(sync.todo)] \in DriveObject
    BY SyncHead DEF GetDrive, DriveType
  <2>2. sync' = [sync EXCEPT !.pc = "update", !.read = drv[Head(sync.todo)]] /\ sync.pc = "get"
        /\ sync.todo # <<>>
    BY DEF GetDrive
  <2> QED BY <2>1, <2>2 DEF SyncType, SyncState
<1> QED BY <1>1, <1>2, <1>3 DEF Kept

\* Sync at its end
LEMMA EndSyncKeeps == ASSUME TypeOK, EndSync PROVE Kept
<1> USE DEF TypeOK
<1>1. DriveType' /\ DrivesKept
  BY NoDrive DEF EndSync
<1>2. HostType' /\ VolumeType' /\ CheckType' /\ JobType'
  BY DEF EndSync, syncFrame, HostType, VolumeType, CheckType, JobType
<1>3. SyncType'
  BY DEF EndSync, SyncType, SyncState, Down
<1> QED BY <1>1, <1>2, <1>3 DEF Kept

\* Whatever Sync writes is made of what it read.
LEMMA EndUpdateKeeps ==
  ASSUME TypeOK, sync.pc = "update", NEW d, d = Head(sync.todo), NEW new \in DriveObject,
         EndUpdate(d, new), SameMarks(sync.read, new), CapacityChange(sync.read, new)
  PROVE  DriveType' /\ DrivesKept /\ SyncType'
<1>1. DriveType
  BY DEF TypeOK
<1>2. CASE UNCHANGED drv
  BY <1>1, <1>2, NoDrive, EndUpdateStep
<1>3. CASE drv[d] = sync.read /\ drv' = [drv EXCEPT ![d] = new]
  BY <1>1, <1>3, OneDrive, EndUpdateStep
<1> QED BY <1>2, <1>3, EndUpdateStep

\* What Sync makes of the drive it read: lost or with several devices, only as the device
\* is, or mounted
SyncMakes(d, new) ==
  /\ EndUpdate(d, new) /\ SameMarks(sync.read, new) /\ CapacityChange(sync.read, new)
  /\ \/ /\ UNCHANGED mounts /\ new.status # "Ready"
        /\ sync.read.status = "Repairing" => d \in moved'
        /\ moved \subseteq moved'
     \/ /\ UNCHANGED <<mounts, moved>>
        /\ new.status = sync.read.status /\ sync.read.status \notin Verified
     \/ /\ UNCHANGED moved /\ sync.read.status \in Verified
        /\ \E dev \in sync.map[d], ok \in BOOLEAN :
             Mount(dev.name, d, ok) /\ (new.status = "Ready" => ok)

\* What an update of Sync makes of a drive and of mounts: UpdateMakes
LEMMA UpdateDriveMakes ==
  ASSUME TypeOK, UpdateDrive
  PROVE  /\ sync.pc = "update" /\ Head(sync.todo) \in Drives /\ sync.read \in DriveObject
         /\ sync.map \in [Drives -> SUBSET Probed]
         /\ \E new \in DriveObject : SyncMakes(Head(sync.todo), new)
<1> DEFINE d == Head(sync.todo)
<1>1. /\ sync.pc = "update" /\ d \in Drives /\ sync.read \in DriveObject
      /\ sync.map \in [Drives -> SUBSET Probed]
  BY SyncHead DEF TypeOK, UpdateDrive, SyncType
<1> SUFFICES \E new \in DriveObject : SyncMakes(d, new)
  BY <1>1
<1> HIDE DEF d
<1>2. CASE UpdateLost(d)
  <2> DEFINE new == [sync.read EXCEPT !.status = "Lost"]
  <2>1. new \in DriveObject /\ SameMarks(sync.read, new) /\ SameCapacity(sync.read, new)
        /\ new.status = "Lost"
    BY <1>1 DEF DriveObject, SameMarks, SameCapacity
  <2> QED BY <1>2, <2>1 DEF UpdateLost, UpdateUnverified, CapacityChange, SyncMakes
<1>3. CASE UpdateMultiple(d)
  <2> DEFINE new == [sync.read EXCEPT !.status = "Error", !.cond = "multiple"]
  <2>1. new \in DriveObject /\ SameMarks(sync.read, new) /\ SameCapacity(sync.read, new)
        /\ new.status = "Error"
    BY <1>1 DEF DriveObject, SameMarks, SameCapacity
  <2> QED BY <1>3, <2>1 DEF UpdateMultiple, UpdateUnverified, CapacityChange, SyncMakes
<1>4. CASE UpdateFound(d)
  <2>1. PICK dev \in sync.map[d] :
          LET o == syncDrive(sync.read, dev)
          IN  /\ \/ o.status \notin Verified /\ EndUpdate(d, o) /\ UNCHANGED <<mounts, events>>
                 \/ o.status \in Verified /\ Mount(o.name, d, FALSE) /\ EndUpdate(d, MountFailed(o))
                 \/ /\ o.status \in Verified
                    /\ \E linked \in BOOLEAN :
                         Mount(o.name, d, TRUE) /\ EndUpdate(d, Mounted(o, linked))
              /\ UNCHANGED moved
    BY <1>4 DEF UpdateFound
  <2> DEFINE o == syncDrive(sync.read, dev)
  <2>2. dev \in Probed
    BY <1>1
  <2>3. /\ o \in DriveObject /\ SameMarks(sync.read, o) /\ o.status = sync.read.status
        /\ o.name = dev.name /\ CapacityChange(sync.read, o)
    BY <1>1, <2>2, SyncedChange DEF CapacityChange
  <2> HIDE DEF o
  <2>4. CASE o.status \notin Verified /\ EndUpdate(d, o) /\ UNCHANGED mounts
    BY <2>1, <2>3, <2>4 DEF SyncMakes
  <2>5. CASE o.status \in Verified /\ Mount(o.name, d, FALSE) /\ EndUpdate(d, MountFailed(o))
    <3>1. /\ MountFailed(o) \in DriveObject /\ SameMarks(sync.read, MountFailed(o))
          /\ CapacityChange(sync.read, MountFailed(o)) /\ MountFailed(o).status = "Error"
      BY <2>3, MountedChange DEF SameMarks, CapacityChange, SameCapacity
    <3> QED BY <2>1, <2>3, <2>5, <3>1 DEF SyncMakes
  <2>6. ASSUME o.status \in Verified, NEW linked \in BOOLEAN, Mount(o.name, d, TRUE),
               EndUpdate(d, Mounted(o, linked))
        PROVE  \E new \in DriveObject : SyncMakes(d, new)
    <3>1. /\ Mounted(o, linked) \in DriveObject /\ SameMarks(sync.read, Mounted(o, linked))
          /\ CapacityChange(sync.read, Mounted(o, linked))
      BY <2>3, MountedChange DEF SameMarks, CapacityChange, SameCapacity
    <3> QED BY <2>1, <2>3, <2>6, <3>1 DEF SyncMakes
  <2> QED BY <2>1, <2>4, <2>5, <2>6 DEF o
<1> QED BY <1>2, <1>3, <1>4 DEF UpdateDrive, d

\* An update of Sync keeps the types and the capacity.
LEMMA UpdateDriveKeeps == ASSUME TypeOK, UpdateDrive PROVE Kept
<1> DEFINE d == Head(sync.todo)
<1>1. /\ sync.pc = "update" /\ d \in Drives /\ sync.read \in DriveObject
      /\ sync.map \in [Drives -> SUBSET Probed]
  BY UpdateDriveMakes
<1>2. PICK new \in DriveObject :
        /\ EndUpdate(d, new) /\ SameMarks(sync.read, new) /\ CapacityChange(sync.read, new)
        /\ \/ UNCHANGED mounts
           \/ \E dev \in sync.map[d], ok \in BOOLEAN : Mount(dev.name, d, ok)
  BY UpdateDriveMakes DEF SyncMakes
<1>3. DriveType' /\ DrivesKept /\ SyncType'
  BY <1>1, <1>2, EndUpdateKeeps
<1>4. UNCHANGED <<host, vol, check, job>>
  BY DEF UpdateDrive
<1>5. HostType'
  <2>1. CASE UNCHANGED mounts
    BY <1>4, <2>1 DEF TypeOK, HostType
  <2>2. ASSUME NEW dev \in sync.map[d], NEW ok \in BOOLEAN, Mount(dev.name, d, ok)
        PROVE  HostType'
    <3>1. dev.name \in Names
      BY <1>1 DEF Probed
    <3> QED BY <1>1, <1>4, <2>2, <3>1, MountStep DEF TypeOK
  <2> QED BY <1>2, <2>1, <2>2
<1>6. VolumeType' /\ CheckType' /\ JobType'
  BY <1>4 DEF TypeOK, VolumeType, CheckType, JobType
<1> QED BY <1>3, <1>5, <1>6 DEF Kept, TypeOK

\* checkDrive takes a drive as the informer has it.
LEMMA StartCheckKeeps == ASSUME TypeOK, NEW d \in Drives, StartCheck(d) PROVE Kept
<1> USE DEF TypeOK
<1>1. DriveType' /\ DrivesKept
  BY NoDrive DEF StartCheck
<1>2. HostType' /\ VolumeType' /\ SyncType' /\ JobType'
  BY DEF StartCheck, checkFrame, HostType, VolumeType, SyncType, JobType
<1>3. CheckType'
  BY DEF StartCheck, CheckType, DriveType
<1> QED BY <1>1, <1>2, <1>3 DEF Kept

\* What checkDrive makes of the drive: it was Ready and has an error or is lost, or it was
\* Lost and is mounted.  A drive that is not Ready is left alone but for an error.
CheckMakes(d, new) ==
  \/ UNCHANGED <<drv, mounts, moved>>
  \/ /\ drv' = [drv EXCEPT ![d] = new] /\ new.status = "Error" /\ UNCHANGED mounts
     /\ moved \subseteq moved' /\ (drv[d].status = "Repairing" => d \in moved')
  \/ /\ UNCHANGED <<mounts, moved>> /\ drv[d].status = "Ready"
     /\ drv' = [drv EXCEPT ![d] = new] /\ new.status = "Lost"
  \/ /\ UNCHANGED moved
     /\ \E x \in ByUUID(host, d), ok \in BOOLEAN :
          /\ Mount(host[x].name, d, ok)
          /\ \/ UNCHANGED drv
             \/ drv[d].status = "Lost" /\ drv' = [drv EXCEPT ![d] = new]
                  /\ (new.status = "Ready" => ok)

\* What checkDrive makes of a drive and of mounts: CheckMakes
LEMMA CheckDriveMakes ==
  ASSUME TypeOK, CheckDrive
  PROVE  /\ check.drive \in Drives
         /\ \E new \in DriveObject :
              /\ CheckMakes(check.drive, new)
              /\ SameMarks(drv[check.drive], new) /\ SameCapacity(drv[check.drive], new)
<1> DEFINE d == check.drive
<1>1. d \in Drives /\ check.read \in DriveObject /\ drv[d] \in DriveObject
  BY DEF CheckDrive, TypeOK, CheckType, DriveType
<1> SUFFICES \E new \in DriveObject :
               CheckMakes(d, new) /\ SameMarks(drv[d], new) /\ SameCapacity(drv[d], new)
  BY <1>1
<1> HIDE DEF d
<1>2. CASE UNCHANGED <<drv, mounts, moved>>
  BY <1>1, <1>2 DEF CheckMakes, SameMarks, SameCapacity
<1>3. CASE SetIOError(d) /\ UNCHANGED mounts
  <2> DEFINE new == [drv[d] EXCEPT !.status = "Error", !.cond = "io"]
  <2>1. new \in DriveObject /\ SameMarks(drv[d], new) /\ SameCapacity(drv[d], new)
        /\ new.status = "Error"
    BY <1>1 DEF DriveObject, SameMarks, SameCapacity
  <2>2. drv' = [drv EXCEPT ![d] = new]
    BY <1>3 DEF SetIOError
  <2> HIDE DEF new
  <2>3. moved \subseteq moved' /\ (drv[d].status = "Repairing" => d \in moved')
    BY <1>3 DEF SetIOError
  <2> QED BY <1>3, <2>1, <2>2, <2>3 DEF CheckMakes
<1>4. CASE /\ check.read.status = "Ready" /\ UNCHANGED <<mounts, moved>>
           /\ TryUpdate(d, [check.read EXCEPT !.status = "Lost"])
  <2> DEFINE new == [check.read EXCEPT !.status = "Lost"]
  <2>1. new \in DriveObject /\ SameMarks(check.read, new) /\ SameCapacity(check.read, new)
        /\ new.status = "Lost"
    BY <1>1 DEF DriveObject, SameMarks, SameCapacity
  <2> HIDE DEF new
  <2>2. CASE UNCHANGED drv
    BY <1>2, <1>4, <2>2
  <2>3. CASE drv[d] = check.read /\ drv' = [drv EXCEPT ![d] = new]
    BY <1>4, <2>1, <2>3 DEF CheckMakes
  <2> QED BY <1>4, <2>2, <2>3 DEF TryUpdate, Update, Conflict, new
<1>5. CASE CheckLost(d)
  <2>1. CASE UNCHANGED <<mounts, drv, events>>
    BY <1>2, <1>5, <2>1 DEF CheckLost
  <2>2. ASSUME NEW x \in ByUUID(host, d), NEW ok \in BOOLEAN, Mount(host[x].name, d, ok),
               LET o == [check.read EXCEPT !.name = host[x].name]
               IN  TryUpdate(d, IF ok THEN [o EXCEPT !.status = "Ready"] ELSE MountFailed(o))
        PROVE  \E new \in DriveObject :
                 CheckMakes(d, new) /\ SameMarks(drv[d], new) /\ SameCapacity(drv[d], new)
    <3> DEFINE o == [check.read EXCEPT !.name = host[x].name]
               new == IF ok THEN [o EXCEPT !.status = "Ready"] ELSE MountFailed(o)
    <3>1. host[x].name \in Names
      BY DeviceOfHost DEF ByUUID, probeFromUdev, TypeOK, HostType
    <3>2. o \in DriveObject /\ SameMarks(check.read, o) /\ SameCapacity(check.read, o)
      BY <1>1, <3>1 DEF DriveObject, SameMarks, SameCapacity
    <3> HIDE DEF o
    <3>3. /\ [o EXCEPT !.status = "Ready"] \in DriveObject
          /\ SameMarks(o, [o EXCEPT !.status = "Ready"])
          /\ SameCapacity(o, [o EXCEPT !.status = "Ready"])
      BY <3>2 DEF DriveObject, SameMarks, SameCapacity
    <3>4. /\ new \in DriveObject /\ SameMarks(check.read, new) /\ SameCapacity(check.read, new)
          /\ new.status = "Ready" => ok
      BY <3>2, <3>3, MountedChange DEF SameMarks, SameCapacity
    <3>5. TryUpdate(d, new)
      BY <2>2 DEF o
    <3> HIDE DEF new
    <3>6. check.read.status = "Lost" /\ UNCHANGED moved
      BY <1>5 DEF CheckLost
    <3>7. CASE UNCHANGED drv
      <4>1. CheckMakes(d, drv[d])
        BY <2>2, <3>6, <3>7 DEF CheckMakes
      <4> QED BY <1>1, <4>1 DEF SameMarks, SameCapacity
    <3>8. CASE drv[d] = check.read /\ drv' = [drv EXCEPT ![d] = new]
      <4>1. CheckMakes(d, new)
        BY <2>2, <3>4, <3>6, <3>8 DEF CheckMakes
      <4> QED BY <3>4, <3>8, <4>1
    <3> QED BY <3>5, <3>7, <3>8 DEF TryUpdate, Update, Conflict
  <2> QED BY <1>5, <2>1, <2>2 DEF CheckLost
<1>6. CheckReady(d) => \/ UNCHANGED <<drv, mounts, moved>>
                       \/ SetIOError(d) /\ UNCHANGED mounts
                       \/ /\ check.read.status = "Ready" /\ UNCHANGED <<mounts, moved>>
                          /\ TryUpdate(d, [check.read EXCEPT !.status = "Lost"])
  BY DEF CheckReady
<1> QED BY <1>2, <1>3, <1>4, <1>5, <1>6 DEF CheckDrive, d

\* checkDrive keeps the types and the capacity.
LEMMA CheckDriveKeeps == ASSUME TypeOK, CheckDrive PROVE Kept
<1> DEFINE d == check.drive
<1>1. PICK new \in DriveObject :
        CheckMakes(d, new) /\ SameMarks(drv[d], new) /\ SameCapacity(drv[d], new)
  BY CheckDriveMakes
<1>2. d \in Drives /\ check' = NoCheck /\ UNCHANGED <<host, vol, sync, job>>
  BY CheckDriveMakes DEF CheckDrive, checkFrame
<1> HIDE DEF d
<1>3. DriveType' /\ DrivesKept
  <2>1. CASE UNCHANGED drv
    BY <2>1, NoDrive DEF TypeOK
  <2>2. CASE drv' = [drv EXCEPT ![d] = new]
    BY <1>1, <1>2, <2>2, OneDrive DEF TypeOK, CapacityChange
  <2> QED BY <1>1, <2>1, <2>2 DEF CheckMakes
<1>4. HostType'
  <2>1. CASE UNCHANGED mounts
    BY <1>2, <2>1 DEF TypeOK, HostType
  <2>2. ASSUME NEW x \in ByUUID(host, d), NEW ok \in BOOLEAN, Mount(host[x].name, d, ok)
        PROVE  HostType'
    <3>1. host[x].name \in Names
      BY DeviceOfHost DEF ByUUID, probeFromUdev, TypeOK, HostType
    <3> QED BY <1>2, <2>2, <3>1, MountStep DEF TypeOK
  <2> QED BY <1>1, <2>1, <2>2 DEF CheckMakes
<1>5. VolumeType' /\ SyncType' /\ CheckType' /\ JobType'
  BY <1>2 DEF TypeOK, VolumeType, SyncType, CheckType, JobType
<1> QED BY <1>3, <1>4, <1>5 DEF Kept, TypeOK

\* A job that gets another state keeps the others.
LEMMA OneJob ==
  ASSUME JobType, NEW d \in Drives, NEW new \in JobState, job' = [job EXCEPT ![d] = new],
         new.pc \in {"checked", "unmounted", "repairing", "repaired"} => new.source \in Names
  PROVE  JobType' /\ job'[d] = new /\ \A e \in Drives \ {d} : job'[e] = job[e]
<1>1. job' \in [Drives -> JobState] /\ job'[d] = new /\ \A e \in Drives \ {d} : job'[e] = job[e]
  BY DEF JobType
<1> QED BY <1>1 DEF JobType

\* A pod that fails is started once more, or the job is at its end.
LEMMA FailPodStep ==
  ASSUME JobType, NEW d \in Drives, FailPod(d)
  PROVE  /\ JobType' /\ job'[d].pc \in {"start", "ended"}
         /\ \A e \in Drives \ {d} : job'[e] = job[e]
<1> DEFINE new == [NoJob EXCEPT !.pc = IF job[d].tries = 0 THEN "start" ELSE "ended", !.tries = 1]
<1>1. new \in JobState /\ new.pc \in {"start", "ended"}
  BY DEF NoJob, JobState, JobPcs
<1>2. job' = [job EXCEPT ![d] = new]
  BY DEF FailPod
<1> HIDE DEF new
<1> QED BY <1>1, <1>2, OneJob

\* A job that goes on to its next step
LEMMA GotoStep ==
  ASSUME JobType, NEW d \in Drives, NEW pc \in JobPcs, Goto(d, pc),
         pc \in {"checked", "unmounted", "repairing", "repaired"} => job[d].source \in Names
  PROVE  /\ JobType' /\ job'[d].pc = pc /\ job'[d].source = job[d].source
         /\ job'[d].mounted = job[d].mounted
         /\ \A e \in Drives \ {d} : job'[e] = job[e]
<1> DEFINE new == [job[d] EXCEPT !.pc = pc]
<1>1. /\ new \in JobState /\ new.pc = pc /\ new.source = job[d].source
      /\ new.mounted = job[d].mounted
  BY DEF JobType, JobState
<1>2. job' = [job EXCEPT ![d] = new]
  BY DEF Goto
<1> HIDE DEF new
<1> QED BY <1>1, <1>2, OneJob

\* What a step of a job does: fail, wait for its end and be removed, or go on from one place
\* to the next.  It changes the drive where it marks it and where it sets its status.
JobMakes(d) ==
  /\ UNCHANGED <<host, vol, sync, check, moved>>
  /\ \A e \in Drives \ {d} : job'[e] = job[e]
  /\ \/ job'[d].pc \in {"none", "start", "ended"} /\ UNCHANGED <<drv, mounts>>
     \/ /\ job'[d].pc = "marked" /\ UNCHANGED mounts
        /\ drv' = [drv EXCEPT ![d] = [drv[d] EXCEPT !.status = "Repairing"]]
     \/ /\ job[d].pc = "marked" /\ job'[d].pc = "checked" /\ UNCHANGED <<drv, mounts>>
        /\ \E x \in ByUUID(host, d) : job'[d].source = host[x].name
     \/ /\ job[d].pc = "checked" /\ job'[d].pc = "unmounted" /\ UNCHANGED drv
        /\ job'[d].source = job[d].source /\ mounts' = Unmounted(mounts, d)
     \/ /\ job[d].pc \in {"unmounted", "repairing"} /\ job'[d].pc \in {"repairing", "repaired"}
        /\ job'[d].source = job[d].source /\ UNCHANGED <<drv, mounts>>
     \/ /\ job[d].pc = "repaired" /\ job'[d].pc = "mounted" /\ UNCHANGED drv
        /\ job'[d].mounted \in BOOLEAN /\ Mount(job[d].source, d, job'[d].mounted)
     \/ /\ job[d].pc = "mounted" /\ job'[d].pc = "ended" /\ UNCHANGED mounts
        /\ drv' = [drv EXCEPT ![d] = IF job[d].mounted THEN [drv[d] EXCEPT !.status = "Ready"]
                                     ELSE MountFailed(drv[d])]

\* What a repair job makes of a drive, of mounts and of itself: JobMakes
LEMMA JobStepMakes ==
  ASSUME TypeOK, NEW d \in Drives, JobStep(d)
  PROVE  JobMakes(d) /\ JobType'
<1>1. JobType /\ job[d] \in JobState
  BY DEF TypeOK, JobType
<1>2. CASE startRepair(d)
  <2>1. drv' = [drv EXCEPT ![d] = [drv[d] EXCEPT !.status = "Repairing"]]
    BY <1>2 DEF startRepair
  <2>2. Goto(d, "marked")
    BY <1>2 DEF startRepair
  <2>3. /\ JobType' /\ job'[d].pc = "marked" /\ \A e \in Drives \ {d} : job'[e] = job[e]
    BY <1>1, <2>2, GotoStep DEF JobPcs
  <2> QED BY <1>2, <2>1, <2>3 DEF startRepair, jobFrame, JobMakes
<1>3. CASE CheckMounts(d)
  <2>1. CASE FailPod(d)
    BY <1>1, <1>3, <2>1, FailPodStep DEF CheckMounts, jobFrame, JobMakes
  <2>2. ASSUME NEW x \in ByUUID(host, d),
               job' = [job EXCEPT ![d].pc = "checked", ![d].source = host[x].name]
        PROVE  JobMakes(d) /\ JobType'
    <3> DEFINE new == [job[d] EXCEPT !.pc = "checked", !.source = host[x].name]
    <3>1. host[x].name \in Names
      BY DeviceOfHost DEF ByUUID, probeFromUdev, TypeOK, HostType
    <3>2. new \in JobState /\ new.pc = "checked" /\ new.source = host[x].name
      BY <1>1, <3>1 DEF JobState, JobPcs
    <3>3. job' = [job EXCEPT ![d] = new]
      BY <2>2
    <3> HIDE DEF new
    <3>4. JobType' /\ job'[d] = new /\ \A e \in Drives \ {d} : job'[e] = job[e]
      BY <1>1, <3>1, <3>2, <3>3, OneJob
    <3> QED BY <1>3, <2>2, <3>2, <3>4 DEF CheckMounts, jobFrame, JobMakes
  <2> QED BY <1>3, <2>1, <2>2 DEF CheckMounts
<1>10. CASE UnmountDrive(d)
  <2>1. Goto(d, "unmounted") /\ job[d].source \in Names
    BY <1>1, <1>10 DEF UnmountDrive, JobType
  <2>2. /\ JobType' /\ job'[d].pc = "unmounted" /\ job'[d].source = job[d].source
        /\ \A e \in Drives \ {d} : job'[e] = job[e]
    BY <1>1, <2>1, GotoStep DEF JobPcs
  <2> QED BY <1>10, <2>2 DEF UnmountDrive, jobFrame, JobMakes
<1>4. CASE StartRepair(d)
  <2>1. CASE FailPod(d)
    BY <1>1, <1>4, <2>1, FailPodStep DEF StartRepair, jobFrame, JobMakes
  <2>2. ASSUME NEW x \in DOMAIN host,
               job' = [job EXCEPT ![d].pc = "repairing", ![d].device = x]
        PROVE  JobMakes(d) /\ JobType'
    <3> DEFINE new == [job[d] EXCEPT !.pc = "repairing", !.device = x]
    <3>1. x \in Devices
      BY DeviceOfHost DEF TypeOK, HostType
    <3>2. new \in JobState /\ new.pc = "repairing" /\ new.source = job[d].source
      BY <1>1, <3>1 DEF JobState, JobPcs
    <3>3. job' = [job EXCEPT ![d] = new]
      BY <2>2
    <3> HIDE DEF new
    <3>4. job[d].source \in Names
      BY <1>1, <1>4 DEF StartRepair, JobType
    <3>5. JobType' /\ job'[d] = new /\ \A e \in Drives \ {d} : job'[e] = job[e]
      BY <1>1, <3>2, <3>3, <3>4, OneJob
    <3> QED BY <1>4, <3>2, <3>5 DEF StartRepair, jobFrame, JobMakes
  <2> QED BY <1>4, <2>1, <2>2 DEF StartRepair
<1>5. CASE EndRepair(d)
  <2>1. Goto(d, "repaired") /\ job[d].source \in Names
    BY <1>1, <1>5 DEF EndRepair, JobType
  <2>2. /\ JobType' /\ job'[d].pc = "repaired" /\ job'[d].source = job[d].source
        /\ \A e \in Drives \ {d} : job'[e] = job[e]
    BY <1>1, <2>1, GotoStep DEF JobPcs
  <2> QED BY <1>5, <2>2 DEF EndRepair, jobFrame, JobMakes
<1>6. CASE MountRepaired(d)
  <2>1. PICK ok \in BOOLEAN :
          Mount(job[d].source, d, ok) /\ job' = [job EXCEPT ![d].pc = "mounted", ![d].mounted = ok]
    BY <1>6 DEF MountRepaired
  <2> DEFINE new == [job[d] EXCEPT !.pc = "mounted", !.mounted = ok]
  <2>2. new \in JobState /\ new.pc = "mounted" /\ new.mounted = ok
    BY <1>1 DEF JobState, JobPcs
  <2>3. job' = [job EXCEPT ![d] = new]
    BY <2>1
  <2> HIDE DEF new
  <2>4. JobType' /\ job'[d] = new /\ \A e \in Drives \ {d} : job'[e] = job[e]
    BY <1>1, <2>2, <2>3, OneJob
  <2> QED BY <1>6, <2>1, <2>2, <2>4 DEF MountRepaired, jobFrame, JobMakes
<1>7. CASE SetRepaired(d)
  <2> DEFINE new == [NoJob EXCEPT !.pc = "ended"]
  <2>1. new \in JobState /\ new.pc = "ended"
    BY DEF NoJob, JobState, JobPcs
  <2>2. job' = [job EXCEPT ![d] = new]
    BY <1>7 DEF SetRepaired
  <2> HIDE DEF new
  <2>3. JobType' /\ job'[d] = new /\ \A e \in Drives \ {d} : job'[e] = job[e]
    BY <1>1, <2>1, <2>2, OneJob
  <2>4. drv' = [drv EXCEPT ![d] = IF job[d].mounted THEN [drv[d] EXCEPT !.status = "Ready"]
                                  ELSE MountFailed(drv[d])]
    BY <1>7 DEF SetRepaired
  <2> QED BY <1>7, <2>1, <2>3, <2>4 DEF SetRepaired, jobFrame, JobMakes
<1>8. CASE JobFails(d)
  BY <1>1, <1>8, FailPodStep DEF JobFails, jobFrame, JobMakes
<1>9. CASE JobExpires(d)
  <2>1. NoJob \in JobState /\ NoJob.pc = "none"
    BY DEF NoJob, JobState, JobPcs
  <2>2. JobType' /\ job'[d] = NoJob /\ \A e \in Drives \ {d} : job'[e] = job[e]
    BY <1>1, <1>9, <2>1, OneJob DEF JobExpires
  <2> QED BY <1>9, <2>1, <2>2 DEF JobExpires, jobFrame, JobMakes
<1> QED BY <1>2, <1>3, <1>4, <1>5, <1>6, <1>7, <1>8, <1>9, <1>10 DEF JobStep

\* A repair job keeps the types and the capacity.
LEMMA JobStepKeeps == ASSUME TypeOK, NEW d \in Drives, JobStep(d) PROVE Kept
<1>1. JobMakes(d) /\ JobType'
  BY JobStepMakes
<1>2. drv[d] \in DriveObject /\ DriveType
  BY DEF TypeOK, DriveType
<1>3. DriveType' /\ DrivesKept
  <2>1. CASE UNCHANGED drv
    BY <2>1, NoDrive, <1>2
  <2>2. CASE drv' = [drv EXCEPT ![d] = [drv[d] EXCEPT !.status = "Repairing"]]
    <3> DEFINE new == [drv[d] EXCEPT !.status = "Repairing"]
    <3>1. new \in DriveObject /\ SameMarks(drv[d], new) /\ SameCapacity(drv[d], new)
      BY <1>2 DEF DriveObject, SameMarks, SameCapacity
    <3> HIDE DEF new
    <3> QED BY <1>2, <2>2, <3>1, OneDrive DEF CapacityChange, new
  <2>3. CASE drv' = [drv EXCEPT ![d] = IF job[d].mounted THEN [drv[d] EXCEPT !.status = "Ready"]
                                       ELSE MountFailed(drv[d])]
    <3> DEFINE new == IF job[d].mounted THEN [drv[d] EXCEPT !.status = "Ready"]
                      ELSE MountFailed(drv[d])
    <3>1. new \in DriveObject /\ SameMarks(drv[d], new) /\ SameCapacity(drv[d], new)
      BY <1>2 DEF DriveObject, SameMarks, SameCapacity, MountFailed
    <3> HIDE DEF new
    <3> QED BY <1>2, <2>3, <3>1, OneDrive DEF CapacityChange, new
  <2> QED BY <1>1, <2>1, <2>2, <2>3 DEF JobMakes
<1>4. HostType'
  <2>1. CASE UNCHANGED mounts
    BY <1>1, <2>1 DEF JobMakes, TypeOK, HostType
  <2>2. CASE mounts' = Unmounted(mounts, d)
    BY <1>1, <2>2 DEF JobMakes, TypeOK, HostType, Unmounted
  <2>3. CASE job[d].pc = "repaired" /\ job'[d].mounted \in BOOLEAN
             /\ Mount(job[d].source, d, job'[d].mounted)
    <3>1. job[d].source \in Names
      BY <2>3 DEF TypeOK, JobType
    <3> QED BY <1>1, <2>3, <3>1, MountStep DEF JobMakes, TypeOK
  <2> QED BY <1>1, <2>1, <2>2, <2>3 DEF JobMakes
<1>5. VolumeType' /\ SyncType' /\ CheckType'
  BY <1>1 DEF JobMakes, TypeOK, VolumeType, SyncType, CheckType
<1> QED BY <1>1, <1>3, <1>4, <1>5 DEF Kept, TypeOK

-----------------------------------------------------------------------------
(* Volumes and capacity *)

Taken(v) == IF v.status \in VolumeStatuses THEN 1 ELSE 0

\* What is free and what is taken fit on the drive, and what is allocated covers what is
\* taken, which is what free capacity is computed from.
Covered(o, v) == o.free + Taken(v) <= o.total /\ o.allocated >= Taken(v)
CapacityInv == \A d \in Drives : Covered(drv[d], vol[d])

\* A volume keeps its label as long as there is one, and is not made again.
VolumesKept ==
  \A d \in Drives :
    /\ vol'[d].label = vol[d].label \/ vol'[d].status = "gone"
    /\ vol[d].status # "none" =>
         /\ vol'[d].status # "none"
         /\ vol'[d].status \in VolumeStatuses => vol[d].status \in VolumeStatuses

MarksKept == \A d \in Drives : SameMarks(drv[d], drv'[d])

\* What every step but that of a command keeps
StepKeeps == TypeOK' /\ MarksKept /\ VolumesKept /\ (CapacityInv => CapacityInv')

\* Capacity that is computed anew is covered, as no filesystem is empty.
LEMMA CoveredAnew ==
  ASSUME NEW o \in DriveObject, NEW p \in DriveObject, NEW v, NEW w,
         CapacityChange(o, p), Covered(o, v), Taken(v) = Taken(w)
  PROVE  Covered(p, w)
<1>1. /\ o.free \in Int /\ o.allocated \in Int /\ p.free \in Int /\ p.allocated \in Int
      /\ o.total \in Nat \ {0} /\ p.total \in Nat \ {0}
  BY DEF DriveObject
<1>2. Taken(v) \in {0, 1}
  BY DEF Taken
<1>3. o.free + Taken(v) <= o.total /\ o.allocated >= Taken(v)
  BY DEF Covered
<1>4. p.free + Taken(v) <= p.total /\ p.allocated >= Taken(v)
  <2>1. CASE SameCapacity(o, p)
    BY <1>3, <2>1 DEF SameCapacity
  <2>2. CASE p.allocated = o.allocated /\ p.free = p.total - o.allocated
    BY <1>1, <1>2, <1>3, <2>2
  <2>3. CASE p.allocated = o.allocated /\ p.free = 0
    BY <1>1, <1>2, <1>3, <2>3
  <2> QED BY <2>1, <2>2, <2>3 DEF CapacityChange
<1> QED BY <1>4 DEF Covered

\* A step that leaves volumes alone
LEMMA VolumesAlone == ASSUME TypeOK, Kept, UNCHANGED vol PROVE StepKeeps
<1>1. VolumesKept
  BY DEF VolumesKept
<1>2. MarksKept
  BY DEF Kept, DrivesKept, MarksKept
<1>3. ASSUME CapacityInv PROVE CapacityInv'
  <2> SUFFICES ASSUME NEW d \in Drives PROVE Covered(drv'[d], vol[d])
    BY DEF CapacityInv
  <2>1. drv[d] \in DriveObject /\ drv'[d] \in DriveObject
    BY DEF Kept, TypeOK, DriveType
  <2>2. CapacityChange(drv[d], drv'[d]) /\ Covered(drv[d], vol[d])
    BY <1>3 DEF Kept, DrivesKept, CapacityInv
  <2> QED BY <2>1, <2>2, CoveredAnew
<1> QED BY <1>1, <1>2, <1>3 DEF StepKeeps, Kept

\* A step of the volume of one drive, which has the capacity it takes
LEMMA OneVolume ==
  ASSUME TypeOK, NEW d \in Drives, NEW v \in VolumeObject, NEW o \in DriveObject,
         vol' = [vol EXCEPT ![d] = v], drv' = [drv EXCEPT ![d] = o], HostType',
         UNCHANGED <<sync, check, job>>, v.status # "none", SameMarks(drv[d], o),
         v.label = vol[d].label \/ v.status = "gone",
         vol[d].status # "none" /\ v.status \in VolumeStatuses => vol[d].status \in VolumeStatuses,
         Covered(drv[d], vol[d]) => Covered(o, v)
  PROVE  StepKeeps
<1>1. vol'[d] = v /\ drv'[d] = o
      /\ \A e \in Drives \ {d} : vol'[e] = vol[e] /\ drv'[e] = drv[e]
  BY DEF TypeOK, VolumeType, DriveType
<1>2. VolumeType' /\ DriveType'
  <2>1. vol' \in [Drives -> VolumeObject] /\ drv' \in [Drives -> DriveObject]
    BY DEF TypeOK, VolumeType, DriveType
  <2> QED BY <1>1, <2>1 DEF TypeOK, VolumeType, DriveType
<1>3. SyncType' /\ CheckType' /\ JobType'
  BY DEF TypeOK, SyncType, CheckType, JobType
<1>4. MarksKept
  BY <1>1 DEF MarksKept, SameMarks
<1>5. VolumesKept
  BY <1>1 DEF VolumesKept
<1>6. ASSUME CapacityInv PROVE CapacityInv'
  BY <1>1, <1>6 DEF CapacityInv
<1> QED BY <1>2, <1>3, <1>4, <1>5, <1>6 DEF StepKeeps, TypeOK

\* Reservation, staging, unstaging, release and deletion of a volume
LEMMA VolumeStepKeeps == ASSUME TypeOK, NEW d \in Drives, VolumeStep(d) PROVE StepKeeps
<1>1. drv[d] \in DriveObject /\ vol[d] \in VolumeObject
  BY DEF TypeOK, DriveType, VolumeType
<1>7. drv = [drv EXCEPT ![d] = drv[d]]
  BY DEF TypeOK, DriveType
<1>2. CASE Reserve(d)
  <2> DEFINE o == [drv[d] EXCEPT !.free = drv[d].free - 1, !.allocated = drv[d].allocated + 1]
             v == [status |-> "pending", label |-> "", name |-> drv[d].name]
  <2>1. v \in VolumeObject /\ v.status = "pending" /\ v.label = ""
    BY <1>1 DEF DriveObject, VolumeObject, VolumeStatuses
  <2>2. /\ o \in DriveObject /\ SameMarks(drv[d], o) /\ o.free = drv[d].free - 1
        /\ o.allocated = drv[d].allocated + 1 /\ o.total = drv[d].total
    <3> DEFINE f == drv[d].free - 1
               a == drv[d].allocated + 1
    <3>1. drv[d].free \in Int /\ drv[d].allocated \in Int /\ drv[d].total \in Nat
      BY <1>1 DEF DriveObject
    <3>2. f \in Int /\ a \in Int
      BY <3>1
    <3> HIDE DEF f, a
    <3>3. LET p == [drv[d] EXCEPT !.free = f, !.allocated = a]
          IN  /\ p \in DriveObject /\ SameMarks(drv[d], p)
              /\ p.free = f /\ p.allocated = a /\ p.total = drv[d].total
      BY <1>1, <3>2 DEF DriveObject, SameMarks
    <3> QED BY <3>3 DEF f, a
  <2>3. vol' = [vol EXCEPT ![d] = v] /\ drv' = [drv EXCEPT ![d] = o]
    BY <1>2 DEF Reserve
  <2>4. vol[d].status = "none" /\ vol[d].label = ""
    BY <1>2 DEF Reserve, TypeOK, VolumeType
  <2> HIDE DEF o, v
  <2>5. Taken(vol[d]) = 0 /\ Taken(v) = 1
    BY <2>1, <2>4 DEF Taken, VolumeStatuses
  <2>6. Covered(drv[d], vol[d]) => Covered(o, v)
    <3>1. drv[d].free \in Int /\ drv[d].allocated \in Int /\ drv[d].total \in Nat
      BY <1>1 DEF DriveObject
    <3> QED BY <2>2, <2>5, <3>1 DEF Covered
  <2>7. UNCHANGED <<host, mounts, sync, check, job>>
    BY <1>2 DEF Reserve, volumeFrame
  <2>8. HostType'
    BY <2>7 DEF TypeOK, HostType
  <2> QED BY <2>1, <2>2, <2>3, <2>4, <2>6, <2>7, <2>8, OneVolume
<1>3. CASE Stage(d)
  <2> DEFINE v == [vol[d] EXCEPT !.status = "staged"]
  <2>1. v \in VolumeObject /\ v.status = "staged" /\ v.label = vol[d].label
    BY <1>1 DEF VolumeObject, VolumeStatuses
  <2>2. vol' = [vol EXCEPT ![d] = v] /\ drv' = [drv EXCEPT ![d] = drv[d]]
        /\ vol[d].status \in {"pending", "ready"}
    BY <1>7, <1>3 DEF Stage
  <2> HIDE DEF v
  <2>3. Covered(drv[d], vol[d]) => Covered(drv[d], v)
    BY <2>1, <2>2 DEF Covered, Taken, VolumeStatuses
  <2>4. UNCHANGED <<host, sync, check, job>>
    BY <1>3 DEF Stage, volumeFrame
  <2>5. HostType'
    <3>1. PICK m \in mounts : mounts' = mounts \cup {[m EXCEPT !.target = StagingPath(d)]}
      BY <1>3 DEF Stage, FilterByMountPoint
    <3>2. [m EXCEPT !.target = StagingPath(d)] \in MountObject
      BY <3>1 DEF TypeOK, HostType, MountObject
    <3> QED BY <2>4, <3>1, <3>2 DEF TypeOK, HostType
  <2>6. vol[d].status \in VolumeStatuses /\ SameMarks(drv[d], drv[d])
    BY <2>2 DEF VolumeStatuses, SameMarks
  <2> QED BY <1>1, <2>1, <2>2, <2>3, <2>4, <2>5, <2>6, OneVolume
<1>4. CASE Unstage(d)
  <2> DEFINE v == [vol[d] EXCEPT !.status = "ready"]
  <2>1. v \in VolumeObject /\ v.status = "ready" /\ v.label = vol[d].label
    BY <1>1 DEF VolumeObject, VolumeStatuses
  <2>2. vol' = [vol EXCEPT ![d] = v] /\ drv' = [drv EXCEPT ![d] = drv[d]]
        /\ vol[d].status = "staged"
    BY <1>7, <1>4 DEF Unstage
  <2> HIDE DEF v
  <2>3. Covered(drv[d], vol[d]) => Covered(drv[d], v)
    BY <2>1, <2>2 DEF Covered, Taken, VolumeStatuses
  <2>4. UNCHANGED <<host, sync, check, job>>
    BY <1>4 DEF Unstage, volumeFrame
  <2>5. HostType'
    BY <1>4, <2>4 DEF TypeOK, HostType, Unstage, Unmounted
  <2>6. vol[d].status \in VolumeStatuses /\ SameMarks(drv[d], drv[d])
    BY <2>2 DEF VolumeStatuses, SameMarks
  <2> QED BY <1>1, <2>1, <2>2, <2>3, <2>4, <2>5, <2>6, OneVolume
<1>5. CASE Release(d)
  <2> DEFINE o == [drv[d] EXCEPT !.free = drv[d].free + 1,
                                 !.allocated = drv[d].total - (drv[d].free + 1)]
             v == [NoVolume EXCEPT !.status = "gone"]
  <2>1. v \in VolumeObject /\ v.status = "gone"
    BY DEF VolumeObject, VolumeStatuses, NoVolume
  <2>2. /\ o \in DriveObject /\ SameMarks(drv[d], o) /\ o.free = drv[d].free + 1
        /\ o.allocated = drv[d].total - (drv[d].free + 1) /\ o.total = drv[d].total
    <3> DEFINE f == drv[d].free + 1
               a == drv[d].total - (drv[d].free + 1)
    <3>1. drv[d].free \in Int /\ drv[d].allocated \in Int /\ drv[d].total \in Nat
      BY <1>1 DEF DriveObject
    <3>2. f \in Int /\ a \in Int
      BY <3>1
    <3> HIDE DEF f, a
    <3>3. LET p == [drv[d] EXCEPT !.free = f, !.allocated = a]
          IN  /\ p \in DriveObject /\ SameMarks(drv[d], p)
              /\ p.free = f /\ p.allocated = a /\ p.total = drv[d].total
      BY <1>1, <3>2 DEF DriveObject, SameMarks
    <3> QED BY <3>3 DEF f, a
  <2>3. vol' = [vol EXCEPT ![d] = v] /\ drv' = [drv EXCEPT ![d] = o]
        /\ vol[d].status \in {"pending", "ready"}
    BY <1>5 DEF Release
  <2> HIDE DEF o, v
  <2>4. Taken(vol[d]) = 1 /\ Taken(v) = 0 /\ v.status \notin VolumeStatuses
    BY <2>1, <2>3 DEF Taken, VolumeStatuses
  <2>5. Covered(drv[d], vol[d]) => Covered(o, v)
    <3>1. drv[d].free \in Int /\ drv[d].allocated \in Int /\ drv[d].total \in Nat
      BY <1>1 DEF DriveObject
    <3> QED BY <2>2, <2>4, <3>1 DEF Covered
  <2>6. UNCHANGED <<host, mounts, sync, check, job>>
    BY <1>5 DEF Release, volumeFrame
  <2>7. HostType'
    BY <2>6 DEF TypeOK, HostType
  <2> QED BY <2>1, <2>2, <2>3, <2>4, <2>5, <2>6, <2>7, OneVolume
<1>6. CASE SyncVolume(d)
  <2> DEFINE v == [vol[d] EXCEPT !.name = drv[d].name]
  <2>1. v \in VolumeObject /\ v.status = vol[d].status /\ v.label = vol[d].label
    BY <1>1 DEF VolumeObject, DriveObject
  <2>2. vol' = [vol EXCEPT ![d] = v] /\ drv' = [drv EXCEPT ![d] = drv[d]]
        /\ vol[d].status \in VolumeStatuses
    BY <1>7, <1>6 DEF SyncVolume
  <2> HIDE DEF v
  <2>3. Covered(drv[d], vol[d]) => Covered(drv[d], v)
    BY <2>1 DEF Covered, Taken
  <2>4. UNCHANGED <<host, mounts, sync, check, job>>
    BY <1>6 DEF SyncVolume, volumeFrame
  <2>5. HostType'
    BY <2>4 DEF TypeOK, HostType
  <2>6. v.status # "none" /\ SameMarks(drv[d], drv[d])
    BY <2>1, <2>2 DEF VolumeStatuses, SameMarks
  <2> QED BY <1>1, <2>1, <2>2, <2>3, <2>4, <2>5, <2>6, OneVolume
<1> QED BY <1>2, <1>3, <1>4, <1>5, <1>6 DEF VolumeStep

\* A node server that is down
LEMMA DownType == Down \in SyncState /\ Down.pc = "down"
  BY DEF Down, SyncState

\* A mount of Sync or checkDrive that no Update follows is by a name that Sync probed or that
\* the link of the UUID leads to.
LEMMA MountedOnlyMakes ==
  ASSUME TypeOK, MountedOnly
  PROVE  \E name \in Names, d \in Drives :
           /\ MountDone(name, d)
           /\ \/ sync.pc = "update" /\ \E dev \in sync.map[d] : dev.name = name
              \/ \E x \in ByUUID(host, d) : host[x].name = name
<1>1. CASE sync.pc = "update" /\ \E dev \in sync.map[Head(sync.todo)] :
                                   MountDone(dev.name, Head(sync.todo))
  <2>1. Head(sync.todo) \in Drives /\ sync.map \in [Drives -> SUBSET Probed]
    BY <1>1, SyncHead DEF TypeOK, SyncType, SyncState
  <2>2. PICK dev \in sync.map[Head(sync.todo)] : MountDone(dev.name, Head(sync.todo))
    BY <1>1
  <2>3. dev.name \in Names
    BY <2>1 DEF Probed
  <2> QED BY <1>1, <2>1, <2>2, <2>3
<1>2. CASE /\ check # NoCheck
           /\ \E x \in ByUUID(host, check.drive) : MountDone(host[x].name, check.drive)
  <2>1. check.drive \in Drives
    BY <1>2 DEF TypeOK, CheckType
  <2>2. PICK x \in ByUUID(host, check.drive) : MountDone(host[x].name, check.drive)
    BY <1>2
  <2>3. host[x].name \in Names
    BY DeviceOfHost DEF ByUUID, probeFromUdev, TypeOK, HostType
  <2> QED BY <2>1, <2>2, <2>3
<1> QED BY <1>1, <1>2 DEF MountedOnly

\* Devices that change, reboots, stops and restarts of the node server
LEMMA HostStepKeeps ==
  ASSUME TypeOK, ChangeHost \/ StopServer \/ Reboot
  PROVE  StepKeeps
<1> USE DEF TypeOK
<1>1. CASE ChangeHost
  <2>1. DriveType' /\ DrivesKept
    BY <1>1, NoDrive DEF ChangeHost
  <2>2. HostType' /\ VolumeType' /\ SyncType' /\ CheckType' /\ JobType'
    BY <1>1 DEF ChangeHost, HostType, VolumeType, SyncType, CheckType, JobType
  <2> QED BY <1>1, <2>1, <2>2, VolumesAlone DEF Kept, ChangeHost
<1>2. CASE StopServer
  <2>1. DriveType' /\ DrivesKept
    BY <1>2, NoDrive DEF StopServer
  <2>2. VolumeType' /\ CheckType' /\ JobType'
    BY <1>2 DEF StopServer, VolumeType, CheckType, JobType
  <2>4. HostType'
    <3>1. CASE UNCHANGED mounts
      BY <1>2, <3>1 DEF StopServer, HostType
    <3>2. CASE MountedOnly
      BY <1>2, <3>2, MountedOnlyMakes, MountStep DEF StopServer, TypeOK
    <3> QED BY <1>2, <3>1, <3>2 DEF StopServer
  <2>3. SyncType'
    BY <1>2, DownType DEF StopServer, SyncType
  <2> QED BY <1>2, <2>1, <2>2, <2>3, <2>4, VolumesAlone DEF Kept, TypeOK, StopServer
<1>3. CASE Reboot
  <2>1. DriveType' /\ MarksKept
    BY <1>3 DEF Reboot, DriveType, MarksKept, SameMarks
  <2>2. HostType' /\ SyncType' /\ CheckType'
    BY <1>3, DownType DEF Reboot, HostType, SyncType, CheckType
  <2>3. JobType'
    <3> SUFFICES ASSUME NEW d \in Drives
                 PROVE  /\ job'[d] \in JobState
                        /\ job'[d].pc \in {"checked", "unmounted", "repairing", "repaired"} =>
                             job'[d].source \in Names
      BY <1>3 DEF Reboot, JobType
    <3> DEFINE new == [NoJob EXCEPT !.pc = IF job[d].tries = 0 THEN "start" ELSE "ended",
                                    !.tries = 1]
    <3>1. new \in JobState /\ new.pc \in {"start", "ended"}
      BY DEF NoJob, JobState, JobPcs
    <3>2. job'[d] = job[d] \/ job'[d] = new
      BY <1>3 DEF Reboot
    <3> HIDE DEF new
    <3> QED BY <3>1, <3>2 DEF JobType
  <2>4. \A d \in Drives :
          /\ vol'[d] \in VolumeObject /\ vol'[d].label = vol[d].label
          /\ vol'[d].status = vol[d].status
               \/ (vol[d].status = "staged" /\ vol'[d].status = "ready")
    <3> SUFFICES ASSUME NEW d \in Drives
                 PROVE  /\ vol'[d] \in VolumeObject /\ vol'[d].label = vol[d].label
                        /\ vol'[d].status = vol[d].status
                             \/ (vol[d].status = "staged" /\ vol'[d].status = "ready")
      OBVIOUS
    <3>1. vol[d] \in VolumeObject
      BY DEF VolumeType
    <3>2. vol'[d] = IF vol[d].status = "staged" THEN [vol[d] EXCEPT !.status = "ready"] ELSE vol[d]
      BY <1>3 DEF Reboot
    <3>3. CASE vol[d].status = "staged"
      BY <3>1, <3>2, <3>3 DEF VolumeObject, VolumeStatuses
    <3>4. CASE vol[d].status # "staged"
      <4>1. vol'[d] = vol[d]
        BY <3>2, <3>4
      <4> QED BY <3>1, <4>1
    <3> QED BY <3>3, <3>4
  <2>5. VolumeType'
    <3>1. vol' = [d \in Drives |-> vol'[d]]
      BY <1>3 DEF Reboot
    <3>2. vol' \in [Drives -> VolumeObject]
      BY <2>4, <3>1
    <3> QED BY <2>4, <3>2 DEF VolumeType
  <2>6. VolumesKept
    BY <2>4 DEF VolumesKept, VolumeStatuses
  <2>7. ASSUME CapacityInv PROVE CapacityInv'
    <3>1. \A d \in Drives : Taken(vol'[d]) = Taken(vol[d])
      BY <2>4 DEF Taken, VolumeStatuses
    <3>2. UNCHANGED drv
      BY <1>3 DEF Reboot
    <3> QED BY <2>7, <3>1, <3>2 DEF CapacityInv, Covered
  <2> QED BY <2>1, <2>2, <2>3, <2>5, <2>6, <2>7 DEF StepKeeps
<1> QED BY <1>1, <1>2, <1>3

\* Every step of the node server, the drive controller, jobs, volumes and the host
LEMMA DriveSyncKeeps == ASSUME TypeOK, DriveSyncNext PROVE StepKeeps
<1>1. CASE StartSync
  BY <1>1, StartSyncKeeps, VolumesAlone DEF StartSync, syncFrame
<1>2. CASE GetDrive
  BY <1>2, GetDriveKeeps, VolumesAlone DEF GetDrive, syncFrame
<1>3. CASE UpdateDrive
  BY <1>3, UpdateDriveKeeps, VolumesAlone DEF UpdateDrive
<1>4. CASE EndSync
  BY <1>4, EndSyncKeeps, VolumesAlone DEF EndSync, syncFrame
<1>5. CASE CheckDrive
  BY <1>5, CheckDriveKeeps, VolumesAlone DEF CheckDrive, checkFrame
<1>6. CASE ChangeHost \/ StopServer \/ Reboot
  BY <1>6, HostStepKeeps
<1>7. ASSUME NEW d \in Drives, StartCheck(d) PROVE StepKeeps
  BY <1>7, StartCheckKeeps, VolumesAlone DEF StartCheck, checkFrame
<1>8. ASSUME NEW d \in Drives, JobStep(d) PROVE StepKeeps
  BY <1>8, JobStepKeeps, JobStepMakes, VolumesAlone DEF JobMakes
<1>9. ASSUME NEW d \in Drives, VolumeStep(d) PROVE StepKeeps
  BY <1>9, VolumeStepKeeps
<1> QED BY <1>1, <1>2, <1>3, <1>4, <1>5, <1>6, <1>7, <1>8, <1>9 DEF DriveSyncNext, SyncStep

-----------------------------------------------------------------------------
(* Commands *)

CommandFields == {"pc", "op", "sel", "items", "ids", "processed", "wanted"}

\* The flag that names the objects of the command
IDFlag == IF OnVolumes THEN "volumes" ELSE "ids"

\* An object as it was read is one the command's flags select.
ReadSelected(d, read) ==
  IF OnVolumes
  THEN Selected(d, [nodes |-> NodeName, drives |-> read.name, status |-> read.status, ids |-> d,
                    pods |-> "", podNSs |-> "", volumes |-> d, labels |-> read.label],
                cmd.sel, VolumeLabels, "volumes")
  ELSE Selected(d, [nodes |-> NodeName, drives |-> read.name, status |-> read.status, ids |-> d,
                    labels |-> read.label],
                cmd.sel, DriveLabels, "ids")

\* What commands set is still there as it was read, whatever else has changed.
ReadHolds(d, read) ==
  IF OnVolumes
  THEN /\ read \in VolumeObject /\ read.status \in VolumeStatuses /\ vol[d].status # "none"
       /\ vol[d].status \in VolumeStatuses => vol[d].label = read.label
  ELSE read \in DriveObject /\ SameMarks(read, drv[d])

\* The drive has what the command sets.
HasMark(d) ==
  /\ cmd.op \in {"labelDrives", "unlabelDrives"} => drv[d].label = Labelled
  /\ cmd.op \in {"cordon", "uncordon"} => drv[d].unschedulable = (cmd.op = "cordon")
  /\ OnVolumes /\ vol[d].status \in VolumeStatuses => vol[d].label = Labelled

\* Items are selected objects as good as those that are there.
ItemsOK ==
  /\ cmd.ids \subseteq cmd.sel[IDFlag]
  /\ \A i \in cmd.items :
       i.drive \in Drives /\ ReadSelected(i.drive, i.read) /\ ReadHolds(i.drive, i.read)

\* A drive or volume that was selected has the mark or is still to be done, and a volume
\* that was there is not made again.
WantedOK ==
  \A d \in cmd.wanted :
    /\ d \in Drives /\ (OnVolumes => vol[d].status # "none")
    /\ \/ HasMark(d)
       \/ cmd.pc = "run" /\ (d \in cmd.ids \/ \E i \in cmd.items : i.drive = d)

CommandInv ==
  /\ DOMAIN cmd = CommandFields
  /\ cmd.pc = "run" => ItemsOK
  /\ cmd.pc \in {"run", "ok"} => WantedOK

\* What a lister sends and what it reads one by one is what the flags select, and all of it.
LEMMA ListIsSelection ==
  ASSUME NEW objects, NEW sel, NEW labelled, NEW id, NEW x \in DOMAIN objects
  PROVE  /\ x \in Listed(objects, sel, labelled, id) =>
              Selected(x, objects[x], sel, labelled, id)
         /\ Selected(x, objects[x], sel, labelled, id) =>
              \/ x \in Listed(objects, sel, labelled, id)
              \/ x \in Remaining(objects, sel, labelled, id)
  BY DEF Listed, Selected, Remaining

\* Only objects that are there are sent, and only IDs that were asked for are read.
LEMMA ListIsOfObjects ==
  ASSUME NEW objects, NEW sel, NEW labelled, NEW id
  PROVE  /\ Listed(objects, sel, labelled, id) \subseteq DOMAIN objects
         /\ Remaining(objects, sel, labelled, id) \subseteq sel[id]
  BY DEF Listed, Remaining

\* The objects commands list
LEMMA ObjectsAre ==
  /\ DOMAIN Objects \subseteq Drives
  /\ OnVolumes => DOMAIN Objects = {e \in Drives : vol[e].status \in VolumeStatuses}
  /\ ~OnVolumes => DOMAIN Objects = Drives
  /\ \A d \in DOMAIN Objects :
       Objects[d] = IF OnVolumes THEN VolumeAttributes(d) ELSE DriveAttributes(d)
  BY DEF Objects, VolumeObjects, DriveObjects

\* An object that is read now and that the flags select is a good item.
LEMMA ReadNow ==
  ASSUME TypeOK, NEW d \in DOMAIN Objects
  PROVE  /\ d \in Drives /\ ReadHolds(d, Item(d).read) /\ Item(d).drive = d
         /\ (ReadSelected(d, Item(d).read) <=> IsSelected(d))
         /\ IsSelected(d) <=> Selected(d, Objects[d], cmd.sel,
                                       IF OnVolumes THEN VolumeLabels ELSE DriveLabels, IDFlag)
<1>1. d \in Drives /\ (OnVolumes => d \in DOMAIN VolumeObjects /\ vol[d].status \in VolumeStatuses)
  BY ObjectsAre DEF VolumeObjects
<1>2. ReadHolds(d, Item(d).read)
  <2>1. CASE OnVolumes
    BY <1>1, <2>1 DEF ReadHolds, Item, TypeOK, VolumeType, VolumeStatuses
  <2>2. CASE ~OnVolumes
    BY <1>1, <2>2 DEF ReadHolds, Item, TypeOK, DriveType, SameMarks
  <2> QED BY <2>1, <2>2
<1>3. ReadSelected(d, Item(d).read) <=> IsSelected(d)
  <2>1. CASE OnVolumes
    BY <1>1, <2>1 DEF ReadSelected, IsSelected, Item, VolumeAttributes
  <2>2. CASE ~OnVolumes
    BY <1>1, <2>2 DEF ReadSelected, IsSelected, Item, DriveAttributes
  <2> QED BY <2>1, <2>2
<1>4. IsSelected(d) <=> Selected(d, Objects[d], cmd.sel,
                                 IF OnVolumes THEN VolumeLabels ELSE DriveLabels, IDFlag)
  BY <1>1, ObjectsAre DEF IsSelected, IDFlag
<1> QED BY <1>1, <1>2, <1>3, <1>4 DEF Item

\* Steps of others keep what a command relies on.
LEMMA OthersKeepCommand ==
  ASSUME TypeOK, StepKeeps, CommandInv, UNCHANGED cmd
  PROVE  CommandInv'
<1>1. \A d \in Drives :
        /\ SameMarks(drv[d], drv'[d])
        /\ vol'[d].status \in VolumeStatuses => vol'[d].label = vol[d].label
        /\ vol[d].status # "none" =>
             /\ vol'[d].status # "none"
             /\ vol'[d].status \in VolumeStatuses => vol[d].status \in VolumeStatuses
  BY DEF StepKeeps, MarksKept, VolumesKept, VolumeStatuses
<1>2. ASSUME cmd.pc = "run" PROVE ItemsOK'
  <2>1. ItemsOK
    BY <1>2 DEF CommandInv
  <2> SUFFICES ASSUME NEW i \in cmd.items PROVE ReadHolds(i.drive, i.read)'
    BY <2>1 DEF ItemsOK, ReadSelected, IDFlag, OnVolumes
  <2>2. i.drive \in Drives /\ ReadHolds(i.drive, i.read)
    BY <2>1 DEF ItemsOK
  <2> QED BY <1>1, <2>2 DEF ReadHolds, OnVolumes, SameMarks
<1>3. ASSUME cmd.pc \in {"run", "ok"} PROVE WantedOK'
  <2>1. WantedOK
    BY <1>3 DEF CommandInv
  <2> SUFFICES ASSUME NEW d \in cmd.wanted
               PROVE  /\ d \in Drives /\ (OnVolumes => vol'[d].status # "none")
                      /\ HasMark(d) => HasMark(d)'
    BY <2>1 DEF WantedOK, OnVolumes
  <2>2. d \in Drives /\ (OnVolumes => vol[d].status # "none")
    BY <2>1 DEF WantedOK
  <2> QED BY <1>1, <2>2 DEF HasMark, OnVolumes, SameMarks, Labelled
<1> QED BY <1>2, <1>3 DEF CommandInv

\* A command that fails has nothing to do any more.
LEMMA FailedCommand ==
  ASSUME NEW how \in {"failed", "panic"}, Fails(how)
  PROVE  cmd'.pc = how /\ CommandInv'
<1>1. DOMAIN cmd' = CommandFields /\ cmd'.pc = how
  BY DEF Fails, NoCommand, CommandFields
<1> QED BY <1>1 DEF CommandInv

\* A command that starts, or that is refused
LEMMA RunCommandKeeps == ASSUME RunCommand PROVE CommandInv'
<1>1. PICK r \in Requests :
        cmd' = IF validate(r).err THEN [NoCommand EXCEPT !.pc = "failed"]
               ELSE [NoCommand EXCEPT !.pc = "list", !.op = r.op, !.sel = validate(r).sel]
  BY DEF RunCommand
<1>2. DOMAIN cmd' = CommandFields /\ cmd'.pc \in {"failed", "list"}
  BY <1>1 DEF NoCommand, CommandFields
<1> QED BY <1>2 DEF CommandInv

\* The list: every selected object is an item or is to be read.
LEMMA ListObjectsKeeps == ASSUME TypeOK, CommandInv, ListObjects PROVE CommandInv'
<1> DEFINE labelled == IF OnVolumes THEN VolumeLabels ELSE DriveLabels
           listed == Listed(Objects, cmd.sel, labelled, IDFlag)
           remaining == Remaining(Objects, cmd.sel, labelled, IDFlag)
<1>1. cmd' = [cmd EXCEPT !.pc = "run", !.items = {Item(d) : d \in listed}, !.ids = remaining,
                         !.wanted = {d \in Drives : IsSelected(d)}]
  BY DEF ListObjects, ListVolumes, ListDrives, RemainingVolumes, RemainingDrives, Objects, IDFlag
<1>2. UNCHANGED <<drv, vol>>
  BY DEF ListObjects, syncVars
<1>3. /\ DOMAIN cmd' = CommandFields /\ cmd'.op = cmd.op /\ cmd'.sel = cmd.sel
      /\ cmd'.pc = "run" /\ cmd'.items = {Item(d) : d \in listed} /\ cmd'.ids = remaining
      /\ cmd'.wanted = {d \in Drives : IsSelected(d)}
  BY <1>1 DEF CommandInv, CommandFields
<1>4. listed \subseteq DOMAIN Objects /\ remaining \subseteq cmd.sel[IDFlag]
  BY ListIsOfObjects
<1>5. \A d \in DOMAIN Objects :
        /\ d \in listed => IsSelected(d)
        /\ IsSelected(d) => d \in listed \/ d \in remaining
  BY ListIsSelection, ReadNow
<1> HIDE DEF listed, remaining
<1>6. ItemsOK'
  <2> SUFFICES ASSUME NEW i \in cmd'.items
               PROVE  /\ i.drive \in Drives /\ ReadSelected(i.drive, i.read)'
                      /\ ReadHolds(i.drive, i.read)'
    BY <1>3, <1>4 DEF ItemsOK, IDFlag, OnVolumes
  <2>1. PICK d \in listed : i = Item(d)
    BY <1>3
  <2>2. /\ d \in Drives /\ i.drive = d /\ ReadHolds(d, i.read) /\ ReadSelected(d, i.read)
    BY <1>4, <1>5, <2>1, ReadNow
  <2> QED BY <1>2, <1>3, <2>2 DEF ReadHolds, ReadSelected, OnVolumes
<1>7. WantedOK'
  <2> SUFFICES ASSUME NEW d \in Drives, IsSelected(d)
               PROVE  /\ OnVolumes => vol[d].status # "none"
                      /\ d \in cmd'.ids \/ \E i \in cmd'.items : i.drive = d
    BY <1>2, <1>3 DEF WantedOK, OnVolumes
  <2>1. d \in DOMAIN Objects
    BY ObjectsAre DEF IsSelected, VolumeObjects
  <2>2. OnVolumes => vol[d].status # "none"
    BY <2>1, ObjectsAre DEF VolumeStatuses
  <2>3. CASE d \in listed
    BY <1>3, <2>1, <2>2, <2>3, ReadNow
  <2>4. CASE d \in remaining
    BY <1>3, <2>2, <2>4
  <2> QED BY <1>5, <2>1, <2>3, <2>4
<1> QED BY <1>3, <1>6, <1>7 DEF CommandInv

\* An ID that is read: its object is an item, or there is none.
LEMMA GetObjectKeeps == ASSUME TypeOK, CommandInv, GetObject PROVE CommandInv'
<1>1. PICK d \in cmd.ids :
        cmd' = IF d \in DOMAIN Objects THEN [cmd EXCEPT !.ids = @ \ {d}, !.items = {Item(d)}]
               ELSE IF cmd.op = "repair" THEN [cmd EXCEPT !.ids = @ \ {d}]
               ELSE [NoCommand EXCEPT !.pc = "failed"]
  BY DEF GetObject
<1>2. /\ cmd.pc = "run" /\ cmd.items = {} /\ ItemsOK /\ WantedOK /\ UNCHANGED <<drv, vol>>
      /\ DOMAIN cmd = CommandFields
  BY DEF GetObject, CommandInv, syncVars
<1>3. CASE d \in DOMAIN Objects
  <2>1. cmd' = [cmd EXCEPT !.ids = cmd.ids \ {d}, !.items = {Item(d)}]
    BY <1>1, <1>3
  <2>2. /\ DOMAIN cmd' = CommandFields /\ cmd'.op = cmd.op /\ cmd'.sel = cmd.sel
        /\ cmd'.pc = "run" /\ cmd'.items = {Item(d)} /\ cmd'.ids = cmd.ids \ {d}
        /\ cmd'.wanted = cmd.wanted
    BY <1>2, <2>1 DEF CommandFields
  <2>3. IsSelected(d)
    <3>1. d \in cmd.sel[IDFlag]
      BY <1>2 DEF ItemsOK
    <3> QED BY <1>3, <3>1, ReadNow DEF Selected
  <2>4. /\ d \in Drives /\ Item(d).drive = d /\ ReadSelected(d, Item(d).read)
        /\ ReadHolds(d, Item(d).read)
    BY <1>3, <2>3, ReadNow
  <2>5. PICK i : i = Item(d)
    OBVIOUS
  <2>6. ItemsOK'
    <3>1. i.drive = d /\ ReadSelected(d, i.read) /\ ReadHolds(d, i.read)
      BY <2>4, <2>5
    <3>2. ReadSelected(d, i.read)' /\ ReadHolds(d, i.read)'
      BY <1>2, <2>2, <3>1 DEF ReadHolds, ReadSelected, OnVolumes
    <3>3. cmd'.items = {i}
      BY <2>2, <2>5
    <3> QED BY <1>2, <2>2, <2>4, <3>1, <3>2, <3>3 DEF ItemsOK, IDFlag, OnVolumes
  <2>7. WantedOK'
    BY <1>2, <2>2, <2>4 DEF WantedOK, OnVolumes, HasMark, Labelled
  <2> QED BY <2>2, <2>6, <2>7 DEF CommandInv
<1>4. CASE d \notin DOMAIN Objects /\ cmd.op = "repair"
  <2>1. cmd' = [cmd EXCEPT !.ids = cmd.ids \ {d}]
    BY <1>1, <1>4
  <2>2. /\ DOMAIN cmd' = CommandFields /\ cmd'.op = cmd.op /\ cmd'.sel = cmd.sel
        /\ cmd'.pc = "run" /\ cmd'.items = {} /\ cmd'.ids = cmd.ids \ {d}
        /\ cmd'.wanted = cmd.wanted
    BY <1>2, <2>1 DEF CommandFields
  <2>3. ItemsOK'
    BY <1>2, <2>2 DEF ItemsOK, IDFlag, OnVolumes
  <2>4. WantedOK'
    BY <1>2, <1>4, <2>2 DEF WantedOK, OnVolumes, HasMark
  <2> QED BY <2>2, <2>3, <2>4 DEF CommandInv
<1>5. CASE d \notin DOMAIN Objects /\ cmd.op # "repair"
  BY <1>1, <1>5, FailedCommand DEF Fails
<1> QED BY <1>3, <1>4, <1>5

\* A command that ends has done all that it wanted.
LEMMA EndCommandKeeps == ASSUME CommandInv, EndCommand PROVE CommandInv'
<1>1. CASE Fails("failed")
  BY <1>1, FailedCommand
<1>2. CASE cmd' = [NoCommand EXCEPT !.pc = "ok", !.op = cmd.op, !.wanted = cmd.wanted]
  <2>1. DOMAIN cmd' = CommandFields /\ cmd'.pc = "ok" /\ cmd'.op = cmd.op
        /\ cmd'.wanted = cmd.wanted
    BY <1>2 DEF NoCommand, CommandFields
  <2>2. WantedOK /\ cmd.items = {} /\ cmd.ids = {} /\ UNCHANGED <<drv, vol>>
    BY DEF EndCommand, CommandInv, syncVars
  <2>3. WantedOK'
    BY <2>1, <2>2 DEF WantedOK, OnVolumes, HasMark, Labelled
  <2> QED BY <2>1, <2>3 DEF CommandInv
<1> QED BY <1>1, <1>2 DEF EndCommand

\* What a command changes: the mark it sets, on an object that is selected as it is now
MarksSet(d) ==
  \/ UNCHANGED <<drv, vol>>
  \/ /\ IsSelected(d) /\ UNCHANGED vol
     /\ drv' = [drv EXCEPT ![d] = [drv[d] EXCEPT !.label = Labelled]]
  \/ /\ IsSelected(d) /\ UNCHANGED vol
     /\ drv' = [drv EXCEPT ![d] = [drv[d] EXCEPT !.unschedulable = (cmd.op = "cordon")]]
  \/ /\ OnVolumes /\ IsSelected(d) /\ UNCHANGED drv
     /\ vol' = [vol EXCEPT ![d] = [vol[d] EXCEPT !.label = Labelled]]

\* The drive has what the command sets, after the step.
MarkedNow(d) ==
  /\ cmd.op \in {"labelDrives", "unlabelDrives"} => drv'[d].label = Labelled
  /\ cmd.op \in {"cordon", "uncordon"} => drv'[d].unschedulable = (cmd.op = "cordon")
  /\ OnVolumes /\ vol'[d].status \in VolumeStatuses => vol'[d].label = Labelled

\* A command that goes on after an item has done it.
ItemMakes(d) ==
  /\ UNCHANGED <<host, mounts, sync, check, moved>> /\ MarksSet(d)
  /\ UNCHANGED job \/ (job[d].pc = "none" /\ Goto(d, "start"))
  /\ \/ Done(d) /\ MarkedNow(d)
     \/ \E how \in {"failed", "panic"} : Fails(how)

\* An object that is as it was read is selected.
LEMMA AsReadSelected ==
  ASSUME NEW d \in Drives, NEW read, ReadSelected(d, read), ReadHolds(d, read),
         read = IF OnVolumes THEN vol[d] ELSE drv[d]
  PROVE  IsSelected(d)
<1>1. CASE OnVolumes
  BY <1>1 DEF ReadSelected, ReadHolds, IsSelected, VolumeObjects, VolumeAttributes
<1>2. CASE ~OnVolumes
  BY <1>2 DEF ReadSelected, IsSelected, DriveAttributes
<1> QED BY <1>1, <1>2

\* Each command on an item
LEMMA ItemStep ==
  ASSUME TypeOK, NEW d \in Drives, NEW read, ReadSelected(d, read), ReadHolds(d, read),
         UNCHANGED cmdFrame,
         \/ LabelDrive(d, read) \/ LabelVolume(d, read) \/ CordonDrive(d, read)
         \/ UncordonDrive(d, read) \/ RepairDrive(d)
  PROVE  ItemMakes(d)
<1>1. UNCHANGED <<host, mounts, sync, check, moved>>
  BY DEF cmdFrame
<1>2. drv[d] \in DriveObject /\ vol[d] \in VolumeObject
  BY DEF TypeOK, DriveType, VolumeType
<1>3. CASE LabelDrive(d, read)
  <2>1. cmd.op \in {"labelDrives", "unlabelDrives"} /\ ~OnVolumes /\ UNCHANGED <<vol, job>>
    BY <1>3 DEF LabelDrive, OnVolumes
  <2>2. read \in DriveObject /\ read.label = drv[d].label
    BY <2>1 DEF ReadHolds, SameMarks
  <2>3. CASE read.label = Labelled /\ Done(d) /\ UNCHANGED drv
    BY <1>1, <2>1, <2>2, <2>3 DEF ItemMakes, MarksSet, MarkedNow
  <2>4. CASE Update(d, read, [read EXCEPT !.label = Labelled]) /\ Done(d)
    <3>1. drv[d] = read /\ drv' = [drv EXCEPT ![d] = [drv[d] EXCEPT !.label = Labelled]]
      BY <2>4 DEF Update
    <3>2. IsSelected(d)
      BY <2>1, <3>1, AsReadSelected
    <3>3. drv'[d].label = Labelled
      BY <1>2, <3>1 DEF DriveObject, TypeOK, DriveType
    <3> QED BY <1>1, <2>1, <2>4, <3>1, <3>2, <3>3 DEF ItemMakes, MarksSet, MarkedNow
  <2>5. CASE Conflict(d, read) /\ Fails("panic")
    BY <1>1, <2>1, <2>5 DEF ItemMakes, MarksSet, Conflict
  <2> QED BY <1>3, <2>3, <2>4, <2>5 DEF LabelDrive
<1>4. CASE LabelVolume(d, read)
  <2>1. cmd.op \in {"labelVolumes", "unlabelVolumes"} /\ OnVolumes /\ UNCHANGED <<drv, job>>
    BY <1>4 DEF LabelVolume, OnVolumes
  <2>2. read \in VolumeObject /\ (vol[d].status \in VolumeStatuses => vol[d].label = read.label)
    BY <2>1 DEF ReadHolds
  <2>3. CASE read.label = Labelled /\ Done(d) /\ UNCHANGED vol
    BY <1>1, <2>1, <2>2, <2>3 DEF ItemMakes, MarksSet, MarkedNow
  <2>4. CASE vol[d] = read /\ Done(d) /\ vol' = [vol EXCEPT ![d].label = Labelled]
    <3>1. vol' = [vol EXCEPT ![d] = [vol[d] EXCEPT !.label = Labelled]]
      BY <2>4
    <3>2. IsSelected(d)
      BY <2>1, <2>4, AsReadSelected
    <3>3. vol'[d].label = Labelled
      BY <1>2, <3>1 DEF VolumeObject, TypeOK, VolumeType
    <3> QED BY <1>1, <2>1, <2>4, <3>1, <3>2, <3>3 DEF ItemMakes, MarksSet, MarkedNow
  <2>5. CASE Fails("panic") /\ UNCHANGED vol
    BY <1>1, <2>1, <2>5 DEF ItemMakes, MarksSet
  <2> QED BY <1>4, <2>3, <2>4, <2>5 DEF LabelVolume
<1>5. CASE CordonDrive(d, read)
  <2>1. cmd.op = "cordon" /\ ~OnVolumes /\ UNCHANGED <<vol, job>>
    BY <1>5 DEF CordonDrive, OnVolumes
  <2>2. read \in DriveObject /\ read.unschedulable = drv[d].unschedulable
    BY <2>1 DEF ReadHolds, SameMarks
  <2>3. CASE read.unschedulable /\ Done(d) /\ UNCHANGED drv
    <3>1. drv'[d].unschedulable = TRUE
      BY <2>2, <2>3 DEF DriveObject
    <3> QED BY <1>1, <2>1, <2>3, <3>1 DEF ItemMakes, MarksSet, MarkedNow
  <2>4. CASE Done(d) /\ Update(d, read, [read EXCEPT !.unschedulable = TRUE])
    <3>1. drv[d] = read /\ drv' = [drv EXCEPT ![d] = [drv[d] EXCEPT !.unschedulable = TRUE]]
      BY <2>4 DEF Update
    <3>2. IsSelected(d)
      BY <2>1, <3>1, AsReadSelected
    <3>3. drv'[d].unschedulable = TRUE
      BY <1>2, <3>1 DEF DriveObject, TypeOK, DriveType
    <3>4. (cmd.op = "cordon") = TRUE
      BY <2>1
    <3> QED BY <1>1, <2>1, <2>4, <3>1, <3>2, <3>3, <3>4 DEF ItemMakes, MarksSet, MarkedNow
  <2>5. CASE Fails("failed") /\ UNCHANGED drv
    BY <1>1, <2>1, <2>5 DEF ItemMakes, MarksSet
  <2> QED BY <1>5, <2>3, <2>4, <2>5 DEF CordonDrive, Conflict
<1>6. CASE UncordonDrive(d, read)
  <2>1. cmd.op = "uncordon" /\ ~OnVolumes /\ UNCHANGED <<vol, job>>
    BY <1>6 DEF UncordonDrive, OnVolumes
  <2>2. read \in DriveObject /\ read.unschedulable = drv[d].unschedulable
    BY <2>1 DEF ReadHolds, SameMarks
  <2>3. CASE ~read.unschedulable /\ Done(d) /\ UNCHANGED drv
    <3>1. drv'[d].unschedulable = FALSE
      BY <2>2, <2>3 DEF DriveObject
    <3> QED BY <1>1, <2>1, <2>3, <3>1 DEF ItemMakes, MarksSet, MarkedNow
  <2>4. CASE Update(d, read, [read EXCEPT !.unschedulable = FALSE]) /\ Done(d)
    <3>1. drv[d] = read /\ drv' = [drv EXCEPT ![d] = [drv[d] EXCEPT !.unschedulable = FALSE]]
      BY <2>4 DEF Update
    <3>2. IsSelected(d)
      BY <2>1, <3>1, AsReadSelected
    <3>3. drv'[d].unschedulable = FALSE
      BY <1>2, <3>1 DEF DriveObject, TypeOK, DriveType
    <3>4. (cmd.op = "cordon") = FALSE
      BY <2>1
    <3> QED BY <1>1, <2>1, <2>4, <3>1, <3>2, <3>3, <3>4 DEF ItemMakes, MarksSet, MarkedNow
  <2>5. CASE Conflict(d, read) /\ Fails("failed")
    BY <1>1, <2>1, <2>5 DEF ItemMakes, MarksSet, Conflict
  <2> QED BY <1>6, <2>3, <2>4, <2>5 DEF UncordonDrive
<1>7. CASE RepairDrive(d)
  BY <1>1, <1>7 DEF RepairDrive, ItemMakes, MarksSet, MarkedNow, OnVolumes
<1> QED BY <1>3, <1>4, <1>5, <1>6, <1>7

\* A mark changes nothing else of the object, and no other object.
LEMMA MarksSetOnly ==
  ASSUME TypeOK, NEW d \in Drives, MarksSet(d)
  PROVE  /\ DriveType' /\ VolumeType'
         /\ \A e \in Drives : SameCapacity(drv[e], drv'[e]) /\ drv'[e].status = drv[e].status
                              /\ vol'[e].status = vol[e].status
         /\ \A e \in Drives \ {d} : drv'[e] = drv[e] /\ vol'[e] = vol[e]
<1>1. DriveType /\ VolumeType /\ drv[d] \in DriveObject /\ vol[d] \in VolumeObject
  BY DEF TypeOK, DriveType, VolumeType
<1>2. Labelled \in {"", "set"} /\ (cmd.op = "cordon") \in BOOLEAN
  BY DEF Labelled
<1>3. CASE UNCHANGED <<drv, vol>>
  BY <1>1, <1>3 DEF DriveType, VolumeType, SameCapacity
<1>4. ASSUME NEW o \in DriveObject, drv' = [drv EXCEPT ![d] = o], UNCHANGED vol,
             SameCapacity(drv[d], o), o.status = drv[d].status
      PROVE  /\ DriveType' /\ VolumeType'
             /\ \A e \in Drives : SameCapacity(drv[e], drv'[e]) /\ drv'[e].status = drv[e].status
                                  /\ vol'[e].status = vol[e].status
             /\ \A e \in Drives \ {d} : drv'[e] = drv[e] /\ vol'[e] = vol[e]
  <2>1. drv'[d] = o /\ \A e \in Drives \ {d} : drv'[e] = drv[e]
    BY <1>1, <1>4 DEF DriveType
  <2>2. DriveType' /\ VolumeType'
    BY <1>1, <1>4 DEF DriveType, VolumeType
  <2> QED BY <1>4, <2>1, <2>2 DEF SameCapacity
<1>5. CASE /\ UNCHANGED vol
           /\ drv' = [drv EXCEPT ![d] = [drv[d] EXCEPT !.label = Labelled]]
  <2> DEFINE o == [drv[d] EXCEPT !.label = Labelled]
  <2>1. o \in DriveObject /\ SameCapacity(drv[d], o) /\ o.status = drv[d].status
    BY <1>1, <1>2 DEF DriveObject, SameCapacity
  <2> QED BY <1>4, <1>5, <2>1
<1>6. CASE /\ UNCHANGED vol
           /\ drv' = [drv EXCEPT ![d] = [drv[d] EXCEPT !.unschedulable = (cmd.op = "cordon")]]
  <2> DEFINE cordoned == cmd.op = "cordon"
             o == [drv[d] EXCEPT !.unschedulable = cordoned]
  <2>1. cordoned \in BOOLEAN /\ drv' = [drv EXCEPT ![d] = o]
    BY <1>6
  <2> HIDE DEF cordoned
  <2>2. o \in DriveObject /\ SameCapacity(drv[d], o) /\ o.status = drv[d].status
    BY <1>1, <2>1 DEF DriveObject, SameCapacity
  <2> QED BY <1>4, <1>6, <2>1, <2>2
<1>7. CASE /\ OnVolumes /\ IsSelected(d) /\ UNCHANGED drv
           /\ vol' = [vol EXCEPT ![d] = [vol[d] EXCEPT !.label = Labelled]]
  <2> DEFINE v == [vol[d] EXCEPT !.label = Labelled]
  <2>1. v \in VolumeObject /\ v.status = vol[d].status
    BY <1>1, <1>2 DEF VolumeObject
  <2>2. vol[d].status # "none"
    BY <1>7 DEF IsSelected, VolumeObjects, VolumeStatuses
  <2> HIDE DEF v
  <2>3. vol' = [vol EXCEPT ![d] = v]
    BY <1>7 DEF v
  <2>4. vol'[d] = v /\ \A e \in Drives \ {d} : vol'[e] = vol[e]
    BY <1>1, <2>3 DEF VolumeType
  <2>5. VolumeType'
    <3>1. vol' \in [Drives -> VolumeObject]
      BY <1>1, <2>1, <2>3 DEF VolumeType
    <3> QED BY <1>1, <2>1, <2>2, <2>4, <3>1 DEF VolumeType
  <2>6. DriveType' /\ \A e \in Drives : SameCapacity(drv[e], drv'[e]) /\ drv'[e] = drv[e]
    BY <1>1, <1>7 DEF DriveType, SameCapacity
  <2> QED BY <2>1, <2>4, <2>5, <2>6
<1> QED BY <1>3, <1>5, <1>6, <1>7 DEF MarksSet

\* An item is processed: others keep what they rely on, and the command goes on.
LEMMA ProcessItemMakes ==
  ASSUME TypeOK, CommandInv, ProcessItem
  PROVE  \E d \in Drives : ItemMakes(d)
<1>1. cmd.pc = "run" /\ ItemsOK /\ UNCHANGED cmdFrame
  BY DEF ProcessItem, CommandInv
<1>2. PICK i \in cmd.items :
        \/ LabelDrive(i.drive, i.read) \/ LabelVolume(i.drive, i.read)
        \/ CordonDrive(i.drive, i.read) \/ UncordonDrive(i.drive, i.read)
        \/ RepairDrive(i.drive)
  BY DEF ProcessItem
<1>3. i.drive \in Drives /\ ReadSelected(i.drive, i.read) /\ ReadHolds(i.drive, i.read)
  BY <1>1 DEF ItemsOK
<1> QED BY <1>1, <1>2, <1>3, ItemStep

\* A command on an item keeps the types and the capacity, and what it relies on.
LEMMA ProcessItemKeeps ==
  ASSUME TypeOK, CommandInv, ProcessItem
  PROVE  TypeOK' /\ CommandInv' /\ (CapacityInv => CapacityInv')
<1>1. PICK d \in Drives : ItemMakes(d)
  BY ProcessItemMakes
<1>2. /\ DriveType' /\ VolumeType'
      /\ \A e \in Drives : SameCapacity(drv[e], drv'[e]) /\ drv'[e].status = drv[e].status
                           /\ vol'[e].status = vol[e].status
      /\ \A e \in Drives \ {d} : drv'[e] = drv[e] /\ vol'[e] = vol[e]
  BY <1>1, MarksSetOnly DEF ItemMakes
<1>3. HostType' /\ SyncType' /\ CheckType'
  BY <1>1 DEF ItemMakes, TypeOK, HostType, SyncType, CheckType
<1>4. JobType'
  <2>1. JobType
    BY DEF TypeOK
  <2>2. CASE UNCHANGED job
    BY <2>1, <2>2 DEF JobType
  <2>3. CASE Goto(d, "start")
    BY <2>1, <2>3, GotoStep DEF JobPcs
  <2> QED BY <1>1, <2>2, <2>3 DEF ItemMakes
<1>5. CapacityInv => CapacityInv'
  BY <1>2 DEF CapacityInv, Covered, Taken, SameCapacity
<1>6. CommandInv'
  <2>1. CASE \E how \in {"failed", "panic"} : Fails(how)
    BY <2>1, FailedCommand
  <2>2. CASE Done(d) /\ MarkedNow(d)
    <3>1. ItemsOK /\ WantedOK /\ DOMAIN cmd = CommandFields /\ cmd.pc = "run"
      BY DEF ProcessItem, CommandInv
    <3>2. /\ DOMAIN cmd' = CommandFields /\ cmd'.op = cmd.op /\ cmd'.sel = cmd.sel
          /\ cmd'.pc = "run" /\ cmd'.items = {i \in cmd.items : i.drive # d}
          /\ cmd'.ids = cmd.ids /\ cmd'.wanted = cmd.wanted
      BY <2>2, <3>1 DEF Done, CommandFields
    <3>3. ItemsOK'
      <4> SUFFICES ASSUME NEW i \in cmd'.items
                   PROVE  /\ i.drive \in Drives /\ ReadSelected(i.drive, i.read)'
                          /\ ReadHolds(i.drive, i.read)'
        BY <3>1, <3>2 DEF ItemsOK, IDFlag, OnVolumes
      <4>1. /\ i.drive \in Drives \ {d} /\ ReadSelected(i.drive, i.read)
            /\ ReadHolds(i.drive, i.read)
        BY <3>1, <3>2 DEF ItemsOK
      <4> QED BY <1>2, <3>2, <4>1 DEF ReadHolds, ReadSelected, OnVolumes
    <3>4. HasMark(d)'
      BY <2>2, <3>2 DEF MarkedNow, HasMark, OnVolumes, Labelled
    <3>5. WantedOK'
      <4> SUFFICES ASSUME NEW e \in cmd.wanted
                   PROVE  /\ e \in Drives /\ (OnVolumes' => vol'[e].status # "none")
                          /\ \/ HasMark(e)'
                             \/ e \in cmd.ids \/ \E i \in cmd'.items : i.drive = e
        BY <3>2 DEF WantedOK
      <4>1. /\ e \in Drives /\ (OnVolumes => vol[e].status # "none")
            /\ HasMark(e) \/ e \in cmd.ids \/ \E i \in cmd.items : i.drive = e
        BY <3>1 DEF WantedOK
      <4>2. OnVolumes' => vol'[e].status # "none"
        BY <1>2, <3>2, <4>1 DEF OnVolumes
      <4>3. CASE e = d
        BY <3>4, <4>1, <4>2, <4>3
      <4>4. CASE e # d
        <5>1. HasMark(e) => HasMark(e)'
          BY <1>2, <3>2, <4>1, <4>4 DEF HasMark, OnVolumes, Labelled
        <5> QED BY <3>2, <4>1, <4>2, <4>4, <5>1
      <4> QED BY <4>3, <4>4
    <3> QED BY <3>2, <3>3, <3>5 DEF CommandInv
  <2> QED BY <1>1, <2>1, <2>2 DEF ItemMakes
<1> QED BY <1>2, <1>3, <1>4, <1>5, <1>6 DEF TypeOK

-----------------------------------------------------------------------------
(* Commands and capacity, of every behaviour *)

\* The inductive invariant of capacity and commands
CommandIInv == TypeOK /\ CapacityInv /\ CommandInv

\* The invariant holds at first.
LEMMA CommandIInvInit == Init => CommandIInv
<1> SUFFICES ASSUME Init PROVE CommandIInv
  OBVIOUS
<1>1. TypeOK
  BY TypeInit DEF Init
<1>2. CapacityInv
  <2> SUFFICES ASSUME NEW d \in Drives PROVE Covered(NewDrive(d), NoVolume)
    BY DEF Init, DriveSyncInit, CapacityInv
  <2>1. NewDrive(d).total \in Nat
    BY NewDriveType DEF DriveObject
  <2>2. Taken(NoVolume) = 0
    BY DEF Taken, NoVolume, VolumeStatuses
  <2> QED BY <2>1, <2>2, NewDriveType DEF Covered
<1>3. CommandInv
  BY DEF Init, CommandInv, NoCommand, CommandFields
<1> QED BY <1>1, <1>2, <1>3 DEF CommandIInv

\* The invariant does not change with variables it does not speak of.
LEMMA SameSync ==
  ASSUME UNCHANGED syncVars
  PROVE  (TypeOK => TypeOK') /\ (CapacityInv => CapacityInv')
<1>1. UNCHANGED <<host, mounts, drv, vol, sync, check, job>>
  BY DEF syncVars
<1> QED BY <1>1 DEF TypeOK, HostType, DriveType, VolumeType, SyncType, CheckType, JobType, CapacityInv

\* Every step of the system keeps the invariant.
LEMMA CommandIInvStep == CommandIInv /\ [Next]_vars => CommandIInv'
<1> SUFFICES ASSUME CommandIInv, [Next]_vars PROVE CommandIInv'
  OBVIOUS
<1> USE DEF CommandIInv
<1>1. CASE DriveSyncNext /\ UNCHANGED <<cmd, commands>>
  <2>1. StepKeeps
    BY <1>1, DriveSyncKeeps
  <2>2. CommandInv'
    BY <1>1, <2>1, OthersKeepCommand
  <2> QED BY <2>1, <2>2 DEF StepKeeps
<1>2. CASE RunCommand
  BY <1>2, SameSync, RunCommandKeeps DEF RunCommand
<1>3. CASE ListObjects
  BY <1>3, SameSync, ListObjectsKeeps DEF ListObjects
<1>4. CASE GetObject
  BY <1>4, SameSync, GetObjectKeeps DEF GetObject
<1>5. CASE ProcessItem
  BY <1>5, ProcessItemKeeps
<1>6. CASE EndCommand
  BY <1>6, SameSync, EndCommandKeeps DEF EndCommand
<1>7. CASE UNCHANGED vars
  <2>1. UNCHANGED syncVars /\ UNCHANGED cmd /\ UNCHANGED <<drv, vol>>
    BY <1>7 DEF vars, syncVars
  <2>2. CommandInv'
    BY <2>1 DEF CommandInv, ItemsOK, WantedOK, ReadHolds, ReadSelected, HasMark, OnVolumes,
                IDFlag, Labelled
  <2> QED BY <2>1, <2>2, SameSync
<1> QED BY <1>1, <1>2, <1>3, <1>4, <1>5, <1>6, <1>7 DEF Next

\* The inductive invariant holds always.
THEOREM CommandsInductive == Spec => []CommandIInv
  BY CommandIInvInit, CommandIInvStep, PTL DEF Spec

\* The objects, and the state of the node server, of checkDrive and of jobs have their types.
THEOREM OperationsTypeOK == Spec => []TypeOK
<1>1. CommandIInv => TypeOK
  BY DEF CommandIInv
<1> QED BY <1>1, CommandsInductive, PTL

\* Free capacity and the volume never exceed the filesystem, although Sync computes free
\* capacity anew when it has grown, from an object it read before: what is allocated covers
\* the volume, and an Update of a drive that has changed is refused.
THEOREM CapacityAlwaysAddsUp == Spec => []CapacityAddsUp
<1>1. CommandIInv => CapacityAddsUp
  BY DEF CommandIInv, CapacityInv, Covered, Taken, CapacityAddsUp
<1> QED BY <1>1, CommandsInductive, PTL

\* A command that ended well has set what it was to set on everything it selected, and
\* nobody takes it back, for any drives, requests and number of failures.
THEOREM CommandsHold == Spec => []CommandHolds
<1>1. CommandIInv => CommandHolds
  BY DEF CommandIInv, CommandInv, WantedOK, HasMark, CommandHolds
<1> QED BY <1>1, CommandsInductive, PTL

\* Nobody but commands changes labels and cordons, and commands only where the object is
\* still one their flags select.
LEMMA StepActsOnSelected ==
  ASSUME CommandIInv, [Next]_vars
  PROVE  [\A d \in Drives :
            (drv'[d].label # drv[d].label \/ drv'[d].unschedulable # drv[d].unschedulable
               \/ (vol[d].label # vol'[d].label /\ vol'[d].status \in VolumeStatuses))
              => cmd.pc = "run" /\ IsSelected(d)]_vars
<1> USE DEF CommandIInv
<1> DEFINE Same(d) == SameMarks(drv[d], drv'[d])
                        /\ (vol[d].label = vol'[d].label \/ vol'[d].status \notin VolumeStatuses)
<1>1. CASE DriveSyncNext
  <2>1. StepKeeps
    BY <1>1, DriveSyncKeeps
  <2>2. \A d \in Drives : Same(d)
    BY <2>1 DEF StepKeeps, MarksKept, VolumesKept, VolumeStatuses
  <2> QED BY <2>2 DEF SameMarks
<1>2. CASE ProcessItem
  <2>1. PICK e \in Drives : ItemMakes(e)
    BY <1>2, ProcessItemMakes
  <2>2. \A d \in Drives \ {e} : drv'[d] = drv[d] /\ vol'[d] = vol[d]
    BY <2>1, MarksSetOnly DEF ItemMakes
  <2>3. UNCHANGED <<drv, vol>> \/ IsSelected(e)
    BY <2>1 DEF ItemMakes, MarksSet
  <2> QED BY <1>2, <2>2, <2>3 DEF ProcessItem
<1>3. CASE UNCHANGED <<drv, vol>>
  BY <1>3
<1> QED BY <1>1, <1>2, <1>3 DEF Next, RunCommand, ListObjects, GetObject, EndCommand, vars, syncVars

\* Commands act on what their flags select as it is then.
THEOREM CommandsActOnSelected == Spec => ActsOnSelected
<1>1. CommandIInv /\ [Next]_vars =>
        [\A d \in Drives :
           (drv'[d].label # drv[d].label \/ drv'[d].unschedulable # drv[d].unschedulable
              \/ (vol[d].label # vol'[d].label /\ vol'[d].status \in VolumeStatuses))
             => cmd.pc = "run" /\ IsSelected(d)]_vars
  BY StepActsOnSelected
<1> QED BY <1>1, CommandsInductive, PTL DEF Spec, ActsOnSelected

-----------------------------------------------------------------------------
(* Mounts *)

\* The drive's filesystem is mounted at its directory.
IsMounted(d) == \E m \in mounts : m.target = d /\ m.fsuuid = d

\* The name is that of a device with the drive's filesystem.
NameOf(name, d) == \E x \in DOMAIN host : host[x].name = name /\ host[x].fsuuid = d

\* Nothing but its own filesystem is mounted at the drive's directory.
OwnMounts(d) == \A m \in mounts : m.target = d => m.fsuuid = d

\* Names that Sync and the job looked up are still those of the drive's device.
NamesHold(d) ==
  /\ sync.pc \in {"get", "update"} => \A dev \in sync.map[d] : NameOf(dev.name, d)
  /\ job[d].pc \in {"checked", "unmounted", "repairing", "repaired"} => NameOf(job[d].source, d)

\* A job at work has marked the drive; what it mounted is mounted until it says so.
JobMarks(d) ==
  /\ job[d].pc \in {"marked", "checked", "unmounted", "repairing", "repaired", "mounted"} =>
       drv[d].status = "Repairing"
  /\ job[d].pc = "mounted" /\ job[d].mounted => IsMounted(d)

\* A drive that is Ready is mounted once Sync has been there.
ReadyMounts(d) ==
  drv[d].status = "Ready" =>
    /\ sync.pc = "up" => IsMounted(d)
    /\ sync.pc \in {"get", "update"} => IsMounted(d) \/ d \in ToSet(sync.todo)
    /\ sync.pc = "update" /\ d = Head(sync.todo) => IsMounted(d) \/ sync.read.status = "Ready"

DriveInv(d) == OwnMounts(d) /\ NamesHold(d) /\ JobMarks(d) /\ ReadyMounts(d)
MountInv == \A d \in Drives \ moved : DriveInv(d)

\* A name of the drive's device is of no other filesystem.
LEMMA NameIsUnique ==
  ASSUME HostType, NEW d \in Drives, NEW name, NameOf(name, d), NEW x \in DOMAIN host,
         host[x].name = name, host[x].fsuuid # NoUUID
  PROVE  host[x].fsuuid = d
<1>1. PICK y \in DOMAIN host : host[y].name = name /\ host[y].fsuuid = d
  BY DEF NameOf
<1>2. y = x
  BY <1>1, LayoutAssumption DEF HostType
<1> QED BY <1>1, <1>2

\* The link of the filesystem's UUID leads to the drive's device.
LEMMA LinkNames ==
  ASSUME HostType, NEW d \in Drives, NEW x \in ByUUID(host, d)
  PROVE  host[x].name \in Names /\ NameOf(host[x].name, d)
<1>1. x \in DOMAIN host /\ host[x].inUdev /\ host[x].udevUUID = d
  BY DEF ByUUID, probeFromUdev
<1>2. host[x].fsuuid = d
  BY <1>1, LayoutAssumption DEF HostType
<1> QED BY <1>1, <1>2, DeviceOfHost DEF HostType, NameOf

\* A mount leaves other drives alone and unmounts nothing; by the name of the drive's device
\* it mounts the drive's filesystem.
LEMMA MountsRight ==
  ASSUME HostType, UNCHANGED host, NEW name \in Names, NEW d \in Drives, NEW ok \in BOOLEAN,
         Mount(name, d, ok) \/ (ok /\ MountDone(name, d))
  PROVE  /\ \A e \in Drives : IsMounted(e) => IsMounted(e)'
         /\ \A e \in Drives \ {d} : OwnMounts(e) => OwnMounts(e)'
         /\ OwnMounts(d) /\ NameOf(name, d) => OwnMounts(d)' /\ (ok => IsMounted(d)')
<1>1. /\ mounts \subseteq mounts'
      /\ \A m \in mounts' \ mounts :
           /\ m.target = d
           /\ \E x \in DOMAIN host : host[x].name = name /\ host[x].fsuuid # NoUUID
                                    /\ m.fsuuid = host[x].fsuuid
      /\ ok => \E m \in mounts' : m.target = d
  BY MountStep
<1>2. \A e \in Drives : IsMounted(e) => IsMounted(e)'
  BY <1>1 DEF IsMounted
<1>3. \A e \in Drives \ {d} : OwnMounts(e) => OwnMounts(e)'
  BY <1>1 DEF OwnMounts
<1>4. ASSUME OwnMounts(d), NameOf(name, d) PROVE OwnMounts(d)' /\ (ok => IsMounted(d)')
  <2>1. \A m \in mounts' \ mounts : m.fsuuid = d
    BY <1>1, <1>4, NameIsUnique
  <2>2. OwnMounts(d)'
    BY <1>4, <2>1 DEF OwnMounts
  <2> QED BY <1>1, <2>2 DEF OwnMounts, IsMounted
<1> QED BY <1>2, <1>3, <1>4

\* A drive whose mounts, status and job stay as they are
LEMMA DriveAlone ==
  ASSUME NEW d \in Drives, DriveInv(d), UNCHANGED <<host, sync>>, OwnMounts(d)',
         IsMounted(d) => IsMounted(d)', job'[d] = job[d], drv'[d].status = drv[d].status
  PROVE  DriveInv(d)'
<1>1. NamesHold(d)'
  BY DEF DriveInv, NamesHold, NameOf
<1>2. JobMarks(d)'
  BY DEF DriveInv, JobMarks
<1>3. ReadyMounts(d)'
  BY DEF DriveInv, ReadyMounts
<1> QED BY <1>1, <1>2, <1>3 DEF DriveInv

\* The first steps of Sync
LEMMA StartSyncMounts == ASSUME TypeOK, MountInv, StartSync PROVE MountInv'
<1>1. PICK silent \in {{}} \cup {{x} : x \in DOMAIN host} :
        sync' = [pc |-> "get", todo |-> DriveOrder, read |-> NoObject,
                 map |-> [d \in Drives |->
                            {[name |-> host[x].name, total |-> host[x].total] :
                               x \in probeDeviceMap(host, mounts, silent, Drives)[d]}]]
  BY DEF StartSync
<1>2. UNCHANGED <<host, mounts, drv, job, moved>>
  BY DEF StartSync, syncFrame
<1> SUFFICES ASSUME NEW d \in Drives, d \notin moved PROVE DriveInv(d)'
  BY <1>2 DEF MountInv
<1>3. DriveInv(d)
  BY DEF MountInv
<1>4. OwnMounts(d)' /\ JobMarks(d)'
  BY <1>2, <1>3 DEF DriveInv, OwnMounts, JobMarks, IsMounted
<1>5. NamesHold(d)'
  <2>1. ASSUME NEW dev \in sync'.map[d] PROVE NameOf(dev.name, d)
    <3>1. PICK x \in probeDeviceMap(host, mounts, silent, Drives)[d] :
            dev = [name |-> host[x].name, total |-> host[x].total]
      BY <1>1, <2>1
    <3>2. x \in DOMAIN host /\ host[x].fsuuid = d
      BY ProbeFinds
    <3> QED BY <3>1, <3>2 DEF NameOf
  <2> QED BY <1>2, <1>3, <2>1 DEF DriveInv, NamesHold, NameOf
<1>6. ReadyMounts(d)'
  BY <1>1 DEF ReadyMounts, Drives
<1> QED BY <1>4, <1>5, <1>6 DEF DriveInv

\* What Sync reads of a drive is bound to its device.
LEMMA GetDriveMounts == ASSUME TypeOK, MountInv, GetDrive PROVE MountInv'
<1>1. sync' = [sync EXCEPT !.pc = "update", !.read = drv[Head(sync.todo)]] /\ sync.pc = "get"
  BY DEF GetDrive
<1>2. UNCHANGED <<host, mounts, drv, job, moved>>
  BY DEF GetDrive, syncFrame
<1>3. /\ sync'.pc = "update" /\ sync'.read = drv[Head(sync.todo)] /\ sync'.todo = sync.todo
      /\ sync'.map = sync.map
  BY <1>1 DEF TypeOK, SyncType, SyncState
<1> SUFFICES ASSUME NEW d \in Drives, d \notin moved PROVE DriveInv(d)'
  BY <1>2 DEF MountInv
<1>4. DriveInv(d)
  BY DEF MountInv
<1>5. OwnMounts(d)' /\ JobMarks(d)'
  BY <1>2, <1>4 DEF DriveInv, OwnMounts, JobMarks, IsMounted
<1>6. NamesHold(d)'
  BY <1>1, <1>2, <1>3, <1>4 DEF DriveInv, NamesHold, NameOf
<1>7. ReadyMounts(d)'
  BY <1>1, <1>2, <1>3, <1>4 DEF DriveInv, ReadyMounts, IsMounted
<1> QED BY <1>5, <1>6, <1>7 DEF DriveInv

\* The end of Sync forgets what was read.
LEMMA EndSyncMounts == ASSUME TypeOK, MountInv, EndSync PROVE MountInv'
<1>1. sync.pc = "get" /\ sync.todo = <<>> /\ sync'.pc = "up"
  BY DEF EndSync, Down
<1>2. UNCHANGED <<host, mounts, drv, job, moved>>
  BY DEF EndSync, syncFrame
<1> SUFFICES ASSUME NEW d \in Drives, d \notin moved PROVE DriveInv(d)'
  BY <1>2 DEF MountInv
<1>3. DriveInv(d)
  BY DEF MountInv
<1>4. OwnMounts(d)' /\ JobMarks(d)'
  BY <1>2, <1>3 DEF DriveInv, OwnMounts, JobMarks, IsMounted
<1>5. NamesHold(d)'
  BY <1>1, <1>2, <1>3 DEF DriveInv, NamesHold, NameOf
<1>6. ReadyMounts(d)'
  <2>1. d \notin ToSet(sync.todo)
    BY <1>1 DEF ToSet
  <2> QED BY <1>1, <1>2, <1>3, <2>1 DEF DriveInv, ReadyMounts, IsMounted
<1> QED BY <1>4, <1>5, <1>6 DEF DriveInv

\* What is to be done but not next is to be done afterwards.
LEMMA TailHasRest ==
  ASSUME NEW s \in Seq(Drives), s # <<>>, NEW d \in ToSet(s), d # Head(s)
  PROVE  d \in ToSet(Tail(s))
<1>1. PICK i \in 1..Len(s) : s[i] = d
  BY DEF ToSet
<1>2. i # 1
  BY <1>1
<1>3. i - 1 \in 1..Len(Tail(s)) /\ Tail(s)[i - 1] = d
  BY <1>1, <1>2
<1>4. DOMAIN Tail(s) = 1..Len(Tail(s))
  OBVIOUS
<1> QED BY <1>3, <1>4 DEF ToSet

\* Drives that Sync does not have in hand when it ends an update
LEMMA UpdateMountsOthers ==
  ASSUME TypeOK, NEW d \in Drives, DriveInv(d), d # Head(sync.todo), sync.pc = "update",
         sync'.pc = "get", sync'.map = sync.map, sync'.todo \in {sync.todo, Tail(sync.todo)},
         UNCHANGED <<host, job>>, drv'[d] = drv[d], OwnMounts(d)', IsMounted(d) => IsMounted(d)'
  PROVE  DriveInv(d)'
<1>1. NamesHold(d)' /\ JobMarks(d)'
  BY DEF DriveInv, NamesHold, NameOf, JobMarks
<1>2. sync.todo \in Seq(Drives) /\ sync.todo # <<>>
  BY DEF TypeOK, SyncType, SyncState
<1>3. d \in ToSet(sync.todo) => d \in ToSet(sync'.todo)
  BY <1>2, TailHasRest
<1>4. ReadyMounts(d)'
  BY <1>3 DEF DriveInv, ReadyMounts
<1> QED BY <1>1, <1>4 DEF DriveInv

\* The drive that Sync has in hand
LEMMA UpdateMountsHead ==
  ASSUME TypeOK, NEW d \in Drives, DriveInv(d), d = Head(sync.todo), sync.pc = "update",
         d \notin moved', UNCHANGED <<host, job>>, NEW new \in DriveObject, SyncMakes(d, new)
  PROVE  DriveInv(d)'
<1>1. /\ sync'.pc = "get" /\ sync'.map = sync.map /\ sync.read \in DriveObject
      /\ \/ sync'.todo = sync.todo /\ UNCHANGED drv
         \/ sync'.todo = Tail(sync.todo) /\ new = sync.read /\ UNCHANGED drv
         \/ /\ sync'.todo = Tail(sync.todo) /\ drv[d] = sync.read
            /\ drv' = [drv EXCEPT ![d] = new]
  BY EndUpdateStep DEF SyncMakes
<1>2. /\ sync.todo # <<>> /\ sync.todo \in Seq(Drives)
      /\ sync.map \in [Drives -> SUBSET Probed]
  BY DEF TypeOK, SyncType, SyncState
<1>3. d \in ToSet(sync.todo)
  <2>1. 1 \in DOMAIN sync.todo /\ sync.todo[1] = d
    BY <1>2
  <2> QED BY <2>1 DEF ToSet
<1>4. drv' = [drv EXCEPT ![d] = new] => drv'[d] = new
  BY DEF TypeOK, DriveType
<1>5. /\ OwnMounts(d)' /\ (IsMounted(d) => IsMounted(d)')
      /\ \/ new.status # "Ready" /\ (sync.read.status # "Repairing" \/ new.status = "Repairing")
         \/ sync.read.status \in Verified /\ (new.status = "Ready" => IsMounted(d)')
  <2>1. CASE /\ UNCHANGED mounts /\ new.status # "Ready"
             /\ sync.read.status = "Repairing" => d \in moved'
    BY <2>1 DEF DriveInv, OwnMounts, IsMounted
  <2>2. CASE /\ UNCHANGED mounts
             /\ new.status = sync.read.status /\ sync.read.status \notin Verified
    BY <2>2 DEF DriveInv, OwnMounts, IsMounted, Verified
  <2>3. CASE /\ sync.read.status \in Verified
             /\ \E dev \in sync.map[d], ok \in BOOLEAN :
                  Mount(dev.name, d, ok) /\ (new.status = "Ready" => ok)
    <3>1. PICK dev \in sync.map[d], ok \in BOOLEAN :
                 Mount(dev.name, d, ok) /\ (new.status = "Ready" => ok)
      BY <2>3
    <3>2. dev.name \in Names /\ NameOf(dev.name, d)
      BY <1>2 DEF Probed, DriveInv, NamesHold
    <3> QED BY <2>3, <3>1, <3>2, MountsRight DEF TypeOK, DriveInv
  <2> QED BY <2>1, <2>2, <2>3 DEF SyncMakes
<1>6. NamesHold(d)'
  BY <1>1 DEF DriveInv, NamesHold, NameOf
<1>7. JobMarks(d)'
  <2>1. drv[d].status = "Repairing" => drv'[d].status = "Repairing"
    BY <1>1, <1>4, <1>5 DEF Verified
  <2> QED BY <1>5, <2>1 DEF DriveInv, JobMarks
<1>8. ReadyMounts(d)'
  <2> SUFFICES ASSUME drv'[d].status = "Ready" PROVE IsMounted(d)' \/ d \in ToSet(sync'.todo)
    BY <1>1 DEF ReadyMounts
  <2>1. CASE sync'.todo = sync.todo
    BY <1>3, <2>1
  <2>2. CASE new = sync.read /\ UNCHANGED drv
    BY <1>5, <2>2 DEF DriveInv, ReadyMounts
  <2>3. CASE drv' = [drv EXCEPT ![d] = new]
    BY <1>4, <1>5, <2>3
  <2> QED BY <1>1, <2>1, <2>2, <2>3
<1> QED BY <1>5, <1>6, <1>7, <1>8 DEF DriveInv

\* An update of Sync makes a drive ready only with its filesystem mounted.
LEMMA UpdateDriveMounts == ASSUME TypeOK, MountInv, UpdateDrive PROVE MountInv'
<1> DEFINE h == Head(sync.todo)
<1>1. /\ sync.pc = "update" /\ h \in Drives /\ sync.map \in [Drives -> SUBSET Probed]
      /\ UNCHANGED <<host, job>>
  BY UpdateDriveMakes DEF UpdateDrive
<1>2. PICK new \in DriveObject : SyncMakes(h, new)
  BY UpdateDriveMakes
<1>3. /\ sync'.pc = "get" /\ sync'.map = sync.map /\ sync'.todo \in {sync.todo, Tail(sync.todo)}
      /\ UNCHANGED drv \/ drv' = [drv EXCEPT ![h] = new]
  BY <1>1, <1>2, EndUpdateStep DEF SyncMakes
<1> SUFFICES ASSUME NEW d \in Drives, d \notin moved' PROVE DriveInv(d)'
  BY DEF MountInv
<1>4. DriveInv(d)
  BY <1>2 DEF SyncMakes, MountInv
<1>5. CASE d = h
  BY <1>1, <1>2, <1>4, <1>5, UpdateMountsHead
<1>6. CASE d # h
  <2>1. drv'[d] = drv[d]
    BY <1>3, <1>6 DEF TypeOK, DriveType
  <2>2. OwnMounts(d)' /\ (IsMounted(d) => IsMounted(d)')
    <3>1. CASE UNCHANGED mounts
      BY <1>4, <3>1 DEF DriveInv, OwnMounts, IsMounted
    <3>2. ASSUME NEW dev \in sync.map[h], NEW ok \in BOOLEAN, Mount(dev.name, h, ok)
          PROVE  OwnMounts(d)' /\ (IsMounted(d) => IsMounted(d)')
      <4>1. dev.name \in Names /\ HostType
        BY <1>1 DEF Probed, TypeOK
      <4> QED BY <1>1, <1>4, <1>6, <3>2, <4>1, MountsRight DEF DriveInv
    <3> QED BY <1>2, <3>1, <3>2 DEF SyncMakes
  <2> QED BY <1>1, <1>3, <1>4, <1>6, <2>1, <2>2, UpdateMountsOthers
<1> QED BY <1>5, <1>6

\* checkDrive makes a drive ready only with its filesystem mounted.
LEMMA CheckDriveMounts == ASSUME TypeOK, MountInv, CheckDrive PROVE MountInv'
<1> DEFINE c == check.drive
<1>1. PICK new \in DriveObject : CheckMakes(c, new)
  BY CheckDriveMakes
<1>2. c \in Drives /\ UNCHANGED <<host, sync, job>>
  BY CheckDriveMakes DEF CheckDrive, checkFrame
<1> HIDE DEF c
<1>3. drv' = [drv EXCEPT ![c] = new] => drv'[c] = new /\ \A d \in Drives \ {c} : drv'[d] = drv[d]
  BY <1>2 DEF TypeOK, DriveType
<1> SUFFICES ASSUME NEW d \in Drives, d \notin moved' PROVE DriveInv(d)'
  BY DEF MountInv
<1>4. DriveInv(d)
  BY <1>1 DEF CheckMakes, MountInv
<1>5. OwnMounts(d)' /\ (IsMounted(d) => IsMounted(d)')
  <2>1. CASE UNCHANGED mounts
    BY <1>4, <2>1 DEF DriveInv, OwnMounts, IsMounted
  <2>2. ASSUME NEW x \in ByUUID(host, c), NEW ok \in BOOLEAN, Mount(host[x].name, c, ok)
        PROVE  OwnMounts(d)' /\ (IsMounted(d) => IsMounted(d)')
    <3>1. HostType /\ host[x].name \in Names /\ NameOf(host[x].name, c)
      BY <1>2, LinkNames DEF TypeOK
    <3> QED BY <1>2, <1>4, <2>2, <3>1, MountsRight DEF DriveInv
  <2> QED BY <1>1, <2>1, <2>2 DEF CheckMakes
<1>6. CASE drv'[d].status = drv[d].status
  BY <1>2, <1>4, <1>5, <1>6, DriveAlone
<1>7. CASE drv'[d].status # drv[d].status
  <2>1. d = c /\ drv' = [drv EXCEPT ![c] = new] /\ drv'[d] = new
    BY <1>1, <1>3, <1>7 DEF CheckMakes
  <2>2. drv[d].status # "Repairing" /\ (new.status = "Ready" => IsMounted(d)')
    <3>1. CASE /\ drv' = [drv EXCEPT ![c] = new] /\ new.status = "Error"
               /\ drv[c].status = "Repairing" => c \in moved'
      BY <2>1, <3>1
    <3>2. CASE drv[c].status = "Ready" /\ new.status = "Lost"
      BY <2>1, <3>2
    <3>3. ASSUME NEW x \in ByUUID(host, c), NEW ok \in BOOLEAN, Mount(host[x].name, c, ok),
                 drv[c].status = "Lost", new.status = "Ready" => ok
          PROVE  drv[d].status # "Repairing" /\ (new.status = "Ready" => IsMounted(d)')
      <4>1. HostType /\ host[x].name \in Names /\ NameOf(host[x].name, c)
        BY <1>2, LinkNames DEF TypeOK
      <4> QED BY <1>2, <1>4, <2>1, <3>3, <4>1, MountsRight DEF DriveInv
    <3> QED BY <1>1, <1>7, <2>1, <3>1, <3>2, <3>3 DEF CheckMakes
  <2>3. NamesHold(d)'
    BY <1>2, <1>4 DEF DriveInv, NamesHold, NameOf
  <2>4. JobMarks(d)'
    BY <1>2, <1>4, <2>2 DEF DriveInv, JobMarks
  <2>5. ReadyMounts(d)'
    BY <2>1, <2>2 DEF ReadyMounts
  <2> QED BY <1>5, <2>3, <2>4, <2>5 DEF DriveInv
<1> QED BY <1>6, <1>7

\* A job unmounts a drive it has marked, and mounts it by the name it looked up.
LEMMA JobStepMounts == ASSUME TypeOK, MountInv, NEW j \in Drives, JobStep(j) PROVE MountInv'
<1>1. JobMakes(j) /\ JobType' /\ JobType /\ drv[j] \in DriveObject /\ job[j] \in JobState
  BY JobStepMakes DEF TypeOK, DriveType, JobType
<1>2. UNCHANGED <<host, sync, moved>> /\ \A d \in Drives \ {j} : job'[d] = job[d]
  BY <1>1 DEF JobMakes
<1>3. \A new : drv' = [drv EXCEPT ![j] = new] =>
                 drv'[j] = new /\ \A d \in Drives \ {j} : drv'[d] = drv[d]
  BY DEF TypeOK, DriveType
<1> SUFFICES ASSUME NEW d \in Drives, d \notin moved PROVE DriveInv(d)'
  BY <1>2 DEF MountInv
<1>4. DriveInv(d)
  BY DEF MountInv
<1>5. CASE d # j
  <2>1. drv'[d].status = drv[d].status /\ job'[d] = job[d]
    BY <1>1, <1>2, <1>3, <1>5 DEF JobMakes
  <2>2. OwnMounts(d)' /\ (IsMounted(d) => IsMounted(d)')
    <3>1. CASE UNCHANGED mounts
      BY <1>4, <3>1 DEF DriveInv, OwnMounts, IsMounted
    <3>2. CASE mounts' = Unmounted(mounts, j)
      BY <1>4, <1>5, <3>2 DEF DriveInv, OwnMounts, IsMounted, Unmounted, FilterByMountPoint
    <3>3. CASE /\ job[j].pc = "repaired" /\ job'[j].mounted \in BOOLEAN
               /\ Mount(job[j].source, j, job'[j].mounted)
      <4>1. HostType /\ job[j].source \in Names
        BY <1>1, <3>3 DEF TypeOK, JobType
      <4> QED BY <1>2, <1>4, <1>5, <3>3, <4>1, MountsRight DEF DriveInv
    <3> QED BY <1>1, <3>1, <3>2, <3>3 DEF JobMakes
  <2> QED BY <1>2, <1>4, <2>1, <2>2, DriveAlone
<1>6. CASE d = j
  <2>1. CASE job'[d].pc \in {"none", "start", "ended"} /\ UNCHANGED <<drv, mounts>>
    BY <1>2, <1>4, <2>1
       DEF DriveInv, OwnMounts, NamesHold, NameOf, JobMarks, ReadyMounts, IsMounted
  <2>2. CASE /\ job'[d].pc = "marked" /\ UNCHANGED mounts
             /\ drv' = [drv EXCEPT ![d] = [drv[d] EXCEPT !.status = "Repairing"]]
    <3>1. drv'[d].status = "Repairing"
      <4>1. drv'[d] = [drv[d] EXCEPT !.status = "Repairing"]
        BY <2>2 DEF TypeOK, DriveType
      <4> QED BY <1>1, <1>6, <4>1 DEF DriveObject
    <3> QED BY <1>2, <1>4, <2>2, <3>1
            DEF DriveInv, OwnMounts, NamesHold, NameOf, JobMarks, ReadyMounts, IsMounted
  <2>3. CASE /\ job[d].pc = "marked" /\ job'[d].pc = "checked" /\ UNCHANGED <<drv, mounts>>
             /\ \E x \in ByUUID(host, d) : job'[d].source = host[x].name
    <3>1. NameOf(job'[d].source, d)
      BY <2>3, LinkNames DEF TypeOK
    <3>2. drv'[d].status = "Repairing"
      BY <1>4, <2>3 DEF DriveInv, JobMarks
    <3>3. OwnMounts(d)'
      BY <1>4, <2>3 DEF DriveInv, OwnMounts
    <3>4. NamesHold(d)'
      BY <1>2, <1>4, <3>1 DEF DriveInv, NamesHold, NameOf
    <3>5. JobMarks(d)' /\ ReadyMounts(d)'
      BY <2>3, <3>2 DEF JobMarks, ReadyMounts
    <3> QED BY <3>3, <3>4, <3>5 DEF DriveInv
  <2>7. CASE /\ job[d].pc = "checked" /\ job'[d].pc = "unmounted" /\ UNCHANGED drv
             /\ job'[d].source = job[d].source /\ mounts' = Unmounted(mounts, d)
    <3>1. drv'[d].status = "Repairing"
      BY <1>4, <2>7 DEF DriveInv, JobMarks
    <3>2. OwnMounts(d)'
      BY <1>4, <2>7 DEF DriveInv, OwnMounts, Unmounted
    <3>3. NamesHold(d)'
      BY <1>2, <1>4, <2>7 DEF DriveInv, NamesHold, NameOf
    <3>4. JobMarks(d)' /\ ReadyMounts(d)'
      BY <2>7, <3>1 DEF JobMarks, ReadyMounts
    <3> QED BY <3>2, <3>3, <3>4 DEF DriveInv
  <2>4. CASE /\ job[d].pc \in {"unmounted", "repairing"} /\ job'[d].pc \in {"repairing", "repaired"}
             /\ job'[d].source = job[d].source /\ UNCHANGED <<drv, mounts>>
    BY <1>2, <1>4, <2>4
       DEF DriveInv, OwnMounts, NamesHold, NameOf, JobMarks, ReadyMounts, IsMounted
  <2>5. CASE /\ job[d].pc = "repaired" /\ job'[d].pc = "mounted" /\ UNCHANGED drv
             /\ job'[d].mounted \in BOOLEAN /\ Mount(job[d].source, d, job'[d].mounted)
    <3>1. HostType /\ job[d].source \in Names /\ NameOf(job[d].source, d)
      BY <1>1, <1>4, <2>5 DEF TypeOK, JobType, DriveInv, NamesHold
    <3>2. OwnMounts(d)' /\ (job'[d].mounted => IsMounted(d)')
      BY <1>2, <1>4, <2>5, <3>1, MountsRight DEF DriveInv
    <3>3. drv'[d].status = "Repairing"
      BY <1>4, <2>5 DEF DriveInv, JobMarks
    <3>4. NamesHold(d)'
      BY <1>2, <1>4, <2>5 DEF DriveInv, NamesHold, NameOf
    <3>5. JobMarks(d)' /\ ReadyMounts(d)'
      BY <3>2, <3>3 DEF JobMarks, ReadyMounts
    <3> QED BY <3>2, <3>4, <3>5 DEF DriveInv
  <2>6. CASE /\ job[d].pc = "mounted" /\ job'[d].pc = "ended" /\ UNCHANGED mounts
             /\ drv' = [drv EXCEPT ![d] = IF job[d].mounted THEN [drv[d] EXCEPT !.status = "Ready"]
                                          ELSE MountFailed(drv[d])]
    <3>1. job[d].mounted \/ drv'[d].status = "Error"
      <4>1. CASE ~job[d].mounted
        <5>1. drv' = [drv EXCEPT ![d] = MountFailed(drv[d])]
          BY <2>6, <4>1
        <5>2. drv'[d] = MountFailed(drv[d])
          BY <5>1 DEF TypeOK, DriveType
        <5> QED BY <1>1, <1>6, <5>2, MountedChange
      <4> QED BY <4>1
    <3>2. drv'[d].status = "Ready" => IsMounted(d)'
      BY <1>4, <2>6, <3>1 DEF DriveInv, JobMarks, IsMounted
    <3>3. OwnMounts(d)' /\ NamesHold(d)' /\ JobMarks(d)'
      BY <1>2, <1>4, <2>6 DEF DriveInv, OwnMounts, NamesHold, NameOf, JobMarks
    <3> QED BY <3>2, <3>3 DEF ReadyMounts, DriveInv
  <2> QED BY <1>1, <1>6, <2>1, <2>2, <2>3, <2>4, <2>5, <2>6, <2>7 DEF JobMakes
<1> QED BY <1>5, <1>6

\* Volumes are mounted elsewhere.
LEMMA VolumeStepMounts == ASSUME TypeOK, MountInv, NEW v \in Drives, VolumeStep(v) PROVE MountInv'
<1>1. UNCHANGED <<host, sync, job, moved>>
  BY DEF VolumeStep, Reserve, Stage, Unstage, Release, SyncVolume, volumeFrame
<1>2. \A d \in Drives : drv'[d].status = drv[d].status
  <2>1. CASE UNCHANGED drv
    BY <2>1
  <2>2. CASE Reserve(v) \/ Release(v)
    <3>1. \E f, a : drv' = [drv EXCEPT ![v] = [drv[v] EXCEPT !.free = f, !.allocated = a]]
      <4>1. CASE Reserve(v)
        <5>1. drv' = [drv EXCEPT ![v] = [drv[v] EXCEPT !.free = drv[v].free - 1,
                                                       !.allocated = drv[v].allocated + 1]]
          BY <4>1 DEF Reserve
        <5> QED BY <5>1
      <4>2. CASE Release(v)
        <5>1. drv' = [drv EXCEPT ![v] = [drv[v] EXCEPT !.free = drv[v].free + 1,
                                            !.allocated = drv[v].total - (drv[v].free + 1)]]
          BY <4>2 DEF Release
        <5> QED BY <5>1
      <4> QED BY <2>2, <4>1, <4>2
    <3>2. PICK f, a : drv' = [drv EXCEPT ![v] = [drv[v] EXCEPT !.free = f, !.allocated = a]]
      BY <3>1
    <3> DEFINE o == [drv[v] EXCEPT !.free = f, !.allocated = a]
    <3>3. drv[v] \in DriveObject
      BY DEF TypeOK, DriveType
    <3>4. o.status = drv[v].status
      BY <3>3 DEF DriveObject
    <3> HIDE DEF o
    <3>5. drv' = [drv EXCEPT ![v] = o]
      BY <3>2 DEF o
    <3> QED BY <3>4, <3>5 DEF TypeOK, DriveType
  <2> QED BY <2>1, <2>2 DEF VolumeStep, Stage, Unstage, SyncVolume
<1>3. ASSUME NEW d \in Drives, OwnMounts(d) PROVE OwnMounts(d)' /\ (IsMounted(d) => IsMounted(d)')
  <2>1. CASE UNCHANGED mounts
    BY <1>3, <2>1 DEF OwnMounts, IsMounted
  <2>2. CASE Stage(v)
    <3>1. PICK m \in mounts : mounts' = mounts \cup {[m EXCEPT !.target = StagingPath(v)]}
      BY <2>2 DEF Stage, FilterByMountPoint
    <3>2. [m EXCEPT !.target = StagingPath(v)].target = StagingPath(v)
      BY DEF TypeOK, HostType, MountObject
    <3>3. StagingPath(v) # d
      BY DriveSyncAssumption
    <3> QED BY <1>3, <3>1, <3>2, <3>3 DEF OwnMounts, IsMounted
  <2>3. CASE Unstage(v)
    <3>1. mounts' = {m \in mounts : m.target # StagingPath(v)}
      BY <2>3 DEF Unstage, Unmounted, FilterByMountPoint
    <3>2. StagingPath(v) # d
      BY DriveSyncAssumption
    <3> QED BY <1>3, <3>1, <3>2 DEF OwnMounts, IsMounted
  <2> QED BY <2>1, <2>2, <2>3 DEF VolumeStep, Reserve, Release, SyncVolume
<1> SUFFICES ASSUME NEW d \in Drives, d \notin moved PROVE DriveInv(d)'
  BY <1>1 DEF MountInv
<1>4. DriveInv(d)
  BY DEF MountInv
<1> QED BY <1>1, <1>2, <1>3, <1>4, DriveAlone DEF DriveInv

\* A host that changes: drives in hand are not spoken of any more.  After a reboot nothing is
\* mounted and nobody has a name in hand.
LEMMA HostStepMounts ==
  ASSUME TypeOK, MountInv, ChangeHost \/ StopServer \/ Reboot
  PROVE  MountInv'
<1>1. CASE ChangeHost
  <2> SUFFICES ASSUME NEW d \in Drives, d \notin moved' PROVE DriveInv(d)'
    BY DEF MountInv
  <2>1. /\ d \notin moved /\ d \notin InHand /\ UNCHANGED <<mounts, drv, sync, job>>
    BY <1>1 DEF ChangeHost
  <2>2. /\ sync.pc \notin {"get", "update"}
        /\ job[d].pc \notin {"checked", "unmounted", "repairing", "repaired"}
    BY <2>1 DEF InHand
  <2>3. DriveInv(d)
    BY <2>1 DEF MountInv
  <2> QED BY <2>1, <2>2, <2>3
          DEF DriveInv, OwnMounts, NamesHold, JobMarks, ReadyMounts, IsMounted
<1>2. CASE StopServer
  <2> SUFFICES ASSUME NEW d \in Drives, d \notin moved PROVE DriveInv(d)'
    BY <1>2 DEF MountInv, StopServer
  <2>1. DriveInv(d)
    BY DEF MountInv
  <2>2. sync'.pc = "down" /\ UNCHANGED <<host, drv, job>>
    BY <1>2, DownType DEF StopServer
  <2>3. OwnMounts(d)' /\ (IsMounted(d) => IsMounted(d)')
    <3>1. CASE UNCHANGED mounts
      BY <2>1, <3>1 DEF DriveInv, OwnMounts, IsMounted
    <3>2. CASE MountedOnly
      <4>1. PICK name \in Names, e \in Drives :
              /\ MountDone(name, e)
              /\ \/ sync.pc = "update" /\ \E dev \in sync.map[e] : dev.name = name
                 \/ \E x \in ByUUID(host, e) : host[x].name = name
        BY <3>2, MountedOnlyMakes
      <4>2. HostType /\ (e = d => NameOf(name, d))
        BY <2>1, <4>1, LinkNames DEF TypeOK, DriveInv, NamesHold
      <4> QED BY <2>1, <2>2, <4>1, <4>2, MountsRight DEF DriveInv
    <3> QED BY <1>2, <3>1, <3>2 DEF StopServer
  <2>4. JobMarks(d)'
    BY <2>1, <2>2, <2>3 DEF DriveInv, JobMarks
  <2> QED BY <2>2, <2>1, <2>3, <2>4 DEF DriveInv, NamesHold, NameOf, ReadyMounts
<1>3. CASE Reboot
  <2> SUFFICES ASSUME NEW d \in Drives PROVE DriveInv(d)'
    BY DEF MountInv
  <2>1. sync'.pc = "down" /\ mounts' = {}
    BY <1>3, DownType DEF Reboot
  <2>2. job'[d].pc \in {"none", "start", "ended"}
    <3>1. CASE job[d].pc \in {"none", "ended"}
      BY <1>3, <3>1 DEF Reboot
    <3>2. CASE job[d].pc \notin {"none", "ended"}
      <4>1. job'[d] = [NoJob EXCEPT !.pc = IF job[d].tries = 0 THEN "start" ELSE "ended",
                                    !.tries = 1]
        BY <1>3, <3>2 DEF Reboot
      <4> QED BY <4>1 DEF NoJob
    <3> QED BY <3>1, <3>2
  <2> QED BY <2>1, <2>2 DEF DriveInv, OwnMounts, NamesHold, JobMarks, ReadyMounts
<1> QED BY <1>1, <1>2, <1>3

\* A command starts jobs and sets marks; it mounts nothing and changes no status.
LEMMA ItemMounts == ASSUME TypeOK, MountInv, NEW i \in Drives, ItemMakes(i) PROVE MountInv'
<1>1. UNCHANGED <<host, mounts, sync, moved>> /\ MarksSet(i)
      /\ (UNCHANGED job \/ (job[i].pc = "none" /\ Goto(i, "start")))
  BY DEF ItemMakes
<1>2. \A d \in Drives : drv'[d].status = drv[d].status
  BY <1>1, MarksSetOnly
<1>3. \A d \in Drives : job'[d] = job[d] \/ job'[d].pc = "start"
  <2>1. CASE Goto(i, "start")
    BY <2>1, GotoStep DEF TypeOK, JobPcs
  <2> QED BY <1>1, <2>1
<1> SUFFICES ASSUME NEW d \in Drives, d \notin moved PROVE DriveInv(d)'
  BY <1>1 DEF MountInv
<1>4. DriveInv(d)
  BY DEF MountInv
<1>5. OwnMounts(d)' /\ (IsMounted(d) => IsMounted(d)')
  BY <1>1, <1>4 DEF DriveInv, OwnMounts, IsMounted
<1>6. CASE job'[d] = job[d]
  BY <1>1, <1>2, <1>4, <1>5, <1>6, DriveAlone
<1>7. CASE job'[d].pc = "start"
  BY <1>1, <1>2, <1>4, <1>5, <1>7 DEF DriveInv, NamesHold, NameOf, JobMarks, ReadyMounts
<1> QED BY <1>3, <1>6, <1>7

-----------------------------------------------------------------------------
(* Ready drives, of every behaviour *)

\* The inductive invariant of mounts, with that of commands for what items are
MountIInv == CommandIInv /\ MountInv

\* The invariant holds at first.
LEMMA MountIInvInit == Init => MountIInv
<1> SUFFICES ASSUME Init PROVE CommandIInv /\ MountInv
  BY DEF MountIInv
<1>1. mounts = {} /\ sync.pc = "down"
  BY DownType DEF Init, DriveSyncInit
<1>2. \A d \in Drives : job[d].pc \in {"none", "ended"}
  BY DEF Init, DriveSyncInit, NoJob
<1>3. MountInv
  BY <1>1, <1>2 DEF MountInv, DriveInv, OwnMounts, NamesHold, JobMarks, ReadyMounts
<1> QED BY <1>3, CommandIInvInit

\* Every step of the system keeps the invariant.
LEMMA MountIInvStep == MountIInv /\ [Next]_vars => MountIInv'
<1> SUFFICES ASSUME MountIInv, [Next]_vars PROVE MountIInv'
  OBVIOUS
<1>1. CommandIInv /\ TypeOK /\ MountInv /\ CommandInv
  BY DEF MountIInv, CommandIInv
<1>2. CommandIInv'
  BY <1>1, CommandIInvStep
<1>3. ASSUME SyncStep PROVE MountInv'
  BY <1>1, <1>3, StartSyncMounts, GetDriveMounts, UpdateDriveMounts, EndSyncMounts,
     CheckDriveMounts DEF SyncStep
<1>4. ASSUME ChangeHost \/ StopServer \/ Reboot PROVE MountInv'
  BY <1>1, <1>4, HostStepMounts
<1>5. ASSUME UNCHANGED <<host, mounts, drv, sync, job, moved>> PROVE MountInv'
  BY <1>1, <1>5 DEF MountInv, DriveInv, OwnMounts, NamesHold, NameOf, JobMarks, ReadyMounts,
                    IsMounted
<1>6. ASSUME NEW d \in Drives, StartCheck(d) PROVE MountInv'
  BY <1>5, <1>6 DEF StartCheck, checkFrame
<1>7. ASSUME NEW d \in Drives, JobStep(d) PROVE MountInv'
  BY <1>1, <1>7, JobStepMounts
<1>8. ASSUME NEW d \in Drives, VolumeStep(d) PROVE MountInv'
  BY <1>1, <1>8, VolumeStepMounts
<1>9. ASSUME ProcessItem PROVE MountInv'
  BY <1>1, <1>9, ProcessItemMakes, ItemMounts
<1>10. ASSUME RunCommand \/ ListObjects \/ GetObject \/ EndCommand \/ UNCHANGED vars
       PROVE  MountInv'
  BY <1>5, <1>10 DEF RunCommand, ListObjects, GetObject, EndCommand, vars, syncVars
<1>11. MountInv'
  BY <1>3, <1>4, <1>6, <1>7, <1>8, <1>9, <1>10 DEF Next, DriveSyncNext
<1> QED BY <1>2, <1>11 DEF MountIInv

\* The inductive invariant holds always.
THEOREM MountsInductive == Spec => []MountIInv
  BY MountIInvInit, MountIInvStep, PTL DEF Spec

\* A drive that Sync has been at and that is Ready has its own filesystem mounted at its
\* directory, however often the node server stops, jobs fail and the host changes, unless
\* the drive changed while one of them had it in hand.
THEOREM ReadyIsAlwaysMounted == Spec => []ReadyIsMounted
<1>1. MountIInv => ReadyIsMounted
  BY DEF MountIInv, MountInv, DriveInv, ReadyMounts, IsMounted, ReadyIsMounted,
         FilterByMountPoint
<1> QED BY <1>1, MountsInductive, PTL
=============================================================================
