----------------------------- MODULE DriveSync -------------------------------
(***************************************************************************)
(* Drives of a node and the devices they are on: Sync of the node server   *)
(* when it starts, checkDrive of the drive controller, and repair jobs.    *)
(*                                                                         *)
(* A drive is named by the UUID of its filesystem, and mounted at a        *)
(* directory of that name.  Devices change their names on a reboot and may *)
(* be pulled, plugged in, copied and grown.  Everyone updates the drive's  *)
(* object from what they read before: the Update is refused if it has      *)
(* changed since, which is taken to be when it differs from what was read. *)
(***************************************************************************)
EXTENDS DeviceProbe, Sequences, SequencesExt

CONSTANTS
  DriveOrder,   \* the drives, in the order they are listed
  Layouts,      \* states of the host: functions from device numbers to devices
  FirstLayout,  \* the one it is in at first
  Migrated,     \* drives that came from DirectCSI and are not relabelled yet
  Used,         \* drives that a volume may be made on
  Served,       \* drives that were cordoned and labelled before
  Repaired,     \* drives with a repair job that has ended
  NoObject,
  MaxEvents     \* bound: changes of the host, stops and failures

Drives == ToSet(DriveOrder)
\* The staging target path of the volume of the drive
StagingPath(d) == <<"staging", d>>

ASSUME DriveSyncAssumption ==
  /\ DriveOrder \in Seq(Drives) /\ IsInjective(DriveOrder) /\ MaxEvents \in Nat
  /\ Migrated \subseteq Drives /\ Used \subseteq Drives
  /\ Served \subseteq Drives /\ Repaired \subseteq Drives
  /\ NoUUID \notin Drives /\ \A d \in Drives : StagingPath(d) \notin Drives

\* Every drive was on a device at first; no device has the name of one with a filesystem,
\* and udev has seen what is on the devices.
ASSUME LayoutAssumption ==
  /\ FirstLayout \in Layouts
  /\ \A d \in Drives : \E x \in DOMAIN FirstLayout : FirstLayout[x].fsuuid = d
  /\ \A layout \in Layouts : \A x, y \in DOMAIN layout :
       /\ layout[x].name = layout[y].name /\ layout[y].fsuuid # NoUUID => x = y
       /\ layout[x].inUdev => layout[x].udevUUID = layout[x].fsuuid
       /\ layout[x].total \in Nat \ {0}

VARIABLES
  host,     \* devices
  mounts,   \* mount table
  drv,      \* DirectPVDrive objects
  vol,      \* the volume of each drive: its status, label and drive name
  sync,     \* Sync of the node server
  check,    \* checkDrive: the event in hand
  job,      \* repair jobs
  moved,    \* drives whose device or status changed under someone at work on them
  events

syncVars == <<host, mounts, drv, vol, sync, check, job, moved, events>>

NoVolume == [status |-> "none", label |-> "", name |-> <<>>]
NoCheck == [drive |-> NoObject, read |-> NoObject]
NoJob == [pc |-> "none", tries |-> 0, source |-> <<>>, device |-> NoObject, mounted |-> FALSE]
Down == [pc |-> "down", map |-> << >>, todo |-> <<>>, read |-> NoObject]

\* A drive as initDevice made it: all but the overhead of the filesystem, of size 1, is free;
\* nothing counts as allocated.
NewDrive(d) ==
  LET dev == CHOOSE x \in DOMAIN FirstLayout : FirstLayout[x].fsuuid = d
  IN  [name |-> FirstLayout[dev].name, status |-> "Ready", cond |-> "none",
       total |-> FirstLayout[dev].total, free |-> FirstLayout[dev].total - 1, allocated |-> 0,
       relabel |-> d \in Migrated, label |-> IF d \in Served THEN "set" ELSE "",
       unschedulable |-> d \in Served]

DriveSyncInit ==
  /\ host = FirstLayout /\ mounts = {}
  /\ drv = [d \in Drives |-> NewDrive(d)]
  /\ vol = [d \in Drives |-> NoVolume]
  /\ sync = Down /\ check = NoCheck
  /\ job = [d \in Drives |-> IF d \in Repaired THEN [NoJob EXCEPT !.pc = "ended"] ELSE NoJob]
  /\ moved = {} /\ events = 0

Event == events < MaxEvents /\ events' = events + 1
NoEvent == UNCHANGED events

-----------------------------------------------------------------------------
(* Mounting *)

\* xfs_repair has the device to itself.
UnderRepair(x) == \E d \in Drives : job[d].pc = "repairing" /\ job[d].device = x

\* The kernel mounts the device of that name.  It refuses one without the filesystem, one in
\* use, and a filesystem that is mounted from another device.
KernelMounts(name) ==
  {x \in DOMAIN host :
     /\ host[x].name = name /\ host[x].fsuuid # NoUUID /\ ~UnderRepair(x)
     /\ \A m \in mounts : m.fsuuid = host[x].fsuuid => m.device = x}

\* xfs.Mount of the device with the name at the directory of the drive, when it succeeds
MountDone(name, d) ==
  \/ AlreadyMounted(mounts, name, d) /\ UNCHANGED mounts
  \/ /\ ~AlreadyMounted(mounts, name, d) /\ ~MountRefused(mounts, name, d)
     /\ \E x \in KernelMounts(name) :
          mounts' = mounts \cup {MountEntry(x, name, d, host[x].fsuuid)}

\* It succeeds or not.
Mount(name, d, ok) ==
  \/ ok /\ MountDone(name, d) /\ NoEvent
  \/ /\ ~ok /\ ~AlreadyMounted(mounts, name, d) /\ UNCHANGED mounts
     /\ IF MountRefused(mounts, name, d) \/ KernelMounts(name) = {} THEN NoEvent ELSE Event

\* Update of an object: refused unless it is as it was read.
Update(d, read, new) == drv[d] = read /\ drv' = [drv EXCEPT ![d] = new]
Conflict(d, read) == drv[d] # read /\ UNCHANGED drv

-----------------------------------------------------------------------------
(* Sync of the node server *)

\* Faulty variant of syncDrive: free capacity is what grew.
syncDrive_grown(o, dev) ==
  [o EXCEPT !.name = dev.name, !.total = dev.total,
            !.free = IF o.total # dev.total THEN dev.total ELSE @]

\* syncDrive: the name and the capacity of the device
syncDrive(o, dev) ==
  LET free == IF dev.total > o.allocated THEN dev.total - o.allocated ELSE 0
  IN  [o EXCEPT !.name = dev.name, !.total = dev.total,
                !.free = IF o.total # dev.total THEN free ELSE @]

Verified == {"Ready", "Lost", "Error", "Moving"}

\* verifyDrive after a mount that succeeded; the link of a drive that is to be relabelled is
\* made or not.
Mounted(o, linked) ==
  LET cured == o.status = "Lost" \/ (o.status = "Error" /\ o.cond \in {"mount", "multiple", "relabel"})
      p == [o EXCEPT !.status = IF cured THEN "Ready" ELSE @]
  IN  IF ~o.relabel THEN p
      ELSE IF linked THEN [p EXCEPT !.relabel = FALSE]
      ELSE IF o.cond = "io" THEN p ELSE [p EXCEPT !.status = "Error", !.cond = "relabel"]

MountFailed(o) == [o EXCEPT !.status = "Error", !.cond = "mount"]

syncFrame == <<host, vol, check, job, moved>>

\* RunE of the node server and Sync: devices are probed, drives listed.  A device may be too
\* slow to answer (one at a time is); a probe that fails ends the process.
StartSync ==
  /\ sync.pc = "down" /\ ~UdevFails(host)
  /\ \E silent \in {{}} \cup {{x} : x \in DOMAIN host} :
       /\ IF silent = {} THEN NoEvent ELSE Event
       /\ sync' = [pc |-> "get", todo |-> DriveOrder, read |-> NoObject,
                   map |-> [d \in Drives |->
                              {[name |-> host[x].name, total |-> host[x].total] :
                                 x \in probeDeviceMap(host, mounts, silent, Drives)[d]}]]
  /\ UNCHANGED <<mounts, drv, syncFrame>>

\* updateDrive reads the drive ...
GetDrive ==
  /\ sync.pc = "get" /\ sync.todo # <<>>
  /\ sync' = [sync EXCEPT !.pc = "update", !.read = drv[Head(sync.todo)]]
  /\ UNCHANGED <<mounts, drv, events, syncFrame>>

\* Faulty variant of EndUpdate: after a conflict the object read before is written.
EndUpdate_forced(d, new) ==
  /\ drv' = [drv EXCEPT ![d] = new]
  /\ sync' = [sync EXCEPT !.pc = "get", !.todo = Tail(@), !.read = NoObject]

\* ... and updates it, if there is something to; on a conflict all of it is done again.
EndUpdate(d, new) ==
  \/ /\ new = sync.read \/ drv[d] = sync.read
     /\ drv' = [drv EXCEPT ![d] = IF new = sync.read THEN @ ELSE new]
     /\ sync' = [sync EXCEPT !.pc = "get", !.todo = Tail(@), !.read = NoObject]
  \/ /\ new # sync.read /\ Conflict(d, sync.read)
     /\ sync' = [sync EXCEPT !.pc = "get", !.read = NoObject]

\* No device, or more than one, has the filesystem: whatever the status was, Repairing too.
UpdateUnverified(d, new) ==
  /\ EndUpdate(d, new)
  /\ moved' = IF sync.read.status = "Repairing" THEN moved \cup {d} ELSE moved
  /\ UNCHANGED <<mounts, events>>

UpdateLost(d) ==
  sync.map[d] = {} /\ UpdateUnverified(d, [sync.read EXCEPT !.status = "Lost"])

UpdateMultiple(d) ==
  /\ Cardinality(sync.map[d]) > 1
  /\ UpdateUnverified(d, [sync.read EXCEPT !.status = "Error", !.cond = "multiple"])

UpdateFound(d) ==
  \E dev \in sync.map[d] :
    LET o == syncDrive(sync.read, dev)
    IN  /\ Cardinality(sync.map[d]) = 1
        /\ \/ o.status \notin Verified /\ EndUpdate(d, o) /\ UNCHANGED <<mounts, events>>
           \/ o.status \in Verified /\ Mount(o.name, d, FALSE) /\ EndUpdate(d, MountFailed(o))
           \/ /\ o.status \in Verified
              /\ \E linked \in BOOLEAN :
                   /\ o.relabel \/ linked
                   /\ Mount(o.name, d, TRUE) /\ EndUpdate(d, Mounted(o, linked))
        /\ UNCHANGED moved

UpdateDrive ==
  LET d == Head(sync.todo)
  IN  /\ sync.pc = "update"
      /\ UpdateLost(d) \/ UpdateMultiple(d) \/ UpdateFound(d)
      /\ UNCHANGED <<host, vol, check, job>>

\* startNodeServer
EndSync ==
  /\ sync.pc = "get" /\ sync.todo = <<>>
  /\ sync' = [Down EXCEPT !.pc = "up"]
  /\ UNCHANGED <<mounts, drv, events, syncFrame>>

-----------------------------------------------------------------------------
(* checkDrive of the drive controller *)

checkFrame == <<host, vol, sync, job>>

\* An update event, or a resync, of the drive as the informer has it
StartCheck(d) ==
  /\ sync.pc = "up" /\ check = NoCheck /\ drv[d].status \in {"Ready", "Lost"}
  /\ check' = [drive |-> d, read |-> drv[d]]
  /\ UNCHANGED <<mounts, drv, moved, events, checkFrame>>

\* An Update that is refused is only logged.
TryUpdate(d, new) == Update(d, check.read, new) \/ Conflict(d, check.read)

\* Whatever the status is by now, Repairing too
SetIOError(d) ==
  /\ drv' = [drv EXCEPT ![d].status = "Error", ![d].cond = "io"]
  /\ moved' = IF drv[d].status = "Repairing" THEN moved \cup {d} ELSE moved

\* A drive that is ready: its directory cannot be read, or its device is gone.
CheckReady(d) ==
  LET present == \E m \in FilterByMountPoint(mounts, d) : m.fsuuid = d
  IN  /\ check.read.status = "Ready" /\ UNCHANGED mounts
      /\ \/ ~present /\ UNCHANGED <<drv, moved, events>>
         \/ present /\ Event /\ SetIOError(d)
         \/ present /\ ByUUID(host, d) # {} /\ UNCHANGED <<drv, moved, events>>
         \/ present /\ ByUUID(host, d) = {} /\ TryUpdate(d, [check.read EXCEPT !.status = "Lost"])
              /\ UNCHANGED <<moved, events>>

\* A drive that was lost: it is mounted if its device is back.
CheckLost(d) ==
  /\ check.read.status = "Lost" /\ UNCHANGED moved
  /\ \/ ByUUID(host, d) = {} /\ UNCHANGED <<mounts, drv, events>>
     \/ \E x \in ByUUID(host, d), ok \in BOOLEAN :
          LET o == [check.read EXCEPT !.name = host[x].name]
          IN  /\ Mount(host[x].name, d, ok)
              /\ TryUpdate(d, IF ok THEN [o EXCEPT !.status = "Ready"] ELSE MountFailed(o))

CheckDrive ==
  /\ check # NoCheck
  /\ CheckReady(check.drive) \/ CheckLost(check.drive)
  /\ check' = NoCheck
  /\ UNCHANGED checkFrame

-----------------------------------------------------------------------------
(* Repair jobs.  A pod that fails is started once more; the job is removed *)
(* some time after its end.                                                *)

jobFrame == <<host, vol, sync, check, moved>>
Goto(d, pc) == job' = [job EXCEPT ![d].pc = pc]

FailPod(d) ==
  job' = [job EXCEPT ![d] = [NoJob EXCEPT !.pc = IF job[d].tries = 0 THEN "start" ELSE "ended",
                                          !.tries = 1]]

\* Faulty variant of startRepair: the drive keeps its status until it is unmounted.
startRepair_unmarked(d) ==
  /\ job[d].pc = "start" /\ Goto(d, "marked")
  /\ UNCHANGED <<mounts, drv, events, jobFrame>>

startRepair(d) ==
  /\ job[d].pc = "start"
  /\ drv' = [drv EXCEPT ![d].status = "Repairing"] /\ Goto(d, "marked")
  /\ UNCHANGED <<mounts, events, jobFrame>>

\* The device is looked up and must not be mounted anywhere else ...
CheckMounts(d) ==
  /\ job[d].pc = "marked"
  /\ \/ \E x \in ByUUID(host, d) :
          IF \E m \in FilterByMountSource(mounts, host[x].name) : m.target # d THEN FailPod(d)
          ELSE job' = [job EXCEPT ![d].pc = "checked", ![d].source = host[x].name]
     \/ ByUUID(host, d) = {} /\ FailPod(d)
  /\ UNCHANGED <<mounts, drv, events, jobFrame>>

\* ... and is unmounted, although a volume may have been staged since.
UnmountDrive(d) ==
  /\ job[d].pc = "checked" /\ Goto(d, "unmounted")
  /\ mounts' = Unmounted(mounts, d)
  /\ UNCHANGED <<drv, events, jobFrame>>

\* xfs_repair opens the device of that name, and refuses one that is mounted ...
StartRepair(d) ==
  /\ job[d].pc = "unmounted"
  /\ \/ \E x \in DOMAIN host :
          /\ host[x].name = job[d].source /\ FilterByMajorMinor(mounts, x) = {}
          /\ job' = [job EXCEPT ![d].pc = "repairing", ![d].device = x]
     \/ /\ \A x \in DOMAIN host :
             host[x].name = job[d].source => FilterByMajorMinor(mounts, x) # {}
        /\ FailPod(d)
  /\ UNCHANGED <<mounts, drv, events, jobFrame>>

\* ... and then runs to its end.
EndRepair(d) ==
  /\ job[d].pc = "repairing" /\ Goto(d, "repaired")
  /\ UNCHANGED <<mounts, drv, events, jobFrame>>

MountRepaired(d) ==
  /\ job[d].pc = "repaired"
  /\ \E ok \in BOOLEAN :
       /\ Mount(job[d].source, d, ok)
       /\ job' = [job EXCEPT ![d].pc = "mounted", ![d].mounted = ok]
  /\ UNCHANGED <<drv, jobFrame>>

\* updateFunc, as often as there are conflicts
SetRepaired(d) ==
  /\ job[d].pc = "mounted"
  /\ drv' = [drv EXCEPT ![d] = IF job[d].mounted THEN [@ EXCEPT !.status = "Ready"]
                               ELSE MountFailed(@)]
  /\ job' = [job EXCEPT ![d] = [NoJob EXCEPT !.pc = "ended"]]
  /\ UNCHANGED <<mounts, events, jobFrame>>

\* A call, an update that meets a conflict, or xfs_repair fails.  The drive stays as it is.
JobFails(d) ==
  /\ Event /\ job[d].pc \notin {"none", "ended"} /\ FailPod(d)
  /\ UNCHANGED <<mounts, drv, jobFrame>>

JobExpires(d) ==
  /\ job[d].pc = "ended" /\ job' = [job EXCEPT ![d] = NoJob]
  /\ UNCHANGED <<mounts, drv, events, jobFrame>>

JobStep(d) ==
  \/ startRepair(d) \/ CheckMounts(d) \/ UnmountDrive(d) \/ StartRepair(d) \/ EndRepair(d)
  \/ MountRepaired(d) \/ SetRepaired(d) \/ JobFails(d) \/ JobExpires(d)

-----------------------------------------------------------------------------
(* Volumes, in short: what the controller and the CSI calls do to a drive. *)
(* A drive has one volume, which is not made again once it is released.     *)

volumeFrame == <<host, sync, check, job, moved, events>>
VolumeStatuses == {"pending", "staged", "ready"}

Reserve(d) ==
  /\ d \in Used /\ vol[d].status = "none"
  /\ drv[d].status = "Ready" /\ ~drv[d].unschedulable /\ drv[d].free > 0
  /\ drv' = [drv EXCEPT ![d].free = @ - 1, ![d].allocated = @ + 1]
  /\ vol' = [vol EXCEPT ![d] = [status |-> "pending", label |-> "", name |-> drv[d].name]]
  /\ UNCHANGED <<mounts, volumeFrame>>

Stage(d) ==
  /\ sync.pc = "up" /\ vol[d].status \in {"pending", "ready"}
  /\ \E m \in FilterByMountPoint(mounts, d) :
       mounts' = mounts \cup {[m EXCEPT !.target = StagingPath(d)]}
  /\ vol' = [vol EXCEPT ![d].status = "staged"]
  /\ UNCHANGED <<drv, volumeFrame>>

Unstage(d) ==
  /\ sync.pc = "up" /\ vol[d].status = "staged"
  /\ mounts' = Unmounted(mounts, StagingPath(d))
  /\ vol' = [vol EXCEPT ![d].status = "ready"]
  /\ UNCHANGED <<drv, volumeFrame>>

Release(d) ==
  /\ sync.pc = "up" /\ vol[d].status \in {"pending", "ready"}
  /\ drv' = [drv EXCEPT ![d].free = @ + 1, ![d].allocated = drv[d].total - (drv[d].free + 1)]
  /\ vol' = [vol EXCEPT ![d] = [NoVolume EXCEPT !.status = "gone"]]
  /\ UNCHANGED <<mounts, volumeFrame>>

\* sync of the volume controller
SyncVolume(d) ==
  /\ sync.pc = "up" /\ vol[d].status \in VolumeStatuses /\ vol[d].name # drv[d].name
  /\ vol' = [vol EXCEPT ![d].name = drv[d].name]
  /\ UNCHANGED <<mounts, drv, volumeFrame>>

VolumeStep(d) == Reserve(d) \/ Stage(d) \/ Unstage(d) \/ Release(d) \/ SyncVolume(d)

-----------------------------------------------------------------------------
(* The host *)

\* Drives someone is about to mount by a name that was looked up
InHand ==
  (IF sync.pc \in {"get", "update"} THEN Drives ELSE {})
    \cup {d \in Drives : \/ check.drive = d
                         \/ job[d].pc \in {"checked", "unmounted", "repairing", "repaired"}}

ChangeHost ==
  /\ Event /\ host' \in Layouts \ {host}
  /\ moved' = moved \cup InHand
  /\ UNCHANGED <<mounts, drv, vol, sync, check, job>>

\* What Sync or checkDrive has mounted without having updated the drive
MountedOnly ==
  \/ /\ sync.pc = "update" /\ sync.read.status \in Verified
     /\ Cardinality(sync.map[Head(sync.todo)]) = 1
     /\ \E dev \in sync.map[Head(sync.todo)] : MountDone(dev.name, Head(sync.todo))
  \/ /\ check # NoCheck /\ check.read.status = "Lost"
     /\ \E x \in ByUUID(host, check.drive) : MountDone(host[x].name, check.drive)

\* The node server ends, possibly between a mount and the Update that follows it.
StopServer ==
  /\ Event /\ sync.pc # "down"
  /\ sync' = Down /\ check' = NoCheck
  /\ UNCHANGED mounts \/ MountedOnly
  /\ UNCHANGED <<host, drv, vol, job, moved>>

\* Nothing is mounted after a reboot; pods that ran have failed, staged volumes have not been
\* unstaged.
Reboot ==
  /\ Event /\ host' \in Layouts
  /\ mounts' = {} /\ sync' = Down /\ check' = NoCheck /\ moved' = {}
  /\ vol' = [d \in Drives |-> IF vol[d].status = "staged" THEN [vol[d] EXCEPT !.status = "ready"]
                              ELSE vol[d]]
  /\ job' = [d \in Drives |->
               IF job[d].pc \in {"none", "ended"} THEN job[d]
               ELSE [NoJob EXCEPT !.pc = IF job[d].tries = 0 THEN "start" ELSE "ended", !.tries = 1]]
  /\ UNCHANGED drv

SyncStep == StartSync \/ GetDrive \/ UpdateDrive \/ EndSync \/ CheckDrive

DriveSyncNext ==
  \/ SyncStep \/ ChangeHost \/ StopServer \/ Reboot
  \/ \E d \in Drives : StartCheck(d) \/ JobStep(d) \/ VolumeStep(d)
=============================================================================
