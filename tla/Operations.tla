----------------------------- MODULE Operations ------------------------------
(***************************************************************************)
(* Commands on drives and volumes at work while the node server, the drive *)
(* controller and repair jobs change the same objects: label, cordon,      *)
(* uncordon and repair.                                                    *)
(*                                                                         *)
(* A command lists what its flags select, and IDs the list did not bring   *)
(* up are read afterwards, one by one.  It updates each object it was      *)
(* sent as it was when it was read.  Commands run one at a time.           *)
(***************************************************************************)
EXTENDS DriveSync, Selection

CONSTANTS
  Requests,      \* commands: their operation and arguments
  NodeName,      \* the node of the drives, as flags name it
  MaxCommands    \* bound

VARIABLES
  cmd,       \* the command: where it is, what it is to do, objects listed, IDs to read
  commands

vars == <<syncVars, cmd, commands>>

Request(op, args) == [op |-> op, args |-> args]
NoCommand == [pc |-> "idle", op |-> "none", sel |-> NoFlags, items |-> {}, ids |-> {},
              processed |-> FALSE, wanted |-> {}]

Ended == {"idle", "ok", "failed", "panic"}

Init == DriveSyncInit /\ cmd = NoCommand /\ commands = 0

-----------------------------------------------------------------------------
(* Objects as the listers match them *)

DriveAttributes(d) ==
  [nodes |-> NodeName, drives |-> drv[d].name, status |-> drv[d].status, ids |-> d,
   labels |-> drv[d].label]

VolumeAttributes(d) ==
  [nodes |-> NodeName, drives |-> vol[d].name, status |-> vol[d].status, ids |-> d,
   pods |-> "", podNSs |-> "", volumes |-> d, labels |-> vol[d].label]

DriveObjects == [d \in Drives |-> DriveAttributes(d)]
VolumeObjects ==
  [d \in {e \in Drives : vol[e].status \in VolumeStatuses} |-> VolumeAttributes(d)]

ListedBefore(d, e) ==
  \E i, j \in DOMAIN DriveOrder : i < j /\ DriveOrder[i] = d /\ DriveOrder[j] = e

OnVolumes == cmd.op \in {"labelVolumes", "unlabelVolumes"}

Objects == IF OnVolumes THEN VolumeObjects ELSE DriveObjects
Item(d) == [drive |-> d, read |-> IF OnVolumes THEN vol[d] ELSE drv[d]]

IsSelected(d) ==
  IF OnVolumes THEN d \in DOMAIN VolumeObjects
                      /\ Selected(d, VolumeAttributes(d), cmd.sel, VolumeLabels, "volumes")
  ELSE Selected(d, DriveAttributes(d), cmd.sel, DriveLabels, "ids")

-----------------------------------------------------------------------------
(* Commands *)

validate(r) ==
  CASE r.op \in {"labelDrives", "unlabelDrives"} -> validateLabelDrivesCmd(r.args)
    [] r.op \in {"labelVolumes", "unlabelVolumes"} -> validateLabelVolumesCmd(r.args)
    [] r.op = "cordon" -> validateCordonCmd(r.args)
    [] r.op = "uncordon" -> validateUncordonCmd(r.args)
    [] r.op = "repair" -> validateRepairCmd(r.args)

RunCommand ==
  \E r \in Requests :
    /\ cmd.pc \in Ended /\ commands < MaxCommands /\ commands' = commands + 1
    /\ cmd' = IF validate(r).err THEN [NoCommand EXCEPT !.pc = "failed"]
              ELSE [NoCommand EXCEPT !.pc = "list", !.op = r.op, !.sel = validate(r).sel]
    /\ UNCHANGED syncVars

\* List of the lister
ListObjects ==
  LET listed == IF OnVolumes THEN ListVolumes(VolumeObjects, cmd.sel)
                ELSE ListDrives(DriveObjects, cmd.sel)
  IN  /\ cmd.pc = "list"
      /\ cmd' = [cmd EXCEPT
           !.pc = "run", !.items = {Item(d) : d \in listed},
           !.ids = IF OnVolumes THEN RemainingVolumes(VolumeObjects, cmd.sel)
                   ELSE RemainingDrives(DriveObjects, cmd.sel),
           !.wanted = {d \in Drives : IsSelected(d)}]
      /\ UNCHANGED <<syncVars, commands>>

\* Get of the lister; an object that is not there is an error, but not for repair.
GetObject ==
  /\ cmd.pc = "run" /\ cmd.items = {}
  /\ \E d \in cmd.ids :
       cmd' = IF d \in DOMAIN Objects THEN [cmd EXCEPT !.ids = @ \ {d}, !.items = {Item(d)}]
              ELSE IF cmd.op = "repair" THEN [cmd EXCEPT !.ids = @ \ {d}]
              ELSE [NoCommand EXCEPT !.pc = "failed"]
  /\ UNCHANGED <<syncVars, commands>>

cmdFrame == <<host, mounts, sync, check, moved, events, commands>>
Done(d) == cmd' = [cmd EXCEPT !.items = {i \in @ : i.drive # d}, !.processed = TRUE]
Fails(how) == cmd' = [NoCommand EXCEPT !.pc = how]

Labelled == IF cmd.op \in {"labelDrives", "labelVolumes"} THEN "set" ELSE ""

\* Faulty variant of LabelDrive: a conflict is met by reading the drive again.
LabelDrive_reread(d, read) ==
  /\ cmd.op \in {"labelDrives", "unlabelDrives"} /\ Done(d)
  /\ drv' = [drv EXCEPT ![d].label = Labelled]
  /\ UNCHANGED <<vol, job>>

\* SetLabel, RemoveLabel and the Update.  After an Update that is refused there is no drive
\* whose name could be logged.
LabelDrive(d, read) ==
  /\ cmd.op \in {"labelDrives", "unlabelDrives"}
  /\ \/ read.label = Labelled /\ Done(d) /\ UNCHANGED drv
     \/ read.label # Labelled /\ Update(d, read, [read EXCEPT !.label = Labelled]) /\ Done(d)
     \/ read.label # Labelled /\ Conflict(d, read) /\ Fails("panic")
  /\ UNCHANGED <<vol, job>>

LabelVolume(d, read) ==
  /\ cmd.op \in {"labelVolumes", "unlabelVolumes"}
  /\ \/ read.label = Labelled /\ Done(d) /\ UNCHANGED vol
     \/ read.label # Labelled /\ vol[d] = read /\ Done(d)
          /\ vol' = [vol EXCEPT ![d].label = Labelled]
     \/ read.label # Labelled /\ vol[d] # read /\ Fails("panic") /\ UNCHANGED vol
  /\ UNCHANGED <<drv, job>>

\* A drive with a pending volume is not cordoned.
CordonDrive(d, read) ==
  /\ cmd.op = "cordon"
  /\ LET pending == vol[d].status = "pending"
     IN  \/ read.unschedulable /\ Done(d) /\ UNCHANGED drv
         \/ ~read.unschedulable /\ pending /\ Fails("failed") /\ UNCHANGED drv
         \/ /\ ~read.unschedulable /\ ~pending /\ Done(d)
            /\ Update(d, read, [read EXCEPT !.unschedulable = TRUE])
         \/ ~read.unschedulable /\ ~pending /\ Conflict(d, read) /\ Fails("failed")
  /\ UNCHANGED <<vol, job>>

UncordonDrive(d, read) ==
  /\ cmd.op = "uncordon"
  /\ \/ ~read.unschedulable /\ Done(d) /\ UNCHANGED drv
     \/ read.unschedulable /\ Update(d, read, [read EXCEPT !.unschedulable = FALSE]) /\ Done(d)
     \/ read.unschedulable /\ Conflict(d, read) /\ Fails("failed")
  /\ UNCHANGED <<vol, job>>

\* A job of the drive's name is left alone.
RepairDrive(d) ==
  /\ cmd.op = "repair" /\ Done(d)
  /\ IF job[d].pc = "none" THEN Goto(d, "start") ELSE UNCHANGED job
  /\ UNCHANGED <<drv, vol>>

ProcessItem ==
  /\ cmd.pc = "run"
  /\ \E i \in cmd.items :
       /\ \A j \in cmd.items : ~ListedBefore(j.drive, i.drive)
       /\ \/ LabelDrive(i.drive, i.read) \/ LabelVolume(i.drive, i.read)
          \/ CordonDrive(i.drive, i.read) \/ UncordonDrive(i.drive, i.read)
          \/ RepairDrive(i.drive)
  /\ UNCHANGED cmdFrame

\* Nothing processed is an error, for all but repair.
EndCommand ==
  /\ cmd.pc = "run" /\ cmd.items = {} /\ cmd.ids = {}
  /\ IF cmd.processed \/ cmd.op = "repair"
     THEN cmd' = [NoCommand EXCEPT !.pc = "ok", !.op = cmd.op, !.wanted = cmd.wanted]
     ELSE Fails("failed")
  /\ UNCHANGED <<syncVars, commands>>

Next ==
  \/ DriveSyncNext /\ UNCHANGED <<cmd, commands>>
  \/ RunCommand \/ ListObjects \/ GetObject \/ ProcessItem \/ EndCommand

Spec == Init /\ [][Next]_vars

-----------------------------------------------------------------------------
(* Properties *)

\* A drive the node server has synchronised and that is Ready, so that volumes are made and
\* staged on it, has its own filesystem mounted at its directory: not while a repair has it
\* unmounted, not that of a device that took its name, whichever of Sync, checkDrive and
\* jobs ran, failed or were stopped in between.  Left out are drives whose device or whose
\* status Repairing was changed under the hands of one of them.
ReadyIsMounted ==
  \A d \in Drives \ moved :
    sync.pc = "up" /\ drv[d].status = "Ready"
      => \E m \in FilterByMountPoint(mounts, d) : m.fsuuid = d

\* What a drive has free and what its volume takes never exceed the filesystem, although a
\* filesystem that has grown makes Sync compute the free capacity anew while volumes are
\* made and released.
CapacityAddsUp ==
  \A d \in Drives :
    drv[d].free + (IF vol[d].status \in VolumeStatuses THEN 1 ELSE 0) <= drv[d].total

\* An object a command changes is one its flags select as it is then, not only as it was
\* listed: a drive that was given another name, or that is not Ready any more, is left alone.
ActsOnSelected ==
  [][\A d \in Drives :
       (drv'[d].label # drv[d].label \/ drv'[d].unschedulable # drv[d].unschedulable
          \/ (vol[d].label # vol'[d].label /\ vol'[d].status \in VolumeStatuses))
         => cmd.pc = "run" /\ IsSelected(d)]_vars

\* When a command has ended well, every drive that was selected when it listed has what it
\* set, and so it stays: the updates of Sync, checkDrive and jobs do not take it back.
CommandHolds ==
  cmd.pc = "ok" =>
    \A d \in cmd.wanted :
      /\ cmd.op \in {"labelDrives", "unlabelDrives"} => drv[d].label = Labelled
      /\ cmd.op \in {"cordon", "uncordon"} => drv[d].unschedulable = (cmd.op = "cordon")
      /\ OnVolumes /\ vol[d].status \in VolumeStatuses => vol[d].label = Labelled
=============================================================================
