---------------------------- MODULE Provisioning ----------------------------
(***************************************************************************)
(* The life of a DirectPV volume as the cluster's API server sees it.      *)
(*                                                                         *)
(* Two kinds of object are shared by every process: DirectPVDrive and      *)
(* DirectPVVolume.  The CSI controller (CreateVolume, DeleteVolume,        *)
(* ControllerExpandVolume), the volume controller of the node (release of  *)
(* a deleted volume), the drive controller, the kubelet's calls and the    *)
(* administrator's commands all read and write them with separate API      *)
(* calls.  An API call is one atomic step; a handler is a sequence of such *)
(* steps, and steps of different handlers interleave.                      *)
(*                                                                         *)
(* Optimistic concurrency.  An Update carries the resourceVersion of the   *)
(* copy it was made from, and fails when the stored object changed since.  *)
(* driveCopies[d] (volumeCopies[v]) is the set of handlers whose copy of   *)
(* that object is still the stored one: a read adds the handler, any write *)
(* by anyone empties the set, and an Update succeeds only for a member.    *)
(* A handler that reads one object, changes it and writes it back, and     *)
(* touches no other object, is one atomic action: its Update takes effect  *)
(* only if nothing happened to the object in between.  An Update that      *)
(* changes nothing leaves the resourceVersion as it is.                    *)
(***************************************************************************)
EXTENDS Integers, FiniteSets, Functions

CONSTANTS
  Drives,         \* DirectPVDrive names
  Volumes,        \* volume names; a name belongs to one claim for ever
  NoDrive,        \* the empty drive-ID label
  Claims,         \* values of directpv.min.io/volume-claim-id
  NoClaim,        \* a storage class without a volume-claim-id
  ClaimOf,        \* [Volumes -> Claims \cup {NoClaim}]
  Suitable,       \* [Volumes -> SUBSET Drives]: access-tier, labels, topology match
  Requested,      \* [Volumes -> Nat \cup {NoRange}]: CapacityRange.RequiredBytes
  ExpandTo,       \* sizes a bound claim may be resized to
  Total, Usable,  \* [Drives -> Nat]: capacity of the device, and what XFS leaves free
  DriveEvents,    \* which administrator commands and faults happen to which drives
  Faults,         \* TRUE: any handler may stop half way, any response may be lost
  LateWrites,     \* TRUE: the drive Update of a timed-out CreateVolume may land later
  QuietClean      \* TRUE: `clean` leaves alone a volume whose claim is being provisioned

\* The request carries no CapacityRange (server.go: requiredBytes = -1).
NoRange == -1

ASSUME ProvisioningAssumption ==
  /\ IsFiniteSet(Volumes)
  /\ NoDrive \notin Drives
  /\ NoClaim \notin Claims
  /\ ClaimOf \in [Volumes -> Claims \cup {NoClaim}]
  /\ Suitable \in [Volumes -> SUBSET Drives]
  /\ Requested \in [Volumes -> Nat \cup {NoRange}]
  /\ ExpandTo \subseteq Nat
  /\ Total \in [Drives -> Nat]
  /\ Usable \in [Drives -> Nat]
  /\ \A d \in Drives : Usable[d] <= Total[d]
  /\ DriveEvents \subseteq {"cordon", "remove", "ioerror", "repair"} \X Drives
  /\ Faults \in BOOLEAN
  /\ LateWrites \in BOOLEAN
  /\ QuietClean \in BOOLEAN

VARIABLES
  drives,        \* DirectPVDrive objects that exist
  drive,         \* their status, capacities, volume finalizers and claim-id labels
  cordoned,      \* drives with Spec.Unschedulable
  unprotected,   \* drives without the data-protection finalizer
  terminating,   \* drives with a deletion timestamp
  volumes,       \* DirectPVVolume objects that exist
  volume,        \* their drive label, TotalCapacity and status
  pvProtected,   \* volumes with the pv-protection finalizer
  deleting,      \* volumes with a deletion timestamp
  staged,        \* volumes with a StagingTargetPath
  claim,         \* the claim and its PersistentVolume, as Kubernetes sees them
  granted,       \* size the last successful ControllerExpandVolume answered
  create,        \* CreateVolume in progress
  late,          \* drive Update of a timed-out CreateVolume, still on its way
  destroy,       \* DeleteVolume in progress
  expand,        \* ControllerExpandVolume in progress
  release,       \* the volume controller's delete() in progress
  clean,         \* the administrator's clean in progress
  removing,      \* drives whose remove() has cleared the finalizers
  driveCopies,   \* handlers whose copy of a drive is current
  volumeCopies,  \* handlers whose copy of a volume is current
  debit          \* history: bytes taken from drive d for volume v, not given back

driveVars  == <<drives, drive, cordoned, unprotected, terminating, removing, driveCopies>>
volumeVars == <<volumes, volume, pvProtected, deleting, staged, volumeCopies>>
opVars     == <<create, late, destroy, expand, release, clean>>
vars == <<driveVars, volumeVars, opVars, claim, granted, debit>>

-----------------------------------------------------------------------------
(* Types *)

\* Error stands for every status in which the drive takes no volumes and stays.
Statuses == {"Ready", "Error", "Removed"}

DriveObject == [status : Statuses, free : Int, allocated : Int,
                volumes : SUBSET Volumes, claims : SUBSET Claims]

VolumeObject == [drive : Drives \cup {NoDrive}, total : Int, status : {"Pending", "Ready"}]

\* A handler in progress: its next API call and what it keeps from its reads.
\* mode "found": the selected drive lists the volume already, nothing to reserve.
CreateOp  == [pc : {"idle", "create", "get", "update", "reserve"},
              mode : {"add", "found"}, drive : Drives \cup {NoDrive}, size : Int]
LateOp    == [pc : {"idle", "sent"}, drive : Drives \cup {NoDrive}, size : Int]
ExpandOp  == [pc : {"idle", "getDrive", "updateDrive"},
              drive : Drives \cup {NoDrive}, need : Int, goal : Nat]
ReleaseOp == [pc : {"idle", "getDrive", "updateDrive", "purge"},
              drive : Drives \cup {NoDrive}, size : Int]
DeletePcs == {"idle", "update", "delete"}

NoCreate  == [pc |-> "idle", mode |-> "add", drive |-> NoDrive, size |-> 0]
NoLate    == [pc |-> "idle", drive |-> NoDrive, size |-> 0]
NoExpand  == [pc |-> "idle", drive |-> NoDrive, need |-> 0, goal |-> 0]
NoRelease == [pc |-> "idle", drive |-> NoDrive, size |-> 0]
NoVolume  == [drive |-> NoDrive, total |-> 0, status |-> "Pending"]

\* A claim is provisioned ("pending"), answered ("provisioned": CreateVolume
\* succeeded, no PersistentVolume object yet), bound, released, and gone.
ClaimPhases == {"unclaimed", "pending", "provisioned", "bound", "released", "gone"}

DriveReaders  == {"create", "late", "expand", "release"} \X Volumes
VolumeReaders == {"create", "destroy", "release", "clean"}

DriveTypes ==
  /\ drives \subseteq Drives
  /\ drive \in [Drives -> DriveObject]
  /\ cordoned \subseteq Drives
  /\ unprotected \subseteq Drives
  /\ terminating \subseteq Drives
  /\ removing \subseteq Drives
  /\ driveCopies \in [Drives -> SUBSET DriveReaders]

VolumeTypes ==
  /\ volumes \subseteq Volumes
  /\ volume \in [Volumes -> VolumeObject]
  /\ pvProtected \subseteq Volumes
  /\ deleting \subseteq Volumes
  /\ staged \subseteq Volumes
  /\ volumeCopies \in [Volumes -> SUBSET VolumeReaders]

HandlerTypes ==
  /\ create \in [Volumes -> CreateOp]
  /\ late \in [Volumes -> LateOp]
  /\ destroy \in [Volumes -> DeletePcs]
  /\ expand \in [Volumes -> ExpandOp]
  /\ release \in [Volumes -> ReleaseOp]
  /\ clean \in [Volumes -> DeletePcs]

\* Every object, handler and history value has the shape the code gives it.
TypeOK ==
  /\ DriveTypes
  /\ VolumeTypes
  /\ HandlerTypes
  /\ claim \in [Volumes -> ClaimPhases]
  /\ granted \in [Volumes -> Nat]
  /\ debit \in [Drives -> [Volumes -> Int]]

\* Freshly initialised drives (initrequest/event.go), no volumes.
Init ==
  /\ drives = Drives
  /\ drive = [d \in Drives |-> [status |-> "Ready", free |-> Usable[d], allocated |-> 0,
                                volumes |-> {}, claims |-> {}]]
  /\ cordoned = {} /\ unprotected = {} /\ terminating = {} /\ removing = {}
  /\ driveCopies = [d \in Drives |-> {}]
  /\ volumes = {} /\ pvProtected = {} /\ deleting = {} /\ staged = {}
  /\ volume = [v \in Volumes |-> NoVolume]
  /\ volumeCopies = [v \in Volumes |-> {}]
  /\ create = [v \in Volumes |-> NoCreate]
  /\ late = [v \in Volumes |-> NoLate]
  /\ destroy = [v \in Volumes |-> "idle"]
  /\ expand = [v \in Volumes |-> NoExpand]
  /\ release = [v \in Volumes |-> NoRelease]
  /\ clean = [v \in Volumes |-> "idle"]
  /\ claim = [v \in Volumes |-> "unclaimed"]
  /\ granted = [v \in Volumes |-> 0]
  /\ debit = [d \in Drives |-> [v \in Volumes |-> 0]]

-----------------------------------------------------------------------------
(* The API server *)

\* An Update of drive d that succeeds: the object changes, every copy is old.
\* Emptying the finalizers of a terminating object removes it.
WriteDrive(d, new) ==
  /\ drive' = [drive EXCEPT ![d] = new]
  /\ driveCopies' = [driveCopies EXCEPT ![d] = {}]
  /\ drives' = IF d \in terminating \cap unprotected /\ new.volumes = {}
               THEN drives \ {d} ELSE drives
  /\ UNCHANGED <<cordoned, unprotected, terminating, removing>>

\* Handler h reads drive d, and drops its copy of d.
ReadDrive(h, d) == driveCopies' = [driveCopies EXCEPT ![d] = @ \cup {h}]
DropDrive(h, d) == driveCopies' = [driveCopies EXCEPT ![d] = @ \ {h}]

ReadVolume(h, v) == volumeCopies' = [volumeCopies EXCEPT ![v] = @ \cup {h}]
DropVolume(h, v) == volumeCopies' = [volumeCopies EXCEPT ![v] = @ \ {h}]

\* Update of volume v without the pv-protection finalizer, from handler h's copy.
RemovePVProtection(h, v) ==
  /\ pvProtected' = pvProtected \ {v}
  /\ volumeCopies' = [volumeCopies EXCEPT ![v] = IF v \in pvProtected THEN {} ELSE @ \ {h}]

\* Delete of volume v: its finalizers keep it, with a deletion timestamp.  The
\* purge-protection finalizer is there until the volume controller removes it.
DeleteVolumeObject(v) ==
  /\ deleting' = deleting \cup {v}
  /\ volumeCopies' = IF v \in deleting THEN volumeCopies
                     ELSE [volumeCopies EXCEPT ![v] = {}]

-----------------------------------------------------------------------------
(* CreateVolume *)

driveObjects == <<drives, drive, cordoned, unprotected, terminating, removing>>

\* Faulty variant of matchDrive: the volume-claim-id label is not looked at.
matchDrive_anyClaim(d, v) ==
  /\ d \notin terminating
  /\ drive[d].status = "Ready"
  /\ d \notin cordoned
  /\ Requested[v] # NoRange => drive[d].free >= Requested[v]
  /\ d \in Suitable[v]

\* Whether drive d can take volume v.
matchDrive(d, v) ==
  /\ d \notin terminating
  /\ drive[d].status = "Ready"
  /\ d \notin cordoned
  /\ Requested[v] # NoRange => drive[d].free >= Requested[v]
  /\ ClaimOf[v] \notin drive[d].claims
  /\ d \in Suitable[v]

\* Faulty variant of getFilteredDrives: a drive that holds the volume already is not preferred.
getFilteredDrives_noHolder(v) == {d \in drives : matchDrive(d, v)}

\* A drive that lists the volume is taken whatever its state; otherwise all that match.
getFilteredDrives(v) ==
  LET holders == {d \in drives : v \in drive[d].volumes}
  IN  IF holders # {} THEN holders ELSE {d \in drives : matchDrive(d, v)}

\* With a holder the first one listed is returned; otherwise one of maximum free capacity.
selectDrive(v) ==
  LET found == getFilteredDrives(v)
  IN  {d \in found : \/ v \in drive[d].volumes
                     \/ \A x \in found : drive[d].free >= drive[x].free}

\* The provisioner sidecar calls CreateVolume, for the first time or again.
CreateVolume(v) ==
  /\ claim[v] = "pending" /\ create[v].pc = "idle"
  /\ \E d \in selectDrive(v) :
       /\ create' = [create EXCEPT ![v] =
            [pc |-> "create",
             mode |-> IF v \in drive[d].volumes THEN "found" ELSE "add",
             drive |-> d,
             size |-> IF Requested[v] = NoRange THEN drive[d].free ELSE Requested[v]]]
       /\ ReadDrive(<<"create", v>>, d)
  /\ UNCHANGED <<driveObjects, volumeVars, late, destroy, expand, release, clean,
                 claim, granted, debit>>

\* The volume object that the attempt in progress wants.
NewVolume(v) == [drive |-> create[v].drive, total |-> create[v].size, status |-> "Pending"]

createFrame == <<late, destroy, expand, release, clean, granted>>

\* The attempt ends with an error, or without an answer.
EndCreate(v) ==
  /\ create' = [create EXCEPT ![v] = NoCreate]
  /\ DropDrive(<<"create", v>>, create[v].drive)
  /\ DropVolume("create", v)

\* Faulty variant of CreateVolumeObject: AlreadyExists ends the call.
CreateVolumeObject_existsFails(v) ==
  /\ create[v].pc = "create"
  /\ IF v \in volumes
     THEN /\ EndCreate(v)
          /\ UNCHANGED <<driveObjects, volumes, volume, pvProtected>>
     ELSE /\ create' = [create EXCEPT ![v].pc = "reserve"]
          /\ volumes' = volumes \cup {v}
          /\ volume' = [volume EXCEPT ![v] = NewVolume(v)]
          /\ pvProtected' = pvProtected \cup {v}
          /\ volumeCopies' = [volumeCopies EXCEPT ![v] = {}]
          /\ UNCHANGED driveVars
  /\ UNCHANGED <<deleting, staged, createFrame, claim, debit>>

\* VolumeClient().Create
CreateVolumeObject(v) ==
  /\ create[v].pc = "create"
  /\ IF v \in volumes
     THEN /\ create' = [create EXCEPT ![v].pc = "get"]
          /\ UNCHANGED volumeVars
     ELSE /\ create' = [create EXCEPT ![v].pc = "reserve"]
          /\ volumes' = volumes \cup {v}
          /\ volume' = [volume EXCEPT ![v] = NewVolume(v)]
          /\ pvProtected' = pvProtected \cup {v}
          /\ volumeCopies' = [volumeCopies EXCEPT ![v] = {}]
          /\ UNCHANGED <<deleting, staged>>
  /\ UNCHANGED <<driveVars, createFrame, claim, debit>>

\* VolumeClient().Get of the volume that exists already
GetVolumeObject(v) ==
  /\ create[v].pc = "get"
  /\ IF v \in volumes
     THEN /\ create' = [create EXCEPT ![v].pc = "update"]
          /\ ReadVolume("create", v)
          /\ UNCHANGED driveCopies
     ELSE EndCreate(v)
  /\ UNCHANGED <<driveObjects, volumes, volume, pvProtected, deleting, staged,
                 createFrame, claim, debit>>

\* VolumeClient().Update: labels, both finalizers and the whole status are rewritten.
\* The API server refuses a finalizer that a deleted object has lost.
UpdateVolumeObject(v) ==
  /\ create[v].pc = "update"
  /\ IF "create" \in volumeCopies[v] /\ (v \in deleting => v \in pvProtected)
     THEN /\ create' = [create EXCEPT ![v].pc = "reserve"]
          /\ volume' = [volume EXCEPT ![v] = NewVolume(v)]
          /\ pvProtected' = pvProtected \cup {v}
          /\ staged' = staged \ {v}
          /\ volumeCopies' = [volumeCopies EXCEPT ![v] =
               IF volume[v] = NewVolume(v) /\ v \in pvProtected \ staged
               THEN @ \ {"create"} ELSE {}]
          /\ UNCHANGED driveCopies
     ELSE /\ EndCreate(v)
          /\ UNCHANGED <<volume, pvProtected, staged>>
  /\ UNCHANGED <<driveObjects, volumes, deleting, createFrame, claim, debit>>

\* Faulty variants of Reserved: free or allocated capacity is not adjusted.
Reserved_freeKept(d, v, size) ==
  [drive[d] EXCEPT !.volumes = @ \cup {v}, !.claims = @ \cup ({ClaimOf[v]} \ {NoClaim}),
                   !.allocated = @ + size]
Reserved_allocatedKept(d, v, size) ==
  [drive[d] EXCEPT !.volumes = @ \cup {v}, !.claims = @ \cup ({ClaimOf[v]} \ {NoClaim}),
                   !.free = @ - size]

\* The drive with the volume's finalizer, its claim-id label and its capacity taken.
Reserved(d, v, size) ==
  [status    |-> drive[d].status,
   free      |-> drive[d].free - size,
   allocated |-> drive[d].allocated + size,
   volumes   |-> drive[d].volumes \cup {v},
   claims    |-> drive[d].claims \cup ({ClaimOf[v]} \ {NoClaim})]

Debit(d, v, size) == debit' = [debit EXCEPT ![d][v] = @ + size]

\* The answer reaches the provisioner, or is lost and the claim stays pending.
AnswerCreate(v) ==
  \/ claim' = [claim EXCEPT ![v] = "provisioned"]
  \/ Faults /\ UNCHANGED claim

\* Faulty variant of ReserveDrive: a conflict of the drive Update is not reported.
ReserveDrive_conflictIgnored(v) ==
  LET d == create[v].drive
  IN  /\ create[v].pc = "reserve"
      /\ create' = [create EXCEPT ![v] = NoCreate]
      /\ AnswerCreate(v)
      /\ IF create[v].mode = "add" /\ <<"create", v>> \in driveCopies[d]
         THEN WriteDrive(d, Reserved(d, v, create[v].size)) /\ Debit(d, v, create[v].size)
         ELSE DropDrive(<<"create", v>>, d) /\ UNCHANGED <<driveObjects, debit>>
      /\ UNCHANGED <<volumeVars, createFrame>>

\* DriveClient().Update with AddVolumeFinalizer, skipped when the copy of the drive
\* lists the volume, and the response.
ReserveDrive(v) ==
  LET d == create[v].drive
  IN  /\ create[v].pc = "reserve"
      /\ create' = [create EXCEPT ![v] = NoCreate]
      /\ \/ /\ create[v].mode = "found"
            /\ AnswerCreate(v)
            /\ DropDrive(<<"create", v>>, d)
            /\ UNCHANGED <<driveObjects, debit>>
         \/ /\ create[v].mode = "add" /\ <<"create", v>> \in driveCopies[d]
            /\ WriteDrive(d, Reserved(d, v, create[v].size))
            /\ Debit(d, v, create[v].size)
            /\ AnswerCreate(v)
         \/ /\ create[v].mode = "add" /\ <<"create", v>> \notin driveCopies[d]
            /\ UNCHANGED <<driveVars, claim, debit>>
      /\ UNCHANGED <<volumeVars, createFrame>>

\* An API call fails for another reason, or the controller stops.
AbortCreate(v) ==
  /\ Faults /\ create[v].pc # "idle"
  /\ EndCreate(v)
  /\ UNCHANGED <<driveObjects, volumes, volume, pvProtected, deleting, staged,
                 createFrame, claim, debit>>

\* The call times out while its drive Update is on the way to the API server.
TimeoutCreate(v) ==
  /\ LateWrites /\ create[v].pc = "reserve" /\ create[v].mode = "add"
  /\ late[v].pc = "idle"
  /\ late' = [late EXCEPT ![v] = [pc |-> "sent", drive |-> create[v].drive,
                                  size |-> create[v].size]]
  /\ create' = [create EXCEPT ![v] = NoCreate]
  /\ driveCopies' = [driveCopies EXCEPT ![create[v].drive] =
       IF <<"create", v>> \in @ THEN (@ \ {<<"create", v>>}) \cup {<<"late", v>>} ELSE @]
  /\ UNCHANGED <<driveObjects, volumeVars, destroy, expand, release, clean,
                 claim, granted, debit>>

\* That Update lands, or is refused.
LateReserve(v) ==
  LET d == late[v].drive
  IN  /\ late[v].pc = "sent"
      /\ late' = [late EXCEPT ![v] = NoLate]
      /\ IF <<"late", v>> \in driveCopies[d]
         THEN WriteDrive(d, Reserved(d, v, late[v].size)) /\ Debit(d, v, late[v].size)
         ELSE UNCHANGED <<driveVars, debit>>
      /\ UNCHANGED <<volumeVars, create, destroy, expand, release, clean, claim, granted>>
-----------------------------------------------------------------------------
(* Kubernetes: claims, PersistentVolumes and the kubelet's calls *)

claimFrame == <<driveVars, volumeVars, opVars, granted, debit>>

\* A user creates the claim; the provisioner creates the PersistentVolume; the user
\* deletes the claim (a claim that has no PersistentVolume yet just goes away).
Claim(v) ==
  /\ \/ claim[v] = "unclaimed"   /\ claim' = [claim EXCEPT ![v] = "pending"]
     \/ claim[v] = "provisioned" /\ claim' = [claim EXCEPT ![v] = "bound"]
     \/ claim[v] = "bound"       /\ claim' = [claim EXCEPT ![v] = "released"]
     \/ claim[v] = "pending" /\ create[v].pc = "idle" /\ claim' = [claim EXCEPT ![v] = "gone"]
  /\ UNCHANGED claimFrame

\* A single read-modify-write of the volume object.
WriteVolume(v, new) ==
  /\ volume' = [volume EXCEPT ![v] = new]
  /\ volumeCopies' = [volumeCopies EXCEPT ![v] = {}]
  /\ UNCHANGED <<driveVars, opVars, volumes, pvProtected, deleting, claim, granted, debit>>

\* The object's side of NodeStageVolume, NodeUnstageVolume.
NodeStageVolume(v) ==
  /\ claim[v] = "bound" /\ v \in volumes \ staged
  /\ staged' = staged \cup {v}
  /\ WriteVolume(v, [volume[v] EXCEPT !.status = "Ready"])

NodeUnstageVolume(v) ==
  /\ v \in volumes \cap staged
  /\ staged' = staged \ {v}
  /\ WriteVolume(v, volume[v])

\* The kubelet passes on the size the resizer got; TotalCapacity follows it.
NodeExpandVolume(v) ==
  /\ claim[v] = "bound"
  /\ v \in volumes \cap staged
  /\ volume[v].total < granted[v]
  /\ WriteVolume(v, [volume[v] EXCEPT !.total = granted[v]])
  /\ UNCHANGED staged

-----------------------------------------------------------------------------
(* DeleteVolume *)

destroyFrame == <<driveVars, create, late, expand, release, clean, granted, debit>>

EndDelete(v) ==
  /\ destroy' = [destroy EXCEPT ![v] = "idle"]
  /\ DropVolume("destroy", v)

\* Get: a volume that is not there counts as deleted; a staged one is refused.
DeleteVolume(v) ==
  /\ claim[v] = "released" /\ destroy[v] = "idle"
  /\ \/ /\ v \notin volumes
        /\ claim' = [claim EXCEPT ![v] = "gone"]
        /\ UNCHANGED <<destroy, volumeCopies>>
     \/ /\ v \in volumes \ staged
        /\ destroy' = [destroy EXCEPT ![v] = "update"]
        /\ ReadVolume("destroy", v)
        /\ UNCHANGED claim
  /\ UNCHANGED <<destroyFrame, volumes, volume, pvProtected, deleting, staged>>

\* Faulty variant of DeleteUnprotect: the finalizer stays.
DeleteUnprotect_kept(v) ==
  /\ destroy[v] = "update"
  /\ destroy' = [destroy EXCEPT ![v] = "delete"]
  /\ DropVolume("destroy", v)
  /\ UNCHANGED <<destroyFrame, volumes, volume, pvProtected, deleting, staged, claim>>

\* Update without the pv-protection finalizer
DeleteUnprotect(v) ==
  /\ destroy[v] = "update"
  /\ IF "destroy" \in volumeCopies[v]
     THEN /\ RemovePVProtection("destroy", v)
          /\ destroy' = [destroy EXCEPT ![v] = "delete"]
     ELSE EndDelete(v) /\ UNCHANGED pvProtected
  /\ UNCHANGED <<destroyFrame, volumes, volume, deleting, staged, claim>>

\* Delete, which reports a volume that has gone meanwhile as an error
DeleteObject(v) ==
  /\ destroy[v] = "delete"
  /\ destroy' = [destroy EXCEPT ![v] = "idle"]
  /\ IF v \in volumes
     THEN /\ DeleteVolumeObject(v)
          /\ \/ claim' = [claim EXCEPT ![v] = "gone"]
             \/ Faults /\ UNCHANGED claim
     ELSE UNCHANGED <<deleting, volumeCopies, claim>>
  /\ UNCHANGED <<destroyFrame, volumes, volume, pvProtected, staged>>

AbortDelete(v) ==
  /\ Faults /\ destroy[v] # "idle"
  /\ EndDelete(v)
  /\ UNCHANGED <<destroyFrame, volumes, volume, pvProtected, deleting, staged, claim>>

-----------------------------------------------------------------------------
(* ControllerExpandVolume *)

expandFrame == <<volumeVars, create, late, destroy, release, clean, claim>>

EndExpand(v) ==
  /\ expand' = [expand EXCEPT ![v] = NoExpand]
  /\ DropDrive(<<"expand", v>>, expand[v].drive)

\* Get of the volume, asked for n bytes (a claim is never shrunk); nothing to do when
\* it has them.
ControllerExpandVolume(v, n) ==
  /\ claim[v] = "bound" /\ expand[v].pc = "idle" /\ n >= granted[v]
  /\ v \in volumes /\ volume[v].total < n
  /\ expand' = [expand EXCEPT ![v] =
       [pc |-> "getDrive", drive |-> volume[v].drive, need |-> n - volume[v].total, goal |-> n]]
  /\ UNCHANGED <<driveVars, expandFrame, granted, debit>>

\* Faulty variant of ExpandGetDrive: free capacity is not checked.
ExpandGetDrive_unchecked(v) ==
  LET d == expand[v].drive
  IN  /\ expand[v].pc = "getDrive"
      /\ IF d \in drives
         THEN /\ expand' = [expand EXCEPT ![v].pc = "updateDrive"]
              /\ ReadDrive(<<"expand", v>>, d)
         ELSE EndExpand(v)
      /\ UNCHANGED <<driveObjects, expandFrame, granted, debit>>

\* Get of the drive; gives up when it is gone or has too little free capacity.
ExpandGetDrive(v) ==
  LET d == expand[v].drive
  IN  /\ expand[v].pc = "getDrive"
      /\ IF d \in drives /\ expand[v].need <= drive[d].free
         THEN /\ expand' = [expand EXCEPT ![v].pc = "updateDrive"]
              /\ ReadDrive(<<"expand", v>>, d)
         ELSE EndExpand(v)
      /\ UNCHANGED <<driveObjects, expandFrame, granted, debit>>

\* The drive with n more bytes taken.
Expanded(d, n) ==
  [status    |-> drive[d].status,
   free      |-> drive[d].free - n,
   allocated |-> drive[d].allocated + n,
   volumes   |-> drive[d].volumes,
   claims    |-> drive[d].claims]

\* Faulty variant of ExpandUpdateDrive: a conflict of the drive Update is not reported.
ExpandUpdateDrive_conflictIgnored(v) ==
  LET d == expand[v].drive
  IN  /\ expand[v].pc = "updateDrive"
      /\ expand' = [expand EXCEPT ![v] = NoExpand]
      /\ granted' = [granted EXCEPT ![v] = expand[v].goal]
      /\ IF <<"expand", v>> \in driveCopies[d]
         THEN WriteDrive(d, Expanded(d, expand[v].need)) /\ Debit(d, v, expand[v].need)
         ELSE UNCHANGED <<driveVars, debit>>
      /\ UNCHANGED expandFrame

\* Update of the drive, and the response.
ExpandUpdateDrive(v) ==
  LET d == expand[v].drive
  IN  /\ expand[v].pc = "updateDrive"
      /\ expand' = [expand EXCEPT ![v] = NoExpand]
      /\ IF <<"expand", v>> \in driveCopies[d]
         THEN /\ WriteDrive(d, Expanded(d, expand[v].need))
              /\ Debit(d, v, expand[v].need)
              /\ \/ granted' = [granted EXCEPT ![v] = expand[v].goal]
                 \/ Faults /\ UNCHANGED granted
         ELSE UNCHANGED <<driveVars, granted, debit>>
      /\ UNCHANGED expandFrame

AbortExpand(v) ==
  /\ Faults /\ expand[v].pc # "idle"
  /\ EndExpand(v)
  /\ UNCHANGED <<driveObjects, expandFrame, granted, debit>>
-----------------------------------------------------------------------------
(* The volume controller: delete() of a volume with a deletion timestamp *)

releaseFrame == <<create, late, destroy, expand, clean, claim, granted>>

EndRelease(v) ==
  /\ release' = [release EXCEPT ![v] = NoRelease]
  /\ DropDrive(<<"release", v>>, release[v].drive)
  /\ DropVolume("release", v)

\* Get of the volume, refused until pv-protection is off; unmount and rename of the data.
ReleaseVolume(v) ==
  /\ release[v].pc = "idle"
  /\ v \in volumes \cap deleting /\ v \notin pvProtected
  /\ release' = [release EXCEPT ![v] =
       [pc |-> "getDrive", drive |-> volume[v].drive, size |-> volume[v].total]]
  /\ ReadVolume("release", v)
  /\ UNCHANGED <<driveVars, volumes, volume, pvProtected, deleting, staged,
                 releaseFrame, debit>>

\* Faulty variants of ReleaseGetDrive: a drive without the finalizer is refunded all
\* the same, or is an error.
ReleaseGetDrive_unguarded(v) ==
  LET d == release[v].drive
  IN  /\ release[v].pc = "getDrive"
      /\ \/ /\ d \notin drives
            /\ EndRelease(v)
         \/ /\ d \in drives
            /\ release' = [release EXCEPT ![v].pc = "updateDrive"]
            /\ ReadDrive(<<"release", v>>, d)
            /\ UNCHANGED volumeCopies
      /\ UNCHANGED <<driveObjects, volumes, volume, pvProtected, deleting, staged,
                     releaseFrame, debit>>
ReleaseGetDrive_finalizerNeeded(v) ==
  LET d == release[v].drive
  IN  /\ release[v].pc = "getDrive"
      /\ \/ /\ d \notin drives \/ v \notin drive[d].volumes
            /\ EndRelease(v)
         \/ /\ d \in drives /\ v \in drive[d].volumes
            /\ release' = [release EXCEPT ![v].pc = "updateDrive"]
            /\ ReadDrive(<<"release", v>>, d)
            /\ UNCHANGED volumeCopies
      /\ UNCHANGED <<driveObjects, volumes, volume, pvProtected, deleting, staged,
                     releaseFrame, debit>>

\* releaseVolume: Get of the drive, an error when it is gone.  A drive without the
\* volume's finalizer needs no Update.
ReleaseGetDrive(v) ==
  LET d == release[v].drive
  IN  /\ release[v].pc = "getDrive"
      /\ \/ /\ d \notin drives
            /\ EndRelease(v)
         \/ /\ d \in drives /\ v \in drive[d].volumes
            /\ release' = [release EXCEPT ![v].pc = "updateDrive"]
            /\ ReadDrive(<<"release", v>>, d)
            /\ UNCHANGED volumeCopies
         \/ /\ d \in drives /\ v \notin drive[d].volumes
            /\ release' = [release EXCEPT ![v].pc = "purge"]
            /\ UNCHANGED <<driveCopies, volumeCopies>>
      /\ UNCHANGED <<driveObjects, volumes, volume, pvProtected, deleting, staged,
                     releaseFrame, debit>>

\* Faulty variant of Released: the claim-id label stays.
Released_labelKept(d, v, size) ==
  [drive[d] EXCEPT !.volumes = @ \ {v}, !.free = @ + size,
                   !.allocated = Total[d] - (drive[d].free + size)]

\* The drive without the volume, its capacity given back.
Released(d, v, size) ==
  [status    |-> drive[d].status,
   free      |-> drive[d].free + size,
   allocated |-> Total[d] - (drive[d].free + size),
   volumes   |-> drive[d].volumes \ {v},
   claims    |-> drive[d].claims \ {ClaimOf[v]}]

\* releaseVolume: Update of the drive
ReleaseUpdateDrive(v) ==
  LET d == release[v].drive
  IN  /\ release[v].pc = "updateDrive"
      /\ IF <<"release", v>> \in driveCopies[d]
         THEN /\ WriteDrive(d, Released(d, v, release[v].size))
              /\ Debit(d, v, -release[v].size)
              /\ release' = [release EXCEPT ![v].pc = "purge"]
              /\ UNCHANGED volumeCopies
         ELSE EndRelease(v) /\ UNCHANGED <<driveObjects, debit>>
      /\ UNCHANGED <<volumes, volume, pvProtected, deleting, staged, releaseFrame>>

\* Update without purge-protection: the last finalizer, so the object goes.
ReleasePurge(v) ==
  /\ release[v].pc = "purge"
  /\ IF "release" \in volumeCopies[v]
     THEN /\ volumes' = volumes \ {v}
          /\ deleting' = deleting \ {v}
          /\ staged' = staged \ {v}
          /\ volume' = [volume EXCEPT ![v] = NoVolume]
          /\ volumeCopies' = [volumeCopies EXCEPT ![v] = {}]
     ELSE DropVolume("release", v) /\ UNCHANGED <<volumes, deleting, staged, volume>>
  /\ release' = [release EXCEPT ![v] = NoRelease]
  /\ UNCHANGED <<driveVars, pvProtected, releaseFrame, debit>>

AbortRelease(v) ==
  /\ Faults /\ release[v].pc # "idle"
  /\ EndRelease(v)
  /\ UNCHANGED <<driveObjects, volumes, volume, pvProtected, deleting, staged,
                 releaseFrame, debit>>

-----------------------------------------------------------------------------
(* kubectl directpv clean *)

cleanFrame == <<driveVars, create, late, destroy, expand, release, claim, granted, debit>>

\* matchFunc: no PersistentVolume of that name, or a released one.
Stale(v) == claim[v] \in {"released", "gone"} \cup
                         (IF QuietClean THEN {} ELSE {"pending", "provisioned"})

CleanVolume(v) ==
  /\ clean[v] = "idle"
  /\ v \in volumes /\ Stale(v)
  /\ clean' = [clean EXCEPT ![v] = "update"]
  /\ ReadVolume("clean", v)
  /\ UNCHANGED <<cleanFrame, volumes, volume, pvProtected, deleting, staged>>

CleanUnprotect(v) ==
  /\ clean[v] = "update"
  /\ IF "clean" \in volumeCopies[v]
     THEN /\ RemovePVProtection("clean", v)
          /\ clean' = [clean EXCEPT ![v] = "delete"]
     ELSE /\ clean' = [clean EXCEPT ![v] = "idle"]
          /\ DropVolume("clean", v)
          /\ UNCHANGED pvProtected
  /\ UNCHANGED <<cleanFrame, volumes, volume, deleting, staged>>

CleanDelete(v) ==
  /\ clean[v] = "delete"
  /\ clean' = [clean EXCEPT ![v] = "idle"]
  /\ IF v \in volumes THEN DeleteVolumeObject(v) ELSE UNCHANGED <<deleting, volumeCopies>>
  /\ UNCHANGED <<cleanFrame, volumes, volume, pvProtected, staged>>

AbortClean(v) ==
  /\ Faults /\ clean[v] # "idle"
  /\ clean' = [clean EXCEPT ![v] = "idle"]
  /\ DropVolume("clean", v)
  /\ UNCHANGED <<cleanFrame, volumes, volume, pvProtected, deleting, staged>>
-----------------------------------------------------------------------------
(* Drives: administrator's commands, the drive controller, repair *)

driveFrame == <<volumeVars, opVars, claim, granted, debit>>

\* A write of drive d that leaves its finalizers and capacities alone.
Touch(d) == driveCopies' = [driveCopies EXCEPT ![d] = {}]

SetStatus(d, s) ==
  /\ drive' = [drive EXCEPT ![d].status = s]
  /\ Touch(d)
  /\ UNCHANGED <<drives, cordoned, unprotected, terminating, removing, driveFrame>>

\* cordon: refused while a volume on the drive was never staged.
Cordon(d) ==
  /\ <<"cordon", d>> \in DriveEvents
  /\ d \in drives \ cordoned
  /\ \A v \in drive[d].volumes \cap volumes : volume[v].status # "Pending"
  /\ cordoned' = cordoned \cup {d}
  /\ Touch(d)
  /\ UNCHANGED <<drives, drive, unprotected, terminating, removing, driveFrame>>

Uncordon(d) ==
  /\ <<"cordon", d>> \in DriveEvents
  /\ d \in drives \cap cordoned
  /\ cordoned' = cordoned \ {d}
  /\ Touch(d)
  /\ UNCHANGED <<drives, drive, unprotected, terminating, removing, driveFrame>>

\* GetVolumeCount: the number of finalizers less one, data-protection being one of them.
GetVolumeCount(d) ==
  Cardinality(drive[d].volumes) - (IF d \in unprotected THEN 1 ELSE 0)

\* remove command: marks a drive that counts no volumes.
RemoveDrive(d) ==
  /\ <<"remove", d>> \in DriveEvents
  /\ d \in drives /\ drive[d].status # "Removed" /\ GetVolumeCount(d) <= 0
  /\ SetStatus(d, "Removed")

\* Drive controller, remove(): unmount, then Update without the data-protection finalizer.
RemoveFinalizers(d) ==
  /\ d \in drives \ removing /\ drive[d].status = "Removed" /\ GetVolumeCount(d) <= 0
  /\ removing' = removing \cup {d}
  /\ IF d \notin unprotected /\ drive[d].volumes = {}
     THEN unprotected' = unprotected \cup {d} /\ Touch(d)
     ELSE UNCHANGED <<unprotected, driveCopies>>
  /\ UNCHANGED <<drives, drive, cordoned, terminating, driveFrame>>

\* remove(): Delete.  Finalizers that are left keep the object, terminating.
DeleteDrive(d) ==
  /\ d \in removing
  /\ removing' = removing \ {d}
  /\ IF d \in unprotected /\ drive[d].volumes = {}
     THEN drives' = drives \ {d} /\ UNCHANGED terminating
     ELSE terminating' = terminating \cup {d} /\ UNCHANGED drives
  /\ Touch(d)
  /\ UNCHANGED <<drive, cordoned, unprotected, driveFrame>>

\* remove() fails after its Update; the controller runs it again.
AbortRemove(d) ==
  /\ Faults /\ d \in removing
  /\ removing' = removing \ {d}
  /\ UNCHANGED <<drives, drive, cordoned, unprotected, terminating, driveCopies, driveFrame>>

\* SetIOError, from checkDrive or from staging a volume
SetIOError(d) ==
  /\ <<"ioerror", d>> \in DriveEvents
  /\ d \in drives
  /\ SetStatus(d, "Error")

\* repair job: xfs_repair, mount, status from the result of the mount
Repair(d) ==
  /\ <<"repair", d>> \in DriveEvents
  /\ d \in drives
  /\ \/ drive[d].status # "Ready" /\ SetStatus(d, "Ready")
     \/ SetStatus(d, "Error")

-----------------------------------------------------------------------------
(* The whole system *)

CreateStep(v) == \/ CreateVolume(v) \/ CreateVolumeObject(v) \/ GetVolumeObject(v)
                 \/ UpdateVolumeObject(v) \/ ReserveDrive(v)
DeleteStep(v) == DeleteVolume(v) \/ DeleteUnprotect(v) \/ DeleteObject(v)
ReleaseStep(v) == \/ ReleaseVolume(v) \/ ReleaseGetDrive(v) \/ ReleaseUpdateDrive(v)
                  \/ ReleasePurge(v)
CleanStep(v) == CleanVolume(v) \/ CleanUnprotect(v) \/ CleanDelete(v)
ExpandStep(v) == \/ \E n \in ExpandTo : ControllerExpandVolume(v, n)
                 \/ ExpandGetDrive(v) \/ ExpandUpdateDrive(v)
LateStep(v) == TimeoutCreate(v) \/ LateReserve(v)
FaultStep(v) == \/ AbortCreate(v) \/ AbortDelete(v) \/ AbortExpand(v) \/ AbortRelease(v)
                \/ AbortClean(v)
NodeStep(v) == NodeStageVolume(v) \/ NodeUnstageVolume(v) \/ NodeExpandVolume(v)
DriveStep(d) == \/ Cordon(d) \/ Uncordon(d) \/ RemoveDrive(d) \/ RemoveFinalizers(d)
                \/ DeleteDrive(d) \/ AbortRemove(d) \/ SetIOError(d) \/ Repair(d)

Next ==
  \/ \E v \in Volumes : \/ Claim(v) \/ CreateStep(v) \/ LateStep(v) \/ NodeStep(v)
                        \/ DeleteStep(v) \/ ExpandStep(v) \/ ReleaseStep(v)
                        \/ CleanStep(v) \/ FaultStep(v)
  \/ \E d \in Drives : DriveStep(d)

Spec == Init /\ [][Next]_vars

\* The provisioner retries until CreateVolume succeeds, deletes what is released; the
\* work queue of the node retries delete(); pods that use a released claim end.
Fairness ==
  \A v \in Volumes :
    /\ WF_vars(CreateStep(v))
    /\ WF_vars(DeleteStep(v))
    /\ WF_vars(ReleaseStep(v))
    /\ WF_vars(claim[v] = "released" /\ NodeUnstageVolume(v))

FairSpec == Spec /\ Fairness
-----------------------------------------------------------------------------
(* Properties *)

\* The drive that volume v is on: the label of the volume object.
Home(v) == volume[v].drive
Reserves(d, v) == d \in drives /\ v \in drive[d].volumes

\* A drive lists a volume in its finalizers only if that volume exists and names
\* this drive.  A finalizer without its volume could never be released: nobody
\* would give the capacity back and the drive could never be removed.  It follows
\* that no volume is reserved on two drives.
ReservationSound ==
  \A d \in Drives, v \in Volumes :
    Reserves(d, v) => v \in volumes /\ Home(v) = d

\* A volume that CreateVolume reported to Kubernetes exists, protected, and its
\* drive exists and holds its reservation.
BoundIsReserved ==
  \A v \in Volumes :
    claim[v] \in {"provisioned", "bound"} =>
      v \in volumes /\ v \in pvProtected /\ Reserves(Home(v), v)

\* While the PersistentVolume is bound its DirectPVVolume is not deleted.
BoundVolumeExists == \A v \in Volumes : claim[v] = "bound" => v \in volumes

\* One volume per drive for each volume-claim-id, and the drive's claim-id labels
\* are those of the volumes it lists, through retries, releases and lost answers.
ClaimUnique ==
  \A d \in Drives :
    /\ drive[d].claims = {ClaimOf[v] : v \in drive[d].volumes} \ {NoClaim}
    /\ \A v, w \in drive[d].volumes : v # w => ClaimOf[v] # ClaimOf[w] \/ ClaimOf[v] = NoClaim

\* The TotalCapacity of a reserved volume was taken from the free capacity of its
\* drive and not given back; a size promised by ControllerExpandVolume too.
Backed ==
  \A d \in Drives, v \in Volumes :
    Reserves(d, v) /\ v \in volumes /\ Home(v) = d =>
      debit[d][v] >= volume[v].total /\ debit[d][v] >= granted[v]

\* The free capacity of a drive and everything taken from it make up what the filesystem
\* had at first; the volumes that live on the drive fit in what was taken, so volumes
\* never share space.
Promised(d) ==
  [v \in Volumes |-> IF v \in volumes /\ Home(v) = d THEN volume[v].total ELSE 0]
NoOvercommit ==
  \A d \in Drives :
    /\ drive[d].free + SumFunctionOnSet(debit[d], Volumes) = Usable[d]
    /\ drive[d].free + SumFunctionOnSet(Promised(d), drive[d].volumes) <= Usable[d]

\* Free capacity never goes below zero, whatever handlers reserve concurrently.
FreeNeverNegative == \A d \in Drives : drive[d].free >= 0

\* Free and allocated capacity never exceed the device, and fall short of it by at
\* most what XFS keeps for itself.
CapacityFieldsAgree ==
  \A d \in Drives : drive[d].free + drive[d].allocated \in {Usable[d], Total[d]}

\* Without expansion, what a drive has given out is exactly what its volumes hold:
\* a released volume gives everything back and nothing is taken twice.
RefundExact ==
  \A d \in Drives, v \in Volumes :
    debit[d][v] = IF Reserves(d, v) THEN volume[v].total ELSE 0

\* A claim is served, or the user gives it up, however often attempts collide.
PendingIsServed == \A v \in Volumes : claim[v] = "pending" ~> claim[v] # "pending"

\* A released volume disappears: DeleteVolume and the node's release run to the end.
ReleasedIsPurged == \A v \in Volumes : claim[v] = "released" ~> v \notin volumes

\* A volume that `clean` or DeleteVolume has deleted and unprotected disappears.
StaleIsPurged ==
  \A v \in Volumes : v \in deleting /\ v \notin pvProtected ~> v \notin volumes
=============================================================================
