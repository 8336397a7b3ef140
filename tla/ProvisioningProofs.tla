------------------------- MODULE ProvisioningProofs -------------------------
(* What holds of every execution of Provisioning, for any number of drives, volumes and
   claims.  Types first, then each drive object on its own: free capacity is never negative
   and a claim-id has one volume.  Then drives and volumes together: capacity is backed,
   reservations match volumes, and the concurrent handlers implement the atomic allocator
   of Placement. *)
EXTENDS ProvisioningInvariants, ProvisioningRefinement, SumTheorems, TLAPS

-----------------------------------------------------------------------------
(* Type correctness *)

USE DEF NoRange

\* The initial state is well typed.
LEMMA TypeInit == Init => TypeOK
  BY ProvisioningAssumption
     DEF Init, TypeOK, DriveTypes, VolumeTypes, HandlerTypes, DriveObject, Statuses,
         VolumeObject, CreateOp, LateOp, ExpandOp, ReleaseOp, DeletePcs, NoCreate, NoLate,
         NoExpand, NoRelease, NoVolume, ClaimPhases

\* The values a handler moves between are well typed.
LEMMA HandlerValues ==
  /\ NoCreate \in CreateOp /\ NoLate \in LateOp /\ NoExpand \in ExpandOp
  /\ NoRelease \in ReleaseOp /\ NoVolume \in VolumeObject
  /\ \A op \in CreateOp, p \in {"get", "update", "reserve"} :
       [op EXCEPT !.pc = p] \in CreateOp
  /\ \A op \in ExpandOp : [op EXCEPT !.pc = "updateDrive"] \in ExpandOp
  /\ \A op \in ReleaseOp, p \in {"updateDrive", "purge"} :
       [op EXCEPT !.pc = p] \in ReleaseOp
<1>1. NoCreate \in CreateOp /\ NoLate \in LateOp /\ NoExpand \in ExpandOp
      /\ NoRelease \in ReleaseOp /\ NoVolume \in VolumeObject
  BY DEF NoCreate, CreateOp, NoLate, LateOp, NoExpand, ExpandOp, NoRelease, ReleaseOp,
         NoVolume, VolumeObject
<1>2. \A op \in CreateOp, p \in {"get", "update", "reserve"} :
        [op EXCEPT !.pc = p] \in CreateOp
  BY DEF CreateOp
<1>3. \A op \in ExpandOp : [op EXCEPT !.pc = "updateDrive"] \in ExpandOp
  BY DEF ExpandOp
<1>4. \A op \in ReleaseOp, p \in {"updateDrive", "purge"} : [op EXCEPT !.pc = p] \in ReleaseOp
  BY DEF ReleaseOp
<1> QED
  BY <1>1, <1>2, <1>3, <1>4

\* What reservation, release and a change of status make of a drive is a drive.
LEMMA DriveValues ==
  ASSUME TypeOK, NEW d \in Drives, NEW v \in Volumes, NEW size \in Int
  PROVE  /\ Reserved(d, v, size) \in DriveObject
         /\ Released(d, v, size) \in DriveObject
         /\ Expanded(d, size) \in DriveObject
         /\ \A s \in Statuses : [drive[d] EXCEPT !.status = s] \in DriveObject
<1> drive[d] \in DriveObject
  BY DEF TypeOK, DriveTypes
<1>1. Reserved(d, v, size) \in DriveObject
  BY ProvisioningAssumption DEF Reserved, DriveObject
<1>2. Released(d, v, size) \in DriveObject
  BY ProvisioningAssumption DEF Released, DriveObject
<1>3. Expanded(d, size) \in DriveObject
  BY DEF Expanded, DriveObject
<1>4. \A s \in Statuses : [drive[d] EXCEPT !.status = s] \in DriveObject
  BY DEF DriveObject
<1> QED
  BY <1>1, <1>2, <1>3, <1>4

\* A write of a drive keeps the drives well typed, and so does a change of copies.
LEMMA WriteDriveTypes ==
  ASSUME DriveTypes, NEW d, NEW new, d \in Drives => new \in DriveObject, WriteDrive(d, new)
  PROVE  DriveTypes'
  BY DEF DriveTypes, WriteDrive

\* Reading or dropping a copy of a drive leaves the drive objects well typed.
LEMMA CopiesTypes ==
  ASSUME DriveTypes, UNCHANGED driveObjects,
         NEW d, NEW h \in DriveReaders, ReadDrive(h, d) \/ DropDrive(h, d) \/ UNCHANGED driveCopies
  PROVE  DriveTypes'
  BY DEF DriveTypes, driveObjects, ReadDrive, DropDrive

\* The account of what was taken from a drive stays a table of integers.
LEMMA DebitTypes ==
  ASSUME debit \in [Drives -> [Volumes -> Int]],
         NEW d, NEW v \in Volumes, NEW size \in Int, Debit(d, v, size)
  PROVE  debit' \in [Drives -> [Volumes -> Int]]
<1>1. CASE d \in Drives
  <2>1. [debit[d] EXCEPT ![v] = debit[d][v] + size] \in [Volumes -> Int]
    BY <1>1
  <2> QED
    BY <1>1, <2>1 DEF Debit
<1>2. CASE d \notin Drives
  BY <1>2 DEF Debit
<1> QED
  BY <1>1, <1>2

-----------------------------------------------------------------------------
(* CreateVolume *)

\* Types through CreateVolume, its retries and its late drive Update.
LEMMA TypeCreate ==
  ASSUME TypeOK, NEW v \in Volumes, CreateStep(v) \/ LateStep(v) \/ AbortCreate(v)
  PROVE  TypeOK'
<1>r. <<"create", v>> \in DriveReaders
  BY DEF DriveReaders
<1>w. NewVolume(v) \in VolumeObject
  BY DEF TypeOK, HandlerTypes, NewVolume, CreateOp, VolumeObject
<1>p. [create[v] EXCEPT !.pc = "get"] \in CreateOp /\ [create[v] EXCEPT !.pc = "update"] \in CreateOp
      /\ [create[v] EXCEPT !.pc = "reserve"] \in CreateOp
  BY HandlerValues DEF TypeOK, HandlerTypes
<1>1. CASE CreateVolume(v)
  <2> PICK d \in selectDrive(v) :
       /\ create' = [create EXCEPT ![v] =
            [pc |-> "create",
             mode |-> IF v \in drive[d].volumes THEN "found" ELSE "add",
             drive |-> d,
             size |-> IF Requested[v] = NoRange THEN drive[d].free ELSE Requested[v]]]
       /\ ReadDrive(<<"create", v>>, d)
    BY <1>1 DEF CreateVolume
  <2>1. d \in Drives
    BY DEF selectDrive, getFilteredDrives, TypeOK, DriveTypes
  <2>2. create' \in [Volumes -> CreateOp]
    <3>1. drive[d].free \in Int
      BY <2>1 DEF DriveObject, TypeOK, DriveTypes
    <3>2. Requested[v] \in Int
      BY ProvisioningAssumption
    <3>3. [pc |-> "create",
           mode |-> IF v \in drive[d].volumes THEN "found" ELSE "add",
           drive |-> d,
           size |-> IF Requested[v] = NoRange THEN drive[d].free ELSE Requested[v]] \in CreateOp
      BY <2>1, <3>1, <3>2 DEF CreateOp
    <3> QED
      BY <3>3 DEF TypeOK, HandlerTypes
  <2>3. DriveTypes'
    BY <1>1, <1>r, CopiesTypes DEF CreateVolume, TypeOK
  <2> QED
    BY <1>1, <2>2, <2>3 DEF CreateVolume, volumeVars, TypeOK, VolumeTypes, HandlerTypes
<1>2. CASE CreateVolumeObject(v)
  <2>1. create' \in [Volumes -> CreateOp]
    BY <1>2, <1>p DEF CreateVolumeObject, TypeOK, HandlerTypes
  <2>2. VolumeTypes'
    <3>1. volume' \in [Volumes -> VolumeObject]
      BY <1>2, <1>w DEF CreateVolumeObject, volumeVars, TypeOK, VolumeTypes
    <3>2. volumeCopies' \in [Volumes -> SUBSET VolumeReaders]
      BY <1>2 DEF CreateVolumeObject, volumeVars, TypeOK, VolumeTypes
    <3> QED
      BY <1>2, <3>1, <3>2 DEF CreateVolumeObject, volumeVars, TypeOK, VolumeTypes
  <2> QED
    BY <1>2, <2>1, <2>2 DEF CreateVolumeObject, driveVars, createFrame, TypeOK, HandlerTypes, DriveTypes
<1>e. ASSUME EndCreate(v)
      PROVE  /\ create' \in [Volumes -> CreateOp]
             /\ volumeCopies' \in [Volumes -> SUBSET VolumeReaders]
             /\ UNCHANGED driveObjects => DriveTypes'
  <2>1. create' \in [Volumes -> CreateOp] /\ volumeCopies' \in [Volumes -> SUBSET VolumeReaders]
    BY <1>e, HandlerValues DEF EndCreate, DropVolume, TypeOK, HandlerTypes, VolumeTypes
  <2> QED
    BY <2>1, <1>e, <1>r, CopiesTypes DEF EndCreate, TypeOK
<1>3. CASE GetVolumeObject(v)
  <2>1. create' \in [Volumes -> CreateOp] /\ volumeCopies' \in [Volumes -> SUBSET VolumeReaders]
    <3>1. CASE v \in volumes
      <4>1. create' \in [Volumes -> CreateOp]
        BY <1>3, <1>p, <3>1 DEF GetVolumeObject, TypeOK, HandlerTypes
      <4>2. volumeCopies' \in [Volumes -> SUBSET VolumeReaders]
        BY <1>3, <3>1 DEF GetVolumeObject, ReadVolume, TypeOK, VolumeTypes, VolumeReaders
      <4> QED
        BY <4>1, <4>2
    <3> QED
      BY <1>3, <1>e, <3>1 DEF GetVolumeObject
  <2>2. DriveTypes'
    BY <1>3, <1>e, <1>r, CopiesTypes DEF GetVolumeObject, TypeOK
  <2> QED
    BY <1>3, <2>1, <2>2 DEF GetVolumeObject, createFrame, TypeOK, VolumeTypes, HandlerTypes
<1>4. CASE UpdateVolumeObject(v)
  <2>1. create' \in [Volumes -> CreateOp] /\ volumeCopies' \in [Volumes -> SUBSET VolumeReaders]
    <3>1. CASE "create" \in volumeCopies[v] /\ (v \in deleting => v \in pvProtected)
      <4>1. create' \in [Volumes -> CreateOp]
        BY <1>4, <1>p, <3>1 DEF UpdateVolumeObject, TypeOK, HandlerTypes
      <4>2. volumeCopies' \in [Volumes -> SUBSET VolumeReaders]
        BY <1>4, <3>1 DEF UpdateVolumeObject, TypeOK, VolumeTypes
      <4> QED
        BY <4>1, <4>2
    <3> QED
      BY <1>4, <1>e, <3>1 DEF UpdateVolumeObject
  <2>2. DriveTypes'
    BY <1>4, <1>e, <1>r, CopiesTypes DEF UpdateVolumeObject, TypeOK
  <2>3. VolumeTypes'
    <3>1. volume' \in [Volumes -> VolumeObject]
      BY <1>4, <1>w DEF UpdateVolumeObject, TypeOK, VolumeTypes
    <3> QED
      BY <1>4, <2>1, <3>1 DEF UpdateVolumeObject, TypeOK, VolumeTypes
  <2> QED
    BY <1>4, <2>1, <2>2, <2>3 DEF UpdateVolumeObject, createFrame, TypeOK, HandlerTypes
<1>5. CASE ReserveDrive(v)
  <2>1. create' \in [Volumes -> CreateOp] /\ claim' \in [Volumes -> ClaimPhases]
    BY <1>5, HandlerValues DEF ReserveDrive, AnswerCreate, ClaimPhases, TypeOK, HandlerTypes
  <2>2. create[v].size \in Int
    BY DEF TypeOK, HandlerTypes, CreateOp
  <2>3. create[v].drive \in Drives => Reserved(create[v].drive, v, create[v].size) \in DriveObject
    BY <2>2, DriveValues
  <2>4. debit' \in [Drives -> [Volumes -> Int]]
    BY <1>5, <2>2, DebitTypes DEF ReserveDrive, TypeOK
  <2>5. DriveTypes'
    <3>1. CASE create[v].mode = "found"
      BY <1>5, <3>1, <1>r, CopiesTypes DEF ReserveDrive, TypeOK
    <3>2. CASE create[v].mode = "add" /\ <<"create", v>> \in driveCopies[create[v].drive]
      BY <1>5, <3>2, <2>3, WriteDriveTypes DEF ReserveDrive, TypeOK
    <3>3. CASE create[v].mode = "add" /\ <<"create", v>> \notin driveCopies[create[v].drive]
      BY <1>5, <3>3 DEF ReserveDrive, TypeOK, DriveTypes, driveVars
    <3> QED
      BY <1>5, <3>1, <3>2, <3>3 DEF ReserveDrive
  <2> QED
    BY <1>5, <2>1, <2>4, <2>5 DEF ReserveDrive, volumeVars, createFrame, TypeOK, VolumeTypes, HandlerTypes
<1>6. CASE AbortCreate(v)
  BY <1>6, <1>e DEF AbortCreate, createFrame, TypeOK, VolumeTypes, HandlerTypes
<1>7. CASE TimeoutCreate(v)
  <2>1. DriveTypes'
    <3>1. <<"late", v>> \in DriveReaders
      BY DEF DriveReaders
    <3>2. driveCopies' \in [Drives -> SUBSET DriveReaders]
      BY <1>7, <3>1 DEF TimeoutCreate, TypeOK, DriveTypes
    <3> QED
      BY <1>7, <3>2 DEF TimeoutCreate, driveObjects, TypeOK, DriveTypes
  <2>2. [pc |-> "sent", drive |-> create[v].drive, size |-> create[v].size] \in LateOp
    BY DEF TypeOK, HandlerTypes, CreateOp, LateOp
  <2> QED
    BY <1>7, <2>1, <2>2, HandlerValues DEF TimeoutCreate, volumeVars, TypeOK, VolumeTypes, HandlerTypes
<1>8. CASE LateReserve(v)
  <2>1. late[v].size \in Int
    BY DEF TypeOK, HandlerTypes, LateOp
  <2>2. late[v].drive \in Drives => Reserved(late[v].drive, v, late[v].size) \in DriveObject
    BY <2>1, DriveValues
  <2>3. debit' \in [Drives -> [Volumes -> Int]]
    BY <1>8, <2>1, DebitTypes DEF LateReserve, TypeOK
  <2>4. DriveTypes'
    BY <1>8, <2>2, WriteDriveTypes DEF LateReserve, TypeOK, driveVars, DriveTypes
  <2> QED
    BY <1>8, <2>3, <2>4, HandlerValues DEF LateReserve, volumeVars, TypeOK, VolumeTypes, HandlerTypes
<1> QED
  BY <1>1, <1>2, <1>3, <1>4, <1>5, <1>6, <1>7, <1>8 DEF CreateStep, LateStep

-----------------------------------------------------------------------------
(* Kubernetes and the kubelet *)

\* Types through what Kubernetes does to a claim.
LEMMA TypeClaim ==
  ASSUME TypeOK, NEW v \in Volumes, Claim(v)
  PROVE  TypeOK'
<1>1. claim' \in [Volumes -> ClaimPhases]
  BY DEF Claim, ClaimPhases, TypeOK
<1> QED
  BY <1>1 DEF Claim, claimFrame, driveVars, volumeVars, opVars, TypeOK, DriveTypes, VolumeTypes,
              HandlerTypes

\* Types through the calls of the kubelet that write the volume object.
LEMMA TypeNode ==
  ASSUME TypeOK, NEW v \in Volumes, NodeStep(v)
  PROVE  TypeOK'
<1>1. /\ volume[v] \in VolumeObject
      /\ [volume[v] EXCEPT !.status = "Ready"] \in VolumeObject
      /\ [volume[v] EXCEPT !.total = granted[v]] \in VolumeObject
  BY DEF TypeOK, VolumeTypes, VolumeObject
<1>2. ASSUME NEW new \in VolumeObject, WriteVolume(v, new), staged' \subseteq Volumes
      PROVE  TypeOK'
  BY <1>2 DEF WriteVolume, driveVars, opVars, TypeOK, DriveTypes, VolumeTypes, HandlerTypes
<1>3. CASE NodeStageVolume(v)
  BY <1>1, <1>2, <1>3 DEF NodeStageVolume, TypeOK, VolumeTypes
<1>4. CASE NodeUnstageVolume(v)
  BY <1>1, <1>2, <1>4 DEF NodeUnstageVolume, TypeOK, VolumeTypes
<1>5. CASE NodeExpandVolume(v)
  BY <1>1, <1>2, <1>5 DEF NodeExpandVolume, TypeOK, VolumeTypes
<1> QED
  BY <1>3, <1>4, <1>5 DEF NodeStep

-----------------------------------------------------------------------------
(* DeleteVolume and clean *)

\* What the two ways of deleting a volume do to the volume objects.
LEMMA DeletionTypes ==
  ASSUME VolumeTypes, NEW v \in Volumes, NEW h \in VolumeReaders
  PROVE  /\ ReadVolume(h, v) \/ DropVolume(h, v) =>
              volumeCopies' \in [Volumes -> SUBSET VolumeReaders]
         /\ RemovePVProtection(h, v) =>
              /\ volumeCopies' \in [Volumes -> SUBSET VolumeReaders]
              /\ pvProtected' \subseteq Volumes
         /\ DeleteVolumeObject(v) =>
              /\ volumeCopies' \in [Volumes -> SUBSET VolumeReaders]
              /\ deleting' \subseteq Volumes
<1>1. ReadVolume(h, v) \/ DropVolume(h, v) =>
        volumeCopies' \in [Volumes -> SUBSET VolumeReaders]
  BY DEF ReadVolume, DropVolume, VolumeTypes
<1>2. RemovePVProtection(h, v) =>
        /\ volumeCopies' \in [Volumes -> SUBSET VolumeReaders]
        /\ pvProtected' \subseteq Volumes
  BY DEF RemovePVProtection, VolumeTypes
<1>3. DeleteVolumeObject(v) =>
        /\ volumeCopies' \in [Volumes -> SUBSET VolumeReaders]
        /\ deleting' \subseteq Volumes
  BY DEF DeleteVolumeObject, VolumeTypes
<1> QED
  BY <1>1, <1>2, <1>3

\* Types through DeleteVolume.
LEMMA TypeDelete ==
  ASSUME TypeOK, NEW v \in Volumes, DeleteStep(v) \/ AbortDelete(v)
  PROVE  TypeOK'
<1>h. "destroy" \in VolumeReaders
  BY DEF VolumeReaders
<1>f. ASSUME UNCHANGED destroyFrame, claim' \in [Volumes -> ClaimPhases], VolumeTypes',
             destroy' \in [Volumes -> DeletePcs]
      PROVE  TypeOK'
  BY <1>f DEF destroyFrame, driveVars, TypeOK, DriveTypes, HandlerTypes
<1>1. destroy' \in [Volumes -> DeletePcs]
  BY DEF DeleteStep, DeleteVolume, DeleteUnprotect, DeleteObject, AbortDelete, EndDelete,
         DeletePcs, TypeOK, HandlerTypes
<1>2. claim' \in [Volumes -> ClaimPhases]
  BY DEF DeleteStep, DeleteVolume, DeleteUnprotect, DeleteObject, AbortDelete, ClaimPhases, TypeOK
<1>3. CASE DeleteVolume(v)
  <2>1. VolumeTypes'
    BY <1>3, <1>h, DeletionTypes DEF DeleteVolume, TypeOK, VolumeTypes
  <2> QED
    BY <1>1, <1>2, <1>3, <1>f, <2>1 DEF DeleteVolume
<1>4. CASE DeleteUnprotect(v)
  <2>1. VolumeTypes'
    BY <1>4, <1>h, DeletionTypes DEF DeleteUnprotect, EndDelete, TypeOK, VolumeTypes
  <2> QED
    BY <1>1, <1>2, <1>4, <1>f, <2>1 DEF DeleteUnprotect
<1>5. CASE DeleteObject(v)
  <2>1. VolumeTypes'
    BY <1>5, <1>h, DeletionTypes DEF DeleteObject, TypeOK, VolumeTypes
  <2> QED
    BY <1>1, <1>2, <1>5, <1>f, <2>1 DEF DeleteObject
<1>6. CASE AbortDelete(v)
  <2>1. VolumeTypes'
    BY <1>6, <1>h, DeletionTypes DEF AbortDelete, EndDelete, TypeOK, VolumeTypes
  <2> QED
    BY <1>1, <1>2, <1>6, <1>f, <2>1 DEF AbortDelete
<1> QED
  BY <1>3, <1>4, <1>5, <1>6 DEF DeleteStep

\* Types through the command clean.
LEMMA TypeClean ==
  ASSUME TypeOK, NEW v \in Volumes, CleanStep(v) \/ AbortClean(v)
  PROVE  TypeOK'
<1>h. "clean" \in VolumeReaders
  BY DEF VolumeReaders
<1>f. ASSUME UNCHANGED cleanFrame, VolumeTypes', clean' \in [Volumes -> DeletePcs]
      PROVE  TypeOK'
  BY <1>f DEF cleanFrame, driveVars, TypeOK, DriveTypes, HandlerTypes
<1>1. clean' \in [Volumes -> DeletePcs]
  BY DEF CleanStep, CleanVolume, CleanUnprotect, CleanDelete, AbortClean, DeletePcs, TypeOK,
         HandlerTypes
<1>3. CASE CleanVolume(v)
  <2>1. VolumeTypes'
    BY <1>3, <1>h, DeletionTypes DEF CleanVolume, TypeOK, VolumeTypes
  <2> QED
    BY <1>1, <1>3, <1>f, <2>1 DEF CleanVolume
<1>4. CASE CleanUnprotect(v)
  <2>1. VolumeTypes'
    BY <1>4, <1>h, DeletionTypes DEF CleanUnprotect, TypeOK, VolumeTypes
  <2> QED
    BY <1>1, <1>4, <1>f, <2>1 DEF CleanUnprotect
<1>5. CASE CleanDelete(v)
  <2>1. VolumeTypes'
    BY <1>5, <1>h, DeletionTypes DEF CleanDelete, TypeOK, VolumeTypes
  <2> QED
    BY <1>1, <1>5, <1>f, <2>1 DEF CleanDelete
<1>6. CASE AbortClean(v)
  <2>1. VolumeTypes'
    BY <1>6, <1>h, DeletionTypes DEF AbortClean, TypeOK, VolumeTypes
  <2> QED
    BY <1>1, <1>6, <1>f, <2>1 DEF AbortClean
<1> QED
  BY <1>3, <1>4, <1>5, <1>6 DEF CleanStep

-----------------------------------------------------------------------------
(* ControllerExpandVolume *)

\* Types through ControllerExpandVolume.
LEMMA TypeExpand ==
  ASSUME TypeOK, NEW v \in Volumes, ExpandStep(v) \/ AbortExpand(v)
  PROVE  TypeOK'
<1>h. <<"expand", v>> \in DriveReaders
  BY DEF DriveReaders
<1>n. expand[v].need \in Int /\ expand[v].goal \in Nat
  BY DEF TypeOK, HandlerTypes, ExpandOp
<1>f. ASSUME UNCHANGED expandFrame, DriveTypes', expand' \in [Volumes -> ExpandOp],
             granted' \in [Volumes -> Nat], debit' \in [Drives -> [Volumes -> Int]]
      PROVE  TypeOK'
  BY <1>f DEF expandFrame, volumeVars, TypeOK, VolumeTypes, HandlerTypes
<1>1. ASSUME NEW n \in ExpandTo, ControllerExpandVolume(v, n)
      PROVE  TypeOK'
  <2>1. [pc |-> "getDrive", drive |-> volume[v].drive, need |-> n - volume[v].total, goal |-> n]
          \in ExpandOp
    BY ProvisioningAssumption DEF TypeOK, VolumeTypes, VolumeObject, ExpandOp
  <2>2. expand' \in [Volumes -> ExpandOp]
    BY <1>1, <2>1 DEF ControllerExpandVolume, TypeOK, HandlerTypes
  <2> QED
    BY <1>1, <1>f, <2>2 DEF ControllerExpandVolume, driveVars, TypeOK, DriveTypes
<1>e. ASSUME EndExpand(v), UNCHANGED driveObjects
      PROVE  DriveTypes' /\ expand' \in [Volumes -> ExpandOp]
  BY <1>e, <1>h, CopiesTypes, HandlerValues DEF EndExpand, TypeOK, HandlerTypes
<1>2. CASE ExpandGetDrive(v)
  <2>1. CASE expand[v].drive \in drives /\ expand[v].need <= drive[expand[v].drive].free
    <3>1. [expand[v] EXCEPT !.pc = "updateDrive"] \in ExpandOp
      BY HandlerValues DEF TypeOK, HandlerTypes
    <3>2. expand' \in [Volumes -> ExpandOp]
      BY <1>2, <2>1, <3>1 DEF ExpandGetDrive, TypeOK, HandlerTypes
    <3>3. DriveTypes'
      BY <1>2, <2>1, <1>h, CopiesTypes DEF ExpandGetDrive, TypeOK
    <3> QED
      BY <1>2, <1>f, <3>2, <3>3 DEF ExpandGetDrive, TypeOK
  <2> QED
    BY <1>2, <1>f, <1>e, <2>1 DEF ExpandGetDrive, TypeOK
<1>3. CASE ExpandUpdateDrive(v)
  <2>1. expand' \in [Volumes -> ExpandOp]
    BY <1>3, HandlerValues DEF ExpandUpdateDrive, TypeOK, HandlerTypes
  <2>2. granted' \in [Volumes -> Nat]
    BY <1>3, <1>n DEF ExpandUpdateDrive, TypeOK
  <2>3. debit' \in [Drives -> [Volumes -> Int]]
    BY <1>3, <1>n, DebitTypes DEF ExpandUpdateDrive, TypeOK
  <2>4. expand[v].drive \in Drives => Expanded(expand[v].drive, expand[v].need) \in DriveObject
    BY <1>n, DriveValues
  <2>5. DriveTypes'
    BY <1>3, <2>4, WriteDriveTypes DEF ExpandUpdateDrive, TypeOK, driveVars, DriveTypes
  <2> QED
    BY <1>3, <1>f, <2>1, <2>2, <2>3, <2>5 DEF ExpandUpdateDrive
<1>4. CASE AbortExpand(v)
  BY <1>4, <1>f, <1>e DEF AbortExpand, TypeOK
<1> QED
  BY <1>1, <1>2, <1>3, <1>4 DEF ExpandStep

-----------------------------------------------------------------------------
(* The volume controller *)

\* Types through the volume controller's delete() and releaseVolume().
LEMMA TypeRelease ==
  ASSUME TypeOK, NEW v \in Volumes, ReleaseStep(v) \/ AbortRelease(v)
  PROVE  TypeOK'
<1>h. <<"release", v>> \in DriveReaders /\ "release" \in VolumeReaders
  BY DEF DriveReaders, VolumeReaders
<1>n. release[v].size \in Int
  BY DEF TypeOK, HandlerTypes, ReleaseOp
<1>p. /\ [release[v] EXCEPT !.pc = "updateDrive"] \in ReleaseOp
      /\ [release[v] EXCEPT !.pc = "purge"] \in ReleaseOp
  BY HandlerValues DEF TypeOK, HandlerTypes
<1>f. ASSUME UNCHANGED releaseFrame, DriveTypes', VolumeTypes',
             release' \in [Volumes -> ReleaseOp], debit' \in [Drives -> [Volumes -> Int]]
      PROVE  TypeOK'
  BY <1>f DEF releaseFrame, TypeOK, HandlerTypes
<1>e. ASSUME EndRelease(v), UNCHANGED driveObjects
      PROVE  /\ DriveTypes' /\ release' \in [Volumes -> ReleaseOp]
             /\ volumeCopies' \in [Volumes -> SUBSET VolumeReaders]
  <2>1. DriveTypes'
    BY <1>e, <1>h, CopiesTypes DEF EndRelease, TypeOK
  <2>2. release' \in [Volumes -> ReleaseOp]
    BY <1>e, HandlerValues DEF EndRelease, TypeOK, HandlerTypes
  <2>3. volumeCopies' \in [Volumes -> SUBSET VolumeReaders]
    BY <1>e, <1>h, DeletionTypes DEF EndRelease, TypeOK
  <2> QED
    BY <2>1, <2>2, <2>3
<1>v. ASSUME UNCHANGED <<volumes, volume, pvProtected, deleting, staged>>,
             volumeCopies' \in [Volumes -> SUBSET VolumeReaders]
      PROVE  VolumeTypes'
  BY <1>v DEF TypeOK, VolumeTypes
<1>1. CASE ReleaseVolume(v)
  <2>1. [pc |-> "getDrive", drive |-> volume[v].drive, size |-> volume[v].total] \in ReleaseOp
    BY DEF TypeOK, VolumeTypes, VolumeObject, ReleaseOp
  <2>2. release' \in [Volumes -> ReleaseOp]
    BY <1>1, <2>1 DEF ReleaseVolume, TypeOK, HandlerTypes
  <2>3. VolumeTypes'
    BY <1>1, <1>h, <1>v, DeletionTypes DEF ReleaseVolume, TypeOK
  <2> QED
    BY <1>1, <1>f, <2>2, <2>3 DEF ReleaseVolume, driveVars, TypeOK, DriveTypes
<1>2. CASE ReleaseGetDrive(v)
  <2>1. CASE release[v].drive \notin drives
    BY <1>2, <1>e, <1>f, <1>v, <2>1 DEF ReleaseGetDrive, TypeOK
  <2>2. CASE release[v].drive \in drives
    <3>1. release' \in [Volumes -> ReleaseOp]
      BY <1>2, <1>p, <2>2 DEF ReleaseGetDrive, TypeOK, HandlerTypes
    <3>2. DriveTypes'
      BY <1>2, <1>h, <2>2, CopiesTypes DEF ReleaseGetDrive, TypeOK
    <3>3. VolumeTypes'
      BY <1>2, <2>2, <1>v DEF ReleaseGetDrive, TypeOK, VolumeTypes
    <3> QED
      BY <1>2, <1>f, <3>1, <3>2, <3>3 DEF ReleaseGetDrive, TypeOK
  <2> QED
    BY <2>1, <2>2
<1>3. CASE ReleaseUpdateDrive(v)
  <2>1. CASE <<"release", v>> \in driveCopies[release[v].drive]
    <3>1. release' \in [Volumes -> ReleaseOp]
      BY <1>3, <1>p, <2>1 DEF ReleaseUpdateDrive, TypeOK, HandlerTypes
    <3>2. release[v].drive \in Drives =>
            Released(release[v].drive, v, release[v].size) \in DriveObject
      BY <1>n, DriveValues
    <3>3. DriveTypes'
      BY <1>3, <2>1, <3>2, WriteDriveTypes DEF ReleaseUpdateDrive, TypeOK
    <3>4. debit' \in [Drives -> [Volumes -> Int]]
      <4>1. -release[v].size \in Int
        BY <1>n
      <4> QED
        BY <1>3, <2>1, <4>1, DebitTypes DEF ReleaseUpdateDrive, TypeOK
    <3>5. VolumeTypes'
      BY <1>3, <2>1, <1>v DEF ReleaseUpdateDrive, TypeOK, VolumeTypes
    <3> QED
      BY <1>3, <1>f, <3>1, <3>3, <3>4, <3>5 DEF ReleaseUpdateDrive
  <2>2. CASE <<"release", v>> \notin driveCopies[release[v].drive]
    BY <1>3, <1>e, <1>f, <1>v, <2>2 DEF ReleaseUpdateDrive, TypeOK
  <2> QED
    BY <2>1, <2>2
<1>4. CASE ReleasePurge(v)
  <2>1. release' \in [Volumes -> ReleaseOp]
    BY <1>4, HandlerValues DEF ReleasePurge, TypeOK, HandlerTypes
  <2>2. volumeCopies' \in [Volumes -> SUBSET VolumeReaders]
    BY <1>4, <1>h, DeletionTypes DEF ReleasePurge, TypeOK, VolumeTypes
  <2>3. volume' \in [Volumes -> VolumeObject]
    BY <1>4, HandlerValues DEF ReleasePurge, TypeOK, VolumeTypes
  <2>4. VolumeTypes'
    BY <1>4, <2>2, <2>3 DEF ReleasePurge, TypeOK, VolumeTypes
  <2> QED
    BY <1>4, <1>f, <2>1, <2>4 DEF ReleasePurge, driveVars, TypeOK, DriveTypes
<1>5. CASE AbortRelease(v)
  BY <1>5, <1>e, <1>f, <1>v DEF AbortRelease, TypeOK
<1> QED
  BY <1>1, <1>2, <1>3, <1>4, <1>5 DEF ReleaseStep

-----------------------------------------------------------------------------
(* Drives *)

\* Types through the commands and controllers that write a drive object.
LEMMA TypeDrive ==
  ASSUME TypeOK, NEW d \in Drives, DriveStep(d)
  PROVE  TypeOK'
<1>f. ASSUME UNCHANGED driveFrame, DriveTypes'
      PROVE  TypeOK'
  BY <1>f DEF driveFrame, volumeVars, opVars, TypeOK, VolumeTypes, HandlerTypes
<1>s. ASSUME NEW s \in Statuses, SetStatus(d, s)
      PROVE  TypeOK'
  <2>1. [drive[d] EXCEPT !.status = s] \in DriveObject
    BY DEF TypeOK, DriveTypes, DriveObject
  <2>2. DriveTypes'
    BY <1>s, <2>1 DEF SetStatus, Touch, TypeOK, DriveTypes
  <2> QED
    BY <1>s, <1>f, <2>2 DEF SetStatus
<1>1. CASE Cordon(d) \/ Uncordon(d)
  <2>1. DriveTypes'
    BY <1>1 DEF Cordon, Uncordon, Touch, TypeOK, DriveTypes
  <2> QED
    BY <1>1, <1>f, <2>1 DEF Cordon, Uncordon
<1>2. CASE RemoveFinalizers(d) \/ DeleteDrive(d) \/ AbortRemove(d)
  <2>1. DriveTypes'
    BY <1>2 DEF RemoveFinalizers, DeleteDrive, AbortRemove, Touch, TypeOK, DriveTypes
  <2> QED
    BY <1>2, <1>f, <2>1 DEF RemoveFinalizers, DeleteDrive, AbortRemove
<1>3. CASE RemoveDrive(d) \/ SetIOError(d) \/ Repair(d)
  BY <1>3, <1>s DEF RemoveDrive, SetIOError, Repair, Statuses
<1> QED
  BY <1>1, <1>2, <1>3 DEF DriveStep

-----------------------------------------------------------------------------

\* One step of any process keeps every object and handler well typed.
LEMMA TypeStep == TypeOK /\ [Next]_vars => TypeOK'
<1> SUFFICES ASSUME TypeOK, [Next]_vars PROVE TypeOK'
  OBVIOUS
<1>1. ASSUME NEW v \in Volumes,
             Claim(v) \/ CreateStep(v) \/ LateStep(v) \/ NodeStep(v) \/ DeleteStep(v)
               \/ ExpandStep(v) \/ ReleaseStep(v) \/ CleanStep(v) \/ FaultStep(v)
      PROVE  TypeOK'
  BY <1>1, TypeClaim, TypeCreate, TypeNode, TypeDelete, TypeExpand, TypeRelease, TypeClean
     DEF FaultStep
<1>2. ASSUME NEW d \in Drives, DriveStep(d)
      PROVE  TypeOK'
  BY <1>2, TypeDrive
<1>3. CASE UNCHANGED vars
  BY <1>3 DEF vars, driveVars, volumeVars, opVars, TypeOK, DriveTypes, VolumeTypes, HandlerTypes
<1> QED
  BY <1>1, <1>2, <1>3 DEF Next

\* Every object the API server stores and every value a handler keeps between its
\* calls has the shape the code gives it, whatever interleaves or fails.
THEOREM TypeCorrect == Spec => []TypeOK
  BY TypeInit, TypeStep, PTL DEF Spec

HIDE DEF NoRange

-----------------------------------------------------------------------------
(* Drive objects *)

\* Reserving what a drive admits, expanding within its free capacity and
\* releasing a volume it lists all make a sound drive of a sound one.
LEMMA ReservedSafe ==
  ASSUME TypeOK, NEW d \in Drives, NEW v \in Volumes, NEW size \in Int,
         SafeDrive(drive[d]), Admits(d, v, size)
  PROVE  SafeDrive(Reserved(d, v, size))
<1> DEFINE o == drive[d]
           n == Reserved(d, v, size)
<1>1. o.free \in Int /\ o.volumes \in SUBSET Volumes /\ o.claims \in SUBSET Claims
  BY DEF TypeOK, DriveTypes, DriveObject
<1>2. n.free >= 0
  BY <1>1 DEF Reserved, Admits
<1>3. n.volumes = o.volumes \cup {v} /\ n.claims = o.claims \cup ({ClaimOf[v]} \ {NoClaim})
  BY DEF Reserved
<1>4. n.claims = {ClaimOf[x] : x \in n.volumes} \ {NoClaim}
  BY <1>3 DEF SafeDrive
<1>5. \A x, y \in n.volumes : x # y => ClaimOf[x] # ClaimOf[y] \/ ClaimOf[x] = NoClaim
  BY <1>3 DEF SafeDrive, Admits
<1> QED
  BY <1>2, <1>4, <1>5 DEF SafeDrive

\* Releasing a volume that the drive lists keeps the drive sound.
LEMMA ReleasedSafe ==
  ASSUME TypeOK, NEW d \in Drives, NEW v \in Volumes, NEW size \in Int,
         SafeDrive(drive[d]), v \in drive[d].volumes, size >= 0
  PROVE  SafeDrive(Released(d, v, size))
<1> DEFINE o == drive[d]
           n == Released(d, v, size)
<1>1. o.free \in Int
  BY DEF TypeOK, DriveTypes, DriveObject
<1>2. n.free >= 0
  BY <1>1 DEF Released, SafeDrive
<1>3. n.volumes = o.volumes \ {v} /\ n.claims = o.claims \ {ClaimOf[v]}
  BY DEF Released
<1>4. n.claims = {ClaimOf[x] : x \in n.volumes} \ {NoClaim}
  BY <1>3 DEF SafeDrive
<1>5. \A x, y \in n.volumes : x # y => ClaimOf[x] # ClaimOf[y] \/ ClaimOf[x] = NoClaim
  BY <1>3 DEF SafeDrive
<1> QED
  BY <1>2, <1>4, <1>5 DEF SafeDrive

\* Taking an expansion that fits keeps the drive sound.
LEMMA ExpandedSafe ==
  ASSUME TypeOK, NEW d \in Drives, NEW n \in Int, SafeDrive(drive[d]), n <= drive[d].free
  PROVE  SafeDrive(Expanded(d, n))
<1>1. drive[d].free \in Int
  BY DEF TypeOK, DriveTypes, DriveObject
<1> QED
  BY <1>1 DEF Expanded, SafeDrive

\* The status of a drive has no part in its soundness.
LEMMA StatusSafe ==
  ASSUME TypeOK, NEW d \in Drives, NEW s \in Statuses, SafeDrive(drive[d])
  PROVE  SafeDrive([drive[d] EXCEPT !.status = s])
  BY DEF TypeOK, DriveTypes, DriveObject, SafeDrive

\* A drive that CreateVolume selects and that does not list the volume admits it.
LEMMA SelectedAdmits ==
  ASSUME TypeOK, NEW v \in Volumes, NEW d \in selectDrive(v), v \notin drive[d].volumes
  PROVE  Admits(d, v, IF Requested[v] = NoRange THEN drive[d].free ELSE Requested[v])
<1>1. d \in Drives
  BY DEF selectDrive, getFilteredDrives, TypeOK, DriveTypes
<1>2. drive[d].free \in Int /\ Requested[v] \in Int
  BY <1>1, ProvisioningAssumption DEF TypeOK, DriveTypes, DriveObject, NoRange
<1>3. matchDrive(d, v)
  BY DEF selectDrive, getFilteredDrives
<1> QED
  BY <1>2, <1>3 DEF matchDrive, Admits

-----------------------------------------------------------------------------
(* Copies of drive objects *)

\* Handler h has no copy of drive d that it had not before, and d is what it was
\* if any copy of it is current.
Kept(d, h) ==
  h \in driveCopies'[d] => h \in driveCopies[d] /\ drive'[d] = drive[d]

\* A write of a drive leaves nobody with a copy of it, and the other drives alone.
LEMMA WriteKeeps ==
  ASSUME TypeOK, NEW d, NEW new, WriteDrive(d, new)
  PROVE  \A x \in Drives, h \in DriveReaders : Kept(x, h)
  BY DEF TypeOK, DriveTypes, WriteDrive, Kept

\* So does a write that changes only the status, the finalizer or the cordon.
LEMMA TouchKeeps ==
  ASSUME TypeOK, NEW d, Touch(d), \A x \in Drives : x # d => drive'[x] = drive[x]
  PROVE  \A x \in Drives, h \in DriveReaders : Kept(x, h)
  BY DEF TypeOK, DriveTypes, Touch, Kept

\* A handler that drops its copy leaves the copies of the others as true as they were.
LEMMA DropKeeps ==
  ASSUME TypeOK, NEW d, NEW g, DropDrive(g, d) \/ UNCHANGED driveCopies, UNCHANGED drive
  PROVE  \A x \in Drives, h \in DriveReaders : Kept(x, h)
  BY DEF TypeOK, DriveTypes, DropDrive, Kept

\* A handler that reads a drive leaves the copies of the others as true as they were.
LEMMA ReadKeeps ==
  ASSUME TypeOK, NEW d, NEW g, ReadDrive(g, d), UNCHANGED drive
  PROVE  \A x \in Drives, h \in DriveReaders : h # g => Kept(x, h)
  BY DEF TypeOK, DriveTypes, ReadDrive, Kept

\* A handler whose copies are kept and that only moves on keeps what it saw.
LEMMA CopyStays ==
  ASSUME NEW d \in Drives, NEW v \in Volumes
  PROVE  /\ /\ CreateCopyTrue(d, v) /\ Kept(d, <<"create", v>>)
            /\ create'[v].pc # "idle" => /\ create[v].pc # "idle"
                                         /\ create'[v].mode = create[v].mode
                                         /\ create'[v].drive = create[v].drive
                                         /\ create'[v].size = create[v].size
            => CreateCopyTrue(d, v)'
         /\ LateCopyTrue(d, v) /\ Kept(d, <<"late", v>>) /\ late'[v] = late[v]
            => LateCopyTrue(d, v)'
         /\ ExpandCopyTrue(d, v) /\ Kept(d, <<"expand", v>>) /\ expand'[v] = expand[v]
            => ExpandCopyTrue(d, v)'
         /\ ReleaseCopyTrue(d, v) /\ Kept(d, <<"release", v>>) /\ release'[v] = release[v]
            => ReleaseCopyTrue(d, v)'
<1>1. /\ CreateCopyTrue(d, v) /\ Kept(d, <<"create", v>>)
      /\ create'[v].pc # "idle" => /\ create[v].pc # "idle"
                                   /\ create'[v].mode = create[v].mode
                                   /\ create'[v].drive = create[v].drive
                                   /\ create'[v].size = create[v].size
      => CreateCopyTrue(d, v)'
  BY DEF CreateCopyTrue, Kept, Admits
<1>2. LateCopyTrue(d, v) /\ Kept(d, <<"late", v>>) /\ late'[v] = late[v]
      => LateCopyTrue(d, v)'
  BY DEF LateCopyTrue, Kept, Admits
<1>3. ExpandCopyTrue(d, v) /\ Kept(d, <<"expand", v>>) /\ expand'[v] = expand[v]
      => ExpandCopyTrue(d, v)'
  BY DEF ExpandCopyTrue, Kept
<1>4. ReleaseCopyTrue(d, v) /\ Kept(d, <<"release", v>>) /\ release'[v] = release[v]
      => ReleaseCopyTrue(d, v)'
  BY DEF ReleaseCopyTrue, Kept
<1> QED
  BY <1>1, <1>2, <1>3, <1>4

\* Handlers that read no drive in this step.
Moves ==
  /\ \A v \in Volumes :
       create'[v].pc # "idle" => /\ create[v].pc # "idle"
                                 /\ create'[v].mode = create[v].mode
                                 /\ create'[v].drive = create[v].drive
                                 /\ create'[v].size = create[v].size
  /\ UNCHANGED late
  /\ \A v \in Volumes : expand'[v] = expand[v] \/ expand'[v].pc # "updateDrive"
  /\ \A v \in Volumes : release'[v] = release[v] \/ release'[v].pc # "updateDrive"

\* If no copy became current and no drive changed under one, all copies stay true.
LEMMA CopiesStay ==
  ASSUME CopiesTrue, Moves, \A x \in Drives, h \in DriveReaders : Kept(x, h)
  PROVE  CopiesTrue'
<1> SUFFICES ASSUME NEW d \in Drives, NEW v \in Volumes
             PROVE  /\ CreateCopyTrue(d, v)' /\ LateCopyTrue(d, v)'
                    /\ ExpandCopyTrue(d, v)' /\ ReleaseCopyTrue(d, v)'
  BY DEF CopiesTrue
<1>1. /\ Kept(d, <<"create", v>>) /\ Kept(d, <<"late", v>>)
      /\ Kept(d, <<"expand", v>>) /\ Kept(d, <<"release", v>>)
  BY DEF DriveReaders
<1>2. /\ CreateCopyTrue(d, v) /\ LateCopyTrue(d, v)
      /\ ExpandCopyTrue(d, v) /\ ReleaseCopyTrue(d, v)
  BY DEF CopiesTrue
<1>3. CreateCopyTrue(d, v)'
  BY <1>1, <1>2, CopyStays DEF Moves
<1>4. LateCopyTrue(d, v)'
  BY <1>1, <1>2, CopyStays DEF Moves
<1>5. ExpandCopyTrue(d, v)'
  BY <1>1, <1>2, CopyStays DEF Moves, ExpandCopyTrue
<1>6. ReleaseCopyTrue(d, v)'
  BY <1>1, <1>2, CopyStays DEF Moves, ReleaseCopyTrue
<1> QED
  BY <1>3, <1>4, <1>5, <1>6

\* A write of a drive with a sound value.
LEMMA WriteSafe ==
  ASSUME TypeOK, SafeDrives, NEW d, NEW new, d \in Drives => SafeDrive(new), WriteDrive(d, new)
  PROVE  SafeDrives'
  BY DEF TypeOK, DriveTypes, SafeDrives, WriteDrive

\* Steps that leave the drives alone keep them sound.
LEMMA UnchangedSafe ==
  ASSUME SafeDrives, UNCHANGED drive
  PROVE  SafeDrives'
  BY DEF SafeDrives

\* Steps that leave every drive and every copy of a drive alone.
LEMMA QuietStep ==
  ASSUME DriveInv, Moves, UNCHANGED <<drive, driveCopies>>
  PROVE  SafeDrives' /\ CopiesTrue'
<1>1. \A x \in Drives, h \in DriveReaders : Kept(x, h)
  BY DEF Kept
<1> QED
  BY <1>1, CopiesStay, UnchangedSafe DEF DriveInv

-----------------------------------------------------------------------------
(* CreateVolume *)

\* CreateVolume selects, and reserves only what its current copy still admits.
LEMMA DriveCreate ==
  ASSUME DriveInv, NEW v \in Volumes, CreateStep(v) \/ AbortCreate(v)
  PROVE  SafeDrives' /\ CopiesTrue' /\ SizesTrue'
<1> USE DEF DriveInv
<1>t. create \in [Volumes -> CreateOp]
  BY DEF TypeOK, HandlerTypes
<1>1. CASE CreateVolume(v)
  <2> DEFINE size(d) == IF Requested[v] = NoRange THEN drive[d].free ELSE Requested[v]
  <2>1. PICK d \in selectDrive(v) :
          /\ create' = [create EXCEPT ![v] =
               [pc |-> "create",
                mode |-> IF v \in drive[d].volumes THEN "found" ELSE "add",
                drive |-> d, size |-> size(d)]]
          /\ ReadDrive(<<"create", v>>, d)
    BY <1>1 DEF CreateVolume
  <2>2. /\ UNCHANGED <<drive, volume, late, expand, release>>
    BY <1>1 DEF CreateVolume, driveObjects, volumeVars
  <2>3. d \in Drives
    BY <2>1 DEF selectDrive, getFilteredDrives, TypeOK, DriveTypes
  <2>4. /\ create'[v].drive = d /\ create'[v].size = size(d)
        /\ create'[v].mode = "add" => v \notin drive[d].volumes
    BY <2>1, <1>t
  <2>5. \A w \in Volumes : w # v => create'[w] = create[w]
    BY <2>1, <1>t
  <2>6. ASSUME NEW x \in Drives, NEW w \in Volumes
        PROVE  /\ CreateCopyTrue(x, w)' /\ LateCopyTrue(x, w)'
               /\ ExpandCopyTrue(x, w)' /\ ReleaseCopyTrue(x, w)'
    <3>1. \A h \in DriveReaders : h # <<"create", v>> => Kept(x, h)
      BY <2>1, <2>2, ReadKeeps
    <3>2. Kept(x, <<"late", w>>) /\ Kept(x, <<"expand", w>>) /\ Kept(x, <<"release", w>>)
      BY <3>1 DEF DriveReaders
    <3>3. LateCopyTrue(x, w)' /\ ExpandCopyTrue(x, w)' /\ ReleaseCopyTrue(x, w)'
      BY <2>2, <3>2, CopyStays DEF CopiesTrue
    <3>4. CASE w # v
      <4>1. Kept(x, <<"create", w>>)
        BY <3>1, <3>4 DEF DriveReaders
      <4> QED
        BY <2>5, <3>3, <3>4, <4>1, CopyStays DEF CopiesTrue
    <3>5. CASE w = v
      <4>1. create'[v].mode = "add" => Admits(d, v, size(d))
        BY <2>1, <2>4, SelectedAdmits
      <4>2. CreateCopyTrue(x, v)'
        BY <2>2, <2>4, <4>1 DEF CreateCopyTrue, Admits
      <4> QED
        BY <3>3, <3>5, <4>2
    <3> QED
      BY <3>4, <3>5
  <2>7. size(d) >= 0
    BY <2>3, ProvisioningAssumption DEF SafeDrives, SafeDrive, NoRange
  <2>8. SizesTrue'
    BY <2>2, <2>4, <2>5, <2>7 DEF SizesTrue
  <2>9. CopiesTrue'
    BY <2>6 DEF CopiesTrue
  <2> QED
    BY <2>2, <2>8, <2>9, UnchangedSafe
<1>2. CASE CreateVolumeObject(v) \/ GetVolumeObject(v) \/ UpdateVolumeObject(v)
           \/ ReserveDrive(v) \/ AbortCreate(v)
  <2>1. create[v].pc # "idle"
    BY <1>2 DEF CreateVolumeObject, GetVolumeObject, UpdateVolumeObject, ReserveDrive, AbortCreate
  <2>2. \/ create' = [create EXCEPT ![v] = NoCreate]
        \/ \E p \in {"get", "update", "reserve"} : create' = [create EXCEPT ![v].pc = p]
    BY <1>2 DEF CreateVolumeObject, GetVolumeObject, UpdateVolumeObject, ReserveDrive,
                AbortCreate, EndCreate
  <2>3. \A w \in Volumes : w # v => create'[w] = create[w]
    BY <1>t, <2>2
  <2>4. \/ create'[v] = NoCreate
        \/ /\ create'[v].mode = create[v].mode
           /\ create'[v].drive = create[v].drive
           /\ create'[v].size = create[v].size
    BY <1>t, <2>2 DEF CreateOp
  <2>5. UNCHANGED <<late, expand, release>>
    BY <1>2 DEF CreateVolumeObject, GetVolumeObject, UpdateVolumeObject, ReserveDrive,
                AbortCreate, createFrame
  <2>6. Moves
    BY <2>1, <2>3, <2>4, <2>5 DEF Moves, NoCreate
  <2>7. UNCHANGED volume \/ volume' = [volume EXCEPT ![v] = NewVolume(v)]
    BY <1>2 DEF CreateVolumeObject, GetVolumeObject, UpdateVolumeObject, ReserveDrive,
                AbortCreate, volumeVars
  <2>8. SizesTrue'
    <3>1. \A w \in Volumes : create'[w].size >= 0
      BY <2>3, <2>4 DEF SizesTrue, NoCreate
    <3>2. \A w \in Volumes : volume'[w].total >= 0
      BY <2>7 DEF SizesTrue, NewVolume, TypeOK, VolumeTypes
    <3> QED
      BY <2>5, <3>1, <3>2 DEF SizesTrue
  <2>9. SafeDrives' /\ CopiesTrue'
    <3>1. CASE ReserveDrive(v) /\ create[v].mode = "add"
                 /\ <<"create", v>> \in driveCopies[create[v].drive]
      <4> DEFINE d == create[v].drive
      <4>1. WriteDrive(d, Reserved(d, v, create[v].size))
        BY <3>1 DEF ReserveDrive
      <4>2. d \in Drives => SafeDrive(Reserved(d, v, create[v].size))
        <5>1. create[v].size \in Int
          BY <1>t DEF CreateOp
        <5>2. d \in Drives => Admits(d, v, create[v].size)
          BY <2>1, <3>1 DEF CopiesTrue, CreateCopyTrue
        <5> QED
          BY <5>1, <5>2, ReservedSafe DEF SafeDrives
      <4>3. \A x \in Drives, h \in DriveReaders : Kept(x, h)
        BY <4>1, WriteKeeps
      <4> QED
        BY <2>6, <4>1, <4>2, <4>3, WriteSafe, CopiesStay
    <3>2. CASE ~(ReserveDrive(v) /\ create[v].mode = "add"
                 /\ <<"create", v>> \in driveCopies[create[v].drive])
      <4>1. UNCHANGED drive
        BY <1>2, <3>2 DEF CreateVolumeObject, GetVolumeObject, UpdateVolumeObject, ReserveDrive,
                          AbortCreate, driveVars, driveObjects
      <4>2. DropDrive(<<"create", v>>, create[v].drive) \/ UNCHANGED driveCopies
        BY <1>2, <3>2 DEF CreateVolumeObject, GetVolumeObject, UpdateVolumeObject, ReserveDrive,
                          AbortCreate, EndCreate, driveVars
      <4>3. \A x \in Drives, h \in DriveReaders : Kept(x, h)
        BY <4>1, <4>2, DropKeeps
      <4> QED
        BY <2>6, <4>1, <4>3, UnchangedSafe, CopiesStay
    <3> QED
      BY <3>1, <3>2
  <2> QED
    BY <2>8, <2>9
<1> QED
  BY <1>1, <1>2 DEF CreateStep

\* A drive Update that was on its way when its CreateVolume timed out.
LEMMA DriveLate ==
  ASSUME DriveInv, NEW v \in Volumes, LateStep(v)
  PROVE  SafeDrives' /\ CopiesTrue' /\ SizesTrue'
<1> USE DEF DriveInv
<1>t. create \in [Volumes -> CreateOp] /\ late \in [Volumes -> LateOp]
  BY DEF TypeOK, HandlerTypes
<1>1. CASE TimeoutCreate(v)
  <2> DEFINE d == create[v].drive
  <2>1. UNCHANGED <<drive, volume, expand, release>>
    BY <1>1 DEF TimeoutCreate, driveObjects, volumeVars
  <2>2. /\ create'[v] = NoCreate /\ \A w \in Volumes : w # v => create'[w] = create[w]
        /\ late'[v] = [pc |-> "sent", drive |-> d, size |-> create[v].size]
        /\ \A w \in Volumes : w # v => late'[w] = late[w]
    BY <1>1, <1>t DEF TimeoutCreate
  <2>3. \A x \in Drives, h \in DriveReaders : h # <<"late", v>> => Kept(x, h)
    BY <1>1, <2>1 DEF TimeoutCreate, Kept, TypeOK, DriveTypes
  <2>4. ASSUME NEW x \in Drives, NEW w \in Volumes
        PROVE  /\ CreateCopyTrue(x, w)' /\ LateCopyTrue(x, w)'
               /\ ExpandCopyTrue(x, w)' /\ ReleaseCopyTrue(x, w)'
    <3>1. Kept(x, <<"create", w>>) /\ Kept(x, <<"expand", w>>) /\ Kept(x, <<"release", w>>)
      BY <2>3 DEF DriveReaders
    <3>2. CreateCopyTrue(x, w)'
      <4>1. CASE w = v
        BY <2>2, <4>1 DEF CreateCopyTrue, NoCreate
      <4>2. CASE w # v
        BY <2>2, <3>1, <4>2, CopyStays DEF CopiesTrue
      <4> QED
        BY <4>1, <4>2
    <3>3. ExpandCopyTrue(x, w)' /\ ReleaseCopyTrue(x, w)'
      BY <2>1, <3>1, CopyStays DEF CopiesTrue
    <3>4. LateCopyTrue(x, w)'
      <4>1. CASE w # v
        <5>1. Kept(x, <<"late", w>>)
          BY <2>3, <4>1 DEF DriveReaders
        <5> QED
          BY <2>2, <4>1, <5>1, CopyStays DEF CopiesTrue
      <4>2. CASE w = v
        <5>1. SUFFICES ASSUME <<"late", v>> \in driveCopies'[x]
                       PROVE  x = d /\ Admits(x, v, create[v].size)
          BY <2>1, <2>2, <4>2 DEF LateCopyTrue, Admits
        <5>2. <<"late", v>> \notin driveCopies[x]
          BY <1>1 DEF TimeoutCreate, CopiesTrue, LateCopyTrue
        <5>3. x = d /\ <<"create", v>> \in driveCopies[x]
          BY <1>1, <5>1, <5>2 DEF TimeoutCreate, TypeOK, DriveTypes
        <5> QED
          BY <1>1, <5>3 DEF TimeoutCreate, CopiesTrue, CreateCopyTrue
      <4> QED
        BY <4>1, <4>2
    <3> QED
      BY <3>2, <3>3, <3>4
  <2>5. SizesTrue'
    BY <2>1, <2>2 DEF SizesTrue, NoCreate
  <2>6. CopiesTrue'
    BY <2>4 DEF CopiesTrue
  <2> QED
    BY <2>1, <2>5, <2>6, UnchangedSafe
<1>2. CASE LateReserve(v)
  <2> DEFINE d == late[v].drive
  <2>1. UNCHANGED <<create, volume, expand, release>>
    BY <1>2 DEF LateReserve, volumeVars
  <2>2. \A w \in Volumes : w # v => late'[w] = late[w]
    BY <1>2, <1>t DEF LateReserve
  <2>3. /\ SafeDrives'
        /\ \A x \in Drives, h \in DriveReaders : Kept(x, h)
        /\ \A x \in Drives : <<"late", v>> \notin driveCopies'[x]
    <3>1. CASE <<"late", v>> \in driveCopies[d]
      <4>1. WriteDrive(d, Reserved(d, v, late[v].size))
        BY <1>2, <3>1 DEF LateReserve
      <4>2. d \in Drives => SafeDrive(Reserved(d, v, late[v].size))
        <5>1. late[v].size \in Int
          BY <1>t DEF LateOp
        <5>2. d \in Drives => Admits(d, v, late[v].size)
          BY <3>1 DEF CopiesTrue, LateCopyTrue
        <5> QED
          BY <5>1, <5>2, ReservedSafe DEF SafeDrives
      <4>3. \A x \in Drives, h \in DriveReaders : Kept(x, h)
        BY <4>1, WriteKeeps
      <4>4. \A x \in Drives : <<"late", v>> \notin driveCopies'[x]
        BY <4>1, <3>1 DEF WriteDrive, CopiesTrue, LateCopyTrue, TypeOK, DriveTypes
      <4> QED
        BY <4>1, <4>2, <4>3, <4>4, WriteSafe
    <3>2. CASE <<"late", v>> \notin driveCopies[d]
      <4>1. UNCHANGED <<drive, driveCopies>>
        BY <1>2, <3>2 DEF LateReserve, driveVars
      <4>2. \A x \in Drives : <<"late", v>> \notin driveCopies'[x]
        BY <4>1, <3>2 DEF CopiesTrue, LateCopyTrue
      <4> QED
        BY <4>1, <4>2, UnchangedSafe DEF Kept
    <3> QED
      BY <3>1, <3>2
  <2>4. ASSUME NEW x \in Drives, NEW w \in Volumes
        PROVE  /\ CreateCopyTrue(x, w)' /\ LateCopyTrue(x, w)'
               /\ ExpandCopyTrue(x, w)' /\ ReleaseCopyTrue(x, w)'
    <3>1. /\ Kept(x, <<"create", w>>) /\ Kept(x, <<"late", w>>)
          /\ Kept(x, <<"expand", w>>) /\ Kept(x, <<"release", w>>)
      BY <2>3 DEF DriveReaders
    <3>2. CreateCopyTrue(x, w)' /\ ExpandCopyTrue(x, w)' /\ ReleaseCopyTrue(x, w)'
      BY <2>1, <3>1, CopyStays DEF CopiesTrue
    <3>3. CASE w = v
      BY <2>3, <3>2, <3>3 DEF LateCopyTrue
    <3>4. CASE w # v
      BY <2>2, <3>1, <3>2, <3>4, CopyStays DEF CopiesTrue
    <3> QED
      BY <3>3, <3>4
  <2>5. SizesTrue'
    BY <2>1 DEF SizesTrue
  <2>6. CopiesTrue'
    BY <2>4 DEF CopiesTrue
  <2> QED
    BY <2>3, <2>5, <2>6
<1> QED
  BY <1>1, <1>2 DEF LateStep

-----------------------------------------------------------------------------
(* ControllerExpandVolume *)

\* ControllerExpandVolume takes only what its current copy has free.
LEMMA DriveExpand ==
  ASSUME DriveInv, NEW v \in Volumes, ExpandStep(v) \/ AbortExpand(v)
  PROVE  SafeDrives' /\ CopiesTrue' /\ SizesTrue'
<1> USE DEF DriveInv
<1> DEFINE d == expand[v].drive
<1>t. expand \in [Volumes -> ExpandOp]
  BY DEF TypeOK, HandlerTypes
<1>u. UNCHANGED <<create, late, release, volume>>
  BY DEF ExpandStep, ControllerExpandVolume, ExpandGetDrive, ExpandUpdateDrive, AbortExpand,
         expandFrame, volumeVars
<1>s. SizesTrue'
  BY <1>u DEF SizesTrue
<1>m. ASSUME expand'[v].pc # "updateDrive", \A w \in Volumes : w # v => expand'[w] = expand[w]
      PROVE  Moves
  BY <1>u, <1>m DEF Moves
<1>1. ASSUME NEW n \in ExpandTo, ControllerExpandVolume(v, n)
      PROVE  SafeDrives' /\ CopiesTrue'
  <2>1. Moves
    BY <1>1, <1>t, <1>m DEF ControllerExpandVolume
  <2> QED
    BY <1>1, <2>1, QuietStep DEF ControllerExpandVolume, driveVars
<1>2. CASE ExpandGetDrive(v) /\ d \in drives /\ expand[v].need <= drive[d].free
  <2>1. UNCHANGED drive /\ ReadDrive(<<"expand", v>>, d)
    BY <1>2 DEF ExpandGetDrive, driveObjects
  <2>2. /\ expand'[v].need = expand[v].need /\ expand'[v].drive = d
        /\ \A w \in Volumes : w # v => expand'[w] = expand[w]
    BY <1>2, <1>t DEF ExpandGetDrive, ExpandOp
  <2>3. ASSUME NEW x \in Drives, NEW w \in Volumes
        PROVE  /\ CreateCopyTrue(x, w)' /\ LateCopyTrue(x, w)'
               /\ ExpandCopyTrue(x, w)' /\ ReleaseCopyTrue(x, w)'
    <3>1. \A h \in DriveReaders : h # <<"expand", v>> => Kept(x, h)
      BY <2>1, ReadKeeps
    <3>2. Kept(x, <<"create", w>>) /\ Kept(x, <<"late", w>>) /\ Kept(x, <<"release", w>>)
      BY <3>1 DEF DriveReaders
    <3>3. CreateCopyTrue(x, w)' /\ LateCopyTrue(x, w)' /\ ReleaseCopyTrue(x, w)'
      BY <1>u, <3>2, CopyStays DEF CopiesTrue
    <3>4. CASE w = v
      BY <1>2, <2>1, <2>2, <3>3, <3>4 DEF ExpandCopyTrue
    <3>5. CASE w # v
      <4>1. Kept(x, <<"expand", w>>)
        BY <3>1, <3>5 DEF DriveReaders
      <4> QED
        BY <2>2, <3>3, <3>5, <4>1, CopyStays DEF CopiesTrue
    <3> QED
      BY <3>4, <3>5
  <2> QED
    BY <1>s, <2>1, <2>3, UnchangedSafe DEF CopiesTrue
<1>3. CASE AbortExpand(v) \/ (ExpandGetDrive(v) /\ ~(d \in drives /\ expand[v].need <= drive[d].free))
  <2>1. EndExpand(v) /\ UNCHANGED drive
    BY <1>3 DEF AbortExpand, ExpandGetDrive, driveObjects
  <2>2. Moves
    BY <2>1, <1>t, <1>m DEF EndExpand, NoExpand
  <2>3. \A x \in Drives, h \in DriveReaders : Kept(x, h)
    BY <2>1, DropKeeps DEF EndExpand
  <2> QED
    BY <1>s, <2>1, <2>2, <2>3, CopiesStay, UnchangedSafe
<1>4. CASE ExpandUpdateDrive(v)
  <2>1. Moves
    BY <1>4, <1>t, <1>m DEF ExpandUpdateDrive, NoExpand
  <2>2. CASE <<"expand", v>> \in driveCopies[d]
    <3>1. WriteDrive(d, Expanded(d, expand[v].need))
      BY <1>4, <2>2 DEF ExpandUpdateDrive
    <3>2. d \in Drives => SafeDrive(Expanded(d, expand[v].need))
      <4>1. expand[v].need \in Int
        BY <1>t DEF ExpandOp
      <4>2. d \in Drives => expand[v].need <= drive[d].free
        BY <1>4, <2>2 DEF ExpandUpdateDrive, CopiesTrue, ExpandCopyTrue
      <4> QED
        BY <4>1, <4>2, ExpandedSafe DEF SafeDrives
    <3>3. \A x \in Drives, h \in DriveReaders : Kept(x, h)
      BY <3>1, WriteKeeps
    <3> QED
      BY <1>s, <2>1, <3>1, <3>2, <3>3, WriteSafe, CopiesStay
  <2>3. CASE <<"expand", v>> \notin driveCopies[d]
    BY <1>4, <1>s, <2>1, <2>3, QuietStep DEF ExpandUpdateDrive, driveVars
  <2> QED
    BY <2>2, <2>3
<1> QED
  BY <1>s, <1>1, <1>2, <1>3, <1>4 DEF ExpandStep

-----------------------------------------------------------------------------
(* The volume controller *)

\* releaseVolume() gives back only what its current copy lists.
LEMMA DriveRelease ==
  ASSUME DriveInv, NEW v \in Volumes, ReleaseStep(v) \/ AbortRelease(v)
  PROVE  SafeDrives' /\ CopiesTrue' /\ SizesTrue'
<1> USE DEF DriveInv
<1> DEFINE d == release[v].drive
<1>t. release \in [Volumes -> ReleaseOp] /\ volume \in [Volumes -> VolumeObject]
  BY DEF TypeOK, HandlerTypes, VolumeTypes
<1>u. UNCHANGED <<create, late, expand>>
  BY DEF ReleaseStep, ReleaseVolume, ReleaseGetDrive, ReleaseUpdateDrive, ReleasePurge,
         AbortRelease, releaseFrame
<1>m. ASSUME release'[v].pc # "updateDrive", \A w \in Volumes : w # v => release'[w] = release[w]
      PROVE  Moves
  BY <1>u, <1>m DEF Moves
<1>s. ASSUME \A w \in Volumes : release'[w].size >= 0, \A w \in Volumes : volume'[w].total >= 0
      PROVE  SizesTrue'
  BY <1>u, <1>s DEF SizesTrue
<1>1. CASE ReleaseVolume(v)
  <2>1. /\ release'[v] = [pc |-> "getDrive", drive |-> volume[v].drive, size |-> volume[v].total]
        /\ \A w \in Volumes : w # v => release'[w] = release[w]
        /\ UNCHANGED <<volume, drive, driveCopies>>
    BY <1>1, <1>t DEF ReleaseVolume, driveVars
  <2>2. Moves
    BY <2>1, <1>m
  <2>3. SizesTrue'
    BY <2>1, <1>s DEF SizesTrue
  <2> QED
    BY <2>1, <2>2, <2>3, QuietStep
<1>e. ASSUME EndRelease(v), UNCHANGED <<drive, volume>>
      PROVE  SafeDrives' /\ CopiesTrue' /\ SizesTrue'
  <2>1. release'[v] = NoRelease /\ \A w \in Volumes : w # v => release'[w] = release[w]
    BY <1>e, <1>t DEF EndRelease
  <2>2. Moves
    BY <2>1, <1>m DEF NoRelease
  <2>3. \A x \in Drives, h \in DriveReaders : Kept(x, h)
    BY <1>e, DropKeeps DEF EndRelease
  <2>4. SizesTrue'
    BY <1>e, <2>1, <1>s DEF SizesTrue, NoRelease
  <2> QED
    BY <1>e, <2>2, <2>3, <2>4, CopiesStay, UnchangedSafe
<1>2. CASE ReleaseGetDrive(v)
  <2>1. CASE d \notin drives
    BY <1>2, <1>e, <2>1 DEF ReleaseGetDrive, driveObjects
  <2>2. CASE d \in drives /\ v \notin drive[d].volumes
    <3>1. /\ release'[v].pc = "purge" /\ release'[v].size = release[v].size
          /\ \A w \in Volumes : w # v => release'[w] = release[w]
          /\ UNCHANGED <<drive, volume, driveCopies>>
      BY <1>2, <1>t, <2>2 DEF ReleaseGetDrive, driveObjects, ReleaseOp
    <3>2. SizesTrue'
      BY <3>1, <1>s DEF SizesTrue
    <3> QED
      BY <3>1, <3>2, <1>m, QuietStep
  <2>3. CASE d \in drives /\ v \in drive[d].volumes
    <3>1. /\ release'[v].drive = d /\ release'[v].size = release[v].size
          /\ \A w \in Volumes : w # v => release'[w] = release[w]
          /\ UNCHANGED <<drive, volume>> /\ ReadDrive(<<"release", v>>, d)
      BY <1>2, <1>t, <2>3 DEF ReleaseGetDrive, driveObjects, ReleaseOp
    <3>2. SizesTrue'
      BY <3>1, <1>s DEF SizesTrue
    <3>3. ASSUME NEW x \in Drives, NEW w \in Volumes
          PROVE  /\ CreateCopyTrue(x, w)' /\ LateCopyTrue(x, w)'
                 /\ ExpandCopyTrue(x, w)' /\ ReleaseCopyTrue(x, w)'
      <4>1. \A h \in DriveReaders : h # <<"release", v>> => Kept(x, h)
        BY <3>1, ReadKeeps
      <4>2. Kept(x, <<"create", w>>) /\ Kept(x, <<"late", w>>) /\ Kept(x, <<"expand", w>>)
        BY <4>1 DEF DriveReaders
      <4>3. CreateCopyTrue(x, w)' /\ LateCopyTrue(x, w)' /\ ExpandCopyTrue(x, w)'
        BY <1>u, <4>2, CopyStays DEF CopiesTrue
      <4>4. CASE w = v
        BY <2>3, <3>1, <4>3, <4>4 DEF ReleaseCopyTrue
      <4>5. CASE w # v
        <5>1. Kept(x, <<"release", w>>)
          BY <4>1, <4>5 DEF DriveReaders
        <5> QED
          BY <3>1, <4>3, <4>5, <5>1, CopyStays DEF CopiesTrue
      <4> QED
        BY <4>4, <4>5
    <3> QED
      BY <3>1, <3>2, <3>3, UnchangedSafe DEF CopiesTrue
  <2> QED
    BY <2>1, <2>2, <2>3
<1>3. CASE ReleaseUpdateDrive(v)
  <2>1. CASE <<"release", v>> \in driveCopies[d]
    <3>1. /\ WriteDrive(d, Released(d, v, release[v].size)) /\ UNCHANGED volume
          /\ release'[v].pc = "purge" /\ release'[v].size = release[v].size
          /\ \A w \in Volumes : w # v => release'[w] = release[w]
      BY <1>3, <1>t, <2>1 DEF ReleaseUpdateDrive, ReleaseOp
    <3>2. d \in Drives => SafeDrive(Released(d, v, release[v].size))
      <4>1. release[v].size \in Int /\ release[v].size >= 0
        BY <1>t DEF ReleaseOp, SizesTrue
      <4>2. d \in Drives => v \in drive[d].volumes
        BY <1>3, <2>1 DEF ReleaseUpdateDrive, CopiesTrue, ReleaseCopyTrue
      <4> QED
        BY <4>1, <4>2, ReleasedSafe DEF SafeDrives
    <3>3. \A x \in Drives, h \in DriveReaders : Kept(x, h)
      BY <3>1, WriteKeeps
    <3>4. Moves
      BY <3>1, <1>m
    <3>5. SizesTrue'
      BY <3>1, <1>s DEF SizesTrue
    <3> QED
      BY <3>1, <3>2, <3>3, <3>4, <3>5, WriteSafe, CopiesStay
  <2>2. CASE <<"release", v>> \notin driveCopies[d]
    BY <1>3, <1>e, <2>2 DEF ReleaseUpdateDrive, driveObjects
  <2> QED
    BY <2>1, <2>2
<1>4. CASE ReleasePurge(v)
  <2>1. /\ release'[v] = NoRelease /\ \A w \in Volumes : w # v => release'[w] = release[w]
        /\ UNCHANGED <<drive, driveCopies>>
    BY <1>4, <1>t DEF ReleasePurge, driveVars
  <2>2. \A w \in Volumes : volume'[w] = volume[w] \/ volume'[w] = NoVolume
    BY <1>4, <1>t DEF ReleasePurge
  <2>3. SizesTrue'
    BY <2>1, <2>2, <1>s DEF SizesTrue, NoRelease, NoVolume
  <2>4. Moves
    BY <2>1, <1>m DEF NoRelease
  <2> QED
    BY <2>1, <2>3, <2>4, QuietStep
<1>5. CASE AbortRelease(v)
  BY <1>5, <1>e DEF AbortRelease, driveObjects
<1> QED
  BY <1>1, <1>2, <1>3, <1>4, <1>5 DEF ReleaseStep

-----------------------------------------------------------------------------
(* Steps that touch no drive's finalizers, labels or capacity *)

\* Claims, kubelet calls, DeleteVolume and clean write no drive.
LEMMA DriveOthers ==
  ASSUME DriveInv, NEW v \in Volumes,
         \/ Claim(v) \/ NodeStep(v) \/ DeleteStep(v) \/ CleanStep(v)
         \/ AbortDelete(v) \/ AbortClean(v)
  PROVE  SafeDrives' /\ CopiesTrue' /\ SizesTrue'
<1>t. volume \in [Volumes -> VolumeObject] /\ granted \in [Volumes -> Nat]
  BY DEF DriveInv, TypeOK, VolumeTypes
<1>1. UNCHANGED <<create, late, expand, release, drive, driveCopies>>
  <2>1. CASE Claim(v) \/ NodeStep(v)
    BY <2>1 DEF Claim, claimFrame, NodeStep, NodeStageVolume, NodeUnstageVolume, NodeExpandVolume,
                WriteVolume, opVars, driveVars
  <2>2. CASE DeleteStep(v) \/ AbortDelete(v)
    BY <2>2 DEF DeleteStep, DeleteVolume, DeleteUnprotect, DeleteObject, AbortDelete,
                destroyFrame, driveVars
  <2>3. CASE CleanStep(v) \/ AbortClean(v)
    BY <2>3 DEF CleanStep, CleanVolume, CleanUnprotect, CleanDelete, AbortClean, cleanFrame,
                driveVars
  <2> QED
    BY <2>1, <2>2, <2>3
<1>2. \A w \in Volumes : volume'[w].total = volume[w].total \/ volume'[w].total = granted[w]
  <2>1. CASE Claim(v) \/ DeleteStep(v) \/ AbortDelete(v) \/ CleanStep(v) \/ AbortClean(v)
    <3>1. UNCHANGED volume
      BY <2>1 DEF Claim, claimFrame, volumeVars, DeleteStep, DeleteVolume, DeleteUnprotect,
                  DeleteObject, AbortDelete, CleanStep, CleanVolume, CleanUnprotect, CleanDelete,
                  AbortClean
    <3> QED
      BY <3>1
  <2>2. CASE NodeStageVolume(v) \/ NodeUnstageVolume(v)
    BY <1>t, <2>2 DEF NodeStageVolume, NodeUnstageVolume, WriteVolume, VolumeObject
  <2>3. CASE NodeExpandVolume(v)
    BY <1>t, <2>3 DEF NodeExpandVolume, WriteVolume, VolumeObject
  <2> QED
    BY <2>1, <2>2, <2>3 DEF NodeStep
<1>3. SizesTrue'
  BY <1>t, <1>1, <1>2 DEF DriveInv, SizesTrue
<1>4. Moves
  BY <1>1 DEF Moves
<1> QED
  BY <1>1, <1>3, <1>4, QuietStep

\* Cordon, remove, I/O errors and repair leave capacities and volumes of a drive alone.
LEMMA DriveCommands ==
  ASSUME DriveInv, NEW d \in Drives, DriveStep(d)
  PROVE  SafeDrives' /\ CopiesTrue' /\ SizesTrue'
<1> USE DEF DriveInv
<1>1. UNCHANGED <<create, late, expand, release, volume>>
  BY DEF DriveStep, Cordon, Uncordon, RemoveDrive, RemoveFinalizers, DeleteDrive, AbortRemove,
         SetIOError, Repair, SetStatus, driveFrame, volumeVars, opVars
<1>2. Moves /\ SizesTrue'
  BY <1>1 DEF Moves, SizesTrue
<1>3. \/ UNCHANGED drive /\ (Touch(d) \/ UNCHANGED driveCopies)
      \/ \E s \in Statuses : SetStatus(d, s)
  BY DEF DriveStep, Cordon, Uncordon, RemoveDrive, RemoveFinalizers, DeleteDrive, AbortRemove,
         SetIOError, Repair, Statuses
<1>4. CASE UNCHANGED drive /\ (Touch(d) \/ UNCHANGED driveCopies)
  <2>1. \A x \in Drives, h \in DriveReaders : Kept(x, h)
    BY <1>4, TouchKeeps DEF Kept
  <2> QED
    BY <1>2, <1>4, <2>1, CopiesStay, UnchangedSafe
<1>5. ASSUME NEW s \in Statuses, SetStatus(d, s)
      PROVE  SafeDrives' /\ CopiesTrue'
  <2>1. \A x \in Drives : x # d => drive'[x] = drive[x]
    BY <1>5 DEF SetStatus, TypeOK, DriveTypes
  <2>2. drive'[d] = [drive[d] EXCEPT !.status = s]
    BY <1>5 DEF SetStatus, TypeOK, DriveTypes
  <2>3. SafeDrives'
    BY <2>1, <2>2, StatusSafe DEF SafeDrives
  <2>4. \A x \in Drives, h \in DriveReaders : Kept(x, h)
    BY <1>5, <2>1, TouchKeeps DEF SetStatus
  <2> QED
    BY <1>2, <2>3, <2>4, CopiesStay
<1> QED
  BY <1>2, <1>3, <1>4, <1>5

-----------------------------------------------------------------------------
(* Every step *)

\* Fresh drives are sound and nobody has a copy of one.
LEMMA DriveInit == Init => DriveInv
<1> SUFFICES ASSUME Init PROVE DriveInv
  OBVIOUS
<1>1. SafeDrives
  BY ProvisioningAssumption DEF Init, SafeDrives, SafeDrive
<1>2. CopiesTrue
  BY DEF Init, CopiesTrue, CreateCopyTrue, LateCopyTrue, ExpandCopyTrue, ReleaseCopyTrue
<1>3. SizesTrue
  BY DEF Init, SizesTrue, NoCreate, NoVolume, NoRelease
<1> QED
  BY <1>1, <1>2, <1>3, TypeInit DEF DriveInv

\* The invariant is inductive: one step per kind of process.
LEMMA DriveNext == DriveInv /\ [Next]_vars => DriveInv'
<1> SUFFICES ASSUME DriveInv, [Next]_vars PROVE DriveInv'
  OBVIOUS
<1>1. TypeOK'
  BY TypeStep DEF DriveInv
<1>2. ASSUME NEW v \in Volumes,
             Claim(v) \/ CreateStep(v) \/ LateStep(v) \/ NodeStep(v) \/ DeleteStep(v)
               \/ ExpandStep(v) \/ ReleaseStep(v) \/ CleanStep(v) \/ FaultStep(v)
      PROVE  SafeDrives' /\ CopiesTrue' /\ SizesTrue'
  BY <1>2, DriveCreate, DriveLate, DriveExpand, DriveRelease, DriveOthers DEF FaultStep
<1>3. ASSUME NEW d \in Drives, DriveStep(d)
      PROVE  SafeDrives' /\ CopiesTrue' /\ SizesTrue'
  BY <1>3, DriveCommands
<1>4. CASE UNCHANGED vars
  <2>1. UNCHANGED <<create, late, expand, release, volume, drive, driveCopies>>
    BY <1>4 DEF vars, driveVars, volumeVars, opVars
  <2>2. Moves /\ SizesTrue'
    BY <2>1 DEF Moves, DriveInv, SizesTrue
  <2> QED
    BY <1>1, <2>1, <2>2, QuietStep DEF DriveInv
<1> QED
  BY <1>1, <1>2, <1>3, <1>4 DEF Next, DriveInv

\* Drives stay sound, and current copies true, in every reachable state.
LEMMA DriveInvariant == Spec => []DriveInv
  BY DriveInit, DriveNext, PTL DEF Spec

\* However many CreateVolume and ControllerExpandVolume calls read a drive at the
\* same time, are retried, time out or land late, the drive's free capacity never
\* goes below zero: the resourceVersion check alone carries that.
THEOREM CapacityNeverNegative == Spec => []FreeNeverNegative
<1>1. DriveInv => FreeNeverNegative
  BY DEF DriveInv, SafeDrives, SafeDrive, FreeNeverNegative
<1> QED
  BY <1>1, DriveInvariant, PTL

\* On every drive at most one volume has a given volume-claim-id, and the drive's
\* claim-id labels are exactly those of the volumes in its finalizers, in every
\* execution, with or without faults.
THEOREM ClaimsStayUnique == Spec => []ClaimUnique
<1>1. DriveInv => ClaimUnique
  BY DEF DriveInv, SafeDrives, SafeDrive, ClaimUnique
<1> QED
  BY <1>1, DriveInvariant, PTL


-----------------------------------------------------------------------------
(* The two capacity fields of a drive *)

\* Reservation and expansion move bytes from free to allocated, release computes
\* allocated afresh from the size of the device.
LEMMA FieldsMove ==
  ASSUME TypeOK, NEW d \in Drives, NEW v \in Volumes, NEW size \in Int
  PROVE  /\ Reserved(d, v, size).free + Reserved(d, v, size).allocated
              = drive[d].free + drive[d].allocated
         /\ Expanded(d, size).free + Expanded(d, size).allocated
              = drive[d].free + drive[d].allocated
         /\ Released(d, v, size).free + Released(d, v, size).allocated = Total[d]
<1>1. drive[d].free \in Int /\ drive[d].allocated \in Int /\ Total[d] \in Int
  BY ProvisioningAssumption DEF TypeOK, DriveTypes, DriveObject
<1>2. /\ Reserved(d, v, size).free = drive[d].free - size
      /\ Reserved(d, v, size).allocated = drive[d].allocated + size
  BY DEF Reserved
<1>3. /\ Expanded(d, size).free = drive[d].free - size
      /\ Expanded(d, size).allocated = drive[d].allocated + size
  BY DEF Expanded
<1>4. /\ Released(d, v, size).free = drive[d].free + size
      /\ Released(d, v, size).allocated = Total[d] - (drive[d].free + size)
  BY DEF Released
<1>5. \A f, a \in Int : (f - size) + (a + size) = f + a
  OBVIOUS
<1>6. \A f, t \in Int : (f + size) + (t - (f + size)) = t
  OBVIOUS
<1>7. Reserved(d, v, size).free + Reserved(d, v, size).allocated
        = drive[d].free + drive[d].allocated
  BY <1>1, <1>2, <1>5
<1>8. Expanded(d, size).free + Expanded(d, size).allocated = drive[d].free + drive[d].allocated
  BY <1>1, <1>3, <1>5
<1>9. Released(d, v, size).free + Released(d, v, size).allocated = Total[d]
  BY <1>1, <1>4, <1>6
<1> QED
  BY <1>7, <1>8, <1>9

-----------------------------------------------------------------------------
(* What a step may change *)

\* A step of one volume: everything handlers, the kubelet and the user do to it.
VolumeStep(v) ==
  \/ Claim(v) \/ CreateStep(v) \/ LateStep(v) \/ NodeStep(v) \/ DeleteStep(v)
  \/ ExpandStep(v) \/ ReleaseStep(v) \/ CleanStep(v) \/ FaultStep(v)

\* What drives become in a step of volume v.
DriveChange(v, d) ==
  \/ drive'[d] = drive[d]
  \/ \E size \in Int : drive'[d] \in {Reserved(d, v, size), Expanded(d, size), Released(d, v, size)}

\* A write of one drive is a change of that drive alone.
LEMMA WriteChanges ==
  ASSUME TypeOK, NEW v \in Volumes, NEW d, NEW size \in Int,
         \/ WriteDrive(d, Reserved(d, v, size))
         \/ WriteDrive(d, Expanded(d, size))
         \/ WriteDrive(d, Released(d, v, size))
  PROVE  \A x \in Drives : DriveChange(v, x)
<1> SUFFICES ASSUME NEW x \in Drives, drive'[x] # drive[x] PROVE DriveChange(v, x)
  BY DEF DriveChange
<1>1. x = d /\ drive'[d] \in {Reserved(d, v, size), Expanded(d, size), Released(d, v, size)}
  BY DEF WriteDrive, TypeOK, DriveTypes
<1> QED
  BY <1>1 DEF DriveChange

\* Every step changes a drive in one of these ways.
LEMMA StepChanges ==
  ASSUME TypeOK, NEW v \in Volumes, VolumeStep(v)
  PROVE  \A d \in Drives : DriveChange(v, d)
<1>t. create[v].size \in Int /\ late[v].size \in Int /\ expand[v].need \in Int
      /\ release[v].size \in Int
  BY DEF TypeOK, HandlerTypes, CreateOp, LateOp, ExpandOp, ReleaseOp
<1>u. ASSUME UNCHANGED drive PROVE \A d \in Drives : DriveChange(v, d)
  BY <1>u DEF DriveChange
<1>1. CASE Claim(v) \/ NodeStep(v) \/ DeleteStep(v) \/ CleanStep(v)
  <2>1. UNCHANGED drive
    BY <1>1 DEF Claim, claimFrame, NodeStep, NodeStageVolume, NodeUnstageVolume, NodeExpandVolume,
                WriteVolume, DeleteStep, DeleteVolume, DeleteUnprotect, DeleteObject,
                destroyFrame, CleanStep, CleanVolume, CleanUnprotect, CleanDelete, cleanFrame,
                driveVars
  <2> QED
    BY <1>u, <2>1
<1>2. CASE FaultStep(v)
  <2>1. UNCHANGED drive
    BY <1>2 DEF FaultStep, AbortCreate, AbortDelete, AbortExpand, AbortRelease, AbortClean,
                driveObjects, driveVars, destroyFrame, cleanFrame
  <2> QED
    BY <1>u, <2>1
<1>3. CASE CreateStep(v)
  <2>1. UNCHANGED drive \/ WriteDrive(create[v].drive, Reserved(create[v].drive, v, create[v].size))
    BY <1>3 DEF CreateStep, CreateVolume, CreateVolumeObject, GetVolumeObject, UpdateVolumeObject,
                ReserveDrive, driveObjects, driveVars
  <2> QED
    BY <1>t, <1>u, <2>1, WriteChanges
<1>4. CASE LateStep(v)
  <2>1. UNCHANGED drive \/ WriteDrive(late[v].drive, Reserved(late[v].drive, v, late[v].size))
    BY <1>4 DEF LateStep, TimeoutCreate, LateReserve, driveObjects, driveVars
  <2> QED
    BY <1>t, <1>u, <2>1, WriteChanges
<1>5. CASE ExpandStep(v)
  <2>1. UNCHANGED drive \/ WriteDrive(expand[v].drive, Expanded(expand[v].drive, expand[v].need))
    BY <1>5 DEF ExpandStep, ControllerExpandVolume, ExpandGetDrive, ExpandUpdateDrive,
                driveObjects, driveVars
  <2> QED
    BY <1>t, <1>u, <2>1, WriteChanges
<1>6. CASE ReleaseStep(v)
  <2>1. UNCHANGED drive
        \/ WriteDrive(release[v].drive, Released(release[v].drive, v, release[v].size))
    BY <1>6 DEF ReleaseStep, ReleaseVolume, ReleaseGetDrive, ReleaseUpdateDrive, ReleasePurge,
                driveObjects, driveVars
  <2> QED
    BY <1>t, <1>u, <2>1, WriteChanges
<1> QED
  BY <1>1, <1>2, <1>3, <1>4, <1>5, <1>6 DEF VolumeStep

\* A command or a fault of a drive changes no more than a status.
LEMMA CommandChanges ==
  ASSUME TypeOK, NEW x \in Drives, DriveStep(x)
  PROVE  \A d \in Drives : /\ drive'[d].free = drive[d].free
                           /\ drive'[d].allocated = drive[d].allocated
                           /\ drive'[d].volumes = drive[d].volumes
<1>1. \/ UNCHANGED drive
      \/ \E s \in Statuses : drive' = [drive EXCEPT ![x].status = s]
  BY DEF DriveStep, Cordon, Uncordon, RemoveDrive, RemoveFinalizers, DeleteDrive, AbortRemove,
         SetIOError, Repair, SetStatus, Statuses
<1>2. ASSUME NEW s \in Statuses, drive' = [drive EXCEPT ![x].status = s], NEW d \in Drives
      PROVE  /\ drive'[d].free = drive[d].free
             /\ drive'[d].allocated = drive[d].allocated
             /\ drive'[d].volumes = drive[d].volumes
  BY <1>2 DEF TypeOK, DriveTypes, DriveObject
<1> QED
  BY <1>1, <1>2

\* The capacity fields agree, through reservations, expansions and releases.
LEMMA FieldsNext ==
  ASSUME TypeOK, CapacityFieldsAgree, [Next]_vars
  PROVE  CapacityFieldsAgree'
<1>1. ASSUME NEW v \in Volumes, NEW d \in Drives, DriveChange(v, d)
      PROVE  drive'[d].free + drive'[d].allocated \in {Usable[d], Total[d]}
  <2>1. drive[d].free + drive[d].allocated \in {Usable[d], Total[d]}
    BY DEF CapacityFieldsAgree
  <2>2. ASSUME NEW size \in Int,
               drive'[d] \in {Reserved(d, v, size), Expanded(d, size), Released(d, v, size)}
        PROVE  drive'[d].free + drive'[d].allocated \in {Usable[d], Total[d]}
    BY <2>1, <2>2, FieldsMove
  <2> QED
    BY <1>1, <2>1, <2>2 DEF DriveChange
<1>2. ASSUME NEW v \in Volumes, VolumeStep(v) PROVE CapacityFieldsAgree'
  BY <1>1, <1>2, StepChanges DEF CapacityFieldsAgree
<1>3. ASSUME NEW x \in Drives, DriveStep(x) PROVE CapacityFieldsAgree'
  BY <1>3, CommandChanges DEF CapacityFieldsAgree
<1>4. CASE UNCHANGED vars
  BY <1>4 DEF vars, driveVars, CapacityFieldsAgree
<1> QED
  BY <1>2, <1>3, <1>4 DEF Next, VolumeStep

\* Status.FreeCapacity and Status.AllocatedCapacity of a drive always add up to the
\* capacity of the filesystem or of the device, whatever handlers race or fail.
THEOREM FieldsAgree == Spec => []CapacityFieldsAgree
<1>1. Init => CapacityFieldsAgree
  BY ProvisioningAssumption DEF Init, CapacityFieldsAgree
<1>2. TypeOK /\ CapacityFieldsAgree /\ [Next]_vars => CapacityFieldsAgree'
  BY FieldsNext
<1> QED
  BY <1>1, <1>2, TypeCorrect, PTL DEF Spec

-----------------------------------------------------------------------------
(* A step of one volume leaves the others alone *)

\* Nothing of volume w changes.
Untouched(w) ==
  /\ /\ create'[w] = create[w] /\ late'[w] = late[w] /\ destroy'[w] = destroy[w]
     /\ expand'[w] = expand[w] /\ release'[w] = release[w] /\ clean'[w] = clean[w]
     /\ claim'[w] = claim[w] /\ granted'[w] = granted[w] /\ volume'[w] = volume[w]
  /\ /\ w \in volumes' <=> w \in volumes
     /\ w \in deleting' <=> w \in deleting
     /\ w \in pvProtected' <=> w \in pvProtected
  /\ \A d \in Drives :
       /\ w \in drive'[d].volumes <=> w \in drive[d].volumes
       /\ debit'[d][w] = debit[d][w]


\* What a step of volume v does to the finalizers and the account of another volume.
LEMMA OthersListed ==
  ASSUME TypeOK, NEW v \in Volumes, VolumeStep(v), NEW w \in Volumes, w # v, NEW d \in Drives
  PROVE  /\ w \in drive'[d].volumes <=> w \in drive[d].volumes
         /\ debit'[d][w] = debit[d][w]
<1>1. w \in drive'[d].volumes <=> w \in drive[d].volumes
  BY StepChanges DEF DriveChange, Reserved, Expanded, Released
<1>2. UNCHANGED debit \/ \E x, size : Debit(x, v, size)
  <2>1. CASE Claim(v) \/ NodeStep(v) \/ DeleteStep(v) \/ CleanStep(v)
    BY <2>1 DEF Claim, claimFrame, NodeStep, NodeStageVolume, NodeUnstageVolume, NodeExpandVolume,
                WriteVolume, DeleteStep, DeleteVolume, DeleteUnprotect, DeleteObject,
                destroyFrame, CleanStep, CleanVolume, CleanUnprotect, CleanDelete, cleanFrame
  <2>2. CASE FaultStep(v)
    BY <2>2 DEF FaultStep, AbortCreate, AbortDelete, AbortExpand, AbortRelease, AbortClean,
                destroyFrame, cleanFrame
  <2>3. CASE CreateStep(v) \/ LateStep(v)
    BY <2>3 DEF CreateStep, CreateVolume, CreateVolumeObject, GetVolumeObject,
                UpdateVolumeObject, ReserveDrive, LateStep, TimeoutCreate, LateReserve
  <2>4. CASE ExpandStep(v) \/ ReleaseStep(v)
    BY <2>4 DEF ExpandStep, ControllerExpandVolume, ExpandGetDrive, ExpandUpdateDrive,
                ReleaseStep, ReleaseVolume, ReleaseGetDrive, ReleaseUpdateDrive, ReleasePurge
  <2> QED
    BY <2>1, <2>2, <2>3, <2>4 DEF VolumeStep
<1>3. debit'[d][w] = debit[d][w]
  BY <1>2 DEF Debit, TypeOK
<1> QED
  BY <1>1, <1>3

\* A step of volume v touches no other volume.
LEMMA OthersUntouched ==
  ASSUME TypeOK, NEW v \in Volumes, VolumeStep(v), NEW w \in Volumes, w # v
  PROVE  Untouched(w)
<1> USE DEF TypeOK, VolumeTypes, HandlerTypes
<1>1. /\ create'[w] = create[w] /\ late'[w] = late[w] /\ destroy'[w] = destroy[w]
      /\ expand'[w] = expand[w] /\ release'[w] = release[w] /\ clean'[w] = clean[w]
      /\ claim'[w] = claim[w] /\ granted'[w] = granted[w] /\ volume'[w] = volume[w]
      /\ w \in volumes' <=> w \in volumes
      /\ w \in deleting' <=> w \in deleting
      /\ w \in pvProtected' <=> w \in pvProtected
  <2>1. CASE Claim(v) \/ NodeStep(v)
    BY <2>1 DEF Claim, claimFrame, NodeStep, NodeStageVolume, NodeUnstageVolume, NodeExpandVolume,
                WriteVolume, opVars, volumeVars
  <2>2. CASE DeleteStep(v) \/ AbortDelete(v)
    BY <2>2 DEF DeleteStep, DeleteVolume, DeleteUnprotect, DeleteObject, AbortDelete, EndDelete,
                DeleteVolumeObject, RemovePVProtection, destroyFrame
  <2>3. CASE CleanStep(v) \/ AbortClean(v)
    BY <2>3 DEF CleanStep, CleanVolume, CleanUnprotect, CleanDelete, AbortClean,
                DeleteVolumeObject, RemovePVProtection, cleanFrame
  <2>4. CASE CreateStep(v) \/ AbortCreate(v)
    <3>1. CASE CreateVolume(v) \/ AbortCreate(v) \/ ReserveDrive(v)
      BY <3>1 DEF CreateVolume, AbortCreate, ReserveDrive, EndCreate, AnswerCreate, createFrame,
                  volumeVars
    <3>2. CASE CreateVolumeObject(v) \/ GetVolumeObject(v) \/ UpdateVolumeObject(v)
      BY <3>2 DEF CreateVolumeObject, GetVolumeObject, UpdateVolumeObject, EndCreate, createFrame,
                  volumeVars
    <3> QED
      BY <2>4, <3>1, <3>2 DEF CreateStep
  <2>5. CASE LateStep(v)
    BY <2>5 DEF LateStep, TimeoutCreate, LateReserve, volumeVars
  <2>6. CASE ExpandStep(v) \/ AbortExpand(v)
    BY <2>6 DEF ExpandStep, ControllerExpandVolume, ExpandGetDrive, ExpandUpdateDrive,
                AbortExpand, EndExpand, expandFrame, volumeVars
  <2>7. CASE ReleaseStep(v) \/ AbortRelease(v)
    BY <2>7 DEF ReleaseStep, ReleaseVolume, ReleaseGetDrive, ReleaseUpdateDrive, ReleasePurge,
                AbortRelease, EndRelease, releaseFrame
  <2> QED
    BY <2>1, <2>2, <2>3, <2>4, <2>5, <2>6, <2>7 DEF VolumeStep, FaultStep
<1> QED
  BY <1>1, OthersListed DEF Untouched

\* Commands and faults of a drive touch no volume.
LEMMA CommandsUntouched ==
  ASSUME TypeOK, NEW x \in Drives, DriveStep(x), NEW w \in Volumes
  PROVE  Untouched(w)
<1>1. UNCHANGED driveFrame
  BY DEF DriveStep, Cordon, Uncordon, RemoveDrive, RemoveFinalizers, DeleteDrive, AbortRemove,
         SetIOError, Repair, SetStatus
<1> QED
  BY <1>1, CommandChanges DEF Untouched, driveFrame, volumeVars, opVars
-----------------------------------------------------------------------------
(* Reservations match volumes *)

\* What nobody touches stays as it is.
LEMMA QuietStays ==
  ASSUME NEW w \in Volumes, QuietVolume(w), Untouched(w)
  PROVE  QuietVolume(w)'
<1> USE DEF QuietVolume
<1>1. PlacedVolume(w)'
  BY DEF PlacedVolume, Untouched, Home
<1>2. late'[w].pc = "idle"
  BY DEF Untouched
<1>3. LiveIsKept(w)'
  BY DEF LiveIsKept, Untouched
<1>4. CreateKnows(w)'
  BY DEF CreateKnows, Untouched, Home, PlacedVolume
<1>5. ReleaseKnows(w)'
  BY DEF ReleaseKnows, Untouched, Home
<1>6. ListedWhereItLives(w)'
  BY DEF ListedWhereItLives, Untouched, Home, PlacedVolume
<1> QED
  BY <1>1, <1>2, <1>3, <1>4, <1>5, <1>6

\* A drive goes only when it lists nothing, and no one has a copy of it then.
LEMMA GoneWrite ==
  ASSUME TypeOK, GoneIsEmpty, NEW d, NEW new, d \in Drives => d \in drives, WriteDrive(d, new)
  PROVE  GoneIsEmpty'
  BY DEF TypeOK, DriveTypes, GoneIsEmpty, WriteDrive

\* Reading a drive that exists, or dropping a copy, leaves a gone drive as it is.
LEMMA GoneCopies ==
  ASSUME TypeOK, GoneIsEmpty, UNCHANGED <<drives, drive>>, NEW h, NEW d,
         \/ d \in drives /\ ReadDrive(h, d)
         \/ DropDrive(h, d)
         \/ UNCHANGED driveCopies
  PROVE  GoneIsEmpty'
  BY DEF TypeOK, DriveTypes, GoneIsEmpty, ReadDrive, DropDrive

\* Whoever has a copy of a drive has one of a drive that exists.
LEMMA CopyExists ==
  ASSUME GoneIsEmpty, NEW d \in Drives, NEW h, h \in driveCopies[d]
  PROVE  d \in drives
  BY DEF GoneIsEmpty

\* GoneIsEmpty through the steps of a volume.
LEMMA GoneStep ==
  ASSUME ~LateWrites, DriveInv, QuietInv, NEW v \in Volumes, VolumeStep(v)
  PROVE  GoneIsEmpty'
<1> USE DEF QuietInv, QuietVolume, DriveInv
<1>1. CASE Claim(v) \/ NodeStep(v) \/ DeleteStep(v) \/ CleanStep(v) \/ AbortDelete(v)
             \/ AbortClean(v)
  <2>1. UNCHANGED <<drives, drive, driveCopies>>
    BY <1>1 DEF Claim, claimFrame, NodeStep, NodeStageVolume, NodeUnstageVolume, NodeExpandVolume,
                WriteVolume, DeleteStep, DeleteVolume, DeleteUnprotect, DeleteObject, AbortDelete,
                destroyFrame, CleanStep, CleanVolume, CleanUnprotect, CleanDelete, AbortClean,
                cleanFrame, driveVars
  <2> QED
    BY <2>1 DEF GoneIsEmpty
<1>2. CASE CreateStep(v) \/ AbortCreate(v)
  <2>1. CASE CreateVolume(v)
    <3>1. \E d \in drives : ReadDrive(<<"create", v>>, d)
      BY <2>1 DEF CreateVolume, selectDrive, getFilteredDrives
    <3> QED
      BY <2>1, <3>1, GoneCopies DEF CreateVolume, driveObjects
  <2>2. CASE CreateVolumeObject(v) \/ GetVolumeObject(v) \/ UpdateVolumeObject(v) \/ AbortCreate(v)
    <3>1. /\ UNCHANGED <<drives, drive>>
          /\ DropDrive(<<"create", v>>, create[v].drive) \/ UNCHANGED driveCopies
      BY <2>2 DEF CreateVolumeObject, GetVolumeObject, UpdateVolumeObject, AbortCreate, EndCreate,
                  driveObjects, driveVars
    <3> QED
      BY <3>1, GoneCopies
  <2>3. CASE ReserveDrive(v)
    <3> DEFINE d == create[v].drive
    <3>1. \/ /\ UNCHANGED <<drives, drive>>
             /\ DropDrive(<<"create", v>>, d) \/ UNCHANGED driveCopies
          \/ /\ <<"create", v>> \in driveCopies[d]
             /\ WriteDrive(d, Reserved(d, v, create[v].size))
      BY <2>3 DEF ReserveDrive, driveObjects, driveVars
    <3> QED
      BY <3>1, GoneCopies, GoneWrite, CopyExists
  <2> QED
    BY <1>2, <2>1, <2>2, <2>3 DEF CreateStep
<1>3. CASE LateStep(v)
  BY <1>3 DEF LateStep, TimeoutCreate, LateReserve
<1>4. CASE ExpandStep(v) \/ AbortExpand(v)
  <2> DEFINE d == expand[v].drive
  <2>1. \/ /\ UNCHANGED <<drives, drive>>
           /\ \/ d \in drives /\ ReadDrive(<<"expand", v>>, d)
              \/ DropDrive(<<"expand", v>>, d)
              \/ UNCHANGED driveCopies
        \/ /\ <<"expand", v>> \in driveCopies[d]
           /\ WriteDrive(d, Expanded(d, expand[v].need))
    BY <1>4 DEF ExpandStep, ControllerExpandVolume, ExpandGetDrive, ExpandUpdateDrive,
                AbortExpand, EndExpand, driveObjects, driveVars
  <2> QED
    BY <2>1, GoneCopies, GoneWrite, CopyExists
<1>5. CASE ReleaseStep(v) \/ AbortRelease(v)
  <2> DEFINE d == release[v].drive
  <2>1. \/ /\ UNCHANGED <<drives, drive>>
           /\ \/ d \in drives /\ ReadDrive(<<"release", v>>, d)
              \/ DropDrive(<<"release", v>>, d)
              \/ UNCHANGED driveCopies
        \/ /\ <<"release", v>> \in driveCopies[d]
           /\ WriteDrive(d, Released(d, v, release[v].size))
    BY <1>5 DEF ReleaseStep, ReleaseVolume, ReleaseGetDrive, ReleaseUpdateDrive, ReleasePurge,
                AbortRelease, EndRelease, driveObjects, driveVars
  <2> QED
    BY <2>1, GoneCopies, GoneWrite, CopyExists
<1> QED
  BY <1>1, <1>2, <1>3, <1>4, <1>5 DEF VolumeStep, FaultStep

\* GoneIsEmpty through commands and faults: remove() deletes a drive without volumes.
LEMMA GoneCommand ==
  ASSUME TypeOK, GoneIsEmpty, NEW x \in Drives, DriveStep(x)
  PROVE  GoneIsEmpty'
<1>1. \A d \in Drives : drive'[d].volumes = drive[d].volumes
  BY CommandChanges
<1>2. Touch(x) \/ UNCHANGED driveCopies
  BY DEF DriveStep, Cordon, Uncordon, RemoveDrive, RemoveFinalizers, DeleteDrive, AbortRemove,
         SetIOError, Repair, SetStatus
<1>3. UNCHANGED drives \/ (drives' = drives \ {x} /\ drive[x].volumes = {} /\ Touch(x))
  BY DEF DriveStep, Cordon, Uncordon, RemoveDrive, RemoveFinalizers, DeleteDrive, AbortRemove,
         SetIOError, Repair, SetStatus
<1> QED
  BY <1>1, <1>2, <1>3 DEF GoneIsEmpty, Touch, TypeOK, DriveTypes
\* CreateVolume of volume v: a drive is selected.  Retries find every drive that
\* lists the volume, so "add" means that none does.
LEMMA QuietSelect ==
  ASSUME DriveInv, QuietInv, NEW v \in Volumes, CreateVolume(v)
  PROVE  QuietVolume(v)'
<1> USE DEF QuietInv, QuietVolume, DriveInv
<1>t. create \in [Volumes -> CreateOp]
  BY DEF TypeOK, HandlerTypes
<1>1. PICK d \in selectDrive(v) :
        create' = [create EXCEPT ![v] =
          [pc |-> "create", mode |-> IF v \in drive[d].volumes THEN "found" ELSE "add", drive |-> d,
           size |-> IF Requested[v] = NoRange THEN drive[d].free ELSE Requested[v]]]
  BY DEF CreateVolume
<1>2. d \in Drives /\ d \in drives
  BY DEF selectDrive, getFilteredDrives, TypeOK, DriveTypes
<1>3. /\ create'[v].pc = "create" /\ create'[v].drive = d
      /\ create'[v].mode = IF v \in drive[d].volumes THEN "found" ELSE "add"
  BY <1>1, <1>t
<1>4. v \notin drive[d].volumes => \A x \in Drives : v \notin drive[x].volumes
  BY <1>2 DEF selectDrive, getFilteredDrives, GoneIsEmpty
<1>5. /\ claim[v] = "pending"
      /\ UNCHANGED <<drive, volumes, volume, pvProtected, deleting, late, destroy, expand,
                     release, clean, claim>>
  BY DEF CreateVolume, driveObjects, volumeVars
<1>6. PlacedVolume(v)'
  BY <1>2, <1>3, <1>5 DEF PlacedVolume, Home
<1>7. CreateKnows(v)'
  BY <1>3, <1>4, <1>5 DEF CreateKnows
<1>8. LiveIsKept(v)' /\ ReleaseKnows(v)' /\ ListedWhereItLives(v)' /\ late'[v].pc = "idle"
  BY <1>5 DEF LiveIsKept, ReleaseKnows, ListedWhereItLives, Home
<1> QED
  BY <1>6, <1>7, <1>8

\* The attempt ends: nothing but the handler changes.
LEMMA QuietEndCreate ==
  ASSUME TypeOK, NEW v \in Volumes, QuietVolume(v), create' = [create EXCEPT ![v] = NoCreate],
         UNCHANGED <<drive, volumes, volume, pvProtected, deleting, late, destroy, expand,
                     release, clean, claim>>
  PROVE  QuietVolume(v)'
<1>1. create'[v].pc = "idle"
  BY DEF TypeOK, HandlerTypes, NoCreate
<1> QED
  BY <1>1 DEF QuietVolume, PlacedVolume, LiveIsKept, CreateKnows, ReleaseKnows,
              ListedWhereItLives, Home

\* The volume object is created, or read and rewritten, before the drive is touched.
LEMMA QuietObject ==
  ASSUME DriveInv, QuietInv, NEW v \in Volumes,
         CreateVolumeObject(v) \/ GetVolumeObject(v) \/ UpdateVolumeObject(v)
  PROVE  QuietVolume(v)'
<1> USE DEF QuietInv, QuietVolume, DriveInv
<1>t. create \in [Volumes -> CreateOp] /\ volume \in [Volumes -> VolumeObject]
  BY DEF TypeOK, HandlerTypes, VolumeTypes
<1>1. create[v].pc # "idle" /\ claim[v] = "pending" /\ create[v].drive \in Drives
  BY DEF CreateVolumeObject, GetVolumeObject, UpdateVolumeObject, CreateKnows, PlacedVolume
<1>2. UNCHANGED <<drive, deleting, late, destroy, expand, release, clean, claim>>
  BY DEF CreateVolumeObject, GetVolumeObject, UpdateVolumeObject, driveObjects, driveVars,
         volumeVars, createFrame
<1>3. CASE create' = [create EXCEPT ![v] = NoCreate]
           /\ UNCHANGED <<volumes, volume, pvProtected>>
  BY <1>2, <1>3, QuietEndCreate
<1>4. CASE /\ create' = [create EXCEPT ![v].pc = "reserve"]
           /\ volume' = [volume EXCEPT ![v] = NewVolume(v)]
           /\ pvProtected' = pvProtected \cup {v}
           /\ v \in volumes'
  <2>1. /\ create'[v].pc = "reserve" /\ create'[v].mode = create[v].mode
        /\ create'[v].drive = create[v].drive
    BY <1>4, <1>t DEF CreateOp
  <2>2. Home(v)' = create[v].drive
    BY <1>4, <1>t DEF Home, NewVolume
  <2>3. \A d \in Drives : v \in drive[d].volumes => d = create[v].drive
    <3>1. CASE create[v].mode = "add"
      BY <1>1, <3>1 DEF CreateKnows
    <3>2. CASE create[v].mode = "found"
      BY <1>1, <3>2 DEF CreateKnows, ListedWhereItLives
    <3> QED
      BY <1>t, <3>1, <3>2 DEF CreateOp
  <2>4. PlacedVolume(v)'
    BY <1>1, <1>2, <2>1, <2>2 DEF PlacedVolume
  <2>5. CreateKnows(v)'
    BY <1>1, <1>2, <1>4, <2>1, <2>2 DEF CreateKnows
  <2>6. LiveIsKept(v)' /\ late'[v].pc = "idle"
    BY <1>2, <1>4 DEF LiveIsKept
  <2>7. ReleaseKnows(v)'
    BY <1>1, <1>2 DEF ReleaseKnows, LiveIsKept
  <2>8. ListedWhereItLives(v)'
    BY <1>1, <1>2, <1>4, <2>2, <2>3 DEF ListedWhereItLives
  <2> QED
    BY <2>4, <2>5, <2>6, <2>7, <2>8
<1>5. CASE /\ \E p \in {"get", "update"} : create' = [create EXCEPT ![v].pc = p]
           /\ v \in volumes /\ UNCHANGED <<volumes, volume, pvProtected>>
  <2>1. /\ create'[v].pc \in {"get", "update"} /\ create'[v].mode = create[v].mode
        /\ create'[v].drive = create[v].drive
    BY <1>5, <1>t DEF CreateOp
  <2>2. PlacedVolume(v)'
    BY <1>1, <1>2, <1>5, <2>1 DEF PlacedVolume, Home
  <2>3. CreateKnows(v)'
    BY <1>1, <1>2, <1>5, <2>1 DEF CreateKnows
  <2>4. LiveIsKept(v)' /\ ReleaseKnows(v)' /\ ListedWhereItLives(v)' /\ late'[v].pc = "idle"
    BY <1>2, <1>5 DEF LiveIsKept, ReleaseKnows, ListedWhereItLives, Home
  <2> QED
    BY <2>2, <2>3, <2>4
<1>6. CASE CreateVolumeObject(v)
  BY <1>4, <1>5, <1>6 DEF CreateVolumeObject, volumeVars
<1>7. CASE GetVolumeObject(v)
  BY <1>3, <1>5, <1>7 DEF GetVolumeObject, EndCreate
<1>8. CASE UpdateVolumeObject(v)
  <2>1. v \in volumes /\ UNCHANGED volumes
    BY <1>8 DEF UpdateVolumeObject, CreateKnows
  <2> QED
    BY <1>3, <1>4, <1>8, <2>1 DEF UpdateVolumeObject, EndCreate
<1> QED
  BY <1>6, <1>7, <1>8

\* The drive is reserved, if the copy of it is current, and the call answered.
LEMMA QuietReserve ==
  ASSUME DriveInv, QuietInv, NEW v \in Volumes, ReserveDrive(v)
  PROVE  QuietVolume(v)'
<1> USE DEF QuietInv, QuietVolume, DriveInv
<1> DEFINE d == create[v].drive
<1>1. create[v].pc = "reserve" /\ claim[v] = "pending" /\ d \in Drives /\ v \in volumes /\ Home(v) = d
  BY DEF ReserveDrive, CreateKnows, PlacedVolume
<1>2. /\ UNCHANGED <<volumes, volume, pvProtected, deleting, late, destroy, expand, release, clean>>
      /\ create'[v].pc = "idle"
  BY DEF ReserveDrive, volumeVars, createFrame, TypeOK, HandlerTypes, NoCreate
<1>3. claim'[v] \in {"pending", "provisioned"}
  BY <1>1 DEF ReserveDrive, AnswerCreate, TypeOK
<1>4. PlacedVolume(v)' /\ late'[v].pc = "idle" /\ CreateKnows(v)'
  BY <1>2 DEF PlacedVolume, CreateKnows, Home
<1>5. LiveIsKept(v)' /\ ReleaseKnows(v)'
  BY <1>1, <1>2, <1>3 DEF LiveIsKept, ReleaseKnows
<1>6. \A x \in Drives : v \in drive'[x].volumes => x = d
  <2>1. CASE UNCHANGED drive
    BY <1>1, <2>1 DEF ListedWhereItLives
  <2>2. CASE WriteDrive(d, Reserved(d, v, create[v].size))
    BY <1>1, <2>2 DEF ListedWhereItLives, WriteDrive, TypeOK, DriveTypes
  <2> QED
    BY <2>1, <2>2 DEF ReserveDrive, driveObjects, driveVars
<1>7. claim'[v] = "provisioned" => v \in drive'[d].volumes
  <2>1. CASE create[v].mode = "found"
    BY <1>1, <2>1 DEF ReserveDrive, driveObjects, CreateKnows
  <2>2. CASE create[v].mode = "add" /\ <<"create", v>> \in driveCopies[d]
    <3>1. drive'[d] = Reserved(d, v, create[v].size)
      BY <1>1, <2>2 DEF ReserveDrive, WriteDrive, TypeOK, DriveTypes
    <3> QED
      BY <3>1 DEF Reserved
  <2>3. CASE create[v].mode = "add" /\ <<"create", v>> \notin driveCopies[d]
    BY <1>1, <2>3 DEF ReserveDrive
  <2> QED
    BY <2>1, <2>2, <2>3 DEF ReserveDrive
<1>8. ListedWhereItLives(v)'
  BY <1>1, <1>2, <1>3, <1>6, <1>7 DEF ListedWhereItLives, Home
<1> QED
  BY <1>4, <1>5, <1>8
\* The volume controller works on a volume whose claim is not live; it purges the
\* volume only when the drive where it lived lists it no more.
LEMMA QuietRelease ==
  ASSUME DriveInv, QuietInv, NEW v \in Volumes, ReleaseStep(v) \/ AbortRelease(v)
  PROVE  QuietVolume(v)'
<1> USE DEF QuietInv, QuietVolume, DriveInv
<1> DEFINE d == release[v].drive
<1>t. release \in [Volumes -> ReleaseOp] /\ volume \in [Volumes -> VolumeObject]
  BY DEF TypeOK, HandlerTypes, VolumeTypes
<1>u. UNCHANGED <<create, late, destroy, expand, clean, claim, pvProtected>>
  BY DEF ReleaseStep, ReleaseVolume, ReleaseGetDrive, ReleaseUpdateDrive, ReleasePurge,
         AbortRelease, releaseFrame
<1>c. create[v].pc = "idle" /\ claim[v] \notin {"unclaimed", "pending", "provisioned", "bound"}
  BY DEF ReleaseStep, ReleaseVolume, ReleaseGetDrive, ReleaseUpdateDrive, ReleasePurge,
         AbortRelease, LiveIsKept, CreateKnows
<1>k. late'[v].pc = "idle" /\ LiveIsKept(v)' /\ CreateKnows(v)'
  BY <1>u, <1>c DEF LiveIsKept, CreateKnows
<1>1. CASE ReleaseVolume(v)
  <2>1. /\ release'[v].pc = "getDrive" /\ release'[v].drive = Home(v) /\ v \in volumes
        /\ UNCHANGED <<volumes, volume, drive>>
    BY <1>1, <1>t DEF ReleaseVolume, Home, driveVars
  <2> QED
    BY <1>u, <1>c, <1>k, <2>1 DEF PlacedVolume, ReleaseKnows, ListedWhereItLives, Home
<1>e. ASSUME release' = [release EXCEPT ![v] = NoRelease], UNCHANGED <<volumes, volume, drive>>
      PROVE  QuietVolume(v)'
  <2>1. release'[v].pc = "idle"
    BY <1>e, <1>t DEF NoRelease
  <2> QED
    BY <1>e, <1>u, <1>c, <1>k, <2>1 DEF PlacedVolume, ReleaseKnows, ListedWhereItLives, Home
<1>2. CASE ReleaseGetDrive(v)
  <2>1. /\ v \in volumes /\ d = Home(v) /\ d \in Drives
        /\ UNCHANGED <<volumes, volume, drive>>
    BY <1>2 DEF ReleaseGetDrive, ReleaseKnows, PlacedVolume, driveObjects
  <2>2. CASE d \in drives
    <3>1. /\ release'[v].pc = IF v \in drive[d].volumes THEN "updateDrive" ELSE "purge"
          /\ release'[v].drive = d
      BY <1>2, <1>t, <2>2 DEF ReleaseGetDrive, ReleaseOp
    <3>2. \A x \in Drives : v \in drive[x].volumes => x = d
      BY <2>1 DEF ListedWhereItLives
    <3> QED
      BY <1>u, <1>c, <1>k, <2>1, <3>1, <3>2
         DEF PlacedVolume, ReleaseKnows, ListedWhereItLives, Home
  <2>3. CASE d \notin drives
    BY <1>2, <1>e, <2>1, <2>3 DEF ReleaseGetDrive, EndRelease
  <2> QED
    BY <2>2, <2>3
<1>3. CASE ReleaseUpdateDrive(v)
  <2>1. v \in volumes /\ d = Home(v) /\ d \in Drives /\ UNCHANGED <<volumes, volume>>
    BY <1>3 DEF ReleaseUpdateDrive, ReleaseKnows, PlacedVolume
  <2>2. CASE <<"release", v>> \in driveCopies[d]
    <3>1. /\ release'[v].pc = "purge" /\ release'[v].drive = d
          /\ drive' = [drive EXCEPT ![d] = Released(d, v, release[v].size)]
      BY <1>3, <1>t, <2>2 DEF ReleaseUpdateDrive, ReleaseOp, WriteDrive
    <3>2. \A x \in Drives : v \notin drive'[x].volumes
      BY <2>1, <3>1 DEF ListedWhereItLives, Released, TypeOK, DriveTypes
    <3> QED
      BY <1>u, <1>c, <1>k, <2>1, <3>1, <3>2
         DEF PlacedVolume, ReleaseKnows, ListedWhereItLives, Home
  <2>3. CASE <<"release", v>> \notin driveCopies[d]
    BY <1>3, <1>e, <2>1, <2>3 DEF ReleaseUpdateDrive, EndRelease, driveObjects
  <2> QED
    BY <2>2, <2>3
<1>4. CASE ReleasePurge(v)
  <2>1. /\ UNCHANGED drive /\ \A x \in Drives : v \notin drive[x].volumes
        /\ release'[v].pc = "idle"
    BY <1>4, <1>t DEF ReleasePurge, ReleaseKnows, driveVars, NoRelease
  <2>2. UNCHANGED <<volumes, volume>> \/ v \notin volumes'
    BY <1>4 DEF ReleasePurge
  <2> QED
    BY <1>u, <1>c, <1>k, <2>1, <2>2 DEF PlacedVolume, ReleaseKnows, ListedWhereItLives, Home
<1>5. CASE AbortRelease(v)
  BY <1>5, <1>e DEF AbortRelease, EndRelease, driveObjects
<1> QED
  BY <1>1, <1>2, <1>3, <1>4, <1>5 DEF ReleaseStep

\* DeleteVolume and clean work on volumes whose claim is not live.
LEMMA QuietDelete ==
  ASSUME QuietClean, DriveInv, QuietInv, NEW v \in Volumes,
         DeleteStep(v) \/ AbortDelete(v) \/ CleanStep(v) \/ AbortClean(v)
  PROVE  QuietVolume(v)'
<1> USE DEF QuietInv, QuietVolume, DriveInv
<1>1. claim[v] \notin {"unclaimed", "pending", "provisioned", "bound"}
  BY DEF DeleteStep, DeleteVolume, DeleteUnprotect, DeleteObject, AbortDelete,
         CleanStep, CleanVolume, CleanUnprotect, CleanDelete, AbortClean, Stale, LiveIsKept
<1>2. claim'[v] \in {claim[v], "gone"}
  BY DEF DeleteStep, DeleteVolume, DeleteUnprotect, DeleteObject, AbortDelete, CleanStep,
         CleanVolume, CleanUnprotect, CleanDelete, AbortClean, cleanFrame, TypeOK
<1>3. UNCHANGED <<create, late, expand, release, volumes, volume, drive>>
  BY DEF DeleteStep, DeleteVolume, DeleteUnprotect, DeleteObject, AbortDelete, destroyFrame,
         CleanStep, CleanVolume, CleanUnprotect, CleanDelete, AbortClean, cleanFrame, driveVars
<1>4. LiveIsKept(v)'
  BY <1>1, <1>2 DEF LiveIsKept
<1>5. CreateKnows(v)'
  BY <1>1, <1>3 DEF CreateKnows
<1> QED
  BY <1>1, <1>2, <1>3, <1>4, <1>5 DEF PlacedVolume, ReleaseKnows, ListedWhereItLives, Home

\* Claims, kubelet calls and expansion move no volume.
LEMMA QuietOthers ==
  ASSUME DriveInv, QuietInv, NEW v \in Volumes,
         Claim(v) \/ NodeStep(v) \/ ExpandStep(v) \/ AbortExpand(v)
  PROVE  QuietVolume(v)'
<1> USE DEF QuietInv, QuietVolume, DriveInv
<1>t. volume \in [Volumes -> VolumeObject] /\ expand \in [Volumes -> ExpandOp]
  BY DEF TypeOK, VolumeTypes, HandlerTypes
<1>1. UNCHANGED <<create, late, destroy, release, clean, volumes, pvProtected, deleting>>
  BY DEF Claim, claimFrame, NodeStep, NodeStageVolume, NodeUnstageVolume, NodeExpandVolume,
         WriteVolume, ExpandStep, ControllerExpandVolume, ExpandGetDrive, ExpandUpdateDrive,
         AbortExpand, expandFrame, opVars, volumeVars
<1>2. Home(v)' = Home(v)
  <2>1. CASE Claim(v) \/ ExpandStep(v) \/ AbortExpand(v)
    BY <2>1 DEF Claim, claimFrame, ExpandStep, ControllerExpandVolume, ExpandGetDrive,
                ExpandUpdateDrive, AbortExpand, expandFrame, volumeVars, Home
  <2>2. CASE NodeStep(v)
    BY <1>t, <2>2 DEF NodeStep, NodeStageVolume, NodeUnstageVolume, NodeExpandVolume, WriteVolume,
                      VolumeObject, Home
  <2> QED
    BY <2>1, <2>2
<1>3. \A d \in Drives : drive'[d].volumes = drive[d].volumes
  <2>1. CASE Claim(v) \/ NodeStep(v) \/ AbortExpand(v)
    BY <2>1 DEF Claim, claimFrame, NodeStep, NodeStageVolume, NodeUnstageVolume, NodeExpandVolume,
                WriteVolume, AbortExpand, driveVars, driveObjects
  <2>2. CASE ExpandStep(v)
    <3>1. UNCHANGED drive \/ WriteDrive(expand[v].drive, Expanded(expand[v].drive, expand[v].need))
      BY <2>2 DEF ExpandStep, ControllerExpandVolume, ExpandGetDrive, ExpandUpdateDrive,
                  driveObjects, driveVars
    <3> QED
      BY <3>1 DEF WriteDrive, Expanded, TypeOK, DriveTypes
  <2> QED
    BY <2>1, <2>2
<1>4. expand'[v].pc # "idle" => expand'[v].drive \in Drives
  <2>1. CASE Claim(v) \/ NodeStep(v)
    BY <2>1 DEF Claim, claimFrame, NodeStep, NodeStageVolume, NodeUnstageVolume, NodeExpandVolume,
                WriteVolume, opVars, PlacedVolume
  <2>2. CASE \E n \in ExpandTo : ControllerExpandVolume(v, n)
    BY <1>t, <2>2 DEF ControllerExpandVolume, PlacedVolume, Home
  <2>3. CASE ExpandGetDrive(v) \/ ExpandUpdateDrive(v) \/ AbortExpand(v)
    BY <1>t, <2>3 DEF ExpandGetDrive, ExpandUpdateDrive, AbortExpand, EndExpand, NoExpand,
                      ExpandOp, PlacedVolume
  <2> QED
    BY <2>1, <2>2, <2>3 DEF ExpandStep
<1>5. \/ claim'[v] = claim[v]
      \/ claim[v] = "unclaimed" /\ claim'[v] = "pending"
      \/ claim[v] = "provisioned" /\ claim'[v] = "bound"
      \/ claim'[v] \in {"released", "gone"} /\ create[v].pc = "idle"
  BY DEF Claim, NodeStep, NodeStageVolume, NodeUnstageVolume, NodeExpandVolume, WriteVolume,
         ExpandStep, ControllerExpandVolume, ExpandGetDrive, ExpandUpdateDrive, AbortExpand,
         expandFrame, TypeOK, CreateKnows
<1>6. PlacedVolume(v)'
  BY <1>1, <1>2, <1>4 DEF PlacedVolume
<1>7. LiveIsKept(v)' /\ late'[v].pc = "idle"
  BY <1>1, <1>5 DEF LiveIsKept
<1>8. CreateKnows(v)'
  BY <1>1, <1>2, <1>3, <1>5 DEF CreateKnows, PlacedVolume
<1>9. ReleaseKnows(v)'
  BY <1>1, <1>2, <1>3 DEF ReleaseKnows
<1>10. ListedWhereItLives(v)'
  BY <1>1, <1>2, <1>3, <1>5 DEF ListedWhereItLives, PlacedVolume
<1> QED
  BY <1>6, <1>7, <1>8, <1>9, <1>10

\* The invariant holds at first.
LEMMA QuietInit == Init => QuietInv
  BY DEF Init, QuietInv, QuietVolume, GoneIsEmpty, PlacedVolume, LiveIsKept, CreateKnows,
         ReleaseKnows, ListedWhereItLives, NoCreate, NoLate, NoExpand, NoRelease

\* It is inductive while no Update lands late and clean is quiet.
LEMMA QuietNext ==
  ASSUME QuietClean, ~LateWrites, DriveInv, QuietInv, [Next]_vars
  PROVE  QuietInv'
<1>1. ASSUME NEW v \in Volumes, VolumeStep(v)
      PROVE  QuietInv'
  <2>1. \A w \in Volumes : w # v => QuietVolume(w)'
    BY <1>1, OthersUntouched, QuietStays DEF DriveInv, QuietInv
  <2>2. CASE CreateStep(v) \/ AbortCreate(v)
    <3>1. ASSUME AbortCreate(v) PROVE QuietVolume(v)'
      BY <3>1, QuietEndCreate DEF AbortCreate, EndCreate, createFrame, driveObjects, DriveInv,
                                  QuietInv
    <3> QED
      BY <1>1, <2>1, <2>2, <3>1, GoneStep, QuietSelect, QuietObject, QuietReserve
         DEF CreateStep, QuietInv
  <2>3. CASE LateStep(v)
    BY <2>3 DEF LateStep, TimeoutCreate, LateReserve, QuietInv, QuietVolume
  <2>4. CASE Claim(v) \/ NodeStep(v) \/ ExpandStep(v) \/ AbortExpand(v)
    BY <1>1, <2>1, <2>4, GoneStep, QuietOthers DEF QuietInv
  <2>5. CASE DeleteStep(v) \/ AbortDelete(v) \/ CleanStep(v) \/ AbortClean(v)
    BY <1>1, <2>1, <2>5, GoneStep, QuietDelete DEF QuietInv
  <2>6. CASE ReleaseStep(v) \/ AbortRelease(v)
    BY <1>1, <2>1, <2>6, GoneStep, QuietRelease DEF QuietInv
  <2> QED
    BY <1>1, <2>2, <2>3, <2>4, <2>5, <2>6 DEF VolumeStep, FaultStep
<1>2. ASSUME NEW x \in Drives, DriveStep(x)
      PROVE  QuietInv'
  BY <1>2, CommandsUntouched, QuietStays, GoneCommand DEF DriveInv, QuietInv
<1>3. CASE UNCHANGED vars
  <2>1. GoneIsEmpty'
    BY <1>3 DEF vars, driveVars, QuietInv, GoneIsEmpty
  <2>2. \A w \in Volumes : Untouched(w)
    BY <1>3 DEF vars, driveVars, volumeVars, opVars, Untouched
  <2> QED
    BY <2>1, <2>2, QuietStays DEF QuietInv
<1> QED
  BY <1>1, <1>2, <1>3 DEF Next, VolumeStep

\* Reservations match volumes in every reachable state.
LEMMA QuietInvariant ==
  ASSUME QuietClean, ~LateWrites
  PROVE  Spec => []QuietInv
<1>1. QuietInv /\ DriveInv /\ [Next]_vars => QuietInv'
  BY QuietNext
<1> QED
  BY <1>1, QuietInit, DriveInvariant, PTL DEF Spec

\* CreateVolume attempts that fail half way, are retried or race with each other, the
\* volume controller's release and whatever happens to the drives never leave a
\* finalizer on a drive without its volume, or a volume on two drives; provided that
\* no drive Update of a timed-out CreateVolume lands later and `clean` leaves alone
\* what is being provisioned.
THEOREM ReservationsMatch ==
  ASSUME QuietClean, ~LateWrites
  PROVE  Spec => []ReservationSound
<1>1. QuietInv => ReservationSound
  BY DEF QuietInv, QuietVolume, ListedWhereItLives, ReservationSound, Reserves
<1> QED
  BY <1>1, QuietInvariant, PTL

\* Under the same two conditions a volume that CreateVolume answered exists,
\* protected, and its drive exists and lists it, until its claim is released.
THEOREM AnsweredStaysReserved ==
  ASSUME QuietClean, ~LateWrites
  PROVE  Spec => []BoundIsReserved
<1>1. QuietInv => BoundIsReserved
  BY DEF QuietInv, QuietVolume, ListedWhereItLives, LiveIsKept, PlacedVolume, GoneIsEmpty,
         BoundIsReserved, Reserves
<1> QED
  BY <1>1, QuietInvariant, PTL
-----------------------------------------------------------------------------
(* Without expansion the account of a drive is exact *)

\* Every request names its size.
Sized == \A v \in Volumes : Requested[v] # NoRange

\* Moreover no claim is resized.
FixedSizes == ExpandTo = {} /\ Sized

\* What nobody touches stays exact.
LEMMA ExactStays ==
  ASSUME NEW w \in Volumes, ExactVolume(w), Untouched(w)
  PROVE  ExactVolume(w)'
  BY DEF ExactVolume, Untouched

\* CreateVolume asks for the requested size, and takes it once.
LEMMA ExactCreate ==
  ASSUME FixedSizes, DriveInv, QuietInv, ExactInv, NEW v \in Volumes,
         CreateStep(v) \/ AbortCreate(v)
  PROVE  ExactVolume(v)'
<1> USE DEF DriveInv
<1>q. QuietVolume(v) /\ ExactVolume(v) /\ Requested[v] \in Nat
  BY ProvisioningAssumption DEF QuietInv, ExactInv, FixedSizes, Sized
<1>t. create \in [Volumes -> CreateOp] /\ volume \in [Volumes -> VolumeObject]
  BY DEF TypeOK, HandlerTypes, VolumeTypes
<1>1. UNCHANGED <<expand, release, granted>>
  BY DEF CreateStep, CreateVolume, CreateVolumeObject, GetVolumeObject, UpdateVolumeObject,
         ReserveDrive, AbortCreate, createFrame
<1>2. create'[v].pc # "idle" => create'[v].size = Requested[v]
  <2>1. CASE CreateVolume(v)
    BY <1>t, <2>1 DEF CreateVolume, FixedSizes, Sized
  <2>2. CASE CreateVolumeObject(v) \/ GetVolumeObject(v) \/ UpdateVolumeObject(v)
               \/ ReserveDrive(v) \/ AbortCreate(v)
    <3>1. create[v].pc # "idle"
      BY <2>2 DEF CreateVolumeObject, GetVolumeObject, UpdateVolumeObject, ReserveDrive, AbortCreate
    <3>2. \/ create' = [create EXCEPT ![v] = NoCreate]
          \/ \E p \in {"get", "update", "reserve"} : create' = [create EXCEPT ![v].pc = p]
      BY <2>2 DEF CreateVolumeObject, GetVolumeObject, UpdateVolumeObject, ReserveDrive,
                  AbortCreate, EndCreate
    <3> QED
      BY <1>q, <1>t, <3>1, <3>2 DEF ExactVolume, NoCreate, CreateOp
  <2> QED
    BY <2>1, <2>2 DEF CreateStep
<1>3. v \in volumes' => volume'[v].total = Requested[v]
  <2>1. \/ UNCHANGED <<volumes, volume>>
        \/ volume' = [volume EXCEPT ![v] = NewVolume(v)] /\ create[v].pc # "idle"
    BY DEF CreateStep, CreateVolume, CreateVolumeObject, GetVolumeObject, UpdateVolumeObject,
           ReserveDrive, AbortCreate, volumeVars
  <2> QED
    BY <1>q, <1>t, <2>1 DEF ExactVolume, NewVolume
<1>4. ASSUME NEW x \in Drives
      PROVE  debit'[x][v] = IF v \in drive'[x].volumes THEN Requested[v] ELSE 0
  <2> DEFINE d == create[v].drive
  <2>1. CASE UNCHANGED <<drive, debit>>
    BY <1>q, <2>1 DEF ExactVolume
  <2>2. CASE /\ create[v].pc # "idle" /\ create[v].mode = "add"
             /\ WriteDrive(d, Reserved(d, v, create[v].size)) /\ Debit(d, v, create[v].size)
    <3>1. v \notin drive[x].volumes /\ debit[x][v] = 0 /\ create[v].size = Requested[v]
      BY <1>q, <2>2 DEF QuietVolume, CreateKnows, ExactVolume
    <3>2. CASE x = d
      <4>1. drive'[x] = Reserved(d, v, create[v].size)
        BY <2>2, <3>2 DEF WriteDrive, TypeOK, DriveTypes
      <4>2. debit'[x][v] = debit[x][v] + create[v].size
        BY <2>2, <3>2 DEF Debit, TypeOK
      <4> QED
        BY <1>q, <3>1, <4>1, <4>2 DEF Reserved
    <3>3. CASE x # d
      BY <2>2, <3>1, <3>3 DEF WriteDrive, Debit, TypeOK, DriveTypes
    <3> QED
      BY <3>2, <3>3
  <2>3. \/ UNCHANGED <<drive, debit>>
        \/ /\ create[v].pc # "idle" /\ create[v].mode = "add"
           /\ WriteDrive(d, Reserved(d, v, create[v].size)) /\ Debit(d, v, create[v].size)
    BY DEF CreateStep, CreateVolume, CreateVolumeObject, GetVolumeObject, UpdateVolumeObject,
           ReserveDrive, AbortCreate, driveObjects, driveVars
  <2> QED
    BY <2>1, <2>2, <2>3
<1> QED
  BY <1>q, <1>1, <1>2, <1>3, <1>4 DEF ExactVolume

\* The volume controller gives back what was taken.
LEMMA ExactRelease ==
  ASSUME FixedSizes, DriveInv, QuietInv, ExactInv, NEW v \in Volumes,
         ReleaseStep(v) \/ AbortRelease(v)
  PROVE  ExactVolume(v)'
<1> USE DEF DriveInv
<1>q. QuietVolume(v) /\ ExactVolume(v) /\ Requested[v] \in Nat
  BY ProvisioningAssumption DEF QuietInv, ExactInv, FixedSizes, Sized
<1>t. release \in [Volumes -> ReleaseOp] /\ volume \in [Volumes -> VolumeObject]
  BY DEF TypeOK, HandlerTypes, VolumeTypes
<1>1. UNCHANGED <<create, expand, granted>>
  BY DEF ReleaseStep, ReleaseVolume, ReleaseGetDrive, ReleaseUpdateDrive, ReleasePurge,
         AbortRelease, releaseFrame
<1>2. release'[v].pc # "idle" => release'[v].size = Requested[v]
  <2>1. CASE ReleaseVolume(v)
    BY <1>q, <1>t, <2>1 DEF ReleaseVolume, ExactVolume
  <2>2. CASE ReleaseGetDrive(v) \/ ReleaseUpdateDrive(v) \/ ReleasePurge(v) \/ AbortRelease(v)
    <3>1. release[v].pc # "idle"
      BY <2>2 DEF ReleaseGetDrive, ReleaseUpdateDrive, ReleasePurge, AbortRelease
    <3>2. \/ release' = [release EXCEPT ![v] = NoRelease]
          \/ \E p \in {"updateDrive", "purge"} : release' = [release EXCEPT ![v].pc = p]
      BY <2>2 DEF ReleaseGetDrive, ReleaseUpdateDrive, ReleasePurge, AbortRelease, EndRelease
    <3> QED
      BY <1>q, <1>t, <3>1, <3>2 DEF ExactVolume, NoRelease, ReleaseOp
  <2> QED
    BY <2>1, <2>2 DEF ReleaseStep
<1>3. v \in volumes' => volume'[v].total = Requested[v]
  <2>1. UNCHANGED <<volumes, volume>> \/ v \notin volumes'
    BY DEF ReleaseStep, ReleaseVolume, ReleaseGetDrive, ReleaseUpdateDrive, ReleasePurge,
           AbortRelease
  <2> QED
    BY <1>q, <2>1 DEF ExactVolume
<1>4. ASSUME NEW x \in Drives
      PROVE  debit'[x][v] = IF v \in drive'[x].volumes THEN Requested[v] ELSE 0
  <2> DEFINE d == release[v].drive
  <2>1. CASE UNCHANGED <<drive, debit>>
    BY <1>q, <2>1 DEF ExactVolume
  <2>2. CASE /\ release[v].pc = "updateDrive" /\ <<"release", v>> \in driveCopies[d]
             /\ WriteDrive(d, Released(d, v, release[v].size)) /\ Debit(d, v, -release[v].size)
    <3>1. /\ d \in Drives /\ release[v].size = Requested[v]
          /\ v \in drive[d].volumes /\ debit[d][v] = Requested[v]
      BY <1>q, <2>2 DEF QuietVolume, PlacedVolume, ExactVolume, CopiesTrue, ReleaseCopyTrue
    <3>2. CASE x = d
      <4>1. drive'[x] = Released(d, v, release[v].size)
        BY <2>2, <3>2 DEF WriteDrive, TypeOK, DriveTypes
      <4>2. debit'[x][v] = debit[x][v] + -release[v].size
        BY <2>2, <3>2 DEF Debit, TypeOK
      <4> QED
        BY <1>q, <3>1, <3>2, <4>1, <4>2 DEF Released
    <3>3. CASE x # d
      BY <1>q, <2>2, <3>3 DEF WriteDrive, Debit, TypeOK, DriveTypes, ExactVolume
    <3> QED
      BY <3>2, <3>3
  <2>3. \/ UNCHANGED <<drive, debit>>
        \/ /\ release[v].pc = "updateDrive" /\ <<"release", v>> \in driveCopies[d]
           /\ WriteDrive(d, Released(d, v, release[v].size)) /\ Debit(d, v, -release[v].size)
    BY DEF ReleaseStep, ReleaseVolume, ReleaseGetDrive, ReleaseUpdateDrive, ReleasePurge,
           AbortRelease, driveObjects, driveVars
  <2> QED
    BY <2>1, <2>2, <2>3
<1> QED
  BY <1>q, <1>1, <1>2, <1>3, <1>4 DEF ExactVolume

\* Nothing else touches sizes.
LEMMA ExactOthers ==
  ASSUME FixedSizes, DriveInv, ExactInv, NEW v \in Volumes,
         \/ Claim(v) \/ NodeStep(v) \/ DeleteStep(v) \/ AbortDelete(v) \/ CleanStep(v)
         \/ AbortClean(v) \/ ExpandStep(v) \/ AbortExpand(v)
  PROVE  ExactVolume(v)'
<1>q. ExactVolume(v)
  BY DEF ExactInv
<1>1. CASE Claim(v) \/ DeleteStep(v) \/ AbortDelete(v) \/ CleanStep(v) \/ AbortClean(v)
  <2>1. UNCHANGED <<create, expand, release, granted, volumes, volume, drive, debit>>
    BY <1>1 DEF Claim, claimFrame, DeleteStep, DeleteVolume, DeleteUnprotect, DeleteObject,
                AbortDelete, destroyFrame, CleanStep, CleanVolume, CleanUnprotect, CleanDelete,
                AbortClean, cleanFrame, driveVars, volumeVars, opVars
  <2> QED
    BY <1>q, <2>1 DEF ExactVolume
<1>2. CASE NodeStep(v)
  <2>1. UNCHANGED <<create, expand, release, granted, volumes, drive, debit>>
    BY <1>2 DEF NodeStep, NodeStageVolume, NodeUnstageVolume, NodeExpandVolume, WriteVolume,
                driveVars, opVars
  <2>2. volume'[v].total = volume[v].total
    <3>1. ~NodeExpandVolume(v)
      BY <1>q DEF NodeExpandVolume, ExactVolume, DriveInv, SizesTrue, TypeOK, VolumeTypes,
                  VolumeObject
    <3> QED
      BY <1>2, <3>1 DEF NodeStep, NodeStageVolume, NodeUnstageVolume, WriteVolume, DriveInv, TypeOK,
                        VolumeTypes, VolumeObject
  <2> QED
    BY <1>q, <2>1, <2>2 DEF ExactVolume
<1>3. CASE ExpandStep(v) \/ AbortExpand(v)
  BY <1>q, <1>3 DEF ExactVolume, FixedSizes, ExpandStep, ExpandGetDrive, ExpandUpdateDrive,
                    AbortExpand
<1> QED
  BY <1>1, <1>2, <1>3

\* The account is exact in every reachable state.
LEMMA ExactInvariant ==
  ASSUME QuietClean, ~LateWrites, FixedSizes
  PROVE  Spec => []ExactInv
<1>1. Init => ExactInv
  BY DEF Init, ExactInv, ExactVolume, NoCreate, NoExpand, NoRelease
<1>2. ASSUME DriveInv, QuietInv, ExactInv, NEW v \in Volumes, VolumeStep(v)
      PROVE  ExactInv'
  <2>1. \A w \in Volumes : w # v => ExactVolume(w)'
    BY <1>2, OthersUntouched, ExactStays DEF DriveInv, ExactInv
  <2>2. ~LateStep(v)
    BY <1>2 DEF LateStep, TimeoutCreate, LateReserve, QuietInv, QuietVolume
  <2>3. ExactVolume(v)'
    BY <1>2, <2>2, ExactCreate, ExactRelease, ExactOthers DEF VolumeStep, FaultStep
  <2> QED
    BY <2>1, <2>3 DEF ExactInv
<1>3. ASSUME DriveInv, ExactInv, NEW x \in Drives, DriveStep(x)
      PROVE  ExactInv'
  BY <1>3, CommandsUntouched, ExactStays DEF DriveInv, ExactInv
<1>4. ASSUME ExactInv, UNCHANGED vars
      PROVE  ExactInv'
  BY <1>4, ExactStays DEF ExactInv, vars, driveVars, volumeVars, opVars, Untouched
<1>5. DriveInv /\ QuietInv /\ ExactInv /\ [Next]_vars => ExactInv'
  BY <1>2, <1>3, <1>4 DEF Next, VolumeStep
<1> QED
  BY <1>1, <1>5, DriveInvariant, QuietInvariant, PTL DEF Spec

\* What a drive has given out for a volume is exactly the volume's TotalCapacity while
\* it is reserved and nothing otherwise: retries take nothing twice and a release
\* gives all of it back.  Claims are not resized and every request names its size.
THEOREM RefundsAreExact ==
  ASSUME QuietClean, ~LateWrites, FixedSizes
  PROVE  Spec => []RefundExact
<1>1. QuietInv /\ ExactInv => RefundExact
  BY DEF QuietInv, QuietVolume, GoneIsEmpty, ListedWhereItLives, ExactInv, ExactVolume,
         RefundExact, Reserves
<1> QED
  BY <1>1, QuietInvariant, ExactInvariant, PTL
-----------------------------------------------------------------------------
(* Provisioning implements Placement *)

\* Steps that change neither the finalizers nor the free capacity of any drive.
LEMMA AllocatorStutters ==
  ASSUME UNCHANGED drives,
         \A d \in Drives : drive'[d].volumes = drive[d].volumes /\ drive'[d].free = drive[d].free
  PROVE  UNCHANGED Allocator!vars
  BY DEF Allocator!vars

\* A reservation is a placement by the atomic allocator: while the copy of the drive
\* is current its room and its claim-ids are what CreateVolume saw.
LEMMA ReserveIsPlace ==
  ASSUME DriveInv, QuietInv, ExactInv, NEW v \in Volumes, NEW d \in Drives,
         create[v].pc = "reserve", create[v].mode = "add", create[v].drive = d,
         <<"create", v>> \in driveCopies[d], WriteDrive(d, Reserved(d, v, create[v].size))
  PROVE  Allocator!Place(v, d)
<1>q. QuietVolume(v) /\ ExactVolume(v) /\ GoneIsEmpty
  BY DEF QuietInv, ExactInv
<1>1. create[v].size = Requested[v] /\ \A x \in Drives : v \notin drive[x].volumes
  BY <1>q DEF QuietVolume, CreateKnows, ExactVolume
<1>2. d \in drives
  BY <1>q, <1>1, CopyExists
<1>3. Requested[v] <= drive[d].free /\ ClaimOf[v] \notin drive[d].claims
  BY <1>1 DEF DriveInv, CopiesTrue, CreateCopyTrue, Admits
<1>4. \A w \in drive[d].volumes : ClaimOf[w] # ClaimOf[v] \/ ClaimOf[v] = NoClaim
  <2>1. drive[d].claims = {ClaimOf[w] : w \in drive[d].volumes} \ {NoClaim}
    BY <1>1 DEF DriveInv, SafeDrives, SafeDrive
  <2> QED
    BY <1>3, <2>1
<1>5. UNCHANGED drives
  BY DEF WriteDrive, Reserved
<1>6. drive' = [drive EXCEPT ![d] = Reserved(d, v, Requested[v])] /\ drive \in [Drives -> DriveObject]
  BY <1>1 DEF WriteDrive, DriveInv, TypeOK, DriveTypes
<1>7. \A x \in Drives :
        /\ drive'[x].volumes = IF x = d THEN drive[d].volumes \cup {v} ELSE drive[x].volumes
        /\ drive'[x].free = IF x = d THEN drive[d].free - Requested[v] ELSE drive[x].free
  BY <1>6 DEF Reserved
<1>8. [x \in Drives |-> drive'[x].volumes]
        = [[x \in Drives |-> drive[x].volumes] EXCEPT ![d] = @ \cup {v}]
  BY <1>1, <1>7
<1>9. [x \in Drives |-> drive'[x].free]
        = [[x \in Drives |-> drive[x].free] EXCEPT ![d] = @ - Requested[v]]
  BY <1>1, <1>7
<1> QED
  BY <1>1, <1>2, <1>3, <1>4, <1>5, <1>8, <1>9 DEF Allocator!Place

\* A release is a withdrawal: the drive lists the volume and gets back its size.
LEMMA ReleaseIsWithdraw ==
  ASSUME DriveInv, QuietInv, ExactInv, NEW v \in Volumes, NEW d \in Drives,
         release[v].pc = "updateDrive", release[v].drive = d,
         <<"release", v>> \in driveCopies[d], WriteDrive(d, Released(d, v, release[v].size))
  PROVE  Allocator!Withdraw(v, d)
<1>1. release[v].size = Requested[v]
  BY DEF ExactInv, ExactVolume
<1>2. v \in drive[d].volumes
  BY <1>1 DEF DriveInv, CopiesTrue, ReleaseCopyTrue
<1>3. drive' = [drive EXCEPT ![d] = Released(d, v, Requested[v])] /\ drive \in [Drives -> DriveObject]
  BY <1>1 DEF WriteDrive, DriveInv, TypeOK, DriveTypes
<1>4. \A x \in Drives :
        /\ drive'[x].volumes = IF x = d THEN drive[d].volumes \ {v} ELSE drive[x].volumes
        /\ drive'[x].free = IF x = d THEN drive[d].free + Requested[v] ELSE drive[x].free
  BY <1>3 DEF Released
<1>5. UNCHANGED drives \/ (drive[d].volumes = {v} /\ drives' = drives \ {d})
  BY <1>2 DEF WriteDrive, Released
<1>6. [x \in Drives |-> drive'[x].volumes]
        = [[x \in Drives |-> drive[x].volumes] EXCEPT ![d] = @ \ {v}]
  BY <1>1, <1>4
<1>7. [x \in Drives |-> drive'[x].free]
        = [[x \in Drives |-> drive[x].free] EXCEPT ![d] = @ + Requested[v]]
  BY <1>1, <1>4
<1> QED
  BY <1>1, <1>2, <1>5, <1>6, <1>7 DEF Allocator!Withdraw

\* A step of a volume is a placement, a withdrawal or invisible to the allocator.
LEMMA VolumeRefines ==
  ASSUME ~LateWrites, FixedSizes, DriveInv, QuietInv, ExactInv, NEW v \in Volumes, VolumeStep(v)
  PROVE  Allocator!Next \/ UNCHANGED Allocator!vars
<1>1. CASE UNCHANGED <<drives, drive>>
  BY <1>1, AllocatorStutters
<1>2. ~LateStep(v) /\ ~ExpandStep(v)
  BY DEF LateStep, TimeoutCreate, LateReserve, QuietInv, QuietVolume, ExpandStep, FixedSizes,
         ExpandGetDrive, ExpandUpdateDrive, ExactInv, ExactVolume
<1>3. CASE Claim(v) \/ NodeStep(v) \/ DeleteStep(v) \/ CleanStep(v) \/ FaultStep(v)
  <2>1. UNCHANGED <<drives, drive>>
    BY <1>3 DEF Claim, claimFrame, NodeStep, NodeStageVolume, NodeUnstageVolume, NodeExpandVolume,
                WriteVolume, DeleteStep, DeleteVolume, DeleteUnprotect, DeleteObject,
                destroyFrame, CleanStep, CleanVolume, CleanUnprotect, CleanDelete, cleanFrame,
                FaultStep, AbortCreate, AbortDelete, AbortExpand, AbortRelease, AbortClean,
                driveObjects, driveVars
  <2> QED
    BY <1>1, <2>1
<1>4. CASE CreateStep(v)
  <2>1. \/ UNCHANGED <<drives, drive>>
        \/ /\ create[v].pc = "reserve" /\ create[v].mode = "add"
           /\ <<"create", v>> \in driveCopies[create[v].drive]
           /\ WriteDrive(create[v].drive, Reserved(create[v].drive, v, create[v].size))
    BY <1>4 DEF CreateStep, CreateVolume, CreateVolumeObject, GetVolumeObject, UpdateVolumeObject,
                ReserveDrive, driveObjects, driveVars
  <2>2. CASE ~UNCHANGED <<drives, drive>>
    <3>1. PICK d \in Drives : d = create[v].drive
      BY <2>1, <2>2 DEF QuietInv, QuietVolume, PlacedVolume
    <3>2. Allocator!Place(v, d)
      BY <2>1, <2>2, <3>1, ReserveIsPlace
    <3> QED
      BY <3>2 DEF Allocator!Next
  <2> QED
    BY <1>1, <2>2
<1>5. CASE ReleaseStep(v)
  <2>1. \/ UNCHANGED <<drives, drive>>
        \/ /\ release[v].pc = "updateDrive"
           /\ <<"release", v>> \in driveCopies[release[v].drive]
           /\ WriteDrive(release[v].drive, Released(release[v].drive, v, release[v].size))
    BY <1>5 DEF ReleaseStep, ReleaseVolume, ReleaseGetDrive, ReleaseUpdateDrive, ReleasePurge,
                driveObjects, driveVars
  <2>2. CASE ~UNCHANGED <<drives, drive>>
    <3>1. PICK d \in Drives : d = release[v].drive
      BY <2>1, <2>2 DEF QuietInv, QuietVolume, PlacedVolume
    <3>2. Allocator!Withdraw(v, d)
      BY <2>1, <2>2, <3>1, ReleaseIsWithdraw
    <3> QED
      BY <3>2 DEF Allocator!Next
  <2> QED
    BY <1>1, <2>2
<1> QED
  BY <1>2, <1>3, <1>4, <1>5 DEF VolumeStep

\* A command of a drive retires an empty drive or is invisible to the allocator.
LEMMA CommandRefines ==
  ASSUME TypeOK, NEW x \in Drives, DriveStep(x)
  PROVE  Allocator!Next \/ UNCHANGED Allocator!vars
<1>1. \A d \in Drives : drive'[d].volumes = drive[d].volumes /\ drive'[d].free = drive[d].free
  BY CommandChanges
<1>2. UNCHANGED drives \/ (drives' = drives \ {x} /\ drive[x].volumes = {})
  BY DEF DriveStep, Cordon, Uncordon, RemoveDrive, RemoveFinalizers, DeleteDrive, AbortRemove,
         SetIOError, Repair, SetStatus
<1>3. CASE drives' = drives \ {x} /\ drive[x].volumes = {}
  <2>1. Allocator!Retire(x)
    BY <1>1, <1>3 DEF Allocator!Retire
  <2> QED
    BY <2>1 DEF Allocator!Next
<1> QED
  BY <1>1, <1>2, <1>3, AllocatorStutters

\* The concurrent handlers, with their stale copies, retries, crashes and whatever
\* happens to the drives, implement the atomic allocator of Placement, when sizes are
\* fixed, no drive Update lands late and clean is quiet.
THEOREM PlacementImplemented ==
  ASSUME QuietClean, ~LateWrites, FixedSizes
  PROVE  Spec => ImplementsPlacement
<1>1. Init => Allocator!Init
  <2> SUFFICES ASSUME Init PROVE Allocator!Init
    OBVIOUS
  <2>1. \A d \in Drives : drive[d].volumes = {} /\ drive[d].free = Usable[d]
    BY DEF Init
  <2>2. [d \in Drives |-> drive[d].free] = Usable
    BY <2>1, ProvisioningAssumption
  <2> QED
    BY <2>1, <2>2 DEF Init, Allocator!Init
<1>2. DriveInv /\ QuietInv /\ ExactInv /\ [Next]_vars => [Allocator!Next]_(Allocator!vars)
  <2> SUFFICES ASSUME DriveInv, QuietInv, ExactInv, [Next]_vars
               PROVE  Allocator!Next \/ UNCHANGED Allocator!vars
    OBVIOUS
  <2>1. CASE UNCHANGED vars
    BY <2>1, AllocatorStutters DEF vars, driveVars
  <2> QED
    BY <2>1, VolumeRefines, CommandRefines DEF Next, VolumeStep, DriveInv
<1> QED
  BY <1>1, <1>2, DriveInvariant, QuietInvariant, ExactInvariant, PTL
     DEF Spec, ImplementsPlacement, Allocator!Spec
-----------------------------------------------------------------------------
(* Volumes are backed, whatever happens *)

\* No copy of a drive for volume w becomes current.
CopiesShrink(w) ==
  \A d \in Drives, op \in {"create", "late"} : Reads(op, d, w)' => Reads(op, d, w)

\* Readers of two volumes are different readers.
LEMMA OthersCopies ==
  ASSUME TypeOK, NEW v \in Volumes, VolumeStep(v), NEW w \in Volumes, w # v
  PROVE  CopiesShrink(w)
<1> DEFINE Mine(d) == \A h \in driveCopies'[d] : h \in driveCopies[d] \/ h[2] = v
<1> SUFFICES \A d \in Drives : Mine(d)
  BY DEF CopiesShrink, Reads
<1>w. ASSUME NEW d, NEW new, WriteDrive(d, new) PROVE \A x \in Drives : Mine(x)
  BY <1>w DEF WriteDrive, TypeOK, DriveTypes
<1>r. ASSUME NEW d, NEW op, ReadDrive(<<op, v>>, d) PROVE \A x \in Drives : Mine(x)
  BY <1>r DEF ReadDrive, TypeOK, DriveTypes
<1>d. ASSUME NEW d, NEW op, DropDrive(<<op, v>>, d) PROVE \A x \in Drives : Mine(x)
  BY <1>d DEF DropDrive, TypeOK, DriveTypes
<1>u. ASSUME UNCHANGED driveCopies PROVE \A x \in Drives : Mine(x)
  BY <1>u
<1>1. CASE Claim(v) \/ NodeStep(v) \/ DeleteStep(v) \/ CleanStep(v) \/ AbortDelete(v)
             \/ AbortClean(v)
  <2>1. UNCHANGED driveCopies
    BY <1>1 DEF Claim, claimFrame, NodeStep, NodeStageVolume, NodeUnstageVolume, NodeExpandVolume,
                WriteVolume, DeleteStep, DeleteVolume, DeleteUnprotect, DeleteObject, AbortDelete,
                destroyFrame, CleanStep, CleanVolume, CleanUnprotect, CleanDelete, AbortClean,
                cleanFrame, driveVars
  <2> QED
    BY <1>u, <2>1
<1>2. CASE CreateStep(v) \/ AbortCreate(v)
  <2>1. \/ UNCHANGED driveCopies
        \/ \E d : ReadDrive(<<"create", v>>, d)
        \/ DropDrive(<<"create", v>>, create[v].drive)
        \/ WriteDrive(create[v].drive, Reserved(create[v].drive, v, create[v].size))
    BY <1>2 DEF CreateStep, CreateVolume, CreateVolumeObject, GetVolumeObject, UpdateVolumeObject,
                ReserveDrive, AbortCreate, EndCreate, driveVars
  <2> QED
    BY <1>w, <1>r, <1>d, <1>u, <2>1
<1>3. CASE TimeoutCreate(v)
  BY <1>3 DEF TimeoutCreate, TypeOK, DriveTypes
<1>4. CASE LateReserve(v)
  BY <1>w, <1>u, <1>4 DEF LateReserve, driveVars
<1>5. CASE ExpandStep(v) \/ AbortExpand(v)
  <2>1. \/ UNCHANGED driveCopies
        \/ ReadDrive(<<"expand", v>>, expand[v].drive)
        \/ DropDrive(<<"expand", v>>, expand[v].drive)
        \/ WriteDrive(expand[v].drive, Expanded(expand[v].drive, expand[v].need))
    BY <1>5 DEF ExpandStep, ControllerExpandVolume, ExpandGetDrive, ExpandUpdateDrive,
                AbortExpand, EndExpand, driveVars
  <2> QED
    BY <1>w, <1>r, <1>d, <1>u, <2>1
<1>6. CASE ReleaseStep(v) \/ AbortRelease(v)
  <2>1. \/ UNCHANGED driveCopies
        \/ ReadDrive(<<"release", v>>, release[v].drive)
        \/ DropDrive(<<"release", v>>, release[v].drive)
        \/ WriteDrive(release[v].drive, Released(release[v].drive, v, release[v].size))
    BY <1>6 DEF ReleaseStep, ReleaseVolume, ReleaseGetDrive, ReleaseUpdateDrive, ReleasePurge,
                AbortRelease, EndRelease, driveVars
  <2> QED
    BY <1>w, <1>r, <1>d, <1>u, <2>1
<1> QED
  BY <1>1, <1>2, <1>3, <1>4, <1>5, <1>6 DEF VolumeStep, FaultStep, LateStep

\* What nobody touches stays backed.
LEMMA BackedStays ==
  ASSUME NEW w \in Volumes, BackedVolume(w), Untouched(w), CopiesShrink(w)
  PROVE  BackedVolume(w)'
<1> USE DEF BackedVolume
<1>1. PlacedVolume(w)'
  BY DEF PlacedVolume, Untouched, Home
<1>2. SizeKnown(w)'
  BY DEF SizeKnown, Untouched, Home
<1>3. ExpandKnown(w)'
  BY DEF ExpandKnown, Untouched, Home
<1>4. ASSUME NEW d \in Drives PROVE LateKnown(d, w)'
  BY DEF LateKnown, Untouched, CopiesShrink, Home
<1>5. ASSUME NEW d \in Drives PROVE ListedBacked(d, w)'
  BY DEF ListedBacked, Untouched, CopiesShrink, Home
<1> QED
  BY <1>1, <1>2, <1>3, <1>4, <1>5
\* The numbers of a volume.
LEMMA BackedTypes ==
  ASSUME Sized, DriveInv, NEW v \in Volumes
  PROVE  /\ Requested[v] \in Nat /\ granted[v] \in Nat
         /\ volume[v].total \in Nat /\ create[v].size \in Nat /\ release[v].size \in Nat
         /\ late[v].size \in Int /\ expand[v].need \in Int /\ expand[v].goal \in Nat
         /\ \A d \in Drives : debit[d][v] \in Int
<1>1. Requested[v] \in Nat
  BY ProvisioningAssumption DEF Sized
<1>2. /\ volume[v].total \in Int /\ create[v].size \in Int /\ release[v].size \in Int
      /\ late[v].size \in Int /\ expand[v].need \in Int /\ expand[v].goal \in Nat
  BY DEF DriveInv, TypeOK, VolumeTypes, HandlerTypes, VolumeObject, CreateOp, LateOp, ExpandOp,
         ReleaseOp
<1>3. volume[v].total >= 0 /\ create[v].size >= 0 /\ release[v].size >= 0
  BY DEF DriveInv, SizesTrue
<1>4. granted[v] \in Nat /\ \A d \in Drives : debit[d][v] \in Int
  BY DEF DriveInv, TypeOK
<1> QED
  BY <1>1, <1>2, <1>3, <1>4

\* CreateVolume selects a drive for the requested size.
LEMMA BackedSelect ==
  ASSUME Sized, DriveInv, BackedInv, NEW v \in Volumes, CreateVolume(v)
  PROVE  BackedVolume(v)'
<1>q. BackedVolume(v)
  BY DEF BackedInv
<1>1. PICK d \in selectDrive(v) :
        /\ create' = [create EXCEPT ![v] =
             [pc |-> "create", mode |-> IF v \in drive[d].volumes THEN "found" ELSE "add",
              drive |-> d,
              size |-> IF Requested[v] = NoRange THEN drive[d].free ELSE Requested[v]]]
        /\ ReadDrive(<<"create", v>>, d)
  BY DEF CreateVolume
<1>2. d \in Drives
  BY DEF selectDrive, getFilteredDrives, DriveInv, TypeOK, DriveTypes
<1>3. /\ create'[v].pc = "create" /\ create'[v].drive = d /\ create'[v].size = Requested[v]
      /\ create'[v].mode = IF v \in drive[d].volumes THEN "found" ELSE "add"
  BY <1>1 DEF Sized, DriveInv, TypeOK, HandlerTypes
<1>4. /\ claim[v] = "pending"
      /\ UNCHANGED <<drive, volumes, volume, late, destroy, expand, release, claim, granted, debit>>
  BY DEF CreateVolume, driveObjects, volumeVars
<1>5. \A x \in Drives : Reads("late", x, v)' <=> Reads("late", x, v)
  BY <1>1 DEF ReadDrive, Reads, DriveInv, TypeOK, DriveTypes
<1>6. PlacedVolume(v)'
  BY <1>q, <1>2, <1>3, <1>4 DEF BackedVolume, PlacedVolume, Home
<1>7. SizeKnown(v)'
  BY <1>q, <1>3, <1>4 DEF BackedVolume, SizeKnown, Home
<1>8. ExpandKnown(v)'
  BY <1>q, <1>4 DEF BackedVolume, ExpandKnown, Home
<1>9. ASSUME NEW x \in Drives PROVE LateKnown(x, v)'
  BY <1>q, <1>3, <1>4, <1>5 DEF BackedVolume, LateKnown, Home
<1>10. ASSUME NEW x \in Drives PROVE ListedBacked(x, v)'
  BY <1>q, <1>3, <1>4 DEF BackedVolume, ListedBacked, Home
<1> QED
  BY <1>6, <1>7, <1>8, <1>9, <1>10 DEF BackedVolume

\* The attempt ends without having changed anything else.
LEMMA BackedEndCreate ==
  ASSUME DriveInv, NEW v \in Volumes, BackedVolume(v), create' = [create EXCEPT ![v] = NoCreate],
         \A x \in Drives : Reads("late", x, v)' => Reads("late", x, v),
         UNCHANGED <<drive, volumes, volume, late, destroy, expand, release, claim, granted, debit>>
  PROVE  BackedVolume(v)'
<1>1. create'[v].pc = "idle"
  BY DEF DriveInv, TypeOK, HandlerTypes, NoCreate
<1>2. PlacedVolume(v)' /\ SizeKnown(v)' /\ ExpandKnown(v)'
  BY <1>1 DEF BackedVolume, PlacedVolume, SizeKnown, ExpandKnown, Home
<1>3. ASSUME NEW x \in Drives PROVE LateKnown(x, v)'
  BY <1>1 DEF BackedVolume, LateKnown, Home
<1>4. ASSUME NEW x \in Drives PROVE ListedBacked(x, v)'
  BY <1>1 DEF BackedVolume, ListedBacked, Home
<1> QED
  BY <1>2, <1>3, <1>4 DEF BackedVolume

\* Dropping a copy makes none current.
LEMMA DropReads ==
  ASSUME TypeOK, NEW d, NEW g, DropDrive(g, d) \/ UNCHANGED driveCopies, NEW v, NEW op
  PROVE  \A x \in Drives : Reads(op, x, v)' => Reads(op, x, v)
  BY DEF TypeOK, DriveTypes, DropDrive, Reads

\* The volume object gets the requested size, on the selected drive.
LEMMA BackedObject ==
  ASSUME Sized, DriveInv, BackedInv, NEW v \in Volumes,
         \/ CreateVolumeObject(v) \/ GetVolumeObject(v) \/ UpdateVolumeObject(v)
         \/ AbortCreate(v)
  PROVE  BackedVolume(v)'
<1>q. BackedVolume(v)
  BY DEF BackedInv
<1>t. create \in [Volumes -> CreateOp] /\ volume \in [Volumes -> VolumeObject]
  BY DEF DriveInv, TypeOK, HandlerTypes, VolumeTypes
<1>1. /\ create[v].pc # "idle" /\ claim[v] = "pending" /\ create[v].drive \in Drives
      /\ create[v].size = Requested[v] /\ granted[v] = 0 /\ expand[v].pc = "idle"
  BY <1>q DEF CreateVolumeObject, GetVolumeObject, UpdateVolumeObject, AbortCreate, BackedVolume,
              SizeKnown, PlacedVolume
<1>2. UNCHANGED <<drive, late, destroy, expand, release, claim, granted, debit>>
  BY DEF CreateVolumeObject, GetVolumeObject, UpdateVolumeObject, AbortCreate, driveObjects,
         driveVars, createFrame
<1>3. \A x \in Drives, op \in {"create", "late"} : Reads(op, x, v)' => Reads(op, x, v)
  <2>1. DropDrive(<<"create", v>>, create[v].drive) \/ UNCHANGED driveCopies
    BY DEF CreateVolumeObject, GetVolumeObject, UpdateVolumeObject, AbortCreate, EndCreate,
           driveVars
  <2> QED
    BY <2>1, DropReads DEF DriveInv
<1>4. CASE create' = [create EXCEPT ![v] = NoCreate] /\ UNCHANGED <<volumes, volume>>
  BY <1>q, <1>2, <1>3, <1>4, BackedEndCreate
<1>5. CASE \E p \in {"get", "update", "reserve"} :
             /\ create' = [create EXCEPT ![v].pc = p]
             /\ \/ p # "reserve" /\ UNCHANGED <<volumes, volume>>
                \/ volume' = [volume EXCEPT ![v] = NewVolume(v)]
  <2>1. /\ create'[v].pc # "idle" /\ create'[v].mode = create[v].mode
        /\ create'[v].drive = create[v].drive /\ create'[v].size = create[v].size
    BY <1>5, <1>t DEF CreateOp
  <2>2. \/ UNCHANGED <<volumes, volume>> /\ create'[v].pc # "reserve"
        \/ Home(v)' = create[v].drive /\ volume'[v].total = Requested[v]
    BY <1>1, <1>5, <1>t DEF Home, NewVolume, CreateOp
  <2>3. PlacedVolume(v)'
    BY <1>q, <1>1, <1>2, <2>1, <2>2 DEF BackedVolume, PlacedVolume, Home
  <2>4. SizeKnown(v)'
    BY <1>q, <1>1, <1>2, <2>1, <2>2 DEF BackedVolume, SizeKnown, Home
  <2>5. ExpandKnown(v)'
    BY <1>1, <1>2 DEF ExpandKnown
  <2>6. ASSUME NEW x \in Drives PROVE LateKnown(x, v)'
    BY <1>q, <1>1, <1>2, <1>3, <2>1 DEF BackedVolume, LateKnown
  <2>7. ASSUME NEW x \in Drives PROVE ListedBacked(x, v)'
    <3>1. v \in volumes' => volume'[v].total = Requested[v] \/ UNCHANGED <<volumes, volume>>
      BY <2>2
    <3> QED
      BY <1>q, <1>1, <1>2, <1>3, <2>1, <3>1, BackedTypes DEF BackedVolume, ListedBacked, Home
  <2> QED
    BY <2>3, <2>4, <2>5, <2>6, <2>7 DEF BackedVolume
<1>6. CASE CreateVolumeObject(v)
  BY <1>5, <1>6 DEF CreateVolumeObject, volumeVars
<1>7. CASE GetVolumeObject(v) \/ AbortCreate(v)
  BY <1>4, <1>5, <1>7 DEF GetVolumeObject, AbortCreate, EndCreate
<1>8. CASE UpdateVolumeObject(v)
  BY <1>4, <1>5, <1>8 DEF UpdateVolumeObject, EndCreate
<1> QED
  BY <1>6, <1>7, <1>8

\* A write of drive d with a reservation of volume v.
LEMMA ReservedEffect ==
  ASSUME TypeOK, NEW v \in Volumes, NEW d \in Drives, NEW size,
         WriteDrive(d, Reserved(d, v, size)), Debit(d, v, size)
  PROVE  /\ \A x \in Drives : v \in drive'[x].volumes <=> x = d \/ v \in drive[x].volumes
         /\ \A x \in Drives : debit'[x][v] = IF x = d THEN debit[d][v] + size ELSE debit[x][v]
         /\ \A x \in Drives : \A op : Reads(op, x, v)' <=> x # d /\ Reads(op, x, v)
<1>1. \A x \in Drives : v \in drive'[x].volumes <=> x = d \/ v \in drive[x].volumes
  BY DEF WriteDrive, Reserved, TypeOK, DriveTypes
<1>2. \A x \in Drives : debit'[x][v] = IF x = d THEN debit[d][v] + size ELSE debit[x][v]
  BY DEF Debit, TypeOK
<1>3. \A x \in Drives : \A op : Reads(op, x, v)' <=> x # d /\ Reads(op, x, v)
  BY DEF WriteDrive, Reads, TypeOK, DriveTypes
<1> QED
  BY <1>1, <1>2, <1>3

\* The reservation takes the size that the volume has.
LEMMA BackedReserve ==
  ASSUME Sized, DriveInv, BackedInv, NEW v \in Volumes, ReserveDrive(v)
  PROVE  BackedVolume(v)'
<1>q. BackedVolume(v)
  BY DEF BackedInv
<1> DEFINE d == create[v].drive
<1>1. /\ create[v].pc = "reserve" /\ claim[v] = "pending" /\ d \in Drives
      /\ create[v].size = Requested[v] /\ granted[v] = 0 /\ expand[v].pc = "idle"
      /\ v \in volumes => Home(v) = d /\ volume[v].total = Requested[v]
  BY <1>q DEF ReserveDrive, BackedVolume, SizeKnown, PlacedVolume
<1>2. /\ UNCHANGED <<volumes, volume, late, destroy, expand, release, granted>>
      /\ create'[v].pc = "idle" /\ create' = [create EXCEPT ![v] = NoCreate]
  BY DEF ReserveDrive, volumeVars, createFrame, DriveInv, TypeOK, HandlerTypes, NoCreate
<1>3. claim'[v] \in {"pending", "provisioned"}
  BY <1>1 DEF ReserveDrive, AnswerCreate, DriveInv, TypeOK
<1>4. PlacedVolume(v)' /\ ExpandKnown(v)'
  BY <1>q, <1>1, <1>2 DEF BackedVolume, PlacedVolume, ExpandKnown, Home
<1>5. SizeKnown(v)'
  BY <1>q, <1>1, <1>2, <1>3 DEF BackedVolume, SizeKnown, Home
<1>6. CASE create[v].mode = "found"
  <2>1. UNCHANGED <<drive, debit>> /\ DropDrive(<<"create", v>>, d)
    BY <1>6 DEF ReserveDrive, driveObjects
  <2>2. \A x \in Drives : Reads("late", x, v)' => Reads("late", x, v)
    BY <2>1, DropReads DEF DriveInv
  <2>3. ASSUME NEW x \in Drives PROVE LateKnown(x, v)'
    BY <1>q, <1>1, <1>2, <1>6, <2>1, <2>2 DEF BackedVolume, LateKnown, Home
  <2>4. ASSUME NEW x \in Drives PROVE ListedBacked(x, v)'
    BY <1>q, <1>1, <1>2, <2>1 DEF BackedVolume, ListedBacked, Home
  <2> QED
    BY <1>4, <1>5, <2>3, <2>4 DEF BackedVolume
<1>7. CASE create[v].mode = "add" /\ <<"create", v>> \in driveCopies[d]
  <2>1. /\ \A x \in Drives : v \in drive'[x].volumes <=> x = d \/ v \in drive[x].volumes
        /\ \A x \in Drives :
             debit'[x][v] = IF x = d THEN debit[d][v] + Requested[v] ELSE debit[x][v]
        /\ \A x \in Drives : \A op : Reads(op, x, v)' <=> x # d /\ Reads(op, x, v)
    BY <1>1, <1>7, ReservedEffect DEF ReserveDrive, DriveInv
  <2>2. ASSUME NEW x \in Drives PROVE LateKnown(x, v)'
    BY <1>q, <1>1, <1>2, <2>1 DEF BackedVolume, LateKnown, Home
  <2>3. ASSUME NEW x \in Drives PROVE ListedBacked(x, v)'
    <3>1. debit'[x][v] >= debit[x][v] /\ debit'[x][v] \in Int /\ debit[x][v] >= 0
          /\ (x = d => debit'[x][v] >= Requested[v])
      BY <1>q, <2>1, BackedTypes DEF BackedVolume, ListedBacked
    <3>2. release[v].pc # "idle" => release[v].size = Requested[v]
      BY <1>q, <1>1 DEF BackedVolume, SizeKnown
    <3> QED
      BY <1>q, <1>1, <1>2, <2>1, <3>1, <3>2, BackedTypes DEF BackedVolume, ListedBacked, Home
  <2> QED
    BY <1>4, <1>5, <2>2, <2>3 DEF BackedVolume
<1>8. CASE create[v].mode = "add" /\ <<"create", v>> \notin driveCopies[d]
  <2>1. UNCHANGED <<drive, driveCopies, claim, debit>>
    BY <1>8 DEF ReserveDrive, driveVars
  <2> QED
    BY <1>q, <1>2, <2>1, BackedEndCreate DEF Reads
<1> QED
  BY <1>6, <1>7, <1>8 DEF ReserveDrive
\* CreateVolume times out while its Update is on the way.
LEMMA BackedTimeout ==
  ASSUME Sized, DriveInv, BackedInv, NEW v \in Volumes, TimeoutCreate(v)
  PROVE  BackedVolume(v)'
<1>q. BackedVolume(v)
  BY DEF BackedInv
<1> DEFINE d == create[v].drive
<1>1. /\ create[v].pc = "reserve" /\ create[v].mode = "add" /\ claim[v] = "pending" /\ d \in Drives
      /\ create[v].size = Requested[v] /\ granted[v] = 0 /\ expand[v].pc = "idle"
  BY <1>q DEF TimeoutCreate, BackedVolume, SizeKnown, PlacedVolume
<1>2. /\ UNCHANGED <<drive, volumes, volume, destroy, expand, release, claim, granted, debit>>
      /\ create'[v].pc = "idle" /\ late'[v].drive = d /\ late'[v].size = create[v].size
  BY DEF TimeoutCreate, driveObjects, volumeVars, DriveInv, TypeOK, HandlerTypes, NoCreate
<1>3. \A x \in Drives : Reads("late", x, v)' => x = d /\ Reads("create", d, v)
  <2>1. \A x \in Drives : ~Reads("late", x, v)
    BY DEF TimeoutCreate, Reads, DriveInv, CopiesTrue, LateCopyTrue
  <2> QED
    BY <1>1, <2>1 DEF TimeoutCreate, Reads, DriveInv, TypeOK, DriveTypes
<1>4. PlacedVolume(v)' /\ ExpandKnown(v)' /\ SizeKnown(v)'
  BY <1>q, <1>1, <1>2 DEF BackedVolume, PlacedVolume, ExpandKnown, SizeKnown, Home
<1>5. ASSUME NEW x \in Drives PROVE LateKnown(x, v)'
  <2>1. Reads("late", x, v)' => v \notin drive[x].volumes
    BY <1>q, <1>1, <1>3 DEF BackedVolume, ListedBacked
  <2>2. release[v].pc # "idle" => release[v].size = Requested[v]
    BY <1>q, <1>1 DEF BackedVolume, SizeKnown
  <2> QED
    BY <1>1, <1>2, <2>1, <2>2 DEF LateKnown, Home
<1>6. ASSUME NEW x \in Drives PROVE ListedBacked(x, v)'
  BY <1>q, <1>2 DEF BackedVolume, ListedBacked, Home
<1> QED
  BY <1>4, <1>5, <1>6 DEF BackedVolume

\* That Update lands: the volume, if it lives there, has the requested size still.
LEMMA BackedLate ==
  ASSUME Sized, DriveInv, BackedInv, NEW v \in Volumes, LateReserve(v)
  PROVE  BackedVolume(v)'
<1>q. BackedVolume(v)
  BY DEF BackedInv
<1> DEFINE d == late[v].drive
<1>1. late[v].pc = "sent" /\ d \in Drives
  BY <1>q DEF LateReserve, BackedVolume, PlacedVolume
<1>2. /\ UNCHANGED <<volumes, volume, create, destroy, expand, release, claim, granted>>
      /\ late'[v].pc = "idle"
  BY DEF LateReserve, volumeVars, DriveInv, TypeOK, HandlerTypes, NoLate
<1>3. PlacedVolume(v)' /\ ExpandKnown(v)' /\ SizeKnown(v)'
  BY <1>q, <1>2 DEF BackedVolume, PlacedVolume, ExpandKnown, SizeKnown, Home
<1>4. CASE Reads("late", d, v)
  <2>1. late[v].size = Requested[v]
    BY <1>q, <1>1, <1>4 DEF BackedVolume, LateKnown
  <2>2. /\ \A x \in Drives : v \in drive'[x].volumes <=> x = d \/ v \in drive[x].volumes
        /\ \A x \in Drives :
             debit'[x][v] = IF x = d THEN debit[d][v] + Requested[v] ELSE debit[x][v]
        /\ \A x \in Drives : \A op : Reads(op, x, v)' <=> x # d /\ Reads(op, x, v)
    BY <1>1, <1>4, <2>1, ReservedEffect DEF LateReserve, DriveInv, Reads
  <2>3. \A x \in Drives : ~Reads("late", x, v)'
    BY <2>2 DEF DriveInv, CopiesTrue, LateCopyTrue, Reads
  <2>4. ASSUME NEW x \in Drives PROVE ListedBacked(x, v)'
    <3>1. debit'[x][v] >= debit[x][v] /\ debit'[x][v] \in Int /\ debit[x][v] >= 0
          /\ (x = d => debit'[x][v] >= Requested[v])
      BY <1>q, <2>2, BackedTypes DEF BackedVolume, ListedBacked
    <3>2. /\ v \in volumes /\ Home(v) = d => granted[v] = 0 /\ volume[v].total = Requested[v]
          /\ release[v].pc # "idle" /\ release[v].drive = d => release[v].size = Requested[v]
      BY <1>q, <1>1, <1>4 DEF BackedVolume, LateKnown, SizeKnown
    <3> QED
      BY <1>q, <1>2, <2>2, <3>1, <3>2, BackedTypes DEF BackedVolume, ListedBacked, Home
  <2>5. ASSUME NEW x \in Drives PROVE LateKnown(x, v)'
    BY <2>3 DEF LateKnown
  <2> QED
    BY <1>3, <2>4, <2>5 DEF BackedVolume
<1>5. CASE ~Reads("late", d, v)
  <2>1. UNCHANGED <<drive, driveCopies, debit>>
    BY <1>5 DEF LateReserve, Reads, driveVars
  <2>2. ASSUME NEW x \in Drives PROVE LateKnown(x, v)'
    BY <1>5, <2>1 DEF DriveInv, CopiesTrue, LateCopyTrue, Reads, LateKnown
  <2>3. ASSUME NEW x \in Drives PROVE ListedBacked(x, v)'
    BY <1>q, <1>2, <2>1 DEF BackedVolume, ListedBacked, Reads, Home
  <2> QED
    BY <1>3, <2>2, <2>3 DEF BackedVolume
<1> QED
  BY <1>4, <1>5

\* The volume controller gives back no more than was taken for the volume.
LEMMA BackedRelease ==
  ASSUME Sized, DriveInv, BackedInv, NEW v \in Volumes, ReleaseStep(v) \/ AbortRelease(v)
  PROVE  BackedVolume(v)'
<1>q. BackedVolume(v)
  BY DEF BackedInv
<1> DEFINE d == release[v].drive
<1>t. release \in [Volumes -> ReleaseOp] /\ volume \in [Volumes -> VolumeObject]
  BY DEF DriveInv, TypeOK, HandlerTypes, VolumeTypes
<1>u. UNCHANGED <<create, late, destroy, expand, claim, granted>>
  BY DEF ReleaseStep, ReleaseVolume, ReleaseGetDrive, ReleaseUpdateDrive, ReleasePurge,
         AbortRelease, releaseFrame
<1>r. ASSUME NEW x \in Drives, NEW op \in {"create", "late"}, Reads(op, x, v)'
      PROVE  Reads(op, x, v) /\ drive'[x] = drive[x]
  <2>1. <<op, v>> \in DriveReaders /\ <<op, v>> # <<"release", v>>
    BY DEF DriveReaders
  <2>2. CASE ReadDrive(<<"release", v>>, d) /\ UNCHANGED drive
    BY <1>r, <2>1, <2>2, ReadKeeps DEF DriveInv, Kept, Reads
  <2>3. CASE (DropDrive(<<"release", v>>, d) \/ UNCHANGED driveCopies) /\ UNCHANGED drive
    BY <1>r, <2>1, <2>3, DropKeeps DEF DriveInv, Kept, Reads
  <2>4. CASE WriteDrive(d, Released(d, v, release[v].size))
    BY <1>r, <2>1, <2>4, WriteKeeps DEF DriveInv, Kept, Reads
  <2> QED
    BY <2>2, <2>3, <2>4 DEF ReleaseStep, ReleaseVolume, ReleaseGetDrive, ReleaseUpdateDrive,
         ReleasePurge, AbortRelease, EndRelease, driveObjects, driveVars
<1>1. CASE ReleaseVolume(v)
  <2>1. /\ release'[v].pc = "getDrive" /\ release'[v].drive = Home(v)
        /\ release'[v].size = volume[v].total /\ v \in volumes
        /\ UNCHANGED <<volumes, volume, drive, debit>>
    BY <1>1, <1>t DEF ReleaseVolume, Home, driveVars
  <2>2. PlacedVolume(v)' /\ SizeKnown(v)' /\ ExpandKnown(v)'
    BY <1>q, <1>u, <2>1 DEF BackedVolume, PlacedVolume, SizeKnown, ExpandKnown, Home
  <2>3. ASSUME NEW x \in Drives PROVE LateKnown(x, v)'
    BY <1>q, <1>u, <1>r, <2>1 DEF BackedVolume, LateKnown, SizeKnown, Home
  <2>4. ASSUME NEW x \in Drives PROVE ListedBacked(x, v)'
    BY <1>q, <1>u, <1>r, <2>1 DEF BackedVolume, ListedBacked, Home
  <2> QED
    BY <2>2, <2>3, <2>4 DEF BackedVolume
<1>2. ASSUME UNCHANGED <<drive, debit>>, UNCHANGED <<volumes, volume>> \/ v \notin volumes',
             \/ release'[v].pc = "idle"
             \/ /\ release[v].pc \in {"getDrive", "updateDrive"} /\ release'[v].pc # "idle"
                /\ release'[v].drive = d /\ release'[v].size = release[v].size
      PROVE  BackedVolume(v)'
  <2>1. PlacedVolume(v)' /\ SizeKnown(v)' /\ ExpandKnown(v)'
    BY <1>q, <1>u, <1>2 DEF BackedVolume, PlacedVolume, SizeKnown, ExpandKnown, Home
  <2>2. ASSUME NEW x \in Drives PROVE LateKnown(x, v)'
    BY <1>q, <1>u, <1>r, <1>2 DEF BackedVolume, LateKnown, Home
  <2>3. ASSUME NEW x \in Drives PROVE ListedBacked(x, v)'
    BY <1>q, <1>u, <1>r, <1>2 DEF BackedVolume, ListedBacked, Home
  <2> QED
    BY <2>1, <2>2, <2>3 DEF BackedVolume
<1>3. CASE ReleaseGetDrive(v)
  <2>1. UNCHANGED <<drive, debit, volumes, volume>>
    BY <1>3 DEF ReleaseGetDrive, driveObjects
  <2>2. \/ release'[v].pc = "idle"
        \/ /\ release[v].pc \in {"getDrive", "updateDrive"} /\ release'[v].pc # "idle"
           /\ release'[v].drive = d /\ release'[v].size = release[v].size
    BY <1>3, <1>t DEF ReleaseGetDrive, EndRelease, NoRelease, ReleaseOp
  <2> QED
    BY <1>2, <2>1, <2>2
<1>4. CASE ReleaseUpdateDrive(v) /\ ~Reads("release", d, v)
  <2>1. UNCHANGED <<drive, debit, volumes, volume>> /\ release'[v].pc = "idle"
    BY <1>4, <1>t DEF ReleaseUpdateDrive, Reads, EndRelease, NoRelease, driveObjects
  <2> QED
    BY <1>2, <2>1
<1>5. CASE ReleaseUpdateDrive(v) /\ Reads("release", d, v)
  <2>1. /\ release[v].pc = "updateDrive" /\ d \in Drives /\ v \in drive[d].volumes
        /\ debit[d][v] >= release[v].size
    BY <1>q, <1>5 DEF ReleaseUpdateDrive, Reads, BackedVolume, PlacedVolume, ListedBacked,
                      DriveInv, CopiesTrue, ReleaseCopyTrue
  <2>2. /\ WriteDrive(d, Released(d, v, release[v].size)) /\ Debit(d, v, -release[v].size)
        /\ release'[v].pc = "purge" /\ release'[v].drive = d
        /\ release'[v].size = release[v].size /\ UNCHANGED <<volumes, volume>>
    BY <1>5, <1>t DEF ReleaseUpdateDrive, Reads, ReleaseOp
  <2>3. \A x \in Drives : v \in drive'[x].volumes => x # d /\ v \in drive[x].volumes
    BY <2>2 DEF WriteDrive, Released, DriveInv, TypeOK, DriveTypes
  <2>4. \A x \in Drives :
          debit'[x][v] = IF x = d THEN debit[d][v] + -release[v].size ELSE debit[x][v]
    BY <2>2 DEF Debit, DriveInv, TypeOK
  <2>5. PlacedVolume(v)' /\ SizeKnown(v)' /\ ExpandKnown(v)'
    BY <1>q, <1>u, <2>1, <2>2 DEF BackedVolume, PlacedVolume, SizeKnown, ExpandKnown, Home
  <2>6. ASSUME NEW x \in Drives PROVE LateKnown(x, v)'
    BY <1>q, <1>u, <1>r, <2>1, <2>2 DEF BackedVolume, LateKnown, Home
  <2>7. ASSUME NEW x \in Drives PROVE ListedBacked(x, v)'
    <3>1. debit'[x][v] >= 0 /\ (x # d => debit'[x][v] = debit[x][v])
      BY <1>q, <2>1, <2>4, BackedTypes DEF BackedVolume, ListedBacked
    <3> QED
      BY <1>q, <1>u, <1>r, <2>2, <2>3, <3>1 DEF BackedVolume, ListedBacked, Home
  <2> QED
    BY <2>5, <2>6, <2>7 DEF BackedVolume
<1>6. CASE ReleasePurge(v) \/ AbortRelease(v)
  <2>1. /\ UNCHANGED <<drive, debit>> /\ (UNCHANGED <<volumes, volume>> \/ v \notin volumes')
        /\ release'[v].pc = "idle"
    BY <1>6, <1>t DEF ReleasePurge, AbortRelease, EndRelease, NoRelease, driveObjects, driveVars
  <2> QED
    BY <1>2, <2>1
<1> QED
  BY <1>1, <1>3, <1>4, <1>5, <1>6 DEF ReleaseStep
\* ControllerExpandVolume answers with a size it has taken.
LEMMA BackedExpand ==
  ASSUME Sized, DriveInv, BackedInv, NEW v \in Volumes, ExpandStep(v) \/ AbortExpand(v)
  PROVE  BackedVolume(v)'
<1>q. BackedVolume(v)
  BY DEF BackedInv
<1> DEFINE d == expand[v].drive
<1>t. expand \in [Volumes -> ExpandOp]
  BY DEF DriveInv, TypeOK, HandlerTypes
<1>u. UNCHANGED <<volumes, volume, create, late, destroy, release, claim>>
  BY DEF ExpandStep, ControllerExpandVolume, ExpandGetDrive, ExpandUpdateDrive, AbortExpand,
         expandFrame, volumeVars
<1>r. ASSUME NEW x \in Drives, NEW op \in {"create", "late"}, Reads(op, x, v)'
      PROVE  Reads(op, x, v) /\ drive'[x] = drive[x]
  <2>1. <<op, v>> \in DriveReaders /\ <<op, v>> # <<"expand", v>>
    BY DEF DriveReaders
  <2>2. CASE ReadDrive(<<"expand", v>>, d) /\ UNCHANGED drive
    BY <1>r, <2>1, <2>2, ReadKeeps DEF DriveInv, Kept, Reads
  <2>3. CASE (DropDrive(<<"expand", v>>, d) \/ UNCHANGED driveCopies) /\ UNCHANGED drive
    BY <1>r, <2>1, <2>3, DropKeeps DEF DriveInv, Kept, Reads
  <2>4. CASE WriteDrive(d, Expanded(d, expand[v].need))
    BY <1>r, <2>1, <2>4, WriteKeeps DEF DriveInv, Kept, Reads
  <2> QED
    BY <2>2, <2>3, <2>4 DEF ExpandStep, ControllerExpandVolume, ExpandGetDrive, ExpandUpdateDrive,
         AbortExpand, EndExpand, driveObjects, driveVars
<1>1. ASSUME NEW n \in ExpandTo, ControllerExpandVolume(v, n) PROVE BackedVolume(v)'
  <2>1. /\ claim[v] = "bound" /\ v \in volumes /\ volume[v].total < n /\ n \in Nat
        /\ expand'[v].pc = "getDrive" /\ expand'[v].drive = Home(v)
        /\ expand'[v].need = n - volume[v].total /\ expand'[v].goal = n
        /\ UNCHANGED <<drive, granted, debit>>
    BY <1>1, <1>t, ProvisioningAssumption DEF ControllerExpandVolume, Home, driveVars
  <2>2. PlacedVolume(v)' /\ SizeKnown(v)'
    BY <1>q, <1>u, <2>1 DEF BackedVolume, PlacedVolume, SizeKnown, Home
  <2>3. ExpandKnown(v)'
    <3>1. n > 0 /\ n - volume[v].total >= 0 /\ volume[v].total >= n - (n - volume[v].total)
      BY <2>1, BackedTypes
    <3> QED
      BY <1>u, <2>1, <3>1 DEF ExpandKnown, Home
  <2>4. ASSUME NEW x \in Drives PROVE LateKnown(x, v)'
    BY <1>q, <1>u, <1>r, <2>1 DEF BackedVolume, LateKnown, Home
  <2>5. ASSUME NEW x \in Drives PROVE ListedBacked(x, v)'
    BY <1>q, <1>u, <1>r, <2>1 DEF BackedVolume, ListedBacked, Home
  <2> QED
    BY <2>2, <2>3, <2>4, <2>5 DEF BackedVolume
<1>2. ASSUME UNCHANGED <<drive, granted, debit>>,
             \/ expand'[v].pc = "idle"
             \/ /\ expand[v].pc # "idle" /\ expand'[v].drive = d
                /\ expand'[v].need = expand[v].need /\ expand'[v].goal = expand[v].goal
      PROVE  BackedVolume(v)'
  <2>1. PlacedVolume(v)' /\ SizeKnown(v)' /\ ExpandKnown(v)'
    BY <1>q, <1>u, <1>2 DEF BackedVolume, PlacedVolume, SizeKnown, ExpandKnown, Home
  <2>2. ASSUME NEW x \in Drives PROVE LateKnown(x, v)'
    BY <1>q, <1>u, <1>r, <1>2 DEF BackedVolume, LateKnown, Home
  <2>3. ASSUME NEW x \in Drives PROVE ListedBacked(x, v)'
    BY <1>q, <1>u, <1>r, <1>2 DEF BackedVolume, ListedBacked, Home
  <2> QED
    BY <2>1, <2>2, <2>3 DEF BackedVolume
<1>3. CASE ExpandGetDrive(v) \/ AbortExpand(v)
  <2>1. UNCHANGED <<drive, granted, debit>>
    BY <1>3 DEF ExpandGetDrive, AbortExpand, driveObjects
  <2>2. \/ expand'[v].pc = "idle"
        \/ /\ expand[v].pc # "idle" /\ expand'[v].drive = d
           /\ expand'[v].need = expand[v].need /\ expand'[v].goal = expand[v].goal
    BY <1>3, <1>t DEF ExpandGetDrive, AbortExpand, EndExpand, NoExpand, ExpandOp
  <2> QED
    BY <1>2, <2>1, <2>2
<1>4. CASE ExpandUpdateDrive(v) /\ ~Reads("expand", d, v)
  <2>1. UNCHANGED <<drive, granted, debit>> /\ expand'[v].pc = "idle"
    BY <1>4, <1>t DEF ExpandUpdateDrive, Reads, NoExpand, driveVars
  <2> QED
    BY <1>2, <2>1
<1>5. CASE ExpandUpdateDrive(v) /\ Reads("expand", d, v)
  <2>1. /\ expand[v].pc = "updateDrive" /\ d \in Drives /\ expand[v].need >= 0 /\ expand[v].goal > 0
        /\ claim[v] \notin {"unclaimed", "pending", "provisioned"}
        /\ v \in volumes => d = Home(v) /\ volume[v].total >= expand[v].goal - expand[v].need
    BY <1>q, <1>5 DEF ExpandUpdateDrive, BackedVolume, PlacedVolume, ExpandKnown, SizeKnown
  <2>2. /\ WriteDrive(d, Expanded(d, expand[v].need)) /\ Debit(d, v, expand[v].need)
        /\ granted'[v] \in {granted[v], expand[v].goal} /\ expand'[v].pc = "idle"
    BY <1>5, <1>t DEF ExpandUpdateDrive, Reads, NoExpand, DriveInv, TypeOK
  <2>3. \A x \in Drives : drive'[x].volumes = drive[x].volumes
    BY <2>2 DEF WriteDrive, Expanded, DriveInv, TypeOK, DriveTypes
  <2>4. \A x \in Drives :
          debit'[x][v] = IF x = d THEN debit[d][v] + expand[v].need ELSE debit[x][v]
    BY <2>2 DEF Debit, DriveInv, TypeOK
  <2>5. PlacedVolume(v)' /\ ExpandKnown(v)'
    BY <1>q, <1>u, <2>2 DEF BackedVolume, PlacedVolume, ExpandKnown, Home
  <2>6. SizeKnown(v)'
    BY <1>q, <1>u, <2>1, <2>2 DEF BackedVolume, SizeKnown, Home
  <2>7. ASSUME NEW x \in Drives PROVE LateKnown(x, v)'
    BY <1>q, <1>u, <1>r, <2>1, <2>2 DEF BackedVolume, LateKnown, Home
  <2>8. ASSUME NEW x \in Drives PROVE ListedBacked(x, v)'
    <3>1. debit'[x][v] >= debit[x][v] /\ debit'[x][v] \in Int /\ debit[x][v] \in Int
      BY <2>1, <2>4, BackedTypes
    <3>2. v \in drive[x].volumes /\ v \in volumes /\ Home(v) = x
          => debit'[x][v] >= granted[v] /\ debit'[x][v] >= expand[v].goal
      <4> HAVE v \in drive[x].volumes /\ v \in volumes /\ Home(v) = x
      <4>1. x = d /\ debit[d][v] >= volume[v].total /\ debit[d][v] >= granted[v]
        BY <1>q, <2>1 DEF BackedVolume, ListedBacked
      <4> QED
        BY <2>1, <2>4, <4>1, BackedTypes
    <3> QED
      BY <1>q, <1>u, <1>r, <2>2, <2>3, <3>1, <3>2, BackedTypes
         DEF BackedVolume, ListedBacked, Home
  <2> QED
    BY <2>5, <2>6, <2>7, <2>8 DEF BackedVolume
<1> QED
  BY <1>1, <1>3, <1>4, <1>5 DEF ExpandStep

\* Claims, kubelet calls, DeleteVolume and clean take and give nothing; the size of a
\* volume follows only what ControllerExpandVolume answered.
LEMMA BackedOthers ==
  ASSUME Sized, DriveInv, BackedInv, NEW v \in Volumes,
         \/ Claim(v) \/ NodeStep(v) \/ DeleteStep(v) \/ AbortDelete(v) \/ CleanStep(v)
         \/ AbortClean(v)
  PROVE  BackedVolume(v)'
<1>q. BackedVolume(v)
  BY DEF BackedInv
<1>1. UNCHANGED <<create, late, expand, release, drive, driveCopies, granted, debit, volumes>>
  <2>1. CASE Claim(v) \/ NodeStep(v)
    BY <2>1 DEF Claim, claimFrame, NodeStep, NodeStageVolume, NodeUnstageVolume, NodeExpandVolume,
                WriteVolume, opVars, driveVars, volumeVars
  <2>2. CASE DeleteStep(v) \/ AbortDelete(v)
    BY <2>2 DEF DeleteStep, DeleteVolume, DeleteUnprotect, DeleteObject, AbortDelete,
                destroyFrame, driveVars
  <2>3. CASE CleanStep(v) \/ AbortClean(v)
    BY <2>3 DEF CleanStep, CleanVolume, CleanUnprotect, CleanDelete, AbortClean, cleanFrame,
                driveVars
  <2> QED
    BY <2>1, <2>2, <2>3
<1>2. /\ \/ claim'[v] = claim[v]
         \/ claim[v] = "unclaimed" /\ claim'[v] = "pending"
         \/ claim[v] = "provisioned" /\ claim'[v] = "bound"
         \/ claim[v] = "bound" /\ claim'[v] = "released"
         \/ claim'[v] = "gone" /\ create[v].pc = "idle"
      /\ destroy'[v] # "idle" => claim'[v] \in {"released", "gone"}
  <2>s. SizeKnown(v) /\ destroy \in [Volumes -> DeletePcs] /\ claim \in [Volumes -> ClaimPhases]
    BY <1>q DEF BackedVolume, DriveInv, TypeOK, HandlerTypes
  <2>1. CASE Claim(v)
    BY <2>s, <2>1 DEF Claim, claimFrame, opVars, SizeKnown
  <2>2. CASE DeleteStep(v) \/ AbortDelete(v)
    BY <2>s, <2>2 DEF DeleteStep, DeleteVolume, DeleteUnprotect, DeleteObject, AbortDelete,
                      EndDelete, SizeKnown
  <2>3. CASE NodeStep(v) \/ CleanStep(v) \/ AbortClean(v)
    BY <2>s, <2>3 DEF NodeStep, NodeStageVolume, NodeUnstageVolume, NodeExpandVolume, WriteVolume,
                      opVars, CleanStep, CleanVolume, CleanUnprotect, CleanDelete, AbortClean,
                      cleanFrame, SizeKnown
  <2> QED
    BY <2>1, <2>2, <2>3
<1>3. /\ Home(v)' = Home(v)
      /\ \/ volume'[v].total = volume[v].total
         \/ volume'[v].total = granted[v] /\ volume[v].total < granted[v]
  <2>t. volume \in [Volumes -> VolumeObject]
    BY DEF DriveInv, TypeOK, VolumeTypes
  <2>1. CASE Claim(v) \/ DeleteStep(v) \/ AbortDelete(v) \/ CleanStep(v) \/ AbortClean(v)
    <3>1. UNCHANGED volume
      BY <2>1 DEF Claim, claimFrame, volumeVars, DeleteStep, DeleteVolume, DeleteUnprotect,
                  DeleteObject, AbortDelete, CleanStep, CleanVolume, CleanUnprotect, CleanDelete,
                  AbortClean
    <3> QED
      BY <3>1 DEF Home
  <2>2. CASE NodeStep(v)
    BY <2>t, <2>2 DEF NodeStep, NodeStageVolume, NodeUnstageVolume, NodeExpandVolume, WriteVolume,
                      VolumeObject, Home
  <2> QED
    BY <2>1, <2>2
<1>4. PlacedVolume(v)'
  BY <1>q, <1>1, <1>3 DEF BackedVolume, PlacedVolume
<1>5. SizeKnown(v)'
  BY <1>q, <1>1, <1>2, <1>3, BackedTypes DEF BackedVolume, SizeKnown
<1>6. ExpandKnown(v)'
  BY <1>q, <1>1, <1>3, BackedTypes DEF BackedVolume, ExpandKnown
<1>7. ASSUME NEW x \in Drives PROVE LateKnown(x, v)'
  BY <1>q, <1>1, <1>2, <1>3 DEF BackedVolume, LateKnown, Reads
<1>8. ASSUME NEW x \in Drives PROVE ListedBacked(x, v)'
  BY <1>q, <1>1, <1>3, BackedTypes DEF BackedVolume, ListedBacked, Reads
<1> QED
  BY <1>4, <1>5, <1>6, <1>7, <1>8 DEF BackedVolume

\* Commands and faults of a drive make no copy current.
LEMMA CommandCopies ==
  ASSUME TypeOK, NEW x \in Drives, DriveStep(x), NEW w \in Volumes
  PROVE  CopiesShrink(w)
<1>1. Touch(x) \/ UNCHANGED driveCopies
  BY DEF DriveStep, Cordon, Uncordon, RemoveDrive, RemoveFinalizers, DeleteDrive, AbortRemove,
         SetIOError, Repair, SetStatus
<1> QED
  BY <1>1 DEF Touch, CopiesShrink, Reads, TypeOK, DriveTypes

\* Every volume is backed in every reachable state.
LEMMA BackedInvariant ==
  ASSUME Sized
  PROVE  Spec => []BackedInv
<1>1. Init => BackedInv
  <2> SUFFICES ASSUME Init, NEW v \in Volumes PROVE BackedVolume(v)
    BY DEF BackedInv
  <2>1. PlacedVolume(v) /\ SizeKnown(v) /\ ExpandKnown(v)
    BY DEF Init, PlacedVolume, SizeKnown, ExpandKnown, NoCreate, NoLate, NoExpand, NoRelease
  <2>2. \A d \in Drives : LateKnown(d, v) /\ ListedBacked(d, v)
    BY DEF Init, LateKnown, ListedBacked, Reads
  <2> QED
    BY <2>1, <2>2 DEF BackedVolume
<1>2. ASSUME DriveInv, BackedInv, NEW v \in Volumes, VolumeStep(v)
      PROVE  BackedInv'
  <2>1. \A w \in Volumes : w # v => BackedVolume(w)'
    BY <1>2, OthersUntouched, OthersCopies, BackedStays DEF DriveInv, BackedInv
  <2>2. BackedVolume(v)'
    BY <1>2, BackedSelect, BackedObject, BackedReserve, BackedTimeout, BackedLate, BackedRelease,
       BackedExpand, BackedOthers
       DEF VolumeStep, FaultStep, CreateStep, LateStep
  <2> QED
    BY <2>1, <2>2 DEF BackedInv
<1>3. ASSUME DriveInv, BackedInv, NEW x \in Drives, DriveStep(x)
      PROVE  BackedInv'
  BY <1>3, CommandsUntouched, CommandCopies, BackedStays DEF DriveInv, BackedInv
<1>4. ASSUME BackedInv, UNCHANGED vars
      PROVE  BackedInv'
  <2>1. \A w \in Volumes : Untouched(w) /\ CopiesShrink(w)
    BY <1>4 DEF vars, driveVars, volumeVars, opVars, Untouched, CopiesShrink, Reads
  <2> QED
    BY <1>4, <2>1, BackedStays DEF BackedInv
<1>5. DriveInv /\ BackedInv /\ [Next]_vars => BackedInv'
  BY <1>2, <1>3, <1>4 DEF Next, VolumeStep
<1> QED
  BY <1>1, <1>5, DriveInvariant, PTL DEF Spec

\* The TotalCapacity of a reserved volume, and every size ControllerExpandVolume has
\* answered, was taken from its drive and not given back, whatever handlers fail, land
\* late, race with clean or happen to the drives, if every request names its size.
THEOREM VolumesAreBacked ==
  ASSUME Sized
  PROVE  Spec => []Backed
<1>1. BackedInv => Backed
  BY DEF BackedInv, BackedVolume, ListedBacked, Backed, Reserves
<1> QED
  BY <1>1, BackedInvariant, PTL
-----------------------------------------------------------------------------
(* The account of a drive *)

\* On each drive a step moves bytes between free capacity and one volume, or none.
AccountMoves ==
  \A d \in Drives :
    \/ drive'[d].free = drive[d].free /\ debit'[d] = debit[d]
    \/ \E v \in Volumes, size \in Int :
         /\ drive'[d].free = drive[d].free - size
         /\ debit'[d] = [debit[d] EXCEPT ![v] = @ + size]

\* A write of a drive takes from its free capacity what it enters in the account.
LEMMA WriteMoves ==
  ASSUME TypeOK, NEW v \in Volumes, NEW d, NEW size \in Int, NEW new,
         d \in Drives => new.free = drive[d].free - size, WriteDrive(d, new), Debit(d, v, size)
  PROVE  AccountMoves
<1> SUFFICES ASSUME NEW x \in Drives
             PROVE  \/ drive'[x].free = drive[x].free /\ debit'[x] = debit[x]
                    \/ /\ drive'[x].free = drive[x].free - size
                       /\ debit'[x] = [debit[x] EXCEPT ![v] = @ + size]
  BY DEF AccountMoves
<1>1. CASE x = d
  BY <1>1 DEF WriteDrive, Debit, TypeOK, DriveTypes
<1>2. CASE x # d
  BY <1>2 DEF WriteDrive, Debit, TypeOK, DriveTypes
<1> QED
  BY <1>1, <1>2

\* Capacity is never created or lost: whatever a step takes from the free capacity of a
\* drive it enters in the account of one volume, and what it gives back it removes
\* there.  This is the step behind the sum that NoOvercommit states.
THEOREM CapacityIsConserved == Spec => [][AccountMoves]_vars
<1>0. TypeOK => \A v \in Volumes :
        /\ create[v].size \in Int /\ late[v].size \in Int /\ expand[v].need \in Int
        /\ release[v].size \in Int
  BY DEF TypeOK, HandlerTypes, CreateOp, LateOp, ExpandOp, ReleaseOp
<1>1. ASSUME TypeOK, NEW v \in Volumes, VolumeStep(v)
      PROVE  AccountMoves
  <2>t. \A d \in Drives : drive[d].free \in Int
    BY <1>1 DEF TypeOK, DriveTypes, DriveObject
  <2>1. CASE UNCHANGED <<drive, debit>>
    BY <2>1 DEF AccountMoves
  <2>2. CASE Claim(v) \/ NodeStep(v) \/ DeleteStep(v) \/ CleanStep(v) \/ FaultStep(v)
    <3>1. UNCHANGED <<drive, debit>>
      BY <2>2 DEF Claim, claimFrame, NodeStep, NodeStageVolume, NodeUnstageVolume,
                  NodeExpandVolume, WriteVolume, DeleteStep, DeleteVolume, DeleteUnprotect,
                  DeleteObject, destroyFrame, CleanStep, CleanVolume, CleanUnprotect, CleanDelete,
                  cleanFrame, FaultStep, AbortCreate, AbortDelete, AbortExpand, AbortRelease,
                  AbortClean, driveObjects, driveVars
    <3> QED
      BY <2>1, <3>1
  <2>3. CASE CreateStep(v)
    <3> DEFINE d == create[v].drive
    <3>1. \/ UNCHANGED <<drive, debit>>
          \/ WriteDrive(d, Reserved(d, v, create[v].size)) /\ Debit(d, v, create[v].size)
      BY <2>3 DEF CreateStep, CreateVolume, CreateVolumeObject, GetVolumeObject,
                  UpdateVolumeObject, ReserveDrive, driveObjects, driveVars
    <3>2. Reserved(d, v, create[v].size).free = drive[d].free - create[v].size
      BY DEF Reserved
    <3> QED
      BY <1>0, <1>1, <2>1, <3>1, <3>2, WriteMoves
  <2>4. CASE LateStep(v)
    <3> DEFINE d == late[v].drive
    <3>1. \/ UNCHANGED <<drive, debit>>
          \/ WriteDrive(d, Reserved(d, v, late[v].size)) /\ Debit(d, v, late[v].size)
      BY <2>4 DEF LateStep, TimeoutCreate, LateReserve, driveObjects, driveVars
    <3>2. Reserved(d, v, late[v].size).free = drive[d].free - late[v].size
      BY DEF Reserved
    <3> QED
      BY <1>0, <1>1, <2>1, <3>1, <3>2, WriteMoves
  <2>5. CASE ExpandStep(v)
    <3> DEFINE d == expand[v].drive
    <3>1. \/ UNCHANGED <<drive, debit>>
          \/ WriteDrive(d, Expanded(d, expand[v].need)) /\ Debit(d, v, expand[v].need)
      BY <2>5 DEF ExpandStep, ControllerExpandVolume, ExpandGetDrive, ExpandUpdateDrive,
                  driveObjects, driveVars
    <3>2. Expanded(d, expand[v].need).free = drive[d].free - expand[v].need
      BY DEF Expanded
    <3> QED
      BY <1>0, <1>1, <2>1, <3>1, <3>2, WriteMoves
  <2>6. CASE ReleaseStep(v)
    <3> DEFINE d == release[v].drive
    <3>1. \/ UNCHANGED <<drive, debit>>
          \/ WriteDrive(d, Released(d, v, release[v].size)) /\ Debit(d, v, -release[v].size)
      BY <2>6 DEF ReleaseStep, ReleaseVolume, ReleaseGetDrive, ReleaseUpdateDrive, ReleasePurge,
                  driveObjects, driveVars
    <3>2. d \in Drives => Released(d, v, release[v].size).free = drive[d].free - (-release[v].size)
      BY <1>0, <1>1, <2>t DEF Released
    <3>3. -release[v].size \in Int
      BY <1>0, <1>1
    <3> QED
      BY <1>1, <2>1, <3>1, <3>2, <3>3, WriteMoves
  <2> QED
    BY <1>1, <2>2, <2>3, <2>4, <2>5, <2>6 DEF VolumeStep
<1>2. ASSUME TypeOK, NEW x \in Drives, DriveStep(x)
      PROVE  AccountMoves
  <2>1. UNCHANGED debit
    BY <1>2 DEF DriveStep, Cordon, Uncordon, RemoveDrive, RemoveFinalizers, DeleteDrive,
                AbortRemove, SetIOError, Repair, SetStatus, driveFrame
  <2> QED
    BY <1>2, <2>1, CommandChanges DEF AccountMoves
<1>3. TypeOK /\ [Next]_vars => [AccountMoves]_vars
  BY <1>1, <1>2 DEF Next, VolumeStep
<1> QED
  BY <1>3, TypeCorrect, PTL DEF Spec

\* What is free on a drive and what was taken from it.
Balance(d) == drive[d].free + SumFunctionOnSet(debit[d], Volumes)
Balanced == \A d \in Drives : Balance(d) = Usable[d]

\* At first all is free and nothing is taken.
LEMMA BalancedInit == Init => Balanced
<1> SUFFICES ASSUME Init, NEW d \in Drives PROVE Balance(d) = Usable[d]
  BY DEF Balanced
<1>1. drive[d].free = Usable[d] /\ \A v \in Volumes : debit[d][v] = 0
  BY DEF Init
<1>2. SumFunctionOnSet(debit[d], Volumes) = 0
  BY <1>1, SumOfZeros, ProvisioningAssumption
<1> QED
  BY <1>1, <1>2, ProvisioningAssumption DEF Balance

\* A step that moves bytes between free capacity and one account keeps the balance.
LEMMA BalancedStep ==
  ASSUME TypeOK, TypeOK', Balanced, AccountMoves
  PROVE  Balanced'
<1> SUFFICES ASSUME NEW d \in Drives PROVE Balance(d)' = Balance(d)
  BY DEF Balanced
<1>1. /\ drive[d].free \in Int /\ \A v \in Volumes : debit[d][v] \in Int /\ debit'[d][v] \in Int
      /\ debit[d] \in [Volumes -> Int] /\ IsFiniteSet(Volumes)
  BY ProvisioningAssumption DEF TypeOK, DriveTypes, DriveObject
<1>2. CASE drive'[d].free = drive[d].free /\ debit'[d] = debit[d]
  BY <1>2 DEF Balance
<1>3. ASSUME NEW v \in Volumes, NEW size \in Int, drive'[d].free = drive[d].free - size,
             debit'[d] = [debit[d] EXCEPT ![v] = @ + size]
      PROVE  Balance(d)' = Balance(d)
  <2>1. debit'[d][v] = debit[d][v] + size /\ \A w \in Volumes \ {v} : debit'[d][w] = debit[d][w]
    BY <1>1, <1>3
  <2>2. SumFunctionOnSet(debit'[d], Volumes)
          = SumFunctionOnSet(debit[d], Volumes) + (debit'[d][v] - debit[d][v])
    BY <1>1, <2>1, SumChange
  <2>3. SumFunctionOnSet(debit[d], Volumes) \in Int
    BY <1>1, SumIsInt
  <2>4. SumFunctionOnSet(debit'[d], Volumes) = SumFunctionOnSet(debit[d], Volumes) + size
    BY <1>1, <2>1, <2>2, <2>3
  <2> QED
    BY <1>1, <1>3, <2>3, <2>4 DEF Balance
<1> QED
  BY <1>2, <1>3 DEF AccountMoves

\* The bytes of a drive are free or taken for some volume, none is lost or counted
\* twice, whatever fails, lands late or races: the sum over any number of volumes.
THEOREM AccountsBalance == Spec => []Balanced
<1>1. TypeOK /\ TypeOK' /\ Balanced /\ [AccountMoves]_vars => Balanced'
  <2>1. Balanced /\ UNCHANGED vars => Balanced'
    BY DEF vars, driveVars, volumeVars, Balanced, Balance
  <2> QED
    BY <2>1, BalancedStep
<1> QED
  BY <1>1, BalancedInit, TypeCorrect, CapacityIsConserved, PTL DEF Spec

\* The volumes that live on a drive that lists them fit in what was taken from it.
LEMMA PromisesFit ==
  ASSUME DriveInv, BackedInv, Balanced, NEW d \in Drives
  PROVE  drive[d].free + SumFunctionOnSet(Promised(d), drive[d].volumes) <= Usable[d]
<1> DEFINE listed == drive[d].volumes
<1>1. /\ drive[d].free \in Int /\ listed \in SUBSET Volumes /\ Usable[d] \in Int
      /\ \A v \in Volumes : debit[d][v] \in Int /\ volume[v].total \in Int
      /\ IsFiniteSet(Volumes)
  BY ProvisioningAssumption DEF DriveInv, TypeOK, DriveTypes, DriveObject, VolumeTypes, VolumeObject
<1>2. \A v \in Volumes : debit[d][v] >= 0
  BY DEF BackedInv, BackedVolume, ListedBacked
<1>3. ASSUME NEW v \in listed
      PROVE  Promised(d)[v] \in Int /\ Promised(d)[v] <= debit[d][v]
  BY <1>1, <1>2 DEF BackedInv, BackedVolume, ListedBacked, Promised
<1>4. IsFiniteSet(listed)
  BY <1>1, FS_Subset
<1>5. SumFunctionOnSet(Promised(d), listed) <= SumFunctionOnSet(debit[d], listed)
  BY <1>1, <1>3, <1>4, SumGrows
<1>6. SumFunctionOnSet(debit[d], listed) <= SumFunctionOnSet(debit[d], Volumes)
  BY <1>1, <1>2, SumOfPart
<1>7. /\ SumFunctionOnSet(Promised(d), listed) \in Int /\ SumFunctionOnSet(debit[d], listed) \in Int
      /\ SumFunctionOnSet(debit[d], Volumes) \in Int
  BY <1>1, <1>3, <1>4, SumIsInt
<1>8. drive[d].free + SumFunctionOnSet(debit[d], Volumes) = Usable[d]
  BY DEF Balanced, Balance
<1> QED
  BY <1>1, <1>5, <1>6, <1>7, <1>8

\* A drive is never promised twice: the volumes that live on it, at the sizes they claim,
\* and what it shows as free fit in its filesystem, whatever handlers of any number of
\* volumes fail, land late, race with clean or expand, if every request names its size.
THEOREM DrivesAreNotOvercommitted ==
  ASSUME Sized
  PROVE  Spec => []NoOvercommit
<1>1. DriveInv /\ BackedInv /\ Balanced => NoOvercommit
  BY PromisesFit DEF Balanced, Balance, NoOvercommit
<1> QED
  BY <1>1, DriveInvariant, BackedInvariant, AccountsBalance, PTL
=============================================================================
