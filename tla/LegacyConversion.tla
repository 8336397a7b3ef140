-------------------------- MODULE LegacyConversion --------------------------
(***************************************************************************)
(* The versions of the legacy DirectCSIDrive and DirectCSIVolume objects   *)
(* (pkg/legacy/apis) and the conversion between them (pkg/legacy/          *)
(* converter).  Every read of the legacy client converts what the API      *)
(* server holds to the latest version.                                     *)
(*                                                                         *)
(* An object is a record: the API version it is written in, the names of   *)
(* the status and spec fields that are set, the values the converter       *)
(* rewrites (path, node, access tier), its labels (no label: no map) and   *)
(* the types of its conditions, in order.                                  *)
(***************************************************************************)
EXTENDS Naturals, Sequences, SequencesExt, TLC

supportedVersions ==
  <<"v1alpha1", "v1beta1", "v1beta2", "v1beta3", "v1beta4", "v1beta5">>

Latest == "v1beta5"

getIndex(v) == CHOOSE i \in DOMAIN supportedVersions : supportedVersions[i] = v

-----------------------------------------------------------------------------
(* types.go of each version: fields, conditions, and the states of a drive. *)

DriveTypeV1Alpha1 ==
  [fields |-> {"requestedFormat", "directCSIOwned", "driveTaint", "path",
               "allocatedCapacity", "freeCapacity", "rootPartition", "partitionNum",
               "filesystem", "mountpoint", "mountOptions", "nodeName", "driveStatus",
               "modelNumber", "serialNumber", "totalCapacity", "physicalBlockSize",
               "logicalBlockSize", "topology", "conditions"},
   conditions |-> {"Owned", "Mounted", "Formatted", "Initialized"},
   statuses |-> {"InUse", "Available", "Unavailable", "Ready", "Terminating"}]

DriveTypeV1Beta1 ==
  [DriveTypeV1Alpha1 EXCEPT !.fields = @ \cup {"accessTier"},
                            !.statuses = @ \cup {"Released"}]

DriveTypeV1Beta2 ==
  [DriveTypeV1Beta1 EXCEPT !.fields = @ \cup {"filesystemUUID", "partitionUUID",
                                              "majorNumber", "minorNumber"}]

DriveTypeV1Beta3 ==
  [DriveTypeV1Beta2 EXCEPT
     !.fields = @ \cup {"ueventSerial", "ueventFSUUID", "wwid", "vendor", "dmName",
                        "dmUUID", "mdUUID", "partTableUUID", "partTableType", "virtual",
                        "readOnly", "partitioned", "swapOn", "master"},
     !.conditions = @ \cup {"Ready"}]

DriveTypeV1Beta4 ==
  [DriveTypeV1Beta3 EXCEPT !.fields = @ \cup {"otherMountsInfo", "pciPath",
                                              "serialNumberLong"}]

DriveTypeV1Beta5 ==
  [DriveTypeV1Beta4 EXCEPT !.fields = @ \cup {"wwidWithExtension"}]

VolumeTypeV1Alpha1 ==
  [fields |-> {"drive", "nodeName", "hostPath", "stagingPath", "containerPath",
               "totalCapacity", "availableCapacity", "usedCapacity", "conditions"},
   conditions |-> {"Published", "Staged"}]

VolumeTypeV1Beta1 == [VolumeTypeV1Alpha1 EXCEPT !.conditions = @ \cup {"Ready"}]

VolumeTypeV1Beta2 == VolumeTypeV1Beta1

VolumeTypeV1Beta3 == VolumeTypeV1Beta2

VolumeTypeV1Beta4 == VolumeTypeV1Beta3

VolumeTypeV1Beta5 == VolumeTypeV1Beta4

DriveTypes == <<DriveTypeV1Alpha1, DriveTypeV1Beta1, DriveTypeV1Beta2,
                DriveTypeV1Beta3, DriveTypeV1Beta4, DriveTypeV1Beta5>>
VolumeTypes == <<VolumeTypeV1Alpha1, VolumeTypeV1Beta1, VolumeTypeV1Beta2,
                 VolumeTypeV1Beta3, VolumeTypeV1Beta4, VolumeTypeV1Beta5>>

TypeOf(o) == (IF o.kind = "DirectCSIDrive" THEN DriveTypes ELSE VolumeTypes)
               [getIndex(o.version)]

-----------------------------------------------------------------------------
(* conversion_generated.go of each version: every field both versions have  *)
(* is copied; a drive loses the fields the older version has no place for.  *)

Drop(o, names) == [o EXCEPT !.fields = @ \ names,
                            !.tier = IF "accessTier" \in names THEN "" ELSE @]

ConvertDriveV1Beta1(o, up) == IF up THEN o ELSE Drop(o, {"accessTier"})

ConvertDriveV1Beta2(o, up) ==
  IF up THEN o ELSE Drop(o, {"filesystemUUID", "partitionUUID", "majorNumber",
                             "minorNumber"})

ConvertDriveV1Beta3(o, up) ==
  IF up THEN o
  ELSE Drop(o, {"ueventSerial", "ueventFSUUID", "wwid", "vendor", "dmName", "dmUUID",
                "mdUUID", "partTableUUID", "partTableType", "virtual", "readOnly",
                "partitioned", "swapOn", "master"})

ConvertDriveV1Beta4(o, up) ==
  IF up THEN o ELSE Drop(o, {"otherMountsInfo", "pciPath", "serialNumberLong"})

ConvertDriveV1Beta5(o, up) == IF up THEN o ELSE Drop(o, {"wwidWithExtension"})

\* A volume has the same fields in every version.
ConvertVolumeV1Beta1(o) == [o EXCEPT !.fields = @ \cap VolumeTypeV1Beta1.fields]
ConvertVolumeV1Beta2(o) == [o EXCEPT !.fields = @ \cap VolumeTypeV1Beta2.fields]
ConvertVolumeV1Beta3(o) == [o EXCEPT !.fields = @ \cap VolumeTypeV1Beta3.fields]
ConvertVolumeV1Beta4(o) == [o EXCEPT !.fields = @ \cap VolumeTypeV1Beta4.fields]
ConvertVolumeV1Beta5(o) == [o EXCEPT !.fields = @ \cap VolumeTypeV1Beta5.fields]

-----------------------------------------------------------------------------
(* Labels and device paths. *)

\* A value Kubernetes refuses as a label is cut and its odd characters replaced.
ValidLabelValue(value) == value # "node/1"
normalizeLabelValue(value) == IF value = "node/1" THEN "node-1" ELSE value
NewLabelValue(value) == IF ValidLabelValue(value) THEN value ELSE normalizeLabelValue(value)

UpdateLabels(o, labels) == [o EXCEPT !.labels = labels @@ @]

\* "/dev/sda1" stays; "/var/lib/direct-csi/devices/sda-part-1" and "sda-part-1" become it.
convertV1Beta1V1Beta2DeviceName(path) ==
  IF path \in {"sda-part-1", "/var/lib/direct-csi/devices/sda-part-1"}
    THEN "/dev/sda1" ELSE path
Base(path) == IF path = "/dev/sda1" THEN "sda1" ELSE path

\* What every drive upgrade from v1beta1 on does besides copying the fields.
Relabelled(o) ==
  LET path == convertV1Beta1V1Beta2DeviceName(o.path)
  IN  UpdateLabels([o EXCEPT !.path = path],
        [node |-> NewLabelValue(o.node), path |-> NewLabelValue(Base(path)),
         createdBy |-> "directcsi-driver", accessTier |-> NewLabelValue(o.tier)])

VolumeLabels(o) == [node |-> NewLabelValue(o.node), createdBy |-> "directcsi-controller"]

-----------------------------------------------------------------------------
(* drive_upgrade.go, volume_upgrade.go *)

driveUpgradeV1alpha1ToV1Beta1(o) ==
  [ConvertDriveV1Beta1(o, TRUE) EXCEPT !.fields = @ \cup {"accessTier"}, !.tier = "Unknown"]

driveUpgradeV1Beta1ToV1Beta2(o) == Relabelled(ConvertDriveV1Beta2(o, TRUE))

driveUpgradeV1Beta2ToV1Beta3(o) == Relabelled(ConvertDriveV1Beta3(o, TRUE))

driveUpgradeV1Beta3ToV1Beta4(o) ==
  [Relabelled(ConvertDriveV1Beta4(o, TRUE)) EXCEPT
     !.fields = @ \cup {"conditions"}, !.conds = Append(@, "Ready")]

\* Faulty variant of driveUpgradeV1Beta4ToV1Beta5: by way of the version before.
driveUpgradeV1Beta4ToV1Beta5_old(o) == Relabelled(ConvertDriveV1Beta4(o, FALSE))

driveUpgradeV1Beta4ToV1Beta5(o) == Relabelled(ConvertDriveV1Beta5(o, TRUE))

volumeUpgradeV1alpha1ToV1Beta1(o) ==
  [ConvertVolumeV1Beta1(o) EXCEPT !.fields = @ \cup {"conditions"}, !.conds = Append(@, "Ready")]

volumeUpgradeV1Beta1ToV1Beta2(o) == UpdateLabels(ConvertVolumeV1Beta2(o), VolumeLabels(o))

volumeUpgradeV1Beta2ToV1Beta3(o) == UpdateLabels(ConvertVolumeV1Beta3(o), VolumeLabels(o))

\* The labels are set on the object read, which shares its map with the new one
\* only when it has one.
volumeUpgradeV1Beta3ToV1Beta4(o) ==
  IF DOMAIN o.labels = {} THEN ConvertVolumeV1Beta4(o)
                          ELSE UpdateLabels(ConvertVolumeV1Beta4(o), VolumeLabels(o))

volumeUpgradeV1Beta4ToV1Beta5(o) == ConvertVolumeV1Beta5(o)

\* The cases of the switch, entered at the version of the object, fall through
\* until the wanted version is reached.
upgradeDriveObject(o, to) ==
  LET step(obj, v) ==
        CASE v = "v1alpha1" -> driveUpgradeV1alpha1ToV1Beta1(obj)
          [] v = "v1beta1" -> driveUpgradeV1Beta1ToV1Beta2(obj)
          [] v = "v1beta2" -> driveUpgradeV1Beta2ToV1Beta3(obj)
          [] v = "v1beta3" -> driveUpgradeV1Beta3ToV1Beta4(obj)
          [] v = "v1beta4" -> driveUpgradeV1Beta4ToV1Beta5(obj)
  IN  FoldLeft(step, o, SubSeq(supportedVersions, getIndex(o.version), getIndex(to) - 1))

upgradeVolumeObject(o, to) ==
  LET step(obj, v) ==
        CASE v = "v1alpha1" -> volumeUpgradeV1alpha1ToV1Beta1(obj)
          [] v = "v1beta1" -> volumeUpgradeV1Beta1ToV1Beta2(obj)
          [] v = "v1beta2" -> volumeUpgradeV1Beta2ToV1Beta3(obj)
          [] v = "v1beta3" -> volumeUpgradeV1Beta3ToV1Beta4(obj)
          [] v = "v1beta4" -> volumeUpgradeV1Beta4ToV1Beta5(obj)
  IN  FoldLeft(step, o, SubSeq(supportedVersions, getIndex(o.version), getIndex(to) - 1))

-----------------------------------------------------------------------------
(* drive_downgrade.go, volume_downgrade.go *)

driveDowngradeV1Beta1ToV1alpha1(o) == ConvertDriveV1Beta1(o, FALSE)
driveDowngradeV1Beta2ToV1Beta1(o) == ConvertDriveV1Beta2(o, FALSE)
driveDowngradeV1Beta3ToV1Beta2(o) == ConvertDriveV1Beta3(o, FALSE)
driveDowngradeV1Beta4ToV1Beta3(o) == ConvertDriveV1Beta4(o, FALSE)
driveDowngradeV1Beta5ToV1Beta4(o) == ConvertDriveV1Beta5(o, FALSE)

volumeDowngradeV1Beta1ToV1alpha1(o) == ConvertVolumeV1Beta1(o)
volumeDowngradeV1Beta2ToV1Beta1(o) == ConvertVolumeV1Beta2(o)
volumeDowngradeV1Beta3ToV1Beta2(o) == ConvertVolumeV1Beta3(o)
volumeDowngradeV1Beta4ToV1Beta3(o) == ConvertVolumeV1Beta4(o)
volumeDowngradeV1Beta5ToV1Beta4(o) == ConvertVolumeV1Beta5(o)

Downwards(from, to) ==
  Reverse(SubSeq(supportedVersions, getIndex(to) + 1, getIndex(from)))

downgradeDriveObject(o, to) ==
  LET step(obj, v) ==
        CASE v = "v1beta5" -> driveDowngradeV1Beta5ToV1Beta4(obj)
          [] v = "v1beta4" -> driveDowngradeV1Beta4ToV1Beta3(obj)
          [] v = "v1beta3" -> driveDowngradeV1Beta3ToV1Beta2(obj)
          [] v = "v1beta2" -> driveDowngradeV1Beta2ToV1Beta1(obj)
          [] v = "v1beta1" -> driveDowngradeV1Beta1ToV1alpha1(obj)
  IN  FoldLeft(step, o, Downwards(o.version, to))

downgradeVolumeObject(o, to) ==
  LET step(obj, v) ==
        CASE v = "v1beta5" -> volumeDowngradeV1Beta5ToV1Beta4(obj)
          [] v = "v1beta4" -> volumeDowngradeV1Beta4ToV1Beta3(obj)
          [] v = "v1beta3" -> volumeDowngradeV1Beta3ToV1Beta2(obj)
          [] v = "v1beta2" -> volumeDowngradeV1Beta2ToV1Beta1(obj)
          [] v = "v1beta1" -> volumeDowngradeV1Beta1ToV1alpha1(obj)
  IN  FoldLeft(step, o, Downwards(o.version, to))

-----------------------------------------------------------------------------
(* convert.go *)

upgradeObject(o, to) ==
  IF o.kind = "DirectCSIDrive" THEN upgradeDriveObject(o, to) ELSE upgradeVolumeObject(o, to)

downgradeObject(o, to) ==
  IF o.kind = "DirectCSIDrive" THEN downgradeDriveObject(o, to) ELSE downgradeVolumeObject(o, to)

\* The first conversion leaves the version the object was written in as a label.
migrate(o, to) ==
  LET converted == IF getIndex(o.version) > getIndex(to) THEN downgradeObject(o, to)
                                                         ELSE upgradeObject(o, to)
      labels == IF "version" \in DOMAIN converted.labels THEN converted.labels
                ELSE [version |-> o.version] @@ converted.labels
  IN  [converted EXCEPT !.version = to, !.labels = labels]

Migrate(o, to) == IF o.version = to THEN o ELSE migrate(o, to)

MigrateList(list, to) == [i \in DOMAIN list |-> Migrate(list[i], to)]
=============================================================================
