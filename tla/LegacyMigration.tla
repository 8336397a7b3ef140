--------------------------- MODULE LegacyMigration ---------------------------
(***************************************************************************)
(* Migration of legacy DirectCSI drives and volumes to DirectPV: the       *)
(* "Migration" task of the installer and the migrate command, which also   *)
(* removes the legacy objects after writing them to backup files.          *)
(*                                                                         *)
(* Errors of single objects are logged and the run goes on; the command    *)
(* may stop anywhere and is run again.  Legacy DirectCSI may still be      *)
(* running, as the upgrade documentation has it for old versions.          *)
(*                                                                         *)
(* Legacy objects are listed in the order of their names, converted to the *)
(* latest version.  What the command knows is lost with it; the objects,   *)
(* which the API server keeps, are not.                                    *)
(***************************************************************************)
EXTENDS LegacyConversion, FiniteSets

CONSTANTS
  DriveOrder, VolumeOrder,  \* names of legacy drives and volumes, in order
  FilesystemUUID,           \* of each legacy drive, NoUUID if it is not one
  NoUUID,
  Clusters,                 \* pairs of a served version and the statuses of the legacy drives
  DriveOf,                  \* legacy drive of each legacy volume
  LateVolumes,              \* volumes legacy DirectCSI may still provision
  MaxFaults                 \* bound: failed calls and stopped commands

LegacyDrives == ToSet(DriveOrder)
LegacyVolumes == ToSet(VolumeOrder)
UUIDs == {FilesystemUUID[l] : l \in LegacyDrives} \ {NoUUID}

ASSUME MigrationAssumption ==
  /\ IsInjective(DriveOrder) /\ IsInjective(VolumeOrder)
  /\ DriveOrder \in Seq(LegacyDrives) /\ VolumeOrder \in Seq(LegacyVolumes)
  /\ FilesystemUUID \in [LegacyDrives -> UUIDs \cup {NoUUID}]
  /\ Clusters \subseteq ToSet(supportedVersions) \X [LegacyDrives -> DriveTypeV1Beta5.statuses]
  /\ DriveOf \in [LegacyVolumes -> LegacyDrives]
  /\ LateVolumes \subseteq LegacyVolumes
  /\ MaxFaults \in Nat

VARIABLES
  served,         \* API version the cluster serves legacy objects in
  driveStatus,    \* status of each legacy drive
  legacyDrives,   \* DirectCSIDrive objects
  legacyVolumes,  \* DirectCSIVolume objects
  drives,         \* DirectPVDrive objects, named by their filesystem
  volumes,        \* DirectPVVolume objects
  backup,         \* legacy objects written to backup files
  provisioned,    \* legacy volumes there ever were
  unlisted,       \* those provisioned after their drive was listed or migrated
  mig,            \* the migration under way
  faults

legacyVars == <<served, driveStatus, legacyDrives, legacyVolumes>>
ghostVars == <<provisioned, unlisted>>
migrationVars == <<legacyVars, drives, volumes, backup, ghostVars, mig, faults>>

-----------------------------------------------------------------------------
(* The legacy objects and the legacy client *)

\* A drive and a volume as version v has them: every field is set, and the path is in the
\* form of that time.
StoredDrive(v) ==
  [kind |-> "DirectCSIDrive", version |-> v, fields |-> DriveTypes[getIndex(v)].fields,
   path |-> IF getIndex(v) < getIndex("v1beta2") THEN "sda-part-1" ELSE "/dev/sda1",
   node |-> "node/1", tier |-> IF v = "v1alpha1" THEN "" ELSE "Hot",
   labels |-> <<>>, conds |-> <<"Owned", "Mounted">>]

StoredVolume(v) ==
  [kind |-> "DirectCSIVolume", version |-> v, fields |-> VolumeTypes[getIndex(v)].fields,
   path |-> "", node |-> "node/1", tier |-> "", labels |-> <<>>, conds |-> <<"Staged">>]

\* The versions GetGroupVersion asks for, the latest first; without the resource, the latest.
GetGroupVersion == served

\* What the legacy client returns for an object of version v
ReadDrive == [v \in ToSet(supportedVersions) |-> Migrate(StoredDrive(v), Latest)]
ReadVolume == [v \in ToSet(supportedVersions) |-> Migrate(StoredVolume(v), Latest)]

\* The objects of a listing are taken in the order of their names.
ListDrives == legacyDrives
ListVolumes == legacyVolumes
Before(order, a, b) == \E i, j \in DOMAIN order : i <= j /\ order[i] = a /\ order[j] = b

\* The objects Update sends say the latest version, whichever one the client was made for.
UpdateAccepted == served = Latest

-----------------------------------------------------------------------------
\* todo: listed objects not yet taken; known: volumes that the listed drives name;
\* mapped, seen: legacy drives in the map and UUIDs met; listed: listed volumes
Idle == [pc |-> "idle", todo |-> {}, known |-> {}, mapped |-> {}, seen |-> {}, listed |-> {},
         retain |-> TRUE, faulty |-> FALSE]

MigrationInit ==
  /\ \E c \in Clusters : served = c[1] /\ driveStatus = c[2]
  /\ legacyDrives = LegacyDrives
  /\ legacyVolumes = {w \in LegacyVolumes \ LateVolumes : driveStatus[DriveOf[w]] = "InUse"}
  /\ drives = <<>> /\ volumes = <<>> /\ backup = {}
  /\ provisioned = legacyVolumes /\ unlisted = {}
  /\ mig = Idle /\ faults = 0

Fault == faults < MaxFaults /\ faults' = faults + 1
NoFault == UNCHANGED faults

Running(pc) == mig.pc = pc
Goto(pc, todo) == mig' = [mig EXCEPT !.pc = pc, !.todo = todo]
NextIs(order, x) == x \in mig.todo /\ \A y \in mig.todo : Before(order, x, y)
Failed == mig' = [mig EXCEPT !.pc = "failed", !.todo = {}, !.faulty = TRUE]

\* The objects of a kind and one more
With(objects, name, o) ==
  [n \in DOMAIN objects \cup {name} |-> IF n = name THEN o ELSE objects[n]]

\* Legacy drives a migration takes: Ready or InUse with a UUID.
Takes(l) == driveStatus[l] \in {"Ready", "InUse"} /\ FilesystemUUID[l] # NoUUID

-----------------------------------------------------------------------------
(* migrate, migrateDrives, migrateVolumes *)

\* The probes of the versions and the listing of the drives.
StartMigration(retain) ==
  /\ Running("idle")
  /\ \/ /\ GetGroupVersion \in {"v1beta3", "v1beta4", "v1beta5"}
        /\ mig' = [Idle EXCEPT !.pc = "drives", !.todo = ListDrives, !.known = legacyVolumes,
                              !.retain = retain]
        /\ NoFault
     \/ /\ GetGroupVersion \notin {"v1beta3", "v1beta4", "v1beta5"}
        /\ Failed /\ NoFault
     \/ Fault /\ Failed
  /\ UNCHANGED <<legacyVars, ghostVars, drives, volumes, backup>>

\* The DirectPVDrive made of a legacy drive; its finalizers name the volumes that were on
\* it when it was listed.
NewDrive(l) ==
  [from |-> l,
   tier |-> LET tier == ReadDrive[served].tier
            IN  IF tier \in {"Cold", "Warm", "Hot"} THEN tier ELSE "Default",
   volumes |-> {w \in mig.known : DriveOf[w] = l}]

\* What is known of legacy drive l once it was passed over, once the Get of its
\* DirectPVDrive failed, and once it was asked for or found.
Passed(x) == [mig EXCEPT !.todo = @ \ {x}]

\* Faulty variant of GetFailed: the UUID does not count as seen.
GetFailed_unseen(l) == [Passed(l) EXCEPT !.faulty = TRUE]

GetFailed(l) == [Passed(l) EXCEPT !.faulty = TRUE, !.seen = @ \cup {FilesystemUUID[l]}]

Mapped(l, failed) ==
  [Passed(l) EXCEPT !.seen = @ \cup {FilesystemUUID[l]}, !.mapped = @ \cup {l},
                 !.faulty = @ \/ failed]

\* Faulty variant of Found: a drive migrated by an earlier run is not in the map.
Found_skipped(l) == [Passed(l) EXCEPT !.seen = @ \cup {FilesystemUUID[l]}]

Found(l) == Mapped(l, FALSE)

\* The next legacy drive.  A drive that is not taken, or whose UUID was seen, is skipped.
\* If the Get of its DirectPVDrive fails it is left out of the map; if the Create fails
\* (be it after having its effect, or for want of the CRD) it stays in.
migrateDrive(crd) ==
  \E l \in mig.todo :
    LET u == FilesystemUUID[l]
        created == drives' = With(drives, u, NewDrive(l))
    IN  /\ Running("drives") /\ NextIs(DriveOrder, l)
        /\ IF ~Takes(l) \/ u \in mig.seen
           THEN mig' = Passed(l) /\ NoFault /\ UNCHANGED drives
           ELSE \/ Fault /\ mig' = GetFailed(l) /\ UNCHANGED drives
                \/ u \in DOMAIN drives /\ mig' = Found(l) /\ NoFault /\ UNCHANGED drives
                \/ /\ u \notin DOMAIN drives /\ crd /\ mig' = Mapped(l, FALSE)
                   /\ NoFault /\ created
                \/ /\ u \notin DOMAIN drives /\ ~crd /\ mig' = Mapped(l, TRUE)
                   /\ NoFault /\ UNCHANGED drives
                \/ /\ u \notin DOMAIN drives /\ crd /\ Fault /\ mig' = Mapped(l, TRUE)
                   /\ created \/ UNCHANGED drives
        /\ UNCHANGED <<legacyVars, ghostVars, volumes, backup>>

\* All drives are done: the volumes are listed.
StartVolumes ==
  /\ Running("drives") /\ mig.todo = {}
  /\ \/ /\ mig' = [mig EXCEPT !.pc = "volumes", !.todo = ListVolumes, !.listed = legacyVolumes]
        /\ NoFault
     \/ Fault /\ Failed
  /\ UNCHANGED <<legacyVars, ghostVars, drives, volumes, backup>>

\* The next legacy volume, on the drive its legacy drive is mapped to.
migrateVolume(crd) ==
  \E w \in mig.todo :
    LET failed == [Passed(w) EXCEPT !.faulty = TRUE]
        created == volumes' = With(volumes, w, [drive |-> FilesystemUUID[DriveOf[w]]])
    IN  /\ Running("volumes") /\ NextIs(VolumeOrder, w)
        /\ IF DriveOf[w] \notin mig.mapped \/ w \in DOMAIN volumes
           THEN mig' = Passed(w) /\ NoFault /\ UNCHANGED volumes
           ELSE \/ crd /\ mig' = Passed(w) /\ NoFault /\ created
                \/ ~crd /\ mig' = failed /\ NoFault /\ UNCHANGED volumes
                \/ crd /\ mig' = failed /\ Fault /\ (created \/ UNCHANGED volumes)
        /\ UNCHANGED <<legacyVars, ghostVars, drives, backup>>

\* The end of migrate: what went wrong with single objects has only been logged.
EndMigration ==
  /\ Running("volumes") /\ mig.todo = {}
  /\ Goto(IF mig.retain THEN "done" ELSE "listDrives", {})
  /\ NoFault /\ UNCHANGED <<legacyVars, ghostVars, drives, volumes, backup>>

-----------------------------------------------------------------------------
(* RemoveAllDrives, RemoveAllVolumes *)

\* The objects are listed and written to a file, named by the time, before any is removed.
BackupDrives ==
  /\ Running("listDrives")
  /\ \/ /\ backup' = backup \cup legacyDrives
        /\ Goto("removeDrives", ListDrives) /\ NoFault
     \/ Fault /\ Failed /\ UNCHANGED backup
  /\ UNCHANGED <<legacyVars, ghostVars, drives, volumes>>

RemoveLegacyDrive ==
  \E l \in mig.todo :
    LET removed == legacyDrives' = legacyDrives \ {l}
    IN  /\ Running("removeDrives") /\ NextIs(DriveOrder, l)
        /\ \/ UpdateAccepted /\ Goto("removeDrives", mig.todo \ {l}) /\ NoFault /\ removed
           \/ ~UpdateAccepted /\ Failed /\ NoFault /\ UNCHANGED legacyDrives
           \/ Fault /\ Failed /\ ((UpdateAccepted /\ removed) \/ UNCHANGED legacyDrives)
        /\ UNCHANGED <<served, driveStatus, ghostVars, legacyVolumes, drives, volumes, backup>>

\* Faulty variant of BackupVolumes: the file is written when all is removed.
BackupVolumes_later ==
  /\ Running("removeDrives") /\ mig.todo = {}
  /\ Goto("removeVolumes", ListVolumes) /\ NoFault /\ UNCHANGED backup
  /\ UNCHANGED <<legacyVars, ghostVars, drives, volumes>>

BackupVolumes ==
  /\ Running("removeDrives") /\ mig.todo = {}
  /\ \/ /\ backup' = backup \cup legacyVolumes
        /\ Goto("removeVolumes", ListVolumes) /\ NoFault
     \/ Fault /\ Failed /\ UNCHANGED backup
  /\ UNCHANGED <<legacyVars, ghostVars, drives, volumes>>

RemoveLegacyVolume ==
  \E w \in mig.todo :
    LET removed == legacyVolumes' = legacyVolumes \ {w}
    IN  /\ Running("removeVolumes") /\ NextIs(VolumeOrder, w)
        /\ \/ UpdateAccepted /\ Goto("removeVolumes", mig.todo \ {w}) /\ NoFault /\ removed
           \/ ~UpdateAccepted /\ Failed /\ NoFault /\ UNCHANGED legacyVolumes
           \/ Fault /\ Failed /\ ((UpdateAccepted /\ removed) \/ UNCHANGED legacyVolumes)
        /\ UNCHANGED <<served, driveStatus, ghostVars, legacyDrives, drives, volumes, backup>>

EndRemove ==
  /\ Running("removeVolumes") /\ mig.todo = {}
  /\ Goto("done", {})
  /\ NoFault /\ UNCHANGED <<legacyVars, ghostVars, drives, volumes, backup>>

\* Legacy DirectCSI provisions a volume.
LegacyProvision(w) ==
  /\ w \in LateVolumes \ (legacyVolumes \cup DOMAIN volumes \cup backup)
  /\ DriveOf[w] \in legacyDrives /\ driveStatus[DriveOf[w]] = "InUse"
  /\ legacyVolumes' = legacyVolumes \cup {w}
  /\ provisioned' = provisioned \cup {w}
  /\ unlisted' = IF Running("drives") \/ FilesystemUUID[DriveOf[w]] \in DOMAIN drives
                  THEN unlisted \cup {w} ELSE unlisted
  /\ UNCHANGED <<served, driveStatus, legacyDrives, drives, volumes, backup, mig, faults>>

MigrationStep(driveCRD, volumeCRD) ==
  \/ migrateDrive(driveCRD) \/ StartVolumes \/ migrateVolume(volumeCRD) \/ EndMigration
  \/ BackupDrives \/ RemoveLegacyDrive \/ BackupVolumes \/ RemoveLegacyVolume \/ EndRemove

-----------------------------------------------------------------------------
(* Properties *)

\* Every legacy object there ever was is there or in a backup file, wherever a command
\* that removes them failed or was stopped.
NothingIsLost ==
  /\ LegacyDrives \subseteq legacyDrives \cup backup
  /\ provisioned \subseteq legacyVolumes \cup backup

\* A migrated drive has the volumes of the one legacy drive it was made of, and lists them,
\* except what legacy DirectCSI provisioned after the drive was listed.  (Once the legacy
\* drive of either is removed, another one with its UUID may take its place.)
MigratedMatches ==
  \A w \in DOMAIN volumes :
    LET u == volumes[w].drive
    IN  u \in DOMAIN drives /\ {drives[u].from, DriveOf[w]} \subseteq legacyDrives =>
          drives[u].from = DriveOf[w] /\ (w \in drives[u].volumes \/ w \in unlisted)

\* A migration without failed calls brings over every volume it lists on a drive it takes,
\* with the drive, whatever earlier runs did or left undone.
FirstOfItsUUID(l) ==
  \A k \in legacyDrives :
    Takes(k) /\ FilesystemUUID[k] = FilesystemUUID[l] =>
      Before(DriveOrder, l, k)
RerunRepairs ==
  mig.pc \in {"done", "listDrives"} /\ ~mig.faulty =>
    \A w \in mig.listed :
      DriveOf[w] \in legacyDrives /\ Takes(DriveOf[w]) /\ FirstOfItsUUID(DriveOf[w]) =>
        w \in DOMAIN volumes /\ volumes[w].drive \in DOMAIN drives

\* Reading an object converts it to the latest version without loss: written back in the
\* version it is stored in, it has every field and condition it had, its node and tier.
SameObject(o, stored) ==
  /\ o.version = stored.version /\ stored.fields \subseteq o.fields
  /\ o.fields \subseteq TypeOf(o).fields
  /\ o.node = stored.node /\ o.tier = stored.tier
  /\ ToSet(stored.conds) \subseteq ToSet(o.conds)
  /\ "version" \in DOMAIN o.labels => o.labels["version"] = stored.version
Lossless ==
  [v \in ToSet(supportedVersions) |->
     /\ SameObject(Migrate(ReadDrive[v], v), StoredDrive(v))
     /\ SameObject(Migrate(ReadVolume[v], v), StoredVolume(v))]
ReadIsLossless == legacyDrives \cup legacyVolumes # {} => Lossless[served]
=============================================================================
