------------------------- MODULE InstallationProofs -------------------------
(***************************************************************************)
(* What the install, uninstall and migrate commands keep, for any legacy   *)
(* drives and volumes, any number of commands and any number of failed     *)
(* calls and interrupted commands.                                         *)
(***************************************************************************)
EXTENDS Installation, TLAPS

-----------------------------------------------------------------------------
(* What a step does to the objects of the migration *)

LegacyObjects == LegacyDrives \cup LegacyVolumes

\* The migration under way, as a record.
MigRecord ==
  [pc : {"idle", "drives", "volumes", "listDrives", "removeDrives", "removeVolumes", "done",
         "failed"},
   todo : SUBSET LegacyObjects, known : SUBSET LegacyVolumes, mapped : SUBSET LegacyDrives,
   seen : SUBSET UUIDs, listed : SUBSET LegacyVolumes, retain : BOOLEAN, faulty : BOOLEAN]
MigType == mig \in MigRecord

\* A step that leaves the objects of the migration alone, and may end the migration.
Quiet == UNCHANGED clusterVars /\ (UNCHANGED mig \/ mig' = Idle)

\* A step of uninstall --force: migrated drives or volumes are removed.
Removal ==
  /\ cmd.op = "uninstall"
  /\ UNCHANGED <<legacyVars, ghostVars, backup, mig>>
  /\ \/ /\ \E left \in SUBSET DOMAIN volumes : volumes' = [w \in left |-> volumes[w]]
        /\ UNCHANGED drives
     \/ /\ \E left \in SUBSET DOMAIN drives : drives' = [u \in left |-> drives[u]]
        /\ UNCHANGED volumes

Effect ==
  \/ Quiet \/ Removal
  \/ \E retain \in BOOLEAN : StartMigration(retain)
  \/ \E driveCRD, volumeCRD \in BOOLEAN : MigrationStep(driveCRD, volumeCRD)
  \/ \E w \in LateVolumes : LegacyProvision(w)

\* What the API server does to objects of the installer leaves the migration alone.
LEMMA Creating ==
  ASSUME NEW o, Create(o) \/ Ensure(o) \/ Delete(o) \/ Finalise(o)
  PROVE  Quiet
BY DEF Create, Ensure, Delete, Finalise, objectFrame, Quiet

\* Removing all is leaving none.
LEMMA EmptyLeft ==
  /\ \E left \in SUBSET DOMAIN volumes : <<>> = [w \in left |-> volumes[w]]
  /\ \E left \in SUBSET DOMAIN drives : <<>> = [u \in left |-> drives[u]]
<1>1. <<>> = [w \in {} |-> volumes[w]] /\ <<>> = [u \in {} |-> drives[u]]
  OBVIOUS
<1> QED
  BY <1>1

\* Every step is, for the objects of the migration, one of these.
LEMMA EveryEffect ==
  ASSUME [Next]_vars
  PROVE  Effect
<1>1. CASE Install \/ InstallFails \/ Uninstall \/ InstallDone \/ UninstallDone \/ Interrupt
  BY <1>1 DEF Install, InstallFails, Uninstall, InstallDone, UninstallDone, Interrupt, Effect, Quiet
<1>2. CASE MigrateCommand \/ StartMigrationTask
  BY <1>2 DEF MigrateCommand, StartMigrationTask, Effect
<1>3. CASE createNamespace \/ createRBAC \/ createCSIDriver \/ createStorageClass
             \/ createDaemonset \/ createDeployment
  BY <1>3, Creating
     DEF createNamespace, createRBAC, createServiceAccount, createClusterRole,
         createClusterRoleBinding, createRole, createRoleBinding, createCSIDriver,
         doCreateCSIDriver, createStorageClass, doCreateStorageClass, createDaemonset,
         doCreateDaemonset, doCreateLegacyDaemonset, createDeployment, doCreateDeployment, Effect
<1>4. CASE createCRDs
  BY <1>4 DEF createCRDs, objectFrame, Effect, Quiet
<1>5. CASE Migrating
  BY <1>5 DEF Migrating, Effect
<1>6. CASE EndMigrationTask
  BY <1>6 DEF EndMigrationTask, Effect, Quiet
<1>7. CASE deleteNamespace \/ deleteRBAC \/ deleteCSIDriver \/ deleteStorageClass
             \/ deleteDaemonset \/ deleteDeployment \/ \E o \in Finalised : Finalise(o)
  BY <1>7, Creating
     DEF deleteNamespace, deleteRBAC, deleteCSIDriver, doDeleteCSIDriver, deleteStorageClass,
         doDeleteStorageClass, deleteDaemonset, deleteDeployment, doDeleteDeployment, Effect
<1>8. CASE deleteCRDs
  <2>1. CASE removeVolumes
    BY <2>1, EmptyLeft DEF removeVolumes, removeFrame, Step, Effect, Removal
  <2>2. CASE removeDrives
    BY <2>2, EmptyLeft DEF removeDrives, removeFrame, Step, Effect, Removal
  <2>3. CASE removeNodes \/ removeInitRequests
    BY <2>3 DEF removeNodes, removeInitRequests, removeFrame, Effect, Quiet, clusterVars
  <2> QED
    BY <1>8, <2>1, <2>2, <2>3, Creating DEF deleteCRDs, Effect
<1>9. CASE LegacyDriver
  BY <1>9 DEF LegacyDriver, Effect
<1>10. CASE UNCHANGED vars
  BY <1>10 DEF vars, migrationVars, Effect, Quiet, clusterVars
<1> QED
  BY <1>1, <1>2, <1>3, <1>4, <1>5, <1>6, <1>7, <1>8, <1>9, <1>10 DEF Next
-----------------------------------------------------------------------------
(* No legacy object is removed before it is in a backup file *)

\* What a removal still has to do is in the file written when it began.
Phases ==
  /\ legacyDrives \subseteq LegacyDrives /\ legacyVolumes \subseteq LegacyVolumes
  /\ mig.pc = "drives" => mig.todo \subseteq legacyDrives
  /\ mig.pc = "volumes" => mig.todo \subseteq legacyVolumes
  /\ mig.pc \in {"removeDrives", "removeVolumes"} => mig.todo \subseteq backup
  /\ mig.pc = "removeDrives" => legacyDrives \subseteq mig.todo
  /\ mig.pc = "removeVolumes" => legacyDrives = {}

LostInv == MigType /\ Phases /\ NothingIsLost

\* Idle is a migration that is not under way.
LEMMA IdleType == Idle \in MigRecord
BY DEF Idle, MigRecord

\* Nothing is lost at first.
LEMMA LostInit == Init => LostInv
BY MigrationAssumption
   DEF Init, MigrationInit, Idle, LostInv, MigType, MigRecord, Phases, NothingIsLost, LegacyObjects

\* Every step keeps it: only what is in the file is removed.
LEMMA LostStep ==
  ASSUME LostInv, Effect
  PROVE  LostInv'
<1> USE DEF LostInv
<1>1. CASE Quiet
  <2>1. MigType'
    BY <1>1, IdleType DEF Quiet, MigType
  <2>2. Phases'
    BY <1>1 DEF Quiet, clusterVars, legacyVars, Idle, Phases
  <2>3. NothingIsLost'
    BY <1>1 DEF Quiet, clusterVars, legacyVars, ghostVars, NothingIsLost
  <2> QED
    BY <2>1, <2>2, <2>3
<1>2. CASE Removal
  BY <1>2 DEF Removal, legacyVars, ghostVars, MigType, MigRecord, Phases, NothingIsLost
<1>3. ASSUME NEW retain \in BOOLEAN, StartMigration(retain) PROVE LostInv'
  <2>1. MigType'
    <3>1. \/ mig' = [Idle EXCEPT !.pc = "drives", !.todo = legacyDrives, !.known = legacyVolumes,
                                !.retain = retain]
          \/ mig' = [mig EXCEPT !.pc = "failed", !.todo = {}, !.faulty = TRUE]
      BY <1>3 DEF StartMigration, Failed, ListDrives
    <3> QED
      BY <3>1, IdleType DEF MigType, MigRecord, LegacyObjects, Phases
  <2>2. Phases'
    <3>1. \/ mig'.pc = "drives" /\ mig'.todo = legacyDrives
          \/ mig'.pc = "failed"
      BY <1>3 DEF StartMigration, Failed, Idle, ListDrives, MigType, MigRecord
    <3> QED
      BY <1>3, <3>1 DEF StartMigration, legacyVars, Phases
  <2>3. NothingIsLost'
    BY <1>3 DEF StartMigration, legacyVars, ghostVars, NothingIsLost
  <2> QED
    BY <2>1, <2>2, <2>3
<1>4. ASSUME NEW crd \in BOOLEAN, migrateDrive(crd) PROVE LostInv'
  <2>1. PICK l \in mig.todo :
          /\ \/ mig' = Passed(l)
             \/ Takes(l) /\ (mig' = GetFailed(l) \/ \E f \in BOOLEAN : mig' = Mapped(l, f))
          /\ UNCHANGED <<legacyVars, ghostVars, backup>> /\ mig.pc = "drives"
    BY <1>4 DEF migrateDrive, Running, Found
  <2>2. l \in LegacyDrives /\ (Takes(l) => FilesystemUUID[l] \in UUIDs)
    BY <2>1 DEF Takes, UUIDs, Phases
  <2>3. MigType' /\ mig'.pc = "drives" /\ mig'.todo \subseteq mig.todo
    <3>1. CASE mig' = Passed(l)
      BY <2>1, <3>1 DEF Passed, MigType, MigRecord
    <3>2. CASE Takes(l) /\ mig' = GetFailed(l)
      BY <2>1, <2>2, <3>2 DEF Passed, GetFailed, MigType, MigRecord
    <3>3. ASSUME NEW f \in BOOLEAN, Takes(l), mig' = Mapped(l, f)
          PROVE  MigType' /\ mig'.pc = "drives" /\ mig'.todo \subseteq mig.todo
      BY <2>1, <2>2, <3>3 DEF Passed, Mapped, MigType, MigRecord
    <3> QED
      BY <2>1, <3>1, <3>2, <3>3
  <2>4. Phases' /\ NothingIsLost'
    BY <2>1, <2>3 DEF legacyVars, ghostVars, Phases, NothingIsLost
  <2> QED
    BY <2>3, <2>4
<1>5. ASSUME NEW crd \in BOOLEAN, migrateVolume(crd) PROVE LostInv'
  <2>1. PICK w \in mig.todo :
          /\ mig' = Passed(w) \/ mig' = [Passed(w) EXCEPT !.faulty = TRUE]
          /\ UNCHANGED <<legacyVars, ghostVars, backup>> /\ mig.pc = "volumes"
    BY <1>5 DEF migrateVolume, Running
  <2>2. MigType' /\ mig'.pc = "volumes" /\ mig'.todo \subseteq mig.todo
    BY <2>1 DEF Passed, MigType, MigRecord
  <2>3. Phases' /\ NothingIsLost'
    BY <2>1, <2>2 DEF legacyVars, ghostVars, Phases, NothingIsLost
  <2> QED
    BY <2>2, <2>3
<1>6. CASE StartVolumes
  <2>1. MigType'
    BY <1>6 DEF StartVolumes, Failed, ListVolumes, MigType, MigRecord, LegacyObjects, Phases
  <2>2. \/ mig'.pc = "volumes" /\ mig'.todo = legacyVolumes
        \/ mig'.pc = "failed"
    BY <1>6 DEF StartVolumes, Failed, ListVolumes, MigType, MigRecord
  <2> QED
    BY <1>6, <2>1, <2>2 DEF StartVolumes, legacyVars, ghostVars, Phases, NothingIsLost
<1>7. CASE EndMigration \/ EndRemove
  <2>1. MigType' /\ mig'.pc \in {"done", "listDrives"}
    BY <1>7 DEF EndMigration, EndRemove, Goto, MigType, MigRecord
  <2> QED
    BY <1>7, <2>1 DEF EndMigration, EndRemove, legacyVars, ghostVars, Phases, NothingIsLost
<1>8. CASE BackupDrives
  <2>1. MigType'
    BY <1>8 DEF BackupDrives, Goto, Failed, ListDrives, MigType, MigRecord, LegacyObjects, Phases
  <2>2. \/ /\ mig'.pc = "removeDrives" /\ mig'.todo = legacyDrives
           /\ backup' = backup \cup legacyDrives
        \/ mig'.pc = "failed" /\ backup' = backup
    BY <1>8 DEF BackupDrives, Goto, Failed, ListDrives, MigType, MigRecord
  <2> QED
    BY <1>8, <2>1, <2>2 DEF BackupDrives, legacyVars, ghostVars, Phases, NothingIsLost
<1>9. CASE RemoveLegacyDrive
  <2>1. PICK l \in mig.todo :
          /\ mig.pc = "removeDrives"
          /\ \/ Goto("removeDrives", mig.todo \ {l}) /\ legacyDrives' = legacyDrives \ {l}
             \/ Failed /\ (legacyDrives' = legacyDrives \ {l} \/ UNCHANGED legacyDrives)
          /\ UNCHANGED <<ghostVars, legacyVolumes, backup>>
    BY <1>9 DEF RemoveLegacyDrive, Running
  <2>2. MigType'
    BY <2>1 DEF Goto, Failed, MigType, MigRecord
  <2>3. \/ /\ mig'.pc = "removeDrives" /\ mig'.todo = mig.todo \ {l}
           /\ legacyDrives' = legacyDrives \ {l}
        \/ mig'.pc = "failed"
    BY <2>1 DEF Goto, Failed, MigType, MigRecord
  <2>4. Phases'
    BY <2>1, <2>3 DEF Phases
  <2>5. NothingIsLost'
    BY <2>1 DEF Phases, NothingIsLost, ghostVars
  <2> QED
    BY <2>2, <2>4, <2>5
<1>10. CASE BackupVolumes
  <2>1. MigType'
    BY <1>10 DEF BackupVolumes, Goto, Failed, ListVolumes, MigType, MigRecord, LegacyObjects, Phases
  <2>2. \/ /\ mig'.pc = "removeVolumes" /\ mig'.todo = legacyVolumes
           /\ backup' = backup \cup legacyVolumes
        \/ mig'.pc = "failed" /\ backup' = backup
    BY <1>10 DEF BackupVolumes, Goto, Failed, ListVolumes, MigType, MigRecord
  <2>3. Phases'
    BY <1>10, <2>2 DEF BackupVolumes, Running, legacyVars, Phases
  <2>4. NothingIsLost'
    BY <1>10, <2>2 DEF BackupVolumes, legacyVars, ghostVars, NothingIsLost
  <2> QED
    BY <2>1, <2>3, <2>4
<1>11. CASE RemoveLegacyVolume
  <2>1. PICK w \in mig.todo :
          /\ mig.pc = "removeVolumes"
          /\ Goto("removeVolumes", mig.todo \ {w}) \/ Failed
          /\ legacyVolumes' = legacyVolumes \ {w} \/ UNCHANGED legacyVolumes
          /\ UNCHANGED <<ghostVars, legacyDrives, backup>>
    BY <1>11 DEF RemoveLegacyVolume, Running
  <2>2. MigType'
    BY <2>1 DEF Goto, Failed, MigType, MigRecord
  <2>3. \/ mig'.pc = "removeVolumes" /\ mig'.todo = mig.todo \ {w}
        \/ mig'.pc = "failed"
    BY <2>1 DEF Goto, Failed, MigType, MigRecord
  <2>4. Phases'
    BY <2>1, <2>3 DEF Phases
  <2>5. NothingIsLost'
    BY <2>1 DEF Phases, NothingIsLost, ghostVars
  <2> QED
    BY <2>2, <2>4, <2>5
<1>12. ASSUME NEW w \in LateVolumes, LegacyProvision(w) PROVE LostInv'
  <2>1. w \in LegacyVolumes
    BY MigrationAssumption
  <2> QED
    BY <1>12, <2>1 DEF LegacyProvision, MigType, MigRecord, Phases, NothingIsLost
<1> HIDE DEF LostInv
<1> QED
  BY <1>1, <1>2, <1>3, <1>4, <1>5, <1>6, <1>7, <1>8, <1>9, <1>10, <1>11, <1>12
     DEF Effect, MigrationStep

\* Wherever the commands that remove legacy objects fail or are stopped (RemoveAllDrives and
\* RemoveAllVolumes, which write the objects to a file and then remove them one by one), a
\* legacy object that is gone is in a backup file.
THEOREM LegacyIsKept == Spec => []NothingIsLost
<1>1. Init => LostInv
  BY LostInit
<1>2. LostInv /\ [Next]_vars => LostInv'
  BY LostStep, EveryEffect
<1>3. LostInv => NothingIsLost
  BY DEF LostInv
<1> QED
  BY <1>1, <1>2, <1>3, PTL DEF Spec
-----------------------------------------------------------------------------
(* A migrated drive has the volumes of the legacy drive it was made of *)

\* Every drive that counts comes up before another one with its UUID is taken.
Meets ==
  mig.pc = "drives" =>
    /\ \A k \in legacyDrives : Takes(k) => k \in mig.todo \/ FilesystemUUID[k] \in mig.seen
    /\ legacyVolumes \subseteq mig.known \cup unlisted

MapsFirst ==
  mig.pc \in {"drives", "volumes"} =>
    \A l \in mig.mapped : l \in legacyDrives /\ Takes(l) /\ FirstOfItsUUID(l)

DrivesMatch ==
  \A u \in DOMAIN drives : \E l \in LegacyDrives :
    /\ drives[u].from = l /\ FilesystemUUID[l] = u /\ Takes(l)
    /\ l \in legacyDrives =>
         /\ FirstOfItsUUID(l)
         /\ \A w \in legacyVolumes \cup DOMAIN volumes :
              DriveOf[w] = l => w \in drives[u].volumes \/ w \in unlisted

VolumesMatch ==
  \A w \in DOMAIN volumes :
    /\ w \in LegacyVolumes /\ volumes[w].drive = FilesystemUUID[DriveOf[w]] /\ Takes(DriveOf[w])
    /\ DriveOf[w] \in legacyDrives => w \in legacyVolumes /\ FirstOfItsUUID(DriveOf[w])

MatchInv == Meets /\ MapsFirst /\ DrivesMatch /\ VolumesMatch

\* The names come in one order.
LEMMA OneOrder ==
  ASSUME NEW a, NEW b, Before(DriveOrder, a, b), Before(DriveOrder, b, a)
  PROVE  a = b
<1>1. /\ DOMAIN DriveOrder = 1..Len(DriveOrder)
      /\ \A i, j \in DOMAIN DriveOrder : DriveOrder[i] = DriveOrder[j] => i = j
  BY MigrationAssumption DEF IsInjective
<1>2. PICK i, j \in DOMAIN DriveOrder : i <= j /\ DriveOrder[i] = a /\ DriveOrder[j] = b
  BY DEF Before
<1>3. PICK m, n \in DOMAIN DriveOrder : m <= n /\ DriveOrder[m] = b /\ DriveOrder[n] = a
  BY DEF Before
<1>4. i = n /\ j = m
  BY <1>1, <1>2, <1>3
<1>5. i \in Int /\ j \in Int
  BY <1>1
<1> QED
  BY <1>2, <1>3, <1>4, <1>5

\* Nothing is migrated at first.
LEMMA MatchInit == Init => MatchInv
BY DEF Init, MigrationInit, Idle, MatchInv, Meets, MapsFirst, DrivesMatch, VolumesMatch

\* The first of its UUID stays so, for legacy drives are only removed.
LEMMA FirstStays ==
  ASSUME NEW l, FirstOfItsUUID(l), legacyDrives' \subseteq legacyDrives, UNCHANGED driveStatus
  PROVE  FirstOfItsUUID(l)'
BY DEF FirstOfItsUUID, Takes, Before

\* Two first ones of a UUID are one.
LEMMA MatchHolds ==
  ASSUME MatchInv
  PROVE  MigratedMatches
<1> SUFFICES ASSUME NEW w \in DOMAIN volumes,
                    volumes[w].drive \in DOMAIN drives,
                    drives[volumes[w].drive].from \in legacyDrives, DriveOf[w] \in legacyDrives
             PROVE  /\ drives[volumes[w].drive].from = DriveOf[w]
                    /\ w \in drives[volumes[w].drive].volumes \/ w \in unlisted
  BY DEF MigratedMatches
<1> DEFINE u == volumes[w].drive
           l == drives[u].from
<1>1. FilesystemUUID[l] = u /\ FilesystemUUID[DriveOf[w]] = u
  BY DEF MatchInv, DrivesMatch, VolumesMatch
<1>2. FirstOfItsUUID(l) /\ Takes(l) /\ FirstOfItsUUID(DriveOf[w]) /\ Takes(DriveOf[w])
  BY DEF MatchInv, DrivesMatch, VolumesMatch
<1>3. Before(DriveOrder, l, DriveOf[w]) /\ Before(DriveOrder, DriveOf[w], l)
  BY <1>1, <1>2 DEF FirstOfItsUUID
<1>4. l = DriveOf[w]
  BY <1>3, OneOrder
<1> QED
  BY <1>4 DEF MatchInv, DrivesMatch
\* Steps that make no drive and no volume.
LEMMA ObjectsKept ==
  ASSUME DrivesMatch, VolumesMatch,
         UNCHANGED <<drives, volumes, unlisted, driveStatus>>,
         legacyDrives' \subseteq legacyDrives, legacyVolumes' \subseteq legacyVolumes,
         legacyVolumes' = legacyVolumes \/ legacyDrives' = {}
  PROVE  DrivesMatch' /\ VolumesMatch'
<1>1. \A l : Takes(l)' = Takes(l)
  BY DEF Takes
<1>2. \A l : FirstOfItsUUID(l) => FirstOfItsUUID(l)'
  BY FirstStays
<1>3. DrivesMatch'
  <2>1. ASSUME NEW u \in DOMAIN drives
        PROVE  \E l \in LegacyDrives :
                 /\ drives[u].from = l /\ FilesystemUUID[l] = u /\ Takes(l)'
                 /\ l \in legacyDrives' =>
                      /\ FirstOfItsUUID(l)'
                      /\ \A w \in legacyVolumes' \cup DOMAIN volumes :
                           DriveOf[w] = l => w \in drives[u].volumes \/ w \in unlisted
    BY <1>1, <1>2 DEF DrivesMatch
  <2> QED
    BY <2>1 DEF DrivesMatch, FirstOfItsUUID, Takes
<1>4. VolumesMatch'
  <2> SUFFICES ASSUME NEW w \in DOMAIN volumes
               PROVE  /\ w \in LegacyVolumes
                      /\ volumes[w].drive = FilesystemUUID[DriveOf[w]]
                      /\ Takes(DriveOf[w])'
                      /\ DriveOf[w] \in legacyDrives' =>
                           w \in legacyVolumes' /\ FirstOfItsUUID(DriveOf[w])'
    BY DEF VolumesMatch, FirstOfItsUUID, Takes
  <2> QED
    BY <1>1, <1>2 DEF VolumesMatch
<1> QED
  BY <1>3, <1>4
\* A step of migrateDrives and a step of migrateVolumes, in the fields of the record.
DriveTaken(l) ==
  LET u == FilesystemUUID[l]
  IN  /\ l \in mig.todo /\ \A y \in mig.todo : Before(DriveOrder, l, y)
      /\ mig.pc = "drives" /\ mig'.pc = "drives" /\ mig'.todo = mig.todo \ {l}
      /\ mig'.known = mig.known /\ (mig.faulty => mig'.faulty)
      /\ UNCHANGED <<legacyVars, ghostVars, volumes>>
      /\ \/ /\ ~Takes(l) \/ u \in mig.seen
            /\ mig'.seen = mig.seen /\ mig'.mapped = mig.mapped /\ UNCHANGED drives
         \/ /\ Takes(l) /\ u \notin mig.seen /\ mig'.seen = mig.seen \cup {u}
            /\ \/ mig'.mapped = mig.mapped /\ mig'.faulty /\ UNCHANGED drives
               \/ /\ mig'.mapped = mig.mapped \cup {l}
                  /\ \/ (u \in DOMAIN drives \/ mig'.faulty) /\ UNCHANGED drives
                     \/ u \notin DOMAIN drives /\ drives' = With(drives, u, NewDrive(l))

VolumeTaken(w) ==
  /\ w \in mig.todo /\ mig.pc = "volumes" /\ mig'.pc = "volumes"
  /\ mig'.todo = mig.todo \ {w} /\ mig'.mapped = mig.mapped /\ mig'.listed = mig.listed
  /\ mig.faulty => mig'.faulty
  /\ UNCHANGED <<legacyVars, ghostVars, drives>>
  /\ \/ /\ DriveOf[w] \notin mig.mapped \/ w \in DOMAIN volumes \/ mig'.faulty
        /\ UNCHANGED volumes
     \/ /\ DriveOf[w] \in mig.mapped
        /\ volumes' = With(volumes, w, [drive |-> FilesystemUUID[DriveOf[w]]])

\* migrateDrives takes the first of the drives that are left.
LEMMA TakesDrive ==
  ASSUME MigType, NEW crd \in BOOLEAN, migrateDrive(crd)
  PROVE  \E l \in mig.todo : DriveTaken(l)
<1>1. PICK l \in mig.todo :
        LET u == FilesystemUUID[l]
            created == drives' = With(drives, u, NewDrive(l))
        IN  /\ mig.pc = "drives" /\ \A y \in mig.todo : Before(DriveOrder, l, y)
            /\ \/ (~Takes(l) \/ u \in mig.seen) /\ mig' = Passed(l) /\ UNCHANGED drives
               \/ /\ Takes(l) /\ u \notin mig.seen
                  /\ \/ mig' = GetFailed(l) /\ UNCHANGED drives
                     \/ u \in DOMAIN drives /\ mig' = Mapped(l, FALSE) /\ UNCHANGED drives
                     \/ u \notin DOMAIN drives /\ mig' = Mapped(l, FALSE) /\ created
                     \/ /\ u \notin DOMAIN drives /\ mig' = Mapped(l, TRUE)
                        /\ created \/ UNCHANGED drives
            /\ UNCHANGED <<legacyVars, ghostVars, volumes>>
  BY DEF migrateDrive, Running, NextIs, Found
<1>2. mig' \in {Passed(l), GetFailed(l), Mapped(l, FALSE), Mapped(l, TRUE)}
  BY <1>1
<1>3. \A m \in {Passed(l), GetFailed(l), Mapped(l, FALSE), Mapped(l, TRUE)} :
        /\ m.pc = mig.pc /\ m.todo = mig.todo \ {l} /\ m.known = mig.known
        /\ mig.faulty => m.faulty
  BY DEF Passed, GetFailed, Mapped, MigType, MigRecord
<1>4. /\ Passed(l).seen = mig.seen /\ Passed(l).mapped = mig.mapped
      /\ GetFailed(l).seen = mig.seen \cup {FilesystemUUID[l]}
      /\ GetFailed(l).mapped = mig.mapped /\ GetFailed(l).faulty
      /\ \A f \in BOOLEAN :
           /\ Mapped(l, f).seen = mig.seen \cup {FilesystemUUID[l]}
           /\ Mapped(l, f).mapped = mig.mapped \cup {l}
           /\ f => Mapped(l, f).faulty
  BY DEF Passed, GetFailed, Mapped, MigType, MigRecord
<1>5. DriveTaken(l)
  BY <1>1, <1>2, <1>3, <1>4 DEF DriveTaken
<1> QED
  BY <1>5

\* migrateVolumes takes a volume that is left.
LEMMA TakesVolume ==
  ASSUME MigType, NEW crd \in BOOLEAN, migrateVolume(crd)
  PROVE  \E w \in mig.todo : VolumeTaken(w)
<1>1. PICK w \in mig.todo :
        LET failed == [Passed(w) EXCEPT !.faulty = TRUE]
            created == volumes' = With(volumes, w, [drive |-> FilesystemUUID[DriveOf[w]]])
        IN  /\ mig.pc = "volumes"
            /\ \/ /\ DriveOf[w] \notin mig.mapped \/ w \in DOMAIN volumes
                  /\ mig' = Passed(w) /\ UNCHANGED volumes
               \/ /\ DriveOf[w] \in mig.mapped
                  /\ \/ mig' = Passed(w) /\ created
                     \/ mig' = failed /\ (created \/ UNCHANGED volumes)
            /\ UNCHANGED <<legacyVars, ghostVars, drives>>
  BY DEF migrateVolume, Running
<1>2. \A m \in {Passed(w), [Passed(w) EXCEPT !.faulty = TRUE]} :
        /\ m.pc = mig.pc /\ m.todo = mig.todo \ {w} /\ m.mapped = mig.mapped
        /\ m.listed = mig.listed /\ (mig.faulty => m.faulty)
  BY DEF Passed, MigType, MigRecord
<1>3. [Passed(w) EXCEPT !.faulty = TRUE].faulty
  BY DEF Passed, MigType, MigRecord
<1>4. VolumeTaken(w)
  BY <1>1, <1>2, <1>3 DEF VolumeTaken
<1> QED
  BY <1>4
\* The drive that is taken is the first of its UUID.
LEMMA TakenIsFirst ==
  ASSUME Phases, Meets, NEW l, DriveTaken(l), Takes(l), FilesystemUUID[l] \notin mig.seen
  PROVE  l \in legacyDrives /\ FirstOfItsUUID(l)
BY DEF Phases, Meets, DriveTaken, FirstOfItsUUID

\* A drive that is made stems from the first of its UUID and lists what was listed.
LEMMA MatchDrive ==
  ASSUME Phases, MatchInv, NEW l, DriveTaken(l)
  PROVE  MatchInv'
<1> USE DEF MatchInv
<1>1. UNCHANGED <<served, driveStatus, legacyDrives, legacyVolumes, provisioned, unlisted, volumes>>
  BY DEF DriveTaken, legacyVars, ghostVars
<1>2. \A k : Takes(k)' = Takes(k) /\ (FirstOfItsUUID(k) => FirstOfItsUUID(k)')
  BY <1>1, FirstStays DEF Takes
<1>3. Meets'
  <2>1. l \in mig.todo /\ mig.pc = "drives" /\ mig'.todo = mig.todo \ {l} /\ mig'.known = mig.known
    BY DEF DriveTaken
  <2>2. mig.seen \subseteq mig'.seen /\ (Takes(l) => FilesystemUUID[l] \in mig'.seen)
    BY DEF DriveTaken
  <2>3. /\ legacyVolumes' \subseteq mig'.known \cup unlisted'
        /\ \A k \in legacyDrives' : Takes(k)' => k \in mig'.todo \/ FilesystemUUID[k] \in mig'.seen
    BY <1>1, <1>2, <2>1, <2>2 DEF Meets
  <2> QED
    BY <2>3 DEF Meets, Takes
<1>4. MapsFirst'
  <2>1. \A k \in mig'.mapped : k \in legacyDrives' /\ Takes(k)' /\ FirstOfItsUUID(k)'
    BY <1>1, <1>2, TakenIsFirst DEF DriveTaken, MapsFirst
  <2> QED
    BY <2>1 DEF MapsFirst, Takes, FirstOfItsUUID
<1>5. DrivesMatch' /\ VolumesMatch'
  <2>1. CASE UNCHANGED drives
    BY <1>1, <2>1, ObjectsKept
  <2>2. CASE drives' # drives
    <3> DEFINE u == FilesystemUUID[l]
    <3>1. /\ Takes(l) /\ u \notin mig.seen /\ u \notin DOMAIN drives
          /\ drives' = With(drives, u, NewDrive(l)) /\ mig.pc = "drives"
      BY <2>2 DEF DriveTaken
    <3>2. l \in legacyDrives /\ FirstOfItsUUID(l)
      BY <3>1, TakenIsFirst
    <3>3. /\ DOMAIN drives' = DOMAIN drives \cup {u} /\ drives'[u] = NewDrive(l)
          /\ \A v \in DOMAIN drives : drives'[v] = drives[v]
      BY <3>1 DEF With
    <3>4. NewDrive(l).from = l /\ NewDrive(l).volumes = {w \in mig.known : DriveOf[w] = l}
      BY DEF NewDrive
    <3>5. ASSUME NEW w \in legacyVolumes \cup DOMAIN volumes, DriveOf[w] = l
          PROVE  w \in NewDrive(l).volumes \/ w \in unlisted
      <4>1. w \in legacyVolumes
        BY <3>2, <3>5 DEF VolumesMatch
      <4> QED
        BY <3>1, <3>4, <3>5, <4>1 DEF Meets
    <3>6. ASSUME NEW v \in DOMAIN drives'
          PROVE  \E k \in LegacyDrives :
                   /\ drives'[v].from = k /\ FilesystemUUID[k] = v /\ Takes(k)'
                   /\ k \in legacyDrives' =>
                        /\ FirstOfItsUUID(k)'
                        /\ \A w \in legacyVolumes' \cup DOMAIN volumes' :
                             DriveOf[w] = k => w \in drives'[v].volumes \/ w \in unlisted'
      <4>1. CASE v = u
        <5>1. l \in LegacyDrives
          BY <3>2 DEF Phases
        <5> QED
          BY <1>1, <1>2, <3>1, <3>2, <3>3, <3>4, <3>5, <4>1, <5>1
      <4>2. CASE v # u
        <5>1. v \in DOMAIN drives /\ drives'[v] = drives[v]
          BY <3>3, <4>2
        <5> QED
          BY <1>1, <1>2, <5>1 DEF DrivesMatch
      <4> QED
        BY <4>1, <4>2
    <3>7. DrivesMatch'
      BY <3>6 DEF DrivesMatch, Takes, FirstOfItsUUID
    <3>8. ASSUME NEW w \in DOMAIN volumes'
          PROVE  /\ w \in LegacyVolumes /\ volumes'[w].drive = FilesystemUUID[DriveOf[w]]
                 /\ Takes(DriveOf[w])'
                 /\ DriveOf[w] \in legacyDrives' =>
                      w \in legacyVolumes' /\ FirstOfItsUUID(DriveOf[w])'
      BY <1>1, <1>2 DEF VolumesMatch
    <3>9. VolumesMatch'
      BY <3>8 DEF VolumesMatch, Takes, FirstOfItsUUID
    <3> QED
      BY <3>7, <3>9
  <2> QED
    BY <2>1, <2>2
<1> QED
  BY <1>3, <1>4, <1>5

\* A volume that is made is on the drive of its legacy drive, which is in the map.
LEMMA MatchVolume ==
  ASSUME Phases, MatchInv, NEW w, VolumeTaken(w)
  PROVE  MatchInv'
<1> USE DEF MatchInv
<1>1. UNCHANGED <<served, driveStatus, legacyDrives, legacyVolumes, provisioned, unlisted, drives>>
  BY DEF VolumeTaken, legacyVars, ghostVars
<1>2. \A k : Takes(k)' = Takes(k) /\ (FirstOfItsUUID(k) => FirstOfItsUUID(k)')
  BY <1>1, FirstStays DEF Takes
<1>3. mig.pc = "volumes" /\ mig'.pc = "volumes" /\ mig'.mapped = mig.mapped
  BY DEF VolumeTaken
<1>4. Meets'
  BY <1>3 DEF Meets
<1>5. MapsFirst'
  <2>1. \A k \in mig'.mapped : k \in legacyDrives' /\ Takes(k)' /\ FirstOfItsUUID(k)'
    BY <1>1, <1>2, <1>3 DEF MapsFirst
  <2> QED
    BY <2>1 DEF MapsFirst, Takes, FirstOfItsUUID
<1>6. DrivesMatch' /\ VolumesMatch'
  <2>1. CASE UNCHANGED volumes
    BY <1>1, <2>1, ObjectsKept
  <2>2. CASE volumes' # volumes
    <3>1. /\ DriveOf[w] \in mig.mapped /\ w \in legacyVolumes /\ w \in LegacyVolumes
          /\ volumes' = With(volumes, w, [drive |-> FilesystemUUID[DriveOf[w]]])
      BY <2>2 DEF VolumeTaken, Phases
    <3>2. /\ DOMAIN volumes' = DOMAIN volumes \cup {w}
          /\ volumes'[w].drive = FilesystemUUID[DriveOf[w]]
          /\ \A v \in DOMAIN volumes : v # w => volumes'[v] = volumes[v]
      BY <3>1 DEF With
    <3>3. ASSUME NEW v \in DOMAIN volumes'
          PROVE  /\ v \in LegacyVolumes /\ volumes'[v].drive = FilesystemUUID[DriveOf[v]]
                 /\ Takes(DriveOf[v])'
                 /\ DriveOf[v] \in legacyDrives' =>
                      v \in legacyVolumes' /\ FirstOfItsUUID(DriveOf[v])'
      <4>1. CASE v = w
        BY <1>1, <1>2, <1>3, <3>1, <3>2, <4>1 DEF MapsFirst
      <4>2. CASE v # w
        BY <1>1, <1>2, <3>2, <4>2 DEF VolumesMatch
      <4> QED
        BY <4>1, <4>2
    <3>4. VolumesMatch'
      BY <3>3 DEF VolumesMatch, Takes, FirstOfItsUUID
    <3>5. ASSUME NEW u \in DOMAIN drives'
          PROVE  \E k \in LegacyDrives :
                   /\ drives'[u].from = k /\ FilesystemUUID[k] = u /\ Takes(k)'
                   /\ k \in legacyDrives' =>
                        /\ FirstOfItsUUID(k)'
                        /\ \A v \in legacyVolumes' \cup DOMAIN volumes' :
                             DriveOf[v] = k => v \in drives'[u].volumes \/ v \in unlisted'
      BY <1>1, <1>2, <3>1, <3>2 DEF DrivesMatch
    <3>6. DrivesMatch'
      BY <3>5 DEF DrivesMatch, Takes, FirstOfItsUUID
    <3> QED
      BY <3>4, <3>6
  <2> QED
    BY <2>1, <2>2
<1> QED
  BY <1>4, <1>5, <1>6

\* Removing drives or volumes leaves the others as they are.
LEMMA MatchRemoval ==
  ASSUME MatchInv, Removal
  PROVE  MatchInv'
<1> USE DEF MatchInv
<1>1. UNCHANGED <<served, driveStatus, legacyDrives, legacyVolumes, provisioned, unlisted, mig>>
  BY DEF Removal, legacyVars, ghostVars
<1>2. /\ DOMAIN drives' \subseteq DOMAIN drives /\ DOMAIN volumes' \subseteq DOMAIN volumes
      /\ \A u \in DOMAIN drives' : drives'[u] = drives[u]
      /\ \A w \in DOMAIN volumes' : volumes'[w] = volumes[w]
  BY DEF Removal
<1>3. Meets' /\ MapsFirst'
  BY <1>1 DEF Meets, MapsFirst, Takes, FirstOfItsUUID
<1>4. DrivesMatch'
  BY <1>1, <1>2 DEF DrivesMatch, Takes, FirstOfItsUUID
<1>5. VolumesMatch'
  BY <1>1, <1>2 DEF VolumesMatch, Takes, FirstOfItsUUID
<1> QED
  BY <1>3, <1>4, <1>5

\* A volume that DirectCSI adds is unlisted, or its drive not migrated yet.
LEMMA MatchProvision ==
  ASSUME Phases, MatchInv, NEW w \in LateVolumes, LegacyProvision(w)
  PROVE  MatchInv'
<1> USE DEF MatchInv
<1>1. /\ UNCHANGED <<driveStatus, legacyDrives, drives, volumes, mig>>
      /\ legacyVolumes' = legacyVolumes \cup {w} /\ w \notin DOMAIN volumes
      /\ unlisted \subseteq unlisted'
      /\ mig.pc = "drives" \/ FilesystemUUID[DriveOf[w]] \in DOMAIN drives => w \in unlisted'
  BY DEF LegacyProvision, Running
<1>2. \A k : Takes(k)' = Takes(k) /\ FirstOfItsUUID(k)' = FirstOfItsUUID(k)
  BY <1>1 DEF Takes, FirstOfItsUUID
<1>3. Meets' /\ MapsFirst'
  BY <1>1 DEF Meets, MapsFirst, Takes, FirstOfItsUUID
<1>4. ASSUME NEW u \in DOMAIN drives
      PROVE  \E l \in LegacyDrives :
               /\ drives[u].from = l /\ FilesystemUUID[l] = u /\ Takes(l)'
               /\ l \in legacyDrives' =>
                    /\ FirstOfItsUUID(l)'
                    /\ \A v \in legacyVolumes' \cup DOMAIN volumes :
                         DriveOf[v] = l => v \in drives[u].volumes \/ v \in unlisted'
  BY <1>1, <1>2 DEF DrivesMatch
<1>5. DrivesMatch'
  BY <1>1, <1>4 DEF DrivesMatch, Takes, FirstOfItsUUID
<1>6. VolumesMatch'
  BY <1>1 DEF VolumesMatch, Takes, FirstOfItsUUID
<1> QED
  BY <1>3, <1>5, <1>6

\* Every step keeps the invariant.
LEMMA MatchStep ==
  ASSUME LostInv, LostInv', MatchInv, Effect
  PROVE  MatchInv'
<1> USE DEF MatchInv
<1>1. CASE Quiet
  <2>1. DrivesMatch' /\ VolumesMatch'
    BY <1>1, ObjectsKept DEF Quiet, clusterVars, legacyVars, ghostVars
  <2>2. Meets' /\ MapsFirst'
    <3>1. CASE UNCHANGED mig
      BY <1>1, <3>1 DEF Quiet, clusterVars, legacyVars, ghostVars, Meets, MapsFirst, Takes,
                        FirstOfItsUUID
    <3>2. CASE mig' = Idle
      BY <3>2 DEF Idle, Meets, MapsFirst
    <3> QED
      BY <1>1, <3>1, <3>2 DEF Quiet
  <2> QED
    BY <2>1, <2>2
<1>2. ASSUME NEW retain \in BOOLEAN, StartMigration(retain) PROVE MatchInv'
  <2>1. DrivesMatch' /\ VolumesMatch'
    BY <1>2, ObjectsKept DEF StartMigration, legacyVars, ghostVars
  <2>2. \/ /\ mig'.pc = "drives" /\ mig'.todo = legacyDrives /\ mig'.known = legacyVolumes
           /\ mig'.mapped = {}
        \/ mig'.pc = "failed"
    BY <1>2 DEF StartMigration, Failed, Idle, ListDrives, LostInv, MigType, MigRecord
  <2>3. Meets' /\ MapsFirst'
    BY <1>2, <2>2 DEF StartMigration, legacyVars, Meets, MapsFirst
  <2> QED
    BY <2>1, <2>3
<1>3. CASE StartVolumes
  <2>1. DrivesMatch' /\ VolumesMatch'
    BY <1>3, ObjectsKept DEF StartVolumes, legacyVars, ghostVars
  <2>2. mig'.pc \in {"volumes", "failed"} /\ mig'.mapped = mig.mapped /\ mig.pc = "drives"
    BY <1>3 DEF StartVolumes, Running, Failed, ListVolumes, LostInv, MigType, MigRecord
  <2>3. Meets' /\ MapsFirst'
    BY <1>3, <2>2 DEF StartVolumes, legacyVars, Meets, MapsFirst, Takes, FirstOfItsUUID
  <2> QED
    BY <2>1, <2>3
<1>4. CASE EndMigration \/ BackupDrives \/ BackupVolumes \/ EndRemove
  <2>1. DrivesMatch' /\ VolumesMatch'
    BY <1>4, ObjectsKept
       DEF EndMigration, BackupDrives, BackupVolumes, EndRemove, legacyVars, ghostVars
  <2>2. mig'.pc \notin {"drives", "volumes"}
    BY <1>4 DEF EndMigration, BackupDrives, BackupVolumes, EndRemove, Goto, Failed, LostInv,
                MigType, MigRecord
  <2> QED
    BY <2>1, <2>2 DEF Meets, MapsFirst
<1>5. CASE RemoveLegacyDrive \/ RemoveLegacyVolume
  <2>1. /\ legacyDrives' \subseteq legacyDrives /\ legacyVolumes' \subseteq legacyVolumes
        /\ legacyVolumes' = legacyVolumes \/ legacyDrives' = {}
        /\ UNCHANGED <<drives, volumes, unlisted, driveStatus>>
    BY <1>5 DEF RemoveLegacyDrive, RemoveLegacyVolume, Running, ghostVars, LostInv, Phases
  <2>2. DrivesMatch' /\ VolumesMatch'
    BY <2>1, ObjectsKept
  <2>3. mig'.pc \notin {"drives", "volumes"}
    BY <1>5 DEF RemoveLegacyDrive, RemoveLegacyVolume, Goto, Failed, LostInv, MigType, MigRecord
  <2> QED
    BY <2>2, <2>3 DEF Meets, MapsFirst
<1>6. ASSUME NEW crd \in BOOLEAN, migrateDrive(crd) \/ migrateVolume(crd) PROVE MatchInv'
  BY <1>6, TakesDrive, TakesVolume, MatchDrive, MatchVolume DEF LostInv
<1> HIDE DEF MatchInv
<1> QED
  BY <1>1, <1>2, <1>3, <1>4, <1>5, <1>6, MatchRemoval, MatchProvision
     DEF Effect, MigrationStep, LostInv

\* Whatever was migrated, removed or left undone by earlier commands (migrateDrives and
\* migrateVolumes go on after an error), a migrated volume is on the drive made of its own
\* legacy drive, which lists it, though several legacy drives may have one UUID.
THEOREM MigrationMatches == Spec => []MigratedMatches
<1>1. Init => LostInv /\ MatchInv
  BY LostInit, MatchInit
<1>2. LostInv /\ MatchInv /\ [Next]_vars => LostInv' /\ MatchInv'
  BY LostStep, MatchStep, EveryEffect
<1>3. MatchInv => MigratedMatches
  BY MatchHolds
<1> QED
  BY <1>1, <1>2, <1>3, PTL DEF Spec
-----------------------------------------------------------------------------
(* The command that a migration belongs to *)

CmdType ==
  cmd = [op |-> cmd.op, todo |-> cmd.todo, legacy |-> cmd.legacy, failed |-> cmd.failed,
         installed |-> cmd.installed]

\* A migration runs under migrate, or as the step of install that is next.
Owned == mig.pc # "idle" => cmd.op = "migrate" \/ Step("install", "Migration")

\* What a step does to the command and the objects.  A step of install makes o or finds it,
\* or fails and ends its task.
Makes(o) ==
  \/ /\ Done(o)
     /\ o = "ServiceAccount" => obj["Namespace"] = "present"
     /\ \/ /\ obj[o] = "absent" /\ obj' = [obj EXCEPT ![o] = "present"]
           /\ UNCHANGED doomed
        \/ /\ obj[o] # "absent" /\ UNCHANGED obj
           /\ doomed' = IF obj[o] = "terminating" THEN doomed \cup {o} ELSE doomed
  \/ EndTask(o)

\* A command begins, and it is not install.
BeginsOther(op) ==
  /\ cmd.op = "none" /\ mig.pc = "idle"
  /\ \/ cmd' = [NoCommand EXCEPT !.op = op]
     \/ \E force \in BOOLEAN : cmd' = [NoCommand EXCEPT !.op = op, !.todo = DeleteSteps(force)]

Control ==
  \/ Install
  \/ \E op \in {"none", "hung", "uninstall"} : BeginsOther(op) /\ UNCHANGED mig
  \/ BeginsOther("migrate")
  \/ InstallDone \/ StartMigrationTask \/ EndMigrationTask
  \/ cmd' = NoCommand /\ mig' = Idle
  \/ cmd.op = "uninstall" /\ UNCHANGED mig /\ (cmd' = NoCommand \/ \E o : Done(o))
  \/ \E o \in Objects : Step("install", o) /\ Makes(o) /\ UNCHANGED mig
  \/ UNCHANGED <<cmd, obj, doomed>> /\ (UNCHANGED mig \/ mig.pc # "idle")
  \/ UNCHANGED <<cmd, doomed, mig>> /\ \E o \in Finalised : Finalise(o)

\* Create and Ensure make an object, find it, or end its task.
LEMMA Making ==
  ASSUME NEW o, Create(o) \/ (Ensure(o) /\ o # "ServiceAccount")
  PROVE  Makes(o) /\ UNCHANGED mig
<1>1. o = "ServiceAccount" => o \in Namespaced
  BY DEF Namespaced
<1>2. CASE Create(o)
  BY <1>1, <1>2 DEF Create, Refused, Made, CallFails, AlreadyExists, Makes, objectFrame
<1>3. CASE Ensure(o) /\ o # "ServiceAccount"
  BY <1>3 DEF Ensure, Refused, Made, CallFails, AlreadyExists, Makes, objectFrame
<1> QED
  BY <1>2, <1>3

\* Every step is, for the command and the objects of the installer, one of these.
LEMMA EveryControl ==
  ASSUME [Next]_vars
  PROVE  Control
<1>1. CASE Install \/ InstallDone \/ StartMigrationTask \/ EndMigrationTask
  BY <1>1 DEF Control
<1>2. CASE InstallFails
  BY <1>2 DEF InstallFails, Begin, Running, BeginsOther, Control
<1>3. CASE Uninstall
  BY <1>3 DEF Uninstall, Begin, Running, BeginsOther, Control
<1>4. CASE MigrateCommand
  BY <1>4 DEF MigrateCommand, Begin, Running, BeginsOther, Control
<1>5. CASE UninstallDone \/ Interrupt
  BY <1>5 DEF UninstallDone, Interrupt, Stop, Control
<1>6. CASE createNamespace \/ createRBAC \/ createCSIDriver \/ createStorageClass
             \/ createDaemonset \/ createDeployment
  <2>1. \E o \in Objects :
          Step("install", o) /\ (Create(o) \/ (Ensure(o) /\ o # "ServiceAccount"))
    BY <1>6
       DEF createNamespace, createRBAC, createServiceAccount, createClusterRole,
           createClusterRoleBinding, createRole, createRoleBinding, createCSIDriver,
           doCreateCSIDriver, createStorageClass, doCreateStorageClass, createDaemonset,
           doCreateDaemonset, doCreateLegacyDaemonset, createDeployment, doCreateDeployment,
           Objects, Steps, GetDefaultTasks, RBAC
  <2> QED
    BY <2>1, Making DEF Control
<1>7. CASE createCRDs
  <2>1. PICK o \in CRDs : Step("install", o) /\ (AlreadyExists(o) \/ Made(o) \/ CallFails(o))
                            /\ UNCHANGED mig
    BY <1>7 DEF createCRDs, updateCRD, objectFrame
  <2>2. o \in Objects /\ o # "ServiceAccount"
    BY DEF CRDs, Objects, Steps, GetDefaultTasks
  <2>3. Makes(o)
    BY <2>1, <2>2 DEF AlreadyExists, Made, CallFails, Makes
  <2> QED
    BY <2>1, <2>2, <2>3 DEF Control
<1>8. CASE Migrating
  BY <1>8
     DEF Migrating, MigrationStep, migrateDrive, StartVolumes, migrateVolume, EndMigration,
         BackupDrives, RemoveLegacyDrive, BackupVolumes, RemoveLegacyVolume, EndRemove, Running,
         Control
<1>9. CASE LegacyDriver
  BY <1>9 DEF LegacyDriver, LegacyProvision, Control
<1>10. CASE \E o \in Finalised : Finalise(o)
  BY <1>10 DEF Finalise, Control
<1>11. ASSUME NEW o, Step("uninstall", o), Delete(o) PROVE Control
  BY <1>11 DEF Step, Delete, Stop, objectFrame, Control
<1>12. CASE deleteNamespace \/ deleteRBAC \/ deleteCSIDriver \/ deleteStorageClass
              \/ deleteDaemonset \/ deleteDeployment
  BY <1>11, <1>12
     DEF deleteNamespace, deleteRBAC, deleteCSIDriver, doDeleteCSIDriver, deleteStorageClass,
         doDeleteStorageClass, deleteDaemonset, deleteDeployment, doDeleteDeployment
<1>13. CASE deleteCRDs
  <2>1. CASE removeVolumes \/ removeDrives \/ removeNodes \/ removeInitRequests
    BY <2>1
       DEF removeVolumes, removeDrives, removeNodes, removeInitRequests, removeFrame, Step, Stop,
           Control
  <2> QED
    BY <1>11, <1>13, <2>1 DEF deleteCRDs
<1>14. CASE UNCHANGED vars
  BY <1>14 DEF vars, migrationVars, Control
<1> QED
  BY <1>1, <1>2, <1>3, <1>4, <1>5, <1>6, <1>7, <1>8, <1>9, <1>10, <1>12, <1>13, <1>14 DEF Next
OwnedInv == CmdType /\ Owned

\* No migration is under way at first.
LEMMA OwnedInit == Init => OwnedInv
BY DEF Init, MigrationInit, Idle, NoCommand, OwnedInv, CmdType, Owned

\* No object is made in the place of the migration.
LEMMA OtherRank == \A o \in Objects : StepOrder[o] \in Int /\ StepOrder[o] # StepOrder["Migration"]
BY DEF Objects, Steps, GetDefaultTasks, RBAC, CRDs, StepOrder

\* No other step of install is taken while its migration runs.
LEMMA OneStep ==
  ASSUME Owned, NEW o \in Objects, Step("install", o)
  PROVE  mig.pc = "idle"
<1>1. StepOrder["Migration"] \in Int
  BY DEF StepOrder
<1> QED
  BY <1>1, OtherRank DEF Owned, Step

\* A migration ends before its command goes on.
LEMMA OwnedStep ==
  ASSUME OwnedInv, MigType, Control
  PROVE  OwnedInv'
<1> USE DEF OwnedInv
<1>1. CASE Install
  <2>1. mig.pc = "idle" /\ UNCHANGED mig
    BY <1>1 DEF Install, Begin, Running
  <2>2. CmdType'
    BY <1>1 DEF Install, Begin, NoCommand, CmdType
  <2> QED
    BY <2>1, <2>2 DEF Owned
<1>2. ASSUME NEW op \in {"none", "hung", "uninstall"}, BeginsOther(op), UNCHANGED mig
      PROVE  OwnedInv'
  BY <1>2 DEF BeginsOther, NoCommand, CmdType, Owned
<1>3. CASE BeginsOther("migrate")
  BY <1>3 DEF BeginsOther, NoCommand, CmdType, Owned
<1>4. CASE InstallDone
  <2>1. mig.pc = "idle" /\ UNCHANGED mig
    BY <1>4 DEF InstallDone, Owned, Step
  <2>2. CmdType'
    BY <1>4 DEF InstallDone, NoCommand, CmdType
  <2> QED
    BY <2>1, <2>2 DEF Owned
<1>5. CASE StartMigrationTask
  BY <1>5 DEF StartMigrationTask, CmdType, Owned, Step
<1>6. CASE EndMigrationTask
  <2>1. mig'.pc = "idle"
    BY <1>6 DEF EndMigrationTask, Idle
  <2>2. cmd.op \in {"install", "migrate"}
    BY <1>6 DEF EndMigrationTask, Owned, Step
  <2>3. cmd' = NoCommand \/ Done("Migration") \/ EndTask("Migration")
    BY <1>6, <2>2 DEF EndMigrationTask
  <2>4. CmdType'
    BY <2>3 DEF NoCommand, Done, EndTask, CmdType
  <2> QED
    BY <2>1, <2>4 DEF Owned
<1>7. CASE cmd' = NoCommand /\ mig' = Idle
  BY <1>7 DEF NoCommand, Idle, CmdType, Owned
<1>8. CASE cmd.op = "uninstall" /\ UNCHANGED mig /\ (cmd' = NoCommand \/ \E o : Done(o))
  BY <1>8 DEF NoCommand, Done, CmdType, Owned, Step
<1>9. ASSUME NEW o \in Objects, Step("install", o), Makes(o), UNCHANGED mig PROVE OwnedInv'
  <2>1. mig.pc = "idle"
    BY <1>9, OneStep
  <2>2. CmdType'
    BY <1>9 DEF Makes, Done, EndTask, CmdType
  <2> QED
    BY <1>9, <2>1, <2>2 DEF Owned
<1>10. CASE UNCHANGED <<cmd, obj, doomed>> /\ (UNCHANGED mig \/ mig.pc # "idle")
  BY <1>10 DEF CmdType, Owned, Step
<1>11. CASE UNCHANGED <<cmd, doomed, mig>> /\ \E o \in Finalised : Finalise(o)
  BY <1>11 DEF CmdType, Owned, Step
<1> HIDE DEF OwnedInv
<1> QED
  BY <1>1, <1>2, <1>3, <1>4, <1>5, <1>6, <1>7, <1>8, <1>9, <1>10, <1>11 DEF Control

-----------------------------------------------------------------------------
(* A migration without failed calls repairs what earlier ones left undone *)

Wanted(l) == l \in legacyDrives /\ Takes(l) /\ FirstOfItsUUID(l)

\* A UUID is seen with a drive that comes before the ones to be taken, so that no drive that
\* is the first of its UUID is passed over.
SeenBefore ==
  mig.pc = "drives" =>
    \A u \in mig.seen : \E k \in legacyDrives \ mig.todo :
      Takes(k) /\ FilesystemUUID[k] = u /\ \A y \in mig.todo : Before(DriveOrder, k, y)

BringsDrives ==
  mig.pc \in {"drives", "volumes"} /\ ~mig.faulty =>
    \A l \in LegacyDrives :
      Wanted(l) =>
        \/ mig.pc = "drives" /\ l \in mig.todo
        \/ l \in mig.mapped /\ FilesystemUUID[l] \in DOMAIN drives

BringsVolumes ==
  mig.pc = "volumes" /\ ~mig.faulty =>
    \A w \in mig.listed : Wanted(DriveOf[w]) => w \in mig.todo \/ w \in DOMAIN volumes

RepairInv == SeenBefore /\ BringsDrives /\ BringsVolumes /\ RerunRepairs

\* No migration has ended at first.
LEMMA RepairInit == Init => RepairInv
BY DEF Init, MigrationInit, Idle, RepairInv, SeenBefore, BringsDrives, BringsVolumes, RerunRepairs

\* Which drives are wanted changes with the legacy drives only.
LEMMA WantedStays ==
  ASSUME UNCHANGED <<legacyDrives, driveStatus>>
  PROVE  \A l : Wanted(l)' = Wanted(l) /\ Takes(l)' = Takes(l)
BY DEF Wanted, Takes, FirstOfItsUUID
\* The parts of the invariant, with what they say about the next state.
LEMMA RepairNext ==
  ASSUME UNCHANGED <<legacyDrives, driveStatus>>,
         mig'.pc = "drives" =>
           \A u \in mig'.seen : \E k \in legacyDrives \ mig'.todo :
             Takes(k) /\ FilesystemUUID[k] = u /\ \A y \in mig'.todo : Before(DriveOrder, k, y),
         mig'.pc \in {"drives", "volumes"} /\ ~mig'.faulty =>
           \A l \in LegacyDrives :
             Wanted(l) =>
               \/ mig'.pc = "drives" /\ l \in mig'.todo
               \/ l \in mig'.mapped /\ FilesystemUUID[l] \in DOMAIN drives',
         mig'.pc = "volumes" /\ ~mig'.faulty =>
           \A w \in mig'.listed :
             Wanted(DriveOf[w]) => w \in mig'.todo \/ w \in DOMAIN volumes',
         mig'.pc \in {"done", "listDrives"} /\ ~mig'.faulty =>
           \A w \in mig'.listed :
             Wanted(DriveOf[w]) => w \in DOMAIN volumes' /\ volumes'[w].drive \in DOMAIN drives'
  PROVE  RepairInv'
<1>1. \A l : Wanted(l)' = Wanted(l) /\ Takes(l)' = Takes(l)
  BY WantedStays
<1>2. SeenBefore'
  BY <1>1 DEF SeenBefore, Takes, Before
<1>3. BringsDrives'
  BY <1>1 DEF BringsDrives, Wanted, Takes, FirstOfItsUUID
<1>4. BringsVolumes'
  BY <1>1 DEF BringsVolumes, Wanted, Takes, FirstOfItsUUID
<1>5. RerunRepairs'
  BY <1>1 DEF RerunRepairs, Wanted, Takes, FirstOfItsUUID
<1> QED
  BY <1>2, <1>3, <1>4, <1>5 DEF RepairInv

\* The first drive of its UUID is taken, and is there afterwards if no call failed.
LEMMA RepairDrive ==
  ASSUME MigType, Phases, RepairInv, NEW l, DriveTaken(l)
  PROVE  RepairInv'
<1> USE DEF RepairInv
<1>1. UNCHANGED <<legacyDrives, driveStatus>>
  BY DEF DriveTaken, legacyVars
<1>2. /\ l \in mig.todo /\ l \in legacyDrives /\ \A y \in mig.todo : Before(DriveOrder, l, y)
      /\ mig.pc = "drives" /\ mig'.pc = "drives" /\ mig'.todo = mig.todo \ {l}
      /\ mig.faulty => mig'.faulty
  BY DEF DriveTaken, Phases
<1>3. ASSUME NEW u \in mig'.seen
      PROVE  \E k \in legacyDrives \ mig'.todo :
               Takes(k) /\ FilesystemUUID[k] = u /\ \A y \in mig'.todo : Before(DriveOrder, k, y)
  <2>1. CASE u \in mig.seen
    BY <1>2, <2>1 DEF SeenBefore
  <2>2. CASE u \notin mig.seen
    <3>1. u = FilesystemUUID[l] /\ Takes(l)
      BY <1>3, <2>2 DEF DriveTaken
    <3> QED
      BY <1>2, <3>1
  <2> QED
    BY <2>1, <2>2
<1>4. ASSUME NEW k \in LegacyDrives, Wanted(k), ~mig'.faulty
      PROVE  k \in mig'.todo \/ (k \in mig'.mapped /\ FilesystemUUID[k] \in DOMAIN drives')
  <2>1. mig.mapped \subseteq mig'.mapped /\ DOMAIN drives \subseteq DOMAIN drives'
    BY DEF DriveTaken, With
  <2>2. CASE k # l
    BY <1>2, <1>4, <2>1, <2>2 DEF BringsDrives
  <2>3. CASE k = l
    <3>1. Takes(l) /\ FirstOfItsUUID(l)
      BY <1>4, <2>3 DEF Wanted
    <3>2. FilesystemUUID[l] \notin mig.seen
      <4>1. SUFFICES ASSUME FilesystemUUID[l] \in mig.seen PROVE FALSE
        OBVIOUS
      <4>2. PICK j \in legacyDrives \ mig.todo :
              Takes(j) /\ FilesystemUUID[j] = FilesystemUUID[l] /\ Before(DriveOrder, j, l)
        BY <1>2, <4>1 DEF SeenBefore
      <4>3. Before(DriveOrder, l, j)
        BY <3>1, <4>2 DEF FirstOfItsUUID
      <4>4. j = l
        BY <4>2, <4>3, OneOrder
      <4> QED
        BY <1>2, <4>2, <4>4
    <3>3. l \in mig'.mapped /\ FilesystemUUID[l] \in DOMAIN drives'
      BY <1>4, <3>1, <3>2 DEF DriveTaken, With
    <3> QED
      BY <2>3, <3>3
  <2> QED
    BY <2>2, <2>3
<1> QED
  BY <1>1, <1>2, <1>3, <1>4, RepairNext

\* A volume of such a drive is there afterwards if no call failed.
LEMMA RepairVolume ==
  ASSUME MigType, RepairInv, NEW w, VolumeTaken(w)
  PROVE  RepairInv'
<1> USE DEF RepairInv
<1>1. UNCHANGED <<legacyDrives, driveStatus, drives>>
  BY DEF VolumeTaken, legacyVars
<1>2. /\ mig.pc = "volumes" /\ mig'.pc = "volumes" /\ mig'.todo = mig.todo \ {w}
      /\ mig'.mapped = mig.mapped /\ mig'.listed = mig.listed /\ (mig.faulty => mig'.faulty)
  BY DEF VolumeTaken
<1>3. ASSUME NEW v \in mig.listed, Wanted(DriveOf[v]), ~mig'.faulty
      PROVE  v \in mig'.todo \/ v \in DOMAIN volumes'
  <2>1. DOMAIN volumes \subseteq DOMAIN volumes'
    BY DEF VolumeTaken, With
  <2>2. CASE v # w
    BY <1>2, <1>3, <2>1, <2>2 DEF BringsVolumes
  <2>3. CASE v = w
    <3>1. DriveOf[w] \in LegacyDrives
      BY <1>3, <2>3, MigrationAssumption DEF MigType, MigRecord
    <3>2. DriveOf[w] \in mig.mapped
      BY <1>2, <1>3, <2>3, <3>1 DEF BringsDrives
    <3> QED
      BY <1>3, <2>1, <2>3, <3>2 DEF VolumeTaken, With
  <2> QED
    BY <2>2, <2>3
<1>4. ~mig'.faulty => \A l \in LegacyDrives :
                        Wanted(l) => l \in mig'.mapped /\ FilesystemUUID[l] \in DOMAIN drives'
  BY <1>1, <1>2 DEF BringsDrives
<1> QED
  BY <1>1, <1>2, <1>3, <1>4, RepairNext

\* Every step keeps the invariant.
LEMMA RepairStep ==
  ASSUME LostInv, MatchInv, OwnedInv, RepairInv, Effect
  PROVE  RepairInv'
<1> USE DEF RepairInv
<1>1. CASE /\ UNCHANGED <<legacyDrives, driveStatus, drives, volumes>>
           /\ UNCHANGED mig \/ mig' = Idle
  <2>1. CASE UNCHANGED mig
    BY <1>1, <2>1 DEF SeenBefore, BringsDrives, BringsVolumes, RerunRepairs, Wanted, Takes,
                      FirstOfItsUUID
  <2>2. CASE mig' = Idle
    BY <2>2 DEF Idle, SeenBefore, BringsDrives, BringsVolumes, RerunRepairs
  <2> QED
    BY <1>1, <2>1, <2>2
<1>2. CASE Quiet
  BY <1>1, <1>2 DEF Quiet, clusterVars, legacyVars
<1>3. CASE Removal
  <2>1. mig'.pc = "idle"
    BY <1>3 DEF Removal, OwnedInv, Owned, Step
  <2> QED
    BY <2>1 DEF SeenBefore, BringsDrives, BringsVolumes, RerunRepairs
<1>4. ASSUME NEW retain \in BOOLEAN, StartMigration(retain) PROVE RepairInv'
  <2>1. \/ mig'.pc = "drives" /\ mig'.todo = legacyDrives /\ mig'.seen = {}
        \/ mig'.pc = "failed"
    BY <1>4 DEF StartMigration, Failed, Idle, ListDrives, LostInv, MigType, MigRecord
  <2>2. UNCHANGED <<legacyDrives, driveStatus>>
    BY <1>4 DEF StartMigration, legacyVars
  <2> QED
    BY <2>1, <2>2, RepairNext DEF Wanted
<1>5. CASE StartVolumes
  <2>1. \/ /\ mig'.pc = "volumes" /\ mig'.todo = legacyVolumes /\ mig'.listed = legacyVolumes
           /\ mig'.mapped = mig.mapped /\ mig'.faulty = mig.faulty
        \/ mig'.pc = "failed"
    BY <1>5 DEF StartVolumes, Failed, ListVolumes, LostInv, MigType, MigRecord
  <2>2. UNCHANGED <<legacyDrives, driveStatus, drives>> /\ mig.pc = "drives" /\ mig.todo = {}
    BY <1>5 DEF StartVolumes, Running, legacyVars
  <2>3. ~mig.faulty => \A l \in LegacyDrives :
                         Wanted(l) => l \in mig.mapped /\ FilesystemUUID[l] \in DOMAIN drives
    BY <2>2 DEF BringsDrives
  <2> QED
    BY <2>1, <2>2, <2>3, RepairNext
<1>6. CASE EndMigration
  <2>1. mig'.pc \in {"done", "listDrives"} /\ mig'.listed = mig.listed /\ mig'.faulty = mig.faulty
    BY <1>6 DEF EndMigration, Goto, LostInv, MigType, MigRecord
  <2>2. /\ UNCHANGED <<legacyDrives, driveStatus, drives, volumes>>
        /\ mig.pc = "volumes" /\ mig.todo = {}
    BY <1>6 DEF EndMigration, Running, legacyVars
  <2>3. ASSUME NEW w \in mig.listed, Wanted(DriveOf[w]), ~mig.faulty
        PROVE  w \in DOMAIN volumes /\ volumes[w].drive \in DOMAIN drives
    <3>1. w \in DOMAIN volumes
      BY <2>2, <2>3 DEF BringsVolumes
    <3>2. volumes[w].drive = FilesystemUUID[DriveOf[w]] /\ DriveOf[w] \in LegacyDrives
      BY <3>1, MigrationAssumption DEF MatchInv, VolumesMatch
    <3> QED
      BY <2>2, <2>3, <3>1, <3>2 DEF BringsDrives
  <2> QED
    BY <2>1, <2>2, <2>3, RepairNext
<1>7. CASE BackupDrives \/ RemoveLegacyDrive \/ BackupVolumes \/ RemoveLegacyVolume
  <2>1. mig'.pc \in {"removeDrives", "removeVolumes", "failed"}
    BY <1>7 DEF BackupDrives, RemoveLegacyDrive, BackupVolumes, RemoveLegacyVolume, Goto, Failed,
                LostInv, MigType, MigRecord
  <2> QED
    BY <2>1 DEF SeenBefore, BringsDrives, BringsVolumes, RerunRepairs
<1>8. CASE EndRemove
  <2>1. mig'.pc = "done" /\ legacyDrives' = {}
    BY <1>8 DEF EndRemove, Running, Goto, legacyVars, LostInv, MigType, MigRecord, Phases
  <2> QED
    BY <2>1 DEF SeenBefore, BringsDrives, BringsVolumes, RerunRepairs
<1>9. ASSUME NEW w \in LateVolumes, LegacyProvision(w) PROVE RepairInv'
  BY <1>1, <1>9 DEF LegacyProvision
<1>10. ASSUME NEW crd \in BOOLEAN, migrateDrive(crd) \/ migrateVolume(crd) PROVE RepairInv'
  BY <1>10, TakesDrive, TakesVolume, RepairDrive, RepairVolume DEF LostInv
<1> HIDE DEF RepairInv
<1> QED
  BY <1>2, <1>3, <1>4, <1>5, <1>6, <1>7, <1>8, <1>9, <1>10 DEF Effect, MigrationStep

\* The commands only log what goes wrong with single objects, and may be stopped anywhere; a
\* run of migrateDrives and migrateVolumes in which no call fails brings over every listed
\* volume whose legacy drive is taken, with its drive, whatever state earlier runs left.
THEOREM RerunIsEnough == Spec => []RerunRepairs
<1> DEFINE Inv == LostInv /\ MatchInv /\ OwnedInv /\ RepairInv
<1>1. Init => Inv
  BY LostInit, MatchInit, OwnedInit, RepairInit
<1>2. Inv /\ [Next]_vars => Inv'
  <2> SUFFICES ASSUME Inv, [Next]_vars PROVE Inv'
    OBVIOUS
  <2>1. Effect /\ Control
    BY EveryEffect, EveryControl
  <2>2. LostInv' /\ MatchInv' /\ RepairInv'
    BY <2>1, LostStep, MatchStep, RepairStep
  <2>3. OwnedInv'
    BY <2>1, OwnedStep DEF LostInv
  <2> QED
    BY <2>2, <2>3
<1>3. Inv => RerunRepairs
  BY DEF RepairInv
<1> QED
  BY <1>1, <1>2, <1>3, PTL DEF Spec
-----------------------------------------------------------------------------
(* Install reports success only with everything in its place *)

ObjType == obj \in [Objects -> {"absent", "present", "terminating"}]

\* Nothing in the namespace is made before the service account, which is made only if the
\* namespace is there and not being deleted; from then on the namespace stays.
Progress ==
  cmd.op = "install" /\ ~cmd.failed =>
    /\ \A o \in Steps(cmd.legacy) \ {"Migration"} :
         o \in cmd.todo \/ obj[o] = "present" \/ o \in doomed
    /\ "ServiceAccount" \notin cmd.todo => obj["Namespace"] = "present"
    /\ "ServiceAccount" \in cmd.todo => Steps(cmd.legacy) \ {"Namespace"} \subseteq cmd.todo

Reported == cmd.installed => cmd.op = "none" /\ obj["Namespace"] = "present" /\ InstalledIsComplete

CompleteInv == ObjType /\ Progress /\ Reported

\* Nothing is installed at first.
LEMMA CompleteInit == Init => CompleteInv
BY DEF Init, NoCommand, CompleteInv, ObjType, Progress, Reported

\* Objects are absent, present or being deleted, whatever a call does.
LEMMA MadeType ==
  ASSUME ObjType, NEW o \in Objects, Create(o) \/ Ensure(o) \/ Delete(o) \/ Made(o) \/ CallFails(o)
  PROVE  ObjType'
<1>1. CASE UNCHANGED obj \/ obj' = [obj EXCEPT ![o] = "present"]
  BY <1>1 DEF ObjType
<1>2. CASE Delete(o)
  BY <1>2 DEF Delete, ObjType
<1> QED
  BY <1>1, <1>2 DEF Create, Ensure, Refused, Made, CallFails, AlreadyExists

\* The objects of the tasks.
LEMMA ObjectNames ==
  /\ {"Namespace", "DaemonSet", "LegacyDaemonSet", "CSIDriver", "LegacyCSIDriver", "StorageClass",
      "LegacyStorageClass", "Deployment", "LegacyDeployment"} \subseteq Objects
  /\ RBAC \subseteq Objects /\ CRDs \subseteq Objects
BY DEF Objects, Steps, GetDefaultTasks, RBAC, CRDs

\* So they are after every step.
LEMMA ObjStep ==
  ASSUME ObjType, [Next]_vars
  PROVE  ObjType'
<1>1. CASE UNCHANGED obj
  BY <1>1 DEF ObjType
<1>2. CASE Install \/ InstallFails \/ Uninstall \/ MigrateCommand \/ InstallDone \/ UninstallDone
             \/ Interrupt \/ StartMigrationTask \/ Migrating \/ EndMigrationTask \/ LegacyDriver
             \/ UNCHANGED vars
  BY <1>1, <1>2
     DEF Install, InstallFails, Uninstall, MigrateCommand, InstallDone, UninstallDone, Interrupt,
         StartMigrationTask, Migrating, EndMigrationTask, LegacyDriver, vars
<1>3. CASE createNamespace \/ createRBAC \/ createCSIDriver \/ createStorageClass
             \/ createDaemonset \/ createDeployment
  BY <1>3, ObjectNames, MadeType
     DEF createNamespace, createRBAC, createServiceAccount, createClusterRole,
         createClusterRoleBinding, createRole, createRoleBinding, createCSIDriver,
         doCreateCSIDriver, createStorageClass, doCreateStorageClass, createDaemonset,
         doCreateDaemonset, doCreateLegacyDaemonset, createDeployment, doCreateDeployment, RBAC
<1>4. CASE createCRDs
  BY <1>1, <1>4, ObjectNames, MadeType DEF createCRDs, updateCRD, AlreadyExists
<1>5. CASE deleteNamespace \/ deleteRBAC \/ deleteCSIDriver \/ deleteStorageClass
             \/ deleteDaemonset \/ deleteDeployment
  BY <1>5, ObjectNames, MadeType
     DEF deleteNamespace, deleteRBAC, deleteCSIDriver, doDeleteCSIDriver, deleteStorageClass,
         doDeleteStorageClass, deleteDaemonset, deleteDeployment, doDeleteDeployment
<1>6. CASE deleteCRDs
  BY <1>1, <1>6, ObjectNames, MadeType
     DEF deleteCRDs, removeVolumes, removeDrives, removeNodes, removeInitRequests, removeFrame
<1>7. CASE \E o \in Finalised : Finalise(o)
  BY <1>7 DEF Finalise, ObjType
<1> QED
  BY <1>2, <1>3, <1>4, <1>5, <1>6, <1>7 DEF Next

\* The first steps of install.
LEMMA FirstSteps ==
  /\ \A o \in Steps(TRUE) : StepOrder[o] \in Int
  /\ \A o \in Steps(TRUE) :
       StepOrder[o] <= StepOrder["ServiceAccount"] => o \in {"Namespace", "ServiceAccount"}
  /\ \A legacy : Steps(legacy) \subseteq Steps(TRUE)
  /\ {"Namespace", "ServiceAccount", "Migration"} \subseteq Steps(TRUE)
  /\ Objects \subseteq Steps(TRUE) /\ "Migration" \notin Objects
  /\ Namespaced \subseteq Objects /\ "Namespace" \notin Namespaced
<1>1. /\ \A o \in Steps(TRUE) : StepOrder[o] \in Int
      /\ \A o \in Steps(TRUE) :
           StepOrder[o] <= StepOrder["ServiceAccount"] => o \in {"Namespace", "ServiceAccount"}
  BY DEF Steps, GetDefaultTasks, RBAC, CRDs, StepOrder
<1>2. \A legacy : Steps(legacy) \subseteq Steps(TRUE)
  BY DEF Steps, GetDefaultTasks
<1>3. /\ {"Namespace", "ServiceAccount", "Migration"} \subseteq Steps(TRUE)
      /\ Objects \subseteq Steps(TRUE) /\ "Migration" \notin Objects
  BY DEF Objects, Steps, GetDefaultTasks, RBAC
<1>4. Namespaced \subseteq Objects /\ "Namespace" \notin Namespaced
  BY ObjectNames DEF Namespaced, RBAC
<1> QED
  BY <1>1, <1>2, <1>3, <1>4
\* A step of install that succeeds: the object is there, or doomed.
LEMMA ProgressDone ==
  ASSUME ObjType, CmdType, Progress, NEW o \in Objects, Step("install", o), Makes(o), Done(o),
         ~cmd.failed, ObjType'
  PROVE  Progress'
<1>1. /\ cmd.op = "install" /\ o \in cmd.todo /\ cmd'.legacy = cmd.legacy
      /\ cmd'.todo = cmd.todo \ {o}
  BY DEF Step, Done, CmdType
<1>2. CASE cmd'.failed
  BY <1>2 DEF Progress
<1>3. CASE ~cmd'.failed
  <2>1. /\ o = "ServiceAccount" => obj["Namespace"] = "present"
        /\ obj'[o] = "present" \/ o \in doomed'
        /\ \A p \in Objects \ {o} : obj'[p] = obj[p]
        /\ obj["Namespace"] = "present" => obj'["Namespace"] = "present"
        /\ doomed \subseteq doomed'
    <3>1. ~EndTask(o)
      BY <1>3 DEF EndTask, CmdType
    <3> QED
      BY <3>1, ObjectNames DEF Makes, ObjType
  <2>2. ASSUME NEW p \in Steps(cmd'.legacy) \ {"Migration"}
        PROVE  p \in cmd'.todo \/ obj'[p] = "present" \/ p \in doomed'
    <3>1. p \in Objects
      BY FirstSteps DEF Objects
    <3> QED
      BY <1>1, <1>3, <2>1, <3>1 DEF Progress
  <2>3. "ServiceAccount" \notin cmd'.todo => obj'["Namespace"] = "present"
    BY <1>1, <2>1 DEF Progress
  <2>4. "ServiceAccount" \in cmd'.todo => Steps(cmd'.legacy) \ {"Namespace"} \subseteq cmd'.todo
    <3> SUFFICES ASSUME "ServiceAccount" \in cmd'.todo
                 PROVE  Steps(cmd'.legacy) \ {"Namespace"} \subseteq cmd'.todo
      OBVIOUS
    <3>1. o = "Namespace"
      BY <1>1, FirstSteps DEF Step
    <3> QED
      BY <1>1, <3>1 DEF Progress
  <2> QED
    BY <2>2, <2>3, <2>4 DEF Progress
<1> QED
  BY <1>2, <1>3

\* Kubernetes finalises what is not, or no longer, in its place.
LEMMA ProgressFinalise ==
  ASSUME CompleteInv, NEW o \in Finalised, Finalise(o), UNCHANGED <<cmd, doomed>>
  PROVE  Progress' /\ Reported'
<1> USE DEF CompleteInv
<1>1. obj[o] = "terminating" /\ \A p \in Objects : obj[p] = "present" =>
        obj'[p] = "present" \/ (o = "Namespace" /\ p \in Namespaced)
  BY DEF Finalise
<1>2. Progress'
  <2>1. CASE cmd.op = "install" /\ ~cmd.failed
    <3>1. ASSUME NEW p \in Steps(cmd.legacy) \ {"Migration"}
          PROVE  p \in cmd.todo \/ obj'[p] = "present" \/ p \in doomed
      <4>1. p \in Objects
        BY FirstSteps DEF Objects
      <4>2. CASE o = "Namespace" /\ p \in Namespaced
        BY <1>1, <2>1, <4>2, FirstSteps DEF Progress
      <4>3. CASE ~(o = "Namespace" /\ p \in Namespaced)
        BY <1>1, <2>1, <4>1, <4>3 DEF Progress
      <4> QED
        BY <4>2, <4>3
    <3>2. "ServiceAccount" \notin cmd.todo => obj'["Namespace"] = "present"
      BY <1>1, <2>1, ObjectNames, FirstSteps DEF Progress
    <3>3. "ServiceAccount" \in cmd.todo => Steps(cmd.legacy) \ {"Namespace"} \subseteq cmd.todo
      BY <2>1 DEF Progress
    <3> QED
      BY <3>1, <3>2, <3>3 DEF Progress
  <2>2. CASE ~(cmd.op = "install" /\ ~cmd.failed)
    BY <2>2 DEF Progress
  <2> QED
    BY <2>1, <2>2
<1>3. Reported'
  <2> SUFFICES ASSUME cmd.installed PROVE Reported'
    BY DEF Reported
  <2>1. cmd.op = "none" /\ obj["Namespace"] = "present" /\ InstalledIsComplete
    BY DEF Reported
  <2>2. obj'["Namespace"] = "present" /\ o # "Namespace"
    BY <1>1, <2>1, ObjectNames, FirstSteps
  <2>3. ASSUME NEW p \in Steps(cmd.legacy) \ {"Migration"}
        PROVE  obj'[p] = "present" \/ p \in doomed
    <3>1. p \in Objects
      BY FirstSteps DEF Objects
    <3> QED
      BY <1>1, <2>1, <2>2, <3>1 DEF InstalledIsComplete
  <2> QED
    BY <2>1, <2>2, <2>3 DEF Reported, InstalledIsComplete
<1> QED
  BY <1>2, <1>3

\* Every step keeps the invariant.
LEMMA CompleteStep ==
  ASSUME CompleteInv, OwnedInv, Control, ObjType'
  PROVE  Progress' /\ Reported'
<1> USE DEF CompleteInv, OwnedInv
<1>1. CASE Install
  <2>1. PICK legacy \in BOOLEAN :
          cmd' = [NoCommand EXCEPT !.op = "install", !.todo = Steps(legacy), !.legacy = legacy]
    BY <1>1 DEF Install, Begin
  <2>2. /\ cmd'.todo = Steps(cmd'.legacy) /\ ~cmd'.installed
        /\ "ServiceAccount" \in Steps(cmd'.legacy)
    BY <2>1 DEF NoCommand, Steps, GetDefaultTasks, RBAC
  <2> QED
    BY <2>2 DEF Progress, Reported
<1>2. ASSUME NEW op \in {"none", "hung", "uninstall", "migrate"}, BeginsOther(op)
      PROVE  Progress' /\ Reported'
  BY <1>2 DEF BeginsOther, NoCommand, Progress, Reported
<1>3. CASE InstallDone
  <2>1. cmd.op = "install" /\ cmd.todo = {} /\ UNCHANGED <<obj, doomed>>
    BY <1>3 DEF InstallDone
  <2>2. CASE cmd' = NoCommand
    BY <2>2 DEF NoCommand, Progress, Reported
  <2>3. CASE ~cmd.failed /\ cmd' = [cmd EXCEPT !.op = "none", !.installed = TRUE]
    <3>1. cmd'.op = "none" /\ cmd'.legacy = cmd.legacy
      BY <2>3 DEF CmdType
    <3>2. /\ obj["Namespace"] = "present"
          /\ \A o \in Steps(cmd.legacy) \ {"Migration"} : obj[o] = "present" \/ o \in doomed
      BY <2>1, <2>3 DEF Progress
    <3> QED
      BY <2>1, <3>1, <3>2 DEF Progress, Reported, InstalledIsComplete
  <2> QED
    BY <1>3, <2>2, <2>3 DEF InstallDone
<1>4. CASE EndMigrationTask
  <2>1. UNCHANGED <<obj, doomed>> /\ cmd.op \in {"install", "migrate"} /\ ~cmd.installed
    BY <1>4 DEF EndMigrationTask, Owned, Step, Reported
  <2>2. CASE cmd' = NoCommand
    BY <2>2 DEF NoCommand, Progress, Reported
  <2>3. CASE cmd.op = "install" /\ EndTask("Migration")
    BY <2>1, <2>3 DEF EndTask, CmdType, Progress, Reported
  <2>4. CASE cmd.op = "install" /\ Done("Migration")
    <3>1. /\ cmd'.op = "install" /\ cmd'.legacy = cmd.legacy /\ cmd'.failed = cmd.failed
          /\ cmd'.todo = cmd.todo \ {"Migration"} /\ ~cmd'.installed
      BY <2>1, <2>4 DEF Done, CmdType
    <3>2. Step("install", "Migration")
      BY <1>4, <2>4 DEF EndMigrationTask, Owned
    <3>3. "ServiceAccount" \notin cmd.todo
      BY <3>2, FirstSteps DEF Step
    <3> QED
      BY <2>1, <2>4, <3>1, <3>3 DEF Progress, Reported
  <2> QED
    BY <1>4, <2>1, <2>2, <2>3, <2>4 DEF EndMigrationTask
<1>5. CASE cmd' = NoCommand
  BY <1>5 DEF NoCommand, Progress, Reported
<1>6. CASE cmd.op = "uninstall" /\ \E o : Done(o)
  BY <1>6 DEF Done, CmdType, Progress, Reported
<1>7. ASSUME NEW o \in Objects, Step("install", o), Makes(o) PROVE Progress' /\ Reported'
  <2>1. cmd.op = "install" /\ ~cmd.installed
    BY <1>7 DEF Step, Reported
  <2>2. CASE EndTask(o)
    BY <2>1, <2>2 DEF EndTask, CmdType, Progress, Reported
  <2>3. CASE Done(o)
    <3>1. cmd'.failed = cmd.failed /\ ~cmd'.installed
      BY <2>1, <2>3 DEF Done, CmdType
    <3>2. CASE cmd.failed
      BY <3>1, <3>2 DEF Progress, Reported
    <3>3. CASE ~cmd.failed
      BY <1>7, <2>3, <3>1, <3>3, ProgressDone DEF Reported
    <3> QED
      BY <3>2, <3>3
  <2> QED
    BY <1>7, <2>2, <2>3 DEF Makes
<1>8. CASE UNCHANGED <<cmd, obj, doomed>>
  BY <1>8 DEF Progress, Reported, InstalledIsComplete
<1>9. CASE UNCHANGED <<cmd, doomed, mig>> /\ \E o \in Finalised : Finalise(o)
  BY <1>9, ProgressFinalise
<1> HIDE DEF CompleteInv, OwnedInv
<1> QED
  BY <1>1, <1>2, <1>3, <1>4, <1>5, <1>6, <1>7, <1>8, <1>9 DEF Control, StartMigrationTask

\* When Install reports success (each task's objects are made one by one, what exists is no
\* error, and a task that fails is not the end), every object of every task is there, but
\* for those that were still being deleted when install met them.
THEOREM InstallIsComplete == Spec => []InstalledIsComplete
<1> DEFINE Inv == LostInv /\ OwnedInv /\ CompleteInv
<1>1. Init => Inv
  BY LostInit, OwnedInit, CompleteInit
<1>2. Inv /\ [Next]_vars => Inv'
  <2> SUFFICES ASSUME Inv, [Next]_vars PROVE Inv'
    OBVIOUS
  <2>1. Effect /\ Control
    BY EveryEffect, EveryControl
  <2>2. LostInv'
    BY <2>1, LostStep
  <2>3. OwnedInv'
    BY <2>1, OwnedStep DEF LostInv
  <2>4. ObjType'
    BY ObjStep DEF CompleteInv
  <2>5. CompleteInv'
    BY <2>1, <2>4, CompleteStep DEF CompleteInv
  <2> QED
    BY <2>2, <2>3, <2>5
<1>3. Inv => InstalledIsComplete
  BY DEF CompleteInv, Reported, InstalledIsComplete
<1> QED
  BY <1>1, <1>2, <1>3, PTL DEF Spec
=============================================================================
