---------------------------- MODULE Installation -----------------------------
(***************************************************************************)
(* The install, uninstall and migrate commands.                            *)
(*                                                                         *)
(* Install runs its tasks in order; a task that fails ends at that object, *)
(* is reported, and the next task runs.  Uninstall deletes the objects of  *)
(* the same tasks and stops at the first error.  Creating what exists and  *)
(* deleting what does not is no error.  A command may fail or stop at any  *)
(* call and is run again.                                                  *)
(*                                                                         *)
(* A deleted namespace, storage class or CRD lives on until Kubernetes has *)
(* finalised it.  Dry-run and declarative modes only print and are left    *)
(* out, as is what the objects say.                                        *)
(***************************************************************************)
EXTENDS LegacyMigration

CONSTANTS
  MaxCommands   \* bound: commands run

ASSUME InstallationAssumption == MaxCommands \in Nat

VARIABLES
  obj,       \* state of each Kubernetes object
  cmd,       \* the command under way
  doomed,    \* objects a command took for installed that were being deleted
  commands

vars == <<migrationVars, obj, cmd, doomed, commands>>

\* The steps of all tasks, each named for the object it makes or removes, and the order in
\* which they are taken
StepOrder == [
  Namespace |-> 1,
  ServiceAccount |-> 2, ClusterRole |-> 3, ClusterRoleBinding |-> 4, Role |-> 5, RoleBinding |-> 6,
  removeVolumes |-> 7, removeDrives |-> 8, removeNodes |-> 9, removeInitRequests |-> 10,
  DriveCRD |-> 11, VolumeCRD |-> 12, NodeCRD |-> 13, InitRequestCRD |-> 14,
  Migration |-> 15,
  CSIDriver |-> 16, LegacyCSIDriver |-> 17, StorageClass |-> 18, LegacyStorageClass |-> 19,
  DaemonSet |-> 20, LegacyDaemonSet |-> 21, Deployment |-> 22, LegacyDeployment |-> 23 ]

RBAC == {"ServiceAccount", "ClusterRole", "ClusterRoleBinding", "Role", "RoleBinding"}
CRDs == {"DriveCRD", "VolumeCRD", "NodeCRD", "InitRequestCRD"}

\* The tasks of Install, each with its steps
GetDefaultTasks(legacy) ==
  LET pair(o, l) == IF legacy THEN {o, l} ELSE {o}
  IN  { {"Namespace"}, RBAC, CRDs, IF legacy THEN {"Migration"} ELSE {},
        pair("CSIDriver", "LegacyCSIDriver"), pair("StorageClass", "LegacyStorageClass"),
        pair("DaemonSet", "LegacyDaemonSet"), pair("Deployment", "LegacyDeployment") }

Steps(legacy) == UNION GetDefaultTasks(legacy)
Objects == Steps(TRUE) \ {"Migration"}
Namespaced == {"ServiceAccount", "Role", "RoleBinding", "DaemonSet", "LegacyDaemonSet",
               "Deployment", "LegacyDeployment"}
\* Objects Kubernetes finalises after their deletion
Finalised == {"Namespace", "StorageClass", "LegacyStorageClass"} \cup CRDs

NoCommand == [op |-> "none", todo |-> {}, legacy |-> FALSE, failed |-> FALSE, installed |-> FALSE]

Init ==
  /\ MigrationInit
  /\ obj = [o \in Objects |-> "absent"]
  /\ cmd = NoCommand /\ doomed = {} /\ commands = 0

clusterVars == <<legacyVars, ghostVars, drives, volumes, backup>>

-----------------------------------------------------------------------------
(* Commands and their tasks *)

Begin(c) ==
  /\ cmd.op = "none" /\ Running("idle") /\ commands < MaxCommands
  /\ commands' = commands + 1
  /\ cmd' = c /\ doomed' = {}

\* isLegacyEnabled: whether there are migrated or legacy volumes; an error means no.
isLegacyEnabled == DOMAIN volumes # {} \/ legacyVolumes # {}

\* installMain, Install: the version of Kubernetes is asked and the tasks are run.
Install ==
  /\ \E legacy \in BOOLEAN :
       /\ Begin([NoCommand EXCEPT !.op = "install", !.todo = Steps(legacy), !.legacy = legacy])
       /\ IF legacy = isLegacyEnabled THEN NoFault ELSE ~legacy /\ Fault
  /\ UNCHANGED <<clusterVars, mig, obj>>

\* The version of Kubernetes cannot be had: with a progress channel, which nobody closes,
\* installMain waits for ever.
InstallFails ==
  /\ \E quiet \in BOOLEAN :
       Begin([NoCommand EXCEPT !.op = IF quiet THEN "none" ELSE "hung"])
  /\ Fault
  /\ UNCHANGED <<clusterVars, mig, obj>>

\* Uninstall has the tasks of Install but the migration, and CRDs only with --force.
DeleteSteps(force) ==
  LET removals == {"removeVolumes", "removeDrives", "removeNodes", "removeInitRequests"}
  IN  IF force THEN Objects \cup removals ELSE Objects \ CRDs

Uninstall ==
  /\ \E force \in BOOLEAN :
       Begin([NoCommand EXCEPT !.op = "uninstall", !.todo = DeleteSteps(force)])
  /\ NoFault /\ UNCHANGED <<clusterVars, mig, obj>>

MigrateCommand ==
  /\ \E retain \in BOOLEAN :
       /\ Begin([NoCommand EXCEPT !.op = "migrate"])
       /\ StartMigration(retain)
  /\ UNCHANGED obj

Step(op, o) == cmd.op = op /\ o \in cmd.todo /\ \A p \in cmd.todo : StepOrder[o] <= StepOrder[p]

\* Step o is done.
Done(o) == cmd' = [cmd EXCEPT !.todo = @ \ {o}]

\* Faulty variant of EndTask: the error of the task is not looked at.
EndTask_ignored(o) ==
  cmd' = [cmd EXCEPT !.todo = @ \ UNION {t \in GetDefaultTasks(TRUE) : o \in t}]

\* Step o of Install failed: the error ends its task and is reported, and Install goes on.
EndTask(o) ==
  cmd' = [cmd EXCEPT !.todo = @ \ UNION {t \in GetDefaultTasks(TRUE) : o \in t}, !.failed = TRUE]

\* An error ends Uninstall and migrate.
Stop == cmd' = NoCommand

\* All tasks are done.  With a progress channel (no --quiet) success is reported if no task
\* failed; the deferred close may have been given the channel before it was set, and then
\* ends the process.
InstallDone ==
  /\ cmd.op = "install" /\ cmd.todo = {}
  /\ \/ ~cmd.failed /\ cmd' = [cmd EXCEPT !.op = "none", !.installed = TRUE]
     \/ cmd' = NoCommand
  /\ NoFault /\ UNCHANGED <<clusterVars, mig, obj, doomed, commands>>

UninstallDone ==
  /\ cmd.op = "uninstall" /\ cmd.todo = {}
  /\ cmd' = NoCommand
  /\ NoFault /\ UNCHANGED <<clusterVars, mig, obj, doomed, commands>>

\* The command is interrupted.
Interrupt ==
  /\ cmd.op # "none" /\ Fault
  /\ Stop /\ mig' = Idle
  /\ UNCHANGED <<clusterVars, obj, doomed, commands>>

-----------------------------------------------------------------------------
(* The API server *)

objectFrame == <<clusterVars, mig, commands>>

\* o is there already: what is being deleted counts as there.
AlreadyExists(o) ==
  /\ obj[o] # "absent" /\ Done(o) /\ NoFault
  /\ doomed' = IF obj[o] = "terminating" THEN doomed \cup {o} ELSE doomed
  /\ UNCHANGED obj

\* o is made.  Nothing is made in a namespace that is gone or being deleted.
Made(o) ==
  /\ obj[o] = "absent" /\ (o \in Namespaced => obj["Namespace"] = "present")
  /\ Done(o) /\ NoFault
  /\ obj' = [obj EXCEPT ![o] = "present"] /\ UNCHANGED doomed

Refused(o) ==
  /\ o \in Namespaced /\ obj["Namespace"] # "present"
  /\ EndTask(o) /\ NoFault /\ UNCHANGED <<obj, doomed>>

\* A call of the step fails; it may have made o.
CallFails(o) ==
  /\ EndTask(o) /\ Fault /\ UNCHANGED doomed
  /\ \/ UNCHANGED obj
     \/ /\ obj[o] = "absent" /\ (o \in Namespaced => obj["Namespace"] = "present")
        /\ obj' = [obj EXCEPT ![o] = "present"]

\* Create; AlreadyExists is no error.
Create(o) ==
  /\ \/ Refused(o) \/ Made(o) \/ CallFails(o)
     \/ (o \in Namespaced => obj["Namespace"] = "present") /\ AlreadyExists(o)
  /\ UNCHANGED objectFrame

\* Get, and Create if there is none
Ensure(o) ==
  /\ \/ AlreadyExists(o) \/ Made(o) \/ CallFails(o)
     \/ obj[o] = "absent" /\ Refused(o)
  /\ UNCHANGED objectFrame

\* Delete; NotFound is no error.
Delete(o) ==
  LET deleted == obj' = [obj EXCEPT ![o] =
        IF @ = "present" /\ o \notin Finalised THEN "absent"
        ELSE IF @ = "present" THEN "terminating" ELSE @]
  IN  /\ \/ Done(o) /\ NoFault /\ deleted
         \/ Stop /\ Fault /\ (deleted \/ UNCHANGED obj)
      /\ UNCHANGED <<objectFrame, doomed>>

\* Kubernetes finalises what was deleted: a namespace takes with it all that is in it, a
\* CRD waits for its objects to be gone.
Finalise(o) ==
  /\ obj[o] = "terminating"
  /\ o = "DriveCRD" => DOMAIN drives = {}
  /\ o = "VolumeCRD" => DOMAIN volumes = {}
  /\ obj' = [p \in Objects |->
               IF p = o \/ (o = "Namespace" /\ p \in Namespaced) THEN "absent" ELSE obj[p]]
  /\ NoFault /\ UNCHANGED <<clusterVars, mig, cmd, doomed, commands>>

-----------------------------------------------------------------------------
(* Tasks of Install *)

createNamespace == Step("install", "Namespace") /\ Create("Namespace")

createServiceAccount == Step("install", "ServiceAccount") /\ Create("ServiceAccount")
createClusterRole == Step("install", "ClusterRole") /\ Create("ClusterRole")
createClusterRoleBinding ==
  Step("install", "ClusterRoleBinding") /\ Create("ClusterRoleBinding")
createRole == Step("install", "Role") /\ Create("Role")
createRoleBinding == Step("install", "RoleBinding") /\ Create("RoleBinding")

createRBAC ==
  createServiceAccount \/ createClusterRole \/ createClusterRoleBinding \/ createRole
    \/ createRoleBinding

\* A CRD that exists has the only version there is and is left alone.
updateCRD(o) == AlreadyExists(o)

createCRDs ==
  \E o \in CRDs :
    /\ Step("install", o)
    /\ updateCRD(o) \/ Made(o) \/ CallFails(o)
    /\ UNCHANGED objectFrame

\* The probe of the version of the storage API, which may fail, and Create
doCreateCSIDriver(o) == Create(o)
createCSIDriver ==
  \E o \in {"CSIDriver", "LegacyCSIDriver"} : Step("install", o) /\ doCreateCSIDriver(o)

doCreateStorageClass(o) == Create(o)
createStorageClass ==
  \E o \in {"StorageClass", "LegacyStorageClass"} :
    Step("install", o) /\ doCreateStorageClass(o)

doCreateDaemonset == Step("install", "DaemonSet") /\ Ensure("DaemonSet")
doCreateLegacyDaemonset == Step("install", "LegacyDaemonSet") /\ Ensure("LegacyDaemonSet")
createDaemonset == doCreateDaemonset \/ doCreateLegacyDaemonset

doCreateDeployment(o) == Create(o)
createDeployment ==
  \E o \in {"Deployment", "LegacyDeployment"} : Step("install", o) /\ doCreateDeployment(o)

\* The Migration task retains the legacy objects.
StartMigrationTask ==
  /\ Step("install", "Migration")
  /\ StartMigration(TRUE)
  /\ UNCHANGED <<obj, cmd, doomed, commands>>

\* A DirectPV object is made only while its CRD is there.
Migrating ==
  /\ MigrationStep(obj["DriveCRD"] = "present", obj["VolumeCRD"] = "present")
  /\ UNCHANGED <<obj, cmd, doomed, commands>>

EndMigrationTask ==
  /\ mig.pc \in {"done", "failed"}
  /\ mig' = Idle
  /\ CASE cmd.op = "install" -> IF Running("done") THEN Done("Migration") ELSE EndTask("Migration")
       [] cmd.op = "migrate" ->
            cmd' = NoCommand
  /\ NoFault /\ UNCHANGED <<clusterVars, obj, doomed, commands>>

-----------------------------------------------------------------------------
(* Tasks of Uninstall *)

deleteNamespace == Step("uninstall", "Namespace") /\ Delete("Namespace")

deleteRBAC == \E o \in RBAC : Step("uninstall", o) /\ Delete(o)

doDeleteCSIDriver(o) == Delete(o)
deleteCSIDriver ==
  \E o \in {"CSIDriver", "LegacyCSIDriver"} : Step("uninstall", o) /\ doDeleteCSIDriver(o)

doDeleteStorageClass(o) == Delete(o)
deleteStorageClass ==
  \E o \in {"StorageClass", "LegacyStorageClass"} :
    Step("uninstall", o) /\ doDeleteStorageClass(o)

deleteDaemonset ==
  \E o \in {"DaemonSet", "LegacyDaemonSet"} : Step("uninstall", o) /\ Delete(o)

doDeleteDeployment(o) == Delete(o)
deleteDeployment ==
  \E o \in {"Deployment", "LegacyDeployment"} : Step("uninstall", o) /\ doDeleteDeployment(o)

removeFrame == <<legacyVars, ghostVars, backup, mig, obj, doomed, commands>>

\* Objects of a kind are removed one by one; a failed call leaves some of them.
removeVolumes ==
  /\ Step("uninstall", "removeVolumes")
  /\ \/ volumes' = <<>> /\ Done("removeVolumes") /\ NoFault
     \/ /\ Stop /\ Fault
        /\ \E left \in SUBSET DOMAIN volumes : volumes' = [w \in left |-> volumes[w]]
  /\ UNCHANGED <<removeFrame, drives>>

removeDrives ==
  /\ Step("uninstall", "removeDrives")
  /\ \/ drives' = <<>> /\ Done("removeDrives") /\ NoFault
     \/ /\ Stop /\ Fault
        /\ \E left \in SUBSET DOMAIN drives : drives' = [u \in left |-> drives[u]]
  /\ UNCHANGED <<removeFrame, volumes>>

\* DirectPVNode and DirectPVInitRequest objects are not part of the model.
removeNodes ==
  /\ Step("uninstall", "removeNodes")
  /\ (Done("removeNodes") /\ NoFault) \/ (Stop /\ Fault)
  /\ UNCHANGED <<removeFrame, drives, volumes>>

removeInitRequests ==
  /\ Step("uninstall", "removeInitRequests")
  /\ (Done("removeInitRequests") /\ NoFault) \/ (Stop /\ Fault)
  /\ UNCHANGED <<removeFrame, drives, volumes>>

deleteCRDs ==
  \/ removeVolumes \/ removeDrives \/ removeNodes \/ removeInitRequests
  \/ \E o \in CRDs : Step("uninstall", o) /\ Delete(o)

-----------------------------------------------------------------------------
(* The rest of the cluster *)

\* Legacy DirectCSI; what it does during the other tasks is as if done before or after.
LegacyDriver ==
  /\ cmd.op = "none" \/ ~Running("idle")
  /\ \E w \in LateVolumes : LegacyProvision(w)
  /\ UNCHANGED <<obj, cmd, doomed, commands>>

Next ==
  \/ Install \/ InstallFails \/ Uninstall \/ MigrateCommand \/ InstallDone \/ UninstallDone
  \/ Interrupt
  \/ createNamespace \/ createRBAC \/ createCRDs \/ createCSIDriver \/ createStorageClass
  \/ createDaemonset \/ createDeployment
  \/ StartMigrationTask \/ Migrating \/ EndMigrationTask
  \/ deleteNamespace \/ deleteRBAC \/ deleteCRDs \/ deleteCSIDriver \/ deleteStorageClass
  \/ deleteDaemonset \/ deleteDeployment
  \/ \E o \in Finalised : Finalise(o)
  \/ LegacyDriver

Spec == Init /\ [][Next]_vars
-----------------------------------------------------------------------------
\* When install reports success every object it is to make is there, whatever earlier
\* commands made, left undone or deleted, except for those that were still being deleted
\* when install met them.
InstalledIsComplete ==
  cmd.installed =>
    \A o \in Steps(cmd.legacy) \ {"Migration"} :
      obj[o] = "present" \/ o \in doomed
=============================================================================
