---------------------------- MODULE VolumeMounts ----------------------------
(***************************************************************************)
(* One volume on its node: what the kubelet asks of the node server, what  *)
(* the node server mounts, and what it records in the DirectPVVolume.      *)
(*                                                                         *)
(* The kubelet stages the volume once, publishes it to every pod, and      *)
(* takes both back, one call at a time, and repeats a call that failed.    *)
(* A call reads the object, changes the mount table of the node, and       *)
(* updates the object from its copy.  Meanwhile the administrator suspends *)
(* and resumes the volume or its drive, the claim is deleted, and          *)
(* DeleteVolume and the volume controller remove the volume; the node      *)
(* server may stop half way and the node may reboot.                       *)
(*                                                                         *)
(* copies is the set of handlers whose copy of the object is current, as   *)
(* in Provisioning.  Volumes do not share paths, so one is enough.         *)
(***************************************************************************)
EXTENDS Integers, Sequences

CONSTANTS
  Pods,         \* pods that use the volume, each with its target path
  NoPod,        \* the empty TargetPath
  MaxChanges,   \* bound: suspend and resume commands
  MaxMounts     \* bound: mounts stacked on one target path

ASSUME MountsAssumption == NoPod \notin Pods /\ MaxChanges \in Nat /\ MaxMounts \in Nat

VARIABLES
  exists,          \* the DirectPVVolume object exists
  object,          \* what it records
  driveSuspended,  \* suspend label of the drive
  copies,          \* handlers whose copy of the object is current
  staging,         \* bind mounts on the staging target path
  target,          \* stack of bind mounts on the target path of each pod
  dataDir,         \* the data directory of the volume exists
  wanted,          \* pods that are to run
  ended,           \* pods that were deleted
  released,        \* the claim is deleted
  stageView,       \* the kubelet's view of the staging path
  podView,         \* the kubelet's view of each target path
  call,            \* the kubelet's call in progress
  destroy,         \* DeleteVolume in progress
  release,         \* the volume controller's delete() in progress
  changes          \* suspend and resume commands so far

vars == <<exists, object, driveSuspended, copies, staging, target, dataDir, wanted, ended,
          released, stageView, podView, call, destroy, release, changes>>

\* StagingTargetPath, TargetPath, DataPath, suspend label, finalizer, deletion timestamp
Object == [staged : BOOLEAN, target : Pods \cup {NoPod}, dataPath : BOOLEAN,
           suspended : BOOLEAN, protected : BOOLEAN, deleting : BOOLEAN]
NewObject == [staged |-> FALSE, target |-> NoPod, dataPath |-> FALSE,
              suspended |-> FALSE, protected |-> TRUE, deleting |-> FALSE]

Views == {"no", "uncertain", "yes"}
Call == [rpc : {"none", "stage", "publish", "unpublish", "unstage"}, pod : Pods \cup {NoPod},
         pc : {"idle", "drive", "mount", "update"}, suspended : BOOLEAN, recorded : BOOLEAN]
NoCall == [rpc |-> "none", pod |-> NoPod, pc |-> "idle", suspended |-> FALSE, recorded |-> FALSE]
\* delete() works on its copy of the object.
Release == [pc : {"idle", "unmount", "purge"}, copy : Object]
NoRelease == [pc |-> "idle", copy |-> NewObject]

\* Object, mount table, kubelet and handlers have the shape the code gives them.
TypeOK ==
  /\ exists \in BOOLEAN /\ object \in Object
  /\ driveSuspended \in BOOLEAN
  /\ copies \subseteq {"call", "destroy", "release"}
  /\ staging \in Nat
  /\ target \in [Pods -> Seq({"data", "tmp"})]
  /\ dataDir \in BOOLEAN
  /\ wanted \subseteq Pods /\ ended \subseteq Pods /\ released \in BOOLEAN
  /\ stageView \in Views /\ podView \in [Pods -> Views]
  /\ call \in Call
  /\ destroy \in {"idle", "update", "delete"}
  /\ release \in Release
  /\ changes \in 0..MaxChanges

Init ==
  /\ exists = TRUE /\ object = NewObject
  /\ driveSuspended = FALSE /\ copies = {}
  /\ staging = 0 /\ target = [p \in Pods |-> <<>>] /\ dataDir = FALSE
  /\ wanted = {} /\ ended = {} /\ released = FALSE
  /\ stageView = "no" /\ podView = [p \in Pods |-> "no"]
  /\ call = NoCall /\ destroy = "idle" /\ release = NoRelease /\ changes = 0

objectVars == <<exists, object, copies>>
hostVars   == <<staging, target, dataDir>>
podVars    == <<wanted, ended, released>>
viewVars   == <<stageView, podView>>
opVars     == <<destroy, release>>

-----------------------------------------------------------------------------
(* The API server *)

\* Update by handler h, whose copy is current; one that changes nothing is no write.
Update(h, new) ==
  /\ object' = new
  /\ copies' = IF new = object THEN copies \ {h} ELSE {}
  /\ UNCHANGED exists

\* Read-modify-write, repeated on conflict.
Rewrite(new) == exists /\ object' = new /\ copies' = {} /\ UNCHANGED exists

-----------------------------------------------------------------------------
(* Kubernetes: pods, the claim, the kubelet *)

podFrame == <<objectVars, driveSuspended, hostVars, viewVars, call, opVars, changes>>

\* The target path holds the UID of the pod: a pod that was deleted does not come back.
StartPod(p) ==
  /\ ~released /\ p \notin wanted \cup ended
  /\ wanted' = wanted \cup {p}
  /\ UNCHANGED <<ended, released, podFrame>>

StopPod(p) ==
  /\ p \in wanted
  /\ wanted' = wanted \ {p} /\ ended' = ended \cup {p}
  /\ UNCHANGED <<released, podFrame>>

\* The claim goes when no pod uses it, whatever the kubelet has still to take back.
ReleaseClaim ==
  /\ ~released /\ wanted = {}
  /\ released' = TRUE
  /\ UNCHANGED <<wanted, ended, podFrame>>

\* The kubelet starts anew: it does not know how far it had come.
Unsure ==
  /\ stageView' = IF stageView = "no" THEN "no" ELSE "uncertain"
  /\ podView' = [p \in Pods |-> IF podView[p] = "no" THEN "no" ELSE "uncertain"]

KubeletRestart ==
  /\ call.pc = "idle"
  /\ Unsure
  /\ UNCHANGED <<objectVars, driveSuspended, hostVars, podVars, call, opVars, changes>>

\* The node reboots: its mounts, and the handlers that run on it, are gone.
Reboot ==
  /\ Unsure
  /\ staging' = 0 /\ target' = [p \in Pods |-> <<>>]
  /\ call' = NoCall /\ release' = NoRelease
  /\ copies' = copies \ {"call", "release"}
  /\ UNCHANGED <<exists, object, driveSuspended, dataDir, podVars, destroy, changes>>

-----------------------------------------------------------------------------
(* Node server *)

callFrame == <<driveSuspended, podVars, opVars, changes>>

\* The call begins with a Get of the volume; a volume that is gone is an error, so the
\* call changes nothing.  recorded: the copy holds the path the call will look at, the
\* target path to unpublish, the staging path otherwise.
Begin(rpc, p, pc) ==
  /\ call.pc = "idle" /\ exists
  /\ call' = [rpc |-> rpc, pod |-> p, pc |-> pc, suspended |-> object.suspended,
              recorded |-> IF rpc = "unpublish" THEN object.target = p ELSE object.staged]
  /\ copies' = copies \cup {"call"}
  /\ UNCHANGED <<exists, object, hostVars, callFrame>>

NodeStageVolume ==
  /\ wanted # {} /\ stageView # "yes"
  /\ Begin("stage", NoPod, "drive")
  /\ stageView' = "uncertain" /\ UNCHANGED podView

NodePublishVolume(p) ==
  /\ p \in wanted /\ stageView = "yes" /\ podView[p] # "yes"
  /\ Len(target[p]) < MaxMounts
  /\ Begin("publish", p, "drive")
  /\ podView' = [podView EXCEPT ![p] = "uncertain"] /\ UNCHANGED stageView

\* The answer: what the call was about is done or undone, as the kubelet sees it.
Answer ==
  /\ call' = NoCall
  /\ stageView' = CASE call.rpc = "stage"   -> "yes"
                    [] call.rpc = "unstage" -> "no"
                    [] OTHER -> stageView
  /\ podView' = CASE call.rpc = "publish"   -> [podView EXCEPT ![call.pod] = "yes"]
                  [] call.rpc = "unpublish" -> [podView EXCEPT ![call.pod] = "no"]
                  [] OTHER -> podView

\* The call fails, or the node server stops; the kubelet calls again.
Fail == call' = NoCall /\ UNCHANGED viewVars

AbortCall ==
  /\ call.pc # "idle"
  /\ Fail
  /\ copies' = copies \ {"call"}
  /\ UNCHANGED <<exists, object, hostVars, callFrame>>

\* Faulty variant of CheckDrive: a volume that is not staged is published.
CheckDrive_anyStage ==
  LET suspended == call.suspended \/ driveSuspended
  IN  /\ call.pc = "drive"
      /\ \/ /\ call.rpc = "stage" /\ suspended
            /\ Answer /\ copies' = copies \ {"call"}
         \/ /\ call.rpc = "stage" => ~suspended
            /\ call' = [call EXCEPT !.pc = "mount", !.suspended = suspended]
            /\ UNCHANGED <<copies, viewVars>>
      /\ UNCHANGED <<exists, object, hostVars, callFrame>>

\* isDriveSuspended.  A suspended volume is not staged at all; one that is not
\* suspended is published only if it is staged.
CheckDrive ==
  LET suspended == call.suspended \/ driveSuspended
  IN  /\ call.pc = "drive"
      /\ \/ /\ call.rpc = "stage" /\ suspended
            /\ Answer /\ copies' = copies \ {"call"}
         \/ /\ call.rpc = "publish" /\ ~suspended /\ ~call.recorded
            /\ Fail /\ copies' = copies \ {"call"}
         \/ /\ \/ call.rpc = "stage" /\ ~suspended
               \/ call.rpc = "publish" /\ (suspended \/ call.recorded)
            /\ call' = [call EXCEPT !.pc = "mount", !.suspended = suspended]
            /\ UNCHANGED <<copies, viewVars>>
      /\ UNCHANGED <<exists, object, hostVars, callFrame>>

\* Faulty variant of StageVolume: the mount table is not looked at.
StageVolume_blind ==
  /\ call.rpc = "stage" /\ call.pc = "mount"
  /\ dataDir' = TRUE /\ staging' = staging + 1
  /\ call' = [call EXCEPT !.pc = "update"]
  /\ UNCHANGED <<objectVars, target, viewVars, callFrame>>

\* StageVolume: data directory, quota, and the bind mount unless it is there; quota and
\* mount may fail.
StageVolume ==
  /\ call.rpc = "stage" /\ call.pc = "mount"
  /\ dataDir' = TRUE
  /\ \/ /\ staging' = IF staging = 0 THEN 1 ELSE staging
        /\ call' = [call EXCEPT !.pc = "update"]
        /\ UNCHANGED <<copies, viewVars>>
     \/ Fail /\ copies' = copies \ {"call"} /\ UNCHANGED staging
  /\ UNCHANGED <<exists, object, target, callFrame>>

Sources(p) == {target[p][i] : i \in 1..Len(target[p])}

\* publishVolume: tmpfs for a suspended volume, else the staging path, which must be
\* mounted; nothing if tmpfs is mounted on the target path, or only the drive is.
publishVolume ==
  LET p == call.pod
      kind == IF call.suspended THEN "tmp" ELSE "data"
      done == IF call.suspended THEN "tmp" \in Sources(p) ELSE Sources(p) = {"data"}
  IN  /\ call.rpc = "publish" /\ call.pc = "mount"
      /\ \/ /\ ~call.suspended /\ staging = 0
            /\ Fail /\ copies' = copies \ {"call"} /\ UNCHANGED target
         \/ /\ call.suspended \/ staging # 0
            /\ target' = IF done THEN target ELSE [target EXCEPT ![p] = Append(@, kind)]
            /\ call' = [call EXCEPT !.pc = "update"]
            /\ UNCHANGED <<copies, viewVars>>
      /\ UNCHANGED <<exists, object, staging, dataDir, callFrame>>

\* Get; a volume that is gone counts as unpublished, and nothing is unmounted.
NodeUnpublishVolume(p) ==
  /\ p \notin wanted /\ podView[p] # "no"
  /\ \/ /\ Begin("unpublish", p, "mount")
        /\ podView' = [podView EXCEPT ![p] = "uncertain"]
     \/ /\ call.pc = "idle" /\ ~exists
        /\ podView' = [podView EXCEPT ![p] = "no"]
        /\ UNCHANGED <<objectVars, hostVars, call, callFrame>>
  /\ UNCHANGED stageView

NodeUnstageVolume ==
  /\ wanted = {} /\ stageView # "no" /\ \A p \in Pods : podView[p] = "no"
  /\ \/ Begin("unstage", NoPod, "mount") /\ stageView' = "uncertain"
     \/ /\ call.pc = "idle" /\ ~exists
        /\ stageView' = "no"
        /\ UNCHANGED <<objectVars, hostVars, call, callFrame>>
  /\ UNCHANGED podView

\* The object that the last step of a call writes.
Recorded ==
  CASE call.rpc = "stage"     -> [object EXCEPT !.staged = TRUE, !.dataPath = TRUE]
    [] call.rpc = "publish"   -> [object EXCEPT !.target = call.pod]
    [] call.rpc = "unpublish" -> [object EXCEPT !.target = IF @ = call.pod THEN NoPod ELSE @]
    [] call.rpc = "unstage"   -> [object EXCEPT !.staged = FALSE]

\* Faulty variant of Unmount: only a path that the object records is unmounted.
Unmount_recorded ==
  /\ call.rpc \in {"unpublish", "unstage"} /\ call.pc = "mount"
  /\ IF call.rpc = "unstage"
     THEN staging' = (IF staging # 0 /\ call.recorded THEN staging - 1 ELSE staging) /\ UNCHANGED target
     ELSE /\ target' = [target EXCEPT ![call.pod] = IF @ = <<>> THEN @ ELSE SubSeq(@, 1, Len(@) - 1)]
          /\ UNCHANGED staging
  /\ call' = [call EXCEPT !.pc = "update"]
  /\ UNCHANGED <<objectVars, dataDir, viewVars, callFrame>>

\* Unmount of the path: the topmost mount only.
Unmount ==
  /\ call.rpc \in {"unpublish", "unstage"} /\ call.pc = "mount"
  /\ IF call.rpc = "unstage"
     THEN staging' = (IF staging # 0 THEN staging - 1 ELSE 0) /\ UNCHANGED target
     ELSE /\ target' = [target EXCEPT ![call.pod] = IF @ = <<>> THEN @ ELSE SubSeq(@, 1, Len(@) - 1)]
          /\ UNCHANGED staging
  /\ call' = [call EXCEPT !.pc = "update"]
  /\ UNCHANGED <<objectVars, dataDir, viewVars, callFrame>>

\* The Update that ends a call, whose answer may get lost.  Unpublish and unstage skip it
\* when their copy does not record the path, and succeed.
RecordPath ==
  LET skip == call.rpc \in {"unpublish", "unstage"} /\ ~call.recorded
  IN  /\ call.pc = "update"
      /\ \/ skip /\ Answer /\ copies' = copies \ {"call"} /\ UNCHANGED <<exists, object>>
         \/ ~skip /\ "call" \in copies /\ Update("call", Recorded) /\ (Answer \/ Fail)
         \/ ~skip /\ "call" \notin copies /\ Fail /\ UNCHANGED objectVars
      /\ UNCHANGED <<hostVars, callFrame>>

-----------------------------------------------------------------------------
(* Suspend and resume *)

changeFrame == <<hostVars, podVars, viewVars, call, opVars>>

SuspendVolumes ==
  /\ changes < MaxChanges /\ changes' = changes + 1
  /\ ~object.suspended /\ Rewrite([object EXCEPT !.suspended = TRUE])
  /\ UNCHANGED <<driveSuspended, changeFrame>>

ResumeVolumes ==
  /\ changes < MaxChanges /\ changes' = changes + 1
  /\ object.suspended /\ Rewrite([object EXCEPT !.suspended = FALSE])
  /\ UNCHANGED <<driveSuspended, changeFrame>>

SuspendDrives ==
  /\ changes < MaxChanges /\ changes' = changes + 1
  /\ ~driveSuspended /\ driveSuspended' = TRUE
  /\ UNCHANGED <<objectVars, changeFrame>>

ResumeDrives ==
  /\ changes < MaxChanges /\ changes' = changes + 1
  /\ driveSuspended /\ driveSuspended' = FALSE
  /\ UNCHANGED <<objectVars, changeFrame>>

-----------------------------------------------------------------------------
(* DeleteVolume and the volume controller *)

removeFrame == <<driveSuspended, podVars, viewVars, call, changes>>

\* Faulty variant of DeleteVolume: only TargetPath is looked at.
DeleteVolume_staged ==
  /\ released /\ destroy = "idle" /\ exists
  /\ object.target = NoPod
  /\ destroy' = "update" /\ copies' = copies \cup {"destroy"}
  /\ UNCHANGED <<exists, object, hostVars, release, removeFrame>>

\* Get, refused while the object records a staging or target path.
DeleteVolume ==
  /\ released /\ destroy = "idle" /\ exists
  /\ ~object.staged /\ object.target = NoPod
  /\ destroy' = "update" /\ copies' = copies \cup {"destroy"}
  /\ UNCHANGED <<exists, object, hostVars, release, removeFrame>>

RemovePVProtection ==
  /\ destroy = "update"
  /\ IF "destroy" \in copies
     THEN Update("destroy", [object EXCEPT !.protected = FALSE]) /\ destroy' = "delete"
     ELSE destroy' = "idle" /\ UNCHANGED objectVars
  /\ UNCHANGED <<hostVars, release, removeFrame>>

DeleteObject ==
  /\ destroy = "delete" /\ destroy' = "idle"
  /\ IF exists THEN Rewrite([object EXCEPT !.deleting = TRUE]) ELSE UNCHANGED objectVars
  /\ UNCHANGED <<hostVars, release, removeFrame>>

\* delete(): Get of a deleted volume without pv-protection
ReleaseVolume ==
  /\ release.pc = "idle" /\ exists /\ object.deleting /\ ~object.protected
  /\ release' = [pc |-> "unmount", copy |-> object] /\ copies' = copies \cup {"release"}
  /\ UNCHANGED <<exists, object, hostVars, destroy, removeFrame>>

\* delete(): unmount of the recorded paths, rename and removal of the recorded directory.
\* After DeleteVolume no path is recorded; after the command clean, which is not modelled
\* here, one may be.
ReleasePaths ==
  /\ release.pc = "unmount" /\ release' = [release EXCEPT !.pc = "purge"]
  /\ target' = [p \in Pods |-> IF release.copy.target = p /\ target[p] # <<>>
                               THEN SubSeq(target[p], 1, Len(target[p]) - 1) ELSE target[p]]
  /\ staging' = IF release.copy.staged /\ staging # 0 THEN staging - 1 ELSE staging
  /\ dataDir' = (dataDir /\ ~release.copy.dataPath)
  /\ UNCHANGED <<objectVars, destroy, removeFrame>>

\* delete(): Update without purge-protection, the last finalizer
ReleasePurge ==
  /\ release.pc = "purge" /\ release' = NoRelease
  /\ IF "release" \in copies
     THEN exists' = FALSE /\ object' = NewObject /\ copies' = {}
     ELSE UNCHANGED objectVars
  /\ UNCHANGED <<hostVars, destroy, removeFrame>>

-----------------------------------------------------------------------------
Next ==
  \/ \E p \in Pods : StartPod(p) \/ StopPod(p) \/ NodePublishVolume(p) \/ NodeUnpublishVolume(p)
  \/ ReleaseClaim \/ KubeletRestart \/ Reboot
  \/ NodeStageVolume \/ CheckDrive \/ StageVolume \/ publishVolume \/ NodeUnstageVolume
  \/ Unmount \/ RecordPath \/ AbortCall
  \/ SuspendVolumes \/ ResumeVolumes \/ SuspendDrives \/ ResumeDrives
  \/ DeleteVolume \/ RemovePVProtection \/ DeleteObject
  \/ ReleaseVolume \/ ReleasePaths \/ ReleasePurge

Spec == Init /\ [][Next]_vars

-----------------------------------------------------------------------------
(* Properties *)

\* The pod's path shows the data of the volume.
SeesData(p) == target[p] # <<>> /\ target[p][Len(target[p])] = "data"

\* A pod that the kubelet was told is published has something mounted on its path, and
\* if that is the volume, the data directory is there: it is never renamed and removed
\* under a pod, however publishing, suspending, DeleteVolume and reboots interleave.
PublishedSeesData ==
  \A p \in Pods : podView[p] = "yes" => target[p] # <<>> /\ (SeesData(p) => dataDir)

\* A published pod that sees the data is covered by a StagingTargetPath in the object,
\* which is what makes DeleteVolume refuse; TargetPath alone remembers only one pod.
DataInUseIsRecorded ==
  \A p \in Pods : podView[p] = "yes" /\ SeesData(p) => exists /\ object.staged

\* However often staging is repeated, the staging path is mounted once, so that one
\* unmount frees it.
StagedOnce == staging <= 1

\* While the volume exists, an unstaged one is unmounted, also when the object had not
\* recorded the staging path.
UnstagedIsUnmounted == exists /\ stageView = "no" => staging = 0
=============================================================================
