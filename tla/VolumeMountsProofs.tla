------------------------- MODULE VolumeMountsProofs -------------------------
(***************************************************************************)
(* The data of a volume stays under the pods that use it, for any number   *)
(* of pods, mounts and suspend commands.                                   *)
(*                                                                         *)
(* The properties of VolumeMounts speak of what the kubelet was told.      *)
(* What carries them is where a call stands: no copy of the object that is *)
(* older than the removal of pv-protection can be written after it, and a  *)
(* call that mounts the data saw the volume staged, which nothing but a    *)
(* later call takes back.                                                  *)
(***************************************************************************)
EXTENDS VolumeMounts, SequenceTheorems, TLAPS

\* A call in progress, the pod it is for, and what the kubelet knows meanwhile
CallInv ==
  /\ call.pc = "idle" <=> call.rpc = "none"
  /\ call.rpc \in {"stage", "unstage"} => stageView = "uncertain"
  /\ call.rpc \in {"publish", "unpublish"} =>
       call.pod \in Pods /\ podView[call.pod] = "uncertain"
  /\ call.rpc = "unpublish" => call.pod \notin wanted
  /\ call.rpc = "unstage" => \A p \in Pods : podView[p] = "no"

\* Pods: the kubelet publishes to a pod that was started, and the path of a pod that was
\* not published is empty.
PodInv ==
  /\ released => wanted = {}
  /\ wanted \cap ended = {}
  /\ \A p \in Pods : podView[p] # "no" => p \in wanted \cup ended
  /\ \A p \in Pods : podView[p] = "no" /\ p \notin ended => target[p] = <<>>

\* The staging path
StagingInv ==
  /\ StagedOnce /\ UnstagedIsUnmounted
  /\ call.rpc = "unstage" /\ call.pc = "update" => staging = 0

\* Without pv-protection the object records no path, and no call that would record one
\* can write it any more.
ObjectInv ==
  /\ ~exists => copies = {} /\ object = NewObject
  /\ destroy = "update" /\ "destroy" \in copies =>
       exists /\ released /\ ~object.staged /\ object.target = NoPod
  /\ destroy # "idle" => released
  /\ ~object.protected =>
       /\ exists /\ released /\ ~object.staged /\ object.target = NoPod
       /\ call.rpc \in {"stage", "publish"} => "call" \notin copies
  /\ release.pc # "idle" =>
       /\ exists /\ ~object.protected
       /\ ~release.copy.staged /\ release.copy.target = NoPod

\* The data: whoever has it mounted, or is about to, is covered by the staging path that
\* the object records, and a staged volume has its directory.
DataInv ==
  /\ object.staged => dataDir
  /\ call.rpc = "publish" /\ call.recorded => exists /\ object.staged
  /\ call.rpc = "publish" /\ call.pc \in {"mount", "update"} /\ ~call.suspended => call.recorded
  /\ call.rpc = "stage" /\ call.pc = "update" /\ "call" \in copies => dataDir
  /\ \A p \in Pods : podView[p] # "no" /\ "data" \in Sources(p) => exists /\ object.staged

\* A published path has a mount.
PathInv ==
  /\ call.rpc = "publish" /\ call.pc = "update" => target[call.pod] # <<>>
  /\ \A p \in Pods : podView[p] = "yes" => target[p] # <<>>

\* The inductive invariant
MountsInv == TypeOK /\ CallInv /\ PodInv /\ StagingInv /\ ObjectInv /\ DataInv /\ PathInv


-----------------------------------------------------------------------------
(* What the steps of a call do to it *)

\* Sources looks at the mounts only.
LEMMA SourcesSame ==
  ASSUME target' = target
  PROVE  \A p \in Pods : Sources(p)' = Sources(p)
  BY DEF Sources

\* Unmounting the topmost mount adds no source.
LEMMA Popped ==
  ASSUME NEW s \in Seq({"data", "tmp"}), s # <<>>
  PROVE  LET t == SubSeq(s, 1, Len(s) - 1)
         IN  /\ t \in Seq({"data", "tmp"})
             /\ {t[i] : i \in 1..Len(t)} \subseteq {s[i] : i \in 1..Len(s)}
<1> DEFINE t == SubSeq(s, 1, Len(s) - 1)
<1>1. Len(s) \in Nat /\ Len(s) > 0
  OBVIOUS
<1>2. t \in Seq({"data", "tmp"})
  BY <1>1
<1>3. Len(t) = Len(s) - 1
  <2>1. CASE Len(s) = 1
    BY <2>1, SubSeqEmpty
  <2>2. CASE Len(s) > 1
    BY <1>1, <2>2
  <2>3. Len(s) = 1 \/ Len(s) > 1
    BY <1>1
  <2> QED BY <2>1, <2>2, <2>3
<1>4. \A i \in 1..Len(t) : t[i] = s[i] /\ i \in 1..Len(s)
  BY <1>1, <1>3
<1> QED BY <1>2, <1>4

\* Mounting adds the source that is mounted.
LEMMA Pushed ==
  ASSUME NEW s \in Seq({"data", "tmp"}), NEW k \in {"data", "tmp"}
  PROVE  /\ Append(s, k) \in Seq({"data", "tmp"}) /\ Append(s, k) # <<>>
         /\ {Append(s, k)[i] : i \in 1..Len(Append(s, k))} = {s[i] : i \in 1..Len(s)} \cup {k}
<1>1. Len(s) \in Nat /\ Len(Append(s, k)) = Len(s) + 1
  OBVIOUS
<1>2. \A i \in 1..Len(s) : Append(s, k)[i] = s[i]
  OBVIOUS
<1>3. Append(s, k)[Len(s) + 1] = k
  OBVIOUS
<1>4. Append(s, k) \in Seq({"data", "tmp"}) /\ Append(s, k) # <<>>
  OBVIOUS
<1>5. \A i \in 1..(Len(s) + 1) : i \in 1..Len(s) \/ i = Len(s) + 1
  BY <1>1
<1>6. \A i \in 1..Len(s) : i \in 1..(Len(s) + 1)
  BY <1>1
<1>7. Len(s) + 1 \in 1..(Len(s) + 1)
  BY <1>1
<1> QED BY ONLY <1>1, <1>2, <1>3, <1>4, <1>5, <1>6, <1>7

\* A call moves to its next step.
LEMMA CallMoves ==
  ASSUME NEW c \in Call, NEW pc \in {"drive", "mount", "update"}, NEW b \in BOOLEAN
  PROVE  /\ [c EXCEPT !.pc = pc] \in Call /\ [c EXCEPT !.pc = pc].pc = pc
         /\ [c EXCEPT !.pc = pc].rpc = c.rpc /\ [c EXCEPT !.pc = pc].pod = c.pod
         /\ [c EXCEPT !.pc = pc].suspended = c.suspended
         /\ [c EXCEPT !.pc = pc].recorded = c.recorded
         /\ [c EXCEPT !.pc = pc, !.suspended = b] \in Call
         /\ [c EXCEPT !.pc = pc, !.suspended = b].pc = pc
         /\ [c EXCEPT !.pc = pc, !.suspended = b].rpc = c.rpc
         /\ [c EXCEPT !.pc = pc, !.suspended = b].pod = c.pod
         /\ [c EXCEPT !.pc = pc, !.suspended = b].suspended = b
         /\ [c EXCEPT !.pc = pc, !.suspended = b].recorded = c.recorded
  BY DEF Call

\* NoCall is a call that is not in progress.
LEMMA NoCallType == NoCall \in Call /\ NoCall.rpc = "none" /\ NoCall.pc = "idle"
  BY DEF NoCall, Call

\* A path without mounts has no sources.
LEMMA NoSources ==
  ASSUME NEW p \in Pods, target[p] = <<>>
  PROVE  Sources(p) = {}
  BY DEF Sources

\* A new object is of the type of objects.
LEMMA NewObjectType == NewObject \in Object /\ ~NewObject.staged /\ NoRelease \in Release
<1>1. NewObject \in Object /\ ~NewObject.staged
  BY DEF NewObject, Object
<1> QED BY <1>1 DEF NoRelease, Release

\* Begin makes a call of its parameters.
LEMMA BeginType ==
  ASSUME TypeOK, NEW rpc \in {"stage", "publish", "unpublish", "unstage"},
         NEW p \in Pods \cup {NoPod}, NEW pc \in {"drive", "mount"}, Begin(rpc, p, pc)
  PROVE  call' \in Call /\ copies' \subseteq {"call", "destroy", "release"}
  BY DEF Begin, Call, TypeOK, Object

\* isDriveSuspended ends the call, or lets it go on to mount; a publication that is not
\* suspended goes on only if the copy records the staging path.
LEMMA CheckDriveEffect ==
  ASSUME TypeOK, CheckDrive
  PROVE  /\ UNCHANGED <<exists, object, hostVars, callFrame, podView>>
         /\ call.pc = "drive" /\ call.rpc \in {"stage", "publish"}
         /\ \/ /\ call' = NoCall /\ copies' = copies \ {"call"}
               /\ stageView' = stageView \/ (call.rpc = "stage" /\ stageView' = "yes")
            \/ /\ UNCHANGED <<copies, stageView>>
               /\ call' \in Call /\ call'.pc = "mount" /\ call'.rpc = call.rpc
               /\ call'.pod = call.pod /\ call'.recorded = call.recorded
               /\ call.rpc = "publish" /\ ~call'.suspended => call.recorded
<1> DEFINE suspended == call.suspended \/ driveSuspended
<1>0. call \in Call /\ suspended \in BOOLEAN
  BY DEF TypeOK, Call
<1>1. CASE call.rpc = "stage" /\ suspended /\ Answer /\ copies' = copies \ {"call"}
  BY <1>1 DEF CheckDrive, Answer
<1>2. CASE call.rpc = "publish" /\ ~suspended /\ ~call.recorded /\ Fail /\ copies' = copies \ {"call"}
  BY <1>2 DEF CheckDrive, Fail, viewVars
<1>3. CASE /\ \/ call.rpc = "stage" /\ ~suspended
              \/ call.rpc = "publish" /\ (suspended \/ call.recorded)
           /\ call' = [call EXCEPT !.pc = "mount", !.suspended = suspended]
           /\ UNCHANGED <<copies, viewVars>>
  <2> HIDE DEF suspended
  <2>1. /\ call' \in Call /\ call'.pc = "mount" /\ call'.rpc = call.rpc
        /\ call'.pod = call.pod /\ call'.recorded = call.recorded /\ call'.suspended = suspended
    BY <1>0, <1>3 DEF Call
  <2> QED BY <1>3, <2>1 DEF CheckDrive, viewVars
<1> QED BY <1>1, <1>2, <1>3 DEF CheckDrive

\* The last step of a call: it is over, the object is as it was or records the path, and
\* the kubelet learns of it or does not.
LEMMA RecordPathEffect ==
  ASSUME TypeOK, CallInv, RecordPath
  PROVE  /\ UNCHANGED <<exists, hostVars, callFrame>>
         /\ call.pc = "update" /\ call' = NoCall
         /\ copies' \subseteq copies
         /\ object' = object \/ ("call" \in copies /\ object' = Recorded /\ copies' = {})
         /\ \/ stageView' = stageView
            \/ call.rpc = "stage" /\ stageView' = "yes"
            \/ call.rpc = "unstage" /\ stageView' = "no"
         /\ \/ podView' = podView
            \/ call.rpc = "publish" /\ podView' = [podView EXCEPT ![call.pod] = "yes"]
            \/ call.rpc = "unpublish" /\ podView' = [podView EXCEPT ![call.pod] = "no"]
<1> DEFINE skip == call.rpc \in {"unpublish", "unstage"} /\ ~call.recorded
<1>1. Answer \/ Fail =>
        /\ call' = NoCall
        /\ \/ stageView' = stageView
           \/ call.rpc = "stage" /\ stageView' = "yes"
           \/ call.rpc = "unstage" /\ stageView' = "no"
        /\ \/ podView' = podView
           \/ call.rpc = "publish" /\ podView' = [podView EXCEPT ![call.pod] = "yes"]
           \/ call.rpc = "unpublish" /\ podView' = [podView EXCEPT ![call.pod] = "no"]
  BY DEF Answer, Fail, viewVars
<1>2. CASE skip /\ Answer /\ copies' = copies \ {"call"} /\ UNCHANGED <<exists, object>>
  BY <1>1, <1>2 DEF RecordPath
<1>3. CASE ~skip /\ "call" \in copies /\ Update("call", Recorded) /\ (Answer \/ Fail)
  BY <1>1, <1>3 DEF RecordPath, Update
<1>4. CASE ~skip /\ "call" \notin copies /\ Fail /\ UNCHANGED objectVars
  BY <1>1, <1>4 DEF RecordPath, objectVars
<1> QED BY <1>2, <1>3, <1>4 DEF RecordPath

\* publishVolume mounts on the path of its pod only: tmpfs, or the data if the call is
\* not suspended.
LEMMA PublishEffect ==
  ASSUME TypeOK, CallInv, publishVolume
  PROVE  /\ UNCHANGED <<exists, object, staging, dataDir, callFrame, viewVars>>
         /\ call.pc = "mount" /\ call.rpc = "publish"
         /\ \/ call' = NoCall /\ copies' = copies \ {"call"} /\ target' = target
            \/ /\ UNCHANGED copies
               /\ call' \in Call /\ call'.pc = "update" /\ call'.rpc = call.rpc
               /\ call'.pod = call.pod /\ call'.recorded = call.recorded
               /\ call'.suspended = call.suspended
               /\ target' \in [Pods -> Seq({"data", "tmp"})] /\ target'[call.pod] # <<>>
               /\ \A p \in Pods : p # call.pod => target'[p] = target[p]
               /\ \A p \in Pods : Sources(p)' \subseteq Sources(p) \cup
                    (IF p # call.pod THEN {} ELSE IF call.suspended THEN {"tmp"} ELSE {"data"})
<1> DEFINE p == call.pod
           kind == IF call.suspended THEN "tmp" ELSE "data"
           done == IF call.suspended THEN "tmp" \in Sources(p) ELSE Sources(p) = {"data"}
<1>1. call.pc = "mount" /\ call.rpc = "publish" /\ p \in Pods /\ target[p] \in Seq({"data", "tmp"})
  BY DEF publishVolume, CallInv, TypeOK
<1>2. CASE Fail /\ copies' = copies \ {"call"} /\ UNCHANGED target
  BY <1>1, <1>2 DEF publishVolume, Fail
<1>3. CASE /\ target' = IF done THEN target ELSE [target EXCEPT ![p] = Append(@, kind)]
           /\ call' = [call EXCEPT !.pc = "update"]
           /\ UNCHANGED <<copies, viewVars>>
  <2>1. /\ call' \in Call /\ call'.pc = "update" /\ call'.rpc = call.rpc
        /\ call'.pod = call.pod /\ call'.recorded = call.recorded
        /\ call'.suspended = call.suspended
    BY <1>3 DEF TypeOK, Call
  <2>2. CASE done
    <3>1. target' = target /\ Sources(p) # {}
      BY <1>3, <2>2
    <3>2. target[p] # <<>>
      BY <3>1 DEF Sources
    <3> QED BY <1>1, <1>3, <2>1, <3>1, <3>2, SourcesSame DEF publishVolume, TypeOK
  <2>3. CASE ~done
    <3>1. kind \in {"data", "tmp"} /\ target' = [target EXCEPT ![p] = Append(target[p], kind)]
      BY <1>3, <2>3
    <3> HIDE DEF kind, done
    <3>2. target' \in [Pods -> Seq({"data", "tmp"})] /\ target'[p] = Append(target[p], kind)
          /\ \A q \in Pods : q # p => target'[q] = target[q]
      BY <1>1, <3>1, Pushed DEF TypeOK
    <3>3. target'[p] # <<>> /\ Sources(p)' = Sources(p) \cup {kind}
      BY <1>1, <2>1, <3>1, <3>2, Pushed DEF Sources
    <3>4. \A q \in Pods : q # p => Sources(q)' = Sources(q)
      BY <3>2 DEF Sources
    <3> QED BY <1>1, <1>3, <2>1, <3>2, <3>3, <3>4 DEF publishVolume, kind
  <2> QED BY <2>2, <2>3
<1> QED BY <1>2, <1>3 DEF publishVolume

\* Unmount takes one mount off the path that the call is about.
LEMMA UnmountEffect ==
  ASSUME TypeOK, CallInv, Unmount
  PROVE  /\ UNCHANGED <<objectVars, dataDir, viewVars, callFrame>>
         /\ call.pc = "mount" /\ call.rpc \in {"unpublish", "unstage"}
         /\ call' \in Call /\ call'.pc = "update" /\ call'.rpc = call.rpc
         /\ call'.pod = call.pod /\ call'.recorded = call.recorded
         /\ staging' \in Nat /\ staging' <= staging
         /\ call.rpc = "unstage" /\ staging <= 1 => staging' = 0
         /\ call.rpc = "unpublish" => staging' = staging
         /\ target' \in [Pods -> Seq({"data", "tmp"})]
         /\ \A p \in Pods : Sources(p)' \subseteq Sources(p)
         /\ \A p \in Pods : call.rpc = "unstage" \/ p # call.pod => target'[p] = target[p]
<1>1. /\ call' \in Call /\ call'.pc = "update" /\ call'.rpc = call.rpc
      /\ call'.pod = call.pod /\ call'.recorded = call.recorded
  BY DEF Unmount, TypeOK, Call
<1>2. CASE call.rpc = "unstage"
  BY <1>1, <1>2, SourcesSame DEF Unmount, TypeOK
<1>3. CASE call.rpc = "unpublish"
  <2> DEFINE q == call.pod
             t == IF target[q] = <<>> THEN target[q] ELSE SubSeq(target[q], 1, Len(target[q]) - 1)
  <2>1. q \in Pods /\ target[q] \in Seq({"data", "tmp"})
    BY <1>3 DEF CallInv, TypeOK
  <2>2. target' = [target EXCEPT ![q] = t] /\ staging' = staging
    BY <1>3 DEF Unmount
  <2>3. t \in Seq({"data", "tmp"}) /\ {t[i] : i \in 1..Len(t)} \subseteq Sources(q)
    BY <2>1, Popped DEF Sources
  <2> HIDE DEF t
  <2>4. /\ target' \in [Pods -> Seq({"data", "tmp"})] /\ target'[q] = t
        /\ \A p \in Pods : p # q => target'[p] = target[p]
    BY <2>1, <2>2, <2>3 DEF TypeOK
  <2>5. \A p \in Pods : Sources(p)' \subseteq Sources(p)
    <3> TAKE p \in Pods
    <3>1. CASE p = q
      BY <1>1, <2>3, <2>4, <3>1 DEF Sources
    <3>2. CASE p # q
      BY <2>4, <3>2 DEF Sources
    <3> QED BY <3>1, <3>2
  <2> QED BY <1>1, <1>3, <2>2, <2>4, <2>5 DEF Unmount, TypeOK
<1> QED BY <1>2, <1>3 DEF Unmount

\* delete() finds no path to unmount in its copy: DeleteVolume looked before.
LEMMA ReleasePathsEffect ==
  ASSUME TypeOK, ObjectInv, ReleasePaths
  PROVE  /\ UNCHANGED <<objectVars, destroy, removeFrame, staging, target>>
         /\ ~object.protected /\ dataDir' \in BOOLEAN
         /\ release' \in Release /\ release'.pc = "purge" /\ release'.copy = release.copy
<1>1. /\ ~object.protected /\ ~release.copy.staged /\ release.copy.target = NoPod
  BY DEF ReleasePaths, ObjectInv
<1>2. release' \in Release /\ release'.pc = "purge" /\ release'.copy = release.copy
  BY DEF ReleasePaths, TypeOK, Release
<1>3. target' = target
  BY <1>1, MountsAssumption DEF ReleasePaths, TypeOK
<1> QED BY <1>1, <1>2, <1>3 DEF ReleasePaths, TypeOK

\* The object that the last step of a call writes is of the type of objects.
LEMMA RecordedType ==
  ASSUME TypeOK, CallInv, call.pc = "update"
  PROVE  /\ Recorded \in Object
         /\ Recorded.protected = object.protected
         /\ call.rpc \notin {"stage", "unstage"} => Recorded.staged = object.staged
         /\ call.rpc = "stage" => Recorded.staged
         /\ call.rpc = "unstage" => ~Recorded.staged
         /\ call.rpc \in {"stage", "unstage"} => Recorded.target = object.target
         /\ call.rpc = "unpublish" /\ object.target = NoPod => Recorded.target = NoPod
<1>1. call.rpc \in {"stage", "publish", "unpublish", "unstage"} /\ object \in Object
  BY DEF TypeOK, CallInv, Call
<1>2. CASE call.rpc = "stage"
  BY <1>1, <1>2 DEF Recorded, Object
<1>3. CASE call.rpc = "publish"
  BY <1>1, <1>3 DEF Recorded, Object, CallInv
<1>4. CASE call.rpc = "unpublish"
  BY <1>1, <1>4 DEF Recorded, Object
<1>5. CASE call.rpc = "unstage"
  BY <1>1, <1>5 DEF Recorded, Object
<1> QED BY <1>1, <1>2, <1>3, <1>4, <1>5

-----------------------------------------------------------------------------
(* Every step keeps every part of the invariant. *)

\* The kubelet's view of a path is uncertain while a call is about it.
LEMMA CallStep ==
  ASSUME MountsInv, Next
  PROVE  CallInv'
<1> USE DEF MountsInv, TypeOK, CallInv, PodInv,
           objectVars, hostVars, podVars, viewVars, opVars
<1>1. ASSUME NEW p \in Pods, StartPod(p) PROVE CallInv'
  BY <1>1 DEF StartPod, podFrame, Call
<1>2. ASSUME NEW p \in Pods, StopPod(p) PROVE CallInv'
  BY <1>2 DEF StopPod, podFrame, Call
<1>3. ASSUME NEW p \in Pods, NodePublishVolume(p) PROVE CallInv'
  BY <1>3 DEF NodePublishVolume, Begin, callFrame, Call
<1>4. ASSUME NEW p \in Pods, NodeUnpublishVolume(p) PROVE CallInv'
  BY <1>4 DEF NodeUnpublishVolume, Begin, callFrame, Call
<1>5. CASE ReleaseClaim
  BY <1>5 DEF ReleaseClaim, podFrame, Call
<1>6. CASE KubeletRestart
  BY <1>6 DEF KubeletRestart, Unsure, Call
<1>7. CASE Reboot
  BY <1>7 DEF Reboot, Unsure, NoRelease, NoCall, Call
<1>8. CASE NodeStageVolume
  BY <1>8 DEF NodeStageVolume, Begin, callFrame, Call
<1>9. CASE CheckDrive
  BY <1>9, CheckDriveEffect, NoCallType DEF callFrame
<1>10. CASE StageVolume
  BY <1>10 DEF StageVolume, Fail, NoCall, callFrame, Call
<1>11. CASE publishVolume
  BY <1>11, PublishEffect, NoCallType DEF callFrame
<1>12. CASE NodeUnstageVolume
  BY <1>12 DEF NodeUnstageVolume, Begin, callFrame, Call
<1>13. CASE Unmount
  BY <1>13, UnmountEffect DEF callFrame
<1>14. CASE RecordPath
  BY <1>14, RecordPathEffect, RecordedType, NoCallType DEF callFrame
<1>15. CASE AbortCall
  BY <1>15 DEF AbortCall, Fail, NoCall, callFrame, Call
<1>16. CASE SuspendVolumes
  BY <1>16 DEF SuspendVolumes, Rewrite, changeFrame, Call
<1>17. CASE ResumeVolumes
  BY <1>17 DEF ResumeVolumes, Rewrite, changeFrame, Call
<1>18. CASE SuspendDrives
  BY <1>18 DEF SuspendDrives, changeFrame, Call
<1>19. CASE ResumeDrives
  BY <1>19 DEF ResumeDrives, changeFrame, Call
<1>20. CASE DeleteVolume
  BY <1>20 DEF DeleteVolume, removeFrame, Call
<1>21. CASE RemovePVProtection
  BY <1>21 DEF RemovePVProtection, Update, removeFrame, Call
<1>22. CASE DeleteObject
  BY <1>22 DEF DeleteObject, Rewrite, removeFrame, Call
<1>23. CASE ReleaseVolume
  BY <1>23 DEF ReleaseVolume, removeFrame, Call
<1>24. CASE ReleasePaths
  BY <1>24, ReleasePathsEffect DEF removeFrame
<1>25. CASE ReleasePurge
  BY <1>25 DEF ReleasePurge, NoRelease, removeFrame, Call
<1> QED
  BY <1>1, <1>2, <1>3, <1>4, <1>5, <1>6, <1>7, <1>8, <1>9, <1>10, <1>11, <1>12, <1>13,
     <1>14, <1>15, <1>16, <1>17, <1>18, <1>19, <1>20, <1>21, <1>22, <1>23, <1>24, <1>25 DEF Next

\* Only a pod that was started is published, and only a published path has mounts.
LEMMA PodStep ==
  ASSUME MountsInv, Next
  PROVE  PodInv'
<1> USE DEF MountsInv, TypeOK, CallInv, PodInv,
           objectVars, hostVars, podVars, viewVars, opVars
<1>1. ASSUME NEW p \in Pods, StartPod(p) PROVE PodInv'
  BY <1>1 DEF StartPod, podFrame, Call
<1>2. ASSUME NEW p \in Pods, StopPod(p) PROVE PodInv'
  BY <1>2 DEF StopPod, podFrame, Call
<1>3. ASSUME NEW p \in Pods, NodePublishVolume(p) PROVE PodInv'
  BY <1>3 DEF NodePublishVolume, Begin, callFrame, Call
<1>4. ASSUME NEW p \in Pods, NodeUnpublishVolume(p) PROVE PodInv'
  BY <1>4 DEF NodeUnpublishVolume, Begin, callFrame, Call
<1>5. CASE ReleaseClaim
  BY <1>5 DEF ReleaseClaim, podFrame, Call
<1>6. CASE KubeletRestart
  BY <1>6 DEF KubeletRestart, Unsure, Call
<1>7. CASE Reboot
  BY <1>7 DEF Reboot, Unsure, NoRelease, NoCall, Call
<1>8. CASE NodeStageVolume
  BY <1>8 DEF NodeStageVolume, Begin, callFrame, Call
<1>9. CASE CheckDrive
  BY <1>9, CheckDriveEffect, NoCallType DEF callFrame
<1>10. CASE StageVolume
  BY <1>10 DEF StageVolume, Fail, NoCall, callFrame, Call
<1>11. CASE publishVolume
  BY <1>11, PublishEffect, NoCallType DEF callFrame
<1>12. CASE NodeUnstageVolume
  BY <1>12 DEF NodeUnstageVolume, Begin, callFrame, Call
<1>13. CASE Unmount
  BY <1>13, UnmountEffect DEF callFrame
<1>14. CASE RecordPath
  BY <1>14, RecordPathEffect, RecordedType, NoCallType DEF callFrame
<1>15. CASE AbortCall
  BY <1>15 DEF AbortCall, Fail, NoCall, callFrame, Call
<1>16. CASE SuspendVolumes
  BY <1>16 DEF SuspendVolumes, Rewrite, changeFrame, Call
<1>17. CASE ResumeVolumes
  BY <1>17 DEF ResumeVolumes, Rewrite, changeFrame, Call
<1>18. CASE SuspendDrives
  BY <1>18 DEF SuspendDrives, changeFrame, Call
<1>19. CASE ResumeDrives
  BY <1>19 DEF ResumeDrives, changeFrame, Call
<1>20. CASE DeleteVolume
  BY <1>20 DEF DeleteVolume, removeFrame, Call
<1>21. CASE RemovePVProtection
  BY <1>21 DEF RemovePVProtection, Update, removeFrame, Call
<1>22. CASE DeleteObject
  BY <1>22 DEF DeleteObject, Rewrite, removeFrame, Call
<1>23. CASE ReleaseVolume
  BY <1>23 DEF ReleaseVolume, removeFrame, Call
<1>24. CASE ReleasePaths
  BY <1>24, ReleasePathsEffect DEF removeFrame
<1>25. CASE ReleasePurge
  BY <1>25 DEF ReleasePurge, NoRelease, removeFrame, Call
<1> QED
  BY <1>1, <1>2, <1>3, <1>4, <1>5, <1>6, <1>7, <1>8, <1>9, <1>10, <1>11, <1>12, <1>13,
     <1>14, <1>15, <1>16, <1>17, <1>18, <1>19, <1>20, <1>21, <1>22, <1>23, <1>24, <1>25 DEF Next

\* The staging path is mounted once, and not after it was unstaged.
LEMMA StagingStep ==
  ASSUME MountsInv, Next
  PROVE  StagingInv'
<1> USE DEF MountsInv, TypeOK, CallInv, StagingInv, StagedOnce, UnstagedIsUnmounted, ObjectInv,
           objectVars, hostVars, podVars, viewVars, opVars
<1>1. ASSUME NEW p \in Pods, StartPod(p) PROVE StagingInv'
  BY <1>1 DEF StartPod, podFrame, Call
<1>2. ASSUME NEW p \in Pods, StopPod(p) PROVE StagingInv'
  BY <1>2 DEF StopPod, podFrame, Call
<1>3. ASSUME NEW p \in Pods, NodePublishVolume(p) PROVE StagingInv'
  BY <1>3 DEF NodePublishVolume, Begin, callFrame, Call
<1>4. ASSUME NEW p \in Pods, NodeUnpublishVolume(p) PROVE StagingInv'
  BY <1>4 DEF NodeUnpublishVolume, Begin, callFrame, Call
<1>5. CASE ReleaseClaim
  BY <1>5 DEF ReleaseClaim, podFrame, Call
<1>6. CASE KubeletRestart
  BY <1>6 DEF KubeletRestart, Unsure, Call
<1>7. CASE Reboot
  BY <1>7 DEF Reboot, Unsure, NoRelease, NoCall, Call
<1>8. CASE NodeStageVolume
  BY <1>8 DEF NodeStageVolume, Begin, callFrame, Call
<1>9. CASE CheckDrive
  BY <1>9, CheckDriveEffect, NoCallType DEF callFrame
<1>10. CASE StageVolume
  BY <1>10 DEF StageVolume, Fail, NoCall, callFrame, Call
<1>11. CASE publishVolume
  BY <1>11, PublishEffect, NoCallType DEF callFrame
<1>12. CASE NodeUnstageVolume
  BY <1>12 DEF NodeUnstageVolume, Begin, callFrame, Call
<1>13. CASE Unmount
  BY <1>13, UnmountEffect DEF callFrame
<1>14. CASE RecordPath
  BY <1>14, RecordPathEffect, RecordedType, NoCallType DEF callFrame
<1>15. CASE AbortCall
  BY <1>15 DEF AbortCall, Fail, NoCall, callFrame, Call
<1>16. CASE SuspendVolumes
  BY <1>16 DEF SuspendVolumes, Rewrite, changeFrame, Call
<1>17. CASE ResumeVolumes
  BY <1>17 DEF ResumeVolumes, Rewrite, changeFrame, Call
<1>18. CASE SuspendDrives
  BY <1>18 DEF SuspendDrives, changeFrame, Call
<1>19. CASE ResumeDrives
  BY <1>19 DEF ResumeDrives, changeFrame, Call
<1>20. CASE DeleteVolume
  BY <1>20 DEF DeleteVolume, removeFrame, Call
<1>21. CASE RemovePVProtection
  BY <1>21 DEF RemovePVProtection, Update, removeFrame, Call
<1>22. CASE DeleteObject
  BY <1>22 DEF DeleteObject, Rewrite, removeFrame, Call
<1>23. CASE ReleaseVolume
  BY <1>23 DEF ReleaseVolume, removeFrame, Call
<1>24. CASE ReleasePaths
  BY <1>24, ReleasePathsEffect DEF removeFrame
<1>25. CASE ReleasePurge
  BY <1>25 DEF ReleasePurge, NoRelease, removeFrame, Call
<1> QED
  BY <1>1, <1>2, <1>3, <1>4, <1>5, <1>6, <1>7, <1>8, <1>9, <1>10, <1>11, <1>12, <1>13,
     <1>14, <1>15, <1>16, <1>17, <1>18, <1>19, <1>20, <1>21, <1>22, <1>23, <1>24, <1>25 DEF Next

\* pv-protection is removed after every path was taken back, and what is written later
\* records none.
LEMMA ObjectStep ==
  ASSUME MountsInv, Next
  PROVE  ObjectInv'
<1> USE DEF MountsInv, TypeOK, CallInv, PodInv, ObjectInv,
           objectVars, hostVars, podVars, viewVars, opVars
<1>1. ASSUME NEW p \in Pods, StartPod(p) PROVE ObjectInv'
  BY <1>1 DEF StartPod, podFrame, Call, Release, Object
<1>2. ASSUME NEW p \in Pods, StopPod(p) PROVE ObjectInv'
  BY <1>2 DEF StopPod, podFrame, Call, Release, Object
<1>3. ASSUME NEW p \in Pods, NodePublishVolume(p) PROVE ObjectInv'
  BY <1>3 DEF NodePublishVolume, Begin, callFrame, Call, Release, Object
<1>4. ASSUME NEW p \in Pods, NodeUnpublishVolume(p) PROVE ObjectInv'
  <2>1. CASE exists
    BY <1>4, <2>1 DEF NodeUnpublishVolume, Begin, callFrame, Call
  <2>2. CASE ~exists
    <3>1. UNCHANGED <<objectVars, hostVars, call, callFrame>>
      BY <1>4, <2>2 DEF NodeUnpublishVolume, Begin
    <3>2. podView' = [podView EXCEPT ![p] = "no"]
      BY <1>4, <2>2 DEF NodeUnpublishVolume, Begin
    <3> QED BY <2>2, <3>1, <3>2 DEF callFrame
  <2> QED BY <2>1, <2>2
<1>5. CASE ReleaseClaim
  BY <1>5 DEF ReleaseClaim, podFrame, Call, Release, Object
<1>6. CASE KubeletRestart
  BY <1>6 DEF KubeletRestart, Unsure, Call, Release, Object
<1>7. CASE Reboot
  BY <1>7 DEF Reboot, Unsure, NoRelease, NoCall, Call, Release, Object
<1>8. CASE NodeStageVolume
  BY <1>8 DEF NodeStageVolume, Begin, callFrame, Call, Release, Object
<1>9. CASE CheckDrive
  BY <1>9, CheckDriveEffect, NoCallType DEF callFrame
<1>10. CASE StageVolume
  BY <1>10 DEF StageVolume, Fail, NoCall, callFrame, Call, Release, Object
<1>11. CASE publishVolume
  BY <1>11, PublishEffect, NoCallType DEF callFrame
<1>12. CASE NodeUnstageVolume
  <2>1. CASE exists
    BY <1>12, <2>1 DEF NodeUnstageVolume, Begin, callFrame, Call
  <2>2. CASE ~exists
    <3>1. UNCHANGED <<objectVars, hostVars, call, callFrame>>
      BY <1>12, <2>2 DEF NodeUnstageVolume, Begin
    <3>2. podView' = podView
      BY <1>12, <2>2 DEF NodeUnstageVolume, Begin
    <3> QED BY <2>2, <3>1, <3>2 DEF callFrame
  <2> QED BY <2>1, <2>2
<1>13. CASE Unmount
  BY <1>13, UnmountEffect DEF callFrame
<1>14. CASE RecordPath
  <2>1. CASE object' = object
    BY <1>14, <2>1, RecordPathEffect, NoCallType DEF callFrame
  <2>2. CASE "call" \in copies /\ object' = Recorded /\ copies' = {}
    <3>1. exists /\ (~object.protected => call.rpc \in {"unpublish", "unstage"})
      BY <2>2, <1>14, RecordPathEffect DEF Call
    <3> QED BY <1>14, <2>2, <3>1, RecordPathEffect, RecordedType, NoCallType DEF callFrame
  <2> QED BY <1>14, <2>1, <2>2, RecordPathEffect
<1>15. CASE AbortCall
  BY <1>15 DEF AbortCall, Fail, NoCall, callFrame, Call, Release, Object
<1>16. CASE SuspendVolumes
  BY <1>16 DEF SuspendVolumes, Rewrite, changeFrame, Call, Release, Object
<1>17. CASE ResumeVolumes
  BY <1>17 DEF ResumeVolumes, Rewrite, changeFrame, Call, Release, Object
<1>18. CASE SuspendDrives
  BY <1>18 DEF SuspendDrives, changeFrame, Call, Release, Object
<1>19. CASE ResumeDrives
  BY <1>19 DEF ResumeDrives, changeFrame, Call, Release, Object
<1>20. CASE DeleteVolume
  BY <1>20 DEF DeleteVolume, removeFrame, Call, Release, Object
<1>21. CASE RemovePVProtection
  BY <1>21 DEF RemovePVProtection, Update, removeFrame, Call, Release, Object
<1>22. CASE DeleteObject
  BY <1>22 DEF DeleteObject, Rewrite, removeFrame, Call, Release, Object
<1>23. CASE ReleaseVolume
  BY <1>23 DEF ReleaseVolume, removeFrame, Call, Release, Object
<1>24. CASE ReleasePaths
  <2>1. /\ UNCHANGED <<exists, object, copies, destroy, released, call>>
        /\ release.pc # "idle" /\ release'.copy = release.copy
    BY <1>24, ReleasePathsEffect DEF removeFrame, ReleasePaths
  <2> QED BY <2>1
<1>25. CASE ReleasePurge
  <2>1. CASE "release" \in copies
    BY <1>25, <2>1 DEF ReleasePurge, NoRelease, removeFrame, NewObject
  <2>2. CASE "release" \notin copies
    BY <1>25, <2>2 DEF ReleasePurge, NoRelease, removeFrame
  <2> QED BY <2>1, <2>2
<1> QED
  BY <1>1, <1>2, <1>3, <1>4, <1>5, <1>6, <1>7, <1>8, <1>9, <1>10, <1>11, <1>12, <1>13,
     <1>14, <1>15, <1>16, <1>17, <1>18, <1>19, <1>20, <1>21, <1>22, <1>23, <1>24, <1>25 DEF Next

\* The data is mounted for a pod only while the object records the staging path, and then
\* its directory is there.
LEMMA DataStep ==
  ASSUME MountsInv, Next
  PROVE  DataInv'
<1> USE DEF MountsInv, TypeOK, CallInv, PodInv, ObjectInv, DataInv,
           objectVars, hostVars, podVars, viewVars, opVars
<1>1. ASSUME NEW p \in Pods, StartPod(p) PROVE DataInv'
  BY <1>1, SourcesSame DEF StartPod, podFrame, Call, Object
<1>2. ASSUME NEW p \in Pods, StopPod(p) PROVE DataInv'
  BY <1>2, SourcesSame DEF StopPod, podFrame, Call, Object
<1>3. ASSUME NEW p \in Pods, NodePublishVolume(p) PROVE DataInv'
  <2>1. podView[p] = "no" => Sources(p) = {}
    BY <1>3, NoSources DEF NodePublishVolume
  <2>2. \A q \in Pods : podView'[q] # "no" /\ "data" \in Sources(q) => exists /\ object.staged
    BY <1>3, <2>1 DEF NodePublishVolume
  <2> QED BY <1>3, <2>2, SourcesSame DEF NodePublishVolume, Begin, callFrame, Call
<1>4. ASSUME NEW p \in Pods, NodeUnpublishVolume(p) PROVE DataInv'
  <2>1. CASE exists
    BY <1>4, <2>1, SourcesSame DEF NodeUnpublishVolume, Begin, callFrame, Call
  <2>2. CASE ~exists
    <3>1. UNCHANGED <<objectVars, hostVars, call, callFrame>>
      BY <1>4, <2>2 DEF NodeUnpublishVolume, Begin
    <3>2. podView' = [podView EXCEPT ![p] = "no"]
      BY <1>4, <2>2 DEF NodeUnpublishVolume, Begin
    <3> QED BY <2>2, <3>1, <3>2, SourcesSame DEF callFrame
  <2> QED BY <2>1, <2>2
<1>5. CASE ReleaseClaim
  BY <1>5, SourcesSame DEF ReleaseClaim, podFrame, Call, Object
<1>6. CASE KubeletRestart
  BY <1>6, SourcesSame DEF KubeletRestart, Unsure, Call, Object
<1>7. CASE Reboot
  BY <1>7 DEF Reboot, Unsure, NoRelease, NoCall, Sources
<1>8. CASE NodeStageVolume
  BY <1>8, SourcesSame DEF NodeStageVolume, Begin, callFrame, Call, Object
<1>9. CASE CheckDrive
  BY <1>9, CheckDriveEffect, NoCallType, SourcesSame DEF callFrame
<1>10. CASE StageVolume
  BY <1>10, SourcesSame DEF StageVolume, Fail, NoCall, callFrame, Call, Object
<1>11. CASE publishVolume
  <2>1. UNCHANGED <<exists, object, dataDir, viewVars>>
    BY <1>11, PublishEffect
  <2>2. CASE call' = NoCall /\ copies' = copies \ {"call"} /\ target' = target
    BY <2>1, <2>2, NoCallType, SourcesSame
  <2>3. CASE call' # NoCall
    <3>1. /\ UNCHANGED copies /\ call'.rpc = "publish" /\ call'.recorded = call.recorded
          /\ call'.suspended = call.suspended /\ call.pc = "mount" /\ call.rpc = "publish"
      BY <1>11, <2>3, PublishEffect
    <3>2. ASSUME NEW p \in Pods, podView'[p] # "no", "data" \in Sources(p)'
          PROVE  exists' /\ object'.staged
      <4>1. "data" \in Sources(p) \/ ~call.suspended
        BY <1>11, <2>3, <3>2, PublishEffect
      <4> QED BY <2>1, <3>1, <3>2, <4>1
    <3> QED BY <2>1, <3>1, <3>2
  <2> QED BY <1>11, <2>2, <2>3, PublishEffect
<1>12. CASE NodeUnstageVolume
  <2>1. CASE exists
    BY <1>12, <2>1, SourcesSame DEF NodeUnstageVolume, Begin, callFrame, Call
  <2>2. CASE ~exists
    <3>1. UNCHANGED <<objectVars, hostVars, call, callFrame>>
      BY <1>12, <2>2 DEF NodeUnstageVolume, Begin
    <3>2. podView' = podView
      BY <1>12, <2>2 DEF NodeUnstageVolume, Begin
    <3> QED BY <2>2, <3>1, <3>2, SourcesSame DEF callFrame
  <2> QED BY <2>1, <2>2
<1>13. CASE Unmount
  BY <1>13, UnmountEffect DEF callFrame
<1>14. CASE RecordPath
  BY <1>14, RecordPathEffect, RecordedType, NoCallType, SourcesSame DEF callFrame
<1>15. CASE AbortCall
  BY <1>15, SourcesSame DEF AbortCall, Fail, NoCall, callFrame, Call, Object
<1>16. CASE SuspendVolumes
  BY <1>16, SourcesSame DEF SuspendVolumes, Rewrite, changeFrame, Call, Object
<1>17. CASE ResumeVolumes
  BY <1>17, SourcesSame DEF ResumeVolumes, Rewrite, changeFrame, Call, Object
<1>18. CASE SuspendDrives
  BY <1>18, SourcesSame DEF SuspendDrives, changeFrame, Call, Object
<1>19. CASE ResumeDrives
  BY <1>19, SourcesSame DEF ResumeDrives, changeFrame, Call, Object
<1>20. CASE DeleteVolume
  BY <1>20, SourcesSame DEF DeleteVolume, removeFrame, Call, Object
<1>21. CASE RemovePVProtection
  <2>1. object' \in Object /\ object'.staged = object.staged /\ (copies' \subseteq copies)
    BY <1>21 DEF RemovePVProtection, Update, Object
  <2> QED BY <1>21, <2>1, SourcesSame DEF RemovePVProtection, Update, removeFrame
<1>22. CASE DeleteObject
  <2>1. object' \in Object /\ object'.staged = object.staged /\ (copies' \subseteq copies)
    BY <1>22 DEF DeleteObject, Rewrite, Object
  <2> QED BY <1>22, <2>1, SourcesSame DEF DeleteObject, Rewrite, removeFrame
<1>23. CASE ReleaseVolume
  BY <1>23, SourcesSame DEF ReleaseVolume, removeFrame, Call, Object
<1>24. CASE ReleasePaths
  BY <1>24, ReleasePathsEffect, SourcesSame DEF removeFrame
<1>25. CASE ReleasePurge
  <2>1. ~object.staged
    BY <1>25 DEF ReleasePurge
  <2>2. ~object'.staged /\ copies' \subseteq copies
    BY <1>25, <2>1, NewObjectType DEF ReleasePurge
  <2>3. UNCHANGED <<hostVars, call, viewVars>>
    BY <1>25 DEF ReleasePurge, removeFrame
  <2> QED BY <2>1, <2>2, <2>3, SourcesSame
<1> QED
  BY <1>1, <1>2, <1>3, <1>4, <1>5, <1>6, <1>7, <1>8, <1>9, <1>10, <1>11, <1>12, <1>13,
     <1>14, <1>15, <1>16, <1>17, <1>18, <1>19, <1>20, <1>21, <1>22, <1>23, <1>24, <1>25 DEF Next

\* What the kubelet was told is published has a mount.
LEMMA PathStep ==
  ASSUME MountsInv, Next
  PROVE  PathInv'
<1> USE DEF MountsInv, TypeOK, CallInv, ObjectInv, PathInv,
           objectVars, hostVars, podVars, viewVars, opVars
<1>1. ASSUME NEW p \in Pods, StartPod(p) PROVE PathInv'
  BY <1>1 DEF StartPod, podFrame, Call
<1>2. ASSUME NEW p \in Pods, StopPod(p) PROVE PathInv'
  BY <1>2 DEF StopPod, podFrame, Call
<1>3. ASSUME NEW p \in Pods, NodePublishVolume(p) PROVE PathInv'
  BY <1>3 DEF NodePublishVolume, Begin, callFrame, Call
<1>4. ASSUME NEW p \in Pods, NodeUnpublishVolume(p) PROVE PathInv'
  BY <1>4 DEF NodeUnpublishVolume, Begin, callFrame, Call
<1>5. CASE ReleaseClaim
  BY <1>5 DEF ReleaseClaim, podFrame, Call
<1>6. CASE KubeletRestart
  BY <1>6 DEF KubeletRestart, Unsure, Call
<1>7. CASE Reboot
  BY <1>7 DEF Reboot, Unsure, NoRelease, NoCall, Call
<1>8. CASE NodeStageVolume
  BY <1>8 DEF NodeStageVolume, Begin, callFrame, Call
<1>9. CASE CheckDrive
  BY <1>9, CheckDriveEffect, NoCallType DEF callFrame
<1>10. CASE StageVolume
  BY <1>10 DEF StageVolume, Fail, NoCall, callFrame, Call
<1>11. CASE publishVolume
  BY <1>11, PublishEffect, NoCallType DEF callFrame
<1>12. CASE NodeUnstageVolume
  BY <1>12 DEF NodeUnstageVolume, Begin, callFrame, Call
<1>13. CASE Unmount
  BY <1>13, UnmountEffect DEF callFrame
<1>14. CASE RecordPath
  BY <1>14, RecordPathEffect, RecordedType, NoCallType DEF callFrame
<1>15. CASE AbortCall
  BY <1>15 DEF AbortCall, Fail, NoCall, callFrame, Call
<1>16. CASE SuspendVolumes
  BY <1>16 DEF SuspendVolumes, Rewrite, changeFrame, Call
<1>17. CASE ResumeVolumes
  BY <1>17 DEF ResumeVolumes, Rewrite, changeFrame, Call
<1>18. CASE SuspendDrives
  BY <1>18 DEF SuspendDrives, changeFrame, Call
<1>19. CASE ResumeDrives
  BY <1>19 DEF ResumeDrives, changeFrame, Call
<1>20. CASE DeleteVolume
  BY <1>20 DEF DeleteVolume, removeFrame, Call
<1>21. CASE RemovePVProtection
  BY <1>21 DEF RemovePVProtection, Update, removeFrame, Call
<1>22. CASE DeleteObject
  BY <1>22 DEF DeleteObject, Rewrite, removeFrame, Call
<1>23. CASE ReleaseVolume
  BY <1>23 DEF ReleaseVolume, removeFrame, Call
<1>24. CASE ReleasePaths
  BY <1>24, ReleasePathsEffect DEF removeFrame
<1>25. CASE ReleasePurge
  BY <1>25 DEF ReleasePurge, NoRelease, removeFrame, Call
<1> QED
  BY <1>1, <1>2, <1>3, <1>4, <1>5, <1>6, <1>7, <1>8, <1>9, <1>10, <1>11, <1>12, <1>13,
     <1>14, <1>15, <1>16, <1>17, <1>18, <1>19, <1>20, <1>21, <1>22, <1>23, <1>24, <1>25 DEF Next

\* Steps keep the types.
LEMMA TypeStep ==
  ASSUME MountsInv, Next
  PROVE  TypeOK'
<1> USE DEF MountsInv, TypeOK, CallInv,
           objectVars, hostVars, podVars, viewVars, opVars
<1>1. ASSUME NEW p \in Pods, StartPod(p) PROVE TypeOK'
  BY <1>1 DEF StartPod, podFrame, Call, Release, Object, Views, NewObject
<1>2. ASSUME NEW p \in Pods, StopPod(p) PROVE TypeOK'
  BY <1>2 DEF StopPod, podFrame, Call, Release, Object, Views, NewObject
<1>3. ASSUME NEW p \in Pods, NodePublishVolume(p) PROVE TypeOK'
  BY <1>3 DEF NodePublishVolume, Begin, callFrame, Call, Release, Object, Views, NewObject
<1>4. ASSUME NEW p \in Pods, NodeUnpublishVolume(p) PROVE TypeOK'
  <2>1. CASE exists
    <3>1. Begin("unpublish", p, "mount") /\ stageView' \in Views /\ podView' \in [Pods -> Views]
      BY <1>4, <2>1 DEF NodeUnpublishVolume, Views
    <3>2. call' \in Call /\ copies' \subseteq {"call", "destroy", "release"}
      BY <3>1, BeginType
    <3> QED BY <3>1, <3>2 DEF Begin, callFrame
  <2>2. CASE ~exists
    <3>1. UNCHANGED <<objectVars, hostVars, call, callFrame>>
      BY <1>4, <2>2 DEF NodeUnpublishVolume, Begin
    <3>2. podView' \in [Pods -> Views] /\ UNCHANGED stageView
      BY <1>4, <2>2 DEF NodeUnpublishVolume, Begin, Views
    <3> QED BY <2>2, <3>1, <3>2 DEF callFrame
  <2> QED BY <2>1, <2>2
<1>5. CASE ReleaseClaim
  BY <1>5 DEF ReleaseClaim, podFrame, Call, Release, Object, Views, NewObject
<1>6. CASE KubeletRestart
  BY <1>6 DEF KubeletRestart, Unsure, Call, Release, Object, Views, NewObject
<1>7. CASE Reboot
  BY <1>7 DEF Reboot, Unsure, NoRelease, NoCall, Call, Release, Object, Views, NewObject
<1>8. CASE NodeStageVolume
  BY <1>8 DEF NodeStageVolume, Begin, callFrame, Call, Release, Object, Views, NewObject
<1>9. CASE CheckDrive
  <2>1. stageView' \in Views /\ call' \in Call /\ copies' \subseteq copies
    BY <1>9, CheckDriveEffect, NoCallType DEF Views
  <2> QED BY <1>9, <2>1, CheckDriveEffect DEF callFrame
<1>10. CASE StageVolume
  <2>1. call' \in Call
    BY <1>10, NoCallType DEF StageVolume, Fail, Call
  <2>2. stageView' \in Views /\ podView' \in [Pods -> Views] /\ staging' \in Nat
    BY <1>10 DEF StageVolume, Fail
  <2> QED BY <1>10, <2>1, <2>2 DEF StageVolume, callFrame
<1>11. CASE publishVolume
  BY <1>11, PublishEffect, NoCallType DEF callFrame
<1>12. CASE NodeUnstageVolume
  <2>1. CASE exists
    <3>1. Begin("unstage", NoPod, "mount") /\ stageView' \in Views /\ podView' \in [Pods -> Views]
      BY <1>12, <2>1 DEF NodeUnstageVolume, Views
    <3>2. call' \in Call /\ copies' \subseteq {"call", "destroy", "release"}
      BY <3>1, BeginType
    <3> QED BY <3>1, <3>2 DEF Begin, callFrame
  <2>2. CASE ~exists
    <3>1. UNCHANGED <<objectVars, hostVars, call, callFrame>>
      BY <1>12, <2>2 DEF NodeUnstageVolume, Begin
    <3>2. stageView' \in Views /\ UNCHANGED podView
      BY <1>12, <2>2 DEF NodeUnstageVolume, Begin, Views
    <3> QED BY <2>2, <3>1, <3>2 DEF callFrame
  <2> QED BY <2>1, <2>2
<1>13. CASE Unmount
  BY <1>13, UnmountEffect DEF callFrame
<1>14. CASE RecordPath
  <2>1. object' \in Object /\ call' \in Call
    BY <1>14, RecordPathEffect, RecordedType, NoCallType
  <2>2. stageView' \in Views /\ podView' \in [Pods -> Views]
    BY <1>14, RecordPathEffect DEF Views
  <2> QED BY <1>14, <2>1, <2>2, RecordPathEffect DEF callFrame
<1>15. CASE AbortCall
  BY <1>15 DEF AbortCall, Fail, NoCall, callFrame, Call, Release, Object, Views, NewObject
<1>16. CASE SuspendVolumes
  <2>1. object' \in Object
    BY <1>16 DEF SuspendVolumes, Rewrite, Object
  <2>2. changes' \in 0..MaxChanges
    BY <1>16, MountsAssumption DEF SuspendVolumes
  <2> QED BY <1>16, <2>1, <2>2 DEF SuspendVolumes, Rewrite, changeFrame
<1>17. CASE ResumeVolumes
  <2>1. object' \in Object
    BY <1>17 DEF ResumeVolumes, Rewrite, Object
  <2>2. changes' \in 0..MaxChanges
    BY <1>17, MountsAssumption DEF ResumeVolumes
  <2> QED BY <1>17, <2>1, <2>2 DEF ResumeVolumes, Rewrite, changeFrame
<1>18. CASE SuspendDrives
  <2>1. changes' \in 0..MaxChanges
    BY <1>18, MountsAssumption DEF SuspendDrives
  <2> QED BY <1>18, <2>1 DEF SuspendDrives, changeFrame
<1>19. CASE ResumeDrives
  <2>1. changes' \in 0..MaxChanges
    BY <1>19, MountsAssumption DEF ResumeDrives
  <2> QED BY <1>19, <2>1 DEF ResumeDrives, changeFrame
<1>20. CASE DeleteVolume
  BY <1>20 DEF DeleteVolume, removeFrame, Call, Release, Object, Views, NewObject
<1>21. CASE RemovePVProtection
  <2>1. object' \in Object
    BY <1>21 DEF RemovePVProtection, Update, Object
  <2> QED BY <1>21, <2>1 DEF RemovePVProtection, Update, removeFrame
<1>22. CASE DeleteObject
  <2>1. object' \in Object
    BY <1>22 DEF DeleteObject, Rewrite, Object
  <2> QED BY <1>22, <2>1 DEF DeleteObject, Rewrite, removeFrame
<1>23. CASE ReleaseVolume
  BY <1>23 DEF ReleaseVolume, removeFrame, Call, Release, Object, Views, NewObject
<1>24. CASE ReleasePaths
  BY <1>24, ReleasePathsEffect DEF removeFrame
<1>25. CASE ReleasePurge
  <2>1. object' \in Object /\ NoRelease \in Release
    BY <1>25, NewObjectType DEF ReleasePurge
  <2> QED BY <1>25, <2>1 DEF ReleasePurge, removeFrame
<1> QED
  BY <1>1, <1>2, <1>3, <1>4, <1>5, <1>6, <1>7, <1>8, <1>9, <1>10, <1>11, <1>12, <1>13,
     <1>14, <1>15, <1>16, <1>17, <1>18, <1>19, <1>20, <1>21, <1>22, <1>23, <1>24, <1>25 DEF Next

-----------------------------------------------------------------------------
(* The theorems *)

\* The invariant holds before the volume was used.
LEMMA MountsInit == Init => MountsInv
<1> SUFFICES ASSUME Init PROVE MountsInv
  OBVIOUS
<1>1. TypeOK
  <2>1. target \in [Pods -> Seq({"data", "tmp"})] /\ podView \in [Pods -> Views] /\ stageView \in Views
    BY DEF Init, Views
  <2>2. changes \in 0..MaxChanges
    BY MountsAssumption DEF Init
  <2> QED BY <2>1, <2>2, NewObjectType, NoCallType DEF Init, TypeOK
<1>2. CallInv /\ PodInv /\ StagingInv /\ PathInv
  BY NoCallType DEF Init, CallInv, PodInv, StagingInv, StagedOnce, UnstagedIsUnmounted, PathInv
<1>3. ObjectInv
  BY DEF Init, ObjectInv, NewObject, NoRelease
<1>4. DataInv
  BY NoCallType, NewObjectType DEF Init, DataInv
<1> QED BY <1>1, <1>2, <1>3, <1>4 DEF MountsInv

\* Stuttering keeps it.
LEMMA MountsStutter ==
  ASSUME MountsInv, UNCHANGED vars
  PROVE  MountsInv'
<1>1. TypeOK'
  BY DEF MountsInv, TypeOK, vars
<1>2. CallInv' /\ PodInv' /\ PathInv'
  BY DEF MountsInv, CallInv, PodInv, PathInv, vars
<1>3. StagingInv' /\ ObjectInv'
  BY DEF MountsInv, StagingInv, StagedOnce, UnstagedIsUnmounted, ObjectInv, vars
<1>4. DataInv'
  BY SourcesSame DEF MountsInv, DataInv, vars
<1> QED BY <1>1, <1>2, <1>3, <1>4 DEF MountsInv

\* The invariant holds in every state.
LEMMA MountsInvariant == Spec => []MountsInv
<1>1. MountsInv /\ [Next]_vars => MountsInv'
  BY TypeStep, CallStep, PodStep, StagingStep, ObjectStep, DataStep, PathStep, MountsStutter
     DEF MountsInv
<1> QED BY <1>1, MountsInit, PTL DEF Spec

\* However publishing, suspending, DeleteVolume, delete() and reboots interleave, the
\* invariant gives every published pod that sees the volume its data directory and an
\* object that records the staging path.
LEMMA DataInUse ==
  ASSUME MountsInv, NEW p \in Pods, podView[p] = "yes", SeesData(p)
  PROVE  exists /\ object.staged /\ dataDir
<1>1. Len(target[p]) \in 1..Len(target[p])
  BY DEF MountsInv, TypeOK, SeesData
<1>2. "data" \in Sources(p)
  BY <1>1 DEF SeesData, Sources
<1> QED BY <1>2 DEF MountsInv, DataInv

\* A pod that was published has a mount on its target path, and if that is the volume,
\* its data directory is there: delete() never takes it from under the pod.
THEOREM DataStaysMounted == Spec => []PublishedSeesData
<1>1. MountsInv => PublishedSeesData
  BY DataInUse DEF MountsInv, PathInv, PublishedSeesData
<1> QED BY <1>1, MountsInvariant, PTL

\* A published pod that sees the data is covered by the StagingTargetPath of the object,
\* which makes DeleteVolume refuse, also when another pod was the last to be published and
\* TargetPath names that one.
THEOREM UseIsRecorded == Spec => []DataInUseIsRecorded
<1>1. MountsInv => DataInUseIsRecorded
  BY DataInUse DEF DataInUseIsRecorded
<1> QED BY <1>1, MountsInvariant, PTL

\* StageVolume looks at the mount table before it mounts, so however often the kubelet
\* repeats a call that failed half way there is one mount on the staging path.
THEOREM StagingIsSingle == Spec => []StagedOnce
<1>1. MountsInv => StagedOnce
  BY DEF MountsInv, StagingInv
<1> QED BY <1>1, MountsInvariant, PTL

\* Once NodeUnstageVolume has answered, nothing is left on the staging path of a volume
\* that exists, also when a failed NodeStageVolume had not recorded the path.
THEOREM StagingIsFreed == Spec => []UnstagedIsUnmounted
<1>1. MountsInv => UnstagedIsUnmounted
  BY DEF MountsInv, StagingInv
<1> QED BY <1>1, MountsInvariant, PTL
=============================================================================
