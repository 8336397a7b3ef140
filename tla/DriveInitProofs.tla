-------------------------- MODULE DriveInitProofs ---------------------------
(***************************************************************************)
(* A drive keeps its device, for any number of devices and requests.       *)
(*                                                                         *)
(* DrivesKeepTheirDevice is not inductive: mkfs is several steps after the *)
(* probe that found no drive on the device, and in between drives appear.  *)
(* What carries the proof is that a filesystem is on one device only, so   *)
(* that a drive which appears is not that of a device under check.         *)
(***************************************************************************)
EXTENDS DriveInit, TLAPS

\* What the argument needs of the types
FSType ==
  /\ fs \in [Devices -> Nat] /\ formats \in Nat
  /\ DOMAIN task = Devices /\ task = [d \in Devices |-> task[d]]

\* Filesystems are numbered as they are made and are not copied.
Numbered ==
  /\ \A d \in Devices : fs[d] <= formats
  /\ \A d, e \in Devices : fs[d] = fs[e] /\ fs[d] # 0 => d = e

\* A device that is about to be formatted is not a drive.
CheckedIsFree ==
  \A d \in Devices : task[d] \in {"check", "format"} => fs[d] \notin drives

\* One that was formatted has a filesystem.
FormattedHasFS ==
  \A d \in Devices : task[d] \in {"mount", "create"} => fs[d] # 0

\* The inductive invariant
DeviceInv ==
  /\ FSType /\ Numbered /\ CheckedIsFree /\ FormattedHasFS /\ DrivesKeepTheirDevice

\* The invariant holds before anything was discovered.
LEMMA DeviceInit == Init => DeviceInv
  BY DEF Init, NoTasks, DeviceInv, FSType, Numbered, CheckedIsFree, FormattedHasFS,
         DrivesKeepTheirDevice

\* A step that leaves filesystems alone and makes no drive keeps the invariant if every
\* task that is before mkfs was so, or starts on a device that is no drive.
LEMMA NoFormat ==
  ASSUME DeviceInv, UNCHANGED <<fs, formats>>, drives' \subseteq drives,
         DOMAIN task' = Devices, task' = [d \in Devices |-> task'[d]],
         \A d \in Devices :
           /\ task'[d] \in {"check", "format"} =>
                task[d] \in {"check", "format"} \/ fs[d] \notin drives
           /\ task'[d] \in {"mount", "create"} => task[d] \in {"mount", "create"}
  PROVE  DeviceInv'
<1>1. FSType' /\ Numbered'
  BY DEF DeviceInv, FSType, Numbered
<1>2. CheckedIsFree' /\ FormattedHasFS'
  BY DEF DeviceInv, CheckedIsFree, FormattedHasFS
<1>3. DrivesKeepTheirDevice'
  BY DEF DeviceInv, DrivesKeepTheirDevice
<1> QED BY <1>1, <1>2, <1>3 DEF DeviceInv

\* mkfs gives a device that is no drive a filesystem that no other device has.
LEMMA FormatStep ==
  ASSUME DeviceInv, NEW d \in Devices, MakeFS(d)
  PROVE  DeviceInv'
<1> USE DEF taskFrame, driveVars, Goto, FailTo
<1>1. CASE /\ formats' = formats + 1 /\ fs' = [fs EXCEPT ![d] = formats + 1]
           /\ task' = [task EXCEPT ![d] = "mount"]
  <2> task[d] = "format" /\ fs[d] \notin drives /\ UNCHANGED drives
    BY DEF MakeFS, DeviceInv, CheckedIsFree
  <2>1. FSType'
    BY <1>1 DEF DeviceInv, FSType
  <2>2. \A e \in Devices : fs'[e] = IF e = d THEN formats + 1 ELSE fs[e]
    BY <1>1 DEF DeviceInv, FSType
  <2>3. \A e \in Devices : task'[e] = IF e = d THEN "mount" ELSE task[e]
    BY <1>1 DEF DeviceInv, FSType
  <2>4. Numbered'
    BY <1>1, <2>2 DEF DeviceInv, FSType, Numbered
  <2>5. \A u \in drives : u <= formats
    BY DEF DeviceInv, DrivesKeepTheirDevice, Numbered
  <2>6. CheckedIsFree'
    BY <2>2, <2>3 DEF DeviceInv, CheckedIsFree
  <2>7. FormattedHasFS'
    BY <2>2, <2>3 DEF DeviceInv, FormattedHasFS, FSType
  <2>8. DrivesKeepTheirDevice'
    <3> SUFFICES ASSUME NEW u \in drives PROVE \E e \in Devices : fs'[e] = u
      BY DEF DrivesKeepTheirDevice
    <3>1. PICK e \in Devices : fs[e] = u
      BY DEF DeviceInv, DrivesKeepTheirDevice
    <3>2. e # d
      BY <3>1
    <3> QED BY <3>1, <3>2, <2>2
  <2> QED BY <2>1, <2>4, <2>6, <2>7, <2>8 DEF DeviceInv
<1>2. CASE UNCHANGED <<fs, formats>> /\ task' = [task EXCEPT ![d] = "failed"]
  <2>1. /\ DOMAIN task' = Devices /\ task' = [e \in Devices |-> task'[e]]
        /\ \A e \in Devices : task'[e] = IF e = d THEN "failed" ELSE task[e]
    BY <1>2 DEF DeviceInv, FSType
  <2>2. drives' = drives
    BY DEF MakeFS
  <2> QED BY <1>2, <2>1, <2>2, NoFormat
<1> QED BY <1>1, <1>2 DEF MakeFS

\* A drive that is created has the filesystem of its device, which is of no device under
\* check.
LEMMA CreateStep ==
  ASSUME DeviceInv, NEW d \in Devices, CreateDrive(d)
  PROVE  DeviceInv'
<1> USE DEF taskFrame, deviceVars, Goto, FailTo
<1>1. PICK pc \in {"done", "unmount"} : task' = [task EXCEPT ![d] = pc]
  BY DEF CreateDrive
<1>2. /\ task[d] = "create" /\ UNCHANGED <<fs, formats>>
      /\ drives' = drives \cup {fs[d]} \/ drives' = drives
  BY DEF CreateDrive, driveVars
<1>3. /\ DOMAIN task' = Devices /\ task' = [e \in Devices |-> task'[e]]
      /\ \A e \in Devices : task'[e] = IF e = d THEN pc ELSE task[e]
  BY <1>1 DEF DeviceInv, FSType
<1>4. fs[d] # 0
  BY <1>2 DEF DeviceInv, FormattedHasFS
<1>5. FSType' /\ Numbered' /\ FormattedHasFS'
  BY <1>2, <1>3 DEF DeviceInv, FSType, Numbered, FormattedHasFS
<1>6. CheckedIsFree'
  <2> SUFFICES ASSUME NEW e \in Devices, task'[e] \in {"check", "format"}
               PROVE  fs[e] \notin drives'
    BY <1>2 DEF CheckedIsFree
  <2>1. e # d /\ fs[e] \notin drives
    BY <1>3 DEF DeviceInv, CheckedIsFree
  <2>2. fs[e] # fs[d]
    BY <2>1, <1>4 DEF DeviceInv, Numbered
  <2> QED BY <2>1, <2>2, <1>2
<1>7. DrivesKeepTheirDevice'
  BY <1>2 DEF DeviceInv, DrivesKeepTheirDevice
<1> QED BY <1>5, <1>6, <1>7 DEF DeviceInv

\* Every step keeps the invariant.
LEMMA DeviceStep == DeviceInv /\ [Next]_vars => DeviceInv'
<1> SUFFICES ASSUME DeviceInv, [Next]_vars PROVE DeviceInv'
  OBVIOUS
<1> USE DEF deviceVars, driveVars, workVars, taskFrame, Goto, FailTo
<1>0. task = [d \in Devices |-> task[d]] /\ DOMAIN task = Devices
  BY DEF DeviceInv, FSType
<1>1. CASE UNCHANGED vars
  BY <1>0, <1>1, NoFormat DEF vars
<1>2. CASE Discover
  BY <1>0, <1>2, NoFormat DEF Discover
<1>3. CASE FinishRequest \/ StopController \/ Reboot
  BY <1>0, <1>3, NoFormat DEF FinishRequest, StopController, Reboot, NoTasks
<1>4. ASSUME NEW r \in Requests, CreateRequest(r) \/ DeleteRequest(r) \/ ProbeFails(r)
      PROVE  DeviceInv'
  BY <1>0, <1>4, NoFormat DEF CreateRequest, DeleteRequest, ProbeFails
<1>5. ASSUME NEW r \in Requests, StartRequest(r)
      PROVE  DeviceInv'
  <2>1. /\ UNCHANGED <<fs, formats, drives>>
        /\ DOMAIN task' = Devices /\ task' = [d \in Devices |-> task'[d]]
    BY <1>5 DEF StartRequest
  <2>2. \A d \in Devices :
          /\ task'[d] \in {"check", "failed", "none"}
          /\ task'[d] = "check" => fs[d] \notin drives
    BY <1>5 DEF StartRequest, DeniedReason
  <2> QED BY <2>1, <2>2, NoFormat
<1>6. ASSUME NEW d \in Devices, MakeFS(d)
      PROVE  DeviceInv'
  BY <1>6, FormatStep
<1>7. ASSUME NEW d \in Devices, CreateDrive(d)
      PROVE  DeviceInv'
  BY <1>7, CreateStep
<1>8. ASSUME NEW d \in Devices, CheckMounts(d) \/ MountDevice(d) \/ UnmountDevice(d)
      PROVE  DeviceInv'
  <2>1. UNCHANGED <<fs, formats, drives>>
    BY <1>8 DEF CheckMounts, MountDevice, UnmountDevice
  <2>2. PICK pc : /\ task' = [task EXCEPT ![d] = pc]
                  /\ \/ pc = "failed"
                     \/ pc = "format" /\ task[d] = "check"
                     \/ pc = "create" /\ task[d] = "mount"
    BY <1>8 DEF CheckMounts, MountDevice, UnmountDevice
  <2>3. /\ DOMAIN task' = Devices /\ task' = [e \in Devices |-> task'[e]]
        /\ \A e \in Devices : task'[e] = IF e = d THEN pc ELSE task[e]
    BY <1>0, <2>2
  <2> QED BY <2>1, <2>2, <2>3, NoFormat
<1>9. ASSUME NEW d \in Devices, MountDrive(d) \/ RemoveDrive(d)
      PROVE  DeviceInv'
  BY <1>0, <1>9, NoFormat DEF MountDrive, RemoveDrive
<1> QED BY <1>1, <1>2, <1>3, <1>4, <1>5, <1>6, <1>7, <1>8, <1>9 DEF Next, TaskStep

\* No device is formatted while a DirectPVDrive names its filesystem: initDevice acts on
\* a probe that is several steps old, and drives are created in between, yet whatever old
\* configuration, repeated request, crash or lost answer there is, every drive has its
\* device.
THEOREM DeviceKept == Spec => []DrivesKeepTheirDevice
<1>1. DeviceInv => DrivesKeepTheirDevice
  BY DEF DeviceInv
<1> QED BY DeviceInit, DeviceStep, <1>1, PTL DEF Spec

-----------------------------------------------------------------------------
(* What is mounted, and what is reported *)

\* The state starts well typed.
LEMMA TypeInit == Init => TypeOK
<1> SUFFICES ASSUME Init PROVE TypeOK
  OBVIOUS
<1>1. 0 \in FS /\ NoID \in IDs /\ 0 \in 0..MaxFormats /\ 0 \in 0..MaxEvents
  BY InitAssumption DEF FS, NoID, IDs
<1>2. request \in [Requests -> Request]
  BY <1>1 DEF Init, Request, NoTasks, Results
<1> QED BY <1>1, <1>2 DEF Init, TypeOK, NoTasks, Tasks

\* The answer to a request is written by updateInitRequest, or not at all.
LEMMA UpdateType ==
  ASSUME TypeOK, NEW r \in Requests, NEW status \in {"none", "pending", "processed", "error"},
         NEW results \in [Devices -> Results], UpdateRequest(r, status, results)
  PROVE  /\ request' \in [Requests -> Request]
         /\ \A x \in Requests : \/ request'[x].results = request[x].results
                                \/ x = r /\ request'[x].results = results
  BY DEF TypeOK, UpdateRequest, Request

\* A step of a task moves the task of its device only.
LEMMA GotoType ==
  ASSUME TypeOK, NEW d \in Devices, NEW pc \in Tasks, Goto(d, pc)
  PROVE  /\ task' \in [Devices -> Tasks] /\ task'[d] = pc
         /\ \A e \in Devices : e # d => task'[e] = task[e]
  BY DEF TypeOK, Goto

\* An event is counted.
LEMMA EventType ==
  ASSUME TypeOK, Event
  PROVE  events' \in 0..MaxEvents
  BY InitAssumption DEF TypeOK, Event


\* Types through the steps of a task.
LEMMA TypeTask ==
  ASSUME TypeOK, NEW d \in Devices, TaskStep(d)
  PROVE  /\ TypeOK' /\ UNCHANGED <<request, work>>
         /\ \A e \in Devices : e # d => task'[e] = task[e] /\ fs'[e] = fs[e]
<1> USE DEF deviceVars, driveVars, taskFrame
<1>e. UNCHANGED events \/ Event => events' \in 0..MaxEvents
  BY EventType DEF TypeOK
<1>p. {"check", "format", "mount", "create", "unmount", "done", "failed"} \subseteq Tasks
  BY DEF Tasks
<1>1. CASE CheckMounts(d)
  <2>1. PICK pc \in Tasks : Goto(d, pc)
    BY <1>1, <1>p DEF CheckMounts
  <2> QED BY <1>1, <1>e, <2>1, GotoType DEF CheckMounts, TypeOK
<1>2. CASE MakeFS(d)
  <2>1. PICK pc \in Tasks : Goto(d, pc)
    BY <1>2, <1>p DEF MakeFS, FailTo
  <2>2. UNCHANGED events \/ Event
    BY <1>2 DEF MakeFS, FailTo
  <2>3. /\ fs' \in [Devices -> FS] /\ formats' \in 0..MaxFormats
        /\ \A e \in Devices : e # d => fs'[e] = fs[e]
    <3>1. CASE UNCHANGED <<fs, formats>>
      BY <3>1 DEF TypeOK
    <3>2. CASE /\ formats < MaxFormats /\ formats' = formats + 1
               /\ fs' = [fs EXCEPT ![d] = formats + 1]
      BY <3>2, InitAssumption DEF TypeOK, FS
    <3> QED BY <1>2, <3>1, <3>2 DEF MakeFS
  <2> QED BY <1>2, <1>e, <2>1, <2>2, <2>3, GotoType DEF MakeFS, TypeOK
<1>3. CASE MountDevice(d)
  <2>1. PICK pc \in Tasks : Goto(d, pc)
    BY <1>3, <1>p DEF MountDevice, FailTo
  <2>2. UNCHANGED events \/ Event
    BY <1>3 DEF MountDevice, FailTo
  <2> QED BY <1>3, <1>e, <2>1, <2>2, GotoType DEF MountDevice, TypeOK
<1>4. CASE CreateDrive(d)
  <2>1. PICK pc \in Tasks : Goto(d, pc)
    BY <1>4, <1>p DEF CreateDrive, FailTo
  <2>2. UNCHANGED events \/ Event
    BY <1>4 DEF CreateDrive, FailTo
  <2> QED BY <1>4, <1>e, <2>1, <2>2, GotoType DEF CreateDrive, TypeOK
<1>5. CASE UnmountDevice(d)
  <2>1. PICK pc \in Tasks : Goto(d, pc)
    BY <1>5, <1>p DEF UnmountDevice, FailTo
  <2>2. UNCHANGED events \/ Event
    BY <1>5 DEF UnmountDevice, FailTo
  <2> QED BY <1>5, <1>e, <2>1, <2>2, GotoType DEF UnmountDevice, TypeOK
<1> QED BY <1>1, <1>2, <1>3, <1>4, <1>5 DEF TaskStep

\* Types through every step.
LEMMA TypeStep == TypeOK /\ [Next]_vars => TypeOK'
<1> SUFFICES ASSUME TypeOK, [Next]_vars PROVE TypeOK'
  OBVIOUS
<1> USE DEF deviceVars, driveVars, workVars
<1>n. NoTasks \in [Devices -> Tasks] /\ NoTasks \in [Devices -> Results]
  BY DEF NoTasks, Tasks, Results
<1>i. NoID \in IDs /\ FS \subseteq IDs
  BY DEF IDs
<1>1. CASE UNCHANGED vars
  BY <1>1 DEF vars, TypeOK
<1>2. CASE Discover
  <2>1. config' \in [Devices -> IDs]
    BY <1>2, <1>i DEF Discover, TypeOK
  <2> QED BY <1>2, <2>1, EventType DEF Discover, TypeOK
<1>3. CASE FinishRequest
  <2>1. task \in [Devices -> Results] /\ work \in Requests
    BY <1>3 DEF FinishRequest, TypeOK, Results
  <2>2. request' \in [Requests -> Request]
    BY <1>3, <2>1, UpdateType DEF FinishRequest
  <2> QED BY <1>3, <1>n, <2>2 DEF FinishRequest, TypeOK
<1>4. CASE StopController \/ Reboot
  BY <1>4, <1>n, EventType DEF StopController, Reboot, TypeOK
<1>5. ASSUME NEW r \in Requests, CreateRequest(r) PROVE TypeOK'
  <2>1. PICK selected \in SUBSET {d \in Devices : config[d] # NoID} :
          request' = [request EXCEPT ![r] =
            [status |-> "pending", deleted |-> FALSE, results |-> NoTasks,
             ids |-> [d \in Devices |-> IF d \in selected THEN config[d] ELSE NoID]]]
    BY <1>5 DEF CreateRequest
  <2> DEFINE ids == [d \in Devices |-> IF d \in selected THEN config[d] ELSE NoID]
  <2>2. ids \in [Devices -> IDs]
    BY <1>i DEF TypeOK
  <2> HIDE DEF ids
  <2>3. [status |-> "pending", deleted |-> FALSE, results |-> NoTasks, ids |-> ids] \in Request
    BY <1>n, <2>2 DEF Request
  <2>4. request' \in [Requests -> Request]
    BY <2>1, <2>3 DEF TypeOK, ids
  <2> QED BY <1>5, <2>4 DEF CreateRequest, TypeOK
<1>6. ASSUME NEW r \in Requests, DeleteRequest(r) PROVE TypeOK'
  <2>1. request' \in [Requests -> Request]
    BY <1>6 DEF DeleteRequest, TypeOK, Request
  <2> QED BY <1>6, <2>1 DEF DeleteRequest, TypeOK
<1>7. ASSUME NEW r \in Requests, StartRequest(r) PROVE TypeOK'
  <2>1. task' \in [Devices -> Tasks]
    BY <1>7 DEF StartRequest, Tasks
  <2> QED BY <1>7, <2>1 DEF StartRequest, TypeOK
<1>8. ASSUME NEW r \in Requests, ProbeFails(r) PROVE TypeOK'
  <2>1. request[r].results \in [Devices -> Results]
    BY DEF TypeOK, Request
  <2>2. request' \in [Requests -> Request]
    BY <1>8, <2>1, UpdateType DEF ProbeFails
  <2> QED BY <1>8, <2>2, EventType DEF ProbeFails, TypeOK
<1>9. ASSUME NEW d \in Devices, TaskStep(d) PROVE TypeOK'
  BY <1>9, TypeTask
<1>10. ASSUME NEW d \in Devices, MountDrive(d) \/ RemoveDrive(d) PROVE TypeOK'
  BY <1>10, EventType DEF MountDrive, RemoveDrive, TypeOK
<1> QED
  BY <1>1, <1>2, <1>3, <1>4, <1>5, <1>6, <1>7, <1>8, <1>9, <1>10 DEF Next

\* A device is mounted by its own task, or as a drive: one that is about to be formatted
\* is not mounted.  Tasks belong to a request, and one that is done has made a drive.
OwnInv ==
  /\ drives \subseteq made
  /\ \A d \in Devices : task[d] = "format" => d \notin mounted
  /\ \A d \in Devices : task[d] # "none" => work # NoRequest
  /\ \A d \in Devices : task[d] = "done" => fs[d] \in made
  /\ MountedIsOwned

\* Nothing is mounted at the start.
LEMMA OwnInit == Init => OwnInv
  BY DEF Init, NoTasks, OwnInv, MountedIsOwned

\* The tasks of a request keep to what they own.
LEMMA OwnTask ==
  ASSUME TypeOK, DeviceInv, OwnInv, NEW d \in Devices, TaskStep(d)
  PROVE  OwnInv'
<1> USE DEF deviceVars, driveVars, taskFrame, OwnInv, MountedIsOwned
<1>t. /\ TypeOK' /\ UNCHANGED work
      /\ \A e \in Devices : e # d => task'[e] = task[e] /\ fs'[e] = fs[e]
  BY TypeTask
<1>m. mounted \subseteq Devices /\ mounted' \subseteq Devices
  BY <1>t DEF TypeOK
<1>p. \A pc \in Tasks : Goto(d, pc) => task'[d] = pc
  BY GotoType
<1>q. {"check", "format", "mount", "create", "unmount", "done", "failed"} \subseteq Tasks
  BY DEF Tasks
<1>1. CASE CheckMounts(d)
  <2>1. /\ task[d] = "check" /\ UNCHANGED <<fs, mounted, left, drives, made>>
        /\ task'[d] = "failed" \/ (task'[d] = "format" /\ d \notin mounted)
    BY <1>1, <1>p, <1>q DEF CheckMounts
  <2> QED BY <1>t, <1>m, <2>1
<1>2. CASE MakeFS(d)
  <2>1. /\ task[d] = "format" /\ UNCHANGED <<mounted, left, drives, made>>
        /\ task'[d] \in {"mount", "failed"} /\ d \notin mounted
    BY <1>2, <1>p, <1>q DEF MakeFS, FailTo
  <2> QED BY <1>t, <1>m, <2>1
<1>3. CASE MountDevice(d)
  <2>1. /\ task[d] = "mount" /\ UNCHANGED <<fs, left, drives, made>>
        /\ \/ task'[d] = "create" /\ mounted' = mounted \cup {d}
           \/ task'[d] = "failed" /\ mounted' = mounted
    BY <1>3, <1>p, <1>q DEF MountDevice, FailTo
  <2> QED BY <1>t, <1>m, <2>1
<1>4. CASE CreateDrive(d)
  <2>1. /\ task[d] = "create" /\ UNCHANGED <<fs, mounted, left>>
        /\ \/ /\ drives' = drives \cup {fs[d]} /\ made' = made \cup {fs[d]}
              /\ task'[d] \in {"done", "unmount"}
           \/ UNCHANGED <<drives, made>> /\ task'[d] = "unmount"
    BY <1>4, <1>p, <1>q DEF CreateDrive, FailTo
  <2> QED BY <1>t, <1>m, <2>1
<1>5. CASE UnmountDevice(d)
  <2>1. /\ task[d] = "unmount" /\ UNCHANGED <<fs, drives, made>>
        /\ task'[d] = "failed"
        /\ \/ mounted' = mounted \ {d} /\ left' = left
           \/ left' = left \cup {d} /\ mounted' = mounted
    BY <1>5, <1>p, <1>q DEF UnmountDevice, FailTo
  <2> QED BY <1>t, <1>m, <2>1
<1> QED BY <1>1, <1>2, <1>3, <1>4, <1>5 DEF TaskStep

\* So does every other step.
LEMMA OwnStep ==
  ASSUME TypeOK, DeviceInv, OwnInv, [Next]_vars
  PROVE  OwnInv'
<1> USE DEF deviceVars, driveVars, workVars, OwnInv, MountedIsOwned
<1>1. CASE UNCHANGED vars
  BY <1>1 DEF vars
<1>2. CASE Discover
  BY <1>2 DEF Discover
<1>3. CASE FinishRequest
  BY <1>3 DEF FinishRequest, NoTasks, TypeOK
<1>4. CASE StopController \/ Reboot
  BY <1>4 DEF StopController, Reboot, NoTasks, TypeOK
<1>5. ASSUME NEW r \in Requests, CreateRequest(r) \/ DeleteRequest(r) \/ ProbeFails(r) PROVE OwnInv'
  BY <1>5 DEF CreateRequest, DeleteRequest, ProbeFails
<1>6. ASSUME NEW r \in Requests, StartRequest(r) PROVE OwnInv'
  <2>1. /\ UNCHANGED <<fs, mounted, left, drives, made>> /\ work = NoRequest /\ work' = r
        /\ \A d \in Devices : task'[d] \in {"none", "check", "failed"}
    BY <1>6 DEF StartRequest
  <2> QED BY <2>1, InitAssumption DEF TypeOK
<1>7. ASSUME NEW d \in Devices, MountDrive(d) PROVE OwnInv'
  <2>1. task[d] # "format"
    BY <1>7 DEF MountDrive, DeviceInv, CheckedIsFree
  <2> QED BY <1>7, <2>1 DEF MountDrive
<1>8. ASSUME NEW d \in Devices, RemoveDrive(d) PROVE OwnInv'
  BY <1>8 DEF RemoveDrive
<1> QED BY <1>1, <1>2, <1>3, <1>4, <1>5, <1>6, <1>7, <1>8, OwnTask DEF Next

\* Together the three invariants are inductive.
LEMMA InitInvariant == Spec => [](TypeOK /\ DeviceInv /\ OwnInv)
<1>1. TypeOK /\ DeviceInv /\ OwnInv /\ [Next]_vars => (TypeOK /\ DeviceInv /\ OwnInv)'
  BY TypeStep, DeviceStep, OwnStep
<1> QED BY <1>1, TypeInit, DeviceInit, OwnInit, PTL DEF Spec

\* A device that is mounted is or was a drive or is under initialisation, unless a crash
\* or a failed unmount left it: the deferred unmount of initDevice takes every other mount
\* back, whichever step fails, so that the device can be tried again.
THEOREM MountsAreOwned == Spec => []MountedIsOwned
<1>1. OwnInv => MountedIsOwned
  BY DEF OwnInv
<1> QED BY <1>1, InitInvariant, PTL

\* A step that writes the results of a request reports success for a device only if
\* CreateDrive made a drive of the filesystem that is on it, though the results are written
\* when all tasks have ended and drives come and go meanwhile.
THEOREM SuccessReported == Spec => SuccessIsReal
<1> DEFINE Real == \A r \in Requests, d \in Devices :
              request'[r].results[d] = "done" /\ request[r].results[d] # "done" => fs[d] \in made
<1>1. ASSUME TypeOK, OwnInv, Next PROVE Real
  <2> SUFFICES ASSUME NEW r \in Requests, NEW d \in Devices,
                      request'[r].results[d] = "done", request[r].results[d] # "done"
               PROVE  fs[d] \in made
    OBVIOUS
  <2>1. CASE FinishRequest
    <3>1. task \in [Devices -> Results] /\ work \in Requests
      BY <1>1, <2>1 DEF FinishRequest, TypeOK, Results
    <3>2. request'[r].results = request[r].results \/ request'[r].results = task
      BY <1>1, <2>1, <3>1, UpdateType DEF FinishRequest
    <3> QED BY <1>1, <3>2 DEF OwnInv
  <2>2. ASSUME NEW x \in Requests, CreateRequest(x) PROVE fs[d] \in made
    <3>1. request'[x].results = NoTasks /\ \A y \in Requests : y # x => request'[y] = request[y]
      BY <1>1, <2>2 DEF CreateRequest, TypeOK
    <3> QED BY <3>1 DEF NoTasks
  <2>3. ASSUME NEW x \in Requests, DeleteRequest(x) PROVE fs[d] \in made
    <3>1. \A y \in Requests : request'[y].results = request[y].results
      BY <1>1, <2>3 DEF DeleteRequest, TypeOK, Request
    <3> QED BY <3>1
  <2>4. ASSUME NEW x \in Requests, ProbeFails(x) PROVE fs[d] \in made
    <3>1. request[x].results \in [Devices -> Results]
      BY <1>1 DEF TypeOK, Request
    <3>2. \A y \in Requests : request'[y].results = request[y].results
      BY <1>1, <2>4, <3>1, UpdateType DEF ProbeFails
    <3> QED BY <3>2
  <2>5. ASSUME NEW x \in Devices, TaskStep(x) PROVE fs[d] \in made
    BY <1>1, <2>5, TypeTask
  <2>6. CASE UNCHANGED request
    BY <2>6
  <2> QED
    BY <1>1, <2>1, <2>2, <2>3, <2>4, <2>5, <2>6
       DEF Next, Discover, StopController, Reboot, StartRequest, MountDrive, RemoveDrive
<1>2. TypeOK /\ OwnInv /\ [Next]_vars => [Real]_vars
  BY <1>1
<1> QED BY <1>2, InitInvariant, PTL DEF Spec, SuccessIsReal

=============================================================================
