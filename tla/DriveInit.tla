----------------------------- MODULE DriveInit ------------------------------
(***************************************************************************)
(* How a device becomes a drive: discover, init and the node controller.   *)
(*                                                                         *)
(* "discover" writes the devices that may be initialised, with an ID that  *)
(* is a hash of the state each is in, to a file.  "init" makes a request   *)
(* of the file, possibly much later, and gives up after a timeout.  The    *)
(* node controller handles one request at a time and the devices of it at  *)
(* once: it formats and mounts a device and creates its DirectPVDrive.     *)
(* Each step may fail, and the controller and the node may stop.           *)
(*                                                                         *)
(* A filesystem is the number of its mkfs; 0 is a device without one.      *)
(* udev is taken to have seen a mkfs before the device is probed again.    *)
(***************************************************************************)
EXTENDS Naturals

CONSTANTS
  Devices, Requests, NoRequest,
  MaxFormats,   \* bound: filesystems made
  MaxEvents     \* bound: discoveries, failures, removals and reboots

ASSUME InitAssumption == NoRequest \notin Requests /\ MaxFormats \in Nat /\ MaxEvents \in Nat

VARIABLES
  fs,        \* filesystem on each device
  mounted,   \* devices that are mounted
  drives,    \* DirectPVDrive objects, named by their filesystem
  made,      \* drives ever created
  config,    \* what discover wrote: the ID of each device, or none
  request,   \* DirectPVInitRequest objects
  work,      \* the request that is handled, under the handler's mutex
  task,      \* where initDevice is for each device
  left,      \* devices left mounted by a crash or a failed unmount
  formats, events

vars == <<fs, mounted, drives, made, config, request, work, task, left, formats, events>>

FS == 0..MaxFormats
NoID == MaxFormats + 1
\* An ID in a configuration is that of an unmounted device: its filesystem.
IDs == FS \cup {NoID}
Results == {"none", "done", "failed"}
Request == [status : {"none", "pending", "processed", "error"}, deleted : BOOLEAN,
            ids : [Devices -> IDs], results : [Devices -> Results]]
Tasks == {"none", "check", "format", "mount", "create", "unmount", "done", "failed"}

\* Devices, objects and the handler have the shape the code gives them.
TypeOK ==
  /\ fs \in [Devices -> FS] /\ mounted \subseteq Devices
  /\ drives \subseteq FS /\ made \subseteq FS
  /\ config \in [Devices -> IDs]
  /\ request \in [Requests -> Request]
  /\ work \in Requests \cup {NoRequest}
  /\ task \in [Devices -> Tasks]
  /\ left \subseteq Devices
  /\ formats \in 0..MaxFormats /\ events \in 0..MaxEvents

NoTasks == [d \in Devices |-> "none"]

Init ==
  /\ fs = [d \in Devices |-> 0] /\ mounted = {} /\ drives = {} /\ made = {}
  /\ config = [d \in Devices |-> NoID]
  /\ request = [r \in Requests |-> [status |-> "none", deleted |-> FALSE,
                                    ids |-> [d \in Devices |-> NoID], results |-> NoTasks]]
  /\ work = NoRequest /\ task = NoTasks /\ left = {}
  /\ formats = 0 /\ events = 0

deviceVars == <<fs, mounted, left, formats>>
driveVars  == <<drives, made>>
workVars   == <<work, task>>

Event == events < MaxEvents /\ events' = events + 1

-----------------------------------------------------------------------------
(* discover and init *)

\* Faulty variant of DeniedReason: whether a drive object has the filesystem is not asked.
DeniedReason_mountOnly(d) == d \in mounted

\* DeniedReason: mounted, or the filesystem of a drive
DeniedReason(d) == d \in mounted \/ fs[d] \in drives

\* RefreshNodes, Sync of the node and ToInitConfig
Discover ==
  /\ Event
  /\ config' = [d \in Devices |-> IF DeniedReason(d) THEN NoID ELSE fs[d]]
  /\ UNCHANGED <<deviceVars, driveVars, request, workVars>>

\* ToInitRequestObjects: a request for the devices selected in the file
CreateRequest(r) ==
  /\ request[r].status = "none"
  /\ \E selected \in SUBSET {d \in Devices : config[d] # NoID} :
       /\ selected # {}
       /\ request' = [request EXCEPT ![r] =
            [status |-> "pending", deleted |-> FALSE, results |-> NoTasks,
             ids |-> [d \in Devices |-> IF d \in selected THEN config[d] ELSE NoID]]]
  /\ UNCHANGED <<deviceVars, driveVars, config, workVars, events>>

\* init deletes its request when it ends, be it on an answer or on its timeout.
DeleteRequest(r) ==
  /\ request[r].status # "none" /\ ~request[r].deleted
  /\ request' = [request EXCEPT ![r].deleted = TRUE]
  /\ UNCHANGED <<deviceVars, driveVars, config, workVars, events>>

-----------------------------------------------------------------------------
(* initDevices *)

\* updateInitRequest: an error if the request is gone
UpdateRequest(r, status, results) ==
  request' = IF request[r].deleted THEN request
             ELSE [request EXCEPT ![r].status = status, ![r].results = results]

\* The event of a pending request, which may have been deleted; probe of the devices and
\* a task for each that is in the state the request names.
StartRequest(r) ==
  /\ work = NoRequest /\ request[r].status = "pending"
  /\ work' = r
  /\ task' = [d \in Devices |->
                CASE request[r].ids[d] = NoID -> "none"
                  [] request[r].ids[d] = fs[d] /\ ~DeniedReason(d) -> "check"
                  [] OTHER -> "failed"]
  /\ UNCHANGED <<deviceVars, driveVars, config, request, events>>

\* The probe fails.
ProbeFails(r) ==
  /\ Event /\ work = NoRequest /\ request[r].status = "pending"
  /\ UpdateRequest(r, "error", request[r].results)
  /\ UNCHANGED <<deviceVars, driveVars, config, workVars>>

\* Faulty variant of FinishRequest: a device counts as done whatever came of it.
FinishRequest_errorsDropped ==
  LET results == [d \in Devices |-> IF task[d] = "failed" THEN "done" ELSE task[d]]
  IN  /\ work # NoRequest
      /\ \A d \in Devices : task[d] \in {"none", "done", "failed"}
      /\ UpdateRequest(work, "processed", results)
      /\ work' = NoRequest /\ task' = NoTasks
      /\ UNCHANGED <<deviceVars, driveVars, config, events>>

\* Faulty variant of FinishRequest: nothing is reported when a device failed.
FinishRequest_silent ==
  /\ work # NoRequest
  /\ \A d \in Devices : task[d] \in {"none", "done", "failed"}
  /\ IF \E d \in Devices : task[d] = "failed"
     THEN UNCHANGED request ELSE UpdateRequest(work, "processed", task)
  /\ work' = NoRequest /\ task' = NoTasks
  /\ UNCHANGED <<deviceVars, driveVars, config, events>>

\* All tasks have ended: the results are written.
FinishRequest ==
  /\ work # NoRequest
  /\ \A d \in Devices : task[d] \in {"none", "done", "failed"}
  /\ UpdateRequest(work, "processed", task)
  /\ work' = NoRequest /\ task' = NoTasks
  /\ UNCHANGED <<deviceVars, driveVars, config, events>>

\* The node controller stops; pending requests are handled again.
StopController ==
  /\ Event /\ work # NoRequest
  /\ work' = NoRequest /\ task' = NoTasks
  /\ left' = left \cup {d \in Devices : task[d] \in {"create", "unmount"}}
  /\ UNCHANGED <<fs, mounted, formats, driveVars, config, request>>

-----------------------------------------------------------------------------
(* initDevice *)

taskFrame == <<config, request, work>>

Goto(d, pc) == task' = [task EXCEPT ![d] = pc]
\* A step of a task fails.
FailTo(d, pc) == Event /\ Goto(d, pc)

CheckMounts(d) ==
  /\ task[d] = "check"
  /\ Goto(d, IF d \in mounted THEN "failed" ELSE "format")
  /\ UNCHANGED <<deviceVars, driveVars, events, taskFrame>>

\* mkfs; without force it refuses a device with a filesystem.  Force is set if the device
\* had one when it was discovered.
MakeFS(d) ==
  LET accepted == (request[work].ids[d] # 0 \/ fs[d] = 0) /\ formats < MaxFormats
  IN  /\ task[d] = "format"
      /\ \/ /\ accepted /\ formats' = formats + 1
            /\ fs' = [fs EXCEPT ![d] = formats + 1]
            /\ Goto(d, "mount") /\ UNCHANGED events
         \/ ~accepted /\ Goto(d, "failed") /\ UNCHANGED <<fs, formats, events>>
         \/ accepted /\ FailTo(d, "failed") /\ UNCHANGED <<fs, formats>>
      /\ UNCHANGED <<mounted, left, driveVars, taskFrame>>

MountDevice(d) ==
  /\ task[d] = "mount"
  /\ \/ mounted' = mounted \cup {d} /\ Goto(d, "create") /\ UNCHANGED events
     \/ FailTo(d, "failed") /\ UNCHANGED mounted
  /\ UNCHANGED <<fs, left, formats, driveVars, taskFrame>>

\* Faulty variant of CreateDrive: a failure ends the task at once.
CreateDrive_keepsMount(d) ==
  /\ task[d] = "create"
  /\ \/ /\ drives' = drives \cup {fs[d]} /\ made' = made \cup {fs[d]}
        /\ Goto(d, "done") /\ UNCHANGED events
     \/ FailTo(d, "failed") /\ UNCHANGED driveVars
  /\ UNCHANGED <<deviceVars, taskFrame>>

\* Symlink, meta directory, meta file and Create of the drive.  Create may have its effect
\* and fail all the same.
CreateDrive(d) ==
  /\ task[d] = "create"
  /\ \/ /\ drives' = drives \cup {fs[d]} /\ made' = made \cup {fs[d]}
        /\ (Goto(d, "done") /\ UNCHANGED events) \/ FailTo(d, "unmount")
     \/ FailTo(d, "unmount") /\ UNCHANGED driveVars
  /\ UNCHANGED <<deviceVars, taskFrame>>

\* The deferred unmount
UnmountDevice(d) ==
  /\ task[d] = "unmount"
  /\ \/ /\ mounted' = mounted \ {d}
        /\ Goto(d, "failed") /\ UNCHANGED <<left, events>>
     \/ FailTo(d, "failed") /\ left' = left \cup {d} /\ UNCHANGED mounted
  /\ UNCHANGED <<fs, formats, driveVars, taskFrame>>

-----------------------------------------------------------------------------
(* The rest of the node *)

\* Sync of the node server mounts the drives.
MountDrive(d) ==
  /\ fs[d] \in drives /\ d \notin mounted
  /\ mounted' = mounted \cup {d}
  /\ UNCHANGED <<fs, left, formats, driveVars, events, workVars, config, request>>

\* remove: the drive is unmounted and its object deleted.
RemoveDrive(d) ==
  /\ Event /\ fs[d] \in drives
  /\ drives' = drives \ {fs[d]} /\ mounted' = mounted \ {d}
  /\ UNCHANGED <<made, fs, left, formats, workVars, config, request>>

Reboot ==
  /\ Event
  /\ mounted' = {} /\ left' = {}
  /\ work' = NoRequest /\ task' = NoTasks
  /\ UNCHANGED <<fs, formats, driveVars, config, request>>

-----------------------------------------------------------------------------
TaskStep(d) ==
  CheckMounts(d) \/ MakeFS(d) \/ MountDevice(d) \/ CreateDrive(d) \/ UnmountDevice(d)

Next ==
  \/ Discover \/ FinishRequest \/ StopController \/ Reboot
  \/ \E r \in Requests : CreateRequest(r) \/ DeleteRequest(r) \/ StartRequest(r) \/ ProbeFails(r)
  \/ \E d \in Devices : TaskStep(d) \/ MountDrive(d) \/ RemoveDrive(d)

Spec == Init /\ [][Next]_vars

\* Goroutines run to their end; each pending request comes up in the work queue again and
\* again, and gets the mutex in its turn.
Fairness ==
  /\ \A d \in Devices : WF_vars(TaskStep(d))
  /\ WF_vars(FinishRequest)
  /\ \A r \in Requests : SF_vars(StartRequest(r))

FairSpec == Spec /\ Fairness

-----------------------------------------------------------------------------
(* Properties *)

\* Every drive has its device: none is formatted again while its DirectPVDrive exists,
\* whichever old file or repeated request asks for it, mounted or not.
DrivesKeepTheirDevice == \A u \in drives : \E d \in Devices : fs[d] = u

\* A mounted device is a drive, or has been one, or is being initialised, unless a crash
\* or a failed unmount left it so: a device that could not be initialised can be tried
\* again.
MountedIsOwned ==
  \A d \in mounted :
    fs[d] \in made \/ d \in left \/ (work # NoRequest /\ task[d] \in {"create", "unmount"})

\* A request reports success for a device only if a drive was made of what is on it.
SuccessIsReal ==
  [][\A r \in Requests, d \in Devices :
       request'[r].results[d] = "done" /\ request[r].results[d] # "done" => fs[d] \in made]_vars

\* A request is answered, or deleted by the command that made it.
RequestAnswered ==
  \A r \in Requests :
    request[r].status = "pending" ~> request[r].status # "pending" \/ request[r].deleted
=============================================================================
