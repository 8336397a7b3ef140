----------------------------- MODULE DriveMove ------------------------------
(***************************************************************************)
(* Replacing a drive: the command "move", the drive controller of the node *)
(* and the status of a drive.                                              *)
(*                                                                         *)
(* The command lists the volumes of the source on the destination, which   *)
(* it marks Moving, and then takes them off the source.  The controller of *)
(* the node handles a Moving drive by pointing every volume it lists to    *)
(* it, one at a time, and marks it Ready.  Meanwhile the kubelet stages    *)
(* and publishes volumes, claims are deleted, drives fail, get lost and    *)
(* are found, and command and controller may stop half way.                *)
(*                                                                         *)
(* All drives are of one node and cordoned, so that no volume is created   *)
(* on them.  A set of copies holds the processes whose copy of the object  *)
(* is current; an Update from any other copy is a conflict.                *)
(***************************************************************************)
EXTENDS Integers, FiniteSets, Functions

CONSTANTS
  Drives, Volumes, NoDrive,
  Start,      \* the drive that a volume is on at first
  Size,       \* TotalCapacity of a volume
  Room,       \* FreeCapacity of a drive at first
  Moves,      \* pairs of drives for which "move" is run
  MaxEvents   \* bound: commands, failures and calls of the kubelet

ASSUME MoveAssumption ==
  /\ IsFiniteSet(Volumes) /\ NoDrive \notin Drives /\ "release" \notin Drives
  /\ Start \in [Volumes -> Drives] /\ Size \in [Volumes -> Nat] /\ Room \in [Drives -> Nat]
  /\ Moves \subseteq Drives \X Drives /\ MaxEvents \in Nat

VARIABLES
  drive,         \* DirectPVDrive objects
  free,          \* their FreeCapacity
  driveCopies,   \* processes whose copy of a drive is current
  volume,        \* DirectPVVolume objects
  volumeCopies,  \* processes whose copy of a volume is current
  mount,         \* the drive that the staging path of a volume shows
  command,       \* the move command
  handler,       \* move() for each drive
  release,       \* delete() for each volume
  events         \* what came from outside so far

vars == <<drive, free, driveCopies, volume, volumeCopies, mount, command, handler, release, events>>

\* Error with the condition IOError, or one that a mount clears
Statuses == {"ready", "moving", "removed", "lost", "ioerror", "mounterror"}
Drive == [exists : BOOLEAN, status : Statuses, volumes : SUBSET Volumes]
Volume == [exists : BOOLEAN, drive : Drives, staged : BOOLEAN, published : BOOLEAN, deleting : BOOLEAN]
Command == [pc : {"idle", "list", "destination", "source"}, from : Drives \cup {NoDrive},
            to : Drives \cup {NoDrive}, volumes : SUBSET Volumes]
NoCommand == [pc |-> "idle", from |-> NoDrive, to |-> NoDrive, volumes |-> {}]
Handler == [pc : {"idle", "loop", "stage", "stageUpdate", "update"}, todo : SUBSET Volumes, at : SUBSET Volumes]
NoHandler == [pc |-> "idle", todo |-> {}, at |-> {}]
Release == [pc : {"idle", "drive", "purge"}, drive : Drives \cup {NoDrive}]
NoRelease == [pc |-> "idle", drive |-> NoDrive]

\* Objects, command and handlers have the shape the code gives them.
TypeOK ==
  /\ drive \in [Drives -> Drive] /\ free \in [Drives -> Int]
  /\ driveCopies \in [Drives -> SUBSET ({"from", "to", "move"})]
  /\ volume \in [Volumes -> Volume]
  /\ volumeCopies \in [Volumes -> SUBSET (Drives \cup {"release"})]
  /\ mount \in [Volumes -> Drives \cup {NoDrive}]
  /\ command \in Command
  /\ handler \in [Drives -> Handler]
  /\ release \in [Volumes -> Release]
  /\ events \in 0..MaxEvents

\* Some volumes are in use when the drive is to be replaced.
Init ==
  /\ drive = [d \in Drives |-> [exists |-> TRUE, status |-> "ready",
                                volumes |-> {v \in Volumes : Start[v] = d}]]
  /\ free = Room
  /\ driveCopies = [d \in Drives |-> {}]
  /\ \E staged \in SUBSET Volumes : \E published \in SUBSET staged :
       /\ volume = [v \in Volumes |-> [exists |-> TRUE, drive |-> Start[v], staged |-> v \in staged,
                                       published |-> v \in published, deleting |-> FALSE]]
       /\ mount = [v \in Volumes |-> IF v \in staged THEN Start[v] ELSE NoDrive]
  /\ volumeCopies = [v \in Volumes |-> {}]
  /\ command = NoCommand
  /\ handler = [d \in Drives |-> NoHandler]
  /\ release = [v \in Volumes |-> NoRelease]
  /\ events = 0

-----------------------------------------------------------------------------
(* The API server *)

WriteDrive(d, new) ==
  /\ drive' = [drive EXCEPT ![d] = new]
  /\ driveCopies' = [driveCopies EXCEPT ![d] = {}]

ReadDrive(h, d) ==
  driveCopies' = [driveCopies EXCEPT ![d] = @ \cup {h}]

WriteVolume(v, new) ==
  /\ volume' = [volume EXCEPT ![v] = new]
  /\ volumeCopies' = [volumeCopies EXCEPT ![v] = {}]

ReadVolume(h, v) == volumeCopies' = [volumeCopies EXCEPT ![v] = @ \cup {h}]

driveVars  == <<drive, free, driveCopies>>
volumeVars == <<volume, volumeCopies>>

\* Something from outside happens.
Event == events < MaxEvents /\ events' = events + 1

-----------------------------------------------------------------------------
(* The command "move" *)

Capacity(S) == SumFunctionOnSet(Size, S)

commandFrame == <<volumeVars, mount, handler, release>>

\* Get of the source
MoveGetSource(from, to) ==
  /\ command.pc = "idle" /\ Event
  /\ from # to /\ drive[from].exists /\ drive[from].volumes # {}
  /\ command' = [pc |-> "list", from |-> from, to |-> to, volumes |-> drive[from].volumes]
  /\ ReadDrive("from", from)
  /\ UNCHANGED <<drive, free, commandFrame>>

\* The copies that the command holds are given up with it.
EndCommand == command' = NoCommand
DropCopies(dc) == [d \in Drives |-> dc[d] \ {"from", "to"}]

\* List of its volumes, Get of the destination; a volume that is not found is an error.
MoveGetDestination ==
  LET to == drive[command.to]
  IN  /\ command.pc = "list"
      /\ \A v \in command.volumes : volume[v].exists /\ ~volume[v].published
      /\ to.exists /\ to.status = "ready" /\ free[command.to] >= Capacity(command.volumes)
      /\ command' = [command EXCEPT !.pc = "destination"]
      /\ ReadDrive("to", command.to)
      /\ UNCHANGED <<drive, free, events, commandFrame>>

\* The destination as the command writes it
MovedTo(to, S) == [exists |-> to.exists, status |-> "moving", volumes |-> to.volumes \cup S]

\* Faulty variant of Taken: capacity is taken also for a volume that is listed.
Taken_again(to, S) == Capacity(S)

\* What it takes from its capacity
Taken(to, S) == Capacity(S \ to.volumes)

\* Faulty variant of MoveUpdateDestination: the source is written first.
MoveUpdateDestination_sourceFirst ==
  /\ command.pc = "destination"
  /\ IF "from" \in driveCopies[command.from]
     THEN /\ WriteDrive(command.from, [drive[command.from] EXCEPT !.volumes = {}])
          /\ command' = [command EXCEPT !.pc = "source"]
     ELSE EndCommand /\ driveCopies' = DropCopies(driveCopies) /\ UNCHANGED drive
  /\ UNCHANGED <<free, events, commandFrame>>

\* Update of the destination
MoveUpdateDestination ==
  /\ command.pc = "destination"
  /\ IF "to" \in driveCopies[command.to]
     THEN /\ WriteDrive(command.to, MovedTo(drive[command.to], command.volumes))
          /\ free' = [free EXCEPT ![command.to] = @ - Taken(drive[command.to], command.volumes)]
          /\ command' = [command EXCEPT !.pc = "source"]
     ELSE EndCommand /\ driveCopies' = DropCopies(driveCopies) /\ UNCHANGED <<drive, free>>
  /\ UNCHANGED <<events, commandFrame>>

\* Update of the source without its volumes; its capacity stays as it is.
MoveUpdateSource ==
  /\ command.pc = "source"
  /\ EndCommand
  /\ IF "from" \in driveCopies[command.from]
     THEN /\ drive' = [drive EXCEPT ![command.from].volumes = {}]
          /\ driveCopies' = DropCopies([driveCopies EXCEPT ![command.from] = {}])
     ELSE driveCopies' = DropCopies(driveCopies) /\ UNCHANGED drive
  /\ UNCHANGED <<free, events, commandFrame>>

\* The command fails on one of its checks or calls, or is interrupted.
AbortCommand ==
  /\ command.pc # "idle"
  /\ EndCommand /\ driveCopies' = DropCopies(driveCopies)
  /\ UNCHANGED <<drive, free, events, commandFrame>>

-----------------------------------------------------------------------------
(* Drive controller: handleUpdate *)

handlerFrame == <<command, release>>

\* move(): the handler gets the drive.
StartMove(d) ==
  /\ handler[d].pc = "idle" /\ drive[d].exists /\ drive[d].status = "moving"
  /\ handler' = [handler EXCEPT ![d] = [pc |-> "loop", todo |-> drive[d].volumes, at |-> {}]]
  /\ ReadDrive("move", d)
  /\ UNCHANGED <<drive, free, volumeVars, mount, events, handlerFrame>>

\* move() returns, with an error unless it has come to its end; the event is retried.
EndMove(d) == handler' = [handler EXCEPT ![d] = NoHandler]
FailMove(d) ==
  /\ EndMove(d)
  /\ driveCopies' = [driveCopies EXCEPT ![d] = @ \ {"move"}]
  /\ UNCHANGED <<drive, free>>

\* All handlers of the node end.
EndAll ==
  /\ handler' = [d \in Drives |-> NoHandler]
  /\ release' = [v \in Volumes |-> NoRelease]
  /\ driveCopies' = [d \in Drives |-> driveCopies[d] \ {"move"}]
  /\ volumeCopies' = [v \in Volumes |-> {}]

\* Get of the next volume, which is gone: the log message reads the name of the volume that
\* Get did not return, and the node server ends in a panic.
MovePanics(d, v) ==
  /\ handler[d].pc = "loop" /\ v \in handler[d].todo /\ ~volume[v].exists
  /\ EndAll
  /\ UNCHANGED <<drive, free, volume, mount, command, events>>

\* Faulty variant of MoveGetVolume: a published volume is left out instead of refused.
MoveGetVolume_publishedSkipped(d, v) ==
  LET skip == volume[v].drive = d \/ volume[v].published
  IN  /\ handler[d].pc = "loop" /\ v \in handler[d].todo /\ volume[v].exists
      /\ handler' = [handler EXCEPT ![d] =
           [pc |-> IF skip THEN "loop" ELSE IF volume[v].staged THEN "stage" ELSE "update",
            todo |-> @.todo \ {v}, at |-> IF skip THEN {} ELSE {v}]]
      /\ IF skip THEN UNCHANGED volumeCopies ELSE ReadVolume(d, v)
      /\ UNCHANGED <<driveVars, volume, mount, events, handlerFrame>>

\* Get of the next volume: an error if it is published, nothing to do if it is on the drive.
MoveGetVolume(d, v) ==
  LET onDrive == volume[v].drive = d
      refused == ~onDrive /\ volume[v].published
  IN  /\ handler[d].pc = "loop" /\ v \in handler[d].todo /\ volume[v].exists
      /\ \/ refused /\ FailMove(d) /\ UNCHANGED volumeCopies
         \/ /\ onDrive
            /\ handler' = [handler EXCEPT ![d].todo = @ \ {v}]
            /\ UNCHANGED <<driveVars, volumeCopies>>
         \/ /\ ~onDrive /\ ~refused
            /\ handler' = [handler EXCEPT ![d] =
                 [pc |-> IF volume[v].staged THEN "stage" ELSE "update",
                  todo |-> @.todo \ {v}, at |-> {v}]]
            /\ ReadVolume(d, v)
            /\ UNCHANGED driveVars
      /\ UNCHANGED <<volume, mount, events, handlerFrame>>

\* The staging path is bind-mounted, unless a directory of that name, of whichever drive,
\* is mounted there.
Mounted(v, d) == [mount EXCEPT ![v] = IF @ = NoDrive THEN d ELSE @]

\* StageVolume for a staged volume; its failure, at or after its mount, is logged and the
\* move goes on.
MoveStage(d, v) ==
  /\ handler[d].pc = "stage" /\ handler[d].at = {v}
  /\ \/ mount' = Mounted(v, d) /\ handler' = [handler EXCEPT ![d].pc = "stageUpdate"]
     \/ /\ mount' = Mounted(v, d) \/ UNCHANGED mount
        /\ handler' = [handler EXCEPT ![d].pc = "update"]
  /\ UNCHANGED <<driveVars, volumeVars, events, handlerFrame>>

\* The Update in StageVolume, then the one in move() with the copy that is outdated now,
\* which fails: the volume is found on the drive when the event is retried.
MoveStageUpdate(d, v) ==
  /\ handler[d].pc = "stageUpdate" /\ handler[d].at = {v}
  /\ IF d \in volumeCopies[v]
     THEN WriteVolume(v, [volume[v] EXCEPT !.drive = d])
     ELSE UNCHANGED volumeVars
  /\ FailMove(d)
  /\ UNCHANGED <<mount, events, handlerFrame>>

\* Faulty variant of MoveUpdateVolume: written over whatever the volume is by now.
MoveUpdateVolume_conflictIgnored(d, v) ==
  /\ handler[d].pc = "update" /\ handler[d].at = {v}
  /\ WriteVolume(v, [volume[v] EXCEPT !.drive = d])
  /\ handler' = [handler EXCEPT ![d] = [pc |-> "loop", todo |-> @.todo, at |-> {}]]
  /\ UNCHANGED <<driveVars, mount, events, handlerFrame>>

MoveUpdateVolume(d, v) ==
  /\ handler[d].pc = "update" /\ handler[d].at = {v}
  /\ IF d \in volumeCopies[v]
     THEN /\ WriteVolume(v, [volume[v] EXCEPT !.drive = d])
          /\ handler' = [handler EXCEPT ![d] = [pc |-> "loop", todo |-> @.todo, at |-> {}]]
          /\ UNCHANGED driveVars
     ELSE FailMove(d) /\ UNCHANGED volumeVars
  /\ UNCHANGED <<mount, events, handlerFrame>>


\* All volumes are moved: the drive is Ready.
MoveDone(d) ==
  /\ handler[d].pc = "loop" /\ handler[d].todo = {}
  /\ EndMove(d)
  /\ IF "move" \in driveCopies[d]
     THEN WriteDrive(d, [drive[d] EXCEPT !.status = "ready"]) /\ UNCHANGED free
     ELSE UNCHANGED driveVars
  /\ UNCHANGED <<volumeVars, mount, events, handlerFrame>>

\* remove(): a drive without volumes is unmounted everywhere and its object deleted.
Remove(d) ==
  /\ handler[d].pc = "idle" /\ drive[d].exists /\ drive[d].status = "removed" /\ drive[d].volumes = {}
  /\ mount' = [v \in Volumes |-> IF mount[v] = d THEN NoDrive ELSE mount[v]]
  /\ WriteDrive(d, [drive[d] EXCEPT !.exists = FALSE])
  /\ UNCHANGED <<free, volumeVars, handler, events, handlerFrame>>

-----------------------------------------------------------------------------
(* Status of a drive *)

statusFrame == <<free, volumeVars, mount, command, handler, release>>

SetStatus(d, status) == drive[d].exists /\ WriteDrive(d, [drive[d] EXCEPT !.status = status])

\* The command "remove"
RemoveDrive(d) ==
  /\ Event /\ drive[d].status # "removed" /\ drive[d].volumes = {}
  /\ SetStatus(d, "removed")
  /\ UNCHANGED statusFrame

\* An I/O error is met, by StageVolume or by checkDrive.
SetIOError(d) == Event /\ SetStatus(d, "ioerror") /\ UNCHANGED statusFrame

\* checkDrive: the device of a Ready drive is gone, or that of a Lost one is back.
CheckDrive(d) ==
  /\ Event /\ handler[d].pc = "idle"
  /\ \/ drive[d].status = "ready" /\ SetStatus(d, "lost")
     \/ drive[d].status = "lost" /\ \E s \in {"ready", "mounterror"} : SetStatus(d, s)
  /\ UNCHANGED statusFrame

\* updateDrive, before the controllers of the node are started: no device, several of the
\* same FSUUID or one that cannot be mounted, or one that can.
UpdateDrive(d) ==
  /\ Event /\ \A e \in Drives : handler[e].pc = "idle"
  /\ \A v \in Volumes : release[v].pc = "idle"
  /\ \/ drive[d].status # "lost" /\ SetStatus(d, "lost")
     \/ SetStatus(d, "mounterror")
     \/ drive[d].status \in {"lost", "mounterror"} /\ SetStatus(d, "ready")
  /\ UNCHANGED statusFrame

\* The node server stops; move() and delete() start again from their events.
StopNode ==
  /\ Event
  /\ \/ \E d \in Drives : handler[d].pc # "idle"
     \/ \E v \in Volumes : release[v].pc # "idle"
  /\ EndAll
  /\ UNCHANGED <<drive, free, volume, mount, command>>

-----------------------------------------------------------------------------
(* What the kubelet has done to a volume; VolumeMounts has the calls in detail *)

nodeFrame == <<driveVars, command, handler, release>>

NodeStageVolume(v) ==
  /\ Event /\ volume[v].exists /\ ~volume[v].deleting /\ ~volume[v].published
  /\ mount' = Mounted(v, volume[v].drive)
  /\ WriteVolume(v, [volume[v] EXCEPT !.staged = TRUE])
  /\ UNCHANGED nodeFrame

NodePublishVolume(v) ==
  /\ Event /\ volume[v].exists /\ volume[v].staged /\ ~volume[v].published /\ mount[v] # NoDrive
  /\ WriteVolume(v, [volume[v] EXCEPT !.published = TRUE])
  /\ UNCHANGED <<mount, nodeFrame>>

NodeUnpublishVolume(v) ==
  /\ volume[v].exists /\ volume[v].published
  /\ WriteVolume(v, [volume[v] EXCEPT !.published = FALSE])
  /\ UNCHANGED <<mount, events, nodeFrame>>

NodeUnstageVolume(v) ==
  /\ volume[v].exists /\ volume[v].staged /\ ~volume[v].published
  /\ mount' = [mount EXCEPT ![v] = NoDrive]
  /\ WriteVolume(v, [volume[v] EXCEPT !.staged = FALSE])
  /\ UNCHANGED <<events, nodeFrame>>

\* The node reboots: no mounts are left.
Reboot ==
  /\ Event
  /\ mount' = [v \in Volumes |-> NoDrive]
  /\ EndAll
  /\ UNCHANGED <<drive, free, volume, command>>

-----------------------------------------------------------------------------
(* Deletion of a volume; Provisioning has the calls in detail *)

releaseFrame == <<mount, command, handler>>

DeleteVolume(v) ==
  /\ Event /\ volume[v].exists /\ ~volume[v].deleting /\ ~volume[v].staged /\ ~volume[v].published
  /\ WriteVolume(v, [volume[v] EXCEPT !.deleting = TRUE])
  /\ UNCHANGED <<driveVars, release, releaseFrame>>

\* delete(): Get of the volume
ReleaseVolume(v) ==
  /\ release[v].pc = "idle" /\ volume[v].exists /\ volume[v].deleting
  /\ release' = [release EXCEPT ![v] = [pc |-> "drive", drive |-> volume[v].drive]]
  /\ ReadVolume("release", v)
  /\ UNCHANGED <<driveVars, volume, events, releaseFrame>>

\* releaseVolume() on the drive that the copy of the volume names
ReleaseDrive(v) ==
  LET d == release[v].drive
  IN  /\ release[v].pc = "drive"
      /\ IF drive[d].exists
         THEN /\ IF v \in drive[d].volumes
                 THEN /\ WriteDrive(d, [drive[d] EXCEPT !.volumes = @ \ {v}])
                      /\ free' = [free EXCEPT ![d] = @ + Size[v]]
                 ELSE UNCHANGED driveVars
              /\ release' = [release EXCEPT ![v] = [pc |-> "purge", drive |-> d]]
              /\ UNCHANGED volumeCopies
         ELSE /\ release' = [release EXCEPT ![v] = NoRelease]
              /\ volumeCopies' = [volumeCopies EXCEPT ![v] = @ \ {"release"}]
              /\ UNCHANGED driveVars
      /\ UNCHANGED <<volume, events, releaseFrame>>

\* delete(): Update without purge-protection
ReleasePurge(v) ==
  /\ release[v].pc = "purge"
  /\ release' = [release EXCEPT ![v] = NoRelease]
  /\ IF "release" \in volumeCopies[v]
     THEN WriteVolume(v, [volume[v] EXCEPT !.exists = FALSE])
     ELSE UNCHANGED volumeVars
  /\ UNCHANGED <<driveVars, events, releaseFrame>>

-----------------------------------------------------------------------------
CommandStep ==
  \/ \E m \in Moves : MoveGetSource(m[1], m[2])
  \/ MoveGetDestination \/ MoveUpdateDestination \/ MoveUpdateSource \/ AbortCommand

HandlerStep(d) ==
  \/ StartMove(d) \/ MoveDone(d) \/ Remove(d)
  \/ \E v \in Volumes : \/ MoveGetVolume(d, v) \/ MoveStage(d, v)
                         \/ MoveStageUpdate(d, v) \/ MoveUpdateVolume(d, v)

StatusStep(d) == RemoveDrive(d) \/ SetIOError(d) \/ CheckDrive(d) \/ UpdateDrive(d)

VolumeStep(v) ==
  \/ NodeStageVolume(v) \/ NodePublishVolume(v) \/ NodeUnpublishVolume(v) \/ NodeUnstageVolume(v)
  \/ DeleteVolume(v) \/ ReleaseVolume(v) \/ ReleaseDrive(v) \/ ReleasePurge(v)

Next ==
  \/ CommandStep
  \/ \E d \in Drives : HandlerStep(d) \/ StatusStep(d)
  \/ \E v \in Volumes : VolumeStep(v)
  \/ \E d \in Drives, v \in Volumes : MovePanics(d, v)
  \/ StopNode \/ Reboot

Spec == Init /\ [][Next]_vars

\* The work queue of the drive controller retries a handler that failed, and a handler
\* that runs goes on.
Fairness ==
  \A d \in Drives : WF_vars(HandlerStep(d) \/ \E v \in Volumes : MovePanics(d, v))

FairSpec == Spec /\ Fairness

-----------------------------------------------------------------------------
(* Properties *)

Lists(d, v) == drive[d].exists /\ v \in drive[d].volumes

\* While it is not being deleted, a volume is listed by some drive, wherever move
\* stopped: its capacity is reserved, and a drive that may hold it cannot be removed.
AlwaysListed ==
  \A v \in Volumes :
    volume[v].exists /\ ~volume[v].deleting => \E d \in Drives : Lists(d, v)

\* The free capacity of a drive and the volumes it lists make up the drive, however
\* often volumes are moved and deleted, move is repeated and either stops half way.  Only
\* a source comes short: what it had given to the volumes is not given back.
CapacityBalanced ==
  \A d \in Drives :
    LET first == Room[d] + Capacity({v \in Volumes : Start[v] = d})
        now == free[d] + Capacity(drive[d].volumes)
    IN  /\ free[d] >= 0 /\ now <= first
        /\ (\A m \in Moves : d # m[1]) => now = first

\* A published volume is not moved: a pod never loses its volume.
PublishedStays ==
  [][\A v \in Volumes : volume'[v].drive # volume[v].drive => ~volume[v].published]_vars

\* One drive takes the volumes of the others: with a second destination, or a move back
\* while move() of the first one is at work, two handlers point a volume to their drives.
OneDestination == \A m, n \in Moves : m[2] = n[2]

\* With one destination, move() marks a drive Ready only when every volume it lists is on it.
ReadyIsMoved ==
  [][\A d \in Drives :
       drive[d].status = "moving" /\ handler[d].pc # "idle" /\ drive'[d].status = "ready"
         => \A v \in drive[d].volumes : volume[v].exists => volume[v].drive = d]_vars

\* What move() does not get past: a volume in use, and one deleted while it was moved.
Obstructed(d) ==
  \E v \in drive[d].volumes : ~volume[v].exists \/ volume[v].published


\* A staged volume shows the drive it was moved to.
StagedOnItsDrive ==
  \A v \in Volumes :
    volume[v].staged /\ mount[v] # NoDrive /\ (\A d \in Drives : v \notin handler[d].at)
      => mount[v] = volume[v].drive
=============================================================================
