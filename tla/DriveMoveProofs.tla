-------------------------- MODULE DriveMoveProofs ---------------------------
(***************************************************************************)
(* What a move never does, for any number of drives and volumes, any list  *)
(* of moves and any number of failures: it never leaves a volume without a *)
(* drive that lists it, it never moves a volume that is published, and a   *)
(* drive it marks Ready has its volumes.  What a drive has free and what   *)
(* its volumes take never exceed what it had.                              *)
(***************************************************************************)
EXTENDS DriveMove, SumTheorems, TLAPS

\* A command that runs has two drives, and delete() has one.
Named ==
  /\ command.pc # "idle" =>
       command.from \in Drives /\ command.to \in Drives /\ command.from # command.to
  /\ \A v \in Volumes : release[v].pc # "idle" => release[v].drive \in Drives

\* The shape of everything that decides, which is TypeOK without the counters
Shape ==
  /\ drive \in [Drives -> Drive]
  /\ driveCopies \in [Drives -> SUBSET {"from", "to", "move"}]
  /\ volume \in [Volumes -> Volume]
  /\ volumeCopies \in [Volumes -> SUBSET (Drives \cup {"release"})]
  /\ command \in Command
  /\ handler \in [Drives -> Handler]
  /\ release \in [Volumes -> Release]
  /\ Named

\* The node server ends in a panic of move().
Panic == \E d \in Drives, v \in Volumes : MovePanics(d, v)

-----------------------------------------------------------------------------
(* Writing an object *)

\* Update of a drive changes that drive and outdates every copy of it.
LEMMA DriveWritten ==
  ASSUME Shape, NEW d \in Drives, NEW new \in Drive, WriteDrive(d, new)
  PROVE  /\ drive' \in [Drives -> Drive]
         /\ driveCopies' \in [Drives -> SUBSET {"from", "to", "move"}]
         /\ \A e \in Drives : drive'[e] = IF e = d THEN new ELSE drive[e]
         /\ \A e \in Drives : driveCopies'[e] = IF e = d THEN {} ELSE driveCopies[e]
  BY DEF Shape, WriteDrive

\* Update of a volume changes that volume and outdates every copy of it.
LEMMA VolumeWritten ==
  ASSUME Shape, NEW v \in Volumes, NEW new \in Volume, WriteVolume(v, new)
  PROVE  /\ volume' \in [Volumes -> Volume]
         /\ volumeCopies' \in [Volumes -> SUBSET (Drives \cup {"release"})]
         /\ \A w \in Volumes : volume'[w] = IF w = v THEN new ELSE volume[w]
         /\ \A w \in Volumes : volumeCopies'[w] = IF w = v THEN {} ELSE volumeCopies[w]
  BY DEF Shape, WriteVolume

\* The objects as the handlers write them
LEMMA VolumeForms ==
  ASSUME NEW w \in Volume, NEW d \in Drives
  PROVE  /\ [w EXCEPT !.drive = d] \in Volume
         /\ [w EXCEPT !.staged = TRUE] \in Volume
         /\ [w EXCEPT !.staged = FALSE] \in Volume
         /\ [w EXCEPT !.published = TRUE] \in Volume
         /\ [w EXCEPT !.published = FALSE] \in Volume
         /\ [w EXCEPT !.deleting = TRUE] \in Volume
         /\ [w EXCEPT !.exists = FALSE] \in Volume
  BY DEF Volume

\* The drives as command, controller and delete() write them
LEMMA DriveForms ==
  ASSUME NEW x \in Drive
  PROVE  /\ \A s \in Statuses : [x EXCEPT !.status = s] \in Drive
         /\ \A S \in SUBSET Volumes : [x EXCEPT !.volumes = S] \in Drive
         /\ \A S \in SUBSET Volumes : MovedTo(x, S) \in Drive
         /\ \A v : [x EXCEPT !.volumes = @ \ {v}] \in Drive
         /\ [x EXCEPT !.exists = FALSE] \in Drive
  BY DEF Drive, MovedTo, Statuses

\* move() as StageVolume leaves it
LEMMA HandlerForms ==
  ASSUME NEW h \in Handler
  PROVE  /\ [h EXCEPT !.pc = "stageUpdate"] \in Handler
         /\ [h EXCEPT !.pc = "update"] \in Handler
  BY DEF Handler

-----------------------------------------------------------------------------
(* Shape *)

\* Everything has its shape at first.
LEMMA ShapeInit == Init => Shape
<1> SUFFICES ASSUME Init PROVE Shape
  OBVIOUS
<1>1. drive \in [Drives -> Drive]
  BY DEF Init, Drive, Statuses
<1>2. volume \in [Volumes -> Volume]
  BY MoveAssumption DEF Init, Volume
<1>3. command \in Command /\ handler \in [Drives -> Handler] /\ release \in [Volumes -> Release]
  BY DEF Init, Command, NoCommand, Handler, NoHandler, Release, NoRelease
<1>4. Named
  BY DEF Init, Named, NoCommand, NoRelease
<1> QED BY <1>1, <1>2, <1>3, <1>4 DEF Init, Shape

\* The command "move" keeps the shape.
LEMMA ShapeCommand == Shape /\ CommandStep => Shape'
<1> SUFFICES ASSUME Shape, CommandStep PROVE Shape'
  OBVIOUS
<1> USE DEF commandFrame, volumeVars, EndCommand, DropCopies, NoCommand
<1> DEFINE Drives_ == drive' \in [Drives -> Drive]
           Copies_ == driveCopies' \in [Drives -> SUBSET {"from", "to", "move"}]
           Command_ == command' \in Command /\ (command'.pc # "idle" =>
             command'.from \in Drives /\ command'.to \in Drives /\ command'.from # command'.to)
<1>1. UNCHANGED <<volume, volumeCopies, handler, release>>
  BY DEF CommandStep, MoveGetSource, MoveGetDestination, MoveUpdateDestination,
         MoveUpdateSource, AbortCommand
<1>2. ASSUME NEW m \in Moves, MoveGetSource(m[1], m[2]) PROVE Drives_ /\ Copies_ /\ Command_
  <2>1. m[1] \in Drives /\ m[2] \in Drives
    BY MoveAssumption
  <2>2. Command_
    BY <1>2, <2>1 DEF MoveGetSource, Shape, Command, Drive
  <2> QED BY <1>2, <2>1, <2>2 DEF MoveGetSource, ReadDrive, Shape
<1>3. ASSUME MoveGetDestination PROVE Drives_ /\ Copies_ /\ Command_
  <2>1. Command_
    BY <1>3 DEF MoveGetDestination, Shape, Named, Command
  <2> QED BY <1>3, <2>1 DEF MoveGetDestination, ReadDrive, Shape, Named
<1>4. ASSUME MoveUpdateDestination PROVE Drives_ /\ Copies_ /\ Command_
  <2>1. Command_
    BY <1>4 DEF MoveUpdateDestination, Shape, Named, Command
  <2>2. Drives_ /\ Copies_
    <3>1. CASE "to" \in driveCopies[command.to]
      <4>1. command.to \in Drives /\ MovedTo(drive[command.to], command.volumes) \in Drive
        BY <1>4, DriveForms DEF MoveUpdateDestination, Shape, Named, Command
      <4> QED BY <1>4, <3>1, <4>1, DriveWritten DEF MoveUpdateDestination
    <3>2. CASE "to" \notin driveCopies[command.to]
      BY <1>4, <3>2 DEF MoveUpdateDestination, Shape
    <3> QED BY <3>1, <3>2
  <2> QED BY <2>1, <2>2
<1>5. ASSUME MoveUpdateSource PROVE Drives_ /\ Copies_ /\ Command_
  <2>1. Command_
    BY <1>5 DEF MoveUpdateSource, Command
  <2>2. Copies_
    BY <1>5 DEF MoveUpdateSource, Shape, Named
  <2>3. Drives_
    <3>1. command.from \in Drives /\ [drive[command.from] EXCEPT !.volumes = {}] \in Drive
      BY <1>5, DriveForms DEF MoveUpdateSource, Shape, Named
    <3> QED BY <1>5, <3>1 DEF MoveUpdateSource, Shape
  <2> QED BY <2>1, <2>2, <2>3
<1>6. ASSUME AbortCommand PROVE Drives_ /\ Copies_ /\ Command_
  BY <1>6 DEF AbortCommand, Shape, Command
<1>7. Drives_ /\ Copies_ /\ Command_
  BY <1>2, <1>3, <1>4, <1>5, <1>6 DEF CommandStep
<1> QED BY <1>1, <1>7 DEF Shape, Named

\* move() and remove() of the drive controller keep the shape.
LEMMA ShapeHandler ==
  ASSUME Shape, NEW d \in Drives, HandlerStep(d)
  PROVE  Shape'
<1> USE DEF handlerFrame, driveVars, volumeVars, EndMove, FailMove, NoHandler
<1> DEFINE Objects_ == /\ drive' \in [Drives -> Drive]
                       /\ driveCopies' \in [Drives -> SUBSET {"from", "to", "move"}]
                       /\ volume' \in [Volumes -> Volume]
                       /\ volumeCopies' \in [Volumes -> SUBSET (Drives \cup {"release"})]
           Handler_ == handler' \in [Drives -> Handler]
<1>1. UNCHANGED <<command, release>>
  BY DEF HandlerStep, StartMove, MoveDone, Remove, MoveGetVolume, MoveStage, MoveStageUpdate,
         MoveUpdateVolume
<1>2. CASE StartMove(d)
  <2>1. Handler_
    BY <1>2 DEF StartMove, Shape, Handler, Drive
  <2> QED BY <1>1, <1>2, <2>1 DEF StartMove, ReadDrive, Shape, Named
<1>3. CASE MoveDone(d)
  <2>1. Handler_
    BY <1>3 DEF MoveDone, Shape, Handler
  <2>2. [drive[d] EXCEPT !.status = "ready"] \in Drive
    BY DriveForms DEF Shape, Statuses
  <2>3. Objects_
    BY <1>3, <2>2, DriveWritten DEF MoveDone, Shape
  <2> QED BY <1>1, <2>1, <2>3 DEF Shape, Named
<1>4. CASE Remove(d)
  <2>1. [drive[d] EXCEPT !.exists = FALSE] \in Drive
    BY DriveForms DEF Shape
  <2> QED BY <1>1, <1>4, <2>1, DriveWritten DEF Remove, Shape, Named
<1>5. ASSUME NEW v \in Volumes, MoveGetVolume(d, v) PROVE Shape'
  <2>1. Handler_
    BY <1>5 DEF MoveGetVolume, Shape, Handler
  <2>2. Objects_
    BY <1>5 DEF MoveGetVolume, ReadVolume, Shape
  <2> QED BY <1>1, <2>1, <2>2 DEF Shape, Named
<1>6. ASSUME NEW v \in Volumes, MoveStage(d, v) PROVE Shape'
  <2>1. Handler_
    <3>1. /\ [handler[d] EXCEPT !.pc = "stageUpdate"] \in Handler
          /\ [handler[d] EXCEPT !.pc = "update"] \in Handler
      BY HandlerForms DEF Shape
    <3> QED BY <1>6, <3>1 DEF MoveStage, Shape
  <2> QED BY <1>1, <1>6, <2>1 DEF MoveStage, Shape, Named
<1>7. ASSUME NEW v \in Volumes, MoveStageUpdate(d, v) \/ MoveUpdateVolume(d, v) PROVE Shape'
  <2>1. Handler_
    BY <1>7 DEF MoveStageUpdate, MoveUpdateVolume, Shape, Handler
  <2>2. [volume[v] EXCEPT !.drive = d] \in Volume
    BY VolumeForms DEF Shape
  <2>3. /\ volume' \in [Volumes -> Volume]
        /\ volumeCopies' \in [Volumes -> SUBSET (Drives \cup {"release"})]
    BY <1>7, <2>2, VolumeWritten DEF MoveStageUpdate, MoveUpdateVolume, Shape
  <2>4. /\ drive' \in [Drives -> Drive]
        /\ driveCopies' \in [Drives -> SUBSET {"from", "to", "move"}]
    BY <1>7 DEF MoveStageUpdate, MoveUpdateVolume, Shape
  <2> QED BY <1>1, <2>1, <2>3, <2>4 DEF Shape, Named
<1> QED BY <1>2, <1>3, <1>4, <1>5, <1>6, <1>7 DEF HandlerStep

\* Whoever sets the status of a drive keeps the shape.
LEMMA ShapeStatus ==
  ASSUME Shape, NEW d \in Drives, StatusStep(d)
  PROVE  Shape'
<1> USE DEF statusFrame, volumeVars
<1>1. UNCHANGED <<volume, volumeCopies, command, handler, release>>
  BY DEF StatusStep, RemoveDrive, SetIOError, CheckDrive, UpdateDrive
<1>2. PICK s \in Statuses : SetStatus(d, s)
  BY DEF StatusStep, RemoveDrive, SetIOError, CheckDrive, UpdateDrive, Statuses
<1>3. [drive[d] EXCEPT !.status = s] \in Drive
  BY DriveForms DEF Shape
<1> QED BY <1>1, <1>2, <1>3, DriveWritten DEF SetStatus, Shape, Named

\* The kubelet's calls and the deletion of a volume keep the shape.
LEMMA ShapeVolume ==
  ASSUME Shape, NEW v \in Volumes, VolumeStep(v)
  PROVE  Shape'
<1> USE DEF nodeFrame, releaseFrame, driveVars, volumeVars, NoRelease
<1>1. UNCHANGED <<command, handler>>
  BY DEF VolumeStep, NodeStageVolume, NodePublishVolume, NodeUnpublishVolume, NodeUnstageVolume,
         DeleteVolume, ReleaseVolume, ReleaseDrive, ReleasePurge
<1> volume[v] \in Volume /\ volume[v].drive \in Drives
  BY DEF Shape, Volume
<1>2. CASE \/ NodeStageVolume(v) \/ NodePublishVolume(v) \/ NodeUnpublishVolume(v)
           \/ NodeUnstageVolume(v) \/ DeleteVolume(v)
  <2>1. UNCHANGED <<drive, driveCopies, release>>
    BY <1>2 DEF NodeStageVolume, NodePublishVolume, NodeUnpublishVolume, NodeUnstageVolume,
                DeleteVolume
  <2>2. PICK new \in Volume : WriteVolume(v, new)
    BY <1>2, VolumeForms DEF NodeStageVolume, NodePublishVolume, NodeUnpublishVolume,
       NodeUnstageVolume, DeleteVolume
  <2> QED BY <1>1, <2>1, <2>2, VolumeWritten DEF Shape, Named
<1>3. CASE ReleaseVolume(v)
  <2>1. release' \in [Volumes -> Release]
    BY <1>3 DEF ReleaseVolume, Shape, Release
  <2>2. \A w \in Volumes : release'[w].pc # "idle" => release'[w].drive \in Drives
    BY <1>3 DEF ReleaseVolume, Shape, Named
  <2> QED BY <1>1, <1>3, <2>1, <2>2 DEF ReleaseVolume, ReadVolume, Shape, Named
<1>4. CASE ReleaseDrive(v)
  <2>1. release[v].drive \in Drives
    BY <1>4 DEF ReleaseDrive, Shape, Named
  <2>2. release' \in [Volumes -> Release]
    BY <1>4, <2>1 DEF ReleaseDrive, Shape, Release
  <2>3. \A w \in Volumes : release'[w].pc # "idle" => release'[w].drive \in Drives
    BY <1>4, <2>1 DEF ReleaseDrive, Shape, Named
  <2>4. /\ drive' \in [Drives -> Drive]
        /\ driveCopies' \in [Drives -> SUBSET {"from", "to", "move"}]
    <3>1. drive[release[v].drive] \in Drive
      BY <2>1 DEF Shape
    <3>2. [drive[release[v].drive] EXCEPT !.volumes = @ \ {v}] \in Drive
      BY <3>1, DriveForms
    <3> QED BY <1>4, <2>1, <3>2, DriveWritten DEF ReleaseDrive, Shape
  <2>5. /\ volume' \in [Volumes -> Volume]
        /\ volumeCopies' \in [Volumes -> SUBSET (Drives \cup {"release"})]
    BY <1>4 DEF ReleaseDrive, Shape
  <2> QED BY <1>1, <2>2, <2>3, <2>4, <2>5 DEF Shape, Named
<1>5. CASE ReleasePurge(v)
  <2>1. release' \in [Volumes -> Release]
    BY <1>5 DEF ReleasePurge, Shape, Release
  <2>2. \A w \in Volumes : release'[w].pc # "idle" => release'[w].drive \in Drives
    BY <1>5 DEF ReleasePurge, Shape, Named
  <2>3. /\ volume' \in [Volumes -> Volume]
        /\ volumeCopies' \in [Volumes -> SUBSET (Drives \cup {"release"})]
    BY <1>5, VolumeForms, VolumeWritten DEF ReleasePurge, Shape
  <2> QED BY <1>1, <1>5, <2>1, <2>2, <2>3 DEF ReleasePurge, Shape, Named
<1> QED BY <1>2, <1>3, <1>4, <1>5 DEF VolumeStep

\* Every step keeps the shape.
LEMMA ShapeStep == Shape /\ [Next]_vars => Shape'
<1> SUFFICES ASSUME Shape, [Next]_vars PROVE Shape'
  OBVIOUS
<1>1. CASE UNCHANGED vars
  BY <1>1 DEF vars, Shape, Named
<1>2. CASE StopNode \/ Reboot \/ Panic
  <2>1. handler' \in [Drives -> Handler] /\ release' \in [Volumes -> Release]
    BY <1>2 DEF StopNode, Reboot, Panic, MovePanics, EndAll, NoHandler, NoRelease, Handler, Release
  <2> QED BY <1>2, <2>1 DEF StopNode, Reboot, Panic, MovePanics, EndAll, NoRelease, Shape, Named
<1> QED BY <1>1, <1>2, ShapeCommand, ShapeHandler, ShapeStatus, ShapeVolume DEF Next, Panic

-----------------------------------------------------------------------------
(* A volume is always listed *)

Live(v) == volume[v].exists /\ ~volume[v].deleting

\* While the command's copy of the source is current, it knows all volumes of it.
CopyComplete ==
  command.pc # "idle" /\ "from" \in driveCopies[command.from] =>
    \A v \in drive[command.from].volumes : Live(v) => v \in command.volumes

\* While its copy of the destination is current, that is there.
DestinationExists ==
  command.pc = "destination" /\ "to" \in driveCopies[command.to] => drive[command.to].exists

\* When it takes the volumes off the source, the destination lists them.
Doubled ==
  command.pc = "source" => \A v \in command.volumes : Live(v) => Lists(command.to, v)

\* delete() only takes off what is being deleted.
ReleasedIsDeleted == \A v \in Volumes : release[v].pc # "idle" => ~Live(v)

\* The inductive invariant
ListInv ==
  Shape /\ AlwaysListed /\ CopyComplete /\ DestinationExists /\ Doubled /\ ReleasedIsDeleted

\* Every volume is listed at first, and nothing is under way.
LEMMA ListInit == Init => ListInv
<1> SUFFICES ASSUME Init PROVE ListInv
  OBVIOUS
<1>1. AlwaysListed
  BY MoveAssumption DEF Init, AlwaysListed, Lists
<1>2. CopyComplete /\ DestinationExists /\ Doubled /\ ReleasedIsDeleted
  BY DEF Init, CopyComplete, DestinationExists, Doubled, ReleasedIsDeleted, NoCommand, NoRelease
<1> QED BY <1>1, <1>2, ShapeInit DEF ListInv

\* Steps of others than the command: no volume comes back, only what is deleted is taken
\* off a drive, and a drive that changes makes the command's copies of it old.
LEMMA OthersKeepListed ==
  ASSUME ListInv, Shape', command' = command,
         \A v \in Volumes : Live(v)' => Live(v),
         \A d \in Drives, v \in Volumes : Lists(d, v) /\ Live(v)' => Lists(d, v)',
         \A d \in Drives : driveCopies'[d] \cap {"from", "to"} # {} =>
           drive'[d] = drive[d] /\ driveCopies'[d] \cap {"from", "to"} \subseteq driveCopies[d],
         ReleasedIsDeleted'
  PROVE  ListInv'
<1>1. AlwaysListed'
  BY DEF ListInv, AlwaysListed, Live
<1>2. command.pc # "idle" => command.from \in Drives /\ command.to \in Drives
  BY DEF ListInv, Shape, Named
<1>3. CopyComplete'
  <2> SUFFICES ASSUME command.pc # "idle", "from" \in driveCopies'[command.from],
                      NEW v \in drive'[command.from].volumes, Live(v)'
               PROVE  v \in command.volumes
    BY DEF CopyComplete
  <2>1. "from" \in driveCopies[command.from] /\ drive'[command.from] = drive[command.from]
    BY <1>2
  <2>2. v \in Volumes
    BY <1>2, <2>1 DEF ListInv, Shape, Drive
  <2> QED BY <2>1, <2>2 DEF ListInv, CopyComplete
<1>4. DestinationExists'
  BY <1>2 DEF ListInv, DestinationExists
<1>5. Doubled'
  <2>1. command.volumes \subseteq Volumes
    BY DEF ListInv, Shape, Command
  <2> QED BY <1>2, <2>1 DEF ListInv, Doubled
<1> QED BY <1>1, <1>3, <1>4, <1>5 DEF ListInv

\* The command keeps volumes listed: it writes the destination first, and the source only
\* while it knows all volumes of it.
LEMMA ListCommand == ListInv /\ CommandStep => ListInv'
<1> SUFFICES ASSUME ListInv, CommandStep PROVE ListInv'
  OBVIOUS
<1> USE DEF commandFrame, volumeVars, EndCommand, DropCopies, NoCommand
<1>1. UNCHANGED <<volume, release>> /\ Shape'
  BY ShapeCommand DEF ListInv, CommandStep, MoveGetSource, MoveGetDestination,
     MoveUpdateDestination, MoveUpdateSource, AbortCommand
<1>2. ReleasedIsDeleted' /\ \A v : Live(v)' = Live(v)
  BY <1>1 DEF ListInv, ReleasedIsDeleted, Live
<1>3. ASSUME NEW m \in Moves, MoveGetSource(m[1], m[2]) PROVE ListInv'
  <2>1. m[1] \in Drives /\ m[2] \in Drives /\ UNCHANGED drive
    BY <1>3, MoveAssumption DEF MoveGetSource
  <2>2. AlwaysListed'
    BY <1>1, <2>1 DEF ListInv, AlwaysListed, Lists
  <2>3. CopyComplete' /\ DestinationExists' /\ Doubled'
    BY <1>3, <2>1 DEF MoveGetSource, CopyComplete, DestinationExists, Doubled
  <2> QED BY <1>1, <1>2, <2>2, <2>3 DEF ListInv
<1>4. CASE MoveGetDestination
  <2>1. AlwaysListed'
    BY <1>1, <1>4 DEF MoveGetDestination, ListInv, AlwaysListed, Lists
  <2>2. /\ command' = [command EXCEPT !.pc = "destination",
                                    !.volumes = {v \in command.volumes : volume[v].exists}]
        /\ command \in Command /\ UNCHANGED drive /\ command.pc = "list"
        /\ command.from \in Drives /\ command.to \in Drives /\ command.from # command.to
        /\ drive[command.to].exists
    BY <1>4 DEF MoveGetDestination, ListInv, Shape, Named
  <2>3. /\ command'.pc = "destination" /\ command'.from = command.from /\ command'.to = command.to
        /\ command'.volumes = {v \in command.volumes : volume[v].exists}
    BY <2>2 DEF Command
  <2>4. driveCopies'[command.from] = driveCopies[command.from]
    BY <1>4, <2>2 DEF MoveGetDestination, ReadDrive, ListInv, Shape
  <2>5. CopyComplete'
    BY <1>1, <2>2, <2>3, <2>4 DEF ListInv, CopyComplete, Live
  <2>6. DestinationExists' /\ Doubled'
    BY <2>2, <2>3 DEF DestinationExists, Doubled
  <2> QED BY <1>1, <1>2, <2>1, <2>5, <2>6 DEF ListInv
<1>5. CASE MoveUpdateDestination /\ "to" \in driveCopies[command.to]
  <2>1. /\ command \in Command /\ command.pc = "destination" /\ command.volumes \subseteq Volumes
        /\ command.from \in Drives /\ command.to \in Drives /\ command.from # command.to
        /\ drive[command.to].exists
    BY <1>5 DEF MoveUpdateDestination, ListInv, Shape, Named, Command, DestinationExists
  <2>2. command' = [command EXCEPT !.pc = "source"]
    BY <1>5 DEF MoveUpdateDestination
  <2>3. /\ command'.pc = "source" /\ command'.from = command.from /\ command'.to = command.to
        /\ command'.volumes = command.volumes
    BY <2>1, <2>2 DEF Command
  <2>4. MovedTo(drive[command.to], command.volumes) \in Drive
    BY <2>1, DriveForms DEF ListInv, Shape
  <2>5. /\ \A e \in Drives : drive'[e] = IF e = command.to
                THEN MovedTo(drive[command.to], command.volumes) ELSE drive[e]
        /\ driveCopies'[command.from] = driveCopies[command.from]
    BY <1>5, <2>1, <2>4, DriveWritten DEF MoveUpdateDestination, ListInv
  <2>6. \A v \in command.volumes : Lists(command.to, v)'
    BY <2>1, <2>3, <2>5 DEF Lists, MovedTo
  <2>7. \A e \in Drives, v \in Volumes : Lists(e, v) => Lists(e, v)'
    BY <2>1, <2>5 DEF Lists, MovedTo
  <2>8. AlwaysListed'
    BY <1>1, <2>7 DEF ListInv, AlwaysListed
  <2>9. CopyComplete'
    BY <1>2, <2>1, <2>3, <2>5 DEF ListInv, CopyComplete
  <2>10. DestinationExists' /\ Doubled'
    BY <2>3, <2>6 DEF DestinationExists, Doubled
  <2> QED BY <1>1, <1>2, <2>8, <2>9, <2>10 DEF ListInv
<1>6. CASE MoveUpdateSource /\ "from" \in driveCopies[command.from]
  <2>1. /\ command.pc = "source" /\ command.volumes \subseteq Volumes
        /\ command.from \in Drives /\ command.to \in Drives /\ command.from # command.to
    BY <1>6 DEF MoveUpdateSource, ListInv, Shape, Named, Command
  <2>2. \A e \in Drives : e # command.from => drive'[e] = drive[e]
    BY <1>6 DEF MoveUpdateSource, ListInv, Shape
  <2>3. \A v \in Volumes : Lists(command.from, v) /\ Live(v) => Lists(command.to, v)
    BY <1>6, <2>1 DEF ListInv, CopyComplete, Doubled, Lists
  <2>4. AlwaysListed'
    <3> SUFFICES ASSUME NEW v \in Volumes, Live(v) PROVE \E e \in Drives : Lists(e, v)'
      BY <1>2 DEF AlwaysListed, Live
    <3>1. PICK e \in Drives : Lists(e, v) /\ e # command.from
      BY <2>1, <2>3 DEF ListInv, AlwaysListed, Live
    <3> QED BY <2>2, <3>1 DEF Lists
  <2>5. CopyComplete' /\ DestinationExists' /\ Doubled'
    BY <1>6 DEF MoveUpdateSource, CopyComplete, DestinationExists, Doubled
  <2> QED BY <1>1, <1>2, <2>4, <2>5 DEF ListInv
<1>7. CASE /\ MoveUpdateDestination \/ MoveUpdateSource \/ AbortCommand
           /\ UNCHANGED drive /\ command' = NoCommand
  <2>1. AlwaysListed'
    BY <1>1, <1>7 DEF ListInv, AlwaysListed, Lists
  <2>2. CopyComplete' /\ DestinationExists' /\ Doubled'
    BY <1>7 DEF CopyComplete, DestinationExists, Doubled
  <2> QED BY <1>1, <1>2, <2>1, <2>2 DEF ListInv
<1> QED BY <1>3, <1>4, <1>5, <1>6, <1>7
        DEF CommandStep, MoveUpdateDestination, MoveUpdateSource, AbortCommand

\* The drive controller takes no volume off a drive and removes empty drives only.
LEMMA ListHandler ==
  ASSUME ListInv, NEW d \in Drives, HandlerStep(d)
  PROVE  ListInv'
<1> USE DEF handlerFrame, driveVars, volumeVars, EndMove, FailMove
<1>1. UNCHANGED <<command, release>> /\ Shape' /\ Shape
  BY ShapeHandler DEF ListInv, HandlerStep, StartMove, MoveDone, Remove, MoveGetVolume,
     MoveStage, MoveStageUpdate, MoveUpdateVolume
<1>2. drive[d] \in Drive /\ \A e \in Drives : driveCopies[e] \subseteq {"from", "to", "move"}
  BY <1>1 DEF Shape
<1>3. CASE UNCHANGED <<drive, volume>>
  <2>1. \A e \in Drives : driveCopies'[e] \cap {"from", "to"} \subseteq driveCopies[e]
    <3>1. \/ driveCopies' = driveCopies
          \/ driveCopies' = [driveCopies EXCEPT ![d] = driveCopies[d] \cup {"move"}]
          \/ driveCopies' = [driveCopies EXCEPT ![d] = driveCopies[d] \ {"move"}]
          \/ driveCopies' = [driveCopies EXCEPT ![d] = {}]
      <4>1. ASSUME NEW v \in Volumes, MoveGetVolume(d, v) \/ MoveStage(d, v)
            PROVE  <3>1!:
        BY <4>1 DEF MoveGetVolume, MoveStage
      <4>2. ASSUME NEW v \in Volumes, MoveStageUpdate(d, v) \/ MoveUpdateVolume(d, v)
            PROVE  <3>1!:
        BY <4>2 DEF MoveStageUpdate, MoveUpdateVolume
      <4>3. CASE StartMove(d) \/ MoveDone(d) \/ Remove(d)
        BY <4>3 DEF StartMove, MoveDone, Remove, ReadDrive, WriteDrive
      <4> QED BY <4>1, <4>2, <4>3 DEF HandlerStep
    <3> QED BY <1>1, <3>1 DEF Shape
  <2> QED BY <1>1, <1>3, <2>1, OthersKeepListed DEF ListInv, Live, Lists, ReleasedIsDeleted
<1>4. ASSUME NEW v \in Volumes, MoveStageUpdate(d, v) \/ MoveUpdateVolume(d, v),
             WriteVolume(v, [volume[v] EXCEPT !.drive = d])
      PROVE  ListInv'
  <2>1. volume[v] \in Volume
    BY <1>1 DEF Shape
  <2>2. \A w \in Volumes : volume'[w] = IF w = v THEN [volume[v] EXCEPT !.drive = d] ELSE volume[w]
    BY <1>1, <1>4, <2>1, VolumeForms, VolumeWritten
  <2>3. /\ [volume[v] EXCEPT !.drive = d].exists = volume[v].exists
        /\ [volume[v] EXCEPT !.drive = d].deleting = volume[v].deleting
    BY <2>1 DEF Volume
  <2>4. \A w \in Volumes : Live(w)' = Live(w)
    BY <2>2, <2>3 DEF Live
  <2>5. UNCHANGED drive /\ \A e \in Drives : driveCopies'[e] \subseteq driveCopies[e]
    BY <1>1, <1>4 DEF MoveStageUpdate, MoveUpdateVolume, Shape
  <2> QED BY <1>1, <2>4, <2>5, OthersKeepListed DEF ListInv, Lists, ReleasedIsDeleted
<1>5. ASSUME NEW new \in Drive, WriteDrive(d, new), UNCHANGED volume,
             drive[d].exists => new.exists \/ drive[d].volumes = {}, new.volumes = drive[d].volumes
      PROVE  ListInv'
  <2>1. /\ \A e \in Drives : drive'[e] = IF e = d THEN new ELSE drive[e]
        /\ \A e \in Drives : driveCopies'[e] = IF e = d THEN {} ELSE driveCopies[e]
    BY <1>1, <1>5, DriveWritten
  <2>2. \A e \in Drives, v \in Volumes : Lists(e, v) => Lists(e, v)'
    BY <1>5, <2>1 DEF Lists
  <2> QED BY <1>1, <1>5, <2>1, <2>2, OthersKeepListed DEF ListInv, Live, ReleasedIsDeleted
<1>6. CASE MoveDone(d) /\ "move" \in driveCopies[d]
  <2>1. /\ [drive[d] EXCEPT !.status = "ready"] \in Drive
        /\ [drive[d] EXCEPT !.status = "ready"].exists = drive[d].exists
        /\ [drive[d] EXCEPT !.status = "ready"].volumes = drive[d].volumes
    BY <1>2 DEF Drive, Statuses
  <2> QED BY <1>5, <1>6, <2>1 DEF MoveDone
<1>7. CASE Remove(d)
  <2>1. /\ [drive[d] EXCEPT !.exists = FALSE] \in Drive
        /\ [drive[d] EXCEPT !.exists = FALSE].volumes = drive[d].volumes
    BY <1>2 DEF Drive
  <2> QED BY <1>5, <1>7, <2>1 DEF Remove
<1> QED BY <1>3, <1>4, <1>6, <1>7
        DEF HandlerStep, StartMove, MoveDone, MoveGetVolume, MoveStage, MoveStageUpdate,
            MoveUpdateVolume

\* A new status leaves the volumes of a drive as they are.
LEMMA ListStatus ==
  ASSUME ListInv, NEW d \in Drives, StatusStep(d)
  PROVE  ListInv'
<1> USE DEF statusFrame, volumeVars
<1>1. UNCHANGED <<volume, command, release>> /\ Shape' /\ Shape
  BY ShapeStatus DEF ListInv, StatusStep, RemoveDrive, SetIOError, CheckDrive, UpdateDrive
<1>2. PICK s \in Statuses : WriteDrive(d, [drive[d] EXCEPT !.status = s])
  BY DEF StatusStep, RemoveDrive, SetIOError, CheckDrive, UpdateDrive, Statuses, SetStatus
<1> DEFINE new == [drive[d] EXCEPT !.status = s]
<1>3. new \in Drive /\ new.exists = drive[d].exists /\ new.volumes = drive[d].volumes
  <2>1. drive[d] \in Drive
    BY <1>1 DEF Shape
  <2> QED BY <2>1 DEF Drive
<1>4. /\ \A e \in Drives : drive'[e] = IF e = d THEN new ELSE drive[e]
      /\ \A e \in Drives : driveCopies'[e] = IF e = d THEN {} ELSE driveCopies[e]
  BY <1>1, <1>2, <1>3, DriveWritten
<1> HIDE DEF new
<1>5. \A e \in Drives, v \in Volumes : Lists(e, v) => Lists(e, v)'
  BY <1>3, <1>4 DEF Lists
<1> QED BY <1>1, <1>4, <1>5, OthersKeepListed DEF ListInv, Live, ReleasedIsDeleted

\* Only what is being deleted is taken off its drive by delete().
LEMMA ListVolume ==
  ASSUME ListInv, NEW v \in Volumes, VolumeStep(v)
  PROVE  ListInv'
<1> USE DEF nodeFrame, releaseFrame, driveVars, volumeVars, NoRelease
<1>1. UNCHANGED command /\ Shape' /\ Shape
  BY ShapeVolume DEF ListInv, VolumeStep, NodeStageVolume, NodePublishVolume,
     NodeUnpublishVolume, NodeUnstageVolume, DeleteVolume, ReleaseVolume, ReleaseDrive, ReleasePurge
<1>2. volume[v] \in Volume
  BY <1>1 DEF Shape
<1>3. ASSUME NEW new \in Volume, WriteVolume(v, new), UNCHANGED <<drive, driveCopies>>,
             new.exists => volume[v].exists, volume[v].deleting => new.deleting,
             \A w \in Volumes : release'[w].pc # "idle" => release[w].pc # "idle"
      PROVE  ListInv'
  <2>1. \A w \in Volumes : volume'[w] = IF w = v THEN new ELSE volume[w]
    BY <1>1, <1>3, VolumeWritten
  <2>2. \A w \in Volumes : Live(w)' => Live(w)
    BY <1>3, <2>1 DEF Live
  <2>3. ReleasedIsDeleted'
    BY <1>3, <2>2 DEF ListInv, ReleasedIsDeleted
  <2> QED BY <1>1, <1>3, <2>2, <2>3, OthersKeepListed DEF Lists
<1>4. CASE \/ NodeStageVolume(v) \/ NodePublishVolume(v) \/ NodeUnpublishVolume(v)
           \/ NodeUnstageVolume(v) \/ DeleteVolume(v)
  <2>1. UNCHANGED <<drive, driveCopies, release>>
    BY <1>4 DEF NodeStageVolume, NodePublishVolume, NodeUnpublishVolume, NodeUnstageVolume,
                DeleteVolume
  <2>2. PICK new : /\ WriteVolume(v, new)
                   /\ \/ new = [volume[v] EXCEPT !.staged = TRUE]
                      \/ new = [volume[v] EXCEPT !.staged = FALSE]
                      \/ new = [volume[v] EXCEPT !.published = TRUE]
                      \/ new = [volume[v] EXCEPT !.published = FALSE]
                      \/ new = [volume[v] EXCEPT !.deleting = TRUE]
    BY <1>4 DEF NodeStageVolume, NodePublishVolume, NodeUnpublishVolume, NodeUnstageVolume,
                DeleteVolume
  <2>3. new \in Volume /\ new.exists = volume[v].exists /\ (volume[v].deleting => new.deleting)
    BY <1>2, <2>2 DEF Volume
  <2> QED BY <1>3, <2>1, <2>2, <2>3
<1>5. CASE ReleaseVolume(v)
  <2>1. UNCHANGED <<drive, driveCopies, volume>>
    BY <1>5 DEF ReleaseVolume
  <2>2. ReleasedIsDeleted'
    BY <1>1, <1>5 DEF ReleaseVolume, ListInv, ReleasedIsDeleted, Live, Shape
  <2> QED BY <1>1, <2>1, <2>2, OthersKeepListed DEF Live, Lists
<1>6. CASE ReleaseDrive(v)
  <2> DEFINE d == release[v].drive
             new == [drive[d] EXCEPT !.volumes = @ \ {v}]
  <2>1. d \in Drives /\ UNCHANGED volume /\ ~Live(v)
    BY <1>1, <1>6 DEF ReleaseDrive, Shape, Named, ListInv, ReleasedIsDeleted
  <2>2. new \in Drive /\ new.exists = drive[d].exists /\ new.volumes = drive[d].volumes \ {v}
    <3>1. drive[d] \in Drive
      BY <1>1, <2>1 DEF Shape
    <3> QED BY <3>1 DEF Drive
  <2>3. ReleasedIsDeleted'
    BY <1>1, <1>6, <2>1 DEF ReleaseDrive, ListInv, ReleasedIsDeleted, Live, Shape
  <2>4. CASE UNCHANGED <<drive, driveCopies>>
    BY <1>1, <2>1, <2>3, <2>4, OthersKeepListed DEF Live, Lists
  <2>5. CASE WriteDrive(d, new)
    <3>1. /\ \A e \in Drives : drive'[e] = IF e = d THEN new ELSE drive[e]
          /\ \A e \in Drives : driveCopies'[e] = IF e = d THEN {} ELSE driveCopies[e]
      BY <1>1, <2>1, <2>2, <2>5, DriveWritten
    <3> HIDE DEF new, d
    <3>2. \A e \in Drives, w \in Volumes : Lists(e, w) /\ w # v => Lists(e, w)'
      BY <2>2, <3>1 DEF Lists
    <3>3. \A w \in Volumes : Live(w)' = Live(w)
      BY <2>1 DEF Live
    <3> QED BY <1>1, <2>1, <2>3, <3>1, <3>2, <3>3, OthersKeepListed
  <2> QED BY <1>6, <2>4, <2>5 DEF ReleaseDrive
<1>7. CASE ReleasePurge(v)
  <2>1. /\ UNCHANGED <<drive, driveCopies>>
        /\ \A w \in Volumes : release'[w].pc # "idle" => release[w].pc # "idle"
    BY <1>1, <1>7 DEF ReleasePurge, Shape
  <2>2. CASE UNCHANGED volume
    <3>1. ReleasedIsDeleted'
      BY <2>1, <2>2 DEF ListInv, ReleasedIsDeleted, Live
    <3> QED BY <1>1, <2>1, <2>2, <3>1, OthersKeepListed DEF Live, Lists
  <2>3. CASE WriteVolume(v, [volume[v] EXCEPT !.exists = FALSE])
    <3>1. /\ [volume[v] EXCEPT !.exists = FALSE] \in Volume
          /\ ~[volume[v] EXCEPT !.exists = FALSE].exists
          /\ [volume[v] EXCEPT !.exists = FALSE].deleting = volume[v].deleting
      BY <1>2 DEF Volume
    <3> QED BY <1>3, <2>1, <2>3, <3>1
  <2> QED BY <1>7, <2>2, <2>3 DEF ReleasePurge
<1> QED BY <1>4, <1>5, <1>6, <1>7 DEF VolumeStep

\* Every step keeps the invariant.
LEMMA ListStep == ListInv /\ [Next]_vars => ListInv'
<1> SUFFICES ASSUME ListInv, [Next]_vars PROVE ListInv'
  OBVIOUS
<1>1. Shape'
  BY ShapeStep DEF ListInv
<1>2. CASE UNCHANGED vars \/ StopNode \/ Reboot \/ Panic
  <2>1. UNCHANGED <<drive, volume, command>>
    BY <1>2 DEF vars, StopNode, Reboot, Panic, MovePanics
  <2>2. \A d \in Drives : driveCopies'[d] \subseteq driveCopies[d]
    BY <1>2 DEF vars, StopNode, Reboot, Panic, MovePanics, EndAll
  <2>3. ReleasedIsDeleted'
    BY <1>2 DEF vars, StopNode, Reboot, Panic, MovePanics, EndAll, NoRelease, ListInv, ReleasedIsDeleted, Live
  <2> QED BY <1>1, <2>1, <2>2, <2>3, OthersKeepListed DEF Live, Lists
<1> QED BY <1>2, ListCommand, ListHandler, ListStatus, ListVolume DEF Next, Panic

\* A volume that is not being deleted is listed by some drive at any time: the two writes
\* of the move command, the updates of its drives in between, deletions of other volumes,
\* removals of drives and crashes never take a volume off its last drive.
THEOREM VolumesStayListed == Spec => []AlwaysListed
<1>1. ListInv => AlwaysListed
  BY DEF ListInv
<1> QED BY ListInit, ListStep, <1>1, PTL DEF Spec

-----------------------------------------------------------------------------
(* A published volume is not moved *)

\* move() is past its check of a volume.
Past(d, v) == handler[d].pc \in {"stage", "stageUpdate", "update"} /\ handler[d].at = {v}

\* What move() has checked holds as long as its copy of the volume is current.
CheckedIsUnpublished ==
  \A d \in Drives, v \in Volumes : Past(d, v) /\ d \in volumeCopies[v] => ~volume[v].published

\* The inductive invariant
UseInv == Shape /\ CheckedIsUnpublished

\* The kubelet's calls and the deletion of a volume leave it on its drive.
LEMMA VolumeStaysPut ==
  ASSUME Shape, NEW w \in Volumes, VolumeStep(w)
  PROVE  \A v \in Volumes : volume'[v].drive = volume[v].drive
<1> USE DEF driveVars, volumeVars
<1>1. \/ UNCHANGED volume
      \/ volume' = [volume EXCEPT ![w] = [volume[w] EXCEPT !.staged = TRUE]]
      \/ volume' = [volume EXCEPT ![w] = [volume[w] EXCEPT !.staged = FALSE]]
      \/ volume' = [volume EXCEPT ![w] = [volume[w] EXCEPT !.published = TRUE]]
      \/ volume' = [volume EXCEPT ![w] = [volume[w] EXCEPT !.published = FALSE]]
      \/ volume' = [volume EXCEPT ![w] = [volume[w] EXCEPT !.deleting = TRUE]]
      \/ volume' = [volume EXCEPT ![w] = [volume[w] EXCEPT !.exists = FALSE]]
  BY DEF VolumeStep, NodeStageVolume, NodePublishVolume, NodeUnpublishVolume,
     NodeUnstageVolume, DeleteVolume, ReleaseVolume, ReleaseDrive, ReleasePurge, WriteVolume
<1>2. /\ [volume[w] EXCEPT !.staged = TRUE].drive = volume[w].drive
      /\ [volume[w] EXCEPT !.staged = FALSE].drive = volume[w].drive
      /\ [volume[w] EXCEPT !.published = TRUE].drive = volume[w].drive
      /\ [volume[w] EXCEPT !.published = FALSE].drive = volume[w].drive
      /\ [volume[w] EXCEPT !.deleting = TRUE].drive = volume[w].drive
      /\ [volume[w] EXCEPT !.exists = FALSE].drive = volume[w].drive
  BY DEF Shape, Volume
<1> QED BY <1>1, <1>2 DEF Shape

\* Only move() writes the drive of a volume, from a copy that is current.
LEMMA DriveOfVolume ==
  ASSUME UseInv, [Next]_vars, NEW v \in Volumes, volume'[v].drive # volume[v].drive
  PROVE  ~volume[v].published
<1> USE DEF driveVars, volumeVars, FailMove
<1>1. volume[v] \in Volume
  BY DEF UseInv, Shape
<1>2. \E d \in Drives, w \in Volumes : MoveStageUpdate(d, w) \/ MoveUpdateVolume(d, w)
  <2>1. CASE UNCHANGED volume
    BY <2>1
  <2>2. CASE CommandStep
    BY <2>1, <2>2 DEF CommandStep, MoveGetSource, MoveGetDestination, MoveUpdateDestination,
       MoveUpdateSource, AbortCommand, commandFrame
  <2>3. ASSUME NEW d \in Drives, StatusStep(d) PROVE UNCHANGED volume
    BY <2>3 DEF StatusStep, RemoveDrive, SetIOError, CheckDrive, UpdateDrive, statusFrame
  <2>4. ASSUME NEW w \in Volumes, VolumeStep(w) PROVE FALSE
    BY <2>4, VolumeStaysPut DEF UseInv
  <2>5. ASSUME NEW d \in Drives,
               StartMove(d) \/ MoveDone(d) \/ Remove(d)
                 \/ \E w \in Volumes : MoveGetVolume(d, w) \/ MoveStage(d, w)
        PROVE  UNCHANGED volume
    BY <2>5 DEF StartMove, MoveDone, Remove, MoveGetVolume, MoveStage
  <2>6. CASE UNCHANGED vars \/ StopNode \/ Reboot \/ Panic
    BY <2>6 DEF vars, StopNode, Reboot, Panic, MovePanics
  <2> QED BY <2>1, <2>2, <2>3, <2>4, <2>5, <2>6 DEF Next, HandlerStep, Panic
<1>3. PICK d \in Drives, w \in Volumes : MoveStageUpdate(d, w) \/ MoveUpdateVolume(d, w)
  BY <1>2
<1>4. w = v /\ Past(d, v) /\ d \in volumeCopies[v]
  BY <1>3 DEF MoveStageUpdate, MoveUpdateVolume, WriteVolume, Past, UseInv, Shape
<1> QED BY <1>4 DEF UseInv, CheckedIsUnpublished

\* Nothing is being moved at first.
LEMMA UseInit == Init => UseInv
  BY ShapeInit DEF Init, UseInv, CheckedIsUnpublished

\* Every step keeps what move() has checked.
LEMMA UseStep == UseInv /\ [Next]_vars => UseInv'
<1> SUFFICES ASSUME UseInv, [Next]_vars PROVE UseInv'
  OBVIOUS
<1> USE DEF driveVars, volumeVars, FailMove, EndMove, NoHandler
<1>1. Shape' /\ Shape
  BY ShapeStep DEF UseInv
<1> SUFFICES CheckedIsUnpublished'
  BY <1>1 DEF UseInv
<1>2. CASE UNCHANGED <<handler, volume, volumeCopies>>
  BY <1>2 DEF UseInv, CheckedIsUnpublished, Past
<1>3. CASE CommandStep
  BY <1>2, <1>3 DEF CommandStep, MoveGetSource, MoveGetDestination, MoveUpdateDestination,
     MoveUpdateSource, AbortCommand, commandFrame
<1>4. ASSUME NEW d \in Drives, StatusStep(d) PROVE CheckedIsUnpublished'
  BY <1>2, <1>4 DEF StatusStep, RemoveDrive, SetIOError, CheckDrive, UpdateDrive, statusFrame
<1>5. CASE UNCHANGED vars \/ StopNode \/ Reboot \/ Panic
  BY <1>2, <1>5 DEF vars, StopNode, Reboot, Panic, MovePanics, EndAll, CheckedIsUnpublished
<1>6. ASSUME NEW v \in Volumes, VolumeStep(v) PROVE CheckedIsUnpublished'
  <2>1. UNCHANGED handler
    BY <1>6 DEF VolumeStep, NodeStageVolume, NodePublishVolume, NodeUnpublishVolume,
       NodeUnstageVolume, DeleteVolume, ReleaseVolume, ReleaseDrive, ReleasePurge, nodeFrame,
       releaseFrame
  <2>2. \/ UNCHANGED <<volume, volumeCopies>>
        \/ \E new : WriteVolume(v, new)
        \/ UNCHANGED volume /\ volumeCopies' = [volumeCopies EXCEPT ![v] = @ \cup {"release"}]
        \/ UNCHANGED volume /\ volumeCopies' = [volumeCopies EXCEPT ![v] = @ \ {"release"}]
    BY <1>6 DEF VolumeStep, NodeStageVolume, NodePublishVolume, NodeUnpublishVolume,
       NodeUnstageVolume, DeleteVolume, ReleaseVolume, ReleaseDrive, ReleasePurge, ReadVolume
  <2>3. \A d \in Drives, w \in Volumes : d \in volumeCopies'[w] =>
          d \in volumeCopies[w] /\ volume'[w] = volume[w]
    BY <1>1, <2>2, MoveAssumption DEF WriteVolume, Shape
  <2> QED BY <2>1, <2>3 DEF UseInv, CheckedIsUnpublished, Past
<1>7. ASSUME NEW d \in Drives, HandlerStep(d) PROVE CheckedIsUnpublished'
  <2>1. CASE StartMove(d) \/ MoveDone(d) \/ Remove(d)
    <3>1. UNCHANGED <<volume, volumeCopies>>
      BY <2>1 DEF StartMove, MoveDone, Remove
    <3>2. \A e \in Drives, v \in Volumes : Past(e, v)' => Past(e, v)
      BY <1>1, <2>1 DEF StartMove, MoveDone, Remove, Past, Shape
    <3> QED BY <3>1, <3>2 DEF UseInv, CheckedIsUnpublished
  <2>2. ASSUME NEW v \in Volumes, MoveGetVolume(d, v) PROVE CheckedIsUnpublished'
    <3>1. \A e \in Drives, w \in Volumes : Past(e, w)' =>
            Past(e, w) \/ (e = d /\ w = v /\ ~volume[v].published)
      <4> DEFINE next == [handler[d] EXCEPT !.todo = @ \ {v}]
      <4>1. next.pc = handler[d].pc /\ handler[d].pc = "loop"
        BY <1>1, <2>2 DEF MoveGetVolume, Shape, Handler
      <4>2. \E h : /\ handler' = [handler EXCEPT ![d] = h]
                   /\ h.pc \in {"idle", "loop"} \/ (~volume[v].published /\ h.at = {v})
        <5>1. CASE handler' = [handler EXCEPT ![d] = NoHandler]
          <6>1. NoHandler.pc = "idle"
            BY DEF NoHandler
          <6> QED BY <5>1, <6>1
        <5>2. CASE handler' = [handler EXCEPT ![d] = next]
          BY <4>1, <5>2
        <5> QED BY <2>2, <5>1, <5>2 DEF MoveGetVolume
      <4> HIDE DEF next
      <4>3. ASSUME NEW e \in Drives, NEW w \in Volumes, Past(e, w)', e = d
            PROVE  w = v /\ ~volume[v].published
        <5>1. handler'[d].pc \notin {"idle", "loop"} /\ handler'[d].at = {w}
          BY <4>3 DEF Past
        <5>2. ~volume[v].published /\ handler'[d].at = {v}
          BY <1>1, <4>1, <4>2, <5>1 DEF Shape
        <5> QED BY <5>1, <5>2
      <4>4. \A e \in Drives : e # d => handler'[e] = handler[e]
        BY <1>1, <4>2 DEF Shape
      <4> QED BY <4>3, <4>4 DEF Past
    <3>2. \A e \in Drives, w \in Volumes : e \in volumeCopies'[w] =>
            e \in volumeCopies[w] \/ (e = d /\ w = v /\ ~volume[v].published)
      BY <1>1, <2>2 DEF MoveGetVolume, ReadVolume, Shape
    <3> QED BY <2>2, <3>1, <3>2 DEF MoveGetVolume, UseInv, CheckedIsUnpublished
  <2>3. ASSUME NEW v \in Volumes, MoveStage(d, v) PROVE CheckedIsUnpublished'
    <3>1. UNCHANGED <<volume, volumeCopies>>
      BY <2>3 DEF MoveStage
    <3>2. \/ handler' = [handler EXCEPT ![d] = [handler[d] EXCEPT !.pc = "stageUpdate"]]
          \/ handler' = [handler EXCEPT ![d] = [handler[d] EXCEPT !.pc = "update"]]
      BY <2>3 DEF MoveStage
    <3>3. /\ [handler[d] EXCEPT !.pc = "stageUpdate"].at = handler[d].at
          /\ [handler[d] EXCEPT !.pc = "update"].at = handler[d].at
      BY <1>1 DEF Shape, Handler
    <3>4. \A e \in Drives, w \in Volumes : Past(e, w)' => Past(e, w)
      BY <1>1, <2>3, <3>2, <3>3 DEF MoveStage, Past, Shape
    <3> QED BY <3>1, <3>4 DEF UseInv, CheckedIsUnpublished
  <2>4. ASSUME NEW v \in Volumes, MoveStageUpdate(d, v) \/ MoveUpdateVolume(d, v)
        PROVE  CheckedIsUnpublished'
    <3>1. \A e \in Drives, w \in Volumes : Past(e, w)' => Past(e, w)
      BY <1>1, <2>4 DEF MoveStageUpdate, MoveUpdateVolume, Past, Shape
    <3>2. \A e \in Drives, w \in Volumes : e \in volumeCopies'[w] =>
            e \in volumeCopies[w] /\ volume'[w] = volume[w]
      BY <1>1, <2>4 DEF MoveStageUpdate, MoveUpdateVolume, WriteVolume, Shape
    <3> QED BY <3>1, <3>2 DEF UseInv, CheckedIsUnpublished
  <2> QED BY <1>7, <2>1, <2>2, <2>3, <2>4 DEF HandlerStep
<1> QED BY <1>3, <1>4, <1>5, <1>6, <1>7 DEF Next, Panic

\* move() never points a published volume to another drive: its check is several calls
\* older than its Update, and whatever the kubelet does in between makes that a conflict.
THEOREM PublishedNotMoved == Spec => PublishedStays
<1>1. UseInv /\ [Next]_vars =>
        [\A v \in Volumes : volume'[v].drive # volume[v].drive => ~volume[v].published]_vars
  BY DriveOfVolume
<1> QED BY UseInit, UseStep, <1>1, PTL DEF Spec, PublishedStays
-----------------------------------------------------------------------------
(* A drive becomes Ready with its volumes on it *)

IsDestination(d) == \E m \in Moves : m[2] = d

\* Only a destination is Moving or has move() at work, and between two volumes move() holds none.
MovedOnly ==
  /\ \A d \in Drives : drive[d].status = "moving" \/ handler[d].pc # "idle" => IsDestination(d)
  /\ command.pc # "idle" => IsDestination(command.to)
  /\ \A d \in Drives : handler[d].pc = "loop" => handler[d].at = {}

\* While move()'s copy of its drive is current, a volume that the drive lists is still to be
\* looked at, being moved, or on the drive.
Arrived ==
  \A d \in Drives : handler[d].pc # "idle" /\ "move" \in driveCopies[d] =>
    \A v \in drive[d].volumes :
      v \in handler[d].todo \/ v \in handler[d].at \/ volume[v].drive = d

\* The inductive invariant
ArriveInv == Shape /\ MovedOnly /\ Arrived

\* Nothing is Moving at first.
LEMMA ArriveInit == Init => ArriveInv
<1> SUFFICES ASSUME Init PROVE ArriveInv
  OBVIOUS
<1>1. MovedOnly
  BY DEF Init, MovedOnly, NoCommand, NoHandler
<1>2. Arrived
  BY DEF Init, Arrived
<1> QED BY <1>1, <1>2, ShapeInit DEF ArriveInv

\* A step that leaves the drives of volumes and move() alone, and outdates the copies of a
\* drive whose volumes it changes, keeps what has arrived.
LEMMA ArrivedStays ==
  ASSUME ArriveInv, UNCHANGED handler,
         \A v \in Volumes : volume'[v].drive = volume[v].drive,
         \A d \in Drives : "move" \in driveCopies'[d] =>
           "move" \in driveCopies[d] /\ drive'[d].volumes = drive[d].volumes
  PROVE  Arrived'
<1> SUFFICES ASSUME NEW d \in Drives, handler[d].pc # "idle", "move" \in driveCopies'[d],
                    NEW v \in drive'[d].volumes
             PROVE  v \in handler[d].todo \/ v \in handler[d].at \/ volume'[v].drive = d
  BY DEF Arrived
<1>1. "move" \in driveCopies[d] /\ v \in drive[d].volumes
  OBVIOUS
<1>2. v \in Volumes
  BY <1>1 DEF ArriveInv, Shape, Drive
<1> QED BY <1>1, <1>2 DEF ArriveInv, Arrived

\* The command marks a destination, and its writes outdate the copies of move().
LEMMA ArriveCommand == ArriveInv /\ CommandStep => ArriveInv'
<1> SUFFICES ASSUME ArriveInv, CommandStep PROVE ArriveInv'
  OBVIOUS
<1> USE DEF commandFrame, volumeVars, EndCommand, DropCopies, NoCommand
<1>1. UNCHANGED <<volume, handler>> /\ Shape' /\ Shape
  BY ShapeCommand DEF ArriveInv, CommandStep, MoveGetSource, MoveGetDestination,
     MoveUpdateDestination, MoveUpdateSource, AbortCommand
<1> DEFINE Copies_ == \A d \in Drives : "move" \in driveCopies'[d] =>
                        "move" \in driveCopies[d] /\ drive'[d].volumes = drive[d].volumes
           Status_ == \A d \in Drives : drive'[d].status = "moving" =>
                        drive[d].status = "moving" \/ IsDestination(d)
           Command_ == command'.pc # "idle" => IsDestination(command'.to)
<1>2. ASSUME NEW m \in Moves, MoveGetSource(m[1], m[2]) PROVE Copies_ /\ Status_ /\ Command_
  BY <1>1, <1>2, MoveAssumption DEF MoveGetSource, ReadDrive, Shape, IsDestination
<1>3. ASSUME MoveGetDestination PROVE Copies_ /\ Status_ /\ Command_
  <2>1. /\ command \in Command /\ command.pc = "list" /\ command.to \in Drives
        /\ IsDestination(command.to)
    BY <1>3 DEF MoveGetDestination, ArriveInv, MovedOnly, Shape, Named
  <2>2. command'.to = command.to
    BY <1>3, <2>1 DEF MoveGetDestination, Command
  <2>3. Copies_ /\ Status_
    BY <1>1, <1>3, <2>1 DEF MoveGetDestination, ReadDrive, Shape
  <2> QED BY <2>1, <2>2, <2>3
<1>4. ASSUME MoveUpdateDestination PROVE Copies_ /\ Status_ /\ Command_
  <2>1. /\ command \in Command /\ command.pc = "destination" /\ command.to \in Drives
        /\ IsDestination(command.to)
    BY <1>4 DEF MoveUpdateDestination, ArriveInv, MovedOnly, Shape, Named
  <2>2. Command_
    BY <1>4, <2>1 DEF MoveUpdateDestination, Command
  <2>3. CASE "to" \in driveCopies[command.to]
    <3>1. MovedTo(drive[command.to], command.volumes) \in Drive
      BY <1>1, <2>1, DriveForms DEF Shape, Command
    <3>2. /\ \A e \in Drives : e # command.to => drive'[e] = drive[e]
          /\ \A e \in Drives : driveCopies'[e] = IF e = command.to THEN {} ELSE driveCopies[e]
      BY <1>1, <1>4, <2>1, <2>3, <3>1, DriveWritten DEF MoveUpdateDestination
    <3> QED BY <2>1, <2>2, <3>2
  <2>4. CASE "to" \notin driveCopies[command.to]
    BY <1>1, <1>4, <2>2, <2>4 DEF MoveUpdateDestination, Shape
  <2> QED BY <2>3, <2>4
<1>5. ASSUME MoveUpdateSource PROVE Copies_ /\ Status_ /\ Command_
  <2>1. command.from \in Drives /\ drive[command.from] \in Drive
    BY <1>1, <1>5 DEF MoveUpdateSource, Shape, Named
  <2>2. [drive[command.from] EXCEPT !.volumes = {}].status = drive[command.from].status
    BY <2>1 DEF Drive
  <2>3. Command_
    BY <1>5 DEF MoveUpdateSource
  <2>4. CASE "from" \in driveCopies[command.from]
    <3>1. /\ \A e \in Drives : e # command.from => drive'[e] = drive[e]
          /\ drive'[command.from] = [drive[command.from] EXCEPT !.volumes = {}]
      BY <1>1, <1>5, <2>1, <2>4 DEF MoveUpdateSource, Shape
    <3>2. Status_
      BY <2>2, <3>1
    <3>3. \A e \in Drives : "move" \in driveCopies'[e] =>
            "move" \in driveCopies[e] /\ e # command.from
      BY <1>1, <1>5, <2>1, <2>4 DEF MoveUpdateSource, Shape
    <3> QED BY <2>3, <3>1, <3>2, <3>3
  <2>5. CASE "from" \notin driveCopies[command.from]
    BY <1>1, <1>5, <2>3, <2>5 DEF MoveUpdateSource, Shape
  <2> QED BY <2>4, <2>5
<1>6. ASSUME AbortCommand PROVE Copies_ /\ Status_ /\ Command_
  BY <1>1, <1>6 DEF AbortCommand, Shape
<1>7. Copies_ /\ Status_ /\ Command_
  BY <1>2, <1>3, <1>4, <1>5, <1>6 DEF CommandStep
<1>8. Arrived'
  BY <1>1, <1>7, ArrivedStays
<1>9. MovedOnly'
  BY <1>1, <1>7 DEF ArriveInv, MovedOnly, IsDestination
<1> QED BY <1>1, <1>8, <1>9 DEF ArriveInv

\* Other writers of a status do not mark a drive Moving and outdate the copies of move().
LEMMA ArriveStatus ==
  ASSUME ArriveInv, NEW d \in Drives, StatusStep(d)
  PROVE  ArriveInv'
<1> USE DEF statusFrame, volumeVars
<1>1. UNCHANGED <<volume, command, handler>> /\ Shape' /\ Shape
  BY ShapeStatus DEF ArriveInv, StatusStep, RemoveDrive, SetIOError, CheckDrive, UpdateDrive
<1>2. PICK s \in Statuses \ {"moving"} : WriteDrive(d, [drive[d] EXCEPT !.status = s])
  BY DEF StatusStep, RemoveDrive, SetIOError, CheckDrive, UpdateDrive, Statuses, SetStatus
<1>3. /\ [drive[d] EXCEPT !.status = s] \in Drive
      /\ [drive[d] EXCEPT !.status = s].status = s
  <2>1. drive[d] \in Drive
    BY <1>1 DEF Shape
  <2> QED BY <2>1 DEF Drive
<1>4. /\ \A e \in Drives : drive'[e] = IF e = d THEN [drive[d] EXCEPT !.status = s] ELSE drive[e]
      /\ \A e \in Drives : driveCopies'[e] = IF e = d THEN {} ELSE driveCopies[e]
  BY <1>1, <1>2, <1>3, DriveWritten
<1>5. Arrived'
  BY <1>1, <1>4, ArrivedStays
<1>6. MovedOnly'
  BY <1>1, <1>3, <1>4 DEF ArriveInv, MovedOnly, IsDestination
<1> QED BY <1>1, <1>5, <1>6 DEF ArriveInv

\* The kubelet and delete() do not move volumes; delete() outdates the copies of a drive.
LEMMA ArriveVolume ==
  ASSUME ArriveInv, NEW v \in Volumes, VolumeStep(v)
  PROVE  ArriveInv'
<1> USE DEF nodeFrame, releaseFrame, driveVars, volumeVars
<1>1. UNCHANGED <<command, handler>> /\ Shape' /\ Shape
  BY ShapeVolume DEF ArriveInv, VolumeStep, NodeStageVolume, NodePublishVolume,
     NodeUnpublishVolume, NodeUnstageVolume, DeleteVolume, ReleaseVolume, ReleaseDrive, ReleasePurge
<1>2. \A w \in Volumes : volume'[w].drive = volume[w].drive
  BY <1>1, VolumeStaysPut
<1>3. CASE UNCHANGED <<drive, driveCopies>>
  <2>1. Arrived'
    BY <1>1, <1>2, <1>3, ArrivedStays
  <2> QED BY <1>1, <1>3, <2>1 DEF ArriveInv, MovedOnly, IsDestination
<1>4. CASE ReleaseDrive(v) /\ WriteDrive(release[v].drive,
                             [drive[release[v].drive] EXCEPT !.volumes = @ \ {v}])
  <2> DEFINE d == release[v].drive
             new == [drive[d] EXCEPT !.volumes = @ \ {v}]
  <2>1. d \in Drives /\ drive[d] \in Drive
    BY <1>1, <1>4 DEF ReleaseDrive, Shape, Named
  <2>2. new \in Drive /\ new.status = drive[d].status
    BY <2>1 DEF Drive
  <2>3. /\ \A e \in Drives : drive'[e] = IF e = d THEN new ELSE drive[e]
        /\ \A e \in Drives : driveCopies'[e] = IF e = d THEN {} ELSE driveCopies[e]
    BY <1>1, <1>4, <2>1, <2>2, DriveWritten
  <2> HIDE DEF d, new
  <2>4. Arrived'
    BY <1>1, <1>2, <2>3, ArrivedStays
  <2>5. MovedOnly'
    BY <1>1, <2>2, <2>3 DEF ArriveInv, MovedOnly, IsDestination
  <2> QED BY <1>1, <2>4, <2>5 DEF ArriveInv
<1> QED BY <1>3, <1>4 DEF VolumeStep, NodeStageVolume, NodePublishVolume, NodeUnpublishVolume,
        NodeUnstageVolume, DeleteVolume, ReleaseVolume, ReleaseDrive, ReleasePurge

\* move() of the only destination leaves a volume that is on its drive there.
LEMMA ArriveHandler ==
  ASSUME OneDestination, ArriveInv, NEW d \in Drives, HandlerStep(d)
  PROVE  ArriveInv'
<1> USE DEF handlerFrame, driveVars, volumeVars, EndMove, FailMove, NoHandler
<1>1. UNCHANGED command /\ Shape' /\ Shape
  BY ShapeHandler DEF ArriveInv, HandlerStep, StartMove, MoveDone, Remove, MoveGetVolume,
     MoveStage, MoveStageUpdate, MoveUpdateVolume
<1>2. handler[d] \in Handler /\ drive[d] \in Drive
  BY <1>1 DEF Shape
\* Only the handler of d runs, if one does.
<1>3. \A e \in Drives : handler[d].pc # "idle" /\ handler[e].pc # "idle" => e = d
  BY DEF ArriveInv, MovedOnly, IsDestination, OneDestination
<1> DEFINE Only(e) == handler'[e].pc # "idle" /\ "move" \in driveCopies'[e] =>
                        \A v \in drive'[e].volumes :
                          v \in handler'[e].todo \/ v \in handler'[e].at \/ volume'[v].drive = e
           Moved(e) == /\ drive'[e].status = "moving" \/ handler'[e].pc # "idle" => IsDestination(e)
                       /\ handler'[e].pc = "loop" => handler'[e].at = {}
<1>4. ASSUME \A e \in Drives : Only(e) /\ Moved(e) PROVE ArriveInv'
  <2>1. Arrived'
    BY <1>4 DEF Arrived
  <2>2. MovedOnly'
    BY <1>1, <1>4 DEF ArriveInv, MovedOnly, IsDestination
  <2> QED BY <1>1, <2>1, <2>2 DEF ArriveInv
<1>5. CASE StartMove(d)
  <2>1. Only(d) /\ Moved(d)
    BY <1>1, <1>5 DEF StartMove, ArriveInv, MovedOnly, Shape
  <2>2. ASSUME NEW e \in Drives, e # d PROVE Only(e) /\ Moved(e)
    BY <1>1, <1>5, <2>2 DEF StartMove, ReadDrive, ArriveInv, MovedOnly, Arrived, Shape
  <2> QED BY <1>4, <2>1, <2>2
<1>6. CASE Remove(d)
  <2>1. [drive[d] EXCEPT !.exists = FALSE] \in Drive
    BY <1>2, DriveForms
  <2>2. [drive[d] EXCEPT !.exists = FALSE].status = drive[d].status
    BY <1>2 DEF Drive
  <2>3. /\ UNCHANGED <<handler, volume>>
        /\ \A e \in Drives :
             /\ drive'[e] = IF e = d THEN [drive[d] EXCEPT !.exists = FALSE] ELSE drive[e]
             /\ driveCopies'[e] = IF e = d THEN {} ELSE driveCopies[e]
    BY <1>1, <1>6, <2>1, DriveWritten DEF Remove
  <2>4. ASSUME NEW e \in Drives PROVE Only(e) /\ Moved(e)
    BY <2>2, <2>3 DEF ArriveInv, MovedOnly, Arrived
  <2> QED BY <1>4, <2>4
<1>7. CASE MoveDone(d)
  <2>1. [drive[d] EXCEPT !.status = "ready"] \in Drive
    BY <1>2, DriveForms DEF Statuses
  <2>2. [drive[d] EXCEPT !.status = "ready"].status = "ready"
    BY <1>2 DEF Drive
  <2>3. handler'[d].pc = "idle" /\ \A e \in Drives : e # d => handler'[e] = handler[e]
    BY <1>1, <1>7 DEF MoveDone, Shape
  <2>4. ASSUME NEW e \in Drives PROVE Only(e) /\ Moved(e)
    BY <1>1, <1>7, <2>1, <2>2, <2>3, DriveWritten
       DEF MoveDone, ArriveInv, MovedOnly, Arrived
  <2> QED BY <1>4, <2>4
\* The steps of the loop: no other drive has a handler.
<1>8. ASSUME handler[d].pc # "idle", UNCHANGED drive,
             \A e \in Drives : e # d => handler'[e] = handler[e], Only(d),
             handler'[d].pc = "loop" => handler'[d].at = {}
      PROVE  ArriveInv'
  <2>1. ASSUME NEW e \in Drives PROVE Only(e) /\ Moved(e)
    BY <1>3, <1>8 DEF ArriveInv, MovedOnly
  <2> QED BY <1>4, <2>1
<1>9. ASSUME NEW v \in Volumes, MoveGetVolume(d, v) PROVE ArriveInv'
  <2>1. /\ handler[d].pc = "loop" /\ handler[d].at = {}
        /\ UNCHANGED <<drive, volume>>
        /\ "move" \in driveCopies'[d] => "move" \in driveCopies[d]
        /\ \A e \in Drives : e # d => handler'[e] = handler[e]
    BY <1>1, <1>9 DEF MoveGetVolume, ArriveInv, MovedOnly, Shape
  <2>2. \/ handler'[d] = NoHandler
        \/ volume[v].drive = d /\ handler'[d] = [handler[d] EXCEPT !.todo = @ \ {v}]
        \/ \E pc \in {"stage", "update"} :
             handler'[d] = [pc |-> pc, todo |-> handler[d].todo \ {v}, at |-> {v}]
    BY <1>1, <1>9 DEF MoveGetVolume, Shape
  <2>3. \/ handler'[d].pc = "idle"
        \/ /\ volume[v].drive = d /\ handler'[d].todo = handler[d].todo \ {v}
           /\ handler'[d].at = handler[d].at
        \/ /\ handler'[d].pc # "loop" /\ handler'[d].todo = handler[d].todo \ {v}
           /\ handler'[d].at = {v}
    BY <1>2, <2>2 DEF Handler
  <2>4. Only(d) /\ (handler'[d].pc = "loop" => handler'[d].at = {})
    BY <2>1, <2>3 DEF ArriveInv, Arrived
  <2> QED BY <1>8, <2>1, <2>4
<1>10. ASSUME NEW v \in Volumes, MoveStage(d, v) PROVE ArriveInv'
  <2>1. /\ UNCHANGED <<drive, driveCopies, volume>> /\ handler[d].pc = "stage"
        /\ \A e \in Drives : e # d => handler'[e] = handler[e]
        /\ \/ handler'[d] = [handler[d] EXCEPT !.pc = "stageUpdate"]
           \/ handler'[d] = [handler[d] EXCEPT !.pc = "update"]
    BY <1>1, <1>10 DEF MoveStage, Shape
  <2>2. /\ handler'[d].todo = handler[d].todo /\ handler'[d].at = handler[d].at
        /\ handler'[d].pc # "loop"
    BY <1>2, <2>1 DEF Handler
  <2>3. Only(d)
    BY <2>1, <2>2 DEF ArriveInv, Arrived
  <2> QED BY <1>8, <2>1, <2>2, <2>3
<1>11. ASSUME NEW v \in Volumes, MoveStageUpdate(d, v) PROVE ArriveInv'
  <2>1. /\ UNCHANGED drive /\ handler[d].pc = "stageUpdate" /\ handler'[d].pc = "idle"
        /\ \A e \in Drives : e # d => handler'[e] = handler[e]
    BY <1>1, <1>11 DEF MoveStageUpdate, Shape
  <2> QED BY <1>8, <2>1
<1>12. ASSUME NEW v \in Volumes, MoveUpdateVolume(d, v) PROVE ArriveInv'
  <2>1. /\ UNCHANGED drive /\ handler[d].pc = "update" /\ handler[d].at = {v}
        /\ \A e \in Drives : e # d => handler'[e] = handler[e]
        /\ "move" \in driveCopies'[d] => "move" \in driveCopies[d]
    BY <1>1, <1>12 DEF MoveUpdateVolume, Shape
  <2>2. CASE d \in volumeCopies[v]
    <3>1. /\ handler'[d].todo = handler[d].todo /\ handler'[d].at = {}
      BY <1>1, <1>12, <2>2 DEF MoveUpdateVolume, Shape
    <3>2. volume[v] \in Volume /\ [volume[v] EXCEPT !.drive = d].drive = d
      BY <1>1 DEF Shape, Volume
    <3>3. volume'[v].drive = d /\ \A w \in Volumes : w # v => volume'[w] = volume[w]
      BY <1>1, <1>12, <2>2, <3>2, VolumeForms, VolumeWritten DEF MoveUpdateVolume
    <3>4. drive[d].volumes \subseteq Volumes
      BY <1>2 DEF Drive
    <3>5. Only(d)
      BY <2>1, <3>1, <3>3, <3>4 DEF ArriveInv, Arrived
    <3> QED BY <1>8, <2>1, <3>1, <3>5
  <2>3. CASE d \notin volumeCopies[v]
    <3>1. handler'[d].pc = "idle"
      BY <1>1, <1>12, <2>3 DEF MoveUpdateVolume, Shape
    <3> QED BY <1>8, <2>1, <3>1
  <2> QED BY <2>2, <2>3
<1> QED BY <1>5, <1>6, <1>7, <1>9, <1>10, <1>11, <1>12 DEF HandlerStep

\* Every step keeps the invariant.
LEMMA ArriveStep == OneDestination /\ ArriveInv /\ [Next]_vars => ArriveInv'
<1> SUFFICES ASSUME OneDestination, ArriveInv, [Next]_vars PROVE ArriveInv'
  OBVIOUS
<1>1. CASE UNCHANGED vars
  BY <1>1, ShapeStep DEF vars, ArriveInv, MovedOnly, Arrived, IsDestination
<1>2. CASE StopNode \/ Reboot \/ Panic
  <2>1. UNCHANGED <<drive, command>> /\ \A d \in Drives : handler'[d].pc = "idle"
    BY <1>2 DEF StopNode, Reboot, Panic, MovePanics, EndAll, NoHandler
  <2> QED BY <2>1, ShapeStep DEF ArriveInv, MovedOnly, Arrived, IsDestination
<1> QED BY <1>1, <1>2, ArriveCommand, ArriveHandler, ArriveStatus, ArriveVolume DEF Next, Panic

\* While move() of a drive is at work, only its end marks the drive Ready.
LEMMA ReadyByMove ==
  ASSUME Shape, [Next]_vars, NEW d \in Drives, drive[d].status = "moving",
         handler[d].pc # "idle", drive'[d].status = "ready"
  PROVE  MoveDone(d) /\ "move" \in driveCopies[d]
<1> USE DEF driveVars
<1>1. drive' # drive
  OBVIOUS
<1>2. \A e \in Drives : drive[e] \in Drive
  BY DEF Shape
<1>3. ASSUME CommandStep PROVE FALSE
  <2>1. CASE MoveUpdateDestination
    <3>1. command.to \in Drives /\ MovedTo(drive[command.to], command.volumes) \in Drive
      BY <2>1, DriveForms DEF MoveUpdateDestination, Shape, Named, Command
    <3>2. MovedTo(drive[command.to], command.volumes).status # "ready"
      BY DEF MovedTo
    <3> QED BY <1>1, <2>1, <3>1, <3>2, DriveWritten DEF MoveUpdateDestination
  <2>2. CASE MoveUpdateSource
    <3>1. command.from \in Drives
      BY <2>2 DEF MoveUpdateSource, Shape, Named
    <3>2. [drive[command.from] EXCEPT !.volumes = {}].status = drive[command.from].status
      BY <1>2, <3>1 DEF Drive
    <3> QED BY <1>1, <2>2, <3>1, <3>2 DEF MoveUpdateSource, Shape
  <2> QED BY <1>1, <1>3, <2>1, <2>2
          DEF CommandStep, MoveGetSource, MoveGetDestination, AbortCommand
<1>4. ASSUME NEW e \in Drives, StatusStep(e) PROVE FALSE
  <2>1. PICK s \in Statuses : /\ WriteDrive(e, [drive[e] EXCEPT !.status = s])
                              /\ s = "ready" => \/ drive[e].status # "moving"
                                                \/ handler[e].pc = "idle"
    BY <1>4 DEF StatusStep, RemoveDrive, SetIOError, CheckDrive, UpdateDrive, Statuses, SetStatus
  <2>2. [drive[e] EXCEPT !.status = s] \in Drive /\ [drive[e] EXCEPT !.status = s].status = s
    BY <1>2 DEF Drive
  <2>3. drive'[d] = IF d = e THEN [drive[e] EXCEPT !.status = s] ELSE drive[d]
    BY <2>1, <2>2, DriveWritten
  <2> QED BY <2>1, <2>2, <2>3
<1>5. ASSUME NEW v \in Volumes, VolumeStep(v) PROVE FALSE
  <2>1. ReleaseDrive(v)
    BY <1>1, <1>5 DEF VolumeStep, NodeStageVolume, NodePublishVolume, NodeUnpublishVolume,
       NodeUnstageVolume, DeleteVolume, ReleaseVolume, ReleasePurge, nodeFrame
  <2>2. release[v].drive \in Drives
    BY <2>1 DEF ReleaseDrive, Shape, Named
  <2>3. /\ [drive[release[v].drive] EXCEPT !.volumes = @ \ {v}] \in Drive
        /\ [drive[release[v].drive] EXCEPT !.volumes = @ \ {v}].status
             = drive[release[v].drive].status
    BY <1>2, <2>2 DEF Drive
  <2>4. WriteDrive(release[v].drive, [drive[release[v].drive] EXCEPT !.volumes = @ \ {v}])
    BY <1>1, <2>1 DEF ReleaseDrive
  <2>5. drive'[d] = IF d = release[v].drive
                    THEN [drive[release[v].drive] EXCEPT !.volumes = @ \ {v}] ELSE drive[d]
    BY <2>2, <2>3, <2>4, DriveWritten
  <2> QED BY <2>3, <2>5
<1>6. ASSUME NEW e \in Drives, HandlerStep(e) PROVE MoveDone(d) /\ "move" \in driveCopies[d]
  <2>1. MoveDone(e) \/ Remove(e)
    BY <1>1, <1>6 DEF HandlerStep, StartMove, MoveGetVolume, MoveStage, MoveStageUpdate,
       MoveUpdateVolume, FailMove
  <2>2. /\ [drive[e] EXCEPT !.exists = FALSE] \in Drive
        /\ [drive[e] EXCEPT !.exists = FALSE].status = drive[e].status
        /\ [drive[e] EXCEPT !.status = "ready"] \in Drive
    BY <1>2 DEF Drive, Statuses
  <2>3. e = d
    BY <1>1, <2>1, <2>2, DriveWritten DEF MoveDone, Remove
  <2>4. ~Remove(e)
    BY <2>3 DEF Remove
  <2> QED BY <1>1, <2>1, <2>3, <2>4 DEF MoveDone
<1>7. ~(UNCHANGED vars \/ StopNode \/ Reboot \/ Panic)
  BY <1>1 DEF vars, StopNode, Reboot, Panic, MovePanics
<1> QED BY <1>3, <1>4, <1>5, <1>6, <1>7 DEF Next, Panic

\* With one destination, when move() marks its drive Ready every volume that the drive lists
\* is on it, although the list was read when move() started, and drive and volumes have been
\* changed by command, delete(), kubelet and status writers since.
THEOREM ReadyAfterMove ==
  ASSUME OneDestination
  PROVE  Spec => ReadyIsMoved
<1> DEFINE Ready == \A d \in Drives :
              drive[d].status = "moving" /\ handler[d].pc # "idle" /\ drive'[d].status = "ready"
                => \A v \in drive[d].volumes : volume[v].exists => volume[v].drive = d
<1>1. ASSUME ArriveInv, [Next]_vars PROVE [Ready]_vars
  <2> SUFFICES ASSUME NEW d \in Drives, drive[d].status = "moving", handler[d].pc # "idle",
                      drive'[d].status = "ready"
               PROVE  \A v \in drive[d].volumes : volume[v].drive = d
    OBVIOUS
  <2>1. MoveDone(d) /\ "move" \in driveCopies[d]
    BY <1>1, ReadyByMove DEF ArriveInv
  <2>2. handler[d].todo = {} /\ handler[d].at = {}
    BY <1>1, <2>1 DEF MoveDone, ArriveInv, MovedOnly
  <2> QED BY <1>1, <2>1, <2>2 DEF ArriveInv, Arrived
<1> QED BY <1>1, ArriveInit, ArriveStep, PTL DEF Spec, ReadyIsMoved

-----------------------------------------------------------------------------
(* Capacity *)

IsSource(d) == \E m \in Moves : m[1] = d

\* What a drive has free and gives to its volumes, at first and now
Had(d) == Room[d] + Capacity({v \in Volumes : Start[v] = d})
Has(d) == free[d] + Capacity(drive[d].volumes)

Accounted(d) == free[d] >= 0 /\ Has(d) <= Had(d) /\ (~IsSource(d) => Has(d) = Had(d))

\* While the command's copy of the destination is current, there is room for the volumes.
StillFits ==
  command.pc = "destination" /\ "to" \in driveCopies[command.to] =>
    free[command.to] >= Capacity(command.volumes)

\* The inductive invariant
RoomInv ==
  /\ Shape /\ free \in [Drives -> Int]
  /\ \A d \in Drives : Accounted(d)
  /\ StillFits
  /\ command.pc # "idle" => IsSource(command.from)

\* The capacity of volumes is a natural number.
LEMMA CapacityIsNat ==
  ASSUME NEW S \in SUBSET Volumes
  PROVE  IsFiniteSet(S) /\ Capacity(S) \in Nat
<1>1. IsFiniteSet(S) /\ IsFiniteSet({}) /\ \A v \in Volumes : Size[v] \in Int /\ Size[v] >= 0
  BY MoveAssumption, FS_Subset, FS_EmptySet
<1>2. Capacity(S) \in Int
  BY <1>1, SumIsInt DEF Capacity
<1>3. SumFunctionOnSet(Size, {}) <= SumFunctionOnSet(Size, S) /\ SumFunctionOnSet(Size, {}) = 0
  BY <1>1, SumOfPart, SumEmpty
<1> QED
  BY <1>1, <1>2, <1>3 DEF Capacity

\* Fewer volumes do not take more.
LEMMA CapacityOfPart ==
  ASSUME NEW S \in SUBSET Volumes, NEW T \in SUBSET S
  PROVE  Capacity(T) <= Capacity(S)
<1>1. IsFiniteSet(S) /\ \A v \in Volumes : Size[v] \in Int /\ Size[v] >= 0
  BY MoveAssumption, CapacityIsNat
<1> QED
  BY <1>1, SumOfPart DEF Capacity

\* Volumes that come to a drive take what those not listed before take.
LEMMA CapacityOfUnion ==
  ASSUME NEW S \in SUBSET Volumes, NEW T \in SUBSET Volumes
  PROVE  Capacity(S \cup T) = Capacity(S) + Capacity(T \ S)
<1>1. IsFiniteSet(S) /\ IsFiniteSet(T \ S) /\ \A v \in Volumes : Size[v] \in Int
  BY MoveAssumption, CapacityIsNat
<1>2. Capacity(S \cup (T \ S)) = Capacity(S) + Capacity(T \ S)
  BY <1>1, SumOfBoth DEF Capacity
<1>3. S \cup (T \ S) = S \cup T
  OBVIOUS
<1> QED
  BY <1>2, <1>3

\* All is accounted for at first.
LEMMA RoomInit == Init => RoomInv
<1> SUFFICES ASSUME Init PROVE RoomInv
  OBVIOUS
<1>1. free \in [Drives -> Int] /\ \A d \in Drives : free[d] >= 0 /\ free[d] = Room[d]
  BY MoveAssumption DEF Init
<1>2. ASSUME NEW d \in Drives PROVE Accounted(d)
  <2>1. drive[d].volumes = {v \in Volumes : Start[v] = d}
    BY DEF Init
  <2>2. Capacity({v \in Volumes : Start[v] = d}) \in Nat
    BY CapacityIsNat
  <2> QED
    BY <1>1, <2>1, <2>2 DEF Accounted, Has, Had
<1>3. StillFits /\ command.pc = "idle"
  BY DEF Init, StillFits, NoCommand
<1> QED
  BY <1>1, <1>2, <1>3, ShapeInit DEF RoomInv

\* Nothing happens to capacity, volumes of drives and command; copies may get old.
Spared ==
  /\ UNCHANGED <<free, command>>
  /\ \A d \in Drives : drive'[d].volumes = drive[d].volumes
  /\ \A d \in Drives : "to" \in driveCopies'[d] => "to" \in driveCopies[d]

\* Such a step keeps the account.
LEMMA RoomSpared ==
  ASSUME RoomInv, Shape', Spared
  PROVE  RoomInv'
<1>1. \A d \in Drives : Accounted(d)'
  BY DEF RoomInv, Accounted, Has, Had, Spared
<1>2. StillFits'
  BY DEF RoomInv, StillFits, Spared, Shape, Named
<1> QED
  BY <1>1, <1>2 DEF RoomInv, Spared

\* A drive is written with its volumes as they were.
LEMMA SparedWrite ==
  ASSUME Shape, NEW d \in Drives, NEW new, WriteDrive(d, new), new.volumes = drive[d].volumes,
         UNCHANGED <<free, command>>
  PROVE  Spared
  BY DEF Spared, WriteDrive, Shape

\* The drive controller spares capacity and volumes of its drive.
LEMMA SparedByHandler ==
  ASSUME Shape, NEW d \in Drives, HandlerStep(d)
  PROVE  Spared
<1> USE DEF handlerFrame, driveVars, EndMove, FailMove
<1>1. UNCHANGED <<free, command>>
  BY DEF HandlerStep, StartMove, MoveDone, Remove, MoveGetVolume, MoveStage, MoveStageUpdate,
         MoveUpdateVolume
<1>2. drive[d] \in Drive
  BY DEF Shape
<1>3. CASE UNCHANGED drive /\ \A e \in Drives : driveCopies'[e] \subseteq driveCopies[e] \cup {"move"}
  BY <1>1, <1>3 DEF Spared
<1>4. CASE StartMove(d)
  BY <1>3, <1>4 DEF StartMove, ReadDrive, Shape
<1>5. ASSUME NEW v \in Volumes, MoveGetVolume(d, v) \/ MoveStage(d, v)
      PROVE  Spared
  BY <1>3, <1>5 DEF MoveGetVolume, MoveStage, Shape
<1>6. ASSUME NEW v \in Volumes, MoveStageUpdate(d, v) \/ MoveUpdateVolume(d, v)
      PROVE  Spared
  BY <1>3, <1>6 DEF MoveStageUpdate, MoveUpdateVolume, Shape
<1>7. CASE MoveDone(d)
  <2>1. [drive[d] EXCEPT !.status = "ready"].volumes = drive[d].volumes
    BY <1>2 DEF Drive
  <2> QED
    BY <1>1, <1>3, <1>7, <2>1, SparedWrite DEF MoveDone
<1>8. CASE Remove(d)
  <2>1. [drive[d] EXCEPT !.exists = FALSE].volumes = drive[d].volumes
    BY <1>2 DEF Drive
  <2> QED
    BY <1>1, <1>8, <2>1, SparedWrite DEF Remove
<1> QED
  BY <1>4, <1>5, <1>6, <1>7, <1>8 DEF HandlerStep

\* So do a change of status,
LEMMA SparedByStatus ==
  ASSUME Shape, NEW d \in Drives, StatusStep(d)
  PROVE  Spared
<1>1. UNCHANGED <<free, command>>
  BY DEF StatusStep, RemoveDrive, SetIOError, CheckDrive, UpdateDrive, statusFrame
<1>2. PICK s : WriteDrive(d, [drive[d] EXCEPT !.status = s])
  BY DEF StatusStep, RemoveDrive, SetIOError, CheckDrive, UpdateDrive, SetStatus
<1>3. [drive[d] EXCEPT !.status = s].volumes = drive[d].volumes
  BY DEF Shape, Drive
<1> QED
  BY <1>1, <1>2, <1>3, SparedWrite

\* what the kubelet does to a volume, and a stop of the node server.
LEMMA SparedByOthers ==
  ASSUME Shape, \/ StopNode \/ Reboot \/ Panic \/ UNCHANGED vars
                \/ \E v \in Volumes : VolumeStep(v) /\ ~ReleaseDrive(v)
  PROVE  Spared
<1>1. CASE StopNode \/ Reboot \/ Panic \/ UNCHANGED vars
  BY <1>1 DEF StopNode, Reboot, Panic, MovePanics, EndAll, vars, Spared
<1>2. ASSUME NEW v \in Volumes, VolumeStep(v), ~ReleaseDrive(v)
      PROVE  Spared
  <2>1. UNCHANGED <<drive, free, driveCopies, command>>
    BY <1>2 DEF VolumeStep, NodeStageVolume, NodePublishVolume, NodeUnpublishVolume,
       NodeUnstageVolume, DeleteVolume, ReleaseVolume, ReleasePurge, nodeFrame, releaseFrame,
       driveVars
  <2> QED
    BY <2>1 DEF Spared
<1> QED
  BY <1>1, <1>2

\* delete() gives back what the volume took, if the drive lists it.
LEMMA RoomRelease ==
  ASSUME RoomInv, Shape', NEW v \in Volumes, ReleaseDrive(v)
  PROVE  RoomInv'
<1>0. PICK d \in Drives : d = release[v].drive
  BY DEF ReleaseDrive, RoomInv, Shape, Named
<1> DEFINE old == drive[d].volumes
<1>1. UNCHANGED command /\ Size[v] \in Nat
  BY MoveAssumption DEF ReleaseDrive, releaseFrame
<1>2. CASE UNCHANGED driveVars
  BY <1>1, <1>2, RoomSpared DEF driveVars, Spared
<1>3. CASE /\ WriteDrive(d, [drive[d] EXCEPT !.volumes = @ \ {v}]) /\ v \in old
           /\ free' = [free EXCEPT ![d] = @ + Size[v]]
  <2>1. drive[d] \in Drive /\ old \in SUBSET Volumes
    BY <1>1 DEF RoomInv, Shape, Drive
  <2>2. /\ drive'[d].volumes = old \ {v} /\ driveCopies'[d] = {}
        /\ \A e \in Drives \ {d} : drive'[e] = drive[e] /\ driveCopies'[e] = driveCopies[e]
    BY <1>1, <1>3, <2>1 DEF WriteDrive, RoomInv, Shape, Drive
  <2>3. /\ free' \in [Drives -> Int] /\ free'[d] = free[d] + Size[v]
        /\ \A e \in Drives \ {d} : free'[e] = free[e]
    BY <1>1, <1>3 DEF RoomInv
  <2>4. Capacity(old) = Size[v] + Capacity(old \ {v})
    <3>1. IsFiniteSet(old) /\ v \in old /\ \A x \in old : Size[x] \in Int
      BY <1>3, <2>1, CapacityIsNat, MoveAssumption
    <3> HIDE DEF old
    <3> QED
      BY <3>1, SumRemove DEF Capacity
  <2>5. Capacity(old \ {v}) \in Nat /\ Capacity(old) \in Nat
    BY <2>1, CapacityIsNat
  <2>6. free[d] \in Int /\ free[d] >= 0
    BY <1>1 DEF RoomInv, Accounted
  <2>7. Has(d)' = Has(d) /\ free'[d] >= 0
    BY <1>1, <2>2, <2>3, <2>4, <2>5, <2>6 DEF Has
  <2>8. Accounted(d)'
    BY <1>1, <2>7 DEF RoomInv, Accounted, Had
  <2>9. \A e \in Drives \ {d} : Accounted(e)'
    BY <2>2, <2>3 DEF RoomInv, Accounted, Has, Had
  <2>10. StillFits'
    BY <1>1, <2>2, <2>3 DEF RoomInv, StillFits, Shape, Named
  <2> QED
    BY <1>1, <2>3, <2>8, <2>9, <2>10 DEF RoomInv
<1> QED
  BY <1>0, <1>2, <1>3 DEF ReleaseDrive

\* The command takes from the destination what the volumes need that it did not list, and
\* takes volumes off sources only.
LEMMA RoomCommand ==
  ASSUME RoomInv, Shape', CommandStep
  PROVE  RoomInv'
<1> USE DEF commandFrame, EndCommand, DropCopies, NoCommand
<1>1. ASSUME UNCHANGED <<drive, free>>, command'.pc # "destination",
             command'.pc # "idle" => IsSource(command'.from)
      PROVE  RoomInv'
  BY <1>1 DEF RoomInv, Accounted, Has, Had, StillFits
<1>2. ASSUME NEW m \in Moves, MoveGetSource(m[1], m[2])
      PROVE  RoomInv'
  BY <1>1, <1>2 DEF MoveGetSource, IsSource
<1>3. CASE MoveGetDestination
  <2>1. UNCHANGED <<drive, free>> /\ command'.from = command.from /\ IsSource(command.from)
    BY <1>3 DEF MoveGetDestination, RoomInv, Shape, Command
  <2>2. StillFits'
    BY <1>3 DEF MoveGetDestination, StillFits, RoomInv, Shape, Command
  <2> QED
    BY <2>1, <2>2 DEF RoomInv, Accounted, Has, Had
<1>4. CASE MoveUpdateDestination
  <2>0. PICK d \in Drives : d = command.to
    BY <1>4 DEF MoveUpdateDestination, RoomInv, Shape, Named
  <2> DEFINE old == drive[d].volumes
             new == command.volumes
  <2>1. CASE "to" \notin driveCopies[d]
    BY <1>1, <1>4, <2>0, <2>1 DEF MoveUpdateDestination
  <2>2. CASE "to" \in driveCopies[d]
    <3>1. /\ old \in SUBSET Volumes /\ new \in SUBSET Volumes
          /\ free[d] >= Capacity(new) /\ free[d] \in Int /\ IsSource(command.from)
      BY <1>4, <2>0, <2>2 DEF MoveUpdateDestination, RoomInv, Shape, Named, Command, Drive, StillFits
    <3>2. /\ drive'[d].volumes = old \cup new
          /\ \A e \in Drives \ {d} : drive'[e] = drive[e]
      BY <1>4, <2>0, <2>2, <3>1 DEF MoveUpdateDestination, WriteDrive, MovedTo, RoomInv, Shape
    <3>3. /\ free' \in [Drives -> Int] /\ free'[d] = free[d] - Capacity(new \ old)
          /\ \A e \in Drives \ {d} : free'[e] = free[e]
      <4>1. Capacity(new \ old) \in Int
        BY <3>1, CapacityIsNat
      <4> QED
        BY <1>4, <2>0, <2>2, <3>1, <4>1 DEF MoveUpdateDestination, Taken, RoomInv
    <3>4. Capacity(new \ old) \in Nat /\ Capacity(old) \in Nat /\ Capacity(new) \in Nat
          /\ Capacity(new \ old) <= Capacity(new)
      BY <3>1, CapacityIsNat, CapacityOfPart
    <3>5. Capacity(old \cup new) = Capacity(old) + Capacity(new \ old)
      BY <3>1, CapacityOfUnion
    <3>6. Has(d)' = Has(d) /\ free'[d] >= 0
      BY <3>1, <3>2, <3>3, <3>4, <3>5 DEF Has
    <3>7. Accounted(d)'
      BY <3>1, <3>6 DEF RoomInv, Accounted, Had
    <3>8. \A e \in Drives \ {d} : Accounted(e)'
      BY <3>2, <3>3 DEF RoomInv, Accounted, Has, Had
    <3>9. command'.pc = "source" /\ command'.from = command.from
      BY <1>4, <2>0, <2>2 DEF MoveUpdateDestination, RoomInv, Shape, Command
    <3> QED
      BY <3>1, <3>3, <3>7, <3>8, <3>9 DEF RoomInv, StillFits
  <2> QED
    BY <2>1, <2>2
<1>5. CASE MoveUpdateSource
  <2>d. PICK d \in Drives : d = command.from
    BY <1>5 DEF MoveUpdateSource, RoomInv, Shape, Named
  <2>0. UNCHANGED free /\ command'.pc = "idle"
    BY <1>5 DEF MoveUpdateSource
  <2>1. CASE UNCHANGED drive
    BY <1>1, <2>0, <2>1
  <2>2. CASE drive' = [drive EXCEPT ![d].volumes = {}]
    <3>1. IsSource(d) /\ drive[d].volumes \in SUBSET Volumes /\ free[d] \in Int
      BY <1>5, <2>d DEF MoveUpdateSource, RoomInv, Shape, Drive
    <3>2. drive'[d].volumes = {} /\ \A e \in Drives \ {d} : drive'[e] = drive[e]
      BY <2>2, <3>1 DEF RoomInv, Shape, Drive
    <3>3. Capacity({}) = 0 /\ Capacity(drive[d].volumes) \in Nat
      BY <3>1, CapacityIsNat, SumEmpty DEF Capacity
    <3>4. Has(d)' <= Has(d) /\ Has(d)' \in Int /\ Has(d) \in Int
      BY <2>0, <3>1, <3>2, <3>3 DEF Has
    <3>5. Had(d) \in Int
      <4>1. Capacity({v \in Volumes : Start[v] = d}) \in Nat
        BY CapacityIsNat
      <4> QED
        BY <3>1, <4>1, MoveAssumption DEF Had
    <3>6. Accounted(d)'
      BY <2>0, <3>1, <3>4, <3>5 DEF RoomInv, Accounted, Had
    <3>7. \A e \in Drives \ {d} : Accounted(e)'
      BY <2>0, <3>2 DEF RoomInv, Accounted, Has, Had
    <3> QED
      BY <2>0, <3>6, <3>7 DEF RoomInv, StillFits
  <2> QED
    BY <1>5, <2>d, <2>1, <2>2 DEF MoveUpdateSource
<1>6. CASE AbortCommand
  BY <1>1, <1>6 DEF AbortCommand
<1> QED
  BY <1>2, <1>3, <1>4, <1>5, <1>6 DEF CommandStep

\* Every step keeps the invariant.
LEMMA RoomStep == RoomInv /\ [Next]_vars => RoomInv'
<1> SUFFICES ASSUME RoomInv, [Next]_vars PROVE RoomInv'
  OBVIOUS
<1>1. Shape /\ Shape'
  BY ShapeStep DEF RoomInv
<1>2. CASE Spared
  BY <1>1, <1>2, RoomSpared
<1> QED
  BY <1>1, <1>2, RoomCommand, RoomRelease, SparedByHandler, SparedByStatus, SparedByOthers
     DEF Next, Panic

\* For any volumes, sizes, moves, deletions and failures, free capacity is never negative,
\* and what a drive has free and its volumes take is what it had at first; a drive that
\* volumes were moved from has less, for their capacity is not given back, and never more.
THEOREM MovesKeepCapacity == Spec => []CapacityBalanced
<1>1. RoomInv => CapacityBalanced
  BY DEF RoomInv, Accounted, Has, Had, IsSource, CapacityBalanced
<1> QED
  BY RoomInit, RoomStep, <1>1, PTL DEF Spec
=============================================================================
