----------------------- MODULE ProvisioningInvariants -----------------------
(* The inductive strengthenings of the safety properties of Provisioning. *)
EXTENDS Provisioning

-----------------------------------------------------------------------------
(* Each drive on its own: holds whatever fails, lands late or races with clean. *)

\* A drive object has no negative capacity and one volume per claim-id label.
SafeDrive(o) ==
  /\ o.free >= 0
  /\ o.claims = {ClaimOf[v] : v \in o.volumes} \ {NoClaim}
  /\ \A v, w \in o.volumes : v # w => ClaimOf[v] # ClaimOf[w] \/ ClaimOf[v] = NoClaim

SafeDrives == \A d \in Drives : SafeDrive(drive[d])

\* A drive with room for size bytes of volume v and no volume of its claim-id.
Admits(d, v, size) == size <= drive[d].free /\ ClaimOf[v] \notin drive[d].claims

\* What a handler saw in its copy of drive d still holds while the copy is current.
CreateCopyTrue(d, v) ==
  /\ create[v].pc # "idle" /\ create[v].mode = "add"
  /\ create[v].drive = d /\ <<"create", v>> \in driveCopies[d]
  => Admits(d, v, create[v].size)

LateCopyTrue(d, v) ==
  <<"late", v>> \in driveCopies[d]
  => late[v].pc = "sent" /\ late[v].drive = d /\ Admits(d, v, late[v].size)

ExpandCopyTrue(d, v) ==
  expand[v].pc = "updateDrive" /\ expand[v].drive = d /\ <<"expand", v>> \in driveCopies[d]
  => expand[v].need <= drive[d].free

ReleaseCopyTrue(d, v) ==
  release[v].pc = "updateDrive" /\ release[v].drive = d /\ <<"release", v>> \in driveCopies[d]
  => v \in drive[d].volumes

CopiesTrue ==
  \A d \in Drives, v \in Volumes :
    CreateCopyTrue(d, v) /\ LateCopyTrue(d, v) /\ ExpandCopyTrue(d, v) /\ ReleaseCopyTrue(d, v)

\* No size is negative, so a release never takes capacity away.
SizesTrue ==
  \A v \in Volumes :
    create[v].size >= 0 /\ volume[v].total >= 0 /\ release[v].size >= 0

DriveInv == TypeOK /\ SafeDrives /\ CopiesTrue /\ SizesTrue

-----------------------------------------------------------------------------
(* Each volume on its own *)

\* The handlers of a volume, and the volume, name drives.
PlacedVolume(v) ==
  /\ v \in volumes => Home(v) \in Drives
  /\ create[v].pc # "idle" => create[v].drive \in Drives
  /\ late[v].pc # "idle" => late[v].drive \in Drives
  /\ expand[v].pc # "idle" => expand[v].drive \in Drives
  /\ release[v].pc # "idle" => release[v].drive \in Drives

-----------------------------------------------------------------------------
(* Volumes are backed: holds whatever fails, lands late or races with clean, if
   every request names its size. *)

Reads(op, d, v) == <<op, v>> \in driveCopies[d]

\* A volume has the requested size until ControllerExpandVolume answers.
SizeKnown(v) ==
  /\ create[v].pc # "idle" => claim[v] = "pending" /\ create[v].size = Requested[v]
  /\ claim[v] \in {"unclaimed", "pending", "provisioned"} => granted[v] = 0 /\ expand[v].pc = "idle"
  /\ v \in volumes /\ granted[v] = 0 => volume[v].total = Requested[v]
  /\ release[v].pc # "idle" /\ granted[v] = 0 => release[v].size = Requested[v]
  /\ create[v].pc = "reserve" /\ v \in volumes => Home(v) = create[v].drive
  /\ destroy[v] # "idle" => claim[v] \in {"released", "gone"}

\* An expansion in progress asks for what its volume lacks.
ExpandKnown(v) ==
  expand[v].pc # "idle" =>
    /\ expand[v].goal > 0 /\ expand[v].need >= 0
    /\ v \in volumes => /\ expand[v].drive = Home(v)
                        /\ volume[v].total >= expand[v].goal - expand[v].need

\* A drive Update that is still on its way meets a volume nobody expanded.
LateKnown(d, v) ==
  Reads("late", d, v) =>
    /\ v \notin drive[d].volumes /\ late[v].size = Requested[v]
    /\ v \in volumes /\ Home(v) = d =>
         granted[v] = 0 /\ expand[v].pc = "idle" /\ claim[v] \in {"pending", "gone"}
    /\ release[v].pc # "idle" /\ release[v].drive = d => release[v].size = Requested[v]
    /\ create[v].pc # "idle" /\ create[v].mode = "found" => create[v].drive # d

\* What a drive that lists the volume gave for it.
ListedBacked(d, v) ==
  /\ debit[d][v] >= 0
  /\ create[v].pc # "idle" /\ create[v].mode = "add" /\ create[v].drive = d /\ Reads("create", d, v)
     => v \notin drive[d].volumes
  /\ v \in drive[d].volumes =>
       /\ debit[d][v] >= Requested[v]
       /\ v \in volumes /\ Home(v) = d => debit[d][v] >= volume[v].total /\ debit[d][v] >= granted[v]
       /\ release[v].pc \in {"getDrive", "updateDrive"} /\ release[v].drive = d
          => debit[d][v] >= release[v].size

BackedVolume(v) ==
  /\ PlacedVolume(v)
  /\ SizeKnown(v)
  /\ ExpandKnown(v)
  /\ \A d \in Drives : LateKnown(d, v) /\ ListedBacked(d, v)

BackedInv == \A v \in Volumes : BackedVolume(v)

-----------------------------------------------------------------------------
(* Reservations match volumes: holds whatever fails and happens to the drives, if no
   Update lands late and clean leaves alone what is being provisioned. *)

\* Nobody deletes, releases or cleans a volume whose claim is not released.
LiveIsKept(v) ==
  claim[v] \in {"unclaimed", "pending", "provisioned", "bound"} =>
    /\ v \notin deleting /\ destroy[v] = "idle" /\ clean[v] = "idle" /\ release[v].pc = "idle"
    /\ v \in volumes => v \in pvProtected

\* CreateVolume knows where its volume is reserved.
CreateKnows(v) ==
  create[v].pc # "idle" =>
    /\ claim[v] = "pending"
    /\ create[v].mode = "add" => \A d \in Drives : v \notin drive[d].volumes
    /\ create[v].mode = "found" => v \in drive[create[v].drive].volumes
    /\ create[v].pc # "create" => v \in volumes
    /\ create[v].pc = "reserve" => Home(v) = create[v].drive

\* So does the volume controller.
ReleaseKnows(v) ==
  release[v].pc # "idle" =>
    /\ v \in volumes /\ release[v].drive = Home(v)
    /\ release[v].pc = "purge" => \A d \in Drives : v \notin drive[d].volumes

\* A volume is listed where it lives, and an answered one is listed.
ListedWhereItLives(v) ==
  /\ \A d \in Drives : v \in drive[d].volumes => v \in volumes /\ Home(v) = d
  /\ claim[v] \in {"provisioned", "bound"} => v \in volumes /\ v \in drive[Home(v)].volumes

QuietVolume(v) ==
  /\ PlacedVolume(v)
  /\ late[v].pc = "idle"
  /\ LiveIsKept(v)
  /\ CreateKnows(v)
  /\ ReleaseKnows(v)
  /\ ListedWhereItLives(v)

\* A drive that has gone lists nothing and nobody has a copy of it.
GoneIsEmpty == \A d \in Drives : d \notin drives => drive[d].volumes = {} /\ driveCopies[d] = {}

QuietInv == GoneIsEmpty /\ \A v \in Volumes : QuietVolume(v)

\* Without expansion every size is the requested one, and a drive gave exactly that.
ExactVolume(v) ==
  /\ expand[v].pc = "idle" /\ granted[v] = 0
  /\ create[v].pc # "idle" => create[v].size = Requested[v]
  /\ release[v].pc # "idle" => release[v].size = Requested[v]
  /\ v \in volumes => volume[v].total = Requested[v]
  /\ \A d \in Drives : debit[d][v] = IF v \in drive[d].volumes THEN Requested[v] ELSE 0

ExactInv == \A v \in Volumes : ExactVolume(v)
=============================================================================
