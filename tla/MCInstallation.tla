--------------------------- MODULE MCInstallation ---------------------------
(* Two legacy drives with the same filesystem UUID and a volume on each; one *)
(* more may be provisioned on the first.                                     *)
EXTENDS Installation

CONSTANTS l1, l2, w1, w2, w3, u1

MCDriveOrder == <<l1, l2>>
MCVolumeOrder == <<w1, w2, w3>>
MCFilesystemUUID == l1 :> u1 @@ l2 :> u1
MCDriveOf == w1 :> l1 @@ w2 :> l2 @@ w3 :> l1
AllAre(status) == [l \in {l1, l2} |-> status]
MCClusters ==
  {<<v, AllAre("InUse")>> : v \in {"v1beta2", "v1beta4", "v1beta5"}}
    \cup {<<v, AllAre("Available")>> : v \in {"v1alpha1", "v1beta1", "v1beta3"}}
    \cup {<<"v1beta5", [AllAre("InUse") EXCEPT ![l1] = "Available"]>>}
=============================================================================
