-------------------------- MODULE MCProvisioning ---------------------------
(* Small clusters for Provisioning. *)
EXTENDS ProvisioningRefinement

CONSTANTS d1, d2, v1, v2, c1, Size1, Size2, Room1, Room2, Overhead, ShareClaim

MCClaimOf == [v \in Volumes |-> IF ShareClaim THEN c1 ELSE NoClaim]
MCSuitable == [v \in Volumes |-> Drives]
MCRequested == [v \in Volumes |-> IF v = v1 THEN Size1 ELSE Size2]
MCUsable == [d \in Drives |-> IF d = d1 THEN Room1 ELSE Room2]
MCTotal == [d \in Drives |-> MCUsable[d] + Overhead]

\* Which drive events the runs allow.
NoEvents == {}
AllEvents == {"cordon", "remove", "ioerror", "repair"} \X Drives
=============================================================================
