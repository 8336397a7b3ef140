----------------------- MODULE ProvisioningRefinement -----------------------
(* Provisioning implements Placement: the finalizers and free capacity of the
   drive objects are the allocator's state. *)
EXTENDS Provisioning

Allocator == INSTANCE Placement WITH
  Size     <- Requested,
  Capacity <- Usable,
  online   <- drives,
  content  <- [d \in Drives |-> drive[d].volumes],
  room     <- [d \in Drives |-> drive[d].free]

\* Every step of the concurrent handlers, with their stale reads, retries and
\* half-done attempts, is a step of the atomic allocator or changes nothing it sees.
ImplementsPlacement == Allocator!Spec
=============================================================================
