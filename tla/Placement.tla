----------------------------- MODULE Placement ------------------------------
(***************************************************************************)
(* What the CSI controller and the volume controllers promise together:   *)
(* volumes are placed on drives and withdrawn from them one at a time, as  *)
(* if by a single allocator that sees every drive as it is.  A volume is   *)
(* placed only while no drive has it, only where its whole size is free    *)
(* and, with a volume-claim-id, only where no volume of that id is; its    *)
(* size is free again once it is withdrawn; only empty drives retire.      *)
(***************************************************************************)
EXTENDS Integers

CONSTANTS Drives, Volumes, NoClaim, ClaimOf, Size, Capacity

VARIABLES
  online,    \* drives in service
  content,   \* [Drives -> SUBSET Volumes]
  room       \* [Drives -> Int]: free bytes

vars == <<online, content, room>>

Init ==
  /\ online = Drives
  /\ content = [d \in Drives |-> {}]
  /\ room = Capacity

Place(v, d) ==
  /\ d \in online
  /\ \A x \in Drives : v \notin content[x]
  /\ Size[v] <= room[d]
  /\ \A w \in content[d] : ClaimOf[w] # ClaimOf[v] \/ ClaimOf[v] = NoClaim
  /\ content' = [content EXCEPT ![d] = @ \cup {v}]
  /\ room' = [room EXCEPT ![d] = @ - Size[v]]
  /\ UNCHANGED online

\* A drive on its way out retires with the last volume withdrawn from it.
Withdraw(v, d) ==
  /\ v \in content[d]
  /\ content' = [content EXCEPT ![d] = @ \ {v}]
  /\ room' = [room EXCEPT ![d] = @ + Size[v]]
  /\ \/ UNCHANGED online
     \/ content[d] = {v} /\ online' = online \ {d}

Retire(d) ==
  /\ content[d] = {}
  /\ online' = online \ {d}
  /\ UNCHANGED <<content, room>>

Next == \E d \in Drives : Retire(d) \/ \E v \in Volumes : Place(v, d) \/ Withdraw(v, d)

Spec == Init /\ [][Next]_vars
=============================================================================
