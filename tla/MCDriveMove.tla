----------------------------- MODULE MCDriveMove -----------------------------
(* A drive is replaced by another, for DriveMove. *)
EXTENDS DriveMove

CONSTANTS d1, d2, v1, v2

MCStart == [v \in Volumes |-> d1]
MCSize == [v \in Volumes |-> IF v = v1 THEN 1 ELSE 2]
MCRoom == [d \in Drives |-> IF d = d2 THEN 3 ELSE 1]
MCMoves == {<<d1, d2>>}
=============================================================================
