---------------------------- MODULE MCDriveInit -----------------------------
(* Two devices and two requests for DriveInit. *)
EXTENDS DriveInit

CONSTANTS a, b, r1, r2
=============================================================================
