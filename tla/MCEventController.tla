------------------------- MODULE MCEventController -------------------------
(* One object and two workers for EventController. *)
EXTENDS EventController

CONSTANTS k1, w1, w2
=============================================================================
