--------------------------- MODULE MCVolumeMounts ---------------------------
(* Three pods for VolumeMounts. *)
EXTENDS VolumeMounts, TLC

CONSTANTS p1, p2, p3

PodSymmetry == Permutations(Pods)
=============================================================================
