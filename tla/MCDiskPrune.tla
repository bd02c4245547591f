----------------------------- MODULE MCDiskPrune -----------------------------
(***************************************************************************)
(* Pruning on small directories: sizes and a capacity at which one, two or *)
(* all files have to go.                                                   *)
(***************************************************************************)
EXTENDS DiskPrune, TLC

CONSTANTS k1, k2, k3, p1, p2
=============================================================================
