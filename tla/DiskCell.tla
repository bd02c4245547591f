------------------------------ MODULE DiskCell ------------------------------
(***************************************************************************)
(* What one key of the disk cache promises whoever reads it: a cell that   *)
(* is empty or holds one artifact, and changes only by replacing the whole *)
(* artifact or by dropping it.  Dropping is always allowed: losing an      *)
(* entry costs a fetch.  DiskStore.tla is shown to implement this module.  *)
(***************************************************************************)
CONSTANTS
  Artifacts,  \* what a store may write
  Initial,    \* what the cell may hold at first
  Empty       \* the cell holds nothing

VARIABLE cell

Init == cell \in Initial \cup {Empty}

Replace(artifact) == cell' = artifact

Drop == cell' = Empty

Next == (\E artifact \in Artifacts : Replace(artifact)) \/ Drop

Spec == Init /\ [][Next]_cell
=============================================================================
