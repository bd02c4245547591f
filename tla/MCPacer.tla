------------------------------- MODULE MCPacer -------------------------------
(***************************************************************************)
(* The pacer on small instances.  Time is counted in ticks of half an      *)
(* interval, so that a clock reading can fall inside one.                  *)
(***************************************************************************)
EXTENDS Pacer
=============================================================================
