---------------------------- MODULE MCDocPipeline ----------------------------
(***************************************************************************)
(* The documentation pipeline on small instances.                          *)
(***************************************************************************)
EXTENDS DocPipeline

CONSTANTS t1, t2, r1, r2
=============================================================================
