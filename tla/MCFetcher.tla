------------------------------ MODULE MCFetcher ------------------------------
(***************************************************************************)
(* The fetcher on small instances.                                         *)
(***************************************************************************)
EXTENDS Fetcher, TLC

TaskSymmetry == Permutations(Tasks)

\* What the steps from a state and their properties depend on: not the traffic
\* counters, nor what the previous call of a task returned or when it began.
Ahead ==
  <<clock, origin, mem, disk, gen, pc, Locals, orphans, theirs, newest, calls,
    [t \in Tasks |-> IF pc[t] = "idle" THEN 0 ELSE began[t]]>>
=============================================================================
