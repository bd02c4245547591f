----------------------------- MODULE MCDiskStore -----------------------------
(***************************************************************************)
(* The disk store on small instances: an artifact of one part and one of   *)
(* two, so that a file can be cut, mixed and too long.                     *)
(***************************************************************************)
EXTENDS DiskStore, TLC

CONSTANTS small, large, p1, p2, a, b

MCParts == small :> 1 @@ large :> 2

\* A thread each of two processes of different builds, or two threads of one.
MCLayoutOf == p1 :> 1 @@ p2 :> 2
TwoProcesses == {<<p1, a>>, <<p2, a>>}
TwoThreads == {<<p1, a>>, <<p1, b>>}
AnyCrew == {TwoProcesses, TwoThreads}
OneProcess == {TwoThreads}

\* States that differ in the numbers of their inodes only are one: an inode is
\* known by what leads to it.
Leading(i) == <<path = i, {p \in Processes : tmp[p] = i}, {w \in Workers : fd[w] = i}>>
Linkage ==
  <<crew, {<<Leading(i), content[i]>> : i \in Inodes \cap Linked}, pc, job, got, opened, given>>
=============================================================================
