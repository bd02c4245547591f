----------------------------- MODULE MCToolCalls -----------------------------
(***************************************************************************)
(* Tools about a crate that has three of five versions at first: releases  *)
(* and pre-releases of two lines, one of them not semver, in the order of  *)
(* the versions and not, with a release, a pre-release or nothing yanked;  *)
(* or that the registry does not have yet.                                 *)
(***************************************************************************)
EXTENDS ToolCalls, TLC

CONSTANTS t1, t2

MCVersions == {<<1, 0, Stable>>, <<1, 1, 1>>, <<1, 1, Stable>>, <<2, 0, 1>>, Unparsed}

MCOverlong == {<<1, 1, 1>>}

Entry(v, yanked) == [version |-> v, yanked |-> yanked]

MCFirstIndexes ==
  {<<>>,
   <<Entry(<<2, 0, 1>>, FALSE), Entry(Unparsed, FALSE), Entry(<<1, 1, Stable>>, FALSE)>>,
   <<Entry(<<1, 0, Stable>>, TRUE), Entry(<<1, 1, 1>>, TRUE), Entry(<<2, 0, 1>>, FALSE)>>}

Absent == [text |-> "absent"]
Written(v) == [text |-> "version", version |-> v]
Required(requirement) == [text |-> "requirement", requirement |-> requirement]

\* >=1, <2.0.0-rc.2: the pre-release of the second line it admits is above all releases.
Ranged == {[op |-> "least", version |-> <<1, 0, Stable>>], [op |-> "below", version |-> <<2, 0, 2>>]}

Request(tool, raw) ==
  [tool |-> tool, raw |-> raw, yanked |-> FALSE, prerelease |-> FALSE, limit |-> 2, page |-> 1,
   filter |-> TRUE, validName |-> TRUE, item |-> FALSE, readme |-> TRUE]

MCRequests ==
  {Request("info", Absent),
   Request("versions", Absent),
   [Request("versions", [text |-> "garbage"]) EXCEPT !.limit = 0, !.validName = FALSE],
   [Request("versions", Absent) EXCEPT !.prerelease = TRUE],
   [Request("versions", Written(<<1, 1, 1>>)) EXCEPT !.prerelease = TRUE],
   [Request("versions", Absent) EXCEPT !.yanked = TRUE, !.prerelease = TRUE, !.limit = 3],
   [Request("versions", Required(Ranged)) EXCEPT !.prerelease = TRUE, !.limit = 1],
   [Request("versions", Required(Ranged)) EXCEPT !.prerelease = TRUE],
   Request("dependencies", Written(<<1, 1, 1>>)),
   Request("documentation", [text |-> "latest"]),
   [Request("documentation", Required(Ranged)) EXCEPT !.item = TRUE, !.readme = FALSE],
   [Request("search", Absent) EXCEPT !.filter = FALSE],
   Request("search", Absent)}

MCFaults ==
  {[kind |-> "network_error", status |-> 0], [kind |-> "upstream_error", status |-> 403]}

TaskSymmetry == Permutations(Tasks)
=============================================================================
