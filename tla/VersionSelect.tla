---------------------------- MODULE VersionSelect ----------------------------
(***************************************************************************)
(* Choosing a version from a crate's sparse index (crates-io-client,       *)
(* version.rs and index.rs).                                               *)
(*                                                                         *)
(* An index is the sequence of a crate's releases in the order they were   *)
(* published.  A version is <<line, patch, stage>>, where stage Stable is a *)
(* release and a smaller one a pre-release; so semver's order is that of   *)
(* the triples.  A version that is not semver is Unparsed.                 *)
(***************************************************************************)
EXTENDS Ordering, SequencesExt

Stable == 9
Unparsed == <<>>
Nowhere == 0  \* no position of an index

Below(v, w) ==
  \E i \in DOMAIN v : v[i] < w[i] /\ \A j \in 1 .. i - 1 : v[j] = w[j]

IsStable(v) == v[3] = Stable

-----------------------------------------------------------------------------
(* index.rs: the order of an index *)

\* Mutant of ByVersion: the order of publication.
ByPublication(index) == [i \in DOMAIN index |-> i]

\* by_version: ascending, what is not semver at the bottom, otherwise as published.
VersionOrder(index) ==
  {d \in (DOMAIN index) \X (DOMAIN index) :
    LET v == index[d[1]].version
        w == index[d[2]].version
    IN \/ v = Unparsed /\ w # Unparsed
       \/ v # Unparsed /\ w # Unparsed /\ Below(v, w)
       \/ v = w /\ d[1] < d[2]}

ByVersion(index) == InOrder(DOMAIN index, VersionOrder(index))

Descending(index) == Reverse(ByVersion(index))

-----------------------------------------------------------------------------
(* version.rs: selectors *)

Default == [kind |-> "default"]
Garbage == [kind |-> "garbage"]

\* Selector::from_str, of what kind a text is: a full version means that version.
Parse(raw) ==
  CASE raw.text \in {"absent", "latest", "newest", "blank"} -> Default
    [] raw.text = "version" -> [kind |-> "exact", version |-> raw.version]
    [] raw.text = "requirement" -> [kind |-> "matching", requirement |-> raw.requirement]
    [] OTHER -> Garbage

\* The requirement of get_crate_versions: there a full version is a caret requirement.
ParseRequirement(raw) ==
  CASE raw.text = "absent" -> Default
    [] raw.text = "version" ->
         [kind |-> "matching", requirement |-> {[op |-> "caret", version |-> raw.version]}]
    [] raw.text = "requirement" -> [kind |-> "matching", requirement |-> raw.requirement]
    [] OTHER -> Garbage

\* External: a comparator of a semver VersionReq.  A tilde, a wildcard and a part of a
\* version are shorthands for two of these; "*" is none.
Meets(c, v) ==
  CASE c.op = "caret" -> v[1] = c.version[1] /\ ~Below(v, c.version)
    [] c.op = "exact" -> v = c.version
    [] c.op = "above" -> Below(c.version, v)
    [] c.op = "least" -> ~Below(v, c.version)
    [] c.op = "below" -> Below(v, c.version)
    [] c.op = "most" -> ~Below(c.version, v)

\* External: a pre-release matches only if a comparator names one of the same release.
Matches(requirement, v) ==
  /\ \A c \in requirement : Meets(c, v)
  /\ \/ IsStable(v)
     \/ \E c \in requirement : ~IsStable(c.version) /\ v[1] = c.version[1] /\ v[2] = c.version[2]

Accepts(selector, v) ==
  \/ selector.kind = "default"
  \/ selector.kind = "exact" /\ v = selector.version
  \/ selector.kind = "matching" /\ Matches(selector.requirement, v)

\* Not yanked, then stable, then the highest.
Rank(entry) ==
  <<IF entry.yanked THEN 0 ELSE 1, IF IsStable(entry.version) THEN 1 ELSE 0>> \o entry.version

\* Mutant of Best: the highest, whatever it is.
BestHighest(index, selector, allowYanked) ==
  LET candidates == {i \in DOMAIN index :
        /\ index[i].version # Unparsed
        /\ allowYanked \/ ~index[i].yanked
        /\ Accepts(selector, index[i].version)}
  IN IF candidates = {} THEN Nowhere
     ELSE CHOOSE i \in candidates : \A j \in candidates \ {i} :
            ~Below(index[i].version, index[j].version)

\* best, and CrateIndex::resolve: the candidate that ranks first, the last of equals.
Best(index, selector, allowYanked) ==
  LET candidates == {i \in DOMAIN index :
        /\ index[i].version # Unparsed
        /\ allowYanked \/ ~index[i].yanked
        /\ Accepts(selector, index[i].version)}
  IN IF candidates = {} THEN Nowhere
     ELSE CHOOSE i \in candidates : \A j \in candidates \ {i} :
            \/ Below(Rank(index[j]), Rank(index[i]))
            \/ Rank(index[j]) = Rank(index[i]) /\ j < i
=============================================================================
