------------------------------ MODULE Ordering ------------------------------
(***************************************************************************)
(* Lists that are in order, and what a list has of some things: sort_by,   *)
(* filter and collect, which the indexes of documentation (DocLookup) and  *)
(* of releases (VersionSelect) are made and read with.                     *)
(***************************************************************************)
EXTENDS Naturals, FiniteSets, Sequences

\* Things in order: the one that n others come before is the next after n.
InOrder(things, before) ==
  [n \in 1 .. Cardinality(things) |->
    CHOOSE i \in things : Cardinality({j \in things : <<j, i>> \in before}) = n - 1]

\* What is at some places of a list, and what is at some of them from first to last.
Picked(rows, kept) == [k \in DOMAIN kept |-> rows[kept[k]]]
Upward(places) == {d \in places \X places : d[1] < d[2]}
Those(rows, places) == Picked(rows, InOrder(places, Upward(places)))

\* Where a list has one of some things, and what it has of them.
PlacesOf(list, some) == {k \in DOMAIN list : list[k] \in some}
Kept(list, some) == Those(list, PlacesOf(list, some))
=============================================================================
