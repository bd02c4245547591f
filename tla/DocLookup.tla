------------------------------ MODULE DocLookup ------------------------------
(***************************************************************************)
(* Looking an item up in a documentation index (crates-io-client, docs.rs: *)
(* DocIndex::lookup), and the four linear passes it has to agree with      *)
(* (lookup_linear, the oracle of the repository's own tests).              *)
(*                                                                         *)
(* A text is a sequence of characters: a colon, capitals 1 .. 9 and small  *)
(* letters 11 .. 19, in the order of their bytes.  An index is a pair of   *)
(* sequences, of items ordered by path and of re-exports ordered by name.  *)
(***************************************************************************)
EXTENDS Ordering, SequencesExt, FiniteSetsExt

CONSTANTS
  MaxSuggestions,  \* MAX_SUGGESTIONS
  Slots            \* how many slots the trigram filter has

ASSUME LookupConstants ==
  /\ MaxSuggestions \in Nat
  /\ Slots \in Nat \ {0}

Colon == 0
Separator == <<Colon, Colon>>

Lower(c) == IF c \in 1 .. 9 THEN c + 10 ELSE c
Lowered(s) == [i \in DOMAIN s |-> Lower(s[i])]

\* str's order.
Precedes(s, t) ==
  \E i \in 1 .. Len(t) :
    /\ \A j \in 1 .. i - 1 : j <= Len(s) /\ s[j] = t[j]
    /\ i > Len(s) \/ s[i] < t[i]

Within(part, s) ==
  \E i \in 0 .. Len(s) : i + Len(part) <= Len(s) /\ SubSeq(s, i + 1, i + Len(part)) = part

\* rsplit("::").next()
LastSegment(s) ==
  LET cuts == {i \in 2 .. Len(s) : SubSeq(s, i - 1, i) = Separator} IN
  SubSeq(s, Max(cuts \cup {0}) + 1, Len(s))

\* trim_start_matches("::")
Stripped(s) ==
  LET colons == Max({n \in 0 .. Len(s) : \A i \in 1 .. n : s[i] = Colon}) IN
  SubSeq(s, 2 * (colons \div 2) + 1, Len(s))

-----------------------------------------------------------------------------
(* Order *)

\* Places by the names there, those of one name from first to last.
NameOrder(names) ==
  {d \in (DOMAIN names) \X (DOMAIN names) :
    \/ Precedes(names[d[1]], names[d[2]])
    \/ names[d[1]] = names[d[2]] /\ d[1] < d[2]}
Sorted(names) == InOrder(DOMAIN names, NameOrder(names))

\* The stretch of such an order between two partition points.
Stretch(order, names, wanted) ==
  LET start == Cardinality({i \in DOMAIN order : Precedes(names[order[i]], wanted)})
      length == Cardinality({i \in start + 1 .. Len(order) : names[order[i]] = wanted})
  IN SubSeq(order, start + 1, start + length)

-----------------------------------------------------------------------------
(* Answers *)

NoAnswer == [found |-> <<>>, suggestions |-> <<>>, reexported |-> <<>>]
Found(item) == [NoAnswer EXCEPT !.found = <<item>>]

\* The shortest paths first, and not too many.
Shortlist(items) ==
  LET sorted == SortSeq(items, LAMBDA l, r :
                  \/ Len(l.path) < Len(r.path)
                  \/ (Len(l.path) = Len(r.path) /\ Precedes(l.path, r.path)))
  IN SubSeq(sorted, 1, Min({MaxSuggestions, Len(sorted)}))
Suggest(items) == [NoAnswer EXCEPT !.suggestions = Shortlist(items)]
Elsewhere(reexports) ==
  [NoAnswer EXCEPT !.reexported = SubSeq(reexports, 1, Min({MaxSuggestions, Len(reexports)}))]

\* resolve: nothing, the one item, or the shortlist.
Resolve(items) ==
  IF items = <<>> THEN NoAnswer
  ELSE IF Len(items) = 1 THEN Found(items[1]) ELSE Suggest(items)

\* Each step is tried only when the ones before it have no answer.
FirstOf(steps) ==
  LET answered == {i \in DOMAIN steps : steps[i] # NoAnswer} IN
  IF answered = {} THEN NoAnswer ELSE steps[Min(answered)]

-----------------------------------------------------------------------------
(* assemble: the orderings and the filter an index carries *)

LoweredName(item) == Lowered(LastSegment(item.path))

Paths(index) == [i \in DOMAIN index.items |-> index.items[i].path]
Names(index) == [i \in DOMAIN index.items |-> LoweredName(index.items[i])]
ReexportNames(index) == [i \in DOMAIN index.reexports |-> Lowered(index.reexports[i].name)]

\* Mutant of ByName: the names keep their case.
ByNameAsWritten(index) == Sorted([i \in DOMAIN index.items |-> LastSegment(index.items[i].path)])

ByName(index) == Sorted(Names(index))
ReexportsByName(index) == Sorted(ReexportNames(index))

Windows(s) == {SubSeq(s, i, i + 2) : i \in 1 .. Len(s) - 2}
Slot(window) == (window[1] * 5 + window[2] * 3 + window[3]) % Slots

\* trigrams_of the arena: all lowercase paths, one after the other.
Trigrams(index) ==
  LET arena == FlattenSeq([i \in DOMAIN index.items |-> Lowered(index.items[i].path)]) IN
  {Slot(w) : w \in Windows(arena)}

-----------------------------------------------------------------------------
(* lookup *)

\* could_contain
CouldContain(index, lowered) == \A w \in Windows(lowered) : Slot(w) \in Trigrams(index)

\* binary_search_by over the paths, in which the items lie in order.
Exactly(index, query) == Stretch([i \in DOMAIN index.items |-> i], Paths(index), query)

Named(index, lowered) ==
  Picked(index.items, Stretch(ByName(index), Names(index), lowered))

ReexportedAs(index, query) ==
  Picked(index.reexports,
         Stretch(ReexportsByName(index), ReexportNames(index), Lowered(LastSegment(query))))

Lookup(index, raw) ==
  LET query == Stripped(raw)
      lowered == Lowered(query)
      exact == Exactly(index, query)
      named == Named(index, Lowered(LastSegment(query)))
      bySuffix == Those(named, {i \in DOMAIN named : IsSuffix(Separator \o query, named[i].path)})
      fuzzy == {i \in DOMAIN index.items : Within(lowered, Lowered(index.items[i].path))}
  IN IF query = <<>> THEN NoAnswer
     ELSE FirstOf(<<IF exact = <<>> THEN NoAnswer ELSE Found(index.items[exact[1]]),
                    Resolve(bySuffix),
                    Resolve(Named(index, lowered)),
                    Elsewhere(ReexportedAs(index, query)),
                    Suggest(IF CouldContain(index, lowered) THEN Those(index.items, fuzzy)
                                                            ELSE <<>>)>>)

\* lookup_linear: the same ladder, every step a pass over all items.
LookupLinear(index, raw) ==
  LET query == Stripped(raw)
      lowered == Lowered(query)
      exact == {i \in DOMAIN index.items : index.items[i].path = query}
      bySuffix == {i \in DOMAIN index.items : IsSuffix(Separator \o query, index.items[i].path)}
      named == {i \in DOMAIN index.items : LoweredName(index.items[i]) = lowered}
      reexported == {i \in DOMAIN index.reexports :
                       Lowered(index.reexports[i].name) = Lowered(LastSegment(query))}
      fuzzy == {i \in DOMAIN index.items : Within(lowered, Lowered(index.items[i].path))}
  IN IF query = <<>> THEN NoAnswer
     ELSE FirstOf(<<IF exact = {} THEN NoAnswer ELSE Found(index.items[Min(exact)]),
                    Resolve(Those(index.items, bySuffix)),
                    Resolve(Those(index.items, named)),
                    Elsewhere(Those(index.reexports, reexported)),
                    Suggest(Those(index.items, fuzzy))>>)
=============================================================================
