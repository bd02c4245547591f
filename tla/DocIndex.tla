------------------------------- MODULE DocIndex -------------------------------
(***************************************************************************)
(* From a rustdoc document to an index (crates-io-client, docs.rs:         *)
(* DocIndex::build), by several parses of one document.                    *)
(*                                                                         *)
(* The document's tables are hash maps seeded per table, so each parse     *)
(* visits their entries in an order of its own.  It collects a row per     *)
(* item of the crate and per method or associated item, and a row per      *)
(* re-export, up to a ceiling; then it sorts, keeps one row per path and   *)
(* lays the index out in that order.                                       *)
(*                                                                         *)
(* In a document ids, crates, kinds and prose are numbers, each standing   *)
(* for a text of that length, in the order of these texts; prose 0 is no   *)
(* prose.  Paths and names are texts of DocLookup.tla; a path is its       *)
(* segments joined.                                                        *)
(***************************************************************************)
EXTENDS DocLookup, DocArenas

CONSTANTS
  Parses,     \* parses of the document
  Documents,  \* the documents that may be parsed
  MaxItems,   \* MAX_ITEMS
  Queries,    \* what callers may look up
  AnyArrival  \* bound, when FALSE: rows are collected in one of two orders only

Scalar == [scalar |-> TRUE]

ASSUME IndexConstants ==
  /\ MaxItems \in Nat \ {0}
  /\ AnyArrival \in BOOLEAN
  /\ \A query \in Queries : query \in Seq(Nat)
  /\ \A d \in Documents :
       /\ IsFiniteSet(DOMAIN d.paths) /\ IsFiniteSet(DOMAIN d.index)
       /\ d.paths \in [DOMAIN d.paths -> [crate : Nat, path : Seq(Nat), kind : Nat]]
       /\ \A id \in DOMAIN d.index :
          /\ d.index[id].name \in Seq(Nat) /\ d.index[id].kind \in Nat
          /\ d.index[id].docs \in Nat /\ d.index[id].deprecated \in BOOLEAN
          /\ d.index[id].body \in [members : Seq(Nat), impls : Seq(Nat), ofTrait : BOOLEAN,
                                target : Nat, alias : Seq(Nat)] \cup {Scalar}

\* No three colons in a row: the pairs that join segments are where they seem to be.
Unambiguous(path) ==
  \A i \in 1 .. Len(path) - 2 :
    ~(path[i] = Colon /\ path[i + 1] = Colon /\ path[i + 2] = Colon)

\* Segments and names are identifiers, as rustdoc's are: the colons of a path join them.
ASSUME PathConstants ==
  \A d \in Documents :
    /\ \A id \in DOMAIN d.paths :
         LET path == d.paths[id].path IN
         Unambiguous(path) /\ (path # <<>> => path[Len(path)] # Colon)
    /\ \A id \in DOMAIN d.index :
         \A i \in DOMAIN d.index[id].name : d.index[id].name[i] # Colon

VARIABLES
  document,  \* the document all parses read
  stage,     \* where each parse is
  unseen,    \* the entries of the paths table a parse has yet to visit
  items,     \* the rows a parse has collected, without repetitions
  count,     \* how many it has collected, with repetitions
  reexports, \* the re-exports it has collected, without repetitions
  truncated, \* whether it stopped early
  index      \* what it built

buildVars == <<document, stage, unseen, items, count, reexports, truncated, index>>

Unbuilt == ToStored(LayOut(<<>>, <<>>))

BuildInit ==
  /\ document \in Documents
  /\ stage = [p \in Parses |-> "items"]
  /\ unseen = [p \in Parses |-> DOMAIN document.paths]
  /\ items = [p \in Parses |-> {}]
  /\ count = [p \in Parses |-> 0]
  /\ reexports = [p \in Parses |-> {}]
  /\ truncated = [p \in Parses |-> FALSE]
  /\ index = [p \in Parses |-> Unbuilt]

-----------------------------------------------------------------------------
(* The rows of a document *)

\* An entry of the index table has docs and deprecation, a name, unless it is empty,
\* and an inner: the word and the number of its kind, and a body, or Scalar.  The word
\* is "none" for an entry that has no inner.
Text(n) == [i \in 1 .. n |-> n]

Known(id) == id \in DOMAIN document.index
Entry(id) == document.index[id]

Row(path, kind, id) ==
  [path |-> path, kind |-> Text(kind),
   docs |-> Text(IF Known(id) THEN Entry(id).docs ELSE 0),
   deprecated |-> Known(id) /\ Entry(id).deprecated]

\* Mutant of WorthReading: what an impl block says of itself is not read.
WorthReadingLess == {"trait", "struct", "enum", "union", "use"}

\* KINDS_WITH_A_BODY_WORTH_READING
WorthReading == {"trait", "struct", "enum", "union", "impl", "use"}

NoBody == [members |-> <<>>, impls |-> <<>>, ofTrait |-> FALSE, target |-> 0, alias |-> <<>>]

\* What deserializing an entry keeps of its body.
Body(id) ==
  IF Entry(id).kindName \in WorthReading /\ Entry(id).body # Scalar
    THEN Entry(id).body ELSE NoBody

\* A block the document has, that implements no trait.
Inherent(id) == Known(id) /\ Entry(id).kindName # "none" /\ ~Body(id).ofTrait

\* The ids listed under an item: a trait's own members, a type's inherent ones.
Members(id) ==
  IF ~Known(id) THEN <<>>
  ELSE IF Entry(id).kindName = "trait" THEN Body(id).members
  ELSE IF Entry(id).kindName \notin {"struct", "enum", "union"} THEN <<>>
  ELSE LET impls == Body(id).impls IN
       FlattenSeq([i \in DOMAIN impls |->
         IF Inherent(impls[i]) THEN Body(impls[i]).members ELSE <<>>])

Nameable(id) == Known(id) /\ Entry(id).name # <<>>
MemberRow(path, id) == Row(path \o Separator \o Entry(id).name, Entry(id).kind, id)

\* The positions of the members that are reached before the ceiling is.
Reached(members, room) ==
  {i \in DOMAIN members :
     Cardinality({j \in 1 .. i - 1 : Nameable(members[j])}) < room}

-----------------------------------------------------------------------------
(* build: the items *)

Local(id) == document.paths[id].crate = 0 /\ document.paths[id].path # <<>>

CutShort(members, reached) == reached # DOMAIN members

\* The next entry of the paths table, with the members of the item it names.
Visit(p) ==
  /\ stage[p] = "items"
  /\ \E id \in unseen[p] :
       \/ /\ ~Local(id)
          /\ unseen' = [unseen EXCEPT ![p] = @ \ {id}]
          /\ UNCHANGED <<items, count, truncated>>
       \/ /\ Local(id)
          /\ count[p] >= MaxItems
          /\ truncated' = [truncated EXCEPT ![p] = TRUE]
          /\ unseen' = [unseen EXCEPT ![p] = {}]
          /\ UNCHANGED <<items, count>>
       \/ /\ Local(id)
          /\ count[p] < MaxItems
          /\ LET summary == document.paths[id]
                 members == Members(id)
                 reached == Reached(members, MaxItems - count[p] - 1)
                 taken == {i \in reached : Nameable(members[i])}
             IN /\ items' = [items EXCEPT ![p] = @ \cup {Row(summary.path, summary.kind, id)}
                               \cup {MemberRow(summary.path, members[i]) : i \in taken}]
                /\ count' = [count EXCEPT ![p] = @ + 1 + Cardinality(taken)]
                /\ truncated' = [truncated EXCEPT ![p] = @ \/ CutShort(members, reached)]
          /\ unseen' = [unseen EXCEPT ![p] = @ \ {id}]
  /\ UNCHANGED <<document, stage, reexports, index>>

\* A document without items of its own is refused; otherwise the index table is next.
EndItems(p) ==
  /\ stage[p] = "items"
  /\ unseen[p] = {}
  /\ IF items[p] = {}
       THEN stage' = [stage EXCEPT ![p] = "refused"]
       ELSE stage' = [stage EXCEPT ![p] = "reexports"]
  /\ UNCHANGED <<document, unseen, items, count, reexports, truncated, index>>

-----------------------------------------------------------------------------
(* build: the re-exports *)

\* The name a use gives its target: its alias, or the entry's own name.
UseName(id) == IF Body(id).alias # <<>> THEN Body(id).alias ELSE Entry(id).name

\* A use whose target is an item of another crate the document names.
Genuine(id) ==
  /\ Entry(id).kindName = "use"
  /\ Body(id).target \in DOMAIN document.paths
  /\ document.paths[Body(id).target].crate \in document.external \ {0}
  /\ document.paths[Body(id).target].path # <<>>
  /\ UseName(id) # <<>>

ReexportRow(id) ==
  LET target == document.paths[Body(id).target] IN
  [name |-> UseName(id), crate |-> Text(target.crate), path |-> target.path,
   kind |-> Text(target.kind)]

GenuineIds == {id \in DOMAIN document.index : Genuine(id)}

\* collect_reexports: the first genuine ones of its order, up to the ceiling.
CollectReexports(p) ==
  /\ stage[p] = "reexports"
  /\ \E ids \in kSubset(Min({MaxItems, Cardinality(GenuineIds)}), GenuineIds) :
       reexports' = [reexports EXCEPT ![p] = {ReexportRow(id) : id \in ids}]
  /\ stage' = [stage EXCEPT ![p] = "sort"]
  /\ UNCHANGED <<document, unseen, items, count, truncated, index>>

-----------------------------------------------------------------------------
(* build: sort, keep one row per path, lay out *)

\* Mutants of Before: the rows of a path are left as they come; the undocumented
\* row of a path comes first.
BeforeByPath(l, r) == Precedes(l.path, r.path)
BeforeUndocumented(l, r) ==
  \/ Precedes(l.path, r.path)
  \/ l.path = r.path /\ Precedes(l.docs \o <<0>> \o l.kind, r.docs \o <<0>> \o r.kind)

\* Path, documented first, kind, prose, deprecation (0 comes before every text).
Before(l, r) ==
  LET rank(row) == <<IF row.docs = <<>> THEN 1 ELSE 0>> \o row.kind \o <<0>> \o row.docs
                     \o <<0, IF row.deprecated THEN 1 ELSE 0>>
  IN \/ Precedes(l.path, r.path)
     \/ l.path = r.path /\ Precedes(rank(l), rank(r))

ReexportBefore(l, r) ==
  \/ Precedes(l.name, r.name)
  \/ l.name = r.name /\ Precedes(l.path, r.path)
  \/ l.name = r.name /\ l.path = r.path
     /\ Precedes(l.crate \o <<0>> \o l.kind, r.crate \o <<0>> \o r.kind)

\* The keys of rows, and which places come before which.
PathKeys(rows) == [i \in DOMAIN rows |-> rows[i].path]
ItemOrder(rows) == {d \in (DOMAIN rows) \X (DOMAIN rows) : Before(rows[d[1]], rows[d[2]])}
ReexportKeys(rows) == [i \in DOMAIN rows |-> <<rows[i].name, rows[i].path>>]
ReexportOrder(rows) == {d \in (DOMAIN rows) \X (DOMAIN rows) :
                          ReexportBefore(rows[d[1]], rows[d[2]])}

\* sort_unstable and dedup: the places of one row for each key, that nothing of its key
\* comes before (any of them where the order leaves several), in order.
Deduplicated(key, before) ==
  {InOrder(kept, before) :
    kept \in {k \in SUBSET DOMAIN key :
      /\ {key[i] : i \in k} = {key[i] : i \in DOMAIN key}
      /\ \A i, j \in k : i # j => key[i] # key[j]
      /\ \A i \in k, j \in DOMAIN key : key[j] = key[i] => <<j, i>> \notin before}}

\* The orders a set of rows may have been collected in: any, or two of them.
Arrivals(rows) ==
  IF AnyArrival THEN SetToSeqs(rows) ELSE {SetToSeq(rows), Reverse(SetToSeq(rows))}

\* Sort, de-duplicate and compact what has been collected; a document with more text
\* than spans can address is refused.
Assemble(p) ==
  /\ stage[p] = "sort"
  /\ \E order \in Arrivals(items[p]), reexportOrder \in Arrivals(reexports[p]) :
       LET collected == LayOut(order, reexportOrder)
           view == View(collected)
       IN IF collected.arenas.overflowed
            THEN stage' = [stage EXCEPT ![p] = "refused"] /\ UNCHANGED index
            ELSE /\ \E kept \in Deduplicated(PathKeys(view.items), ItemOrder(view.items)),
                      keptReexports \in
                        Deduplicated(ReexportKeys(view.reexports), ReexportOrder(view.reexports)) :
                      index' = [index EXCEPT ![p] = ToStored(Compact([collected EXCEPT
                        !.items = [k \in DOMAIN kept |-> @[kept[k]]],
                        !.reexports = [k \in DOMAIN keptReexports |-> @[keptReexports[k]]]]))]
                 /\ stage' = [stage EXCEPT ![p] = "built"]
  /\ UNCHANGED <<document, unseen, items, count, reexports, truncated>>

BuildNext == \E p \in Parses : Visit(p) \/ EndItems(p) \/ CollectReexports(p) \/ Assemble(p)

BuildSpec == BuildInit /\ [][BuildNext]_buildVars

-----------------------------------------------------------------------------
(* Properties *)

Built(p) == stage[p] = "built"
ItemsOf(p) == ToSet(View(index[p]).items)
ReexportsOf(p) == ToSet(View(index[p]).reexports)

\* The members a document's item has, as rustdoc lists them: of a trait, or of the
\* blocks that implement a type itself.
RustdocMembers(id) ==
  IF ~Known(id) \/ Entry(id).body = Scalar THEN {}
  ELSE IF Entry(id).kindName = "trait" THEN ToSet(Entry(id).body.members)
  ELSE IF Entry(id).kindName \notin {"struct", "enum", "union"} THEN {}
  ELSE UNION {ToSet(Entry(block).body.members) :
         block \in {k \in ToSet(Entry(id).body.impls) :
           /\ Known(k) /\ Entry(k).kindName = "impl"
           /\ Entry(k).body # Scalar /\ ~Entry(k).body.ofTrait}}

\* Every path and every member the document has to offer.
OfferedRows ==
  LET own == {id \in DOMAIN document.paths : Local(id)} IN
  {Row(document.paths[id].path, document.paths[id].kind, id) : id \in own}
  \cup UNION {{MemberRow(document.paths[id].path, member) :
                 member \in {k \in RustdocMembers(id) : Nameable(k)}} : id \in own}

\* Parses are in known places, and hold no more rows than the ceiling.
BuildTypeOK ==
  /\ document \in Documents
  /\ stage \in [Parses -> {"items", "reexports", "sort", "built", "refused"}]
  /\ unseen \in [Parses -> SUBSET DOMAIN document.paths]
  /\ count \in [Parses -> 0 .. MaxItems]
  /\ truncated \in [Parses -> BOOLEAN]
  /\ \A p \in Parses : IsFiniteSet(items[p]) /\ Cardinality(items[p]) <= count[p]

\* "The same document produces the same bytes, however the hash maps it was
\* collected through were seeded" (docs.rs compact, and the order in build):
\* two parses build the same index, below the two ceilings.  Above them they need
\* not; see the README.
SameIndex ==
  \A p, q \in Parses :
    Built(p) /\ Built(q) /\ ~truncated[p] /\ ~truncated[q]
      /\ Cardinality(GenuineIds) <= MaxItems => index[p] = index[q]

\* An index that does not say it was cut short has everything: each path the
\* document offers, with its documentation when any of its rows has some (docs.rs
\* is_truncated, and "the entry carrying documentation wins" in build).
Complete ==
  \A p \in Parses : Built(p) /\ ~truncated[p] =>
    \A row \in OfferedRows : \E item \in ItemsOf(p) :
      item.path = row.path /\ (row.docs # <<>> => item.docs # <<>>)

\* A row says after sorting, compacting and storing what it said when it was collected,
\* in whatever order that was: no span names another row's text, and a document with
\* more text than spans can address gives no index at all (docs.rs Arenas::push: it
\* "would quietly name the wrong text instead of failing").
SpansHold ==
  \A p \in Parses : Built(p) =>
    ItemsOf(p) \subseteq items[p] /\ ReexportsOf(p) \subseteq reexports[p]

\* The lookup over sorted names, partition points and the trigram filter answers
\* every query as four passes over all items would (docs.rs lookup,
\* lookup_linear), also over an index cut short.
LookupAgrees ==
  \A p \in Parses : Built(p) /\ (\A q \in Parses \ {p} : unseen[q] = DOMAIN document.paths) =>
    LET view == View(index[p]) IN
    \A query \in Queries : Lookup(view, query) = LookupLinear(view, query)
=============================================================================
