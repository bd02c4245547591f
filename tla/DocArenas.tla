------------------------------ MODULE DocArenas ------------------------------
(***************************************************************************)
(* Where an index keeps its text (crates-io-client, docs.rs: Span, Arenas, *)
(* StoredIndex).  Every path, kind, comment and name lies in one of four   *)
(* arenas, and a row holds spans of them; a span addresses an arena of at  *)
(* most SpanMax characters.  Rows are collected in one order, sorted, and  *)
(* laid out again in the order they are then in.                           *)
(***************************************************************************)
EXTENDS Naturals, Sequences, SequencesExt

CONSTANT SpanMax  \* u32::MAX

ASSUME ArenaConstants == SpanMax \in Nat

NoSpan == [start |-> 0, length |-> 0]

\* Span::of
Of(span, arena) == SubSeq(arena, span.start + 1, span.start + span.length)

NoArenas ==
  [paths |-> <<>>, prose |-> <<>>, kinds |-> <<>>, reexportText |-> <<>>,
   interned |-> {}, overflowed |-> FALSE]

\* Mutant of Put: text that does not fit is left out without a word.
PutSilently(arenas, name, text) ==
  IF Len(arenas[name]) + Len(text) > SpanMax
    THEN [arenas |-> arenas, span |-> NoSpan]
    ELSE [arenas |-> [arenas EXCEPT ![name] = @ \o text],
          span |-> [start |-> Len(arenas[name]), length |-> Len(text)]]

\* Arenas::push: the arenas with this text, and where it landed.
Put(arenas, name, text) ==
  IF Len(arenas[name]) + Len(text) > SpanMax
    THEN [arenas |-> [arenas EXCEPT !.overflowed = TRUE], span |-> NoSpan]
    ELSE [arenas |-> [arenas EXCEPT ![name] = @ \o text],
          span |-> [start |-> Len(arenas[name]), length |-> Len(text)]]

\* Arenas::kind: each kind once.
PutKind(arenas, kind) ==
  LET known == {entry \in arenas.interned : entry.kind = kind}
      put == Put(arenas, "kinds", kind)
  IN IF known # {} THEN [arenas |-> arenas, span |-> (CHOOSE entry \in known : TRUE).span]
     ELSE [put EXCEPT !.arenas.interned = @ \cup {[kind |-> kind, span |-> put.span]}]

\* Arenas::item; no documentation is no span.
PutItem(laid, row) ==
  LET path == Put(laid.arenas, "paths", row.path)
      kind == PutKind(path.arenas, row.kind)
      docs == IF row.docs = <<>> THEN [arenas |-> kind.arenas, span |-> NoSpan]
              ELSE Put(kind.arenas, "prose", row.docs)
  IN [laid EXCEPT !.arenas = docs.arenas,
                  !.items = Append(@, [path |-> path.span, kind |-> kind.span,
                                       docs |-> docs.span, deprecated |-> row.deprecated])]

PutReexport(laid, row) ==
  LET name == Put(laid.arenas, "reexportText", row.name)
      crate == Put(name.arenas, "reexportText", row.crate)
      path == Put(crate.arenas, "reexportText", row.path)
      kind == Put(path.arenas, "reexportText", row.kind)
  IN [laid EXCEPT !.arenas = kind.arenas,
                  !.reexports = Append(@, [name |-> name.span, crate |-> crate.span,
                                           path |-> path.span, kind |-> kind.span])]

\* Rows of text laid out in the order they come in.
NothingLaid == [arenas |-> NoArenas, items |-> <<>>, reexports |-> <<>>]
LayOutItems(items) == FoldLeft(PutItem, NothingLaid, items)
LayOut(items, reexports) == FoldLeft(PutReexport, LayOutItems(items), reexports)

\* What a row says: DocItem and Reexport read it through its spans.
ItemOf(arenas, row) ==
  [path |-> Of(row.path, arenas.paths), kind |-> Of(row.kind, arenas.kinds),
   docs |-> Of(row.docs, arenas.prose), deprecated |-> row.deprecated]
ReexportOf(arenas, row) ==
  [name |-> Of(row.name, arenas.reexportText), crate |-> Of(row.crate, arenas.reexportText),
   path |-> Of(row.path, arenas.reexportText), kind |-> Of(row.kind, arenas.reexportText)]

View(laid) ==
  [items |-> [i \in DOMAIN laid.items |-> ItemOf(laid.arenas, laid.items[i])],
   reexports |-> [i \in DOMAIN laid.reexports |-> ReexportOf(laid.arenas, laid.reexports[i])]]

\* Arenas::compact: the same rows in fresh arenas, in the order of the rows.
Compact(laid) ==
  LET view == View(laid)
      fresh == LayOut(view.items, view.reexports)
  IN [fresh EXCEPT !.arenas.overflowed = @ \/ laid.arenas.overflowed]

\* to_stored and from_stored: what is written and read back is the arenas and the rows;
\* orderings and filter are made again from them.
ToStored(laid) ==
  [arenas |-> [laid.arenas EXCEPT !.interned = {}], items |-> laid.items,
   reexports |-> laid.reexports]
=============================================================================
