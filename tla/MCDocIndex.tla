------------------------------ MODULE MCDocIndex ------------------------------
(***************************************************************************)
(* Documents of the crate "a" with a type a::B and what may be found       *)
(* beside it: an item whose path differs from a method's only in its row,  *)
(* a module and a trait whose names differ from the type's in case, an     *)
(* item twice, members nobody knows or named, trait implementations, uses. *)
(***************************************************************************)
EXTENDS DocIndex, TLC

Colons == Separator
B == <<2>>
b == <<12>>
ab == <<11, 12>>
Root == <<11>>

Plain(kind, docs, deprecated) ==
  [kindName |-> "function", name |-> b, kind |-> kind, docs |-> docs, deprecated |-> deprecated,
   body |-> Scalar]
Summary(crate, path, kind) == [crate |-> crate, path |-> path, kind |-> kind]

Typed(kindName) ==
  [Plain(3, 2, FALSE) EXCEPT !.kindName = kindName, !.name = B,
                             !.body = [NoBody EXCEPT !.impls = <<20, 99, 21>>]]
Block(ofTrait, members) ==
  [Plain(0, 0, FALSE) EXCEPT !.kindName = "impl", !.name = <<>>,
                             !.body = [NoBody EXCEPT !.ofTrait = ofTrait, !.members = members]]
Use(name, alias, target) ==
  [Plain(4, 0, FALSE) EXCEPT !.kindName = "use", !.name = name,
                             !.body = [NoBody EXCEPT !.target = target, !.alias = alias]]
TraitB(members) ==
  [Plain(1, 1, FALSE) EXCEPT !.kindName = "trait", !.body = [NoBody EXCEPT !.members = members]]

\* What a::B::b is, when an entry of the paths table has its path too: just what the
\* method is, deprecated, documented, or of another kind.
Twins == {Plain(2, 0, FALSE), Plain(2, 0, TRUE), Plain(2, 2, TRUE),
          Plain(1, 0, TRUE), Plain(1, 2, FALSE)}

\* Paths a::B (1), a::B::b (2) or a::b (3), a trait or module a::b (4), foreign
\* items (5, 6); the uses are 30 and 31.
MCDocuments ==
  {[paths |-> 1 :> Summary(0, Root \o Colons \o B, 3) @@ 2 :> Summary(0, twin, 1)
      @@ 4 :> Summary(0, Root \o Colons \o ab, 2)
      @@ 5 :> Summary(1, <<13>> \o Colons \o b, 3) @@ 6 :> Summary(2, <<14>> \o Colons \o b, 3),
    index |-> 1 :> Typed(IF members = <<>> THEN "union" ELSE "struct") @@ 2 :> entry @@ 4 :> TraitB(members)
      @@ 20 :> Block(FALSE, <<22, 98, 23>>) @@ 21 :> Block(TRUE, <<24>>)
      @@ 22 :> Plain(2, 0, FALSE) @@ 23 :> [Plain(2, 1, FALSE) EXCEPT !.name = ab]
      @@ 24 :> [Plain(2, 1, FALSE) EXCEPT !.name = B]
      @@ 30 :> Use(ab, B, 5) @@ 31 :> Use(used, <<>>, 6),
    external |-> {1, 2}] :
   twin \in {Root \o Colons \o B \o Colons \o b, Root \o Colons \o b},
   entry \in Twins,
   <<members, used>> \in {<< <<>>, ab >>, << <<22>>, B >>, << <<23, 22>>, B >>, << <<23, 22>>, ab >>}}

\* A document of other crates' items only.
Foreign == [paths |-> 5 :> Summary(1, b, 3), index |-> 30 :> Use(B, <<>>, 5), external |-> {1}]

MCDocumentsAndForeign == MCDocuments \cup {Foreign}

Letters == {Colon, 2, 11, 12}
MCQueries ==
  UNION {[1 .. n -> Letters] : n \in 0 .. 2}
  \cup {c \o Colons : c \in {B, b}} \cup {Colons \o c : c \in {B, b}}
  \cup {<<2, 2, 2>>, <<11, 12, 2>>, <<1, 12>> \o ab}
  \cup {s \o Colons \o t : s \in {B, b, ab, <<>>}, t \in {B, b, ab}}
  \cup {Root \o Colons \o s \o t : s \in {B, b, ab}, t \in {<<>>, Colons, Colons \o b}}
=============================================================================
