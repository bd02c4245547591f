------------------------------ MODULE DocProofs ------------------------------
(***************************************************************************)
(* The documentation pipeline never parses what it has at hand and never   *)
(* parses for more callers at once than was permitted, for any number of   *)
(* callers, releases and permits, whatever is evicted, fails, is dropped,  *)
(* pruned or restarted.                                                    *)
(*                                                                         *)
(* An index built from a document, for any documents, parses and ceiling:  *)
(* says of a row what the document said; depends on the set of rows only;  *)
(* has everything on offer unless it says it was cut short.  Whatever is   *)
(* looked up in it, the answer is that of passes over all its rows.  The   *)
(* lemmas go from the text spans address, by the order rows are put in, to *)
(* the rows of a document, the steps of a parse, and lists sorted by name. *)
(***************************************************************************)
EXTENDS DocPipeline, DocIndex, Induction, SequenceTheorems

-----------------------------------------------------------------------------
(* The documentation pipeline *)

\* A subset of the callers is finite, and taking one more of them counts one
\* more at most: what the semaphore's count rests on.
LEMMA CountFacts ==
  ASSUME NEW S \in SUBSET Tasks, NEW T \in SUBSET Tasks
  PROVE  /\ Cardinality(S) \in Nat
         /\ S \subseteq T => Cardinality(S) <= Cardinality(T)
         /\ \A t \in Tasks : T \subseteq S \cup {t} => Cardinality(T) <= Cardinality(S) + 1
<1>1. IsFiniteSet(Tasks) BY PipelineConstants
<1>2. IsFiniteSet(S) /\ IsFiniteSet(T) BY <1>1, FS_Subset
<1>3. Cardinality(S) \in Nat BY <1>2, FS_CardinalityType
<1>4. S \subseteq T => Cardinality(S) <= Cardinality(T) BY <1>2, FS_Subset
<1>5. ASSUME NEW t \in Tasks, T \subseteq S \cup {t}
      PROVE  Cardinality(T) <= Cardinality(S) + 1
  <2>1. IsFiniteSet(S \cup {t}) /\ Cardinality(S \cup {t}) <= Cardinality(S) + 1
    BY <1>2, <1>3, FS_AddElement
  <2>2. Cardinality(T) <= Cardinality(S \cup {t}) BY <2>1, <1>5, FS_Subset
  <2>3. Cardinality(T) \in Nat /\ Cardinality(S \cup {t}) \in Nat BY <1>2, <2>1, FS_CardinalityType
  <2>. QED BY <2>1, <2>2, <2>3, <1>3
<1>. QED BY <1>3, <1>4, <1>5

\* The first state satisfies the invariant.
LEMMA InvariantInit == Init => IInv
<1>. SUFFICES ASSUME Init PROVE IInv OBVIOUS
<1>1. TypeOK BY PipelineConstants DEF Init, TypeOK, States, NoKey
<1>2. PermitsHeld
  <2>1. {t \in Tasks : pc[t] \in Permitted} = {} BY DEF Init, Permitted
  <2>. QED BY <2>1, FS_EmptySet, PipelineConstants DEF PermitsHeld
<1>3. OnePastGate /\ LookedUnderGate /\ NoNeedlessParse
  BY DEF Init, OnePastGate, LookedUnderGate, NoNeedlessParse, Inside, Looked
<1>4. OneGate BY DEF Init, OneGate
<1>. QED BY <1>1, <1>2, <1>3, <1>4 DEF IInv

\* Every step keeps the variables in their types; the semaphore's permits go to
\* one call at a time, so they are never exceeded.
LEMMA TypeStep == TypeOK /\ [Next]_vars => TypeOK'
<1>. SUFFICES ASSUME TypeOK, [Next]_vars PROVE TypeOK' OBVIOUS
<1>. USE DEF TypeOK, States, Inside, Looked, Goto, Return
<1>0. NoKey \in Releases BY PipelineConstants DEF NoKey
<1>1. ASSUME NEW t \in Tasks, Call(t) PROVE TypeOK' BY <1>1 DEF Call
<1>2. ASSUME NEW t \in Tasks, Lock(t) PROVE TypeOK' BY <1>2 DEF Lock
<1>3. ASSUME NEW t \in Tasks, Recheck(t) PROVE TypeOK' BY <1>0, <1>3 DEF Recheck
<1>4. ASSUME NEW t \in Tasks, ReadDisk(t) PROVE TypeOK' BY <1>0, <1>4 DEF ReadDisk
<1>5. ASSUME NEW t \in Tasks, EndFetch(t) PROVE TypeOK' BY <1>0, <1>5 DEF EndFetch, Fetched, FetchFails
<1>6. ASSUME NEW t \in Tasks, Permit(t) PROVE TypeOK' BY <1>6 DEF Permit
<1>7. ASSUME NEW t \in Tasks, EndParse(t) PROVE TypeOK' BY <1>0, <1>7 DEF EndParse, Parsed, ParseFails
<1>8. ASSUME NEW t \in Tasks, Stored(t) PROVE TypeOK' BY <1>0, <1>8 DEF Stored
<1>9. ASSUME NEW t \in Tasks, Cancel(t) PROVE TypeOK' BY <1>0, <1>9 DEF Cancel
<1>10. ASSUME NEW r \in Releases, LooseParseEnds(r) PROVE TypeOK' BY <1>10 DEF LooseParseEnds
<1>11. ASSUME NEW r \in Releases, LooseStoreEnds(r) PROVE TypeOK' BY <1>11 DEF LooseStoreEnds, Land
<1>12. ASSUME NEW r \in Releases, Evict(r) PROVE TypeOK' BY <1>12 DEF Evict
<1>13. ASSUME NEW r \in Releases, ForgetGate(r) PROVE TypeOK' BY <1>13 DEF ForgetGate
<1>14. ASSUME NEW r \in Releases, Prune(r) PROVE TypeOK' BY <1>14 DEF Prune
<1>15. ASSUME Restart PROVE TypeOK' BY <1>0, <1>15 DEF Restart
<1>16. ASSUME UNCHANGED vars PROVE TypeOK' BY <1>16 DEF vars
<1>17. ASSUME NEW r \in Releases, OthersStore(r) PROVE TypeOK' BY <1>17 DEF OthersStore, Land
<1>. QED
  BY <1>1, <1>2, <1>3, <1>4, <1>5, <1>6, <1>7, <1>8, <1>9, <1>10, <1>11, <1>12, <1>13,
     <1>14, <1>15, <1>16, <1>17 DEF Next

\* The semaphore: a permit is taken only while one is free, and every other
\* step keeps or gives back permits.
LEMMA PermitsStep == TypeOK /\ PermitsHeld /\ [Next]_vars => PermitsHeld'
<1>. SUFFICES ASSUME TypeOK, PermitsHeld, [Next]_vars PROVE PermitsHeld' OBVIOUS
<1>. DEFINE Holding == {t \in Tasks : pc[t] \in Permitted}
<1>1. Holding' = {t \in Tasks : pc'[t] \in Permitted} OBVIOUS
<1>2. ASSUME Holding' \subseteq Holding PROVE PermitsHeld'
  <2>1. Cardinality(Holding') <= Cardinality(Holding) /\ Cardinality(Holding') \in Nat
        /\ Cardinality(Holding) \in Nat
    BY <1>2, CountFacts
  <2>. QED BY <2>1, PipelineConstants DEF PermitsHeld
<1>3. ASSUME NEW t \in Tasks, Permit(t) PROVE PermitsHeld'
  <2>1. Cardinality(Holding) < Permits BY <1>3 DEF Permit
  <2>2. Holding' \subseteq Holding \cup {t} BY <1>3 DEF Permit, Goto, TypeOK
  <2>3. Cardinality(Holding') <= Cardinality(Holding) + 1 /\ Cardinality(Holding') \in Nat
        /\ Cardinality(Holding) \in Nat
    BY <2>2, CountFacts
  <2>. QED BY <2>1, <2>3, PipelineConstants DEF PermitsHeld
<1>4. ASSUME NEW t \in Tasks,
             Call(t) \/ Lock(t) \/ Recheck(t) \/ ReadDisk(t) \/ EndFetch(t)
               \/ EndParse(t) \/ Stored(t) \/ Cancel(t)
      PROVE  Holding' \subseteq Holding
  BY <1>4 DEF TypeOK, Permitted, Goto, Return, Call, Lock, Recheck, ReadDisk, EndFetch, Fetched,
     FetchFails, EndParse, Parsed, ParseFails, Stored, Cancel
<1>5. ASSUME \/ Restart \/ UNCHANGED vars
             \/ \E r \in Releases : LooseParseEnds(r) \/ LooseStoreEnds(r) \/ Evict(r)
                                      \/ ForgetGate(r) \/ OthersStore(r) \/ Prune(r)
      PROVE  Holding' \subseteq Holding
  BY <1>5 DEF TypeOK, Permitted, Restart, vars, LooseParseEnds, LooseStoreEnds, Land,
     OthersStore, Evict, ForgetGate, Prune
<1>. QED BY <1>2, <1>3, <1>4, <1>5 DEF Next

\* The gate: a call passes only while nobody else is past the same gate.
LEMMA GateStep == TypeOK /\ OnePastGate /\ [Next]_vars => OnePastGate'
<1>. SUFFICES ASSUME TypeOK, OnePastGate, [Next]_vars PROVE OnePastGate' OBVIOUS
<1>. USE DEF OnePastGate, Inside, Looked, TypeOK, Goto, Return
<1>1. ASSUME NEW t \in Tasks, Call(t) PROVE OnePastGate' BY <1>1 DEF Call
<1>2. ASSUME NEW t \in Tasks, Lock(t) PROVE OnePastGate' BY <1>2 DEF Lock
<1>3. ASSUME NEW t \in Tasks,
             Recheck(t) \/ ReadDisk(t) \/ EndFetch(t) \/ Permit(t) \/ EndParse(t) \/ Stored(t)
               \/ Cancel(t)
      PROVE  OnePastGate'
  BY <1>3 DEF Recheck, ReadDisk, EndFetch, Fetched, FetchFails, Permit, EndParse, Parsed,
     ParseFails, Stored, Cancel
<1>4. ASSUME \/ Restart \/ UNCHANGED vars
             \/ \E r \in Releases : LooseParseEnds(r) \/ LooseStoreEnds(r) \/ Evict(r)
                                      \/ ForgetGate(r) \/ OthersStore(r) \/ Prune(r)
      PROVE  OnePastGate'
  BY <1>4 DEF Restart, vars, LooseParseEnds, LooseStoreEnds, Land,
     OthersStore, Evict, ForgetGate, Prune
<1>. QED BY <1>1, <1>2, <1>3, <1>4 DEF Next

\* The active calls of a release share its one gate until it is forgotten.
LEMMA OneGateStep == TypeOK /\ OneGate /\ [Next]_vars => OneGate'
<1>. SUFFICES ASSUME TypeOK, OneGate, [Next]_vars PROVE OneGate' OBVIOUS
<1>. USE DEF OneGate, TypeOK, Goto, Return
<1>1. ASSUME NEW t \in Tasks, Call(t) PROVE OneGate' BY <1>1 DEF Call
<1>2. ASSUME NEW t \in Tasks,
             Lock(t) \/ Recheck(t) \/ ReadDisk(t) \/ EndFetch(t) \/ Permit(t) \/ EndParse(t)
               \/ Stored(t) \/ Cancel(t)
      PROVE  OneGate'
  BY <1>2 DEF Lock, Recheck, ReadDisk, EndFetch, Fetched, FetchFails, Permit, EndParse,
     Parsed, ParseFails, Stored, Cancel
<1>3. ASSUME NEW r \in Releases, ForgetGate(r) PROVE OneGate' BY <1>3 DEF ForgetGate
<1>4. ASSUME \/ Restart \/ UNCHANGED vars
             \/ \E r \in Releases : LooseParseEnds(r) \/ LooseStoreEnds(r) \/ Evict(r)
                                      \/ OthersStore(r) \/ Prune(r)
      PROVE  OneGate'
  BY <1>4 DEF Restart, vars, LooseParseEnds, LooseStoreEnds, Evict, OthersStore, Prune
<1>. QED BY <1>1, <1>2, <1>3, <1>4 DEF Next

\* Whoever puts an index at hand for an answer is past the release's one gate, so
\* nobody else is on the way to parse it; a store that lands otherwise finds the
\* calls it passes by unaware of it.
LEMMA AtHandStep == IInv /\ [Next]_vars => (LookedUnderGate /\ NoNeedlessParse)'
<1>. SUFFICES ASSUME IInv, [Next]_vars PROVE (LookedUnderGate /\ NoNeedlessParse)'
  OBVIOUS
<1>. USE DEF LookedUnderGate, NoNeedlessParse, Looked, TypeOK, Goto, Return
<1>0. TypeOK /\ OnePastGate /\ OneGate /\ LookedUnderGate /\ NoNeedlessParse
  BY DEF IInv
<1>1. ASSUME NEW t \in Tasks, NEW u \in Tasks, t # u, pc[t] \in Inside, pc[u] \in Inside,
             key[t] \notin doubled
      PROVE  key[t] # key[u]
  BY <1>0, <1>1 DEF OnePastGate, OneGate, Inside
<1>2. ASSUME NEW t \in Tasks, Call(t) \/ Lock(t) PROVE (LookedUnderGate /\ NoNeedlessParse)'
  BY <1>0, <1>2 DEF Call, Lock
<1>3. ASSUME NEW t \in Tasks, Recheck(t) PROVE (LookedUnderGate /\ NoNeedlessParse)'
  BY <1>0, <1>3 DEF Recheck
<1>4. ASSUME NEW t \in Tasks, ReadDisk(t) PROVE (LookedUnderGate /\ NoNeedlessParse)'
  BY <1>0, <1>1, <1>4 DEF ReadDisk, Inside
<1>5. ASSUME NEW t \in Tasks, EndFetch(t) \/ Permit(t) PROVE (LookedUnderGate /\ NoNeedlessParse)'
  BY <1>0, <1>5 DEF EndFetch, Fetched, FetchFails, Permit
<1>6. ASSUME NEW t \in Tasks, EndParse(t) PROVE (LookedUnderGate /\ NoNeedlessParse)'
  BY <1>0, <1>1, <1>6 DEF EndParse, Parsed, ParseFails, Inside
<1>7. ASSUME NEW t \in Tasks, Stored(t) PROVE (LookedUnderGate /\ NoNeedlessParse)'
  BY <1>0, <1>1, <1>7 DEF Stored, Inside
<1>8. ASSUME NEW t \in Tasks, Cancel(t) PROVE (LookedUnderGate /\ NoNeedlessParse)'
  BY <1>0, <1>8 DEF Cancel
<1>9. ASSUME NEW r \in Releases, LooseStoreEnds(r) \/ OthersStore(r)
      PROVE  (LookedUnderGate /\ NoNeedlessParse)'
  BY <1>0, <1>9 DEF LooseStoreEnds, OthersStore, Land
<1>10. ASSUME NEW r \in Releases, ForgetGate(r) PROVE (LookedUnderGate /\ NoNeedlessParse)'
  BY <1>0, <1>10 DEF ForgetGate
<1>11. ASSUME \/ Restart \/ UNCHANGED vars
              \/ \E r \in Releases : LooseParseEnds(r) \/ Evict(r) \/ Prune(r)
       PROVE  (LookedUnderGate /\ NoNeedlessParse)'
  BY <1>0, <1>11 DEF Restart, vars, LooseParseEnds, Evict, Prune
<1>. QED BY <1>2, <1>3, <1>4, <1>5, <1>6, <1>7, <1>8, <1>9, <1>10, <1>11 DEF Next

\* The whole invariant holds in every reachable state.
LEMMA Inductive == Spec => []IInv
<1>1. IInv /\ [Next]_vars => IInv'
  BY TypeStep, PermitsStep, GateStep, OneGateStep, AtHandStep DEF IInv
<1>. QED BY InvariantInit, <1>1, PTL DEF Spec

\* The variables keep their types (lib.rs Client).
THEOREM TypeCorrect == Spec => []TypeOK
<1>1. IInv => TypeOK BY DEF IInv
<1>. QED BY Inductive, <1>1, PTL

\* No document is fetched or parsed while its index is in memory or on disk, but
\* for a release whose gate was forgotten and, on disk, but for a call that could
\* not read the disk or that the store of a dropped call or of another server
\* passed by (lib.rs doc_index: the second look under the gate, then the disk).
THEOREM NeverParsedNeedlessly == Spec => []NoNeedlessParse
<1>1. IInv => NoNeedlessParse BY DEF IInv
<1>. QED BY Inductive, <1>1, PTL

\* No more documents are parsed for callers at the same time than were permitted
\* (config.rs concurrent_doc_parses).
THEOREM ParsesBounded == Spec => []PermitsHeld
<1>1. IInv => PermitsHeld BY DEF IInv
<1>. QED BY Inductive, <1>1, PTL

-----------------------------------------------------------------------------
(* How much text there is *)

\* One piece for each character of each of some things, where w says how many each has.
Pieces(w, S) == UNION {{x} \X (1 .. w[x]) : x \in S}
Weight(w, S) == Cardinality(Pieces(w, S))

\* The pieces of one thing.
LEMMA OnePiece ==
  ASSUME NEW x, NEW n \in Nat
  PROVE  IsFiniteSet({x} \X (1 .. n)) /\ Cardinality({x} \X (1 .. n)) = n
<1>1. IsFiniteSet({x}) /\ Cardinality({x}) = 1
  BY FS_Singleton
<1>2. IsFiniteSet(1 .. n) /\ Cardinality(1 .. n) = n
  <2>1. 1 \in Int /\ n \in Int
    OBVIOUS
  <2> QED BY <2>1, FS_Interval
<1>3. IsFiniteSet({x} \X (1 .. n)) /\ Cardinality({x} \X (1 .. n)) = Cardinality({x}) * Cardinality(1 .. n)
  BY <1>1, <1>2, FS_Product
<1> QED
  BY <1>1, <1>2, <1>3

\* Finitely many things have finitely many pieces, and fewer things have fewer.
LEMMA WeightIs ==
  ASSUME NEW S, IsFiniteSet(S), NEW w, \A x \in S : w[x] \in Nat
  PROVE  /\ IsFiniteSet(Pieces(w, S)) /\ Weight(w, S) \in Nat
         /\ \A T \in SUBSET S : Weight(w, T) \in Nat /\ Weight(w, T) <= Weight(w, S)
<1>1. IsFiniteSet(Pieces(w, S))
  <2>1. PICK heaps : heaps = {{x} \X (1 .. w[x]) : x \in S}
    OBVIOUS
  <2>2. PICK f : f = [x \in S |-> {x} \X (1 .. w[x])]
    OBVIOUS
  <2>3. f \in Surjection(S, heaps)
    BY <2>1, <2>2 DEF Surjection
  <2>4. IsFiniteSet(heaps)
    BY <2>3, FS_Surjection
  <2>5. \A heap \in heaps : IsFiniteSet(heap)
    <3> SUFFICES ASSUME NEW x \in S PROVE IsFiniteSet({x} \X (1 .. w[x]))
      BY <2>1
    <3>1. w[x] \in Nat
      OBVIOUS
    <3> QED BY <3>1, OnePiece
  <2>6. IsFiniteSet(UNION heaps)
    BY <2>4, <2>5, FS_UNION
  <2> QED BY <2>1, <2>6 DEF Pieces
<1>2. ASSUME NEW T \in SUBSET S
      PROVE  Weight(w, T) \in Nat /\ Weight(w, T) <= Weight(w, S)
  <2>1. Pieces(w, T) \subseteq Pieces(w, S)
    BY DEF Pieces
  <2>2. IsFiniteSet(Pieces(w, T)) /\ Cardinality(Pieces(w, T)) <= Cardinality(Pieces(w, S))
    BY <1>1, <2>1, FS_Subset
  <2> QED BY <2>2, FS_CardinalityType DEF Weight
<1> QED
  BY <1>1, <1>2

\* Nothing weighs nothing.
LEMMA WeightOfNothing ==
  ASSUME NEW w
  PROVE  Weight(w, {}) = 0
<1>1. Pieces(w, {}) = {}
  BY DEF Pieces
<1> QED
  BY <1>1, FS_EmptySet DEF Weight

\* One thing more adds what it weighs.
LEMMA WeightAdds ==
  ASSUME NEW S, IsFiniteSet(S), NEW w, \A x \in S : w[x] \in Nat, NEW y, y \notin S, w[y] \in Nat
  PROVE  Weight(w, S \cup {y}) = Weight(w, S) + w[y]
<1>1. PICK P : P = Pieces(w, S)
  OBVIOUS
<1>2. PICK Q : Q = {y} \X (1 .. w[y])
  OBVIOUS
<1>3. Pieces(w, S \cup {y}) = P \cup Q
  BY <1>1, <1>2 DEF Pieces
<1>4. P \cap Q = {}
  BY <1>1, <1>2 DEF Pieces
<1>5. IsFiniteSet(P) /\ IsFiniteSet(Q) /\ Cardinality(Q) = w[y]
  BY <1>1, <1>2, WeightIs, OnePiece
<1>6. Cardinality(P \cup Q) = Cardinality(P) + Cardinality(Q) - Cardinality(P \cap Q)
  BY <1>5, FS_Union
<1>7. Cardinality(P \cap Q) = 0
  BY <1>4, FS_EmptySet
<1>8. Cardinality(P) \in Nat
  BY <1>5, FS_CardinalityType
<1>9. Weight(w, S \cup {y}) = Cardinality(P \cup Q) /\ Weight(w, S) = Cardinality(P)
  BY <1>1, <1>3 DEF Weight
<1>10. Cardinality(P \cup Q) = Cardinality(P) + w[y]
  BY <1>5, <1>6, <1>7, <1>8
<1> QED
  BY <1>9, <1>10
-----------------------------------------------------------------------------
(* Text in arenas *)

Words == Seq(Nat)
Spans == [start : Nat, length : Nat]
ArenaNames == {"paths", "prose", "kinds", "reexportText"}
ArenaShapes ==
  [paths : Words, prose : Words, kinds : Words, reexportText : Words,
   interned : SUBSET [kind : Words, span : Spans], overflowed : BOOLEAN]

\* No arena is longer than spans can address.
Small(a) == \A name \in ArenaNames : Len(a[name]) <= SpanMax
ArenaSets == {a \in ArenaShapes : Small(a)}

\* The span is of the arena, and is this text; the arena only got longer.
Says(span, arena, text) ==
  span \in Spans /\ span.start + span.length <= Len(arena) /\ Of(span, arena) = text
Begins(s, t) == Len(s) <= Len(t) /\ \A i \in 1 .. Len(s) : t[i] = s[i]

\* A span of an arena says what it said when text was added behind it.
LEMMA SaysStill ==
  ASSUME NEW s \in Words, NEW t \in Words, Begins(s, t), NEW span, NEW text, Says(span, s, text)
  PROVE  Says(span, t, text)
<1>1. PICK a \in Nat, l \in Nat : a = span.start /\ l = span.length
  BY DEF Says, Spans
<1>2. a + l <= Len(s) /\ Len(s) <= Len(t) /\ Len(s) \in Nat /\ Len(t) \in Nat
  BY <1>1 DEF Says, Begins, Words
<1>3. /\ a + 1 \in 1 .. Len(s) + 1 /\ a + l \in a .. Len(s)
      /\ a + 1 \in 1 .. Len(t) + 1 /\ a + l \in a .. Len(t)
  BY <1>1, <1>2
<1>4. \A i \in (a + 1) .. (a + l) : i \in 1 .. Len(s)
  BY <1>2
<1>5. SubSeq(s, a + 1, a + l) = [i \in 1 .. l |-> s[a + i]]
  BY <1>2 DEF Words
<1>6. SubSeq(t, a + 1, a + l) = [i \in 1 .. l |-> t[a + i]]
  BY <1>2 DEF Words
<1>7. \A i \in 1 .. l : t[a + i] = s[a + i]
  <2> SUFFICES ASSUME NEW i \in 1 .. l PROVE t[a + i] = s[a + i]
    OBVIOUS
  <2>1. a + i \in 1 .. Len(s)
    BY <1>2
  <2> QED BY <2>1 DEF Begins
<1>8. SubSeq(t, a + 1, a + l) = SubSeq(s, a + 1, a + l)
  BY <1>5, <1>6, <1>7
<1>9. Of(span, s) = text /\ span \in Spans
  BY DEF Says
<1>10. Of(span, t) = text
  BY <1>1, <1>8, <1>9 DEF Of
<1>11. span.start + span.length <= Len(t)
  BY <1>1, <1>2
<1> QED
  BY <1>9, <1>10, <1>11 DEF Says

\* A text is what its own span says, behind whatever there was.
LEMMA SaysAdded ==
  ASSUME NEW arena \in Words, NEW text \in Words
  PROVE  /\ arena \o text \in Words /\ Len(arena \o text) = Len(arena) + Len(text)
         /\ Begins(arena, arena \o text)
         /\ Says([start |-> Len(arena), length |-> Len(text)], arena \o text, text)
<1>1. PICK a \in Nat, l \in Nat : a = Len(arena) /\ l = Len(text)
  BY DEF Words
<1>2. PICK t : t = arena \o text
  OBVIOUS
<1>3. /\ t \in Words /\ Len(t) = a + l
      /\ \A i \in 1 .. a : t[i] = arena[i]
      /\ \A i \in 1 .. l : t[a + i] = text[i]
  <2>1. t \in Seq(Nat) /\ Len(t) = Len(arena) + Len(text)
    BY <1>2, ConcatProperties DEF Words
  <2>2. \A i \in 1 .. Len(arena) + Len(text) :
          t[i] = IF i <= Len(arena) THEN arena[i] ELSE text[i - Len(arena)]
    BY <1>2, ConcatProperties DEF Words
  <2>3. \A i \in 1 .. a : i \in 1 .. a + l /\ i <= a
    OBVIOUS
  <2>4. \A i \in 1 .. l : a + i \in 1 .. a + l /\ ~(a + i <= a) /\ (a + i) - a = i
    OBVIOUS
  <2>5. \A i \in 1 .. a : t[i] = arena[i]
    BY <1>1, <2>2, <2>3
  <2>6. \A i \in 1 .. l : t[a + i] = text[i]
    BY <1>1, <2>2, <2>4
  <2> QED BY <1>1, <2>1, <2>5, <2>6 DEF Words
<1>4. Begins(arena, t)
  BY <1>1, <1>3 DEF Begins
<1>5. SubSeq(t, a + 1, a + l) = text
  <2>1. SubSeq(t, a + 1, a + l) = [i \in 1 .. l |-> t[a + i]]
    BY <1>3 DEF Words
  <2>2. text = [i \in 1 .. l |-> text[i]]
    BY <1>1 DEF Words
  <2>3. [i \in 1 .. l |-> t[a + i]] = [i \in 1 .. l |-> text[i]]
    BY <1>3
  <2> QED BY <2>1, <2>2, <2>3
<1>6. PICK span : span = [start |-> a, length |-> l]
  OBVIOUS
<1>7. span \in Spans /\ span.start = a /\ span.length = l
  BY <1>6 DEF Spans
<1>8. Says(span, t, text)
  BY <1>3, <1>5, <1>7 DEF Says, Of
<1> QED
  BY <1>1, <1>2, <1>3, <1>4, <1>6, <1>8

\* No span is no text.
LEMMA SaysNothing ==
  ASSUME NEW arena \in Words
  PROVE  NoSpan \in Spans /\ Says(NoSpan, arena, <<>>)
<1>1. Len(arena) \in Nat
  BY DEF Words
<1>2. SubSeq(arena, 0 + 1, 0 + 0) = <<>>
  BY DEF Words
<1> QED
  BY <1>1, <1>2 DEF NoSpan, Spans, Says, Of

\* An arena that text was put into, or did not fit into.
PutInto(a, name, text, r) ==
  /\ r.arenas \in ArenaSets /\ r.span \in Spans
  /\ r.arenas.interned = a.interned
  /\ \A other \in ArenaNames \ {name} : r.arenas[other] = a[other]
  /\ Begins(a[name], r.arenas[name])
  /\ a.overflowed => r.arenas.overflowed
  /\ IF Len(a[name]) + Len(text) <= SpanMax
       THEN /\ r.arenas.overflowed = a.overflowed
            /\ Len(r.arenas[name]) = Len(a[name]) + Len(text)
            /\ Says(r.span, r.arenas[name], text)
       ELSE r.arenas.overflowed /\ r.arenas[name] = a[name]

\* Putting text into an arena (Arenas::push).
LEMMA PutIs ==
  ASSUME NEW a \in ArenaSets, NEW name \in ArenaNames, NEW text \in Words
  PROVE  PutInto(a, name, text, Put(a, name, text))
<1>1. PICK r : r = Put(a, name, text)
  OBVIOUS
<1>2. a[name] \in Words /\ Len(a[name]) \in Nat /\ Len(text) \in Nat /\ SpanMax \in Nat
  BY ArenaConstants DEF ArenaSets, ArenaShapes, ArenaNames, Words
<1>3. CASE Len(a[name]) + Len(text) <= SpanMax
  <2>1. PICK longer \in Words : longer = a[name] \o text
    BY <1>2, SaysAdded
  <2>2. PICK span : span = [start |-> Len(a[name]), length |-> Len(text)]
    OBVIOUS
  <2>3. r = [arenas |-> [a EXCEPT ![name] = longer], span |-> span]
    BY <1>1, <1>2, <1>3, <2>1, <2>2 DEF Put
  <2>4. Len(longer) = Len(a[name]) + Len(text) /\ Begins(a[name], longer) /\ Says(span, longer, text)
    BY <1>2, <2>1, <2>2, SaysAdded
  <2>5. r.arenas = [a EXCEPT ![name] = longer] /\ r.span = span
    BY <2>3
  <2>6. /\ r.arenas \in ArenaShapes /\ r.arenas[name] = longer
        /\ \A other \in ArenaNames \ {name} : r.arenas[other] = a[other]
        /\ r.arenas.interned = a.interned /\ r.arenas.overflowed = a.overflowed
    BY <2>5 DEF ArenaSets, ArenaShapes, ArenaNames
  <2>7. r.span \in Spans
    BY <2>4, <2>5 DEF Says
  <2>8. r.arenas \in ArenaSets
    <3> SUFFICES ASSUME NEW other \in ArenaNames PROVE Len(r.arenas[other]) <= SpanMax
      BY <2>6 DEF ArenaSets, Small
    <3>1. CASE other = name
      BY <1>3, <2>4, <2>6, <3>1
    <3>2. CASE other # name
      BY <2>6, <3>2 DEF ArenaSets, Small
    <3> QED BY <3>1, <3>2
  <2> QED BY <1>1, <1>3, <2>4, <2>5, <2>6, <2>7, <2>8 DEF PutInto
<1>4. CASE ~(Len(a[name]) + Len(text) <= SpanMax)
  <2>1. r = [arenas |-> [a EXCEPT !.overflowed = TRUE], span |-> NoSpan]
    BY <1>1, <1>2, <1>4 DEF Put
  <2>2. /\ r.arenas \in ArenaShapes /\ r.span = NoSpan
        /\ \A other \in ArenaNames : r.arenas[other] = a[other]
        /\ r.arenas.interned = a.interned /\ r.arenas.overflowed
    BY <2>1 DEF ArenaSets, ArenaShapes, ArenaNames
  <2>3. Begins(a[name], r.arenas[name])
    BY <1>2, <2>2 DEF Begins
  <2>4. r.span \in Spans
    BY <1>2, <2>2, SaysNothing
  <2>5. r.arenas \in ArenaSets
    BY <2>2 DEF ArenaSets, Small
  <2> QED BY <1>1, <1>4, <2>2, <2>3, <2>4, <2>5 DEF PutInto
<1> QED
  BY <1>3, <1>4

\* Every kind that is known says what it is.
Interned(a) == \A entry \in a.interned : Says(entry.span, a.kinds, entry.kind)
KindsOf(a) == {entry.kind : entry \in a.interned}

\* A kind is put once.
KindInto(a, kind, r) ==
  /\ r.arenas \in ArenaSets /\ r.span \in Spans
  /\ \A other \in ArenaNames \ {"kinds"} : r.arenas[other] = a[other]
  /\ Begins(a.kinds, r.arenas.kinds)
  /\ KindsOf(r.arenas) = KindsOf(a) \cup {kind}
  /\ a.overflowed => r.arenas.overflowed
  /\ ~a.overflowed /\ (kind \in KindsOf(a) \/ Len(a.kinds) + Len(kind) <= SpanMax) =>
       ~r.arenas.overflowed
  /\ ~r.arenas.overflowed =>
       /\ Len(r.arenas.kinds) = Len(a.kinds) + (IF kind \in KindsOf(a) THEN 0 ELSE Len(kind))
       /\ Interned(a) => Interned(r.arenas) /\ Says(r.span, r.arenas.kinds, kind)

\* Putting a kind into its arena: once for all rows that have it (Arenas::push_kind).
LEMMA PutKindIs ==
  ASSUME NEW a \in ArenaSets, NEW kind \in Words
  PROVE  KindInto(a, kind, PutKind(a, kind))
<1>1. PICK r : r = PutKind(a, kind)
  OBVIOUS
<1>2. PICK known : known = {entry \in a.interned : entry.kind = kind}
  OBVIOUS
<1>3. PICK put : put = Put(a, "kinds", kind)
  OBVIOUS
<1>4. /\ "kinds" \in ArenaNames /\ a.interned \subseteq [kind : Words, span : Spans] /\ a.kinds \in Words
      /\ Len(a.kinds) \in Nat /\ Len(kind) \in Nat
  BY DEF ArenaNames, ArenaSets, ArenaShapes, Words
<1>5. PutInto(a, "kinds", kind, put)
  BY <1>3, <1>4, PutIs
<1>6. CASE known # {}
  <2>1. PICK entry : entry = CHOOSE e \in known : TRUE
    OBVIOUS
  <2>2. entry \in known
    BY <1>6, <2>1
  <2>3. r = [arenas |-> a, span |-> entry.span]
    BY <1>1, <1>2, <1>6, <2>1 DEF PutKind
  <2>4. r.arenas = a /\ r.span = entry.span /\ entry \in a.interned /\ entry.kind = kind
    BY <1>2, <2>2, <2>3
  <2>5. kind \in KindsOf(a) /\ r.span \in Spans
    BY <1>4, <2>4 DEF KindsOf
  <2>6. Begins(a.kinds, a.kinds)
    BY <1>4 DEF Begins
  <2>7. Interned(a) => Says(r.span, r.arenas.kinds, kind)
    BY <2>4 DEF Interned
  <2>8. KindsOf(a) \cup {kind} = KindsOf(a)
    BY <2>5
  <2> QED BY <1>1, <1>4, <2>4, <2>5, <2>6, <2>7, <2>8 DEF KindInto
<1>7. CASE known = {}
  <2>1. PICK entry : entry = [kind |-> kind, span |-> put.span]
    OBVIOUS
  <2>2. put.arenas \in ArenaSets /\ put.span \in Spans /\ put.arenas.interned = a.interned
    BY <1>5 DEF PutInto
  <2>3. PICK all : all = a.interned \cup {entry}
    OBVIOUS
  <2>4. r = [put EXCEPT !.arenas.interned = @ \cup {entry}]
    BY <1>1, <1>2, <1>3, <1>7, <2>1 DEF PutKind
  <2>5. put = [arenas |-> put.arenas, span |-> put.span]
    BY <1>3 DEF Put
  <2>6. r.arenas = [put.arenas EXCEPT !.interned = all] /\ r.span = put.span
    BY <2>2, <2>3, <2>4, <2>5
  <2>7. entry \in [kind : Words, span : Spans] /\ entry.kind = kind /\ entry.span = put.span
    BY <2>1, <2>2
  <2>8. /\ r.arenas \in ArenaShapes /\ r.arenas.interned = all
        /\ \A name \in ArenaNames : r.arenas[name] = put.arenas[name]
        /\ r.arenas.overflowed = put.arenas.overflowed
    <3>1. all \subseteq [kind : Words, span : Spans]
      BY <1>4, <2>3, <2>7
    <3> QED BY <2>2, <2>6, <3>1 DEF ArenaSets, ArenaShapes, ArenaNames
  <2>9. r.arenas \in ArenaSets
    BY <2>2, <2>8 DEF ArenaSets, Small
  <2>10. kind \notin KindsOf(a) /\ KindsOf(r.arenas) = KindsOf(a) \cup {kind}
    BY <1>2, <1>7, <2>3, <2>7, <2>8 DEF KindsOf
  <2>11. r.arenas.kinds = put.arenas.kinds
    BY <1>4, <2>8
  <2>12. ASSUME ~r.arenas.overflowed
         PROVE  /\ Len(r.arenas.kinds) = Len(a.kinds) + Len(kind)
                /\ Says(r.span, r.arenas.kinds, kind)
    <3>1. ~put.arenas.overflowed
      BY <2>8, <2>12
    <3>2. Len(a["kinds"]) + Len(kind) <= SpanMax
      BY <1>5, <3>1 DEF PutInto
    <3>3. Len(put.arenas.kinds) = Len(a.kinds) + Len(kind) /\ Says(put.span, put.arenas.kinds, kind)
      BY <1>5, <3>2 DEF PutInto
    <3> QED BY <2>6, <2>11, <3>3
  <2>13. ASSUME ~r.arenas.overflowed, Interned(a), NEW e \in all
         PROVE  Says(e.span, r.arenas.kinds, e.kind)
    <3>1. CASE e = entry
      BY <2>6, <2>7, <2>12, <2>13, <3>1
    <3>2. CASE e \in a.interned
      <4>1. Says(e.span, a.kinds, e.kind)
        BY <2>13, <3>2 DEF Interned
      <4>2. Begins(a.kinds, r.arenas.kinds) /\ r.arenas.kinds \in Words
        BY <1>5, <2>8, <2>11 DEF PutInto, ArenaShapes
      <4> QED BY <1>4, <4>1, <4>2, SaysStill
    <3> QED BY <2>3, <2>13, <3>1, <3>2
  <2>14. ~a.overflowed /\ Len(a.kinds) + Len(kind) <= SpanMax => ~r.arenas.overflowed
    BY <1>5, <2>8 DEF PutInto
  <2>15. a.overflowed => r.arenas.overflowed
    BY <1>5, <2>8 DEF PutInto
  <2>16. \A other \in ArenaNames \ {"kinds"} : r.arenas[other] = a[other]
    BY <1>5, <2>8 DEF PutInto
  <2>17. Begins(a.kinds, r.arenas.kinds)
    BY <1>5, <2>11 DEF PutInto
  <2>18. ~r.arenas.overflowed /\ Interned(a) => Interned(r.arenas)
    BY <2>8, <2>13 DEF Interned
  <2>19. r.span \in Spans
    BY <2>2, <2>6
  <2> QED BY <1>1, <2>9, <2>10, <2>12, <2>14, <2>15, <2>16, <2>17, <2>18, <2>19 DEF KindInto
<1> QED
  BY <1>6, <1>7

-----------------------------------------------------------------------------
(* Rows in arenas *)

ItemRows == [path : Words, kind : Words, docs : Words, deprecated : BOOLEAN]
ReexportRows == [name : Words, crate : Words, path : Words, kind : Words]
ItemSpans == [path : Spans, kind : Spans, docs : Spans, deprecated : BOOLEAN]
ReexportSpans == [name : Spans, crate : Spans, path : Spans, kind : Spans]
LaidSets == [arenas : ArenaSets, items : Seq(ItemSpans), reexports : Seq(ReexportSpans)]

\* What the spans of a row say.
ItemSays(a, spans, row) ==
  /\ Says(spans.path, a.paths, row.path) /\ Says(spans.kind, a.kinds, row.kind)
  /\ Says(spans.docs, a.prose, row.docs) /\ spans.deprecated = row.deprecated
ReexportSays(a, spans, row) ==
  /\ Says(spans.name, a.reexportText, row.name) /\ Says(spans.crate, a.reexportText, row.crate)
  /\ Says(spans.path, a.reexportText, row.path) /\ Says(spans.kind, a.reexportText, row.kind)

\* Text is only ever added.
LongerArenas(a, b) ==
  /\ \A name \in ArenaNames : Begins(a[name], b[name])
  /\ a.overflowed => b.overflowed

\* A text begins with itself.
LEMMA BeginsSelf ==
  ASSUME NEW s \in Words
  PROVE  Begins(s, s)
  BY DEF Begins, Words

\* What begins with what begins with a text begins with it.
LEMMA BeginsBoth ==
  ASSUME NEW s \in Words, NEW t \in Words, NEW u \in Words, Begins(s, t), Begins(t, u)
  PROVE  Begins(s, u)
<1>1. Len(s) \in Nat /\ Len(t) \in Nat /\ Len(u) \in Nat
  BY DEF Words
<1>2. \A i \in 1 .. Len(s) : i \in 1 .. Len(t)
  BY <1>1 DEF Begins
<1> QED
  BY <1>1, <1>2 DEF Begins

\* One more at the end.
OneMore(s, t, x) ==
  /\ Len(t) = Len(s) + 1 /\ t[Len(s) + 1] = x
  /\ \A i \in 1 .. Len(s) : t[i] = s[i]

\* Appending puts one more at the end.
LEMMA AppendIs ==
  ASSUME NEW S, NEW s \in Seq(S), NEW x \in S
  PROVE  Append(s, x) \in Seq(S) /\ OneMore(s, Append(s, x), x)
<1>1. /\ Append(s, x) \in Seq(S) /\ Len(Append(s, x)) = Len(s) + 1
      /\ \A i \in 1 .. Len(s) : Append(s, x)[i] = s[i]
      /\ Append(s, x)[Len(s) + 1] = x
  BY AppendProperties
<1> QED
  BY <1>1 DEF OneMore

\* No documentation takes no room.
LEMMA NothingInto ==
  ASSUME NEW a \in ArenaSets
  PROVE  PutInto(a, "prose", <<>>, [arenas |-> a, span |-> NoSpan])
<1>1. "prose" \in ArenaNames /\ a.prose \in Words /\ Len(a.prose) \in Nat /\ Len(a["prose"]) <= SpanMax
  BY DEF ArenaNames, ArenaSets, ArenaShapes, Small, Words
<1>2. Begins(a.prose, a.prose)
  BY <1>1, BeginsSelf
<1>3. NoSpan \in Spans /\ Says(NoSpan, a.prose, <<>>)
  BY <1>1, SaysNothing
<1>4. Len(a.prose) + Len(<<>>) = Len(a.prose)
  BY <1>1
<1> QED
  BY <1>1, <1>2, <1>3, <1>4 DEF PutInto

\* The room an item needs, and has.
Room(a, row) ==
  /\ Len(a.paths) + Len(row.path) <= SpanMax
  /\ Len(a.prose) + Len(row.docs) <= SpanMax
  /\ row.kind \in KindsOf(a) \/ Len(a.kinds) + Len(row.kind) <= SpanMax

ItemInto(laid, row, r) ==
  /\ r \in LaidSets /\ r.reexports = laid.reexports
  /\ r.arenas.reexportText = laid.arenas.reexportText
  /\ LongerArenas(laid.arenas, r.arenas)
  /\ KindsOf(r.arenas) = KindsOf(laid.arenas) \cup {row.kind}
  /\ ~laid.arenas.overflowed /\ Room(laid.arenas, row) => ~r.arenas.overflowed
  /\ \E spans \in ItemSpans :
       /\ OneMore(laid.items, r.items, spans)
       /\ ~r.arenas.overflowed =>
            /\ Len(r.arenas.paths) = Len(laid.arenas.paths) + Len(row.path)
            /\ Len(r.arenas.prose) = Len(laid.arenas.prose) + Len(row.docs)
            /\ Len(r.arenas.kinds) =
                 Len(laid.arenas.kinds) + (IF row.kind \in KindsOf(laid.arenas) THEN 0 ELSE Len(row.kind))
            /\ Interned(laid.arenas) => Interned(r.arenas) /\ ItemSays(r.arenas, spans, row)

\* Laying out an item.
LEMMA PutItemIs ==
  ASSUME NEW laid \in LaidSets, NEW row \in ItemRows
  PROVE  ItemInto(laid, row, PutItem(laid, row))
<1>1. PICK r : r = PutItem(laid, row)
  OBVIOUS
<1>2. PICK a : a = laid.arenas
  OBVIOUS
<1>3. PICK path : path = Put(a, "paths", row.path)
  OBVIOUS
<1>4. PICK kind : kind = PutKind(path.arenas, row.kind)
  OBVIOUS
<1>5. PICK docs : docs = IF row.docs = <<>> THEN [arenas |-> kind.arenas, span |-> NoSpan]
                         ELSE Put(kind.arenas, "prose", row.docs)
  OBVIOUS
<1>6. PICK spans : spans = [path |-> path.span, kind |-> kind.span, docs |-> docs.span,
                            deprecated |-> row.deprecated]
  OBVIOUS
<1>7. r = [laid EXCEPT !.arenas = docs.arenas, !.items = Append(@, spans)]
  BY <1>1, <1>2, <1>3, <1>4, <1>5, <1>6 DEF PutItem
<1>8. /\ a \in ArenaSets /\ laid.items \in Seq(ItemSpans) /\ laid.reexports \in Seq(ReexportSpans)
      /\ row.path \in Words /\ row.kind \in Words /\ row.docs \in Words /\ row.deprecated \in BOOLEAN
  BY <1>2 DEF LaidSets, ItemRows
<1>9. "paths" \in ArenaNames /\ "prose" \in ArenaNames /\ "kinds" \in ArenaNames /\ "reexportText" \in ArenaNames
  BY DEF ArenaNames
<1>10. PutInto(a, "paths", row.path, path)
  BY <1>3, <1>8, <1>9, PutIs
<1>11. path.arenas \in ArenaSets
  BY <1>10 DEF PutInto
<1>12. KindInto(path.arenas, row.kind, kind)
  BY <1>4, <1>8, <1>11, PutKindIs
<1>13. kind.arenas \in ArenaSets
  BY <1>12 DEF KindInto
<1>14. PutInto(kind.arenas, "prose", row.docs, docs)
  BY <1>5, <1>8, <1>9, <1>13, PutIs, NothingInto
<1>15. docs.arenas \in ArenaSets
  BY <1>14 DEF PutInto
<1>16. spans \in ItemSpans
  BY <1>6, <1>8, <1>10, <1>12, <1>14 DEF PutInto, KindInto, ItemSpans
<1>17. PICK list : list = Append(laid.items, spans)
  OBVIOUS
<1>18. list \in Seq(ItemSpans) /\ OneMore(laid.items, list, spans)
  BY <1>8, <1>16, <1>17, AppendIs
<1>19. r.arenas = docs.arenas /\ r.items = list /\ r.reexports = laid.reexports /\ r \in LaidSets
  BY <1>7, <1>8, <1>15, <1>17, <1>18 DEF LaidSets
<1>20. a.reexportText \in Words
  BY <1>8 DEF ArenaSets, ArenaShapes
<1>21. /\ path.arenas.prose = a.prose /\ path.arenas.kinds = a.kinds /\ path.arenas.reexportText = a.reexportText
       /\ path.arenas.interned = a.interned /\ Begins(a.paths, path.arenas.paths)
       /\ a.overflowed => path.arenas.overflowed
  BY <1>9, <1>10 DEF PutInto
<1>22. /\ kind.arenas.prose = a.prose /\ kind.arenas.paths = path.arenas.paths
       /\ kind.arenas.reexportText = a.reexportText /\ Begins(a.kinds, kind.arenas.kinds)
       /\ path.arenas.overflowed => kind.arenas.overflowed
  BY <1>9, <1>12, <1>21 DEF KindInto
<1>23. /\ docs.arenas.paths = path.arenas.paths /\ docs.arenas.kinds = kind.arenas.kinds
       /\ docs.arenas.reexportText = a.reexportText /\ Begins(a.prose, docs.arenas.prose)
       /\ docs.arenas.interned = kind.arenas.interned
       /\ kind.arenas.overflowed => docs.arenas.overflowed
  BY <1>9, <1>14, <1>22 DEF PutInto
<1>24. KindsOf(path.arenas) = KindsOf(a) /\ KindsOf(docs.arenas) = KindsOf(kind.arenas)
  BY <1>21, <1>23 DEF KindsOf
<1>25. KindsOf(docs.arenas) = KindsOf(a) \cup {row.kind}
  BY <1>12, <1>24 DEF KindInto
<1>26. LongerArenas(a, docs.arenas)
  <2>1. Begins(a.paths, docs.arenas.paths) /\ Begins(a.kinds, docs.arenas.kinds) /\ Begins(a.prose, docs.arenas.prose)
    BY <1>21, <1>22, <1>23
  <2>2. Begins(a.reexportText, docs.arenas.reexportText)
    BY <1>20, <1>23, BeginsSelf
  <2>3. \A name \in ArenaNames : Begins(a[name], docs.arenas[name])
    BY <2>1, <2>2 DEF ArenaNames
  <2> QED BY <1>21, <1>22, <1>23, <2>3 DEF LongerArenas
<1>27. ASSUME ~a.overflowed, Room(a, row) PROVE ~docs.arenas.overflowed
  <2>1. ~path.arenas.overflowed
    BY <1>10, <1>27 DEF PutInto, Room
  <2>2. ~kind.arenas.overflowed
    BY <1>12, <1>21, <1>24, <1>27, <2>1 DEF KindInto, Room
  <2>3. Len(kind.arenas["prose"]) + Len(row.docs) <= SpanMax
    BY <1>22, <1>27 DEF Room
  <2> QED BY <1>14, <2>2, <2>3 DEF PutInto
<1>28. ASSUME ~docs.arenas.overflowed
       PROVE  /\ Len(docs.arenas.paths) = Len(a.paths) + Len(row.path)
              /\ Len(docs.arenas.prose) = Len(a.prose) + Len(row.docs)
              /\ Len(docs.arenas.kinds) = Len(a.kinds) + (IF row.kind \in KindsOf(a) THEN 0 ELSE Len(row.kind))
              /\ Interned(a) => Interned(docs.arenas) /\ ItemSays(docs.arenas, spans, row)
  <2>1. ~kind.arenas.overflowed /\ ~path.arenas.overflowed
    BY <1>22, <1>23, <1>28
  <2>2. /\ Len(path.arenas.paths) = Len(a.paths) + Len(row.path)
        /\ Says(path.span, path.arenas.paths, row.path)
    BY <1>10, <2>1 DEF PutInto
  <2>3. /\ Len(kind.arenas.kinds) = Len(a.kinds) + (IF row.kind \in KindsOf(a) THEN 0 ELSE Len(row.kind))
        /\ Interned(path.arenas) => Interned(kind.arenas) /\ Says(kind.span, kind.arenas.kinds, row.kind)
    BY <1>12, <1>21, <1>24, <2>1 DEF KindInto
  <2>4. /\ Len(docs.arenas.prose) = Len(a.prose) + Len(row.docs)
        /\ Says(docs.span, docs.arenas.prose, row.docs)
    BY <1>14, <1>22, <1>28 DEF PutInto
  <2>5. ASSUME Interned(a) PROVE Interned(docs.arenas) /\ ItemSays(docs.arenas, spans, row)
    <3>1. Interned(path.arenas)
      BY <1>21, <2>5 DEF Interned
    <3>2. Interned(kind.arenas) /\ Says(kind.span, kind.arenas.kinds, row.kind)
      BY <2>3, <3>1
    <3>3. Interned(docs.arenas)
      BY <1>23, <3>2 DEF Interned
    <3>4. spans.path = path.span /\ spans.kind = kind.span /\ spans.docs = docs.span /\ spans.deprecated = row.deprecated
      BY <1>6
    <3>5. Says(spans.path, docs.arenas.paths, row.path)
      BY <1>23, <2>2, <3>4
    <3>6. Says(spans.kind, docs.arenas.kinds, row.kind)
      BY <1>23, <3>2, <3>4
    <3>7. Says(spans.docs, docs.arenas.prose, row.docs)
      BY <2>4, <3>4
    <3> QED BY <3>3, <3>4, <3>5, <3>6, <3>7 DEF ItemSays
  <2> QED BY <1>23, <2>2, <2>3, <2>4, <2>5
<1>29. ItemInto(laid, row, r)
  <2>1. r.arenas.reexportText = laid.arenas.reexportText
    BY <1>2, <1>19, <1>23
  <2>2. LongerArenas(laid.arenas, r.arenas) /\ KindsOf(r.arenas) = KindsOf(laid.arenas) \cup {row.kind}
    BY <1>2, <1>19, <1>25, <1>26
  <2>3. ~laid.arenas.overflowed /\ Room(laid.arenas, row) => ~r.arenas.overflowed
    BY <1>2, <1>19, <1>27
  <2>4. OneMore(laid.items, r.items, spans)
    BY <1>18, <1>19
  <2> QED BY <1>2, <1>16, <1>19, <1>28, <2>1, <2>2, <2>3, <2>4 DEF ItemInto
<1> QED
  BY <1>1, <1>29

\* The room a re-export needs, and has.
ReexportLength(row) == Len(row.name) + Len(row.crate) + Len(row.path) + Len(row.kind)

SameItems(a, b) ==
  /\ b.paths = a.paths /\ b.prose = a.prose /\ b.kinds = a.kinds /\ b.interned = a.interned

ReexportInto(laid, row, r) ==
  /\ r \in LaidSets /\ r.items = laid.items /\ SameItems(laid.arenas, r.arenas)
  /\ LongerArenas(laid.arenas, r.arenas)
  /\ ~laid.arenas.overflowed /\ Len(laid.arenas.reexportText) + ReexportLength(row) <= SpanMax =>
       ~r.arenas.overflowed
  /\ \E spans \in ReexportSpans :
       /\ OneMore(laid.reexports, r.reexports, spans)
       /\ ~r.arenas.overflowed =>
            /\ Len(r.arenas.reexportText) = Len(laid.arenas.reexportText) + ReexportLength(row)
            /\ ReexportSays(r.arenas, spans, row)

\* A text of a re-export is put behind those before it.
TextInto(a, text, r) ==
  /\ r.arenas \in ArenaSets /\ r.span \in Spans /\ SameItems(a, r.arenas)
  /\ Begins(a.reexportText, r.arenas.reexportText)
  /\ a.overflowed => r.arenas.overflowed
  /\ ~a.overflowed /\ Len(a.reexportText) + Len(text) <= SpanMax => ~r.arenas.overflowed
  /\ ~r.arenas.overflowed =>
       /\ Len(r.arenas.reexportText) = Len(a.reexportText) + Len(text)
       /\ Says(r.span, r.arenas.reexportText, text)

\* Putting a re-export's text into its arena disturbs no item.
LEMMA PutTextIs ==
  ASSUME NEW a \in ArenaSets, NEW text \in Words
  PROVE  TextInto(a, text, Put(a, "reexportText", text))
<1>1. PICK r : r = Put(a, "reexportText", text)
  OBVIOUS
<1>2. "paths" \in ArenaNames /\ "prose" \in ArenaNames /\ "kinds" \in ArenaNames /\ "reexportText" \in ArenaNames
  BY DEF ArenaNames
<1>3. PutInto(a, "reexportText", text, r)
  BY <1>1, <1>2, PutIs
<1>4. SameItems(a, r.arenas)
  BY <1>2, <1>3 DEF PutInto, SameItems
<1>5. TextInto(a, text, r)
  BY <1>3, <1>4 DEF PutInto, TextInto
<1> QED
  BY <1>1, <1>5

\* Laying out a re-export.
LEMMA PutReexportIs ==
  ASSUME NEW laid \in LaidSets, NEW row \in ReexportRows
  PROVE  ReexportInto(laid, row, PutReexport(laid, row))
<1>1. PICK r : r = PutReexport(laid, row)
  OBVIOUS
<1>2. PICK a : a = laid.arenas
  OBVIOUS
<1>3. PICK name : name = Put(a, "reexportText", row.name)
  OBVIOUS
<1>4. PICK crate : crate = Put(name.arenas, "reexportText", row.crate)
  OBVIOUS
<1>5. PICK path : path = Put(crate.arenas, "reexportText", row.path)
  OBVIOUS
<1>6. PICK kind : kind = Put(path.arenas, "reexportText", row.kind)
  OBVIOUS
<1>7. PICK spans : spans = [name |-> name.span, crate |-> crate.span, path |-> path.span, kind |-> kind.span]
  OBVIOUS
<1>8. r = [laid EXCEPT !.arenas = kind.arenas, !.reexports = Append(@, spans)]
  BY <1>1, <1>2, <1>3, <1>4, <1>5, <1>6, <1>7 DEF PutReexport
<1>9. /\ a \in ArenaSets /\ laid.items \in Seq(ItemSpans) /\ laid.reexports \in Seq(ReexportSpans)
      /\ row.name \in Words /\ row.crate \in Words /\ row.path \in Words /\ row.kind \in Words
  BY <1>2 DEF LaidSets, ReexportRows
<1>10. TextInto(a, row.name, name)
  BY <1>3, <1>9, PutTextIs
<1>11. TextInto(name.arenas, row.crate, crate)
  <2>1. name.arenas \in ArenaSets
    BY <1>10 DEF TextInto
  <2> QED BY <1>4, <1>9, <2>1, PutTextIs
<1>12. TextInto(crate.arenas, row.path, path)
  <2>1. crate.arenas \in ArenaSets
    BY <1>11 DEF TextInto
  <2> QED BY <1>5, <1>9, <2>1, PutTextIs
<1>13. TextInto(path.arenas, row.kind, kind)
  <2>1. path.arenas \in ArenaSets
    BY <1>12 DEF TextInto
  <2> QED BY <1>6, <1>9, <2>1, PutTextIs
<1>14. kind.arenas \in ArenaSets /\ spans \in ReexportSpans
  BY <1>7, <1>10, <1>11, <1>12, <1>13 DEF TextInto, ReexportSpans
<1>15. PICK list : list = Append(laid.reexports, spans)
  OBVIOUS
<1>16. list \in Seq(ReexportSpans) /\ OneMore(laid.reexports, list, spans)
  BY <1>9, <1>14, <1>15, AppendIs
<1>17. r.arenas = kind.arenas /\ r.items = laid.items /\ r.reexports = list /\ r \in LaidSets
  BY <1>8, <1>9, <1>14, <1>15, <1>16 DEF LaidSets
<1>18. SameItems(a, kind.arenas)
  BY <1>10, <1>11, <1>12, <1>13 DEF TextInto, SameItems
<1>19. PICK t0 \in Words, t1 \in Words, t2 \in Words, t3 \in Words, t4 \in Words :
         /\ t0 = a.reexportText /\ t1 = name.arenas.reexportText /\ t2 = crate.arenas.reexportText
         /\ t3 = path.arenas.reexportText /\ t4 = kind.arenas.reexportText
  BY <1>9, <1>10, <1>11, <1>12, <1>13 DEF TextInto, ArenaSets, ArenaShapes
<1>20. Begins(t0, t1) /\ Begins(t1, t2) /\ Begins(t2, t3) /\ Begins(t3, t4)
  BY <1>10, <1>11, <1>12, <1>13, <1>19 DEF TextInto
<1>21. Begins(t2, t4) /\ Begins(t1, t4) /\ Begins(t0, t4)
  BY <1>19, <1>20, BeginsBoth
<1>22. /\ a.overflowed => name.arenas.overflowed
       /\ name.arenas.overflowed => crate.arenas.overflowed
       /\ crate.arenas.overflowed => path.arenas.overflowed
       /\ path.arenas.overflowed => kind.arenas.overflowed
  BY <1>10, <1>11, <1>12, <1>13 DEF TextInto
<1>23. LongerArenas(a, kind.arenas)
  <2>1. Begins(a.paths, kind.arenas.paths) /\ Begins(a.prose, kind.arenas.prose) /\ Begins(a.kinds, kind.arenas.kinds)
    BY <1>9, <1>18, BeginsSelf DEF SameItems, ArenaSets, ArenaShapes
  <2>2. Begins(a.reexportText, kind.arenas.reexportText)
    BY <1>19, <1>21
  <2>3. \A other \in ArenaNames : Begins(a[other], kind.arenas[other])
    BY <2>1, <2>2 DEF ArenaNames
  <2> QED BY <1>22, <2>3 DEF LongerArenas
<1>24. PICK n0 \in Nat, n1 \in Nat, n2 \in Nat, n3 \in Nat, n4 \in Nat :
         n0 = Len(t0) /\ n1 = Len(row.name) /\ n2 = Len(row.crate) /\ n3 = Len(row.path) /\ n4 = Len(row.kind)
  <2>1. /\ Len(t0) \in Nat /\ Len(row.name) \in Nat /\ Len(row.crate) \in Nat
        /\ Len(row.path) \in Nat /\ Len(row.kind) \in Nat
    BY <1>9, <1>19 DEF Words
  <2> QED BY <2>1
<1>25. ReexportLength(row) = n1 + n2 + n3 + n4
  BY <1>24 DEF ReexportLength
<1>26. SpanMax \in Nat
  BY ArenaConstants
<1>27. /\ ~name.arenas.overflowed => Len(t1) = n0 + n1 /\ Says(name.span, t1, row.name)
       /\ ~crate.arenas.overflowed => Len(t2) = Len(t1) + n2 /\ Says(crate.span, t2, row.crate)
       /\ ~path.arenas.overflowed => Len(t3) = Len(t2) + n3 /\ Says(path.span, t3, row.path)
       /\ ~kind.arenas.overflowed => Len(t4) = Len(t3) + n4 /\ Says(kind.span, t4, row.kind)
  BY <1>10, <1>11, <1>12, <1>13, <1>19, <1>24 DEF TextInto
<1>28. /\ ~a.overflowed /\ n0 + n1 <= SpanMax => ~name.arenas.overflowed
       /\ ~name.arenas.overflowed /\ Len(t1) + n2 <= SpanMax => ~crate.arenas.overflowed
       /\ ~crate.arenas.overflowed /\ Len(t2) + n3 <= SpanMax => ~path.arenas.overflowed
       /\ ~path.arenas.overflowed /\ Len(t3) + n4 <= SpanMax => ~kind.arenas.overflowed
  BY <1>10, <1>11, <1>12, <1>13, <1>19, <1>24 DEF TextInto
<1>29. ASSUME ~a.overflowed, n0 + ReexportLength(row) <= SpanMax PROVE ~kind.arenas.overflowed
  <2>1. /\ n0 + n1 <= SpanMax /\ n0 + n1 + n2 <= SpanMax
        /\ n0 + n1 + n2 + n3 <= SpanMax /\ n0 + n1 + n2 + n3 + n4 <= SpanMax
    BY <1>25, <1>26, <1>29
  <2>2. ~name.arenas.overflowed /\ Len(t1) = n0 + n1
    BY <1>27, <1>28, <1>29, <2>1
  <2>3. ~crate.arenas.overflowed /\ Len(t2) = n0 + n1 + n2
    BY <1>27, <1>28, <2>1, <2>2
  <2>4. ~path.arenas.overflowed /\ Len(t3) = n0 + n1 + n2 + n3
    BY <1>27, <1>28, <2>1, <2>3
  <2> QED BY <1>28, <2>1, <2>4
<1>30. ASSUME ~kind.arenas.overflowed
       PROVE  Len(t4) = n0 + ReexportLength(row) /\ ReexportSays(kind.arenas, spans, row)
  <2>1. ~name.arenas.overflowed /\ ~crate.arenas.overflowed /\ ~path.arenas.overflowed
    BY <1>22, <1>30
  <2>2. Len(t1) = n0 + n1 /\ Len(t2) = Len(t1) + n2 /\ Len(t3) = Len(t2) + n3 /\ Len(t4) = Len(t3) + n4
    BY <1>27, <1>30, <2>1
  <2>3. Len(t4) = n0 + ReexportLength(row)
    BY <1>25, <2>2
  <2>4. Says(name.span, t1, row.name) /\ Says(crate.span, t2, row.crate) /\ Says(path.span, t3, row.path)
    BY <1>27, <2>1
  <2>5. Says(name.span, t4, row.name) /\ Says(crate.span, t4, row.crate) /\ Says(path.span, t4, row.path)
    BY <1>20, <1>21, <2>4, SaysStill
  <2>6. Says(kind.span, t4, row.kind)
    BY <1>27, <1>30
  <2>7. spans.name = name.span /\ spans.crate = crate.span /\ spans.path = path.span /\ spans.kind = kind.span
    BY <1>7
  <2> QED BY <1>19, <2>3, <2>5, <2>6, <2>7 DEF ReexportSays
<1>31. ReexportInto(laid, row, r)
  <2>1. ~laid.arenas.overflowed /\ Len(laid.arenas.reexportText) + ReexportLength(row) <= SpanMax =>
          ~r.arenas.overflowed
    BY <1>2, <1>17, <1>19, <1>24, <1>29
  <2>2. ~r.arenas.overflowed =>
          /\ Len(r.arenas.reexportText) = Len(laid.arenas.reexportText) + ReexportLength(row)
          /\ ReexportSays(r.arenas, spans, row)
    BY <1>2, <1>17, <1>19, <1>24, <1>30
  <2>3. OneMore(laid.reexports, r.reexports, spans)
    BY <1>16, <1>17
  <2> QED BY <1>2, <1>14, <1>17, <1>18, <1>23, <2>1, <2>2, <2>3 DEF ReexportInto
<1> QED
  BY <1>1, <1>31

-----------------------------------------------------------------------------
(* Laying rows out *)

PathLength == [row \in ItemRows |-> Len(row.path)]
ProseLength == [row \in ItemRows |-> Len(row.docs)]
WordLength == [word \in Words |-> Len(word)]
RowLength == [row \in ReexportRows |-> ReexportLength(row)]

\* The first rows.
FirstRows(rows, k) == {rows[i] : i \in 1 .. k}
Kinds(R) == {row.kind : row \in R}

\* Rows whose text spans can address.
ItemsFit(R) ==
  /\ Weight(PathLength, R) <= SpanMax /\ Weight(ProseLength, R) <= SpanMax
  /\ Weight(WordLength, Kinds(R)) <= SpanMax
ReexportsFit(R) == Weight(RowLength, R) <= SpanMax

\* With each row there is one more.
LEMMA NextRow ==
  ASSUME NEW S, NEW rows \in Seq(S), Distinct(rows), NEW k \in 0 .. Len(rows) - 1
  PROVE  /\ FirstRows(rows, k + 1) = FirstRows(rows, k) \cup {rows[k + 1]}
         /\ rows[k + 1] \notin FirstRows(rows, k) /\ rows[k + 1] \in S
         /\ FirstRows(rows, k) \subseteq S /\ FirstRows(rows, k + 1) \subseteq S
<1>1. Len(rows) \in Nat /\ DOMAIN rows = 1 .. Len(rows) /\ \A i \in 1 .. Len(rows) : rows[i] \in S
  OBVIOUS
<1>2. k + 1 \in 1 .. Len(rows) /\ \A i \in 1 .. k : i \in 1 .. Len(rows) /\ i # k + 1
  BY <1>1
<1>3. 1 .. k + 1 = (1 .. k) \cup {k + 1}
  BY <1>1
<1>4. FirstRows(rows, k + 1) = FirstRows(rows, k) \cup {rows[k + 1]}
  BY <1>3 DEF FirstRows
<1>5. rows[k + 1] \notin FirstRows(rows, k)
  BY <1>1, <1>2 DEF FirstRows, Distinct
<1> QED
  BY <1>1, <1>2, <1>4, <1>5 DEF FirstRows

\* The first rows are finitely many.
LEMMA FirstRowsFinite ==
  ASSUME NEW rows, NEW k \in Nat
  PROVE  IsFiniteSet(FirstRows(rows, k))
<1>1. IsFiniteSet(1 .. k)
  <2>1. 1 \in Int /\ k \in Int
    OBVIOUS
  <2> QED BY <2>1, FS_Interval
<1>2. PICK f : f = [i \in 1 .. k |-> rows[i]]
  OBVIOUS
<1>3. f \in Surjection(1 .. k, FirstRows(rows, k))
  BY <1>2 DEF Surjection, FirstRows
<1> QED
  BY <1>1, <1>3, FS_Surjection

\* Finitely many rows have finitely many kinds.
LEMMA KindsFinite ==
  ASSUME NEW R, IsFiniteSet(R)
  PROVE  IsFiniteSet(Kinds(R))
<1>1. PICK f : f = [row \in R |-> row.kind]
  OBVIOUS
<1>2. f \in Surjection(R, Kinds(R))
  BY <1>1 DEF Surjection, Kinds
<1> QED
  BY <1>2, FS_Surjection

\* What rows weigh, and what one more adds.
LEMMA ItemWeights ==
  ASSUME NEW R \in SUBSET ItemRows, IsFiniteSet(R)
  PROVE  /\ Weight(PathLength, R) \in Nat /\ Weight(ProseLength, R) \in Nat
         /\ Weight(WordLength, Kinds(R)) \in Nat
         /\ \A T \in SUBSET R : ItemsFit(R) => ItemsFit(T)
<1>1. /\ \A row \in R : PathLength[row] \in Nat /\ ProseLength[row] \in Nat
      /\ \A word \in Kinds(R) : WordLength[word] \in Nat
  BY DEF PathLength, ProseLength, WordLength, Kinds, ItemRows, Words
<1>2. IsFiniteSet(Kinds(R))
  BY KindsFinite
<1>3. /\ Weight(PathLength, R) \in Nat
      /\ \A T \in SUBSET R : Weight(PathLength, T) \in Nat /\ Weight(PathLength, T) <= Weight(PathLength, R)
  BY <1>1, WeightIs
<1>4. /\ Weight(ProseLength, R) \in Nat
      /\ \A T \in SUBSET R : Weight(ProseLength, T) \in Nat /\ Weight(ProseLength, T) <= Weight(ProseLength, R)
  BY <1>1, WeightIs
<1>5. /\ Weight(WordLength, Kinds(R)) \in Nat
      /\ \A K \in SUBSET Kinds(R) :
           Weight(WordLength, K) \in Nat /\ Weight(WordLength, K) <= Weight(WordLength, Kinds(R))
  BY <1>1, <1>2, WeightIs
<1>6. ASSUME NEW T \in SUBSET R, ItemsFit(R) PROVE ItemsFit(T)
  <2>1. Kinds(T) \in SUBSET Kinds(R)
    BY DEF Kinds
  <2>2. SpanMax \in Nat
    BY ArenaConstants
  <2>3. PICK p \in Nat, q \in Nat, r \in Nat :
          p = Weight(PathLength, T) /\ q = Weight(ProseLength, T) /\ r = Weight(WordLength, Kinds(T))
    BY <1>3, <1>4, <1>5, <2>1
  <2>4. p <= Weight(PathLength, R) /\ q <= Weight(ProseLength, R) /\ r <= Weight(WordLength, Kinds(R))
    BY <1>3, <1>4, <1>5, <2>1, <2>3
  <2>5. p <= SpanMax /\ q <= SpanMax /\ r <= SpanMax
    BY <1>3, <1>4, <1>5, <1>6, <2>2, <2>4 DEF ItemsFit
  <2> QED BY <2>3, <2>5 DEF ItemsFit
<1> QED
  BY <1>3, <1>4, <1>5, <1>6

\* What one item more adds to the text there is.
LEMMA ItemAdds ==
  ASSUME NEW R \in SUBSET ItemRows, IsFiniteSet(R), NEW row \in ItemRows, row \notin R
  PROVE  /\ Weight(PathLength, R \cup {row}) = Weight(PathLength, R) + Len(row.path)
         /\ Weight(ProseLength, R \cup {row}) = Weight(ProseLength, R) + Len(row.docs)
         /\ Kinds(R \cup {row}) = Kinds(R) \cup {row.kind}
         /\ Weight(WordLength, Kinds(R \cup {row})) =
              Weight(WordLength, Kinds(R)) + (IF row.kind \in Kinds(R) THEN 0 ELSE Len(row.kind))
<1>1. /\ \A r \in R : PathLength[r] \in Nat /\ ProseLength[r] \in Nat
      /\ \A word \in Kinds(R) : WordLength[word] \in Nat
  BY DEF PathLength, ProseLength, WordLength, Kinds, ItemRows, Words
<1>2. /\ PathLength[row] = Len(row.path) /\ ProseLength[row] = Len(row.docs)
      /\ WordLength[row.kind] = Len(row.kind)
      /\ Len(row.path) \in Nat /\ Len(row.docs) \in Nat /\ Len(row.kind) \in Nat
  BY DEF PathLength, ProseLength, WordLength, ItemRows, Words
<1>3. Weight(PathLength, R \cup {row}) = Weight(PathLength, R) + Len(row.path)
  BY <1>1, <1>2, WeightAdds
<1>4. Weight(ProseLength, R \cup {row}) = Weight(ProseLength, R) + Len(row.docs)
  BY <1>1, <1>2, WeightAdds
<1>5. Kinds(R \cup {row}) = Kinds(R) \cup {row.kind}
  BY DEF Kinds
<1>6. PICK K : K = Kinds(R)
  OBVIOUS
<1>7. IsFiniteSet(K) /\ Weight(WordLength, K) \in Nat
  BY <1>6, KindsFinite, ItemWeights
<1>8. CASE row.kind \in K
  <2>1. K \cup {row.kind} = K
    BY <1>8
  <2>2. Weight(WordLength, K \cup {row.kind}) = Weight(WordLength, K) + 0
    <3>1. PICK n \in Nat : n = Weight(WordLength, K)
      BY <1>7
    <3>2. Weight(WordLength, K \cup {row.kind}) = n
      BY <2>1, <3>1
    <3> QED BY <3>1, <3>2
  <2> QED BY <1>3, <1>4, <1>5, <1>6, <1>8, <2>2
<1>9. CASE row.kind \notin K
  <2>1. Weight(WordLength, K \cup {row.kind}) = Weight(WordLength, K) + Len(row.kind)
    BY <1>1, <1>2, <1>6, <1>7, <1>9, WeightAdds
  <2> QED BY <1>3, <1>4, <1>5, <1>6, <1>9, <2>1
<1> QED
  BY <1>8, <1>9

\* Spans say what they said while text is added.
LEMMA ItemSaysStill ==
  ASSUME NEW a \in ArenaSets, NEW b \in ArenaSets, LongerArenas(a, b), NEW spans, NEW row, ItemSays(a, spans, row)
  PROVE  ItemSays(b, spans, row)
<1>1. /\ a.paths \in Words /\ a.prose \in Words /\ a.kinds \in Words
      /\ b.paths \in Words /\ b.prose \in Words /\ b.kinds \in Words
  BY DEF ArenaSets, ArenaShapes
<1>2. Begins(a.paths, b.paths) /\ Begins(a.prose, b.prose) /\ Begins(a.kinds, b.kinds)
  BY DEF LongerArenas, ArenaNames
<1> QED
  BY <1>1, <1>2, SaysStill DEF ItemSays

\* A re-export goes on saying what it said when text is added.
LEMMA ReexportSaysStill ==
  ASSUME NEW a \in ArenaSets, NEW b \in ArenaSets, LongerArenas(a, b), NEW spans, NEW row, ReexportSays(a, spans, row)
  PROVE  ReexportSays(b, spans, row)
<1>1. a.reexportText \in Words /\ b.reexportText \in Words
  BY DEF ArenaSets, ArenaShapes
<1>2. Begins(a.reexportText, b.reexportText)
  BY DEF LongerArenas, ArenaNames
<1> QED
  BY <1>1, <1>2, SaysStill DEF ReexportSays

\* The first k items are laid out.
HoldsItems(laid, rows, k) ==
  LET R == FirstRows(rows, k)
      a == laid.arenas
  IN /\ Len(laid.items) = k /\ laid.reexports = <<>> /\ a.reexportText = <<>>
     /\ KindsOf(a) = Kinds(R)
     /\ ItemsFit(R) => ~a.overflowed
     /\ ~a.overflowed =>
          /\ Len(a.paths) = Weight(PathLength, R) /\ Len(a.prose) = Weight(ProseLength, R)
          /\ Len(a.kinds) = Weight(WordLength, Kinds(R))
          /\ Interned(a)
          /\ \A i \in 1 .. k : ItemSays(a, laid.items[i], rows[i])

\* No item is held at first.
LEMMA NothingHeld ==
  ASSUME NEW rows
  PROVE  NothingLaid \in LaidSets /\ HoldsItems(NothingLaid, rows, 0)
<1>1. PICK laid : laid = NothingLaid
  OBVIOUS
<1>2. laid.arenas = NoArenas /\ laid.items = <<>> /\ laid.reexports = <<>>
  BY <1>1 DEF NothingLaid
<1>3. /\ NoArenas \in ArenaShapes /\ NoArenas.interned = {} /\ NoArenas.overflowed = FALSE
      /\ NoArenas.reexportText = <<>> /\ NoArenas.paths = <<>> /\ NoArenas.prose = <<>> /\ NoArenas.kinds = <<>>
  BY DEF NoArenas, ArenaShapes, Words
<1>4. NoArenas \in ArenaSets
  <2>1. SpanMax \in Nat /\ Len(<<>>) = 0
    BY ArenaConstants
  <2> QED BY <1>3, <2>1 DEF ArenaSets, Small, ArenaNames
<1>5. laid \in LaidSets
  BY <1>1, <1>4 DEF LaidSets, NothingLaid
<1>6. FirstRows(rows, 0) = {} /\ Kinds({}) = {}
  BY DEF FirstRows, Kinds
<1>7. Weight(PathLength, {}) = 0 /\ Weight(ProseLength, {}) = 0 /\ Weight(WordLength, {}) = 0
  BY WeightOfNothing
<1>8. KindsOf(NoArenas) = {} /\ Interned(NoArenas)
  BY <1>3 DEF KindsOf, Interned
<1>9. HoldsItems(laid, rows, 0)
  <2>1. Len(laid.items) = 0 /\ Len(NoArenas.paths) = 0 /\ Len(NoArenas.prose) = 0 /\ Len(NoArenas.kinds) = 0
    BY <1>2, <1>3
  <2>2. \A i \in 1 .. 0 : ItemSays(laid.arenas, laid.items[i], rows[i])
    OBVIOUS
  <2> QED BY <1>2, <1>3, <1>6, <1>7, <1>8, <2>1, <2>2 DEF HoldsItems
<1> QED
  BY <1>1, <1>5, <1>9

\* Each item that is laid out is held with those before it.
LEMMA ItemHeld ==
  ASSUME NEW rows \in Seq(ItemRows), Distinct(rows), NEW k \in 0 .. Len(rows) - 1,
         NEW laid \in LaidSets, HoldsItems(laid, rows, k), NEW r, ItemInto(laid, rows[k + 1], r)
  PROVE  HoldsItems(r, rows, k + 1)
<1>1. PICK R : R = FirstRows(rows, k)
  OBVIOUS
<1>2. PICK row : row = rows[k + 1]
  OBVIOUS
<1>3. PICK a \in ArenaSets, b \in ArenaSets : a = laid.arenas /\ b = r.arenas
  BY DEF ItemInto, LaidSets
<1>4. k \in Nat /\ k + 1 \in Nat
  OBVIOUS
<1>5. FirstRows(rows, k + 1) = R \cup {row} /\ row \notin R /\ row \in ItemRows /\ R \in SUBSET ItemRows
  BY <1>1, <1>2, NextRow
<1>6. IsFiniteSet(R) /\ IsFiniteSet(R \cup {row}) /\ R \cup {row} \in SUBSET ItemRows
  BY <1>1, <1>4, <1>5, FirstRowsFinite
<1>7. /\ Weight(PathLength, R \cup {row}) = Weight(PathLength, R) + Len(row.path)
      /\ Weight(ProseLength, R \cup {row}) = Weight(ProseLength, R) + Len(row.docs)
      /\ Kinds(R \cup {row}) = Kinds(R) \cup {row.kind}
      /\ Weight(WordLength, Kinds(R \cup {row})) =
           Weight(WordLength, Kinds(R)) + (IF row.kind \in Kinds(R) THEN 0 ELSE Len(row.kind))
  BY <1>5, <1>6, ItemAdds
<1>8. /\ Len(laid.items) = k /\ laid.reexports = <<>> /\ a.reexportText = <<>> /\ KindsOf(a) = Kinds(R)
      /\ ItemsFit(R) => ~a.overflowed
  BY <1>1, <1>3 DEF HoldsItems
<1>9. ~a.overflowed =>
        /\ Len(a.paths) = Weight(PathLength, R) /\ Len(a.prose) = Weight(ProseLength, R)
        /\ Len(a.kinds) = Weight(WordLength, Kinds(R)) /\ Interned(a)
        /\ \A i \in 1 .. k : ItemSays(a, laid.items[i], rows[i])
  BY <1>1, <1>3 DEF HoldsItems
<1>10. /\ r.reexports = laid.reexports /\ b.reexportText = a.reexportText /\ LongerArenas(a, b)
       /\ KindsOf(b) = KindsOf(a) \cup {row.kind}
       /\ ~a.overflowed /\ Room(a, row) => ~b.overflowed
  BY <1>2, <1>3 DEF ItemInto
<1>11. PICK spans \in ItemSpans :
         /\ OneMore(laid.items, r.items, spans)
         /\ ~b.overflowed =>
              /\ Len(b.paths) = Len(a.paths) + Len(row.path)
              /\ Len(b.prose) = Len(a.prose) + Len(row.docs)
              /\ Len(b.kinds) = Len(a.kinds) + (IF row.kind \in KindsOf(a) THEN 0 ELSE Len(row.kind))
              /\ Interned(a) => Interned(b) /\ ItemSays(b, spans, row)
  BY <1>2, <1>3 DEF ItemInto
<1>12. Len(r.items) = k + 1 /\ r.items[k + 1] = spans /\ \A i \in 1 .. k : r.items[i] = laid.items[i]
  BY <1>8, <1>11 DEF OneMore
<1>13. ASSUME ItemsFit(R \cup {row}) PROVE ~b.overflowed
  <2>1. ItemsFit(R)
    BY <1>6, <1>13, ItemWeights
  <2>2. Room(a, row)
    BY <1>7, <1>8, <1>9, <1>13, <2>1 DEF Room, ItemsFit
  <2> QED BY <1>8, <1>10, <2>1, <2>2
<1>14. ASSUME ~b.overflowed
       PROVE  /\ Len(b.paths) = Weight(PathLength, R \cup {row})
              /\ Len(b.prose) = Weight(ProseLength, R \cup {row})
              /\ Len(b.kinds) = Weight(WordLength, Kinds(R \cup {row}))
              /\ Interned(b)
              /\ \A i \in 1 .. k + 1 : ItemSays(b, r.items[i], rows[i])
  <2>1. ~a.overflowed
    BY <1>10, <1>14 DEF LongerArenas
  <2>2. /\ Len(b.paths) = Weight(PathLength, R \cup {row})
        /\ Len(b.prose) = Weight(ProseLength, R \cup {row})
        /\ Len(b.kinds) = Weight(WordLength, Kinds(R \cup {row}))
    BY <1>7, <1>8, <1>9, <1>11, <1>14, <2>1
  <2>3. Interned(b) /\ ItemSays(b, spans, row)
    BY <1>9, <1>11, <1>14, <2>1
  <2>4. ASSUME NEW i \in 1 .. k PROVE ItemSays(b, r.items[i], rows[i])
    <3>1. ItemSays(a, laid.items[i], rows[i])
      BY <1>9, <2>1
    <3> QED BY <1>10, <1>12, <3>1, ItemSaysStill
  <2>5. ASSUME NEW i \in 1 .. k + 1 PROVE ItemSays(b, r.items[i], rows[i])
    <3>1. CASE i = k + 1
      BY <1>2, <1>12, <2>3, <3>1
    <3>2. CASE i # k + 1
      <4>1. i \in 1 .. k
        BY <1>4, <3>2
      <4> QED BY <2>4, <4>1
    <3> QED BY <3>1, <3>2
  <2> QED BY <2>2, <2>3, <2>5
<1>15. KindsOf(b) = Kinds(R \cup {row})
  BY <1>7, <1>8, <1>10
<1> QED
  BY <1>3, <1>5, <1>8, <1>10, <1>12, <1>13, <1>14, <1>15 DEF HoldsItems

\* Items laid out in a row.
LEMMA ItemsLaidOut ==
  ASSUME NEW rows \in Seq(ItemRows), Distinct(rows)
  PROVE  LayOutItems(rows) \in LaidSets /\ HoldsItems(LayOutItems(rows), rows, Len(rows))
<1>1. PICK n \in Nat : n = Len(rows) /\ DOMAIN rows = 1 .. n /\ \A i \in 1 .. n : rows[i] \in ItemRows
  OBVIOUS
<1>2. PICK base \in LaidSets : base = NothingLaid
  BY NothingHeld
<1>3. PICK step : step = [d \in (1 .. n) \X LaidSets |-> PutItem(d[2], rows[d[1]])]
  OBVIOUS
<1>4. IsStep(step, n, LaidSets)
  <2>1. ASSUME NEW i \in 1 .. n, NEW laid \in LaidSets PROVE PutItem(laid, rows[i]) \in LaidSets
    <3>1. rows[i] \in ItemRows
      BY <1>1
    <3> QED BY <3>1, PutItemIs DEF ItemInto
  <2> QED BY <1>3, <2>1 DEF IsStep
<1>5. PICK g \in [SUBSET (1 .. n) -> LaidSets] : Folds(g, n, base, step)
  BY <1>1, <1>2, <1>4, FoldExists
<1>6. \A s \in SUBSET (1 .. n) : s # {} => Max(s) \in s
  BY <1>1, MaxOfPart
<1>7. \E f : f = [s \in SUBSET DOMAIN rows |->
                  IF s = {} THEN NothingLaid ELSE PutItem(f[s \ {Max(s)}], rows[Max(s)])]
  <2>1. g = [s \in SUBSET DOMAIN rows |->
               IF s = {} THEN NothingLaid ELSE PutItem(g[s \ {Max(s)}], rows[Max(s)])]
    <3> SUFFICES ASSUME NEW s \in SUBSET (1 .. n)
                 PROVE  g[s] = IF s = {} THEN base ELSE PutItem(g[s \ {Max(s)}], rows[Max(s)])
      BY <1>1, <1>2, <1>5
    <3>1. CASE s = {}
      BY <1>5, <3>1 DEF Folds
    <3>2. CASE s # {}
      <4>1. g[s] = step[<<Max(s), g[s \ {Max(s)}]>>] /\ Max(s) \in 1 .. n /\ g[s \ {Max(s)}] \in LaidSets
        BY <1>5, <1>6, <3>2 DEF Folds
      <4> QED BY <1>3, <3>2, <4>1
    <3> QED BY <3>1, <3>2
  <2> QED BY <2>1
<1>8. PICK f : /\ f = [s \in SUBSET DOMAIN rows |->
                       IF s = {} THEN NothingLaid ELSE PutItem(f[s \ {Max(s)}], rows[Max(s)])]
               /\ LayOutItems(rows) = f[DOMAIN rows]
  BY <1>7 DEF LayOutItems, FoldLeft, MapThenFoldSet
<1>9. PICK h \in [0 .. n -> LaidSets] : Goes(h, f, n, base, step)
  <2>1. f[{}] = base
    BY <1>2, <1>8
  <2>2. ASSUME NEW s \in SUBSET (1 .. n), s # {}, f[s \ {Max(s)}] \in LaidSets
        PROVE  f[s] = step[<<Max(s), f[s \ {Max(s)}]>>]
    <3>1. Max(s) \in 1 .. n
      BY <1>6, <2>2
    <3>2. f[s] = PutItem(f[s \ {Max(s)}], rows[Max(s)])
      BY <1>1, <1>8, <2>2
    <3> QED BY <1>3, <2>2, <3>1, <3>2
  <2>3. Unfolds(f, n, LaidSets, base, step)
    BY <2>1, <2>2 DEF Unfolds
  <2> QED BY <1>1, <1>2, <1>4, <2>3, FoldRuns
<1>10. h[0] = NothingLaid /\ LayOutItems(rows) = h[n]
  BY <1>1, <1>2, <1>8, <1>9 DEF Goes
<1>11. ASSUME NEW k \in 0 .. n - 1 PROVE h[k + 1] = PutItem(h[k], rows[k + 1])
  <2>1. k + 1 \in 1 .. n /\ h[k] \in LaidSets
    BY <1>9
  <2> QED BY <1>3, <1>9, <2>1 DEF Goes
<1>12. PICK good : good = {k \in 0 .. n : HoldsItems(h[k], rows, k)}
  OBVIOUS
<1>13. 0 \in good
  BY <1>10, <1>12, NothingHeld
<1>14. ASSUME NEW k \in 0 .. n - 1, k \in good PROVE k + 1 \in good
  <2>1. k + 1 \in 1 .. n /\ k + 1 \in 0 .. n /\ k \in 0 .. Len(rows) - 1 /\ h[k] \in LaidSets /\ rows[k + 1] \in ItemRows
    BY <1>1, <1>9
  <2>2. HoldsItems(h[k], rows, k)
    BY <1>12, <1>14
  <2>3. ItemInto(h[k], rows[k + 1], h[k + 1])
    BY <1>11, <2>1, PutItemIs
  <2>4. HoldsItems(h[k + 1], rows, k + 1)
    BY <2>1, <2>2, <2>3, ItemHeld
  <2> QED BY <1>12, <2>1, <2>4
<1>15. n \in good
  <2>1. \A k \in 0 .. n : k \in good
    BY <1>13, <1>14, UpTo
  <2> QED BY <2>1
<1>16. h[n] \in LaidSets
  BY <1>9
<1> QED
  BY <1>1, <1>10, <1>12, <1>15, <1>16

\* The first k re-exports are laid out behind the items that first was laid out with.
HoldsReexports(laid, first, rows, k) ==
  LET R == FirstRows(rows, k)
      a == laid.arenas
  IN /\ laid.items = first.items /\ SameItems(first.arenas, a)
     /\ Len(laid.reexports) = k
     /\ first.arenas.overflowed => a.overflowed
     /\ ~first.arenas.overflowed /\ ReexportsFit(R) => ~a.overflowed
     /\ ~a.overflowed =>
          /\ Len(a.reexportText) = Weight(RowLength, R)
          /\ \A i \in 1 .. k : ReexportSays(a, laid.reexports[i], rows[i])

\* The text of re-exports, and of one more.
LEMMA ReexportWeights ==
  ASSUME NEW R \in SUBSET ReexportRows, IsFiniteSet(R)
  PROVE  /\ Weight(RowLength, R) \in Nat
         /\ \A T \in SUBSET R : ReexportsFit(R) => ReexportsFit(T)
         /\ \A row \in ReexportRows \ R :
              Weight(RowLength, R \cup {row}) = Weight(RowLength, R) + ReexportLength(row)
<1>1. \A row \in ReexportRows : RowLength[row] = ReexportLength(row) /\ ReexportLength(row) \in Nat
  <2> SUFFICES ASSUME NEW row \in ReexportRows PROVE ReexportLength(row) \in Nat
    BY DEF RowLength
  <2>1. Len(row.name) \in Nat /\ Len(row.crate) \in Nat /\ Len(row.path) \in Nat /\ Len(row.kind) \in Nat
    BY DEF ReexportRows, Words
  <2>2. PICK n1 \in Nat, n2 \in Nat, n3 \in Nat, n4 \in Nat :
          n1 = Len(row.name) /\ n2 = Len(row.crate) /\ n3 = Len(row.path) /\ n4 = Len(row.kind)
    BY <2>1
  <2>3. n1 + n2 + n3 + n4 \in Nat
    OBVIOUS
  <2> QED BY <2>2, <2>3 DEF ReexportLength
<1>2. \A row \in R : RowLength[row] \in Nat
  BY <1>1
<1>3. /\ Weight(RowLength, R) \in Nat
      /\ \A T \in SUBSET R : Weight(RowLength, T) \in Nat /\ Weight(RowLength, T) <= Weight(RowLength, R)
  BY <1>2, WeightIs
<1>4. ASSUME NEW T \in SUBSET R, ReexportsFit(R) PROVE ReexportsFit(T)
  <2>1. SpanMax \in Nat
    BY ArenaConstants
  <2>2. PICK t \in Nat, r \in Nat : t = Weight(RowLength, T) /\ r = Weight(RowLength, R)
    BY <1>3
  <2>3. t <= r /\ r <= SpanMax
    BY <1>3, <1>4, <2>2 DEF ReexportsFit
  <2>4. t <= SpanMax
    BY <2>1, <2>3
  <2> QED BY <2>2, <2>4 DEF ReexportsFit
<1>5. ASSUME NEW row \in ReexportRows \ R
      PROVE  Weight(RowLength, R \cup {row}) = Weight(RowLength, R) + ReexportLength(row)
  <2>1. Weight(RowLength, R \cup {row}) = Weight(RowLength, R) + RowLength[row]
    BY <1>1, <1>2, WeightAdds
  <2> QED BY <1>1, <2>1
<1> QED
  BY <1>3, <1>4, <1>5

\* No re-export is held at first.
LEMMA NoReexportsHeld ==
  ASSUME NEW first \in LaidSets, first.reexports = <<>>, first.arenas.reexportText = <<>>, NEW rows
  PROVE  HoldsReexports(first, first, rows, 0)
<1>1. FirstRows(rows, 0) = {}
  BY DEF FirstRows
<1>2. Weight(RowLength, {}) = 0
  BY WeightOfNothing
<1>3. Len(first.reexports) = 0 /\ Len(first.arenas.reexportText) = 0
  OBVIOUS
<1>4. \A i \in 1 .. 0 : ReexportSays(first.arenas, first.reexports[i], rows[i])
  OBVIOUS
<1> QED
  BY <1>1, <1>2, <1>3, <1>4 DEF HoldsReexports, SameItems

\* Each re-export that is laid out is held with those before it.
LEMMA ReexportHeld ==
  ASSUME NEW rows \in Seq(ReexportRows), Distinct(rows), NEW k \in 0 .. Len(rows) - 1, NEW first,
         NEW laid \in LaidSets, HoldsReexports(laid, first, rows, k), NEW r, ReexportInto(laid, rows[k + 1], r)
  PROVE  HoldsReexports(r, first, rows, k + 1)
<1>1. PICK R : R = FirstRows(rows, k)
  OBVIOUS
<1>2. PICK row : row = rows[k + 1]
  OBVIOUS
<1>3. PICK a \in ArenaSets, b \in ArenaSets : a = laid.arenas /\ b = r.arenas
  BY DEF ReexportInto, LaidSets
<1>4. k \in Nat /\ k + 1 \in Nat
  OBVIOUS
<1>5. FirstRows(rows, k + 1) = R \cup {row} /\ row \notin R /\ row \in ReexportRows /\ R \in SUBSET ReexportRows
  BY <1>1, <1>2, NextRow
<1>6. IsFiniteSet(R) /\ IsFiniteSet(R \cup {row}) /\ R \cup {row} \in SUBSET ReexportRows
  BY <1>1, <1>4, <1>5, FirstRowsFinite
<1>7. Weight(RowLength, R \cup {row}) = Weight(RowLength, R) + ReexportLength(row)
  BY <1>5, <1>6, ReexportWeights
<1>8. /\ laid.items = first.items /\ SameItems(first.arenas, a) /\ Len(laid.reexports) = k
      /\ first.arenas.overflowed => a.overflowed
      /\ ~first.arenas.overflowed /\ ReexportsFit(R) => ~a.overflowed
      /\ ~a.overflowed =>
           /\ Len(a.reexportText) = Weight(RowLength, R)
           /\ \A i \in 1 .. k : ReexportSays(a, laid.reexports[i], rows[i])
  BY <1>1, <1>3 DEF HoldsReexports
<1>9. /\ r.items = laid.items /\ SameItems(a, b) /\ LongerArenas(a, b)
      /\ ~a.overflowed /\ Len(a.reexportText) + ReexportLength(row) <= SpanMax => ~b.overflowed
  BY <1>2, <1>3 DEF ReexportInto
<1>10. PICK spans \in ReexportSpans :
         /\ OneMore(laid.reexports, r.reexports, spans)
         /\ ~b.overflowed =>
              /\ Len(b.reexportText) = Len(a.reexportText) + ReexportLength(row)
              /\ ReexportSays(b, spans, row)
  BY <1>2, <1>3 DEF ReexportInto
<1>11. Len(r.reexports) = k + 1 /\ r.reexports[k + 1] = spans /\ \A i \in 1 .. k : r.reexports[i] = laid.reexports[i]
  BY <1>8, <1>10 DEF OneMore
<1>12. ASSUME ~first.arenas.overflowed, ReexportsFit(R \cup {row}) PROVE ~b.overflowed
  <2>1. ReexportsFit(R)
    BY <1>6, <1>12, ReexportWeights
  <2>2. Len(a.reexportText) + ReexportLength(row) <= SpanMax
    BY <1>7, <1>8, <1>12, <2>1 DEF ReexportsFit
  <2> QED BY <1>8, <1>9, <1>12, <2>1, <2>2
<1>13. ASSUME ~b.overflowed
       PROVE  /\ Len(b.reexportText) = Weight(RowLength, R \cup {row})
              /\ \A i \in 1 .. k + 1 : ReexportSays(b, r.reexports[i], rows[i])
  <2>1. ~a.overflowed
    BY <1>9, <1>13 DEF LongerArenas
  <2>2. Len(b.reexportText) = Weight(RowLength, R \cup {row})
    BY <1>7, <1>8, <1>10, <1>13, <2>1
  <2>3. ASSUME NEW i \in 1 .. k PROVE ReexportSays(b, r.reexports[i], rows[i])
    <3>1. ReexportSays(a, laid.reexports[i], rows[i])
      BY <1>8, <2>1
    <3> QED BY <1>9, <1>11, <3>1, ReexportSaysStill
  <2>4. ASSUME NEW i \in 1 .. k + 1 PROVE ReexportSays(b, r.reexports[i], rows[i])
    <3>1. CASE i = k + 1
      BY <1>2, <1>10, <1>11, <1>13, <3>1
    <3>2. CASE i # k + 1
      <4>1. i \in 1 .. k
        BY <1>4, <3>2
      <4> QED BY <2>3, <4>1
    <3> QED BY <3>1, <3>2
  <2> QED BY <2>2, <2>4
<1>14. SameItems(first.arenas, b) /\ (first.arenas.overflowed => b.overflowed)
  BY <1>8, <1>9 DEF SameItems, LongerArenas
<1> QED
  BY <1>3, <1>5, <1>8, <1>9, <1>11, <1>12, <1>13, <1>14 DEF HoldsReexports

\* Re-exports laid out behind the items.
LEMMA ReexportsLaidOut ==
  ASSUME NEW first \in LaidSets, first.reexports = <<>>, first.arenas.reexportText = <<>>,
         NEW own, first = LayOutItems(own), NEW rows \in Seq(ReexportRows), Distinct(rows)
  PROVE  LayOut(own, rows) \in LaidSets /\ HoldsReexports(LayOut(own, rows), first, rows, Len(rows))
<1>1. PICK n \in Nat : n = Len(rows) /\ DOMAIN rows = 1 .. n /\ \A i \in 1 .. n : rows[i] \in ReexportRows
  OBVIOUS
<1>3. PICK step : step = [d \in (1 .. n) \X LaidSets |-> PutReexport(d[2], rows[d[1]])]
  OBVIOUS
<1>4. IsStep(step, n, LaidSets)
  <2>1. ASSUME NEW i \in 1 .. n, NEW laid \in LaidSets PROVE PutReexport(laid, rows[i]) \in LaidSets
    <3>1. rows[i] \in ReexportRows
      BY <1>1
    <3> QED BY <3>1, PutReexportIs DEF ReexportInto
  <2> QED BY <1>3, <2>1 DEF IsStep
<1>5. PICK g \in [SUBSET (1 .. n) -> LaidSets] : Folds(g, n, first, step)
  BY <1>1, <1>4, FoldExists
<1>6. \A s \in SUBSET (1 .. n) : s # {} => Max(s) \in s
  BY <1>1, MaxOfPart
<1>7. \E f : f = [s \in SUBSET DOMAIN rows |->
                  IF s = {} THEN LayOutItems(own) ELSE PutReexport(f[s \ {Max(s)}], rows[Max(s)])]
  <2>1. g = [s \in SUBSET DOMAIN rows |->
               IF s = {} THEN LayOutItems(own) ELSE PutReexport(g[s \ {Max(s)}], rows[Max(s)])]
    <3> SUFFICES ASSUME NEW s \in SUBSET (1 .. n)
                 PROVE  g[s] = IF s = {} THEN first ELSE PutReexport(g[s \ {Max(s)}], rows[Max(s)])
      BY <1>1, <1>5
    <3>1. CASE s = {}
      BY <1>5, <3>1 DEF Folds
    <3>2. CASE s # {}
      <4>1. g[s] = step[<<Max(s), g[s \ {Max(s)}]>>] /\ Max(s) \in 1 .. n /\ g[s \ {Max(s)}] \in LaidSets
        BY <1>5, <1>6, <3>2 DEF Folds
      <4> QED BY <1>3, <3>2, <4>1
    <3> QED BY <3>1, <3>2
  <2> QED BY <2>1
<1>8. PICK f : /\ f = [s \in SUBSET DOMAIN rows |->
                       IF s = {} THEN LayOutItems(own) ELSE PutReexport(f[s \ {Max(s)}], rows[Max(s)])]
               /\ LayOut(own, rows) = f[DOMAIN rows]
  BY <1>7 DEF LayOut, FoldLeft, MapThenFoldSet
<1>9. PICK h \in [0 .. n -> LaidSets] : Goes(h, f, n, first, step)
  <2>1. f[{}] = first
    BY <1>8
  <2>2. ASSUME NEW s \in SUBSET (1 .. n), s # {}, f[s \ {Max(s)}] \in LaidSets
        PROVE  f[s] = step[<<Max(s), f[s \ {Max(s)}]>>]
    <3>1. Max(s) \in 1 .. n
      BY <1>6, <2>2
    <3>2. f[s] = PutReexport(f[s \ {Max(s)}], rows[Max(s)])
      BY <1>1, <1>8, <2>2
    <3> QED BY <1>3, <2>2, <3>1, <3>2
  <2>3. Unfolds(f, n, LaidSets, first, step)
    BY <2>1, <2>2 DEF Unfolds
  <2> QED BY <1>1, <1>4, <2>3, FoldRuns
<1>10. h[0] = first /\ LayOut(own, rows) = h[n]
  BY <1>1, <1>8, <1>9 DEF Goes
<1>11. ASSUME NEW k \in 0 .. n - 1 PROVE h[k + 1] = PutReexport(h[k], rows[k + 1])
  <2>1. k + 1 \in 1 .. n /\ h[k] \in LaidSets
    BY <1>9
  <2> QED BY <1>3, <1>9, <2>1 DEF Goes
<1>12. PICK good : good = {k \in 0 .. n : HoldsReexports(h[k], first, rows, k)}
  OBVIOUS
<1>13. 0 \in good
  BY <1>10, <1>12, NoReexportsHeld
<1>14. ASSUME NEW k \in 0 .. n - 1, k \in good PROVE k + 1 \in good
  <2>1. k + 1 \in 1 .. n /\ k + 1 \in 0 .. n /\ k \in 0 .. Len(rows) - 1 /\ h[k] \in LaidSets /\ rows[k + 1] \in ReexportRows
    BY <1>1, <1>9
  <2>2. HoldsReexports(h[k], first, rows, k)
    BY <1>12, <1>14
  <2>3. ReexportInto(h[k], rows[k + 1], h[k + 1])
    BY <1>11, <2>1, PutReexportIs
  <2>4. HoldsReexports(h[k + 1], first, rows, k + 1)
    BY <2>1, <2>2, <2>3, ReexportHeld
  <2> QED BY <1>12, <2>1, <2>4
<1>15. n \in good
  <2>1. \A k \in 0 .. n : k \in good
    BY <1>13, <1>14, UpTo
  <2> QED BY <2>1
<1>16. h[n] \in LaidSets
  BY <1>9
<1> QED
  BY <1>1, <1>10, <1>12, <1>15, <1>16

-----------------------------------------------------------------------------
(* What rows say when they have been laid out *)

\* What spans say is read through them.
LEMMA ItemRead ==
  ASSUME NEW a, NEW spans, NEW row \in ItemRows, ItemSays(a, spans, row)
  PROVE  ItemOf(a, spans) = row
<1>1. row = [path |-> row.path, kind |-> row.kind, docs |-> row.docs, deprecated |-> row.deprecated]
  BY DEF ItemRows
<1>2. /\ Of(spans.path, a.paths) = row.path /\ Of(spans.kind, a.kinds) = row.kind
      /\ Of(spans.docs, a.prose) = row.docs /\ spans.deprecated = row.deprecated
  BY DEF ItemSays, Says
<1> QED
  BY <1>1, <1>2 DEF ItemOf

\* The same for re-exports.
LEMMA ReexportRead ==
  ASSUME NEW a, NEW spans, NEW row \in ReexportRows, ReexportSays(a, spans, row)
  PROVE  ReexportOf(a, spans) = row
<1>1. row = [name |-> row.name, crate |-> row.crate, path |-> row.path, kind |-> row.kind]
  BY DEF ReexportRows
<1>2. /\ Of(spans.name, a.reexportText) = row.name /\ Of(spans.crate, a.reexportText) = row.crate
      /\ Of(spans.path, a.reexportText) = row.path /\ Of(spans.kind, a.reexportText) = row.kind
  BY DEF ReexportSays, Says
<1> QED
  BY <1>1, <1>2 DEF ReexportOf

\* Rows, and re-exports, whose text spans can address.
Fit(rows, others) == ItemsFit(Range(rows)) /\ ReexportsFit(Range(others))

\* All of the rows are the first so many.
LEMMA AllRows ==
  ASSUME NEW S, NEW rows \in Seq(S)
  PROVE  FirstRows(rows, Len(rows)) = Range(rows) /\ IsFiniteSet(Range(rows)) /\ Range(rows) \subseteq S
<1>1. Len(rows) \in Nat /\ DOMAIN rows = 1 .. Len(rows) /\ \A i \in 1 .. Len(rows) : rows[i] \in S
  OBVIOUS
<1>2. FirstRows(rows, Len(rows)) = Range(rows)
  BY <1>1 DEF FirstRows, Range
<1>3. IsFiniteSet(FirstRows(rows, Len(rows)))
  BY <1>1, FirstRowsFinite
<1> QED
  BY <1>1, <1>2, <1>3 DEF Range

\* Rows laid out overflow exactly when spans cannot address their text; otherwise
\* they read as they were.
LEMMA LayOutIs ==
  ASSUME NEW rows \in Seq(ItemRows), Distinct(rows), NEW others \in Seq(ReexportRows), Distinct(others)
  PROVE  /\ LayOut(rows, others) \in LaidSets
         /\ LayOut(rows, others).arenas.overflowed <=> ~Fit(rows, others)
         /\ Fit(rows, others) => View(LayOut(rows, others)) = [items |-> rows, reexports |-> others]
         /\ Len(LayOut(rows, others).items) = Len(rows)
         /\ Len(LayOut(rows, others).reexports) = Len(others)
<1>1. PICK first \in LaidSets : first = LayOutItems(rows) /\ HoldsItems(first, rows, Len(rows))
  BY ItemsLaidOut
<1>2. PICK R : R = Range(rows)
  OBVIOUS
<1>3. PICK Q : Q = Range(others)
  OBVIOUS
<1>4. /\ FirstRows(rows, Len(rows)) = R /\ IsFiniteSet(R) /\ R \in SUBSET ItemRows
      /\ FirstRows(others, Len(others)) = Q /\ IsFiniteSet(Q) /\ Q \in SUBSET ReexportRows
  BY <1>2, <1>3, AllRows
<1>5. first.reexports = <<>> /\ first.arenas.reexportText = <<>> /\ Len(first.items) = Len(rows)
  BY <1>1 DEF HoldsItems
<1>6. PICK laid \in LaidSets : laid = LayOut(rows, others) /\ HoldsReexports(laid, first, others, Len(others))
  BY <1>1, <1>5, ReexportsLaidOut
<1>7. PICK a \in ArenaSets, b \in ArenaSets : a = first.arenas /\ b = laid.arenas
  BY DEF LaidSets
<1>8. /\ ItemsFit(R) => ~a.overflowed
      /\ ~a.overflowed =>
           /\ Len(a.paths) = Weight(PathLength, R) /\ Len(a.prose) = Weight(ProseLength, R)
           /\ Len(a.kinds) = Weight(WordLength, Kinds(R))
           /\ \A i \in 1 .. Len(rows) : ItemSays(a, first.items[i], rows[i])
  BY <1>1, <1>4, <1>7 DEF HoldsItems
<1>9. /\ laid.items = first.items /\ SameItems(a, b) /\ Len(laid.reexports) = Len(others)
      /\ a.overflowed => b.overflowed
      /\ ~a.overflowed /\ ReexportsFit(Q) => ~b.overflowed
      /\ ~b.overflowed =>
           /\ Len(b.reexportText) = Weight(RowLength, Q)
           /\ \A i \in 1 .. Len(others) : ReexportSays(b, laid.reexports[i], others[i])
  BY <1>4, <1>6, <1>7 DEF HoldsReexports
<1>10. Len(laid.items) = Len(rows)
  BY <1>5, <1>9
<1>11. ASSUME ~b.overflowed PROVE ItemsFit(R) /\ ReexportsFit(Q)
  <2>1. /\ Len(a.paths) <= SpanMax /\ Len(a.prose) <= SpanMax /\ Len(a.kinds) <= SpanMax
        /\ Len(b.reexportText) <= SpanMax
    BY DEF ArenaSets, Small, ArenaNames
  <2>2. ~a.overflowed
    BY <1>9, <1>11
  <2> QED BY <1>8, <1>9, <1>11, <2>1, <2>2 DEF ItemsFit, ReexportsFit
<1>12. b.overflowed <=> ~Fit(rows, others)
  <2>1. b.overflowed \in BOOLEAN
    BY DEF ArenaSets, ArenaShapes
  <2> QED BY <1>2, <1>3, <1>8, <1>9, <1>11, <2>1 DEF Fit
<1>13. ASSUME Fit(rows, others) PROVE View(laid) = [items |-> rows, reexports |-> others]
  <2>1. ~b.overflowed /\ ~a.overflowed
    BY <1>9, <1>12, <1>13
  <2>2. /\ rows = [i \in 1 .. Len(rows) |-> rows[i]] /\ \A i \in 1 .. Len(rows) : rows[i] \in ItemRows
        /\ others = [i \in 1 .. Len(others) |-> others[i]]
        /\ \A i \in 1 .. Len(others) : others[i] \in ReexportRows
    OBVIOUS
  <2>3. DOMAIN laid.items = 1 .. Len(rows) /\ DOMAIN laid.reexports = 1 .. Len(others)
    <3>1. laid.items \in Seq(ItemSpans) /\ laid.reexports \in Seq(ReexportSpans)
      BY DEF LaidSets
    <3> QED BY <1>9, <1>10, <3>1
  <2>4. ASSUME NEW i \in 1 .. Len(rows) PROVE ItemOf(b, laid.items[i]) = rows[i]
    <3>1. ItemSays(a, laid.items[i], rows[i])
      BY <1>8, <1>9, <2>1
    <3>2. ItemSays(b, laid.items[i], rows[i])
      BY <1>9, <3>1 DEF ItemSays, SameItems
    <3> QED BY <2>2, <3>2, ItemRead
  <2>5. ASSUME NEW i \in 1 .. Len(others) PROVE ReexportOf(b, laid.reexports[i]) = others[i]
    <3>1. ReexportSays(b, laid.reexports[i], others[i])
      BY <1>9, <2>1
    <3> QED BY <2>2, <3>1, ReexportRead
  <2>6. [i \in DOMAIN laid.items |-> ItemOf(b, laid.items[i])] = rows
    BY <2>2, <2>3, <2>4
  <2>7. [i \in DOMAIN laid.reexports |-> ReexportOf(b, laid.reexports[i])] = others
    BY <2>2, <2>3, <2>5
  <2> QED BY <1>7, <2>6, <2>7 DEF View
<1> QED
  BY <1>6, <1>7, <1>9, <1>10, <1>12, <1>13

\* Some of the rows, each once, are rows, each once, and no more text than all.
LEMMA PickedIs ==
  ASSUME NEW S, NEW rows \in Seq(S), Distinct(rows), NEW kept \in Seq(DOMAIN rows), Distinct(kept)
  PROVE  /\ Picked(rows, kept) \in Seq(S) /\ Distinct(Picked(rows, kept))
         /\ Range(Picked(rows, kept)) \in SUBSET Range(rows)
         /\ DOMAIN Picked(rows, kept) = 1 .. Len(kept) /\ Len(Picked(rows, kept)) = Len(kept)
<1>1. PICK n \in Nat : n = Len(kept) /\ DOMAIN kept = 1 .. n /\ \A k \in 1 .. n : kept[k] \in DOMAIN rows
  OBVIOUS
<1>2. \A i \in DOMAIN rows : rows[i] \in S
  OBVIOUS
<1>3. PICK t : t = [k \in 1 .. n |-> rows[kept[k]]]
  OBVIOUS
<1>4. t \in [1 .. n -> S] /\ \A k \in 1 .. n : t[k] = rows[kept[k]]
  BY <1>1, <1>2, <1>3
<1>5. t \in Seq(S) /\ Len(t) = n
  BY <1>3, <1>4
<1>6. Distinct(t)
  BY <1>1, <1>3, <1>4 DEF Distinct
<1>7. Range(t) \in SUBSET Range(rows)
  BY <1>1, <1>3, <1>4 DEF Range
<1>8. Picked(rows, kept) = t
  BY <1>1, <1>3 DEF Picked
<1> QED
  BY <1>1, <1>3, <1>5, <1>6, <1>7, <1>8

\* What is stored reads as what was laid out.
LEMMA StoredReads ==
  ASSUME NEW laid \in LaidSets
  PROVE  View(ToStored(laid)) = View(laid)
<1>1. PICK a \in ArenaShapes : a = laid.arenas
  BY DEF LaidSets, ArenaSets
<1>2. PICK b : b = [a EXCEPT !.interned = {}]
  OBVIOUS
<1>3. b.paths = a.paths /\ b.prose = a.prose /\ b.kinds = a.kinds /\ b.reexportText = a.reexportText
  BY <1>2 DEF ArenaShapes
<1>4. \A row : ItemOf(b, row) = ItemOf(a, row) /\ ReexportOf(b, row) = ReexportOf(a, row)
  BY <1>3 DEF ItemOf, ReexportOf
<1>5. PICK stored : stored = ToStored(laid)
  OBVIOUS
<1>6. stored.arenas = b /\ stored.items = laid.items /\ stored.reexports = laid.reexports
  BY <1>1, <1>2, <1>5 DEF ToStored
<1> QED
  BY <1>1, <1>4, <1>5, <1>6 DEF View

\* Some of the rows that were laid out, laid out again in another order: what is stored
\* is these rows in fresh arenas, and reads as they did.
Chosen(laid, kept, keptOthers) ==
  [laid EXCEPT !.items = [k \in DOMAIN kept |-> @[kept[k]]],
               !.reexports = [k \in DOMAIN keptOthers |-> @[keptOthers[k]]]]

\* Compacting what was chosen and storing it loses nothing (compact, StoredDocs).
LEMMA CompactIs ==
  ASSUME NEW rows \in Seq(ItemRows), Distinct(rows), NEW others \in Seq(ReexportRows), Distinct(others),
         Fit(rows, others),
         NEW kept \in Seq(DOMAIN rows), Distinct(kept),
         NEW keptOthers \in Seq(DOMAIN others), Distinct(keptOthers)
  PROVE  /\ ToStored(Compact(Chosen(LayOut(rows, others), kept, keptOthers))) =
              ToStored(LayOut(Picked(rows, kept), Picked(others, keptOthers)))
         /\ View(ToStored(LayOut(Picked(rows, kept), Picked(others, keptOthers)))) =
              [items |-> Picked(rows, kept), reexports |-> Picked(others, keptOthers)]
<1>1. PICK laid \in LaidSets : laid = LayOut(rows, others) /\ ~laid.arenas.overflowed
        /\ View(laid) = [items |-> rows, reexports |-> others]
        /\ Len(laid.items) = Len(rows) /\ Len(laid.reexports) = Len(others)
  BY LayOutIs
<1>2. PICK t : t = Picked(rows, kept)
  OBVIOUS
<1>3. PICK u : u = Picked(others, keptOthers)
  OBVIOUS
<1>4. /\ t \in Seq(ItemRows) /\ Distinct(t) /\ Range(t) \in SUBSET Range(rows) /\ DOMAIN t = DOMAIN kept
      /\ u \in Seq(ReexportRows) /\ Distinct(u) /\ Range(u) \in SUBSET Range(others) /\ DOMAIN u = DOMAIN keptOthers
  BY <1>2, <1>3, PickedIs DEF Picked
<1>5. Fit(t, u)
  <2>1. Range(rows) \in SUBSET ItemRows /\ IsFiniteSet(Range(rows))
    BY AllRows
  <2>2. Range(others) \in SUBSET ReexportRows /\ IsFiniteSet(Range(others))
    BY AllRows
  <2> QED BY <1>4, <2>1, <2>2, ItemWeights, ReexportWeights DEF Fit
<1>6. PICK fresh \in LaidSets : fresh = LayOut(t, u) /\ ~fresh.arenas.overflowed
        /\ View(fresh) = [items |-> t, reexports |-> u]
  BY <1>4, <1>5, LayOutIs
<1>7. PICK chosen : chosen = Chosen(laid, kept, keptOthers)
  OBVIOUS
<1>8. /\ chosen.arenas = laid.arenas
      /\ chosen.items = [k \in DOMAIN kept |-> laid.items[kept[k]]]
      /\ chosen.reexports = [k \in DOMAIN keptOthers |-> laid.reexports[keptOthers[k]]]
  BY <1>7 DEF Chosen, LaidSets
<1>9. /\ DOMAIN laid.items = DOMAIN rows /\ DOMAIN laid.reexports = DOMAIN others
      /\ \A i \in DOMAIN rows : ItemOf(laid.arenas, laid.items[i]) = rows[i]
      /\ \A i \in DOMAIN others : ReexportOf(laid.arenas, laid.reexports[i]) = others[i]
  <2>1. laid.items \in Seq(ItemSpans) /\ laid.reexports \in Seq(ReexportSpans)
    BY DEF LaidSets
  <2>2. DOMAIN laid.items = DOMAIN rows /\ DOMAIN laid.reexports = DOMAIN others
    BY <1>1, <2>1
  <2>3. /\ rows = [i \in DOMAIN laid.items |-> ItemOf(laid.arenas, laid.items[i])]
        /\ others = [i \in DOMAIN laid.reexports |-> ReexportOf(laid.arenas, laid.reexports[i])]
    BY <1>1 DEF View
  <2> QED BY <2>2, <2>3
<1>10. (\A k \in DOMAIN kept : kept[k] \in DOMAIN rows) /\ (\A k \in DOMAIN keptOthers : keptOthers[k] \in DOMAIN others)
  OBVIOUS
<1>11. [k \in DOMAIN chosen.items |-> ItemOf(chosen.arenas, chosen.items[k])] = t
  BY <1>2, <1>8, <1>9, <1>10 DEF Picked
<1>12. [k \in DOMAIN chosen.reexports |-> ReexportOf(chosen.arenas, chosen.reexports[k])] = u
  BY <1>3, <1>8, <1>9, <1>10 DEF Picked
<1>13. View(chosen) = [items |-> t, reexports |-> u]
  BY <1>11, <1>12 DEF View
<1>14. Compact(chosen) = fresh
  <2>1. Compact(chosen) = [fresh EXCEPT !.arenas.overflowed = @ \/ chosen.arenas.overflowed]
    BY <1>6, <1>13 DEF Compact
  <2>2. PICK a \in ArenaShapes : a = fresh.arenas /\ a.overflowed = FALSE
    BY <1>6 DEF LaidSets, ArenaSets, ArenaShapes
  <2>3. [a EXCEPT !.overflowed = FALSE] = a
    BY <2>2 DEF ArenaShapes
  <2>4. Compact(chosen) = [fresh EXCEPT !.arenas = [a EXCEPT !.overflowed = FALSE \/ chosen.arenas.overflowed]]
    BY <2>1, <2>2
  <2>5. chosen.arenas.overflowed = FALSE
    BY <1>1, <1>8 DEF LaidSets, ArenaSets, ArenaShapes
  <2>6. Compact(chosen) = [fresh EXCEPT !.arenas = a]
    BY <2>3, <2>4, <2>5
  <2> QED BY <2>2, <2>6 DEF LaidSets
<1>15. View(ToStored(fresh)) = [items |-> t, reexports |-> u]
  BY <1>6, StoredReads
<1> QED
  BY <1>1, <1>2, <1>3, <1>6, <1>7, <1>14, <1>15

-----------------------------------------------------------------------------
(* Putting things in order *)

\* Rows at places, and places ordered as what is at them.
RowsAt(rows, kept) == {rows[i] : i \in kept}
Alike(rows, R, B) == \A i, j \in DOMAIN rows : <<i, j>> \in R <=> <<rows[i], rows[j]>> \in B

\* Sorting places is sorting what is at them.
LEMMA OrderOfRows ==
  ASSUME NEW T, NEW rows \in Seq(T), Distinct(rows), NEW kept \in SUBSET DOMAIN rows,
         NEW K, K = RowsAt(rows, kept), NEW B, Sorts(B, K),
         NEW R, Alike(rows, R, B)
  PROVE  /\ IsFiniteSet(kept) /\ Sorts(R, kept) /\ IsFiniteSet(K)
         /\ Picked(rows, InOrder(kept, R)) = InOrder(K, B)
<1>1. PICK n \in Nat : n = Len(rows) /\ DOMAIN rows = 1 .. n
  OBVIOUS
<1>2. IsFiniteSet(kept)
  <2>1. PICK I : I = 1 .. n
    OBVIOUS
  <2>2. 1 \in Int /\ n \in Int
    OBVIOUS
  <2>3. IsFiniteSet(I) /\ kept \in SUBSET I
    BY <1>1, <2>1, <2>2, FS_Interval
  <2> QED BY <2>3, FS_Subset
<1>3. K = {rows[i] : i \in kept}
  BY DEF RowsAt
<1>4. ASSUME NEW E \in SUBSET kept, NEW F, F = {rows[i] : i \in E}
      PROVE  IsFiniteSet(F) /\ Cardinality(F) = Cardinality(E)
  <2>1. PICK f : f = [i \in E |-> rows[i]]
    OBVIOUS
  <2>2. f \in Surjection(E, F)
    BY <1>4, <2>1 DEF Surjection
  <2>3. f \in Injection(E, F)
    BY <1>4, <2>1, <2>2 DEF Injection, IsInjective, Surjection, Distinct
  <2>4. f \in Bijection(E, F)
    BY <2>2, <2>3 DEF Bijection
  <2>5. IsFiniteSet(E)
    BY <1>2, FS_Subset
  <2> QED BY <2>4, <2>5, FS_Bijection DEF ExistsBijection
<1>5. IsFiniteSet(K) /\ Cardinality(K) = Cardinality(kept)
  BY <1>3, <1>4
<1>6. Sorts(R, kept)
  <2>1. \A i \in kept : rows[i] \in K /\ i \in DOMAIN rows
    BY <1>3
  <2>2. \A i, j \in kept : i # j => rows[i] # rows[j]
    BY <2>1 DEF Distinct
  <2>3. Sorts(B, K)
    BY <1>3
  <2>4. \A i, j \in kept : i # j => <<i, j>> \in R \/ <<j, i>> \in R
    BY <2>1, <2>2, <2>3 DEF Sorts, PutsInOrder, Alike
  <2>5. \A i, j, k \in kept : <<i, j>> \in R /\ <<j, k>> \in R => <<i, k>> \in R
    <3> SUFFICES ASSUME NEW i \in kept, NEW j \in kept, NEW k \in kept, <<i, j>> \in R, <<j, k>> \in R
                 PROVE  <<i, k>> \in R
      OBVIOUS
    <3>1. <<rows[i], rows[j]>> \in B /\ <<rows[j], rows[k]>> \in B
      BY <2>1 DEF Alike
    <3>2. <<rows[i], rows[k]>> \in B
      BY <2>1, <2>3, <3>1 DEF Sorts, PutsInOrder
    <3> QED BY <2>1, <3>2 DEF Alike
  <2>6. \A i \in kept : <<i, i>> \notin R
    BY <2>1, <2>3 DEF Sorts, Alike
  <2> QED BY <2>4, <2>5, <2>6 DEF Sorts, PutsInOrder
<1>7. PICK s : s = InOrder(kept, R)
  OBVIOUS
<1>8. PICK u : u = InOrder(K, B)
  OBVIOUS
<1>9. PICK m \in Nat : m = Cardinality(kept)
  BY <1>2, FS_CardinalityType
<1>10. /\ s \in Seq(kept) /\ Len(s) = m
       /\ \A k \in 1 .. m, i \in kept : s[k] = i <=> Cardinality(Earlier(kept, R, i)) = k - 1
  <2>1. Placed(kept, R, s)
    BY <1>2, <1>6, <1>7, InOrderIs
  <2> QED BY <1>9, <2>1 DEF Placed
<1>11. /\ u \in Seq(K) /\ Len(u) = m
       /\ \A k \in 1 .. m, r \in K : u[k] = r <=> Cardinality(Earlier(K, B, r)) = k - 1
  <2>1. Cardinality(K) = m
    BY <1>5, <1>9
  <2>2. Placed(K, B, u)
    BY <1>5, <1>8, InOrderIs
  <2> QED BY <2>1, <2>2 DEF Placed
<1>12. ASSUME NEW k \in 1 .. m PROVE u[k] = rows[s[k]]
  <2>1. PICK i \in kept : i = s[k]
    BY <1>10
  <2>2. rows[i] \in K
    BY <1>3
  <2>3. PICK E \in SUBSET kept : E = Earlier(kept, R, i)
    BY DEF Earlier
  <2>4. Earlier(K, B, rows[i]) = {rows[j] : j \in E}
    BY <1>3, <2>3 DEF Earlier, Alike
  <2>5. Cardinality(Earlier(K, B, rows[i])) = Cardinality(E)
    BY <1>4, <2>4
  <2>6. Cardinality(E) = k - 1
    BY <1>10, <2>1, <2>3
  <2> QED BY <1>11, <2>1, <2>2, <2>5, <2>6
<1>13. Picked(rows, s) = u
  <2>1. DOMAIN s = 1 .. m /\ u = [k \in 1 .. m |-> u[k]]
    BY <1>10, <1>11
  <2> QED BY <1>12, <2>1 DEF Picked
<1> QED
  BY <1>2, <1>3, <1>5, <1>6, <1>7, <1>8, <1>13

-----------------------------------------------------------------------------
(* The order of texts *)

\* What a text has at a place: nothing comes before everything.
At(s, i) == IF i <= Len(s) THEN s[i] + 1 ELSE 0
Positions == Nat \ {0}

\* What texts have at a place.
LEMMA AtIs ==
  ASSUME NEW s \in Words, NEW i \in Positions
  PROVE  /\ Len(s) \in Nat /\ At(s, i) \in Nat
         /\ i <= Len(s) => s[i] \in Nat /\ At(s, i) = s[i] + 1 /\ At(s, i) > 0
         /\ ~(i <= Len(s)) => At(s, i) = 0
<1>1. Len(s) \in Nat /\ \A j \in 1 .. Len(s) : s[j] \in Nat
  BY DEF Words
<1>2. i <= Len(s) => i \in 1 .. Len(s)
  BY <1>1 DEF Positions
<1>3. i <= Len(s) => s[i] \in Nat
  BY <1>1, <1>2
<1> QED
  BY <1>1, <1>3 DEF At

\* One text comes before another when it has less at the first place they differ at.
Differ(s, t, i) == At(s, i) < At(t, i) /\ \A j \in 1 .. i - 1 : At(s, j) = At(t, j)

\* Two texts are compared at the first place they differ at.
LEMMA PrecedesIs ==
  ASSUME NEW s \in Words, NEW t \in Words
  PROVE  Precedes(s, t) <=> \E i \in Positions : Differ(s, t, i)
<1>1. ASSUME Precedes(s, t) PROVE \E i \in Positions : Differ(s, t, i)
  <2>1. PICK i \in 1 .. Len(t) :
          /\ \A j \in 1 .. i - 1 : j <= Len(s) /\ s[j] = t[j]
          /\ i > Len(s) \/ s[i] < t[i]
    BY <1>1 DEF Precedes
  <2>2. Len(t) \in Nat /\ Len(s) \in Nat
    BY DEF Words
  <2>3. i \in Positions /\ i <= Len(t)
    BY <2>2 DEF Positions
  <2>4. At(t, i) = t[i] + 1 /\ t[i] \in Nat
    BY <2>3, AtIs
  <2>5. At(s, i) < At(t, i)
    <3>1. CASE i <= Len(s)
      <4>1. At(s, i) = s[i] + 1 /\ s[i] \in Nat /\ s[i] < t[i]
        BY <2>1, <2>2, <2>3, <3>1, AtIs
      <4> QED BY <2>4, <4>1
    <3>2. CASE ~(i <= Len(s))
      <4>1. At(s, i) = 0
        BY <2>3, <3>2, AtIs
      <4> QED BY <2>4, <4>1
    <3> QED BY <3>1, <3>2
  <2>6. ASSUME NEW j \in 1 .. i - 1 PROVE At(s, j) = At(t, j)
    <3>1. j \in Positions /\ j <= Len(t) /\ j <= Len(s) /\ s[j] = t[j]
      BY <2>1, <2>2, <2>3 DEF Positions
    <3> QED BY <3>1, AtIs
  <2> QED BY <2>3, <2>5, <2>6 DEF Differ
<1>2. ASSUME NEW i \in Positions, Differ(s, t, i) PROVE Precedes(s, t)
  <2>1. Len(t) \in Nat /\ Len(s) \in Nat /\ At(s, i) \in Nat /\ At(s, i) < At(t, i)
    BY <1>2, AtIs DEF Differ
  <2>2. i <= Len(t)
    <3>1. At(t, i) # 0
      BY <2>1, AtIs
    <3> QED BY <3>1, AtIs
  <2>3. i \in 1 .. Len(t) /\ At(t, i) = t[i] + 1 /\ t[i] \in Nat
    BY <2>1, <2>2, AtIs DEF Positions
  <2>4. ASSUME NEW j \in 1 .. i - 1 PROVE j <= Len(s) /\ s[j] = t[j]
    <3>1. j \in Positions /\ j <= Len(t)
      BY <2>1, <2>3 DEF Positions
    <3>2. At(s, j) = At(t, j) /\ At(t, j) = t[j] + 1 /\ At(t, j) > 0 /\ t[j] \in Nat
      BY <1>2, <3>1, AtIs DEF Differ
    <3>3. j <= Len(s)
      <4>1. At(s, j) # 0
        BY <3>1, <3>2, AtIs
      <4> QED BY <3>1, <4>1, AtIs
    <3>4. At(s, j) = s[j] + 1 /\ s[j] \in Nat
      BY <3>1, <3>3, AtIs
    <3> QED BY <3>2, <3>3, <3>4
  <2>5. i > Len(s) \/ s[i] < t[i]
    <3>1. CASE i <= Len(s)
      <4>1. At(s, i) = s[i] + 1 /\ s[i] \in Nat
        BY <3>1, AtIs
      <4> QED BY <2>1, <2>3, <4>1
    <3>2. CASE ~(i <= Len(s))
      BY <2>1, <2>3, <3>2
    <3> QED BY <3>1, <3>2
  <2> QED BY <2>3, <2>4, <2>5 DEF Precedes
<1> QED
  BY <1>1, <1>2

\* A text comes before none before itself, two different ones come one before the
\* other, and what comes before what comes before comes before.
LEMMA PrecedesSelf ==
  ASSUME NEW s \in Words
  PROVE  ~Precedes(s, s)
<1>1. \A i \in Positions : ~Differ(s, s, i)
  BY AtIs DEF Differ
<1> QED
  BY <1>1, PrecedesIs

\* Of two different texts one comes before the other.
LEMMA PrecedesEither ==
  ASSUME NEW s \in Words, NEW t \in Words, s # t
  PROVE  Precedes(s, t) \/ Precedes(t, s)
<1>1. Len(s) \in Nat /\ Len(t) \in Nat /\ DOMAIN s = 1 .. Len(s) /\ DOMAIN t = 1 .. Len(t)
  BY DEF Words
<1>2. PICK B : B = {i \in Positions : At(s, i) # At(t, i)}
  OBVIOUS
<1>3. B # {}
  <2>1. CASE Len(s) = Len(t)
    <3>1. PICK i \in 1 .. Len(s) : s[i] # t[i]
      BY <1>1, <2>1 DEF Words
    <3>2. i \in Positions /\ i <= Len(s) /\ i <= Len(t)
      BY <1>1, <2>1 DEF Positions
    <3>3. At(s, i) = s[i] + 1 /\ At(t, i) = t[i] + 1 /\ s[i] \in Nat /\ t[i] \in Nat
      BY <3>2, AtIs
    <3>4. At(s, i) # At(t, i)
      BY <3>1, <3>3
    <3> QED BY <1>2, <3>2, <3>4
  <2>2. CASE Len(s) < Len(t)
    <3>1. Len(t) \in Positions /\ ~(Len(t) <= Len(s)) /\ Len(t) <= Len(t)
      BY <1>1, <2>2 DEF Positions
    <3>2. At(s, Len(t)) = 0 /\ At(t, Len(t)) > 0
      BY <3>1, AtIs
    <3> QED BY <1>2, <3>1, <3>2
  <2>3. CASE Len(t) < Len(s)
    <3>1. Len(s) \in Positions /\ ~(Len(s) <= Len(t)) /\ Len(s) <= Len(s)
      BY <1>1, <2>3 DEF Positions
    <3>2. At(t, Len(s)) = 0 /\ At(s, Len(s)) > 0
      BY <3>1, AtIs
    <3> QED BY <1>2, <3>1, <3>2
  <2>4. Len(s) = Len(t) \/ Len(s) < Len(t) \/ Len(t) < Len(s)
    <3>1. PICK a \in Nat, l \in Nat : a = Len(s) /\ l = Len(t)
      BY <1>1
    <3>2. a = l \/ a < l \/ l < a
      OBVIOUS
    <3> QED BY <3>1, <3>2
  <2> QED BY <2>1, <2>2, <2>3, <2>4
<1>4. PICK m \in B : \A i \in B : m <= i
  <2>1. B \in SUBSET Nat
    BY <1>2 DEF Positions
  <2> QED BY <1>3, <2>1, LeastNatural
<1>5. m \in Positions /\ At(s, m) # At(t, m) /\ At(s, m) \in Nat /\ At(t, m) \in Nat
  BY <1>2, <1>4, AtIs
<1>6. ASSUME NEW j \in 1 .. m - 1 PROVE At(s, j) = At(t, j)
  <2>1. j \in Positions /\ ~(m <= j)
    BY <1>5 DEF Positions
  <2> QED BY <1>2, <1>4, <2>1
<1>7. Differ(s, t, m) \/ Differ(t, s, m)
  BY <1>5, <1>6 DEF Differ
<1> QED
  BY <1>5, <1>7, PrecedesIs

\* What comes before what comes before a text comes before it.
LEMMA PrecedesThrough ==
  ASSUME NEW s \in Words, NEW t \in Words, NEW u \in Words, Precedes(s, t), Precedes(t, u)
  PROVE  Precedes(s, u)
<1>1. PICK i \in Positions : Differ(s, t, i)
  BY PrecedesIs
<1>2. PICK k \in Positions : Differ(t, u, k)
  BY PrecedesIs
<1>3. \A j \in Positions : At(s, j) \in Nat /\ At(t, j) \in Nat /\ At(u, j) \in Nat
  BY AtIs
<1>4. ASSUME NEW m \in Positions, m <= i, m <= k, m = i \/ m = k PROVE Differ(s, u, m)
  <2>1. \A j \in 1 .. m - 1 : j \in Positions /\ j \in 1 .. i - 1 /\ j \in 1 .. k - 1
    BY <1>4 DEF Positions
  <2>2. \A j \in 1 .. m - 1 : At(s, j) = At(u, j)
    BY <1>1, <1>2, <2>1 DEF Differ
  <2>3. At(s, m) <= At(t, m) /\ At(t, m) <= At(u, m) /\ (At(s, m) < At(t, m) \/ At(t, m) < At(u, m))
    <3>1. m = i \/ m \in 1 .. i - 1
      BY <1>4 DEF Positions
    <3>2. m = k \/ m \in 1 .. k - 1
      BY <1>4 DEF Positions
    <3>3. At(s, m) < At(t, m) \/ (m # i /\ At(s, m) = At(t, m))
      BY <1>1, <3>1 DEF Differ
    <3>4. At(t, m) < At(u, m) \/ (m # k /\ At(t, m) = At(u, m))
      BY <1>2, <3>2 DEF Differ
    <3> QED BY <1>3, <1>4, <3>3, <3>4
  <2>4. At(s, m) < At(u, m)
    BY <1>3, <2>3
  <2> QED BY <2>2, <2>4 DEF Differ
<1>5. \E m \in Positions : m <= i /\ m <= k /\ (m = i \/ m = k)
  BY DEF Positions
<1> QED
  BY <1>4, <1>5, PrecedesIs

-----------------------------------------------------------------------------
(* The order of rows *)

\* Texts that stand for numbers, and rows that have such texts.
Numerals == {Text(n) : n \in Nat}
TypedItems == [path : Words, kind : Numerals, docs : Numerals, deprecated : BOOLEAN]
TypedReexports == [name : Words, crate : Numerals, path : Words, kind : Numerals]

\* A number's text is as long as the number and has no zero.
LEMMA TextIs ==
  ASSUME NEW n \in Nat
  PROVE  /\ Text(n) \in Words /\ Len(Text(n)) = n /\ \A i \in 1 .. n : Text(n)[i] = n
         /\ Text(n) = <<>> <=> n = 0
<1>1. Text(n) = [i \in 1 .. n |-> n]
  BY DEF Text
<1>2. Text(n) \in Seq(Nat) /\ Len(Text(n)) = n
  BY <1>1
<1>3. n = 0 => Text(n) = <<>>
  BY <1>2
<1>4. Text(n) = <<>> => n = 0
  BY <1>2
<1> QED
  BY <1>1, <1>2, <1>3, <1>4 DEF Words

\* Two texts, one behind the other.
JoinOf(s, t, u) ==
  /\ u \in Words /\ Len(u) = Len(s) + Len(t)
  /\ \A i \in 1 .. Len(s) : u[i] = s[i]
  /\ \A i \in 1 .. Len(t) : u[Len(s) + i] = t[i]

\* What two texts are, one behind the other.
LEMMA JoinIs ==
  ASSUME NEW s \in Words, NEW t \in Words
  PROVE  JoinOf(s, t, s \o t)
<1>1. PICK a \in Nat, l \in Nat : a = Len(s) /\ l = Len(t)
  BY DEF Words
<1>2. PICK u : u = s \o t
  OBVIOUS
<1>3. u \in Seq(Nat) /\ Len(u) = a + l
  BY <1>1, <1>2, ConcatProperties DEF Words
<1>4. \A i \in 1 .. a + l : u[i] = IF i <= a THEN s[i] ELSE t[i - a]
  BY <1>1, <1>2, ConcatProperties DEF Words
<1>5. \A i \in 1 .. a : i \in 1 .. a + l /\ i <= a
  OBVIOUS
<1>6. \A i \in 1 .. l : a + i \in 1 .. a + l /\ ~(a + i <= a) /\ (a + i) - a = i
  OBVIOUS
<1>7. \A i \in 1 .. a : u[i] = s[i]
  BY <1>4, <1>5
<1>8. \A i \in 1 .. l : u[a + i] = t[i]
  BY <1>4, <1>6
<1>9. JoinOf(s, t, u)
  BY <1>1, <1>3, <1>7, <1>8 DEF JoinOf, Words
<1> QED
  BY <1>2, <1>9

\* What rows of one path are ordered by.
ItemRank(row) ==
  <<IF row.docs = <<>> THEN 1 ELSE 0>> \o row.kind \o <<0>> \o row.docs
    \o <<0, IF row.deprecated THEN 1 ELSE 0>>
ReexportRank(row) == row.crate \o <<0>> \o row.kind

\* A number and a zero behind it begin with the number.
LEMMA NumberRead ==
  ASSUME NEW k \in Nat, NEW u, u = Text(k) \o << 0 >>
  PROVE  u \in Words /\ Len(u) = k + 1 /\ u[1] = k
<1>1. Len(Text(k)) = k /\ Text(k) \in Words /\ \A i \in 1 .. k : Text(k)[i] = k
  BY TextIs
<1>2. <<0>> \in Words /\ Len(<<0>>) = 1 /\ <<0>>[1] = 0
  BY DEF Words
<1>3. /\ u \in Words /\ Len(u) = k + 1
      /\ \A i \in 1 .. k : u[i] = Text(k)[i]
      /\ \A i \in 1 .. 1 : u[k + i] = <<0>>[i]
  <2>1. PICK t \in Words, one \in Nat, zero \in Words : t = Text(k) /\ one = 1 /\ zero = <<0>>
    BY <1>1, <1>2
  <2>2. u = t \o zero /\ Len(t) = k /\ Len(zero) = one
    BY <1>1, <1>2, <2>1
  <2>3. /\ u \in Words /\ Len(u) = k + one
        /\ \A i \in 1 .. k : u[i] = t[i]
        /\ \A i \in 1 .. one : u[k + i] = zero[i]
    <3>1. JoinOf(t, zero, u)
      BY <2>2, JoinIs
    <3> QED BY <2>2, <3>1 DEF JoinOf
  <2> QED BY <2>1, <2>3
<1>4. u[k + 1] = 0
  BY <1>2, <1>3
<1>5. CASE k = 0
  BY <1>3, <1>4, <1>5
<1>6. CASE k > 0
  <2>1. 1 \in 1 .. k
    BY <1>6
  <2> QED BY <1>1, <1>3, <2>1
<1> QED
  BY <1>5, <1>6

\* Rows of one path that rank alike are alike.
LEMMA ItemRankTells ==
  ASSUME NEW l \in TypedItems, NEW r \in TypedItems
  PROVE  /\ ItemRank(l) \in Words
         /\ l.path = r.path /\ ItemRank(l) = ItemRank(r) => l = r
         /\ l.docs # <<>> /\ r.docs = <<>> => Precedes(ItemRank(l), ItemRank(r))
<1>1. ASSUME NEW row \in TypedItems, NEW k \in Nat, NEW d \in Nat, row.kind = Text(k), row.docs = Text(d)
      PROVE  /\ ItemRank(row) \in Words /\ Len(ItemRank(row)) = k + d + 4
             /\ ItemRank(row)[1] = (IF row.docs = <<>> THEN 1 ELSE 0)
             /\ ItemRank(row)[2] = k
             /\ ItemRank(row)[k + d + 4] = (IF row.deprecated THEN 1 ELSE 0)
  <2>0. row.deprecated \in BOOLEAN
    BY DEF TypedItems
  <2>1. PICK flag \in {0, 1}, last \in {0, 1} :
          flag = (IF row.docs = <<>> THEN 1 ELSE 0) /\ last = (IF row.deprecated THEN 1 ELSE 0)
    OBVIOUS
  <2>2. /\ <<flag>> \in Words /\ Len(<<flag>>) = 1 /\ <<flag>>[1] = flag
        /\ <<0>> \in Words /\ Len(<<0>>) = 1 /\ <<0>>[1] = 0
        /\ <<0, last>> \in Words /\ Len(<<0, last>>) = 2 /\ <<0, last>>[2] = last
    BY DEF Words
  <2>3. PICK u1 : u1 = <<flag>> \o Text(k)
    OBVIOUS
  <2>4. /\ u1 \in Words /\ Len(u1) = 1 + k /\ u1[1] = flag /\ \A i \in 1 .. k : u1[1 + i] = k
    <3>1. Text(k) \in Words /\ Len(Text(k)) = k /\ \A i \in 1 .. k : Text(k)[i] = k
      BY TextIs
    <3>2. /\ u1 \in Words /\ Len(u1) = 1 + k /\ \A i \in 1 .. 1 : u1[i] = <<flag>>[i]
          /\ \A i \in 1 .. k : u1[1 + i] = Text(k)[i]
      <4>1. PICK a \in Nat, b \in Nat, s \in Words, t \in Words :
              a = 1 /\ b = k /\ s = <<flag>> /\ t = Text(k) /\ Len(s) = a /\ Len(t) = b
        BY <2>2, <3>1
      <4>2. /\ u1 \in Words /\ Len(u1) = a + b /\ \A i \in 1 .. a : u1[i] = s[i]
            /\ \A i \in 1 .. b : u1[a + i] = t[i]
        <5>1. JoinOf(s, t, u1)
          BY <2>3, <4>1, JoinIs
        <5> QED BY <4>1, <5>1 DEF JoinOf
      <4> QED BY <4>1, <4>2
    <3>3. 1 \in 1 .. 1
      OBVIOUS
    <3> QED BY <2>2, <3>1, <3>2, <3>3
  <2>5. PICK u2 : u2 = u1 \o <<0>>
    OBVIOUS
  <2>6. u2 \in Words /\ Len(u2) = 2 + k /\ u2[1] = flag /\ u2[2] = k
    <3>1. 1 + k \in Nat /\ (1 + k) + 1 = 2 + k /\ 1 \in 1 .. 1 + k /\ 1 \in 1 .. 1
      OBVIOUS
    <3>2. /\ u2 \in Words /\ Len(u2) = (1 + k) + 1 /\ \A i \in 1 .. 1 + k : u2[i] = u1[i]
          /\ \A i \in 1 .. 1 : u2[(1 + k) + i] = <<0>>[i]
      <4>1. PICK a \in Nat, b \in Nat, s \in Words, t \in Words :
              a = 1 + k /\ b = 1 /\ s = u1 /\ t = <<0>> /\ Len(s) = a /\ Len(t) = b
        BY <2>2, <2>4, <3>1
      <4>2. /\ u2 \in Words /\ Len(u2) = a + b /\ \A i \in 1 .. a : u2[i] = s[i]
            /\ \A i \in 1 .. b : u2[a + i] = t[i]
        <5>1. JoinOf(s, t, u2)
          BY <2>5, <4>1, JoinIs
        <5> QED BY <4>1, <5>1 DEF JoinOf
      <4> QED BY <4>1, <4>2
    <3>3. u2 \in Words /\ Len(u2) = 2 + k /\ u2[1] = flag
      BY <2>4, <3>1, <3>2
    <3>4. u2[2] = k
      <4>1. CASE k = 0
        <5>1. u2[(1 + k) + 1] = 0
          BY <2>2, <3>1, <3>2
        <5>2. (1 + k) + 1 = 2
          BY <4>1
        <5> QED BY <4>1, <5>1, <5>2
      <4>2. CASE k > 0
        <5>1. 2 \in 1 .. 1 + k /\ 1 \in 1 .. k /\ 1 + 1 = 2
          BY <4>2
        <5>2. u2[2] = u1[2] /\ u1[1 + 1] = k
          BY <2>4, <3>2, <5>1
        <5> QED BY <5>1, <5>2
      <4> QED BY <4>1, <4>2
    <3> QED BY <3>3, <3>4
  <2>7. PICK u3 : u3 = u2 \o Text(d)
    OBVIOUS
  <2>8. u3 \in Words /\ Len(u3) = (2 + k) + d /\ u3[1] = flag /\ u3[2] = k
    <3>1. Text(d) \in Words /\ Len(Text(d)) = d
      BY TextIs
    <3>2. 2 + k \in Nat /\ 1 \in 1 .. 2 + k /\ 2 \in 1 .. 2 + k
      OBVIOUS
    <3>3. u3 \in Words /\ Len(u3) = (2 + k) + d /\ \A i \in 1 .. 2 + k : u3[i] = u2[i]
      <4>1. PICK a \in Nat, b \in Nat, s \in Words, t \in Words :
              a = 2 + k /\ b = d /\ s = u2 /\ t = Text(d) /\ Len(s) = a /\ Len(t) = b
        BY <2>6, <3>1, <3>2
      <4>2. /\ u3 \in Words /\ Len(u3) = a + b /\ \A i \in 1 .. a : u3[i] = s[i]
            /\ \A i \in 1 .. b : u3[a + i] = t[i]
        <5>1. JoinOf(s, t, u3)
          BY <2>7, <4>1, JoinIs
        <5> QED BY <4>1, <5>1 DEF JoinOf
      <4> QED BY <4>1, <4>2
    <3> QED BY <2>6, <3>2, <3>3
  <2>9. PICK u4 : u4 = u3 \o <<0, last>>
    OBVIOUS
  <2>10. /\ u4 \in Words /\ Len(u4) = ((2 + k) + d) + 2 /\ u4[1] = flag /\ u4[2] = k
         /\ u4[((2 + k) + d) + 2] = last
    <3>1. (2 + k) + d \in Nat /\ 1 \in 1 .. (2 + k) + d /\ 2 \in 1 .. (2 + k) + d /\ 2 \in 1 .. 2
      OBVIOUS
    <3>2. /\ u4 \in Words /\ Len(u4) = ((2 + k) + d) + 2 /\ \A i \in 1 .. (2 + k) + d : u4[i] = u3[i]
          /\ \A i \in 1 .. 2 : u4[((2 + k) + d) + i] = <<0, last>>[i]
      <4>1. PICK a \in Nat, b \in Nat, s \in Words, t \in Words :
              a = (2 + k) + d /\ b = 2 /\ s = u3 /\ t = <<0, last>> /\ Len(s) = a /\ Len(t) = b
        BY <2>2, <2>8, <3>1
      <4>2. /\ u4 \in Words /\ Len(u4) = a + b /\ \A i \in 1 .. a : u4[i] = s[i]
            /\ \A i \in 1 .. b : u4[a + i] = t[i]
        <5>1. JoinOf(s, t, u4)
          BY <2>9, <4>1, JoinIs
        <5> QED BY <4>1, <5>1 DEF JoinOf
      <4> QED BY <4>1, <4>2
    <3> QED BY <2>2, <2>8, <3>1, <3>2
  <2>11. ItemRank(row) = u4
    BY <1>1, <2>1, <2>3, <2>5, <2>7, <2>9 DEF ItemRank
  <2>12. ((2 + k) + d) + 2 = k + d + 4
    OBVIOUS
  <2> QED BY <2>1, <2>10, <2>11, <2>12
<1>2. \A row \in TypedItems : \E k \in Nat, d \in Nat : row.kind = Text(k) /\ row.docs = Text(d)
  BY DEF TypedItems, Numerals
<1>3. PICK k \in Nat, d \in Nat : l.kind = Text(k) /\ l.docs = Text(d)
  BY <1>2
<1>4. PICK m \in Nat, e \in Nat : r.kind = Text(m) /\ r.docs = Text(e)
  BY <1>2
<1>5. /\ ItemRank(l) \in Words /\ Len(ItemRank(l)) = k + d + 4
      /\ ItemRank(l)[1] = (IF l.docs = <<>> THEN 1 ELSE 0)
      /\ ItemRank(l)[2] = k
      /\ ItemRank(l)[k + d + 4] = (IF l.deprecated THEN 1 ELSE 0)
  BY <1>1, <1>3
<1>6. /\ ItemRank(r) \in Words /\ Len(ItemRank(r)) = m + e + 4
      /\ ItemRank(r)[1] = (IF r.docs = <<>> THEN 1 ELSE 0)
      /\ ItemRank(r)[2] = m
      /\ ItemRank(r)[m + e + 4] = (IF r.deprecated THEN 1 ELSE 0)
  BY <1>1, <1>4
<1>7. ASSUME l.path = r.path, ItemRank(l) = ItemRank(r) PROVE l = r
  <2>1. k = m
    BY <1>5, <1>6, <1>7
  <2>2. k + d + 4 = m + e + 4
    BY <1>5, <1>6, <1>7
  <2>3. d = e
    BY <2>1, <2>2
  <2>4. (IF l.deprecated THEN 1 ELSE 0) = (IF r.deprecated THEN 1 ELSE 0)
    BY <1>5, <1>6, <1>7, <2>2
  <2>5. l.deprecated = r.deprecated
    BY <2>4 DEF TypedItems
  <2>6. l.kind = r.kind /\ l.docs = r.docs
    BY <1>3, <1>4, <2>1, <2>3
  <2> QED BY <1>7, <2>5, <2>6 DEF TypedItems
<1>8. ASSUME l.docs # <<>>, r.docs = <<>> PROVE Precedes(ItemRank(l), ItemRank(r))
  <2>1. PICK a \in Words, b \in Words : a = ItemRank(l) /\ b = ItemRank(r)
    BY <1>5, <1>6
  <2>2. a[1] = 0 /\ b[1] = 1 /\ Len(a) >= 1 /\ Len(b) >= 1
    BY <1>5, <1>6, <1>8, <2>1
  <2>3. 1 \in 1 .. Len(b) /\ a[1] < b[1] /\ \A j \in 1 .. 1 - 1 : j <= Len(a) /\ a[j] = b[j]
    BY <2>2 DEF Words
  <2>4. Precedes(a, b)
    BY <2>3 DEF Precedes
  <2> QED BY <2>1, <2>4
<1> QED
  BY <1>5, <1>7, <1>8

\* Re-exports of one name and path that rank alike are alike.
LEMMA ReexportRankTells ==
  ASSUME NEW l \in TypedReexports, NEW r \in TypedReexports
  PROVE  /\ ReexportRank(l) \in Words
         /\ l.name = r.name /\ l.path = r.path /\ ReexportRank(l) = ReexportRank(r) => l = r
<1>1. ASSUME NEW row \in TypedReexports, NEW c \in Nat, NEW k \in Nat, row.crate = Text(c), row.kind = Text(k)
      PROVE  /\ ReexportRank(row) \in Words /\ Len(ReexportRank(row)) = (c + 1) + k
             /\ ReexportRank(row)[1] = c
  <2>1. PICK u : u = Text(c) \o <<0>>
    OBVIOUS
  <2>2. u \in Words /\ Len(u) = c + 1 /\ u[1] = c
    BY <2>1, NumberRead
  <2>3. PICK t \in Words : t = Text(k) /\ Len(t) = k
    BY TextIs
  <2>4. PICK v : v = u \o t
    OBVIOUS
  <2>5. JoinOf(u, t, v)
    BY <2>2, <2>4, JoinIs
  <2>6. 1 \in 1 .. c + 1
    OBVIOUS
  <2>7. v \in Words /\ Len(v) = (c + 1) + k /\ v[1] = c
    BY <2>2, <2>3, <2>5, <2>6 DEF JoinOf
  <2>8. ReexportRank(row) = v
    BY <1>1, <2>1, <2>3, <2>4 DEF ReexportRank
  <2> QED BY <2>7, <2>8
<1>2. \A row \in TypedReexports : \E c \in Nat, k \in Nat : row.crate = Text(c) /\ row.kind = Text(k)
  BY DEF TypedReexports, Numerals
<1>3. PICK c \in Nat, k \in Nat : l.crate = Text(c) /\ l.kind = Text(k)
  BY <1>2
<1>4. PICK d \in Nat, m \in Nat : r.crate = Text(d) /\ r.kind = Text(m)
  BY <1>2
<1>5. /\ ReexportRank(l) \in Words /\ Len(ReexportRank(l)) = (c + 1) + k /\ ReexportRank(l)[1] = c
  BY <1>1, <1>3
<1>6. /\ ReexportRank(r) \in Words /\ Len(ReexportRank(r)) = (d + 1) + m /\ ReexportRank(r)[1] = d
  BY <1>1, <1>4
<1>7. ASSUME l.name = r.name, l.path = r.path, ReexportRank(l) = ReexportRank(r) PROVE l = r
  <2>1. c = d /\ (c + 1) + k = (d + 1) + m
    BY <1>5, <1>6, <1>7
  <2>2. k = m
    BY <2>1
  <2>3. l.crate = r.crate /\ l.kind = r.kind
    BY <1>3, <1>4, <2>1, <2>2
  <2> QED BY <1>7, <2>3 DEF TypedReexports
<1> QED
  BY <1>5, <1>7

\* The order of items, and of re-exports, as sets of pairs.
ItemsBefore == {d \in TypedItems \X TypedItems : Before(d[1], d[2])}
ReexportsBefore == {d \in TypedReexports \X TypedReexports : ReexportBefore(d[1], d[2])}

\* Items are put in order: no two different rows are left as they come.
LEMMA ItemsSorted ==
  ASSUME NEW K \in SUBSET TypedItems
  PROVE  Sorts(ItemsBefore, K)
<1>1. ASSUME NEW l \in K, NEW r \in K
      PROVE  <<l, r>> \in ItemsBefore <=>
               Precedes(l.path, r.path) \/ (l.path = r.path /\ Precedes(ItemRank(l), ItemRank(r)))
  <2>1. <<l, r>> \in TypedItems \X TypedItems
    OBVIOUS
  <2>2. <<l, r>> \in ItemsBefore <=> Before(l, r)
    BY <2>1 DEF ItemsBefore
  <2>3. Before(l, r) <=> Precedes(l.path, r.path) \/ (l.path = r.path /\ Precedes(ItemRank(l), ItemRank(r)))
    BY DEF Before, ItemRank
  <2> QED BY <2>2, <2>3
<1>2. \A r \in K : r \in TypedItems /\ r.path \in Words /\ ItemRank(r) \in Words
  BY ItemRankTells DEF TypedItems
<1>3. ASSUME NEW l \in K, NEW r \in K, l # r PROVE <<l, r>> \in ItemsBefore \/ <<r, l>> \in ItemsBefore
  <2>1. CASE l.path = r.path
    <3>1. ItemRank(l) # ItemRank(r)
      BY <1>2, <1>3, <2>1, ItemRankTells
    <3>2. Precedes(ItemRank(l), ItemRank(r)) \/ Precedes(ItemRank(r), ItemRank(l))
      BY <1>2, <3>1, PrecedesEither
    <3> QED BY <1>1, <2>1, <3>2
  <2>2. CASE l.path # r.path
    <3>1. Precedes(l.path, r.path) \/ Precedes(r.path, l.path)
      BY <1>2, <2>2, PrecedesEither
    <3> QED BY <1>1, <3>1
  <2> QED BY <2>1, <2>2
<1>4. ASSUME NEW l \in K, NEW m \in K, NEW r \in K, <<l, m>> \in ItemsBefore, <<m, r>> \in ItemsBefore
      PROVE  <<l, r>> \in ItemsBefore
  <2>1. PICK p \in Words, q \in Words, s \in Words : p = l.path /\ q = m.path /\ s = r.path
    BY <1>2
  <2>2. PICK x \in Words, y \in Words, z \in Words : x = ItemRank(l) /\ y = ItemRank(m) /\ z = ItemRank(r)
    BY <1>2
  <2>3. (Precedes(p, q) \/ (p = q /\ Precedes(x, y))) /\ (Precedes(q, s) \/ (q = s /\ Precedes(y, z)))
    BY <1>1, <1>4, <2>1, <2>2
  <2>4. Precedes(p, s) \/ (p = s /\ Precedes(x, z))
    BY <2>3, PrecedesThrough
  <2> QED BY <1>1, <2>1, <2>2, <2>4
<1>5. ASSUME NEW l \in K PROVE <<l, l>> \notin ItemsBefore
  BY <1>1, <1>2, PrecedesSelf
<1> QED
  BY <1>3, <1>4, <1>5 DEF Sorts, PutsInOrder

\* Re-exports are put in order too.
LEMMA ReexportsSorted ==
  ASSUME NEW K \in SUBSET TypedReexports
  PROVE  Sorts(ReexportsBefore, K)
<1>1. ASSUME NEW l \in K, NEW r \in K
      PROVE  <<l, r>> \in ReexportsBefore <=>
               \/ Precedes(l.name, r.name)
               \/ l.name = r.name /\ Precedes(l.path, r.path)
               \/ l.name = r.name /\ l.path = r.path /\ Precedes(ReexportRank(l), ReexportRank(r))
  <2>1. <<l, r>> \in TypedReexports \X TypedReexports
    OBVIOUS
  <2>2. <<l, r>> \in ReexportsBefore <=> ReexportBefore(l, r)
    BY <2>1 DEF ReexportsBefore
  <2>3. ReexportBefore(l, r) <=>
               \/ Precedes(l.name, r.name)
               \/ l.name = r.name /\ Precedes(l.path, r.path)
               \/ l.name = r.name /\ l.path = r.path /\ Precedes(ReexportRank(l), ReexportRank(r))
    BY DEF ReexportBefore, ReexportRank
  <2> QED BY <2>2, <2>3
<1>2. \A r \in K : r \in TypedReexports /\ r.name \in Words /\ r.path \in Words /\ ReexportRank(r) \in Words
  BY ReexportRankTells DEF TypedReexports
<1>3. ASSUME NEW l \in K, NEW r \in K, l # r PROVE <<l, r>> \in ReexportsBefore \/ <<r, l>> \in ReexportsBefore
  <2>1. CASE l.name = r.name /\ l.path = r.path
    <3>1. ReexportRank(l) # ReexportRank(r)
      BY <1>2, <1>3, <2>1, ReexportRankTells
    <3>2. Precedes(ReexportRank(l), ReexportRank(r)) \/ Precedes(ReexportRank(r), ReexportRank(l))
      BY <1>2, <3>1, PrecedesEither
    <3> QED BY <1>1, <2>1, <3>2
  <2>2. CASE l.name = r.name /\ l.path # r.path
    <3>1. Precedes(l.path, r.path) \/ Precedes(r.path, l.path)
      BY <1>2, <2>2, PrecedesEither
    <3> QED BY <1>1, <2>2, <3>1
  <2>3. CASE l.name # r.name
    <3>1. Precedes(l.name, r.name) \/ Precedes(r.name, l.name)
      BY <1>2, <2>3, PrecedesEither
    <3> QED BY <1>1, <3>1
  <2> QED BY <2>1, <2>2, <2>3
<1>4. ASSUME NEW l \in K, NEW m \in K, NEW r \in K, <<l, m>> \in ReexportsBefore, <<m, r>> \in ReexportsBefore
      PROVE  <<l, r>> \in ReexportsBefore
  <2>1. PICK p \in Words, q \in Words, s \in Words : p = l.path /\ q = m.path /\ s = r.path
    BY <1>2
  <2>2. PICK x \in Words, y \in Words, z \in Words :
          x = ReexportRank(l) /\ y = ReexportRank(m) /\ z = ReexportRank(r)
    BY <1>2
  <2>3. PICK a \in Words, b \in Words, c \in Words : a = l.name /\ b = m.name /\ c = r.name
    BY <1>2
  <2>4. Precedes(a, b) \/ (a = b /\ Precedes(p, q)) \/ (a = b /\ p = q /\ Precedes(x, y))
    BY <1>1, <1>4, <2>1, <2>2, <2>3
  <2>5. Precedes(b, c) \/ (b = c /\ Precedes(q, s)) \/ (b = c /\ q = s /\ Precedes(y, z))
    BY <1>1, <1>4, <2>1, <2>2, <2>3
  <2>6. Precedes(a, c) \/ (a = c /\ Precedes(p, s)) \/ (a = c /\ p = s /\ Precedes(x, z))
    BY <2>4, <2>5, PrecedesThrough
  <2> QED BY <1>1, <2>1, <2>2, <2>3, <2>6
<1>5. ASSUME NEW l \in K PROVE <<l, l>> \notin ReexportsBefore
  BY <1>1, <1>2, PrecedesSelf
<1> QED
  BY <1>3, <1>4, <1>5 DEF Sorts, PutsInOrder

-----------------------------------------------------------------------------
(* One row for each key *)

\* The rows nothing of the same name comes before.
Best(K, name, B) == {row \in K : \A other \in K : name[other] = name[row] => <<other, row>> \notin B}

\* The names of rows are their keys.
KeyedBy(rows, name, keys) == DOMAIN keys = DOMAIN rows /\ \A i \in DOMAIN rows : keys[i] = name[rows[i]]

\* Places of the best rows, in order; each row is one of them or comes after one.
KeepsBest(rows, K, name, B, s) ==
  /\ s \in Seq(DOMAIN rows) /\ Distinct(s)
  /\ Picked(rows, s) = InOrder(Best(K, name, B), B)
  /\ Range(Picked(rows, s)) = Best(K, name, B)
  /\ \A row \in K : \E b \in Best(K, name, B) : name[b] = name[row] /\ (b = row \/ <<b, row>> \in B)

\* Sorting and keeping one row of each key keeps the best of each, in order, whatever
\* order the rows were in.
LEMMA DeduplicatedIs ==
  ASSUME NEW T, NEW rows \in Seq(T), Distinct(rows), NEW K, K = Range(rows), NEW B, Sorts(B, K),
         NEW R, Alike(rows, R, B), NEW name, NEW keys, KeyedBy(rows, name, keys), NEW s \in Deduplicated(keys, R)
  PROVE  KeepsBest(rows, K, name, B, s)
<1>1. PICK kept \in SUBSET DOMAIN rows :
        /\ s = InOrder(kept, R)
        /\ {keys[i] : i \in kept} = {keys[i] : i \in DOMAIN keys}
        /\ \A i, j \in kept : i # j => keys[i] # keys[j]
        /\ \A i \in kept, j \in DOMAIN keys : keys[j] = keys[i] => <<j, i>> \notin R
  BY DEF Deduplicated, KeyedBy
<1>2. K = {rows[i] : i \in DOMAIN rows} /\ DOMAIN keys = DOMAIN rows /\ \A i \in DOMAIN rows : keys[i] = name[rows[i]]
  BY DEF Range, KeyedBy
<1>3. PICK G : G = {rows[i] : i \in kept}
  OBVIOUS
<1>4. G \in SUBSET K
  BY <1>2, <1>3
<1>5. \A l, r \in K : l # r => <<l, r>> \in B \/ <<r, l>> \in B
  BY DEF Sorts, PutsInOrder
<1>6. ASSUME NEW g \in G PROVE g \in Best(K, name, B)
  <2>1. PICK i \in kept : g = rows[i]
    BY <1>3
  <2>2. ASSUME NEW other \in K, name[other] = name[g] PROVE <<other, g>> \notin B
    <3>1. PICK j \in DOMAIN rows : other = rows[j]
      BY <1>2
    <3>2. keys[j] = keys[i]
      BY <1>2, <2>1, <2>2, <3>1
    <3>3. <<j, i>> \notin R
      BY <1>1, <1>2, <3>2
    <3> QED BY <2>1, <3>1, <3>3 DEF Alike
  <2> QED BY <1>4, <2>2 DEF Best
<1>7. ASSUME NEW row \in K PROVE \E g \in G : name[g] = name[row]
  <2>1. PICK m \in DOMAIN rows : row = rows[m]
    BY <1>2
  <2>3. keys[m] \in {keys[i] : i \in DOMAIN keys}
    BY <1>2
  <2>4. keys[m] \in {keys[i] : i \in kept}
    BY <1>1, <2>3
  <2>2. PICK i \in kept : keys[i] = keys[m]
    BY <2>4
  <2> QED BY <1>2, <1>3, <2>1, <2>2
<1>8. ASSUME NEW row \in Best(K, name, B) PROVE row \in G
  <2>1. row \in K
    BY DEF Best
  <2>2. PICK g \in G : name[g] = name[row]
    BY <1>7, <2>1
  <2>3. g \in Best(K, name, B) /\ g \in K
    BY <1>4, <1>6
  <2>4. <<g, row>> \notin B /\ <<row, g>> \notin B
    BY <2>1, <2>2, <2>3 DEF Best
  <2>5. g = row
    BY <1>5, <2>1, <2>3, <2>4
  <2> QED BY <2>5
<1>9. G = Best(K, name, B)
  BY <1>6, <1>8
<1>10. Sorts(B, G)
  <2>1. Sorts(B, K)
    OBVIOUS
  <2>2. \A i, j \in G : i # j => <<i, j>> \in B \/ <<j, i>> \in B
    BY <1>4, <1>5
  <2>3. \A i, j, k \in G : <<i, j>> \in B /\ <<j, k>> \in B => <<i, k>> \in B
    BY <1>4, <2>1 DEF Sorts, PutsInOrder
  <2>4. \A i \in G : <<i, i>> \notin B
    BY <1>4, <2>1 DEF Sorts
  <2> QED BY <2>2, <2>3, <2>4 DEF Sorts, PutsInOrder
<1>11. IsFiniteSet(kept) /\ Sorts(R, kept) /\ IsFiniteSet(G) /\ Picked(rows, InOrder(kept, R)) = InOrder(G, B)
  <2>1. G = RowsAt(rows, kept)
    BY <1>3 DEF RowsAt
  <2> QED BY <1>10, <2>1, OrderOfRows
<1>12. s \in Seq(kept) /\ Distinct(s)
  BY <1>1, <1>11, InOrderIs DEF Placed
<1>13. s \in Seq(DOMAIN rows)
  BY <1>12
<1>14. Range(InOrder(G, B)) = G
  BY <1>10, <1>11, InOrderIs DEF Placed
<1>15. ASSUME NEW row \in K
       PROVE  \E b \in G : name[b] = name[row] /\ (b = row \/ <<b, row>> \in B)
  <2>1. PICK g \in G : name[g] = name[row]
    BY <1>7
  <2>2. g \in K /\ <<row, g>> \notin B
    BY <1>4, <1>6, <2>1 DEF Best
  <2> QED BY <1>5, <2>1, <2>2
<1> QED
  BY <1>1, <1>9, <1>11, <1>12, <1>13, <1>14, <1>15 DEF KeepsBest

-----------------------------------------------------------------------------
(* What is built from collected rows *)

\* The orders rows may have been collected in have each row, once.
LEMMA ArrivalsAre ==
  ASSUME NEW R, IsFiniteSet(R), NEW order \in Arrivals(R)
  PROVE  order \in Seq(R) /\ Distinct(order) /\ Range(order) = R
<1>1. PICK n \in Nat : n = Cardinality(R)
  BY FS_CardinalityType
<1>2. IsFiniteSet(1 .. n) /\ Cardinality(1 .. n) = n
  <2>1. 1 \in Int /\ n \in Int
    OBVIOUS
  <2> QED BY <2>1, FS_Interval
<1>3. ASSUME NEW t \in [1 .. n -> R], \A i, j \in 1 .. n : i # j => t[i] # t[j]
      PROVE  t \in Seq(R) /\ Distinct(t) /\ Range(t) = R /\ Len(t) = n
  <2>1. t \in Injection(1 .. n, R)
    BY <1>3 DEF Injection, IsInjective
  <2>2. t \in Surjection(1 .. n, R)
    BY <1>1, <1>2, <2>1, FS_Injection
  <2>3. Range(t) = R
    BY <1>3, <2>2 DEF Surjection, Range
  <2>4. Distinct(t)
    BY <1>3 DEF Distinct
  <2> QED BY <1>3, <2>3, <2>4
<1>4. ASSUME order \in SetToSeqs(R) PROVE order \in Seq(R) /\ Distinct(order) /\ Range(order) = R
  <2>1. order \in [1 .. n -> R] /\ \A i, j \in 1 .. n : i # j => order[i] # order[j]
    BY <1>1, <1>4 DEF SetToSeqs
  <2> QED BY <1>3, <2>1
<1>5. PICK t : t = SetToSeq(R)
  OBVIOUS
<1>6. t \in [1 .. n -> R] /\ \A i, j \in 1 .. n : i # j => t[i] # t[j]
  <2>1. \E f \in [1 .. n -> R] : IsInjective(f)
    <3>1. PICK f \in Bijection(1 .. n, R) : TRUE
      BY <1>1, FS_CardinalityType DEF ExistsBijection
    <3> QED BY <3>1 DEF Bijection, Injection, IsInjective
  <2>2. t \in [1 .. n -> R] /\ IsInjective(t)
    BY <1>1, <1>5, <2>1 DEF SetToSeq
  <2> QED BY <2>2 DEF IsInjective
<1>7. PICK u : u = Reverse(t)
  OBVIOUS
<1>8. u \in [1 .. n -> R] /\ \A i, j \in 1 .. n : i # j => u[i] # u[j]
  <2>1. Len(t) = n
    BY <1>3, <1>6
  <2>2. u = [i \in 1 .. n |-> t[(n - i) + 1]]
    BY <1>7, <2>1 DEF Reverse
  <2>3. \A i \in 1 .. n : (n - i) + 1 \in 1 .. n
    OBVIOUS
  <2>4. \A i, j \in 1 .. n : i # j => (n - i) + 1 # (n - j) + 1
    OBVIOUS
  <2> QED BY <1>6, <2>2, <2>3, <2>4
<1>9. order \in SetToSeqs(R) \/ order = t \/ order = u
  BY <1>5, <1>7 DEF Arrivals
<1> QED
  BY <1>3, <1>4, <1>6, <1>8, <1>9

\* The names rows are kept one of each of; the rows kept, in order.
ItemName == [row \in TypedItems |-> row.path]
ReexportName == [row \in TypedReexports |-> <<row.name, row.path>>]
SortedItems(K) == InOrder(Best(K, ItemName, ItemsBefore), ItemsBefore)
SortedReexports(Q) == InOrder(Best(Q, ReexportName, ReexportsBefore), ReexportsBefore)

\* What is built from rows, whatever order they were collected in.
IndexOf(K, Q) == ToStored(LayOut(SortedItems(K), SortedReexports(Q)))

\* Items sorted, one of each path kept.
LEMMA ItemsKept ==
  ASSUME NEW K \in SUBSET TypedItems, NEW order \in Seq(K), Distinct(order), Range(order) = K,
         NEW kept \in Deduplicated(PathKeys(order), ItemOrder(order))
  PROVE  /\ kept \in Seq(DOMAIN order) /\ Distinct(kept) /\ Picked(order, kept) = SortedItems(K)
         /\ Range(SortedItems(K)) = Best(K, ItemName, ItemsBefore)
         /\ \A row \in K : \E b \in Best(K, ItemName, ItemsBefore) :
              b.path = row.path /\ (b = row \/ <<b, row>> \in ItemsBefore)
<1>1. PICK R : R = ItemOrder(order)
  OBVIOUS
<1>2. PICK keys : keys = PathKeys(order)
  OBVIOUS
<1>3. PICK name : name = ItemName
  OBVIOUS
<1>4. PICK B : B = ItemsBefore
  OBVIOUS
<1>5. \A i \in DOMAIN order : order[i] \in K /\ order[i] \in TypedItems
  OBVIOUS
<1>6. Alike(order, R, B)
  <2> SUFFICES ASSUME NEW i \in DOMAIN order, NEW j \in DOMAIN order
               PROVE  <<i, j>> \in R <=> <<order[i], order[j]>> \in B
    BY DEF Alike
  <2>1. <<i, j>> \in R <=> Before(order[i], order[j])
    BY <1>1 DEF ItemOrder
  <2>2. <<order[i], order[j]>> \in B <=> Before(order[i], order[j])
    BY <1>4, <1>5 DEF ItemsBefore
  <2> QED BY <2>1, <2>2
<1>7. KeyedBy(order, name, keys)
  BY <1>2, <1>3, <1>5 DEF PathKeys, ItemName, KeyedBy
<1>8. Sorts(B, K) /\ kept \in Deduplicated(keys, R)
  BY <1>1, <1>2, <1>4, ItemsSorted
<1>9. /\ kept \in Seq(DOMAIN order) /\ Distinct(kept)
      /\ Picked(order, kept) = InOrder(Best(K, name, B), B)
      /\ Range(Picked(order, kept)) = Best(K, name, B)
      /\ \A row \in K : \E b \in Best(K, name, B) : name[b] = name[row] /\ (b = row \/ <<b, row>> \in B)
  <2>1. KeepsBest(order, K, name, B, kept)
    BY <1>6, <1>7, <1>8, DeduplicatedIs
  <2> QED BY <2>1 DEF KeepsBest
<1>10. \A row \in K : name[row] = row.path
  BY <1>3 DEF ItemName
<1>11. Best(K, name, B) \subseteq K
  BY DEF Best
<1>12. \A row \in K : \E b \in Best(K, name, B) : b.path = row.path /\ (b = row \/ <<b, row>> \in B)
  BY <1>9, <1>10, <1>11
<1> QED
  BY <1>3, <1>4, <1>9, <1>12 DEF SortedItems

\* Re-exports sorted, one of each name and path kept.
LEMMA ReexportsKept ==
  ASSUME NEW Q \in SUBSET TypedReexports, NEW order \in Seq(Q), Distinct(order), Range(order) = Q,
         NEW kept \in Deduplicated(ReexportKeys(order), ReexportOrder(order))
  PROVE  /\ kept \in Seq(DOMAIN order) /\ Distinct(kept) /\ Picked(order, kept) = SortedReexports(Q)
         /\ Range(SortedReexports(Q)) = Best(Q, ReexportName, ReexportsBefore)
<1>1. PICK R : R = ReexportOrder(order)
  OBVIOUS
<1>2. PICK keys : keys = ReexportKeys(order)
  OBVIOUS
<1>3. PICK name : name = ReexportName
  OBVIOUS
<1>4. PICK B : B = ReexportsBefore
  OBVIOUS
<1>5. \A i \in DOMAIN order : order[i] \in Q /\ order[i] \in TypedReexports
  OBVIOUS
<1>6. Alike(order, R, B)
  <2> SUFFICES ASSUME NEW i \in DOMAIN order, NEW j \in DOMAIN order
               PROVE  <<i, j>> \in R <=> <<order[i], order[j]>> \in B
    BY DEF Alike
  <2>1. <<i, j>> \in R <=> ReexportBefore(order[i], order[j])
    BY <1>1 DEF ReexportOrder
  <2>2. <<order[i], order[j]>> \in B <=> ReexportBefore(order[i], order[j])
    BY <1>4, <1>5 DEF ReexportsBefore
  <2> QED BY <2>1, <2>2
<1>7. KeyedBy(order, name, keys)
  BY <1>2, <1>3, <1>5 DEF ReexportKeys, ReexportName, KeyedBy
<1>8. Sorts(B, Q) /\ kept \in Deduplicated(keys, R)
  BY <1>1, <1>2, <1>4, ReexportsSorted
<1>9. /\ kept \in Seq(DOMAIN order) /\ Distinct(kept)
      /\ Picked(order, kept) = InOrder(Best(Q, name, B), B)
      /\ Range(Picked(order, kept)) = Best(Q, name, B)
  <2>1. KeepsBest(order, Q, name, B, kept)
    BY <1>6, <1>7, <1>8, DeduplicatedIs
  <2> QED BY <2>1 DEF KeepsBest
<1> QED
  BY <1>3, <1>4, <1>9 DEF SortedReexports

\* Rows with typed fields are rows the arenas can hold.
LEMMA RowsTyped ==
  TypedItems \subseteq ItemRows /\ TypedReexports \subseteq ReexportRows
<1>1. Numerals \subseteq Words
  BY TextIs DEF Numerals
<1> QED BY <1>1 DEF TypedItems, TypedReexports, ItemRows, ReexportRows

\* A built index is what its rows make, and says what the best of them say.
LEMMA IndexIs ==
  ASSUME NEW K \in SUBSET TypedItems, NEW order \in Seq(K), Distinct(order), Range(order) = K,
         NEW Q \in SUBSET TypedReexports, NEW others \in Seq(Q), Distinct(others), Range(others) = Q,
         ~LayOut(order, others).arenas.overflowed,
         NEW kept \in Deduplicated(PathKeys(order), ItemOrder(order)),
         NEW keptOthers \in Deduplicated(ReexportKeys(others), ReexportOrder(others))
  PROVE  /\ View(LayOut(order, others)) = [items |-> order, reexports |-> others]
         /\ ToStored(Compact(Chosen(LayOut(order, others), kept, keptOthers))) = IndexOf(K, Q)
         /\ View(IndexOf(K, Q)) = [items |-> SortedItems(K), reexports |-> SortedReexports(Q)]
         /\ Range(SortedItems(K)) = Best(K, ItemName, ItemsBefore)
         /\ Range(SortedReexports(Q)) = Best(Q, ReexportName, ReexportsBefore)
         /\ \A row \in K : \E b \in Best(K, ItemName, ItemsBefore) :
              b.path = row.path /\ (b = row \/ <<b, row>> \in ItemsBefore)
<1>1. TypedItems \subseteq ItemRows /\ TypedReexports \subseteq ReexportRows
  BY RowsTyped
<1>2. order \in Seq(ItemRows) /\ others \in Seq(ReexportRows)
  BY <1>1
<1>3. Fit(order, others)
  BY <1>2, LayOutIs
<1>4. View(LayOut(order, others)) = [items |-> order, reexports |-> others]
  BY <1>2, <1>3, LayOutIs
<1>5. /\ kept \in Seq(DOMAIN order) /\ Distinct(kept) /\ Picked(order, kept) = SortedItems(K)
      /\ Range(SortedItems(K)) = Best(K, ItemName, ItemsBefore)
      /\ \A row \in K : \E b \in Best(K, ItemName, ItemsBefore) :
           b.path = row.path /\ (b = row \/ <<b, row>> \in ItemsBefore)
  BY ItemsKept
<1>6. /\ keptOthers \in Seq(DOMAIN others) /\ Distinct(keptOthers) /\ Picked(others, keptOthers) = SortedReexports(Q)
      /\ Range(SortedReexports(Q)) = Best(Q, ReexportName, ReexportsBefore)
  BY ReexportsKept
<1>7. /\ ToStored(Compact(Chosen(LayOut(order, others), kept, keptOthers))) =
           ToStored(LayOut(Picked(order, kept), Picked(others, keptOthers)))
      /\ View(ToStored(LayOut(Picked(order, kept), Picked(others, keptOthers)))) =
           [items |-> Picked(order, kept), reexports |-> Picked(others, keptOthers)]
  BY <1>2, <1>3, <1>5, <1>6, CompactIs
<1> QED
  BY <1>4, <1>5, <1>6, <1>7 DEF IndexOf

-----------------------------------------------------------------------------
(* Sequences of sequences *)

\* Two sequences put one behind the other have what they have.
LEMMA RangeOfBoth ==
  ASSUME NEW X, NEW s \in Seq(X), NEW t \in Seq(X)
  PROVE  s \o t \in Seq(X) /\ Range(s \o t) = Range(s) \cup Range(t)
<1>1. PICK a \in Nat, l \in Nat : a = Len(s) /\ l = Len(t)
  <2>1. Len(s) \in Nat /\ Len(t) \in Nat
    OBVIOUS
  <2> QED BY <2>1
<1>2. PICK u : u = s \o t
  OBVIOUS
<1>3. u \in Seq(X) /\ Len(u) = a + l /\ \A i \in 1 .. a + l : u[i] = IF i <= a THEN s[i] ELSE t[i - a]
  BY <1>1, <1>2, ConcatProperties
<1>4. DOMAIN s = 1 .. a /\ DOMAIN t = 1 .. l /\ DOMAIN u = 1 .. a + l
  BY <1>1, <1>3
<1>5. ASSUME NEW i \in 1 .. a PROVE i \in 1 .. a + l /\ u[i] = s[i]
  <2>1. i \in 1 .. a + l /\ i <= a
    OBVIOUS
  <2> QED BY <1>3, <2>1
<1>6. ASSUME NEW i \in 1 .. l PROVE a + i \in 1 .. a + l /\ u[a + i] = t[i]
  <2>1. a + i \in 1 .. a + l /\ ~(a + i <= a) /\ (a + i) - a = i
    OBVIOUS
  <2> QED BY <1>3, <2>1
<1>7. ASSUME NEW x \in Range(u) PROVE x \in Range(s) \cup Range(t)
  <2>1. PICK i \in 1 .. a + l : x = u[i]
    BY <1>4, <1>7 DEF Range
  <2>2. CASE i <= a
    <3>1. i \in 1 .. a
      BY <2>2
    <3> QED BY <1>4, <1>5, <2>1, <3>1 DEF Range
  <2>3. CASE ~(i <= a)
    <3>1. i - a \in 1 .. l /\ a + (i - a) = i
      BY <2>3
    <3>2. x = t[i - a]
      BY <1>3, <2>1, <2>3
    <3> QED BY <1>4, <3>1, <3>2 DEF Range
  <2> QED BY <2>2, <2>3
<1>8. ASSUME NEW x \in Range(s) PROVE x \in Range(u)
  BY <1>4, <1>5, <1>8 DEF Range
<1>9. ASSUME NEW x \in Range(t) PROVE x \in Range(u)
  BY <1>4, <1>6, <1>9 DEF Range
<1>10. Range(u) = Range(s) \cup Range(t)
  BY <1>7, <1>8, <1>9
<1> QED
  BY <1>2, <1>3, <1>10

\* Sequences put one behind the other, step by step.
Joins(g, seqs, X) ==
  /\ \A i \in DOMAIN seqs : g[i] \in Seq(X)
  /\ \A i \in DOMAIN seqs : g[i] = IF i = 1 THEN seqs[i] ELSE g[i - 1] \o seqs[i]
  /\ FlattenSeq(seqs) = g[Len(seqs)]

\* Sequences are put one behind the other step by step.
LEMMA FlattenSteps ==
  ASSUME NEW X, NEW seqs \in Seq(Seq(X)), seqs # <<>>
  PROVE  \E g : Joins(g, seqs, X)
<1>1. PICK n \in Nat : n = Len(seqs) /\ n > 0 /\ DOMAIN seqs = 1 .. n /\ \A i \in 1 .. n : seqs[i] \in Seq(X)
  OBVIOUS
<1>2. PICK rank : rank = [i \in 1 .. n |-> i]
  OBVIOUS
<1>3. PICK before : before = [i \in 1 .. n |-> IF i = 1 THEN 1 ELSE i - 1]
  OBVIOUS
<1>4. PICK step : step = [d \in (1 .. n) \X Seq(X) |-> d[2] \o seqs[d[1]]]
  OBVIOUS
<1>5. PICK last : last = {1}
  OBVIOUS
<1>6. before \in [1 .. n -> 1 .. n] /\ seqs \in [1 .. n -> Seq(X)]
  BY <1>1, <1>3
<1>7. step \in [(1 .. n) \X Seq(X) -> Seq(X)]
  <2>1. \A i \in 1 .. n, v \in Seq(X) : v \o seqs[i] \in Seq(X)
    BY <1>1, ConcatProperties
  <2> QED BY <1>4, <2>1
<1>8. Descends(rank, n, 1 .. n, last, before)
  BY <1>1, <1>2, <1>3, <1>5 DEF Descends
<1>9. PICK f \in [1 .. n -> Seq(X)] : Solves(f, 1 .. n, last, seqs, before, step)
  BY <1>6, <1>7, <1>8, Recursion
<1>10. ASSUME NEW i \in 1 .. n PROVE f[i] = IF i = 1 THEN seqs[i] ELSE f[i - 1] \o seqs[i]
  <2>1. CASE i = 1
    BY <1>5, <1>9, <2>1 DEF Solves
  <2>2. CASE i # 1
    <3>1. i - 1 \in 1 .. n /\ before[i] = i - 1 /\ f[i - 1] \in Seq(X)
      BY <1>3, <1>9, <2>2
    <3>2. f[i] = step[<<i, f[i - 1]>>]
      BY <1>5, <1>9, <2>2, <3>1 DEF Solves
    <3> QED BY <1>4, <2>2, <3>1, <3>2
  <2> QED BY <2>1, <2>2
<1>11. f = [i \in 1 .. n |-> IF i = 1 THEN seqs[i] ELSE f[i - 1] \o seqs[i]]
  BY <1>9, <1>10
<1>12. PICK g : /\ g = [i \in 1 .. n |-> IF i = 1 THEN seqs[i] ELSE g[i - 1] \o seqs[i]]
                /\ FlattenSeq(seqs) = g[n]
  <2>1. \E g : g = [i \in 1 .. Len(seqs) |-> IF i = 1 THEN seqs[i] ELSE g[i - 1] \o seqs[i]]
    BY <1>1, <1>11
  <2>2. Len(seqs) # 0
    BY <1>1
  <2> QED BY <1>1, <2>1, <2>2 DEF FlattenSeq
<1>13. PICK good : good = {k \in 0 .. n : k = 0 \/ g[k] \in Seq(X)}
  OBVIOUS
<1>14. 0 \in good
  BY <1>13
<1>15. ASSUME NEW k \in 0 .. n - 1, k \in good PROVE k + 1 \in good
  <2>1. k + 1 \in 1 .. n /\ k + 1 \in 0 .. n /\ (k + 1) - 1 = k
    OBVIOUS
  <2>2. g[k + 1] \in Seq(X)
    <3>1. CASE k = 0
      BY <1>1, <1>12, <2>1, <3>1
    <3>2. CASE k # 0
      <4>0. k + 1 # 1
        BY <3>2
      <4>1. g[k + 1] = g[k] \o seqs[k + 1]
        BY <1>12, <2>1, <4>0
      <4>2. g[k] \in Seq(X) /\ seqs[k + 1] \in Seq(X)
        BY <1>1, <1>13, <1>15, <2>1, <3>2
      <4> QED BY <4>1, <4>2, ConcatProperties
    <3> QED BY <3>1, <3>2
  <2> QED BY <1>13, <2>1, <2>2
<1>16. \A k \in 0 .. n : k \in good
  BY <1>14, <1>15, UpTo
<1>17. \A i \in 1 .. n : g[i] \in Seq(X)
  BY <1>13, <1>16
<1>18. Joins(g, seqs, X)
  BY <1>1, <1>12, <1>17 DEF Joins
<1> QED
  BY <1>18

\* Sequences put one behind the other have what they have.
LEMMA FlattenIs ==
  ASSUME NEW X, NEW seqs \in Seq(Seq(X))
  PROVE  /\ FlattenSeq(seqs) \in Seq(X)
         /\ Range(FlattenSeq(seqs)) = UNION {Range(seqs[i]) : i \in DOMAIN seqs}
<1>1. PICK n \in Nat : n = Len(seqs) /\ DOMAIN seqs = 1 .. n /\ \A i \in 1 .. n : seqs[i] \in Seq(X)
  OBVIOUS
<1>2. CASE n = 0
  <2>1. seqs = <<>> /\ FlattenSeq(seqs) = seqs
    BY <1>1, <1>2 DEF FlattenSeq
  <2>2. <<>> \in Seq(X)
    OBVIOUS
  <2>3. DOMAIN seqs = {} /\ Range(seqs) = {}
    BY <1>1, <1>2 DEF Range
  <2>4. UNION {Range(seqs[i]) : i \in DOMAIN seqs} = {}
    BY <2>3
  <2> QED BY <2>1, <2>2, <2>3, <2>4
<1>3. CASE n > 0
  <2>1. PICK g : Joins(g, seqs, X)
    <3>1. seqs # <<>>
      BY <1>1, <1>3
    <3> QED BY <3>1, FlattenSteps
  <2>2. /\ \A i \in 1 .. n : g[i] \in Seq(X)
        /\ \A i \in 1 .. n : g[i] = IF i = 1 THEN seqs[i] ELSE g[i - 1] \o seqs[i]
        /\ FlattenSeq(seqs) = g[n]
    BY <1>1, <2>1 DEF Joins
  <2>3. PICK good : good = {k \in 0 .. n : k = 0 \/ Range(g[k]) = UNION {Range(seqs[i]) : i \in 1 .. k}}
    OBVIOUS
  <2>4. 0 \in good
    BY <2>3
  <2>5. ASSUME NEW k \in 0 .. n - 1, k \in good PROVE k + 1 \in good
    <3>1. k + 1 \in 1 .. n /\ k + 1 \in 0 .. n /\ k \in Nat /\ (k + 1) - 1 = k
      BY <1>3
    <3>2. CASE k = 0
      <4>1. g[1] = seqs[1] /\ k + 1 = 1
        BY <2>2, <3>1, <3>2
      <4>2. UNION {Range(seqs[i]) : i \in 1 .. 1} = Range(seqs[1])
        OBVIOUS
      <4> QED BY <2>3, <3>1, <4>1, <4>2
    <3>3. CASE k # 0
      <4>0. k + 1 # 1 /\ k \in 1 .. n
        BY <3>1, <3>3
      <4>1. PICK s \in Seq(X), t \in Seq(X) : s = g[k] /\ t = seqs[k + 1]
        BY <1>1, <2>2, <3>1, <4>0
      <4>2. Range(s) = UNION {Range(seqs[i]) : i \in 1 .. k}
        BY <2>3, <2>5, <3>3, <4>1
      <4>3. g[k + 1] = s \o t
        BY <2>2, <3>1, <4>0, <4>1
      <4>4. Range(s \o t) = Range(s) \cup Range(t)
        BY RangeOfBoth
      <4>5. 1 .. k + 1 = (1 .. k) \cup {k + 1}
        BY <3>1
      <4>6. UNION {Range(seqs[i]) : i \in 1 .. k + 1} = Range(s) \cup Range(t)
        BY <4>1, <4>2, <4>5
      <4> QED BY <2>3, <3>1, <4>3, <4>4, <4>6
    <3> QED BY <3>2, <3>3
  <2>6. \A k \in 0 .. n : k \in good
    BY <2>4, <2>5, UpTo
  <2>7. n \in good /\ n \in 1 .. n
    BY <1>3, <2>6
  <2>8. Range(g[n]) = UNION {Range(seqs[i]) : i \in 1 .. n}
    BY <1>3, <2>3, <2>7
  <2> QED BY <1>1, <2>2, <2>7, <2>8
<1> QED
  BY <1>1, <1>2, <1>3

-----------------------------------------------------------------------------
(* The rows of a document *)

\* The rows each entry of the paths table adds, and what the uses of a document add.
ItemRowsOf(id) ==
  IF Local(id)
    THEN {Row(document.paths[id].path, document.paths[id].kind, id)}
         \cup {MemberRow(document.paths[id].path, member) :
                 member \in {k \in Range(Members(id)) : Nameable(k)}}
    ELSE {}
DocRows == [id \in DOMAIN document.paths |-> ItemRowsOf(id)]
RowsOfIds(rows, ids) == UNION {rows[id] : id \in ids}
AllReexports == {ReexportRow(id) : id \in GenuineIds}

\* What an entry has, and what is kept of its body.
Bodies == [members : Seq(Nat), impls : Seq(Nat), ofTrait : BOOLEAN, target : Nat, alias : Seq(Nat)]

\* An entry's fields are typed (IndexConstants).
LEMMA EntryIs ==
  ASSUME document \in Documents, NEW id, Known(id)
  PROVE  /\ Entry(id).name \in Words /\ Entry(id).kind \in Nat /\ Entry(id).docs \in Nat
         /\ Entry(id).deprecated \in BOOLEAN /\ Body(id) \in Bodies
<1>1. /\ Entry(id).name \in Seq(Nat) /\ Entry(id).kind \in Nat /\ Entry(id).docs \in Nat
      /\ Entry(id).deprecated \in BOOLEAN /\ Entry(id).body \in Bodies \cup {Scalar}
  BY IndexConstants DEF Entry, Known, Bodies
<1>2. NoBody \in Bodies
  BY DEF NoBody, Bodies
<1>3. Body(id) \in Bodies
  BY <1>1, <1>2 DEF Body
<1> QED
  BY <1>1, <1>3 DEF Words

\* An entry of the paths table.
LEMMA SummaryIs ==
  ASSUME document \in Documents, NEW id \in DOMAIN document.paths
  PROVE  /\ document.paths[id].crate \in Nat /\ document.paths[id].path \in Words
         /\ document.paths[id].kind \in Nat
<1>1. document.paths \in [DOMAIN document.paths -> [crate : Nat, path : Seq(Nat), kind : Nat]]
  BY IndexConstants
<1>2. document.paths[id] \in [crate : Nat, path : Seq(Nat), kind : Nat]
  BY <1>1
<1> QED
  BY <1>2 DEF Words

\* A row has typed fields.
LEMMA RowIs ==
  ASSUME document \in Documents, NEW path \in Words, NEW kind \in Nat, NEW id
  PROVE  Row(path, kind, id) \in TypedItems
<1>1. (IF Known(id) THEN Entry(id).docs ELSE 0) \in Nat
  BY EntryIs
<1>2. (Known(id) /\ Entry(id).deprecated) \in BOOLEAN
  BY EntryIs
<1>3. Text(kind) \in Numerals /\ Text(IF Known(id) THEN Entry(id).docs ELSE 0) \in Numerals
  BY <1>1 DEF Numerals
<1> QED
  BY <1>2, <1>3 DEF Row, TypedItems

\* So has the row of a member.
LEMMA MemberRowIs ==
  ASSUME document \in Documents, NEW path \in Words, NEW id, Known(id)
  PROVE  MemberRow(path, id) \in TypedItems
<1>1. Separator \in Words
  BY DEF Separator, Colon, Words
<1>2. Entry(id).name \in Words /\ Entry(id).kind \in Nat
  BY EntryIs
<1>3. path \o Separator \in Words
  BY <1>1, ConcatProperties DEF Words
<1>4. path \o Separator \o Entry(id).name \in Words
  BY <1>2, <1>3, ConcatProperties DEF Words
<1> QED
  BY <1>2, <1>4, RowIs DEF MemberRow

\* The members under an item are those of a trait, or of the blocks that implement a type.
LEMMA MembersAre ==
  ASSUME document \in Documents, NEW id
  PROVE  /\ Members(id) \in Seq(Nat)
         /\ RustdocMembers(id) \subseteq Range(Members(id))
<1>1. CASE ~Known(id)
  <2>1. Members(id) = <<>>
    BY <1>1 DEF Members
  <2>2. <<>> \in Seq(Nat) /\ RustdocMembers(id) = {}
    BY <1>1 DEF RustdocMembers
  <2> QED BY <2>1, <2>2
<1>2. CASE Known(id) /\ Entry(id).kindName = "trait"
  <2>1. Members(id) = Body(id).members
    BY <1>2 DEF Members
  <2>2. Members(id) \in Seq(Nat)
    BY <1>2, <2>1, EntryIs DEF Bodies
  <2>3. ASSUME Entry(id).body # Scalar PROVE RustdocMembers(id) = Range(Members(id))
    <3>1. Body(id) = Entry(id).body
      BY <1>2, <2>3 DEF Body, WorthReading
    <3>2. RustdocMembers(id) = ToSet(Entry(id).body.members)
      BY <1>2, <2>3 DEF RustdocMembers
    <3> QED BY <2>1, <3>1, <3>2 DEF ToSet, Range
  <2>4. Entry(id).body = Scalar => RustdocMembers(id) = {}
    BY DEF RustdocMembers
  <2> QED BY <2>2, <2>3, <2>4
<1>3. CASE Known(id) /\ Entry(id).kindName # "trait" /\ Entry(id).kindName \notin {"struct", "enum", "union"}
  <2>1. Members(id) = <<>>
    BY <1>3 DEF Members
  <2>2. <<>> \in Seq(Nat) /\ RustdocMembers(id) = {}
    BY <1>3 DEF RustdocMembers
  <2> QED BY <2>1, <2>2
<1>4. CASE Known(id) /\ Entry(id).kindName # "trait" /\ Entry(id).kindName \in {"struct", "enum", "union"}
  <2>1. PICK impls : impls = Body(id).impls
    OBVIOUS
  <2>2. impls \in Seq(Nat)
    BY <1>4, <2>1, EntryIs DEF Bodies
  <2>3. PICK seqs : seqs = [i \in DOMAIN impls |-> IF Inherent(impls[i]) THEN Body(impls[i]).members ELSE <<>>]
    OBVIOUS
  <2>4. Members(id) = FlattenSeq(seqs)
    BY <1>4, <2>1, <2>3 DEF Members
  <2>5. \A i \in DOMAIN impls : seqs[i] \in Seq(Nat)
    <3> SUFFICES ASSUME NEW i \in DOMAIN impls PROVE seqs[i] \in Seq(Nat)
      OBVIOUS
    <3>1. CASE Inherent(impls[i])
      <4>1. Known(impls[i])
        BY <3>1 DEF Inherent
      <4> QED BY <2>3, <3>1, <4>1, EntryIs DEF Bodies
    <3>2. CASE ~Inherent(impls[i])
      BY <2>3, <3>2
    <3> QED BY <3>1, <3>2
  <2>6. seqs \in Seq(Seq(Nat)) /\ DOMAIN seqs = DOMAIN impls
    <3>1. PICK n \in Nat : DOMAIN impls = 1 .. n
      BY <2>2
    <3>2. seqs \in [1 .. n -> Seq(Nat)]
      BY <2>3, <2>5, <3>1
    <3> QED BY <3>1, <3>2
  <2>7. /\ FlattenSeq(seqs) \in Seq(Nat)
        /\ Range(FlattenSeq(seqs)) = UNION {Range(seqs[i]) : i \in DOMAIN seqs}
    BY <2>6, FlattenIs
  <2>8. ASSUME Entry(id).body # Scalar, NEW m \in RustdocMembers(id) PROVE m \in Range(Members(id))
    <3>1. Body(id) = Entry(id).body
      BY <1>4, <2>8 DEF Body, WorthReading
    <3>2. PICK block \in ToSet(Entry(id).body.impls) :
            /\ Known(block) /\ Entry(block).kindName = "impl"
            /\ Entry(block).body # Scalar /\ ~Entry(block).body.ofTrait
            /\ m \in ToSet(Entry(block).body.members)
      BY <1>4, <2>8 DEF RustdocMembers
    <3>3. PICK i \in DOMAIN impls : block = impls[i]
      BY <2>1, <3>1, <3>2 DEF ToSet
    <3>4. Body(block) = Entry(block).body
      BY <3>2 DEF Body, WorthReading
    <3>5. Inherent(block)
      BY <3>2, <3>4 DEF Inherent
    <3>6. seqs[i] = Entry(block).body.members
      BY <2>3, <3>3, <3>4, <3>5
    <3>7. m \in Range(seqs[i])
      BY <3>2, <3>6 DEF ToSet, Range
    <3> QED BY <2>4, <2>6, <2>7, <3>3, <3>7
  <2>9. Entry(id).body = Scalar => RustdocMembers(id) = {}
    BY DEF RustdocMembers
  <2> QED BY <2>4, <2>7, <2>8, <2>9
<1> QED
  BY <1>1, <1>2, <1>3, <1>4

\* The rows of an entry are typed, and all there is on offer.
LEMMA DocRowsAre ==
  ASSUME document \in Documents
  PROVE  /\ \A id \in DOMAIN document.paths : DocRows[id] \in SUBSET TypedItems
         /\ OfferedRows \subseteq RowsOfIds(DocRows, DOMAIN document.paths)
         /\ IsFiniteSet(DOMAIN document.paths)
<1>1. ASSUME NEW id \in DOMAIN document.paths PROVE DocRows[id] \in SUBSET TypedItems
  <2>1. Row(document.paths[id].path, document.paths[id].kind, id) \in TypedItems
    BY SummaryIs, RowIs
  <2>2. \A k : Nameable(k) => MemberRow(document.paths[id].path, k) \in TypedItems
    BY SummaryIs, MemberRowIs DEF Nameable
  <2>3. DocRows[id] = ItemRowsOf(id)
    BY DEF DocRows
  <2> QED BY <2>1, <2>2, <2>3 DEF ItemRowsOf
<1>2. ASSUME NEW row \in OfferedRows PROVE row \in RowsOfIds(DocRows, DOMAIN document.paths)
  <2>1. PICK id \in DOMAIN document.paths :
          /\ Local(id)
          /\ \/ row = Row(document.paths[id].path, document.paths[id].kind, id)
             \/ row \in {MemberRow(document.paths[id].path, member) :
                           member \in {k \in RustdocMembers(id) : Nameable(k)}}
    BY <1>2 DEF OfferedRows
  <2>2. RustdocMembers(id) \subseteq Range(Members(id))
    BY MembersAre
  <2>3. row \in ItemRowsOf(id)
    BY <2>1, <2>2 DEF ItemRowsOf
  <2>4. row \in DocRows[id]
    BY <2>3 DEF DocRows
  <2> QED BY <2>4 DEF RowsOfIds
<1>3. IsFiniteSet(DOMAIN document.paths)
  BY IndexConstants
<1> QED
  BY <1>1, <1>2, <1>3

\* The re-exports of a document are typed, and not more than its entries.
LEMMA ReexportsAre ==
  ASSUME document \in Documents
  PROVE  /\ IsFiniteSet(GenuineIds) /\ Cardinality(GenuineIds) \in Nat
         /\ \A id \in GenuineIds : ReexportRow(id) \in TypedReexports
<1>1. IsFiniteSet(DOMAIN document.index)
  BY IndexConstants
<1>2. GenuineIds \in SUBSET DOMAIN document.index
  BY DEF GenuineIds
<1>3. IsFiniteSet(GenuineIds) /\ Cardinality(GenuineIds) \in Nat
  BY <1>1, <1>2, FS_Subset, FS_CardinalityType
<1>4. ASSUME NEW id \in GenuineIds PROVE ReexportRow(id) \in TypedReexports
  <2>1. Known(id) /\ Body(id).target \in DOMAIN document.paths
    BY DEF GenuineIds, Genuine, Known
  <2>2. PICK target : target = document.paths[Body(id).target]
    OBVIOUS
  <2>3. target.crate \in Nat /\ target.path \in Words /\ target.kind \in Nat
    BY <2>1, <2>2, SummaryIs
  <2>4. UseName(id) \in Words
    BY <2>1, EntryIs DEF UseName, Bodies, Words
  <2>5. Text(target.crate) \in Numerals /\ Text(target.kind) \in Numerals
    BY <2>3 DEF Numerals
  <2>6. ReexportRow(id) = [name |-> UseName(id), crate |-> Text(target.crate), path |-> target.path,
                           kind |-> Text(target.kind)]
    BY <2>2 DEF ReexportRow
  <2> QED BY <2>3, <2>4, <2>5, <2>6 DEF TypedReexports
<1> QED
  BY <1>3, <1>4

-----------------------------------------------------------------------------
(* A visit *)

\* Of more numbers than there is room for, as many as there is room for are before one.
LEMMA MoreThanRoom ==
  ASSUME NEW S \in SUBSET Nat, IsFiniteSet(S), NEW room \in Nat, Cardinality(S) > room
  PROVE  \E i \in S : Cardinality({j \in S : j < i}) = room
<1>1. PICK R : R = {d \in Nat \X Nat : d[1] < d[2]}
  OBVIOUS
<1>2. \A i \in S, j \in S : <<i, j>> \in R <=> i < j
  BY <1>1
<1>3. Sorts(R, S)
  BY <1>2 DEF Sorts, PutsInOrder
<1>4. PICK m \in Nat : m = Cardinality(S)
  BY FS_CardinalityType
<1>5. room + 1 \in 1 .. m /\ room + 1 - 1 = room
  BY <1>4
<1>6. PICK i \in S : Cardinality(Earlier(S, R, i)) = room
  <2>1. PICK t : Placed(S, R, t)
    BY <1>3, InOrderIs
  <2>2. t \in Seq(S) /\ Len(t) = m
    BY <1>4, <2>1 DEF Placed
  <2>3. t[room + 1] \in S
    BY <1>5, <2>2
  <2>4. Cardinality(Earlier(S, R, t[room + 1])) = room + 1 - 1
    <3>1. PICK k : k = room + 1
      OBVIOUS
    <3>2. PICK i : i = t[k]
      OBVIOUS
    <3>3. k \in 1 .. Cardinality(S) /\ i \in S
      BY <1>4, <1>5, <2>3, <3>1, <3>2
    <3>4. t[k] = i <=> Cardinality(Earlier(S, R, i)) = k - 1
      BY <2>1, <3>3 DEF Placed
    <3> QED BY <3>1, <3>2, <3>4
  <2> QED BY <1>5, <2>3, <2>4
<1>7. Earlier(S, R, i) = {j \in S : j < i}
  BY <1>2 DEF Earlier
<1> QED
  BY <1>6, <1>7

\* What a visit adds for the members it reaches.
RowsAdded(id, members, taken) ==
  {Row(document.paths[id].path, document.paths[id].kind, id)}
    \cup {MemberRow(document.paths[id].path, members[i]) : i \in taken}

\* A visit that is not cut short adds the rows of its entry, and every visit only rows of it.
LEMMA VisitAdds ==
  ASSUME document \in Documents, NEW id \in DOMAIN document.paths, Local(id),
         NEW room \in Nat, NEW members, members = Members(id),
         NEW reached, reached = Reached(members, room),
         NEW taken, taken = {i \in reached : Nameable(members[i])}
  PROVE  /\ RowsAdded(id, members, taken) \subseteq DocRows[id]
         /\ ~CutShort(members, reached) => RowsAdded(id, members, taken) = DocRows[id]
         /\ IsFiniteSet(taken) /\ Cardinality(taken) \in 0 .. room
<1>1. members \in Seq(Nat)
  BY MembersAre
<1>2. PICK n \in Nat : DOMAIN members = 1 .. n
  BY <1>1
<1>3. reached \subseteq DOMAIN members
  BY DEF Reached
<1>4. DocRows[id] = ItemRowsOf(id)
  BY DEF DocRows
<1>5. DocRows[id] = {Row(document.paths[id].path, document.paths[id].kind, id)}
         \cup {MemberRow(document.paths[id].path, member) :
                 member \in {k \in Range(members) : Nameable(k)}}
  BY <1>4 DEF ItemRowsOf
<1>6. RowsAdded(id, members, taken) \subseteq DocRows[id]
  <2>1. \A i \in taken : members[i] \in {k \in Range(members) : Nameable(k)}
    BY <1>3 DEF Range
  <2> QED BY <1>5, <2>1 DEF RowsAdded
<1>7. ASSUME ~CutShort(members, reached) PROVE RowsAdded(id, members, taken) = DocRows[id]
  <2>1. reached = DOMAIN members
    BY <1>7 DEF CutShort
  <2>2. ASSUME NEW k \in Range(members), Nameable(k) PROVE \E i \in taken : members[i] = k
    <3>1. PICK i \in DOMAIN members : members[i] = k
      BY DEF Range
    <3> QED BY <2>1, <2>2, <3>1
  <2> QED BY <1>5, <1>6, <2>2 DEF RowsAdded
<1>8. IsFiniteSet(1 .. n)
  <2>1. 1 \in Int /\ n \in Int
    OBVIOUS
  <2> QED BY <2>1, FS_Interval
<1>9. taken \in SUBSET (1 .. n)
  BY <1>2, <1>3
<1>10. IsFiniteSet(taken) /\ Cardinality(taken) \in Nat
  BY <1>8, <1>9, FS_Subset, FS_CardinalityType
<1>11. Cardinality(taken) <= room
  <2>1. SUFFICES ASSUME Cardinality(taken) > room PROVE FALSE
    BY <1>10
  <2>3. taken \in SUBSET Nat
    BY <1>9
  <2>7. PICK i \in taken : Cardinality({j \in taken : j < i}) = room
    BY <1>10, <2>1, <2>3, MoreThanRoom
  <2>8. PICK before : before = {j \in 1 .. i - 1 : Nameable(members[j])}
    OBVIOUS
  <2>9. Cardinality(before) < room
    BY <2>7, <2>8 DEF Reached
  <2>10. {j \in taken : j < i} \subseteq before
    <3>1. ASSUME NEW j \in taken, j < i PROVE j \in before
      <4>2. j < i /\ j \in 1 .. n /\ i \in 1 .. n
        BY <1>9, <3>1
      <4>3. j \in 1 .. i - 1 /\ Nameable(members[j])
        BY <1>3, <4>2
      <4> QED BY <2>8, <4>3
    <3> QED BY <3>1
  <2>11. IsFiniteSet(before)
    <3>1. i \in 1 .. n
      BY <1>9
    <3>2. before \subseteq 1 .. n
      BY <2>8, <3>1
    <3> QED BY <1>8, <3>2, FS_Subset
  <2>12. /\ Cardinality({j \in taken : j < i}) <= Cardinality(before)
         /\ Cardinality(before) \in Nat
    BY <2>10, <2>11, FS_Subset, FS_CardinalityType
  <2> QED BY <2>7, <2>9, <2>12
<1> QED
  BY <1>6, <1>7, <1>10, <1>11

\* The rows of a finite number of members, and their number.
LEMMA RowsAddedAre ==
  ASSUME NEW id, NEW members, NEW taken, IsFiniteSet(taken)
  PROVE  /\ IsFiniteSet(RowsAdded(id, members, taken))
         /\ Cardinality(RowsAdded(id, members, taken)) <= 1 + Cardinality(taken)
         /\ Cardinality(RowsAdded(id, members, taken)) \in Nat
<1>1. PICK own : own = {Row(document.paths[id].path, document.paths[id].kind, id)}
  OBVIOUS
<1>2. PICK f : f = [i \in taken |-> MemberRow(document.paths[id].path, members[i])]
  OBVIOUS
<1>3. PICK below : below = {MemberRow(document.paths[id].path, members[i]) : i \in taken}
  OBVIOUS
<1>4. IsFiniteSet(own) /\ Cardinality(own) = 1
  BY <1>1, FS_Singleton
<1>5. f \in Surjection(taken, below)
  BY <1>2, <1>3 DEF Surjection
<1>6. IsFiniteSet(below) /\ Cardinality(below) <= Cardinality(taken)
  BY <1>5, FS_Surjection
<1>7. RowsAdded(id, members, taken) = own \cup below
  BY <1>1, <1>3 DEF RowsAdded
<1>8. /\ IsFiniteSet(own \cup below)
      /\ Cardinality(own \cup below) = Cardinality(own) + Cardinality(below) - Cardinality(own \cap below)
  BY <1>4, <1>6, FS_Union
<1>9. IsFiniteSet(own \cap below)
  BY <1>4, FS_Intersection
<1>10. /\ Cardinality(own \cap below) \in Nat /\ Cardinality(below) \in Nat
       /\ Cardinality(taken) \in Nat /\ Cardinality(own \cup below) \in Nat
  BY <1>6, <1>8, <1>9, FS_CardinalityType
<1> QED
  BY <1>4, <1>6, <1>7, <1>8, <1>10

-----------------------------------------------------------------------------
(* What a parse has, and has built *)

\* The rows a parse has collected.
ItemsHeld(p) ==
  /\ items[p] \subseteq RowsOfIds(DocRows, DOMAIN document.paths)
  /\ ~truncated[p] => items[p] = RowsOfIds(DocRows, DOMAIN document.paths \ unseen[p])
  /\ stage[p] # "items" => unseen[p] = {}

\* The re-exports it has collected.
ReexportsHeld(p) ==
  /\ reexports[p] \subseteq AllReexports
  /\ IsFiniteSet(reexports[p])
  /\ stage[p] \in {"sort", "built"} /\ Cardinality(GenuineIds) <= MaxItems =>
       reexports[p] = AllReexports

\* An index is a function of the sets of rows it was built from.
IndexHeld(p) ==
  LET K == items[p]
      Q == reexports[p]
  IN /\ index[p] = IndexOf(K, Q)
     /\ View(index[p]) = [items |-> SortedItems(K), reexports |-> SortedReexports(Q)]
     /\ Range(SortedItems(K)) = Best(K, ItemName, ItemsBefore)
     /\ Range(SortedReexports(Q)) = Best(Q, ReexportName, ReexportsBefore)
     /\ \A row \in K : \E b \in Best(K, ItemName, ItemsBefore) :
          b.path = row.path /\ (b = row \/ <<b, row>> \in ItemsBefore)

ParseHolds(p) ==
  /\ ItemsHeld(p)
  /\ ReexportsHeld(p)
  /\ stage[p] = "built" => IndexHeld(p)

BuildInv ==
  /\ BuildTypeOK
  /\ DOMAIN items = Parses /\ DOMAIN reexports = Parses /\ DOMAIN index = Parses
  /\ \A p \in Parses : ParseHolds(p)

\* The document does not change, nor does what it offers.
LEMMA SameDocument ==
  ASSUME document' = document
  PROVE  /\ DocRows' = DocRows /\ GenuineIds' = GenuineIds /\ AllReexports' = AllReexports
         /\ OfferedRows' = OfferedRows
<1>1. DocRows' = DocRows
  BY DEF DocRows, ItemRowsOf, Local, Row, MemberRow, Members, Nameable, Known, Entry, Body, Inherent
<1>2. GenuineIds' = GenuineIds
  BY DEF GenuineIds, Genuine, UseName, Body, Entry
<1>3. AllReexports' = AllReexports
  BY <1>2 DEF AllReexports, ReexportRow, UseName, Body, Entry
<1>4. OfferedRows' = OfferedRows
  BY DEF OfferedRows, RustdocMembers, Local, Row, MemberRow, Nameable, Known, Entry
<1> QED
  BY <1>1, <1>2, <1>3, <1>4

-----------------------------------------------------------------------------
(* The invariant holds *)

\* A parse none of whose state changes goes on being as it was.
LEMMA Undisturbed ==
  ASSUME document' = document, NEW q, ParseHolds(q),
         stage'[q] = stage[q], unseen'[q] = unseen[q], items'[q] = items[q],
         reexports'[q] = reexports[q], truncated'[q] = truncated[q], index'[q] = index[q]
  PROVE  ParseHolds(q)'
<1>1. /\ DocRows' = DocRows /\ GenuineIds' = GenuineIds /\ AllReexports' = AllReexports
  BY SameDocument
<1>2. ItemsHeld(q)'
  BY <1>1 DEF ParseHolds, ItemsHeld
<1>3. ReexportsHeld(q)'
  BY <1>1 DEF ParseHolds, ReexportsHeld
<1>4. IndexHeld(q) => IndexHeld(q)'
  BY DEF IndexHeld
<1> QED
  BY <1>2, <1>3, <1>4 DEF ParseHolds

\* Rows of one more entry.
LEMMA OneEntryMore ==
  ASSUME NEW rows, NEW E, NEW id
  PROVE  RowsOfIds(rows, E \cup {id}) = RowsOfIds(rows, E) \cup rows[id]
  BY DEF RowsOfIds

\* An entry's rows are among those of all entries.
LEMMA RowsOfAll ==
  ASSUME NEW rows, NEW D, NEW id \in D
  PROVE  rows[id] \subseteq RowsOfIds(rows, D)
  BY DEF RowsOfIds

\* The invariant holds at first.
LEMMA InitHolds ==
  BuildInit => BuildInv
<1> SUFFICES ASSUME BuildInit PROVE BuildInv
  OBVIOUS
<1> USE DEF BuildInit
<1>1. BuildTypeOK
  <2>1. MaxItems \in Nat
    BY IndexConstants
  <2>2. IsFiniteSet({}) /\ Cardinality({}) = 0
    BY FS_EmptySet
  <2> QED BY <2>1, <2>2 DEF BuildTypeOK
<1>2. ASSUME NEW p \in Parses PROVE ParseHolds(p)
  <2>1. RowsOfIds(DocRows, DOMAIN document.paths \ DOMAIN document.paths) = {}
    BY DEF RowsOfIds
  <2>2. ItemsHeld(p)
    BY <2>1 DEF ItemsHeld
  <2>3. ReexportsHeld(p)
    BY FS_EmptySet DEF ReexportsHeld
  <2> QED BY <2>2, <2>3 DEF ParseHolds
<1> QED
  BY <1>1, <1>2 DEF BuildInv

\* The entry a visit takes: what it changes for its parse.
LEMMA VisitHolds ==
  ASSUME BuildInv, NEW p \in Parses, Visit(p)
  PROVE  BuildInv'
<1>1. /\ document' = document /\ stage' = stage /\ reexports' = reexports /\ index' = index
      /\ stage[p] = "items"
  BY DEF Visit
<1>2. /\ document \in Documents
      /\ unseen \in [Parses -> SUBSET DOMAIN document.paths] /\ count \in [Parses -> 0 .. MaxItems]
      /\ truncated \in [Parses -> BOOLEAN] /\ DOMAIN items = Parses
      /\ \A q \in Parses : IsFiniteSet(items[q]) /\ Cardinality(items[q]) <= count[q]
  BY DEF BuildInv, BuildTypeOK
<1>3. MaxItems \in Nat
  BY IndexConstants
<1>4. ItemsHeld(p) /\ ReexportsHeld(p)
  BY DEF BuildInv, ParseHolds
<1>5. DocRows' = DocRows /\ GenuineIds' = GenuineIds /\ AllReexports' = AllReexports
  BY <1>1, SameDocument
<1>6. PICK D : D = DOMAIN document.paths
  OBVIOUS
<1>7. PICK id \in unseen[p] :
       \/ /\ ~Local(id)
          /\ unseen' = [unseen EXCEPT ![p] = @ \ {id}]
          /\ UNCHANGED <<items, count, truncated>>
       \/ /\ Local(id)
          /\ count[p] >= MaxItems
          /\ truncated' = [truncated EXCEPT ![p] = TRUE]
          /\ unseen' = [unseen EXCEPT ![p] = {}]
          /\ UNCHANGED <<items, count>>
       \/ /\ Local(id)
          /\ count[p] < MaxItems
          /\ LET summary == document.paths[id]
                 members == Members(id)
                 reached == Reached(members, MaxItems - count[p] - 1)
                 taken == {i \in reached : Nameable(members[i])}
             IN /\ items' = [items EXCEPT ![p] = @ \cup {Row(summary.path, summary.kind, id)}
                               \cup {MemberRow(summary.path, members[i]) : i \in taken}]
                /\ count' = [count EXCEPT ![p] = @ + 1 + Cardinality(taken)]
                /\ truncated' = [truncated EXCEPT ![p] = @ \/ CutShort(members, reached)]
          /\ unseen' = [unseen EXCEPT ![p] = @ \ {id}]
  BY DEF Visit
<1>8. unseen[p] \in SUBSET D /\ id \in D
  BY <1>2, <1>6, <1>7
<1>9. PICK more : /\ more \subseteq RowsOfIds(DocRows, D) /\ IsFiniteSet(more)
                  /\ DOMAIN items' = Parses /\ items'[p] = items[p] \cup more
                  /\ \A q \in Parses \ {p} : items'[q] = items[q]
                  /\ Cardinality(items'[p]) <= count'[p]
                  /\ count' \in [Parses -> 0 .. MaxItems]
                  /\ \A q \in Parses \ {p} : count'[q] = count[q]
                  /\ truncated' \in [Parses -> BOOLEAN]
                  /\ \A q \in Parses \ {p} : truncated'[q] = truncated[q]
                  /\ unseen' \in [Parses -> SUBSET D]
                  /\ \A q \in Parses \ {p} : unseen'[q] = unseen[q]
                  /\ ~truncated'[p] => ~truncated[p] /\ unseen'[p] = unseen[p] \ {id} /\ more = DocRows[id]
  <2>1. CASE ~Local(id)
    <3>1. /\ unseen' = [unseen EXCEPT ![p] = @ \ {id}] /\ items' = items /\ count' = count
          /\ truncated' = truncated
      BY <1>7, <2>1
    <3>2. DocRows[id] = {}
      <4>1. DocRows[id] = ItemRowsOf(id)
        BY <1>6, <1>8 DEF DocRows
      <4> QED BY <2>1, <4>1 DEF ItemRowsOf
    <3>3. IsFiniteSet({})
      BY FS_EmptySet
    <3>4. DOMAIN items' = Parses /\ items'[p] = items[p] \cup {}
      BY <1>2, <3>1
    <3>5. unseen' \in [Parses -> SUBSET D]
      BY <1>2, <1>6, <3>1
    <3> QED BY <1>2, <3>1, <3>2, <3>3, <3>4, <3>5
  <2>2. CASE Local(id) /\ count[p] >= MaxItems
    <3>1. /\ unseen' = [unseen EXCEPT ![p] = {}] /\ items' = items /\ count' = count
          /\ truncated' = [truncated EXCEPT ![p] = TRUE]
      BY <1>2, <1>3, <1>7, <2>2
    <3>2. truncated'[p] = TRUE
      BY <1>2, <3>1
    <3>3. IsFiniteSet({})
      BY FS_EmptySet
    <3>4. DOMAIN items' = Parses /\ items'[p] = items[p] \cup {}
      BY <1>2, <3>1
    <3>5. unseen' \in [Parses -> SUBSET D]
      BY <1>2, <1>6, <3>1
    <3> QED BY <1>2, <3>1, <3>2, <3>3, <3>4, <3>5
  <2>3. CASE Local(id) /\ count[p] < MaxItems
    <3>1. PICK n \in Nat : n = count[p] /\ n < MaxItems /\ MaxItems - n - 1 \in Nat
      BY <1>2, <1>3, <2>3
    <3>2. PICK members : members = Members(id)
      OBVIOUS
    <3>3. PICK reached : reached = Reached(members, MaxItems - n - 1)
      OBVIOUS
    <3>4. PICK taken : taken = {i \in reached : Nameable(members[i])}
      OBVIOUS
    <3>5. PICK more : more = RowsAdded(id, members, taken)
      OBVIOUS
    <3>6. /\ items' = [items EXCEPT ![p] = @ \cup {Row(document.paths[id].path, document.paths[id].kind, id)}
                               \cup {MemberRow(document.paths[id].path, members[i]) : i \in taken}]
          /\ count' = [count EXCEPT ![p] = n + 1 + Cardinality(taken)]
          /\ truncated' = [truncated EXCEPT ![p] = @ \/ CutShort(members, reached)]
          /\ unseen' = [unseen EXCEPT ![p] = @ \ {id}]
      BY <1>2, <1>3, <1>7, <2>3, <3>1, <3>2, <3>3, <3>4
    <3>7. /\ more \subseteq DocRows[id]
          /\ ~CutShort(members, reached) => more = DocRows[id]
          /\ IsFiniteSet(taken) /\ Cardinality(taken) \in 0 .. MaxItems - n - 1
      BY <1>2, <1>6, <1>8, <2>3, <3>1, <3>2, <3>3, <3>4, <3>5, VisitAdds
    <3>8. IsFiniteSet(more) /\ Cardinality(more) <= 1 + Cardinality(taken) /\ Cardinality(more) \in Nat
      BY <3>5, <3>7, RowsAddedAre
    <3>9. more \subseteq RowsOfIds(DocRows, D)
      BY <1>8, <3>7, RowsOfAll
    <3>10. /\ DOMAIN items' = Parses /\ items'[p] = items[p] \cup more
           /\ \A q \in Parses \ {p} : items'[q] = items[q]
      <4>1. items[p] \cup {Row(document.paths[id].path, document.paths[id].kind, id)}
               \cup {MemberRow(document.paths[id].path, members[i]) : i \in taken} = items[p] \cup more
        BY <3>5 DEF RowsAdded
      <4> QED BY <1>2, <3>6, <4>1
    <3>11. n + 1 + Cardinality(taken) \in 0 .. MaxItems
      BY <1>3, <3>1, <3>7
    <3>12. /\ count' \in [Parses -> 0 .. MaxItems] /\ count'[p] = n + 1 + Cardinality(taken)
           /\ \A q \in Parses \ {p} : count'[q] = count[q]
      BY <1>2, <3>6, <3>11
    <3>13. Cardinality(items'[p]) <= count'[p]
      <4>1. items'[p] = items[p] \cup more
        BY <1>2, <3>10
      <4>2. IsFiniteSet(items[p]) /\ Cardinality(items[p]) <= n
        BY <1>2, <3>1
      <4>3. /\ IsFiniteSet(items[p] \cup more)
            /\ Cardinality(items[p] \cup more) =
                 Cardinality(items[p]) + Cardinality(more) - Cardinality(items[p] \cap more)
        BY <3>8, <4>2, FS_Union
      <4>4. IsFiniteSet(items[p] \cap more)
        BY <4>2, FS_Intersection
      <4>5. Cardinality(items[p] \cap more) \in Nat /\ Cardinality(items[p]) \in Nat
        BY <4>2, <4>4, FS_CardinalityType
      <4>6. Cardinality(taken) \in Nat
        BY <3>7, FS_CardinalityType
      <4>7. Cardinality(items[p] \cup more) <= n + 1 + Cardinality(taken)
        BY <3>1, <3>8, <4>2, <4>3, <4>5, <4>6
      <4> QED BY <3>12, <4>1, <4>7
    <3>14. /\ truncated' \in [Parses -> BOOLEAN]
           /\ \A q \in Parses \ {p} : truncated'[q] = truncated[q]
           /\ ~truncated'[p] => ~truncated[p] /\ ~CutShort(members, reached)
      <4>1. (truncated[p] \/ CutShort(members, reached)) \in BOOLEAN
        OBVIOUS
      <4>2. truncated'[p] = (truncated[p] \/ CutShort(members, reached))
        BY <1>2, <3>6
      <4>3. truncated' \in [Parses -> BOOLEAN]
        BY <1>2, <3>6, <4>1
      <4>4. \A q \in Parses \ {p} : truncated'[q] = truncated[q]
        BY <1>2, <3>6
      <4> QED BY <4>2, <4>3, <4>4
    <3>15. /\ unseen' \in [Parses -> SUBSET D] /\ unseen'[p] = unseen[p] \ {id}
           /\ \A q \in Parses \ {p} : unseen'[q] = unseen[q]
      BY <1>2, <1>6, <3>6
    <3> QED BY <3>7, <3>8, <3>9, <3>10, <3>12, <3>13, <3>14, <3>15
  <2>4. count[p] \in Nat
    BY <1>2, <1>3
  <2> QED BY <1>3, <2>1, <2>2, <2>3, <2>4
<1>10. /\ items'[p] = items[p] \cup more /\ DOMAIN items' = Parses
       /\ \A q \in Parses \ {p} : items'[q] = items[q]
  BY <1>2, <1>9
<1>11. BuildTypeOK'
  <2>1. IsFiniteSet(items'[p])
    <3>1. IsFiniteSet(items[p]) /\ IsFiniteSet(more)
      BY <1>2, <1>9
    <3>2. IsFiniteSet(items[p] \cup more)
      BY <3>1, FS_Union
    <3> QED BY <1>10, <3>2
  <2>2. \A q \in Parses : IsFiniteSet(items'[q]) /\ Cardinality(items'[q]) <= count'[q]
    BY <1>2, <1>9, <1>10, <2>1
  <2>3. /\ document' \in Documents
        /\ stage' \in [Parses -> {"items", "reexports", "sort", "built", "refused"}]
    BY <1>1 DEF BuildInv, BuildTypeOK
  <2>4. unseen' \in [Parses -> SUBSET DOMAIN document'.paths]
    BY <1>1, <1>6, <1>9
  <2> QED BY <1>9, <2>2, <2>3, <2>4 DEF BuildTypeOK
<1>12. ASSUME NEW q \in Parses PROVE ParseHolds(q)'
  <2>1. CASE q # p
    <3>1. ParseHolds(q)
      BY DEF BuildInv
    <3>2. /\ stage'[q] = stage[q] /\ unseen'[q] = unseen[q] /\ items'[q] = items[q]
          /\ reexports'[q] = reexports[q] /\ truncated'[q] = truncated[q] /\ index'[q] = index[q]
      BY <1>1, <1>9, <1>10, <2>1
    <3> QED BY <1>1, <3>1, <3>2, Undisturbed
  <2>2. CASE q = p
    <3>1. stage'[p] = "items"
      BY <1>1
    <3>2. items'[p] \subseteq RowsOfIds(DocRows, D)
      BY <1>4, <1>6, <1>9, <1>10 DEF ItemsHeld
    <3>3. ~truncated'[p] => items'[p] = RowsOfIds(DocRows, D \ unseen'[p])
      <4> SUFFICES ASSUME ~truncated'[p] PROVE items'[p] = RowsOfIds(DocRows, D \ unseen'[p])
        OBVIOUS
      <4>1. unseen'[p] = unseen[p] \ {id} /\ items'[p] = items[p] \cup DocRows[id]
        BY <1>9, <1>10
      <4>2. items[p] = RowsOfIds(DocRows, D \ unseen[p])
        BY <1>4, <1>6, <1>9 DEF ItemsHeld
      <4>3. RowsOfIds(DocRows, D \ (unseen[p] \ {id})) = RowsOfIds(DocRows, D \ unseen[p]) \cup DocRows[id]
        <5>1. PICK E : E = D \ unseen[p]
          OBVIOUS
        <5>2. D \ (unseen[p] \ {id}) = E \cup {id}
          BY <1>7, <1>8, <5>1
        <5>3. RowsOfIds(DocRows, E \cup {id}) = RowsOfIds(DocRows, E) \cup DocRows[id]
          BY OneEntryMore
        <5> QED BY <5>1, <5>2, <5>3
      <4> QED BY <4>1, <4>2, <4>3
    <3>4. ItemsHeld(p)'
      BY <1>1, <1>5, <1>6, <3>1, <3>2, <3>3 DEF ItemsHeld
    <3>5. ReexportsHeld(p)'
      BY <1>1, <1>4, <1>5 DEF ReexportsHeld
    <3> QED BY <2>2, <3>1, <3>4, <3>5 DEF ParseHolds
  <2> QED BY <2>1, <2>2
<1>13. DOMAIN reexports' = Parses /\ DOMAIN index' = Parses
  BY <1>1 DEF BuildInv
<1> QED
  BY <1>10, <1>11, <1>12, <1>13 DEF BuildInv

\* The end of the items.
LEMMA EndItemsHolds ==
  ASSUME BuildInv, NEW p \in Parses, EndItems(p)
  PROVE  BuildInv'
<1>1. /\ document' = document /\ unseen' = unseen /\ items' = items /\ count' = count
      /\ reexports' = reexports /\ truncated' = truncated /\ index' = index
      /\ stage[p] = "items" /\ unseen[p] = {}
  BY DEF EndItems
<1>2. stage \in [Parses -> {"items", "reexports", "sort", "built", "refused"}]
  BY DEF BuildInv, BuildTypeOK
<1>3. PICK next \in {"reexports", "refused"} : stage' = [stage EXCEPT ![p] = next]
  BY DEF EndItems
<1>4. /\ stage' \in [Parses -> {"items", "reexports", "sort", "built", "refused"}]
      /\ stage'[p] = next /\ \A q \in Parses \ {p} : stage'[q] = stage[q]
  BY <1>2, <1>3
<1>5. BuildTypeOK'
  BY <1>1, <1>4 DEF BuildInv, BuildTypeOK
<1>6. DocRows' = DocRows /\ GenuineIds' = GenuineIds /\ AllReexports' = AllReexports
  BY <1>1, SameDocument
<1>7. ASSUME NEW q \in Parses PROVE ParseHolds(q)'
  <2>1. ParseHolds(q)
    BY DEF BuildInv
  <2>2. CASE q # p
    BY <1>1, <1>4, <2>1, <2>2, Undisturbed
  <2>3. CASE q = p
    <3>1. ItemsHeld(p)'
      BY <1>1, <1>6, <2>1, <2>3 DEF ParseHolds, ItemsHeld
    <3>2. ReexportsHeld(p)'
      BY <1>1, <1>4, <1>6, <2>1, <2>3 DEF ParseHolds, ReexportsHeld
    <3> QED BY <1>4, <2>3, <3>1, <3>2 DEF ParseHolds
  <2> QED BY <2>2, <2>3
<1> QED
  BY <1>1, <1>5, <1>7 DEF BuildInv

\* The re-exports: all genuine ones, unless they are more than the ceiling.
LEMMA CollectReexportsHolds ==
  ASSUME BuildInv, NEW p \in Parses, CollectReexports(p)
  PROVE  BuildInv'
<1>1. /\ document' = document /\ unseen' = unseen /\ items' = items /\ count' = count
      /\ truncated' = truncated /\ index' = index
      /\ stage' = [stage EXCEPT ![p] = "sort"] /\ stage[p] = "reexports"
  BY DEF CollectReexports
<1>2. PICK ids \in kSubset(Min({MaxItems, Cardinality(GenuineIds)}), GenuineIds) :
        reexports' = [reexports EXCEPT ![p] = {ReexportRow(id) : id \in ids}]
  BY DEF CollectReexports
<1>3. /\ stage \in [Parses -> {"items", "reexports", "sort", "built", "refused"}]
      /\ DOMAIN reexports = Parses /\ document \in Documents
  BY DEF BuildInv, BuildTypeOK
<1>4. /\ stage' \in [Parses -> {"items", "reexports", "sort", "built", "refused"}]
      /\ stage'[p] = "sort" /\ \A q \in Parses \ {p} : stage'[q] = stage[q]
  BY <1>1, <1>3
<1>5. PICK found : found = {ReexportRow(id) : id \in ids}
  OBVIOUS
<1>6. /\ DOMAIN reexports' = Parses /\ reexports'[p] = found
      /\ \A q \in Parses \ {p} : reexports'[q] = reexports[q]
  BY <1>2, <1>3, <1>5
<1>7. BuildTypeOK'
  BY <1>1, <1>4 DEF BuildInv, BuildTypeOK
<1>8. DocRows' = DocRows /\ GenuineIds' = GenuineIds /\ AllReexports' = AllReexports
  BY <1>1, SameDocument
<1>9. IsFiniteSet(GenuineIds) /\ Cardinality(GenuineIds) \in Nat
  BY <1>3, ReexportsAre
<1>10. PICK n : n = Min({MaxItems, Cardinality(GenuineIds)})
  OBVIOUS
<1>11. ids \in SUBSET GenuineIds /\ Cardinality(ids) = n
  BY <1>2, <1>10 DEF kSubset
<1>12. found \subseteq AllReexports
  BY <1>5, <1>11 DEF AllReexports
<1>13. IsFiniteSet(found)
  <2>1. PICK f : f = [id \in ids |-> ReexportRow(id)]
    OBVIOUS
  <2>2. f \in Surjection(ids, found)
    BY <1>5, <2>1 DEF Surjection
  <2>3. IsFiniteSet(ids)
    BY <1>9, <1>11, FS_Subset
  <2> QED BY <2>2, <2>3, FS_Surjection
<1>14. ASSUME Cardinality(GenuineIds) <= MaxItems PROVE found = AllReexports
  <2>1. MaxItems \in Nat
    BY IndexConstants
  <2>2. PICK both : both = {MaxItems, Cardinality(GenuineIds)}
    OBVIOUS
  <2>3. both \in SUBSET Nat /\ both # {}
    BY <1>9, <2>1, <2>2
  <2>4. Min(both) \in both /\ \A k \in both : Min(both) <= k
    BY <2>3, MinIs
  <2>5. n = Cardinality(GenuineIds)
    BY <1>9, <1>10, <1>14, <2>1, <2>2, <2>4
  <2>6. ids = GenuineIds
    BY <1>9, <1>11, <2>5, FS_Subset
  <2> QED BY <1>5, <2>6 DEF AllReexports
<1>15. ASSUME NEW q \in Parses PROVE ParseHolds(q)'
  <2>1. ParseHolds(q)
    BY DEF BuildInv
  <2>2. CASE q # p
    BY <1>1, <1>4, <1>6, <2>1, <2>2, Undisturbed
  <2>3. CASE q = p
    <3>1. ItemsHeld(p)'
      BY <1>1, <1>8, <2>1, <2>3 DEF ParseHolds, ItemsHeld
    <3>2. ReexportsHeld(p)'
      BY <1>6, <1>8, <1>12, <1>13, <1>14 DEF ReexportsHeld
    <3> QED BY <1>4, <2>3, <3>1, <3>2 DEF ParseHolds
  <2> QED BY <2>2, <2>3
<1> QED
  BY <1>1, <1>6, <1>7, <1>15 DEF BuildInv

\* What is sorted, compacted and stored.
LEMMA AssembleHolds ==
  ASSUME BuildInv, NEW p \in Parses, Assemble(p)
  PROVE  BuildInv'
<1>1. /\ document' = document /\ unseen' = unseen /\ items' = items /\ count' = count
      /\ reexports' = reexports /\ truncated' = truncated /\ stage[p] = "sort"
  BY DEF Assemble
<1>2. /\ stage \in [Parses -> {"items", "reexports", "sort", "built", "refused"}]
      /\ document \in Documents /\ DOMAIN index = Parses /\ IsFiniteSet(items[p])
  BY DEF BuildInv, BuildTypeOK
<1>3. ParseHolds(p)
  BY DEF BuildInv
<1>4. PICK K : K = items[p]
  OBVIOUS
<1>5. PICK Q : Q = reexports[p]
  OBVIOUS
<1>6. K \in SUBSET TypedItems
  <2>1. \A id \in DOMAIN document.paths : DocRows[id] \in SUBSET TypedItems
    BY <1>2, DocRowsAre
  <2>2. K \subseteq RowsOfIds(DocRows, DOMAIN document.paths)
    BY <1>3, <1>4 DEF ParseHolds, ItemsHeld
  <2> QED BY <2>1, <2>2 DEF RowsOfIds
<1>7. Q \in SUBSET TypedReexports
  <2>1. \A id \in GenuineIds : ReexportRow(id) \in TypedReexports
    BY <1>2, ReexportsAre
  <2>2. Q \subseteq AllReexports
    BY <1>3, <1>5 DEF ParseHolds, ReexportsHeld
  <2> QED BY <2>1, <2>2 DEF AllReexports
<1>8. IsFiniteSet(K) /\ IsFiniteSet(Q)
  BY <1>2, <1>3, <1>4, <1>5 DEF ParseHolds, ReexportsHeld
<1>9. PICK order \in Arrivals(K), others \in Arrivals(Q) :
       LET collected == LayOut(order, others)
           view == View(collected)
       IN IF collected.arenas.overflowed
            THEN stage' = [stage EXCEPT ![p] = "refused"] /\ UNCHANGED index
            ELSE /\ \E kept \in Deduplicated(PathKeys(view.items), ItemOrder(view.items)),
                      keptReexports \in
                        Deduplicated(ReexportKeys(view.reexports), ReexportOrder(view.reexports)) :
                      index' = [index EXCEPT ![p] =
                                  ToStored(Compact(Chosen(collected, kept, keptReexports)))]
                 /\ stage' = [stage EXCEPT ![p] = "built"]
  BY <1>4, <1>5 DEF Assemble, Chosen
<1>10. order \in Seq(K) /\ Distinct(order) /\ Range(order) = K
  BY <1>8, ArrivalsAre
<1>11. others \in Seq(Q) /\ Distinct(others) /\ Range(others) = Q
  BY <1>8, ArrivalsAre
<1>12. \/ stage' = [stage EXCEPT ![p] = "refused"] /\ index' = index
       \/ /\ stage' = [stage EXCEPT ![p] = "built"]
          /\ index' = [index EXCEPT ![p] = IndexOf(K, Q)]
          /\ View(IndexOf(K, Q)) = [items |-> SortedItems(K), reexports |-> SortedReexports(Q)]
          /\ Range(SortedItems(K)) = Best(K, ItemName, ItemsBefore)
          /\ Range(SortedReexports(Q)) = Best(Q, ReexportName, ReexportsBefore)
          /\ \A row \in K : \E b \in Best(K, ItemName, ItemsBefore) :
               b.path = row.path /\ (b = row \/ <<b, row>> \in ItemsBefore)
  <2>1. CASE LayOut(order, others).arenas.overflowed
    BY <1>9, <2>1
  <2>2. CASE ~LayOut(order, others).arenas.overflowed
    <3>1. View(LayOut(order, others)) = [items |-> order, reexports |-> others]
      <4>1. order \in Seq(ItemRows) /\ others \in Seq(ReexportRows)
        BY <1>6, <1>7, <1>10, <1>11, RowsTyped
      <4> QED BY <1>10, <1>11, <2>2, <4>1, LayOutIs
    <3>2. PICK kept \in Deduplicated(PathKeys(order), ItemOrder(order)),
               keptReexports \in Deduplicated(ReexportKeys(others), ReexportOrder(others)) :
            index' = [index EXCEPT ![p] =
                        ToStored(Compact(Chosen(LayOut(order, others), kept, keptReexports)))]
      BY <1>9, <2>2, <3>1
    <3>3. stage' = [stage EXCEPT ![p] = "built"]
      BY <1>9, <2>2
    <3>4. /\ ToStored(Compact(Chosen(LayOut(order, others), kept, keptReexports))) = IndexOf(K, Q)
          /\ View(IndexOf(K, Q)) = [items |-> SortedItems(K), reexports |-> SortedReexports(Q)]
          /\ Range(SortedItems(K)) = Best(K, ItemName, ItemsBefore)
          /\ Range(SortedReexports(Q)) = Best(Q, ReexportName, ReexportsBefore)
          /\ \A row \in K : \E b \in Best(K, ItemName, ItemsBefore) :
               b.path = row.path /\ (b = row \/ <<b, row>> \in ItemsBefore)
      BY <1>6, <1>7, <1>10, <1>11, <2>2, IndexIs
    <3> QED BY <3>2, <3>3, <3>4
  <2> QED BY <2>1, <2>2
<1>13. /\ stage' \in [Parses -> {"items", "reexports", "sort", "built", "refused"}]
       /\ stage'[p] \in {"built", "refused"} /\ \A q \in Parses \ {p} : stage'[q] = stage[q]
       /\ DOMAIN index' = Parses /\ \A q \in Parses \ {p} : index'[q] = index[q]
  BY <1>2, <1>12
<1>14. BuildTypeOK'
  BY <1>1, <1>13 DEF BuildInv, BuildTypeOK
<1>15. DocRows' = DocRows /\ GenuineIds' = GenuineIds /\ AllReexports' = AllReexports
  BY <1>1, SameDocument
<1>16. stage'[p] = "built" => IndexHeld(p)'
  <2> SUFFICES ASSUME stage'[p] = "built" PROVE IndexHeld(p)'
    OBVIOUS
  <2>1. stage' # [stage EXCEPT ![p] = "refused"]
    BY <1>2
  <2>2. index'[p] = IndexOf(K, Q) /\ items'[p] = K /\ reexports'[p] = Q
    BY <1>1, <1>2, <1>4, <1>5, <1>12, <2>1
  <2> QED BY <1>12, <2>1, <2>2 DEF IndexHeld
<1>17. ASSUME NEW q \in Parses PROVE ParseHolds(q)'
  <2>1. ParseHolds(q)
    BY DEF BuildInv
  <2>2. CASE q # p
    BY <1>1, <1>13, <2>1, <2>2, Undisturbed
  <2>3. CASE q = p
    <3>1. ItemsHeld(p)'
      BY <1>1, <1>15, <2>1, <2>3 DEF ParseHolds, ItemsHeld
    <3>2. ReexportsHeld(p)'
      BY <1>1, <1>15, <2>1, <2>3 DEF ParseHolds, ReexportsHeld
    <3> QED BY <1>16, <2>3, <3>1, <3>2 DEF ParseHolds
  <2> QED BY <2>2, <2>3
<1>18. DOMAIN items' = Parses /\ DOMAIN reexports' = Parses
  BY <1>1 DEF BuildInv
<1> QED
  BY <1>13, <1>14, <1>17, <1>18 DEF BuildInv

\* The invariant holds always.
LEMMA BuildHolds ==
  BuildSpec => []BuildInv
<1>1. BuildInv /\ [BuildNext]_buildVars => BuildInv'
  <2> SUFFICES ASSUME BuildInv, [BuildNext]_buildVars PROVE BuildInv'
    OBVIOUS
  <2>1. CASE UNCHANGED buildVars
    <3>1. /\ document' = document /\ stage' = stage /\ unseen' = unseen /\ items' = items
          /\ count' = count /\ reexports' = reexports /\ truncated' = truncated /\ index' = index
      BY <2>1 DEF buildVars
    <3>2. BuildTypeOK'
      BY <3>1 DEF BuildInv, BuildTypeOK
    <3>3. ASSUME NEW q \in Parses PROVE ParseHolds(q)'
      <4>1. ParseHolds(q)
        BY DEF BuildInv
      <4> QED BY <3>1, <4>1, Undisturbed
    <3> QED BY <3>1, <3>2, <3>3 DEF BuildInv
  <2>2. ASSUME NEW p \in Parses, Visit(p) PROVE BuildInv'
    BY <2>2, VisitHolds
  <2>3. ASSUME NEW p \in Parses, EndItems(p) PROVE BuildInv'
    BY <2>3, EndItemsHolds
  <2>4. ASSUME NEW p \in Parses, CollectReexports(p) PROVE BuildInv'
    BY <2>4, CollectReexportsHolds
  <2>5. ASSUME NEW p \in Parses, Assemble(p) PROVE BuildInv'
    BY <2>5, AssembleHolds
  <2> QED BY <2>1, <2>2, <2>3, <2>4, <2>5 DEF BuildNext
<1> QED
  BY <1>1, InitHolds, PTL DEF BuildSpec

-----------------------------------------------------------------------------
(* Lists in order *)

\* Some of the first numbers that go on down to 1 are the first of them: where a partition
\* point lies.
LEMMA PartitionPoint ==
  ASSUME NEW n \in Nat, NEW D \in SUBSET (1 .. n), \A k \in D : \A j \in 1 .. k : j \in D
  PROVE  Cardinality(D) \in 0 .. n /\ D = 1 .. Cardinality(D)
<1>1. CASE D = {}
  <2>1. Cardinality(D) = 0
    BY <1>1, FS_EmptySet
  <2> QED BY <1>1, <2>1
<1>2. CASE D # {}
  <2>1. PICK m \in D : \A k \in D : k <= m
    <3>1. D \in SUBSET (0 .. n)
      OBVIOUS
    <3> QED BY <1>2, <3>1, GreatestNatural
  <2>2. D = 1 .. m
    <3>1. m \in 1 .. n /\ \A k \in D : k \in 1 .. n
      BY <2>1
    <3>2. \A k \in D : k \in 1 .. m
      BY <2>1, <3>1
    <3>3. \A j \in 1 .. m : j \in D
      BY <2>1
    <3> QED BY <3>2, <3>3
  <2>3. Cardinality(1 .. m) = m
    <3>1. 1 \in Int /\ m \in Int /\ m >= 1
      BY <2>1
    <3> QED BY <3>1, FS_Interval
  <2> QED BY <2>1, <2>2, <2>3
<1> QED
  BY <1>1, <1>2

-----------------------------------------------------------------------------
(* Places by name *)

\* The lists lookup keeps are in an order: by name, and of one name from first to last.
LEMMA NameOrderSorts ==
  ASSUME NEW n \in Nat, NEW names \in [1 .. n -> Words]
  PROVE  Sorts(NameOrder(names), 1 .. n)
<1>1. PICK R : R = NameOrder(names)
  OBVIOUS
<1>2. ASSUME NEW i \in 1 .. n, NEW j \in 1 .. n
      PROVE  /\ names[i] \in Words /\ names[j] \in Words
             /\ <<i, j>> \in R <=> Precedes(names[i], names[j]) \/ (names[i] = names[j] /\ i < j)
  BY <1>1 DEF NameOrder
<1>3. ASSUME NEW i \in 1 .. n PROVE <<i, i>> \notin R
  BY <1>2, PrecedesSelf
<1>4. ASSUME NEW i \in 1 .. n, NEW j \in 1 .. n, i # j PROVE <<i, j>> \in R \/ <<j, i>> \in R
  <2>1. CASE names[i] = names[j]
    <3>1. i < j \/ j < i
      BY <1>4
    <3> QED BY <1>2, <2>1, <3>1
  <2>2. CASE names[i] # names[j]
    <3>1. Precedes(names[i], names[j]) \/ Precedes(names[j], names[i])
      BY <1>2, <2>2, PrecedesEither
    <3> QED BY <1>2, <3>1
  <2> QED BY <2>1, <2>2
<1>5. ASSUME NEW i \in 1 .. n, NEW j \in 1 .. n, NEW k \in 1 .. n, <<i, j>> \in R, <<j, k>> \in R
      PROVE  <<i, k>> \in R
  <2>1. PICK s \in Words, t \in Words, u \in Words : s = names[i] /\ t = names[j] /\ u = names[k]
    OBVIOUS
  <2>2. Precedes(s, t) \/ (s = t /\ i < j)
    BY <1>2, <1>5, <2>1
  <2>3. Precedes(t, u) \/ (t = u /\ j < k)
    BY <1>2, <1>5, <2>1
  <2>4. CASE Precedes(s, t) /\ Precedes(t, u)
    <3>1. Precedes(s, u)
      BY <2>4, PrecedesThrough
    <3> QED BY <1>2, <2>1, <3>1
  <2>5. CASE Precedes(s, t) /\ t = u
    BY <1>2, <2>1, <2>5
  <2>6. CASE s = t /\ Precedes(t, u)
    BY <1>2, <2>1, <2>6
  <2>7. CASE s = t /\ i < j /\ t = u /\ j < k
    <3>1. i < k
      BY <2>7
    <3> QED BY <1>2, <2>1, <2>7, <3>1
  <2> QED BY <2>2, <2>3, <2>4, <2>5, <2>6, <2>7
<1> QED
  BY <1>1, <1>3, <1>4, <1>5 DEF Sorts, PutsInOrder

\* The places of a name.
NamedAt(names, wanted) == {i \in DOMAIN names : names[i] = wanted}

\* What lies between the two partition points are the places of the name, from first to last.
LEMMA StretchIs ==
  ASSUME NEW n \in Nat, NEW names \in [1 .. n -> Words], NEW order,
         Rises(order, 1 .. n, NameOrder(names)), NEW wanted \in Words
  PROVE  Stretch(order, names, wanted) =
           InOrder(NamedAt(names, wanted), Upward(NamedAt(names, wanted)))
<1>1. PICK m \in Nat : m = Len(order) /\ DOMAIN order = 1 .. m /\ \A k \in 1 .. m : order[k] \in 1 .. n
  <2>1. PICK N : N = 1 .. n
    OBVIOUS
  <2>2. order \in Seq(N)
    BY <2>1 DEF Rises
  <2>3. Len(order) \in Nat /\ DOMAIN order = 1 .. Len(order) /\ \A k \in 1 .. Len(order) : order[k] \in N
    BY <2>2
  <2> QED BY <2>1, <2>3
<1>2. PICK here : here = [k \in 1 .. m |-> names[order[k]]]
  OBVIOUS
<1>3. \A k \in 1 .. m : here[k] = names[order[k]] /\ here[k] \in Words
  BY <1>1, <1>2
<1>4. ASSUME NEW j \in 1 .. m, NEW k \in 1 .. m, j < k
      PROVE  Precedes(here[j], here[k]) \/ (here[j] = here[k] /\ order[j] < order[k])
  <2>1. <<order[j], order[k]>> \in NameOrder(names)
    BY <1>1, <1>4 DEF Rises
  <2> QED BY <1>3, <2>1 DEF NameOrder
<1>5. PICK D : D = {k \in 1 .. m : Precedes(here[k], wanted)}
  OBVIOUS
<1>6. PICK start \in 0 .. m : start = Cardinality(D) /\ D = 1 .. start
  <2>1. ASSUME NEW k \in D, NEW j \in 1 .. k PROVE j \in D
    <3>1. j \in 1 .. m /\ k \in 1 .. m /\ (j = k \/ j < k) /\ Precedes(here[k], wanted)
      BY <1>5
    <3>2. Precedes(here[j], wanted)
      <4>1. CASE j = k
        BY <3>1, <4>1
      <4>2. CASE j < k
        <5>1. Precedes(here[j], here[k]) \/ here[j] = here[k]
          BY <1>4, <3>1, <4>2
        <5>2. here[j] \in Words /\ here[k] \in Words
          BY <1>3, <3>1
        <5> QED BY <3>1, <5>1, <5>2, PrecedesThrough
      <4> QED BY <3>1, <4>1, <4>2
    <3> QED BY <1>5, <3>1, <3>2
  <2>2. D \in SUBSET (1 .. m)
    BY <1>5
  <2>3. Cardinality(D) \in 0 .. m /\ D = 1 .. Cardinality(D)
    BY <2>1, <2>2, PartitionPoint
  <2> QED BY <2>3
<1>7. PICK L : L = {k \in start + 1 .. m : here[k] = wanted}
  OBVIOUS
<1>8. ASSUME NEW k \in 1 .. m, here[k] = wanted PROVE k \in L
  <2>1. ~Precedes(here[k], wanted)
    BY <1>8, PrecedesSelf
  <2>2. k \notin 1 .. start
    BY <1>5, <1>6, <2>1
  <2>3. k \in start + 1 .. m
    BY <2>2
  <2> QED BY <1>7, <1>8, <2>3
<1>9. PICK both : both = D \cup L
  OBVIOUS
<1>10. PICK last \in 0 .. m : last = Cardinality(both) /\ both = 1 .. last
  <2>1. ASSUME NEW k \in both, NEW j \in 1 .. k PROVE j \in both
    <3>1. k \in 1 .. m /\ j \in 1 .. m /\ (j = k \/ j < k)
      <4>1. k \in 1 .. m
        <5>1. L \subseteq 1 .. m /\ D \subseteq 1 .. m
          BY <1>5, <1>7
        <5> QED BY <1>9, <5>1
      <4> QED BY <4>1
    <3>2. CASE k \in D
      <4>1. k \in 1 .. start
        BY <1>6, <3>2
      <4>2. j \in 1 .. start
        BY <4>1
      <4> QED BY <1>6, <1>9, <4>2
    <3>3. CASE k \in L /\ j < k
      <4>1. here[k] = wanted
        BY <1>7, <3>3
      <4>2. Precedes(here[j], wanted) \/ here[j] = wanted
        BY <1>4, <3>1, <3>3, <4>1
      <4> QED BY <1>5, <1>8, <1>9, <3>1, <4>2
    <3> QED BY <1>9, <3>1, <3>2, <3>3
  <2>2. both \in SUBSET (1 .. m)
    <3>1. D \subseteq 1 .. m /\ L \subseteq 1 .. m
      BY <1>5, <1>7
    <3> QED BY <1>9, <3>1
  <2>3. Cardinality(both) \in 0 .. m /\ both = 1 .. Cardinality(both)
    BY <2>1, <2>2, PartitionPoint
  <2> QED BY <2>3
<1>11. PICK length \in Nat : length = Cardinality(L) /\ start + length = last
  <2>1. IsFiniteSet(D) /\ IsFiniteSet(L)
    <3>1. 1 \in Int /\ m \in Int
      OBVIOUS
    <3>2. IsFiniteSet(1 .. m)
      BY <3>1, FS_Interval
    <3>3. D \subseteq 1 .. m /\ L \subseteq 1 .. m
      BY <1>5, <1>7
    <3> QED BY <3>2, <3>3, FS_Subset
  <2>2. D \cap L = {}
    <3>1. \A k \in start + 1 .. m : k \notin 1 .. start
      OBVIOUS
    <3> QED BY <1>6, <1>7, <3>1
  <2>3. Cardinality(D \cap L) = 0
    BY <2>2, FS_EmptySet
  <2>4. Cardinality(D) \in Nat /\ Cardinality(L) \in Nat
    BY <2>1, FS_CardinalityType
  <2>5. Cardinality(D \cup L) = Cardinality(D) + Cardinality(L) - Cardinality(D \cap L)
    BY <2>1, FS_Union
  <2> QED BY <1>6, <1>9, <1>10, <2>3, <2>4, <2>5
<1>12. L = start + 1 .. last
  <2>1. ASSUME NEW k \in L PROVE k \in start + 1 .. last
    BY <1>7, <1>9, <1>10
  <2>2. ASSUME NEW k \in start + 1 .. last PROVE k \in L
    <3>1. k \in 1 .. last /\ k \notin 1 .. start
      OBVIOUS
    <3> QED BY <1>6, <1>9, <1>10, <3>1
  <2> QED BY <2>1, <2>2
<1>13. Stretch(order, names, wanted) = SubSeq(order, start + 1, last)
  <2>1. {k \in DOMAIN order : Precedes(names[order[k]], wanted)} = D
    BY <1>1, <1>3, <1>5
  <2>2. {k \in start + 1 .. Len(order) : names[order[k]] = wanted} = L
    <3>1. \A k \in start + 1 .. m : k \in 1 .. m
      OBVIOUS
    <3> QED BY <1>1, <1>3, <1>7, <3>1
  <2> QED BY <1>6, <1>11, <2>1, <2>2 DEF Stretch
<1>14. PICK E : E = NamedAt(names, wanted)
  OBVIOUS
<1>15. E \in SUBSET (1 .. n) /\ \A i \in 1 .. n : i \in E <=> names[i] = wanted
  BY <1>14 DEF NamedAt
<1>16. PICK s : s = SubSeq(order, start + 1, last)
  OBVIOUS
<1>17. \A k \in start + 1 .. last : k \in 1 .. m /\ here[k] = wanted /\ order[k] \in E
  BY <1>1, <1>3, <1>7, <1>12, <1>15
<1>18. s \in Seq(E) /\ Len(s) = length /\ \A a \in 1 .. length : s[a] = order[start + a]
  <2>1. start + 1 \in Int /\ last \in Int /\ last - (start + 1) + 1 = length
        /\ \A a \in 1 .. length : start + 1 + a - 1 = start + a
    BY <1>11
  <2>2. /\ s \in Seq(E) /\ Len(s) = IF start + 1 <= last THEN last - (start + 1) + 1 ELSE 0
        /\ \A a \in 1 .. last - (start + 1) + 1 : s[a] = order[start + 1 + a - 1]
    BY <1>16, <1>17, <2>1, SubSeqProperties
  <2>3. Len(s) = length
    BY <1>11, <2>1, <2>2
  <2> QED BY <2>1, <2>2, <2>3
<1>19. DOMAIN s = 1 .. length
  BY <1>18
<1>20. ASSUME NEW i \in E PROVE \E a \in 1 .. length : s[a] = i
  <2>1. PICK k \in 1 .. m : order[k] = i
    BY <1>1, <1>15 DEF Rises, Range
  <2>2. k \in start + 1 .. last
    BY <1>3, <1>8, <1>12, <1>15, <2>1
  <2>3. k - start \in 1 .. length /\ start + (k - start) = k
    BY <1>11, <2>2
  <2> QED BY <1>18, <2>1, <2>3
<1>21. Range(s) = E
  <2>1. \A a \in 1 .. length : s[a] \in E
    BY <1>18, <1>19
  <2> QED BY <1>19, <1>20, <2>1 DEF Range
<1>22. ASSUME NEW a \in 1 .. length, NEW b \in 1 .. length, a < b PROVE <<s[a], s[b]>> \in Upward(E)
  <2>1. start + a \in start + 1 .. last /\ start + b \in start + 1 .. last /\ start + a < start + b
    BY <1>11, <1>22
  <2>2. ~Precedes(here[start + a], here[start + b])
    BY <1>17, <2>1, PrecedesSelf
  <2>3. order[start + a] < order[start + b]
    BY <1>4, <1>17, <2>1, <2>2
  <2>4. s[a] < s[b] /\ s[a] \in E /\ s[b] \in E
    BY <1>18, <1>17, <2>1, <2>3
  <2> QED BY <1>15, <2>4, UpwardSorts
<1>23. Rises(s, E, Upward(E))
  BY <1>18, <1>19, <1>21, <1>22 DEF Rises
<1>24. IsFiniteSet(E) /\ Sorts(Upward(E), E)
  BY <1>15, UpwardSorts
<1>25. s = InOrder(E, Upward(E))
  BY <1>23, <1>24, OrderIsOnly
<1> QED
  BY <1>13, <1>14, <1>16, <1>25

-----------------------------------------------------------------------------
(* Texts in texts *)

\* One text lies in another, k characters on.
Lies(t, s, k) == k + Len(t) <= Len(s) /\ \A x \in 1 .. Len(t) : s[k + x] = t[x]

\* A stretch of a text that lies in another is a stretch of the other.
LEMMA StretchLies ==
  ASSUME NEW s \in Words, NEW t \in Words, NEW k \in Nat, Lies(t, s, k),
         NEW i \in 1 .. Len(t) + 1, NEW j \in 0 .. Len(t)
  PROVE  SubSeq(s, k + i, k + j) = SubSeq(t, i, j) /\ SubSeq(t, i, j) \in Words
<1>1. Len(s) \in Nat /\ Len(t) \in Nat /\ i \in Nat /\ i >= 1 /\ j \in Nat /\ j <= Len(t)
  BY DEF Words
<1>2. \A x \in i .. j : t[x] \in Nat /\ s[k + x] = t[x]
  <2> SUFFICES ASSUME NEW x \in i .. j PROVE t[x] \in Nat /\ s[k + x] = t[x]
    OBVIOUS
  <2>1. x \in 1 .. Len(t)
    BY <1>1
  <2> QED BY <2>1 DEF Lies, Words
<1>3. PICK u : u = SubSeq(t, i, j)
  OBVIOUS
<1>4. PICK v : v = SubSeq(s, k + i, k + j)
  OBVIOUS
<1>5. PICK l \in Nat : l = IF i <= j THEN j - i + 1 ELSE 0
  <2>1. (IF i <= j THEN j - i + 1 ELSE 0) \in Nat
    BY <1>1
  <2> QED BY <2>1
<1>6. u \in Seq(Nat) /\ Len(u) = l /\ \A x \in 1 .. l : u[x] = t[i + x - 1]
  <2>1. i \in Int /\ j \in Int /\ \A x \in 1 .. l : x \in 1 .. j - i + 1
    BY <1>1, <1>5
  <2>2. /\ u \in Seq(Nat) /\ Len(u) = IF i <= j THEN j - i + 1 ELSE 0
        /\ \A x \in 1 .. j - i + 1 : u[x] = t[i + x - 1]
    BY <1>2, <1>3, <2>1, SubSeqProperties
  <2> QED BY <1>5, <2>1, <2>2
<1>7. v \in Seq(Nat) /\ Len(v) = l /\ \A x \in 1 .. l : v[x] = s[k + i + x - 1]
  <2>1. k + i \in Int /\ k + j \in Int /\ \A x \in 1 .. l : x \in 1 .. (k + j) - (k + i) + 1
    BY <1>1, <1>5
  <2>2. \A y \in k + i .. k + j : s[y] \in Nat
    <3> SUFFICES ASSUME NEW y \in k + i .. k + j PROVE s[y] \in Nat
      OBVIOUS
    <3>1. y - k \in i .. j /\ k + (y - k) = y
      BY <1>1
    <3> QED BY <1>2, <3>1
  <2>3. /\ v \in Seq(Nat) /\ Len(v) = IF k + i <= k + j THEN (k + j) - (k + i) + 1 ELSE 0
        /\ \A x \in 1 .. (k + j) - (k + i) + 1 : v[x] = s[k + i + x - 1]
    BY <1>4, <2>1, <2>2, SubSeqProperties
  <2>4. (IF k + i <= k + j THEN (k + j) - (k + i) + 1 ELSE 0) = l
    BY <1>1, <1>5
  <2> QED BY <2>1, <2>3, <2>4
<1>8. ASSUME NEW x \in 1 .. l PROVE u[x] = v[x]
  <2>1. i + x - 1 \in i .. j /\ k + (i + x - 1) = k + i + x - 1
    BY <1>1, <1>5
  <2> QED BY <1>2, <1>6, <1>7, <2>1
<1>9. u = v
  <2>1. DOMAIN u = 1 .. l /\ DOMAIN v = 1 .. l
    BY <1>6, <1>7
  <2>2. u \in [1 .. l -> Nat]
    BY <1>6, <2>1
  <2>3. v \in [1 .. l -> Nat]
    BY <1>7, <2>1
  <2> QED BY <1>8, <2>2, <2>3
<1> QED
  BY <1>3, <1>4, <1>6, <1>9 DEF Words

\* The windows of a text that lies in another are windows of the other.
LEMMA WindowsLie ==
  ASSUME NEW s \in Words, NEW t \in Words, NEW k \in Nat, Lies(t, s, k)
  PROVE  Windows(t) \subseteq Windows(s)
<1> SUFFICES ASSUME NEW i \in 1 .. Len(t) - 2
             PROVE  \E y \in 1 .. Len(s) - 2 : SubSeq(s, y, y + 2) = SubSeq(t, i, i + 2)
  BY DEF Windows
<1>1. Len(s) \in Nat /\ Len(t) \in Nat /\ k + Len(t) <= Len(s)
  BY DEF Words, Lies
<1>2. i \in 1 .. Len(t) + 1 /\ i + 2 \in 0 .. Len(t)
  BY <1>1
<1>3. SubSeq(s, k + i, k + (i + 2)) = SubSeq(t, i, i + 2)
  BY <1>2, StretchLies
<1>4. k + i \in 1 .. Len(s) - 2 /\ k + (i + 2) = (k + i) + 2
  BY <1>1
<1> QED
  BY <1>3, <1>4

\* What is within a text lies in it.
LEMMA WithinLies ==
  ASSUME NEW s \in Words, NEW t \in Words, Within(t, s)
  PROVE  \E k \in Nat : Lies(t, s, k)
<1>1. Len(s) \in Nat /\ Len(t) \in Nat
  BY DEF Words
<1>2. PICK k \in 0 .. Len(s) : k + Len(t) <= Len(s) /\ SubSeq(s, k + 1, k + Len(t)) = t
  BY DEF Within
<1>3. k + 1 \in Int /\ k + Len(t) \in Int /\ (k + Len(t)) - (k + 1) + 1 = Len(t)
  BY <1>1
<1>4. \A x \in k + 1 .. k + Len(t) : s[x] \in Nat
  BY <1>1, <1>2 DEF Words
<1>5. \A x \in 1 .. (k + Len(t)) - (k + 1) + 1 : SubSeq(s, k + 1, k + Len(t))[x] = s[k + 1 + x - 1]
  BY <1>3, <1>4, SubSeqProperties
<1>6. \A x \in 1 .. Len(t) : t[x] = s[k + x]
  <2> SUFFICES ASSUME NEW x \in 1 .. Len(t) PROVE t[x] = s[k + x]
    OBVIOUS
  <2>1. x \in 1 .. (k + Len(t)) - (k + 1) + 1 /\ k + 1 + x - 1 = k + x
    BY <1>1, <1>3
  <2>2. SubSeq(s, k + 1, k + Len(t))[x] = s[k + 1 + x - 1]
    BY <1>5, <2>1
  <2> QED BY <1>2, <2>1, <2>2
<1>7. Lies(t, s, k) /\ k \in Nat
  BY <1>2, <1>6 DEF Lies
<1> QED BY <1>7

\* A suffix lies at the end.
LEMMA SuffixLies ==
  ASSUME NEW s \in Words, NEW t \in Words, IsSuffix(t, s)
  PROVE  Len(s) - Len(t) \in Nat /\ Lies(t, s, Len(s) - Len(t))
<1>1. PICK a \in Nat, l \in Nat : a = Len(s) /\ l = Len(t)
  <2>1. Len(s) \in Nat /\ Len(t) \in Nat
    BY DEF Words
  <2> QED BY <2>1
<1>2. PICK rs : rs = [i \in 1 .. a |-> s[a - i + 1]]
  OBVIOUS
<1>3. PICK rt : rt = [i \in 1 .. l |-> t[l - i + 1]]
  OBVIOUS
<1>4. \A i \in 1 .. a : s[i] \in Nat
  BY <1>1 DEF Words
<1>5. \A i \in 1 .. l : t[i] \in Nat
  BY <1>1 DEF Words
<1>6. rs \in Seq(Nat) /\ Len(rs) = a
  <2>1. \A i \in 1 .. a : a - i + 1 \in 1 .. a
    OBVIOUS
  <2>2. rs \in [1 .. a -> Nat]
    BY <1>2, <1>4, <2>1
  <2> QED BY <2>2
<1>7. rt \in Seq(Nat) /\ Len(rt) = l
  <2>1. \A i \in 1 .. l : l - i + 1 \in 1 .. l
    OBVIOUS
  <2>2. rt \in [1 .. l -> Nat]
    BY <1>3, <1>5, <2>1
  <2> QED BY <2>2
<1>8. l <= a /\ SubSeq(rt, 1, l) = SubSeq(rs, 1, l)
  BY <1>1, <1>2, <1>3, <1>6, <1>7 DEF IsSuffix, IsPrefix, Reverse
<1>9. ASSUME NEW i \in 1 .. l PROVE rt[i] = rs[i]
  <2>1. 1 \in Int /\ l \in Int /\ i \in 1 .. l - 1 + 1 /\ 1 + i - 1 = i
    OBVIOUS
  <2>2. \A x \in 1 .. l : rt[x] \in Nat /\ rs[x] \in Nat
    BY <1>6, <1>7, <1>8
  <2>3. SubSeq(rt, 1, l)[i] = rt[1 + i - 1]
    BY <2>1, <2>2, SubSeqProperties
  <2>4. SubSeq(rs, 1, l)[i] = rs[1 + i - 1]
    BY <2>1, <2>2, SubSeqProperties
  <2> QED BY <1>8, <2>1, <2>3, <2>4
<1>10. ASSUME NEW x \in 1 .. l PROVE s[(a - l) + x] = t[x]
  <2>1. PICK i \in 1 .. l : i = l - x + 1
    OBVIOUS
  <2>2. l - i + 1 = x /\ a - i + 1 = (a - l) + x /\ i \in 1 .. a
    BY <1>8, <2>1
  <2>3. rt[i] = t[l - i + 1]
    BY <1>3
  <2>4. rs[i] = s[a - i + 1]
    BY <1>2, <2>2
  <2> QED BY <1>9, <2>2, <2>3, <2>4
<1>11. a - l \in Nat /\ (a - l) + l <= a
  BY <1>8
<1> QED
  BY <1>1, <1>10, <1>11 DEF Lies

\* A text lies where it is put in front of or behind another, and where it lay in it.
LEMMA LiesBeside ==
  ASSUME NEW s \in Words, NEW t \in Words
  PROVE  /\ s \o t \in Words /\ Lies(t, s \o t, Len(s)) /\ Len(s) \in Nat
         /\ \A u \in Words : \A k \in Nat : Lies(u, s, k) => Lies(u, s \o t, k)
<1>1. PICK a \in Nat, l \in Nat : a = Len(s) /\ l = Len(t)
  <2>1. Len(s) \in Nat /\ Len(t) \in Nat
    BY DEF Words
  <2> QED BY <2>1
<1>2. PICK v : v = s \o t
  OBVIOUS
<1>3. v \in Seq(Nat) /\ Len(v) = a + l /\ \A i \in 1 .. a + l : v[i] = IF i <= a THEN s[i] ELSE t[i - a]
  BY <1>1, <1>2, ConcatProperties DEF Words
<1>4. ASSUME NEW x \in 1 .. l PROVE v[a + x] = t[x]
  <2>1. a + x \in 1 .. a + l /\ ~(a + x <= a) /\ (a + x) - a = x
    OBVIOUS
  <2> QED BY <1>3, <2>1
<1>5. Lies(t, v, a)
  BY <1>1, <1>3, <1>4 DEF Lies
<1>6. ASSUME NEW u \in Words, NEW k \in Nat, Lies(u, s, k) PROVE Lies(u, v, k)
  <2>1. Len(u) \in Nat /\ k + Len(u) <= a
    BY <1>1, <1>6 DEF Words, Lies
  <2>2. k + Len(u) <= a + l
    BY <2>1
  <2>3. ASSUME NEW x \in 1 .. Len(u) PROVE v[k + x] = u[x]
    <3>1. k + x \in 1 .. a + l /\ k + x <= a
      BY <2>1
    <3>2. s[k + x] = u[x]
      BY <1>6 DEF Lies
    <3> QED BY <1>3, <3>1, <3>2
  <2> QED BY <1>3, <2>2, <2>3 DEF Lies
<1> QED
  BY <1>1, <1>2, <1>3, <1>5, <1>6 DEF Words

\* Where the segments of a text are cut.
CutsOf(s) == {i \in 2 .. Len(s) : s[i - 1] = Colon /\ s[i] = Colon}

\* The last segment is what comes after the last cut.
LEMMA SegmentIs ==
  ASSUME NEW s \in Words
  PROVE  /\ LastSegment(s) = SubSeq(s, Max(CutsOf(s) \cup {0}) + 1, Len(s))
         /\ Max(CutsOf(s) \cup {0}) \in CutsOf(s) \cup {0}
         /\ \A i \in CutsOf(s) \cup {0} : i <= Max(CutsOf(s) \cup {0})
         /\ Max(CutsOf(s) \cup {0}) \in 0 .. Len(s)
<1>1. Len(s) \in Nat /\ \A i \in 1 .. Len(s) : s[i] \in Nat
  BY DEF Words
<1>2. ASSUME NEW i \in 2 .. Len(s)
      PROVE  SubSeq(s, i - 1, i) = Separator <=> s[i - 1] = Colon /\ s[i] = Colon
  <2>1. i - 1 \in Int /\ i \in Int /\ i - 1 <= i /\ i - (i - 1) + 1 = 2 /\ i - 1 + 1 - 1 = i - 1 /\ i - 1 + 2 - 1 = i
    BY <1>1
  <2>2. \A x \in i - 1 .. i : s[x] \in Nat
    BY <1>1
  <2>3. PICK u : u = SubSeq(s, i - 1, i)
    OBVIOUS
  <2>4. /\ u \in Seq(Nat) /\ Len(u) = IF i - 1 <= i THEN i - (i - 1) + 1 ELSE 0
        /\ \A x \in 1 .. i - (i - 1) + 1 : u[x] = s[i - 1 + x - 1]
    BY <2>1, <2>2, <2>3, SubSeqProperties
  <2>5. u \in Seq(Nat) /\ Len(u) = 2 /\ u[1] = s[i - 1] /\ u[2] = s[i]
    <3>1. 1 \in 1 .. i - (i - 1) + 1 /\ 2 \in 1 .. i - (i - 1) + 1
      BY <2>1
    <3>2. u[1] = s[i - 1 + 1 - 1] /\ u[2] = s[i - 1 + 2 - 1]
      BY <2>4, <3>1
    <3> QED BY <2>1, <2>4, <3>2
  <2>6. u = <<u[1], u[2]>>
    BY <2>5
  <2>7. u = Separator => u[1] = Colon /\ u[2] = Colon
    BY DEF Separator
  <2>8. u[1] = Colon /\ u[2] = Colon => u = Separator
    BY <2>6 DEF Separator
  <2>9. SubSeq(s, i - 1, i) = Separator => s[i - 1] = Colon /\ s[i] = Colon
    BY <2>3, <2>5, <2>7
  <2>10. s[i - 1] = Colon /\ s[i] = Colon => SubSeq(s, i - 1, i) = Separator
    BY <2>3, <2>5, <2>8
  <2> QED BY <2>9, <2>10
<1>3. PICK C : C = CutsOf(s)
  OBVIOUS
<1>4. {i \in 2 .. Len(s) : SubSeq(s, i - 1, i) = Separator} = C
  BY <1>2, <1>3 DEF CutsOf
<1>5. PICK S : S = C \cup {0}
  OBVIOUS
<1>6. S \in SUBSET (0 .. Len(s)) /\ S # {}
  BY <1>1, <1>3, <1>5 DEF CutsOf
<1>7. Max(S) \in S /\ \A i \in S : i <= Max(S)
  BY <1>1, <1>6, MaxIs
<1> QED
  BY <1>3, <1>4, <1>5, <1>6, <1>7 DEF LastSegment

\* What ends in segments has their last one.
LEMMA SuffixSegment ==
  ASSUME NEW path \in Words, Unambiguous(path), NEW query \in Words, IsSuffix(Separator \o query, path)
  PROVE  LastSegment(path) = LastSegment(query)
<1>1. PICK a \in Nat, l \in Nat : a = Len(path) /\ l = Len(query)
  <2>1. Len(path) \in Nat /\ Len(query) \in Nat
    BY DEF Words
  <2> QED BY <2>1
<1>2. PICK sep \in Words : sep = Separator
  <2>1. Separator \in Seq(Nat)
    <3>1. Colon \in Nat
      BY DEF Colon
    <3>2. <<Colon, Colon>> \in Seq(Nat)
      BY <3>1
    <3> QED BY <3>2 DEF Separator
  <2> QED BY <2>1 DEF Words
<1>3. PICK all : all = sep \o query
  OBVIOUS
<1>4. all \in Words /\ Len(all) = 2 + l /\ \A i \in 1 .. 2 + l : all[i] = IF i <= 2 THEN sep[i] ELSE query[i - 2]
  <2>1. Len(sep) = 2
    BY <1>2 DEF Separator
  <2>2. sep \in Seq(Nat) /\ query \in Seq(Nat)
    BY DEF Words
  <2>3. /\ all \in Seq(Nat) /\ Len(all) = Len(sep) + Len(query)
        /\ \A i \in 1 .. Len(sep) + Len(query) : all[i] = IF i <= Len(sep) THEN sep[i] ELSE query[i - Len(sep)]
    BY <1>3, <2>2, ConcatProperties
  <2> QED BY <1>1, <2>1, <2>3 DEF Words
<1>5. PICK k \in Nat : k = a - (2 + l) /\ Lies(all, path, k)
  BY <1>1, <1>2, <1>3, <1>4, SuffixLies
<1>6. \A x \in 1 .. 2 + l : path[k + x] = all[x]
  BY <1>4, <1>5 DEF Lies
<1>7. PICK o \in Nat : o = k + 2 /\ o + l = a
  <2>1. k + 2 \in Nat /\ k + 2 + l = a
    BY <1>5
  <2> QED BY <2>1
<1>8. path[o - 1] = Colon /\ path[o] = Colon
  <2>1. 1 \in 1 .. 2 + l /\ 2 \in 1 .. 2 + l /\ k + 1 = o - 1 /\ k + 2 = o
    BY <1>7
  <2>2. all[1] = Colon /\ all[2] = Colon
    BY <1>2, <1>4, <2>1 DEF Separator
  <2>3. path[k + 1] = all[1] /\ path[k + 2] = all[2]
    BY <1>6, <2>1
  <2> QED BY <2>1, <2>2, <2>3
<1>9. ASSUME NEW x \in 1 .. l PROVE path[o + x] = query[x]
  <2>1. 2 + x \in 1 .. 2 + l /\ ~(2 + x <= 2) /\ (2 + x) - 2 = x /\ k + (2 + x) = o + x
    BY <1>7
  <2>2. path[k + (2 + x)] = all[2 + x]
    BY <1>6, <2>1
  <2> QED BY <1>4, <2>1, <2>2
<1>10. Lies(query, path, o)
  BY <1>1, <1>7, <1>9 DEF Lies
<1>11. PICK m \in 0 .. l : /\ m \in CutsOf(query) \cup {0} /\ \A i \in CutsOf(query) \cup {0} : i <= m
                           /\ LastSegment(query) = SubSeq(query, m + 1, l)
  BY <1>1, SegmentIs
<1>12. PICK p \in 0 .. a : /\ p \in CutsOf(path) \cup {0} /\ \A i \in CutsOf(path) \cup {0} : i <= p
                           /\ LastSegment(path) = SubSeq(path, p + 1, a)
  BY <1>1, SegmentIs
<1>13. o \in CutsOf(path)
  <2>1. o \in 2 .. a
    BY <1>7
  <2> QED BY <1>1, <1>8, <2>1 DEF CutsOf
<1>14. o + m <= p
  <2>1. CASE m = 0
    BY <1>12, <1>13, <2>1
  <2>2. CASE m # 0
    <3>1. m \in 2 .. l /\ query[m - 1] = Colon /\ query[m] = Colon
      BY <1>1, <1>11, <2>2 DEF CutsOf
    <3>2. m \in 1 .. l /\ m - 1 \in 1 .. l /\ o + (m - 1) = (o + m) - 1 /\ o + m \in 2 .. a
      BY <1>7, <3>1
    <3>3. path[o + m] = Colon /\ path[(o + m) - 1] = Colon
      BY <1>9, <3>1, <3>2
    <3>4. o + m \in CutsOf(path)
      BY <1>1, <3>2, <3>3 DEF CutsOf
    <3> QED BY <1>12, <3>4
  <2> QED BY <2>1, <2>2
<1>15. p <= o + m
  <2> SUFFICES ASSUME p > o + m PROVE FALSE
    BY <1>12
  <2>1. p > o /\ p # 0 /\ p \in CutsOf(path)
    BY <1>12
  <2>2. p \in 2 .. a /\ path[p - 1] = Colon /\ path[p] = Colon
    BY <1>1, <2>1 DEF CutsOf
  <2>3. CASE p = o + 1
    <3>1. p - 1 = o /\ o - 1 \in 1 .. a - 2 /\ (o - 1) + 1 = o /\ (o - 1) + 2 = p
      BY <1>7, <2>2, <2>3
    <3> QED BY <1>1, <1>8, <2>2, <3>1 DEF Unambiguous
  <2>4. CASE p # o + 1
    <3>1. PICK i \in 2 .. l : i = p - o /\ p = o + i /\ p - 1 = o + (i - 1) /\ i - 1 \in 1 .. l /\ i \in 1 .. l
      <4>1. p - o \in 2 .. l /\ p = o + (p - o) /\ p - 1 = o + ((p - o) - 1)
        BY <1>7, <2>1, <2>2, <2>4
      <4> QED BY <4>1
    <3>2. query[i] = Colon /\ query[i - 1] = Colon
      BY <1>9, <2>2, <3>1
    <3>3. i \in CutsOf(query)
      BY <1>1, <3>1, <3>2 DEF CutsOf
    <3>4. i <= m
      BY <1>11, <3>3
    <3> QED BY <3>1, <3>4
  <2> QED BY <2>3, <2>4
<1>16. p + 1 = o + (m + 1) /\ m + 1 \in 1 .. l + 1 /\ l \in 0 .. l
  BY <1>14, <1>15
<1>17. SubSeq(path, o + (m + 1), o + l) = SubSeq(query, m + 1, l)
  <2>1. m + 1 \in 1 .. Len(query) + 1 /\ l \in 0 .. Len(query)
    BY <1>1, <1>16
  <2> QED BY <1>10, <2>1, StretchLies
<1> QED
  BY <1>7, <1>11, <1>12, <1>16, <1>17

\* Each of some texts lies in all of them put one behind the other.
LEMMA FlattenLies ==
  ASSUME NEW seqs \in Seq(Words), NEW i \in DOMAIN seqs
  PROVE  FlattenSeq(seqs) \in Words /\ \E k \in Nat : Lies(seqs[i], FlattenSeq(seqs), k)
<1>1. PICK n \in Nat : n = Len(seqs) /\ n > 0 /\ DOMAIN seqs = 1 .. n /\ \A j \in 1 .. n : seqs[j] \in Words
  OBVIOUS
<1>2. PICK g : Joins(g, seqs, Nat)
  <2>1. seqs \in Seq(Seq(Nat)) /\ seqs # <<>>
    BY <1>1 DEF Words
  <2> QED BY <2>1, FlattenSteps
<1>3. /\ \A j \in 1 .. n : g[j] \in Words
      /\ \A j \in 1 .. n : g[j] = IF j = 1 THEN seqs[j] ELSE g[j - 1] \o seqs[j]
      /\ FlattenSeq(seqs) = g[n]
  BY <1>1, <1>2 DEF Joins, Words
<1>4. PICK good : good = {k \in 0 .. n : i <= k => \E o \in Nat : Lies(seqs[i], g[k], o)}
  OBVIOUS
<1>5. 0 \in good
  BY <1>1, <1>4
<1>6. ASSUME NEW k \in 0 .. n - 1, k \in good PROVE k + 1 \in good
  <2>1. k + 1 \in 1 .. n /\ k + 1 \in 0 .. n /\ (k + 1) - 1 = k
    OBVIOUS
  <2>2. PICK t \in Words : t = seqs[k + 1]
    BY <1>1, <2>1
  <2>3. CASE k = 0
    <3>1. g[k + 1] = t
      BY <1>3, <2>1, <2>2, <2>3
    <3>2. Lies(t, t, 0)
      <4>1. Len(t) \in Nat /\ \A x \in 1 .. Len(t) : 0 + x = x
        BY DEF Words
      <4> QED BY <4>1 DEF Lies
    <3>3. i <= k + 1 => seqs[i] = t
      BY <1>1, <2>2, <2>3
    <3> QED BY <1>4, <2>1, <3>1, <3>2, <3>3
  <2>4. CASE k # 0
    <3>1. PICK s \in Words : s = g[k]
      BY <1>3, <2>4
    <3>0. k + 1 # 1
      BY <2>4
    <3>2. g[k + 1] = s \o t
      BY <1>3, <2>1, <2>2, <3>0, <3>1
    <3>3. Lies(t, s \o t, Len(s)) /\ Len(s) \in Nat
          /\ \A u \in Words : \A o \in Nat : Lies(u, s, o) => Lies(u, s \o t, o)
      BY LiesBeside
    <3>4. CASE i = k + 1
      BY <1>4, <2>1, <2>2, <3>2, <3>3, <3>4
    <3>5. CASE i <= k
      <4>1. PICK o \in Nat : Lies(seqs[i], g[k], o)
        BY <1>4, <1>6, <3>5
      <4>2. seqs[i] \in Words
        BY <1>1
      <4>3. Lies(seqs[i], g[k + 1], o)
        BY <3>1, <3>2, <3>3, <4>1, <4>2
      <4> QED BY <1>4, <2>1, <4>3
    <3>6. CASE ~(i <= k + 1)
      BY <1>4, <2>1, <3>6
    <3>7. i = k + 1 \/ i <= k \/ ~(i <= k + 1)
      BY <1>1
    <3> QED BY <3>4, <3>5, <3>6, <3>7
  <2> QED BY <2>3, <2>4
<1>7. \A k \in 0 .. n : k \in good
  BY <1>5, <1>6, UpTo
<1>8. n \in good /\ i <= n
  BY <1>1, <1>7
<1> QED
  BY <1>1, <1>3, <1>4, <1>8

-----------------------------------------------------------------------------
(* Lookup *)

\* Texts in lowercase are texts, as are last segments and texts without colons in front.
LEMMA LoweredIs ==
  ASSUME NEW s \in Words
  PROVE  Lowered(s) \in Words /\ LastSegment(s) \in Words /\ Stripped(s) \in Words
<1>1. PICK n \in Nat : n = Len(s) /\ DOMAIN s = 1 .. n /\ \A i \in 1 .. n : s[i] \in Nat
  BY DEF Words
<1>2. Lowered(s) \in Words
  <2>1. \A c \in Nat : Lower(c) \in Nat
    BY DEF Lower
  <2>2. Lowered(s) \in [1 .. n -> Nat]
    BY <1>1, <2>1 DEF Lowered
  <2> QED BY <2>2 DEF Words
<1>3. \A i \in Nat \ {0} : SubSeq(s, i, Len(s)) \in Words
  <2> SUFFICES ASSUME NEW i \in Nat \ {0} PROVE SubSeq(s, i, Len(s)) \in Words
    OBVIOUS
  <2>1. i \in Int /\ n \in Int /\ \A x \in i .. n : x \in 1 .. n
    OBVIOUS
  <2>2. \A x \in i .. n : s[x] \in Nat
    BY <1>1, <2>1
  <2>3. SubSeq(s, i, n) \in Seq(Nat)
    BY <2>1, <2>2, SubSeqProperties
  <2> QED BY <1>1, <2>3 DEF Words
<1>4. LastSegment(s) \in Words
  <2>1. PICK m \in Nat : LastSegment(s) = SubSeq(s, m + 1, Len(s))
    <3>1. PICK m \in 0 .. Len(s) : LastSegment(s) = SubSeq(s, m + 1, Len(s))
      BY SegmentIs
    <3>2. m \in Nat
      OBVIOUS
    <3> QED BY <3>1, <3>2
  <2>2. m + 1 \in Nat \ {0}
    OBVIOUS
  <2> QED BY <1>3, <2>1, <2>2
<1>5. Stripped(s) \in Words
  <2>1. PICK S : S = {k \in 0 .. n : \A i \in 1 .. k : s[i] = Colon}
    OBVIOUS
  <2>2. S \in SUBSET (0 .. n) /\ 0 \in S
    BY <2>1
  <2>3. PICK c \in Nat : c = Max(S)
    <3>1. Max(S) \in S
      BY <2>2, MaxIs
    <3>2. \A k \in S : k \in Nat
      BY <2>2
    <3>3. Max(S) \in Nat
      BY <3>1, <3>2
    <3> QED BY <3>3
  <2>4. 2 * (c \div 2) + 1 \in Nat \ {0}
    BY <2>3
  <2>5. Stripped(s) = SubSeq(s, 2 * (c \div 2) + 1, Len(s))
    BY <1>1, <2>1, <2>3 DEF Stripped
  <2> QED BY <1>3, <2>4, <2>5
<1> QED
  BY <1>2, <1>4, <1>5

\* Items lie in the order of their paths, each path once, and none has an ambiguous path.
PathsRise(rows) ==
  /\ \A i, j \in DOMAIN rows : i < j => Precedes(rows[i].path, rows[j].path)
  /\ \A i \in DOMAIN rows : Unambiguous(rows[i].path)

\* What a sorted list has under a name is what a pass over the rows finds.
LEMMA SortedFinds ==
  ASSUME NEW n \in Nat, NEW names \in [1 .. n -> Words], NEW rows, NEW wanted \in Words
  PROVE  Picked(rows, Stretch(Sorted(names), names, wanted)) = Those(rows, NamedAt(names, wanted))
<1>1. PICK R : R = NameOrder(names)
  OBVIOUS
<1>2. PICK N : N = 1 .. n
  OBVIOUS
<1>3. IsFiniteSet(N)
  <2>1. 1 \in Int /\ n \in Int
    OBVIOUS
  <2> QED BY <1>2, <2>1, FS_Interval
<1>4. Sorts(R, N)
  BY <1>1, <1>2, NameOrderSorts
<1>5. Rises(InOrder(N, R), N, R)
  BY <1>3, <1>4, InOrderRises
<1>6. Sorted(names) = InOrder(N, R)
  BY <1>1, <1>2 DEF Sorted
<1>7. Stretch(Sorted(names), names, wanted) = InOrder(NamedAt(names, wanted), Upward(NamedAt(names, wanted)))
  BY <1>1, <1>2, <1>5, <1>6, StretchIs
<1> QED
  BY <1>7 DEF Those

\* An index and its rows.
Shows(view, rows, others) ==
  /\ rows \in Seq(TypedItems) /\ others \in Seq(TypedReexports)
  /\ view = [items |-> rows, reexports |-> others]

\* What lookup goes by is there for every row.
Legible(view, rows, others) ==
  /\ view.items = rows /\ view.reexports = others
  /\ Len(rows) \in Nat /\ DOMAIN rows = 1 .. Len(rows)
  /\ Len(others) \in Nat /\ DOMAIN others = 1 .. Len(others)
  /\ \A i \in 1 .. Len(rows) : rows[i].path \in Words /\ LoweredName(rows[i]) \in Words
  /\ Paths(view) \in [1 .. Len(rows) -> Words]
  /\ \A i \in 1 .. Len(rows) : Paths(view)[i] = rows[i].path
  /\ Names(view) \in [1 .. Len(rows) -> Words]
  /\ \A i \in 1 .. Len(rows) : Names(view)[i] = LoweredName(rows[i])
  /\ ReexportNames(view) \in [1 .. Len(others) -> Words]
  /\ \A i \in 1 .. Len(others) : ReexportNames(view)[i] = Lowered(others[i].name)

\* Paths and names are texts, one for each row.
LEMMA RowsLegible ==
  ASSUME NEW view, NEW rows, NEW others, Shows(view, rows, others)
  PROVE  Legible(view, rows, others)
<1>1. PICK n \in Nat : n = Len(rows) /\ DOMAIN rows = 1 .. n /\ \A i \in 1 .. n : rows[i] \in TypedItems
  BY DEF Shows
<1>2. PICK l \in Nat : l = Len(others) /\ DOMAIN others = 1 .. l /\ \A i \in 1 .. l : others[i] \in TypedReexports
  BY DEF Shows
<1>3. view.items = rows /\ view.reexports = others
  BY DEF Shows
<1>4. ASSUME NEW i \in 1 .. n PROVE rows[i].path \in Words /\ LoweredName(rows[i]) \in Words
  <2>1. PICK p \in Words : p = rows[i].path
    BY <1>1 DEF TypedItems
  <2>2. LastSegment(p) \in Words
    BY LoweredIs
  <2>3. Lowered(LastSegment(p)) \in Words
    BY <2>2, LoweredIs
  <2> QED BY <2>1, <2>3 DEF LoweredName
<1>5. ASSUME NEW i \in 1 .. l PROVE Lowered(others[i].name) \in Words
  <2>1. PICK p \in Words : p = others[i].name
    BY <1>2 DEF TypedReexports
  <2> QED BY <2>1, LoweredIs
<1>6. Paths(view) = [i \in 1 .. n |-> rows[i].path]
  BY <1>1, <1>3 DEF Paths
<1>7. Names(view) = [i \in 1 .. n |-> LoweredName(rows[i])]
  BY <1>1, <1>3 DEF Names
<1>8. ReexportNames(view) = [i \in 1 .. l |-> Lowered(others[i].name)]
  BY <1>2, <1>3 DEF ReexportNames
<1>9. Paths(view) \in [1 .. n -> Words] /\ \A i \in 1 .. n : Paths(view)[i] = rows[i].path
  BY <1>4, <1>6
<1>10. Names(view) \in [1 .. n -> Words] /\ \A i \in 1 .. n : Names(view)[i] = LoweredName(rows[i])
  BY <1>4, <1>7
<1>11. ReexportNames(view) \in [1 .. l -> Words]
       /\ \A i \in 1 .. l : ReexportNames(view)[i] = Lowered(others[i].name)
  BY <1>5, <1>8
<1> QED
  BY <1>1, <1>2, <1>3, <1>4, <1>9, <1>10, <1>11 DEF Legible

\* What a pass over the rows finds for each step.
WithPath(rows, query) == {i \in DOMAIN rows : rows[i].path = query}
EndingIn(rows, query) == {i \in DOMAIN rows : IsSuffix(Separator \o query, rows[i].path)}
WithName(rows, wanted) == {i \in DOMAIN rows : LoweredName(rows[i]) = wanted}
KnownAs(others, wanted) == {i \in DOMAIN others : Lowered(others[i].name) = wanted}
Containing(rows, lowered) == {i \in DOMAIN rows : Within(lowered, Lowered(rows[i].path))}

\* The binary search over the paths finds what a pass over them finds first.
LEMMA ExactAgrees ==
  ASSUME NEW view, NEW rows, NEW others, Shows(view, rows, others), PathsRise(rows), NEW query \in Words
  PROVE  /\ Exactly(view, query) = <<>> <=> WithPath(rows, query) = {}
         /\ WithPath(rows, query) # {} => Exactly(view, query)[1] = Min(WithPath(rows, query))
<1>0. PICK n \in Nat : n = Len(rows)
  BY RowsLegible DEF Legible
<1>1. /\ DOMAIN rows = 1 .. n /\ \A i \in 1 .. n : rows[i].path \in Words
      /\ Paths(view) \in [1 .. n -> Words] /\ view.items = rows
      /\ \A i \in 1 .. n : Paths(view)[i] = rows[i].path
  BY <1>0, RowsLegible DEF Legible
<1>2. PICK N : N = 1 .. n
  OBVIOUS
<1>3. PICK order : order = [i \in 1 .. n |-> i]
  OBVIOUS
<1>4. PICK paths : paths = Paths(view)
  OBVIOUS
<1>5. order \in Seq(N) /\ DOMAIN order = N /\ Range(order) = N /\ \A i \in N : order[i] = i
  <2>1. order \in [1 .. n -> N]
    BY <1>2, <1>3
  <2>2. Range(order) = N
    BY <1>2, <1>3 DEF Range
  <2> QED BY <1>2, <1>3, <2>1, <2>2
<1>6. ASSUME NEW a \in N, NEW b \in N, a < b PROVE <<order[a], order[b]>> \in NameOrder(paths)
  <2>1. Precedes(paths[a], paths[b])
    BY <1>1, <1>2, <1>4, <1>6 DEF PathsRise
  <2> QED BY <1>1, <1>2, <1>4, <1>5, <2>1 DEF NameOrder
<1>7. Rises(order, 1 .. n, NameOrder(paths)) /\ paths \in [1 .. n -> Words]
  BY <1>1, <1>2, <1>4, <1>5, <1>6 DEF Rises
<1>8. PICK E : E = WithPath(rows, query) /\ E = NamedAt(paths, query)
  BY <1>1, <1>4 DEF NamedAt, WithPath
<1>9. Stretch(order, paths, query) = InOrder(NamedAt(paths, query), Upward(NamedAt(paths, query)))
  BY <1>7, StretchIs
<1>10. Exactly(view, query) = Stretch(order, paths, query)
  BY <1>1, <1>3, <1>4 DEF Exactly
<1>11. E \in SUBSET (1 .. n)
  BY <1>1, <1>8 DEF WithPath
<1>12. PICK R : R = Upward(E) /\ IsFiniteSet(E) /\ Sorts(R, E) /\ \A i, j \in E : <<i, j>> \in R <=> i < j
  BY <1>11, UpwardSorts
<1>13. PICK t : t = InOrder(E, R) /\ Rises(t, E, R)
  BY <1>12, InOrderRises
<1>14. PICK m \in Nat : m = Len(t) /\ DOMAIN t = 1 .. m /\ \A a \in 1 .. m : t[a] \in E
  <2>1. t \in Seq(E)
    BY <1>13 DEF Rises
  <2>2. Len(t) \in Nat /\ DOMAIN t = 1 .. Len(t) /\ \A a \in 1 .. Len(t) : t[a] \in E
    BY <2>1
  <2> QED BY <2>2
<1>15. ASSUME E = {} PROVE t = <<>>
  <2>1. m = 0
    BY <1>14, <1>15
  <2>2. t \in Seq(E)
    BY <1>13 DEF Rises
  <2> QED BY <1>14, <2>1, <2>2
<1>16. ASSUME E # {} PROVE t # <<>> /\ t[1] = Min(E)
  <2>1. PICK x \in E : TRUE
    BY <1>16
  <2>2. \A y \in E : \E a \in 1 .. m : t[a] = y
    BY <1>13, <1>14 DEF Rises, Range
  <2>3. 1 \in 1 .. m
    BY <2>1, <2>2
  <2>4. t # <<>>
    BY <1>14, <2>3
  <2>5. \A y \in E : t[1] <= y
    <3> SUFFICES ASSUME NEW y \in E PROVE t[1] <= y
      OBVIOUS
    <3>1. PICK a \in 1 .. m : t[a] = y
      BY <2>2
    <3>2. CASE a = 1
      <4>1. y \in Nat
        BY <1>11
      <4> QED BY <3>1, <3>2, <4>1
    <3>3. CASE a # 1
      <4>1. 1 < a
        BY <3>3
      <4>2. <<t[1], t[a]>> \in R
        BY <1>13, <1>14, <2>3, <4>1 DEF Rises
      <4>3. t[1] \in E /\ t[a] \in E
        BY <1>14, <2>3
      <4>4. t[1] \in Nat /\ t[a] \in Nat
        <5>1. \A z \in E : z \in Nat
          BY <1>11
        <5> QED BY <4>3, <5>1
      <4>5. t[1] < t[a]
        BY <1>12, <4>2, <4>3
      <4> QED BY <3>1, <4>4, <4>5
    <3> QED BY <3>2, <3>3
  <2>6. E \in SUBSET Nat
    BY <1>11
  <2>7. Min(E) \in E /\ \A y \in E : Min(E) <= y
    BY <1>16, <2>6, MinIs
  <2>8. t[1] \in E /\ t[1] \in Nat /\ Min(E) \in Nat
    BY <1>14, <2>3, <2>6, <2>7
  <2>9. t[1] <= Min(E) /\ Min(E) <= t[1]
    BY <2>5, <2>7, <2>8
  <2> QED BY <2>4, <2>8, <2>9
<1>17. Exactly(view, query) = t
  BY <1>8, <1>9, <1>10, <1>12, <1>13
<1> QED
  BY <1>8, <1>15, <1>16, <1>17

\* Among what the last segment's name finds are all items that end in the query's segments.
LEMMA SuffixAgrees ==
  ASSUME NEW view, NEW rows, NEW others, Shows(view, rows, others), PathsRise(rows), NEW query \in Words,
         NEW named, named = Named(view, Lowered(LastSegment(query)))
  PROVE  Those(named, EndingIn(named, query)) = Those(rows, EndingIn(rows, query))
<1>0. PICK n \in Nat : n = Len(rows)
  BY RowsLegible DEF Legible
<1>1. /\ DOMAIN rows = 1 .. n /\ \A i \in 1 .. n : rows[i].path \in Words
      /\ Names(view) \in [1 .. n -> Words] /\ view.items = rows
      /\ \A i \in 1 .. n : Names(view)[i] = LoweredName(rows[i])
  BY <1>0, RowsLegible DEF Legible
<1>2. PICK names \in [1 .. n -> Words] : names = Names(view)
  BY <1>1
<1>3. PICK wanted \in Words : wanted = Lowered(LastSegment(query))
  <2>1. LastSegment(query) \in Words
    BY LoweredIs
  <2>2. Lowered(LastSegment(query)) \in Words
    BY <2>1, LoweredIs
  <2> QED BY <2>2
<1>4. PICK E : E = NamedAt(names, wanted)
  OBVIOUS
<1>5. E \in SUBSET (1 .. n) /\ \A i \in 1 .. n : i \in E <=> LoweredName(rows[i]) = wanted
  BY <1>1, <1>2, <1>4 DEF NamedAt
<1>6. named = Those(rows, E)
  <2>1. named = Picked(rows, Stretch(Sorted(names), names, wanted))
    BY <1>1, <1>2, <1>3 DEF Named, ByName
  <2>2. Picked(rows, Stretch(Sorted(names), names, wanted)) = Those(rows, NamedAt(names, wanted))
    BY SortedFinds
  <2> QED BY <1>4, <2>1, <2>2
<1>7. PICK F : F = EndingIn(rows, query)
  OBVIOUS
<1>8. F \in SUBSET E
  <2> SUFFICES ASSUME NEW i \in F PROVE i \in E
    OBVIOUS
  <2>1. i \in 1 .. n /\ IsSuffix(Separator \o query, rows[i].path)
    BY <1>1, <1>7 DEF EndingIn
  <2>2. PICK path \in Words : path = rows[i].path /\ Unambiguous(path)
    BY <1>1, <2>1 DEF PathsRise
  <2>3. LastSegment(path) = LastSegment(query)
    BY <2>1, <2>2, SuffixSegment
  <2>4. LoweredName(rows[i]) = wanted
    BY <1>3, <2>2, <2>3 DEF LoweredName
  <2> QED BY <1>5, <2>1, <2>4
<1>9. PICK t : t = InOrder(E, Upward(E))
  OBVIOUS
<1>10. \A k \in DOMAIN t : t[k] \in E
  <2>1. Rises(t, E, Upward(E))
    BY <1>5, <1>9, UpwardSorts, InOrderRises
  <2> QED BY <2>1 DEF Rises, Range
<1>11. DOMAIN named = DOMAIN t /\ \A k \in DOMAIN t : named[k] = rows[t[k]]
  BY <1>6, <1>9 DEF Those, Picked
<1>12. EndingIn(named, query) = PlacesOf(t, F)
  <2>1. \A k \in DOMAIN t : t[k] \in DOMAIN rows
    BY <1>1, <1>5, <1>10
  <2> QED BY <1>7, <1>11, <2>1 DEF EndingIn, PlacesOf
<1>13. Those(Those(rows, E), PlacesOf(InOrder(E, Upward(E)), F)) = Those(rows, F)
  BY <1>5, <1>8, ThoseOfThose
<1> QED
  BY <1>6, <1>7, <1>9, <1>12, <1>13

\* The sorted names find what a pass over them finds.
LEMMA NamesAgree ==
  ASSUME NEW view, NEW rows, NEW others, Shows(view, rows, others), NEW wanted \in Words
  PROVE  Named(view, wanted) = Those(rows, WithName(rows, wanted))
<1>0. PICK n \in Nat : n = Len(rows)
  BY RowsLegible DEF Legible
<1>1. /\ DOMAIN rows = 1 .. n /\ view.items = rows
      /\ Names(view) \in [1 .. n -> Words]
      /\ \A i \in 1 .. n : Names(view)[i] = LoweredName(rows[i])
  BY <1>0, RowsLegible DEF Legible
<1>2. PICK names \in [1 .. n -> Words] : names = Names(view)
  BY <1>1
<1>3. WithName(rows, wanted) = NamedAt(names, wanted)
  BY <1>1, <1>2 DEF NamedAt, WithName
<1>4. Named(view, wanted) = Picked(rows, Stretch(Sorted(names), names, wanted))
  BY <1>1, <1>2 DEF Named, ByName
<1>5. Picked(rows, Stretch(Sorted(names), names, wanted)) = Those(rows, NamedAt(names, wanted))
  BY SortedFinds
<1> QED
  BY <1>3, <1>4, <1>5

\* The sorted re-exports find what a pass over them finds.
LEMMA ReexportsAgree ==
  ASSUME NEW view, NEW rows, NEW others, Shows(view, rows, others), NEW query \in Words
  PROVE  ReexportedAs(view, query) = Those(others, KnownAs(others, Lowered(LastSegment(query))))
<1>0. PICK n \in Nat : n = Len(others)
  BY RowsLegible DEF Legible
<1>1. /\ DOMAIN others = 1 .. n /\ view.reexports = others
      /\ ReexportNames(view) \in [1 .. n -> Words]
      /\ \A i \in 1 .. n : ReexportNames(view)[i] = Lowered(others[i].name)
  BY <1>0, RowsLegible DEF Legible
<1>2. PICK names \in [1 .. n -> Words] : names = ReexportNames(view)
  BY <1>1
<1>3. PICK wanted \in Words : wanted = Lowered(LastSegment(query))
  <2>1. LastSegment(query) \in Words
    BY LoweredIs
  <2>2. Lowered(LastSegment(query)) \in Words
    BY <2>1, LoweredIs
  <2> QED BY <2>2
<1>4. KnownAs(others, wanted) = NamedAt(names, wanted)
  BY <1>1, <1>2 DEF NamedAt, KnownAs
<1>5. ReexportedAs(view, query) = Picked(others, Stretch(Sorted(names), names, wanted))
  BY <1>1, <1>2, <1>3 DEF ReexportedAs, ReexportsByName
<1>6. Picked(others, Stretch(Sorted(names), names, wanted)) = Those(others, NamedAt(names, wanted))
  BY SortedFinds
<1> QED
  BY <1>3, <1>4, <1>5, <1>6

\* Nothing found is no rows.
LEMMA ThoseOfNone ==
  ASSUME NEW rows
  PROVE  Those(rows, {}) = <<>>
<1>1. IsFiniteSet({}) /\ Cardinality({}) = 0
  BY FS_EmptySet
<1>2. PICK t : t = InOrder({}, Upward({}))
  OBVIOUS
<1>3. DOMAIN t = {}
  BY <1>1, <1>2 DEF InOrder
<1>4. Those(rows, {}) = [k \in {} |-> rows[t[k]]]
  BY <1>2, <1>3 DEF Those, Picked
<1>5. [k \in {} |-> rows[t[k]]] = <<>>
  OBVIOUS
<1> QED BY <1>4, <1>5

\* The filter turns away no query that is part of a path: what it turns away a pass over
\* the paths does not find either.
LEMMA FilterAgrees ==
  ASSUME NEW view, NEW rows, NEW others, Shows(view, rows, others), NEW lowered \in Words
  PROVE  CouldContain(view, lowered) \/ Containing(rows, lowered) = {}
<1>1. PICK n \in Nat : n = Len(rows) /\ view.items = rows /\ DOMAIN rows = 1 .. n /\ \A i \in 1 .. n : rows[i].path \in Words
  BY RowsLegible DEF Legible
<1>2. PICK seqs : seqs = [i \in 1 .. n |-> Lowered(rows[i].path)]
  OBVIOUS
<1>3. seqs \in Seq(Words) /\ DOMAIN seqs = 1 .. n /\ \A i \in 1 .. n : seqs[i] = Lowered(rows[i].path)
  <2>1. seqs \in [1 .. n -> Words]
    BY <1>1, <1>2, LoweredIs
  <2> QED BY <1>2, <2>1
<1>4. PICK arena : arena = FlattenSeq(seqs)
  OBVIOUS
<1>5. Trigrams(view) = {Slot(w) : w \in Windows(arena)}
  BY <1>1, <1>2, <1>4 DEF Trigrams
<1>6. ASSUME NEW i \in Containing(rows, lowered) PROVE CouldContain(view, lowered)
  <2>1. i \in 1 .. n /\ i \in DOMAIN seqs /\ Within(lowered, seqs[i]) /\ seqs[i] \in Words
    BY <1>1, <1>3 DEF Containing
  <2>2. PICK k \in Nat : Lies(lowered, seqs[i], k)
    BY <2>1, WithinLies
  <2>3. Windows(lowered) \subseteq Windows(seqs[i])
    BY <2>1, <2>2, WindowsLie
  <2>4. arena \in Words /\ \E o \in Nat : Lies(seqs[i], arena, o)
    BY <1>3, <1>4, <2>1, FlattenLies
  <2>5. PICK o \in Nat : Lies(seqs[i], arena, o)
    BY <2>4
  <2>6. Windows(seqs[i]) \subseteq Windows(arena)
    BY <2>1, <2>4, <2>5, WindowsLie
  <2> QED BY <1>5, <2>3, <2>6 DEF CouldContain
<1> QED
  BY <1>6

\* The steps of the ladder.
Rungs(exact, bySuffix, named, reexported, fuzzy) ==
  FirstOf(<<exact, Resolve(bySuffix), Resolve(named), Elsewhere(reexported), Suggest(fuzzy)>>)

\* Lookup answers as passes over all rows would.
LEMMA LookupIs ==
  ASSUME NEW view, NEW rows, NEW others, Shows(view, rows, others), PathsRise(rows), NEW raw \in Words
  PROVE  Lookup(view, raw) = LookupLinear(view, raw)
<1>1. PICK query \in Words : query = Stripped(raw)
  BY LoweredIs
<1>2. PICK lowered \in Words : lowered = Lowered(query)
  BY LoweredIs
<1>3. view.items = rows /\ view.reexports = others
  BY DEF Shows
<1>4. PICK E : E = WithPath(rows, query)
  OBVIOUS
<1>5. PICK exact : exact = Exactly(view, query)
  OBVIOUS
<1>6. PICK named : named = Named(view, Lowered(LastSegment(query)))
  OBVIOUS
<1>7. PICK F : F = Containing(rows, lowered)
  OBVIOUS
<1>8. (IF exact = <<>> THEN NoAnswer ELSE Found(rows[exact[1]])) =
        (IF E = {} THEN NoAnswer ELSE Found(rows[Min(E)]))
  <2>1. exact = <<>> <=> E = {}
    BY <1>4, <1>5, ExactAgrees
  <2>2. E # {} => exact[1] = Min(E)
    BY <1>4, <1>5, ExactAgrees
  <2> QED BY <2>1, <2>2
<1>9. Those(named, EndingIn(named, query)) = Those(rows, EndingIn(rows, query))
  BY <1>6, SuffixAgrees
<1>10. Named(view, lowered) = Those(rows, WithName(rows, lowered))
  BY NamesAgree
<1>11. ReexportedAs(view, query) = Those(others, KnownAs(others, Lowered(LastSegment(query))))
  BY ReexportsAgree
<1>12. (IF CouldContain(view, lowered) THEN Those(rows, F) ELSE <<>>) = Those(rows, F)
  <2>1. CouldContain(view, lowered) \/ F = {}
    BY <1>7, FilterAgrees
  <2>2. F = {} => Those(rows, F) = <<>>
    BY ThoseOfNone
  <2> QED BY <2>1, <2>2
<1>13. Lookup(view, raw) =
         IF query = <<>> THEN NoAnswer
         ELSE Rungs(IF exact = <<>> THEN NoAnswer ELSE Found(rows[exact[1]]),
                    Those(named, EndingIn(named, query)), Named(view, lowered),
                    ReexportedAs(view, query),
                    IF CouldContain(view, lowered) THEN Those(rows, F) ELSE <<>>)
  BY <1>1, <1>2, <1>3, <1>5, <1>6, <1>7 DEF Lookup, Rungs, EndingIn, Containing
<1>14. LookupLinear(view, raw) =
         IF query = <<>> THEN NoAnswer
         ELSE Rungs(IF E = {} THEN NoAnswer ELSE Found(rows[Min(E)]),
                    Those(rows, EndingIn(rows, query)), Those(rows, WithName(rows, lowered)),
                    Those(others, KnownAs(others, Lowered(LastSegment(query)))),
                    Those(rows, F))
  BY <1>1, <1>2, <1>3, <1>4, <1>7 DEF LookupLinear, Rungs, WithPath, EndingIn, WithName, KnownAs, Containing
<1> QED
  BY <1>8, <1>9, <1>10, <1>11, <1>12, <1>13, <1>14

-----------------------------------------------------------------------------
(* The rows looked up in *)

\* A path and a name joined are unambiguous.
LEMMA JoinedIs ==
  ASSUME NEW path \in Words, Unambiguous(path), path # <<>> => path[Len(path)] # Colon,
         NEW name \in Words, \A i \in DOMAIN name : name[i] # Colon
  PROVE  Unambiguous(path \o Separator \o name)
<1>1. PICK a \in Nat, l \in Nat : a = Len(path) /\ l = Len(name)
  BY DEF Words
<1>2. PICK sep \in Words : sep = Separator /\ Len(sep) = 2
  <2>1. Colon \in Nat
    BY DEF Colon
  <2>2. <<Colon, Colon>> \in Seq(Nat) /\ Len(<<Colon, Colon>>) = 2
    BY <2>1
  <2> QED BY <2>2 DEF Separator, Words
<1>3. PICK head : head = path \o sep /\ JoinOf(path, sep, head)
  BY JoinIs
<1>4. head \in Words /\ Len(head) = a + 2 /\ \A i \in 1 .. a : head[i] = path[i]
  BY <1>1, <1>2, <1>3 DEF JoinOf
<1>5. PICK all : all = head \o name /\ JoinOf(head, name, all)
  BY <1>4, JoinIs
<1>6. /\ Len(all) = a + 2 + l /\ \A i \in 1 .. a + 2 : all[i] = head[i]
      /\ \A i \in 1 .. l : all[a + 2 + i] = name[i]
  BY <1>1, <1>4, <1>5 DEF JoinOf
<1>7. \A i \in 1 .. a : all[i] = path[i]
  <2>1. \A i \in 1 .. a : i \in 1 .. a + 2
    OBVIOUS
  <2> QED BY <1>4, <1>6, <2>1
<1>8. \A i \in 1 .. l : all[a + 2 + i] # Colon
  <2>1. DOMAIN name = 1 .. l
    BY <1>1 DEF Words
  <2> QED BY <1>6, <2>1
<1>9. a > 0 => path[a] # Colon
  BY <1>1
<1>10. ASSUME NEW i \in 1 .. Len(all) - 2, all[i] = Colon, all[i + 1] = Colon, all[i + 2] = Colon
       PROVE  FALSE
  <2>1. i \in Nat /\ i >= 1 /\ i + 2 <= a + 2 + l
    BY <1>1, <1>6
  <2>2. CASE i + 2 <= a
    <3>1. i \in 1 .. a - 2 /\ i \in 1 .. a /\ i + 1 \in 1 .. a /\ i + 2 \in 1 .. a
      BY <2>1, <2>2
    <3>2. path[i] = Colon /\ path[i + 1] = Colon /\ path[i + 2] = Colon
      BY <1>7, <1>10, <3>1
    <3> QED BY <1>1, <3>1, <3>2 DEF Unambiguous
  <2>3. CASE i <= a /\ i + 2 > a
    <3>1. a > 0 /\ a \in 1 .. a /\ (i = a \/ i + 1 = a)
      BY <2>1, <2>3
    <3>2. all[a] = Colon
      BY <1>10, <3>1
    <3> QED BY <1>7, <1>9, <3>1, <3>2
  <2>4. CASE i > a
    <3>1. (i + 2) - (a + 2) \in 1 .. l /\ a + 2 + ((i + 2) - (a + 2)) = i + 2
      BY <2>1, <2>4
    <3> QED BY <1>8, <1>10, <3>1
  <2> QED BY <2>1, <2>2, <2>3, <2>4
<1>11. Unambiguous(all)
  BY <1>10 DEF Unambiguous
<1> QED
  BY <1>2, <1>3, <1>5, <1>11

\* The paths a document's rows have are unambiguous.
LEMMA PathsUnambiguous ==
  ASSUME document \in Documents, NEW id \in DOMAIN document.paths, NEW row \in DocRows[id]
  PROVE  Unambiguous(row.path)
<1>1. PICK path \in Words : path = document.paths[id].path
  BY SummaryIs
<1>2. Unambiguous(path) /\ (path # <<>> => path[Len(path)] # Colon)
  BY <1>1, PathConstants
<1>3. row \in ItemRowsOf(id)
  BY DEF DocRows
<1>4. CASE row = Row(document.paths[id].path, document.paths[id].kind, id)
  BY <1>1, <1>2, <1>4 DEF Row
<1>5. ASSUME NEW member, Nameable(member), row = MemberRow(document.paths[id].path, member)
      PROVE  Unambiguous(row.path)
  <2>1. Known(member)
    BY <1>5 DEF Nameable
  <2>2. PICK name \in Words : name = Entry(member).name
    BY <2>1, EntryIs
  <2>3. \A i \in DOMAIN name : name[i] # Colon
    BY <2>1, <2>2, PathConstants DEF Known, Entry
  <2>4. Unambiguous(path \o Separator \o name)
    BY <1>2, <2>3, JoinedIs
  <2>5. row.path = path \o Separator \o name
    BY <1>1, <1>5, <2>2 DEF MemberRow, Row
  <2> QED BY <2>4, <2>5
<1>6. \/ row = Row(document.paths[id].path, document.paths[id].kind, id)
      \/ \E member : Nameable(member) /\ row = MemberRow(document.paths[id].path, member)
  BY <1>3 DEF ItemRowsOf
<1> QED
  BY <1>4, <1>5, <1>6

\* Sorted items, one of each path, rise by their paths.
LEMMA SortedItemsRise ==
  ASSUME NEW K \in SUBSET TypedItems, IsFiniteSet(K), \A row \in K : Unambiguous(row.path)
  PROVE  SortedItems(K) \in Seq(TypedItems) /\ PathsRise(SortedItems(K))
<1>1. PICK B : B = ItemsBefore
  OBVIOUS
<1>2. PICK S : S = Best(K, ItemName, B)
  OBVIOUS
<1>3. S \in SUBSET K /\ S \in SUBSET TypedItems
  BY <1>2 DEF Best
<1>4. IsFiniteSet(S) /\ Sorts(B, S)
  BY <1>1, <1>3, ItemsSorted, FS_Subset
<1>5. PICK t : t = InOrder(S, B) /\ Rises(t, S, B)
  BY <1>4, InOrderRises
<1>6. t \in Seq(S) /\ \A i \in DOMAIN t : t[i] \in S /\ t[i] \in K /\ t[i] \in TypedItems
  BY <1>3, <1>5 DEF Rises, Range
<1>7. t \in Seq(TypedItems)
  BY <1>3, <1>6
<1>8. ASSUME NEW i \in DOMAIN t, NEW j \in DOMAIN t, i < j PROVE Precedes(t[i].path, t[j].path)
  <2>1. <<t[i], t[j]>> \in B
    BY <1>5, <1>8 DEF Rises
  <2>2. Before(t[i], t[j])
    BY <1>1, <2>1 DEF ItemsBefore
  <2>3. ASSUME t[i].path = t[j].path PROVE FALSE
    <3>1. ItemName[t[i]] = ItemName[t[j]]
      BY <1>6, <2>3 DEF ItemName
    <3>2. t[j] \in S /\ t[i] \in K
      BY <1>6
    <3> QED BY <1>2, <2>1, <3>1, <3>2 DEF Best
  <2> QED BY <2>2, <2>3 DEF Before
<1>9. \A i \in DOMAIN t : Unambiguous(t[i].path)
  BY <1>6
<1>10. PathsRise(t)
  BY <1>8, <1>9 DEF PathsRise
<1> QED
  BY <1>1, <1>2, <1>5, <1>7, <1>10 DEF SortedItems

\* Sorted re-exports are re-exports.
LEMMA SortedReexportsTyped ==
  ASSUME NEW Q \in SUBSET TypedReexports, IsFiniteSet(Q)
  PROVE  SortedReexports(Q) \in Seq(TypedReexports)
<1>1. PICK B : B = ReexportsBefore
  OBVIOUS
<1>2. PICK S : S = Best(Q, ReexportName, B)
  OBVIOUS
<1>3. S \in SUBSET Q /\ S \in SUBSET TypedReexports
  BY <1>2 DEF Best
<1>4. IsFiniteSet(S) /\ Sorts(B, S)
  BY <1>1, <1>3, ReexportsSorted, FS_Subset
<1>5. PICK t : t = InOrder(S, B) /\ Rises(t, S, B)
  BY <1>4, InOrderRises
<1>6. t \in Seq(TypedReexports)
  BY <1>3, <1>5 DEF Rises
<1> QED
  BY <1>1, <1>2, <1>5, <1>6 DEF SortedReexports

-----------------------------------------------------------------------------
(* Theorems *)

\* Parses are in known places, and hold no more rows than the ceiling (MAX_ITEMS in build).
THEOREM BuildTypes ==
  BuildSpec => []BuildTypeOK
<1>1. BuildInv => BuildTypeOK
  BY DEF BuildInv
<1> QED
  BY <1>1, BuildHolds, PTL

\* An index says of an item or a re-export what the document said, whatever the order the
\* rows came in and however their text was shared and moved (Arenas, compact, StoredDocs).
THEOREM RowsSayWhatTheySaid ==
  BuildSpec => []SpansHold
<1>1. BuildInv => SpansHold
  <2> SUFFICES ASSUME BuildInv, NEW p \in Parses, Built(p)
               PROVE  ItemsOf(p) \subseteq items[p] /\ ReexportsOf(p) \subseteq reexports[p]
    BY DEF SpansHold
  <2>1. IndexHeld(p)
    BY DEF BuildInv, ParseHolds, Built
  <2>2. /\ ItemsOf(p) = Best(items[p], ItemName, ItemsBefore)
        /\ ReexportsOf(p) = Best(reexports[p], ReexportName, ReexportsBefore)
    BY <2>1 DEF IndexHeld, ItemsOf, ReexportsOf, ToSet, Range
  <2> QED BY <2>2 DEF Best
<1> QED
  BY <1>1, BuildHolds, PTL

\* Below the ceilings an index does not depend on the order the hash maps are visited in
\* (the sorts and dedups of build, and compact).
THEOREM IndexIsReproducible ==
  BuildSpec => []SameIndex
<1>1. BuildInv => SameIndex
  <2> SUFFICES ASSUME BuildInv, NEW p \in Parses, NEW q \in Parses, Built(p), Built(q),
                      ~truncated[p], ~truncated[q], Cardinality(GenuineIds) <= MaxItems
               PROVE  index[p] = index[q]
    BY DEF SameIndex
  <2>1. ASSUME NEW r \in Parses, Built(r), ~truncated[r]
        PROVE  index[r] = IndexOf(RowsOfIds(DocRows, DOMAIN document.paths), AllReexports)
    <3>1. ItemsHeld(r) /\ ReexportsHeld(r) /\ IndexHeld(r)
      BY <2>1 DEF BuildInv, ParseHolds, Built
    <3>2. unseen[r] = {} /\ items[r] = RowsOfIds(DocRows, DOMAIN document.paths \ unseen[r])
      BY <2>1, <3>1 DEF ItemsHeld, Built
    <3>3. DOMAIN document.paths \ {} = DOMAIN document.paths
      OBVIOUS
    <3>4. reexports[r] = AllReexports
      BY <2>1, <3>1 DEF ReexportsHeld, Built
    <3> QED BY <3>1, <3>2, <3>3, <3>4 DEF IndexHeld
  <2> QED BY <2>1
<1> QED
  BY <1>1, BuildHolds, PTL

\* An index that does not say it was cut short has every path the document offers, with
\* its documentation when a row of the path has some (is_truncated; the dedup in build).
THEOREM NothingMissing ==
  BuildSpec => []Complete
<1>1. BuildInv => Complete
  <2> SUFFICES ASSUME BuildInv, NEW p \in Parses, Built(p), ~truncated[p], NEW row \in OfferedRows
               PROVE  \E item \in ItemsOf(p) :
                        item.path = row.path /\ (row.docs # <<>> => item.docs # <<>>)
    BY DEF Complete
  <2>1. ItemsHeld(p) /\ IndexHeld(p) /\ document \in Documents
    BY DEF BuildInv, BuildTypeOK, ParseHolds, Built
  <2>2. unseen[p] = {} /\ items[p] = RowsOfIds(DocRows, DOMAIN document.paths \ unseen[p])
    BY <2>1 DEF ItemsHeld, Built
  <2>3. DOMAIN document.paths \ {} = DOMAIN document.paths
    OBVIOUS
  <2>4. PICK K : K = items[p]
    OBVIOUS
  <2>5. row \in K
    BY <2>1, <2>2, <2>3, <2>4, DocRowsAre
  <2>6. K \subseteq TypedItems
    <3>1. \A id \in DOMAIN document.paths : DocRows[id] \in SUBSET TypedItems
      BY <2>1, DocRowsAre
    <3> QED BY <2>2, <2>4, <3>1 DEF RowsOfIds
  <2>7. ItemsOf(p) = Best(K, ItemName, ItemsBefore)
    BY <2>1, <2>4 DEF IndexHeld, ItemsOf, ToSet, Range
  <2>8. PICK b \in Best(K, ItemName, ItemsBefore) :
          b.path = row.path /\ (b = row \/ <<b, row>> \in ItemsBefore)
    BY <2>1, <2>4, <2>5 DEF IndexHeld
  <2>9. ASSUME row.docs # <<>>, b.docs = <<>> PROVE FALSE
    <3>1. b \in TypedItems /\ row \in TypedItems
      BY <2>5, <2>6, <2>8 DEF Best
    <3>2. Precedes(ItemRank(row), ItemRank(b))
      BY <2>9, <3>1, ItemRankTells
    <3>3. Before(row, b)
      BY <2>8, <3>2 DEF Before, ItemRank
    <3>4. <<row, b>> \in ItemsBefore
      BY <3>1, <3>3 DEF ItemsBefore
    <3>5. ItemName[row] = ItemName[b]
      BY <2>8, <3>1 DEF ItemName
    <3> QED BY <2>5, <2>8, <3>4, <3>5 DEF Best
  <2> QED BY <2>7, <2>8, <2>9
<1> QED
  BY <1>1, BuildHolds, PTL

\* The lookup over sorted names, partition points and the trigram filter answers every query
\* as passes over all items would, whatever was collected (lookup, lookup_linear).
THEOREM LookupIsLinear ==
  BuildSpec => []LookupAgrees
<1>1. BuildInv => LookupAgrees
  <2> SUFFICES ASSUME BuildInv, NEW p \in Parses, Built(p), NEW query \in Queries
               PROVE  Lookup(View(index[p]), query) = LookupLinear(View(index[p]), query)
    BY DEF LookupAgrees
  <2>1. /\ ItemsHeld(p) /\ ReexportsHeld(p) /\ IndexHeld(p) /\ document \in Documents
        /\ IsFiniteSet(items[p])
    BY DEF BuildInv, BuildTypeOK, ParseHolds, Built
  <2>2. PICK K : K = items[p]
    OBVIOUS
  <2>3. PICK Q : Q = reexports[p]
    OBVIOUS
  <2>4. K \subseteq RowsOfIds(DocRows, DOMAIN document.paths)
    BY <2>1, <2>2 DEF ItemsHeld
  <2>5. K \in SUBSET TypedItems /\ \A row \in K : Unambiguous(row.path)
    <3> SUFFICES ASSUME NEW row \in K PROVE row \in TypedItems /\ Unambiguous(row.path)
      OBVIOUS
    <3>1. PICK id \in DOMAIN document.paths : row \in DocRows[id]
      BY <2>4 DEF RowsOfIds
    <3>2. DocRows[id] \in SUBSET TypedItems
      BY <2>1, DocRowsAre
    <3> QED BY <2>1, <3>1, <3>2, PathsUnambiguous
  <2>6. Q \in SUBSET TypedReexports /\ IsFiniteSet(Q)
    <3>1. AllReexports \in SUBSET TypedReexports
      BY <2>1, ReexportsAre DEF AllReexports
    <3> QED BY <2>1, <2>3, <3>1 DEF ReexportsHeld
  <2>7. PICK rows : rows = SortedItems(K) /\ rows \in Seq(TypedItems) /\ PathsRise(rows)
    BY <2>1, <2>2, <2>5, SortedItemsRise
  <2>8. PICK others : others = SortedReexports(Q) /\ others \in Seq(TypedReexports)
    BY <2>6, SortedReexportsTyped
  <2>9. PICK view : view = View(index[p])
    OBVIOUS
  <2>10. Shows(view, rows, others)
    BY <2>1, <2>2, <2>3, <2>7, <2>8, <2>9 DEF IndexHeld, Shows
  <2>11. query \in Words
    BY IndexConstants DEF Words
  <2>12. Lookup(view, query) = LookupLinear(view, query)
    BY <2>7, <2>10, <2>11, LookupIs
  <2> QED BY <2>9, <2>12
<1> QED
  BY <1>1, BuildHolds, PTL
=============================================================================
