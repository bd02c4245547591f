--------------------------- MODULE ToolCallsProofs ---------------------------
(***************************************************************************)
(* What holds of the tool calls (ToolCalls.tla) for every set of versions, *)
(* index, request and fault, all lifetimes and any number of calls.        *)
(*                                                                         *)
(* What a call says was so at some moment of it, or no longer before it    *)
(* than the lifetime of what it read.  The inductive invariant keeps track *)
(* of the moments: a cached view was so when its lifetime still covered    *)
(* the moment until which it is kept, and a call has what it read from     *)
(* such moments, and from what it read the version that is preferred.      *)
(***************************************************************************)
EXTENDS ToolCalls, Induction, SequenceTheorems

\* What the registry and docs.rs were at some moment up to age before time, or are now.
Was(age, time) ==
  {<<log[i].index, log[i].docs>> : i \in {j \in DOMAIN log : log[j].until + age >= time}}
  \cup {<<index, docs>>}

Outcomes == {"none", "failed", "html", "json"}
Indexes == {entries \in Seq(Entries) : PublishedOnce(entries)}
AllDocs == [Versions -> Outcomes]
Instant == [index : Indexes, docs : AllDocs, until : Nat]

\* The registry is well-formed, now and in the past.
WorldOK ==
  /\ clock \in Nat /\ changes \in Nat /\ calls \in Nat
  /\ index \in Indexes
  /\ docs \in AllDocs
  /\ log \in Seq(Instant)
  /\ \A i \in DOMAIN log : log[i].until <= clock

\* How long an index, the metadata and a build status are kept.
IndexLife(entries) == IF entries = <<>> THEN NegativeTtl ELSE IndexTtl
MetadataLife(known) == IF known THEN MetadataTtl ELSE NegativeTtl
StatusLife(outcome) == IF outcome = "none" THEN NegativeTtl ELSE StatusTtl

\* A view is kept for its lifetime after a moment it is of.
Dated(view, life) == view.until \in Nat /\ view.until <= clock + life

IndexHeld(view) ==
  /\ view.value \in Indexes /\ Dated(view, IndexLife(view.value))
  /\ \E w \in Was(IndexLife(view.value), view.until) : w[1] = view.value
MetadataHeld(view) ==
  /\ view.value \in BOOLEAN /\ Dated(view, MetadataLife(view.value))
  /\ \E w \in Was(MetadataLife(view.value), view.until) : view.value <=> w[1] # <<>>
StatusHeld(view, v) ==
  /\ view.value \in Outcomes /\ Dated(view, StatusLife(view.value))
  /\ \E w \in Was(StatusLife(view.value), view.until) : w[2][v] = view.value

ViewsOK ==
  /\ views = [index |-> views.index, metadata |-> views.metadata, status |-> views.status]
  /\ views.status = [v \in Versions |-> views.status[v]]
  /\ views.index = NoView \/ IndexHeld(views.index)
  /\ views.metadata = NoView \/ MetadataHeld(views.metadata)
  /\ \A v \in Versions : views.status[v] = NoView \/ StatusHeld(views.status[v], v)

\* A documentation call has resolved its version, of an index that was so, and knows
\* of its build what was so.
Resolved(t) ==
  /\ \E w \in Was(IndexTtl, began[t]) : w[1] = seen[t]
  /\ seen[t] \in Indexes
  /\ chosen[t] = Resolve(seen[t], SelectorOf(call[t])) /\ chosen[t] # Nowhere
Informed(t) ==
  /\ built[t] = "yes" =>
       \E w \in Was(StatusTtl, began[t]) : w[2][Release(t)] \in {"html", "json"}
  /\ built[t] = "no" =>
       \/ \E w \in Was(StatusTtl, began[t]) : w[2][Release(t)] = "failed"
       \/ \E w \in Was(NegativeTtl, began[t]) : w[2][Release(t)] = "none"

\* Where the call of each tool may be.
Searching(t) == call[t].tool = "search" /\ pending[t] = {"search"}
Gathering(t) == call[t].tool = "info" /\ pending[t] \subseteq {"index", "metadata"}
Indexing(t) == call[t].tool \in {"versions", "dependencies", "documentation"} /\ pending[t] = {"index"}
Composing(t) ==
  /\ call[t].tool = "documentation" /\ pending[t] \subseteq {"item", "status", "readme"}
  /\ Resolved(t) /\ Informed(t)

CallOK(t) ==
  /\ call[t] \in Requests \cup {Idle}
  /\ built[t] \in {"yes", "no", "unknown"}
  /\ call[t] = Idle => pending[t] = {} /\ built[t] = "unknown"
  /\ call[t] # Idle =>
       /\ began[t] \in Nat /\ began[t] <= clock
       /\ SelectorOf(call[t]) # Garbage
       /\ call[t].tool = "versions" => call[t].limit \in 1 .. MaxLimit
       /\ \/ Searching(t) /\ built[t] = "unknown"
          \/ Gathering(t) /\ built[t] = "unknown"
          \/ Indexing(t) /\ built[t] = "unknown"
          \/ Composing(t)

Tables ==
  /\ call = [t \in Tasks |-> call[t]] /\ began = [t \in Tasks |-> began[t]]
  /\ pending = [t \in Tasks |-> pending[t]] /\ seen = [t \in Tasks |-> seen[t]]
  /\ chosen = [t \in Tasks |-> chosen[t]] /\ built = [t \in Tasks |-> built[t]]

CallsInv ==
  /\ WorldOK /\ ViewsOK /\ Tables
  /\ \A t \in Tasks : CallOK(t)

-----------------------------------------------------------------------------
(* Versions and their order *)

\* Numbers in a row are ordered by the first place where they differ.
Rows(n) == [1 .. n -> Nat]

\* Rows that differ do so at a first place.
LEMMA LeastPlace ==
  ASSUME NEW n \in Nat, NEW v \in Rows(n), NEW w \in Rows(n), v # w
  PROVE  \E i \in 1 .. n : v[i] # w[i] /\ \A j \in 1 .. i - 1 : v[j] = w[j]
<1>1. PICK D : D = {i \in 1 .. n : v[i] # w[i]}
  OBVIOUS
<1>2. D \in SUBSET Nat /\ D # {}
  BY <1>1 DEF Rows
<1>3. PICK i \in D : \A j \in D : i <= j
  BY <1>2, LeastNatural
<1>4. i \in 1 .. n /\ v[i] # w[i]
  BY <1>1
<1>5. ASSUME NEW j \in 1 .. i - 1 PROVE v[j] = w[j]
  <2>1. j \in 1 .. n /\ ~(i <= j)
    BY <1>4
  <2> QED BY <1>1, <1>3, <2>1
<1> QED
  BY <1>4, <1>5

\* What it is to be below, with the place where it shows.
LEMMA BelowIs ==
  ASSUME NEW n \in Nat, NEW v \in Rows(n), NEW w
  PROVE  Below(v, w) <=> \E i \in 1 .. n : v[i] < w[i] /\ \A j \in 1 .. i - 1 : v[j] = w[j]
<1>1. DOMAIN v = 1 .. n
  BY DEF Rows
<1> QED
  BY <1>1 DEF Below

\* Of two rows that differ one is below the other.
LEMMA BelowTotal ==
  ASSUME NEW n \in Nat, NEW v \in Rows(n), NEW w \in Rows(n), v # w
  PROVE  Below(v, w) \/ Below(w, v)
<1>1. PICK i \in 1 .. n : v[i] # w[i] /\ \A j \in 1 .. i - 1 : v[j] = w[j]
  BY LeastPlace
<1>2. v[i] \in Nat /\ w[i] \in Nat
  BY DEF Rows
<1>3. CASE v[i] < w[i]
  BY <1>1, <1>3, BelowIs
<1>4. CASE w[i] < v[i]
  BY <1>1, <1>4, BelowIs
<1> QED
  BY <1>1, <1>2, <1>3, <1>4

\* What is below something below is below.
LEMMA BelowTransitive ==
  ASSUME NEW n \in Nat, NEW u \in Rows(n), NEW v \in Rows(n), NEW w \in Rows(n), Below(u, v), Below(v, w)
  PROVE  Below(u, w)
<1>1. PICK i \in 1 .. n : u[i] < v[i] /\ \A j \in 1 .. i - 1 : u[j] = v[j]
  BY BelowIs
<1>2. PICK k \in 1 .. n : v[k] < w[k] /\ \A j \in 1 .. k - 1 : v[j] = w[j]
  BY BelowIs
<1>3. \A j \in 1 .. n : u[j] \in Nat /\ v[j] \in Nat /\ w[j] \in Nat
  BY DEF Rows
<1>4. CASE i < k
  <2>1. u[i] < w[i] /\ \A j \in 1 .. i - 1 : u[j] = w[j]
    BY <1>1, <1>2, <1>4
  <2> QED BY <2>1, BelowIs
<1>5. CASE k < i
  <2>1. u[k] < w[k] /\ \A j \in 1 .. k - 1 : u[j] = w[j]
    BY <1>1, <1>2, <1>5
  <2> QED BY <2>1, BelowIs
<1>6. CASE i = k
  <2>1. u[i] < w[i] /\ \A j \in 1 .. i - 1 : u[j] = w[j]
    BY <1>1, <1>2, <1>3, <1>6
  <2> QED BY <2>1, BelowIs
<1> QED
  BY <1>4, <1>5, <1>6

\* Nothing is below itself.
LEMMA BelowStrict ==
  ASSUME NEW n \in Nat, NEW v \in Rows(n)
  PROVE  ~Below(v, v)
<1>1. \A i \in 1 .. n : v[i] \in Nat
  BY DEF Rows
<1> QED
  BY <1>1, BelowIs

-----------------------------------------------------------------------------
(* The order in which releases are preferred *)

Parsed == {e \in Entries : e.version # Unparsed}

\* A version that was parsed is three numbers, the last of them at most Stable.
LEMMA VersionIs ==
  ASSUME NEW e \in Parsed
  PROVE  /\ e.version \in Rows(3) /\ e.version[1] \in Nat /\ e.version[2] \in Nat
         /\ e.version[3] \in 1 .. Stable /\ e.yanked \in BOOLEAN
<1>1. e.version \in Versions /\ e.version # Unparsed /\ e.yanked \in BOOLEAN
  BY DEF Parsed, Entries
<1>2. e.version \in Nat \X Nat \X (1 .. Stable)
  BY <1>1, ToolConstants
<1>3. PICK a \in Nat, b \in Nat, c \in 1 .. Stable : e.version = <<a, b, c>>
  BY <1>2
<1>4. c \in Nat /\ 1 .. 3 = {1, 2, 3}
  BY DEF Stable
<1>5. <<a, b, c>> \in [1 .. 3 -> Nat]
  BY <1>4
<1> QED
  BY <1>1, <1>3, <1>5 DEF Rows

Live(e) == IF e.yanked THEN 0 ELSE 1
Final(e) == IF IsStable(e.version) THEN 1 ELSE 0

\* A rank is two flags and the version.
LEMMA RankIs ==
  ASSUME NEW e \in Parsed
  PROVE  /\ Rank(e) \in Rows(5) /\ Rank(e)[1] = Live(e) /\ Rank(e)[2] = Final(e)
         /\ \A k \in 1 .. 3 : Rank(e)[k + 2] = e.version[k]
<1>1. PICK flags : flags = <<Live(e), Final(e)>>
  OBVIOUS
<1>2. Live(e) \in Nat /\ Final(e) \in Nat
  BY DEF Live, Final
<1>3. flags \in Seq(Nat) /\ Len(flags) = 2 /\ flags[1] = Live(e) /\ flags[2] = Final(e)
  BY <1>1, <1>2
<1>4. PICK v : v = e.version
  OBVIOUS
<1>5. v \in Seq(Nat) /\ Len(v) = 3
  <2>1. v \in [1 .. 3 -> Nat] /\ 3 \in Nat
    BY <1>4, VersionIs DEF Rows
  <2>2. v \in Seq(Nat)
    BY <2>1, SeqDef
  <2>3. Len(v) \in Nat /\ 1 .. Len(v) = 1 .. 3
    BY <2>1, <2>2, LenProperties
  <2>4. PICK n \in Nat : n = Len(v)
    BY <2>3
  <2>5. 3 \in 1 .. n /\ (n > 0 => n \in 1 .. 3)
    BY <2>3, <2>4
  <2>6. n = 3
    BY <2>5
  <2> QED BY <2>2, <2>4, <2>6
<1>6. Rank(e) = flags \o v
  BY <1>1, <1>4 DEF Rank, Live, Final
<1>7. /\ flags \o v \in Seq(Nat) /\ Len(flags \o v) = 5
      /\ \A i \in 1 .. 5 : (flags \o v)[i] = IF i <= 2 THEN flags[i] ELSE v[i - 2]
  <2>1. flags \o v \in Seq(Nat) /\ Len(flags \o v) = Len(flags) + Len(v)
    BY <1>3, <1>5, ConcatProperties
  <2>2. \A i \in 1 .. Len(flags) + Len(v) :
          (flags \o v)[i] = IF i <= Len(flags) THEN flags[i] ELSE v[i - Len(flags)]
    BY <1>3, <1>5, ConcatProperties
  <2>3. Len(flags) + Len(v) = 5
    BY <1>3, <1>5
  <2>4. \A i \in 1 .. 5 : (flags \o v)[i] = IF i <= 2 THEN flags[i] ELSE v[i - 2]
    BY <1>3, <2>2, <2>3
  <2> QED BY <2>1, <2>3, <2>4
<1>8. Rank(e) \in Rows(5)
  <2>1. flags \o v \in [1 .. Len(flags \o v) -> Nat]
    BY <1>7, LenProperties
  <2> QED BY <1>6, <1>7, <2>1 DEF Rows
<1>9. ASSUME NEW k \in 1 .. 3 PROVE Rank(e)[k + 2] = e.version[k]
  <2>1. k + 2 \in 1 .. 5 /\ ~(k + 2 <= 2) /\ (k + 2) - 2 = k
    OBVIOUS
  <2> QED BY <1>4, <1>6, <1>7, <2>1
<1>10. Rank(e)[1] = Live(e) /\ Rank(e)[2] = Final(e)
  <2>1. 1 \in 1 .. 5 /\ 2 \in 1 .. 5 /\ 1 <= 2 /\ 2 <= 2
    OBVIOUS
  <2> QED BY <1>3, <1>6, <1>7, <2>1
<1> QED
  BY <1>8, <1>9, <1>10

\* Of two releases with the same flags the higher ranks higher.
LEMMA RankFollowsVersion ==
  ASSUME NEW e \in Parsed, NEW f \in Parsed, Live(e) = Live(f), Final(e) = Final(f), Below(e.version, f.version)
  PROVE  Below(Rank(e), Rank(f))
<1>1. e.version \in Rows(3) /\ f.version \in Rows(3) /\ 3 \in Nat
  BY VersionIs
<1>2. PICK i \in 1 .. 3 : e.version[i] < f.version[i] /\ \A j \in 1 .. i - 1 : e.version[j] = f.version[j]
  BY <1>1, BelowIs
<1>3. Rank(e)[i + 2] < Rank(f)[i + 2]
  BY <1>2, RankIs
<1>4. ASSUME NEW j \in 1 .. (i + 2) - 1 PROVE Rank(e)[j] = Rank(f)[j]
  <2>1. CASE j \in {1, 2}
    BY <2>1, RankIs
  <2>2. CASE j \notin {1, 2}
    <3>1. j - 2 \in 1 .. i - 1 /\ j - 2 \in 1 .. 3 /\ (j - 2) + 2 = j
      BY <2>2
    <3>2. Rank(e)[(j - 2) + 2] = e.version[j - 2] /\ Rank(f)[(j - 2) + 2] = f.version[j - 2]
      BY <3>1, RankIs
    <3> QED BY <1>2, <3>1, <3>2
  <2> QED BY <2>1, <2>2
<1>5. i + 2 \in 1 .. 5 /\ 5 \in Nat /\ Rank(e) \in Rows(5)
  BY RankIs
<1> QED
  BY <1>3, <1>4, <1>5, BelowIs

\* A release ranks higher than a pre-release, both yanked or both not.
LEMMA ReleaseRanksHigher ==
  ASSUME NEW e \in Parsed, NEW f \in Parsed, Live(e) = Live(f), Final(e) = 0, Final(f) = 1
  PROVE  Below(Rank(e), Rank(f))
<1>1. Rank(e)[2] < Rank(f)[2]
  BY RankIs
<1>2. \A j \in 1 .. 2 - 1 : Rank(e)[j] = Rank(f)[j]
  <2>1. Rank(e)[1] = Rank(f)[1]
    BY RankIs
  <2> QED BY <2>1
<1>3. 2 \in 1 .. 5 /\ 5 \in Nat /\ Rank(e) \in Rows(5)
  BY RankIs
<1> QED
  BY <1>1, <1>2, <1>3, BelowIs

-----------------------------------------------------------------------------
(* The choice of a release *)

Candidates(entries, selector, allowYanked) ==
  {i \in DOMAIN entries :
     /\ entries[i].version # Unparsed
     /\ allowYanked \/ ~entries[i].yanked
     /\ Accepts(selector, entries[i].version)}

\* The candidate i ranks before j.
Prefers(entries, i, j) ==
  \/ Below(Rank(entries[j]), Rank(entries[i]))
  \/ Rank(entries[j]) = Rank(entries[i]) /\ j < i

\* Candidates have been parsed and have a rank.
LEMMA CandidatesAre ==
  ASSUME NEW entries \in Indexes, NEW selector, NEW allow, NEW i \in Candidates(entries, selector, allow)
  PROVE  entries[i] \in Parsed /\ Rank(entries[i]) \in Rows(5) /\ i \in Nat
<1>1. i \in DOMAIN entries /\ entries[i].version # Unparsed
  BY DEF Candidates
<1>2. entries[i] \in Entries /\ i \in Nat
  BY <1>1 DEF Indexes
<1>3. entries[i] \in Parsed
  BY <1>1, <1>2 DEF Parsed
<1> QED
  BY <1>2, <1>3, RankIs

\* The best of the candidates is before all others, if there is any candidate.
LEMMA BestIs ==
  ASSUME NEW entries \in Indexes, NEW selector, NEW allow
  PROVE  \/ Candidates(entries, selector, allow) = {} /\ Best(entries, selector, allow) = Nowhere
         \/ /\ Best(entries, selector, allow) \in Candidates(entries, selector, allow)
            /\ \A j \in Candidates(entries, selector, allow) \ {Best(entries, selector, allow)} :
                 Prefers(entries, Best(entries, selector, allow), j)
<1>1. PICK c : c = Candidates(entries, selector, allow)
  OBVIOUS
<1>2. Best(entries, selector, allow) =
        IF c = {} THEN Nowhere ELSE CHOOSE i \in c : \A j \in c \ {i} : Prefers(entries, i, j)
  BY <1>1 DEF Best, Candidates, Prefers
<1>3. CASE c = {}
  BY <1>1, <1>2, <1>3
<1>4. CASE c # {}
  <2>1. PICK n \in Nat : DOMAIN entries = 1 .. n
    BY DEF Indexes
  <2>2. c \in SUBSET (1 .. n)
    BY <1>1, <2>1 DEF Candidates
  <2>3. PICK R : R = {p \in c \X c : Prefers(entries, p[2], p[1])}
    OBVIOUS
  <2>4. \A i, j \in c : <<i, j>> \in R <=> Prefers(entries, j, i)
    BY <2>3
  <2>5. \A i \in c : Rank(entries[i]) \in Rows(5) /\ i \in Nat
    BY <1>1, CandidatesAre
  <2>6. ASSUME NEW i \in c, NEW j \in c, i # j PROVE Prefers(entries, j, i) \/ Prefers(entries, i, j)
    <3>1. CASE Rank(entries[i]) = Rank(entries[j])
      BY <2>5, <2>6, <3>1 DEF Prefers
    <3>2. CASE Rank(entries[i]) # Rank(entries[j])
      BY <2>5, <3>2, BelowTotal DEF Prefers
    <3> QED BY <3>1, <3>2
  <2>7. ASSUME NEW i \in c, NEW j \in c, NEW k \in c, Prefers(entries, j, i), Prefers(entries, k, j)
        PROVE  Prefers(entries, k, i)
    <3>1. CASE Below(Rank(entries[i]), Rank(entries[j])) /\ Below(Rank(entries[j]), Rank(entries[k]))
      BY <2>5, <3>1, BelowTransitive DEF Prefers
    <3>2. CASE Rank(entries[i]) = Rank(entries[j]) /\ i < j
      BY <2>5, <2>7, <3>2 DEF Prefers
    <3>3. CASE Rank(entries[j]) = Rank(entries[k]) /\ j < k
      BY <2>5, <2>7, <3>3 DEF Prefers
    <3> QED BY <2>7, <3>1, <3>2, <3>3 DEF Prefers
  <2>8. PutsInOrder(R, c)
    BY <2>4, <2>6, <2>7 DEF PutsInOrder
  <2>9. PICK m \in c : \A j \in c \ {m} : <<j, m>> \in R
    BY <1>4, <2>2, <2>8, GreatestByOrder
  <2>10. \A j \in c \ {m} : Prefers(entries, m, j)
    BY <2>4, <2>9
  <2>11. PICK b : b = CHOOSE i \in c : \A j \in c \ {i} : Prefers(entries, i, j)
    OBVIOUS
  <2>12. b \in c /\ \A j \in c \ {b} : Prefers(entries, b, j)
    BY <2>10, <2>11
  <2> QED BY <1>1, <1>2, <1>4, <2>11, <2>12
<1> QED
  BY <1>3, <1>4

\* No candidate is preferred to the best.
LEMMA NoneBeforeBest ==
  ASSUME NEW entries \in Indexes, NEW selector, NEW allow, NEW b \in Candidates(entries, selector, allow),
         NEW j \in Candidates(entries, selector, allow), j # b => Prefers(entries, b, j)
  PROVE  ~Below(Rank(entries[b]), Rank(entries[j]))
<1>1. Rank(entries[b]) \in Rows(5) /\ Rank(entries[j]) \in Rows(5) /\ 5 \in Nat
  BY CandidatesAre
<1>2. ~Below(Rank(entries[b]), Rank(entries[b]))
  BY <1>1, BelowStrict
<1>3. CASE Rank(entries[j]) = Rank(entries[b])
  BY <1>2, <1>3
<1>4. CASE Below(Rank(entries[j]), Rank(entries[b]))
  BY <1>1, <1>2, <1>4, BelowTransitive
<1> QED
  BY <1>2, <1>3, <1>4 DEF Prefers

\* What a selector may choose from, the releases proper among it, and the highest of them.
ParsedOf(entries) == {i \in DOMAIN entries : entries[i].version # Unparsed}
LiveOf(entries) == {i \in ParsedOf(entries) : ~entries[i].yanked}
Releases(entries, some) == {i \in some : IsStable(entries[i].version)}
Fit(entries, selector) ==
  {i \in DOMAIN entries :
     /\ entries[i].version # Unparsed
     /\ selector.kind = "exact" => entries[i].version = selector.version
     /\ selector.kind # "exact" => ~entries[i].yanked
     /\ selector.kind = "matching" => Matches(selector.requirement, entries[i].version)}
Pool(entries, selector) ==
  LET fit == Fit(entries, selector) IN IF Releases(entries, fit) = {} THEN fit ELSE Releases(entries, fit)
Tops(entries, pool) ==
  {i \in pool : \A k \in pool : ~Below(entries[i].version, entries[k].version)}

\* What is preferred, in these terms.
LEMMA PreferredIs ==
  ASSUME NEW entries, NEW selector
  PROVE  Preferred(entries, selector) = {entries[i].version : i \in Tops(entries, Pool(entries, selector))}
  BY DEF Preferred, Tops, Pool, Fit, Releases

\* All releases at the top have one version.
LEMMA TopsAgree ==
  ASSUME NEW entries \in Indexes, NEW pool \in SUBSET ParsedOf(entries), NEW b \in Tops(entries, pool)
  PROVE  {entries[i].version : i \in Tops(entries, pool)} = {entries[b].version}
<1>1. ASSUME NEW i \in Tops(entries, pool) PROVE entries[i].version = entries[b].version
  <2>1. i \in DOMAIN entries /\ b \in DOMAIN entries /\ i \in pool /\ b \in pool
    BY DEF Tops, ParsedOf
  <2>2. entries[i] \in Parsed /\ entries[b] \in Parsed
    BY <2>1 DEF Indexes, Parsed, ParsedOf
  <2>3. entries[i].version \in Rows(3) /\ entries[b].version \in Rows(3) /\ 3 \in Nat
    BY <2>2, VersionIs
  <2>4. ~Below(entries[i].version, entries[b].version) /\ ~Below(entries[b].version, entries[i].version)
    BY <2>1 DEF Tops
  <2> QED BY <2>3, <2>4, BelowTotal
<1> QED
  BY <1>1

\* The kinds of selectors.
LEMMA SelectorKinds ==
  ASSUME NEW raw, Parse(raw) # Garbage
  PROVE  Parse(raw).kind \in {"default", "exact", "matching"}
<1>1. CASE raw.text \in {"absent", "latest", "newest", "blank"}
  BY <1>1 DEF Parse, Default
<1>2. CASE raw.text = "version"
  BY <1>2 DEF Parse
<1>3. CASE raw.text = "requirement"
  BY <1>3 DEF Parse
<1> QED
  BY <1>1, <1>2, <1>3 DEF Parse

\* The candidates are what fits.
LEMMA CandidatesFit ==
  ASSUME NEW entries, NEW selector, selector.kind \in {"default", "exact", "matching"}
  PROVE  Candidates(entries, selector, selector.kind = "exact") = Fit(entries, selector)
<1>1. CASE selector.kind = "exact"
  BY <1>1 DEF Candidates, Accepts, Fit
<1>2. CASE selector.kind = "matching"
  BY <1>2 DEF Candidates, Accepts, Fit
<1>3. CASE selector.kind = "default"
  BY <1>3 DEF Candidates, Accepts, Fit
<1> QED
  BY <1>1, <1>2, <1>3

\* Of candidates that are not yanked the best is a release proper if one is, and no other of
\* its kind is above it.
LEMMA BestLeads ==
  ASSUME NEW entries \in Indexes, NEW selector, NEW b \in Candidates(entries, selector, FALSE),
         \A j \in Candidates(entries, selector, FALSE) \ {b} : Prefers(entries, b, j)
  PROVE  /\ Releases(entries, Candidates(entries, selector, FALSE)) # {} => IsStable(entries[b].version)
         /\ \A j \in Candidates(entries, selector, FALSE) :
              (IsStable(entries[j].version) <=> IsStable(entries[b].version)) =>
                ~Below(entries[b].version, entries[j].version)
<1>1. PICK c : c = Candidates(entries, selector, FALSE)
  OBVIOUS
<1>2. \A j \in c : entries[j] \in Parsed
  BY <1>1, CandidatesAre
<1>3. \A j \in c : ~Below(Rank(entries[b]), Rank(entries[j]))
  BY <1>1, NoneBeforeBest
<1>4. \A j \in c : Live(entries[j]) = 1
  BY <1>1 DEF Candidates, Live
<1>5. \A j \in c : Final(entries[j]) = (IF IsStable(entries[j].version) THEN 1 ELSE 0)
  BY DEF Final
<1>6. ASSUME NEW j \in c, IsStable(entries[j].version) PROVE IsStable(entries[b].version)
  <2>1. SUFFICES ASSUME Final(entries[b]) = 0 PROVE FALSE
    BY <1>1, <1>5
  <2>2. Final(entries[j]) = 1
    BY <1>5, <1>6
  <2> QED BY <1>1, <1>2, <1>3, <1>4, <1>6, <2>1, <2>2, ReleaseRanksHigher
<1>7. ASSUME NEW j \in c, IsStable(entries[j].version) <=> IsStable(entries[b].version)
      PROVE  ~Below(entries[b].version, entries[j].version)
  <2>1. Final(entries[j]) = Final(entries[b]) /\ Live(entries[j]) = Live(entries[b])
    BY <1>1, <1>4, <1>5, <1>7
  <2> QED BY <1>1, <1>2, <1>3, <1>7, <2>1, RankFollowsVersion
<1> QED
  BY <1>1, <1>6, <1>7 DEF Releases

\* The best candidate is at the top of those to choose from.
LEMMA BestOnTop ==
  ASSUME NEW entries \in Indexes, NEW selector, selector.kind \in {"default", "exact", "matching"},
         NEW b \in Candidates(entries, selector, selector.kind = "exact"),
         \A j \in Candidates(entries, selector, selector.kind = "exact") \ {b} : Prefers(entries, b, j)
  PROVE  b \in Tops(entries, Pool(entries, selector))
<1>1. PICK c : c = Fit(entries, selector)
  OBVIOUS
<1>2. PICK s : s = Releases(entries, c)
  OBVIOUS
<1>3. c = Candidates(entries, selector, selector.kind = "exact")
  BY <1>1, CandidatesFit
<1>4. Pool(entries, selector) = IF s = {} THEN c ELSE s
  BY <1>1, <1>2 DEF Pool
<1>5. b \in c /\ \A j \in c \ {b} : Prefers(entries, b, j)
  BY <1>3
<1>6. CASE selector.kind = "exact"
  <2>1. \A j \in c : entries[j].version = selector.version
    BY <1>1, <1>6 DEF Fit
  <2>2. b \in Pool(entries, selector) /\ \A k \in Pool(entries, selector) : entries[k].version = entries[b].version
    BY <1>2, <1>4, <1>5, <2>1 DEF Releases
  <2>3. ~Below(entries[b].version, entries[b].version)
    <3>1. entries[b] \in Parsed
      BY CandidatesAre
    <3> QED BY <3>1, VersionIs, BelowStrict
  <2> QED BY <2>2, <2>3 DEF Tops
<1>7. CASE selector.kind # "exact"
  <2>1. c = Candidates(entries, selector, FALSE)
    BY <1>3, <1>7
  <2>2. /\ s # {} => IsStable(entries[b].version)
        /\ \A j \in c : (IsStable(entries[j].version) <=> IsStable(entries[b].version)) =>
             ~Below(entries[b].version, entries[j].version)
    BY <1>2, <1>5, <2>1, BestLeads
  <2>3. CASE s = {}
    <3>1. \A j \in c : ~IsStable(entries[j].version)
      BY <1>2, <2>3 DEF Releases
    <3> QED BY <1>4, <1>5, <2>2, <2>3, <3>1 DEF Tops
  <2>4. CASE s # {}
    <3>1. b \in s /\ \A j \in s : j \in c /\ IsStable(entries[j].version)
      BY <1>2, <1>5, <2>2, <2>4 DEF Releases
    <3> QED BY <1>4, <2>2, <2>4, <3>1 DEF Tops
  <2> QED BY <2>3, <2>4
<1> QED
  BY <1>6, <1>7

\* Resolving picks the version preferred, and none only if there is none to prefer
\* (version.rs best, server.rs resolve).
LEMMA ResolvesPreferred ==
  ASSUME NEW entries \in Indexes, NEW selector, selector.kind \in {"default", "exact", "matching"}
  PROVE  \/ Resolve(entries, selector) = Nowhere /\ Preferred(entries, selector) = {}
         \/ /\ Resolve(entries, selector) # Nowhere
            /\ Resolve(entries, selector) \in DOMAIN entries
            /\ entries[Resolve(entries, selector)].version \in Versions
            /\ Preferred(entries, selector) = {entries[Resolve(entries, selector)].version}
<1>1. PICK allow : allow = (selector.kind = "exact")
  OBVIOUS
<1>2. PICK b : b = Best(entries, selector, allow)
  OBVIOUS
<1>3. Resolve(entries, selector) = b
  BY <1>1, <1>2 DEF Resolve
<1>4. CASE Candidates(entries, selector, allow) = {} /\ b = Nowhere
  <2>1. Fit(entries, selector) = {}
    BY <1>1, <1>4, CandidatesFit
  <2>2. Pool(entries, selector) = {}
    BY <2>1 DEF Pool, Releases
  <2> QED BY <1>3, <1>4, <2>2, PreferredIs DEF Tops
<1>5. CASE b \in Candidates(entries, selector, allow)
           /\ \A j \in Candidates(entries, selector, allow) \ {b} : Prefers(entries, b, j)
  <2>1. b \in Tops(entries, Pool(entries, selector))
    BY <1>1, <1>5, BestOnTop
  <2>2. Pool(entries, selector) \in SUBSET ParsedOf(entries)
    BY DEF Pool, Releases, Fit, ParsedOf
  <2>3. Preferred(entries, selector) = {entries[b].version}
    BY <2>1, <2>2, PreferredIs, TopsAgree
  <2>4. b \in DOMAIN entries
    BY <1>5 DEF Candidates
  <2>5. b # Nowhere /\ entries[b].version \in Versions
    <3>1. b \in 1 .. Len(entries) /\ entries[b] \in Entries
      BY <2>4 DEF Indexes
    <3> QED BY <3>1 DEF Entries, Nowhere
  <2> QED BY <1>3, <2>3, <2>4, <2>5
<1> QED
  BY <1>2, <1>4, <1>5, BestIs

-----------------------------------------------------------------------------
(* Releases in order *)

\* The order of an index is one: what is not semver, then by version, and of equals the
\* first published first (index.rs by_version).
LEMMA VersionOrderIs ==
  ASSUME NEW entries \in Indexes, NEW i \in DOMAIN entries, NEW j \in DOMAIN entries
  PROVE  <<i, j>> \in VersionOrder(entries) <=>
           \/ i \notin ParsedOf(entries) /\ j \in ParsedOf(entries)
           \/ /\ i \in ParsedOf(entries) /\ j \in ParsedOf(entries)
              /\ Below(entries[i].version, entries[j].version)
           \/ entries[i].version = entries[j].version /\ i < j
  BY DEF VersionOrder, ParsedOf

\* The order of an index is total: any two releases of it stand one before the other.
LEMMA VersionOrderSorts ==
  ASSUME NEW entries \in Indexes
  PROVE  IsFiniteSet(DOMAIN entries) /\ Sorts(VersionOrder(entries), DOMAIN entries)
<1>1. PICK D \in SUBSET Nat : D = DOMAIN entries /\ IsFiniteSet(D)
  <2>1. PICK n \in Nat : DOMAIN entries = 1 .. n
    BY DEF Indexes
  <2>2. 1 \in Int /\ n \in Int
    OBVIOUS
  <2>3. IsFiniteSet(1 .. n)
    BY <2>2, FS_Interval
  <2> QED BY <2>1, <2>3
<1>2. PICK P \in SUBSET D : P = ParsedOf(entries)
  BY <1>1 DEF ParsedOf
<1>3. PICK R : R = VersionOrder(entries)
  OBVIOUS
<1>4. PICK v : v = [i \in D |-> entries[i].version]
  OBVIOUS
<1>5. \A i, j \in D : <<i, j>> \in R <=>
        \/ i \notin P /\ j \in P
        \/ i \in P /\ j \in P /\ Below(v[i], v[j])
        \/ v[i] = v[j] /\ i < j
  <2>1. ASSUME NEW i \in D, NEW j \in D
        PROVE  <<i, j>> \in R <=>
                 \/ i \notin P /\ j \in P
                 \/ i \in P /\ j \in P /\ Below(v[i], v[j])
                 \/ v[i] = v[j] /\ i < j
    <3>1. i \in DOMAIN entries /\ j \in DOMAIN entries /\ v[i] = entries[i].version /\ v[j] = entries[j].version
      BY <1>1, <1>4
    <3> QED BY <1>2, <1>3, <3>1, VersionOrderIs
  <2> QED BY <2>1
<1>6. \A i \in D : i \in P <=> v[i] # Unparsed
  BY <1>1, <1>2, <1>4 DEF ParsedOf
<1>7. \A i \in P : v[i] \in Rows(3) /\ 3 \in Nat
  <2>1. ASSUME NEW i \in P PROVE v[i] \in Rows(3)
    <3>1. entries[i] \in Parsed
      BY <1>1, <1>2 DEF Indexes, Parsed, ParsedOf
    <3> QED BY <1>4, <3>1, VersionIs
  <2> QED BY <2>1
<1>8. \A i \in P : ~Below(v[i], v[i])
  BY <1>7, BelowStrict
<1>9. ASSUME NEW i \in D PROVE <<i, i>> \notin R
  BY <1>5, <1>8
<1>10. ASSUME NEW i \in D, NEW j \in D, i # j PROVE <<i, j>> \in R \/ <<j, i>> \in R
  <2>1. CASE v[i] = v[j]
    <3>1. i < j \/ j < i
      BY <1>10
    <3> QED BY <1>5, <2>1, <3>1
  <2>2. CASE v[i] # v[j] /\ i \in P /\ j \in P
    BY <1>5, <1>7, <2>2, BelowTotal
  <2>3. CASE v[i] # v[j] /\ ~(i \in P /\ j \in P)
    BY <1>5, <1>6, <2>3
  <2> QED BY <2>1, <2>2, <2>3
<1>11. ASSUME NEW i \in D, NEW j \in D, NEW k \in D, <<i, j>> \in R, <<j, k>> \in R
       PROVE  <<i, k>> \in R
  <2>1. CASE i \notin P
    <3>1. CASE k \in P
      BY <1>5, <2>1, <3>1
    <3>2. CASE k \notin P
      <4>1. v[j] = v[k] /\ j < k
        BY <1>5, <1>11, <3>2
      <4>2. j \notin P
        BY <1>6, <3>2, <4>1
      <4>3. v[i] = v[j] /\ i < j
        BY <1>5, <1>11, <4>2
      <4>4. i < k
        BY <4>1, <4>3
      <4> QED BY <1>5, <4>1, <4>3, <4>4
    <3> QED BY <3>1, <3>2
  <2>2. CASE i \in P
    <3>1. j \in P /\ (Below(v[i], v[j]) \/ (v[i] = v[j] /\ i < j))
      BY <1>5, <1>6, <1>11, <2>2
    <3>2. k \in P /\ (Below(v[j], v[k]) \/ (v[j] = v[k] /\ j < k))
      BY <1>5, <1>6, <1>11, <3>1
    <3>3. CASE Below(v[i], v[j]) /\ Below(v[j], v[k])
      <4>1. Below(v[i], v[k])
        BY <1>7, <2>2, <3>1, <3>2, <3>3, BelowTransitive
      <4> QED BY <1>5, <2>2, <3>2, <4>1
    <3>4. CASE Below(v[i], v[j]) /\ v[j] = v[k]
      BY <1>5, <2>2, <3>2, <3>4
    <3>5. CASE v[i] = v[j] /\ Below(v[j], v[k])
      BY <1>5, <2>2, <3>2, <3>5
    <3>6. CASE v[i] = v[j] /\ i < j /\ v[j] = v[k] /\ j < k
      <4>1. i < k
        BY <3>6
      <4> QED BY <1>5, <3>6, <4>1
    <3> QED BY <3>1, <3>2, <3>3, <3>4, <3>5, <3>6
  <2> QED BY <2>1, <2>2
<1> QED
  BY <1>1, <1>3, <1>9, <1>10, <1>11 DEF Sorts, PutsInOrder

\* The other way round.
Downward(entries) ==
  {d \in (DOMAIN entries) \X (DOMAIN entries) : <<d[2], d[1]>> \in VersionOrder(entries)}

\* So is its reverse.
LEMMA DownwardSorts ==
  ASSUME NEW entries \in Indexes, NEW S \in SUBSET DOMAIN entries
  PROVE  Sorts(Downward(entries), S)
<1>1. PICK R : R = VersionOrder(entries)
  OBVIOUS
<1>2. PICK W : W = Downward(entries)
  OBVIOUS
<1>3. \A i, j \in DOMAIN entries : <<i, j>> \in W <=> <<j, i>> \in R
  BY <1>1, <1>2 DEF Downward
<1>4. Sorts(R, DOMAIN entries)
  BY <1>1, VersionOrderSorts
<1> QED
  BY <1>2, <1>3, <1>4 DEF Sorts, PutsInOrder

\* descending goes down.
LEMMA DescendingFalls ==
  ASSUME NEW entries \in Indexes
  PROVE  Rises(Descending(entries), DOMAIN entries, Downward(entries))
<1>1. PICK D : D = DOMAIN entries
  OBVIOUS
<1>2. PICK t : t = ByVersion(entries)
  OBVIOUS
<1>3. Rises(t, D, VersionOrder(entries))
  BY <1>1, <1>2, VersionOrderSorts, InOrderRises DEF ByVersion
<1>4. PICK m \in Nat : m = Len(t) /\ DOMAIN t = 1 .. m /\ \A a \in 1 .. m : t[a] \in D
  BY <1>3 DEF Rises
<1>5. PICK u : u = [a \in 1 .. m |-> t[(m - a) + 1]]
  OBVIOUS
<1>6. u = Descending(entries)
  BY <1>2, <1>4, <1>5 DEF Descending, Reverse
<1>7. \A a \in 1 .. m : (m - a) + 1 \in 1 .. m /\ u[a] = t[(m - a) + 1]
  BY <1>5
<1>8. u \in Seq(D) /\ DOMAIN u = 1 .. m
  BY <1>4, <1>5, <1>7
<1>9. ASSUME NEW x \in D PROVE \E a \in 1 .. m : u[a] = x
  <2>1. PICK k \in 1 .. m : t[k] = x
    BY <1>3, <1>4 DEF Rises, Range
  <2>2. (m - k) + 1 \in 1 .. m /\ (m - ((m - k) + 1)) + 1 = k
    OBVIOUS
  <2> QED BY <1>7, <2>1, <2>2
<1>10. Range(u) = D
  <2>1. \A a \in 1 .. m : u[a] \in D
    BY <1>4, <1>7
  <2> QED BY <1>8, <1>9, <2>1 DEF Range
<1>11. ASSUME NEW a \in 1 .. m, NEW b \in 1 .. m, a < b PROVE <<u[a], u[b]>> \in Downward(entries)
  <2>1. PICK x \in 1 .. m, y \in 1 .. m : x = (m - a) + 1 /\ y = (m - b) + 1
    BY <1>7
  <2>2. y < x
    BY <1>11, <2>1
  <2>3. <<t[y], t[x]>> \in VersionOrder(entries)
    BY <1>3, <1>4, <2>2 DEF Rises
  <2> QED BY <1>1, <1>4, <1>7, <2>1, <2>3 DEF Downward
<1> QED
  BY <1>1, <1>6, <1>8, <1>10, <1>11 DEF Rises

\* What a list starts with.
Leading(list) == IF list = <<>> THEN Nowhere ELSE list[1]
Down(entries, some) == Kept(Descending(entries), some)

\* What descending has of some releases goes down.
LEMMA DownFalls ==
  ASSUME NEW entries \in Indexes, NEW F \in SUBSET DOMAIN entries
  PROVE  /\ Rises(Down(entries, F), F, Downward(entries))
         /\ F = {} => Leading(Down(entries, F)) = Nowhere
         /\ F # {} => Down(entries, F) # <<>> /\ Leading(Down(entries, F)) \in F
         /\ \A b \in F : (\A j \in F \ {b} : <<j, b>> \in VersionOrder(entries)) =>
              Leading(Down(entries, F)) = b
<1>1. PICK t : t = Down(entries, F)
  OBVIOUS
<1>2. Rises(t, F, Downward(entries))
  BY <1>1, DescendingFalls, KeptRises DEF Down
<1>3. /\ F = {} => t = <<>>
      /\ F # {} => Len(t) \in Nat \ {0} /\ t[1] \in F
      /\ \A b \in F : (\A j \in F \ {b} : <<b, j>> \in Downward(entries)) => t[1] = b
  BY <1>2, DownwardSorts, FirstInOrder
<1>4. F # {} => t # <<>>
  BY <1>3
<1>5. ASSUME NEW b \in F, \A j \in F \ {b} : <<j, b>> \in VersionOrder(entries) PROVE t[1] = b
  <2>1. \A j \in F \ {b} : <<b, j>> \in Downward(entries)
    BY <1>5 DEF Downward
  <2> QED BY <1>3, <2>1
<1> QED
  BY <1>1, <1>2, <1>3, <1>4, <1>5 DEF Leading

\* A release that no other of some is above comes last of them by order.
LEMMA HighestIsLast ==
  ASSUME NEW entries \in Indexes, NEW F \in SUBSET ParsedOf(entries), NEW b \in F,
         \A j \in F : ~Below(entries[b].version, entries[j].version)
  PROVE  \A j \in F \ {b} : <<j, b>> \in VersionOrder(entries)
<1>1. F \in SUBSET DOMAIN entries /\ b \in DOMAIN entries /\ b \in ParsedOf(entries)
  BY DEF ParsedOf
<1>2. PICK R : R = VersionOrder(entries) /\ Sorts(R, DOMAIN entries)
  BY VersionOrderSorts
<1>3. ASSUME NEW j \in F \ {b} PROVE <<j, b>> \in R
  <2>1. <<j, b>> \in R \/ <<b, j>> \in R
    BY <1>1, <1>2 DEF Sorts, PutsInOrder
  <2>2. SUFFICES ASSUME <<b, j>> \in R PROVE FALSE
    BY <2>1
  <2>3. entries[b].version = entries[j].version /\ b # j /\ j \in DOMAIN entries
    BY <1>1, <1>2, <2>2, VersionOrderIs
  <2>4. entries[b].version = Unparsed
    BY <1>1, <2>3 DEF Indexes, PublishedOnce
  <2> QED BY <1>1, <2>4 DEF ParsedOf
<1> QED
  BY <1>2, <1>3

\* b is what some of the releases, not yanked, are best represented by: a release proper if
\* there is one, and then the last of those by order, otherwise the last of all.
Represents(entries, F, b) ==
  /\ F = {} => b = Nowhere
  /\ F # {} => b \in F
  /\ Releases(entries, F) # {} =>
       /\ b \in Releases(entries, F)
       /\ \A j \in Releases(entries, F) \ {b} : <<j, b>> \in VersionOrder(entries)
  /\ F # {} /\ Releases(entries, F) = {} => \A j \in F \ {b} : <<j, b>> \in VersionOrder(entries)

\* The best of the candidates represents them (version.rs best).
LEMMA BestRepresents ==
  ASSUME NEW entries \in Indexes, NEW selector
  PROVE  Represents(entries, Candidates(entries, selector, FALSE), Best(entries, selector, FALSE))
<1>1. PICK F : F = Candidates(entries, selector, FALSE)
  OBVIOUS
<1>2. PICK b : b = Best(entries, selector, FALSE)
  OBVIOUS
<1>3. PICK s : s = Releases(entries, F) /\ s \in SUBSET F
  BY DEF Releases
<1>4. F \in SUBSET ParsedOf(entries) /\ s \in SUBSET ParsedOf(entries)
  BY <1>1, <1>3 DEF Candidates, ParsedOf
<1>5. CASE F = {} /\ b = Nowhere
  BY <1>1, <1>2, <1>5 DEF Represents, Releases
<1>6. CASE b \in F /\ \A j \in F \ {b} : Prefers(entries, b, j)
  <2>1. /\ s # {} => IsStable(entries[b].version)
        /\ \A j \in F : (IsStable(entries[j].version) <=> IsStable(entries[b].version)) =>
             ~Below(entries[b].version, entries[j].version)
    BY <1>1, <1>3, <1>6, BestLeads
  <2>2. ASSUME s # {} PROVE b \in s /\ \A j \in s \ {b} : <<j, b>> \in VersionOrder(entries)
    <3>1. b \in s
      BY <1>3, <1>6, <2>1, <2>2 DEF Releases
    <3>2. \A j \in s : ~Below(entries[b].version, entries[j].version)
      BY <1>3, <2>1, <2>2 DEF Releases
    <3> QED BY <1>4, <3>1, <3>2, HighestIsLast
  <2>3. ASSUME s = {} PROVE \A j \in F \ {b} : <<j, b>> \in VersionOrder(entries)
    <3>1. \A j \in F : ~IsStable(entries[j].version)
      BY <1>3, <2>3 DEF Releases
    <3>2. \A j \in F : ~Below(entries[b].version, entries[j].version)
      BY <1>6, <2>1, <3>1
    <3> QED BY <1>4, <1>6, <3>2, HighestIsLast
  <2> QED BY <1>1, <1>2, <1>3, <1>6, <2>2, <2>3 DEF Represents
<1> QED
  BY <1>1, <1>2, <1>5, <1>6, BestIs

\* Two selectors that accept the same choose the same.
LEMMA DefaultsAgree ==
  ASSUME NEW entries, NEW selector, selector.kind = "default"
  PROVE  /\ Best(entries, selector, FALSE) = Latest(entries)
         /\ Candidates(entries, selector, FALSE) = LiveOf(entries)
<1>1. PICK other : other = [kind |-> "default"]
  OBVIOUS
<1>2. other.kind = "default"
  BY <1>1
<1>3. PICK c : c = LiveOf(entries)
  OBVIOUS
<1>4. c = Candidates(entries, selector, FALSE)
  BY <1>3 DEF Candidates, Accepts, LiveOf, ParsedOf
<1>5. c = Candidates(entries, other, FALSE)
  BY <1>2, <1>3 DEF Candidates, Accepts, LiveOf, ParsedOf
<1>6. Best(entries, selector, FALSE) =
        IF c = {} THEN Nowhere ELSE CHOOSE i \in c : \A j \in c \ {i} : Prefers(entries, i, j)
  BY <1>4 DEF Best, Candidates, Prefers
<1>7. Best(entries, other, FALSE) =
        IF c = {} THEN Nowhere ELSE CHOOSE i \in c : \A j \in c \ {i} : Prefers(entries, i, j)
  BY <1>5 DEF Best, Candidates, Prefers
<1>8. Latest(entries) = Best(entries, other, FALSE)
  BY <1>1 DEF Latest
<1> QED
  BY <1>3, <1>4, <1>6, <1>7, <1>8

\* The newest release leads those that are not yanked (server.rs newest_live_version), and
\* of those that are semver too, if there are any.
LEMMA NewestLeads ==
  ASSUME NEW entries \in Indexes
  PROVE  LiveOf(entries) # {} => Leading(Down(entries, LiveOf(entries))) = NewestLive(entries)
<1>1. PICK F : F = LiveOf(entries)
  OBVIOUS
<1>2. PICK G : G = {i \in DOMAIN entries : ~entries[i].yanked}
  OBVIOUS
<1>3. F \in SUBSET G /\ G \in SUBSET DOMAIN entries /\ F = {i \in G : i \in ParsedOf(entries)}
  BY <1>1, <1>2 DEF LiveOf, ParsedOf
<1>4. NewestLive(entries) = Leading(Down(entries, G))
  BY <1>2 DEF NewestLive, Leading, Down
<1>5. SUFFICES ASSUME F # {} PROVE Leading(Down(entries, F)) = NewestLive(entries)
  BY <1>1
<1>6. PICK R : R = VersionOrder(entries) /\ Sorts(R, DOMAIN entries)
  BY VersionOrderSorts
<1>7. PICK t : t = Down(entries, G) /\ Rises(t, G, Downward(entries)) /\ t # <<>> /\ Leading(t) = t[1] /\ t[1] \in G
  BY <1>3, <1>5, DownFalls DEF Leading
<1>8. ASSUME NEW j \in G \ {t[1]} PROVE <<j, t[1]>> \in R
  <2>1. PICK m \in Nat : DOMAIN t = 1 .. m /\ m = Len(t)
    BY <1>7 DEF Rises
  <2>2. PICK n \in 1 .. m : t[n] = j
    BY <1>7, <2>1 DEF Rises, Range
  <2>3. 1 \in 1 .. m /\ 1 < n
    BY <2>1, <2>2
  <2>4. <<t[1], j>> \in Downward(entries)
    BY <1>7, <2>1, <2>2, <2>3 DEF Rises
  <2> QED BY <1>6, <2>4 DEF Downward
<1>9. t[1] \in F
  <2>1. SUFFICES ASSUME t[1] \notin ParsedOf(entries) PROVE FALSE
    BY <1>3, <1>7
  <2>2. PICK i \in F : TRUE
    BY <1>5
  <2>3. i \in ParsedOf(entries) /\ i # t[1] /\ i \in DOMAIN entries /\ t[1] \in DOMAIN entries
    BY <1>3, <1>7, <2>1
  <2>4. <<i, t[1]>> \in R
    BY <1>3, <1>8, <2>3
  <2>5. <<t[1], i>> \in R
    BY <1>6, <2>1, <2>3, VersionOrderIs
  <2> QED BY <1>6, <2>3, <2>4, <2>5 DEF Sorts, PutsInOrder
<1>10. \A j \in F \ {t[1]} : <<j, t[1]>> \in VersionOrder(entries)
  BY <1>3, <1>6, <1>8
<1>11. F \in SUBSET DOMAIN entries
  BY <1>3
<1> QED
  BY <1>4, <1>7, <1>9, <1>10, <1>11, DownFalls

\* The releases that pass the filters of get_crate_versions.
Passing(entries, request) ==
  {i \in DOMAIN entries :
     /\ entries[i].version # Unparsed
     /\ request.yanked \/ ~entries[i].yanked
     /\ request.prerelease \/ IsStable(entries[i].version)
     /\ Accepts(SelectorOf(request), entries[i].version)}

\* With the yanked left out, all candidates pass, or those that are releases proper.
LEMMA PassingAre ==
  ASSUME NEW entries, NEW request, ~request.yanked
  PROVE  /\ request.prerelease =>
              Passing(entries, request) = Candidates(entries, SelectorOf(request), FALSE)
         /\ ~request.prerelease =>
              Passing(entries, request) = Releases(entries, Candidates(entries, SelectorOf(request), FALSE))
<1>1. ASSUME request.prerelease
      PROVE  Passing(entries, request) = Candidates(entries, SelectorOf(request), FALSE)
  BY <1>1 DEF Passing, Candidates
<1>2. ASSUME ~request.prerelease
      PROVE  Passing(entries, request) = Releases(entries, Candidates(entries, SelectorOf(request), FALSE))
  BY <1>2 DEF Passing, Candidates, Releases
<1> QED
  BY <1>1, <1>2

\* A list is some releases from the last by order on: it starts with that one, goes down, and
\* leaves out none before one it has; unless it was cut, it has them all.
ListsDown(entries, P, list, cut) ==
  /\ Leading(list) = Leading(Down(entries, P))
  /\ \A i, j \in DOMAIN list : i < j => Below(entries[list[j]].version, entries[list[i]].version)
  /\ \A n \in DOMAIN list : n \in Nat /\ list[n] \in P
  /\ \A n \in DOMAIN list : \A i \in P :
       <<list[n], i>> \in VersionOrder(entries) => \E m \in DOMAIN list : m < n /\ list[m] = i
  /\ ~cut => \A i \in P : \E m \in DOMAIN list : list[m] = i

\* What get_crate_versions lists is the passing releases from the newest on.
LEMMA VersionListIs ==
  ASSUME NEW entries \in Indexes, NEW request, request.limit \in Nat \ {0}
  PROVE  /\ VersionList(entries, request).latest = Latest(entries)
         /\ VersionList(entries, request).newest = NewestLive(entries)
         /\ ListsDown(entries, Passing(entries, request), VersionList(entries, request).list,
                      VersionList(entries, request).truncated)
<1>1. PICK F : F = Passing(entries, request)
  OBVIOUS
<1>2. F \in SUBSET DOMAIN entries /\ F \in SUBSET ParsedOf(entries)
  BY <1>1 DEF Passing, ParsedOf
<1>3. PICK t : t = Down(entries, F) /\ t = Listed(entries, request)
  BY <1>1 DEF Down, Listed, Passing
<1>4. Rises(t, F, Downward(entries))
  <2>1. Rises(Down(entries, F), F, Downward(entries))
    BY <1>2, DownFalls
  <2> QED BY <1>3, <2>1
<1>5. PICK m \in Nat : m = Len(t) /\ t \in Seq(F) /\ DOMAIN t = 1 .. m /\ \A a \in 1 .. m : t[a] \in F
  BY <1>4 DEF Rises
<1>6. PICK limit \in Nat \ {0} : limit = request.limit
  OBVIOUS
<1>7. PICK k \in 0 .. m : k = IF Len(t) > request.limit THEN request.limit ELSE Len(t)
  BY <1>5, <1>6
<1>8. m > 0 => k > 0
  BY <1>5, <1>6, <1>7
<1>9. PICK u : u = SubSeq(t, 1, k)
  OBVIOUS
<1>10. DOMAIN u = 1 .. k /\ Len(u) = k /\ \A a \in 1 .. k : u[a] = t[a] /\ a \in 1 .. m
  BY <1>5, <1>7, <1>9
<1>11. PICK cut : cut = (Len(t) > request.limit)
  OBVIOUS
<1>12. /\ VersionList(entries, request).list = u
       /\ VersionList(entries, request).truncated = cut
       /\ VersionList(entries, request).latest = Latest(entries)
       /\ VersionList(entries, request).newest = NewestLive(entries)
  BY <1>3, <1>7, <1>9, <1>11 DEF VersionList, Info, NoAnswer
<1>13. Leading(u) = Leading(t)
  <2>1. CASE m = 0
    <3>1. t = <<>> /\ u = <<>>
      BY <1>5, <1>7, <1>9, <2>1
    <3> QED BY <3>1
  <2>2. CASE m # 0
    <3>1. t # <<>> /\ u # <<>> /\ 1 \in 1 .. k
      BY <1>5, <1>8, <1>10, <2>2
    <3> QED BY <1>10, <3>1 DEF Leading
  <2> QED BY <2>1, <2>2
<1>14. ASSUME NEW i \in 1 .. k, NEW j \in 1 .. k, i < j
       PROVE  Below(entries[u[j]].version, entries[u[i]].version)
  <2>1. PICK x \in F, y \in F : x = u[i] /\ y = u[j]
    BY <1>5, <1>10
  <2>2. <<x, y>> \in Downward(entries)
    BY <1>4, <1>5, <1>10, <1>14, <2>1 DEF Rises
  <2>3. <<y, x>> \in VersionOrder(entries) /\ x \in DOMAIN entries /\ y \in DOMAIN entries
    BY <1>2, <2>2 DEF Downward
  <2>4. x \in ParsedOf(entries) /\ y \in ParsedOf(entries)
    BY <1>2
  <2>5. Below(entries[y].version, entries[x].version) \/ (entries[y].version = entries[x].version /\ y < x)
    BY <2>3, <2>4, VersionOrderIs
  <2>6. ~(entries[y].version = entries[x].version /\ y < x)
    <3>1. SUFFICES ASSUME entries[y].version = entries[x].version, y < x PROVE FALSE
      OBVIOUS
    <3>2. y # x
      <4>1. y \in Nat /\ x \in Nat
        BY <2>3 DEF Indexes
      <4> QED BY <3>1, <4>1
    <3>3. entries[y].version = Unparsed
      BY <2>3, <3>1, <3>2 DEF Indexes, PublishedOnce
    <3> QED BY <2>4, <3>3 DEF ParsedOf
  <2> QED BY <2>1, <2>5, <2>6
<1>15. ASSUME NEW n \in 1 .. k PROVE n \in Nat /\ u[n] \in F
  BY <1>5, <1>10
<1>16. ASSUME NEW n \in 1 .. k, NEW i \in F, <<u[n], i>> \in VersionOrder(entries)
       PROVE  \E a \in 1 .. k : a < n /\ u[a] = i
  <2>1. PICK a \in 1 .. m : t[a] = i
    BY <1>4, <1>5 DEF Rises, Range
  <2>2. Sorts(VersionOrder(entries), DOMAIN entries)
    BY VersionOrderSorts
  <2>3. u[n] = t[n] /\ n \in 1 .. m /\ t[n] \in F /\ i \in DOMAIN entries /\ t[n] \in DOMAIN entries
    BY <1>2, <1>5, <1>10
  <2>4. ~(n = a)
    BY <1>16, <2>1, <2>2, <2>3 DEF Sorts
  <2>5. ~(n < a)
    <3>1. SUFFICES ASSUME n < a PROVE FALSE
      OBVIOUS
    <3>2. <<t[n], t[a]>> \in Downward(entries)
      BY <1>4, <1>5, <2>3, <3>1 DEF Rises
    <3>3. <<i, t[n]>> \in VersionOrder(entries)
      BY <2>1, <3>2 DEF Downward
    <3> QED BY <1>16, <2>2, <2>3, <3>3 DEF Sorts, PutsInOrder
  <2>6. a < n /\ a \in 1 .. k
    BY <2>3, <2>4, <2>5
  <2> QED BY <1>10, <2>1, <2>6
<1>17. ASSUME ~cut, NEW i \in F PROVE \E a \in 1 .. k : u[a] = i
  <2>1. k = m
    BY <1>5, <1>7, <1>11, <1>17
  <2>2. PICK a \in 1 .. m : t[a] = i
    BY <1>4, <1>5 DEF Rises, Range
  <2> QED BY <1>10, <2>1, <2>2
<1>18. ListsDown(entries, F, u, cut)
  BY <1>3, <1>10, <1>13, <1>14, <1>15, <1>16, <1>17 DEF ListsDown
<1> QED
  BY <1>1, <1>12, <1>18

\* The first release proper in such a list of what b represents is b; if it has none it was
\* cut, or b is none and what it starts with.
Leads(entries, list, cut, b, all) ==
  LET releases == {n \in DOMAIN list : IsStable(entries[list[n]].version)}
      release == b # Nowhere /\ IsStable(entries[b].version)
  IN /\ \A n \in releases : (\A m \in releases : n <= m) => list[n] = b
     /\ releases = {} /\ release => cut
     /\ releases = {} /\ ~release /\ all => Leading(list) = b

\* A list of what b represents, all of it or the releases proper, is so.
LEMMA ListLeads ==
  ASSUME NEW entries \in Indexes, NEW F \in SUBSET ParsedOf(entries), NEW b, Represents(entries, F, b),
         NEW all, NEW P, all => P = F, ~all => P = Releases(entries, F),
         NEW list, NEW cut, ListsDown(entries, P, list, cut)
  PROVE  Leads(entries, list, cut, b, all)
<1>1. PICK s : s = Releases(entries, F) /\ s \in SUBSET F /\ s \in SUBSET P
  BY DEF Releases
<1>2. P \in SUBSET F
  BY <1>1
<1>3. PICK releases : releases = {n \in DOMAIN list : IsStable(entries[list[n]].version)}
  OBVIOUS
<1>4. \A n \in releases : n \in DOMAIN list /\ n \in Nat /\ list[n] \in s /\ list[n] \in P
  BY <1>1, <1>2, <1>3 DEF ListsDown, Releases
<1>5. s # {} => b \in s /\ b \in P /\ \A j \in s \ {b} : <<j, b>> \in VersionOrder(entries)
  BY <1>1 DEF Represents
<1>6. \A n \in DOMAIN list : list[n] = b /\ b \in s => n \in releases
  BY <1>1, <1>3 DEF Releases
<1>7. ASSUME NEW n \in releases, \A m \in releases : n <= m PROVE list[n] = b
  <2>1. SUFFICES ASSUME list[n] # b PROVE FALSE
    OBVIOUS
  <2>2. <<list[n], b>> \in VersionOrder(entries) /\ b \in P /\ b \in s
    BY <1>4, <1>5, <2>1
  <2>3. PICK m \in DOMAIN list : m < n /\ list[m] = b
    BY <1>4, <2>2 DEF ListsDown
  <2>4. m \in releases /\ m \in Nat /\ n \in Nat
    BY <1>4, <1>6, <2>2, <2>3
  <2> QED BY <1>7, <2>3, <2>4
<1>8. ASSUME releases = {}, b # Nowhere, IsStable(entries[b].version) PROVE cut
  <2>1. b \in F
    BY <1>8 DEF Represents
  <2>2. b \in s /\ b \in P
    BY <1>1, <1>8, <2>1 DEF Releases
  <2>3. SUFFICES ASSUME ~cut PROVE FALSE
    OBVIOUS
  <2>4. PICK m \in DOMAIN list : list[m] = b
    BY <2>2, <2>3 DEF ListsDown
  <2> QED BY <1>6, <1>8, <2>2, <2>4
<1>9. ASSUME ~(b # Nowhere /\ IsStable(entries[b].version)), all PROVE Leading(list) = b
  <2>1. P = F /\ Leading(list) = Leading(Down(entries, F))
    BY <1>9 DEF ListsDown
  <2>2. F \in SUBSET DOMAIN entries
    BY DEF ParsedOf
  <2>3. s = {}
    <3>1. SUFFICES ASSUME s # {} PROVE FALSE
      OBVIOUS
    <3>2. b \in DOMAIN entries /\ IsStable(entries[b].version)
      BY <1>1, <1>5, <2>2, <3>1 DEF Releases
    <3>3. b # Nowhere
      BY <3>2 DEF Indexes, Nowhere
    <3> QED BY <1>9, <3>2, <3>3
  <2>4. CASE F = {}
    BY <2>1, <2>2, <2>4, DownFalls DEF Represents
  <2>5. CASE F # {}
    <3>1. b \in F /\ \A j \in F \ {b} : <<j, b>> \in VersionOrder(entries)
      BY <1>1, <2>3, <2>5 DEF Represents
    <3> QED BY <2>1, <2>2, <3>1, DownFalls
  <2> QED BY <2>4, <2>5
<1> QED
  BY <1>3, <1>7, <1>8, <1>9 DEF Leads

\* A list of releases coheres with what the other tools choose of the same index.
Coheres(entries, request, given) ==
  LET first == Leading(given.list)
      pick == IF SelectorOf(request).kind = "default" THEN given.latest
              ELSE Resolve(entries, SelectorOf(request))
  IN /\ \A i, j \in DOMAIN given.list :
          i < j => Below(entries[given.list[j]].version, entries[given.list[i]].version)
     /\ ~request.yanked => Leads(entries, given.list, given.truncated, pick, request.prerelease)
     /\ ~request.yanked /\ request.prerelease /\ SelectorOf(request).kind = "default" =>
          first = given.newest \/ (first = Nowhere /\ given.latest = Nowhere)

\* What get_crate_versions answers from an index agrees with itself, with resolve, and with the newest.
LEMMA ListsCohere ==
  ASSUME NEW entries \in Indexes, NEW request, request.limit \in Nat \ {0},
         SelectorOf(request).kind # "exact"
  PROVE  Coheres(entries, request, VersionList(entries, request))
<1>1. PICK given : given = VersionList(entries, request)
  OBVIOUS
<1>2. PICK P : P = Passing(entries, request)
  OBVIOUS
<1>3. PICK selector : selector = SelectorOf(request) /\ (selector.kind = "exact") = FALSE
  OBVIOUS
<1>4. PICK F : F = Candidates(entries, selector, FALSE)
  OBVIOUS
<1>5. /\ given.latest = Latest(entries) /\ given.newest = NewestLive(entries)
      /\ ListsDown(entries, P, given.list, given.truncated)
  BY <1>1, <1>2, VersionListIs
<1>6. PICK pick : pick = IF selector.kind = "default" THEN given.latest ELSE Resolve(entries, selector)
  OBVIOUS
<1>7. pick = Best(entries, selector, FALSE)
  <2>1. Resolve(entries, selector) = Best(entries, selector, FALSE)
    BY <1>3 DEF Resolve
  <2>2. selector.kind = "default" => Best(entries, selector, FALSE) = Latest(entries)
    BY DefaultsAgree
  <2> QED BY <1>5, <1>6, <2>1, <2>2
<1>8. F \in SUBSET ParsedOf(entries)
  BY <1>4 DEF Candidates, ParsedOf
<1>9. Represents(entries, F, pick)
  BY <1>4, <1>7, BestRepresents
<1>10. ASSUME ~request.yanked PROVE Leads(entries, given.list, given.truncated, pick, request.prerelease)
  <2>1. (request.prerelease => P = F) /\ (~request.prerelease => P = Releases(entries, F))
    BY <1>2, <1>3, <1>4, <1>10, PassingAre
  <2> QED BY <1>5, <1>8, <1>9, <2>1, ListLeads
<1>11. ASSUME ~request.yanked, request.prerelease, selector.kind = "default"
      PROVE  Leading(given.list) = given.newest \/ (Leading(given.list) = Nowhere /\ given.latest = Nowhere)
  <2>1. F = LiveOf(entries) /\ pick = given.latest
    BY <1>4, <1>6, <1>11, DefaultsAgree
  <2>2. Leading(given.list) = Leading(Down(entries, F)) /\ F \in SUBSET DOMAIN entries
    <3>1. P = F
      BY <1>2, <1>3, <1>4, <1>11, PassingAre
    <3>2. F \in SUBSET DOMAIN entries
      BY <1>8 DEF ParsedOf
    <3> QED BY <1>5, <3>1, <3>2 DEF ListsDown
  <2>3. CASE F = {}
    <3>1. Leading(Down(entries, F)) = Nowhere
      BY <2>2, <2>3, DownFalls
    <3>2. pick = Nowhere
      BY <1>9, <2>3 DEF Represents
    <3> QED BY <2>1, <2>2, <3>1, <3>2
  <2>4. CASE F # {}
    BY <1>5, <2>1, <2>2, <2>4, NewestLeads
  <2> QED BY <2>3, <2>4
<1>12. \A i, j \in DOMAIN given.list :
         i < j => Below(entries[given.list[j]].version, entries[given.list[i]].version)
  BY <1>5 DEF ListsDown
<1>13. Coheres(entries, request, given)
  BY <1>3, <1>6, <1>10, <1>11, <1>12 DEF Coheres
<1> QED
  BY <1>1, <1>13

-----------------------------------------------------------------------------
(* Moments *)

\* Lifetimes are numbers.
LEMMA LivesAre ==
  /\ IndexTtl \in Nat /\ MetadataTtl \in Nat /\ StatusTtl \in Nat /\ NegativeTtl \in Nat
  /\ \A x : IndexLife(x) \in Nat /\ MetadataLife(x) \in Nat /\ StatusLife(x) \in Nat
<1>1. IndexTtl \in Nat /\ MetadataTtl \in Nat /\ StatusTtl \in Nat /\ NegativeTtl \in Nat
  BY ToolConstants
<1> QED
  BY <1>1 DEF IndexLife, MetadataLife, StatusLife

\* What was so at the moments of a call.
LEMMA WasAtMoments ==
  ASSUME NEW t, NEW age, NEW w \in Was(age, began[t])
  PROVE  \E m \in Moments(t, age) : m.index = w[1] /\ m.docs = w[2]
<1>1. CASE w = <<index, docs>>
  <2>1. [index |-> index, docs |-> docs, until |-> clock] \in Moments(t, age)
    BY DEF Moments
  <2> QED BY <1>1, <2>1
<1>2. ASSUME NEW i \in DOMAIN log, log[i].until + age >= began[t], w = <<log[i].index, log[i].docs>>
      PROVE  \E m \in Moments(t, age) : m.index = w[1] /\ m.docs = w[2]
  <2>1. log[i] \in Moments(t, age)
    BY <1>2 DEF Moments
  <2> QED BY <1>2, <2>1
<1> QED
  BY <1>1, <1>2 DEF Was

\* What is so now counts, whatever the time.
LEMMA NowWas ==
  ASSUME NEW age, NEW time
  PROVE  <<index, docs>> \in Was(age, time)
  BY DEF Was

\* Logged moments are past.
LEMMA LogIs ==
  ASSUME WorldOK
  PROVE  \A i \in DOMAIN log : log[i].until \in Nat /\ log[i].until <= clock
<1>1. \A i \in DOMAIN log : log[i] \in Instant
  BY DEF WorldOK
<1> QED
  BY <1>1 DEF WorldOK, Instant

\* What was so near a later time was so near an earlier one, and later than it.
LEMMA WasBefore ==
  ASSUME WorldOK, NEW age \in Nat, NEW late \in Nat, NEW time \in Nat, time <= late
  PROVE  Was(age, late) \subseteq Was(age, time)
<1>1. \A i \in DOMAIN log : log[i].until \in Nat
  BY LogIs
<1>2. \A i \in DOMAIN log : log[i].until + age >= late => log[i].until + age >= time
  BY <1>1
<1> QED
  BY <1>2 DEF Was

\* A step of the registry or of a tool only adds to what was so.
Advances ==
  /\ WorldOK /\ WorldOK' /\ clock <= clock'
  /\ \A age, time \in Nat : time <= clock + age => Was(age, time) \subseteq Was(age, time)'

\* A step that leaves the registry and the clock alone takes nothing away.
LEMMA StillAdvances ==
  ASSUME WorldOK, UNCHANGED World, calls' \in Nat
  PROVE  Advances
  BY DEF Advances, WorldOK, World, Was

\* Nor does the passing of time.
LEMMA TickAdvances ==
  ASSUME WorldOK, Tick
  PROVE  Advances
<1>1. WorldOK' /\ clock <= clock'
  <2>1. clock \in Nat /\ clock' = clock + 1 /\ UNCHANGED <<index, docs, log, changes, calls>>
    BY DEF WorldOK, Tick
  <2>2. \A i \in DOMAIN log : log[i].until \in Nat /\ log[i].until <= clock
    BY LogIs
  <2>3. \A i \in DOMAIN log : log[i].until <= clock + 1
    BY <2>1, <2>2
  <2> QED BY <2>1, <2>3 DEF WorldOK
<1>2. UNCHANGED <<index, docs, log>>
  BY DEF Tick
<1> QED
  BY <1>1, <1>2 DEF Advances, Was

\* A change of the registry is logged.
LEMMA ChangesAdvance ==
  ASSUME WorldOK, Changes, index' \in Indexes, docs' \in AllDocs
  PROVE  Advances
<1>1. PICK now : now = [index |-> index, docs |-> docs, until |-> clock]
  OBVIOUS
<1>2. now \in Instant /\ now.until = clock /\ clock \in Nat
  BY <1>1 DEF WorldOK, Instant
<1>3. log' = Append(log, now) /\ clock' = clock /\ calls' = calls /\ changes' = changes + 1
  BY <1>1 DEF Changes
<1>4. PICK n \in Nat : n = Len(log)
  BY DEF WorldOK
<1>5. /\ log' \in Seq(Instant) /\ DOMAIN log = 1 .. n /\ DOMAIN log' = 1 .. n + 1
      /\ log'[n + 1] = now /\ \A i \in 1 .. n : log'[i] = log[i]
  BY <1>2, <1>3, <1>4, AppendProperties DEF WorldOK
<1>6. \A i \in DOMAIN log' : log'[i].until <= clock
  <2>1. \A i \in 1 .. n : log[i].until <= clock
    BY <1>5 DEF WorldOK
  <2>2. \A i \in 1 .. n + 1 : i \in 1 .. n \/ i = n + 1
    OBVIOUS
  <2> QED BY <1>2, <1>5, <2>1, <2>2
<1>7. WorldOK'
  BY <1>3, <1>5, <1>6 DEF WorldOK
<1>8. ASSUME NEW age \in Nat, NEW time \in Nat, time <= clock + age, NEW w \in Was(age, time)
      PROVE  w \in Was(age, time)'
  <2>1. CASE w = <<index, docs>>
    <3>1. n + 1 \in DOMAIN log' /\ log'[n + 1].until + age >= time
      BY <1>2, <1>5, <1>8
    <3>2. w = <<log'[n + 1].index, log'[n + 1].docs>>
      BY <1>1, <1>5, <2>1
    <3> QED BY <3>1, <3>2 DEF Was
  <2>2. ASSUME NEW i \in DOMAIN log, log[i].until + age >= time, w = <<log[i].index, log[i].docs>>
        PROVE  w \in Was(age, time)'
    <3>1. i \in DOMAIN log' /\ log'[i] = log[i]
      BY <1>5
    <3> QED BY <2>2, <3>1 DEF Was
  <2> QED BY <1>8, <2>1, <2>2 DEF Was
<1> QED
  BY <1>2, <1>3, <1>7, <1>8 DEF Advances

\* Publishing, yanking and building are such changes.
LEMMA RegistryAdvances ==
  ASSUME WorldOK, Publish \/ Yank \/ Build
  PROVE  Advances
<1>0. index \in Seq(Entries) /\ docs \in AllDocs /\ PublishedOnce(index)
  BY DEF WorldOK, Indexes
<1>1. CASE Publish
  <2>1. PICK v \in Versions \ Published : index' = Append(index, [version |-> v, yanked |-> FALSE])
    BY <1>1 DEF Publish
  <2>2. PICK e \in Entries : e = [version |-> v, yanked |-> FALSE] /\ e.version = v
    <3>1. PICK e : e = [version |-> v, yanked |-> FALSE]
      OBVIOUS
    <3>2. e \in Entries /\ e.version = v
      BY <3>1 DEF Entries
    <3> QED BY <3>1, <3>2
  <2>3. PICK n \in Nat : DOMAIN index = 1 .. n /\ n = Len(index)
    BY <1>0
  <2>4. /\ index' \in Seq(Entries) /\ DOMAIN index' = 1 .. n + 1 /\ index'[n + 1] = e
        /\ \A i \in 1 .. n : index'[i] = index[i]
    BY <1>0, <2>1, <2>2, <2>3
  <2>5. \A i \in 1 .. n : index'[i].version # v
    BY <2>3, <2>4, <2>1 DEF Published
  <2>6. \A i \in DOMAIN index' : i = n + 1 \/ i \in 1 .. n
    BY <2>4
  <2>7. ASSUME NEW i \in DOMAIN index', NEW j \in DOMAIN index', i # j, index'[i].version = index'[j].version
        PROVE  index'[i].version = Unparsed
    <3>1. i \in 1 .. n /\ j \in 1 .. n
      BY <2>2, <2>4, <2>5, <2>6, <2>7
    <3>2. index[i].version = index[j].version /\ index'[i].version = index[i].version
      BY <2>4, <2>7, <3>1
    <3> QED BY <1>0, <2>3, <2>7, <3>1, <3>2 DEF PublishedOnce
  <2>8. index' \in Indexes
    BY <2>4, <2>7 DEF Indexes, PublishedOnce
  <2> QED BY <1>0, <1>1, <2>8, ChangesAdvance DEF Publish
<1>2. CASE Yank
  <2>1. PICK i \in DOMAIN index : index' = [index EXCEPT ![i].yanked = ~@]
    BY <1>2 DEF Yank
  <2>2. PICK n \in Nat : n = Len(index) /\ index \in [1 .. n -> Entries]
    BY <1>0, LenProperties
  <2>3. [index[i] EXCEPT !.yanked = ~@] \in Entries
    BY <2>2 DEF Entries
  <2>4. index' \in [1 .. n -> Entries]
    BY <2>1, <2>2, <2>3
  <2>5. index' \in Seq(Entries) /\ DOMAIN index' = DOMAIN index
    BY <2>1, <2>2, <2>4, SeqDef
  <2>6. \A k \in DOMAIN index : index'[k].version = index[k].version
    <3>1. ASSUME NEW k \in DOMAIN index PROVE index'[k].version = index[k].version
      <4>1. PICK v, y : index[k] = [version |-> v, yanked |-> y]
        BY <2>2 DEF Entries
      <4>2. index'[k] = IF k = i THEN [index[k] EXCEPT !.yanked = ~@] ELSE index[k]
        BY <2>1
      <4> QED BY <4>1, <4>2
    <3> QED BY <3>1
  <2>7. index' \in Indexes
    BY <1>0, <2>5, <2>6 DEF Indexes, PublishedOnce
  <2> QED BY <1>0, <1>2, <2>7, ChangesAdvance DEF Yank
<1>3. CASE Build
  <2>1. PICK v \in Published, result \in {"failed", "html", "json"} : docs' = [docs EXCEPT ![v] = result]
    BY <1>3 DEF Build
  <2>2. v \in Versions
    <3>1. PICK i \in DOMAIN index : v = index[i].version
      BY <2>1 DEF Published
    <3>2. index[i] \in Entries
      BY <1>0, <3>1
    <3> QED BY <3>1, <3>2 DEF Entries
  <2>3. docs' \in AllDocs
    BY <1>0, <2>1, <2>2 DEF AllDocs, Outcomes
  <2>4. index' \in Indexes
    BY <1>3 DEF Build, WorldOK
  <2> QED BY <1>3, <2>3, <2>4, ChangesAdvance DEF Build
<1> QED
  BY <1>1, <1>2, <1>3

-----------------------------------------------------------------------------
(* Views *)

\* A view that is held stays so while the registry moves on.
LEMMA DatedStays ==
  ASSUME Advances, NEW view, NEW life \in Nat, Dated(view, life)
  PROVE  Dated(view, life)' /\ Was(life, view.until) \subseteq Was(life, view.until)'
<1>1. clock \in Nat /\ clock' \in Nat /\ clock <= clock' /\ view.until \in Nat /\ view.until <= clock + life
  BY DEF Advances, WorldOK, Dated
<1>2. Was(life, view.until) \subseteq Was(life, view.until)'
  BY <1>1 DEF Advances
<1>3. Dated(view, life)'
  BY <1>1 DEF Dated
<1> QED
  BY <1>2, <1>3

\* An index that was read stays one that was so.
LEMMA IndexHeldStays ==
  ASSUME Advances, NEW view, IndexHeld(view)
  PROVE  IndexHeld(view)'
<1>1. PICK life \in Nat : life = IndexLife(view.value)
  BY LivesAre
<1>2. Dated(view, life)' /\ Was(life, view.until) \subseteq Was(life, view.until)'
  BY <1>1, DatedStays DEF IndexHeld
<1> QED
  BY <1>1, <1>2 DEF IndexHeld

\* So do metadata,
LEMMA MetadataHeldStays ==
  ASSUME Advances, NEW view, MetadataHeld(view)
  PROVE  MetadataHeld(view)'
<1>1. PICK life \in Nat : life = MetadataLife(view.value)
  BY LivesAre
<1>2. Dated(view, life)' /\ Was(life, view.until) \subseteq Was(life, view.until)'
  BY <1>1, DatedStays DEF MetadataHeld
<1> QED
  BY <1>1, <1>2 DEF MetadataHeld

\* and so does a build status.
LEMMA StatusHeldStays ==
  ASSUME Advances, NEW view, NEW v, StatusHeld(view, v)
  PROVE  StatusHeld(view, v)'
<1>1. PICK life \in Nat : life = StatusLife(view.value)
  BY LivesAre
<1>2. Dated(view, life)' /\ Was(life, view.until) \subseteq Was(life, view.until)'
  BY <1>1, DatedStays DEF StatusHeld
<1> QED
  BY <1>1, <1>2 DEF StatusHeld

\* A view taken now is kept for its lifetime from now on.
LEMMA TakenIsDated ==
  ASSUME WorldOK, NEW view, NEW life \in Nat, view.until = clock + life
  PROVE  Dated(view, life)
  BY DEF Dated, WorldOK

\* A usable view was so near any time up to now.
LEMMA UsableWas ==
  ASSUME WorldOK, NEW view, NEW life \in Nat, Dated(view, life), Usable(view),
         NEW time \in Nat, time <= clock
  PROVE  Was(life, view.until) \subseteq Was(life, time)
<1>1. view.until \in Nat /\ clock \in Nat /\ clock < view.until
  BY DEF Dated, Usable, WorldOK
<1>2. time <= view.until
  BY <1>1
<1> QED
  BY <1>1, <1>2, WasBefore

\* What was never read is not usable.
LEMMA NothingUsable ==
  ASSUME WorldOK
  PROVE  ~Usable(NoView)
  BY DEF WorldOK, Usable, NoView

\* What a read of the index returns is held, and was so near any time up to now.
LEMMA IndexViewIs ==
  ASSUME WorldOK, ViewsOK
  PROVE  /\ IndexHeld(IndexView)
         /\ \A time \in Nat : time <= clock =>
              \E w \in Was(IndexLife(IndexView.value), time) : w[1] = IndexView.value
<1>1. PICK view : view = IndexView
  OBVIOUS
<1>2. PICK life \in Nat : life = IndexLife(view.value)
  BY LivesAre
<1>3. CASE Usable(views.index)
  <2>1. view = views.index /\ IndexHeld(view)
    BY <1>1, <1>3, NothingUsable DEF IndexView, ViewsOK
  <2>2. Dated(view, life) /\ \E w \in Was(life, view.until) : w[1] = view.value
    BY <1>2, <2>1 DEF IndexHeld
  <2>3. ASSUME NEW time \in Nat, time <= clock PROVE \E w \in Was(life, time) : w[1] = view.value
    BY <1>3, <2>1, <2>2, <2>3, UsableWas
  <2> QED BY <1>1, <1>2, <2>1, <2>3
<1>4. CASE ~Usable(views.index)
  <2>1. view = [value |-> index, until |-> clock + IF index = <<>> THEN NegativeTtl ELSE IndexTtl]
    BY <1>1, <1>4 DEF IndexView
  <2>2. view.value = index /\ view.until = clock + life
    BY <1>2, <2>1 DEF IndexLife
  <2>3. \A time : \E w \in Was(life, time) : w[1] = view.value
    BY <2>2, NowWas
  <2>4. Dated(view, life) /\ view.value \in Indexes
    BY <2>2, TakenIsDated DEF WorldOK
  <2>5. IndexHeld(view)
    BY <1>2, <2>3, <2>4 DEF IndexHeld
  <2> QED BY <1>1, <1>2, <2>3, <2>5
<1> QED
  BY <1>3, <1>4

\* What a read of the metadata returns,
LEMMA MetadataViewIs ==
  ASSUME WorldOK, ViewsOK
  PROVE  /\ MetadataHeld(MetadataView)
         /\ \A time \in Nat : time <= clock =>
              \E w \in Was(MetadataLife(MetadataView.value), time) : MetadataView.value <=> w[1] # <<>>
<1>1. PICK view : view = MetadataView
  OBVIOUS
<1>2. PICK life \in Nat : life = MetadataLife(view.value)
  BY LivesAre
<1>3. CASE Usable(views.metadata)
  <2>1. view = views.metadata /\ MetadataHeld(view)
    BY <1>1, <1>3, NothingUsable DEF MetadataView, ViewsOK
  <2>2. Dated(view, life) /\ \E w \in Was(life, view.until) : view.value <=> w[1] # <<>>
    BY <1>2, <2>1 DEF MetadataHeld
  <2>3. ASSUME NEW time \in Nat, time <= clock PROVE \E w \in Was(life, time) : view.value <=> w[1] # <<>>
    BY <1>3, <2>1, <2>2, <2>3, UsableWas
  <2> QED BY <1>1, <1>2, <2>1, <2>3
<1>4. CASE ~Usable(views.metadata)
  <2>1. view = [value |-> index # <<>>, until |-> clock + IF index = <<>> THEN NegativeTtl ELSE MetadataTtl]
    BY <1>1, <1>4 DEF MetadataView
  <2>2. view.value = (index # <<>>) /\ view.until = clock + life
    BY <1>2, <2>1 DEF MetadataLife
  <2>3. \A time : \E w \in Was(life, time) : view.value <=> w[1] # <<>>
    <3>1. view.value <=> index # <<>>
      BY <2>2
    <3>2. PICK w : w = <<index, docs>>
      OBVIOUS
    <3>3. w[1] = index
      BY <3>2
    <3>4. view.value <=> w[1] # <<>>
      BY <3>1, <3>3
    <3>5. \A time : w \in Was(life, time)
      BY <3>2, NowWas
    <3> QED BY <3>4, <3>5
  <2>4. Dated(view, life) /\ view.value \in BOOLEAN
    BY <2>2, TakenIsDated
  <2>5. MetadataHeld(view)
    BY <1>2, <2>3, <2>4 DEF MetadataHeld
  <2> QED BY <1>1, <1>2, <2>3, <2>5
<1> QED
  BY <1>3, <1>4

\* and of a build status.
LEMMA StatusViewIs ==
  ASSUME WorldOK, ViewsOK, NEW v \in Versions
  PROVE  /\ StatusHeld(StatusView(v), v)
         /\ \A time \in Nat : time <= clock =>
              \E w \in Was(StatusLife(StatusView(v).value), time) : w[2][v] = StatusView(v).value
<1>1. PICK view : view = StatusView(v)
  OBVIOUS
<1>2. PICK life \in Nat : life = StatusLife(view.value)
  BY LivesAre
<1>3. CASE Usable(views.status[v])
  <2>1. view = views.status[v] /\ StatusHeld(view, v)
    BY <1>1, <1>3, NothingUsable DEF StatusView, ViewsOK
  <2>2. Dated(view, life) /\ \E w \in Was(life, view.until) : w[2][v] = view.value
    BY <1>2, <2>1 DEF StatusHeld
  <2>3. ASSUME NEW time \in Nat, time <= clock PROVE \E w \in Was(life, time) : w[2][v] = view.value
    BY <1>3, <2>1, <2>2, <2>3, UsableWas
  <2> QED BY <1>1, <1>2, <2>1, <2>3
<1>4. CASE ~Usable(views.status[v])
  <2>1. view = [value |-> docs[v], until |-> clock + IF docs[v] = "none" THEN NegativeTtl ELSE StatusTtl]
    BY <1>1, <1>4 DEF StatusView
  <2>2. view.value = docs[v] /\ view.until = clock + life
    BY <1>2, <2>1 DEF StatusLife
  <2>3. \A time : \E w \in Was(life, time) : w[2][v] = view.value
    BY <2>2, NowWas
  <2>4. Dated(view, life) /\ view.value \in Outcomes
    BY <2>2, TakenIsDated DEF WorldOK, AllDocs
  <2>5. StatusHeld(view, v)
    BY <1>2, <2>3, <2>4 DEF StatusHeld
  <2> QED BY <1>1, <1>2, <2>3, <2>5
<1> QED
  BY <1>3, <1>4

\* The views after a step that leaves them alone, or renews one of them.
LEMMA ViewsStay ==
  ASSUME Advances, ViewsOK,
         \/ UNCHANGED views
         \/ views' = [views EXCEPT !.index = IndexView]
         \/ views' = [views EXCEPT !.metadata = MetadataView]
         \/ \E v \in Versions : views' = [views EXCEPT !.status[v] = StatusView(v)]
  PROVE  ViewsOK'
<1>1. PICK i, m, s : i = views.index /\ m = views.metadata /\ s = views.status
  OBVIOUS
<1>2. views = [index |-> i, metadata |-> m, status |-> s] /\ s = [v \in Versions |-> s[v]]
  BY <1>1 DEF ViewsOK
<1>3. WorldOK
  BY DEF Advances
<1>4. i = NoView \/ IndexHeld(i)'
  BY <1>1, IndexHeldStays DEF ViewsOK
<1>5. m = NoView \/ MetadataHeld(m)'
  BY <1>1, MetadataHeldStays DEF ViewsOK
<1>6. \A v \in Versions : s[v] = NoView \/ StatusHeld(s[v], v)'
  BY <1>1, StatusHeldStays DEF ViewsOK
<1>7. CASE UNCHANGED views
  BY <1>1, <1>2, <1>4, <1>5, <1>6, <1>7 DEF ViewsOK
<1>8. CASE views' = [views EXCEPT !.index = IndexView]
  <2>1. PICK view : view = IndexView
    OBVIOUS
  <2>2. IndexHeld(view)'
    BY <1>3, <2>1, IndexViewIs, IndexHeldStays
  <2>3. views' = [index |-> view, metadata |-> m, status |-> s]
    BY <1>2, <1>8, <2>1
  <2> QED BY <1>2, <1>5, <1>6, <2>2, <2>3 DEF ViewsOK
<1>9. CASE views' = [views EXCEPT !.metadata = MetadataView]
  <2>1. PICK view : view = MetadataView
    OBVIOUS
  <2>2. MetadataHeld(view)'
    BY <1>3, <2>1, MetadataViewIs, MetadataHeldStays
  <2>3. views' = [index |-> i, metadata |-> view, status |-> s]
    BY <1>2, <1>9, <2>1
  <2> QED BY <1>2, <1>4, <1>6, <2>2, <2>3 DEF ViewsOK
<1>10. ASSUME NEW v \in Versions, views' = [views EXCEPT !.status[v] = StatusView(v)]
       PROVE  ViewsOK'
  <2>1. PICK view : view = StatusView(v)
    OBVIOUS
  <2>2. StatusHeld(view, v)'
    BY <1>3, <2>1, StatusViewIs, StatusHeldStays
  <2>3. PICK r : r = [s EXCEPT ![v] = view]
    OBVIOUS
  <2>4. views' = [index |-> i, metadata |-> m, status |-> r]
    BY <1>2, <1>10, <2>1, <2>3
  <2>5. r = [u \in Versions |-> r[u]] /\ \A u \in Versions : r[u] = IF u = v THEN view ELSE s[u]
    BY <1>2, <2>3
  <2>6. \A u \in Versions : r[u] = NoView \/ StatusHeld(r[u], u)'
    BY <1>6, <2>2, <2>5
  <2> QED BY <1>4, <1>5, <2>4, <2>5, <2>6 DEF ViewsOK
<1> QED
  BY <1>7, <1>8, <1>9, <1>10

-----------------------------------------------------------------------------
(* Calls *)

\* What a task has, and that a step leaves it to it.
Same(u) == UNCHANGED <<call[u], began[u], pending[u], seen[u], chosen[u], built[u]>>

\* What a call has read of is still what was so.
LEMMA CallStays ==
  ASSUME Advances, NEW u \in Tasks, CallOK(u), Same(u)
  PROVE  CallOK(u)'
<1>1. clock \in Nat /\ clock' \in Nat /\ clock <= clock'
  BY DEF Advances, WorldOK
<1>2. CASE call[u] = Idle
  BY <1>2 DEF CallOK, Same
<1>3. CASE call[u] # Idle
  <2>1. PICK begun \in Nat : begun = began[u] /\ begun <= clock /\ began'[u] = begun
    BY <1>3 DEF CallOK, Same
  <2>2. ASSUME NEW age \in Nat PROVE Was(age, began[u]) \subseteq Was(age, began[u])'
    <3>1. begun <= clock + age
      BY <1>1, <2>1
    <3>2. Was(age, begun) \subseteq Was(age, begun)'
      BY <3>1 DEF Advances
    <3>3. Was(age, began[u]) = Was(age, begun) /\ Was(age, began[u])' = Was(age, begun)'
      BY <2>1 DEF Was
    <3> QED BY <3>2, <3>3
  <2>3. Resolved(u) => Resolved(u)'
    BY <2>2, LivesAre DEF Resolved, Same
  <2>4. Release(u)' = Release(u)
    BY DEF Release, Same
  <2>5. Informed(u) => Informed(u)'
    BY <2>2, <2>4, LivesAre DEF Informed, Same
  <2>6. began'[u] \in Nat /\ began'[u] <= clock'
    BY <1>1, <2>1
  <2>7. call'[u] = call[u] /\ pending'[u] = pending[u] /\ built'[u] = built[u]
    BY DEF Same
  <2> HIDE DEF Resolved, Informed
  <2>8. Composing(u) => Composing(u)'
    BY <2>3, <2>5, <2>7 DEF Composing
  <2>9. /\ Searching(u) => Searching(u)'
        /\ Gathering(u) => Gathering(u)'
        /\ Indexing(u) => Indexing(u)'
    BY <2>7 DEF Searching, Gathering, Indexing
  <2> QED BY <1>3, <2>6, <2>7, <2>8, <2>9 DEF CallOK
<1> QED
  BY <1>2, <1>3

\* The state of the calls after a step of one task.
Others(t) == \A u \in Tasks \ {t} : Same(u)

\* A step of one task that leaves the others alone keeps the invariant if that task keeps its part.
LEMMA OneStep ==
  ASSUME NEW t \in Tasks, CallsInv, Advances, Others(t), CallOK(t)', Tables', ViewsOK'
  PROVE  CallsInv'
<1>1. ASSUME NEW u \in Tasks, u # t PROVE CallOK(u)'
  BY <1>1, CallStays DEF CallsInv, Others
<1>2. WorldOK'
  BY DEF Advances
<1> QED
  BY <1>1, <1>2 DEF CallsInv

\* A call that ends leaves nothing behind.
LEMMA EndsClears ==
  ASSUME NEW t \in Tasks, Tables, NEW result, Ends(t, result)
  PROVE  Others(t) /\ CallOK(t)' /\ Tables'
<1>1. /\ call' = [call EXCEPT ![t] = Idle] /\ pending' = [pending EXCEPT ![t] = {}]
      /\ seen' = [seen EXCEPT ![t] = <<>>] /\ chosen' = [chosen EXCEPT ![t] = Nowhere]
      /\ built' = [built EXCEPT ![t] = "unknown"] /\ began' = [began EXCEPT ![t] = 0]
  BY DEF Ends
<1>2. /\ call' = [u \in Tasks |-> call'[u]] /\ pending' = [u \in Tasks |-> pending'[u]]
      /\ seen' = [u \in Tasks |-> seen'[u]] /\ chosen' = [u \in Tasks |-> chosen'[u]]
      /\ built' = [u \in Tasks |-> built'[u]] /\ began' = [u \in Tasks |-> began'[u]]
  BY <1>1 DEF Tables
<1>3. Others(t)
  BY <1>1 DEF Others, Same, Tables
<1>4. call'[t] = Idle /\ pending'[t] = {} /\ built'[t] = "unknown"
  BY <1>1 DEF Tables
<1>5. CallOK(t)'
  BY <1>4 DEF CallOK
<1> QED
  BY <1>2, <1>3, <1>5 DEF Tables

\* A call that waits is being served; what it waits for tells where it is.
LEMMA Waiting ==
  ASSUME NEW t \in Tasks, CallOK(t), pending[t] # {}
  PROVE  /\ call[t] # Idle /\ call[t] \in Requests /\ began[t] \in Nat /\ began[t] <= clock
         /\ SelectorOf(call[t]) # Garbage
         /\ "search" \in pending[t] => Searching(t)
         /\ "index" \in pending[t] => built[t] = "unknown" /\ (Gathering(t) \/ Indexing(t))
         /\ "metadata" \in pending[t] => built[t] = "unknown" /\ Gathering(t)
         /\ pending[t] \cap {"readme", "status", "item"} # {} => Composing(t)
<1>1. call[t] # Idle
  BY DEF CallOK
<1> QED
  BY <1>1 DEF CallOK, Searching, Gathering, Indexing, Composing

\* Selectors of calls that speak of one version.
LEMMA SelectorOfOne ==
  ASSUME NEW request, request.tool \in {"dependencies", "documentation"}, SelectorOf(request) # Garbage
  PROVE  SelectorOf(request) = Parse(request.raw) /\ SelectorOf(request).kind \in {"default", "exact", "matching"}
<1>1. SelectorOf(request) = Parse(request.raw)
  BY DEF SelectorOf
<1> QED
  BY <1>1, SelectorKinds

-----------------------------------------------------------------------------
(* The inductive step *)

\* A call is refused at once, or begins.
LEMMA CallKeeps ==
  ASSUME NEW t \in Tasks, CallsInv, Call(t)
  PROVE  CallsInv'
<1>1. CallOK(t) /\ Tables /\ ViewsOK /\ WorldOK /\ call[t] = Idle
  BY DEF CallsInv, Call
<1>2. PICK request \in Requests :
        IF Complaint(request) # "none"
          THEN UNCHANGED <<call, began, pending>>
          ELSE /\ call' = [call EXCEPT ![t] = request]
               /\ began' = [began EXCEPT ![t] = clock]
               /\ pending' = [pending EXCEPT ![t] =
                    CASE request.tool = "search" -> {"search"}
                      [] request.tool = "info" -> {"index", "metadata"}
                      [] OTHER -> {"index"}]
  BY DEF Call
<1>3. UNCHANGED <<World, views, seen, chosen, built>> /\ calls' = calls + 1
  BY DEF Call
<1>4. Advances
  BY <1>1, <1>3, StillAdvances DEF WorldOK
<1>5. ViewsOK'
  BY <1>1, <1>3, <1>4, ViewsStay
<1>6. CASE UNCHANGED <<call, began, pending>>
  <2>1. Same(t) /\ Others(t) /\ Tables'
    BY <1>1, <1>3, <1>6 DEF Others, Same, Tables
  <2> QED BY <1>1, <1>4, <1>5, <2>1, CallStays, OneStep
<1>7. CASE Complaint(request) = "none"
  <2>1. /\ call' = [call EXCEPT ![t] = request] /\ began' = [began EXCEPT ![t] = clock]
        /\ pending' = [pending EXCEPT ![t] =
                    CASE request.tool = "search" -> {"search"}
                      [] request.tool = "info" -> {"index", "metadata"}
                      [] OTHER -> {"index"}]
    BY <1>2, <1>7
  <2>2. Others(t) /\ Tables'
    <3>1. Others(t)
      BY <1>1, <1>3, <2>1 DEF Others, Same, Tables
    <3>2. call' = [u \in Tasks |-> call'[u]] /\ began' = [u \in Tasks |-> began'[u]]
          /\ pending' = [u \in Tasks |-> pending'[u]]
      BY <1>1, <2>1 DEF Tables
    <3>3. seen' = [u \in Tasks |-> seen'[u]] /\ chosen' = [u \in Tasks |-> chosen'[u]]
          /\ built' = [u \in Tasks |-> built'[u]]
      BY <1>1, <1>3 DEF Tables
    <3> QED BY <3>1, <3>2, <3>3 DEF Tables
  <2>3. call'[t] = request /\ began'[t] = clock
    BY <1>1, <2>1 DEF Tables
  <2>4. pending'[t] = CASE request.tool = "search" -> {"search"}
                        [] request.tool = "info" -> {"index", "metadata"}
                        [] OTHER -> {"index"}
    BY <1>1, <2>1 DEF Tables
  <2>5. built'[t] = "unknown" /\ clock' = clock /\ clock \in Nat
    BY <1>1, <1>3 DEF CallOK, World, WorldOK
  <2>6. request.tool \in Tools /\ SelectorOf(request) # Garbage /\ request # Idle
    <3>1. request.tool \in Tools
      BY ToolConstants
    <3>2. SelectorOf(request) # Garbage
      BY <1>7 DEF Complaint, VersionsRefused
    <3>3. request # Idle
      BY <3>1 DEF Idle, Tools
    <3> QED BY <3>1, <3>2, <3>3
  <2>7. Searching(t)' \/ Gathering(t)' \/ Indexing(t)'
    <3>1. CASE request.tool = "search"
      BY <2>3, <2>4, <3>1 DEF Searching
    <3>2. CASE request.tool = "info"
      BY <2>3, <2>4, <3>2 DEF Gathering
    <3>3. CASE request.tool \in {"versions", "dependencies", "documentation"}
      BY <2>3, <2>4, <3>3 DEF Indexing
    <3> QED BY <2>6, <3>1, <3>2, <3>3 DEF Tools
  <2>8. CallOK(t)'
    <3>1. request.tool = "versions" => request.limit \in 1 .. MaxLimit
      BY <1>7 DEF Complaint, VersionsRefused
    <3> QED BY <2>3, <2>5, <2>6, <2>7, <3>1 DEF CallOK
  <2> QED BY <1>4, <1>5, <2>2, <2>8, OneStep
<1> QED
  BY <1>2, <1>6, <1>7

\* A step that ends a call.
LEMMA EndsKeeps ==
  ASSUME NEW t \in Tasks, CallsInv, NEW result, Ends(t, result), UNCHANGED <<World, calls>>, ViewsOK'
  PROVE  CallsInv'
<1>1. Advances
  BY StillAdvances DEF CallsInv, WorldOK
<1>2. Others(t) /\ CallOK(t)' /\ Tables'
  BY EndsClears DEF CallsInv
<1> QED
  BY <1>1, <1>2, OneStep

\* A step after which a call goes on.
LEMMA ArrivalKeeps ==
  ASSUME NEW t \in Tasks, CallsInv, UNCHANGED <<World, calls, call, began>>, ViewsOK', Others(t), Tables',
         pending[t] # {}, built'[t] \in {"yes", "no", "unknown"},
         (Gathering(t)' /\ built'[t] = "unknown") \/ Composing(t)'
  PROVE  CallsInv'
<1>1. Advances
  BY StillAdvances DEF CallsInv, WorldOK
<1>2. /\ call[t] # Idle /\ call[t] \in Requests /\ began[t] \in Nat /\ began[t] <= clock
      /\ SelectorOf(call[t]) # Garbage
      /\ call[t].tool = "versions" => call[t].limit \in 1 .. MaxLimit
  BY Waiting DEF CallsInv, CallOK
<1>3. call' = call /\ began' = began /\ clock' = clock
  BY DEF World
<1>4. CallOK(t)'
  BY <1>2, <1>3 DEF CallOK
<1> QED
  BY <1>1, <1>4, OneStep

\* What the index says of a call's time was so near the call.
LEMMA IndexReadWas ==
  ASSUME NEW t \in Tasks, CallsInv, pending[t] # {}
  PROVE  /\ IndexView.value \in Indexes
         /\ \E w \in Was(IndexLife(IndexView.value), began[t]) : w[1] = IndexView.value
<1>1. began[t] \in Nat /\ began[t] <= clock
  BY Waiting DEF CallsInv
<1> QED
  BY <1>1, IndexViewIs DEF CallsInv, IndexHeld

\* The index arrives: the call ends, waits for its metadata, or has its version.
LEMMA IndexKeeps ==
  ASSUME NEW t \in Tasks, CallsInv, IndexRead(t)
  PROVE  CallsInv'
<1>1. CallOK(t) /\ Tables /\ ViewsOK /\ WorldOK /\ "index" \in pending[t] /\ pending[t] # {}
  BY DEF CallsInv, IndexRead
<1>2. UNCHANGED <<World, calls>> /\ views' = [views EXCEPT !.index = IndexView]
  BY DEF IndexRead
<1>3. Advances
  BY <1>1, <1>2, StillAdvances DEF WorldOK
<1>4. ViewsOK'
  BY <1>1, <1>2, <1>3, ViewsStay
<1>5. PICK entries, position : entries = IndexView.value /\ position = Resolve(entries, SelectorOf(call[t]))
  OBVIOUS
<1>6. \/ \E result : Ends(t, result)
      \/ /\ entries # <<>> /\ call[t].tool = "info"
         /\ seen' = [seen EXCEPT ![t] = entries]
         /\ pending' = [pending EXCEPT ![t] = @ \ {"index"}]
         /\ UNCHANGED <<call, began, chosen, built>>
      \/ /\ call[t].tool = "documentation"
         /\ position # Nowhere
         /\ seen' = [seen EXCEPT ![t] = entries]
         /\ chosen' = [chosen EXCEPT ![t] = position]
         /\ pending' = [pending EXCEPT ![t] =
              {IF call[t].item THEN "item" ELSE "status"} \cup IF call[t].readme THEN {"readme"} ELSE {}]
         /\ UNCHANGED <<call, began, built>>
  BY <1>5 DEF IndexRead, Fails
<1>7. ASSUME NEW result, Ends(t, result) PROVE CallsInv'
  BY <1>2, <1>4, <1>7, EndsKeeps
<1>8. CASE /\ entries # <<>> /\ call[t].tool = "info"
           /\ seen' = [seen EXCEPT ![t] = entries]
           /\ pending' = [pending EXCEPT ![t] = @ \ {"index"}]
           /\ UNCHANGED <<call, began, chosen, built>>
  <2>1. Others(t)
    BY <1>1, <1>8 DEF Others, Same, Tables
  <2>2. seen' = [u \in Tasks |-> seen'[u]] /\ pending' = [u \in Tasks |-> pending'[u]]
    BY <1>1, <1>8 DEF Tables
  <2>3. Tables'
    BY <1>1, <1>8, <2>2 DEF Tables
  <2>4. Gathering(t) /\ built[t] = "unknown"
    BY <1>1, <1>8, Waiting DEF Indexing
  <2>5. pending'[t] = pending[t] \ {"index"}
    BY <1>1, <1>8 DEF Tables
  <2>6. Gathering(t)' /\ built'[t] = "unknown"
    BY <1>8, <2>4, <2>5 DEF Gathering
  <2> QED BY <1>1, <1>2, <1>4, <1>8, <2>1, <2>3, <2>6, ArrivalKeeps
<1>9. CASE /\ call[t].tool = "documentation"
           /\ position # Nowhere
           /\ seen' = [seen EXCEPT ![t] = entries]
           /\ chosen' = [chosen EXCEPT ![t] = position]
           /\ pending' = [pending EXCEPT ![t] =
              {IF call[t].item THEN "item" ELSE "status"} \cup IF call[t].readme THEN {"readme"} ELSE {}]
           /\ UNCHANGED <<call, began, built>>
  <2>1. Others(t)
    BY <1>1, <1>9 DEF Others, Same, Tables
  <2>2. /\ seen' = [u \in Tasks |-> seen'[u]] /\ pending' = [u \in Tasks |-> pending'[u]]
        /\ chosen' = [u \in Tasks |-> chosen'[u]]
    BY <1>1, <1>9 DEF Tables
  <2>3. Tables'
    BY <1>1, <1>9, <2>2 DEF Tables
  <2>4. built[t] = "unknown" /\ built'[t] = "unknown"
    BY <1>1, <1>9, Waiting
  <2>5. seen'[t] = entries /\ chosen'[t] = position
    BY <1>1, <1>9 DEF Tables
  <2>6. pending'[t] \subseteq {"item", "status", "readme"}
    BY <1>1, <1>9 DEF Tables
  <2>7. entries \in Indexes /\ \E w \in Was(IndexLife(entries), began[t]) : w[1] = entries
    BY <1>1, <1>5, IndexReadWas
  <2>8. IndexLife(entries) = IndexTtl
    <3>1. SelectorOf(call[t]) # Garbage
      BY <1>1, Waiting
    <3>2. SelectorOf(call[t]).kind \in {"default", "exact", "matching"}
      BY <1>9, <3>1, SelectorOfOne
    <3>3. position \in DOMAIN entries
      BY <1>5, <1>9, <2>7, <3>2, ResolvesPreferred
    <3>4. entries # <<>>
      BY <3>3
    <3> QED BY <3>4 DEF IndexLife
  <2>9. \E w \in Was(IndexTtl, began[t])' : w[1] = entries
    <3>1. Was(IndexTtl, began[t])' = Was(IndexTtl, began[t])
      BY <1>2, <1>9 DEF Was, World
    <3> QED BY <2>7, <2>8, <3>1
  <2>10. Resolved(t)'
    BY <1>5, <1>9, <2>5, <2>7, <2>9 DEF Resolved
  <2>11. Composing(t)'
    BY <1>9, <2>4, <2>6, <2>10 DEF Composing, Informed
  <2> QED BY <1>1, <1>2, <1>4, <1>9, <2>1, <2>3, <2>4, <2>11, ArrivalKeeps
<1> QED
  BY <1>6, <1>7, <1>8, <1>9

\* The metadata arrives, or there is none.
LEMMA MetadataKeeps ==
  ASSUME NEW t \in Tasks, CallsInv, MetadataRead(t)
  PROVE  CallsInv'
<1>1. CallOK(t) /\ Tables /\ ViewsOK /\ WorldOK /\ "metadata" \in pending[t] /\ pending[t] # {}
  BY DEF CallsInv, MetadataRead
<1>2. UNCHANGED <<World, calls>> /\ views' = [views EXCEPT !.metadata = MetadataView]
  BY DEF MetadataRead
<1>3. Advances
  BY <1>1, <1>2, StillAdvances DEF WorldOK
<1>4. ViewsOK'
  BY <1>1, <1>2, <1>3, ViewsStay
<1>5. ASSUME NEW result, Ends(t, result) PROVE CallsInv'
  BY <1>2, <1>4, <1>5, EndsKeeps
<1>6. CASE /\ pending' = [pending EXCEPT ![t] = @ \ {"metadata"}]
           /\ UNCHANGED <<call, began, seen, chosen, built>>
  <2>1. Others(t)
    BY <1>1, <1>6 DEF Others, Same, Tables
  <2>2. pending' = [u \in Tasks |-> pending'[u]]
    BY <1>1, <1>6 DEF Tables
  <2>3. Tables'
    BY <1>1, <1>6, <2>2 DEF Tables
  <2>4. Gathering(t) /\ built[t] = "unknown"
    BY <1>1, Waiting
  <2>5. pending'[t] = pending[t] \ {"metadata"}
    BY <1>1, <1>6 DEF Tables
  <2>6. Gathering(t)' /\ built'[t] = "unknown"
    BY <1>6, <2>4, <2>5 DEF Gathering
  <2> QED BY <1>1, <1>2, <1>4, <1>6, <2>1, <2>3, <2>6, ArrivalKeeps
<1> QED
  BY <1>5, <1>6 DEF MetadataRead, Fails

\* A call about documentation goes on waiting for less, with what it knew or what it learned.
LEMMA ComposingGoesOn ==
  ASSUME NEW t \in Tasks, CallsInv, Composing(t), pending[t] # {}, UNCHANGED <<World, calls, call, began, seen, chosen>>,
         ViewsOK', NEW rest \in SUBSET pending[t], pending' = [pending EXCEPT ![t] = rest],
         NEW flag \in {"yes", "no", "unknown"}, built' = [built EXCEPT ![t] = flag],
         flag = built[t] \/ Informed(t)'
  PROVE  CallsInv'
<1>1. Tables
  BY DEF CallsInv
<1>2. Others(t)
  BY <1>1 DEF Others, Same, Tables
<1>3. pending' = [u \in Tasks |-> pending'[u]] /\ built' = [u \in Tasks |-> built'[u]]
  BY <1>1 DEF Tables
<1>4. Tables'
  BY <1>1, <1>3 DEF Tables
<1>5. pending'[t] = rest /\ built'[t] = flag
  BY <1>1 DEF Tables
<1>6. \A age : Was(age, began[t])' = Was(age, began[t])
  BY DEF Was, World
<1>7. Resolved(t)'
  BY <1>6 DEF Composing, Resolved
<1>8. Informed(t)'
  <2>1. SUFFICES ASSUME flag = built[t] PROVE Informed(t)'
    OBVIOUS
  <2>2. Release(t)' = Release(t)
    BY DEF Release
  <2> QED BY <1>5, <1>6, <2>1, <2>2 DEF Composing, Informed
<1>9. Composing(t)'
  BY <1>5, <1>7, <1>8 DEF Composing
<1> QED
  BY <1>2, <1>4, <1>5, <1>9, ArrivalKeeps

\* A README arrives.
LEMMA ReadmeKeeps ==
  ASSUME NEW t \in Tasks, CallsInv, ReadmeRead(t)
  PROVE  CallsInv'
<1>1. CallOK(t) /\ Tables /\ ViewsOK /\ WorldOK /\ "readme" \in pending[t] /\ pending[t] # {}
  BY DEF CallsInv, ReadmeRead
<1>2. UNCHANGED <<World, views, call, began, seen, chosen, built, calls>>
  BY DEF ReadmeRead
<1>3. ViewsOK'
  BY <1>1, <1>2, StillAdvances, ViewsStay DEF WorldOK
<1>4. Composing(t)
  BY <1>1, Waiting
<1>5. PICK rest \in SUBSET pending[t] : rest = pending[t] \ {"readme"}
  OBVIOUS
<1>6. pending' = [pending EXCEPT ![t] = rest]
  BY <1>5 DEF ReadmeRead
<1>7. PICK flag \in {"yes", "no", "unknown"} : flag = built[t]
  BY <1>1 DEF CallOK
<1>8. built' = [built EXCEPT ![t] = flag]
  BY <1>1, <1>2, <1>7 DEF Tables
<1> QED
  BY <1>1, <1>2, <1>3, <1>4, <1>6, <1>7, <1>8, ComposingGoesOn

\* An error of the fetch layer is no absence, whoever interprets it.
LEMMA FaultsAre ==
  ASSUME NEW fault \in Faults
  PROVE  /\ MissingCrate(fault) = fault /\ MissingDocs(fault) = fault /\ fault.kind \in FaultKinds
         /\ Category(fault) = "upstream" /\ BuildFlag(fault) = "unknown"
<1>1. fault.kind \in FaultKinds /\ fault.status \in Nat \ {404}
  BY ToolConstants
<1>2. fault # Absence
  BY <1>1 DEF Absence
<1>3. Category(fault) = "upstream"
  BY <1>1 DEF Category, FaultKinds
<1>4. BuildFlag(fault) = "unknown"
  BY <1>1, <1>3 DEF BuildFlag, FaultKinds
<1> QED
  BY <1>1, <1>2, <1>3, <1>4 DEF MissingCrate, MissingDocs

\* What a read of the build status says.
LEMMA FlagIs ==
  ASSUME NEW outcome \in Outcomes
  PROVE  BuildFlag(IF outcome = "none" THEN MissingDocs(Absence) ELSE [kind |-> outcome]) =
           IF outcome \in {"html", "json"} THEN "yes" ELSE "no"
<1>1. CASE outcome = "none"
  <2>1. MissingDocs(Absence) = Error("docs_unavailable")
    BY DEF MissingDocs
  <2>2. Error("docs_unavailable").kind = "docs_unavailable"
    BY DEF Error
  <2>3. Category(Error("docs_unavailable")) = "not found"
    BY <2>2 DEF Category
  <2> QED BY <1>1, <2>1, <2>2, <2>3 DEF BuildFlag
<1>2. CASE outcome \in {"html", "json"}
  <2>1. PICK status : status = [kind |-> outcome]
    OBVIOUS
  <2>2. status.kind \in {"html", "json"}
    BY <1>2, <2>1
  <2>3. BuildFlag(status) = "yes"
    <3>1. Category(status) = "upstream"
      BY <2>2 DEF Category
    <3> QED BY <2>2, <3>1 DEF BuildFlag
  <2>4. outcome # "none"
    BY <1>2
  <2> QED BY <1>2, <2>1, <2>3, <2>4
<1>3. CASE outcome = "failed"
  BY <1>3 DEF BuildFlag
<1> QED
  BY <1>1, <1>2, <1>3 DEF Outcomes

\* The release of a documentation call is one of its index's.
LEMMA ReleaseIs ==
  ASSUME NEW t, Resolved(t), SelectorOf(call[t]) # Garbage, call[t].tool = "documentation"
  PROVE  /\ Release(t) \in Versions /\ chosen[t] \in DOMAIN seen[t]
         /\ Preferred(seen[t], Parse(call[t].raw)) = {Release(t)}
<1>1. PICK entries, selector, position :
        entries = seen[t] /\ selector = SelectorOf(call[t]) /\ position = chosen[t]
  OBVIOUS
<1>2. selector = Parse(call[t].raw) /\ selector.kind \in {"default", "exact", "matching"}
  BY <1>1, SelectorOfOne
<1>3. entries \in Indexes /\ position = Resolve(entries, selector) /\ position # Nowhere
  BY <1>1 DEF Resolved
<1>4. /\ position \in DOMAIN entries /\ entries[position].version \in Versions
      /\ Preferred(entries, selector) = {entries[position].version}
  BY <1>2, <1>3, ResolvesPreferred
<1> QED
  BY <1>1, <1>2, <1>4 DEF Release

\* A build status arrives, read or missing, or an error that leaves it unknown.
LEMMA StatusKeeps ==
  ASSUME NEW t \in Tasks, CallsInv, StatusRead(t)
  PROVE  CallsInv'
<1>1. CallOK(t) /\ Tables /\ ViewsOK /\ WorldOK /\ "status" \in pending[t] /\ pending[t] # {}
  BY DEF CallsInv, StatusRead
<1>2. UNCHANGED <<World, calls, call, began, seen, chosen>>
  BY DEF StatusRead
<1>3. /\ Composing(t) /\ SelectorOf(call[t]) # Garbage
      /\ began[t] \in Nat /\ began[t] <= clock
  BY <1>1, Waiting
<1>4. Release(t) \in Versions
  BY <1>3, ReleaseIs DEF Composing
<1>5. PICK rest \in SUBSET pending[t] : rest = pending[t] \ {"status"}
  OBVIOUS
<1>6. pending' = [pending EXCEPT ![t] = rest]
  BY <1>5 DEF StatusRead
<1>7. Advances
  BY <1>1, <1>2, StillAdvances DEF WorldOK
<1>8. ASSUME NEW view, view = StatusView(Release(t)), views' = [views EXCEPT !.status[Release(t)] = view],
             built' = [built EXCEPT ![t] =
               BuildFlag(IF view.value = "none" THEN MissingDocs(Absence) ELSE [kind |-> view.value])]
      PROVE  CallsInv'
  <2>1. ViewsOK'
    BY <1>1, <1>4, <1>7, <1>8, ViewsStay
  <2>2. PICK outcome \in Outcomes : outcome = view.value
    BY <1>1, <1>4, <1>8, StatusViewIs DEF StatusHeld
  <2>3. PICK flag \in {"yes", "no", "unknown"} : flag = IF outcome \in {"html", "json"} THEN "yes" ELSE "no"
    OBVIOUS
  <2>4. built' = [built EXCEPT ![t] = flag]
    BY <1>8, <2>2, <2>3, FlagIs
  <2>5. built'[t] = flag
    BY <1>1, <2>4 DEF Tables
  <2>6. \E w \in Was(StatusLife(outcome), began[t]) : w[2][Release(t)] = outcome
    BY <1>1, <1>3, <1>4, <1>8, <2>2, StatusViewIs
  <2>7. (\A age : Was(age, began[t])' = Was(age, began[t])) /\ Release(t)' = Release(t)
    BY <1>2 DEF Was, World, Release
  <2>8. Informed(t)'
    <3>1. CASE outcome \in {"html", "json"}
      <4>1. StatusLife(outcome) = StatusTtl
        BY <3>1 DEF StatusLife
      <4> QED BY <2>3, <2>5, <2>6, <2>7, <3>1, <4>1 DEF Informed
    <3>2. CASE outcome = "none"
      <4>1. StatusLife(outcome) = NegativeTtl
        BY <3>2 DEF StatusLife
      <4> QED BY <2>3, <2>5, <2>6, <2>7, <3>2, <4>1 DEF Informed
    <3>3. CASE outcome = "failed"
      <4>1. StatusLife(outcome) = StatusTtl
        BY <3>3 DEF StatusLife
      <4> QED BY <2>3, <2>5, <2>6, <2>7, <3>3, <4>1 DEF Informed
    <3> QED BY <3>1, <3>2, <3>3 DEF Outcomes
  <2> QED BY <1>1, <1>2, <1>3, <1>6, <2>1, <2>4, <2>8, ComposingGoesOn
<1>9. ASSUME NEW fault \in Faults, built' = [built EXCEPT ![t] = BuildFlag(MissingDocs(fault))], UNCHANGED views
      PROVE  CallsInv'
  <2>1. ViewsOK'
    BY <1>1, <1>7, <1>9, ViewsStay
  <2>2. PICK flag \in {"yes", "no", "unknown"} : flag = "unknown"
    OBVIOUS
  <2>3. built' = [built EXCEPT ![t] = flag]
    BY <1>9, <2>2, FaultsAre
  <2>4. Informed(t)'
    BY <1>1, <2>2, <2>3 DEF Informed, Tables
  <2> QED BY <1>1, <1>2, <1>3, <1>6, <2>1, <2>3, <2>4, ComposingGoesOn
<1> QED
  BY <1>8, <1>9 DEF StatusRead

\* A documentation index arrives, or does not.
LEMMA ItemKeeps ==
  ASSUME NEW t \in Tasks, CallsInv, ItemRead(t)
  PROVE  CallsInv'
<1>1. CallOK(t) /\ Tables /\ ViewsOK /\ WorldOK /\ "item" \in pending[t] /\ pending[t] # {}
  BY DEF CallsInv, ItemRead
<1>2. UNCHANGED <<World, views, call, began, seen, chosen, calls>>
  BY DEF ItemRead
<1>3. ViewsOK'
  BY <1>1, <1>2, StillAdvances, ViewsStay DEF WorldOK
<1>4. Composing(t)
  BY <1>1, Waiting
<1>5. PICK rest \in SUBSET pending[t] : rest = pending[t] \ {"item"}
  OBVIOUS
<1>6. pending' = [pending EXCEPT ![t] = rest]
  BY <1>5 DEF ItemRead
<1>7. PICK flag \in {"yes", "no", "unknown"} :
        built' = [built EXCEPT ![t] = flag] /\ (flag = "unknown" \/ (flag = "yes" /\ docs[Release(t)] = "json"))
  BY DEF ItemRead
<1>8. Informed(t)'
  <2>1. built'[t] = flag
    BY <1>1, <1>7 DEF Tables
  <2>2. Release(t)' = Release(t) /\ <<index, docs>> \in Was(StatusTtl, began[t])'
    BY <1>2 DEF Release, Was, World
  <2> QED BY <1>7, <2>1, <2>2 DEF Informed
<1> QED
  BY <1>1, <1>2, <1>3, <1>4, <1>6, <1>7, <1>8, ComposingGoesOn

\* The steps that only end a call.
LEMMA LastKeeps ==
  ASSUME NEW t \in Tasks, CallsInv, ReadFails(t) \/ SearchRead(t) \/ Composed(t)
  PROVE  CallsInv'
<1>1. UNCHANGED <<World, views, calls>> /\ \E result : Ends(t, result)
  BY DEF ReadFails, SearchRead, Composed, Fails
<1>2. ViewsOK'
  BY <1>1, StillAdvances, ViewsStay DEF CallsInv, WorldOK
<1> QED
  BY <1>1, <1>2, EndsKeeps

\* The registry and time move on under the calls.
LEMMA RegistryKeeps ==
  ASSUME CallsInv, Publish \/ Yank \/ Build \/ Tick
  PROVE  CallsInv'
<1>1. UNCHANGED <<views, call, began, pending, seen, chosen, built>>
  BY DEF Publish, Yank, Build, Changes, Tick
<1>2. Advances
  BY RegistryAdvances, TickAdvances DEF CallsInv
<1>3. ViewsOK'
  BY <1>1, <1>2, ViewsStay DEF CallsInv
<1>4. \A t \in Tasks : CallOK(t)'
  BY <1>1, <1>2, CallStays DEF CallsInv, Same
<1>5. Tables'
  BY <1>1 DEF CallsInv, Tables
<1> QED
  BY <1>2, <1>3, <1>4, <1>5 DEF CallsInv, Advances

\* The invariant holds at first, and every step keeps it.
LEMMA CallsInit == Init => CallsInv
<1> SUFFICES ASSUME Init PROVE CallsInv
  OBVIOUS
<1>1. index \in Indexes /\ log = <<>> /\ clock = 0 /\ changes = 0 /\ calls = 0
  BY ToolConstants DEF Init, Indexes
<1>2. docs \in AllDocs
  <2>1. PICK build \in {"none", "html"} : docs = [v \in Versions |-> IF v \in Published THEN build ELSE "none"]
    BY DEF Init
  <2> QED BY <2>1 DEF AllDocs, Outcomes
<1>3. WorldOK
  BY <1>1, <1>2 DEF WorldOK
<1>4. ViewsOK
  BY DEF Init, ViewsOK
<1>5. Tables
  BY DEF Init, Tables
<1>6. \A t \in Tasks : CallOK(t)
  BY DEF Init, CallOK
<1> QED
  BY <1>3, <1>4, <1>5, <1>6 DEF CallsInv

\* Each step keeps it.
LEMMA CallsNext == CallsInv /\ [Next]_vars => CallsInv'
<1> SUFFICES ASSUME CallsInv, [Next]_vars PROVE CallsInv'
  OBVIOUS
<1>1. CASE UNCHANGED vars
  BY <1>1 DEF vars, CallsInv, WorldOK, ViewsOK, Tables, CallOK, Resolved, Informed, Release, Searching, Gathering,
              Indexing, Composing, Was, Dated, IndexHeld, MetadataHeld, StatusHeld
<1>2. ASSUME NEW t \in Tasks,
             \/ Call(t) \/ SearchRead(t) \/ IndexRead(t) \/ ReadFails(t) \/ MetadataRead(t) \/ ReadmeRead(t)
             \/ StatusRead(t) \/ ItemRead(t) \/ Composed(t)
      PROVE  CallsInv'
  BY <1>2, CallKeeps, IndexKeeps, MetadataKeeps, ReadmeKeeps, StatusKeeps, ItemKeeps, LastKeeps
<1>3. CASE Publish \/ Yank \/ Build \/ Tick
  BY <1>3, RegistryKeeps
<1> QED
  BY <1>1, <1>2, <1>3 DEF Next

-----------------------------------------------------------------------------
(* The theorems *)

\* Views and calls hold what was so, in every state.
THEOREM CallsInvariant == Spec => []CallsInv
  BY CallsInit, CallsNext, PTL DEF Spec

\* Tasks that serve no call wait for nothing; a version that was resolved is of the index
\* that was read.
THEOREM CallTypes == Spec => []TypeOK
<1>1. CallsInv => TypeOK
  <2> SUFFICES ASSUME CallsInv PROVE TypeOK
    OBVIOUS
  <2>1. ASSUME NEW t \in Tasks
        PROVE  /\ pending[t] \subseteq {"search", "index", "metadata", "readme", "status", "item"}
               /\ call[t] = Idle => pending[t] = {}
               /\ pending[t] \cap {"readme", "status", "item"} # {} => chosen[t] \in DOMAIN seen[t]
               /\ call[t] \in Requests \cup {Idle} /\ built[t] \in {"yes", "no", "unknown"}
    <3>1. CallOK(t)
      BY DEF CallsInv
    <3>2. pending[t] \subseteq {"search", "index", "metadata", "readme", "status", "item"}
      BY <3>1 DEF CallOK, Searching, Gathering, Indexing, Composing
    <3>3. pending[t] \cap {"readme", "status", "item"} # {} => chosen[t] \in DOMAIN seen[t]
      BY <3>1, Waiting, ReleaseIs DEF Composing
    <3> QED BY <3>1, <3>2, <3>3 DEF CallOK
  <2>2. call \in [Tasks -> Requests \cup {Idle}] /\ built \in [Tasks -> {"yes", "no", "unknown"}]
    BY <2>1 DEF CallsInv, Tables
  <2>3. index \in Seq(Entries) /\ docs \in [Versions -> {"none", "failed", "html", "json"}]
    BY DEF CallsInv, WorldOK, Indexes, AllDocs, Outcomes
  <2> QED BY <2>1, <2>2, <2>3 DEF TypeOK, CallsInv, WorldOK
<1> QED
  BY <1>1, CallsInvariant, PTL

\* An answer goes to the task whose call ends.
LEMMA AnswerOf ==
  ASSUME NEW t \in Tasks, NEW u \in Tasks, NEW result, Ends(u, result)
  PROVE  answer'[t] = (IF t = u THEN result ELSE NoAnswer) /\ UNCHANGED NoAnswer
  BY DEF Ends, Answers, NoAnswer

\* A call that returns does so by its own step.
LEMMA OwnStep ==
  ASSUME NEW t \in Tasks, CallsInv, Next, Returns(t)
  PROVE  IndexRead(t) \/ ReadFails(t) \/ SearchRead(t) \/ MetadataRead(t) \/ Composed(t)
<1>1. call'[t] # call[t] /\ call[t] # Idle
  BY DEF Returns
<1>2. ~(Publish \/ Yank \/ Build \/ Tick)
  BY <1>1 DEF Publish, Yank, Build, Changes, Tick
<1>3. PICK u \in Tasks :
             \/ Call(u) \/ SearchRead(u) \/ IndexRead(u) \/ ReadFails(u) \/ MetadataRead(u) \/ ReadmeRead(u)
             \/ StatusRead(u) \/ ItemRead(u) \/ Composed(u)
  BY <1>2 DEF Next
<1>4. u = t
  <2>1. UNCHANGED call \/ \E x : call' = [call EXCEPT ![u] = x]
    BY <1>3 DEF Call, SearchRead, IndexRead, ReadFails, MetadataRead, ReadmeRead, StatusRead, ItemRead, Composed,
                Fails, Ends
  <2> QED BY <1>1, <2>1 DEF CallsInv, Tables
<1>5. ~(Call(t) \/ ReadmeRead(t) \/ StatusRead(t) \/ ItemRead(t))
  BY <1>1 DEF Call, ReadmeRead, StatusRead, ItemRead
<1> QED
  BY <1>3, <1>4, <1>5

\* The version a tool speaks of is the one the ranking prefers at a moment of the call, or no
\* longer before it than an index is kept, and one is said to be missing only if there was
\* none to prefer (server.rs resolve, version.rs best).
THEOREM ToolsPickInTime == Spec => PicksInTime
<1>1. ASSUME CallsInv, Next, NEW t \in Tasks, Returns(t), call[t].tool \in {"dependencies", "documentation"}
      PROVE  \E moment \in Moments(t, IndexTtl) :
               LET pick == Preferred(moment.index, Parse(call[t].raw)) IN
               /\ answer'[t].kind = "ok" => pick = {answer'[t].version}
               /\ answer'[t].kind = "version_not_found" => pick = {}
  <2> DEFINE Right(m) ==
        /\ answer'[t].kind = "ok" => Preferred(m.index, Parse(call[t].raw)) = {answer'[t].version}
        /\ answer'[t].kind = "version_not_found" => Preferred(m.index, Parse(call[t].raw)) = {}
  <2>0. SUFFICES \E m \in Moments(t, IndexTtl) : Right(m)
    OBVIOUS
  <2>1. CallOK(t) /\ call[t] # Idle
    BY <1>1 DEF CallsInv, Returns
  <2>2. PICK selector : selector = SelectorOf(call[t])
    OBVIOUS
  <2>3. selector = Parse(call[t].raw) /\ selector.kind \in {"default", "exact", "matching"} /\ selector # Garbage
    BY <1>1, <2>1, <2>2, SelectorOfOne DEF CallOK
  <2>4. PICK now : now = [index |-> index, docs |-> docs, until |-> clock]
    OBVIOUS
  <2>5. now \in Moments(t, IndexTtl)
    BY <2>4 DEF Moments
  <2>6. ASSUME IndexRead(t) PROVE \E m \in Moments(t, IndexTtl) : Right(m)
    <3>1. PICK entries, position : entries = IndexView.value /\ position = Resolve(entries, selector)
      OBVIOUS
    <3>2. \/ entries = <<>> /\ Fails(t, MissingCrate(Absence))
          \/ entries # <<>> /\ position = Nowhere /\ Fails(t, Error("version_not_found"))
          \/ Fails(t, Error("invalid_version"))
          \/ position # Nowhere /\ Ends(t, [NoAnswer EXCEPT !.kind = "ok", !.version = entries[position].version])
      BY <1>1, <2>2, <2>6, <3>1 DEF IndexRead, Returns
    <3>3. entries \in Indexes /\ \E w \in Was(IndexLife(entries), began[t]) : w[1] = entries
      BY <1>1, <2>6, <3>1, IndexReadWas DEF IndexRead
    <3>4. entries # <<>> => \E m \in Moments(t, IndexTtl) : m.index = entries
      <4>1. SUFFICES ASSUME entries # <<>> PROVE \E m \in Moments(t, IndexTtl) : m.index = entries
        OBVIOUS
      <4>2. IndexLife(entries) = IndexTtl
        BY <4>1 DEF IndexLife
      <4> QED BY <3>3, <4>2, WasAtMoments
    <3>5. CASE entries = <<>> /\ Fails(t, MissingCrate(Absence))
      <4>1. answer'[t] = ErrorData(Error("crate_not_found"))
        BY <3>5, AnswerOf DEF Fails, MissingCrate
      <4>2. answer'[t].kind = "crate_not_found"
        BY <4>1 DEF ErrorData, NoAnswer, Error
      <4> QED BY <2>5, <4>2
    <3>6. CASE entries # <<>> /\ position = Nowhere /\ Fails(t, Error("version_not_found"))
      <4>1. answer'[t] = ErrorData(Error("version_not_found"))
        BY <3>6, AnswerOf DEF Fails
      <4>2. answer'[t].kind = "version_not_found"
        BY <4>1 DEF ErrorData, NoAnswer, Error
      <4>3. Preferred(entries, selector) = {}
        <5>1. Resolve(entries, selector) = Nowhere /\ entries \in Indexes
          BY <3>1, <3>3, <3>6
        <5> QED BY <2>3, <5>1, ResolvesPreferred
      <4> QED BY <2>3, <3>4, <3>6, <4>2, <4>3
    <3>7. CASE position # Nowhere /\ Ends(t, [NoAnswer EXCEPT !.kind = "ok", !.version = entries[position].version])
      <4>1. answer'[t] = [NoAnswer EXCEPT !.kind = "ok", !.version = entries[position].version]
        BY <3>7, AnswerOf
      <4>2. answer'[t].kind = "ok" /\ answer'[t].version = entries[position].version
        BY <4>1 DEF NoAnswer
      <4>3. Preferred(entries, selector) = {entries[position].version} /\ position \in DOMAIN entries
        BY <2>3, <3>1, <3>3, <3>7, ResolvesPreferred
      <4>4. entries # <<>>
        BY <4>3
      <4> QED BY <2>3, <3>4, <4>2, <4>3, <4>4
    <3>8. CASE Fails(t, Error("invalid_version"))
      <4>1. answer'[t] = ErrorData(Error("invalid_version"))
        BY <3>8, AnswerOf DEF Fails
      <4>2. answer'[t].kind = "invalid_version"
        BY <4>1 DEF ErrorData, NoAnswer, Error
      <4> QED BY <2>5, <4>2
    <3> QED BY <3>2, <3>5, <3>6, <3>7, <3>8
  <2>7. ASSUME ReadFails(t) PROVE Right(now)
    <3>1. PICK fault \in Faults : Fails(t, fault)
      BY <2>7, FaultsAre DEF ReadFails
    <3>2. answer'[t] = ErrorData(fault)
      BY <3>1, AnswerOf DEF Fails
    <3>3. answer'[t].kind = fault.kind
      BY <3>2 DEF ErrorData, NoAnswer
    <3>4. fault.kind \notin {"ok", "version_not_found"}
      BY FaultsAre DEF FaultKinds
    <3> QED BY <3>3, <3>4
  <2>8. ~(SearchRead(t) \/ MetadataRead(t))
    <3>1. pending[t] # {} => ~("search" \in pending[t]) /\ ~("metadata" \in pending[t])
      BY <1>1, <2>1, Waiting DEF Searching, Gathering
    <3> QED BY <3>1 DEF SearchRead, MetadataRead
  <2>9. ASSUME Composed(t) PROVE \E m \in Moments(t, IndexTtl) : Right(m)
    <3>1. pending[t] = {} /\ call[t].tool # "info"
      BY <1>1, <2>9 DEF Composed
    <3>2. Composing(t)
      BY <1>1, <2>1, <3>1 DEF CallOK, Searching, Gathering, Indexing
    <3>3. Ends(t, [NoAnswer EXCEPT !.kind = "ok", !.version = Release(t), !.built = built[t]])
      BY <2>9, <3>1 DEF Composed
    <3>4. answer'[t] = [NoAnswer EXCEPT !.kind = "ok", !.version = Release(t), !.built = built[t]]
      BY <3>3, AnswerOf
    <3>5. answer'[t].kind = "ok" /\ answer'[t].version = Release(t)
      BY <3>4 DEF NoAnswer
    <3>6. Preferred(seen[t], Parse(call[t].raw)) = {Release(t)}
      BY <2>2, <2>3, <3>2, ReleaseIs DEF Composing
    <3>7. \E m \in Moments(t, IndexTtl) : m.index = seen[t]
      BY <3>2, WasAtMoments DEF Composing, Resolved
    <3> QED BY <3>5, <3>6, <3>7
  <2> QED BY <1>1, <2>5, <2>6, <2>7, <2>8, <2>9, OwnStep
<1>2. CallsInv /\ [Next]_vars =>
        [\A t \in Tasks : Returns(t) /\ call[t].tool \in {"dependencies", "documentation"} =>
           \E moment \in Moments(t, IndexTtl) :
             LET pick == Preferred(moment.index, Parse(call[t].raw)) IN
             /\ answer'[t].kind = "ok" => pick = {answer'[t].version}
             /\ answer'[t].kind = "version_not_found" => pick = {}]_vars
  BY <1>1
<1> QED
  BY <1>2, CallsInvariant, PTL DEF Spec, PicksInTime

\* The tools agree with one another, whatever the requirement and the index: the first
\* release a list has is what the same requirement resolves to, and the list starts with the
\* newest where nothing is left out (server.rs get_crate_versions, newest_live_version,
\* CrateIndex::resolve).
THEOREM ToolsAgree == Spec => AnswersCohere
<1>1. ASSUME CallsInv, Next, NEW t \in Tasks, Returns(t), call[t].tool = "versions", answer'[t].kind = "ok"
      PROVE  Coheres(views'.index.value, call[t], answer'[t])
  <2>1. CallOK(t) /\ call[t] # Idle
    BY <1>1 DEF CallsInv, Returns
  <2>2. pending[t] = {"index"} /\ call[t].limit \in Nat \ {0}
    <3>1. call[t].limit \in 1 .. MaxLimit /\ MaxLimit \in Nat
      BY <1>1, <2>1, ToolConstants DEF CallOK
    <3> QED BY <1>1, <2>1, <3>1 DEF CallOK, Searching, Gathering, Indexing, Composing
  <2>3. ~ReadFails(t)
    <3>1. SUFFICES ASSUME ReadFails(t) PROVE FALSE
      OBVIOUS
    <3>2. PICK fault \in Faults : Fails(t, fault)
      BY <3>1, FaultsAre DEF ReadFails
    <3>3. answer'[t] = ErrorData(fault)
      BY <3>2, AnswerOf DEF Fails
    <3>4. answer'[t].kind = fault.kind
      BY <3>3 DEF ErrorData, NoAnswer
    <3>5. fault.kind # "ok"
      BY FaultsAre DEF FaultKinds
    <3> QED BY <1>1, <3>4, <3>5
  <2>4. IndexRead(t)
    BY <1>1, <2>2, <2>3, OwnStep DEF SearchRead, MetadataRead, Composed
  <2>5. PICK entries : entries = IndexView.value
    OBVIOUS
  <2>6. entries \in Indexes
    BY <1>1, <2>2, <2>5, IndexReadWas
  <2>7. views'.index.value = entries
    <3>1. views' = [views EXCEPT !.index = IndexView]
      BY <2>4 DEF IndexRead
    <3>2. views = [index |-> views.index, metadata |-> views.metadata, status |-> views.status]
      BY <1>1 DEF CallsInv, ViewsOK
    <3>3. views'.index = IndexView
      BY <3>1, <3>2
    <3> QED BY <2>5, <3>3
  <2>8. Fails(t, MissingCrate(Absence)) \/ Ends(t, VersionList(entries, call[t]))
    BY <1>1, <2>4, <2>5 DEF IndexRead, Returns
  <2>9. CASE Fails(t, MissingCrate(Absence))
    <3>1. answer'[t] = ErrorData(Error("crate_not_found"))
      BY <2>9, AnswerOf DEF Fails, MissingCrate
    <3>2. answer'[t].kind = "crate_not_found"
      BY <3>1 DEF ErrorData, NoAnswer, Error
    <3> QED BY <1>1, <3>2
  <2>10. CASE Ends(t, VersionList(entries, call[t]))
    <3>1. answer'[t] = VersionList(entries, call[t])
      BY <2>10, AnswerOf
    <3>2. SelectorOf(call[t]).kind # "exact"
      BY <1>1 DEF SelectorOf, ParseRequirement, Default, Garbage
    <3> QED BY <2>2, <2>6, <2>7, <3>1, <3>2, ListsCohere
  <2> QED BY <2>8, <2>9, <2>10
<1>2. CallsInv /\ [Next]_vars =>
        [\A t \in Tasks : Returns(t) /\ call[t].tool = "versions" /\ answer'[t].kind = "ok" =>
           LET entries == views'.index.value
               given == answer'[t]
               request == call[t]
               listed == given.list
               first == IF listed = <<>> THEN Nowhere ELSE listed[1]
               releases == {n \in DOMAIN listed : IsStable(entries[listed[n]].version)}
               pick == IF SelectorOf(request).kind = "default" THEN given.latest
                       ELSE Resolve(entries, SelectorOf(request))
               release == pick # Nowhere /\ IsStable(entries[pick].version)
           IN /\ \A i, j \in DOMAIN listed :
                   i < j => Below(entries[listed[j]].version, entries[listed[i]].version)
              /\ ~request.yanked =>
                   /\ \A n \in releases : (\A m \in releases : n <= m) => listed[n] = pick
                   /\ releases = {} /\ release => given.truncated
                   /\ releases = {} /\ ~release /\ request.prerelease => first = pick
              /\ ~request.yanked /\ request.prerelease /\ SelectorOf(request).kind = "default" =>
                   first = given.newest \/ (first = Nowhere /\ given.latest = Nowhere)]_vars
  BY <1>1 DEF Coheres, Leads, Leading
<1> QED
  BY <1>2, CallsInvariant, PTL DEF Spec, AnswersCohere

\* What a call says of a build was so at a moment of the call (server.rs
\* get_crate_documentation).
THEOREM BuildFlagsHonest == Spec => BuildFlagHonest
<1> DEFINE Flagged(t) ==
      LET was(outcomes, age) ==
            \E moment \in Moments(t, age) : moment.docs[answer'[t].version] \in outcomes
      IN \/ answer'[t].built = "unknown"
         \/ answer'[t].built = "yes" /\ was({"html", "json"}, StatusTtl)
         \/ answer'[t].built = "no" /\ (was({"failed"}, StatusTtl) \/ was({"none"}, NegativeTtl))
<1>1. ASSUME CallsInv, Next, NEW t \in Tasks, Returns(t) PROVE Flagged(t)
  <2>1. CallOK(t) /\ call[t] # Idle
    BY <1>1 DEF CallsInv, Returns
  <2>2. ASSUME NEW result, Ends(t, result), result.built = "unknown" PROVE Flagged(t)
    <3>1. answer'[t].built = "unknown"
      BY <2>2, AnswerOf
    <3> QED BY <3>1
  <2>3. \A error : ErrorData(error).built = "unknown"
    BY DEF ErrorData, NoAnswer
  <2>4. ASSUME IndexRead(t) PROVE Flagged(t)
    <3>1. \/ \E error : Ends(t, ErrorData(error))
          \/ Ends(t, VersionList(IndexView.value, call[t]))
          \/ \E v : Ends(t, [NoAnswer EXCEPT !.kind = "ok", !.version = v])
      BY <1>1, <2>4 DEF IndexRead, Returns, Fails
    <3>2. VersionList(IndexView.value, call[t]).built = "unknown"
      BY DEF VersionList, Info, NoAnswer
    <3>3. \A v : [NoAnswer EXCEPT !.kind = "ok", !.version = v].built = "unknown"
      BY DEF NoAnswer
    <3> HIDE DEF Flagged
    <3> QED BY <2>2, <2>3, <3>1, <3>2, <3>3
  <2>5. ASSUME ReadFails(t) \/ MetadataRead(t) PROVE Flagged(t)
    <3>1. \E error : Ends(t, ErrorData(error))
      BY <1>1, <2>5 DEF ReadFails, MetadataRead, Returns, Fails
    <3> HIDE DEF Flagged
    <3> QED BY <2>2, <2>3, <3>1
  <2>6. ASSUME SearchRead(t) PROVE Flagged(t)
    <3>1. [NoAnswer EXCEPT !.kind = "ok"].built = "unknown"
      BY DEF NoAnswer
    <3> HIDE DEF Flagged
    <3> QED BY <2>2, <2>6, <3>1 DEF SearchRead
  <2>7. ASSUME Composed(t), call[t].tool = "info" PROVE Flagged(t)
    <3>1. Info(seen[t]).built = "unknown"
      BY DEF Info, NoAnswer
    <3> HIDE DEF Flagged
    <3> QED BY <2>2, <2>7, <3>1 DEF Composed
  <2>8. ASSUME Composed(t), call[t].tool # "info" PROVE Flagged(t)
    <3>1. Composing(t)
      BY <2>1, <2>8 DEF Composed, CallOK, Searching, Gathering, Indexing
    <3>2. Ends(t, [NoAnswer EXCEPT !.kind = "ok", !.version = Release(t), !.built = built[t]])
      BY <2>8 DEF Composed
    <3>3. answer'[t] = [NoAnswer EXCEPT !.kind = "ok", !.version = Release(t), !.built = built[t]]
      BY <3>2, AnswerOf
    <3>4. answer'[t].version = Release(t) /\ answer'[t].built = built[t]
      BY <3>3 DEF NoAnswer
    <3>5. CASE built[t] = "yes"
      <4>1. PICK w \in Was(StatusTtl, began[t]) : w[2][Release(t)] \in {"html", "json"}
        BY <3>1, <3>5 DEF Composing, Informed
      <4> QED BY <3>4, <3>5, <4>1, WasAtMoments
    <3>6. CASE built[t] = "no"
      <4>1. \/ \E w \in Was(StatusTtl, began[t]) : w[2][Release(t)] = "failed"
            \/ \E w \in Was(NegativeTtl, began[t]) : w[2][Release(t)] = "none"
        BY <3>1, <3>6 DEF Composing, Informed
      <4>2. \/ \E m \in Moments(t, StatusTtl) : m.docs[Release(t)] = "failed"
            \/ \E m \in Moments(t, NegativeTtl) : m.docs[Release(t)] = "none"
        BY <4>1, WasAtMoments
      <4> QED BY <3>4, <3>6, <4>2
    <3> QED BY <2>1, <3>4, <3>5, <3>6 DEF CallOK
  <2> QED BY <1>1, <2>4, <2>5, <2>6, <2>7, <2>8, OwnStep
<1>2. CallsInv /\ [Next]_vars => [\A t \in Tasks : Returns(t) => Flagged(t)]_vars
  BY <1>1
<1> QED
  BY <1>2, CallsInvariant, PTL DEF Spec, BuildFlagHonest

\* An error says no more than what happened (error.rs category and retryable, lib.rs
\* missing_crate).
THEOREM ToolErrorsHonest == Spec => ErrorsHonest
<1> DEFINE Refuses(given) == given.code # "none" /\ calls' > calls => given.code = "INVALID_PARAMS"
           TooLong(t) == /\ call[t] # Idle /\ call[t].tool = "documentation"
                         /\ \E moment \in Moments(t, IndexTtl) :
                              \E v \in Overlong : Preferred(moment.index, Parse(call[t].raw)) = {v}
           Blames(t, given) == given.code = "INVALID_PARAMS" => calls' > calls \/ TooLong(t)
           Missing(t, given) == given.kind = "crate_not_found" => \E moment \in Moments(t, NegativeTtl) : moment.index = <<>>
           Fair(t, given) == Refuses(given) /\ Blames(t, given) /\ Missing(t, given)
<1>1. ASSUME NEW t PROVE Fair(t, NoAnswer)
  BY DEF NoAnswer
<1>2. ASSUME NEW t, NEW given, calls' = calls, CallsInv, given.kind = "ok", given.code = "none" PROVE Fair(t, given)
  BY <1>2 DEF CallsInv, WorldOK
<1>3. ASSUME NEW t, NEW error, calls' = calls, CallsInv, Category(error) = "upstream", error.kind \in FaultKinds
      PROVE  Fair(t, ErrorData(error))
  <2>1. ErrorData(error).kind = error.kind /\ ErrorData(error).code = "INTERNAL_ERROR"
    BY <1>3 DEF ErrorData, NoAnswer
  <2> QED BY <1>3, <2>1 DEF CallsInv, WorldOK, FaultKinds
<1>4. ASSUME NEW t, NEW kind \in {"crate_not_found", "version_not_found"}, calls' = calls, CallsInv,
             kind = "crate_not_found" => \E moment \in Moments(t, NegativeTtl) : moment.index = <<>>
      PROVE  Fair(t, ErrorData(Error(kind)))
  <2>1. Error(kind).kind = kind /\ Category(Error(kind)) = "not found"
    BY DEF Error, Category
  <2>2. ErrorData(Error(kind)).kind = kind /\ ErrorData(Error(kind)).code = "RESOURCE_NOT_FOUND"
    BY <2>1 DEF ErrorData, NoAnswer
  <2> QED BY <1>4, <2>2 DEF CallsInv, WorldOK
<1>5. ASSUME NEW t, NEW kind \in {"invalid_argument", "invalid_version", "invalid_crate_name"}, CallsInv,
             calls' = calls + 1 \/ (calls' = calls /\ TooLong(t))
      PROVE  Fair(t, ErrorData(Error(kind)))
  <2>1. Error(kind).kind = kind /\ Category(Error(kind)) = "invalid input"
    BY DEF Error, Category
  <2>2. ErrorData(Error(kind)).kind = kind /\ ErrorData(Error(kind)).code = "INVALID_PARAMS"
    BY <2>1 DEF ErrorData, NoAnswer
  <2> QED BY <1>5, <2>2 DEF CallsInv, WorldOK
<1> HIDE DEF Refuses, TooLong, Blames, Missing
<1>6. ASSUME NEW t \in Tasks, NEW u \in Tasks, NEW result, Ends(u, result), Fair(u, result)
      PROVE  Fair(t, answer'[t])
  <2>1. answer'[t] = result \/ answer'[t] = NoAnswer
    BY <1>6, AnswerOf
  <2>2. answer'[t] = result => t = u \/ result = NoAnswer
    BY <1>6, AnswerOf
  <2> QED BY <1>1, <1>6, <2>1, <2>2
<1>7. ASSUME NEW t \in Tasks, Silent PROVE Fair(t, answer'[t])
  BY <1>1, <1>7 DEF Silent, NoAnswer
<1>8. ASSUME CallsInv, NEW t \in Tasks, NEW u \in Tasks, Call(u) PROVE Fair(t, answer'[t])
  <2>1. PICK request \in Requests :
          Silent \/ (Complaint(request) # "none" /\ Answers(u, ErrorData(Error(Complaint(request)))))
    BY <1>8 DEF Call
  <2>2. CASE Complaint(request) # "none" /\ Answers(u, ErrorData(Error(Complaint(request))))
    <3>1. PICK kind \in {"invalid_argument", "invalid_version", "invalid_crate_name"} : kind = Complaint(request)
      BY <2>2 DEF Complaint
    <3>2. calls' = calls + 1
      BY <1>8 DEF Call
    <3>3. Fair(t, ErrorData(Error(kind)))
      BY <1>5, <1>8, <3>2
    <3>4. answer'[t] = ErrorData(Error(kind)) \/ answer'[t] = NoAnswer
      BY <2>2, <3>1 DEF Answers, NoAnswer
    <3> QED BY <1>1, <3>3, <3>4
  <2> QED BY <1>7, <2>1, <2>2
<1>9. ASSUME CallsInv, NEW t \in Tasks, NEW u \in Tasks, IndexRead(u) PROVE Fair(t, answer'[t])
  <2>1. calls' = calls /\ pending[u] # {}
    BY <1>9 DEF IndexRead
  <2>2. \/ Silent
        \/ IndexView.value = <<>> /\ Fails(u, MissingCrate(Absence))
        \/ Ends(u, VersionList(IndexView.value, call[u]))
        \/ Fails(u, Error("version_not_found"))
        \/ TooLong(u) /\ Fails(u, Error("invalid_version"))
        \/ \E v : Ends(u, [NoAnswer EXCEPT !.kind = "ok", !.version = v])
    <3>1. PICK entries, position : entries = IndexView.value /\ position = Resolve(entries, SelectorOf(call[u]))
      OBVIOUS
    <3>2. SUFFICES ASSUME call[u].tool = "documentation", position # Nowhere, entries[position].version \in Overlong
                   PROVE  TooLong(u)
      BY <1>9, <3>1 DEF IndexRead
    <3>3. call[u] # Idle /\ SelectorOf(call[u]) # Garbage
      BY <1>9, <2>1, Waiting DEF CallsInv
    <3>4. SelectorOf(call[u]) = Parse(call[u].raw) /\ SelectorOf(call[u]).kind \in {"default", "exact", "matching"}
      BY <3>2, <3>3, SelectorOfOne
    <3>5. entries \in Indexes /\ \E w \in Was(IndexLife(entries), began[u]) : w[1] = entries
      BY <1>9, <2>1, <3>1, IndexReadWas
    <3>6. position \in DOMAIN entries /\ Preferred(entries, Parse(call[u].raw)) = {entries[position].version}
      BY <3>1, <3>2, <3>4, <3>5, ResolvesPreferred
    <3>7. IndexLife(entries) = IndexTtl
      BY <3>6 DEF IndexLife
    <3>8. PICK m \in Moments(u, IndexTtl) : m.index = entries
      BY <3>5, <3>7, WasAtMoments
    <3> QED BY <3>2, <3>3, <3>6, <3>8 DEF TooLong
  <2>3. CASE IndexView.value = <<>> /\ Fails(u, MissingCrate(Absence))
    <3>1. PICK kind \in {"crate_not_found", "version_not_found"} : kind = "crate_not_found"
      OBVIOUS
    <3>2. Ends(u, ErrorData(Error(kind)))
      BY <2>3, <3>1 DEF Fails, MissingCrate
    <3>3. \E moment \in Moments(u, NegativeTtl) : moment.index = <<>>
      <4>1. \E w \in Was(NegativeTtl, began[u]) : w[1] = <<>>
        BY <1>9, <2>1, <2>3, IndexReadWas DEF IndexLife
      <4> QED BY <4>1, WasAtMoments
    <3>4. Fair(u, ErrorData(Error(kind)))
      BY <1>4, <1>9, <2>1, <3>3
    <3> QED BY <1>6, <3>2, <3>4
  <2>4. CASE Ends(u, VersionList(IndexView.value, call[u]))
    <3>1. PICK given : given = VersionList(IndexView.value, call[u])
      OBVIOUS
    <3>2. given.kind = "ok" /\ given.code = "none"
      BY <3>1 DEF VersionList, Info, NoAnswer
    <3>3. Fair(u, given)
      BY <1>2, <1>9, <2>1, <3>2
    <3> QED BY <1>6, <2>4, <3>1, <3>3
  <2>5. CASE Fails(u, Error("version_not_found"))
    <3>1. PICK kind \in {"crate_not_found", "version_not_found"} : kind = "version_not_found"
      OBVIOUS
    <3>2. Ends(u, ErrorData(Error(kind)))
      BY <2>5, <3>1 DEF Fails
    <3>3. Fair(u, ErrorData(Error(kind)))
      BY <1>4, <1>9, <2>1, <3>1
    <3> QED BY <1>6, <3>2, <3>3
  <2>6. ASSUME NEW v, Ends(u, [NoAnswer EXCEPT !.kind = "ok", !.version = v]) PROVE Fair(t, answer'[t])
    <3>1. PICK given : given = [NoAnswer EXCEPT !.kind = "ok", !.version = v]
      OBVIOUS
    <3>2. given.kind = "ok" /\ given.code = "none"
      BY <3>1 DEF NoAnswer
    <3>3. Fair(u, given)
      BY <1>2, <1>9, <2>1, <3>2
    <3> QED BY <1>6, <2>6, <3>1, <3>3
  <2>7. CASE TooLong(u) /\ Fails(u, Error("invalid_version"))
    <3>1. PICK kind \in {"invalid_argument", "invalid_version", "invalid_crate_name"} : kind = "invalid_version"
      OBVIOUS
    <3>2. Ends(u, ErrorData(Error(kind)))
      BY <2>7, <3>1 DEF Fails
    <3>3. Fair(u, ErrorData(Error(kind)))
      BY <1>5, <1>9, <2>1, <2>7
    <3> QED BY <1>6, <3>2, <3>3
  <2> QED BY <1>7, <2>2, <2>3, <2>4, <2>5, <2>6, <2>7
<1>10. ASSUME CallsInv, NEW t \in Tasks, NEW u \in Tasks, ReadFails(u) PROVE Fair(t, answer'[t])
  <2>1. PICK fault \in Faults : Ends(u, ErrorData(fault))
    BY <1>10, FaultsAre DEF ReadFails, Fails
  <2>2. calls' = calls
    BY <1>10 DEF ReadFails
  <2>3. Fair(u, ErrorData(fault))
    BY <1>3, <1>10, <2>2, FaultsAre
  <2> QED BY <1>6, <2>1, <2>3
<1>11. ASSUME CallsInv, NEW t \in Tasks, NEW u \in Tasks, MetadataRead(u) PROVE Fair(t, answer'[t])
  <2>1. calls' = calls /\ pending[u] # {}
    BY <1>11 DEF MetadataRead
  <2>2. CASE ~MetadataView.value /\ Fails(u, MissingCrate(Absence))
    <3>1. PICK kind \in {"crate_not_found", "version_not_found"} : kind = "crate_not_found"
      OBVIOUS
    <3>2. Ends(u, ErrorData(Error(kind)))
      BY <2>2, <3>1 DEF Fails, MissingCrate
    <3>3. began[u] \in Nat /\ began[u] <= clock
      BY <1>11, <2>1, Waiting DEF CallsInv
    <3>4. \E w \in Was(NegativeTtl, began[u]) : w[1] = <<>>
      <4>1. \E w \in Was(MetadataLife(MetadataView.value), began[u]) : MetadataView.value <=> w[1] # <<>>
        BY <1>11, <3>3, MetadataViewIs DEF CallsInv
      <4>2. MetadataLife(MetadataView.value) = NegativeTtl
        BY <2>2 DEF MetadataLife
      <4> QED BY <2>2, <4>1, <4>2
    <3>5. \E moment \in Moments(u, NegativeTtl) : moment.index = <<>>
      BY <3>4, WasAtMoments
    <3>6. Fair(u, ErrorData(Error(kind)))
      BY <1>4, <1>11, <2>1, <3>5
    <3> QED BY <1>6, <3>2, <3>6
  <2> QED BY <1>7, <1>11, <2>2 DEF MetadataRead
<1>12. ASSUME CallsInv, NEW t \in Tasks, NEW u \in Tasks, SearchRead(u) \/ Composed(u) PROVE Fair(t, answer'[t])
  <2>1. calls' = calls
    BY <1>12 DEF SearchRead, Composed
  <2>2. PICK given : Ends(u, given) /\ given.kind = "ok" /\ given.code = "none"
    <3>1. [NoAnswer EXCEPT !.kind = "ok"].kind = "ok" /\ [NoAnswer EXCEPT !.kind = "ok"].code = "none"
      BY DEF NoAnswer
    <3>2. Info(seen[u]).kind = "ok" /\ Info(seen[u]).code = "none"
      BY DEF Info, NoAnswer
    <3>3. PICK told : told = [NoAnswer EXCEPT !.kind = "ok", !.version = Release(u), !.built = built[u]]
      OBVIOUS
    <3>4. told.kind = "ok" /\ told.code = "none"
      BY <3>3 DEF NoAnswer
    <3>5. \/ Ends(u, [NoAnswer EXCEPT !.kind = "ok"]) \/ Ends(u, Info(seen[u])) \/ Ends(u, told)
      BY <1>12, <3>3 DEF SearchRead, Composed
    <3> QED BY <3>1, <3>2, <3>4, <3>5
  <2>3. Fair(u, given)
    BY <1>2, <1>12, <2>1, <2>2
  <2> QED BY <1>6, <2>2, <2>3
<1>13. ASSUME CallsInv, Next, NEW t \in Tasks PROVE Fair(t, answer'[t])
  <2>1. CASE Publish \/ Yank \/ Build \/ Tick
    BY <1>7, <2>1 DEF Publish, Yank, Build, Changes, Tick
  <2>2. ASSUME NEW u \in Tasks, ReadmeRead(u) \/ StatusRead(u) \/ ItemRead(u) PROVE Fair(t, answer'[t])
    BY <1>7, <2>2 DEF ReadmeRead, StatusRead, ItemRead
  <2> QED BY <1>8, <1>9, <1>10, <1>11, <1>12, <1>13, <2>1, <2>2 DEF Next
<1>14. CallsInv /\ [Next]_vars =>
        [\A t \in Tasks :
           LET given == answer'[t] IN
           /\ given.code # "none" /\ calls' > calls => given.code = "INVALID_PARAMS"
           /\ given.code = "INVALID_PARAMS" =>
                \/ calls' > calls
                \/ /\ call[t] # Idle /\ call[t].tool = "documentation"
                   /\ \E moment \in Moments(t, IndexTtl) :
                        \E v \in Overlong : Preferred(moment.index, Parse(call[t].raw)) = {v}
           /\ given.kind = "crate_not_found" =>
                \E moment \in Moments(t, NegativeTtl) : moment.index = <<>>]_vars
  BY <1>13 DEF Refuses, TooLong, Blames, Missing
<1> QED
  BY <1>14, CallsInvariant, PTL DEF Spec, ErrorsHonest
=============================================================================
