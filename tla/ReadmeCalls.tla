---------------------------- MODULE ReadmeCalls ----------------------------
(***************************************************************************)
(* One crate's README, from the request to what a client of the server is  *)
(* shown: Client::readme (lib.rs) over a paced fetch (PacedFetch.tla), the *)
(* Markdown memoized beside the cached body (cache.rs: derive), the        *)
(* caller's own budget, and the frame of the server.                       *)
(*                                                                         *)
(* The gate and the cache are the least they have to be here (Fetcher.tla  *)
(* has their steps): one caller fetches, the others wait and find what it  *)
(* found.  A rendered README does not change, so a body once cached stays; *)
(* an absence is forgotten after a while.  The cache may also hold a body  *)
(* from earlier calls, of any page.                                        *)
(***************************************************************************)
EXTENDS PacedFetch, ReadmeText

CONSTANTS
  Pages,        \* pages the cache may hold at first
  ServedPages,  \* pages the CDN may serve
  ErrorBodies,  \* what an error may say
  Budgets       \* max_readme_chars

PageType == [converted : BOOLEAN, text : Texts]

ASSUME ReadmeConstants ==
  /\ Pages \cup ServedPages \subseteq PageType
  /\ ErrorBodies \subseteq [messages : Texts, text : Texts]
  /\ Budgets \subseteq Nat

VARIABLES
  page,    \* the cached body, NoPage, or Absent
  memo,    \* its Markdown, once some call has derived it
  place,   \* where each call of readme is
  budget,  \* its budget
  own,     \* the Markdown it has derived itself
  answer   \* what the call that ends in this step comes to

readVars == <<page, memo, place, budget, own, answer>>
vars == <<pacedVars, readVars>>

NoPage == [kind |-> "no page"]
Absent == [kind |-> "absent"]
Page(p) == [kind |-> "page", page |-> p]
NoMemo == <<"no memo">>

NoAnswer == [kind |-> "none"]
Refused == [kind |-> "refused"]
Unavailable == [kind |-> "unavailable"]
ErrorAnswer(body) == [kind |-> "error", body |-> body, detail |-> DetailOf(body)]
Readme(text, given) == [kind |-> "readme", text |-> text, budget |-> given]

Init ==
  /\ PacedInit
  /\ page \in {NoPage} \cup {Page(p) : p \in Pages}
  /\ memo = NoMemo
  /\ place = [t \in Tasks |-> "idle"]
  /\ budget = [t \in Tasks |-> 0]
  /\ own = [t \in Tasks |-> NoMemo]
  /\ answer = NoAnswer

\* Nothing is read in this step.
Quiet == answer' = NoAnswer /\ UNCHANGED <<page, memo, place, budget, own>>

Leave(t, result) ==
  /\ place' = [place EXCEPT ![t] = "idle"]
  /\ answer' = result
  /\ own' = [own EXCEPT ![t] = NoMemo]
  /\ budget' = [budget EXCEPT ![t] = 0]

\* A budget of zero is refused before anything is asked.
Ask(t) ==
  /\ place[t] = "idle"
  /\ \E chars \in Budgets :
       IF chars = 0
         THEN Leave(t, Refused)
         ELSE /\ place' = [place EXCEPT ![t] = "get"]
              /\ budget' = [budget EXCEPT ![t] = chars]
              /\ answer' = NoAnswer
              /\ UNCHANGED own
  /\ UNCHANGED <<pacedVars, page, memo>>

\* Nothing is cached and nobody else is fetching.
Begin(t) ==
  /\ place[t] = "get"
  /\ page = NoPage
  /\ \A u \in Tasks : pc[u] = "idle"
  /\ Fetch(t)
  /\ place' = [place EXCEPT ![t] = "fetch"]
  /\ answer' = NoAnswer
  /\ UNCHANGED <<page, memo, budget, own>>

\* Fetcher::get and missing_readme, by what the chain came to.  A body that is
\* neither a success nor an absence is an error and is not kept; nor is a 304 that
\* nobody asked for anything.
Settle(t) ==
  /\ Collect(t)
  /\ LET o == outcome[t] IN
     \/ /\ o.kind = "body" /\ o.status \in 200 .. 299
        /\ \E p \in ServedPages : page' = Page(p)
        /\ memo' = NoMemo
        /\ place' = [place EXCEPT ![t] = "get"]
        /\ answer' = NoAnswer
        /\ UNCHANGED <<budget, own>>
     \/ /\ o.kind = "absent"
        /\ page' = Absent
        /\ place' = [place EXCEPT ![t] = "get"]
        /\ answer' = NoAnswer
        /\ UNCHANGED <<memo, budget, own>>
     \/ /\ o.kind = "body" /\ o.status = 403
        /\ Leave(t, Unavailable)
        /\ UNCHANGED <<page, memo>>
     \/ /\ o.kind \in {"error", "unchanged"} \/ (o.kind = "body" /\ o.status \notin 200 .. 299 \cup {403})
        /\ \E body \in ErrorBodies : Leave(t, ErrorAnswer(body))
        /\ UNCHANGED <<page, memo>>

FoundAbsent(t) ==
  /\ place[t] = "get"
  /\ page = Absent
  /\ Leave(t, Unavailable)
  /\ UNCHANGED <<pacedVars, page, memo>>

\* The answer of a call with this Markdown (Client::readme, get_crate_documentation).
Answer(t, markdown) == Leave(t, Readme(Frame(Shown(markdown, budget[t])), budget[t]))

\* CachedBody::derive finds the memo.
Remembered(t) ==
  /\ place[t] = "get"
  /\ page.kind = "page"
  /\ memo # NoMemo
  /\ Answer(t, memo)
  /\ UNCHANGED <<pacedVars, page, memo>>

\* Mutant of Derive: what is memoized fits this caller's budget.
DeriveShown(t) ==
  /\ place[t] = "get"
  /\ page.kind = "page"
  /\ memo = NoMemo
  /\ own' = [own EXCEPT ![t] = Shown(ToMarkdown(page.page), budget[t])]
  /\ place' = [place EXCEPT ![t] = "memoize"]
  /\ answer' = NoAnswer
  /\ UNCHANGED <<pacedVars, page, memo, budget>>

\* It does not; several callers may be at it.
Derive(t) ==
  /\ place[t] = "get"
  /\ page.kind = "page"
  /\ memo = NoMemo
  /\ own' = [own EXCEPT ![t] = ToMarkdown(page.page)]
  /\ place' = [place EXCEPT ![t] = "memoize"]
  /\ answer' = NoAnswer
  /\ UNCHANGED <<pacedVars, page, memo, budget>>

\* The first memo stays; each caller uses its own.
Memoize(t) ==
  /\ place[t] = "memoize"
  /\ memo' = IF memo = NoMemo THEN own[t] ELSE memo
  /\ Answer(t, own[t])
  /\ UNCHANGED <<pacedVars, page>>

\* The caller is dropped at an await: at the gate, or in the fetch.
Drop(t) ==
  /\ place[t] \in {"get", "fetch"}
  /\ \/ place[t] = "fetch" /\ Cancel(t)
     \/ place[t] = "get" /\ UNCHANGED pacedVars
  /\ Leave(t, NoAnswer)
  /\ UNCHANGED <<page, memo>>

\* ttl.negative is over.
Forget ==
  /\ page = Absent
  /\ page' = NoPage
  /\ answer' = NoAnswer
  /\ UNCHANGED <<pacedVars, memo, place, budget, own>>

Reads(t) == Settle(t) \/ FoundAbsent(t) \/ Remembered(t) \/ Derive(t) \/ Memoize(t)

Next ==
  \/ \E t \in Tasks :
       \/ Ask(t) \/ Begin(t) \/ Reads(t) \/ Drop(t)
       \/ Chain(t) /\ Quiet
  \/ OthersClaim /\ Quiet
  \/ Tick /\ Quiet
  \/ Forget

Spec == Init /\ [][Next]_vars

-----------------------------------------------------------------------------
(* Properties *)

Fence(framed) == Min({i \in DOMAIN framed : framed[i] # Backtick}) - 1
Inside(framed) == SubSeq(framed, Fence(framed) + 2, Len(framed) - Fence(framed) - 1)

\* The Markdown of the cached page, and a text without its mark of truncation.
Markdown == ToMarkdown(page.page)
Beginning(text) == SubSeq(text, 1, Len(text) - Len(Marker))

\* Every caller gets what its own budget allows, whoever came first: a document
\* that fits is shown whole; of another a beginning within the budget, which ends
\* where a line ends and leaves out no line that would have fit, or lies inside the
\* first line (readme.rs truncate; lib.rs: memoizing a cut text "would pin the first
\* caller's budget onto every later reader").
BudgetIsOwn ==
  answer.kind = "readme" =>
    LET shown == Inside(answer.text)
        beginning == Beginning(shown)
        chars == answer.budget
    IN IF Len(Markdown) <= chars THEN shown = Markdown
       ELSE /\ IsSuffix(Marker, shown)
            /\ IsPrefix(beginning, Markdown)
            /\ Len(beginning) <= chars
            /\ \A i \in LineEnds(Markdown) : i <= chars =>
                 Len(TrimEnd(SubSeq(Markdown, 1, i))) <= Len(beginning)
            /\ \/ NL \notin ToSet(SubSeq(Markdown, 1, chars))
               \/ Markdown[Len(beginning) + 1] = NL

\* A README that says anything shows something of it to every caller: what links
\* and badges leave behind does not use the budget up (readme.rs to_markdown and
\* truncate, server.rs: a budget of zero "is never what a caller meant").
ShowsSomething ==
  answer.kind = "readme" /\ Markdown # <<>> =>
    Inside(answer.text) # Marker

\* The frame ends where the server ended it: no run of backticks inside is as long as
\* its fence, whatever code the README shows and wherever it was cut
\* (untrusted.rs frame).
FrameHolds ==
  answer.kind = "readme" =>
    LET framed == answer.text
        fence == Fence(framed)
    IN /\ fence >= MinFence
       /\ \A i \in 2 .. Len(framed) - fence :
            \E k \in i .. i + fence - 1 : framed[k] # Backtick

\* The lines between two fences.
CodeLines(lines) ==
  LET code == Those(lines, {i \in DOMAIN lines :
                InFence(lines, i) /\ ~IsFence(lines[i]) /\ ~Blank(lines[i])})
  IN [k \in DOMAIN code |-> TrimEnd(code[k])]

\* A link whose destination has an unknown scheme, and the lines outside code that have one.
Odd(line) ==
  \E k \in DOMAIN line, j \in DOMAIN line :
    /\ k + 1 < j /\ line[k] = "]" /\ line[k + 1] = "(" /\ line[j] = "odd:"
    /\ \A m \in k + 2 .. j - 1 : IsSpace(line[m])
OddLinks(lines) == {i \in DOMAIN lines : ~InFence(lines, i) /\ Odd(lines[i])}

\* Links as the converter writes them: a closing bracket has an opening one of its own,
\* a destination has neither brackets nor prose, and one that is not closed no unknown
\* scheme; and no line becomes a fence by losing a link.
Brackets == {"[", "]"}
WellLinked(line) ==
  /\ \A k \in DOMAIN line : line[k] = "]" =>
       \E open \in 1 .. k - 1 :
         line[open] = "[" /\ \A i \in open + 1 .. k - 1 : line[i] \notin Brackets
  /\ \A k \in DOMAIN line : k < Len(line) /\ line[k] = "]" /\ line[k + 1] = "(" =>
       LET close == DestinationEnd(line, k + 2) IN
       \A i \in k + 2 .. (IF close = 0 THEN Len(line) ELSE close - 1) :
         IF close = 0 THEN line[i] # "odd:" ELSE line[i] \notin Brackets \cup Prose
  /\ IsFence(RewriteLine(line)) => IsFence(line)

\* In a page the converter failed on no tag has prose in it, and no code lies between fences.
InTag(text, i) == \E a \in 1 .. i : text[a] = "<" /\ \A b \in a .. i : text[b] # ">"
TagsApart(text) ==
  \A i \in DOMAIN text : text[i] # Backtick /\ (text[i] \in Prose => ~InTag(text, i))

AsWritten(p) ==
  LET lines == Lines(IF p.converted THEN p.text ELSE StripTags(p.text)) IN
  /\ \A i \in DOMAIN lines : ~InFence(lines, i) => WellLinked(lines[i])
  /\ ~p.converted => TagsApart(p.text)

\* Rewriting a README's links loses no prose and no line of code, and leaves no link
\* to an unknown scheme outside code, wherever its fences open and close and whatever
\* stands next to a link (readme.rs rewrite_links: "editing it would be editing their
\* documentation").  Links are the converter's own, not nested.
OnlyLinksChange ==
  memo # NoMemo =>
    /\ Kept(memo, Prose) = Kept(page.page.text, Prose)
    /\ CodeLines(Lines(memo)) = CodeLines(Lines(page.page.text))
    /\ OddLinks(Lines(memo)) = {}

\* An error never shows a page: what it quotes of a body other than the registry's own
\* messages has a word before its first angle bracket (fetch.rs is_markup), also after
\* trimming and shortening.
ErrorsAreMessages ==
  answer.kind = "error" /\ answer.body.messages = <<>> =>
    LET detail == answer.detail IN
    \A i \in DOMAIN detail : detail[i] = "<" => \E k \in 1 .. i : IsWord(detail[k])
=============================================================================
