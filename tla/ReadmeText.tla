----------------------------- MODULE ReadmeText -----------------------------
(***************************************************************************)
(* What the client makes of registry text (crates-io-client, readme.rs and *)
(* fetch.rs: extract_detail; mcp-crates, untrusted.rs).                    *)
(*                                                                         *)
(* A text is a sequence of tokens, each standing for one character of its  *)
(* kind: "w" and "wide" for prose (wide takes two bytes), "u" for the rest *)
(* of a URL, Space, NL, Backtick, and brackets as themselves;   *)
(* "http:" and "odd:" stand for a scheme the client knows and for another. *)
(* What the HTML converter makes of a page is external: texts begin as     *)
(* its output.                                                             *)
(***************************************************************************)
EXTENDS Ordering, SequencesExt

NL == "nl"
Space == "space"
Backtick == "tick"
Marker == <<NL, NL, "README truncated">>
Ellipsis == "..."

\* The kinds of characters that make a difference, and the marks of what was cut.
Characters ==
  {"w", "wide", "u", ".", "/", "http:", "odd:", "(", ")", "[", "]", "<", ">", "invisible", "format",
   Space, NL, Backtick, "README truncated", Ellipsis}
Texts == Seq(Characters)

Lines(text) ==
  FoldLeft(LAMBDA ls, c : IF c = NL THEN Append(ls, <<>>)
                          ELSE [ls EXCEPT ![Len(ls)] = Append(@, c)], << <<>> >>, text)

\* Each line with its newline.
Unlines(lines) == FoldLeft(LAMBDA text, line : text \o line \o <<NL>>, <<>>, lines)

IsSpace(c) == c \in {Space, NL}

\* Where the first, and where the last character is that is no white space.
Inked(text) == {i \in DOMAIN text : ~IsSpace(text[i])}
TrimStart(text) ==
  IF Inked(text) = {} THEN <<>> ELSE SubSeq(text, Min(Inked(text)), Len(text))
TrimEnd(text) ==
  IF Inked(text) = {} THEN <<>> ELSE SubSeq(text, 1, Max(Inked(text)))
Trim(text) == TrimEnd(TrimStart(text))
Blank(line) == Inked(line) = {}

-----------------------------------------------------------------------------
(* rewrite_links *)

IsFence(line) == IsPrefix(<<Backtick, Backtick, Backtick>>, TrimStart(line))

\* in_fence at line i: a fence line before it, or it, is still open.
InFence(lines, i) ==
  Cardinality({k \in 1 .. i : IsFence(lines[k])}) % 2 = 1

Count(line, c, from, to) == Cardinality({k \in from .. to : line[k] = c})

First(set) == IF set = {} THEN 0 ELSE Min(set)

\* destination_end: parentheses nest.
DestinationEnd(line, from) ==
  First({k \in from .. Len(line) :
    line[k] = ")" /\ Count(line, ")", from, k) = 1 + Count(line, "(", from, k)})

\* is_safe_destination
IsSafe(destination) ==
  LET target == Trim(destination)
      colon == First({i \in DOMAIN target : target[i] \in {"http:", "odd:"}})
  IN \/ colon = 0
     \/ \E i \in 1 .. colon - 1 : target[i] = "/"
     \/ colon = 1 /\ target[1] = "http:"

\* What is left of the link [text](destination) at these places of a line.
Link(line, open, separator, close) ==
  IF separator = open + 1 THEN <<>>
  ELSE IF IsSafe(SubSeq(line, separator + 2, close - 1)) THEN SubSeq(line, open, close)
  ELSE SubSeq(line, open + 1, separator - 1)

\* Where the first link from i on has its brackets, each 0 if there is none.
Open(line, i) == First({k \in i .. Len(line) : line[k] = "["})
Separator(line, i) ==
  IF Open(line, i) = 0 THEN 0
  ELSE First({k \in Open(line, i) .. Len(line) - 1 : line[k] = "]" /\ line[k + 1] = "("})
Close(line, i) ==
  IF Separator(line, i) = 0 THEN 0 ELSE DestinationEnd(line, Separator(line, i) + 2)

\* The links of one line, from left to right.
RewriteLine(line) ==
  LET rest[i \in 1 .. Len(line) + 1] ==
        IF Close(line, i) = 0 THEN SubSeq(line, i, Len(line))
        ELSE SubSeq(line, i, Open(line, i) - 1)
               \o Link(line, Open(line, i), Separator(line, i), Close(line, i))
               \o rest[Close(line, i) + 1]
  IN rest[1]

\* Mutant of Rewrite: fenced code is rewritten like prose.
RewriteAll(text) ==
  LET lines == Lines(text) IN TrimEnd(Unlines([i \in DOMAIN lines |-> RewriteLine(lines[i])]))

\* rewrite_links: fenced code is left as it is.
Rewrite(text) ==
  LET lines == Lines(text) IN
  TrimEnd(Unlines([i \in DOMAIN lines |->
    IF InFence(lines, i) THEN lines[i] ELSE RewriteLine(lines[i])]))

\* collapse_blank_lines: of blank lines in a row the first is kept.
KeptLines(lines) == {i \in DOMAIN lines : ~(Blank(lines[i]) /\ i > 1 /\ Blank(lines[i - 1]))}
Collapsed(lines) ==
  FoldLeftDomain(LAMBDA output, i :
    IF i \in KeptLines(lines) THEN output \o TrimEnd(lines[i]) \o <<NL>> ELSE output, <<>>, lines)
Collapse(text) == TrimEnd(Collapsed(Lines(text)))

\* strip_tags
StripTags(text) ==
  FoldLeft(LAMBDA acc, c :
             IF c = "<" THEN [acc EXCEPT !.inside = TRUE]
             ELSE IF c = ">" THEN [acc EXCEPT !.inside = FALSE]
             ELSE IF acc.inside THEN acc ELSE [acc EXCEPT !.out = Append(@, c)],
           [inside |-> FALSE, out |-> <<>>], text).out

\* Mutant of Polish: a document may begin with what a removed badge left behind.
PolishRagged(text) == Collapse(TrimEnd(Rewrite(text)))

Polish(text) == Collapse(Trim(Rewrite(text)))

\* to_markdown of a page: what the converter made of it, or, when that failed, the
\* page without its tags.
ToMarkdown(page) == Polish(IF page.converted THEN page.text ELSE StripTags(page.text))

-----------------------------------------------------------------------------
(* truncate, and the frame around what is shown *)

\* A wide character takes two bytes, any other one.
Wide(text) == {i \in DOMAIN text : text[i] = "wide"}
Bytes(text) == Len(text) + Cardinality(Wide(text))

\* &text[..bytes]: a panic unless the offset lies between two characters.
Panic == <<"panic">>
Slice(text, bytes) ==
  LET cuts == {k \in 0 .. Len(text) : Bytes(SubSeq(text, 1, k)) = bytes}
  IN IF cuts = {} THEN Panic ELSE SubSeq(text, 1, Min(cuts))

\* The ends of the lines, newline included (split_inclusive).
LineEnds(text) == {i \in DOMAIN text : text[i] = NL} \cup {Len(text)}

\* Mutant of KeptBytes: characters are counted where bytes are meant.
KeptChars(text, budget) ==
  LET whole == {i \in LineEnds(text) : i <= budget}
  IN IF whole # {} THEN Max(whole) ELSE Min({budget, Len(text)})

\* Mutant of KeptBytes: only whole lines are kept.
KeptWholeLines(text, budget) ==
  LET whole == {i \in LineEnds(text) : i <= budget}
  IN IF whole = {} THEN 0 ELSE Bytes(SubSeq(text, 1, Max(whole)))

\* As many whole lines as the budget has room for; if none, part of the first.
KeptBytes(text, budget) ==
  LET whole == {i \in LineEnds(text) : i <= budget}
  IN Bytes(SubSeq(text, 1, IF whole # {} THEN Max(whole) ELSE Min({budget, Len(text)})))

Truncate(text, budget) == TrimEnd(Slice(text, KeptBytes(text, budget))) \o Marker

\* Client::readme: a document within the budget is shown as it is.
Shown(markdown, budget) ==
  IF Len(markdown) <= budget THEN markdown ELSE Truncate(markdown, budget)

\* The lengths of the runs of backticks in a text.
Runs(text) ==
  {p[2] - p[1] + 1 : p \in {q \in (DOMAIN text) \X (DOMAIN text) :
    q[1] <= q[2] /\ \A k \in q[1] .. q[2] : text[k] = Backtick}}

MinFence == 3

\* Mutant of FenceLength: as long as the longest run, not longer.
FenceLengthTight(text) == Max(Runs(text) \cup {MinFence})

FenceLength(text) == Max({r + 1 : r \in Runs(text)} \cup {MinFence})

\* untrusted::frame, from the first backtick on.
Frame(text) ==
  LET fence == [i \in 1 .. FenceLength(text) |-> Backtick]
  IN fence \o <<NL>> \o text \o <<NL>> \o fence

-----------------------------------------------------------------------------
(* extract_detail.  "invisible" is trimmed, "format" is not, "." is neither a
   letter nor a digit. *)

MaxDetail == 4

Prose == {"w", "wide"}
IsWord(c) == c \in Prose
TrimDetail(text) ==
  LET kept == {i \in DOMAIN text : text[i] \notin {Space, NL, "invisible"}}
  IN IF kept = {} THEN <<>> ELSE SubSeq(text, Min(kept), Max(kept))

\* Mutant of IsMarkup: a document that starts with a tag.
IsMarkupByPrefix(text) == text # <<>> /\ Head(text) = "<"

IsMarkup(text) ==
  LET angle == First({i \in DOMAIN text : text[i] = "<"})
      word == First({i \in DOMAIN text : IsWord(text[i])})
  IN angle # 0 /\ (word = 0 \/ angle < word)

\* truncate of fetch.rs: back to the last character boundary.
Shorten(text) ==
  IF Bytes(text) <= MaxDetail THEN text
  ELSE SubSeq(text, 1, Max({k \in 0 .. Len(text) : Bytes(SubSeq(text, 1, k)) <= MaxDetail}))
         \o <<Ellipsis>>

\* The messages of a crates.io error, or a body that reads like a message.
DetailOf(body) ==
  IF body.messages # <<>> THEN Shorten(body.messages)
  ELSE LET text == TrimDetail(body.text)
       IN IF text = <<>> \/ IsMarkup(text) THEN <<>> ELSE Shorten(text)
=============================================================================
