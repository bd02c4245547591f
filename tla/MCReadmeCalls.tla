---------------------------- MODULE MCReadmeCalls ----------------------------
(***************************************************************************)
(* READMEs on small instances: chains of up to two redirects and one       *)
(* retry over the API and the CDN, pages of up to three lines.             *)
(***************************************************************************)
EXTENDS ReadmeCalls

CONSTANTS t1, t2

Url(scheme, host, port, path) == [scheme |-> scheme, host |-> host, port |-> port, path |-> path]
MCAsked == Url("https", "crates.io", "default", "readme")

\* On to the CDN, back to the API, out of the list, and down to plain text.
MCLocations ==
  {Url("https", "static.crates.io", "default", "readme"), MCAsked,
   Url("https", "example.com", "default", "readme"),
   Url("http", "crates.io", "default", "readme"),
   Relative, Unusable}

MCInterval == [o \in Origins |-> 1]

\* Lines the converter writes: prose short and long, with wide characters; blank
\* lines; fences and runs of backticks; links of every kind.
T == Backtick
S == Space
ProseLines == {<<"w", "w">>, <<"w", "wide", "wide", "w">>, <<>>, <<S, "w", S>>}
CodeTokens == {<<T, T, T>>, <<S, T, T, T>>, <<"w", T, T, T, T>>}
LinkLines ==
  {<<"[", "]", "(", "u", ")">>,
   <<"[", "w", "]", "(", "http:", "u", ")", "w">>,
   <<"w", "[", "w", "]", "(", S, "odd:", "u", "(", "u", ")", ")", "w">>,
   <<"[", "w", "]", "(", "odd:", ")", "[", "]", "(", ")", "[", "w", "]", "(", "u", "/", "odd:", ")">>,
   <<"[", "w", "]", "(", "u">>}
SomeLines == ProseLines \cup CodeTokens \cup LinkLines

\* Pages of one and of two such lines, of three that begin with a fence, and pages the
\* converter failed on.
MCPages ==
  {[converted |-> TRUE, text |-> Front(Unlines(lines))] :
      lines \in [1 .. 1 -> SomeLines] \cup [1 .. 2 -> SomeLines]
                 \cup {<< <<T, T, T>>, l, k>> : l \in LinkLines, k \in SomeLines}}
  \cup {[converted |-> FALSE, text |-> <<"<", "u", ">">> \o text \o <<"<", "u", NL, ">", "w">>] :
      text \in ProseLines}

MCServedPages == {[converted |-> TRUE, text |-> <<"w", "w", NL, "w">>]}

\* What is shown of links is for pages such as the converter writes.
ASSUME PagesAsWritten == \A p \in MCPages \cup MCServedPages : AsWritten(p)

MCErrorBodies ==
  {[messages |-> messages, text |-> text] :
     messages \in {<<>>, <<"wide", "w", "wide", "w">>},
     text \in {<<>>, <<"<", "w">>, <<"invisible", "<", "w">>, <<"format", ".", "<", "w">>,
               <<"w", "wide", "wide", "<">>, <<S, "w", "<", "w">>, <<".", "invisible">>}}
=============================================================================
