------------------------------ MODULE ToolCalls ------------------------------
(***************************************************************************)
(* The tools of the MCP server about one crate (mcp-crates, server.rs) and *)
(* the client calls they make (crates-io-client, lib.rs), while the        *)
(* registry changes under them.                                            *)
(*                                                                         *)
(* A tool call reads the crate's index and, by tool, its metadata, a       *)
(* README, a build status or a documentation index, some of them at the    *)
(* same time, and composes an answer from what it read at those different  *)
(* moments.  Index and build status are read through the body cache, one   *)
(* step a read (Fetcher.tla has the steps of one); an absence is kept for  *)
(* a shorter while than an answer.  A crate without releases is one the    *)
(* registry does not have yet.                                             *)
(*                                                                         *)
(* An error is its kind and, from an upstream, the status; Faults are those *)
(* that say nothing about the registry.                                    *)
(***************************************************************************)
EXTENDS VersionSelect, FiniteSets

CONSTANTS
  Tasks,        \* tool calls at the same time
  Versions,     \* the versions that may be published
  Overlong,     \* those of more than MAX_VERSION_LEN characters
  FirstIndexes, \* what may be published at first
  Requests,     \* the calls clients make
  MaxLimit,     \* MAX_VERSION_LIMIT, MAX_SEARCH_LIMIT
  Faults,       \* errors a read may end with whatever there is to read
  IndexTtl,     \* ttl.index
  MetadataTtl,  \* ttl.crate_meta
  StatusTtl,    \* ttl.docs_status
  NegativeTtl,  \* ttl.negative
  MaxClock,     \* bound: ticks
  MaxChanges,   \* bound: changes of the registry
  MaxCalls      \* bound: calls

Tools == {"search", "info", "versions", "dependencies", "documentation"}
Entries == [version : Versions, yanked : BOOLEAN]

\* Error::kind of what the fetch layer reports and no lookup reads anything into.
FaultKinds == {"upstream_error", "network_error", "decode_error", "body_too_large", "internal_error",
               "rate_limited", "unsupported_url"}

\* The registry takes a version once.
PublishedOnce(entries) ==
  \A i, j \in DOMAIN entries :
    i # j /\ entries[i].version = entries[j].version => entries[i].version = Unparsed

ASSUME ToolConstants ==
  /\ Versions \subseteq {Unparsed} \cup (Nat \X Nat \X (1 .. Stable))
  /\ Overlong \subseteq Versions
  /\ FirstIndexes \subseteq {entries \in Seq(Entries) : PublishedOnce(entries)}
  /\ Faults \subseteq [kind : FaultKinds, status : Nat \ {404}]
  /\ {IndexTtl, MetadataTtl, StatusTtl, NegativeTtl, MaxLimit, MaxClock, MaxChanges, MaxCalls} \subseteq Nat
  /\ \A r \in Requests : r.tool \in Tools

VARIABLES
  clock,
  index,   \* the registry: the crate's releases
  docs,    \* docs.rs: what it has of each version
  views,   \* the body cache: the index and the build statuses as last read
  call,    \* the call each task serves, or Idle
  began,   \* history: when it began
  pending, \* what the call is waiting for
  seen,    \* the index it has read
  chosen,  \* the position it resolved
  built,   \* docs_rs_built, as far as it knows
  answer,  \* what the call that ends in this step answers
  log,     \* history: the registry and docs.rs, and until when each was so
  changes, calls

vars == <<clock, index, docs, views, call, began, pending, seen, chosen, built, answer,
          log, changes, calls>>

World == <<clock, index, docs, log, changes>>

Idle == [tool |-> "none"]
NoView == [value |-> <<>>, until |-> 0]
NoAnswer == [kind |-> "none", version |-> Unparsed, latest |-> Nowhere, newest |-> Nowhere,
             list |-> <<>>, truncated |-> FALSE, built |-> "unknown", code |-> "none",
             retryable |-> FALSE]

Published == {index[i].version : i \in DOMAIN index}

Init ==
  /\ clock = 0
  /\ index \in FirstIndexes
  /\ docs \in {[v \in Versions |-> IF v \in Published THEN build ELSE "none"] :
                build \in {"none", "html"}}
  /\ views = [index |-> NoView, metadata |-> NoView, status |-> [v \in Versions |-> NoView]]
  /\ call = [t \in Tasks |-> Idle]
  /\ began = [t \in Tasks |-> 0]
  /\ pending = [t \in Tasks |-> {}]
  /\ seen = [t \in Tasks |-> <<>>]
  /\ chosen = [t \in Tasks |-> Nowhere]
  /\ built = [t \in Tasks |-> "unknown"]
  /\ answer = [t \in Tasks |-> NoAnswer]
  /\ log = <<>>
  /\ changes = 0
  /\ calls = 0

-----------------------------------------------------------------------------
(* What the tools make of what they read *)

SelectorOf(request) ==
  IF request.tool = "versions" THEN ParseRequirement(request.raw) ELSE Parse(request.raw)

\* newest_live_version
NewestLive(entries) ==
  LET live == Kept(Descending(entries), {i \in DOMAIN entries : ~entries[i].yanked}) IN
  IF live = <<>> THEN Nowhere ELSE live[1]

Latest(entries) == Best(entries, [kind |-> "default"], FALSE)

\* Server::resolve: only a version that is named may be a yanked one.
Resolve(entries, selector) == Best(entries, selector, selector.kind = "exact")

\* get_crate_versions: the releases that pass the filters, newest first.
Listed(entries, request) ==
  Kept(Descending(entries),
       {i \in DOMAIN entries :
          /\ entries[i].version # Unparsed
          /\ request.yanked \/ ~entries[i].yanked
          /\ request.prerelease \/ IsStable(entries[i].version)
          /\ Accepts(SelectorOf(request), entries[i].version)})

Info(entries) ==
  [NoAnswer EXCEPT !.kind = "ok", !.latest = Latest(entries), !.newest = NewestLive(entries)]

VersionList(entries, request) ==
  LET list == Listed(entries, request) IN
  [Info(entries) EXCEPT !.list = SubSeq(list, 1, IF Len(list) > request.limit THEN request.limit ELSE Len(list)),
                        !.truncated = Len(list) > request.limit]

-----------------------------------------------------------------------------
(* Errors *)

Error(kind) == [kind |-> kind, status |-> 0]

\* A 404.
Absence == [kind |-> "upstream_error", status |-> 404]

\* Mutant of MissingCrate: a client that is refused hears of a missing crate.
MissingCrateRefused(error) ==
  IF error.kind = "upstream_error" /\ error.status \in {403, 404}
    THEN Error("crate_not_found") ELSE error

\* missing_crate, missing_docs
MissingCrate(error) == IF error = Absence THEN Error("crate_not_found") ELSE error
MissingDocs(error) == IF error = Absence THEN Error("docs_unavailable") ELSE error

\* Mutant of Category: a selector that nothing satisfies is the caller's mistake.
CategoryHarsh(error) ==
  CASE error.kind \in {"invalid_crate_name", "invalid_version", "invalid_argument", "version_not_found"} ->
         "invalid input"
    [] error.kind \in {"crate_not_found", "readme_unavailable", "docs_unavailable"} -> "not found"
    [] OTHER -> "upstream"

\* Error::category
Category(error) ==
  CASE error.kind \in {"invalid_crate_name", "invalid_version", "invalid_argument"} -> "invalid input"
    [] error.kind \in {"crate_not_found", "version_not_found", "readme_unavailable",
                       "docs_unavailable"} -> "not found"
    [] OTHER -> "upstream"

\* Error::retryable
Retryable(error) ==
  \/ error.kind \in {"network_error", "rate_limited"}
  \/ error.kind = "upstream_error" /\ (error.status = 429 \/ error.status >= 500)

\* to_error_data, invalid_argument
ErrorData(error) ==
  [NoAnswer EXCEPT !.kind = error.kind, !.retryable = Retryable(error),
                   !.code = CASE Category(error) = "invalid input" -> "INVALID_PARAMS"
                              [] Category(error) = "not found" -> "RESOURCE_NOT_FOUND"
                              [] OTHER -> "INTERNAL_ERROR"]

\* Mutant of BuildFlag: an error is taken for a missing build.
BuildFlagEager(status) == IF status.kind = "html" \/ status.kind = "json" THEN "yes" ELSE "no"

\* What a read of the build status says about the build: docs.rs builds of these kinds,
\* or an error.
BuildFlag(status) ==
  CASE status.kind \in {"html", "json"} -> "yes"
    [] status.kind = "failed" \/ Category(status) = "not found" -> "no"
    [] OTHER -> "unknown"

-----------------------------------------------------------------------------
(* The calls *)

\* A search for nothing, or of pages or limits there are not.
SearchRefused(request) ==
  request.tool = "search" /\ (request.limit \notin 1 .. MaxLimit \/ request.page = 0 \/ ~request.filter)

VersionsRefused(request) ==
  request.tool = "versions" /\ (request.limit \notin 1 .. MaxLimit \/ SelectorOf(request) = Garbage)

\* A README budget of zero.
DocumentationRefused(request) == request.tool = "documentation" /\ request.limit = 0

\* The first thing wrong with the arguments of a call, or "none".
Complaint(request) ==
  IF request.tool # "versions" /\ SelectorOf(request) = Garbage THEN "invalid_version"
  ELSE IF SearchRefused(request) \/ VersionsRefused(request) \/ DocumentationRefused(request)
    THEN "invalid_argument"
  ELSE IF request.tool # "search" /\ ~request.validName THEN "invalid_crate_name"
  ELSE "none"

Silent == answer' = [t \in Tasks |-> NoAnswer]
Answers(t, result) == answer' = [u \in Tasks |-> IF u = t THEN result ELSE NoAnswer]

Ends(t, result) ==
  /\ call' = [call EXCEPT ![t] = Idle]
  /\ pending' = [pending EXCEPT ![t] = {}]
  /\ Answers(t, result)
  /\ seen' = [seen EXCEPT ![t] = <<>>]
  /\ chosen' = [chosen EXCEPT ![t] = Nowhere]
  /\ built' = [built EXCEPT ![t] = "unknown"]
  /\ began' = [began EXCEPT ![t] = 0]

\* An error ends the call; what it still waits for is dropped (try_join).
Fails(t, error) == Ends(t, ErrorData(error))

\* Arguments are checked before anything is asked; get_crate_info asks for two
\* things at once.
Call(t) ==
  /\ call[t] = Idle
  /\ calls < MaxCalls
  /\ calls' = calls + 1
  /\ \E request \in Requests :
       IF Complaint(request) # "none"
         THEN /\ Answers(t, ErrorData(Error(Complaint(request))))
              /\ UNCHANGED <<call, began, pending>>
         ELSE /\ call' = [call EXCEPT ![t] = request]
              /\ began' = [began EXCEPT ![t] = clock]
              /\ pending' = [pending EXCEPT ![t] =
                   CASE request.tool = "search" -> {"search"}
                     [] request.tool = "info" -> {"index", "metadata"}
                     [] OTHER -> {"index"}]
              /\ Silent
  /\ UNCHANGED <<World, views, seen, chosen, built>>

Usable(view) == clock < view.until

\* Client::index, through the cache.
IndexView == IF Usable(views.index) THEN views.index
             ELSE [value |-> index,
                   until |-> clock + IF index = <<>> THEN NegativeTtl ELSE IndexTtl]

\* The index arrives: a list is ready, a version is resolved, or more is asked for,
\* unless no page has a version that long (docs_page_url, validate_version).
IndexRead(t) ==
  /\ "index" \in pending[t]
  /\ views' = [views EXCEPT !.index = IndexView]
  /\ LET entries == IndexView.value
         request == call[t]
         position == Resolve(entries, SelectorOf(request))
     IN \/ /\ entries = <<>>
           /\ Fails(t, MissingCrate(Absence))
        \/ /\ entries # <<>> /\ request.tool = "info"
           /\ seen' = [seen EXCEPT ![t] = entries]
           /\ pending' = [pending EXCEPT ![t] = @ \ {"index"}]
           /\ Silent
           /\ UNCHANGED <<call, began, chosen, built>>
        \/ /\ entries # <<>> /\ request.tool = "versions"
           /\ Ends(t, VersionList(entries, request))
        \/ /\ entries # <<>> /\ request.tool \in {"dependencies", "documentation"}
           /\ position = Nowhere
           /\ Fails(t, Error("version_not_found"))
        \/ /\ request.tool = "dependencies"
           /\ position # Nowhere
           /\ Ends(t, [NoAnswer EXCEPT !.kind = "ok", !.version = entries[position].version])
        \/ /\ request.tool = "documentation"
           /\ position # Nowhere
           /\ entries[position].version \in Overlong
           /\ Fails(t, Error("invalid_version"))
        \/ /\ request.tool = "documentation"
           /\ position # Nowhere
           /\ entries[position].version \notin Overlong
           /\ seen' = [seen EXCEPT ![t] = entries]
           /\ chosen' = [chosen EXCEPT ![t] = position]
           /\ pending' = [pending EXCEPT ![t] =
                {IF request.item THEN "item" ELSE "status"} \cup IF request.readme THEN {"readme"} ELSE {}]
           /\ Silent
           /\ UNCHANGED <<call, began, built>>
  /\ UNCHANGED <<World, calls>>

\* None of these can be done without.
ReadFails(t) ==
  /\ pending[t] \cap {"search", "index", "metadata"} # {}
  /\ \E fault \in Faults :
       Fails(t, IF call[t].tool = "search" THEN fault ELSE MissingCrate(fault))
  /\ UNCHANGED <<World, views, calls>>

\* Client::search
SearchRead(t) ==
  /\ "search" \in pending[t]
  /\ Ends(t, [NoAnswer EXCEPT !.kind = "ok"])
  /\ UNCHANGED <<World, views, calls>>

\* Client::crate_info, through the cache: of the metadata only that there is some.
MetadataView == IF Usable(views.metadata) THEN views.metadata
                ELSE [value |-> index # <<>>,
                      until |-> clock + IF index = <<>> THEN NegativeTtl ELSE MetadataTtl]

MetadataRead(t) ==
  /\ "metadata" \in pending[t]
  /\ views' = [views EXCEPT !.metadata = MetadataView]
  /\ IF MetadataView.value
       THEN /\ pending' = [pending EXCEPT ![t] = @ \ {"metadata"}]
            /\ Silent
            /\ UNCHANGED <<call, began, seen, chosen, built>>
       ELSE Fails(t, MissingCrate(Absence))
  /\ UNCHANGED <<World, calls>>

\* The README arrives or cannot be read: a note either way, never a failure.
ReadmeRead(t) ==
  /\ "readme" \in pending[t]
  /\ pending' = [pending EXCEPT ![t] = @ \ {"readme"}]
  /\ Silent
  /\ UNCHANGED <<World, views, call, began, seen, chosen, built, calls>>

Release(t) == seen[t][chosen[t]].version

\* Client::docs_status, through the cache; an absence is kept for less long.
StatusView(v) ==
  IF Usable(views.status[v]) THEN views.status[v]
  ELSE [value |-> docs[v], until |-> clock + IF docs[v] = "none" THEN NegativeTtl ELSE StatusTtl]

\* The build status arrives, or an error that says nothing about the build.
StatusRead(t) ==
  /\ "status" \in pending[t]
  /\ \/ LET view == StatusView(Release(t)) IN
        /\ views' = [views EXCEPT !.status[Release(t)] = view]
        /\ built' = [built EXCEPT ![t] =
             BuildFlag(IF view.value = "none" THEN MissingDocs(Absence) ELSE [kind |-> view.value])]
     \/ /\ \E fault \in Faults : built' = [built EXCEPT ![t] = BuildFlag(MissingDocs(fault))]
        /\ UNCHANGED views
  /\ pending' = [pending EXCEPT ![t] = @ \ {"status"}]
  /\ Silent
  /\ UNCHANGED <<World, call, began, seen, chosen, calls>>

\* Client::doc_index: there is one only where docs.rs kept the JSON; without it
\* nothing is known about the build.
ItemRead(t) ==
  /\ "item" \in pending[t]
  /\ \/ docs[Release(t)] = "json" /\ built' = [built EXCEPT ![t] = "yes"]
     \/ built' = [built EXCEPT ![t] = "unknown"]
  /\ pending' = [pending EXCEPT ![t] = @ \ {"item"}]
  /\ Silent
  /\ UNCHANGED <<World, views, call, began, seen, chosen, calls>>

\* Everything asked for at once has come: the answer is composed.
Composed(t) ==
  /\ call[t] # Idle
  /\ pending[t] = {}
  /\ Ends(t, IF call[t].tool = "info" THEN Info(seen[t])
             ELSE [NoAnswer EXCEPT !.kind = "ok", !.version = Release(t), !.built = built[t]])
  /\ UNCHANGED <<World, views, calls>>

-----------------------------------------------------------------------------
(* External: the registry, docs.rs and time *)

Changes ==
  /\ changes < MaxChanges
  /\ changes' = changes + 1
  /\ log' = Append(log, [index |-> index, docs |-> docs, until |-> clock])
  /\ Silent
  /\ UNCHANGED <<clock, views, call, began, pending, seen, chosen, built, calls>>

Publish ==
  /\ Changes
  /\ \E v \in Versions \ Published : index' = Append(index, [version |-> v, yanked |-> FALSE])
  /\ UNCHANGED docs

Yank ==
  /\ Changes
  /\ \E i \in DOMAIN index : index' = [index EXCEPT ![i].yanked = ~@]
  /\ UNCHANGED docs

\* docs.rs builds a release, for the first time or once more after a failure; only
\* recent builds keep their JSON.
Build ==
  /\ Changes
  /\ \E v \in Published :
       /\ docs[v] \in {"none", "failed"}
       /\ \E result \in {"failed", "html", "json"} \ {docs[v]} : docs' = [docs EXCEPT ![v] = result]
  /\ UNCHANGED index

Tick ==
  /\ clock < MaxClock
  /\ clock' = clock + 1
  /\ Silent
  /\ UNCHANGED <<index, docs, views, call, began, pending, seen, chosen, built, log,
                 changes, calls>>

Next ==
  \/ \E t \in Tasks :
       \/ Call(t) \/ SearchRead(t) \/ IndexRead(t) \/ ReadFails(t) \/ MetadataRead(t) \/ ReadmeRead(t)
       \/ StatusRead(t) \/ ItemRead(t) \/ Composed(t)
  \/ Publish \/ Yank \/ Build \/ Tick

Spec == Init /\ [][Next]_vars

-----------------------------------------------------------------------------
(* Properties *)

\* A task that serves no call waits for nothing; one that waits for documentation
\* has a version of the index it read.
TypeOK ==
  /\ clock \in Nat /\ changes \in Nat /\ calls \in Nat
  /\ index \in Seq(Entries)
  /\ docs \in [Versions -> {"none", "failed", "html", "json"}]
  /\ call \in [Tasks -> Requests \cup {Idle}]
  /\ built \in [Tasks -> {"yes", "no", "unknown"}]
  /\ \A t \in Tasks :
       /\ pending[t] \subseteq {"search", "index", "metadata", "readme", "status", "item"}
       /\ call[t] = Idle => pending[t] = {}
       /\ pending[t] \cap {"readme", "status", "item"} # {} => chosen[t] \in DOMAIN seen[t]

\* What was so at some moment of a call, or up to age ticks before it began.
Moments(t, age) ==
  {log[i] : i \in {j \in DOMAIN log : log[j].until + age >= began[t]}}
  \cup {[index |-> index, docs |-> docs, until |-> clock]}

\* What the ranking prefers (version.rs best): of what a selector accepts and is not
\* yanked, or is named, the highest release, and the highest pre-release only if there
\* is no release among them.  For a requirement that admits a higher pre-release this
\* is not "the highest release satisfying" it, and the default falls back to one also
\* when the releases there were are yanked (both otherwise in Selector's doc).
Preferred(entries, selector) ==
  LET fit == {i \in DOMAIN entries :
        /\ entries[i].version # Unparsed
        /\ selector.kind = "exact" => entries[i].version = selector.version
        /\ selector.kind # "exact" => ~entries[i].yanked
        /\ selector.kind = "matching" => Matches(selector.requirement, entries[i].version)}
      stable == {i \in fit : IsStable(entries[i].version)}
      pool == IF stable = {} THEN fit ELSE stable
  IN {entries[i].version : i \in {j \in pool : \A k \in pool : ~Below(entries[j].version, entries[k].version)}}

Returns(t) == call[t] # Idle /\ call'[t] = Idle

\* The version a tool speaks of is the one preferred at some moment of the call, or no
\* longer before it than an index is kept, although releases are published and yanked
\* meanwhile; and none is said to be missing unless there was none to prefer (server.rs
\* resolve, version.rs best, config.rs ttl.index).
PicksInTime ==
  [][\A t \in Tasks : Returns(t) /\ call[t].tool \in {"dependencies", "documentation"} =>
       \E moment \in Moments(t, IndexTtl) :
         LET pick == Preferred(moment.index, Parse(call[t].raw)) IN
         /\ answer'[t].kind = "ok" => pick = {answer'[t].version}
         /\ answer'[t].kind = "version_not_found" => pick = {}]_vars

\* The tools agree with one another, although they choose by different means: the list
\* goes down, and the first release in it is what the same requirement resolves to (by
\* order, and by rank), or the latest stable one without a requirement; if it has no
\* release, its first pre-release is, unless the limit cut the list before.  With
\* pre-releases and without a requirement it starts with the newest (server.rs
\* get_crate_versions, newest_live_version, and CrateIndex::resolve).
AnswersCohere ==
  [][\A t \in Tasks : Returns(t) /\ call[t].tool = "versions" /\ answer'[t].kind = "ok" =>
       LET entries == views'.index.value
           given == answer'[t]
           request == call[t]
           listed == given.list
           first == IF listed = <<>> THEN Nowhere ELSE listed[1]
           releases == {n \in DOMAIN listed : IsStable(entries[listed[n]].version)}
           pick == IF SelectorOf(request).kind = "default" THEN given.latest
                   ELSE Resolve(entries, SelectorOf(request))
           release == pick # Nowhere /\ IsStable(entries[pick].version)
       IN /\ \A i, j \in DOMAIN listed :
               i < j => Below(entries[listed[j]].version, entries[listed[i]].version)
          /\ ~request.yanked =>
               /\ \A n \in releases : (\A m \in releases : n <= m) => listed[n] = pick
               /\ releases = {} /\ release => given.truncated
               /\ releases = {} /\ ~release /\ request.prerelease => first = pick
          /\ ~request.yanked /\ request.prerelease /\ SelectorOf(request).kind = "default" =>
               first = given.newest \/ (first = Nowhere /\ given.latest = Nowhere)]_vars

\* "Reporting it as a failed build would assert a fact this call did not
\* establish" (server.rs get_crate_documentation): a call that says docs.rs built
\* the release, or did not, is right about some moment of the call, or no longer
\* before it than a status is kept: that there is no build at all is held for less
\* long, since docs.rs may build at any time (config.rs, ttl.negative).
BuildFlagHonest ==
  [][\A t \in Tasks : Returns(t) =>
       LET was(outcomes, age) ==
             \E moment \in Moments(t, age) : moment.docs[answer'[t].version] \in outcomes
       IN \/ answer'[t].built = "unknown"
          \/ answer'[t].built = "yes" /\ was({"html", "json"}, StatusTtl)
          \/ answer'[t].built = "no" /\ (was({"failed"}, StatusTtl) \/ was({"none"}, NegativeTtl))]_vars

\* An error says what happened, no more: the caller is blamed when nothing was asked of
\* anyone, and otherwise only if docs.rs has no page for a version as long as the one
\* preferred at some moment of the call, or no longer before it than an index is kept; a
\* crate is missing only if the registry did not have it at some moment of the call, or
\* no longer before it than an absence is kept (error.rs category, docs.rs html_url,
\* lib.rs missing_crate, mcp-crates error.rs to_error_data).
ErrorsHonest ==
  [][\A t \in Tasks :
       LET given == answer'[t] IN
       /\ given.code # "none" /\ calls' > calls => given.code = "INVALID_PARAMS"
       /\ given.code = "INVALID_PARAMS" =>
            \/ calls' > calls
            \/ /\ call[t] # Idle /\ call[t].tool = "documentation"
               /\ \E moment \in Moments(t, IndexTtl) :
                    \E v \in Overlong : Preferred(moment.index, Parse(call[t].raw)) = {v}
       /\ given.kind = "crate_not_found" =>
            \E moment \in Moments(t, NegativeTtl) : moment.index = <<>>]_vars
=============================================================================
