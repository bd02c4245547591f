# A verification of mcp-crates

`mcp-crates` is a Rust workspace of two crates: `crates-io-client`, a caching,
rate-limited client for crates.io, its sparse index and docs.rs, and `mcp-crates`, an
MCP server whose tools are built on it. This directory holds TLA+ models of the parts of
it that are hard to test, TLC configurations that check them on small instances, and
proofs that TLAPS checks for every instance. Paths below are relative to the repository;
`C/` stands for `crates/crates-io-client/src/` and `S/` for `crates/mcp-crates/src/`.

## The system

| Component | Source | State | Operations | What makes it correct |
|---|---|---|---|---|
| Request pacer | `C/pacer.rs` | one atomic word, the next free slot | `reserve`, `acquire`, `penalize` | slots an interval apart, waits bounded, pauses honoured, no caller stuck |
| Gates | `C/gate.rs` | a bounded set of mutexes by key | `get` | one caller per key past a gate, as long as the gate is kept |
| Body cache | `C/cache.rs` | body, validator and lifetime per URL | `is_fresh`, `revalidated`, `derive` | nothing expired is served |
| Fetch layer | `C/fetch.rs` | the cache, the gates, the pacers, traffic counters | `get`, `load_from_disk`, `fetch_with_retry`, `fetch_once`, `store_to_disk` | one request per burst, right validators, bounded retries, brief absences, copies go back only to what was left on disk late |
| Disk store | `C/disk.rs` | one file per key, one temporary name per process | `load`, `store`, `prune` | atomic replacement, no wrong answer from a damaged file, a bounded directory |
| Freshness | `C/fetch.rs`, `C/cache.rs`, `C/disk.rs` | a lifetime on two clocks | `effective_ttl`, `is_fresh`, `remaining_freshness` | no copy outlives its grant by more than the reading of the clocks costs |
| Documentation pipeline | `C/lib.rs` | parsed indexes, gates, parse permits | `doc_index` | nothing at hand is parsed again, memory is bounded, every call ends |
| Documentation index | `C/docs.rs` | text arenas, rows of spans, orderings, a trigram filter | `build`, `compact`, `assemble`, `lookup` | the same document gives the same index, nothing is lost, no row says another's text, fast lookup = linear lookup |
| Sparse index, versions | `C/index.rs`, `C/version.rs` | entries in version order | `parse`, `resolve`, `best` | the version the ranking prefers, by order and by rank alike |
| API requests | `C/api.rs` | none | checks of names and queries, URL builders, response types | nothing is sent for a request that is refused |
| README | `C/readme.rs`, `C/lib.rs` | Markdown memoized beside the body | `to_markdown`, `rewrite_links`, `truncate` | each caller is shown what its own budget allows; code is left alone |
| Server, tools | `S/server.rs`, `S/tools.rs` | a client | one task per tool call | answers composed from several fetches; errors that say what happened |
| Untrusted text | `S/untrusted.rs` | none | fence a text | the fence is longer than any in the text |
| Configuration, errors | `C/config.rs`, `S/main.rs`, `C/error.rs`, `S/error.rs` | constants | defaults, taxonomy | tables |

A tool call runs as a task of a multi-threaded runtime. It asks `Client`, which turns the
question into one or several `Fetcher::get`s. `get` looks in the body cache; on a miss it
takes the URL's gate, looks again, reads the disk (sparse index only), and otherwise sends
a request in a slot of the host's pacer, following redirects and retrying. Successes are
written back to memory and disk. `doc_index` stands on top: memory, gate, disk, fetch, a
parse on a blocking thread under a permit, and a store on another. Several server
processes share the cache directory without a lock (`C/disk.rs:269`); each prunes it once when it starts. In every
model of what is stored there, other servers write to it too.

The hard behaviours are therefore interleavings: between two looks at a cache, between a
load and a compare-exchange, between a read and a removal, between listing and removing;
callers dropped at any await while a blocking thread they started runs on; other servers that write
to the same directory; processes that
die between two file system calls; clocks that are set; hash maps whose order changes from
run to run. PROJECT.json lists them line by line under "hazards", each with the
properties that would catch it going wrong.

## The modules

`MC*.tla` only give constants values; all behaviour is in the modules below. Theorems are in modules
of their own: `PacerProofs`, `FetcherProofs`, `FreshnessProofs`, `ToolCallsProofs`, and, for several modules each,
`ReadmeProofs` (PacedFetch, ReadmeText, ReadmeCalls), `DiskProofs` (DiskCell, DiskStore, DiskPrune) and `DocProofs`
(DocPipeline, DocArenas, DocIndex). `Induction` has the facts about finite data and about lists in order that several
of them rest on. `Ordering` says what a list in order is (`InOrder`) and what a filter keeps of one (`Kept`): the
indexes of documentation and of releases are such lists.

**RateLimit, Pacer** (`C/pacer.rs`). `RateLimit` is the promise: taking a slot
of the timeline is one atomic step. `Pacer` is the code: each task reads the clock once
(`ReadClock`), loads the word (`Load`), and then loops: `Shed` when the wait is too long,
`Claim` when the exchange succeeds, `Retry` when it fails, also spuriously. `Wake`,
`Abandon`, `Send` and `Answered` are `acquire` and the request it paces; `SlowDown` and
`Penalize` are the two steps of `penalize` (clock, `fetch_max`). `Tick` moves the clock
between any two of them. Variables carry the names of the code (`nextSlot`, `observed`,
`now`); `issued`, `sent` and `floor` are history. The width of the word is `Horizon`, and
`SatAdd` saturates there. `clock`, `nextSlot` and `issued` of `Pacer` are those of
`RateLimit`: the refinement mapping is the identity on them.

**Fetcher** (`C/fetch.rs`, `C/cache.rs`, `C/gate.rs`). `Fetcher::get` for one URL, one action
per stretch between two awaits. `pc` is the await a task is at, `stale`, `cur`, `tries`,
`tag` and `reply` its stack; `mem` is the body cache, `disk` the record, `gen` the gate
currently handed out (a dropped gate is a new generation). The origin is external: it
publishes, removes and moves the resource between the URL asked for and the one it
redirects to, and answers from its state at the time of the answer. Revision numbers are
entity tags, and each URL numbers its own. `Faults` says which failures may occur. Among them is `others`:
another server on the same directory fetches the resource when it likes (`OthersFetch`) and writes
its record when it likes (`OthersStore`); `theirs` are the records on their way. `late` is history: a record
another server left, or a write whose caller was dropped, either of which may land after a newer one. Here a
redirect chain is one hop long and a slot is simply taken: chains and slots are PacedFetch.

**PacedFetch** (`C/fetch.rs`: `fetch_with_retry`, `fetch_once`, `follow_redirect`, `classify`,
`read_body`; `C/error.rs`: `is_transient`). One action per stretch of a request: `Hop` classifies the URL
and takes a slot of that host's pacer, `Send` waits for it, and the answer is `Unchanged`,
`Redirected`, `Busy` or a body, which arrives in `Chunk`s. `Fails` is the retry loop. Servers answer
anything: any status, `Location`, `Retry-After`, declared and actual length. Of the pacers
only the distance to now is kept (`ahead`), so that time needs no bound; that a slot may be taken in
one step is what `Pacer` implementing `RateLimit` says. `told` and `requests` are history.

**ReadmeText, ReadmeCalls** (`C/readme.rs`, `C/lib.rs` `readme`, `C/cache.rs` `derive`, `extract_detail`
of `C/fetch.rs`, `S/untrusted.rs`). `ReadmeText` is pure: texts are sequences of tokens, one per
*kind* of character (prose of one byte and of two, the rest of a URL, back-ticks, brackets, blanks),
and each operator does what the function of that name does to them, byte offsets included.
`ReadmeCalls` puts `PacedFetch` below and the server above it: `Ask`, `Begin` under the gate, `Settle`,
then `Remembered` or `Derive` and `Memoize`, and the answer in its frame. The conversion from HTML is
external: pages begin as its output, or as a page it failed on.

**DiskCell, DiskStore** (`C/disk.rs`, `load` and `store`). One key, between file system
calls. Names lead to inodes; an open file keeps its inode when its name is replaced. A file is
a sequence of parts, each knowing the layout and the artifact it belongs to, so that `Accepts`
(header and checksum) can tell a whole file from a cut, mixed or foreign one. What fails need not leave things tidy:
the directory may be missing before anything is created (`NoDirectory`), a file may not be readable (`ReadFails`),
and the removal of a temporary after a failed write may fail too and be ignored (`C/disk.rs:280`, the fault
`stuck`), so that the next store under that name finds it there. `crew` is who is at work
in a behaviour: threads of different processes, or of one, which then share a temporary name. `DiskCell`
is the promise: a cell replaced whole, or dropped; it is kept when no two of the crew share a process (`Apart`).

**DiskPrune** (`C/disk.rs`, `prune`). Listing entry by entry, then removing the oldest until
the pruner's own sum fits, with other pruners, stores and files that cannot be removed. An entry whose metadata
cannot be read (`Veiled`) is either passed over, because it went away, or ends the pruning (`GiveUp`), as does an entry
that cannot be listed. `beyond` is history: what a pruner cannot answer for.

**Freshness** (`effective_ttl`, `CachedBody`, `StoredBody`). Responses for one URL on two clocks: the
monotonic one in ticks, the wall clock in whole seconds on disk. `Second` is a number of
ticks, so that truncation can be seen. Each reading of a clock is a step: the body arrives (`Receive`, `Instant::now`), its
record is stamped in wall seconds when the blocking thread gets to it (`Persist`), `Read` computes what is left of a
record by the wall clock, and `Load` turns that into a lifetime by the monotonic one. Time passes, and the wall clock is
set either way, between any two of them. Records also come from other servers (`OthersReceive`), and an origin may send directives that
contradict one another. The file itself appears at once when it is stamped; how it gets there is `DiskStore`. History:
`ends` is when the origin's grant ends, counted from the moment the body was complete, `late` how long after it a
record was stamped, and `over` by how much a copy in memory may therefore overrun.

**DocPipeline** (`C/lib.rs`, `doc_index`). Memory and disk are the sets of
releases they hold; `parses` and `writes` count blocking threads whose caller was dropped. The disk may fail to be
read, and other servers store there whenever they like. History: `doubled` are the releases whose gate was forgotten
since the process started, and `unaware` the calls past their look at the disk that do not know of an index there, because
they could not read it or because somebody stored one since.
A client without a disk is one whose stores always fail.

**VersionSelect, ToolCalls** (`C/index.rs`, `C/version.rs`, `S/server.rs`). `VersionSelect` is
pure: the order of an index (`ByVersion`), selectors (`Accepts`) and the choice (`Best`). Versions are
triples of a line, a patch and a stage, so that semver's order is theirs. A requirement is any set of comparators, each
an operator (caret, `=`, `>`, `>=`, `<`, `<=`) and a full version (`Meets`, `Matches`); tildes, wildcards and parts of
versions are shorthands for two of them, and `*` is none. `ToolCalls` is the server:
each task serves one call at a time (`search`, `info`, `versions`, `dependencies`, `documentation`), refuses
bad arguments before it reads anything, `pending` is what its `try_join!` or `join!` still
waits for, and `Composed` the answer made of what came. A version too long to have a page of
documentation (`Overlong`) fails its call after the index was read. `views` are the entries of the body cache
for the index and the build statuses; here a fetch is one step, `Fetcher` has the steps of it. The
registry and docs.rs are external: releases are published and yanked, builds fail and are made again. An error is its
kind and the upstream's status; `Faults` are those that say nothing about the registry (of the kinds in
`FaultKinds`, with any status but 404), and the code and retry hint a client is given are those of `C/error.rs` and `S/error.rs`.
`log` is history: what the world was, and until when.

**DocLookup, DocArenas, DocIndex** (`C/docs.rs`). `DocIndex` has several parses of one document, each
visiting the entries of the document's tables in any order (`Visit`), as the randomly seeded
maps of the code do; items, the bodies of types and traits, their members, re-exports, `Assemble` and
the orderings follow `build`. `stage` is how far a parse is. The rows a parse has are kept as a set until they are
laid out, in any order they may have been collected in (`Arrivals`); sorting and removing duplicates is what it
does: one row of each path (`Deduplicated`), none of which another of its path comes before, in order (`InOrder`). `DocArenas` is where the text goes: `Put` pushes onto an arena and gives a span
or overflows at `SpanMax` (the 32-bit limit), rows hold spans only, `Compact` lays everything out
again in the order the rows are then in, and `ToStored` is the form on disk. `DocLookup` is the pure part: `Lookup` by binary search,
sorted names (`Sorted`), partition points (`Stretch`) and the trigram filter, and `LookupLinear`, the passes over all
rows the repository's own tests compare it with. What either finds are rows at places (`Those`). Texts are sequences
over a small alphabet with two cases and the colon. Names and segments are identifiers (`PathConstants`): with a
colon at an edge of a segment (`a:::b`, looked up as `:b`) the two would differ, as the last segment of a path that
ends in `::` and a query would not be the query's.

## What TLC checks

| Run | Question | Bounds, and why they are enough |
|---|---|---|
| `pacer` | Do racing callers share one rate, and does each get out? | Two tasks, three requests, an interval of two ticks, the end of the timeline one tick past the last clock reading. Two tasks make every lost race, a third adds only more of them; the third request meets the pause or the end of the timeline after the others. |
| `fetch_shared` | Do callers, memory, disk, restarts and other servers agree? | Two tasks, three calls, two revisions, lifetimes that end within the run and that do not, dropped callers, and one record another server has on its way. Three calls are a fill, an overtaking caller and a witness. |
| `fetch_moved` | Is a validator only used where it came from, and does every call end? | Two URLs whose first revisions have the same number, one retry, one forgotten gate and two calls: a holder and a waiter, or two callers in the fetch at once, under every failure. |
| `readme_path` | Is a chain of requests bounded, paced and polite, and is each caller shown its own part of a README, safely framed? | Two callers; two redirects and one retry, so that a chain can go to the CDN and back, and a pause of one hop meets a later hop or the retry; a queue of two slots that others fill; bodies at and over the limit; pages of one and two lines out of twelve kinds, and of three behind a fence; budgets of nothing, one character, about a line, and more than most pages. |
| `disk_key` | Is a key an atomic cell for processes of two builds, and an answer right even when two threads use one temporary name? | A crew of two processes or of two threads of one, artifacts of one and of two writes, so that files can be cut, mixed and too long; every fault, a temporary that cannot be removed included. |
| `disk_prune` | Does the directory fit, and at the least cost? | Three files of one or two units and a capacity of two, so that none, some or all have to go; two pruners, one store, one file that cannot be removed, one whose metadata cannot be read. |
| `fresh_served` | For how long is a copy served beyond its grant, through restarts, other servers and a clock that is set? | Two ticks to a second and eleven ticks; grants of one and three seconds, none, and pairs of directives that contradict one another; one record on its way besides the one on disk; two steps of the wall clock, forward, back within a second, and back across several. Two ticks show every truncation; eleven let a grant of three seconds be stored, read and loaded at different ticks, end, and be set back. |
| `doc_pipeline` | Is work repeated, and does every call end? | Two tasks, two releases, one permit, three calls and every fault, other servers' stores included. |
| `doc_index` | Is the index a function of the document, complete, made of its own text, and rightly searched? | Two parses of forty documents of up to eight rows around a ceiling of six, with same-path rows that differ in one field each, items visited twice, members unknown and named; arenas of 39 characters, which some of the documents fill and some exceed; queries of up to three characters, and paths. Rows arrive in one order or its reverse (`AnyArrival = FALSE`): all their orders are for the proofs. |
| `tool_calls` | Do the tools pick and say the right thing while the registry changes? | Two tasks, a crate with three of five versions (two lines, releases, pre-releases, one that is not semver, yanked or not), thirteen requests over the five tools, two of them refused, two versions lists and a documentation call with a requirement that admits a pre-release above the highest release, a version too long for a page, errors that pass and that do not, one change of the world at any moment, and a clock that outlives an index and an absence. A second change makes no new kind of staleness. |
| `disk_torn` | (violated) Can a key's name lead to a torn file? | One process with two threads. |
| `doc_ceiling` | (violated) Do dropped calls count as parses? | One permit, two tasks. |

`CHECK_DEADLOCK FALSE` stands in the runs whose number of calls, stores or ticks is bounded:
they end when the bound is reached. The disk store has no such bound, and there TLC checks
that something can always go on. Symmetry of tasks is used in `fetch_shared` and
`tool_calls` only, which have no liveness property.

Three runs without a liveness property compare states by a `VIEW` of what the steps from a state, and the properties, depend
on. `Ahead` (`fetch_shared`) leaves out the traffic counters and when an idle task's last call began; `Lives` (`fresh_served`) counts
times from now; `Linkage` (`disk_key`) knows an inode by what leads to it, not by its number.

Each component's module states one type invariant. Those that are part of an inductive invariant proved for
all constants are in no run: a run's properties are those that could say something new about
the code.

### The two violated runs

* `disk_torn`: the temporary name holds the process id only (`C/disk.rs:274`). Two blocking
  threads of one process can store one key at once: a store whose caller was dropped runs on
  while the next caller stores. They truncate and write one file, and rename it half-written. The
  comment beside it says a reader "only ever sees a name that arrived there whole". Readers
  reject the torn file, which is what `disk_key` shows and `NeverWrong` proves.
* `doc_ceiling`: the parse permit is a guard of the call (`C/lib.rs:371`). A dropped call gives
  it back while its document is still being parsed on a blocking thread, so more documents are
  parsed at once than `concurrent_doc_parses` says (`C/config.rs:77`).

### Fairness

* Pacer: the runtime polls every task that can go on, time passes, and a compare-exchange
  that could succeed does not fail spuriously for ever. `Retry` counts as progress only when the
  word has moved: somebody else's claim. Claims are bounded in a run, as are shed callers in
  the code (the ceiling on the wait bounds how many can be ahead).
* Fetcher: ready tasks are polled; requests and bodies are bounded by the client's timeouts
  (`C/fetch.rs`, `Fetcher::new`), so an answer or its loss comes; the disk is on a blocking
  thread. Strong fairness for `Lock` only, as tokio's mutex queues its waiters in order.
* DocPipeline: the same, and strong fairness for `Permit`, as tokio's semaphore queues too.

Nothing is assumed of what the world may do: dropped callers, failures, evictions, publications.

## What TLAPS proves

Each theorem holds for all values of the constants its module's named `ASSUME` allows (naturals, finite
sets, at least one permit, no inode called `Nothing`), and for the premises named below. No
property proved was inductive as it stands; each section names what had to be added.

`PacerProofs`, for every set of tasks, interval, ceiling, set of pauses and width of the word:

* `TypeCorrect` (`TypeOK`): saturating sums never leave the timeline.
* `Inductive` (`IInv`), and from it `SlotsAlwaysSpaced`, `WaitAlwaysBounded`, `PauseRespected`.
  What is inductive: the word lies an interval past *every* slot handed
  out, and no earlier than any pause (`TimelineCovers`); a task's clock reading is never
  in the future. A successful exchange proves that the word is what the task observed, so its
  candidate is at or past the word, hence spaced from all slots and beyond all pauses, however old
  the observation is. The wait was computed from an older clock and only overstates.
* `BudgetAlwaysKept`: the k-th slot lies at least k - 1 intervals into the timeline (`SlotsLate`), and
  there is an injection of the requests that have left into the slots, each no later than its request
  (`Matches`, an existential part of the invariant); so there are no more requests by a tick than slots, and
  counting is by the library's theorem on injections.
* `TimelineNeverMovesBack`, an action property that needs only types.
* `PacerImplementsRateLimit`: every step of the lock-free code is an atomic grant or pause, an
  advance of the clock, or a stutter; the moment a caller asked is its clock reading, which
  `IInv` bounds by the clock.

`FetcherProofs`, for any number of callers, lifetimes, retries, revisions and faults:

* `Coalescing` (`NoNeedlessRequest`), unless gates are forgotten: a gate has one holder (`Exclusive`), there
  is one gate (`OneGate`), and a holder who fetches has seen that nothing fresh was there (`Needed`).
* `AbsencesAreBrief`, unless a server sends a 304 nobody asked for, which the code would apply to
  an absence as to anything else.
* `AnswersJustified` and `RevalidationsSound`, unconditionally: what a call knows of its own request
  (`OwnRequests`) survives whatever others do meanwhile.
* `NeverBack` (`NeverGoesBack`): no call returns an older revision than a call before it did, except one that finds no
  copy in memory and on disk a record that came there late (`Excused`). It is proved in calm weather (`Calm`): no forgotten
  gates or unasked 304s, and a persistent client keeps successes in memory too. Dropped callers, other servers'
  writes, evictions, restarts, failed writes, moves and every other fault are allowed. The invariant `Forward` orders every copy
  there is: memory, what calls have received and are writing, what was returned, and the record on disk unless
  it is late.

`ReadmeProofs`, for any callers, limits, budgets and pages, whatever servers answer:

* `RequestsBounded`, `RequestsPaced` and `PausesKept`. A call's requests are counted by its retries and the
  hops of the current attempt (`Counted`); a slot held is one of the host the call is at (`SlotOfHost`); and
  what a call was told of a host that host's timeline covers, so that slots it takes later lie past the pause.
  `ReadmeFetches` shows that `ReadmeCalls` implements `PacedFetch`, and thereby has all three
  (`ReadmeBounded`, `ReadmePaced`, `ReadmePausesKept`).
* `ReadInvariant`: who fetches is alone, so a page once cached stays, and what any caller has derived is the
  Markdown of that page. What `to_markdown` makes of a page is a `Document`: empty, or beginning with ink, with no
  blank at the end of a line. From it `BudgetsAreOwn` and `SomethingShown` (the beginning that a budget allows
  is never blank, for byte offsets that never split a wide character), `FramesHold` (a fence is longer than any run
  of back-ticks in its text, wherever that was cut) and `ErrorsQuoteMessages`.
* `LinksOnly` (`OnlyLinksChange`), for pages whose links are as the converter writes them (`AsWritten`, which
  `readme_path` checks of its own pages): links are not nested, a destination holds no prose and no square brackets,
  one that is never closed names no unknown scheme, no line becomes a fence by losing a link, and in a page that
  could not be converted tags hold no prose and there is no code. Without any one of these there are pages for which
  the property fails. Line by line, a rewritten line says what it said (`SaidRewritten`), and has no link to an
  unknown scheme: what has been written of it is `Whole`, in that nothing behind it can complete a link it began,
  and the rest `Begins` one of its own (`NotOddRewritten`). The whole text is trimmed twice and its blank lines
  collapsed. So what is compared is not its lines but those that are not blank (`Written`): fences, code and links
  lie on them (`CodeInked`), and trimming and collapsing leave them alike, that is, equal but for white space at the
  ends (`Alike`; `AroundWritten`, `CollapseWritten`).

`DiskProofs`, for any processes, threads, builds, artifacts of any length, crews and faults:

* `NeverWrong` (`NoWrongAnswer`), also for threads that share a temporary name. Files may well be torn; the
  invariant says into what: every part was part of something stored (`Clean`), or the file was found and nobody can
  write to it (`Harmless`). A whole file is known by any one of its parts, so what decodes was stored.
* `KeyIsACell` (`ImplementsCell`) and `LoadsAtOnce` (`LoadsAtomically`) for processes of one thread each. No
  inode has two names (`NamesApart`), a writer's inode holds exactly what it has written (`StoresAlone`), a
  reader's is what it was when opened (`LoadsAlone`). `FreeInode` shows that the model never runs out of inodes.
* `StoresLandWhole` (`StoresLand`): a store that reports success has given the key's name the whole artifact it was asked to
  store, whatever was left under its temporary name, for processes of one thread each.
* For any number of pruners, files, sizes and stores at once: `OldestGoFirst` (a listing may be stale, but a
  file replaced since is newer than what was listed), `PrunesFit` (`Fits`, of a pruner that could list the
  directory and for what it could look at) and `RemovesOnlyWhenOver` (`OnlyWhenOver`). `SumInvariant` says what a pruner's running sum is worth: it is the size of what it still has on
  its list, and bounds what is left of the files it found. Sums over sets are the number of pairs of a
  file and one of its units, so that the library's facts on cardinality apply.

`FreshnessProofs`, for every unit, configured lifetime, set of headers and of clock steps, without a premise:

* `NeverServedLate` (`ServedWithinGrant`): a copy is served no longer than the origin granted and the client was configured
  to, plus what the reading of the clocks cost: the delay before the record was stamped, that between reading the wall
  clock and the monotonic one, and what the wall clock was set back since the stamp (a clock behind the stamp makes the record
  stale at once). A copy that never was on disk keeps its grant exactly. The invariant `Within` says of each place a lifetime may be, a
  receipt, the record, what was read of it and memory, that it is within the grant and that overrun, on its own
  clock and in its own unit; rounding loses, never gains.
* `RestartsCostLittle` (`RestartsAreCheap`), from the converse bounds (`Close`): while nobody sets the clock, two seconds at most.

`ToolCallsProofs`, for every set of versions, index, request, lifetime, fault and number of calls:

* `CallsInvariant`: each view was so at a moment that its remaining lifetime still covers, and what a call has
  read, picked or been refused is of such moments, whatever is published, yanked or built meanwhile.
* `ToolsPickInTime` (`PicksInTime`): the code ranks candidates by a row of five numbers and takes the greatest; what is
  `Preferred` is a maximum of versions, among the releases if there is one. Rows are in a total order, candidates that are not yanked
  differ in the rest of their rank only (`BestLeads`), and of a version that is named there is but the one.
* `ToolsAgree` (`AnswersCohere`), for every requirement: what `get_crate_versions` lists, what it calls newest and latest, and
  what the other tools resolve come from the same index by different code. The order of an index is strict and total
  (`VersionOrderSorts`: by version, what is not semver at the bottom, the rest as published), so what a filter keeps
  of the descending index still descends (`DescendingFalls`, `KeptRises`), each version once, and begins with what
  comes before all else that passes (`FirstInOrder`). What `best` ranks first is the last by order of the releases among the candidates
  (`BestRepresents`), and a list leaves out nothing before what it has (`ListsDown`), so it is the first release
  listed (`ListLeads`). That a version is listed once rests on the registry's taking a version once, assumed of the first index
  (`PublishedOnce`) and shown to last.
* `BuildFlagsHonest`, from the moments alone, and `ToolErrorsHonest`, from them and `ResolvesPreferred`; `CallTypes`.
  That a fault never carries a 404 is what makes a 404 mean an absence (`ToolConstants`).

`DocProofs`, the pipeline, for any number of callers, releases and permits, under every fault:

* `NeverParsedNeedlessly` (`NoNeedlessParse`) and `ParsesBounded`, from the inductive `IInv`. `NoNeedlessParse` is not
  inductive: a call that is fetching stays right only because no other call of the release is past the gate
  (`OnePastGate`), which holds only while all calls have the same gate (`OneGate`); and when it read the
  disk, memory was already known to be empty (`LookedUnderGate`). `doubled` and `unaware` name exactly those
  for whom a premise was given up.

`DocProofs`, the index, for any documents of finitely many entries, any parses, ceiling, span limit and every
order of arrival (also `AnyArrival = TRUE`):

* `RowsSayWhatTheySaid` (`SpansHold`). Text is only added to arenas (`Begins`), so a span goes on saying what it
  said; kinds are shared only between rows of that kind (`Interned`). `LayOutIs`: arenas overflow exactly when the
  text, counted once per row and once per kind, is more than spans can address, which does not depend on the order.
  So `CompactIs`: what fitted before rows were dropped fits after, in any order.
* `IndexIsReproducible` (`SameIndex`). Both orders of rows are strict and total (`ItemsSorted`, `ReexportsSorted`:
  the key tells any two different rows apart, prose and deprecation included), so the rows kept are the best of each
  path, each with one place (`InOrderIs`), and what is built is a function of the *sets* of rows (`IndexIs`). The
  invariant `BuildInv` says that below the ceilings these sets are those of the document.
* `NothingMissing` (`Complete`): a parse that was not cut short has the rows of every entry it visited, members
  included (`VisitAdds`), and the best row of a path is documented when any is.
* `LookupIsLinear` (`LookupAgrees`), whatever the documents, the slots of the filter and the queries. Names are in a
  strict total order (`NameOrderSorts`); what lies between two partition points of a list in that order is a name's
  places, from first to last (`StretchIs`, with `PartitionPoint` and `OrderIsOnly`: there is one way to be in order).
  Rows come out of `Assemble` rising by path, each path once (`SortedItemsRise`), so the binary search is such a
  stretch as well. A path that ends in `::` and the query has the query's last segment (`SuffixSegment`, from
  `PathConstants`), so that step loses nothing by looking at that name only; and a path's
  windows are windows of the arena it lies in (`FlattenLies`, `WindowsLie`), so the filter turns away no match.
* `BuildTypes`: rows stay within `MAX_ITEMS`, members counted; `MoreThanRoom` is why.

`Induction` restates induction over data with sets and functions, which the provers can instantiate where they
cannot instantiate operators: a family of finite sets has a smallest member (`SmallestSet`, from the library), hence
a set of numbers a least (`LeastNatural`), what is handed on from each number to the next holds of all (`UpTo`),
functions that refer to smaller arguments exist (`Recursion`), folds over sequences run step by step
(`FoldExists`, `FoldRuns`), and some of the first numbers have a last by any order (`GreatestByOrder`). Of lists: things
in a strict total order have one place each (`PlacesAre`, `InOrderIs`), there is one way to be in order
(`OrderIsOnly`), a part of a list in order is in order (`KeptRises`), and parts of parts are parts (`ThoseOfThose`).

### Only model-checked

Liveness (`EverySlotServed`, `ReserveReturns`, both `CallsEnd`), which is out of the prover's reach with
`ENABLED`. Every other property of a passing run is a theorem.

## Observations

The models also show the following, none of which contradicts a stated promise strongly enough,
or matters enough, for a run of its own.

* A slot claimed before a pause is used inside the pause (`C/pacer.rs:105`), and slots are spaced,
  not departures: a caller woken late sends right before the next (`BudgetKept` is what remains true).
* Callers waiting at a gate whose holder fails, or gets an answer that may not be kept, each send
  a request of their own, one after the other (`C/fetch.rs:345`).
* A request whose response is lost is not counted in `network_requests` (`C/fetch.rs:507`).
* The disk write of a dropped caller, or of another server, may land after a newer one, and an eviction then brings the
  older body back within its lifetime (`C/disk.rs:269`): that is what `NeverGoesBack` excuses.
* Another server's store, or an earlier caller's, may bring an index to the disk while a call that has looked there fetches
  and parses the same document (`C/lib.rs:345`): `unaware` in `NoNeedlessParse`.
* A temporary that cannot be removed after a failed write stays (`C/disk.rs:280`), although no process died; prunes do
  not see it. The next store under its name truncates it, which is what `StoresLand` checks.
* `load` removes what it rejects by name (`C/disk.rs:249`): foreign files too, and a good file that
  arrived since the read. Both cost a fetch and no more.
* Two pruners at once remove more than they must (`C/disk.rs:326`); temporary files left
  by crashes are neither counted nor removed (`C/disk.rs:308`).
* `missing_readme` reports every 403 as a README that does not exist (`C/lib.rs:441`), also one of the API, of
  which the comment on `is_absence` says that "treating that as absence would bury it"
  (`C/fetch.rs:653`). It is not remembered, though: `is_absence` is asked for that.
* A fence closes at the next line that starts with three back-ticks, however long it was opened
  (`C/readme.rs:107`): inside a longer fence that shows a shorter one, links in code are rewritten.
  `OnlyLinksChange` reads fences as the code does.
* A destination that is never closed ends the rewriting of its line (`C/readme.rs:121`), so that links behind it
  stay as they were; and whether a line is a fence is asked before its links are rewritten (`C/readme.rs:107`):
  an emptied link before three back-ticks leaves a fence where there was none. The converter writes neither.
* A 403 of the CDN for the index of a crate nobody has published is remembered as an absence and
  reported as an upstream error, as only a 404 becomes "crate not found" (`C/lib.rs:428`).
* A record may be served longer than its grant by what passes between the completion of the body and the stamp of the
  record, an await and a blocking thread later (`C/fetch.rs:346`, `C/fetch.rs:401`), and between the two readings when it
  is loaded (`C/fetch.rs:379`); and by as much as the wall clock is set back to a moment after the stamp (`C/disk.rs:128`). The
  comments at `C/disk.rs:124` and `C/fetch.rs:709` promise more. Of directives that contradict one another the first decides
  (`C/fetch.rs:715`): `max-age=60, no-store` is served for a minute, which `fresh_served` takes for the grant.
* Above `MAX_ITEMS` the rows kept, and (unreported by `truncated`) the re-exports kept, depend
  on the order of the hash maps (`C/docs.rs:577`, `C/docs.rs:1208`): `SameIndex` is stated below
  the ceilings.
* The choice falls back to a pre-release when every release is yanked, too (`C/version.rs:138`);
  the comments on `Selector::Default` (`C/version.rs:13`) and on the tool's argument (`S/tools.rs:243`) speak of crates that
  only ever published one. And a requirement such as `>=1, <2.0.0-rc.2` resolves to the highest *release* it admits, not
  to the highest version that satisfies it as `Selector::Matching` has it, while `get_crate_versions` lists the
  pre-release it admits above it: `Preferred` and `AnswersCohere` say what the code does there.
* A caller who asks for documentation and names no version is told INVALID_PARAMS when the version picked has more than 64
  characters, after the index was read (`S/server.rs:321`): `ErrorsHonest` allows for that one case.

## Not modelled

Modelled first was what is shared by concurrent callers: the pacer, the fetch layer, the disk, the
documentation pipeline; then the tools on top of them, the redirect chains below them, and the text they show.
What is left:

* Partly modelled: the sparse index's line format, dependencies and features (`C/index.rs`), reading a
  rustdoc document from JSON and its decompression (`C/docs.rs`), the shapes of results (`S/tools.rs`), the
  responses and URLs of the API (`C/api.rs`), and the conversion from HTML (a library). All of them convert
  data without state, order or failure of their own; what they fail with is an outcome in the modules above.
* Not composed: `Fetcher` with `PacedFetch`. Each has what the other leaves out, and their product with
  two callers is beyond TLC's reach in minutes; `ReadmeCalls` composes `PacedFetch` with the least cache
  that the README needs.
* Not proved either, for the same reason: that a chain of `PacedFetch` is one fetch of `Fetcher`, whose cache, gates and
  copies on disk the chain knows nothing of.

Left out for good: wording, logging, URL building, JSON shapes and HTML conversion, which are data
conversion without state; TLS, HTTP and the runtime, which are external. Each appears as an
action of the environment where its outcome matters.
