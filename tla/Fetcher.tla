------------------------------- MODULE Fetcher -------------------------------
(***************************************************************************)
(* One URL behind the shared HTTP layer (crates-io-client, fetch.rs with   *)
(* cache.rs and gate.rs): the in-memory body cache, the per-URL gate, the  *)
(* disk tier of the sparse index, conditional revalidation and retries.    *)
(*                                                                         *)
(* Concurrent tasks run Fetcher::get.  Every await is a step boundary: the *)
(* gate, the disk read, the pacer, the request, the body, the backoff and  *)
(* the disk write; at each the caller may be dropped.  The origin is an    *)
(* environment that changes the resource while requests are under way, may *)
(* move it behind a redirect, refuse, fail or ask for a pause.             *)
(*                                                                         *)
(* A resource is served from one of two URLs: "home", the one callers ask  *)
(* for, or "mirror", where home redirects to (a README asked of the API    *)
(* and served by the CDN).  Each URL numbers its own revisions, and the    *)
(* revision number is the entity tag: a tag means nothing at the other     *)
(* URL.  Revision 0 of an entry is the remembered absence.                 *)
(*                                                                         *)
(* The disk directory is shared: every MCP client launches a server of its *)
(* own, and all of them read, write and prune the same files without a     *)
(* lock (disk.rs save).  What the others do to this URL's record are steps *)
(* of the world (OthersFetch, OthersWrite, OthersRemove).                  *)
(***************************************************************************)
EXTENDS Naturals, FiniteSets

CONSTANTS
  Tasks,        \* callers of Fetcher::get for this URL
  Grants,       \* lifetimes effective_ttl can return (policy ttl and headers)
  NegativeTtl,  \* policy.negative_ttl
  MaxRetries,   \* Fetcher::max_retries
  Store,        \* policy.store: whether successes are kept in memory
  Persistent,   \* whether persistable(url) and a disk store is configured
  Faults,       \* which of the FaultKinds below may happen
  MaxClock,     \* bound: ticks
  MaxRev,       \* bound: revisions per URL
  MaxGen,       \* bound: gates forgotten
  MaxCalls,     \* bound: calls of get
  MaxTheirs     \* bound: records other servers have on their way to the disk

Urls == {"home", "mirror"}

FaultKinds ==
  {"lost",      \* a request or its body fails in transport
   "busy",      \* 429 or 5xx
   "refused",   \* any other error that is not absence and not transient
   "bogus",     \* a 304 although nothing was asked conditionally
   "shed",      \* the pacer's queue is full
   "cancel",    \* the caller's future is dropped
   "evict",     \* the body cache drops an entry under its size bound
   "forget",    \* the gate set drops a gate, idle or over capacity
   "diskfail",  \* a disk write fails
   "others",    \* other servers share the disk directory
   "restart",   \* the process ends and a new one starts
   "move",      \* the resource moves between the two URLs
   "remove"}    \* the resource disappears

ASSUME FetcherConstants ==
  /\ Grants \subseteq Nat
  /\ NegativeTtl \in Nat
  /\ MaxRetries \in Nat
  /\ Store \in BOOLEAN
  /\ Persistent \in BOOLEAN
  /\ Faults \subseteq FaultKinds
  /\ {MaxClock, MaxGen, MaxCalls, MaxTheirs} \subseteq Nat
  /\ MaxRev \in Nat \ {0}

VARIABLES
  clock,    \* monotonic time
  origin,   \* the resource: where it is served, its revisions, whether it exists
  mem,      \* bodies: the cached entry of this URL, or None
  disk,     \* the record in the disk store, or None
  gen,      \* which gate the gate set currently hands out
  pc,       \* where each task is in get
  gate,     \* the gate each task was handed
  stale,    \* the expired entry a task holds to revalidate, or None
  cur,      \* the URL of the current hop
  tries,    \* retries spent
  tag,      \* the validator sent with the current hop, 0 for none
  reply,    \* the origin's answer under way, or None
  writing,  \* the record a task waits to see written, or None
  orphans,  \* records whose writer outlived its caller
  theirs,   \* records other servers have fetched and not written yet
  answer,   \* what the last call of each task returned
  stats,    \* the traffic counters
  began,    \* history: when each task's call began
  newest,   \* history: newest revision of each URL any call has returned, but see Excused
  calls     \* calls begun (to bound the run)

vars == <<clock, origin, mem, disk, gen, pc, gate, stale, cur, tries, tag, reply,
          writing, orphans, theirs, answer, stats, began, newest, calls>>

\* What a call keeps on its own stack.
Locals == <<gate, stale, cur, tries, tag, reply, writing>>

None == [rev |-> 0, at |-> "none", until |-> 0, asOf |-> 0, late |-> FALSE]

Larger(a, b) == IF a >= b THEN a ELSE b

\* A cached body: the revision and the URL it came from (final_url), when its
\* lifetime ends (stored_at + fresh_for), and, as history, when the origin last
\* vouched for it and whether it came to the disk late: by another server, or by a
\* write whose caller was gone.
Entry(rev, at, until, asOf) ==
  [rev |-> rev, at |-> at, until |-> until, asOf |-> asOf, late |-> FALSE]

IsSome(e) == e.at # "none"
IsOk(e) == e.rev > 0
IsFresh(e) == IsSome(e) /\ clock < e.until
MayHappen(fault) == fault \in Faults

Zero == [cache_hits |-> 0, coalesced |-> 0, disk_hits |-> 0, network_requests |-> 0,
         not_modified |-> 0, retries |-> 0, shed |-> 0, disk_writes |-> 0]

Count(field) == stats' = [stats EXCEPT ![field] = @ + 1]

InFetch == {"acquire", "send", "flight", "reply", "backoff"}
Holding == {"check", "load", "persist"} \cup InFetch
States == {"idle", "look", "gate", "lock"} \cup Holding

NoReply == [kind |-> "none", rev |-> 0, asOf |-> 0]
NoAnswer == [kind |-> "none", entry |-> None]

\* What Fetcher::interpret makes of a cached body.
Interpret(e) == [kind |-> IF IsOk(e) THEN "ok" ELSE "absent", entry |-> e]
Failure == [kind |-> "error", entry |-> None]

Init ==
  /\ clock = 0
  /\ origin = [at |-> "home", rev |-> [u \in Urls |-> IF u = "home" THEN 1 ELSE 0],
               exists |-> TRUE]
  /\ mem = None
  /\ disk = None
  /\ gen = 0
  /\ pc = [t \in Tasks |-> "idle"]
  /\ gate = [t \in Tasks |-> 0]
  /\ stale = [t \in Tasks |-> None]
  /\ cur = [t \in Tasks |-> "home"]
  /\ tries = [t \in Tasks |-> 0]
  /\ tag = [t \in Tasks |-> 0]
  /\ reply = [t \in Tasks |-> NoReply]
  /\ writing = [t \in Tasks |-> None]
  /\ orphans = {}
  /\ theirs = {}
  /\ answer = [t \in Tasks |-> NoAnswer]
  /\ stats = Zero
  /\ began = [t \in Tasks |-> 0]
  /\ newest = [u \in Urls |-> 0]
  /\ calls = 0

Goto(t, label) == pc' = [pc EXCEPT ![t] = label]

\* History: memory has lost its copy, and what the disk holds instead came late.
Excused(t) == pc[t] = "load" /\ ~IsSome(mem) /\ disk.late

\* The call ends: its locals and its guard are dropped.
Leave(t, result) ==
  /\ Goto(t, "idle")
  /\ answer' = [answer EXCEPT ![t] = result]
  /\ newest' = IF result.kind = "ok"
                 THEN [newest EXCEPT ![result.entry.at] =
                         IF Excused(t) THEN result.entry.rev ELSE Larger(@, result.entry.rev)]
                 ELSE newest
  /\ gate' = [gate EXCEPT ![t] = 0]
  /\ stale' = [stale EXCEPT ![t] = None]
  /\ cur' = [cur EXCEPT ![t] = "home"]
  /\ tries' = [tries EXCEPT ![t] = 0]
  /\ tag' = [tag EXCEPT ![t] = 0]
  /\ reply' = [reply EXCEPT ![t] = NoReply]
  /\ writing' = [writing EXCEPT ![t] = None]

World == <<clock, origin, gen, theirs, began, calls>>
Results == <<answer, newest>>

-----------------------------------------------------------------------------
(* get: the fast path, the gate, the second look *)

Call(t) ==
  /\ pc[t] = "idle"
  /\ calls < MaxCalls
  /\ calls' = calls + 1
  /\ began' = [began EXCEPT ![t] = clock]
  /\ answer' = [answer EXCEPT ![t] = NoAnswer]
  /\ Goto(t, "look")
  /\ UNCHANGED <<clock, origin, mem, disk, gen, orphans, theirs, stats, newest, Locals>>

FastHit(t) ==
  /\ pc[t] = "look"
  /\ IsFresh(mem)
  /\ Count("cache_hits")
  /\ Leave(t, Interpret(mem))
  /\ UNCHANGED <<World, mem, disk, orphans>>

FastMiss(t) ==
  /\ pc[t] = "look"
  /\ ~IsFresh(mem)
  /\ Goto(t, "gate")
  /\ UNCHANGED <<World, mem, disk, orphans, Results, stats, Locals>>

\* self.gates.get(&key).await
TakeGate(t) ==
  /\ pc[t] = "gate"
  /\ gate' = [gate EXCEPT ![t] = gen]
  /\ Goto(t, "lock")
  /\ UNCHANGED <<World, mem, disk, stale, cur, tries, tag, reply, writing, orphans,
                 Results, stats>>

\* Mutant of Lock: everybody waits until nobody else waits.
LockPolitely(t) ==
  /\ pc[t] = "lock"
  /\ \A u \in Tasks \ {t} : ~(pc[u] \in Holding \cup {"lock"} /\ gate[u] = gate[t])
  /\ Goto(t, "check")
  /\ UNCHANGED <<World, mem, disk, orphans, Results, stats, Locals>>

\* gate.lock().await
Lock(t) ==
  /\ pc[t] = "lock"
  /\ \A u \in Tasks : ~(pc[u] \in Holding /\ gate[u] = gate[t])
  /\ Goto(t, "check")
  /\ UNCHANGED <<World, mem, disk, orphans, Results, stats, Locals>>

Coalesced(t) ==
  /\ pc[t] = "check"
  /\ IsFresh(mem)
  /\ Count("coalesced")
  /\ Leave(t, Interpret(mem))
  /\ UNCHANGED <<World, mem, disk, orphans>>

\* Mutant of Recheck: no second look under the gate.
RecheckBlind(t) ==
  /\ pc[t] = "check"
  /\ stale' = [stale EXCEPT ![t] = mem]
  /\ Goto(t, IF Persistent /\ ~IsSome(mem) THEN "load" ELSE "acquire")
  /\ UNCHANGED <<World, mem, disk, gate, cur, tries, tag, reply, writing, orphans,
                 Results, stats>>

\* Mutant of Recheck: the disk is consulted although memory holds an expired copy.
RecheckAnyway(t) ==
  /\ pc[t] = "check"
  /\ ~IsFresh(mem)
  /\ stale' = [stale EXCEPT ![t] = mem]
  /\ Goto(t, IF Persistent THEN "load" ELSE "acquire")
  /\ UNCHANGED <<World, mem, disk, gate, cur, tries, tag, reply, writing, orphans,
                 Results, stats>>

\* Nothing fresh: what is there is kept to revalidate; the disk is consulted only
\* when memory holds nothing at all.
Recheck(t) ==
  /\ pc[t] = "check"
  /\ ~IsFresh(mem)
  /\ stale' = [stale EXCEPT ![t] = mem]
  /\ Goto(t, IF Persistent /\ ~IsSome(mem) THEN "load" ELSE "acquire")
  /\ UNCHANGED <<World, mem, disk, gate, cur, tries, tag, reply, writing, orphans,
                 Results, stats>>

-----------------------------------------------------------------------------
(* load_from_disk *)

\* Mutant of DiskHit: whatever is on disk is served.
DiskHitAnyAge(t) ==
  /\ pc[t] = "load"
  /\ IsSome(disk)
  /\ mem' = disk
  /\ Count("disk_hits")
  /\ Leave(t, Interpret(disk))
  /\ UNCHANGED <<World, disk, orphans>>

DiskHit(t) ==
  /\ pc[t] = "load"
  /\ IsFresh(disk)
  /\ mem' = disk
  /\ Count("disk_hits")
  /\ Leave(t, Interpret(disk))
  /\ UNCHANGED <<World, disk, orphans>>

\* Expired or missing: an expired record still carries its validator.
DiskMiss(t) ==
  /\ pc[t] = "load"
  /\ ~IsFresh(disk)
  /\ stale' = [stale EXCEPT ![t] = disk]
  /\ Goto(t, "acquire")
  /\ UNCHANGED <<World, mem, disk, gate, cur, tries, tag, reply, writing, orphans,
                 Results, stats>>

-----------------------------------------------------------------------------
(* fetch_with_retry and fetch_once *)

Acquire(t) ==
  /\ pc[t] = "acquire"
  /\ Goto(t, "send")
  /\ UNCHANGED <<World, mem, disk, orphans, Results, stats, Locals>>

\* RateLimitQueueFull is not transient: it ends the call.
Shed(t) ==
  /\ MayHappen("shed")
  /\ pc[t] = "acquire"
  /\ Count("shed")
  /\ Leave(t, Failure)
  /\ UNCHANGED <<World, mem, disk, orphans>>

\* Mutant of Validator: sent to whichever URL is asked.
ValidatorAnywhere(t) == IF IsOk(stale[t]) THEN stale[t].rev ELSE 0

\* The validator of a cached success, sent only to the URL that issued it.
Validator(t) ==
  IF IsOk(stale[t]) /\ stale[t].at = cur[t] THEN stale[t].rev ELSE 0

Send(t) ==
  /\ pc[t] = "send"
  /\ tag' = [tag EXCEPT ![t] = Validator(t)]
  /\ Goto(t, "flight")
  /\ UNCHANGED <<World, mem, disk, gate, stale, cur, tries, reply, writing, orphans,
                 Results, stats>>

\* External: what the origin answers to a request for url with a validator.
OriginReplies(url, validator) ==
  (IF url = origin.at /\ origin.exists
     THEN {[kind |-> IF validator = origin.rev[url] THEN "unchanged" ELSE "body",
            rev |-> origin.rev[url], asOf |-> clock]}
   ELSE IF url = "home" /\ origin.at = "mirror"
     THEN {[kind |-> "moved", rev |-> 0, asOf |-> clock]}
     ELSE {[kind |-> "absent", rev |-> 0, asOf |-> clock]})
  \cup {[kind |-> fault, rev |-> 0, asOf |-> clock] : fault \in Faults \cap {"busy", "refused"}}
  \cup {[kind |-> "unchanged", rev |-> 0, asOf |-> clock] : fault \in Faults \cap {"bogus"}}

Answered(t) ==
  /\ pc[t] = "flight"
  /\ \E r \in OriginReplies(cur[t], tag[t]) : reply' = [reply EXCEPT ![t] = r]
  /\ Goto(t, "reply")
  /\ UNCHANGED <<World, mem, disk, gate, stale, cur, tries, tag, writing, orphans,
                 Results, stats>>

\* A transient failure is retried until the budget is spent.
Transient(t, counted) ==
  IF tries[t] < MaxRetries
    THEN /\ tries' = [tries EXCEPT ![t] = @ + 1]
         /\ stats' = [counted EXCEPT !.retries = @ + 1]
         /\ cur' = [cur EXCEPT ![t] = "home"]
         /\ tag' = [tag EXCEPT ![t] = 0]
         /\ reply' = [reply EXCEPT ![t] = NoReply]
         /\ Goto(t, "backoff")
         /\ UNCHANGED <<gate, stale, writing, Results>>
    ELSE /\ stats' = counted
         /\ Leave(t, Failure)

Requested == [stats EXCEPT !.network_requests = @ + 1]

\* The transport fails: before the response (not counted as a request) or while
\* its body is read (counted).
Lost(t) ==
  /\ MayHappen("lost")
  /\ \/ pc[t] = "flight" /\ Transient(t, stats)
     \/ pc[t] = "reply" /\ reply[t].kind \in {"body", "absent", "refused"} /\ Transient(t, Requested)
  /\ UNCHANGED <<World, mem, disk, orphans>>

Busy(t) ==
  /\ pc[t] = "reply"
  /\ reply[t].kind = "busy"
  /\ Transient(t, Requested)
  /\ UNCHANGED <<World, mem, disk, orphans>>

BackedOff(t) ==
  /\ pc[t] = "backoff"
  /\ Goto(t, "acquire")
  /\ UNCHANGED <<World, mem, disk, orphans, Results, stats, Locals>>

\* A redirect: the next hop is paced like the first.
Redirected(t) ==
  /\ pc[t] = "reply"
  /\ reply[t].kind = "moved"
  /\ stats' = Requested
  /\ cur' = [cur EXCEPT ![t] = "mirror"]
  /\ tag' = [tag EXCEPT ![t] = 0]
  /\ reply' = [reply EXCEPT ![t] = NoReply]
  /\ Goto(t, "acquire")
  /\ UNCHANGED <<World, mem, disk, gate, stale, tries, writing, orphans, Results>>

\* An error status that is neither transient nor absence is not remembered.
Refused(t) ==
  /\ pc[t] = "reply"
  /\ reply[t].kind = "refused"
  /\ stats' = Requested
  /\ Leave(t, Failure)
  /\ UNCHANGED <<World, mem, disk, orphans>>

-----------------------------------------------------------------------------
(* The rest of get: remember, persist, interpret *)

\* (policy.store && status < 300) || absent
Cacheable(e) == (Store /\ IsOk(e)) \/ ~IsOk(e)

Finish(t, e) ==
  /\ mem' = IF Cacheable(e) THEN e ELSE mem
  /\ IF Persistent /\ IsOk(e)
       THEN /\ writing' = [writing EXCEPT ![t] = e]
            /\ Goto(t, "persist")
            /\ UNCHANGED <<gate, stale, cur, tries, tag, reply, Results>>
       ELSE Leave(t, Interpret(e))
  /\ UNCHANGED <<World, disk, orphans>>

\* Mutant of Received: an absence is kept as long as a body would be.
ReceivedAlike(t) ==
  /\ pc[t] = "reply"
  /\ stats' = Requested
  /\ reply[t].kind \in {"body", "absent"}
  /\ \E grant \in Grants :
       Finish(t, Entry(reply[t].rev, cur[t], clock + grant, reply[t].asOf))

\* A body arrives; an absence gets the negative lifetime, whatever its headers say.
Received(t) ==
  /\ pc[t] = "reply"
  /\ stats' = Requested
  /\ \/ /\ reply[t].kind = "body"
        /\ \E grant \in Grants :
             Finish(t, Entry(reply[t].rev, cur[t], clock + grant, reply[t].asOf))
     \/ /\ reply[t].kind = "absent"
        /\ Finish(t, Entry(0, cur[t], clock + NegativeTtl, reply[t].asOf))

\* 304: the cached body is kept, with the lifetime the 304 grants.  A 304 nobody
\* asked for is an error when there is nothing to keep.
NotModified(t) ==
  /\ pc[t] = "reply"
  /\ reply[t].kind = "unchanged"
  /\ stats' = [Requested EXCEPT !.not_modified = @ + 1]
  /\ \/ /\ IsSome(stale[t])
        /\ \E grant \in Grants :
             Finish(t, Entry(stale[t].rev, stale[t].at, clock + grant, reply[t].asOf))
     \/ /\ ~IsSome(stale[t])
        /\ Leave(t, Failure)
        /\ UNCHANGED <<World, mem, disk, orphans>>

\* store_to_disk returns; a failed write is only logged.
Persisted(t) ==
  /\ pc[t] = "persist"
  /\ \/ disk' = writing[t] /\ Count("disk_writes")
     \/ MayHappen("diskfail") /\ UNCHANGED <<disk, stats>>
  /\ Leave(t, Interpret(writing[t]))
  /\ UNCHANGED <<World, mem, orphans>>

-----------------------------------------------------------------------------
(* What happens around the calls *)

\* The caller is dropped at an await.  A disk write already handed to the blocking
\* pool carries on without it.
Cancel(t) ==
  /\ MayHappen("cancel")
  /\ pc[t] \notin {"idle", "check", "send"}
  /\ orphans' = IF pc[t] = "persist" THEN orphans \cup {writing[t]} ELSE orphans
  /\ stats' \in IF pc[t] = "reply" THEN {stats, Requested} ELSE {stats}
  /\ Leave(t, NoAnswer)
  /\ UNCHANGED <<World, mem, disk>>

OrphanWrites ==
  \E r \in orphans :
    /\ disk' = [r EXCEPT !.late = TRUE]
    /\ orphans' = orphans \ {r}
    /\ UNCHANGED <<World, mem, pc, Results, stats, Locals>>

Evict ==
  /\ MayHappen("evict")
  /\ IsSome(mem)
  /\ mem' = None
  /\ UNCHANGED <<World, disk, pc, orphans, Results, stats, Locals>>

\* The gate set drops this URL's gate; tasks that hold or await it keep theirs.
ForgetGate ==
  /\ MayHappen("forget")
  /\ gen < MaxGen
  /\ gen' = gen + 1
  /\ UNCHANGED <<clock, origin, theirs, began, calls, mem, disk, pc, orphans, Results,
                 stats, Locals>>

\* Only the disk survives.  An unfinished write is lost with its process.
Restart ==
  /\ MayHappen("restart")
  /\ IsSome(mem) \/ \E t \in Tasks : pc[t] # "idle"
  /\ mem' = None
  /\ orphans' = {}
  /\ stats' = Zero
  /\ pc' = [t \in Tasks |-> "idle"]
  /\ gate' = [t \in Tasks |-> 0]
  /\ stale' = [t \in Tasks |-> None]
  /\ cur' = [t \in Tasks |-> "home"]
  /\ tries' = [t \in Tasks |-> 0]
  /\ tag' = [t \in Tasks |-> 0]
  /\ reply' = [t \in Tasks |-> NoReply]
  /\ writing' = [t \in Tasks |-> None]
  /\ answer' = [t \in Tasks |-> NoAnswer]
  /\ UNCHANGED <<World, disk, newest>>

-----------------------------------------------------------------------------
(* Other servers on the same directory *)

\* Another server receives the resource as the origin serves it now.
OthersFetch ==
  /\ Cardinality(theirs) < MaxTheirs
  /\ origin.exists
  /\ \E grant \in Grants :
       theirs' = theirs \cup {[Entry(origin.rev[origin.at], origin.at, clock + grant, clock)
                                 EXCEPT !.late = TRUE]}
  /\ UNCHANGED disk

\* It writes what it has received, however long ago that was: nothing compares it
\* with what the file holds.
OthersWrite ==
  \E r \in theirs :
    /\ disk' = r
    /\ theirs' = theirs \ {r}

\* It prunes the directory, or removes a record it cannot use.
OthersRemove ==
  /\ IsSome(disk)
  /\ disk' = None
  /\ UNCHANGED theirs

Others ==
  /\ MayHappen("others") /\ Persistent
  /\ OthersFetch \/ OthersWrite \/ OthersRemove
  /\ UNCHANGED <<clock, origin, gen, began, calls, mem, pc, orphans, Results, stats,
                 Locals>>

-----------------------------------------------------------------------------
(* External: the origin and time *)

Publish ==
  /\ origin.rev[origin.at] < MaxRev
  /\ origin' = [origin EXCEPT !.rev[origin.at] = @ + 1, !.exists = TRUE]

Remove ==
  /\ MayHappen("remove")
  /\ origin.exists
  /\ origin' = [origin EXCEPT !.exists = FALSE]

\* The resource starts being served from the other URL, as a new revision there.
Move ==
  /\ MayHappen("move")
  /\ \E u \in Urls \ {origin.at} :
       /\ origin.rev[u] < MaxRev
       /\ origin' = [origin EXCEPT !.at = u, !.rev[u] = @ + 1, !.exists = TRUE]

OriginChanges ==
  /\ Publish \/ Remove \/ Move
  /\ UNCHANGED <<clock, gen, theirs, began, calls, mem, disk, pc, orphans, Results,
                 stats, Locals>>

Tick ==
  /\ clock < MaxClock
  /\ clock' = clock + 1
  /\ UNCHANGED <<origin, gen, theirs, began, calls, mem, disk, pc, orphans, Results,
                 stats, Locals>>

-----------------------------------------------------------------------------
\* What a running call does by itself; the rest is the world's choice.
Progress(t) ==
  \/ FastHit(t) \/ FastMiss(t) \/ TakeGate(t) \/ Coalesced(t) \/ Recheck(t)
  \/ DiskHit(t) \/ DiskMiss(t) \/ Acquire(t) \/ Send(t) \/ Answered(t)
  \/ Busy(t) \/ BackedOff(t) \/ Redirected(t) \/ Refused(t) \/ Received(t)
  \/ NotModified(t) \/ Persisted(t)

Next ==
  \/ \E t \in Tasks :
       Call(t) \/ Lock(t) \/ Progress(t) \/ Shed(t) \/ Lost(t) \/ Cancel(t)
  \/ OrphanWrites \/ Others \/ Evict \/ ForgetGate \/ Restart \/ OriginChanges \/ Tick

Spec == Init /\ [][Next]_vars

\* The runtime polls ready tasks, requests and responses are bounded by the
\* client's timeouts, and tokio's mutex is first come, first served: a waiter is
\* not passed over for ever.
Fairness ==
  /\ \A t \in Tasks : WF_vars(Progress(t))
  /\ \A t \in Tasks : SF_vars(Lock(t))

FairSpec == Spec /\ Fairness

-----------------------------------------------------------------------------
(* Properties *)

Entries ==
  [rev : 0 .. MaxRev, at : Urls, until : Nat, asOf : Nat, late : BOOLEAN]
    \cup [rev : {0}, at : {"none"}, until : {0}, asOf : {0}, late : BOOLEAN]
Replies == [kind : {"none", "body", "unchanged", "absent", "moved", "busy", "refused"},
            rev : 0 .. MaxRev, asOf : Nat]

TypeOK ==
  /\ clock \in 0 .. MaxClock
  /\ origin \in [at : Urls, rev : [Urls -> 0 .. MaxRev], exists : BOOLEAN]
  /\ mem \in Entries
  /\ disk \in Entries
  /\ gen \in 0 .. MaxGen
  /\ pc \in [Tasks -> States]
  /\ gate \in [Tasks -> 0 .. MaxGen]
  /\ stale \in [Tasks -> Entries]
  /\ cur \in [Tasks -> Urls]
  /\ tries \in [Tasks -> 0 .. MaxRetries]
  /\ tag \in [Tasks -> 0 .. MaxRev]
  /\ reply \in [Tasks -> Replies]
  /\ writing \in [Tasks -> Entries]
  /\ orphans \subseteq Entries
  /\ theirs \subseteq Entries
  /\ answer \in [Tasks -> [kind : {"none", "ok", "absent", "error"}, entry : Entries]]
  /\ stats \in [DOMAIN Zero -> Nat]
  /\ began \in [Tasks -> 0 .. MaxClock]
  /\ newest \in [Urls -> 0 .. MaxRev]
  /\ calls \in 0 .. MaxCalls

\* Coalescing: while gates are not forgotten, no task is on its way to the origin
\* when memory holds a fresh answer, whichever way tasks interleave between the
\* two looks at the cache, the disk read and the insertion.
NoNeedlessRequest ==
  \A t \in Tasks : pc[t] \in InFetch => ~IsFresh(mem)

\* An absence is remembered for the negative lifetime at most, also when it
\* replaces an entry with a longer one.
AbsenceIsBrief ==
  IsSome(mem) /\ ~IsOk(mem) => mem.until <= clock + NegativeTtl

Returned(t) == pc[t] # "idle" /\ pc'[t] = "idle" /\ answer'[t].kind \in {"ok", "absent"}

\* Whatever a call returns is either within its granted lifetime when it is
\* returned, or was vouched for by the origin during the call: a stale copy is
\* never served, not after a failed revalidation and not across a restart.
AnswerJustified ==
  [][\A t \in Tasks : Returned(t) =>
       \/ clock < answer'[t].entry.until
       \/ answer'[t].entry.asOf >= began[t]]_vars

\* A 304 only ever refreshes the revision the origin meant: the validator went to
\* the URL that issued it, across redirects that changed since.  (A 304 that no
\* validator asked for, revision 0 here, means no revision and is left out.)
RevalidationSound ==
  [][\A t \in Tasks :
       pc[t] = "reply" /\ reply[t].kind = "unchanged" /\ reply[t].rev > 0
         /\ pc'[t] # "reply" /\ mem' # mem /\ IsSome(mem')
         => mem'.at = cur[t] /\ mem'.rev = reply[t].rev]_vars

\* Callers never see a revision older than one any caller saw before, although
\* memory is evicted, disk writes fail, callers are dropped and processes restart;
\* but when memory has lost its copy, the record on disk may be an older one that
\* another server, or a write whose caller was dropped, left there late (nothing
\* compares a record with the one it replaces), and that one is served.  A copy
\* that memory holds, also an expired one, never gives way to such a record.
NeverGoesBack ==
  [][\A t \in Tasks : Returned(t) /\ answer'[t].kind = "ok"
       => answer'[t].entry.rev >= newest[answer'[t].entry.at] \/ Excused(t)]_vars

\* Every call ends: nobody waits at a gate for ever, whether the holder
\* finishes, fails, retries or is dropped.
CallsEnd == \A t \in Tasks : pc[t] # "idle" ~> pc[t] = "idle"

=============================================================================
