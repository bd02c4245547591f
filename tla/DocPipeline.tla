----------------------------- MODULE DocPipeline -----------------------------
(***************************************************************************)
(* Client::doc_index (crates-io-client, lib.rs): from a release to its     *)
(* parsed documentation, through memory, a gate per release, the disk, the *)
(* network, a permit to parse, a parse on a blocking thread, and a store   *)
(* on another.                                                             *)
(*                                                                         *)
(* A release's index is a function of the release, so memory and disk are  *)
(* the sets of releases they hold an index of.  The gate and the permit    *)
(* are guards of the call: a call that ends, fails or is dropped gives     *)
(* them back, while a blocking thread it started runs on.                  *)
(***************************************************************************)
EXTENDS Naturals, FiniteSets

CONSTANTS
  Tasks,     \* callers
  Releases,  \* the keys "name@version"
  Permits,   \* concurrent_doc_parses
  Faults,    \* what may go wrong: "fetch", "parse", "write", "cancel", "evict",
             \* "forget", "restart", "prune", "read", "others": other servers that
             \* keep their indexes in the same directory
  MaxCalls,  \* bound: calls started
  MaxGate    \* bound: how often a gate is forgotten

ASSUME PipelineConstants ==
  /\ IsFiniteSet(Tasks)
  /\ IsFiniteSet(Releases) /\ Releases # {}
  /\ Permits \in Nat \ {0}
  /\ Faults \subseteq {"fetch", "parse", "write", "cancel", "evict", "forget", "restart", "prune",
                      "read", "others"}
  /\ MaxCalls \in Nat /\ MaxGate \in Nat

VARIABLES
  memory,   \* doc_indexes
  disk,     \* the releases whose index the disk cache holds
  gates,    \* doc_gates: the generation of each release's gate
  pc,       \* where each call is
  key,      \* the release each call is for
  gate,     \* the gate each call took
  parses,   \* blocking parses whose call was dropped, per release
  writes,   \* blocking stores whose call was dropped, per release
  doubled,  \* history: releases whose gate was forgotten since the process started
  unaware,  \* history: calls that could not read the disk, or looked before
            \* somebody else stored their index
  calls     \* calls started (to bound the run)

vars == <<memory, disk, gates, pc, key, gate, parses, writes, doubled, unaware, calls>>

\* Past the look at the disk, past the gate, and past the semaphore.
Looked == {"fetch", "permit", "parse"}
Inside == {"recheck", "disk", "store"} \cup Looked
Permitted == {"parse", "store"}
States == {"idle", "wait"} \cup Inside

\* The key of no call: any release.
NoKey == CHOOSE r \in Releases : TRUE

Init ==
  /\ memory = {}
  /\ disk \in SUBSET Releases
  /\ gates = [r \in Releases |-> 0]
  /\ pc = [t \in Tasks |-> "idle"]
  /\ key = [t \in Tasks |-> NoKey]
  /\ gate = [t \in Tasks |-> 0]
  /\ parses = [r \in Releases |-> 0]
  /\ writes = [r \in Releases |-> 0]
  /\ doubled = {}
  /\ unaware = {}
  /\ calls = 0

\* A call that ends takes its release and its gate along.  The history of a call
\* ends when it no longer needs what it did not find.
Goto(t, place) ==
  /\ pc' = [pc EXCEPT ![t] = place]
  /\ unaware' = IF place \in Looked THEN unaware ELSE unaware \ {t}
  /\ UNCHANGED <<key, gate>>
Return(t) ==
  /\ pc' = [pc EXCEPT ![t] = "idle"]
  /\ key' = [key EXCEPT ![t] = NoKey]
  /\ gate' = [gate EXCEPT ![t] = 0]
  /\ unaware' = unaware \ {t}

-----------------------------------------------------------------------------
(* doc_index *)

\* Memory answers, or the call takes the release's gate and waits at it.
Call(t) ==
  /\ pc[t] = "idle"
  /\ calls < MaxCalls
  /\ calls' = calls + 1
  /\ \E r \in Releases :
       IF r \in memory
         THEN UNCHANGED <<pc, key, gate>>
         ELSE /\ key' = [key EXCEPT ![t] = r]
              /\ gate' = [gate EXCEPT ![t] = gates[r]]
              /\ pc' = [pc EXCEPT ![t] = "wait"]
  /\ UNCHANGED <<memory, disk, gates, parses, writes, doubled, unaware>>

\* Mutant of Lock: the gate does not hold anyone up.
LockFreely(t) ==
  /\ pc[t] = "wait"
  /\ Goto(t, "recheck")
  /\ UNCHANGED <<memory, disk, gates, parses, writes, doubled, calls>>

\* gate.lock().await
Lock(t) ==
  /\ pc[t] = "wait"
  /\ \A u \in Tasks : pc[u] \in Inside => <<key[u], gate[u]>> # <<key[t], gate[t]>>
  /\ Goto(t, "recheck")
  /\ UNCHANGED <<memory, disk, gates, parses, writes, doubled, calls>>

\* Mutant of Recheck: what the previous holder left in memory is not looked at.
RecheckBlind(t) ==
  /\ pc[t] = "recheck"
  /\ Goto(t, "disk")
  /\ UNCHANGED <<memory, disk, gates, parses, writes, doubled, calls>>

\* The second look at memory, under the gate.
Recheck(t) ==
  /\ pc[t] = "recheck"
  /\ IF key[t] \in memory THEN Return(t) ELSE Goto(t, "disk")
  /\ UNCHANGED <<memory, disk, gates, parses, writes, doubled, calls>>

\* store.load: a hit fills memory and answers; what cannot be read is a miss.
ReadDisk(t) ==
  /\ pc[t] = "disk"
  /\ \/ key[t] \in disk /\ memory' = memory \cup {key[t]} /\ Return(t)
     \/ key[t] \notin disk /\ Goto(t, "fetch") /\ UNCHANGED memory
     \/ /\ "read" \in Faults /\ key[t] \in disk
        /\ pc' = [pc EXCEPT ![t] = "fetch"]
        /\ unaware' = unaware \cup {t}
        /\ UNCHANGED <<memory, key, gate>>
  /\ UNCHANGED <<disk, gates, parses, writes, doubled, calls>>

\* fetcher.get brings the compressed document.
Fetched(t) ==
  /\ pc[t] = "fetch"
  /\ Goto(t, "permit")
  /\ UNCHANGED <<memory, disk, gates, parses, writes, doubled, calls>>

\* fetcher.get fails; missing_docs words the error and the call ends.
FetchFails(t) ==
  /\ "fetch" \in Faults
  /\ pc[t] = "fetch"
  /\ Return(t)
  /\ UNCHANGED <<memory, disk, gates, parses, writes, doubled, calls>>

\* doc_parses.acquire().await, and the parse starts on a blocking thread.
Permit(t) ==
  /\ pc[t] = "permit"
  /\ Cardinality({u \in Tasks : pc[u] \in Permitted}) < Permits
  /\ Goto(t, "parse")
  /\ UNCHANGED <<memory, disk, gates, parses, writes, doubled, calls>>

\* The parse ends, the index is remembered and its store begins.
Parsed(t) ==
  /\ pc[t] = "parse"
  /\ memory' = memory \cup {key[t]}
  /\ Goto(t, "store")
  /\ UNCHANGED <<disk, gates, parses, writes, doubled, calls>>

\* Mutant of ParseFails: the document is tried again.
ParseFailsAgain(t) ==
  /\ "parse" \in Faults
  /\ pc[t] = "parse"
  /\ Goto(t, "permit")
  /\ UNCHANGED <<memory, disk, gates, parses, writes, doubled, calls>>

\* The document is too large, not what it should be, or the thread panics.
ParseFails(t) ==
  /\ "parse" \in Faults
  /\ pc[t] = "parse"
  /\ Return(t)
  /\ UNCHANGED <<memory, disk, gates, parses, writes, doubled, calls>>

\* The awaited store ends, well or not, and only then the call returns.
Stored(t) ==
  /\ pc[t] = "store"
  /\ \/ disk' = disk \cup {key[t]}
     \/ "write" \in Faults /\ UNCHANGED disk
  /\ Return(t)
  /\ UNCHANGED <<memory, gates, parses, writes, doubled, calls>>

-----------------------------------------------------------------------------
(* Dropped calls, and the world around *)

\* The caller goes away: gate and permit are given back, threads run on.
Cancel(t) ==
  /\ "cancel" \in Faults
  /\ pc[t] # "idle"
  /\ Return(t)
  /\ parses' = IF pc[t] = "parse" THEN [parses EXCEPT ![key[t]] = @ + 1] ELSE parses
  /\ writes' = IF pc[t] = "store" THEN [writes EXCEPT ![key[t]] = @ + 1] ELSE writes
  /\ UNCHANGED <<memory, disk, gates, doubled, calls>>

\* A parse nobody waits for ends; its index is thrown away.
LooseParseEnds(r) ==
  /\ parses[r] > 0
  /\ parses' = [parses EXCEPT ![r] = @ - 1]
  /\ UNCHANGED <<memory, disk, gates, pc, key, gate, writes, doubled, unaware, calls>>

\* An index lands behind the back of the calls for its release that have looked.
Land(r) ==
  /\ disk' = disk \cup {r}
  /\ unaware' = unaware \cup {t \in Tasks : key[t] = r /\ pc[t] \in Looked}

\* A store nobody waits for lands, or fails.
LooseStoreEnds(r) ==
  /\ writes[r] > 0
  /\ writes' = [writes EXCEPT ![r] = @ - 1]
  /\ \/ Land(r)
     \/ "write" \in Faults /\ UNCHANGED <<disk, unaware>>
  /\ UNCHANGED <<memory, gates, pc, key, gate, parses, doubled, calls>>

\* Another server parsed the document and stores its index: the gate is not its.
OthersStore(r) ==
  /\ "others" \in Faults
  /\ Land(r)
  /\ UNCHANGED <<memory, gates, pc, key, gate, parses, writes, doubled, calls>>

\* doc_indexes drops an index: weight, or time to live.
Evict(r) ==
  /\ "evict" \in Faults
  /\ memory' = memory \ {r}
  /\ UNCHANGED <<disk, gates, pc, key, gate, parses, writes, doubled, unaware, calls>>

\* doc_gates drops a gate: the next caller gets another.
ForgetGate(r) ==
  /\ "forget" \in Faults
  /\ gates[r] < MaxGate
  /\ gates' = [gates EXCEPT ![r] = @ + 1]
  /\ doubled' = doubled \cup {r}
  /\ UNCHANGED <<memory, disk, pc, key, gate, parses, writes, unaware, calls>>

\* The process ends and another starts on the same directory.
Restart ==
  /\ "restart" \in Faults
  /\ memory' = {}
  /\ pc' = [t \in Tasks |-> "idle"]
  /\ key' = [t \in Tasks |-> NoKey] /\ gate' = [t \in Tasks |-> 0]
  /\ parses' = [r \in Releases |-> 0]
  /\ writes' = [r \in Releases |-> 0]
  /\ doubled' = {} /\ unaware' = {}
  /\ UNCHANGED <<disk, gates, calls>>

\* An index leaves the disk: pruned, or rejected by another build, here or by
\* another server.
Prune(r) ==
  /\ "prune" \in Faults
  /\ disk' = disk \ {r}
  /\ UNCHANGED <<memory, gates, pc, key, gate, parses, writes, doubled, unaware, calls>>

EndParse(t) == Parsed(t) \/ ParseFails(t)
EndFetch(t) == Fetched(t) \/ FetchFails(t)

Next ==
  \/ \E t \in Tasks :
       \/ Call(t) \/ Lock(t) \/ Recheck(t) \/ ReadDisk(t) \/ EndFetch(t)
       \/ Permit(t) \/ EndParse(t) \/ Stored(t) \/ Cancel(t)
  \/ \E r \in Releases :
       LooseParseEnds(r) \/ LooseStoreEnds(r) \/ Evict(r) \/ ForgetGate(r)
       \/ OthersStore(r) \/ Prune(r)
  \/ Restart

Spec == Init /\ [][Next]_vars

\* The runtime polls a task that can go on, and what a task waits for ends.
\* The gate and the semaphore queue their waiters in order: strong fairness.
Fairness ==
  \A t \in Tasks :
    /\ SF_vars(Lock(t)) /\ SF_vars(Permit(t))
    /\ WF_vars(Recheck(t)) /\ WF_vars(ReadDisk(t)) /\ WF_vars(EndFetch(t))
    /\ WF_vars(EndParse(t)) /\ WF_vars(Stored(t))

FairSpec == Spec /\ Fairness

-----------------------------------------------------------------------------
(* Properties *)

TypeOK ==
  /\ memory \subseteq Releases
  /\ disk \subseteq Releases
  /\ gates \in [Releases -> Nat]
  /\ pc \in [Tasks -> States]
  /\ key \in [Tasks -> Releases]
  /\ gate \in [Tasks -> Nat]
  /\ parses \in [Releases -> Nat]
  /\ writes \in [Releases -> Nat]
  /\ doubled \subseteq Releases
  /\ unaware \subseteq Tasks
  /\ calls \in Nat

\* One call per gate is past it (lib.rs doc_index, gate.lock()).
OnePastGate ==
  \A t, u \in Tasks :
    t # u /\ pc[t] \in Inside /\ pc[u] \in Inside => <<key[t], gate[t]>> # <<key[u], gate[u]>>

\* A document is never fetched or parsed while its index is at hand, whatever was
\* evicted, pruned, failed, dropped or restarted before: concurrent callers do not
\* "each do in full only to keep one result" (lib.rs doc_index).  In memory an index
\* can appear beside a call on its way only if the release got a second gate.  On
\* disk one can be there for four reasons, none of which the gate prevents: that
\* second gate; the store of a dropped call; the store of another server on the
\* same directory ("two servers writing the same key", disk.rs store); a file the
\* call could not read.  The last three count only for the call concerned.
NoNeedlessParse ==
  \A t \in Tasks : pc[t] \in Looked =>
    /\ key[t] \in memory => key[t] \in doubled
    /\ key[t] \in disk => key[t] \in doubled \/ t \in unaware

\* No more documents are being parsed for a caller at the same time than were
\* permitted, and a parse or its store always has a permit, although permits are
\* given back by calls that end, fail and are dropped (lib.rs doc_parses).
PermitsHeld == Cardinality({t \in Tasks : pc[t] \in Permitted}) <= Permits

\* The inductive invariant: a call that has looked at memory under the gate still
\* finds nothing there, and a release that is not doubled has one gate.
OneGate ==
  \A t \in Tasks : pc[t] # "idle" /\ key[t] \notin doubled => gate[t] = gates[key[t]]
LookedUnderGate ==
  \A t \in Tasks : pc[t] = "disk" /\ key[t] \in memory => key[t] \in doubled
IInv ==
  /\ TypeOK
  /\ PermitsHeld
  /\ OnePastGate
  /\ OneGate
  /\ LookedUnderGate
  /\ NoNeedlessParse

\* Every call ends, whoever fails or is dropped before it (lib.rs doc_index).
CallsEnd == \A t \in Tasks : pc[t] # "idle" ~> pc[t] = "idle"

\* No more documents are being parsed at the same time than were permitted, those
\* of dropped callers included (config.rs: "how many rustdoc documents may be
\* expanded and parsed at the same time").
Loose == {n \in Releases \X (1 .. MaxCalls) : n[2] <= parses[n[1]]}
ParseCeiling ==
  Cardinality({t \in Tasks : pc[t] = "parse"}) + Cardinality(Loose) <= Permits
=============================================================================
