---------------------------- MODULE FetcherProofs ----------------------------
(***************************************************************************)
(* Safety of the shared HTTP layer for one URL, for any number of callers, *)
(* any lifetimes, any number of retries and revisions, and whichever of    *)
(* the faults the constants allow.                                         *)
(*                                                                         *)
(* None of the properties is inductive.  IInv adds that a gate has one     *)
(* holder (Exclusive) and, while none is forgotten, that there is one gate *)
(* (OneGate); what a call knows of its own request: which validator it     *)
(* sent, to which URL, and what its answer means (OwnRequests, which needs *)
(* Published); that the disk holds successes only (Successes); that an     *)
(* absence is brief (Brief); and that a holder fetching means memory and   *)
(* disk have nothing fresh (Needed).                                       *)
(*                                                                         *)
(* That revisions never go back needs more (Forward): no copy is ahead of  *)
(* the origin, what is fresh is as new as anything returned, memory agrees *)
(* with a fresh disk, and what a call has received or is writing is as new *)
(* as anything returned; but nothing is known of a record that came to the *)
(* disk late.  It holds only in calm weather (Calm): a forgotten gate and  *)
(* an unasked 304 each break it.                                           *)
(***************************************************************************)
EXTENDS Fetcher, TLAPS

Kinds == {"none", "ok", "absent", "error"}
Answers == [kind : Kinds, entry : Entries]

\* What is kept of a response is an entry.
LEMMA EntryTypes ==
  ASSUME NEW rev \in 0 .. MaxRev, NEW at \in Urls, NEW until \in Nat, NEW asOf \in Nat
  PROVE  Entry(rev, at, until, asOf) \in Entries
  BY DEF Entry, Entries

\* Entries have the fields the model reads.
LEMMA EntryFields ==
  ASSUME NEW e \in Entries
  PROVE  /\ e.rev \in 0 .. MaxRev /\ e.until \in Nat /\ e.asOf \in Nat
         /\ e.late \in BOOLEAN
         /\ IsSome(e) => e.at \in Urls
  BY FetcherConstants DEF Entries, None, IsSome, Urls

\* No entry at all is an entry too.
LEMMA NoneTypes == None \in Entries /\ NoAnswer \in Answers /\ Failure \in Answers /\ NoReply \in Replies
  BY FetcherConstants DEF None, Entries, NoAnswer, Failure, Answers, Kinds, NoReply, Replies

\* An entry that came to the disk late is an entry, with the same revision.
LEMMA LateTypes ==
  ASSUME NEW e \in Entries
  PROVE  /\ [e EXCEPT !.late = TRUE] \in Entries
         /\ [e EXCEPT !.late = TRUE].rev = e.rev
         /\ [e EXCEPT !.late = TRUE].at = e.at
         /\ [e EXCEPT !.late = TRUE].late
  BY DEF Entries

\* Every counter of the traffic can be incremented.
LEMMA CountTypes ==
  ASSUME NEW s \in [DOMAIN Zero -> Nat], NEW field \in DOMAIN Zero
  PROVE  [s EXCEPT ![field] = @ + 1] \in [DOMAIN Zero -> Nat]
  OBVIOUS

\* The names of the counters.
LEMMA Counters ==
  /\ DOMAIN Zero = {"cache_hits", "coalesced", "disk_hits", "network_requests",
                    "not_modified", "retries", "shed", "disk_writes"}
  /\ Zero \in [DOMAIN Zero -> Nat]
  BY DEF Zero

\* Counting, and counting a request, keeps the counters numbers.
LEMMA CountStep ==
  ASSUME TypeOK
  PROVE  /\ \A field \in DOMAIN Zero : Count(field) => stats' \in [DOMAIN Zero -> Nat]
         /\ Requested \in [DOMAIN Zero -> Nat]
<1>1. stats \in [DOMAIN Zero -> Nat]
  BY DEF TypeOK
<1>2. "network_requests" \in DOMAIN Zero
  BY Counters
<1>3. Requested \in [DOMAIN Zero -> Nat]
  BY <1>1, <1>2, CountTypes DEF Requested
<1>4. ASSUME NEW field \in DOMAIN Zero, Count(field)
      PROVE  stats' \in [DOMAIN Zero -> Nat]
  BY <1>1, <1>4, CountTypes DEF Count
<1> QED
  BY <1>3, <1>4

\* What a call returns is an answer.
LEMMA InterpretTypes ==
  ASSUME NEW e \in Entries
  PROVE  Interpret(e) \in Answers
  BY DEF Interpret, Answers, Kinds

\* Leaving a call keeps the types of what the call kept and of what it says.
LEMMA LeaveTypes ==
  ASSUME TypeOK, NEW t \in Tasks, NEW result \in Answers, Leave(t, result),
         result.kind = "ok" => IsSome(result.entry)
  PROVE  /\ pc' \in [Tasks -> States]
         /\ gate' \in [Tasks -> 0 .. MaxGen]
         /\ stale' \in [Tasks -> Entries]
         /\ cur' \in [Tasks -> Urls]
         /\ tries' \in [Tasks -> 0 .. MaxRetries]
         /\ tag' \in [Tasks -> 0 .. MaxRev]
         /\ reply' \in [Tasks -> Replies]
         /\ writing' \in [Tasks -> Entries]
         /\ answer' \in [Tasks -> Answers]
         /\ newest' \in [Urls -> 0 .. MaxRev]
<1> USE DEF TypeOK, Leave, Goto
<1>1. 0 \in 0 .. MaxGen /\ 0 \in 0 .. MaxRetries /\ 0 \in 0 .. MaxRev
  BY FetcherConstants
<1>2. "home" \in Urls /\ "idle" \in States
  BY DEF Urls, States
<1>3. newest' \in [Urls -> 0 .. MaxRev]
  <2>1. result.entry \in Entries
    BY DEF Answers
  <2>2. result.kind = "ok" => result.entry.at \in Urls /\ result.entry.rev \in 0 .. MaxRev
    BY <2>1, EntryFields
  <2> QED BY <2>2 DEF Larger
<1>4. answer' \in [Tasks -> Answers]
  BY DEF Answers, Kinds
<1> QED
  BY <1>1, <1>2, <1>3, <1>4, NoneTypes

\* A success is something.
LEMMA OkIsSome ==
  ASSUME NEW e \in Entries
  PROVE  /\ IsOk(e) => IsSome(e)
         /\ Interpret(e).kind = "ok" => IsSome(Interpret(e).entry)
  BY FetcherConstants DEF Entries, None, IsSome, IsOk, Interpret, Urls

\* The end of a fetch keeps the types.
LEMMA FinishTypes ==
  ASSUME TypeOK, NEW t \in Tasks, NEW e \in Entries, Finish(t, e), stats' \in [DOMAIN Zero -> Nat]
  PROVE  TypeOK'
<1>1. mem' \in Entries
  BY DEF Finish, TypeOK
<1>2. CASE Leave(t, Interpret(e))
  BY <1>1, <1>2, LeaveTypes, InterpretTypes, OkIsSome DEF Finish, TypeOK, Answers, Kinds, World
<1>3. CASE /\ writing' = [writing EXCEPT ![t] = e]
           /\ Goto(t, "persist")
           /\ UNCHANGED <<gate, stale, cur, tries, tag, reply, Results>>
  BY <1>1, <1>3 DEF Finish, TypeOK, Goto, States, Holding, World, Results
<1> QED
  BY <1>2, <1>3 DEF Finish

\* So does a failure that may be retried.
LEMMA TransientTypes ==
  ASSUME TypeOK, NEW t \in Tasks, NEW counted \in [DOMAIN Zero -> Nat], Transient(t, counted),
         UNCHANGED <<World, mem, disk, orphans>>
  PROVE  TypeOK'
<1>1. CASE tries[t] < MaxRetries
  <2>1. tries[t] + 1 \in 0 .. MaxRetries /\ 0 \in 0 .. MaxRev
    BY <1>1, FetcherConstants DEF TypeOK
  <2>2. stats' \in [DOMAIN Zero -> Nat]
    BY <1>1, Counters, CountTypes DEF Transient
  <2>3. "home" \in Urls /\ "backoff" \in States
    BY DEF Urls, States, Holding, InFetch
  <2>4. /\ tries' = [tries EXCEPT ![t] = @ + 1]
        /\ cur' = [cur EXCEPT ![t] = "home"]
        /\ tag' = [tag EXCEPT ![t] = 0]
        /\ reply' = [reply EXCEPT ![t] = NoReply]
        /\ pc' = [pc EXCEPT ![t] = "backoff"]
        /\ UNCHANGED <<gate, stale, writing, answer, newest, clock, origin, gen, theirs, began,
                       calls, mem, disk, orphans>>
    BY <1>1 DEF Transient, Goto, World, Results
  <2>5. /\ tries' \in [Tasks -> 0 .. MaxRetries] /\ tag' \in [Tasks -> 0 .. MaxRev]
        /\ cur' \in [Tasks -> Urls] /\ pc' \in [Tasks -> States]
    BY <2>1, <2>3, <2>4 DEF TypeOK
  <2>6. reply' \in [Tasks -> Replies]
    BY <2>4, NoneTypes DEF TypeOK
  <2> QED
    BY <2>2, <2>4, <2>5, <2>6 DEF TypeOK
<1>2. CASE ~(tries[t] < MaxRetries)
  <2>1. Leave(t, Failure) /\ stats' = counted
    BY <1>2 DEF Transient
  <2>2. Failure.kind # "ok"
    BY DEF Failure
  <2> QED
    BY <2>1, <2>2, LeaveTypes, NoneTypes DEF TypeOK, Answers, Kinds, World
<1> QED
  BY <1>1, <1>2

\* The state begins well typed.
LEMMA TypeInit == Init => TypeOK
  BY FetcherConstants, NoneTypes, Counters DEF Init, TypeOK, States, Urls, Answers, Kinds

\* A call that ends where it stands.
LEMMA EndTypes ==
  ASSUME TypeOK, NEW t \in Tasks, NEW result \in Answers, Leave(t, result),
         result.kind = "ok" => IsSome(result.entry),
         mem' \in Entries, disk' \in Entries, orphans' \subseteq Entries,
         stats' \in [DOMAIN Zero -> Nat], UNCHANGED World
  PROVE  TypeOK'
  BY LeaveTypes DEF TypeOK, Answers, Kinds, World

\* What the origin answers has the form of a reply.
LEMMA OriginTypes ==
  ASSUME TypeOK, NEW url \in Urls, NEW validator, NEW r \in OriginReplies(url, validator)
  PROVE  r \in Replies
<1>1. origin.rev \in [Urls -> 0 .. MaxRev] /\ clock \in Nat /\ 0 \in 0 .. MaxRev
  BY FetcherConstants DEF TypeOK
<1> QED
  BY <1>1 DEF OriginReplies, Replies

\* The entry made of a reply.
LEMMA ReplyTypes ==
  ASSUME TypeOK, NEW t \in Tasks
  PROVE  /\ reply[t].rev \in 0 .. MaxRev /\ reply[t].asOf \in Nat /\ cur[t] \in Urls
         /\ clock \in Nat /\ 0 \in 0 .. MaxRev
         /\ \A grant \in Grants : clock + grant \in Nat
         /\ clock + NegativeTtl \in Nat
  BY FetcherConstants DEF TypeOK, Replies

\* Every step of a call keeps the types.
LEMMA TaskTypes ==
  ASSUME TypeOK, NEW t \in Tasks,
         Call(t) \/ Lock(t) \/ Progress(t) \/ Shed(t) \/ Lost(t) \/ Cancel(t)
  PROVE  TypeOK'
<1>1. CASE Call(t)
  BY <1>1, FetcherConstants, NoneTypes DEF Call, TypeOK, Goto, States, Locals, Answers, Kinds
<1>2. CASE FastMiss(t) \/ Lock(t) \/ Acquire(t) \/ BackedOff(t)
  BY <1>2 DEF FastMiss, Lock, Acquire, BackedOff, TypeOK, Goto, States, Holding, InFetch, World, Locals, Results
<1>3. CASE TakeGate(t) \/ Recheck(t) \/ DiskMiss(t)
  <2>1. CASE TakeGate(t)
    BY <2>1 DEF TakeGate, TypeOK, Goto, States, World, Results
  <2>2. CASE Recheck(t)
    BY <2>2 DEF Recheck, TypeOK, Goto, States, Holding, InFetch, World, Results
  <2>3. CASE DiskMiss(t)
    BY <2>3 DEF DiskMiss, TypeOK, Goto, States, Holding, InFetch, World, Results
  <2> QED BY <1>3, <2>1, <2>2, <2>3
<1>4. CASE FastHit(t) \/ Coalesced(t)
  <2>1. stats' \in [DOMAIN Zero -> Nat]
    <3>1. Count("cache_hits") \/ Count("coalesced")
      BY <1>4 DEF FastHit, Coalesced
    <3> QED BY <3>1, Counters, CountStep
  <2>2. Leave(t, Interpret(mem)) /\ UNCHANGED <<World, mem, disk, orphans>>
    BY <1>4 DEF FastHit, Coalesced
  <2> QED
    BY <2>1, <2>2, EndTypes, InterpretTypes, OkIsSome DEF TypeOK
<1>5. CASE DiskHit(t)
  <2>1. stats' \in [DOMAIN Zero -> Nat]
    BY <1>5, Counters, CountTypes DEF DiskHit, Count, TypeOK
  <2> QED
    BY <1>5, <2>1, EndTypes, InterpretTypes, OkIsSome DEF DiskHit, TypeOK
<1>6. CASE Shed(t) \/ Refused(t)
  <2>1. stats' \in [DOMAIN Zero -> Nat]
    <3>1. Count("shed") \/ stats' = Requested
      BY <1>6 DEF Shed, Refused
    <3> QED BY <3>1, Counters, CountStep
  <2>2. Leave(t, Failure) /\ UNCHANGED <<World, mem, disk, orphans>> /\ Failure.kind # "ok"
    BY <1>6 DEF Shed, Refused, Failure
  <2> QED
    BY <2>1, <2>2, EndTypes, NoneTypes DEF TypeOK
<1>7. CASE Send(t)
  <2>1. Validator(t) \in 0 .. MaxRev
    BY FetcherConstants, EntryFields DEF Validator, TypeOK
  <2> QED
    BY <1>7, <2>1 DEF Send, TypeOK, Goto, States, Holding, InFetch, World, Results
<1>8. CASE Answered(t)
  <2>1. PICK r \in OriginReplies(cur[t], tag[t]) : reply' = [reply EXCEPT ![t] = r]
    BY <1>8 DEF Answered
  <2>2. r \in Replies
    BY OriginTypes DEF TypeOK
  <2> QED
    BY <1>8, <2>1, <2>2 DEF Answered, TypeOK, Goto, States, Holding, InFetch, World, Results
<1>9. CASE Lost(t) \/ Busy(t)
  <2>1. stats \in [DOMAIN Zero -> Nat] /\ Requested \in [DOMAIN Zero -> Nat]
    BY Counters, CountTypes DEF Requested, TypeOK
  <2> QED
    BY <1>9, <2>1, TransientTypes DEF Lost, Busy
<1>10. CASE Redirected(t)
  <2>1. stats' \in [DOMAIN Zero -> Nat]
    BY <1>10, Counters, CountTypes DEF Redirected, Requested, TypeOK
  <2> QED
    BY <1>10, <2>1, FetcherConstants, NoneTypes
       DEF Redirected, TypeOK, Goto, States, Holding, InFetch, Urls, World, Results
<1>11. CASE Received(t)
  <2>1. stats' \in [DOMAIN Zero -> Nat]
    BY <1>11, Counters, CountTypes DEF Received, Requested, TypeOK
  <2>2. PICK e \in Entries : Finish(t, e)
    BY <1>11, ReplyTypes, EntryTypes DEF Received
  <2> QED
    BY <2>1, <2>2, FinishTypes
<1>12. CASE NotModified(t)
  <2>1. Requested \in [DOMAIN Zero -> Nat]
    BY Counters, CountTypes DEF Requested, TypeOK
  <2>2. stats' \in [DOMAIN Zero -> Nat]
    BY <1>12, <2>1, Counters, CountTypes DEF NotModified
  <2>3. CASE \E e \in Entries : Finish(t, e)
    BY <2>2, <2>3, FinishTypes
  <2>4. CASE Leave(t, Failure) /\ UNCHANGED <<World, mem, disk, orphans>>
    <3>1. Failure.kind # "ok"
      BY DEF Failure
    <3> QED BY <2>2, <2>4, <3>1, EndTypes, NoneTypes DEF TypeOK
  <2>5. IsSome(stale[t]) => /\ stale[t].rev \in 0 .. MaxRev /\ stale[t].at \in Urls
    BY EntryFields DEF TypeOK
  <2>6. (\E e \in Entries : Finish(t, e)) \/ (Leave(t, Failure) /\ UNCHANGED <<World, mem, disk, orphans>>)
    BY <1>12, <2>5, ReplyTypes, EntryTypes DEF NotModified
  <2> QED
    BY <2>3, <2>4, <2>6
<1>13. CASE Persisted(t)
  <2>1. stats' \in [DOMAIN Zero -> Nat]
    BY <1>13, Counters, CountTypes DEF Persisted, Count, TypeOK
  <2>2. writing[t] \in Entries
    BY DEF TypeOK
  <2>3. /\ Leave(t, Interpret(writing[t])) /\ UNCHANGED <<World, mem, orphans>>
        /\ disk' \in Entries
    BY <1>13, <2>2 DEF Persisted, TypeOK
  <2> QED
    BY <2>1, <2>2, <2>3, EndTypes, InterpretTypes, OkIsSome DEF TypeOK
<1>14. CASE Cancel(t)
  <2>1. stats' \in [DOMAIN Zero -> Nat]
    <3>1. Requested \in [DOMAIN Zero -> Nat]
      BY Counters, CountTypes DEF Requested, TypeOK
    <3> QED BY <1>14, <3>1 DEF Cancel, TypeOK
  <2>2. orphans' \subseteq Entries
    BY <1>14 DEF Cancel, TypeOK
  <2>3. NoAnswer.kind # "ok"
    BY DEF NoAnswer
  <2> QED
    BY <1>14, <2>1, <2>2, <2>3, EndTypes, NoneTypes DEF Cancel, TypeOK
<1> QED
  BY <1>1, <1>2, <1>3, <1>4, <1>5, <1>6, <1>7, <1>8, <1>9, <1>10, <1>11, <1>12, <1>13, <1>14 DEF Progress

\* So does every step of the world.
LEMMA WorldTypes ==
  ASSUME TypeOK, OrphanWrites \/ Others \/ Evict \/ ForgetGate \/ Restart \/ OriginChanges \/ Tick
  PROVE  TypeOK'
<1> USE DEF World, Results, Locals
<1>1. CASE OrphanWrites
  <2>1. PICK r \in orphans : disk' = [r EXCEPT !.late = TRUE] /\ orphans' = orphans \ {r}
    BY <1>1 DEF OrphanWrites
  <2>2. disk' \in Entries
    BY <2>1, LateTypes DEF TypeOK
  <2> QED
    BY <1>1, <2>1, <2>2 DEF OrphanWrites, TypeOK
<1>7. CASE Others
  <2>1. theirs' \subseteq Entries /\ disk' \in Entries
    <3>1. CASE OthersFetch
      <4>1. \A grant \in Grants :
              /\ clock \in Nat /\ clock + grant \in Nat /\ origin.at \in Urls
              /\ origin.rev[origin.at] \in 0 .. MaxRev
        BY FetcherConstants DEF TypeOK
      <4> QED
        BY <3>1, <4>1, EntryTypes, LateTypes DEF OthersFetch, TypeOK
    <3>2. CASE OthersWrite
      BY <3>2 DEF OthersWrite, TypeOK
    <3>3. CASE OthersRemove
      BY <3>3, NoneTypes DEF OthersRemove, TypeOK
    <3> QED BY <1>7, <3>1, <3>2, <3>3 DEF Others
  <2> QED
    BY <1>7, <2>1 DEF Others, TypeOK
<1>2. CASE Evict
  BY <1>2, NoneTypes DEF Evict, TypeOK
<1>3. CASE ForgetGate
  BY <1>3, FetcherConstants DEF ForgetGate, TypeOK
<1>4. CASE Restart
  <2>1. 0 \in 0 .. MaxGen /\ 0 \in 0 .. MaxRetries /\ 0 \in 0 .. MaxRev
    BY FetcherConstants
  <2> QED
    BY <1>4, <2>1, Counters, NoneTypes DEF Restart, TypeOK, States, Urls, Answers, Kinds
<1>5. CASE OriginChanges
  <2>1. origin' \in [at : Urls, rev : [Urls -> 0 .. MaxRev], exists : BOOLEAN]
    <3>1. origin.at \in Urls /\ origin.rev \in [Urls -> 0 .. MaxRev]
      BY DEF TypeOK
    <3>2. \A u \in Urls : origin.rev[u] < MaxRev => origin.rev[u] + 1 \in 0 .. MaxRev
      BY <3>1, FetcherConstants
    <3>3. CASE Publish
      BY <3>1, <3>2, <3>3 DEF Publish, TypeOK
    <3>4. CASE Remove
      BY <3>4 DEF Remove, TypeOK
    <3>5. CASE Move
      <4>1. PICK u \in Urls : /\ origin.rev[u] < MaxRev
                              /\ origin' = [origin EXCEPT !.at = u, !.rev[u] = @ + 1, !.exists = TRUE]
        BY <3>5 DEF Move
      <4> QED BY <3>1, <3>2, <4>1 DEF TypeOK
    <3> QED BY <1>5, <3>3, <3>4, <3>5 DEF OriginChanges
  <2> QED
    BY <1>5, <2>1 DEF OriginChanges, TypeOK
<1>6. CASE Tick
  BY <1>6, FetcherConstants DEF Tick, TypeOK
<1> QED
  BY <1>1, <1>2, <1>3, <1>4, <1>5, <1>6, <1>7

\* Every step keeps the state well typed.
LEMMA TypeStep == TypeOK /\ [Next]_vars => TypeOK'
<1> SUFFICES ASSUME TypeOK, [Next]_vars PROVE TypeOK'
  OBVIOUS
<1>1. CASE UNCHANGED vars
  BY <1>1 DEF vars, TypeOK
<1> QED
  BY <1>1, TaskTypes, WorldTypes DEF Next

\* Type correctness.
THEOREM TypeCorrect == Spec => []TypeOK
  BY TypeInit, TypeStep, PTL DEF Spec

-----------------------------------------------------------------------------
(* Who takes a step, and what everybody else keeps *)

TaskStep(t) == Call(t) \/ Lock(t) \/ Progress(t) \/ Shed(t) \/ Lost(t) \/ Cancel(t)
WorldStep == OrphanWrites \/ Others \/ Evict \/ ForgetGate \/ OriginChanges \/ Tick

\* What the steps of a call do to the variables that every task has one of.
LEMMA OthersStay ==
  ASSUME TypeOK, NEW t \in Tasks, TaskStep(t), NEW u \in Tasks, u # t
  PROVE  /\ pc'[u] = pc[u] /\ gate'[u] = gate[u] /\ stale'[u] = stale[u] /\ cur'[u] = cur[u]
         /\ tag'[u] = tag[u] /\ reply'[u] = reply[u] /\ writing'[u] = writing[u]
         /\ began'[u] = began[u]
<1> USE DEF TypeOK, Goto, World, Locals, Results
<1>1. CASE Call(t) \/ Lock(t) \/ FastMiss(t) \/ TakeGate(t) \/ Recheck(t) \/ DiskMiss(t) \/ Acquire(t)
           \/ Send(t) \/ Answered(t) \/ BackedOff(t) \/ Redirected(t)
  BY <1>1 DEF Call, Lock, FastMiss, TakeGate, Recheck, DiskMiss, Acquire, Send, Answered, BackedOff, Redirected
<1>2. CASE FastHit(t) \/ Coalesced(t) \/ DiskHit(t) \/ Shed(t) \/ Refused(t) \/ Persisted(t) \/ Cancel(t)
  BY <1>2 DEF FastHit, Coalesced, DiskHit, Shed, Refused, Persisted, Cancel, Leave
<1>3. CASE Lost(t) \/ Busy(t)
  BY <1>3 DEF Lost, Busy, Transient, Leave
<1>4. CASE Received(t) \/ NotModified(t)
  BY <1>4 DEF Received, NotModified, Finish, Leave
<1> QED
  BY <1>1, <1>2, <1>3, <1>4 DEF TaskStep, Progress

\* The world moves no task, short of a restart.
LEMMA TasksStay ==
  ASSUME WorldStep
  PROVE  UNCHANGED <<pc, Locals, began, answer, newest>>
  BY DEF WorldStep, OrphanWrites, Others, Evict, ForgetGate, OriginChanges, Tick, World, Results

\* Time does not run back, and a new generation of gates comes from forgetting only.
LEMMA ClockRuns ==
  ASSUME TypeOK, [Next]_vars
  PROVE  /\ clock' >= clock
         /\ gen' # gen => MayHappen("forget")
<1>0. clock \in Nat
  BY FetcherConstants DEF TypeOK
<1>1. ASSUME NEW t \in Tasks, TaskStep(t) PROVE UNCHANGED <<clock, gen>>
  <2> USE DEF World
  <2>1. CASE Call(t) \/ Lock(t) \/ FastMiss(t) \/ TakeGate(t) \/ Recheck(t) \/ DiskMiss(t) \/ Acquire(t)
             \/ Send(t) \/ Answered(t) \/ BackedOff(t) \/ Redirected(t)
    BY <2>1 DEF Call, Lock, FastMiss, TakeGate, Recheck, DiskMiss, Acquire, Send, Answered, BackedOff, Redirected
  <2>2. CASE FastHit(t) \/ Coalesced(t) \/ DiskHit(t) \/ Shed(t) \/ Refused(t) \/ Persisted(t) \/ Cancel(t)
    BY <2>2 DEF FastHit, Coalesced, DiskHit, Shed, Refused, Persisted, Cancel
  <2>3. CASE Lost(t) \/ Busy(t) \/ Received(t) \/ NotModified(t)
    BY <2>3 DEF Lost, Busy, Received, NotModified, Finish
  <2> QED
    BY <1>1, <2>1, <2>2, <2>3 DEF TaskStep, Progress
<1>2. CASE OrphanWrites \/ Others \/ Evict \/ ForgetGate \/ Restart \/ OriginChanges \/ Tick
  BY <1>0, <1>2 DEF OrphanWrites, Others, Evict, ForgetGate, Restart, OriginChanges, Tick, World
<1>3. CASE UNCHANGED vars
  BY <1>0, <1>3 DEF vars
<1> QED
  BY <1>0, <1>1, <1>2, <1>3 DEF Next, TaskStep

\* Every step is a task's, the world's, a restart or none.
LEMMA StepCases ==
  [Next]_vars => \/ \E t \in Tasks : TaskStep(t)
                 \/ WorldStep \/ Restart \/ UNCHANGED vars
  BY DEF Next, TaskStep, WorldStep

-----------------------------------------------------------------------------
(* The gate *)

\* No two tasks hold the same gate.
Exclusive ==
  \A t, u \in Tasks :
    pc[t] \in Holding /\ pc[u] \in Holding /\ gate[t] = gate[u] => t = u

\* While gates are not forgotten, there is one.
OneGate == ~MayHappen("forget") => gen = 0 /\ \A t \in Tasks : gate[t] = 0

\* A task that comes to hold a gate locks it; a task that holds one keeps it.
LEMMA HoldsOn ==
  ASSUME TypeOK, [Next]_vars, NEW u \in Tasks, pc'[u] \in Holding
  PROVE  \/ Lock(u)
         \/ pc[u] \in Holding /\ gate'[u] = gate[u]
<1> USE DEF Holding, InFetch
<1>1. CASE Restart
  BY <1>1 DEF Restart
<1>2. CASE WorldStep \/ UNCHANGED vars
  BY <1>2, TasksStay DEF vars, Locals
<1>3. ASSUME NEW t \in Tasks, TaskStep(t), t # u
      PROVE  pc[u] \in Holding /\ gate'[u] = gate[u]
  BY <1>3, OthersStay
<1>4. CASE TaskStep(u)
  <2> USE DEF TypeOK, Goto, Locals
  <2>1. CASE Call(u) \/ FastMiss(u) \/ TakeGate(u) \/ Recheck(u) \/ DiskMiss(u) \/ Acquire(u)
             \/ Send(u) \/ Answered(u) \/ BackedOff(u) \/ Redirected(u)
    BY <2>1 DEF Call, FastMiss, TakeGate, Recheck, DiskMiss, Acquire, Send, Answered, BackedOff, Redirected
  <2>2. CASE FastHit(u) \/ Coalesced(u) \/ DiskHit(u) \/ Shed(u) \/ Refused(u) \/ Persisted(u) \/ Cancel(u)
    BY <2>2 DEF FastHit, Coalesced, DiskHit, Shed, Refused, Persisted, Cancel, Leave
  <2>3. CASE Lost(u) \/ Busy(u)
    BY <2>3 DEF Lost, Busy, Transient, Leave
  <2>4. CASE Received(u) \/ NotModified(u)
    BY <2>4 DEF Received, NotModified, Finish, Leave
  <2> QED
    BY <1>4, <2>1, <2>2, <2>3, <2>4 DEF TaskStep, Progress
<1> QED
  BY <1>1, <1>2, <1>3, <1>4, StepCases

\* No step lets two calls hold one gate.
LEMMA ExclusiveStep ==
  ASSUME TypeOK, Exclusive, [Next]_vars
  PROVE  Exclusive'
<1> SUFFICES ASSUME NEW t \in Tasks, NEW u \in Tasks, pc'[t] \in Holding, pc'[u] \in Holding,
                    gate'[t] = gate'[u], t # u
             PROVE  FALSE
  BY DEF Exclusive, Holding, InFetch
<1>1. ASSUME NEW a \in Tasks, NEW b \in Tasks, a # b, Lock(a), pc'[b] \in Holding, gate'[a] = gate'[b]
      PROVE  FALSE
  <2>1. TaskStep(a) /\ gate' = gate
    BY <1>1 DEF TaskStep, Lock, Locals
  <2>2. pc[b] \in Holding
    BY <1>1, <2>1, OthersStay
  <2> QED BY <1>1, <2>1, <2>2 DEF Lock
<1>2. CASE Lock(t) \/ Lock(u)
  BY <1>1, <1>2
<1>3. CASE ~Lock(t) /\ ~Lock(u)
  BY <1>3, HoldsOn DEF Exclusive
<1> QED
  BY <1>2, <1>3

\* While gates are not forgotten there is only the first.
LEMMA OneGateStep ==
  ASSUME TypeOK, OneGate, [Next]_vars
  PROVE  OneGate'
<1> SUFFICES ASSUME ~MayHappen("forget")
             PROVE  gen' = 0 /\ \A u \in Tasks : gate'[u] = 0
  BY DEF OneGate, MayHappen
<1>1. gen' = 0 /\ gen = 0 /\ \A u \in Tasks : gate[u] = 0
  BY ClockRuns DEF OneGate
<1>2. CASE Restart
  BY <1>1, <1>2 DEF Restart
<1>3. CASE WorldStep \/ UNCHANGED vars
  BY <1>1, <1>3, TasksStay DEF vars, Locals
<1>4. ASSUME NEW t \in Tasks, TaskStep(t) PROVE gate'[t] = 0
  <2> USE <1>1 DEF TypeOK, Goto, Locals
  <2>1. CASE Call(t) \/ Lock(t) \/ FastMiss(t) \/ TakeGate(t) \/ Recheck(t) \/ DiskMiss(t) \/ Acquire(t)
             \/ Send(t) \/ Answered(t) \/ BackedOff(t) \/ Redirected(t)
    BY <2>1 DEF Call, Lock, FastMiss, TakeGate, Recheck, DiskMiss, Acquire, Send, Answered, BackedOff, Redirected
  <2>2. CASE FastHit(t) \/ Coalesced(t) \/ DiskHit(t) \/ Shed(t) \/ Refused(t) \/ Persisted(t) \/ Cancel(t)
    BY <2>2 DEF FastHit, Coalesced, DiskHit, Shed, Refused, Persisted, Cancel, Leave
  <2>3. CASE Lost(t) \/ Busy(t)
    BY <2>3 DEF Lost, Busy, Transient, Leave
  <2>4. CASE Received(t) \/ NotModified(t)
    BY <2>4 DEF Received, NotModified, Finish, Leave
  <2> QED
    BY <1>4, <2>1, <2>2, <2>3, <2>4 DEF TaskStep, Progress
<1> QED
  BY <1>1, <1>2, <1>3, <1>4, OthersStay, StepCases

-----------------------------------------------------------------------------
(* What a call knows of its own request *)

\* What an answer may say, given the tag the request carried.
ReplyMeant(r, sentTag) ==
  /\ r.kind = "body" => r.rev > 0
  /\ r.kind = "absent" => r.rev = 0
  /\ r.kind = "unchanged" =>
       /\ r.rev > 0 => r.rev = sentTag
       /\ ~MayHappen("bogus") => r.rev > 0

\* A validator went to the URL that issued it; an answer is no older than the call;
\* only a success is written to the disk.
OwnRequest(t) ==
  /\ began[t] <= clock
  /\ pc[t] \in {"flight", "reply"} /\ tag[t] > 0 =>
       stale[t].at = cur[t] /\ stale[t].rev = tag[t]
  /\ pc[t] = "reply" => began[t] <= reply[t].asOf /\ ReplyMeant(reply[t], tag[t])
  /\ pc[t] = "persist" => began[t] <= writing[t].asOf /\ IsOk(writing[t])

OwnRequests == \A t \in Tasks : OwnRequest(t)

\* What is served has a revision.
Published == origin.rev[origin.at] > 0

\* Only the origin changes the resource.
LEMMA TaskKeepsOrigin ==
  ASSUME NEW t \in Tasks, TaskStep(t)
  PROVE  UNCHANGED origin
<1> USE DEF World
<1>1. CASE Call(t) \/ Lock(t) \/ FastMiss(t) \/ TakeGate(t) \/ Recheck(t) \/ DiskMiss(t) \/ Acquire(t)
           \/ Send(t) \/ Answered(t) \/ BackedOff(t) \/ Redirected(t)
  BY <1>1 DEF Call, Lock, FastMiss, TakeGate, Recheck, DiskMiss, Acquire, Send, Answered, BackedOff, Redirected
<1>2. CASE FastHit(t) \/ Coalesced(t) \/ DiskHit(t) \/ Shed(t) \/ Refused(t) \/ Persisted(t) \/ Cancel(t)
  BY <1>2 DEF FastHit, Coalesced, DiskHit, Shed, Refused, Persisted, Cancel
<1>3. CASE Lost(t) \/ Busy(t) \/ Received(t) \/ NotModified(t)
  BY <1>3 DEF Lost, Busy, Received, NotModified, Finish
<1> QED
  BY <1>1, <1>2, <1>3 DEF TaskStep, Progress

\* The URL a resource is served from has published at least once.
LEMMA PublishedStep ==
  ASSUME TypeOK, Published, [Next]_vars
  PROVE  Published'
<1>0. origin.at \in Urls /\ origin.rev \in [Urls -> 0 .. MaxRev]
  BY DEF TypeOK
<1>1. CASE OriginChanges
  <2>0. origin.rev[origin.at] \in Nat
    BY <1>0, FetcherConstants
  <2>1. CASE Publish \/ Remove
    <3>1. CASE Publish
      <4>1. origin' = [origin EXCEPT !.rev[origin.at] = @ + 1, !.exists = TRUE]
        BY <3>1 DEF Publish
      <4>2. origin'.at = origin.at /\ origin'.rev[origin.at] = origin.rev[origin.at] + 1
        BY <1>0, <4>1 DEF TypeOK
      <4> QED BY <2>0, <4>2 DEF Published
    <3>2. CASE Remove
      <4>1. origin'.at = origin.at /\ origin'.rev = origin.rev
        BY <3>2 DEF Remove, TypeOK
      <4> QED BY <4>1 DEF Published
    <3> QED BY <2>1, <3>1, <3>2
  <2>2. CASE Move
    <3>1. PICK u \in Urls : origin' = [origin EXCEPT !.at = u, !.rev[u] = @ + 1, !.exists = TRUE]
      BY <2>2 DEF Move
    <3>2. origin'.at = u /\ origin'.rev[u] = origin.rev[u] + 1 /\ origin.rev[u] \in Nat
      BY <1>0, <3>1, FetcherConstants DEF TypeOK
    <3> QED BY <3>2 DEF Published
  <2> QED BY <1>1, <2>1, <2>2 DEF OriginChanges
<1>2. CASE UNCHANGED origin
  BY <1>2 DEF Published
<1>3. ASSUME NEW t \in Tasks, TaskStep(t) PROVE UNCHANGED origin
  BY <1>3, TaskKeepsOrigin
<1>4. CASE OrphanWrites \/ Others \/ Evict \/ ForgetGate \/ Restart \/ Tick \/ UNCHANGED vars
  BY <1>2, <1>4 DEF OrphanWrites, Others, Evict, ForgetGate, Restart, Tick, World, vars
<1> QED
  BY <1>1, <1>2, <1>3, <1>4, StepCases DEF WorldStep

\* The origin answers a conditional request by the tag it carried.
LEMMA OriginMeans ==
  ASSUME TypeOK, Published, NEW url \in Urls, NEW validator \in 0 .. MaxRev,
         NEW r \in OriginReplies(url, validator)
  PROVE  ReplyMeant(r, validator) /\ r.asOf = clock
<1>1. origin.rev[origin.at] \in Nat
  BY FetcherConstants DEF TypeOK
<1> QED
  BY <1>1 DEF OriginReplies, ReplyMeant, MayHappen, Published

\* What a fetch leaves for the disk.
LEMMA FinishWrites ==
  ASSUME TypeOK, NEW t \in Tasks, NEW e \in Entries, Finish(t, e)
  PROVE  \/ pc'[t] = "idle"
         \/ pc'[t] = "persist" /\ writing'[t] = e /\ IsOk(e)
  BY DEF Finish, Leave, Goto, TypeOK

\* The revision an answer stands for: the one it carries, or, of a 304, the kept one.
EntryMeant(t, e) ==
  /\ reply[t].kind \in {"body", "absent", "unchanged"}
  /\ reply[t].kind = "unchanged" => e.rev = stale[t].rev /\ e.at = stale[t].at
  /\ reply[t].kind # "unchanged" => e.rev = reply[t].rev /\ e.at = cur[t]

\* What a fetch makes of an answer: an entry vouched for when the answer was given.
LEMMA AnswerKept ==
  ASSUME TypeOK, OwnRequests, NEW t \in Tasks, Received(t) \/ NotModified(t)
  PROVE  \/ Leave(t, Failure) /\ UNCHANGED <<World, mem, disk, orphans>>
         \/ \E e \in Entries :
              /\ Finish(t, e)
              /\ e.asOf = reply[t].asOf
              /\ EntryMeant(t, e)
              /\ ~MayHappen("bogus") /\ ~IsOk(e) => e.until = clock + NegativeTtl
<1>1. pc[t] = "reply" /\ ReplyMeant(reply[t], tag[t])
  BY DEF Received, NotModified, OwnRequests, OwnRequest
<1>2. ASSUME NEW grant \in Grants, reply[t].kind = "body",
             Finish(t, Entry(reply[t].rev, cur[t], clock + grant, reply[t].asOf))
      PROVE  IsOk(Entry(reply[t].rev, cur[t], clock + grant, reply[t].asOf))
  BY <1>1, <1>2 DEF ReplyMeant, IsOk, Entry
<1>3. CASE Received(t)
  <2>1. CASE reply[t].kind = "body"
    <3>1. PICK grant \in Grants : Finish(t, Entry(reply[t].rev, cur[t], clock + grant, reply[t].asOf))
      BY <1>3, <2>1 DEF Received
    <3>2. Entry(reply[t].rev, cur[t], clock + grant, reply[t].asOf) \in Entries
      BY ReplyTypes, EntryTypes
    <3> QED
      BY <1>2, <2>1, <3>1, <3>2 DEF Entry, EntryMeant
  <2>2. CASE reply[t].kind = "absent"
    <3>1. Finish(t, Entry(0, cur[t], clock + NegativeTtl, reply[t].asOf))
      BY <1>3, <2>2 DEF Received
    <3>2. Entry(0, cur[t], clock + NegativeTtl, reply[t].asOf) \in Entries
      BY ReplyTypes, EntryTypes
    <3>3. reply[t].rev = 0
      BY <1>1, <2>2 DEF ReplyMeant
    <3> QED
      BY <2>2, <3>1, <3>2, <3>3 DEF Entry, EntryMeant
  <2> QED
    BY <1>3, <2>1, <2>2 DEF Received
<1>4. CASE NotModified(t)
  <2>0. reply[t].kind = "unchanged"
    BY <1>4 DEF NotModified
  <2>1. CASE ~IsSome(stale[t])
    BY <1>4, <2>1 DEF NotModified
  <2>2. CASE IsSome(stale[t])
    <3>1. PICK grant \in Grants :
            Finish(t, Entry(stale[t].rev, stale[t].at, clock + grant, reply[t].asOf))
      BY <1>4, <2>2 DEF NotModified
    <3>2. stale[t].rev \in 0 .. MaxRev /\ stale[t].at \in Urls
      BY <2>2, EntryFields DEF TypeOK
    <3>3. Entry(stale[t].rev, stale[t].at, clock + grant, reply[t].asOf) \in Entries
      BY <3>2, ReplyTypes, EntryTypes
    <3>4. ~MayHappen("bogus") => stale[t].rev > 0
      <4>1. reply[t].rev \in 0 .. MaxRev /\ tag[t] \in 0 .. MaxRev
        BY ReplyTypes DEF TypeOK
      <4> QED
        BY <1>1, <2>0, <4>1, FetcherConstants DEF ReplyMeant, OwnRequests, OwnRequest
    <3> QED
      BY <2>0, <3>1, <3>3, <3>4 DEF Entry, EntryMeant, IsOk
  <2> QED
    BY <2>1, <2>2
<1> QED
  BY <1>3, <1>4

\* One step of a call keeps what it knows of its request.
LEMMA OwnTaskStep ==
  ASSUME TypeOK, OwnRequests, Published, clock' >= clock, clock' \in Nat,
         NEW t \in Tasks, TaskStep(t), NEW u \in Tasks
  PROVE  OwnRequest(u)'
<1>0. clock \in Nat /\ \A v \in Tasks : began[v] \in Nat
  BY FetcherConstants DEF TypeOK
<1>1. CASE u # t
  BY <1>0, <1>1, OthersStay DEF OwnRequests, OwnRequest, ReplyMeant, MayHappen
<1>2. CASE u = t
  <2>0. OwnRequest(t)
    BY DEF OwnRequests
  <2> USE DEF TypeOK, Goto, World, Locals, Results
  <2>1. CASE Call(t)
    BY <1>0, <1>2, <2>1 DEF Call, OwnRequest
  <2>2. CASE Lock(t) \/ FastMiss(t) \/ TakeGate(t) \/ Recheck(t) \/ DiskMiss(t) \/ Acquire(t) \/ BackedOff(t)
             \/ Redirected(t)
    BY <1>0, <1>2, <2>0, <2>2
       DEF Lock, FastMiss, TakeGate, Recheck, DiskMiss, Acquire, BackedOff, Redirected, OwnRequest
  <2>3. CASE Send(t)
    <3>1. /\ pc'[t] = "flight" /\ tag'[t] = Validator(t)
          /\ UNCHANGED <<clock, began, stale, cur>>
      BY <2>3 DEF Send
    <3>2. Validator(t) > 0 => stale[t].at = cur[t] /\ stale[t].rev = Validator(t)
      BY DEF Validator
    <3> QED BY <1>2, <2>0, <3>1, <3>2 DEF OwnRequest
  <2>4. CASE Answered(t)
    <3>1. PICK r \in OriginReplies(cur[t], tag[t]) : reply' = [reply EXCEPT ![t] = r]
      BY <2>4 DEF Answered
    <3>2. ReplyMeant(r, tag[t]) /\ r.asOf = clock
      BY OriginMeans
    <3>3. /\ pc[t] = "flight" /\ pc'[t] = "reply" /\ reply'[t] = r
          /\ UNCHANGED <<clock, began, stale, cur, tag>>
      BY <2>4, <3>1 DEF Answered
    <3> QED BY <1>2, <2>0, <3>2, <3>3 DEF OwnRequest, ReplyMeant, MayHappen
  <2>5. CASE FastHit(t) \/ Coalesced(t) \/ DiskHit(t) \/ Shed(t) \/ Refused(t) \/ Persisted(t) \/ Cancel(t)
    <3>1. pc'[t] = "idle" /\ UNCHANGED <<clock, began>>
      BY <2>5 DEF FastHit, Coalesced, DiskHit, Shed, Refused, Persisted, Cancel, Leave
    <3> QED BY <1>2, <2>0, <3>1 DEF OwnRequest
  <2>6. CASE Lost(t) \/ Busy(t)
    <3>1. pc'[t] \in {"idle", "backoff"} /\ UNCHANGED <<clock, began>>
      BY <2>6 DEF Lost, Busy, Transient, Leave
    <3> QED BY <1>2, <2>0, <3>1 DEF OwnRequest
  <2>7. CASE Received(t) \/ NotModified(t)
    <3>1. pc[t] = "reply" /\ UNCHANGED <<clock, began>>
      BY <2>7 DEF Received, NotModified, Finish
    <3>2. CASE Leave(t, Failure)
      BY <1>2, <2>0, <3>1, <3>2 DEF Leave, OwnRequest
    <3>3. CASE \E e \in Entries : Finish(t, e) /\ e.asOf = reply[t].asOf
      BY <1>2, <2>0, <3>1, <3>3, FinishWrites DEF OwnRequest
    <3> QED BY <2>7, <3>2, <3>3, AnswerKept
  <2> QED
    BY <2>1, <2>2, <2>3, <2>4, <2>5, <2>6, <2>7 DEF TaskStep, Progress
<1> QED
  BY <1>1, <1>2

\* Every step keeps what each call knows of its own request.
LEMMA OwnStep ==
  ASSUME TypeOK, OwnRequests, Published, [Next]_vars
  PROVE  OwnRequests'
<1>0. clock \in Nat /\ clock' \in Nat /\ clock' >= clock /\ \A v \in Tasks : began[v] \in Nat
  BY TypeStep, ClockRuns, FetcherConstants DEF TypeOK
<1>1. CASE Restart
  BY <1>0, <1>1 DEF Restart, World, OwnRequests, OwnRequest
<1>2. CASE WorldStep \/ UNCHANGED vars
  BY <1>0, <1>2, TasksStay DEF vars, Locals, OwnRequests, OwnRequest, ReplyMeant, MayHappen
<1>3. CASE \E t \in Tasks : TaskStep(t)
  BY <1>0, <1>3, OwnTaskStep DEF OwnRequests
<1> QED
  BY <1>1, <1>2, <1>3, StepCases

-----------------------------------------------------------------------------
(* What memory and the disk hold *)

\* Only successes are on the disk, or on the way to it.
Successes ==
  /\ IsSome(disk) => IsOk(disk)
  /\ \A r \in orphans \cup theirs : IsOk(r)

\* Unless servers send a 304 nobody asked for, an absence is brief.
Brief == ~MayHappen("bogus") => AbsenceIsBrief

\* While there is one gate, nobody is on the way to the origin, or to the disk, when
\* memory holds an answer.
Needed ==
  ~MayHappen("forget") =>
    \A t \in Tasks : pc[t] \in InFetch \cup {"load"} => ~IsFresh(mem)

\* What a call's step does to memory and disk.
LEMMA StoresStep ==
  ASSUME TypeOK, OwnRequests, Successes, NEW t \in Tasks, TaskStep(t)
  PROVE  /\ Successes'
         /\ \/ mem' = mem
            \/ pc[t] = "load" /\ mem' = disk /\ IsFresh(disk) /\ pc'[t] = "idle"
            \/ /\ pc[t] = "reply" /\ pc'[t] \in {"idle", "persist"}
               /\ ~MayHappen("bogus") /\ ~IsOk(mem') => mem'.until = clock + NegativeTtl
<1> USE DEF TypeOK, Goto, World, Locals, Results
<1>1. CASE Call(t) \/ Lock(t) \/ FastMiss(t) \/ TakeGate(t) \/ Recheck(t) \/ DiskMiss(t) \/ Acquire(t)
           \/ Send(t) \/ Answered(t) \/ BackedOff(t) \/ Redirected(t)
  <2>1. UNCHANGED <<mem, disk, orphans, theirs>>
    BY <1>1 DEF Call, Lock, FastMiss, TakeGate, Recheck, DiskMiss, Acquire, Send, Answered, BackedOff, Redirected
  <2> QED BY <2>1 DEF Successes
<1>2. CASE FastHit(t) \/ Coalesced(t) \/ Shed(t) \/ Refused(t) \/ Lost(t) \/ Busy(t)
  <2>1. UNCHANGED <<mem, disk, orphans, theirs>>
    BY <1>2 DEF FastHit, Coalesced, Shed, Refused, Lost, Busy
  <2> QED BY <2>1 DEF Successes
<1>3. CASE DiskHit(t)
  BY <1>3 DEF DiskHit, Leave, Successes
<1>4. CASE Persisted(t)
  <2>1. IsOk(writing[t])
    BY <1>4 DEF Persisted, OwnRequests, OwnRequest
  <2> QED BY <1>4, <2>1 DEF Persisted, Successes
<1>5. CASE Cancel(t)
  <2>1. pc[t] = "persist" => IsOk(writing[t])
    BY DEF OwnRequests, OwnRequest
  <2> QED BY <1>5, <2>1 DEF Cancel, Successes
<1>6. CASE Received(t) \/ NotModified(t)
  <2>1. pc[t] = "reply"
    BY <1>6 DEF Received, NotModified
  <2>2. CASE Leave(t, Failure) /\ UNCHANGED <<World, mem, disk, orphans>>
    BY <2>2 DEF Successes
  <2>3. CASE \E e \in Entries :
               /\ Finish(t, e)
               /\ ~MayHappen("bogus") /\ ~IsOk(e) => e.until = clock + NegativeTtl
    <3>1. PICK e \in Entries :
            /\ Finish(t, e)
            /\ ~MayHappen("bogus") /\ ~IsOk(e) => e.until = clock + NegativeTtl
      BY <2>3
    <3>2. UNCHANGED <<disk, orphans, theirs>> /\ mem' \in {mem, e}
      BY <3>1 DEF Finish, World
    <3>3. pc'[t] \in {"idle", "persist"}
      BY <3>1, FinishWrites
    <3> QED BY <2>1, <3>1, <3>2, <3>3 DEF Successes
  <2> QED BY <1>6, <2>2, <2>3, AnswerKept
<1> QED
  BY <1>1, <1>2, <1>3, <1>4, <1>5, <1>6 DEF TaskStep, Progress

\* Once memory is not fresh, only a step that changes it makes it fresh.
LEMMA StaysExpired ==
  ASSUME TypeOK, ~IsFresh(mem), mem' = mem, clock' >= clock, clock' \in Nat
  PROVE  ~IsFresh(mem)'
<1>1. clock \in Nat /\ mem.until \in Nat
  BY EntryFields, FetcherConstants DEF TypeOK
<1> QED
  BY <1>1 DEF IsFresh, IsSome

\* A restart, and the world, empty memory at most; what lands on the disk is a success.
LEMMA WorldStores ==
  ASSUME TypeOK, Published, Successes, WorldStep \/ Restart \/ UNCHANGED vars
  PROVE  Successes' /\ mem' \in {mem, None}
<1> USE DEF World, Locals, Results
<1>1. CASE OrphanWrites
  BY <1>1, LateTypes DEF OrphanWrites, Successes, IsOk, TypeOK
<1>4. CASE Others
  <2>1. CASE OthersFetch
    <3>1. PICK grant \in Grants :
            theirs' = theirs \cup {[Entry(origin.rev[origin.at], origin.at, clock + grant, clock)
                                     EXCEPT !.late = TRUE]}
      BY <2>1 DEF OthersFetch
    <3>2. IsOk([Entry(origin.rev[origin.at], origin.at, clock + grant, clock) EXCEPT !.late = TRUE])
      BY DEF Entry, IsOk, Published
    <3> QED BY <1>4, <2>1, <3>1, <3>2 DEF Others, OthersFetch, Successes
  <2>2. CASE OthersWrite
    BY <1>4, <2>2 DEF Others, OthersWrite, Successes
  <2>3. CASE OthersRemove
    BY <1>4, <2>3 DEF Others, OthersRemove, Successes, None, IsSome
  <2> QED BY <1>4, <2>1, <2>2, <2>3 DEF Others
<1>2. CASE Evict \/ ForgetGate \/ OriginChanges \/ Tick \/ UNCHANGED vars
  BY <1>2 DEF Evict, ForgetGate, OriginChanges, Tick, vars, Successes
<1>3. CASE Restart
  BY <1>3 DEF Restart, Successes
<1> QED
  BY <1>1, <1>2, <1>3, <1>4 DEF WorldStep

\* No memory is not fresh, and no absence.
LEMMA NoneFacts == ~IsSome(None) /\ ~IsFresh(None) /\ (mem' = None => ~IsSome(mem) ' /\ ~IsFresh(mem)')
  BY DEF None, IsSome, IsFresh

\* A lifetime that begins later ends later.
LEMMA LaterEnds ==
  \A a, b, n \in Nat : a <= b => a + n <= b + n
  OBVIOUS

\* No step lets an absence outlive the negative lifetime.
LEMMA BriefStep ==
  ASSUME TypeOK, Published, OwnRequests, Successes, Brief, [Next]_vars
  PROVE  Brief'
<1> SUFFICES ASSUME ~MayHappen("bogus"), IsSome(mem'), ~IsOk(mem')
             PROVE  mem'.until <= clock' + NegativeTtl
  BY DEF Brief, AbsenceIsBrief, MayHappen, IsSome, IsOk
<1>0. /\ clock \in Nat /\ clock' \in Nat /\ clock' >= clock /\ NegativeTtl \in Nat
      /\ mem.until \in Nat /\ mem'.until \in Nat
  BY TypeStep, ClockRuns, EntryFields, FetcherConstants DEF TypeOK
<1>1. CASE mem' = mem
  BY <1>0, <1>1 DEF Brief, AbsenceIsBrief
<1>2. CASE mem' = disk /\ IsFresh(disk)
  BY <1>2 DEF Successes, IsFresh
<1>3. CASE mem'.until = clock + NegativeTtl
  BY <1>0, <1>3, LaterEnds
<1>4. CASE mem' = None
  BY <1>4 DEF None, IsSome
<1>5. ASSUME NEW t \in Tasks, TaskStep(t)
      PROVE  mem'.until <= clock' + NegativeTtl
  <2>1. \/ mem' = mem
        \/ mem' = disk /\ IsFresh(disk)
        \/ mem'.until = clock + NegativeTtl
    BY <1>5, StoresStep
  <2> QED BY <1>1, <1>2, <1>3, <2>1
<1>6. CASE WorldStep \/ Restart \/ UNCHANGED vars
  BY <1>1, <1>4, <1>6, WorldStores
<1> QED
  BY <1>5, <1>6, StepCases

\* A task that is on its way to the origin, or to the disk, was, or found memory
\* without an answer in this step.
LEMMA OnTheWay ==
  ASSUME TypeOK, NEW t \in Tasks, TaskStep(t), pc'[t] \in InFetch \cup {"load"}
  PROVE  /\ mem' = mem
         /\ pc[t] \in InFetch \cup {"load"} \/ ~IsFresh(mem)
<1> USE DEF TypeOK, Goto, World, Locals, Results, InFetch
<1>1. CASE Call(t) \/ Lock(t) \/ FastMiss(t) \/ TakeGate(t)
  BY <1>1 DEF Call, Lock, FastMiss, TakeGate
<1>2. CASE Recheck(t)
  BY <1>2 DEF Recheck
<1>3. CASE DiskMiss(t) \/ Acquire(t) \/ Send(t) \/ Answered(t) \/ BackedOff(t) \/ Redirected(t)
  BY <1>3 DEF DiskMiss, Acquire, Send, Answered, BackedOff, Redirected
<1>4. CASE FastHit(t) \/ Coalesced(t) \/ DiskHit(t) \/ Shed(t) \/ Refused(t) \/ Persisted(t) \/ Cancel(t)
  BY <1>4 DEF FastHit, Coalesced, DiskHit, Shed, Refused, Persisted, Cancel, Leave
<1>5. CASE Lost(t) \/ Busy(t)
  <2>1. mem' = mem /\ pc[t] \in {"flight", "reply"}
    BY <1>5 DEF Lost, Busy
  <2> QED BY <2>1
<1>6. CASE Received(t) \/ NotModified(t)
  <2>1. pc'[t] \in {"idle", "persist"}
    BY <1>6 DEF Received, NotModified, Finish, Leave
  <2> QED BY <2>1
<1>7. CASE Refused(t)
  BY <1>7 DEF Refused, Leave
<1> QED
  BY <1>1, <1>2, <1>3, <1>4, <1>5, <1>6, <1>7 DEF TaskStep, Progress

\* With one gate, one task holds it.
LEMMA HolderAlone ==
  ASSUME Exclusive, OneGate, ~MayHappen("forget"), NEW t \in Tasks, NEW u \in Tasks,
         pc[t] \in Holding, pc[u] \in Holding
  PROVE  t = u
  BY DEF Exclusive, OneGate

\* No step leaves a call fetching what memory holds fresh.
LEMMA NeededStep ==
  ASSUME TypeOK, Published, Exclusive, OneGate, OwnRequests, Successes, Needed, [Next]_vars
  PROVE  Needed'
<1> SUFFICES ASSUME ~MayHappen("forget"), NEW u \in Tasks, pc'[u] \in InFetch \cup {"load"}
             PROVE  ~IsFresh(mem)'
  BY DEF Needed, MayHappen, InFetch
<1>0. clock' \in Nat /\ clock' >= clock
  BY TypeStep, ClockRuns, FetcherConstants DEF TypeOK
<1>1. CASE Restart
  BY <1>1 DEF Restart, InFetch
<1>2. CASE WorldStep \/ UNCHANGED vars
  <2>1. pc'[u] = pc[u]
    BY <1>2, TasksStay DEF vars
  <2>2. mem' \in {mem, None}
    BY <1>2, WorldStores
  <2> QED BY <1>0, <2>1, <2>2, NoneFacts, StaysExpired DEF Needed
<1>3. ASSUME NEW t \in Tasks, TaskStep(t) PROVE ~IsFresh(mem)'
  <2>1. CASE t = u
    BY <1>0, <1>3, <2>1, OnTheWay, StaysExpired DEF Needed
  <2>2. CASE t # u
    <3>1. pc[u] = pc'[u] /\ pc[u] \in Holding
      BY <1>3, <2>2, OthersStay DEF Holding, InFetch
    <3>2. pc[t] \notin Holding
      BY <2>2, <3>1, HolderAlone
    <3>3. mem' = mem
      BY <1>3, <3>2, StoresStep DEF Holding, InFetch
    <3> QED BY <1>0, <3>1, <3>3, StaysExpired DEF Needed
  <2> QED BY <2>1, <2>2
<1> QED
  BY <1>1, <1>2, <1>3, StepCases

-----------------------------------------------------------------------------
(* The invariant *)

IInv ==
  /\ TypeOK /\ Exclusive /\ OneGate /\ OwnRequests /\ Published /\ Successes /\ Brief /\ Needed

\* The inductive invariant holds at the start.
LEMMA InvariantInit == Init => IInv
<1> SUFFICES ASSUME Init PROVE IInv
  OBVIOUS
<1>1. TypeOK
  BY TypeInit
<1>2. Exclusive /\ OneGate /\ OwnRequests /\ Needed
  BY DEF Init, Exclusive, OneGate, OwnRequests, OwnRequest, Needed, Holding, InFetch
<1>3. Published
  BY DEF Init, Published, Urls
<1>4. Successes /\ Brief
  BY DEF Init, Successes, Brief, AbsenceIsBrief, None, IsSome
<1> QED
  BY <1>1, <1>2, <1>3, <1>4 DEF IInv

\* Every step keeps the inductive invariant.
LEMMA InvariantStep == IInv /\ [Next]_vars => IInv'
<1> SUFFICES ASSUME IInv, [Next]_vars PROVE IInv'
  OBVIOUS
<1> USE DEF IInv
<1>1. TypeOK' /\ Exclusive' /\ OneGate' /\ OwnRequests' /\ Published'
  BY TypeStep, ExclusiveStep, OneGateStep, OwnStep, PublishedStep
<1>2. Brief' /\ Needed'
  BY BriefStep, NeededStep
<1>3. Successes'
  BY StoresStep, WorldStores, StepCases
<1> QED
  BY <1>1, <1>2, <1>3

\* The inductive invariant holds in every state.
THEOREM Invariant == Spec => []IInv
  BY InvariantInit, InvariantStep, PTL DEF Spec

\* What a call that returns a resource, or its absence, returns: what memory or the
\* disk held fresh, what it has just written, or what it has just received.
LEMMA Returns ==
  ASSUME TypeOK, OwnRequests, NEW t \in Tasks, TaskStep(t), Returned(t)
  PROVE  \E e \in Entries :
           /\ Leave(t, Interpret(e))
           /\ \/ e = mem /\ IsFresh(mem)
              \/ pc[t] = "load" /\ e = disk /\ IsFresh(disk)
              \/ pc[t] = "persist" /\ e = writing[t]
              \/ pc[t] = "reply" /\ e.asOf = reply[t].asOf /\ EntryMeant(t, e)
<1> USE DEF TypeOK, Goto, Returned, Locals, Results
<1>1. CASE Call(t) \/ Lock(t) \/ FastMiss(t) \/ TakeGate(t) \/ Recheck(t) \/ DiskMiss(t) \/ Acquire(t)
           \/ Send(t) \/ Answered(t) \/ BackedOff(t) \/ Redirected(t)
  BY <1>1 DEF Call, Lock, FastMiss, TakeGate, Recheck, DiskMiss, Acquire, Send, Answered, BackedOff, Redirected
<1>2. CASE FastHit(t) \/ Coalesced(t)
  BY <1>2 DEF FastHit, Coalesced
<1>3. CASE DiskHit(t)
  BY <1>3 DEF DiskHit
<1>4. CASE Shed(t) \/ Refused(t) \/ Cancel(t)
  <2>1. answer'[t] \in {Failure, NoAnswer}
    BY <1>4 DEF Shed, Refused, Cancel, Leave
  <2> QED BY <2>1 DEF Failure, NoAnswer
<1>5. CASE Lost(t) \/ Busy(t)
  <2>1. pc'[t] = "backoff" \/ answer'[t] = Failure
    BY <1>5 DEF Lost, Busy, Transient, Leave
  <2> QED BY <2>1 DEF Failure
<1>6. CASE Persisted(t)
  BY <1>6 DEF Persisted
<1>7. CASE Received(t) \/ NotModified(t)
  <2>1. pc[t] = "reply"
    BY <1>7 DEF Received, NotModified
  <2>2. ~Leave(t, Failure)
    BY DEF Leave, Failure
  <2>3. PICK e \in Entries : Finish(t, e) /\ e.asOf = reply[t].asOf /\ EntryMeant(t, e)
    BY <1>7, <2>2, AnswerKept
  <2>4. Leave(t, Interpret(e))
    BY <2>3 DEF Finish
  <2> QED BY <2>1, <2>3, <2>4
<1> QED
  BY <1>1, <1>2, <1>3, <1>4, <1>5, <1>6, <1>7 DEF TaskStep, Progress

\* Only a step of its own makes a call return something.
LEMMA OwnReturn ==
  ASSUME TypeOK, [Next]_vars, NEW t \in Tasks, Returned(t)
  PROVE  TaskStep(t)
<1>1. CASE Restart
  BY <1>1 DEF Restart, Returned, NoAnswer
<1>2. CASE WorldStep \/ UNCHANGED vars
  BY <1>2, TasksStay DEF vars, Returned
<1>3. ASSUME NEW u \in Tasks, TaskStep(u), u # t PROVE FALSE
  BY <1>3, OthersStay DEF Returned
<1> QED
  BY <1>1, <1>2, <1>3, StepCases

\* Nothing is fetched that memory holds, while gates are not forgotten.
THEOREM Coalescing ==
  ASSUME ~MayHappen("forget")
  PROVE  Spec => []NoNeedlessRequest
<1>1. IInv => NoNeedlessRequest
  BY DEF IInv, Needed, NoNeedlessRequest
<1> QED
  BY <1>1, Invariant, PTL

\* An absence is remembered briefly, as long as servers send no 304 unasked.
THEOREM AbsencesAreBrief ==
  ASSUME ~MayHappen("bogus")
  PROVE  Spec => []AbsenceIsBrief
<1>1. IInv => AbsenceIsBrief
  BY DEF IInv, Brief
<1> QED
  BY <1>1, Invariant, PTL

\* Whatever happens, a call returns what is within its lifetime or was vouched for
\* while it ran.
THEOREM AnswersJustified == Spec => AnswerJustified
<1>1. ASSUME IInv, [Next]_vars, NEW t \in Tasks, Returned(t)
      PROVE  clock < answer'[t].entry.until \/ answer'[t].entry.asOf >= began[t]
  <2>1. TaskStep(t)
    BY <1>1, OwnReturn DEF IInv
  <2>2. PICK e \in Entries :
          /\ Leave(t, Interpret(e))
          /\ \/ e = mem /\ IsFresh(mem)
             \/ e = disk /\ IsFresh(disk)
             \/ pc[t] = "persist" /\ e = writing[t]
             \/ pc[t] = "reply" /\ e.asOf = reply[t].asOf
    BY <1>1, <2>1, Returns DEF IInv
  <2>3. answer'[t].entry = e
    BY <1>1, <2>2 DEF Leave, Interpret, IInv, TypeOK
  <2>4. CASE (e = mem /\ IsFresh(mem)) \/ (e = disk /\ IsFresh(disk))
    BY <2>3, <2>4 DEF IsFresh
  <2>5. began[t] \in Nat /\ e.asOf \in Nat
    BY <1>1, EntryFields, FetcherConstants DEF IInv, TypeOK
  <2>6. CASE pc[t] = "persist" /\ e = writing[t]
    BY <1>1, <2>3, <2>5, <2>6 DEF IInv, OwnRequests, OwnRequest
  <2>7. CASE pc[t] = "reply" /\ e.asOf = reply[t].asOf
    BY <1>1, <2>3, <2>5, <2>7 DEF IInv, OwnRequests, OwnRequest
  <2> QED
    BY <2>2, <2>4, <2>6, <2>7
<1>2. IInv /\ [Next]_vars => (\A t \in Tasks : Returned(t) =>
                              \/ clock < answer'[t].entry.until
                              \/ answer'[t].entry.asOf >= began[t])
  BY <1>1
<1> QED
  BY <1>2, Invariant, PTL DEF Spec, AnswerJustified

\* A 304 refreshes the revision the origin meant, at the URL that was asked.
THEOREM RevalidationsSound == Spec => RevalidationSound
<1>1. ASSUME IInv, [Next]_vars, NEW t \in Tasks,
             pc[t] = "reply", reply[t].kind = "unchanged", reply[t].rev > 0,
             pc'[t] # "reply", mem' # mem, IsSome(mem')
      PROVE  mem'.at = cur[t] /\ mem'.rev = reply[t].rev
  <2>1. TaskStep(t)
    <3>1. CASE WorldStep \/ UNCHANGED vars
      BY <1>1, <3>1, TasksStay DEF vars
    <3>2. CASE Restart
      BY <1>1, <3>2, NoneFacts DEF Restart
    <3>3. ASSUME NEW u \in Tasks, TaskStep(u), u # t PROVE FALSE
      BY <1>1, <3>3, OthersStay DEF IInv
    <3> QED BY <1>1, <3>1, <3>2, <3>3, StepCases
  <2>2. Received(t) \/ NotModified(t)
    BY <1>1, <2>1 DEF TaskStep, Progress, Call, Lock, FastHit, FastMiss, TakeGate, Coalesced, Recheck, DiskHit,
          DiskMiss, Acquire, Send, Answered, Busy, BackedOff, Redirected, Refused, Persisted, Shed, Lost, Cancel
  <2>3. reply[t].rev = tag[t] /\ (tag[t] > 0 => stale[t].at = cur[t] /\ stale[t].rev = tag[t])
    BY <1>1 DEF IInv, OwnRequests, OwnRequest, ReplyMeant
  <2>4. PICK e \in Entries : Finish(t, e) /\ e.rev = stale[t].rev /\ e.at = stale[t].at
    BY <1>1, <2>2, AnswerKept DEF IInv, EntryMeant
  <2>5. mem' = e
    BY <1>1, <2>4 DEF Finish
  <2> QED
    BY <1>1, <2>3, <2>4, <2>5
<1>2. IInv /\ [Next]_vars =>
        (\A t \in Tasks :
           pc[t] = "reply" /\ reply[t].kind = "unchanged" /\ reply[t].rev > 0
             /\ pc'[t] # "reply" /\ mem' # mem /\ IsSome(mem')
             => mem'.at = cur[t] /\ mem'.rev = reply[t].rev)
  BY <1>1
<1> QED
  BY <1>2, Invariant, PTL DEF Spec, RevalidationSound

-----------------------------------------------------------------------------
(* Revisions never go back *)

\* The conditions: one gate, no 304 that nobody asked for, and what is written to the
\* disk is kept in memory too.
Calm == /\ Faults \cap {"forget", "bogus"} = {}
        /\ Persistent => Store

\* No copy is ahead of the origin.
BehindOrigin ==
  /\ \A u \in Urls : newest[u] <= origin.rev[u]
  /\ IsSome(mem) => mem.rev <= origin.rev[mem.at]
  /\ IsSome(disk) => disk.rev <= origin.rev[disk.at]
  /\ \A r \in orphans \cup theirs : IsSome(r) /\ r.rev <= origin.rev[r.at]
  /\ \A r \in theirs : r.late

\* What the disk holds is fresh, and came there by a call that waited for it.
OwnDisk == IsFresh(disk) /\ ~disk.late

\* What is still fresh is as new as anything returned so far, and memory agrees with
\* a fresh disk.
UpToDate ==
  /\ IsFresh(mem) /\ IsOk(mem) => mem.rev >= newest[mem.at]
  /\ OwnDisk => disk.rev >= newest[disk.at]
  /\ IsSome(mem) /\ OwnDisk => mem = disk

\* An answer with a revision.
IsCopy(r) == r.kind \in {"body", "unchanged"}

\* So is what a call has received, and what it is writing; while it fetches or
\* writes, the disk is expired; and only an empty memory sends a call to the disk.
Advancing(t) ==
  /\ pc[t] \in InFetch \cup {"persist"} => ~OwnDisk
  /\ pc[t] = "load" => ~IsSome(mem)
  /\ pc[t] = "reply" /\ IsCopy(reply[t]) =>
       reply[t].rev <= origin.rev[cur[t]] /\ reply[t].rev >= newest[cur[t]]
  /\ pc[t] = "persist" =>
       /\ Persistent /\ IsSome(writing[t]) /\ mem \in {writing[t], None}
       /\ writing[t].rev <= origin.rev[writing[t].at] /\ writing[t].rev >= newest[writing[t].at]

Forward ==
  /\ BehindOrigin /\ UpToDate
  /\ ~Persistent => disk = None /\ orphans = {}
  /\ \A t \in Tasks : Advancing(t)

\* The numbers that are compared are numbers.
LEMMA Numbers ==
  ASSUME TypeOK
  PROVE  /\ clock \in Nat
         /\ \A u \in Urls : newest[u] \in Nat /\ origin.rev[u] \in Nat
         /\ mem.rev \in Nat /\ disk.rev \in Nat /\ mem.until \in Nat /\ disk.until \in Nat
         /\ \A t \in Tasks : reply[t].rev \in Nat /\ writing[t].rev \in Nat /\ cur[t] \in Urls
         /\ \A r \in orphans \cup theirs : r.rev \in Nat /\ r \in Entries
  BY EntryFields, FetcherConstants DEF TypeOK, Replies

\* The origin's revisions only grow.
LEMMA OriginGrows ==
  ASSUME TypeOK, [Next]_vars
  PROVE  \A u \in Urls : origin'.rev[u] >= origin.rev[u]
<1>0. /\ origin.at \in Urls /\ origin.rev \in [Urls -> 0 .. MaxRev]
      /\ \A u \in Urls : origin.rev[u] \in Nat
  BY FetcherConstants DEF TypeOK
<1>1. CASE UNCHANGED origin
  BY <1>0, <1>1
<1>2. CASE OriginChanges
  <2>1. CASE Publish
    BY <1>0, <2>1 DEF Publish, TypeOK
  <2>2. CASE Remove
    BY <1>0, <2>2 DEF Remove, TypeOK
  <2>3. CASE Move
    <3>1. PICK u \in Urls : origin' = [origin EXCEPT !.at = u, !.rev[u] = @ + 1, !.exists = TRUE]
      BY <2>3 DEF Move
    <3>2. origin'.rev = [origin.rev EXCEPT ![u] = @ + 1]
      BY <1>0, <3>1 DEF TypeOK
    <3> QED BY <1>0, <3>2
  <2> QED BY <1>2, <2>1, <2>2, <2>3 DEF OriginChanges
<1>3. ASSUME NEW t \in Tasks, TaskStep(t) PROVE UNCHANGED origin
  BY <1>3, TaskKeepsOrigin
<1>4. CASE OrphanWrites \/ Others \/ Evict \/ ForgetGate \/ Restart \/ Tick \/ UNCHANGED vars
  BY <1>1, <1>4 DEF OrphanWrites, Others, Evict, ForgetGate, Restart, Tick, World, vars
<1> QED
  BY <1>1, <1>2, <1>3, <1>4, StepCases DEF WorldStep

\* What the world does to the records on disk and on their way there: what is new is
\* late, and no copy is ahead of the origin.
LEMMA WorldRecords ==
  ASSUME TypeOK, TypeOK', Forward, [Next]_vars, WorldStep \/ Restart \/ UNCHANGED vars
  PROVE  /\ disk' = disk \/ disk'.late \/ disk' = None
         /\ IsSome(disk') => disk'.rev <= origin'.rev[disk'.at]
         /\ \A r \in orphans' \cup theirs' : IsSome(r) /\ r.rev <= origin'.rev[r.at]
         /\ \A r \in theirs' : r.late
         /\ ~Persistent => disk' = None /\ orphans' = {}
<1> DEFINE Behind(e) == IsSome(e) /\ e.rev <= origin.rev[e.at]
           StillBehind(e) == IsSome(e) /\ e.rev <= origin'.rev[e.at]
<1>1. ASSUME NEW e \in Entries, Behind(e) PROVE StillBehind(e)
  <2>1. /\ e.rev \in Nat /\ e.at \in Urls /\ origin.rev[e.at] \in Nat /\ origin'.rev[e.at] \in Nat
        /\ origin'.rev[e.at] >= origin.rev[e.at]
    BY <1>1, EntryFields, OriginGrows, FetcherConstants DEF TypeOK
  <2> QED BY <1>1, <2>1
<1>2. /\ disk \in Entries
      /\ IsSome(disk) => Behind(disk)
      /\ \A r \in orphans \cup theirs : r \in Entries /\ Behind(r)
      /\ \A r \in theirs : r.late
      /\ ~Persistent => disk = None /\ orphans = {}
  BY Numbers DEF Forward, BehindOrigin, TypeOK
<1>3. SUFFICES /\ disk' = disk \/ disk'.late \/ disk' = None
               /\ IsSome(disk') => StillBehind(disk')
               /\ \A r \in orphans' \cup theirs' : StillBehind(r)
               /\ \A r \in theirs' : r.late
               /\ ~Persistent => disk' = None /\ orphans' = {}
  OBVIOUS
<1> HIDE DEF StillBehind
<1>4. /\ IsSome(disk) => StillBehind(disk)
      /\ \A r \in orphans \cup theirs : StillBehind(r)
  BY <1>1, <1>2
<1>5. CASE UNCHANGED <<disk, orphans, theirs>>
  BY <1>2, <1>5, <1>4
<1>6. CASE OrphanWrites
  <2>1. PICK r \in orphans : disk' = [r EXCEPT !.late = TRUE] /\ orphans' = orphans \ {r}
    BY <1>6 DEF OrphanWrites
  <2>2. /\ disk' \in Entries /\ disk'.rev = r.rev /\ disk'.at = r.at /\ disk'.late
        /\ theirs' = theirs /\ Persistent
    BY <1>2, <1>6, <2>1, LateTypes DEF OrphanWrites, World
  <2>3. Behind(disk')
    BY <1>2, <2>1, <2>2 DEF IsSome
  <2> QED BY <1>1, <1>2, <2>1, <2>2, <2>3
<1>7. CASE Others
  <2>1. orphans' = orphans /\ Persistent /\ origin' = origin
    BY <1>7 DEF Others
  <2>2. CASE OthersFetch
    <3>1. PICK grant \in Grants :
            theirs' = theirs \cup {[Entry(origin.rev[origin.at], origin.at, clock + grant, clock)
                                     EXCEPT !.late = TRUE]}
      BY <2>2 DEF OthersFetch
    <3> DEFINE e == [Entry(origin.rev[origin.at], origin.at, clock + grant, clock) EXCEPT !.late = TRUE]
    <3>2. origin.at \in Urls /\ origin.rev[origin.at] \in Nat
      BY FetcherConstants DEF TypeOK
    <3>3. e.late /\ Behind(e)
      BY <3>2 DEF Entry, IsSome, Urls
    <3>4. e \in Entries
      BY <3>1 DEF TypeOK
    <3>5. theirs' = theirs \cup {e} /\ disk' = disk
      BY <2>2, <3>1 DEF OthersFetch
    <3>6. StillBehind(e)
      BY <1>1, <3>3, <3>4
    <3> HIDE DEF e
    <3> QED BY <1>2, <1>4, <2>1, <3>3, <3>5, <3>6
  <2>3. CASE OthersWrite
    BY <1>1, <1>2, <2>1, <2>3 DEF OthersWrite
  <2>4. CASE OthersRemove
    BY <1>1, <1>2, <2>1, <2>4, NoneFacts DEF OthersRemove
  <2> QED BY <1>7, <2>2, <2>3, <2>4 DEF Others
<1>8. CASE Restart
  BY <1>2, <1>8, <1>4 DEF Restart, World
<1> QED
  BY <1>5, <1>6, <1>7, <1>8 DEF WorldStep, Evict, ForgetGate, OriginChanges, Tick, vars, World

\* The world, or a restart, takes nothing back.
LEMMA ForwardWorld ==
  ASSUME TypeOK, TypeOK', Calm, Forward, [Next]_vars, WorldStep \/ Restart \/ UNCHANGED vars
  PROVE  Forward'
<1>1. /\ clock \in Nat /\ clock' \in Nat /\ clock' >= clock
      /\ \A u \in Urls : origin'.rev[u] >= origin.rev[u]
  BY Numbers, ClockRuns, OriginGrows, FetcherConstants DEF TypeOK
<1>2. mem' \in {mem, None} /\ newest' = newest
  BY DEF WorldStep, OrphanWrites, Others, Evict, ForgetGate, Restart, OriginChanges, Tick, vars, World,
         Locals, Results
<1>3. \A u \in Urls : origin'.rev[u] \in Nat
  BY FetcherConstants DEF TypeOK
<1>4. /\ IsFresh(mem)' => IsFresh(mem) /\ mem' = mem
      /\ OwnDisk' => OwnDisk /\ disk' = disk
  <2>1. IsFresh(mem)' => IsFresh(mem) /\ mem' = mem
    BY <1>1, <1>2, Numbers DEF IsFresh, IsSome, None
  <2>2. IsFresh(disk)' => disk' # None
    BY NoneFacts DEF IsFresh, IsSome, None
  <2>3. OwnDisk' => disk' = disk
    BY <2>2, WorldRecords DEF OwnDisk
  <2>4. disk' = disk /\ IsFresh(disk)' => IsFresh(disk)
    BY <1>1, Numbers DEF IsFresh, IsSome
  <2> QED BY <2>1, <2>3, <2>4 DEF OwnDisk
<1>5. BehindOrigin'
  <2>1. IsSome(mem') => mem'.rev <= origin'.rev[mem'.at]
    BY <1>1, <1>2, <1>3, Numbers, EntryFields DEF Forward, BehindOrigin, TypeOK, None, IsSome
  <2>2. \A u \in Urls : newest'[u] <= origin'.rev[u]
    BY <1>1, <1>2, <1>3, Numbers DEF Forward, BehindOrigin
  <2> QED BY <2>1, <2>2, WorldRecords DEF BehindOrigin, IsSome
<1>6. UpToDate'
  BY <1>2, <1>4, NoneFacts DEF Forward, UpToDate, IsSome, None
<1>7. ASSUME NEW t \in Tasks PROVE Advancing(t)'
  <2>1. CASE pc'[t] = "idle"
    BY <2>1 DEF Advancing, InFetch
  <2>2. CASE UNCHANGED <<pc, Locals>>
    <3>1. /\ pc'[t] = pc[t] /\ reply'[t] = reply[t] /\ cur'[t] = cur[t] /\ writing'[t] = writing[t]
          /\ cur[t] \in Urls /\ IsSome(writing[t]) => writing[t].at \in Urls
      BY <2>2, EntryFields, Numbers DEF Locals, TypeOK
    <3>2. pc[t] = "persist" => IsSome(writing[t])
      BY DEF Forward, Advancing
    <3>3. pc[t] = "load" => ~IsSome(mem')
      BY <1>2, NoneFacts DEF Forward, Advancing, None, IsSome
    <3> QED
      BY <1>1, <1>2, <1>3, <1>4, <3>1, <3>2, <3>3, Numbers DEF Forward, Advancing, IsCopy, IsSome
  <2>3. UNCHANGED <<pc, Locals>> \/ pc'[t] = "idle"
    BY TasksStay DEF Restart, vars, Locals
  <2> QED BY <2>1, <2>2, <2>3
<1> QED
  BY <1>5, <1>6, <1>7, WorldRecords DEF Forward

\* Calm leaves no way to forget a gate, or to answer 304 unasked.
LEMMA CalmFacts ==
  ASSUME Calm
  PROVE  ~MayHappen("forget") /\ ~MayHappen("bogus")
  BY DEF Calm, MayHappen

\* While one task holds the gate, no other does.
LEMMA OthersWait ==
  ASSUME IInv, Calm, NEW t \in Tasks, pc[t] \in Holding, TaskStep(t)
  PROVE  \A u \in Tasks \ {t} : pc[u] \notin Holding /\ pc'[u] \notin Holding
<1>1. ASSUME NEW u \in Tasks, u # t PROVE pc[u] \notin Holding /\ pc'[u] = pc[u]
  BY <1>1, CalmFacts, HolderAlone, OthersStay DEF IInv
<1> QED
  BY <1>1

\* A call that receives nothing new leaves all copies alone, and comes to fetch only
\* when the disk is expired.
Quiet(t) ==
  \/ Call(t) \/ Lock(t) \/ FastMiss(t) \/ TakeGate(t) \/ Recheck(t) \/ DiskMiss(t) \/ Acquire(t)
  \/ Send(t) \/ Answered(t) \/ BackedOff(t) \/ Redirected(t) \/ Shed(t) \/ Refused(t)
  \/ Lost(t) \/ Busy(t)

\* A quiet step touches neither the caches nor what callers have seen.
LEMMA QuietKeeps ==
  ASSUME TypeOK, NEW t \in Tasks, Quiet(t)
  PROVE  /\ UNCHANGED <<mem, disk, newest, orphans, theirs, clock, origin>>
         /\ pc'[t] # "persist"
<1> USE DEF TypeOK, Goto, World, Locals, Results
<1>1. CASE Call(t) \/ Lock(t) \/ FastMiss(t) \/ TakeGate(t) \/ Recheck(t) \/ DiskMiss(t) \/ Acquire(t)
           \/ Send(t) \/ Answered(t) \/ BackedOff(t) \/ Redirected(t)
  BY <1>1 DEF Call, Lock, FastMiss, TakeGate, Recheck, DiskMiss, Acquire, Send, Answered, BackedOff, Redirected
<1>2. CASE Shed(t) \/ Refused(t)
  BY <1>2 DEF Shed, Refused, Leave, Failure
<1>3. CASE Lost(t) \/ Busy(t)
  BY <1>3 DEF Lost, Busy, Transient, Leave, Failure
<1> QED
  BY <1>1, <1>2, <1>3 DEF Quiet

\* The origin answers with its own latest revision.
LEMMA OriginLatest ==
  ASSUME TypeOK, ~MayHappen("bogus"), NEW url \in Urls, NEW validator,
         NEW r \in OriginReplies(url, validator), IsCopy(r)
  PROVE  r.rev = origin.rev[url]
  BY DEF OriginReplies, IsCopy, MayHappen

\* A quiet step that arrives at a fetch comes from one, or finds the disk expired.
LEMMA QuietFetch ==
  ASSUME IInv, Calm, Forward, NEW t \in Tasks, Quiet(t), pc'[t] \in InFetch
  PROVE  ~OwnDisk
<1> USE DEF IInv, TypeOK, Goto, InFetch
<1>1. CASE Recheck(t)
  <2>1. ~IsFresh(mem) /\ (~Persistent \/ IsSome(mem))
    BY <1>1 DEF Recheck
  <2>2. CASE ~Persistent
    BY <2>2, NoneFacts DEF Forward, OwnDisk
  <2>3. CASE IsSome(mem)
    BY <2>1, <2>3 DEF Forward, UpToDate, OwnDisk
  <2> QED BY <2>1, <2>2, <2>3
<1>2. CASE DiskMiss(t)
  BY <1>2 DEF DiskMiss, OwnDisk
<1>3. CASE pc[t] \in InFetch
  BY <1>3 DEF Forward, Advancing
<1>4. CASE Call(t) \/ Lock(t) \/ FastMiss(t) \/ TakeGate(t)
  BY <1>4 DEF Call, Lock, FastMiss, TakeGate
<1> QED
  BY <1>1, <1>2, <1>3, <1>4
     DEF Quiet, Acquire, Send, Answered, BackedOff, Redirected, Shed, Refused, Lost, Busy

\* A quiet step takes nothing back.
LEMMA ForwardQuiet ==
  ASSUME IInv, Calm, Forward, NEW t \in Tasks, Quiet(t)
  PROVE  Forward'
<1>0. /\ TaskStep(t) /\ UNCHANGED <<mem, disk, newest, orphans, theirs, clock, origin>>
      /\ pc'[t] # "persist"
  BY QuietKeeps DEF Quiet, TaskStep, Progress, IInv
<1>1. BehindOrigin' /\ UpToDate' /\ (~Persistent => disk' = None /\ orphans' = {})
  BY <1>0 DEF Forward, BehindOrigin, UpToDate, OwnDisk, IsFresh
<1>2. ASSUME NEW u \in Tasks, u # t PROVE Advancing(u)'
  <2>1. /\ pc'[u] = pc[u] /\ reply'[u] = reply[u] /\ cur'[u] = cur[u] /\ writing'[u] = writing[u]
    BY <1>0, <1>2, OthersStay DEF IInv
  <2> QED BY <1>0, <2>1 DEF Forward, Advancing, OwnDisk, IsFresh
<1>3. Advancing(t)'
  <2>1. pc'[t] \in InFetch => ~OwnDisk'
    BY <1>0, QuietFetch DEF OwnDisk, IsFresh
  <2>4. pc'[t] = "load" => ~IsSome(mem')
    <3>1. pc'[t] = "load" => Recheck(t)
      BY <1>0 DEF Quiet, Call, Lock, FastMiss, TakeGate, Recheck, DiskMiss, Acquire, Send, Answered,
         BackedOff, Redirected, Shed, Refused, Lost, Busy, Transient, Leave, Goto, IInv, TypeOK
    <3> QED BY <1>0, <3>1 DEF Recheck, Goto, IInv, TypeOK
  <2>2. CASE pc'[t] # "reply"
    BY <1>0, <2>1, <2>2, <2>4 DEF Advancing, IsSome
  <2>3. CASE pc'[t] = "reply"
    <3>1. Answered(t)
      BY <1>0, <2>3 DEF Quiet, Call, Lock, FastMiss, TakeGate, Recheck, DiskMiss, Acquire, Send, BackedOff,
         Redirected, Shed, Refused, Lost, Busy, Transient, Leave, Goto, IInv, TypeOK
    <3>2. PICK r \in OriginReplies(cur[t], tag[t]) : reply' = [reply EXCEPT ![t] = r]
      BY <3>1 DEF Answered
    <3>3. reply'[t] = r /\ cur'[t] = cur[t] /\ cur[t] \in Urls
      BY <3>1, <3>2 DEF Answered, IInv, TypeOK
    <3>4. IsCopy(r) => r.rev = origin.rev[cur[t]]
      BY <3>3, CalmFacts, OriginLatest DEF IInv
    <3>5. IsCopy(r) => r.rev <= origin.rev[cur[t]] /\ r.rev >= newest[cur[t]]
      BY <3>3, <3>4, Numbers DEF IInv, Forward, BehindOrigin
    <3> QED BY <1>0, <2>1, <2>3, <3>3, <3>5 DEF Advancing, IsCopy
  <2> QED BY <2>2, <2>3
<1> QED
  BY <1>1, <1>2, <1>3 DEF Forward

\* What a call that returns entry e does to the newest revisions seen.
LEMMA NewestAfter ==
  ASSUME TypeOK, NEW t \in Tasks, NEW e \in Entries, Leave(t, Interpret(e))
  PROVE  /\ pc'[t] = "idle"
         /\ IsOk(e) => /\ e.at \in Urls
                       /\ newest'[e.at] \in {newest[e.at], e.rev}
                       /\ e.rev >= newest[e.at] \/ Excused(t) => newest'[e.at] = e.rev
                       /\ \A u \in Urls \ {e.at} : newest'[u] = newest[u]
         /\ ~IsOk(e) => newest' = newest
<1>1. e.rev \in Nat /\ \A u \in Urls : newest[u] \in Nat
  BY EntryFields, Numbers, FetcherConstants
<1>2. IsOk(e) => e.at \in Urls
  BY EntryFields, OkIsSome
<1>3. pc'[t] = "idle"
  BY DEF Leave, Goto, TypeOK
<1>4. CASE ~IsOk(e)
  <2>1. newest' = newest
    BY <1>4 DEF Leave, Interpret
  <2> QED BY <1>3, <1>4, <2>1
<1>5. CASE IsOk(e)
  <2>1. newest' = [newest EXCEPT ![e.at] = IF Excused(t) THEN e.rev ELSE Larger(newest[e.at], e.rev)]
    BY <1>5 DEF Leave, Interpret
  <2>2. newest \in [Urls -> 0 .. MaxRev]
    BY DEF TypeOK
  <2>3. /\ newest'[e.at] = IF Excused(t) THEN e.rev ELSE Larger(newest[e.at], e.rev)
        /\ \A u \in Urls \ {e.at} : newest'[u] = newest[u]
    BY <1>2, <1>5, <2>1, <2>2
  <2> QED BY <1>1, <1>2, <1>3, <1>5, <2>3 DEF Larger
<1> QED
  BY <1>4, <1>5

\* An answer out of memory: what else is fresh, or under way, is as new.
LEMMA ForwardHit ==
  ASSUME IInv, Calm, Forward, NEW t \in Tasks, FastHit(t) \/ Coalesced(t)
  PROVE  Forward'
<1>1. /\ Leave(t, Interpret(mem)) /\ IsFresh(mem) /\ TaskStep(t)
      /\ UNCHANGED <<clock, origin, mem, disk, orphans, theirs>>
  BY DEF FastHit, Coalesced, World, TaskStep, Progress
<1>2. /\ pc'[t] = "idle"
      /\ IsOk(mem) => /\ mem.at \in Urls
                      /\ newest'[mem.at] = mem.rev
                      /\ \A u \in Urls \ {mem.at} : newest'[u] = newest[u]
      /\ ~IsOk(mem) => newest' = newest
  BY <1>1, NewestAfter DEF IInv, TypeOK, Forward, UpToDate
<1>3. IsSome(mem) /\ \A u \in Urls : newest[u] \in Nat /\ origin.rev[u] \in Nat
  BY <1>1, Numbers DEF IsFresh, IInv
<1>4. BehindOrigin'
  BY <1>1, <1>2, <1>3 DEF Forward, BehindOrigin
<1>5. UpToDate'
  <2>1. mem.rev \in Nat
    BY Numbers DEF IInv
  <2>2. OwnDisk => mem = disk /\ IsOk(disk)
    BY <1>3 DEF Forward, UpToDate, IInv, Successes, IsFresh, OwnDisk
  <2> QED BY <1>1, <1>2, <1>3, <2>1, <2>2 DEF Forward, UpToDate, IsFresh, OwnDisk
<1>6. ASSUME NEW u \in Tasks, u # t PROVE Advancing(u)'
  <2>1. pc'[u] = pc[u] /\ reply'[u] = reply[u] /\ cur'[u] = cur[u] /\ writing'[u] = writing[u]
    BY <1>1, <1>6, OthersStay DEF IInv
  <2>2. pc[u] # "reply"
    BY <1>1, CalmFacts DEF IInv, Needed, InFetch
  <2>3. pc[u] = "persist" => mem = writing[u] /\ IsOk(mem)
    BY <1>3, NoneFacts DEF Forward, Advancing, IInv, OwnRequests, OwnRequest
  <2>4. mem.rev \in Nat
    BY Numbers DEF IInv
  <2> QED BY <1>1, <1>2, <2>1, <2>2, <2>3, <2>4 DEF Forward, Advancing, OwnDisk, IsFresh
<1>7. Advancing(t)'
  BY <1>2 DEF Advancing, InFetch
<1> QED
  BY <1>1, <1>4, <1>5, <1>6, <1>7 DEF Forward

\* A step of the task that holds the gate leaves the others where nothing can age.
LEMMA OthersAdvance ==
  ASSUME IInv, Calm, NEW t \in Tasks, pc[t] \in Holding, TaskStep(t),
         NEW u \in Tasks, u # t
  PROVE  Advancing(u)'
<1>1. pc'[u] \notin Holding
  BY OthersWait
<1> QED
  BY <1>1 DEF Advancing, Holding, InFetch

\* An answer from the disk.
LEMMA ForwardDisk ==
  ASSUME IInv, Calm, Forward, NEW t \in Tasks, DiskHit(t)
  PROVE  Forward'
<1>1. /\ Leave(t, Interpret(disk)) /\ IsFresh(disk) /\ TaskStep(t) /\ pc[t] \in Holding
      /\ pc[t] = "load" /\ mem' = disk /\ UNCHANGED <<clock, origin, disk, orphans, theirs>>
  BY DEF DiskHit, World, TaskStep, Progress, Holding
<1>8. disk.rev >= newest[disk.at] \/ Excused(t)
  BY <1>1 DEF Forward, UpToDate, Advancing, OwnDisk, Excused, IInv, TypeOK
<1>2. IsOk(disk) /\ IsSome(disk)
  BY <1>1 DEF IsFresh, IInv, Successes
<1>3. /\ pc'[t] = "idle" /\ disk.at \in Urls
      /\ newest'[disk.at] = disk.rev
      /\ \A u \in Urls \ {disk.at} : newest'[u] = newest[u]
  BY <1>1, <1>2, <1>8, NewestAfter DEF IInv, TypeOK
<1>4. disk.rev \in Nat /\ \A u \in Urls : newest[u] \in Nat /\ origin.rev[u] \in Nat
  BY Numbers DEF IInv
<1>5. BehindOrigin'
  BY <1>1, <1>2, <1>3, <1>4 DEF Forward, BehindOrigin
<1>6. UpToDate'
  BY <1>1, <1>2, <1>3, <1>4 DEF Forward, UpToDate, OwnDisk, IsFresh
<1>7. Advancing(t)'
  BY <1>3 DEF Advancing, InFetch
<1> QED
  BY <1>1, <1>5, <1>6, <1>7, OthersAdvance DEF Forward

\* A write ends, or fails.
LEMMA ForwardPersist ==
  ASSUME IInv, Calm, Forward, NEW t \in Tasks, Persisted(t)
  PROVE  Forward'
<1> DEFINE e == writing[t]
<1>1. /\ Leave(t, Interpret(e)) /\ TaskStep(t) /\ pc[t] = "persist" /\ pc[t] \in Holding
      /\ disk' \in {disk, e} /\ UNCHANGED <<clock, origin, mem, orphans, theirs>>
  BY DEF Persisted, World, TaskStep, Progress, Holding
<1>2. /\ IsOk(e) /\ IsSome(e) /\ e \in Entries /\ mem \in {e, None} /\ Persistent /\ ~OwnDisk
      /\ e.rev <= origin.rev[e.at] /\ e.rev >= newest[e.at]
  BY <1>1 DEF IInv, OwnRequests, OwnRequest, Forward, Advancing, TypeOK
<1> HIDE DEF e
<1>3. /\ pc'[t] = "idle" /\ e.at \in Urls
      /\ newest'[e.at] = e.rev
      /\ \A u \in Urls \ {e.at} : newest'[u] = newest[u]
  BY <1>1, <1>2, NewestAfter DEF IInv
<1>4. e.rev \in Nat /\ \A u \in Urls : newest[u] \in Nat /\ origin.rev[u] \in Nat
  BY <1>2, EntryFields, Numbers, FetcherConstants DEF IInv
<1>5. BehindOrigin'
  BY <1>1, <1>2, <1>3, <1>4 DEF Forward, BehindOrigin
<1>6. UpToDate'
  BY <1>1, <1>2, <1>3, <1>4, NoneFacts DEF Forward, UpToDate, OwnDisk, IsFresh
<1>7. Advancing(t)'
  BY <1>3 DEF Advancing, InFetch
<1> QED
  BY <1>1, <1>2, <1>5, <1>6, <1>7, OthersAdvance DEF Forward

\* What a fetch makes of an answer is the latest revision seen.
LEMMA FinishForward ==
  ASSUME IInv, Calm, Forward, NEW t \in Tasks, NEW e \in Entries, Finish(t, e), TaskStep(t),
         pc[t] = "reply", UNCHANGED <<clock, origin>>,
         IsSome(e) => e.rev <= origin.rev[e.at],
         IsOk(e) => e.rev >= newest[e.at]
  PROVE  Forward'
<1>1. pc[t] \in Holding /\ ~OwnDisk /\ ~IsFresh(mem)
  BY CalmFacts DEF Holding, InFetch, IInv, Needed, Forward, Advancing
<1>2. UNCHANGED <<disk, orphans, theirs>> /\ mem' = IF Cacheable(e) THEN e ELSE mem
  BY DEF Finish, World
<1>3. e.rev \in Nat /\ \A u \in Urls : newest[u] \in Nat /\ origin.rev[u] \in Nat
  BY EntryFields, Numbers, FetcherConstants DEF IInv
<1>4. ~OwnDisk' /\ (IsFresh(mem)' => mem' = e)
  BY <1>1, <1>2 DEF OwnDisk, IsFresh
<1>5. CASE Leave(t, Interpret(e))
  <2>1. /\ pc'[t] = "idle"
        /\ IsOk(e) => /\ e.at \in Urls
                      /\ newest'[e.at] = e.rev
                      /\ \A u \in Urls \ {e.at} : newest'[u] = newest[u]
        /\ ~IsOk(e) => newest' = newest
    BY <1>5, NewestAfter DEF IInv
  <2>2. BehindOrigin'
    BY <1>2, <1>3, <2>1, OkIsSome DEF Forward, BehindOrigin
  <2>3. UpToDate'
    BY <1>3, <1>4, <2>1 DEF UpToDate
  <2>4. Advancing(t)'
    BY <2>1 DEF Advancing, InFetch
  <2> QED
    BY <1>1, <1>2, <2>2, <2>3, <2>4, OthersAdvance DEF Forward
<1>6. CASE /\ Persistent /\ IsOk(e)
           /\ writing' = [writing EXCEPT ![t] = e]
           /\ Goto(t, "persist")
           /\ UNCHANGED <<gate, stale, cur, tries, tag, reply, Results>>
  <2>1. mem' = e /\ newest' = newest /\ pc'[t] = "persist" /\ writing'[t] = e
    BY <1>2, <1>6 DEF Calm, Cacheable, Results, Goto, IInv, TypeOK
  <2>2. BehindOrigin'
    BY <1>2, <2>1 DEF Forward, BehindOrigin
  <2>3. UpToDate'
    BY <1>4, <1>6, <2>1 DEF UpToDate
  <2>4. Advancing(t)'
    BY <1>4, <1>6, <2>1, OkIsSome DEF Advancing, InFetch
  <2> QED
    BY <1>1, <1>2, <2>2, <2>3, <2>4, OthersAdvance DEF Forward
<1> QED
  BY <1>5, <1>6 DEF Finish

\* In calm weather an answer's entry is the latest revision seen of its URL.
LEMMA LatestKept ==
  ASSUME IInv, Calm, Forward, NEW t \in Tasks, NEW e \in Entries, pc[t] = "reply", EntryMeant(t, e)
  PROVE  /\ e.rev <= origin.rev[e.at]
         /\ IsOk(e) => e.rev >= newest[e.at]
<1>1. /\ ReplyMeant(reply[t], tag[t])
      /\ tag[t] > 0 => stale[t].at = cur[t] /\ stale[t].rev = tag[t]
  BY DEF IInv, OwnRequests, OwnRequest
<1>2. e.rev = reply[t].rev /\ e.at = cur[t]
  BY <1>1, CalmFacts DEF ReplyMeant, EntryMeant
<1>3. IsCopy(reply[t]) => reply[t].rev <= origin.rev[cur[t]] /\ reply[t].rev >= newest[cur[t]]
  BY DEF Forward, Advancing
<1>4. ~IsCopy(reply[t]) => reply[t].rev = 0
  BY <1>1 DEF ReplyMeant, IsCopy, EntryMeant
<1>5. cur[t] \in Urls /\ origin.rev[cur[t]] \in Nat
  BY Numbers DEF IInv
<1> QED
  BY <1>2, <1>3, <1>4, <1>5 DEF IsOk

\* An answer that is kept takes nothing back.
LEMMA ForwardFetched ==
  ASSUME IInv, Calm, Forward, NEW t \in Tasks, Received(t) \/ NotModified(t)
  PROVE  Forward'
<1>0. /\ TaskStep(t) /\ pc[t] = "reply" /\ UNCHANGED <<clock, origin>>
      /\ reply[t].kind \in {"body", "absent", "unchanged"}
  BY DEF TaskStep, Progress, Received, NotModified, Finish, World
<1>1. CASE Leave(t, Failure) /\ UNCHANGED <<World, mem, disk, orphans>>
  <2>1. /\ UNCHANGED <<clock, origin, mem, disk, orphans, theirs, newest>> /\ pc'[t] = "idle" /\ pc[t] \in Holding
    BY <1>0, <1>1 DEF Leave, Goto, Failure, World, IInv, TypeOK, Holding, InFetch
  <2>2. Advancing(t)'
    BY <2>1 DEF Advancing, InFetch
  <2> QED
    BY <1>0, <2>1, <2>2, OthersAdvance DEF Forward, BehindOrigin, UpToDate, OwnDisk, IsFresh
<1>2. ASSUME NEW e \in Entries, Finish(t, e), EntryMeant(t, e) PROVE Forward'
  BY <1>0, <1>2, LatestKept, FinishForward
<1> QED
  BY <1>0, <1>1, <1>2, AnswerKept DEF IInv

\* A caller is dropped: what it was writing is no further than the origin.
LEMMA ForwardCancel ==
  ASSUME IInv, Calm, Forward, NEW t \in Tasks, Cancel(t)
  PROVE  Forward'
<1>1. /\ TaskStep(t) /\ pc'[t] = "idle"
      /\ UNCHANGED <<clock, origin, mem, disk, theirs, newest>>
  BY DEF TaskStep, Cancel, Leave, Goto, NoAnswer, World, IInv, TypeOK
<1>2. orphans' = orphans \/ (pc[t] = "persist" /\ orphans' = orphans \cup {writing[t]})
  BY DEF Cancel
<1>3. BehindOrigin' /\ UpToDate' /\ (~Persistent => disk' = None /\ orphans' = {})
  BY <1>1, <1>2 DEF Forward, BehindOrigin, UpToDate, Advancing, OwnDisk, IsFresh
<1>4. ASSUME NEW u \in Tasks PROVE Advancing(u)'
  <2>1. CASE u = t
    BY <1>1, <2>1 DEF Advancing, InFetch
  <2>2. CASE u # t
    <3>1. pc'[u] = pc[u] /\ reply'[u] = reply[u] /\ cur'[u] = cur[u] /\ writing'[u] = writing[u]
      BY <1>1, <2>2, OthersStay DEF IInv
    <3> QED BY <1>1, <3>1 DEF Forward, Advancing, OwnDisk, IsFresh
  <2> QED BY <2>1, <2>2
<1> QED
  BY <1>3, <1>4 DEF Forward

\* In calm weather no step takes a revision back.
LEMMA ForwardStep ==
  ASSUME IInv, Calm, Forward, [Next]_vars
  PROVE  Forward'
<1>1. TypeOK /\ TypeOK'
  BY TypeStep DEF IInv
<1>2. CASE WorldStep \/ Restart \/ UNCHANGED vars
  BY <1>1, <1>2, ForwardWorld
<1>3. ASSUME NEW t \in Tasks, TaskStep(t) PROVE Forward'
  BY <1>3, ForwardQuiet, ForwardHit, ForwardDisk, ForwardPersist, ForwardFetched, ForwardCancel
     DEF TaskStep, Progress, Quiet
<1> QED
  BY <1>2, <1>3, StepCases

\* At the start there is nothing to take back.
LEMMA ForwardInit == Init => Forward
  BY FetcherConstants, NoneFacts
     DEF Init, Forward, BehindOrigin, UpToDate, Advancing, OwnDisk, InFetch, None, Urls, IsSome, IsFresh

\* Callers never see a revision go back, through evictions, failed writes, dropped
\* callers, restarts, moves and other servers on the same directory, except when
\* memory has lost its copy and finds a record on disk that came there late.
THEOREM NeverBack ==
  ASSUME Calm
  PROVE  Spec => NeverGoesBack
<1>1. Init => IInv /\ Forward
  BY InvariantInit, ForwardInit
<1>2. (IInv /\ Forward) /\ [Next]_vars => (IInv /\ Forward)'
  BY InvariantStep, ForwardStep
<1>3. ASSUME IInv, Forward, [Next]_vars, NEW t \in Tasks, Returned(t), answer'[t].kind = "ok"
      PROVE  answer'[t].entry.rev >= newest[answer'[t].entry.at] \/ Excused(t)
  <2>1. TaskStep(t)
    BY <1>3, OwnReturn DEF IInv
  <2>2. PICK e \in Entries :
          /\ Leave(t, Interpret(e))
          /\ \/ e = mem /\ IsFresh(mem)
             \/ pc[t] = "load" /\ e = disk /\ IsFresh(disk)
             \/ pc[t] = "persist" /\ e = writing[t]
             \/ pc[t] = "reply" /\ EntryMeant(t, e)
    BY <1>3, <2>1, Returns DEF IInv
  <2>3. answer'[t] = Interpret(e) /\ IsOk(e) /\ answer'[t].entry = e
    BY <1>3, <2>2 DEF Leave, Interpret, IInv, TypeOK
  <2>4. CASE e = mem /\ IsFresh(mem)
    BY <1>3, <2>3, <2>4 DEF Forward, UpToDate
  <2>5. CASE pc[t] = "load" /\ e = disk /\ IsFresh(disk)
    BY <1>3, <2>3, <2>5 DEF Forward, UpToDate, Advancing, OwnDisk, Excused, IInv, TypeOK
  <2>6. CASE pc[t] = "persist" /\ e = writing[t]
    BY <1>3, <2>3, <2>6 DEF Forward, Advancing
  <2>7. CASE pc[t] = "reply" /\ EntryMeant(t, e)
    BY <1>3, <2>3, <2>7, LatestKept
  <2> QED
    BY <2>2, <2>4, <2>5, <2>6, <2>7
<1>4. (IInv /\ Forward) /\ [Next]_vars =>
        (\A t \in Tasks : Returned(t) /\ answer'[t].kind = "ok"
           => answer'[t].entry.rev >= newest[answer'[t].entry.at] \/ Excused(t))
  BY <1>3
<1> QED
  BY <1>1, <1>2, <1>4, PTL DEF Spec, NeverGoesBack

=============================================================================
