---------------------------- MODULE ReadmeProofs ----------------------------
(***************************************************************************)
(* Safety of reading a README, for any number of callers, any limits and   *)
(* budgets, whatever servers answer and whatever text a page holds.        *)
(*                                                                         *)
(* First the chain of requests.  Three facts carry its induction.  A call  *)
(* that holds a slot holds one of the host it is at (SlotOfHost).  Its     *)
(* requests are counted by its retries and the hops of this attempt        *)
(* (Counted).  And what it was told of a host, that host's timeline covers *)
(* (TimelineCovers), so that a slot it takes later lies past the pause     *)
(* (SlotPastPause); the time shared by all is what makes the call's own    *)
(* promise hold.                                                           *)
(*                                                                         *)
(* Then the text.  What to_markdown makes of a page is a document          *)
(* (Documents): empty, or beginning with ink, and with no space at the end *)
(* of a line.  That is what cutting it relies on: a beginning is never     *)
(* blank, and it ends where a line ends.  A fence is longer than every run *)
(* of backticks in what it encloses, so that the frame can be taken apart. *)
(* And of links as the converter writes them nothing else is lost with     *)
(* their destinations (Polished): what is compared are the lines that are  *)
(* not blank, which trimming and collapsing leave alike.                   *)
(*                                                                         *)
(* Last the calls (ReadInv): whoever fetches is alone and nothing is       *)
(* cached meanwhile, so that a page once cached stays; so what any caller  *)
(* has derived, now or before, is the Markdown of the page that is cached. *)
(***************************************************************************)
EXTENDS ReadmeCalls, Induction, SequenceTheorems, TLAPS

-----------------------------------------------------------------------------
(* The chain of requests *)

Answering == {"reply", "detail", "body"}
Sent == {"flight"} \cup Answering

ReplyRead ==
  \A t \in Tasks : /\ pc[t] \in Answering => reply[t] \in Replies
                   /\ pc[t] = "body" => reply[t] \in WithBody

SlotOfHost ==
  \A t \in Tasks : pc[t] \in {"slot"} \cup Sent =>
    paced[t] = Classify(url[t]) /\ paced[t] \in Origins

\* The most requests n attempts can send.
Spent(n) == n * (MaxRedirects + 1)

Counted ==
  \A t \in Tasks :
    requests[t] <= Spent(tries[t]) + hops[t] + IF pc[t] \in Sent THEN 1 ELSE 0

TimelineCovers == \A t \in Tasks, o \in Origins : told[t][o] <= ahead[o]

SlotPastPause == \A t \in Tasks : pc[t] = "slot" => told[t][paced[t]] <= wait[t]

PacedInv == PacedTypeOK /\ ReplyRead /\ SlotOfHost /\ Counted /\ TimelineCovers /\ SlotPastPause

-----------------------------------------------------------------------------

\* A URL is classified as an origin, or refused.
LEMMA ClassifyFacts ==
  ASSUME NEW u
  PROVE  Classify(u) \in Origins \cup {Nowhere}
  BY DEF Classify, OriginOf, Origins, Nowhere

\* Nowhere is no origin.
LEMMA NowhereIsNoOrigin == Nowhere \notin Origins
  BY DEF Origins, Nowhere

\* Another attempt has room for a chain of redirects, and attempts do not lose any.
LEMMA SpentFacts ==
  ASSUME NEW n \in Nat
  PROVE  /\ Spent(n) \in Nat
         /\ Spent(0) = 0
         /\ Spent(n + 1) = Spent(n) + MaxRedirects + 1
         /\ \A k \in Nat : n <= k => Spent(n) <= Spent(k)
<1>1. MaxRedirects \in Nat
  BY PacedConstants
<1>2. Spent(n) \in Nat /\ Spent(0) = 0 /\ Spent(n + 1) = Spent(n) + MaxRedirects + 1
  BY <1>1 DEF Spent
<1>3. ASSUME NEW k \in Nat, n <= k
      PROVE  n * (MaxRedirects + 1) <= k * (MaxRedirects + 1)
  BY <1>1, <1>3
<1> QED
  BY <1>2, <1>3 DEF Spent

\* Where a redirect leads is a URL.
LEMMA JoinFacts ==
  ASSUME NEW u \in Urls, NEW l \in Locations, l # Unusable
  PROVE  Join(u, l) \in Urls
<1>1. CASE l = Relative
  <2>1. [u EXCEPT !.path = "other"] \in Urls
    BY DEF Urls, Paths
  <2> QED BY <1>1, <2>1 DEF Join
<1>2. CASE l # Relative
  <2>1. l \in Urls
    BY <1>2, PacedConstants
  <2> QED BY <1>2, <2>1 DEF Join
<1> QED BY <1>1, <1>2

\* A pause is a time.
LEMMA PauseFacts ==
  ASSUME NEW h \in RetryHeaders, h # NoHeader
  PROVE  PauseOf(h) \in Nat
  BY PacedConstants DEF PauseOf, Smaller

\* The kind of an answer follows from its status.
LEMMA ReplyKinds ==
  ASSUME NEW r \in Replies
  PROVE  /\ IsRedirect(r.status) => r \in Redirections
         /\ IsBusy(r.status) => r \in Refusals
         /\ (~IsRedirect(r.status) /\ ~IsBusy(r.status) /\ r.status # 304) => r \in WithBody
<1>1. CASE r \in Redirections
  <2>1. IsRedirect(r.status)
    BY <1>1 DEF Redirections
  <2> QED BY <1>1, <2>1 DEF IsRedirect, IsBusy
<1>2. CASE r \in Refusals
  <2>1. IsBusy(r.status) /\ r.status \in Statuses
    BY <1>2 DEF Refusals
  <2>2. ~IsRedirect(r.status)
    BY <2>1, PacedConstants DEF IsBusy, IsRedirect
  <2> QED BY <1>2, <2>1, <2>2
<1>3. CASE r \in WithBody
  BY <1>3 DEF WithBody
<1>4. CASE r \in [status : Statuses \cap {304}]
  <2>1. r.status = 304
    BY <1>4
  <2> QED BY <2>1 DEF IsRedirect, IsBusy
<1> QED
  BY <1>1, <1>2, <1>3, <1>4 DEF Replies

-----------------------------------------------------------------------------
(* Ways a call leaves its chain *)

\* A call that ends or is dropped leaves nothing behind that the invariant would
\* have to speak of.
LEMMA DroppedKeeps ==
  ASSUME PacedInv, NEW t \in Tasks, Dropped(t), UNCHANGED ahead,
         NEW label \in {"idle", "ended"}, Goto(t, label)
  PROVE  PacedInv'
<1> USE DEF PacedInv, PacedTypeOK, Dropped, Goto
<1>1. PacedTypeOK'
  <2>1. Asked \in Urls /\ 0 \in 0 .. MaxRedirects /\ 0 \in 0 .. MaxRetries
    BY PacedConstants
  <2>2. [o \in Origins |-> 0] \in [Origins -> Nat]
    OBVIOUS
  <2> QED BY <2>1, <2>2 DEF Places
<1>2. ReplyRead'
  BY DEF ReplyRead, Answering
<1>3. SlotOfHost'
  BY DEF SlotOfHost, Sent, Answering
<1>4. Counted'
  <2>1. Spent(0) = 0
    BY SpentFacts
  <2> QED BY <2>1 DEF Counted, Sent, Answering
<1>5. TimelineCovers'
  BY DEF TimelineCovers
<1>6. SlotPastPause'
  BY DEF SlotPastPause
<1> QED
  BY <1>1, <1>2, <1>3, <1>4, <1>5, <1>6

\* So does one that fails, for good or to begin another attempt.
LEMMA FailsKeeps ==
  ASSUME PacedInv, NEW t \in Tasks, NEW error, NEW status,
         pc[t] \in {"hop"} \cup Sent, Fails(t, error, status), UNCHANGED ahead
  PROVE  PacedInv'
<1>1. CASE ~(IsTransient(error) /\ tries[t] < MaxRetries)
  BY <1>1, DroppedKeeps DEF Fails, Ends
<1>2. CASE IsTransient(error) /\ tries[t] < MaxRetries
  <2>0. /\ tries' = [tries EXCEPT ![t] = @ + 1]
        /\ url' = [url EXCEPT ![t] = Asked]
        /\ hops' = [hops EXCEPT ![t] = 0]
        /\ paced' = [paced EXCEPT ![t] = Nowhere]
        /\ reply' = [reply EXCEPT ![t] = NoReply]
        /\ buffer' = [buffer EXCEPT ![t] = 0]
        /\ pc' = [pc EXCEPT ![t] = "backoff"]
        /\ UNCHANGED <<wait, outcome, told, requests>>
    BY <1>2 DEF Fails, Goto
  <2> USE DEF PacedInv, PacedTypeOK
  <2>1. PacedTypeOK'
    <3>1. Asked \in Urls /\ 0 \in 0 .. MaxRedirects /\ tries[t] + 1 \in 0 .. MaxRetries
      BY <1>2, PacedConstants
    <3> QED BY <2>0, <3>1 DEF Places, Waiting
  <2>2. ReplyRead'
    BY <2>0 DEF ReplyRead, Answering
  <2>3. SlotOfHost'
    BY <2>0 DEF SlotOfHost, Sent, Answering
  <2>4. Counted'
    <3>1. /\ tries[t] \in Nat
          /\ Spent(tries[t]) \in Nat
          /\ Spent(tries[t] + 1) = Spent(tries[t]) + MaxRedirects + 1
      BY SpentFacts, PacedConstants
    <3>2. requests[t] <= Spent(tries[t] + 1)
      BY <3>1, PacedConstants DEF Counted
    <3>3. tries'[t] = tries[t] + 1 /\ hops'[t] = 0 /\ requests'[t] = requests[t]
      BY <2>0
    <3>4. pc'[t] \notin Sent /\ Spent(tries'[t]) \in Nat
      BY <2>0, <3>1, <3>3, SpentFacts DEF Sent, Answering
    <3>5. \A u \in Tasks \ {t} : /\ tries'[u] = tries[u] /\ hops'[u] = hops[u]
                                 /\ pc'[u] = pc[u] /\ requests'[u] = requests[u]
      BY <2>0
    <3> QED BY <3>2, <3>3, <3>4, <3>5 DEF Counted
  <2>5. TimelineCovers'
    BY <2>0 DEF TimelineCovers
  <2>6. SlotPastPause'
    BY <2>0 DEF SlotPastPause
  <2> QED
    BY <2>1, <2>2, <2>3, <2>4, <2>5, <2>6
<1> QED
  BY <1>1, <1>2

-----------------------------------------------------------------------------
(* The steps of a chain *)

\* A slot is taken of the host the chain is at, and lies past what the call was told
\* of that host, because the timeline does.
LEMMA HopKeeps ==
  ASSUME PacedInv, NEW t \in Tasks, Hop(t)
  PROVE  PacedInv'
<1> DEFINE origin == Classify(url[t])
<1>1. CASE \/ origin = Nowhere /\ Fails(t, "unsupported", 0) /\ UNCHANGED ahead
           \/ Fails(t, "queue full", 0) /\ UNCHANGED ahead
  BY <1>1, FailsKeeps DEF Hop
<1>2. CASE /\ origin # Nowhere
           /\ paced' = [paced EXCEPT ![t] = origin]
           /\ wait' = [wait EXCEPT ![t] = ahead[origin]]
           /\ ahead' = [ahead EXCEPT ![origin] = @ + Interval[origin]]
           /\ Goto(t, "slot")
           /\ UNCHANGED <<url, hops, tries, reply, buffer, outcome, told, requests>>
  <2>1. origin \in Origins
    BY <1>2, ClassifyFacts
  <2>2. pc[t] = "hop"
    BY DEF Hop
  <2> HIDE DEF origin
  <2> USE DEF PacedInv, PacedTypeOK, Goto
  <2>3. ahead[origin] \in Nat /\ Interval[origin] \in Nat
    BY <2>1, PacedConstants
  <2>4. PacedTypeOK'
    BY <1>2, <2>1, <2>3 DEF Places, Waiting
  <2>5. ReplyRead'
    BY <1>2 DEF ReplyRead, Answering
  <2>6. SlotOfHost'
    BY <1>2, <2>1 DEF SlotOfHost, Sent, Answering, origin
  <2>7. Counted'
    BY <1>2, <2>2 DEF Counted, Sent, Answering
  <2>8. TimelineCovers'
    <3>1. \A o \in Origins : ahead[o] \in Nat /\ ahead'[o] \in Nat /\ ahead[o] <= ahead'[o]
      BY <1>2, <2>1, <2>3
    <3>2. \A u \in Tasks, o \in Origins : told[u][o] \in Nat /\ told'[u][o] = told[u][o]
      BY <1>2
    <3> QED BY <3>1, <3>2 DEF TimelineCovers
  <2>9. SlotPastPause'
    BY <1>2, <2>1 DEF SlotPastPause, TimelineCovers
  <2> QED
    BY <2>4, <2>5, <2>6, <2>7, <2>8, <2>9
<1> QED
  BY <1>1, <1>2 DEF Hop

\* The slot has come: the request is counted.
LEMMA SendKeeps ==
  ASSUME PacedInv, NEW t \in Tasks, Send(t)
  PROVE  PacedInv'
<1> USE DEF PacedInv, PacedTypeOK, Send, Goto, chainVars
<1>1. PacedTypeOK'
  BY DEF Places, Waiting
<1>2. ReplyRead'
  BY DEF ReplyRead, Answering
<1>3. SlotOfHost'
  BY DEF SlotOfHost, Sent, Answering
<1>4. Counted'
  <2>1. /\ requests'[t] = requests[t] + 1 /\ pc[t] \notin Sent /\ pc'[t] \in Sent
        /\ tries'[t] = tries[t] /\ hops'[t] = hops[t]
    BY DEF Sent, Answering
  <2>2. Spent(tries[t]) \in Nat
    BY SpentFacts, PacedConstants
  <2>3. \A u \in Tasks \ {t} : /\ tries'[u] = tries[u] /\ hops'[u] = hops[u]
                               /\ pc'[u] = pc[u] /\ requests'[u] = requests[u]
    OBVIOUS
  <2> QED BY <2>1, <2>2, <2>3 DEF Counted
<1>5. TimelineCovers'
  BY DEF TimelineCovers
<1>6. SlotPastPause'
  BY DEF SlotPastPause
<1> QED
  BY <1>1, <1>2, <1>3, <1>4, <1>5, <1>6

\* An answer arrives.
LEMMA AnsweredKeeps ==
  ASSUME PacedInv, NEW t \in Tasks, Answered(t)
  PROVE  PacedInv'
<1> USE DEF PacedInv, PacedTypeOK, Answered, Goto
<1>1. PacedTypeOK'
  BY DEF Places
<1>2. ReplyRead'
  BY DEF ReplyRead, Answering
<1>3. SlotOfHost'
  BY DEF SlotOfHost, Sent, Answering
<1>4. Counted'
  BY DEF Counted, Sent, Answering
<1>5. TimelineCovers'
  BY DEF TimelineCovers
<1>6. SlotPastPause'
  BY DEF SlotPastPause
<1> QED
  BY <1>1, <1>2, <1>3, <1>4, <1>5, <1>6

\* A redirect spends a hop where it did not spend a retry.
LEMMA RedirectedKeeps ==
  ASSUME PacedInv, NEW t \in Tasks, Redirected(t)
  PROVE  PacedInv'
<1>1. pc[t] = "reply" /\ reply[t] \in Redirections
  BY ReplyKinds DEF Redirected, PacedInv, ReplyRead, Answering
<1>2. CASE Fails(t, "unsupported", 0) /\ UNCHANGED ahead
  BY <1>1, <1>2, FailsKeeps DEF Sent, Answering
<1>3. CASE /\ hops[t] < MaxRedirects /\ reply[t].location # Unusable
           /\ hops' = [hops EXCEPT ![t] = @ + 1]
           /\ url' = [url EXCEPT ![t] = Join(@, reply[t].location)]
           /\ reply' = [reply EXCEPT ![t] = NoReply]
           /\ Goto(t, "hop")
           /\ UNCHANGED <<ahead, tries, paced, wait, buffer, outcome, told, requests>>
  <2> USE DEF PacedInv, PacedTypeOK, Goto
  <2>1. PacedTypeOK'
    <3>1. url[t] \in Urls /\ reply[t].location \in Locations
      BY <1>1 DEF Redirections
    <3>2. Join(url[t], reply[t].location) \in Urls
      BY <1>3, <3>1, JoinFacts
    <3>3. hops[t] + 1 \in 0 .. MaxRedirects
      BY <1>3, PacedConstants
    <3> QED BY <1>3, <3>2, <3>3 DEF Places
  <2>2. ReplyRead'
    BY <1>3 DEF ReplyRead, Answering
  <2>3. SlotOfHost'
    BY <1>3 DEF SlotOfHost, Sent, Answering
  <2>4. Counted'
    <3>1. /\ requests'[t] = requests[t] /\ pc[t] \in Sent /\ pc'[t] \notin Sent
          /\ tries'[t] = tries[t] /\ hops'[t] = hops[t] + 1
      BY <1>1, <1>3 DEF Sent, Answering
    <3>2. Spent(tries[t]) \in Nat
      BY SpentFacts, PacedConstants
    <3>3. \A u \in Tasks \ {t} : /\ tries'[u] = tries[u] /\ hops'[u] = hops[u]
                                 /\ pc'[u] = pc[u] /\ requests'[u] = requests[u]
      BY <1>3
    <3> QED BY <3>1, <3>2, <3>3 DEF Counted
  <2>5. TimelineCovers'
    BY <1>3 DEF TimelineCovers
  <2>6. SlotPastPause'
    BY <1>3 DEF SlotPastPause
  <2> QED
    BY <2>1, <2>2, <2>3, <2>4, <2>5, <2>6
<1> QED
  BY <1>2, <1>3 DEF Redirected

\* What the call is told, the host's timeline is pushed past.
LEMMA BusyKeeps ==
  ASSUME PacedInv, NEW t \in Tasks, Busy(t)
  PROVE  PacedInv'
<1>1. pc[t] = "reply" /\ reply[t] \in Refusals
  BY ReplyKinds DEF Busy, PacedInv, ReplyRead, Answering
<1>2. paced[t] \in Origins
  BY <1>1 DEF PacedInv, SlotOfHost, Sent, Answering
<1> DEFINE quiet == reply[t].after = NoHeader
           pause == PauseOf(reply[t].after)
<1>3. ~quiet => pause \in Nat
  BY <1>1, PauseFacts DEF Refusals
<1>4. /\ IF quiet THEN UNCHANGED <<ahead, told>>
          ELSE /\ ahead' = [ahead EXCEPT ![paced[t]] = Larger(@, pause)]
               /\ told' = [told EXCEPT ![t][paced[t]] = Larger(@, pause)]
      /\ pc' = [pc EXCEPT ![t] = "detail"]
      /\ UNCHANGED <<chainVars, outcome, requests>>
  BY DEF Busy, Penalize, Tell, Goto
<1> HIDE DEF quiet, pause
<1> USE DEF PacedInv, PacedTypeOK, chainVars
<1>5. /\ ahead' \in [Origins -> Nat] /\ told' \in [Tasks -> [Origins -> Nat]]
      /\ \A o \in Origins : ahead[o] <= ahead'[o]
  <2>1. CASE quiet
    BY <1>4, <2>1
  <2>2. CASE ~quiet
    <3>1. \A n \in Nat : Larger(n, pause) \in Nat /\ n <= Larger(n, pause)
      BY <1>3, <2>2 DEF Larger
    <3>2. ahead' = [ahead EXCEPT ![paced[t]] = Larger(ahead[paced[t]], pause)]
      BY <1>4, <2>2
    <3>3. told' = [told EXCEPT ![t] = [told[t] EXCEPT ![paced[t]] = Larger(told[t][paced[t]], pause)]]
      BY <1>4, <2>2
    <3>4. ahead[paced[t]] \in Nat /\ told[t] \in [Origins -> Nat] /\ told[t][paced[t]] \in Nat
      BY <1>2
    <3>5. ahead' \in [Origins -> Nat] /\ \A o \in Origins : ahead[o] <= ahead'[o]
      BY <1>2, <3>1, <3>2, <3>4
    <3>6. told' \in [Tasks -> [Origins -> Nat]]
      BY <1>2, <3>1, <3>3, <3>4
    <3> QED BY <3>5, <3>6
  <2> QED BY <2>1, <2>2
<1>6. PacedTypeOK'
  BY <1>4, <1>5 DEF Places, Waiting
<1>7. ReplyRead'
  BY <1>1, <1>4 DEF ReplyRead, Answering, Replies
<1>8. SlotOfHost'
  BY <1>1, <1>4 DEF SlotOfHost, Sent, Answering
<1>9. Counted'
  BY <1>1, <1>4 DEF Counted, Sent, Answering
<1>10. TimelineCovers'
  <2>1. CASE quiet
    BY <1>4, <2>1 DEF TimelineCovers
  <2>2. CASE ~quiet
    BY <1>2, <1>3, <1>4, <1>5, <2>2 DEF TimelineCovers, Larger
  <2> QED BY <2>1, <2>2
<1>11. SlotPastPause'
  <2>1. \A u \in Tasks \ {t} : told'[u] = told[u] /\ pc'[u] = pc[u]
    BY <1>4
  <2>2. pc'[t] # "slot"
    BY <1>4
  <2> QED BY <1>4, <2>1, <2>2 DEF SlotPastPause
<1> QED
  BY <1>6, <1>7, <1>8, <1>9, <1>10, <1>11

\* The body of an answer is begun only when the answer has one.
LEMMA BodyBeginsKeeps ==
  ASSUME PacedInv, NEW t \in Tasks, BodyBegins(t)
  PROVE  PacedInv'
<1>1. pc[t] = "reply" /\ reply[t] \in WithBody
  BY ReplyKinds DEF BodyBegins, PacedInv, ReplyRead, Answering
<1>2. CASE Fails(t, "too large", 0) /\ UNCHANGED ahead
  BY <1>1, <1>2, FailsKeeps DEF Sent, Answering
<1>3. CASE Goto(t, "body") /\ UNCHANGED <<ahead, chainVars, outcome, told, requests>>
  <2> USE DEF PacedInv, PacedTypeOK, Goto, chainVars
  <2>1. PacedTypeOK'
    BY <1>3 DEF Places, Waiting
  <2>2. ReplyRead'
    BY <1>1, <1>3 DEF ReplyRead, Answering, Replies
  <2>3. SlotOfHost'
    BY <1>1, <1>3 DEF SlotOfHost, Sent, Answering
  <2>4. Counted'
    BY <1>1, <1>3 DEF Counted, Sent, Answering
  <2>5. TimelineCovers'
    BY <1>3 DEF TimelineCovers
  <2>6. SlotPastPause'
    BY <1>3 DEF SlotPastPause
  <2> QED
    BY <2>1, <2>2, <2>3, <2>4, <2>5, <2>6
<1> QED
  BY <1>2, <1>3 DEF BodyBegins

\* A chunk is added to the buffer, or was one too many.
LEMMA ChunkKeeps ==
  ASSUME PacedInv, NEW t \in Tasks, Chunk(t)
  PROVE  PacedInv'
<1>1. pc[t] = "body" /\ reply[t] \in WithBody
  BY DEF Chunk, PacedInv, ReplyRead
<1>2. reply[t].size \in Nat /\ buffer[t] \in Nat
  BY <1>1, PacedConstants DEF WithBody, PacedInv, PacedTypeOK
<1>3. PICK length \in 1 .. (reply[t].size - buffer[t]) :
        /\ UNCHANGED ahead
        /\ \/ Fails(t, "too large", 0)
           \/ /\ buffer' = [buffer EXCEPT ![t] = @ + length]
              /\ UNCHANGED <<pc, url, hops, tries, paced, wait, reply, outcome, told, requests>>
  BY DEF Chunk
<1>4. CASE Fails(t, "too large", 0)
  BY <1>1, <1>3, <1>4, FailsKeeps DEF Sent, Answering
<1>5. CASE /\ buffer' = [buffer EXCEPT ![t] = @ + length]
           /\ UNCHANGED <<ahead, pc, url, hops, tries, paced, wait, reply, outcome, told, requests>>
  <2>1. buffer[t] + length \in Nat
    BY <1>2
  <2> QED
    BY <1>5, <2>1 DEF PacedInv, PacedTypeOK, ReplyRead, SlotOfHost, Counted, TimelineCovers, SlotPastPause
<1> QED
  BY <1>3, <1>4, <1>5

-----------------------------------------------------------------------------
(* The specification *)

\* The invariant holds at the start.
LEMMA InitHolds == PacedInit => PacedInv
<1> SUFFICES ASSUME PacedInit PROVE PacedInv
  OBVIOUS
<1> USE DEF PacedInit
<1>1. PacedTypeOK
  BY PacedConstants DEF PacedTypeOK, Places
<1>2. Counted
  BY SpentFacts DEF Counted, Sent, Answering
<1>3. ReplyRead /\ SlotOfHost /\ TimelineCovers /\ SlotPastPause
  BY DEF ReplyRead, SlotOfHost, Sent, Answering, TimelineCovers, SlotPastPause
<1> QED
  BY <1>1, <1>2, <1>3 DEF PacedInv

\* One step of one call.
LEMMA TaskKeeps ==
  ASSUME PacedInv, NEW t \in Tasks, Fetch(t) \/ Chain(t) \/ Collect(t) \/ Cancel(t)
  PROVE  PacedInv'
<1>1. CASE Hop(t) \/ Send(t) \/ Answered(t) \/ Redirected(t) \/ Busy(t) \/ BodyBegins(t) \/ Chunk(t)
  BY <1>1, HopKeeps, SendKeeps, AnsweredKeeps, RedirectedKeeps, BusyKeeps, BodyBeginsKeeps, ChunkKeeps
<1>2. CASE Lost(t) \/ Detailed(t) \/ Cut(t)
  BY <1>2, FailsKeeps DEF Lost, Detailed, Cut, Sent, Answering
<1>3. CASE Unchanged(t) \/ Received(t) \/ Cancel(t)
  BY <1>3, DroppedKeeps DEF Unchanged, Received, Cancel, Ends
<1>4. CASE Fetch(t) \/ Collect(t) \/ BackedOff(t)
  <2>1. PICK label \in {"idle", "hop"} :
          /\ pc' = [pc EXCEPT ![t] = label]
          /\ pc[t] \notin Sent
          /\ UNCHANGED <<ahead, chainVars, told, requests>>
    BY <1>4 DEF Fetch, Collect, BackedOff, Goto, Sent, Answering
  <2> USE DEF PacedInv, PacedTypeOK, chainVars
  <2>2. PacedTypeOK'
    BY <2>1 DEF Places
  <2>3. ReplyRead'
    BY <2>1 DEF ReplyRead, Answering
  <2>4. SlotOfHost'
    BY <2>1 DEF SlotOfHost, Sent, Answering
  <2>5. Counted'
    BY <2>1 DEF Counted, Sent, Answering
  <2>6. TimelineCovers' /\ SlotPastPause'
    BY <2>1 DEF TimelineCovers, SlotPastPause
  <2> QED
    BY <2>2, <2>3, <2>4, <2>5, <2>6
<1> QED
  BY <1>1, <1>2, <1>3, <1>4 DEF Chain

\* Others push a timeline further out.
LEMMA OthersKeep ==
  ASSUME PacedInv, OthersClaim
  PROVE  PacedInv'
<1>1. PICK o \in Origins : /\ ahead' = [ahead EXCEPT ![o] = @ + Interval[o]]
                           /\ UNCHANGED <<pc, chainVars, outcome, told, requests>>
  BY PacedConstants DEF OthersClaim
<1> USE DEF PacedInv, PacedTypeOK, chainVars
<1>2. \A a \in Origins : ahead[a] \in Nat /\ ahead'[a] \in Nat /\ ahead[a] <= ahead'[a]
  <2>1. Interval[o] \in Nat /\ ahead \in [Origins -> Nat]
    BY PacedConstants
  <2>2. ahead'[o] = ahead[o] + Interval[o] /\ \A a \in Origins \ {o} : ahead'[a] = ahead[a]
    BY <1>1, <2>1
  <2> QED BY <2>1, <2>2
<1>3. PacedTypeOK'
  BY <1>1, <1>2
<1>4. ReplyRead' /\ SlotOfHost' /\ Counted' /\ SlotPastPause'
  BY <1>1 DEF ReplyRead, SlotOfHost, Counted, SlotPastPause
<1>5. TimelineCovers'
  <2>1. \A u \in Tasks, a \in Origins : told[u][a] \in Nat /\ told'[u][a] = told[u][a]
    BY <1>1
  <2> QED BY <1>2, <2>1 DEF TimelineCovers
<1> QED
  BY <1>3, <1>4, <1>5

\* A tick brings the timelines, the slots and the ends of the pauses nearer alike.
LEMMA TickKeeps ==
  ASSUME PacedInv, Tick
  PROVE  PacedInv'
<1>1. \A m, n \in Nat : Nearer(n) \in Nat /\ (m <= n => Nearer(m) <= Nearer(n))
  BY DEF Nearer
<1>2. /\ ahead' = [o \in Origins |-> Nearer(ahead[o])]
      /\ wait' = [t \in Tasks |-> Nearer(wait[t])]
      /\ told' = [t \in Tasks |-> [o \in Origins |-> Nearer(told[t][o])]]
      /\ UNCHANGED <<pc, url, hops, tries, paced, reply, buffer, outcome, requests>>
  BY DEF Tick
<1> USE DEF PacedInv, PacedTypeOK
<1>3. PacedTypeOK'
  BY <1>1, <1>2
<1>4. ReplyRead' /\ SlotOfHost' /\ Counted'
  BY <1>2 DEF ReplyRead, SlotOfHost, Counted
<1>5. TimelineCovers'
  <2>1. \A t \in Tasks, o \in Origins :
          /\ told[t][o] \in Nat /\ ahead[o] \in Nat
          /\ told'[t][o] = Nearer(told[t][o]) /\ ahead'[o] = Nearer(ahead[o])
    BY <1>2
  <2> QED BY <1>1, <2>1 DEF TimelineCovers
<1>6. SlotPastPause'
  <2>1. \A t \in Tasks, o \in Origins :
          /\ told[t][o] \in Nat /\ wait[t] \in Nat
          /\ told'[t][o] = Nearer(told[t][o]) /\ wait'[t] = Nearer(wait[t])
    BY <1>2
  <2>2. \A t \in Tasks : pc[t] = "slot" => paced[t] \in Origins
    BY DEF SlotOfHost
  <2> QED BY <1>1, <1>2, <2>1, <2>2 DEF SlotPastPause
<1> QED
  BY <1>3, <1>4, <1>5, <1>6

\* Every step keeps the invariant.
LEMMA NextHolds == PacedInv /\ [PacedNext]_pacedVars => PacedInv'
<1> SUFFICES ASSUME PacedInv, [PacedNext]_pacedVars PROVE PacedInv'
  OBVIOUS
<1>1. CASE PacedNext
  BY <1>1, TaskKeeps, OthersKeep, TickKeeps DEF PacedNext
<1>2. CASE UNCHANGED pacedVars
  BY <1>2 DEF pacedVars, chainVars, PacedInv, PacedTypeOK, ReplyRead, SlotOfHost, Counted,
              TimelineCovers, SlotPastPause
<1> QED
  BY <1>1, <1>2

\* The inductive invariant holds in every state.
THEOREM PacedInvariant == PacedSpec => []PacedInv
  BY InitHolds, NextHolds, PTL DEF PacedSpec

\* Every variable of a fetch keeps its type: hops and retries stay within their
\* limits, and every hop is at a URL.
THEOREM TypesKept == PacedSpec => []PacedTypeOK
<1>1. PacedInv => PacedTypeOK
  BY DEF PacedInv
<1> QED
  BY <1>1, PacedInvariant, PTL

\* Redirects times retries bound the requests of a call, for any limits.
THEOREM RequestsBounded == PacedSpec => []ChainBounded
<1>1. ASSUME PacedInv PROVE ChainBounded
  <2> SUFFICES ASSUME NEW t \in Tasks
               PROVE  requests[t] <= (MaxRedirects + 1) * (MaxRetries + 1)
    BY DEF ChainBounded
  <2>1. /\ tries[t] \in 0 .. MaxRetries /\ hops[t] \in 0 .. MaxRedirects
        /\ requests[t] \in Nat /\ MaxRetries \in Nat /\ MaxRedirects \in Nat
    BY <1>1, PacedConstants DEF PacedInv, PacedTypeOK
  <2>2. requests[t] <= Spent(tries[t]) + hops[t] + 1
    <3>1. tries[t] \in Nat
      BY <2>1
    <3>2. Spent(tries[t]) \in Nat
      BY <3>1, SpentFacts
    <3> QED BY <1>1, <2>1, <3>2 DEF PacedInv, Counted
  <2>3. /\ Spent(tries[t]) \in Nat /\ Spent(MaxRetries) \in Nat
        /\ Spent(tries[t]) <= Spent(MaxRetries)
        /\ Spent(MaxRetries + 1) = Spent(MaxRetries) + MaxRedirects + 1
    <3>1. tries[t] \in Nat /\ tries[t] <= MaxRetries /\ MaxRetries \in Nat
      BY <2>1
    <3> QED BY <3>1, SpentFacts
  <2>4. requests[t] <= Spent(MaxRetries + 1)
    BY <2>1, <2>2, <2>3
  <2>5. Spent(MaxRetries + 1) = (MaxRedirects + 1) * (MaxRetries + 1)
    BY <2>1 DEF Spent
  <2> QED BY <2>4, <2>5
<1> QED
  BY <1>1, PacedInvariant, PTL

\* Only the step that sends counts a request.
LEMMA OnlySendCounts ==
  ASSUME PacedInv, [PacedNext]_pacedVars, NEW t \in Tasks, requests'[t] > requests[t]
  PROVE  Send(t)
<1> USE DEF PacedInv, PacedTypeOK, chainVars
<1>1. requests[t] \in Nat
  OBVIOUS
<1>2. PICK u \in Tasks : Fetch(u) \/ Chain(u) \/ Collect(u) \/ Cancel(u)
  BY <1>1 DEF PacedNext, pacedVars, OthersClaim, Tick
<1>3. Send(u) \/ UNCHANGED requests \/ requests' = [requests EXCEPT ![u] = 0]
  BY <1>2 DEF Fetch, Chain, Collect, Cancel, Dropped, Ends, Fails, Hop, Lost, Answered, Unchanged,
              Redirected, Busy, Detailed, BodyBegins, Chunk, Received, Cut, BackedOff
<1>4. CASE Send(u)
  <2>1. u = t
    BY <1>1, <1>4 DEF Send
  <2> QED BY <1>4, <2>1
<1>5. CASE UNCHANGED requests
  BY <1>1, <1>5
<1>6. CASE requests' = [requests EXCEPT ![u] = 0]
  BY <1>1, <1>6
<1> QED
  BY <1>3, <1>4, <1>5, <1>6

\* Every request goes to a host of the list, over https, in a slot of that host.
THEOREM RequestsPaced == PacedSpec => EveryHopPaced
<1>1. ASSUME PacedInv, [PacedNext]_pacedVars
      PROVE  \A t \in Tasks : requests'[t] > requests[t] =>
               Classify(url[t]) # Nowhere /\ paced[t] = Classify(url[t])
  <2> SUFFICES ASSUME NEW t \in Tasks, requests'[t] > requests[t]
               PROVE  Classify(url[t]) # Nowhere /\ paced[t] = Classify(url[t])
    OBVIOUS
  <2>1. pc[t] = "slot"
    BY <1>1, OnlySendCounts DEF Send
  <2>2. paced[t] = Classify(url[t]) /\ paced[t] \in Origins
    BY <1>1, <2>1 DEF PacedInv, SlotOfHost
  <2> QED BY <2>2, NowhereIsNoOrigin
<1> QED
  BY <1>1, PacedInvariant, PTL DEF PacedSpec, EveryHopPaced

\* A call sends nothing to a host it was told to leave alone.
THEOREM PausesKept == PacedSpec => OwnPauseHonoured
<1>1. ASSUME PacedInv, [PacedNext]_pacedVars
      PROVE  \A t \in Tasks : requests'[t] > requests[t] => told[t][Classify(url[t])] = 0
  <2> SUFFICES ASSUME NEW t \in Tasks, requests'[t] > requests[t]
               PROVE  told[t][Classify(url[t])] = 0
    OBVIOUS
  <2>1. pc[t] = "slot" /\ wait[t] = 0
    BY <1>1, OnlySendCounts DEF Send
  <2>2. paced[t] = Classify(url[t]) /\ paced[t] \in Origins
    BY <1>1, <2>1 DEF PacedInv, SlotOfHost
  <2>3. told[t][paced[t]] \in Nat /\ told[t][paced[t]] <= 0
    BY <1>1, <2>1, <2>2 DEF PacedInv, PacedTypeOK, SlotPastPause
  <2> QED BY <2>2, <2>3
<1> QED
  BY <1>1, PacedInvariant, PTL DEF PacedSpec, OwnPauseHonoured

-----------------------------------------------------------------------------
(* Reading implements a paced fetch *)

\* Each step of a reader is a step of its chain, or leaves every chain alone.
LEMMA StepFetches == [Next]_vars => [PacedNext]_pacedVars
<1> SUFFICES ASSUME [Next]_vars PROVE [PacedNext]_pacedVars
  OBVIOUS
<1>1. CASE UNCHANGED vars
  BY <1>1 DEF vars
<1>2. ASSUME NEW t \in Tasks, Ask(t) PROVE UNCHANGED pacedVars
  BY <1>2 DEF Ask
<1>3. ASSUME NEW t \in Tasks, Begin(t) PROVE PacedNext
  BY <1>3 DEF Begin, PacedNext
<1>4. ASSUME NEW t \in Tasks, Settle(t) PROVE PacedNext
  BY <1>4 DEF Settle, PacedNext
<1>5. ASSUME NEW t \in Tasks, FoundAbsent(t) \/ Remembered(t) \/ Derive(t) \/ Memoize(t)
      PROVE  UNCHANGED pacedVars
  BY <1>5 DEF FoundAbsent, Remembered, Derive, Memoize
<1>6. ASSUME NEW t \in Tasks, Drop(t) PROVE [PacedNext]_pacedVars
  BY <1>6 DEF Drop, PacedNext
<1>7. ASSUME NEW t \in Tasks, Chain(t) PROVE PacedNext
  BY <1>7 DEF PacedNext
<1>8. ASSUME OthersClaim \/ Tick PROVE PacedNext
  BY <1>8 DEF PacedNext
<1>9. ASSUME Forget PROVE UNCHANGED pacedVars
  BY <1>9 DEF Forget
<1> QED
  BY <1>1, <1>2, <1>3, <1>4, <1>5, <1>6, <1>7, <1>8, <1>9 DEF Next, Reads

\* Client::readme implements a paced fetch.
THEOREM ReadmeFetches == Spec => PacedSpec
<1>1. Init => PacedInit
  BY DEF Init
<1> QED
  BY <1>1, StepFetches, PTL DEF Spec, PacedSpec

\* A README costs no more requests than its redirects and retries allow.
THEOREM ReadmeBounded == Spec => []ChainBounded
  BY ReadmeFetches, RequestsBounded, PTL

\* Every request for a README goes to a host of the list, in a slot of that host.
THEOREM ReadmePaced == Spec => EveryHopPaced
  BY ReadmeFetches, RequestsPaced, PTL

\* A reader sends nothing to a host that told it to wait, until the wait is over.
THEOREM ReadmePausesKept == Spec => OwnPauseHonoured
  BY ReadmeFetches, PausesKept, PTL

-----------------------------------------------------------------------------
(* Texts *)

\* Every character of a text has a place up to its length.
LEMMA InkedIs ==
  ASSUME NEW text \in Texts
  PROVE  Inked(text) \in SUBSET (0 .. Len(text)) /\ Inked(text) \in SUBSET Nat /\ 0 \notin Inked(text)
  BY DEF Inked, Texts

\* What is left after the end is trimmed: up to the last ink.
LEMMA TrimEndIs ==
  ASSUME NEW text \in Texts
  PROVE  \E k \in 0 .. Len(text) :
           /\ TrimEnd(text) = SubSeq(text, 1, k)
           /\ k = 0 \/ ~IsSpace(text[k])
           /\ \A i \in k + 1 .. Len(text) : IsSpace(text[i])
<1>1. CASE Inked(text) = {}
  <2>1. SubSeq(text, 1, 0) = <<>>
    OBVIOUS
  <2> QED BY <1>1, <2>1 DEF TrimEnd, Inked, Texts
<1>2. CASE Inked(text) # {}
  <2>1. Max(Inked(text)) \in Inked(text) /\ \A i \in Inked(text) : i <= Max(Inked(text))
    BY <1>2, InkedIs, MaxIs, LenProperties DEF Texts
  <2>2. PICK k \in Inked(text) : k = Max(Inked(text)) /\ \A i \in Inked(text) : i <= k
    BY <2>1
  <2>3. k \in 0 .. Len(text) /\ ~IsSpace(text[k])
    BY InkedIs DEF Inked
  <2>4. ASSUME NEW i \in k + 1 .. Len(text) PROVE IsSpace(text[i])
    <3>1. i \in DOMAIN text /\ ~(i <= k)
      BY <2>3 DEF Texts
    <3> QED BY <2>2, <3>1 DEF Inked
  <2>5. TrimEnd(text) = SubSeq(text, 1, k)
    BY <1>2, <2>2 DEF TrimEnd
  <2> QED BY <2>3, <2>4, <2>5
<1> QED
  BY <1>1, <1>2

\* A text is still one when its end is trimmed.
LEMMA TrimEndType ==
  ASSUME NEW text \in Texts
  PROVE  TrimEnd(text) \in Texts
  BY TrimEndIs, SubSeqProperties DEF Texts

\* A text that begins with ink still does when its end is trimmed.
LEMMA TrimEndStarts ==
  ASSUME NEW text \in Texts, text # <<>>, ~IsSpace(text[1])
  PROVE  TrimEnd(text) # <<>> /\ TrimEnd(text)[1] = text[1]
<1>1. PICK k \in 0 .. Len(text) :
           /\ TrimEnd(text) = SubSeq(text, 1, k)
           /\ k = 0 \/ ~IsSpace(text[k])
           /\ \A i \in k + 1 .. Len(text) : IsSpace(text[i])
  BY TrimEndIs
<1>2. Len(text) >= 1
  BY DEF Texts
<1>3. k >= 1
  BY <1>1, <1>2
<1> QED
  BY <1>1, <1>2, <1>3 DEF Texts

\* Trimming leaves nothing, or a text that begins with ink.
LEMMA TrimIs ==
  ASSUME NEW text \in Texts
  PROVE  Trim(text) \in Texts /\ (Trim(text) # <<>> => ~IsSpace(Trim(text)[1]))
<1>1. TrimStart(text) \in Texts /\ (TrimStart(text) # <<>> => ~IsSpace(TrimStart(text)[1]))
  <2>1. CASE Inked(text) = {}
    BY <2>1 DEF TrimStart, Texts
  <2>2. CASE Inked(text) # {}
    <3>1. Min(Inked(text)) \in Inked(text)
      BY <2>2, InkedIs, MinIs
    <3>2. PICK k \in Inked(text) : k = Min(Inked(text))
      BY <3>1
    <3>3. k \in 1 .. Len(text) /\ ~IsSpace(text[k])
      BY DEF Inked, Texts
    <3>4. TrimStart(text) = SubSeq(text, k, Len(text))
      BY <2>2, <3>2 DEF TrimStart
    <3> QED BY <3>3, <3>4, SubSeqProperties DEF Texts
  <2> QED BY <2>1, <2>2
<1>2. TrimEnd(<<>>) = <<>>
  BY DEF TrimEnd, Inked
<1> QED
  BY <1>1, <1>2, TrimEndStarts, TrimEndType DEF Trim

\* Rows are some texts, flat rows some texts without newlines.
Rows == Seq(Texts) \ {<<>>}
Flat == Seq(Characters \ {NL})
FlatRows == Seq(Flat) \ {<<>>}

\* Flat rows are rows.
LEMMA FlatRowsAreRows ==
  ASSUME NEW ls \in FlatRows
  PROVE  ls \in Rows
<1>1. \A line \in Flat : line \in Texts
  BY DEF Flat, Texts
<1> QED
  BY <1>1 DEF FlatRows, Rows

LineStep(c, ls) == IF c = NL THEN Append(ls, <<>>) ELSE [ls EXCEPT ![Len(ls)] = Append(@, c)]

\* A newline begins a row; any other character ends up in the last one.
LEMMA LineStepIs ==
  ASSUME NEW c \in Characters, NEW ls \in FlatRows
  PROVE  /\ LineStep(c, ls) \in FlatRows
         /\ ls[1] # <<>> => LineStep(c, ls)[1] # <<>> /\ LineStep(c, ls)[1][1] = ls[1][1]
<1>1. Len(ls) \in Nat \ {0} /\ ls[1] \in Flat /\ <<>> \in Flat
  BY DEF FlatRows, Flat
<1>2. CASE c = NL
  <2>1. LineStep(c, ls) = Append(ls, <<>>)
    BY <1>2 DEF LineStep
  <2> QED BY <1>1, <2>1, AppendProperties DEF FlatRows
<1>3. CASE c # NL
  <2>1. PICK i : i = Len(ls)
    OBVIOUS
  <2>2. ls \in Seq(Flat) /\ i \in 1 .. Len(ls) /\ i \in Nat \ {0}
    BY <1>1, <2>1 DEF FlatRows
  <2>3. PICK e \in Flat : e = Append(ls[i], c)
    <3>1. ls[i] \in Flat
      BY <2>2, ElementOfSeq
    <3>2. Append(ls[i], c) \in Flat
      BY <1>3, <3>1, AppendProperties DEF Flat
    <3> QED BY <3>2
  <2>4. /\ LineStep(c, ls) \in Seq(Flat) /\ Len(LineStep(c, ls)) = Len(ls)
        /\ \A j \in 1 .. Len(ls) : LineStep(c, ls)[j] = IF j = i THEN e ELSE ls[j]
    <3>1. LineStep(c, ls) = [ls EXCEPT ![i] = e]
      BY <1>3, <2>1, <2>3 DEF LineStep
    <3> QED BY <2>2, <3>1, ExceptSeq
  <2>5. LineStep(c, ls) \in FlatRows
    BY <1>1, <2>4 DEF FlatRows
  <2>6. ASSUME ls[1] # <<>>
        PROVE  LineStep(c, ls)[1] # <<>> /\ LineStep(c, ls)[1][1] = ls[1][1]
    <3>1. CASE i = 1
      <4>1. LineStep(c, ls)[1] = Append(ls[1], c)
        BY <2>2, <2>3, <2>4, <3>1
      <4>2. Len(ls[1]) \in Nat \ {0}
        BY <1>1, <2>6 DEF Flat
      <4> QED BY <1>1, <4>1, <4>2, AppendProperties DEF Flat
    <3>2. CASE i # 1
      <4>1. 1 \in 1 .. Len(ls)
        BY <1>1
      <4>2. LineStep(c, ls)[1] = ls[1]
        BY <2>4, <3>2, <4>1
      <4> QED BY <2>6, <4>2
    <3> QED BY <3>1, <3>2
  <2> QED BY <2>5, <2>6
<1> QED
  BY <1>2, <1>3

\* A text is read into lines from left to right.
Splits(h, text) ==
  /\ h[0] = << <<>> >> /\ h[Len(text)] = Lines(text)
  /\ \A k \in 0 .. Len(text) - 1 : h[k + 1] = LineStep(text[k + 1], h[k])

\* The lines of a text are read one character after the other.
LEMMA LinesRun ==
  ASSUME NEW text \in Texts
  PROVE  \E h \in [0 .. Len(text) -> FlatRows] : Splits(h, text)
<1>1. PICK n \in Nat : n = Len(text) /\ DOMAIN text = 1 .. n /\ \A i \in 1 .. n : text[i] \in Characters
  BY DEF Texts
<1>2. << <<>> >> \in FlatRows
  BY DEF FlatRows, Flat
<1>3. PICK step : step = [d \in (1 .. n) \X FlatRows |-> LineStep(text[d[1]], d[2])]
  OBVIOUS
<1>4. IsStep(step, n, FlatRows)
  BY <1>1, <1>3, LineStepIs DEF IsStep
<1>5. PICK g \in [SUBSET (1 .. n) -> FlatRows] : Folds(g, n, << <<>> >>, step)
  BY <1>2, <1>4, FoldExists
<1>6. \A s \in SUBSET (1 .. n) : s # {} => Max(s) \in s
  BY MaxOfPart
<1>7. \E f : f = [s \in SUBSET DOMAIN text |->
                  IF s = {} THEN << <<>> >> ELSE LineStep(text[Max(s)], f[s \ {Max(s)}])]
  <2>1. g = [s \in SUBSET DOMAIN text |->
               IF s = {} THEN << <<>> >> ELSE LineStep(text[Max(s)], g[s \ {Max(s)}])]
    <3> SUFFICES ASSUME NEW s \in SUBSET (1 .. n)
                 PROVE  g[s] = IF s = {} THEN << <<>> >> ELSE LineStep(text[Max(s)], g[s \ {Max(s)}])
      BY <1>1, <1>5
    <3>1. CASE s = {}
      BY <1>5, <3>1 DEF Folds
    <3>2. CASE s # {}
      <4>1. g[s] = step[<<Max(s), g[s \ {Max(s)}]>>] /\ Max(s) \in 1 .. n /\ g[s \ {Max(s)}] \in FlatRows
        BY <1>5, <1>6, <3>2 DEF Folds
      <4> QED BY <1>3, <3>2, <4>1
    <3> QED BY <3>1, <3>2
  <2> QED BY <2>1
<1>8. PICK f : /\ f = [s \in SUBSET DOMAIN text |->
                       IF s = {} THEN << <<>> >> ELSE LineStep(text[Max(s)], f[s \ {Max(s)}])]
               /\ Lines(text) = f[DOMAIN text]
  BY <1>7 DEF Lines, FoldLeft, MapThenFoldSet, LineStep
<1>9. PICK h \in [0 .. n -> FlatRows] : Goes(h, f, n, << <<>> >>, step)
  <2>1. f[{}] = << <<>> >>
    BY <1>8
  <2>2. ASSUME NEW s \in SUBSET (1 .. n), s # {}, f[s \ {Max(s)}] \in FlatRows
        PROVE  f[s] = step[<<Max(s), f[s \ {Max(s)}]>>]
    <3>1. Max(s) \in 1 .. n
      BY <1>6, <2>2
    <3>2. f[s] = LineStep(text[Max(s)], f[s \ {Max(s)}])
      BY <1>1, <1>8, <2>2
    <3> QED BY <1>3, <2>2, <3>1, <3>2
  <2>3. PICK base \in FlatRows : base = << <<>> >>
    BY <1>2
  <2>4. Unfolds(f, n, FlatRows, base, step)
    BY <2>1, <2>2, <2>3 DEF Unfolds
  <2>5. \E h \in [0 .. n -> FlatRows] : Goes(h, f, n, base, step)
    BY <1>1, <1>4, <2>3, <2>4, FoldRuns
  <2> QED BY <2>3, <2>5
<1>10. h[0] = << <<>> >> /\ Lines(text) = h[n]
  BY <1>1, <1>8, <1>9 DEF Goes
<1>11. ASSUME NEW k \in 0 .. n - 1 PROVE h[k + 1] = LineStep(text[k + 1], h[k])
  <2>1. k + 1 \in 1 .. n /\ h[k] \in FlatRows
    BY <1>9
  <2> QED BY <1>3, <1>9, <2>1 DEF Goes
<1> QED
  BY <1>1, <1>9, <1>10, <1>11 DEF Splits

\* The lines of a text are texts without newlines; the first begins as the text does.
LEMMA LinesAre ==
  ASSUME NEW text \in Texts
  PROVE  /\ Lines(text) \in FlatRows
         /\ text = <<>> => Lines(text) = << <<>> >>
         /\ text # <<>> /\ text[1] # NL => Lines(text)[1] # <<>> /\ Lines(text)[1][1] = text[1]
<1>1. PICK n \in Nat : n = Len(text) /\ DOMAIN text = 1 .. n /\ \A i \in 1 .. n : text[i] \in Characters
  BY DEF Texts
<1>9. PICK h \in [0 .. n -> FlatRows] : Splits(h, text)
  BY <1>1, LinesRun
<1>10. h[0] = << <<>> >> /\ Lines(text) = h[n]
  BY <1>1, <1>9 DEF Splits
<1>11. \A k \in 0 .. n - 1 : h[k + 1] = LineStep(text[k + 1], h[k])
  BY <1>1, <1>9 DEF Splits
<1>12. \A k \in 0 .. n : h[k] \in FlatRows
  BY <1>9
<1>13. ASSUME text # <<>>, text[1] # NL
       PROVE  h[n][1] # <<>> /\ h[n][1][1] = text[1]
  <2>1. PICK good : good = {k \in 0 .. n - 1 : h[k + 1][1] # <<>> /\ h[k + 1][1][1] = text[1]}
    OBVIOUS
  <2>2. n >= 1 /\ n - 1 \in Nat
    BY <1>1, <1>13 DEF Texts
  <2>3. 0 \in good
    <3>1. h[1] = LineStep(text[1], << <<>> >>)
      BY <1>10, <1>11, <2>2
    <3>2. LineStep(text[1], << <<>> >>) = << <<text[1]>> >>
      BY <1>13 DEF LineStep
    <3> QED BY <2>1, <2>2, <3>1, <3>2
  <2>4. ASSUME NEW k \in 0 .. (n - 1) - 1, k \in good PROVE k + 1 \in good
    <3>1. k + 1 \in 0 .. n - 1 /\ text[(k + 1) + 1] \in Characters /\ h[k + 1] \in FlatRows
      BY <1>1, <1>12
    <3>2. h[(k + 1) + 1] = LineStep(text[(k + 1) + 1], h[k + 1])
      BY <1>11, <3>1
    <3>3. h[k + 1][1] # <<>> /\ h[k + 1][1][1] = text[1]
      BY <2>1, <2>4
    <3>4. h[(k + 1) + 1][1] # <<>> /\ h[(k + 1) + 1][1][1] = text[1]
      BY <3>1, <3>2, <3>3, LineStepIs
    <3> QED BY <2>1, <3>1, <3>4
  <2>5. \A k \in 0 .. n - 1 : k \in good
    BY <2>2, <2>3, <2>4, UpTo
  <2>6. n - 1 \in good
    BY <2>2, <2>5
  <2> QED BY <2>1, <2>2, <2>6
<1>14. ASSUME text = <<>> PROVE h[n] = << <<>> >>
  BY <1>1, <1>10, <1>14
<1>15. h[n] \in FlatRows
  BY <1>12
<1> QED
  BY <1>10, <1>13, <1>14, <1>15
LineKept(lines, i, output) ==
  IF i \in KeptLines(lines) THEN output \o TrimEnd(lines[i]) \o <<NL>> ELSE output

\* No character, and a newline, are texts.
LEMMA NewlineIsText == <<>> \in Texts /\ <<NL>> \in Texts
<1>1. NL \in Characters
  BY DEF Characters
<1> QED
  BY <1>1 DEF Texts

\* No line ends in a space; and what is made of whole lines only.
Tidy(text) == \A i \in 1 .. Len(text) - 1 : text[i + 1] = NL => text[i] # Space
Neat == {text \in Texts : Tidy(text) /\ (text = <<>> \/ text[Len(text)] = NL)}

\* A beginning of a tidy text is tidy.
LEMMA TidyBeginning ==
  ASSUME NEW text \in Texts, Tidy(text), NEW k \in 0 .. Len(text)
  PROVE  Tidy(SubSeq(text, 1, k))
  BY DEF Tidy, Texts

\* A text that ends in no space and has no newline stays tidy with one.
LEMMA AddedLineIsNeat ==
  ASSUME NEW output \in Neat, NEW line \in Flat, line = <<>> \/ line[Len(line)] # Space
  PROVE  output \o line \o <<NL>> \in Neat
<1>1. PICK a \in Nat, b \in Nat : a = Len(output) /\ b = Len(line)
  BY DEF Neat, Texts, Flat
<1>2. PICK all : all = output \o line \o <<NL>>
  OBVIOUS
<1>3. output \in Seq(Characters) /\ line \in Seq(Characters) /\ NL \in Characters
  <2>1. NL \in Characters
    BY DEF Characters
  <2> QED BY <2>1 DEF Neat, Texts, Flat
<1>4. /\ all \in Seq(Characters) /\ Len(all) = a + b + 1 /\ all[a + b + 1] = NL
      /\ \A i \in 1 .. a : all[i] = output[i]
      /\ \A i \in a + 1 .. a + b : all[i] = line[i - a]
  BY <1>1, <1>2, <1>3
<1>5. ASSUME NEW i \in 1 .. a + b, all[i + 1] = NL PROVE all[i] # Space
  <2>1. CASE i + 1 <= a
    <3>1. i \in 1 .. Len(output) - 1 /\ output[i + 1] = NL /\ all[i] = output[i]
      BY <1>1, <1>4, <1>5, <2>1
    <3> QED BY <3>1 DEF Neat, Tidy
  <2>2. CASE i = a
    <3>1. output # <<>> /\ all[i] = output[Len(output)]
      BY <1>1, <1>4, <2>2
    <3> QED BY <3>1 DEF Neat, NL, Space
  <2>3. CASE i > a /\ i < a + b
    <3>1. all[i + 1] = line[i + 1 - a] /\ i + 1 - a \in 1 .. b
      BY <1>4, <2>3
    <3> QED BY <1>1, <1>5, <3>1 DEF Flat
  <2>4. CASE i > a /\ i = a + b
    <3>1. all[i] = line[b] /\ line # <<>>
      BY <1>1, <1>4, <2>4
    <3> QED BY <1>1, <3>1
  <2> QED BY <2>1, <2>2, <2>3, <2>4
<1>6. Tidy(all)
  BY <1>4, <1>5 DEF Tidy
<1> QED
  BY <1>2, <1>4, <1>6 DEF Neat, Texts

\* Kept lines are trimmed, so that what is kept is neat.
LEMMA LineKeptType ==
  ASSUME NEW lines \in FlatRows, NEW i \in 1 .. Len(lines), NEW output \in Neat
  PROVE  LineKept(lines, i, output) \in Neat
<1>1. lines[i] \in Flat /\ lines[i] \in Texts
  BY ElementOfSeq, FlatRowsAreRows DEF FlatRows, Rows
<1>2. PICK k \in 0 .. Len(lines[i]) :
        TrimEnd(lines[i]) = SubSeq(lines[i], 1, k) /\ (k = 0 \/ ~IsSpace(lines[i][k]))
  BY <1>1, TrimEndIs
<1>3. PICK line : line = TrimEnd(lines[i])
  OBVIOUS
<1>4. line \in Flat /\ (line = <<>> \/ line[Len(line)] # Space)
  BY <1>1, <1>2, <1>3 DEF Flat, IsSpace
<1>5. output \o line \o <<NL>> \in Neat
  BY <1>4, AddedLineIsNeat
<1> QED
  BY <1>3, <1>5 DEF LineKept

\* A text grows at its end only.
LEMMA GrowsAtEnd ==
  ASSUME NEW s \in Texts, NEW t \in Texts, s # <<>>
  PROVE  s \o t # <<>> /\ (s \o t)[1] = s[1]
  BY DEF Texts

\* Lines are kept, or not, from the first to the last.
Collapses(h, lines) ==
  /\ h[0] = <<>> /\ h[Len(lines)] = Collapsed(lines)
  /\ \A k \in 0 .. Len(lines) - 1 : h[k + 1] = LineKept(lines, k + 1, h[k])

\* The lines that are kept are put together one after the other.
LEMMA CollapsedRun ==
  ASSUME NEW lines \in FlatRows
  PROVE  \E h \in [0 .. Len(lines) -> Neat] : Collapses(h, lines)
<1>0. lines \in Rows
  BY FlatRowsAreRows
<1>1. PICK n \in Nat \ {0} : n = Len(lines) /\ DOMAIN lines = 1 .. n
  BY DEF FlatRows
<1>2. <<>> \in Neat /\ <<NL>> \in Texts
  BY NewlineIsText DEF Neat, Tidy
<1>3. PICK step : step = [d \in (1 .. n) \X Neat |-> LineKept(lines, d[1], d[2])]
  OBVIOUS
<1>4. IsStep(step, n, Neat)
  BY <1>1, <1>3, LineKeptType DEF IsStep
<1>5. PICK g \in [SUBSET (1 .. n) -> Neat] : Folds(g, n, <<>>, step)
  BY <1>1, <1>2, <1>4, FoldExists
<1>6. \A s \in SUBSET (1 .. n) : s # {} => Max(s) \in s
  BY <1>1, MaxOfPart
<1>7. \E f : f = [s \in SUBSET DOMAIN [i \in DOMAIN lines |-> i] |->
                  IF s = {} THEN <<>>
                  ELSE LineKept(lines, [i \in DOMAIN lines |-> i][Max(s)], f[s \ {Max(s)}])]
  <2>1. g = [s \in SUBSET DOMAIN [i \in DOMAIN lines |-> i] |->
               IF s = {} THEN <<>>
               ELSE LineKept(lines, [i \in DOMAIN lines |-> i][Max(s)], g[s \ {Max(s)}])]
    <3> SUFFICES ASSUME NEW s \in SUBSET (1 .. n)
                 PROVE  g[s] = IF s = {} THEN <<>>
                               ELSE LineKept(lines, [i \in DOMAIN lines |-> i][Max(s)], g[s \ {Max(s)}])
      BY <1>1, <1>5
    <3>1. CASE s = {}
      BY <1>5, <3>1 DEF Folds
    <3>2. CASE s # {}
      <4>1. g[s] = step[<<Max(s), g[s \ {Max(s)}]>>] /\ Max(s) \in 1 .. n /\ g[s \ {Max(s)}] \in Neat
        BY <1>5, <1>6, <3>2 DEF Folds
      <4>2. [i \in DOMAIN lines |-> i][Max(s)] = Max(s)
        BY <1>1, <4>1
      <4> QED BY <1>3, <3>2, <4>1, <4>2
    <3> QED BY <3>1, <3>2
  <2> QED BY <2>1
<1>8. PICK f : /\ f = [s \in SUBSET DOMAIN [i \in DOMAIN lines |-> i] |->
                       IF s = {} THEN <<>>
                       ELSE LineKept(lines, [i \in DOMAIN lines |-> i][Max(s)], f[s \ {Max(s)}])]
               /\ Collapsed(lines) = f[DOMAIN [i \in DOMAIN lines |-> i]]
  BY <1>7 DEF Collapsed, FoldLeftDomain, FoldLeft, MapThenFoldSet, LineKept
<1>9. PICK h \in [0 .. n -> Neat] : Goes(h, f, n, <<>>, step)
  <2>1. f[{}] = <<>>
    BY <1>8
  <2>2. ASSUME NEW s \in SUBSET (1 .. n), s # {}, f[s \ {Max(s)}] \in Neat
        PROVE  f[s] = step[<<Max(s), f[s \ {Max(s)}]>>]
    <3>1. Max(s) \in 1 .. n
      BY <1>6, <2>2
    <3>2. [i \in DOMAIN lines |-> i][Max(s)] = Max(s)
      BY <1>1, <3>1
    <3>3. f[s] = LineKept(lines, Max(s), f[s \ {Max(s)}])
      BY <1>1, <1>8, <2>2, <3>2
    <3> QED BY <1>3, <2>2, <3>1, <3>3
  <2>3. Unfolds(f, n, Neat, <<>>, step)
    BY <2>1, <2>2 DEF Unfolds
  <2> QED BY <1>1, <1>2, <1>4, <2>3, FoldRuns
<1>10. h[0] = <<>> /\ Collapsed(lines) = h[n]
  BY <1>1, <1>8, <1>9 DEF Goes
<1>11. ASSUME NEW k \in 0 .. n - 1 PROVE h[k + 1] = LineKept(lines, k + 1, h[k])
  <2>1. k + 1 \in 1 .. n /\ h[k] \in Neat
    BY <1>9
  <2> QED BY <1>3, <1>9, <2>1 DEF Goes
<1> QED
  BY <1>1, <1>9, <1>10, <1>11 DEF Collapses

\* The lines that are kept are a text, which begins as the first of them does, if
\* that begins with ink.
LEMMA CollapsedIs ==
  ASSUME NEW lines \in FlatRows
  PROVE  /\ Collapsed(lines) \in Neat
         /\ lines[1] # <<>> /\ ~IsSpace(lines[1][1]) =>
              Collapsed(lines) # <<>> /\ Collapsed(lines)[1] = lines[1][1]
         /\ lines = << <<>> >> => Collapsed(lines) = <<NL>>
<1>0. lines \in Rows
  BY FlatRowsAreRows
<1>1. PICK n \in Nat \ {0} : n = Len(lines) /\ DOMAIN lines = 1 .. n
  BY DEF FlatRows
<1>2. <<>> \in Neat /\ <<NL>> \in Texts
  BY NewlineIsText DEF Neat, Tidy
<1>9. PICK h \in [0 .. n -> Neat] : Collapses(h, lines)
  BY <1>1, CollapsedRun
<1>10. h[0] = <<>> /\ Collapsed(lines) = h[n]
  BY <1>1, <1>9 DEF Collapses
<1>11. \A k \in 0 .. n - 1 : h[k + 1] = LineKept(lines, k + 1, h[k])
  BY <1>1, <1>9 DEF Collapses
<1>12. \A k \in 0 .. n : h[k] \in Neat
  BY <1>9
<1>13. h[1] = TrimEnd(lines[1]) \o <<NL>>
  <2>1. h[1] = LineKept(lines, 1, <<>>)
    BY <1>10, <1>11
  <2>2. 1 \in KeptLines(lines)
    BY <1>1 DEF KeptLines
  <2>3. lines[1] \in Texts
    BY <1>1, <1>0, ElementOfSeq DEF Rows
  <2>4. <<>> \o TrimEnd(lines[1]) = TrimEnd(lines[1])
    BY <2>3, TrimEndType, ConcatEmptySeq DEF Texts
  <2> QED BY <2>1, <2>2, <2>4 DEF LineKept
<1>14. ASSUME lines[1] # <<>>, ~IsSpace(lines[1][1])
       PROVE  h[n] # <<>> /\ h[n][1] = lines[1][1]
  <2>1. PICK good : good = {k \in 0 .. n - 1 : h[k + 1] # <<>> /\ h[k + 1][1] = lines[1][1]}
    OBVIOUS
  <2>2. n - 1 \in Nat /\ lines[1] \in Texts
    BY <1>1, <1>0, ElementOfSeq DEF Rows
  <2>3. 0 \in good
    <3>1. TrimEnd(lines[1]) \in Texts /\ TrimEnd(lines[1]) # <<>> /\ TrimEnd(lines[1])[1] = lines[1][1]
      BY <1>14, <2>2, TrimEndStarts, TrimEndType
    <3>2. h[1] # <<>> /\ h[1][1] = lines[1][1]
      BY <1>2, <1>13, <3>1, GrowsAtEnd
    <3> QED BY <2>1, <2>2, <3>2
  <2>4. ASSUME NEW k \in 0 .. (n - 1) - 1, k \in good PROVE k + 1 \in good
    <3>1. k + 1 \in 0 .. n - 1 /\ (k + 1) + 1 \in 1 .. n /\ h[k + 1] \in Texts
      BY <1>12 DEF Neat
    <3>2. h[(k + 1) + 1] = LineKept(lines, (k + 1) + 1, h[k + 1])
      BY <1>11, <3>1
    <3>3. h[k + 1] # <<>> /\ h[k + 1][1] = lines[1][1]
      BY <2>1, <2>4
    <3>4. PICK line \in Texts : line = TrimEnd(lines[(k + 1) + 1])
      <4>1. lines[(k + 1) + 1] \in Texts
        BY <1>1, <3>1, <1>0, ElementOfSeq DEF Rows
      <4> QED BY <4>1, TrimEndType
    <3>5. /\ h[k + 1] \o line \in Texts /\ h[k + 1] \o line # <<>>
          /\ (h[k + 1] \o line)[1] = lines[1][1]
      BY <3>1, <3>3, GrowsAtEnd, ConcatProperties DEF Texts
    <3>6. h[k + 1] \o line \o <<NL>> # <<>> /\ (h[k + 1] \o line \o <<NL>>)[1] = lines[1][1]
      BY <1>2, <3>5, GrowsAtEnd
    <3>7. h[(k + 1) + 1] # <<>> /\ h[(k + 1) + 1][1] = lines[1][1]
      BY <3>2, <3>3, <3>4, <3>6 DEF LineKept
    <3> QED BY <2>1, <3>1, <3>7
  <2>5. \A k \in 0 .. n - 1 : k \in good
    BY <2>2, <2>3, <2>4, UpTo
  <2>6. n - 1 \in good
    BY <2>2, <2>5
  <2> QED BY <2>1, <2>2, <2>6
<1>15. ASSUME lines = << <<>> >> PROVE h[n] = <<NL>>
  <2>1. n = 1 /\ lines[1] = <<>>
    BY <1>1, <1>15
  <2>2. TrimEnd(<<>>) = <<>>
    BY DEF TrimEnd, Inked
  <2> QED BY <1>13, <2>1, <2>2
<1>16. h[n] \in Neat
  BY <1>12
<1> QED
  BY <1>10, <1>14, <1>15, <1>16
\* Text without its tags.
Stripping == [inside : BOOLEAN, out : Texts]
Stripped(acc, c) ==
  IF c = "<" THEN [acc EXCEPT !.inside = TRUE]
  ELSE IF c = ">" THEN [acc EXCEPT !.inside = FALSE]
  ELSE IF acc.inside THEN acc ELSE [acc EXCEPT !.out = Append(@, c)]

\* A character is kept or is part of a tag.
LEMMA StrippedType ==
  ASSUME NEW acc \in Stripping, NEW c \in Characters
  PROVE  Stripped(acc, c) \in Stripping
<1>1. Append(acc.out, c) \in Texts
  BY AppendProperties DEF Stripping, Texts
<1> QED
  BY <1>1 DEF Stripped, Stripping

\* Tags are left out from left to right.
Strips(h, text) ==
  /\ h[0] = [inside |-> FALSE, out |-> <<>>] /\ h[Len(text)].out = StripTags(text)
  /\ \A k \in 0 .. Len(text) - 1 : h[k + 1] = Stripped(h[k], text[k + 1])

\* A text is stripped one character after the other.
LEMMA StripRun ==
  ASSUME NEW text \in Texts
  PROVE  \E h \in [0 .. Len(text) -> Stripping] : Strips(h, text)
<1>1. PICK n \in Nat : n = Len(text) /\ DOMAIN text = 1 .. n /\ \A i \in 1 .. n : text[i] \in Characters
  BY DEF Texts
<1>2. PICK base \in Stripping : base = [inside |-> FALSE, out |-> <<>>]
  BY NewlineIsText DEF Stripping
<1>3. PICK step : step = [d \in (1 .. n) \X Stripping |-> Stripped(d[2], text[d[1]])]
  OBVIOUS
<1>4. IsStep(step, n, Stripping)
  BY <1>1, <1>3, StrippedType DEF IsStep
<1>5. PICK g \in [SUBSET (1 .. n) -> Stripping] : Folds(g, n, base, step)
  BY <1>1, <1>2, <1>4, FoldExists
<1>6. \A s \in SUBSET (1 .. n) : s # {} => Max(s) \in s
  BY <1>1, MaxOfPart
<1>7. \E f : f = [s \in SUBSET DOMAIN text |->
                  IF s = {} THEN [inside |-> FALSE, out |-> <<>>] ELSE Stripped(f[s \ {Max(s)}], text[Max(s)])]
  <2>1. g = [s \in SUBSET DOMAIN text |->
               IF s = {} THEN [inside |-> FALSE, out |-> <<>>] ELSE Stripped(g[s \ {Max(s)}], text[Max(s)])]
    <3> SUFFICES ASSUME NEW s \in SUBSET (1 .. n)
                 PROVE  g[s] = IF s = {} THEN base ELSE Stripped(g[s \ {Max(s)}], text[Max(s)])
      BY <1>1, <1>2, <1>5
    <3>1. CASE s = {}
      BY <1>5, <3>1 DEF Folds
    <3>2. CASE s # {}
      <4>1. g[s] = step[<<Max(s), g[s \ {Max(s)}]>>] /\ Max(s) \in 1 .. n /\ g[s \ {Max(s)}] \in Stripping
        BY <1>5, <1>6, <3>2 DEF Folds
      <4> QED BY <1>3, <3>2, <4>1
    <3> QED BY <3>1, <3>2
  <2> QED BY <2>1
<1>8. PICK f : /\ f = [s \in SUBSET DOMAIN text |->
                       IF s = {} THEN [inside |-> FALSE, out |-> <<>>]
                       ELSE Stripped(f[s \ {Max(s)}], text[Max(s)])]
               /\ StripTags(text) = f[DOMAIN text].out
  BY <1>7 DEF StripTags, FoldLeft, MapThenFoldSet, Stripped
<1>9. PICK h \in [0 .. n -> Stripping] : Goes(h, f, n, base, step)
  <2>1. f[{}] = base
    BY <1>2, <1>8
  <2>2. ASSUME NEW s \in SUBSET (1 .. n), s # {}, f[s \ {Max(s)}] \in Stripping
        PROVE  f[s] = step[<<Max(s), f[s \ {Max(s)}]>>]
    <3>1. Max(s) \in 1 .. n
      BY <1>6, <2>2
    <3>2. f[s] = Stripped(f[s \ {Max(s)}], text[Max(s)])
      BY <1>1, <1>8, <2>2
    <3> QED BY <1>3, <2>2, <3>1, <3>2
  <2>3. Unfolds(f, n, Stripping, base, step)
    BY <2>1, <2>2 DEF Unfolds
  <2> QED BY <1>1, <1>2, <1>4, <2>3, FoldRuns
<1>10. h[0] = base /\ h[n] = f[DOMAIN text]
  BY <1>1, <1>9 DEF Goes
<1>11. ASSUME NEW k \in 0 .. n - 1 PROVE h[k + 1] = Stripped(h[k], text[k + 1])
  <2>1. k + 1 \in 1 .. n /\ h[k] \in Stripping
    BY <1>9
  <2> QED BY <1>3, <1>9, <2>1 DEF Goes
<1> QED
  BY <1>1, <1>2, <1>8, <1>9, <1>10, <1>11 DEF Strips

\* Without its tags a text is still a text.
LEMMA StripTagsType ==
  ASSUME NEW text \in Texts
  PROVE  StripTags(text) \in Texts
<1>1. PICK n \in Nat : n = Len(text)
  BY DEF Texts
<1>2. PICK h \in [0 .. n -> Stripping] : Strips(h, text)
  BY <1>1, StripRun
<1>3. h[n] \in Stripping /\ StripTags(text) = h[n].out
  BY <1>1, <1>2 DEF Strips
<1> QED
  BY <1>3 DEF Stripping

\* Lines are put together from the first to the last.
Joins(h, lines) ==
  /\ h[0] = <<>> /\ h[Len(lines)] = Unlines(lines)
  /\ \A k \in 0 .. Len(lines) - 1 : h[k + 1] = h[k] \o lines[k + 1] \o <<NL>>

\* Lines are put together one after the other.
LEMMA UnlinesRun ==
  ASSUME NEW lines \in Seq(Texts)
  PROVE  \E h \in [0 .. Len(lines) -> Texts] : Joins(h, lines)
<1>1. PICK n \in Nat : n = Len(lines) /\ DOMAIN lines = 1 .. n
  OBVIOUS
<1>2. <<>> \in Texts /\ <<NL>> \in Texts
  BY NewlineIsText
<1>3. PICK step : step = [d \in (1 .. n) \X Texts |-> d[2] \o lines[d[1]] \o <<NL>>]
  OBVIOUS
<1>4. IsStep(step, n, Texts)
  <2>1. ASSUME NEW i \in 1 .. n, NEW text \in Texts PROVE text \o lines[i] \o <<NL>> \in Texts
    <3>1. lines[i] \in Texts
      BY <1>1, ElementOfSeq
    <3>2. text \o lines[i] \in Texts
      BY <3>1, ConcatProperties DEF Texts
    <3> QED BY <1>2, <3>2, ConcatProperties DEF Texts
  <2> QED BY <1>3, <2>1 DEF IsStep
<1>5. PICK g \in [SUBSET (1 .. n) -> Texts] : Folds(g, n, <<>>, step)
  BY <1>1, <1>2, <1>4, FoldExists
<1>6. \A s \in SUBSET (1 .. n) : s # {} => Max(s) \in s
  BY <1>1, MaxOfPart
<1>7. \E f : f = [s \in SUBSET DOMAIN lines |->
                  IF s = {} THEN <<>> ELSE f[s \ {Max(s)}] \o lines[Max(s)] \o <<NL>>]
  <2>1. g = [s \in SUBSET DOMAIN lines |->
               IF s = {} THEN <<>> ELSE g[s \ {Max(s)}] \o lines[Max(s)] \o <<NL>>]
    <3> SUFFICES ASSUME NEW s \in SUBSET (1 .. n)
                 PROVE  g[s] = IF s = {} THEN <<>> ELSE g[s \ {Max(s)}] \o lines[Max(s)] \o <<NL>>
      BY <1>1, <1>5
    <3>1. CASE s = {}
      BY <1>5, <3>1 DEF Folds
    <3>2. CASE s # {}
      <4>1. g[s] = step[<<Max(s), g[s \ {Max(s)}]>>] /\ Max(s) \in 1 .. n /\ g[s \ {Max(s)}] \in Texts
        BY <1>5, <1>6, <3>2 DEF Folds
      <4> QED BY <1>3, <3>2, <4>1
    <3> QED BY <3>1, <3>2
  <2> QED BY <2>1
<1>8. PICK f : /\ f = [s \in SUBSET DOMAIN lines |->
                       IF s = {} THEN <<>> ELSE f[s \ {Max(s)}] \o lines[Max(s)] \o <<NL>>]
               /\ Unlines(lines) = f[DOMAIN lines]
  BY <1>7 DEF Unlines, FoldLeft, MapThenFoldSet
<1>9. PICK h \in [0 .. n -> Texts] : Goes(h, f, n, <<>>, step)
  <2>1. f[{}] = <<>>
    BY <1>8
  <2>2. ASSUME NEW s \in SUBSET (1 .. n), s # {}, f[s \ {Max(s)}] \in Texts
        PROVE  f[s] = step[<<Max(s), f[s \ {Max(s)}]>>]
    <3>1. Max(s) \in 1 .. n
      BY <1>6, <2>2
    <3>2. f[s] = f[s \ {Max(s)}] \o lines[Max(s)] \o <<NL>>
      BY <1>1, <1>8, <2>2
    <3> QED BY <1>3, <2>2, <3>1, <3>2
  <2>3. Unfolds(f, n, Texts, <<>>, step)
    BY <2>1, <2>2 DEF Unfolds
  <2> QED BY <1>1, <1>2, <1>4, <2>3, FoldRuns
<1>10. h[0] = <<>> /\ h[n] = Unlines(lines)
  BY <1>1, <1>8, <1>9 DEF Goes
<1>11. ASSUME NEW k \in 0 .. n - 1 PROVE h[k + 1] = h[k] \o lines[k + 1] \o <<NL>>
  <2>1. k + 1 \in 1 .. n /\ h[k] \in Texts
    BY <1>9
  <2> QED BY <1>3, <1>9, <2>1 DEF Goes
<1> QED
  BY <1>1, <1>9, <1>10, <1>11 DEF Joins

\* Lines put together again are a text.
LEMMA UnlinesType ==
  ASSUME NEW lines \in Seq(Texts)
  PROVE  Unlines(lines) \in Texts
<1>1. PICK n \in Nat : n = Len(lines)
  OBVIOUS
<1>2. PICK h \in [0 .. n -> Texts] : Joins(h, lines)
  BY <1>1, UnlinesRun
<1> QED
  BY <1>1, <1>2 DEF Joins

\* The first of a set of places is one of them, with none before it, or 0.
LEMMA FirstIs ==
  ASSUME NEW S \in SUBSET Nat
  PROVE  /\ First(S) = 0 \/ First(S) \in S
         /\ \A k \in S : First(S) <= k
         /\ First(S) = 0 /\ 0 \notin S => S = {}
  BY MinIs DEF First

\* A link lies within its line, after the place it was looked for.
LEMMA LinkWithin ==
  ASSUME NEW S0, NEW line \in Seq(S0), NEW i \in 1 .. Len(line) + 1, Close(line, i) # 0
  PROVE  /\ Open(line, i) \in i .. Len(line)
         /\ Separator(line, i) \in Open(line, i) .. Len(line) - 1
         /\ Close(line, i) \in Separator(line, i) + 2 .. Len(line)
         /\ \A k \in i .. Open(line, i) - 1 : line[k] # "["
         /\ \A k \in Open(line, i) .. Separator(line, i) - 1 : line[k] = "]" => line[k + 1] # "("
         /\ line[Open(line, i)] = "[" /\ line[Separator(line, i)] = "]"
         /\ line[Separator(line, i) + 1] = "(" /\ line[Close(line, i)] = ")"
<1>0. Len(line) \in Nat
  OBVIOUS
<1>1. Separator(line, i) # 0 /\ Open(line, i) # 0
  BY DEF Close, Separator
<1>2. /\ Open(line, i) \in i .. Len(line) /\ line[Open(line, i)] = "["
      /\ \A k \in i .. Open(line, i) - 1 : line[k] # "["
  <2>1. PICK S : S = {k \in i .. Len(line) : line[k] = "["}
    OBVIOUS
  <2>2. S \in SUBSET Nat
    BY <1>0, <2>1
  <2>3. PICK o : o = Open(line, i)
    OBVIOUS
  <2>4. o \in S /\ \A k \in S : o <= k
    BY <1>1, <2>1, <2>2, <2>3, FirstIs DEF Open
  <2> QED BY <1>0, <2>1, <2>3, <2>4
<1>3. /\ Separator(line, i) \in Open(line, i) .. Len(line) - 1
      /\ line[Separator(line, i)] = "]" /\ line[Separator(line, i) + 1] = "("
      /\ \A k \in Open(line, i) .. Separator(line, i) - 1 : line[k] = "]" => line[k + 1] # "("
  <2>1. PICK S : S = {k \in Open(line, i) .. Len(line) - 1 : line[k] = "]" /\ line[k + 1] = "("}
    OBVIOUS
  <2>2. S \in SUBSET Nat
    BY <1>0, <1>2, <2>1
  <2>3. PICK s : s = Separator(line, i)
    OBVIOUS
  <2>4. s \in S /\ \A k \in S : s <= k
    BY <1>1, <2>1, <2>2, <2>3, FirstIs DEF Separator
  <2>5. s \in Open(line, i) .. Len(line) - 1 /\ line[s] = "]" /\ line[s + 1] = "("
    BY <2>1, <2>4
  <2>6. ASSUME NEW k \in Open(line, i) .. s - 1, line[k] = "]", line[k + 1] = "(" PROVE FALSE
    <3>1. k \in Open(line, i) .. Len(line) - 1 /\ ~(s <= k)
      BY <1>0, <1>2, <2>5
    <3> QED BY <2>1, <2>4, <2>6, <3>1
  <2> QED BY <2>3, <2>5, <2>6
<1>4. Close(line, i) \in Separator(line, i) + 2 .. Len(line) /\ line[Close(line, i)] = ")"
  <2>1. PICK from \in Nat : from = Separator(line, i) + 2
    BY <1>0, <1>2, <1>3
  <2>2. PICK S : S = {k \in from .. Len(line) :
                        line[k] = ")" /\ Count(line, ")", from, k) = 1 + Count(line, "(", from, k)}
    OBVIOUS
  <2>3. S \in SUBSET Nat
    BY <1>0, <2>1, <2>2
  <2>4. Close(line, i) = First(S)
    BY <1>1, <2>1, <2>2 DEF Close, DestinationEnd
  <2>5. First(S) \in S
    BY <2>3, <2>4, FirstIs
  <2> QED BY <2>1, <2>2, <2>4, <2>5
<1> QED
  BY <1>2, <1>3, <1>4

\* A part of a list is one of the same things.
LEMMA PartType ==
  ASSUME NEW S, NEW list \in Seq(S), NEW a \in Nat \ {0}, NEW b \in 0 .. Len(list)
  PROVE  SubSeq(list, a, b) \in Seq(S)
<1>1. \A i \in a .. b : list[i] \in S
  OBVIOUS
<1>2. a \in Int /\ b \in Int
  OBVIOUS
<1> QED
  BY <1>1, <1>2, SubSeqProperties

\* What is left of a line before a link, of the link, and of a line without one.
Before(line, i) ==
  SubSeq(line, i, Open(line, i) - 1) \o Link(line, Open(line, i), Separator(line, i), Close(line, i))

\* What is kept of a line up to the end of a link has no other characters.
LEMMA BeforeType ==
  ASSUME NEW S, NEW line \in Seq(S), NEW i \in 1 .. Len(line) + 1, Close(line, i) # 0
  PROVE  /\ Before(line, i) \in Seq(S)
         /\ SubSeq(line, i, Open(line, i) - 1) \in Seq(S)
         /\ Link(line, Open(line, i), Separator(line, i), Close(line, i)) \in Seq(S)
<1>1. PICK o, s, c : o = Open(line, i) /\ s = Separator(line, i) /\ c = Close(line, i)
  OBVIOUS
<1>2. Len(line) \in Nat /\ o \in i .. Len(line) /\ s \in o .. Len(line) - 1 /\ c \in s + 2 .. Len(line)
  BY <1>1, LinkWithin
<1>3. o - 1 \in 0 .. Len(line) /\ i \in Nat \ {0} /\ o \in Nat \ {0} /\ o + 1 \in Nat \ {0} /\ s - 1 \in 0 .. Len(line)
      /\ c \in 0 .. Len(line)
  BY <1>2
<1>4. SubSeq(line, i, o - 1) \in Seq(S) /\ SubSeq(line, o, c) \in Seq(S) /\ SubSeq(line, o + 1, s - 1) \in Seq(S)
  BY <1>3, PartType
<1>5. Link(line, o, s, c) \in Seq(S)
  BY <1>4 DEF Link
<1> QED
  BY <1>1, <1>4, <1>5, ConcatProperties DEF Before

\* What holds where no link follows, and where it holds after the next link, holds at
\* every place of a line.
LEMMA FromTheEnd ==
  ASSUME NEW S0, NEW line \in Seq(S0), NEW good,
         \A i \in 1 .. Len(line) + 1 : (Close(line, i) # 0 => Close(line, i) + 1 \in good) => i \in good
  PROVE  \A i \in 1 .. Len(line) + 1 : i \in good
<1>1. PICK n \in Nat : n = Len(line)
  OBVIOUS
<1>2. PICK ends : ends = {k \in 0 .. n : \A i \in n + 1 - k .. n + 1 : i \in good}
  OBVIOUS
<1>3. ASSUME NEW i \in 1 .. n + 1, Close(line, i) # 0
      PROVE  Close(line, i) + 1 \in 1 .. n + 1 /\ Close(line, i) + 1 > i
  BY <1>1, <1>3, LinkWithin
<1>4. 0 \in ends
  <2>1. n + 1 \in 1 .. n + 1 /\ ~(Close(line, n + 1) # 0)
    <3>1. n + 1 \in 1 .. n + 1
      OBVIOUS
    <3> QED BY <1>3, <3>1
  <2>2. n + 1 \in good
    BY <1>1, <2>1
  <2> QED BY <1>2, <2>2
<1>5. ASSUME NEW k \in 0 .. n - 1, k \in ends PROVE k + 1 \in ends
  <2>1. \A i \in n + 1 - k .. n + 1 : i \in good
    BY <1>2, <1>5
  <2>2. PICK j \in 1 .. n + 1 : j = n - k
    OBVIOUS
  <2>3. Close(line, j) # 0 => Close(line, j) + 1 \in good
    <3> SUFFICES ASSUME Close(line, j) # 0 PROVE Close(line, j) + 1 \in good
      OBVIOUS
    <3>1. Close(line, j) + 1 \in n + 1 - k .. n + 1
      BY <1>3, <2>2
    <3> QED BY <2>1, <3>1
  <2>4. j \in good
    BY <1>1, <2>3
  <2>5. \A i \in n + 1 - (k + 1) .. n + 1 : i = j \/ i \in n + 1 - k .. n + 1
    BY <2>2
  <2>6. k + 1 \in 0 .. n
    OBVIOUS
  <2> QED BY <1>2, <2>1, <2>4, <2>5, <2>6
<1>6. \A k \in 0 .. n : k \in ends
  BY <1>4, <1>5, UpTo
<1>7. n \in ends
  BY <1>6
<1> QED
  BY <1>1, <1>2, <1>7

\* A line without its links is made from left to right.
Rewrites(rest, line) ==
  /\ rest[1] = RewriteLine(line)
  /\ \A i \in 1 .. Len(line) + 1 :
       rest[i] = IF Close(line, i) = 0 THEN SubSeq(line, i, Len(line))
                 ELSE Before(line, i) \o rest[Close(line, i) + 1]

\* It can be, and has no other characters.
LEMMA RewriteRun ==
  ASSUME NEW S, NEW line \in Seq(S)
  PROVE  \E rest : Rewrites(rest, line) /\ \A i \in 1 .. Len(line) + 1 : rest[i] \in Seq(S)
<1>1. PICK n \in Nat : n = Len(line)
  OBVIOUS
<1>2. PICK D : D = 1 .. n + 1
  OBVIOUS
<1>3. PICK rank : rank = [i \in D |-> n + 1 - i]
  OBVIOUS
<1>4. PICK last : last = {i \in D : Close(line, i) = 0}
  OBVIOUS
<1>5. PICK base : base = [i \in D |-> SubSeq(line, i, n)]
  OBVIOUS
<1>6. PICK before : before = [i \in D |-> IF Close(line, i) = 0 THEN i ELSE Close(line, i) + 1]
  OBVIOUS
<1>7. PICK step : step = [d \in D \X Seq(S) |-> IF Close(line, d[1]) = 0 THEN <<>> ELSE Before(line, d[1]) \o d[2]]
  OBVIOUS
<1>8. ASSUME NEW i \in D, Close(line, i) # 0
      PROVE  Close(line, i) + 1 \in D /\ Close(line, i) >= i /\ Close(line, i) + 1 > i
  BY <1>1, <1>2, <1>8, LinkWithin
<1>9. base \in [D -> Seq(S)]
  <2>1. ASSUME NEW i \in D PROVE SubSeq(line, i, n) \in Seq(S)
    <3>1. i \in Nat \ {0} /\ n \in 0 .. Len(line)
      BY <1>1, <1>2
    <3> QED BY <3>1, PartType
  <2> QED BY <1>5, <2>1
<1>10. before \in [D -> D]
  BY <1>6, <1>8
<1>11. step \in [D \X Seq(S) -> Seq(S)]
  <2>1. ASSUME NEW i \in D, NEW v \in Seq(S), Close(line, i) # 0 PROVE Before(line, i) \o v \in Seq(S)
    <3>1. Before(line, i) \in Seq(S)
      BY <1>1, <1>2, <2>1, BeforeType
    <3> QED BY <3>1, ConcatProperties
  <2> QED BY <1>7, <2>1
<1>12. Descends(rank, n, D, last, before)
  <2>1. ASSUME NEW i \in D PROVE rank[i] = n + 1 - i /\ i \in 1 .. n + 1
    BY <1>2, <1>3
  <2>2. ASSUME NEW i \in D \ last PROVE rank[before[i]] < rank[i]
    <3>1. before[i] = Close(line, i) + 1 /\ before[i] \in D /\ before[i] > i
      BY <1>4, <1>6, <1>8
    <3> QED BY <2>1, <3>1
  <2> QED BY <2>1, <2>2 DEF Descends
<1>13. PICK g \in [D -> Seq(S)] : Solves(g, D, last, base, before, step)
  BY <1>1, <1>9, <1>10, <1>11, <1>12, Recursion
<1>14. \E rest : rest = [i \in 1 .. Len(line) + 1 |->
         IF Close(line, i) = 0 THEN SubSeq(line, i, Len(line)) ELSE Before(line, i) \o rest[Close(line, i) + 1]]
  <2>1. ASSUME NEW i \in D
        PROVE  g[i] = IF Close(line, i) = 0 THEN SubSeq(line, i, n) ELSE Before(line, i) \o g[Close(line, i) + 1]
    <3>1. CASE Close(line, i) = 0
      BY <1>4, <1>5, <1>13, <3>1 DEF Solves
    <3>2. CASE Close(line, i) # 0
      <4>1. g[i] = step[<<i, g[before[i]]>>] /\ before[i] = Close(line, i) + 1 /\ g[before[i]] \in Seq(S)
        BY <1>4, <1>6, <1>8, <1>13, <3>2 DEF Solves
      <4> QED BY <1>7, <3>2, <4>1
    <3> QED BY <3>1, <3>2
  <2>2. g = [i \in 1 .. Len(line) + 1 |->
         IF Close(line, i) = 0 THEN SubSeq(line, i, Len(line)) ELSE Before(line, i) \o g[Close(line, i) + 1]]
    BY <1>1, <1>2, <1>13, <2>1
  <2> QED BY <2>2
<1>15. PICK rest : /\ rest = [i \in 1 .. Len(line) + 1 |->
                      IF Close(line, i) = 0 THEN SubSeq(line, i, Len(line)) ELSE Before(line, i) \o rest[Close(line, i) + 1]]
                   /\ RewriteLine(line) = rest[1]
  BY <1>14 DEF RewriteLine, Before
<1>16. \A i \in D : rest[i] = IF Close(line, i) = 0 THEN SubSeq(line, i, n) ELSE Before(line, i) \o rest[Close(line, i) + 1]
  BY <1>1, <1>2, <1>15
<1>17. ASSUME NEW i \in D, Close(line, i) # 0 => rest[Close(line, i) + 1] \in Seq(S) PROVE rest[i] \in Seq(S)
  <2>1. CASE Close(line, i) = 0
    BY <1>5, <1>9, <1>16, <2>1
  <2>2. CASE Close(line, i) # 0
    <3>1. Before(line, i) \in Seq(S)
      BY <1>1, <1>2, <2>2, BeforeType
    <3> QED BY <1>16, <1>17, <2>2, <3>1, ConcatProperties
  <2> QED BY <2>1, <2>2
<1>18. PICK good : good = {i \in D : rest[i] \in Seq(S)}
  OBVIOUS
<1>19. ASSUME NEW i \in D, Close(line, i) # 0 => Close(line, i) + 1 \in good PROVE i \in good
  BY <1>17, <1>18, <1>19
<1>20. \A i \in D : i \in good
  BY <1>1, <1>2, <1>19, FromTheEnd
<1>21. Rewrites(rest, line)
  BY <1>1, <1>2, <1>15, <1>16 DEF Rewrites
<1> QED
  BY <1>1, <1>2, <1>18, <1>20, <1>21

\* A line without its links has no other characters.
LEMMA RewriteLineType ==
  ASSUME NEW S, NEW line \in Seq(S)
  PROVE  RewriteLine(line) \in Seq(S)
<1>1. PICK rest : Rewrites(rest, line) /\ \A i \in 1 .. Len(line) + 1 : rest[i] \in Seq(S)
  BY RewriteRun
<1>2. 1 \in 1 .. Len(line) + 1
  OBVIOUS
<1> QED
  BY <1>1, <1>2 DEF Rewrites

\* Links rewritten, a text is still a text.
LEMMA RewriteType ==
  ASSUME NEW text \in Texts
  PROVE  Rewrite(text) \in Texts
<1>1. PICK lines \in Rows : lines = Lines(text)
  BY LinesAre, FlatRowsAreRows
<1>2. PICK new : new = [i \in DOMAIN lines |-> IF InFence(lines, i) THEN lines[i] ELSE RewriteLine(lines[i])]
  OBVIOUS
<1>3. PICK n \in Nat \ {0} : n = Len(lines) /\ DOMAIN lines = 1 .. n
  BY DEF Rows
<1>4. ASSUME NEW i \in 1 .. n PROVE new[i] \in Texts
  <2>1. lines[i] \in Texts
    BY <1>3, ElementOfSeq DEF Rows
  <2>2. RewriteLine(lines[i]) \in Texts
    BY <2>1, RewriteLineType DEF Texts
  <2> QED BY <1>2, <1>3, <2>1, <2>2
<1>5. new \in Rows
  <2>1. new \in [1 .. n -> Texts]
    BY <1>2, <1>3, <1>4
  <2> QED BY <1>3, <2>1 DEF Rows
<1>6. Unlines(new) \in Texts
  BY <1>5, UnlinesType DEF Rows
<1> QED
  BY <1>1, <1>2, <1>6, TrimEndType DEF Rewrite

\* A document: it is empty or begins with ink, and no line of it ends in a space.
Documents == {text \in Texts : Tidy(text) /\ (text # <<>> => ~IsSpace(text[1]))}

\* Polishing a text makes a document: whatever was removed from it, neither a blank
\* line nor a space is left before it.
LEMMA PolishIs ==
  ASSUME NEW text \in Texts
  PROVE  Polish(text) \in Documents
<1>1. PICK trimmed \in Texts : trimmed = Trim(Rewrite(text)) /\ (trimmed # <<>> => ~IsSpace(trimmed[1]))
  BY RewriteType, TrimIs
<1>2. PICK lines \in FlatRows :
        /\ lines = Lines(trimmed)
        /\ trimmed = <<>> => lines = << <<>> >>
        /\ trimmed # <<>> /\ trimmed[1] # NL => lines[1] # <<>> /\ lines[1][1] = trimmed[1]
  BY LinesAre
<1>3. PICK output \in Neat :
        /\ output = Collapsed(lines)
        /\ lines[1] # <<>> /\ ~IsSpace(lines[1][1]) => output # <<>> /\ output[1] = lines[1][1]
        /\ lines = << <<>> >> => output = <<NL>>
  BY CollapsedIs
<1>4. output \in Texts /\ Tidy(output)
  BY DEF Neat
<1>5. Polish(text) = TrimEnd(output)
  BY <1>1, <1>2, <1>3 DEF Polish, Collapse
<1>6. TrimEnd(output) \in Texts /\ Tidy(TrimEnd(output))
  <2>1. PICK k \in 0 .. Len(output) : TrimEnd(output) = SubSeq(output, 1, k)
    BY <1>4, TrimEndIs
  <2> QED BY <1>4, <2>1, TrimEndType, TidyBeginning
<1>7. CASE trimmed = <<>>
  <2>1. output = <<NL>>
    BY <1>2, <1>3, <1>7
  <2>2. Inked(<<NL>>) = {}
    BY DEF Inked, IsSpace
  <2>3. TrimEnd(output) = <<>>
    BY <2>1, <2>2 DEF TrimEnd
  <2> QED BY <1>5, <1>6, <2>3 DEF Documents
<1>8. CASE trimmed # <<>>
  <2>1. ~IsSpace(trimmed[1]) /\ trimmed[1] # NL
    BY <1>1, <1>8 DEF IsSpace
  <2>2. output # <<>> /\ output[1] = trimmed[1]
    BY <1>2, <1>3, <1>8, <2>1
  <2>3. TrimEnd(output)[1] = trimmed[1]
    BY <1>4, <2>1, <2>2, TrimEndStarts
  <2> QED BY <1>5, <1>6, <2>1, <2>3 DEF Documents
<1> QED
  BY <1>7, <1>8

\* The Markdown of a page is a document.
LEMMA ToMarkdownIs ==
  ASSUME NEW p \in PageType
  PROVE  ToMarkdown(p) \in Documents
  BY StripTagsType, PolishIs DEF ToMarkdown, PageType

-----------------------------------------------------------------------------
(* What is shown of a document. *)

\* A text has some number of bytes.
LEMMA BytesIs ==
  ASSUME NEW text \in Texts
  PROVE  IsFiniteSet(Wide(text)) /\ Cardinality(Wide(text)) \in Nat /\ Bytes(text) \in Nat
<1>1. PICK D : D = 1 .. Len(text) /\ D = DOMAIN text
  BY DEF Texts
<1>2. IsFiniteSet(D)
  <2>1. 1 \in Int /\ Len(text) \in Int
    BY DEF Texts
  <2> QED BY <1>1, <2>1, FS_Interval
<1>3. Wide(text) \in SUBSET D
  BY <1>1 DEF Wide
<1>4. IsFiniteSet(Wide(text))
  BY <1>2, <1>3, FS_Subset
<1>5. Cardinality(Wide(text)) \in Nat
  BY <1>4, FS_CardinalityType
<1> QED
  BY <1>4, <1>5 DEF Bytes, Texts

\* What the beginning of a text consists of.
LEMMA BeginningIs ==
  ASSUME NEW text \in Texts, NEW k \in 0 .. Len(text)
  PROVE  /\ SubSeq(text, 1, k) \in Texts /\ Len(SubSeq(text, 1, k)) = k
         /\ \A i \in 1 .. k : SubSeq(text, 1, k)[i] = text[i]
<1>1. Len(text) \in Nat /\ k \in Int /\ 1 \in Int /\ \A i \in 1 .. k : text[i] \in Characters
  BY DEF Texts
<1> QED
  BY <1>1, SubSeqProperties DEF Texts

\* A longer beginning has more bytes.
LEMMA BytesGrow ==
  ASSUME NEW text \in Texts, NEW k \in 0 .. Len(text), NEW j \in 0 .. Len(text), j < k
  PROVE  Bytes(SubSeq(text, 1, j)) < Bytes(SubSeq(text, 1, k))
<1>1. PICK a \in Texts, b \in Texts :
        /\ a = SubSeq(text, 1, j) /\ Len(a) = j /\ \A i \in 1 .. j : a[i] = text[i]
        /\ b = SubSeq(text, 1, k) /\ Len(b) = k /\ \A i \in 1 .. k : b[i] = text[i]
  BY BeginningIs
<1>2. DOMAIN a = 1 .. j /\ DOMAIN b = 1 .. k /\ j \in Nat /\ k \in Nat
  BY <1>1 DEF Texts
<1>3. Wide(a) \in SUBSET Wide(b)
  BY <1>1, <1>2 DEF Wide
<1>4. Cardinality(Wide(a)) <= Cardinality(Wide(b))
  BY <1>3, BytesIs, FS_Subset
<1>5. Cardinality(Wide(a)) \in Nat /\ Cardinality(Wide(b)) \in Nat
  BY BytesIs
<1> QED
  BY <1>1, <1>2, <1>4, <1>5 DEF Bytes

\* A cut at the end of a character is a beginning, and no panic.
LEMMA SliceIs ==
  ASSUME NEW text \in Texts, NEW k \in 0 .. Len(text)
  PROVE  Slice(text, Bytes(SubSeq(text, 1, k))) = SubSeq(text, 1, k)
<1>1. PICK cuts : cuts = {j \in 0 .. Len(text) : Bytes(SubSeq(text, 1, j)) = Bytes(SubSeq(text, 1, k))}
  OBVIOUS
<1>2. \A j \in 0 .. Len(text) : Bytes(SubSeq(text, 1, j)) \in Nat
  BY BeginningIs, BytesIs
<1>3. \A j \in 0 .. Len(text) : j \in Nat
  BY DEF Texts
<1>4. \A j \in cuts : ~(j < k) /\ ~(k < j)
  BY <1>1, <1>2, BytesGrow
<1>5. cuts = {k}
  BY <1>1, <1>3, <1>4
<1>6. cuts # {} /\ cuts \in SUBSET Nat
  BY <1>3, <1>5
<1>7. Min(cuts) = k
  BY <1>5, <1>6, MinIs
<1> QED
  BY <1>1, <1>6, <1>7 DEF Slice

\* Where a text that is too long is cut.
CutAt(text, chars) ==
  LET whole == {i \in LineEnds(text) : i <= chars}
  IN IF whole # {} THEN Max(whole) ELSE Min({chars, Len(text)})

\* It is cut between two characters, at the last line end the budget has room for, or
\* inside the first line.
LEMMA CutIs ==
  ASSUME NEW text \in Texts, NEW chars \in Nat \ {0}, Len(text) > chars
  PROVE  /\ CutAt(text, chars) \in 1 .. chars
         /\ Truncate(text, chars) = TrimEnd(SubSeq(text, 1, CutAt(text, chars))) \o Marker
         /\ \/ text[CutAt(text, chars)] = NL
            \/ \A i \in 1 .. chars : text[i] # NL
         /\ \A i \in LineEnds(text) : i <= chars => i <= CutAt(text, chars)
<1>1. PICK whole : whole = {i \in LineEnds(text) : i <= chars}
  OBVIOUS
<1>2. PICK n \in Nat : n = Len(text) /\ DOMAIN text = 1 .. n /\ chars < n
  BY DEF Texts
<1>3. /\ whole \in SUBSET (0 .. chars)
      /\ \A i \in whole : i \in 1 .. chars /\ text[i] = NL
      /\ \A i \in 1 .. chars : text[i] = NL => i \in whole
      /\ \A i \in LineEnds(text) : i <= chars => i \in whole
  BY <1>1, <1>2 DEF LineEnds
<1>4. PICK k : k = CutAt(text, chars)
  OBVIOUS
<1>5. /\ k \in 1 .. chars
      /\ text[k] = NL \/ \A i \in 1 .. chars : text[i] # NL
      /\ \A i \in LineEnds(text) : i <= chars => i <= k
  <2>1. CASE whole = {}
    <3>1. {chars, n} \in SUBSET Nat /\ {chars, n} # {}
      BY <1>2
    <3>2. Min({chars, n}) \in {chars, n} /\ \A m \in {chars, n} : Min({chars, n}) <= m
      BY <3>1, MinIs
    <3>3. Min({chars, n}) = chars
      BY <1>2, <3>2
    <3>4. k = chars
      BY <1>1, <1>2, <1>4, <2>1, <3>3 DEF CutAt
    <3> QED BY <1>3, <2>1, <3>4
  <2>2. CASE whole # {}
    <3>1. Max(whole) \in whole /\ \A i \in whole : i <= Max(whole)
      BY <1>3, <2>2, MaxIs
    <3>2. k = Max(whole)
      BY <1>1, <1>4, <2>2 DEF CutAt
    <3> QED BY <1>3, <3>1, <3>2
  <2> QED BY <2>1, <2>2
<1>6. KeptBytes(text, chars) = Bytes(SubSeq(text, 1, k))
  BY <1>4 DEF KeptBytes, CutAt
<1>7. Slice(text, KeptBytes(text, chars)) = SubSeq(text, 1, k)
  <2>1. k \in 0 .. Len(text)
    BY <1>2, <1>5
  <2> QED BY <1>6, <2>1, SliceIs
<1>8. Truncate(text, chars) = TrimEnd(SubSeq(text, 1, k)) \o Marker
  BY <1>7 DEF Truncate
<1> QED
  BY <1>4, <1>5, <1>8

\* In a document what a blank follows before the end of its line is that end.
LEMMA BlankBeforeEnd ==
  ASSUME NEW text \in Documents, NEW b \in Nat \ {0}, NEW k \in b + 1 .. Len(text),
         text[k] = NL, \A i \in b + 1 .. k : IsSpace(text[i])
  PROVE  text[b + 1] = NL
<1>1. SUFFICES ASSUME text[b + 1] # NL PROVE FALSE
  OBVIOUS
<1>2. PICK ends : ends = {i \in b + 1 .. k : text[i] = NL}
  OBVIOUS
<1>3. Len(text) \in Nat /\ Tidy(text)
  BY DEF Documents, Texts
<1>4. ends \in SUBSET Nat /\ k \in ends
  BY <1>2, <1>3
<1>5. PICK j \in ends : \A i \in ends : j <= i
  BY <1>4, LeastNatural
<1>6. j \in b + 2 .. k /\ text[j] = NL /\ j - 1 \in b + 1 .. k /\ j - 1 \notin ends
  BY <1>1, <1>2, <1>3, <1>5
<1>7. text[j - 1] = Space
  BY <1>2, <1>6 DEF IsSpace
<1>8. j - 1 \in 1 .. Len(text) - 1 /\ (j - 1) + 1 = j
  BY <1>3, <1>6
<1> QED
  BY <1>3, <1>6, <1>7, <1>8 DEF Tidy

\* A document that is too long is cut to a beginning that shows something, leaves out no
\* line the budget has room for, and ends where a line ends or inside the first.
LEMMA TruncateIs ==
  ASSUME NEW text \in Documents, NEW chars \in Nat \ {0}, Len(text) > chars
  PROVE  \E b \in 1 .. chars :
           /\ Truncate(text, chars) = SubSeq(text, 1, b) \o Marker
           /\ \A i \in LineEnds(text) : i <= chars => Len(TrimEnd(SubSeq(text, 1, i))) <= b
           /\ text[b + 1] = NL \/ \A i \in 1 .. chars : text[i] # NL
<1>0. text \in Texts /\ Len(text) \in Nat /\ text # <<>> /\ ~IsSpace(text[1])
  BY DEF Documents, Texts
<1>1. PICK k \in 1 .. chars :
        /\ Truncate(text, chars) = TrimEnd(SubSeq(text, 1, k)) \o Marker
        /\ text[k] = NL \/ \A i \in 1 .. chars : text[i] # NL
        /\ \A i \in LineEnds(text) : i <= chars => i <= k
  BY <1>0, CutIs
<1>2. k \in 0 .. Len(text)
  BY <1>0
<1>3. PICK part \in Texts : /\ part = SubSeq(text, 1, k) /\ Len(part) = k
                            /\ \A i \in 1 .. k : part[i] = text[i]
  BY <1>0, <1>2, BeginningIs
<1>4. PICK b \in 0 .. k : /\ TrimEnd(part) = SubSeq(part, 1, b)
                          /\ b = 0 \/ ~IsSpace(part[b])
                          /\ \A i \in b + 1 .. k : IsSpace(part[i])
  BY <1>3, TrimEndIs
<1>5. b \in 1 .. k /\ \A i \in b + 1 .. k : IsSpace(text[i])
  BY <1>0, <1>3, <1>4
<1>6. SubSeq(part, 1, b) = SubSeq(text, 1, b)
  BY <1>0, <1>2, <1>3, <1>4 DEF Texts
<1>7. Truncate(text, chars) = SubSeq(text, 1, b) \o Marker
  BY <1>1, <1>3, <1>4, <1>6
<1>8. ASSUME NEW i \in LineEnds(text), i <= chars PROVE Len(TrimEnd(SubSeq(text, 1, i))) <= b
  <2>1. i \in 0 .. k /\ i \in 0 .. Len(text)
    BY <1>0, <1>1, <1>8 DEF LineEnds, Texts
  <2>2. PICK line \in Texts : /\ line = SubSeq(text, 1, i) /\ Len(line) = i
                              /\ \A j \in 1 .. i : line[j] = text[j]
    BY <1>0, <2>1, BeginningIs
  <2>3. PICK c \in 0 .. i : TrimEnd(line) = SubSeq(line, 1, c) /\ (c = 0 \/ ~IsSpace(line[c]))
    BY <2>2, TrimEndIs
  <2>4. Len(TrimEnd(line)) = c
    BY <2>2, <2>3, BeginningIs
  <2>5. c <= b
    BY <1>5, <2>1, <2>2, <2>3
  <2> QED BY <2>2, <2>4, <2>5
<1>9. text[b + 1] = NL \/ \A i \in 1 .. chars : text[i] # NL
  <2>1. CASE text[k] = NL
    <3>1. b # k
      BY <1>3, <1>4, <1>5, <2>1 DEF IsSpace
    <3>2. b \in Nat \ {0} /\ k \in b + 1 .. Len(text)
      BY <1>2, <1>5, <3>1
    <3> QED BY <1>5, <2>1, <3>2, BlankBeforeEnd
  <2> QED BY <1>1, <2>1
<1>10. b \in 1 .. chars
  BY <1>5
<1> QED
  BY <1>7, <1>8, <1>9, <1>10

\* A fence is longer than every run of backticks in what it encloses.
LEMMA FenceLengthIs ==
  ASSUME NEW text \in Texts
  PROVE  /\ FenceLength(text) \in Nat /\ FenceLength(text) >= MinFence
         /\ \A a, b \in 1 .. Len(text) :
              a <= b /\ (\A k \in a .. b : text[k] = Backtick) => b - a + 1 < FenceLength(text)
<1>1. PICK n \in Nat : n = Len(text) /\ DOMAIN text = 1 .. n
  BY DEF Texts
<1>2. PICK S : S = {r + 1 : r \in Runs(text)} \cup {MinFence}
  OBVIOUS
<1>3. ASSUME NEW a \in 1 .. n, NEW b \in 1 .. n, a <= b, \A k \in a .. b : text[k] = Backtick
      PROVE  b - a + 2 \in S
  <2>1. <<a, b>> \in {q \in (DOMAIN text) \X (DOMAIN text) :
          q[1] <= q[2] /\ \A k \in q[1] .. q[2] : text[k] = Backtick}
    BY <1>1, <1>3
  <2>2. b - a + 1 \in Runs(text)
    BY <2>1 DEF Runs
  <2>3. (b - a + 1) + 1 \in S
    BY <1>2, <2>2
  <2> QED BY <2>3
<1>4. ASSUME NEW s \in S PROVE s \in 0 .. n + MinFence
  <2>1. CASE s = MinFence
    BY <2>1 DEF MinFence
  <2>2. CASE s # MinFence
    <3>1. PICK r \in Runs(text) : s = r + 1
      BY <1>2, <2>2
    <3>2. PICK a \in 1 .. n, b \in 1 .. n : a <= b /\ r = b - a + 1
      BY <1>1 DEF Runs
    <3> QED BY <3>1, <3>2 DEF MinFence
  <2> QED BY <2>1, <2>2
<1>5. MinFence \in S /\ S \in SUBSET (0 .. n + MinFence) /\ n + MinFence \in Nat
  BY <1>2, <1>4 DEF MinFence
<1>6. Max(S) \in S /\ \A s \in S : s <= Max(S)
  BY <1>5, MaxIs
<1>7. PICK m \in Nat : m = FenceLength(text) /\ m >= MinFence /\ \A s \in S : s <= m
  <2>1. FenceLength(text) = Max(S)
    BY <1>2 DEF FenceLength
  <2>2. PICK m \in S : m = Max(S)
    BY <1>6
  <2>3. m \in Nat /\ m >= MinFence
    BY <1>4, <1>5, <1>6, <2>2
  <2> QED BY <1>6, <2>1, <2>2, <2>3
<1>8. ASSUME NEW a \in 1 .. n, NEW b \in 1 .. n, a <= b, \A k \in a .. b : text[k] = Backtick
      PROVE  b - a + 1 < m
  <2>1. b - a + 2 <= m
    BY <1>3, <1>7, <1>8
  <2> QED BY <2>1
<1> QED
  BY <1>1, <1>7, <1>8

\* One text after another.
IsJoin(all, a, b) ==
  /\ all \in Texts /\ Len(all) = Len(a) + Len(b)
  /\ \A i \in 1 .. Len(a) : all[i] = a[i]
  /\ \A i \in 1 .. Len(b) : all[Len(a) + i] = b[i]

\* That is what joining them comes to.
LEMMA JoinedIs ==
  ASSUME NEW a \in Texts, NEW b \in Texts
  PROVE  IsJoin(a \o b, a, b)
  BY DEF Texts, IsJoin

\* A framed text, place by place.
Framed(framed, text, fence) ==
  /\ framed \in Texts
  /\ Len(framed) = 2 * fence + Len(text) + 2
  /\ \A i \in 1 .. fence : framed[i] = Backtick
  /\ framed[fence + 1] = NL
  /\ \A i \in 1 .. Len(text) : framed[fence + 1 + i] = text[i]
  /\ framed[fence + Len(text) + 2] = NL

\* What the server writes around a text.
LEMMA FrameIs ==
  ASSUME NEW text \in Texts
  PROVE  Framed(Frame(text), text, FenceLength(text))
<1>1. PICK m \in Nat : m = FenceLength(text)
  BY FenceLengthIs
<1>2. PICK n \in Nat : n = Len(text)
  BY DEF Texts
<1>3. PICK fence : fence = [i \in 1 .. m |-> Backtick]
  OBVIOUS
<1>4. Backtick \in Characters /\ <<NL>> \in Texts
  BY NewlineIsText DEF Characters
<1>5. fence \in Texts /\ Len(fence) = m /\ \A i \in 1 .. m : fence[i] = Backtick
  BY <1>3, <1>4 DEF Texts
<1>6. PICK line \in Texts : line = <<NL>> /\ Len(line) = 1 /\ line[1] = NL
  BY <1>4
<1>7. PICK a : a = fence \o line /\ IsJoin(a, fence, line)
  BY <1>5, <1>6, JoinedIs
<1>71. a \in Texts /\ Len(a) = m + 1 /\ a[m + 1] = NL /\ \A i \in 1 .. m : a[i] = Backtick
  BY <1>5, <1>6, <1>7 DEF IsJoin
<1>8. PICK b : b = a \o text /\ IsJoin(b, a, text)
  BY <1>71, JoinedIs
<1>81. /\ b \in Texts /\ Len(b) = m + n + 1 /\ \A i \in 1 .. m + 1 : b[i] = a[i]
       /\ \A i \in 1 .. n : b[m + 1 + i] = text[i]
  BY <1>2, <1>71, <1>8 DEF IsJoin
<1>9. PICK c : c = b \o line /\ IsJoin(c, b, line)
  BY <1>6, <1>81, JoinedIs
<1>91. /\ c \in Texts /\ Len(c) = m + n + 2 /\ c[m + n + 2] = NL
       /\ \A i \in 1 .. m + n + 1 : c[i] = b[i]
  <2>1. m + n + 1 + 1 = m + n + 2 /\ 1 \in 1 .. 1
    OBVIOUS
  <2> QED BY <1>6, <1>81, <1>9, <2>1 DEF IsJoin
<1>10. PICK d : d = c \o fence /\ IsJoin(d, c, fence)
  BY <1>5, <1>91, JoinedIs
<1>101. d \in Texts /\ Len(d) = 2 * m + n + 2 /\ \A i \in 1 .. m + n + 2 : d[i] = c[i]
  <2>1. m + n + 2 + m = 2 * m + n + 2
    OBVIOUS
  <2> QED BY <1>5, <1>91, <1>10, <2>1 DEF IsJoin
<1>11. Frame(text) = d
  BY <1>1, <1>3, <1>6, <1>7, <1>8, <1>9, <1>10 DEF Frame
<1>12. ASSUME NEW i \in 1 .. m PROVE d[i] = Backtick
  BY <1>71, <1>81, <1>91, <1>101
<1>13. d[m + 1] = NL
  BY <1>71, <1>81, <1>91, <1>101
<1>14. ASSUME NEW i \in 1 .. n PROVE d[m + 1 + i] = text[i]
  <2>1. m + 1 + i \in 1 .. m + n + 1 /\ m + 1 + i \in 1 .. m + n + 2
    OBVIOUS
  <2> QED BY <1>81, <1>91, <1>101, <2>1
<1>15. d[m + n + 2] = NL
  BY <1>91, <1>101
<1> QED
  BY <1>1, <1>2, <1>101, <1>11, <1>12, <1>13, <1>14, <1>15 DEF Framed

\* From a frame its fence and what it encloses can be told.
LEMMA FrameTells ==
  ASSUME NEW text \in Texts
  PROVE  Fence(Frame(text)) = FenceLength(text) /\ Inside(Frame(text)) = text
<1>1. PICK m \in Nat : m = FenceLength(text)
  BY FenceLengthIs
<1>2. PICK n \in Nat : n = Len(text)
  BY DEF Texts
<1>3. PICK framed \in Texts : framed = Frame(text) /\ Framed(framed, text, m)
  BY <1>1, FrameIs DEF Framed
<1>4. PICK others : others = {i \in DOMAIN framed : framed[i] # Backtick}
  OBVIOUS
<1>5. DOMAIN framed = 1 .. 2 * m + n + 2
  BY <1>2, <1>3 DEF Framed, Texts
<1>6. others \in SUBSET Nat /\ m + 1 \in others /\ \A i \in others : m + 1 <= i
  BY <1>2, <1>3, <1>4, <1>5 DEF Framed, NL, Backtick
<1>7. Min(others) = m + 1
  <2>1. Min(others) \in others /\ \A i \in others : Min(others) <= i
    BY <1>6, MinIs
  <2>2. Min(others) \in Nat
    BY <1>6, <2>1
  <2> QED BY <1>6, <2>1, <2>2
<1>8. Fence(framed) = m
  BY <1>4, <1>7 DEF Fence
<1>9. Inside(framed) = SubSeq(framed, m + 2, m + n + 1)
  <2>1. Len(framed) - m - 1 = m + n + 1
    BY <1>2, <1>3 DEF Framed
  <2> QED BY <1>8, <2>1 DEF Inside
<1>10. SubSeq(framed, m + 2, m + n + 1) = text
  <2>1. \A i \in 1 .. n : framed[i + (m + 2) - 1] = text[i]
    <3> SUFFICES ASSUME NEW i \in 1 .. n PROVE framed[i + (m + 2) - 1] = text[i]
      OBVIOUS
    <3>1. framed[m + 1 + i] = text[i] /\ i + (m + 2) - 1 = m + 1 + i
      BY <1>2, <1>3 DEF Framed
    <3> QED BY <3>1
  <2> QED BY <1>2, <1>3, <1>5, <2>1 DEF Texts
<1> QED
  BY <1>1, <1>3, <1>8, <1>9, <1>10

\* No run of backticks inside a frame is as long as its fence.
LEMMA FrameCloses ==
  ASSUME NEW text \in Texts,
         NEW i \in 2 .. Len(Frame(text)) - FenceLength(text)
  PROVE  \E k \in i .. i + FenceLength(text) - 1 : Frame(text)[k] # Backtick
<1>1. PICK m \in Nat : /\ m = FenceLength(text) /\ m >= 3
                       /\ \A a, b \in 1 .. Len(text) :
                            a <= b /\ (\A k \in a .. b : text[k] = Backtick) => b - a + 1 < m
  BY FenceLengthIs DEF MinFence
<1>2. PICK n \in Nat : n = Len(text)
  BY DEF Texts
<1>3. PICK framed : framed = Frame(text) /\ Framed(framed, text, m)
  BY <1>1, FrameIs
<1>4. i \in 2 .. m + n + 2
  <2>1. Len(framed) - m = m + n + 2
    BY <1>2, <1>3 DEF Framed
  <2> QED BY <1>1, <1>3, <2>1
<1>5. NL # Backtick
  BY DEF NL, Backtick
<1>6. CASE i <= m + 1
  <2>1. m + 1 \in i .. i + m - 1 /\ framed[m + 1] = NL
    BY <1>3, <1>4, <1>6 DEF Framed
  <2> QED BY <1>1, <1>3, <1>5, <2>1
<1>7. CASE i + m - 1 >= m + n + 2
  <2>1. m + n + 2 \in i .. i + m - 1 /\ framed[m + n + 2] = NL
    BY <1>2, <1>3, <1>4, <1>7 DEF Framed
  <2> QED BY <1>1, <1>3, <1>5, <2>1
<1>8. CASE i > m + 1 /\ i + m - 1 < m + n + 2
  <2>1. i - m - 1 \in 1 .. n /\ i - 2 \in 1 .. n
    BY <1>1, <1>4, <1>8
  <2>2. PICK a \in 1 .. n, b \in 1 .. n : a = i - m - 1 /\ b = i - 2
    BY <2>1
  <2>3. a <= b /\ b - a + 1 = m
    BY <1>1, <1>4, <2>2
  <2>4. PICK k \in a .. b : text[k] # Backtick
    BY <1>1, <1>2, <2>3
  <2>5. framed[m + 1 + k] = text[k] /\ m + 1 + k \in i .. i + m - 1
    BY <1>2, <1>3, <1>4, <2>2 DEF Framed
  <2> QED BY <1>1, <1>3, <2>4, <2>5
<1> QED
  BY <1>1, <1>4, <1>6, <1>7, <1>8

-----------------------------------------------------------------------------
(* What is quoted of an error. *)

\* A text shorn of what nobody sees is a text.
LEMMA TrimDetailType ==
  ASSUME NEW text \in Texts
  PROVE  TrimDetail(text) \in Texts
<1>1. PICK kept : kept = {i \in DOMAIN text : text[i] \notin {Space, NL, "invisible"}}
  OBVIOUS
<1>2. PICK n \in Nat : n = Len(text) /\ DOMAIN text = 1 .. n
  BY DEF Texts
<1>3. kept \in SUBSET Nat /\ kept \in SUBSET (1 .. n)
  BY <1>1, <1>2
<1>4. CASE kept = {}
  BY <1>1, <1>4, NewlineIsText DEF TrimDetail
<1>5. CASE kept # {}
  <2>1. PICK a \in kept : a = Min(kept)
    BY <1>3, <1>5, MinIs
  <2>2. PICK b \in kept : b = Max(kept)
    BY <1>2, <1>3, <1>5, MaxOfPart
  <2>3. a \in Nat \ {0} /\ b \in 0 .. Len(text)
    BY <1>2, <1>3
  <2>4. SubSeq(text, a, b) \in Texts
    BY <2>3, PartType DEF Texts
  <2> QED BY <1>1, <1>5, <2>1, <2>2, <2>4 DEF TrimDetail
<1> QED
  BY <1>4, <1>5

\* A text that is no markup has a word before its first angle bracket.
LEMMA WordFirst ==
  ASSUME NEW text \in Texts, ~IsMarkup(text), NEW i \in DOMAIN text, text[i] = "<"
  PROVE  \E k \in 1 .. i : IsWord(text[k])
<1>1. PICK angles : angles = {j \in DOMAIN text : text[j] = "<"}
  OBVIOUS
<1>2. PICK words : words = {j \in DOMAIN text : IsWord(text[j])}
  OBVIOUS
<1>3. DOMAIN text \in SUBSET Nat /\ \A j \in DOMAIN text : j >= 1
  BY DEF Texts
<1>4. angles \in SUBSET Nat /\ i \in angles
  BY <1>1, <1>3
<1>5. PICK angle \in angles : angle = First(angles) /\ angle <= i
  BY <1>4, MinIs DEF First
<1>6. PICK word : word = First(words)
  OBVIOUS
<1>7. ~(angle # 0 /\ (word = 0 \/ angle < word))
  BY <1>1, <1>2, <1>5, <1>6 DEF IsMarkup
<1>8. word # 0 /\ ~(angle < word)
  BY <1>1, <1>3, <1>5, <1>7
<1>9. word \in words
  BY <1>2, <1>3, <1>6, <1>8, FirstIs
<1>10. word \in 1 .. i /\ IsWord(text[word])
  BY <1>2, <1>3, <1>4, <1>5, <1>8, <1>9
<1> QED
  BY <1>10

\* A text is shortened to a beginning of it.
LEMMA ShortenIs ==
  ASSUME NEW text \in Texts, NEW i \in DOMAIN Shorten(text), Shorten(text)[i] = "<"
  PROVE  /\ i \in DOMAIN text /\ text[i] = "<"
         /\ \A k \in 1 .. i : Shorten(text)[k] = text[k]
<1>1. PICK n \in Nat : n = Len(text) /\ DOMAIN text = 1 .. n
  BY DEF Texts
<1>2. CASE Bytes(text) <= MaxDetail
  BY <1>1, <1>2 DEF Shorten
<1>3. CASE ~(Bytes(text) <= MaxDetail)
  <2>1. PICK cuts : cuts = {k \in 0 .. Len(text) : Bytes(SubSeq(text, 1, k)) <= MaxDetail}
    OBVIOUS
  <2>2. 0 \in cuts
    <3>1. PICK none \in Texts : none = SubSeq(text, 1, 0) /\ Len(none) = 0
      <4>1. 0 \in 0 .. Len(text)
        BY <1>1
      <4> QED BY <4>1, BeginningIs
    <3>2. Wide(none) = {}
      BY <3>1 DEF Wide, Texts
    <3>3. Cardinality(Wide(none)) = 0
      BY <3>2, FS_EmptySet
    <3>4. Bytes(none) = 0
      BY <3>1, <3>3 DEF Bytes
    <3> QED BY <1>1, <2>1, <3>1, <3>4 DEF MaxDetail
  <2>3. cuts \in SUBSET (0 .. n)
    BY <1>1, <2>1
  <2>4. PICK c \in 0 .. n : c = Max(cuts)
    BY <2>2, <2>3, MaxIs
  <2>5. PICK part \in Texts : /\ part = SubSeq(text, 1, c) /\ Len(part) = c
                              /\ \A k \in 1 .. c : part[k] = text[k]
    BY <1>1, BeginningIs
  <2>6. PICK mark \in Texts : mark = <<Ellipsis>> /\ Len(mark) = 1 /\ mark[1] = Ellipsis
    <3>1. Ellipsis \in Characters
      BY DEF Characters
    <3>2. <<Ellipsis>> \in Texts
      BY <3>1 DEF Texts
    <3> QED BY <3>2
  <2>7. PICK all : all = part \o mark /\ IsJoin(all, part, mark)
    BY JoinedIs
  <2>8. Shorten(text) = all
    BY <1>3, <2>1, <2>4, <2>5, <2>6, <2>7 DEF Shorten
  <2>9. Len(all) = c + 1 /\ all[c + 1] = Ellipsis /\ \A k \in 1 .. c : all[k] = text[k]
    <3>1. 1 \in 1 .. 1
      OBVIOUS
    <3> QED BY <2>5, <2>6, <2>7, <3>1 DEF IsJoin
  <2>10. DOMAIN all = 1 .. c + 1
    BY <2>7, <2>9 DEF IsJoin, Texts
  <2>11. i \in 1 .. c
    BY <2>8, <2>9, <2>10 DEF Ellipsis
  <2> QED BY <1>1, <2>8, <2>9, <2>11
<1> QED
  BY <1>2, <1>3

\* What is quoted of a body that holds no message of the registry's has a word before
\* its first angle bracket.
LEMMA DetailIs ==
  ASSUME NEW body \in [messages : Texts, text : Texts], body.messages = <<>>,
         NEW i \in DOMAIN DetailOf(body), DetailOf(body)[i] = "<"
  PROVE  \E k \in 1 .. i : IsWord(DetailOf(body)[k])
<1>1. PICK text \in Texts : text = TrimDetail(body.text)
  BY TrimDetailType
<1>2. CASE text = <<>> \/ IsMarkup(text)
  <2>1. DetailOf(body) = <<>>
    BY <1>1, <1>2 DEF DetailOf
  <2> QED BY <2>1
<1>3. CASE ~(text = <<>> \/ IsMarkup(text))
  <2>1. DetailOf(body) = Shorten(text)
    BY <1>1, <1>3 DEF DetailOf
  <2>2. i \in DOMAIN text /\ text[i] = "<" /\ \A k \in 1 .. i : Shorten(text)[k] = text[k]
    BY <2>1, ShortenIs
  <2>3. \E k \in 1 .. i : IsWord(text[k])
    BY <1>3, <2>2, WordFirst
  <2> QED BY <2>1, <2>2, <2>3
<1> QED
  BY <1>2, <1>3

\* What a text has of prose.
Said(text) == Kept(text, Prose)

\* Two texts, one after the other, say what each of them says.
LEMMA SaidOfTwo ==
  ASSUME NEW a \in Texts, NEW b \in Texts
  PROVE  Said(a \o b) = Said(a) \o Said(b)
  BY KeptOfTwo DEF Said, Texts

\* What is said is a text; of a text without prose, nothing.
LEMMA SaidIs ==
  ASSUME NEW a \in Texts
  PROVE  /\ Said(a) \in Texts
         /\ (\A k \in 1 .. Len(a) : a[k] \notin Prose) => Said(a) = <<>>
<1>1. PICK E : E = PlacesOf(a, Prose)
  OBVIOUS
<1>2. PICK m \in Nat : \E u \in [1 .. m -> E] : Takes(u, m, E) /\ Said(a) = [i \in 1 .. m |-> a[u[i]]]
  BY <1>1, KeptIs DEF Said, Texts
<1>3. PICK u \in [1 .. m -> E] : Said(a) = [i \in 1 .. m |-> a[u[i]]]
  BY <1>2
<1>4. \A i \in 1 .. m : a[u[i]] \in Characters
  <2>1. \A i \in E : a[i] \in Characters
    BY <1>1 DEF PlacesOf, Texts
  <2> QED BY <2>1
<1>5. Said(a) \in Texts
  BY <1>3, <1>4 DEF Texts
<1>6. ASSUME \A k \in 1 .. Len(a) : a[k] \notin Prose PROVE Said(a) = <<>>
  BY <1>6, KeptNone DEF Said, Texts
<1> QED
  BY <1>5, <1>6

\* A text is made of the parts it is cut into.
LEMMA CutInTwo ==
  ASSUME NEW S, NEW list \in Seq(S), NEW a \in Nat \ {0}, NEW b \in a - 1 .. Len(list), NEW c \in b .. Len(list)
  PROVE  SubSeq(list, a, c) = SubSeq(list, a, b) \o SubSeq(list, b + 1, c)
<1>1. PICK m \in Nat : m = b - a + 1
  OBVIOUS
<1>2. PICK n \in Nat : n = c - b
  OBVIOUS
<1>3. PICK l : l = SubSeq(list, a, b)
  OBVIOUS
<1>4. PICK k : k = SubSeq(list, b + 1, c)
  OBVIOUS
<1>5. PICK all : all = SubSeq(list, a, c)
  OBVIOUS
<1>6. l \in Seq(S) /\ Len(l) = m /\ \A i \in 1 .. m : l[i] = list[a + i - 1]
  BY <1>1, <1>3
<1>7. k \in Seq(S) /\ Len(k) = n /\ \A i \in 1 .. n : k[i] = list[b + i]
  BY <1>2, <1>4
<1>8. all \in Seq(S) /\ Len(all) = m + n /\ \A i \in 1 .. m + n : all[i] = list[a + i - 1]
  BY <1>1, <1>2, <1>5
<1>9. PICK joined : joined = l \o k
  OBVIOUS
<1>10. joined \in Seq(S) /\ Len(joined) = m + n
  BY <1>6, <1>7, <1>9, ConcatProperties
<1>11. ASSUME NEW i \in 1 .. m + n PROVE joined[i] = all[i]
  <2>1. CASE i \in 1 .. m
    <3>1. joined[i] = l[i]
      BY <1>6, <1>7, <1>9, <2>1
    <3> QED BY <1>6, <1>8, <2>1, <3>1
  <2>2. CASE i \notin 1 .. m
    <3>1. PICK j \in 1 .. n : i = m + j
      <4>1. i - m \in 1 .. n /\ i = m + (i - m)
        BY <2>2
      <4> QED BY <4>1
    <3>2. joined[i] = k[j]
      BY <1>6, <1>7, <1>9, <3>1
    <3>3. a + i - 1 = b + j
      BY <1>1, <3>1
    <3> QED BY <1>7, <1>8, <3>2, <3>3
  <2> QED BY <2>1, <2>2
<1>12. joined = all
  <2>1. DOMAIN joined = DOMAIN all
    BY <1>8, <1>10
  <2> QED BY <1>8, <1>10, <1>11, <2>1
<1> QED
  BY <1>3, <1>4, <1>5, <1>9, <1>12

-----------------------------------------------------------------------------
(* White space at the ends of a text *)

\* Two texts, one after the other, are blank if both are.
LEMMA BlankOfTwo ==
  ASSUME NEW a \in Texts, NEW b \in Texts
  PROVE  Blank(a \o b) <=> Blank(a) /\ Blank(b)
<1>1. \A x \in Texts : Blank(x) <=> \A k \in 1 .. Len(x) : IsSpace(x[k])
  BY DEF Blank, Inked, Texts
<1>2. PICK all : all = a \o b
  OBVIOUS
<1>3. IsJoin(all, a, b)
  BY <1>2, JoinedIs
<1>4. Len(a) \in Nat /\ Len(b) \in Nat
  BY DEF Texts
<1>5. ASSUME Blank(all) PROVE Blank(a) /\ Blank(b)
  <2>1. ASSUME NEW k \in 1 .. Len(a) PROVE IsSpace(a[k])
    <3>1. k \in 1 .. Len(all) /\ all[k] = a[k]
      BY <1>3, <1>4 DEF IsJoin
    <3> QED BY <1>1, <1>3, <1>5, <3>1 DEF IsJoin
  <2>2. ASSUME NEW k \in 1 .. Len(b) PROVE IsSpace(b[k])
    <3>1. Len(a) + k \in 1 .. Len(all) /\ all[Len(a) + k] = b[k]
      BY <1>3, <1>4 DEF IsJoin
    <3> QED BY <1>1, <1>3, <1>5, <3>1 DEF IsJoin
  <2> QED BY <1>1, <2>1, <2>2
<1>6. ASSUME Blank(a), Blank(b) PROVE Blank(all)
  <2>1. ASSUME NEW k \in 1 .. Len(all) PROVE IsSpace(all[k])
    <3>1. CASE k \in 1 .. Len(a)
      BY <1>1, <1>3, <1>6, <3>1 DEF IsJoin
    <3>2. CASE k \notin 1 .. Len(a)
      <4>1. k - Len(a) \in 1 .. Len(b) /\ Len(a) + (k - Len(a)) = k
        BY <1>3, <1>4, <3>2 DEF IsJoin
      <4>2. PICK j \in 1 .. Len(b) : Len(a) + j = k
        BY <4>1
      <4> QED BY <1>1, <1>3, <1>6, <4>2 DEF IsJoin
    <3> QED BY <3>1, <3>2
  <2> QED BY <1>1, <1>3, <2>1 DEF IsJoin
<1> QED
  BY <1>2, <1>5, <1>6

\* Texts after one another are one text, however they are put together.
LEMMA JoinTwice ==
  ASSUME NEW a \in Texts, NEW b \in Texts, NEW c \in Texts
  PROVE  (a \o b) \o c = a \o (b \o c)
  BY ConcatAssociative DEF Texts

\* Two texts are a text.
LEMMA JoinType ==
  ASSUME NEW a \in Texts, NEW b \in Texts
  PROVE  a \o b \in Texts
  BY ConcatProperties DEF Texts

\* Nothing before or after a text leaves it as it is.
LEMMA JoinNothing ==
  ASSUME NEW a \in Texts
  PROVE  a \o <<>> = a /\ <<>> \o a = a
  BY ConcatEmptySeq DEF Texts

\* A blank text is trimmed to nothing; and it says nothing.
LEMMA BlankIs ==
  ASSUME NEW text \in Texts
  PROVE  /\ Blank(text) => TrimEnd(text) = <<>> /\ TrimStart(text) = <<>> /\ Trim(text) = <<>> /\ Said(text) = <<>>
         /\ ~Blank(text) <=> \E k \in 1 .. Len(text) : ~IsSpace(text[k])
<1>1. ~Blank(text) <=> \E k \in 1 .. Len(text) : ~IsSpace(text[k])
  BY DEF Blank, Inked, Texts
<1>2. ASSUME Blank(text) PROVE Said(text) = <<>>
  <2>1. \A k \in 1 .. Len(text) : text[k] \notin Prose
    BY <1>1, <1>2 DEF IsSpace, Prose, Space, NL
  <2> QED BY <2>1, SaidIs
<1>3. TrimEnd(<<>>) = <<>>
  BY DEF TrimEnd, Inked
<1> QED
  BY <1>1, <1>2, <1>3 DEF Blank, Trim, TrimEnd, TrimStart

\* A text ends in ink, or is none.
EndsInked(text) == text = <<>> \/ ~IsSpace(text[Len(text)])

\* The blank end of a text is trimmed, and no more.
LEMMA TrimEndOf ==
  ASSUME NEW a \in Texts, NEW b \in Texts, EndsInked(a), Blank(b)
  PROVE  TrimEnd(a \o b) = a
<1>1. PICK n \in Nat : n = Len(a)
  BY DEF Texts
<1>2. PICK all : all = a \o b
  OBVIOUS
<1>3. IsJoin(all, a, b)
  BY <1>2, JoinedIs
<1>4. PICK k \in 0 .. Len(all) :
           /\ TrimEnd(all) = SubSeq(all, 1, k)
           /\ k = 0 \/ ~IsSpace(all[k])
           /\ \A i \in k + 1 .. Len(all) : IsSpace(all[i])
  BY <1>3, TrimEndIs DEF IsJoin
<1>5. k <= n
  <2>1. SUFFICES ASSUME k > n PROVE FALSE
    BY <1>1, <1>4
  <2>2. PICK j \in 1 .. Len(b) : k = n + j
    <3>1. k - n \in 1 .. Len(b) /\ k = n + (k - n)
      BY <1>1, <1>3, <2>1 DEF IsJoin, Texts
    <3> QED BY <3>1
  <2>3. all[k] = b[j]
    BY <1>1, <1>3, <2>2 DEF IsJoin
  <2>4. IsSpace(b[j])
    BY BlankIs
  <2> QED BY <1>4, <2>1, <2>3, <2>4
<1>6. k = n
  <2>1. SUFFICES ASSUME k < n PROVE FALSE
    BY <1>4, <1>5
  <2>2. n \in 1 .. Len(a) /\ n \in k + 1 .. Len(all) /\ a # <<>>
    BY <1>1, <1>3, <2>1 DEF IsJoin, Texts
  <2>3. all[n] = a[n]
    BY <1>3, <2>2 DEF IsJoin
  <2> QED BY <1>1, <1>4, <2>2, <2>3 DEF EndsInked
<1>7. SubSeq(all, 1, n) = a
  <2>1. a \in Seq(Characters) /\ all \in Seq(Characters) /\ n <= Len(all) /\ \A i \in 1 .. n : all[i] = a[i]
    BY <1>1, <1>3 DEF IsJoin, Texts
  <2> QED BY <1>1, <2>1
<1> QED
  BY <1>2, <1>4, <1>6, <1>7

\* A text is what is left when its end is trimmed, and a blank end.
LEMMA TrimmedEnd ==
  ASSUME NEW text \in Texts
  PROVE  \E b \in Texts : Blank(b) /\ text = TrimEnd(text) \o b /\ EndsInked(TrimEnd(text))
<1>1. PICK k \in 0 .. Len(text) :
           /\ TrimEnd(text) = SubSeq(text, 1, k)
           /\ k = 0 \/ ~IsSpace(text[k])
           /\ \A i \in k + 1 .. Len(text) : IsSpace(text[i])
  BY TrimEndIs
<1>2. PICK n \in Nat : n = Len(text)
  BY DEF Texts
<1>3. PICK b : b = SubSeq(text, k + 1, n)
  OBVIOUS
<1>4. b \in Texts /\ Len(b) = n - k /\ \A i \in 1 .. n - k : b[i] = text[k + i]
  BY <1>2, <1>3 DEF Texts
<1>5. Blank(b)
  <2>1. ASSUME NEW i \in 1 .. n - k PROVE IsSpace(b[i])
    <3>1. k + i \in k + 1 .. Len(text)
      BY <1>2
    <3> QED BY <1>1, <1>4, <3>1
  <2> QED BY <1>4, <2>1, BlankIs
<1>6. text = SubSeq(text, 1, k) \o b
  <2>1. SubSeq(text, 1, n) = text
    BY <1>2 DEF Texts
  <2>2. text \in Seq(Characters) /\ 1 \in Nat \ {0} /\ k \in 1 - 1 .. Len(text) /\ n \in k .. Len(text)
    BY <1>2 DEF Texts
  <2>3. SubSeq(text, 1, n) = SubSeq(text, 1, k) \o SubSeq(text, k + 1, n)
    BY <2>2, CutInTwo
  <2> QED BY <1>3, <2>1, <2>3
<1>7. EndsInked(TrimEnd(text))
  <2>1. SubSeq(text, 1, k) = <<>> \/ (SubSeq(text, 1, k)[k] = text[k] /\ Len(SubSeq(text, 1, k)) = k /\ k # 0)
    BY DEF Texts
  <2> QED BY <1>1, <2>1 DEF EndsInked
<1> QED
  BY <1>1, <1>4, <1>5, <1>6, <1>7

\* The end of two texts is the end of the second, unless that is blank.
LEMMA TrimEndOfTwo ==
  ASSUME NEW a \in Texts, NEW b \in Texts
  PROVE  TrimEnd(a \o b) = IF Blank(b) THEN TrimEnd(a) ELSE a \o TrimEnd(b)
<1>1. CASE Blank(b)
  <2>1. PICK t \in Texts : t = TrimEnd(a)
    BY TrimEndType
  <2>2. PICK w \in Texts : Blank(w) /\ a = t \o w /\ EndsInked(t)
    BY <2>1, TrimmedEnd
  <2>3. w \o b \in Texts /\ Blank(w \o b)
    BY <1>1, <2>2, BlankOfTwo, JoinType, JoinNothing
  <2>4. a \o b = t \o (w \o b)
    <3>1. (t \o w) \o b = t \o (w \o b)
      BY JoinTwice
    <3> QED BY <2>2, <3>1
  <2>5. TrimEnd(t \o (w \o b)) = t
    BY <2>2, <2>3, TrimEndOf
  <2> QED BY <1>1, <2>1, <2>4, <2>5
<1>2. CASE ~Blank(b)
  <2>1. PICK t \in Texts : t = TrimEnd(b)
    BY TrimEndType
  <2>2. PICK w \in Texts : Blank(w) /\ b = t \o w /\ EndsInked(t)
    BY <2>1, TrimmedEnd
  <2>3. t # <<>>
    BY <1>2, <2>2, JoinType, JoinNothing
  <2>4. a \o t \in Texts /\ a \o b = (a \o t) \o w
    <3>1. (a \o t) \o w = a \o (t \o w)
      BY JoinTwice
    <3>0. a \o t \in Texts
      BY JoinType
    <3> QED BY <2>2, <3>0, <3>1
  <2>5. EndsInked(a \o t)
    <3>1. IsJoin(a \o t, a, t)
      BY JoinedIs
    <3>2. Len(t) \in 1 .. Len(t) /\ ~IsSpace(t[Len(t)])
      BY <2>2, <2>3 DEF EndsInked, Texts
    <3> QED BY <3>1, <3>2 DEF EndsInked, IsJoin
  <2>6. TrimEnd((a \o t) \o w) = a \o t
    BY <2>2, <2>4, <2>5, TrimEndOf
  <2> QED BY <1>2, <2>1, <2>4, <2>6
<1> QED
  BY <1>1, <1>2

\* A text begins with ink, or is none.
StartsInked(text) == text = <<>> \/ ~IsSpace(text[1])

\* A text is a blank beginning, and what is left when its beginning is trimmed.
LEMMA TrimmedStart ==
  ASSUME NEW text \in Texts
  PROVE  /\ TrimStart(text) \in Texts /\ StartsInked(TrimStart(text))
         /\ \E b \in Texts : Blank(b) /\ text = b \o TrimStart(text)
<1>1. CASE Inked(text) = {}
  <2>1. TrimStart(text) = <<>> /\ <<>> \in Texts /\ Blank(text)
    BY <1>1 DEF TrimStart, Texts, Blank
  <2> QED BY <2>1, JoinType, JoinNothing DEF StartsInked
<1>2. CASE Inked(text) # {}
  <2>1. PICK n \in Nat : n = Len(text)
    BY DEF Texts
  <2>2. PICK k : k = Min(Inked(text))
    OBVIOUS
  <2>3. k \in Inked(text) /\ \A i \in Inked(text) : k <= i
    BY <1>2, <2>2, InkedIs, MinIs
  <2>4. k \in 1 .. n /\ ~IsSpace(text[k]) /\ \A i \in 1 .. k - 1 : IsSpace(text[i])
    BY <2>1, <2>3 DEF Inked, Texts
  <2>5. PICK s : s = TrimStart(text) /\ s = SubSeq(text, k, n)
    BY <1>2, <2>1, <2>2 DEF TrimStart
  <2>6. s \in Texts /\ Len(s) = n - k + 1 /\ s[1] = text[k]
    BY <2>1, <2>4, <2>5 DEF Texts
  <2>7. PICK b : b = SubSeq(text, 1, k - 1)
    OBVIOUS
  <2>8. b \in Texts /\ Len(b) = k - 1 /\ \A i \in 1 .. k - 1 : b[i] = text[i]
    BY <2>1, <2>4, <2>7 DEF Texts
  <2>9. Blank(b)
    BY <2>4, <2>8, BlankIs
  <2>10. text = b \o s
    <3>1. SubSeq(text, 1, n) = text
      BY <2>1 DEF Texts
    <3>2. text \in Seq(Characters) /\ 1 \in Nat \ {0} /\ k - 1 \in 1 - 1 .. Len(text) /\ n \in k - 1 .. Len(text)
      BY <2>1, <2>4 DEF Texts
    <3>3. SubSeq(text, 1, n) = SubSeq(text, 1, k - 1) \o SubSeq(text, (k - 1) + 1, n)
      BY <3>2, CutInTwo
    <3>4. (k - 1) + 1 = k
      BY <2>4
    <3> QED BY <2>5, <2>7, <3>1, <3>3, <3>4
  <2> QED BY <2>4, <2>5, <2>6, <2>8, <2>9, <2>10 DEF StartsInked
<1> QED
  BY <1>1, <1>2

\* Between ink and ink nothing is trimmed at the start.
LEMMA TrimStartOf ==
  ASSUME NEW a \in Texts, NEW b \in Texts, Blank(a), StartsInked(b)
  PROVE  TrimStart(a \o b) = b
<1>1. PICK n \in Nat, m \in Nat : n = Len(a) /\ m = Len(b)
  BY DEF Texts
<1>2. PICK all : all = a \o b
  OBVIOUS
<1>3. IsJoin(all, a, b)
  BY <1>2, JoinedIs
<1>4. \A k \in 1 .. n : IsSpace(a[k])
  BY <1>1, BlankIs
<1>5. CASE b = <<>>
  <2>1. all = a
    BY <1>2, <1>5, JoinType, JoinNothing
  <2> QED BY <1>2, <1>5, <2>1, BlankIs
<1>6. CASE b # <<>>
  <2>1. m # 0 /\ ~IsSpace(b[1]) /\ 1 \in 1 .. m
    BY <1>1, <1>6 DEF StartsInked, Texts
  <2>2. all[n + 1] = b[1] /\ n + 1 \in DOMAIN all /\ Len(all) = n + m
    BY <1>1, <1>3, <2>1 DEF IsJoin, Texts
  <2>3. n + 1 \in Inked(all)
    BY <2>1, <2>2 DEF Inked
  <2>4. ASSUME NEW i \in Inked(all) PROVE n + 1 <= i
    <3>1. i \in Nat \ {0} /\ ~IsSpace(all[i])
      BY <1>3 DEF IsJoin, Inked, Texts
    <3>2. i \in 1 .. n => all[i] = a[i]
      BY <1>1, <1>3 DEF IsJoin
    <3> QED BY <1>4, <3>1, <3>2
  <2>5. Min(Inked(all)) = n + 1
    <3>1. Inked(all) \in SUBSET Nat /\ Inked(all) # {}
      BY <1>3, <2>3, InkedIs DEF IsJoin
    <3>2. Min(Inked(all)) \in Inked(all) /\ Min(Inked(all)) <= n + 1
      BY <2>3, <3>1, MinIs
    <3>3. Min(Inked(all)) \in Nat /\ n + 1 <= Min(Inked(all))
      BY <2>4, <3>1, <3>2
    <3> QED BY <3>2, <3>3
  <2>6. TrimStart(all) = SubSeq(all, n + 1, n + m)
    BY <2>2, <2>3, <2>5 DEF TrimStart
  <2>7. SubSeq(all, n + 1, n + m) = b
    <3>1. all \in Seq(Characters) /\ b \in Seq(Characters) /\ \A i \in 1 .. m : all[n + i] = b[i]
      BY <1>1, <1>3 DEF IsJoin, Texts
    <3>2. PICK cut : cut = SubSeq(all, n + 1, n + m)
      OBVIOUS
    <3>3. cut \in Seq(Characters) /\ Len(cut) = m /\ \A i \in 1 .. m : cut[i] = all[n + i]
      BY <2>2, <3>1, <3>2
    <3> QED BY <1>1, <3>1, <3>2, <3>3
  <2> QED BY <1>2, <2>6, <2>7
<1> QED
  BY <1>5, <1>6

\* The start of two texts is the start of the first, unless that is blank.
LEMMA TrimStartOfTwo ==
  ASSUME NEW a \in Texts, NEW b \in Texts
  PROVE  TrimStart(a \o b) = IF Blank(a) THEN TrimStart(b) ELSE TrimStart(a) \o b
<1>1. CASE Blank(a)
  <2>1. PICK t \in Texts : t = TrimStart(b) /\ StartsInked(t)
    BY TrimmedStart
  <2>2. PICK w \in Texts : Blank(w) /\ b = w \o t
    BY <2>1, TrimmedStart
  <2>3. a \o w \in Texts /\ Blank(a \o w) /\ a \o b = (a \o w) \o t
    <3>1. (a \o w) \o t = a \o (w \o t)
      BY JoinTwice
    <3>0. a \o w \in Texts
      BY JoinType
    <3>2. Blank(a \o w)
      BY <1>1, <2>2, BlankOfTwo
    <3> QED BY <2>2, <3>0, <3>1, <3>2
  <2>4. TrimStart((a \o w) \o t) = t
    BY <2>1, <2>3, TrimStartOf
  <2> QED BY <1>1, <2>1, <2>3, <2>4
<1>2. CASE ~Blank(a)
  <2>1. PICK t \in Texts : t = TrimStart(a) /\ StartsInked(t)
    BY TrimmedStart
  <2>2. PICK w \in Texts : Blank(w) /\ a = w \o t
    BY <2>1, TrimmedStart
  <2>3. t # <<>>
    BY <1>2, <2>2, JoinType, JoinNothing
  <2>4. t \o b \in Texts /\ a \o b = w \o (t \o b)
    <3>1. (w \o t) \o b = w \o (t \o b)
      BY JoinTwice
    <3>0. t \o b \in Texts
      BY JoinType
    <3> QED BY <2>2, <3>0, <3>1
  <2>5. StartsInked(t \o b)
    BY <2>1, <2>3, GrowsAtEnd DEF StartsInked
  <2>6. TrimStart(w \o (t \o b)) = t \o b
    BY <2>2, <2>4, <2>5, TrimStartOf
  <2> QED BY <1>2, <2>1, <2>4, <2>6
<1> QED
  BY <1>1, <1>2

\* It does not matter which end is trimmed first; what is trimmed has the same ink.
LEMMA TrimBothEnds ==
  ASSUME NEW text \in Texts
  PROVE  /\ Trim(text) = TrimStart(TrimEnd(text))
         /\ Said(TrimEnd(text)) = Said(text) /\ Said(TrimStart(text)) = Said(text)
         /\ Blank(TrimEnd(text)) <=> Blank(text)
         /\ Blank(TrimStart(text)) <=> Blank(text)
         /\ TrimEnd(TrimEnd(text)) = TrimEnd(text)
<1>1. PICK t \in Texts : t = TrimEnd(text)
  BY TrimEndType
<1>2. PICK w \in Texts : Blank(w) /\ text = t \o w /\ EndsInked(t)
  BY <1>1, TrimmedEnd
<1>3. PICK s \in Texts : s = TrimStart(text)
  BY TrimmedStart
<1>4. PICK v \in Texts : Blank(v) /\ text = v \o s
  BY <1>3, TrimmedStart
<1>5. <<>> \in Texts /\ Blank(<<>>)
  BY DEF Texts, Blank, Inked
<1>6. Said(t) = Said(text) /\ Said(s) = Said(text)
  <2>1. Said(v) = <<>> /\ Said(w) = <<>>
    BY <1>2, <1>4, BlankIs
  <2>2. Said(t) \in Texts /\ Said(s) \in Texts
    BY SaidIs
  <2>3. Said(t) \o <<>> = Said(t) /\ <<>> \o Said(s) = Said(s)
    BY <2>2, JoinType, JoinNothing
  <2>4. Said(t \o w) = Said(t) \o Said(w) /\ Said(v \o s) = Said(v) \o Said(s)
    BY SaidOfTwo
  <2> QED BY <1>2, <1>4, <2>1, <2>3, <2>4
<1>7. (Blank(t) <=> Blank(text)) /\ (Blank(s) <=> Blank(text))
  BY <1>2, <1>4, BlankOfTwo
<1>8. TrimEnd(t) = t
  BY <1>2, <1>5, TrimEndOf, JoinType, JoinNothing
<1>9. Trim(text) = TrimStart(t)
  <2>1. CASE Blank(text)
    <3>1. Trim(text) = <<>> /\ TrimStart(t) = <<>>
      BY <1>7, <2>1, BlankIs
    <3> QED BY <3>1
  <2>2. CASE ~Blank(text)
    <3>1. ~Blank(s)
      BY <1>7, <2>2
    <3>2. TrimEnd(text) = v \o TrimEnd(s)
      BY <1>4, <3>1, TrimEndOfTwo
    <3>3. TrimStart(t) = TrimStart(TrimEnd(s))
      BY <1>1, <1>4, <3>2, TrimStartOfTwo, TrimEndType
    <3>4. PICK u \in Texts : u = TrimEnd(s)
      BY TrimEndType
    <3>5. StartsInked(u)
      <4>1. s # <<>> /\ ~IsSpace(s[1])
        BY <1>3, <1>5, <3>1, TrimmedStart DEF StartsInked
      <4> QED BY <3>4, <4>1, TrimEndStarts DEF StartsInked
    <3>6. TrimStart(u) = u
      BY <1>5, <3>5, TrimStartOf, JoinType, JoinNothing
    <3> QED BY <1>3, <3>3, <3>4, <3>6 DEF Trim
  <2> QED BY <2>1, <2>2
<1> QED
  BY <1>1, <1>3, <1>6, <1>7, <1>8, <1>9

-----------------------------------------------------------------------------
(* The links of a line *)

\* What stands between these places of a text says nothing if no prose stands there.
LEMMA SaidOfPart ==
  ASSUME NEW text \in Texts, NEW a \in Nat \ {0}, NEW b \in 0 .. Len(text),
         \A k \in a .. b : text[k] \notin Prose
  PROVE  Said(SubSeq(text, a, b)) = <<>>
<1>1. PICK part : part = SubSeq(text, a, b)
  OBVIOUS
<1>2. part \in Texts
  BY <1>1, PartType DEF Texts
<1>3. ASSUME NEW k \in 1 .. Len(part) PROVE part[k] \notin Prose
  <2>1. part[k] = text[a + k - 1] /\ a + k - 1 \in a .. b
    BY <1>1, <1>3 DEF Texts
  <2> QED BY <2>1
<1> QED
  BY <1>1, <1>2, <1>3, SaidIs

\* A text cut in three.
LEMMA CutInThree ==
  ASSUME NEW text \in Texts, NEW a \in Nat \ {0}, NEW b \in a - 1 .. Len(text),
         NEW c \in b .. Len(text), NEW d \in c .. Len(text)
  PROVE  /\ SubSeq(text, a, d) = SubSeq(text, a, b) \o (SubSeq(text, b + 1, c) \o SubSeq(text, c + 1, d))
         /\ SubSeq(text, a, b) \in Texts /\ SubSeq(text, b + 1, c) \in Texts /\ SubSeq(text, c + 1, d) \in Texts
         /\ SubSeq(text, a, d) \in Texts
<1>1. text \in Seq(Characters) /\ Len(text) \in Nat
  BY DEF Texts
<1>2. SubSeq(text, a, d) = SubSeq(text, a, b) \o SubSeq(text, b + 1, d)
  <2>1. d \in b .. Len(text)
    BY <1>1
  <2> QED BY <1>1, <2>1, CutInTwo
<1>3. SubSeq(text, b + 1, d) = SubSeq(text, b + 1, c) \o SubSeq(text, c + 1, d)
  <2>1. PICK e \in Nat \ {0} : e = b + 1 /\ c \in e - 1 .. Len(text)
    <3>1. b + 1 \in Nat \ {0} /\ c \in (b + 1) - 1 .. Len(text)
      BY <1>1
    <3> QED BY <3>1
  <2>2. SubSeq(text, e, d) = SubSeq(text, e, c) \o SubSeq(text, c + 1, d)
    BY <1>1, <2>1, CutInTwo
  <2> QED BY <2>1, <2>2
<1>4. b \in 0 .. Len(text) /\ c \in 0 .. Len(text) /\ d \in 0 .. Len(text)
      /\ b + 1 \in Nat \ {0} /\ c + 1 \in Nat \ {0}
  BY <1>1
<1>5. /\ SubSeq(text, a, b) \in Texts /\ SubSeq(text, b + 1, c) \in Texts
      /\ SubSeq(text, c + 1, d) \in Texts /\ SubSeq(text, a, d) \in Texts
  BY <1>1, <1>4, PartType DEF Texts
<1> QED
  BY <1>2, <1>3, <1>5

\* In a destination stand neither brackets nor prose.
LEMMA DestinationIs ==
  ASSUME NEW line \in Texts, WellLinked(line), NEW i \in 1 .. Len(line) + 1, Close(line, i) # 0
  PROVE  \A k \in Separator(line, i) + 2 .. Close(line, i) - 1 : line[k] \notin Brackets \cup Prose
<1>1. PICK o, s, c : o = Open(line, i) /\ s = Separator(line, i) /\ c = Close(line, i)
  OBVIOUS
<1>2. /\ o \in i .. Len(line) /\ s \in o .. Len(line) - 1 /\ c \in s + 2 .. Len(line)
      /\ line[s] = "]" /\ line[s + 1] = "("
  BY <1>1, LinkWithin DEF Texts
<1>3. s \in DOMAIN line /\ s < Len(line) /\ s # 0 /\ c # 0
  BY <1>1, <1>2 DEF Texts
<1>4. DestinationEnd(line, s + 2) = c
  BY <1>1, <1>3 DEF Close
<1> QED
  BY <1>1, <1>2, <1>3, <1>4 DEF WellLinked

\* What is left of a link says what it said.
LEMMA SaidOfLink ==
  ASSUME NEW line \in Texts, WellLinked(line), NEW i \in 1 .. Len(line) + 1, Close(line, i) # 0
  PROVE  Said(Link(line, Open(line, i), Separator(line, i), Close(line, i)))
           = Said(SubSeq(line, Open(line, i), Close(line, i)))
<1>1. PICK o, s, c : o = Open(line, i) /\ s = Separator(line, i) /\ c = Close(line, i)
  OBVIOUS
<1>2. /\ o \in i .. Len(line) /\ s \in o .. Len(line) - 1 /\ c \in s + 2 .. Len(line) /\ Len(line) \in Nat
      /\ line[o] = "[" /\ line[s] = "]" /\ line[s + 1] = "(" /\ line[c] = ")"
  BY <1>1, LinkWithin DEF Texts
<1>3. ASSUME NEW k \in s .. c PROVE line[k] \notin Prose
  <2>1. k = s \/ k = s + 1 \/ k = c \/ k \in s + 2 .. c - 1
    BY <1>2
  <2>2. k \in s + 2 .. c - 1 => line[k] \notin Prose
    BY <1>1, DestinationIs
  <2> QED BY <1>2, <2>1, <2>2 DEF Prose
<1>4. o # s /\ line[o] \notin Prose
  BY <1>2 DEF Prose
<1>5. CASE s = o + 1
  <2>1. \A k \in o .. c : k = o \/ k \in s .. c
    BY <1>2, <1>5
  <2>2. \A k \in o .. c : line[k] \notin Prose
    BY <1>3, <1>4, <2>1
  <2>3. Said(SubSeq(line, o, c)) = <<>>
    <3>1. o \in Nat \ {0} /\ c \in 0 .. Len(line)
      BY <1>2
    <3> QED BY <2>2, <3>1, SaidOfPart
  <2>4. Said(<<>>) = <<>>
    BY NewlineIsText, SaidIs
  <2> QED BY <1>1, <1>5, <2>3, <2>4 DEF Link
<1>6. CASE s # o + 1 /\ IsSafe(SubSeq(line, s + 2, c - 1))
  BY <1>1, <1>6 DEF Link
<1>7. CASE s # o + 1 /\ ~IsSafe(SubSeq(line, s + 2, c - 1))
  <2>1. Link(line, o, s, c) = SubSeq(line, o + 1, s - 1)
    BY <1>7 DEF Link
  <2>2. PICK a, b, d : a = SubSeq(line, o, o) /\ b = SubSeq(line, o + 1, s - 1) /\ d = SubSeq(line, s, c)
    OBVIOUS
  <2>3. SubSeq(line, o, c) = a \o (b \o d) /\ a \in Texts /\ b \in Texts /\ d \in Texts
    <3>1. /\ o \in Nat \ {0} /\ o \in o - 1 .. Len(line) /\ s - 1 \in o .. Len(line)
          /\ c \in s - 1 .. Len(line) /\ (s - 1) + 1 = s
      BY <1>2, <1>4
    <3> QED BY <2>2, <3>1, CutInThree
  <2>4. Said(a) = <<>>
    <3>1. o \in Nat \ {0} /\ o \in 0 .. Len(line) /\ \A k \in o .. o : line[k] \notin Prose
      BY <1>2, <1>4
    <3> QED BY <2>2, <3>1, SaidOfPart
  <2>5. Said(d) = <<>>
    <3>1. s \in Nat \ {0} /\ c \in 0 .. Len(line)
      BY <1>2
    <3> QED BY <1>3, <2>2, <3>1, SaidOfPart
  <2>6. Said(a \o (b \o d)) = <<>> \o (Said(b) \o <<>>)
    <3>1. PICK bd \in Texts : bd = b \o d
      BY <2>3, JoinType
    <3>2. Said(a \o bd) = Said(a) \o Said(bd)
      BY <2>3, SaidOfTwo
    <3>3. Said(b \o d) = Said(b) \o Said(d)
      BY <2>3, SaidOfTwo
    <3> QED BY <2>4, <2>5, <3>1, <3>2, <3>3
  <2>7. Said(b) \in Texts
    BY <2>3, SaidIs
  <2>8. Said(b) \o <<>> = Said(b) /\ <<>> \o Said(b) = Said(b)
    BY <2>7, JoinNothing
  <2> QED BY <1>1, <2>1, <2>2, <2>3, <2>6, <2>8
<1> QED
  BY <1>5, <1>6, <1>7

\* A line whose links are rewritten says what it said.
LEMMA SaidRewritten ==
  ASSUME NEW line \in Texts, WellLinked(line)
  PROVE  Said(RewriteLine(line)) = Said(line)
<1>1. PICK n \in Nat : n = Len(line)
  BY DEF Texts
<1>2. PICK rest : Rewrites(rest, line) /\ \A i \in 1 .. n + 1 : rest[i] \in Texts
  BY <1>1, RewriteRun DEF Texts
<1>3. PICK good : good = {i \in 1 .. n + 1 : Said(rest[i]) = Said(SubSeq(line, i, n))}
  OBVIOUS
<1>4. ASSUME NEW i \in 1 .. n + 1, Close(line, i) # 0 => Close(line, i) + 1 \in good PROVE i \in good
  <2>1. CASE Close(line, i) = 0
    BY <1>1, <1>2, <1>3, <2>1 DEF Rewrites
  <2>2. CASE Close(line, i) # 0
    <3>1. PICK o, s, c : o = Open(line, i) /\ s = Separator(line, i) /\ c = Close(line, i)
      OBVIOUS
    <3>2. o \in i .. n /\ s \in o .. n - 1 /\ c \in s + 2 .. n
      BY <1>1, <2>2, <3>1, LinkWithin DEF Texts
    <3>3. PICK a, b, d : a = SubSeq(line, i, o - 1) /\ b = SubSeq(line, o, c) /\ d = SubSeq(line, c + 1, n)
      OBVIOUS
    <3>4. SubSeq(line, i, n) = a \o (b \o d) /\ a \in Texts /\ b \in Texts /\ d \in Texts
      <4>1. /\ i \in Nat \ {0} /\ o - 1 \in i - 1 .. Len(line) /\ c \in o - 1 .. Len(line)
            /\ n \in c .. Len(line) /\ (o - 1) + 1 = o
        BY <1>1, <3>2
      <4> QED BY <3>3, <4>1, CutInThree
    <3>5. PICK l \in Texts : l = Link(line, o, s, c)
      BY <1>1, <2>2, <3>1, BeforeType DEF Texts
    <3>6. Said(l) = Said(b)
      BY <1>1, <2>2, <3>1, <3>3, <3>5, SaidOfLink
    <3>7. PICK r \in Texts : r = rest[c + 1] /\ Said(r) = Said(d)
      BY <1>2, <1>3, <1>4, <2>2, <3>1, <3>3
    <3>8. rest[i] = (a \o l) \o r
      BY <1>1, <1>2, <2>2, <3>1, <3>3, <3>5, <3>7 DEF Rewrites, Before
    <3>9. (a \o l) \o r = a \o (l \o r)
      BY <3>4, JoinTwice
    <3>10. Said(a \o (l \o r)) = Said(a \o (b \o d))
      <4>1. PICK lr \in Texts : lr = l \o r
        BY JoinType
      <4>2. PICK bd \in Texts : bd = b \o d
        BY <3>4, JoinType
      <4>3. Said(l \o r) = Said(l) \o Said(r)
        BY SaidOfTwo
      <4>4. Said(b \o d) = Said(b) \o Said(d)
        BY <3>4, SaidOfTwo
      <4>5. Said(lr) = Said(bd)
        BY <3>6, <3>7, <4>1, <4>2, <4>3, <4>4
      <4>6. Said(a \o lr) = Said(a) \o Said(lr)
        BY <3>4, SaidOfTwo
      <4>7. Said(a \o bd) = Said(a) \o Said(bd)
        BY <3>4, SaidOfTwo
      <4> QED BY <4>1, <4>2, <4>5, <4>6, <4>7
    <3> QED BY <1>3, <3>4, <3>6, <3>7, <3>8, <3>9, <3>10
  <2> QED BY <2>1, <2>2
<1>5. \A i \in 1 .. n + 1 : i \in good
  BY <1>1, <1>4, FromTheEnd DEF Texts
<1>6. SubSeq(line, 1, n) = line
  BY <1>1 DEF Texts
<1>7. 1 \in good
  BY <1>5
<1> QED
  BY <1>2, <1>3, <1>6, <1>7 DEF Rewrites

-----------------------------------------------------------------------------
(* Links to unknown schemes *)

\* After a closing bracket the text goes on; and if that begins a destination, ink that is
\* no unknown scheme comes before any that is.
SafeAt(text, k) ==
  /\ k < Len(text)
  /\ text[k + 1] = "(" => \E j \in k + 2 .. Len(text) :
                            ~IsSpace(text[j]) /\ \A m \in k + 2 .. j : text[m] # "odd:"
Whole(text) == \A k \in 1 .. Len(text) : text[k] = "]" => SafeAt(text, k)

\* After such a text no link to an unknown scheme begins in it.
LEMMA OddOfTwo ==
  ASSUME NEW a \in Texts, NEW b \in Texts, Whole(a), ~Odd(b)
  PROVE  ~Odd(a \o b)
<1>1. PICK n \in Nat, l \in Nat : n = Len(a) /\ l = Len(b)
  BY DEF Texts
<1>2. PICK all : all = a \o b
  OBVIOUS
<1>3. /\ DOMAIN all = 1 .. n + l /\ DOMAIN b = 1 .. l
      /\ \A i \in 1 .. n : all[i] = a[i]
      /\ \A i \in 1 .. l : all[n + i] = b[i]
  BY <1>1, <1>2, JoinedIs DEF IsJoin, Texts
<1>4. SUFFICES ASSUME NEW k \in 1 .. n + l, NEW j \in 1 .. n + l, k + 1 < j,
                      all[k] = "]", all[k + 1] = "(", all[j] = "odd:",
                      \A m \in k + 2 .. j - 1 : IsSpace(all[m])
               PROVE  FALSE
  BY <1>2, <1>3 DEF Odd
<1>5. CASE k \in 1 .. n
  <2>1. SafeAt(a, k)
    BY <1>1, <1>3, <1>4, <1>5 DEF Whole
  <2>2. k < n /\ a[k + 1] = "("
    <3>1. k < n
      BY <1>1, <2>1 DEF SafeAt
    <3>2. k + 1 \in 1 .. n
      BY <1>5, <3>1
    <3> QED BY <1>3, <1>4, <3>1, <3>2
  <2>3. PICK i \in k + 2 .. n : ~IsSpace(a[i]) /\ \A m \in k + 2 .. i : a[m] # "odd:"
    BY <1>1, <2>1, <2>2 DEF SafeAt
  <2>4. CASE i < j
    <3>1. i \in k + 2 .. j - 1 /\ i \in 1 .. n
      BY <1>5, <2>3, <2>4
    <3> QED BY <1>3, <1>4, <2>3, <3>1
  <2>5. CASE j <= i
    <3>1. j \in k + 2 .. i /\ j \in 1 .. n
      BY <1>4, <1>5, <2>3, <2>5
    <3> QED BY <1>3, <1>4, <2>3, <3>1
  <2> QED BY <2>3, <2>4, <2>5
<1>6. CASE k \notin 1 .. n
  <2>1. PICK p \in 1 .. l : k = n + p
    <3>1. k - n \in 1 .. l /\ k = n + (k - n)
      BY <1>6
    <3> QED BY <3>1
  <2>2. PICK q \in 1 .. l : j = n + q
    <3>1. j - n \in 1 .. l /\ j = n + (j - n)
      BY <1>4, <2>1
    <3> QED BY <3>1
  <2>3. p + 1 < q /\ b[p] = "]" /\ b[q] = "odd:"
    BY <1>3, <1>4, <2>1, <2>2
  <2>4. b[p + 1] = "("
    <3>1. p + 1 \in 1 .. l /\ k + 1 = n + (p + 1)
      BY <2>1, <2>3
    <3>2. all[n + (p + 1)] = b[p + 1]
      BY <1>3, <3>1
    <3> QED BY <1>4, <3>1, <3>2
  <2>5. ASSUME NEW m \in p + 2 .. q - 1 PROVE IsSpace(b[m])
    <3>1. m \in 1 .. l /\ n + m \in k + 2 .. j - 1
      BY <2>1, <2>2
    <3> QED BY <1>3, <1>4, <3>1
  <2> QED BY <1>3, <2>3, <2>4, <2>5 DEF Odd
<1> QED
  BY <1>5, <1>6

\* From here on every closing bracket has its opening one.
Begins(line, i) ==
  \A k \in i .. Len(line) : line[k] = "]" => \E open \in i .. k - 1 : line[open] = "["

\* So it is at the beginning of a line, and after each link.
LEMMA BeginsAfterLink ==
  ASSUME NEW line \in Texts, WellLinked(line)
  PROVE  /\ Begins(line, 1)
         /\ \A i \in 1 .. Len(line) + 1 : Close(line, i) # 0 => Begins(line, Close(line, i) + 1)
<1>1. PICK n \in Nat : n = Len(line) /\ DOMAIN line = 1 .. n
  BY DEF Texts
<1>2. ASSUME NEW k \in 1 .. n, line[k] = "]"
      PROVE  \E open \in 1 .. k - 1 : line[open] = "[" /\ \A m \in open + 1 .. k - 1 : line[m] \notin Brackets
  BY <1>1, <1>2 DEF WellLinked
<1>3. Begins(line, 1)
  BY <1>1, <1>2 DEF Begins
<1>4. ASSUME NEW i \in 1 .. n + 1, Close(line, i) # 0 PROVE Begins(line, Close(line, i) + 1)
  <2>1. PICK o, s, c : o = Open(line, i) /\ s = Separator(line, i) /\ c = Close(line, i)
    OBVIOUS
  <2>2. /\ o \in i .. n /\ s \in o .. n - 1 /\ c \in s + 2 .. n
        /\ line[s] = "]" /\ line[s + 1] = "(" /\ line[c] = ")"
    BY <1>1, <1>4, <2>1, LinkWithin DEF Texts
  <2>3. \A m \in s + 2 .. c - 1 : line[m] \notin Brackets
    BY <1>1, <1>4, <2>1, DestinationIs
  <2>4. ASSUME NEW k \in c + 1 .. n, line[k] = "]" PROVE \E open \in c + 1 .. k - 1 : line[open] = "["
    <3>1. k \in 1 .. n
      BY <2>2
    <3>2. PICK open \in 1 .. k - 1 : line[open] = "[" /\ \A m \in open + 1 .. k - 1 : line[m] \notin Brackets
      BY <1>2, <2>4, <3>1
    <3>3. ~(open < s)
      <4>1. SUFFICES ASSUME open < s PROVE FALSE
        OBVIOUS
      <4>2. s \in open + 1 .. k - 1
        BY <2>2, <4>1
      <4> QED BY <2>2, <3>2, <4>2 DEF Brackets
    <3>4. open # s /\ open # s + 1 /\ open # c
      BY <2>2, <3>2
    <3>5. open \notin s + 2 .. c - 1
      BY <2>3, <3>2 DEF Brackets
    <3>6. open \in c + 1 .. k - 1
      BY <2>2, <3>3, <3>4, <3>5
    <3> QED BY <3>2, <3>6
  <2> QED BY <1>1, <2>1, <2>4 DEF Begins
<1> QED
  BY <1>1, <1>3, <1>4

\* Before a link no bracket closes.
LEMMA ChunkWhole ==
  ASSUME NEW line \in Texts, NEW i \in 1 .. Len(line) + 1, Close(line, i) # 0, Begins(line, i)
  PROVE  Whole(SubSeq(line, i, Open(line, i) - 1))
<1>1. PICK o : o = Open(line, i)
  OBVIOUS
<1>2. o \in i .. Len(line) /\ \A k \in i .. o - 1 : line[k] # "["
  BY <1>1, LinkWithin DEF Texts
<1>3. PICK part : part = SubSeq(line, i, o - 1)
  OBVIOUS
<1>4. ASSUME NEW k \in 1 .. Len(part), part[k] = "]" PROVE FALSE
  <2>1. line[i + k - 1] = "]" /\ i + k - 1 \in i .. o - 1
    BY <1>2, <1>3, <1>4 DEF Texts
  <2>2. PICK p \in i .. o - 1 : p = i + k - 1 /\ p \in i .. Len(line)
    BY <1>2, <2>1
  <2>3. PICK open \in i .. p - 1 : line[open] = "["
    BY <2>1, <2>2 DEF Begins
  <2>4. open \in i .. o - 1
    BY <1>2, <2>2, <2>3
  <2> QED BY <1>2, <2>3, <2>4
<1> QED
  BY <1>1, <1>3, <1>4 DEF Whole

\* A safe destination does not begin with an unknown scheme.
LEMMA SafeStart ==
  ASSUME NEW text \in Texts, IsSafe(text), NEW q \in 1 .. Len(text), text[q] = "odd:",
         \A m \in 1 .. q - 1 : IsSpace(text[m])
  PROVE  FALSE
<1>1. PICK n \in Nat : n = Len(text)
  BY DEF Texts
<1>2. PICK a, b : a = SubSeq(text, 1, q - 1) /\ b = SubSeq(text, q, n)
  OBVIOUS
<1>3. text = a \o b
  <2>1. text \in Seq(Characters) /\ 1 \in Nat \ {0} /\ q - 1 \in 1 - 1 .. Len(text) /\ n \in q - 1 .. Len(text)
    BY <1>1 DEF Texts
  <2>2. SubSeq(text, 1, n) = SubSeq(text, 1, q - 1) \o SubSeq(text, (q - 1) + 1, n)
    BY <2>1, CutInTwo
  <2>3. SubSeq(text, 1, n) = text /\ (q - 1) + 1 = q
    BY <1>1 DEF Texts
  <2> QED BY <1>2, <2>2, <2>3
<1>4. /\ a \in Texts /\ Len(a) = q - 1 /\ \A m \in 1 .. q - 1 : a[m] = text[m]
      /\ b \in Texts /\ b # <<>> /\ b[1] = text[q]
  <2>1. a \in Texts /\ Len(a) = q - 1 /\ \A m \in 1 .. q - 1 : a[m] = text[m]
    BY <1>1, <1>2 DEF Texts
  <2>2. b \in Texts /\ Len(b) = n - q + 1 /\ b[1] = text[q]
    BY <1>1, <1>2 DEF Texts
  <2>3. b # <<>>
    BY <1>1, <2>2
  <2> QED BY <2>1, <2>2, <2>3
<1>5. Blank(a)
  BY <1>4, BlankIs
<1>6. ~IsSpace(b[1]) /\ StartsInked(b)
  BY <1>4 DEF StartsInked, IsSpace, Space, NL
<1>7. TrimStart(text) = b
  BY <1>3, <1>4, <1>5, <1>6, TrimStartOf
<1>8. PICK target : target = Trim(text)
  OBVIOUS
<1>9. target \in Texts /\ target # <<>> /\ target[1] = "odd:"
  BY <1>4, <1>6, <1>7, <1>8, TrimEndStarts, TrimEndType DEF Trim
<1>10. PICK S : S = {i \in DOMAIN target : target[i] \in {"http:", "odd:"}}
  OBVIOUS
<1>11. S \in SUBSET Nat /\ 1 \in S /\ 0 \notin S
  BY <1>9, <1>10 DEF Texts
<1>12. PICK colon : colon = First(S)
  OBVIOUS
<1>13. colon = 1
  <2>1. colon # 0 /\ colon \in S /\ colon <= 1
    BY <1>11, <1>12, FirstIs
  <2> QED BY <1>11, <2>1
<1>14. \/ colon = 0
       \/ \E i \in 1 .. colon - 1 : target[i] = "/"
       \/ colon = 1 /\ target[1] = "http:"
  BY <1>8, <1>10, <1>12 DEF IsSafe
<1> QED
  BY <1>9, <1>13, <1>14

\* What is left of a link is whole.
LEMMA LinkWhole ==
  ASSUME NEW line \in Texts, WellLinked(line), NEW i \in 1 .. Len(line) + 1, Close(line, i) # 0
  PROVE  Whole(Link(line, Open(line, i), Separator(line, i), Close(line, i)))
<1>1. PICK o, s, c : o = Open(line, i) /\ s = Separator(line, i) /\ c = Close(line, i)
  OBVIOUS
<1>2. PICK n \in Nat : n = Len(line) /\ DOMAIN line = 1 .. n
  BY DEF Texts
<1>3. /\ o \in i .. n /\ s \in o .. n - 1 /\ c \in s + 2 .. n
      /\ line[o] = "[" /\ line[s] = "]" /\ line[s + 1] = "(" /\ line[c] = ")"
      /\ \A k \in o .. s - 1 : line[k] = "]" => line[k + 1] # "("
  BY <1>1, <1>2, LinkWithin DEF Texts
<1>4. \A m \in s + 2 .. c - 1 : line[m] \notin Brackets
  BY <1>1, DestinationIs
<1>5. CASE s = o + 1
  <2>1. Link(line, o, s, c) = <<>>
    BY <1>5 DEF Link
  <2> QED BY <1>1, <2>1 DEF Whole
<1>6. CASE s # o + 1 /\ IsSafe(SubSeq(line, s + 2, c - 1))
  <2>1. PICK part : part = SubSeq(line, o, c)
    OBVIOUS
  <2>2. Link(line, o, s, c) = part
    BY <1>6, <2>1 DEF Link
  <2>3. part \in Texts /\ Len(part) = c - o + 1 /\ \A k \in 1 .. c - o + 1 : part[k] = line[o + k - 1]
    BY <1>2, <1>3, <2>1 DEF Texts
  <2>4. PICK dest : dest = SubSeq(line, s + 2, c - 1)
    OBVIOUS
  <2>5. dest \in Texts /\ Len(dest) = c - s - 2 /\ \A k \in 1 .. c - s - 2 : dest[k] = line[s + 1 + k]
    BY <1>2, <1>3, <2>4 DEF Texts
  <2>6. \E j \in s + 2 .. c : ~IsSpace(line[j]) /\ \A m \in s + 2 .. j : line[m] # "odd:"
    <3>1. PICK S : S = {x \in s + 2 .. c : ~IsSpace(line[x])}
      OBVIOUS
    <3>2. S \in SUBSET Nat /\ c \in S
      BY <1>2, <1>3, <3>1 DEF IsSpace, Space, NL
    <3>3. PICK j \in S : \A x \in S : j <= x
      BY <3>2, LeastNatural
    <3>4. j \in s + 2 .. c /\ ~IsSpace(line[j])
      BY <3>1
    <3>5. ASSUME NEW m \in s + 2 .. j - 1 PROVE IsSpace(line[m])
      <4>1. m \in s + 2 .. c /\ ~(j <= m)
        BY <1>3, <3>4
      <4> QED BY <3>1, <3>3, <4>1
    <3>6. line[j] # "odd:"
      <4>1. SUFFICES ASSUME line[j] = "odd:" PROVE FALSE
        OBVIOUS
      <4>2. j # c
        BY <1>3, <4>1
      <4>3. PICK q \in 1 .. Len(dest) : q = j - s - 1 /\ j = s + 1 + q
        <5>1. j - s - 1 \in 1 .. Len(dest) /\ j = s + 1 + (j - s - 1)
          BY <1>3, <2>5, <3>4, <4>2
        <5> QED BY <5>1
      <4>4. dest[q] = "odd:"
        BY <2>5, <4>1, <4>3
      <4>5. ASSUME NEW m \in 1 .. q - 1 PROVE IsSpace(dest[m])
        <5>1. s + 1 + m \in s + 2 .. j - 1 /\ m \in 1 .. c - s - 2
          BY <1>3, <2>5, <4>3
        <5> QED BY <2>5, <3>5, <5>1
      <4> QED BY <1>6, <2>4, <2>5, <4>4, <4>5, SafeStart
    <3>7. ASSUME NEW m \in s + 2 .. j PROVE line[m] # "odd:"
      <4>1. m = j \/ m \in s + 2 .. j - 1
        BY <3>4
      <4> QED BY <3>5, <3>6, <4>1 DEF IsSpace, Space, NL
    <3> QED BY <3>4, <3>7
  <2>7. ASSUME NEW k \in 1 .. Len(part), part[k] = "]" PROVE SafeAt(part, k)
    <3>1. PICK p \in o .. c : p = o + k - 1 /\ line[p] = "]"
      <4>1. o + k - 1 \in o .. c
        BY <1>3, <2>3
      <4> QED BY <2>3, <2>7, <4>1
    <3>2. p # c /\ p # s + 1 /\ p \notin s + 2 .. c - 1
      BY <1>3, <1>4, <3>1 DEF Brackets
    <3>3. p <= s
      BY <1>3, <3>1, <3>2
    <3>4. k < Len(part) /\ part[k + 1] = line[p + 1]
      <4>1. k + 1 \in 1 .. c - o + 1 /\ o + (k + 1) - 1 = p + 1
        BY <1>3, <2>3, <3>1, <3>3
      <4> QED BY <2>3, <4>1
    <3>5. ASSUME part[k + 1] = "("
          PROVE  \E j \in k + 2 .. Len(part) : ~IsSpace(part[j]) /\ \A m \in k + 2 .. j : part[m] # "odd:"
      <4>1. p = s
        <5>1. p \notin o .. s - 1
          BY <1>3, <3>1, <3>4, <3>5
        <5> QED BY <1>3, <3>1, <3>3, <5>1
      <4>2. PICK j \in s + 2 .. c : ~IsSpace(line[j]) /\ \A m \in s + 2 .. j : line[m] # "odd:"
        BY <2>6
      <4>3. PICK x \in k + 2 .. Len(part) : x = j - o + 1 /\ o + x - 1 = j
        <5>1. j - o + 1 \in k + 2 .. Len(part) /\ o + (j - o + 1) - 1 = j
          BY <1>3, <2>3, <3>1, <4>1
        <5> QED BY <5>1
      <4>4. part[x] = line[j]
        BY <2>3, <4>3
      <4>5. ASSUME NEW m \in k + 2 .. x PROVE part[m] # "odd:"
        <5>1. m \in 1 .. c - o + 1 /\ o + m - 1 \in s + 2 .. j
          BY <1>3, <2>3, <3>1, <4>1, <4>3
        <5> QED BY <2>3, <4>2, <5>1
      <4> QED BY <4>2, <4>4, <4>5
    <3> QED BY <3>4, <3>5 DEF SafeAt
  <2> QED BY <1>1, <2>2, <2>7 DEF Whole
<1>7. CASE s # o + 1 /\ ~IsSafe(SubSeq(line, s + 2, c - 1))
  <2>1. PICK part : part = SubSeq(line, o + 1, s - 1)
    OBVIOUS
  <2>2. Link(line, o, s, c) = part
    BY <1>7, <2>1 DEF Link
  <2>3. o # s
    BY <1>3
  <2>4. Len(part) = s - o - 1 /\ \A k \in 1 .. s - o - 1 : part[k] = line[o + k]
    BY <1>2, <1>3, <2>1, <2>3 DEF Texts
  <2>5. ASSUME NEW k \in 1 .. Len(part), part[k] = "]" PROVE SafeAt(part, k)
    <3>1. PICK p \in o + 1 .. s - 1 : p = o + k /\ line[p] = "]"
      <4>1. o + k \in o + 1 .. s - 1
        BY <1>3, <2>4
      <4> QED BY <2>4, <2>5, <4>1
    <3>2. p # s - 1
      <4>1. SUFFICES ASSUME p = s - 1 PROVE FALSE
        OBVIOUS
      <4>2. PICK open \in 1 .. s - 1 : line[open] = "[" /\ \A m \in open + 1 .. s - 1 : line[m] \notin Brackets
        BY <1>2, <1>3 DEF WellLinked
      <4>3. open # p
        BY <3>1, <4>2
      <4>4. p \in open + 1 .. s - 1
        BY <1>3, <4>1, <4>3
      <4> QED BY <3>1, <4>2, <4>4 DEF Brackets
    <3>3. k < Len(part) /\ part[k + 1] = line[p + 1]
      <4>1. k + 1 \in 1 .. s - o - 1 /\ o + (k + 1) = p + 1
        BY <1>3, <2>4, <3>1, <3>2
      <4> QED BY <2>4, <4>1
    <3>4. line[p + 1] # "("
      <4>1. p \in o .. s - 1
        BY <1>3
      <4> QED BY <1>3, <3>1, <4>1
    <3> QED BY <3>3, <3>4 DEF SafeAt
  <2> QED BY <1>1, <2>2, <2>5 DEF Whole
<1> QED
  BY <1>5, <1>6, <1>7

\* Where no link follows any more, none to an unknown scheme does.
LEMMA TailNotOdd ==
  ASSUME NEW line \in Texts, WellLinked(line), NEW i \in 1 .. Len(line) + 1, Close(line, i) = 0,
         Begins(line, i)
  PROVE  ~Odd(SubSeq(line, i, Len(line)))
<1>1. PICK n \in Nat : n = Len(line) /\ DOMAIN line = 1 .. n
  BY DEF Texts
<1>2. PICK part : part = SubSeq(line, i, n)
  OBVIOUS
<1>3. DOMAIN part = 1 .. n - i + 1 /\ \A k \in 1 .. n - i + 1 : part[k] = line[i + k - 1]
  BY <1>1, <1>2 DEF Texts
<1>4. SUFFICES ASSUME NEW k \in 1 .. n - i + 1, NEW j \in 1 .. n - i + 1, k + 1 < j,
                      part[k] = "]", part[k + 1] = "(", part[j] = "odd:"
               PROVE  FALSE
  BY <1>1, <1>2, <1>3 DEF Odd
<1>5. PICK p \in i .. n : p = i + k - 1 /\ line[p] = "]"
  <2>1. i + k - 1 \in i .. n
    BY <1>1
  <2> QED BY <1>3, <1>4, <2>1
<1>6. PICK q \in i .. n : q = i + j - 1 /\ line[q] = "odd:" /\ p + 1 < q
  <2>1. i + j - 1 \in i .. n /\ p + 1 < i + j - 1
    BY <1>1, <1>4, <1>5
  <2> QED BY <1>3, <1>4, <2>1
<1>7. line[p + 1] = "("
  <2>1. k + 1 \in 1 .. n - i + 1 /\ i + (k + 1) - 1 = p + 1
    BY <1>4, <1>5
  <2> QED BY <1>3, <1>4, <2>1
<1>8. PICK open \in i .. p - 1 : line[open] = "["
  BY <1>1, <1>5 DEF Begins
<1>9. PICK o : o = Open(line, i) /\ o \in i .. open
  <2>1. PICK S : S = {x \in i .. n : line[x] = "["}
    OBVIOUS
  <2>2. S \in SUBSET Nat /\ open \in S /\ 0 \notin S
    BY <1>5, <1>8, <2>1
  <2>3. PICK o : o = First(S)
    OBVIOUS
  <2>4. o # 0 /\ o \in S /\ o <= open
    BY <2>2, <2>3, FirstIs
  <2>5. o \in i .. open
    BY <2>1, <2>4
  <2> QED BY <1>1, <2>1, <2>3, <2>5 DEF Open
<1>10. PICK s : s = Separator(line, i) /\ s \in o .. p /\ line[s] = "]" /\ line[s + 1] = "("
  <2>1. PICK S : S = {x \in o .. n - 1 : line[x] = "]" /\ line[x + 1] = "("}
    OBVIOUS
  <2>2. S \in SUBSET Nat /\ p \in S /\ 0 \notin S
    BY <1>5, <1>6, <1>7, <1>8, <1>9, <2>1
  <2>3. PICK s : s = First(S)
    OBVIOUS
  <2>4. s # 0 /\ s \in S /\ s <= p
    BY <2>2, <2>3, FirstIs
  <2>5. s \in o .. p /\ line[s] = "]" /\ line[s + 1] = "("
    BY <1>9, <2>1, <2>4
  <2>6. o # 0
    BY <1>9
  <2> QED BY <1>1, <1>9, <2>1, <2>3, <2>5, <2>6 DEF Separator
<1>11. s # 0 /\ s \in 1 .. n /\ s < n
  BY <1>5, <1>6, <1>9, <1>10
<1>12. DestinationEnd(line, s + 2) = 0
  BY <1>10, <1>11 DEF Close
<1>13. q \in s + 2 .. Len(line)
  BY <1>1, <1>5, <1>6, <1>9, <1>10
<1>14. line[q] # "odd:"
  BY <1>1, <1>10, <1>11, <1>12, <1>13 DEF WellLinked
<1> QED
  BY <1>6, <1>14

\* A line whose links are rewritten has none to an unknown scheme.
LEMMA NotOddRewritten ==
  ASSUME NEW line \in Texts, WellLinked(line)
  PROVE  ~Odd(RewriteLine(line))
<1>1. PICK n \in Nat : n = Len(line)
  BY DEF Texts
<1>2. PICK rest : Rewrites(rest, line) /\ \A i \in 1 .. n + 1 : rest[i] \in Texts
  BY <1>1, RewriteRun DEF Texts
<1>3. PICK good : good = {i \in 1 .. n + 1 : Begins(line, i) => ~Odd(rest[i])}
  OBVIOUS
<1>4. ASSUME NEW i \in 1 .. n + 1, Close(line, i) # 0 => Close(line, i) + 1 \in good PROVE i \in good
  <2>1. CASE Close(line, i) = 0
    <3>1. rest[i] = SubSeq(line, i, Len(line))
      BY <1>1, <1>2, <2>1 DEF Rewrites
    <3> QED BY <1>1, <1>3, <2>1, <3>1, TailNotOdd
  <2>2. CASE Close(line, i) # 0
    <3>1. SUFFICES ASSUME Begins(line, i) PROVE ~Odd(rest[i])
      BY <1>3
    <3>2. PICK c : c = Close(line, i) /\ c + 1 \in good
      BY <1>4, <2>2
    <3>3. PICK r \in Texts : r = rest[c + 1] /\ ~Odd(r)
      <4>1. Begins(line, c + 1)
        BY <1>1, <2>2, <3>2, BeginsAfterLink
      <4> QED BY <1>2, <1>3, <3>2, <4>1
    <3>4. PICK a \in Texts : a = SubSeq(line, i, Open(line, i) - 1) /\ Whole(a)
      BY <1>1, <2>2, <3>1, BeforeType, ChunkWhole DEF Texts
    <3>5. PICK l \in Texts : l = Link(line, Open(line, i), Separator(line, i), Close(line, i)) /\ Whole(l)
      BY <1>1, <2>2, BeforeType, LinkWhole DEF Texts
    <3>6. rest[i] = (a \o l) \o r
      BY <1>1, <1>2, <2>2, <3>2, <3>3, <3>4, <3>5 DEF Rewrites, Before
    <3>7. (a \o l) \o r = a \o (l \o r)
      BY JoinTwice
    <3>8. PICK lr \in Texts : lr = l \o r /\ ~Odd(lr)
      BY <3>3, <3>5, OddOfTwo, JoinType
    <3>9. ~Odd(a \o lr)
      BY <3>4, <3>8, OddOfTwo
    <3> QED BY <3>6, <3>7, <3>8, <3>9
  <2> QED BY <2>1, <2>2
<1>5. \A i \in 1 .. n + 1 : i \in good
  BY <1>1, <1>4, FromTheEnd DEF Texts
<1>6. 1 \in good /\ Begins(line, 1)
  BY <1>5, BeginsAfterLink
<1> QED
  BY <1>2, <1>3, <1>6 DEF Rewrites

-----------------------------------------------------------------------------
(* What white space at the ends of a line does not change *)

\* A line is a fence if its first ink is three backticks.
LEMMA FenceIs ==
  ASSUME NEW line \in Texts
  PROVE  IsFence(line) <=>
           \E a \in 1 .. Len(line) - 2 :
             /\ line[a] = Backtick /\ line[a + 1] = Backtick /\ line[a + 2] = Backtick
             /\ \A m \in 1 .. a - 1 : IsSpace(line[m])
<1>1. PICK t \in Texts : t = TrimStart(line) /\ StartsInked(t)
  BY TrimmedStart
<1>2. PICK v \in Texts : Blank(v) /\ line = v \o t
  BY <1>1, TrimmedStart
<1>3. PICK n \in Nat, l \in Nat, j \in Nat : n = Len(v) /\ l = Len(t) /\ j = Len(line)
  BY DEF Texts
<1>4. /\ j = n + l
      /\ \A i \in 1 .. n : line[i] = v[i] /\ IsSpace(line[i])
      /\ \A i \in 1 .. l : line[n + i] = t[i]
  <2>1. IsJoin(line, v, t)
    BY <1>2, JoinedIs
  <2>2. \A i \in 1 .. n : IsSpace(v[i])
    BY <1>2, <1>3, BlankIs
  <2> QED BY <1>3, <2>1, <2>2 DEF IsJoin
<1>5. IsFence(line) <=> l >= 3 /\ t[1] = Backtick /\ t[2] = Backtick /\ t[3] = Backtick
  <2>1. PICK mark : mark = <<Backtick, Backtick, Backtick>>
    OBVIOUS
  <2>0. mark \in Seq({Backtick}) /\ Len(mark) = 3 /\ \A i \in 1 .. 3 : mark[i] = Backtick
    BY <2>1
  <2>2. IsPrefix(mark, t) <=> 3 <= l /\ SubSeq(mark, 1, 3) = SubSeq(t, 1, 3)
    BY <1>3, <2>0 DEF IsPrefix
  <2>3. PICK p : p = SubSeq(mark, 1, 3)
    OBVIOUS
  <2>4. p \in Seq({Backtick}) /\ Len(p) = 3 /\ \A i \in 1 .. 3 : p[i] = Backtick
    BY <2>0, <2>3
  <2>5. PICK q : q = SubSeq(t, 1, 3)
    OBVIOUS
  <2>6. ASSUME 3 <= l
        PROVE  p = q <=> t[1] = Backtick /\ t[2] = Backtick /\ t[3] = Backtick
    <3>1. q \in Seq(Characters) /\ Len(q) = 3 /\ \A i \in 1 .. 3 : q[i] = t[i]
      BY <1>3, <2>5, <2>6 DEF Texts
    <3>2. p = q <=> \A i \in 1 .. 3 : t[i] = Backtick
      <4>1. p = q => \A i \in 1 .. 3 : t[i] = Backtick
        BY <2>4, <3>1
      <4>2. ASSUME \A i \in 1 .. 3 : t[i] = Backtick PROVE p = q
        BY <2>4, <3>1, <4>2
      <4> QED BY <4>1, <4>2
    <3>3. 1 .. 3 = {1, 2, 3}
      OBVIOUS
    <3> QED BY <3>2, <3>3
  <2> QED BY <1>1, <2>1, <2>2, <2>3, <2>5, <2>6 DEF IsFence
<1>6. ASSUME IsFence(line)
      PROVE  \E a \in 1 .. j - 2 :
             /\ line[a] = Backtick /\ line[a + 1] = Backtick /\ line[a + 2] = Backtick
             /\ \A m \in 1 .. a - 1 : IsSpace(line[m])
  <2>1. PICK a \in 1 .. j - 2 : a = n + 1
    BY <1>4, <1>5, <1>6
  <2>2. line[n + 1] = t[1] /\ line[n + 2] = t[2] /\ line[n + 3] = t[3]
    BY <1>4, <1>5, <1>6
  <2>3. a + 1 = n + 2 /\ a + 2 = n + 3
    BY <2>1
  <2>4. line[a] = Backtick /\ line[a + 1] = Backtick /\ line[a + 2] = Backtick
    BY <1>5, <1>6, <2>1, <2>2, <2>3
  <2>5. \A m \in 1 .. a - 1 : IsSpace(line[m])
    BY <1>4, <2>1
  <2> QED BY <2>4, <2>5
<1>7. ASSUME NEW a \in 1 .. j - 2,
             line[a] = Backtick, line[a + 1] = Backtick, line[a + 2] = Backtick,
             \A m \in 1 .. a - 1 : IsSpace(line[m])
      PROVE  IsFence(line)
  <2>1. ~(a <= n)
    <3>1. ~IsSpace(line[a])
      BY <1>7 DEF IsSpace, Space, NL, Backtick
    <3> QED BY <1>4, <3>1
  <2>2. ~(a > n + 1)
    <3>1. SUFFICES ASSUME a > n + 1 PROVE FALSE
      OBVIOUS
    <3>2. n + 1 \in 1 .. a - 1 /\ 1 \in 1 .. l
      BY <1>4, <3>1
    <3>3. IsSpace(t[1]) /\ t # <<>>
      BY <1>3, <1>4, <1>7, <3>2
    <3> QED BY <1>1, <3>3 DEF StartsInked
  <2>3. a = n + 1 /\ l >= 3 /\ a + 1 = n + 2 /\ a + 2 = n + 3
    BY <1>4, <2>1, <2>2
  <2>4. line[n + 1] = t[1] /\ line[n + 2] = t[2] /\ line[n + 3] = t[3]
    BY <1>4, <2>3
  <2>5. t[1] = Backtick /\ t[2] = Backtick /\ t[3] = Backtick
    BY <1>7, <2>3, <2>4
  <2> QED BY <1>5, <2>3, <2>5
<1> QED
  BY <1>3, <1>6, <1>7

\* A fence is one whatever follows on its line; and it is none by what is blank.
LEMMA FenceOfTwo ==
  ASSUME NEW x \in Texts, NEW y \in Texts
  PROVE  /\ IsFence(x) => IsFence(x \o y)
         /\ IsFence(x \o y) /\ Blank(y) => IsFence(x)
<1>1. PICK n \in Nat, l \in Nat : n = Len(x) /\ l = Len(y)
  BY DEF Texts
<1>2. PICK all \in Texts : all = x \o y
  BY JoinType
<1>3. /\ Len(all) = n + l
      /\ \A i \in 1 .. n : all[i] = x[i]
      /\ \A i \in 1 .. l : all[n + i] = y[i]
  BY <1>1, <1>2, JoinedIs DEF IsJoin
<1>4. ASSUME IsFence(x) PROVE IsFence(all)
  <2>1. PICK a \in 1 .. n - 2 :
             /\ x[a] = Backtick /\ x[a + 1] = Backtick /\ x[a + 2] = Backtick
             /\ \A m \in 1 .. a - 1 : IsSpace(x[m])
    BY <1>1, <1>4, FenceIs
  <2>2. a \in 1 .. (n + l) - 2 /\ a \in 1 .. n /\ a + 1 \in 1 .. n /\ a + 2 \in 1 .. n
    BY <1>1
  <2>3. all[a] = Backtick /\ all[a + 1] = Backtick /\ all[a + 2] = Backtick
    BY <1>3, <2>1, <2>2
  <2>4. \A m \in 1 .. a - 1 : m \in 1 .. n /\ IsSpace(all[m])
    BY <1>3, <2>1, <2>2
  <2> QED BY <1>3, <2>2, <2>3, <2>4, FenceIs
<1>5. ASSUME IsFence(all), Blank(y) PROVE IsFence(x)
  <2>1. PICK a \in 1 .. (n + l) - 2 :
             /\ all[a] = Backtick /\ all[a + 1] = Backtick /\ all[a + 2] = Backtick
             /\ \A m \in 1 .. a - 1 : IsSpace(all[m])
    BY <1>3, <1>5, FenceIs
  <2>2. \A i \in 1 .. l : IsSpace(y[i])
    BY <1>1, <1>5, BlankIs
  <2>3. a + 2 <= n
    <3>1. SUFFICES ASSUME a + 2 > n PROVE FALSE
      BY <1>1
    <3>2. a + 2 - n \in 1 .. l /\ n + (a + 2 - n) = a + 2
      BY <3>1
    <3>3. PICK i \in 1 .. l : n + i = a + 2
      BY <3>2
    <3>4. IsSpace(Backtick)
      BY <1>3, <2>1, <2>2, <3>3
    <3> QED BY <3>4 DEF IsSpace, Space, NL, Backtick
  <2>4. a \in 1 .. n - 2 /\ a \in 1 .. n /\ a + 1 \in 1 .. n /\ a + 2 \in 1 .. n
    BY <2>3
  <2>5. x[a] = Backtick /\ x[a + 1] = Backtick /\ x[a + 2] = Backtick
    BY <1>3, <2>1, <2>4
  <2>6. \A m \in 1 .. a - 1 : m \in 1 .. n /\ IsSpace(x[m])
    BY <1>3, <2>1, <2>4
  <2> QED BY <1>1, <2>4, <2>5, <2>6, FenceIs
<1> QED
  BY <1>2, <1>4, <1>5

\* A link to an unknown scheme is one whatever stands around it; and none begins or ends
\* in what is blank.
LEMMA OddAround ==
  ASSUME NEW a \in Texts, NEW b \in Texts
  PROVE  /\ Odd(b) => Odd(a \o b)
         /\ Odd(a) => Odd(a \o b)
         /\ Odd(a \o b) /\ Blank(a) => Odd(b)
         /\ Odd(a \o b) /\ Blank(b) => Odd(a)
<1>1. PICK n \in Nat, l \in Nat : n = Len(a) /\ l = Len(b)
  BY DEF Texts
<1>2. PICK all : all = a \o b
  OBVIOUS
<1>3. /\ DOMAIN all = 1 .. n + l /\ DOMAIN b = 1 .. l /\ DOMAIN a = 1 .. n
      /\ \A i \in 1 .. n : all[i] = a[i]
      /\ \A i \in 1 .. l : all[n + i] = b[i]
  BY <1>1, <1>2, JoinedIs DEF IsJoin, Texts
<1>4. ASSUME Odd(b) PROVE Odd(all)
  <2>1. PICK k \in 1 .. l, j \in 1 .. l :
          /\ k + 1 < j /\ b[k] = "]" /\ b[k + 1] = "(" /\ b[j] = "odd:"
          /\ \A m \in k + 2 .. j - 1 : IsSpace(b[m])
    BY <1>3, <1>4 DEF Odd
  <2>2. PICK p \in 1 .. n + l, q \in 1 .. n + l : p = n + k /\ q = n + j
    <3>1. n + k \in 1 .. n + l /\ n + j \in 1 .. n + l
      OBVIOUS
    <3> QED BY <3>1
  <2>3. k + 1 \in 1 .. l /\ p + 1 = n + (k + 1)
    BY <2>1, <2>2
  <2>4. all[p] = "]" /\ all[p + 1] = "(" /\ all[q] = "odd:" /\ p + 1 < q
    BY <1>3, <2>1, <2>2, <2>3
  <2>5. ASSUME NEW m \in p + 2 .. q - 1 PROVE IsSpace(all[m])
    <3>1. m - n \in k + 2 .. j - 1 /\ m - n \in 1 .. l /\ n + (m - n) = m
      BY <2>2
    <3>2. all[n + (m - n)] = b[m - n]
      BY <1>3, <3>1
    <3> QED BY <2>1, <3>1, <3>2
  <2> QED BY <1>3, <2>4, <2>5 DEF Odd
<1>5. ASSUME Odd(a) PROVE Odd(all)
  <2>1. PICK k \in 1 .. n, j \in 1 .. n :
          /\ k + 1 < j /\ a[k] = "]" /\ a[k + 1] = "(" /\ a[j] = "odd:"
          /\ \A m \in k + 2 .. j - 1 : IsSpace(a[m])
    BY <1>3, <1>5 DEF Odd
  <2>2. k \in 1 .. n + l /\ j \in 1 .. n + l /\ k + 1 \in 1 .. n /\ \A m \in k + 2 .. j - 1 : m \in 1 .. n
    BY <2>1
  <2>3. all[k] = "]" /\ all[k + 1] = "(" /\ all[j] = "odd:" /\ \A m \in k + 2 .. j - 1 : IsSpace(all[m])
    BY <1>3, <2>1, <2>2
  <2> QED BY <1>3, <2>1, <2>2, <2>3 DEF Odd
<1>6. ASSUME Odd(all), Blank(a) PROVE Odd(b)
  <2>1. \A k \in 1 .. Len(a) : IsSpace(a[k])
    BY <1>6, BlankIs
  <2>2. Whole(a)
    BY <2>1 DEF Whole, IsSpace, Space, NL
  <2> QED BY <1>2, <1>6, <2>2, OddOfTwo
<1>7. ASSUME Odd(all), Blank(b) PROVE Odd(a)
  <2>1. PICK k \in 1 .. n + l, j \in 1 .. n + l :
          /\ k + 1 < j /\ all[k] = "]" /\ all[k + 1] = "(" /\ all[j] = "odd:"
          /\ \A m \in k + 2 .. j - 1 : IsSpace(all[m])
    BY <1>3, <1>7 DEF Odd
  <2>2. \A i \in 1 .. l : IsSpace(b[i])
    BY <1>1, <1>7, BlankIs
  <2>3. j <= n
    <3>1. SUFFICES ASSUME j > n PROVE FALSE
      BY <1>1
    <3>2. j - n \in 1 .. l /\ n + (j - n) = j
      BY <3>1
    <3>3. PICK i \in 1 .. l : n + i = j
      BY <3>2
    <3>4. IsSpace("odd:")
      BY <1>3, <2>1, <2>2, <3>3
    <3> QED BY <3>4 DEF IsSpace, Space, NL
  <2>4. k \in 1 .. n /\ j \in 1 .. n /\ k + 1 \in 1 .. n /\ \A m \in k + 2 .. j - 1 : m \in 1 .. n
    BY <2>1, <2>3
  <2>5. a[k] = "]" /\ a[k + 1] = "(" /\ a[j] = "odd:" /\ \A m \in k + 2 .. j - 1 : IsSpace(a[m])
    BY <1>3, <2>1, <2>4
  <2> QED BY <1>3, <2>1, <2>4, <2>5 DEF Odd
<1> QED
  BY <1>2, <1>4, <1>5, <1>6, <1>7

\* Trimmed, a line is a fence, has a link to an unknown scheme, and is blank as before.
LEMMA TrimmedAlike ==
  ASSUME NEW line \in Texts
  PROVE  /\ IsFence(Trim(line)) <=> IsFence(line)
         /\ Odd(Trim(line)) <=> Odd(line)
         /\ Blank(Trim(line)) <=> Blank(line)
<1>1. PICK s \in Texts : s = TrimStart(line) /\ StartsInked(s)
  BY TrimmedStart
<1>2. PICK v \in Texts : Blank(v) /\ line = v \o s
  BY <1>1, TrimmedStart
<1>3. PICK t \in Texts : t = TrimEnd(s) /\ t = Trim(line)
  BY <1>1, TrimEndType DEF Trim
<1>4. PICK w \in Texts : Blank(w) /\ s = t \o w
  BY <1>3, TrimmedEnd
<1>5. IsFence(line) <=> IsFence(s)
  <2>1. TrimStart(s) = s
    <3>1. <<>> \in Texts /\ Blank(<<>>)
      BY NewlineIsText DEF Blank, Inked
    <3> QED BY <1>1, <3>1, TrimStartOf, JoinNothing
  <2> QED BY <1>1, <2>1 DEF IsFence
<1>6. IsFence(s) <=> IsFence(t)
  BY <1>4, FenceOfTwo
<1>7. Odd(line) <=> Odd(s)
  BY <1>2, OddAround
<1>8. Odd(s) <=> Odd(t)
  BY <1>4, OddAround
<1>9. Blank(t) <=> Blank(line)
  BY <1>2, <1>4, BlankOfTwo
<1> QED
  BY <1>3, <1>5, <1>6, <1>7, <1>8, <1>9

\* A fence is still one when the links of its line are rewritten.
LEMMA FenceRewritten ==
  ASSUME NEW line \in Texts, IsFence(line)
  PROVE  IsFence(RewriteLine(line))
<1>1. PICK n \in Nat : n = Len(line)
  BY DEF Texts
<1>2. PICK rest : Rewrites(rest, line) /\ \A i \in 1 .. n + 1 : rest[i] \in Texts
  BY <1>1, RewriteRun DEF Texts
<1>3. 1 \in 1 .. n + 1
  OBVIOUS
<1>4. CASE Close(line, 1) = 0
  <2>1. rest[1] = SubSeq(line, 1, n)
    BY <1>1, <1>2, <1>3, <1>4 DEF Rewrites
  <2>2. SubSeq(line, 1, n) = line
    BY <1>1 DEF Texts
  <2> QED BY <1>2, <2>1, <2>2 DEF Rewrites
<1>5. CASE Close(line, 1) # 0
  <2>1. PICK o, c : o = Open(line, 1) /\ c = Close(line, 1)
    OBVIOUS
  <2>2. o \in 1 .. n /\ line[o] = "[" /\ c + 1 \in 1 .. n + 1
    BY <1>1, <1>3, <1>5, <2>1, LinkWithin DEF Texts
  <2>3. PICK x \in Texts : x = SubSeq(line, 1, o - 1)
    BY <1>1, <1>3, <1>5, <2>1, BeforeType DEF Texts
  <2>4. PICK l \in Texts : l = Link(line, o, Separator(line, 1), c)
    BY <1>1, <1>3, <1>5, <2>1, BeforeType DEF Texts
  <2>5. PICK r \in Texts : r = rest[c + 1]
    BY <1>2, <2>2
  <2>6. rest[1] = (x \o l) \o r
    BY <1>1, <1>2, <1>3, <1>5, <2>1, <2>3, <2>4, <2>5 DEF Rewrites, Before
  <2>7. PICK a \in 1 .. n - 2 :
             /\ line[a] = Backtick /\ line[a + 1] = Backtick /\ line[a + 2] = Backtick
             /\ \A m \in 1 .. a - 1 : IsSpace(line[m])
    BY <1>1, FenceIs
  <2>8. ~IsSpace(line[o]) /\ line[o] # Backtick
    BY <2>2 DEF IsSpace, Space, NL, Backtick
  <2>9. a + 2 < o
    <3>1. o \notin 1 .. a - 1 /\ o # a /\ o # a + 1 /\ o # a + 2
      BY <2>7, <2>8
    <3> QED BY <2>2, <3>1
  <2>10. Len(x) = o - 1 /\ \A m \in 1 .. o - 1 : x[m] = line[m]
    BY <1>1, <2>2, <2>3 DEF Texts
  <2>11. a \in 1 .. (o - 1) - 2 /\ a \in 1 .. o - 1 /\ a + 1 \in 1 .. o - 1 /\ a + 2 \in 1 .. o - 1
    BY <2>2, <2>9
  <2>12. x[a] = Backtick /\ x[a + 1] = Backtick /\ x[a + 2] = Backtick
    BY <2>7, <2>10, <2>11
  <2>13. \A m \in 1 .. a - 1 : m \in 1 .. o - 1 /\ IsSpace(x[m])
    BY <2>7, <2>10, <2>11
  <2>14. IsFence(x)
    BY <2>10, <2>11, <2>12, <2>13, FenceIs
  <2>15. PICK xl \in Texts : xl = x \o l /\ IsFence(xl)
    BY <2>14, FenceOfTwo, JoinType
  <2>16. IsFence(xl \o r)
    BY <2>15, FenceOfTwo
  <2> QED BY <1>2, <2>6, <2>15, <2>16 DEF Rewrites
<1> QED
  BY <1>4, <1>5

-----------------------------------------------------------------------------
(* The lines of a text that are not blank *)

Inky == {line \in Flat : ~Blank(line)}

\* A line without newlines is a text.
LEMMA FlatIsText ==
  ASSUME NEW line \in Flat
  PROVE  line \in Texts
  BY DEF Flat, Texts

\* A fence is not blank, nor is a line with a link.
LEMMA InkOfLines ==
  ASSUME NEW line \in Texts
  PROVE  /\ IsFence(line) => ~Blank(line)
         /\ Odd(line) => ~Blank(line)
<1>1. ASSUME IsFence(line) PROVE ~Blank(line)
  <2>1. PICK a \in 1 .. Len(line) - 2 : line[a] = Backtick
    BY <1>1, FenceIs
  <2>2. ~IsSpace(line[a]) /\ a \in 1 .. Len(line)
    BY <2>1 DEF IsSpace, Space, NL, Backtick, Texts
  <2> QED BY <2>2, BlankIs
<1>2. ASSUME Odd(line) PROVE ~Blank(line)
  <2>1. PICK k \in DOMAIN line : line[k] = "]"
    BY <1>2 DEF Odd
  <2>2. ~IsSpace(line[k]) /\ k \in 1 .. Len(line)
    BY <2>1 DEF IsSpace, Space, NL, Texts
  <2> QED BY <2>2, BlankIs
<1> QED
  BY <1>1, <1>2

\* The places of the lines that are not blank.
InkAt(ls, E, t, m) ==
  E = PlacesOf(ls, Inky) /\ t \in [1 .. m -> E] /\ Takes(t, m, E) /\ t = InOrder(E, Upward(E))

\* There are such places, and what is there are the lines that are not blank.
LEMMA InkPlaces ==
  ASSUME NEW n \in Nat, NEW ls \in Seq(Flat), n = Len(ls)
  PROVE  \E m \in Nat : \E E \in SUBSET (1 .. n) : \E t \in [1 .. m -> E] :
           /\ InkAt(ls, E, t, m) /\ Picks(Kept(ls, Inky), ls, t, m)
           /\ \A i \in 1 .. n : i \in E <=> ~Blank(ls[i])
           /\ \A a \in 1 .. m : t[a] \in 1 .. n
<1>1. PICK E : E = PlacesOf(ls, Inky)
  OBVIOUS
<1>2. E \in SUBSET (1 .. n) /\ \A i \in 1 .. n : i \in E <=> ~Blank(ls[i])
  BY <1>1 DEF PlacesOf, Inky
<1>3. PICK m \in Nat : \E t \in [1 .. m -> E] : Takes(t, m, E) /\ t = InOrder(E, Upward(E))
  BY <1>2, TakenInOrder
<1>4. PICK t \in [1 .. m -> E] : Takes(t, m, E) /\ t = InOrder(E, Upward(E))
  BY <1>3
<1>5. DOMAIN t = 1 .. m
  OBVIOUS
<1>6. Kept(ls, Inky) = [a \in 1 .. m |-> ls[t[a]]]
  BY <1>1, <1>4, <1>5 DEF Kept, Those, Picked
<1>7. InkAt(ls, E, t, m) /\ Picks(Kept(ls, Inky), ls, t, m)
  BY <1>1, <1>4, <1>6 DEF InkAt, Picks
<1>8. \A a \in 1 .. m : t[a] \in 1 .. n
  BY <1>2
<1> QED
  BY <1>2, <1>7, <1>8

\* A fence is open at a line that is not blank, if it is open there among such lines.
LEMMA FencesInked ==
  ASSUME NEW n \in Nat, NEW ls \in Seq(Flat), n = Len(ls), NEW m \in Nat, NEW E \in SUBSET (1 .. n),
         NEW t \in [1 .. m -> E], InkAt(ls, E, t, m), NEW s, Picks(s, ls, t, m), NEW k \in 1 .. m
  PROVE  InFence(s, k) <=> InFence(ls, t[k])
<1>1. \A a \in 1 .. m : s[a] = ls[t[a]] /\ t[a] \in E /\ t[a] \in 1 .. n
  BY DEF Picks
<1>2. \A i \in 1 .. n : ls[i] \in Flat /\ ls[i] \in Texts
  BY ElementOfSeq, FlatIsText
<1>3. PICK A : A = {j \in 1 .. k : IsFence(s[j])}
  OBVIOUS
<1>4. PICK B : B = {i \in 1 .. t[k] : IsFence(ls[i])}
  OBVIOUS
<1>5. PICK f : f = [j \in A |-> t[j]]
  OBVIOUS
<1>6. \A a, b \in 1 .. m : a < b => t[a] < t[b]
  BY DEF InkAt, Takes
<1>7. ASSUME NEW j \in A PROVE f[j] = t[j] /\ j \in 1 .. m /\ j \in 1 .. k /\ t[j] \in B
  <2>1. j \in 1 .. k /\ j \in 1 .. m /\ IsFence(s[j])
    BY <1>3
  <2>2. t[j] <= t[k]
    <3>1. CASE j = k
      BY <1>1, <3>1
    <3>2. CASE j # k
      <4>1. j < k
        BY <2>1, <3>2
      <4>2. t[j] < t[k]
        BY <1>6, <2>1, <4>1
      <4> QED BY <1>1, <2>1, <4>2
    <3> QED BY <3>1, <3>2
  <2>3. t[j] \in 1 .. t[k]
    BY <1>1, <2>1, <2>2
  <2>4. IsFence(ls[t[j]])
    BY <1>1, <2>1
  <2> QED BY <1>4, <1>5, <2>1, <2>3, <2>4
<1>8. ASSUME NEW i \in B PROVE \E j \in A : f[j] = i
  <2>1. i \in 1 .. t[k] /\ i \in 1 .. n /\ IsFence(ls[i])
    BY <1>1, <1>4
  <2>2. i \in E
    <3>1. ~Blank(ls[i]) /\ ls[i] \in Flat
      BY <1>2, <2>1, InkOfLines
    <3> QED BY <2>1, <3>1 DEF InkAt, PlacesOf, Inky
  <2>3. PICK j \in 1 .. m : t[j] = i
    BY <2>2 DEF InkAt, Takes
  <2>4. j \in 1 .. k
    <3>1. SUFFICES ASSUME k < j PROVE FALSE
      OBVIOUS
    <3>2. t[k] < t[j]
      BY <1>6, <3>1
    <3> QED BY <1>1, <2>1, <2>3, <3>2
  <2>5. j \in A
    BY <1>1, <1>3, <2>1, <2>3, <2>4
  <2> QED BY <1>7, <2>3, <2>5
<1>9. ASSUME NEW j \in A, NEW l \in A, f[j] = f[l] PROVE j = l
  <2>1. j \in 1 .. m /\ l \in 1 .. m /\ t[j] = t[l] /\ t[j] \in 1 .. n
    BY <1>1, <1>7, <1>9
  <2>2. ~(j < l)
    BY <1>6, <2>1
  <2>3. ~(l < j)
    BY <1>6, <2>1
  <2> QED BY <2>1, <2>2, <2>3
<1>10. f \in [A -> B]
  BY <1>5, <1>7
<1>11. f \in Bijection(A, B)
  <2>1. f \in Injection(A, B)
    BY <1>9, <1>10 DEF Injection, IsInjective
  <2>2. f \in Surjection(A, B)
    BY <1>8, <1>10 DEF Surjection
  <2> QED BY <2>1, <2>2 DEF Bijection
<1>12. IsFiniteSet(A)
  <2>1. IsFiniteSet(1 .. k)
    BY FS_Interval
  <2>2. A \subseteq 1 .. k
    BY <1>3
  <2> QED BY <2>1, <2>2, FS_Subset
<1>13. Cardinality(A) = Cardinality(B)
  BY <1>11, <1>12, FS_Bijection DEF ExistsBijection
<1> QED
  BY <1>3, <1>4, <1>13 DEF InFence

\* Where code is.
CodeAt(ls) == {i \in DOMAIN ls : InFence(ls, i) /\ ~IsFence(ls[i]) /\ ~Blank(ls[i])}

\* Blank lines make no difference to what is code, and to the links outside it.
LEMMA CodeInked ==
  ASSUME NEW ls \in Seq(Flat)
  PROVE  /\ CodeLines(ls) = CodeLines(Kept(ls, Inky))
         /\ OddLinks(ls) = {} <=> OddLinks(Kept(ls, Inky)) = {}
<1>1. PICK n \in Nat : n = Len(ls) /\ DOMAIN ls = 1 .. n
  OBVIOUS
<1>2. PICK s : s = Kept(ls, Inky)
  OBVIOUS
<1>3. PICK m \in Nat : \E E \in SUBSET (1 .. n) : \E t \in [1 .. m -> E] :
           /\ InkAt(ls, E, t, m) /\ Picks(s, ls, t, m)
           /\ \A i \in 1 .. n : i \in E <=> ~Blank(ls[i])
           /\ \A a \in 1 .. m : t[a] \in 1 .. n
  BY <1>1, <1>2, InkPlaces
<1>4. PICK E \in SUBSET (1 .. n) : \E t \in [1 .. m -> E] :
           /\ InkAt(ls, E, t, m) /\ Picks(s, ls, t, m)
           /\ \A i \in 1 .. n : i \in E <=> ~Blank(ls[i])
           /\ \A a \in 1 .. m : t[a] \in 1 .. n
  BY <1>3
<1>5. PICK t \in [1 .. m -> E] :
           /\ InkAt(ls, E, t, m) /\ Picks(s, ls, t, m)
           /\ \A i \in 1 .. n : i \in E <=> ~Blank(ls[i])
           /\ \A a \in 1 .. m : t[a] \in 1 .. n
  BY <1>4
<1>6. DOMAIN s = 1 .. m /\ \A a \in 1 .. m : s[a] = ls[t[a]]
  BY <1>5 DEF Picks
<1>7. \A a \in 1 .. m : InFence(s, a) <=> InFence(ls, t[a])
  BY <1>1, <1>5, FencesInked
<1>8. PICK C : C = CodeAt(ls)
  OBVIOUS
<1>9. C \in SUBSET E
  BY <1>1, <1>5, <1>8 DEF CodeAt
<1>10. CodeAt(s) = PlacesOf(t, C)
  <2>1. \A a \in 1 .. m : a \in CodeAt(s) <=> t[a] \in C
    BY <1>1, <1>5, <1>6, <1>7, <1>8 DEF CodeAt
  <2>2. DOMAIN t = 1 .. m
    OBVIOUS
  <2> QED BY <1>6, <2>1, <2>2 DEF CodeAt, PlacesOf
<1>11. Those(s, CodeAt(s)) = Those(ls, C)
  <2>1. s = Those(ls, E) /\ t = InOrder(E, Upward(E))
    BY <1>2, <1>5 DEF InkAt, Kept
  <2> QED BY <1>9, <1>10, <2>1, ThoseOfThose
<1>12. CodeLines(s) = CodeLines(ls)
  BY <1>8, <1>11 DEF CodeLines, CodeAt
<1>13. ASSUME OddLinks(ls) = {} PROVE OddLinks(s) = {}
  <2>1. ASSUME NEW a \in 1 .. m, ~InFence(s, a), Odd(s[a]) PROVE FALSE
    BY <1>1, <1>5, <1>6, <1>7, <1>13, <2>1 DEF OddLinks
  <2> QED BY <1>6, <2>1 DEF OddLinks
<1>14. ASSUME OddLinks(s) = {} PROVE OddLinks(ls) = {}
  <2>1. ASSUME NEW i \in 1 .. n, ~InFence(ls, i), Odd(ls[i]) PROVE FALSE
    <3>1. ls[i] \in Texts
      BY <1>1, ElementOfSeq, FlatIsText
    <3>2. i \in E
      BY <1>5, <2>1, <3>1, InkOfLines
    <3>3. PICK a \in 1 .. m : t[a] = i
      BY <1>5, <3>2 DEF InkAt, Takes
    <3> QED BY <1>6, <1>7, <1>14, <2>1, <3>3 DEF OddLinks
  <2> QED BY <1>1, <2>1 DEF OddLinks
<1> QED
  BY <1>2, <1>12, <1>13, <1>14

\* Lines that differ in white space only, all but the first at their ends.
Alike(s, t) ==
  /\ Len(s) = Len(t)
  /\ \A a \in 1 .. Len(s) : Trim(s[a]) = Trim(t[a]) /\ (a > 1 => TrimEnd(s[a]) = TrimEnd(t[a]))

\* The same lines of such lines are code, and the same have links to unknown schemes.
LEMMA CodeAlike ==
  ASSUME NEW s \in Seq(Texts), NEW t \in Seq(Texts), Alike(s, t)
  PROVE  CodeLines(s) = CodeLines(t) /\ OddLinks(s) = OddLinks(t)
<1>1. PICK n \in Nat : n = Len(s) /\ n = Len(t) /\ DOMAIN s = 1 .. n /\ DOMAIN t = 1 .. n
  BY DEF Alike
<1>2. ASSUME NEW a \in 1 .. n
      PROVE  /\ IsFence(s[a]) <=> IsFence(t[a])
             /\ Odd(s[a]) <=> Odd(t[a])
             /\ Blank(s[a]) <=> Blank(t[a])
             /\ a > 1 => TrimEnd(s[a]) = TrimEnd(t[a])
  <2>1. PICK x \in Texts : x = s[a]
    BY <1>1, ElementOfSeq
  <2>2. PICK y \in Texts : y = t[a]
    BY <1>1, ElementOfSeq
  <2>3. Trim(x) = Trim(y) /\ (a > 1 => TrimEnd(x) = TrimEnd(y))
    BY <1>1, <2>1, <2>2 DEF Alike
  <2>4. /\ IsFence(Trim(x)) <=> IsFence(x)
        /\ Odd(Trim(x)) <=> Odd(x)
        /\ Blank(Trim(x)) <=> Blank(x)
    BY TrimmedAlike
  <2>5. /\ IsFence(Trim(y)) <=> IsFence(y)
        /\ Odd(Trim(y)) <=> Odd(y)
        /\ Blank(Trim(y)) <=> Blank(y)
    BY TrimmedAlike
  <2> QED BY <2>1, <2>2, <2>3, <2>4, <2>5
<1>3. ASSUME NEW i \in 1 .. n PROVE InFence(s, i) <=> InFence(t, i)
  <2>1. {k \in 1 .. i : IsFence(s[k])} = {k \in 1 .. i : IsFence(t[k])}
    BY <1>2
  <2> QED BY <2>1 DEF InFence
<1>4. OddLinks(s) = OddLinks(t)
  BY <1>1, <1>2, <1>3 DEF OddLinks
<1>5. PICK C : C = CodeAt(s)
  OBVIOUS
<1>6. C = CodeAt(t)
  BY <1>1, <1>2, <1>3, <1>5 DEF CodeAt
<1>7. C \in SUBSET (1 .. n)
  BY <1>1, <1>5 DEF CodeAt
<1>8. ASSUME NEW i \in C PROVE i > 1
  <2>1. SUFFICES ASSUME i = 1 PROVE FALSE
    BY <1>7
  <2>2. ~IsFence(s[1]) /\ InFence(s, 1)
    BY <1>5, <2>1 DEF CodeAt
  <2>3. PICK F : F = {k \in 1 .. 1 : IsFence(s[k])}
    OBVIOUS
  <2>4. F = {}
    BY <2>2, <2>3
  <2>5. Cardinality(F) = 0
    BY <2>4, FS_EmptySet
  <2> QED BY <2>2, <2>3, <2>5 DEF InFence
<1>9. PICK m \in Nat : \E u \in [1 .. m -> C] : Takes(u, m, C) /\ u = InOrder(C, Upward(C))
  BY <1>7, TakenInOrder
<1>10. PICK u \in [1 .. m -> C] : u = InOrder(C, Upward(C))
  BY <1>9
<1>11. DOMAIN u = 1 .. m
  OBVIOUS
<1>12. Those(s, C) = [a \in 1 .. m |-> s[u[a]]] /\ Those(t, C) = [a \in 1 .. m |-> t[u[a]]]
  BY <1>10, <1>11 DEF Those, Picked
<1>13. \A a \in 1 .. m : TrimEnd(s[u[a]]) = TrimEnd(t[u[a]])
  <2>1. \A a \in 1 .. m : u[a] \in C
    OBVIOUS
  <2> QED BY <1>2, <1>7, <1>8, <2>1
<1>14. PICK x : x = Those(s, C)
  OBVIOUS
<1>15. PICK y : y = Those(t, C)
  OBVIOUS
<1>16. /\ DOMAIN x = 1 .. m /\ \A a \in 1 .. m : x[a] = s[u[a]]
       /\ DOMAIN y = 1 .. m /\ \A a \in 1 .. m : y[a] = t[u[a]]
  BY <1>12, <1>14, <1>15
<1>17. CodeLines(s) = [k \in DOMAIN x |-> TrimEnd(x[k])] /\ CodeLines(t) = [k \in DOMAIN y |-> TrimEnd(y[k])]
  BY <1>5, <1>6, <1>14, <1>15 DEF CodeLines, CodeAt
<1>18. CodeLines(s) = CodeLines(t)
  BY <1>13, <1>16, <1>17
<1> QED
  BY <1>4, <1>18

-----------------------------------------------------------------------------
(* The lines of texts put together *)

\* One list after another, and one thing after both.
After(all, x, y) ==
  /\ Len(all) = Len(x) + Len(y)
  /\ \A i \in 1 .. Len(x) : all[i] = x[i]
  /\ \A i \in 1 .. Len(y) : all[Len(x) + i] = y[i]
Adds(x, y, e) == Append(x \o y, e) = x \o Append(y, e) /\ Append(x, e) = x \o <<e>>

\* That is what joining lists comes to.
LEMMA ListJoined ==
  ASSUME NEW S, NEW x \in Seq(S), NEW y \in Seq(S)
  PROVE  After(x \o y, x, y)
  BY DEF After

\* What is added to two lists is added to the second.
LEMMA AppendJoined ==
  ASSUME NEW S, NEW x \in Seq(S), NEW y \in Seq(S), NEW e \in S
  PROVE  Adds(x, y, e)
<1>1. Append(x, e) = x \o <<e>>
  OBVIOUS
<1>2. Append(x \o y, e) = (x \o y) \o <<e>>
  OBVIOUS
<1>3. Append(y, e) = y \o <<e>>
  OBVIOUS
<1>4. (x \o y) \o <<e>> = x \o (y \o <<e>>)
  <2>1. <<e>> \in Seq(S)
    OBVIOUS
  <2> QED BY <2>1, ConcatAssociative
<1> QED
  BY <1>1, <1>2, <1>3, <1>4 DEF Adds

\* A line has no other characters than its text.
LEMMA LinesWithin ==
  ASSUME NEW S0, NEW text \in Texts, text \in Seq(S0)
  PROVE  Lines(text) \in Seq(Seq(S0))
<1>1. PICK n \in Nat : n = Len(text) /\ \A i \in 1 .. n : text[i] \in S0
  BY DEF Texts
<1>2. PICK h \in [0 .. n -> FlatRows] : Splits(h, text)
  BY <1>1, LinesRun
<1>3. PICK good : good = {k \in 0 .. n : h[k] \in Seq(Seq(S0)) /\ h[k] # <<>>}
  OBVIOUS
<1>4. 0 \in good
  <2>1. << <<>> >> \in Seq(Seq(S0)) /\ << <<>> >> # <<>>
    OBVIOUS
  <2>2. h[0] = << <<>> >>
    BY <1>2 DEF Splits
  <2>3. h[0] \in Seq(Seq(S0)) /\ h[0] # <<>> /\ 0 \in 0 .. n
    BY <2>1, <2>2
  <2> QED BY <1>3, <2>3
<1>5. ASSUME NEW k \in 0 .. n - 1, k \in good PROVE k + 1 \in good
  <2>1. PICK c \in S0 : c = text[k + 1] /\ h[k + 1] = LineStep(c, h[k])
    BY <1>1, <1>2 DEF Splits
  <2>2. PICK ls \in Seq(Seq(S0)) : ls = h[k] /\ ls # <<>>
    BY <1>3, <1>5
  <2>3. k + 1 \in 0 .. n
    OBVIOUS
  <2>4. CASE c = NL
    <3>1. LineStep(c, ls) = Append(ls, <<>>) /\ <<>> \in Seq(S0)
      BY <2>4 DEF LineStep
    <3>2. Append(ls, <<>>) \in Seq(Seq(S0)) /\ Append(ls, <<>>) # <<>>
      BY <3>1
    <3> QED BY <1>3, <2>1, <2>2, <2>3, <3>1, <3>2
  <2>5. CASE c # NL
    <3>1. PICK i \in Nat \ {0} : i = Len(ls)
      BY <2>2
    <3>2. PICK e \in Seq(S0) : e = Append(ls[i], c)
      <4>1. ls[i] \in Seq(S0)
        BY <2>2, <3>1, ElementOfSeq
      <4> QED BY <4>1, AppendProperties
    <3>3. LineStep(c, ls) = [ls EXCEPT ![i] = e]
      BY <2>5, <3>1, <3>2 DEF LineStep
    <3>4. LineStep(c, ls) \in Seq(Seq(S0)) /\ Len(LineStep(c, ls)) = Len(ls)
      BY <2>2, <3>1, <3>2, <3>3, ExceptSeq
    <3>5. LineStep(c, ls) # <<>>
      BY <3>1, <3>4
    <3> QED BY <1>3, <2>1, <2>2, <2>3, <3>4, <3>5
  <2> QED BY <2>4, <2>5
<1>6. \A k \in 0 .. n : k \in good
  BY <1>4, <1>5, UpTo
<1>7. n \in good
  BY <1>6
<1> QED
  BY <1>1, <1>2, <1>3, <1>7 DEF Splits

\* A character is read into the last of some lines, whatever lines come before them.
LEMMA LineStepAfter ==
  ASSUME NEW c \in Characters, NEW x \in FlatRows, NEW y \in FlatRows
  PROVE  LineStep(c, x \o y) = x \o LineStep(c, y) /\ x \o y \in FlatRows
<1>1. PICK n \in Nat \ {0}, l \in Nat \ {0} : n = Len(x) /\ l = Len(y)
  BY DEF FlatRows
<1>2. x \in Seq(Flat) /\ y \in Seq(Flat) /\ <<>> \in Flat
  BY DEF FlatRows, Flat
<1>3. PICK all \in Seq(Flat) : all = x \o y
  BY <1>2, ConcatProperties
<1>4. /\ Len(all) = n + l /\ \A i \in 1 .. n : all[i] = x[i]
      /\ \A i \in 1 .. l : all[n + i] = y[i]
  BY <1>1, <1>2, <1>3
<1>5. all \in FlatRows
  BY <1>1, <1>4 DEF FlatRows
<1>6. CASE c = NL
  <2>1. LineStep(c, all) = Append(all, <<>>) /\ LineStep(c, y) = Append(y, <<>>)
    BY <1>6 DEF LineStep
  <2>2. Append(all, <<>>) = x \o Append(y, <<>>)
    <3>1. PICK e \in Flat : e = <<>>
      BY <1>2
    <3>2. Adds(x, y, e)
      BY <1>2, AppendJoined
    <3> QED BY <1>3, <3>1, <3>2 DEF Adds
  <2> QED BY <1>3, <1>5, <2>1, <2>2
<1>7. CASE c # NL
  <2>1. PICK e \in Flat : e = Append(y[l], c)
    <3>1. y[l] \in Flat
      BY <1>1, <1>2, ElementOfSeq
    <3> QED BY <1>7, <3>1, AppendProperties DEF Flat
  <2>2. PICK z : z = [y EXCEPT ![l] = e]
    OBVIOUS
  <2>3. z \in Seq(Flat) /\ Len(z) = l /\ \A j \in 1 .. l : z[j] = IF j = l THEN e ELSE y[j]
    BY <1>1, <1>2, <2>1, <2>2, ExceptSeq
  <2>4. LineStep(c, y) = z
    BY <1>1, <1>7, <2>1, <2>2 DEF LineStep
  <2>5. PICK i : i = n + l
    OBVIOUS
  <2>6. PICK w : w = [all EXCEPT ![i] = e]
    OBVIOUS
  <2>7. i \in 1 .. Len(all) /\ all[i] = y[l]
    BY <1>4, <2>5
  <2>8. w \in Seq(Flat) /\ Len(w) = Len(all) /\ \A j \in 1 .. Len(all) : w[j] = IF j = i THEN e ELSE all[j]
    BY <2>1, <2>6, <2>7, ExceptSeq
  <2>9. LineStep(c, all) = w
    BY <1>4, <1>7, <2>1, <2>5, <2>6, <2>7 DEF LineStep
  <2>10. PICK v \in Seq(Flat) : v = x \o z
    BY <1>2, <2>3, ConcatProperties
  <2>11. /\ Len(v) = n + l /\ \A j \in 1 .. n : v[j] = x[j]
         /\ \A j \in 1 .. l : v[n + j] = z[j]
    <3>1. After(v, x, z)
      BY <1>2, <2>3, <2>10, ListJoined
    <3> QED BY <1>1, <2>3, <3>1 DEF After
  <2>12. ASSUME NEW j \in 1 .. n + l PROVE w[j] = v[j]
    <3>1. CASE j \in 1 .. n
      <4>1. w[j] = x[j]
        BY <1>4, <2>5, <2>8, <3>1
      <4> QED BY <2>11, <3>1, <4>1
    <3>2. CASE j \notin 1 .. n
      <4>1. PICK k \in 1 .. l : j = n + k
        <5>1. j - n \in 1 .. l /\ j = n + (j - n)
          BY <3>2
        <5> QED BY <5>1
      <4>2. j = i <=> k = l
        BY <2>5, <4>1
      <4>3. w[j] = IF k = l THEN e ELSE y[k]
        BY <1>4, <2>8, <4>1, <4>2
      <4> QED BY <2>3, <2>11, <4>1, <4>3
    <3> QED BY <3>1, <3>2
  <2>13. w = v
    BY <1>4, <2>8, <2>11, <2>12
  <2> QED BY <1>3, <1>5, <2>4, <2>9, <2>10, <2>13
<1> QED
  BY <1>6, <1>7

\* A newline ends a line.
LEMMA LinesOfTwo ==
  ASSUME NEW a \in Texts, NEW b \in Texts
  PROVE  Lines(a \o <<NL>> \o b) = Lines(a) \o Lines(b)
<1>1. PICK n \in Nat, l \in Nat : n = Len(a) /\ l = Len(b)
  BY DEF Texts
<1>2. PICK all : all = a \o <<NL>> \o b
  OBVIOUS
<1>3. /\ all \in Texts /\ Len(all) = n + 1 + l /\ all[n + 1] = NL
      /\ \A i \in 1 .. n : all[i] = a[i] /\ a[i] \in Characters
      /\ \A i \in 1 .. l : all[n + 1 + i] = b[i] /\ b[i] \in Characters
  <2>1. <<NL>> \in Texts
    BY NewlineIsText
  <2>2. PICK an \in Texts : an = a \o <<NL>>
    BY <2>1, JoinType
  <2>3. Len(an) = n + 1 /\ an[n + 1] = NL /\ \A i \in 1 .. n : an[i] = a[i]
    BY <1>1, <2>2 DEF Texts
  <2>4. all = an \o b /\ all \in Texts
    BY <1>2, <2>2, JoinType
  <2>5. /\ Len(all) = (n + 1) + l
        /\ \A i \in 1 .. n + 1 : all[i] = an[i]
        /\ \A i \in 1 .. l : all[(n + 1) + i] = b[i]
    <3>1. n + 1 \in Nat /\ an \in Seq(Characters) /\ b \in Seq(Characters)
      BY DEF Texts
    <3>2. After(all, an, b)
      BY <2>4, <3>1, ListJoined
    <3> QED BY <1>1, <2>3, <3>2 DEF After
  <2>6. \A i \in 1 .. n : i \in 1 .. n + 1 /\ a[i] \in Characters
    BY <1>1 DEF Texts
  <2>7. n + 1 \in 1 .. n + 1 /\ \A i \in 1 .. l : b[i] \in Characters
    BY <1>1 DEF Texts
  <2> QED BY <2>3, <2>4, <2>5, <2>6, <2>7
<1>4. PICK f \in [0 .. n -> FlatRows] : Splits(f, a)
  BY <1>1, LinesRun
<1>5. PICK h \in [0 .. l -> FlatRows] : Splits(h, b)
  BY <1>1, LinesRun
<1>6. PICK z \in Nat : z = n + 1 + l
  OBVIOUS
<1>7. PICK g \in [0 .. z -> FlatRows] : Splits(g, all)
  BY <1>3, <1>6, LinesRun
<1>8. PICK same : same = {k \in 0 .. n : g[k] = f[k]}
  OBVIOUS
<1>9. 0 \in same
  <2>1. g[0] = f[0] /\ 0 \in 0 .. n
    BY <1>4, <1>7 DEF Splits
  <2> QED BY <1>8, <2>1
<1>10. ASSUME NEW k \in 0 .. n - 1, k \in same PROVE k + 1 \in same
  <2>1. k + 1 \in 1 .. n /\ k + 1 \in 0 .. n /\ k \in 0 .. z - 1
    BY <1>6
  <2>2. g[k + 1] = LineStep(all[k + 1], g[k])
    BY <1>3, <1>6, <1>7, <2>1 DEF Splits
  <2>3. f[k + 1] = LineStep(a[k + 1], f[k])
    BY <1>1, <1>4 DEF Splits
  <2> QED BY <1>3, <1>8, <1>10, <2>1, <2>2, <2>3
<1>11. \A k \in 0 .. n : k \in same
  BY <1>9, <1>10, UpTo
<1>12. PICK x \in FlatRows : x = Lines(a) /\ g[n] = x
  <2>1. n \in same /\ n \in 0 .. n
    BY <1>11
  <2> QED BY <1>1, <1>4, <1>8, <2>1 DEF Splits
<1>13. PICK good : good = {k \in 0 .. l : g[n + 1 + k] = x \o h[k]}
  OBVIOUS
<1>14. 0 \in good
  <2>1. n \in 0 .. z - 1
    BY <1>6
  <2>2. g[n + 1] = LineStep(NL, x)
    BY <1>3, <1>6, <1>7, <1>12, <2>1 DEF Splits
  <2>3. LineStep(NL, x) = Append(x, <<>>)
    BY DEF LineStep
  <2>4. h[0] = << <<>> >>
    BY <1>5 DEF Splits
  <2>5. Append(x, <<>>) = x \o << <<>> >>
    <3>1. x \in Seq(Flat) /\ <<>> \in Flat
      BY DEF FlatRows, Flat
    <3> QED BY <3>1, AppendJoined
  <2>6. n + 1 + 0 = n + 1 /\ 0 \in 0 .. l
    OBVIOUS
  <2>7. g[n + 1 + 0] = x \o h[0]
    BY <2>2, <2>3, <2>4, <2>5, <2>6
  <2> QED BY <1>13, <2>6, <2>7
<1>15. ASSUME NEW k \in 0 .. l - 1, k \in good PROVE k + 1 \in good
  <2>1. k + 1 \in 1 .. l /\ k + 1 \in 0 .. l /\ n + 1 + k \in 0 .. z - 1 /\ n + 1 + (k + 1) = (n + 1 + k) + 1
    BY <1>6
  <2>2. PICK c \in Characters : c = b[k + 1] /\ all[(n + 1 + k) + 1] = c
    BY <1>3, <2>1
  <2>3. g[(n + 1 + k) + 1] = LineStep(c, g[n + 1 + k])
    BY <1>3, <1>6, <1>7, <2>1, <2>2 DEF Splits
  <2>4. h[k + 1] = LineStep(c, h[k]) /\ h[k] \in FlatRows
    <3>1. h[k + 1] = LineStep(b[k + 1], h[k])
      BY <1>1, <1>5 DEF Splits
    <3>2. k \in 0 .. l
      OBVIOUS
    <3> QED BY <1>5, <2>2, <3>1, <3>2
  <2>5. g[n + 1 + k] = x \o h[k]
    BY <1>13, <1>15
  <2>6. LineStep(c, x \o h[k]) = x \o LineStep(c, h[k])
    BY <2>4, LineStepAfter
  <2> QED BY <1>13, <2>1, <2>3, <2>4, <2>5, <2>6
<1>16. \A k \in 0 .. l : k \in good
  BY <1>14, <1>15, UpTo
<1>17. l \in good
  BY <1>16
<1>18. g[n + 1 + l] = x \o h[l]
  BY <1>13, <1>17
<1>19. g[n + 1 + l] = Lines(all) /\ h[l] = Lines(b)
  BY <1>1, <1>3, <1>5, <1>7 DEF Splits
<1> QED
  BY <1>2, <1>12, <1>18, <1>19

\* A text without newlines is one line.
LEMMA LinesOfOne ==
  ASSUME NEW line \in Flat
  PROVE  Lines(line) = <<line>>
<1>1. PICK n \in Nat : n = Len(line) /\ \A i \in 1 .. n : line[i] \in Characters /\ line[i] # NL
  BY DEF Flat
<1>2. line \in Texts
  BY FlatIsText
<1>3. PICK h \in [0 .. n -> FlatRows] : Splits(h, line)
  BY <1>1, <1>2, LinesRun
<1>4. PICK good : good = {k \in 0 .. n : h[k] = <<SubSeq(line, 1, k)>>}
  OBVIOUS
<1>5. 0 \in good
  <2>1. SubSeq(line, 1, 0) = <<>>
    OBVIOUS
  <2>2. h[0] = << <<>> >> /\ 0 \in 0 .. n
    BY <1>3 DEF Splits
  <2> QED BY <1>4, <2>1, <2>2
<1>6. ASSUME NEW k \in 0 .. n - 1, k \in good PROVE k + 1 \in good
  <2>1. PICK c : c = line[k + 1]
    OBVIOUS
  <2>2. k + 1 \in 1 .. n /\ c # NL /\ k + 1 \in 0 .. n
    BY <1>1, <2>1
  <2>3. PICK p \in Texts : p = SubSeq(line, 1, k)
    <3>1. k \in 0 .. Len(line) /\ 1 \in Nat \ {0}
      BY <1>1
    <3> QED BY <1>2, <3>1, PartType DEF Texts
  <2>4. h[k + 1] = LineStep(c, h[k]) /\ h[k] = <<p>>
    BY <1>1, <1>3, <1>4, <1>6, <2>1, <2>3 DEF Splits
  <2>5. LineStep(c, <<p>>) = <<Append(p, c)>>
    BY <2>2 DEF LineStep
  <2>6. Append(p, c) = SubSeq(line, 1, k + 1)
    <3>1. k + 1 <= Len(line) /\ line \in Seq(Characters)
      BY <1>1, <1>2, <2>2 DEF Texts
    <3> QED BY <2>1, <2>3, <3>1
  <2> QED BY <1>4, <2>2, <2>4, <2>5, <2>6
<1>7. \A k \in 0 .. n : k \in good
  BY <1>5, <1>6, UpTo
<1>8. n \in good
  BY <1>7
<1>9. SubSeq(line, 1, n) = line
  BY <1>1 DEF Flat
<1> QED
  BY <1>1, <1>3, <1>4, <1>8, <1>9 DEF Splits

-----------------------------------------------------------------------------
(* What is written on the lines of a text *)

Written(text) == Kept(Lines(text), Inky)

\* What a list has of some things is a list of them.
LEMMA KeptType ==
  ASSUME NEW S, NEW list \in Seq(S), NEW P
  PROVE  Kept(list, P) \in Seq(P)
<1>1. PICK E : E = PlacesOf(list, P)
  OBVIOUS
<1>2. PICK m \in Nat : \E u \in [1 .. m -> E] : Kept(list, P) = [a \in 1 .. m |-> list[u[a]]]
  BY <1>1, KeptIs
<1>3. PICK u \in [1 .. m -> E] : Kept(list, P) = [a \in 1 .. m |-> list[u[a]]]
  BY <1>2
<1>4. \A a \in 1 .. m : list[u[a]] \in P
  <2>1. \A a \in 1 .. m : u[a] \in E
    OBVIOUS
  <2> QED BY <1>1, <2>1 DEF PlacesOf
<1> QED
  BY <1>3, <1>4

\* What is written is lines of text.
LEMMA WrittenType ==
  ASSUME NEW text \in Texts
  PROVE  Written(text) \in Seq(Inky) /\ Written(text) \in Seq(Texts) /\ Lines(text) \in Seq(Flat)
<1>1. Lines(text) \in Seq(Flat)
  BY LinesAre DEF FlatRows
<1>2. Written(text) \in Seq(Inky)
  BY <1>1, KeptType DEF Written
<1>3. \A line \in Inky : line \in Texts
  BY FlatIsText DEF Inky
<1>4. Written(text) \in Seq(Texts)
  BY <1>2, <1>3
<1> QED
  BY <1>1, <1>2, <1>4

\* What is written in two texts is written in each.
LEMMA WrittenOfTwo ==
  ASSUME NEW a \in Texts, NEW b \in Texts
  PROVE  Written(a \o <<NL>> \o b) = Written(a) \o Written(b)
<1>1. PICK x \in Seq(Flat) : x = Lines(a)
  BY WrittenType
<1>2. PICK y \in Seq(Flat) : y = Lines(b)
  BY WrittenType
<1>3. Lines(a \o <<NL>> \o b) = x \o y
  BY <1>1, <1>2, LinesOfTwo
<1>4. Kept(x \o y, Inky) = Kept(x, Inky) \o Kept(y, Inky)
  BY KeptOfTwo
<1> QED
  BY <1>1, <1>2, <1>3, <1>4 DEF Written

\* One line.
LEMMA KeptLine ==
  ASSUME NEW line \in Flat
  PROVE  Kept(<<line>>, Inky) = IF Blank(line) THEN <<>> ELSE <<line>>
<1>1. CASE Blank(line)
  <2>1. PICK list \in Seq(Flat) : list = <<line>> /\ Len(list) = 1 /\ list[1] = line
    <3>1. <<line>> \in Seq(Flat) /\ Len(<<line>>) = 1 /\ <<line>>[1] = line
      OBVIOUS
    <3> QED BY <3>1
  <2>2. \A k \in 1 .. Len(list) : list[k] \notin Inky
    BY <1>1, <2>1 DEF Inky
  <2>3. Kept(list, Inky) = <<>>
    BY <2>2, KeptNone
  <2> QED BY <1>1, <2>1, <2>3
<1>2. CASE ~Blank(line)
  <2>1. line \in Inky
    BY <1>2 DEF Inky
  <2> QED BY <1>2, <2>1, KeptOne
<1> QED
  BY <1>1, <1>2

\* What is written on a line.
LEMMA WrittenLine ==
  ASSUME NEW line \in Flat
  PROVE  Written(line) = IF Blank(line) THEN <<>> ELSE <<line>>
  BY LinesOfOne, KeptLine DEF Written

\* On blank lines nothing is written.
LEMMA WrittenBlank ==
  ASSUME NEW text \in Texts, Blank(text)
  PROVE  Written(text) = <<>>
<1>1. PICK S0 : S0 = {Space, NL}
  OBVIOUS
<1>2. text \in Seq(S0)
  <2>1. \A k \in 1 .. Len(text) : text[k] \in S0
    BY <1>1, BlankIs DEF IsSpace
  <2>2. Len(text) \in Nat /\ text \in [1 .. Len(text) -> S0]
    BY <2>1 DEF Texts
  <2> QED BY <2>2
<1>3. PICK ls : ls = Lines(text)
  OBVIOUS
<1>4. ls \in Seq(Seq(S0)) /\ ls \in Seq(Flat)
  BY <1>2, <1>3, LinesWithin, WrittenType
<1>5. ASSUME NEW i \in 1 .. Len(ls) PROVE ls[i] \notin Inky
  <2>1. PICK line \in Seq(S0) : line = ls[i]
    BY <1>4, ElementOfSeq
  <2>2. \A k \in 1 .. Len(line) : line[k] \in S0
    OBVIOUS
  <2>3. \A k \in 1 .. Len(line) : IsSpace(line[k])
    BY <1>1, <2>2 DEF IsSpace
  <2>4. line \in Flat /\ line \in Texts
    BY <1>4, <2>1, ElementOfSeq, FlatIsText
  <2>5. Blank(line)
    BY <2>3, <2>4, BlankIs
  <2> QED BY <2>1, <2>5 DEF Inky
<1>6. Kept(ls, Inky) = <<>>
  BY <1>4, <1>5, KeptNone
<1> QED
  BY <1>3, <1>6 DEF Written

-----------------------------------------------------------------------------
(* The first and the last line of a text *)

\* What is written ends with some lines, whatever stands before, and begins with some,
\* whatever follows.
Starts(text, w, line) == \A y \in Texts : Written(text \o y) = w \o Written(line \o y)
Closes(text, line, w) == \A y \in Texts : Written(y \o text) = Written(y \o line) \o w

\* A text is cut at a newline.
LEMMA CutAtNewline ==
  ASSUME NEW text \in Texts, NEW p \in 1 .. Len(text), text[p] = NL
  PROVE  /\ SubSeq(text, 1, p - 1) \in Texts /\ SubSeq(text, p + 1, Len(text)) \in Texts
         /\ text = SubSeq(text, 1, p - 1) \o <<NL>> \o SubSeq(text, p + 1, Len(text))
<1>1. PICK n \in Nat : n = Len(text)
  BY DEF Texts
<1>2. 1 \in Nat \ {0} /\ p - 1 \in 1 - 1 .. Len(text) /\ p \in p - 1 .. Len(text) /\ n \in p .. Len(text)
      /\ (p - 1) + 1 = p
  BY <1>1
<1>3. PICK a \in Texts : a = SubSeq(text, 1, p - 1)
  BY <1>2, CutInThree
<1>4. PICK b \in Texts : b = SubSeq(text, p, p)
  BY <1>2, CutInThree
<1>5. PICK c \in Texts : c = SubSeq(text, p + 1, n)
  BY <1>2, CutInThree
<1>6. SubSeq(text, 1, n) = a \o (b \o c)
  <2>1. PICK q \in 1 - 1 .. Len(text) : q = p - 1 /\ p \in q .. Len(text) /\ q + 1 = p
    BY <1>2
  <2>2. SubSeq(text, 1, n) = SubSeq(text, 1, q) \o (SubSeq(text, q + 1, p) \o SubSeq(text, p + 1, n))
    BY <1>2, <2>1, CutInThree
  <2> QED BY <1>3, <1>4, <1>5, <2>1, <2>2
<1>7. b = <<NL>>
  <2>1. Len(b) = 1 /\ b[1] = NL
    BY <1>1, <1>4 DEF Texts
  <2> QED BY <2>1 DEF Texts
<1>8. SubSeq(text, 1, n) = text
  BY <1>1 DEF Texts
<1>9. (a \o b) \o c = a \o (b \o c)
  BY JoinTwice
<1> QED
  BY <1>1, <1>3, <1>5, <1>6, <1>7, <1>8, <1>9

\* A text without newlines is one line.
LEMMA FlatIs ==
  ASSUME NEW text \in Texts, \A i \in 1 .. Len(text) : text[i] # NL
  PROVE  text \in Flat
  BY DEF Texts, Flat

\* The last line of a text goes on with what follows.
LEMMA LastLine ==
  ASSUME NEW text \in Texts
  PROVE  \E line \in Flat : \E w \in Seq(Texts) : Starts(text, w, line) /\ (Blank(text) => w = <<>> /\ Blank(line))
<1>1. PICK n \in Nat : n = Len(text)
  BY DEF Texts
<1>2. PICK S : S = {i \in 1 .. n : text[i] = NL}
  OBVIOUS
<1>3. CASE S = {}
  <2>1. text \in Flat
    BY <1>1, <1>2, <1>3, FlatIs
  <2>2. ASSUME NEW y \in Texts PROVE Written(text \o y) = <<>> \o Written(text \o y)
    <3>1. PICK all \in Texts : all = text \o y
      BY JoinType
    <3>2. PICK w \in Seq(Texts) : w = Written(all)
      BY WrittenType
    <3>3. w = <<>> \o w
      OBVIOUS
    <3> QED BY <3>1, <3>2, <3>3
  <2>3. <<>> \in Seq(Texts)
    OBVIOUS
  <2>4. Starts(text, <<>>, text)
    BY <2>2 DEF Starts
  <2> QED BY <2>1, <2>3, <2>4
<1>4. CASE S # {}
  <2>0. S \in SUBSET (1 .. n)
    BY <1>2
  <2>1. Max(S) \in S /\ \A k \in S : k <= Max(S)
    BY <1>4, <2>0, MaxOfPart
  <2>2. PICK p \in 1 .. n : text[p] = NL /\ \A k \in S : k <= p
    BY <1>2, <2>1
  <2>3. PICK a \in Texts : a = SubSeq(text, 1, p - 1)
    BY <1>1, <2>2, CutAtNewline
  <2>4. PICK c \in Texts : c = SubSeq(text, p + 1, n)
    BY <1>1, <2>2, CutAtNewline
  <2>5. text = a \o <<NL>> \o c
    BY <1>1, <2>2, <2>3, <2>4, CutAtNewline
  <2>6. c \in Flat
    <3>1. Len(c) = n - p /\ \A i \in 1 .. n - p : c[i] = text[p + i]
      BY <1>1, <2>4 DEF Texts
    <3>2. ASSUME NEW i \in 1 .. n - p PROVE text[p + i] # NL
      <4>1. p + i \in 1 .. n /\ ~(p + i <= p)
        OBVIOUS
      <4> QED BY <1>2, <2>2, <4>1
    <3> QED BY <3>1, <3>2, FlatIs
  <2>7. PICK w \in Seq(Texts) : w = Written(a)
    BY WrittenType
  <2>8. PICK an \in Texts : an = a \o <<NL>>
    BY NewlineIsText, JoinType
  <2>9. ASSUME NEW y \in Texts PROVE Written(text \o y) = w \o Written(c \o y)
    <3>1. PICK cy \in Texts : cy = c \o y
      BY JoinType
    <3>2. (an \o c) \o y = an \o (c \o y)
      BY JoinTwice
    <3>3. text \o y = a \o <<NL>> \o cy
      BY <2>5, <2>8, <3>1, <3>2
    <3> QED BY <2>7, <3>1, <3>3, WrittenOfTwo
  <2>10. Starts(text, w, c)
    BY <2>9 DEF Starts
  <2>11. ASSUME Blank(text) PROVE w = <<>> /\ Blank(c)
    <3>1. Blank(an) /\ Blank(c)
      BY <2>5, <2>8, <2>11, BlankOfTwo
    <3>2. Blank(a)
      BY <2>8, <3>1, NewlineIsText, BlankOfTwo
    <3> QED BY <2>7, <3>1, <3>2, WrittenBlank
  <2> QED BY <2>6, <2>10, <2>11
<1> QED
  BY <1>3, <1>4

\* The first line of a text goes on what stands before.
LEMMA FirstLine ==
  ASSUME NEW text \in Texts
  PROVE  \E line \in Flat : \E w \in Seq(Texts) : Closes(text, line, w) /\ (Blank(text) => w = <<>> /\ Blank(line))
<1>1. PICK n \in Nat : n = Len(text)
  BY DEF Texts
<1>2. PICK S : S = {i \in 1 .. n : text[i] = NL}
  OBVIOUS
<1>3. CASE S = {}
  <2>1. text \in Flat
    BY <1>1, <1>2, <1>3, FlatIs
  <2>2. ASSUME NEW y \in Texts PROVE Written(y \o text) = Written(y \o text) \o <<>>
    <3>1. PICK all \in Texts : all = y \o text
      BY JoinType
    <3>2. PICK w \in Seq(Texts) : w = Written(all)
      BY WrittenType
    <3>3. w = w \o <<>>
      OBVIOUS
    <3> QED BY <3>1, <3>2, <3>3
  <2>3. <<>> \in Seq(Texts)
    OBVIOUS
  <2>4. Closes(text, text, <<>>)
    BY <2>2 DEF Closes
  <2> QED BY <2>1, <2>3, <2>4
<1>4. CASE S # {}
  <2>0. S \in SUBSET Nat
    BY <1>2
  <2>1. Min(S) \in S /\ \A k \in S : Min(S) <= k
    BY <1>4, <2>0, MinIs
  <2>2. PICK p \in 1 .. n : text[p] = NL /\ \A k \in S : p <= k
    BY <1>2, <2>1
  <2>3. PICK a \in Texts : a = SubSeq(text, 1, p - 1)
    BY <1>1, <2>2, CutAtNewline
  <2>4. PICK c \in Texts : c = SubSeq(text, p + 1, n)
    BY <1>1, <2>2, CutAtNewline
  <2>5. text = a \o <<NL>> \o c
    BY <1>1, <2>2, <2>3, <2>4, CutAtNewline
  <2>6. a \in Flat
    <3>1. Len(a) = p - 1 /\ \A i \in 1 .. p - 1 : a[i] = text[i]
      BY <1>1, <2>3 DEF Texts
    <3>2. ASSUME NEW i \in 1 .. p - 1 PROVE text[i] # NL
      <4>1. i \in 1 .. n /\ ~(p <= i)
        OBVIOUS
      <4> QED BY <1>2, <2>2, <4>1
    <3> QED BY <3>1, <3>2, FlatIs
  <2>7. PICK w \in Seq(Texts) : w = Written(c)
    BY WrittenType
  <2>8. PICK nl \in Texts : nl = <<NL>>
    BY NewlineIsText
  <2>8a. PICK an \in Texts : an = a \o nl
    BY JoinType
  <2>9. ASSUME NEW y \in Texts PROVE Written(y \o text) = Written(y \o a) \o w
    <3>1. PICK ya \in Texts : ya = y \o a
      BY JoinType
    <3>2. y \o (an \o c) = (y \o an) \o c
      BY JoinTwice
    <3>3. y \o (a \o nl) = (y \o a) \o nl
      BY JoinTwice
    <3>4. y \o text = ya \o <<NL>> \o c
      BY <2>5, <2>8, <2>8a, <3>1, <3>2, <3>3
    <3> QED BY <2>7, <3>1, <3>4, WrittenOfTwo
  <2>10. Closes(text, a, w)
    BY <2>9 DEF Closes
  <2>11. ASSUME Blank(text) PROVE w = <<>> /\ Blank(a)
    <3>1. Blank(an) /\ Blank(c)
      BY <2>5, <2>8, <2>8a, <2>11, BlankOfTwo
    <3>2. Blank(a)
      BY <2>8a, <3>1, BlankOfTwo
    <3> QED BY <2>7, <3>1, <3>2, WrittenBlank
  <2> QED BY <2>6, <2>10, <2>11
<1> QED
  BY <1>3, <1>4

-----------------------------------------------------------------------------
(* What trimming leaves written *)

\* Lines that differ in white space at their ends only.
SameEnds(s, t) == Len(s) = Len(t) /\ \A a \in 1 .. Len(s) : TrimEnd(s[a]) = TrimEnd(t[a])

\* They are alike.
LEMMA SameEndsAlike ==
  ASSUME NEW s \in Seq(Texts), NEW t \in Seq(Texts), SameEnds(s, t)
  PROVE  Alike(s, t)
<1>1. ASSUME NEW a \in 1 .. Len(s) PROVE Trim(s[a]) = Trim(t[a]) /\ TrimEnd(s[a]) = TrimEnd(t[a])
  <2>1. PICK x \in Texts : x = s[a]
    BY ElementOfSeq
  <2>2. PICK y \in Texts : y = t[a]
    BY ElementOfSeq DEF SameEnds
  <2>3. TrimEnd(x) = TrimEnd(y)
    BY <2>1, <2>2 DEF SameEnds
  <2>4. Trim(x) = TrimStart(TrimEnd(x)) /\ Trim(y) = TrimStart(TrimEnd(y))
    BY TrimBothEnds
  <2> QED BY <2>1, <2>2, <2>3, <2>4
<1> QED
  BY <1>1 DEF Alike, SameEnds

\* Lines after one another differ at their ends only if each of them do.
LEMMA SameEndsOfTwo ==
  ASSUME NEW s \in Seq(Texts), NEW t \in Seq(Texts), SameEnds(s, t),
         NEW x \in Seq(Texts), NEW y \in Seq(Texts), SameEnds(x, y)
  PROVE  SameEnds(s \o x, t \o y) /\ s \o x \in Seq(Texts) /\ t \o y \in Seq(Texts)
<1>1. PICK n \in Nat, l \in Nat : n = Len(s) /\ n = Len(t) /\ l = Len(x) /\ l = Len(y)
  BY DEF SameEnds
<1>2. PICK u \in Seq(Texts) : u = s \o x
  BY ConcatProperties
<1>3. PICK v \in Seq(Texts) : v = t \o y
  BY ConcatProperties
<1>4. After(u, s, x) /\ After(v, t, y)
  BY <1>2, <1>3, ListJoined
<1>5. ASSUME NEW i \in 1 .. n + l PROVE TrimEnd(u[i]) = TrimEnd(v[i])
  <2>1. CASE i \in 1 .. n
    BY <1>1, <1>4, <2>1 DEF After, SameEnds
  <2>2. CASE i \notin 1 .. n
    <3>1. i - n \in 1 .. l /\ i = n + (i - n)
      BY <2>2
    <3>2. PICK j \in 1 .. l : i = n + j
      BY <3>1
    <3> QED BY <1>1, <1>4, <3>2 DEF After, SameEnds
  <2> QED BY <2>1, <2>2
<1>6. Len(u) = n + l /\ Len(v) = n + l
  BY <1>1, <1>4 DEF After
<1>7. SameEnds(u, v)
  BY <1>5, <1>6 DEF SameEnds
<1> QED
  BY <1>2, <1>3, <1>7

\* One line has the same end as another if it differs at the end only.
LEMMA SameEndsLine ==
  ASSUME NEW x \in Flat, NEW y \in Flat, TrimEnd(x) = TrimEnd(y)
  PROVE  SameEnds(Written(x), Written(y)) /\ Written(x) \in Seq(Texts) /\ Written(y) \in Seq(Texts)
<1>1. x \in Texts /\ y \in Texts
  BY FlatIsText
<1>2. Blank(x) <=> Blank(y)
  <2>1. Blank(TrimEnd(x)) <=> Blank(x)
    BY <1>1, TrimBothEnds
  <2>2. Blank(TrimEnd(y)) <=> Blank(y)
    BY <1>1, TrimBothEnds
  <2> QED BY <2>1, <2>2
<1>3. CASE Blank(x)
  <2>1. Written(x) = <<>> /\ Written(y) = <<>>
    BY <1>2, <1>3, WrittenLine
  <2> QED BY <2>1 DEF SameEnds
<1>4. CASE ~Blank(x)
  <2>1. Written(x) = <<x>> /\ Written(y) = <<y>>
    BY <1>2, <1>4, WrittenLine
  <2>2. PICK s \in Seq(Texts) : s = <<x>> /\ Len(s) = 1 /\ s[1] = x
    <3>1. <<x>> \in Seq(Texts) /\ Len(<<x>>) = 1 /\ <<x>>[1] = x
      BY <1>1
    <3> QED BY <3>1
  <2>3. PICK t \in Seq(Texts) : t = <<y>> /\ Len(t) = 1 /\ t[1] = y
    <3>1. <<y>> \in Seq(Texts) /\ Len(<<y>>) = 1 /\ <<y>>[1] = y
      BY <1>1
    <3> QED BY <3>1
  <2>4. SameEnds(s, t)
    BY <2>2, <2>3 DEF SameEnds
  <2> QED BY <2>1, <2>2, <2>3, <2>4
<1> QED
  BY <1>3, <1>4

\* Trimming the end of a text trims the end of its last line.
LEMMA EndTrimmed ==
  ASSUME NEW text \in Texts
  PROVE  SameEnds(Written(TrimEnd(text)), Written(text))
<1>1. PICK t \in Texts : t = TrimEnd(text)
  BY TrimEndType
<1>2. PICK b \in Texts : Blank(b) /\ text = t \o b
  BY <1>1, TrimmedEnd
<1>3. PICK l \in Flat : \E w \in Seq(Texts) : Starts(t, w, l)
  BY LastLine
<1>4. PICK w \in Seq(Texts) : Starts(t, w, l)
  BY <1>3
<1>5. PICK f \in Flat : \E v \in Seq(Texts) : Closes(b, f, v) /\ v = <<>> /\ Blank(f)
  BY <1>2, FirstLine
<1>6. PICK v \in Seq(Texts) : Closes(b, f, v) /\ v = <<>>
  BY <1>5
<1>7. l \in Texts /\ f \in Texts /\ <<>> \in Texts
  BY FlatIsText, NewlineIsText
<1>8. PICK lf \in Flat : lf = l \o f
  BY ConcatProperties DEF Flat
<1>9. Written(text) = w \o Written(lf)
  <2>1. Written(t \o b) = w \o Written(l \o b)
    BY <1>4 DEF Starts
  <2>2. Written(l \o b) = Written(lf) \o v
    BY <1>6, <1>7, <1>8 DEF Closes
  <2>3. PICK z \in Seq(Texts) : z = Written(lf)
    BY FlatIsText, WrittenType
  <2>4. z \o <<>> = z
    OBVIOUS
  <2> QED BY <1>2, <1>6, <2>1, <2>2, <2>3, <2>4
<1>10. Written(t) = w \o Written(l)
  <2>1. Written(t \o <<>>) = w \o Written(l \o <<>>)
    BY <1>4, <1>7 DEF Starts
  <2>2. t \o <<>> = t
    BY JoinNothing
  <2>3. l \o <<>> = l
    BY <1>7, JoinNothing
  <2> QED BY <2>1, <2>2, <2>3
<1>11. TrimEnd(l) = TrimEnd(lf)
  BY <1>5, <1>7, <1>8, TrimEndOfTwo
<1>12. PICK p \in Seq(Texts) : p = Written(l)
  BY <1>7, WrittenType
<1>13. PICK q \in Seq(Texts) : q = Written(lf)
  BY FlatIsText, WrittenType
<1>14. SameEnds(p, q) /\ SameEnds(w, w)
  BY <1>11, <1>12, <1>13, SameEndsLine DEF SameEnds
<1>15. SameEnds(w \o p, w \o q)
  BY <1>14, SameEndsOfTwo
<1> QED
  BY <1>1, <1>9, <1>10, <1>12, <1>13, <1>15

\* Trimming the start of a text trims the start of the first line that is not blank.
LEMMA StartTrimmed ==
  ASSUME NEW text \in Texts
  PROVE  Alike(Written(TrimStart(text)), Written(text))
<1>1. PICK t \in Texts : t = TrimStart(text)
  BY TrimmedStart
<1>2. PICK b \in Texts : Blank(b) /\ text = b \o t
  BY <1>1, TrimmedStart
<1>3. PICK l \in Flat : \E v \in Seq(Texts) : Starts(b, v, l) /\ v = <<>> /\ Blank(l)
  BY <1>2, LastLine
<1>4. PICK v \in Seq(Texts) : Starts(b, v, l) /\ v = <<>>
  BY <1>3
<1>5. PICK f \in Flat : \E w \in Seq(Texts) : Closes(t, f, w)
  BY FirstLine
<1>6. PICK w \in Seq(Texts) : Closes(t, f, w)
  BY <1>5
<1>7. l \in Texts /\ f \in Texts /\ <<>> \in Texts
  BY FlatIsText, NewlineIsText
<1>8. PICK lf \in Flat : lf = l \o f
  BY ConcatProperties DEF Flat
<1>9. Written(text) = Written(lf) \o w
  <2>1. Written(b \o t) = v \o Written(l \o t)
    BY <1>4 DEF Starts
  <2>2. Written(l \o t) = Written(lf) \o w
    BY <1>6, <1>7, <1>8 DEF Closes
  <2>3. PICK lt \in Texts : lt = l \o t
    BY <1>7, JoinType
  <2>4. PICK z \in Seq(Texts) : z = Written(lt)
    BY WrittenType
  <2>5. <<>> \o z = z
    OBVIOUS
  <2> QED BY <1>2, <1>4, <2>1, <2>2, <2>3, <2>4, <2>5
<1>10. Written(t) = Written(f) \o w
  <2>1. Written(<<>> \o t) = Written(<<>> \o f) \o w
    BY <1>6, <1>7 DEF Closes
  <2>2. <<>> \o t = t
    BY JoinNothing
  <2>3. <<>> \o f = f
    BY <1>7, JoinNothing
  <2> QED BY <2>1, <2>2, <2>3
<1>11. Blank(lf) <=> Blank(f)
  BY <1>3, <1>7, <1>8, BlankOfTwo
<1>12. TrimStart(lf) = TrimStart(f)
  BY <1>3, <1>7, <1>8, TrimStartOfTwo
<1>13. Trim(lf) = Trim(f)
  BY <1>12 DEF Trim
<1>14. CASE Blank(f)
  <2>1. Written(f) = Written(lf)
    BY <1>11, <1>14, WrittenLine
  <2>2. Written(t) = Written(text)
    BY <1>9, <1>10, <2>1
  <2> QED BY <1>1, <2>2 DEF Alike
<1>15. CASE ~Blank(f)
  <2>1. PICK x \in Seq(Texts) : x = <<f>> /\ Len(x) = 1 /\ x[1] = f
    <3>1. <<f>> \in Seq(Texts) /\ Len(<<f>>) = 1 /\ <<f>>[1] = f
      BY <1>7
    <3> QED BY <3>1
  <2>2. PICK y \in Seq(Texts) : y = <<lf>> /\ Len(y) = 1 /\ y[1] = lf
    <3>0. lf \in Texts
      BY FlatIsText
    <3>1. <<lf>> \in Seq(Texts) /\ Len(<<lf>>) = 1 /\ <<lf>>[1] = lf
      BY <3>0
    <3> QED BY <3>1
  <2>3. Written(f) = x /\ Written(lf) = y
    BY <1>11, <1>15, <2>1, <2>2, WrittenLine
  <2>4. PICK xs \in Seq(Texts) : xs = x \o w
    BY ConcatProperties
  <2>5. PICK ys \in Seq(Texts) : ys = y \o w
    BY ConcatProperties
  <2>6. After(xs, x, w) /\ After(ys, y, w)
    BY <2>4, <2>5, ListJoined
  <2>7. PICK n \in Nat : n = Len(w)
    OBVIOUS
  <2>8. /\ Len(xs) = 1 + n /\ Len(ys) = 1 + n /\ xs[1] = f /\ ys[1] = lf
        /\ \A j \in 1 .. n : xs[1 + j] = ys[1 + j]
    BY <2>1, <2>2, <2>6, <2>7 DEF After
  <2>9. ASSUME NEW a \in 1 .. 1 + n
        PROVE  Trim(xs[a]) = Trim(ys[a]) /\ (a > 1 => TrimEnd(xs[a]) = TrimEnd(ys[a]))
    <3>1. CASE a = 1
      BY <1>13, <2>8, <3>1
    <3>2. CASE a # 1
      <4>1. a - 1 \in 1 .. n /\ a = 1 + (a - 1)
        BY <3>2
      <4>2. xs[a] = ys[a]
        BY <2>8, <4>1
      <4> QED BY <4>2
    <3> QED BY <3>1, <3>2
  <2>10. Alike(xs, ys)
    BY <2>8, <2>9 DEF Alike
  <2> QED BY <1>1, <1>9, <1>10, <2>3, <2>4, <2>5, <2>10
<1> QED
  BY <1>14, <1>15

\* What is like what is like some lines is like them.
LEMMA AlikeTwice ==
  ASSUME NEW s \in Seq(Texts), NEW t \in Seq(Texts), NEW u \in Seq(Texts), Alike(s, t), Alike(t, u)
  PROVE  Alike(s, u)
  BY DEF Alike

-----------------------------------------------------------------------------
(* What is written on lines that are put together *)

\* No line is open.
Ended(text) == text = <<>> \/ \E b \in Texts : text = b \o <<NL>>

\* A line put after whole lines is written after them.
LEMMA LineAdded ==
  ASSUME NEW text \in Texts, Ended(text), NEW line \in Flat
  PROVE  /\ text \o line \o <<NL>> \in Texts /\ Ended(text \o line \o <<NL>>)
         /\ Written(text \o line \o <<NL>>) = Written(text) \o Written(line)
<1>1. PICK nl \in Texts : nl = <<NL>>
  BY NewlineIsText
<1>2. PICK e \in Texts : e = <<>> /\ Blank(e)
  BY NewlineIsText DEF Blank, Inked
<1>3. line \in Texts
  BY FlatIsText
<1>4. PICK tl \in Texts : tl = text \o line
  BY <1>3, JoinType
<1>5. PICK all \in Texts : all = tl \o nl
  BY JoinType
<1>6. Ended(all)
  BY <1>1, <1>5 DEF Ended
<1>7. PICK w \in Seq(Texts) : w = Written(tl)
  BY WrittenType
<1>8. Written(all) = w
  <2>1. Written(tl \o <<NL>> \o e) = Written(tl) \o Written(e)
    BY WrittenOfTwo
  <2>2. Written(e) = <<>>
    BY <1>2, WrittenBlank
  <2>3. w \o <<>> = w
    OBVIOUS
  <2>4. all \o e = all
    BY <1>2, JoinNothing
  <2> QED BY <1>1, <1>5, <1>7, <2>1, <2>2, <2>3, <2>4
<1>9. Written(tl) = Written(text) \o Written(line)
  <2>1. PICK x \in Seq(Texts) : x = Written(line)
    BY <1>3, WrittenType
  <2>2. CASE text = <<>>
    <3>1. Written(text) = <<>>
      BY <1>2, <2>2, WrittenBlank
    <3>2. tl = line
      BY <1>3, <1>4, <2>2, JoinNothing
    <3>3. <<>> \o x = x
      OBVIOUS
    <3> QED BY <2>1, <3>1, <3>2, <3>3
  <2>3. CASE text # <<>>
    <3>1. PICK b \in Texts : text = b \o <<NL>>
      BY <2>3 DEF Ended
    <3>2. Written(b \o <<NL>> \o line) = Written(b) \o Written(line)
      BY <1>3, WrittenOfTwo
    <3>3. Written(b \o <<NL>> \o e) = Written(b) \o Written(e)
      BY WrittenOfTwo
    <3>4. Written(e) = <<>>
      BY <1>2, WrittenBlank
    <3>5. PICK y \in Seq(Texts) : y = Written(b)
      BY WrittenType
    <3>6. y \o <<>> = y
      OBVIOUS
    <3>7. text \o e = text
      BY <1>2, JoinNothing
    <3> QED BY <1>4, <3>1, <3>2, <3>3, <3>4, <3>5, <3>6, <3>7
  <2> QED BY <2>2, <2>3
<1> QED
  BY <1>1, <1>4, <1>5, <1>6, <1>7, <1>8, <1>9

\* Some lines and the next.
LEMMA NextLine ==
  ASSUME NEW ls \in Seq(Flat), NEW k \in 0 .. Len(ls) - 1
  PROVE  /\ SubSeq(ls, 1, k) \in Seq(Flat) /\ ls[k + 1] \in Flat
         /\ SubSeq(ls, 1, k + 1) = SubSeq(ls, 1, k) \o <<ls[k + 1]>>
<1>1. PICK n \in Nat : n = Len(ls)
  OBVIOUS
<1>2. k + 1 \in 1 .. n /\ ls[k + 1] \in Flat
  BY <1>1, ElementOfSeq
<1>3. SubSeq(ls, 1, k) \in Seq(Flat)
  <2>1. 1 \in Nat \ {0} /\ k \in 0 .. Len(ls)
    BY <1>1
  <2> QED BY <2>1, PartType
<1>4. PICK p \in Seq(Flat) : p = SubSeq(ls, 1, k) /\ Len(p) = k /\ \A i \in 1 .. k : p[i] = ls[i]
  <2>1. PICK p \in Seq(Flat) : p = SubSeq(ls, 1, k)
    BY <1>3
  <2>2. k \in Nat /\ k <= Len(ls)
    BY <1>1
  <2>3. Len(p) = k /\ \A i \in 1 .. k : p[i] = ls[i]
    BY <1>1, <2>1, <2>2
  <2> QED BY <2>1, <2>3
<1>5. PICK x \in Seq(Flat) : x = <<ls[k + 1]>> /\ Len(x) = 1 /\ x[1] = ls[k + 1]
  <2>1. <<ls[k + 1]>> \in Seq(Flat) /\ Len(<<ls[k + 1]>>) = 1 /\ <<ls[k + 1]>>[1] = ls[k + 1]
    BY <1>2
  <2> QED BY <2>1
<1>6. PICK y \in Seq(Flat) : y = p \o x
  BY ConcatProperties
<1>7. After(y, p, x)
  BY <1>6, ListJoined
<1>8. PICK z : z = SubSeq(ls, 1, k + 1)
  OBVIOUS
<1>9. z \in Seq(Flat) /\ Len(z) = k + 1 /\ \A i \in 1 .. k + 1 : z[i] = ls[i]
  BY <1>1, <1>2, <1>8
<1>10. ASSUME NEW i \in 1 .. k + 1 PROVE z[i] = y[i]
  <2>1. CASE i \in 1 .. k
    BY <1>4, <1>7, <1>9, <2>1 DEF After
  <2>2. CASE i \notin 1 .. k
    <3>1. i = k + 1
      BY <2>2
    <3> QED BY <1>4, <1>5, <1>7, <1>9, <3>1 DEF After
  <2> QED BY <2>1, <2>2
<1>11. Len(y) = k + 1
  BY <1>4, <1>5, <1>7 DEF After
<1>12. z = y
  BY <1>9, <1>10, <1>11
<1> QED
  BY <1>2, <1>3, <1>4, <1>5, <1>6, <1>8, <1>12

\* What is written on the first lines, and on the next.
LEMMA NextWritten ==
  ASSUME NEW ls \in Seq(Flat), NEW k \in 0 .. Len(ls) - 1
  PROVE  Kept(SubSeq(ls, 1, k + 1), Inky) = Kept(SubSeq(ls, 1, k), Inky) \o Written(ls[k + 1])
<1>1. PICK p \in Seq(Flat) : p = SubSeq(ls, 1, k)
  BY NextLine
<1>2. PICK x \in Flat : x = ls[k + 1]
  BY NextLine
<1>3. PICK s \in Seq(Flat) : s = <<x>>
  <2>1. <<x>> \in Seq(Flat)
    OBVIOUS
  <2> QED BY <2>1
<1>4. SubSeq(ls, 1, k + 1) = p \o s
  BY <1>1, <1>2, <1>3, NextLine
<1>5. Kept(p \o s, Inky) = Kept(p, Inky) \o Kept(s, Inky)
  BY KeptOfTwo
<1>6. Kept(s, Inky) = Written(x)
  BY <1>3, KeptLine, WrittenLine
<1> QED
  BY <1>1, <1>2, <1>4, <1>5, <1>6

\* Nothing is written where no text is, and on no lines.
LEMMA NothingWritten ==
  /\ Written(<<>>) = <<>> /\ Ended(<<>>) /\ <<>> \in Texts
  /\ \A ls \in Seq(Flat) : SubSeq(ls, 1, 0) = <<>> /\ Kept(SubSeq(ls, 1, 0), Inky) = <<>>
<1>1. <<>> \in Texts /\ Blank(<<>>)
  BY NewlineIsText DEF Blank, Inked
<1>2. Written(<<>>) = <<>>
  BY <1>1, WrittenBlank
<1>3. PICK e \in Seq(Flat) : e = <<>> /\ Len(e) = 0
  <2>1. <<>> \in Seq(Flat) /\ Len(<<>>) = 0
    OBVIOUS
  <2> QED BY <2>1
<1>4. Kept(e, Inky) = <<>>
  <2>1. \A k \in 1 .. Len(e) : e[k] \notin Inky
    BY <1>3
  <2> QED BY <2>1, KeptNone
<1>5. \A ls \in Seq(Flat) : SubSeq(ls, 1, 0) = <<>>
  OBVIOUS
<1> QED
  BY <1>1, <1>2, <1>3, <1>4, <1>5 DEF Ended

\* What is written on lines is written on the text they are put together to.
LEMMA UnlinesWritten ==
  ASSUME NEW ls \in Seq(Flat)
  PROVE  Written(Unlines(ls)) = Kept(ls, Inky)
<1>1. PICK n \in Nat : n = Len(ls)
  OBVIOUS
<1>2. ls \in Seq(Texts)
  BY FlatIsText
<1>3. PICK h \in [0 .. n -> Texts] : Joins(h, ls)
  BY <1>1, <1>2, UnlinesRun
<1>4. PICK good : good = {k \in 0 .. n : Ended(h[k]) /\ Written(h[k]) = Kept(SubSeq(ls, 1, k), Inky)}
  OBVIOUS
<1>5. 0 \in good
  <2>1. h[0] = <<>> /\ 0 \in 0 .. n
    BY <1>3 DEF Joins
  <2>2. Ended(h[0]) /\ Written(h[0]) = Kept(SubSeq(ls, 1, 0), Inky)
    BY <2>1, NothingWritten
  <2> QED BY <1>4, <2>1, <2>2
<1>6. ASSUME NEW k \in 0 .. n - 1, k \in good PROVE k + 1 \in good
  <2>1. PICK t \in Texts : t = h[k] /\ Ended(t) /\ Written(t) = Kept(SubSeq(ls, 1, k), Inky)
    <3>1. h[k] \in Texts
      BY <1>3
    <3> QED BY <1>4, <1>6, <3>1
  <2>2. PICK line \in Flat : line = ls[k + 1]
    BY <1>1, NextLine
  <2>3. h[k + 1] = t \o line \o <<NL>>
    BY <1>1, <1>3, <2>1, <2>2 DEF Joins
  <2>4. Ended(h[k + 1]) /\ Written(h[k + 1]) = Written(t) \o Written(line)
    BY <2>1, <2>3, LineAdded
  <2>5. Kept(SubSeq(ls, 1, k + 1), Inky) = Kept(SubSeq(ls, 1, k), Inky) \o Written(line)
    BY <1>1, <2>2, NextWritten
  <2>6. k + 1 \in 0 .. n
    OBVIOUS
  <2> QED BY <1>4, <2>1, <2>4, <2>5, <2>6
<1>7. \A k \in 0 .. n : k \in good
  BY <1>5, <1>6, UpTo
<1>8. n \in good
  BY <1>7
<1>9. SubSeq(ls, 1, n) = ls
  BY <1>1
<1> QED
  BY <1>1, <1>3, <1>4, <1>8, <1>9 DEF Joins

\* Collapsing blank lines leaves the others, with their ends trimmed.
LEMMA CollapsedWritten ==
  ASSUME NEW ls \in FlatRows
  PROVE  SameEnds(Written(Collapsed(ls)), Kept(ls, Inky))
<1>1. PICK n \in Nat : n = Len(ls) /\ DOMAIN ls = 1 .. n
  BY DEF FlatRows
<1>2. ls \in Seq(Flat)
  BY DEF FlatRows
<1>3. PICK h \in [0 .. n -> Neat] : Collapses(h, ls)
  BY <1>1, CollapsedRun
<1>4. PICK good : good = {k \in 0 .. n : Ended(h[k]) /\ SameEnds(Written(h[k]), Kept(SubSeq(ls, 1, k), Inky))}
  OBVIOUS
<1>5. 0 \in good
  <2>1. h[0] = <<>> /\ 0 \in 0 .. n
    BY <1>3 DEF Collapses
  <2>2. Ended(h[0]) /\ Written(h[0]) = <<>> /\ Kept(SubSeq(ls, 1, 0), Inky) = <<>>
    BY <1>2, <2>1, NothingWritten
  <2>3. SameEnds(<<>>, <<>>)
    BY DEF SameEnds
  <2> QED BY <1>4, <2>1, <2>2, <2>3
<1>6. ASSUME NEW k \in 0 .. n - 1, k \in good PROVE k + 1 \in good
  <2>1. PICK t \in Texts : t = h[k] /\ Ended(t) /\ SameEnds(Written(t), Kept(SubSeq(ls, 1, k), Inky))
    <3>1. h[k] \in Texts
      BY <1>3 DEF Neat
    <3> QED BY <1>4, <1>6, <3>1
  <2>2. PICK line \in Flat : line = ls[k + 1]
    BY <1>1, <1>2, NextLine
  <2>3. PICK p \in Seq(Flat) : p = SubSeq(ls, 1, k)
    BY <1>1, <1>2, NextLine
  <2>4. PICK x \in Seq(Texts) : x = Kept(p, Inky)
    <3>1. Kept(p, Inky) \in Seq(Inky)
      BY KeptType
    <3>2. \A l \in Inky : l \in Texts
      BY FlatIsText DEF Inky
    <3>3. Kept(p, Inky) \in Seq(Texts)
      BY <3>1, <3>2
    <3> QED BY <3>3
  <2>5. PICK y \in Seq(Texts) : y = Written(line)
    BY FlatIsText, WrittenType
  <2>6. Kept(SubSeq(ls, 1, k + 1), Inky) = x \o y
    BY <1>1, <1>2, <2>2, <2>3, <2>4, <2>5, NextWritten
  <2>7. PICK w \in Seq(Texts) : w = Written(t) /\ SameEnds(w, x)
    BY <2>1, <2>3, <2>4, WrittenType
  <2>8. h[k + 1] = LineKept(ls, k + 1, t)
    BY <1>1, <1>3, <2>1 DEF Collapses
  <2>9. k + 1 \in 0 .. n /\ k + 1 \in 1 .. n
    OBVIOUS
  <2>10. CASE k + 1 \in KeptLines(ls)
    <3>1. PICK l \in Flat : l = TrimEnd(line)
      <4>1. PICK j \in 0 .. Len(line) : TrimEnd(line) = SubSeq(line, 1, j)
        BY FlatIsText, TrimEndIs
      <4>2. 1 \in Nat \ {0}
        OBVIOUS
      <4>3. SubSeq(line, 1, j) \in Flat
        BY <4>1, <4>2, PartType DEF Flat
      <4> QED BY <4>1, <4>3
    <3>2. h[k + 1] = t \o l \o <<NL>>
      BY <2>2, <2>8, <2>10, <3>1 DEF LineKept
    <3>3. Ended(h[k + 1]) /\ Written(h[k + 1]) = w \o Written(l)
      BY <2>1, <2>7, <3>2, LineAdded
    <3>4. PICK z \in Seq(Texts) : z = Written(l)
      BY FlatIsText, WrittenType
    <3>5. TrimEnd(l) = TrimEnd(line)
      BY <3>1, FlatIsText, TrimBothEnds
    <3>6. SameEnds(z, y)
      BY <2>5, <3>4, <3>5, SameEndsLine
    <3>7. SameEnds(w \o z, x \o y)
      BY <2>7, <3>6, SameEndsOfTwo
    <3> QED BY <1>4, <2>6, <2>9, <3>3, <3>4, <3>7
  <2>11. CASE k + 1 \notin KeptLines(ls)
    <3>1. h[k + 1] = t
      BY <2>8, <2>11 DEF LineKept
    <3>2. Blank(line)
      BY <1>1, <2>2, <2>9, <2>11 DEF KeptLines
    <3>3. y = <<>>
      BY <2>5, <3>2, WrittenLine
    <3>4. x \o y = x
      BY <3>3
    <3> QED BY <1>4, <2>1, <2>6, <2>7, <2>9, <3>1, <3>4
  <2> QED BY <2>10, <2>11
<1>7. \A k \in 0 .. n : k \in good
  BY <1>5, <1>6, UpTo
<1>8. n \in good
  BY <1>7
<1>9. SubSeq(ls, 1, n) = ls
  BY <1>1, <1>2
<1> QED
  BY <1>1, <1>3, <1>4, <1>8, <1>9 DEF Collapses

-----------------------------------------------------------------------------
(* What is said on the lines of a text *)

\* A line says the same with its newline.
LEMMA SaidWithLine ==
  ASSUME NEW text \in Texts, NEW line \in Texts
  PROVE  Said(text \o line \o <<NL>>) = Said(text) \o Said(line)
<1>1. PICK nl \in Texts : nl = <<NL>> /\ Len(nl) = 1 /\ nl[1] = NL
  <2>1. <<NL>> \in Texts /\ Len(<<NL>>) = 1 /\ <<NL>>[1] = NL
    BY NewlineIsText
  <2> QED BY <2>1
<1>2. Said(nl) = <<>>
  <2>1. \A k \in 1 .. Len(nl) : nl[k] \notin Prose
    BY <1>1 DEF Prose, NL
  <2> QED BY <2>1, SaidIs
<1>3. PICK tl \in Texts : tl = text \o line
  BY JoinType
<1>4. PICK s \in Texts : s = Said(tl)
  BY SaidIs
<1>5. Said(tl \o nl) = Said(tl) \o Said(nl)
  BY SaidOfTwo
<1>6. s \o <<>> = s
  BY JoinNothing
<1>7. Said(tl) = Said(text) \o Said(line)
  BY <1>3, SaidOfTwo
<1> QED
  BY <1>1, <1>2, <1>3, <1>4, <1>5, <1>6, <1>7

\* Lines that say the same, put together, do.
LEMMA SaidAlike ==
  ASSUME NEW ls \in Seq(Texts), NEW ms \in Seq(Texts), Len(ls) = Len(ms),
         \A i \in 1 .. Len(ls) : Said(ls[i]) = Said(ms[i])
  PROVE  Said(Unlines(ls)) = Said(Unlines(ms))
<1>1. PICK n \in Nat : n = Len(ls) /\ n = Len(ms)
  OBVIOUS
<1>2. PICK h \in [0 .. n -> Texts] : Joins(h, ls)
  BY <1>1, UnlinesRun
<1>3. PICK g \in [0 .. n -> Texts] : Joins(g, ms)
  BY <1>1, UnlinesRun
<1>4. PICK good : good = {k \in 0 .. n : Said(h[k]) = Said(g[k])}
  OBVIOUS
<1>5. 0 \in good
  <2>1. h[0] = g[0] /\ 0 \in 0 .. n
    BY <1>2, <1>3 DEF Joins
  <2> QED BY <1>4, <2>1
<1>6. ASSUME NEW k \in 0 .. n - 1, k \in good PROVE k + 1 \in good
  <2>1. PICK i \in 1 .. n : i = k + 1
    OBVIOUS
  <2>2. PICK x \in Texts : x = ls[i]
    BY <1>1, ElementOfSeq
  <2>3. PICK y \in Texts : y = ms[i]
    BY <1>1, ElementOfSeq
  <2>4. k \in 0 .. n /\ k + 1 \in 0 .. n
    OBVIOUS
  <2>5. PICK t \in Texts : t = h[k]
    BY <1>2, <2>4
  <2>6. PICK u \in Texts : u = g[k]
    BY <1>3, <2>4
  <2>7. h[k + 1] = t \o x \o <<NL>> /\ g[k + 1] = u \o y \o <<NL>>
    BY <1>1, <1>2, <1>3, <2>1, <2>2, <2>3, <2>5, <2>6 DEF Joins
  <2>8. Said(t) = Said(u) /\ Said(x) = Said(y)
    BY <1>1, <1>4, <1>6, <2>1, <2>2, <2>3, <2>5, <2>6
  <2>9. Said(t \o x \o <<NL>>) = Said(t) \o Said(x)
    BY SaidWithLine
  <2>10. Said(u \o y \o <<NL>>) = Said(u) \o Said(y)
    BY SaidWithLine
  <2> QED BY <1>4, <2>4, <2>7, <2>8, <2>9, <2>10
<1>7. \A k \in 0 .. n : k \in good
  BY <1>5, <1>6, UpTo
<1>8. n \in good
  BY <1>7
<1> QED
  BY <1>1, <1>2, <1>3, <1>4, <1>8 DEF Joins

\* Blank lines say nothing.
LEMMA SaidCollapsed ==
  ASSUME NEW ls \in FlatRows
  PROVE  Said(Collapsed(ls)) = Said(Unlines(ls))
<1>1. PICK n \in Nat : n = Len(ls) /\ DOMAIN ls = 1 .. n
  BY DEF FlatRows
<1>2. ls \in Seq(Texts)
  BY FlatIsText DEF FlatRows
<1>3. PICK h \in [0 .. n -> Neat] : Collapses(h, ls)
  BY <1>1, CollapsedRun
<1>4. PICK g \in [0 .. n -> Texts] : Joins(g, ls)
  BY <1>1, <1>2, UnlinesRun
<1>5. PICK good : good = {k \in 0 .. n : Said(h[k]) = Said(g[k])}
  OBVIOUS
<1>6. 0 \in good
  <2>1. h[0] = g[0] /\ 0 \in 0 .. n
    BY <1>3, <1>4 DEF Joins, Collapses
  <2> QED BY <1>5, <2>1
<1>7. ASSUME NEW k \in 0 .. n - 1, k \in good PROVE k + 1 \in good
  <2>1. PICK i \in 1 .. n : i = k + 1
    OBVIOUS
  <2>2. PICK x \in Texts : x = ls[i]
    BY <1>1, <1>2, ElementOfSeq
  <2>3. k \in 0 .. n /\ k + 1 \in 0 .. n
    OBVIOUS
  <2>4. PICK t \in Texts : t = h[k]
    BY <1>3, <2>3 DEF Neat
  <2>5. PICK u \in Texts : u = g[k]
    BY <1>4, <2>3
  <2>6. h[k + 1] = LineKept(ls, i, t) /\ g[k + 1] = u \o x \o <<NL>>
    BY <1>1, <1>3, <1>4, <2>1, <2>2, <2>4, <2>5 DEF Joins, Collapses
  <2>7. Said(t) = Said(u)
    BY <1>5, <1>7, <2>4, <2>5
  <2>8. Said(u \o x \o <<NL>>) = Said(u) \o Said(x)
    BY SaidWithLine
  <2>9. CASE i \in KeptLines(ls)
    <3>1. PICK e \in Texts : e = TrimEnd(x)
      BY TrimEndType
    <3>2. h[k + 1] = t \o e \o <<NL>>
      BY <2>2, <2>6, <2>9, <3>1 DEF LineKept
    <3>3. Said(t \o e \o <<NL>>) = Said(t) \o Said(e)
      BY SaidWithLine
    <3>4. Said(e) = Said(x)
      BY <3>1, TrimBothEnds
    <3> QED BY <1>5, <2>3, <2>6, <2>7, <2>8, <3>2, <3>3, <3>4
  <2>10. CASE i \notin KeptLines(ls)
    <3>1. h[k + 1] = t
      BY <2>6, <2>10 DEF LineKept
    <3>2. Blank(x)
      BY <1>1, <2>2, <2>10 DEF KeptLines
    <3>3. Said(x) = <<>>
      BY <3>2, BlankIs
    <3>4. PICK s \in Texts : s = Said(u)
      BY SaidIs
    <3>5. s \o <<>> = s
      BY JoinNothing
    <3> QED BY <1>5, <2>3, <2>6, <2>7, <2>8, <3>1, <3>3, <3>4, <3>5
  <2> QED BY <2>9, <2>10
<1>8. \A k \in 0 .. n : k \in good
  BY <1>6, <1>7, UpTo
<1>9. n \in good
  BY <1>8
<1> QED
  BY <1>1, <1>3, <1>4, <1>5, <1>9 DEF Joins, Collapses

\* One more line is put after the others.
LEMMA UnlinesNext ==
  ASSUME NEW ls \in Seq(Texts), NEW line \in Texts
  PROVE  Unlines(Append(ls, line)) = Unlines(ls) \o line \o <<NL>>
<1>1. PICK n \in Nat : n = Len(ls)
  OBVIOUS
<1>2. PICK ms \in Seq(Texts) : ms = Append(ls, line)
  BY AppendProperties
<1>3. Len(ms) = n + 1 /\ ms[n + 1] = line /\ \A i \in 1 .. n : ms[i] = ls[i]
  BY <1>1, <1>2
<1>4. PICK h \in [0 .. n -> Texts] : Joins(h, ls)
  BY <1>1, UnlinesRun
<1>5. PICK z \in Nat : z = n + 1
  OBVIOUS
<1>6. PICK g \in [0 .. z -> Texts] : Joins(g, ms)
  BY <1>3, <1>5, UnlinesRun
<1>7. PICK good : good = {k \in 0 .. n : h[k] = g[k]}
  OBVIOUS
<1>8. 0 \in good
  <2>1. h[0] = g[0] /\ 0 \in 0 .. n
    BY <1>4, <1>6 DEF Joins
  <2> QED BY <1>7, <2>1
<1>9. ASSUME NEW k \in 0 .. n - 1, k \in good PROVE k + 1 \in good
  <2>1. k + 1 \in 1 .. n /\ k + 1 \in 0 .. n /\ k \in 0 .. z - 1
    BY <1>5
  <2>2. h[k + 1] = h[k] \o ls[k + 1] \o <<NL>>
    BY <1>1, <1>4 DEF Joins
  <2>3. g[k + 1] = g[k] \o ms[k + 1] \o <<NL>>
    BY <1>3, <1>5, <1>6, <2>1 DEF Joins
  <2> QED BY <1>3, <1>7, <1>9, <2>1, <2>2, <2>3
<1>10. \A k \in 0 .. n : k \in good
  BY <1>8, <1>9, UpTo
<1>11. n \in good
  BY <1>10
<1>12. n \in 0 .. z - 1
  BY <1>5
<1>13. g[n + 1] = g[n] \o ms[n + 1] \o <<NL>>
  BY <1>3, <1>5, <1>6, <1>12 DEF Joins
<1> QED
  BY <1>1, <1>2, <1>3, <1>4, <1>5, <1>6, <1>7, <1>11, <1>13 DEF Joins

\* One character.
LEMMA SaidOfNext ==
  ASSUME NEW text \in Texts, NEW c \in Characters
  PROVE  Said(Append(text, c)) = Said(text) \o Said(<<c>>) /\ Append(text, c) \in Texts
<1>1. PICK x \in Texts : x = <<c>>
  <2>1. <<c>> \in Texts
    BY DEF Texts
  <2> QED BY <2>1
<1>2. Append(text, c) = text \o x
  BY <1>1 DEF Texts
<1> QED
  BY <1>1, <1>2, SaidOfTwo, JoinType

\* The character read next is said next.
LEMMA LineStepSaid ==
  ASSUME NEW c \in Characters, NEW ls \in FlatRows
  PROVE  Said(Unlines(LineStep(c, ls))) = Said(Unlines(ls)) \o Said(<<c>>)
<1>1. PICK n \in Nat : Len(ls) = n + 1
  <2>1. Len(ls) \in Nat \ {0}
    BY DEF FlatRows
  <2>2. Len(ls) - 1 \in Nat /\ Len(ls) = (Len(ls) - 1) + 1
    BY <2>1
  <2> QED BY <2>2
<1>2. PICK ms \in Seq(Flat) : ms = SubSeq(ls, 1, n) /\ Len(ms) = n /\ \A i \in 1 .. n : ms[i] = ls[i]
  <2>1. ls \in Seq(Flat) /\ 1 \in Nat \ {0} /\ n \in 0 .. Len(ls)
    BY <1>1 DEF FlatRows
  <2>2. PICK ms \in Seq(Flat) : ms = SubSeq(ls, 1, n)
    BY <2>1, PartType
  <2>3. Len(ms) = n /\ \A i \in 1 .. n : ms[i] = ls[i]
    BY <1>1, <2>1, <2>2
  <2> QED BY <2>2, <2>3
<1>3. PICK l \in Flat : l = ls[n + 1]
  <2>1. ls \in Seq(Flat) /\ n + 1 \in 1 .. Len(ls)
    BY <1>1 DEF FlatRows
  <2> QED BY <2>1, ElementOfSeq
<1>4. ls = Append(ms, l)
  <2>1. PICK z : z = Append(ms, l)
    OBVIOUS
  <2>2. z \in Seq(Flat) /\ Len(z) = n + 1 /\ z[n + 1] = l /\ \A i \in 1 .. n : z[i] = ms[i]
    BY <1>2, <2>1
  <2>3. ASSUME NEW i \in 1 .. n + 1 PROVE z[i] = ls[i]
    <3>1. i \in 1 .. n \/ i = n + 1
      OBVIOUS
    <3> QED BY <1>2, <1>3, <2>2, <3>1
  <2>4. ls \in Seq(Flat)
    BY DEF FlatRows
  <2>5. z = ls
    BY <1>1, <2>2, <2>3, <2>4
  <2> QED BY <2>1, <2>5
<1>5. ms \in Seq(Texts) /\ l \in Texts /\ <<>> \in Texts /\ ls \in Seq(Texts)
  BY FlatIsText, NewlineIsText DEF FlatRows
<1>6. PICK u \in Texts : u = Unlines(ms)
  BY <1>5, UnlinesType
<1>7. Unlines(ls) = u \o l \o <<NL>>
  BY <1>4, <1>5, <1>6, UnlinesNext
<1>8. Said(Unlines(ls)) = Said(u) \o Said(l)
  BY <1>5, <1>7, SaidWithLine
<1>9. CASE c = NL
  <2>1. LineStep(c, ls) = Append(ls, <<>>)
    BY <1>9 DEF LineStep
  <2>2. PICK w \in Texts : w = Unlines(ls)
    BY <1>5, UnlinesType
  <2>3. PICK e \in Texts : e = <<>> /\ Blank(e)
    BY NewlineIsText DEF Blank, Inked
  <2>4. Unlines(Append(ls, e)) = w \o e \o <<NL>>
    BY <1>5, <2>2, UnlinesNext
  <2>5. Said(w \o e \o <<NL>>) = Said(w) \o Said(e)
    BY SaidWithLine
  <2>6. Said(e) = <<>>
    BY <2>3, BlankIs
  <2>7. PICK nl \in Texts : nl = <<NL>> /\ Blank(nl)
    BY NewlineIsText DEF Blank, Inked, IsSpace
  <2>8. Said(nl) = <<>>
    BY <2>7, BlankIs
  <2> QED BY <1>9, <2>1, <2>2, <2>3, <2>4, <2>5, <2>6, <2>7, <2>8
<1>10. CASE c # NL
  <2>1. PICK e \in Flat : e = Append(l, c)
    BY <1>10, AppendProperties DEF Flat
  <2>2. PICK i : i = n + 1
    OBVIOUS
  <2>3. PICK z : z = [ls EXCEPT ![i] = e]
    OBVIOUS
  <2>4. LineStep(c, ls) = z
    BY <1>1, <1>3, <1>10, <2>1, <2>2, <2>3 DEF LineStep
  <2>5. z = Append(ms, e)
    <3>0. ls \in Seq(Flat) /\ i \in 1 .. Len(ls)
      BY <1>1, <2>2 DEF FlatRows
    <3>1. z \in Seq(Flat) /\ Len(z) = Len(ls) /\ \A j \in 1 .. Len(ls) : z[j] = IF j = i THEN e ELSE ls[j]
      BY <2>1, <2>3, <3>0, ExceptSeq
    <3>2. PICK v : v = Append(ms, e)
      OBVIOUS
    <3>3. v \in Seq(Flat) /\ Len(v) = n + 1 /\ v[n + 1] = e /\ \A j \in 1 .. n : v[j] = ms[j]
      BY <1>2, <3>2
    <3>4. ASSUME NEW j \in 1 .. n + 1 PROVE z[j] = v[j]
      <4>1. j \in 1 .. n \/ j = n + 1
        OBVIOUS
      <4> QED BY <1>1, <1>2, <2>2, <3>1, <3>3, <4>1
    <3>5. z = v
      BY <1>1, <3>1, <3>3, <3>4
    <3> QED BY <3>2, <3>5
  <2>6. e \in Texts
    BY FlatIsText
  <2>7. Unlines(z) = u \o e \o <<NL>>
    BY <1>5, <1>6, <2>5, <2>6, UnlinesNext
  <2>8. Said(Unlines(z)) = Said(u) \o Said(e)
    BY <2>6, <2>7, SaidWithLine
  <2>9. Said(e) = Said(l) \o Said(<<c>>)
    BY <1>5, <2>1, SaidOfNext
  <2>10. PICK x \in Texts : x = <<c>>
    <3>1. <<c>> \in Texts
      BY DEF Texts
    <3> QED BY <3>1
  <2>11. PICK a \in Texts : a = Said(u)
    BY SaidIs
  <2>12. PICK b \in Texts : b = Said(l)
    BY <1>5, SaidIs
  <2>13. PICK d \in Texts : d = Said(x)
    BY SaidIs
  <2>14. (a \o b) \o d = a \o (b \o d)
    BY JoinTwice
  <2> QED BY <1>8, <2>4, <2>8, <2>9, <2>10, <2>11, <2>12, <2>13, <2>14
<1> QED
  BY <1>9, <1>10

\* Some characters and the next.
LEMMA NextPart ==
  ASSUME NEW text \in Texts, NEW k \in 0 .. Len(text) - 1
  PROVE  /\ SubSeq(text, 1, k) \in Texts /\ text[k + 1] \in Characters
         /\ SubSeq(text, 1, k + 1) = Append(SubSeq(text, 1, k), text[k + 1])
<1>1. PICK n \in Nat : n = Len(text) /\ \A i \in 1 .. n : text[i] \in Characters
  BY DEF Texts
<1>2. k \in 0 .. Len(text) /\ 1 \in Nat \ {0} /\ k + 1 \in 1 .. n
  BY <1>1
<1>3. SubSeq(text, 1, k) \in Texts
  BY <1>2, PartType DEF Texts
<1>4. SubSeq(text, 1, k + 1) = Append(SubSeq(text, 1, k), text[k + 1])
  <2>1. PICK p \in Texts : p = SubSeq(text, 1, k)
    BY <1>3
  <2>2. k + 1 <= Len(text) /\ text \in Seq(Characters)
    BY <1>1, <1>2 DEF Texts
  <2>3. PICK c : c = text[k + 1]
    OBVIOUS
  <2>4. Append(p, c) = SubSeq(text, 1, k + 1)
    BY <2>1, <2>2, <2>3
  <2> QED BY <2>1, <2>3, <2>4
<1> QED
  BY <1>1, <1>2, <1>3, <1>4

\* What is said next.
LEMMA SaidNext ==
  ASSUME NEW text \in Texts, NEW k \in 0 .. Len(text) - 1
  PROVE  Said(SubSeq(text, 1, k + 1)) = Said(SubSeq(text, 1, k)) \o Said(<<text[k + 1]>>)
<1>1. PICK p \in Texts : p = SubSeq(text, 1, k)
  BY NextPart
<1>2. PICK c \in Characters : c = text[k + 1]
  BY NextPart
<1> QED
  BY <1>1, <1>2, NextPart, SaidOfNext

\* A character that is no prose says nothing.
LEMMA SaidCharacter ==
  ASSUME NEW c \in Characters, c \notin Prose, NEW s \in Texts
  PROVE  s \o Said(<<c>>) = s
<1>1. PICK x \in Texts : x = <<c>> /\ Len(x) = 1 /\ x[1] = c
  <2>1. <<c>> \in Texts /\ Len(<<c>>) = 1 /\ <<c>>[1] = c
    BY DEF Texts
  <2> QED BY <2>1
<1>2. Said(x) = <<>>
  <2>1. \A k \in 1 .. Len(x) : x[k] \notin Prose
    BY <1>1
  <2> QED BY <2>1, SaidIs
<1> QED
  BY <1>1, <1>2, JoinNothing

\* The lines of a text say what it says.
LEMMA SaidOfLines ==
  ASSUME NEW text \in Texts
  PROVE  Said(Unlines(Lines(text))) = Said(text)
<1>1. PICK n \in Nat : n = Len(text)
  BY DEF Texts
<1>2. PICK f \in [0 .. n -> FlatRows] : Splits(f, text)
  BY <1>1, LinesRun
<1>3. PICK good : good = {k \in 0 .. n : Said(Unlines(f[k])) = Said(SubSeq(text, 1, k))}
  OBVIOUS
<1>4. PICK e \in Texts : e = <<>> /\ Said(e) = <<>>
  <2>1. <<>> \in Texts /\ Blank(<<>>)
    BY NewlineIsText DEF Blank, Inked
  <2> QED BY <2>1, BlankIs
<1>5. 0 \in good
  <2>1. PICK ls \in Seq(Texts) : ls = << <<>> >> /\ Len(ls) = 1 /\ ls[1] = e
    <3>1. <<e>> \in Seq(Texts) /\ Len(<<e>>) = 1 /\ <<e>>[1] = e
      OBVIOUS
    <3> QED BY <1>4, <3>1
  <2>2. PICK one \in Nat : one = 1
    OBVIOUS
  <2>3. PICK h \in [0 .. one -> Texts] : Joins(h, ls)
    BY <2>1, <2>2, UnlinesRun
  <2>4. h[0] = e /\ h[1] = Unlines(ls)
    BY <1>4, <2>1, <2>3 DEF Joins
  <2>5. h[0 + 1] = h[0] \o ls[0 + 1] \o <<NL>>
    <3>1. 0 \in 0 .. Len(ls) - 1
      BY <2>1
    <3> QED BY <2>3, <3>1 DEF Joins
  <2>6. Unlines(ls) = e \o e \o <<NL>>
    BY <2>1, <2>4, <2>5
  <2>7. Said(e \o e \o <<NL>>) = Said(e) \o Said(e)
    BY SaidWithLine
  <2>8. Said(Unlines(ls)) = <<>>
    BY <1>4, <2>6, <2>7, JoinNothing
  <2>9. f[0] = ls /\ SubSeq(text, 1, 0) = e /\ 0 \in 0 .. n
    BY <1>2, <1>4, <2>1 DEF Splits, Texts
  <2> QED BY <1>3, <1>4, <2>8, <2>9
<1>6. ASSUME NEW k \in 0 .. n - 1, k \in good PROVE k + 1 \in good
  <2>1. PICK ls \in FlatRows : ls = f[k]
    <3>1. k \in 0 .. n
      OBVIOUS
    <3> QED BY <1>2, <3>1
  <2>2. PICK c \in Characters : c = text[k + 1]
    BY <1>1, NextPart
  <2>3. f[k + 1] = LineStep(c, ls)
    BY <1>1, <1>2, <2>1, <2>2 DEF Splits
  <2>4. Said(Unlines(LineStep(c, ls))) = Said(Unlines(ls)) \o Said(<<c>>)
    BY LineStepSaid
  <2>5. Said(SubSeq(text, 1, k + 1)) = Said(SubSeq(text, 1, k)) \o Said(<<c>>)
    BY <1>1, <2>2, SaidNext
  <2>6. Said(Unlines(ls)) = Said(SubSeq(text, 1, k)) /\ k + 1 \in 0 .. n
    BY <1>3, <1>6, <2>1
  <2> QED BY <1>3, <2>3, <2>4, <2>5, <2>6
<1>7. \A k \in 0 .. n : k \in good
  BY <1>5, <1>6, UpTo
<1>8. n \in good
  BY <1>7
<1>9. SubSeq(text, 1, n) = text
  BY <1>1 DEF Texts
<1> QED
  BY <1>1, <1>2, <1>3, <1>8, <1>9 DEF Splits

-----------------------------------------------------------------------------
(* Pages that were not converted *)

\* Without backticks there is no code.
LEMMA NoCode ==
  ASSUME NEW text \in Texts, \A i \in 1 .. Len(text) : text[i] # Backtick
  PROVE  CodeLines(Lines(text)) = <<>>
<1>1. PICK S0 : S0 = Characters \ {Backtick}
  OBVIOUS
<1>2. text \in Seq(S0)
  BY <1>1 DEF Texts
<1>3. PICK ls : ls = Lines(text)
  OBVIOUS
<1>4. ls \in Seq(Seq(S0)) /\ ls \in Seq(Flat)
  BY <1>2, <1>3, LinesWithin, WrittenType
<1>5. PICK n \in Nat : n = Len(ls) /\ DOMAIN ls = 1 .. n
  BY <1>4
<1>6. ASSUME NEW i \in 1 .. n, IsFence(ls[i]) PROVE FALSE
  <2>1. PICK line \in Seq(S0) : line = ls[i]
    BY <1>4, <1>5, ElementOfSeq
  <2>2. line \in Texts
    BY <1>1 DEF Texts
  <2>3. PICK a \in 1 .. Len(line) - 2 : line[a] = Backtick
    BY <1>6, <2>1, <2>2, FenceIs
  <2>4. a \in 1 .. Len(line)
    OBVIOUS
  <2>5. line[a] \in S0
    BY <2>4
  <2> QED BY <1>1, <2>3, <2>5
<1>7. ASSUME NEW i \in 1 .. n PROVE ~InFence(ls, i)
  <2>1. PICK F : F = {k \in 1 .. i : IsFence(ls[k])}
    OBVIOUS
  <2>2. F = {}
    BY <1>6, <2>1
  <2>3. Cardinality(F) = 0
    BY <2>2, FS_EmptySet
  <2> QED BY <2>1, <2>3 DEF InFence
<1>8. PICK C : C = CodeAt(ls) /\ C = {}
  BY <1>5, <1>7 DEF CodeAt
<1>9. C \in SUBSET (1 .. n)
  BY <1>8
<1>10. PICK m \in Nat : \E u \in [1 .. m -> C] : u = InOrder(C, Upward(C))
  BY <1>9, TakenInOrder
<1>11. PICK u \in [1 .. m -> C] : u = InOrder(C, Upward(C))
  BY <1>10
<1>12. m = 0
  <2>1. SUFFICES ASSUME m # 0 PROVE FALSE
    OBVIOUS
  <2>2. 1 \in 1 .. m
    BY <2>1
  <2>3. u[1] \in C
    BY <2>2
  <2> QED BY <1>8, <2>3
<1>13. PICK code : code = Those(ls, C) /\ DOMAIN code = 1 .. 0
  BY <1>11, <1>12 DEF Those, Picked
<1>14. CodeLines(ls) = [k \in DOMAIN code |-> TrimEnd(code[k])]
  BY <1>8, <1>13 DEF CodeLines, CodeAt
<1>15. [k \in DOMAIN code |-> TrimEnd(code[k])] = <<>>
  BY <1>13
<1> QED
  BY <1>3, <1>14, <1>15

\* Its tags say nothing and it has no code, before and after they are left out.
LEMMA TagsSayNothing ==
  ASSUME NEW text \in Texts, TagsApart(text)
  PROVE  Said(StripTags(text)) = Said(text) /\ CodeLines(Lines(StripTags(text))) = CodeLines(Lines(text))
<1>1. PICK n \in Nat : n = Len(text) /\ DOMAIN text = 1 .. n /\ \A i \in 1 .. n : text[i] \in Characters
  BY DEF Texts
<1>2. PICK h \in [0 .. n -> Stripping] : Strips(h, text)
  BY <1>1, StripRun
<1>3. PICK S0 : S0 = Characters \ {Backtick}
  OBVIOUS
<1>4. PICK good : good = {k \in 0 .. n : /\ h[k].inside = InTag(text, k) /\ h[k].out \in Seq(S0)
                                         /\ Said(h[k].out) = Said(SubSeq(text, 1, k))}
  OBVIOUS
<1>5. 0 \in good
  <2>1. h[0].inside = FALSE /\ h[0].out = <<>>
    BY <1>2 DEF Strips
  <2>2. ~InTag(text, 0)
    BY DEF InTag
  <2>3. SubSeq(text, 1, 0) = <<>> /\ <<>> \in Seq(S0) /\ 0 \in 0 .. n
    BY DEF Texts
  <2>4. InTag(text, 0) = FALSE
    BY <2>2 DEF InTag
  <2> QED BY <1>4, <2>1, <2>3, <2>4
<1>6. ASSUME NEW k \in 0 .. n - 1, k \in good PROVE k + 1 \in good
  <2>1. PICK c \in Characters : c = text[k + 1]
    BY <1>1, NextPart
  <2>2. PICK acc \in Stripping : acc = h[k] /\ h[k + 1] = Stripped(acc, c)
    <3>1. k \in 0 .. n
      OBVIOUS
    <3> QED BY <1>1, <1>2, <2>1, <3>1 DEF Strips
  <2>3. PICK out \in Texts : out = acc.out
    BY DEF Stripping
  <2>4. /\ acc.inside = InTag(text, k) /\ out \in Seq(S0)
        /\ Said(out) = Said(SubSeq(text, 1, k))
    BY <1>4, <1>6, <2>2, <2>3
  <2>5. Said(SubSeq(text, 1, k + 1)) = Said(out) \o Said(<<c>>)
    BY <1>1, <2>1, <2>4, SaidNext
  <2>6. PICK s \in Texts : s = Said(out)
    BY SaidIs
  <2>7. k + 1 \in 0 .. n /\ k + 1 \in 1 .. n
    OBVIOUS
  <2>8. c # Backtick /\ (c \in Prose => ~InTag(text, k + 1))
    BY <1>1, <2>1, <2>7 DEF TagsApart
  <2>9. CASE c = "<"
    <3>1. h[k + 1].inside = TRUE /\ h[k + 1].out = out
      BY <2>2, <2>3, <2>9 DEF Stripped, Stripping
    <3>2. InTag(text, k + 1) = TRUE
      <4>1. text[k + 1] = "<" /\ \A b \in k + 1 .. k + 1 : text[b] # ">"
        <5>1. \A b \in k + 1 .. k + 1 : b = k + 1
          OBVIOUS
        <5>2. text[k + 1] = "<" /\ "<" # ">"
          BY <2>1, <2>9
        <5> QED BY <5>1, <5>2
      <4>2. k + 1 \in 1 .. k + 1
        OBVIOUS
      <4> QED BY <4>1, <4>2 DEF InTag
    <3>3. Said(SubSeq(text, 1, k + 1)) = Said(out)
      <4>1. c \notin Prose
        BY <2>9 DEF Prose
      <4> QED BY <2>5, <2>6, <4>1, SaidCharacter
    <3> QED BY <1>4, <2>4, <2>7, <3>1, <3>2, <3>3
  <2>10. CASE c = ">"
    <3>1. h[k + 1].inside = FALSE /\ h[k + 1].out = out
      BY <2>2, <2>3, <2>10 DEF Stripped, Stripping
    <3>2. InTag(text, k + 1) = FALSE
      <4>1. \A a \in 1 .. k + 1 : k + 1 \in a .. k + 1
        OBVIOUS
      <4> QED BY <2>1, <2>10, <4>1 DEF InTag
    <3>3. Said(SubSeq(text, 1, k + 1)) = Said(out)
      <4>1. c \notin Prose
        BY <2>10 DEF Prose
      <4> QED BY <2>5, <2>6, <4>1, SaidCharacter
    <3> QED BY <1>4, <2>4, <2>7, <3>1, <3>2, <3>3
  <2>11. CASE c # "<" /\ c # ">"
    <3>1. InTag(text, k + 1) = InTag(text, k)
      <4>1. ASSUME InTag(text, k) PROVE InTag(text, k + 1)
        <5>1. PICK a \in 1 .. k : text[a] = "<" /\ \A b \in a .. k : text[b] # ">"
          BY <4>1 DEF InTag
        <5>2. a \in 1 .. k + 1 /\ \A b \in a .. k + 1 : b \in a .. k \/ b = k + 1
          OBVIOUS
        <5> QED BY <2>1, <2>11, <5>1, <5>2 DEF InTag
      <4>2. ASSUME InTag(text, k + 1) PROVE InTag(text, k)
        <5>1. PICK a \in 1 .. k + 1 : text[a] = "<" /\ \A b \in a .. k + 1 : text[b] # ">"
          BY <4>2 DEF InTag
        <5>2. a # k + 1
          BY <2>1, <2>11, <5>1
        <5>3. a \in 1 .. k /\ \A b \in a .. k : b \in a .. k + 1
          BY <5>2
        <5> QED BY <5>1, <5>3 DEF InTag
      <4> QED BY <4>1, <4>2 DEF InTag
    <3>2. CASE acc.inside
      <4>1. h[k + 1] = acc
        BY <2>2, <2>11, <3>2 DEF Stripped
      <4>2. c \notin Prose
        BY <2>4, <2>8, <3>1, <3>2
      <4>3. Said(SubSeq(text, 1, k + 1)) = Said(out)
        BY <2>5, <2>6, <4>2, SaidCharacter
      <4> QED BY <1>4, <2>3, <2>4, <2>7, <3>1, <4>1, <4>3
    <3>3. CASE ~acc.inside
      <4>1. h[k + 1].inside = acc.inside /\ h[k + 1].out = Append(out, c)
        BY <2>2, <2>3, <2>11, <3>3 DEF Stripped, Stripping
      <4>2. Said(Append(out, c)) = Said(out) \o Said(<<c>>)
        BY SaidOfNext
      <4>3. Append(out, c) \in Seq(S0)
        BY <1>3, <2>4, <2>8, AppendProperties
      <4> QED BY <1>4, <2>4, <2>5, <2>7, <3>1, <4>1, <4>2, <4>3
    <3> QED BY <3>2, <3>3
  <2> QED BY <2>9, <2>10, <2>11
<1>7. \A k \in 0 .. n : k \in good
  BY <1>5, <1>6, UpTo
<1>8. n \in good
  BY <1>7
<1>9. SubSeq(text, 1, n) = text
  BY <1>1 DEF Texts
<1>10. PICK out \in Seq(S0) : out = StripTags(text) /\ Said(out) = Said(text)
  BY <1>1, <1>2, <1>4, <1>8, <1>9 DEF Strips
<1>11. out \in Texts /\ \A i \in 1 .. Len(out) : out[i] # Backtick
  BY <1>3 DEF Texts
<1>12. \A i \in 1 .. Len(text) : text[i] # Backtick
  BY <1>1 DEF TagsApart
<1> QED
  BY <1>10, <1>11, <1>12, NoCode

-----------------------------------------------------------------------------
(* What is made of a README whose links are the converter's own *)

\* Every line outside code has such links.
LinesLinked(ls) == \A i \in DOMAIN ls : ~InFence(ls, i) => WellLinked(ls[i])

\* Lines with their links rewritten outside code.
Rewritten(ls) == [i \in DOMAIN ls |-> IF InFence(ls, i) THEN ls[i] ELSE RewriteLine(ls[i])]

\* Rewritten lines say what they said, the same of them are code, and outside code
\* none has a link to an unknown scheme.
LEMMA RewrittenLines ==
  ASSUME NEW ls \in FlatRows, LinesLinked(ls)
  PROVE  /\ Rewritten(ls) \in FlatRows
         /\ Said(Unlines(Rewritten(ls))) = Said(Unlines(ls))
         /\ CodeLines(Rewritten(ls)) = CodeLines(ls)
         /\ OddLinks(Rewritten(ls)) = {}
<1>1. PICK n \in Nat \ {0} : n = Len(ls) /\ DOMAIN ls = 1 .. n
  BY DEF FlatRows
<1>2. PICK new : new = Rewritten(ls)
  OBVIOUS
<1>3. DOMAIN new = 1 .. n /\ \A i \in 1 .. n : new[i] = IF InFence(ls, i) THEN ls[i] ELSE RewriteLine(ls[i])
  BY <1>1, <1>2 DEF Rewritten
<1>4. ASSUME NEW i \in 1 .. n
      PROVE  /\ new[i] \in Flat
             /\ Said(new[i]) = Said(ls[i])
             /\ IsFence(new[i]) <=> IsFence(ls[i])
             /\ InFence(ls, i) => new[i] = ls[i]
             /\ ~InFence(ls, i) => ~Odd(new[i])
  <2>1. PICK line \in Flat : line = ls[i]
    BY <1>1 DEF FlatRows
  <2>2. line \in Texts
    BY FlatIsText
  <2>3. CASE InFence(ls, i)
    BY <1>3, <2>1, <2>3
  <2>4. CASE ~InFence(ls, i)
    <3>1. WellLinked(line) /\ new[i] = RewriteLine(line)
      BY <1>1, <1>3, <2>1, <2>4 DEF LinesLinked
    <3>2. RewriteLine(line) \in Flat
      BY RewriteLineType DEF Flat
    <3>3. Said(RewriteLine(line)) = Said(line) /\ ~Odd(RewriteLine(line))
      BY <2>2, <3>1, SaidRewritten, NotOddRewritten
    <3>4. IsFence(RewriteLine(line)) <=> IsFence(line)
      BY <2>2, <3>1, FenceRewritten DEF WellLinked
    <3> QED BY <2>1, <2>4, <3>1, <3>2, <3>3, <3>4
  <2> QED BY <2>3, <2>4
<1>5. new \in FlatRows /\ Len(new) = n
  <2>1. new \in [1 .. n -> Flat]
    <3>1. new = [i \in 1 .. n |-> IF InFence(ls, i) THEN ls[i] ELSE RewriteLine(ls[i])]
      BY <1>1, <1>2 DEF Rewritten
    <3> QED BY <1>3, <1>4, <3>1
  <2>2. new \in Seq(Flat) /\ Len(new) = n
    BY <2>1
  <2> QED BY <2>2 DEF FlatRows
<1>6. ASSUME NEW i \in 1 .. n PROVE InFence(new, i) <=> InFence(ls, i)
  <2>1. {k \in 1 .. i : IsFence(new[k])} = {k \in 1 .. i : IsFence(ls[k])}
    BY <1>4
  <2> QED BY <2>1 DEF InFence
<1>7. Said(Unlines(new)) = Said(Unlines(ls))
  <2>1. new \in Seq(Texts) /\ ls \in Seq(Texts)
    BY <1>5, FlatIsText DEF FlatRows
  <2> QED BY <1>1, <1>4, <1>5, <2>1, SaidAlike
<1>8. OddLinks(new) = {}
  BY <1>3, <1>4, <1>6 DEF OddLinks
<1>9. PICK C : C = CodeAt(ls)
  OBVIOUS
<1>10. C \in SUBSET (1 .. n) /\ \A i \in C : InFence(ls, i)
  BY <1>1, <1>9 DEF CodeAt
<1>11. C = CodeAt(new)
  BY <1>1, <1>3, <1>4, <1>6, <1>9 DEF CodeAt
<1>12. Those(new, C) = Those(ls, C)
  <2>1. PICK m \in Nat : \E u \in [1 .. m -> C] : Takes(u, m, C) /\ u = InOrder(C, Upward(C))
    BY <1>10, TakenInOrder
  <2>2. PICK u \in [1 .. m -> C] : u = InOrder(C, Upward(C))
    BY <2>1
  <2>3. DOMAIN u = 1 .. m
    OBVIOUS
  <2>4. Those(new, C) = [a \in 1 .. m |-> new[u[a]]] /\ Those(ls, C) = [a \in 1 .. m |-> ls[u[a]]]
    BY <2>2, <2>3 DEF Those, Picked
  <2>5. \A a \in 1 .. m : new[u[a]] = ls[u[a]]
    <3>1. \A a \in 1 .. m : u[a] \in C
      OBVIOUS
    <3> QED BY <1>4, <1>10, <3>1
  <2> QED BY <2>4, <2>5
<1>13. CodeLines(new) = CodeLines(ls)
  <2>1. PICK x : x = Those(new, C)
    OBVIOUS
  <2>2. CodeLines(new) = [k \in DOMAIN x |-> TrimEnd(x[k])]
    BY <1>11, <2>1 DEF CodeLines, CodeAt
  <2>3. CodeLines(ls) = [k \in DOMAIN x |-> TrimEnd(x[k])]
    BY <1>9, <1>12, <2>1 DEF CodeLines, CodeAt
  <2> QED BY <2>2, <2>3
<1> QED
  BY <1>2, <1>5, <1>7, <1>8, <1>13

\* Lines put together, and the space trimmed around them, are written as they were.
LEMMA AroundWritten ==
  ASSUME NEW ls \in FlatRows, NEW text \in Texts, text = Trim(TrimEnd(Unlines(ls)))
  PROVE  Alike(Written(text), Kept(ls, Inky)) /\ Said(text) = Said(Unlines(ls))
<1>1. ls \in Seq(Flat) /\ ls \in Seq(Texts)
  BY FlatIsText DEF FlatRows
<1>2. PICK all \in Texts : all = Unlines(ls)
  BY <1>1, UnlinesType
<1>3. PICK end \in Texts : end = TrimEnd(all)
  BY TrimEndType
<1>4. PICK start \in Texts : start = TrimStart(end)
  BY TrimmedStart
<1>5. text = TrimEnd(start)
  BY <1>2, <1>3, <1>4 DEF Trim
<1>6. Written(all) = Kept(ls, Inky)
  BY <1>1, <1>2, UnlinesWritten
<1>7. /\ Written(all) \in Seq(Texts) /\ Written(end) \in Seq(Texts)
      /\ Written(start) \in Seq(Texts) /\ Written(text) \in Seq(Texts)
  BY WrittenType
<1>8. Alike(Written(end), Written(all))
  BY <1>3, <1>7, EndTrimmed, SameEndsAlike
<1>9. Alike(Written(start), Written(end))
  BY <1>4, StartTrimmed
<1>10. Alike(Written(text), Written(start))
  BY <1>5, <1>7, EndTrimmed, SameEndsAlike
<1>11. Alike(Written(text), Written(end))
  BY <1>7, <1>9, <1>10, AlikeTwice
<1>12. Alike(Written(text), Written(all))
  BY <1>7, <1>8, <1>11, AlikeTwice
<1>13. Said(end) = Said(all) /\ Said(start) = Said(end) /\ Said(text) = Said(start)
  BY <1>3, <1>4, <1>5, TrimBothEnds
<1> QED
  BY <1>2, <1>6, <1>12, <1>13

\* A text without the blank lines in a row is written as it was.
LEMMA CollapseWritten ==
  ASSUME NEW text \in Texts, NEW shown \in Texts, shown = Collapse(text)
  PROVE  Alike(Written(shown), Written(text)) /\ Said(shown) = Said(text)
<1>1. PICK ls \in FlatRows : ls = Lines(text)
  BY LinesAre
<1>2. PICK output \in Texts : output = Collapsed(ls)
  BY CollapsedIs DEF Neat
<1>3. shown = TrimEnd(output)
  BY <1>1, <1>2 DEF Collapse
<1>4. Written(text) = Kept(ls, Inky)
  BY <1>1 DEF Written
<1>5. Written(shown) \in Seq(Texts) /\ Written(output) \in Seq(Texts) /\ Written(text) \in Seq(Texts)
  BY WrittenType
<1>6. Alike(Written(shown), Written(output))
  BY <1>3, <1>5, EndTrimmed, SameEndsAlike
<1>7. Alike(Written(output), Written(text))
  <2>1. SameEnds(Written(output), Written(text))
    BY <1>2, <1>4, CollapsedWritten
  <2> QED BY <1>5, <2>1, SameEndsAlike
<1>8. Alike(Written(shown), Written(text))
  BY <1>5, <1>6, <1>7, AlikeTwice
<1>9. Said(shown) = Said(output) /\ Said(output) = Said(Unlines(ls)) /\ Said(Unlines(ls)) = Said(text)
  BY <1>1, <1>2, <1>3, TrimBothEnds, SaidCollapsed, SaidOfLines
<1> QED
  BY <1>8, <1>9

\* Polishing a text loses no prose and no code, and leaves no link to an unknown scheme.
LEMMA Polished ==
  ASSUME NEW text \in Texts, LinesLinked(Lines(text)), NEW shown \in Texts, shown = Polish(text)
  PROVE  /\ Said(shown) = Said(text)
         /\ CodeLines(Lines(shown)) = CodeLines(Lines(text))
         /\ OddLinks(Lines(shown)) = {}
<1>1. PICK ls \in FlatRows : ls = Lines(text)
  BY LinesAre
<1>2. PICK new \in FlatRows :
        /\ new = Rewritten(ls)
        /\ Said(Unlines(new)) = Said(Unlines(ls))
        /\ CodeLines(new) = CodeLines(ls)
        /\ OddLinks(new) = {}
  BY <1>1, RewrittenLines
<1>3. PICK trimmed \in Texts : trimmed = Trim(TrimEnd(Unlines(new)))
  <2>1. new \in Seq(Texts)
    BY FlatIsText DEF FlatRows
  <2> QED BY <2>1, UnlinesType, TrimEndType, TrimIs
<1>4. shown = Collapse(trimmed)
  BY <1>1, <1>2, <1>3 DEF Polish, Rewrite, Rewritten
<1>5. PICK w \in Seq(Texts) : w = Kept(new, Inky)
  <2>1. \A line \in Inky : line \in Texts
    BY FlatIsText DEF Inky
  <2>2. Kept(new, Inky) \in Seq(Inky)
    BY KeptType DEF FlatRows
  <2> QED BY <2>1, <2>2
<1>6. Alike(Written(shown), w) /\ Said(shown) = Said(Unlines(new))
  <2>1. Alike(Written(trimmed), w) /\ Said(trimmed) = Said(Unlines(new))
    BY <1>3, <1>5, AroundWritten
  <2>2. Alike(Written(shown), Written(trimmed)) /\ Said(shown) = Said(trimmed)
    BY <1>4, CollapseWritten
  <2>3. Written(shown) \in Seq(Texts) /\ Written(trimmed) \in Seq(Texts)
    BY WrittenType
  <2> QED BY <2>1, <2>2, <2>3, AlikeTwice
<1>7. CodeLines(Written(shown)) = CodeLines(w) /\ OddLinks(Written(shown)) = OddLinks(w)
  BY <1>6, WrittenType, CodeAlike
<1>8. CodeLines(new) = CodeLines(w) /\ (OddLinks(new) = {} <=> OddLinks(w) = {})
  BY <1>5, CodeInked DEF FlatRows
<1>9. /\ CodeLines(Lines(shown)) = CodeLines(Written(shown))
      /\ OddLinks(Lines(shown)) = {} <=> OddLinks(Written(shown)) = {}
  BY WrittenType, CodeInked DEF Written
<1>10. Said(Unlines(ls)) = Said(text)
  BY <1>1, SaidOfLines
<1> QED
  BY <1>1, <1>2, <1>6, <1>7, <1>8, <1>9, <1>10

\* So does making Markdown of a page that is as the converter writes it.
LEMMA MarkdownSays ==
  ASSUME NEW p \in PageType, AsWritten(p), NEW shown, shown = ToMarkdown(p)
  PROVE  /\ Kept(shown, Prose) = Kept(p.text, Prose)
         /\ CodeLines(Lines(shown)) = CodeLines(Lines(p.text))
         /\ OddLinks(Lines(shown)) = {}
<1>1. PICK text \in Texts : text = p.text
  BY DEF PageType
<1>2. PICK read \in Texts : read = IF p.converted THEN text ELSE StripTags(text)
  BY StripTagsType
<1>3. shown = Polish(read)
  BY <1>1, <1>2 DEF ToMarkdown
<1>4. shown \in Texts
  BY <1>3, PolishIs DEF Documents
<1>5. LinesLinked(Lines(read))
  BY <1>1, <1>2 DEF AsWritten, LinesLinked
<1>6. /\ Said(shown) = Said(read) /\ CodeLines(Lines(shown)) = CodeLines(Lines(read))
      /\ OddLinks(Lines(shown)) = {}
  BY <1>3, <1>4, <1>5, Polished
<1>7. Said(read) = Said(text) /\ CodeLines(Lines(read)) = CodeLines(Lines(text))
  <2>1. CASE p.converted
    BY <1>2, <2>1
  <2>2. CASE ~p.converted
    <3>1. TagsApart(text) /\ read = StripTags(text)
      BY <1>1, <1>2, <2>2 DEF AsWritten
    <3> QED BY <3>1, TagsSayNothing
  <2> QED BY <2>1, <2>2
<1> QED
  BY <1>1, <1>6, <1>7 DEF Said

-----------------------------------------------------------------------------
(* The calls *)

\* The cache holds a page or not, and a memo only of the page it holds.
Cached ==
  /\ page \in {NoPage, Absent} \cup {Page(p) : p \in PageType}
  /\ memo \in {NoMemo} \cup Documents
  /\ memo # NoMemo => page.kind = "page" /\ memo = Markdown

\* Whoever fetches does so alone, and only while nothing is cached.
AloneInFetch ==
  \A t \in Tasks : pc[t] # "idle" =>
    place[t] = "fetch" /\ page = NoPage /\ \A u \in Tasks \ {t} : pc[u] = "idle"

\* A caller past the door has a budget; what it has derived, it has of the page that
\* is still cached.
Asking ==
  \A t \in Tasks :
    /\ place[t] # "idle" => budget[t] \in Nat \ {0}
    /\ place[t] = "memoize" => page.kind = "page" /\ own[t] = Markdown

\* An answer shows the Markdown of the page, cut for this caller, or quotes an error.
Told ==
  /\ answer.kind = "readme" =>
       /\ page.kind = "page"
       /\ \E chars \in Nat \ {0} : answer = Readme(Frame(Shown(Markdown, chars)), chars)
  /\ answer.kind = "error" => \E body \in ErrorBodies : answer = ErrorAnswer(body)

CallTypeOK ==
  /\ pc \in [Tasks -> Places]
  /\ place \in [Tasks -> {"idle", "get", "fetch", "memoize"}]
  /\ budget \in [Tasks -> Nat]
  /\ DOMAIN own = Tasks

ReadInv == CallTypeOK /\ Cached /\ AloneInFetch /\ Asking /\ Told

\* The mark of a cut is a text.
LEMMA MarkerIsText == Marker \in Texts /\ Len(Marker) = 3
<1>1. PICK end \in Characters : end = "README truncated"
  BY DEF Characters
<1>2. NL \in Characters
  BY DEF Characters
<1>3. <<NL, NL, end>> \in Texts /\ Len(<<NL, NL, end>>) = 3
  BY <1>2 DEF Texts
<1> QED
  BY <1>1, <1>3 DEF Marker

\* What is shown of a document is a text.
LEMMA ShownType ==
  ASSUME NEW text \in Documents, NEW chars \in Nat \ {0}
  PROVE  Shown(text, chars) \in Texts
<1>1. CASE Len(text) <= chars
  BY <1>1 DEF Shown, Documents
<1>2. CASE ~(Len(text) <= chars)
  <2>1. Len(text) > chars /\ Len(text) \in Nat /\ text \in Texts
    BY <1>2 DEF Documents, Texts
  <2>2. PICK b \in 1 .. chars : Truncate(text, chars) = SubSeq(text, 1, b) \o Marker
    BY <2>1, TruncateIs
  <2>3. b \in 0 .. Len(text)
    BY <2>1
  <2>4. SubSeq(text, 1, b) \in Texts
    BY <2>1, <2>3, BeginningIs
  <2>5. SubSeq(text, 1, b) \o Marker \in Texts
    BY <2>4, MarkerIsText, JoinedIs DEF IsJoin
  <2> QED BY <1>2, <2>2, <2>5 DEF Shown
<1> QED
  BY <1>1, <1>2

\* A text and its mark can be told apart.
LEMMA MarkedIs ==
  ASSUME NEW part \in Texts
  PROVE  IsSuffix(Marker, part \o Marker) /\ Beginning(part \o Marker) = part
<1>1. PICK a \in Nat, m \in Nat, mark \in Texts : a = Len(part) /\ mark = Marker /\ m = Len(mark)
  BY MarkerIsText DEF Texts
<1>2. PICK all : all = part \o mark /\ IsJoin(all, part, mark)
  BY JoinedIs
<1>3. /\ all \in Texts /\ Len(all) = a + m /\ DOMAIN all = 1 .. a + m /\ DOMAIN mark = 1 .. m /\ DOMAIN part = 1 .. a
      /\ \A i \in 1 .. a : all[i] = part[i]
      /\ \A i \in 1 .. m : all[a + i] = mark[i]
  BY <1>1, <1>2 DEF IsJoin, Texts
<1>4. SubSeq(all, 1, a) = part
  BY <1>1, <1>3 DEF Texts
<1>5. Beginning(all) = part
  <2>1. Len(all) - Len(Marker) = a
    BY <1>1, <1>3
  <2> QED BY <1>4, <2>1 DEF Beginning
<1>6. IsSuffix(mark, all)
  <2>1. PICK r : r = Reverse(mark)
    OBVIOUS
  <2>2. PICK q : q = Reverse(all)
    OBVIOUS
  <2>3. r = [i \in 1 .. m |-> mark[m - i + 1]] /\ q = [i \in 1 .. a + m |-> all[a + m - i + 1]]
    BY <1>1, <1>3, <2>1, <2>2 DEF Reverse
  <2>4. ASSUME NEW i \in 1 .. m PROVE mark[m - i + 1] = all[a + m - i + 1] /\ mark[m - i + 1] \in Characters
    <3>1. m - i + 1 \in 1 .. m /\ a + (m - i + 1) = a + m - i + 1
      OBVIOUS
    <3> QED BY <1>3, <3>1 DEF Texts
  <2>5. ASSUME NEW i \in 1 .. a + m PROVE all[a + m - i + 1] \in Characters
    <3>1. a + m - i + 1 \in 1 .. a + m
      OBVIOUS
    <3> QED BY <1>3, <3>1 DEF Texts
  <2>6. r \in Texts /\ q \in Texts /\ Len(r) = m /\ Len(q) = a + m /\ \A i \in 1 .. m : r[i] = q[i]
    BY <2>3, <2>4, <2>5 DEF Texts
  <2>7. SubSeq(r, 1, m) = SubSeq(q, 1, m)
    BY <2>6 DEF Texts
  <2> QED BY <2>1, <2>2, <2>6, <2>7 DEF IsSuffix, IsPrefix
<1> QED
  BY <1>1, <1>2, <1>5, <1>6

\* What a caller with this budget is shown of a document is what BudgetIsOwn says.
LEMMA ShownIs ==
  ASSUME NEW text \in Documents, NEW chars \in Nat \ {0}, Len(text) > chars
  PROVE  LET shown == Shown(text, chars)
             beginning == Beginning(shown)
         IN /\ IsSuffix(Marker, shown)
            /\ IsPrefix(beginning, text)
            /\ Len(beginning) <= chars /\ beginning # <<>>
            /\ \A i \in LineEnds(text) : i <= chars => Len(TrimEnd(SubSeq(text, 1, i))) <= Len(beginning)
            /\ NL \notin ToSet(SubSeq(text, 1, chars)) \/ text[Len(beginning) + 1] = NL
<1>1. PICK b \in 1 .. chars :
        /\ Truncate(text, chars) = SubSeq(text, 1, b) \o Marker
        /\ \A i \in LineEnds(text) : i <= chars => Len(TrimEnd(SubSeq(text, 1, i))) <= b
        /\ text[b + 1] = NL \/ \A i \in 1 .. chars : text[i] # NL
  BY TruncateIs
<1>2. text \in Texts /\ Len(text) \in Nat /\ b \in 0 .. Len(text) /\ chars \in 0 .. Len(text)
  BY DEF Documents, Texts
<1>3. PICK part \in Texts : part = SubSeq(text, 1, b) /\ Len(part) = b
  BY <1>2, BeginningIs
<1>4. Shown(text, chars) = part \o Marker
  BY <1>1, <1>2, <1>3 DEF Shown
<1>5. IsSuffix(Marker, Shown(text, chars)) /\ Beginning(Shown(text, chars)) = part
  BY <1>4, MarkedIs
<1>6. IsPrefix(part, text)
  <2>1. SubSeq(part, 1, b) = SubSeq(text, 1, b)
    BY <1>3 DEF Texts
  <2> QED BY <1>2, <1>3, <2>1 DEF IsPrefix
<1>7. NL \notin ToSet(SubSeq(text, 1, chars)) \/ text[b + 1] = NL
  <2>1. PICK line \in Texts : /\ line = SubSeq(text, 1, chars) /\ Len(line) = chars
                              /\ \A i \in 1 .. chars : line[i] = text[i]
    BY <1>2, BeginningIs
  <2>2. DOMAIN line = 1 .. chars
    BY <2>1 DEF Texts
  <2> QED BY <1>1, <2>1, <2>2 DEF ToSet
<1>8. part # <<>>
  BY <1>3
<1> QED
  BY <1>1, <1>3, <1>5, <1>6, <1>7, <1>8

-----------------------------------------------------------------------------
(* The invariant *)

\* Everything holds at first.
LEMMA ReadInitHolds == Init => ReadInv
<1> SUFFICES ASSUME Init PROVE ReadInv
  OBVIOUS
<1> USE DEF Init
<1>1. CallTypeOK
  BY DEF CallTypeOK, PacedInit, Places
<1>2. Cached
  <2>1. \A p \in Pages : p \in PageType
    BY ReadmeConstants
  <2> QED BY <2>1 DEF Cached
<1>3. AloneInFetch /\ Asking
  BY DEF AloneInFetch, Asking, PacedInit
<1>4. Told
  BY DEF Told, NoAnswer
<1> QED
  BY <1>1, <1>2, <1>3, <1>4 DEF ReadInv

\* A step that leaves the cache, the callers and every chain that rests as they were
\* keeps the invariant, whatever a chain under way does.
LEMMA QuietKeeps ==
  ASSUME ReadInv, Quiet,
         pc' = pc \/ \E t \in Tasks, label \in Places : pc[t] # "idle" /\ pc' = [pc EXCEPT ![t] = label]
  PROVE  ReadInv'
<1> USE DEF ReadInv, Quiet
<1>1. CallTypeOK'
  BY DEF CallTypeOK
<1>2. Cached'
  BY DEF Cached, Markdown
<1>3. AloneInFetch'
  BY DEF AloneInFetch, CallTypeOK
<1>4. Asking' /\ Told'
  BY DEF Asking, Told, NoAnswer, Markdown
<1> QED
  BY <1>1, <1>2, <1>3, <1>4

\* A step of a chain moves one call, which has begun.
LEMMA ChainMoves ==
  ASSUME NEW t \in Tasks, Chain(t), pc \in [Tasks -> Places]
  PROVE  pc' = pc \/ \E u \in Tasks, label \in Places : pc[u] # "idle" /\ pc' = [pc EXCEPT ![u] = label]
<1>1. pc[t] # "idle"
  BY DEF Chain, Hop, Send, Lost, Answered, Unchanged, Redirected, Busy, Detailed, BodyBegins, Chunk,
         Received, Cut, BackedOff
<1>2. \A error, status : Fails(t, error, status) => \E label \in Places : pc' = [pc EXCEPT ![t] = label]
  BY DEF Fails, Ends, Goto, Places, Waiting
<1>3. pc' = pc \/ \E label \in Places : pc' = [pc EXCEPT ![t] = label]
  <2>1. CASE Hop(t) \/ Lost(t) \/ Detailed(t) \/ Cut(t)
    BY <1>2, <2>1 DEF Hop, Lost, Detailed, Cut, Goto, Places, Waiting
  <2>2. CASE Send(t) \/ Answered(t) \/ Unchanged(t) \/ Busy(t) \/ Received(t) \/ BackedOff(t)
    BY <2>2 DEF Send, Answered, Unchanged, Busy, Received, BackedOff, Ends, Goto, Places, Waiting
  <2>3. CASE Redirected(t) \/ BodyBegins(t) \/ Chunk(t)
    BY <1>2, <2>3 DEF Redirected, BodyBegins, Chunk, Goto, Places, Waiting
  <2> QED BY <2>1, <2>2, <2>3 DEF Chain
<1> QED
  BY <1>1, <1>3

\* A caller asks: it goes to the cache with a budget, or is refused.
LEMMA AskKeeps ==
  ASSUME ReadInv, NEW t \in Tasks, Ask(t)
  PROVE  ReadInv'
<1> USE DEF ReadInv
<1>1. PICK chars \in Budgets :
        IF chars = 0
          THEN Leave(t, Refused)
          ELSE /\ place' = [place EXCEPT ![t] = "get"]
               /\ budget' = [budget EXCEPT ![t] = chars]
               /\ answer' = NoAnswer
               /\ UNCHANGED own
  BY DEF Ask
<1>2. chars \in Nat
  BY ReadmeConstants
<1>3. place[t] = "idle" /\ UNCHANGED <<pc, page, memo>>
  BY DEF Ask, pacedVars
<1>4. PICK next \in {"idle", "get"}, given \in Nat :
        /\ place' = [place EXCEPT ![t] = next] /\ budget' = [budget EXCEPT ![t] = given]
        /\ next # "idle" => given # 0
        /\ \A u \in Tasks \ {t} : own'[u] = own[u]
        /\ DOMAIN own' = Tasks
        /\ answer' \in {Refused, NoAnswer}
  BY <1>1, <1>2 DEF Leave, CallTypeOK
<1>5. CallTypeOK'
  BY <1>3, <1>4 DEF CallTypeOK
<1>6. Cached'
  BY <1>3 DEF Cached, Markdown
<1>7. AloneInFetch'
  BY <1>3, <1>4 DEF AloneInFetch, CallTypeOK
<1>8. Asking'
  BY <1>3, <1>4 DEF Asking, CallTypeOK, Markdown
<1>9. Told'
  BY <1>4 DEF Told, Refused, NoAnswer
<1> QED
  BY <1>5, <1>6, <1>7, <1>8, <1>9

\* The only caller that fetches begins to.
LEMMA BeginKeeps ==
  ASSUME ReadInv, NEW t \in Tasks, Begin(t)
  PROVE  ReadInv'
<1> USE DEF ReadInv, Begin
<1>1. pc' = [pc EXCEPT ![t] = "hop"]
  BY DEF Fetch, Goto
<1>2. CallTypeOK'
  BY <1>1 DEF CallTypeOK, Places
<1>3. Cached'
  BY DEF Cached, Markdown
<1>4. AloneInFetch'
  BY <1>1 DEF AloneInFetch, CallTypeOK
<1>5. Asking'
  BY DEF Asking, CallTypeOK, Markdown
<1>6. Told'
  BY DEF Told, NoAnswer
<1> QED
  BY <1>2, <1>3, <1>4, <1>5, <1>6

\* A caller that leaves disturbs nobody else, and what it was told is all there is to ask.
LEMMA LeaveKeeps ==
  ASSUME ReadInv, NEW t \in Tasks, NEW result, Leave(t, result), UNCHANGED page,
         (pc' = pc /\ pc[t] = "idle") \/ pc' = [pc EXCEPT ![t] = "idle"],
         Cached', Told'
  PROVE  ReadInv'
<1> USE DEF ReadInv, Leave
<1>1. CallTypeOK'
  BY DEF CallTypeOK, Places
<1>2. AloneInFetch'
  BY DEF AloneInFetch, CallTypeOK
<1>3. Asking'
  BY DEF Asking, CallTypeOK, Markdown
<1> QED
  BY <1>1, <1>2, <1>3

\* Only a caller in its fetch has a chain under way.
LEMMA RestingElsewhere ==
  ASSUME ReadInv, NEW t \in Tasks, place[t] # "fetch"
  PROVE  pc[t] = "idle"
  BY DEF ReadInv, AloneInFetch

\* What the fetch came to: a page or an absence is cached, anything else is told.
LEMMA SettleKeeps ==
  ASSUME ReadInv, NEW t \in Tasks, Settle(t)
  PROVE  ReadInv'
<1>1. pc[t] # "idle" /\ pc' = [pc EXCEPT ![t] = "idle"]
  BY DEF Settle, Collect, Goto
<1>2. place[t] = "fetch" /\ page = NoPage /\ \A u \in Tasks \ {t} : pc[u] = "idle"
  BY <1>1 DEF ReadInv, AloneInFetch
<1>3. memo = NoMemo
  BY <1>2 DEF ReadInv, Cached, NoPage
<1>4. CASE /\ page' \in {Absent} \cup {Page(p) : p \in ServedPages}
           /\ memo' = NoMemo
           /\ place' = [place EXCEPT ![t] = "get"]
           /\ answer' = NoAnswer
           /\ UNCHANGED <<budget, own>>
  <2> USE DEF ReadInv
  <2>1. CallTypeOK'
    BY <1>1, <1>4 DEF CallTypeOK, Places
  <2>2. Cached'
    <3>1. \A p \in ServedPages : p \in PageType
      BY ReadmeConstants
    <3> QED BY <1>4, <3>1 DEF Cached
  <2>3. AloneInFetch'
    <3>1. \A u \in Tasks : pc'[u] = "idle"
      BY <1>1, <1>2 DEF CallTypeOK
    <3> QED BY <3>1 DEF AloneInFetch
  <2>4. Asking'
    <3>1. \A u \in Tasks : place[u] # "memoize"
      BY <1>2 DEF Asking, NoPage
    <3> QED BY <1>2, <1>4, <3>1 DEF Asking, CallTypeOK
  <2>5. Told'
    BY <1>4 DEF Told, NoAnswer
  <2> QED BY <2>1, <2>2, <2>3, <2>4, <2>5
<1>5. ASSUME NEW result \in {Unavailable} \cup {ErrorAnswer(body) : body \in ErrorBodies},
             Leave(t, result), UNCHANGED <<page, memo>>
      PROVE  ReadInv'
  <2>1. Cached'
    BY <1>5 DEF ReadInv, Cached, Markdown
  <2>2. answer' = result
    BY <1>5 DEF Leave
  <2>3. Told'
    BY <1>5, <2>2 DEF Told, Unavailable, ErrorAnswer
  <2> QED BY <1>1, <1>5, <2>1, <2>3, LeaveKeeps
<1> QED
  BY <1>3, <1>4, <1>5 DEF Settle

\* What is cached as a page is the page of some text.
LEMMA PageCached ==
  ASSUME Cached, page.kind = "page"
  PROVE  \E p \in PageType : page = Page(p)
<1>1. page \in {NoPage, Absent} \cup {Page(p) : p \in PageType}
  BY DEF Cached
<1>2. NoPage.kind = "no page" /\ Absent.kind = "absent"
  BY DEF NoPage, Absent
<1>3. page # NoPage /\ page # Absent
  BY <1>2
<1> QED
  BY <1>1, <1>3

\* A cached answer is given, of an absence or of the page.
LEMMA AnswerKeeps ==
  ASSUME ReadInv, NEW t \in Tasks, FoundAbsent(t) \/ Remembered(t) \/ Memoize(t)
  PROVE  ReadInv'
<1>1. UNCHANGED <<pc, page>> /\ place[t] \in {"get", "memoize"}
  BY DEF FoundAbsent, Remembered, Memoize, pacedVars
<1>2. pc[t] = "idle"
  BY <1>1, RestingElsewhere
<1>3. budget[t] \in Nat \ {0}
  BY <1>1 DEF ReadInv, Asking
<1>4. CASE FoundAbsent(t)
  <2>1. Cached'
    BY <1>4 DEF ReadInv, Cached, FoundAbsent, Markdown
  <2>2. answer' = Unavailable /\ Leave(t, Unavailable)
    BY <1>4 DEF FoundAbsent, Leave
  <2>3. Told'
    BY <2>2 DEF Told, Unavailable
  <2> QED BY <1>1, <1>2, <2>1, <2>2, <2>3, LeaveKeeps
<1>5. CASE Remembered(t) \/ Memoize(t)
  <2>1. PICK markdown : /\ Answer(t, markdown) /\ page.kind = "page" /\ markdown = Markdown
                        /\ memo' \in {memo, markdown}
    BY <1>5 DEF ReadInv, Cached, Asking, Remembered, Memoize
  <2>2. PICK result : result = Readme(Frame(Shown(Markdown, budget[t])), budget[t])
    OBVIOUS
  <2>3. answer' = result /\ Leave(t, result)
    BY <2>1, <2>2 DEF Answer, Leave
  <2>4. Markdown' = Markdown
    BY <1>1 DEF Markdown
  <2>5. Markdown \in Documents
    <3>1. PICK p \in PageType : page = Page(p)
      BY <2>1, PageCached DEF ReadInv
    <3>2. page.page = p
      BY <3>1 DEF Page
    <3> QED BY <3>2, ToMarkdownIs DEF Markdown
  <2>6. Cached'
    BY <1>1, <2>1, <2>4, <2>5 DEF ReadInv, Cached
  <2>7. Told'
    BY <1>1, <1>3, <2>1, <2>2, <2>3, <2>4 DEF Told, Readme
  <2> QED BY <1>1, <1>2, <2>3, <2>6, <2>7, LeaveKeeps
<1> QED
  BY <1>4, <1>5

\* A caller derives the Markdown of the cached page.
LEMMA DeriveKeeps ==
  ASSUME ReadInv, NEW t \in Tasks, Derive(t)
  PROVE  ReadInv'
<1> USE DEF ReadInv, Derive
<1>1. UNCHANGED <<pc, page, memo>> /\ pc[t] = "idle"
  BY RestingElsewhere DEF pacedVars
<1>2. CallTypeOK'
  BY <1>1 DEF CallTypeOK
<1>3. Cached'
  BY DEF Cached, Markdown
<1>4. AloneInFetch'
  BY <1>1 DEF AloneInFetch, CallTypeOK
<1>5. Asking'
  <2>1. own' = [own EXCEPT ![t] = Markdown] /\ Markdown' = Markdown
    BY DEF Markdown
  <2> QED BY <2>1 DEF Asking, CallTypeOK
<1>6. Told'
  BY DEF Told, NoAnswer
<1> QED
  BY <1>2, <1>3, <1>4, <1>5, <1>6

\* A caller is dropped.
LEMMA DropKeeps ==
  ASSUME ReadInv, NEW t \in Tasks, Drop(t)
  PROVE  ReadInv'
<1>1. Leave(t, NoAnswer) /\ UNCHANGED <<page, memo>> /\ answer' = NoAnswer
  BY DEF Drop, Leave
<1>2. (pc' = pc /\ pc[t] = "idle") \/ pc' = [pc EXCEPT ![t] = "idle"]
  BY RestingElsewhere DEF Drop, Cancel, Goto, pacedVars
<1>3. Cached'
  BY <1>1 DEF ReadInv, Cached, Markdown
<1>4. Told'
  BY <1>1 DEF Told, NoAnswer
<1> QED
  BY <1>1, <1>2, <1>3, <1>4, LeaveKeeps

\* An absence is forgotten.
LEMMA ForgetKeeps ==
  ASSUME ReadInv, Forget
  PROVE  ReadInv'
<1> USE DEF ReadInv, Forget
<1>1. UNCHANGED <<pc, memo, place, budget, own>> /\ page.kind # "page"
  BY DEF pacedVars, Absent
<1>2. memo = NoMemo /\ \A t \in Tasks : place[t] # "memoize" /\ pc[t] = "idle"
  BY <1>1 DEF Cached, Asking, AloneInFetch, NoPage, Absent
<1>3. CallTypeOK'
  BY <1>1 DEF CallTypeOK
<1>4. Cached'
  BY <1>1, <1>2 DEF Cached
<1>5. AloneInFetch' /\ Asking'
  BY <1>1, <1>2 DEF AloneInFetch, Asking
<1>6. Told'
  BY DEF Told, NoAnswer
<1> QED
  BY <1>3, <1>4, <1>5, <1>6

\* Every step keeps the invariant.
LEMMA ReadNextHolds == ReadInv /\ [Next]_vars => ReadInv'
<1> SUFFICES ASSUME ReadInv, [Next]_vars PROVE ReadInv'
  OBVIOUS
<1>1. CASE UNCHANGED vars
  BY <1>1 DEF ReadInv, CallTypeOK, Cached, AloneInFetch, Asking, Told, Markdown, vars, readVars, pacedVars
<1>2. ASSUME NEW t \in Tasks, Chain(t), Quiet PROVE ReadInv'
  <2>1. pc \in [Tasks -> Places]
    BY DEF ReadInv, CallTypeOK
  <2> QED BY <1>2, <2>1, ChainMoves, QuietKeeps
<1>3. ASSUME OthersClaim \/ Tick, Quiet PROVE ReadInv'
  BY <1>3, QuietKeeps DEF OthersClaim, Tick
<1> QED
  BY <1>1, <1>2, <1>3, AskKeeps, BeginKeeps, SettleKeeps, AnswerKeeps, DeriveKeeps, DropKeeps, ForgetKeeps
     DEF Next, Reads

-----------------------------------------------------------------------------
(* The theorems *)

\* Who fetches, what is cached and what each caller has of it, in every state.
THEOREM ReadInvariant == Spec => []ReadInv
  BY ReadInitHolds, ReadNextHolds, PTL DEF Spec

\* An answered README is the Markdown of the page, cut for its caller and framed.
LEMMA AnsweredIs ==
  ASSUME ReadInv, answer.kind = "readme"
  PROVE  \E text \in Documents, chars \in Nat \ {0} :
           Markdown = text /\ answer.text = Frame(Shown(text, chars)) /\ answer.budget = chars
<1>1. PICK chars \in Nat \ {0} : answer = Readme(Frame(Shown(Markdown, chars)), chars)
  BY DEF ReadInv, Told
<1>2. page.kind = "page"
  BY DEF ReadInv, Told
<1>3. PICK p \in PageType : page = Page(p)
  BY <1>2, PageCached DEF ReadInv
<1>4. Markdown \in Documents
  BY <1>3, ToMarkdownIs DEF Markdown, Page
<1> QED
  BY <1>1, <1>4 DEF Readme

\* The frame around a README ends where the server ended it (untrusted.rs frame).
THEOREM FramesHold == Spec => []FrameHolds
<1>1. ReadInv => FrameHolds
  <2> SUFFICES ASSUME ReadInv, answer.kind = "readme" PROVE FrameHolds
    BY DEF FrameHolds
  <2>1. PICK text \in Texts : answer.text = Frame(text)
    BY AnsweredIs, ShownType
  <2> QED BY <2>1, FrameTells, FrameCloses, FenceLengthIs DEF FrameHolds
<1> QED
  BY <1>1, ReadInvariant, PTL

\* Every caller gets what its own budget allows (readme.rs truncate, lib.rs).
THEOREM BudgetsAreOwn == Spec => []BudgetIsOwn
<1>1. ReadInv => BudgetIsOwn
  <2> SUFFICES ASSUME ReadInv, answer.kind = "readme" PROVE BudgetIsOwn
    BY DEF BudgetIsOwn
  <2>1. PICK text \in Documents, chars \in Nat \ {0} :
          Markdown = text /\ answer.text = Frame(Shown(text, chars)) /\ answer.budget = chars
    BY AnsweredIs
  <2>2. Inside(answer.text) = Shown(text, chars)
    BY <2>1, ShownType, FrameTells
  <2>3. CASE Len(text) <= chars
    BY <2>1, <2>2, <2>3 DEF BudgetIsOwn, Shown
  <2>4. CASE ~(Len(text) <= chars)
    <3>1. Len(text) > chars
      BY <2>4 DEF Documents, Texts
    <3> QED BY <2>1, <2>2, <2>4, <3>1, ShownIs DEF BudgetIsOwn
  <2> QED BY <2>3, <2>4
<1> QED
  BY <1>1, ReadInvariant, PTL

\* A README that says anything shows something of it (readme.rs to_markdown).
THEOREM SomethingShown == Spec => []ShowsSomething
<1>1. ReadInv => ShowsSomething
  <2> SUFFICES ASSUME ReadInv, answer.kind = "readme", Markdown # <<>> PROVE Inside(answer.text) # Marker
    BY DEF ShowsSomething
  <2>1. PICK text \in Documents, chars \in Nat \ {0} :
          Markdown = text /\ answer.text = Frame(Shown(text, chars)) /\ answer.budget = chars
    BY AnsweredIs
  <2>2. Inside(answer.text) = Shown(text, chars)
    BY <2>1, ShownType, FrameTells
  <2>3. CASE Len(text) <= chars
    <3>1. text[1] # Marker[1]
      BY <2>1 DEF Documents, Marker, IsSpace
    <3> QED BY <2>2, <2>3, <3>1 DEF Shown
  <2>4. CASE ~(Len(text) <= chars)
    <3>1. Len(text) > chars
      BY <2>4 DEF Documents, Texts
    <3>2. Beginning(Shown(text, chars)) # <<>>
      BY <3>1, ShownIs
    <3>3. Beginning(Marker) = <<>>
      BY MarkerIsText DEF Beginning
    <3> QED BY <2>2, <3>2, <3>3
  <2> QED BY <2>3, <2>4
<1> QED
  BY <1>1, ReadInvariant, PTL

\* What an error quotes of a body is no page (fetch.rs is_markup).
THEOREM ErrorsQuoteMessages == Spec => []ErrorsAreMessages
<1>1. ReadInv => ErrorsAreMessages
  <2> SUFFICES ASSUME ReadInv, answer.kind = "error", answer.body.messages = <<>>,
                      NEW i \in DOMAIN answer.detail, answer.detail[i] = "<"
               PROVE  \E k \in 1 .. i : IsWord(answer.detail[k])
    BY DEF ErrorsAreMessages
  <2>1. PICK body \in ErrorBodies : answer = ErrorAnswer(body)
    BY DEF ReadInv, Told
  <2>2. body \in [messages : Texts, text : Texts] /\ answer.body = body /\ answer.detail = DetailOf(body)
    BY <2>1, ReadmeConstants DEF ErrorAnswer
  <2> QED BY <2>2, DetailIs
<1> QED
  BY <1>1, ReadInvariant, PTL

\* What is cached is a page that was there at first or was served.
Held == page \in {NoPage, Absent} \cup {Page(p) : p \in Pages \cup ServedPages}

\* Every step keeps that.
LEMMA HeldKeeps == Spec => []Held
<1>1. Init => Held
  BY DEF Init, Held
<1>2. Held /\ [Next]_vars => Held'
  <2> SUFFICES ASSUME Held, [Next]_vars PROVE Held'
    OBVIOUS
  <2>1. page' \in {page, Absent, NoPage} \cup {Page(p) : p \in ServedPages}
    <3>1. CASE UNCHANGED vars
      BY <3>1 DEF vars, readVars
    <3>2. ASSUME NEW t \in Tasks, Settle(t) PROVE page' \in {page, Absent} \cup {Page(p) : p \in ServedPages}
      BY <3>2 DEF Settle
    <3> QED
      BY <3>1, <3>2
         DEF Next, Ask, Begin, Reads, FoundAbsent, Remembered, Derive, Memoize, Drop, Quiet, Forget
  <2> QED BY <2>1 DEF Held
<1> QED
  BY <1>1, <1>2, PTL DEF Spec

\* Rewriting the links of pages that are as the converter writes them changes links only
\* (readme.rs rewrite_links).
THEOREM LinksOnly ==
  ASSUME \A p \in Pages \cup ServedPages : AsWritten(p)
  PROVE  Spec => []OnlyLinksChange
<1>1. ReadInv /\ Held => OnlyLinksChange
  <2> SUFFICES ASSUME ReadInv, Held, memo # NoMemo
               PROVE  /\ Kept(memo, Prose) = Kept(page.page.text, Prose)
                      /\ CodeLines(Lines(memo)) = CodeLines(Lines(page.page.text))
                      /\ OddLinks(Lines(memo)) = {}
    BY DEF OnlyLinksChange
  <2>1. page.kind = "page" /\ memo = ToMarkdown(page.page)
    BY DEF ReadInv, Cached, Markdown
  <2>2. PICK p \in Pages \cup ServedPages : page = Page(p)
    <3>0. NoPage.kind = "no page" /\ Absent.kind = "absent"
      BY DEF NoPage, Absent
    <3>1. page # NoPage /\ page # Absent
      BY <2>1, <3>0
    <3> QED BY <3>1 DEF Held
  <2>3. p = page.page /\ p \in PageType /\ AsWritten(p)
    BY <2>2, ReadmeConstants DEF Page
  <2> QED BY <2>1, <2>3, MarkdownSays
<1> QED
  BY <1>1, ReadInvariant, HeldKeeps, PTL
=============================================================================
