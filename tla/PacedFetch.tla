----------------------------- MODULE PacedFetch -----------------------------
(***************************************************************************)
(* One request to an upstream (crates-io-client, fetch.rs:                 *)
(* fetch_with_retry and fetch_once): a chain of redirects, every hop of it *)
(* checked and paced by the host it goes to, restarted after a failure     *)
(* that may pass.                                                          *)
(*                                                                         *)
(* Each origin has a pacer.  Taking a slot is one step here (RateLimit.tla *)
(* is what Pacer.tla, the code, implements), and only the distance to now  *)
(* is kept: ahead[o] is how far the timeline of o reaches past the         *)
(* clock, and Tick brings everything a tick nearer.  So time has no end.   *)
(*                                                                         *)
(* What a server answers is external: any status, any Location, any        *)
(* Retry-After, a body of any declared and any actual length.              *)
(***************************************************************************)
EXTENDS Integers, FiniteSets

CONSTANTS
  Tasks,         \* calls of fetch_with_retry at the same time
  Asked,         \* the URL they ask for
  Locations,     \* what a Location header may hold: URLs, Relative, Unusable
  Contended,     \* origins that calls for other URLs use too
  Interval,      \* least spacing of two requests to each origin
  MaxWait,       \* max_queue_wait
  MaxRedirects,  \* MAX_REDIRECTS
  MaxRetries,    \* max_retries
  RetryHeaders,  \* what a Retry-After header may hold: delays, NoHeader, Unparsable
  LongestPause,  \* the most a Retry-After is followed (300 s)
  UsualPause,    \* the pause when it cannot be parsed (5 s)
  Limit,         \* max_body_bytes
  Sizes,         \* lengths of bodies
  Statuses,      \* statuses of answers
  Relative, Unusable, NoHeader, Unparsable, Undeclared

Origins == {"api", "cdn", "docs"}
Nowhere == "nowhere"

Smaller(a, b) == IF a <= b THEN a ELSE b
Larger(a, b) == IF a >= b THEN a ELSE b

\* Origin::classify
OriginOf(host) ==
  CASE host = "crates.io" -> "api"
    [] host \in {"index.crates.io", "static.crates.io"} -> "cdn"
    [] host \in {"docs.rs", "static.docs.rs"} -> "docs"
    [] OTHER -> Nowhere

\* classify: https on its own port, to a host of the list.
Classify(url) ==
  IF url.scheme = "https" /\ url.port = "default" THEN OriginOf(url.host) ELSE Nowhere

IsRedirect(status) == status \in 300 .. 399 /\ status # 304
IsBusy(status) == status = 429 \/ status >= 500
\* is_absence
IsAbsence(status, origin) == status = 404 \/ (status = 403 /\ origin = "cdn")

\* Error::is_transient
IsTransient(error) == error \in {"network", "busy"}

\* follow_redirect: a relative reference is another path of the same host.
Join(current, location) ==
  IF location = Relative THEN [current EXCEPT !.path = "other"] ELSE location

\* retry_after
PauseOf(header) ==
  IF header = Unparsable THEN UsualPause ELSE Smaller(header, LongestPause)

Paths == {"readme", "other"}
Urls == [scheme : STRING, host : STRING, port : STRING, path : Paths]

Redirections == [status : {s \in Statuses : IsRedirect(s)}, location : Locations]
Refusals == [status : {s \in Statuses : IsBusy(s)}, after : RetryHeaders]
WithBody ==
  [status : {s \in Statuses : ~IsRedirect(s) /\ ~IsBusy(s) /\ s # 304},
   size : Sizes, declared : Sizes \cup {Undeclared}]
Replies == Redirections \cup Refusals \cup WithBody \cup [status : Statuses \cap {304}]

ASSUME PacedConstants ==
  /\ (Locations \ {Relative, Unusable}) \cup {Asked} \subseteq Urls
  /\ Contended \subseteq Origins
  /\ Interval \in [Origins -> Nat \ {0}]
  /\ {MaxWait, MaxRedirects, MaxRetries, LongestPause, UsualPause, Limit} \subseteq Nat
  /\ RetryHeaders \ {NoHeader, Unparsable} \subseteq Nat
  /\ Sizes \subseteq Nat
  /\ Statuses \subseteq 200 .. 599

VARIABLES
  ahead,    \* how far past now each origin's timeline reaches
  pc,       \* where each call is
  url,      \* the hop it is at
  hops,     \* redirects followed in this attempt
  tries,    \* retries spent
  paced,    \* the origin whose slot it holds
  wait,     \* how far away that slot is
  reply,    \* the answer it is reading
  buffer,   \* bytes of the body it has read
  outcome,  \* what the call came to
  told,     \* history: how long the call was told to leave each origin alone
  requests  \* history: requests the call has sent

chainVars == <<url, hops, tries, paced, wait, reply, buffer>>
pacedVars == <<ahead, pc, chainVars, outcome, told, requests>>

NoReply == [status |-> 0]
Pending == [kind |-> "pending"]
Waiting == {"slot", "flight", "detail", "body", "backoff"}
Places == {"idle", "hop", "reply", "ended"} \cup Waiting

PacedInit ==
  /\ ahead = [o \in Origins |-> 0]
  /\ pc = [t \in Tasks |-> "idle"]
  /\ url = [t \in Tasks |-> Asked]
  /\ hops = [t \in Tasks |-> 0]
  /\ tries = [t \in Tasks |-> 0]
  /\ paced = [t \in Tasks |-> Nowhere]
  /\ wait = [t \in Tasks |-> 0]
  /\ reply = [t \in Tasks |-> NoReply]
  /\ buffer = [t \in Tasks |-> 0]
  /\ outcome = [t \in Tasks |-> Pending]
  /\ told = [t \in Tasks |-> [o \in Origins |-> 0]]
  /\ requests = [t \in Tasks |-> 0]

Goto(t, label) == pc' = [pc EXCEPT ![t] = label]

\* What the call kept on its stack is gone.
Dropped(t) ==
  /\ url' = [url EXCEPT ![t] = Asked]
  /\ hops' = [hops EXCEPT ![t] = 0]
  /\ tries' = [tries EXCEPT ![t] = 0]
  /\ paced' = [paced EXCEPT ![t] = Nowhere]
  /\ wait' = [wait EXCEPT ![t] = 0]
  /\ reply' = [reply EXCEPT ![t] = NoReply]
  /\ buffer' = [buffer EXCEPT ![t] = 0]
  /\ told' = [told EXCEPT ![t] = [o \in Origins |-> 0]]
  /\ requests' = [requests EXCEPT ![t] = 0]

Ends(t, result) ==
  /\ Goto(t, "ended")
  /\ outcome' = [outcome EXCEPT ![t] = result]
  /\ Dropped(t)

Failed(error, status) == [kind |-> "error", error |-> error, status |-> status]

\* fetch_with_retry: an error that may pass restarts the chain, as long as retries
\* are left.
Fails(t, error, status) ==
  IF IsTransient(error) /\ tries[t] < MaxRetries
    THEN /\ tries' = [tries EXCEPT ![t] = @ + 1]
         /\ url' = [url EXCEPT ![t] = Asked]
         /\ hops' = [hops EXCEPT ![t] = 0]
         /\ paced' = [paced EXCEPT ![t] = Nowhere]
         /\ reply' = [reply EXCEPT ![t] = NoReply]
         /\ buffer' = [buffer EXCEPT ![t] = 0]
         /\ Goto(t, "backoff")
         /\ UNCHANGED <<wait, outcome, told, requests>>
    ELSE Ends(t, Failed(error, status))

-----------------------------------------------------------------------------
(* fetch_once, up to the answer *)

Fetch(t) ==
  /\ pc[t] = "idle"
  /\ Goto(t, "hop")
  /\ outcome' = [outcome EXCEPT ![t] = Pending]
  /\ UNCHANGED <<ahead, chainVars, told, requests>>

\* The wait of the pacer is over MaxWait: RateLimitQueueFull.
TooLong(origin) == ahead[origin] > MaxWait

\* Mutant of Hop: only the URL that was asked for is classified.
HopTrusting(t) ==
  LET origin == Classify(Asked) IN
  /\ pc[t] = "hop"
  /\ \/ origin # Nowhere /\ TooLong(origin)
        /\ Fails(t, "queue full", 0) /\ UNCHANGED ahead
     \/ /\ origin # Nowhere /\ ~TooLong(origin)
        /\ paced' = [paced EXCEPT ![t] = origin]
        /\ wait' = [wait EXCEPT ![t] = ahead[origin]]
        /\ ahead' = [ahead EXCEPT ![origin] = @ + Interval[origin]]
        /\ Goto(t, "slot")
        /\ UNCHANGED <<url, hops, tries, reply, buffer, outcome, told, requests>>

\* Every hop is classified, and takes a slot of its own host's pacer.
Hop(t) ==
  LET origin == Classify(url[t]) IN
  /\ pc[t] = "hop"
  /\ \/ origin = Nowhere /\ Fails(t, "unsupported", 0) /\ UNCHANGED ahead
     \/ origin # Nowhere /\ TooLong(origin)
        /\ Fails(t, "queue full", 0) /\ UNCHANGED ahead
     \/ /\ origin # Nowhere /\ ~TooLong(origin)
        /\ paced' = [paced EXCEPT ![t] = origin]
        /\ wait' = [wait EXCEPT ![t] = ahead[origin]]
        /\ ahead' = [ahead EXCEPT ![origin] = @ + Interval[origin]]
        /\ Goto(t, "slot")
        /\ UNCHANGED <<url, hops, tries, reply, buffer, outcome, told, requests>>

Send(t) ==
  /\ pc[t] = "slot"
  /\ wait[t] = 0
  /\ requests' = [requests EXCEPT ![t] = @ + 1]
  /\ Goto(t, "flight")
  /\ UNCHANGED <<ahead, chainVars, outcome, told>>

Lost(t) ==
  /\ pc[t] = "flight"
  /\ Fails(t, "network", 0)
  /\ UNCHANGED ahead

Answered(t) ==
  /\ pc[t] = "flight"
  /\ \E r \in Replies : reply' = [reply EXCEPT ![t] = r]
  /\ Goto(t, "reply")
  /\ UNCHANGED <<ahead, url, hops, tries, paced, wait, buffer, outcome, told, requests>>

-----------------------------------------------------------------------------
(* fetch_once, by the status of the answer *)

Unchanged(t) ==
  /\ pc[t] = "reply"
  /\ reply[t].status = 304
  /\ Ends(t, [kind |-> "unchanged"])
  /\ UNCHANGED ahead

\* Mutant of Redirected: one hop too many.
RedirectedOffByOne(t) ==
  /\ pc[t] = "reply"
  /\ IsRedirect(reply[t].status)
  /\ \/ (hops[t] > MaxRedirects \/ reply[t].location = Unusable)
        /\ Fails(t, "unsupported", 0)
     \/ /\ hops[t] <= MaxRedirects /\ reply[t].location # Unusable
        /\ hops' = [hops EXCEPT ![t] = @ + 1]
        /\ url' = [url EXCEPT ![t] = Join(@, reply[t].location)]
        /\ reply' = [reply EXCEPT ![t] = NoReply]
        /\ Goto(t, "hop")
        /\ UNCHANGED <<tries, paced, wait, buffer, outcome, told, requests>>
  /\ UNCHANGED ahead

\* follow_redirect, at most MaxRedirects times in an attempt.
Redirected(t) ==
  /\ pc[t] = "reply"
  /\ IsRedirect(reply[t].status)
  /\ \/ (hops[t] = MaxRedirects \/ reply[t].location = Unusable)
        /\ Fails(t, "unsupported", 0)
     \/ /\ hops[t] < MaxRedirects /\ reply[t].location # Unusable
        /\ hops' = [hops EXCEPT ![t] = @ + 1]
        /\ url' = [url EXCEPT ![t] = Join(@, reply[t].location)]
        /\ reply' = [reply EXCEPT ![t] = NoReply]
        /\ Goto(t, "hop")
        /\ UNCHANGED <<tries, paced, wait, buffer, outcome, told, requests>>
  /\ UNCHANGED ahead

\* The origin answers 429 or an error of its own: it is left alone for as long as it
\* asks, before the rest of the answer is read.
Penalize(t, origin) ==
  IF reply[t].after = NoHeader THEN UNCHANGED ahead
  ELSE ahead' = [ahead EXCEPT ![origin] = Larger(@, PauseOf(reply[t].after))]

\* History: the answer told the call to leave its host alone.
Tell(t) ==
  IF reply[t].after = NoHeader THEN UNCHANGED told
  ELSE told' = [told EXCEPT ![t][paced[t]] = Larger(@, PauseOf(reply[t].after))]

\* Mutant of Busy: only the host that was asked is left alone.
BusyAskedOnly(t) ==
  /\ pc[t] = "reply"
  /\ IsBusy(reply[t].status)
  /\ IF hops[t] = 0 THEN Penalize(t, paced[t]) ELSE UNCHANGED ahead
  /\ Tell(t)
  /\ Goto(t, "detail")
  /\ UNCHANGED <<chainVars, outcome, requests>>

Busy(t) ==
  /\ pc[t] = "reply"
  /\ IsBusy(reply[t].status)
  /\ Penalize(t, paced[t])
  /\ Tell(t)
  /\ Goto(t, "detail")
  /\ UNCHANGED <<chainVars, outcome, requests>>

\* The error's body has been read, or could not be: the error is the same.
Detailed(t) ==
  /\ pc[t] = "detail"
  /\ Fails(t, "busy", reply[t].status)
  /\ UNCHANGED ahead

\* read_body: a declared length over the limit is not read at all.
BodyBegins(t) ==
  /\ pc[t] = "reply"
  /\ ~IsRedirect(reply[t].status) /\ ~IsBusy(reply[t].status) /\ reply[t].status # 304
  /\ IF reply[t].declared # Undeclared /\ reply[t].declared > Limit
       THEN Fails(t, "too large", 0)
       ELSE /\ Goto(t, "body")
            /\ UNCHANGED <<chainVars, outcome, told, requests>>
  /\ UNCHANGED ahead

\* Bytes arrive, in chunks of any length.
Chunk(t) ==
  /\ pc[t] = "body"
  /\ \E length \in 1 .. (reply[t].size - buffer[t]) :
       IF buffer[t] + length > Limit
         THEN Fails(t, "too large", 0)
         ELSE /\ buffer' = [buffer EXCEPT ![t] = @ + length]
              /\ UNCHANGED <<pc, url, hops, tries, paced, wait, reply, outcome, told, requests>>
  /\ UNCHANGED ahead

\* The body is whole; an absence has a lifetime of its own.
Received(t) ==
  /\ pc[t] = "body"
  /\ buffer[t] = reply[t].size
  /\ Ends(t, [kind |-> IF IsAbsence(reply[t].status, paced[t]) THEN "absent" ELSE "body",
              status |-> reply[t].status, origin |-> paced[t]])
  /\ UNCHANGED ahead

\* The connection breaks while the body is read.
Cut(t) ==
  /\ pc[t] = "body"
  /\ Fails(t, "network", 0)
  /\ UNCHANGED ahead

BackedOff(t) ==
  /\ pc[t] = "backoff"
  /\ Goto(t, "hop")
  /\ UNCHANGED <<ahead, chainVars, outcome, told, requests>>

\* The caller takes what the call came to.
Collect(t) ==
  /\ pc[t] = "ended"
  /\ Goto(t, "idle")
  /\ outcome' = [outcome EXCEPT ![t] = Pending]
  /\ UNCHANGED <<ahead, chainVars, told, requests>>

-----------------------------------------------------------------------------
(* The world around *)

\* The caller's future is dropped at an await.  A slot it holds stays taken, and a
\* pause stays in force.
Cancel(t) ==
  /\ pc[t] \in Waiting
  /\ Goto(t, "idle")
  /\ outcome' = [outcome EXCEPT ![t] = Pending]
  /\ Dropped(t)
  /\ UNCHANGED ahead

\* Calls for other URLs take slots of the same hosts (of no consequence while no
\* call is under way).
OthersClaim ==
  /\ \E t \in Tasks : pc[t] # "idle"
  /\ \E o \in Contended :
       /\ ~TooLong(o)
       /\ ahead' = [ahead EXCEPT ![o] = @ + Interval[o]]
  /\ UNCHANGED <<pc, chainVars, outcome, told, requests>>

Nearer(n) == IF n = 0 THEN 0 ELSE n - 1

Tick ==
  /\ ahead' = [o \in Origins |-> Nearer(ahead[o])]
  /\ wait' = [t \in Tasks |-> Nearer(wait[t])]
  /\ told' = [t \in Tasks |-> [o \in Origins |-> Nearer(told[t][o])]]
  /\ UNCHANGED <<pc, url, hops, tries, paced, reply, buffer, outcome, requests>>

Chain(t) ==
  \/ Hop(t) \/ Send(t) \/ Lost(t) \/ Answered(t) \/ Unchanged(t) \/ Redirected(t) \/ Busy(t)
  \/ Detailed(t) \/ BodyBegins(t) \/ Chunk(t) \/ Received(t) \/ Cut(t) \/ BackedOff(t)

PacedNext ==
  \/ \E t \in Tasks : Fetch(t) \/ Chain(t) \/ Collect(t) \/ Cancel(t)
  \/ OthersClaim \/ Tick

PacedSpec == PacedInit /\ [][PacedNext]_pacedVars

-----------------------------------------------------------------------------
(* Properties *)

PacedTypeOK ==
  /\ ahead \in [Origins -> Nat]
  /\ pc \in [Tasks -> Places]
  /\ hops \in [Tasks -> 0 .. MaxRedirects]
  /\ tries \in [Tasks -> 0 .. MaxRetries]
  /\ paced \in [Tasks -> Origins \cup {Nowhere}]
  /\ wait \in [Tasks -> Nat]
  /\ reply \in [Tasks -> Replies \cup {NoReply}]
  /\ url \in [Tasks -> Urls]
  /\ buffer \in [Tasks -> Nat]
  /\ told \in [Tasks -> [Origins -> Nat]]
  /\ requests \in [Tasks -> Nat]

\* A redirect cannot steer the client: every request of every chain goes to a host
\* of the list, over https, in a slot of that host's own pacer, whatever the hop
\* before it was (fetch.rs: "every hop is paced and host-checked").
EveryHopPaced ==
  [][\A t \in Tasks : requests'[t] > requests[t] =>
       Classify(url[t]) # Nowhere /\ paced[t] = Classify(url[t])]_pacedVars

\* One call sends a bounded number of requests: redirect loops and retries
\* multiply, and no mix of them exceeds the product.
ChainBounded ==
  \A t \in Tasks : requests[t] <= (MaxRedirects + 1) * (MaxRetries + 1)

\* A call that was told to leave a host alone sends it nothing until the pause is
\* over - not in its retry, nor at a later hop of a chain that began elsewhere -
\* although slots claimed before the pause, by others, lie inside it.
OwnPauseHonoured ==
  [][\A t \in Tasks : requests'[t] > requests[t] => told[t][Classify(url[t])] = 0]_pacedVars

\* No more of a body is ever held than the limit, whatever length was declared.
BodyBounded == \A t \in Tasks : buffer[t] <= Limit
=============================================================================
