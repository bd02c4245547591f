-------------------------------- MODULE Pacer --------------------------------
(***************************************************************************)
(* The request pacer of one upstream host (crates-io-client, pacer.rs).    *)
(*                                                                         *)
(* Tasks share one atomic word, nextSlot.  A task that wants to send reads *)
(* the clock once, loads the word, and loops on a weak compare-exchange    *)
(* that moves the word one interval past the slot it takes.  The clock     *)
(* runs on between any two of those steps and the reading is never         *)
(* refreshed.  A task whose slot lies ahead sleeps; the runtime may wake   *)
(* it late, never early.  A response that asks for a pause pushes the word *)
(* forward in two steps of its own: a clock reading and a fetch_max.       *)
(*                                                                         *)
(* Every request of a task is one trip round its program counter:          *)
(*   idle -> load -> cas -> (asleep ->) send -> answer -> (pause ->) idle  *)
(***************************************************************************)
EXTENDS Naturals, Sequences

CONSTANTS
  Tasks,         \* the tasks that share the pacer
  Interval,      \* interval_nanos
  MaxWait,       \* max_wait_nanos
  Horizon,       \* u64::MAX on the timeline
  Backoffs,      \* the pauses a response may ask for (Retry-After)
  MaxClock,      \* bound: the clock stops here, and no request starts so late
                 \* that its slot could lie beyond
  MaxRequests    \* bound: requests started in a run

ASSUME PacerConstants ==
  /\ Interval \in Nat
  /\ MaxWait \in Nat
  /\ Horizon \in Nat
  /\ Backoffs \subseteq Nat
  /\ MaxClock \in 0 .. Horizon
  /\ MaxRequests \in Nat

VARIABLES
  clock,      \* Instant::now() - base
  nextSlot,   \* next_slot_nanos
  pc,         \* where each task is
  now,        \* reserve's reading of the clock, per task
  observed,   \* reserve's last load of next_slot_nanos, per task
  slot,       \* the slot a task was given
  target,     \* penalize's target, per task
  started,    \* requests started (to bound the run)
  issued,     \* history: the slots handed out, in order
  sent,       \* history: the times requests left, in order
  floor       \* history: the furthest pause applied so far

vars == <<clock, nextSlot, pc, now, observed, slot, target, started, issued, sent, floor>>

Larger(a, b) == IF a >= b THEN a ELSE b
Smaller(a, b) == IF a <= b THEN a ELSE b

\* u64::saturating_add
SatAdd(a, b) == Smaller(a + b, Horizon)

States == {"idle", "load", "cas", "asleep", "send", "answer", "pause"}

Init ==
  /\ clock = 0
  /\ nextSlot = 0
  /\ pc = [t \in Tasks |-> "idle"]
  /\ now = [t \in Tasks |-> 0]
  /\ observed = [t \in Tasks |-> 0]
  /\ slot = [t \in Tasks |-> 0]
  /\ target = [t \in Tasks |-> 0]
  /\ started = 0
  /\ issued = <<>>
  /\ sent = <<>>
  /\ floor = 0

-----------------------------------------------------------------------------
(* reserve *)

\* let now = self.now_nanos()
ReadClock(t) ==
  /\ pc[t] = "idle"
  /\ started < MaxRequests
  /\ clock + MaxWait <= MaxClock
  /\ started' = started + 1
  /\ now' = [now EXCEPT ![t] = clock]
  /\ pc' = [pc EXCEPT ![t] = "load"]
  /\ UNCHANGED <<clock, nextSlot, observed, slot, target, issued, sent, floor>>

\* let mut observed = next_slot_nanos.load()
Load(t) ==
  /\ pc[t] = "load"
  /\ observed' = [observed EXCEPT ![t] = nextSlot]
  /\ pc' = [pc EXCEPT ![t] = "cas"]
  /\ UNCHANGED <<clock, nextSlot, now, slot, target, started, issued, sent, floor>>

Candidate(t) == Larger(observed[t], now[t])
Wait(t) == Candidate(t) - now[t]

\* wait > max_wait: the caller is shed and the timeline is untouched.
Shed(t) ==
  /\ pc[t] = "cas"
  /\ Wait(t) > MaxWait
  /\ pc' = [pc EXCEPT ![t] = "idle"]
  /\ UNCHANGED <<clock, nextSlot, now, observed, slot, target, started, issued, sent, floor>>

\* Mutant of Claim: a plain store in place of the compare-exchange.
ClaimUncompared(t) ==
  /\ pc[t] = "cas"
  /\ Wait(t) <= MaxWait
  /\ nextSlot' = SatAdd(Candidate(t), Interval)
  /\ slot' = [slot EXCEPT ![t] = Candidate(t)]
  /\ issued' = Append(issued, Candidate(t))
  /\ pc' = [pc EXCEPT ![t] = IF Wait(t) = 0 THEN "send" ELSE "asleep"]
  /\ UNCHANGED <<clock, now, observed, target, started, sent, floor>>

\* The compare-exchange succeeds: Immediate when the wait is zero, else At(slot).
Claim(t) ==
  /\ pc[t] = "cas"
  /\ Wait(t) <= MaxWait
  /\ nextSlot = observed[t]
  /\ nextSlot' = SatAdd(Candidate(t), Interval)
  /\ slot' = [slot EXCEPT ![t] = Candidate(t)]
  /\ issued' = Append(issued, Candidate(t))
  /\ pc' = [pc EXCEPT ![t] = IF Wait(t) = 0 THEN "send" ELSE "asleep"]
  /\ UNCHANGED <<clock, now, observed, target, started, sent, floor>>

\* Mutant of Retry: the value the failed exchange returned is dropped.
RetryBlind(t) ==
  /\ pc[t] = "cas"
  /\ Wait(t) <= MaxWait
  /\ UNCHANGED vars

\* The compare-exchange fails, because the word moved or spuriously: only
\* "observed" is refreshed, "now" is not.
Retry(t) ==
  /\ pc[t] = "cas"
  /\ Wait(t) <= MaxWait
  /\ observed' = [observed EXCEPT ![t] = nextSlot]
  /\ UNCHANGED <<clock, nextSlot, pc, now, slot, target, started, issued, sent, floor>>

-----------------------------------------------------------------------------
(* acquire, and the request it paces *)

\* Mutants of Wake: no sleep at all; a sleep until the shared timeline is free,
\* which later arrivals keep moving.
WakeAtOnce(t) ==
  /\ pc[t] = "asleep"
  /\ pc' = [pc EXCEPT ![t] = "send"]
  /\ UNCHANGED <<clock, nextSlot, now, observed, slot, target, started, issued, sent, floor>>
WakeAtTimeline(t) ==
  /\ pc[t] = "asleep"
  /\ clock >= nextSlot
  /\ pc' = [pc EXCEPT ![t] = "send"]
  /\ UNCHANGED <<clock, nextSlot, now, observed, slot, target, started, issued, sent, floor>>

\* sleep_until(deadline) returns, on time or late.
Wake(t) ==
  /\ pc[t] = "asleep"
  /\ clock >= slot[t]
  /\ pc' = [pc EXCEPT ![t] = "send"]
  /\ UNCHANGED <<clock, nextSlot, now, observed, slot, target, started, issued, sent, floor>>

\* The caller's future is dropped while it sleeps; its slot is lost.
Abandon(t) ==
  /\ pc[t] = "asleep"
  /\ pc' = [pc EXCEPT ![t] = "idle"]
  /\ UNCHANGED <<clock, nextSlot, now, observed, slot, target, started, issued, sent, floor>>

\* request.send(): the request leaves.
Send(t) ==
  /\ pc[t] = "send"
  /\ sent' = Append(sent, clock)
  /\ pc' = [pc EXCEPT ![t] = "answer"]
  /\ UNCHANGED <<clock, nextSlot, now, observed, slot, target, started, issued, floor>>

\* The response arrives and asks for no pause.
Answered(t) ==
  /\ pc[t] = "answer"
  /\ pc' = [pc EXCEPT ![t] = "idle"]
  /\ UNCHANGED <<clock, nextSlot, now, observed, slot, target, started, issued, sent, floor>>

\* The response is a 429 or 5xx with Retry-After: penalize computes its target.
SlowDown(t, backoff) ==
  /\ pc[t] = "answer"
  /\ target' = [target EXCEPT ![t] = SatAdd(clock, backoff)]
  /\ pc' = [pc EXCEPT ![t] = "pause"]
  /\ UNCHANGED <<clock, nextSlot, now, observed, slot, started, issued, sent, floor>>

\* Mutant of Penalize: a store in place of fetch_max.
PenalizeStores(t) ==
  /\ pc[t] = "pause"
  /\ nextSlot' = target[t]
  /\ floor' = Larger(floor, target[t])
  /\ pc' = [pc EXCEPT ![t] = "idle"]
  /\ UNCHANGED <<clock, now, observed, slot, target, started, issued, sent>>

\* ... and applies it: next_slot_nanos.fetch_max(target).
Penalize(t) ==
  /\ pc[t] = "pause"
  /\ nextSlot' = Larger(nextSlot, target[t])
  /\ floor' = Larger(floor, target[t])
  /\ pc' = [pc EXCEPT ![t] = "idle"]
  /\ UNCHANGED <<clock, now, observed, slot, target, started, issued, sent>>

Tick ==
  /\ clock < MaxClock
  /\ clock' = clock + 1
  /\ UNCHANGED <<nextSlot, pc, now, observed, slot, target, started, issued, sent, floor>>

Step(t) ==
  \/ ReadClock(t)
  \/ Load(t)
  \/ Shed(t)
  \/ Claim(t)
  \/ Retry(t)
  \/ Wake(t)
  \/ Abandon(t)
  \/ Send(t)
  \/ Answered(t)
  \/ \E backoff \in Backoffs : SlowDown(t, backoff)
  \/ Penalize(t)

Next ==
  \/ \E t \in Tasks : Step(t)
  \/ Tick

Spec == Init /\ [][Next]_vars

\* The runtime polls every runnable task, time passes, and a weak
\* compare-exchange that could succeed does not fail for ever.
Progress(t) ==
  \/ Load(t)
  \/ Shed(t)
  \/ Claim(t)
  \/ Retry(t) /\ nextSlot # observed[t]
  \/ Wake(t)
  \/ Send(t)
  \/ Answered(t)
  \/ Penalize(t)

Fairness ==
  /\ \A t \in Tasks : WF_vars(Progress(t))
  /\ WF_vars(Tick)

FairSpec == Spec /\ Fairness

-----------------------------------------------------------------------------
(* Properties *)

TypeOK ==
  /\ clock \in 0 .. Horizon
  /\ nextSlot \in 0 .. Horizon
  /\ pc \in [Tasks -> States]
  /\ now \in [Tasks -> 0 .. Horizon]
  /\ observed \in [Tasks -> 0 .. Horizon]
  /\ slot \in [Tasks -> 0 .. Horizon]
  /\ target \in [Tasks -> 0 .. Horizon]
  /\ started \in Nat
  /\ issued \in Seq(0 .. Horizon)
  /\ sent \in Seq(0 .. Horizon)
  /\ floor \in 0 .. Horizon

\* Any two slots handed out are at least one interval apart, in the order they
\* were handed out, whatever the tasks' stale clock readings, lost races,
\* spurious failures and pauses ("emits at most one request per min_interval");
\* only past the end of the timeline do they pile up, at its last nanosecond.
SlotsSpaced ==
  \A i, j \in 1 .. Len(issued) : i < j => Smaller(issued[i] + Interval, Horizon) <= issued[j]

\* A slot is never further ahead than the ceiling the caller was promised
\* ("a caller that would have to wait beyond the configured ceiling is
\* rejected"), although the wait was computed from an old clock reading.
WaitBounded ==
  \A t \in Tasks : pc[t] = "asleep" => slot[t] <= clock + MaxWait

\* Over the whole run the upstream sees no more than one request per interval:
\* however late tasks wake and however they bunch up, by tick c at most
\* c / Interval + 1 requests have left (up to the end of the timeline, where
\* slots pile up).
BudgetKept ==
  Interval > 0 =>
    \A i \in 1 .. Len(sent) :
      sent[i] < Horizon => i <= sent[i] \div Interval + 1

\* Once a pause is applied, every slot claimed after it lies beyond it, also a
\* slot claimed by a task that loaded the timeline before the pause.
ClaimsAfterPause ==
  [][issued' # issued => issued'[Len(issued')] >= floor]_vars

\* The timeline never moves back, so no pause or claim is ever undone.
TimelineMonotone == [][nextSlot' >= nextSlot]_vars

\* Why the above hold, as one inductive invariant: the timeline is one interval
\* past every slot handed out and no earlier than any pause applied, and no
\* task's clock reading lies in the future.
TimelineCovers ==
  /\ \A i \in 1 .. Len(issued) : Smaller(issued[i] + Interval, Horizon) <= nextSlot
  /\ \A t \in Tasks : now[t] <= clock
  /\ floor <= nextSlot

IInv == TypeOK /\ SlotsSpaced /\ TimelineCovers /\ WaitBounded

\* Every caller that was given a slot sends its request or gives up; nothing
\* that arrives later can hold it back.
EverySlotServed ==
  \A t \in Tasks : pc[t] = "asleep" ~> pc[t] # "asleep"

\* Every caller leaves the compare-exchange loop, with a slot or shed.
ReserveReturns ==
  \A t \in Tasks : pc[t] = "cas" ~> pc[t] # "cas"

\* The lock-free pacer takes slots as if in one atomic step.
Atomic == INSTANCE RateLimit
ImplementsRateLimit == Atomic!Spec
=============================================================================
