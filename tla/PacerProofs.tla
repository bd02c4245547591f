----------------------------- MODULE PacerProofs -----------------------------
(***************************************************************************)
(* Safety of the lock-free pacer for any number of tasks, any interval,    *)
(* ceiling and set of pauses, and any width of the timeline.               *)
(*                                                                         *)
(* The argument is the inductive invariant IInv.  That two slots are an    *)
(* interval apart is not inductive alone: it needs TimelineCovers, which   *)
(* says the shared word already lies past every slot handed out, so that   *)
(* the compare-exchange, which only succeeds on the current word, can only *)
(* hand out a slot further on.                                             *)
(*                                                                         *)
(* The budget over a whole run needs more: an injection of the requests    *)
(* that have left into the slots (Budgeted).  The slots no later than a    *)
(* tick are counted, and there are no more requests than those.            *)
(***************************************************************************)
EXTENDS Pacer, FiniteSetTheorems, TLAPS

\* Larger and Smaller pick one of their arguments and bound both; a saturating
\* sum stays on the timeline and never falls behind its first term.
LEMMA SatAddFacts ==
  ASSUME NEW a \in 0 .. Horizon, NEW b \in Nat
  PROVE  /\ SatAdd(a, b) \in 0 .. Horizon
         /\ a <= SatAdd(a, b)
  BY PacerConstants DEF SatAdd, Smaller

\* The larger of two times is one of them and no less than either.
LEMMA LargerFacts ==
  ASSUME NEW a \in 0 .. Horizon, NEW b \in 0 .. Horizon
  PROVE  /\ Larger(a, b) \in 0 .. Horizon
         /\ a <= Larger(a, b)
         /\ b <= Larger(a, b)
         /\ Larger(a, b) = a \/ Larger(a, b) = b
  BY PacerConstants DEF Larger

\* The slot a task is about to claim lies between the word and the ceiling.
LEMMA CandidateFacts ==
  ASSUME TypeOK, NEW t \in Tasks
  PROVE  /\ Candidate(t) \in 0 .. Horizon
         /\ observed[t] <= Candidate(t)
         /\ now[t] <= Candidate(t)
         /\ Wait(t) \in Nat
         /\ Candidate(t) = now[t] + Wait(t)
<1>1. observed[t] \in 0 .. Horizon /\ now[t] \in 0 .. Horizon
  BY DEF TypeOK
<1>2. /\ Candidate(t) \in 0 .. Horizon
      /\ observed[t] <= Candidate(t)
      /\ now[t] <= Candidate(t)
  BY <1>1, LargerFacts DEF Candidate
<1> QED
  BY <1>1, <1>2, PacerConstants DEF Wait

\* Appending to a sequence leaves its elements alone and adds one at the end.
LEMMA AppendFacts ==
  ASSUME NEW S, NEW s \in Seq(S), NEW e \in S
  PROVE  /\ Len(s) \in Nat
         /\ Append(s, e) \in Seq(S)
         /\ Len(Append(s, e)) = Len(s) + 1
         /\ Append(s, e)[Len(s) + 1] = e
         /\ \A i \in 1 .. Len(s) : Append(s, e)[i] = s[i] /\ s[i] \in S
  OBVIOUS

\* The timeline starts at zero, so at its first state every variable has its type.
LEMMA TypeInit == Init => TypeOK
  BY PacerConstants DEF Init, TypeOK, States

\* Every step keeps the word, the readings and the slots on the timeline: sums
\* saturate and a slot is the larger of two points of it.
LEMMA TypeStep == TypeOK /\ [Next]_vars => TypeOK'
<1> SUFFICES ASSUME TypeOK, [Next]_vars PROVE TypeOK'
  OBVIOUS
<1> USE PacerConstants DEF TypeOK, States
<1>1. ASSUME NEW t \in Tasks, ReadClock(t) PROVE TypeOK'
  BY <1>1 DEF ReadClock
<1>2. ASSUME NEW t \in Tasks, Load(t) PROVE TypeOK'
  BY <1>2 DEF Load
<1>3. ASSUME NEW t \in Tasks, Shed(t) PROVE TypeOK'
  BY <1>3 DEF Shed
<1>4. ASSUME NEW t \in Tasks, Claim(t) PROVE TypeOK'
  <2>1. Candidate(t) \in 0 .. Horizon
    BY CandidateFacts
  <2>2. SatAdd(Candidate(t), Interval) \in 0 .. Horizon
    BY <2>1, SatAddFacts
  <2>3. issued' \in Seq(0 .. Horizon)
    BY <1>4, <2>1 DEF Claim
  <2> QED
    BY <1>4, <2>1, <2>2, <2>3 DEF Claim
<1>5. ASSUME NEW t \in Tasks, Retry(t) PROVE TypeOK'
  BY <1>5 DEF Retry
<1>6. ASSUME NEW t \in Tasks, Wake(t) PROVE TypeOK'
  BY <1>6 DEF Wake
<1>7. ASSUME NEW t \in Tasks, Abandon(t) PROVE TypeOK'
  BY <1>7 DEF Abandon
<1>8. ASSUME NEW t \in Tasks, Send(t) PROVE TypeOK'
  BY <1>8 DEF Send
<1>9. ASSUME NEW t \in Tasks, Answered(t) PROVE TypeOK'
  BY <1>9 DEF Answered
<1>10. ASSUME NEW t \in Tasks, NEW backoff \in Backoffs, SlowDown(t, backoff)
       PROVE  TypeOK'
  <2>1. SatAdd(clock, backoff) \in 0 .. Horizon
    BY SatAddFacts
  <2> QED
    BY <1>10, <2>1 DEF SlowDown
<1>11. ASSUME NEW t \in Tasks, Penalize(t) PROVE TypeOK'
  <2>1. /\ Larger(nextSlot, target[t]) \in 0 .. Horizon
        /\ Larger(floor, target[t]) \in 0 .. Horizon
    BY LargerFacts
  <2> QED
    BY <1>11, <2>1 DEF Penalize
<1>12. CASE Tick
  BY <1>12 DEF Tick
<1>13. CASE UNCHANGED vars
  BY <1>13 DEF vars
<1> QED
  BY <1>1, <1>2, <1>3, <1>4, <1>5, <1>6, <1>7, <1>8, <1>9, <1>10, <1>11, <1>12, <1>13
     DEF Next, Step

\* Type correctness: no reachable state leaves the timeline or its counters
\* outside the word that holds them.
THEOREM TypeCorrect == Spec => []TypeOK
  BY TypeInit, TypeStep, PTL DEF Spec

\* No step moves the timeline back: a claim moves it past the slot claimed and
\* fetch_max never lowers it.
LEMMA MonotoneStep == TypeOK /\ [Next]_vars => nextSlot' >= nextSlot
<1> SUFFICES ASSUME TypeOK, [Next]_vars PROVE nextSlot' >= nextSlot
  OBVIOUS
<1>0. nextSlot \in Nat
  BY DEF TypeOK
<1>1. ASSUME NEW t \in Tasks, Claim(t) PROVE nextSlot' >= nextSlot
  <2>1. nextSlot <= Candidate(t) /\ Candidate(t) \in 0 .. Horizon
    BY <1>1, CandidateFacts DEF Claim
  <2>2. /\ Candidate(t) <= SatAdd(Candidate(t), Interval)
        /\ SatAdd(Candidate(t), Interval) \in 0 .. Horizon
    BY <2>1, SatAddFacts, PacerConstants
  <2> QED
    BY <1>0, <1>1, <2>1, <2>2 DEF Claim
<1>2. ASSUME NEW t \in Tasks, Penalize(t) PROVE nextSlot' >= nextSlot
  <2>1. nextSlot <= Larger(nextSlot, target[t])
    BY LargerFacts DEF TypeOK
  <2> QED
    BY <1>0, <1>2, <2>1, LargerFacts DEF Penalize, TypeOK
<1>3. CASE UNCHANGED nextSlot
  BY <1>0, <1>3
<1> QED
  BY <1>1, <1>2, <1>3
     DEF Next, Step, vars, ReadClock, Load, Shed, Retry, Wake, Abandon, Send, Answered,
         SlowDown, Tick

\* The timeline never moves back (penalize uses fetch_max, a claim only succeeds
\* on the current word).
THEOREM TimelineNeverMovesBack == Spec => TimelineMonotone
  BY TypeCorrect, MonotoneStep, PTL DEF Spec, TimelineMonotone

\* No slot is handed out at first, so the strengthening holds.
LEMMA InductiveInit == Init => IInv
<1> SUFFICES ASSUME Init PROVE IInv
  OBVIOUS
<1>1. TypeOK
  BY TypeInit
<1>2. SlotsSpaced
  BY DEF Init, SlotsSpaced
<1>3. TimelineCovers
  BY DEF Init, TimelineCovers
<1>4. WaitBounded
  BY DEF Init, WaitBounded
<1> QED
  BY <1>1, <1>2, <1>3, <1>4 DEF IInv

\* A step that hands out no slot, moves no word back and lets no task fall
\* asleep keeps everything but the task's own reading, which it may refresh.
LEMMA QuietStep ==
  ASSUME IInv, TypeOK',
         issued' = issued, nextSlot' >= nextSlot, clock' >= clock,
         floor' <= nextSlot',
         \A t \in Tasks : now'[t] <= clock',
         \A t \in Tasks : pc'[t] = "asleep" => pc[t] = "asleep" /\ slot'[t] = slot[t]
  PROVE  IInv'
<1> USE PacerConstants
<1>1. SlotsSpaced'
  BY DEF IInv, SlotsSpaced, SatAdd
<1>2. TimelineCovers'
  <2>1. ASSUME NEW i \in 1 .. Len(issued) PROVE SatAdd(issued[i], Interval) <= nextSlot'
    <3>1. issued[i] \in 0 .. Horizon
      BY DEF IInv, TypeOK
    <3>2. SatAdd(issued[i], Interval) \in 0 .. Horizon
      BY <3>1, SatAddFacts
    <3>3. SatAdd(issued[i], Interval) <= nextSlot
      BY DEF SatAdd, IInv, TimelineCovers
    <3> QED
      BY <3>2, <3>3 DEF IInv, TypeOK
  <2> QED
    BY <2>1 DEF TimelineCovers, SatAdd
<1>3. WaitBounded'
  BY DEF IInv, WaitBounded, TypeOK
<1> QED
  BY <1>1, <1>2, <1>3 DEF IInv

\* The one step that hands out a slot.  The compare-exchange succeeded, so the
\* slot is no earlier than the word, which lies past every earlier slot.
LEMMA ClaimStep ==
  ASSUME IInv, TypeOK', NEW t \in Tasks, Claim(t)
  PROVE  IInv'
<1> DEFINE new == Candidate(t)
           n == Len(issued)
<1> USE PacerConstants
<1>1. TypeOK
  BY DEF IInv
<1>2. /\ new \in 0 .. Horizon
      /\ nextSlot <= new
      /\ new <= now[t] + MaxWait
      /\ now[t] \in 0 .. Horizon
      /\ nextSlot \in 0 .. Horizon
  <2>1. Wait(t) <= MaxWait /\ nextSlot = observed[t]
    BY DEF Claim
  <2>2. now[t] \in 0 .. Horizon /\ nextSlot \in 0 .. Horizon
    BY <1>1 DEF TypeOK
  <2> QED
    BY <1>1, <2>1, <2>2, CandidateFacts
<1>3. /\ n \in Nat
      /\ Len(issued') = n + 1
      /\ issued'[n + 1] = new
      /\ \A i \in 1 .. n : issued'[i] = issued[i]
      /\ \A i \in 1 .. n : issued[i] \in 0 .. Horizon
  <2>1. issued \in Seq(0 .. Horizon) /\ issued' = Append(issued, new)
    BY <1>1 DEF Claim, TypeOK
  <2> QED
    BY <1>2, <2>1, AppendFacts
<1>4. nextSlot' = SatAdd(new, Interval) /\ new <= nextSlot' /\ nextSlot' \in 0 .. Horizon
  BY <1>2, SatAddFacts DEF Claim
<1>5. \A i \in 1 .. n : SatAdd(issued[i], Interval) <= nextSlot
  BY DEF SatAdd, IInv, TimelineCovers
<1>6. \A i \in 1 .. n : SatAdd(issued[i], Interval) \in 0 .. Horizon
  BY <1>3, SatAddFacts
<1>7. ASSUME NEW i \in 1 .. Len(issued'), NEW j \in 1 .. Len(issued'), i < j
      PROVE  SatAdd(issued'[i], Interval) <= issued'[j]
  <2>0. i \in 1 .. n
    BY <1>3, <1>7
  <2>1. CASE j = n + 1
    BY <1>2, <1>3, <1>5, <1>6, <2>0, <2>1
  <2>2. CASE j # n + 1
    <3>1. j \in 1 .. n
      BY <1>3, <2>2
    <3> QED
      BY <1>3, <1>7, <2>0, <3>1 DEF SatAdd, IInv, SlotsSpaced
  <2> QED
    BY <2>1, <2>2
<1>8. SlotsSpaced'
  BY <1>7 DEF SlotsSpaced, SatAdd
<1>9. ASSUME NEW i \in 1 .. Len(issued') PROVE SatAdd(issued'[i], Interval) <= nextSlot'
  <2>1. CASE i = n + 1
    BY <1>3, <1>4, <2>1
  <2>2. CASE i # n + 1
    <3>1. i \in 1 .. n
      BY <1>3, <2>2
    <3> QED
      BY <1>2, <1>3, <1>4, <1>5, <1>6, <3>1
  <2> QED
    BY <2>1, <2>2
<1>10. TimelineCovers'
  <2>1. \A u \in Tasks : now'[u] <= clock'
    BY DEF IInv, TimelineCovers, Claim
  <2>2. floor' <= nextSlot'
    BY <1>1, <1>2, <1>4 DEF IInv, TimelineCovers, Claim, TypeOK
  <2> QED
    BY <1>9, <2>1, <2>2 DEF TimelineCovers, SatAdd
<1>11. WaitBounded'
  <2> SUFFICES ASSUME NEW u \in Tasks, pc'[u] = "asleep"
               PROVE  slot'[u] <= clock' + MaxWait
    BY DEF WaitBounded
  <2>1. CASE u = t
    <3>1. slot'[u] = new /\ clock' = clock
      BY <1>1, <2>1 DEF Claim, TypeOK
    <3>2. now[t] <= clock /\ clock \in 0 .. Horizon
      BY <1>1 DEF TypeOK, IInv, TimelineCovers
    <3> HIDE DEF new
    <3> QED
      BY <1>2, <3>1, <3>2
  <2>2. CASE u # t
    BY <1>1, <2>2 DEF Claim, TypeOK, IInv, WaitBounded
  <2> QED
    BY <2>1, <2>2
<1> QED
  BY <1>8, <1>10, <1>11 DEF IInv

\* Every step keeps the strengthening: a claim by ClaimStep, a step that touches
\* neither the word nor the slots by QuietStep, a pause by raising the word only.
LEMMA InductiveStep == IInv /\ [Next]_vars => IInv'
<1> SUFFICES ASSUME IInv, [Next]_vars PROVE IInv'
  OBVIOUS
<1>1. TypeOK /\ TypeOK' /\ nextSlot' >= nextSlot
  BY TypeStep, MonotoneStep DEF IInv
<1>2. \A t \in Tasks : now[t] <= clock
  BY DEF IInv, TimelineCovers
<1>3. floor <= nextSlot
  BY DEF IInv, TimelineCovers
<1>4. clock \in Nat /\ nextSlot \in 0 .. Horizon /\ floor \in 0 .. Horizon
  BY <1>1 DEF TypeOK
<1>5. ASSUME NEW t \in Tasks, ReadClock(t) PROVE IInv'
  BY <1>1, <1>2, <1>3, <1>4, <1>5, QuietStep DEF ReadClock, TypeOK
<1>6. ASSUME NEW t \in Tasks, Claim(t) PROVE IInv'
  BY <1>1, <1>6, ClaimStep
<1>7. ASSUME NEW t \in Tasks, Penalize(t) PROVE IInv'
  <2>1. target[t] \in 0 .. Horizon
    BY <1>1 DEF TypeOK
  <2>2. floor' <= nextSlot'
    BY <1>3, <1>4, <1>7, <2>1, PacerConstants DEF Penalize, Larger
  <2> QED
    BY <1>1, <1>2, <1>4, <1>7, <2>2, QuietStep DEF Penalize, TypeOK
<1>8. ASSUME NEW t \in Tasks,
             \/ Load(t) \/ Shed(t) \/ Retry(t) \/ Wake(t) \/ Abandon(t)
             \/ Send(t) \/ Answered(t)
             \/ \E backoff \in Backoffs : SlowDown(t, backoff)
      PROVE  IInv'
  <2>1. /\ UNCHANGED <<clock, nextSlot, now, slot, issued, floor>>
        /\ \A u \in Tasks : pc'[u] = "asleep" => pc[u] = "asleep"
    BY <1>1, <1>8 DEF Load, Shed, Retry, Wake, Abandon, Send, Answered, SlowDown, TypeOK
  <2> QED
    BY <1>1, <1>2, <1>3, <1>4, <2>1, QuietStep
<1>9. CASE Tick
  <2>1. \A t \in Tasks : now[t] <= clock'
    BY <1>1, <1>2, <1>4, <1>9 DEF Tick, TypeOK
  <2> QED
    BY <1>1, <1>3, <1>4, <1>9, <2>1, QuietStep DEF Tick
<1>10. CASE UNCHANGED vars
  BY <1>1, <1>2, <1>3, <1>4, <1>10, QuietStep DEF vars
<1> QED
  BY <1>5, <1>6, <1>7, <1>8, <1>9, <1>10 DEF Next, Step

\* The strengthening itself is an invariant.
THEOREM Inductive == Spec => []IInv
  BY InductiveInit, InductiveStep, PTL DEF Spec

\* "At most one request per min_interval" as the pacer really guarantees it:
\* any two slots it ever hands out are an interval apart.
THEOREM SlotsAlwaysSpaced == Spec => []SlotsSpaced
<1>1. IInv => SlotsSpaced
  BY DEF IInv
<1> QED
  BY <1>1, Inductive, PTL

\* No caller ever sleeps longer than the ceiling, stale clock reading or not.
THEOREM WaitAlwaysBounded == Spec => []WaitBounded
<1>1. IInv => WaitBounded
  BY DEF IInv
<1> QED
  BY <1>1, Inductive, PTL

\* After a pause is applied no slot inside it can be claimed, not even by a task
\* that loaded the timeline before.
THEOREM PauseRespected == Spec => ClaimsAfterPause
<1>1. IInv /\ [Next]_vars => [issued' # issued => issued'[Len(issued')] >= floor]_vars
  <2> SUFFICES ASSUME IInv, [Next]_vars, issued' # issued
               PROVE  issued'[Len(issued')] >= floor
    OBVIOUS
  <2>1. PICK t \in Tasks : Claim(t)
    BY DEF Next, Step, vars, ReadClock, Load, Shed, Retry, Wake, Abandon, Send, Answered,
           SlowDown, Penalize, Tick
  <2>2. TypeOK
    BY DEF IInv
  <2>3. /\ Candidate(t) \in 0 .. Horizon
        /\ nextSlot <= Candidate(t)
    BY <2>1, <2>2, CandidateFacts DEF Claim
  <2>4. issued'[Len(issued')] = Candidate(t)
    BY <2>1, <2>2, <2>3 DEF Claim, TypeOK
  <2> QED
    BY <2>2, <2>3, <2>4 DEF IInv, TimelineCovers, TypeOK
<1> QED
  BY <1>1, Inductive, PTL DEF Spec, ClaimsAfterPause

\* Every step of the lock-free pacer is a step of the atomic one or changes
\* nothing it sees: a won compare-exchange is a grant to a caller that asked at
\* its clock reading, and everything else in the loop is invisible.
LEMMA RefineStep == IInv /\ [Next]_vars => [Atomic!Next]_(Atomic!rateVars)
<1> SUFFICES ASSUME IInv, [Next]_vars PROVE [Atomic!Next]_(Atomic!rateVars)
  OBVIOUS
<1> USE PacerConstants
<1>1. TypeOK /\ \A t \in Tasks : now[t] <= clock
  BY DEF IInv, TimelineCovers
<1>2. ASSUME NEW t \in Tasks, Claim(t) PROVE Atomic!Next
  <2>1. now[t] \in 0 .. clock
    BY <1>1 DEF TypeOK
  <2>2. Candidate(t) = Atomic!SlotFor(nextSlot, now[t])
    BY <1>2 DEF Claim, Candidate, Larger, Atomic!SlotFor, Atomic!Larger
  <2>3. SatAdd(Candidate(t), Interval) = Atomic!SatAdd(Candidate(t), Interval)
    BY DEF SatAdd, Smaller, Atomic!SatAdd, Atomic!Smaller
  <2>4. Atomic!Grant(now[t])
    BY <1>2, <2>2, <2>3 DEF Claim, Wait, Atomic!Grant
  <2> QED
    BY <2>1, <2>4 DEF Atomic!Next
<1>3. ASSUME NEW t \in Tasks, Penalize(t) PROVE Atomic!Next
  <2>1. target[t] \in 0 .. Horizon
    BY <1>1 DEF TypeOK
  <2>2. Atomic!Pause(target[t])
    BY <1>3 DEF Penalize, Larger, Atomic!Pause, Atomic!Larger
  <2> QED
    BY <2>1, <2>2 DEF Atomic!Next
<1>4. CASE Tick
  <2>1. clock' \in clock .. Horizon
    BY <1>1, <1>4 DEF Tick, TypeOK
  <2> QED
    BY <1>4, <2>1 DEF Tick, Atomic!Next, Atomic!Advance
<1>5. CASE UNCHANGED <<clock, nextSlot, issued>>
  BY <1>5 DEF Atomic!rateVars
<1> QED
  BY <1>2, <1>3, <1>4, <1>5
     DEF Next, Step, vars, ReadClock, Load, Shed, Retry, Wake, Abandon, Send, Answered,
         SlowDown

\* The pacer implements the atomic timeline: its callers cannot tell the
\* compare-exchange loop from taking a slot in one step.
THEOREM PacerImplementsRateLimit == Spec => ImplementsRateLimit
<1>1. Init => Atomic!Init
  BY DEF Init, Atomic!Init
<1> QED
  BY <1>1, RefineStep, Inductive, PTL DEF Spec, ImplementsRateLimit, Atomic!Spec

-----------------------------------------------------------------------------
(* The budget: every request has a slot of its own, no later than itself *)

Holders == {t \in Tasks : pc[t] \in {"asleep", "send"}}

\* Requests leave in the order of the clock.
SentInOrder ==
  \A i \in 1 .. Len(sent) :
    sent[i] <= clock /\ \A j \in 1 .. Len(sent) : i <= j => sent[i] <= sent[j]

\* The k-th slot lies at least k - 1 intervals into the timeline.
SlotsLate ==
  \A k \in 1 .. Len(issued) : Smaller((k - 1) * Interval, Horizon) <= issued[k]

\* A task that is about to send has waited for its slot.
SendersDue == \A t \in Tasks : pc[t] = "send" => slot[t] <= clock

\* f gives every request that has left a slot no later than itself, g gives every
\* task that may still send its slot, and no slot is given twice.
Matches(f, g) ==
  /\ f \in [1 .. Len(sent) -> 1 .. Len(issued)]
  /\ \A i, j \in 1 .. Len(sent) : f[i] = f[j] => i = j
  /\ \A i \in 1 .. Len(sent) : issued[f[i]] <= sent[i]
  /\ g \in [Holders -> 1 .. Len(issued)]
  /\ \A t, u \in Holders : g[t] = g[u] => t = u
  /\ \A t \in Holders : issued[g[t]] = slot[t]
  /\ \A i \in 1 .. Len(sent), t \in Holders : f[i] # g[t]

Budgeted ==
  /\ IInv
  /\ SentInOrder
  /\ SlotsLate
  /\ SendersDue
  /\ \E f, g : Matches(f, g)

\* Nothing has been issued or sent at first.
LEMMA BudgetedInit == Init => Budgeted
<1> SUFFICES ASSUME Init PROVE Budgeted
  OBVIOUS
<1>1. IInv
  BY InductiveInit
<1>2. SentInOrder /\ SlotsLate /\ SendersDue
  BY DEF Init, SentInOrder, SlotsLate, SendersDue
<1>3. Holders = {} /\ Len(sent) = 0
  BY DEF Init, Holders
<1>4. Matches([i \in 1 .. Len(sent) |-> 1], [t \in Holders |-> 1])
  BY <1>3 DEF Matches
<1> QED
  BY <1>1, <1>2, <1>4 DEF Budgeted

\* A step that issues no slot and sends nothing, and lets no task begin to hold one.
LEMMA BudgetedQuiet ==
  ASSUME Budgeted, IInv', UNCHANGED <<issued, sent, slot>>, clock' >= clock,
         \A t \in Tasks : pc'[t] \in {"asleep", "send"} => pc[t] \in {"asleep", "send"},
         SendersDue'
  PROVE  Budgeted'
<1>0. TypeOK /\ TypeOK' /\ PacerConstants
  BY PacerConstants DEF Budgeted, IInv
<1>1. SentInOrder'
  <2>1. clock \in Nat /\ clock' \in Nat /\ \A i \in 1 .. Len(sent) : sent[i] \in Nat
    BY <1>0 DEF TypeOK
  <2>2. SentInOrder
    BY DEF Budgeted
  <2> QED BY <2>1, <2>2 DEF SentInOrder
<1>2. SlotsLate'
  BY DEF Budgeted, SlotsLate
<1>3. PICK f, g : Matches(f, g)
  BY DEF Budgeted
<1>4. Holders' \subseteq Holders
  BY DEF Holders
<1>5. PICK h : h = [t \in Holders' |-> g[t]]
  OBVIOUS
<1>6. Matches(f, h)'
  BY <1>3, <1>4, <1>5 DEF Matches
<1> QED
  BY <1>1, <1>2, <1>6 DEF Budgeted

\* A slot that is claimed is a new one, one interval on, and its task's own.
LEMMA BudgetedClaim ==
  ASSUME Budgeted, IInv', NEW t \in Tasks, Claim(t)
  PROVE  Budgeted'
<1> USE PacerConstants
<1>1. PICK n, new : n = Len(issued) /\ new = Candidate(t)
  OBVIOUS
<1>2. TypeOK /\ TypeOK'
  BY DEF Budgeted, IInv
<1>3. /\ n \in Nat /\ new \in 0 .. Horizon
      /\ issued' = Append(issued, new) /\ Len(issued') = n + 1 /\ issued'[n + 1] = new
      /\ \A k \in 1 .. n : issued'[k] = issued[k] /\ issued[k] \in 0 .. Horizon
  <2>1. issued \in Seq(0 .. Horizon) /\ issued' = Append(issued, new) /\ new \in 0 .. Horizon
    BY <1>1, <1>2, CandidateFacts DEF Claim, TypeOK
  <2> QED BY <1>1, <2>1, AppendFacts
<1>4. nextSlot <= new /\ nextSlot \in 0 .. Horizon
  BY <1>1, <1>2, CandidateFacts DEF Claim, TypeOK
<1>5. SentInOrder'
  BY DEF Budgeted, SentInOrder, Claim
<1>6. SlotsLate'
  <2>1. Smaller(n * Interval, Horizon) <= new
    <3>1. CASE n = 0
      BY <1>3, <3>1 DEF Smaller
    <3>2. CASE n # 0
      <4>1. n \in 1 .. Len(issued) /\ issued[n] \in 0 .. Horizon
        BY <1>1, <1>3, <3>2
      <4>2. Smaller((n - 1) * Interval, Horizon) <= issued[n]
        BY <4>1 DEF Budgeted, SlotsLate
      <4>3. Smaller(issued[n] + Interval, Horizon) <= nextSlot
        BY <4>1 DEF Budgeted, IInv, TimelineCovers
      <4>4. PICK m : m = (n - 1) * Interval
        OBVIOUS
      <4>5. m \in Nat /\ n * Interval = m + Interval
        BY <1>3, <3>2, <4>4
      <4> QED BY <1>3, <1>4, <4>1, <4>2, <4>3, <4>4, <4>5 DEF Smaller
    <3> QED BY <3>1, <3>2
  <2> SUFFICES ASSUME NEW k \in 1 .. (n + 1) PROVE Smaller((k - 1) * Interval, Horizon) <= issued'[k]
    BY <1>3 DEF SlotsLate
  <2>2. CASE k = n + 1
    BY <1>3, <2>1, <2>2
  <2>3. CASE k # n + 1
    <3>1. k \in 1 .. n
      BY <1>3, <2>3
    <3> QED BY <1>1, <1>3, <3>1 DEF Budgeted, SlotsLate
  <2> QED BY <2>2, <2>3
<1>7. SendersDue'
  <2> SUFFICES ASSUME NEW u \in Tasks, pc'[u] = "send" PROVE slot'[u] <= clock'
    BY DEF SendersDue
  <2>1. CASE u = t
    <3>1. Wait(t) = 0 /\ slot'[u] = new /\ clock' = clock
      BY <1>1, <1>2, <2>1 DEF Claim, TypeOK
    <3>2. new = now[t] /\ now[t] <= clock
      <4>1. now[t] \in Nat /\ Candidate(t) = now[t] + Wait(t)
        <5>1. now[t] \in Nat
          BY <1>2 DEF TypeOK
        <5> QED BY <1>2, <5>1, CandidateFacts
      <4>2. now[t] <= clock
        BY DEF Budgeted, IInv, TimelineCovers
      <4> QED BY <1>1, <3>1, <4>1, <4>2
    <3> QED BY <3>1, <3>2
  <2>2. CASE u # t
    BY <1>2, <2>2 DEF Claim, TypeOK, Budgeted, SendersDue
  <2> QED BY <2>1, <2>2
<1>8. \E f, h : Matches(f, h)'
  <2>1. PICK f, g : Matches(f, g)
    BY DEF Budgeted
  <2>2. Holders' = Holders \cup {t} /\ t \notin Holders
    BY <1>2 DEF Holders, Claim, TypeOK
  <2>3. PICK h : h = [u \in Holders \cup {t} |-> IF u = t THEN n + 1 ELSE g[u]]
    OBVIOUS
  <2>4. /\ h \in [Holders' -> 1 .. (n + 1)] /\ h[t] = n + 1
        /\ \A u \in Holders : h[u] = g[u] /\ h[u] \in 1 .. n
    BY <1>1, <1>3, <2>1, <2>2, <2>3 DEF Matches
  <2>5. sent' = sent /\ f \in [1 .. Len(sent) -> 1 .. n] /\ f \in [1 .. Len(sent) -> 1 .. (n + 1)]
    BY <1>1, <1>3, <2>1 DEF Matches, Claim
  <2>6. slot'[t] = new /\ \A u \in Holders : slot'[u] = slot[u]
    BY <1>1, <1>2, <2>2 DEF Claim, TypeOK, Holders
  <2>7. \A i \in 1 .. Len(sent) : issued'[f[i]] <= sent[i]
    BY <1>3, <2>1, <2>5 DEF Matches
  <2>8. \A u \in Holders' : issued'[h[u]] = slot'[u]
    BY <1>3, <2>1, <2>2, <2>4, <2>6 DEF Matches
  <2>9. \A u, v \in Holders' : h[u] = h[v] => u = v
    BY <1>3, <2>1, <2>2, <2>4 DEF Matches
  <2>10. \A i \in 1 .. Len(sent), u \in Holders' : f[i] # h[u]
    BY <1>3, <2>1, <2>2, <2>4, <2>5 DEF Matches
  <2>11. Matches(f, h)'
    BY <1>3, <2>1, <2>4, <2>5, <2>7, <2>8, <2>9, <2>10 DEF Matches
  <2> QED BY <2>11
<1> QED
  BY <1>5, <1>6, <1>7, <1>8 DEF Budgeted

\* A request leaves with its task's slot, no earlier than the slot.
LEMMA BudgetedSend ==
  ASSUME Budgeted, IInv', NEW t \in Tasks, Send(t)
  PROVE  Budgeted'
<1>1. PICK m : m = Len(sent)
  OBVIOUS
<1>2. TypeOK /\ clock \in Nat /\ pc[t] = "send"
  BY DEF Budgeted, IInv, TypeOK, Send
<1>3. /\ m \in Nat /\ Len(sent') = m + 1 /\ sent'[m + 1] = clock
      /\ \A i \in 1 .. m : sent'[i] = sent[i] /\ sent[i] \in 0 .. Horizon
  <2>1. sent \in Seq(0 .. Horizon) /\ sent' = Append(sent, clock) /\ clock \in 0 .. Horizon
    BY <1>2 DEF Send, TypeOK
  <2>2. /\ Len(sent) \in Nat /\ Len(sent') = Len(sent) + 1 /\ sent'[Len(sent) + 1] = clock
        /\ \A i \in 1 .. Len(sent) : sent'[i] = sent[i] /\ sent[i] \in 0 .. Horizon
    <3>1. clock \in 0 .. Horizon /\ sent \in Seq(0 .. Horizon)
      BY <2>1
    <3>2. /\ Len(sent) \in Nat /\ Len(Append(sent, clock)) = Len(sent) + 1
          /\ Append(sent, clock)[Len(sent) + 1] = clock
          /\ \A i \in 1 .. Len(sent) : Append(sent, clock)[i] = sent[i] /\ sent[i] \in 0 .. Horizon
      BY <3>1, AppendFacts
    <3> QED BY <2>1, <3>2
  <2> QED BY <1>1, <2>2
<1>4. SentInOrder'
  <2>1. \A i \in 1 .. (m + 1) : i = m + 1 \/ i \in 1 .. m
    BY <1>3
  <2>2. \A i, j \in 1 .. m : sent[i] <= clock /\ (i <= j => sent[i] <= sent[j])
    BY <1>1 DEF Budgeted, SentInOrder
  <2>3. \A i \in 1 .. (m + 1) : sent'[i] <= clock
    BY <1>2, <1>3, <2>1, <2>2
  <2>4. \A i, j \in 1 .. (m + 1) : i <= j => sent'[i] <= sent'[j]
    BY <1>2, <1>3, <2>1, <2>2, <2>3
  <2>5. clock' = clock
    BY DEF Send
  <2> QED BY <1>3, <2>3, <2>4, <2>5 DEF SentInOrder
<1>5. SlotsLate'
  BY DEF Budgeted, SlotsLate, Send
<1>6. SendersDue'
  BY <1>2 DEF Budgeted, SendersDue, Send, TypeOK
<1>7. \E f, g : Matches(f, g)'
  <2>1. PICK f, g : Matches(f, g)
    BY DEF Budgeted
  <2>2. Holders' = Holders \ {t} /\ t \in Holders
    BY <1>2 DEF Holders, Send, TypeOK
  <2>3. PICK e, h : /\ e = [i \in 1 .. (m + 1) |-> IF i = m + 1 THEN g[t] ELSE f[i]]
                    /\ h = [u \in Holders \ {t} |-> g[u]]
    OBVIOUS
  <2>4. /\ e \in [1 .. (m + 1) -> 1 .. Len(issued)] /\ e[m + 1] = g[t]
        /\ \A i \in 1 .. m : e[i] = f[i]
        /\ \A i \in 1 .. (m + 1) : i = m + 1 \/ i \in 1 .. m
    BY <1>1, <1>3, <2>1, <2>2, <2>3 DEF Matches
  <2>5. issued' = issued /\ slot' = slot /\ slot[t] <= clock
    BY <1>2 DEF Send, Budgeted, SendersDue
  <2>6. \A i \in 1 .. (m + 1) : issued[e[i]] <= sent'[i]
    BY <1>1, <1>3, <2>1, <2>2, <2>4, <2>5 DEF Matches
  <2>7. \A i, j \in 1 .. (m + 1) : e[i] = e[j] => i = j
    BY <1>1, <2>1, <2>2, <2>4 DEF Matches
  <2>8. \A i \in 1 .. (m + 1), u \in Holders' : e[i] # h[u]
    BY <1>1, <2>1, <2>2, <2>3, <2>4 DEF Matches
  <2>9. Matches(e, h)'
    BY <1>3, <2>1, <2>2, <2>3, <2>4, <2>5, <2>6, <2>7, <2>8 DEF Matches
  <2> QED BY <2>9
<1> QED
  BY <1>4, <1>5, <1>6, <1>7 DEF Budgeted

\* Every step keeps the matching.
LEMMA BudgetedStep == Budgeted /\ [Next]_vars => Budgeted'
<1> SUFFICES ASSUME Budgeted, [Next]_vars PROVE Budgeted'
  OBVIOUS
<1>1. IInv /\ IInv' /\ TypeOK
  BY InductiveStep DEF Budgeted, IInv
<1>2. ASSUME NEW t \in Tasks, Claim(t) PROVE Budgeted'
  BY <1>1, <1>2, BudgetedClaim
<1>3. ASSUME NEW t \in Tasks, Send(t) PROVE Budgeted'
  BY <1>1, <1>3, BudgetedSend
<1>4. ASSUME NEW t \in Tasks, Wake(t) PROVE Budgeted'
  <2>1. SendersDue'
    BY <1>1, <1>4 DEF Wake, Budgeted, SendersDue, TypeOK
  <2> QED BY <1>1, <1>4, <2>1, BudgetedQuiet DEF Wake, TypeOK
<1>5. ASSUME NEW t \in Tasks,
             \/ ReadClock(t) \/ Load(t) \/ Shed(t) \/ Retry(t) \/ Abandon(t) \/ Answered(t)
             \/ \E backoff \in Backoffs : SlowDown(t, backoff)
             \/ Penalize(t)
      PROVE  Budgeted'
  <2>1. /\ UNCHANGED <<issued, sent, slot, clock>>
        /\ \A u \in Tasks : pc'[u] \in {"asleep", "send"} => pc[u] = pc'[u]
    BY <1>1, <1>5 DEF ReadClock, Load, Shed, Retry, Abandon, Answered, SlowDown, Penalize, TypeOK
  <2>2. SendersDue'
    BY <2>1 DEF Budgeted, SendersDue
  <2> QED BY <1>1, <2>1, <2>2, BudgetedQuiet DEF TypeOK
<1>6. CASE Tick
  <2>1. UNCHANGED <<issued, sent, slot, pc>> /\ clock' >= clock /\ clock \in Nat /\ clock' \in Nat
    BY <1>1, <1>6 DEF Tick, TypeOK
  <2>2. SendersDue'
    BY <1>1, <2>1 DEF Budgeted, SendersDue, TypeOK
  <2> QED BY <1>1, <2>1, <2>2, BudgetedQuiet
<1>7. CASE UNCHANGED vars
  <2>1. UNCHANGED <<issued, sent, slot, pc, clock>>
    BY <1>7 DEF vars
  <2>2. SendersDue'
    BY <2>1 DEF Budgeted, SendersDue
  <2> QED BY <1>1, <2>1, <2>2, BudgetedQuiet DEF TypeOK
<1> QED
  BY <1>2, <1>3, <1>4, <1>5, <1>6, <1>7 DEF Next, Step

\* The k-th slot, if no later than c, is one of the first c / Interval + 1.
LEMMA EarlySlots ==
  ASSUME Interval > 0, NEW k \in Nat \ {0}, NEW c \in Nat, (k - 1) * Interval <= c
  PROVE  k <= c \div Interval + 1 /\ c \div Interval \in Nat
<1>1. PICK q : q = c \div Interval
  OBVIOUS
<1>2. q \in Nat /\ c < (q + 1) * Interval
  BY <1>1, PacerConstants
<1>3. k - 1 < q + 1
  <2> SUFFICES ASSUME q + 1 <= k - 1 PROVE FALSE
    BY <1>2
  <2>1. PICK d \in Nat : k - 1 = (q + 1) + d
    BY <1>2
  <2>2. (k - 1) * Interval = (q + 1) * Interval + d * Interval /\ d * Interval \in Nat
    BY <1>2, <2>1, PacerConstants
  <2>3. (q + 1) * Interval \in Nat
    BY <1>2, PacerConstants
  <2> QED BY <1>2, <2>2, <2>3
<1> QED
  BY <1>1, <1>2, <1>3

\* Over any run, by tick c at most c / Interval + 1 requests have left, however late
\* tasks wake and however they bunch up: requests that have left hold as many slots,
\* none later than c, and that many slots that early do not exist.
THEOREM BudgetAlwaysKept == Spec => []BudgetKept
<1>1. ASSUME Budgeted, Interval > 0, NEW i \in 1 .. Len(sent), sent[i] < Horizon
      PROVE  i <= sent[i] \div Interval + 1
  <2>1. TypeOK /\ i \in Nat \ {0} /\ Horizon \in Nat /\ Interval \in Nat
    BY <1>1, PacerConstants DEF Budgeted, IInv, TypeOK
  <2>2. PICK f, g : Matches(f, g)
    BY <1>1 DEF Budgeted
  <2>3. PICK c, q : c = sent[i] /\ q = sent[i] \div Interval
    OBVIOUS
  <2>4. c \in Nat /\ c < Horizon /\ q = c \div Interval
    BY <1>1, <2>1, <2>3 DEF TypeOK
  <2>5. ASSUME NEW j \in 1 .. i PROVE f[j] \in 1 .. (q + 1) /\ q \in Nat
    <3>1. j \in 1 .. Len(sent) /\ sent[j] <= c /\ sent[j] \in Nat
      BY <1>1, <2>1, <2>3 DEF Budgeted, SentInOrder, TypeOK
    <3>2. PICK k : k = f[j]
      OBVIOUS
    <3>3. k \in 1 .. Len(issued) /\ issued[k] <= sent[j] /\ issued[k] \in Nat
      <4>1. k \in 1 .. Len(issued) /\ issued[k] <= sent[j]
        BY <2>2, <3>1, <3>2 DEF Matches
      <4> QED BY <2>1, <4>1 DEF TypeOK
    <3>4. Smaller((k - 1) * Interval, Horizon) <= issued[k]
      BY <1>1, <3>3 DEF Budgeted, SlotsLate
    <3>5. PICK p : p = (k - 1) * Interval
      OBVIOUS
    <3>6. k \in Nat \ {0} /\ p \in Nat
      BY <2>1, <3>3, <3>5
    <3>7. p <= c
      BY <2>1, <2>4, <3>1, <3>3, <3>4, <3>5, <3>6 DEF Smaller
    <3>8. k <= q + 1 /\ q \in Nat
      BY <1>1, <2>4, <3>5, <3>6, <3>7, EarlySlots
    <3> QED BY <3>2, <3>6, <3>8
  <2>6. q \in Nat
    BY <2>1, <2>5
  <2>7. PICK e : e = [j \in 1 .. i |-> f[j]]
    OBVIOUS
  <2>8. e \in Injection(1 .. i, 1 .. (q + 1))
    <3>1. e \in [1 .. i -> 1 .. (q + 1)]
      BY <2>5, <2>7
    <3>2. \A j, k \in 1 .. i : e[j] = e[k] => j = k
      BY <1>1, <2>1, <2>2, <2>7 DEF Matches
    <3> QED BY <3>1, <3>2 DEF Injection, IsInjective
  <2>9. /\ IsFiniteSet(1 .. (q + 1)) /\ Cardinality(1 .. (q + 1)) = q + 1
        /\ Cardinality(1 .. i) = i
    BY <2>1, <2>6, FS_Interval
  <2>10. Cardinality(1 .. i) <= Cardinality(1 .. (q + 1))
    BY <2>8, <2>9, FS_Injection
  <2> QED BY <2>3, <2>9, <2>10
<1>2. Budgeted => BudgetKept
  BY <1>1 DEF BudgetKept
<1> QED
  BY <1>2, BudgetedInit, BudgetedStep, PTL DEF Spec
=============================================================================
