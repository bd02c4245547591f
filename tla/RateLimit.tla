------------------------------ MODULE RateLimit ------------------------------
(***************************************************************************)
(* What a pacer promises the callers of one upstream host: the budget is a *)
(* timeline, and taking a slot of it is a single atomic step.              *)
(*                                                                         *)
(* A caller names the moment it asked; it is given the first slot that is  *)
(* neither before that moment nor before the timeline opens, and the       *)
(* timeline then opens one interval later.  A caller whose slot would lie  *)
(* too far ahead gets nothing and leaves the timeline as it was.           *)
(*                                                                         *)
(* Pacer.tla, the lock-free code, is shown to implement this module.       *)
(***************************************************************************)
EXTENDS Naturals, Sequences

CONSTANTS
  Interval,  \* least spacing of two slots, in ticks
  MaxWait,   \* furthest ahead of its caller a slot may lie
  Horizon    \* largest value of the timeline (u64::MAX nanoseconds)

VARIABLES
  clock,     \* the monotonic clock
  nextSlot,  \* where the timeline opens
  issued     \* every slot handed out, in the order it was handed out

rateVars == <<clock, nextSlot, issued>>

Larger(a, b) == IF a >= b THEN a ELSE b
Smaller(a, b) == IF a <= b THEN a ELSE b

\* u64::saturating_add on the timeline.
SatAdd(a, b) == Smaller(a + b, Horizon)

SlotFor(free, asked) == Larger(free, asked)

Init ==
  /\ clock = 0
  /\ nextSlot = 0
  /\ issued = <<>>

Advance ==
  /\ clock' \in clock .. Horizon
  /\ UNCHANGED <<nextSlot, issued>>

\* A caller that asked at "asked" takes the next slot.
Grant(asked) ==
  LET slot == SlotFor(nextSlot, asked) IN
  /\ slot - asked <= MaxWait
  /\ issued' = Append(issued, slot)
  /\ nextSlot' = SatAdd(slot, Interval)
  /\ UNCHANGED clock

\* The upstream asked for a pause: the timeline opens no earlier than target.
Pause(target) ==
  /\ nextSlot' = Larger(nextSlot, target)
  /\ UNCHANGED <<clock, issued>>

Next ==
  \/ Advance
  \/ \E asked \in 0 .. clock : Grant(asked)
  \/ \E target \in 0 .. Horizon : Pause(target)

Spec == Init /\ [][Next]_rateVars
=============================================================================
