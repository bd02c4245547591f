--------------------------- MODULE FreshnessProofs ---------------------------
(***************************************************************************)
(* No copy outlives its grant by more than the reading of the clocks costs *)
(* and the wall clock was set back, for any directives, any lifetimes, any *)
(* number of restarts and servers, any settings of the clock and any width *)
(* of a second.                                                            *)
(*                                                                         *)
(* The two clocks meet in the record: when it ends on the wall clock is    *)
(* compared with when its grant ends on the monotonic one, through what    *)
(* the one was ahead of the other at the stamp (RecordWithin).  Neither    *)
(* side moves after that, whatever the clocks do; a reading turns the      *)
(* difference back into a lifetime (ReadingWithin).  That a restart is     *)
(* cheap is the same difference, bounded from the other side while nobody  *)
(* sets the clock (Close).                                                 *)
(***************************************************************************)
EXTENDS Freshness, Induction

\* What a copy in memory is served for lies within its grant and what that may be
\* overrun by.
MemoryWithin ==
  memory # Nothing =>
    /\ memory.storedAt <= mono
    /\ memory.freshFor > 0 => memory.storedAt + memory.freshFor <= memory.ends + memory.over

\* A receipt carries the whole of its grant.
PendingWhole == \A r \in pending : r.at <= mono /\ r.at + r.freshFor = r.ends

\* When a record ends, on the wall clock.
RecordEnds == record.storedAtUnix * Second + record.freshForSecs * Second

\* A record ends no later than its grant and the delay of its stamp allow, told on
\* the wall clock as it was then.
RecordWithin == record # Nothing => RecordEnds <= record.ends + record.late + record.ahead

\* What was computed of a record lies within its grant, when it was computed.
ReadingWithin ==
  reading # Nothing =>
    /\ reading.at <= mono
    /\ reading.left > 0 => reading.at + reading.left <= reading.ends + reading.over

\* While nobody has set the clock, a record and a reading lose at most two seconds.
RecordClose ==
  record # Nothing => RecordEnds > record.ends + WallStart - 2 * Second /\ record.storedAtUnix * Second <= wall
ReadingClose ==
  reading # Nothing /\ reading.ends - reading.at > 2 * Second =>
    reading.left >= reading.ends - reading.at - 2 * Second
Close == steps = 0 => wall = mono + WallStart /\ RecordClose /\ ReadingClose

Within == MemoryWithin /\ PendingWhole /\ RecordWithin /\ ReadingWithin

IInv == TypeOK /\ Within /\ Close

\* Cutting to whole seconds loses less than one.
LEMMA WholeSeconds ==
  ASSUME NEW n \in Nat
  PROVE  /\ n \div Second \in Nat
         /\ (n \div Second) * Second <= n
         /\ (n \div Second) * Second > n - Second
<1>1. Second \in Nat /\ Second > 0
  BY FreshnessConstants
<1>2. n = Second * (n \div Second) + (n % Second) /\ n % Second \in 0 .. (Second - 1) /\ n \div Second \in Int
  BY <1>1
<1>3. n \div Second \in Nat
  BY <1>1
<1> QED
  BY <1>1, <1>2, <1>3

\* Seconds are ticks.
LEMMA Ticks ==
  ASSUME NEW n \in Nat
  PROVE  n * Second \in Nat
  BY FreshnessConstants

\* The lifetime that is used is the one permitted, and a number of ticks.
LEMMA LifetimeKept ==
  ASSUME NEW header \in Headers
  PROVE  EffectiveTtl(header) \in Nat /\ EffectiveTtl(header) = Permitted(header)
<1> DEFINE used == Lifetimes(header)
           spoken == {i \in used : \A j \in used : i <= j}
           bounds == {header[i][2] * Second : i \in spoken} \cup {Configured}
<1>1. Second \in Nat /\ Configured \in Nat /\ header \in Seq(Directives)
  BY FreshnessConstants
<1>2. \A i \in used : i \in Nat /\ header[i][2] \in Nat
  <2> TAKE i \in used
  <2>1. i \in DOMAIN header
    BY DEF Lifetimes
  <2>2. header[i] \in Directives /\ i \in Nat
    BY <1>1, <2>1
  <2> QED BY <2>2 DEF Directives
<1>3. Permitted(header) = CHOOSE b \in bounds : \A c \in bounds : b <= c
  BY DEF Permitted
<1>4. CASE used = {}
  <2>1. bounds = {Configured}
    BY <1>4
  <2> HIDE DEF bounds
  <2>2. Permitted(header) = Configured
    <3>1. \E b \in bounds : \A c \in bounds : b <= c
      BY <1>1, <2>1
    <3>2. Permitted(header) \in bounds
      BY <1>3, <3>1
    <3> QED BY <2>1, <3>2
  <2> QED BY <1>1, <1>4, <2>2 DEF EffectiveTtl
<1>5. CASE used # {}
  <2>1. PICK i \in used : \A j \in used : i <= j
    <3>1. used \in SUBSET Nat /\ used # {}
      BY <1>2, <1>5
    <3> HIDE DEF used
    <3> QED BY <3>1, LeastNatural
  <2>2. EffectiveTtl(header) = Smaller(Configured, header[i][2] * Second)
    <3>1. (CHOOSE k \in used : \A j \in used : k <= j) = i
      BY <1>2, <2>1
    <3> QED BY <1>5, <3>1 DEF EffectiveTtl
  <2>3. bounds = {header[i][2] * Second, Configured}
    <3>1. spoken = {i}
      BY <1>2, <2>1
    <3> QED BY <3>1
  <2>4. header[i][2] * Second \in Nat
    BY <1>1, <1>2
  <2> HIDE DEF bounds, used
  <2>5. \E b \in bounds : \A c \in bounds : b <= c
    BY <1>1, <2>3, <2>4
  <2>6. Permitted(header) \in bounds /\ \A c \in bounds : Permitted(header) <= c
    BY <1>3, <2>5
  <2> QED BY <1>1, <2>2, <2>3, <2>4, <2>6 DEF Smaller
<1> QED
  BY <1>4, <1>5

\* A receipt carries the lifetime that is permitted, counted from now.
LEMMA ReceiptFacts ==
  ASSUME TypeOK, NEW header \in Headers
  PROVE  /\ Receipt(header) \in Receipts
         /\ Receipt(header).at = mono
         /\ Receipt(header).at + Receipt(header).freshFor = Receipt(header).ends
<1>1. mono \in Nat /\ EffectiveTtl(header) \in Nat /\ EffectiveTtl(header) = Permitted(header)
  BY LifetimeKept DEF TypeOK
<1> QED
  BY <1>1 DEF Receipt, Receipts

\* Nothing is granted and nothing stored at the start.
LEMMA InitHolds == Init => IInv
  BY FreshnessConstants
  DEF Init, IInv, TypeOK, Within, MemoryWithin, PendingWhole, RecordWithin, ReadingWithin,
      Close, RecordClose, ReadingClose

\* What a stamp and what a clock set back make of a record are numbers of ticks.
LEMMA HistoryTypes ==
  ASSUME TypeOK
  PROVE  /\ record # Nothing => SetBack \in Nat /\ Remaining \in Nat
         /\ \A r \in pending : wall \div Second \in Nat /\ r.freshFor \div Second \in Nat
<1>1. ASSUME record # Nothing PROVE SetBack \in Nat /\ Remaining \in Nat
  <2>1. /\ record.storedAtUnix * Second \in Nat /\ record.freshForSecs * Second \in Nat
        /\ wall \in Nat /\ mono \in Nat /\ record.ahead \in Int
    BY <1>1, Ticks DEF TypeOK, Record
  <2> QED BY <2>1 DEF SetBack, Remaining, Larger
<1>2. ASSUME NEW r \in pending PROVE wall \div Second \in Nat /\ r.freshFor \div Second \in Nat
  <2>1. wall \in Nat /\ r.freshFor \in Nat
    BY DEF TypeOK, Receipts
  <2> QED BY <2>1, WholeSeconds
<1> QED
  BY <1>1, <1>2

\* The type of every variable survives every step; that a receipt is not from the
\* future is what types the delay of its stamp.
LEMMA TypeStep ==
  ASSUME TypeOK, Within, [Next]_vars
  PROVE  TypeOK'
<1> USE FreshnessConstants DEF TypeOK
<1>1. ASSUME Receive PROVE TypeOK'
  <2>1. PICK header \in Headers :
          /\ memory' = [storedAt |-> mono, freshFor |-> EffectiveTtl(header),
                        ends |-> mono + Permitted(header), over |-> 0]
          /\ pending' = pending \cup {Receipt(header)}
    BY <1>1 DEF Receive
  <2>2. EffectiveTtl(header) \in Nat /\ Permitted(header) \in Nat /\ Receipt(header) \in Receipts
    BY LifetimeKept, ReceiptFacts
  <2>3. memory' \in Entry
    BY <2>1, <2>2 DEF Entry
  <2> QED BY <1>1, <2>1, <2>2, <2>3 DEF Receive
<1>2. ASSUME OthersReceive PROVE TypeOK'
  BY <1>2, ReceiptFacts DEF OthersReceive
<1>3. ASSUME Persist PROVE TypeOK'
  <2>1. PICK r \in pending : Persisted(r, wall \div Second)
    BY <1>3 DEF Persist
  <2>2. wall \div Second \in Nat /\ r.freshFor \div Second \in Nat
    BY HistoryTypes
  <2>3. r.ends \in Nat /\ mono - r.at \in Nat /\ wall - mono \in Int
    BY DEF Receipts, Within, PendingWhole
  <2>4. record' \in Record
    BY <2>1, <2>2, <2>3 DEF Persisted, Record
  <2> QED BY <2>1, <2>4 DEF Persisted
<1>4. ASSUME Read PROVE TypeOK'
  <2>1. Remaining \in Nat /\ SetBack \in Nat /\ record.ends \in Nat /\ record.late \in Nat
    BY <1>4, HistoryTypes DEF Read, Record
  <2>2. reading' \in Reading
    BY <1>4, <2>1 DEF Read, Reading
  <2> QED BY <1>4, <2>2 DEF Read
<1>5. ASSUME Load PROVE TypeOK'
  <2>1. reading \in Reading /\ mono - reading.at \in Nat
    BY <1>5 DEF Load, Within, ReadingWithin, Reading
  <2>2. memory' \in Entry \cup {Nothing}
    BY <1>5, <2>1 DEF Load, Entry, Reading
  <2> QED BY <1>5, <2>2 DEF Load
<1>6. ASSUME Restart \/ Tick \/ StepClock \/ UNCHANGED vars PROVE TypeOK'
  BY <1>6 DEF Restart, Tick, StepClock, vars
<1> QED
  BY <1>1, <1>2, <1>3, <1>4, <1>5, <1>6 DEF Next

\* What is left of a record is what its end leaves on the wall clock, or nothing.
LEMMA RemainingFacts ==
  ASSUME TypeOK, record # Nothing
  PROVE  /\ Remaining \in Nat
         /\ Remaining > 0 => Remaining <= RecordEnds - wall /\ record.storedAtUnix * Second <= wall
         /\ record.storedAtUnix * Second <= wall /\ RecordEnds >= wall => Remaining = RecordEnds - wall
<1>1. /\ record.storedAtUnix * Second \in Nat /\ record.freshForSecs * Second \in Nat /\ wall \in Nat
  BY Ticks DEF TypeOK, Record
<1> QED
  BY <1>1 DEF Remaining, RecordEnds, Larger

\* Time passes for both clocks alike; what the wall clock is set to changes nothing
\* that was granted.
LEMMA ClocksHold ==
  ASSUME IInv, Tick \/ StepClock
  PROVE  (Within /\ Close)'
<1> DEFINE ends == RecordEnds
<1>1. UNCHANGED <<memory, pending, record, reading>> /\ ends' = ends
  BY DEF Tick, StepClock, RecordEnds
<1>2. mono \in Nat /\ wall \in Nat /\ mono' \in Nat /\ mono' >= mono
  BY DEF IInv, TypeOK, Tick, StepClock
<1> HIDE DEF ends
<1>3. MemoryWithin'
  <2>1. memory # Nothing => memory.storedAt \in Nat
    BY DEF IInv, TypeOK, Entry
  <2> QED BY <1>1, <1>2, <2>1 DEF IInv, Within, MemoryWithin
<1>4. PendingWhole'
  <2>1. \A r \in pending : r.at \in Nat
    BY DEF IInv, TypeOK, Receipts
  <2> QED BY <1>1, <1>2, <2>1 DEF IInv, Within, PendingWhole
<1>5. RecordWithin'
  BY <1>1 DEF IInv, Within, RecordWithin, ends
<1>6. ReadingWithin'
  <2>1. reading # Nothing => reading.at \in Nat
    BY DEF IInv, TypeOK, Reading
  <2> QED BY <1>1, <1>2, <2>1 DEF IInv, Within, ReadingWithin
<1>7. Close'
  <2>1. CASE StepClock
    BY <2>1 DEF StepClock, Close, IInv, TypeOK
  <2>2. CASE Tick
    <3>1. mono' = mono + 1 /\ wall' = wall + 1 /\ steps' = steps
      BY <2>2 DEF Tick
    <3>2. WallStart \in Nat /\ (record # Nothing => record.storedAtUnix * Second \in Nat)
      BY FreshnessConstants, Ticks DEF IInv, TypeOK, Record
    <3>3. ASSUME steps = 0 PROVE wall' = mono' + WallStart
      BY <1>2, <3>1, <3>2, <3>3 DEF IInv, Close
    <3>4. ASSUME steps = 0 PROVE RecordClose'
      BY <1>1, <1>2, <3>1, <3>2, <3>4 DEF IInv, Close, RecordClose, ends
    <3>5. ASSUME steps = 0 PROVE ReadingClose'
      BY <1>1, <3>5 DEF IInv, Close, ReadingClose
    <3> QED BY <3>1, <3>3, <3>4, <3>5 DEF Close
  <2> QED BY <2>1, <2>2
<1> QED
  BY <1>3, <1>4, <1>5, <1>6, <1>7 DEF Within

\* A receipt grants what is permitted, in memory and on its way to the disk.
LEMMA ReceiveHolds ==
  ASSUME IInv, Receive \/ OthersReceive
  PROVE  (Within /\ Close)'
<1>1. PICK header \in Headers : pending' = pending \cup {Receipt(header)}
  BY DEF Receive, OthersReceive
<1>2. UNCHANGED <<mono, wall, record, reading, steps>>
  BY DEF Receive, OthersReceive
<1>3. MemoryWithin'
  <2>1. CASE OthersReceive
    BY <1>2, <2>1 DEF OthersReceive, IInv, Within, MemoryWithin
  <2>2. CASE Receive
    <3>1. PICK h \in Headers :
            memory' = [storedAt |-> mono, freshFor |-> EffectiveTtl(h),
                       ends |-> mono + Permitted(h), over |-> 0]
      BY <2>2 DEF Receive
    <3>2. EffectiveTtl(h) \in Nat /\ EffectiveTtl(h) = Permitted(h) /\ mono \in Nat
      BY LifetimeKept DEF IInv, TypeOK
    <3> QED BY <1>2, <3>1, <3>2 DEF MemoryWithin
  <2> QED BY <2>1, <2>2
<1>4. PendingWhole'
  <2>1. TypeOK /\ mono \in Nat
    BY DEF IInv, TypeOK
  <2>2. Receipt(header).at = mono /\ Receipt(header).at + Receipt(header).freshFor = Receipt(header).ends
    BY <2>1, ReceiptFacts
  <2> QED BY <1>1, <1>2, <2>1, <2>2 DEF IInv, Within, PendingWhole
<1>5. RecordWithin' /\ ReadingWithin' /\ Close'
  BY <1>2 DEF IInv, Within, RecordWithin, ReadingWithin, RecordEnds, Close, RecordClose, ReadingClose
<1> QED
  BY <1>3, <1>4, <1>5 DEF Within

\* What is written to the disk grants no more than the receipt and the delay of the
\* stamp, and little less.
LEMMA PersistHolds ==
  ASSUME IInv, Persist
  PROVE  (Within /\ Close)'
<1> DEFINE stamp == wall \div Second
<1>1. PICK r \in pending : Persisted(r, stamp)
  BY DEF Persist
<1> DEFINE span == r.freshFor \div Second
<1>2. /\ record' = [storedAtUnix |-> stamp, freshForSecs |-> span,
                    ends |-> r.ends, late |-> mono - r.at, ahead |-> wall - mono]
      /\ pending' = pending \ {r} /\ UNCHANGED <<mono, wall, memory, reading, steps>>
  BY <1>1 DEF Persisted
<1>3. /\ mono \in Nat /\ wall \in Nat /\ r.freshFor \in Nat /\ r.ends \in Nat /\ r.at \in Nat
      /\ r.at <= mono /\ r.at + r.freshFor = r.ends
  BY DEF IInv, TypeOK, Receipts, Within, PendingWhole
<1>4. /\ stamp * Second <= wall /\ stamp * Second > wall - Second
      /\ span * Second <= r.freshFor /\ span * Second > r.freshFor - Second
  BY <1>3, WholeSeconds
<1>5. stamp * Second \in Nat /\ span * Second \in Nat /\ Second \in Nat /\ WallStart \in Nat
  BY <1>3, WholeSeconds, Ticks, FreshnessConstants
<1> HIDE DEF stamp, span
<1>6. /\ record'.storedAtUnix = stamp /\ record'.ends = r.ends /\ record'.late = mono - r.at
      /\ record'.ahead = wall - mono /\ RecordEnds' = stamp * Second + span * Second
  BY <1>2 DEF RecordEnds
<1>7. MemoryWithin' /\ PendingWhole' /\ ReadingWithin'
  BY <1>2 DEF IInv, Within, MemoryWithin, PendingWhole, ReadingWithin
<1>8. RecordWithin'
  BY <1>3, <1>4, <1>5, <1>6 DEF RecordWithin
<1>9. Close'
  <2>1. ASSUME steps = 0 PROVE RecordClose'
    <3>1. wall = mono + WallStart
      BY <2>1 DEF IInv, Close
    <3> QED BY <1>2, <1>3, <1>4, <1>5, <1>6, <3>1 DEF RecordClose
  <2> QED BY <1>2, <2>1 DEF IInv, Close, ReadingClose
<1> QED
  BY <1>7, <1>8, <1>9 DEF Within

\* What is computed of a record lies within its grant and the sum of what it may be
\* overrun by, and close to the grant while nobody has set the clock.
LEMMA ReadHolds ==
  ASSUME IInv, Read
  PROVE  (Within /\ Close)'
<1>1. /\ record # Nothing /\ UNCHANGED <<mono, wall, memory, pending, record, steps>>
      /\ reading' = [at |-> mono, left |-> Remaining, ends |-> record.ends, over |-> record.late + SetBack]
  BY DEF Read
<1>2. /\ mono \in Nat /\ wall \in Nat /\ record.ends \in Nat /\ record.late \in Nat /\ record.ahead \in Int
      /\ Second \in Nat /\ WallStart \in Nat
  BY <1>1, FreshnessConstants DEF IInv, TypeOK, Record
<1>3. RecordEnds \in Nat /\ record.storedAtUnix * Second \in Nat
  <2>1. record.storedAtUnix * Second \in Nat /\ record.freshForSecs * Second \in Nat
    BY <1>1, Ticks DEF IInv, TypeOK, Record
  <2> QED BY <2>1 DEF RecordEnds
<1>4. RecordEnds <= record.ends + record.late + record.ahead
  BY <1>1 DEF IInv, Within, RecordWithin
<1>5. /\ Remaining \in Nat /\ (Remaining > 0 => Remaining <= RecordEnds - wall /\ record.storedAtUnix * Second <= wall)
      /\ (record.storedAtUnix * Second <= wall /\ RecordEnds >= wall => Remaining = RecordEnds - wall)
  BY <1>1, RemainingFacts DEF IInv
<1>6. SetBack \in Nat /\ (record.storedAtUnix * Second <= wall => SetBack >= record.ahead - (wall - mono))
  BY <1>1, <1>2, <1>3 DEF SetBack, Larger
<1>7. ReadingWithin'
  <2>1. ASSUME Remaining > 0 PROVE mono + Remaining <= record.ends + (record.late + SetBack)
    BY <1>2, <1>3, <1>4, <1>5, <1>6, <2>1
  <2> QED BY <1>1, <1>2, <2>1 DEF ReadingWithin
<1>8. Close'
  <2>1. ASSUME steps = 0 PROVE ReadingClose'
    <3>1. wall = mono + WallStart /\ RecordEnds > record.ends + WallStart - 2 * Second /\ record.storedAtUnix * Second <= wall
      BY <1>1, <2>1 DEF IInv, Close, RecordClose
    <3>2. ASSUME record.ends - mono > 2 * Second PROVE Remaining >= record.ends - mono - 2 * Second
      BY <1>2, <1>3, <1>5, <3>1, <3>2
    <3> QED BY <1>1, <3>2 DEF ReadingClose
  <2> QED BY <1>1, <2>1 DEF IInv, Close, RecordClose, RecordEnds
<1>9. MemoryWithin' /\ PendingWhole' /\ RecordWithin'
  BY <1>1 DEF IInv, Within, MemoryWithin, PendingWhole, RecordWithin, RecordEnds
<1> QED
  BY <1>7, <1>8, <1>9 DEF Within

\* What is read back lies within the grant.
LEMMA LoadHolds ==
  ASSUME IInv, Load
  PROVE  (Within /\ Close)'
<1>1. /\ reading # Nothing /\ reading' = Nothing /\ UNCHANGED <<mono, wall, pending, record, steps>>
      /\ memory' = IF reading.left > 0
                    THEN [storedAt |-> mono, freshFor |-> reading.left, ends |-> reading.ends,
                          over |-> reading.over + (mono - reading.at)]
                    ELSE Nothing
  BY DEF Load
<1>2. /\ mono \in Nat /\ reading.at \in Nat /\ reading.left \in Nat /\ reading.ends \in Nat /\ reading.over \in Nat
      /\ reading.left > 0 => reading.at + reading.left <= reading.ends + reading.over
  BY <1>1 DEF IInv, TypeOK, Reading, Within, ReadingWithin
<1>3. MemoryWithin'
  BY <1>1, <1>2 DEF MemoryWithin
<1> QED
  BY <1>1, <1>3
  DEF IInv, Within, PendingWhole, RecordWithin, ReadingWithin, RecordEnds, Close, RecordClose, ReadingClose

\* Every step keeps the inductive invariant.
LEMMA NextHolds ==
  ASSUME IInv, [Next]_vars
  PROVE  IInv'
<1>1. TypeOK'
  BY TypeStep DEF IInv
<1>2. CASE Restart
  BY <1>1, <1>2
  DEF Restart, IInv, Within, MemoryWithin, PendingWhole, RecordWithin, ReadingWithin, RecordEnds,
      Close, RecordClose, ReadingClose
<1>3. CASE UNCHANGED vars
  BY <1>1, <1>3
  DEF vars, IInv, Within, MemoryWithin, PendingWhole, RecordWithin, ReadingWithin, RecordEnds,
      Close, RecordClose, ReadingClose
<1> QED
  BY <1>1, <1>2, <1>3, ClocksHold, ReceiveHolds, PersistHolds, ReadHolds, LoadHolds DEF Next, IInv

\* Every reachable state satisfies the inductive invariant.
THEOREM Invariant == Spec => []IInv
<1>1. IInv /\ [Next]_vars => IInv'
  BY NextHolds
<1> QED
  BY <1>1, InitHolds, PTL DEF Spec

\* No copy outlives its grant by more than the delays between the readings of the
\* clocks and what the wall clock was set back, through restarts and evictions and
\* whatever is cut to whole seconds on the way.
THEOREM NeverServedLate == Spec => []ServedWithinGrant
<1>1. IInv => ServedWithinGrant
  BY DEF IInv, TypeOK, Entry, Within, MemoryWithin, ServedWithinGrant, IsFresh
<1> QED
  BY <1>1, Invariant, PTL

\* While nobody sets the clock a restart costs at most two seconds of a grant.
THEOREM RestartsCostLittle == Spec => RestartsAreCheap
<1>1. ASSUME IInv, Load, steps = 0, reading.ends - mono > 2 * Second
      PROVE  memory' # Nothing /\ memory'.freshFor >= reading.ends - mono - 2 * Second
  <2>1. reading # Nothing /\ reading \in Reading /\ mono \in Nat /\ Second \in Nat /\ reading.at <= mono
    BY <1>1, FreshnessConstants DEF Load, IInv, TypeOK, Within, ReadingWithin
  <2>2. /\ reading.at \in Nat /\ reading.left \in Nat /\ reading.ends \in Nat
    BY <2>1 DEF Reading
  <2>3. reading.left >= reading.ends - reading.at - 2 * Second
    BY <1>1, <2>1, <2>2 DEF IInv, Close, ReadingClose
  <2>4. reading.left > 0 /\ reading.left >= reading.ends - mono - 2 * Second
    BY <1>1, <2>1, <2>2, <2>3
  <2>5. memory' = [storedAt |-> mono, freshFor |-> reading.left, ends |-> reading.ends,
                   over |-> reading.over + (mono - reading.at)]
    BY <1>1, <2>4 DEF Load
  <2>6. reading.over + (mono - reading.at) \in Nat
    BY <2>1, <2>2 DEF Reading
  <2>7. memory' \in Entry
    BY <2>1, <2>2, <2>5, <2>6 DEF Entry
  <2>8. memory' # Nothing
    BY <2>7, FreshnessConstants
  <2> QED BY <2>4, <2>5, <2>8
<1>2. IInv /\ [Next]_vars =>
        (Load /\ steps = 0 /\ reading.ends - mono > 2 * Second =>
           memory' # Nothing /\ memory'.freshFor >= reading.ends - mono - 2 * Second)
  BY <1>1
<1> QED
  BY <1>2, Invariant, PTL DEF Spec, RestartsAreCheap
=============================================================================
