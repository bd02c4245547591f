------------------------------ MODULE Freshness ------------------------------
(***************************************************************************)
(* How long a response may be served (crates-io-client: fetch.rs           *)
(* effective_ttl, cache.rs CachedBody, disk.rs StoredBody), for one URL.   *)
(*                                                                         *)
(* The origin grants a lifetime in Cache-Control; memory counts it on the  *)
(* monotonic clock, the disk on the wall clock in whole seconds, and the   *)
(* next process turns what is left back into a monotonic lifetime.  Each   *)
(* reading of a clock is a step of its own, so that time passes and the    *)
(* wall clock is set, either way, between any two of them.  Times are in   *)
(* ticks, Second of them to a second, so that both clocks have fractions.  *)
(***************************************************************************)
EXTENDS Integers, Sequences, FiniteSets

CONSTANTS
  Second,      \* ticks in a second
  Configured,  \* the client's own lifetime for the resource, in ticks
  Headers,     \* the Cache-Control values origins send: sequences of directives
               \* <<"no-store", 0>> (or no-cache), <<"max-age", n>>, <<"other", 0>>
  Steps,       \* by how much the wall clock may be stepped, in ticks
  WallStart,   \* the wall clock when the run starts
  MaxTime,     \* bound: the monotonic clock stops here
  MaxSteps,    \* bound: clock steps in a run
  MaxPending,  \* bound: receipts that are not on the disk yet
  Nothing      \* no entry

Directives == {<<"no-store", 0>>, <<"other", 0>>} \cup ({"max-age"} \X Nat)

\* A cached body.
Entry == [storedAt : Nat, freshFor : Nat, ends : Nat, over : Nat]

ASSUME FreshnessConstants ==
  /\ Second \in Nat \ {0}
  /\ Configured \in Nat
  /\ Headers \subseteq Seq(Directives)
  /\ Steps \subseteq Int
  /\ WallStart \in Nat /\ MaxTime \in Nat /\ MaxSteps \in Nat /\ MaxPending \in Nat
  /\ Nothing \notin Entry

VARIABLES
  mono,    \* Instant: elapses evenly and is never stepped
  wall,    \* SystemTime, since the epoch
  memory,  \* the cached body: when it was stored, for how long it is fresh and
           \* (history) when its grant ends and by how much that may be overrun; or Nothing
  pending, \* the receipts whose record is not written yet, of this server and of
           \* others that share the directory
  record,  \* the stored body: stored_at_unix, fresh_for_secs and (history) when the
           \* grant ends, how long after the receipt it was stamped, and what the wall
           \* clock was ahead of the monotonic one then; or Nothing
  reading, \* what load_from_disk has computed of a record; or Nothing
  steps    \* clock steps so far

vars == <<mono, wall, memory, pending, record, reading, steps>>

Larger(a, b) == IF a >= b THEN a ELSE b
Smaller(a, b) == IF a <= b THEN a ELSE b

Lifetimes(header) == {i \in DOMAIN header : header[i][1] # "other"}

\* Mutant of EffectiveTtl: the last directive about the lifetime decides.
EffectiveTtlLast(header) ==
  IF Lifetimes(header) = {} THEN Configured
  ELSE LET last == CHOOSE i \in Lifetimes(header) : \A j \in Lifetimes(header) : j <= i
       IN Smaller(Configured, header[last][2] * Second)

\* effective_ttl: the first directive about the lifetime decides.
EffectiveTtl(header) ==
  IF Lifetimes(header) = {} THEN Configured
  ELSE LET first == CHOOSE i \in Lifetimes(header) : \A j \in Lifetimes(header) : i <= j
       IN Smaller(Configured, header[first][2] * Second)

\* What is permitted: no more than was configured, nor than the origin's first word.
Permitted(header) ==
  LET spoken == {i \in Lifetimes(header) : \A j \in Lifetimes(header) : i <= j}
      bounds == {header[i][2] * Second : i \in spoken} \cup {Configured}
  IN CHOOSE b \in bounds : \A c \in bounds : b <= c

IsFresh == memory # Nothing /\ mono - memory.storedAt < memory.freshFor

Init ==
  /\ mono = 0
  /\ wall = WallStart
  /\ memory = Nothing
  /\ pending = {}
  /\ record = Nothing
  /\ reading = Nothing
  /\ steps = 0

Receipt(header) ==
  [at |-> mono, freshFor |-> EffectiveTtl(header), ends |-> mono + Permitted(header)]

\* Nothing fresh is at hand, in memory or on the disk: a body, or a 304 for the one
\* at hand, is received (CachedBody::new, revalidated).
Receive ==
  /\ ~IsFresh /\ reading = Nothing
  /\ Cardinality(pending) < MaxPending
  /\ \E header \in Headers :
       /\ memory' = [storedAt |-> mono, freshFor |-> EffectiveTtl(header),
                     ends |-> mono + Permitted(header), over |-> 0]
       /\ pending' = pending \cup {Receipt(header)}
  /\ UNCHANGED <<mono, wall, record, reading, steps>>

\* Another server that shares the directory receives one.
OthersReceive ==
  /\ Cardinality(pending) < MaxPending
  /\ \E header \in Headers : pending' = pending \cup {Receipt(header)}
  /\ UNCHANGED <<mono, wall, memory, record, reading, steps>>

Persisted(receipt, stamp) ==
  /\ record' = [storedAtUnix |-> stamp, freshForSecs |-> receipt.freshFor \div Second,
                ends |-> receipt.ends, late |-> mono - receipt.at, ahead |-> wall - mono]
  /\ pending' = pending \ {receipt}
  /\ UNCHANGED <<mono, wall, memory, reading, steps>>

\* Mutants of Persist: the time stamp is rounded up; it is missing.
PersistRounded == \E receipt \in pending : Persisted(receipt, (wall + Second - 1) \div Second)
PersistUndated == \E receipt \in pending : Persisted(receipt, 0)

\* store_to_disk, which reads the wall clock some time after the receipt.
Persist == \E receipt \in pending : Persisted(receipt, wall \div Second)

\* Mutant of Remaining: a clock behind the record leaves all of it.
RemainingTrusting ==
  LET storedAt == record.storedAtUnix * Second IN
  Larger(record.freshForSecs * Second - (IF wall < storedAt THEN 0 ELSE wall - storedAt), 0)

\* StoredBody::remaining_freshness; a clock behind the record leaves nothing.
Remaining ==
  LET storedAt == record.storedAtUnix * Second
      granted == record.freshForSecs * Second
      elapsed == IF wall < storedAt THEN granted ELSE wall - storedAt IN
  Larger(granted - elapsed, 0)

\* How far the wall clock was set back since the record was stamped; not counted
\* when it is behind the stamp, for then nothing of the record is left.
SetBack ==
  IF wall < record.storedAtUnix * Second THEN 0
  ELSE Larger(record.ahead - (wall - mono), 0)

\* The process ends, or the body cache evicts the entry; the record stays, and of
\* the receipts those that somebody still writes.
Restart ==
  /\ memory' = Nothing
  /\ reading' = Nothing
  /\ \E written \in SUBSET pending : pending' = written
  /\ UNCHANGED <<mono, wall, record, steps>>

\* load_from_disk reads the record and the wall clock ...
Read ==
  /\ memory = Nothing /\ reading = Nothing
  /\ record # Nothing
  /\ reading' = [at |-> mono, left |-> Remaining, ends |-> record.ends, over |-> record.late + SetBack]
  /\ UNCHANGED <<mono, wall, memory, pending, record, steps>>

\* ... and then the monotonic one; only a fresh copy is kept in memory.
Load ==
  /\ reading # Nothing
  /\ memory' = IF reading.left > 0
                THEN [storedAt |-> mono, freshFor |-> reading.left, ends |-> reading.ends,
                      over |-> reading.over + (mono - reading.at)]
                ELSE Nothing
  /\ reading' = Nothing
  /\ UNCHANGED <<mono, wall, pending, record, steps>>

\* Time passes.
Tick ==
  /\ mono < MaxTime
  /\ mono' = mono + 1
  /\ wall' = wall + 1
  /\ UNCHANGED <<memory, pending, record, reading, steps>>

\* The wall clock is set.
StepClock ==
  /\ steps < MaxSteps
  /\ \E s \in Steps :
       /\ wall + s >= 0
       /\ wall' = wall + s
  /\ steps' = steps + 1
  /\ UNCHANGED <<mono, memory, pending, record, reading>>

Next == Receive \/ OthersReceive \/ Persist \/ Restart \/ Read \/ Load \/ Tick \/ StepClock

Spec == Init /\ [][Next]_vars

-----------------------------------------------------------------------------
(* Properties *)

Receipts == [at : Nat, freshFor : Nat, ends : Nat]
Record == [storedAtUnix : Nat, freshForSecs : Nat, ends : Nat, late : Nat, ahead : Int]
Reading == [at : Nat, left : Nat, ends : Nat, over : Nat]

TypeOK ==
  /\ mono \in Nat /\ wall \in Nat /\ steps \in Nat
  /\ memory \in Entry \cup {Nothing}
  /\ pending \subseteq Receipts
  /\ record \in Record \cup {Nothing}
  /\ reading \in Reading \cup {Nothing}

\* A copy is served no longer than the origin granted and the client was
\* configured to, through any number of restarts and of servers, except for what
\* the reading of the clocks costs: the time between the receipt and the stamp of
\* the record (fetch.rs store_to_disk), that between reading the wall clock and
\* the monotonic one (load_from_disk), and what the wall clock was set back since
\* the stamp, while it is not behind it (disk.rs remaining_freshness).  With no
\* record in between the grant is kept exactly.  This is weaker than the comments
\* at fetch.rs:709 and disk.rs:124, which allow for none of these, and of
\* directives that contradict one another it takes the first.
ServedWithinGrant == IsFresh => mono < memory.ends + memory.over

\* A restart costs little: while the wall clock runs evenly, a record with more
\* than two seconds of its grant left is fresh when it is read back (disk.rs,
\* the two roundings to whole seconds).
RestartsAreCheap ==
  [][Load /\ steps = 0 /\ reading.ends - mono > 2 * Second =>
       memory' # Nothing /\ memory'.freshFor >= reading.ends - mono - 2 * Second]_vars
=============================================================================
