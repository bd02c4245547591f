----------------------------- MODULE MCFreshness -----------------------------
(***************************************************************************)
(* Lifetimes of a few seconds, in ticks of a half of one.                  *)
(***************************************************************************)
EXTENDS Freshness

Ages == {<<"max-age", 1>>, <<"max-age", 3>>, <<"no-store", 0>>}

\* Directives about the lifetime alone, after another, and contradicting one another.
Controls == {<<>>, <<(<<"other", 0>>), (<<"max-age", 3>>)>>} \cup {<<d>> : d \in Ages} \cup {<<d, e>> : d, e \in Ages}

\* Set forward and back, within a second and across several.
Jumps == {-3, -1, 2}

\* What the future depends on, counted from now: of copies when they expire and when
\* they have to, and the end of the grant by itself only until the clock is set.
Ending(ends, over) == IF steps = 0 THEN <<ends - mono, over>> ELSE <<ends + over - mono, 0>>
Copy ==
  IF memory = Nothing THEN {}
  ELSE IF IsFresh THEN {<<memory.storedAt + memory.freshFor - mono, memory.ends + memory.over - mono>>} ELSE {<<>>}
Receiving == {<<r.at - mono, r.freshFor, r.ends - mono>> : r \in pending}
Kept ==
  IF record = Nothing THEN {}
  ELSE {<<record.storedAtUnix * Second - wall, record.freshForSecs, Ending(record.ends, record.late),
          record.ahead - (wall - mono)>>}
Looking == IF reading = Nothing THEN {} ELSE {<<reading.left, Ending(reading.ends, reading.over + mono - reading.at)>>}
Lives == <<wall % Second, Copy, Receiving, Kept, Looking, steps>>
=============================================================================
