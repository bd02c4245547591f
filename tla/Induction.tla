------------------------------ MODULE Induction ------------------------------
(***************************************************************************)
(* Induction and recursion over finite data, stated of sets and functions  *)
(* and not of operators, so that each fact can be cited where it is        *)
(* needed: what holds of the first and of every next number holds of all;  *)
(* a set of numbers has a least and, bounded, a greatest; and a function   *)
(* that refers to itself at smaller arguments exists.                      *)
(*                                                                         *)
(* The least member of a family of finite sets (SmallestSet) is all that   *)
(* is taken from the library; the rest follows from it.                    *)
(***************************************************************************)
EXTENDS Ordering, FiniteSetsExt, FiniteSetTheorems, TLAPS

\* A family of finite sets has a member that includes no other.
LEMMA SmallestSet ==
  ASSUME NEW F, F # {}, \A X \in F : IsFiniteSet(X)
  PROVE  \E X \in F : \A Y \in F : Y \subseteq X => Y = X
<1>1. F \subseteq FiniteSubsetsOf(UNION F)
  BY DEF FiniteSubsetsOf
<1>2. IsWellFoundedOn(StrictSubsetOrdering(UNION F), FiniteSubsetsOf(UNION F))
  BY FS_StrictSubsetOrderingWellFounded
<1>3. PICK X \in F : \A Y \in F : ~(<<Y, X>> \in StrictSubsetOrdering(UNION F))
  BY <1>1, <1>2, WFMin
<1> QED
  BY <1>3 DEF StrictSubsetOrdering

\* A set of numbers has a least.
LEMMA LeastNatural ==
  ASSUME NEW S \in SUBSET Nat, S # {}
  PROVE  \E m \in S : \A n \in S : m <= n
<1>1. PICK F : F = {0 .. n : n \in S}
  OBVIOUS
<1>2. F # {}
  BY <1>1
<1>3. \A X \in F : IsFiniteSet(X)
  <2> SUFFICES ASSUME NEW n \in S PROVE IsFiniteSet(0 .. n)
    BY <1>1
  <2>1. 0 \in Int /\ n \in Int
    OBVIOUS
  <2> QED BY <2>1, FS_Interval
<1>4. PICK X \in F : \A Y \in F : Y \subseteq X => Y = X
  BY <1>2, <1>3, SmallestSet
<1>5. PICK m \in S : X = 0 .. m
  BY <1>1
<1>6. ASSUME NEW n \in S, n < m PROVE FALSE
  <2>1. 0 .. n \in F /\ 0 .. n \subseteq X
    BY <1>1, <1>5, <1>6
  <2>2. 0 .. n = X
    BY <2>1, <1>4
  <2>3. m \in 0 .. n
    BY <2>2, <1>5
  <2> QED BY <2>3, <1>6
<1> QED
  BY <1>6

\* A set of numbers up to some bound has a greatest.
LEMMA GreatestNatural ==
  ASSUME NEW n \in Nat, NEW S \in SUBSET (0 .. n), S # {}
  PROVE  \E m \in S : \A k \in S : k <= m
<1>1. PICK B : B = {b \in Nat : \A k \in S : k <= b}
  OBVIOUS
<1>2. n \in B /\ B \in SUBSET Nat
  BY <1>1
<1>3. PICK b \in B : \A c \in B : b <= c
  BY <1>2, LeastNatural
<1>4. ASSUME b \notin S PROVE FALSE
  <2>1. b \in Nat /\ \A k \in S : k \in Nat /\ k < b
    BY <1>1, <1>4
  <2>2. PICK k \in S : TRUE
    OBVIOUS
  <2>3. b - 1 \in Nat /\ \A l \in S : l <= b - 1
    BY <2>1, <2>2
  <2>4. b - 1 \in B
    BY <1>1, <2>3
  <2> QED BY <1>3, <2>1, <2>4
<1> QED
  BY <1>1, <1>4

\* What Min and Max are of such sets.
LEMMA MinIs ==
  ASSUME NEW S \in SUBSET Nat, S # {}
  PROVE  Min(S) \in S /\ \A k \in S : Min(S) <= k
  BY LeastNatural DEF Min

\* Among bounded numbers there is a largest.
LEMMA MaxIs ==
  ASSUME NEW n \in Nat, NEW S \in SUBSET (0 .. n), S # {}
  PROVE  Max(S) \in S /\ \A k \in S : k <= Max(S)
<1>1. \E m \in S : \A k \in S : m >= k
  BY GreatestNatural
<1> QED
  BY <1>1 DEF Max

\* What holds at 0 and, where it holds before n, holds at the next number, holds up to n.
LEMMA UpTo ==
  ASSUME NEW n \in Nat, NEW S, 0 \in S, \A k \in 0 .. n - 1 : k \in S => k + 1 \in S
  PROVE  \A k \in 0 .. n : k \in S
<1>1. PICK B : B = {k \in 0 .. n : k \notin S}
  OBVIOUS
<1>2. SUFFICES ASSUME B # {} PROVE FALSE
  BY <1>1
<1>3. B \in SUBSET Nat
  BY <1>1
<1>4. PICK b \in B : \A c \in B : b <= c
  BY <1>2, <1>3, LeastNatural
<1>5. b \in 1 .. n /\ b - 1 \in 0 .. n - 1 /\ b - 1 \notin B
  BY <1>1, <1>4
<1> QED
  BY <1>1, <1>5

\* R puts any two members of S in order, and orders what it puts in order.
PutsInOrder(R, S) ==
  /\ \A i, j \in S : i # j => <<i, j>> \in R \/ <<j, i>> \in R
  /\ \A i, j, k \in S : <<i, j>> \in R /\ <<j, k>> \in R => <<i, k>> \in R

\* Some of the first numbers have a last one by any order.
LEMMA GreatestByOrder ==
  ASSUME NEW n \in Nat, NEW S \in SUBSET (1 .. n), S # {}, NEW R, PutsInOrder(R, S)
  PROVE  \E m \in S : \A j \in S \ {m} : <<j, m>> \in R
<1>1. PICK good : good = {k \in 0 .. n : \/ \A i \in S : i > k
                                        \/ \E m \in S : m <= k /\ \A j \in S \ {m} : j <= k => <<j, m>> \in R}
  OBVIOUS
<1>2. 0 \in good
  BY <1>1
<1>3. ASSUME NEW k \in 0 .. n - 1, k \in good PROVE k + 1 \in good
  <2>0. k + 1 \in 0 .. n /\ S \subseteq Nat
    OBVIOUS
  <2>1. CASE k + 1 \notin S
    BY <1>1, <1>3, <2>0, <2>1
  <2>2. CASE k + 1 \in S /\ \A i \in S : i > k
    <3>1. \A j \in S \ {k + 1} : j <= k + 1 => <<j, k + 1>> \in R
      BY <2>0, <2>2
    <3> QED BY <1>1, <2>0, <2>2, <3>1
  <2>3. ASSUME k + 1 \in S, NEW m \in S, m <= k, \A j \in S \ {m} : j <= k => <<j, m>> \in R
        PROVE  k + 1 \in good
    <3>1. CASE <<m, k + 1>> \in R
      <4>1. ASSUME NEW j \in S \ {k + 1}, j <= k + 1 PROVE <<j, k + 1>> \in R
        <5>1. j <= k
          BY <2>0, <4>1
        <5>2. j = m \/ <<j, m>> \in R
          BY <2>3, <5>1
        <5> QED BY <2>3, <3>1, <5>2 DEF PutsInOrder
      <4> QED BY <1>1, <2>0, <2>3, <4>1
    <3>2. CASE <<k + 1, m>> \in R
      <4>1. ASSUME NEW j \in S \ {m}, j <= k + 1 PROVE <<j, m>> \in R
        <5>1. j <= k \/ j = k + 1
          BY <2>0, <4>1
        <5> QED BY <2>3, <3>2, <4>1, <5>1
      <4>2. m <= k + 1
        BY <2>0, <2>3
      <4> QED BY <1>1, <2>0, <4>1, <4>2
    <3>3. m # k + 1
      BY <2>0, <2>3
    <3> QED BY <2>3, <3>1, <3>2, <3>3 DEF PutsInOrder
  <2> QED BY <1>1, <1>3, <2>1, <2>2, <2>3
<1>4. n \in good
  BY <1>2, <1>3, UpTo
<1>5. \A i \in S : i <= n
  OBVIOUS
<1>6. PICK m \in S : \A j \in S \ {m} : j <= n => <<j, m>> \in R
  <2>1. ~(\A i \in S : i > n)
    <3>1. PICK i \in S : TRUE
      OBVIOUS
    <3>2. i \in 1 .. n
      OBVIOUS
    <3> QED BY <3>1, <3>2
  <2> QED BY <1>1, <1>4, <2>1
<1> QED
  BY <1>5, <1>6

\* A function f on D that at the last arguments is base, and elsewhere is made of
\* its value at the argument before; and what makes before lead to a last one.
Solves(f, D, last, base, before, step) ==
  \A d \in D : f[d] = IF d \in last THEN base[d] ELSE step[<<d, f[before[d]]>>]
Descends(rank, m, D, last, before) ==
  /\ \A d \in D : rank[d] \in 0 .. m
  /\ \A d \in D \ last : rank[before[d]] < rank[d]

\* A function may refer to itself at an argument of smaller rank.
LEMMA Recursion ==
  ASSUME NEW D, NEW S, NEW m \in Nat, NEW rank, NEW last,
         NEW base \in [D -> S], NEW before \in [D -> D], NEW step \in [D \X S -> S],
         Descends(rank, m, D, last, before)
  PROVE  \E f \in [D -> S] : Solves(f, D, last, base, before, step)
<1> USE DEF Descends, Solves
<1> DEFINE Low(n) == {d \in D : rank[d] < n}
           SolvesTo(f, n) == \A d \in Low(n) : f[d] = IF d \in last THEN base[d] ELSE step[<<d, f[before[d]]>>]
<1>1. PICK good : good = {n \in Nat : \E f \in [Low(n) -> S] : SolvesTo(f, n)}
  OBVIOUS
<1>2. 0 \in good
  <2>1. Low(0) = {}
    OBVIOUS
  <2>2. [d \in {} |-> base[d]] \in [Low(0) -> S]
    BY <2>1
  <2> QED BY <1>1, <2>1, <2>2
<1>3. ASSUME NEW n \in Nat, n \in good PROVE n + 1 \in good
  <2>1. PICK f \in [Low(n) -> S] : SolvesTo(f, n)
    BY <1>1, <1>3
  <2>2. PICK g : g = [d \in Low(n + 1) |-> IF d \in Low(n) THEN f[d]
                        ELSE IF d \in last THEN base[d] ELSE step[<<d, f[before[d]]>>]]
    OBVIOUS
  <2>3. \A d \in Low(n + 1) \ last : before[d] \in Low(n)
    OBVIOUS
  <2>4. \A d \in Low(n) : d \in Low(n + 1)
    OBVIOUS
  <2>5. ASSUME NEW d \in Low(n + 1) PROVE g[d] \in S
    <3>1. CASE d \in Low(n)
      BY <2>1, <2>2, <3>1
    <3>2. CASE d \notin Low(n) /\ d \in last
      BY <2>2, <3>2
    <3>3. CASE d \notin Low(n) /\ d \notin last
      <4>1. f[before[d]] \in S /\ d \in D
        BY <2>1, <2>3, <3>3
      <4>2. step[<<d, f[before[d]]>>] \in S
        BY <4>1
      <4> QED BY <2>2, <3>3, <4>2
    <3> QED BY <3>1, <3>2, <3>3
  <2>6. g \in [Low(n + 1) -> S]
    BY <2>2, <2>5
  <2>7. ASSUME NEW d \in Low(n + 1)
        PROVE  g[d] = IF d \in last THEN base[d] ELSE step[<<d, g[before[d]]>>]
    <3>1. CASE d \in last
      BY <2>1, <2>2, <3>1
    <3>2. CASE d \notin last
      <4>1. before[d] \in Low(n) /\ before[d] \in Low(n + 1)
        BY <2>3, <2>4, <3>2
      <4>2. g[before[d]] = f[before[d]]
        BY <2>2, <4>1
      <4>3. g[d] = step[<<d, f[before[d]]>>]
        BY <2>1, <2>2, <3>2
      <4> QED BY <3>2, <4>2, <4>3
    <3> QED BY <3>1, <3>2
  <2>8. SolvesTo(g, n + 1)
    BY <2>7
  <2> HIDE DEF Low, SolvesTo
  <2> QED BY <1>1, <2>6, <2>8
<1>4. m + 1 \in good
  <2> HIDE DEF Low, SolvesTo
  <2>1. m + 1 \in Nat /\ \A k \in 0 .. (m + 1) - 1 : k \in good => k + 1 \in good
    BY <1>3
  <2>2. \A k \in 0 .. m + 1 : k \in good
    BY <1>2, <2>1, UpTo
  <2> QED BY <2>2
<1>5. Low(m + 1) = D
  OBVIOUS
<1> QED
  BY <1>1, <1>4, <1>5

-----------------------------------------------------------------------------
(* Folds over the first n numbers, from the greatest down *)

\* The numbers up to the next.
LEMMA NextNumbers ==
  ASSUME NEW k \in Nat
  PROVE  /\ 1 .. k + 1 # {} /\ Max(1 .. k + 1) = k + 1
         /\ (1 .. k + 1) \ {k + 1} = 1 .. k
<1>1. 1 .. k + 1 \in SUBSET (0 .. k + 1) /\ k + 1 \in Nat /\ k + 1 \in 1 .. k + 1
  OBVIOUS
<1>2. Max(1 .. k + 1) \in 1 .. k + 1 /\ \A i \in 1 .. k + 1 : i <= Max(1 .. k + 1)
  BY <1>1, MaxIs
<1>3. Max(1 .. k + 1) = k + 1
  BY <1>1, <1>2
<1> QED
  BY <1>1, <1>3

\* The greatest of some of the first numbers is one of them.
LEMMA MaxOfPart ==
  ASSUME NEW n \in Nat, NEW s \in SUBSET (1 .. n), s # {}
  PROVE  Max(s) \in s /\ \A k \in s : k <= Max(s)
<1>1. s \in SUBSET (0 .. n)
  OBVIOUS
<1> QED
  BY <1>1, MaxIs

\* A fold over the first n numbers, from the least on, is well defined.
IsStep(step, n, S) == step \in [(1 .. n) \X S -> S]
Folds(f, n, base, step) ==
  \A s \in SUBSET (1 .. n) : f[s] = IF s = {} THEN base ELSE step[<<Max(s), f[s \ {Max(s)}]>>]

\* There is such a fold, and its results are in the set its step stays in.
LEMMA FoldExists ==
  ASSUME NEW n \in Nat, NEW S, NEW base \in S, NEW step, IsStep(step, n, S)
  PROVE  \E f \in [SUBSET (1 .. n) -> S] : Folds(f, n, base, step)
<1> USE DEF IsStep
<1>0. PICK D : D = SUBSET (1 .. n)
  OBVIOUS
<1>1. ASSUME NEW s \in D
      PROVE  /\ IsFiniteSet(s) /\ Cardinality(s) \in 0 .. n
             /\ s # {} => Max(s) \in s /\ Cardinality(s \ {Max(s)}) < Cardinality(s)
  <2>1. IsFiniteSet(1 .. n) /\ Cardinality(1 .. n) = n
    <3>1. 1 \in Int /\ n \in Int
      OBVIOUS
    <3> QED BY <3>1, FS_Interval
  <2>2. IsFiniteSet(s) /\ Cardinality(s) <= n
    <3>1. PICK I : I = 1 .. n
      OBVIOUS
    <3>2. s \in SUBSET I /\ IsFiniteSet(I) /\ Cardinality(I) = n
      BY <1>0, <2>1, <3>1
    <3>3. IsFiniteSet(s) /\ Cardinality(s) <= Cardinality(I)
      BY <3>2, FS_Subset
    <3> QED BY <3>2, <3>3
  <2>3. Cardinality(s) \in Nat
    BY <2>2, FS_CardinalityType
  <2>4. ASSUME s # {} PROVE Max(s) \in s
    <3>1. s \in SUBSET (0 .. n)
      BY <1>0
    <3> QED BY <2>4, <3>1, MaxIs
  <2>5. ASSUME s # {} PROVE Cardinality(s \ {Max(s)}) < Cardinality(s)
    <3>1. Cardinality(s \ {Max(s)}) = Cardinality(s) - 1
      BY <2>2, <2>4, <2>5, FS_RemoveElement
    <3> QED BY <2>3, <3>1
  <2> QED BY <2>2, <2>3, <2>4, <2>5
<1>2. PICK rank : rank = [s \in D |-> Cardinality(s)]
  OBVIOUS
<1>3. PICK before : before = [s \in D |-> s \ {Max(s)}]
  OBVIOUS
<1>4. PICK first : first = [s \in D |-> base]
  OBVIOUS
<1>5. PICK next : next = [d \in D \X S |-> IF d[1] = {} THEN base ELSE step[<<Max(d[1]), d[2]>>]]
  OBVIOUS
<1>6. \A s \in D : rank[s] \in 0 .. n
  BY <1>1, <1>2
<1>7. before \in [D -> D]
  BY <1>0, <1>3
<1>8. first \in [D -> S]
  BY <1>4
<1>9. next \in [D \X S -> S]
  <2>1. ASSUME NEW s \in D, NEW v \in S PROVE next[<<s, v>>] \in S
    <3>1. CASE s = {}
      BY <1>5, <3>1
    <3>2. CASE s # {}
      <4>1. Max(s) \in 1 .. n
        BY <1>0, <1>1, <3>2
      <4> QED BY <1>5, <3>2, <4>1
    <3> QED BY <3>1, <3>2
  <2> QED BY <1>5, <2>1
<1>10. PICK last : last = {{}}
  OBVIOUS
<1>11. Descends(rank, n, D, last, before)
  BY <1>1, <1>2, <1>3, <1>6, <1>7, <1>10 DEF Descends
<1>12. PICK f \in [D -> S] : Solves(f, D, last, first, before, next)
  BY <1>7, <1>8, <1>9, <1>11, Recursion
<1>13. ASSUME NEW s \in D
       PROVE  f[s] = IF s = {} THEN base ELSE step[<<Max(s), f[s \ {Max(s)}]>>]
  <2>1. CASE s = {}
    BY <1>4, <1>10, <1>12, <2>1 DEF Solves
  <2>2. CASE s # {}
    <3>1. f[s] = next[<<s, f[before[s]]>>] /\ f[before[s]] \in S /\ before[s] = s \ {Max(s)}
      BY <1>3, <1>7, <1>10, <1>12, <2>2 DEF Solves
    <3> QED BY <1>5, <2>2, <3>1
  <2> QED BY <2>1, <2>2
<1> QED
  BY <1>0, <1>12, <1>13 DEF Folds

\* A function that folds as long as what it comes to is in S; and what such a fold goes
\* through, number by number.
Unfolds(f, n, S, base, step) ==
  /\ f[{}] = base
  /\ \A s \in SUBSET (1 .. n) : s # {} /\ f[s \ {Max(s)}] \in S =>
       f[s] = step[<<Max(s), f[s \ {Max(s)}]>>]
Goes(h, f, n, base, step) ==
  /\ h[0] = base
  /\ \A k \in 0 .. n - 1 : h[k + 1] = step[<<k + 1, h[k]>>]
  /\ h[n] = f[1 .. n]

\* A fold goes through its numbers one after the other.
LEMMA FoldRuns ==
  ASSUME NEW n \in Nat, NEW S, NEW base \in S, NEW step, IsStep(step, n, S),
         NEW f, Unfolds(f, n, S, base, step)
  PROVE  \E h \in [0 .. n -> S] : Goes(h, f, n, base, step)
<1>1. PICK h : h = [k \in 0 .. n |-> f[1 .. k]]
  OBVIOUS
<1>2. \A k \in 0 .. n - 1 : h[k] \in S => h[k + 1] = step[<<k + 1, h[k]>>] /\ h[k + 1] \in S
  <2> SUFFICES ASSUME NEW k \in 0 .. n - 1, h[k] \in S
               PROVE  h[k + 1] = step[<<k + 1, h[k]>>] /\ h[k + 1] \in S
    OBVIOUS
  <2>1. k \in Nat /\ k + 1 \in 1 .. n /\ k + 1 \in 0 .. n /\ k \in 0 .. n /\ 1 .. k + 1 \in SUBSET (1 .. n)
    OBVIOUS
  <2>2. 1 .. k + 1 # {} /\ Max(1 .. k + 1) = k + 1 /\ (1 .. k + 1) \ {k + 1} = 1 .. k
    BY <2>1, NextNumbers
  <2>3. f[1 .. k + 1] = step[<<k + 1, f[1 .. k]>>]
    BY <1>1, <2>1, <2>2 DEF Unfolds
  <2> QED BY <1>1, <2>1, <2>3 DEF IsStep
<1>3. h[0] = base
  BY <1>1 DEF Unfolds
<1>4. \A k \in 0 .. n : h[k] \in S
  <2>0. \A k \in 0 .. n - 1 : h[k] \in S => h[k + 1] \in S
    BY <1>2
  <2>1. PICK good : good = {k \in 0 .. n : h[k] \in S}
    OBVIOUS
  <2>2. 0 \in good
    BY <1>3, <2>1
  <2>3. ASSUME NEW k \in 0 .. n - 1, k \in good PROVE k + 1 \in good
    <3>1. h[k] \in S
      BY <2>1, <2>3
    <3>2. h[k + 1] \in S
      BY <2>0, <3>1
    <3>3. k + 1 \in 0 .. n
      OBVIOUS
    <3> QED BY <2>1, <3>2, <3>3
  <2> QED BY <2>1, <2>2, <2>3, UpTo
<1>5. h \in [0 .. n -> S]
  BY <1>1, <1>4
<1>6. Goes(h, f, n, base, step)
  BY <1>1, <1>2, <1>3, <1>4 DEF Goes
<1> QED
  BY <1>5, <1>6

-----------------------------------------------------------------------------
(* Lists in order (Ordering.tla) *)

\* Nothing twice.
Distinct(rows) == \A i, j \in DOMAIN rows : i # j => rows[i] # rows[j]

\* R puts S in order: of any two different members one comes before the other, none
\* before itself, and what comes before what comes before comes before.
Sorts(R, S) == PutsInOrder(R, S) /\ \A i \in S : <<i, i>> \notin R
Earlier(S, R, i) == {j \in S : <<j, i>> \in R}

\* Each of finitely many things in order has a place of its own.
LEMMA PlacesAre ==
  ASSUME NEW S, IsFiniteSet(S), NEW R, Sorts(R, S)
  PROVE  /\ \A n \in 1 .. Cardinality(S) : \E i \in S : Cardinality(Earlier(S, R, i)) = n - 1
         /\ \A i \in S : Cardinality(Earlier(S, R, i)) + 1 \in 1 .. Cardinality(S)
         /\ \A i, j \in S : <<i, j>> \in R =>
              Cardinality(Earlier(S, R, i)) < Cardinality(Earlier(S, R, j))
         /\ \A i, j \in S : Cardinality(Earlier(S, R, i)) = Cardinality(Earlier(S, R, j)) => i = j
<1>1. PICK m \in Nat : m = Cardinality(S)
  BY FS_CardinalityType
<1>2. PICK rank : rank = [i \in S |-> Cardinality(Earlier(S, R, i)) + 1]
  OBVIOUS
<1>3. ASSUME NEW i \in S
      PROVE  /\ IsFiniteSet(Earlier(S, R, i)) /\ Cardinality(Earlier(S, R, i)) \in Nat
             /\ Cardinality(Earlier(S, R, i)) < m
  <2>1. PICK E : E = Earlier(S, R, i)
    OBVIOUS
  <2>0. E \in SUBSET S /\ i \notin E
    BY <2>1 DEF Earlier, Sorts
  <2>2. IsFiniteSet(E) /\ Cardinality(E) <= m /\ (m = Cardinality(E) => S = E) /\ Cardinality(E) \in Nat
    BY <1>1, <2>0, FS_Subset, FS_CardinalityType
  <2>3. Cardinality(E) # m
    BY <2>0, <2>2
  <2> QED BY <2>1, <2>2, <2>3
<1>4. ASSUME NEW i \in S, NEW j \in S, <<i, j>> \in R
      PROVE  Cardinality(Earlier(S, R, i)) < Cardinality(Earlier(S, R, j))
  <2>1. PICK E \in SUBSET S, F \in SUBSET S : E = Earlier(S, R, i) /\ F = Earlier(S, R, j)
    BY DEF Earlier
  <2>2. E \in SUBSET F /\ i \in F /\ i \notin E
    BY <1>4, <2>1 DEF Earlier, Sorts, PutsInOrder
  <2>3. IsFiniteSet(F) /\ Cardinality(F) \in Nat /\ Cardinality(E) \in Nat
    BY <1>3, <2>1
  <2>4. Cardinality(E) <= Cardinality(F) /\ (Cardinality(F) = Cardinality(E) => F = E)
    BY <2>2, <2>3, FS_Subset
  <2>5. Cardinality(F) # Cardinality(E)
    BY <2>2, <2>4
  <2> QED BY <2>1, <2>3, <2>4, <2>5
<1>5. ASSUME NEW i \in S, NEW j \in S, Cardinality(Earlier(S, R, i)) = Cardinality(Earlier(S, R, j)) PROVE i = j
  <2>1. i # j => <<i, j>> \in R \/ <<j, i>> \in R
    BY DEF Sorts, PutsInOrder
  <2>2. <<i, j>> \notin R /\ <<j, i>> \notin R
    BY <1>3, <1>4, <1>5
  <2> QED BY <2>1, <2>2
<1>6. rank \in Injection(S, 1 .. m)
  <2>1. ASSUME NEW i \in S PROVE rank[i] \in 1 .. m
    BY <1>2, <1>3, <1>1
  <2>2. ASSUME NEW i \in S, NEW j \in S, rank[i] = rank[j] PROVE i = j
    <3>1. PICK x \in Nat, y \in Nat : x = Cardinality(Earlier(S, R, i)) /\ y = Cardinality(Earlier(S, R, j))
      BY <1>3
    <3>2. x + 1 = y + 1
      BY <1>2, <2>2, <3>1
    <3>3. x = y
      BY <3>2
    <3> QED BY <1>5, <3>1, <3>3
  <2>3. rank \in [S -> 1 .. m]
    BY <1>2, <2>1
  <2> QED BY <2>2, <2>3 DEF Injection, IsInjective
<1>7. IsFiniteSet(1 .. m) /\ Cardinality(1 .. m) = m
  <2>1. 1 \in Int /\ m \in Int
    OBVIOUS
  <2> QED BY <2>1, FS_Interval
<1>8. rank \in Surjection(S, 1 .. m)
  BY <1>1, <1>6, <1>7, FS_Injection
<1>9. ASSUME NEW n \in 1 .. m PROVE \E i \in S : Cardinality(Earlier(S, R, i)) = n - 1
  <2>1. PICK i \in S : rank[i] = n
    BY <1>8 DEF Surjection
  <2>2. PICK x \in Nat : x = Cardinality(Earlier(S, R, i))
    BY <1>3
  <2>3. x + 1 = n
    BY <1>2, <2>1, <2>2
  <2> QED BY <2>2, <2>3
<1>10. ASSUME NEW i \in S PROVE Cardinality(Earlier(S, R, i)) + 1 \in 1 .. m
  BY <1>2, <1>6 DEF Injection
<1> QED
  BY <1>1, <1>4, <1>5, <1>9, <1>10

\* All of some things, each once, each at the place next to those that come before it.
Placed(S, R, t) ==
  /\ t \in Seq(S) /\ Len(t) = Cardinality(S) /\ Range(t) = S /\ Distinct(t)
  /\ \A n \in 1 .. Cardinality(S), i \in S : t[n] = i <=> Cardinality(Earlier(S, R, i)) = n - 1

\* What putting things in order does.
LEMMA InOrderIs ==
  ASSUME NEW S, IsFiniteSet(S), NEW R, Sorts(R, S)
  PROVE  Placed(S, R, InOrder(S, R))
<1>1. PICK m \in Nat : m = Cardinality(S)
  BY FS_CardinalityType
<1>2. PICK t : t = InOrder(S, R)
  OBVIOUS
<1>3. t = [n \in 1 .. m |-> CHOOSE i \in S : Cardinality(Earlier(S, R, i)) = n - 1]
  BY <1>1, <1>2 DEF InOrder, Earlier
<1>4. ASSUME NEW n \in 1 .. m PROVE t[n] \in S /\ Cardinality(Earlier(S, R, t[n])) = n - 1
  BY <1>1, <1>3, PlacesAre
<1>5. t \in [1 .. m -> S]
  BY <1>3, <1>4
<1>6. t \in Seq(S) /\ Len(t) = m /\ DOMAIN t = 1 .. m
  BY <1>3, <1>5
<1>7. ASSUME NEW n \in 1 .. m, NEW i \in S
      PROVE  t[n] = i <=> Cardinality(Earlier(S, R, i)) = n - 1
  BY <1>4, <1>7, PlacesAre
<1>8. ASSUME NEW i \in S PROVE \E n \in 1 .. m : t[n] = i
  <2>1. PICK n \in 1 .. m : n = Cardinality(Earlier(S, R, i)) + 1
    BY <1>1, PlacesAre
  <2>2. PICK E \in SUBSET S : E = Earlier(S, R, i)
    BY DEF Earlier
  <2>3. Cardinality(E) \in Nat
    BY FS_Subset, FS_CardinalityType
  <2>4. Cardinality(E) = n - 1
    BY <2>1, <2>2, <2>3
  <2> QED BY <1>7, <2>2, <2>4
<1>9. Range(t) = S
  BY <1>4, <1>6, <1>8 DEF Range
<1>10. Distinct(t)
  <2>1. ASSUME NEW n \in 1 .. m, NEW k \in 1 .. m, t[n] = t[k] PROVE n = k
    <3>1. n - 1 = k - 1
      BY <1>4, <2>1
    <3> QED BY <3>1
  <2> QED BY <1>6, <2>1 DEF Distinct
<1> QED
  BY <1>1, <1>2, <1>6, <1>7, <1>9, <1>10 DEF Placed

\* All of some things, in order.
Rises(t, S, R) ==
  /\ t \in Seq(S) /\ Range(t) = S
  /\ \A a, b \in DOMAIN t : a < b => <<t[a], t[b]>> \in R

\* Things in order are.
LEMMA InOrderRises ==
  ASSUME NEW S, IsFiniteSet(S), NEW R, Sorts(R, S)
  PROVE  Rises(InOrder(S, R), S, R)
<1>1. PICK t : t = InOrder(S, R) /\ Placed(S, R, t)
  BY InOrderIs
<1>2. t \in Seq(S) /\ Range(t) = S /\ Len(t) = Cardinality(S)
  BY <1>1 DEF Placed
<1>3. PICK m \in Nat : m = Cardinality(S) /\ DOMAIN t = 1 .. m /\ \A a \in 1 .. m : t[a] \in S
  BY <1>2
<1>4. ASSUME NEW a \in 1 .. m PROVE Cardinality(Earlier(S, R, t[a])) = a - 1
  <2>1. PICK i : i = t[a]
    OBVIOUS
  <2>2. i \in S
    BY <1>3, <2>1
  <2>3. t[a] = i <=> Cardinality(Earlier(S, R, i)) = a - 1
    BY <1>1, <1>3, <2>2 DEF Placed
  <2> QED BY <2>1, <2>3
<1>5. ASSUME NEW a \in 1 .. m, NEW b \in 1 .. m, a < b PROVE <<t[a], t[b]>> \in R
  <2>1. PICK i \in S : i = t[a]
    BY <1>3
  <2>2. PICK j \in S : j = t[b]
    BY <1>3
  <2>3. Cardinality(Earlier(S, R, i)) = a - 1 /\ Cardinality(Earlier(S, R, j)) = b - 1
    BY <1>4, <2>1, <2>2
  <2>4. i # j
    BY <1>5, <2>3
  <2>5. <<i, j>> \in R \/ <<j, i>> \in R
    BY <2>4 DEF Sorts, PutsInOrder
  <2>6. ASSUME <<j, i>> \in R PROVE FALSE
    <3>1. Cardinality(Earlier(S, R, j)) < Cardinality(Earlier(S, R, i))
      BY <2>6, PlacesAre
    <3> QED BY <1>5, <2>3, <3>1
  <2> QED BY <2>1, <2>2, <2>5, <2>6
<1> QED
  BY <1>1, <1>2, <1>3, <1>5 DEF Rises

\* There is one way to be in order.
LEMMA OrderIsOnly ==
  ASSUME NEW S, IsFiniteSet(S), NEW R, Sorts(R, S), NEW t, Rises(t, S, R)
  PROVE  t = InOrder(S, R)
<1>1. PICK m \in Nat : DOMAIN t = 1 .. m /\ \A a \in 1 .. m : t[a] \in S
  BY DEF Rises
<1>2. ASSUME NEW a \in 1 .. m, NEW b \in 1 .. m, a < b
      PROVE  <<t[a], t[b]>> \in R /\ <<t[b], t[a]>> \notin R /\ t[a] # t[b]
  <2>1. <<t[a], t[b]>> \in R
    BY <1>1, <1>2 DEF Rises
  <2>2. PICK i \in S : i = t[a]
    BY <1>1
  <2>3. PICK j \in S : j = t[b]
    BY <1>1
  <2>4. <<i, i>> \notin R /\ (<<i, j>> \in R /\ <<j, i>> \in R => <<i, i>> \in R)
    BY DEF Sorts, PutsInOrder
  <2> QED BY <2>1, <2>2, <2>3, <2>4
<1>3. ASSUME NEW a \in 1 .. m, NEW b \in 1 .. m, a # b PROVE t[a] # t[b]
  <2>1. CASE a < b BY <1>2, <2>1
  <2>2. CASE b < a BY <1>2, <2>2
  <2> QED BY <1>3, <2>1, <2>2
<1>4. S = {t[a] : a \in 1 .. m}
  BY <1>1 DEF Rises, Range
<1>5. IsFiniteSet(1 .. m) /\ Cardinality(1 .. m) = m
  <2>1. 1 \in Int /\ m \in Int
    OBVIOUS
  <2> QED BY <2>1, FS_Interval
<1>6. ASSUME NEW k \in 0 .. m PROVE Cardinality({t[a] : a \in 1 .. k}) = k
  <2>1. PICK some : some = {t[a] : a \in 1 .. k}
    OBVIOUS
  <2>2. PICK f : f = [a \in 1 .. k |-> t[a]]
    OBVIOUS
  <2>3. \A a \in 1 .. k : a \in 1 .. m
    OBVIOUS
  <2>4. f \in Bijection(1 .. k, some)
    <3>1. f \in [1 .. k -> some]
      BY <2>1, <2>2
    <3>2. \A a, b \in 1 .. k : f[a] = f[b] => a = b
      <4> SUFFICES ASSUME NEW a \in 1 .. k, NEW b \in 1 .. k, a # b PROVE f[a] # f[b]
        OBVIOUS
      <4>1. f[a] = t[a] /\ f[b] = t[b]
        BY <2>2
      <4> QED BY <1>3, <2>3, <4>1
    <3>3. \A x \in some : \E a \in 1 .. k : f[a] = x
      BY <2>1, <2>2
    <3>4. f \in Injection(1 .. k, some)
      BY <3>1, <3>2 DEF Injection, IsInjective
    <3>5. f \in Surjection(1 .. k, some)
      BY <3>1, <3>3 DEF Surjection
    <3> QED BY <3>4, <3>5 DEF Bijection
  <2>5. IsFiniteSet(1 .. k) /\ Cardinality(1 .. k) = k
    <3>1. 1 \in Int /\ k \in Int
      OBVIOUS
    <3> QED BY <3>1, FS_Interval
  <2>6. Cardinality(some) = k
    BY <2>4, <2>5, FS_Bijection DEF ExistsBijection
  <2> QED BY <2>1, <2>6
<1>7. Cardinality(S) = m
  BY <1>4, <1>6
<1>8. ASSUME NEW k \in 1 .. m PROVE Cardinality(Earlier(S, R, t[k])) = k - 1
  <2>1. Earlier(S, R, t[k]) = {t[a] : a \in 1 .. k - 1}
    <3>1. ASSUME NEW a \in 1 .. m, <<t[a], t[k]>> \in R PROVE a \in 1 .. k - 1
      <4>1. a # k
        BY <1>1, <3>1 DEF Sorts
      <4>2. ~(k < a)
        BY <1>2, <3>1
      <4> QED BY <4>1, <4>2
    <3>2. ASSUME NEW a \in 1 .. k - 1 PROVE t[a] \in S /\ <<t[a], t[k]>> \in R
      <4>1. a \in 1 .. m /\ a < k
        OBVIOUS
      <4> QED BY <1>1, <1>2, <4>1
    <3> QED BY <1>4, <3>1, <3>2 DEF Earlier
  <2> QED BY <1>6, <2>1
<1>9. PICK u : u = InOrder(S, R) /\ Placed(S, R, u)
  BY InOrderIs
<1>10. u \in Seq(S) /\ Len(u) = m
  BY <1>7, <1>9 DEF Placed
<1>11. ASSUME NEW k \in 1 .. m PROVE u[k] = t[k]
  <2>1. PICK i \in S : i = t[k]
    BY <1>1
  <2>2. Cardinality(Earlier(S, R, i)) = k - 1
    BY <1>8, <2>1
  <2>3. u[k] = i <=> Cardinality(Earlier(S, R, i)) = k - 1
    BY <1>7, <1>9 DEF Placed
  <2> QED BY <2>1, <2>2, <2>3
<1>12. t \in Seq(S)
  BY DEF Rises
<1> QED
  BY <1>1, <1>9, <1>10, <1>11, <1>12

\* Positions from first to last.
LEMMA UpwardSorts ==
  ASSUME NEW n \in Nat, NEW S \in SUBSET (1 .. n)
  PROVE  IsFiniteSet(S) /\ Sorts(Upward(S), S)
         /\ \A i, j \in S : <<i, j>> \in Upward(S) <=> i < j
<1>1. IsFiniteSet(1 .. n)
  <2>1. 1 \in Int /\ n \in Int
    OBVIOUS
  <2> QED BY <2>1, FS_Interval
<1>2. IsFiniteSet(S)
  BY <1>1, FS_Subset
<1>3. \A i, j \in S : <<i, j>> \in Upward(S) <=> i < j
  BY DEF Upward
<1>4. S \subseteq Nat
  OBVIOUS
<1>5. PICK R : R = Upward(S)
  OBVIOUS
<1>6. Sorts(R, S)
  BY <1>3, <1>4, <1>5 DEF Sorts, PutsInOrder
<1> QED
  BY <1>2, <1>3, <1>5, <1>6

\* Some of some things from first to last are those things from first to last.
LEMMA ThoseOfThose ==
  ASSUME NEW rows, NEW n \in Nat, NEW E \in SUBSET (1 .. n), NEW F \in SUBSET E
  PROVE  Those(Those(rows, E), PlacesOf(InOrder(E, Upward(E)), F)) = Those(rows, F)
<1>1. PICK R : R = Upward(E)
  OBVIOUS
<1>2. /\ IsFiniteSet(E) /\ Sorts(R, E)
      /\ \A i, j \in E : <<i, j>> \in R <=> i < j
  BY <1>1, UpwardSorts
<1>3. PICK t : t = InOrder(E, R) /\ Rises(t, E, R)
  BY <1>2, InOrderRises
<1>4. PICK m \in Nat : DOMAIN t = 1 .. m /\ \A a \in 1 .. m : t[a] \in E
  BY <1>3 DEF Rises
<1>5. PICK M \in SUBSET (1 .. m) : M = PlacesOf(t, F) /\ \A a \in 1 .. m : a \in M <=> t[a] \in F
  <2>1. PICK M : M = {a \in 1 .. m : t[a] \in F}
    OBVIOUS
  <2>2. M \in SUBSET (1 .. m) /\ M = PlacesOf(t, F)
    BY <1>4, <2>1 DEF PlacesOf
  <2> QED BY <2>1, <2>2
<1>6. PICK U : U = Upward(M)
  OBVIOUS
<1>7. /\ IsFiniteSet(M) /\ Sorts(U, M)
      /\ \A i, j \in M : <<i, j>> \in U <=> i < j
  BY <1>5, <1>6, UpwardSorts
<1>8. PICK u : u = InOrder(M, U) /\ Rises(u, M, U)
  BY <1>7, InOrderRises
<1>9. PICK l \in Nat : l = Len(u) /\ DOMAIN u = 1 .. l /\ \A a \in 1 .. l : u[a] \in M
  BY <1>8 DEF Rises
<1>10. PICK v : v = [a \in 1 .. l |-> t[u[a]]]
  OBVIOUS
<1>11. \A a \in 1 .. l : v[a] = t[u[a]] /\ v[a] \in F /\ v[a] \in E /\ u[a] \in 1 .. m
  BY <1>4, <1>5, <1>9, <1>10
<1>12. v \in Seq(F) /\ DOMAIN v = 1 .. l
  BY <1>10, <1>11
<1>13. ASSUME NEW x \in F PROVE \E a \in 1 .. l : v[a] = x
  <2>1. PICK k \in 1 .. m : t[k] = x
    BY <1>3, <1>4 DEF Rises, Range
  <2>2. k \in M
    BY <1>5, <2>1
  <2>3. PICK a \in 1 .. l : u[a] = k
    BY <1>8, <1>9, <2>2 DEF Rises, Range
  <2> QED BY <1>11, <2>1, <2>3
<1>14. Range(v) = F
  BY <1>11, <1>12, <1>13 DEF Range
<1>15. PICK W : W = Upward(F)
  OBVIOUS
<1>16. /\ IsFiniteSet(F) /\ Sorts(W, F)
       /\ \A i, j \in F : <<i, j>> \in W <=> i < j
  <2>1. F \in SUBSET (1 .. n)
    OBVIOUS
  <2> QED BY <1>15, <2>1, UpwardSorts
<1>17. ASSUME NEW a \in 1 .. l, NEW b \in 1 .. l, a < b PROVE <<v[a], v[b]>> \in W
  <2>1. <<u[a], u[b]>> \in U
    BY <1>8, <1>9, <1>17 DEF Rises
  <2>2. u[a] < u[b]
    BY <1>7, <1>9, <2>1
  <2>3. <<t[u[a]], t[u[b]]>> \in R
    BY <1>3, <1>4, <1>11, <2>2 DEF Rises
  <2>4. v[a] < v[b]
    BY <1>2, <1>11, <2>3
  <2> QED BY <1>11, <1>16, <2>4
<1>18. Rises(v, F, W)
  BY <1>12, <1>14, <1>17 DEF Rises
<1>19. v = InOrder(F, W)
  BY <1>16, <1>18, OrderIsOnly
<1>20. Those(rows, E) = [a \in 1 .. m |-> rows[t[a]]]
  BY <1>1, <1>3, <1>4 DEF Those, Picked
<1>21. Those(Those(rows, E), M) = [a \in 1 .. l |-> [b \in 1 .. m |-> rows[t[b]]][u[a]]]
  BY <1>6, <1>8, <1>9, <1>20 DEF Those, Picked
<1>22. Those(rows, F) = [a \in 1 .. l |-> rows[v[a]]]
  BY <1>12, <1>15, <1>19 DEF Those, Picked
<1>23. \A a \in 1 .. l : [b \in 1 .. m |-> rows[t[b]]][u[a]] = rows[v[a]]
  BY <1>11
<1> QED
  BY <1>1, <1>3, <1>5, <1>21, <1>22, <1>23

\* What a list in order has of some things is in the same order.
LEMMA KeptRises ==
  ASSUME NEW S, NEW R, NEW t, Rises(t, S, R), NEW F \in SUBSET S
  PROVE  Rises(Kept(t, F), F, R)
<1>1. PICK m \in Nat : DOMAIN t = 1 .. m /\ \A a \in 1 .. m : t[a] \in S
  BY DEF Rises
<1>2. PICK M \in SUBSET (1 .. m) : M = PlacesOf(t, F) /\ \A a \in 1 .. m : a \in M <=> t[a] \in F
  <2>1. PICK M : M = {a \in 1 .. m : t[a] \in F}
    OBVIOUS
  <2>2. M \in SUBSET (1 .. m) /\ M = PlacesOf(t, F)
    BY <1>1, <2>1 DEF PlacesOf
  <2> QED BY <2>1, <2>2
<1>3. PICK U : U = Upward(M)
  OBVIOUS
<1>4. /\ IsFiniteSet(M) /\ Sorts(U, M)
      /\ \A i, j \in M : <<i, j>> \in U <=> i < j
  BY <1>2, <1>3, UpwardSorts
<1>5. PICK u : u = InOrder(M, U) /\ Rises(u, M, U)
  BY <1>4, InOrderRises
<1>6. PICK l \in Nat : DOMAIN u = 1 .. l /\ \A a \in 1 .. l : u[a] \in M
  BY <1>5 DEF Rises
<1>7. PICK v : v = [a \in 1 .. l |-> t[u[a]]]
  OBVIOUS
<1>8. \A a \in 1 .. l : v[a] = t[u[a]] /\ v[a] \in F /\ u[a] \in 1 .. m
  BY <1>2, <1>6, <1>7
<1>9. Kept(t, F) = v
  BY <1>2, <1>3, <1>5, <1>6, <1>7 DEF Kept, Those, Picked
<1>10. v \in Seq(F) /\ DOMAIN v = 1 .. l
  BY <1>7, <1>8
<1>11. ASSUME NEW x \in F PROVE \E a \in 1 .. l : v[a] = x
  <2>1. PICK k \in 1 .. m : t[k] = x
    BY <1>1 DEF Rises, Range
  <2>2. k \in M
    BY <1>2, <2>1
  <2>3. PICK a \in 1 .. l : u[a] = k
    BY <1>5, <1>6, <2>2 DEF Rises, Range
  <2> QED BY <1>8, <2>1, <2>3
<1>12. Range(v) = F
  BY <1>8, <1>10, <1>11 DEF Range
<1>13. ASSUME NEW a \in 1 .. l, NEW b \in 1 .. l, a < b PROVE <<v[a], v[b]>> \in R
  <2>1. <<u[a], u[b]>> \in U
    BY <1>5, <1>6, <1>13 DEF Rises
  <2>2. u[a] < u[b]
    BY <1>4, <1>6, <2>1
  <2>3. <<t[u[a]], t[u[b]]>> \in R
    BY <1>1, <1>8, <2>2 DEF Rises
  <2> QED BY <1>8, <2>3
<1> QED
  BY <1>9, <1>10, <1>12, <1>13 DEF Rises

\* A list in order starts with what comes before all else, and is empty if nothing does.
LEMMA FirstInOrder ==
  ASSUME NEW S, NEW R, Sorts(R, S), NEW t, Rises(t, S, R)
  PROVE  /\ S = {} => t = <<>>
         /\ S # {} => Len(t) \in Nat \ {0} /\ t[1] \in S
         /\ \A b \in S : (\A j \in S \ {b} : <<b, j>> \in R) => t[1] = b
<1>1. PICK m \in Nat : m = Len(t) /\ DOMAIN t = 1 .. m /\ \A a \in 1 .. m : t[a] \in S
  BY DEF Rises
<1>2. t \in Seq(S) /\ Range(t) = S
  BY DEF Rises
<1>3. ASSUME S = {} PROVE t = <<>>
  <2>1. m = 0
    <3>1. SUFFICES ASSUME m # 0 PROVE FALSE
      OBVIOUS
    <3>2. 1 \in 1 .. m
      BY <3>1
    <3> QED BY <1>1, <1>3, <3>2
  <2> QED BY <1>1, <1>2, <2>1
<1>4. ASSUME NEW b \in S PROVE m # 0 /\ t[1] \in S
  <2>1. PICK n \in 1 .. m : t[n] = b
    BY <1>1, <1>2 DEF Range
  <2>2. 1 \in 1 .. m
    BY <2>1
  <2> QED BY <1>1, <2>1, <2>2
<1>5. ASSUME NEW b \in S, \A j \in S \ {b} : <<b, j>> \in R PROVE t[1] = b
  <2>1. PICK n \in 1 .. m : t[n] = b
    BY <1>1, <1>2 DEF Range
  <2>2. SUFFICES ASSUME t[1] # b PROVE FALSE
    OBVIOUS
  <2>3. n # 1 /\ 1 \in 1 .. m /\ 1 < n
    BY <2>1, <2>2
  <2>4. <<t[1], b>> \in R
    BY <1>1, <2>1, <2>3 DEF Rises
  <2>5. <<b, t[1]>> \in R /\ t[1] \in S
    BY <1>4, <1>5, <2>2
  <2> QED BY <2>4, <2>5 DEF Sorts, PutsInOrder
<1> QED
  BY <1>1, <1>3, <1>4, <1>5

\* Some places, each once, from first to last.
Takes(u, m, places) ==
  /\ \A a \in 1 .. m : u[a] \in places
  /\ \A a, b \in 1 .. m : a < b => u[a] < u[b]
  /\ \A x \in places : \E a \in 1 .. m : u[a] = x

\* Places in order are taken from first to last.
LEMMA TakenInOrder ==
  ASSUME NEW n \in Nat, NEW E \in SUBSET (1 .. n)
  PROVE  \E m \in Nat : \E u \in [1 .. m -> E] : Takes(u, m, E) /\ u = InOrder(E, Upward(E))
<1>1. PICK R : R = Upward(E)
  OBVIOUS
<1>2. /\ IsFiniteSet(E) /\ Sorts(R, E)
      /\ \A i, j \in E : <<i, j>> \in R <=> i < j
  BY <1>1, UpwardSorts
<1>3. PICK t : t = InOrder(E, R) /\ Rises(t, E, R)
  BY <1>2, InOrderRises
<1>4. PICK m \in Nat : DOMAIN t = 1 .. m /\ \A a \in 1 .. m : t[a] \in E
  BY <1>3 DEF Rises
<1>5. t \in [1 .. m -> E] /\ Range(t) = E
  BY <1>3, <1>4 DEF Rises
<1>6. \A a, b \in 1 .. m : a < b => t[a] < t[b]
  BY <1>2, <1>3, <1>4 DEF Rises
<1>7. \A x \in E : \E a \in 1 .. m : t[a] = x
  BY <1>4, <1>5 DEF Range
<1>8. Takes(t, m, E)
  BY <1>4, <1>6, <1>7 DEF Takes
<1> QED
  BY <1>1, <1>3, <1>5, <1>8

\* There is one way to.
LEMMA TakenOnly ==
  ASSUME NEW n \in Nat, NEW E \in SUBSET (1 .. n), NEW m \in Nat, NEW u \in [1 .. m -> E], Takes(u, m, E)
  PROVE  u = InOrder(E, Upward(E))
<1>1. PICK R : R = Upward(E)
  OBVIOUS
<1>2. /\ IsFiniteSet(E) /\ Sorts(R, E)
      /\ \A i, j \in E : <<i, j>> \in R <=> i < j
  BY <1>1, UpwardSorts
<1>3. u \in Seq(E) /\ DOMAIN u = 1 .. m
  OBVIOUS
<1>4. Range(u) = E
  BY <1>3 DEF Takes, Range
<1>5. \A a, b \in 1 .. m : a < b => <<u[a], u[b]>> \in R
  BY <1>2 DEF Takes
<1>6. Rises(u, E, R)
  BY <1>3, <1>4, <1>5 DEF Rises
<1> QED
  BY <1>1, <1>2, <1>6, OrderIsOnly

\* What a list has of some things, place by place.
LEMMA KeptIs ==
  ASSUME NEW S, NEW list \in Seq(S), NEW P
  PROVE  \E m \in Nat : \E u \in [1 .. m -> PlacesOf(list, P)] :
           Takes(u, m, PlacesOf(list, P)) /\ Kept(list, P) = [a \in 1 .. m |-> list[u[a]]]
<1>1. PICK n \in Nat : n = Len(list) /\ DOMAIN list = 1 .. n
  OBVIOUS
<1>2. PICK E : E = PlacesOf(list, P)
  OBVIOUS
<1>3. E \in SUBSET (1 .. n)
  BY <1>1, <1>2 DEF PlacesOf
<1>4. PICK m \in Nat : \E u \in [1 .. m -> E] : Takes(u, m, E) /\ u = InOrder(E, Upward(E))
  BY <1>3, TakenInOrder
<1>4u. PICK u \in [1 .. m -> E] : Takes(u, m, E) /\ u = InOrder(E, Upward(E))
  BY <1>4
<1>5. Kept(list, P) = [a \in DOMAIN u |-> list[u[a]]]
  BY <1>2, <1>4u DEF Kept, Those, Picked
<1>6. DOMAIN u = 1 .. m
  OBVIOUS
<1> QED
  BY <1>2, <1>4u, <1>5, <1>6

\* What is at these places of a list.
Picks(kept, list, u, m) == kept = [a \in 1 .. m |-> list[u[a]]]

\* If these are the places of some things, those are the things.
LEMMA KeptOnly ==
  ASSUME NEW n \in Nat, NEW list, DOMAIN list = 1 .. n, NEW P, NEW E, E = PlacesOf(list, P),
         NEW m \in Nat, NEW u \in [1 .. m -> E], Takes(u, m, E),
         NEW kept, Picks(kept, list, u, m)
  PROVE  Kept(list, P) = kept
<1>1. E \in SUBSET (1 .. n)
  BY DEF PlacesOf
<1>2. u = InOrder(E, Upward(E))
  BY <1>1, TakenOnly
<1> QED
  BY <1>2 DEF Kept, Those, Picked, Picks

\* A list has none of some things if no place of it has one.
LEMMA KeptNone ==
  ASSUME NEW S, NEW list \in Seq(S), NEW P, \A k \in 1 .. Len(list) : list[k] \notin P
  PROVE  Kept(list, P) = <<>>
<1>1. PlacesOf(list, P) = {}
  BY DEF PlacesOf
<1>2. PICK E : E = PlacesOf(list, P)
  OBVIOUS
<1>3. PICK m \in Nat : \E u \in [1 .. m -> E] : Takes(u, m, E) /\ Kept(list, P) = [a \in 1 .. m |-> list[u[a]]]
  BY <1>2, KeptIs
<1>3u. PICK u \in [1 .. m -> E] : Takes(u, m, E) /\ Kept(list, P) = [a \in 1 .. m |-> list[u[a]]]
  BY <1>3
<1>4. m = 0
  <2>1. SUFFICES ASSUME m # 0 PROVE FALSE
    OBVIOUS
  <2>2. 1 \in 1 .. m
    BY <2>1
  <2> QED BY <1>1, <1>2, <1>3u, <2>2 DEF Takes
<1> QED
  BY <1>3u, <1>4

\* A list of one of them is kept as it is.
LEMMA KeptOne ==
  ASSUME NEW P, NEW x \in P
  PROVE  Kept(<<x>>, P) = <<x>>
<1>1. PICK S : S = {x}
  OBVIOUS
<1>2. PICK list \in Seq(S) : list = <<x>> /\ DOMAIN list = 1 .. 1 /\ list[1] = x
  <2>1. <<x>> \in Seq(S) /\ DOMAIN <<x>> = 1 .. 1
    BY <1>1
  <2> QED BY <2>1
<1>3. PICK E : E = PlacesOf(list, P) /\ E = {1}
  BY <1>2 DEF PlacesOf
<1>4. PICK u : u = [a \in 1 .. 1 |-> a]
  OBVIOUS
<1>5. u \in [1 .. 1 -> E] /\ Takes(u, 1, E)
  <2>1. u \in [1 .. 1 -> E] /\ u[1] = 1
    BY <1>3, <1>4
  <2> QED BY <1>3, <2>1 DEF Takes
<1>6. PICK kept : kept = [a \in 1 .. 1 |-> list[u[a]]]
  OBVIOUS
<1>9. Kept(list, P) = kept
  <2>1. PICK n \in Nat : n = 1
    OBVIOUS
  <2>2. DOMAIN list = 1 .. n /\ u \in [1 .. n -> E] /\ Takes(u, n, E) /\ Picks(kept, list, u, n)
    BY <1>2, <1>5, <1>6, <2>1 DEF Picks
  <2> QED BY <1>3, <2>2, KeptOnly
<1>7. list[u[1]] = x
  BY <1>2, <1>4
<1>8. [a \in 1 .. 1 |-> list[u[a]]] = <<x>>
  BY <1>7
<1> QED
  BY <1>2, <1>6, <1>8, <1>9

\* What two lists, one after the other, have of some things, each of them has.
LEMMA KeptOfTwo ==
  ASSUME NEW S, NEW l \in Seq(S), NEW k \in Seq(S), NEW P
  PROVE  Kept(l \o k, P) = Kept(l, P) \o Kept(k, P)
<1>1. PICK a \in Nat, b \in Nat : a = Len(l) /\ b = Len(k)
  OBVIOUS
<1>2. PICK all : all = l \o k
  OBVIOUS
<1>3. /\ all \in Seq(S) /\ Len(all) = a + b /\ DOMAIN all = 1 .. a + b /\ DOMAIN l = 1 .. a /\ DOMAIN k = 1 .. b
      /\ \A i \in 1 .. a : all[i] = l[i]
      /\ \A i \in 1 .. b : all[a + i] = k[i]
  BY <1>1, <1>2
<1>4. PICK E : E = PlacesOf(all, P)
  OBVIOUS
<1>5. PICK F : F = PlacesOf(l, P)
  OBVIOUS
<1>6. PICK G : G = PlacesOf(k, P)
  OBVIOUS
<1>7. /\ F \in SUBSET (1 .. a) /\ G \in SUBSET (1 .. b)
      /\ \A i \in 1 .. a : i \in E <=> i \in F
      /\ \A i \in 1 .. b : a + i \in E <=> i \in G
      /\ \A i \in E : i \in 1 .. a \/ \E j \in 1 .. b : i = a + j
  <2>1. \A i \in E : i \in 1 .. a \/ (i - a \in 1 .. b /\ i = a + (i - a))
    BY <1>3, <1>4 DEF PlacesOf
  <2> QED BY <1>3, <1>4, <1>5, <1>6, <2>1 DEF PlacesOf
<1>8. PICK m \in Nat : \E u \in [1 .. m -> F] : Takes(u, m, F) /\ Kept(l, P) = [i \in 1 .. m |-> l[u[i]]]
  BY <1>5, KeptIs
<1>8u. PICK u \in [1 .. m -> F] : Takes(u, m, F) /\ Kept(l, P) = [i \in 1 .. m |-> l[u[i]]]
  BY <1>8
<1>9. PICK n \in Nat : \E v \in [1 .. n -> G] : Takes(v, n, G) /\ Kept(k, P) = [i \in 1 .. n |-> k[v[i]]]
  BY <1>6, KeptIs
<1>9u. PICK v \in [1 .. n -> G] : Takes(v, n, G) /\ Kept(k, P) = [i \in 1 .. n |-> k[v[i]]]
  BY <1>9
<1>10. PICK w : w = [i \in 1 .. m + n |-> IF i <= m THEN u[i] ELSE a + v[i - m]]
  OBVIOUS
<1>11. ASSUME NEW i \in 1 .. m PROVE w[i] = u[i] /\ u[i] \in F /\ u[i] \in 1 .. a /\ w[i] \in E
  <2>1. w[i] = u[i] /\ u[i] \in F
    BY <1>10
  <2> QED BY <1>7, <2>1
<1>12. ASSUME NEW i \in 1 .. n PROVE w[m + i] = a + v[i] /\ v[i] \in G /\ v[i] \in 1 .. b /\ w[m + i] \in E
  <2>1. m + i \in 1 .. m + n /\ ~(m + i <= m) /\ (m + i) - m = i
    OBVIOUS
  <2>2. w[m + i] = a + v[i] /\ v[i] \in G
    BY <1>10, <2>1
  <2> QED BY <1>7, <2>2
<1>13. ASSUME NEW i \in 1 .. m + n PROVE i \in 1 .. m \/ (i - m \in 1 .. n /\ i = m + (i - m))
  OBVIOUS
<1>14. w \in [1 .. m + n -> E]
  <2>1. ASSUME NEW i \in 1 .. m + n PROVE w[i] \in E
    <3>1. CASE i \in 1 .. m
      BY <1>11, <3>1
    <3>2. CASE i \notin 1 .. m
      <4>1. PICK j \in 1 .. n : i = m + j
        BY <1>13, <3>2
      <4> QED BY <1>12, <4>1
    <3> QED BY <3>1, <3>2
  <2> QED BY <1>10, <2>1
<1>15. ASSUME NEW i \in 1 .. m + n, NEW j \in 1 .. m + n, i < j PROVE w[i] < w[j]
  <2>1. CASE j \in 1 .. m
    <3>1. i \in 1 .. m
      BY <1>15, <2>1
    <3> QED BY <1>8u, <1>11, <1>15, <2>1, <3>1 DEF Takes
  <2>2. CASE i \in 1 .. m /\ j \notin 1 .. m
    <3>1. PICK q \in 1 .. n : j = m + q
      BY <1>13, <2>2
    <3>2. w[i] \in 1 .. a /\ w[j] = a + v[q] /\ v[q] \in 1 .. b
      BY <1>11, <1>12, <2>2, <3>1
    <3> QED BY <3>2
  <2>3. CASE i \notin 1 .. m
    <3>1. PICK p \in 1 .. n : i = m + p
      BY <1>13, <2>3
    <3>2. j \notin 1 .. m
      BY <1>15, <2>3
    <3>3. PICK q \in 1 .. n : j = m + q
      BY <1>13, <3>2
    <3>4. p < q
      BY <1>15, <3>1, <3>3
    <3>5. v[p] < v[q]
      BY <1>9u, <3>4 DEF Takes
    <3>6. w[i] = a + v[p] /\ w[j] = a + v[q] /\ v[p] \in 1 .. b /\ v[q] \in 1 .. b
      BY <1>12, <3>1, <3>3
    <3> QED BY <3>5, <3>6
  <2> QED BY <2>1, <2>2, <2>3
<1>16. ASSUME NEW x \in E PROVE \E i \in 1 .. m + n : w[i] = x
  <2>1. CASE x \in 1 .. a
    <3>1. x \in F
      BY <1>7, <2>1
    <3>2. PICK i \in 1 .. m : u[i] = x
      BY <1>8u, <3>1 DEF Takes
    <3>3. i \in 1 .. m + n
      OBVIOUS
    <3> QED BY <1>11, <3>2, <3>3
  <2>2. CASE x \notin 1 .. a
    <3>1. PICK j \in 1 .. b : x = a + j
      BY <1>7, <2>2
    <3>2. j \in G
      BY <1>7, <3>1
    <3>3. PICK i \in 1 .. n : v[i] = j
      BY <1>9u, <3>2 DEF Takes
    <3>4. m + i \in 1 .. m + n /\ w[m + i] = x
      BY <1>12, <3>1, <3>3
    <3> QED BY <3>4
  <2> QED BY <2>1, <2>2
<1>17. Takes(w, m + n, E)
  BY <1>14, <1>15, <1>16 DEF Takes
<1>18. Kept(all, P) = [i \in 1 .. m + n |-> all[w[i]]]
  <2>1. PICK z \in Nat : z = a + b /\ DOMAIN all = 1 .. z
    BY <1>3
  <2>2. PICK y \in Nat : y = m + n /\ w \in [1 .. y -> E] /\ Takes(w, y, E)
    BY <1>14, <1>17
  <2>3. PICK kept : kept = [i \in 1 .. y |-> all[w[i]]]
    OBVIOUS
  <2>4. Picks(kept, all, w, y)
    BY <2>3 DEF Picks
  <2>5. Kept(all, P) = kept
    BY <1>4, <2>1, <2>2, <2>4, KeptOnly
  <2> QED BY <2>2, <2>3, <2>5
<1>19. PICK c : c = [i \in 1 .. m |-> l[u[i]]]
  OBVIOUS
<1>20. PICK d : d = [i \in 1 .. n |-> k[v[i]]]
  OBVIOUS
<1>20a. c \in Seq(S) /\ Len(c) = m /\ d \in Seq(S) /\ Len(d) = n
  <2>1. ASSUME NEW i \in 1 .. m PROVE l[u[i]] \in S
    <3>1. PICK x \in 1 .. a : x = u[i]
      BY <1>11
    <3>2. l[x] \in S
      BY <1>1
    <3> QED BY <3>1, <3>2
  <2>2. ASSUME NEW i \in 1 .. n PROVE k[v[i]] \in S
    <3>1. PICK x \in 1 .. b : x = v[i]
      BY <1>12
    <3>2. k[x] \in S
      BY <1>1
    <3> QED BY <3>1, <3>2
  <2>3. c \in [1 .. m -> S] /\ d \in [1 .. n -> S]
    BY <1>19, <1>20, <2>1, <2>2
  <2> QED BY <2>3
<1>21. PICK e : e = [i \in 1 .. m + n |-> all[w[i]]]
  OBVIOUS
<1>22. \A i \in 1 .. m : e[i] = c[i]
  BY <1>3, <1>11, <1>19, <1>21
<1>23. ASSUME NEW i \in 1 .. n PROVE e[m + i] = d[i]
  <2>1. m + i \in 1 .. m + n
    OBVIOUS
  <2>2. e[m + i] = all[w[m + i]]
    BY <1>21, <2>1
  <2>3. all[a + v[i]] = k[v[i]]
    BY <1>3, <1>12
  <2> QED BY <1>12, <1>20, <2>2, <2>3
<1>24. PICK f : f = c \o d
  OBVIOUS
<1>25. /\ f \in Seq(S) /\ Len(f) = m + n
       /\ \A i \in 1 .. m : f[i] = c[i]
       /\ \A i \in 1 .. n : f[m + i] = d[i]
  <2>1. f \in Seq(S) /\ Len(f) = Len(c) + Len(d)
    <3>1. c \in Seq(S) /\ d \in Seq(S)
      BY <1>20a
    <3> QED BY <1>24, <3>1
  <2>2. \A i \in 1 .. Len(c) : f[i] = c[i]
    BY <1>20a, <1>24
  <2>3. \A i \in 1 .. Len(d) : f[Len(c) + i] = d[i]
    BY <1>20a, <1>24
  <2> QED BY <1>20a, <2>1, <2>2, <2>3
<1>26. e = f
  <2>1. ASSUME NEW i \in 1 .. m + n PROVE e[i] = f[i]
    <3>1. CASE i \in 1 .. m
      BY <1>22, <1>25, <3>1
    <3>2. CASE i \notin 1 .. m
      <4>1. PICK j \in 1 .. n : i = m + j
        BY <1>13, <3>2
      <4> QED BY <1>23, <1>25, <4>1
    <3> QED BY <3>1, <3>2
  <2>2. DOMAIN f = 1 .. m + n
    BY <1>25
  <2> QED BY <1>21, <1>25, <2>1, <2>2
<1> QED
  BY <1>2, <1>8u, <1>9u, <1>18, <1>19, <1>20, <1>21, <1>24, <1>26
=============================================================================
