--------------------------- MODULE EndSearchProofs ---------------------------
(***************************************************************************)
(* What the search for the end of an area returns, whatever records are    *)
(* there.  Its recursion is on intervals; the proofs take a shortest       *)
(* interval of which a claim fails, since no induction principle can be    *)
(* instantiated here.                                                      *)
(***************************************************************************)
EXTENDS EndSearch, WellFoundedInduction, TLAPS

Ends(count) == (0 .. count) \X (0 .. count)

(* One turn of the loop, where f is what the later turns return.             *)
Turn(f, there, r) ==
  IF r[1] >= r[2] THEN r[1]
  ELSE IF Middle(r[1], r[2]) \in there THEN f[<<Middle(r[1], r[2]) + 1, r[2]>>]
  ELSE f[<<r[1], Middle(r[1], r[2])>>]

IsSearch(f, there, count) == f = [r \in Ends(count) |-> Turn(f, there, r)]

LEMMA Least ==
  ASSUME NEW S \in SUBSET Nat, S # {}
  PROVE  \E n \in S : \A m \in S : n <= m
<1>1. PICK x \in S : \A y \in S : ~(<<y, x>> \in OpToRel(<, Nat))
  BY WFMin, NatLessThanWellFounded
<1>2. \A y \in S : ~(y < x)
  BY <1>1 DEF OpToRel
<1>3. QED
  BY <1>2

(* What holds of 0 and of each successor holds of every number.              *)
LEMMA Everywhere ==
  ASSUME NEW S \in SUBSET Nat, 0 \in S, \A n \in S : n + 1 \in S
  PROVE  S = Nat
<1> SUFFICES ASSUME Nat \ S # {} PROVE FALSE
  OBVIOUS
<1>1. PICK n \in Nat \ S : \A m \in Nat \ S : n <= m
  <2> DEFINE R == Nat \ S
  <2>1. R \in SUBSET Nat /\ R # {}
    OBVIOUS
  <2> HIDE DEF R
  <2>2. \E n \in R : \A m \in R : n <= m
    BY <2>1, Least
  <2>3. QED
    BY <2>2 DEF R
<1>2. n # 0 /\ n - 1 \in Nat /\ n - 1 \notin Nat \ S
  BY <1>1
<1>3. n \in S
  <2>1. n - 1 \in S /\ (n - 1) + 1 = n
    BY <1>2
  <2>2. QED
    BY <2>1
<1>4. QED
  BY <1>1, <1>3

LEMMA MiddleIn ==
  ASSUME NEW lo \in Nat, NEW hi \in Nat, lo < hi
  PROVE  /\ Middle(lo, hi) \in Nat
         /\ lo <= Middle(lo, hi) /\ Middle(lo, hi) < hi
BY DEF Middle

(* The recursion has a solution.                                             *)
LEMMA SearchExists ==
  ASSUME NEW count \in Nat, NEW there
  PROVE  \E f : IsSearch(f, there, count)
<1> DEFINE D == Ends(count)
           Solves(f, n) ==
             \A r \in D : r[2] <= r[1] + n => f[r] = Turn(f, there, r)
           S == {n \in Nat : \E f \in [D -> 0 .. count] : Solves(f, n)}
<1>1. \A r \in D : r[1] \in 0 .. count /\ r[2] \in 0 .. count
  BY DEF Ends
<1>2. \A lo, hi \in 0 .. count : <<lo, hi>> \in D
  BY DEF Ends
<1>3. \A r \in D : r[1] < r[2] =>
        LET m == Middle(r[1], r[2]) IN
          /\ m \in Nat /\ r[1] <= m /\ m < r[2]
          /\ <<m + 1, r[2]>> \in D /\ <<r[1], m>> \in D
  BY <1>1, <1>2, MiddleIn
<1> HIDE DEF D
<1>4. \A f \in [D -> 0 .. count] : \A r \in D : Turn(f, there, r) \in 0 .. count
  <2> SUFFICES ASSUME NEW f \in [D -> 0 .. count], NEW r \in D
               PROVE  Turn(f, there, r) \in 0 .. count
    OBVIOUS
  <2>1. CASE r[1] >= r[2]
    BY <1>1, <2>1 DEF Turn
  <2>2. CASE ~(r[1] >= r[2])
    <3>1. /\ <<Middle(r[1], r[2]) + 1, r[2]>> \in D
          /\ <<r[1], Middle(r[1], r[2])>> \in D
      <4>1. r[1] \in Nat /\ r[2] \in Nat
        BY <1>1
      <4>2. r[1] < r[2]
        BY <2>2, <4>1
      <4>3. QED
        BY <1>3, <4>2
    <3>2. QED
      BY <2>2, <3>1 DEF Turn
  <2>3. QED
    BY <2>1, <2>2
<1>5. 0 \in S
  <2> DEFINE f == [r \in D |-> r[1]]
  <2>1. f \in [D -> 0 .. count]
    BY <1>1
  <2>2. Solves(f, 0)
    BY <1>1 DEF Turn
  <2>3. QED
    BY <2>1, <2>2
<1>6. ASSUME NEW n \in S PROVE n + 1 \in S
  <2>1. PICK f \in [D -> 0 .. count] : Solves(f, n)
    OBVIOUS
  <2> DEFINE g == [r \in D |-> Turn(f, there, r)]
  <2>2. g \in [D -> 0 .. count]
    BY <1>4
  <2>3. ASSUME NEW r \in D, r[2] <= r[1] + (n + 1)
        PROVE  g[r] = Turn(g, there, r)
    <3> DEFINE m == Middle(r[1], r[2])
    <3>1. g[r] = Turn(f, there, r)
      OBVIOUS
    <3>2. CASE r[1] >= r[2]
      BY <3>1, <3>2 DEF Turn
    <3>3. CASE r[1] < r[2]
      <4>1. /\ m \in Nat /\ r[1] <= m /\ m < r[2]
            /\ <<m + 1, r[2]>> \in D /\ <<r[1], m>> \in D
            /\ r[1] \in Nat /\ r[2] \in Nat /\ n \in Nat
        <5>1. r[1] \in Nat /\ r[2] \in Nat
          BY <1>1
        <5>2. n \in Nat
          OBVIOUS
        <5>3. QED
          BY <1>3, <3>3, <5>1, <5>2
      <4> HIDE DEF m
      <4>2. r[2] <= (m + 1) + n /\ m <= r[1] + n
        BY <2>3, <4>1
      <4>3. f[<<m + 1, r[2]>>] = Turn(f, there, <<m + 1, r[2]>>)
        BY <2>1, <4>1, <4>2
      <4>4. f[<<r[1], m>>] = Turn(f, there, <<r[1], m>>)
        BY <2>1, <4>1, <4>2
      <4>5. /\ g[<<m + 1, r[2]>>] = f[<<m + 1, r[2]>>]
            /\ g[<<r[1], m>>] = f[<<r[1], m>>]
        BY <4>1, <4>3, <4>4
      <4>6. QED
        BY <3>1, <4>5 DEF Turn, m
    <3>4. QED
      BY <1>1, <3>2, <3>3
  <2>4. Solves(g, n + 1)
    BY <2>3
  <2> HIDE DEF g, Solves
  <2>5. QED
    BY <2>2, <2>4
<1>7. count \in S
  <2>1. S \in SUBSET Nat
    OBVIOUS
  <2> HIDE DEF S
  <2>2. S = Nat
    BY <1>5, <1>6, <2>1, Everywhere
  <2>3. QED
    BY <2>2
<1>8. PICK f \in [D -> 0 .. count] : Solves(f, count)
  BY <1>7
<1>9. \A r \in D : f[r] = Turn(f, there, r)
  BY <1>1, <1>8
<1>10. f = [r \in D |-> Turn(f, there, r)]
  BY <1>9
<1>11. QED
  BY <1>10 DEF IsSearch, D

Solution(f, there, count) == \A r \in Ends(count) : f[r] = Turn(f, there, r)

LEMMA SearchIs ==
  ASSUME NEW count \in Nat, NEW there
  PROVE  \E f : /\ Solution(f, there, count)
                /\ Search(there, count) = f[<<0, count>>]
<1> DEFINE c == CHOOSE f : IsSearch(f, there, count)
<1>1. IsSearch(c, there, count)
  BY SearchExists
<1>2. Search(there, count) = c[<<0, count>>]
  BY DEF Search, IsSearch, Turn, Ends
<1> HIDE DEF c
<1>3. Solution(c, there, count)
  BY <1>1 DEF IsSearch, Solution
<1>4. QED
  BY <1>2, <1>3
-----------------------------------------------------------------------------
(* What one turn of the loop does with an interval.                          *)
Turns(f, there, count) ==
  \A lo, hi \in 0 .. count :
    /\ lo = hi => f[<<lo, hi>>] = lo
    /\ (lo < hi /\ Middle(lo, hi) \in there)
         => f[<<lo, hi>>] = f[<<Middle(lo, hi) + 1, hi>>]
    /\ (lo < hi /\ Middle(lo, hi) \notin there)
         => f[<<lo, hi>>] = f[<<lo, Middle(lo, hi)>>]

LEMMA TurnIs ==
  ASSUME NEW count \in Nat, NEW there, NEW f, Solution(f, there, count)
  PROVE  Turns(f, there, count)
<1> USE DEF Turns
<1> TAKE lo, hi \in 0 .. count
<1>1. <<lo, hi>> \in Ends(count)
  BY DEF Ends
<1>2. f[<<lo, hi>>] = Turn(f, there, <<lo, hi>>)
  BY <1>1 DEF Solution
<1>3. Turn(f, there, <<lo, hi>>) =
        IF lo >= hi THEN lo
        ELSE IF Middle(lo, hi) \in there THEN f[<<Middle(lo, hi) + 1, hi>>]
        ELSE f[<<lo, Middle(lo, hi)>>]
  BY DEF Turn
<1>4. /\ lo = hi => lo >= hi
      /\ lo < hi => ~(lo >= hi)
  OBVIOUS
<1>5. QED
  BY <1>2, <1>3, <1>4, Zenon

(* A property of intervals that holds of an interval when it holds of the    *)
(* shorter ones that the loop goes on with holds of all.                     *)
LEMMA Intervals ==
  ASSUME NEW count \in Nat, NEW P \in SUBSET ((0 .. count) \X (0 .. count)),
         \A lo \in 0 .. count : <<lo, lo>> \in P,
         \A lo, hi \in 0 .. count :
           (/\ lo < hi
            /\ <<Middle(lo, hi) + 1, hi>> \in P
            /\ <<lo, Middle(lo, hi)>> \in P) => <<lo, hi>> \in P
  PROVE  \A lo, hi \in 0 .. count : lo <= hi => <<lo, hi>> \in P
<1> DEFINE Upto(n) == \A lo, hi \in 0 .. count :
                        (lo <= hi /\ hi <= lo + n) => <<lo, hi>> \in P
           S == {n \in Nat : Upto(n)}
<1>1. 0 \in S
  <2>1. \A lo, hi \in 0 .. count : (lo <= hi /\ hi <= lo + 0) => lo = hi
    OBVIOUS
  <2>2. QED
    BY <2>1
<1>2. ASSUME NEW n \in S PROVE n + 1 \in S
  <2>1. n \in Nat /\ Upto(n)
    OBVIOUS
  <2>2. ASSUME NEW lo \in 0 .. count, NEW hi \in 0 .. count,
               lo <= hi, hi <= lo + (n + 1)
        PROVE  <<lo, hi>> \in P
    <3>1. CASE lo = hi
      BY <3>1
    <3>2. CASE lo < hi
      <4> DEFINE m == Middle(lo, hi)
      <4>1. m \in Nat /\ lo <= m /\ m < hi
        BY <3>2, MiddleIn
      <4> HIDE DEF m
      <4>2. /\ m \in 0 .. count /\ m + 1 \in 0 .. count
            /\ m + 1 <= hi /\ hi <= (m + 1) + n /\ m <= lo + n
        BY <2>1, <2>2, <4>1
      <4>3. <<m + 1, hi>> \in P /\ <<lo, m>> \in P
        BY <2>1, <4>1, <4>2
      <4>4. QED
        BY <3>2, <4>3 DEF m
    <3>3. lo = hi \/ lo < hi
      <4> HIDE DEF S
      <4>1. QED
        BY <2>2
    <3>4. QED
      BY <3>1, <3>2, <3>3
  <2>3. Upto(n + 1)
    BY <2>2
  <2> HIDE DEF Upto
  <2>4. QED
    BY <2>1, <2>3
<1>3. count \in S
  <2>1. S \in SUBSET Nat
    OBVIOUS
  <2> HIDE DEF S
  <2>2. S = Nat
    BY <1>1, <1>2, <2>1, Everywhere
  <2>3. QED
    BY <2>2
<1>4. Upto(count)
  BY <1>3
<1>5. \A lo, hi \in 0 .. count : hi <= lo + count
  OBVIOUS
<1>6. QED
  BY <1>4, <1>5

(* The end lies in the interval, what comes right before it is there, and    *)
(* what is at the end is not.                                                *)
LEMMA SearchIn ==
  ASSUME NEW count \in Nat, NEW there, NEW f,
         Solution(f, there, count)
  PROVE  \A lo, hi \in 0 .. count : lo <= hi =>
           LET e == f[<<lo, hi>>] IN
             /\ e \in Nat /\ lo <= e /\ e <= hi
             /\ e < hi => e \notin there
             /\ e > lo => e - 1 \in there
<1> DEFINE Ok(lo, hi) == LET e == f[<<lo, hi>>] IN
                           /\ e \in Nat /\ lo <= e /\ e <= hi
                           /\ e < hi => e \notin there
                           /\ e > lo => e - 1 \in there
           P == {r \in (0 .. count) \X (0 .. count) : Ok(r[1], r[2])}
<1>0. Turns(f, there, count)
  BY TurnIs
<1>1. ASSUME NEW lo \in 0 .. count PROVE <<lo, lo>> \in P
  <2>1. f[<<lo, lo>>] = lo
    BY <1>0 DEF Turns
  <2>2. QED
    BY <2>1
<1>2. ASSUME NEW lo \in 0 .. count, NEW hi \in 0 .. count, lo < hi,
             <<Middle(lo, hi) + 1, hi>> \in P, <<lo, Middle(lo, hi)>> \in P
      PROVE  <<lo, hi>> \in P
  <2> DEFINE m == Middle(lo, hi)
  <2>1. m \in Nat /\ lo <= m /\ m < hi /\ lo \in Nat /\ hi \in Nat
    BY <1>2, MiddleIn
  <2>2. Ok(m + 1, hi) /\ Ok(lo, m)
    BY <1>2
  <2>3. CASE m \in there
    <3>1. f[<<lo, hi>>] = f[<<m + 1, hi>>]
      BY <1>0, <1>2, <2>3 DEF Turns
    <3>2. Ok(lo, hi)
      <4> DEFINE e == f[<<m + 1, hi>>]
      <4>1. /\ e \in Nat /\ m + 1 <= e /\ e <= hi
            /\ e < hi => e \notin there
            /\ e > m + 1 => e - 1 \in there
        BY <2>2
      <4> HIDE DEF e, m
      <4>2. e = m + 1 => e - 1 = m
        BY <2>1, <4>1
      <4>3. /\ e \in Nat /\ lo <= e /\ e <= hi
            /\ e < hi => e \notin there
            /\ e > lo => e - 1 \in there
        BY <2>1, <2>3, <4>1, <4>2
      <4>4. QED
        BY <3>1, <4>3 DEF e
    <3>3. QED
      BY <3>2
  <2>4. CASE m \notin there
    <3>1. f[<<lo, hi>>] = f[<<lo, m>>]
      BY <1>0, <1>2, <2>4 DEF Turns
    <3>2. Ok(lo, hi)
      <4> DEFINE e == f[<<lo, m>>]
      <4>1. /\ e \in Nat /\ lo <= e /\ e <= m
            /\ e < m => e \notin there
            /\ e > lo => e - 1 \in there
        BY <2>2
      <4> HIDE DEF e, m
      <4>2. e = m \/ e < m
        BY <2>1, <4>1
      <4>3. /\ e \in Nat /\ lo <= e /\ e <= hi
            /\ e < hi => e \notin there
            /\ e > lo => e - 1 \in there
        BY <2>1, <2>4, <4>1, <4>2
      <4>4. QED
        BY <3>1, <4>3 DEF e
    <3>3. QED
      BY <3>2
  <2>5. QED
    BY <2>3, <2>4
<1>3. P \in SUBSET ((0 .. count) \X (0 .. count))
  OBVIOUS
<1> HIDE DEF P
<1>4. \A lo, hi \in 0 .. count : lo <= hi => <<lo, hi>> \in P
  BY <1>1, <1>2, <1>3, Intervals
<1>5. QED
  BY <1>4 DEF P

(* Where a search ends earlier than another one it missed a record that the  *)
(* other one found in between.                                               *)
LEMMA SearchCompare ==
  ASSUME NEW count \in Nat, NEW here, NEW there, NEW f, NEW g,
         Solution(f, here, count),
         Solution(g, there, count)
  PROVE  \A lo, hi \in 0 .. count :
           (lo <= hi /\ f[<<lo, hi>>] < g[<<lo, hi>>]) =>
             \E i \in f[<<lo, hi>>] .. g[<<lo, hi>>] - 1 :
               i \notin here /\ i \in there
<1> DEFINE Ok(lo, hi) == f[<<lo, hi>>] < g[<<lo, hi>>] =>
             \E i \in f[<<lo, hi>>] .. g[<<lo, hi>>] - 1 :
               i \notin here /\ i \in there
           P == {r \in (0 .. count) \X (0 .. count) : Ok(r[1], r[2])}
<1>f. Turns(f, here, count)
  BY TurnIs
<1>g. Turns(g, there, count)
  BY TurnIs
<1>1. ASSUME NEW lo \in 0 .. count PROVE <<lo, lo>> \in P
  <2>1. f[<<lo, lo>>] = lo /\ g[<<lo, lo>>] = lo
    BY <1>f, <1>g DEF Turns
  <2>2. QED
    BY <2>1
<1>2. ASSUME NEW lo \in 0 .. count, NEW hi \in 0 .. count, lo < hi,
             <<Middle(lo, hi) + 1, hi>> \in P, <<lo, Middle(lo, hi)>> \in P
      PROVE  <<lo, hi>> \in P
  <2> DEFINE m == Middle(lo, hi)
  <2>1. m \in Nat /\ lo <= m /\ m < hi /\ lo \in Nat /\ hi \in Nat
        /\ m \in 0 .. count /\ m + 1 \in 0 .. count /\ m + 1 <= hi
    BY <1>2, MiddleIn
  <2>2. Ok(m + 1, hi) /\ Ok(lo, m)
    BY <1>2
  <2>3. /\ m \in here => f[<<lo, hi>>] = f[<<m + 1, hi>>]
        /\ m \notin here => f[<<lo, hi>>] = f[<<lo, m>>]
        /\ m \in there => g[<<lo, hi>>] = g[<<m + 1, hi>>]
        /\ m \notin there => g[<<lo, hi>>] = g[<<lo, m>>]
    BY <1>f, <1>g, <1>2 DEF Turns
  <2>4. /\ f[<<m + 1, hi>>] \in Nat /\ m + 1 <= f[<<m + 1, hi>>]
        /\ g[<<m + 1, hi>>] \in Nat /\ m + 1 <= g[<<m + 1, hi>>]
        /\ f[<<lo, m>>] \in Nat /\ f[<<lo, m>>] <= m
        /\ g[<<lo, m>>] \in Nat /\ g[<<lo, m>>] <= m
    <3> HIDE DEF m
    <3>1. lo \in 0 .. count /\ hi \in 0 .. count
      OBVIOUS
    <3>2. QED
      BY <2>1, <3>1, SearchIn
  <2> HIDE DEF m
  <2>5. Ok(lo, hi)
    <3>1. CASE (m \in here) = (m \in there)
      BY <2>2, <2>3, <3>1
    <3>2. CASE m \in here /\ m \notin there
      BY <2>1, <2>3, <2>4, <3>2
    <3>3. CASE m \notin here /\ m \in there
      <4>1. m \in f[<<lo, hi>>] .. g[<<lo, hi>>] - 1
        BY <2>1, <2>3, <2>4, <3>3
      <4>2. QED
        BY <3>3, <4>1
    <3>4. QED
      BY <3>1, <3>2, <3>3
  <2>6. QED
    BY <2>5
<1>3. P \in SUBSET ((0 .. count) \X (0 .. count))
  OBVIOUS
<1> HIDE DEF P
<1>4. \A lo, hi \in 0 .. count : lo <= hi => <<lo, hi>> \in P
  BY <1>1, <1>2, <1>3, Intervals
<1>5. QED
  BY <1>4 DEF P
-----------------------------------------------------------------------------
(* The end found lies right behind a record that is there and before one     *)
(* that is not.                                                              *)
THEOREM EndBorder ==
  ASSUME NEW count \in Nat \ {0}, NEW there
  PROVE  /\ End(there, count) \in 0 .. count
         /\ End(there, count) < count => End(there, count) \notin there
         /\ End(there, count) > 0 => End(there, count) - 1 \in there
<1>1. PICK f : /\ Solution(f, there, count)
               /\ Search(there, count) = f[<<0, count>>]
  BY SearchIs
<1>2. LET e == Search(there, count) IN
        /\ e \in Nat /\ 0 <= e /\ e <= count
        /\ e < count => e \notin there
        /\ e > 0 => e - 1 \in there
  <2>1. \A lo, hi \in 0 .. count : lo <= hi =>
           LET e == f[<<lo, hi>>] IN
             /\ e \in Nat /\ lo <= e /\ e <= hi
             /\ e < hi => e \notin there
             /\ e > lo => e - 1 \in there
    BY <1>1, SearchIn
  <2>2. 0 \in 0 .. count /\ count \in 0 .. count /\ 0 <= count
    OBVIOUS
  <2>3. QED
    BY <1>1, <2>1, <2>2
<1>3. CASE 0 \notin there
  BY <1>3 DEF End
<1>4. CASE 0 \in there /\ count - 1 \in there
  BY <1>4 DEF End
<1>5. CASE 0 \in there /\ count - 1 \notin there
  <2>1. End(there, count) = Search(there, count)
    BY <1>5 DEF End
  <2>2. QED
    BY <1>2, <2>1
<1>6. QED
  BY <1>3, <1>4, <1>5

(* Of two ends, the earlier one stopped at a record that only the other one  *)
(* has: the search never skips a record that both have.                      *)
LEMMA EndCompare ==
  ASSUME NEW count \in Nat \ {0}, NEW here, NEW there,
         End(here, count) < End(there, count)
  PROVE  \E i \in End(here, count) .. End(there, count) - 1 :
           i \notin here /\ i \in there
<1> DEFINE d == End(here, count)
           e == End(there, count)
<1>1. /\ d \in 0 .. count /\ e \in 0 .. count
      /\ e > 0 => e - 1 \in there
  BY EndBorder
<1>2. e > 0 /\ 0 \in there
  BY <1>1 DEF End
<1>3. CASE 0 \notin here
  <2>1. d = 0
    BY <1>3 DEF End
  <2>2. QED
    BY <1>1, <1>2, <1>3, <2>1
<1>4. CASE 0 \in here /\ count - 1 \in here
  <2>1. d = count
    BY <1>4 DEF End
  <2>2. QED
    BY <1>1, <2>1
<1>5. CASE 0 \in here /\ count - 1 \notin here /\ count - 1 \in there
  <2>1. e = count
    BY <1>2, <1>5 DEF End
  <2>2. count - 1 \in d .. e - 1
    BY <1>1, <2>1
  <2>3. QED
    BY <1>5, <2>2
<1>6. CASE 0 \in here /\ count - 1 \notin here /\ count - 1 \notin there
  <2>1. d = Search(here, count) /\ e = Search(there, count)
    BY <1>2, <1>6 DEF End
  <2>2. PICK f : Solution(f, here, count) /\ Search(here, count) = f[<<0, count>>]
    BY SearchIs
  <2>3. PICK g : Solution(g, there, count) /\ Search(there, count) = g[<<0, count>>]
    BY SearchIs
  <2>4. \A lo, hi \in 0 .. count :
           (lo <= hi /\ f[<<lo, hi>>] < g[<<lo, hi>>]) =>
             \E i \in f[<<lo, hi>>] .. g[<<lo, hi>>] - 1 :
               i \notin here /\ i \in there
    BY <2>2, <2>3, SearchCompare
  <2>5. 0 \in 0 .. count /\ count \in 0 .. count /\ 0 <= count
    OBVIOUS
  <2>6. QED
    BY <2>1, <2>2, <2>3, <2>4, <2>5
<1>7. QED
  BY <1>3, <1>4, <1>5, <1>6
-----------------------------------------------------------------------------
(* The search reaches m: it does not end before m, whatever lies behind.     *)
Reaches(there, count, m) ==
  m \in 0 .. count /\ End(there \intersect (0 .. m - 1), count) = m

LEMMA EndIsReached ==
  ASSUME NEW count \in Nat \ {0}, NEW there
  PROVE  Reaches(there, count, End(there, count))
<1> DEFINE e == End(there, count)
           below == there \intersect (0 .. e - 1)
           d == End(below, count)
<1>1. e \in 0 .. count /\ d \in 0 .. count
  BY EndBorder
<1>2. d < e => \E i \in d .. e - 1 : i \notin below /\ i \in there
  BY EndCompare
<1>3. e < d => \E i \in e .. d - 1 : i \notin there /\ i \in below
  BY EndCompare
<1> HIDE DEF e, d
<1>4. d = e
  BY <1>1, <1>2, <1>3
<1>5. QED
  BY <1>1, <1>4 DEF Reaches, e, d

LEMMA ReachedIsNotPassed ==
  ASSUME NEW count \in Nat \ {0}, NEW there, NEW m, Reaches(there, count, m)
  PROVE  m <= End(there, count)
<1> DEFINE e == End(there, count)
           below == there \intersect (0 .. m - 1)
<1>1. e \in 0 .. count /\ m \in 0 .. count /\ End(below, count) = m
  BY EndBorder DEF Reaches
<1>2. e < m => \E i \in e .. m - 1 : i \notin there /\ i \in below
  <2>1. e < End(below, count) =>
          \E i \in e .. End(below, count) - 1 : i \notin there /\ i \in below
    BY EndCompare
  <2>2. QED
    BY <1>1, <2>1
<1> HIDE DEF e
<1>3. e >= m
  BY <1>1, <1>2
<1>4. QED
  BY <1>1, <1>3 DEF e

(* What is reached stays reached when nothing before it goes away.           *)
LEMMA ReachesMore ==
  ASSUME NEW count \in Nat \ {0}, NEW here, NEW there, NEW m,
         Reaches(here, count, m), here \intersect (0 .. m - 1) \subseteq there
  PROVE  Reaches(there, count, m)
<1> DEFINE old == here \intersect (0 .. m - 1)
           new == there \intersect (0 .. m - 1)
           e == End(new, count)
<1>1. /\ e \in 0 .. count /\ m \in 0 .. count /\ End(old, count) = m
      /\ e > 0 => e - 1 \in new
  BY EndBorder DEF Reaches
<1>2. e < m => \E i \in e .. m - 1 : i \notin new /\ i \in old
  <2>1. e < End(old, count) =>
          \E i \in e .. End(old, count) - 1 : i \notin new /\ i \in old
    BY EndCompare
  <2>2. QED
    BY <1>1, <2>1
<1>3. old \subseteq new
  OBVIOUS
<1> HIDE DEF e, old
<1>4. ~(e < m)
  BY <1>2, <1>3
<1>5. ~(e > m)
  BY <1>1
<1>6. e = m
  BY <1>1, <1>4, <1>5
<1>7. QED
  BY <1>1, <1>6 DEF Reaches, e

(* The record at the end is reached once it is there.                        *)
LEMMA ReachesNext ==
  ASSUME NEW count \in Nat \ {0}, NEW there, NEW m,
         Reaches(there, count, m), m < count, m \in there
  PROVE  Reaches(there, count, m + 1)
<1> DEFINE old == there \intersect (0 .. m - 1)
           new == there \intersect (0 .. m)
           e == End(new, count)
<1>1. /\ e \in 0 .. count /\ m \in 0 .. count /\ End(old, count) = m
      /\ e < count => e \notin new
      /\ e > 0 => e - 1 \in new
  BY EndBorder DEF Reaches
<1>2. e < m => \E i \in e .. m - 1 : i \notin new /\ i \in old
  <2>1. e < End(old, count) =>
          \E i \in e .. End(old, count) - 1 : i \notin new /\ i \in old
    BY EndCompare
  <2>2. QED
    BY <1>1, <2>1
<1>3. old \subseteq new /\ m \in new
  BY <1>1
<1>4. m + 1 \in 0 .. count /\ new = there \intersect (0 .. (m + 1) - 1)
  BY <1>1
<1> HIDE DEF e, old
<1>5. ~(e < m) /\ e # m
  BY <1>1, <1>2, <1>3
<1>6. ~(e > m + 1)
  BY <1>1
<1>7. e = m + 1
  BY <1>1, <1>5, <1>6
<1>8. QED
  BY <1>4, <1>7 DEF Reaches, e
=============================================================================
