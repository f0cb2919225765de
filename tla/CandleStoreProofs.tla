------------------------- MODULE CandleStoreProofs --------------------------
(***************************************************************************)
(* Proofs about CandleStore, for any interval, depth, limits and number of *)
(* back-fills at a time.  find_gaps is exact for any table and range; the  *)
(* series has no holes; and with ranges that do not end in the future      *)
(* (MaxAhead = 0: the scheduler's never do), a back-fill that comes to its *)
(* end is complete, and the store implements CandleTable.                  *)
(*                                                                         *)
(* find_gaps is a recursion over the times in the table.  The provers know *)
(* no induction over data, so ScanExists and ScanReaches argue by a least  *)
(* counterexample: the smallest set of times that the scan gets wrong.     *)
(***************************************************************************)
EXTENDS CandleStore, FiniteSetTheorems, TLAPS

USE StoreAssumption

(* Times on the candles' grid.                                             *)
Grid == {k * Interval : k \in Int}

-----------------------------------------------------------------------------
(* Times                                                                   *)

(* Numbers that there are have a least one.                                *)
LEMMA HasLeast ==
  ASSUME NEW S \in SUBSET Nat, S # {}
  PROVE  \E x \in S : \A y \in S : x <= y
<1>1. IsWellFoundedOn(OpToRel(<, Nat), Nat)
  BY NatLessThanWellFounded
<1>2. PICK x \in S : \A y \in S : <<y, x>> \notin OpToRel(<, Nat)
  BY <1>1, WFMin
<1>3. \A y \in S : ~(y < x)
  BY <1>2 DEF OpToRel
<1> QED
  BY <1>3

(* The latest of times that are bounded.                                   *)
LEMMA LatestExists ==
  ASSUME NEW low \in Int, NEW high \in Int, NEW S \in SUBSET (low..high), S # {}
  PROVE  Max(S) \in S /\ \A y \in S : y <= Max(S)
<1> DEFINE left == {n \in Nat : \E k \in S : n = high - k}
<1>1. left # {}
  <2>1. PICK k \in S : TRUE
    OBVIOUS
  <2>2. high - k \in Nat
    BY <2>1
  <2> QED
    BY <2>2
<1>2. PICK least \in left : \A n \in left : least <= n
  BY <1>1, HasLeast
<1>3. PICK k \in S : least = high - k
  BY <1>2
<1>4. ASSUME NEW y \in S PROVE k >= y
  <2>1. high - y \in left
    OBVIOUS
  <2>2. high - k <= high - y
    BY <1>2, <1>3, <2>1
  <2> QED
    BY <2>2
<1>5. Max(S) \in S /\ \A y \in S : Max(S) >= y
  BY <1>4 DEF Max
<1> QED
  BY <1>5

(* Multiples are ordered as what they are multiples of.                    *)
LEMMA Multiples ==
  ASSUME NEW j \in Int, NEW k \in Int, NEW d \in Nat \ {0}
  PROVE  /\ j * d \in Int
         /\ (j + 1) * d = j * d + d /\ (j - 1) * d = j * d - d
         /\ j < k <=> j * d < k * d
         /\ j * d < k * d => j * d + d <= k * d
<1>1. j < k => j * d + d <= k * d
  OBVIOUS
<1>2. k < j => k * d + d <= j * d
  OBVIOUS
<1> QED
  BY <1>1, <1>2

(* Points of the grid are an interval apart, or more.                      *)
LEMMA GridSteps ==
  /\ \A t \in Grid : t \in Int /\ t + Interval \in Grid /\ t - Interval \in Grid
  /\ \A t, u \in Grid : t < u => t + Interval <= u
  /\ \A k \in Int : k * Interval \in Grid
<1>0. \A k \in Int : k * Interval \in Grid
  BY DEF Grid
<1>1. ASSUME NEW t \in Grid PROVE t \in Int /\ t + Interval \in Grid /\ t - Interval \in Grid
  <2>1. PICK k \in Int : t = k * Interval
    BY DEF Grid
  <2>2. t \in Int /\ (k + 1) * Interval = t + Interval /\ (k - 1) * Interval = t - Interval
    BY <2>1, Multiples
  <2>3. (k + 1) * Interval \in Grid /\ (k - 1) * Interval \in Grid
    <3>1. k + 1 \in Int /\ k - 1 \in Int
      OBVIOUS
    <3> QED
      BY <1>0, <3>1
  <2> QED
    BY <2>2, <2>3
<1>2. ASSUME NEW t \in Grid, NEW u \in Grid, t < u PROVE t + Interval <= u
  <2>1. PICK j \in Int : t = j * Interval
    BY DEF Grid
  <2>2. PICK k \in Int : u = k * Interval
    BY DEF Grid
  <2> QED
    BY <1>2, <2>1, <2>2, Multiples
<1> QED
  BY <1>0, <1>1, <1>2

(* Aligning goes to the grid point at or before a time.                    *)
LEMMA AlignsToGrid ==
  ASSUME NEW t \in Int
  PROVE  AlignToGrid(t) \in Grid /\ AlignToGrid(t) <= t /\ t < AlignToGrid(t) + Interval
<1>1. t = Interval * (t \div Interval) + (t % Interval) /\ t \div Interval \in Int /\ t % Interval \in 0..Interval - 1
  OBVIOUS
<1>2. Interval * (t \div Interval) = (t \div Interval) * Interval
  BY <1>1
<1>3. AlignToGrid(t) = (t \div Interval) * Interval
  <2> DEFINE p == Interval * (t \div Interval)
             q == (t \div Interval) * Interval
  <2>1. p \in Int /\ q \in Int
    BY <1>1
  <2> HIDE DEF p, q
  <2>2. t = p + (t % Interval) /\ p = q
    BY <1>1, <1>2 DEF p, q
  <2>3. t - (t % Interval) = q
    BY <1>1, <2>1, <2>2
  <2> QED
    BY <2>3 DEF AlignToGrid, q
<1>4. AlignToGrid(t) \in Grid
  BY <1>1, <1>3, GridSteps
<1> QED
  BY <1>1, <1>4 DEF AlignToGrid

-----------------------------------------------------------------------------
(* The scan                                                                *)

(* What the scan does with the next time.                                  *)
Passes(acc, t) ==
  [cursor |-> t + Interval,
   gaps |-> IF IsAhead(t, acc.cursor) THEN Append(acc.gaps, Gap(acc.cursor, t - Interval)) ELSE acc.gaps]
ScanBody(f, start, have) ==
  IF have = {} THEN [cursor |-> start, gaps |-> <<>>] ELSE Passes(f[have \ {Max(have)}], Max(have))

(* The scan is a function of the sets of times: if any solves its          *)
(* equation, it does.                                                      *)
LEMMA ScanIsChosen ==
  ASSUME NEW times, NEW start
  PROVE Scan(times, start) = (CHOOSE f : f = [have \in SUBSET times |-> ScanBody(f, start, have)])[times]
  BY DEF Scan, ScanBody, Passes

(* There is such a scan: were there sets of times that it does not reach,  *)
(* one of them would be smallest.                                          *)
LEMMA ScanExists ==
  ASSUME NEW low \in Int, NEW high \in Int, NEW times \in SUBSET (low..high), NEW start
  PROVE  \E f : f = [have \in SUBSET times |-> ScanBody(f, start, have)]
<1> DEFINE UpTo(n) == {have \in SUBSET times : Cardinality(have) <= n}
           Reaches(n) == \E f : f = [have \in UpTo(n) |-> ScanBody(f, start, have)]
           missed == {n \in Nat : ~Reaches(n)}
<1>1. /\ IsFiniteSet(times)
      /\ \A have \in SUBSET times : IsFiniteSet(have) /\ Cardinality(have) \in Nat
                                     /\ Cardinality(have) <= Cardinality(times)
  <2>1. IsFiniteSet(low..high)
    BY FS_Interval
  <2>2. IsFiniteSet(times)
    BY <2>1, FS_Subset
  <2> QED
    BY <2>2, FS_Subset, FS_CardinalityType
<1>2. ASSUME NEW have \in SUBSET times, have # {}
      PROVE  /\ have \ {Max(have)} \in SUBSET times
             /\ Cardinality(have \ {Max(have)}) = Cardinality(have) - 1
  <2>1. Max(have) \in have
    <3>1. have \in SUBSET (low..high)
      OBVIOUS
    <3> QED
      BY <1>2, <3>1, LatestExists
  <2> QED
    BY <1>1, <2>1, FS_RemoveElement
<1>3. Reaches(0)
  <2> DEFINE f == [have \in UpTo(0) |-> [cursor |-> start, gaps |-> <<>>]]
  <2>1. \A have \in UpTo(0) : have = {}
    BY <1>1, FS_EmptySet
  <2>2. \A have \in UpTo(0) : ScanBody(f, start, have) = [cursor |-> start, gaps |-> <<>>]
    BY <2>1 DEF ScanBody
  <2>3. f = [have \in UpTo(0) |-> ScanBody(f, start, have)]
    BY <2>2
  <2> QED
    BY <2>3
<1>4. ASSUME NEW n \in Nat, Reaches(n) PROVE Reaches(n + 1)
  <2>1. PICK f : f = [have \in UpTo(n) |-> ScanBody(f, start, have)]
    BY <1>4
  <2> DEFINE g == [have \in UpTo(n + 1) |-> ScanBody(f, start, have)]
  <2>2. ASSUME NEW have \in UpTo(n + 1), have # {}
        PROVE  g[have \ {Max(have)}] = f[have \ {Max(have)}]
    <3> DEFINE before == have \ {Max(have)}
    <3>1. before \in SUBSET times /\ Cardinality(before) = Cardinality(have) - 1 /\ Cardinality(have) \in Nat
          /\ Cardinality(have) <= n + 1
      BY <1>1, <1>2, <2>2
    <3> HIDE DEF before
    <3>2. before \in UpTo(n) /\ before \in UpTo(n + 1)
      BY <3>1
    <3> HIDE DEF UpTo
    <3>3. g[before] = ScanBody(f, start, before) /\ f[before] = ScanBody(f, start, before)
      BY <2>1, <3>2
    <3> QED
      BY <3>3 DEF before
  <2>3. \A have \in UpTo(n + 1) : ScanBody(g, start, have) = ScanBody(f, start, have)
    <3> HIDE DEF g
    <3> QED
      BY <2>2 DEF ScanBody
  <2>4. g = [have \in UpTo(n + 1) |-> ScanBody(g, start, have)]
    <3> HIDE DEF UpTo
    <3> QED
      BY <2>3
  <2> QED
    BY <2>4
<1>5. \A n \in Nat : Reaches(n)
  <2> HIDE DEF Reaches
  <2> SUFFICES ASSUME missed # {} PROVE FALSE
    OBVIOUS
  <2>1. PICK m \in missed : \A n \in missed : m <= n
    BY HasLeast
  <2>2. m # 0
    BY <1>3
  <2>3. m - 1 \in Nat /\ m - 1 \notin missed
    BY <2>1, <2>2
  <2>4. Reaches(m - 1 + 1) /\ m - 1 + 1 = m
    BY <1>4, <2>3
  <2> QED
    BY <2>1, <2>4
<1>6. UpTo(Cardinality(times)) = SUBSET times /\ Cardinality(times) \in Nat
  BY <1>1
<1>7. Reaches(Cardinality(times))
  <2> HIDE DEF Reaches
  <2> QED
    BY <1>5, <1>6
<1> QED
  BY <1>6, <1>7

(* Gaps that lie on the grid between low and high, in order and apart.     *)
Gaps == [start : Grid, end : Grid]
Apart(gaps) == \A i, j \in 1..Len(gaps) : i < j => gaps[i].end + Interval < gaps[j].start
Between(gaps, low, high) ==
  \A i \in 1..Len(gaps) : low <= gaps[i].start /\ gaps[i].start <= gaps[i].end /\ gaps[i].end <= high
InGap(t, gaps) == \E i \in 1..Len(gaps) : gaps[i].start <= t /\ t <= gaps[i].end

GapsOf(gaps, low, high, times) ==
  /\ gaps \in Seq(Gaps) /\ Apart(gaps) /\ Between(gaps, low, high)
  /\ \A t \in Grid : low <= t /\ t <= high => (t \notin times <=> InGap(t, gaps))

(* One more gap behind the others.                                         *)
LEMMA OneMoreGap ==
  ASSUME NEW gaps \in Seq(Gaps), NEW low \in Int, NEW last \in Grid, NEW first \in Grid,
         Apart(gaps), Between(gaps, low, first - Interval - 1), low <= first, first <= last
  PROVE  LET more == Append(gaps, Gap(first, last)) IN
         /\ more \in Seq(Gaps) /\ Apart(more) /\ Between(more, low, last)
         /\ \A t \in Int : InGap(t, more) <=> (InGap(t, gaps) \/ (first <= t /\ t <= last))
<1> DEFINE g == Gap(first, last)
           more == Append(gaps, g)
           n == Len(gaps)
<1>1. g \in Gaps /\ g.start = first /\ g.end = last
  BY DEF Gap, Gaps
<1> HIDE DEF g
<1>2. /\ more \in Seq(Gaps) /\ Len(more) = n + 1 /\ n \in Nat
      /\ \A i \in 1..n : more[i] = gaps[i] /\ gaps[i] \in Gaps
      /\ more[n + 1] = g
  BY <1>1
<1>3. first \in Int /\ last \in Int /\ \A i \in 1..n : gaps[i].start \in Int /\ gaps[i].end \in Int
  BY <1>2, GridSteps DEF Gaps
<1> HIDE DEF more, n
<1>4. ASSUME NEW i \in 1..n
      PROVE  low <= gaps[i].start /\ gaps[i].start <= gaps[i].end /\ gaps[i].end + Interval < first
  BY <1>3 DEF Between, n
<1>5. Apart(more)
  <2> SUFFICES ASSUME NEW i \in 1..n + 1, NEW j \in 1..n + 1, i < j
               PROVE  more[i].end + Interval < more[j].start
    BY <1>2 DEF Apart
  <2>1. i \in 1..n
    BY <1>2
  <2>2. CASE j = n + 1
    BY <1>1, <1>2, <1>4, <2>1, <2>2
  <2>3. CASE j # n + 1
    <3>1. j \in 1..n
      BY <1>2, <2>3
    <3> QED
      BY <1>2, <2>1, <3>1 DEF Apart, n
  <2> QED
    BY <2>2, <2>3
<1>6. Between(more, low, last)
  <2> SUFFICES ASSUME NEW i \in 1..n + 1
               PROVE  low <= more[i].start /\ more[i].start <= more[i].end /\ more[i].end <= last
    BY <1>2 DEF Between
  <2>1. CASE i = n + 1
    BY <1>1, <1>2, <1>3, <2>1
  <2>2. CASE i # n + 1
    <3>1. i \in 1..n
      BY <1>2, <2>2
    <3>2. gaps[i].end <= last
      BY <1>3, <1>4, <3>1
    <3> QED
      BY <1>2, <1>4, <3>1, <3>2
  <2> QED
    BY <2>1, <2>2
<1>7. ASSUME NEW t \in Int
      PROVE  InGap(t, more) <=> (InGap(t, gaps) \/ (first <= t /\ t <= last))
  <2>1. ASSUME InGap(t, more) PROVE InGap(t, gaps) \/ (first <= t /\ t <= last)
    <3>1. PICK i \in 1..n + 1 : more[i].start <= t /\ t <= more[i].end
      BY <1>2, <2>1 DEF InGap
    <3>2. i \in 1..n \/ i = n + 1
      BY <1>2
    <3> QED
      BY <1>1, <1>2, <3>1, <3>2 DEF InGap, n
  <2>2. ASSUME InGap(t, gaps) PROVE InGap(t, more)
    <3>1. PICK i \in 1..n : gaps[i].start <= t /\ t <= gaps[i].end
      BY <2>2 DEF InGap, n
    <3>2. i \in 1..n + 1
      BY <1>2
    <3> QED
      BY <1>2, <3>1, <3>2 DEF InGap
  <2>3. ASSUME first <= t, t <= last PROVE InGap(t, more)
    <3>1. n + 1 \in 1..n + 1
      BY <1>2
    <3> QED
      BY <1>1, <1>2, <2>3, <3>1 DEF InGap
  <2> QED
    BY <2>1, <2>2, <2>3
<1> QED
  BY <1>2, <1>5, <1>6, <1>7 DEF more, g

(* How far the scan is when it has passed the times in have.               *)
Scanned(acc, low, have) ==
  /\ acc.cursor \in Grid /\ low <= acc.cursor /\ \A t \in have : t < acc.cursor
  /\ acc.gaps \in Seq(Gaps) /\ Apart(acc.gaps) /\ Between(acc.gaps, low, acc.cursor - Interval - 1)
  /\ \A i \in 1..Len(acc.gaps) : \E t \in have : acc.gaps[i].end < t
  /\ \A t \in Grid : low <= t /\ t < acc.cursor => (t \notin have <=> InGap(t, acc.gaps))

(* One more time, later than the others, keeps the scan right.             *)
LEMMA ScanPasses ==
  ASSUME NEW low \in Grid, NEW have \in SUBSET Grid, NEW acc, Scanned(acc, low, have),
         NEW t \in Grid, low <= t, \A u \in have : u < t, acc.cursor <= t
  PROVE  Scanned(Passes(acc, t), low, have \cup {t})
<1> DEFINE next == Passes(acc, t)
           c == acc.cursor
           gaps == acc.gaps
<1>1. /\ c \in Grid /\ low <= c /\ \A u \in have : u < c
      /\ gaps \in Seq(Gaps) /\ Apart(gaps) /\ Between(gaps, low, c - Interval - 1)
      /\ \A i \in 1..Len(gaps) : \E u \in have : gaps[i].end < u
      /\ \A u \in Grid : low <= u /\ u < c => (u \notin have <=> InGap(u, gaps))
  BY DEF Scanned
<1>2. /\ c \in Int /\ t \in Int /\ low \in Int
      /\ t + Interval \in Grid /\ t - Interval \in Grid
      /\ c < t => c + Interval <= t
      /\ \A u \in Grid : u \in Int /\ (u < t => u + Interval <= t) /\ (t < u => t + Interval <= u)
  BY <1>1, GridSteps
<1>3. /\ next.cursor = t + Interval
      /\ next.gaps = IF t > c THEN Append(gaps, Gap(c, t - Interval)) ELSE gaps
  BY DEF Passes, IsAhead
<1> HIDE DEF next, c, gaps
<1>4. /\ next.gaps \in Seq(Gaps) /\ Apart(next.gaps) /\ Between(next.gaps, low, t - Interval)
      /\ Between(next.gaps, low, t - 1)
      /\ \A u \in Int : InGap(u, next.gaps) <=> (InGap(u, gaps) \/ (c <= u /\ u <= t - Interval))
  <2>0. /\ \A i \in 1..Len(gaps) : gaps[i] \in Gaps
        /\ \A g \in Gaps : g.start \in Int /\ g.end \in Int
    <3>1. \A i \in 1..Len(gaps) : gaps[i] \in Gaps
      BY <1>1
    <3>2. \A g \in Gaps : g.start \in Grid /\ g.end \in Grid
      BY DEF Gaps
    <3> QED
      BY <3>1, <3>2, GridSteps
  <2>1. CASE t > c
    <3>1. c <= t - Interval
      BY <1>2, <2>1
    <3>2. LET more == Append(gaps, Gap(c, t - Interval)) IN
          /\ more \in Seq(Gaps) /\ Apart(more) /\ Between(more, low, t - Interval)
          /\ \A u \in Int : InGap(u, more) <=> (InGap(u, gaps) \/ (c <= u /\ u <= t - Interval))
      BY <1>1, <1>2, <3>1, OneMoreGap
    <3>3. next.gaps = Append(gaps, Gap(c, t - Interval))
      BY <1>3, <2>1
    <3>4. /\ next.gaps \in Seq(Gaps) /\ Apart(next.gaps) /\ Between(next.gaps, low, t - Interval)
          /\ \A u \in Int : InGap(u, next.gaps) <=> (InGap(u, gaps) \/ (c <= u /\ u <= t - Interval))
      BY <3>2, <3>3
    <3>5. Between(next.gaps, low, t - 1)
      <4>1. \A i \in 1..Len(next.gaps) : next.gaps[i] \in Gaps
        BY <3>4
      <4>2. \A g \in Gaps : g.end \in Int
        BY GridSteps DEF Gaps
      <4> QED
        BY <1>2, <3>4, <4>1, <4>2 DEF Between
    <3> QED
      BY <3>4, <3>5
  <2>2. CASE ~(t > c)
    <3>1. t = c /\ next.gaps = gaps
      BY <1>2, <1>3, <2>2 DEF c
    <3>2. Between(gaps, low, t - Interval) /\ Between(gaps, low, t - 1)
      BY <1>1, <1>2, <2>0, <3>1 DEF Between
    <3>3. \A u \in Int : ~(c <= u /\ u <= t - Interval)
      BY <1>2, <3>1
    <3> QED
      BY <1>1, <3>1, <3>2, <3>3
  <2> QED
    BY <2>1, <2>2
<1>5. ASSUME NEW u \in Grid, low <= u, u < t + Interval
      PROVE  u \notin have \cup {t} <=> InGap(u, next.gaps)
  <2>1. InGap(u, next.gaps) <=> (InGap(u, gaps) \/ (c <= u /\ u <= t - Interval))
    BY <1>2, <1>4
  <2>2. u >= c => ~InGap(u, gaps)
    <3> SUFFICES ASSUME u >= c, NEW i \in 1..Len(gaps), gaps[i].start <= u, u <= gaps[i].end PROVE FALSE
      BY DEF InGap
    <3>1. gaps[i] \in Gaps
      BY <1>1
    <3>2. gaps[i].end \in Int
      BY <3>1, GridSteps DEF Gaps
    <3>3. gaps[i].end <= c - Interval - 1
      BY <1>1 DEF Between
    <3> QED
      BY <1>2, <3>2, <3>3
  <2>3. CASE u = t
    BY <1>2, <2>1, <2>2, <2>3 DEF c
  <2>4. CASE u # t
    <3>1. u < t /\ u <= t - Interval
      BY <1>2, <1>5, <2>4
    <3>2. CASE u < c
      BY <1>1, <1>2, <1>5, <2>1, <2>4, <3>2
    <3>3. CASE u >= c
      <4>1. \A v \in have : v < c
        BY <1>1
      <4>2. u \in Int /\ c \in Int
        BY <1>2
      <4>3. u \notin have
        BY <3>3, <4>1, <4>2
      <4> QED
        BY <2>1, <2>4, <3>1, <3>3, <4>3
    <3> QED
      BY <1>2, <3>2, <3>3
  <2> QED
    BY <2>3, <2>4
<1>6. t + Interval \in Grid /\ low <= t + Interval /\ \A u \in have \cup {t} : u < t + Interval
  BY <1>2
<1>7. Between(next.gaps, low, (t + Interval) - Interval - 1)
  <2>1. (t + Interval) - Interval - 1 = t - 1
    BY <1>2
  <2> QED
    BY <1>4, <2>1
<1>8. \A i \in 1..Len(next.gaps) : \E u \in have \cup {t} : next.gaps[i].end < u
  <2> SUFFICES ASSUME NEW i \in 1..Len(next.gaps) PROVE next.gaps[i].end < t
    OBVIOUS
  <2>1. next.gaps[i] \in Gaps /\ next.gaps[i].end <= t - 1
    BY <1>4 DEF Between
  <2>2. next.gaps[i].end \in Int
    BY <2>1, GridSteps DEF Gaps
  <2> QED
    BY <1>2, <2>1, <2>2
<1>9. Scanned(next, low, have \cup {t})
  <2> DEFINE d == t + Interval
             all == have \cup {t}
  <2>1. \A u \in Grid : low <= u /\ u < d => (u \notin all <=> InGap(u, next.gaps))
    BY <1>5
  <2>2. d \in Grid /\ low <= d /\ (\A u \in all : u < d) /\ Between(next.gaps, low, d - Interval - 1)
    <3>1. d \in Grid /\ low <= d /\ \A u \in all : u < d
      BY <1>6
    <3>2. Between(next.gaps, low, d - Interval - 1)
      BY <1>7
    <3> QED
      BY <3>1, <3>2
  <2>3. next.cursor = d /\ \A i \in 1..Len(next.gaps) : \E u \in all : next.gaps[i].end < u
    BY <1>3, <1>8
  <2> HIDE DEF d, all
  <2>4. Scanned(next, low, all)
    BY <1>4, <2>1, <2>2, <2>3 DEF Scanned
  <2> QED
    BY <2>4 DEF all
<1> QED
  BY <1>9 DEF next

(* The scan passes all of the times: were it not so for some sets of them, *)
(* one of those would be smallest.                                         *)
LEMMA ScanReaches ==
  ASSUME NEW low \in Grid, NEW high \in Int, NEW times \in SUBSET Grid,
         \A t \in times : low <= t /\ t <= high
  PROVE  Scanned(Scan(times, low), low, times)
<1> DEFINE f == CHOOSE g : g = [have \in SUBSET times |-> ScanBody(g, low, have)]
           Good(have) == Scanned(f[have], low, have)
           bad == {n \in Nat : \E have \in SUBSET times : Cardinality(have) = n /\ ~Good(have)}
<1>1. low \in Int /\ times \in SUBSET (low..high)
  BY GridSteps
<1>2. f = [have \in SUBSET times |-> ScanBody(f, low, have)]
  BY <1>1, ScanExists
<1>3. Scan(times, low) = f[times]
  BY ScanIsChosen
<1> HIDE DEF f
<1>4. \A have \in SUBSET times : f[have] = ScanBody(f, low, have)
  BY <1>2
<1>5. IsFiniteSet(times)
  <2>1. IsFiniteSet(low..high)
    BY <1>1, FS_Interval
  <2> QED
    BY <1>1, <2>1, FS_Subset
<1>6. Good({})
  <2>1. f[{}] = [cursor |-> low, gaps |-> <<>>]
    BY <1>4 DEF ScanBody
  <2>2. <<>> \in Seq(Gaps) /\ Len(<<>>) = 0
    OBVIOUS
  <2> QED
    BY <1>1, <2>1, <2>2 DEF Scanned, Apart, Between
<1>7. ASSUME NEW have \in SUBSET times, have # {}, Good(have \ {Max(have)})
      PROVE  Good(have)
  <2> DEFINE t == Max(have)
             before == have \ {t}
  <2>1. t \in have /\ \A u \in have : u <= t
    <3>1. have \in SUBSET (low..high)
      BY <1>1
    <3> QED
      BY <1>1, <1>7, <3>1, LatestExists
  <2>2. f[have] = Passes(f[before], t)
    BY <1>4, <1>7 DEF ScanBody
  <2> HIDE DEF t
  <2>3. /\ before \in SUBSET times /\ before \in SUBSET Grid /\ t \in Grid /\ low <= t
        /\ before \cup {t} = have /\ \A u \in before : u < t
    <3>1. t \in times /\ before \in SUBSET times /\ before \cup {t} = have
      BY <2>1
    <3>2. ASSUME NEW u \in before PROVE u < t
      <4>1. u \in have /\ u # t /\ u <= t /\ u \in Grid /\ t \in Grid
        BY <2>1, <3>1, <3>2
      <4>2. u \in Int /\ t \in Int
        BY <4>1, GridSteps
      <4> QED
        BY <4>1, <4>2
    <3> QED
      BY <3>1, <3>2
  <2> HIDE DEF before
  <2>4. f[before].cursor <= t
    <3>1. CASE before = {}
      <4>1. f[before] = [cursor |-> low, gaps |-> <<>>]
        BY <1>4, <3>1 DEF ScanBody
      <4> QED
        BY <2>3, <4>1
    <3>2. CASE before # {}
      <4>1. before \in SUBSET (low..high)
        BY <1>1, <2>3
      <4>2. Max(before) \in before
        BY <1>1, <3>2, <4>1, LatestExists
      <4>3. f[before].cursor = Max(before) + Interval
        <5>1. f[before] = Passes(f[before \ {Max(before)}], Max(before))
          BY <1>4, <2>3, <3>2 DEF ScanBody
        <5> QED
          BY <5>1 DEF Passes
      <4>4. Max(before) \in Grid /\ Max(before) < t
        BY <2>3, <4>2
      <4> QED
        BY <2>3, <4>3, <4>4, GridSteps
    <3> QED
      BY <3>1, <3>2
  <2>5. Scanned(f[before], low, before)
    BY <1>7 DEF t, before
  <2>6. Scanned(Passes(f[before], t), low, before \cup {t})
    BY <2>3, <2>4, <2>5, ScanPasses
  <2> QED
    BY <2>2, <2>3, <2>6
<1>8. \A have \in SUBSET times : Good(have)
  <2> HIDE DEF Good
  <2> SUFFICES ASSUME NEW some \in SUBSET times, ~Good(some) PROVE FALSE
    OBVIOUS
  <2>1. \A have \in SUBSET times : IsFiniteSet(have) /\ Cardinality(have) \in Nat
    BY <1>5, FS_Subset, FS_CardinalityType
  <2>2. bad # {}
    BY <2>1
  <2>3. PICK n \in bad : \A m \in bad : n <= m
    BY <2>2, HasLeast
  <2>4. PICK have \in SUBSET times : Cardinality(have) = n /\ ~Good(have)
    BY <2>3
  <2>5. have # {}
    BY <1>6, <2>4
  <2>6. Max(have) \in have
    <3>1. have \in SUBSET (low..high)
      BY <1>1
    <3> QED
      BY <1>1, <2>5, <3>1, LatestExists
  <2>7. /\ have \ {Max(have)} \in SUBSET times
        /\ Cardinality(have \ {Max(have)}) = n - 1 /\ n \in Nat
    BY <2>1, <2>4, <2>6, FS_RemoveElement
  <2>8. ~Good(have \ {Max(have)})
    BY <1>7, <2>4, <2>5
  <2>9. n - 1 \in Nat
    BY <2>1, <2>7
  <2>10. n - 1 \in bad
    BY <2>7, <2>8, <2>9
  <2> QED
    BY <2>3, <2>7, <2>10
<1> QED
  BY <1>3, <1>8

(* find_gaps returns the gaps: grid points of the range that are missing,  *)
(* in order, in ranges that lie apart.                                     *)
LEMMA FindsGaps ==
  ASSUME NEW low \in Grid, NEW high \in Grid, NEW times \in SUBSET Grid
  PROVE  GapsOf(FindGaps(times, low, high), low, high, times)
<1> DEFINE inside == {t \in times : low <= t /\ t <= high}
           scan == Scan(inside, low)
           gaps == FindGaps(times, low, high)
<1>1. low \in Int /\ high \in Int /\ \A t \in Grid : t \in Int
  BY GridSteps
<1>2. Scanned(scan, low, inside)
  BY <1>1, ScanReaches
<1>3. gaps = IF scan.cursor <= high THEN Append(scan.gaps, Gap(scan.cursor, high)) ELSE scan.gaps
  BY DEF FindGaps
<1> HIDE DEF scan, gaps
<1> DEFINE c == scan.cursor
<1>4. /\ c \in Grid /\ c \in Int /\ low <= c /\ \A t \in inside : t < c
      /\ scan.gaps \in Seq(Gaps) /\ Apart(scan.gaps) /\ Between(scan.gaps, low, c - Interval - 1)
      /\ \A i \in 1..Len(scan.gaps) : \E t \in inside : scan.gaps[i].end < t
      /\ \A t \in Grid : low <= t /\ t < c => (t \notin inside <=> InGap(t, scan.gaps))
  BY <1>1, <1>2 DEF Scanned
<1>5. \A i \in 1..Len(scan.gaps) : /\ scan.gaps[i].start \in Int /\ scan.gaps[i].end \in Int
                                   /\ scan.gaps[i].end < c
  <2> SUFFICES ASSUME NEW i \in 1..Len(scan.gaps)
               PROVE  /\ scan.gaps[i].start \in Int /\ scan.gaps[i].end \in Int
                      /\ scan.gaps[i].end < c
    OBVIOUS
  <2>1. scan.gaps[i] \in Gaps
    BY <1>4
  <2>2. scan.gaps[i].start \in Int /\ scan.gaps[i].end \in Int
    BY <1>1, <2>1 DEF Gaps
  <2>3. scan.gaps[i].end <= c - Interval - 1
    BY <1>4 DEF Between
  <2> QED
    BY <1>4, <2>2, <2>3
<1>6. CASE c <= high
  <2>1. LET more == Append(scan.gaps, Gap(c, high)) IN
        /\ more \in Seq(Gaps) /\ Apart(more) /\ Between(more, low, high)
        /\ \A t \in Int : InGap(t, more) <=> (InGap(t, scan.gaps) \/ (c <= t /\ t <= high))
    BY <1>1, <1>4, <1>6, OneMoreGap
  <2>2. gaps = Append(scan.gaps, Gap(c, high))
    BY <1>3, <1>6
  <2>3. ASSUME NEW t \in Grid, low <= t, t <= high PROVE t \notin times <=> InGap(t, gaps)
    <3>1. t \in Int /\ (t \in inside <=> t \in times)
      BY <1>1, <2>3
    <3>2. InGap(t, gaps) <=> (InGap(t, scan.gaps) \/ (c <= t /\ t <= high))
      BY <2>1, <2>2, <3>1
    <3>3. CASE t < c
      BY <1>4, <2>3, <3>1, <3>2, <3>3
    <3>4. CASE t >= c
      <4>1. t \notin inside
        BY <1>4, <3>1, <3>4
      <4> QED
        BY <2>3, <3>1, <3>2, <3>4, <4>1
    <3> QED
      BY <1>4, <3>1, <3>3, <3>4
  <2> QED
    BY <2>1, <2>2, <2>3 DEF GapsOf, gaps
<1>7. CASE ~(c <= high)
  <2>1. gaps = scan.gaps
    BY <1>3, <1>7
  <2>2. Between(gaps, low, high)
    <3> SUFFICES ASSUME NEW i \in 1..Len(gaps)
                 PROVE  low <= gaps[i].start /\ gaps[i].start <= gaps[i].end /\ gaps[i].end <= high
      BY DEF Between
    <3>1. low <= gaps[i].start /\ gaps[i].start <= gaps[i].end
      BY <1>4, <2>1 DEF Between
    <3>2. PICK t \in inside : gaps[i].end < t
      BY <1>4, <2>1
    <3>3. t <= high /\ t \in Int /\ gaps[i].end \in Int
      BY <1>1, <1>5, <2>1
    <3> QED
      BY <1>1, <3>1, <3>2, <3>3
  <2>3. ASSUME NEW t \in Grid, low <= t, t <= high PROVE t \notin times <=> InGap(t, gaps)
    <3>1. t \in Int /\ (t \in inside <=> t \in times) /\ t < c
      BY <1>1, <1>4, <1>7, <2>3
    <3> QED
      BY <1>4, <2>1, <2>3, <3>1
  <2> QED
    BY <1>4, <2>1, <2>2, <2>3 DEF GapsOf, gaps
<1> QED
  BY <1>6, <1>7

-----------------------------------------------------------------------------
(* Gaps, for whatever is stored                                            *)

(* Candles open on the grid, and no two at a time.                         *)
LEMMA OpenTimesOnGrid ==
  ASSUME NEW S \in SUBSET Int
  PROVE  /\ OpenTimes(S) \in SUBSET Grid
         /\ \A k \in Int : k * Interval \in OpenTimes(S) <=> k \in S
<1>1. ASSUME NEW k \in Int, k * Interval \in OpenTimes(S) PROVE k \in S
  <2>1. PICK j \in S : k * Interval = j * Interval
    BY <1>1 DEF OpenTimes
  <2>2. ~(j < k) /\ ~(k < j)
    BY <2>1, Multiples
  <2> QED
    BY <2>1, <2>2
<1> QED
  BY <1>1, GridSteps DEF OpenTimes

(* Gaps are found exactly, in any state.                                   *)
LEMMA GapsAreExact == stored \cup partial \subseteq Candles => GapsExact
<1> SUFFICES ASSUME stored \cup partial \subseteq Candles,
                    NEW low \in Candles, NEW high \in Candles, low <= high
             PROVE  LET gaps == FindGaps(OpenTimes(stored \cup partial), low * Interval, high * Interval)
                        Covers(g) == {t \in OpenTimes(Candles) : g.start <= t /\ t <= g.end}
                    IN /\ UNION {Covers(gaps[i]) : i \in DOMAIN gaps}
                            = OpenTimes((low..high) \ (stored \cup partial))
                       /\ \A i \in DOMAIN gaps : gaps[i].start <= gaps[i].end
                       /\ \A i \in 2..Len(gaps) : gaps[i - 1].end + Interval < gaps[i].start
  BY DEF GapsExact
<1> DEFINE S == stored \cup partial
           from == low * Interval
           to == high * Interval
           gaps == FindGaps(OpenTimes(S), from, to)
           Covers(g) == {t \in OpenTimes(Candles) : g.start <= t /\ t <= g.end}
<1>1. /\ S \in SUBSET Int /\ Candles \in SUBSET Int /\ low..high \in SUBSET Int
      /\ low \in Int /\ high \in Int /\ low..high \subseteq Candles
  BY DEF Candles
<1>2. from \in Grid /\ to \in Grid /\ OpenTimes(S) \in SUBSET Grid
  BY <1>1, GridSteps, OpenTimesOnGrid
<1>3. GapsOf(gaps, from, to, OpenTimes(S))
  BY <1>2, FindsGaps
<1> HIDE DEF gaps
<1>4. gaps \in Seq(Gaps) /\ Len(gaps) \in Nat /\ DOMAIN gaps = 1..Len(gaps) /\ Apart(gaps) /\ Between(gaps, from, to)
  BY <1>3 DEF GapsOf
<1>5. \A i \in 1..Len(gaps) : gaps[i].start \in Int /\ gaps[i].end \in Int
  <2> SUFFICES ASSUME NEW i \in 1..Len(gaps) PROVE gaps[i].start \in Grid /\ gaps[i].end \in Grid
    BY GridSteps
  <2>1. gaps[i] \in Gaps
    BY <1>4
  <2> QED
    BY <2>1 DEF Gaps
<1>6. ASSUME NEW t PROVE t \in UNION {Covers(gaps[i]) : i \in DOMAIN gaps}
                           <=> t \in OpenTimes(Candles) /\ InGap(t, gaps)
  BY <1>4 DEF InGap
<1>7. ASSUME NEW k \in Candles
      PROVE  InGap(k * Interval, gaps) <=> k \in (low..high) \ S
  <2> DEFINE t == k * Interval
  <2>1. t \in Grid /\ t \in Int /\ k \in Int /\ from \in Int /\ to \in Int
    BY <1>1, <1>2, GridSteps
  <2>2. /\ from <= t <=> low <= k
        /\ t <= to <=> k <= high
    <3>1. (t < from <=> k < low) /\ (to < t <=> high < k)
      BY <1>1, <2>1, Multiples
    <3> HIDE DEF t, from, to
    <3> QED
      BY <1>1, <2>1, <3>1
  <2>3. t \in OpenTimes(S) <=> k \in S
    BY <1>1, <2>1, OpenTimesOnGrid
  <2> HIDE DEF t, from, to, S
  <2>4. InGap(t, gaps) => from <= t /\ t <= to
    BY <1>4, <1>5, <2>1 DEF InGap, Between
  <2>5. from <= t /\ t <= to => (t \notin OpenTimes(S) <=> InGap(t, gaps))
    BY <1>3, <2>1 DEF GapsOf
  <2>6. k \in low..high <=> (from <= t /\ t <= to)
    BY <1>1, <2>1, <2>2
  <2> QED
    BY <2>3, <2>4, <2>5, <2>6 DEF t
<1>8. UNION {Covers(gaps[i]) : i \in DOMAIN gaps} = OpenTimes((low..high) \ S)
  <2>1. ASSUME NEW t \in OpenTimes(Candles), InGap(t, gaps) PROVE t \in OpenTimes((low..high) \ S)
    <3>1. PICK k \in Candles : t = k * Interval
      BY DEF OpenTimes
    <3>2. k \in (low..high) \ S
      BY <1>7, <2>1, <3>1
    <3> QED
      BY <3>1, <3>2 DEF OpenTimes
  <2>2. ASSUME NEW t \in OpenTimes((low..high) \ S) PROVE t \in OpenTimes(Candles) /\ InGap(t, gaps)
    <3>1. PICK k \in (low..high) \ S : t = k * Interval
      BY DEF OpenTimes
    <3>2. k \in Candles
      BY <1>1
    <3>3. InGap(t, gaps)
      BY <1>7, <3>1, <3>2
    <3> QED
      BY <3>1, <3>2, <3>3 DEF OpenTimes
  <2> QED
    BY <1>6, <2>1, <2>2
<1>9. \A i \in DOMAIN gaps : gaps[i].start <= gaps[i].end
  BY <1>4 DEF Between
<1>10. \A i \in 2..Len(gaps) : gaps[i - 1].end + Interval < gaps[i].start
  <2> SUFFICES ASSUME NEW i \in 2..Len(gaps) PROVE gaps[i - 1].end + Interval < gaps[i].start
    OBVIOUS
  <2>1. i - 1 \in 1..Len(gaps) /\ i \in 1..Len(gaps) /\ i - 1 < i
    BY <1>4
  <2> QED
    BY <1>4, <2>1 DEF Apart
<1> QED
  BY <1>8, <1>9, <1>10 DEF gaps

-----------------------------------------------------------------------------
(* The invariant                                                           *)

Jobs ==
  [step : {"idle", "fetch", "commit"}, low : Int, high : Int, gaps : Seq(Gaps), cursor : Int,
   batch : SUBSET Int, forming : SUBSET Int]

TypeInv ==
  /\ clock \in 0..MaxTime /\ table \in {"candles", "series"}
  /\ exists \subseteq Candles /\ stored \subseteq Candles /\ partial \subseteq Candles
  /\ rows \subseteq RowTimes
  /\ job \in [Actors -> Jobs]
  /\ failures \in 0..MaxFailures /\ expired \in 0..MaxTime

(* A back-fill of candles works its way through the gaps of its range,     *)
(* which are behind it, around its cursor, or ahead.                       *)
FillsGaps(j) ==
  /\ j.gaps # <<>> /\ Apart(j.gaps) /\ Between(j.gaps, j.low, j.high)
  /\ -(Depth + Interval) <= j.low /\ j.high <= MaxTime + MaxAhead
  /\ j.cursor \in Grid /\ j.gaps[1].start <= j.cursor /\ j.cursor <= j.gaps[1].end
  /\ j.batch \subseteq exists /\ j.forming \subseteq j.batch
  /\ j.step = "commit" => j.batch # {} /\ \A k \in j.batch : j.cursor <= k * Interval

(* A top-up of the series goes on where it is.                             *)
ToppingUp(j) ==
  /\ j.gaps = <<>> /\ 0 <= j.cursor /\ j.cursor <= j.high /\ j.high <= clock
  /\ \A t \in RowTimes : t < j.cursor => t \in rows \/ t < expired
  /\ j.step = "commit" => j.batch = {t \in RowTimes : j.cursor <= t /\ t <= WindowEnd(j)}

GoodJob(j) ==
  /\ j.step = "idle" => j = Idle
  /\ j.step # "idle" /\ table = "candles" => FillsGaps(j)
  /\ j.step # "idle" /\ table = "series" => ToppingUp(j)

NoSeries == table = "candles" => rows = {}

IInv ==
  /\ TypeInv /\ NoSeries /\ SeriesHasNoHoles
  /\ \A a \in Actors : GoodJob(job[a])

(* With a range that ends in the past, a candle of the range is among      *)
(* those that are kept or yet to come, and no candle is forming.           *)
Ahead(j, t) ==
  \/ j.cursor <= t /\ t <= j.gaps[1].end
  \/ \E i \in 2..Len(j.gaps) : j.gaps[i].start <= t /\ t <= j.gaps[i].end

MissesNone(j, kept) ==
  \A k \in exists :
    j.low <= k * Interval /\ k * Interval <= j.high => k \in kept \/ Ahead(j, k * Interval)

(* A batch has all of the exchange's candles from the cursor on up to the  *)
(* last one in it.                                                         *)
IsBatch(j) ==
  /\ \A k \in j.batch : IsClosed(k)
  /\ \A k \in exists : \A l \in j.batch : j.cursor <= k * Interval /\ k <= l => k \in j.batch

InThePast(j) ==
  j.step # "idle" =>
    /\ j.high + Interval <= clock /\ j.forming = {}
    /\ MissesNone(j, stored)
    /\ j.step = "commit" => IsBatch(j)

PastInv ==
  /\ IInv /\ MaxAhead = 0
  /\ partial = {}
  /\ table = "candles" => \A a \in Actors : InThePast(job[a])

-----------------------------------------------------------------------------
(* Jobs                                                                    *)

(* An actor that is idle owes nothing.                                     *)
LEMMA IdleIsGood == Idle \in Jobs /\ GoodJob(Idle) /\ Idle.step = "idle"
<1>1. <<>> \in Seq(Gaps)
  OBVIOUS
<1> QED
  BY <1>1 DEF Idle, Jobs, GoodJob

(* A number of intervals on from a point of the grid is one as well.       *)
LEMMA GridSums ==
  ASSUME NEW t \in Grid, NEW n \in Int
  PROVE  t + n * Interval \in Grid
<1>1. PICK k \in Int : t = k * Interval
  BY DEF Grid
<1>2. k * Interval + n * Interval = (k + n) * Interval /\ k + n \in Int
  OBVIOUS
<1> QED
  BY <1>1, <1>2, GridSteps

(* What an idle actor has.                                                 *)
LEMMA IdleFields == Idle.gaps = <<>> /\ Idle.batch = {} /\ Idle.forming = {} /\ Idle.cursor = 0
  BY DEF Idle

(* What is known of a back-fill's gaps.                                    *)
LEMMA GapFacts ==
  ASSUME NEW j \in Jobs, FillsGaps(j)
  PROVE  /\ Len(j.gaps) \in Nat /\ Len(j.gaps) >= 1 /\ Head(j.gaps) = j.gaps[1]
         /\ \A i \in 1..Len(j.gaps) : /\ j.gaps[i] \in Gaps
                                      /\ j.gaps[i].start \in Grid /\ j.gaps[i].end \in Grid
                                      /\ j.gaps[i].start \in Int /\ j.gaps[i].end \in Int
                                      /\ j.low <= j.gaps[i].start /\ j.gaps[i].start <= j.gaps[i].end
                                      /\ j.gaps[i].end <= j.high
         /\ j.low \in Int /\ j.high \in Int /\ j.cursor \in Int /\ j.low <= j.cursor /\ j.cursor <= j.high
         /\ j.step \in {"idle", "fetch", "commit"}
<1>1. j.gaps \in Seq(Gaps) /\ j.gaps # <<>> /\ Between(j.gaps, j.low, j.high)
  BY DEF Jobs, FillsGaps
<1>2. Len(j.gaps) \in Nat /\ Len(j.gaps) >= 1 /\ Head(j.gaps) = j.gaps[1]
  BY <1>1
<1>3. ASSUME NEW i \in 1..Len(j.gaps)
      PROVE  /\ j.gaps[i] \in Gaps
             /\ j.gaps[i].start \in Grid /\ j.gaps[i].end \in Grid
             /\ j.gaps[i].start \in Int /\ j.gaps[i].end \in Int
             /\ j.low <= j.gaps[i].start /\ j.gaps[i].start <= j.gaps[i].end
             /\ j.gaps[i].end <= j.high
  <2>1. j.gaps[i] \in Gaps
    BY <1>1
  <2>2. j.gaps[i].start \in Grid /\ j.gaps[i].end \in Grid
    BY <2>1 DEF Gaps
  <2> QED
    BY <1>1, <2>1, <2>2, GridSteps DEF Between
<1>4. j.low \in Int /\ j.high \in Int /\ j.cursor \in Int /\ j.step \in {"idle", "fetch", "commit"}
  BY DEF Jobs
<1>5. 1 \in 1..Len(j.gaps) /\ j.gaps[1].start <= j.cursor /\ j.cursor <= j.gaps[1].end
  BY <1>2 DEF FillsGaps
<1>6. j.low <= j.cursor /\ j.cursor <= j.high
  BY <1>3, <1>4, <1>5
<1> QED
  BY <1>2, <1>3, <1>4, <1>6

(* A back-fill that goes on goes on with its gaps.                         *)
LEMMA AdvancedIsGood ==
  ASSUME NEW j \in Jobs, FillsGaps(j), NEW c \in Grid, j.cursor <= c
  PROVE  LET next == Advanced(j, c) IN
         /\ next \in Jobs
         /\ next = Idle \/ (next.step = "fetch" /\ FillsGaps(next))
<1> DEFINE next == Advanced(j, c)
<1>1. /\ Len(j.gaps) \in Nat /\ Len(j.gaps) >= 1 /\ Head(j.gaps) = j.gaps[1]
      /\ \A i \in 1..Len(j.gaps) : /\ j.gaps[i] \in Gaps
                                   /\ j.gaps[i].start \in Grid /\ j.gaps[i].end \in Grid
                                   /\ j.gaps[i].start \in Int /\ j.gaps[i].end \in Int
                                   /\ j.low <= j.gaps[i].start /\ j.gaps[i].start <= j.gaps[i].end
                                   /\ j.gaps[i].end <= j.high
  BY GapFacts
<1>2. j.gaps[1].start <= j.cursor /\ j.cursor <= c /\ c \in Int /\ j.cursor \in Int
  BY GridSteps DEF FillsGaps, Jobs
<1>3. CASE c <= Head(j.gaps).end
  <2>1. next = [j EXCEPT !.step = "fetch", !.cursor = c, !.batch = {}, !.forming = {}]
    BY <1>3 DEF Advanced
  <2>2. /\ next \in Jobs /\ next.step = "fetch" /\ next.cursor = c /\ next.batch = {} /\ next.forming = {}
        /\ next.gaps = j.gaps /\ next.low = j.low /\ next.high = j.high
    BY <1>2, <2>1 DEF Jobs
  <2> HIDE DEF next
  <2>3. j.gaps[1].start <= c
    BY <1>1, <1>2
  <2>4. FillsGaps(next)
    BY <1>1, <1>3, <2>2, <2>3 DEF FillsGaps
  <2> QED
    BY <2>2, <2>4 DEF next
<1>4. CASE c > Head(j.gaps).end /\ Len(j.gaps) > 1
  <2> DEFINE rest == Tail(j.gaps)
             first == j.gaps[2].start
  <2>1. next = [j EXCEPT !.step = "fetch", !.gaps = rest, !.cursor = first,
                         !.batch = {}, !.forming = {}]
    BY <1>1, <1>2, <1>4 DEF Advanced
  <2>2. /\ rest \in Seq(Gaps) /\ Len(rest) = Len(j.gaps) - 1 /\ rest # <<>>
        /\ \A i \in 1..Len(rest) : rest[i] = j.gaps[i + 1]
    <3>1. j.gaps \in Seq(Gaps) /\ j.gaps # <<>>
      BY DEF Jobs, FillsGaps
    <3>2. /\ rest \in Seq(Gaps) /\ Len(rest) = Len(j.gaps) - 1
          /\ \A i \in 1..Len(rest) : rest[i] = j.gaps[i + 1]
      BY <3>1
    <3> HIDE DEF rest
    <3>3. Len(rest) # 0
      BY <1>1, <1>4, <3>2
    <3>4. rest # <<>>
      BY <3>3
    <3> QED
      BY <3>2, <3>4
  <2> HIDE DEF rest
  <2>3. /\ first \in Grid /\ first \in Int /\ rest[1].start = first /\ first <= rest[1].end
    <3>1. 2 \in 1..Len(j.gaps) /\ 1 \in 1..Len(rest) /\ 1 + 1 = 2
      BY <1>1, <1>4, <2>2
    <3>2. rest[1] = j.gaps[2]
      BY <2>2, <3>1
    <3> QED
      BY <1>1, <3>1, <3>2
  <2> HIDE DEF first
  <2>4. /\ next \in Jobs /\ next.step = "fetch" /\ next.cursor = first /\ next.batch = {} /\ next.forming = {}
        /\ next.gaps = rest /\ next.low = j.low /\ next.high = j.high
    BY <2>1, <2>2, <2>3 DEF Jobs
  <2> HIDE DEF next
  <2>5. Apart(rest) /\ Between(rest, j.low, j.high)
    <3>1. \A i \in 1..Len(rest) : i + 1 \in 1..Len(j.gaps)
      BY <1>1, <2>2
    <3>2. \A i, k \in 1..Len(rest) : i < k => i + 1 < k + 1
      BY <2>2
    <3>3. Apart(j.gaps)
      BY DEF FillsGaps
    <3>4. Apart(rest)
      BY <2>2, <3>1, <3>2, <3>3 DEF Apart
    <3> QED
      BY <1>1, <2>2, <3>1, <3>4 DEF Between
  <2>6. FillsGaps(next)
    BY <2>2, <2>3, <2>4, <2>5 DEF FillsGaps
  <2> QED
    BY <2>4, <2>6 DEF next
<1>5. CASE c > Head(j.gaps).end /\ ~(Len(j.gaps) > 1)
  <2>1. next = Idle
    BY <1>1, <1>2, <1>5 DEF Advanced
  <2> QED
    BY <2>1, IdleIsGood
<1>6. c <= Head(j.gaps).end \/ c > Head(j.gaps).end
  BY <1>1, <1>2
<1> QED
  BY <1>3, <1>4, <1>5, <1>6

-----------------------------------------------------------------------------
(* Answers                                                                 *)

(* The first of some numbers: none is left out before one that is there.   *)
FirstOf(all, limit) == {k \in all : Cardinality({l \in all : l < k}) < limit}

(* None is left out of the first ones before one that is there.            *)
LEMMA FirstOnes ==
  ASSUME NEW all \in SUBSET Nat, IsFiniteSet(all), NEW limit \in Nat, limit # 0
  PROVE  /\ FirstOf(all, limit) \subseteq all /\ (all # {} => FirstOf(all, limit) # {})
         /\ \A k \in all : \A l \in FirstOf(all, limit) : k <= l => k \in FirstOf(all, limit)
<1> DEFINE Before(k) == {l \in all : l < k}
           first == FirstOf(all, limit)
<1>0. \A k \in all : k \in Int
  OBVIOUS
<1>2. ASSUME NEW k \in all PROVE IsFiniteSet(Before(k)) /\ Cardinality(Before(k)) \in Nat
  <2>1. Before(k) \in SUBSET all
    OBVIOUS
  <2> QED
    BY <2>1, FS_Subset, FS_CardinalityType
<1>3. first \subseteq all /\ \A k \in all : k \in first <=> Cardinality(Before(k)) < limit
  BY DEF FirstOf
<1> HIDE DEF first
<1>4. ASSUME all # {} PROVE first # {}
  <2>2. PICK k \in all : \A l \in all : k <= l
    BY <1>4, HasLeast
  <2>3. Before(k) = {}
    <3> SUFFICES ASSUME NEW l \in all, l < k PROVE FALSE
      OBVIOUS
    <3> QED
      BY <1>0, <2>2
  <2>4. Cardinality(Before(k)) = 0
    BY <2>3, FS_EmptySet
  <2> HIDE DEF Before
  <2>5. Cardinality(Before(k)) < limit
    BY <2>4
  <2> QED
    BY <1>3, <2>5
<1>5. ASSUME NEW k \in all, NEW l \in first, k <= l PROVE k \in first
  <2>1. l \in all /\ Cardinality(Before(l)) < limit
    BY <1>3
  <2>2. Before(k) \in SUBSET Before(l)
    <3> SUFFICES ASSUME NEW i \in all, i < k PROVE i < l
      BY <2>1
    <3> QED
      BY <1>0, <1>5, <2>1
  <2>3. Cardinality(Before(k)) <= Cardinality(Before(l))
    BY <1>2, <2>1, <2>2, FS_Subset
  <2> HIDE DEF Before
  <2> QED
    BY <1>2, <1>3, <2>1, <2>3
<1> QED
  BY <1>3, <1>4, <1>5 DEF first

(* The exchange's candles that open within the bounds.                     *)
Within(start, end) == {k \in exists : start <= k * Interval /\ k * Interval <= end /\ k * Interval <= clock}

(* An answer of the exchange: there is one unless it has no such candles,  *)
(* and it leaves none out before its last one.                             *)
LEMMA Answers ==
  ASSUME TypeInv, NEW start \in Int, NEW end \in Int
  PROVE  /\ Klines(start, end) \subseteq Within(start, end)
         /\ Within(start, end) # {} => Klines(start, end) # {}
         /\ \A k \in Within(start, end) : \A l \in Klines(start, end) : k <= l => k \in Klines(start, end)
<1> DEFINE within == Within(start, end)
           n == MaxTime \div Interval
<1>1. within \subseteq exists
  BY DEF Within
<1>2. exists \subseteq 0..n /\ n \in Int
  BY DEF TypeInv, Candles
<1>3. Klines(start, end) = FirstOf(within, Limit)
  BY DEF Klines, FirstOf, Within
<1> HIDE DEF within, n
<1>4. within \in SUBSET Nat
  BY <1>1, <1>2
<1>4a. IsFiniteSet(within)
  <2>1. IsFiniteSet(0..n)
    BY <1>2, FS_Interval
  <2>2. within \in SUBSET (0..n)
    BY <1>1, <1>2
  <2> QED
    BY <2>1, <2>2, FS_Subset
<1>4b. Limit \in Nat /\ Limit # 0
  BY StoreAssumption
<1>5. /\ Klines(start, end) \subseteq within /\ (within # {} => Klines(start, end) # {})
      /\ \A k \in within : \A l \in Klines(start, end) : k <= l => k \in Klines(start, end)
  BY <1>3, <1>4, <1>4a, <1>4b, FirstOnes
<1> QED
  BY <1>5 DEF within

(* A window has room for the rows within it.                               *)
LEMMA WindowsHaveRoom ==
  ASSUME NEW low \in Nat, NEW high \in Int, high <= low + RowLimit * RowPeriod - 1,
         NEW within, within = {t \in RowTimes : low <= t /\ t <= high}
  PROVE  {t \in within : Cardinality({u \in within : u < t}) < RowLimit} = within
<1> SUFFICES ASSUME NEW t \in within PROVE Cardinality({u \in within : u < t}) < RowLimit
  OBVIOUS
<1> DEFINE before == {u \in within : u < t}
           n == t \div RowPeriod
           slots == n - (RowLimit - 1) .. n - 1
           f == [u \in before |-> u \div RowPeriod]
<1>1. ASSUME NEW u \in RowTimes
      PROVE  u \in Int /\ u \div RowPeriod \in Int /\ u = (u \div RowPeriod) * RowPeriod
  <2>1. u \in Int /\ u % RowPeriod = 0
    BY DEF RowTimes
  <2>2. u = RowPeriod * (u \div RowPeriod) + (u % RowPeriod) /\ u \div RowPeriod \in Int
    BY <2>1
  <2>3. RowPeriod * (u \div RowPeriod) = (u \div RowPeriod) * RowPeriod /\ RowPeriod * (u \div RowPeriod) \in Int
    BY <2>2
  <2> DEFINE p == RowPeriod * (u \div RowPeriod)
  <2>4. u = p + 0 /\ p \in Int
    BY <2>1, <2>2, <2>3
  <2> HIDE DEF p
  <2>5. u = p
    BY <2>4
  <2> QED
    BY <2>1, <2>2, <2>3, <2>5 DEF p
<1>2. t \in RowTimes /\ low <= t /\ t <= high
  OBVIOUS
<1>3. n \in Int /\ t = n * RowPeriod /\ t \in Int
  BY <1>1, <1>2
<1> HIDE DEF n
<1>4. ASSUME NEW u \in before PROVE f[u] \in slots /\ u = f[u] * RowPeriod
  <2>1. u \in RowTimes /\ u < t /\ low <= u
    OBVIOUS
  <2>2. f[u] \in Int /\ u = f[u] * RowPeriod /\ u \in Int
    BY <1>1, <2>1
  <2> DEFINE m == f[u]
  <2>3. m \in Int /\ u = m * RowPeriod
    BY <2>2
  <2> HIDE DEF m, f
  <2>4. m < n
    BY <1>3, <2>1, <2>3, Multiples
  <2>5. ~(m + RowLimit <= n)
    <3> SUFFICES ASSUME m + RowLimit <= n PROVE FALSE
      OBVIOUS
    <3>1. (m + RowLimit) * RowPeriod <= n * RowPeriod
      <4>1. m + RowLimit = n \/ (m + RowLimit) * RowPeriod < n * RowPeriod
        BY <1>3, <2>3, Multiples
      <4>2. (m + RowLimit) * RowPeriod \in Int /\ n * RowPeriod \in Int
        BY <1>3, <2>3
      <4> QED
        BY <4>1, <4>2
    <3>2. (m + RowLimit) * RowPeriod = m * RowPeriod + RowLimit * RowPeriod
      BY <2>3
    <3> DEFINE w == RowLimit * RowPeriod
               x == m * RowPeriod
               y == n * RowPeriod
    <3>3. x + w <= y /\ x = u /\ y = t /\ w \in Int /\ high <= low + w - 1
      BY <1>3, <2>3, <3>1, <3>2
    <3> HIDE DEF w, x, y
    <3> QED
      BY <1>2, <1>3, <2>1, <2>2, <3>3
  <2>6. m \in slots
    BY <1>3, <2>3, <2>4, <2>5
  <2> QED
    BY <2>3, <2>6 DEF m
<1>5. IsFiniteSet(slots) /\ Cardinality(slots) = RowLimit - 1
  <2>1. n - (RowLimit - 1) \in Int /\ n - 1 \in Int
    BY <1>3
  <2>2. IsFiniteSet(slots) /\ Cardinality(slots) = IF n - (RowLimit - 1) > n - 1 THEN 0 ELSE (n - 1) - (n - (RowLimit - 1)) + 1
    BY <2>1, FS_Interval
  <2> QED
    BY <1>3, <2>2
<1>6. f \in Injection(before, slots)
  <2>1. f \in [before -> slots]
    BY <1>4
  <2>2. \A u, v \in before : f[u] = f[v] => u = v
    BY <1>4
  <2> QED
    BY <2>1, <2>2 DEF Injection, IsInjective
<1>7. IsFiniteSet(before) /\ Cardinality(before) <= Cardinality(slots)
  <2> HIDE DEF before, slots, f
  <2> QED
    BY <1>5, <1>6, FS_Injection
<1>8. Cardinality(before) \in Nat
  BY <1>7, FS_CardinalityType
<1> HIDE DEF slots
<1>9. Cardinality(before) < RowLimit
  <2> DEFINE c == Cardinality(before)
  <2> HIDE DEF before
  <2>1. c \in Nat /\ c <= RowLimit - 1
    BY <1>5, <1>7, <1>8
  <2> HIDE DEF c
  <2>2. c < RowLimit
    BY <2>1
  <2> QED
    BY <2>2 DEF c
<1> QED
  BY <1>9


-----------------------------------------------------------------------------
(* Every step keeps the invariant                                          *)

(* In the beginning.                                                       *)
LEMMA InitGood == Init => IInv
<1> SUFFICES ASSUME Init PROVE IInv
  OBVIOUS
<1>1. 0 \in 0..MaxTime /\ 0 \in 0..MaxFailures /\ exists \subseteq Candles /\ table \in {"candles", "series"}
  BY DEF Init
<1>2. job \in [Actors -> Jobs] /\ \A a \in Actors : job[a] = Idle
  BY IdleIsGood DEF Init
<1>3. TypeInv
  BY <1>1, <1>2 DEF Init, TypeInv
<1>4. NoSeries /\ SeriesHasNoHoles
  BY DEF Init, NoSeries, SeriesHasNoHoles
<1>5. \A a \in Actors : GoodJob(job[a])
  BY <1>2, IdleIsGood
<1> QED
  BY <1>3, <1>4, <1>5 DEF IInv

(* A job stays good when others move.                                      *)
LEMMA GoodStays ==
  ASSUME TypeInv, TypeInv', NEW j \in Jobs, GoodJob(j), UNCHANGED world,
         clock <= clock', rows \subseteq rows', expired <= expired'
  PROVE  GoodJob(j)'
<1>1. table' = table /\ exists' = exists
  BY DEF world
<1>2. clock \in Int /\ clock' \in Int /\ expired \in Int /\ expired' \in Int /\ j.high \in Int
  BY DEF TypeInv, Jobs
<1>3. FillsGaps(j) => FillsGaps(j)'
  BY <1>1 DEF FillsGaps
<1>4. ToppingUp(j) => ToppingUp(j)'
  <2> SUFFICES ASSUME ToppingUp(j) PROVE ToppingUp(j)'
    OBVIOUS
  <2>1. j.high <= clock'
    BY <1>2 DEF ToppingUp
  <2>2. ASSUME NEW t \in RowTimes, t < j.cursor PROVE t \in rows' \/ t < expired'
    <3>1. t \in Int /\ (t \in rows \/ t < expired)
      BY <2>2 DEF ToppingUp, RowTimes
    <3> QED
      BY <1>2, <3>1
  <2> QED
    BY <2>1, <2>2 DEF ToppingUp
<1> QED
  BY <1>1, <1>3, <1>4 DEF GoodJob

(* A step keeps the invariant when the tables grow and the job that it     *)
(* moves is left good.                                                     *)
LEMMA StepsKeep ==
  ASSUME IInv, UNCHANGED world, clock <= clock', clock' \in 0..MaxTime,
         stored' \subseteq Candles, partial' \subseteq Candles,
         rows \subseteq rows', rows' \subseteq RowTimes, table = "candles" => rows' = rows,
         expired <= expired', expired' \in 0..MaxTime, failures' \in 0..MaxFailures,
         SeriesHasNoHoles',
         job' = job \/ \E a \in Actors : \E next \in Jobs : Goes(a, next) /\ GoodJob(next)'
  PROVE  IInv'
<1>1. TypeInv /\ NoSeries /\ table' = table /\ exists' = exists /\ job \in [Actors -> Jobs]
  BY DEF IInv, TypeInv, world
<1>2. job' \in [Actors -> Jobs]
  BY <1>1 DEF Goes
<1>3. TypeInv'
  BY <1>1, <1>2 DEF TypeInv
<1>4. ASSUME NEW b \in Actors PROVE GoodJob(job[b])'
  <2>1. job[b] \in Jobs /\ GoodJob(job[b])
    BY <1>1 DEF IInv
  <2>2. \A j \in Jobs : GoodJob(j) => GoodJob(j)'
    BY <1>1, <1>3, GoodStays
  <2>3. CASE job'[b] = job[b]
    <3>1. PICK j : j = job[b]
      OBVIOUS
    <3>2. GoodJob(j)'
      BY <2>1, <2>2, <3>1
    <3> QED
      BY <2>3, <3>1, <3>2
  <2>4. CASE \E next \in Jobs : job'[b] = next /\ GoodJob(next)'
    BY <2>4
  <2> QED
    BY <1>1, <2>3, <2>4 DEF Goes
<1>5. NoSeries'
  BY <1>1 DEF NoSeries
<1> QED
  BY <1>3, <1>4, <1>5 DEF IInv

(* backfill_candles finds the gaps of its range and begins with the first. *)
LEMMA BeginCandlesKeeps ==
  ASSUME IInv, NEW a \in Actors, NEW start \in Int, NEW end \in Int,
         -Depth <= start, end <= clock + MaxAhead, BeginCandles(a, start, end)
  PROVE  IInv'
<1> DEFINE low == AlignToGrid(start)
           high == LastClosed(end)
           times == OpenTimes(stored \cup partial)
           gaps == FindGaps(times, low, high)
           after == [Idle EXCEPT !.step = "fetch", !.low = low, !.high = high,
                                !.gaps = gaps, !.cursor = gaps[1].start]
<1>1. /\ TypeInv /\ table = "candles" /\ clock \in Int /\ clock <= MaxTime
      /\ stored \cup partial \in SUBSET Int
  BY DEF IInv, TypeInv, BeginCandles, Candles
<1>2. low \in Grid /\ low \in Int /\ -(Depth + Interval) <= low
  BY AlignsToGrid, GridSteps
<1>3. high \in Grid /\ high \in Int /\ high <= MaxTime + MaxAhead
  <2>1. AlignToGrid(end) \in Grid /\ AlignToGrid(end) <= end /\ AlignToGrid(end) \in Int
    BY AlignsToGrid, GridSteps
  <2>2. high = AlignToGrid(end) - Interval
    BY DEF LastClosed
  <2> QED
    BY <1>1, <2>1, <2>2, GridSteps
<1>4. times \in SUBSET Grid
  BY <1>1, OpenTimesOnGrid
<1>5. gaps # <<>> /\ Goes(a, after) /\ UNCHANGED <<clock, world, tables, failures, expired>>
  BY DEF BeginCandles
<1> HIDE DEF low, high, times
<1>6. GapsOf(gaps, low, high, times)
  BY <1>2, <1>3, <1>4, FindsGaps
<1> HIDE DEF gaps
<1>7. gaps \in Seq(Gaps) /\ Apart(gaps) /\ Between(gaps, low, high)
  BY <1>6 DEF GapsOf
<1> DEFINE first == gaps[1].start
<1>8. first \in Grid /\ first \in Int /\ first <= gaps[1].end
  <2>1. 1 \in 1..Len(gaps)
    BY <1>5, <1>7
  <2>2. gaps[1] \in Gaps
    BY <1>7, <2>1
  <2> QED
    BY <1>7, <2>1, <2>2, GridSteps DEF Gaps, Between
<1>9. PICK next : next = after /\ next \in Jobs /\ next.step = "fetch" /\ next.low = low /\ next.high = high
                  /\ next.gaps = gaps /\ next.cursor = first /\ next.batch = {} /\ next.forming = {}
  <2> DEFINE c == first
  <2>1. c \in Int /\ after = [Idle EXCEPT !.step = "fetch", !.low = low, !.high = high, !.gaps = gaps, !.cursor = c]
    BY <1>8
  <2> HIDE DEF after, c
  <2>2. after \in Jobs
    BY <1>2, <1>3, <1>7, <2>1, IdleIsGood DEF Jobs
  <2>3. /\ after.step = "fetch" /\ after.low = low /\ after.high = high
        /\ after.gaps = gaps /\ after.cursor = c /\ after.batch = {} /\ after.forming = {}
    BY <2>1, IdleIsGood, IdleFields DEF Jobs
  <2> QED
    BY <2>2, <2>3 DEF c
<1> HIDE DEF after
<1>10. FillsGaps(next)'
  <2> HIDE DEF first
  <2>1. first = gaps[1].start
    BY DEF first
  <2> QED
    BY <1>2, <1>3, <1>5, <1>7, <1>8, <1>9, <2>1 DEF FillsGaps
<1>11. GoodJob(next)'
  BY <1>1, <1>5, <1>9, <1>10 DEF GoodJob, world
<1>12. UNCHANGED <<world, clock, stored, partial, rows, expired, failures>>
  BY <1>5 DEF tables
<1>13. SeriesHasNoHoles'
  BY <1>12 DEF SeriesHasNoHoles, IInv
<1> QED
  BY <1>5, <1>9, <1>11, <1>12, <1>13, StepsKeep DEF IInv, TypeInv

(* The end of a batch is on the grid, and not before the cursor.           *)
LEMMA BatchEnds ==
  ASSUME NEW j \in Jobs, FillsGaps(j)
  PROVE  LET last == Head(j.gaps).end
             window == j.cursor + (Limit - 1) * Interval
             batchEnd == IF last < window THEN last ELSE window
         IN /\ batchEnd \in Grid /\ batchEnd \in Int /\ batchEnd + Interval \in Grid
            /\ j.cursor <= batchEnd + Interval /\ batchEnd <= last /\ last <= j.high
<1>1. 1 \in 1..Len(j.gaps) /\ Head(j.gaps) = j.gaps[1] /\ j.gaps[1].end \in Grid /\ j.gaps[1].end <= j.high
      /\ j.cursor \in Int
  BY GapFacts
<1>2. j.cursor \in Grid /\ j.cursor <= j.gaps[1].end
  BY DEF FillsGaps
<1> DEFINE last == Head(j.gaps).end
           window == j.cursor + (Limit - 1) * Interval
<1>3. window \in Grid
  <2>1. Limit - 1 \in Int
    OBVIOUS
  <2> QED
    BY <1>2, <2>1, GridSums
<1>4. (Limit - 1) * Interval \in Nat
  OBVIOUS
<1>5. j.cursor <= window
  BY <1>1, <1>4
<1>6. last \in Grid /\ last <= j.high /\ j.cursor <= last
  BY <1>1, <1>2
<1> DEFINE batchEnd == IF last < window THEN last ELSE window
<1> HIDE DEF last, window
<1>7. last \in Int /\ window \in Int
  BY <1>3, <1>6, GridSteps
<1>8. batchEnd \in Grid /\ j.cursor <= batchEnd /\ batchEnd <= last
  BY <1>1, <1>3, <1>5, <1>6, <1>7
<1> HIDE DEF batchEnd
<1>9. batchEnd \in Int /\ batchEnd + Interval \in Grid
  BY <1>8, GridSteps
<1>10. j.cursor <= batchEnd + Interval
  BY <1>1, <1>8, <1>9
<1> QED
  BY <1>6, <1>8, <1>9, <1>10 DEF batchEnd, last, window

(* _fill_gap asks for the next batch, or goes on behind an empty one.      *)
LEMMA FetchCandlesKeeps ==
  ASSUME IInv, NEW a \in Actors, FetchCandles(a)
  PROVE  IInv'
<1> DEFINE j == job[a]
           last == Head(j.gaps).end
           window == j.cursor + (Limit - 1) * Interval
           batchEnd == IF last < window THEN last ELSE window
           klines == Klines(j.cursor, batchEnd + Interval - 1)
           batched == [j EXCEPT !.step = "commit", !.batch = klines,
                                !.forming = {k \in klines : ~IsClosed(k)}]
           after == IF klines = {} THEN Advanced(j, batchEnd + Interval) ELSE batched
<1>1. /\ TypeInv /\ j \in Jobs /\ GoodJob(j) /\ j.step = "fetch" /\ table = "candles"
  BY DEF IInv, TypeInv, FetchCandles
<1>2. FillsGaps(j)
  BY <1>1 DEF GoodJob
<1>3. Goes(a, after) /\ UNCHANGED <<clock, world, tables, failures, expired>>
  BY DEF FetchCandles
<1>4. batchEnd \in Grid /\ batchEnd + Interval \in Grid /\ j.cursor <= batchEnd + Interval
  BY <1>1, <1>2, BatchEnds
<1>5. klines \subseteq exists /\ \A k \in klines : j.cursor <= k * Interval
  BY DEF Klines
<1> HIDE DEF j, batchEnd, klines
<1>6. ASSUME klines = {} PROVE after \in Jobs /\ (after = Idle \/ (after.step = "fetch" /\ FillsGaps(after)))
  BY <1>1, <1>2, <1>4, <1>6, AdvancedIsGood
<1>7. ASSUME klines # {} PROVE after \in Jobs /\ after.step = "commit" /\ FillsGaps(after)
  <2>1. after = batched
    BY <1>7
  <2>2. klines \in SUBSET Int
    BY <1>1, <1>5 DEF TypeInv, Candles
  <2>3. /\ after \in Jobs /\ after.step = "commit" /\ after.low = j.low /\ after.high = j.high
        /\ after.gaps = j.gaps /\ after.cursor = j.cursor
        /\ after.batch = klines /\ after.forming \subseteq klines
    BY <1>1, <2>1, <2>2 DEF Jobs
  <2> HIDE DEF after
  <2>4. FillsGaps(after)
    BY <1>2, <1>5, <1>7, <2>3 DEF FillsGaps
  <2> QED
    BY <2>3, <2>4
<1> HIDE DEF after
<1>8. PICK next : next = after /\ next \in Jobs /\ (next = Idle \/ (next.step # "idle" /\ FillsGaps(next)))
  BY <1>6, <1>7
<1>9. UNCHANGED <<world, table, exists, clock, stored, partial, rows, expired, failures>>
  BY <1>3 DEF tables, world
<1>10. GoodJob(next)'
  <2>1. FillsGaps(next) => FillsGaps(next)'
    BY <1>9 DEF FillsGaps
  <2>2. next = Idle => GoodJob(next)'
    BY IdleIsGood DEF GoodJob
  <2> QED
    BY <1>1, <1>8, <1>9, <2>1, <2>2 DEF GoodJob
<1>11. SeriesHasNoHoles'
  BY <1>9 DEF SeriesHasNoHoles, IInv
<1> QED
  BY <1>3, <1>8, <1>9, <1>10, <1>11, StepsKeep DEF IInv, TypeInv

(* A committed batch ends at a candle; the next fetch is behind it.        *)
LEMMA BatchCommitted ==
  ASSUME TypeInv, NEW j \in Jobs, FillsGaps(j), j.step = "commit"
  PROVE  /\ Max(j.batch) \in j.batch /\ \A k \in j.batch : k <= Max(j.batch)
         /\ NextFetch(j.batch) \in Grid /\ j.cursor <= NextFetch(j.batch)
         /\ NextFetch(j.batch) = (Max(j.batch) + 1) * Interval
<1> DEFINE n == MaxTime \div Interval
           last == Max(j.batch)
<1>1. /\ n \in Int /\ j.batch \in SUBSET (0..n) /\ j.batch # {} /\ j.cursor \in Int
      /\ \A k \in j.batch : j.cursor <= k * Interval
  <2>1. j.batch # {} /\ (\A k \in j.batch : j.cursor <= k * Interval) /\ j.batch \subseteq exists
    BY DEF FillsGaps
  <2>2. exists \subseteq 0..n
    BY DEF TypeInv, Candles
  <2>3. n \in Int
    OBVIOUS
  <2>4. j.cursor \in Int
    BY DEF Jobs
  <2> QED
    BY <2>1, <2>2, <2>3, <2>4
<1> HIDE DEF n
<1>2. last \in j.batch /\ \A k \in j.batch : k <= last
  <2>1. 0 \in Int
    OBVIOUS
  <2> QED
    BY <1>1, <2>1, LatestExists
<1>3. last \in Int /\ j.cursor <= last * Interval
  BY <1>1, <1>2
<1>4. NextFetch(j.batch) = (last + 1) * Interval
  BY DEF NextFetch
<1> HIDE DEF last
<1>5. (last + 1) * Interval = last * Interval + Interval /\ last * Interval \in Int
      /\ last + 1 \in Int
  BY <1>3
<1>6. (last + 1) * Interval \in Grid
  BY <1>5, GridSteps
<1>7. j.cursor <= (last + 1) * Interval
  BY <1>1, <1>3, <1>5
<1> QED
  BY <1>2, <1>4, <1>6, <1>7 DEF last

(* A batch is committed, and the next request is behind it.                *)
LEMMA CommitCandlesKeeps ==
  ASSUME IInv, NEW a \in Actors, CommitCandles(a)
  PROVE  IInv'
<1> DEFINE j == job[a]
           after == Advanced(j, NextFetch(j.batch))
<1>1. /\ TypeInv /\ j \in Jobs /\ GoodJob(j) /\ j.step = "commit" /\ table = "candles"
  BY DEF IInv, TypeInv, CommitCandles
<1>2. FillsGaps(j)
  BY <1>1 DEF GoodJob
<1>3. /\ Goes(a, after) /\ UNCHANGED <<clock, world, rows, failures, expired>>
      /\ stored' = (stored \ j.forming) \cup (j.batch \ j.forming)
      /\ partial' = (partial \ (j.batch \ j.forming)) \cup j.forming
  BY DEF CommitCandles
<1> HIDE DEF j
<1>4. PICK next : next = after /\ next \in Jobs /\ (next = Idle \/ (next.step = "fetch" /\ FillsGaps(next)))
  <2>1. NextFetch(j.batch) \in Grid /\ j.cursor <= NextFetch(j.batch)
    BY <1>1, <1>2, BatchCommitted
  <2> QED
    BY <1>1, <1>2, <2>1, AdvancedIsGood
<1> HIDE DEF after
<1>5. table' = table /\ exists' = exists /\ UNCHANGED <<world, clock, rows, expired, failures>>
  BY <1>3 DEF world
<1>6. GoodJob(next)'
  <2>1. FillsGaps(next) => FillsGaps(next)'
    BY <1>5 DEF FillsGaps
  <2>2. next = Idle => GoodJob(next)'
    BY IdleIsGood DEF GoodJob
  <2> QED
    BY <1>1, <1>4, <1>5, <2>1, <2>2 DEF GoodJob
<1>7. stored' \subseteq Candles /\ partial' \subseteq Candles
  BY <1>1, <1>2, <1>3 DEF TypeInv, FillsGaps
<1>8. SeriesHasNoHoles'
  BY <1>5 DEF SeriesHasNoHoles, IInv
<1> QED
  BY <1>3, <1>4, <1>5, <1>6, <1>7, <1>8, StepsKeep DEF IInv, TypeInv

(* The worker touches the candles' table alone.                            *)
LEMMA WorkerStoresKeeps ==
  ASSUME IInv, WorkerStores
  PROVE  IInv'
<1>1. /\ stored' \subseteq Candles /\ partial' \subseteq Candles
      /\ UNCHANGED <<clock, world, rows, job, failures, expired>>
  BY DEF WorkerStores, IInv, TypeInv
<1>2. SeriesHasNoHoles'
  BY <1>1 DEF SeriesHasNoHoles, IInv
<1> QED
  BY <1>1, <1>2, StepsKeep DEF IInv, TypeInv

(* A top-up begins behind the latest row, or where the retention does.     *)
LEMMA BeginSeriesKeeps ==
  ASSUME IInv, NEW a \in Actors, BeginSeries(a)
  PROVE  IInv'
<1> DEFINE floor == IF clock < Retention THEN 0 ELSE clock - Retention
           behind == IF rows = {} THEN 0 ELSE StartBehind(Max(rows))
           start == IF behind < floor THEN floor ELSE behind
           begun == [Idle EXCEPT !.step = "fetch", !.high = clock, !.cursor = start]
           after == IF start > clock THEN Idle ELSE begun
<1>1. /\ TypeInv /\ SeriesHasNoHoles /\ table = "series"
      /\ expired' = IF expired < floor THEN floor ELSE expired
      /\ Goes(a, after) /\ UNCHANGED <<clock, world, tables, failures>>
  BY DEF IInv, BeginSeries
<1>2. clock \in 0..MaxTime /\ clock \in Int /\ expired \in 0..MaxTime /\ rows \subseteq RowTimes
  BY <1>1 DEF TypeInv
<1>3. floor \in 0..MaxTime /\ floor \in Int
  BY <1>2
<1> HIDE DEF floor
<1>4. expired' \in 0..MaxTime /\ expired <= expired' /\ floor <= expired'
  BY <1>1, <1>2, <1>3
<1>5. behind \in Nat /\ \A t \in RowTimes : t < behind => t \in rows \/ t < expired
  <2>1. CASE rows = {}
    BY <2>1 DEF RowTimes
  <2>2. CASE rows # {}
    <3>1. 0 \in Int /\ MaxTime \in Int /\ rows \in SUBSET (0..MaxTime)
      BY <1>2 DEF RowTimes
    <3>2. Max(rows) \in rows /\ \A t \in rows : t <= Max(rows)
      BY <2>2, <3>1, LatestExists
    <3> DEFINE last == Max(rows)
    <3>3. last \in rows /\ last \in Nat /\ behind = last + 1
      <4>1. last \in 0..MaxTime
        BY <3>1, <3>2
      <4>2. behind = last + 1
        BY <2>2 DEF StartBehind
      <4> QED
        BY <3>2, <4>1, <4>2
    <3> HIDE DEF last, behind
    <3>4. ASSUME NEW t \in RowTimes, t < behind PROVE t \in rows \/ t < expired
      <4>1. t \in Int /\ (t = last \/ t < last)
        BY <3>3, <3>4 DEF RowTimes
      <4> QED
        BY <1>1, <3>3, <4>1 DEF SeriesHasNoHoles
    <3> QED
      BY <3>3, <3>4
  <2> QED
    BY <2>1, <2>2
<1> HIDE DEF behind
<1>6. start \in Nat /\ \A t \in RowTimes : t < start => t \in rows \/ t < expired'
  <2>1. start \in Nat
    BY <1>3, <1>5
  <2>2. ASSUME NEW t \in RowTimes, t < start PROVE t \in rows \/ t < expired'
    <3>1. t \in Int
      BY DEF RowTimes
    <3>2. t < floor \/ t < behind
      BY <2>2
    <3> QED
      BY <1>2, <1>3, <1>4, <1>5, <3>1, <3>2
  <2> QED
    BY <2>1, <2>2
<1> HIDE DEF start
<1>7. UNCHANGED <<table, world, clock, stored, partial, rows, failures>>
  BY <1>1 DEF tables, world
<1>8. \E next \in Jobs : next = after /\ GoodJob(next)'
  <2>1. CASE start > clock
    <3>1. after = Idle /\ Idle \in Jobs /\ GoodJob(Idle)'
      BY <2>1, IdleIsGood DEF GoodJob
    <3> QED
      BY <3>1
  <2>2. CASE ~(start > clock)
    <3>1. after = begun
      BY <2>2
    <3>2. begun = [Idle EXCEPT !.step = "fetch", !.high = clock, !.cursor = start]
      OBVIOUS
    <3> HIDE DEF after, begun
    <3>3. begun \in Jobs /\ begun.step = "fetch" /\ begun.high = clock /\ begun.cursor = start /\ begun.gaps = <<>>
      <4>1. start \in Int
        BY <1>6
      <4>2. begun \in Jobs
        BY <1>2, <3>2, <4>1, IdleIsGood DEF Jobs
      <4>3. begun.step = "fetch" /\ begun.high = clock /\ begun.cursor = start /\ begun.gaps = Idle.gaps
        BY <3>2, IdleIsGood DEF Jobs
      <4> QED
        BY <4>2, <4>3, IdleFields
    <3>4. PICK next : /\ next = after /\ next \in Jobs /\ next.step = "fetch"
                      /\ next.high = clock /\ next.cursor = start /\ next.gaps = <<>>
      BY <3>1, <3>3
    <3>5. ToppingUp(next)'
      BY <1>2, <1>6, <1>7, <2>2, <3>4 DEF ToppingUp
    <3> QED
      BY <1>1, <1>7, <3>4, <3>5 DEF GoodJob
  <2> QED
    BY <2>1, <2>2
<1> HIDE DEF after
<1>9. SeriesHasNoHoles'
  <2> SUFFICES ASSUME NEW t \in RowTimes, t \notin rows, \E u \in rows : u > t
               PROVE  t < expired'
    BY <1>7 DEF SeriesHasNoHoles
  <2>1. t < expired /\ t \in Int
    BY <1>1 DEF SeriesHasNoHoles, RowTimes
  <2> QED
    BY <1>2, <1>4, <2>1
<1> QED
  BY <1>1, <1>2, <1>4, <1>7, <1>8, <1>9, StepsKeep DEF IInv, TypeInv

(* A top-up goes on right behind its window, or has come to its end.       *)
LEMMA WindowsFollow ==
  ASSUME NEW j \in Jobs, ToppingUp(j)
  PROVE  LET next == NextWindow(j) IN
         /\ WindowEnd(j) \in Int /\ WindowEnd(j) <= j.high
         /\ WindowEnd(j) <= j.cursor + RowLimit * RowPeriod - 1 /\ j.cursor \in Nat
         /\ next \in Jobs
         /\ \/ next = Idle
            \/ /\ next.step = "fetch" /\ next.gaps = <<>> /\ next.high = j.high
               /\ next.cursor = WindowEnd(j) + 1 /\ 0 <= next.cursor /\ next.cursor <= next.high
<1> DEFINE last == WindowEnd(j)
           next == NextWindow(j)
           behind == [j EXCEPT !.step = "fetch", !.cursor = last + 1, !.batch = {}]
<1>1. j.cursor \in Nat /\ j.high \in Int /\ j.cursor <= j.high /\ j.gaps = <<>>
  BY DEF ToppingUp, Jobs
<1>2. RowLimit * RowPeriod \in Nat /\ RowLimit * RowPeriod >= 1
  OBVIOUS
<1>3. /\ last \in Int /\ last <= j.high /\ last <= j.cursor + RowLimit * RowPeriod - 1
      /\ 0 <= last + 1
  <2> DEFINE n == RowLimit * RowPeriod
  <2>1. last = IF j.cursor + n - 1 < j.high THEN j.cursor + n - 1 ELSE j.high
    BY DEF WindowEnd
  <2>2. n \in Nat /\ n >= 1
    BY <1>2
  <2> HIDE DEF last, n
  <2>3. last \in Int /\ last <= j.high /\ last <= j.cursor + n - 1 /\ 0 <= last + 1
    BY <1>1, <2>1, <2>2
  <2> QED
    BY <2>3 DEF n
<1>4. next = IF last < j.high THEN behind ELSE Idle
  BY DEF NextWindow
<1> HIDE DEF last, next
<1>5. CASE last < j.high
  <2>1. next = behind
    BY <1>4, <1>5
  <2> DEFINE c == last + 1
  <2>1a. c \in Int /\ next = [j EXCEPT !.step = "fetch", !.cursor = c, !.batch = {}]
    BY <1>3, <2>1
  <2> HIDE DEF c
  <2>1b. next \in Jobs /\ next.step = "fetch" /\ next.gaps = j.gaps /\ next.high = j.high /\ next.cursor = c
    BY <2>1a DEF Jobs
  <2>2. /\ next \in Jobs /\ next.step = "fetch" /\ next.gaps = <<>> /\ next.high = j.high
        /\ next.cursor = last + 1
    BY <1>1, <2>1b DEF c
  <2>3. 0 <= next.cursor /\ next.cursor <= next.high
    BY <1>1, <1>3, <1>5, <2>2
  <2> QED
    BY <1>1, <1>3, <2>2, <2>3 DEF last, next
<1>6. CASE ~(last < j.high)
  <2>1. next = Idle
    BY <1>4, <1>6
  <2> QED
    BY <1>1, <1>3, <2>1, IdleIsGood DEF last, next
<1> QED
  BY <1>5, <1>6

(* A window is fetched as a whole, or has no rows.                         *)
LEMMA FetchSeriesKeeps ==
  ASSUME IInv, NEW a \in Actors, FetchSeries(a)
  PROVE  IInv'
<1> DEFINE j == job[a]
           within == {t \in RowTimes : j.cursor <= t /\ t <= WindowEnd(j)}
           entries == {t \in within : Cardinality({u \in within : u < t}) < RowLimit}
           batched == [j EXCEPT !.step = "commit", !.batch = entries]
           after == IF entries = {} THEN NextWindow(j) ELSE batched
<1>1. /\ TypeInv /\ j \in Jobs /\ GoodJob(j) /\ j.step = "fetch" /\ table = "series"
  BY DEF IInv, TypeInv, FetchSeries
<1>2. ToppingUp(j)
  BY <1>1 DEF GoodJob
<1>3. Goes(a, after) /\ UNCHANGED <<clock, world, tables, failures, expired>>
  BY DEF FetchSeries
<1>4. UNCHANGED <<table, world, clock, stored, partial, rows, failures, expired>>
  BY <1>3 DEF tables, world
<1>5. clock \in Int /\ j.high <= clock /\ j.cursor \in Int /\ j.high \in Int
  BY <1>1, <1>2 DEF TypeInv, ToppingUp, Jobs
<1> HIDE DEF j
<1>6. /\ WindowEnd(j) \in Int /\ WindowEnd(j) <= j.high
      /\ WindowEnd(j) <= j.cursor + RowLimit * RowPeriod - 1 /\ j.cursor \in Nat
  BY <1>1, <1>2, WindowsFollow
<1>7. entries = within
  <2> DEFINE last == WindowEnd(j)
  <2>1. within = {t \in RowTimes : j.cursor <= t /\ t <= last}
    OBVIOUS
  <2>2. last \in Int /\ last <= j.cursor + RowLimit * RowPeriod - 1 /\ j.cursor \in Nat
    BY <1>6
  <2> HIDE DEF within, last
  <2> QED
    BY <2>1, <2>2, WindowsHaveRoom
<1>8. \E next \in Jobs : next = after /\ GoodJob(next)'
  <2>1. CASE entries = {}
    <3>1. after = NextWindow(j)
      BY <2>1
    <3>2. PICK on :
          /\ on = after /\ on \in Jobs
          /\ \/ on = Idle
             \/ /\ on.step = "fetch" /\ on.gaps = <<>> /\ on.high = j.high
                /\ on.cursor = WindowEnd(j) + 1 /\ 0 <= on.cursor /\ on.cursor <= on.high
      BY <1>1, <1>2, <3>1, WindowsFollow
    <3> HIDE DEF after
    <3>3. ASSUME on # Idle, NEW t \in RowTimes, t < on.cursor PROVE t \in rows \/ t < expired
      <4>1. t \notin within
        BY <1>7, <2>1
      <4>2. t \in Int /\ t <= WindowEnd(j)
        BY <1>6, <3>2, <3>3 DEF RowTimes
      <4>3. t < j.cursor
        BY <1>5, <4>1, <4>2
      <4> QED
        BY <1>2, <4>3 DEF ToppingUp
    <3>4. ASSUME on # Idle PROVE ToppingUp(on)'
      BY <1>4, <1>5, <3>2, <3>3, <3>4 DEF ToppingUp
    <3>5. on = Idle => GoodJob(on)'
      BY IdleIsGood DEF GoodJob
    <3>6. GoodJob(on)'
      BY <1>1, <1>4, <3>2, <3>4, <3>5 DEF GoodJob
    <3> QED
      BY <3>2, <3>6
  <2>2. CASE entries # {}
    <3>1. after = batched
      BY <2>2
    <3>2. entries \in SUBSET Int
      BY <1>7 DEF RowTimes
    <3> HIDE DEF entries
    <3>3. PICK next : /\ next = after /\ next \in Jobs /\ next.step = "commit" /\ next.gaps = j.gaps
                      /\ next.cursor = j.cursor /\ next.high = j.high /\ next.batch = entries
      <4> HIDE DEF entries, after
      <4>1. /\ after \in Jobs /\ after.step = "commit" /\ after.gaps = j.gaps
            /\ after.cursor = j.cursor /\ after.high = j.high /\ after.batch = entries
        BY <1>1, <3>1, <3>2 DEF Jobs
      <4> QED
        BY <4>1
    <3> HIDE DEF after
    <3>4. WindowEnd(next) = WindowEnd(j)
      BY <3>3 DEF WindowEnd
    <3>5. ToppingUp(next)'
      <4>1. next.batch = {t \in RowTimes : next.cursor <= t /\ t <= WindowEnd(next)}
        BY <1>7, <3>3, <3>4
      <4> QED
        BY <1>2, <1>4, <3>3, <4>1 DEF ToppingUp
    <3> QED
      BY <1>1, <1>4, <3>3, <3>5 DEF GoodJob
  <2> QED
    BY <2>1, <2>2
<1> HIDE DEF after
<1>9. SeriesHasNoHoles'
  BY <1>4 DEF SeriesHasNoHoles, IInv
<1> QED
  BY <1>3, <1>4, <1>5, <1>8, <1>9, StepsKeep DEF IInv, TypeInv

(* A window is committed behind rows that are all there.                   *)
LEMMA CommitSeriesKeeps ==
  ASSUME IInv, NEW a \in Actors, CommitSeries(a)
  PROVE  IInv'
<1> DEFINE j == job[a]
           after == NextWindow(j)
<1>1. /\ TypeInv /\ SeriesHasNoHoles /\ j \in Jobs /\ GoodJob(j) /\ j.step = "commit" /\ table = "series"
  BY DEF IInv, TypeInv, CommitSeries
<1>2. ToppingUp(j) /\ j.batch = {t \in RowTimes : j.cursor <= t /\ t <= WindowEnd(j)}
  BY <1>1 DEF GoodJob, ToppingUp
<1>3. /\ Goes(a, after) /\ rows' = rows \cup j.batch
      /\ UNCHANGED <<clock, world, stored, partial, failures, expired>>
  BY DEF CommitSeries
<1>4. table' = table
  BY <1>3 DEF world
<1>5. clock \in Int /\ j.high <= clock /\ j.cursor \in Int /\ j.high \in Int
  BY <1>1, <1>2 DEF TypeInv, ToppingUp, Jobs
<1> HIDE DEF j
<1>6. PICK next :
      /\ next = after /\ WindowEnd(j) \in Int /\ WindowEnd(j) <= j.high /\ next \in Jobs
      /\ \/ next = Idle
         \/ /\ next.step = "fetch" /\ next.gaps = <<>> /\ next.high = j.high
            /\ next.cursor = WindowEnd(j) + 1 /\ 0 <= next.cursor /\ next.cursor <= next.high
  BY <1>1, <1>2, WindowsFollow
<1> HIDE DEF after
<1>7. ASSUME NEW t \in RowTimes, t <= WindowEnd(j) PROVE t \in rows' \/ t < expired
  <2>1. t \in Int
    BY DEF RowTimes
  <2>2. CASE t < j.cursor
    BY <1>2, <1>3, <2>2 DEF ToppingUp
  <2>3. CASE ~(t < j.cursor)
    <3>1. j.cursor <= t
      BY <1>5, <2>1, <2>3
    <3> QED
      BY <1>2, <1>3, <1>7, <3>1
  <2> QED
    BY <2>2, <2>3
<1>8. GoodJob(next)'
  <2>1. ASSUME next # Idle PROVE ToppingUp(next)'
    <3>1. ASSUME NEW t \in RowTimes, t < next.cursor PROVE t \in rows' \/ t < expired'
      <4>1. t <= WindowEnd(j)
        BY <1>6, <2>1, <3>1 DEF RowTimes
      <4> QED
        BY <1>3, <1>7, <4>1
    <3> QED
      BY <1>3, <1>5, <1>6, <2>1, <3>1 DEF ToppingUp
  <2>2. next = Idle => GoodJob(next)'
    BY IdleIsGood DEF GoodJob
  <2> QED
    BY <1>1, <1>4, <1>6, <2>1, <2>2 DEF GoodJob
<1>9. SeriesHasNoHoles'
  <2> SUFFICES ASSUME NEW t \in RowTimes, t \notin rows', NEW u \in rows', u > t
               PROVE  t < expired'
    BY DEF SeriesHasNoHoles
  <2>1. CASE u \in rows
    BY <1>1, <1>3, <2>1 DEF SeriesHasNoHoles
  <2>2. CASE u \in j.batch
    <3>1. t \in Int /\ u \in Int /\ u <= WindowEnd(j)
      BY <1>2, <2>2 DEF RowTimes
    <3>2. t <= WindowEnd(j)
      BY <1>6, <3>1
    <3> QED
      BY <1>3, <1>7, <3>2
  <2> QED
    BY <1>3, <2>1, <2>2
<1>10. rows' \subseteq RowTimes
  BY <1>1, <1>2, <1>3 DEF TypeInv
<1> QED
  BY <1>1, <1>3, <1>5, <1>6, <1>8, <1>9, <1>10, StepsKeep DEF TypeInv

(* What fails leaves an idle actor and what was committed.                 *)
LEMMA JobFailsKeeps ==
  ASSUME IInv, NEW a \in Actors, JobFails(a)
  PROVE  IInv'
<1>1. /\ Goes(a, Idle) /\ failures' = failures + 1 /\ failures < MaxFailures
      /\ UNCHANGED <<clock, world, stored, partial, rows, expired>>
  BY DEF JobFails, tables
<1>2. Idle \in Jobs /\ GoodJob(Idle)'
  BY IdleIsGood DEF GoodJob
<1>3. SeriesHasNoHoles'
  BY <1>1 DEF SeriesHasNoHoles, IInv
<1>4. failures' \in 0..MaxFailures
  BY <1>1 DEF IInv, TypeInv
<1> QED
  BY <1>1, <1>2, <1>3, <1>4, StepsKeep DEF IInv, TypeInv

(* Time goes by.                                                           *)
LEMMA TickKeeps ==
  ASSUME IInv, Tick
  PROVE  IInv'
<1>1. /\ clock' = clock + 1 /\ clock < MaxTime
      /\ UNCHANGED <<world, stored, partial, rows, job, failures, expired>>
  BY DEF Tick, tables
<1>2. SeriesHasNoHoles'
  BY <1>1 DEF SeriesHasNoHoles, IInv
<1>3. clock' \in 0..MaxTime /\ clock <= clock'
  BY <1>1 DEF IInv, TypeInv
<1> QED
  BY <1>1, <1>2, <1>3, StepsKeep DEF IInv, TypeInv

(* Every action.                                                           *)
LEMMA NextKeeps == IInv /\ [Next]_vars => IInv'
<1> SUFFICES ASSUME IInv, [Next]_vars PROVE IInv'
  OBVIOUS
<1>0. clock \in Int /\ 0 <= clock
  BY DEF IInv, TypeInv
<1>1. ASSUME NEW a \in Actors, TopUp(a) PROVE IInv'
  <2>1. clock - Depth \in Int /\ -Depth <= clock - Depth /\ clock <= clock + MaxAhead
    BY <1>0
  <2>2. BeginCandles(a, clock - Depth, clock)
    BY <1>1 DEF TopUp
  <2> QED
    BY <1>0, <2>1, <2>2, BeginCandlesKeeps
<1>2. ASSUME NEW a \in Actors, RangeGiven(a) PROVE IInv'
  <2>1. PICK start \in 0..clock : \E end \in 0..clock + MaxAhead : BeginCandles(a, start, end)
    BY <1>2 DEF RangeGiven
  <2>2. PICK end \in 0..clock + MaxAhead : BeginCandles(a, start, end)
    BY <2>1
  <2>3. start \in Int /\ -Depth <= start /\ end \in Int /\ end <= clock + MaxAhead
    BY <1>0
  <2> QED
    BY <2>2, <2>3, BeginCandlesKeeps
<1>3. ASSUME NEW a \in Actors, BeginSeries(a) PROVE IInv'
  BY <1>3, BeginSeriesKeeps
<1>4. ASSUME NEW a \in Actors, JobSteps(a) PROVE IInv'
  BY <1>4, FetchCandlesKeeps, CommitCandlesKeeps, FetchSeriesKeeps, CommitSeriesKeeps DEF JobSteps
<1>5. ASSUME NEW a \in Actors, JobFails(a) PROVE IInv'
  BY <1>5, JobFailsKeeps
<1>6. CASE WorkerStores
  BY <1>6, WorkerStoresKeeps
<1>7. CASE Tick
  BY <1>7, TickKeeps
<1>8. CASE UNCHANGED vars
  <2>1. /\ UNCHANGED <<table, exists, clock, stored, partial, rows, job, failures, expired>>
        /\ UNCHANGED <<world, tables>>
    BY <1>8 DEF vars, world, tables
  <2>2. SeriesHasNoHoles'
    BY <2>1 DEF SeriesHasNoHoles, IInv
  <2> QED
    BY <1>0, <2>1, <2>2, StepsKeep DEF IInv, TypeInv
<1> QED
  BY <1>1, <1>2, <1>3, <1>4, <1>5, <1>6, <1>7, <1>8 DEF Next

(* In every state of the system: the tables hold what they are for, jobs   *)
(* work their way through their ranges, and the series has no holes.       *)
THEOREM Invariance == Spec => []IInv
<1> QED
  BY InitGood, NextKeeps, PTL DEF Spec

(* State is well-formed, and cursors stay within what was asked for, on    *)
(* the grid points that a back-fill aligns to (backfill.py).               *)
THEOREM TypeCorrect == Spec => []TypeOK
<1>1. IInv => TypeOK
  <2> SUFFICES ASSUME IInv PROVE TypeOK
    OBVIOUS
  <2>1. TypeInv /\ DOMAIN job = Actors /\ clock \in Int /\ clock <= MaxTime /\ 0 <= clock
    BY DEF IInv, TypeInv
  <2>2. ASSUME NEW a \in Actors
        PROVE  /\ job[a].step \in {"idle", "fetch", "commit"}
               /\ job[a].cursor \in -(Depth + Interval)..MaxTime + MaxAhead
               /\ \A i \in DOMAIN job[a].gaps : job[a].gaps[i].start <= job[a].gaps[i].end
    <3> DEFINE j == job[a]
    <3>1. j \in Jobs /\ GoodJob(j)
      BY <2>1 DEF IInv, TypeInv
    <3>2. table \in {"candles", "series"}
      BY <2>1 DEF TypeInv
    <3> HIDE DEF j
    <3>3. CASE j.step = "idle"
      <4>1. j = Idle /\ 0 \in -(Depth + Interval)..MaxTime + MaxAhead
        BY <3>1, <3>3 DEF GoodJob
      <4>2. DOMAIN Idle.gaps = {}
        BY IdleFields
      <4>3. job[a] = Idle
        BY <4>1 DEF j
      <4> QED
        BY <4>1, <4>2, <4>3, IdleIsGood, IdleFields
    <3>4. CASE FillsGaps(j)
      <4>1. DOMAIN j.gaps = 1..Len(j.gaps)
        BY <3>1 DEF Jobs
      <4>2. j.low \in Int /\ j.high \in Int /\ j.cursor \in Int /\ j.low <= j.cursor /\ j.cursor <= j.high
            /\ \A i \in 1..Len(j.gaps) : j.gaps[i].start <= j.gaps[i].end
        BY <3>1, <3>4, GapFacts
      <4>3. -(Depth + Interval) <= j.low /\ j.high <= MaxTime + MaxAhead
        BY <3>4 DEF FillsGaps
      <4>4. j.cursor \in -(Depth + Interval)..MaxTime + MaxAhead
        BY <4>2, <4>3
      <4> QED
        BY <3>1, <4>1, <4>2, <4>4 DEF Jobs, j
    <3>5. CASE ToppingUp(j)
      <4>1. j.cursor \in Int /\ j.high \in Int /\ j.gaps = <<>> /\ 0 <= j.cursor /\ j.cursor <= j.high /\ j.high <= clock
        BY <3>1, <3>5 DEF ToppingUp, Jobs
      <4>2. j.cursor \in -(Depth + Interval)..MaxTime + MaxAhead
        BY <2>1, <4>1
      <4> QED
        BY <3>1, <4>1, <4>2 DEF Jobs, j
    <3> QED
      BY <3>1, <3>2, <3>3, <3>4, <3>5 DEF GoodJob, j
  <2> QED
    BY <2>1, <2>2 DEF TypeInv, TypeOK
<1> QED
  BY <1>1, Invariance, PTL

(* find_gaps finds the missing candles of any range exactly, whatever is   *)
(* in the table (gaps.py).                                                 *)
THEOREM FindsGapsExactly == Spec => []GapsExact
<1>1. IInv => GapsExact
  BY GapsAreExact DEF IInv, TypeInv
<1> QED
  BY <1>1, Invariance, PTL

(* A top-up of the series leaves no hole behind the latest row but what    *)
(* the exchange no longer had, whatever fails and however many top-ups run *)
(* at a time (the windows of backfill.py).                                 *)
THEOREM NoHolesInSeries == Spec => []SeriesHasNoHoles
<1>1. IInv => SeriesHasNoHoles
  BY DEF IInv
<1> QED
  BY <1>1, Invariance, PTL

-----------------------------------------------------------------------------
(* Ranges that end in the past                                             *)

(* A back-fill that goes on misses none: what is behind the cursor is      *)
(* kept, what lies in the gaps is ahead.                                   *)
LEMMA AdvancedMissesNone ==
  ASSUME TypeInv, NEW j \in Jobs, FillsGaps(j), NEW c \in Grid, j.cursor <= c,
         NEW kept, MissesNone(j, kept),
         \A k \in exists : j.cursor <= k * Interval /\ k * Interval < c /\ k * Interval <= j.high => k \in kept
  PROVE  LET next == Advanced(j, c) IN
         \/ /\ next = Idle
            /\ \A k \in exists : j.low <= k * Interval /\ k * Interval <= j.high => k \in kept
         \/ /\ next.step = "fetch" /\ next.high = j.high /\ next.forming = {}
            /\ MissesNone(next, kept)
<1> DEFINE next == Advanced(j, c)
<1>1. /\ Len(j.gaps) \in Nat /\ Len(j.gaps) >= 1 /\ Head(j.gaps) = j.gaps[1] /\ j.gaps \in Seq(Gaps)
      /\ \A i \in 1..Len(j.gaps) : j.gaps[i].start \in Int /\ j.gaps[i].end \in Int
  BY GapFacts DEF Jobs
<1>2. c \in Int /\ j.cursor \in Int /\ 1 \in 1..Len(j.gaps)
  BY <1>1, GridSteps DEF Jobs
<1>3. ASSUME NEW k \in exists, j.low <= k * Interval, k * Interval <= j.high
      PROVE  /\ k * Interval \in Int
             /\ \/ k \in kept
                \/ c <= k * Interval /\ k * Interval <= j.gaps[1].end
                \/ \E i \in 2..Len(j.gaps) : j.gaps[i].start <= k * Interval /\ k * Interval <= j.gaps[i].end
  <2>1. k \in Int
    BY DEF TypeInv, Candles
  <2> DEFINE t == k * Interval
  <2>2. t \in Int
    BY <2>1
  <2>3. k \in kept \/ Ahead(j, t)
    BY <1>3 DEF MissesNone
  <2>4. j.cursor <= t /\ t < c => k \in kept
    BY <1>3
  <2> HIDE DEF t
  <2>5. \/ k \in kept
        \/ c <= t /\ t <= j.gaps[1].end
        \/ \E i \in 2..Len(j.gaps) : j.gaps[i].start <= t /\ t <= j.gaps[i].end
    BY <1>2, <2>2, <2>3, <2>4 DEF Ahead
  <2> QED
    BY <2>2, <2>5 DEF t
<1>4. CASE c <= Head(j.gaps).end
  <2>1. next = [j EXCEPT !.step = "fetch", !.cursor = c, !.batch = {}, !.forming = {}]
    BY <1>4 DEF Advanced
  <2>2. /\ next.step = "fetch" /\ next.cursor = c /\ next.forming = {}
        /\ next.gaps = j.gaps /\ next.low = j.low /\ next.high = j.high
    BY <2>1 DEF Jobs
  <2> HIDE DEF next
  <2>3. MissesNone(next, kept)
    BY <1>3, <2>2 DEF MissesNone, Ahead
  <2> QED
    BY <2>2, <2>3 DEF next
<1>5. CASE c > Head(j.gaps).end /\ Len(j.gaps) > 1
  <2> DEFINE rest == Tail(j.gaps)
             first == j.gaps[2].start
  <2>1. next = [j EXCEPT !.step = "fetch", !.gaps = rest, !.cursor = first,
                         !.batch = {}, !.forming = {}]
    BY <1>1, <1>2, <1>5 DEF Advanced
  <2>2. Len(rest) = Len(j.gaps) - 1 /\ \A i \in 1..Len(rest) : rest[i] = j.gaps[i + 1]
    <3>1. j.gaps # <<>>
      BY <1>1
    <3> QED
      BY <1>1, <3>1
  <2>3. /\ next.step = "fetch" /\ next.cursor = first /\ next.forming = {}
        /\ next.gaps = rest /\ next.low = j.low /\ next.high = j.high
    BY <2>1 DEF Jobs
  <2> HIDE DEF rest, next
  <2>4. ASSUME NEW k \in exists, next.low <= k * Interval, k * Interval <= next.high, k \notin kept
        PROVE  Ahead(next, k * Interval)
    <3> DEFINE t == k * Interval
    <3>1. /\ t \in Int
          /\ \/ c <= t /\ t <= j.gaps[1].end
             \/ \E i \in 2..Len(j.gaps) : j.gaps[i].start <= t /\ t <= j.gaps[i].end
      BY <1>3, <2>3, <2>4
    <3> HIDE DEF t
    <3>2. ~(c <= t /\ t <= j.gaps[1].end)
      BY <1>1, <1>2, <1>5, <3>1
    <3>3. PICK i \in 2..Len(j.gaps) : j.gaps[i].start <= t /\ t <= j.gaps[i].end
      BY <3>1, <3>2
    <3>4. CASE i = 2
      <4>1. 1 \in 1..Len(rest)
        BY <1>1, <1>5, <2>2
      <4>2. rest[1] = j.gaps[2]
        BY <2>2, <4>1
      <4>3. next.cursor <= t /\ t <= next.gaps[1].end
        BY <2>3, <3>3, <3>4, <4>2
      <4> QED
        BY <4>3 DEF Ahead, t
    <3>5. CASE i # 2
      <4>1. i - 1 \in 2..Len(rest) /\ i - 1 \in 1..Len(rest) /\ (i - 1) + 1 = i
        BY <1>1, <2>2, <3>5
      <4>2. rest[i - 1] = j.gaps[i]
        BY <2>2, <4>1
      <4>3. next.gaps[i - 1].start <= t /\ t <= next.gaps[i - 1].end /\ i - 1 \in 2..Len(next.gaps)
        BY <2>3, <3>3, <4>1, <4>2
      <4> QED
        BY <4>3 DEF Ahead, t
    <3> QED
      BY <3>4, <3>5
  <2>5. MissesNone(next, kept)
    BY <2>4 DEF MissesNone
  <2> QED
    BY <2>3, <2>5 DEF next
<1>6. CASE c > Head(j.gaps).end /\ ~(Len(j.gaps) > 1)
  <2>1. next = Idle
    BY <1>1, <1>2, <1>6 DEF Advanced
  <2>2. ASSUME NEW k \in exists, j.low <= k * Interval, k * Interval <= j.high PROVE k \in kept
    <3> DEFINE t == k * Interval
    <3>1. /\ t \in Int
          /\ \/ k \in kept
             \/ c <= t /\ t <= j.gaps[1].end
             \/ \E i \in 2..Len(j.gaps) : j.gaps[i].start <= t /\ t <= j.gaps[i].end
      BY <1>3, <2>2
    <3> HIDE DEF t
    <3> QED
      BY <1>1, <1>2, <1>6, <3>1
  <2> QED
    BY <2>1, <2>2
<1>7. c <= Head(j.gaps).end \/ c > Head(j.gaps).end
  BY <1>1, <1>2
<1> QED
  BY <1>4, <1>5, <1>6, <1>7

(* What holds of ranges in the past stays when others move.                *)
LEMMA PastStays ==
  ASSUME TypeInv, TypeInv', NEW j \in Jobs, InThePast(j), UNCHANGED world,
         clock <= clock', stored \subseteq stored'
  PROVE  InThePast(j)'
<1>1. exists' = exists
  BY DEF world
<1>2. clock \in Int /\ clock' \in Int /\ j.high + Interval \in Int
  BY DEF TypeInv, Jobs
<1>3. j.high + Interval <= clock => j.high + Interval <= clock'
  BY <1>2
<1>4. MissesNone(j, stored) => MissesNone(j, stored)'
  BY <1>1 DEF MissesNone
<1>5. IsBatch(j) /\ j.batch \subseteq Int => IsBatch(j)'
  <2> SUFFICES ASSUME IsBatch(j), j.batch \subseteq Int PROVE IsBatch(j)'
    OBVIOUS
  <2>1. ASSUME NEW k \in j.batch PROVE IsClosed(k)'
    <3>1. (k + 1) * Interval \in Int /\ (k + 1) * Interval <= clock
      BY DEF IsBatch, IsClosed
    <3> QED
      BY <1>2, <3>1 DEF IsClosed
  <2> QED
    BY <1>1, <2>1 DEF IsBatch
<1> QED
  BY <1>3, <1>4, <1>5 DEF InThePast, Jobs

(* A step of a job whose range ends in the past, and of the others.        *)
LEMMA PastSteps ==
  ASSUME PastInv, IInv', UNCHANGED world, clock <= clock', partial' = {},
         stored \subseteq stored',
         job' = job \/ \E a \in Actors : \E next \in Jobs :
                         Goes(a, next) /\ (table = "candles" => InThePast(next)')
  PROVE  PastInv'
<1>1. TypeInv /\ TypeInv' /\ table' = table /\ MaxAhead = 0 /\ job \in [Actors -> Jobs]
  BY DEF PastInv, IInv, TypeInv, world
<1>2. ASSUME table = "candles", NEW b \in Actors PROVE InThePast(job[b])'
  <2>1. job[b] \in Jobs /\ InThePast(job[b])
    BY <1>1, <1>2 DEF PastInv
  <2>2. \A j \in Jobs : InThePast(j) => InThePast(j)'
    BY <1>1, PastStays
  <2>3. CASE job'[b] = job[b]
    <3>1. PICK j : j = job[b]
      OBVIOUS
    <3>2. InThePast(j)'
      BY <2>1, <2>2, <3>1
    <3> QED
      BY <2>3, <3>1, <3>2
  <2>4. CASE \E next \in Jobs : job'[b] = next /\ InThePast(next)'
    BY <2>4
  <2> QED
    BY <1>1, <1>2, <2>3, <2>4 DEF Goes
<1> QED
  BY <1>1, <1>2 DEF PastInv

(* What is missing from the range is in the gaps, all of which are ahead.  *)
LEMMA BeginCandlesInThePast ==
  ASSUME PastInv, IInv', NEW a \in Actors, NEW start \in Int, NEW end \in Int,
         end <= clock, BeginCandles(a, start, end)
  PROVE  PastInv'
<1> DEFINE low == AlignToGrid(start)
           high == LastClosed(end)
           times == OpenTimes(stored \cup partial)
           gaps == FindGaps(times, low, high)
           after == [Idle EXCEPT !.step = "fetch", !.low = low, !.high = high,
                                !.gaps = gaps, !.cursor = gaps[1].start]
<1>1. /\ TypeInv /\ clock \in Int /\ partial = {} /\ stored \cup partial = stored
      /\ stored \in SUBSET Int /\ exists \in SUBSET Int
  BY DEF PastInv, IInv, TypeInv, Candles
<1>2. low \in Grid /\ low \in Int
  BY AlignsToGrid, GridSteps
<1>3. high \in Grid /\ high \in Int /\ high + Interval <= clock
  <2>1. AlignToGrid(end) \in Grid /\ AlignToGrid(end) <= end /\ AlignToGrid(end) \in Int
    BY AlignsToGrid, GridSteps
  <2>2. high = AlignToGrid(end) - Interval
    BY DEF LastClosed
  <2> QED
    BY <1>1, <2>1, <2>2, GridSteps
<1>4. times \in SUBSET Grid /\ \A k \in Int : k * Interval \in times <=> k \in stored
  BY <1>1, OpenTimesOnGrid
<1>5. Goes(a, after) /\ UNCHANGED <<clock, world, tables, failures, expired>>
  BY DEF BeginCandles
<1> HIDE DEF low, high, times
<1>6. GapsOf(gaps, low, high, times)
  BY <1>2, <1>3, <1>4, FindsGaps
<1> HIDE DEF gaps
<1>7. gaps \in Seq(Gaps) /\ \A t \in Grid : low <= t /\ t <= high => (t \notin times <=> InGap(t, gaps))
  BY <1>6 DEF GapsOf
<1> DEFINE first == gaps[1].start
<1>8. PICK next : /\ next = after
                  /\ next.step = "fetch" /\ next.low = low /\ next.high = high /\ next.gaps = gaps
                  /\ next.cursor = first /\ next.forming = {}
  <2> HIDE DEF first
  <2>1. after = [Idle EXCEPT !.step = "fetch", !.low = low, !.high = high, !.gaps = gaps, !.cursor = first]
    BY DEF first
  <2> HIDE DEF after
  <2>2. /\ after.step = "fetch" /\ after.low = low /\ after.high = high /\ after.gaps = gaps
        /\ after.cursor = first /\ after.forming = {}
    BY <2>1, IdleIsGood, IdleFields DEF Jobs
  <2> QED
    BY <2>2
<1> HIDE DEF after
<1>9. MissesNone(next, stored)
  <2> SUFFICES ASSUME NEW k \in exists, low <= k * Interval, k * Interval <= high, k \notin stored
               PROVE  Ahead(next, k * Interval)
    BY <1>8 DEF MissesNone
  <2>1. k \in Int /\ k * Interval \in Grid /\ k * Interval \notin times
    BY <1>1, <1>4, GridSteps
  <2> DEFINE t == k * Interval
  <2>2. InGap(t, gaps)
    BY <1>7, <2>1
  <2> HIDE DEF t
  <2>3. PICK i \in 1..Len(gaps) : gaps[i].start <= t /\ t <= gaps[i].end
    BY <2>2 DEF InGap
  <2>4. i = 1 \/ i \in 2..Len(gaps)
    OBVIOUS
  <2>5. Ahead(next, t)
    BY <1>8, <2>3, <2>4 DEF Ahead
  <2> QED
    BY <2>5 DEF t
<1>10. next \in Jobs
  <2>1. job' \in [Actors -> Jobs] /\ job'[a] = next
    BY <1>5, <1>8 DEF IInv, TypeInv, PastInv, Goes
  <2> QED
    BY <2>1
<1>11. InThePast(next)
  BY <1>3, <1>8, <1>9 DEF InThePast
<1>12. UNCHANGED <<world, clock, stored, partial>>
  BY <1>5 DEF tables
<1>13. InThePast(next)'
  <2>1. TypeInv'
    BY DEF IInv
  <2> QED
    BY <1>1, <1>10, <1>11, <1>12, <2>1, PastStays
<1> QED
  BY <1>1, <1>5, <1>8, <1>10, <1>12, <1>13, PastSteps

(* The next request of a back-fill: either the answer has a batch of       *)
(* closed candles, or there is none of them in the range asked for.        *)
LEMMA AnswersInThePast ==
  ASSUME TypeInv, NEW j \in Jobs, FillsGaps(j), j.high + Interval <= clock,
         NEW batchEnd \in Grid, batchEnd <= j.high
  PROVE  LET klines == Klines(j.cursor, batchEnd + Interval - 1) IN
         /\ klines = {} => \A k \in exists : ~(j.cursor <= k * Interval /\ k * Interval < batchEnd + Interval
                                                 /\ k * Interval <= j.high)
         /\ \A k \in klines : IsClosed(k)
         /\ \A k \in exists : \A l \in klines : j.cursor <= k * Interval /\ k <= l => k \in klines
<1> DEFINE klines == Klines(j.cursor, batchEnd + Interval - 1)
           within == {k \in exists : /\ j.cursor <= k * Interval
                                     /\ k * Interval <= batchEnd + Interval - 1 /\ k * Interval <= clock}
<1>1. /\ j.cursor \in Int /\ j.high \in Int /\ batchEnd \in Int /\ clock \in Int
      /\ batchEnd + Interval - 1 \in Int /\ exists \in SUBSET Int
  <2>1. batchEnd \in Int
    BY GridSteps
  <2>2. j.cursor \in Int /\ j.high \in Int
    BY DEF Jobs
  <2>3. clock \in Int /\ exists \in SUBSET Int
    BY DEF TypeInv, Candles
  <2> QED
    BY <2>1, <2>2, <2>3
<1>2. /\ klines \subseteq within
      /\ within # {} => klines # {}
      /\ \A k \in within : \A l \in klines : k <= l => k \in klines
  <2>1. PICK start \in Int : start = j.cursor
    BY <1>1
  <2>2. PICK end \in Int : end = batchEnd + Interval - 1
    BY <1>1
  <2>3. klines = Klines(start, end) /\ within = Within(start, end)
    BY <2>1, <2>2 DEF Within
  <2> HIDE DEF klines, within
  <2> QED
    BY <2>3, Answers
<1>3. ASSUME NEW k \in exists
      PROVE  /\ k \in Int /\ k * Interval \in Int /\ k * Interval \in Grid
             /\ (k + 1) * Interval = k * Interval + Interval
  <2>1. k \in Int
    BY <1>1
  <2> QED
    BY <2>1, Multiples, GridSteps
<1> HIDE DEF klines
<1>4. ASSUME klines = {}, NEW k \in exists, j.cursor <= k * Interval, k * Interval < batchEnd + Interval,
             k * Interval <= j.high
      PROVE  FALSE
  <2> DEFINE t == k * Interval
  <2>1. t \in Int /\ t < batchEnd + Interval /\ t <= j.high
    BY <1>3, <1>4
  <2> HIDE DEF t
  <2>2. t <= batchEnd + Interval - 1 /\ t <= clock
    BY <1>1, <2>1
  <2>3. k \in within
    BY <1>4, <2>2 DEF t
  <2> QED
    BY <1>2, <1>4, <2>3
<1>5. ASSUME NEW k \in klines PROVE IsClosed(k)
  <2>1. k \in exists /\ k * Interval <= batchEnd + Interval - 1
    BY <1>2
  <2> DEFINE t == k * Interval
  <2>2. t \in Grid /\ t \in Int /\ t <= batchEnd + Interval - 1 /\ (k + 1) * Interval = t + Interval
    BY <1>3, <2>1
  <2> HIDE DEF t, within
  <2>3. t <= batchEnd
    <3>1. batchEnd < t => batchEnd + Interval <= t
      BY <2>2, GridSteps
    <3> QED
      BY <1>1, <2>2, <3>1
  <2>4. t + Interval <= clock
    BY <1>1, <2>2, <2>3
  <2> QED
    BY <2>2, <2>4 DEF IsClosed
<1>6. ASSUME NEW k \in exists, NEW l \in klines, j.cursor <= k * Interval, k <= l PROVE k \in klines
  <2>1. l \in exists /\ l * Interval <= batchEnd + Interval - 1 /\ l * Interval <= clock
    BY <1>2
  <2> DEFINE t == k * Interval
             u == l * Interval
  <2>2. k \in Int /\ l \in Int /\ t \in Int /\ u \in Int
    BY <1>3, <2>1
  <2>3. t <= u
    <3>1. k = l \/ k < l
      BY <1>6, <2>2
    <3>2. k < l => t < u
      BY <2>2, Multiples
    <3> HIDE DEF t, u
    <3>3. k < l => t <= u
      BY <2>2, <3>2
    <3>4. k = l => t <= u
      BY <2>2 DEF t, u
    <3> QED
      BY <3>1, <3>3, <3>4
  <2>4. t <= batchEnd + Interval - 1 /\ t <= clock
    <3> HIDE DEF t
    <3>1. u <= batchEnd + Interval - 1 /\ u <= clock
      BY <2>1
    <3> HIDE DEF u
    <3> QED
      BY <1>1, <2>2, <2>3, <3>1
  <2>5. k \in within
    BY <1>6, <2>4
  <2> QED
    BY <1>2, <1>6, <2>5
<1> QED
  BY <1>4, <1>5, <1>6 DEF klines

(* All of the exchange's candles of a job's range are in the table.        *)
Complete(j, kept) == \A k \in exists : j.low <= k * Interval /\ k * Interval <= j.high => k \in kept

(* An empty answer misses none; a batch has no candle that is forming.     *)
LEMMA FetchCandlesInThePast ==
  ASSUME PastInv, IInv', NEW a \in Actors, FetchCandles(a)
  PROVE  PastInv' /\ (job'[a].step = "idle" => Complete(job[a], stored'))
<1> DEFINE j == job[a]
           last == Head(j.gaps).end
           window == j.cursor + (Limit - 1) * Interval
           batchEnd == IF last < window THEN last ELSE window
           klines == Klines(j.cursor, batchEnd + Interval - 1)
           batched == [j EXCEPT !.step = "commit", !.batch = klines,
                                !.forming = {k \in klines : ~IsClosed(k)}]
           after == IF klines = {} THEN Advanced(j, batchEnd + Interval) ELSE batched
<1>1. /\ TypeInv /\ j \in Jobs /\ GoodJob(j) /\ j.step = "fetch" /\ table = "candles" /\ InThePast(j)
      /\ partial = {} /\ clock \in Int /\ job \in [Actors -> Jobs]
  BY DEF PastInv, IInv, TypeInv, FetchCandles
<1>2. FillsGaps(j) /\ j.high + Interval <= clock /\ MissesNone(j, stored)
  BY <1>1 DEF GoodJob, InThePast
<1>3. Goes(a, after) /\ UNCHANGED <<clock, world, tables, failures, expired>>
  BY DEF FetchCandles
<1>4. /\ batchEnd \in Grid /\ batchEnd \in Int /\ batchEnd + Interval \in Grid /\ j.cursor <= batchEnd + Interval
      /\ batchEnd <= last /\ last <= j.high /\ last \in Int /\ j.high \in Int
  BY <1>1, <1>2, BatchEnds, GapFacts
<1> HIDE DEF batchEnd, last, j
<1>5. batchEnd <= j.high
  BY <1>4
<1>6. /\ klines = {} => \A k \in exists : ~(j.cursor <= k * Interval /\ k * Interval < batchEnd + Interval
                                               /\ k * Interval <= j.high)
      /\ \A k \in klines : IsClosed(k)
      /\ \A k \in exists : \A l \in klines : j.cursor <= k * Interval /\ k <= l => k \in klines
  BY <1>1, <1>2, <1>4, <1>5, AnswersInThePast
<1> HIDE DEF klines
<1>7. PICK next : next = after /\ next \in Jobs
  <2>1. job' \in [Actors -> Jobs] /\ job'[a] = after
    BY <1>1, <1>3 DEF IInv, TypeInv, Goes
  <2> QED
    BY <2>1
<1>8. ASSUME klines = {} PROVE InThePast(next) /\ (next.step = "idle" => Complete(j, stored))
  <2>1. next = Advanced(j, batchEnd + Interval)
    BY <1>7, <1>8
  <2>2. \A k \in exists : j.cursor <= k * Interval /\ k * Interval < batchEnd + Interval
                            /\ k * Interval <= j.high => k \in stored
    BY <1>6, <1>8
  <2>3. \/ next = Idle /\ \A k \in exists : j.low <= k * Interval /\ k * Interval <= j.high => k \in stored
        \/ /\ next.step = "fetch" /\ next.high = j.high /\ next.forming = {} /\ MissesNone(next, stored)
    BY <1>1, <1>2, <1>4, <2>1, <2>2, AdvancedMissesNone
  <2> QED
    BY <1>2, <2>3, IdleIsGood DEF InThePast, Complete
<1>9. ASSUME klines # {} PROVE InThePast(next) /\ next.step # "idle"
  <2>1. next = batched /\ {k \in klines : ~IsClosed(k)} = {}
    BY <1>6, <1>7, <1>9
  <2>2. /\ next.step = "commit" /\ next.high = j.high /\ next.low = j.low /\ next.forming = {}
        /\ next.gaps = j.gaps /\ next.cursor = j.cursor /\ next.batch = klines
    BY <1>1, <2>1 DEF Jobs
  <2>3. MissesNone(next, stored)
    BY <1>2, <2>2 DEF MissesNone, Ahead
  <2>4. IsBatch(next)
    BY <1>6, <2>2 DEF IsBatch
  <2> QED
    BY <1>2, <2>2, <2>3, <2>4 DEF InThePast
<1> HIDE DEF after
<1>10. InThePast(next) /\ (next.step = "idle" => Complete(j, stored))
  BY <1>8, <1>9
<1>11. UNCHANGED <<world, clock, stored, partial>>
  BY <1>3 DEF tables
<1>12. InThePast(next)'
  <2>1. TypeInv'
    BY DEF IInv
  <2> QED
    BY <1>1, <1>7, <1>10, <1>11, <2>1, PastStays
<1>13. PastInv'
  BY <1>1, <1>3, <1>7, <1>11, <1>12, PastSteps
<1> QED
  BY <1>1, <1>3, <1>7, <1>10, <1>11, <1>13 DEF Goes, j

(* What is behind the batch that is committed was in it.                   *)
LEMMA CommitCandlesInThePast ==
  ASSUME PastInv, IInv', NEW a \in Actors, CommitCandles(a)
  PROVE  /\ PastInv' /\ (job'[a].step = "idle" => Complete(job[a], stored'))
         /\ stored \subseteq stored' /\ stored' = stored \cup job[a].batch
         /\ \A k \in job[a].batch : IsClosed(k)
<1> DEFINE j == job[a]
           c == NextFetch(j.batch)
           after == Advanced(j, c)
<1>1. /\ TypeInv /\ j \in Jobs /\ GoodJob(j) /\ j.step = "commit" /\ table = "candles" /\ InThePast(j)
      /\ partial = {} /\ job \in [Actors -> Jobs]
  BY DEF PastInv, IInv, TypeInv, CommitCandles
<1>2. FillsGaps(j) /\ j.high + Interval <= clock /\ j.forming = {} /\ MissesNone(j, stored) /\ IsBatch(j)
  BY <1>1 DEF GoodJob, InThePast
<1>3. /\ Goes(a, after) /\ UNCHANGED <<clock, world, rows, failures, expired>>
      /\ stored' = (stored \ j.forming) \cup (j.batch \ j.forming)
      /\ partial' = (partial \ (j.batch \ j.forming)) \cup j.forming
  BY DEF CommitCandles
<1>4. stored' = stored \cup j.batch /\ partial' = {} /\ stored \subseteq stored'
  BY <1>1, <1>2, <1>3
<1> HIDE DEF j
<1>5. /\ Max(j.batch) \in j.batch /\ c \in Grid /\ j.cursor <= c /\ c = (Max(j.batch) + 1) * Interval
  BY <1>1, <1>2, BatchCommitted
<1> HIDE DEF c
<1>6. ASSUME NEW k \in exists, j.cursor <= k * Interval, k * Interval < c PROVE k \in stored'
  <2> DEFINE last == Max(j.batch)
  <2>1. last \in j.batch /\ last \in Int /\ k \in Int /\ c = (last + 1) * Interval
    BY <1>1, <1>5 DEF TypeInv, Candles, Jobs
  <2> HIDE DEF last
  <2>2. k < last + 1
    BY <1>6, <2>1, Multiples
  <2>3. k <= last
    BY <2>1, <2>2
  <2>4. k \in j.batch
    BY <1>2, <1>6, <2>1, <2>3 DEF IsBatch
  <2> QED
    BY <1>4, <2>4
<1>7. PICK next : next = after /\ next \in Jobs
  <2>1. job' \in [Actors -> Jobs] /\ job'[a] = after
    BY <1>1, <1>3 DEF IInv, TypeInv, Goes
  <2> QED
    BY <2>1
<1>8. MissesNone(j, stored')
  BY <1>2, <1>4 DEF MissesNone
<1>9. \/ /\ next = Idle
         /\ \A k \in exists : j.low <= k * Interval /\ k * Interval <= j.high => k \in stored'
      \/ /\ next.step = "fetch" /\ next.high = j.high /\ next.forming = {}
         /\ MissesNone(next, stored')
  <2> DEFINE kept == stored'
  <2>1. /\ MissesNone(j, kept)
        /\ \A k \in exists : j.cursor <= k * Interval /\ k * Interval < c /\ k * Interval <= j.high => k \in kept
    BY <1>6, <1>8
  <2> HIDE DEF kept, after
  <2>2. LET on == Advanced(j, c) IN
        \/ on = Idle /\ \A k \in exists : j.low <= k * Interval /\ k * Interval <= j.high => k \in kept
        \/ on.step = "fetch" /\ on.high = j.high /\ on.forming = {} /\ MissesNone(on, kept)
    BY <1>1, <1>2, <1>5, <2>1, AdvancedMissesNone
  <2> QED
    BY <1>7, <2>2 DEF kept, after
<1> HIDE DEF after
<1>10. exists' = exists /\ UNCHANGED <<world, clock>>
  BY <1>3 DEF world
<1>11. InThePast(next)'
  <2>1. ASSUME MissesNone(next, stored') PROVE MissesNone(next, stored)'
    <3> SUFFICES ASSUME NEW k \in exists, next.low <= k * Interval, k * Interval <= next.high
                 PROVE  k \in stored' \/ Ahead(next, k * Interval)
      BY <1>10 DEF MissesNone
    <3> QED
      BY <2>1 DEF MissesNone
  <2> QED
    BY <1>2, <1>9, <1>10, <2>1, IdleIsGood DEF InThePast
<1>12. next.step = "idle" => Complete(j, stored')
  BY <1>9 DEF Complete
<1>13. clock <= clock'
  BY <1>1, <1>10 DEF TypeInv
<1>14. PastInv'
  BY <1>3, <1>4, <1>7, <1>10, <1>11, <1>13, PastSteps
<1> QED
  BY <1>1, <1>2, <1>3, <1>4, <1>7, <1>12, <1>14 DEF Goes, IsBatch, j

(* Steps of the series, failures and the clock touch no candle.            *)
LEMMA OtherStepsInThePast ==
  ASSUME PastInv, IInv', NEW a \in Actors,
         BeginSeries(a) \/ FetchSeries(a) \/ CommitSeries(a) \/ JobFails(a)
  PROVE  PastInv' /\ UNCHANGED <<clock, stored, partial>>
<1>1. /\ UNCHANGED <<world, table, clock, stored, partial>> /\ partial = {} /\ clock \in Int
      /\ job \in [Actors -> Jobs]
  BY DEF PastInv, IInv, TypeInv, BeginSeries, FetchSeries, CommitSeries, JobFails, tables, world
<1>2. \E next \in Jobs : Goes(a, next) /\ (table = "candles" => InThePast(next)')
  <2>1. CASE JobFails(a)
    <3>1. Idle \in Jobs /\ InThePast(Idle)'
      BY IdleIsGood DEF InThePast
    <3> QED
      BY <2>1, <3>1 DEF JobFails
  <2>2. CASE ~JobFails(a)
    <3>1. table = "series" /\ \E next : Goes(a, next)
      BY <2>2 DEF BeginSeries, FetchSeries, CommitSeries
    <3>2. PICK next : Goes(a, next)
      BY <3>1
    <3>3. job' \in [Actors -> Jobs] /\ job'[a] = next
      BY <1>1, <3>2 DEF IInv, TypeInv, Goes
    <3> QED
      BY <3>1, <3>2, <3>3
  <2> QED
    BY <2>1, <2>2
<1> QED
  BY <1>1, <1>2, PastSteps

(* The worker stores what is final.                                        *)
LEMMA TableStepsInThePast ==
  ASSUME PastInv, IInv', WorkerStores \/ Tick \/ UNCHANGED vars
  PROVE  PastInv' /\ job' = job /\ stored \subseteq stored'
<1>1. /\ UNCHANGED <<world, job>> /\ partial' = {} /\ stored \subseteq stored'
      /\ clock' = clock \/ clock' = clock + 1
  BY DEF PastInv, WorkerStores, Tick, vars, tables, world
<1>2. clock <= clock'
  BY <1>1 DEF PastInv, IInv, TypeInv
<1> QED
  BY <1>1, <1>2, PastSteps

(* The steps there are, with ranges that end in the past.                  *)
LEMMA StepsInThePast ==
  ASSUME PastInv, [Next]_vars
  PROVE  \/ \E a \in Actors : \/ \E start, end \in Int : end <= clock /\ BeginCandles(a, start, end)
                              \/ FetchCandles(a) \/ CommitCandles(a)
                              \/ BeginSeries(a) \/ FetchSeries(a) \/ CommitSeries(a) \/ JobFails(a)
         \/ WorkerStores \/ Tick \/ UNCHANGED vars
<1>1. clock \in Int /\ MaxAhead = 0
  BY DEF PastInv, IInv, TypeInv
<1>2. ASSUME NEW a \in Actors, TopUp(a)
      PROVE  \E start, end \in Int : end <= clock /\ BeginCandles(a, start, end)
  <2>1. clock - Depth \in Int /\ clock <= clock
    BY <1>1
  <2> QED
    BY <1>1, <1>2, <2>1 DEF TopUp
<1>3. ASSUME NEW a \in Actors, RangeGiven(a)
      PROVE  \E start, end \in Int : end <= clock /\ BeginCandles(a, start, end)
  <2>1. PICK start \in 0..clock : \E end \in 0..clock + MaxAhead : BeginCandles(a, start, end)
    BY <1>3 DEF RangeGiven
  <2>2. PICK end \in 0..clock + MaxAhead : BeginCandles(a, start, end)
    BY <2>1
  <2>3. start \in Int /\ end \in Int /\ end <= clock
    BY <1>1
  <2> QED
    BY <2>2, <2>3
<1> QED
  BY <1>2, <1>3 DEF Next, JobSteps

(* Every action, with ranges that end in the past.                         *)
LEMMA NextInThePast ==
  ASSUME PastInv, [Next]_vars
  PROVE  PastInv'
<1>1. IInv'
  BY NextKeeps DEF PastInv
<1>2. ASSUME NEW a \in Actors, NEW start \in Int, NEW end \in Int, end <= clock, BeginCandles(a, start, end)
      PROVE  PastInv'
  BY <1>1, <1>2, BeginCandlesInThePast
<1> QED
  BY <1>1, <1>2, StepsInThePast, FetchCandlesInThePast, CommitCandlesInThePast,
     OtherStepsInThePast, TableStepsInThePast

(* In the beginning, with ranges that end in the past.                     *)
LEMMA InitInThePast == MaxAhead = 0 /\ Init => PastInv
<1>1. ASSUME Init, NEW a \in Actors PROVE InThePast(job[a])
  BY <1>1, IdleIsGood DEF Init, InThePast
<1> QED
  BY <1>1, InitGood DEF PastInv, Init

(* With ranges that end in the past, no step leaves a candle behind.       *)
LEMMA StepsComplete ==
  ASSUME PastInv, [Next]_vars, NEW a \in Actors,
         table = "candles", job[a].step # "idle", job'[a].step = "idle", failures' = failures
  PROVE  Complete(job[a], stored')
<1>1. IInv'
  BY NextKeeps DEF PastInv
<1>2. job \in [Actors -> Jobs] /\ failures \in Int
  BY DEF PastInv, IInv, TypeInv
<1>3. ASSUME NEW b \in Actors, NEW next, Goes(b, next), b # a PROVE FALSE
  BY <1>2, <1>3 DEF Goes
<1>4. ASSUME NEW b \in Actors, NEW start \in Int, NEW end \in Int, BeginCandles(b, start, end) PROVE FALSE
  <2>1. job[b].step = "idle" /\ \E next : Goes(b, next)
    BY <1>4 DEF BeginCandles
  <2> QED
    BY <1>3, <2>1
<1>5. ASSUME NEW b \in Actors, FetchCandles(b) \/ CommitCandles(b) PROVE Complete(job[a], stored')
  <2>1. \E next : Goes(b, next)
    BY <1>5 DEF FetchCandles, CommitCandles
  <2>2. b = a
    BY <1>3, <2>1
  <2> QED
    BY <1>1, <1>5, <2>2, FetchCandlesInThePast, CommitCandlesInThePast
<1>6. ASSUME NEW b \in Actors, BeginSeries(b) \/ FetchSeries(b) \/ CommitSeries(b) \/ JobFails(b) PROVE FALSE
  BY <1>2, <1>6 DEF BeginSeries, FetchSeries, CommitSeries, JobFails
<1>7. ASSUME WorkerStores \/ Tick \/ UNCHANGED vars PROVE FALSE
  BY <1>7 DEF WorkerStores, Tick, vars
<1> QED
  BY <1>4, <1>5, <1>6, <1>7, StepsInThePast

(* A back-fill of a range in the past that comes to its end has left no    *)
(* candle of the exchange behind, through empty and short batches and      *)
(* whatever others store meanwhile (_fill_gap, backfill.py).               *)
THEOREM BackfillsAreComplete == MaxAhead = 0 /\ Spec => BackfillCompletes
<1>1. PastInv /\ [Next]_vars =>
        [\A a \in Actors :
           table = "candles" /\ job[a].step # "idle" /\ job'[a].step = "idle" /\ failures' = failures
             => {k \in exists : job[a].low <= k * Interval /\ k * Interval <= job[a].high} \subseteq stored']_vars
  BY StepsComplete DEF Complete
<1>2. MaxAhead = 0 /\ Spec => []PastInv
  BY InitInThePast, NextInThePast, PTL DEF Spec
<1> QED
  BY <1>1, <1>2, PTL DEF Spec, BackfillCompletes

(* A closed candle is one of those that the table may hold: their number   *)
(* is how often the interval has gone by.                                  *)
LEMMA ClosedSoFar ==
  ASSUME TypeInv, NEW k \in Nat, IsClosed(k)
  PROVE  k \in 0..(clock \div Interval) - 1
<1> DEFINE n == clock \div Interval
<1>1. clock \in Nat /\ (k + 1) * Interval <= clock
  BY DEF TypeInv, IsClosed
<1>2. n \in Nat /\ clock = Interval * n + (clock % Interval) /\ clock % Interval \in 0..Interval - 1
  BY <1>1
<1>3. Interval * n = n * Interval /\ n * Interval \in Int /\ (n + 1) * Interval = n * Interval + Interval
  BY <1>2, Multiples
<1> DEFINE p == n * Interval
           q == Interval * n
<1>4. p \in Int /\ q = p /\ clock = q + (clock % Interval) /\ (n + 1) * Interval = p + Interval
  BY <1>2, <1>3
<1> HIDE DEF n, p, q
<1>5. clock < (n + 1) * Interval
  BY <1>1, <1>2, <1>4
<1>6. k + 1 \in Int /\ n + 1 \in Int
  BY <1>2
<1>7. (k + 1) * Interval < (n + 1) * Interval
  <2>1. (k + 1) * Interval \in Int /\ (n + 1) * Interval \in Int
    BY <1>6
  <2> QED
    BY <1>1, <1>5, <2>1
<1>8. k + 1 < n + 1
  BY <1>6, <1>7, Multiples
<1> QED
  BY <1>2, <1>8 DEF n

(* Every unit of time closes one candle or none.                           *)
LEMMA OneClosesAtATime ==
  ASSUME NEW t \in Nat
  PROVE  (t + 1) \div Interval = t \div Interval \/ (t + 1) \div Interval = (t \div Interval) + 1
<1> DEFINE m == t \div Interval
           n == (t + 1) \div Interval
           p == Interval * m
           q == Interval * n
<1>1. m \in Nat /\ t = p + (t % Interval) /\ t % Interval \in 0..Interval - 1
  OBVIOUS
<1>2. n \in Nat /\ t + 1 = q + ((t + 1) % Interval) /\ (t + 1) % Interval \in 0..Interval - 1
  OBVIOUS
<1>3. /\ p = m * Interval /\ p \in Int /\ q = n * Interval /\ q \in Int
      /\ (m + 1) * Interval = p + Interval /\ (n + 1) * Interval = q + Interval
      /\ (m + 2) * Interval = p + Interval + Interval
  <2> HIDE DEF m, n
  <2> QED
    BY <1>1, <1>2
<1> HIDE DEF m, n, p, q
<1>4. m < n + 1
  <2>1. m * Interval < (n + 1) * Interval
    BY <1>1, <1>2, <1>3
  <2>2. n + 1 \in Int /\ m \in Int
    BY <1>1, <1>2
  <2> QED
    BY <2>1, <2>2, Multiples
<1>5. n < m + 2
  <2>1. n * Interval < (m + 2) * Interval
    BY <1>1, <1>2, <1>3
  <2>2. m + 2 \in Int /\ n \in Int
    BY <1>1, <1>2
  <2> QED
    BY <2>1, <2>2, Multiples
<1>6. n = m \/ n = m + 1
  BY <1>1, <1>2, <1>4, <1>5
<1> QED
  BY <1>6 DEF m, n

(* Every step is one that CandleTable allows, or none.                     *)
LEMMA StepsImplementTable ==
  ASSUME PastInv, [Next]_vars
  PROVE  [Table!TableNext]_<<clock \div Interval, stored \cup partial>>
<1> DEFINE closed == clock \div Interval
<1>1. IInv' /\ PastInv' /\ TypeInv /\ partial = {} /\ partial' = {} /\ clock \in Nat
  BY NextKeeps, NextInThePast DEF PastInv, IInv, TypeInv
<1>2. ASSUME NEW candles, stored' = stored \cup candles, clock' = clock,
             \A k \in candles : k \in Nat /\ IsClosed(k)
      PROVE  Table!TableNext
  <2>1. candles \in SUBSET (0..closed - 1)
    BY <1>1, <1>2, ClosedSoFar
  <2>2. stored' \cup partial' = (stored \cup partial) \cup candles
    BY <1>1, <1>2
  <2>3. clock' \div Interval = closed
    BY <1>2
  <2>4. Table!Stores(candles)
    BY <2>1, <2>2, <2>3 DEF Table!Stores
  <2> QED
    BY <2>1, <2>4 DEF Table!TableNext
<1>3. ASSUME UNCHANGED <<clock, stored, partial>>
      PROVE  UNCHANGED <<clock \div Interval, stored \cup partial>>
  BY <1>3
<1>4. ASSUME NEW a \in Actors, CommitCandles(a) PROVE Table!TableNext
  <2>1. stored' = stored \cup job[a].batch /\ \A k \in job[a].batch : IsClosed(k)
    BY <1>1, <1>4, CommitCandlesInThePast
  <2>2. job[a].batch \subseteq exists /\ exists \subseteq Nat
    <3>1. GoodJob(job[a]) /\ job[a].step = "commit" /\ table = "candles"
      BY <1>4 DEF PastInv, IInv, CommitCandles
    <3> QED
      BY <1>1, <3>1 DEF GoodJob, FillsGaps, TypeInv, Candles
  <2>3. clock' = clock
    BY <1>4 DEF CommitCandles
  <2> DEFINE candles == job[a].batch
  <2>4. stored' = stored \cup candles /\ \A k \in candles : k \in Nat /\ IsClosed(k)
    BY <2>1, <2>2
  <2> HIDE DEF candles
  <2> QED
    BY <1>2, <2>3, <2>4
<1>5. ASSUME WorkerStores PROVE Table!TableNext
  <2>1. PICK k \in exists : IsClosed(k) /\ stored' = stored \cup {k} /\ clock' = clock
    BY <1>5 DEF WorkerStores
  <2>2. k \in Nat
    BY <1>1 DEF TypeInv, Candles
  <2>3. PICK candles : candles = {k}
    OBVIOUS
  <2>4. stored' = stored \cup candles /\ clock' = clock /\ \A l \in candles : l \in Nat /\ IsClosed(l)
    BY <2>1, <2>2, <2>3
  <2> QED
    BY <1>2, <2>4
<1>6. ASSUME Tick PROVE [Table!TableNext]_<<clock \div Interval, stored \cup partial>>
  <2>1. clock' = clock + 1 /\ stored' = stored /\ partial' = partial
    BY <1>6 DEF Tick, tables
  <2>2. clock' \div Interval = closed \/ clock' \div Interval = closed + 1
    BY <1>1, <2>1, OneClosesAtATime
  <2> QED
    BY <2>1, <2>2 DEF Table!TableNext, Table!CandleCloses
<1>7. ASSUME NEW a \in Actors,
             (\E start, end \in Int : BeginCandles(a, start, end)) \/ FetchCandles(a)
      PROVE  UNCHANGED <<clock, stored, partial>>
  BY <1>7 DEF BeginCandles, FetchCandles, tables
<1>8. ASSUME NEW a \in Actors, BeginSeries(a) \/ FetchSeries(a) \/ CommitSeries(a) \/ JobFails(a)
      PROVE  UNCHANGED <<clock, stored, partial>>
  BY <1>1, <1>8, OtherStepsInThePast
<1>9. ASSUME UNCHANGED vars PROVE UNCHANGED <<clock, stored, partial>>
  BY <1>9 DEF vars, tables
<1> HIDE DEF closed
<1> QED
  BY <1>3, <1>4, <1>5, <1>6, <1>7, <1>8, <1>9, StepsInThePast

(* With ranges that end in the past, the table is what its readers take it *)
(* for: candles are final when they are stored, and stay (backfill.py      *)
(* excludes the forming candle, handlers.py stores what has closed).       *)
THEOREM StoreImplementsTable == MaxAhead = 0 /\ Spec => ImplementsTable
<1>1. Init => Table!TableInit
  BY DEF Init, Table!TableInit
<1>2. MaxAhead = 0 /\ Spec => []PastInv
  BY InitInThePast, NextInThePast, PTL DEF Spec
<1>3. PastInv /\ [Next]_vars => [Table!TableNext]_<<clock \div Interval, stored \cup partial>>
  BY StepsImplementTable
<1> QED
  BY <1>1, <1>2, <1>3, PTL DEF Spec, ImplementsTable, Table!TableSpec

=============================================================================
