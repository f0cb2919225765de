------------------------ MODULE AnalyticsCacheProofs ------------------------
(***************************************************************************)
(* Proofs about AnalyticsCache, for any number of requests, candles and    *)
(* newest candles that are read: what is cached under a time covers what   *)
(* the tables held when that time's first candle was stored, and a request *)
(* finds a candle that is not older than any shown before it began.        *)
(***************************************************************************)
EXTENDS AnalyticsCache, FiniteSetTheorems, TLAPS

USE CacheAssumption

(* What a request has read, or has not yet.                                *)
Data == UNION {[S -> SUBSET Candles] : S \in SUBSET Symbols}

ReadLast == Last(Reads[endpoint])

(* The newest candles of the table as it was, and none besides.            *)
FromTables(data) ==
  \A s \in DOMAIN data :
    /\ data[s] # {} /\ data[s] \subseteq stored[s]
    /\ Cardinality(data[s]) <= Limit

(* The series that is read last has what its table had when the first of   *)
(* the newest candle's time was stored.                                    *)
Covers(data) ==
  \A k \in asOf[CacheKey(data)].stored[ReadLast] :
    ReadLast \in DOMAIN data /\ (k \in data[ReadLast] \/ k < Min(data[ReadLast]))

KnowsFunding(last, f) == endpoint = "regime" => f >= asOf[last].funding

RequestStates ==
  [step : {"idle", "read", "look up", "read funding", "set"}, todo : Seq(Symbols),
   data : Data, funding : 0..MaxFunding, atLeast : -1..MaxCandles - 1]

TypeInv ==
  /\ endpoint \in DOMAIN Reads
  /\ stored \in [Symbols -> SUBSET Candles]
  /\ funding \in 0..MaxFunding
  /\ DOMAIN asOf \subseteq Candles
  /\ DOMAIN cache \subseteq Candles
  /\ \A last \in DOMAIN cache : cache[last].data \in Data
  /\ req \in [Requests -> RequestStates]
  /\ shown \in -1..MaxCandles - 1

TablesGrow ==
  /\ \A s \in Symbols : stored[s] \subseteq DOMAIN asOf
  /\ \A k \in DOMAIN asOf :
       /\ \A s \in Symbols : asOf[k].stored[s] \subseteq stored[s]
       /\ asOf[k].funding \in 0..funding

CacheIsGood ==
  \A last \in DOMAIN cache :
    LET d == cache[last].data IN
    /\ DOMAIN d # {} /\ FromTables(d)
    /\ CacheKey(d) = last /\ Covers(d)
    /\ cache[last].funding \in 0..MaxFunding
    /\ KnowsFunding(last, cache[last].funding)

(* A candle as new as the newest shown is read, or is yet to be.           *)
StillFinds(q) ==
  \/ q.atLeast = -1
  \/ \E s \in Symbols : \E k \in stored[s] :
       /\ k >= q.atLeast
       /\ s \in Range(q.todo) \/ (s \in DOMAIN q.data /\ k \in q.data[s])

Reading(q) ==
  q.step = "read" =>
    /\ q.todo # <<>> /\ q.todo[Len(q.todo)] = ReadLast
    /\ StillFinds(q)

HasRead(q) ==
  q.step \in {"look up", "read funding", "set"} =>
    /\ DOMAIN q.data # {} /\ Covers(q.data)
    /\ CacheKey(q.data) >= q.atLeast

GoodRequest(q) ==
  /\ q.data = <<>> \/ DOMAIN q.data # {}
  /\ FromTables(q.data)
  /\ Reading(q) /\ HasRead(q)
  /\ q.step = "set" => KnowsFunding(CacheKey(q.data), q.funding)

RequestsAreGood == \A r \in Requests : GoodRequest(req[r])

ShownIsStored == shown = -1 \/ \E s \in Symbols : shown \in stored[s]

IInv == TypeInv /\ TablesGrow /\ CacheIsGood /\ RequestsAreGood /\ ShownIsStored

-----------------------------------------------------------------------------
(* Candles                                                                 *)

LEMMA HasLeast ==
  ASSUME NEW S \in SUBSET Nat, S # {}
  PROVE  \E x \in S : \A y \in S : x <= y
<1>1. IsWellFoundedOn(OpToRel(<, Nat), Nat)
  BY NatLessThanWellFounded
<1>2. PICK x \in S : \A y \in S : <<y, x>> \notin OpToRel(<, Nat)
  BY <1>1, WFMin
<1>3. \A y \in S : ~(y < x)
  BY <1>2 DEF OpToRel
<1> QED
  BY <1>3

(* There is an oldest candle of any.                                       *)
LEMMA OldestExists ==
  ASSUME NEW S \in SUBSET Candles, S # {}
  PROVE  Min(S) \in S /\ \A y \in S : Min(S) <= y
<1>1. S \in SUBSET Nat
  BY DEF Candles
<1>2. \E x \in S : \A y \in S : x <= y
  BY <1>1, HasLeast
<1> QED
  BY <1>2 DEF Min

(* There is a newest one, too.                                             *)
LEMMA LargestExists ==
  ASSUME NEW S \in SUBSET (-1..MaxCandles - 1), S # {}
  PROVE  Max(S) \in S /\ \A y \in S : y <= Max(S)
<1> DEFINE left == {n \in Nat : \E k \in S : n = MaxCandles - 1 - k}
<1>1. left # {}
  <2>1. PICK k \in S : TRUE
    OBVIOUS
  <2>2. MaxCandles - 1 - k \in Nat
    BY <2>1
  <2> QED
    BY <2>2
<1>2. PICK least \in left : \A n \in left : least <= n
  BY <1>1, HasLeast
<1>3. PICK k \in S : least = MaxCandles - 1 - k
  BY <1>2
<1>4. ASSUME NEW y \in S PROVE k >= y
  <2>1. MaxCandles - 1 - y \in left
    OBVIOUS
  <2>2. MaxCandles - 1 - k <= MaxCandles - 1 - y
    BY <1>2, <1>3, <2>1
  <2> QED
    BY <2>2
<1>5. Max(S) \in S /\ \A y \in S : Max(S) >= y
  BY <1>4 DEF Max
<1> QED
  BY <1>5

LEMMA NewestIsNewest ==
  ASSUME NEW S \in SUBSET Candles
  PROVE  /\ NewestOf(S) \in -1..MaxCandles - 1
         /\ S # {} => NewestOf(S) \in S /\ NewestOf(S) = Max(S)
         /\ \A y \in S : y <= NewestOf(S)
<1> DEFINE T == S \cup {-1}
<1>1. T \in SUBSET (-1..MaxCandles - 1) /\ T # {}
  BY DEF Candles
<1>2. Max(T) \in T /\ \A y \in T : y <= Max(T)
  BY <1>1, LargestExists
<1>3. ASSUME S # {} PROVE Max(T) \in S /\ Max(T) = Max(S)
  <2>1. Max(S) \in S /\ \A y \in S : y <= Max(S)
    BY <1>1, <1>3, LargestExists
  <2>2. Max(S) \in 0..MaxCandles - 1 /\ Max(S) <= Max(T)
    BY <1>2, <2>1 DEF Candles
  <2>3. Max(T) \in S
    BY <1>2, <2>2
  <2>4. Max(T) <= Max(S)
    BY <2>1, <2>3
  <2>5. Max(S) \in Int /\ Max(T) \in Int
    BY <1>1, <1>2, <2>2
  <2> HIDE DEF T
  <2> QED
    BY <2>2, <2>3, <2>4, <2>5
<1> QED
  BY <1>1, <1>2, <1>3 DEF NewestOf

(* What is read of a series: not more than the limit, and no candle of it  *)
(* is left out but for being older than what is read.                      *)
LEMMA NewestAreRead ==
  ASSUME NEW S \in SUBSET Candles
  PROVE  /\ Newest(S) \subseteq S
         /\ S # {} => Newest(S) # {}
         /\ \A k \in S : k \in Newest(S) \/ k < Min(Newest(S))
         /\ \A k \in S : \E j \in Newest(S) : j >= k
         /\ Cardinality(Newest(S)) \in Nat /\ Cardinality(Newest(S)) <= Limit
<1> DEFINE After(k) == {j \in S : j > k}
           N == Newest(S)
<1>0. \A k \in S : k \in Int
  BY DEF Candles
<1>1. IsFiniteSet(S)
  <2>1. IsFiniteSet(Candles)
    BY FS_Interval DEF Candles
  <2> QED
    BY <2>1, FS_Subset
<1>2. /\ N \subseteq S
      /\ \A k \in S : k \in N <=> Cardinality(After(k)) < Limit
  BY DEF Newest
<1>3. \A k \in S : IsFiniteSet(After(k)) /\ Cardinality(After(k)) \in Nat
  <2> SUFFICES ASSUME NEW k \in S
               PROVE  IsFiniteSet(After(k)) /\ Cardinality(After(k)) \in Nat
    OBVIOUS
  <2>1. After(k) \in SUBSET S
    OBVIOUS
  <2> QED
    BY <1>1, <2>1, FS_Subset, FS_CardinalityType
<1>4. ASSUME NEW k \in N, NEW j \in S, j >= k PROVE j \in N
  <2>1. k \in S /\ Cardinality(After(k)) < Limit
    BY <1>2
  <2>2. After(j) \in SUBSET After(k)
    BY <1>0, <1>4, <2>1
  <2>3. Cardinality(After(j)) <= Cardinality(After(k))
    BY <1>3, <2>1, <2>2, FS_Subset
  <2> HIDE DEF After
  <2> QED
    BY <1>2, <1>3, <2>1, <2>3
<1>5. ASSUME S # {} PROVE Max(S) \in N /\ \A k \in S : k <= Max(S)
  <2>1. Max(S) \in S /\ \A k \in S : k <= Max(S)
    BY <1>5, LargestExists DEF Candles
  <2>2. After(Max(S)) = {}
    BY <1>0, <2>1
  <2>3. Cardinality(After(Max(S))) = 0
    BY <2>2, FS_EmptySet
  <2> HIDE DEF After
  <2> QED
    BY <1>2, <2>1, <2>3
<1>6. ASSUME NEW k \in S PROVE k \in N \/ k < Min(N)
  <2>1. N \in SUBSET Candles /\ N # {}
    BY <1>2, <1>5
  <2>2. Min(N) \in N
    BY <2>1, OldestExists
  <2>3. k \in Int /\ Min(N) \in Int
    BY <1>0, <1>2, <2>2 DEF N
  <2> QED
    BY <1>4, <2>2, <2>3
<1>7. Cardinality(N) \in Nat /\ Cardinality(N) <= Limit
  <2>1. CASE N = {}
    BY <2>1, FS_EmptySet
  <2>2. CASE N # {}
    <3> DEFINE m == Min(N)
    <3>1. m \in N /\ \A k \in N : m <= k
      <4>1. N \in SUBSET Candles
        BY <1>2
      <4> QED
        BY <2>2, <4>1, OldestExists
    <3>2. m \in S /\ Cardinality(After(m)) < Limit
      BY <1>2, <3>1
    <3>3. IsFiniteSet(After(m)) /\ Cardinality(After(m)) \in Nat
      BY <1>3, <3>2
    <3>4. /\ IsFiniteSet(After(m) \cup {m})
          /\ Cardinality(After(m) \cup {m}) <= Limit
      <4>1. /\ IsFiniteSet(After(m) \cup {m})
            /\ Cardinality(After(m) \cup {m}) = IF m \in After(m) THEN Cardinality(After(m)) ELSE Cardinality(After(m)) + 1
        BY <3>3, FS_AddElement
      <4> HIDE DEF m, After
      <4> QED
        BY <3>2, <3>3, <4>1
    <3>5. N \in SUBSET (After(m) \cup {m})
      <4> SUFFICES ASSUME NEW k \in N, k # m PROVE k \in S /\ k > m
        OBVIOUS
      <4> HIDE DEF m, N
      <4> QED
        BY <1>2, <3>1 DEF Candles
    <3>6. IsFiniteSet(N) /\ Cardinality(N) <= Cardinality(After(m) \cup {m})
      BY <3>4, <3>5, FS_Subset
    <3>7. Cardinality(N) \in Nat /\ Cardinality(After(m) \cup {m}) \in Nat
      BY <3>4, <3>6, FS_CardinalityType
    <3> HIDE DEF m, N, After
    <3> QED
      BY <3>4, <3>6, <3>7
  <2> QED
    BY <2>1, <2>2
<1>8. \A k \in S : \E j \in N : j >= k
  <2> SUFFICES ASSUME NEW k \in S PROVE \E j \in N : j >= k
    OBVIOUS
  <2>1. Max(S) \in N /\ k <= Max(S)
    BY <1>5
  <2>2. Max(S) \in Int /\ k \in Int
    BY <1>0, <1>2, <2>1
  <2> HIDE DEF N
  <2> QED
    BY <2>1, <2>2
<1> QED
  BY <1>2, <1>5, <1>6, <1>7, <1>8

-----------------------------------------------------------------------------
(* What was read                                                           *)

(* An endpoint reads at least one series, and the last one last.           *)
LEMMA WhatIsRead ==
  ASSUME endpoint \in DOMAIN Reads
  PROVE  /\ Reads[endpoint] \in Seq(Symbols) /\ Reads[endpoint] # <<>>
         /\ Reads[endpoint][Len(Reads[endpoint])] = ReadLast
         /\ ReadLast \in Symbols
         /\ \A s \in Symbols : s \in Range(Reads[endpoint])
<1>1. Reads[endpoint] = <<"A">> \/ Reads[endpoint] = <<"A", "B">>
  BY DEF Reads
<1> DEFINE q == Reads[endpoint]
<1> HIDE DEF q
<1>2. q \in Seq({q[i] : i \in DOMAIN q}) /\ q # <<>> /\ q[Len(q)] \in {q[i] : i \in DOMAIN q}
  BY <1>1 DEF q
<1> QED
  BY <1>2 DEF q, ReadLast, Last, Symbols, Range

LEMMA NothingRead == <<>> \in Data /\ DOMAIN <<>> = {}
<1>1. <<>> \in Seq(SUBSET Candles) /\ Len(<<>>) = 0
  OBVIOUS
<1>2. <<>> \in [1..0 -> SUBSET Candles] /\ 1..0 = {}
  BY <1>1
<1> QED
  BY <1>2 DEF Data

(* The key is the time of the newest candle read.                          *)
LEMMA KeyIsNewest ==
  ASSUME NEW data, DOMAIN data \subseteq Symbols,
         \A s \in DOMAIN data : data[s] \in SUBSET Candles /\ data[s] # {}
  PROVE  /\ \A s \in DOMAIN data : \A k \in data[s] : k <= CacheKey(data)
         /\ CacheKey(data) \in -1..MaxCandles - 1
         /\ DOMAIN data # {} =>
              /\ CacheKey(data) = Max(UNION Range(data))
              /\ CacheKey(data) \in Candles
              /\ \E s \in DOMAIN data : CacheKey(data) \in data[s]
<1> DEFINE all == UNION Range(data)
<1>1. \A k : k \in all <=> \E s \in DOMAIN data : k \in data[s]
  BY DEF Range
<1> HIDE DEF all
<1>2. all \in SUBSET Candles
  BY <1>1
<1>3. DOMAIN data # {} => all # {}
  BY <1>1
<1>4. /\ NewestOf(all) \in -1..MaxCandles - 1
      /\ all # {} => NewestOf(all) \in all /\ NewestOf(all) = Max(all)
      /\ \A y \in all : y <= NewestOf(all)
  BY <1>2, NewestIsNewest
<1>5. CacheKey(data) = NewestOf(all)
  BY DEF CacheKey, all
<1> QED
  BY <1>1, <1>2, <1>3, <1>4, <1>5 DEF all

(* What was read from the tables has a key that they know of.              *)
LEMMA KeyIsKnown ==
  ASSUME TypeInv, TablesGrow, NEW data \in Data, FromTables(data)
  PROVE  /\ \A s \in DOMAIN data : \A k \in data[s] : k <= CacheKey(data)
         /\ CacheKey(data) \in -1..MaxCandles - 1
         /\ DOMAIN data # {} =>
              /\ CacheKey(data) = Max(UNION Range(data))
              /\ CacheKey(data) \in Candles
              /\ CacheKey(data) \in DOMAIN asOf
              /\ \E s \in Symbols : CacheKey(data) \in stored[s]
<1>1. DOMAIN data \subseteq Symbols /\ \A s \in DOMAIN data : data[s] \in SUBSET Candles
  BY DEF Data
<1>2. \A s \in DOMAIN data : data[s] # {} /\ data[s] \subseteq stored[s]
  BY DEF FromTables
<1>3. /\ \A s \in DOMAIN data : \A k \in data[s] : k <= CacheKey(data)
      /\ CacheKey(data) \in -1..MaxCandles - 1
      /\ DOMAIN data # {} =>
           /\ CacheKey(data) = Max(UNION Range(data))
           /\ CacheKey(data) \in Candles
           /\ \E s \in DOMAIN data : CacheKey(data) \in data[s]
  BY <1>1, <1>2, KeyIsNewest
<1> QED
  BY <1>1, <1>2, <1>3 DEF TablesGrow

-----------------------------------------------------------------------------
(* Steps                                                                   *)

LEMMA InitGood == Init => IInv
<1> SUFFICES ASSUME Init PROVE IInv
  OBVIOUS
<1> USE DEF Init
<1>1. DOMAIN cache = {} /\ DOMAIN asOf = {}
  OBVIOUS
<1>2. Idle \in RequestStates /\ Idle.data = <<>> /\ DOMAIN Idle.data = {} /\ Idle.step = "idle"
  BY NothingRead DEF Idle, RequestStates
<1>3. TypeInv
  BY <1>1, <1>2 DEF TypeInv
<1>4. TablesGrow
  BY <1>1 DEF TablesGrow
<1>5. RequestsAreGood
  BY <1>2 DEF RequestsAreGood, GoodRequest, FromTables, Reading, HasRead
<1> QED
  BY <1>1, <1>3, <1>4, <1>5 DEF IInv, CacheIsGood, ShownIsStored

LEMMA SymbolsStay ==
  ASSUME endpoint' = endpoint
  PROVE  Symbols' = Symbols /\ Data' = Data /\ ReadLast' = ReadLast /\ RequestStates' = RequestStates
  BY DEF Symbols, Data, ReadLast, RequestStates

(* A request goes on while the tables are left alone.                      *)
LEMMA RequestGoesOn ==
  ASSUME IInv, NEW r \in Requests, NEW q \in RequestStates, Goes(r, q), GoodRequest(q),
         UNCHANGED <<endpoint, stored, funding, asOf>>
  PROVE  RequestsAreGood' /\ req' \in [Requests -> RequestStates'] /\ TablesGrow'
<1>1. Symbols' = Symbols /\ RequestStates' = RequestStates /\ ReadLast' = ReadLast
  BY SymbolsStay
<1>2. req' \in [Requests -> RequestStates]
  BY DEF Goes, IInv, TypeInv
<1>3. ASSUME NEW x \in RequestStates, GoodRequest(x) PROVE GoodRequest(x)'
  BY <1>1, <1>3 DEF GoodRequest, FromTables, Reading, StillFinds, HasRead, Covers, KnowsFunding
<1>4. \A p \in Requests : GoodRequest(req'[p])
  BY DEF Goes, IInv, TypeInv, RequestsAreGood
<1>5. \A p \in Requests : GoodRequest(req[p])'
  BY <1>2, <1>3, <1>4
<1>6. TablesGrow'
  BY <1>1 DEF IInv, TablesGrow
<1> QED
  BY <1>1, <1>2, <1>5, <1>6 DEF RequestsAreGood

(* What was read stays good while the tables grow.                         *)
LEMMA TablesMove ==
  ASSUME IInv, UNCHANGED <<endpoint, cache, req>>,
         \A s \in Symbols : stored[s] \subseteq stored'[s],
         DOMAIN asOf \subseteq DOMAIN asOf',
         \A k \in DOMAIN asOf : asOf'[k] = asOf[k]
  PROVE  CacheIsGood' /\ RequestsAreGood'
<1>1. Symbols' = Symbols /\ Data' = Data /\ ReadLast' = ReadLast
  BY SymbolsStay
<1>2. ASSUME NEW d \in Data, FromTables(d)
      PROVE  FromTables(d)' /\ (DOMAIN d # {} => asOf'[CacheKey(d)] = asOf[CacheKey(d)])
  <2>1. DOMAIN d # {} => CacheKey(d) \in DOMAIN asOf
    BY <1>2, KeyIsKnown DEF IInv
  <2>2. \A s \in DOMAIN d : s \in Symbols
    BY DEF Data
  <2> QED
    BY <1>2, <2>1, <2>2 DEF FromTables
<1>3. CacheIsGood'
  <2> SUFFICES ASSUME NEW last \in DOMAIN cache
               PROVE  LET d == cache[last].data IN
                      /\ DOMAIN d # {} /\ FromTables(d)'
                      /\ CacheKey(d) = last /\ Covers(d)'
                      /\ cache[last].funding \in 0..MaxFunding
                      /\ KnowsFunding(last, cache[last].funding)'
    BY DEF CacheIsGood, FromTables, Covers, KnowsFunding
  <2> DEFINE d == cache[last].data
  <2>1. /\ d \in Data /\ DOMAIN d # {} /\ FromTables(d)
        /\ CacheKey(d) = last /\ Covers(d)
        /\ cache[last].funding \in 0..MaxFunding
        /\ KnowsFunding(last, cache[last].funding)
    BY DEF IInv, CacheIsGood, TypeInv
  <2>2. FromTables(d)' /\ asOf'[CacheKey(d)] = asOf[CacheKey(d)]
    BY <1>2, <2>1
  <2>3. Covers(d)'
    BY <1>1, <2>1, <2>2 DEF Covers
  <2>4. KnowsFunding(last, cache[last].funding)'
    BY <2>1, <2>2 DEF KnowsFunding
  <2> QED
    BY <2>1, <2>2, <2>3, <2>4
<1>4. ASSUME NEW q \in RequestStates, GoodRequest(q) PROVE GoodRequest(q)'
  <2>1. /\ q.data \in Data /\ FromTables(q.data)
        /\ q.step \in {"idle", "read", "look up", "read funding", "set"}
    BY <1>4 DEF GoodRequest, RequestStates
  <2>2. FromTables(q.data)' /\ (DOMAIN q.data # {} => asOf'[CacheKey(q.data)] = asOf[CacheKey(q.data)])
    BY <1>2, <2>1
  <2>3. Reading(q)'
    BY <1>1, <1>4 DEF GoodRequest, Reading, StillFinds
  <2>4. HasRead(q)'
    BY <1>1, <1>4, <2>2 DEF GoodRequest, HasRead, Covers
  <2>5. q.step = "set" => KnowsFunding(CacheKey(q.data), q.funding)'
    BY <1>4, <2>2 DEF GoodRequest, HasRead, KnowsFunding
  <2> QED
    BY <1>4, <2>2, <2>3, <2>4, <2>5 DEF GoodRequest
<1>5. RequestsAreGood'
  BY <1>4 DEF IInv, RequestsAreGood, TypeInv
<1> QED
  BY <1>3, <1>5

LEMMA FundingArrivesGood == IInv /\ FundingArrives => IInv'
<1> SUFFICES ASSUME IInv, FundingArrives PROVE IInv'
  OBVIOUS
<1>1. /\ UNCHANGED <<endpoint, stored, cache, req, asOf, shown>>
      /\ funding \in 0..MaxFunding /\ funding' \in 0..MaxFunding /\ funding' = funding + 1
  BY DEF FundingArrives, IInv, TypeInv
<1>2. Symbols' = Symbols /\ Data' = Data /\ RequestStates' = RequestStates
  BY <1>1, SymbolsStay
<1>3. TypeInv'
  BY <1>1, <1>2 DEF IInv, TypeInv
<1>4. TablesGrow'
  BY <1>1, <1>2 DEF IInv, TablesGrow
<1>5. CacheIsGood' /\ RequestsAreGood'
  BY <1>1, TablesMove
<1> QED
  BY <1>1, <1>2, <1>3, <1>4, <1>5 DEF IInv, ShownIsStored

LEMMA StoresGood ==
  ASSUME NEW s \in Symbols, NEW k \in Candles, IInv, Stores(s, k)
  PROVE  IInv'
<1>1. /\ stored \in [Symbols -> SUBSET Candles]
      /\ stored' = [stored EXCEPT ![s] = @ \cup {k}]
      /\ DOMAIN asOf \subseteq Candles
      /\ UNCHANGED <<endpoint, funding, cache, req, shown>>
  BY DEF Stores, IInv, TypeInv
<1>2. Symbols' = Symbols /\ Data' = Data /\ RequestStates' = RequestStates
  BY <1>1, SymbolsStay
<1>3. /\ DOMAIN asOf' = DOMAIN asOf \cup {k}
      /\ \A j \in DOMAIN asOf : asOf'[j] = asOf[j]
      /\ k \notin DOMAIN asOf => asOf'[k] = Tables
  BY DEF Stores, With
<1>4. /\ stored' \in [Symbols -> SUBSET Candles]
      /\ \A x \in Symbols : stored[x] \subseteq stored'[x] /\ stored'[x] \subseteq stored[x] \cup {k}
  BY <1>1
<1>5. TypeInv'
  BY <1>1, <1>2, <1>3, <1>4 DEF IInv, TypeInv
<1>6. TablesGrow'
  <2>1. \A x \in Symbols : stored'[x] \subseteq DOMAIN asOf'
    BY <1>3, <1>4 DEF IInv, TablesGrow
  <2>2. ASSUME NEW j \in DOMAIN asOf'
        PROVE  /\ \A x \in Symbols : asOf'[j].stored[x] \subseteq stored'[x]
               /\ asOf'[j].funding \in 0..funding
    <3>1. CASE j \in DOMAIN asOf
      BY <1>3, <1>4, <3>1 DEF IInv, TablesGrow
    <3>2. CASE j \notin DOMAIN asOf
      <4>1. asOf'[j] = Tables
        BY <1>3, <2>2, <3>2
      <4> QED
        BY <1>4, <4>1 DEF IInv, TypeInv, Tables
    <3> QED
      BY <3>1, <3>2
  <2> QED
    BY <1>1, <1>2, <2>1, <2>2 DEF TablesGrow
<1>7. CacheIsGood' /\ RequestsAreGood'
  BY <1>1, <1>3, <1>4, TablesMove
<1> QED
  BY <1>1, <1>2, <1>4, <1>5, <1>6, <1>7 DEF IInv, ShownIsStored

LEMMA ExpiresGood ==
  ASSUME NEW last \in Candles, IInv, Expires(last)
  PROVE  IInv'
<1>1. /\ cache' = Restrict(cache, DOMAIN cache \ {last})
      /\ UNCHANGED <<endpoint, stored, funding, req, asOf, shown>>
  BY DEF Expires
<1>2. /\ DOMAIN cache' \subseteq DOMAIN cache
      /\ \A j \in DOMAIN cache' : cache'[j] = cache[j]
  BY <1>1 DEF Restrict
<1>3. Symbols' = Symbols /\ Data' = Data /\ ReadLast' = ReadLast /\ RequestStates' = RequestStates
  BY <1>1, SymbolsStay
<1>4. TypeInv'
  BY <1>1, <1>2, <1>3 DEF IInv, TypeInv
<1>5. CacheIsGood'
  <2>1. \A d : /\ FromTables(d)' <=> FromTables(d)
              /\ Covers(d)' <=> Covers(d)
    BY <1>1, <1>3 DEF FromTables, Covers
  <2>2. \A j, f : KnowsFunding(j, f)' <=> KnowsFunding(j, f)
    BY <1>1 DEF KnowsFunding
  <2>3. \A d : CacheKey(d)' = CacheKey(d)
    BY DEF CacheKey
  <2> QED
    BY <1>2, <2>1, <2>2, <2>3 DEF IInv, CacheIsGood
<1>6. RequestsAreGood'
  BY <1>1, <1>3
  DEF IInv, RequestsAreGood, GoodRequest, FromTables, Reading, StillFinds, HasRead, Covers, KnowsFunding
<1> QED
  BY <1>1, <1>3, <1>4, <1>5, <1>6 DEF IInv, TablesGrow, ShownIsStored

(* A request that is done, or was given up, has nothing to be good about.  *)
LEMMA IdleIsGood == Idle \in RequestStates /\ GoodRequest(Idle)
  BY NothingRead
  DEF Idle, RequestStates, GoodRequest, FromTables, Reading, HasRead

(* A step of a request that serves nothing.                                *)
LEMMA RequestStepGood ==
  ASSUME NEW r \in Requests, NEW q \in RequestStates, IInv, Goes(r, q), GoodRequest(q),
         UNCHANGED <<endpoint, stored, funding, cache, asOf, shown>>
  PROVE  IInv'
<1>1. RequestsAreGood' /\ req' \in [Requests -> RequestStates'] /\ TablesGrow'
  BY RequestGoesOn
<1>2. Symbols' = Symbols /\ Data' = Data /\ ReadLast' = ReadLast
  BY SymbolsStay
<1>3. CacheIsGood'
  BY <1>2 DEF IInv, CacheIsGood, FromTables, Covers, KnowsFunding
<1> QED
  BY <1>1, <1>2, <1>3 DEF IInv, TypeInv, ShownIsStored

LEMMA FailsGood ==
  ASSUME NEW r \in Requests, IInv, Fails(r)
  PROVE  IInv'
<1>1. Goes(r, Idle) /\ UNCHANGED <<endpoint, stored, funding, cache, asOf, shown>>
  BY DEF Fails
<1> QED
  BY <1>1, IdleIsGood, RequestStepGood

(* A request begins with every series yet to be read.                      *)
LEMMA BeginGood ==
  ASSUME NEW r \in Requests, IInv, Begin(r)
  PROVE  IInv'
<1> DEFINE q == [Idle EXCEPT !.step = "read", !.todo = Reads[endpoint], !.atLeast = shown]
<1>1. endpoint \in DOMAIN Reads /\ shown \in -1..MaxCandles - 1 /\ ShownIsStored
  BY DEF IInv, TypeInv
<1>2. /\ Reads[endpoint] \in Seq(Symbols) /\ Reads[endpoint] # <<>>
      /\ Reads[endpoint][Len(Reads[endpoint])] = ReadLast
      /\ \A s \in Symbols : s \in Range(Reads[endpoint])
  BY <1>1, WhatIsRead
<1>3. /\ q \in RequestStates
      /\ q.step = "read" /\ q.todo = Reads[endpoint] /\ q.data = <<>> /\ q.atLeast = shown
  <2>1. Idle \in RequestStates /\ Idle.data = <<>>
    BY IdleIsGood DEF Idle
  <2> HIDE DEF Idle
  <2> QED
    BY <1>1, <1>2, <2>1 DEF RequestStates
<1>4. Goes(r, q) /\ UNCHANGED <<endpoint, stored, funding, cache, asOf, shown>>
  BY DEF Begin
<1> HIDE DEF q
<1>5. StillFinds(q)
  <2>1. CASE shown = -1
    BY <1>3, <2>1 DEF StillFinds
  <2>2. CASE \E s \in Symbols : shown \in stored[s]
    <3>1. PICK s \in Symbols : shown \in stored[s]
      BY <2>2
    <3>2. s \in Range(q.todo) /\ shown >= q.atLeast
      BY <1>1, <1>2, <1>3
    <3> QED
      BY <3>1, <3>2 DEF StillFinds
  <2> QED
    BY <1>1, <2>1, <2>2 DEF ShownIsStored
<1>6. GoodRequest(q)
  BY <1>2, <1>3, <1>5, NothingRead DEF GoodRequest, FromTables, Reading, HasRead
<1> QED
  BY <1>3, <1>4, <1>6, RequestStepGood

LEMMA ReadFundingGood ==
  ASSUME NEW r \in Requests, IInv, ReadFunding(r)
  PROVE  IInv'
<1> DEFINE q == [req[r] EXCEPT !.step = "set", !.funding = funding]
<1>1. /\ req[r] \in RequestStates /\ GoodRequest(req[r]) /\ req[r].step = "read funding"
      /\ funding \in 0..MaxFunding
  BY DEF IInv, TypeInv, RequestsAreGood, ReadFunding
<1>2. /\ q \in RequestStates
      /\ q.step = "set" /\ q.data = req[r].data /\ q.funding = funding /\ q.atLeast = req[r].atLeast
  BY <1>1 DEF RequestStates
<1>3. Goes(r, q) /\ UNCHANGED <<endpoint, stored, funding, cache, asOf, shown>>
  BY DEF ReadFunding
<1> HIDE DEF q
<1>4. q.data \in Data /\ DOMAIN q.data # {} /\ FromTables(q.data)
  BY <1>1, <1>2 DEF GoodRequest, HasRead, RequestStates
<1>5. CacheKey(q.data) \in DOMAIN asOf
  BY <1>4, KeyIsKnown DEF IInv
<1>6. asOf[CacheKey(q.data)].funding \in 0..funding
  BY <1>5 DEF IInv, TablesGrow
<1>7. KnowsFunding(CacheKey(q.data), q.funding)
  <2> DEFINE then == asOf[CacheKey(q.data)].funding
  <2>0. then \in 0..funding
    BY <1>6
  <2>1. funding \in Int
    <3>1. funding \in 0..MaxFunding
      BY <1>1, Zenon
    <3> QED
      BY <3>1
  <2> HIDE DEF then
  <2>2. funding >= then
    BY <2>0, <2>1
  <2> QED
    BY <1>2, <2>2 DEF KnowsFunding, then
<1>8. GoodRequest(q)
  BY <1>1, <1>2, <1>7 DEF GoodRequest, Reading, HasRead
<1> QED
  BY <1>2, <1>3, <1>8, RequestStepGood

(* Reading a series that has candles.                                      *)
LEMMA ReadsNewest ==
  ASSUME IInv, NEW data \in Data, FromTables(data), NEW s \in Symbols, stored[s] # {},
         NEW after, after = With(data, s, Newest(stored[s]))
  PROVE  /\ after \in Data /\ DOMAIN after = DOMAIN data \cup {s} /\ FromTables(after)
         /\ \A x \in DOMAIN data : x # s => after[x] = data[x]
         /\ \A k \in stored[s] : k \in after[s] \/ k < Min(after[s])
         /\ \A k \in stored[s] : \E j \in after[s] : j >= k
<1>1. stored[s] \in SUBSET Candles
  BY DEF IInv, TypeInv
<1>2. /\ Newest(stored[s]) \subseteq stored[s] /\ Newest(stored[s]) # {}
      /\ \A k \in stored[s] : k \in Newest(stored[s]) \/ k < Min(Newest(stored[s]))
      /\ \A k \in stored[s] : \E j \in Newest(stored[s]) : j >= k
      /\ Cardinality(Newest(stored[s])) <= Limit
  BY <1>1, NewestAreRead
<1>3. /\ DOMAIN after = DOMAIN data \cup {s} /\ after[s] = Newest(stored[s])
      /\ \A x \in DOMAIN data : x # s => after[x] = data[x]
      /\ after = [x \in DOMAIN after |-> after[x]]
  BY DEF With
<1>4. DOMAIN data \subseteq Symbols /\ \A x \in DOMAIN data : data[x] \subseteq Candles
  BY DEF Data
<1>5. after \in Data
  <2>1. DOMAIN after \in SUBSET Symbols /\ \A x \in DOMAIN after : after[x] \in SUBSET Candles
    BY <1>1, <1>2, <1>3, <1>4
  <2>2. after \in [DOMAIN after -> SUBSET Candles]
    BY <1>3, <2>1
  <2> QED
    BY <2>1, <2>2 DEF Data
<1>6. FromTables(after)
  <2> SUFFICES ASSUME NEW x \in DOMAIN after
               PROVE  after[x] # {} /\ after[x] \subseteq stored[x] /\ Cardinality(after[x]) <= Limit
    BY DEF FromTables
  <2>1. CASE x = s
    BY <1>2, <1>3, <2>1
  <2>2. CASE x # s
    BY <1>3, <2>2 DEF FromTables
  <2> QED
    BY <2>1, <2>2
<1> QED
  BY <1>2, <1>3, <1>5, <1>6

LEMMA ReadGood ==
  ASSUME NEW r \in Requests, IInv, Read(r)
  PROVE  IInv'
<1> DEFINE q == req[r]
           s == Head(q.todo)
           data == IF stored[s] = {} THEN q.data ELSE With(q.data, s, Newest(stored[s]))
           missing == stored[s] = {} /\ endpoint # "correlation"
           rest == Tail(q.todo)
           next == [q EXCEPT !.todo = rest, !.data = data,
                             !.step = IF rest = <<>> THEN "look up" ELSE "read"]
<1>1. UNCHANGED <<endpoint, stored, funding, cache, asOf, shown>>
  BY DEF Read
<1>2. CASE Goes(r, Idle)
  BY <1>1, <1>2, IdleIsGood, RequestStepGood
<1>3. CASE Goes(r, next) /\ ~(rest = <<>> /\ data = <<>>)
  <2>1. /\ q \in RequestStates /\ GoodRequest(q) /\ q.step = "read"
        /\ endpoint \in DOMAIN Reads
    BY DEF IInv, TypeInv, RequestsAreGood, Read
  <2>2. /\ q.todo \in Seq(Symbols) /\ q.todo # <<>> /\ q.todo[Len(q.todo)] = ReadLast
        /\ q.data \in Data /\ FromTables(q.data) /\ StillFinds(q) /\ q.atLeast \in -1..MaxCandles - 1
        /\ q.data = <<>> \/ DOMAIN q.data # {}
    BY <2>1 DEF GoodRequest, Reading, RequestStates
  <2> HIDE DEF q
  <2>3. /\ s \in Symbols /\ rest \in Seq(Symbols)
        /\ \A x : x \in Range(q.todo) => x = s \/ x \in Range(rest)
        /\ rest # <<>> => rest[Len(rest)] = ReadLast
        /\ rest = <<>> => s = ReadLast
        /\ rest = <<>> => Range(rest) = {}
    <3>1. /\ s = q.todo[1] /\ 1 \in DOMAIN q.todo /\ s \in Symbols
          /\ rest \in Seq(Symbols) /\ Len(rest) = Len(q.todo) - 1
          /\ \A i \in 1..Len(rest) : rest[i] = q.todo[i + 1]
      BY <2>2
    <3>2. ASSUME NEW x \in Range(q.todo), x # s PROVE x \in Range(rest)
      <4>1. PICK i \in 1..Len(q.todo) : x = q.todo[i]
        BY <2>2, <3>2 DEF Range
      <4>2. i # 1 /\ Len(q.todo) \in Nat
        BY <2>2, <3>1, <3>2, <4>1
      <4>3. i - 1 \in 1..Len(rest) /\ i - 1 + 1 = i
        BY <3>1, <4>2
      <4>4. x = rest[i - 1] /\ i - 1 \in DOMAIN rest
        BY <3>1, <4>1, <4>3
      <4> QED
        BY <4>4 DEF Range
    <3>3. rest # <<>> => rest[Len(rest)] = ReadLast
      <4> SUFFICES ASSUME rest # <<>> PROVE rest[Len(rest)] = ReadLast
        OBVIOUS
      <4>1. Len(rest) \in 1..Len(rest) /\ Len(rest) + 1 = Len(q.todo)
        BY <2>2, <3>1
      <4> QED
        BY <2>2, <3>1, <4>1
    <3>4. rest = <<>> => s = ReadLast
      <4> SUFFICES ASSUME rest = <<>> PROVE s = ReadLast
        OBVIOUS
      <4>1. Len(q.todo) = 1
        <5>1. Len(q.todo) \in Nat
          BY <2>2
        <5> HIDE DEF rest
        <5>2. Len(rest) = 0
          OBVIOUS
        <5> QED
          BY <3>1, <5>1, <5>2
      <4> QED
        BY <2>2, <3>1, <4>1
    <3>5. rest = <<>> => Range(rest) = {}
      BY DEF Range
    <3> QED
      BY <3>1, <3>2, <3>3, <3>4, <3>5
  <2>4. /\ data \in Data /\ FromTables(data)
        /\ \A x \in DOMAIN q.data : x \in DOMAIN data /\ (x = s \/ data[x] = q.data[x])
        /\ \A k \in stored[s] : s \in DOMAIN data /\ (k \in data[s] \/ k < Min(data[s]))
        /\ \A k \in stored[s] : \E j \in data[s] : j >= k
        /\ data = <<>> \/ DOMAIN data # {}
    <3>1. CASE stored[s] = {}
      BY <2>2, <3>1
    <3>2. CASE stored[s] # {}
      <4> DEFINE after == With(q.data, s, Newest(stored[s]))
      <4>1. /\ after \in Data /\ DOMAIN after = DOMAIN q.data \cup {s} /\ FromTables(after)
            /\ \A x \in DOMAIN q.data : x # s => after[x] = q.data[x]
            /\ \A k \in stored[s] : k \in after[s] \/ k < Min(after[s])
            /\ \A k \in stored[s] : \E j \in after[s] : j >= k
        BY <2>2, <2>3, <3>2, ReadsNewest
      <4>2. data = after
        BY <3>2
      <4> HIDE DEF after, data, s
      <4> QED
        BY <4>1, <4>2
    <3> QED
      BY <3>1, <3>2
  <2> HIDE DEF data, s
  <2>4a. data \in Data /\ FromTables(data) /\ (data = <<>> \/ DOMAIN data # {})
    BY <2>4, Zenon
  <2>5. next \in RequestStates
    <3> DEFINE now == IF rest = <<>> THEN "look up" ELSE "read"
    <3>1. now \in {"idle", "read", "look up", "read funding", "set"}
      OBVIOUS
    <3>2. rest \in Seq(Symbols) /\ data \in Data
      BY <2>3, <2>4a
    <3>3. next = [q EXCEPT !.todo = rest, !.data = data, !.step = now]
      OBVIOUS
    <3> HIDE DEF now, rest, next
    <3> QED
      BY <2>1, <3>1, <3>2, <3>3 DEF RequestStates
  <2>6. /\ next.todo = rest /\ next.data = data /\ next.atLeast = q.atLeast
        /\ next.step = IF rest = <<>> THEN "look up" ELSE "read"
    BY <2>1 DEF RequestStates
  <2> HIDE DEF next, rest
  <2>7. StillFinds(next)
    <3>1. CASE q.atLeast = -1
      BY <2>6, <3>1 DEF StillFinds
    <3>2. CASE \E x \in Symbols : \E k \in stored[x] :
                 /\ k >= q.atLeast
                 /\ x \in Range(q.todo) \/ (x \in DOMAIN q.data /\ k \in q.data[x])
      <4>0. PICK x \in Symbols : \E k \in stored[x] :
                 /\ k >= q.atLeast
                 /\ x \in Range(q.todo) \/ (x \in DOMAIN q.data /\ k \in q.data[x])
        BY <3>2
      <4>1. PICK k \in stored[x] :
                 /\ k >= q.atLeast
                 /\ x \in Range(q.todo) \/ (x \in DOMAIN q.data /\ k \in q.data[x])
        BY <4>0
      <4>2. CASE x = s
        <5>1. PICK j \in data[s] : j >= k
          BY <2>4, <4>1, <4>2
        <5>2. s \in DOMAIN data /\ data[s] \subseteq stored[s]
          BY <2>4, <4>1, <4>2 DEF FromTables
        <5>3. j \in Int /\ k \in Int
          <6>1. j \in Candles /\ k \in Candles
            BY <4>1, <5>1, <5>2, <4>2 DEF IInv, TypeInv
          <6> QED
            BY <6>1 DEF Candles
        <5>4. j \in stored[s] /\ j >= q.atLeast
          BY <2>2, <4>1, <5>1, <5>2, <5>3
        <5> QED
          BY <2>3, <2>6, <5>1, <5>2, <5>4 DEF StillFinds
      <4>3. CASE x # s
        <5>1. x \in Range(rest) \/ (x \in DOMAIN data /\ k \in data[x])
          BY <2>3, <2>4, <4>1, <4>3
        <5> QED
          BY <2>6, <4>1, <5>1 DEF StillFinds
      <4> QED
        BY <4>2, <4>3
    <3> QED
      BY <2>2, <3>1, <3>2 DEF StillFinds
  <2>8. Reading(next)
    BY <2>3, <2>6, <2>7 DEF Reading
  <2>9. HasRead(next)
    <3> SUFFICES ASSUME rest = <<>>
                 PROVE  DOMAIN data # {} /\ Covers(data) /\ CacheKey(data) >= q.atLeast
      BY <2>6 DEF HasRead
    <3>1. DOMAIN data # {}
      BY <1>3, <2>4
    <3>2. /\ CacheKey(data) \in DOMAIN asOf /\ CacheKey(data) \in -1..MaxCandles - 1
          /\ \A x \in DOMAIN data : \A k \in data[x] : k <= CacheKey(data)
      <4>1. data \in Data /\ FromTables(data) /\ TypeInv /\ TablesGrow
        BY <2>4a DEF IInv
      <4> QED
        BY <3>1, <4>1, KeyIsKnown
    <3>3. Covers(data)
      <4>1. asOf[CacheKey(data)].stored[s] \subseteq stored[s] /\ s = ReadLast
        BY <2>3, <3>2 DEF IInv, TablesGrow
      <4> QED
        BY <2>4, <4>1 DEF Covers
    <3>4. CacheKey(data) >= q.atLeast
      <4>1. CASE q.atLeast = -1
        BY <3>2, <4>1
      <4>2. CASE q.atLeast # -1
        <5>0. PICK x \in Symbols : \E k \in stored[x] :
                k >= q.atLeast /\ x \in DOMAIN data /\ k \in data[x]
          BY <2>3, <2>6, <2>7, <4>2 DEF StillFinds
        <5>1. PICK k \in stored[x] : k >= q.atLeast /\ x \in DOMAIN data /\ k \in data[x]
          BY <5>0
        <5>2. k \in Int /\ k <= CacheKey(data)
          <6>1. k \in Candles
            BY <5>1 DEF IInv, TypeInv
          <6> QED
            BY <3>2, <5>1, <6>1 DEF Candles
        <5> HIDE DEF q
        <5> DEFINE key == CacheKey(data)
                   bound == q.atLeast
        <5>3. key \in Int /\ bound \in Int /\ k <= key /\ k >= bound
          BY <2>2, <3>2, <5>1, <5>2
        <5> HIDE DEF key, bound
        <5>4. key >= bound
          BY <5>2, <5>3
        <5> QED
          BY <5>4 DEF key, bound
      <4> QED
        BY <4>1, <4>2
    <3> QED
      BY <3>1, <3>3, <3>4
  <2>10. GoodRequest(next)
    <3>1. next.step # "set"
      BY <2>6
    <3> QED
      BY <2>4a, <2>6, <2>8, <2>9, <3>1 DEF GoodRequest
  <2> QED
    BY <1>1, <1>3, <2>5, <2>10, RequestStepGood
<1> QED
  BY <1>2, <1>3 DEF Read

(* Serving a stored candle.                                                *)
LEMMA ServeGood ==
  ASSUME IInv, NEW last \in Candles, \E s \in Symbols : last \in stored[s],
         shown' = Max({shown, last}), UNCHANGED <<endpoint, stored>>
  PROVE  ShownIsStored' /\ shown' \in -1..MaxCandles - 1
<1>1. {shown, last} \in SUBSET (-1..MaxCandles - 1)
  BY DEF IInv, TypeInv, Candles
<1>2. shown' \in {shown, last}
  BY <1>1, LargestExists
<1>3. Symbols' = Symbols
  BY SymbolsStay
<1> QED
  BY <1>1, <1>2, <1>3 DEF IInv, ShownIsStored

LEMMA LookUpGood ==
  ASSUME NEW r \in Requests, IInv, LookUp(r)
  PROVE  IInv'
<1> DEFINE q == req[r]
           key == CacheKey(q.data)
<1>1. /\ UNCHANGED <<endpoint, stored, funding, cache, asOf>>
      /\ q \in RequestStates /\ GoodRequest(q) /\ q.step = "look up"
  BY DEF LookUp, IInv, TypeInv, RequestsAreGood
<1>2. CASE key \in DOMAIN cache
  <2> DEFINE d == cache[key].data
  <2>1. Serve(r, NewestOf(UNION Range(d)))
    BY <1>2 DEF LookUp
  <2>2. d \in Data /\ DOMAIN d # {} /\ FromTables(d) /\ CacheKey(d) = key
    BY <1>2 DEF IInv, TypeInv, CacheIsGood
  <2>3. NewestOf(UNION Range(d)) = key
    BY <2>2 DEF CacheKey
  <2>4. key \in Candles /\ \E s \in Symbols : key \in stored[s]
    BY <2>2, KeyIsKnown DEF IInv
  <2>5. ShownIsStored' /\ shown' \in -1..MaxCandles - 1
    BY <1>1, <2>1, <2>3, <2>4, ServeGood DEF Serve
  <2>6. RequestsAreGood' /\ req' \in [Requests -> RequestStates'] /\ TablesGrow'
    BY <1>1, <2>1, IdleIsGood, RequestGoesOn DEF Serve
  <2>7. Symbols' = Symbols /\ Data' = Data /\ ReadLast' = ReadLast
    BY <1>1, SymbolsStay
  <2>8. CacheIsGood'
    BY <1>1, <2>7 DEF IInv, CacheIsGood, FromTables, Covers, KnowsFunding
  <2> QED
    BY <1>1, <2>5, <2>6, <2>7, <2>8 DEF IInv, TypeInv
<1>3. CASE key \notin DOMAIN cache
  <2> DEFINE to == IF endpoint = "regime" THEN "read funding" ELSE "set"
             next == [q EXCEPT !.step = to]
  <2>1. Goes(r, next) /\ UNCHANGED shown
    BY <1>3 DEF LookUp
  <2>2. to \in {"read funding", "set"} /\ (to = "set" => endpoint # "regime")
    OBVIOUS
  <2> HIDE DEF to, q
  <2>3. /\ next \in RequestStates
        /\ next.step = to /\ next.data = q.data /\ next.atLeast = q.atLeast
    BY <1>1, <2>2 DEF RequestStates
  <2> HIDE DEF next
  <2>4. GoodRequest(next)
    BY <1>1, <2>2, <2>3 DEF GoodRequest, Reading, HasRead, KnowsFunding
  <2> QED
    BY <1>1, <2>1, <2>3, <2>4, RequestStepGood
<1> QED
  BY <1>2, <1>3

LEMMA SetCachedGood ==
  ASSUME NEW r \in Requests, IInv, SetCached(r)
  PROVE  IInv'
<1> DEFINE q == req[r]
           key == CacheKey(q.data)
<1>1. /\ UNCHANGED <<endpoint, stored, funding, asOf>>
      /\ q \in RequestStates /\ GoodRequest(q) /\ q.step = "set"
      /\ cache' = With(cache, key, Result(q))
      /\ Serve(r, NewestOf(UNION Range(q.data)))
  BY DEF SetCached, IInv, TypeInv, RequestsAreGood
<1>2. /\ q.data \in Data /\ DOMAIN q.data # {} /\ FromTables(q.data) /\ Covers(q.data)
      /\ KnowsFunding(key, q.funding) /\ q.funding \in 0..MaxFunding
  BY <1>1 DEF RequestStates, GoodRequest, HasRead
<1>3. key \in Candles /\ \E s \in Symbols : key \in stored[s]
  BY <1>2, KeyIsKnown DEF IInv
<1>4. NewestOf(UNION Range(q.data)) = key
  BY DEF CacheKey
<1>5. ShownIsStored' /\ shown' \in -1..MaxCandles - 1
  <2>1. shown' = Max({shown, key})
    BY <1>1, <1>4 DEF Serve
  <2> HIDE DEF key
  <2> QED
    BY <1>1, <1>3, <2>1, ServeGood
<1>6. RequestsAreGood' /\ req' \in [Requests -> RequestStates'] /\ TablesGrow'
  BY <1>1, IdleIsGood, RequestGoesOn DEF Serve
<1>7. Symbols' = Symbols /\ Data' = Data /\ ReadLast' = ReadLast
  BY <1>1, SymbolsStay
<1>8. /\ DOMAIN cache' = DOMAIN cache \cup {key}
      /\ cache'[key].data = q.data /\ cache'[key].funding = q.funding
      /\ \A last \in DOMAIN cache : last # key => cache'[last] = cache[last]
  BY <1>1 DEF With, Result
<1>9. CacheIsGood' /\ \A last \in DOMAIN cache' : cache'[last].data \in Data
  <2> HIDE DEF q
  <2>1. ASSUME NEW last \in DOMAIN cache'
        PROVE  LET d == cache'[last].data IN
               /\ d \in Data /\ DOMAIN d # {} /\ FromTables(d)
               /\ CacheKey(d) = last /\ Covers(d)
               /\ cache'[last].funding \in 0..MaxFunding
               /\ KnowsFunding(last, cache'[last].funding)
    <3>1. CASE last = key
      BY <1>2, <1>8, <3>1
    <3>2. CASE last # key
      <4>1. last \in DOMAIN cache /\ cache'[last] = cache[last]
        BY <1>8, <3>2
      <4> QED
        BY <4>1 DEF IInv, TypeInv, CacheIsGood
    <3> QED
      BY <3>1, <3>2
  <2>2. \A d : (FromTables(d)' <=> FromTables(d)) /\ (Covers(d)' <=> Covers(d))
    BY <1>1, <1>7 DEF FromTables, Covers
  <2>3. \A last, f : KnowsFunding(last, f)' <=> KnowsFunding(last, f)
    BY <1>1 DEF KnowsFunding
  <2>4. \A d : CacheKey(d)' = CacheKey(d)
    BY DEF CacheKey
  <2>5. \A last \in DOMAIN cache' : cache'[last].data \in Data
    BY <2>1
  <2> QED
    BY <2>1, <2>2, <2>3, <2>4, <2>5 DEF CacheIsGood
<1>10. DOMAIN cache' \subseteq Candles
  BY <1>3, <1>8 DEF IInv, TypeInv
<1> QED
  BY <1>1, <1>5, <1>6, <1>7, <1>9, <1>10 DEF IInv, TypeInv

LEMMA StepGood == IInv /\ [Next]_vars => IInv'
<1> SUFFICES ASSUME IInv, [Next]_vars PROVE IInv'
  OBVIOUS
<1>1. CASE FundingArrives
  BY <1>1, FundingArrivesGood
<1>2. CASE \E s \in Symbols, k \in Candles : Stores(s, k)
  BY <1>2, StoresGood
<1>3. CASE \E r \in Requests :
             Begin(r) \/ Read(r) \/ LookUp(r) \/ ReadFunding(r) \/ SetCached(r) \/ Fails(r)
  BY <1>3, BeginGood, ReadGood, LookUpGood, ReadFundingGood, SetCachedGood, FailsGood
<1>4. CASE \E last \in Candles : Expires(last)
  BY <1>4, ExpiresGood
<1>5. CASE UNCHANGED vars
  <2>1. /\ Symbols' = Symbols /\ Data' = Data /\ ReadLast' = ReadLast
        /\ RequestStates' = RequestStates
    BY <1>5, SymbolsStay DEF vars
  <2> QED
    BY <1>5, <2>1
    DEF vars, IInv, TypeInv, TablesGrow, CacheIsGood, RequestsAreGood, GoodRequest, ShownIsStored,
        FromTables, Reading, StillFinds, HasRead, Covers, KnowsFunding
<1> QED
  BY <1>1, <1>2, <1>3, <1>4, <1>5 DEF Next

(* The invariant.                                                          *)
THEOREM Invariance == Spec => []IInv
  BY InitGood, StepGood, PTL DEF Spec

-----------------------------------------------------------------------------
(* What follows from it                                                    *)

LEMMA TypesFollow == IInv => TypeOK
<1> SUFFICES ASSUME IInv PROVE TypeOK
  OBVIOUS
<1>1. ASSUME NEW last \in DOMAIN cache
      PROVE  /\ DOMAIN cache[last].data \subseteq Symbols
             /\ last = Max(UNION Range(cache[last].data))
             /\ \A s \in DOMAIN cache[last].data : Cardinality(cache[last].data[s]) \in 1..Limit
  <2> DEFINE d == cache[last].data
  <2>1. d \in Data /\ DOMAIN d # {} /\ FromTables(d) /\ CacheKey(d) = last
    BY DEF IInv, TypeInv, CacheIsGood
  <2>2. last = Max(UNION Range(d))
    BY <2>1, KeyIsKnown DEF IInv
  <2>3. DOMAIN d \subseteq Symbols /\ \A s \in DOMAIN d : d[s] \in SUBSET Candles
    BY <2>1 DEF Data
  <2>4. ASSUME NEW s \in DOMAIN d PROVE Cardinality(d[s]) \in 1..Limit
    <3>1. d[s] # {} /\ Cardinality(d[s]) <= Limit
      BY <2>1 DEF FromTables
    <3>2. IsFiniteSet(d[s])
      <4>1. IsFiniteSet(Candles)
        BY FS_Interval DEF Candles
      <4> QED
        BY <2>3, <4>1, FS_Subset
    <3>3. Cardinality(d[s]) \in Nat /\ Cardinality(d[s]) # 0
      BY <3>1, <3>2, FS_CardinalityType, FS_EmptySet
    <3> HIDE DEF d
    <3> QED
      BY <3>1, <3>3
  <2> QED
    BY <2>2, <2>3, <2>4
<1>2. \A s \in Symbols : stored[s] \subseteq Candles
  BY DEF IInv, TypeInv
<1> QED
  BY <1>1, <1>2 DEF IInv, TypeInv, TypeOK, RequestStates

(* What a request answers is of the time that it read, whether it was      *)
(* cached or is computed.                                                  *)
LEMMA AnswersWhatItRead ==
  ASSUME IInv, NEW r \in Requests, Answers(r)
  PROVE  LET key == CacheKey(req[r].data) IN
         /\ req[r].step \in {"look up", "set"} /\ HasRead(req[r])
         /\ CacheKey(Answer(r).data) = key /\ Covers(Answer(r).data)
         /\ KnowsFunding(key, Answer(r).funding)
<1>1. req[r] \in RequestStates /\ GoodRequest(req[r]) /\ req[r].step \in {"look up", "set"}
  BY DEF IInv, TypeInv, RequestsAreGood, Answers, Hits
<1>2. CASE Hits(r)
  BY <1>1, <1>2 DEF Hits, Answer, IInv, CacheIsGood, GoodRequest
<1>3. CASE ~Hits(r)
  <2>1. req[r].step = "set" /\ Answer(r).data = req[r].data /\ Answer(r).funding = req[r].funding
    BY <1>3 DEF Answers, Answer, Result
  <2> QED
    BY <1>1, <2>1 DEF GoodRequest, HasRead
<1> QED
  BY <1>2, <1>3

(* Every state has the types that TypeOK names; what is cached has the     *)
(* newest candle's time and at most Limit candles of every series.         *)
THEOREM TypeCorrect == Spec => []TypeOK
  BY Invariance, TypesFollow, PTL

(* No dashboard goes back in time.                                         *)
THEOREM NoResultGoesBack == Spec => []NeverGoesBack
<1>1. IInv => NeverGoesBack
  <2> SUFFICES ASSUME IInv, NEW r \in Requests, Answers(r)
               PROVE  NewestOf(UNION Range(Answer(r).data)) >= req[r].atLeast
    BY DEF NeverGoesBack
  <2>1. /\ req[r].step \in {"look up", "set"} /\ HasRead(req[r])
        /\ CacheKey(Answer(r).data) = CacheKey(req[r].data)
    BY AnswersWhatItRead
  <2> QED
    BY <2>1 DEF HasRead, CacheKey
<1> QED
  BY <1>1, Invariance, PTL

(* An answer has all that the tables held when the newest time it found    *)
(* was first stored.                                                       *)
THEOREM AnswersAsOfCandle == Spec => []ServesAsOfCandle
<1>1. IInv => ServesAsOfCandle
  <2> SUFFICES ASSUME IInv, NEW r \in Requests, Answers(r)
               PROVE  LET then == asOf[NewestOf(UNION Range(req[r].data))]
                          a == Answer(r)
                          t == Last(Reads[endpoint])
                      IN /\ \A k \in then.stored[t] : t \in DOMAIN a.data /\ (k \in a.data[t] \/ k < Min(a.data[t]))
                         /\ endpoint = "regime" => a.funding >= then.funding
    BY DEF ServesAsOfCandle
  <2>1. /\ CacheKey(Answer(r).data) = CacheKey(req[r].data) /\ Covers(Answer(r).data)
        /\ KnowsFunding(CacheKey(req[r].data), Answer(r).funding)
    BY AnswersWhatItRead
  <2>2. NewestOf(UNION Range(req[r].data)) = CacheKey(req[r].data)
    BY DEF CacheKey
  <2> QED
    BY <2>1, <2>2 DEF Covers, KnowsFunding, ReadLast
<1> QED
  BY <1>1, Invariance, PTL

=============================================================================
