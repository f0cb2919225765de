--------------------------- MODULE AnalyticsCache ---------------------------
(***************************************************************************)
(* The cached analytics endpoints (backend/app/api/analytics.py) over the  *)
(* candle table: every request reads the newest candles, looks the result  *)
(* up in Redis under the time of the last of them (analytics/cache.py),    *)
(* and computes and caches it when it is not there.  The reads of a        *)
(* request are statements of their own: the tables move on between them.   *)
(*                                                                         *)
(* A result is abstracted to what it was computed from.  Endpoints never   *)
(* share a key, so that one of them is looked at, with one set of          *)
(* parameters.  Candles are stored as CandleTable promises, in any order   *)
(* and for good.                                                           *)
(***************************************************************************)
EXTENDS Integers, Sequences, FiniteSets, SequencesExt

CONSTANTS
  Requests,
  Limit,      \* newest candles that are read
  MaxCandles, MaxStores, MaxFunding

ASSUME CacheAssumption == Limit \in Nat \ {0} /\ MaxCandles \in Nat /\ MaxStores \in Nat /\ MaxFunding \in Nat

VARIABLES
  endpoint,
  stored,     \* per symbol, the candles in the table
  funding,    \* funding rates in their table
  cache,      \* Redis: from the last candle's time to the result
  req,        \* what every request is doing
  asOf,       \* history variable: the tables when a time's first candle was stored
  shown       \* history variable: the newest candle of a result that was served

vars == <<endpoint, stored, funding, cache, req, asOf, shown>>

(* The symbols an endpoint reads, in order.  A sweep of the regime over    *)
(* the watchlist is a sequence of requests for one symbol.                 *)
Reads ==
  [series |-> <<"A">>, regime |-> <<"A">>, pairs |-> <<"A", "B">>, correlation |-> <<"A", "B">>]
Symbols == Range(Reads[endpoint])

Idle == [step |-> "idle", todo |-> <<>>, data |-> <<>>, funding |-> 0, atLeast |-> -1]

Candles == 0..MaxCandles - 1
With(f, x, y) == [z \in DOMAIN f \cup {x} |-> IF z = x THEN y ELSE f[z]]
NewestOf(S) == Max(S \cup {-1})
Tables == [stored |-> stored, funding |-> funding]

TypeOK ==
  /\ funding \in 0..MaxFunding
  /\ \A s \in Symbols : stored[s] \subseteq Candles
  /\ DOMAIN cache \subseteq Candles
  /\ \A last \in DOMAIN cache :
       /\ DOMAIN cache[last].data \subseteq Symbols
       /\ last = Max(UNION Range(cache[last].data))
       /\ \A s \in DOMAIN cache[last].data : Cardinality(cache[last].data[s]) \in 1..Limit
  /\ \A r \in Requests : req[r].step \in {"idle", "read", "look up", "read funding", "set"}
  /\ shown \in -1..MaxCandles - 1

Init ==
  /\ endpoint \in DOMAIN Reads
  /\ stored = [s \in Symbols |-> {}] /\ funding = 0
  /\ cache = <<>>
  /\ req = [r \in Requests |-> Idle]
  /\ asOf = <<>> /\ shown = -1

-----------------------------------------------------------------------------
(* The tables                                                              *)

StoredSoFar == Cardinality({e \in Symbols \X Candles : e[2] \in stored[e[1]]})
Stores(s, k) ==
  /\ k \notin stored[s] /\ StoredSoFar < MaxStores
  /\ stored' = [stored EXCEPT ![s] = @ \cup {k}]
  /\ asOf' = IF k \in DOMAIN asOf THEN asOf ELSE With(asOf, k, Tables)
  /\ UNCHANGED <<endpoint, funding, cache, req, shown>>

FundingArrives ==
  /\ endpoint = "regime" /\ funding < MaxFunding
  /\ funding' = funding + 1
  /\ UNCHANGED <<endpoint, stored, cache, req, asOf, shown>>

-----------------------------------------------------------------------------
(* Requests                                                                *)

Newest(S) == {k \in S : Cardinality({j \in S : j > k}) < Limit}

Goes(r, q) == req' = [req EXCEPT ![r] = q]

Begin(r) ==
  /\ req[r].step = "idle"
  /\ Goes(r, [Idle EXCEPT !.step = "read", !.todo = Reads[endpoint], !.atLeast = shown])
  /\ UNCHANGED <<endpoint, stored, funding, cache, asOf, shown>>

(* load_candles_df, load_close_matrix: no candles are a 404, or left out.  *)
Read(r) ==
  LET q == req[r]
      s == Head(q.todo)
      data == IF stored[s] = {} THEN q.data ELSE With(q.data, s, Newest(stored[s]))
      missing == stored[s] = {} /\ endpoint # "correlation"
      rest == Tail(q.todo)
  IN
  /\ q.step = "read"
  /\ Goes(r, IF missing \/ (rest = <<>> /\ data = <<>>) THEN Idle
             ELSE [q EXCEPT !.todo = rest, !.data = data,
                            !.step = IF rest = <<>> THEN "look up" ELSE "read"])
  /\ UNCHANGED <<endpoint, stored, funding, cache, asOf, shown>>

(* cache_key: of what was read, the time of the newest candle.             *)
OldestLast(data) == Min({Max(data[s]) : s \in DOMAIN data})
NoTime(data) == 0
CacheKey(data) == NewestOf(UNION Range(data))

Serve(r, last) ==
  /\ Goes(r, Idle)
  /\ shown' = Max({shown, last})

Result(q) == [data |-> q.data, funding |-> q.funding]

(* get_cached                                                              *)
LookUp(r) ==
  LET q == req[r]
      key == CacheKey(q.data)
  IN
  /\ q.step = "look up"
  /\ IF key \in DOMAIN cache
     THEN Serve(r, NewestOf(UNION Range(cache[key].data)))
     ELSE /\ Goes(r, [q EXCEPT !.step = IF endpoint = "regime" THEN "read funding" ELSE "set"])
          /\ UNCHANGED shown
  /\ UNCHANGED <<endpoint, stored, funding, cache, asOf>>

(* The regime reads the funding rates behind the candles.                  *)
ReadFunding(r) ==
  /\ req[r].step = "read funding"
  /\ Goes(r, [req[r] EXCEPT !.step = "set", !.funding = funding])
  /\ UNCHANGED <<endpoint, stored, funding, cache, asOf, shown>>

(* set_cached, whatever another request has cached meanwhile.              *)
SetCached(r) ==
  LET q == req[r] IN
  /\ q.step = "set"
  /\ cache' = With(cache, CacheKey(q.data), Result(q))
  /\ Serve(r, NewestOf(UNION Range(q.data)))
  /\ UNCHANGED <<endpoint, stored, funding, asOf>>

(* The database or Redis fails, or the client goes away.                   *)
Fails(r) ==
  /\ req[r].step # "idle"
  /\ Goes(r, Idle)
  /\ UNCHANGED <<endpoint, stored, funding, cache, asOf, shown>>

(* CACHE_TTL_SECONDS have passed since the result was cached.              *)
Expires(last) ==
  /\ last \in DOMAIN cache
  /\ cache' = Restrict(cache, DOMAIN cache \ {last})
  /\ UNCHANGED <<endpoint, stored, funding, req, asOf, shown>>

Next ==
  \/ FundingArrives
  \/ \E s \in Symbols, k \in Candles : Stores(s, k)
  \/ \E r \in Requests :
       Begin(r) \/ Read(r) \/ LookUp(r) \/ ReadFunding(r) \/ SetCached(r) \/ Fails(r)
  \/ \E last \in Candles : Expires(last)

Spec == Init /\ [][Next]_vars

-----------------------------------------------------------------------------
(* Properties                                                              *)

(* What a request is about to answer.                                      *)
Hits(r) == req[r].step = "look up" /\ CacheKey(req[r].data) \in DOMAIN cache
Answers(r) == Hits(r) \/ req[r].step = "set"
Answer(r) == IF Hits(r) THEN cache[CacheKey(req[r].data)] ELSE Result(req[r])

(* A dashboard never goes back in time: a result is not older than one     *)
(* that was shown before it was asked for, whether it is cached or         *)
(* computed, and however long other requests take to cache theirs.         *)
NeverGoesBack ==
  \A r \in Requests : Answers(r) => NewestOf(UNION Range(Answer(r).data)) >= req[r].atLeast

(* "Any new closed candle invalidates naturally" (cache.py:1-3), which is  *)
(* true of a time's first, and of the table that is read last: an answer   *)
(* has what that table and the funding rates had when a candle of the      *)
(* newest time the request found was first stored.  It may lack what came  *)
(* after that (gaps that were filled, later funding), and the tables that  *)
(* are read before may have been behind, by any number of candles.         *)
ServesAsOfCandle ==
  \A r \in Requests : Answers(r) =>
    LET then == asOf[NewestOf(UNION Range(req[r].data))]
        a == Answer(r)
        t == Last(Reads[endpoint])
    IN /\ \A k \in then.stored[t] : t \in DOMAIN a.data /\ (k \in a.data[t] \/ k < Min(a.data[t]))
       /\ endpoint = "regime" => a.funding >= then.funding

=============================================================================
