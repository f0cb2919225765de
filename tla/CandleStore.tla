---------------------------- MODULE CandleStore -----------------------------
(***************************************************************************)
(* How market data gets into the tables: the back-fill of candles and of   *)
(* the futures series (backend/app/ingestion/backfill.py, gaps.py,         *)
(* upserts.py), which the command line and the scheduler's jobs run, and   *)
(* the worker that stores candles as they close.  One symbol and interval; *)
(* every (symbol, interval) has a session of its own.                      *)
(*                                                                         *)
(* Times are units since the exchange's first candle.  A candle is named   *)
(* by its number: number k opens at k * Interval.  Rows of a series bear   *)
(* the times at which the exchange writes them, every RowPeriod.           *)
(***************************************************************************)
EXTENDS Integers, Sequences, FiniteSets, FiniteSetsExt

CONSTANTS
  Actors,        \* processes that back-fill
  Interval, Depth,
  Limit,         \* KLINES_MAX_LIMIT
  RowPeriod, RowLimit, Retention,
  MaxAhead,      \* how far ahead of the clock a range on the command line may end
  MaxTime, MaxFailures

ASSUME StoreAssumption ==
  /\ Interval \in Nat \ {0} /\ Depth \in Nat /\ Limit \in Nat \ {0}
  /\ RowPeriod \in Nat \ {0} /\ RowLimit \in Nat \ {0} /\ Retention \in Nat
  /\ MaxAhead \in Nat /\ MaxTime \in Nat /\ MaxFailures \in Nat

VARIABLES
  table,     \* the table looked at, "candles" or "series": no step touches both
  clock,
  exists,    \* the candles the exchange has: in a downtime it has none
  stored,    \* candles in the table that are final
  partial,   \* candles in the table that were stored while they were forming
  rows,      \* rows of the series in its table
  job,       \* what every actor is doing
  failures,
  expired    \* history variable: where the retention had moved to when a
             \* top-up of the series last began

Idle == [step |-> "idle", low |-> 0, high |-> 0, gaps |-> <<>>, cursor |-> 0,
         batch |-> {}, forming |-> {}]
tables == <<stored, partial, rows>>
world == <<table, exists>>
vars == <<world, clock, tables, job, failures, expired>>

Candles == 0..MaxTime \div Interval
RowTimes == {t \in 0..MaxTime : t % RowPeriod = 0}

TypeOK ==
  /\ clock \in 0..MaxTime /\ table \in {"candles", "series"}
  /\ exists \subseteq Candles /\ stored \subseteq Candles /\ partial \subseteq Candles
  /\ rows \subseteq RowTimes
  /\ DOMAIN job = Actors
  /\ \A a \in Actors :
       /\ job[a].step \in {"idle", "fetch", "commit"}
       /\ job[a].cursor \in -(Depth + Interval)..MaxTime + MaxAhead
       /\ \A i \in DOMAIN job[a].gaps : job[a].gaps[i].start <= job[a].gaps[i].end
  /\ failures \in 0..MaxFailures
  /\ expired \in 0..MaxTime

Init ==
  /\ clock = 0
  /\ \/ table = "candles" /\ exists \in SUBSET Candles
     \/ table = "series" /\ exists = {}
  /\ stored = {} /\ partial = {} /\ rows = {}
  /\ job = [a \in Actors |-> Idle]
  /\ failures = 0 /\ expired = 0

-----------------------------------------------------------------------------
(* Gaps                                                                    *)

AlignToGrid(t) == t - (t % Interval)

Gap(first, last) == [start |-> first, end |-> last]

(* find_gaps: one pass over the sorted times in the range, behind a cursor.*)
IsNotBehind(t, cursor) == t >= cursor
IsAhead(t, cursor) == t > cursor
Scan(times, start) ==
  LET scan[have \in SUBSET times] ==
        IF have = {} THEN [cursor |-> start, gaps |-> <<>>]
        ELSE LET t == Max(have)
                 acc == scan[have \ {t}]
             IN [cursor |-> t + Interval,
                 gaps |-> IF IsAhead(t, acc.cursor)
                          THEN Append(acc.gaps, Gap(acc.cursor, t - Interval))
                          ELSE acc.gaps]
  IN scan[times]
FindGapsInside(times, start, end) == Scan({t \in times : start <= t /\ t <= end}, start).gaps
FindGapsBehindLatest(times, start, end) ==
  LET next == IF times = {} THEN start ELSE Max(times) + Interval
  IN IF next <= end THEN <<Gap(next, end)>> ELSE <<>>
FindGaps(times, start, end) ==
  LET scan == Scan({t \in times : start <= t /\ t <= end}, start) IN
  IF scan.cursor <= end THEN Append(scan.gaps, Gap(scan.cursor, end)) ELSE scan.gaps

-----------------------------------------------------------------------------
(* Candles                                                                 *)

OpenTimes(candles) == {k * Interval : k \in candles}
IsClosed(k) == (k + 1) * Interval <= clock

(* get_klines: the candles that open within the bounds, the forming one    *)
(* among them, the first Limit of them.                                    *)
Klines(start, end) ==
  LET within == {k \in exists : start <= k * Interval /\ k * Interval <= end /\ k * Interval <= clock}
  IN {k \in within : Cardinality({j \in within : j < k}) < Limit}

Goes(a, j) == job' = [job EXCEPT ![a] = j]

(* The next range to look at, or the end of the job.                       *)
Advanced(j, cursor) ==
  IF cursor <= Head(j.gaps).end
  THEN [j EXCEPT !.step = "fetch", !.cursor = cursor, !.batch = {}, !.forming = {}]
  ELSE IF Len(j.gaps) > 1
  THEN [j EXCEPT !.step = "fetch", !.gaps = Tail(@), !.cursor = j.gaps[2].start,
                 !.batch = {}, !.forming = {}]
  ELSE Idle

(* The end of the range: the candle that is still forming is excluded.     *)
LastOpen(end) == AlignToGrid(end)
LastClosed(end) == AlignToGrid(end) - Interval

(* backfill_candles up to the first request.                               *)
BeginCandles(a, start, end) ==
  LET low == AlignToGrid(start)
      high == LastClosed(end)
      gaps == FindGaps(OpenTimes(stored \cup partial), low, high)
  IN
  /\ table = "candles" /\ job[a].step = "idle"
  /\ low <= high /\ gaps # <<>>
  /\ Goes(a, [Idle EXCEPT !.step = "fetch", !.low = low, !.high = high,
                         !.gaps = gaps, !.cursor = gaps[1].start])
  /\ UNCHANGED <<clock, world, tables, failures, expired>>

(* One round of _fill_gap: an empty answer is passed over as a whole.      *)
FetchCandles(a) ==
  LET j == job[a]
      last == Head(j.gaps).end
      window == j.cursor + (Limit - 1) * Interval
      batchEnd == IF last < window THEN last ELSE window
      klines == Klines(j.cursor, batchEnd + Interval - 1)
  IN
  /\ table = "candles" /\ j.step = "fetch"
  /\ Goes(a, IF klines = {} THEN Advanced(j, batchEnd + Interval)
            ELSE [j EXCEPT !.step = "commit", !.batch = klines,
                           !.forming = {k \in klines : ~IsClosed(k)}])
  /\ UNCHANGED <<clock, world, tables, failures, expired>>

(* upsert_candles and the commit of the batch.                             *)
NextFetchSkipping(batch) == (Max(batch) + 2) * Interval
NextFetch(batch) == (Max(batch) + 1) * Interval
CommitCandles(a) ==
  LET j == job[a]
      final == j.batch \ j.forming
  IN
  /\ table = "candles" /\ j.step = "commit"
  /\ stored' = (stored \ j.forming) \cup final
  /\ partial' = (partial \ final) \cup j.forming
  /\ Goes(a, Advanced(j, NextFetch(j.batch)))
  /\ UNCHANGED <<clock, world, rows, failures, expired>>

(* handle_kline stores a candle when the stream says that it has closed.   *)
WorkerStores ==
  \E k \in exists :
    /\ IsClosed(k)
    /\ stored' = stored \cup {k}
    /\ partial' = partial \ {k}
    /\ UNCHANGED <<clock, world, rows, job, failures, expired>>

-----------------------------------------------------------------------------
(* Funding rates, open interest, long/short ratios                         *)

(* The top-up goes on behind the latest row, or where retention begins.    *)
StartBehind(latest) == latest + 1
BeginSeries(a) ==
  LET floor == IF clock < Retention THEN 0 ELSE clock - Retention
      behind == IF rows = {} THEN 0 ELSE StartBehind(Max(rows))
      start == IF behind < floor THEN floor ELSE behind
  IN
  /\ table = "series" /\ job[a].step = "idle"
  /\ expired' = IF expired < floor THEN floor ELSE expired
  /\ Goes(a, IF start > clock THEN Idle
             ELSE [Idle EXCEPT !.step = "fetch", !.high = clock, !.cursor = start])
  /\ UNCHANGED <<clock, world, tables, failures>>

(* A window of _fetch_windows, as long as RowLimit rows take.              *)
WindowTooLong(j) ==
  LET end == j.cursor + (RowLimit + 1) * RowPeriod - 1 IN IF end < j.high THEN end ELSE j.high
WindowEnd(j) ==
  LET end == j.cursor + RowLimit * RowPeriod - 1 IN IF end < j.high THEN end ELSE j.high

NextWindow(j) ==
  IF WindowEnd(j) < j.high
  THEN [j EXCEPT !.step = "fetch", !.cursor = WindowEnd(j) + 1, !.batch = {}]
  ELSE Idle

FetchSeries(a) ==
  LET j == job[a]
      within == {t \in RowTimes : j.cursor <= t /\ t <= WindowEnd(j)}
      entries == {t \in within : Cardinality({u \in within : u < t}) < RowLimit}
  IN
  /\ table = "series" /\ j.step = "fetch"
  /\ Goes(a, IF entries = {} THEN NextWindow(j)
            ELSE [j EXCEPT !.step = "commit", !.batch = entries])
  /\ UNCHANGED <<clock, world, tables, failures, expired>>

CommitSeries(a) ==
  LET j == job[a] IN
  /\ table = "series" /\ j.step = "commit"
  /\ rows' = rows \cup j.batch
  /\ Goes(a, NextWindow(j))
  /\ UNCHANGED <<clock, world, stored, partial, failures, expired>>

-----------------------------------------------------------------------------

(* A request or a commit fails, or the process dies: session_scope rolls   *)
(* back the batch under way; what was committed stays.                     *)
JobFails(a) ==
  /\ job[a].step # "idle" /\ failures < MaxFailures
  /\ Goes(a, Idle)
  /\ failures' = failures + 1
  /\ UNCHANGED <<clock, world, tables, expired>>

Tick ==
  /\ clock < MaxTime
  /\ clock' = clock + 1
  /\ UNCHANGED <<world, tables, job, failures, expired>>

JobSteps(a) == FetchCandles(a) \/ CommitCandles(a) \/ FetchSeries(a) \/ CommitSeries(a)
TopUp(a) == BeginCandles(a, clock - Depth, clock)
RangeGiven(a) ==
  a = "cli" /\ \E start \in 0..clock, end \in 0..clock + MaxAhead : BeginCandles(a, start, end)

Next ==
  \/ \E a \in Actors : TopUp(a) \/ RangeGiven(a) \/ BeginSeries(a) \/ JobSteps(a) \/ JobFails(a)
  \/ WorkerStores \/ Tick

(* The scheduler's jobs come round for ever, and requests are answered.    *)
Fairness ==
  /\ WF_vars(Tick)
  /\ \A a \in Actors : WF_vars(JobSteps(a))
  /\ WF_vars(TopUp("scheduler"))

Spec == Init /\ [][Next]_vars /\ Fairness

-----------------------------------------------------------------------------
(* Properties                                                              *)

(* find_gaps returns, for any range and whatever is stored, the missing    *)
(* grid points, each once and in order, in ranges that cannot be joined.   *)
GapsExact ==
  \A low, high \in Candles : low <= high =>
    LET gaps == FindGaps(OpenTimes(stored \cup partial), low * Interval, high * Interval)
        Covers(g) == {t \in OpenTimes(Candles) : g.start <= t /\ t <= g.end}
    IN /\ UNION {Covers(gaps[i]) : i \in DOMAIN gaps}
            = OpenTimes((low..high) \ (stored \cup partial))
       /\ \A i \in DOMAIN gaps : gaps[i].start <= gaps[i].end
       /\ \A i \in 2..Len(gaps) : gaps[i - 1].end + Interval < gaps[i].start

(* A back-fill that comes to its end has left nothing behind: all candles  *)
(* of its range that the exchange has are in the table, in spite of empty  *)
(* and short batches, and of what others store meanwhile.                  *)
BackfillCompletes ==
  [][\A a \in Actors :
       table = "candles" /\ job[a].step # "idle" /\ job'[a].step = "idle" /\ failures' = failures
         => {k \in exists : job[a].low <= k * Interval /\ k * Interval <= job[a].high} \subseteq stored']_vars

(* Readers of the candle table get what CandleTable promises: no candle is *)
(* stored while it is forming ("Exclude the still-forming candle"), and    *)
(* none is taken back, whoever stores it again.                            *)
Table == INSTANCE CandleTable WITH closed <- clock \div Interval, stored <- stored \cup partial
ImplementsTable == Table!TableSpec

(* The series has no holes behind its latest row, except what was out of   *)
(* the exchange's retention when a top-up began: failures between windows  *)
(* and two top-ups at a time leave none, which the next one, beginning     *)
(* behind the latest row, would never fill.                                *)
SeriesHasNoHoles ==
  \A t \in RowTimes : (t \notin rows /\ \E u \in rows : u > t) => t < expired

(* A candle the worker has missed arrives all the same: the scheduler's    *)
(* back-fill finds it, however often a job fails before.                   *)
CandlesArrive ==
  \A k \in Candles : k \in exists /\ IsClosed(k) ~> k \in stored

=============================================================================
