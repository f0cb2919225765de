---------------------------- MODULE BacktestJobs ----------------------------
(***************************************************************************)
(* A backtest submitted to the API (backend/app/api/backtests.py): a row   *)
(* that is pending, running, and then done or in error, and the background *)
(* task that gets it there, while candles keep closing.  Rows are          *)
(* independent: one is enough.                                             *)
(***************************************************************************)
EXTENDS Backtest

CONSTANTS
  Readings, Candidates, Scores,
  MinBars,       \* candles without which a backtest is refused
  Windows,
  MaxBars, MaxFaults

ASSUME JobsAssumption ==
  /\ Readings # {} /\ Readings \subseteq Int \cup {NoValue}
  /\ Scores \subseteq Int \cup {NoValue}
  /\ IsFiniteSet(Candidates) /\ Candidates = 1..Cardinality(Candidates)
  /\ MinBars \in Nat \ {0} /\ Windows \in Nat \ {0} /\ MaxBars \in Nat /\ MaxFaults \in Nat

VARIABLES
  bars,       \* the candles, as readings
  row,        \* the row: its status, and what it says of the walk-forward
  task,       \* the background task: the step it is at and what it has in hand
  faults,
  lost        \* history variable: nobody is left to finish the row

vars == <<bars, row, task, faults, lost>>

NoTask == [step |-> "none", walkForward |-> FALSE, n |-> 0, scores |-> <<>>, best |-> <<>>]

Init ==
  /\ bars = <<>>
  /\ row = [status |-> "none", n |-> 0, best |-> <<>>]
  /\ task = NoTask
  /\ faults = 0
  /\ lost = FALSE

CandleCloses ==
  /\ Len(bars) < MaxBars
  /\ \E v \in Readings : bars' = Append(bars, v)
  /\ UNCHANGED <<row, task, faults, lost>>

(* create_backtest: the row is committed before the task is started.       *)
Create(walkForward) ==
  /\ row.status = "none"
  /\ row' = [row EXCEPT !.status = "pending"]
  /\ task' = [NoTask EXCEPT !.step = "start", !.walkForward = walkForward]
  /\ UNCHANGED <<bars, faults, lost>>

(* _execute                                                                *)
Start ==
  /\ task.step = "start"
  /\ row' = [row EXCEPT !.status = "running"]
  /\ task' = [task EXCEPT !.step = "load"]
  /\ UNCHANGED <<bars, faults, lost>>

Raises == [task EXCEPT !.step = "failed", !.scores = <<>>, !.best = <<>>]

Load ==
  /\ task.step = "load"
  /\ task' = IF Len(bars) < MinBars THEN Raises
             ELSE [task EXCEPT !.step = "compute", !.n = Len(bars)]
  /\ UNCHANGED <<bars, row, faults, lost>>

(* The backtest, and the walk-forward behind it: the best parameters on    *)
(* the train part of every window, "assert best_params is not None".  What *)
(* a candidate scores depends on prices: anything, but nothing at all when *)
(* no position is possible in bars without readings.                       *)
Score(n, w) ==
  IF \A i \in Split(n, Windows, w).train : bars[i] = NoValue
  THEN [Candidates -> {NoValue}] ELSE [Candidates -> Scores]

NeverUnchosen(best) == FALSE
Unchosen(best) == 0 \in Range(best)

Compute ==
  /\ task.step = "compute"
  /\ \/ /\ ~task.walkForward
        /\ task' = [task EXCEPT !.step = "finish"]
     \/ /\ task.walkForward /\ ~EnoughBars(task.n, Windows)
        /\ task' = Raises
     \/ /\ task.walkForward /\ EnoughBars(task.n, Windows)
        /\ \E scores \in {f \in [1..Windows -> [Candidates -> Scores]] :
                            \A w \in 1..Windows : f[w] \in Score(task.n, w)} :
             LET best == [w \in 1..Windows |-> BestInTrain(scores[w])] IN
             task' = IF Unchosen(best) THEN Raises
                     ELSE [task EXCEPT !.step = "finish", !.scores = scores, !.best = best]
  /\ UNCHANGED <<bars, row, faults, lost>>

Finish ==
  /\ task.step = "finish"
  /\ row' = [status |-> "done", n |-> task.n, best |-> task.best]
  /\ task' = NoTask
  /\ UNCHANGED <<bars, faults, lost>>

(* A statement or a commit fails, or the computation raises: the session   *)
(* is left, what it had not committed is gone.                             *)
Fails ==
  /\ task.step \in {"start", "load", "compute", "finish"} /\ faults < MaxFaults
  /\ task' = Raises
  /\ faults' = faults + 1
  /\ UNCHANGED <<bars, row, lost>>

(* "except Exception": the error is written in a session of its own, which *)
(* may fail for the same reason.                                           *)
SwallowsError ==
  /\ task.step = "failed"
  /\ task' = NoTask
  /\ UNCHANGED <<bars, row, faults, lost>>
WriteError ==
  /\ task.step = "failed"
  /\ task' = NoTask
  /\ \/ row' = [row EXCEPT !.status = "error"] /\ UNCHANGED <<faults, lost>>
     \/ faults < MaxFaults /\ faults' = faults + 1 /\ lost' = TRUE /\ UNCHANGED row
  /\ UNCHANGED bars

(* The API process restarts: its tasks are gone and nothing resumes them.  *)
Restart ==
  /\ task # NoTask /\ faults < MaxFaults
  /\ task' = NoTask
  /\ faults' = faults + 1
  /\ lost' = TRUE
  /\ UNCHANGED <<bars, row>>

Next ==
  \/ CandleCloses \/ \E walkForward \in BOOLEAN : Create(walkForward)
  \/ Start \/ Load \/ Compute \/ Finish \/ Fails \/ WriteError \/ Restart

Spec == Init /\ [][Next]_vars /\ WF_vars(Start \/ Load \/ Compute \/ Finish \/ WriteError)

-----------------------------------------------------------------------------
(* Properties                                                              *)

TypeOK ==
  /\ bars \in Seq(Readings) /\ Len(bars) <= MaxBars
  /\ row.status \in {"none", "pending", "running", "done", "error"}
  /\ task.step \in {"none", "start", "load", "compute", "finish", "failed"}
  /\ task.best \in Seq(Candidates) /\ Len(task.best) \in {0, Windows}
  /\ faults \in 0..MaxFaults /\ lost \in BOOLEAN

(* "Strategies cannot look ahead" (engine.py:152-154): what is held on a   *)
(* bar is the same whatever that bar turns out to be, and a new bar        *)
(* changes nothing that was held before it.                                *)
NoLookAhead ==
  \A s \in Strategies :
    LET next == {Held(Targets(s, Append(bars, v))) : v \in Readings}
    IN Cardinality(next) = 1 /\ \A h \in next : Front(h) = Held(Targets(s, bars))

(* The list of trades trails the equity curve by one bar, and agrees with  *)
(* it otherwise: it earns each bar's return on the side on which the curve *)
(* earned the bar before's, no trade overlaps another or is split in two,  *)
(* flips included, the position that the last bar cuts short ends there,   *)
(* and the two sides of every trade are what costs are charged for.  (The  *)
(* trade that is cut short is charged for one side in the curve, for two   *)
(* in the list; what it makes on the last bar is in the curve only.)       *)
TradesTrailCurve ==
  \A s \in Strategies :
    LET held == Held(Targets(s, bars))
        n == Len(held)
        trades == ExtractTrades(held)
        Earning(i) == {t \in DOMAIN trades : i \in Earns(trades[t])}
    IN /\ \A i \in 1..n : {trades[t].side : t \in Earning(i)} = {Before(held, i)} \ {0}
       /\ n > 0 /\ held[n] # 0 => trades # <<>> /\ Last(trades).exit = n /\ Last(trades).side = held[n]
       /\ \A t \in 2..Len(trades) :
            \/ trades[t - 1].exit < trades[t].entry
            \/ trades[t - 1].exit = trades[t].entry /\ trades[t - 1].side # trades[t].side
       /\ n > 0 => Turnover(held) = 2 * Len(trades) - (IF held[n] = 0 THEN 0 ELSE 1)

(* "Max bars held" (strategies.py:229), to the bar, gaps in the reading    *)
(* included.                                                               *)
HoldsAtMostMaxHold ==
  LET trades == ExtractTrades(Held(Targets("rsi_mr", bars)))
  IN \A t \in DOMAIN trades : trades[t].exit - trades[t].entry <= MaxHold

(* "Test segments are non-overlapping", every bar is in one part of one    *)
(* window, and parameters are tried on bars behind those they were chosen  *)
(* on, where no candidate that trades did better.                          *)
WalkForwardIsHonest ==
  task.best # <<>> =>
    LET Part(w) == Split(task.n, Windows, w)
        Parts == UNION {{Part(w).train, Part(w).test} : w \in 1..Windows}
    IN /\ UNION Parts = 1..task.n /\ {} \notin Parts
       /\ \A P, Q \in Parts : P # Q => P \cap Q = {}
       /\ Cardinality(Parts) = 2 * Windows
       /\ \A w \in 1..Windows :
            /\ Max(Part(w).train) < Min(Part(w).test)
            /\ \A c \in Candidates : task.scores[w][c] \notin {NoValue, 0} =>
                 task.scores[w][c] <= task.scores[w][task.best[w]]

(* A submitted backtest comes to an end, done or in error, unless the API  *)
(* restarts meanwhile or cannot even write the error.                      *)
JobsEnd == row.status = "pending" ~> row.status \in {"done", "error"} \/ lost

=============================================================================
