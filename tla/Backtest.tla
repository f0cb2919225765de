------------------------------ MODULE Backtest ------------------------------
(***************************************************************************)
(* The backtester's algorithms, as operators: the strategies               *)
(* (backend/app/backtest/strategies.py, pairs.py), the position that is    *)
(* held and the trades made of it (engine.py), the windows of the          *)
(* walk-forward mode and the choice of parameters (walkforward.py).        *)
(*                                                                         *)
(* A bar is abstracted to a reading of the strategy's indicator, centred   *)
(* on 0: a z-score, the distance from the middle band, RSI - 50, where the *)
(* funding rate is among the recent ones, or NoValue, which is NaN.  The   *)
(* strategies that compare prices take it for a close.                     *)
(***************************************************************************)
EXTENDS Integers, Sequences, FiniteSets, SequencesExt

CONSTANTS
  NoValue,
  Entry,        \* how extreme a reading opens a position
  MaxHold,      \* rsi_mr's holding limit
  Fast, Slow,   \* periods of the averages
  Lookback, Stop,
  MinPerWindow, \* bars without which a window is refused
  FallsShort    \* lengths of which 0.7 in floating point falls short of a whole number

ASSUME BacktestAssumption ==
  /\ Entry \in Nat \ {0} /\ MaxHold \in Nat \ {0} /\ Stop \in Nat /\ Lookback \in Nat \ {0}
  /\ Fast \in Nat \ {0} /\ Slow \in Nat \ {0} /\ MinPerWindow \in Nat \ {0, 1}
  /\ NoValue \notin Int
ASSUME LengthsAssumption ==
  FallsShort \subseteq Nat /\ \A length \in FallsShort : length >= 10 /\ length % 10 = 0

Close(v) == IF v = NoValue THEN 0 ELSE v

Total(values) ==
  LET sum[k \in 0..Len(values)] == IF k = 0 THEN 0 ELSE sum[k - 1] + Close(values[k])
  IN sum[Len(values)]

-----------------------------------------------------------------------------
(* Strategies: what is held, and the position wanted, after every bar; was *)
(* is the state after the bar before.                                      *)

Flat == [holding |-> 0, held |-> 0, stop |-> 0, wanted |-> 0]

Enters(v) == IF v <= -Entry THEN 1 ELSE IF v >= Entry THEN -1 ELSE 0

(* A position is left when the reading has come back as far as exit.       *)
Leaves(holding, v, exit) == holding * v >= -exit

(* A bar without a reading wants nothing, and what is held is remembered.  *)
Pauses(was) == [was EXCEPT !.wanted = 0]
Holds(was, holding) == [was EXCEPT !.holding = holding, !.wanted = holding]

(* _zscore_mr; with other exits _bollinger_mr and the pairs strategy.      *)
MeanReversion(was, v, exit) ==
  IF v = NoValue THEN Pauses(was)
  ELSE Holds(was, IF was.holding = 0 THEN Enters(v)
                  ELSE IF Leaves(was.holding, v, exit) THEN 0 ELSE was.holding)

ZScore(was, v) == MeanReversion(was, v, Entry - 1)
Bollinger(was, v) == MeanReversion(was, v, 0)
Pairs(was, v) == MeanReversion(was, v, Entry - 1)

(* _rsi_mean_reversion: bars without a reading count, too.                 *)
HeldTooLongLate(held) == held > MaxHold
HeldTooLong(held) == held >= MaxHold
Rsi(was, v) ==
  LET held == IF was.holding = 0 THEN 0 ELSE was.held + 1
      crossed == v # NoValue /\ Leaves(was.holding, v, 0)
  IN [Holds(was, IF was.holding = 0 THEN IF v = NoValue THEN 0 ELSE Enters(v)
                 ELSE IF crossed \/ HeldTooLong(held) THEN 0 ELSE was.holding)
      EXCEPT !.held = held]

(* _donchian_breakout, with an ATR of 1 and highs and lows at the close.   *)
Donchian(was, bars, i) ==
  LET c == Close(bars[i])
      channel == {Close(bars[j]) : j \in i - Lookback..i - 1}
      breakout == IF c > Max(channel) THEN 1 ELSE IF c < Min(channel) THEN -1 ELSE 0
      trailed == IF was.holding > 0 THEN Max({was.stop, c - Stop}) ELSE Min({was.stop, c + Stop})
  IN IF i <= Lookback THEN Pauses(was)
     ELSE IF was.holding = 0
     THEN [Holds(was, breakout) EXCEPT !.stop = c - breakout * Stop]
     ELSE [Holds(was, IF was.holding * (c - trailed) < 0 THEN 0 ELSE was.holding)
           EXCEPT !.stop = trailed]

(* _sma_crossover                                                          *)
SmaCrossover(was, bars, i) ==
  LET Sum(n) == Total(SubSeq(bars, i - n + 1, i))
  IN Holds(was, IF i < Slow THEN 0
                ELSE IF i >= Fast /\ Sum(Fast) * Slow > Sum(Slow) * Fast THEN 1 ELSE -1)

(* _funding_contrarian: extremes are faded, and flipped without a pause.   *)
FundingContrarian(was, v) ==
  IF v = NoValue THEN Pauses(was)
  ELSE Holds(was, IF Enters(v) # 0 THEN Enters(v) ELSE IF v = 0 THEN 0 ELSE was.holding)

Strategies == {"zscore_mr", "bollinger_mr", "pairs_trading", "rsi_mr", "donchian",
               "sma_crossover", "funding_contrarian"}
Decide(strategy, was, bars, i) ==
  CASE strategy = "zscore_mr" -> ZScore(was, bars[i])
    [] strategy = "bollinger_mr" -> Bollinger(was, bars[i])
    [] strategy = "pairs_trading" -> Pairs(was, bars[i])
    [] strategy = "rsi_mr" -> Rsi(was, bars[i])
    [] strategy = "donchian" -> Donchian(was, bars, i)
    [] strategy = "sma_crossover" -> SmaCrossover(was, bars, i)
    [] strategy = "funding_contrarian" -> FundingContrarian(was, bars[i])

(* One pass over the bars, in their order: the state before the first one, *)
(* then that after every bar.                                              *)
Decided(strategy, bars) ==
  LET upTo[i \in 0..Len(bars)] ==
        IF i = 0 THEN <<Flat>>
        ELSE LET before == upTo[i - 1] IN Append(before, Decide(strategy, Last(before), bars, i))
  IN upTo[Len(bars)]
Targets(strategy, bars) ==
  LET states == Decided(strategy, bars) IN [i \in 1..Len(bars) |-> states[i + 1].wanted]

-----------------------------------------------------------------------------
(* Engine                                                                  *)

(* run_backtest: what is wanted after a bar is held from the next one on,  *)
(* and the equity curve earns bar i's return, from the close before it to  *)
(* its own, on the side of Held[i].                                        *)
HeldAtOnce(target) == target
Held(target) == [i \in 1..Len(target) |-> IF i = 1 THEN 0 ELSE target[i - 1]]

Abs(x) == IF x < 0 THEN -x ELSE x
Before(held, i) == IF i = 1 THEN 0 ELSE held[i - 1]

(* Every change of the position costs fee and slippage, on its size.       *)
Turnover(held) ==
  LET spent[i \in 0..Len(held)] ==
        IF i = 0 THEN 0 ELSE spent[i - 1] + Abs(held[i] - Before(held, i))
  IN spent[Len(held)]

(* A trade is priced from the close of the bar on which the position first *)
(* differs to that of the bar on which it differs again, and so has the    *)
(* returns of the bars behind its first.                                   *)
Earns(trade) == trade.entry + 1..trade.exit

Trade(current, exit) == [entry |-> current.entry, exit |-> exit, side |-> current.side]
None == [side |-> 0, entry |-> 0]

(* The position has changed: the open trade ends, and another begins       *)
(* unless the new position is flat.                                        *)
ReopenedOnlyFlat(current, side, i) ==
  IF side # 0 /\ current = None THEN [side |-> side, entry |-> i] ELSE None
Reopened(current, side, i) == IF side # 0 THEN [side |-> side, entry |-> i] ELSE None

(* extract_trades, _extract_spread_trades: one pass over the bars, and the *)
(* trade that is still open then.                                          *)
Traded(was, held, i) ==
  IF held[i] = Before(held, i) THEN was
  ELSE [trades |-> IF was.current = None THEN was.trades
                   ELSE Append(was.trades, Trade(was.current, i)),
        current |-> Reopened(was.current, held[i], i)]
ExtractTrades(held) ==
  LET after[i \in 0..Len(held)] ==
        IF i = 0 THEN [trades |-> <<>>, current |-> None] ELSE Traded(after[i - 1], held, i)
      end == after[Len(held)]
  IN IF end.current = None THEN end.trades
     ELSE Append(end.trades, Trade(end.current, Len(held)))

-----------------------------------------------------------------------------
(* Choice of parameters                                                    *)

(* split_windows: bars first..last of the train and test part of each; the *)
(* first 0.7 of a window, int(length * 0.7), are for training.             *)
TrainBars(length) == (length * 7) \div 10 - (IF length \in FallsShort THEN 1 ELSE 0)
EnoughBars(n, windows) == windows >= 1 /\ n >= windows * MinPerWindow
SplitShort(n, windows, w) ==
  LET length == n \div windows
      first == (w - 1) * length + 1
      last == w * length
      train == TrainBars(last - first + 1)
  IN [train |-> first..first + train - 1, test |-> first + train..last]
Split(n, windows, w) ==
  LET length == n \div windows
      first == (w - 1) * length + 1
      last == IF w = windows THEN n ELSE w * length
      train == TrainBars(last - first + 1)
  IN [train |-> first..first + train - 1, test |-> first + train..last]

(* Of the candidates in the grid's order the first with the best score; 0  *)
(* when none has one.  A Sharpe ratio is missing when returns are constant.*)
FirstBest(scores, candidates) ==
  LET best == {c \in candidates : \A d \in candidates : scores[d] <= scores[c]}
  IN IF best = {} THEN 0 ELSE Min(best)

(* run_walk_forward: a ratio of exactly 0 counts as missing ("or").        *)
BestInTrain(scores) ==
  FirstBest(scores, {c \in DOMAIN scores : scores[c] # NoValue /\ scores[c] # 0})

=============================================================================
