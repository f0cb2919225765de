---------------------------- MODULE PaperTrading ----------------------------
(***************************************************************************)
(* Paper trading of the instances of one symbol and interval: the runner   *)
(* (backend/app/paper/runner.py, engine.py, executor.py), the API that     *)
(* starts and stops instances (api/paper.py), the ingestion worker that    *)
(* announces and stores closed candles (ingestion/handlers.py) and the     *)
(* database they share.                                                    *)
(*                                                                         *)
(* The runner handles one candle message at a time: it selects the running *)
(* instances, loads the candles and then evaluates the instances one after *)
(* the other, each evaluation ending in a commit.  A step of the model is  *)
(* what happens between two of its awaits; the others act in between.      *)
(*                                                                         *)
(* Money and quantities are whole numbers.  The engine keeps avg_entry and *)
(* realized_pnl; only realized_pnl - position_qty * avg_entry matters for  *)
(* the equity, and that is the field cash here: minus what the fills cost. *)
(* Pairs instances hold a second symbol as a hedge and are only simulated; *)
(* nothing ever looks at their cash, which stays 0 here.                   *)
(***************************************************************************)
EXTENDS Integers, Sequences

CONSTANTS
  Instances,
  NoInstance,
  Prices,             \* closing prices
  QtyUsd,             \* the size the user asked for
  MaxPositionUsd,     \* guard: max_position_usd
  MaxDailyLossUsd,    \* guard: max_daily_loss_usd
  Modes,              \* executors the settings may select: "sim", "testnet"
  EmptyAnswers,       \* whether the exchange may answer an order without its fills
  MinBars,            \* candles needed for an evaluation
  MaxCandles,         \* bounds the candles that close
  MaxDays             \* bounds the midnights

ASSUME NoInstanceAssumption == NoInstance \notin Instances
ASSUME PricesAssumption == Prices \subseteq Nat \ {0}
ASSUME SizesAssumption == QtyUsd \in Nat /\ MaxPositionUsd \in Nat /\ MaxDailyLossUsd \in Nat
ASSUME ModesAssumption == Modes \subseteq {"sim", "testnet"} /\ EmptyAnswers \in BOOLEAN
ASSUME BoundsAssumption == MinBars \in Nat /\ MaxCandles \in Nat /\ MaxDays \in Nat

VARIABLES
  paired,     \* DB: the instances whose strategy trades a pair
  status,     \* DB: "running" or "stopped"
  state,      \* DB: state_json
  traded,     \* DB: the signed sum of the quantities in paper_orders
  tradedB,    \* DB: the same for the second symbol of a pair
  stored,     \* DB: how many candles there are, and the last one's close
  closing,    \* the candle the worker has announced and not yet stored
  announced,  \* how many candles have closed
  inbox,      \* candle messages the runner has not taken yet
  today,      \* the UTC day
  mode,       \* the executor of the runner process
  runner,     \* where the runner is
  msg,        \* the candle the current cycle was started by
  settled,    \* history variable: the instances that were stopped when it began
  todo,       \* instances of the cycle not evaluated yet
  loaded,     \* the ORM objects of the cycle: status and state as selected
  frame,      \* the last candle of the data frame
  priceB,     \* the last close of the second symbol
  cur,        \* the instance being evaluated
  draft,      \* its state in the making
  order,      \* the signed quantity of its market order
  row,        \* the signed quantity of the PaperOrder added to the session
  rowB,       \* the same for the second symbol
  held,       \* the quantity the testnet account has bought for the instance
  wanted      \* history variable: what the user last asked for

databaseVars == <<paired, status, state, traded, tradedB>>
candleVars == <<stored, closing, announced>>
evaluationVars == <<cur, draft, order, row, rowB, priceB>>
cycleVars == <<msg, settled, todo, loaded, frame, evaluationVars>>
vars == <<paired, status, state, traded, tradedB, stored, closing, announced, inbox, today, mode,
          runner, msg, settled, todo, loaded, frame, priceB, cur, draft, order, row, rowB, held,
          wanted>>

NoDay == -1
Days == 0..MaxDays
State ==
  [qty : Int, qtyB : Int, cash : Int, day : {NoDay} \cup Days, dayStart : Int, halted : BOOLEAN]
Candle == [n : 0..MaxCandles, close : Prices]
NoFrame == [n |-> 0, close |-> 1]
Statuses == {"running", "stopped"}

TypeOK ==
  /\ paired \in SUBSET Instances
  /\ status \in [Instances -> Statuses]
  /\ state \in [Instances -> State]
  /\ traded \in [Instances -> Int] /\ tradedB \in [Instances -> Int]
  /\ stored \in Candle
  /\ closing \in SUBSET Candle
  /\ announced \in 0..MaxCandles
  /\ inbox \in Seq(1..MaxCandles)
  /\ today \in Days
  /\ mode \in Modes
  /\ runner \in {"down", "idle", "selected", "evaluating", "ordering", "committing"}
  /\ msg \in 0..MaxCandles
  /\ settled \in SUBSET Instances
  /\ todo \in SUBSET Instances
  /\ loaded \in [Instances -> [status : Statuses, state : State]]
  /\ frame \in Candle \cup {NoFrame} /\ priceB \in Prices \cup {0}
  /\ cur \in Instances \cup {NoInstance}
  /\ draft \in State
  /\ order \in Int /\ row \in Int /\ rowB \in Int
  /\ held \in [Instances -> Int]
  /\ wanted \in [Instances -> Statuses]

-----------------------------------------------------------------------------
(* The engine's arithmetic                                                 *)

DefaultState == [qty |-> 0, qtyB |-> 0, cash |-> 0, day |-> NoDay, dayStart |-> 0, halted |-> FALSE]

Abs(x) == IF x < 0 THEN -x ELSE x

Equity(st, price) == QtyUsd + st.cash + st.qty * price

(* clamp_target_qty: the desired signed quantity under the position guard. *)
CappedUsd == IF QtyUsd < MaxPositionUsd THEN QtyUsd ELSE MaxPositionUsd
TargetUncapped(target, price) == target * (QtyUsd \div price)
TargetQty(target, price) == target * (CappedUsd \div price)

(* A leg of a pair gets half of it.                                        *)
LegQty(target, price) == TargetQty(target, 2 * price)

(* Rebalances below 1 % of the size are dust, ...                          *)
WorthTrading(delta, price) == 100 * Abs(delta) * price > CappedUsd

(* ... for a leg below 1 % of the size the user asked for.                 *)
LegOrder(qty, target, price) ==
  LET delta == LegQty(target, price) - qty
  IN IF 100 * Abs(delta) * price >= QtyUsd THEN delta ELSE 0

(* Daily-loss bookkeeping: a new day starts from the present equity and    *)
(* lifts the halt, then the guard may trip.                                *)
RolloverUnhalts(st, price, day) ==
  [st EXCEPT !.day = day, !.halted = FALSE,
             !.dayStart = IF st.day = day THEN @ ELSE Equity(st, price)]
RolloverAhead(st, price, day) ==
  [st EXCEPT !.day = day + 1, !.dayStart = Equity(st, price), !.halted = FALSE]
Rollover(st, price, day) ==
  IF st.day = day THEN st
  ELSE [st EXCEPT !.day = day, !.dayStart = Equity(st, price), !.halted = FALSE]

CheckLoss(st, price) ==
  [st EXCEPT !.halted = @ \/ st.dayStart - Equity(st, price) >= MaxDailyLossUsd]

Guarded(st, price, day) == CheckLoss(Rollover(st, price, day), price)

(* The position accounting, for a fill of the signed quantity q.           *)
FillAsOrdered(st, q, price) ==
  [st EXCEPT !.qty = @ + order, !.cash = @ - q * price]
Fill(st, q, price) == [st EXCEPT !.qty = @ + q, !.cash = @ - q * price]

-----------------------------------------------------------------------------
(* What goes out of scope at the end of an evaluation and of a cycle; the  *)
(* model resets it, so that its states differ in nothing the code can see. *)

Unloaded == [i \in Instances |-> [status |-> "stopped", state |-> DefaultState]]

EndEvaluation ==
  /\ cur' = NoInstance /\ draft' = DefaultState /\ order' = 0
  /\ row' = 0 /\ rowB' = 0 /\ priceB' = 0

EndCycle ==
  /\ msg' = 0 /\ settled' = {} /\ todo' = {} /\ loaded' = Unloaded /\ frame' = NoFrame
  /\ EndEvaluation

Init ==
  /\ paired \in SUBSET Instances
  /\ status = [i \in Instances |-> "running"]
  /\ state = [i \in Instances |-> DefaultState]
  /\ traded = [i \in Instances |-> 0] /\ tradedB = [i \in Instances |-> 0]
  /\ \E p \in Prices : stored = [n |-> 0, close |-> p]
  /\ closing = {}
  /\ announced = 0
  /\ inbox = <<>>
  /\ today = 0
  /\ mode \in Modes
  /\ runner = "down"
  /\ msg = 0 /\ settled = {} /\ todo = {} /\ loaded = Unloaded /\ frame = NoFrame
  /\ cur = NoInstance /\ draft = DefaultState /\ order = 0 /\ row = 0 /\ rowB = 0 /\ priceB = 0
  /\ held = [i \in Instances |-> 0]
  /\ wanted = status

-----------------------------------------------------------------------------
(* The world around the runner                                             *)

(* handle_kline publishes the closed candle first ...                      *)
CandleCloses(price) ==
  /\ closing = {} /\ announced < MaxCandles
  /\ announced' = announced + 1
  /\ closing' = {[n |-> announced', close |-> price]}
  /\ inbox' = IF runner = "down" THEN inbox ELSE Append(inbox, announced')
  /\ UNCHANGED <<databaseVars, stored, today, mode, runner, cycleVars, held, wanted>>

(* ... and stores it then, unless that fails.                              *)
CandleStored ==
  /\ closing # {}
  /\ stored' \in {stored} \cup closing
  /\ closing' = {}
  /\ UNCHANGED <<databaseVars, announced, inbox, today, mode, runner, cycleVars, held, wanted>>

Midnight ==
  /\ today < MaxDays
  /\ today' = today + 1
  /\ UNCHANGED <<databaseVars, candleVars, inbox, mode, runner, cycleVars, held, wanted>>

UserSets(i, s) ==
  /\ status[i] # s
  /\ status' = [status EXCEPT ![i] = s]
  /\ wanted' = [wanted EXCEPT ![i] = s]
  /\ settled' = settled \ {i}
  /\ UNCHANGED <<paired, state, traded, tradedB, candleVars, inbox, today, mode, runner, msg,
                 todo, loaded, frame, evaluationVars, held>>

StopInstance(i) == UserSets(i, "stopped")
StartInstance(i) == UserSets(i, "running")

-----------------------------------------------------------------------------
(* The runner                                                              *)

(* The settings, and with them the executor, are read once per process.    *)
RunnerStarts ==
  /\ runner = "down"
  /\ runner' = "idle"
  /\ mode' \in Modes
  /\ UNCHANGED <<databaseVars, candleVars, inbox, today, cycleVars, held, wanted>>

IsRunningAny(s) == s \in Statuses
IsRunning(s) == s = "running"

(* evaluate_for_candle: the instances are selected once for the cycle; the *)
(* session never reads them again.                                         *)
SelectInstances ==
  /\ runner = "idle" /\ inbox # <<>>
  /\ inbox' = Tail(inbox)
  /\ LET selected == {i \in Instances : IsRunning(status[i])} IN
     IF selected = {}
       THEN UNCHANGED <<runner, cycleVars>>
       ELSE /\ runner' = "selected"
            /\ msg' = Head(inbox)
            /\ settled' = {i \in Instances : status[i] = "stopped"}
            /\ todo' = selected
            /\ loaded' = [i \in Instances |-> [status |-> status[i], state |-> state[i]]]
            /\ UNCHANGED <<frame, evaluationVars>>
  /\ UNCHANGED <<databaseVars, candleVars, today, mode, held, wanted>>

LoadCandles ==
  /\ runner = "selected"
  /\ IF stored.n < MinBars
       THEN runner' = "idle" /\ EndCycle
       ELSE /\ runner' = "evaluating" /\ frame' = stored
            /\ UNCHANGED <<msg, settled, todo, loaded, evaluationVars>>
  /\ UNCHANGED <<databaseVars, candleVars, inbox, today, mode, held, wanted>>

(* The strategy's last position is -1, 0 or 1; spot testnet is long-only.  *)
Signals == IF mode = "testnet" THEN {0, 1} ELSE {-1, 0, 1}

(* evaluate_instance up to its first await, for a single asset.            *)
Evaluate(i, signal) ==
  LET st == Guarded(loaded[i].state, frame.close, today)
      delta == TargetQty(signal, frame.close) - st.qty
      trades == ~st.halted /\ WorthTrading(delta, frame.close)
  IN
  /\ runner = "evaluating" /\ i \in todo \ paired
  /\ IsRunning(loaded[i].status)
  /\ todo' = todo \ {i}
  /\ cur' = i
  /\ draft' = st
  /\ order' = IF trades THEN delta ELSE 0
  /\ runner' = IF trades THEN "ordering" ELSE "committing"
  /\ UNCHANGED <<databaseVars, candleVars, inbox, today, mode, msg, settled, loaded, frame, row,
                 rowB, priceB, held, wanted>>

(* evaluate_pairs_instance: both legs are filled by the simulator, without *)
(* an await, and without a look at the day's loss.  The hedge has the sign *)
(* of beta, or none; the second symbol's last close may be an older one.   *)
EvaluatePairs(i, target, hedge, price) ==
  LET st == loaded[i].state
      q == LegOrder(st.qty, target, frame.close)
      qB == LegOrder(st.qtyB, -target * hedge, price)
  IN
  /\ runner = "evaluating" /\ i \in todo \cap paired /\ mode = "sim"
  /\ IsRunning(loaded[i].status)
  /\ todo' = todo \ {i}
  /\ cur' = i
  /\ draft' = [st EXCEPT !.qty = @ + q, !.qtyB = @ + qB]
  /\ row' = q /\ rowB' = qB /\ priceB' = price
  /\ runner' = "committing"
  /\ UNCHANGED <<databaseVars, candleVars, inbox, today, mode, msg, settled, loaded, frame,
                 order, held, wanted>>

(* The autopilot or the strategy raises, or a pair is not evaluated, for   *)
(* want of candles or of the simulator: the instance sits this cycle out.  *)
EvaluationFails(i) ==
  /\ runner = "evaluating" /\ i \in todo
  /\ todo' = todo \ {i}
  /\ UNCHANGED <<databaseVars, candleVars, inbox, today, mode, runner, msg, settled, loaded,
                 frame, evaluationVars, held, wanted>>

CycleDone ==
  /\ runner = "evaluating" /\ todo = {}
  /\ runner' = "idle"
  /\ EndCycle
  /\ UNCHANGED <<databaseVars, candleVars, inbox, today, mode, held, wanted>>

(* The quantities an order may be filled with; the sim fills it all.       *)
Fills ==
  {q \in -Abs(order)..Abs(order) :
     /\ q # 0 /\ (q > 0 <=> order > 0)
     /\ mode = "sim" => q = order}

Bought(q) == IF mode = "testnet" THEN [held EXCEPT ![cur] = @ + q] ELSE held

Records(q, price) ==
  /\ runner = "ordering"
  /\ draft' = Fill(draft, q, price)
  /\ row' = q
  /\ runner' = "committing"
  /\ UNCHANGED <<databaseVars, candleVars, inbox, today, mode, msg, settled, todo, loaded, frame,
                 cur, order, rowB, priceB, wanted>>

(* The price paid is not the candle's close but one near it.               *)
OrderFilled(q, price) == Records(q, price) /\ held' = Bought(q)

(* An answer without fills is taken for the whole order at that close,     *)
(* whatever the account has bought.                                        *)
AnsweredEmpty ==
  /\ EmptyAnswers /\ mode = "testnet"
  /\ Records(order, frame.close)
  /\ held' \in {held} \cup {Bought(q) : q \in Fills}

(* The request fails or times out, before or after the exchange executed   *)
(* it.  The exception is logged and the cycle goes on without the instance.*)
OrderFails ==
  /\ runner = "ordering" /\ mode = "testnet"
  /\ held' \in {held} \cup {Bought(q) : q \in Fills}
  /\ runner' = "evaluating"
  /\ EndEvaluation
  /\ UNCHANGED <<databaseVars, candleVars, inbox, today, mode, msg, settled, todo, loaded, frame,
                 wanted>>

(* The UPDATE of an ORM object carries the columns that were assigned,     *)
(* here state_json alone, and the new order rows go with it.               *)
WriteWholeRow ==
  /\ state' = [state EXCEPT ![cur] = draft]
  /\ traded' = [traded EXCEPT ![cur] = @ + row]
  /\ tradedB' = [tradedB EXCEPT ![cur] = @ + rowB]
  /\ status' = [status EXCEPT ![cur] = loaded[cur].status]
  /\ UNCHANGED paired
Write ==
  /\ state' = [state EXCEPT ![cur] = draft]
  /\ traded' = [traded EXCEPT ![cur] = @ + row]
  /\ tradedB' = [tradedB EXCEPT ![cur] = @ + rowB]
  /\ UNCHANGED <<paired, status>>

Commit ==
  /\ runner = "committing"
  /\ Write
  /\ loaded' = [loaded EXCEPT ![cur].state = draft]
  /\ runner' = "evaluating"
  /\ EndEvaluation
  /\ UNCHANGED <<candleVars, inbox, today, mode, msg, settled, todo, frame, held, wanted>>

(* A failed commit may have reached the database all the same.  It leaves  *)
(* the session without a transaction and its objects expired, so handling  *)
(* the exception raises another, which ends the cycle.                     *)
CommitFails ==
  /\ runner = "committing"
  /\ Write \/ UNCHANGED databaseVars
  /\ runner' = "idle"
  /\ EndCycle
  /\ UNCHANGED <<candleVars, inbox, today, mode, held, wanted>>

(* The process dies; an order or a commit under way may still take effect. *)
(* Redis keeps no messages for it.                                         *)
RunnerCrashes ==
  /\ runner # "down"
  /\ runner' = "down"
  /\ inbox' = <<>>
  /\ \/ UNCHANGED <<databaseVars, held>>
     \/ runner = "ordering" /\ held' \in {Bought(q) : q \in Fills} /\ UNCHANGED databaseVars
     \/ runner = "committing" /\ Write /\ UNCHANGED held
  /\ EndCycle
  /\ UNCHANGED <<candleVars, today, mode, wanted>>

Next ==
  \/ \E p \in Prices : CandleCloses(p)
  \/ CandleStored
  \/ Midnight
  \/ \E i \in Instances : StopInstance(i) \/ StartInstance(i)
  \/ RunnerStarts
  \/ SelectInstances
  \/ LoadCandles
  \/ \E i \in Instances : EvaluationFails(i) \/ \E s \in Signals : Evaluate(i, s)
  \/ \E i \in Instances, target, hedge \in {-1, 0, 1}, p \in Prices :
       EvaluatePairs(i, target, hedge, p)
  \/ CycleDone
  \/ \E q \in Fills, p \in Prices : OrderFilled(q, p)
  \/ AnsweredEmpty
  \/ OrderFails
  \/ Commit
  \/ CommitFails
  \/ RunnerCrashes

Spec == Init /\ [][Next]_vars

-----------------------------------------------------------------------------
(* Properties                                                              *)

(* The kill switch: no order goes out and nothing is recorded for an       *)
(* instance in a cycle that began after the stop was committed ...         *)
KillSwitch == runner \in {"ordering", "committing"} => cur \notin settled

(* ... and the runner, which holds objects read before the stop, never     *)
(* writes the old status back.                                             *)
StopSticks == status = wanted

(* The recorded orders always add up to the recorded position, of both     *)
(* legs of a pair, whichever request, commit or process failed on the way. *)
OrdersExplainPosition ==
  \A i \in Instances : traded[i] = state[i].qty /\ tradedB[i] = state[i].qtyB

(* Once the daily-loss guard has tripped, no order is recorded for the     *)
(* instance that day, across restarts and failed evaluations.  (It never   *)
(* trips for a pair.)                                                      *)
HaltHolds ==
  [][\A i \in Instances :
       (state[i].halted /\ state[i].day = today)
         => traded'[i] = traded[i] /\ tradedB'[i] = tradedB[i]]_vars

(* An order never leaves a position above the guard, at the price it was   *)
(* decided on, unless it reduced a position that had outgrown it; a leg of *)
(* a pair not above half of it.                                            *)
Legs(i) == IF i \in paired THEN 2 ELSE 1
NeverAddsBeyondGuard ==
  [][\A i \in Instances :
       /\ state'[i].qty # state[i].qty =>
            \/ Abs(state'[i].qty) * (Legs(i) * frame.close) <= MaxPositionUsd
            \/ Abs(state'[i].qty) < Abs(state[i].qty)
       /\ state'[i].qtyB # state[i].qtyB =>
            Abs(state'[i].qtyB) * (2 * priceB) <= MaxPositionUsd]_vars

(* "Restarts resume cleanly": between cycles the persisted position is     *)
(* what the account holds.                                                 *)
PositionIsHeld ==
  runner \in {"idle", "down"} => \A i \in Instances : held[i] = state[i].qty

(* "Evaluate one closed candle": an instance is evaluated on data that     *)
(* includes the candle whose close started the cycle.                      *)
SeesClosedCandle ==
  runner \in {"ordering", "committing"} => frame.n >= msg
=============================================================================
