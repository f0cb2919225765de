------------------------- MODULE PaperTradingProofs -------------------------
(***************************************************************************)
(* Proofs about PaperTrading, for any instances, prices, sizes, guards and *)
(* numbers of candles and days.  The invariant IInv says how the objects   *)
(* the runner holds in memory relate to the rows of the database while the *)
(* API, the worker and the clock move on.                                  *)
(***************************************************************************)
EXTENDS PaperTrading, SequenceTheorems, TLAPS

(* The session's copy of an instance's state is the database's: nobody     *)
(* else writes it.                                                         *)
SessionFresh ==
  runner \in {"selected", "evaluating", "ordering", "committing"}
    => \A i \in Instances : loaded[i].state = state[i]

(* An evaluation is of an instance that was running when the cycle began.  *)
InCycle ==
  /\ runner \in {"ordering", "committing"} => cur \in Instances
  /\ cur \notin settled
  /\ todo \cap settled = {}

(* Between two evaluations the runner has none in hand.                    *)
NoCurrent == runner \notin {"ordering", "committing"} => cur = NoInstance

(* The draft is ahead of the database by the rows that will be committed   *)
(* with it; only pairs have a second one, and only single assets wait for  *)
(* an order.                                                               *)
DraftInStep ==
  /\ runner # "committing" => row = 0 /\ rowB = 0
  /\ runner \in {"ordering", "committing"} =>
       draft.qty = state[cur].qty + row /\ draft.qtyB = state[cur].qtyB + rowB
  /\ runner = "ordering" => cur \notin paired

DaysPast == draft.day <= today /\ \A i \in Instances : state[i].day <= today

(* An instance halted today has no order under way, and a pair never is.   *)
HaltRespected ==
  /\ runner = "ordering" \/ row # 0 \/ rowB # 0 => ~(state[cur].halted /\ state[cur].day = today)
  /\ runner \in {"ordering", "committing"} /\ cur \in paired => ~draft.halted
  /\ \A i \in paired : ~state[i].halted

(* The order under way, and what came of it, respects the position guard.  *)
WithinGuard ==
  /\ runner = "ordering" => Abs(draft.qty + order) * frame.close <= MaxPositionUsd
  /\ runner = "committing" /\ row # 0 =>
       \/ Abs(draft.qty) * (Legs(cur) * frame.close) <= MaxPositionUsd
       \/ Abs(draft.qty) < Abs(state[cur].qty)
  /\ runner = "committing" /\ rowB # 0 => Abs(draft.qtyB) * (2 * priceB) <= MaxPositionUsd

IInv ==
  /\ TypeOK
  /\ StopSticks
  /\ OrdersExplainPosition
  /\ SessionFresh
  /\ InCycle
  /\ NoCurrent
  /\ DraftInStep
  /\ DaysPast
  /\ HaltRespected
  /\ WithinGuard
-----------------------------------------------------------------------------
(* The engine's arithmetic                                                 *)

(* The daily-loss bookkeeping leaves the position alone, dates the state   *)
(* and does not lift a halt of the same day.                               *)
LEMMA GuardedState ==
  ASSUME NEW st \in State, NEW price \in Nat, NEW day \in Days
  PROVE  /\ Guarded(st, price, day) \in State
         /\ Guarded(st, price, day).qty = st.qty /\ Guarded(st, price, day).qtyB = st.qtyB
         /\ Guarded(st, price, day).day = day
         /\ ~Guarded(st, price, day).halted => ~(st.halted /\ st.day = day)
<1> DEFINE r == Rollover(st, price, day)
<1>1. Equity(st, price) \in Int
  BY SizesAssumption DEF Equity, State
<1>2. r \in State /\ r.qty = st.qty /\ r.qtyB = st.qtyB /\ r.day = day /\ (st.day = day => r = st)
  BY <1>1 DEF Rollover, State
<1>3. /\ CheckLoss(r, price) \in State
      /\ CheckLoss(r, price).qty = r.qty /\ CheckLoss(r, price).qtyB = r.qtyB
      /\ CheckLoss(r, price).day = r.day
      /\ ~CheckLoss(r, price).halted => ~r.halted
  <2> HIDE DEF r
  <2>1. QED
    BY <1>2 DEF CheckLoss, State
<1>4. QED
  BY <1>2, <1>3 DEF Guarded

(* A product grows with its first factor.                                  *)
LEMMA Monotone ==
  ASSUME NEW a \in Nat, NEW b \in Nat, NEW p \in Nat, a <= b
  PROVE  a * p <= b * p
OBVIOUS

(* No signal asks for more than the position guard allows.                 *)
LEMMA TargetWithin ==
  ASSUME NEW signal \in {-1, 0, 1}, NEW price \in Nat \ {0}
  PROVE  /\ TargetQty(signal, price) \in Int
         /\ Abs(TargetQty(signal, price)) * price <= MaxPositionUsd
<1> DEFINE n == CappedUsd \div price
<1>1. CappedUsd \in Nat /\ CappedUsd <= MaxPositionUsd
  BY SizesAssumption DEF CappedUsd
<1>2. n \in Nat /\ n * price <= CappedUsd
  BY <1>1, Z3
<1>3. MaxPositionUsd \in Nat
  BY SizesAssumption
<1>4. TargetQty(signal, price) \in {-n, 0, n}
  <2> HIDE DEF n
  <2>1. signal * n \in {-n, 0, n}
    BY <1>2
  <2>2. QED
    BY <2>1 DEF TargetQty, n
<1>5. QED
  <2> HIDE DEF n
  <2>1. TargetQty(signal, price) \in Int /\ Abs(TargetQty(signal, price)) \in {0, n}
    BY <1>2, <1>4 DEF Abs
  <2>2. 0 * price = 0
    OBVIOUS
  <2>3. QED
    BY <1>1, <1>2, <1>3, <2>1, <2>2

(* A leg of a pair that is traded comes to be worth half the guard at most.*)
LEMMA LegWithin ==
  ASSUME NEW qty \in Int, NEW target \in {-1, 0, 1}, NEW price \in Nat \ {0}
  PROVE  /\ LegOrder(qty, target, price) \in Int
         /\ LegOrder(qty, target, price) # 0 =>
              Abs(qty + LegOrder(qty, target, price)) * (2 * price) <= MaxPositionUsd
<1> DEFINE goal == LegQty(target, price)
           o == LegOrder(qty, target, price)
<1>1. 2 * price \in Nat \ {0}
  OBVIOUS
<1>2. goal \in Int /\ Abs(goal) * (2 * price) <= MaxPositionUsd
  BY <1>1, TargetWithin DEF LegQty
<1>3. o \in {0, goal - qty}
  BY DEF LegOrder
<1> HIDE DEF goal, o
<1>4. o \in Int /\ (o # 0 => qty + o = goal)
  BY <1>2, <1>3
<1>5. QED
  BY <1>2, <1>4 DEF o

(* A fill moves the quantity by what was filled and nothing of the guards. *)
LEMMA FillState ==
  ASSUME NEW st \in State, NEW q \in Int, NEW price \in Nat
  PROVE  /\ Fill(st, q, price) \in State
         /\ Fill(st, q, price).qty = st.qty + q
         /\ Fill(st, q, price).qtyB = st.qtyB
         /\ Fill(st, q, price).day = st.day
         /\ Fill(st, q, price).halted = st.halted
<1>1. q * price \in Int
  OBVIOUS
<1>2. st.qty + q \in Int /\ st.cash - q * price \in Int
  BY <1>1 DEF State
<1>3. QED
  <2> DEFINE paid == q * price
  <2> HIDE DEF paid
  <2>1. Fill(st, q, price) = [st EXCEPT !.qty = st.qty + q, !.cash = st.cash - paid]
    BY DEF Fill, paid
  <2>2. st.qty + q \in Int /\ st.cash - paid \in Int
    BY <1>2 DEF paid
  <2>3. QED
    BY <2>1, <2>2 DEF State

(* However little of an order is filled, the position ends up within the   *)
(* guard or nearer to it than it was.                                      *)
LEMMA PartialFill ==
  ASSUME NEW s \in Int, NEW o \in Int, NEW q \in -Abs(o)..Abs(o), NEW p \in Nat,
         q # 0, q > 0 <=> o > 0,
         Abs(s + o) * p <= MaxPositionUsd
  PROVE  Abs(s + q) * p <= MaxPositionUsd \/ Abs(s + q) < Abs(s)
<1>1. q \in Int
  BY DEF Abs
<1>2. Abs(s + q) <= Abs(s + o) \/ Abs(s + q) < Abs(s)
  BY <1>1 DEF Abs
<1>3. CASE Abs(s + q) <= Abs(s + o)
  <2>1. Abs(s + q) \in Nat /\ Abs(s + o) \in Nat
    BY <1>1 DEF Abs
  <2>2. Abs(s + q) * p <= Abs(s + o) * p
    BY <1>3, <2>1, Monotone
  <2>3. Abs(s + q) * p \in Int /\ Abs(s + o) * p \in Int /\ MaxPositionUsd \in Int
    BY <2>1, SizesAssumption
  <2>4. QED
    BY <2>2, <2>3
<1>4. QED
  BY <1>2, <1>3
-----------------------------------------------------------------------------
(* The invariant                                                           *)

(* The invariant holds before the runner has started.                      *)
LEMMA InitIInv == Init => IInv
<1> SUFFICES ASSUME Init PROVE IInv
  OBVIOUS
<1>1. 0 \in Days /\ DefaultState \in State
  BY BoundsAssumption DEF Days, State, DefaultState, NoDay
<1>2. stored \in Candle
  BY BoundsAssumption DEF Init, Candle
<1>3. TypeOK
  BY <1>1, <1>2, BoundsAssumption DEF Init, TypeOK, Unloaded, Statuses
<1>4. /\ StopSticks /\ OrdersExplainPosition /\ SessionFresh /\ InCycle /\ NoCurrent /\ DraftInStep /\ DaysPast
      /\ HaltRespected /\ WithinGuard
  BY NoInstanceAssumption
     DEF Init, StopSticks, OrdersExplainPosition, SessionFresh, InCycle, NoCurrent, DraftInStep, DaysPast,
         HaltRespected, WithinGuard, DefaultState, NoDay
<1>5. QED
  BY <1>3, <1>4 DEF IInv

(* The data frame always has a positive last close.                        *)
LEMMA FrameClose == TypeOK => frame.close \in Nat \ {0}
<1> SUFFICES ASSUME TypeOK PROVE frame.close \in Nat \ {0}
  OBVIOUS
<1>1. CASE frame \in Candle
  BY <1>1, PricesAssumption DEF Candle
<1>2. CASE frame = NoFrame
  BY <1>2 DEF NoFrame
<1>3. QED
  BY <1>1, <1>2 DEF TypeOK

(* A cycle that ends leaves nothing behind that could break the invariant. *)
LEMMA EndedCycle ==
  ASSUME TypeOK, EndCycle, runner' \in {"idle", "down"}, today' \in Days
  PROVE  /\ msg' \in 0..MaxCandles /\ settled' \in SUBSET Instances /\ todo' \in SUBSET Instances
         /\ loaded' \in [Instances -> [status : Statuses, state : State]]
         /\ frame' \in Candle \cup {NoFrame}
         /\ cur' \in Instances \cup {NoInstance} /\ draft' \in State
         /\ order' \in Int /\ row' \in Int /\ rowB' \in Int /\ priceB' \in Prices \cup {0}
         /\ SessionFresh' /\ InCycle' /\ NoCurrent' /\ DraftInStep' /\ WithinGuard'
         /\ (\A i \in paired' : ~state'[i].halted) => HaltRespected'
         /\ draft.day <= today => draft'.day <= today'
<1>1. DefaultState \in State /\ DefaultState.day = -1
  BY DEF State, DefaultState, NoDay
<1>2. Unloaded \in [Instances -> [status : Statuses, state : State]]
  BY <1>1 DEF Unloaded, Statuses
<1>3. /\ msg' = 0 /\ settled' = {} /\ todo' = {} /\ loaded' = Unloaded /\ frame' = NoFrame
      /\ cur' = NoInstance /\ draft' = DefaultState /\ order' = 0
      /\ row' = 0 /\ rowB' = 0 /\ priceB' = 0
  BY DEF EndCycle, EndEvaluation
<1>4. today' \in Nat
  BY DEF Days
<1>5. /\ SessionFresh' /\ InCycle' /\ NoCurrent' /\ DraftInStep' /\ WithinGuard'
      /\ (\A i \in paired' : ~state'[i].halted) => HaltRespected'
  BY <1>3 DEF SessionFresh, InCycle, NoCurrent, DraftInStep, HaltRespected, WithinGuard, Legs
<1>6. QED
  BY <1>1, <1>2, <1>3, <1>4, <1>5, BoundsAssumption

(* A step that ends the cycle keeps the invariant when what it does to the *)
(* database and the account is in order.                                   *)
LEMMA CycleEnds ==
  ASSUME IInv, EndCycle, runner' \in {"idle", "down"}, today' = today,
         inbox' \in Seq(1..MaxCandles), status' = status, wanted' = wanted,
         paired' = paired, state' \in [Instances -> State],
         traded' \in [Instances -> Int], tradedB' \in [Instances -> Int], OrdersExplainPosition',
         \A i \in Instances : state'[i].day <= today, \A i \in paired : ~state'[i].halted,
         held' \in [Instances -> Int],
         UNCHANGED <<stored, closing, announced, mode>>
  PROVE  IInv'
<1>1. TypeOK /\ StopSticks /\ DaysPast /\ today' \in Days
  BY DEF IInv, TypeOK
<1>2. TypeOK'
  BY <1>1, EndedCycle DEF TypeOK
<1>3. DaysPast'
  BY <1>1, EndedCycle DEF DaysPast
<1>4. /\ SessionFresh' /\ InCycle' /\ NoCurrent' /\ DraftInStep' /\ HaltRespected' /\ WithinGuard'
  BY <1>1, EndedCycle
<1>5. StopSticks'
  BY <1>1 DEF StopSticks
<1>6. QED
  BY <1>2, <1>3, <1>4, <1>5 DEF IInv

(* The same for a step that ends an evaluation and goes on with the cycle. *)
LEMMA EvaluationEnds ==
  ASSUME IInv, EndEvaluation, runner' = "evaluating",
         paired' = paired, state' \in [Instances -> State],
         traded' \in [Instances -> Int], tradedB' \in [Instances -> Int], OrdersExplainPosition',
         \A i \in Instances : state'[i].day <= today, \A i \in paired : ~state'[i].halted,
         loaded' \in [Instances -> [status : Statuses, state : State]],
         \A i \in Instances : loaded'[i].state = state'[i],
         held' \in [Instances -> Int],
         UNCHANGED <<status, stored, closing, announced, inbox, today, mode, msg, settled, todo,
                     frame, wanted>>
  PROVE  IInv'
<1>1. TypeOK /\ StopSticks /\ InCycle /\ DaysPast
  BY DEF IInv
<1>2. /\ cur' = NoInstance /\ draft' = DefaultState /\ order' = 0
      /\ row' = 0 /\ rowB' = 0 /\ priceB' = 0
  BY DEF EndEvaluation
<1>3. DefaultState \in State /\ DefaultState.day = -1
  BY DEF State, DefaultState, NoDay
<1>4. TypeOK'
  BY <1>1, <1>2, <1>3 DEF TypeOK
<1>5. DaysPast'
  BY <1>1, <1>2, <1>3, BoundsAssumption DEF DaysPast, TypeOK, Days
<1>6. InCycle'
  BY <1>1, <1>2, NoInstanceAssumption DEF InCycle, TypeOK
<1>7. /\ StopSticks' /\ SessionFresh' /\ NoCurrent' /\ DraftInStep' /\ HaltRespected'
      /\ WithinGuard'
  BY <1>1, <1>2
     DEF StopSticks, SessionFresh, NoCurrent, DraftInStep, HaltRespected, WithinGuard, Legs
<1>8. QED
  BY <1>4, <1>5, <1>6, <1>7 DEF IInv

(* The account is credited with whole quantities.                          *)
LEMMA BoughtTyped ==
  ASSUME TypeOK
  PROVE  \A h \in {held} \cup {Bought(q) : q \in Fills} : h \in [Instances -> Int]
<1>1. \A q \in Fills : q \in Int
  BY DEF Fills, TypeOK, Abs
<1>2. ASSUME NEW q \in Int
      PROVE  Bought(q) \in [Instances -> Int]
  <2>1. held \in [Instances -> Int]
    BY DEF TypeOK
  <2>2. CASE cur \in Instances
    <3>1. held[cur] + q \in Int
      BY <2>1, <2>2
    <3>2. QED
      BY <2>1, <3>1 DEF Bought
  <2>3. CASE cur \notin Instances
    BY <2>1, <2>3 DEF Bought
  <2>4. QED
    BY <2>2, <2>3
<1>3. QED
  BY <1>1, <1>2 DEF TypeOK

(* A commit, whether the runner learns of it or not, records the draft and *)
(* the order that led to it together.                                      *)
LEMMA WriteKeeps ==
  ASSUME IInv, runner = "committing", Write
  PROVE  /\ state' \in [Instances -> State]
         /\ traded' \in [Instances -> Int] /\ tradedB' \in [Instances -> Int]
         /\ paired' = paired /\ status' = status
         /\ OrdersExplainPosition'
         /\ \A i \in Instances : state'[i].day <= today
         /\ \A i \in paired : ~state'[i].halted
         /\ \A i \in Instances : state'[i] = IF i = cur THEN draft ELSE state[i]
<1>1. /\ TypeOK /\ OrdersExplainPosition /\ DaysPast /\ HaltRespected
      /\ cur \in Instances /\ draft.qty = state[cur].qty + row
      /\ draft.qtyB = state[cur].qtyB + rowB
  BY DEF IInv, InCycle, DraftInStep
<1>2. /\ state' = [state EXCEPT ![cur] = draft]
      /\ traded' = [traded EXCEPT ![cur] = traded[cur] + row]
      /\ tradedB' = [tradedB EXCEPT ![cur] = tradedB[cur] + rowB]
      /\ paired' = paired /\ status' = status
  BY DEF Write
<1>3. draft \in State /\ row \in Int /\ rowB \in Int /\ traded[cur] \in Int /\ tradedB[cur] \in Int
  BY <1>1 DEF TypeOK
<1>4. /\ state' \in [Instances -> State]
      /\ traded' \in [Instances -> Int] /\ tradedB' \in [Instances -> Int]
  BY <1>1, <1>2, <1>3 DEF TypeOK
<1>5. \A i \in Instances : state'[i] = IF i = cur THEN draft ELSE state[i]
  BY <1>1, <1>2 DEF TypeOK
<1>6. \A i \in Instances :
        /\ traded'[i] = IF i = cur THEN traded[cur] + row ELSE traded[i]
        /\ tradedB'[i] = IF i = cur THEN tradedB[cur] + rowB ELSE tradedB[i]
  BY <1>1, <1>2 DEF TypeOK
<1>7. OrdersExplainPosition'
  BY <1>1, <1>5, <1>6 DEF OrdersExplainPosition
<1>8. \A i \in paired : ~state'[i].halted
  <2>1. paired \in SUBSET Instances
    BY <1>1 DEF TypeOK
  <2>2. QED
    BY <1>1, <1>5, <2>1 DEF HaltRespected
<1>9. QED
  BY <1>1, <1>2, <1>4, <1>5, <1>7, <1>8 DEF DaysPast

(* Every step keeps the invariant.                                         *)
LEMMA StepIInv == IInv /\ [Next]_vars => IInv'
<1> SUFFICES ASSUME IInv, [Next]_vars PROVE IInv'
  OBVIOUS
<1> USE DEF databaseVars, candleVars, evaluationVars, cycleVars
<1>0. /\ TypeOK /\ StopSticks /\ OrdersExplainPosition /\ SessionFresh /\ InCycle /\ NoCurrent /\ DraftInStep
      /\ DaysPast /\ HaltRespected /\ WithinGuard
  BY DEF IInv
<1>1. ASSUME NEW p \in Prices, CandleCloses(p)
      PROVE  IInv'
  <2>1. announced' \in 1..MaxCandles
    BY <1>0, <1>1, BoundsAssumption DEF CandleCloses, TypeOK
  <2>2. closing' \in SUBSET Candle
    BY <1>1, <2>1 DEF CandleCloses, Candle
  <2>5. inbox' \in Seq(1..MaxCandles)
    <3>1. Append(inbox, announced') \in Seq(1..MaxCandles)
      BY <1>0, <2>1, AppendProperties DEF TypeOK
    <3>2. QED
      BY <1>0, <1>1, <3>1 DEF CandleCloses, TypeOK
  <2>3. TypeOK'
    BY <1>0, <1>1, <2>1, <2>2, <2>5 DEF CandleCloses, TypeOK
  <2>4. QED
    BY <1>0, <1>1, <2>3
       DEF CandleCloses, IInv, StopSticks, OrdersExplainPosition, SessionFresh, InCycle, NoCurrent, DraftInStep,
           DaysPast, HaltRespected, WithinGuard, Legs
<1>2. CASE CandleStored
  <2>1. TypeOK'
    BY <1>0, <1>2 DEF CandleStored, TypeOK
  <2>2. QED
    BY <1>0, <1>2, <2>1
       DEF CandleStored, IInv, StopSticks, OrdersExplainPosition, SessionFresh, InCycle, NoCurrent, DraftInStep,
           DaysPast, HaltRespected, WithinGuard, Legs
<1>3. CASE Midnight
  <2>1. today \in Nat /\ today' = today + 1 /\ today' \in Days
    BY <1>0, <1>3, BoundsAssumption DEF Midnight, TypeOK, Days
  <2>2. TypeOK'
    BY <1>0, <1>3, <2>1 DEF Midnight, TypeOK
  <2>3. \A st \in State : st.day \in Int
    BY DEF State, NoDay, Days
  <2>4. DaysPast'
    BY <1>0, <1>3, <2>1, <2>3 DEF Midnight, DaysPast, TypeOK
  <2>5. HaltRespected'
    <3>1. CASE cur \in Instances
      BY <1>0, <1>3, <2>1, <2>3, <3>1 DEF Midnight, HaltRespected, DaysPast, TypeOK
    <3>2. CASE cur \notin Instances
      BY <1>0, <1>3, <3>2 DEF Midnight, HaltRespected, InCycle, DraftInStep
    <3>3. QED
      BY <3>1, <3>2
  <2>6. QED
    BY <1>0, <1>3, <2>2, <2>4, <2>5
       DEF Midnight, IInv, StopSticks, OrdersExplainPosition, SessionFresh, InCycle, NoCurrent, DraftInStep,
           WithinGuard, Legs
<1>4. ASSUME NEW i \in Instances, NEW s \in Statuses, UserSets(i, s)
      PROVE  IInv'
  <2>1. TypeOK' /\ StopSticks'
    BY <1>0, <1>4 DEF UserSets, TypeOK, StopSticks
  <2>2. QED
    BY <1>0, <1>4, <2>1
       DEF UserSets, IInv, OrdersExplainPosition, SessionFresh, InCycle, NoCurrent, DraftInStep, DaysPast,
           HaltRespected, WithinGuard, Legs
<1>5. CASE RunnerStarts
  <2>1. TypeOK'
    BY <1>0, <1>5 DEF RunnerStarts, TypeOK
  <2>2. QED
    BY <1>0, <1>5, <2>1
       DEF RunnerStarts, IInv, StopSticks, OrdersExplainPosition, SessionFresh, InCycle, NoCurrent, DraftInStep,
           DaysPast, HaltRespected, WithinGuard, Legs
<1>6. CASE SelectInstances
  <2>1. inbox' \in Seq(1..MaxCandles) /\ Head(inbox) \in 0..MaxCandles
    BY <1>0, <1>6, BoundsAssumption DEF SelectInstances, TypeOK
  <2>2. CASE {i \in Instances : IsRunning(status[i])} = {}
    <3>1. TypeOK'
      BY <1>0, <1>6, <2>1, <2>2 DEF SelectInstances, TypeOK
    <3>2. QED
      BY <1>0, <1>6, <2>2, <3>1
         DEF SelectInstances, IInv, StopSticks, OrdersExplainPosition, SessionFresh, InCycle, NoCurrent,
             DraftInStep, DaysPast, HaltRespected, WithinGuard, Legs
  <2>3. CASE {i \in Instances : IsRunning(status[i])} # {}
    <3>1. /\ runner' = "selected" /\ msg' = Head(inbox)
          /\ settled' = {i \in Instances : status[i] = "stopped"}
          /\ todo' = {i \in Instances : IsRunning(status[i])}
          /\ loaded' = [i \in Instances |-> [status |-> status[i], state |-> state[i]]]
          /\ UNCHANGED <<frame, priceB, cur, draft, order, row, rowB>>
      BY <1>6, <2>3 DEF SelectInstances
    <3>2. UNCHANGED <<paired, status, state, traded, tradedB, stored, closing, announced, today, mode, held, wanted>>
      BY <1>6 DEF SelectInstances
    <3>3. loaded' \in [Instances -> [status : Statuses, state : State]]
      BY <1>0, <3>1 DEF TypeOK
    <3>4. TypeOK'
      BY <1>0, <2>1, <3>1, <3>2, <3>3 DEF TypeOK
    <3>5. SessionFresh'
      BY <3>1, <3>2 DEF SessionFresh
    <3>6. InCycle'
      <4>1. todo' \cap settled' = {}
        BY <3>1 DEF IsRunning
      <4>2. cur = NoInstance
        BY <1>0, <1>6 DEF SelectInstances, NoCurrent
      <4>3. QED
        BY <3>1, <4>1, <4>2, NoInstanceAssumption DEF InCycle
    <3>7. StopSticks' /\ OrdersExplainPosition' /\ DaysPast'
      BY <1>0, <3>1, <3>2 DEF StopSticks, OrdersExplainPosition, DaysPast
    <3>10. NoCurrent'
      BY <1>0, <1>6, <3>1 DEF SelectInstances, NoCurrent
    <3>8. DraftInStep' /\ HaltRespected' /\ WithinGuard'
      <4>1. runner = "idle" /\ row = 0 /\ rowB = 0 /\ \A i \in paired : ~state[i].halted
        BY <1>0, <1>6 DEF SelectInstances, DraftInStep, HaltRespected
      <4>2. QED
        BY <3>1, <3>2, <4>1 DEF DraftInStep, HaltRespected, WithinGuard, Legs
    <3>9. QED
      BY <3>4, <3>5, <3>6, <3>7, <3>8, <3>10 DEF IInv
  <2>4. QED
    BY <2>2, <2>3
<1>7. CASE LoadCandles
  <2>0. today' \in Days /\ today' = today
    BY <1>0, <1>7 DEF LoadCandles, TypeOK
  <2>1. CASE stored.n < MinBars
    <3>1. EndCycle /\ runner' = "idle"
      BY <1>7, <2>1 DEF LoadCandles
    <3>2. UNCHANGED <<paired, status, state, traded, tradedB, stored, closing, announced, inbox, mode, held, wanted>>
      BY <1>7 DEF LoadCandles
    <3>3. QED
      BY <1>0, <2>0, <3>1, <3>2, CycleEnds
         DEF TypeOK, DaysPast, OrdersExplainPosition, HaltRespected
  <2>2. CASE ~(stored.n < MinBars)
    <3>1. TypeOK'
      BY <1>0, <1>7, <2>2 DEF LoadCandles, TypeOK
    <3>2. QED
      BY <1>0, <1>7, <2>2, <3>1
         DEF LoadCandles, IInv, StopSticks, OrdersExplainPosition, SessionFresh, InCycle, NoCurrent,
             DraftInStep, DaysPast, HaltRespected, WithinGuard, Legs
  <2>3. QED
    BY <2>1, <2>2
<1>8. ASSUME NEW i \in Instances, EvaluationFails(i)
      PROVE  IInv'
  <2>1. TypeOK'
    BY <1>0, <1>8 DEF EvaluationFails, TypeOK
  <2>2. QED
    BY <1>0, <1>8, <2>1
       DEF EvaluationFails, IInv, StopSticks, OrdersExplainPosition, SessionFresh, InCycle, NoCurrent,
           DraftInStep, DaysPast, HaltRespected, WithinGuard, Legs
<1>9. ASSUME NEW i \in Instances, NEW signal \in Signals, Evaluate(i, signal)
      PROVE  IInv'
  <2> DEFINE price == frame.close
             st == Guarded(loaded[i].state, price, today)
             target == TargetQty(signal, price)
             delta == target - st.qty
             trades == ~st.halted /\ WorthTrading(delta, price)
  <2>1. price \in Nat \ {0} /\ today \in Days /\ loaded[i].state \in State
    BY <1>0, FrameClose DEF TypeOK
  <2>2. signal \in {-1, 0, 1}
    BY DEF Signals
  <2>3. /\ st \in State /\ st.qty = loaded[i].state.qty /\ st.qtyB = loaded[i].state.qtyB
        /\ st.day = today
        /\ ~st.halted => ~(loaded[i].state.halted /\ loaded[i].state.day = today)
    BY <2>1, GuardedState
  <2>4. target \in Int /\ Abs(target) * price <= MaxPositionUsd
    BY <2>1, <2>2, TargetWithin
  <2>5. /\ runner = "evaluating" /\ i \in todo /\ i \notin paired /\ todo' = todo \ {i}
        /\ cur' = i /\ draft' = st
        /\ order' = IF trades THEN delta ELSE 0
        /\ runner' = IF trades THEN "ordering" ELSE "committing"
    BY <1>9 DEF Evaluate
  <2>6. UNCHANGED <<paired, status, state, traded, tradedB, stored, closing, announced, inbox, today, mode, msg,
                    settled, loaded, frame, row, rowB, priceB, held, wanted>>
    BY <1>9 DEF Evaluate
  <2> HIDE DEF price, st, target, trades
  <2>7. st.qty \in Int /\ delta \in Int /\ st.qty + delta = target
    BY <2>3, <2>4 DEF State
  <2>8. loaded[i].state = state[i] /\ row = 0 /\ rowB = 0
    BY <1>0, <2>5 DEF SessionFresh, DraftInStep
  <2> HIDE DEF delta
  <2>9. TypeOK'
    BY <1>0, <2>3, <2>5, <2>6, <2>7 DEF TypeOK
  <2>10. SessionFresh'
    BY <1>0, <2>5, <2>6 DEF SessionFresh
  <2>11. InCycle' /\ NoCurrent'
    BY <1>0, <2>5, <2>6 DEF InCycle, NoCurrent
  <2>12. DraftInStep'
    <3>1. st.qtyB \in Int
      BY <2>3 DEF State
    <3>2. QED
      BY <2>3, <2>5, <2>6, <2>7, <2>8, <3>1 DEF DraftInStep
  <2>13. DaysPast'
    BY <1>0, <2>1, <2>3, <2>5, <2>6 DEF DaysPast, Days
  <2>14. HaltRespected'
    BY <1>0, <2>3, <2>5, <2>6, <2>8 DEF HaltRespected, trades
  <2>15. WithinGuard'
    BY <2>4, <2>5, <2>6, <2>7, <2>8 DEF WithinGuard, price
  <2>16. QED
    BY <1>0, <2>6, <2>9, <2>10, <2>11, <2>12, <2>13, <2>14, <2>15
       DEF IInv, StopSticks, OrdersExplainPosition
<1>18. ASSUME NEW i \in Instances, NEW target \in {-1, 0, 1}, NEW hedge \in {-1, 0, 1},
              NEW p \in Prices, EvaluatePairs(i, target, hedge, p)
       PROVE  IInv'
  <2> DEFINE price == frame.close
             st == loaded[i].state
             q == LegOrder(st.qty, target, price)
             qB == LegOrder(st.qtyB, -target * hedge, p)
  <2>1. price \in Nat \ {0} /\ p \in Nat \ {0} /\ st \in State /\ st.qty \in Int /\ st.qtyB \in Int
    BY <1>0, FrameClose, PricesAssumption DEF TypeOK, State
  <2>2. -target * hedge \in {-1, 0, 1}
    OBVIOUS
  <2>3. /\ q \in Int /\ (q # 0 => Abs(st.qty + q) * (2 * price) <= MaxPositionUsd)
        /\ qB \in Int /\ (qB # 0 => Abs(st.qtyB + qB) * (2 * p) <= MaxPositionUsd)
    BY <2>1, <2>2, LegWithin
  <2>4. /\ runner = "evaluating" /\ i \in todo /\ i \in paired /\ todo' = todo \ {i}
        /\ cur' = i /\ draft' = [st EXCEPT !.qty = st.qty + q, !.qtyB = st.qtyB + qB]
        /\ row' = q /\ rowB' = qB /\ priceB' = p
        /\ runner' = "committing"
    BY <1>18 DEF EvaluatePairs
  <2>5. UNCHANGED <<paired, status, state, traded, tradedB, stored, closing, announced, inbox, today,
                    mode, msg, settled, loaded, frame, order, held, wanted>>
    BY <1>18 DEF EvaluatePairs
  <2>6. st = state[i]
    BY <1>0, <2>4 DEF SessionFresh
  <2> HIDE DEF price, st, q, qB
  <2>7. /\ draft' \in State /\ draft'.qty = st.qty + q /\ draft'.qtyB = st.qtyB + qB
        /\ draft'.day = st.day /\ draft'.halted = st.halted
    <3>1. st.qty + q \in Int /\ st.qtyB + qB \in Int
      BY <2>1, <2>3
    <3>2. QED
      BY <2>1, <2>4, <3>1 DEF State
  <2>8. TypeOK'
    BY <1>0, <2>3, <2>4, <2>5, <2>7 DEF TypeOK
  <2>9. SessionFresh' /\ InCycle' /\ NoCurrent'
    BY <1>0, <2>4, <2>5 DEF SessionFresh, InCycle, NoCurrent
  <2>10. DraftInStep' /\ DaysPast'
    BY <1>0, <2>4, <2>5, <2>6, <2>7 DEF DraftInStep, DaysPast
  <2>11. HaltRespected'
    BY <1>0, <2>4, <2>5, <2>6, <2>7 DEF HaltRespected
  <2>12. WithinGuard'
    BY <2>3, <2>4, <2>5, <2>7 DEF WithinGuard, Legs, price
  <2>13. QED
    BY <1>0, <2>5, <2>8, <2>9, <2>10, <2>11, <2>12 DEF IInv, StopSticks, OrdersExplainPosition
<1>10. CASE CycleDone
  <2>1. /\ EndCycle /\ runner' = "idle" /\ today' = today
        /\ UNCHANGED <<paired, status, state, traded, tradedB, stored, closing, announced, inbox, mode, held, wanted>>
    BY <1>10 DEF CycleDone
  <2>2. today' \in Days
    BY <1>0, <2>1 DEF TypeOK
  <2>3. QED
    BY <1>0, <2>1, <2>2, CycleEnds
         DEF TypeOK, DaysPast, OrdersExplainPosition, HaltRespected
<1>recorded. ASSUME NEW q \in Int, NEW p \in Nat, q \in Fills \/ q = order, Records(q, p),
               held' \in {held} \cup {Bought(r) : r \in Fills}
        PROVE  IInv'
  <2>1. /\ runner = "ordering" /\ runner' = "committing"
        /\ draft' = Fill(draft, q, p) /\ row' = q
        /\ UNCHANGED <<paired, status, state, traded, tradedB, stored, closing, announced, inbox, today, mode, msg,
                       settled, todo, loaded, frame, cur, order, rowB, priceB, wanted>>
    BY <1>recorded DEF Records
  <2>2. draft \in State /\ draft.qty \in Int /\ order \in Int
    BY <1>0 DEF TypeOK, State
  <2>3. /\ draft' \in State /\ draft'.qty = draft.qty + q /\ draft'.qtyB = draft.qtyB
        /\ draft'.day = draft.day /\ draft'.halted = draft.halted
    BY <2>1, <2>2, FillState
  <2>4. held' \in [Instances -> Int]
    BY <1>0, <1>recorded, BoughtTyped
  <2>5. TypeOK'
    BY <1>0, <2>1, <2>2, <2>3, <2>4 DEF TypeOK
  <2>6. /\ cur \in Instances /\ cur \notin paired /\ row = 0 /\ rowB = 0
        /\ draft.qty = state[cur].qty
    <3>1. /\ cur \in Instances /\ cur \notin paired /\ row = 0 /\ rowB = 0
          /\ draft.qty = state[cur].qty + row
      BY <1>0, <2>1 DEF InCycle, DraftInStep
    <3>2. state[cur].qty \in Int
      BY <1>0, <3>1 DEF TypeOK, State
    <3>3. QED
      BY <3>1, <3>2
  <2>7. SessionFresh' /\ InCycle' /\ NoCurrent' /\ DraftInStep' /\ DaysPast' /\ HaltRespected'
    BY <1>0, <2>1, <2>3, <2>6
       DEF SessionFresh, InCycle, NoCurrent, DraftInStep, DaysPast, HaltRespected
  <2>8. WithinGuard'
    <3>1. Abs(draft.qty + order) * frame.close <= MaxPositionUsd
      BY <1>0, <2>1 DEF WithinGuard, Legs
    <3>2. frame.close \in Nat
      BY <1>0, FrameClose
    <3>3. \/ Abs(draft.qty + q) * frame.close <= MaxPositionUsd
          \/ Abs(draft.qty + q) < Abs(draft.qty)
      <4>1. CASE q = order
        BY <3>1, <4>1
      <4>2. CASE q \in Fills
        <5>1. q \in -Abs(order)..Abs(order) /\ q # 0 /\ (q > 0 <=> order > 0)
          BY <4>2 DEF Fills
        <5> QED
          BY <2>2, <3>1, <3>2, <5>1, PartialFill
      <4> QED
        BY <1>recorded, <4>1, <4>2
    <3>4. Legs(cur) * frame.close = frame.close
      BY <2>6, <3>2 DEF Legs
    <3>5. QED
      BY <2>1, <2>3, <2>6, <3>3, <3>4 DEF WithinGuard, Legs
  <2>9. QED
    BY <1>0, <2>1, <2>5, <2>7, <2>8 DEF IInv, StopSticks, OrdersExplainPosition
<1>11. ASSUME NEW q \in Fills, NEW p \in Prices, OrderFilled(q, p)
       PROVE  IInv'
  <2>1. q \in Int /\ p \in Nat
    BY <1>0, PricesAssumption DEF Fills, TypeOK, Abs
  <2>2. Records(q, p) /\ held' \in {held} \cup {Bought(r) : r \in Fills}
    BY <1>11 DEF OrderFilled
  <2> QED
    BY <1>recorded, <2>1, <2>2
<1>empty. CASE AnsweredEmpty
  <2>1. order \in Int /\ frame.close \in Nat
    BY <1>0, FrameClose DEF TypeOK
  <2>2. Records(order, frame.close) /\ held' \in {held} \cup {Bought(r) : r \in Fills}
    BY <1>empty DEF AnsweredEmpty
  <2> QED
    BY <1>recorded, <2>1, <2>2
<1>12. CASE OrderFails
  <2>1. /\ runner' = "evaluating" /\ EndEvaluation /\ runner = "ordering"
        /\ held' \in {held} \cup {Bought(q) : q \in Fills}
        /\ UNCHANGED <<paired, status, state, traded, tradedB, stored, closing, announced, inbox, today, mode, msg,
                       settled, todo, loaded, frame, wanted>>
    BY <1>12 DEF OrderFails
  <2>2. held' \in [Instances -> Int]
    BY <1>0, <2>1, BoughtTyped
  <2>3. QED
    BY <1>0, <2>1, <2>2, EvaluationEnds
       DEF TypeOK, DaysPast, OrdersExplainPosition, SessionFresh, HaltRespected
<1>13. CASE Commit
  <2>1. /\ runner = "committing" /\ runner' = "evaluating" /\ Write /\ EndEvaluation
        /\ loaded' = [loaded EXCEPT ![cur].state = draft]
        /\ UNCHANGED <<stored, closing, announced, inbox, today, mode, msg, settled, todo, frame,
                       held, wanted>>
    BY <1>13 DEF Commit
  <2>2. /\ state' \in [Instances -> State]
        /\ traded' \in [Instances -> Int] /\ tradedB' \in [Instances -> Int]
        /\ paired' = paired /\ status' = status /\ OrdersExplainPosition'
        /\ \A i \in Instances : state'[i].day <= today
        /\ \A i \in paired : ~state'[i].halted
        /\ \A i \in Instances : state'[i] = IF i = cur THEN draft ELSE state[i]
    BY <2>1, WriteKeeps
  <2>3. cur \in Instances /\ draft \in State
    BY <1>0, <2>1 DEF InCycle, TypeOK
  <2>4. loaded' \in [Instances -> [status : Statuses, state : State]]
    BY <1>0, <2>1, <2>3 DEF TypeOK
  <2>5. \A i \in Instances : loaded'[i].state = IF i = cur THEN draft ELSE loaded[i].state
    BY <1>0, <2>1, <2>3 DEF TypeOK
  <2>6. \A i \in Instances : loaded'[i].state = state'[i]
    BY <1>0, <2>1, <2>2, <2>5 DEF SessionFresh
  <2>7. held' \in [Instances -> Int]
    BY <1>0, <2>1 DEF TypeOK
  <2>8. QED
    BY <2>1, <2>2, <2>4, <2>6, <2>7, EvaluationEnds
<1>14. CASE CommitFails
  <2>1. /\ runner = "committing" /\ runner' = "idle" /\ EndCycle
        /\ Write \/ UNCHANGED <<paired, status, state, traded, tradedB>>
        /\ UNCHANGED <<stored, closing, announced, inbox, today, mode, held, wanted>>
    BY <1>14 DEF CommitFails
  <2>2. CASE Write
    BY <1>0, <2>1, <2>2, WriteKeeps, CycleEnds DEF TypeOK
  <2>3. CASE UNCHANGED <<paired, status, state, traded, tradedB>>
    BY <1>0, <2>1, <2>3, CycleEnds
         DEF TypeOK, DaysPast, OrdersExplainPosition, HaltRespected
  <2>4. QED
    BY <2>1, <2>2, <2>3
<1>15. CASE RunnerCrashes
  <2>1. /\ runner' = "down" /\ EndCycle /\ inbox' \in Seq(1..MaxCandles)
        /\ UNCHANGED <<stored, closing, announced, today, mode, wanted>>
    BY <1>15 DEF RunnerCrashes
  <2>2. CASE UNCHANGED <<paired, status, state, traded, tradedB, held>>
    BY <1>0, <2>1, <2>2, CycleEnds
         DEF TypeOK, DaysPast, OrdersExplainPosition, HaltRespected
  <2>3. CASE runner = "ordering" /\ held' \in {Bought(q) : q \in Fills}
             /\ UNCHANGED <<paired, status, state, traded, tradedB>>
    <3>1. held' \in [Instances -> Int]
      BY <1>0, <2>3, BoughtTyped
    <3>2. QED
      BY <1>0, <2>1, <2>3, <3>1, CycleEnds
         DEF TypeOK, DaysPast, OrdersExplainPosition, HaltRespected
  <2>4. CASE runner = "committing" /\ Write /\ UNCHANGED held
    BY <1>0, <2>1, <2>4, WriteKeeps, CycleEnds DEF TypeOK
  <2>5. QED
    BY <1>15, <2>2, <2>3, <2>4 DEF RunnerCrashes
<1>16. CASE UNCHANGED vars
  <2>1. TypeOK'
    BY <1>0, <1>16 DEF vars, TypeOK
  <2>2. QED
    BY <1>0, <1>16, <2>1
       DEF vars, IInv, StopSticks, OrdersExplainPosition, SessionFresh, InCycle, NoCurrent,
           DraftInStep, DaysPast, HaltRespected, WithinGuard, Legs
<1>17. QED
  BY <1>1, <1>2, <1>3, <1>4, <1>5, <1>6, <1>7, <1>8, <1>9, <1>10, <1>11, <1>empty, <1>12, <1>13, <1>14,
     <1>15, <1>16, <1>18
     DEF Next, StopInstance, StartInstance, Statuses
-----------------------------------------------------------------------------
(* Theorems                                                                *)

(* The invariant holds in every state.                                     *)
LEMMA Invariance == Spec => []IInv
BY InitIInv, StepIInv, PTL DEF Spec

(* Type correctness of the runner, of its rows and of the market account.  *)
THEOREM PaperTypeCorrect == Spec => []TypeOK
<1>1. IInv => TypeOK
  BY DEF IInv
<1>2. QED
  BY <1>1, Invariance, PTL

(* An order never goes out for an instance that was stopped before the     *)
(* cycle began, although the runner reads its objects once per cycle.      *)
THEOREM KillSwitchWorks == Spec => []KillSwitch
<1>1. IInv => KillSwitch
  BY DEF IInv, KillSwitch, InCycle
<1>2. QED
  BY <1>1, Invariance, PTL

(* Whatever the runner commits, crashes in or fails to commit, the status  *)
(* in the database is the one the user asked for last.                     *)
THEOREM StopsStick == Spec => []StopSticks
<1>1. IInv => StopSticks
  BY DEF IInv
<1>2. QED
  BY <1>1, Invariance, PTL

(* The rows of paper_orders always account for the recorded position.      *)
THEOREM OrdersAddUp == Spec => []OrdersExplainPosition
<1>1. IInv => OrdersExplainPosition
  BY DEF IInv
<1>2. QED
  BY <1>1, Invariance, PTL

(* The recorded positions and orders change in a commit and nowhere else.  *)
LEMMA OnlyCommitsWrite ==
  ASSUME [Next]_vars
  PROVE  (runner = "committing" /\ Write) \/ UNCHANGED <<state, traded, tradedB>>
<1> USE DEF databaseVars
<1>1. CASE \E i \in Instances, target, hedge \in {-1, 0, 1}, p \in Prices :
             EvaluatePairs(i, target, hedge, p)
  BY <1>1 DEF EvaluatePairs
<1>2. CASE UNCHANGED vars
  BY <1>2 DEF vars
<1>3. CASE \E i \in Instances :
             StopInstance(i) \/ StartInstance(i) \/ EvaluationFails(i) \/ \E s \in Signals : Evaluate(i, s)
  BY <1>3 DEF StopInstance, StartInstance, UserSets, EvaluationFails, Evaluate
<1>4. CASE Commit \/ CommitFails \/ RunnerCrashes
  BY <1>4 DEF Commit, CommitFails, RunnerCrashes
<1>5. CASE \/ \E p \in Prices : CandleCloses(p)
           \/ CandleStored \/ Midnight \/ RunnerStarts \/ SelectInstances \/ LoadCandles \/ CycleDone
           \/ \E q \in Fills, p \in Prices : OrderFilled(q, p)
           \/ AnsweredEmpty \/ OrderFails
  BY <1>5 DEF CandleCloses, CandleStored, Midnight, RunnerStarts, SelectInstances, LoadCandles,
              CycleDone, OrderFilled, AnsweredEmpty, Records, OrderFails
<1>6. QED
  BY <1>1, <1>2, <1>3, <1>4, <1>5 DEF Next

(* A tripped daily-loss guard lasts for the day: until midnight nothing is *)
(* recorded for the instance, across crashes, restarts and failed commits. *)
THEOREM HaltIsRespected == Spec => HaltHolds
<1>1. ASSUME IInv, [Next]_vars, NEW i \in Instances, state[i].halted, state[i].day = today
      PROVE  traded'[i] = traded[i] /\ tradedB'[i] = tradedB[i]
  <2>1. CASE runner = "committing" /\ Write
    <3>1. /\ TypeOK /\ cur \in Instances
          /\ row # 0 \/ rowB # 0 => ~(state[cur].halted /\ state[cur].day = today)
      BY <1>1, <2>1 DEF IInv, InCycle, HaltRespected
    <3>2. /\ traded' = [traded EXCEPT ![cur] = traded[cur] + row]
          /\ tradedB' = [tradedB EXCEPT ![cur] = tradedB[cur] + rowB]
      BY <2>1 DEF Write
    <3>3. traded \in [Instances -> Int] /\ tradedB \in [Instances -> Int]
      BY <3>1 DEF TypeOK
    <3>4. CASE i = cur
      <4>1. row = 0 /\ rowB = 0 /\ traded[cur] \in Int /\ tradedB[cur] \in Int
        BY <1>1, <3>1, <3>3, <3>4
      <4>2. QED
        BY <3>1, <3>2, <3>3, <3>4, <4>1
    <3>5. CASE i # cur
      BY <3>1, <3>2, <3>3, <3>5
    <3>6. QED
      BY <3>4, <3>5
  <2>2. QED
    BY <1>1, <2>1, OnlyCommitsWrite
<1>2. IInv /\ [Next]_vars
        => [\A i \in Instances :
              (state[i].halted /\ state[i].day = today)
                => traded'[i] = traded[i] /\ tradedB'[i] = tradedB[i]]_vars
  BY <1>1
<1>3. QED
  BY <1>2, Invariance, PTL DEF Spec, HaltHolds

(* The position guard: whatever part of an order is filled, the recorded   *)
(* position ends up within the guard or nearer to it than it was.          *)
THEOREM GuardIsRespected == Spec => NeverAddsBeyondGuard
<1>1. ASSUME IInv, [Next]_vars, NEW i \in Instances, state'[i] # state[i]
      PROVE  /\ state'[i].qty # state[i].qty =>
                  \/ Abs(state'[i].qty) * (Legs(i) * frame.close) <= MaxPositionUsd
                  \/ Abs(state'[i].qty) < Abs(state[i].qty)
             /\ state'[i].qtyB # state[i].qtyB =>
                  Abs(state'[i].qtyB) * (2 * priceB) <= MaxPositionUsd
  <2>1. runner = "committing" /\ Write
    BY <1>1, OnlyCommitsWrite
  <2>2. \A j \in Instances : state'[j] = IF j = cur THEN draft ELSE state[j]
    BY <1>1, <2>1, WriteKeeps
  <2>3. i = cur /\ state'[i] = draft
    BY <1>1, <2>2
  <2>4. /\ draft.qty = state[cur].qty + row /\ state[cur].qty \in Int
        /\ draft.qtyB = state[cur].qtyB + rowB /\ state[cur].qtyB \in Int
    BY <1>1, <2>1, <2>3 DEF IInv, DraftInStep, TypeOK, State
  <2>5. /\ state'[i].qty # state[i].qty => row # 0
        /\ state'[i].qtyB # state[i].qtyB => rowB # 0
    BY <2>3, <2>4
  <2>6. QED
    BY <1>1, <2>1, <2>3, <2>5 DEF IInv, WithinGuard, Legs
<1>2. IInv /\ [Next]_vars
        => [\A i \in Instances :
              /\ state'[i].qty # state[i].qty =>
                   \/ Abs(state'[i].qty) * (Legs(i) * frame.close) <= MaxPositionUsd
                   \/ Abs(state'[i].qty) < Abs(state[i].qty)
              /\ state'[i].qtyB # state[i].qtyB =>
                   Abs(state'[i].qtyB) * (2 * priceB) <= MaxPositionUsd]_vars
  BY <1>1
<1>3. QED
  BY <1>2, Invariance, PTL DEF Spec, NeverAddsBeyondGuard
=============================================================================
