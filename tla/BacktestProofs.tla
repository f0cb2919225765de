--------------------------- MODULE BacktestProofs ---------------------------
(***************************************************************************)
(* Proofs about backtests: for any bars no strategy looks ahead, the list  *)
(* of trades trails the equity curve by one bar, the RSI strategy keeps to *)
(* its holding limit, and the walk-forward divides the bars among windows. *)
(*                                                                         *)
(* Strategies, trades and turnover are recursions over the bars.  The      *)
(* provers know no induction over data, so PassExists and what is said of  *)
(* the passes argue by the first bar that gets it wrong.                   *)
(***************************************************************************)
EXTENDS BacktestJobs, FiniteSetTheorems, TLAPS

-----------------------------------------------------------------------------
(* Passes over the bars                                                    *)

(* Numbers that there are have a least one.                                *)
LEMMA HasLeast ==
  ASSUME NEW S \in SUBSET Nat, S # {}
  PROVE  \E x \in S : \A y \in S : x <= y
<1>1. IsWellFoundedOn(OpToRel(<, Nat), Nat)
  BY NatLessThanWellFounded
<1>2. PICK x \in S : \A y \in S : <<y, x>> \notin OpToRel(<, Nat)
  BY <1>1, WFMin
<1>3. \A y \in S : ~(y < x)
  BY <1>2 DEF OpToRel
<1> QED
  BY <1>3

(* What holds of 0, and of every number up to n whose predecessor has it,  *)
(* holds up to n.                                                          *)
LEMMA HoldsUpTo ==
  ASSUME NEW n \in Nat, NEW Good, 0 \in Good,
         \A i \in 1..n : i - 1 \in Good => i \in Good
  PROVE  0..n \subseteq Good
<1> DEFINE bad == {i \in 0..n : i \notin Good}
<1> SUFFICES ASSUME bad # {} PROVE FALSE
  OBVIOUS
<1>1. PICK i \in bad : \A j \in bad : i <= j
  <2>1. bad \in SUBSET Nat
    OBVIOUS
  <2> HIDE DEF bad
  <2> QED
    BY <2>1, HasLeast
<1>2. i \in 1..n
  BY <1>1
<1>3. i - 1 \in Good
  <2>1. i - 1 \notin bad
    BY <1>1, <1>2
  <2> QED
    BY <1>2, <2>1
<1> QED
  BY <1>1, <1>2, <1>3

(* A pass over n bars that goes from state to state exists.                *)
Passes(f, start, step, m) == \A i \in 0..m : f[i] = IF i = 0 THEN start ELSE step[f[i - 1]][i]
(* Whatever the rule, as long as it does not leave the set of states.      *)
LEMMA PassExists ==
  ASSUME NEW S, NEW start \in S, NEW n \in Nat, NEW step \in [S -> [1..n -> S]]
  PROVE  \E f \in [0..n -> S] : Passes(f, start, step, n)
<1> DEFINE Good == {m \in 0..n : \E f \in [0..n -> S] : Passes(f, start, step, m)}
<1>1. 0 \in Good
  <2> DEFINE f == [i \in 0..n |-> start]
  <2>1. f \in [0..n -> S] /\ \A i \in 0..n : f[i] = start
    OBVIOUS
  <2> HIDE DEF f
  <2>2. Passes(f, start, step, 0)
    BY <2>1 DEF Passes
  <2> QED
    BY <2>1, <2>2
<1>2. ASSUME NEW m \in 1..n, m - 1 \in Good PROVE m \in Good
  <2>1. PICK f \in [0..n -> S] : Passes(f, start, step, m - 1)
    BY <1>2
  <2> DEFINE next == step[f[m - 1]][m]
             g == [f EXCEPT ![m] = next]
  <2>2. next \in S
    <3>1. f[m - 1] \in S
      OBVIOUS
    <3> QED
      BY <3>1
  <2> HIDE DEF next
  <2>3. g \in [0..n -> S]
    BY <2>2
  <2>6. g[m] = next
    BY <2>2
  <2>7. ASSUME NEW i \in 0..m - 1 PROVE g[i] = f[i]
    OBVIOUS
  <2> HIDE DEF g
  <2>4. ASSUME NEW i \in 0..m PROVE g[i] = IF i = 0 THEN start ELSE step[g[i - 1]][i]
    <3>1. CASE i = m
      <4>1. g[m - 1] = f[m - 1]
        BY <2>7
      <4> QED
        BY <2>6, <3>1, <4>1 DEF next
    <3>2. CASE i \in 0..m - 1
      <4>1. f[i] = IF i = 0 THEN start ELSE step[f[i - 1]][i]
        BY <2>1, <3>2 DEF Passes
      <4>2. g[i] = f[i] /\ (i # 0 => g[i - 1] = f[i - 1])
        BY <2>7, <3>2
      <4> QED
        BY <4>1, <4>2
    <3> QED
      BY <3>1, <3>2
  <2>5. Passes(g, start, step, m)
    BY <2>4 DEF Passes
  <2> QED
    BY <2>3, <2>5
<1>3. n \in Good
  <2> HIDE DEF Good
  <2>1. 0..n \subseteq Good
    BY <1>1, <1>2, HoldsUpTo
  <2> QED
    BY <2>1
<1> QED
  BY <1>3

-----------------------------------------------------------------------------
(* Strategies                                                              *)

Values == Int \cup {NoValue}
Sides == {-1, 0, 1}
States == [holding : Sides, held : Nat, stop : Int, wanted : Sides]

(* What is held and wanted is long, short or nothing.                      *)
LEMMA HoldsType ==
  ASSUME NEW was \in States, NEW side \in Sides
  PROVE  /\ Holds(was, side) \in States /\ Pauses(was) \in States
         /\ \A held \in Nat : [Holds(was, side) EXCEPT !.held = held] \in States
         /\ \A stop \in Int : [Holds(was, side) EXCEPT !.stop = stop] \in States
  BY DEF States, Sides, Holds, Pauses

(* The greater and the less of two numbers is one of them.                 *)
LEMMA OfTwo ==
  ASSUME NEW a \in Int, NEW b \in Int
  PROVE  Max({a, b}) \in Int /\ Min({a, b}) \in Int
<1>1. \E x \in {a, b} : \A y \in {a, b} : x >= y
  <2>1. CASE a >= b
    BY <2>1
  <2>2. CASE b >= a
    BY <2>2
  <2> QED
    BY <2>1, <2>2
<1>2. \E x \in {a, b} : \A y \in {a, b} : x =< y
  <2>1. CASE a >= b
    BY <2>1
  <2>2. CASE b >= a
    BY <2>2
  <2> QED
    BY <2>1, <2>2
<1>3. Max({a, b}) \in {a, b}
  BY <1>1 DEF Max
<1>4. Min({a, b}) \in {a, b}
  BY <1>2 DEF Min
<1> QED
  BY <1>3, <1>4

(* A breakout is on a side, whatever the channel.                          *)
LEMMA DonchianType ==
  ASSUME NEW was \in States, NEW series \in Seq(Values), NEW i \in 1..Len(series)
  PROVE  Donchian(was, series, i) \in States
<1> DEFINE c == Close(series[i])
           channel == {Close(series[j]) : j \in i - Lookback..i - 1}
           breakout == IF c > Max(channel) THEN 1 ELSE IF c < Min(channel) THEN -1 ELSE 0
           trailed == IF was.holding > 0 THEN Max({was.stop, c - Stop}) ELSE Min({was.stop, c + Stop})
           kept == IF was.holding * (c - trailed) < 0 THEN 0 ELSE was.holding
<1>1. c \in Int
  BY DEF Close, Values
<1>2. was.stop \in Int /\ was.holding \in Sides /\ Stop \in Int
  BY BacktestAssumption DEF States
<1>3. breakout \in Sides
  <2> HIDE DEF c, channel
  <2> QED
    BY DEF Sides
<1>4. trailed \in Int
  <2> HIDE DEF c
  <2>1. Max({was.stop, c - Stop}) \in Int
    BY <1>1, <1>2, OfTwo
  <2>2. Min({was.stop, c + Stop}) \in Int
    <3>1. c + Stop \in Int
      BY <1>1, <1>2
    <3> QED
      BY <1>2, <3>1, OfTwo
  <2> QED
    BY <2>1, <2>2
<1>5. kept \in Sides
  <2> HIDE DEF c, trailed
  <2> QED
    BY <1>2 DEF Sides
<1>6. c - breakout * Stop \in Int
  <2> HIDE DEF c, breakout
  <2> QED
    BY <1>1, <1>2, <1>3 DEF Sides
<1>7. Donchian(was, series, i) =
        IF i <= Lookback THEN Pauses(was)
        ELSE IF was.holding = 0 THEN [Holds(was, breakout) EXCEPT !.stop = c - breakout * Stop]
        ELSE [Holds(was, kept) EXCEPT !.stop = trailed]
  BY DEF Donchian
<1> HIDE DEF c, breakout, kept, trailed
<1> QED
  BY <1>3, <1>4, <1>5, <1>6, <1>7, HoldsType

(* A strategy that was on a side or on none is so after the next bar.      *)
LEMMA DecideType ==
  ASSUME NEW strategy \in Strategies, NEW was \in States, NEW series \in Seq(Values),
         NEW i \in 1..Len(series)
  PROVE  Decide(strategy, was, series, i) \in States
<1>1. was.holding \in Sides /\ was.held \in Nat
  BY DEF States
<1>2. \A v : Enters(v) \in Sides /\ 0 \in Sides /\ 1 \in Sides /\ -1 \in Sides
  BY DEF Enters, Sides
<1>3. \A v, exit : MeanReversion(was, v, exit) \in States
  BY <1>1, <1>2, HoldsType DEF MeanReversion
<1>4. ASSUME NEW v PROVE Rsi(was, v) \in States
  <2> DEFINE held == IF was.holding = 0 THEN 0 ELSE was.held + 1
             crossed == v # NoValue /\ Leaves(was.holding, v, 0)
             side == IF was.holding = 0 THEN IF v = NoValue THEN 0 ELSE Enters(v)
                     ELSE IF crossed \/ HeldTooLong(held) THEN 0 ELSE was.holding
  <2>1. held \in Nat
    BY <1>1
  <2>2. side \in Sides
    <3> HIDE DEF held, crossed
    <3> QED
      BY <1>1, <1>2
  <2>3. Rsi(was, v) = [Holds(was, side) EXCEPT !.held = held]
    BY DEF Rsi
  <2> HIDE DEF held, side
  <2> QED
    BY <2>1, <2>2, <2>3, HoldsType
<1>5. \A v : FundingContrarian(was, v) \in States
  BY <1>1, <1>2, HoldsType DEF FundingContrarian
<1>6. SmaCrossover(was, series, i) \in States
  BY <1>1, <1>2, HoldsType DEF SmaCrossover
<1>7. Donchian(was, series, i) \in States
  BY DonchianType
<1> QED
  BY <1>3, <1>4, <1>5, <1>6, <1>7 DEF Decide, Strategies, ZScore, Bollinger, Pairs

(* What is decided after a bar depends on no later one.                    *)
LEMMA DecideSame ==
  ASSUME NEW strategy \in Strategies, NEW was, NEW series \in Seq(Values), NEW v \in Values,
         NEW i \in 1..Len(series)
  PROVE  Decide(strategy, was, Append(series, v), i) = Decide(strategy, was, series, i)
<1> DEFINE more == Append(series, v)
<1>1. /\ more \in Seq(Values) /\ Len(more) = Len(series) + 1
      /\ \A j \in 1..Len(series) : more[j] = series[j]
  OBVIOUS
<1> HIDE DEF more
<1>2. Donchian(was, more, i) = Donchian(was, series, i)
  <2>1. CASE i <= Lookback
    BY <2>1 DEF Donchian
  <2>2. CASE ~(i <= Lookback)
    <3>1. \A j \in i - Lookback..i - 1 : more[j] = series[j]
      BY <1>1, <2>2, BacktestAssumption
    <3>2. {Close(more[j]) : j \in i - Lookback..i - 1} = {Close(series[j]) : j \in i - Lookback..i - 1}
      BY <3>1
    <3>3. more[i] = series[i]
      BY <1>1
    <3> QED
      BY <3>2, <3>3 DEF Donchian
  <2> QED
    BY <2>1, <2>2
<1>3. SmaCrossover(was, more, i) = SmaCrossover(was, series, i)
  <2>1. ASSUME NEW n \in Nat \ {0}, n <= i
        PROVE  SubSeq(more, i - n + 1, i) = SubSeq(series, i - n + 1, i)
    BY <1>1, <2>1
  <2>2. CASE i < Slow
    BY <2>2 DEF SmaCrossover
  <2>3. CASE i < Fast
    BY <2>3, BacktestAssumption DEF SmaCrossover
  <2>4. CASE ~(i < Slow) /\ ~(i < Fast)
    <3>1. SubSeq(more, i - Fast + 1, i) = SubSeq(series, i - Fast + 1, i)
      BY <2>1, <2>4, BacktestAssumption
    <3>2. SubSeq(more, i - Slow + 1, i) = SubSeq(series, i - Slow + 1, i)
      BY <2>1, <2>4, BacktestAssumption
    <3> QED
      BY <3>1, <3>2 DEF SmaCrossover
  <2> QED
    BY <2>2, <2>3, <2>4
<1>4. more[i] = series[i]
  BY <1>1
<1> QED
  BY <1>2, <1>3, <1>4 DEF Decide, more

(* The pass of a strategy over the bars.                                   *)
DecidedUpTo(upTo, strategy, series) ==
  upTo = [i \in 0..Len(series) |->
            IF i = 0 THEN <<Flat>>
            ELSE LET before == upTo[i - 1]
                 IN Append(before, Decide(strategy, Last(before), series, i))]
(* It exists, and its value at the last bar is what Decided returns.       *)
LEMMA DecidedExists ==
  ASSUME NEW strategy \in Strategies, NEW series \in Seq(Values)
  PROVE  \E upTo : DecidedUpTo(upTo, strategy, series) /\ Decided(strategy, series) = upTo[Len(series)]
<1> DEFINE S == Seq(States) \ {<<>>}
           n == Len(series)
           step == [q \in S |-> [i \in 1..n |-> Append(q, Decide(strategy, Last(q), series, i))]]
<1>1. <<Flat>> \in S
  BY DEF Flat, States, Sides
<1>2. ASSUME NEW q \in S, NEW i \in 1..n
      PROVE  Append(q, Decide(strategy, Last(q), series, i)) \in S
  <2>1. Last(q) \in States
    BY DEF Last
  <2>2. Decide(strategy, Last(q), series, i) \in States
    BY <2>1, DecideType
  <2> QED
    BY <2>2
<1>3. step \in [S -> [1..n -> S]]
  <2> HIDE DEF S
  <2> QED
    BY <1>2
<1>4. n \in Nat
  OBVIOUS
<1>5. PICK f \in [0..n -> S] : Passes(f, <<Flat>>, step, n)
  <2> HIDE DEF S, step, n
  <2> QED
    BY <1>1, <1>3, <1>4, PassExists
<1>6. ASSUME NEW i \in 0..n
      PROVE  f[i] = IF i = 0 THEN <<Flat>>
                    ELSE LET before == f[i - 1]
                         IN Append(before, Decide(strategy, Last(before), series, i))
  <2>1. CASE i = 0
    BY <1>5, <2>1 DEF Passes
  <2>2. CASE i # 0
    <3>1. f[i] = step[f[i - 1]][i]
      <4> HIDE DEF step, S
      <4> QED
        BY <1>5, <2>2 DEF Passes
    <3>2. f[i - 1] \in S /\ i \in 1..n
      <4> HIDE DEF S
      <4> QED
        BY <2>2
    <3>3. step[f[i - 1]][i] = Append(f[i - 1], Decide(strategy, Last(f[i - 1]), series, i))
      <4> HIDE DEF S
      <4> QED
        BY <3>2
    <3> QED
      BY <2>2, <3>1, <3>3
  <2> QED
    BY <2>1, <2>2
<1>7. DecidedUpTo(f, strategy, series)
  <2> HIDE DEF S
  <2> QED
    BY <1>6 DEF DecidedUpTo
<1>8. \E upTo : DecidedUpTo(upTo, strategy, series)
  BY <1>7
<1> QED
  BY <1>8 DEF Decided, DecidedUpTo

(* The pass: a state for the time before the first bar, then one a bar.    *)
LEMMA DecidedIs ==
  ASSUME NEW strategy \in Strategies, NEW series \in Seq(Values)
  PROVE  LET states == Decided(strategy, series)
         IN /\ states \in Seq(States) /\ Len(states) = Len(series) + 1
            /\ states[1] = Flat
            /\ \A i \in 1..Len(series) : states[i + 1] = Decide(strategy, states[i], series, i)
<1> DEFINE n == Len(series)
<1>1. PICK upTo : DecidedUpTo(upTo, strategy, series) /\ Decided(strategy, series) = upTo[n]
  BY DecidedExists
<1> DEFINE Good == {m \in 0..n :
             /\ upTo[m] \in Seq(States) /\ Len(upTo[m]) = m + 1 /\ upTo[m][1] = Flat
             /\ \A i \in 1..m : upTo[m][i + 1] = Decide(strategy, upTo[m][i], series, i)}
<1>2. n \in Nat
  OBVIOUS
<1>3. 0 \in Good
  <2>1. upTo[0] = <<Flat>>
    BY <1>1, <1>2 DEF DecidedUpTo
  <2>2. Flat \in States
    BY DEF Flat, States, Sides
  <2>3. <<Flat>> \in Seq(States) /\ Len(<<Flat>>) = 1 /\ <<Flat>>[1] = Flat
    BY <2>2
  <2>4. 0 \in 0..n /\ 1..0 = {}
    BY <1>2
  <2>5. /\ upTo[0] \in Seq(States) /\ Len(upTo[0]) = 0 + 1 /\ upTo[0][1] = Flat
        /\ \A i \in 1..0 : upTo[0][i + 1] = Decide(strategy, upTo[0][i], series, i)
    BY <2>1, <2>3
  <2> HIDE DEF n
  <2> QED
    BY <2>4, <2>5
<1>4. ASSUME NEW m \in 1..n, m - 1 \in Good PROVE m \in Good
  <2> DEFINE before == upTo[m - 1]
             state == Decide(strategy, Last(before), series, m)
             after == Append(before, state)
  <2>1. upTo[m] = after
    <3>1. m \in 0..n /\ m # 0
      BY <1>2
    <3>2. upTo[m] = LET was == upTo[m - 1] IN Append(was, Decide(strategy, Last(was), series, m))
      BY <1>1, <3>1 DEF DecidedUpTo
    <3> QED
      BY <3>2
  <2>8. /\ before \in Seq(States) /\ Len(before) = (m - 1) + 1 /\ before[1] = Flat
        /\ \A i \in 1..m - 1 : before[i + 1] = Decide(strategy, before[i], series, i)
    BY <1>4, Zenon
  <2>2. Len(before) = m
    <3> HIDE DEF before
    <3> QED
      BY <2>8
  <2> HIDE DEF before
  <2>3. Last(before) \in States /\ Last(before) = before[m]
    BY <2>2, <2>8 DEF Last
  <2>4. state \in States
    BY <2>3, DecideType
  <2> HIDE DEF state
  <2>5. /\ after \in Seq(States) /\ Len(after) = m + 1 /\ after[m + 1] = state
        /\ \A i \in 1..m : after[i] = before[i]
    BY <2>2, <2>4, <2>8
  <2> HIDE DEF after
  <2>6. after[1] = Flat
    BY <2>2, <2>5, <2>8
  <2>7. ASSUME NEW i \in 1..m PROVE after[i + 1] = Decide(strategy, after[i], series, i)
    <3>1. CASE i = m
      BY <2>3, <2>5, <3>1 DEF state
    <3>2. CASE i \in 1..m - 1
      <4>1. after[i] = before[i] /\ after[i + 1] = before[i + 1]
        BY <2>5, <3>2
      <4> QED
        BY <2>8, <3>2, <4>1
    <3> QED
      BY <3>1, <3>2
  <2> QED
    BY <2>1, <2>5, <2>6, <2>7
<1>5. n \in Good
  <2> HIDE DEF Good, n
  <2>1. 0..n \subseteq Good
    BY <1>2, <1>3, <1>4, HoldsUpTo
  <2> QED
    BY <1>2, <2>1
<1> QED
  BY <1>1, <1>5

(* What is wanted after every bar.                                         *)
LEMMA TargetsAre ==
  ASSUME NEW strategy \in Strategies, NEW series \in Seq(Values)
  PROVE  /\ Targets(strategy, series) \in Seq(Sides) /\ Len(Targets(strategy, series)) = Len(series)
         /\ \A i \in 1..Len(series) : Targets(strategy, series)[i] = Decided(strategy, series)[i + 1].wanted
<1> DEFINE states == Decided(strategy, series)
           wanted == [i \in 1..Len(series) |-> states[i + 1].wanted]
<1>1. states \in Seq(States) /\ Len(states) = Len(series) + 1
  BY DecidedIs
<1> HIDE DEF states
<1>2. \A i \in 1..Len(series) : states[i + 1].wanted \in Sides
  <2>1. \A i \in 1..Len(series) : states[i + 1] \in States
    BY <1>1
  <2> QED
    BY <2>1 DEF States
<1>3. wanted \in Seq(Sides) /\ Len(wanted) = Len(series)
  BY <1>2
<1>4. Targets(strategy, series) = wanted
  BY DEF Targets, states
<1> QED
  BY <1>3, <1>4 DEF states

(* Another bar changes nothing that was wanted before.                     *)
LEMMA TargetsSame ==
  ASSUME NEW strategy \in Strategies, NEW series \in Seq(Values), NEW v \in Values
  PROVE  \A i \in 1..Len(series) : Targets(strategy, Append(series, v))[i] = Targets(strategy, series)[i]
<1> DEFINE n == Len(series)
           more == Append(series, v)
           states == Decided(strategy, series)
           others == Decided(strategy, more)
           Good == {i \in 0..n : others[i + 1] = states[i + 1]}
<1>1. n \in Nat /\ more \in Seq(Values) /\ Len(more) = n + 1
  OBVIOUS
<1>2. /\ states \in Seq(States) /\ Len(states) = n + 1 /\ states[1] = Flat
      /\ \A i \in 1..n : states[i + 1] = Decide(strategy, states[i], series, i)
  BY DecidedIs
<1>3. /\ others \in Seq(States) /\ Len(others) = n + 2 /\ others[1] = Flat
      /\ \A i \in 1..n + 1 : others[i + 1] = Decide(strategy, others[i], more, i)
  <2>1. Len(more) + 1 = n + 2
    BY <1>1
  <2> HIDE DEF more, n
  <2> QED
    BY <1>1, <2>1, DecidedIs
<1>4. \A i \in 1..n : \A was : Decide(strategy, was, more, i) = Decide(strategy, was, series, i)
  BY DecideSame
<1>8. \A i \in 1..n : Targets(strategy, series)[i] = states[i + 1].wanted
  BY TargetsAre
<1>9. \A i \in 1..n + 1 : Targets(strategy, more)[i] = others[i + 1].wanted
  <2> HIDE DEF more, n
  <2> QED
    BY <1>1, TargetsAre
<1> HIDE DEF n, more, states, others
<1>5. 0 \in Good
  BY <1>1, <1>2, <1>3
<1>6. ASSUME NEW i \in 1..n, i - 1 \in Good PROVE i \in Good
  <2>1. others[i] = states[i]
    BY <1>1, <1>6
  <2>2. others[i + 1] = Decide(strategy, others[i], more, i) /\ i \in 0..n
    BY <1>1, <1>3
  <2> QED
    BY <1>2, <1>4, <2>1, <2>2
<1>7. 0..n \subseteq Good
  <2> HIDE DEF Good
  <2> QED
    BY <1>1, <1>5, <1>6, HoldsUpTo
<1>10. ASSUME NEW i \in 1..n PROVE Targets(strategy, more)[i] = Targets(strategy, series)[i]
  <2>1. others[i + 1] = states[i + 1] /\ i \in 1..n + 1
    BY <1>1, <1>7
  <2> QED
    BY <1>8, <1>9, <2>1
<1> QED
  BY <1>10 DEF n, more

(* What is held on a bar was wanted after the bar before.                  *)
LEMMA HeldIs ==
  ASSUME NEW target \in Seq(Sides)
  PROVE  /\ Held(target) \in Seq(Sides) /\ Len(Held(target)) = Len(target)
         /\ \A i \in 1..Len(target) : Held(target)[i] = IF i = 1 THEN 0 ELSE target[i - 1]
<1> DEFINE held == [i \in 1..Len(target) |-> IF i = 1 THEN 0 ELSE target[i - 1]]
<1>1. \A i \in 1..Len(target) : (IF i = 1 THEN 0 ELSE target[i - 1]) \in Sides
  BY DEF Sides
<1>2. held \in Seq(Sides) /\ Len(held) = Len(target)
  BY <1>1
<1> QED
  BY <1>2 DEF Held

(* The position on a bar does not depend on it, nor is what was held       *)
(* changed by it.                                                          *)
LEMMA LooksBack ==
  ASSUME NEW strategy \in Strategies, NEW series \in Seq(Values), NEW v \in Values
  PROVE  LET target == Targets(strategy, series)
         IN Held(Targets(strategy, Append(series, v)))
              = [i \in 1..Len(series) + 1 |-> IF i = 1 THEN 0 ELSE target[i - 1]]
<1> DEFINE n == Len(series)
           more == Append(series, v)
           target == Targets(strategy, series)
           other == Targets(strategy, more)
<1>1. n \in Nat /\ more \in Seq(Values) /\ Len(more) = n + 1
  OBVIOUS
<1>2. \A i \in 1..n : other[i] = target[i]
  BY TargetsSame
<1>3. other \in Seq(Sides) /\ Len(other) = n + 1
  <2> HIDE DEF more, n
  <2> QED
    BY <1>1, TargetsAre
<1> HIDE DEF n, other, target
<1>4. Held(other) = [i \in 1..n + 1 |-> IF i = 1 THEN 0 ELSE other[i - 1]]
  BY <1>3 DEF Held
<1>5. \A i \in 1..n + 1 : (IF i = 1 THEN 0 ELSE other[i - 1]) = IF i = 1 THEN 0 ELSE target[i - 1]
  BY <1>1, <1>2
<1>6. Held(other) = [i \in 1..n + 1 |-> IF i = 1 THEN 0 ELSE target[i - 1]]
  BY <1>4, <1>5
<1> QED
  BY <1>6 DEF n, other, target

(* No strategy looks ahead, whatever the bars.                             *)
LEMMA NobodyLooksAhead ==
  ASSUME NEW strategy \in Strategies, NEW series \in Seq(Readings)
  PROVE  LET next == {Held(Targets(strategy, Append(series, v))) : v \in Readings}
         IN Cardinality(next) = 1 /\ \A h \in next : Front(h) = Held(Targets(strategy, series))
<1> DEFINE next == {Held(Targets(strategy, Append(series, v))) : v \in Readings}
           n == Len(series)
           target == Targets(strategy, series)
           same == [i \in 1..n + 1 |-> IF i = 1 THEN 0 ELSE target[i - 1]]
<1>1. /\ series \in Seq(Values) /\ n \in Nat /\ Readings # {}
      /\ \A v \in Readings : v \in Values
  <2>1. Readings \subseteq Values /\ Readings # {}
    BY JobsAssumption DEF Values
  <2> QED
    BY <2>1
<1>2. \A v \in Readings : Held(Targets(strategy, Append(series, v))) = same
  BY <1>1, LooksBack
<1>3. target \in Seq(Sides) /\ Len(target) = n
  BY <1>1, TargetsAre
<1> HIDE DEF target, n
<1>4. next = {same}
  <2> HIDE DEF same
  <2> QED
    BY <1>1, <1>2
<1>5. Cardinality(next) = 1
  <2> HIDE DEF next, same
  <2> QED
    BY <1>4, FS_Singleton
<1>6. same \in Seq(Sides) /\ Len(same) = n + 1
  <2>1. \A i \in 1..n + 1 : (IF i = 1 THEN 0 ELSE target[i - 1]) \in Sides
    BY <1>1, <1>3 DEF Sides
  <2> QED
    BY <1>1, <2>1
<1>7. Front(same) = Held(target)
  <2>1. Front(same) \in Seq(Sides) /\ Len(Front(same)) = n /\ \A i \in 1..n : Front(same)[i] = same[i]
    <3> HIDE DEF same
    <3> QED
      BY <1>1, <1>6 DEF Front
  <2>2. \A i \in 1..n : same[i] = IF i = 1 THEN 0 ELSE target[i - 1]
    BY <1>1
  <2>3. /\ Held(target) \in Seq(Sides) /\ Len(Held(target)) = n
        /\ \A i \in 1..n : Held(target)[i] = IF i = 1 THEN 0 ELSE target[i - 1]
    BY <1>3, HeldIs
  <2> HIDE DEF same
  <2>4. \A i \in 1..n : Front(same)[i] = Held(target)[i]
    BY <2>1, <2>2, <2>3
  <2> QED
    BY <2>1, <2>3, <2>4
<1> QED
  BY <1>4, <1>5, <1>7 DEF target

-----------------------------------------------------------------------------
(* Trades                                                                  *)

Trades == [entry : Nat, exit : Nat, side : Sides]
Currents == [side : Sides, entry : Nat]
Tradings == [trades : Seq(Trades), current : Currents]

NoTrades == [trades |-> <<>>, current |-> None]
EndedTrades(end, n) ==
  IF end.current = None THEN end.trades ELSE Append(end.trades, Trade(end.current, n))

(* One bar more leaves a list of trades and an open one or none.           *)
LEMMA TradedType ==
  ASSUME NEW was \in Tradings, NEW held \in Seq(Sides), NEW i \in 1..Len(held)
  PROVE  Traded(was, held, i) \in Tradings
<1>1. was.trades \in Seq(Trades) /\ was.current \in Currents
  BY DEF Tradings
<1>2. held[i] \in Sides /\ i \in Nat
  OBVIOUS
<1>3. Trade(was.current, i) \in Trades
  BY <1>1, <1>2 DEF Trade, Trades, Currents
<1>4. Reopened(was.current, held[i], i) \in Currents
  BY <1>2 DEF Reopened, Currents, None, Sides
<1>5. Append(was.trades, Trade(was.current, i)) \in Seq(Trades)
  BY <1>1, <1>3
<1> QED
  BY <1>1, <1>4, <1>5 DEF Traded, Tradings

(* The pass that makes the trades.                                         *)
TradedUpTo(after, held) ==
  after = [i \in 0..Len(held) |->
             IF i = 0 THEN [trades |-> <<>>, current |-> None] ELSE Traded(after[i - 1], held, i)]
(* It exists, and with the trade still open it is what ExtractTrades returns.*)
LEMMA TradedExists ==
  ASSUME NEW held \in Seq(Sides)
  PROVE  \E after : /\ TradedUpTo(after, held)
                    /\ ExtractTrades(held) = EndedTrades(after[Len(held)], Len(held))
<1> DEFINE n == Len(held)
           step == [was \in Tradings |-> [i \in 1..n |-> Traded(was, held, i)]]
<1>1. NoTrades \in Tradings /\ n \in Nat
  <2>1. None \in Currents /\ <<>> \in Seq(Trades)
    BY DEF None, Currents, Sides
  <2> QED
    BY <2>1 DEF NoTrades, Tradings
<1>2. step \in [Tradings -> [1..n -> Tradings]]
  BY TradedType
<1>3. PICK f \in [0..n -> Tradings] : Passes(f, NoTrades, step, n)
  <2> HIDE DEF step, n
  <2> QED
    BY <1>1, <1>2, PassExists
<1>4. ASSUME NEW i \in 0..n
      PROVE  f[i] = IF i = 0 THEN NoTrades ELSE Traded(f[i - 1], held, i)
  <2>1. CASE i = 0
    BY <1>3, <2>1 DEF Passes
  <2>2. CASE i # 0
    <3>1. f[i] = step[f[i - 1]][i]
      <4> HIDE DEF step
      <4> QED
        BY <1>3, <2>2 DEF Passes
    <3>2. f[i - 1] \in Tradings /\ i \in 1..n
      BY <1>1, <2>2
    <3> QED
      BY <2>2, <3>1, <3>2
  <2> QED
    BY <2>1, <2>2
<1>5. TradedUpTo(f, held)
  BY <1>4 DEF TradedUpTo, NoTrades
<1>6. \E after : TradedUpTo(after, held)
  BY <1>5
<1> QED
  BY <1>6 DEF ExtractTrades, EndedTrades, TradedUpTo

(* One trade ends before the next begins, or when it begins on the other   *)
(* side.                                                                   *)
InTurn(one, next) == one.exit < next.entry \/ (one.exit = next.entry /\ one.side # next.side)

(* What the trades made up to bar i have to do with the position.          *)
ClosedRight(trades, held, i) ==
  /\ \A t \in 1..Len(trades) :
       /\ 1 <= trades[t].entry /\ trades[t].entry < trades[t].exit /\ trades[t].exit <= i
       /\ trades[t].side # 0
       /\ \A j \in trades[t].entry..trades[t].exit - 1 : held[j] = trades[t].side
  /\ \A t \in 2..Len(trades) : InTurn(trades[t - 1], trades[t])
OpenRight(trades, current, held, i) ==
  /\ current = None => i = 0 \/ held[i] = 0
  /\ current # None =>
       /\ 1 <= current.entry /\ current.entry <= i /\ current.side # 0
       /\ \A j \in current.entry..i : held[j] = current.side
       /\ Len(trades) > 0 => InTurn(trades[Len(trades)], current)
AllTraded(trades, current, held, i) ==
  \A j \in 1..i : held[j] # 0 =>
    \/ \E t \in 1..Len(trades) : trades[t].entry <= j /\ j < trades[t].exit
    \/ current # None /\ current.entry <= j
TradesRight(acc, held, i) ==
  /\ acc \in Tradings
  /\ ClosedRight(acc.trades, held, i)
  /\ OpenRight(acc.trades, acc.current, held, i)
  /\ AllTraded(acc.trades, acc.current, held, i)

(* One bar more.                                                           *)
LEMMA TradesStayRight ==
  ASSUME NEW held \in Seq(Sides), NEW i \in 1..Len(held), NEW was, TradesRight(was, held, i - 1)
  PROVE  TradesRight(Traded(was, held, i), held, i)
<1> DEFINE acc == Traded(was, held, i)
           ts == was.trades
           c == was.current
           closed == Trade(c, i)
<1>1. /\ was \in Tradings /\ ts \in Seq(Trades) /\ c \in Currents /\ Len(ts) \in Nat
      /\ ClosedRight(ts, held, i - 1) /\ OpenRight(ts, c, held, i - 1)
      /\ AllTraded(ts, c, held, i - 1)
  BY DEF TradesRight, Tradings
<1>2. acc \in Tradings
  BY <1>1, TradedType
<1>3. /\ i \in Nat /\ i >= 1 /\ i - 1 \in Nat
      /\ held[i] \in Sides /\ \A j \in 1..i : held[j] \in Sides
      /\ c.entry \in Nat /\ c.side \in Sides
      /\ \A t \in 1..Len(ts) : ts[t].entry \in Nat /\ ts[t].exit \in Nat
  <2>1. \A t \in 1..Len(ts) : ts[t] \in Trades
    BY <1>1
  <2> QED
    BY <1>1, <2>1 DEF Currents, Trades
<1>4. Before(held, i) = IF i = 1 THEN 0 ELSE held[i - 1]
  BY DEF Before
<1>5. ClosedRight(ts, held, i)
  <2> HIDE DEF ts
  <2>1. \A t \in 1..Len(ts) : ts[t].exit <= i
    BY <1>1, <1>3 DEF ClosedRight
  <2> QED
    BY <1>1, <2>1 DEF ClosedRight
<1> HIDE DEF ts, c
<1>6. CASE held[i] = Before(held, i)
  <2>1. acc = was
    BY <1>6 DEF Traded
  <2>2. OpenRight(ts, c, held, i)
    <3>1. CASE c = None
      BY <1>1, <1>3, <1>4, <1>6, <3>1 DEF OpenRight
    <3>2. CASE c # None
      <4>1. /\ 1 <= c.entry /\ c.entry <= i - 1 /\ c.side # 0
            /\ \A j \in c.entry..i - 1 : held[j] = c.side
            /\ Len(ts) > 0 => InTurn(ts[Len(ts)], c)
        BY <1>1, <3>2 DEF OpenRight
      <4>2. held[i] = c.side
        BY <1>3, <1>4, <1>6, <4>1
      <4>3. \A j \in c.entry..i : held[j] = c.side
        BY <1>3, <4>1, <4>2
      <4> QED
        BY <1>3, <3>2, <4>1, <4>3 DEF OpenRight
    <3> QED
      BY <3>1, <3>2
  <2>3. AllTraded(ts, c, held, i)
    <3>1. held[i] # 0 => c # None /\ c.entry <= i
      BY <1>3, <2>2 DEF OpenRight
    <3> QED
      BY <1>1, <1>3, <3>1 DEF AllTraded
  <2> QED
    BY <1>1, <1>5, <2>1, <2>2, <2>3 DEF TradesRight, ts, c
<1>7. CASE held[i] # Before(held, i) /\ c = None
  <2> DEFINE opened == [side |-> held[i], entry |-> i]
  <2>1. held[i] # 0
    BY <1>1, <1>3, <1>4, <1>7 DEF OpenRight
  <2>2. acc = [trades |-> ts, current |-> opened]
    BY <1>7, <2>1 DEF Traded, Reopened, ts, c
  <2>3. opened.side = held[i] /\ opened.entry = i /\ opened # None
    BY <2>1 DEF None
  <2> HIDE DEF opened
  <2>4. OpenRight(ts, opened, held, i)
    <3>1. ASSUME Len(ts) > 0 PROVE InTurn(ts[Len(ts)], opened)
      <4>1. ts[Len(ts)].exit <= i - 1 /\ Len(ts) \in 1..Len(ts)
        BY <1>1, <3>1 DEF ClosedRight
      <4> QED
        BY <1>3, <2>3, <4>1 DEF InTurn
    <3>2. \A j \in opened.entry..i : held[j] = opened.side
      BY <1>3, <2>3
    <3> QED
      BY <1>3, <2>1, <2>3, <3>1, <3>2 DEF OpenRight
  <2>5. AllTraded(ts, opened, held, i)
    BY <1>1, <1>3, <1>7, <2>3 DEF AllTraded
  <2>6. TradesRight(acc, held, i)
    <3> HIDE DEF acc
    <3> QED
      BY <1>2, <1>5, <2>2, <2>4, <2>5 DEF TradesRight
  <2> QED
    BY <2>6
<1>8. CASE held[i] # Before(held, i) /\ c # None
  <2> DEFINE more == Append(ts, closed)
             next == Reopened(c, held[i], i)
  <2>1. /\ 1 <= c.entry /\ c.entry <= i - 1 /\ c.side # 0
        /\ \A j \in c.entry..i - 1 : held[j] = c.side
        /\ Len(ts) > 0 => InTurn(ts[Len(ts)], c)
    BY <1>1, <1>8 DEF OpenRight
  <2>2. acc = [trades |-> more, current |-> next]
    BY <1>8 DEF Traded, ts, c
  <2>3. closed.entry = c.entry /\ closed.exit = i /\ closed.side = c.side
    BY DEF Trade
  <2>4. c.side # held[i]
    BY <1>3, <1>4, <1>8, <2>1
  <2> HIDE DEF closed
  <2>5. closed \in Trades
    BY <1>1, <1>3 DEF closed, Trade, Trades
  <2>6. /\ Len(more) = Len(ts) + 1 /\ more[Len(ts) + 1] = closed
        /\ \A t \in 1..Len(ts) : more[t] = ts[t]
    BY <1>1, <2>5
  <2> HIDE DEF more
  <2>7. ClosedRight(more, held, i)
    <3>1. ASSUME NEW t \in 1..Len(more)
          PROVE  /\ 1 <= more[t].entry /\ more[t].entry < more[t].exit /\ more[t].exit <= i
                 /\ more[t].side # 0
                 /\ \A j \in more[t].entry..more[t].exit - 1 : held[j] = more[t].side
      <4>1. CASE t = Len(ts) + 1
        BY <1>3, <2>1, <2>3, <2>6, <4>1
      <4>2. CASE t \in 1..Len(ts)
        BY <1>5, <2>6, <4>2 DEF ClosedRight
      <4> QED
        BY <1>1, <2>6, <4>1, <4>2
    <3>2. ASSUME NEW t \in 2..Len(more) PROVE InTurn(more[t - 1], more[t])
      <4>1. CASE t = Len(ts) + 1
        <5>1. more[t - 1] = ts[Len(ts)] /\ Len(ts) > 0 /\ more[t] = closed
          BY <1>1, <2>6, <4>1
        <5> QED
          BY <2>1, <2>3, <5>1 DEF InTurn
      <4>2. CASE t \in 2..Len(ts)
        <5>1. more[t - 1] = ts[t - 1] /\ more[t] = ts[t]
          BY <1>1, <2>6, <4>2
        <5> QED
          BY <1>5, <4>2, <5>1 DEF ClosedRight
      <4> QED
        BY <1>1, <2>6, <4>1, <4>2
    <3> QED
      BY <3>1, <3>2 DEF ClosedRight
  <2>8. OpenRight(more, next, held, i)
    <3>1. CASE held[i] = 0
      <4>1. next = None
        BY <3>1 DEF Reopened
      <4> QED
        BY <3>1, <4>1 DEF OpenRight
    <3>2. CASE held[i] # 0
      <4>1. next.side = held[i] /\ next.entry = i
        BY <3>2 DEF Reopened
      <4>2. \A j \in next.entry..i : held[j] = next.side
        BY <1>3, <4>1
      <4>3. InTurn(more[Len(more)], next)
        BY <2>3, <2>4, <2>6, <4>1 DEF InTurn
      <4> HIDE DEF next
      <4> QED
        BY <1>3, <3>2, <4>1, <4>2, <4>3 DEF OpenRight, None
    <3> QED
      BY <3>1, <3>2
  <2>9. AllTraded(more, next, held, i)
    <3>1. ASSUME NEW j \in 1..i, held[j] # 0
          PROVE  \/ \E t \in 1..Len(more) : more[t].entry <= j /\ j < more[t].exit
                 \/ next # None /\ next.entry <= j
      <4>1. CASE j = i
        BY <1>3, <3>1, <4>1 DEF Reopened, None
      <4>2. CASE j \in 1..i - 1 /\ c.entry <= j
        <5>1. Len(ts) + 1 \in 1..Len(more)
          BY <1>1, <2>6
        <5> QED
          BY <1>3, <2>3, <2>6, <4>2, <5>1
      <4>3. CASE j \in 1..i - 1 /\ ~(c.entry <= j)
        <5>1. PICK t \in 1..Len(ts) : ts[t].entry <= j /\ j < ts[t].exit
          BY <1>1, <3>1, <4>3 DEF AllTraded
        <5>2. t \in 1..Len(more) /\ more[t] = ts[t]
          BY <1>1, <2>6
        <5> QED
          BY <5>1, <5>2
      <4> QED
        BY <1>3, <4>1, <4>2, <4>3
    <3> QED
      BY <3>1 DEF AllTraded
  <2>10. TradesRight(acc, held, i)
    <3> HIDE DEF acc, next
    <3> QED
      BY <1>2, <2>2, <2>7, <2>8, <2>9 DEF TradesRight
  <2> QED
    BY <2>10
<1> QED
  BY <1>6, <1>7, <1>8

(* What is held before a bar is what the open trade says.                  *)
LEMMA OpenIsHeld ==
  ASSUME NEW held \in Seq(Sides), NEW i \in 1..Len(held), NEW was, TradesRight(was, held, i - 1)
  PROVE  /\ was.current = None => Before(held, i) = 0
         /\ was.current # None => Before(held, i) = was.current.side /\ was.current.side \in {-1, 1}
<1> DEFINE c == was.current
<1>1. OpenRight(was.trades, c, held, i - 1) /\ c.side \in Sides /\ i \in Nat
  BY DEF TradesRight, Tradings, Currents
<1>2. Before(held, i) = IF i = 1 THEN 0 ELSE held[i - 1]
  BY DEF Before
<1> HIDE DEF c
<1>3. CASE c = None
  BY <1>1, <1>2, <1>3 DEF OpenRight, c
<1>4. CASE c # None
  <2>1. /\ c.entry <= i - 1 /\ c.side # 0 /\ 1 <= c.entry
        /\ \A j \in c.entry..i - 1 : held[j] = c.side
    BY <1>1, <1>4 DEF OpenRight
  <2>2. c.entry \in Nat
    BY DEF TradesRight, Tradings, Currents, c
  <2>3. held[i - 1] = c.side
    BY <1>1, <2>1, <2>2
  <2> QED
    BY <1>1, <1>2, <1>4, <2>1, <2>2, <2>3 DEF Sides, c
<1> QED
  BY <1>3, <1>4 DEF c

(* What trades cost: two sides, and one for the trade that is open.        *)
Sided(acc) == 2 * Len(acc.trades) + (IF acc.current = None THEN 0 ELSE 1)

(* One bar more: what is spent are two sides of every trade, and one of the*)
(* open one.                                                               *)
LEMMA TradesCost ==
  ASSUME NEW held \in Seq(Sides), NEW i \in 1..Len(held), NEW was, TradesRight(was, held, i - 1)
  PROVE  /\ Sided(was) \in Int
         /\ Sided(Traded(was, held, i)) = Sided(was) + Abs(held[i] - Before(held, i))
<1> DEFINE ts == was.trades
           c == was.current
           side == held[i]
           closed == Trade(c, i)
<1>1. /\ ts \in Seq(Trades) /\ Len(ts) \in Nat /\ side \in Sides /\ i \in Nat \ {0}
      /\ c \in Currents
  BY DEF TradesRight, Tradings
<1>2. /\ c = None => Before(held, i) = 0
      /\ c # None => Before(held, i) = c.side /\ c.side \in {-1, 1}
  BY OpenIsHeld
<1>3. [side |-> side, entry |-> i] # None
  <2>1. None.entry = 0
    BY DEF None
  <2> QED
    BY <1>1, <2>1
<1>4. closed \in Trades
  BY <1>1 DEF Trade, Trades, Currents
<1>5. Len(Append(ts, closed)) = Len(ts) + 1
  BY <1>1, <1>4
<1>6. Traded(was, held, i) =
        IF side = Before(held, i) THEN was
        ELSE [trades |-> IF c = None THEN ts ELSE Append(ts, closed),
              current |-> IF side # 0 THEN [side |-> side, entry |-> i] ELSE None]
  BY DEF Traded, Reopened
<1>7. Sided(was) = 2 * Len(ts) + (IF c = None THEN 0 ELSE 1)
  BY DEF Sided
<1> HIDE DEF ts, c, side, closed
<1>8. CASE side = Before(held, i)
  <2>1. Abs(side - Before(held, i)) = 0
    BY <1>1, <1>8 DEF Abs, Sides
  <2> QED
    BY <1>1, <1>6, <1>7, <1>8, <2>1 DEF side
<1>9. CASE side # Before(held, i) /\ c = None
  <2>1. Sided(Traded(was, held, i)) = 2 * Len(ts) + 1
    BY <1>2, <1>3, <1>6, <1>9 DEF Sided
  <2>2. Abs(side - Before(held, i)) = 1
    BY <1>1, <1>2, <1>9 DEF Abs, Sides
  <2> QED
    BY <1>1, <1>7, <1>9, <2>1, <2>2 DEF side
<1>10. CASE side # Before(held, i) /\ c # None
  <2>1. Sided(Traded(was, held, i)) = 2 * (Len(ts) + 1) + (IF side = 0 THEN 0 ELSE 1)
    BY <1>3, <1>5, <1>6, <1>10 DEF Sided
  <2>2. Abs(side - Before(held, i)) = IF side = 0 THEN 1 ELSE 2
    BY <1>1, <1>2, <1>10 DEF Abs, Sides
  <2> QED
    BY <1>1, <1>7, <1>10, <2>1, <2>2 DEF side
<1> QED
  BY <1>8, <1>9, <1>10

(* The pass that adds up the changes.                                      *)
SpentUpTo(spent, held) ==
  spent = [i \in 0..Len(held) |->
             IF i = 0 THEN 0 ELSE spent[i - 1] + Abs(held[i] - Before(held, i))]
(* It exists, and its value at the last bar is the turnover.               *)
LEMMA SpentExists ==
  ASSUME NEW held \in Seq(Sides)
  PROVE  \E spent : SpentUpTo(spent, held) /\ Turnover(held) = spent[Len(held)]
<1> DEFINE n == Len(held)
           step == [x \in Int |-> [i \in 1..n |-> x + Abs(held[i] - Before(held, i))]]
<1>1. n \in Nat /\ 0 \in Int
  OBVIOUS
<1>2. ASSUME NEW i \in 1..n PROVE Abs(held[i] - Before(held, i)) \in Int
  <2>1. held[i] \in Int
    BY DEF Sides
  <2>2. Before(held, i) \in Int
    <3>1. CASE i = 1
      BY <3>1 DEF Before
    <3>2. CASE i # 1
      <4>1. i - 1 \in 1..n
        BY <3>2
      <4>2. held[i - 1] \in Sides
        BY <4>1
      <4> QED
        BY <3>2, <4>2 DEF Before, Sides
    <3> QED
      BY <3>1, <3>2
  <2> QED
    BY <2>1, <2>2 DEF Abs
<1>3. step \in [Int -> [1..n -> Int]]
  BY <1>2
<1>4. PICK f \in [0..n -> Int] : Passes(f, 0, step, n)
  <2> HIDE DEF step, n
  <2> QED
    BY <1>1, <1>3, PassExists
<1>5. ASSUME NEW i \in 0..n
      PROVE  f[i] = IF i = 0 THEN 0 ELSE f[i - 1] + Abs(held[i] - Before(held, i))
  <2>1. CASE i = 0
    BY <1>4, <2>1 DEF Passes
  <2>2. CASE i # 0
    <3>1. f[i] = step[f[i - 1]][i]
      <4> HIDE DEF step
      <4> QED
        BY <1>4, <2>2 DEF Passes
    <3>2. f[i - 1] \in Int /\ i \in 1..n
      BY <1>1, <2>2
    <3> QED
      BY <2>2, <3>1, <3>2
  <2> QED
    BY <2>1, <2>2
<1>6. SpentUpTo(f, held)
  BY <1>5 DEF SpentUpTo
<1>7. \E spent : SpentUpTo(spent, held)
  BY <1>6
<1> QED
  BY <1>7 DEF Turnover, SpentUpTo

(* What the passes come to.                                                *)
LEMMA TradesAre ==
  ASSUME NEW held \in Seq(Sides)
  PROVE  \E end : /\ TradesRight(end, held, Len(held))
                  /\ ExtractTrades(held) = EndedTrades(end, Len(held))
                  /\ Turnover(held) = Sided(end)
<1> DEFINE n == Len(held)
<1>1. PICK after : TradedUpTo(after, held) /\ ExtractTrades(held) = EndedTrades(after[n], n)
  BY TradedExists
<1>2. PICK spent : SpentUpTo(spent, held) /\ Turnover(held) = spent[n]
  BY SpentExists
<1> DEFINE Good == {i \in 0..n : TradesRight(after[i], held, i) /\ spent[i] = Sided(after[i])}
<1>3. n \in Nat
  OBVIOUS
<1>4. 0 \in Good
  <2>1. after[0] = NoTrades /\ spent[0] = 0
    BY <1>1, <1>2, <1>3 DEF TradedUpTo, SpentUpTo, NoTrades
  <2>2. NoTrades \in Tradings
    <3>1. None \in Currents /\ <<>> \in Seq(Trades)
      BY DEF None, Currents, Sides
    <3> QED
      BY <3>1 DEF NoTrades, Tradings
  <2>3. NoTrades.trades = <<>> /\ NoTrades.current = None /\ Len(<<>>) = 0
    BY DEF NoTrades
  <2>4. TradesRight(NoTrades, held, 0)
    BY <2>2, <2>3 DEF TradesRight, ClosedRight, OpenRight, AllTraded
  <2>5. Sided(NoTrades) = 0
    BY <2>3 DEF Sided
  <2> QED
    BY <1>3, <2>1, <2>4, <2>5
<1>5. ASSUME NEW i \in 1..n, i - 1 \in Good PROVE i \in Good
  <2>1. i \in 0..n /\ i # 0
    BY <1>3
  <2>2. after[i] = Traded(after[i - 1], held, i)
    BY <1>1, <2>1 DEF TradedUpTo
  <2>3. spent[i] = spent[i - 1] + Abs(held[i] - Before(held, i))
    BY <1>2, <2>1 DEF SpentUpTo
  <2>4. TradesRight(after[i - 1], held, i - 1) /\ spent[i - 1] = Sided(after[i - 1])
    BY <1>5
  <2>5. TradesRight(after[i], held, i)
    BY <2>2, <2>4, TradesStayRight
  <2>6. spent[i] = Sided(after[i])
    BY <2>2, <2>3, <2>4, TradesCost
  <2> QED
    BY <2>1, <2>5, <2>6
<1>6. n \in Good
  <2> HIDE DEF Good, n
  <2>1. 0..n \subseteq Good
    BY <1>3, <1>4, <1>5, HoldsUpTo
  <2> QED
    BY <1>3, <2>1
<1> QED
  BY <1>1, <1>2, <1>6

(* What the list of trades has to do with the position.                    *)
LEMMA ListIsRight ==
  ASSUME NEW held \in Seq(Sides)
  PROVE  LET trades == ExtractTrades(held)
             n == Len(held)
         IN /\ trades \in Seq(Trades)
            /\ \A t \in 1..Len(trades) :
                 /\ 1 <= trades[t].entry /\ trades[t].exit <= n /\ trades[t].side # 0
                 /\ \A j \in trades[t].entry..trades[t].exit - 1 : held[j] = trades[t].side
            /\ \A t \in 2..Len(trades) : InTurn(trades[t - 1], trades[t])
            /\ \A j \in 1..n - 1 : held[j] # 0 =>
                 \E t \in 1..Len(trades) : trades[t].entry <= j /\ j < trades[t].exit
            /\ n > 0 /\ held[n] # 0 =>
                 /\ Len(trades) > 0 /\ trades[Len(trades)].exit = n
                 /\ trades[Len(trades)].side = held[n]
            /\ n > 0 => Turnover(held) = 2 * Len(trades) - (IF held[n] = 0 THEN 0 ELSE 1)
<1> DEFINE n == Len(held)
<1>1. PICK end : /\ TradesRight(end, held, n) /\ ExtractTrades(held) = EndedTrades(end, n)
                 /\ Turnover(held) = Sided(end)
  BY TradesAre
<1> DEFINE ts == end.trades
           c == end.current
           closed == Trade(c, n)
           trades == EndedTrades(end, n)
<1>2. /\ n \in Nat /\ ts \in Seq(Trades) /\ Len(ts) \in Nat /\ c \in Currents
      /\ ClosedRight(ts, held, n) /\ OpenRight(ts, c, held, n) /\ AllTraded(ts, c, held, n)
  BY <1>1 DEF TradesRight, Tradings
<1>3. /\ c.entry \in Nat /\ c.side \in Sides
      /\ \A t \in 1..Len(ts) : ts[t].entry \in Nat /\ ts[t].exit \in Nat
  <2>1. \A t \in 1..Len(ts) : ts[t] \in Trades
    BY <1>2
  <2> QED
    BY <1>2, <2>1 DEF Currents, Trades
<1>4. trades = IF c = None THEN ts ELSE Append(ts, closed)
  BY DEF EndedTrades
<1>5. Sided(end) = 2 * Len(ts) + (IF c = None THEN 0 ELSE 1)
  BY DEF Sided
<1> SUFFICES
      /\ trades \in Seq(Trades)
      /\ \A t \in 1..Len(trades) :
           /\ 1 <= trades[t].entry /\ trades[t].exit <= n /\ trades[t].side # 0
           /\ \A j \in trades[t].entry..trades[t].exit - 1 : held[j] = trades[t].side
      /\ \A t \in 2..Len(trades) : InTurn(trades[t - 1], trades[t])
      /\ \A j \in 1..n - 1 : held[j] # 0 =>
           \E t \in 1..Len(trades) : trades[t].entry <= j /\ j < trades[t].exit
      /\ n > 0 /\ held[n] # 0 =>
           /\ Len(trades) > 0 /\ trades[Len(trades)].exit = n
           /\ trades[Len(trades)].side = held[n]
      /\ n > 0 => Sided(end) = 2 * Len(trades) - (IF held[n] = 0 THEN 0 ELSE 1)
  BY <1>1
<1> HIDE DEF ts, c, closed, trades, n
<1>6. CASE c = None
  <2>1. trades = ts
    BY <1>4, <1>6
  <2>2. n > 0 => held[n] = 0
    BY <1>2, <1>6 DEF OpenRight
  <2>3. \A t \in 1..Len(ts) :
          /\ 1 <= ts[t].entry /\ ts[t].exit <= n /\ ts[t].side # 0
          /\ \A j \in ts[t].entry..ts[t].exit - 1 : held[j] = ts[t].side
    BY <1>2 DEF ClosedRight
  <2>4. \A t \in 2..Len(ts) : InTurn(ts[t - 1], ts[t])
    BY <1>2 DEF ClosedRight
  <2>5. \A j \in 1..n - 1 : held[j] # 0 =>
          \E t \in 1..Len(ts) : ts[t].entry <= j /\ j < ts[t].exit
    BY <1>2, <1>6 DEF AllTraded
  <2>6. n > 0 => Sided(end) = 2 * Len(trades) - (IF held[n] = 0 THEN 0 ELSE 1)
    BY <1>2, <1>5, <1>6, <2>1, <2>2
  <2>7. trades \in Seq(Trades)
    BY <1>2, <2>1
  <2>8. /\ \A t \in 1..Len(trades) :
             /\ 1 <= trades[t].entry /\ trades[t].exit <= n /\ trades[t].side # 0
             /\ \A j \in trades[t].entry..trades[t].exit - 1 : held[j] = trades[t].side
        /\ \A t \in 2..Len(trades) : InTurn(trades[t - 1], trades[t])
        /\ \A j \in 1..n - 1 : held[j] # 0 =>
             \E t \in 1..Len(trades) : trades[t].entry <= j /\ j < trades[t].exit
    BY <2>1, <2>3, <2>4, <2>5
  <2> QED
    BY ONLY <2>2, <2>6, <2>7, <2>8
<1>7. CASE c # None
  <2>1. /\ 1 <= c.entry /\ c.entry <= n /\ c.side # 0
        /\ \A j \in c.entry..n : held[j] = c.side
        /\ Len(ts) > 0 => InTurn(ts[Len(ts)], c)
    BY <1>2, <1>7 DEF OpenRight
  <2>2. closed.entry = c.entry /\ closed.exit = n /\ closed.side = c.side
    BY DEF Trade, closed
  <2>3. closed \in Trades
    BY <1>2, <1>3 DEF closed, Trade, Trades
  <2>4. /\ trades \in Seq(Trades) /\ Len(trades) = Len(ts) + 1 /\ trades[Len(ts) + 1] = closed
        /\ \A t \in 1..Len(ts) : trades[t] = ts[t]
    BY <1>2, <1>4, <1>7, <2>3
  <2>5. ASSUME NEW t \in 1..Len(trades)
        PROVE  /\ 1 <= trades[t].entry /\ trades[t].exit <= n /\ trades[t].side # 0
               /\ \A j \in trades[t].entry..trades[t].exit - 1 : held[j] = trades[t].side
    <3>1. CASE t = Len(ts) + 1
      BY <1>2, <1>3, <2>1, <2>2, <2>4, <3>1
    <3>2. CASE t \in 1..Len(ts)
      BY <1>2, <2>4, <3>2 DEF ClosedRight
    <3> QED
      BY <1>2, <2>4, <3>1, <3>2
  <2>6. ASSUME NEW t \in 2..Len(trades) PROVE InTurn(trades[t - 1], trades[t])
    <3>1. CASE t = Len(ts) + 1
      <4>1. trades[t - 1] = ts[Len(ts)] /\ Len(ts) > 0 /\ trades[t] = closed
        BY <1>2, <2>4, <3>1
      <4> QED
        BY <2>1, <2>2, <4>1 DEF InTurn
    <3>2. CASE t \in 2..Len(ts)
      <4>1. trades[t - 1] = ts[t - 1] /\ trades[t] = ts[t]
        BY <1>2, <2>4, <3>2
      <4> QED
        BY <1>2, <3>2, <4>1 DEF ClosedRight
    <3> QED
      BY <1>2, <2>4, <3>1, <3>2
  <2>7. ASSUME NEW j \in 1..n - 1, held[j] # 0
        PROVE  \E t \in 1..Len(trades) : trades[t].entry <= j /\ j < trades[t].exit
    <3>1. CASE c.entry <= j
      <4>1. Len(ts) + 1 \in 1..Len(trades) /\ j < n
        BY <1>2, <2>4
      <4> QED
        BY <2>2, <2>4, <3>1, <4>1
    <3>2. CASE ~(c.entry <= j)
      <4>1. PICK t \in 1..Len(ts) : ts[t].entry <= j /\ j < ts[t].exit
        BY <1>2, <2>7, <3>2 DEF AllTraded
      <4>2. t \in 1..Len(trades) /\ trades[t] = ts[t]
        BY <1>2, <2>4
      <4> QED
        BY <4>1, <4>2
    <3> QED
      BY <3>1, <3>2
  <2>8. held[n] = c.side /\ held[n] # 0
    BY <1>2, <1>3, <2>1
  <2>9. Sided(end) = 2 * Len(trades) - 1
    BY <1>2, <1>5, <1>7, <2>4
  <2>10. /\ Len(trades) > 0 /\ trades[Len(trades)].exit = n
         /\ trades[Len(trades)].side = held[n]
    BY <1>2, <2>2, <2>4, <2>8
  <2>11. Sided(end) = 2 * Len(trades) - (IF held[n] = 0 THEN 0 ELSE 1)
    BY <2>8, <2>9
  <2>12. trades \in Seq(Trades)
    BY <2>4
  <2>13. \A t \in 1..Len(trades) :
           /\ 1 <= trades[t].entry /\ trades[t].exit <= n /\ trades[t].side # 0
           /\ \A j \in trades[t].entry..trades[t].exit - 1 : held[j] = trades[t].side
    BY <2>5
  <2>14. \A t \in 2..Len(trades) : InTurn(trades[t - 1], trades[t])
    BY <2>6
  <2>15. \A j \in 1..n - 1 : held[j] # 0 =>
           \E t \in 1..Len(trades) : trades[t].entry <= j /\ j < trades[t].exit
    BY <2>7
  <2> QED
    BY ONLY <2>10, <2>11, <2>12, <2>13, <2>14, <2>15
<1> QED
  BY <1>6, <1>7

(* The trades trail the position by one bar, whatever is wanted.           *)
LEMMA TradesTrail ==
  ASSUME NEW held \in Seq(Sides)
  PROVE  LET n == Len(held)
             trades == ExtractTrades(held)
             Earning(i) == {t \in DOMAIN trades : i \in Earns(trades[t])}
         IN /\ \A i \in 1..n : {trades[t].side : t \in Earning(i)} = {Before(held, i)} \ {0}
            /\ n > 0 /\ held[n] # 0 => trades # <<>> /\ Last(trades).exit = n /\ Last(trades).side = held[n]
            /\ \A t \in 2..Len(trades) :
                 \/ trades[t - 1].exit < trades[t].entry
                 \/ trades[t - 1].exit = trades[t].entry /\ trades[t - 1].side # trades[t].side
            /\ n > 0 => Turnover(held) = 2 * Len(trades) - (IF held[n] = 0 THEN 0 ELSE 1)
<1> DEFINE n == Len(held)
           trades == ExtractTrades(held)
           Earning(i) == {t \in DOMAIN trades : i \in Earns(trades[t])}
<1>1. /\ trades \in Seq(Trades)
      /\ \A t \in 1..Len(trades) :
           /\ 1 <= trades[t].entry /\ trades[t].exit <= n /\ trades[t].side # 0
           /\ \A j \in trades[t].entry..trades[t].exit - 1 : held[j] = trades[t].side
      /\ \A t \in 2..Len(trades) : InTurn(trades[t - 1], trades[t])
      /\ \A j \in 1..n - 1 : held[j] # 0 =>
           \E t \in 1..Len(trades) : trades[t].entry <= j /\ j < trades[t].exit
      /\ n > 0 /\ held[n] # 0 =>
           /\ Len(trades) > 0 /\ trades[Len(trades)].exit = n
           /\ trades[Len(trades)].side = held[n]
      /\ n > 0 => Turnover(held) = 2 * Len(trades) - (IF held[n] = 0 THEN 0 ELSE 1)
  BY ListIsRight
<1>2. n \in Nat
  OBVIOUS
<1> HIDE DEF trades
<1>3. Len(trades) \in Nat /\ DOMAIN trades = 1..Len(trades)
  BY <1>1
<1>4. \A t \in 1..Len(trades) : trades[t].entry \in Nat /\ trades[t].exit \in Nat
  <2>1. \A t \in 1..Len(trades) : trades[t] \in Trades
    BY <1>1
  <2> QED
    BY <2>1 DEF Trades
<1> HIDE DEF n
<1>5. ASSUME NEW i \in 1..n
      PROVE  {trades[t].side : t \in Earning(i)} = {Before(held, i)} \ {0}
  <2>1. ASSUME NEW t \in Earning(i) PROVE trades[t].side = Before(held, i) /\ Before(held, i) # 0
    <3>1. t \in 1..Len(trades) /\ i \in trades[t].entry + 1..trades[t].exit
      BY <1>3 DEF Earns
    <3>2. i - 1 \in trades[t].entry..trades[t].exit - 1 /\ i # 1
      BY <1>1, <1>2, <1>4, <3>1
    <3>3. held[i - 1] = trades[t].side /\ trades[t].side # 0
      BY <1>1, <3>1, <3>2
    <3> QED
      BY <3>2, <3>3 DEF Before
  <2>2. ASSUME Before(held, i) # 0 PROVE \E t \in Earning(i) : TRUE
    <3>1. i # 1 /\ held[i - 1] # 0
      BY <2>2 DEF Before
    <3>2. i - 1 \in 1..n - 1
      BY <1>2, <3>1
    <3>3. PICK t \in 1..Len(trades) : trades[t].entry <= i - 1 /\ i - 1 < trades[t].exit
      BY <1>1, <3>1, <3>2
    <3>4. i \in trades[t].entry + 1..trades[t].exit
      BY <1>2, <1>4, <3>3
    <3> QED
      BY <1>3, <3>4 DEF Earns
  <2> HIDE DEF Earning
  <2>3. CASE Before(held, i) = 0
    BY <2>1, <2>3
  <2>4. CASE Before(held, i) # 0
    <3>1. PICK t \in Earning(i) : TRUE
      BY <2>2, <2>4
    <3>2. trades[t].side = Before(held, i)
      BY <2>1
    <3> QED
      BY <2>1, <2>4, <3>1, <3>2
  <2> QED
    BY <2>3, <2>4
<1>6. n > 0 /\ held[n] # 0 => trades # <<>> /\ Last(trades).exit = n /\ Last(trades).side = held[n]
  <2>1. trades = <<>> => Len(trades) = 0
    OBVIOUS
  <2> QED
    BY <1>1, <1>3, <2>1 DEF Last
<1>7. \A t \in 2..Len(trades) :
        \/ trades[t - 1].exit < trades[t].entry
        \/ trades[t - 1].exit = trades[t].entry /\ trades[t - 1].side # trades[t].side
  BY <1>1 DEF InTurn
<1> QED
  BY <1>1, <1>5, <1>6, <1>7 DEF n, trades

-----------------------------------------------------------------------------
(* The RSI strategy's holding limit                                        *)

(* A bar on which a position is held is fewer than MaxHold bars after its  *)
(* entry, and has counted one more than the bar before.                    *)
LEMMA RsiCounts ==
  ASSUME NEW was \in States, NEW v
  PROVE  LET now == Rsi(was, v)
         IN /\ now.wanted = now.holding
            /\ now.holding # 0 => now.held < MaxHold
            /\ now.holding # 0 /\ was.holding # 0 => now.held = was.held + 1
<1> DEFINE held == IF was.holding = 0 THEN 0 ELSE was.held + 1
           crossed == v # NoValue /\ Leaves(was.holding, v, 0)
           side == IF was.holding = 0 THEN IF v = NoValue THEN 0 ELSE Enters(v)
                   ELSE IF crossed \/ HeldTooLong(held) THEN 0 ELSE was.holding
<1>1. was.held \in Nat /\ MaxHold \in Nat \ {0} /\ DOMAIN was = {"holding", "held", "stop", "wanted"}
  BY BacktestAssumption DEF States
<1>2. Rsi(was, v) = [Holds(was, side) EXCEPT !.held = held]
  BY DEF Rsi
<1>3. side # 0 => held < MaxHold
  <2> HIDE DEF crossed
  <2>1. CASE was.holding = 0
    BY <1>1, <2>1
  <2>2. CASE was.holding # 0
    BY <1>1, <2>2 DEF HeldTooLong
  <2> QED
    BY <2>1, <2>2
<1>4. was.holding # 0 => held = was.held + 1
  OBVIOUS
<1> HIDE DEF side, held
<1>5. /\ Rsi(was, v).wanted = side /\ Rsi(was, v).holding = side /\ Rsi(was, v).held = held
  BY <1>1, <1>2 DEF Holds
<1> QED
  BY <1>3, <1>4, <1>5

(* No more than MaxHold bars in a row want a position.                     *)
LEMMA RsiRuns ==
  ASSUME NEW series \in Seq(Values), NEW j \in 1..Len(series), NEW k \in j..Len(series),
         \A m \in j..k : Targets("rsi_mr", series)[m] # 0
  PROVE  k - j < MaxHold
<1> DEFINE n == Len(series)
           wanted == Targets("rsi_mr", series)
           states == Decided("rsi_mr", series)
           Good == {i \in 0..n : i \in j..k => states[i + 1].held >= i - j}
<1>1. "rsi_mr" \in Strategies /\ n \in Nat
  BY DEF Strategies
<1>2. /\ states \in Seq(States) /\ Len(states) = n + 1
      /\ \A i \in 1..n : states[i + 1] = Decide("rsi_mr", states[i], series, i)
  BY <1>1, DecidedIs
<1>3. \A i \in 1..n : wanted[i] = states[i + 1].wanted
  BY <1>1, TargetsAre
<1>4. ASSUME NEW i \in 1..n
      PROVE  /\ states[i] \in States /\ states[i + 1] \in States
             /\ states[i + 1] = Rsi(states[i], series[i])
  BY <1>1, <1>2 DEF Decide
<1> HIDE DEF states, wanted
<1>5. ASSUME NEW i \in 1..n
      PROVE  /\ states[i + 1].held \in Nat
             /\ wanted[i] = states[i + 1].holding
             /\ states[i + 1].holding # 0 => states[i + 1].held < MaxHold
             /\ states[i + 1].holding # 0 /\ states[i].holding # 0 => states[i + 1].held = states[i].held + 1
  <2>1. states[i] \in States /\ states[i + 1] = Rsi(states[i], series[i])
    BY <1>4
  <2>2. states[i + 1].held \in Nat
    BY <1>4 DEF States
  <2>3. wanted[i] = states[i + 1].wanted
    BY <1>3
  <2> QED
    BY <2>1, <2>2, <2>3, RsiCounts
<1>6. 0 \in Good
  BY <1>1
<1>7. ASSUME NEW i \in 1..n, i - 1 \in Good PROVE i \in Good
  <2> SUFFICES ASSUME i \in j..k PROVE states[i + 1].held >= i - j
    OBVIOUS
  <2>1. wanted[i] # 0
    BY DEF wanted
  <2>2. CASE i = j
    BY <1>5, <2>2
  <2>3. CASE i > j
    <3>1. i - 1 \in j..k /\ i - 1 \in 1..n /\ (i - 1) + 1 = i
      BY <2>3
    <3>2. wanted[i - 1] # 0
      BY <3>1 DEF wanted
    <3>3. states[i].holding # 0 /\ states[i].held \in Nat
      BY <1>5, <3>1, <3>2
    <3>4. states[i].held >= i - 1 - j
      BY <1>7, <3>1
    <3>5. states[i + 1].held = states[i].held + 1
      BY <1>5, <2>1, <3>3
    <3> QED
      BY <3>3, <3>4, <3>5
  <2> QED
    BY <2>2, <2>3
<1>8. k \in Good
  <2>1. 0..n \subseteq Good
    <3> HIDE DEF Good
    <3> QED
      BY <1>1, <1>6, <1>7, HoldsUpTo
  <2> QED
    BY <1>1, <2>1
<1>9. wanted[k] # 0 /\ k \in 1..n /\ k \in j..k
  BY DEF wanted
<1> QED
  BY <1>5, <1>8, <1>9, BacktestAssumption

(* Nor does a trade last longer.                                           *)
LEMMA RsiTradesEnd ==
  ASSUME NEW series \in Seq(Values)
  PROVE  LET trades == ExtractTrades(Held(Targets("rsi_mr", series)))
         IN \A t \in DOMAIN trades : trades[t].exit - trades[t].entry <= MaxHold
<1> DEFINE n == Len(series)
           wanted == Targets("rsi_mr", series)
           held == Held(wanted)
           trades == ExtractTrades(held)
<1>1. "rsi_mr" \in Strategies /\ n \in Nat /\ MaxHold \in Nat
  BY BacktestAssumption DEF Strategies
<1>2. wanted \in Seq(Sides) /\ Len(wanted) = n
  BY <1>1, TargetsAre
<1>3. /\ held \in Seq(Sides) /\ Len(held) = n
      /\ \A i \in 1..n : held[i] = IF i = 1 THEN 0 ELSE wanted[i - 1]
  <2> HIDE DEF wanted
  <2> QED
    BY <1>2, HeldIs
<1>4. /\ trades \in Seq(Trades)
      /\ \A t \in 1..Len(trades) :
           /\ 1 <= trades[t].entry /\ trades[t].exit <= n /\ trades[t].side # 0
           /\ \A j \in trades[t].entry..trades[t].exit - 1 : held[j] = trades[t].side
  <2> HIDE DEF held, n
  <2> QED
    BY <1>3, ListIsRight
<1> HIDE DEF held, trades
<1>5. ASSUME NEW t \in 1..Len(trades) PROVE trades[t].exit - trades[t].entry <= MaxHold
  <2> DEFINE entry == trades[t].entry
             exit == trades[t].exit
  <2>1. /\ entry \in Nat /\ exit \in Nat
    <3>1. trades[t] \in Trades
      BY <1>4
    <3> QED
      BY <3>1 DEF Trades
  <2>2. /\ 1 <= entry /\ exit <= n
        /\ \A j \in entry..exit - 1 : held[j] # 0
    BY <1>4
  <2> HIDE DEF entry, exit
  <2>3. CASE exit <= entry
    BY <1>1, <2>1, <2>3 DEF entry, exit
  <2>4. CASE entry < exit
    <3>1. entry # 1
      <4>1. held[entry] # 0 /\ entry \in 1..n
        BY <1>1, <2>1, <2>2, <2>4
      <4> QED
        BY <1>3, <4>1
    <3>2. ASSUME NEW m \in entry - 1..exit - 2 PROVE wanted[m] # 0
      <4>1. m + 1 \in entry..exit - 1 /\ m + 1 \in 1..n /\ m + 1 # 1 /\ (m + 1) - 1 = m
        BY <1>1, <2>1, <2>2, <2>4, <3>1
      <4> QED
        BY <1>3, <2>2, <4>1
    <3>3. entry - 1 \in 1..n /\ exit - 2 \in entry - 1..n
      BY <1>1, <2>1, <2>2, <2>4, <3>1
    <3>4. (exit - 2) - (entry - 1) < MaxHold
      BY <3>2, <3>3, RsiRuns
    <3> QED
      BY <1>1, <2>1, <3>4 DEF entry, exit
  <2> QED
    BY <2>1, <2>3, <2>4 DEF entry, exit
<1>6. DOMAIN trades = 1..Len(trades)
  BY <1>4
<1> QED
  BY <1>5, <1>6 DEF held, trades

-----------------------------------------------------------------------------
(* The windows of the walk-forward                                         *)

(* Multiples are ordered as what they are multiples of.                    *)
LEMMA Multiples ==
  ASSUME NEW a \in Nat, NEW b \in Nat, NEW d \in Nat
  PROVE  /\ a * d \in Nat
         /\ (a + 1) * d = a * d + d
         /\ a <= b => a * d <= b * d
<1>1. a <= b => a * d <= b * d
  <2> SUFFICES ASSUME a <= b PROVE a * d <= b * d
    OBVIOUS
  <2>1. PICK e \in Nat : b = a + e
    <3>1. b - a \in Nat /\ b = a + (b - a)
      OBVIOUS
    <3> QED
      BY <3>1
  <2>2. b * d = a * d + e * d /\ e * d \in Nat /\ a * d \in Nat
    BY <2>1
  <2> QED
    BY <2>2
<1> QED
  BY <1>1

(* The length of the windows: two bars or more.                            *)
LEMMA WindowLength ==
  ASSUME NEW n \in Nat, NEW windows \in Nat, EnoughBars(n, windows)
  PROVE  LET length == n \div windows
         IN length \in Nat /\ length >= 2 /\ windows * length <= n
<1> DEFINE length == n \div windows
<1>1. windows >= 1 /\ n >= windows * MinPerWindow /\ MinPerWindow \in Nat /\ MinPerWindow >= 2
  BY BacktestAssumption DEF EnoughBars
<1>2. length \in Nat /\ windows * length <= n /\ n < windows * length + windows
  BY <1>1
<1> HIDE DEF length
<1>3. length >= 2
  <2> SUFFICES ASSUME length < 2 PROVE FALSE
    BY <1>2
  <2>1. windows * 2 <= windows * MinPerWindow
    <3>1. 2 * windows <= MinPerWindow * windows
      BY <1>1, Multiples
    <3> QED
      BY <1>1, <3>1
  <2>2. windows * length <= windows
    <3>1. CASE length = 0
      BY <3>1
    <3>2. CASE length = 1
      BY <3>2
    <3> QED
      BY <1>2, <3>1, <3>2
  <2>3. windows * MinPerWindow \in Nat /\ windows * length \in Nat
    BY <1>1, <1>2
  <2> QED
    BY <1>1, <1>2, <2>1, <2>2, <2>3
<1> QED
  BY <1>2, <1>3 DEF length

(* Where windows begin (behind that bar) and end.                          *)
Begin(n, windows, w) == (w - 1) * (n \div windows)
End(n, windows, w) == IF w = windows THEN n ELSE w * (n \div windows)

(* Every window has two bars or more, and the next one begins where it     *)
(* ends, or later.                                                         *)
LEMMA WindowsInOrder ==
  ASSUME NEW n \in Nat, NEW windows \in Nat, EnoughBars(n, windows)
  PROVE  /\ Begin(n, windows, 1) = 0 /\ End(n, windows, windows) = n
         /\ \A w \in 1..windows :
              /\ Begin(n, windows, w) \in Nat /\ End(n, windows, w) \in Nat
              /\ Begin(n, windows, w) + 2 <= End(n, windows, w) /\ End(n, windows, w) <= n
              /\ w > 1 => End(n, windows, w - 1) = Begin(n, windows, w)
         /\ \A v, w \in 1..windows : v < w => End(n, windows, v) <= Begin(n, windows, w)
<1> DEFINE length == n \div windows
<1>1. length \in Nat /\ length >= 2 /\ windows * length <= n
  BY WindowLength
<1> HIDE DEF length
<1>2. Begin(n, windows, 1) = 0 /\ End(n, windows, windows) = n
  BY <1>1 DEF Begin, End, length
<1>3. ASSUME NEW w \in 1..windows
      PROVE  /\ Begin(n, windows, w) = (w - 1) * length /\ (w - 1) * length \in Nat
             /\ w * length = (w - 1) * length + length
             /\ w * length <= windows * length
             /\ End(n, windows, w) = IF w = windows THEN n ELSE w * length
  <2>1. w \in Nat /\ w - 1 \in Nat /\ w <= windows /\ (w - 1) + 1 = w
    OBVIOUS
  <2>2. (w - 1) * length \in Nat
    BY <1>1, <2>1, Multiples
  <2>3. ((w - 1) + 1) * length = (w - 1) * length + length
    BY <1>1, <2>1, Multiples
  <2>4. w * length <= windows * length
    BY <1>1, <2>1, Multiples
  <2> QED
    BY <2>1, <2>2, <2>3, <2>4 DEF Begin, End, length
<1>4. windows * length \in Nat
  BY <1>1, Multiples
<1>5. ASSUME NEW w \in 1..windows
      PROVE  /\ Begin(n, windows, w) \in Nat /\ End(n, windows, w) \in Nat
             /\ Begin(n, windows, w) + 2 <= End(n, windows, w) /\ End(n, windows, w) <= n
  BY <1>1, <1>3, <1>4
<1>6. ASSUME NEW w \in 1..windows, w > 1 PROVE End(n, windows, w - 1) = Begin(n, windows, w)
  BY <1>6 DEF Begin, End
<1>7. ASSUME NEW v \in 1..windows, NEW w \in 1..windows, v < w
      PROVE  End(n, windows, v) <= Begin(n, windows, w)
  <2>1. v * length <= (w - 1) * length
    <3>1. v \in Nat /\ w - 1 \in Nat /\ v <= w - 1
      BY <1>7
    <3> QED
      BY <1>1, <3>1, Multiples
  <2> QED
    BY <1>3, <1>7, <2>1
<1> QED
  BY <1>2, <1>5, <1>6, <1>7

(* The parts of a window: what comes first is for training.                *)
LEMMA SplitIs ==
  ASSUME NEW n \in Nat, NEW windows \in Nat, EnoughBars(n, windows), NEW w \in 1..windows
  PROVE  \E cut \in Nat :
           /\ Begin(n, windows, w) < cut /\ cut < End(n, windows, w)
           /\ Split(n, windows, w).train = Begin(n, windows, w) + 1..cut
           /\ Split(n, windows, w).test = cut + 1..End(n, windows, w)
<1> DEFINE first == Begin(n, windows, w) + 1
           last == End(n, windows, w)
           train == TrainBars(last - first + 1)
           cut == Begin(n, windows, w) + train
<1>1. /\ Begin(n, windows, w) \in Nat /\ last \in Nat
      /\ Begin(n, windows, w) + 2 <= last
  BY WindowsInOrder
<1>2. Split(n, windows, w) = [train |-> first..first + train - 1, test |-> first + train..last]
  BY DEF Split, Begin, End
<1> HIDE DEF last
<1>3. PICK size \in Nat : size >= 2 /\ last = Begin(n, windows, w) + size
  <2>1. last - Begin(n, windows, w) \in Nat
    BY <1>1
  <2> QED
    BY <1>1, <2>1
<1>4. last - first + 1 = size
  BY <1>1, <1>3
<1>5. TrainBars(size) \in Nat /\ 1 <= TrainBars(size) /\ TrainBars(size) < size
  <2>1. CASE size \in FallsShort
    <3>1. size >= 10
      BY <2>1, LengthsAssumption
    <3> QED
      BY <1>3, <2>1, <3>1 DEF TrainBars
  <2>2. CASE size \notin FallsShort
    BY <1>3, <2>2 DEF TrainBars
  <2> QED
    BY <2>1, <2>2
<1>6. train \in Nat /\ 1 <= train /\ train < size
  BY <1>4, <1>5
<1> HIDE DEF train
<1>7. cut \in Nat /\ Begin(n, windows, w) < cut /\ cut < last
  BY <1>1, <1>3, <1>6
<1>8. first + train - 1 = cut /\ first + train = cut + 1
  BY <1>1, <1>6
<1> QED
  BY <1>2, <1>7, <1>8 DEF last

(* The first and the last of a range are its least and its greatest.       *)
LEMMA RangeEnds ==
  ASSUME NEW a \in Nat, NEW b \in Nat, a <= b
  PROVE  Max(a..b) = b /\ Min(a..b) = a
<1>1. Max(a..b) \in a..b /\ \A y \in a..b : Max(a..b) >= y
  <2>1. b \in a..b /\ \A y \in a..b : b >= y
    OBVIOUS
  <2> QED
    BY <2>1 DEF Max
<1>2. Min(a..b) \in a..b /\ \A y \in a..b : Min(a..b) =< y
  <2>1. a \in a..b /\ \A y \in a..b : a =< y
    OBVIOUS
  <2> QED
    BY <2>1 DEF Min
<1>3. a \in a..b /\ b \in a..b
  OBVIOUS
<1> QED
  BY <1>1, <1>2, <1>3

(* Different things, numbered to k, are k things.                          *)
LEMMA FamilySize ==
  ASSUME NEW k \in Nat, NEW T, NEW f \in [1..k -> T], T = {f[i] : i \in 1..k},
         \A i, j \in 1..k : f[i] = f[j] => i = j
  PROVE  IsFiniteSet(T) /\ Cardinality(T) = k
<1>1. f \in Bijection(1..k, T)
  BY DEF Bijection, Injection, Surjection, IsInjective
<1>2. IsFiniteSet(1..k) /\ Cardinality(1..k) = k
  BY FS_Interval
<1> QED
  BY <1>1, <1>2, FS_Bijection DEF ExistsBijection

(* The bars of a window are divided into two parts, neither of them empty. *)
LEMMA PartsOfWindow ==
  ASSUME NEW n \in Nat, NEW windows \in Nat, EnoughBars(n, windows), NEW w \in 1..windows
  PROVE  LET part == Split(n, windows, w)
         IN /\ part.train \cup part.test = Begin(n, windows, w) + 1..End(n, windows, w)
            /\ part.train \cap part.test = {}
            /\ part.train # {} /\ part.test # {}
            /\ Max(part.train) < Min(part.test)
<1> DEFINE first == Begin(n, windows, w)
           last == End(n, windows, w)
           part == Split(n, windows, w)
<1>1. first \in Nat /\ last \in Nat
  BY WindowsInOrder
<1>2. PICK cut \in Nat : /\ first < cut /\ cut < last
                         /\ part.train = first + 1..cut /\ part.test = cut + 1..last
  BY SplitIs
<1> HIDE DEF first, last, part
<1>3. first + 1 \in Nat /\ first + 1 <= cut /\ cut + 1 \in Nat /\ cut + 1 <= last
  BY <1>1, <1>2
<1>4. Max(part.train) = cut /\ Min(part.test) = cut + 1
  BY <1>1, <1>2, <1>3, RangeEnds
<1>5. part.train \cup part.test = first + 1..last
  BY <1>1, <1>2
<1>6. part.train \cap part.test = {}
  BY <1>1, <1>2
<1>7. cut \in part.train /\ cut + 1 \in part.test
  BY <1>1, <1>2, <1>3
<1> QED
  BY <1>4, <1>5, <1>6, <1>7 DEF first, last, part

(* Every bar is in one part of one window.                                 *)
LEMMA WindowsDivideBars ==
  ASSUME NEW n \in Nat, NEW windows \in Nat, EnoughBars(n, windows)
  PROVE  LET Part(w) == Split(n, windows, w)
             Parts == UNION {{Part(w).train, Part(w).test} : w \in 1..windows}
         IN /\ UNION Parts = 1..n /\ {} \notin Parts
            /\ \A P, Q \in Parts : P # Q => P \cap Q = {}
            /\ Cardinality(Parts) = 2 * windows
<1> DEFINE Window(w) == Begin(n, windows, w) + 1..End(n, windows, w)
           trains == [w \in 1..windows |-> Split(n, windows, w).train]
           tests == [w \in 1..windows |-> Split(n, windows, w).test]
           Trains == {trains[w] : w \in 1..windows}
           Tests == {tests[w] : w \in 1..windows}
           Parts == UNION {{Split(n, windows, w).train, Split(n, windows, w).test} : w \in 1..windows}
<1>1. ASSUME NEW w \in 1..windows
      PROVE  /\ trains[w] \cup tests[w] = Window(w) /\ trains[w] \cap tests[w] = {}
             /\ trains[w] # {} /\ tests[w] # {}
  BY PartsOfWindow
<1>2. /\ Begin(n, windows, 1) = 0 /\ End(n, windows, windows) = n
      /\ \A w \in 1..windows :
           /\ Begin(n, windows, w) \in Nat /\ End(n, windows, w) \in Nat
           /\ End(n, windows, w) <= n
           /\ w > 1 => End(n, windows, w - 1) = Begin(n, windows, w)
      /\ \A v, w \in 1..windows : v < w => End(n, windows, v) <= Begin(n, windows, w)
  BY WindowsInOrder
<1>3. ASSUME NEW v \in 1..windows, NEW w \in 1..windows, v # w PROVE Window(v) \cap Window(w) = {}
  <2>1. ASSUME NEW x \in 1..windows, NEW y \in 1..windows, x < y PROVE Window(x) \cap Window(y) = {}
    BY <1>2, <2>1
  <2>2. CASE v < w
    BY <2>1, <2>2
  <2>3. CASE w < v
    BY <2>1, <2>3
  <2> QED
    BY <1>3, <2>2, <2>3
<1>4. Parts = Trains \cup Tests
  OBVIOUS
<1>5. UNION Parts = 1..n
  <2>1. ASSUME NEW i \in 1..n PROVE \E w \in 1..windows : i \in Window(w)
    <3> DEFINE ends == {w \in 1..windows : i <= End(n, windows, w)}
    <3>1. windows \in 1..windows
      BY DEF EnoughBars
    <3>2. windows \in ends
      BY <1>2, <3>1
    <3>3. PICK w \in ends : \A v \in ends : w <= v
      <4>1. ends \in SUBSET Nat /\ ends # {}
        BY <3>2
      <4> HIDE DEF ends
      <4> QED
        BY <4>1, HasLeast
    <3>4. Begin(n, windows, w) < i
      <4>1. CASE w = 1
        BY <1>2, <4>1
      <4>2. CASE w # 1
        <5>1. w - 1 \in 1..windows /\ w > 1 /\ w \in 1..windows
          BY <3>3, <4>2
        <5>2. w - 1 \notin ends
          BY <3>3, <5>1
        <5>3. ~(i <= End(n, windows, w - 1))
          BY <5>1, <5>2
        <5>4. End(n, windows, w - 1) = Begin(n, windows, w) /\ Begin(n, windows, w) \in Nat
          BY <1>2, <5>1
        <5> QED
          BY <5>3, <5>4
      <4> QED
        BY <4>1, <4>2
    <3> QED
      BY <1>2, <3>3, <3>4
  <2>2. ASSUME NEW w \in 1..windows PROVE Window(w) \subseteq 1..n
    BY <1>2
  <2>3. UNION (Trains \cup Tests) = UNION {Window(w) : w \in 1..windows}
    <3> HIDE DEF trains, tests, Window
    <3> QED
      BY <1>1
  <2>4. UNION {Window(w) : w \in 1..windows} = 1..n
    <3> HIDE DEF Window
    <3> QED
      BY <2>1, <2>2
  <2> QED
    BY <1>4, <2>3, <2>4
<1> HIDE DEF trains, tests, Window
<1>6. {} \notin Parts
  BY <1>1, <1>4
<1>7. /\ \A w \in 1..windows : trains[w] \subseteq Window(w) /\ tests[w] \subseteq Window(w)
      /\ \A v, w \in 1..windows : trains[v] \cap tests[w] = {}
      /\ \A v, w \in 1..windows : v # w => trains[v] \cap trains[w] = {}
      /\ \A v, w \in 1..windows : v # w => tests[v] \cap tests[w] = {}
  <2>1. \A w \in 1..windows : trains[w] \subseteq Window(w) /\ tests[w] \subseteq Window(w)
    BY <1>1
  <2>2. ASSUME NEW v \in 1..windows, NEW w \in 1..windows PROVE trains[v] \cap tests[w] = {}
    <3>1. CASE v = w
      BY <1>1, <3>1
    <3>2. CASE v # w
      BY <1>3, <2>1, <3>2
    <3> QED
      BY <3>1, <3>2
  <2> QED
    BY <1>3, <2>1, <2>2
<1>8. ASSUME NEW P \in Parts, NEW Q \in Parts, P # Q PROVE P \cap Q = {}
  <2>1. (P \in Trains \/ P \in Tests) /\ (Q \in Trains \/ Q \in Tests)
    BY <1>4
  <2> QED
    BY <1>7, <1>8, <2>1
<1>9. IsFiniteSet(Trains) /\ Cardinality(Trains) = windows
  <2>1. trains \in [1..windows -> Trains]
    BY DEF trains
  <2>2. \A v, w \in 1..windows : trains[v] = trains[w] => v = w
    BY <1>1, <1>7
  <2> QED
    BY <2>1, <2>2, FamilySize
<1>10. IsFiniteSet(Tests) /\ Cardinality(Tests) = windows
  <2>1. tests \in [1..windows -> Tests]
    BY DEF tests
  <2>2. \A v, w \in 1..windows : tests[v] = tests[w] => v = w
    BY <1>1, <1>7
  <2> QED
    BY <2>1, <2>2, FamilySize
<1>11. Trains \cap Tests = {}
  BY <1>1, <1>7
<1>12. Cardinality(Parts) = 2 * windows
  <2>1. Cardinality(Trains \cap Tests) = 0
    <3> HIDE DEF Trains, Tests
    <3> QED
      BY <1>11, FS_EmptySet
  <2> HIDE DEF Trains, Tests, Parts
  <2> QED
    BY <1>4, <1>9, <1>10, <2>1, FS_Union
<1> QED
  BY <1>5, <1>6, <1>8, <1>12

-----------------------------------------------------------------------------
(* Jobs                                                                    *)

(* The choice is a candidate that has a score, and none has a better one,  *)
(* unless no candidate has one.                                            *)
LEMMA BestIsBest ==
  ASSUME NEW scores \in [Candidates -> Scores]
  PROVE  /\ BestInTrain(scores) \in {0} \cup Candidates
         /\ BestInTrain(scores) # 0 =>
              \A c \in Candidates : scores[c] \notin {NoValue, 0} =>
                scores[c] <= scores[BestInTrain(scores)]
<1> DEFINE candidates == {c \in DOMAIN scores : scores[c] # NoValue /\ scores[c] # 0}
           best == {c \in candidates : \A d \in candidates : scores[d] <= scores[c]}
<1>1. BestInTrain(scores) = IF best = {} THEN 0 ELSE Min(best)
  BY DEF BestInTrain, FirstBest
<1>2. Candidates \subseteq Nat
  <2>1. Candidates = 1..Cardinality(Candidates) /\ Cardinality(Candidates) \in Nat
    BY JobsAssumption, FS_CardinalityType
  <2> QED
    BY <2>1
<1>3. ASSUME best # {} PROVE Min(best) \in best
  <2>1. best \in SUBSET Nat
    BY <1>2
  <2> HIDE DEF best
  <2>2. \E x \in best : \A y \in best : x =< y
    BY <1>3, <2>1, HasLeast
  <2> QED
    BY <2>2 DEF Min
<1>4. \A c \in best : c \in Candidates /\ \A d \in candidates : scores[d] <= scores[c]
  OBVIOUS
<1>5. \A c \in Candidates : scores[c] \notin {NoValue, 0} => c \in candidates
  OBVIOUS
<1> HIDE DEF best, candidates
<1> QED
  BY <1>1, <1>3, <1>4, <1>5

Steps == {"none", "start", "load", "compute", "finish", "failed"}
ScoreLists == [1..Windows -> [Candidates -> Scores]]
BestLists == {<<>>} \cup [1..Windows -> Candidates]
Rows == [status : {"none", "pending", "running", "done", "error"}, n : Nat, best : BestLists]

(* Parameters in hand were chosen by their scores on bars that were enough *)
(* for the windows; only a task that is about to finish has any.           *)
Chosen ==
  task.best # <<>> =>
    /\ task.step = "finish" /\ EnoughBars(task.n, Windows) /\ task.scores \in ScoreLists
    /\ \A w \in 1..Windows : task.best[w] = BestInTrain(task.scores[w]) /\ task.best[w] # 0

IInv ==
  /\ bars \in Seq(Readings) /\ Len(bars) <= MaxBars
  /\ row \in Rows
  /\ task \in [step : Steps, walkForward : BOOLEAN, n : Nat,
               scores : {<<>>} \cup ScoreLists, best : BestLists]
  /\ faults \in 0..MaxFaults /\ lost \in BOOLEAN
  /\ Chosen

(* NoTask is a task that has chosen nothing.                               *)
LEMMA NoTaskIsOne ==
  /\ NoTask \in [step : Steps, walkForward : BOOLEAN, n : Nat,
                 scores : {<<>>} \cup ScoreLists, best : BestLists]
  /\ NoTask.best = <<>>
  BY DEF NoTask, Steps, BestLists

(* The invariant holds at first.                                           *)
LEMMA InitIInv == Init => IInv
<1> SUFFICES ASSUME Init PROVE IInv
  OBVIOUS
<1>1. bars \in Seq(Readings) /\ Len(bars) = 0
  BY DEF Init
<1>2. row \in Rows
  BY DEF Init, Rows, BestLists
<1>3. MaxBars \in Nat /\ MaxFaults \in Nat
  BY JobsAssumption
<1>4. Chosen
  BY NoTaskIsOne DEF Init, Chosen
<1>5. task = NoTask
  BY DEF Init
<1>6. faults \in 0..MaxFaults
  <2>1. faults = 0
    BY DEF Init
  <2> QED
    BY <1>3, <2>1
<1>8. lost \in BOOLEAN
  BY DEF Init
<1>7. Len(bars) <= MaxBars
  BY <1>1, <1>3
<1> QED
  BY <1>1, <1>2, <1>4, <1>5, <1>6, <1>7, <1>8, NoTaskIsOne DEF IInv

(* Every step keeps the invariant.                                         *)
LEMMA NextIInv == IInv /\ [Next]_vars => IInv'
<1> DEFINE Tasks == [step : Steps, walkForward : BOOLEAN, n : Nat,
                     scores : {<<>>} \cup ScoreLists, best : BestLists]
<1> SUFFICES ASSUME IInv, [Next]_vars PROVE IInv'
  OBVIOUS
<1>1. /\ bars \in Seq(Readings) /\ Len(bars) <= MaxBars /\ Len(bars) \in Nat
      /\ row \in Rows
      /\ task \in Tasks /\ faults \in 0..MaxFaults /\ lost \in BOOLEAN
      /\ MaxFaults \in Nat /\ MaxBars \in Nat
      /\ Chosen
  BY JobsAssumption DEF IInv
<1>2. Raises \in Tasks /\ Raises.best = <<>>
  BY <1>1 DEF Raises, Steps, BestLists
<1>3. task.step # "finish" => task.best = <<>>
  BY <1>1 DEF Chosen
<1>4. CASE CandleCloses
  <2>1. PICK v \in Readings : bars' = Append(bars, v)
    BY <1>4 DEF CandleCloses
  <2>2. bars' \in Seq(Readings) /\ Len(bars') <= MaxBars
    BY <1>1, <1>4, <2>1 DEF CandleCloses
  <2> QED
    BY <1>1, <1>4, <2>2 DEF CandleCloses, IInv, Chosen
<1>5. ASSUME NEW walkForward \in BOOLEAN, Create(walkForward) PROVE IInv'
  <2>1. task' \in Tasks /\ task'.best = <<>>
    BY <1>5, NoTaskIsOne DEF Create, Steps, NoTask
  <2>2. row' \in Rows
    BY <1>1, <1>5 DEF Create, Rows
  <2> QED
    BY <1>1, <1>5, <2>1, <2>2 DEF Create, IInv, Chosen
<1>6. CASE Start
  <2>1. task' \in Tasks /\ task'.best = <<>>
    BY <1>1, <1>3, <1>6 DEF Start, Steps
  <2>2. row' \in Rows
    BY <1>1, <1>6 DEF Start, Rows
  <2> QED
    BY <1>1, <1>6, <2>1, <2>2 DEF Start, IInv, Chosen
<1>7. CASE Load
  <2>1. task' \in Tasks /\ task'.best = <<>>
    BY <1>1, <1>2, <1>3, <1>7 DEF Load, Steps
  <2> QED
    BY <1>1, <1>7, <2>1 DEF Load, IInv, Chosen
<1>8. CASE Compute
  <2>1. task' \in Tasks /\ Chosen'
    <3>1. CASE ~task.walkForward
      <4>1. task' = [task EXCEPT !.step = "finish"]
        BY <1>8, <3>1 DEF Compute
      <4>2. task.best = <<>>
        BY <1>3, <1>8 DEF Compute
      <4> QED
        BY <1>1, <4>1, <4>2 DEF Chosen, Steps
    <3>2. CASE task.walkForward /\ ~EnoughBars(task.n, Windows)
      BY <1>2, <1>8, <3>2 DEF Compute, Chosen
    <3>3. CASE task.walkForward /\ EnoughBars(task.n, Windows)
      <4>1. PICK scores \in ScoreLists :
              LET best == [w \in 1..Windows |-> BestInTrain(scores[w])]
              IN task' = IF Unchosen(best) THEN Raises
                         ELSE [task EXCEPT !.step = "finish", !.scores = scores, !.best = best]
        BY <1>8, <3>3 DEF Compute, ScoreLists
      <4> DEFINE best == [w \in 1..Windows |-> BestInTrain(scores[w])]
      <4>2. CASE Unchosen(best)
        BY <1>2, <4>1, <4>2 DEF Chosen
      <4>3. CASE ~Unchosen(best)
        <5>1. ASSUME NEW w \in 1..Windows PROVE best[w] \in Candidates /\ best[w] # 0
          <6>1. scores[w] \in [Candidates -> Scores]
            BY DEF ScoreLists
          <6>2. best[w] \in {0} \cup Candidates
            BY <6>1, BestIsBest
          <6>3. best[w] # 0
            BY <4>3 DEF Unchosen, Range
          <6> QED
            BY <6>2, <6>3
        <5>2. best \in BestLists
          BY <5>1 DEF BestLists
        <5>3. task' = [task EXCEPT !.step = "finish", !.scores = scores, !.best = best]
          BY <4>1, <4>3
        <5>4. \A w \in 1..Windows : best[w] = BestInTrain(scores[w])
          OBVIOUS
        <5> HIDE DEF best
        <5>5. task' \in Tasks
          BY <1>1, <5>2, <5>3 DEF Steps
        <5>6. /\ task'.step = "finish" /\ task'.scores = scores /\ task'.best = best
              /\ task'.n = task.n
          BY <1>1, <5>3
        <5> QED
          BY <3>3, <5>1, <5>4, <5>5, <5>6 DEF Chosen
      <4> QED
        BY <4>2, <4>3
    <3> QED
      BY <3>1, <3>2, <3>3
  <2> QED
    BY <1>1, <1>8, <2>1 DEF Compute, IInv
<1>9. CASE Finish
  <2>1. row' \in Rows
    BY <1>1, <1>9 DEF Finish, Rows
  <2> QED
    BY <1>1, <1>9, <2>1, NoTaskIsOne DEF Finish, IInv, Chosen
<1>10. CASE Fails
  BY <1>1, <1>2, <1>10 DEF Fails, IInv, Chosen
<1>11. CASE WriteError
  <2>1. [row EXCEPT !.status = "error"] \in Rows
    BY <1>1 DEF Rows
  <2>2. row' \in Rows /\ faults' \in 0..MaxFaults /\ lost' \in BOOLEAN
    <3>1. CASE row' = [row EXCEPT !.status = "error"] /\ UNCHANGED <<faults, lost>>
      BY <1>1, <2>1, <3>1
    <3>2. CASE faults < MaxFaults /\ faults' = faults + 1 /\ lost' = TRUE /\ UNCHANGED row
      BY <1>1, <3>2
    <3> QED
      BY <1>11, <3>1, <3>2 DEF WriteError
  <2>3. bars' = bars /\ task' = NoTask
    BY <1>11 DEF WriteError
  <2> QED
    BY <1>1, <2>2, <2>3, NoTaskIsOne DEF IInv, Chosen
<1>12. CASE Restart
  BY <1>1, <1>12, NoTaskIsOne DEF Restart, IInv, Chosen
<1>13. CASE UNCHANGED vars
  BY <1>1, <1>13 DEF vars, IInv, Chosen
<1> QED
  BY <1>4, <1>5, <1>6, <1>7, <1>8, <1>9, <1>10, <1>11, <1>12, <1>13 DEF Next

(* And so always.                                                          *)
LEMMA SpecIInv == Spec => []IInv
  BY InitIInv, NextIInv, PTL DEF Spec

(* Bars are readings.                                                      *)
LEMMA BarsAreValues == IInv => bars \in Seq(Readings) /\ bars \in Seq(Values)
<1>1. Readings \subseteq Values
  BY JobsAssumption DEF Values
<1> QED
  BY <1>1 DEF IInv

(* The types of the state.                                                 *)
THEOREM TypeCorrect == Spec => []TypeOK
<1>1. IInv => TypeOK
  <2> SUFFICES ASSUME IInv PROVE TypeOK
    OBVIOUS
  <2>1. task.best \in BestLists /\ task.step \in Steps
    BY DEF IInv
  <2>2. Windows \in Nat
    BY JobsAssumption
  <2>3. task.best \in Seq(Candidates) /\ Len(task.best) \in {0, Windows}
    <3>1. CASE task.best = <<>>
      BY <3>1
    <3>2. CASE task.best \in [1..Windows -> Candidates]
      BY <2>2, <3>2
    <3> QED
      BY <2>1, <3>1, <3>2 DEF BestLists
  <2> QED
    BY <2>1, <2>3 DEF IInv, TypeOK, Steps, Rows
<1> QED
  BY <1>1, SpecIInv, PTL

(* Strategies cannot look ahead: what is held on a bar is the same         *)
(* whatever that bar turns out to be, and later bars leave it as it was.   *)
THEOREM StrategiesLookBack == Spec => []NoLookAhead
<1>1. IInv => NoLookAhead
  BY BarsAreValues, NobodyLooksAhead DEF NoLookAhead
<1> QED
  BY <1>1, SpecIInv, PTL

(* For every strategy the list of trades earns what the equity curve does, *)
(* one bar later, and the turnover charges for the sides of its trades.    *)
THEOREM TradesTrailByOne == Spec => []TradesTrailCurve
<1>1. IInv => TradesTrailCurve
  <2> SUFFICES ASSUME IInv, NEW s \in Strategies
        PROVE LET held == Held(Targets(s, bars))
                  n == Len(held)
                  trades == ExtractTrades(held)
                  Earning(i) == {t \in DOMAIN trades : i \in Earns(trades[t])}
              IN /\ \A i \in 1..n : {trades[t].side : t \in Earning(i)} = {Before(held, i)} \ {0}
                 /\ n > 0 /\ held[n] # 0 => trades # <<>> /\ Last(trades).exit = n /\ Last(trades).side = held[n]
                 /\ \A t \in 2..Len(trades) :
                      \/ trades[t - 1].exit < trades[t].entry
                      \/ trades[t - 1].exit = trades[t].entry /\ trades[t - 1].side # trades[t].side
                 /\ n > 0 => Turnover(held) = 2 * Len(trades) - (IF held[n] = 0 THEN 0 ELSE 1)
    BY DEF TradesTrailCurve
  <2>1. bars \in Seq(Values)
    BY BarsAreValues
  <2>2. Targets(s, bars) \in Seq(Sides)
    BY <2>1, TargetsAre
  <2>3. Held(Targets(s, bars)) \in Seq(Sides)
    BY <2>2, HeldIs
  <2> QED
    BY <2>3, TradesTrail
<1> QED
  BY <1>1, SpecIInv, PTL

(* The RSI strategy holds no position for more than MaxHold bars.          *)
THEOREM HoldingIsLimited == Spec => []HoldsAtMostMaxHold
<1>1. IInv => HoldsAtMostMaxHold
  BY BarsAreValues, RsiTradesEnd DEF HoldsAtMostMaxHold
<1> QED
  BY <1>1, SpecIInv, PTL

(* Every bar is in one part of one window, parameters are tried behind the *)
(* bars they were chosen on, and no candidate did better there.            *)
THEOREM WindowsAreHonest == Spec => []WalkForwardIsHonest
<1>1. IInv => WalkForwardIsHonest
  <2> SUFFICES ASSUME IInv, task.best # <<>>
        PROVE LET Part(w) == Split(task.n, Windows, w)
                  Parts == UNION {{Part(w).train, Part(w).test} : w \in 1..Windows}
              IN /\ UNION Parts = 1..task.n /\ {} \notin Parts
                 /\ \A P, Q \in Parts : P # Q => P \cap Q = {}
                 /\ Cardinality(Parts) = 2 * Windows
                 /\ \A w \in 1..Windows :
                      /\ Max(Part(w).train) < Min(Part(w).test)
                      /\ \A c \in Candidates : task.scores[w][c] \notin {NoValue, 0} =>
                           task.scores[w][c] <= task.scores[w][task.best[w]]
    BY DEF WalkForwardIsHonest
  <2>1. /\ task.n \in Nat /\ Windows \in Nat /\ EnoughBars(task.n, Windows)
        /\ task.scores \in ScoreLists
        /\ \A w \in 1..Windows : task.best[w] = BestInTrain(task.scores[w]) /\ task.best[w] # 0
    BY JobsAssumption DEF IInv, Chosen
  <2>2. ASSUME NEW w \in 1..Windows
        PROVE  /\ Max(Split(task.n, Windows, w).train) < Min(Split(task.n, Windows, w).test)
               /\ \A c \in Candidates : task.scores[w][c] \notin {NoValue, 0} =>
                    task.scores[w][c] <= task.scores[w][task.best[w]]
    <3>1. Max(Split(task.n, Windows, w).train) < Min(Split(task.n, Windows, w).test)
      BY <2>1, PartsOfWindow
    <3>2. task.scores[w] \in [Candidates -> Scores]
      BY <2>1 DEF ScoreLists
    <3>3. \A c \in Candidates : task.scores[w][c] \notin {NoValue, 0} =>
            task.scores[w][c] <= task.scores[w][task.best[w]]
      BY <2>1, <3>2, BestIsBest
    <3> QED
      BY <3>1, <3>3
  <2>3. LET Part(w) == Split(task.n, Windows, w)
            Parts == UNION {{Part(w).train, Part(w).test} : w \in 1..Windows}
        IN /\ UNION Parts = 1..task.n /\ {} \notin Parts
           /\ \A P, Q \in Parts : P # Q => P \cap Q = {}
           /\ Cardinality(Parts) = 2 * Windows
    BY <2>1, WindowsDivideBars
  <2> QED
    BY <2>2, <2>3
<1> QED
  BY <1>1, SpecIInv, PTL

=============================================================================
