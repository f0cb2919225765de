-------------------------- MODULE AlertEngineProofs -------------------------
(***************************************************************************)
(* Proofs about AlertEngine, for any finite set of rules and any times: a  *)
(* call may wait for longer than a list is used, and for longer than a     *)
(* rule cools down.                                                        *)
(*                                                                         *)
(* Cooldowns hold although two tasks call the engine at a time, of which   *)
(* one may be saving a rule's memory while the other replaces the list:    *)
(* every rule is of the concern of one caller.                             *)
(*                                                                         *)
(* A rule that is disabled falls silent, because the ages of the lists in  *)
(* use are bounded; and an alert is not repeated if a list that does not   *)
(* know of it is out of use before the rule has cooled down.               *)
(***************************************************************************)
EXTENDS AlertEngine, FiniteSetTheorems, TLAPS

USE RulesAssumption, TimesAssumption

OwnRulesOnly(c, j) == \A i \in 1..Len(j.todo) : CallerOf(kindOf[j.todo[i]]) = c

(* A rule whose memory is being saved has been found out of its cooldown.  *)
HasWaited(j) ==
  j.step = "persisting" =>
    /\ j.list[Head(j.todo)] = j.datum
    /\ j.now - lastFired[Head(j.todo)] >= Cooldown

InStep(j) ==
  /\ j.step \in {"evaluating", "persisting"} => j.todo # <<>>
  /\ j.step = "delivering" => j.fired # <<>>

CallsInStep ==
  \A c \in Callers : OwnRulesOnly(c, job[c]) /\ HasWaited(job[c]) /\ InStep(job[c])

IInv == TypeOK /\ CallsInStep

KeepsCooldown == \A r \in Rules : AlertsNow(r) => lastFired'[r] - lastFired[r] >= Cooldown

-----------------------------------------------------------------------------
(* Calls                                                                   *)

(* A finite set of rules is put in some order.                             *)
LEMMA ListsInOrder ==
  ASSUME NEW S \in SUBSET Rules
  PROVE  SetToSeq(S) \in Seq(S)
<1>1. IsFiniteSet(S)
  BY FS_Subset
<1>2. Cardinality(S) \in Nat /\ \E f : f \in Bijection(1..Cardinality(S), S)
  BY <1>1, FS_CardinalityType DEF ExistsBijection
<1>3. \E f \in [1..Cardinality(S) -> S] : IsInjective(f)
  BY <1>2 DEF Bijection, Injection
<1>4. SetToSeq(S) \in [1..Cardinality(S) -> S]
  BY <1>3 DEF SetToSeq
<1> QED
  BY <1>2, <1>4

(* A new call.                                                             *)
LEMMA IdleInStep ==
  /\ Idle \in Jobs
  /\ \A c \in Callers : OwnRulesOnly(c, Idle) /\ HasWaited(Idle) /\ InStep(Idle)
<1>1. <<>> \in Seq(Rules) /\ Len(<<>>) = 0
  OBVIOUS
<1>2. [r \in Rules |-> Absent] \in Lists
  BY DEF Lists
<1> QED
  BY <1>1, <1>2 DEF Idle, Jobs, Memory, OwnRulesOnly, HasWaited, InStep

(* What a call has left decides on the step it goes on with.               *)
LEMMA GoesOn ==
  ASSUME NEW c \in Callers, NEW j \in Jobs, OwnRulesOnly(c, j)
  PROVE  /\ Continued(j) \in Jobs /\ Continued(j).step # "persisting"
         /\ OwnRulesOnly(c, Continued(j)) /\ HasWaited(Continued(j)) /\ InStep(Continued(j))
<1>1. CASE j.todo # <<>>
  <2>1. Continued(j) = [j EXCEPT !.step = "evaluating"]
    BY <1>1 DEF Continued
  <2> QED
    BY <1>1, <2>1 DEF Jobs, OwnRulesOnly, HasWaited, InStep
<1>2. CASE j.todo = <<>> /\ j.fired # <<>>
  <2>1. Continued(j) = [j EXCEPT !.step = "delivering"]
    BY <1>2 DEF Continued
  <2> QED
    BY <1>2, <2>1 DEF Jobs, OwnRulesOnly, HasWaited, InStep
<1>3. CASE j.todo = <<>> /\ j.fired = <<>>
  <2>1. Continued(j) = Idle
    BY <1>3 DEF Continued
  <2>2. Idle.step # "persisting"
    BY DEF Idle
  <2> QED
    BY <2>1, <2>2, IdleInStep
<1> QED
  BY <1>1, <1>2, <1>3

(* A call begins with the rules that are of its caller's concern.          *)
LEMMA BeginsWithOwnRules ==
  ASSUME TypeOK, NEW c \in Callers, NEW datum \in Memory, NEW list \in Lists
  PROVE  LET j == Begun(c, datum, list) IN
         j \in Jobs /\ OwnRulesOnly(c, j) /\ HasWaited(j) /\ InStep(j)
<1> DEFINE concerned == {r \in Rules : Concerned(c, list)[r] # Absent}
           todo == SetToSeq(concerned)
           start == [Idle EXCEPT !.datum = datum, !.now = clock, !.list = Concerned(c, list),
                                 !.shared = TRUE, !.todo = todo]
<1>1. Concerned(c, list) \in Lists
  BY DEF Concerned, Lists
<1>2. \A r \in concerned : r \in Rules /\ CallerOf(kindOf[r]) = c
  BY DEF Concerned
<1> HIDE DEF concerned
<1>3. todo \in Seq(concerned)
  BY <1>2, ListsInOrder
<1>4. todo \in Seq(Rules) /\ \A i \in 1..Len(todo) : CallerOf(kindOf[todo[i]]) = c
  BY <1>2, <1>3
<1> HIDE DEF todo
<1>5. start \in Jobs /\ start.todo = todo
  BY <1>1, <1>4, IdleInStep DEF TypeOK, Jobs, Idle
<1>6. OwnRulesOnly(c, start)
  BY <1>4, <1>5 DEF OwnRulesOnly
<1>7. Begun(c, datum, list) = Continued(start)
  BY DEF Begun, todo, concerned
<1> HIDE DEF start
<1> QED
  BY <1>5, <1>6, <1>7, GoesOn

(* An alert that is decided on for a rule out of its cooldown.             *)
LEMMA DecisionKeeps ==
  ASSUME IInv, NEW c \in Callers, NEW fires \in BOOLEAN,
         job[c].todo # <<>>, Decide(c, job[c], Head(job[c].todo), fires),
         fires => job[c].now - lastFired[Head(job[c].todo)] >= Cooldown,
         UNCHANGED kindOf
  PROVE  /\ job' \in [Callers -> Jobs] /\ CallsInStep'
         /\ lastFired' \in [Rules -> {Never} \cup 0..MaxTime]
         /\ alerted' \in [Rules -> Memory] /\ news' \in [Rules -> BOOLEAN]
         /\ KeepsCooldown
<1> DEFINE j == job[c]
           r == Head(j.todo)
           left == [j EXCEPT !.todo = Tail(@), !.fires = FALSE,
                             !.fired = IF fires THEN Append(@, r) ELSE @]
<1>1. j \in Jobs /\ r \in Rules /\ CallerOf(kindOf[r]) = c
      /\ Tail(j.todo) \in Seq(Rules) /\ OwnRulesOnly(c, j)
  <2>1. j \in Jobs /\ OwnRulesOnly(c, j)
    BY DEF IInv, TypeOK, CallsInStep
  <2>2. j.todo \in Seq(Rules) /\ j.todo # <<>>
    BY <2>1 DEF Jobs
  <2>3. 1 \in 1..Len(j.todo) /\ r = j.todo[1] /\ r \in Rules /\ Tail(j.todo) \in Seq(Rules)
    BY <2>2
  <2> QED
    BY <2>1, <2>3 DEF OwnRulesOnly
<1>2. /\ job' = [job EXCEPT ![c] = Continued(left)]
      /\ IF fires
         THEN /\ lastFired' = [lastFired EXCEPT ![r] = j.now]
              /\ alerted' = [alerted EXCEPT ![r] = j.datum]
              /\ news' = [news EXCEPT ![r] = FALSE]
         ELSE UNCHANGED <<lastFired, alerted, news>>
  BY DEF Decide, FiredAt
<1>3. left \in Jobs /\ left.todo = Tail(j.todo)
  <2>1. (IF fires THEN Append(j.fired, r) ELSE j.fired) \in Seq(Rules)
    <3>1. j.fired \in Seq(Rules)
      BY <1>1 DEF Jobs
    <3> QED
      BY <1>1, <3>1
  <2> HIDE DEF r
  <2> QED
    BY <1>1, <2>1 DEF Jobs
<1>4. OwnRulesOnly(c, left)
  <2>1. \A i \in 1..Len(Tail(j.todo)) : i + 1 \in 1..Len(j.todo) /\ Tail(j.todo)[i] = j.todo[i + 1]
    <3>1. j.todo \in Seq(Rules) /\ j.todo # <<>>
      BY <1>1 DEF Jobs
    <3> QED
      BY <3>1
  <2> HIDE DEF left, j
  <2> QED
    BY <1>1, <1>3, <2>1 DEF OwnRulesOnly
<1> HIDE DEF left
<1>5. /\ Continued(left) \in Jobs /\ Continued(left).step # "persisting"
      /\ OwnRulesOnly(c, Continued(left)) /\ InStep(Continued(left))
  BY <1>3, <1>4, GoesOn
<1>6. /\ job' \in [Callers -> Jobs] /\ job'[c] = Continued(left)
      /\ \A d \in Callers \ {c} : job'[d] = job[d]
  BY <1>2, <1>5 DEF IInv, TypeOK
<1>7. j.now \in 0..MaxTime /\ j.datum \in Memory
  BY <1>1 DEF Jobs
<1>8. /\ lastFired' \in [Rules -> {Never} \cup 0..MaxTime]
      /\ alerted' \in [Rules -> Memory] /\ news' \in [Rules -> BOOLEAN]
      /\ \A q \in Rules \ {r} : lastFired'[q] = lastFired[q]
      /\ lastFired'[r] = IF fires THEN j.now ELSE lastFired[r]
  <2> HIDE DEF r, j
  <2> QED
    BY <1>1, <1>2, <1>7 DEF IInv, TypeOK
<1>9. CallsInStep'
  <2> SUFFICES ASSUME NEW d \in Callers
               PROVE  /\ OwnRulesOnly(d, job[d])' /\ HasWaited(job[d])' /\ InStep(job[d])'
    BY DEF CallsInStep
  <2>1. CASE d = c
    BY <1>5, <1>6, <2>1 DEF OwnRulesOnly, HasWaited, InStep
  <2>2. CASE d # c
    <3>1. job'[d] = job[d] /\ OwnRulesOnly(d, job[d]) /\ HasWaited(job[d]) /\ InStep(job[d])
      BY <1>6, <2>2 DEF IInv, CallsInStep
    <3>2. ASSUME job[d].step = "persisting"
          PROVE  lastFired'[Head(job[d].todo)] = lastFired[Head(job[d].todo)]
      <4>1. job[d].todo \in Seq(Rules) /\ job[d].todo # <<>>
        BY <3>1, <3>2 DEF IInv, TypeOK, Jobs, InStep
      <4>2. 1 \in 1..Len(job[d].todo) /\ Head(job[d].todo) = job[d].todo[1] /\ Head(job[d].todo) \in Rules
        BY <4>1
      <4>3. CallerOf(kindOf[Head(job[d].todo)]) = d
        BY <3>1, <4>2 DEF OwnRulesOnly
      <4> HIDE DEF r
      <4> QED
        BY <1>1, <1>8, <2>2, <4>2, <4>3
    <3> QED
      BY <3>1, <3>2 DEF OwnRulesOnly, HasWaited, InStep
  <2> QED
    BY <2>1, <2>2
<1>10. KeepsCooldown
  <2> HIDE DEF r, j
  <2>1. fires => j.now - lastFired[r] >= Cooldown
    BY DEF r, j
  <2> QED
    BY <1>1, <1>8, <2>1 DEF KeepsCooldown, AlertsNow
<1> QED
  BY <1>6, <1>8, <1>9, <1>10

-----------------------------------------------------------------------------
(* The invariant                                                           *)

(* Nothing is under way in a new engine.                                   *)
LEMMA InitIInv == Init => IInv
<1> SUFFICES ASSUME Init PROVE IInv
  OBVIOUS
<1>1. job \in [Callers -> Jobs] /\ CallsInStep
  BY IdleInStep DEF Init, CallsInStep
<1>2. rules \in Lists /\ saved \in [Rules -> Memory] /\ alerted \in [Rules -> Memory]
  BY DEF Init, Lists, Memory
<1>3. /\ kindOf \in [Rules -> Kinds] /\ row \in [Rules -> {"new", "enabled", "disabled", "gone"}]
      /\ lastFired \in [Rules -> {Never} \cup 0..MaxTime] /\ lastRefresh \in LongAgo..MaxTime
      /\ listable \in [Rules -> 0..MaxTime] /\ clock \in 0..MaxTime
  BY DEF Init, LongAgo
<1>4. heard \in BOOLEAN /\ news \in [Rules -> BOOLEAN]
  BY DEF Init
<1> QED
  BY <1>1, <1>2, <1>3, <1>4 DEF IInv, TypeOK

(* A call that changes its step and nothing its rules depend on.           *)
LEMMA OneCallMoves ==
  ASSUME IInv, NEW c \in Callers, NEW j \in Jobs, job' = [job EXCEPT ![c] = j],
         OwnRulesOnly(c, j), HasWaited(j), InStep(j), UNCHANGED <<kindOf, lastFired>>
  PROVE  job' \in [Callers -> Jobs] /\ CallsInStep' /\ KeepsCooldown
<1>1. job' \in [Callers -> Jobs] /\ \A d \in Callers : job'[d] = IF d = c THEN j ELSE job[d]
  BY DEF IInv, TypeOK
<1>2. CallsInStep'
  BY <1>1 DEF IInv, CallsInStep, OwnRulesOnly, HasWaited, InStep
<1>3. KeepsCooldown
  BY DEF KeepsCooldown, AlertsNow
<1> QED
  BY <1>1, <1>2, <1>3

(* Every step keeps the invariant and the cooldowns.                       *)
LEMMA StepIInv == IInv /\ [Next]_vars => IInv' /\ KeepsCooldown
<1> SUFFICES ASSUME IInv, [Next]_vars PROVE IInv' /\ KeepsCooldown
  OBVIOUS
<1> USE DEF IInv
<1>0. \A c \in Callers : job[c] \in Jobs /\ OwnRulesOnly(c, job[c]) /\ HasWaited(job[c]) /\ InStep(job[c])
  BY DEF TypeOK, CallsInStep
<1>1. ASSUME NEW c \in Callers, NEW datum \in Data(c), Handle(c, datum) PROVE IInv' /\ KeepsCooldown
  <2>1. datum \in Memory
    BY DEF Data, Memory
  <2>2. UNCHANGED <<kindOf, row, saved, rules, lastFired, clock, alerted, listable>>
    BY <1>1 DEF Handle
  <2>3. heard' \in BOOLEAN /\ news' \in [Rules -> BOOLEAN]
    BY <1>1 DEF Handle, TypeOK
  <2>4. lastRefresh' \in LongAgo..MaxTime
    BY <1>1 DEF Handle, TypeOK, LongAgo
  <2>5. \E j \in Jobs : /\ job' = [job EXCEPT ![c] = j]
                       /\ OwnRulesOnly(c, j) /\ HasWaited(j) /\ InStep(j)
    <3>1. CASE clock - lastRefresh < RefreshEvery
      <4>1. job' = [job EXCEPT ![c] = Begun(c, datum, rules)]
        BY <1>1, <3>1 DEF Handle
      <4>2. rules \in Lists
        BY DEF TypeOK
      <4> QED
        BY <2>1, <4>1, <4>2, BeginsWithOwnRules
    <3>2. CASE ~(clock - lastRefresh < RefreshEvery)
      <4> DEFINE j == [Idle EXCEPT !.step = "selecting", !.datum = datum, !.now = clock]
      <4>1. job' = [job EXCEPT ![c] = j]
        BY <1>1, <3>2 DEF Handle
      <4>2. j \in Jobs /\ j.step = "selecting" /\ j.todo = Idle.todo
        BY <2>1, IdleInStep DEF Jobs, Idle, TypeOK
      <4>3. OwnRulesOnly(c, Idle)
        BY IdleInStep
      <4> HIDE DEF j
      <4>4. OwnRulesOnly(c, j) /\ HasWaited(j) /\ InStep(j)
        BY <4>2, <4>3 DEF OwnRulesOnly, HasWaited, InStep
      <4> QED
        BY <4>1, <4>2, <4>4
    <3> QED
      BY <3>1, <3>2
  <2>6. job' \in [Callers -> Jobs] /\ CallsInStep' /\ KeepsCooldown
    BY <2>2, <2>5, OneCallMoves
  <2> QED
    BY <2>2, <2>3, <2>4, <2>6 DEF TypeOK
<1>2. ASSUME NEW c \in Callers, Select(c) PROVE IInv' /\ KeepsCooldown
  <2> DEFINE j == [job[c] EXCEPT !.step = "installing", !.list = EnabledRules]
  <2>1. job' = [job EXCEPT ![c] = j] /\ UNCHANGED <<kindOf, row, saved, rules, lastRefresh, lastFired, time, historyVars>>
    BY <1>2, <1>0 DEF Select, TypeOK, Jobs
  <2>2. EnabledRules \in Lists
    BY DEF EnabledRules, Lists, TypeOK
  <2>3. j \in Jobs /\ j.step = "installing" /\ j.todo = job[c].todo
    BY <1>0, <2>2 DEF Jobs
  <2> HIDE DEF j
  <2>4. OwnRulesOnly(c, j) /\ HasWaited(j) /\ InStep(j)
    BY <1>0, <2>3 DEF OwnRulesOnly, HasWaited, InStep
  <2>5. job' \in [Callers -> Jobs] /\ CallsInStep' /\ KeepsCooldown
    BY <2>1, <2>3, <2>4, OneCallMoves
  <2> QED
    BY <2>1, <2>5 DEF TypeOK, time, historyVars
<1>3. ASSUME NEW c \in Callers, Install(c) PROVE IInv' /\ KeepsCooldown
  <2> DEFINE j == Begun(c, job[c].datum, job[c].list)
  <2>1. /\ rules' = job[c].list
        /\ job' = [d \in Callers |-> IF d = c THEN j ELSE [job[d] EXCEPT !.shared = FALSE]]
        /\ UNCHANGED <<kindOf, row, saved, lastRefresh, lastFired, time, historyVars>>
    BY <1>3 DEF Install
  <2>2. job[c].datum \in Memory /\ job[c].list \in Lists
    BY <1>0 DEF Jobs
  <2>3. j \in Jobs /\ OwnRulesOnly(c, j) /\ HasWaited(j) /\ InStep(j)
    BY <2>2, BeginsWithOwnRules
  <2> HIDE DEF j
  <2>4. ASSUME NEW d \in Callers
        PROVE  LET k == [job[d] EXCEPT !.shared = FALSE] IN
               k \in Jobs /\ OwnRulesOnly(d, k) /\ HasWaited(k) /\ InStep(k)
    BY <1>0 DEF Jobs, OwnRulesOnly, HasWaited, InStep
  <2>5. job' \in [Callers -> Jobs]
    BY <2>1, <2>3, <2>4
  <2>6. CallsInStep'
    BY <2>1, <2>3, <2>4 DEF CallsInStep, OwnRulesOnly, HasWaited, InStep
  <2>7. KeepsCooldown
    BY <2>1 DEF KeepsCooldown, AlertsNow
  <2> QED
    BY <2>1, <2>2, <2>5, <2>6, <2>7 DEF TypeOK, time, historyVars
<1>4. ASSUME NEW c \in Callers, SelectFails(c) \/ StepFails(c) PROVE IInv' /\ KeepsCooldown
  <2>1. /\ job' = [job EXCEPT ![c] = Idle]
        /\ UNCHANGED <<kindOf, row, saved, rules, lastRefresh, lastFired, time, alerted>>
        /\ news' \in [Rules -> BOOLEAN] /\ listable' \in [Rules -> 0..MaxTime]
    BY <1>4 DEF SelectFails, StepFails, TypeOK, historyVars
  <2>2. job' \in [Callers -> Jobs] /\ CallsInStep' /\ KeepsCooldown
    BY <2>1, IdleInStep, OneCallMoves
  <2> QED
    BY <2>1, <2>2 DEF TypeOK, time
<1>5. ASSUME NEW c \in Callers, Evaluate(c) PROVE IInv' /\ KeepsCooldown
  <2> DEFINE j == job[c]
             r == Head(j.todo)
             memory == Remembered(r, j.list[r], j.datum)
             fires == Fires(r, j.list[r], j.datum)
  <2>1. j.step = "evaluating" /\ UNCHANGED <<kindOf, row, saved, lastRefresh, time, listable>>
    BY <1>5 DEF Evaluate
  <2>2. j.todo # <<>> /\ r \in Rules /\ j \in Jobs
    <3>1. j.todo # <<>> /\ j.todo \in Seq(Rules) /\ j \in Jobs
      BY <1>0, <2>1 DEF InStep, Jobs
    <3> QED
      BY <3>1
  <2>3. fires \in BOOLEAN
    <3>1. kindOf[r] \in Kinds
      BY <2>2 DEF TypeOK
    <3> QED
      BY <3>1 DEF Fires, Kinds
  <2>4. CASE CoolingDown(j, r) /\ Decide(c, j, r, FALSE) /\ UNCHANGED rules
    <3>1. /\ job' \in [Callers -> Jobs] /\ CallsInStep'
          /\ lastFired' \in [Rules -> {Never} \cup 0..MaxTime]
          /\ alerted' \in [Rules -> Memory] /\ news' \in [Rules -> BOOLEAN]
          /\ KeepsCooldown
      BY <2>1, <2>2, <2>4, DecisionKeeps
    <3> QED
      BY <2>1, <2>4, <3>1 DEF TypeOK, time
  <2>5. CASE ~CoolingDown(j, r) /\ Decide(c, j, r, fires) /\ UNCHANGED rules
    <3>1. j.now - lastFired[r] >= Cooldown
      <4>1. j.now \in 0..MaxTime /\ lastFired[r] \in {Never} \cup 0..MaxTime
        BY <2>2 DEF Jobs, TypeOK
      <4> HIDE DEF j, r
      <4> QED
        BY <2>5, <4>1 DEF CoolingDown, Never
    <3>2. /\ job' \in [Callers -> Jobs] /\ CallsInStep'
          /\ lastFired' \in [Rules -> {Never} \cup 0..MaxTime]
          /\ alerted' \in [Rules -> Memory] /\ news' \in [Rules -> BOOLEAN]
          /\ KeepsCooldown
      <4> HIDE DEF fires
      <4> QED
        BY <2>1, <2>2, <2>3, <2>5, <3>1, DecisionKeeps
    <3> QED
      BY <2>1, <2>5, <3>2 DEF TypeOK, time
  <2>6. CASE /\ ~CoolingDown(j, r) /\ memory # j.list[r]
             /\ job' = [job EXCEPT ![c].step = "persisting", ![c].list[r] = memory,
                                   ![c].fires = fires]
             /\ rules' = IF j.shared THEN [rules EXCEPT ![r] = memory] ELSE rules
             /\ UNCHANGED <<lastFired, alerted, news>>
    <3> DEFINE k == [j EXCEPT !.step = "persisting", !.list = [@ EXCEPT ![r] = memory], !.fires = fires]
    <3>1. memory = j.datum /\ j.datum \in Memory
      BY <2>2, <2>6 DEF Remembered, Jobs
    <3>2. j.list \in Lists /\ j.now \in 0..MaxTime /\ lastFired[r] \in {Never} \cup 0..MaxTime
      BY <2>2 DEF Jobs, TypeOK
    <3>3. [j.list EXCEPT ![r] = memory] \in Lists
      BY <2>2, <3>1, <3>2 DEF Lists
    <3>4. job' = [job EXCEPT ![c] = k]
      <4> HIDE DEF memory, fires, r
      <4> QED
        BY <2>2, <2>6 DEF TypeOK, Jobs
    <3>5. k \in Jobs /\ k.step = "persisting" /\ k.todo = j.todo /\ k.datum = j.datum /\ k.now = j.now
          /\ k.list[r] = memory
      <4> HIDE DEF memory, fires, r
      <4> QED
        BY <2>2, <2>3, <3>2, <3>3 DEF Jobs, Lists
    <3>6. j.now - lastFired[r] >= Cooldown
      <4> HIDE DEF j, r
      <4> QED
        BY <2>6, <3>2 DEF CoolingDown, Never
    <3> HIDE DEF k
    <3>7. OwnRulesOnly(c, k) /\ InStep(k)
      BY <1>0, <2>2, <3>5 DEF OwnRulesOnly, InStep
    <3>8. HasWaited(k)
      BY <3>1, <3>5, <3>6 DEF HasWaited
    <3>9. job' \in [Callers -> Jobs] /\ CallsInStep' /\ KeepsCooldown
      BY <2>1, <2>6, <3>4, <3>5, <3>7, <3>8, OneCallMoves
    <3>10. rules' \in Lists
      <4> HIDE DEF j, r, memory
      <4> QED
        BY <2>2, <2>6, <3>1 DEF TypeOK, Lists
    <3> QED
      BY <2>1, <2>6, <3>9, <3>10 DEF TypeOK, time
  <2> QED
    BY <1>5, <2>4, <2>5, <2>6 DEF Evaluate
<1>6. ASSUME NEW c \in Callers, Persist(c) PROVE IInv' /\ KeepsCooldown
  <2> DEFINE j == job[c]
             r == Head(j.todo)
  <2>1. /\ j.step = "persisting" /\ Decide(c, j, r, j.fires)
        /\ saved' = IF row[r] = "gone" THEN saved ELSE [saved EXCEPT ![r] = j.list[r]]
        /\ UNCHANGED <<kindOf, row, rules, lastRefresh, time, listable>>
    BY <1>6 DEF Persist
  <2>2. /\ j \in Jobs /\ j.todo # <<>> /\ j.fires \in BOOLEAN /\ j.list[r] \in Memory
        /\ j.now - lastFired[r] >= Cooldown
    BY <1>0, <2>1 DEF InStep, Jobs, HasWaited
  <2>3. r \in Rules
    <3>1. j.todo \in Seq(Rules)
      BY <2>2 DEF Jobs
    <3> QED
      BY <2>2, <3>1
  <2>4. /\ job' \in [Callers -> Jobs] /\ CallsInStep'
        /\ lastFired' \in [Rules -> {Never} \cup 0..MaxTime]
        /\ alerted' \in [Rules -> Memory] /\ news' \in [Rules -> BOOLEAN]
        /\ KeepsCooldown
    BY <2>1, <2>2, DecisionKeeps
  <2>5. saved' \in [Rules -> Memory]
    <3> HIDE DEF j, r
    <3> QED
      BY <2>1, <2>2, <2>3 DEF TypeOK
  <2> QED
    BY <2>1, <2>4, <2>5 DEF TypeOK, time
<1>7. ASSUME NEW c \in Callers, Deliver(c) PROVE IInv' /\ KeepsCooldown
  <2> DEFINE j == [job[c] EXCEPT !.fired = Tail(@)]
  <2>1. /\ job[c].step = "delivering" /\ job' = [job EXCEPT ![c] = Continued(j)]
        /\ UNCHANGED <<kindOf, row, saved, rules, lastRefresh, lastFired, time, historyVars>>
    BY <1>7 DEF Deliver
  <2>2. Tail(job[c].fired) \in Seq(Rules)
    <3>1. job[c].fired # <<>> /\ job[c].fired \in Seq(Rules)
      BY <1>0, <2>1 DEF InStep, Jobs
    <3> QED
      BY <3>1
  <2>3. j \in Jobs /\ j.todo = job[c].todo
    BY <1>0, <2>2 DEF Jobs
  <2>4. OwnRulesOnly(c, j)
    <3> HIDE DEF j
    <3> QED
      BY <1>0, <2>3 DEF OwnRulesOnly
  <2> HIDE DEF j
  <2>5. /\ Continued(j) \in Jobs /\ OwnRulesOnly(c, Continued(j))
        /\ HasWaited(Continued(j)) /\ InStep(Continued(j))
    BY <2>3, <2>4, GoesOn
  <2>6. job' \in [Callers -> Jobs] /\ CallsInStep' /\ KeepsCooldown
    BY <2>1, <2>5, OneCallMoves
  <2> QED
    BY <2>1, <2>6 DEF TypeOK, time, historyVars
<1>8. CASE WorkerRestarts
  <2>1. /\ rules' = [r \in Rules |-> Absent] /\ lastRefresh' = LongAgo
        /\ lastFired' = [r \in Rules |-> Never] /\ job' = [c \in Callers |-> Idle]
        /\ UNCHANGED <<kindOf, row, saved, time, historyVars>>
    BY <1>8 DEF WorkerRestarts
  <2>2. job' \in [Callers -> Jobs] /\ CallsInStep'
    BY <2>1, IdleInStep DEF CallsInStep, OwnRulesOnly, HasWaited, InStep, Idle
  <2>3. KeepsCooldown
    BY <2>1 DEF KeepsCooldown, AlertsNow
  <2>4. rules' \in Lists /\ lastRefresh' \in LongAgo..MaxTime
        /\ lastFired' \in [Rules -> {Never} \cup 0..MaxTime]
    BY <2>1 DEF Lists, LongAgo
  <2> QED
    BY <2>1, <2>2, <2>3, <2>4 DEF TypeOK, time, historyVars
<1>9. ASSUME NEW r \in Rules, CreateRule(r) \/ ToggleRule(r) \/ DeleteRule(r)
      PROVE  IInv' /\ KeepsCooldown
  <2>1. /\ UNCHANGED <<kindOf, saved, rules, lastRefresh, lastFired, job, time, news, alerted>>
        /\ row' \in [Rules -> {"new", "enabled", "disabled", "gone"}]
        /\ listable' \in [Rules -> 0..MaxTime]
    BY <1>9 DEF CreateRule, ToggleRule, DeleteRule, TypeOK, historyVars
  <2>2. TypeOK'
    BY <2>1 DEF TypeOK, time
  <2>3. CallsInStep' /\ KeepsCooldown
    BY <2>1 DEF CallsInStep, OwnRulesOnly, HasWaited, InStep, KeepsCooldown, AlertsNow
  <2> QED
    BY <2>2, <2>3
<1>10. CASE Tick
  <2>1. UNCHANGED <<kindOf, row, saved, rules, lastRefresh, lastFired, job, news, alerted, listable>>
    BY <1>10 DEF Tick, historyVars
  <2>2. clock' \in 0..MaxTime /\ heard' \in BOOLEAN
    <3>1. clock \in 0..MaxTime /\ clock < MaxTime /\ clock' = clock + 1
      BY <1>10 DEF Tick, TypeOK
    <3>2. clock' \in 0..MaxTime
      BY <3>1
    <3>3. heard' \in BOOLEAN
      BY <1>10 DEF Tick
    <3> QED
      BY <3>2, <3>3
  <2>3. TypeOK'
    BY <2>1, <2>2 DEF TypeOK
  <2>4. CallsInStep' /\ KeepsCooldown
    BY <2>1 DEF CallsInStep, OwnRulesOnly, HasWaited, InStep, KeepsCooldown, AlertsNow
  <2> QED
    BY <2>3, <2>4
<1>11. CASE UNCHANGED vars
  BY <1>11 DEF vars, time, historyVars, TypeOK, CallsInStep, OwnRulesOnly, HasWaited, InStep,
               KeepsCooldown, AlertsNow
<1> QED
  BY <1>1, <1>2, <1>3, <1>4, <1>5, <1>6, <1>7, <1>8, <1>9, <1>10, <1>11 DEF Next

-----------------------------------------------------------------------------
(* Theorems                                                                *)

(* The invariant holds in every state.                                     *)
LEMMA Invariance == Spec => []IInv
<1>1. IInv /\ [Next]_vars => IInv'
  BY StepIInv
<1> QED
  BY <1>1, InitIInv, PTL DEF Spec

(* Type correctness of the engine, its two callers and the table of rules. *)
THEOREM AlertsTypeCorrect == Spec => []TypeOK
<1>1. IInv => TypeOK
  BY DEF IInv
<1> QED
  BY <1>1, Invariance, PTL

(* Whatever the two callers do to the list of rules under each other, a    *)
(* rule that fires has waited for its cooldown since it last fired.        *)
THEOREM CooldownsHold == Spec => CooldownHolds
<1>1. IInv /\ [Next]_vars => [KeepsCooldown]_vars
  BY StepIInv
<1>2. [KeepsCooldown]_vars
        => [\A r \in Rules : AlertsNow(r) => lastFired'[r] - lastFired[r] >= Cooldown]_vars
  BY DEF KeepsCooldown
<1> QED
  BY <1>1, <1>2, Invariance, PTL DEF Spec, CooldownHolds

-----------------------------------------------------------------------------
(* Time                                                                    *)

Refreshing(j) == j.step \in {"selecting", "installing"}
Working(j) == j.step \in {"evaluating", "persisting", "delivering"}

(* How far the clock may be ahead of the calls and of the last refresh.  A *)
(* restarted engine has no list and has not refreshed it.                  *)
Longest == IF MaxStall < RefreshEvery THEN RefreshEvery ELSE MaxStall
Overlap == IF MaxStall < RefreshEvery THEN 0 ELSE MaxStall

CallsOnTime ==
  \A c \in Callers : job[c].step # "idle" =>
    /\ job[c].now <= clock /\ clock <= job[c].now + MaxStall
    /\ lastRefresh # LongAgo
    /\ Refreshing(job[c]) => job[c].now <= lastRefresh /\ lastRefresh <= job[c].now + Overlap
    /\ Working(job[c]) => job[c].now <= lastRefresh + Longest

RefreshOnTime ==
  /\ lastRefresh <= clock
  /\ lastRefresh = LongAgo => \A r \in Rules : rules[r] = Absent
  /\ lastRefresh # LongAgo =>
       /\ lastRefresh >= 0
       /\ clock <= lastRefresh + Longest + MaxStall
       /\ heard => clock < lastRefresh + RefreshEvery

Timely == CallsOnTime /\ RefreshOnTime

-----------------------------------------------------------------------------
(* Rules that are not enabled any more                                     *)

(* A rule that is in a list without being enabled was listed, or could not *)
(* be, at a time that bounds how old the list is, or the call that is      *)
(* about to replace it.                                                    *)
RefreshBegunBy(limit) ==
  \E c \in Callers : Refreshing(job[c]) /\ job[c].now <= limit
SharedListAge ==
  \A r \in Rules : rules[r] # Absent =>
    /\ row[r] # "new"
    /\ row[r] # "enabled" =>
         \/ lastRefresh <= listable[r] + Overlap
         \/ RefreshBegunBy(listable[r] + Overlap + Longest + MaxStall)

OwnListAge ==
  \A c \in Callers, r \in Rules : job[c].list[r] # Absent =>
    /\ row[r] # "new"
    /\ job[c].step = "installing" /\ row[r] # "enabled" => job[c].now <= listable[r]
    /\ Working(job[c]) /\ row[r] # "enabled" => job[c].now <= listable[r] + Stale

(* A call that still goes through the shared list has its rules from it.   *)
SharesRules ==
  \A c \in Callers, r \in Rules :
    Working(job[c]) /\ job[c].shared /\ job[c].list[r] # Absent => rules[r] # Absent

(* The rules a call has before it are in its list.                         *)
AllListed(j) == \A i \in 1..Len(j.todo) : j.list[j.todo[i]] # Absent

TodoListed ==
  \A c \in Callers :
    /\ AllListed(job[c])
    /\ job[c].step \in {"idle", "selecting"} => \A r \in Rules : job[c].list[r] = Absent

ListsAge == SharedListAge /\ OwnListAge /\ SharesRules /\ TodoListed

-----------------------------------------------------------------------------
(* What rules remember                                                     *)

(* As long as nothing else has been seen since its last alert ...          *)
Quiet(r) == kindOf[r] # "threshold" /\ ~news[r]

(* ... a rule remembers what it alerted of, where it is not a list from    *)
(* before the alert, which is out of use when the rule has cooled down.    *)
OutdatedIn(list, r) == list[r] \notin {Absent, alerted[r]}

QuietIsKnown(r) ==
  /\ row[r] = "gone" \/ saved[r] = alerted[r]
  /\ \A c \in Callers :
       job[c].step # "idle" /\ CallerOf(kindOf[r]) = c => job[c].datum = alerted[r]

OutdatedListsExpire(r) ==
  /\ OutdatedIn(rules, r) =>
       \/ lastRefresh <= lastFired[r] + MaxStall + Overlap
       \/ RefreshBegunBy(lastFired[r] + Cooldown - MaxStall - 1)
  /\ \A c \in Callers : OutdatedIn(job[c].list, r) =>
       /\ job[c].step = "installing" => job[c].now <= lastFired[r] + MaxStall
       /\ Working(job[c]) => job[c].now < lastFired[r] + Cooldown

(* An alert that is being saved is of something new.                       *)
SavesNews ==
  \A c \in Callers :
    job[c].step = "persisting" /\ job[c].fires => ~Quiet(Head(job[c].todo))

(* A call carries the rules of its caller only.                            *)
OwnConcern ==
  \A c \in Callers, r \in Rules :
    Working(job[c]) /\ job[c].list[r] # Absent => CallerOf(kindOf[r]) = c

Remembers ==
  /\ \A r \in Rules : Quiet(r) => QuietIsKnown(r) /\ OutdatedListsExpire(r)
  /\ SavesNews /\ OwnConcern

-----------------------------------------------------------------------------
(* How calls move                                                          *)

(* A call is over, or works on with the time, the message and the list.    *)
WorksOn(k, now, datum, list, shared) ==
  \/ k = Idle
  \/ /\ k.step \in {"evaluating", "delivering"}
     /\ k.now = now /\ k.datum = datum /\ k.list = list /\ k.shared = shared

(* An idle call holds nothing.                                             *)
LEMMA IdleHoldsNothing ==
  /\ Idle \in Jobs /\ Idle.step = "idle" /\ AllListed(Idle)
  /\ \A r \in Rules : Idle.list[r] = Absent
<1>1. Len(<<>>) = 0
  OBVIOUS
<1> QED
  BY <1>1, IdleInStep DEF Idle, AllListed

(* Going on changes the step of a call and nothing else.                   *)
LEMMA ContinuedWorksOn ==
  ASSUME NEW j \in Jobs
  PROVE  /\ WorksOn(Continued(j), j.now, j.datum, j.list, j.shared)
         /\ AllListed(j) => AllListed(Continued(j))
<1>1. CASE j.todo # <<>>
  <2>1. Continued(j) = [j EXCEPT !.step = "evaluating"]
    BY <1>1 DEF Continued
  <2> QED
    BY <2>1 DEF Jobs, WorksOn, AllListed
<1>2. CASE j.todo = <<>> /\ j.fired # <<>>
  <2>1. Continued(j) = [j EXCEPT !.step = "delivering"]
    BY <1>2 DEF Continued
  <2> QED
    BY <2>1 DEF Jobs, WorksOn, AllListed
<1>3. CASE j.todo = <<>> /\ j.fired = <<>>
  <2>1. Continued(j) = Idle
    BY <1>3 DEF Continued
  <2> QED
    BY <2>1, IdleHoldsNothing DEF WorksOn
<1> QED
  BY <1>1, <1>2, <1>3

(* A call begins now, with the rules of its concern before it.             *)
LEMMA BegunWorksOn ==
  ASSUME TypeOK, NEW c \in Callers, NEW datum \in Memory, NEW list \in Lists
  PROVE  LET k == Begun(c, datum, list) IN
         k \in Jobs /\ WorksOn(k, clock, datum, Concerned(c, list), TRUE) /\ AllListed(k)
<1> DEFINE concerned == {r \in Rules : Concerned(c, list)[r] # Absent}
           todo == SetToSeq(concerned)
           start == [Idle EXCEPT !.datum = datum, !.now = clock, !.list = Concerned(c, list),
                                 !.shared = TRUE, !.todo = todo]
<1>1. Concerned(c, list) \in Lists
  BY DEF Concerned, Lists
<1>2. concerned \in SUBSET Rules /\ \A r \in concerned : Concerned(c, list)[r] # Absent
  OBVIOUS
<1> HIDE DEF concerned
<1>3. todo \in Seq(concerned)
  BY <1>2, ListsInOrder
<1>4. todo \in Seq(Rules) /\ \A i \in 1..Len(todo) : Concerned(c, list)[todo[i]] # Absent
  BY <1>2, <1>3
<1> HIDE DEF todo
<1>5. /\ start \in Jobs /\ start.todo = todo /\ start.now = clock /\ start.datum = datum
      /\ start.list = Concerned(c, list) /\ start.shared = TRUE
  BY <1>1, <1>4, IdleInStep DEF TypeOK, Jobs, Idle
<1>6. Begun(c, datum, list) = Continued(start)
  BY DEF Begun, todo, concerned
<1>7. Continued(start) \in Jobs
  <2>1. Begun(c, datum, list) \in Jobs
    BY BeginsWithOwnRules
  <2> QED
    BY <1>6, <2>1
<1> HIDE DEF start
<1>8. AllListed(start)
  BY <1>4, <1>5 DEF AllListed
<1>9. /\ WorksOn(Continued(start), clock, datum, Concerned(c, list), TRUE)
      /\ AllListed(Continued(start))
  BY <1>5, <1>8, ContinuedWorksOn
<1> QED
  BY <1>6, <1>7, <1>9

(* A rule is done with: the call goes on with the ones behind it.          *)
LEMMA DecideWorksOn ==
  ASSUME IInv, NEW c \in Callers, NEW fires \in BOOLEAN,
         job[c].todo # <<>>, Decide(c, job[c], Head(job[c].todo), fires)
  PROVE  \E k : /\ job' = [job EXCEPT ![c] = k]
                /\ WorksOn(k, job[c].now, job[c].datum, job[c].list, job[c].shared)
                /\ AllListed(job[c]) => AllListed(k)
<1> DEFINE j == job[c]
           left == [j EXCEPT !.todo = Tail(@), !.fires = FALSE,
                             !.fired = IF fires THEN Append(@, Head(j.todo)) ELSE @]
<1>1. job' = [job EXCEPT ![c] = Continued(left)]
  BY DEF Decide
<1>2. j \in Jobs /\ j.todo \in Seq(Rules) /\ j.fired \in Seq(Rules)
  BY DEF IInv, TypeOK, Jobs
<1>3. /\ Tail(j.todo) \in Seq(Rules) /\ Head(j.todo) \in Rules
      /\ \A i \in 1..Len(Tail(j.todo)) : i + 1 \in 1..Len(j.todo) /\ Tail(j.todo)[i] = j.todo[i + 1]
  BY <1>2
<1>4. (IF fires THEN Append(j.fired, Head(j.todo)) ELSE j.fired) \in Seq(Rules)
  BY <1>2, <1>3
<1>5. /\ left \in Jobs /\ left.todo = Tail(j.todo) /\ left.now = j.now /\ left.datum = j.datum
      /\ left.list = j.list /\ left.shared = j.shared
  <2> HIDE DEF j
  <2> QED
    BY <1>2, <1>3, <1>4 DEF Jobs
<1> HIDE DEF left
<1>6. AllListed(j) => AllListed(left)
  <2> HIDE DEF j
  <2> QED
    BY <1>3, <1>5 DEF AllListed
<1>7. WorksOn(Continued(left), j.now, j.datum, j.list, j.shared)
      /\ (AllListed(left) => AllListed(Continued(left)))
  BY <1>5, ContinuedWorksOn
<1> QED
  BY <1>1, <1>6, <1>7

(* Evaluating, saving and delivering are the work on a call's list.        *)
LEMMA WorkGoesOn ==
  ASSUME IInv, NEW c \in Callers, Evaluate(c) \/ Persist(c) \/ Deliver(c)
  PROVE  /\ Working(job[c])
         /\ UNCHANGED <<kindOf, row, lastRefresh, time, listable>>
         /\ \E k : /\ job' = [job EXCEPT ![c] = k]
                   /\ k = Idle \/ (Working(k) /\ k.now = job[c].now /\ k.shared = job[c].shared
                                   /\ k.datum = job[c].datum)
                   /\ AllListed(job[c]) =>
                        /\ AllListed(k)
                        /\ k # Idle => \A r \in Rules : k.list[r] = Absent <=> job[c].list[r] = Absent
         /\ \/ UNCHANGED rules
            \/ /\ job[c].shared /\ job[c].todo # <<>>
               /\ rules' = [rules EXCEPT ![Head(job[c].todo)] = job[c].datum]
<1> DEFINE j == job[c]
           r == Head(j.todo)
<1>1. j \in Jobs /\ j.todo \in Seq(Rules) /\ j.list \in Lists /\ j.datum \in Memory
      /\ InStep(j) /\ j.fired \in Seq(Rules)
  BY DEF IInv, TypeOK, CallsInStep, Jobs
<1>2. CASE Deliver(c)
  <2> DEFINE left == [j EXCEPT !.fired = Tail(@)]
  <2>1. /\ j.step = "delivering" /\ job' = [job EXCEPT ![c] = Continued(left)]
        /\ UNCHANGED <<kindOf, row, rules, lastRefresh, time, listable>>
    BY <1>2 DEF Deliver, historyVars
  <2>2. Tail(j.fired) \in Seq(Rules)
    BY <1>1, <2>1 DEF InStep
  <2>3. left \in Jobs /\ left.todo = j.todo /\ left.now = j.now /\ left.shared = j.shared
        /\ left.datum = j.datum /\ left.list = j.list
    BY <1>1, <2>2 DEF Jobs
  <2> HIDE DEF left
  <2>4. /\ WorksOn(Continued(left), j.now, j.datum, j.list, j.shared)
        /\ AllListed(j) => AllListed(Continued(left))
    BY <2>3, ContinuedWorksOn DEF AllListed
  <2> QED
    BY <2>1, <2>4 DEF WorksOn, Working
<1>3. ASSUME NEW fires \in BOOLEAN, Working(j), j.todo # <<>>, Decide(c, j, r, fires),
             UNCHANGED <<kindOf, row, rules, lastRefresh, time, listable>>
      PROVE  \E k : /\ job' = [job EXCEPT ![c] = k]
                    /\ k = Idle \/ (Working(k) /\ k.now = j.now /\ k.shared = j.shared
                                    /\ k.datum = j.datum)
                    /\ AllListed(j) =>
                         /\ AllListed(k)
                         /\ k # Idle => \A q \in Rules : k.list[q] = Absent <=> j.list[q] = Absent
  <2>1. PICK k : /\ job' = [job EXCEPT ![c] = k]
                 /\ WorksOn(k, j.now, j.datum, j.list, j.shared)
                 /\ AllListed(j) => AllListed(k)
    BY <1>3, DecideWorksOn
  <2> QED
    BY <2>1 DEF WorksOn, Working
<1>4. CASE Persist(c)
  <2>1. /\ j.step = "persisting" /\ Decide(c, j, r, j.fires) /\ j.fires \in BOOLEAN
        /\ UNCHANGED <<kindOf, row, rules, lastRefresh, time, listable>>
    BY <1>1, <1>4 DEF Persist, Jobs
  <2>2. Working(j) /\ j.todo # <<>>
    BY <1>1, <2>1 DEF Working, InStep
  <2> QED
    BY <1>3, <2>1, <2>2
<1>5. CASE Evaluate(c)
  <2> DEFINE memory == Remembered(r, j.list[r], j.datum)
             fires == Fires(r, j.list[r], j.datum)
  <2>1. j.step = "evaluating" /\ UNCHANGED <<kindOf, row, lastRefresh, time, listable>>
    BY <1>5 DEF Evaluate
  <2>2. Working(j) /\ j.todo # <<>> /\ r \in Rules
    <3>1. Working(j) /\ j.todo # <<>>
      BY <1>1, <2>1 DEF Working, InStep
    <3> QED
      BY <1>1, <3>1
  <2>3. fires \in BOOLEAN
    <3>1. kindOf[r] \in Kinds
      BY <2>2 DEF IInv, TypeOK
    <3> QED
      BY <3>1 DEF Fires, Kinds
  <2>4. CASE (Decide(c, j, r, FALSE) \/ Decide(c, j, r, fires)) /\ UNCHANGED rules
    <3> HIDE DEF fires
    <3> QED
      BY <1>3, <2>1, <2>2, <2>3, <2>4
  <2>5. CASE /\ memory # j.list[r]
             /\ job' = [job EXCEPT ![c].step = "persisting", ![c].list[r] = memory,
                                   ![c].fires = fires]
             /\ rules' = IF j.shared THEN [rules EXCEPT ![r] = memory] ELSE rules
    <3> DEFINE k == [j EXCEPT !.step = "persisting", !.list = [@ EXCEPT ![r] = memory], !.fires = fires]
    <3>1. memory = j.datum
      BY <2>5 DEF Remembered
    <3>2. job' = [job EXCEPT ![c] = k]
      <4> HIDE DEF memory, fires, r
      <4> QED
        BY <1>1, <2>5 DEF IInv, TypeOK, Jobs
    <3>3. /\ k.step = "persisting" /\ k.todo = j.todo /\ k.now = j.now /\ k.shared = j.shared
          /\ k.datum = j.datum /\ k.list = [j.list EXCEPT ![r] = j.datum]
      <4> HIDE DEF memory, fires, r
      <4> QED
        BY <1>1, <3>1 DEF Jobs
    <3>4. j.datum # Absent /\ (AllListed(j) => j.list[r] # Absent)
      <4>1. AllListed(j) => j.list[r] # Absent
        <5>1. 1 \in 1..Len(j.todo) /\ r = j.todo[1]
          BY <1>1, <2>2
        <5> HIDE DEF r, j
        <5> QED
          BY <5>1 DEF AllListed
      <4> HIDE DEF r, j
      <4> QED
        BY <1>1, <4>1 DEF Memory, Absent, None
    <3> HIDE DEF k
    <3>5. ASSUME AllListed(j), NEW q \in Rules PROVE k.list[q] = Absent <=> j.list[q] = Absent
      <4> HIDE DEF r, j
      <4> QED
        BY <1>1, <2>2, <3>3, <3>4, <3>5 DEF Lists
    <3>6. AllListed(j) => AllListed(k)
      <4>1. \A i \in 1..Len(j.todo) : j.todo[i] \in Rules
        BY <1>1
      <4> HIDE DEF r, j
      <4> QED
        BY <3>3, <3>5, <4>1 DEF AllListed
    <3>7. k = Idle \/ (Working(k) /\ k.now = j.now /\ k.shared = j.shared /\ k.datum = j.datum)
      BY <3>3 DEF Working
    <3>8. \/ UNCHANGED rules
          \/ j.shared /\ j.todo # <<>> /\ rules' = [rules EXCEPT ![r] = j.datum]
      BY <2>2, <2>5, <3>1
    <3>9. \E m : /\ job' = [job EXCEPT ![c] = m]
                 /\ m = Idle \/ (Working(m) /\ m.now = j.now /\ m.shared = j.shared
                                 /\ m.datum = j.datum)
                 /\ AllListed(j) =>
                      /\ AllListed(m)
                      /\ m # Idle => \A q \in Rules : m.list[q] = Absent <=> j.list[q] = Absent
      <4> HIDE DEF r, j
      <4> QED
        BY <3>2, <3>5, <3>6, <3>7
    <3> QED
      BY <2>1, <2>2, <3>8, <3>9
  <2> QED
    BY <1>5, <2>4, <2>5 DEF Evaluate
<1> QED
  BY <1>2, <1>4, <1>5

-----------------------------------------------------------------------------
(* Refreshes come in time                                                  *)

(* What is known of the times.                                             *)
LEMMA TimeTypes ==
  ASSUME TypeOK
  PROVE  /\ clock \in Nat /\ lastRefresh \in Int
         /\ \A r \in Rules : listable[r] \in Nat /\ lastFired[r] \in Int
         /\ \A c \in Callers : job[c] \in Jobs /\ job[c].now \in Nat
  BY DEF TypeOK, Jobs, LongAgo, Never

(* A list is young only if it has been read.                               *)
LEMMA YoungListWasRead ==
  ASSUME TypeOK, clock - lastRefresh < RefreshEvery
  PROVE  lastRefresh # LongAgo
  BY TimeTypes DEF LongAgo

(* How the ages add up.                                                    *)
LEMMA AgesAddUp ==
  /\ Longest \in Nat /\ Overlap \in Nat /\ Stale \in Nat
  /\ Stale = Overlap + Longest + 2 * MaxStall
  /\ RefreshEvery <= Longest /\ MaxStall <= Longest /\ Overlap <= MaxStall
  BY DEF Longest, Overlap, Stale

(* A refresh that is still under way when the list is too old again.       *)
LEMMA RefreshesOverlap ==
  ASSUME TypeOK, Timely, ~(clock - lastRefresh < RefreshEvery),
         NEW c \in Callers, Refreshing(job[c])
  PROVE  clock <= job[c].now + Overlap
<1>1. job[c].step # "idle"
  BY DEF Refreshing
<1>2. /\ clock <= job[c].now + MaxStall
      /\ job[c].now <= lastRefresh /\ lastRefresh <= job[c].now + Overlap
  BY <1>1 DEF Timely, CallsOnTime
<1> QED
  BY <1>2, TimeTypes DEF Overlap

(* A call that moves on within its time.                                   *)
LEMMA CallStaysTimely ==
  ASSUME IInv, Timely, NEW c \in Callers, NEW k, job' = [job EXCEPT ![c] = k],
         UNCHANGED <<clock, lastRefresh>>,
         heard' => heard \/ clock < lastRefresh + RefreshEvery,
         lastRefresh = LongAgo => \A r \in Rules : rules'[r] = Absent,
         k.step = "idle"
           \/ /\ k.now <= clock /\ clock <= k.now + MaxStall /\ lastRefresh # LongAgo
              /\ Refreshing(k) => Refreshing(job[c]) /\ k.now = job[c].now
              /\ Working(k) => k.now <= lastRefresh + Longest
  PROVE  Timely'
<1>1. \A d \in Callers : job'[d] = IF d = c THEN k ELSE job[d]
  BY DEF IInv, TypeOK
<1>2. CallsOnTime'
  BY <1>1 DEF Timely, CallsOnTime, Refreshing, Working
<1>3. RefreshOnTime'
  BY DEF Timely, RefreshOnTime
<1> QED
  BY <1>2, <1>3 DEF Timely

(* A new engine owes nothing.                                              *)
LEMMA InitTimely == Init => Timely
<1> SUFFICES ASSUME Init PROVE Timely
  OBVIOUS
<1>1. \A c \in Callers : job[c].step = "idle"
  BY DEF Init, Idle
<1> QED
  BY <1>1 DEF Init, Timely, CallsOnTime, RefreshOnTime, Refreshing, LongAgo

(* Every step keeps calls and refreshes in time: time does not pass        *)
(* without a call of the loop, and it finds a list that is too old.        *)
LEMMA StepTimely == IInv /\ Timely /\ [Next]_vars => Timely'
<1> SUFFICES ASSUME IInv, Timely, [Next]_vars PROVE Timely'
  OBVIOUS
<1>0. /\ clock \in Nat /\ lastRefresh \in Int
      /\ \A c \in Callers : job[c] \in Jobs /\ job[c].now \in Nat
  BY TimeTypes DEF IInv
<1>1. ASSUME NEW c \in Callers, NEW datum \in Data(c), Handle(c, datum) PROVE Timely'
  <2>1. datum \in Memory /\ rules \in Lists
    BY DEF Data, Memory, IInv, TypeOK
  <2>2. CASE clock - lastRefresh < RefreshEvery
    <3> DEFINE k == Begun(c, datum, rules)
    <3>1. job' = [job EXCEPT ![c] = k] /\ UNCHANGED <<clock, lastRefresh, rules>>
      BY <1>1, <2>2 DEF Handle
    <3>2. WorksOn(k, clock, datum, Concerned(c, rules), TRUE)
      BY <2>1, BegunWorksOn DEF IInv
    <3>3. lastRefresh # LongAgo
      BY <2>2, YoungListWasRead DEF IInv
    <3> HIDE DEF k
    <3>4. \/ k.step = "idle"
          \/ /\ k.now <= clock /\ clock <= k.now + MaxStall /\ ~Refreshing(k)
             /\ k.now <= lastRefresh + Longest
      BY <1>0, <2>2, <3>2, IdleHoldsNothing, AgesAddUp DEF WorksOn, Refreshing
    <3>5. clock < lastRefresh + RefreshEvery
      BY <1>0, <2>2
    <3> QED
      BY <3>1, <3>3, <3>4, <3>5, CallStaysTimely
  <2>3. CASE ~(clock - lastRefresh < RefreshEvery)
    <3> DEFINE k == [Idle EXCEPT !.step = "selecting", !.datum = datum, !.now = clock]
    <3>1. /\ job' = [job EXCEPT ![c] = k] /\ lastRefresh' = clock
          /\ UNCHANGED <<clock, rules>>
      BY <1>1, <2>3 DEF Handle
    <3>2. k.step = "selecting" /\ k.now = clock
      BY DEF Idle
    <3>3. \A d \in Callers : Refreshing(job[d]) => clock <= job[d].now + Overlap
      BY <2>3, RefreshesOverlap DEF IInv
    <3> HIDE DEF k
    <3>4. \A d \in Callers : job'[d] = IF d = c THEN k ELSE job[d]
      BY <3>1 DEF IInv, TypeOK
    <3>5. lastRefresh' # LongAgo /\ lastRefresh' >= 0
      BY <1>0, <3>1 DEF LongAgo
    <3>6. CallsOnTime'
      <4> SUFFICES ASSUME NEW d \in Callers, job'[d].step # "idle"
                   PROVE  /\ job'[d].now <= clock' /\ clock' <= job'[d].now + MaxStall
                          /\ lastRefresh' # LongAgo
                          /\ Refreshing(job'[d]) => /\ job'[d].now <= lastRefresh'
                                                    /\ lastRefresh' <= job'[d].now + Overlap
                          /\ Working(job'[d]) => job'[d].now <= lastRefresh' + Longest
        BY DEF CallsOnTime, LongAgo, Refreshing, Working, Longest, Overlap
      <4>1. CASE d = c
        BY <1>0, <3>1, <3>2, <3>4, <3>5, <4>1, AgesAddUp DEF Working
      <4>2. CASE d # c
        <5>1. job'[d] = job[d] /\ job[d].now <= clock /\ clock <= job[d].now + MaxStall
          BY <3>4, <4>2 DEF Timely, CallsOnTime
        <5> QED
          BY <1>0, <3>1, <3>3, <3>5, <5>1, AgesAddUp
      <4> QED
        BY <4>1, <4>2
    <3>7. RefreshOnTime'
      <4>1. RefreshEvery > 0 /\ Longest' = Longest
        BY DEF Longest
      <4> QED
        BY <1>0, <3>1, <3>5, <4>1, AgesAddUp DEF RefreshOnTime, LongAgo
    <3> QED
      BY <3>6, <3>7 DEF Timely
  <2> QED
    BY <2>2, <2>3
<1>2. ASSUME NEW c \in Callers, Select(c) PROVE Timely'
  <2> DEFINE k == [job[c] EXCEPT !.step = "installing", !.list = EnabledRules]
  <2>1. /\ job[c].step = "selecting" /\ job' = [job EXCEPT ![c] = k]
        /\ UNCHANGED <<clock, heard, lastRefresh, rules>>
    BY <1>2, <1>0 DEF Select, TypeOK, Jobs, time
  <2>2. k.step = "installing" /\ k.now = job[c].now
    BY <1>0 DEF Jobs
  <2> HIDE DEF k
  <2>3. /\ k.now <= clock /\ clock <= k.now + MaxStall /\ lastRefresh # LongAgo
        /\ Refreshing(job[c]) /\ k.now = job[c].now /\ ~Working(k)
    BY <2>1, <2>2 DEF Timely, CallsOnTime, Refreshing, Working
  <2> QED
    BY <2>1, <2>3, CallStaysTimely DEF Timely, RefreshOnTime
<1>3. ASSUME NEW c \in Callers, Install(c) PROVE Timely'
  <2> DEFINE k == Begun(c, job[c].datum, job[c].list)
  <2>1. /\ job[c].step = "installing" /\ UNCHANGED <<clock, heard, lastRefresh>>
        /\ job' = [d \in Callers |-> IF d = c THEN k ELSE [job[d] EXCEPT !.shared = FALSE]]
    BY <1>3 DEF Install, time
  <2>2. job[c].datum \in Memory /\ job[c].list \in Lists
    BY <1>0 DEF Jobs
  <2>3. WorksOn(k, clock, job[c].datum, Concerned(c, job[c].list), TRUE)
    BY <2>2, BegunWorksOn DEF IInv
  <2>4. /\ lastRefresh # LongAgo /\ clock <= job[c].now + MaxStall /\ job[c].now <= lastRefresh
    BY <2>1 DEF Timely, CallsOnTime, Refreshing
  <2> HIDE DEF k
  <2>5. \/ k.step = "idle"
        \/ /\ k.now = clock /\ ~Refreshing(k)
    BY <2>3, IdleHoldsNothing DEF WorksOn, Refreshing
  <2>6. \A d \in Callers \ {c} : job'[d].step = job[d].step /\ job'[d].now = job[d].now
    BY <1>0, <2>1 DEF Jobs
  <2>7. job'[c] = k
    BY <2>1
  <2>8. clock <= lastRefresh + Longest
    BY <1>0, <2>4, AgesAddUp
  <2>9. CallsOnTime'
    <3>1. ASSUME NEW d \in Callers, job'[d].step # "idle"
          PROVE  /\ job'[d].now <= clock /\ clock <= job'[d].now + MaxStall
                 /\ lastRefresh # LongAgo
                 /\ Refreshing(job'[d]) => /\ job'[d].now <= lastRefresh
                                           /\ lastRefresh <= job'[d].now + Overlap
                 /\ Working(job'[d]) => job'[d].now <= lastRefresh + Longest
      <4>1. CASE d = c
        BY <1>0, <2>4, <2>5, <2>7, <2>8, <3>1, <4>1
      <4>2. CASE d # c
        BY <2>6, <3>1, <4>2 DEF Timely, CallsOnTime, Refreshing, Working
      <4> QED
        BY <4>1, <4>2
    <3> QED
      BY <2>1, <3>1 DEF CallsOnTime, Refreshing, Working, LongAgo, Longest, Overlap
  <2>10. RefreshOnTime'
    BY <2>1, <2>4 DEF Timely, RefreshOnTime, LongAgo, Longest
  <2> QED
    BY <2>9, <2>10 DEF Timely
<1>4. ASSUME NEW c \in Callers, SelectFails(c) \/ StepFails(c) PROVE Timely'
  <2>1. job' = [job EXCEPT ![c] = Idle] /\ UNCHANGED <<clock, heard, lastRefresh, rules>>
    BY <1>4 DEF SelectFails, StepFails, time
  <2> QED
    BY <2>1, IdleHoldsNothing, CallStaysTimely DEF Timely, RefreshOnTime
<1>5. ASSUME NEW c \in Callers, Evaluate(c) \/ Persist(c) \/ Deliver(c) PROVE Timely'
  <2>1. Working(job[c]) /\ UNCHANGED <<lastRefresh, clock, heard>>
    BY <1>5, WorkGoesOn DEF time
  <2>2. PICK k : /\ job' = [job EXCEPT ![c] = k]
                 /\ k = Idle \/ (Working(k) /\ k.now = job[c].now)
    BY <1>5, WorkGoesOn
  <2>3. /\ lastRefresh # LongAgo /\ job[c].now <= lastRefresh + Longest
        /\ job[c].now <= clock /\ clock <= job[c].now + MaxStall
    BY <2>1 DEF Timely, CallsOnTime, Working
  <2> QED
    BY <2>1, <2>2, <2>3, IdleHoldsNothing, CallStaysTimely DEF Working, Refreshing
<1>6. CASE WorkerRestarts
  <2>1. /\ lastRefresh' = LongAgo /\ UNCHANGED <<clock, heard>>
        /\ \A c \in Callers : job'[c].step = "idle"
        /\ \A r \in Rules : rules'[r] = Absent
    BY <1>6, IdleHoldsNothing DEF WorkerRestarts, time
  <2> QED
    BY <1>0, <2>1 DEF Timely, CallsOnTime, RefreshOnTime, Refreshing, LongAgo
<1>7. ASSUME NEW r \in Rules, CreateRule(r) \/ ToggleRule(r) \/ DeleteRule(r) PROVE Timely'
  <2>1. UNCHANGED <<clock, heard, lastRefresh, rules, job>>
    BY <1>7 DEF CreateRule, ToggleRule, DeleteRule, time
  <2> QED
    BY <2>1 DEF Timely, CallsOnTime, RefreshOnTime, Refreshing, Working, LongAgo
<1>8. CASE Tick
  <2>1. /\ heard \/ job["loop"].step # "idle"
        /\ \A c \in Callers : job[c].step # "idle" => clock - job[c].now < MaxStall
        /\ clock' = clock + 1 /\ heard' = FALSE
        /\ UNCHANGED <<lastRefresh, rules, job>>
    BY <1>8 DEF Tick
  <2>2. CallsOnTime'
    BY <1>0, <2>1 DEF Timely, CallsOnTime, Refreshing, Working, LongAgo
  <2>3. lastRefresh # LongAgo => clock + 1 <= lastRefresh + Longest + MaxStall
    <3>1. CASE heard
      BY <1>0, <3>1, AgesAddUp DEF Timely, RefreshOnTime
    <3>2. CASE job["loop"].step # "idle"
      <4>1. "loop" \in Callers
        BY DEF Callers
      <4>2. clock - job["loop"].now < MaxStall
        BY <2>1, <3>2, <4>1
      <4>3. job["loop"].step \in {"selecting", "installing", "evaluating", "persisting", "delivering"}
        BY <1>0, <3>2, <4>1 DEF Jobs
      <4>4. job["loop"].now <= lastRefresh \/ job["loop"].now <= lastRefresh + Longest
        BY <3>2, <4>1, <4>3 DEF Timely, CallsOnTime, Refreshing, Working
      <4> QED
        BY <1>0, <4>1, <4>2, <4>4, AgesAddUp
    <3> QED
      BY <2>1, <3>1, <3>2
  <2>4. RefreshOnTime'
    BY <1>0, <2>1, <2>3 DEF Timely, RefreshOnTime, LongAgo, Longest
  <2> QED
    BY <2>2, <2>4 DEF Timely
<1>9. CASE UNCHANGED vars
  BY <1>9 DEF vars, time, Timely, CallsOnTime, RefreshOnTime, Refreshing, Working, LongAgo
<1> QED
  BY <1>1, <1>2, <1>3, <1>4, <1>5, <1>6, <1>7, <1>8, <1>9 DEF Next

-----------------------------------------------------------------------------
(* Lists do not grow old                                                   *)

(* Types of what the lists' ages depend on.                                *)
LEMMA ListTypes ==
  ASSUME TypeOK
  PROVE  /\ job \in [Callers -> Jobs] /\ rules \in [Rules -> Memory \cup {Absent}]
         /\ row \in [Rules -> {"new", "enabled", "disabled", "gone"}]
         /\ listable \in [Rules -> Nat]
         /\ \A c \in Callers : job[c].list \in [Rules -> Memory \cup {Absent}]
  BY DEF TypeOK, Jobs, Lists

(* A call that ends or works on with rules it has had before.              *)
LEMMA ListsAgeOnward ==
  ASSUME IInv, ListsAge, NEW c \in Callers, NEW k, job' = [job EXCEPT ![c] = k],
         Working(job[c]), UNCHANGED <<row, lastRefresh, listable>>,
         k = Idle \/ /\ Working(k) /\ k.now = job[c].now /\ k.shared = job[c].shared
                     /\ \A r \in Rules : k.list[r] = Absent <=> job[c].list[r] = Absent,
         AllListed(k),
         \A r \in Rules : rules'[r] = Absent <=> rules[r] = Absent
  PROVE  ListsAge'
<1>1. \A d \in Callers : job'[d] = IF d = c THEN k ELSE job[d]
  BY DEF IInv, TypeOK
<1>2. \A d \in Callers : Refreshing(job[d]) => job'[d] = job[d]
  BY <1>1 DEF Refreshing, Working
<1>3. SharedListAge'
  BY <1>2 DEF ListsAge, SharedListAge, RefreshBegunBy, Refreshing, Longest, Overlap
<1>4. OwnListAge'
  BY <1>1, IdleHoldsNothing DEF ListsAge, OwnListAge, Working
<1>5. SharesRules'
  BY <1>1, IdleHoldsNothing DEF ListsAge, SharesRules, Working
<1>6. TodoListed'
  <2> SUFFICES ASSUME NEW d \in Callers
               PROVE  /\ AllListed(job'[d])
                      /\ job'[d].step \in {"idle", "selecting"}
                           => \A r \in Rules : job'[d].list[r] = Absent
    BY DEF TodoListed, AllListed
  <2> QED
    BY <1>1, IdleHoldsNothing DEF ListsAge, TodoListed, Working
<1> QED
  BY <1>3, <1>4, <1>5, <1>6 DEF ListsAge

(* There are no lists in a new engine.                                     *)
LEMMA InitListsAge == Init => ListsAge
<1> SUFFICES ASSUME Init PROVE ListsAge
  OBVIOUS
<1>1. \A c \in Callers : job[c] = Idle
  BY DEF Init
<1>2. \A r \in Rules : rules[r] = Absent
  BY DEF Init
<1> QED
  BY <1>1, <1>2, IdleHoldsNothing
     DEF ListsAge, SharedListAge, OwnListAge, SharesRules, TodoListed, Working

(* Every step keeps the bounds on how old the lists are.                   *)
LEMMA StepListsAge == IInv /\ Timely /\ ListsAge /\ [Next]_vars => ListsAge'
<1> SUFFICES ASSUME IInv, Timely, ListsAge, [Next]_vars PROVE ListsAge'
  OBVIOUS
<1>0. /\ clock \in Nat /\ lastRefresh \in Int /\ \A r \in Rules : listable[r] \in Nat
      /\ \A c \in Callers : job[c] \in Jobs /\ job[c].now \in Nat
  BY TimeTypes DEF IInv
<1>1. ASSUME NEW c \in Callers, NEW datum \in Data(c), Handle(c, datum) PROVE ListsAge'
  <2>1. datum \in Memory /\ rules \in Lists /\ job[c].step = "idle"
        /\ UNCHANGED <<row, rules, listable>>
    BY <1>1 DEF Data, Memory, IInv, TypeOK, Handle
  <2>2. CASE clock - lastRefresh < RefreshEvery
    <3> DEFINE k == Begun(c, datum, rules)
    <3>1. job' = [job EXCEPT ![c] = k] /\ UNCHANGED lastRefresh
      BY <1>1, <2>2 DEF Handle
    <3>2. WorksOn(k, clock, datum, Concerned(c, rules), TRUE) /\ AllListed(k)
      BY <2>1, BegunWorksOn DEF IInv
    <3> HIDE DEF k
    <3>3. \A d \in Callers : job'[d] = IF d = c THEN k ELSE job[d]
      BY <3>1 DEF IInv, TypeOK
    <3>4. ~Refreshing(k) /\ ~Refreshing(job[c]) /\ k.step # "selecting"
      BY <2>1, <3>2, IdleHoldsNothing DEF WorksOn, Refreshing
    <3>5. ASSUME NEW r \in Rules, k.list[r] # Absent
          PROVE  /\ k.now = clock /\ k.shared /\ Working(k) /\ rules[r] # Absent
      BY <3>2, <3>5, IdleHoldsNothing DEF WorksOn, Working, Concerned
    <3>6. \A d \in Callers : Refreshing(job[d]) => job'[d] = job[d]
      BY <3>3, <3>4
    <3>7. SharedListAge'
      BY <2>1, <3>1, <3>6
         DEF ListsAge, SharedListAge, RefreshBegunBy, Refreshing, Longest, Overlap
    <3>8. ASSUME NEW r \in Rules, rules[r] # Absent, row[r] # "enabled"
          PROVE  clock <= listable[r] + Stale
      <4>1. \/ lastRefresh <= listable[r] + Overlap
            \/ RefreshBegunBy(listable[r] + Overlap + Longest + MaxStall)
        BY <3>8 DEF ListsAge, SharedListAge
      <4>2. CASE lastRefresh <= listable[r] + Overlap
        BY <1>0, <2>2, <4>2, AgesAddUp
      <4>3. CASE RefreshBegunBy(listable[r] + Overlap + Longest + MaxStall)
        <5>1. PICK d \in Callers :
                Refreshing(job[d]) /\ job[d].now <= listable[r] + Overlap + Longest + MaxStall
          BY <4>3 DEF RefreshBegunBy
        <5>2. clock <= job[d].now + MaxStall
          BY <5>1 DEF Timely, CallsOnTime, Refreshing
        <5> QED
          BY <1>0, <5>1, <5>2, AgesAddUp
      <4> QED
        BY <4>1, <4>2, <4>3
    <3>9. OwnListAge'
      <4> SUFFICES ASSUME NEW d \in Callers, NEW r \in Rules, job'[d].list[r] # Absent
                   PROVE  /\ row[r] # "new"
                          /\ job'[d].step = "installing" /\ row[r] # "enabled"
                               => job'[d].now <= listable[r]
                          /\ Working(job'[d]) /\ row[r] # "enabled"
                               => job'[d].now <= listable[r] + Stale
        BY <2>1 DEF OwnListAge, Working, Stale
      <4>1. CASE d = c
        BY <3>3, <3>4, <3>5, <3>8, <4>1 DEF ListsAge, SharedListAge, Refreshing
      <4>2. CASE d # c
        BY <3>3, <4>2 DEF ListsAge, OwnListAge
      <4> QED
        BY <4>1, <4>2
    <3>10. SharesRules'
      BY <2>1, <3>3, <3>5 DEF ListsAge, SharesRules, Working
    <3>11. TodoListed'
      <4> SUFFICES ASSUME NEW d \in Callers
                   PROVE  /\ AllListed(job'[d])
                          /\ job'[d].step \in {"idle", "selecting"}
                               => \A r \in Rules : job'[d].list[r] = Absent
        BY DEF TodoListed, AllListed
      <4>1. CASE d = c
        <5>1. k.step = "idle" => k = Idle
          BY <3>2 DEF WorksOn
        <5> QED
          BY <3>2, <3>3, <3>4, <4>1, <5>1, IdleHoldsNothing
      <4>2. CASE d # c
        BY <3>3, <4>2 DEF ListsAge, TodoListed
      <4> QED
        BY <4>1, <4>2
    <3> QED
      BY <3>7, <3>9, <3>10, <3>11 DEF ListsAge
  <2>3. CASE ~(clock - lastRefresh < RefreshEvery)
    <3> DEFINE k == [Idle EXCEPT !.step = "selecting", !.datum = datum, !.now = clock]
    <3>1. job' = [job EXCEPT ![c] = k] /\ lastRefresh' = clock
      BY <1>1, <2>3 DEF Handle
    <3>2. k.step = "selecting" /\ k.list = Idle.list /\ k.todo = Idle.todo
      BY DEF Idle
    <3>3. AllListed(k) /\ \A r \in Rules : k.list[r] = Absent
      BY <3>2, IdleHoldsNothing DEF AllListed
    <3> HIDE DEF k
    <3>4. \A d \in Callers : job'[d] = IF d = c THEN k ELSE job[d]
      BY <3>1 DEF IInv, TypeOK
    <3>5. k.now = clock /\ Refreshing(k)
      BY <3>2 DEF k, Idle, Refreshing
    <3>6. \A d \in Callers : Refreshing(job[d]) => job'[d] = job[d]
      BY <2>1, <3>4 DEF Refreshing
    <3>7. SharedListAge'
      <4> SUFFICES ASSUME NEW r \in Rules, rules[r] # Absent
                   PROVE  /\ row[r] # "new"
                          /\ row[r] # "enabled" =>
                               RefreshBegunBy(listable[r] + Overlap + Longest + MaxStall)'
        BY <2>1 DEF SharedListAge
      <4>1. lastRefresh # LongAgo /\ clock <= lastRefresh + Longest + MaxStall
        BY DEF Timely, RefreshOnTime
      <4>2. /\ row[r] # "new"
            /\ row[r] # "enabled" =>
                 \/ lastRefresh <= listable[r] + Overlap
                 \/ RefreshBegunBy(listable[r] + Overlap + Longest + MaxStall)
        BY DEF ListsAge, SharedListAge
      <4>3. ASSUME lastRefresh <= listable[r] + Overlap
            PROVE  job'[c].now <= listable[r] + Overlap + Longest + MaxStall /\ Refreshing(job'[c])
        BY <1>0, <3>4, <3>5, <4>1, <4>3, AgesAddUp
      <4>4. ASSUME NEW d \in Callers, Refreshing(job[d]),
                   job[d].now <= listable[r] + Overlap + Longest + MaxStall
            PROVE  /\ job'[d].now <= listable[r] + Overlap + Longest + MaxStall
                   /\ Refreshing(job'[d])
        BY <3>6, <4>4
      <4> QED
        BY <2>1, <4>2, <4>3, <4>4 DEF RefreshBegunBy, Refreshing, Longest, Overlap
    <3>8. OwnListAge'
      BY <2>1, <3>3, <3>4 DEF ListsAge, OwnListAge, Working, Stale
    <3>9. SharesRules'
      BY <2>1, <3>2, <3>4 DEF ListsAge, SharesRules, Working
    <3>10. TodoListed'
      <4> SUFFICES ASSUME NEW d \in Callers
                   PROVE  /\ AllListed(job'[d])
                          /\ job'[d].step \in {"idle", "selecting"}
                               => \A r \in Rules : job'[d].list[r] = Absent
        BY DEF TodoListed, AllListed
      <4> QED
        BY <3>3, <3>4 DEF ListsAge, TodoListed
    <3> QED
      BY <3>7, <3>8, <3>9, <3>10 DEF ListsAge
  <2> QED
    BY <2>2, <2>3
<1>2. ASSUME NEW c \in Callers, Select(c) PROVE ListsAge'
  <2> DEFINE k == [job[c] EXCEPT !.step = "installing", !.list = EnabledRules]
  <2>1. /\ job[c].step = "selecting" /\ job' = [job EXCEPT ![c] = k]
        /\ UNCHANGED <<row, lastRefresh, rules, listable>>
    BY <1>2, <1>0 DEF Select, TypeOK, Jobs, time, historyVars
  <2>2. k.step = "installing" /\ k.now = job[c].now /\ k.list = EnabledRules /\ k.todo = job[c].todo
    BY <1>0 DEF Jobs
  <2> HIDE DEF k
  <2>3. \A d \in Callers : job'[d] = IF d = c THEN k ELSE job[d]
    BY <2>1 DEF IInv, TypeOK
  <2>4. \A d \in Callers :
          Refreshing(job[d]) => Refreshing(job'[d]) /\ job'[d].now = job[d].now
    BY <2>2, <2>3 DEF Refreshing
  <2>5. \A r \in Rules : EnabledRules[r] # Absent => row[r] = "enabled"
    BY DEF EnabledRules
  <2>6. AllListed(k)
    <3>1. job[c].todo \in Seq(Rules) /\ AllListed(job[c])
          /\ \A r \in Rules : job[c].list[r] = Absent
      BY <1>0, <2>1 DEF Jobs, ListsAge, TodoListed
    <3>2. \A i \in 1..Len(job[c].todo) : job[c].todo[i] \in Rules
      BY <3>1
    <3> QED
      BY <2>2, <3>1, <3>2 DEF AllListed
  <2>7. SharedListAge'
    BY <2>1, <2>4 DEF ListsAge, SharedListAge, RefreshBegunBy, Refreshing, Longest, Overlap
  <2>8. OwnListAge'
    BY <2>1, <2>2, <2>3, <2>5 DEF ListsAge, OwnListAge, Working, Stale
  <2>9. SharesRules'
    BY <2>1, <2>2, <2>3 DEF ListsAge, SharesRules, Working
  <2>10. TodoListed'
    <3> SUFFICES ASSUME NEW d \in Callers
                 PROVE  /\ AllListed(job'[d])
                        /\ job'[d].step \in {"idle", "selecting"}
                             => \A r \in Rules : job'[d].list[r] = Absent
      BY DEF TodoListed, AllListed
    <3> QED
      BY <2>2, <2>3, <2>6 DEF ListsAge, TodoListed
  <2> QED
    BY <2>7, <2>8, <2>9, <2>10 DEF ListsAge
<1>3. ASSUME NEW c \in Callers, Install(c) PROVE ListsAge'
  <2> DEFINE k == Begun(c, job[c].datum, job[c].list)
  <2>1. /\ job[c].step = "installing" /\ rules' = job[c].list
        /\ UNCHANGED <<row, lastRefresh, listable>>
        /\ job' = [d \in Callers |-> IF d = c THEN k ELSE [job[d] EXCEPT !.shared = FALSE]]
    BY <1>3 DEF Install, historyVars
  <2>2. job[c].datum \in Memory /\ job[c].list \in Lists
    BY <1>0 DEF Jobs
  <2>3. WorksOn(k, clock, job[c].datum, Concerned(c, job[c].list), TRUE) /\ AllListed(k)
    BY <2>2, BegunWorksOn DEF IInv
  <2>4. clock <= job[c].now + MaxStall /\ lastRefresh <= job[c].now + Overlap
    BY <2>1 DEF Timely, CallsOnTime, Refreshing
  <2> HIDE DEF k
  <2>5. \A d \in Callers \ {c} :
          /\ job'[d].step = job[d].step /\ job'[d].now = job[d].now /\ job'[d].list = job[d].list
          /\ job'[d].todo = job[d].todo /\ job'[d].shared = FALSE
    BY <1>0, <2>1 DEF Jobs
  <2>6. job'[c] = k
    BY <2>1
  <2>7. ~Refreshing(k) /\ k.step # "selecting" /\ (k.step = "idle" => k = Idle)
    BY <2>3, IdleHoldsNothing DEF WorksOn, Refreshing
  <2>8. ASSUME NEW r \in Rules, k.list[r] # Absent
        PROVE  k.now = clock /\ job[c].list[r] # Absent
    BY <2>3, <2>8, IdleHoldsNothing DEF WorksOn, Concerned
  <2>9. ASSUME NEW r \in Rules, job[c].list[r] # Absent
        PROVE  row[r] # "new" /\ (row[r] # "enabled" => lastRefresh <= listable[r] + Overlap)
    BY <1>0, <2>1, <2>4, <2>9, AgesAddUp DEF ListsAge, OwnListAge
  <2>10. SharedListAge'
    BY <2>1, <2>9 DEF SharedListAge, Overlap
  <2>11. OwnListAge'
    <3> SUFFICES ASSUME NEW d \in Callers, NEW r \in Rules, job'[d].list[r] # Absent
                 PROVE  /\ row[r] # "new"
                        /\ job'[d].step = "installing" /\ row[r] # "enabled"
                             => job'[d].now <= listable[r]
                        /\ Working(job'[d]) /\ row[r] # "enabled"
                             => job'[d].now <= listable[r] + Stale
      BY <2>1 DEF OwnListAge, Working, Stale
    <3>1. CASE d = c
      <4>1. k.now = clock /\ job[c].list[r] # Absent
        BY <2>6, <2>8, <3>1
      <4>2. row[r] # "new" /\ (row[r] # "enabled" => job[c].now <= listable[r])
        BY <2>1, <4>1 DEF ListsAge, OwnListAge
      <4>3. row[r] # "enabled" => k.now <= listable[r] + Stale
        BY <1>0, <2>4, <4>1, <4>2, AgesAddUp
      <4> QED
        BY <2>6, <2>7, <3>1, <4>2, <4>3 DEF Refreshing
    <3>2. CASE d # c
      BY <2>5, <3>2 DEF ListsAge, OwnListAge, Working
    <3> QED
      BY <3>1, <3>2
  <2>12. SharesRules'
    BY <2>1, <2>5, <2>6, <2>8 DEF SharesRules, Working
  <2>13. TodoListed'
    <3> SUFFICES ASSUME NEW d \in Callers
                 PROVE  /\ AllListed(job'[d])
                        /\ job'[d].step \in {"idle", "selecting"}
                             => \A r \in Rules : job'[d].list[r] = Absent
      BY DEF TodoListed, AllListed
    <3> QED
      BY <2>3, <2>5, <2>6, <2>7, IdleHoldsNothing DEF ListsAge, TodoListed, AllListed
  <2> QED
    BY <2>10, <2>11, <2>12, <2>13 DEF ListsAge
<1>4. ASSUME NEW c \in Callers, SelectFails(c) PROVE ListsAge'
  <2>1. /\ job' = [job EXCEPT ![c] = Idle] /\ UNCHANGED <<row, lastRefresh, rules>>
        /\ \A r \in Rules : listable'[r] = clock
    BY <1>4 DEF SelectFails
  <2>2. \A d \in Callers : job'[d] = IF d = c THEN Idle ELSE job[d]
    BY <2>1 DEF IInv, TypeOK
  <2>3. lastRefresh <= clock + Overlap
    BY <1>0, AgesAddUp DEF Timely, RefreshOnTime
  <2>4. SharedListAge'
    BY <2>1, <2>3 DEF ListsAge, SharedListAge, Overlap
  <2>5. \A d \in Callers : job[d].step # "idle" => job[d].now <= clock /\ job[d].now <= clock + Stale
    BY <1>0, AgesAddUp DEF Timely, CallsOnTime
  <2>6. OwnListAge'
    BY <2>1, <2>2, <2>5, IdleHoldsNothing DEF ListsAge, OwnListAge, Working, Stale
  <2>7. SharesRules'
    BY <2>1, <2>2, IdleHoldsNothing DEF ListsAge, SharesRules, Working
  <2>8. TodoListed'
    <3> SUFFICES ASSUME NEW d \in Callers
                 PROVE  /\ AllListed(job'[d])
                        /\ job'[d].step \in {"idle", "selecting"}
                             => \A r \in Rules : job'[d].list[r] = Absent
      BY DEF TodoListed, AllListed
    <3> QED
      BY <2>2, IdleHoldsNothing DEF ListsAge, TodoListed
  <2> QED
    BY <2>4, <2>6, <2>7, <2>8 DEF ListsAge
<1>5. ASSUME NEW c \in Callers, StepFails(c) PROVE ListsAge'
  <2>1. /\ job' = [job EXCEPT ![c] = Idle] /\ UNCHANGED <<row, lastRefresh, rules, listable>>
        /\ Working(job[c])
    BY <1>5 DEF StepFails, historyVars, Working
  <2> QED
    BY <2>1, IdleHoldsNothing, ListsAgeOnward
<1>6. ASSUME NEW c \in Callers, Evaluate(c) \/ Persist(c) \/ Deliver(c) PROVE ListsAge'
  <2>1. Working(job[c]) /\ UNCHANGED <<row, lastRefresh, listable>>
    BY <1>6, WorkGoesOn
  <2>2. AllListed(job[c]) /\ job[c].todo \in Seq(Rules)
    BY <1>0 DEF ListsAge, TodoListed, Jobs
  <2>3. PICK k : /\ job' = [job EXCEPT ![c] = k]
                 /\ AllListed(k)
                 /\ k = Idle \/ /\ Working(k) /\ k.now = job[c].now /\ k.shared = job[c].shared
                                /\ \A r \in Rules : k.list[r] = Absent <=> job[c].list[r] = Absent
    BY <1>6, <2>2, WorkGoesOn
  <2>4. \A r \in Rules : rules'[r] = Absent <=> rules[r] = Absent
    <3>1. CASE UNCHANGED rules
      BY <3>1
    <3>2. CASE /\ job[c].shared /\ job[c].todo # <<>>
               /\ rules' = [rules EXCEPT ![Head(job[c].todo)] = job[c].datum]
      <4>1. 1 \in 1..Len(job[c].todo) /\ Head(job[c].todo) = job[c].todo[1] /\ Head(job[c].todo) \in Rules
        BY <2>2, <3>2
      <4>2. job[c].list[Head(job[c].todo)] # Absent
        BY <2>2, <4>1 DEF AllListed
      <4>3. rules[Head(job[c].todo)] # Absent
        BY <2>1, <3>2, <4>1, <4>2 DEF ListsAge, SharesRules
      <4>4. job[c].datum # Absent
        BY <1>0 DEF Jobs, Memory, None, Absent
      <4>5. rules \in [Rules -> Memory \cup {Absent}]
        BY ListTypes DEF IInv
      <4> QED
        BY <3>2, <4>1, <4>3, <4>4, <4>5
    <3> QED
      BY <1>6, <3>1, <3>2, WorkGoesOn
  <2> QED
    BY <2>1, <2>3, <2>4, ListsAgeOnward
<1>7. CASE WorkerRestarts
  <2>1. (\A c \in Callers : job'[c] = Idle) /\ \A r \in Rules : rules'[r] = Absent
    BY <1>7 DEF WorkerRestarts
  <2>2. TodoListed'
    <3> SUFFICES ASSUME NEW d \in Callers
                 PROVE  /\ AllListed(job'[d])
                        /\ job'[d].step \in {"idle", "selecting"}
                             => \A r \in Rules : job'[d].list[r] = Absent
      BY DEF TodoListed, AllListed
    <3> QED
      BY <2>1, IdleHoldsNothing
  <2> QED
    BY <2>1, <2>2, IdleHoldsNothing
       DEF ListsAge, SharedListAge, OwnListAge, SharesRules, Working
<1>8. ASSUME NEW q \in Rules, CreateRule(q) \/ ToggleRule(q) \/ DeleteRule(q) PROVE ListsAge'
  <2>1. UNCHANGED <<lastRefresh, rules, job>>
    BY <1>8 DEF CreateRule, ToggleRule, DeleteRule
  <2>2. \A r \in Rules :
          \/ row'[r] = row[r] /\ listable'[r] = listable[r]
          \/ row'[r] = "enabled"
          \/ row[r] = "disabled" /\ row'[r] = "gone" /\ listable'[r] = listable[r]
          \/ row[r] = "enabled" /\ row'[r] # "new" /\ listable'[r] = clock
    <3>1. row \in [Rules -> {"new", "enabled", "disabled", "gone"}] /\ listable \in [Rules -> Nat]
      BY ListTypes DEF IInv
    <3> QED
      BY <1>8, <3>1 DEF CreateRule, ToggleRule, DeleteRule, historyVars
  <2>3. lastRefresh <= clock + Overlap
    BY <1>0, AgesAddUp DEF Timely, RefreshOnTime
  <2>4. \A d \in Callers : job[d].step # "idle" => job[d].now <= clock /\ job[d].now <= clock + Stale
    BY <1>0, AgesAddUp DEF Timely, CallsOnTime
  <2>5. ASSUME NEW r \in Rules, rules[r] # Absent
        PROVE  /\ row'[r] # "new"
               /\ row'[r] # "enabled" =>
                    \/ lastRefresh <= listable'[r] + Overlap
                    \/ RefreshBegunBy(listable'[r] + Overlap + Longest + MaxStall)
    BY <2>2, <2>3, <2>5 DEF ListsAge, SharedListAge
  <2>6. SharedListAge'
    BY <2>1, <2>5 DEF SharedListAge, RefreshBegunBy, Refreshing, Longest, Overlap
  <2>7. OwnListAge'
    <3> SUFFICES ASSUME NEW d \in Callers, NEW r \in Rules, job[d].list[r] # Absent
                 PROVE  /\ row'[r] # "new"
                        /\ job[d].step = "installing" /\ row'[r] # "enabled"
                             => job[d].now <= listable'[r]
                        /\ Working(job[d]) /\ row'[r] # "enabled"
                             => job[d].now <= listable'[r] + Stale
      BY <2>1 DEF OwnListAge, Working, Stale
    <3> QED
      BY <2>2, <2>4 DEF ListsAge, OwnListAge, Working
  <2>8. SharesRules' /\ TodoListed'
    BY <2>1 DEF ListsAge, SharesRules, TodoListed, AllListed, Working
  <2> QED
    BY <2>6, <2>7, <2>8 DEF ListsAge
<1>9. CASE Tick \/ UNCHANGED vars
  <2>1. UNCHANGED <<row, lastRefresh, rules, job, listable>>
    BY <1>9 DEF Tick, vars, historyVars
  <2> QED
    BY <2>1 DEF ListsAge, SharedListAge, OwnListAge, SharesRules, TodoListed, AllListed,
                Working, Refreshing, RefreshBegunBy, Stale, Longest, Overlap
<1> QED
  BY <1>1, <1>2, <1>3, <1>4, <1>5, <1>6, <1>7, <1>8, <1>9 DEF Next

-----------------------------------------------------------------------------
(* Rules remember what they alerted of                                     *)

(* A rule that stays quiet while a call works on: what is remembered of it *)
(* anew is what it alerted of.                                             *)
LEMMA QuietGoesOn ==
  ASSUME IInv, Remembers, NEW c \in Callers, NEW k, job' = [job EXCEPT ![c] = k],
         Working(job[c]), UNCHANGED <<kindOf, row, lastRefresh>>,
         NEW r \in Rules, Quiet(r), alerted'[r] = alerted[r], lastFired'[r] = lastFired[r],
         saved'[r] \in {saved[r], alerted[r]}, rules'[r] \in {rules[r], alerted[r]},
         k = Idle \/ /\ Working(k) /\ k.now = job[c].now /\ k.datum = job[c].datum
                     /\ k.list[r] \in {job[c].list[r], alerted[r]}
  PROVE  QuietIsKnown(r)' /\ OutdatedListsExpire(r)'
<1>1. \A d \in Callers : job'[d] = IF d = c THEN k ELSE job[d]
  BY DEF IInv, TypeOK
<1>2. QuietIsKnown(r) /\ OutdatedListsExpire(r)
  BY DEF Remembers
<1>3. job[c].step # "idle" /\ ~Refreshing(job[c])
  BY DEF Working, Refreshing
<1>4. ~Refreshing(k) /\ k.step # "installing"
  BY IdleHoldsNothing DEF Working, Refreshing
<1>5. \A d \in Callers : Refreshing(job[d]) => job'[d] = job[d]
  BY <1>1, <1>3
<1>6. QuietIsKnown(r)'
  BY <1>1, <1>2, <1>3, IdleHoldsNothing DEF QuietIsKnown
<1>7. OutdatedIn(rules, r)' => OutdatedIn(rules, r)
  BY DEF OutdatedIn
<1>8. ASSUME NEW d \in Callers, OutdatedIn(job[d].list, r)'
      PROVE  /\ job'[d].step = "installing" => job'[d].now <= lastFired[r] + MaxStall
             /\ Working(job'[d]) => job'[d].now < lastFired[r] + Cooldown
  <2>1. job'[d].list[r] \notin {Absent, alerted[r]}
    BY <1>8 DEF OutdatedIn
  <2>2. CASE d = c
    <3>1. /\ job'[d] = k /\ k # Idle
      BY <1>1, <2>1, <2>2, IdleHoldsNothing
    <3>2. Working(k) /\ k.now = job[c].now /\ OutdatedIn(job[c].list, r)
      BY <2>1, <3>1 DEF OutdatedIn
    <3> QED
      BY <1>2, <1>4, <3>1, <3>2 DEF OutdatedListsExpire
  <2>3. CASE d # c
    BY <1>1, <1>2, <2>1, <2>3 DEF OutdatedListsExpire, OutdatedIn
  <2> QED
    BY <2>2, <2>3
<1>9. OutdatedListsExpire(r)'
  BY <1>2, <1>5, <1>7, <1>8
     DEF OutdatedListsExpire, RefreshBegunBy, Refreshing, Working, Overlap
<1> QED
  BY <1>6, <1>9

(* The rule before a call is one of its caller's, and in its list.         *)
LEMMA RuleAhead ==
  ASSUME IInv, ListsAge, NEW c \in Callers, job[c].step \in {"evaluating", "persisting"}
  PROVE  LET r == Head(job[c].todo) IN
         /\ job[c].todo # <<>> /\ r \in Rules /\ CallerOf(kindOf[r]) = c
         /\ job[c].list[r] # Absent
<1> DEFINE j == job[c]
<1>1. /\ j.todo \in Seq(Rules) /\ j.todo # <<>> /\ OwnRulesOnly(c, j) /\ AllListed(j)
  BY DEF IInv, TypeOK, Jobs, CallsInStep, InStep, ListsAge, TodoListed
<1> HIDE DEF j
<1>2. 1 \in 1..Len(j.todo) /\ Head(j.todo) = j.todo[1] /\ Head(j.todo) \in Rules
  BY <1>1
<1>3. CallerOf(kindOf[j.todo[1]]) = c /\ j.list[j.todo[1]] # Absent
  BY <1>1, <1>2 DEF OwnRulesOnly, AllListed
<1> QED
  BY <1>1, <1>2, <1>3 DEF j

(* What an alert being saved is of stays news while another call moves.    *)
LEMMA OthersSaveNews ==
  ASSUME IInv, ListsAge, Remembers, NEW c \in Callers, NEW k, job' = [job EXCEPT ![c] = k],
         \A d \in Callers \ {c}, r \in Rules :
           CallerOf(kindOf[r]) = d => (Quiet(r)' => Quiet(r)),
         k.step = "persisting" /\ k.fires => ~Quiet(Head(job[c].todo))'
  PROVE  SavesNews'
<1> SUFFICES ASSUME NEW d \in Callers, job'[d].step = "persisting", job'[d].fires
             PROVE  ~Quiet(Head(job[d].todo))'
  BY DEF SavesNews, Quiet
<1>1. \A e \in Callers : job'[e] = IF e = c THEN k ELSE job[e]
  BY DEF IInv, TypeOK
<1>2. CASE d = c
  BY <1>1, <1>2
<1>3. CASE d # c
  <2>1. job'[d] = job[d] /\ ~Quiet(Head(job[d].todo))
    BY <1>1, <1>3 DEF Remembers, SavesNews
  <2>2. Head(job[d].todo) \in Rules /\ CallerOf(kindOf[Head(job[d].todo)]) = d
    BY <2>1, RuleAhead
  <2> QED
    BY <1>3, <2>1, <2>2 DEF Quiet
<1> QED
  BY <1>2, <1>3

(* A call that works on, and keeps to the rules in its list.               *)
LEMMA KeepsToOwnConcern ==
  ASSUME IInv, OwnConcern, NEW c \in Callers, NEW k, job' = [job EXCEPT ![c] = k],
         UNCHANGED kindOf,
         \A r \in Rules : Working(k) /\ k.list[r] # Absent => CallerOf(kindOf[r]) = c
  PROVE  OwnConcern'
<1>1. \A d \in Callers : job'[d] = IF d = c THEN k ELSE job[d]
  BY DEF IInv, TypeOK
<1> QED
  BY <1>1 DEF OwnConcern, Working

(* Every alert of a rule that watches a crossing or a regime is of news.   *)
AlertsOfNews == \A r \in Rules : kindOf[r] # "threshold" /\ AlertsNow(r) => news[r]

(* Without a change of its memory only a threshold rule fires.             *)
LEMMA OnlyThresholdsRepeat ==
  ASSUME TypeOK, NEW r \in Rules, NEW memory, NEW datum,
         Remembered(r, memory, datum) = memory, Fires(r, memory, datum)
  PROVE  kindOf[r] = "threshold"
<1> SUFFICES ASSUME kindOf[r] # "threshold" PROVE FALSE
  OBVIOUS
<1>1. kindOf[r] \in {"price", "regime"} /\ memory = datum
  BY DEF TypeOK, Kinds, Remembered
<1>2. CASE kindOf[r] = "price"
  <2>1. memory = "low" /\ datum = "high"
    BY <1>2 DEF Fires
  <2> QED
    BY <1>1, <2>1
<1>3. CASE kindOf[r] = "regime"
  <2>1. datum \notin {memory, "unknown"}
    BY <1>3 DEF Fires
  <2> QED
    BY <1>1, <2>1
<1> QED
  BY <1>1, <1>2, <1>3

(* A new engine remembers nothing and has nothing to remember.             *)
LEMMA InitRemembers == Init => Remembers
<1> SUFFICES ASSUME Init PROVE Remembers
  OBVIOUS
<1>1. /\ \A c \in Callers : job[c] = Idle
      /\ \A r \in Rules : saved[r] = alerted[r] /\ rules[r] = Absent
  BY DEF Init
<1> QED
  BY <1>1, IdleHoldsNothing
     DEF Remembers, QuietIsKnown, OutdatedListsExpire, OutdatedIn, SavesNews, OwnConcern, Working

(* A call that is about to evaluate or save: the rules that stay quiet are *)
(* as they were, and what it remembers anew is what they alerted of.       *)
LEMMA StepsOfWorkRemember ==
  ASSUME CooldownOutlastsLists, IInv, Timely, ListsAge, Remembers, NEW c \in Callers,
         Evaluate(c) \/ Persist(c) \/ Deliver(c) \/ StepFails(c)
  PROVE  Remembers' /\ AlertsOfNews
<1> DEFINE j == job[c]
           r == Head(j.todo)
<1>0. /\ j \in Jobs /\ j.list \in Lists /\ j.datum \in Memory /\ j.now \in Nat
      /\ clock \in Nat /\ lastRefresh \in Int /\ \A q \in Rules : lastFired[q] \in Int
      /\ HasWaited(j) /\ InStep(j) /\ Remembers /\ SavesNews /\ OwnConcern
  BY TimeTypes DEF IInv, TypeOK, CallsInStep, Jobs, Remembers
<1>1. CASE Deliver(c) \/ StepFails(c)
  <2>1. /\ Working(j)
        /\ UNCHANGED <<kindOf, row, saved, rules, lastRefresh, lastFired, historyVars>>
    BY <1>1 DEF Deliver, StepFails, Working
  <2>2. PICK k : /\ job' = [job EXCEPT ![c] = k]
                 /\ WorksOn(k, j.now, j.datum, j.list, j.shared)
    <3>1. CASE StepFails(c)
      BY <3>1 DEF StepFails, WorksOn
    <3>2. CASE Deliver(c)
      <4> DEFINE left == [j EXCEPT !.fired = Tail(@)]
      <4>1. job' = [job EXCEPT ![c] = Continued(left)] /\ j.step = "delivering"
        BY <3>2 DEF Deliver
      <4>2. Tail(j.fired) \in Seq(Rules)
        <5>1. j.fired \in Seq(Rules) /\ j.fired # <<>>
          BY <1>0, <4>1 DEF Jobs, InStep
        <5> QED
          BY <5>1
      <4>3. left \in Jobs /\ left.now = j.now /\ left.shared = j.shared
            /\ left.datum = j.datum /\ left.list = j.list
        BY <1>0, <4>2 DEF Jobs
      <4> HIDE DEF left
      <4> QED
        BY <4>1, <4>3, ContinuedWorksOn
    <3> QED
      BY <1>1, <3>1, <3>2
  <2>3. k = Idle \/ (Working(k) /\ k.now = j.now /\ k.datum = j.datum /\ k.list = j.list)
    BY <2>2 DEF WorksOn, Working
  <2>4. \A q \in Rules : Quiet(q)' <=> Quiet(q)
    BY <2>1 DEF Quiet, historyVars
  <2>5. ASSUME NEW q \in Rules, Quiet(q) PROVE QuietIsKnown(q)' /\ OutdatedListsExpire(q)'
    <3>1. /\ alerted'[q] = alerted[q] /\ lastFired'[q] = lastFired[q]
          /\ saved'[q] \in {saved[q], alerted[q]} /\ rules'[q] \in {rules[q], alerted[q]}
      BY <2>1 DEF historyVars
    <3>2. k = Idle \/ /\ Working(k) /\ k.now = job[c].now /\ k.datum = job[c].datum
                      /\ k.list[q] \in {job[c].list[q], alerted[q]}
      BY <2>3
    <3> QED
      BY <2>1, <2>2, <2>5, <3>1, <3>2, QuietGoesOn
  <2>6. SavesNews'
    <3>1. k.step # "persisting"
      BY <2>2, IdleHoldsNothing DEF WorksOn
    <3> QED
      BY <2>2, <2>4, <3>1, OthersSaveNews
  <2>7. OwnConcern'
    <3>1. \A q \in Rules : Working(k) /\ k.list[q] # Absent => CallerOf(kindOf[q]) = c
      BY <1>0, <2>1, <2>3, IdleHoldsNothing DEF OwnConcern
    <3> QED
      BY <1>0, <2>1, <2>2, <3>1, KeepsToOwnConcern
  <2>8. AlertsOfNews
    BY <2>1 DEF AlertsOfNews, AlertsNow
  <2> QED
    BY <2>4, <2>5, <2>6, <2>7, <2>8 DEF Remembers
<1>2. ASSUME j.step \in {"evaluating", "persisting"}
      PROVE  /\ j.todo # <<>> /\ r \in Rules /\ CallerOf(kindOf[r]) = c /\ j.list[r] # Absent
             /\ Working(j) /\ lastFired[r] \in Int
             /\ Quiet(r) => j.datum = alerted[r] /\ QuietIsKnown(r) /\ OutdatedListsExpire(r)
  <2>1. j.todo # <<>> /\ r \in Rules /\ CallerOf(kindOf[r]) = c /\ j.list[r] # Absent
    BY <1>2, RuleAhead
  <2>2. Working(j) /\ lastFired[r] \in Int
    BY <1>0, <1>2, <2>1 DEF Working
  <2>3. Quiet(r) => QuietIsKnown(r) /\ OutdatedListsExpire(r)
    BY <2>1 DEF Remembers
  <2>4. Quiet(r) => j.datum = alerted[r]
    BY <1>2, <2>1, <2>3 DEF QuietIsKnown
  <2> QED
    BY <2>1, <2>2, <2>3, <2>4
(* A rule that is decided on without an alert, or is of no further use.    *)
<1>3. ASSUME j.step \in {"evaluating", "persisting"}, NEW fires \in BOOLEAN,
             Decide(c, j, r, fires), fires => kindOf[r] = "threshold",
             UNCHANGED <<kindOf, row, rules, lastRefresh>>,
             \A q \in Rules : Quiet(q) => saved'[q] \in {saved[q], alerted[q]}
      PROVE  Remembers' /\ AlertsOfNews
  <2>1. j.todo # <<>> /\ r \in Rules /\ Working(j)
    BY <1>2, <1>3
  <2>2. PICK k : /\ job' = [job EXCEPT ![c] = k]
                 /\ WorksOn(k, j.now, j.datum, j.list, j.shared)
    BY <1>3, <2>1, DecideWorksOn
  <2>3. k = Idle \/ (Working(k) /\ k.now = j.now /\ k.datum = j.datum /\ k.list = j.list)
    BY <2>2 DEF WorksOn, Working
  <2>4. \A q \in Rules : kindOf[q] # "threshold" =>
          news'[q] = news[q] /\ alerted'[q] = alerted[q] /\ lastFired'[q] = lastFired[q]
    <3>1. \/ UNCHANGED <<lastFired, alerted, news>>
          \/ /\ kindOf[r] = "threshold"
             /\ lastFired' = [lastFired EXCEPT ![r] = FiredAt(j)]
             /\ alerted' = [alerted EXCEPT ![r] = j.datum]
             /\ news' = [news EXCEPT ![r] = FALSE]
      BY <1>3 DEF Decide
    <3> HIDE DEF r, j
    <3> QED
      BY <2>1, <3>1 DEF IInv, TypeOK
  <2>5. \A q \in Rules : Quiet(q)' <=> Quiet(q)
    BY <1>3, <2>4 DEF Quiet
  <2>6. ASSUME NEW q \in Rules, Quiet(q) PROVE QuietIsKnown(q)' /\ OutdatedListsExpire(q)'
    <3>1. /\ alerted'[q] = alerted[q] /\ lastFired'[q] = lastFired[q]
          /\ saved'[q] \in {saved[q], alerted[q]} /\ rules'[q] \in {rules[q], alerted[q]}
      BY <1>3, <2>4, <2>6 DEF Quiet
    <3>2. k = Idle \/ /\ Working(k) /\ k.now = job[c].now /\ k.datum = job[c].datum
                      /\ k.list[q] \in {job[c].list[q], alerted[q]}
      BY <2>3
    <3> QED
      BY <1>3, <2>1, <2>2, <2>6, <3>1, <3>2, QuietGoesOn
  <2>7. SavesNews'
    <3>1. k.step # "persisting"
      BY <2>2, IdleHoldsNothing DEF WorksOn
    <3> QED
      BY <2>2, <2>5, <3>1, OthersSaveNews
  <2>8. OwnConcern'
    <3>1. \A q \in Rules : Working(k) /\ k.list[q] # Absent => CallerOf(kindOf[q]) = c
      BY <1>0, <2>1, <2>3, IdleHoldsNothing DEF OwnConcern
    <3> QED
      BY <1>0, <1>3, <2>2, <3>1, KeepsToOwnConcern
  <2>9. AlertsOfNews
    BY <2>4 DEF AlertsOfNews, AlertsNow
  <2> QED
    BY <2>5, <2>6, <2>7, <2>8, <2>9 DEF Remembers
<1>4. CASE Evaluate(c)
  <2> DEFINE memory == Remembered(r, j.list[r], j.datum)
             fires == Fires(r, j.list[r], j.datum)
  <2>1. j.step = "evaluating" /\ UNCHANGED <<kindOf, row, saved, lastRefresh, time, listable>>
    BY <1>4 DEF Evaluate
  <2>2. fires \in BOOLEAN
    <3>1. kindOf[r] \in Kinds
      BY <1>2, <2>1 DEF IInv, TypeOK
    <3> QED
      BY <3>1 DEF Fires, Kinds
  <2>3. CASE Decide(c, j, r, FALSE) /\ UNCHANGED rules
    BY <1>3, <2>1, <2>3
  <2>4. CASE memory = j.list[r] /\ Decide(c, j, r, fires) /\ UNCHANGED rules
    <3>1. fires => kindOf[r] = "threshold"
      BY <1>2, <2>1, <2>4, OnlyThresholdsRepeat DEF IInv
    <3> HIDE DEF fires
    <3> QED
      BY <1>3, <2>1, <2>2, <2>4, <3>1
  <2>5. CASE /\ ~CoolingDown(j, r) /\ memory # j.list[r]
             /\ job' = [job EXCEPT ![c].step = "persisting", ![c].list[r] = memory,
                                   ![c].fires = fires]
             /\ rules' = IF j.shared THEN [rules EXCEPT ![r] = memory] ELSE rules
             /\ UNCHANGED <<lastFired, alerted, news>>
    <3> DEFINE k == [j EXCEPT !.step = "persisting", !.list = [@ EXCEPT ![r] = memory], !.fires = fires]
    <3>1. memory = j.datum
      BY <2>5 DEF Remembered
    <3>2. job' = [job EXCEPT ![c] = k]
      <4> HIDE DEF memory, fires, r
      <4> QED
        BY <1>0, <2>5 DEF IInv, TypeOK, Jobs
    <3>3. /\ k.step = "persisting" /\ k.todo = j.todo /\ k.now = j.now
          /\ k.datum = j.datum /\ k.list = [j.list EXCEPT ![r] = j.datum]
      <4> HIDE DEF memory, fires, r
      <4> QED
        BY <1>0, <3>1 DEF Jobs
    <3>4. \A q \in Rules : Quiet(q)' <=> Quiet(q)
      BY <2>1, <2>5 DEF Quiet
    <3>5. ~Quiet(r)
      <4>1. SUFFICES ASSUME Quiet(r) PROVE FALSE
        OBVIOUS
      <4>2. j.list[r] \notin {Absent, alerted[r]}
        BY <1>2, <2>1, <2>5, <3>1, <4>1
      <4>3. j.now < lastFired[r] + Cooldown
        BY <1>2, <2>1, <4>1, <4>2 DEF OutdatedListsExpire, OutdatedIn
      <4>4. j.now \in Nat /\ lastFired[r] \in Int
        BY <1>0, <1>2, <2>1
      <4> HIDE DEF j, r
      <4> QED
        BY <2>5, <4>3, <4>4 DEF CoolingDown
    <3>6. Working(k)
      BY <3>3 DEF Working
    <3> HIDE DEF k
    <3>7. ASSUME NEW q \in Rules, Quiet(q) PROVE QuietIsKnown(q)' /\ OutdatedListsExpire(q)'
      <4>1. q # r
        BY <3>5, <3>7
      <4>2. rules'[q] = rules[q] /\ k.list[q] = j.list[q]
        <5>1. rules \in [Rules -> Memory \cup {Absent}] /\ j.list \in [Rules -> Memory \cup {Absent}]
          BY <1>0, ListTypes DEF IInv, Lists
        <5> HIDE DEF r, j, memory
        <5> QED
          BY <2>5, <3>3, <4>1, <5>1
      <4>3. Working(j)
        BY <1>2, <2>1
      <4>4. /\ alerted'[q] = alerted[q] /\ lastFired'[q] = lastFired[q]
            /\ saved'[q] \in {saved[q], alerted[q]} /\ rules'[q] \in {rules[q], alerted[q]}
        BY <2>1, <2>5, <4>2
      <4>5. k = Idle \/ /\ Working(k) /\ k.now = job[c].now /\ k.datum = job[c].datum
                        /\ k.list[q] \in {job[c].list[q], alerted[q]}
        BY <3>3, <3>6, <4>2
      <4> QED
        BY <2>1, <3>2, <3>7, <4>3, <4>4, <4>5, QuietGoesOn
    <3>8. SavesNews'
      <4>1. job'[c].todo = j.todo
        BY <3>2, <3>3 DEF IInv, TypeOK
      <4>2. ~Quiet(Head(job[c].todo))'
        <5>1. Quiet(Head(job[c].todo))' <=> (kindOf'[Head(job'[c].todo)] # "threshold"
                                               /\ ~news'[Head(job'[c].todo)])
          BY DEF Quiet
        <5>2. ~(kindOf[r] # "threshold" /\ ~news[r])
          BY <3>5 DEF Quiet
        <5> QED
          BY <2>1, <2>5, <4>1, <5>1, <5>2
      <4> QED
        BY <3>2, <3>4, <4>2, OthersSaveNews
    <3>9. OwnConcern'
      <4>1. ASSUME NEW q \in Rules, k.list[q] # Absent PROVE CallerOf(kindOf[q]) = c
        <5>1. j.list[q] # Absent
          <6>1. j.list \in [Rules -> Memory \cup {Absent}] /\ j.list[r] # Absent
            BY <1>0, <1>2, <2>1 DEF Lists
          <6> HIDE DEF r, j
          <6> QED
            BY <3>3, <4>1, <6>1
        <5>2. Working(j)
          BY <1>2, <2>1
        <5> QED
          BY <1>0, <5>1, <5>2 DEF OwnConcern
      <4> QED
        BY <1>0, <2>1, <3>2, <4>1, KeepsToOwnConcern
    <3>10. AlertsOfNews
      BY <2>5 DEF AlertsOfNews, AlertsNow
    <3> QED
      BY <3>4, <3>7, <3>8, <3>9, <3>10 DEF Remembers
  <2> QED
    BY <1>4, <2>3, <2>4, <2>5 DEF Evaluate
<1>5. CASE Persist(c)
  <2>1. /\ j.step = "persisting" /\ Decide(c, j, r, j.fires) /\ j.fires \in BOOLEAN
        /\ saved' = IF row[r] = "gone" THEN saved ELSE [saved EXCEPT ![r] = j.list[r]]
        /\ UNCHANGED <<kindOf, row, rules, lastRefresh, time, listable>>
    BY <1>0, <1>5 DEF Persist, Jobs
  <2>2. j.list[r] = j.datum /\ r \in Rules /\ j.todo # <<>> /\ Working(j)
    BY <1>0, <1>2, <2>1 DEF HasWaited
  <2>3. \A q \in Rules : \/ saved'[q] = saved[q]
                         \/ q = r /\ saved'[q] = j.datum
    <3> HIDE DEF r, j
    <3> QED
      BY <2>1, <2>2 DEF IInv, TypeOK
  <2>4. CASE ~j.fires
    <3>1. \A q \in Rules : Quiet(q) => saved'[q] \in {saved[q], alerted[q]}
      BY <1>2, <2>1, <2>3
    <3>2. Decide(c, j, r, FALSE)
      BY <2>1, <2>4
    <3> QED
      BY <1>3, <2>1, <3>1, <3>2
  <2>5. CASE j.fires
    <3>1. PICK k : /\ job' = [job EXCEPT ![c] = k]
                   /\ WorksOn(k, j.now, j.datum, j.list, j.shared)
      BY <2>1, <2>2, DecideWorksOn
    <3>2. k = Idle \/ (Working(k) /\ k.now = j.now /\ k.datum = j.datum /\ k.list = j.list)
      BY <3>1 DEF WorksOn, Working
    <3>3. /\ lastFired' = [lastFired EXCEPT ![r] = j.now]
          /\ alerted' = [alerted EXCEPT ![r] = j.datum]
          /\ news' = [news EXCEPT ![r] = FALSE]
      BY <2>1, <2>5 DEF Decide, FiredAt
    <3>4. /\ \A q \in Rules \ {r} : /\ news'[q] = news[q] /\ alerted'[q] = alerted[q]
                                    /\ lastFired'[q] = lastFired[q] /\ saved'[q] = saved[q]
          /\ alerted'[r] = j.datum /\ lastFired'[r] = j.now
          /\ row[r] = "gone" \/ saved'[r] = j.datum
      <4> HIDE DEF r, j
      <4> QED
        BY <2>1, <2>2, <2>3, <3>3 DEF IInv, TypeOK
    <3>5. \A q \in Rules \ {r} : Quiet(q)' <=> Quiet(q)
      BY <2>1, <3>4 DEF Quiet
    <3>6. \A d \in Callers : job'[d] = IF d = c THEN k ELSE job[d]
      BY <3>1 DEF IInv, TypeOK
    <3>7. k.step \notin {"persisting", "installing", "selecting"} /\ ~Refreshing(k)
      BY <3>1, IdleHoldsNothing DEF WorksOn, Refreshing
    <3>8. ASSUME NEW q \in Rules \ {r}, Quiet(q)
          PROVE  QuietIsKnown(q)' /\ OutdatedListsExpire(q)'
      <4>1. /\ alerted'[q] = alerted[q] /\ lastFired'[q] = lastFired[q]
            /\ saved'[q] \in {saved[q], alerted[q]} /\ rules'[q] \in {rules[q], alerted[q]}
        BY <2>1, <3>4, <3>8
      <4>2. k = Idle \/ /\ Working(k) /\ k.now = job[c].now /\ k.datum = job[c].datum
                        /\ k.list[q] \in {job[c].list[q], alerted[q]}
        BY <3>2
      <4> QED
        BY <2>1, <2>2, <3>1, <3>8, <4>1, <4>2, QuietGoesOn
    <3>9. ASSUME NEW q \in Rules, q = r PROVE QuietIsKnown(q)'
      BY <3>9, <1>2, <2>1, <3>2, <3>4, <3>6, IdleHoldsNothing DEF QuietIsKnown
    <3>10. /\ j.now <= clock /\ clock <= j.now + MaxStall /\ lastRefresh <= clock
      BY <2>1 DEF Timely, CallsOnTime, RefreshOnTime
    <3>11. lastRefresh <= j.now + MaxStall + Overlap
      <4>1. j.now \in Nat /\ clock \in Nat /\ lastRefresh \in Int
        BY <1>0
      <4> HIDE DEF j
      <4> QED
        BY <3>10, <4>1, AgesAddUp
    <3>12. ASSUME NEW d \in Callers, job'[d].list[r] \notin {Absent, j.datum}
           PROVE  /\ job'[d].step = "installing" => job'[d].now <= j.now + MaxStall
                  /\ Working(job'[d]) => job'[d].now < j.now + Cooldown
      <4>1. d # c
        BY <2>2, <3>2, <3>6, <3>12, IdleHoldsNothing
      <4>2. job'[d] = job[d]
        BY <3>6, <4>1
      <4>3. ~Working(job[d])
        BY <1>0, <1>2, <2>1, <3>12, <4>1, <4>2 DEF OwnConcern
      <4>4. job[d].step = "installing" => job[d].now <= clock
        BY DEF Timely, CallsOnTime
      <4>5. job[d].now \in Nat /\ clock \in Nat /\ j.now \in Nat
        BY TimeTypes DEF IInv
      <4> HIDE DEF j
      <4> QED
        BY <3>10, <4>2, <4>3, <4>4, <4>5
    <3>13. ASSUME NEW q \in Rules, q = r PROVE OutdatedListsExpire(q)'
      BY <3>13, <2>1, <3>4, <3>11, <3>12 DEF OutdatedListsExpire, OutdatedIn, Working, Overlap
    <3>14. SavesNews'
      <4>1. \A d \in Callers \ {c}, q \in Rules :
              CallerOf(kindOf[q]) = d => (Quiet(q)' => Quiet(q))
        BY <1>2, <2>1, <3>5
      <4> QED
        BY <3>1, <3>7, <4>1, OthersSaveNews
    <3>15. OwnConcern'
      <4>1. \A q \in Rules : Working(k) /\ k.list[q] # Absent => CallerOf(kindOf[q]) = c
        BY <1>0, <2>2, <3>2, IdleHoldsNothing DEF OwnConcern
      <4> QED
        BY <1>0, <2>1, <3>1, <4>1, KeepsToOwnConcern
    <3>16. AlertsOfNews
      <4>1. kindOf[r] = "threshold" \/ news[r]
        BY <1>0, <2>1, <2>5 DEF SavesNews, Quiet
      <4> QED
        BY <3>4, <4>1 DEF AlertsOfNews, AlertsNow
    <3>17. ASSUME NEW q \in Rules, Quiet(q)' PROVE QuietIsKnown(q)' /\ OutdatedListsExpire(q)'
      <4>1. CASE q = r
        BY <3>9, <3>13, <4>1
      <4>2. CASE q # r
        BY <3>5, <3>8, <3>17, <4>2
      <4> QED
        BY <4>1, <4>2
    <3> QED
      BY <3>14, <3>15, <3>16, <3>17 DEF Remembers
  <2> QED
    BY <2>4, <2>5
<1> QED
  BY <1>1, <1>4, <1>5

(* Every step keeps what is remembered, and alerts are of news.            *)
LEMMA StepRemembers ==
  CooldownOutlastsLists /\ IInv /\ Timely /\ ListsAge /\ Remembers /\ [Next]_vars
    => Remembers' /\ AlertsOfNews
<1> SUFFICES ASSUME CooldownOutlastsLists, IInv, Timely, ListsAge, Remembers, [Next]_vars
             PROVE  Remembers' /\ AlertsOfNews
  OBVIOUS
<1>0. /\ clock \in Nat /\ lastRefresh \in Int /\ \A r \in Rules : lastFired[r] \in Int
      /\ \A c \in Callers : job[c] \in Jobs /\ job[c].now \in Nat
      /\ SavesNews /\ OwnConcern
  BY TimeTypes DEF IInv, Remembers
<1>1. ASSUME NEW c \in Callers, NEW datum \in Data(c), Handle(c, datum)
      PROVE  Remembers' /\ AlertsOfNews
  <2>1. /\ UNCHANGED <<kindOf, row, saved, rules, lastFired, alerted>>
        /\ \A r \in Rules : news'[r] = (news[r] \/ (CallerOf(kindOf[r]) = c /\ datum # alerted[r]))
        /\ datum \in Memory /\ rules \in Lists /\ job[c].step = "idle"
    BY <1>1 DEF Handle, Data, Memory, IInv, TypeOK
  <2>2. \A r \in Rules : Quiet(r)' => Quiet(r) /\ (CallerOf(kindOf[r]) = c => datum = alerted[r])
    BY <2>1 DEF Quiet
  <2>3. \E k : /\ job' = [job EXCEPT ![c] = k]
               /\ k.datum = datum \/ k.step = "idle"
               /\ k.step \notin {"installing", "persisting"}
               /\ ~Working(k) => \A r \in Rules : k.list[r] = Absent
               /\ \A r \in Rules : k.list[r] # Absent =>
                    /\ k.list[r] = rules[r] /\ CallerOf(kindOf[r]) = c
                    /\ k.now = clock /\ clock - lastRefresh < RefreshEvery
               /\ \/ /\ lastRefresh' = lastRefresh /\ ~Refreshing(k)
                     /\ clock - lastRefresh < RefreshEvery
                  \/ lastRefresh' = clock /\ Refreshing(k) /\ k.now = clock
    <3>1. CASE clock - lastRefresh < RefreshEvery
      <4> DEFINE k == Begun(c, datum, rules)
      <4>1. job' = [job EXCEPT ![c] = k] /\ lastRefresh' = lastRefresh
        BY <1>1, <3>1 DEF Handle
      <4>2. WorksOn(k, clock, datum, Concerned(c, rules), TRUE)
        BY <2>1, BegunWorksOn DEF IInv
      <4>3. \A r \in Rules : Concerned(c, rules)[r] # Absent =>
              Concerned(c, rules)[r] = rules[r] /\ CallerOf(kindOf[r]) = c
        BY DEF Concerned
      <4> HIDE DEF k
      <4>4. k.datum = datum \/ k.step = "idle"
        BY <4>2, IdleHoldsNothing DEF WorksOn
      <4>5. k.step \notin {"installing", "persisting"} /\ ~Refreshing(k)
        BY <4>2, IdleHoldsNothing DEF WorksOn, Refreshing
      <4>6. ~Working(k) => \A r \in Rules : k.list[r] = Absent
        BY <4>2, IdleHoldsNothing DEF WorksOn, Working
      <4>7. \A r \in Rules : k.list[r] # Absent =>
              k.list[r] = rules[r] /\ CallerOf(kindOf[r]) = c /\ k.now = clock
        BY <4>2, <4>3, IdleHoldsNothing DEF WorksOn
      <4> QED
        BY <3>1, <4>1, <4>4, <4>5, <4>6, <4>7
    <3>2. CASE ~(clock - lastRefresh < RefreshEvery)
      <4> DEFINE k == [Idle EXCEPT !.step = "selecting", !.datum = datum, !.now = clock]
      <4>1. job' = [job EXCEPT ![c] = k] /\ lastRefresh' = clock
        BY <1>1, <3>2 DEF Handle
      <4>2. k.step = "selecting" /\ k.datum = datum /\ k.list = Idle.list /\ k.now = clock
        BY DEF Idle
      <4> HIDE DEF k
      <4> QED
        BY <4>1, <4>2, IdleHoldsNothing DEF Refreshing
    <3> QED
      BY <3>1, <3>2
  <2>4. PICK k : /\ job' = [job EXCEPT ![c] = k]
                 /\ k.datum = datum \/ k.step = "idle"
                 /\ k.step \notin {"installing", "persisting"}
                 /\ ~Working(k) => \A r \in Rules : k.list[r] = Absent
                 /\ \A r \in Rules : k.list[r] # Absent =>
                      /\ k.list[r] = rules[r] /\ CallerOf(kindOf[r]) = c
                      /\ k.now = clock /\ clock - lastRefresh < RefreshEvery
                 /\ \/ /\ lastRefresh' = lastRefresh /\ ~Refreshing(k)
                       /\ clock - lastRefresh < RefreshEvery
                    \/ lastRefresh' = clock /\ Refreshing(k) /\ k.now = clock
    BY <2>3
  <2>5. \A d \in Callers : job'[d] = IF d = c THEN k ELSE job[d]
    BY <2>4 DEF IInv, TypeOK
  <2>6. ASSUME NEW r \in Rules, Quiet(r), OutdatedIn(rules, r)
        PROVE  /\ clock - lastRefresh < RefreshEvery => clock < lastFired[r] + Cooldown
               /\ \/ RefreshBegunBy(lastFired[r] + Cooldown - MaxStall - 1)
                  \/ clock <= lastFired[r] + Cooldown - MaxStall - 1
    <3>1. OutdatedListsExpire(r) /\ rules[r] # Absent /\ lastFired[r] \in Int
      BY <1>0, <2>6 DEF Remembers, OutdatedIn
    <3>2. CASE lastRefresh <= lastFired[r] + MaxStall + Overlap
      <4>1. clock <= lastRefresh + Longest + MaxStall
        BY <3>1 DEF Timely, RefreshOnTime
      <4> QED
        BY <1>0, <3>1, <3>2, <4>1, AgesAddUp DEF CooldownOutlastsLists
    <3>3. CASE RefreshBegunBy(lastFired[r] + Cooldown - MaxStall - 1)
      <4>1. PICK d \in Callers :
              Refreshing(job[d]) /\ job[d].now <= lastFired[r] + Cooldown - MaxStall - 1
        BY <3>3 DEF RefreshBegunBy
      <4>2. clock <= job[d].now + MaxStall
        BY <4>1 DEF Timely, CallsOnTime, Refreshing
      <4> QED
        BY <1>0, <3>1, <3>3, <4>1, <4>2
    <3> QED
      BY <2>6, <3>1, <3>2, <3>3 DEF OutdatedListsExpire
  <2>7. ASSUME NEW r \in Rules, Quiet(r)' PROVE QuietIsKnown(r)' /\ OutdatedListsExpire(r)'
    <3>1. Quiet(r) /\ (CallerOf(kindOf[r]) = c => datum = alerted[r])
      BY <2>2, <2>7
    <3>2. QuietIsKnown(r) /\ OutdatedListsExpire(r)
      BY <3>1 DEF Remembers
    <3>3. QuietIsKnown(r)'
      BY <2>1, <2>4, <2>5, <3>1, <3>2 DEF QuietIsKnown
    <3>4. ASSUME OutdatedIn(rules, r)'
          PROVE  \/ lastRefresh' <= lastFired[r] + MaxStall + Overlap
                 \/ \E d \in Callers : /\ Refreshing(job'[d])
                                       /\ job'[d].now <= lastFired[r] + Cooldown - MaxStall - 1
      <4>1. OutdatedIn(rules, r)
        BY <2>1, <3>4 DEF OutdatedIn
      <4>2. \A d \in Callers : Refreshing(job[d]) => job'[d] = job[d]
        BY <2>1, <2>5 DEF Refreshing
      <4>3. ASSUME RefreshBegunBy(lastFired[r] + Cooldown - MaxStall - 1)
            PROVE  \E d \in Callers : /\ Refreshing(job'[d])
                                     /\ job'[d].now <= lastFired[r] + Cooldown - MaxStall - 1
        BY <4>2, <4>3 DEF RefreshBegunBy
      <4>4. CASE lastRefresh' = lastRefresh
        BY <3>2, <4>1, <4>3, <4>4 DEF OutdatedListsExpire
      <4>5. CASE Refreshing(k) /\ k.now = clock
        BY <2>5, <2>6, <3>1, <4>1, <4>3, <4>5
      <4> QED
        BY <2>4, <4>4, <4>5
    <3>5. ASSUME NEW d \in Callers, OutdatedIn(job[d].list, r)'
          PROVE  /\ job'[d].step = "installing" => job'[d].now <= lastFired[r] + MaxStall
                 /\ Working(job'[d]) => job'[d].now < lastFired[r] + Cooldown
      <4>1. job'[d].list[r] \notin {Absent, alerted[r]}
        BY <2>1, <3>5 DEF OutdatedIn
      <4>2. CASE d = c
        <5>1. k.list[r] \notin {Absent, alerted[r]}
          BY <2>5, <4>1, <4>2
        <5>2. OutdatedIn(rules, r) /\ k.now = clock /\ clock - lastRefresh < RefreshEvery
          BY <2>4, <5>1 DEF OutdatedIn
        <5> QED
          BY <2>4, <2>5, <2>6, <3>1, <4>2, <5>2
      <4>3. CASE d # c
        BY <2>5, <3>2, <4>1, <4>3 DEF OutdatedListsExpire, OutdatedIn
      <4> QED
        BY <4>2, <4>3
    <3>6. OutdatedListsExpire(r)'
      BY <2>1, <3>4, <3>5 DEF OutdatedListsExpire, RefreshBegunBy, Refreshing, Working, Overlap
    <3> QED
      BY <3>3, <3>6
  <2>8. SavesNews'
    <3>1. \A d \in Callers \ {c}, r \in Rules :
            CallerOf(kindOf[r]) = d => (Quiet(r)' => Quiet(r))
      BY <2>2
    <3> QED
      BY <2>4, <3>1, OthersSaveNews
  <2>9. OwnConcern'
    <3>1. \A r \in Rules : Working(k) /\ k.list[r] # Absent => CallerOf(kindOf[r]) = c
      BY <2>4
    <3> QED
      BY <1>0, <2>1, <2>4, <3>1, KeepsToOwnConcern
  <2>10. AlertsOfNews
    BY <2>1 DEF AlertsOfNews, AlertsNow
  <2> QED
    BY <2>7, <2>8, <2>9, <2>10 DEF Remembers
<1>2. ASSUME NEW c \in Callers, Select(c) PROVE Remembers' /\ AlertsOfNews
  <2> DEFINE k == [job[c] EXCEPT !.step = "installing", !.list = EnabledRules]
  <2>1. /\ job[c].step = "selecting" /\ job' = [job EXCEPT ![c] = k]
        /\ UNCHANGED <<kindOf, row, saved, rules, lastRefresh, lastFired, historyVars>>
    BY <1>2, <1>0 DEF Select, IInv, TypeOK, Jobs
  <2>2. /\ k.step = "installing" /\ k.now = job[c].now /\ k.list = EnabledRules
        /\ k.datum = job[c].datum
    BY <1>0 DEF Jobs
  <2> HIDE DEF k
  <2>3. \A d \in Callers : job'[d] = IF d = c THEN k ELSE job[d]
    BY <2>1 DEF IInv, TypeOK
  <2>4. \A d \in Callers :
          Refreshing(job[d]) => Refreshing(job'[d]) /\ job'[d].now = job[d].now
    BY <2>2, <2>3 DEF Refreshing
  <2>5. \A r \in Rules : Quiet(r)' <=> Quiet(r)
    BY <2>1 DEF Quiet, historyVars
  <2>6. ASSUME NEW r \in Rules, Quiet(r) PROVE QuietIsKnown(r)' /\ OutdatedListsExpire(r)'
    <3>1. QuietIsKnown(r) /\ OutdatedListsExpire(r)
      BY <2>6 DEF Remembers
    <3>2. QuietIsKnown(r)'
      BY <2>1, <2>2, <2>3, <3>1 DEF QuietIsKnown, historyVars
    <3>3. EnabledRules[r] \in {Absent, alerted[r]}
      BY <3>1 DEF EnabledRules, QuietIsKnown
    <3>4. OutdatedIn(rules, r)' <=> OutdatedIn(rules, r)
      BY <2>1 DEF OutdatedIn, historyVars
    <3>5. ASSUME NEW d \in Callers, OutdatedIn(job[d].list, r)'
          PROVE  job'[d] = job[d] /\ OutdatedIn(job[d].list, r)
      BY <2>1, <2>2, <2>3, <3>3, <3>5 DEF OutdatedIn, historyVars
    <3>6. OutdatedListsExpire(r)'
      BY <2>1, <2>4, <3>1, <3>4, <3>5 DEF OutdatedListsExpire, RefreshBegunBy, Refreshing, Overlap
    <3> QED
      BY <3>2, <3>6
  <2>7. SavesNews'
    BY <2>1, <2>2, <2>5, OthersSaveNews
  <2>8. OwnConcern'
    BY <1>0, <2>1, <2>2, KeepsToOwnConcern DEF Working
  <2>9. AlertsOfNews
    BY <2>1 DEF AlertsOfNews, AlertsNow
  <2> QED
    BY <2>5, <2>6, <2>7, <2>8, <2>9 DEF Remembers
<1>3. ASSUME NEW c \in Callers, Install(c) PROVE Remembers' /\ AlertsOfNews
  <2> DEFINE k == Begun(c, job[c].datum, job[c].list)
  <2>1. /\ job[c].step = "installing" /\ rules' = job[c].list
        /\ UNCHANGED <<kindOf, row, saved, lastRefresh, lastFired, historyVars>>
        /\ job' = [d \in Callers |-> IF d = c THEN k ELSE [job[d] EXCEPT !.shared = FALSE]]
    BY <1>3 DEF Install
  <2>2. job[c].datum \in Memory /\ job[c].list \in Lists
    BY <1>0 DEF Jobs
  <2>3. WorksOn(k, clock, job[c].datum, Concerned(c, job[c].list), TRUE)
    BY <2>2, BegunWorksOn DEF IInv
  <2>4. clock <= job[c].now + MaxStall /\ lastRefresh <= job[c].now + Overlap
    BY <2>1 DEF Timely, CallsOnTime, Refreshing
  <2> HIDE DEF k
  <2>5. \A d \in Callers \ {c} :
          /\ job'[d].step = job[d].step /\ job'[d].now = job[d].now /\ job'[d].list = job[d].list
          /\ job'[d].todo = job[d].todo /\ job'[d].fires = job[d].fires
          /\ job'[d].datum = job[d].datum
    BY <1>0, <2>1 DEF Jobs
  <2>6. job'[c] = k
    BY <2>1
  <2>7. /\ ~Refreshing(k) /\ k.step \notin {"installing", "persisting"}
        /\ k.step = "idle" \/ k.datum = job[c].datum
    BY <2>3, IdleHoldsNothing DEF WorksOn, Refreshing
  <2>8. ASSUME NEW r \in Rules, k.list[r] # Absent
        PROVE  k.now = clock /\ k.list[r] = job[c].list[r] /\ CallerOf(kindOf[r]) = c
    BY <2>3, <2>8, IdleHoldsNothing DEF WorksOn, Concerned
  <2>9. lastRefresh \in Int /\ MaxStall \in Nat /\ Overlap \in Nat /\ Overlap' = Overlap
    BY <1>0, AgesAddUp DEF Overlap
  <2>10. \A r \in Rules : Quiet(r)' <=> Quiet(r)
    BY <2>1 DEF Quiet, historyVars
  <2>11. ASSUME NEW r \in Rules, Quiet(r) PROVE QuietIsKnown(r)' /\ OutdatedListsExpire(r)'
    <3>1. QuietIsKnown(r) /\ OutdatedListsExpire(r) /\ alerted' = alerted
      BY <2>1, <2>11 DEF Remembers, historyVars
    <3>2. QuietIsKnown(r)'
      <4>1. ASSUME NEW d \in Callers, job'[d].step # "idle", CallerOf(kindOf[r]) = d
            PROVE  job'[d].datum = alerted[r]
        <5>1. CASE d = c
          BY <2>1, <2>6, <2>7, <3>1, <4>1, <5>1 DEF QuietIsKnown
        <5>2. CASE d # c
          BY <2>5, <3>1, <4>1, <5>2 DEF QuietIsKnown
        <5> QED
          BY <5>1, <5>2
      <4> QED
        BY <2>1, <3>1, <4>1 DEF QuietIsKnown
    <3>3. job[c].list[r] \notin {Absent, alerted[r]} => job[c].now <= lastFired[r] + MaxStall
      BY <2>1, <3>1 DEF OutdatedListsExpire, OutdatedIn
    <3>4. ASSUME NEW d \in Callers, job'[d].list[r] \notin {Absent, alerted[r]}
          PROVE  /\ job'[d].step = "installing" => job'[d].now <= lastFired[r] + MaxStall
                 /\ Working(job'[d]) => job'[d].now < lastFired[r] + Cooldown
      <4>1. CASE d = c
        <5>1. k.now = clock /\ job[c].list[r] \notin {Absent, alerted[r]}
          BY <2>6, <2>8, <3>4, <4>1
        <5>2. k.now < lastFired[r] + Cooldown
          BY <1>0, <2>4, <3>3, <5>1, AgesAddUp DEF CooldownOutlastsLists
        <5> QED
          BY <2>6, <2>7, <4>1, <5>2
      <4>2. CASE d # c
        BY <2>5, <3>1, <3>4, <4>2 DEF OutdatedListsExpire, OutdatedIn, Working
      <4> QED
        BY <4>1, <4>2
    <3>5. job[c].list[r] \notin {Absent, alerted[r]}
            => lastRefresh <= lastFired[r] + MaxStall + Overlap
      BY <1>0, <2>4, <2>9, <3>3
    <3>6. OutdatedListsExpire(r)'
      BY <2>1, <2>9, <3>1, <3>4, <3>5 DEF OutdatedListsExpire, OutdatedIn, Working
    <3> QED
      BY <3>2, <3>6
  <2>12. SavesNews'
    <3> SUFFICES ASSUME NEW d \in Callers, job'[d].step = "persisting", job'[d].fires
                 PROVE  ~Quiet(Head(job[d].todo))'
      BY DEF SavesNews
    <3>1. d # c
      BY <2>6, <2>7
    <3>2. /\ job[d].step = "persisting" /\ job[d].fires /\ job'[d].todo = job[d].todo
          /\ ~Quiet(Head(job[d].todo)) /\ Head(job[d].todo) \in Rules
      BY <1>0, <2>5, <3>1, RuleAhead DEF SavesNews
    <3> QED
      BY <2>1, <3>2 DEF Quiet, historyVars
  <2>13. OwnConcern'
    <3> SUFFICES ASSUME NEW d \in Callers, NEW r \in Rules, Working(job'[d]),
                        job'[d].list[r] # Absent
                 PROVE  CallerOf(kindOf[r]) = d
      BY <2>1 DEF OwnConcern, Working
    <3> QED
      BY <1>0, <2>5, <2>6, <2>8 DEF OwnConcern, Working
  <2>14. AlertsOfNews
    BY <2>1 DEF AlertsOfNews, AlertsNow
  <2> QED
    BY <2>10, <2>11, <2>12, <2>13, <2>14 DEF Remembers
<1>4. ASSUME NEW c \in Callers, SelectFails(c) PROVE Remembers' /\ AlertsOfNews
  <2>1. /\ job' = [job EXCEPT ![c] = Idle] /\ UNCHANGED <<kindOf, lastFired>>
        /\ \A r \in Rules : news'[r] = TRUE
    BY <1>4 DEF SelectFails
  <2>2. \A r \in Rules : ~Quiet(r)'
    BY <2>1 DEF Quiet
  <2>3. SavesNews'
    BY <2>1, <2>2, IdleHoldsNothing, OthersSaveNews
  <2>4. OwnConcern'
    BY <1>0, <2>1, IdleHoldsNothing, KeepsToOwnConcern
  <2>5. AlertsOfNews
    BY <2>1 DEF AlertsOfNews, AlertsNow
  <2> QED
    BY <2>2, <2>3, <2>4, <2>5 DEF Remembers
<1>5. ASSUME NEW c \in Callers, Evaluate(c) \/ Persist(c) \/ Deliver(c) \/ StepFails(c)
      PROVE  Remembers' /\ AlertsOfNews
  BY <1>5, StepsOfWorkRemember
<1>6. CASE WorkerRestarts
  <2>1. /\ \A c \in Callers : job'[c] = Idle
        /\ \A r \in Rules : rules'[r] = Absent /\ lastFired'[r] = Never
        /\ UNCHANGED <<kindOf, row, saved, historyVars>>
    BY <1>6 DEF WorkerRestarts
  <2>2. \A r \in Rules : (Quiet(r)' <=> Quiet(r)) /\ alerted'[r] = alerted[r]
    BY <2>1 DEF Quiet, historyVars
  <2>3. \A r \in Rules : Quiet(r) => QuietIsKnown(r)' /\ OutdatedListsExpire(r)'
    BY <2>1, <2>2, IdleHoldsNothing
       DEF Remembers, QuietIsKnown, OutdatedListsExpire, OutdatedIn
  <2>4. SavesNews' /\ OwnConcern'
    BY <2>1, IdleHoldsNothing DEF SavesNews, OwnConcern, Working
  <2>5. AlertsOfNews
    BY <2>1 DEF AlertsOfNews, AlertsNow
  <2> QED
    BY <2>2, <2>3, <2>4, <2>5 DEF Remembers
<1>7. ASSUME NEW q \in Rules, CreateRule(q) \/ ToggleRule(q) \/ DeleteRule(q)
      PROVE  Remembers' /\ AlertsOfNews
  <2>1. UNCHANGED <<kindOf, saved, rules, lastRefresh, lastFired, job, news, alerted>>
    BY <1>7 DEF CreateRule, ToggleRule, DeleteRule, historyVars
  <2>2. \A r \in Rules : row[r] = "gone" => row'[r] = "gone"
    BY <1>7 DEF CreateRule, ToggleRule, DeleteRule, IInv, TypeOK
  <2>3. \A r \in Rules : Quiet(r)' <=> Quiet(r)
    BY <2>1 DEF Quiet
  <2>4. ASSUME NEW r \in Rules, Quiet(r) PROVE QuietIsKnown(r)' /\ OutdatedListsExpire(r)'
    BY <2>1, <2>2, <2>4
       DEF Remembers, QuietIsKnown, OutdatedListsExpire, OutdatedIn, RefreshBegunBy,
           Refreshing, Working, Overlap
  <2>5. SavesNews' /\ OwnConcern'
    BY <1>0, <2>1 DEF SavesNews, OwnConcern, Working, Quiet
  <2>6. AlertsOfNews
    BY <2>1 DEF AlertsOfNews, AlertsNow
  <2> QED
    BY <2>3, <2>4, <2>5, <2>6 DEF Remembers
<1>8. CASE Tick \/ UNCHANGED vars
  <2>1. UNCHANGED <<kindOf, row, saved, rules, lastRefresh, lastFired, job, news, alerted>>
    BY <1>8 DEF Tick, vars, historyVars
  <2> QED
    BY <2>1 DEF Remembers, QuietIsKnown, OutdatedListsExpire, OutdatedIn, SavesNews, OwnConcern,
                RefreshBegunBy, Refreshing, Working, Quiet, AlertsOfNews, AlertsNow, Overlap
<1> QED
  BY <1>1, <1>2, <1>3, <1>4, <1>5, <1>6, <1>7, <1>8 DEF Next

-----------------------------------------------------------------------------
(* Alerts                                                                  *)

(* A rule alerts only where a call is at it.                               *)
LEMMA AlertsAreDecidedOn ==
  ASSUME IInv, ListsAge, Next, NEW r \in Rules, AlertsNow(r)
  PROVE  \E c \in Callers :
           job[c].step \in {"evaluating", "persisting"} /\ r = Head(job[c].todo)
<1>1. ~UNCHANGED lastFired
  BY DEF AlertsNow
<1>2. ~WorkerRestarts
  BY DEF WorkerRestarts, AlertsNow
<1>3. PICK c \in Callers : Evaluate(c) \/ Persist(c)
  BY <1>1, <1>2
     DEF Next, Handle, Select, Install, SelectFails, Deliver, StepFails, CreateRule, ToggleRule,
         DeleteRule, Tick
<1>4. job[c].step \in {"evaluating", "persisting"}
  BY <1>3 DEF Evaluate, Persist
<1>5. lastFired' = [lastFired EXCEPT ![Head(job[c].todo)] = FiredAt(job[c])]
  BY <1>1, <1>3 DEF Evaluate, Persist, Decide
<1>6. r = Head(job[c].todo)
  BY <1>5 DEF IInv, TypeOK, AlertsNow
<1> QED
  BY <1>4, <1>6

(* The list of a call that alerts of a disabled rule is no older than a    *)
(* list becomes.                                                           *)
RulesFallSilent ==
  \A r \in Rules : row[r] # "enabled" /\ AlertsNow(r) => clock - listable[r] <= Stale + MaxStall

LEMMA SilenceFalls == IInv /\ Timely /\ ListsAge /\ [Next]_vars => RulesFallSilent
<1> SUFFICES ASSUME IInv, Timely, ListsAge, [Next]_vars, NEW r \in Rules, row[r] # "enabled",
                    AlertsNow(r)
             PROVE  clock - listable[r] <= Stale + MaxStall
  BY DEF RulesFallSilent
<1>1. Next
  BY DEF vars, AlertsNow
<1>2. PICK c \in Callers : job[c].step \in {"evaluating", "persisting"} /\ r = Head(job[c].todo)
  BY <1>1, AlertsAreDecidedOn
<1>3. job[c].list[r] # Absent /\ Working(job[c]) /\ job[c].step # "idle"
  BY <1>2, RuleAhead DEF Working
<1>4. job[c].now <= listable[r] + Stale
  BY <1>3 DEF ListsAge, OwnListAge
<1>5. clock <= job[c].now + MaxStall
  BY <1>3 DEF Timely, CallsOnTime
<1>6. clock \in Nat /\ listable[r] \in Nat /\ job[c].now \in Nat
  BY TimeTypes DEF IInv
<1> QED
  BY <1>4, <1>5, <1>6 DEF Stale

(* The invariant with the ages of the lists.                               *)
LEMMA AgesInvariance == Spec => [](IInv /\ Timely /\ ListsAge)
<1>1. Init => IInv /\ Timely /\ ListsAge
  BY InitIInv, InitTimely, InitListsAge
<1>2. IInv /\ Timely /\ ListsAge /\ [Next]_vars => (IInv /\ Timely /\ ListsAge)'
  BY StepIInv, StepTimely, StepListsAge
<1> QED
  BY <1>1, <1>2, PTL DEF Spec

(* A rule that was disabled or deleted alerts no longer after that than a  *)
(* list of rules is used and a call takes, whoever refreshes the list and  *)
(* however many refreshes overlap, with each other and with calls that use *)
(* an earlier list; for calls of any length and for any cooldown.          *)
THEOREM DisabledRulesStop == Spec => DisabledRuleStops
<1>1. IInv /\ Timely /\ ListsAge /\ [Next]_vars
        => [\A r \in Rules : row[r] # "enabled" /\ AlertsNow(r)
              => clock - listable[r] <= Stale + MaxStall]_vars
  BY SilenceFalls DEF RulesFallSilent
<1> QED
  BY <1>1, AgesInvariance, PTL DEF Spec, DisabledRuleStops

(* If the rules' cooldown is longer than a list is in use and a call takes *)
(* with it, a rule that watches a crossing or a regime alerts once of what *)
(* it saw, across lists replaced under a call, saves that fail and         *)
(* restarts.                                                               *)
THEOREM AlertsOncePerCrossing == CooldownOutlastsLists /\ Spec => OneAlertPerCrossing
<1>1. Init => Remembers
  BY InitRemembers
<1>2. CooldownOutlastsLists /\ IInv /\ Timely /\ ListsAge /\ Remembers /\ [Next]_vars
        => Remembers' /\ CooldownOutlastsLists'
  BY StepRemembers DEF CooldownOutlastsLists, Stale
<1>3. CooldownOutlastsLists /\ IInv /\ Timely /\ ListsAge /\ Remembers /\ [Next]_vars
        => [\A r \in Rules : kindOf[r] # "threshold" /\ AlertsNow(r) => news[r]]_vars
  BY StepRemembers DEF AlertsOfNews
<1> QED
  BY <1>1, <1>2, <1>3, AgesInvariance, PTL DEF Spec, OneAlertPerCrossing

=============================================================================
