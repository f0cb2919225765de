---------------------------- MODULE AlertEngine -----------------------------
(***************************************************************************)
(* The alert engine of the ingestion worker (backend/app/alerts) and the   *)
(* rules the API changes under it (backend/app/api/alerts.py).             *)
(*                                                                         *)
(* One engine is called by two tasks: the message loop (tickers, whales,   *)
(* liqs, marks) and the regime sweep.  They share the list of rules, which *)
(* either of them replaces when it is ten seconds old, and interleave at   *)
(* every database call; a call goes on with the list it began with, whose  *)
(* rule objects carry the memory of the rules.                             *)
(*                                                                         *)
(* A message is abstracted to what its rules make of it: "low" is below    *)
(* the level or the threshold, or one trend, "high" at or above it, or     *)
(* another trend, and "unknown" the trend of that name.                    *)
(***************************************************************************)
EXTENDS Integers, Sequences, FiniteSets, SequencesExt

CONSTANTS
  Rules,
  RefreshEvery,  \* how long a list of rules is used
  Cooldown,      \* cooldown_s, of every rule
  MaxStall,      \* how long a call may wait for the database and for Telegram
  MaxTime

Callers == {"loop", "sweep"}
Kinds == {"price", "regime", "threshold"}  \* the last: whale, liquidation, funding
CallerOf(kind) == IF kind = "regime" THEN "sweep" ELSE "loop"
Data(c) == IF c = "sweep" THEN {"low", "high", "unknown"} ELSE {"low", "high"}

(* How long a list may be in use: it is replaced by the first call that    *)
(* finds it too old.  The loop may be stalled by an earlier call before it *)
(* makes that one, which takes a while itself.  If calls may wait for as   *)
(* long as a list is used, the list read in one refresh may also be put in *)
(* place after another refresh has begun.                                  *)
Stale == IF MaxStall < RefreshEvery THEN RefreshEvery + 2 * MaxStall ELSE 4 * MaxStall

ASSUME RulesAssumption == IsFiniteSet(Rules)

(* The API accepts cooldowns from 10 s on, and nothing keeps a call from   *)
(* waiting for longer than that: one message to Telegram may take 10 s for *)
(* every phase of its request, and a database call has no limit at all.    *)
ASSUME TimesAssumption ==
  /\ RefreshEvery \in Nat \ {0} /\ Cooldown \in Nat \ {0}
  /\ MaxStall \in Nat /\ MaxTime \in Nat

None == "none"            \* nothing remembered yet: state_json is empty
Absent == "absent"        \* the rule is not in the list
Never == -Cooldown        \* no entry in last_fired
LongAgo == -RefreshEvery  \* _last_refresh of a new engine

VARIABLES
  kindOf,       \* what the rules are about, as the user wants it
  row,          \* the rule in the table: "new", "enabled", "disabled" or "gone"
  saved,        \* its state_json there
  rules,        \* self.rules, as the memory of the rules in it
  lastRefresh,  \* self._last_refresh
  lastFired,    \* self.last_fired
  job,          \* the call of handle every caller is in
  clock,
  heard,        \* the loop has been called since the clock last moved
  news,         \* history variable: since its last alert a rule has been shown
                \* something else, or the table could not be read
  alerted,      \* history variable: what a rule last alerted of
  listable      \* history variable: when a rule was last enabled, or could not
                \* be listed because the table could not be read

Idle == [step |-> "idle", datum |-> None, now |-> 0, list |-> [r \in Rules |-> Absent],
         shared |-> FALSE, todo |-> <<>>, fires |-> FALSE, fired |-> <<>>]
historyVars == <<news, alerted, listable>>
time == <<clock, heard>>
vars == <<kindOf, row, saved, rules, lastRefresh, lastFired, job, time, historyVars>>

Memory == {None, "low", "high", "unknown"}
Lists == [Rules -> Memory \cup {Absent}]
Jobs == [step : {"idle", "selecting", "installing", "evaluating", "persisting", "delivering"},
         datum : Memory, now : 0..MaxTime, list : Lists, shared : BOOLEAN,
         todo : Seq(Rules), fires : BOOLEAN, fired : Seq(Rules)]

TypeOK ==
  /\ kindOf \in [Rules -> Kinds]
  /\ row \in [Rules -> {"new", "enabled", "disabled", "gone"}]
  /\ saved \in [Rules -> Memory]
  /\ rules \in Lists
  /\ lastRefresh \in LongAgo..MaxTime
  /\ lastFired \in [Rules -> {Never} \cup 0..MaxTime]
  /\ job \in [Callers -> Jobs]
  /\ clock \in 0..MaxTime /\ heard \in BOOLEAN
  /\ news \in [Rules -> BOOLEAN]
  /\ alerted \in [Rules -> Memory]
  /\ listable \in [Rules -> 0..MaxTime]

Init ==
  /\ kindOf \in [Rules -> Kinds]
  /\ row = [r \in Rules |-> "new"]
  /\ saved = [r \in Rules |-> None]
  /\ rules = [r \in Rules |-> Absent]
  /\ lastRefresh = LongAgo
  /\ lastFired = [r \in Rules |-> Never]
  /\ job = [c \in Callers |-> Idle]
  /\ clock = 0 /\ heard = FALSE
  /\ news = [r \in Rules |-> FALSE]
  /\ alerted = [r \in Rules |-> None]
  /\ listable = [r \in Rules |-> 0]

-----------------------------------------------------------------------------
(* evaluate_rule                                                           *)

Remembered(r, memory, datum) == IF kindOf[r] = "threshold" THEN memory ELSE datum

(* A price alerts when it crosses its level upward (downward is the mirror *)
(* image), a regime when it changes, the others at their threshold.        *)
Fires(r, memory, datum) ==
  CASE kindOf[r] = "price"     -> memory = "low" /\ datum = "high"
    [] kindOf[r] = "regime"    -> memory # None /\ datum \notin {memory, "unknown"}
    [] kindOf[r] = "threshold" -> datum = "high"

-----------------------------------------------------------------------------
(* handle                                                                  *)

(* Between two awaits no other task runs.                                  *)
LoopFree == \A c \in Callers : job[c].step # "evaluating"

(* The rules of a list a message is about; the others are passed over.     *)
Concerned(c, list) == [r \in Rules |-> IF CallerOf(kindOf[r]) = c THEN list[r] ELSE Absent]

(* The step after a rule: the next one, delivery, or the end of the call.  *)
Continued(j) ==
  IF j.todo # <<>> THEN [j EXCEPT !.step = "evaluating"]
  ELSE IF j.fired # <<>> THEN [j EXCEPT !.step = "delivering"]
  ELSE Idle

(* The call takes the time and the list once the rules are up to date.     *)
Begun(c, datum, list) ==
  Continued([Idle EXCEPT !.datum = datum, !.now = clock, !.list = Concerned(c, list),
                         !.shared = TRUE,
                         !.todo = SetToSeq({r \in Rules : Concerned(c, list)[r] # Absent})])

(* A message or a sweep: refresh_rules returns at once while the list is   *)
(* young, and otherwise notes the time before it reads the table.          *)
Handle(c, datum) ==
  /\ LoopFree /\ job[c].step = "idle"
  /\ news' = [r \in Rules |-> news[r] \/ (CallerOf(kindOf[r]) = c /\ datum # alerted[r])]
  /\ IF clock - lastRefresh < RefreshEvery
     THEN /\ job' = [job EXCEPT ![c] = Begun(c, datum, rules)]
          /\ UNCHANGED lastRefresh
     ELSE /\ lastRefresh' = clock
          /\ job' = [job EXCEPT ![c] = [Idle EXCEPT !.step = "selecting", !.datum = datum,
                                                    !.now = clock]]
  /\ heard' = (heard \/ c = "loop")
  /\ UNCHANGED <<kindOf, row, saved, rules, lastFired, clock, alerted, listable>>

ListsDisabled == [r \in Rules |-> IF row[r] \notin {"new", "gone"} THEN saved[r] ELSE Absent]
EnabledRules == [r \in Rules |-> IF row[r] = "enabled" THEN saved[r] ELSE Absent]

Select(c) ==
  /\ LoopFree /\ job[c].step = "selecting"
  /\ job' = [job EXCEPT ![c].step = "installing", ![c].list = EnabledRules]
  /\ UNCHANGED <<kindOf, row, saved, rules, lastRefresh, lastFired, time, historyVars>>

(* The other caller keeps the list it is going through, for itself.        *)
Install(c) ==
  /\ LoopFree /\ job[c].step = "installing"
  /\ rules' = job[c].list
  /\ job' = [d \in Callers |-> IF d = c THEN Begun(c, job[c].datum, job[c].list)
                               ELSE [job[d] EXCEPT !.shared = FALSE]]
  /\ UNCHANGED <<kindOf, row, saved, lastRefresh, lastFired, time, historyVars>>

SelectFails(c) ==
  /\ LoopFree /\ job[c].step = "selecting"
  /\ job' = [job EXCEPT ![c] = Idle]
  /\ listable' = [r \in Rules |-> clock]
  /\ news' = [r \in Rules |-> TRUE]
  /\ UNCHANGED <<kindOf, row, saved, rules, lastRefresh, lastFired, time, alerted>>

CoolsUntil(j) == j.now + Cooldown
FiredAt(j) == j.now

(* The rest of the loop's body: an alert is decided on.                    *)
Decide(c, j, r, fires) ==
  /\ job' = [job EXCEPT ![c] = Continued([j EXCEPT !.todo = Tail(@), !.fires = FALSE,
                                          !.fired = IF fires THEN Append(@, r) ELSE @])]
  /\ IF fires
     THEN /\ lastFired' = [lastFired EXCEPT ![r] = FiredAt(j)]
          /\ alerted' = [alerted EXCEPT ![r] = j.datum]
          /\ news' = [news EXCEPT ![r] = FALSE]
     ELSE UNCHANGED <<lastFired, alerted, news>>

NeverCools(j, r) == FALSE
CoolingDown(j, r) == j.now - lastFired[r] < Cooldown

(* One rule: it is passed over while it cools down; if its memory changes, *)
(* that is set in the object and awaits being saved.                       *)
Evaluate(c) ==
  LET j == job[c]
      r == Head(j.todo)
      memory == Remembered(r, j.list[r], j.datum)
  IN
  /\ j.step = "evaluating"
  /\ \/ /\ CoolingDown(j, r)
        /\ Decide(c, j, r, FALSE)
        /\ UNCHANGED rules
     \/ /\ ~CoolingDown(j, r) /\ memory = j.list[r]
        /\ Decide(c, j, r, Fires(r, j.list[r], j.datum))
        /\ UNCHANGED rules
     \/ /\ ~CoolingDown(j, r) /\ memory # j.list[r]
        /\ job' = [job EXCEPT ![c].step = "persisting", ![c].list[r] = memory,
                              ![c].fires = Fires(r, j.list[r], j.datum)]
        /\ rules' = IF j.shared THEN [rules EXCEPT ![r] = memory] ELSE rules
        /\ UNCHANGED <<lastFired, alerted, news>>
  /\ UNCHANGED <<kindOf, row, saved, lastRefresh, time, listable>>

(* _persist_state                                                          *)
PersistUnlessFired(c) ==
  LET j == job[c]  r == Head(j.todo) IN
  /\ LoopFree /\ j.step = "persisting"
  /\ saved' = IF j.fires THEN saved ELSE [saved EXCEPT ![r] = j.list[r]]
  /\ Decide(c, j, r, j.fires)
  /\ UNCHANGED <<kindOf, row, rules, lastRefresh, time, listable>>
Persist(c) ==
  LET j == job[c]  r == Head(j.todo) IN
  /\ LoopFree /\ j.step = "persisting"
  /\ saved' = IF row[r] = "gone" THEN saved ELSE [saved EXCEPT ![r] = j.list[r]]
  /\ Decide(c, j, r, j.fires)
  /\ UNCHANGED <<kindOf, row, rules, lastRefresh, time, listable>>

(* _deliver: the event row, the message to the browsers and the one to     *)
(* Telegram, which the call waits for; send_telegram reports a failure of  *)
(* its own as a result that nobody reads.                                  *)
Deliver(c) ==
  /\ LoopFree /\ job[c].step = "delivering"
  /\ job' = [job EXCEPT ![c] = Continued([job[c] EXCEPT !.fired = Tail(@)])]
  /\ UNCHANGED <<kindOf, row, saved, rules, lastRefresh, lastFired, time, historyVars>>

(* A failing database or Redis ends the call: the alerts decided on but    *)
(* not delivered are lost, and so are the rules not reached.               *)
StepFails(c) ==
  /\ LoopFree /\ job[c].step \in {"persisting", "delivering"}
  /\ job' = [job EXCEPT ![c] = Idle]
  /\ UNCHANGED <<kindOf, row, saved, rules, lastRefresh, lastFired, time, historyVars>>

WorkerRestarts ==
  /\ LoopFree
  /\ rules' = [r \in Rules |-> Absent]
  /\ lastRefresh' = LongAgo
  /\ lastFired' = [r \in Rules |-> Never]
  /\ job' = [c \in Callers |-> Idle]
  /\ UNCHANGED <<kindOf, row, saved, time, historyVars>>

-----------------------------------------------------------------------------
(* The API                                                                 *)

CreateRule(r) ==
  /\ row[r] = "new"
  /\ row' = [row EXCEPT ![r] = "enabled"]
  /\ UNCHANGED <<kindOf, saved, rules, lastRefresh, lastFired, job, time, historyVars>>

ToggleRule(r) ==
  /\ row[r] \in {"enabled", "disabled"}
  /\ row' = [row EXCEPT ![r] = IF @ = "enabled" THEN "disabled" ELSE "enabled"]
  /\ listable' = [listable EXCEPT ![r] = clock]
  /\ UNCHANGED <<kindOf, saved, rules, lastRefresh, lastFired, job, time, news, alerted>>

DeleteRule(r) ==
  /\ row[r] \in {"enabled", "disabled"}
  /\ row' = [row EXCEPT ![r] = "gone"]
  /\ listable' = IF row[r] = "enabled" THEN [listable EXCEPT ![r] = clock] ELSE listable
  /\ UNCHANGED <<kindOf, saved, rules, lastRefresh, lastFired, job, time, news, alerted>>

(* Time passes, but no call waits longer than MaxStall, and the tickers    *)
(* that arrive every second call the loop before time moves on.            *)
Tick ==
  /\ clock < MaxTime /\ (heard \/ job["loop"].step # "idle")
  /\ \A c \in Callers : job[c].step # "idle" => clock - job[c].now < MaxStall
  /\ clock' = clock + 1 /\ heard' = FALSE
  /\ UNCHANGED <<kindOf, row, saved, rules, lastRefresh, lastFired, job, historyVars>>

Next ==
  \/ \E c \in Callers :
       \/ \E datum \in Data(c) : Handle(c, datum)
       \/ Select(c) \/ Install(c) \/ SelectFails(c)
       \/ Evaluate(c) \/ Persist(c) \/ Deliver(c) \/ StepFails(c)
  \/ \E r \in Rules : CreateRule(r) \/ ToggleRule(r) \/ DeleteRule(r)
  \/ WorkerRestarts \/ Tick

Spec == Init /\ [][Next]_vars

-----------------------------------------------------------------------------
(* Properties                                                              *)

AlertsNow(r) == lastFired'[r] \notin {lastFired[r], Never}

(* A rule that watches a crossing or a regime alerts once of it: between   *)
(* two alerts something else was seen, although the two callers replace    *)
(* the list under each other, memory is saved after it is changed, and     *)
(* saving it may fail or be cut off by a restart.  This takes a cooldown   *)
(* that outlasts the lists in use and a call with one of them, as the      *)
(* default of 300 s does; the 10 s that the API accepts need not.          *)
CooldownOutlastsLists == Cooldown > Stale + MaxStall
OneAlertPerCrossing ==
  [][\A r \in Rules : kindOf[r] # "threshold" /\ AlertsNow(r) => news[r]]_vars

(* A rule that is disabled or deleted falls silent: it alerts at most as   *)
(* long after as a list is used and a call waits, counting from the last   *)
(* time the table could not be read.                                       *)
DisabledRuleStops ==
  [][\A r \in Rules : row[r] # "enabled" /\ AlertsNow(r)
       => clock - listable[r] <= Stale + MaxStall]_vars

(* The two callers together keep a rule's cooldown: a rule that fires      *)
(* twice in the life of an engine has waited for it in between.            *)
CooldownHolds ==
  [][\A r \in Rules : AlertsNow(r) => lastFired'[r] - lastFired[r] >= Cooldown]_vars

=============================================================================
