----------------------------- MODULE RestClient -----------------------------
(***************************************************************************)
(* Requests to the Binance REST API: BinanceClient._get                    *)
(* (backend/app/ingestion/binance_client.py) with its WeightLimiter        *)
(* (backend/app/core/ratelimit.py), against the exchange's own count of    *)
(* the weight used from one address in the current minute.                 *)
(*                                                                         *)
(* The back-filler, the two jobs of the scheduler and the worker's poller  *)
(* each open a client and send one request at a time with it: the          *)
(* limiter's lock is never contended and is left out.  Every client has a  *)
(* limiter of its own, while the exchange adds up what all of them send,   *)
(* and with it what goes to the same base URL past the client: the order   *)
(* book's snapshots and the portfolio's requests, each through an httpx    *)
(* client of its own.                                                      *)
(*                                                                         *)
(* The clock is the sequence of minutes.  The limiter compares the number  *)
(* of the minute it counts in with the present one; fresh says whether     *)
(* they are the same, so that no minute needs a number.                    *)
(***************************************************************************)
EXTENDS Integers, FiniteSets

CONSTANTS
  Clients,
  WeightOf,     \* the weight of a client's requests (5, 10 and 1 in get_*)
  Threshold,    \* of the limiter: a fraction of the exchange's limit
  Limit,        \* of the exchange: above it requests are refused
  MaxRetries,
  OutsideWeight,  \* of a request past the client (50 of a snapshot)
  MaxOutside      \* bound on such requests, as their weight in a minute

ASSUME ClientsAssumption == IsFiniteSet(Clients) /\ Clients # {}

ASSUME WeightAssumption ==
  /\ Threshold \in Nat /\ Limit \in Nat /\ MaxRetries \in Nat
  /\ WeightOf \in [Clients -> 1..Threshold]
  /\ OutsideWeight \in Nat /\ MaxOutside \in Nat

VARIABLES
  server,    \* the weight the exchange has counted in this minute
  used,      \* _used_weight of every limiter
  fresh,     \* whether _window_minute is the present minute
  phase,     \* where every client is in _get
  attempt,   \* how many attempts it has behind it
  answer,    \* the response under way to it: what follows, and weight header
  spent,     \* history variable: what a client acquired in this minute
  unheard,   \* history variable: what the exchange counted in this minute
             \* without telling a client the count, and of that ...
  unheardOf, \* ... what every client sent
  outside    \* history variable: what came past the clients in this minute

unheardVars == <<unheard, unheardOf>>
historyVars == <<spent, unheardVars, outside>>
vars == <<server, used, fresh, phase, attempt, answer, historyVars>>

(* A weight of 0 is a header that is missing.                              *)
NoAnswer == [then |-> "none", weight |-> 0]

TypeOK ==
  /\ server \in Nat
  /\ used \in [Clients -> Nat]
  /\ fresh \in [Clients -> BOOLEAN]
  /\ phase \in [Clients -> {"idle", "acquiring", "sleeping", "sending", "answered", "backoff"}]
  /\ attempt \in [Clients -> 0..MaxRetries + 1]
  /\ answer \in [Clients -> [then : {"none", "return", "retry"}, weight : Nat]]
  /\ spent \in [Clients -> Nat]
  /\ unheard \in Nat /\ unheardOf \in [Clients -> Nat]
  /\ outside \in Nat

Init ==
  /\ server = 0
  /\ used = [c \in Clients |-> 0]
  /\ fresh = [c \in Clients |-> TRUE]
  /\ phase = [c \in Clients |-> "idle"]
  /\ attempt = [c \in Clients |-> 0]
  /\ answer = [c \in Clients |-> NoAnswer]
  /\ spent = [c \in Clients |-> 0]
  /\ unheard = 0 /\ unheardOf = [c \in Clients |-> 0]
  /\ outside = 0

-----------------------------------------------------------------------------
(* The limiter                                                             *)

(* _roll_window, as the weight that counts after it.                       *)
RolledWeight(c) == IF fresh[c] THEN used[c] ELSE 0

(* The end of acquire: the weight is accounted for before it is sent.      *)
Spend(c) ==
  /\ used' = [used EXCEPT ![c] = RolledWeight(c) + WeightOf[c]]
  /\ fresh' = [fresh EXCEPT ![c] = TRUE]
  /\ spent' = [spent EXCEPT ![c] = @ + WeightOf[c]]
  /\ phase' = [phase EXCEPT ![c] = "sending"]
  /\ UNCHANGED <<server, attempt, answer, unheardVars, outside>>

(* acquire, when the weight can be spent at once.                          *)
AcquireUnchecked(c) == phase[c] = "acquiring" /\ Spend(c)
Acquire(c) ==
  /\ phase[c] = "acquiring"
  /\ RolledWeight(c) + WeightOf[c] <= Threshold
  /\ Spend(c)

(* acquire, when it has to sleep until the next minute.                    *)
Sleep(c) ==
  /\ phase[c] = "acquiring"
  /\ RolledWeight(c) + WeightOf[c] > Threshold
  /\ used' = [used EXCEPT ![c] = RolledWeight(c)]
  /\ fresh' = [fresh EXCEPT ![c] = TRUE]
  /\ phase' = [phase EXCEPT ![c] = "sleeping"]
  /\ UNCHANGED <<server, attempt, answer, historyVars>>

(* It wakes up in a later minute (the sleep is taken to reach it) and      *)
(* spends without a second look at the threshold.                          *)
WakeUp(c) == phase[c] = "sleeping" /\ ~fresh[c] /\ Spend(c)

-----------------------------------------------------------------------------
(* _get                                                                    *)

Call(c) ==
  /\ phase[c] = "idle"
  /\ phase' = [phase EXCEPT ![c] = "acquiring"]
  /\ UNCHANGED <<server, used, fresh, attempt, answer, historyVars>>

(* The exchange counts a request when it arrives, which may be in another  *)
(* minute than the one it was accounted for in.                            *)
Counts(c, counted, told) ==
  /\ phase[c] = "sending"
  /\ server' = server + counted
  /\ IF told THEN UNCHANGED unheardVars
     ELSE /\ unheard' = unheard + counted
          /\ unheardOf' = [unheardOf EXCEPT ![c] = @ + counted]

(* An answer may carry the count as X-MBX-USED-WEIGHT-1M, and may be       *)
(* without it.  429, 418 and 5xx are to be retried; the rest returns: a    *)
(* result, or a refusal that raise_for_status raises.                      *)
Arrives(c, then, told) ==
  /\ Counts(c, WeightOf[c], told)
  /\ server' > Limit => then = "retry"
  /\ answer' = [answer EXCEPT ![c] = [then |-> then, weight |-> IF told THEN server' ELSE 0]]
  /\ phase' = [phase EXCEPT ![c] = "answered"]
  /\ UNCHANGED <<used, fresh, attempt, spent, outside>>

(* httpx.TransportError, whether or not the exchange has seen the request. *)
TransportFails(c) ==
  /\ \E counted \in {0, WeightOf[c]} : Counts(c, counted, FALSE)
  /\ phase' = [phase EXCEPT ![c] = "backoff"]
  /\ attempt' = [attempt EXCEPT ![c] = @ + 1]
  /\ UNCHANGED <<used, fresh, answer, spent, outside>>

(* BookMaintainer.fetch_snapshot, or a request for the portfolio.          *)
SentOutside ==
  /\ outside + OutsideWeight <= MaxOutside
  /\ server' = server + OutsideWeight
  /\ outside' = outside + OutsideWeight
  /\ UNCHANGED <<used, fresh, phase, attempt, answer, spent, unheardVars>>

(* update_from_headers: the server's figure counts if it is there and the  *)
(* larger.                                                                 *)
HeaderIgnored(c, header) == used
HeaderApplied(c, header) ==
  IF header > used[c] THEN [used EXCEPT ![c] = header] ELSE used

(* The response, for good or to be tried again after a pause.              *)
RetriesForEver(c) ==
  /\ phase[c] = "answered"
  /\ used' = HeaderApplied(c, answer[c].weight)
  /\ phase' = [phase EXCEPT ![c] = IF answer[c].then = "retry" THEN "backoff" ELSE "idle"]
  /\ attempt' = [attempt EXCEPT ![c] = 0]
  /\ answer' = [answer EXCEPT ![c] = NoAnswer]
  /\ UNCHANGED <<server, fresh, historyVars>>
Receive(c) ==
  /\ phase[c] = "answered"
  /\ used' = HeaderApplied(c, answer[c].weight)
  /\ IF answer[c].then = "retry"
     THEN /\ phase' = [phase EXCEPT ![c] = "backoff"]
          /\ attempt' = [attempt EXCEPT ![c] = @ + 1]
     ELSE /\ phase' = [phase EXCEPT ![c] = "idle"]
          /\ attempt' = [attempt EXCEPT ![c] = 0]
  /\ answer' = [answer EXCEPT ![c] = NoAnswer]
  /\ UNCHANGED <<server, fresh, historyVars>>

(* The pause is over: another attempt, or BinanceAPIError after the last.  *)
TryAgainAlways(c) ==
  /\ phase[c] = "backoff"
  /\ phase' = [phase EXCEPT ![c] = "acquiring"]
  /\ UNCHANGED <<server, used, fresh, attempt, answer, historyVars>>
TryAgain(c) ==
  /\ phase[c] = "backoff" /\ attempt[c] <= MaxRetries
  /\ phase' = [phase EXCEPT ![c] = "acquiring"]
  /\ UNCHANGED <<server, used, fresh, attempt, answer, historyVars>>

GiveUp(c) ==
  /\ phase[c] = "backoff" /\ attempt[c] = MaxRetries + 1
  /\ phase' = [phase EXCEPT ![c] = "idle"]
  /\ attempt' = [attempt EXCEPT ![c] = 0]
  /\ UNCHANGED <<server, used, fresh, answer, historyVars>>

(* A new minute begins, for the clients and for the exchange.              *)
MinuteBegins ==
  /\ server' = 0
  /\ fresh' = [c \in Clients |-> FALSE]
  /\ spent' = [c \in Clients |-> 0]
  /\ unheard' = 0 /\ unheardOf' = [c \in Clients |-> 0]
  /\ outside' = 0
  /\ UNCHANGED <<used, phase, attempt, answer>>

Get(c) ==
  \/ Acquire(c) \/ Sleep(c) \/ WakeUp(c)
  \/ \E then \in {"return", "retry"}, told \in BOOLEAN : Arrives(c, then, told)
  \/ TransportFails(c) \/ Receive(c) \/ TryAgain(c) \/ GiveUp(c)

Next == MinuteBegins \/ SentOutside \/ \E c \in Clients : Call(c) \/ Get(c)

(* A task runs when it can, a request is answered or fails in the end, and *)
(* time goes on.                                                           *)
Fairness == WF_vars(MinuteBegins) /\ \A c \in Clients : WF_vars(Get(c))

Spec == Init /\ [][Next]_vars /\ Fairness

-----------------------------------------------------------------------------
(* Properties                                                              *)

(* What a client acquires within a minute stays within the limiter's       *)
(* threshold, whenever the responses arrive, whatever the headers say and  *)
(* although nothing is checked after a sleep (core/ratelimit.py: "Wait     *)
(* until weight can be spent without crossing the threshold").             *)
SpendsWithin == \A c \in Clients : spent[c] <= Threshold

(* What the exchange counts for all clients together, of which none knows  *)
(* the others, exceeds the threshold by no more than what came past the    *)
(* clients, one request that was carried over from the last minute, two of *)
(* every client but one, and what the others sent without being told the   *)
(* count.  (One of the two is carried over: its answer is forgotten with   *)
(* the window it was noted in, and the next request learns the count.)     *)
(* This is what the fifth of the limit that the limiter leaves free has to *)
(* take.                                                                   *)
Heaviest == CHOOSE w \in {WeightOf[c] : c \in Clients} : \A c \in Clients : WeightOf[c] <= w
Overshoot == (2 * Cardinality(Clients) - 1) * Heaviest
OvershootBounded ==
  \E c \in Clients : server <= Threshold + outside + (unheard - unheardOf[c]) + Overshoot

(* Every request ends with a result or an error: nobody sleeps for ever,   *)
(* and no error is retried without end.                                    *)
CallsReturn == \A c \in Clients : phase[c] # "idle" ~> phase[c] = "idle"

=============================================================================
