-------------------------- MODULE RestClientProofs --------------------------
(***************************************************************************)
(* Proofs about RestClient, for any clients, weights, threshold, limit and *)
(* number of retries.  A client spends at most the threshold in a minute   *)
(* because its limiter never counts less than it has spent: headers only   *)
(* raise the count, and what is spent unchecked after a sleep is the first *)
(* of its minute.                                                          *)
(*                                                                         *)
(* All clients together are counted for at most the threshold, a request   *)
(* that was carried over, and two requests of every client but one, the    *)
(* one that last found weight left, apart from what the others sent        *)
(* without being told the count and what came past the clients.            *)
(***************************************************************************)
EXTENDS RestClient, FiniteSetTheorems, TLAPS

USE WeightAssumption

(* Every attempt of a call but the last may be followed by another one.    *)
AttemptsLeft ==
  \A c \in Clients : /\ phase[c] # "backoff" => attempt[c] <= MaxRetries
                     /\ phase[c] = "idle" => attempt[c] = 0

(* The count of a limiter covers what its client spent in this minute.     *)
CountsWhatIsSpent ==
  \A c \in Clients : /\ fresh[c] => spent[c] <= used[c]
                     /\ ~fresh[c] => spent[c] = 0

IInv == TypeOK /\ AttemptsLeft /\ CountsWhatIsSpent /\ SpendsWithin

-----------------------------------------------------------------------------

(* A request has a weight that fits under the threshold.                   *)
LEMMA WeightIsPositive ==
  ASSUME NEW c \in Clients
  PROVE  WeightOf[c] \in Nat /\ WeightOf[c] > 0 /\ WeightOf[c] <= Threshold
  OBVIOUS

(* What counts after _roll_window covers what was spent in this minute.    *)
LEMMA RolledWeightCovers ==
  ASSUME IInv, NEW c \in Clients
  PROVE  RolledWeight(c) \in Nat /\ spent[c] <= RolledWeight(c)
  BY DEF IInv, TypeOK, CountsWhatIsSpent, RolledWeight

(* A request that arrives leaves all counts numbers.                       *)
CountsAreNumbers == server \in Nat /\ unheard \in Nat /\ unheardOf \in [Clients -> Nat]
LEMMA CountingKeeps ==
  ASSUME TypeOK, NEW c \in Clients, NEW counted \in Nat, NEW told \in BOOLEAN,
         Counts(c, counted, told)
  PROVE  CountsAreNumbers'
  BY DEF Counts, TypeOK, CountsAreNumbers, unheardVars

(* Spending keeps the invariant if the limiter's count stays below the     *)
(* threshold, or if nothing was spent in this minute before.               *)
LEMMA SpendKeeps ==
  ASSUME IInv, NEW c \in Clients, Spend(c), attempt[c] <= MaxRetries,
         spent[c] + WeightOf[c] <= Threshold
  PROVE  IInv'
<1>1. /\ RolledWeight(c) \in Nat /\ spent[c] <= RolledWeight(c)
      /\ WeightOf[c] \in Nat
  BY RolledWeightCovers, WeightIsPositive
<1>2. TypeOK'
  BY <1>1 DEF IInv, TypeOK, Spend, unheardVars
<1>3. AttemptsLeft'
  BY DEF IInv, TypeOK, AttemptsLeft, Spend
<1>4. CountsWhatIsSpent' /\ SpendsWithin'
  BY <1>1 DEF IInv, TypeOK, CountsWhatIsSpent, SpendsWithin, Spend
<1> QED
  BY <1>2, <1>3, <1>4 DEF IInv

(* The invariant holds before the first request.                           *)
LEMMA InvInit == Init => IInv
  BY DEF Init, IInv, TypeOK, NoAnswer, AttemptsLeft, CountsWhatIsSpent, SpendsWithin

(* Every step keeps the invariant.                                         *)
LEMMA InvNext == IInv /\ [Next]_vars => IInv'
<1> SUFFICES ASSUME IInv, [Next]_vars PROVE IInv'
  OBVIOUS
<1> USE DEF IInv
<1>1. CASE MinuteBegins
  BY <1>1 DEF MinuteBegins, TypeOK, AttemptsLeft, CountsWhatIsSpent, SpendsWithin
<1>2. ASSUME NEW c \in Clients, Call(c) PROVE IInv'
  BY <1>2 DEF Call, TypeOK, AttemptsLeft, CountsWhatIsSpent, SpendsWithin, historyVars, unheardVars
<1>3. ASSUME NEW c \in Clients, Get(c) PROVE IInv'
  <2>1. CASE Acquire(c)
    <3>1. spent[c] + WeightOf[c] <= Threshold
      BY <2>1, RolledWeightCovers, WeightIsPositive DEF Acquire, TypeOK
    <3> QED
      BY <2>1, <3>1, SpendKeeps DEF Acquire, AttemptsLeft
  <2>2. CASE WakeUp(c)
    <3>1. spent[c] + WeightOf[c] <= Threshold
      BY <2>2, WeightIsPositive DEF WakeUp, CountsWhatIsSpent
    <3> QED
      BY <2>2, <3>1, SpendKeeps DEF WakeUp, AttemptsLeft
  <2>3. CASE Sleep(c)
    BY <2>3, RolledWeightCovers
    DEF Sleep, TypeOK, AttemptsLeft, CountsWhatIsSpent, SpendsWithin, historyVars, unheardVars
  <2>4. ASSUME NEW then \in {"return", "retry"}, NEW told \in BOOLEAN, Arrives(c, then, told)
        PROVE  IInv'
    <3>1. CountsAreNumbers'
      BY <2>4, CountingKeeps, WeightIsPositive DEF Arrives
    <3>2. answer' \in [Clients -> [then : {"none", "return", "retry"}, weight : Nat]]
      BY <2>4, <3>1 DEF Arrives, TypeOK, CountsAreNumbers
    <3>3. phase[c] = "sending"
      BY <2>4 DEF Arrives, Counts
    <3>4. /\ phase' = [phase EXCEPT ![c] = "answered"]
          /\ UNCHANGED <<used, fresh, attempt, spent, outside>>
      BY <2>4 DEF Arrives
    <3>5. TypeOK'
      BY <3>1, <3>2, <3>4 DEF TypeOK, CountsAreNumbers
    <3> QED
      BY <3>3, <3>4, <3>5 DEF TypeOK, AttemptsLeft, CountsWhatIsSpent, SpendsWithin
  <2>5. CASE TransportFails(c)
    <3>1. CountsAreNumbers'
      BY <2>5, CountingKeeps, WeightIsPositive DEF TransportFails
    <3>2. phase[c] = "sending"
      BY <2>5 DEF TransportFails, Counts
    <3>3. /\ phase' = [phase EXCEPT ![c] = "backoff"]
          /\ attempt' = [attempt EXCEPT ![c] = @ + 1]
          /\ UNCHANGED <<used, fresh, answer, spent, outside>>
      BY <2>5 DEF TransportFails
    <3>4. attempt[c] \in 0..MaxRetries
      BY <3>2 DEF TypeOK, AttemptsLeft
    <3>5. TypeOK'
      BY <3>1, <3>3, <3>4 DEF TypeOK, CountsAreNumbers
    <3>6. AttemptsLeft'
      BY <3>3 DEF TypeOK, AttemptsLeft
    <3>7. CountsWhatIsSpent' /\ SpendsWithin'
      BY <3>3 DEF CountsWhatIsSpent, SpendsWithin
    <3> QED
      BY <3>5, <3>6, <3>7
  <2>6. CASE Receive(c)
    <3>1. /\ used' \in [Clients -> Nat]
          /\ \A d \in Clients : used[d] <= used'[d]
      <4>1. answer[c].weight \in Nat /\ used \in [Clients -> Nat]
        BY DEF TypeOK
      <4> QED
        BY <2>6, <4>1 DEF Receive, HeaderApplied
    <3>2. CountsWhatIsSpent' /\ SpendsWithin'
      BY <2>6, <3>1 DEF Receive, TypeOK, CountsWhatIsSpent, SpendsWithin, historyVars, unheardVars
    <3>3. answer' \in [Clients -> [then : {"none", "return", "retry"}, weight : Nat]]
      BY <2>6 DEF Receive, TypeOK, NoAnswer
    <3>4. attempt[c] \in 0..MaxRetries
      BY <2>6 DEF Receive, TypeOK, AttemptsLeft
    <3>5. /\ attempt' \in [Clients -> 0..MaxRetries + 1]
          /\ phase' \in [Clients -> {"idle", "acquiring", "sleeping", "sending",
                                     "answered", "backoff"}]
      <4>1. /\ attempt \in [Clients -> 0..MaxRetries + 1] /\ MaxRetries \in Nat
            /\ phase \in [Clients -> {"idle", "acquiring", "sleeping", "sending",
                                     "answered", "backoff"}]
        BY DEF TypeOK
      <4>2. CASE answer[c].then = "retry"
        BY <2>6, <3>4, <4>1, <4>2 DEF Receive
      <4>3. CASE answer[c].then # "retry"
        BY <2>6, <4>1, <4>3 DEF Receive
      <4> QED
        BY <4>2, <4>3
    <3>6. AttemptsLeft'
      BY <2>6, <3>4 DEF Receive, TypeOK, AttemptsLeft
    <3>7. TypeOK'
      <4>1. UNCHANGED <<server, fresh, spent, unheard, unheardOf, outside>>
        BY <2>6 DEF Receive, historyVars, unheardVars
      <4> QED
        BY <4>1, <3>1, <3>3, <3>5 DEF TypeOK
    <3> QED
      BY <3>2, <3>6, <3>7
  <2>7. CASE TryAgain(c)
    BY <2>7 DEF TryAgain, TypeOK, AttemptsLeft, CountsWhatIsSpent, SpendsWithin, historyVars, unheardVars
  <2>8. CASE GiveUp(c)
    BY <2>8 DEF GiveUp, TypeOK, AttemptsLeft, CountsWhatIsSpent, SpendsWithin, historyVars, unheardVars
  <2> QED
    BY <1>3, <2>1, <2>2, <2>3, <2>4, <2>5, <2>6, <2>7, <2>8 DEF Get
<1>4. CASE SentOutside
  <2>1. server' \in Nat /\ outside' \in Nat
    BY <1>4 DEF SentOutside, TypeOK
  <2> QED
    BY <1>4, <2>1
    DEF SentOutside, TypeOK, AttemptsLeft, CountsWhatIsSpent, SpendsWithin, unheardVars
<1>5. CASE UNCHANGED vars
  BY <1>5 DEF vars, historyVars, unheardVars, TypeOK, AttemptsLeft, CountsWhatIsSpent, SpendsWithin
<1> QED
  BY <1>1, <1>2, <1>3, <1>4, <1>5 DEF Next

(* The invariant holds in every state.                                     *)
LEMMA AlwaysInv == Spec => []IInv
  BY InvInit, InvNext, PTL DEF Spec

(* Type correctness of the clients, their limiters and the exchange's      *)
(* count, in particular: a call never makes more attempts than its retries *)
(* allow.                                                                  *)
THEOREM RestTypeCorrect == Spec => []TypeOK
<1>1. IInv => TypeOK
  BY DEF IInv
<1> QED
  BY AlwaysInv, <1>1, PTL

(* No client of the REST API acquires more than the limiter's threshold    *)
(* within a minute, with any timing of sleeps, responses and headers.      *)
THEOREM ThresholdHolds == Spec => []SpendsWithin
<1>1. IInv => SpendsWithin
  BY DEF IInv
<1> QED
  BY AlwaysInv, <1>1, PTL

-----------------------------------------------------------------------------
(* All clients together                                                    *)

(* A client that does not know how much the exchange has counted in this   *)
(* minute may send a request once all weight is used up, and two of them   *)
(* when one was carried over from the last minute.                         *)
MaySend(c) ==
  \/ ~fresh[c] \/ phase[c] = "sending"
  \/ /\ used[c] + WeightOf[c] <= Threshold
     /\ phase[c] = "answered" => answer[c].weight + WeightOf[c] <= Threshold
Carries(c) == ~fresh[c] /\ phase[c] = "sending"

MaySendOne(z) == {c \in Clients \ {z} : MaySend(c)}
MaySendTwo(z) == {c \in Clients \ {z} : Carries(c)}
RequestsOfOthers(z) == Cardinality(MaySendOne(z)) + Cardinality(MaySendTwo(z))

(* The client to look at is the last that found weight left to use: it has *)
(* a request under way, and the weight that it thinks is left.             *)
Known(z) ==
  IF ~fresh[z] THEN 0
  ELSE IF phase[z] = "answered" /\ answer[z].weight > used[z] THEN answer[z].weight ELSE used[z]
OwnWeight(z) ==
  (IF phase[z] = "sending" THEN WeightOf[z] ELSE 0)
    + (IF Known(z) <= Threshold THEN Threshold - Known(z) ELSE 0)

(* What is counted, apart from what that client cannot know of, and what   *)
(* may come in spite of it, is in bounds.                                  *)
Counted(z) == server - outside - (unheard - unheardOf[z])
InBoundsFor(z) ==
  Counted(z) + OwnWeight(z) + Heaviest * RequestsOfOthers(z) <= Threshold + Overshoot
OvershootLeft ==
  /\ \A c \in Clients : unheardOf[c] <= unheard
  /\ \E z \in Clients : InBoundsFor(z)

(* A set of natural numbers has a least element.                           *)
LEMMA HasLeast ==
  ASSUME NEW S \in SUBSET Nat, S # {}
  PROVE  \E x \in S : \A y \in S : x <= y
<1>1. IsWellFoundedOn(OpToRel(<, Nat), Nat)
  BY NatLessThanWellFounded
<1>2. PICK x \in S : \A y \in S : <<y, x>> \notin OpToRel(<, Nat)
  BY <1>1, WFMin
<1>3. \A y \in S : ~(y < x)
  BY <1>2 DEF OpToRel
<1> QED
  BY <1>3

(* There is a heaviest request.                                            *)
LEMMA HeaviestIsHeaviest ==
  Heaviest \in Nat /\ \A c \in Clients : WeightOf[c] <= Heaviest
<1> DEFINE room == {n \in Nat : \E c \in Clients : n = Threshold - WeightOf[c]}
<1>1. room # {}
  <2>1. PICK c \in Clients : TRUE
    BY ClientsAssumption
  <2>2. Threshold - WeightOf[c] \in Nat
    BY <2>1
  <2> QED
    BY <2>2
<1>2. PICK least \in room : \A n \in room : least <= n
  BY <1>1, HasLeast
<1>3. PICK c \in Clients : least = Threshold - WeightOf[c]
  BY <1>2
<1>4. ASSUME NEW d \in Clients PROVE WeightOf[d] <= WeightOf[c]
  <2>1. Threshold - WeightOf[d] \in room
    OBVIOUS
  <2>2. Threshold - WeightOf[c] <= Threshold - WeightOf[d]
    BY <1>2, <1>3, <2>1
  <2> QED
    BY <2>2
<1>5. /\ Heaviest \in {WeightOf[d] : d \in Clients}
      /\ \A d \in Clients : WeightOf[d] <= Heaviest
  BY <1>4 DEF Heaviest
<1> QED
  BY <1>5

(* Fewer of the clients.                                                   *)
LEMMA FewerClients ==
  ASSUME NEW A \in SUBSET Clients, NEW B \in SUBSET A
  PROVE  /\ Cardinality(A) \in Nat /\ Cardinality(B) \in Nat
         /\ Cardinality(B) <= Cardinality(A)
         /\ \A c \in A \ B : Cardinality(B) <= Cardinality(A) - 1
<1>1. IsFiniteSet(A) /\ IsFiniteSet(B)
  BY ClientsAssumption, FS_Subset
<1>2. Cardinality(A) \in Nat /\ Cardinality(B) \in Nat /\ Cardinality(B) <= Cardinality(A)
  BY <1>1, FS_CardinalityType, FS_Subset
<1>3. ASSUME NEW c \in A \ B PROVE Cardinality(B) <= Cardinality(A) - 1
  <2>1. IsFiniteSet(A \ {c}) /\ Cardinality(A \ {c}) = Cardinality(A) - 1
    BY <1>1, FS_RemoveElement
  <2>2. B \in SUBSET (A \ {c})
    OBVIOUS
  <2> QED
    BY <2>1, <2>2, FS_Subset
<1> QED
  BY <1>2, <1>3

LEMMA WeightsAddUp ==
  ASSUME NEW h \in Nat, NEW m \in Nat, NEW n \in Nat
  PROVE  /\ h * m \in Nat
         /\ m <= n => h * m <= h * n
         /\ m <= n - 1 => h * m + h <= h * n
<1>1. h * m \in Nat /\ h * n \in Nat
  OBVIOUS
<1>2. ASSUME m <= n PROVE h * m <= h * n
  <2>1. PICK k \in Nat : n = m + k
    <3>1. n - m \in Nat /\ n = m + (n - m)
      BY <1>2
    <3> QED
      BY <3>1
  <2>2. h * n = h * m + h * k /\ h * k \in Nat
    BY <2>1
  <2> QED
    BY <1>1, <2>2
<1>3. ASSUME m <= n - 1 PROVE h * m + h <= h * n
  <2>1. PICK k \in Nat : n = m + 1 + k
    <3>1. n - 1 - m \in Nat /\ n = m + 1 + (n - 1 - m)
      BY <1>3
    <3> QED
      BY <3>1
  <2>2. h * n = h * m + h + h * k /\ h * k \in Nat
    BY <2>1
  <2> QED
    BY <1>1, <2>2
<1> QED
  BY <1>1, <1>2, <1>3

(* The others are no more than all clients but one, with two requests      *)
(* each, which leaves one request of the overshoot for the client itself.  *)
LEMMA RoomForOthers ==
  ASSUME NEW z \in Clients, NEW one \in SUBSET (Clients \ {z}), NEW two \in SUBSET (Clients \ {z})
  PROVE  LET n == Cardinality(one) + Cardinality(two) IN
         /\ n \in Nat /\ Heaviest * n \in Nat /\ Overshoot \in Nat
         /\ Heaviest * n + Heaviest <= Overshoot
<1> DEFINE others == Clients \ {z}
           n == Cardinality(one) + Cardinality(two)
           all == 2 * Cardinality(Clients) - 1
<1>1. Cardinality(others) = Cardinality(Clients) - 1
  BY ClientsAssumption, FS_RemoveElement
<1>2. /\ Cardinality(others) \in Nat /\ Cardinality(Clients) \in Nat
      /\ Cardinality(one) \in Nat /\ Cardinality(one) <= Cardinality(others)
      /\ Cardinality(two) \in Nat /\ Cardinality(two) <= Cardinality(others)
  <2>1. one \in SUBSET others /\ two \in SUBSET others /\ others \in SUBSET Clients
    OBVIOUS
  <2> HIDE DEF others
  <2> QED
    BY <2>1, FewerClients
<1>3. n \in Nat /\ all \in Nat /\ n <= all - 1
  <2> HIDE DEF others
  <2> QED
    BY <1>1, <1>2
<1>4. Overshoot = Heaviest * all
  <2>1. Overshoot = all * Heaviest
    BY DEF Overshoot
  <2> HIDE DEF all
  <2> QED
    BY <1>3, <2>1, HeaviestIsHeaviest
<1> HIDE DEF others, n, all
<1>5. Heaviest * n \in Nat /\ Overshoot \in Nat /\ Heaviest * n + Heaviest <= Overshoot
  BY <1>3, <1>4, HeaviestIsHeaviest, WeightsAddUp
<1> QED
  BY <1>3, <1>5 DEF n

(* At any time, and after any step.                                        *)
LEMMA RoomForRequests ==
  ASSUME NEW z \in Clients
  PROVE  /\ RequestsOfOthers(z) \in Nat /\ RequestsOfOthers(z)' \in Nat
         /\ Heaviest * RequestsOfOthers(z) \in Nat /\ Heaviest * RequestsOfOthers(z)' \in Nat
         /\ Heaviest * RequestsOfOthers(z) + Heaviest <= Overshoot
         /\ Heaviest * RequestsOfOthers(z)' + Heaviest <= Overshoot
         /\ Overshoot \in Nat
<1>1. /\ MaySendOne(z) \in SUBSET (Clients \ {z}) /\ MaySendTwo(z) \in SUBSET (Clients \ {z})
      /\ MaySendOne(z)' \in SUBSET (Clients \ {z}) /\ MaySendTwo(z)' \in SUBSET (Clients \ {z})
  BY DEF MaySendOne, MaySendTwo
<1> QED
  BY <1>1, RoomForOthers DEF RequestsOfOthers

(* A client's own part is at most a request and the whole threshold.       *)
LEMMA OwnWeightFits ==
  ASSUME TypeOK, NEW z \in Clients
  PROVE  Known(z) \in Nat /\ OwnWeight(z) \in Nat /\ OwnWeight(z) <= WeightOf[z] + Threshold
<1>1. used[z] \in Nat /\ answer[z].weight \in Nat
  BY DEF TypeOK
<1>2. Known(z) \in Nat
  BY <1>1 DEF Known
<1> QED
  BY <1>2, WeightIsPositive DEF OwnWeight

LEMMA CountedIsInteger ==
  ASSUME TypeOK, NEW z \in Clients
  PROVE  Counted(z) \in Int
  BY DEF TypeOK, Counted

(* The bound goes on to hold for a client if what is counted and its own   *)
(* part do not grow, and no other client may send more.                    *)
LEMMA BoundGoesOn ==
  ASSUME TypeOK, TypeOK', NEW z \in Clients, InBoundsFor(z),
         Counted(z)' + OwnWeight(z)' <= Counted(z) + OwnWeight(z),
         \A d \in Clients \ {z} : (MaySend(d)' => MaySend(d)) /\ (Carries(d)' => Carries(d))
  PROVE  InBoundsFor(z)'
<1>1. RequestsOfOthers(z)' \in Nat /\ RequestsOfOthers(z)' <= RequestsOfOthers(z)
  <2>1. /\ MaySendOne(z)' \in SUBSET MaySendOne(z) /\ MaySendOne(z) \in SUBSET Clients
        /\ MaySendTwo(z)' \in SUBSET MaySendTwo(z) /\ MaySendTwo(z) \in SUBSET Clients
    BY DEF MaySendOne, MaySendTwo
  <2>2. /\ Cardinality(MaySendOne(z))' <= Cardinality(MaySendOne(z))
        /\ Cardinality(MaySendTwo(z))' <= Cardinality(MaySendTwo(z))
        /\ Cardinality(MaySendOne(z))' \in Nat /\ Cardinality(MaySendOne(z)) \in Nat
        /\ Cardinality(MaySendTwo(z))' \in Nat /\ Cardinality(MaySendTwo(z)) \in Nat
    BY <2>1, FewerClients
  <2> QED
    BY <2>2 DEF RequestsOfOthers
<1> DEFINE others == Heaviest * RequestsOfOthers(z)
           others2 == Heaviest * RequestsOfOthers(z)'
           over == Overshoot
           before == Counted(z) + OwnWeight(z)
           after == Counted(z)' + OwnWeight(z)'
<1>2. others \in Nat /\ others2 \in Nat /\ over \in Nat /\ others2 <= others
  BY <1>1, RoomForRequests, HeaviestIsHeaviest, WeightsAddUp
<1>3. before \in Int /\ after \in Int /\ after <= before
  <2>1. /\ Counted(z) \in Int /\ OwnWeight(z) \in Nat
    BY CountedIsInteger, OwnWeightFits
  <2>2. Counted(z)' \in Int /\ OwnWeight(z)' \in Nat
    <3>1. (TypeOK => Counted(z) \in Int /\ OwnWeight(z) \in Nat)'
      BY CountedIsInteger, OwnWeightFits, PTL
    <3> QED
      BY <3>1
  <2> QED
    BY <2>1, <2>2
<1>4. before + others <= Threshold + over
  BY DEF InBoundsFor
<1> HIDE DEF others, others2, over, before, after
<1>5. after + others2 <= Threshold + over
  BY <1>2, <1>3, <1>4
<1>6. Counted(z)' + OwnWeight(z)' + Heaviest * RequestsOfOthers(z)' <= Threshold + Overshoot
  BY <1>5 DEF after, others2, over
<1>7. Heaviest' = Heaviest /\ Overshoot' = Overshoot
  BY DEF Heaviest, Overshoot
<1> QED
  BY <1>6, <1>7 DEF InBoundsFor

(* A request that is counted and whose client is told the count uses up    *)
(* one of those its client may send, or its client learns how much weight  *)
(* is left.                                                                *)
LEMMA ToldStaysInBounds ==
  ASSUME TypeOK, TypeOK', OvershootLeft,
         NEW c \in Clients, NEW then \in {"return", "retry"}, Arrives(c, then, TRUE)
  PROVE  \E z \in Clients : InBoundsFor(z)'
<1>1. /\ server \in Nat /\ server' = server + WeightOf[c] /\ server' \in Nat
      /\ UNCHANGED <<unheard, unheardOf, outside>>
      /\ unheard \in Nat /\ unheardOf[c] \in Nat /\ outside \in Nat /\ unheardOf[c] <= unheard
      /\ WeightOf[c] \in Nat /\ WeightOf[c] > 0 /\ WeightOf[c] <= Heaviest /\ Heaviest \in Nat
  BY HeaviestIsHeaviest, WeightIsPositive DEF Arrives, Counts, unheardVars, TypeOK, OvershootLeft
<1>2. /\ phase[c] = "sending" /\ UNCHANGED <<used, fresh>> /\ used[c] \in Nat
      /\ phase'[c] = "answered" /\ answer'[c].weight = server'
      /\ \A d \in Clients \ {c} : phase'[d] = phase[d] /\ answer'[d] = answer[d]
  BY DEF Arrives, Counts, TypeOK
<1>3. /\ \A d \in Clients \ {c} : (MaySend(d)' <=> MaySend(d)) /\ (Carries(d)' <=> Carries(d))
      /\ MaySend(c) /\ ~Carries(c)' /\ (Carries(c) <=> ~fresh[c])
      /\ MaySend(c)' <=> \/ ~fresh[c]
                         \/ /\ used[c] + WeightOf[c] <= Threshold
                            /\ server' + WeightOf[c] <= Threshold
  BY <1>2 DEF MaySend, Carries
<1>4. Counted(c)' \in Int /\ Counted(c)' <= server'
  BY <1>1 DEF Counted
<1>5. Heaviest' = Heaviest /\ Overshoot' = Overshoot
  BY DEF Heaviest, Overshoot
(* The client learns that there is weight left.                            *)
<1>6. CASE fresh[c] /\ MaySend(c)'
  <2>1. /\ server' <= Known(c)' /\ Known(c)' <= Threshold /\ Known(c)' \in Nat
    BY <1>1, <1>2, <1>3, <1>6 DEF Known
  <2>2. OwnWeight(c)' = Threshold - Known(c)'
    BY <1>2, <2>1 DEF OwnWeight
  <2> DEFINE others2 == Heaviest * RequestsOfOthers(c)'
             known == Known(c)'
             counted == Counted(c)'
             over == Overshoot
  <2>3. others2 \in Nat /\ over \in Nat /\ others2 + Heaviest <= over
    BY RoomForRequests
  <2> HIDE DEF others2, known, counted, over
  <2>4. counted + (Threshold - known) + others2 <= Threshold + over
    BY <1>1, <1>4, <2>1, <2>3 DEF known, counted
  <2>5. InBoundsFor(c)'
    BY <1>5, <2>2, <2>4 DEF InBoundsFor, known, counted, others2, over
  <2> QED
    BY <2>5
(* One of the requests it may send is used up.                             *)
<1>7. CASE ~(fresh[c] /\ MaySend(c)')
  <2>1. PICK z \in Clients : InBoundsFor(z)
    BY DEF OvershootLeft
  <2>2. CASE z = c
    <3>1. Counted(c)' = Counted(c) + WeightOf[c] /\ Counted(c) \in Int
      BY <1>1 DEF Counted
    <3>2. Known(c) \in Nat /\ Known(c)' \in Nat /\ Known(c) <= Known(c)'
      BY <1>1, <1>2 DEF Known
    <3>3. OwnWeight(c)' + WeightOf[c] <= OwnWeight(c) /\ OwnWeight(c)' \in Nat /\ OwnWeight(c) \in Nat
      BY <1>1, <1>2, <3>2 DEF OwnWeight
    <3>4. Counted(c)' + OwnWeight(c)' <= Counted(c) + OwnWeight(c)
      BY <1>1, <3>1, <3>3
    <3>5. InBoundsFor(c)
      BY <2>1, <2>2
    <3>6. InBoundsFor(c)'
      BY <1>3, <3>4, <3>5, BoundGoesOn
    <3> QED
      BY <3>6
  <2>3. CASE z # c
    <3>1. /\ Counted(z) \in Int /\ Counted(z)' = Counted(z) + WeightOf[c]
          /\ OwnWeight(z) \in Nat /\ OwnWeight(z)' = OwnWeight(z)
      <4>1. OwnWeight(z) \in Nat
        BY OwnWeightFits
      <4>2. Known(z)' = Known(z)
        BY <1>2, <2>3 DEF Known
      <4>3. OwnWeight(z)' = OwnWeight(z)
        BY <1>2, <2>3, <4>2 DEF OwnWeight
      <4>4. unheardOf[z] \in Nat
        BY DEF TypeOK
      <4>5. Counted(z) \in Int /\ Counted(z)' = Counted(z) + WeightOf[c]
        BY <1>1, <4>4 DEF Counted
      <4> QED
        BY <4>1, <4>3, <4>5
    <3>2. /\ RequestsOfOthers(z) \in Nat /\ RequestsOfOthers(z)' \in Nat
          /\ RequestsOfOthers(z)' <= RequestsOfOthers(z) - 1
      <4>1. /\ MaySendOne(z)' \in SUBSET MaySendOne(z) /\ MaySendOne(z) \in SUBSET Clients
            /\ MaySendTwo(z)' \in SUBSET MaySendTwo(z) /\ MaySendTwo(z) \in SUBSET Clients
        BY <1>3 DEF MaySendOne, MaySendTwo
      <4>2. \/ c \in MaySendOne(z) \ MaySendOne(z)'
            \/ c \in MaySendTwo(z) \ MaySendTwo(z)'
        BY <1>3, <1>7, <2>3 DEF MaySendOne, MaySendTwo
      <4>3. /\ Cardinality(MaySendOne(z))' <= Cardinality(MaySendOne(z))
            /\ Cardinality(MaySendTwo(z))' <= Cardinality(MaySendTwo(z))
            /\ Cardinality(MaySendOne(z))' \in Nat /\ Cardinality(MaySendOne(z)) \in Nat
            /\ Cardinality(MaySendTwo(z))' \in Nat /\ Cardinality(MaySendTwo(z)) \in Nat
        BY <4>1, FewerClients
      <4>4. \/ Cardinality(MaySendOne(z))' <= Cardinality(MaySendOne(z)) - 1
            \/ Cardinality(MaySendTwo(z))' <= Cardinality(MaySendTwo(z)) - 1
        BY <4>1, <4>2, FewerClients
      <4> QED
        BY <4>3, <4>4 DEF RequestsOfOthers
    <3> DEFINE others == Heaviest * RequestsOfOthers(z)
               others2 == Heaviest * RequestsOfOthers(z)'
               over == Overshoot
               own == OwnWeight(z)
               counted == Counted(z)
    <3>3. /\ others \in Nat /\ others2 \in Nat /\ over \in Nat
          /\ others2 + Heaviest <= others
      BY <1>1, <3>2, RoomForRequests, WeightsAddUp
    <3>4. counted + own + others <= Threshold + over
      BY <2>1 DEF InBoundsFor
    <3>5. counted \in Int /\ own \in Nat
      BY <3>1
    <3> HIDE DEF others, others2, over, own, counted
    <3>6. counted + WeightOf[c] + own + others2 <= Threshold + over
      BY <1>1, <3>3, <3>4, <3>5
    <3>7. InBoundsFor(z)'
      BY <1>5, <3>1, <3>6 DEF InBoundsFor, others2, over, own, counted
    <3> QED
      BY <3>7
  <2> QED
    BY <2>2, <2>3
<1> QED
  BY <1>6, <1>7

(* At the beginning of a minute nothing is counted: whichever client is    *)
(* looked at, its own part is at most a request and the threshold.         *)
LEMMA MinuteIsInBounds ==
  TypeOK /\ server = 0 /\ unheard = 0 /\ outside = 0 /\ unheardOf = [c \in Clients |-> 0]
    => OvershootLeft
<1> SUFFICES ASSUME TypeOK, server = 0, unheard = 0, outside = 0,
                    unheardOf = [c \in Clients |-> 0]
             PROVE  OvershootLeft
  OBVIOUS
<1>1. PICK z \in Clients : TRUE
  BY ClientsAssumption
<1>2. /\ OwnWeight(z) \in Nat /\ OwnWeight(z) <= WeightOf[z] + Threshold /\ Counted(z) = 0
      /\ WeightOf[z] \in Nat /\ WeightOf[z] <= Heaviest /\ Heaviest \in Nat
  BY OwnWeightFits, HeaviestIsHeaviest, WeightIsPositive DEF Counted
<1> DEFINE others == Heaviest * RequestsOfOthers(z)
           over == Overshoot
           own == OwnWeight(z)
<1>3. others \in Nat /\ over \in Nat /\ others + Heaviest <= over
  BY RoomForRequests
<1>4. Counted(z) + own + others <= Threshold + over
  <2>1. own \in Nat /\ own <= WeightOf[z] + Threshold
    BY <1>2
  <2> HIDE DEF others, over, own
  <2> QED
    BY <1>2, <1>3, <2>1
<1> QED
  BY <1>4 DEF OvershootLeft, InBoundsFor

(* The count that no client was told has a part of every client's.         *)
UnheardAddsUp == \A c \in Clients : unheardOf[c] <= unheard
LEMMA UnheardNext == IInv /\ IInv' /\ UnheardAddsUp /\ [Next]_vars => UnheardAddsUp'
<1> SUFFICES ASSUME TypeOK, UnheardAddsUp, [Next]_vars PROVE UnheardAddsUp'
  BY DEF IInv
<1>1. CASE MinuteBegins
  BY <1>1 DEF MinuteBegins, UnheardAddsUp
<1>2. ASSUME NEW c \in Clients, NEW counted \in Nat, NEW told \in BOOLEAN, Counts(c, counted, told)
      PROVE  UnheardAddsUp'
  BY <1>2 DEF Counts, UnheardAddsUp, TypeOK, unheardVars
<1>3. ASSUME UNCHANGED unheardVars PROVE UnheardAddsUp'
  BY <1>3 DEF unheardVars, UnheardAddsUp
<1>4. ASSUME NEW c \in Clients, Call(c) \/ Get(c) PROVE UnheardAddsUp'
  <2>1. ASSUME NEW then \in {"return", "retry"}, NEW told \in BOOLEAN, Arrives(c, then, told)
        PROVE  UnheardAddsUp'
    BY <1>2, <2>1, WeightIsPositive DEF Arrives
  <2>2. CASE TransportFails(c)
    BY <1>2, <2>2, WeightIsPositive DEF TransportFails
  <2> QED
    BY <1>3, <1>4, <2>1, <2>2
    DEF Get, Call, Acquire, Sleep, WakeUp, Spend, Receive, TryAgain, GiveUp, historyVars
<1> QED
  BY <1>1, <1>3, <1>4 DEF Next, SentOutside, vars, historyVars

(* Every step keeps the bound.                                             *)
LEMMA BoundNext == IInv /\ IInv' /\ OvershootLeft /\ [Next]_vars => OvershootLeft'
<1> SUFFICES ASSUME TypeOK, TypeOK', OvershootLeft, UnheardAddsUp', [Next]_vars
             PROVE  OvershootLeft'
  BY UnheardNext DEF IInv, OvershootLeft, UnheardAddsUp
<1>1. CASE MinuteBegins
  <2>1. server' = 0 /\ unheard' = 0 /\ outside' = 0 /\ unheardOf' = [c \in Clients |-> 0]
    BY <1>1 DEF MinuteBegins
  <2>2. (TypeOK /\ server = 0 /\ unheard = 0 /\ outside = 0
           /\ unheardOf = [c \in Clients |-> 0] => OvershootLeft)'
    BY MinuteIsInBounds, PTL
  <2> QED
    BY <2>1, <2>2
<1>2. ASSUME \E z \in Clients : InBoundsFor(z)' PROVE OvershootLeft'
  BY <1>2 DEF OvershootLeft, UnheardAddsUp
<1>3. ASSUME \A z \in Clients : Counted(z)' + OwnWeight(z)' <= Counted(z) + OwnWeight(z),
             \A d \in Clients : (MaySend(d)' => MaySend(d)) /\ (Carries(d)' => Carries(d))
      PROVE  OvershootLeft'
  <2>1. PICK z \in Clients : InBoundsFor(z)
    BY DEF OvershootLeft
  <2>2. InBoundsFor(z)'
    BY <1>3, <2>1, BoundGoesOn
  <2> QED
    BY <1>2, <2>2
(* What is counted does not change, and nobody has more of its own.        *)
<1>4. ASSUME UNCHANGED <<server, unheard, unheardOf, outside>>,
             \A z \in Clients : OwnWeight(z)' <= OwnWeight(z),
             \A d \in Clients : (MaySend(d)' => MaySend(d)) /\ (Carries(d)' => Carries(d))
      PROVE  OvershootLeft'
  <2>1. ASSUME NEW z \in Clients
        PROVE  Counted(z)' + OwnWeight(z)' <= Counted(z) + OwnWeight(z)
    <3>1. Counted(z)' = Counted(z) /\ Counted(z) \in Int
      BY <1>4, CountedIsInteger DEF Counted
    <3>2. OwnWeight(z) \in Nat /\ OwnWeight(z)' \in Nat
      <4>1. (TypeOK => OwnWeight(z) \in Nat)'
        BY OwnWeightFits, PTL
      <4> QED
        BY <4>1, OwnWeightFits
    <3> QED
      BY <1>4, <3>1, <3>2
  <2> QED
    BY <1>3, <1>4, <2>1
(* A request is counted without its client being told the count.           *)
<1>5. ASSUME NEW c \in Clients, NEW counted \in {0, WeightOf[c]}, Counts(c, counted, FALSE),
             phase'[c] \in {"answered", "backoff"}, UNCHANGED <<used, fresh, outside>>,
             phase'[c] = "answered" => answer'[c].weight = 0,
             \A d \in Clients \ {c} : phase'[d] = phase[d] /\ answer'[d] = answer[d]
      PROVE  OvershootLeft'
  <2>1. /\ counted \in Nat /\ counted <= WeightOf[c] /\ WeightOf[c] \in Nat
        /\ server \in Nat /\ unheard \in Nat /\ outside \in Nat
        /\ used[c] \in Nat
    BY WeightIsPositive DEF TypeOK
  <2>2. /\ phase[c] = "sending" /\ server' = server + counted /\ unheard' = unheard + counted
        /\ unheardOf' = [unheardOf EXCEPT ![c] = @ + counted]
    BY <1>5 DEF Counts
  <2>3. ASSUME NEW z \in Clients
        PROVE  Counted(z)' + OwnWeight(z)' <= Counted(z) + OwnWeight(z)
    <3>1. OwnWeight(z) \in Nat /\ unheardOf[z] \in Nat /\ Counted(z) \in Int
      BY OwnWeightFits, CountedIsInteger DEF TypeOK
    <3>2. CASE z = c
      <4>1. Counted(c)' = Counted(c) + counted
        BY <1>5, <2>1, <2>2, <3>1, <3>2 DEF Counted, TypeOK
      <4>2. Known(c)' = Known(c) /\ Known(c) \in Nat
        BY <1>5, <2>1, <2>2 DEF Known
      <4>3. OwnWeight(c) = OwnWeight(c)' + WeightOf[c] /\ OwnWeight(c)' \in Nat
        BY <1>5, <2>1, <2>2, <4>2 DEF OwnWeight
      <4> QED
        BY <2>1, <3>1, <3>2, <4>1, <4>3
    <3>3. CASE z # c
      <4>1. Known(z)' = Known(z)
        BY <1>5, <3>3 DEF Known
      <4>2. OwnWeight(z)' = OwnWeight(z)
        BY <1>5, <3>3, <4>1 DEF OwnWeight
      <4>3. Counted(z)' = Counted(z)
        BY <1>5, <2>1, <2>2, <3>1, <3>3 DEF Counted, TypeOK
      <4> QED
        BY <3>1, <4>2, <4>3
    <3> QED
      BY <3>2, <3>3
  <2>4. \A d \in Clients : (MaySend(d)' => MaySend(d)) /\ (Carries(d)' => Carries(d))
    BY <1>5, <2>2 DEF MaySend, Carries
  <2> QED
    BY <1>3, <2>3, <2>4
<1>6. ASSUME NEW c \in Clients, NEW then \in {"return", "retry"}, NEW told \in BOOLEAN,
             Arrives(c, then, told)
      PROVE  OvershootLeft'
  <2>1. CASE told
    BY <1>2, <1>6, <2>1, ToldStaysInBounds
  <2>2. CASE ~told
    <3>1. /\ phase'[c] = "answered" /\ answer'[c].weight = 0 /\ UNCHANGED <<used, fresh, outside>>
          /\ \A d \in Clients \ {c} : phase'[d] = phase[d] /\ answer'[d] = answer[d]
      BY <1>6, <2>2 DEF Arrives, TypeOK
    <3>2. Counts(c, WeightOf[c], FALSE)
      BY <1>6, <2>2 DEF Arrives
    <3> QED
      BY <1>5, <3>1, <3>2
  <2> QED
    BY <2>1, <2>2
<1>7. ASSUME NEW c \in Clients, TransportFails(c) PROVE OvershootLeft'
  <2>1. PICK counted \in {0, WeightOf[c]} : Counts(c, counted, FALSE)
    BY <1>7 DEF TransportFails
  <2>2. /\ phase'[c] = "backoff" /\ UNCHANGED <<used, fresh, outside>>
        /\ \A d \in Clients \ {c} : phase'[d] = phase[d] /\ answer'[d] = answer[d]
    BY <1>7 DEF TransportFails, TypeOK
  <2> QED
    BY <1>5, <2>1, <2>2
<1>8. CASE SentOutside
  <2>1. /\ server' = server + OutsideWeight /\ outside' = outside + OutsideWeight
        /\ UNCHANGED <<used, fresh, phase, answer, unheard, unheardOf>>
    BY <1>8 DEF SentOutside, unheardVars
  <2>2. \A z \in Clients : OwnWeight(z)' = OwnWeight(z)
    BY <2>1 DEF OwnWeight, Known
  <2>3. \A z \in Clients : Counted(z)' = Counted(z)
    BY <2>1 DEF Counted, TypeOK
  <2>4. \A d \in Clients : (MaySend(d)' <=> MaySend(d)) /\ (Carries(d)' <=> Carries(d))
    BY <2>1 DEF MaySend, Carries
  <2>5. \A z \in Clients : Counted(z) \in Int /\ OwnWeight(z) \in Nat
    BY CountedIsInteger, OwnWeightFits
  <2>6. \A z \in Clients : Counted(z)' + OwnWeight(z)' <= Counted(z) + OwnWeight(z)
    BY <2>2, <2>3, <2>5
  <2> QED
    BY <1>3, <2>4, <2>6
<1>9. ASSUME NEW c \in Clients, Spend(c), ~fresh[c] \/ RolledWeight(c) + WeightOf[c] <= Threshold,
             phase[c] \in {"acquiring", "sleeping"}
      PROVE  OvershootLeft'
  <2>1. /\ UNCHANGED <<server, unheard, unheardOf, outside, answer>>
        /\ \A d \in Clients \ {c} :
              fresh'[d] = fresh[d] /\ phase'[d] = phase[d] /\ used'[d] = used[d]
        /\ fresh'[c] = TRUE /\ phase'[c] = "sending"
        /\ used'[c] = RolledWeight(c) + WeightOf[c]
    BY <1>9 DEF Spend, TypeOK, unheardVars
  <2>2. MaySend(c)
    BY <1>9 DEF MaySend, RolledWeight
  <2>3. \A d \in Clients : (MaySend(d)' => MaySend(d)) /\ (Carries(d)' => Carries(d))
    BY <2>1, <2>2 DEF MaySend, Carries
  <2>4. ASSUME NEW z \in Clients PROVE OwnWeight(z)' <= OwnWeight(z)
    <3>1. OwnWeight(z) \in Nat
      BY OwnWeightFits
    <3>2. CASE z = c
      <4>1. WeightOf[c] \in Nat /\ WeightOf[c] <= Threshold /\ used[c] \in Nat
        BY WeightIsPositive DEF TypeOK
      <4>2. Known(c) = RolledWeight(c) /\ RolledWeight(c) \in Nat
        BY <1>9, <4>1 DEF Known, RolledWeight
      <4>3. Known(c)' = RolledWeight(c) + WeightOf[c]
        BY <2>1 DEF Known
      <4>4. RolledWeight(c) + WeightOf[c] <= Threshold
        BY <1>9, <4>1 DEF RolledWeight
      <4> QED
        BY <1>9, <2>1, <3>2, <4>1, <4>2, <4>3, <4>4 DEF OwnWeight
    <3>3. CASE z # c
      BY <2>1, <3>1, <3>3 DEF OwnWeight, Known
    <3> QED
      BY <3>2, <3>3
  <2> QED
    BY <1>4, <2>1, <2>3, <2>4
<1>10. ASSUME NEW c \in Clients, Acquire(c) \/ WakeUp(c) PROVE OvershootLeft'
  BY <1>9, <1>10 DEF Acquire, WakeUp
(* A client only moves on, and may learn that less weight is left.         *)
<1>11. ASSUME NEW c \in Clients, UNCHANGED <<server, unheard, unheardOf, outside, fresh>>,
              phase[c] # "sending", phase'[c] \notin {"sending", "answered"},
              Known(c) <= used'[c], used[c] <= used'[c],
              \A d \in Clients \ {c} :
                 phase'[d] = phase[d] /\ used'[d] = used[d] /\ answer'[d] = answer[d],
              phase[c] = "answered" => answer[c].weight <= used'[c]
       PROVE  OvershootLeft'
  <2>1. /\ used[c] \in Nat /\ used'[c] \in Nat /\ answer[c].weight \in Nat
        /\ WeightOf[c] \in Nat /\ Known(c) \in Nat
    BY WeightIsPositive, OwnWeightFits DEF TypeOK
  <2>2. \A d \in Clients : (MaySend(d)' => MaySend(d)) /\ (Carries(d)' => Carries(d))
    BY <1>11, <2>1 DEF MaySend, Carries
  <2>3. ASSUME NEW z \in Clients PROVE OwnWeight(z)' <= OwnWeight(z)
    <3>1. OwnWeight(z) \in Nat
      BY OwnWeightFits
    <3>2. CASE z = c
      <4>1. Known(c)' \in Nat /\ Known(c) <= Known(c)'
        BY <1>11, <2>1 DEF Known
      <4> QED
        BY <1>11, <2>1, <3>2, <4>1 DEF OwnWeight
    <3>3. CASE z # c
      BY <1>11, <3>1, <3>3 DEF OwnWeight, Known
    <3> QED
      BY <3>2, <3>3
  <2> QED
    BY <1>4, <1>11, <2>2, <2>3
<1>12. ASSUME NEW c \in Clients, Sleep(c) PROVE OvershootLeft'
  <2>1. /\ UNCHANGED <<server, unheard, unheardOf, outside, answer>>
        /\ phase[c] = "acquiring" /\ phase'[c] = "sleeping" /\ used[c] \in Nat
    BY <1>12 DEF Sleep, TypeOK, historyVars, unheardVars
  <2>2. fresh[c]
    BY <1>12, WeightIsPositive DEF Sleep, RolledWeight, TypeOK
  <2>3. UNCHANGED <<used, fresh>> /\ \A d \in Clients \ {c} : phase'[d] = phase[d]
    BY <1>12, <2>2 DEF Sleep, RolledWeight, TypeOK
  <2>4. Known(c) <= used'[c]
    BY <2>1, <2>3 DEF Known
  <2> QED
    BY <1>11, <2>1, <2>3, <2>4
<1>13. ASSUME NEW c \in Clients, Receive(c) PROVE OvershootLeft'
  <2>1. /\ phase[c] = "answered" /\ phase'[c] \in {"backoff", "idle"}
        /\ UNCHANGED <<server, unheard, unheardOf, outside, fresh>>
        /\ \A d \in Clients \ {c} : phase'[d] = phase[d] /\ answer'[d] = answer[d]
    BY <1>13 DEF Receive, TypeOK, historyVars, unheardVars
  <2>2. /\ \A d \in Clients \ {c} : used'[d] = used[d]
        /\ used[c] <= used'[c] /\ answer[c].weight <= used'[c]
        /\ used[c] \in Nat /\ used'[c] \in Nat /\ answer[c].weight \in Nat
    BY <1>13 DEF Receive, HeaderApplied, TypeOK
  <2>3. Known(c) <= used'[c]
    BY <2>2 DEF Known
  <2> QED
    BY <1>11, <2>1, <2>2, <2>3
<1>14. ASSUME NEW c \in Clients, Call(c) \/ TryAgain(c) \/ GiveUp(c) PROVE OvershootLeft'
  <2>1. /\ phase[c] \in {"idle", "backoff"} /\ phase'[c] \in {"acquiring", "idle"}
        /\ UNCHANGED <<server, unheard, unheardOf, outside, used, fresh, answer>>
        /\ \A d \in Clients \ {c} : phase'[d] = phase[d]
        /\ used[c] \in Nat
    BY <1>14 DEF Call, TryAgain, GiveUp, TypeOK, historyVars, unheardVars
  <2>2. Known(c) <= used'[c]
    BY <2>1 DEF Known
  <2> QED
    BY <1>11, <2>1, <2>2
<1>15. CASE UNCHANGED vars
  <2>1. UNCHANGED <<server, used, fresh, phase, answer, unheard, unheardOf, outside>>
    BY <1>15 DEF vars, historyVars, unheardVars
  <2>2. \A d \in Clients : (MaySend(d)' <=> MaySend(d)) /\ (Carries(d)' <=> Carries(d))
    BY <2>1 DEF MaySend, Carries
  <2>3. \A z \in Clients : OwnWeight(z)' <= OwnWeight(z)
    BY <2>1, OwnWeightFits DEF OwnWeight, Known
  <2> QED
    BY <1>4, <2>1, <2>2, <2>3
<1> QED
  BY <1>1, <1>6, <1>7, <1>8, <1>10, <1>12, <1>13, <1>14, <1>15 DEF Next, Get

(* However the requests of clients that do not know of each other overlap  *)
(* within a minute and across its beginning, what the exchange counts is   *)
(* above the threshold by no more than one request that was carried over,  *)
(* two of every client but one, what the others sent without being told    *)
(* the count, and what came past the clients.                              *)
THEOREM OvershootIsBounded == Spec => []OvershootBounded
<1>1. Init => OvershootLeft
  <2>1. Init => /\ TypeOK /\ server = 0 /\ unheard = 0 /\ outside = 0
                /\ unheardOf = [c \in Clients |-> 0]
    BY InvInit DEF IInv, Init
  <2> QED
    BY <2>1, MinuteIsInBounds
<1>2. IInv /\ OvershootLeft => OvershootBounded
  <2> SUFFICES ASSUME TypeOK, OvershootLeft PROVE OvershootBounded
    BY DEF IInv
  <2>1. PICK z \in Clients : InBoundsFor(z)
    BY DEF OvershootLeft
  <2>2. /\ server \in Nat /\ unheard \in Nat /\ unheardOf[z] \in Nat /\ outside \in Nat
        /\ OwnWeight(z) \in Nat
    BY OwnWeightFits DEF TypeOK
  <2> DEFINE others == Heaviest * RequestsOfOthers(z)
             over == Overshoot
             own == OwnWeight(z)
  <2>3. others \in Nat /\ over \in Nat
    BY RoomForRequests
  <2>4. server - outside - (unheard - unheardOf[z]) + own + others <= Threshold + over
    BY <2>1 DEF InBoundsFor, Counted
  <2>5. server <= Threshold + outside + (unheard - unheardOf[z]) + over
    <3>1. own \in Nat
      BY <2>2
    <3> HIDE DEF others, over, own
    <3> QED
      BY <2>2, <2>3, <2>4, <3>1
  <2> QED
    BY <2>5 DEF OvershootBounded
<1> QED
  BY <1>1, <1>2, InvInit, InvNext, BoundNext, PTL DEF Spec

=============================================================================
