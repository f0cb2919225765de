------------------------ MODULE BookMaintainerProofs ------------------------
(***************************************************************************)
(* Proofs about BookMaintainer, for any depth, snapshot limit, lag and     *)
(* number of updates and restarts.  The invariant IInv adds to the         *)
(* properties what they rest on: the coherence of the exchange's history,  *)
(* that every message in flight reports ids the exchange has made, and how *)
(* far each coroutine of the event loop can be.                            *)
(***************************************************************************)
EXTENDS BookMaintainer, TLAPS

USE DepthAssumption, QtyAssumption, MaxUpdatesAssumption, LimitAssumption, LagAssumption,
    RestartsAssumption

Genuine(s) == \A i \in 1..Len(s) : IsEvent(s[i])

MessagesGenuine == Genuine(channel) /\ Genuine(buffer)

ServedGenuine ==
  served # NoBook => \E seen \in SUBSET Levels : IsView(served.levels, served.id, seen)

CoroutinesInStep ==
  /\ \A c \in Coroutines : phase[c] = "replaying" => synced
  /\ ~started => syncing /\ \A c \in Coroutines : phase[c] = "idle"

IInv ==
  /\ TypeOK
  /\ Untouched
  /\ MessagesGenuine
  /\ MirrorsExchange
  /\ ServedGenuine
  /\ OneResync
  /\ CoroutinesInStep

-----------------------------------------------------------------------------
(* The exchange                                                            *)

(* An update adds one id and changes nothing of the books before it.       *)
LEMMA HistoryGrows ==
  ASSUME ExchangeOK, NEW l0 \in Levels, NEW q0 \in Qty, Update(l0, q0)
  PROVE  /\ ExchangeOK'
         /\ Len(log') = Len(log) + 1
         /\ UpdateId \subseteq UpdateId'
         /\ \A id \in UpdateId : BookAt(id)' = BookAt(id)
         /\ \A i \in 1..Len(log) : log'[i] = log[i]
         /\ log'[Len(log) + 1] = l0
         /\ books'[Len(log) + 2] = [BookAt(Len(log)) EXCEPT ![l0] = q0]
<1>1. Len(log) \in Nat /\ Len(books) = Len(log) + 1
  BY DEF ExchangeOK
<1>2. BookAt(Len(log)) \in Book
  BY <1>1 DEF ExchangeOK, BookAt
<1>3. [BookAt(Len(log)) EXCEPT ![l0] = q0] \in Book
  BY <1>2 DEF Book
<1>4. log' = Append(log, l0) /\ books' = Append(books, [BookAt(Len(log)) EXCEPT ![l0] = q0])
  BY DEF Update
<1>5. ExchangeOK' /\ Len(log') = Len(log) + 1
  BY <1>1, <1>3, <1>4 DEF ExchangeOK
<1>6. UpdateId \subseteq UpdateId'
  BY <1>1, <1>5 DEF UpdateId
<1>7. \A id \in UpdateId : BookAt(id)' = BookAt(id)
  BY <1>1, <1>3, <1>4 DEF UpdateId, BookAt, ExchangeOK
<1>8. /\ \A i \in 1..Len(log) : log'[i] = log[i]
      /\ log'[Len(log) + 1] = l0
  BY <1>1, <1>4 DEF ExchangeOK
<1>9. books'[Len(log) + 2] = [BookAt(Len(log)) EXCEPT ![l0] = q0]
  <2> DEFINE next == [BookAt(Len(log)) EXCEPT ![l0] = q0]
  <2>1. next \in Book /\ books' = Append(books, next)
    BY <1>3, <1>4
  <2> HIDE DEF next
  <2>2. books'[Len(books) + 1] = next
    BY <2>1 DEF ExchangeOK
  <2>3. books'[Len(log) + 2] = next
    BY <1>1, <2>2
  <2>4. QED
    BY <2>3 DEF next
<1>10. QED
  BY <1>5, <1>6, <1>7, <1>8, <1>9

(* The history stays coherent.                                             *)
LEMMA UntouchedGrows ==
  ASSUME ExchangeOK, Untouched, NEW l0 \in Levels, NEW q0 \in Qty, Update(l0, q0)
  PROVE  Untouched'
<1>0. /\ Len(log') = Len(log) + 1
      /\ \A id \in UpdateId : BookAt(id)' = BookAt(id)
      /\ \A i \in 1..Len(log) : log'[i] = log[i]
      /\ log'[Len(log) + 1] = l0
      /\ books'[Len(log) + 2] = [BookAt(Len(log)) EXCEPT ![l0] = q0]
  BY HistoryGrows
<1>1. SUFFICES ASSUME NEW from \in UpdateId', NEW to \in UpdateId', NEW l \in Levels,
                      from <= to, l \notin Touched(from + 1, to)'
               PROVE  BookAt(to)'[l] = BookAt(from)'[l]
  BY Zenon DEF Untouched
<1>2. Len(log) \in Nat /\ Len(log') = Len(log) + 1
  BY <1>0 DEF ExchangeOK
<1>3. CASE to \in UpdateId
  <2>1. from \in UpdateId
    BY <1>1, <1>2, <1>3 DEF UpdateId
  <2>2. l \notin Touched(from + 1, to)
    BY <1>0, <1>1, <1>2, <1>3, <2>1 DEF UpdateId, Touched
  <2>3. BookAt(to)[l] = BookAt(from)[l]
    BY <1>1, <1>3, <2>1, <2>2 DEF Untouched
  <2>4. QED
    BY <1>0, <2>1, <2>3, <1>3
<1>4. CASE to = Len(log) + 1 /\ from = to
  BY <1>4
<1>5. CASE to = Len(log) + 1 /\ from # to
  <2>1. from \in UpdateId /\ Len(log) \in UpdateId /\ from <= Len(log)
    BY <1>1, <1>2, <1>5 DEF UpdateId
  <2>2. l # l0 /\ l \notin Touched(from + 1, Len(log))
    BY <1>0, <1>1, <1>2, <1>5, <2>1 DEF UpdateId, Touched
  <2>3. BookAt(Len(log))[l] = BookAt(from)[l]
    BY <2>1, <2>2 DEF Untouched
  <2>4. BookAt(Len(log)) \in Book
    BY <1>2 DEF BookAt, ExchangeOK
  <2>5. BookAt(to)'[l] = BookAt(Len(log))[l]
    BY <1>0, <1>2, <2>2, <2>4, <1>5 DEF Book, BookAt
  <2>6. QED
    BY <1>0, <2>1, <2>3, <2>5
<1>6. QED
  BY <1>2, <1>3, <1>4, <1>5 DEF UpdateId

(* Events and views of the past are events and views of the longer past.   *)
LEMMA PastKept ==
  ASSUME ExchangeOK, NEW l0 \in Levels, NEW q0 \in Qty, Update(l0, q0)
  PROVE  /\ \A d : IsEvent(d) => IsEvent(d)'
         /\ \A b, seen : \A id \in UpdateId : IsView(b, id, seen) => IsView(b, id, seen)'
<1>0. Len(log) \in Nat
  BY DEF ExchangeOK
<1>1. /\ Len(log') = Len(log) + 1
      /\ \A id \in UpdateId : BookAt(id)' = BookAt(id)
  BY HistoryGrows
<1>2. \A d : IsEvent(d) => IsEvent(d)'
  <2> TAKE d
  <2>1. HAVE IsEvent(d)
  <2>2. d.final \in Nat /\ d.final <= Len(log')
    BY <1>0, <1>1, <2>1 DEF IsEvent, DepthEvent
  <2>3. QED
    BY <2>1, <2>2 DEF IsEvent
<1>3. \A b, seen : \A id \in UpdateId : IsView(b, id, seen) => IsView(b, id, seen)'
  BY <1>1 DEF IsView
<1>4. QED
  BY <1>2, <1>3

-----------------------------------------------------------------------------
(* The local book                                                          *)

(* A limited snapshot is a view of the book it was taken of.               *)
LEMMA SnapshotIsView ==
  ASSUME NEW id \in UpdateId
  PROVE  IsView(Snapshot(BookAt(id)), id, Shown(BookAt(id)))
BY DEF IsView, Snapshot

(* What a snapshot installs is a book, and what it shows are levels.        *)
LEMMA SnapshotIsBook ==
  ASSUME ExchangeOK, NEW id \in UpdateId
  PROVE  Snapshot(BookAt(id)) \in Book /\ Shown(BookAt(id)) \in SUBSET Levels
<1>1. BookAt(id) \in Book
  BY DEF ExchangeOK, UpdateId, BookAt
<1>2. QED
  BY <1>1 DEF Snapshot, Book, Shown

(* A diff of the exchange takes a book to a book.                          *)
LEMMA MergeIsBook ==
  ASSUME ExchangeOK, NEW b \in Book, NEW d \in DepthEvent, IsEvent(d)
  PROVE  Merge(b, d) \in Book /\ Touched(d.first, d.final) \in SUBSET Levels
<1>1. BookAt(d.final) \in Book
  BY DEF ExchangeOK, IsEvent, DepthEvent, BookAt
<1>2. Touched(d.first, d.final) \in SUBSET Levels
  BY DEF ExchangeOK, IsEvent, DepthEvent, Touched
<1>3. QED
  BY <1>1, <1>2 DEF Merge, Book

(* The heart of the algorithm: a diff that is not stale and leaves no gap  *)
(* takes a view at id to a view at the diff's last id, also when the diff  *)
(* overlaps what the book has already.                                     *)
LEMMA MergeChains ==
  ASSUME ExchangeOK, Untouched,
         NEW b, NEW id \in UpdateId, NEW seen \in SUBSET Levels, IsView(b, id, seen),
         NEW d \in DepthEvent, IsEvent(d), ~IsStale(d, id), ~LeavesGap(d, id)
  PROVE  IsView(Merge(b, d), d.final, seen \cup Touched(d.first, d.final))
<1>1. /\ Len(log) \in Nat /\ id \in Nat /\ d.first \in Nat /\ d.final \in Nat
      /\ d.final \in UpdateId /\ id <= d.final /\ d.first <= id + 1
  BY DEF ExchangeOK, UpdateId, IsEvent, DepthEvent, IsStale, LeavesGap
<1>2. SUFFICES ASSUME NEW l \in Levels
               PROVE  Merge(b, d)[l] = IF l \in seen \cup Touched(d.first, d.final)
                                         THEN BookAt(d.final)[l] ELSE 0
  BY DEF IsView
<1>3. CASE l \in Touched(d.first, d.final)
  BY <1>3 DEF Merge
<1>4. CASE l \notin Touched(d.first, d.final)
  <2>1. l \notin Touched(id + 1, d.final)
    BY <1>1, <1>4 DEF Touched
  <2>2. BookAt(d.final)[l] = BookAt(id)[l]
    BY <1>1, <2>1 DEF Untouched
  <2>3. Merge(b, d)[l] = b[l]
    BY <1>4 DEF Merge
  <2>4. b[l] = IF l \in seen THEN BookAt(id)[l] ELSE 0
    BY DEF IsView
  <2>5. QED
    BY <1>4, <2>2, <2>3, <2>4
<1>5. QED
  BY <1>3, <1>4

-----------------------------------------------------------------------------
(* Sequences of messages                                                   *)

(* Taking the first message leaves genuine messages.                       *)
LEMMA HeadAndTail ==
  ASSUME NEW s \in Seq(DepthEvent), s # <<>>, Genuine(s)
  PROVE  /\ Head(s) \in DepthEvent /\ IsEvent(Head(s))
         /\ Tail(s) \in Seq(DepthEvent) /\ Genuine(Tail(s))
<1>1. Len(s) \in Nat \ {0} /\ Head(s) = s[1] /\ s[1] \in DepthEvent
  OBVIOUS
<1>2. Tail(s) \in Seq(DepthEvent) /\ Len(Tail(s)) = Len(s) - 1
  OBVIOUS
<1>3. \A i \in 1..Len(Tail(s)) : Tail(s)[i] = s[i + 1] /\ i + 1 \in 1..Len(s)
  BY <1>1, <1>2
<1>4. QED
  BY <1>1, <1>2, <1>3 DEF Genuine

(* So does adding one.                                                     *)
LEMMA AppendEvent ==
  ASSUME NEW s \in Seq(DepthEvent), Genuine(s), NEW d \in DepthEvent, IsEvent(d)
  PROVE  Append(s, d) \in Seq(DepthEvent) /\ Genuine(Append(s, d))
<1>1. /\ Append(s, d) \in Seq(DepthEvent) /\ Len(Append(s, d)) = Len(s) + 1 /\ Len(s) \in Nat
      /\ \A i \in 1..Len(s) : Append(s, d)[i] = s[i]
      /\ Append(s, d)[Len(s) + 1] = d
  OBVIOUS
<1>2. QED
  BY <1>1 DEF Genuine

(* And so does losing the last ones.                                       *)
LEMMA Prefix ==
  ASSUME NEW s \in Seq(DepthEvent), Genuine(s), NEW k \in 0..Len(s)
  PROVE  SubSeq(s, 1, k) \in Seq(DepthEvent) /\ Genuine(SubSeq(s, 1, k))
<1>1. /\ SubSeq(s, 1, k) \in Seq(DepthEvent) /\ Len(SubSeq(s, 1, k)) = k /\ Len(s) \in Nat
      /\ \A i \in 1..k : SubSeq(s, 1, k)[i] = s[i]
  OBVIOUS
<1>2. QED
  BY <1>1 DEF Genuine

(* An emptied buffer or channel holds genuine messages.                    *)
LEMMA NoMessages == <<>> \in Seq(DepthEvent) /\ Genuine(<<>>)
BY DEF Genuine

-----------------------------------------------------------------------------
(* The maintainer                                                          *)

(* Only the exchange changes its history.                                  *)
LEMMA Frozen ==
  ASSUME IInv, UNCHANGED <<log, books>>
  PROVE  /\ ExchangeOK' /\ Untouched' /\ UpdateId' = UpdateId
         /\ \A s : Genuine(s)' <=> Genuine(s)
         /\ \A b, id, seen : IsView(b, id, seen)' <=> IsView(b, id, seen)
<1>1. ExchangeOK' /\ UpdateId' = UpdateId
  BY DEF IInv, TypeOK, ExchangeOK, UpdateId
<1>2. Untouched'
  BY DEF IInv, Untouched, UpdateId, Touched, BookAt
<1>3. \A s : Genuine(s)' <=> Genuine(s)
  BY DEF Genuine, IsEvent
<1>4. \A b, id, seen : IsView(b, id, seen)' <=> IsView(b, id, seen)
  BY DEF IsView, BookAt
<1>5. QED
  BY <1>1, <1>2, <1>3, <1>4

(* The invariant holds when the worker starts.                             *)
LEMMA InitIInv == Init => IInv
<1> SUFFICES ASSUME Init PROVE IInv
  OBVIOUS
<1> USE DEF Init
<1>1. PICK b \in Book : books = <<b>>
  BY DEF ExchangeInit
<1>2. log = <<>> /\ Len(log) = 0 /\ UpdateId = {0}
  BY DEF ExchangeInit, UpdateId
<1>3. ExchangeOK
  BY <1>1, <1>2 DEF ExchangeOK
<1>4. EmptyBook \in Book
  BY DEF EmptyBook, Book
<1>5. TypeOK
  <2>1. channel \in Seq(DepthEvent) /\ buffer \in Seq(DepthEvent) /\ cursor \in 1..(Len(buffer) + 1)
    OBVIOUS
  <2>2. phase \in [Coroutines -> Phases] /\ snap \in [Coroutines -> UpdateId]
    BY <1>2 DEF Phases
  <2>3. /\ emitted \in UpdateId /\ lastUpdateId \in UpdateId /\ levels \in Book
        /\ known \in SUBSET Levels
    BY <1>2, <1>4
  <2>4. conn \in {"up", "down"} /\ synced \in BOOLEAN /\ syncing \in BOOLEAN /\ started \in BOOLEAN
    OBVIOUS
  <2>5. served \in {NoBook} \cup [id : UpdateId, levels : Book] /\ restarts \in 0..MaxRestarts
    OBVIOUS
  <2>6. QED
    BY <1>3, <2>1, <2>2, <2>3, <2>4, <2>5 DEF TypeOK
<1>6. Untouched
  BY <1>2 DEF Untouched
<1>7. MessagesGenuine /\ MirrorsExchange /\ ServedGenuine
  BY DEF MessagesGenuine, Genuine, MirrorsExchange, ServedGenuine
<1>8. OneResync /\ CoroutinesInStep
  BY DEF OneResync, CoroutinesInStep, Coroutines
<1>9. QED
  BY <1>5, <1>6, <1>7, <1>8 DEF IInv

(* What apply_diff needs and gives, wherever it is called from.            *)
LEMMA ApplyKeepsView ==
  ASSUME IInv, NEW d \in DepthEvent, IsEvent(d), Chains(d), Apply(d),
         UNCHANGED <<log, books>>
  PROVE  /\ levels' \in Book /\ lastUpdateId' \in UpdateId' /\ known' \in SUBSET Levels
         /\ synced' = TRUE
         /\ IsView(levels, lastUpdateId, known)'
<1>1. synced /\ ~IsStale(d, lastUpdateId) /\ ~LeavesGap(d, lastUpdateId)
  BY DEF Chains, Raises, Skips, IInv, TypeOK
<1>2. IsView(levels, lastUpdateId, known)
  BY <1>1 DEF IInv, MirrorsExchange
<1>3. IsView(Merge(levels, d), d.final, known \cup Touched(d.first, d.final))
  BY <1>1, <1>2, MergeChains DEF IInv, TypeOK
<1>4. Merge(levels, d) \in Book /\ Touched(d.first, d.final) \in SUBSET Levels
  BY MergeIsBook DEF IInv, TypeOK
<1>5. d.final \in UpdateId
  BY DEF IsEvent, DepthEvent, UpdateId, IInv, TypeOK, ExchangeOK
<1>6. /\ levels' = Merge(levels, d) /\ lastUpdateId' = d.final
      /\ known' = known \cup Touched(d.first, d.final) /\ synced' = synced
  BY DEF Apply
<1>7. IsView(levels, lastUpdateId, known)'
  BY <1>3, <1>6 DEF IsView, BookAt
<1>8. UpdateId' = UpdateId
  BY Frozen
<1>9. QED
  BY <1>1, <1>4, <1>5, <1>6, <1>7, <1>8 DEF IInv, TypeOK

(* What every step but the exchange's leaves to check, once it has settled *)
(* which messages there are, what the book says and where the coroutines   *)
(* are.                                                                    *)
LEMMA MakesIInv ==
  ASSUME IInv, UNCHANGED <<log, books>>,
         TypeOK', MessagesGenuine', MirrorsExchange', ServedGenuine', OneResync',
         CoroutinesInStep'
  PROVE  IInv'
BY Frozen DEF IInv

(* Every step keeps the invariant.                                         *)
LEMMA StepIInv == IInv /\ [Next]_vars => IInv'
<1> SUFFICES ASSUME IInv, [Next]_vars PROVE IInv'
  OBVIOUS
<1> USE DEF exchangeSide, bookVars, maintainerVars, resyncVars
<1>0. /\ TypeOK /\ ExchangeOK /\ Untouched /\ MessagesGenuine /\ MirrorsExchange /\ ServedGenuine
      /\ OneResync /\ CoroutinesInStep
  BY DEF IInv, TypeOK
<1>1. CASE ExchangeUpdates
  <2>1. PICK l \in Levels, q \in Qty : Update(l, q)
    BY <1>1 DEF ExchangeUpdates
  <2>2. UNCHANGED <<emitted, conn, channel, lastUpdateId, levels, synced, known, buffer, syncing,
                    started, phase, snap, cursor, served, restarts>>
    BY <1>1 DEF ExchangeUpdates
  <2>3. ExchangeOK' /\ UpdateId \subseteq UpdateId'
    BY <1>0, <2>1, HistoryGrows
  <2>4. Untouched'
    BY <1>0, <2>1, UntouchedGrows
  <2>5. /\ \A d : IsEvent(d) => IsEvent(d)'
        /\ \A b, seen : \A id \in UpdateId : IsView(b, id, seen) => IsView(b, id, seen)'
    BY <1>0, <2>1, PastKept
  <2>6. TypeOK'
    BY <1>0, <2>2, <2>3 DEF TypeOK
  <2>7. MessagesGenuine'
    BY <1>0, <2>2, <2>5 DEF MessagesGenuine, Genuine
  <2>8. MirrorsExchange'
    BY <1>0, <2>2, <2>5 DEF MirrorsExchange, TypeOK
  <2>9. ServedGenuine'
    <3> SUFFICES ASSUME served # NoBook
                 PROVE  \E seen \in SUBSET Levels : IsView(served.levels, served.id, seen)'
      BY <2>2 DEF ServedGenuine
    <3>1. PICK seen \in SUBSET Levels : IsView(served.levels, served.id, seen)
      BY <1>0 DEF ServedGenuine
    <3>2. served.id \in UpdateId
      BY <1>0 DEF TypeOK
    <3>3. QED
      BY <2>2, <2>5, <3>1, <3>2
  <2>10. OneResync' /\ CoroutinesInStep'
    BY <1>0, <2>2 DEF OneResync, CoroutinesInStep
  <2>11. QED
    BY <2>4, <2>6, <2>7, <2>8, <2>9, <2>10 DEF IInv
<1>2. CASE StreamTicks
  <2>1. UNCHANGED <<log, books>>
    BY <1>2 DEF StreamTicks
  <2> DEFINE d == [first |-> emitted + 1, final |-> Len(log)]
  <2>2. d \in DepthEvent /\ IsEvent(d)
    BY <1>0, <1>2 DEF StreamTicks, TypeOK, UpdateId, ExchangeOK, DepthEvent, IsEvent
  <2>3. Append(channel, d) \in Seq(DepthEvent) /\ Genuine(Append(channel, d))
    BY <1>0, <2>2, AppendEvent DEF TypeOK, MessagesGenuine
  <2>4. /\ channel' \in Seq(DepthEvent) /\ Genuine(channel')
        /\ emitted' \in UpdateId
    BY <1>0, <1>2, <2>3 DEF StreamTicks, TypeOK, MessagesGenuine, UpdateId, ExchangeOK
  <2>5. TypeOK'
    BY <1>0, <1>2, <2>1, <2>4, Frozen DEF StreamTicks, TypeOK
  <2>6. MessagesGenuine'
    BY <1>0, <1>2, <2>1, <2>4, Frozen DEF StreamTicks, MessagesGenuine
  <2>7. MirrorsExchange' /\ ServedGenuine'
    BY <1>0, <1>2, <2>1, Frozen DEF StreamTicks, MirrorsExchange, ServedGenuine
  <2>8. OneResync' /\ CoroutinesInStep'
    BY <1>0, <1>2 DEF StreamTicks, OneResync, CoroutinesInStep
  <2>9. QED
    BY <2>1, <2>5, <2>6, <2>7, <2>8, MakesIInv
<1>3. CASE Disconnect
  <2>1. UNCHANGED <<log, books>>
    BY <1>3 DEF Disconnect
  <2>2. PICK k \in 0..Len(channel) : channel' = SubSeq(channel, 1, k)
    BY <1>3 DEF Disconnect
  <2>3. channel' \in Seq(DepthEvent) /\ Genuine(channel')
    BY <1>0, <2>2, Prefix DEF TypeOK, MessagesGenuine
  <2>5. TypeOK'
    BY <1>0, <1>3, <2>1, <2>3, Frozen DEF Disconnect, TypeOK
  <2>6. MessagesGenuine'
    BY <1>0, <1>3, <2>1, <2>3, Frozen DEF Disconnect, MessagesGenuine
  <2>7. MirrorsExchange' /\ ServedGenuine'
    BY <1>0, <1>3, <2>1, Frozen DEF Disconnect, MirrorsExchange, ServedGenuine
  <2>8. OneResync' /\ CoroutinesInStep'
    BY <1>0, <1>3 DEF Disconnect, OneResync, CoroutinesInStep
  <2>9. QED
    BY <2>1, <2>5, <2>6, <2>7, <2>8, MakesIInv
<1>4. CASE Reconnect
  <2>1. UNCHANGED <<log, books>>
    BY <1>4 DEF Reconnect
  <2>5. TypeOK'
    BY <1>0, <1>4, <2>1, Frozen DEF Reconnect, TypeOK
  <2>6. MessagesGenuine' /\ MirrorsExchange' /\ ServedGenuine'
    BY <1>0, <1>4, <2>1, Frozen DEF Reconnect, MessagesGenuine, MirrorsExchange, ServedGenuine
  <2>8. OneResync' /\ CoroutinesInStep'
    BY <1>0, <1>4 DEF Reconnect, OneResync, CoroutinesInStep
  <2>9. QED
    BY <2>1, <2>5, <2>6, <2>8, MakesIInv
<1>5. CASE BeginFirstResync
  <2>1. UNCHANGED <<log, books>>
    BY <1>5 DEF BeginFirstResync
  <2>5. TypeOK'
    BY <1>0, <1>5, <2>1, Frozen, NoMessages
       DEF BeginFirstResync, ResetForResync, TypeOK, Coroutines, Phases
  <2>6. MessagesGenuine' /\ MirrorsExchange' /\ ServedGenuine'
    BY <1>0, <1>5, <2>1, Frozen, NoMessages
       DEF BeginFirstResync, ResetForResync, MessagesGenuine, MirrorsExchange, ServedGenuine
  <2>8. OneResync' /\ CoroutinesInStep'
    BY <1>0, <1>5
       DEF BeginFirstResync, ResetForResync, OneResync, CoroutinesInStep, TypeOK, Coroutines, Phases
  <2>9. QED
    BY <2>1, <2>5, <2>6, <2>8, MakesIInv
<1>6. ASSUME NEW c \in Coroutines, SnapshotTaken(c)
      PROVE  IInv'
  <2>1. UNCHANGED <<log, books>>
    BY <1>6 DEF SnapshotTaken
  <2>5. TypeOK'
    BY <1>0, <1>6, <2>1, Frozen DEF SnapshotTaken, TypeOK, Phases
  <2>6. MessagesGenuine' /\ MirrorsExchange' /\ ServedGenuine'
    BY <1>0, <1>6, <2>1, Frozen DEF SnapshotTaken, MessagesGenuine, MirrorsExchange, ServedGenuine
  <2>8. OneResync' /\ CoroutinesInStep'
    BY <1>0, <1>6 DEF SnapshotTaken, OneResync, CoroutinesInStep, TypeOK, Phases
  <2>9. QED
    BY <2>1, <2>5, <2>6, <2>8, MakesIInv
<1>7. ASSUME NEW c \in Coroutines, FetchFails(c)
      PROVE  IInv'
  <2>1. UNCHANGED <<log, books>>
    BY <1>7 DEF FetchFails
  <2>2. channel' \in Seq(DepthEvent) /\ Genuine(channel') /\ conn' \in {"up", "down"}
    BY <1>0, <1>7, NoMessages DEF FetchFails, TypeOK, MessagesGenuine
  <2>5. TypeOK'
    BY <1>0, <1>7, <2>1, <2>2, Frozen DEF FetchFails, TypeOK, Phases
  <2>6. MessagesGenuine' /\ MirrorsExchange' /\ ServedGenuine'
    BY <1>0, <1>7, <2>1, <2>2, Frozen
       DEF FetchFails, MessagesGenuine, MirrorsExchange, ServedGenuine
  <2>8. OneResync' /\ CoroutinesInStep'
    BY <1>0, <1>7 DEF FetchFails, OneResync, CoroutinesInStep, TypeOK, Phases
  <2>9. QED
    BY <2>1, <2>5, <2>6, <2>8, MakesIInv
<1>8. ASSUME NEW c \in Coroutines, InstallSnapshot(c)
      PROVE  IInv'
  <2>1. UNCHANGED <<log, books>>
    BY <1>8 DEF InstallSnapshot
  <2>2. snap[c] \in UpdateId
    BY <1>0 DEF TypeOK
  <2>3. /\ levels' \in Book /\ known' \in SUBSET Levels /\ lastUpdateId' \in UpdateId
        /\ IsView(levels', lastUpdateId', known')
    BY <1>0, <1>8, <2>2, SnapshotIsBook, SnapshotIsView DEF InstallSnapshot
  <2>4. IsView(levels, lastUpdateId, known)'
    BY <2>1, <2>3 DEF IsView, BookAt
  <2>5. TypeOK'
    BY <1>0, <1>8, <2>1, <2>3, Frozen DEF InstallSnapshot, TypeOK, Phases
  <2>6. MessagesGenuine' /\ MirrorsExchange' /\ ServedGenuine'
    BY <1>0, <1>8, <2>1, <2>4, Frozen
       DEF InstallSnapshot, MessagesGenuine, MirrorsExchange, ServedGenuine
  <2>7. OneResync' /\ CoroutinesInStep'
    BY <1>0, <1>8 DEF InstallSnapshot, OneResync, CoroutinesInStep, TypeOK, Phases
  <2>8. QED
    BY <2>1, <2>5, <2>6, <2>7, MakesIInv
<1>9. ASSUME NEW c \in Coroutines, ReplaySkips(c)
      PROVE  IInv'
  <2>1. UNCHANGED <<log, books>>
    BY <1>9 DEF ReplaySkips
  <2>2. cursor' \in 1..(Len(buffer) + 1)
    BY <1>0, <1>9 DEF ReplaySkips, Replaying, TypeOK
  <2>3. TypeOK'
    BY <1>0, <1>9, <2>1, <2>2, Frozen DEF ReplaySkips, TypeOK
  <2>4. MessagesGenuine' /\ MirrorsExchange' /\ ServedGenuine'
    BY <1>0, <1>9, <2>1, Frozen DEF ReplaySkips, MessagesGenuine, MirrorsExchange, ServedGenuine
  <2>5. OneResync' /\ CoroutinesInStep'
    BY <1>0, <1>9 DEF ReplaySkips, OneResync, CoroutinesInStep
  <2>6. QED
    BY <2>1, <2>3, <2>4, <2>5, MakesIInv
<1>10. ASSUME NEW c \in Coroutines, ReplayApplies(c)
       PROVE  IInv'
  <2>1. UNCHANGED <<log, books>>
    BY <1>10 DEF ReplayApplies
  <2>2. cursor \in 1..Len(buffer) /\ cursor' \in 1..(Len(buffer) + 1)
    BY <1>0, <1>10 DEF ReplayApplies, Replaying, TypeOK
  <2>3. buffer[cursor] \in DepthEvent /\ IsEvent(buffer[cursor])
    BY <1>0, <2>2 DEF TypeOK, MessagesGenuine, Genuine
  <2>4. /\ levels' \in Book /\ lastUpdateId' \in UpdateId' /\ known' \in SUBSET Levels
        /\ synced' = TRUE
        /\ IsView(levels, lastUpdateId, known)'
    BY <1>10, <2>1, <2>3, ApplyKeepsView DEF ReplayApplies
  <2>5. TypeOK'
    BY <1>0, <1>10, <2>1, <2>2, <2>4, Frozen DEF ReplayApplies, TypeOK
  <2>6. MessagesGenuine' /\ MirrorsExchange' /\ ServedGenuine'
    BY <1>0, <1>10, <2>1, <2>4, Frozen
       DEF ReplayApplies, MessagesGenuine, MirrorsExchange, ServedGenuine
  <2>7. OneResync' /\ CoroutinesInStep'
    BY <1>0, <1>10, <2>4 DEF ReplayApplies, OneResync, CoroutinesInStep
  <2>8. QED
    BY <2>1, <2>5, <2>6, <2>7, MakesIInv
<1>11. ASSUME NEW c \in Coroutines, ReplayGap(c)
       PROVE  IInv'
  <2>1. UNCHANGED <<log, books>>
    BY <1>11 DEF ReplayGap
  <2>2. phase[c] = "replaying" /\ phase' = [phase EXCEPT ![c] = "waiting"]
    BY <1>11 DEF ReplayGap, Replaying
  <2>3. synced' = FALSE /\ syncing' = TRUE /\ buffer' = <<>> /\ cursor' = 1
    BY <1>11 DEF ReplayGap, Unsync, ResetForResync
  <2>4. UNCHANGED <<emitted, conn, channel, lastUpdateId, levels, known, started, snap, served,
                    restarts>>
    BY <1>11 DEF ReplayGap, Unsync
  <2>5. buffer' \in Seq(DepthEvent) /\ Genuine(buffer') /\ cursor' \in 1..(Len(buffer') + 1)
    BY <2>3, NoMessages
  <2>6. synced' \in BOOLEAN /\ syncing' \in BOOLEAN /\ phase' \in [Coroutines -> Phases]
    BY <1>0, <2>2, <2>3 DEF TypeOK, Phases
  <2>7. TypeOK'
    BY <1>0, <2>1, <2>4, <2>5, <2>6, Frozen DEF TypeOK
  <2>8. MessagesGenuine' /\ ServedGenuine'
    BY <1>0, <2>1, <2>4, <2>5, Frozen DEF MessagesGenuine, ServedGenuine
  <2>9. \A k \in Coroutines : k # c => phase[k] = "idle" /\ phase'[k] = "idle"
    BY <1>0, <2>2 DEF OneResync, TypeOK, Coroutines
  <2>10. phase'[c] = "waiting"
    BY <1>0, <2>2 DEF TypeOK
  <2>11. MirrorsExchange' /\ OneResync' /\ CoroutinesInStep'
    BY <1>0, <2>2, <2>3, <2>4, <2>9, <2>10
       DEF MirrorsExchange, OneResync, CoroutinesInStep, Coroutines
  <2>12. QED
    BY <2>1, <2>7, <2>8, <2>11, MakesIInv
<1>12. ASSUME NEW c \in Coroutines, FinishResync(c)
       PROVE  IInv'
  <2>1. UNCHANGED <<log, books>>
    BY <1>12 DEF FinishResync
  <2>2. phase[c] = "replaying" /\ phase' = [phase EXCEPT ![c] = "idle"]
    BY <1>12 DEF FinishResync
  <2>3. syncing' = FALSE /\ buffer' = <<>> /\ cursor' = 1
    BY <1>12 DEF FinishResync
  <2>4. UNCHANGED <<emitted, conn, channel, lastUpdateId, levels, synced, known, started, snap,
                    served, restarts>>
    BY <1>12 DEF FinishResync
  <2>5. buffer' \in Seq(DepthEvent) /\ Genuine(buffer') /\ cursor' \in 1..(Len(buffer') + 1)
    BY <2>3, NoMessages
  <2>6. syncing' \in BOOLEAN /\ phase' \in [Coroutines -> Phases]
    BY <1>0, <2>2, <2>3 DEF TypeOK, Phases
  <2>7. TypeOK'
    BY <1>0, <2>1, <2>4, <2>5, <2>6, Frozen DEF TypeOK
  <2>8. MessagesGenuine' /\ MirrorsExchange' /\ ServedGenuine'
    BY <1>0, <2>1, <2>4, <2>5, Frozen DEF MessagesGenuine, MirrorsExchange, ServedGenuine
  <2>9. OneResync' /\ CoroutinesInStep'
    BY <1>0, <2>2, <2>3, <2>4 DEF OneResync, CoroutinesInStep, TypeOK, Coroutines, Phases
  <2>10. QED
    BY <2>1, <2>7, <2>8, <2>9, MakesIInv
<1>13. ASSUME Take
       PROVE  /\ Msg \in DepthEvent /\ IsEvent(Msg)
              /\ Tail(channel) \in Seq(DepthEvent) /\ Genuine(Tail(channel))
              /\ LoopFree /\ phase["reader"] = "idle"
  BY <1>0, <1>13, HeadAndTail DEF Take, ReaderFree, Msg, TypeOK, MessagesGenuine
<1>14. CASE BufferDiff
  <2>1. UNCHANGED <<log, books>> /\ Take
    BY <1>14 DEF BufferDiff
  <2>2. buffer' \in Seq(DepthEvent) /\ Genuine(buffer') /\ Len(buffer') = Len(buffer) + 1
    BY <1>0, <1>13, <1>14, <2>1, AppendEvent DEF BufferDiff, TypeOK, MessagesGenuine
  <2>3. cursor \in 1..(Len(buffer') + 1)
    BY <1>0, <2>2 DEF TypeOK
  <2>4. TypeOK'
    BY <1>0, <1>13, <1>14, <2>1, <2>2, <2>3, Frozen DEF BufferDiff, NotingStart, TypeOK, Phases
  <2>5. MessagesGenuine' /\ MirrorsExchange' /\ ServedGenuine'
    BY <1>0, <1>13, <1>14, <2>1, <2>2, Frozen
       DEF BufferDiff, MessagesGenuine, MirrorsExchange, ServedGenuine
  <2>6. OneResync' /\ CoroutinesInStep'
    BY <1>0, <1>13, <1>14, <2>1
       DEF BufferDiff, NotingStart, LoopFree, OneResync, CoroutinesInStep, TypeOK, Coroutines, Phases
  <2>7. QED
    BY <2>1, <2>4, <2>5, <2>6, MakesIInv
<1>15. ASSUME UNCHANGED <<log, books>>, Take, NEW id \in UpdateId, NEW ls \in Book,
              NEW seen \in SUBSET Levels, IsView(ls, id, seen), Publish(id, ls)
       PROVE  /\ channel' \in Seq(DepthEvent) /\ Genuine(channel') /\ conn' \in {"up", "down"}
              /\ served' \in {NoBook} \cup [id : UpdateId, levels : Book]
              /\ ServedGenuine'
  <2>1. channel' \in Seq(DepthEvent) /\ Genuine(channel') /\ conn' \in {"up", "down"}
    BY <1>0, <1>13, <1>15, NoMessages DEF Publish, TypeOK
  <2>2. served' = served \/ served' = [id |-> id, levels |-> ls]
    BY <1>15 DEF Publish
  <2>3. CASE served' = served
    BY <1>0, <1>15, <2>1, <2>3, Frozen DEF ServedGenuine, TypeOK
  <2>4. CASE served' = [id |-> id, levels |-> ls]
    BY <1>0, <1>15, <2>1, <2>4, Frozen DEF ServedGenuine
  <2>5. QED
    BY <2>2, <2>3, <2>4
<1>16. CASE SkipDiff
  <2>1. UNCHANGED <<log, books>> /\ Take
    BY <1>16 DEF SkipDiff
  <2>2. synced /\ IsView(levels, lastUpdateId, known)
    BY <1>0, <1>16 DEF SkipDiff, OneResync, MirrorsExchange
  <2>3. /\ channel' \in Seq(DepthEvent) /\ Genuine(channel') /\ conn' \in {"up", "down"}
        /\ served' \in {NoBook} \cup [id : UpdateId, levels : Book]
        /\ ServedGenuine'
    BY <1>0, <1>15, <1>16, <2>1, <2>2 DEF SkipDiff, TypeOK
  <2>4. TypeOK'
    BY <1>0, <1>16, <2>1, <2>3, Frozen DEF SkipDiff, NotingStart, TypeOK, Phases
  <2>5. MessagesGenuine' /\ MirrorsExchange'
    BY <1>0, <1>16, <2>1, <2>3, Frozen DEF SkipDiff, MessagesGenuine, MirrorsExchange
  <2>6. OneResync' /\ CoroutinesInStep'
    BY <1>0, <1>16 DEF SkipDiff, NotingStart, OneResync, CoroutinesInStep
  <2>7. QED
    BY <2>1, <2>3, <2>4, <2>5, <2>6, MakesIInv
<1>17. CASE ApplyDiff
  <2>1. UNCHANGED <<log, books>> /\ Take
    BY <1>17 DEF ApplyDiff
  <2>2. /\ levels' \in Book /\ lastUpdateId' \in UpdateId' /\ known' \in SUBSET Levels
        /\ synced' = TRUE
        /\ IsView(levels, lastUpdateId, known)'
    BY <1>13, <1>17, <2>1, ApplyKeepsView DEF ApplyDiff
  <2>3. lastUpdateId' \in UpdateId /\ IsView(levels', lastUpdateId', known')
    BY <2>1, <2>2, Frozen
  <2>4. /\ channel' \in Seq(DepthEvent) /\ Genuine(channel') /\ conn' \in {"up", "down"}
        /\ served' \in {NoBook} \cup [id : UpdateId, levels : Book]
        /\ ServedGenuine'
    BY <1>15, <1>17, <2>1, <2>2, <2>3 DEF ApplyDiff
  <2>5. TypeOK'
    BY <1>0, <1>17, <2>1, <2>2, <2>4, Frozen DEF ApplyDiff, NotingStart, TypeOK, Phases
  <2>6. MessagesGenuine' /\ MirrorsExchange'
    BY <1>0, <1>17, <2>1, <2>2, <2>4, Frozen DEF ApplyDiff, MessagesGenuine, MirrorsExchange
  <2>7. OneResync' /\ CoroutinesInStep'
    BY <1>0, <1>17, <2>2 DEF ApplyDiff, NotingStart, OneResync, CoroutinesInStep
  <2>8. QED
    BY <2>1, <2>4, <2>5, <2>6, <2>7, MakesIInv
<1>18. CASE ResyncOnGap
  <2>1. UNCHANGED <<log, books>> /\ Take /\ ~syncing /\ started
    BY <1>0, <1>18 DEF ResyncOnGap, CoroutinesInStep
  <2>2. phase' = [phase EXCEPT !["reader"] = "waiting"]
    BY <1>0, <1>18, <2>1 DEF ResyncOnGap, TypeOK, Coroutines
  <2>3. synced' = FALSE /\ syncing' = TRUE /\ buffer' = <<>> /\ cursor' = 1 /\ started' = TRUE
    BY <1>18 DEF ResyncOnGap, Unsync, ResetForResync
  <2>4. UNCHANGED <<emitted, conn, lastUpdateId, levels, known, snap, served, restarts>>
    BY <1>18 DEF ResyncOnGap, Unsync
  <2>5. channel' \in Seq(DepthEvent) /\ Genuine(channel')
    BY <1>13, <1>18, <2>1 DEF ResyncOnGap
  <2>6. buffer' \in Seq(DepthEvent) /\ Genuine(buffer') /\ cursor' \in 1..(Len(buffer') + 1)
    BY <2>3, NoMessages
  <2>7. /\ synced' \in BOOLEAN /\ syncing' \in BOOLEAN /\ started' \in BOOLEAN
        /\ phase' \in [Coroutines -> Phases]
    BY <1>0, <2>2, <2>3 DEF TypeOK, Phases, Coroutines
  <2>8. TypeOK'
    BY <1>0, <2>1, <2>4, <2>5, <2>6, <2>7, Frozen DEF TypeOK
  <2>9. MessagesGenuine' /\ ServedGenuine'
    BY <1>0, <2>1, <2>4, <2>5, <2>6, Frozen DEF MessagesGenuine, ServedGenuine
  <2>10. \A k \in Coroutines : phase[k] = "idle"
    BY <1>0, <2>1 DEF OneResync
  <2>11. MirrorsExchange' /\ OneResync' /\ CoroutinesInStep'
    BY <1>0, <2>2, <2>3, <2>10 DEF MirrorsExchange, OneResync, CoroutinesInStep, TypeOK, Coroutines
  <2>12. QED
    BY <2>1, <2>8, <2>9, <2>11, MakesIInv
<1>19. CASE KeyExpires
  <2>1. UNCHANGED <<log, books>>
    BY <1>19 DEF KeyExpires
  <2>2. TypeOK'
    BY <1>0, <1>19, <2>1, Frozen DEF KeyExpires, TypeOK
  <2>3. MessagesGenuine' /\ MirrorsExchange' /\ ServedGenuine'
    BY <1>0, <1>19, <2>1, Frozen DEF KeyExpires, MessagesGenuine, MirrorsExchange, ServedGenuine
  <2>4. OneResync' /\ CoroutinesInStep'
    BY <1>0, <1>19 DEF KeyExpires, OneResync, CoroutinesInStep
  <2>5. QED
    BY <2>1, <2>2, <2>3, <2>4, MakesIInv
<1>20. CASE WorkerRestarts
  <2>1. UNCHANGED <<log, books>>
    BY <1>20 DEF WorkerRestarts
  <2>2. /\ channel' = <<>> /\ buffer' = <<>> /\ cursor' = 1 /\ conn' = "down"
        /\ lastUpdateId' = 0 /\ levels' = EmptyBook /\ known' = {}
        /\ synced' = FALSE /\ syncing' = TRUE /\ started' = FALSE
        /\ phase' = [k \in Coroutines |-> "idle"] /\ snap' = [k \in Coroutines |-> 0]
        /\ UNCHANGED <<emitted, served>> /\ restarts' = restarts + 1 /\ restarts < MaxRestarts
    BY <1>20 DEF WorkerRestarts
  <2>3. /\ channel' \in Seq(DepthEvent) /\ buffer' \in Seq(DepthEvent)
        /\ cursor' \in 1..(Len(buffer') + 1) /\ MessagesGenuine'
    <3>1. Genuine(<<>>)'
      BY DEF Genuine
    <3>2. QED
      BY <2>2, <3>1, NoMessages DEF MessagesGenuine
  <2>4. 0 \in UpdateId /\ EmptyBook \in Book
    BY <1>0 DEF UpdateId, ExchangeOK, EmptyBook, Book
  <2>5. /\ lastUpdateId' \in UpdateId /\ levels' \in Book /\ known' \in SUBSET Levels
        /\ phase' \in [Coroutines -> Phases] /\ snap' \in [Coroutines -> UpdateId]
        /\ restarts' \in 0..MaxRestarts
    BY <1>0, <2>2, <2>4 DEF Phases, TypeOK
  <2>6. TypeOK'
    BY <1>0, <2>1, <2>2, <2>3, <2>5, Frozen DEF TypeOK
  <2>7. MirrorsExchange' /\ ServedGenuine'
    BY <1>0, <2>1, <2>2, Frozen DEF MirrorsExchange, ServedGenuine
  <2>8. OneResync' /\ CoroutinesInStep'
    BY <2>2 DEF OneResync, CoroutinesInStep, Coroutines
  <2>9. QED
    BY <2>1, <2>3, <2>6, <2>7, <2>8, MakesIInv
<1>21. CASE UNCHANGED vars
  BY <1>0, <1>21, Frozen
     DEF vars, IInv, TypeOK, MessagesGenuine, MirrorsExchange, ServedGenuine, OneResync,
         CoroutinesInStep
<1>22. QED
  BY <1>1, <1>2, <1>3, <1>4, <1>5, <1>6, <1>7, <1>8, <1>9, <1>10, <1>11, <1>12, <1>14, <1>16,
     <1>17, <1>18, <1>19, <1>20, <1>21
     DEF Next, Reader, Resync

-----------------------------------------------------------------------------
(* Theorems                                                                *)

(* The invariant holds in every state.                                     *)
LEMMA Invariance == Spec => []IInv
BY InitIInv, StepIInv, PTL DEF Spec

(* Type correctness of the maintainer and of everything it talks to.       *)
THEOREM TypeCorrect == Spec => []TypeOK
<1>1. IInv => TypeOK
  BY DEF IInv
<1>2. QED
  BY <1>1, Invariance, PTL

(* A synced local book is always the exchange's book at lastUpdateId, as   *)
(* far down as the snapshot and the diffs since reach.                     *)
THEOREM BookIsExact == Spec => []MirrorsExchange
<1>1. IInv => MirrorsExchange
  BY DEF IInv
<1>2. QED
  BY <1>1, Invariance, PTL

(* resync() never runs twice at once, nor while diffs are applied.         *)
THEOREM ResyncIsExclusive == Spec => []OneResync
<1>1. IInv => OneResync
  BY DEF IInv
<1>2. QED
  BY <1>1, Invariance, PTL

(* What is put into Redis is a view of the exchange's book at some id.     *)
LEMMA PublishServes ==
  ASSUME ExchangeOK, UNCHANGED <<log, books>>, NEW id \in UpdateId, NEW ls \in Book,
         NEW seen \in SUBSET Levels, IsView(ls, id, seen), Publish(id, ls)
  PROVE  [Feed!FeedNext]_(Feed!feedVars)
<1>1. CASE served' = served
  BY <1>1 DEF Feed!feedVars
<1>2. CASE served' = [id |-> id, levels |-> ls]
  <2>1. ls = [l \in Levels |-> IF l \in seen THEN BookAt(id)[l] ELSE 0]
    BY DEF Book, IsView
  <2>2. served' = [id |-> id, levels |-> [l \in Levels |-> IF l \in seen THEN BookAt(id)[l] ELSE 0]]
    BY <1>2, <2>1
  <2>3. Feed!Serve
    BY <2>2 DEF Feed!Serve, Feed!UpdateId, UpdateId, Feed!Levels, Levels, Feed!BookAt, BookAt,
            Feed!exchangeVars
  <2>4. QED
    BY <2>3 DEF Feed!FeedNext
<1>3. QED
  BY <1>1, <1>2 DEF Publish

(* Every step of the maintainer is one of the feed, or none.               *)
LEMMA StepImplementsFeed == IInv /\ [Next]_vars => [Feed!FeedNext]_(Feed!feedVars)
<1> SUFFICES ASSUME IInv, [Next]_vars PROVE [Feed!FeedNext]_(Feed!feedVars)
  OBVIOUS
<1> USE DEF exchangeSide
<1>1. CASE ExchangeUpdates
  <2>1. Feed!FeedUpdate
    BY <1>1 DEF ExchangeUpdates, Feed!FeedUpdate, Feed!Update, Update, Feed!Levels, Levels,
            Feed!BookAt, BookAt
  <2>2. QED
    BY <2>1 DEF Feed!FeedNext
<1>2. CASE SkipDiff
  <2>1. UNCHANGED <<log, books>> /\ Publish(lastUpdateId, levels)
    BY <1>2 DEF SkipDiff
  <2>2. IsView(levels, lastUpdateId, known)
    BY <1>2 DEF SkipDiff, IInv, OneResync, MirrorsExchange
  <2>3. QED
    BY <2>1, <2>2, PublishServes DEF IInv, TypeOK
<1>3. CASE ApplyDiff
  <2>1. UNCHANGED <<log, books>> /\ Take /\ Chains(Msg) /\ Apply(Msg) /\ Publish(lastUpdateId', levels')
    BY <1>3 DEF ApplyDiff
  <2>2. Msg \in DepthEvent /\ IsEvent(Msg)
    BY <2>1, HeadAndTail DEF Take, Msg, IInv, TypeOK, MessagesGenuine
  <2>3. /\ levels' \in Book /\ lastUpdateId' \in UpdateId' /\ known' \in SUBSET Levels
        /\ IsView(levels, lastUpdateId, known)'
    BY <2>1, <2>2, ApplyKeepsView
  <2>4. lastUpdateId' \in UpdateId /\ IsView(levels', lastUpdateId', known')
    BY <2>1, <2>3, Frozen
  <2>5. QED
    BY <2>1, <2>3, <2>4, PublishServes DEF IInv, TypeOK
<1>4. CASE KeyExpires
  BY <1>4 DEF KeyExpires, Feed!FeedNext, Feed!Withdraw, Feed!exchangeVars
<1>5. CASE /\ UNCHANGED <<log, books, served>>
  BY <1>5 DEF Feed!feedVars
<1>6. QED
  BY <1>1, <1>2, <1>3, <1>4, <1>5
     DEF Next, Reader, Resync, StreamTicks, Disconnect, Reconnect, BeginFirstResync, SnapshotTaken,
         FetchFails, InstallSnapshot, ReplaySkips, ReplayApplies, ReplayGap, FinishResync,
         BufferDiff, ResyncOnGap, WorkerRestarts, vars

(* The maintainer implements the feed: a reader of the Redis key never     *)
(* sees a book that mixes two moments or misses an update.                 *)
THEOREM MaintainerImplementsFeed == Spec => ImplementsFeed
<1>1. Init => Feed!FeedInit
  BY DEF Init, ExchangeInit, Feed!FeedInit, Feed!ExchangeInit, Feed!Book, Book, Feed!Levels, Levels
<1>2. QED
  BY <1>1, Invariance, StepImplementsFeed, PTL DEF Spec, ImplementsFeed, Feed!FeedSpec
=============================================================================
