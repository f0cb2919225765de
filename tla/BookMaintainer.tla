--------------------------- MODULE BookMaintainer ---------------------------
(***************************************************************************)
(* The order book maintainer of one symbol: BookMaintainer in              *)
(* backend/app/ingestion/book_maintainer.py on top of OrderBook, fed by    *)
(* the reconnecting reader of ws_streams.py and by REST snapshots.         *)
(*                                                                         *)
(* Two coroutines of one event loop act on the book.  The reader takes     *)
(* messages off the connection one at a time; the task, created at the     *)
(* first message, runs the first resync.  Either may be inside resync():   *)
(* the task from the start, the reader when a diff leaves a gap, in which  *)
(* case it handles no message until resync returns.  A step of the model   *)
(* is what the code does between two awaits, except that the replay loop   *)
(* of resync is one step per diff, during which no coroutine moves.        *)
(***************************************************************************)
EXTENDS OrderBook

CONSTANTS
  NoBook,         \* the Redis key is not set
  SnapshotLag,    \* how many updates a REST snapshot may be behind the engine
  FetchMayFail,   \* whether a snapshot request may fail or time out
  MaxRestarts     \* bounds the number of times the worker is restarted

ASSUME LagAssumption == SnapshotLag \in Nat
ASSUME FailAssumption == FetchMayFail \in BOOLEAN
ASSUME RestartsAssumption == MaxRestarts \in Nat
ASSUME NoBookAssumption == NoBook \notin [id : Nat, levels : Book]

VARIABLES
  emitted,       \* the depth stream has reported every update up to this id
  conn,          \* the WebSocket: "up" or "down"
  channel,       \* messages received and not yet taken by the reader
  lastUpdateId, levels, synced,  \* the OrderBook object
  known,         \* history variable: the levels the local book knows of
  buffer, syncing,               \* the BookMaintainer object
  started,       \* the event set by the first message
  phase,         \* phase[c]: where coroutine c is in resync()
  snap,          \* snap[c]: the id of the snapshot c has received
  cursor,        \* the next buffered diff of the replay loop
  served,        \* the Redis key book:<SYMBOL>
  restarts

exchangeSide == <<log, books, emitted>>
bookVars == <<lastUpdateId, levels, synced, known>>
maintainerVars == <<buffer, syncing>>
resyncVars == <<phase, snap, cursor>>
vars == <<log, books, emitted, conn, channel, lastUpdateId, levels, synced, known,
          buffer, syncing, started, phase, snap, cursor, served, restarts>>

Coroutines == {"reader", "task"}
Phases == {"idle", "scheduled", "waiting", "responded", "replaying"}

TypeOK ==
  /\ ExchangeOK
  /\ emitted \in UpdateId
  /\ conn \in {"up", "down"}
  /\ channel \in Seq(DepthEvent)
  /\ lastUpdateId \in UpdateId
  /\ levels \in Book
  /\ synced \in BOOLEAN
  /\ known \in SUBSET Levels
  /\ buffer \in Seq(DepthEvent)
  /\ syncing \in BOOLEAN
  /\ started \in BOOLEAN
  /\ phase \in [Coroutines -> Phases]
  /\ snap \in [Coroutines -> UpdateId]
  /\ cursor \in 1..(Len(buffer) + 1)
  /\ served \in {NoBook} \cup [id : UpdateId, levels : Book]
  /\ restarts \in 0..MaxRestarts

Init ==
  /\ ExchangeInit
  /\ emitted = 0
  /\ conn = "down"
  /\ channel = <<>>
  /\ lastUpdateId = 0 /\ levels = EmptyBook /\ synced = FALSE /\ known = {}
  /\ buffer = <<>> /\ syncing = TRUE
  /\ started = FALSE
  /\ phase = [c \in Coroutines |-> "idle"]
  /\ snap = [c \in Coroutines |-> 0]
  /\ cursor = 1
  /\ served = NoBook
  /\ restarts = 0

-----------------------------------------------------------------------------
(* The exchange and the connection                                         *)

ExchangeUpdates ==
  /\ \E l \in Levels, q \in Qty : Update(l, q)
  /\ UNCHANGED <<emitted, conn, channel, bookVars, maintainerVars, started, resyncVars,
                 served, restarts>>

(* Every 100 ms the stream sends the updates made since its last event to  *)
(* whoever is connected.                                                   *)
StreamTicks ==
  /\ emitted < Len(log)
  /\ emitted' = Len(log)
  /\ channel' = IF conn = "up"
                  THEN Append(channel, [first |-> emitted + 1, final |-> Len(log)])
                  ELSE channel
  /\ UNCHANGED <<log, books, conn, bookVars, maintainerVars, started, resyncVars,
                 served, restarts>>

(* A dropped connection, or the proactive reconnect: what was received may *)
(* still be delivered, up to some message.                                 *)
Disconnect ==
  /\ conn = "up"
  /\ conn' = "down"
  /\ \E k \in 0..Len(channel) : channel' = SubSeq(channel, 1, k)
  /\ UNCHANGED <<exchangeSide, bookVars, maintainerVars, started, resyncVars, served, restarts>>

(* The event loop runs one coroutine at a time and the replay has no await. *)
LoopFree == \A c \in Coroutines : phase[c] # "replaying"
ReaderFree == LoopFree /\ phase["reader"] = "idle"

(* The loop of consume_stream comes round when recv raises, that is when   *)
(* nothing is left to deliver, and only after the handler has returned.    *)
Reconnect ==
  /\ conn = "down" /\ channel = <<>> /\ ReaderFree
  /\ conn' = "up"
  /\ UNCHANGED <<exchangeSide, channel, bookVars, maintainerVars, started, resyncVars,
                 served, restarts>>

-----------------------------------------------------------------------------
(* resync()                                                                *)

ResetKeepingCursor == buffer' = <<>> /\ syncing' = TRUE /\ UNCHANGED cursor
ResetForResync == buffer' = <<>> /\ syncing' = TRUE /\ cursor' = 1

(* The task created by the first message gets to run: buffer.clear() also  *)
(* drops what the reader has put there in the meantime.                    *)
BeginFirstResync ==
  /\ LoopFree
  /\ phase["task"] = "scheduled"
  /\ phase' = [phase EXCEPT !["task"] = "waiting"]
  /\ ResetForResync
  /\ UNCHANGED <<exchangeSide, conn, channel, bookVars, started, snap, served, restarts>>

(* The exchange takes the snapshot that answers c's request.               *)
SnapshotTaken(c) ==
  /\ phase[c] = "waiting"
  /\ phase' = [phase EXCEPT ![c] = "responded"]
  /\ \E id \in UpdateId : /\ id + SnapshotLag >= Len(log)
                          /\ snap' = [snap EXCEPT ![c] = id]
  /\ UNCHANGED <<exchangeSide, conn, channel, bookVars, maintainerVars, started, cursor,
                 served, restarts>>

(* An exception leaves resync(): it ends the task, or goes through the     *)
(* handler to consume_stream, which closes the connection.                 *)
FetchFails(c) ==
  /\ FetchMayFail
  /\ LoopFree
  /\ phase[c] = "waiting"
  /\ phase' = [phase EXCEPT ![c] = "idle"]
  /\ IF c = "reader" THEN conn' = "down" /\ channel' = <<>> ELSE UNCHANGED <<conn, channel>>
  /\ UNCHANGED <<exchangeSide, bookVars, maintainerVars, started, snap, cursor, served, restarts>>

(* apply_snapshot, and into the replay loop.                               *)
InstallSnapshot(c) ==
  /\ LoopFree
  /\ phase[c] = "responded"
  /\ phase' = [phase EXCEPT ![c] = "replaying"]
  /\ lastUpdateId' = snap[c]
  /\ levels' = Snapshot(BookAt(snap[c]))
  /\ known' = Shown(BookAt(snap[c]))
  /\ synced' = TRUE
  /\ cursor' = 1
  /\ UNCHANGED <<exchangeSide, conn, channel, maintainerVars, started, snap, served, restarts>>

(* What apply_diff assigns when d chains onto the book, and when it raises *)
(* SequenceGap.                                                            *)
Apply(d) ==
  /\ levels' = Merge(levels, d)
  /\ lastUpdateId' = d.final
  /\ known' = known \cup Touched(d.first, d.final)
  /\ UNCHANGED synced

Raises(d) == ~synced \/ (~IsStale(d, lastUpdateId) /\ LeavesGap(d, lastUpdateId))
Skips(d) == synced /\ IsStale(d, lastUpdateId)
Chains(d) == ~Raises(d) /\ ~Skips(d)

Unsync ==
  /\ synced' = FALSE
  /\ UNCHANGED <<lastUpdateId, levels, known>>

Replaying(c) == phase[c] = "replaying" /\ cursor <= Len(buffer)

ReplaySkips(c) ==
  /\ Replaying(c) /\ Skips(buffer[cursor])
  /\ cursor' = cursor + 1
  /\ UNCHANGED <<exchangeSide, conn, channel, bookVars, maintainerVars, started, phase, snap,
                 served, restarts>>

ReplayApplies(c) ==
  /\ Replaying(c) /\ Chains(buffer[cursor])
  /\ Apply(buffer[cursor])
  /\ cursor' = cursor + 1
  /\ UNCHANGED <<exchangeSide, conn, channel, maintainerVars, started, phase, snap,
                 served, restarts>>

(* A gap between buffered diffs, or between the snapshot and the first of  *)
(* them: resync calls itself, which clears the buffer and fetches again.   *)
ReplayGap(c) ==
  /\ Replaying(c) /\ Raises(buffer[cursor])
  /\ Unsync
  /\ phase' = [phase EXCEPT ![c] = "waiting"]
  /\ ResetForResync
  /\ UNCHANGED <<exchangeSide, conn, channel, started, snap, served, restarts>>

FinishStillSyncing(c) ==
  /\ phase[c] = "replaying" /\ cursor > Len(buffer)
  /\ buffer' = <<>> /\ cursor' = 1
  /\ phase' = [phase EXCEPT ![c] = "idle"]
  /\ UNCHANGED <<exchangeSide, conn, channel, bookVars, syncing, started, snap, served, restarts>>
FinishResync(c) ==
  /\ phase[c] = "replaying" /\ cursor > Len(buffer)
  /\ buffer' = <<>> /\ cursor' = 1
  /\ syncing' = FALSE
  /\ phase' = [phase EXCEPT ![c] = "idle"]
  /\ UNCHANGED <<exchangeSide, conn, channel, bookVars, started, snap, served, restarts>>

-----------------------------------------------------------------------------
(* The handler of run_book_maintainer, for the message at the head         *)

Take == ReaderFree /\ channel # <<>>
Msg == Head(channel)

(* The first message ever also creates the task.                           *)
NotingEveryMessage ==
  /\ started' = TRUE
  /\ phase' = [phase EXCEPT !["task"] = "scheduled"]
NotingStart ==
  /\ started' = TRUE
  /\ phase' = IF started THEN phase ELSE [phase EXCEPT !["task"] = "scheduled"]

(* publish(): the payload is built before the first await.  Redis may fail *)
(* before or after the key is set; the exception closes the connection.    *)
Publish(id, ls) ==
  \/ /\ served' = [id |-> id, levels |-> ls]
     /\ channel' = Tail(channel)
     /\ UNCHANGED conn
  \/ /\ served' \in {served, [id |-> id, levels |-> ls]}
     /\ channel' = <<>>
     /\ conn' = "down"

BufferAndPublish ==
  /\ Take /\ syncing
  /\ NotingStart
  /\ buffer' = Append(buffer, Msg)
  /\ Publish(lastUpdateId, levels)
  /\ UNCHANGED <<exchangeSide, bookVars, syncing, snap, cursor, restarts>>
BufferDiff ==
  /\ Take /\ syncing
  /\ NotingStart
  /\ channel' = Tail(channel)
  /\ buffer' = Append(buffer, Msg)
  /\ UNCHANGED <<exchangeSide, conn, bookVars, syncing, snap, cursor, served, restarts>>

SkipDiff ==
  /\ Take /\ ~syncing /\ Skips(Msg)
  /\ NotingStart
  /\ Publish(lastUpdateId, levels)
  /\ UNCHANGED <<exchangeSide, bookVars, maintainerVars, snap, cursor, restarts>>

ApplyDiff ==
  /\ Take /\ ~syncing /\ Chains(Msg)
  /\ NotingStart
  /\ Apply(Msg)
  /\ Publish(lastUpdateId', levels')
  /\ UNCHANGED <<exchangeSide, maintainerVars, snap, cursor, restarts>>

(* The diff that revealed the gap is not kept.                             *)
ResyncOnGap ==
  /\ Take /\ ~syncing /\ Raises(Msg)
  /\ started' = TRUE
  /\ phase' = [c \in Coroutines |-> IF c = "reader" THEN "waiting"
                                    ELSE IF started THEN phase[c] ELSE "scheduled"]
  /\ channel' = Tail(channel)
  /\ Unsync
  /\ ResetForResync
  /\ UNCHANGED <<exchangeSide, conn, snap, served, restarts>>

-----------------------------------------------------------------------------
(* The key was set with ex=30.                                             *)
KeyExpires ==
  /\ served # NoBook
  /\ served' = NoBook
  /\ UNCHANGED <<exchangeSide, conn, channel, bookVars, maintainerVars, started, resyncVars,
                 restarts>>

WorkerRestarts ==
  /\ restarts < MaxRestarts
  /\ restarts' = restarts + 1
  /\ conn' = "down" /\ channel' = <<>>
  /\ lastUpdateId' = 0 /\ levels' = EmptyBook /\ synced' = FALSE /\ known' = {}
  /\ buffer' = <<>> /\ syncing' = TRUE
  /\ started' = FALSE
  /\ phase' = [c \in Coroutines |-> "idle"]
  /\ snap' = [c \in Coroutines |-> 0]
  /\ cursor' = 1
  /\ UNCHANGED <<exchangeSide, served>>

Reader == BufferDiff \/ SkipDiff \/ ApplyDiff \/ ResyncOnGap

Resync(c) ==
  \/ InstallSnapshot(c)
  \/ ReplaySkips(c)
  \/ ReplayApplies(c)
  \/ ReplayGap(c)
  \/ FinishResync(c)

Next ==
  \/ ExchangeUpdates
  \/ StreamTicks
  \/ Disconnect
  \/ Reconnect
  \/ BeginFirstResync
  \/ \E c \in Coroutines : SnapshotTaken(c) \/ FetchFails(c) \/ Resync(c)
  \/ Reader
  \/ KeyExpires
  \/ WorkerRestarts

Spec == Init /\ [][Next]_vars

(***************************************************************************)
(* The event loop runs every coroutine that can run, and a snapshot asked  *)
(* for again and again is sooner or later delivered.  Nothing is assumed   *)
(* of the exchange, the connection, Redis or restarts.                     *)
(***************************************************************************)
Fairness ==
  /\ WF_vars(BeginFirstResync)
  /\ WF_vars(Reader)
  /\ WF_vars(Reconnect)
  /\ \A c \in Coroutines : SF_vars(SnapshotTaken(c)) /\ WF_vars(Resync(c))

FairSpec == Spec /\ Fairness

-----------------------------------------------------------------------------
(* Properties                                                              *)

(* A synced book is the exchange's book at lastUpdateId on every level it  *)
(* knows of and has no other level: snapshot, buffered diffs, overlapping  *)
(* diffs and gaps never leave a half-updated book behind.                  *)
MirrorsExchange == synced => IsView(levels, lastUpdateId, known)

(* resync() and the reader never run into each other: at most one resync   *)
(* is under way, diffs are buffered and not applied as long as it is, and  *)
(* whenever they are applied the book is synced and nothing is left over   *)
(* in the buffer.                                                          *)
OneResync ==
  /\ \E c \in Coroutines : phase[c] = "idle"
  /\ (\E c \in Coroutines : phase[c] # "idle") => syncing
  /\ ~syncing => synced /\ buffer = <<>>

(* The Redis key, too, only ever holds a book the exchange had; see        *)
(* BookFeed.                                                               *)
Feed == INSTANCE BookFeed WITH view <- served
ImplementsFeed == Feed!FeedSpec

(* With snapshots that are never behind the matching engine, the book in   *)
(* Redis never goes back in time, whatever gaps, reconnects and restarts   *)
(* happen between two publications.                                        *)
ServedMovesForward ==
  [][(served # NoBook /\ served' # NoBook) => served'.id >= served.id]_vars

(* A resync that has begun ends, so a started maintainer does not buffer   *)
(* for ever.                                                               *)
ResyncEnds == (started /\ syncing) ~> (~syncing \/ ~started)

(* The last message of the exchange, once received, ends up in the book,   *)
(* unless the connection goes down with it.                                *)
CatchesUp ==
  (\E i \in 1..Len(channel) : channel[i].final = MaxUpdates)
     ~> (lastUpdateId = MaxUpdates /\ ~syncing) \/ conn = "down"
=============================================================================
