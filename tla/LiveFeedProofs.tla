--------------------------- MODULE LiveFeedProofs ---------------------------
(***************************************************************************)
(* Proofs about LiveFeed, for any number of sockets, topics, frames and    *)
(* faults: the manager keeps a single connection unless it replaces a      *)
(* socket that is closing, and the hub ends up with what the page wants.   *)
(***************************************************************************)
EXTENDS LiveFeed, TLAPS

USE FeedAssumption

(* The hub holds something, and is sent something, for open sockets only.  *)
OnlyOpenTalk ==
  \A s \in Sockets : ready[s] # "open" => hub[s] = "none" /\ toHub[s] = <<>>

(* A socket that was never replaced is the only one in use.                *)
OneInUse == ~replaced => \A s \in Sockets : ready[s] # "unused" => s = ws

AuthNamesNoTopic ==
  \A s \in Sockets : \A i \in 1..Len(toHub[s]) :
    toHub[s][i].op = "auth" => toHub[s][i].topics = {}

(* Whether t is subscribed once frames have been read by a hub that is     *)
(* subscribed to topics: the last frame about t decides.                   *)
Settles(frames, topics, t) ==
  \/ \E i \in 1..Len(frames) :
       /\ frames[i].op = "subscribe" /\ t \in frames[i].topics
       /\ \A j \in i + 1..Len(frames) : t \notin frames[j].topics
  \/ /\ t \in topics
     /\ \A j \in 1..Len(frames) : t \notin frames[j].topics

(* The frames under way on the manager's socket bring the hub to what the  *)
(* page wants, beginning with its authentication.                          *)
WillAgree ==
  IsOpen(ws) =>
    /\ hub[ws] # "none"
    /\ hub[ws] = "auth" => toHub[ws] # <<>> /\ Head(toHub[ws]).op = "auth"
    /\ \A t \in Topics : Settles(toHub[ws], subs[ws], t) <=> t \in handlers

IInv == TypeOK /\ OnlyOpenTalk /\ OneInUse /\ AuthNamesNoTopic /\ WillAgree

-----------------------------------------------------------------------------
(* Frames                                                                  *)

(* A frame that is sent decides about its topics and no others.            *)
LEMMA SentFrameDecides ==
  ASSUME NEW frames \in Seq(Frames), NEW f \in Frames, NEW topics, NEW t
  PROVE  Settles(frames \o <<f>>, topics, t)
           <=> IF t \in f.topics THEN f.op = "subscribe" ELSE Settles(frames, topics, t)
<1> DEFINE longer == frames \o <<f>>
           n == Len(frames)
<1>1. /\ n \in Nat /\ Len(longer) = n + 1 /\ longer[n + 1] = f
      /\ \A i \in 1..n : longer[i] = frames[i]
  OBVIOUS
<1>2. CASE t \in f.topics
  <2>1. Settles(longer, topics, t) => f.op = "subscribe"
    <3>1. t \in longer[n + 1].topics /\ n + 1 \in 1..Len(longer)
      BY <1>1, <1>2
    <3>2. ASSUME NEW i \in 1..Len(longer), \A j \in i + 1..Len(longer) : t \notin longer[j].topics
          PROVE  i = n + 1
      BY <1>1, <3>1, <3>2
    <3> HIDE DEF longer, n
    <3> QED
      BY <1>1, <3>1, <3>2 DEF Settles
  <2>2. f.op = "subscribe" => Settles(longer, topics, t)
    <3> HIDE DEF longer, n
    <3>1. n + 1 \in 1..Len(longer) /\ \A j \in n + 1 + 1..Len(longer) : FALSE
      BY <1>1
    <3> QED
      BY <1>1, <1>2, <3>1 DEF Settles
  <2> QED
    BY <1>2, <2>1, <2>2
<1>3. CASE t \notin f.topics
  <2> HIDE DEF longer, n
  <2>1. \A k \in 1..n + 1 : (\A j \in k..Len(longer) : t \notin longer[j].topics)
                              <=> (\A j \in k..n : t \notin frames[j].topics)
    BY <1>1, <1>3
  <2>2. \A i \in 1..Len(longer) : t \in longer[i].topics => i \in 1..n
    BY <1>1, <1>3
  <2> DEFINE Later(fs, k) == \A j \in k..Len(fs) : t \notin fs[j].topics
             Decides(fs, i) == fs[i].op = "subscribe" /\ t \in fs[i].topics /\ Later(fs, i + 1)
  <2>3. \A k \in 1..n + 1 : Later(longer, k) <=> Later(frames, k)
    BY <2>1 DEF n
  <2>4. \A i \in 1..n : Decides(longer, i) <=> Decides(frames, i)
    <3> SUFFICES ASSUME NEW i \in 1..n PROVE Decides(longer, i) <=> Decides(frames, i)
      OBVIOUS
    <3>1. i + 1 \in 1..n + 1
      BY <1>1
    <3> HIDE DEF Later
    <3> QED
      BY <1>1, <2>3, <3>1
  <2>5. \A i \in 1..Len(longer) : Decides(longer, i) => i \in 1..n
    BY <2>2
  <2>6. \A i \in 1..n : i \in 1..Len(longer)
    BY <1>1
  <2>7. (\E i \in 1..Len(longer) : Decides(longer, i)) <=> \E i \in 1..n : Decides(frames, i)
    <3> HIDE DEF Decides
    <3> QED
      BY <2>4, <2>5, <2>6
  <2>8. Later(longer, 1) <=> Later(frames, 1)
    <3>1. 1 \in 1..n + 1
      BY <1>1
    <3> HIDE DEF Later
    <3> QED
      BY <2>3, <3>1
  <2>9. Settles(longer, topics, t) <=> Settles(frames, topics, t)
    <3>1. Settles(longer, topics, t)
            <=> (\E i \in 1..Len(longer) : Decides(longer, i)) \/ (t \in topics /\ Later(longer, 1))
      BY DEF Settles
    <3>2. Settles(frames, topics, t)
            <=> (\E i \in 1..n : Decides(frames, i)) \/ (t \in topics /\ Later(frames, 1))
      BY DEF Settles, n
    <3> HIDE DEF Decides, Later
    <3> QED
      BY <2>7, <2>8, <3>1, <3>2
  <2> QED
    BY <1>3, <2>9 DEF longer
<1> QED
  BY <1>2, <1>3

(* Reading a frame does to the subscriptions what it was sent for.         *)
LEMMA ReadFrameSettles ==
  ASSUME NEW frames \in Seq(Frames), frames # <<>>, NEW topics, NEW after, NEW t,
         Head(frames).op = "auth" => Head(frames).topics = {},
         t \in after <=> IF t \in Head(frames).topics THEN Head(frames).op = "subscribe"
                         ELSE t \in topics
  PROVE  Settles(Tail(frames), after, t) <=> Settles(frames, topics, t)
<1> DEFINE rest == Tail(frames)
           n == Len(rest)
<1>1. /\ n \in Nat /\ Len(frames) = n + 1 /\ Head(frames) = frames[1]
      /\ \A i \in 1..n : rest[i] = frames[i + 1]
  OBVIOUS
<1> HIDE DEF rest, n
<1>2. \A k \in 1..n + 1 : (\A j \in k + 1..n + 1 : t \notin frames[j].topics)
                            <=> (\A j \in k..n : t \notin rest[j].topics)
  <2> SUFFICES ASSUME NEW k \in 1..n + 1
               PROVE  (\A j \in k + 1..n + 1 : t \notin frames[j].topics)
                        <=> (\A j \in k..n : t \notin rest[j].topics)
    OBVIOUS
  <2>1. ASSUME \A j \in k + 1..n + 1 : t \notin frames[j].topics, NEW j \in k..n
        PROVE  t \notin rest[j].topics
    <3>1. j + 1 \in k + 1..n + 1 /\ j \in 1..n
      BY <1>1
    <3> QED
      BY <1>1, <2>1, <3>1
  <2>2. ASSUME \A j \in k..n : t \notin rest[j].topics, NEW j \in k + 1..n + 1
        PROVE  t \notin frames[j].topics
    <3>1. j - 1 \in k..n /\ j - 1 \in 1..n /\ (j - 1) + 1 = j
      BY <1>1
    <3> QED
      BY <1>1, <2>2, <3>1
  <2> QED
    BY <2>1, <2>2
<1> DEFINE Later(fs, k) == \A j \in k..Len(fs) : t \notin fs[j].topics
           Decides(fs, i) == fs[i].op = "subscribe" /\ t \in fs[i].topics /\ Later(fs, i + 1)
<1>3. \A i \in 1..n : Decides(rest, i) <=> Decides(frames, i + 1)
  <2> SUFFICES ASSUME NEW i \in 1..n
               PROVE  Decides(rest, i) <=> Decides(frames, i + 1)
    OBVIOUS
  <2>1. i + 1 \in 1..n + 1 /\ rest[i] = frames[i + 1]
    BY <1>1
  <2>2. Later(rest, i + 1) <=> Later(frames, i + 1 + 1)
    BY <1>1, <1>2, <2>1 DEF n
  <2> QED
    BY <2>1, <2>2
<1>4. Later(rest, 1) <=> Later(frames, 2)
  BY <1>1, <1>2 DEF n
<1>5. (\E i \in 1..Len(frames) : Decides(frames, i))
        <=> Decides(frames, 1) \/ \E i \in 1..n : Decides(rest, i)
  <2> HIDE DEF Decides
  <2>1. \A i \in 1..n + 1 : i = 1 \/ (i - 1 \in 1..n /\ (i - 1) + 1 = i)
    BY <1>1
  <2>2. \A i \in 1..n : i + 1 \in 1..n + 1
    BY <1>1
  <2>3. 1 \in 1..n + 1
    BY <1>1
  <2>4. (\E i \in 1..n : Decides(rest, i)) => \E i \in 1..n + 1 : Decides(frames, i)
    BY <1>3, <2>2
  <2>5. (\E i \in 1..n + 1 : Decides(frames, i))
          => Decides(frames, 1) \/ \E i \in 1..n : Decides(rest, i)
    <3> SUFFICES ASSUME NEW i \in 1..n + 1, Decides(frames, i)
                 PROVE  Decides(frames, 1) \/ \E m \in 1..n : Decides(rest, m)
      OBVIOUS
    <3>1. CASE i = 1
      BY <3>1
    <3>2. CASE i - 1 \in 1..n /\ (i - 1) + 1 = i
      BY <1>3, <3>2
    <3> QED
      BY <2>1, <3>1, <3>2
  <2> QED
    BY <1>1, <2>3, <2>4, <2>5
<1>6. Later(frames, 1) <=> t \notin frames[1].topics /\ Later(frames, 2)
  BY <1>1
<1>7. Settles(frames, topics, t)
        <=> (\E i \in 1..Len(frames) : Decides(frames, i)) \/ (t \in topics /\ Later(frames, 1))
  BY DEF Settles
<1>8. Settles(rest, after, t)
        <=> (\E i \in 1..n : Decides(rest, i)) \/ (t \in after /\ Later(rest, 1))
  BY DEF Settles, n
<1>9. Decides(frames, 1) <=> frames[1].op = "subscribe" /\ t \in frames[1].topics /\ Later(frames, 2)
  OBVIOUS
<1> HIDE DEF Decides, Later
<1> QED
  BY <1>1, <1>4, <1>5, <1>6, <1>7, <1>8, <1>9 DEF rest

-----------------------------------------------------------------------------
(* The invariant                                                           *)

(* Nothing is open and nothing under way before the page's first topic.    *)
LEMMA InitIInv == Init => IInv
<1> SUFFICES ASSUME Init PROVE IInv
  OBVIOUS
<1>1. TypeOK
  <2>1. toHub \in [Sockets -> Seq(Frames)]
    BY DEF Init
  <2>2. /\ subs \in [Sockets -> SUBSET Topics] /\ hub \in [Sockets -> {"none", "auth", "ops"}]
        /\ relay \in [Sockets -> {"none", "running", "ended"}]
        /\ ready \in [Sockets -> {"unused", "connecting", "open", "closing"}]
        /\ \A s \in Sockets : hub[s] # "ops" => subs[s] = {} /\ relay[s] = "none"
    BY DEF Init
  <2>3. /\ handlers \subseteq Topics /\ ws \in Sockets \cup {NoSocket}
        /\ timer \in BOOLEAN /\ replaced \in BOOLEAN
    BY DEF Init
  <2>4. faults \in 0..MaxFaults
    BY DEF Init
  <2> QED
    BY <2>1, <2>2, <2>3, <2>4 DEF TypeOK
<1>2. OnlyOpenTalk /\ OneInUse /\ AuthNamesNoTopic /\ WillAgree
  BY DEF Init, OnlyOpenTalk, OneInUse, AuthNamesNoTopic, WillAgree, IsOpen
<1> QED
  BY <1>1, <1>2 DEF IInv

(* connect leaves an open socket alone, and opens none at once.            *)
LEMMA ConnectKeeps ==
  ASSUME IInv, Connect
  PROVE  /\ ws' \in Sockets \cup {NoSocket} /\ replaced' \in BOOLEAN
         /\ ready' \in [Sockets -> {"unused", "connecting", "open", "closing"}]
         /\ IsOpen(ws) => UNCHANGED <<ws, ready>>
         /\ IsOpen(ws)' => IsOpen(ws)
         /\ \A s \in Sockets : ready'[s] = "open" <=> ready[s] = "open"
         /\ OneInUse'
<1> USE DEF IInv, TypeOK
<1>1. CASE ~Replaces
  BY <1>1 DEF Connect, IsOpen, OneInUse
<1>2. CASE Replaces
  <2>1. /\ NewSocket \in Sockets /\ ready[NewSocket] = "unused"
        /\ ws' = NewSocket /\ ready' = [ready EXCEPT ![NewSocket] = "connecting"]
        /\ replaced' = (replaced \/ (ws # NoSocket /\ ready[ws] = "closing"))
    BY <1>2 DEF Connect, NewSocket
  <2> HIDE DEF NewSocket
  <2>2. ~IsOpen(ws) /\ ~IsOpen(ws)'
    BY <1>2, <2>1 DEF Replaces, IsOpen
  <2>3. OneInUse'
    BY <1>2, <2>1 DEF Replaces, OneInUse
  <2> QED
    BY <2>1, <2>2, <2>3
<1> QED
  BY <1>1, <1>2

(* Only an open socket of the manager is sent anything.                    *)
LEMMA SendKeepsTypes ==
  ASSUME IInv, NEW f \in Frames, Send(<<f>>)
  PROVE  /\ toHub' \in [Sockets -> Seq(Frames)]
         /\ \A s \in Sockets : toHub'[s] = IF s = ws /\ IsOpen(ws) THEN toHub[s] \o <<f>> ELSE toHub[s]
<1>1. toHub \in [Sockets -> Seq(Frames)] /\ ws \in Sockets \cup {NoSocket}
  BY DEF IInv, TypeOK
<1>2. CASE IsOpen(ws)
  <2>1. ws \in Sockets /\ toHub[ws] \o <<f>> \in Seq(Frames)
    BY <1>1, <1>2 DEF IsOpen
  <2> QED
    BY <1>1, <1>2, <2>1 DEF Send
<1>3. CASE ~IsOpen(ws)
  BY <1>1, <1>3 DEF Send
<1> QED
  BY <1>2, <1>3

(* A subscription or its end, sent after the page has changed its mind     *)
(* about t, keeps the frames what the page wants.                          *)
LEMMA SendKeepsAgreement ==
  ASSUME IInv, NEW t \in Topics, NEW op \in {"subscribe", "unsubscribe"},
         Send(<<Frame(op, {t})>>),
         handlers' = IF op = "subscribe" THEN handlers \cup {t} ELSE handlers \ {t},
         IsOpen(ws) => UNCHANGED ws, IsOpen(ws)' => IsOpen(ws), UNCHANGED hubVars
  PROVE  toHub' \in [Sockets -> Seq(Frames)] /\ AuthNamesNoTopic' /\ WillAgree'
<1> DEFINE f == Frame(op, {t})
<1>1. f \in Frames /\ f.op = op /\ f.topics = {t}
  BY DEF Frames, Frame
<1>2. toHub \in [Sockets -> Seq(Frames)] /\ ws \in Sockets \cup {NoSocket}
  BY DEF IInv, TypeOK
<1> HIDE DEF f
<1>3. /\ toHub' \in [Sockets -> Seq(Frames)]
      /\ \A s \in Sockets : toHub'[s] = IF s = ws /\ IsOpen(ws) THEN toHub[s] \o <<f>> ELSE toHub[s]
  BY <1>1, SendKeepsTypes DEF f
<1>4. AuthNamesNoTopic'
  <2> SUFFICES ASSUME NEW s \in Sockets, NEW i \in 1..Len(toHub'[s]), toHub'[s][i].op = "auth"
               PROVE  toHub'[s][i].topics = {}
    BY DEF AuthNamesNoTopic
  <2>1. CASE toHub'[s] = toHub[s]
    BY <2>1 DEF IInv, AuthNamesNoTopic
  <2>2. CASE toHub'[s] = toHub[s] \o <<f>>
    <3>1. (i \in 1..Len(toHub[s]) /\ toHub'[s][i] = toHub[s][i]) \/ toHub'[s][i] = f
      BY <1>1, <1>2, <2>2
    <3> QED
      BY <1>1, <3>1 DEF IInv, AuthNamesNoTopic
  <2> QED
    BY <1>3, <2>1, <2>2
<1>5. WillAgree'
  <2> SUFFICES ASSUME IsOpen(ws)'
               PROVE  /\ hub'[ws'] # "none"
                      /\ hub'[ws'] = "auth" => toHub'[ws'] # <<>> /\ Head(toHub'[ws']).op = "auth"
                      /\ \A u \in Topics : Settles(toHub'[ws'], subs'[ws'], u) <=> u \in handlers'
    BY DEF WillAgree
  <2>1. /\ IsOpen(ws) /\ ws' = ws /\ ws \in Sockets /\ hub' = hub /\ subs' = subs
        /\ toHub'[ws] = toHub[ws] \o <<f>>
    BY <1>2, <1>3 DEF IsOpen, hubVars
  <2>2. /\ hub[ws] # "none"
        /\ hub[ws] = "auth" => toHub[ws] # <<>> /\ Head(toHub[ws]).op = "auth"
        /\ \A u \in Topics : Settles(toHub[ws], subs[ws], u) <=> u \in handlers
    BY <2>1 DEF IInv, WillAgree
  <2>3. toHub[ws] # <<>> => toHub'[ws] # <<>> /\ Head(toHub'[ws]) = Head(toHub[ws])
    BY <1>1, <1>2, <2>1
  <2>4. ASSUME NEW u \in Topics
        PROVE  Settles(toHub'[ws], subs[ws], u) <=> u \in handlers'
    <3>1. toHub[ws] \in Seq(Frames)
      BY <1>2, <2>1
    <3>2. Settles(toHub'[ws], subs[ws], u)
            <=> IF u \in f.topics THEN f.op = "subscribe" ELSE Settles(toHub[ws], subs[ws], u)
      <4>1. Settles(toHub[ws] \o <<f>>, subs[ws], u)
              <=> IF u \in f.topics THEN f.op = "subscribe" ELSE Settles(toHub[ws], subs[ws], u)
        BY <1>1, <3>1, SentFrameDecides
      <4> QED
        BY <2>1, <4>1
    <3> QED
      BY <1>1, <2>2, <3>2
  <2> QED
    BY <2>1, <2>2, <2>3, <2>4
<1> QED
  BY <1>3, <1>4, <1>5

(* The hub reads one frame of a socket: what it makes of it is what the    *)
(* frame was sent for.                                                     *)
LEMMA ReadingKeeps ==
  ASSUME IInv, NEW s \in Sockets, NEW op \in {"auth", "subscribe", "unsubscribe"},
         hub[s] # "none", Received(s, op),
         hub' \in [Sockets -> {"none", "auth", "ops"}], subs' \in [Sockets -> SUBSET Topics],
         relay' \in [Sockets -> {"none", "running", "ended"}],
         hub'[s] = "ops",
         \A d \in Sockets \ {s} : hub'[d] = hub[d] /\ subs'[d] = subs[d] /\ relay'[d] = relay[d],
         \A t \in Topics : t \in subs'[s] <=> IF t \in Next1(s).topics THEN op = "subscribe"
                                             ELSE t \in subs[s]
  PROVE  IInv'
<1>1. /\ toHub \in [Sockets -> Seq(Frames)] /\ ws \in Sockets \cup {NoSocket}
      /\ toHub[s] # <<>> /\ Head(toHub[s]).op = op /\ toHub' = [toHub EXCEPT ![s] = Tail(@)]
      /\ UNCHANGED <<handlers, ws, ready, timer, faults, replaced>>
  BY DEF IInv, TypeOK, Received, Next1
<1>2. Tail(toHub[s]) \in Seq(Frames) /\ toHub[s] \in Seq(Frames)
  BY <1>1
<1>3. toHub' \in [Sockets -> Seq(Frames)] /\ toHub'[s] = Tail(toHub[s])
      /\ \A d \in Sockets \ {s} : toHub'[d] = toHub[d]
  BY <1>1, <1>2
<1>4. TypeOK'
  BY <1>1, <1>3 DEF IInv, TypeOK
<1>5. ready[s] = "open"
  BY <1>1 DEF IInv, OnlyOpenTalk
<1>6. OnlyOpenTalk' /\ OneInUse'
  BY <1>1, <1>3, <1>5 DEF IInv, OnlyOpenTalk, OneInUse
<1>7. AuthNamesNoTopic'
  <2> SUFFICES ASSUME NEW d \in Sockets, NEW i \in 1..Len(toHub'[d]), toHub'[d][i].op = "auth"
               PROVE  toHub'[d][i].topics = {}
    BY DEF AuthNamesNoTopic
  <2>1. CASE d # s
    BY <1>3, <2>1 DEF IInv, AuthNamesNoTopic
  <2>2. CASE d = s
    <3>1. i + 1 \in 1..Len(toHub[s]) /\ toHub'[s][i] = toHub[s][i + 1]
      BY <1>1, <1>2, <1>3, <2>2
    <3> QED
      BY <2>2, <3>1 DEF IInv, AuthNamesNoTopic
  <2> QED
    BY <2>1, <2>2
<1>8. WillAgree'
  <2> SUFFICES ASSUME IsOpen(ws)
               PROVE  /\ hub'[ws] # "none"
                      /\ hub'[ws] = "auth" => toHub'[ws] # <<>> /\ Head(toHub'[ws]).op = "auth"
                      /\ \A t \in Topics : Settles(toHub'[ws], subs'[ws], t) <=> t \in handlers
    BY <1>1 DEF WillAgree, IsOpen
  <2>1. ws \in Sockets
    BY <1>1 DEF IsOpen
  <2>2. /\ hub[ws] # "none"
        /\ hub[ws] = "auth" => toHub[ws] # <<>> /\ Head(toHub[ws]).op = "auth"
        /\ \A t \in Topics : Settles(toHub[ws], subs[ws], t) <=> t \in handlers
    BY DEF IInv, WillAgree
  <2>3. CASE ws # s
    BY <1>3, <2>1, <2>2, <2>3
  <2>4. CASE ws = s
    <3>1. ASSUME NEW t \in Topics
          PROVE  Settles(Tail(toHub[s]), subs'[s], t) <=> Settles(toHub[s], subs[s], t)
      <4>1. Head(toHub[s]).op = "auth" => Head(toHub[s]).topics = {}
        <5>1. 1 \in 1..Len(toHub[s]) /\ Head(toHub[s]) = toHub[s][1]
          BY <1>1, <1>2
        <5> QED
          BY <5>1 DEF IInv, AuthNamesNoTopic
      <4>2. t \in subs'[s] <=> IF t \in Head(toHub[s]).topics THEN Head(toHub[s]).op = "subscribe"
                              ELSE t \in subs[s]
        BY <1>1 DEF Next1
      <4> QED
        BY <1>1, <1>2, <4>1, <4>2, ReadFrameSettles
    <3> QED
      BY <1>3, <2>2, <2>4, <3>1
  <2> QED
    BY <2>3, <2>4
<1> QED
  BY <1>4, <1>6, <1>7, <1>8 DEF IInv

(* When a connection ends, nothing of it is left in the hub, and the       *)
(* manager has no open socket if it was its own.                           *)
LEMMA EndKeeps ==
  ASSUME IInv, NEW s \in Sockets, Ends(s), ready[s] \in {"connecting", "open"},
         faults' \in 0..MaxFaults
  PROVE  IInv'
<1>1. /\ ready' = [ready EXCEPT ![s] = "closing"] /\ toHub' = [toHub EXCEPT ![s] = <<>>]
      /\ hub' = [hub EXCEPT ![s] = "none"] /\ subs' = [subs EXCEPT ![s] = {}]
      /\ relay' = [relay EXCEPT ![s] = "none"] /\ UNCHANGED <<handlers, ws, timer, replaced>>
  BY DEF Ends
<1>2. toHub' \in [Sockets -> Seq(Frames)]
  <2>1. <<>> \in Seq(Frames) /\ toHub \in [Sockets -> Seq(Frames)]
    BY DEF IInv, TypeOK
  <2> QED
    BY <1>1, <2>1
<1>3. TypeOK'
  BY <1>1, <1>2 DEF IInv, TypeOK
<1>4. OnlyOpenTalk' /\ OneInUse'
  BY <1>1 DEF IInv, TypeOK, OnlyOpenTalk, OneInUse
<1>5. \A d \in Sockets \ {s} : /\ ready'[d] = ready[d] /\ toHub'[d] = toHub[d]
                               /\ hub'[d] = hub[d] /\ subs'[d] = subs[d]
  BY <1>1 DEF IInv, TypeOK
<1>6. AuthNamesNoTopic'
  <2>1. toHub'[s] = <<>> /\ Len(<<>>) = 0
    BY <1>1 DEF IInv, TypeOK
  <2> QED
    BY <1>5, <2>1 DEF IInv, AuthNamesNoTopic
<1>7. WillAgree'
  <2>1. CASE ws = s
    BY <1>1, <2>1 DEF IInv, TypeOK, WillAgree, IsOpen
  <2>2. CASE ws # s
    BY <1>1, <1>5, <2>2 DEF IInv, TypeOK, WillAgree, IsOpen
  <2> QED
    BY <2>1, <2>2
<1> QED
  BY <1>3, <1>4, <1>6, <1>7 DEF IInv

(* Every step keeps the invariant.                                         *)
LEMMA StepIInv == IInv /\ [Next]_vars => IInv'
<1> SUFFICES ASSUME IInv, [Next]_vars PROVE IInv'
  OBVIOUS
<1> USE DEF IInv
<1>1. ASSUME NEW t \in Topics, Subscribe(t) PROVE IInv'
  <2>1. /\ ws' \in Sockets \cup {NoSocket} /\ replaced' \in BOOLEAN
        /\ ready' \in [Sockets -> {"unused", "connecting", "open", "closing"}]
        /\ IsOpen(ws) => UNCHANGED <<ws, ready>>
        /\ IsOpen(ws)' => IsOpen(ws)
        /\ \A s \in Sockets : ready'[s] = "open" <=> ready[s] = "open"
        /\ OneInUse'
    BY <1>1, ConnectKeeps DEF Subscribe
  <2>2. UNCHANGED <<timer, hub, subs, relay, faults>> /\ handlers' = handlers \cup {t}
    BY <1>1 DEF Subscribe, hubVars
  <2>3. toHub' \in [Sockets -> Seq(Frames)] /\ AuthNamesNoTopic' /\ WillAgree'
    <3>1. CASE t \in handlers
      <4>1. toHub' = toHub /\ handlers' = handlers
        BY <1>1, <2>2, <3>1 DEF Subscribe
      <4> QED
        BY <2>1, <2>2, <4>1 DEF TypeOK, AuthNamesNoTopic, WillAgree
    <3>2. CASE t \notin handlers
      <4>1. Send(<<Frame("subscribe", {t})>>)
        BY <1>1, <3>2 DEF Subscribe
      <4>2. UNCHANGED hubVars
        BY <1>1 DEF Subscribe
      <4>3. handlers' = IF "subscribe" = "subscribe" THEN handlers \cup {t} ELSE handlers \ {t}
        BY <2>2
      <4> QED
        BY <2>1, <4>1, <4>2, <4>3, SendKeepsAgreement
    <3> QED
      BY <3>1, <3>2
  <2>4. OnlyOpenTalk'
    <3>1. \A s \in Sockets : ready[s] # "open" => toHub'[s] = toHub[s]
      BY <1>1 DEF Subscribe, Send, IsOpen, TypeOK
    <3> QED
      BY <2>1, <2>2, <3>1 DEF OnlyOpenTalk
  <2>5. TypeOK'
    BY <2>1, <2>2, <2>3 DEF TypeOK
  <2> QED
    BY <2>1, <2>3, <2>4, <2>5
<1>2. ASSUME NEW t \in Topics, Unsubscribe(t) PROVE IInv'
  <2>1. /\ Send(<<Frame("unsubscribe", {t})>>)
        /\ UNCHANGED <<ws, ready, timer, hub, subs, relay, faults, replaced>>
        /\ UNCHANGED hubVars /\ handlers' = handlers \ {t}
    BY <1>2 DEF Unsubscribe, hubVars
  <2>2. handlers' = IF "unsubscribe" = "subscribe" THEN handlers \cup {t} ELSE handlers \ {t}
    BY <2>1
  <2>3. IsOpen(ws)' => IsOpen(ws)
    BY <2>1 DEF IsOpen
  <2>4. toHub' \in [Sockets -> Seq(Frames)] /\ AuthNamesNoTopic' /\ WillAgree'
    BY <2>1, <2>2, <2>3, SendKeepsAgreement
  <2>5. OnlyOpenTalk'
    <3>1. \A s \in Sockets : ready[s] # "open" => toHub'[s] = toHub[s]
      BY <2>1 DEF Send, IsOpen, TypeOK
    <3> QED
      BY <2>1, <3>1 DEF OnlyOpenTalk
  <2>6. TypeOK' /\ OneInUse'
    BY <2>1, <2>4 DEF TypeOK, OneInUse
  <2> QED
    BY <2>4, <2>5, <2>6
<1>3. ASSUME NEW s \in Sockets, OnOpen(s) PROVE IInv'
  <2> DEFINE auth == Frame("auth", {})
             wanted == Frame("subscribe", handlers)
  <2>1. auth \in Frames /\ wanted \in Frames
    BY DEF Frame, Frames, TypeOK
  <2>2. /\ ready[s] = "connecting" /\ ready' = [ready EXCEPT ![s] = "open"]
        /\ hub' = [hub EXCEPT ![s] = "auth"]
        /\ UNCHANGED <<handlers, ws, timer, subs, relay, faults, replaced>>
    BY <1>3 DEF OnOpen
  <2>3. toHub \in [Sockets -> Seq(Frames)] /\ ws \in Sockets \cup {NoSocket}
    BY DEF TypeOK
  <2>4. hub[s] = "none" /\ toHub[s] = <<>> /\ subs[s] = {} /\ relay[s] = "none"
    BY <2>2 DEF OnlyOpenTalk, TypeOK
  <2> DEFINE greeted == IF handlers = {} THEN toHub[ws] \o <<auth>>
                        ELSE (toHub[ws] \o <<auth>>) \o <<wanted>>
  <2>5. CASE ws = s \/ IsOpen(ws)
    <3>1. ws \in Sockets
      BY <2>5, <2>3 DEF IsOpen
    <3>2. toHub[ws] \in Seq(Frames)
      BY <2>3, <3>1
    <3>3. toHub' = [toHub EXCEPT ![ws] = greeted]
      <4>1. toHub[ws] \o <<auth>> \o <<>> = toHub[ws] \o <<auth>>
        BY <2>1, <3>2
      <4> QED
        BY <1>3, <2>5, <4>1 DEF OnOpen
    <3>4. greeted \in Seq(Frames)
      BY <2>1, <3>2
    <3> HIDE DEF greeted
    <3>5. toHub' \in [Sockets -> Seq(Frames)] /\ toHub'[ws] = greeted
          /\ \A d \in Sockets \ {ws} : toHub'[d] = toHub[d]
      BY <2>3, <3>1, <3>3, <3>4
    <3>6. TypeOK'
      BY <2>2, <2>4, <3>5 DEF TypeOK
    <3>7. OnlyOpenTalk' /\ OneInUse'
      BY <2>2, <2>5, <3>5 DEF TypeOK, OnlyOpenTalk, OneInUse, IsOpen
    <3>8. AuthNamesNoTopic'
      <4> SUFFICES ASSUME NEW d \in Sockets, NEW i \in 1..Len(toHub'[d]), toHub'[d][i].op = "auth"
                   PROVE  toHub'[d][i].topics = {}
        BY DEF AuthNamesNoTopic
      <4>1. CASE d # ws
        BY <3>5, <4>1 DEF AuthNamesNoTopic
      <4>2. CASE d = ws
        <5>1. \/ i \in 1..Len(toHub[ws]) /\ toHub'[d][i] = toHub[ws][i]
              \/ toHub'[d][i] = auth \/ toHub'[d][i] = wanted
          <6> DEFINE middle == toHub[ws] \o <<auth>>
          <6> HIDE DEF auth, wanted
          <6>1. /\ middle \in Seq(Frames)
                /\ \A k \in 1..Len(middle) :
                     (k \in 1..Len(toHub[ws]) /\ middle[k] = toHub[ws][k]) \/ middle[k] = auth
            BY <2>1, <3>2
          <6>2. greeted = middle \/ greeted = middle \o <<wanted>>
            BY DEF greeted
          <6> HIDE DEF middle
          <6>3. greeted = middle \o <<wanted>> =>
                  \A k \in 1..Len(greeted) :
                    (k \in 1..Len(middle) /\ greeted[k] = middle[k]) \/ greeted[k] = wanted
            BY <2>1, <6>1
          <6>4. i \in 1..Len(greeted) /\ toHub'[d][i] = greeted[i]
            BY <3>5, <4>2
          <6> QED
            BY <6>1, <6>2, <6>3, <6>4
        <5> QED
          BY <3>1, <4>2, <5>1 DEF AuthNamesNoTopic, Frame
      <4> QED
        BY <4>1, <4>2
    <3>9. WillAgree'
      <4>1. hub'[ws] # "none"
        BY <2>2, <2>5, <3>1 DEF TypeOK, WillAgree
      <4>2. hub'[ws] = "auth" => toHub'[ws] # <<>> /\ Head(toHub'[ws]).op = "auth"
        <5>1. CASE toHub[ws] = <<>>
          <6>1. greeted # <<>> /\ Head(greeted) = auth
            <7> HIDE DEF auth, wanted
            <7> QED
              BY <2>1, <5>1 DEF greeted
          <6> QED
            BY <3>5, <6>1 DEF Frame
        <5>2. CASE toHub[ws] # <<>>
          <6>1. ws # s /\ hub'[ws] = hub[ws]
            BY <2>2, <2>4, <3>1, <5>2 DEF TypeOK
          <6>2. greeted # <<>> /\ Head(greeted) = Head(toHub[ws])
            <7> HIDE DEF auth, wanted
            <7> QED
              BY <2>1, <3>2, <5>2 DEF greeted
          <6> QED
            BY <2>5, <3>5, <6>1, <6>2 DEF WillAgree
        <5> QED
          BY <5>1, <5>2
      <4>3. ASSUME NEW t \in Topics PROVE Settles(greeted, subs[ws], t) <=> t \in handlers
        <5>1. Settles(toHub[ws] \o <<auth>>, subs[ws], t) <=> Settles(toHub[ws], subs[ws], t)
          <6>1. t \notin auth.topics
            BY DEF Frame
          <6> HIDE DEF auth
          <6> QED
            BY <2>1, <3>2, <6>1, SentFrameDecides
        <5>2. CASE handlers # {}
          <6>1. toHub[ws] \o <<auth>> \in Seq(Frames)
            BY <2>1, <3>2
          <6>2. wanted.topics = handlers /\ wanted.op = "subscribe"
            BY DEF Frame
          <6> HIDE DEF auth, wanted
          <6>3. Settles((toHub[ws] \o <<auth>>) \o <<wanted>>, subs[ws], t)
                  <=> IF t \in wanted.topics THEN wanted.op = "subscribe"
                      ELSE Settles(toHub[ws] \o <<auth>>, subs[ws], t)
            BY <2>1, <6>1, SentFrameDecides
          <6>4. t \notin handlers => ~Settles(toHub[ws], subs[ws], t)
            <7>1. CASE ws = s
              <8>1. Len(toHub[ws]) = 0 /\ subs[ws] = {}
                BY <2>4, <7>1
              <8> QED
                BY <8>1 DEF Settles
            <7>2. CASE ws # s
              BY <2>5, <7>2 DEF WillAgree
            <7> QED
              BY <7>1, <7>2
          <6> QED
            BY <5>1, <5>2, <6>2, <6>3, <6>4 DEF greeted
        <5>3. CASE handlers = {}
          <6>1. ~Settles(toHub[ws], subs[ws], t)
            <7>1. CASE ws = s
              <8>1. Len(toHub[ws]) = 0 /\ subs[ws] = {}
                BY <2>4, <7>1
              <8> QED
                BY <8>1 DEF Settles
            <7>2. CASE ws # s
              BY <2>5, <5>3, <7>2 DEF WillAgree
            <7> QED
              BY <7>1, <7>2
          <6> HIDE DEF auth, wanted
          <6> QED
            BY <5>1, <5>3, <6>1 DEF greeted
        <5> QED
          BY <5>2, <5>3
      <4> QED
        BY <2>2, <3>5, <4>1, <4>2, <4>3 DEF WillAgree
    <3> QED
      BY <3>6, <3>7, <3>8, <3>9
  <2>6. CASE ~(ws = s \/ IsOpen(ws))
    <3>1. toHub' = toHub
      BY <1>3, <2>6 DEF OnOpen
    <3>2. TypeOK'
      BY <2>2, <2>4, <3>1 DEF TypeOK
    <3>3. OnlyOpenTalk' /\ OneInUse' /\ AuthNamesNoTopic'
      BY <2>2, <3>1 DEF TypeOK, OnlyOpenTalk, OneInUse, AuthNamesNoTopic
    <3>4. WillAgree'
      <4>1. ~IsOpen(ws)'
        BY <2>2, <2>3, <2>6 DEF IsOpen, TypeOK
      <4> QED
        BY <4>1 DEF WillAgree
    <3> QED
      BY <3>2, <3>3, <3>4
  <2> QED
    BY <2>5, <2>6
<1>4. ASSUME NEW s \in Sockets, OnClose(s) PROVE IInv'
  <2>1. /\ ready[s] = "closing" /\ ready' = [ready EXCEPT ![s] = "unused"] /\ ws' = NoSocket
        /\ timer' = TRUE /\ UNCHANGED <<handlers, toHub, hub, subs, relay, replaced>>
        /\ faults' \in 0..MaxFaults
    BY <1>4 DEF OnClose, Forgets, hubVars, Fault, TypeOK
  <2> QED
    BY <2>1 DEF TypeOK, OnlyOpenTalk, OneInUse, AuthNamesNoTopic, WillAgree, IsOpen
<1>5. CASE Reconnect
  <2>1. /\ ws' \in Sockets \cup {NoSocket} /\ replaced' \in BOOLEAN
        /\ ready' \in [Sockets -> {"unused", "connecting", "open", "closing"}]
        /\ IsOpen(ws) => UNCHANGED <<ws, ready>>
        /\ IsOpen(ws)' => IsOpen(ws)
        /\ \A s \in Sockets : ready'[s] = "open" <=> ready[s] = "open"
        /\ OneInUse'
    BY <1>5, ConnectKeeps DEF Reconnect
  <2>2. timer' = FALSE /\ UNCHANGED <<handlers, toHub, hub, subs, relay, faults>>
    BY <1>5 DEF Reconnect, hubVars
  <2>3. TypeOK' /\ OnlyOpenTalk' /\ AuthNamesNoTopic'
    BY <2>1, <2>2 DEF TypeOK, OnlyOpenTalk, AuthNamesNoTopic
  <2>4. WillAgree'
    BY <2>1, <2>2 DEF WillAgree
  <2> QED
    BY <2>1, <2>3, <2>4
<1>6. ASSUME NEW s \in Sockets, Lost(s) PROVE IInv'
  <2>1. faults' \in 0..MaxFaults
    BY <1>6 DEF Lost, Fault, TypeOK
  <2> QED
    BY <1>6, <2>1, EndKeeps DEF Lost
<1>7. ASSUME NEW s \in Sockets, AuthTimesOut(s) PROVE IInv'
  <2>1. faults' \in 0..MaxFaults /\ ready[s] = "open" /\ Ends(s)
    BY <1>7 DEF AuthTimesOut, TypeOK, OnlyOpenTalk
  <2> QED
    BY <2>1, EndKeeps
<1>8. ASSUME NEW s \in Sockets, HubAuth(s) PROVE IInv'
  <2>1. /\ hub[s] # "none" /\ Received(s, "auth")
        /\ hub' = [hub EXCEPT ![s] = "ops"] /\ UNCHANGED <<subs, relay>>
    BY <1>8 DEF HubAuth
  <2>2. Next1(s).op = "auth" /\ Next1(s).topics = {}
    <3>1. toHub[s] # <<>> /\ Next1(s).op = "auth" /\ toHub[s] \in Seq(Frames)
      BY <2>1 DEF Received, TypeOK
    <3>2. 1 \in 1..Len(toHub[s]) /\ Next1(s) = toHub[s][1]
      BY <3>1 DEF Next1
    <3> QED
      BY <3>1, <3>2 DEF AuthNamesNoTopic
  <2>3. /\ hub' \in [Sockets -> {"none", "auth", "ops"}] /\ hub'[s] = "ops"
        /\ \A d \in Sockets \ {s} : hub'[d] = hub[d] /\ subs'[d] = subs[d] /\ relay'[d] = relay[d]
        /\ subs' \in [Sockets -> SUBSET Topics] /\ relay' \in [Sockets -> {"none", "running", "ended"}]
    BY <2>1 DEF TypeOK
  <2>4. \A t \in Topics : t \in subs'[s] <=> IF t \in Next1(s).topics THEN "auth" = "subscribe"
                                            ELSE t \in subs[s]
    BY <2>1, <2>2
  <2> QED
    BY <2>1, <2>3, <2>4, ReadingKeeps
<1>9. ASSUME NEW s \in Sockets, HubSubscribe(s) PROVE IInv'
  <2>1. /\ hub[s] = "ops" /\ Received(s, "subscribe")
        /\ subs' = [subs EXCEPT ![s] = @ \cup Next1(s).topics]
        /\ relay' = [relay EXCEPT ![s] = IF @ = "none" THEN "running" ELSE @] /\ hub' = hub
    BY <1>9 DEF HubSubscribe
  <2>2. Next1(s).topics \subseteq Topics
    <3>1. toHub[s] # <<>> /\ toHub[s] \in Seq(Frames)
      BY <2>1 DEF Received, TypeOK
    <3>2. Next1(s) \in Frames
      BY <3>1 DEF Next1
    <3> QED
      BY <3>2 DEF Frames
  <2>3. /\ hub' \in [Sockets -> {"none", "auth", "ops"}] /\ hub'[s] = "ops"
        /\ \A d \in Sockets \ {s} : hub'[d] = hub[d] /\ subs'[d] = subs[d] /\ relay'[d] = relay[d]
        /\ subs' \in [Sockets -> SUBSET Topics] /\ relay' \in [Sockets -> {"none", "running", "ended"}]
    BY <2>1, <2>2 DEF TypeOK
  <2>4. \A t \in Topics : t \in subs'[s] <=> IF t \in Next1(s).topics THEN "subscribe" = "subscribe"
                                            ELSE t \in subs[s]
    BY <2>1 DEF TypeOK
  <2> QED
    BY <2>1, <2>3, <2>4, ReadingKeeps
<1>10. ASSUME NEW s \in Sockets, HubUnsubscribe(s) PROVE IInv'
  <2>1. /\ hub[s] = "ops" /\ Received(s, "unsubscribe")
        /\ subs' = [subs EXCEPT ![s] = @ \ Next1(s).topics] /\ UNCHANGED <<hub, relay>>
    BY <1>10 DEF HubUnsubscribe
  <2>2. /\ hub' \in [Sockets -> {"none", "auth", "ops"}] /\ hub'[s] = "ops"
        /\ \A d \in Sockets \ {s} : hub'[d] = hub[d] /\ subs'[d] = subs[d] /\ relay'[d] = relay[d]
        /\ subs' \in [Sockets -> SUBSET Topics] /\ relay' \in [Sockets -> {"none", "running", "ended"}]
    BY <2>1 DEF TypeOK
  <2>3. \A t \in Topics : t \in subs'[s] <=> IF t \in Next1(s).topics THEN "unsubscribe" = "subscribe"
                                            ELSE t \in subs[s]
    BY <2>1 DEF TypeOK
  <2> QED
    BY <2>1, <2>2, <2>3, ReadingKeeps
<1>11. ASSUME NEW s \in Sockets, RelayEnds(s) \/ RelayFails(s) PROVE IInv'
  <2>1. /\ relay[s] = "running" /\ relay' = [relay EXCEPT ![s] = "ended"] /\ faults' \in 0..MaxFaults
        /\ UNCHANGED <<handlers, ws, ready, timer, toHub, hub, subs, replaced>>
    BY <1>11 DEF RelayEnds, RelayFails, Fault, TypeOK
  <2>2. hub[s] = "ops"
    BY <2>1 DEF TypeOK
  <2> QED
    BY <2>1, <2>2 DEF TypeOK, OnlyOpenTalk, OneInUse, AuthNamesNoTopic, WillAgree, IsOpen
<1>12. CASE UNCHANGED vars
  BY <1>12 DEF vars, hubVars, TypeOK, OnlyOpenTalk, OneInUse, AuthNamesNoTopic, WillAgree, IsOpen
<1> QED
  BY <1>1, <1>2, <1>3, <1>4, <1>5, <1>6, <1>7, <1>8, <1>9, <1>10, <1>11, <1>12
  DEF Next, Browser, HubStep

-----------------------------------------------------------------------------
(* Theorems                                                                *)

(* The invariant holds in every state.                                     *)
LEMMA Invariance == Spec => []IInv
  BY InitIInv, StepIInv, PTL DEF Spec

(* Type correctness of the manager, its sockets and the hub; nothing is    *)
(* left in the hub of a connection that has ended.                         *)
THEOREM FeedTypeCorrect == Spec => []TypeOK
<1>1. IInv => TypeOK
  BY DEF IInv
<1> QED
  BY <1>1, Invariance, PTL

(* Unless a socket was replaced before its close event, no other socket is *)
(* connecting or open besides the manager's.                               *)
THEOREM ConnectionIsSingle == Spec => []SingleConnection
<1>1. IInv => SingleConnection
  BY DEF IInv, OneInUse, SingleConnection
<1> QED
  BY <1>1, Invariance, PTL

(* Once the hub has read all that was sent to it, it is subscribed to what *)
(* the page wants, after any changes of mind, losses and reconnections.    *)
THEOREM HubWillAgree == Spec => []HubAgrees
<1>1. IInv => HubAgrees
  <2> SUFFICES ASSUME IInv, IsOpen(ws), hub[ws] = "ops", toHub[ws] = <<>>
               PROVE  subs[ws] = handlers
    BY DEF HubAgrees
  <2>1. ws \in Sockets /\ subs[ws] \subseteq Topics /\ handlers \subseteq Topics
    BY DEF IInv, TypeOK, IsOpen
  <2>2. Len(toHub[ws]) = 0
    OBVIOUS
  <2>3. \A t \in Topics : t \in subs[ws] <=> t \in handlers
    BY <2>2 DEF IInv, WillAgree, Settles
  <2> QED
    BY <2>1, <2>3
<1> QED
  BY <1>1, Invariance, PTL

=============================================================================
