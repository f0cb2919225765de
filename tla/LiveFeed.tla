------------------------------ MODULE LiveFeed ------------------------------
(***************************************************************************)
(* Live data on its way to a page: WsManager in the browser                *)
(* (frontend/src/ws/manager.ts) with its connections to the relay hub      *)
(* (backend/app/api/ws.py), which subscribes to Redis topics for it.       *)
(*                                                                         *)
(* The manager means to keep a single connection.  A socket that the       *)
(* server closes is CLOSING for a while before its close event; connect    *)
(* already replaces it then, and the event of the old socket finds the new *)
(* one in this.ws.                                                         *)
(*                                                                         *)
(* Pages hold far fewer than the hub's MAX_TOPICS topics, which is left    *)
(* out; so are ping, which the manager never sends, and close and the      *)
(* status listeners, which change no connection in the program.            *)
(***************************************************************************)
EXTENDS Integers, Sequences, FiniteSets

CONSTANTS Sockets, Topics, NoSocket,
  MaxFrames,   \* how far the page may run ahead of the hub, in frames
  MaxFaults    \* how often a connection is lost, a relay task fails, or a
               \* socket's end falls into the making of another connection

ASSUME FeedAssumption == NoSocket \notin Sockets /\ MaxFaults \in Nat /\ MaxFrames \in Nat

VARIABLES
  handlers,  \* topics with a handler in the manager
  ws,        \* this.ws
  ready,     \* readyState of every socket, or "unused"
  timer,     \* reconnectTimer is set
  toHub,     \* frames under way from a socket to the hub
  hub,       \* what ws_hub waits for on it: the "auth" frame, or "ops"
  subs,      \* subscribed, in the hub
  relay,     \* relay_task: "none", "running" or "ended"
  faults,
  replaced   \* history variable: a socket was replaced before its close event

hubVars == <<hub, subs, relay>>
vars == <<handlers, ws, ready, timer, toHub, hubVars, faults, replaced>>

Frames == [op : {"auth", "subscribe", "unsubscribe"}, topics : SUBSET Topics]
Frame(op, topics) == [op |-> op, topics |-> topics]

TypeOK ==
  /\ handlers \subseteq Topics
  /\ ws \in Sockets \cup {NoSocket}
  /\ ready \in [Sockets -> {"unused", "connecting", "open", "closing"}]
  /\ timer \in BOOLEAN /\ replaced \in BOOLEAN
  /\ toHub \in [Sockets -> Seq(Frames)]
  /\ hub \in [Sockets -> {"none", "auth", "ops"}]
  /\ subs \in [Sockets -> SUBSET Topics]
  /\ relay \in [Sockets -> {"none", "running", "ended"}]
  /\ faults \in 0..MaxFaults
  /\ \A s \in Sockets : hub[s] # "ops" => subs[s] = {} /\ relay[s] = "none"

Init ==
  /\ handlers = {} /\ ws = NoSocket /\ timer = FALSE
  /\ ready = [s \in Sockets |-> "unused"]
  /\ toHub = [s \in Sockets |-> <<>>]
  /\ hub = [s \in Sockets |-> "none"]
  /\ subs = [s \in Sockets |-> {}]
  /\ relay = [s \in Sockets |-> "none"]
  /\ faults = 0 /\ replaced = FALSE

Fault == faults < MaxFaults /\ faults' = faults + 1

-----------------------------------------------------------------------------
(* The manager                                                             *)

IsOpen(s) == s # NoSocket /\ ready[s] = "open"

(* this.ws?.send: frames go to the manager's socket, whichever that is.    *)
Send(frames) == toHub' = IF IsOpen(ws) THEN [toHub EXCEPT ![ws] = @ \o frames] ELSE toHub

(* connect: the socket is kept while it is connecting or open.             *)
ReplacesOpen == ws = NoSocket \/ ready[ws] \in {"open", "closing"}
Replaces == ws = NoSocket \/ ready[ws] = "closing"
NewSocket == CHOOSE s \in Sockets : ready[s] = "unused"
Connect ==
  IF Replaces
  THEN /\ \E s \in Sockets : ready[s] = "unused"
       /\ ws' = NewSocket
       /\ ready' = [ready EXCEPT ![NewSocket] = "connecting"]
       /\ replaced' = (replaced \/ (ws # NoSocket /\ ready[ws] = "closing"))
  ELSE UNCHANGED <<ws, ready, replaced>>

InStep == IsOpen(ws) => Len(toHub[ws]) < MaxFrames

(* A page asks for a topic, or for one that another part of it has.        *)
Subscribe(t) ==
  /\ InStep
  /\ handlers' = handlers \cup {t}
  /\ IF t \in handlers THEN UNCHANGED toHub ELSE Send(<<Frame("subscribe", {t})>>)
  /\ Connect
  /\ UNCHANGED <<timer, hubVars, faults>>

(* The last handler of a topic goes.                                       *)
KeepsHubSubscribed(t) ==
  /\ t \in handlers
  /\ handlers' = handlers \ {t}
  /\ UNCHANGED <<ws, ready, timer, toHub, hubVars, faults, replaced>>
Unsubscribe(t) ==
  /\ InStep
  /\ t \in handlers
  /\ handlers' = handlers \ {t}
  /\ Send(<<Frame("unsubscribe", {t})>>)
  /\ UNCHANGED <<ws, ready, timer, hubVars, faults, replaced>>

(* onopen authenticates and asks for every topic, over this.ws; the hub    *)
(* has accepted the connection and waits for the first of these frames.    *)
OnOpen(s) ==
  LET topics == IF handlers = {} THEN <<>> ELSE <<Frame("subscribe", handlers)>> IN
  /\ ready[s] = "connecting"
  /\ ready' = [ready EXCEPT ![s] = "open"]
  /\ toHub' = IF ws = s \/ IsOpen(ws)
              THEN [toHub EXCEPT ![ws] = @ \o <<Frame("auth", {})>> \o topics] ELSE toHub
  /\ hub' = [hub EXCEPT ![s] = "auth"]
  /\ UNCHANGED <<handlers, ws, timer, subs, relay, faults, replaced>>

(* onclose forgets this.ws, whichever socket that is, and sets the timer.  *)
(* That it falls into the making of the next connection counts as a fault. *)
Forgets(s) ==
  /\ ready[s] = "closing"
  /\ ready' = [ready EXCEPT ![s] = "unused"]
  /\ ws' = NoSocket
  /\ IF ws \notin {s, NoSocket} /\ ready[ws] = "connecting" THEN Fault ELSE UNCHANGED faults
  /\ UNCHANGED <<handlers, toHub, hubVars, replaced>>
NeverReconnects(s) == Forgets(s) /\ UNCHANGED timer
OnClose(s) == Forgets(s) /\ timer' = TRUE

Reconnect ==
  /\ timer
  /\ timer' = FALSE
  /\ Connect
  /\ UNCHANGED <<handlers, toHub, hubVars, faults>>

-----------------------------------------------------------------------------
(* The hub                                                                 *)

(* The connection ends: the client has not had its close event yet, and    *)
(* the hub drops what it held for it (the finally clause of ws_hub).       *)
EndsButRelays(s) ==
  /\ ready' = [ready EXCEPT ![s] = "closing"]
  /\ toHub' = [toHub EXCEPT ![s] = <<>>]
  /\ hub' = [hub EXCEPT ![s] = "none"]
  /\ UNCHANGED <<handlers, ws, timer, subs, relay, replaced>>
Ends(s) ==
  /\ ready' = [ready EXCEPT ![s] = "closing"]
  /\ toHub' = [toHub EXCEPT ![s] = <<>>]
  /\ hub' = [hub EXCEPT ![s] = "none"]
  /\ subs' = [subs EXCEPT ![s] = {}]
  /\ relay' = [relay EXCEPT ![s] = "none"]
  /\ UNCHANGED <<handlers, ws, timer, replaced>>

Lost(s) ==
  /\ ready[s] \in {"connecting", "open"}
  /\ Ends(s)
  /\ Fault

(* No first frame within AUTH_TIMEOUT_SECONDS: close code 4401.            *)
AuthTimesOut(s) ==
  /\ hub[s] = "auth" /\ toHub[s] = <<>>
  /\ Ends(s)
  /\ UNCHANGED faults

Next1(s) == Head(toHub[s])
Received(s, op) ==
  /\ toHub[s] # <<>> /\ Next1(s).op = op
  /\ toHub' = [toHub EXCEPT ![s] = Tail(@)]
  /\ UNCHANGED <<handlers, ws, ready, timer, faults, replaced>>

(* The auth frame counts when it is the first, and is ignored later.       *)
HubAuth(s) ==
  /\ hub[s] # "none"
  /\ Received(s, "auth")
  /\ hub' = [hub EXCEPT ![s] = "ops"]
  /\ UNCHANGED <<subs, relay>>

(* The relay task is made with the first topic and never again.            *)
HubSubscribe(s) ==
  /\ hub[s] = "ops"
  /\ Received(s, "subscribe")
  /\ subs' = [subs EXCEPT ![s] = @ \cup Next1(s).topics]
  /\ relay' = [relay EXCEPT ![s] = IF @ = "none" THEN "running" ELSE @]
  /\ UNCHANGED hub

HubUnsubscribe(s) ==
  /\ hub[s] = "ops"
  /\ Received(s, "unsubscribe")
  /\ subs' = [subs EXCEPT ![s] = @ \ Next1(s).topics]
  /\ UNCHANGED <<hub, relay>>

(* listen() returns once Redis has confirmed that nothing is left.         *)
RelayEnds(s) ==
  /\ relay[s] = "running" /\ subs[s] = {}
  /\ relay' = [relay EXCEPT ![s] = "ended"]
  /\ UNCHANGED <<handlers, ws, ready, timer, toHub, hub, subs, faults, replaced>>

(* Redis drops the connection: the task raises, and nobody looks at it.    *)
RelayFails(s) ==
  /\ relay[s] = "running"
  /\ relay' = [relay EXCEPT ![s] = "ended"]
  /\ Fault
  /\ UNCHANGED <<handlers, ws, ready, timer, toHub, hub, subs, replaced>>

HubStep(s) == HubAuth(s) \/ HubSubscribe(s) \/ HubUnsubscribe(s) \/ AuthTimesOut(s)
Browser(s) == OnOpen(s) \/ OnClose(s)

Next ==
  \/ \E t \in Topics : Subscribe(t) \/ Unsubscribe(t)
  \/ \E s \in Sockets : Browser(s) \/ HubStep(s) \/ Lost(s) \/ RelayEnds(s) \/ RelayFails(s)
  \/ Reconnect

(* The browser fires its events and the timer, and the hub reads on.       *)
Fairness ==
  /\ WF_vars(Reconnect)
  /\ \A s \in Sockets : WF_vars(Browser(s)) /\ WF_vars(HubStep(s))

Spec == Init /\ [][Next]_vars /\ Fairness

-----------------------------------------------------------------------------
(* Properties                                                              *)

Relayed(s, t) ==
  /\ IsOpen(s) /\ hub[s] = "ops"
  /\ t \in subs[s] /\ relay[s] = "running"

(* Once the hub has read what was sent to it, it is subscribed to exactly  *)
(* what the page wants, however the page changed its mind while the        *)
(* connection was being made, replaced or lost (manager.ts: "automatic     *)
(* resubscription").                                                       *)
HubAgrees ==
  IsOpen(ws) /\ hub[ws] = "ops" /\ toHub[ws] = <<>> => subs[ws] = handlers

(* The manager keeps a single connection (its header), and so gets every   *)
(* message once, unless it ever replaced a socket ahead of its close event.*)
SingleConnection ==
  ~replaced => \A s \in Sockets : ready[s] \in {"connecting", "open"} => s = ws

(* A topic the page keeps is relayed to it in the end, after any faults,   *)
(* unless the relay task of its connection has ended: that happens when    *)
(* the page drops every topic (logging out does) or Redis fails, and only  *)
(* a new connection brings a new one.                                      *)
FeedRestored ==
  \A t \in Topics :
    t \in handlers ~> \/ t \notin handlers
                      \/ \E s \in Sockets : Relayed(s, t)
                      \/ ws # NoSocket /\ relay[ws] = "ended"

=============================================================================
