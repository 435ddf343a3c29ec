-------------------------- MODULE ClientConnection --------------------------
(***************************************************************************)
(* KkClient's connection: Connect, ConnectAsync, Disconnect, and the       *)
(* threads that its RmClient_OnDisconnected handler starts to reconnect.   *)
(* They share _explicitDisconnect, which is neither locked nor volatile    *)
(* (modelled as read and written in order).                                *)
(*                                                                         *)
(* RmClient is external: Connect connects or throws and raises OnConnected *)
(* on the thread that called it, a lost connection raises OnDisconnected   *)
(* on another thread, Connect and Disconnect do nothing when there is      *)
(* nothing to do.                                                          *)
(***************************************************************************)
EXTENDS Naturals, FiniteSets

CONSTANTS
  Application,   \* the thread that calls Connect and Disconnect
  Reconnectors,  \* names of the threads started by RmClient_OnDisconnected
  Connectors,    \* names of the threads started by ConnectAsync
  Registered,    \* KkClient() registers the handlers, KkClient(configuration) does not
  AutoReconnect,
  MaxDrops,      \* bound: how often a connection is lost or the server stops
  MaxRaised      \* bound: events not yet handled when Disconnect is called

ASSUME ThreadsAssumption ==
  Application \notin Reconnectors \cup Connectors /\ Reconnectors \cap Connectors = {}
ASSUME OptionsAssumption == {Registered, AutoReconnect} \subseteq BOOLEAN /\ {MaxDrops, MaxRaised} \subseteq Nat

VARIABLES
  server,     \* "up" or "down"
  connected,  \* _rmClient.IsConnected
  explicit,   \* _explicitDisconnect
  target,     \* whether _lastReconnectHost or _lastReconnectIpAddress is set
  pc,         \* per thread: "none", or where it is in its loop or call
  raised,     \* OnDisconnected events not yet handled
  wish,       \* history: what the application asked for last and, if that was
              \* to be connected, whether it was: "none", "connected", "disconnected"
  drops       \* history: how many connections were lost and stops there were

vars == <<server, connected, explicit, target, pc, raised, wish, drops>>

Threads == {Application} \cup Reconnectors \cup Connectors

Init ==
  /\ server = "up"
  /\ connected = FALSE
  /\ explicit = FALSE
  /\ target = FALSE
  /\ pc = [x \in Threads |-> "none"]
  /\ raised = 0
  /\ wish = "none"
  /\ drops = 0

Goto(x, l) == pc' = [pc EXCEPT ![x] = l]
-----------------------------------------------------------------------------
\* ConnectAsync starts a thread.
ConnectAsync(x) ==
  /\ pc[Application] = "none" /\ pc[x] = "none"
  /\ wish' = "none"
  /\ Goto(x, "check")
  /\ UNCHANGED <<server, connected, explicit, target, raised, drops>>

\* Its loop condition.
CheckConnector(x) ==
  /\ pc[x] = "check"
  /\ Goto(x, IF explicit THEN "none" ELSE "connect")
  /\ UNCHANGED <<server, connected, explicit, target, raised, wish, drops>>

\* The application calls Connect.
CallConnect ==
  /\ pc[Application] = "none"
  /\ wish' = "none"
  /\ Goto(Application, "connect")
  /\ UNCHANGED <<server, connected, explicit, target, raised, drops>>

\* Connect, up to the call of RmClient.Connect.
BeginConnect(x) ==
  /\ pc[x] = "connect"
  /\ target' = TRUE
  /\ explicit' = FALSE
  /\ Goto(x, "dial")
  /\ UNCHANGED <<server, connected, raised, wish, drops>>

\* Mutant: whoever connected tries again.
TriesAgain(x) == "sleep"

AfterConnect(x) == IF x \in Reconnectors THEN "sleep" ELSE "none"

\* Mutant: a thread that cannot connect gives up.
GivesUp(x) == "none"

AfterFailure(x) ==
  IF x \in Reconnectors \/ (x \in Connectors /\ AutoReconnect) THEN "sleep" ELSE "none"

\* RmClient.Connect finds a connection; makes one; throws.
DialConnected(x) ==
  /\ pc[x] = "dial" /\ connected
  /\ Goto(x, AfterConnect(x))
  /\ UNCHANGED <<server, connected, explicit, target, raised, wish, drops>>
Dial(x) ==
  /\ pc[x] = "dial" /\ ~connected /\ server = "up"
  /\ connected' = TRUE
  /\ Goto(x, "connected")
  /\ UNCHANGED <<server, explicit, target, raised, wish, drops>>
DialFails(x) ==
  /\ pc[x] = "dial" /\ ~connected /\ server = "down"
  /\ Goto(x, AfterFailure(x))
  /\ UNCHANGED <<server, connected, explicit, target, raised, wish, drops>>

\* RmClient_OnConnected.
OnConnected(x) ==
  /\ pc[x] = "connected"
  /\ explicit' = IF Registered THEN FALSE ELSE explicit
  /\ wish' = IF wish = "none" /\ connected THEN "connected" ELSE wish
  /\ Goto(x, AfterConnect(x))
  /\ UNCHANGED <<server, connected, target, raised, drops>>

Wake(x) ==
  /\ pc[x] = "sleep"
  /\ Goto(x, "check")
  /\ UNCHANGED <<server, connected, explicit, target, raised, wish, drops>>
-----------------------------------------------------------------------------
\* Disconnect: the flag, then the connection.
CallDisconnect ==
  /\ pc[Application] = "none" /\ raised <= MaxRaised
  /\ wish' = "disconnected"
  /\ explicit' = TRUE
  /\ Goto(Application, "disconnect")
  /\ UNCHANGED <<server, connected, target, raised, drops>>
Disconnect ==
  /\ pc[Application] = "disconnect"
  /\ connected' = FALSE
  /\ raised' = IF connected /\ Registered THEN raised + 1 ELSE raised
  /\ Goto(Application, "none")
  /\ UNCHANGED <<server, explicit, target, wish, drops>>

\* RmClient_OnDisconnected.
OnDisconnected ==
  /\ raised > 0
  /\ raised' = raised - 1
  /\ IF ~explicit /\ AutoReconnect
     THEN \E x \in Reconnectors : pc[x] = "none" /\ Goto(x, "check")
     ELSE UNCHANGED pc
  /\ UNCHANGED <<server, connected, explicit, target, wish, drops>>

\* Mutant: the thread does not look at the flag again.
MayReconnectAnyway == ~connected /\ target

MayReconnect == ~explicit /\ ~connected /\ target

\* The loop condition of a reconnecting thread.
CheckReconnector(x) ==
  /\ pc[x] = "check"
  /\ Goto(x, IF MayReconnect THEN "dial" ELSE "none")
  /\ UNCHANGED <<server, connected, explicit, target, raised, wish, drops>>

\* The connection is lost; the server stops, and with it the connection.
Lose ==
  /\ connected /\ drops < MaxDrops
  /\ connected' = FALSE
  /\ raised' = IF Registered THEN raised + 1 ELSE raised
  /\ drops' = drops + 1
  /\ server' \in {"up", "down"}
  /\ UNCHANGED <<explicit, target, pc, wish>>
ServerStops ==
  /\ ~connected /\ server = "up" /\ drops < MaxDrops
  /\ server' = "down"
  /\ drops' = drops + 1
  /\ UNCHANGED <<connected, explicit, target, pc, raised, wish>>
ServerStarts ==
  /\ server = "down"
  /\ server' = "up"
  /\ UNCHANGED <<connected, explicit, target, pc, raised, wish, drops>>

Step(x) ==
  \/ BeginConnect(x) \/ DialConnected(x) \/ Dial(x) \/ DialFails(x) \/ OnConnected(x) \/ Wake(x)
  \/ x \in Connectors /\ CheckConnector(x)
  \/ x \in Reconnectors /\ CheckReconnector(x)
  \/ x = Application /\ Disconnect

Next ==
  \/ \E x \in Threads : Step(x)
  \/ \E x \in Connectors : ConnectAsync(x)
  \/ CallConnect \/ CallDisconnect \/ OnDisconnected
  \/ Lose \/ ServerStops \/ ServerStarts

Spec == Init /\ [][Next]_vars

\* Threads run, events are handled, and a server that stopped is started again
\* (MaxDrops lets it stay up in the end). The application need not do anything.
Fairness ==
  /\ \A x \in Threads : WF_vars(Step(x))
  /\ WF_vars(OnDisconnected)
  /\ WF_vars(ServerStarts)
FairSpec == Spec /\ Fairness
-----------------------------------------------------------------------------
TypeOK ==
  /\ server \in {"up", "down"}
  /\ {connected, explicit, target} \subseteq BOOLEAN
  /\ pc \in [Threads -> {"none", "check", "connect", "dial", "connected", "sleep", "disconnect"}]
  /\ pc[Application] \notin {"check", "sleep"}
  /\ raised \in 0..(MaxDrops + MaxRaised + 1)
  /\ wish \in {"none", "connected", "disconnected"}
  /\ drops \in 0..MaxDrops

\* A thread between its look at the flag and the end of its attempt.
Attempting(x) == pc[x] \in {"connect", "dial", "connected"}

\* Once Disconnect has returned and no attempt to connect is under way, the
\* client stays disconnected until the application connects again, whatever
\* events and sleeping threads are left.
Settled ==
  /\ wish = "disconnected" /\ pc[Application] = "none"
  /\ explicit /\ ~connected
  /\ \A x \in Threads : ~Attempting(x)
DisconnectSticks ==
  [][Settled /\ wish' = "disconnected" => Settled' \/ pc'[Application] = "disconnect"]_vars

\* "Disconnects the client from the key-store server."
StaysDisconnected ==
  wish = "disconnected" /\ pc[Application] = "none" => ~connected

\* "attempt to reconnect when unexpectedly disconnected": a client that was
\* connected is connected again, unless the application asks for something else.
Reconnects == (wish = "connected" /\ ~connected) ~> (connected \/ wish # "connected")
=============================================================================
