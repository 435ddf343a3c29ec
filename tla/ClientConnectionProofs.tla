----------------------- MODULE ClientConnectionProofs -----------------------
(***************************************************************************)
(* Theorems about KkClient's connection, for any number of threads, losses *)
(* and events, with or without handlers and AutoReconnect: once a          *)
(* Disconnect has settled, no thread or event that is left over connects.  *)
(***************************************************************************)
EXTENDS ClientConnection, TLAPS

\* Events come from losses and from Disconnect, which is not called while more
\* than MaxRaised of them are to be handled.
RaisedOK ==
  /\ raised <= MaxRaised + drops + 1
  /\ pc[Application] = "disconnect" => raised <= MaxRaised + drops

\* Only the application is in Disconnect.
CallsOK == \A x \in Threads \ {Application} : pc[x] # "disconnect"

Inv == TypeOK /\ RaisedOK /\ CallsOK
-----------------------------------------------------------------------------
\* The variables that are not numbers.
PlainTypes ==
  /\ server \in {"up", "down"}
  /\ {connected, explicit, target} \subseteq BOOLEAN
  /\ pc \in [Threads -> {"none", "check", "connect", "dial", "connected", "sleep", "disconnect"}]
  /\ pc[Application] \notin {"check", "sleep"}
  /\ wish \in {"none", "connected", "disconnected"}

LEMMA Initially == Init => Inv
<1> SUFFICES ASSUME Init PROVE Inv
  OBVIOUS
<1> USE OptionsAssumption DEF Init
<1>1. Application \in Threads /\ PlainTypes
  BY DEF PlainTypes, Threads
<1>2. raised \in 0..(MaxDrops + MaxRaised + 1) /\ drops \in 0..MaxDrops
  OBVIOUS
<1>3. RaisedOK /\ CallsOK
  BY <1>1 DEF RaisedOK, CallsOK
<1> QED BY <1>1, <1>2, <1>3 DEF Inv, TypeOK, PlainTypes

\* The loop condition of ConnectAsync.
LEMMA CheckConnectorKeeps ==
  ASSUME Inv, NEW x \in Connectors, CheckConnector(x)
  PROVE  Inv'
<1> USE OptionsAssumption, ThreadsAssumption DEF Inv, Goto, Threads, CheckConnector
<1>1. TypeOK'
  BY DEF TypeOK, RaisedOK
<1>2. RaisedOK' /\ CallsOK'
  BY DEF TypeOK, RaisedOK, CallsOK
<1> QED BY <1>1, <1>2 DEF Inv

\* Connect begins,
LEMMA BeginConnectKeeps ==
  ASSUME Inv, NEW x \in Threads, BeginConnect(x)
  PROVE  Inv'
<1> USE OptionsAssumption, ThreadsAssumption DEF Inv, Goto, Threads, BeginConnect
<1>1. TypeOK'
  BY DEF TypeOK, RaisedOK
<1>2. RaisedOK' /\ CallsOK'
  BY DEF TypeOK, RaisedOK, CallsOK
<1> QED BY <1>1, <1>2 DEF Inv

\* finds a connection,
LEMMA DialConnectedKeeps ==
  ASSUME Inv, NEW x \in Threads, DialConnected(x)
  PROVE  Inv'
<1> USE OptionsAssumption, ThreadsAssumption DEF Inv, Goto, Threads, DialConnected, AfterConnect
<1>1. TypeOK'
  BY DEF TypeOK, RaisedOK
<1>2. RaisedOK' /\ CallsOK'
  BY DEF TypeOK, RaisedOK, CallsOK
<1> QED BY <1>1, <1>2 DEF Inv

\* makes one,
LEMMA DialKeeps ==
  ASSUME Inv, NEW x \in Threads, Dial(x)
  PROVE  Inv'
<1> USE OptionsAssumption, ThreadsAssumption DEF Inv, Goto, Threads, Dial
<1>1. TypeOK'
  BY DEF TypeOK, RaisedOK
<1>2. RaisedOK' /\ CallsOK'
  BY DEF TypeOK, RaisedOK, CallsOK
<1> QED BY <1>1, <1>2 DEF Inv

\* or cannot.
LEMMA DialFailsKeeps ==
  ASSUME Inv, NEW x \in Threads, DialFails(x)
  PROVE  Inv'
<1> USE OptionsAssumption, ThreadsAssumption DEF Inv, Goto, Threads, DialFails, AfterFailure
<1>1. TypeOK'
  BY DEF TypeOK, RaisedOK
<1>2. RaisedOK' /\ CallsOK'
  BY DEF TypeOK, RaisedOK, CallsOK
<1> QED BY <1>1, <1>2 DEF Inv

\* The connection is announced.
LEMMA OnConnectedKeeps ==
  ASSUME Inv, NEW x \in Threads, OnConnected(x)
  PROVE  Inv'
<1> USE OptionsAssumption, ThreadsAssumption DEF Inv, Goto, Threads, OnConnected, AfterConnect
<1>1. TypeOK'
  BY DEF TypeOK, RaisedOK
<1>2. RaisedOK' /\ CallsOK'
  BY DEF TypeOK, RaisedOK, CallsOK
<1> QED BY <1>1, <1>2 DEF Inv

\* A thread has slept.
LEMMA WakeKeeps ==
  ASSUME Inv, NEW x \in Threads, Wake(x)
  PROVE  Inv'
<1> USE OptionsAssumption, ThreadsAssumption DEF Inv, Goto, Threads, Wake
<1>1. TypeOK'
  BY DEF TypeOK, RaisedOK
<1>2. RaisedOK' /\ CallsOK'
  BY DEF TypeOK, RaisedOK, CallsOK
<1> QED BY <1>1, <1>2 DEF Inv

\* The loop condition of a reconnecting thread.
LEMMA CheckReconnectorKeeps ==
  ASSUME Inv, NEW x \in Reconnectors, CheckReconnector(x)
  PROVE  Inv'
<1> USE OptionsAssumption, ThreadsAssumption DEF Inv, Goto, Threads, CheckReconnector, MayReconnect
<1>1. TypeOK'
  BY DEF TypeOK, RaisedOK
<1>2. RaisedOK' /\ CallsOK'
  BY DEF TypeOK, RaisedOK, CallsOK
<1> QED BY <1>1, <1>2 DEF Inv

\* ConnectAsync starts a thread.
LEMMA ConnectAsyncKeeps ==
  ASSUME Inv, NEW x \in Connectors, ConnectAsync(x)
  PROVE  Inv'
<1> USE OptionsAssumption, ThreadsAssumption DEF Inv, Goto, Threads, ConnectAsync
<1>1. TypeOK'
  BY DEF TypeOK, RaisedOK
<1>2. RaisedOK' /\ CallsOK'
  BY DEF TypeOK, RaisedOK, CallsOK
<1> QED BY <1>1, <1>2 DEF Inv

\* The application calls Connect,
LEMMA CallConnectKeeps ==
  ASSUME Inv, CallConnect
  PROVE  Inv'
<1> USE OptionsAssumption, ThreadsAssumption DEF Inv, Goto, Threads, CallConnect
<1>1. TypeOK'
  BY DEF TypeOK, RaisedOK
<1>2. RaisedOK' /\ CallsOK'
  BY DEF TypeOK, RaisedOK, CallsOK
<1> QED BY <1>1, <1>2 DEF Inv

\* and Disconnect,
LEMMA CallDisconnectKeeps ==
  ASSUME Inv, CallDisconnect
  PROVE  Inv'
<1> USE OptionsAssumption, ThreadsAssumption DEF Inv, Goto, Threads, CallDisconnect
<1>1. TypeOK'
  BY DEF TypeOK, RaisedOK
<1>2. RaisedOK' /\ CallsOK'
  BY DEF TypeOK, RaisedOK, CallsOK
<1> QED BY <1>1, <1>2 DEF Inv

\* which ends the connection.
LEMMA DisconnectKeeps ==
  ASSUME Inv, Disconnect
  PROVE  Inv'
<1> USE OptionsAssumption, ThreadsAssumption DEF Inv, Goto, Threads, Disconnect
<1>1. TypeOK'
  <2>1. PlainTypes'
    BY DEF TypeOK, PlainTypes
  <2>2. raised' \in 0..(MaxDrops + MaxRaised + 1) /\ drops' \in 0..MaxDrops
    BY DEF TypeOK, RaisedOK
  <2> QED BY <2>1, <2>2 DEF TypeOK, PlainTypes
<1>2. RaisedOK' /\ CallsOK'
  BY DEF TypeOK, RaisedOK, CallsOK
<1> QED BY <1>1, <1>2 DEF Inv

\* The end of a connection is handled.
LEMMA OnDisconnectedKeeps ==
  ASSUME Inv, OnDisconnected
  PROVE  Inv'
<1> USE OptionsAssumption, ThreadsAssumption DEF Inv, Goto, Threads, OnDisconnected
<1>1. TypeOK'
  BY DEF TypeOK, RaisedOK
<1>2. RaisedOK' /\ CallsOK'
  BY DEF TypeOK, RaisedOK, CallsOK
<1> QED BY <1>1, <1>2 DEF Inv

\* The connection is lost,
LEMMA LoseKeeps ==
  ASSUME Inv, Lose
  PROVE  Inv'
<1> USE OptionsAssumption, ThreadsAssumption DEF Inv, Goto, Threads, Lose
<1>1. TypeOK'
  <2>1. PlainTypes'
    BY DEF TypeOK, PlainTypes
  <2>2. raised' \in 0..(MaxDrops + MaxRaised + 1) /\ drops' \in 0..MaxDrops
    BY DEF TypeOK, RaisedOK
  <2> QED BY <2>1, <2>2 DEF TypeOK, PlainTypes
<1>2. RaisedOK' /\ CallsOK'
  BY DEF TypeOK, RaisedOK, CallsOK
<1> QED BY <1>1, <1>2 DEF Inv

\* or the server stops
LEMMA ServerStopsKeeps ==
  ASSUME Inv, ServerStops
  PROVE  Inv'
<1> USE OptionsAssumption, ThreadsAssumption DEF Inv, Goto, Threads, ServerStops
<1>1. TypeOK'
  BY DEF TypeOK, RaisedOK
<1>2. RaisedOK' /\ CallsOK'
  BY DEF TypeOK, RaisedOK, CallsOK
<1> QED BY <1>1, <1>2 DEF Inv

\* and starts.
LEMMA ServerStartsKeeps ==
  ASSUME Inv, ServerStarts
  PROVE  Inv'
<1> USE OptionsAssumption, ThreadsAssumption DEF Inv, Goto, Threads, ServerStarts
<1>1. TypeOK'
  BY DEF TypeOK, RaisedOK
<1>2. RaisedOK' /\ CallsOK'
  BY DEF TypeOK, RaisedOK, CallsOK
<1> QED BY <1>1, <1>2 DEF Inv


LEMMA Stays == Inv /\ [Next]_vars => Inv'
<1> SUFFICES ASSUME Inv, [Next]_vars PROVE Inv'
  OBVIOUS
<1>1. ASSUME NEW x \in Threads, Step(x) PROVE Inv'
  BY <1>1, CheckConnectorKeeps, BeginConnectKeeps, DialConnectedKeeps, DialKeeps, DialFailsKeeps,
     OnConnectedKeeps, WakeKeeps, CheckReconnectorKeeps, DisconnectKeeps DEF Step
<1>2. CASE UNCHANGED vars
  BY <1>2 DEF vars, Inv, TypeOK, RaisedOK, CallsOK
<1> QED BY <1>1, <1>2, ConnectAsyncKeeps, CallConnectKeeps, CallDisconnectKeeps, OnDisconnectedKeeps,
           LoseKeeps, ServerStopsKeeps, ServerStartsKeeps DEF Next

\* So it holds in every state.
LEMMA Always == Spec => []Inv
BY Initially, Stays, PTL DEF Spec

\* The types; there are never more events to handle than losses and calls of
\* Disconnect account for.
THEOREM TypeCorrect == Spec => []TypeOK
<1>1. Inv => TypeOK
  BY DEF Inv
<1> QED BY <1>1, Always, PTL

\* Once Disconnect has returned and nobody is in the middle of an attempt, no
\* reconnecting thread, ConnectAsync loop or OnDisconnected event connects.
THEOREM NothingReconnects == Spec => DisconnectSticks
<1>1. Inv /\ [Next]_vars =>
        [Settled /\ wish' = "disconnected" => Settled' \/ pc'[Application] = "disconnect"]_vars
  <2> SUFFICES ASSUME Inv, Next, Settled, wish' = "disconnected"
               PROVE  Settled' \/ pc'[Application] = "disconnect"
    OBVIOUS
  <2> USE ThreadsAssumption DEF Inv, TypeOK, Settled, Attempting, Goto, Threads
  <2>1. ASSUME NEW x \in Threads, Step(x) PROVE Settled'
    <3>1. CheckConnector(x) \/ Wake(x) \/ CheckReconnector(x)
      BY <2>1 DEF Step, BeginConnect, DialConnected, Dial, DialFails, OnConnected, Disconnect
    <3>2. CASE CheckConnector(x)
      BY <3>2 DEF CheckConnector
    <3>3. CASE Wake(x)
      BY <3>3 DEF Wake
    <3>4. CASE CheckReconnector(x)
      BY <3>4 DEF CheckReconnector, MayReconnect
    <3> QED BY <3>1, <3>2, <3>3, <3>4
  <2>2. ASSUME NEW x \in Connectors, ConnectAsync(x) PROVE FALSE
    BY <2>2 DEF ConnectAsync
  <2>3. CASE CallConnect
    BY <2>3 DEF CallConnect
  <2>4. CASE CallDisconnect
    BY <2>4 DEF CallDisconnect
  <2>5. CASE OnDisconnected
    BY <2>5 DEF OnDisconnected
  <2>6. CASE Lose \/ ServerStops \/ ServerStarts
    BY <2>6 DEF Lose, ServerStops, ServerStarts
  <2> QED BY <2>1, <2>2, <2>3, <2>4, <2>5, <2>6 DEF Next
<1> QED BY <1>1, Always, PTL DEF Spec, DisconnectSticks
=============================================================================
