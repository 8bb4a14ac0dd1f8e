------------------------------ MODULE Connection ------------------------------
(* One connection between a client and the server, from the transport up to   *)
(* the sessions: the two implementations of Endpoint, and the handshake that  *)
(* the runtimes run over them.                                                *)
(*                                                                            *)
(*   - native: GameNetworkingSocketsNetwork.  The library under it, a thread  *)
(*     of its own that is not in the repository, changes the state of a link, *)
(*     queues status callbacks, carries reliable messages in order and        *)
(*     unreliable ones in any order or not at all.  A poll and the handling   *)
(*     of what it returned are several steps, and the library and the other   *)
(*     process move between them.                                             *)
(*   - memory: InMemoryNetwork, which puts every event straight into the      *)
(*     queue of the peer.                                                     *)
(*                                                                            *)
(* Connections do not share state below the session table, so one is enough;  *)
(* ServerSessions has many sessions over a transport that always works.       *)
EXTENDS Naturals, Sequences, SequencesExt

CONSTANTS
  Transports,   \* the implementations to check, among "native" and "memory"
  MaxQueued     \* bound: messages queued on the connection before a hello is repeated

ASSUME TransportsAssumption == Transports \subseteq {"native", "memory"}

Sides == {"client", "server"}
Peer(side) == IF side = "client" THEN "server" ELSE "client"

VARIABLES
  transport,
  net,      \* the library and both endpoints, see NetInit
  poll,     \* where each process is in process_events, and what is left of it
  client,   \* the client runtime
  server,   \* the server's session of this connection
  reported  \* what the client's state() last told the application, between calls

connectionVars == <<transport, net, poll, client, server>>

-----------------------------------------------------------------------------
(* Messages and events.                                                       *)

Message(kind, delivery, id) == [kind |-> kind, delivery |-> delivery, id |-> id]
ClientHello       == Message("hello", "Reliable", 0)
ServerWelcome(id) == Message("welcome", "Reliable", id)
FullSnapshot      == Message("snapshot", "Unreliable", 0)
InputPacket       == Message("input", "Unreliable", 0)   \* or a ClientStatus
NoMessage         == Message("none", "none", 0)

Connected          == [type |-> "Connected", message |-> NoMessage]
Disconnected       == [type |-> "Disconnected", message |-> NoMessage]
PayloadReceived(m) == [type |-> "PayloadReceived", message |-> m]

-----------------------------------------------------------------------------
(* An endpoint's record of the connection.                                    *)

\* "known" is membership in connections_; "native" that the native handle is
\* valid and mapped, in memory that the shared connection is connected.
NoConnection == [known |-> FALSE, native |-> FALSE, state |-> "Connecting",
                 connectedEmitted |-> FALSE, disconnectEmitted |-> FALSE]
AddedConnection == [NoConnection EXCEPT !.known = TRUE, !.native = TRUE]

Emit(n, side, event) == [n EXCEPT !.events[side] = Append(@, event)]

\* CloseConnection and the end of the native handle.  What the peer sent and
\* was not received yet is lost; what was sent to the peer still travels.
CloseNative(n, side) ==
  [n EXCEPT !.link[side] = "closed", !.wire[side] = <<>>, !.loose[side] = {},
            !.inbox[side] = <<>>, !.stray = IF side = "server" THEN <<>> ELSE @,
            !.conn[side].native = FALSE]

\* finish_connection
FinishConnection(n, side) ==
  IF n.conn[side].disconnectEmitted THEN n
  ELSE Emit(CloseNative([n EXCEPT !.conn[side].disconnectEmitted = TRUE], side),
            side, Disconnected)

\* fail_connection
FailConnection(n, side) ==
  FinishConnection([n EXCEPT !.conn[side].state = "Failed"], side)

\* map_state, for the statuses the library reports
MapState(status) ==
  CASE status = "Connecting"             -> "Connecting"
    [] status = "Connected"              -> "Connected"
    [] status = "ClosedByPeer"           -> "Disconnected"
    [] status = "ProblemDetectedLocally" -> "Failed"

\* handle_status for a connection the endpoint has; one that was closed since
\* is no longer mapped and the callback is dropped.
HandleStatus(n, side, status) ==
  LET known == [n EXCEPT !.conn[side].state = MapState(status)]
  IN  IF ~n.conn[side].native THEN n
      ELSE CASE status = "Connected" /\ ~n.conn[side].connectedEmitted ->
                  Emit([known EXCEPT !.conn[side].connectedEmitted = TRUE],
                       side, Connected)
             [] status \in {"ClosedByPeer", "ProblemDetectedLocally"} ->
                  FinishConnection(known, side)
             [] OTHER -> known

-----------------------------------------------------------------------------
(* Endpoint::send and Endpoint::disconnect.                                   *)

\* In memory a shared connection is up or not, and what one side emits is in
\* the other side's queue at once.
MemoryCanSend(n, side) == n.conn[side].native
MemorySent(n, side, m) == Emit(n, Peer(side), PayloadReceived(m))
MemoryDisconnected(n, side) ==
  LET down == [n EXCEPT !.conn["client"].native = FALSE, !.conn["server"].native = FALSE]
  IN  Emit(Emit(down, side, Disconnected), Peer(side), Disconnected)

\* A native connection takes messages once its link is up; a queue without room
\* fails all the same.
NativeCanSend(n, side) ==
  /\ n.conn[side].known /\ n.conn[side].native
  /\ n.conn[side].state = "Connected"
  /\ n.link[side] = "connected"

NativeSent(n, side, m) ==
  CASE n.link[Peer(side)] = "closed" -> n
    [] n.link[Peer(side)] # "closed" /\ m.delivery = "Reliable" ->
         [n EXCEPT !.wire[Peer(side)] = Append(@, m)]
    [] OTHER -> [n EXCEPT !.loose[Peer(side)] = @ \cup {m}]

NativeDisconnected(n, side) ==
  Emit(CloseNative([n EXCEPT !.conn[side].state = "Disconnected",
                             !.conn[side].disconnectEmitted = TRUE], side),
       side, Disconnected)

CanSend(n, side) ==
  IF transport = "memory" THEN MemoryCanSend(n, side) ELSE NativeCanSend(n, side)

Sent(n, side, m) ==
  IF transport = "memory" THEN MemorySent(n, side, m) ELSE NativeSent(n, side, m)

CanDisconnect(n, side) ==
  /\ n.conn[side].known /\ n.conn[side].native
  /\ ~n.conn[side].disconnectEmitted

Disconnect(n, side) ==
  CASE ~CanDisconnect(n, side) -> n
    [] CanDisconnect(n, side) /\ transport = "memory" -> MemoryDisconnected(n, side)
    [] OTHER -> NativeDisconnected(n, side)

-----------------------------------------------------------------------------
(* Endpoint::poll: callbacks, then messages, then everything queued.          *)

\* receive_messages: the poll group first, then the connection's own queue,
\* where a message that came before the group was assigned may have stayed.
ReceiveMessages(n, side) ==
  LET arrived == n.inbox[side] \o IF side = "server" THEN n.stray ELSE <<>>
      events  == [i \in DOMAIN arrived |-> PayloadReceived(arrived[i])]
  IN  [n EXCEPT !.events[side] = IF n.conn[side].native THEN @ \o events ELSE @,
                !.inbox[side] = <<>>,
                !.stray = IF side = "server" THEN <<>> ELSE @]

\* The drained queue; a listening endpoint forgets a connection it reports ended.
Drained(n, side) ==
  [n EXCEPT !.events[side] = <<>>,
            !.conn[side] =
              IF /\ transport = "native" /\ side = "server"
                 /\ Disconnected \in ToSet(n.events[side])
              THEN [@ EXCEPT !.known = FALSE] ELSE @]

-----------------------------------------------------------------------------
(* The client runtime.  A handler maps the pair of net and client.            *)

Fail(s, error) ==
  [net    |-> IF s.client.connection THEN Disconnect(s.net, "client") ELSE s.net,
   client |-> [s.client EXCEPT !.state = "Failed", !.error = error]]

\* transmit of a hello; "full" is a send queue without room.
Greeted(s, full) ==
  IF CanSend(s.net, "client") /\ ~full
  THEN [net |-> Sent(s.net, "client", ClientHello),
        client |-> [s.client EXCEPT !.hello = "recent"]]
  ELSE Fail(s, "TransportSendFailed")

\* update_ready_state
UpdateReadyState(s) ==
  IF s.client.id = 0 \/ ~s.client.snapshot THEN s
  ELSE [s EXCEPT !.client.state = "Ready"]

\* Mutant: a second welcome is always unexpected.
WelcomeReceived_OnlyOne(s, m) ==
  IF m.delivery # "Reliable" \/ s.client.id # 0 THEN Fail(s, "UnexpectedMessage")
  ELSE UpdateReadyState([s EXCEPT !.client.id = m.id])

WelcomeReceived(s, m) ==
  CASE m.delivery # "Reliable" \/ s.client.id \notin {0, m.id} ->
         Fail(s, "UnexpectedMessage")
    [] m.delivery = "Reliable" /\ s.client.id = m.id -> s
    [] OTHER -> UpdateReadyState([s EXCEPT !.client.id = m.id])

SnapshotReceived(s, m) ==
  IF m.delivery # "Unreliable" THEN Fail(s, "UnexpectedMessage")
  ELSE UpdateReadyState([s EXCEPT !.client.snapshot = TRUE])

\* One event of process_events.
ClientEvent(s, event, full) ==
  CASE event.type = "Connected" ->
         IF s.client.connection THEN Fail(s, "MultipleConnections")
         ELSE Greeted([s EXCEPT !.client.connection = TRUE,
                                !.client.state = "Handshaking"], full)
    [] event.type = "Disconnected" ->
         [s EXCEPT !.client.state = "Disconnected"]
    [] OTHER ->
         CASE event.message.kind = "welcome"  -> WelcomeReceived(s, event.message)
           [] event.message.kind = "snapshot" -> SnapshotReceived(s, event.message)
           [] OTHER -> Fail(s, "UnexpectedMessage")

\* Mutant: the hello is repeated only before the first one was sent.
HelloRetried_Never(s, full) == s

\* The retry of an unanswered hello after kClientHelloRetryInterval.
HelloRetried(s, full) ==
  IF s.client.state = "Handshaking" /\ s.client.id = 0 /\ s.client.hello = "due"
  THEN Greeted(s, full) ELSE s

\* flush_pending_inputs and maybe_send_status; a full queue keeps the command.
InputsFlushed(s, pending, full) ==
  CASE s.client.state # "Ready" \/ ~pending -> s
    [] s.client.state = "Ready" /\ pending /\ ~CanSend(s.net, "client") ->
         Fail(s, "TransportSendFailed")
    [] OTHER ->
         IF full THEN s ELSE [s EXCEPT !.net = Sent(@, "client", InputPacket)]

-----------------------------------------------------------------------------
(* The server runtime.  A handler maps the pair of net and server.            *)

\* Mutant: the session is reset for the connection's next client.
RemoveSession_Resets(s) ==
  IF s.server.session = "none" THEN s
  ELSE [s EXCEPT !.server.session = "open", !.server.ended = TRUE]

RemoveSession(s) ==
  [s EXCEPT !.server.session = "none",
            !.server.ended = @ \/ s.server.session # "none"]

\* reject, fail_session and remove_inactive_sessions close the peer as well.
SessionClosed(s) == RemoveSession([s EXCEPT !.net = Disconnect(@, "server")])

Reject(s) == SessionClosed([s EXCEPT !.server.rejected = TRUE])

\* Mutant: a failed send removes the session and leaves the peer attached.
Transmit_LeavesPeer(s, m, full) ==
  IF CanSend(s.net, "server") /\ ~full
  THEN [s EXCEPT !.net = Sent(@, "server", m)] ELSE RemoveSession(s)

\* transmit
Transmit(s, m, full) ==
  IF CanSend(s.net, "server") /\ ~full
  THEN [s EXCEPT !.net = Sent(@, "server", m)] ELSE SessionClosed(s)

\* send_snapshot does nothing for a session that the welcome removed.
SendSnapshot(s, full) ==
  IF s.server.session = "none" THEN s ELSE Transmit(s, FullSnapshot, full)

\* accept: a new client id, its welcome and a first snapshot.
Accept(s, full) ==
  LET joined == [s EXCEPT !.server.session = "ready",
                          !.server.id = s.server.nextId,
                          !.server.nextId = @ + 1]
  IN  SendSnapshot(Transmit(joined, ServerWelcome(joined.server.id), full), full)

HelloReceived(s, m, full) ==
  CASE m.delivery # "Reliable" -> Reject(s)
    [] m.delivery = "Reliable" /\ s.server.session = "ready" ->
         Transmit(s, ServerWelcome(s.server.id), full)
    [] OTHER -> Accept(s, full)

\* One event of process_events.
ServerEvent(s, event, full) ==
  CASE event.type = "Connected" ->
         IF s.server.session # "none" THEN s
         ELSE [s EXCEPT !.server.session = "open"]
    [] event.type = "Disconnected" -> RemoveSession(s)
    [] event.type = "PayloadReceived" /\ s.server.session = "none" -> s
    [] OTHER ->
         CASE event.message.kind = "hello" -> HelloReceived(s, event.message, full)
           [] event.message.kind = "input" ->
                IF event.message.delivery = "Unreliable" /\ s.server.session = "ready"
                THEN s ELSE Reject(s)
           [] OTHER -> Reject(s)

-----------------------------------------------------------------------------
(* Initial states: the client has just connected.                             *)

\* link      the library's state of each side
\* callbacks status changes that wait for RunCallbacks
\* wire      reliable messages on their way to a side, in order
\* loose     unreliable messages on their way to a side
\* inbox     messages that arrived, in the poll group on the server's side
\* stray     messages that arrived outside of the poll group
\* grouped   the server's connection is in its poll group
\* conn      each endpoint's record of the connection
\* events    events_ of each endpoint
NetInit(t) ==
  [link      |-> [client |-> "connecting", server |-> "none"],
   callbacks |-> [side \in Sides |-> <<>>],
   wire      |-> [side \in Sides |-> <<>>],
   loose     |-> [side \in Sides |-> {}],
   inbox     |-> [side \in Sides |-> <<>>],
   stray     |-> <<>>,
   grouped   |-> FALSE,
   conn      |-> [client |-> AddedConnection,
                  server |-> IF t = "memory" THEN AddedConnection ELSE NoConnection],
   events    |-> [side \in Sides |-> IF t = "memory" THEN <<Connected>> ELSE <<>>]]

\* A process outside of process_events; else the callbacks that its poll runs,
\* or the events that the poll returned.
Idle == [at |-> "idle", batch |-> <<>>]

Init ==
  /\ transport \in Transports
  /\ net = NetInit(transport)
  /\ poll = [side \in Sides |-> Idle]
  /\ client = [state |-> "Connecting", connection |-> FALSE, id |-> 0,
               snapshot |-> FALSE, hello |-> "none", error |-> "none"]
  /\ server = [session |-> "none", id |-> 0, nextId |-> 1, ended |-> FALSE,
               rejected |-> FALSE]
  /\ reported = client.state

-----------------------------------------------------------------------------
(* The library.                                                               *)

Active(side) == net.link[side] \in {"connecting", "connected"}

\* The library's own end of a side: what was on its way there is lost, what
\* arrived stays readable until the endpoint closes the connection.
LinkClosed(n, side, status) ==
  [n EXCEPT !.link[side] = "closed", !.wire[side] = <<>>, !.loose[side] = {},
            !.callbacks[side] = Append(@, status)]

\* The client's request reaches the listening side.
LibraryOffers ==
  /\ transport = "native"
  /\ net.link = [client |-> "connecting", server |-> "none"]
  /\ net' = [net EXCEPT !.link["server"] = "connecting",
                        !.callbacks["server"] = Append(@, "Connecting")]
  /\ UNCHANGED <<transport, poll, client, server>>

\* The acceptance reaches the client.
LibraryConnects ==
  /\ net.link = [client |-> "connecting", server |-> "connected"]
  /\ net' = [net EXCEPT !.link["client"] = "connected",
                        !.callbacks["client"] = Append(@, "Connected")]
  /\ UNCHANGED <<transport, poll, client, server>>

\* A failure that no peer caused.
LibraryFails(side) ==
  /\ transport = "native" /\ Active(side)
  /\ net' = LinkClosed(net, side, "ProblemDetectedLocally")
  /\ UNCHANGED <<transport, poll, client, server>>

\* The peer's close is told, or found out when it stays silent.
LibraryNotices(side) ==
  /\ transport = "native" /\ Active(side) /\ net.link[Peer(side)] = "closed"
  /\ \E status \in {"ClosedByPeer", "ProblemDetectedLocally"} :
       net' = LinkClosed(net, side, status)
  /\ UNCHANGED <<transport, poll, client, server>>

Arrived(n, side, m) ==
  IF side = "server" /\ ~n.grouped THEN [n EXCEPT !.stray = Append(@, m)]
  ELSE [n EXCEPT !.inbox[side] = Append(@, m)]

ReliableArrives(side) ==
  /\ net.link[side] = "connected" /\ net.wire[side] # <<>>
  /\ net' = [Arrived(net, side, Head(net.wire[side]))
               EXCEPT !.wire[side] = Tail(@)]
  /\ UNCHANGED <<transport, poll, client, server>>

UnreliableArrives(side) ==
  /\ net.link[side] = "connected"
  /\ \E m \in net.loose[side] :
       net' = [Arrived(net, side, m) EXCEPT !.loose[side] = @ \ {m}]
  /\ UNCHANGED <<transport, poll, client, server>>

UnreliableLost(side) ==
  /\ net.loose[side] # {}
  /\ \E m \in net.loose[side] : net' = [net EXCEPT !.loose[side] = @ \ {m}]
  /\ UNCHANGED <<transport, poll, client, server>>

-----------------------------------------------------------------------------
(* Endpoint::poll, of either process.                                         *)

Running == client.state # "Exited"

\* RunCallbacks takes what is queued now; what is posted while it runs waits.
Polls(side) ==
  /\ poll[side].at = "idle"
  /\ poll' = [poll EXCEPT ![side] = [at |-> "callbacks", batch |-> net.callbacks[side]]]
  /\ net' = [net EXCEPT !.callbacks[side] = <<>>]
  /\ UNCHANGED <<transport, server>>
  /\ IF side = "server" THEN UNCHANGED client
     ELSE Running /\ client' = [client EXCEPT !.error = "none"]

AtCallback(side) == poll[side].at = "callbacks" /\ poll[side].batch # <<>>
Callback(side)   == Head(poll[side].batch)

\* The listening socket reports a connection that the endpoint does not have.
Offered(side) ==
  side = "server" /\ Callback(side) = "Connecting" /\ ~net.conn[side].native

\* It is added and accepted, which makes the library connect it, unless the
\* peer is gone already.
ServerAccepts ==
  /\ AtCallback("server") /\ Offered("server")
  /\ LET added == [net EXCEPT !.conn["server"] = AddedConnection]
     IN  IF net.link["server"] = "connecting"
         THEN /\ net' = [added EXCEPT !.link["server"] = "connected",
                                      !.callbacks["server"] = Append(@, "Connected")]
              /\ poll' = [poll EXCEPT !["server"] = [at |-> "assign", batch |-> Tail(@.batch)]]
         ELSE /\ net' = FailConnection(added, "server")
              /\ poll' = [poll EXCEPT !["server"].batch = Tail(@)]
  /\ UNCHANGED <<transport, client, server>>

\* SetConnectionPollGroup, which moves what arrived before only if it can.
ServerAssignsPollGroup ==
  /\ poll["server"].at = "assign"
  /\ poll' = [poll EXCEPT !["server"].at = "callbacks"]
  /\ IF net.link["server"] # "connected"
     THEN net' = FailConnection(net, "server")
     ELSE \E moved \in BOOLEAN :
            net' = [net EXCEPT !.grouped = TRUE,
                               !.conn["server"].state = MapState("Connecting"),
                               !.inbox["server"] = IF moved THEN net.stray ELSE @,
                               !.stray = IF moved THEN <<>> ELSE @]
  /\ UNCHANGED <<transport, client, server>>

RunsCallback(side) ==
  /\ AtCallback(side) /\ ~Offered(side)
  /\ net' = HandleStatus(net, side, Callback(side))
  /\ poll' = [poll EXCEPT ![side].batch = Tail(@)]
  /\ UNCHANGED <<transport, client, server>>

\* Messages, and the queue that the runtime gets.
Receives(side) ==
  /\ poll[side] = [at |-> "callbacks", batch |-> <<>>]
  /\ LET received == ReceiveMessages(net, side)
     IN  /\ net' = Drained(received, side)
         /\ poll' = [poll EXCEPT ![side] = [at |-> "events",
                                            batch |-> received.events[side]]]
  /\ UNCHANGED <<transport, client, server>>

-----------------------------------------------------------------------------
(* The server: process_events, the fixed step, the timeouts.                  *)

\* Whether the library's send queue may be without room.
Fullness == IF transport = "native" THEN BOOLEAN ELSE {FALSE}

\* What the server does with one event, or in one step.
ServerBecomes(outcomes) ==
  /\ \E after \in outcomes : net' = after.net /\ server' = after.server
  /\ UNCHANGED <<transport, client>>

Serving == [net |-> net, server |-> server]

ServerHandlesEvent ==
  /\ poll["server"].at = "events" /\ poll["server"].batch # <<>>
  /\ ServerBecomes({ServerEvent(Serving, Head(poll["server"].batch), full) :
                       full \in Fullness})
  /\ poll' = [poll EXCEPT !["server"].batch = Tail(@)]

ServerReturns ==
  /\ poll["server"] = [at |-> "events", batch |-> <<>>]
  /\ poll' = [poll EXCEPT !["server"] = Idle]
  /\ UNCHANGED <<transport, net, client, server>>

\* Messages on their way to a side, or returned to it and not handled yet.
Queued(side) ==
  net.wire[side] \o net.inbox[side] \o (IF side = "server" THEN net.stray ELSE <<>>)
  \o LET events == net.events[side]
                   \o IF poll[side].at = "events" THEN poll[side].batch ELSE <<>>
     IN  [i \in DOMAIN events |-> events[i].message]
InFlight(m, side) == m \in net.loose[side] \/ m \in ToSet(Queued(side))

\* The snapshot of a fixed step, to a session that is ready.
ServerSendsSnapshot ==
  /\ poll["server"].at = "idle" /\ server.session = "ready"
  /\ ~InFlight(FullSnapshot, "client")
  /\ ServerBecomes({SendSnapshot(Serving, full) : full \in Fullness})
  /\ UNCHANGED poll

\* remove_inactive_sessions, for a handshake or a session that timed out.
ServerTimesOut ==
  /\ poll["server"].at = "idle" /\ server.session # "none"
  /\ ServerBecomes({SessionClosed(Serving)})
  /\ UNCHANGED poll

-----------------------------------------------------------------------------
(* The client: process_events, time, disconnect, the process's end.           *)

ClientBecomes(outcomes) ==
  /\ \E after \in outcomes : net' = after.net /\ client' = after.client
  /\ UNCHANGED <<transport, server>>

Playing == [net |-> net, client |-> client]

\* An error ends the call, and the events after it are not handled.
ClientHandlesEvent ==
  /\ poll["client"].at = "events" /\ poll["client"].batch # <<>>
  /\ ClientBecomes({ClientEvent(Playing, Head(poll["client"].batch), full) :
                       full \in Fullness})
  /\ poll' = [poll EXCEPT !["client"] =
                IF client'.error # "none" THEN Idle
                ELSE [at |-> "events", batch |-> Tail(@.batch)]]

\* After the events: the retry, then the inputs and the status.
ClientReturns ==
  /\ poll["client"] = [at |-> "events", batch |-> <<>>]
  /\ ClientBecomes({InputsFlushed(HelloRetried(Playing, full), pending, full) :
                       full \in Fullness,
                       pending \in {p \in BOOLEAN : p => ~InFlight(InputPacket, "server")}})
  /\ poll' = [poll EXCEPT !["client"] = Idle]

\* kClientHelloRetryInterval has passed since the last hello.
TimePasses ==
  /\ Running /\ client.hello = "recent"
  /\ Len(Queued("client")) + Len(Queued("server")) < MaxQueued
  /\ client' = [client EXCEPT !.hello = "due"]
  /\ UNCHANGED <<transport, net, poll, server>>

\* disconnect
ClientDisconnects ==
  /\ poll["client"].at = "idle" /\ Running
  /\ client.connection /\ client.state # "Disconnected" /\ CanDisconnect(net, "client")
  /\ net' = Disconnect(net, "client")
  /\ client' = [client EXCEPT !.state = "Disconnected"]
  /\ UNCHANGED <<transport, poll, server>>

\* The process ends, as it does on any error, after the startup deadline and
\* after quitting: the endpoint closes the connection without lingering.
ClientExits ==
  /\ transport = "native" /\ poll["client"].at = "idle"
  /\ Running /\ client.state # "Ready"
  /\ net' = [CloseNative(net, "client")
               EXCEPT !.callbacks["client"] = <<>>, !.events["client"] = <<>>]
  /\ client' = [client EXCEPT !.state = "Exited"]
  /\ UNCHANGED <<transport, poll, server>>

-----------------------------------------------------------------------------

PollStep(side) == Polls(side) \/ RunsCallback(side) \/ Receives(side)

ServerPumps ==
  \/ PollStep("server")
  \/ ServerAccepts
  \/ ServerAssignsPollGroup
  \/ ServerHandlesEvent
  \/ ServerReturns

ClientPumps ==
  \/ PollStep("client")
  \/ ClientHandlesEvent
  \/ ClientReturns

Step ==
  \/ LibraryOffers
  \/ LibraryConnects
  \/ \E side \in Sides :
       \/ LibraryFails(side)
       \/ LibraryNotices(side)
       \/ ReliableArrives(side)
       \/ UnreliableArrives(side)
       \/ UnreliableLost(side)
  \/ ServerPumps
  \/ ServerSendsSnapshot
  \/ ServerTimesOut
  \/ ClientPumps
  \/ TimePasses
  \/ ClientDisconnects
  \/ ClientExits

Next ==
  /\ Step
  /\ reported' = IF poll'["client"].at = "idle" THEN client'.state ELSE reported

\* Both main loops keep polling and the server keeps stepping between polls;
\* time passes; the library delivers reliable messages while a link is up and
\* finds out about a peer that is gone; of unreliable messages that are sent
\* again and again, one arrives.
Fairness ==
  /\ WF_connectionVars(LibraryOffers) /\ WF_connectionVars(LibraryConnects)
  /\ \A side \in Sides :
       WF_connectionVars(LibraryNotices(side)) /\ WF_connectionVars(ReliableArrives(side))
  /\ SF_connectionVars(UnreliableArrives("client"))
  /\ WF_connectionVars(ServerPumps) /\ SF_connectionVars(ServerSendsSnapshot)
  /\ WF_connectionVars(ClientPumps) /\ WF_connectionVars(TimePasses)

Spec == Init /\ [][Next]_<<connectionVars, reported>> /\ Fairness

-----------------------------------------------------------------------------
(* Properties.                                                                *)

Messages == {ClientHello, FullSnapshot, InputPacket}
            \cup {ServerWelcome(id) : id \in 1 .. server.nextId - 1}

\* Every piece of state has its type.
ConnectionTypeOK ==
  /\ net.link \in [Sides -> {"none", "connecting", "connected", "closed"}]
  /\ \A side \in Sides :
       /\ net.loose[side] \subseteq Messages
       /\ ToSet(Queued(side)) \subseteq Messages \cup {NoMessage}
       /\ net.conn[side].native => net.conn[side].known
       /\ poll[side].at \in {"idle", "callbacks", "assign", "events"}
  /\ client.state \in {"Connecting", "Handshaking", "Ready", "Disconnected",
                       "Failed", "Exited"}
  /\ client.hello \in {"none", "recent", "due"}
  /\ server.session \in {"none", "open", "ready"}

\* However the hellos, welcomes and snapshots race, repeat and overtake each
\* other, process_events never meets a message it did not expect: the client
\* fails only when a send fails, and the server rejects no packet.
HandshakeTolerant ==
  /\ client.error \in {"none", "TransportSendFailed"}
  /\ ~server.rejected

\* A ready client has the id that the server gave to this connection, and a
\* snapshot to play from.
ReadyMeansJoined ==
  client.state = "Ready" => client.id = server.id /\ client.id # 0 /\ client.snapshot

\* An endpoint reports one end of the connection, nothing comes after it in
\* its queue, and from then on it sends and receives nothing.
EndIsLast ==
  \A side \in Sides :
    LET queue == net.events[side]
    IN  \A i \in DOMAIN queue :
          queue[i] = Disconnected => i = Len(queue) /\ ~net.conn[side].native

\* Every state of a connection is one that both runtimes can handle.
ConnectionSound ==
  ConnectionTypeOK /\ HandshakeTolerant /\ ReadyMeansJoined /\ EndIsLast

ClientPhase ==
  CASE reported = "Connecting"  -> "connecting"
    [] reported = "Handshaking" -> "handshaking"
    [] reported = "Ready"       -> "ready"
    [] OTHER                        -> "closed"
ServerPhase ==
  CASE server.session = "open"  -> "open"
    [] server.session = "ready" -> "joined"
    [] OTHER -> IF server.ended THEN "ended" ELSE "absent"

Lifecycle == INSTANCE SessionLifecycle
               WITH clientPhase <- ClientPhase, serverPhase <- ServerPhase

\* The runtimes over either transport implement the lifecycle: no phase is
\* left backwards, a session joined only once and before its client is ready.
ImplementsLifecycle == Lifecycle!LifecycleSpec

\* A handshake never hangs: a lost race of the first hello is made good by the
\* retry, a lost snapshot by the next, until the client is ready or closed.
HandshakeEnds == (client.state = "Handshaking") ~> (client.state # "Handshaking")

\* No peer stays attached to an orphaned session: whichever side ends, the
\* other one ends too.
NoOrphans ==
  /\ (ClientPhase = "closed") ~> (server.session = "none")
  /\ server.ended ~> (ClientPhase = "closed")
===============================================================================
