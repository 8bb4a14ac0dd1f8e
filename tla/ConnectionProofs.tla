--------------------------- MODULE ConnectionProofs ---------------------------
(* Proofs about one connection over either transport, for any interleaving of *)
(* the library, the two polls and the handlers, and any number of repeated    *)
(* hellos and snapshots.                                                      *)
EXTENDS Connection, SharedLemmas

-----------------------------------------------------------------------------
(* The inductive invariant.                                                   *)

Links == {"none", "connecting", "connected", "closed"}
Statuses == {"Connecting", "Connected", "ClosedByPeer", "ProblemDetectedLocally"}
ConnectionStates == {"Connecting", "Connected", "Disconnected", "Failed"}
AnyMessage == {ClientHello, FullSnapshot, InputPacket} \cup {ServerWelcome(i) : i \in Nat}
EventsOf(M) == {Connected, Disconnected} \cup {PayloadReceived(m) : m \in M}
Records ==
  [known : BOOLEAN, native : BOOLEAN, state : ConnectionStates,
   connectedEmitted : BOOLEAN, disconnectEmitted : BOOLEAN]
Nets ==
  [link : [Sides -> Links], callbacks : [Sides -> Seq(Statuses)],
   wire : [Sides -> Seq(AnyMessage)], loose : [Sides -> SUBSET AnyMessage],
   inbox : [Sides -> Seq(AnyMessage)], stray : Seq(AnyMessage), grouped : BOOLEAN,
   conn : [Sides -> Records], events : [Sides -> Seq(EventsOf(AnyMessage))]]
Polling ==
  [at : {"idle", "callbacks", "assign", "events"},
   batch : Seq(Statuses) \cup Seq(EventsOf(AnyMessage))]
ClientStates == {"Connecting", "Handshaking", "Ready", "Disconnected", "Failed", "Exited"}
ClientRecords ==
  [state : ClientStates, connection : BOOLEAN, id : Nat, snapshot : BOOLEAN,
   hello : {"none", "recent", "due"}, error : {"none", "TransportSendFailed"}]
ServerRecords ==
  [session : {"none", "open", "ready"}, id : Nat, nextId : Nat \ {0},
   ended : BOOLEAN, rejected : {FALSE}]

\* What a poll still has to run, and what it returned and is not handled yet.
ToRun(p)    == IF p.at \in {"callbacks", "assign"} THEN p.batch ELSE << >>
ToHandle(p) == IF p.at = "events" THEN p.batch ELSE << >>

Has(q, e) == \E i \in DOMAIN q : q[i] = e

\* What the other side has sent to a side by now.
ToSide(side, c, s) ==
  IF side = "client" THEN IF s.id = 0 THEN {} ELSE {ServerWelcome(s.id), FullSnapshot}
  ELSE IF ~c.connection THEN {}
  ELSE IF s.id = 0 THEN {ClientHello} ELSE {ClientHello, InputPacket}

\* The runtime of a side has not met the connection.
Unmet(side, c, s) ==
  IF side = "client" THEN ~c.connection /\ c.state = "Connecting"
  ELSE s.session = "none" /\ ~s.ended /\ s.id = 0

\* A queue of events that starts with Connected if it has one, ends with
\* Disconnected if it has one, and otherwise carries what was sent.
Shaped(q, M) ==
  /\ q \in Seq(EventsOf(M))
  /\ \A i \in DOMAIN q : (q[i] = Connected => i = 1) /\ (q[i] = Disconnected => i = Len(q))

\* One endpoint: its record, its queue, the batch its runtime handles, and
\* whether that runtime has not met the connection.
EndSound(t, conn, queue, batch, unmet) ==
  /\ conn.native => conn.known /\ ~conn.disconnectEmitted /\ ~Has(queue, Disconnected)
  /\ ~conn.native => queue = << >> \/ Has(queue, Disconnected)
  /\ Has(batch, Disconnected) => ~conn.native /\ queue = << >>
  /\ Has(queue, Connected) \/ Has(batch, Connected) =>
       unmet /\ (t = "native" => conn.connectedEmitted)
  /\ ~(Has(queue, Connected) /\ Has(batch, Connected))
  /\ t = "native" => queue \in Seq({Connected, Disconnected})
  /\ t = "native" /\ conn.native /\ ~conn.connectedEmitted => unmet

\* What travels to a side, waits there, or is handled there was sent to it.
Carried(n, p, c, s, side) ==
  LET M == ToSide(side, c, s)
  IN  /\ n.wire[side] \in Seq(M) /\ n.loose[side] \subseteq M /\ n.inbox[side] \in Seq(M)
      /\ side = "server" => n.stray \in Seq(M)
      /\ Shaped(n.events[side], M) /\ Shaped(ToHandle(p[side]), M)

\* The server's endpoint before the library offers it the connection.
Offerable(n, c, s) ==
  n.conn["server"] = NoConnection /\ n.events["server"] = << >> /\ Unmet("server", c, s)

\* The offer is the first callback of the server, and comes once.
OfferedOnce(n, p, c, s) ==
  LET queued == n.callbacks["server"]
      run    == ToRun(p["server"])
  IN  /\ ~Has(n.callbacks["client"], "Connecting") /\ ~Has(ToRun(p["client"]), "Connecting")
      /\ \A i \in DOMAIN queued : queued[i] = "Connecting" => i = 1
      /\ \A i \in DOMAIN run : run[i] = "Connecting" => i = 1 /\ p["server"].at = "callbacks"
      /\ Has(queued, "Connecting") \/ Has(run, "Connecting") \/ n.link["server"] = "none"
           => Offerable(n, c, s)
      /\ n.link["server"] = "none" => queued = << >> /\ run = << >>
      /\ Has(queued, "Connecting") => run = << >>

\* The memory transport has no library; a connection is up for both or neither.
MemoryShared(n, p) ==
  /\ \A side \in Sides :
       n.callbacks[side] = << >> /\ ToRun(p[side]) = << >> /\ p[side].at # "assign"
  /\ n.conn["client"].native = n.conn["server"].native
  /\ n.link["server"] = "none"

\* The client and its session.
RuntimesSound(c, s) ==
  /\ c.id \in {0, s.id} /\ s.id < s.nextId
  /\ c.snapshot => s.id # 0
  /\ c.state = "Ready" => c.id # 0 /\ c.snapshot
  /\ c.state \in {"Handshaking", "Ready"} => c.connection
  /\ c.state = "Connecting" => ~c.connection
  /\ s.id # 0 => c.connection /\ s.session # "open" /\ (s.session = "none" => s.ended)
  /\ s.session = "ready" => s.id # 0
  /\ s.ended => s.session = "none"

Joint(t, n, p, c, s) ==
  /\ n \in Nets /\ p \in [Sides -> Polling] /\ c \in ClientRecords /\ s \in ServerRecords
  /\ \A side \in Sides :
       /\ EndSound(t, n.conn[side], n.events[side], ToHandle(p[side]), Unmet(side, c, s))
       /\ Carried(n, p, c, s, side)
       /\ p[side].at \in {"callbacks", "assign"} => p[side].batch \in Seq(Statuses)
  /\ p["client"].at # "assign"
  /\ p["server"].at = "assign" => n.conn["server"].native
  /\ t = "native" => OfferedOnce(n, p, c, s)
  /\ t = "memory" => MemoryShared(n, p)
  /\ RuntimesSound(c, s)

\* Between calls the application knows the client's state, and it is told no
\* step back: what a closed client still handles ends with Disconnected.
Closed(state) == state \in {"Disconnected", "Failed", "Exited"}
Ending(n, p, c) ==
  \/ ~n.conn["client"].native /\ Closed(c.state) /\ ToHandle(p["client"]) = << >>
  \/ Has(ToHandle(p["client"]), Disconnected)
Told(n, p, c, r) ==
  /\ r \in ClientStates
  /\ p["client"].at = "idle" => r = c.state
  /\ p["client"].at # "idle" => c.error = "none"
  /\ r = "Handshaking" => c.state # "Connecting"
  /\ r = "Ready" => c.state \notin {"Connecting", "Handshaking"}
  /\ Closed(r) \/ Closed(c.state) => Ending(n, p, c)
  /\ Closed(r) => c.state # "Connecting"

ConnectionInv ==
  /\ transport \in {"native", "memory"}
  /\ Joint(transport, net, poll, client, server)
  /\ Told(net, poll, client, reported)

-----------------------------------------------------------------------------
(* Lemmas about queues of events.                                             *)

\* The three kinds of event differ.
LEMMA EventKinds ==
  /\ Connected # Disconnected
  /\ \A m : PayloadReceived(m) # Connected /\ PayloadReceived(m) # Disconnected
BY DEF Connected, Disconnected, PayloadReceived

\* An empty queue has no event and is shaped.
LEMMA EmptyQueue ==
  ASSUME NEW M
  PROVE  Shaped(<< >>, M) /\ \A e : ~Has(<< >>, e)
BY DEF Shaped, Has

\* What may be sent only grows.
LEMMA ShapedGrows ==
  ASSUME NEW M, NEW N, M \subseteq N, NEW q, Shaped(q, M)
  PROVE  Shaped(q, N)
<1>1. EventsOf(M) \subseteq EventsOf(N)
  BY DEF EventsOf
<1> QED
  BY <1>1 DEF Shaped

\* Appending an event to a queue that has not ended.
LEMMA ShapedAppend ==
  ASSUME NEW M, NEW q, Shaped(q, M), ~Has(q, Disconnected),
         NEW e \in EventsOf(M), e = Connected => q = << >>
  PROVE  /\ Shaped(Append(q, e), M)
         /\ \A x : Has(Append(q, e), x) <=> Has(q, x) \/ x = e
         /\ Append(q, e) # << >>
<1>1. q \in Seq(EventsOf(M)) /\ Len(q) \in Nat /\ DOMAIN q = 1 .. Len(q)
  BY DEF Shaped
<1>2. /\ Append(q, e) \in Seq(EventsOf(M)) /\ Len(Append(q, e)) = Len(q) + 1
      /\ DOMAIN Append(q, e) = 1 .. Len(q) + 1
      /\ \A i \in 1 .. Len(q) : Append(q, e)[i] = q[i]
      /\ Append(q, e)[Len(q) + 1] = e
  BY <1>1
<1>3. \A x : Has(Append(q, e), x) <=> Has(q, x) \/ x = e
  BY <1>1, <1>2 DEF Has
<1>4. ASSUME NEW i \in 1 .. Len(q) + 1
      PROVE  /\ Append(q, e)[i] = Connected => i = 1
             /\ Append(q, e)[i] = Disconnected => i = Len(q) + 1
  <2>1. CASE i = Len(q) + 1
    BY <1>1, <1>2, <2>1
  <2>2. CASE i # Len(q) + 1
    <3>1. i \in 1 .. Len(q) /\ Append(q, e)[i] = q[i]
      BY <1>1, <1>2, <2>2
    <3>2. q[i] # Disconnected
      BY <1>1, <3>1 DEF Has
    <3> QED BY <1>1, <3>1, <3>2 DEF Shaped
  <2> QED BY <2>1, <2>2
<1>5. Append(q, e) # << >>
  BY <1>1, <1>2
<1> QED
  BY <1>2, <1>3, <1>4, <1>5 DEF Shaped

\* The payloads of a run of messages, appended to a queue that has not ended.
LEMMA ShapedPayloads ==
  ASSUME NEW M, NEW q, Shaped(q, M), ~Has(q, Disconnected),
         NEW ms \in Seq(M), NEW es, es = [i \in DOMAIN ms |-> PayloadReceived(ms[i])]
  PROVE  /\ Shaped(q \o es, M) /\ ~Has(q \o es, Disconnected)
         /\ Has(q \o es, Connected) <=> Has(q, Connected)
<1>1. /\ q \in Seq(EventsOf(M)) /\ Len(q) \in Nat /\ DOMAIN q = 1 .. Len(q)
      /\ Len(ms) \in Nat /\ DOMAIN ms = 1 .. Len(ms)
  BY DEF Shaped
<1>2. es \in Seq(EventsOf(M)) /\ Len(es) = Len(ms)
  BY <1>1 DEF EventsOf
<1>3. \A i \in 1 .. Len(ms) : es[i] # Connected /\ es[i] # Disconnected
  BY <1>1, EventKinds
<1>4. /\ q \o es \in Seq(EventsOf(M)) /\ Len(q \o es) = Len(q) + Len(ms)
      /\ DOMAIN (q \o es) = 1 .. Len(q) + Len(ms)
      /\ \A i \in 1 .. Len(q) : (q \o es)[i] = q[i]
      /\ \A i \in 1 .. Len(q) + Len(ms) : i > Len(q) => (q \o es)[i] = es[i - Len(q)]
  BY <1>1, <1>2
<1>5. ASSUME NEW i \in 1 .. Len(q) + Len(ms)
      PROVE  /\ (q \o es)[i] = Connected => i \in 1 .. Len(q) /\ q[i] = Connected
             /\ (q \o es)[i] # Disconnected
  <2>1. CASE i \in 1 .. Len(q)
    BY <1>1, <1>4, <2>1 DEF Has
  <2>2. CASE i \notin 1 .. Len(q)
    <3>1. i > Len(q) /\ i - Len(q) \in 1 .. Len(ms)
      BY <1>1, <2>2
    <3> QED BY <1>3, <1>4, <3>1
  <2> QED BY <2>1, <2>2
<1>6. ~Has(q \o es, Disconnected)
  BY <1>4, <1>5 DEF Has
<1>7. Has(q \o es, Connected) <=> Has(q, Connected)
  BY <1>1, <1>4, <1>5 DEF Has
<1>8. Shaped(q \o es, M)
  BY <1>1, <1>4, <1>5 DEF Shaped
<1> QED
  BY <1>6, <1>7, <1>8

\* The first event of a queue, and what it leaves.
LEMMA ShapedTail ==
  ASSUME NEW M, NEW q, Shaped(q, M), q # << >>
  PROVE  /\ Head(q) \in EventsOf(M) /\ Has(q, Head(q)) /\ Shaped(Tail(q), M)
         /\ ~Has(Tail(q), Connected)
         /\ \A x : Has(Tail(q), x) => Has(q, x)
         /\ Head(q) = Disconnected => Tail(q) = << >>
         /\ Head(q) # Disconnected /\ Has(q, Disconnected) => Has(Tail(q), Disconnected)
<1>0. q \in Seq(EventsOf(M)) /\ Len(q) \in Nat /\ DOMAIN q = 1 .. Len(q) /\ Len(q) > 0
  BY DEF Shaped
<1>1. PICK n \in Nat : n = Len(q) /\ n > 0 /\ DOMAIN q = 1 .. n /\ q \in Seq(EventsOf(M))
  BY <1>0
<1>2. /\ Tail(q) \in Seq(EventsOf(M)) /\ Len(Tail(q)) = n - 1
      /\ DOMAIN Tail(q) = 1 .. n - 1
      /\ \A i \in 1 .. n - 1 : Tail(q)[i] = q[i + 1]
      /\ Head(q) = q[1]
  BY <1>1
<1>3. \A i \in 1 .. n : (q[i] = Connected => i = 1) /\ (q[i] = Disconnected => i = n)
  BY <1>1 DEF Shaped
<1>10. \A i \in 1 .. n - 1 :
         i + 1 \in 1 .. n /\ i + 1 # 1 /\ (i + 1 = n => i = n - 1)
  OBVIOUS
<1>11. \A i \in 1 .. n - 1 : q[i + 1] # Connected
  BY <1>3, <1>10, Zenon
<1>4. Head(q) \in EventsOf(M) /\ Has(q, Head(q))
  BY <1>1, <1>2 DEF Has
<1>5. ~Has(Tail(q), Connected)
  BY <1>2, <1>11 DEF Has
<1>6. \A x : Has(Tail(q), x) => Has(q, x)
  BY <1>1, <1>2, <1>10 DEF Has
<1>7. Head(q) = Disconnected => Tail(q) = << >>
  <2>1. SUFFICES ASSUME Head(q) = Disconnected PROVE Tail(q) = << >>
    OBVIOUS
  <2>2. 1 \in 1 .. n /\ q[1] = Disconnected
    BY <1>1, <1>2, <2>1
  <2>3. n = 1
    BY <1>3, <2>2
  <2> QED BY <1>2, <2>3, EmptySeq
<1>8. Head(q) # Disconnected /\ Has(q, Disconnected) => Has(Tail(q), Disconnected)
  <2>1. SUFFICES ASSUME Head(q) # Disconnected, Has(q, Disconnected)
                 PROVE  Has(Tail(q), Disconnected)
    OBVIOUS
  <2>2. PICK i \in 1 .. n : q[i] = Disconnected
    BY <1>1, <2>1 DEF Has
  <2>3. i # 1 /\ i - 1 \in 1 .. n - 1 /\ (i - 1) + 1 = i
    BY <1>1, <1>2, <2>1, <2>2
  <2> QED BY <1>2, <2>2, <2>3 DEF Has
<1>9. Shaped(Tail(q), M)
  <2>1. ASSUME NEW i \in 1 .. n - 1
        PROVE  Tail(q)[i] # Connected /\ (Tail(q)[i] = Disconnected => i = n - 1)
    BY <1>2, <1>3, <1>10, <1>11, Zenon
  <2> QED BY <1>2, <2>1 DEF Shaped
<1> QED
  BY <1>4, <1>5, <1>6, <1>7, <1>8, <1>9

-----------------------------------------------------------------------------
(* Lemmas about one endpoint.                                                 *)

\* The endpoint closes its end and reports it.
LEMMA EndEnds ==
  ASSUME NEW t, NEW conn \in Records, NEW after \in Records, NEW q, NEW b, NEW u, NEW M,
         EndSound(t, conn, q, b, u), Shaped(q, M), conn.native, ~after.native,
         after.connectedEmitted = conn.connectedEmitted
  PROVE  /\ EndSound(t, after, Append(q, Disconnected), b, u)
         /\ Shaped(Append(q, Disconnected), M)
<1> DEFINE r == Append(q, Disconnected)
<1>1. Disconnected \in EventsOf(M) /\ ~Has(q, Disconnected) /\ Disconnected # Connected
  BY EventKinds DEF EndSound, EventsOf
<1>2. /\ Shaped(r, M)
      /\ \A x : Has(r, x) <=> Has(q, x) \/ x = Disconnected
  BY <1>1, ShapedAppend
<1>3. t = "native" => r \in Seq({Connected, Disconnected})
  BY DEF EndSound
<1> HIDE DEF r
<1>4. EndSound(t, after, r, b, u)
  BY <1>1, <1>2, <1>3 DEF EndSound, Records
<1> QED
  BY <1>2, <1>4 DEF r

\* The endpoint, up and not reported yet, reports the connection.
LEMMA EndConnects ==
  ASSUME NEW conn \in Records, NEW after \in Records, NEW q, NEW b, NEW u, NEW M,
         EndSound("native", conn, q, b, u), Shaped(q, M), conn.native,
         ~conn.connectedEmitted, after.native, after.known, ~after.disconnectEmitted,
         after.connectedEmitted
  PROVE  /\ EndSound("native", after, Append(q, Connected), b, u)
         /\ Shaped(Append(q, Connected), M)
<1> DEFINE r == Append(q, Connected)
<1>1. Connected \in EventsOf(M) /\ ~Has(q, Disconnected) /\ Disconnected # Connected
  BY EventKinds DEF EndSound, EventsOf
<1>2. ~Has(q, Connected) /\ ~Has(b, Connected) /\ q \in Seq({Connected, Disconnected})
  BY DEF EndSound
<1>3. q = << >>
  <2>1. Len(q) \in Nat /\ DOMAIN q = 1 .. Len(q)
    BY <1>2
  <2>2. ASSUME Len(q) > 0 PROVE FALSE
    <3>1. 1 \in DOMAIN q /\ q[1] \in {Connected, Disconnected}
      BY <1>2, <2>1, <2>2
    <3> QED BY <1>1, <1>2, <3>1 DEF Has
  <2> QED BY <1>2, <2>1, <2>2, EmptySeq
<1>4. /\ Shaped(r, M)
      /\ \A x : Has(r, x) <=> Has(q, x) \/ x = Connected
  BY <1>1, <1>3, ShapedAppend
<1>5. r \in Seq({Connected, Disconnected})
  BY <1>2
<1>6. u
  BY DEF EndSound
<1> HIDE DEF r
<1>7. EndSound("native", after, r, b, u)
  BY <1>1, <1>2, <1>4, <1>5, <1>6 DEF EndSound, Records
<1> QED
  BY <1>4, <1>7 DEF r

\* In memory a message goes straight into the queue of an endpoint that is up.
LEMMA EndReceives ==
  ASSUME NEW conn \in Records, NEW q, NEW b, NEW u, NEW M, NEW m \in M,
         EndSound("memory", conn, q, b, u), Shaped(q, M), conn.native
  PROVE  /\ EndSound("memory", conn, Append(q, PayloadReceived(m)), b, u)
         /\ Shaped(Append(q, PayloadReceived(m)), M)
<1> DEFINE e == PayloadReceived(m) r == Append(q, e)
<1>1. e \in EventsOf(M) /\ ~Has(q, Disconnected) /\ e # Disconnected /\ e # Connected
  BY EventKinds DEF EndSound, EventsOf
<1> HIDE DEF e
<1>2. /\ Shaped(r, M)
      /\ \A x : Has(r, x) <=> Has(q, x) \/ x = e
  BY <1>1, ShapedAppend
<1> HIDE DEF r
<1>3. EndSound("memory", conn, r, b, u)
  <2>1. ~Has(r, Disconnected) /\ (Has(r, Connected) <=> Has(q, Connected))
    BY <1>1, <1>2
  <2> QED BY <2>1 DEF EndSound, Records
<1> QED
  BY <1>2, <1>3 DEF r, e

\* The runtime gets the queue, and the messages that wait if the end is up.
LEMMA EndPolled ==
  ASSUME NEW t, NEW conn \in Records, NEW after \in Records, NEW q, NEW r, NEW u, NEW M,
         EndSound(t, conn, q, << >>, u), Shaped(q, M),
         after.native = conn.native, after.connectedEmitted = conn.connectedEmitted,
         after.disconnectEmitted = conn.disconnectEmitted,
         conn.native => after.known,
         Shaped(r, M), Has(r, Disconnected) <=> Has(q, Disconnected),
         Has(r, Connected) <=> Has(q, Connected)
  PROVE  EndSound(t, after, << >>, r, u)
<1>1. \A e : ~Has(<< >>, e)
  BY EmptyQueue
<1>2. << >> \in Seq({Connected, Disconnected})
  OBVIOUS
<1> QED
  BY <1>1, <1>2 DEF EndSound, Records

\* The runtime takes the first event of its batch.  It has met the connection
\* only if that was Connected.
LEMMA EndHandles ==
  ASSUME NEW t, NEW conn \in Records, NEW q, NEW b, NEW u \in BOOLEAN, NEW v \in BOOLEAN,
         NEW M, EndSound(t, conn, q, b, u), Shaped(b, M), b # << >>,
         u /\ ~v => Head(b) = Connected \/ Head(b) = Disconnected
  PROVE  EndSound(t, conn, q, Tail(b), v)
<1>1. /\ Has(b, Head(b)) /\ ~Has(Tail(b), Connected)
      /\ \A x : Has(Tail(b), x) => Has(b, x)
      /\ Head(b) = Disconnected => Tail(b) = << >>
  BY ShapedTail
<1>2. CASE u => v
  BY <1>1, <1>2 DEF EndSound
<1>3. CASE u /\ ~v /\ Head(b) = Connected
  BY <1>1, <1>3 DEF EndSound, Records
<1>4. CASE u /\ ~v /\ Head(b) = Disconnected
  BY <1>1, <1>4, EmptyQueue DEF EndSound, Records
<1> QED
  BY <1>2, <1>3, <1>4

-----------------------------------------------------------------------------
(* Lemmas about the network: what each of its operations does to the state of *)
(* both ends, with the polls and the runtimes as they are.                    *)

LEMMA SidesAre ==
  /\ Sides = {"client", "server"} /\ Peer("client") = "server" /\ Peer("server") = "client"
  /\ \A side \in Sides : /\ Peer(side) \in Sides /\ Peer(side) # side /\ Peer(Peer(side)) = side
                         /\ \A x \in Sides : x = side \/ x = Peer(side)
BY DEF Sides, Peer

\* An offer that still waits, or is still to come, finds no connection up.
LEMMA OfferFindsNone ==
  ASSUME NEW n, NEW p, NEW c, NEW s, OfferedOnce(n, p, c, s), n.conn["server"].native
  PROVE  /\ ~Has(n.callbacks["server"], "Connecting") /\ n.link["server"] # "none"
         /\ ~Has(ToRun(p["server"]), "Connecting")
<1>1. ~Offerable(n, c, s)
  BY DEF Offerable, NoConnection
<1> QED
  BY <1>1 DEF OfferedOnce

\* n2 is n after the library's connection of a side was closed and reported.
Ended(n2, n, side) ==
  /\ n2 \in Nets /\ n2.callbacks = n.callbacks
  /\ n2.link[side] = "closed" /\ n2.link[Peer(side)] = n.link[Peer(side)]
  /\ \A x \in Sides : /\ n2.wire[x] \in {<< >>, n.wire[x]} /\ n2.loose[x] \subseteq n.loose[x]
                      /\ n2.inbox[x] \in {<< >>, n.inbox[x]}
  /\ n2.stray \in {<< >>, n.stray}
  /\ ~n2.conn[side].native
  /\ n2.conn[side].connectedEmitted = n.conn[side].connectedEmitted
  /\ n2.conn[Peer(side)] = n.conn[Peer(side)]
  /\ n2.events[side] = Append(n.events[side], Disconnected)
  /\ n2.events[Peer(side)] = n.events[Peer(side)]

\* Every end of a connection that is up keeps the state sound.
LEMMA EndedKeeps ==
  ASSUME NEW n, NEW p, NEW c, NEW s, NEW side \in Sides, NEW n2,
         Joint("native", n, p, c, s), n.conn[side].native, Ended(n2, n, side),
         p["server"].at = "assign" => side = "client"
  PROVE  Joint("native", n2, p, c, s)
<1> USE SidesAre
<1>1. n \in Nets /\ n2 \in Nets
  BY DEF Joint, Ended
<1>2. \A x \in Sides : n.conn[x] \in Records /\ n2.conn[x] \in Records
  BY <1>1 DEF Nets
<1>3. ASSUME NEW x \in Sides
      PROVE  /\ EndSound("native", n2.conn[x], n2.events[x], ToHandle(p[x]), Unmet(x, c, s))
             /\ Carried(n2, p, c, s, x)
  <2>1. /\ EndSound("native", n.conn[x], n.events[x], ToHandle(p[x]), Unmet(x, c, s))
        /\ Carried(n, p, c, s, x)
    BY DEF Joint
  <2>2. Shaped(n.events[x], ToSide(x, c, s))
    BY <2>1 DEF Carried
  <2>3. /\ EndSound("native", n2.conn[x], n2.events[x], ToHandle(p[x]), Unmet(x, c, s))
        /\ Shaped(n2.events[x], ToSide(x, c, s))
    <3>1. CASE x = side
      <4>1. n2.events[x] = Append(n.events[x], Disconnected) /\ ~n2.conn[x].native
            /\ n2.conn[x].connectedEmitted = n.conn[x].connectedEmitted /\ n.conn[x].native
        BY <3>1 DEF Ended
      <4>2. /\ EndSound("native", n2.conn[x], Append(n.events[x], Disconnected),
                        ToHandle(p[x]), Unmet(x, c, s))
            /\ Shaped(Append(n.events[x], Disconnected), ToSide(x, c, s))
        BY <1>2, <2>1, <2>2, <4>1, EndEnds
      <4> QED BY <4>1, <4>2
    <3>2. CASE x = Peer(side)
      <4>1. n2.events[x] = n.events[x] /\ n2.conn[x] = n.conn[x]
        BY <3>2 DEF Ended
      <4> QED BY <2>1, <2>2, <4>1
    <3>3. x = side \/ x = Peer(side)
      BY SidesAre, Zenon
    <3> QED BY <3>1, <3>2, <3>3, Zenon
  <2>4. Carried(n2, p, c, s, x)
    <3>1. << >> \in Seq(ToSide(x, c, s))
      OBVIOUS
    <3> QED BY <2>1, <2>3, <3>1 DEF Carried, Ended
  <2> QED BY <2>3, <2>4
<1>4. OfferedOnce(n2, p, c, s)
  <2>1. OfferedOnce(n, p, c, s)
    BY DEF Joint
  <2>2. CASE side = "client"
    <3>1. /\ n2.callbacks = n.callbacks /\ n2.link["server"] = n.link["server"]
          /\ n2.conn["server"] = n.conn["server"] /\ n2.events["server"] = n.events["server"]
      BY <2>2 DEF Ended
    <3> QED BY <2>1, <3>1 DEF OfferedOnce, Offerable
  <2>3. CASE side = "server"
    <3>1. n2.callbacks = n.callbacks /\ n2.link["server"] = "closed"
      BY <2>3 DEF Ended
    <3> QED BY <2>1, <2>3, <3>1, OfferFindsNone DEF OfferedOnce
  <2> QED BY <2>2, <2>3
<1>5. p["server"].at = "assign" => n2.conn["server"].native
  BY DEF Joint, Ended
<1> QED
  BY <1>1, <1>3, <1>4, <1>5 DEF Joint

\* n2 is n with a message on its way to a side.
LEMMA NativeSentKeeps ==
  ASSUME NEW n, NEW p, NEW c, NEW s, NEW side \in Sides, NEW m \in ToSide(Peer(side), c, s),
         m \in AnyMessage, Joint("native", n, p, c, s)
  PROVE  /\ Joint("native", NativeSent(n, side, m), p, c, s)
         /\ NativeSent(n, side, m).conn = n.conn /\ NativeSent(n, side, m).events = n.events
<1> USE SidesAre
<1> DEFINE o == Peer(side) n2 == NativeSent(n, side, m)
<1>1. n \in Nets
  BY DEF Joint
<1>2. /\ n2 \in Nets /\ n2.callbacks = n.callbacks /\ n2.link = n.link
      /\ n2.conn = n.conn /\ n2.events = n.events /\ n2.inbox = n.inbox /\ n2.stray = n.stray
      /\ \A x \in Sides : x # o => n2.wire[x] = n.wire[x] /\ n2.loose[x] = n.loose[x]
      /\ n2.wire[o] \in {n.wire[o], Append(n.wire[o], m)}
      /\ n2.loose[o] \in {n.loose[o], n.loose[o] \cup {m}}
  <2>1. CASE n2 = n
    BY <1>1, <2>1
  <2>0. PICK k \in Sides : k = o
    OBVIOUS
  <2>2. CASE n2 = [n EXCEPT !.wire[o] = Append(@, m)]
    <3>1. n2 = [n EXCEPT !.wire[k] = Append(@, m)]
      BY <2>0, <2>2
    <3>2. n2 \in Nets
      <4>1. [n.wire EXCEPT ![k] = Append(@, m)] \in [Sides -> Seq(AnyMessage)]
        BY <1>1 DEF Nets
      <4>2. n2 = [n EXCEPT !.wire = [n.wire EXCEPT ![k] = Append(@, m)]]
        BY <1>1, <3>1 DEF Nets
      <4> QED BY <1>1, <4>1, <4>2 DEF Nets
    <3>3. n2.wire = [n.wire EXCEPT ![k] = Append(@, m)] /\ n2.loose = n.loose
      BY <1>1, <3>1 DEF Nets
    <3>4. /\ n2.callbacks = n.callbacks /\ n2.link = n.link
          /\ n2.conn = n.conn /\ n2.events = n.events /\ n2.inbox = n.inbox /\ n2.stray = n.stray
      BY <1>1, <3>1 DEF Nets
    <3>5. n.wire \in [Sides -> Seq(AnyMessage)]
      BY <1>1 DEF Nets
    <3> QED BY <2>0, <3>2, <3>3, <3>4, <3>5
  <2>3. CASE n2 = [n EXCEPT !.loose[o] = @ \cup {m}]
    <3>1. n2 = [n EXCEPT !.loose[k] = @ \cup {m}]
      BY <2>0, <2>3
    <3>2. n2 \in Nets
      <4>1. [n.loose EXCEPT ![k] = @ \cup {m}] \in [Sides -> SUBSET AnyMessage]
        BY <1>1 DEF Nets
      <4>2. n2 = [n EXCEPT !.loose = [n.loose EXCEPT ![k] = @ \cup {m}]]
        BY <1>1, <3>1 DEF Nets
      <4> QED BY <1>1, <4>1, <4>2 DEF Nets
    <3>3. n2.loose = [n.loose EXCEPT ![k] = @ \cup {m}] /\ n2.wire = n.wire
      BY <1>1, <3>1 DEF Nets
    <3>4. /\ n2.callbacks = n.callbacks /\ n2.link = n.link
          /\ n2.conn = n.conn /\ n2.events = n.events /\ n2.inbox = n.inbox /\ n2.stray = n.stray
      BY <1>1, <3>1 DEF Nets
    <3>5. n.loose \in [Sides -> SUBSET AnyMessage]
      BY <1>1 DEF Nets
    <3> QED BY <2>0, <3>2, <3>3, <3>4, <3>5
  <2> QED BY <2>1, <2>2, <2>3 DEF NativeSent
<1> HIDE DEF n2
<1>3. ASSUME NEW x \in Sides PROVE Carried(n2, p, c, s, x)
  <2>1. Carried(n, p, c, s, x)
    BY DEF Joint
  <2>2. CASE x = o
    <3> DEFINE M == ToSide(x, c, s)
    <3>1. m \in M /\ n.wire[x] \in Seq(M) /\ n.loose[x] \subseteq M
      BY <2>1, <2>2 DEF Carried
    <3> HIDE DEF M
    <3>2. n2.wire[x] \in Seq(M) /\ n2.loose[x] \subseteq M
      <4>1. Append(n.wire[x], m) \in Seq(M)
        BY <3>1
      <4>2. n2.wire[x] \in {n.wire[x], Append(n.wire[x], m)}
            /\ n2.loose[x] \in {n.loose[x], n.loose[x] \cup {m}}
        BY <1>2, <2>2, Zenon
      <4> QED BY <3>1, <4>1, <4>2
    <3> QED BY <1>2, <2>1, <3>2 DEF Carried, M
  <2>3. CASE x # o
    BY <1>2, <2>1, <2>3 DEF Carried
  <2> QED BY <2>2, <2>3
<1>4. OfferedOnce(n2, p, c, s)
  BY <1>2 DEF Joint, OfferedOnce, Offerable
<1>5. Joint("native", n2, p, c, s)
  BY <1>2, <1>3, <1>4 DEF Joint
<1> QED
  BY <1>2, <1>5 DEF n2

\* Emit changes one queue.
LEMMA EmitIs ==
  ASSUME NEW n \in Nets, NEW side \in Sides, NEW e \in EventsOf(AnyMessage)
  PROVE  /\ Emit(n, side, e) \in Nets
         /\ Emit(n, side, e) =
              [n EXCEPT !.events = [n.events EXCEPT ![side] = Append(n.events[side], e)]]
<1> DEFINE f == [n.events EXCEPT ![side] = Append(n.events[side], e)]
<1>1. n.events \in [Sides -> Seq(EventsOf(AnyMessage))]
  BY DEF Nets
<1>2. Append(n.events[side], e) \in Seq(EventsOf(AnyMessage))
  BY <1>1
<1>3. f \in [Sides -> Seq(EventsOf(AnyMessage))]
  BY <1>1, <1>2
<1>4. Emit(n, side, e) = [n EXCEPT !.events = f]
  BY DEF Emit, Nets
<1> HIDE DEF f
<1>5. [n EXCEPT !.events = f] \in Nets
  BY <1>3 DEF Nets
<1> QED
  BY <1>4, <1>5 DEF f

\* CloseConnection changes one side's end.
LEMMA CloseNativeIs ==
  ASSUME NEW n \in Nets, NEW side \in Sides
  PROVE  CloseNative(n, side) =
           [n EXCEPT !.link = [n.link EXCEPT ![side] = "closed"],
                     !.wire = [n.wire EXCEPT ![side] = << >>],
                     !.loose = [n.loose EXCEPT ![side] = {}],
                     !.inbox = [n.inbox EXCEPT ![side] = << >>],
                     !.stray = IF side = "server" THEN << >> ELSE n.stray,
                     !.conn = [n.conn EXCEPT ![side] = [n.conn[side] EXCEPT !.native = FALSE]]]
BY DEF Nets, CloseNative

\* An endpoint's record is replaced, its end closed and the end reported.
LEMMA ClosedEnds ==
  ASSUME NEW n \in Nets, NEW side \in Sides, NEW r \in Records,
         r.connectedEmitted = n.conn[side].connectedEmitted, NEW m,
         m = [n EXCEPT !.conn = [n.conn EXCEPT ![side] = r]]
  PROVE  Ended(Emit(CloseNative(m, side), side, Disconnected), n, side)
<1> DEFINE f == [n.conn EXCEPT ![side] = r]
           g == [n.conn EXCEPT ![side] = [r EXCEPT !.native = FALSE]]
           stray == IF side = "server" THEN << >> ELSE n.stray
           n1 == CloseNative(m, side)
           n2 == Emit(n1, side, Disconnected)
           e == [n.events EXCEPT ![side] = Append(n.events[side], Disconnected)]
<1>1. /\ n.conn \in [Sides -> Records] /\ n.link \in [Sides -> Links]
      /\ n.wire \in [Sides -> Seq(AnyMessage)] /\ n.inbox \in [Sides -> Seq(AnyMessage)]
      /\ n.loose \in [Sides -> SUBSET AnyMessage] /\ n.stray \in Seq(AnyMessage)
      /\ n.events \in [Sides -> Seq(EventsOf(AnyMessage))]
  BY DEF Nets
<1>2. f \in [Sides -> Records] /\ m \in Nets /\ m.conn = f
      /\ m.link = n.link /\ m.wire = n.wire /\ m.loose = n.loose /\ m.inbox = n.inbox
      /\ m.stray = n.stray /\ m.events = n.events /\ m.callbacks = n.callbacks
      /\ m.grouped = n.grouped
  <2>1. f \in [Sides -> Records]
    BY <1>1
  <2> HIDE DEF f
  <2> QED BY <2>1 DEF Nets, f
<1>3. [f[side] EXCEPT !.native = FALSE] = [r EXCEPT !.native = FALSE]
      /\ [r EXCEPT !.native = FALSE] \in Records /\ ~[r EXCEPT !.native = FALSE].native
      /\ [r EXCEPT !.native = FALSE].connectedEmitted = n.conn[side].connectedEmitted
  BY <1>1 DEF Records
<1>4. [f EXCEPT ![side] = [f[side] EXCEPT !.native = FALSE]] = g
  BY <1>1, <1>3
<1>5. /\ [n.link EXCEPT ![side] = "closed"] \in [Sides -> Links]
      /\ [n.wire EXCEPT ![side] = << >>] \in [Sides -> Seq(AnyMessage)]
      /\ [n.loose EXCEPT ![side] = {}] \in [Sides -> SUBSET AnyMessage]
      /\ [n.inbox EXCEPT ![side] = << >>] \in [Sides -> Seq(AnyMessage)]
      /\ g \in [Sides -> Records] /\ stray \in Seq(AnyMessage)
  BY <1>1, <1>3 DEF Links
<1>6. e \in [Sides -> Seq(EventsOf(AnyMessage))]
  <2>1. Disconnected \in EventsOf(AnyMessage) /\ n.events[side] \in Seq(EventsOf(AnyMessage))
    BY <1>1 DEF EventsOf
  <2>2. Append(n.events[side], Disconnected) \in Seq(EventsOf(AnyMessage))
    BY <2>1
  <2> QED BY <1>1, <2>2
<1> HIDE DEF f, g, e, stray
<1>7. n1 = [m EXCEPT !.link = [n.link EXCEPT ![side] = "closed"],
                     !.wire = [n.wire EXCEPT ![side] = << >>],
                     !.loose = [n.loose EXCEPT ![side] = {}],
                     !.inbox = [n.inbox EXCEPT ![side] = << >>],
                     !.stray = stray, !.conn = g]
  <2>1. n1 = [m EXCEPT !.link = [m.link EXCEPT ![side] = "closed"],
                       !.wire = [m.wire EXCEPT ![side] = << >>],
                       !.loose = [m.loose EXCEPT ![side] = {}],
                       !.inbox = [m.inbox EXCEPT ![side] = << >>],
                       !.stray = IF side = "server" THEN << >> ELSE m.stray,
                       !.conn = [m.conn EXCEPT ![side] = [m.conn[side] EXCEPT !.native = FALSE]]]
    <3>1. m \in Nets /\ side \in Sides
      BY <1>2
    <3> QED BY <3>1, CloseNativeIs, Zenon
  <2>2. (IF side = "server" THEN << >> ELSE m.stray) = stray
    BY <1>2 DEF stray
  <2> HIDE DEF n1
  <2> QED BY <1>2, <1>4, <2>1, <2>2
<1> HIDE DEF n1
<1>8. n1 \in Nets /\ n1.events = n.events /\ n1.callbacks = n.callbacks
      /\ n1.link = [n.link EXCEPT ![side] = "closed"]
      /\ n1.wire = [n.wire EXCEPT ![side] = << >>]
      /\ n1.loose = [n.loose EXCEPT ![side] = {}]
      /\ n1.inbox = [n.inbox EXCEPT ![side] = << >>]
      /\ n1.stray = stray /\ n1.conn = g
  BY <1>2, <1>5, <1>7 DEF Nets
<1>9. n2 = [n1 EXCEPT !.events = e]
  BY <1>8 DEF Emit, Nets, e
<1> HIDE DEF n2
<1>10. n2 \in Nets /\ n2.events = e /\ n2.callbacks = n.callbacks
       /\ n2.link = [n.link EXCEPT ![side] = "closed"]
       /\ n2.wire = [n.wire EXCEPT ![side] = << >>]
       /\ n2.loose = [n.loose EXCEPT ![side] = {}]
       /\ n2.inbox = [n.inbox EXCEPT ![side] = << >>]
       /\ n2.stray = stray /\ n2.conn = g
  BY <1>6, <1>8, <1>9 DEF Nets
<1>11. /\ Peer(side) \in Sides /\ Peer(side) # side /\ stray \in {<< >>, n.stray}
       /\ g[side] = [r EXCEPT !.native = FALSE] /\ g[Peer(side)] = n.conn[Peer(side)]
       /\ e[side] = Append(n.events[side], Disconnected)
       /\ e[Peer(side)] = n.events[Peer(side)]
  BY <1>1, SidesAre DEF g, e, stray
<1>12. \A x \in Sides : /\ n2.wire[x] \in {<< >>, n.wire[x]} /\ n2.loose[x] \subseteq n.loose[x]
                        /\ n2.inbox[x] \in {<< >>, n.inbox[x]}
  BY <1>1, <1>10
<1>13. n2.link[side] = "closed" /\ n2.link[Peer(side)] = n.link[Peer(side)]
  BY <1>1, <1>10, <1>11
<1>14. Ended(n2, n, side)
  BY <1>3, <1>10, <1>11, <1>12, <1>13 DEF Ended
<1> QED
  BY <1>14 DEF n2, n1

\* disconnect over the library.
LEMMA NativeDisconnectedKeeps ==
  ASSUME NEW n, NEW p, NEW c, NEW s, NEW side \in Sides,
         Joint("native", n, p, c, s), n.conn[side].native,
         p["server"].at = "assign" => side = "client"
  PROVE  /\ Ended(NativeDisconnected(n, side), n, side)
         /\ Joint("native", NativeDisconnected(n, side), p, c, s)
<1> DEFINE r == [n.conn[side] EXCEPT !.state = "Disconnected", !.disconnectEmitted = TRUE]
           m == [n EXCEPT !.conn = [n.conn EXCEPT ![side] = r]]
<1>1. n \in Nets /\ n.conn \in [Sides -> Records]
  BY DEF Joint, Nets
<1>2. r \in Records /\ r.connectedEmitted = n.conn[side].connectedEmitted
  BY <1>1 DEF Records, ConnectionStates
<1>3. NativeDisconnected(n, side) = Emit(CloseNative(m, side), side, Disconnected)
  <2>1. [n EXCEPT !.conn[side].state = "Disconnected", !.conn[side].disconnectEmitted = TRUE] = m
    BY <1>1 DEF Nets
  <2> QED BY <2>1 DEF NativeDisconnected
<1> HIDE DEF r
<1>4. Ended(Emit(CloseNative(m, side), side, Disconnected), n, side)
  BY <1>1, <1>2, ClosedEnds
<1>5. Ended(NativeDisconnected(n, side), n, side)
  BY <1>3, <1>4
<1> QED
  BY <1>5, EndedKeeps

\* finish_connection after the library told the state of a connection that the
\* endpoint has.
LEMMA FinishedKeeps ==
  ASSUME NEW n, NEW p, NEW c, NEW s, NEW side \in Sides, NEW x \in ConnectionStates,
         Joint("native", n, p, c, s), n.conn[side].native,
         p["server"].at = "assign" => side = "client"
  PROVE  LET n2 == FinishConnection([n EXCEPT !.conn[side].state = x], side)
         IN  Ended(n2, n, side) /\ Joint("native", n2, p, c, s)
<1> DEFINE k == [n EXCEPT !.conn[side].state = x]
           r == [n.conn[side] EXCEPT !.state = x, !.disconnectEmitted = TRUE]
           m == [n EXCEPT !.conn = [n.conn EXCEPT ![side] = r]]
<1>1. n \in Nets /\ n.conn \in [Sides -> Records]
  BY DEF Joint, Nets
<1>2. r \in Records /\ r.connectedEmitted = n.conn[side].connectedEmitted
  BY <1>1 DEF Records
<1>3. ~n.conn[side].disconnectEmitted
  BY DEF Joint, EndSound
<1>4. k.conn = [n.conn EXCEPT ![side] = [n.conn[side] EXCEPT !.state = x]]
  BY <1>1 DEF Nets
<1>5. ~k.conn[side].disconnectEmitted
  BY <1>1, <1>3, <1>4 DEF Records
<1>6. [k EXCEPT !.conn[side].disconnectEmitted = TRUE] = m
  BY <1>1 DEF Nets
<1>7. FinishConnection(k, side) = Emit(CloseNative(m, side), side, Disconnected)
  BY <1>5, <1>6 DEF FinishConnection
<1> HIDE DEF r, k
<1>8. Ended(Emit(CloseNative(m, side), side, Disconnected), n, side)
  BY <1>1, <1>2, ClosedEnds
<1>9. Ended(FinishConnection(k, side), n, side)
  BY <1>7, <1>8
<1>10. Joint("native", FinishConnection(k, side), p, c, s)
  BY <1>9, EndedKeeps
<1> QED
  BY <1>9, <1>10 DEF k

\* disconnect in memory ends the connection for both sides.
LEMMA MemoryDisconnectedKeeps ==
  ASSUME NEW n, NEW p, NEW c, NEW s, NEW side \in Sides,
         Joint("memory", n, p, c, s), n.conn[side].native
  PROVE  /\ Joint("memory", MemoryDisconnected(n, side), p, c, s)
         /\ \A x \in Sides : ~MemoryDisconnected(n, side).conn[x].native
<1> DEFINE lost(x) == [n.conn[x] EXCEPT !.native = FALSE]
           down == [n EXCEPT !.conn["client"].native = FALSE, !.conn["server"].native = FALSE]
           n2 == MemoryDisconnected(n, side)
           f == [x \in Sides |-> lost(x)]
           e == [x \in Sides |-> Append(n.events[x], Disconnected)]
<1>1. /\ n \in Nets /\ n.conn \in [Sides -> Records]
      /\ n.events \in [Sides -> Seq(EventsOf(AnyMessage))]
  BY DEF Joint, Nets
<1>2. \A x \in Sides : /\ lost(x) \in Records /\ ~lost(x).native
                       /\ lost(x).connectedEmitted = n.conn[x].connectedEmitted
  BY <1>1 DEF Records
<1>3. down = [n EXCEPT !.conn = f]
  <2>1. [n.conn EXCEPT !["client"] = lost("client"), !["server"] = lost("server")] = f
    BY <1>1, SidesAre
  <2>2. down = [n EXCEPT !.conn = [n.conn EXCEPT !["client"] = lost("client"),
                                                 !["server"] = lost("server")]]
    BY <1>1, SidesAre DEF Nets
  <2> QED BY <2>1, <2>2
<1>4. f \in [Sides -> Records]
  BY <1>2
<1>5. e \in [Sides -> Seq(EventsOf(AnyMessage))]
  <2>1. Disconnected \in EventsOf(AnyMessage)
    BY DEF EventsOf
  <2>2. \A x \in Sides : Append(n.events[x], Disconnected) \in Seq(EventsOf(AnyMessage))
    BY <1>1, <2>1
  <2> QED BY <2>2
<1> HIDE DEF lost, f, down
<1>6. down \in Nets /\ down.conn = f /\ down.events = n.events
      /\ down.link = n.link /\ down.callbacks = n.callbacks /\ down.wire = n.wire
      /\ down.loose = n.loose /\ down.inbox = n.inbox /\ down.stray = n.stray
  BY <1>1, <1>3, <1>4 DEF Nets
<1>7. n2 = [down EXCEPT !.events = e]
  <2> DEFINE n1 == Emit(down, side, Disconnected)
  <2>1. Disconnected \in EventsOf(AnyMessage)
    BY DEF EventsOf
  <2>2. PICK o \in Sides : o = Peer(side) /\ o # side /\ \A x \in Sides : x = side \/ x = o
    BY SidesAre
  <2>3. /\ n1 \in Nets /\ n1.events = [n.events EXCEPT ![side] = Append(n.events[side], Disconnected)]
        /\ n1 = [down EXCEPT !.events = n1.events]
    <3>1. n1 \in Nets
          /\ n1 = [down EXCEPT !.events =
                     [down.events EXCEPT ![side] = Append(down.events[side], Disconnected)]]
      BY <1>6, <2>1, EmitIs
    <3> HIDE DEF n1
    <3> QED BY <1>6, <3>1 DEF Nets
  <2>4. n2 = Emit(n1, o, Disconnected)
    BY <2>2 DEF MemoryDisconnected, down
  <2> HIDE DEF n1, n2
  <2>5. /\ n2.events = [n1.events EXCEPT ![o] = Append(n1.events[o], Disconnected)]
        /\ n2 = [n1 EXCEPT !.events = n2.events]
    <3>1. n1 \in Nets /\ o \in Sides
      BY <2>3
    <3>2. Emit(n1, o, Disconnected) =
            [n1 EXCEPT !.events = [n1.events EXCEPT ![o] = Append(n1.events[o], Disconnected)]]
      BY <2>1, <3>1, EmitIs
    <3> QED BY <2>4, <3>1, <3>2 DEF Nets
  <2>6. n2.events = e
    <3>1. n1.events[o] = n.events[o] /\ n1.events[side] = Append(n.events[side], Disconnected)
      BY <1>1, <2>2, <2>3
    <3>2. n2.events \in [Sides -> Seq(EventsOf(AnyMessage))]
          /\ n2.events[o] = Append(n.events[o], Disconnected)
          /\ n2.events[side] = Append(n.events[side], Disconnected)
      <4>1. /\ n1.events \in [Sides -> Seq(EventsOf(AnyMessage))]
            /\ Append(n1.events[o], Disconnected) \in Seq(EventsOf(AnyMessage))
        BY <1>1, <2>1, <2>3 DEF Nets
      <4> QED BY <2>2, <2>5, <3>1, <4>1
    <3> QED BY <1>1, <2>2, <3>2 DEF e
  <2>7. PICK d : d = n1.events
    OBVIOUS
  <2>8. n1 = [down EXCEPT !.events = d] /\ n2 = [n1 EXCEPT !.events = e]
    BY <2>3, <2>5, <2>6, <2>7, Zenon
  <2>9. n2 = [[down EXCEPT !.events = d] EXCEPT !.events = e]
    BY <2>8, Zenon
  <2>10. [[down EXCEPT !.events = d] EXCEPT !.events = e] = [down EXCEPT !.events = e]
    BY ONLY <1>6 DEF Nets
  <2> QED BY <2>9, <2>10, Zenon
<1> HIDE DEF n2, e
<1>8. n2 \in Nets /\ n2.conn = f /\ n2.events = e
      /\ n2.link = n.link /\ n2.callbacks = n.callbacks /\ n2.wire = n.wire
      /\ n2.loose = n.loose /\ n2.inbox = n.inbox /\ n2.stray = n.stray
  BY <1>5, <1>6, <1>7 DEF Nets
<1>9. MemoryShared(n, p)
  BY DEF Joint
<1>10. \A x \in Sides : n.conn[x].native
  BY <1>9, SidesAre DEF MemoryShared
<1>11. ASSUME NEW x \in Sides
       PROVE  /\ EndSound("memory", n2.conn[x], n2.events[x], ToHandle(p[x]), Unmet(x, c, s))
              /\ Carried(n2, p, c, s, x)
  <2>1. /\ EndSound("memory", n.conn[x], n.events[x], ToHandle(p[x]), Unmet(x, c, s))
        /\ Carried(n, p, c, s, x)
    BY DEF Joint
  <2>2. n2.conn[x] = lost(x) /\ n2.events[x] = Append(n.events[x], Disconnected)
    BY <1>8 DEF e, f
  <2>3. Shaped(n.events[x], ToSide(x, c, s)) /\ n.conn[x] \in Records
    BY <1>1, <2>1 DEF Carried
  <2>4. /\ EndSound("memory", lost(x), Append(n.events[x], Disconnected),
                    ToHandle(p[x]), Unmet(x, c, s))
        /\ Shaped(Append(n.events[x], Disconnected), ToSide(x, c, s))
    BY <1>2, <1>10, <2>1, <2>3, EndEnds
  <2> QED BY <1>8, <2>1, <2>2, <2>4 DEF Carried
<1>12. MemoryShared(n2, p)
  <2>1. n2.conn["client"].native = n2.conn["server"].native
    BY <1>2, <1>8, SidesAre DEF f, lost, Records
  <2> QED BY <1>8, <1>9, <2>1 DEF MemoryShared
<1>13. n2.conn["server"].native \/ p["server"].at # "assign"
  BY <1>9, SidesAre DEF MemoryShared
<1>14. \A x \in Sides : ~n2.conn[x].native
  BY <1>2, <1>8 DEF f
<1>15. Joint("memory", n2, p, c, s)
  BY <1>8, <1>11, <1>12, <1>13 DEF Joint
<1> QED
  BY <1>14, <1>15 DEF n2

\* In memory a message goes into the queue of the peer, which is up as well.
LEMMA MemorySentKeeps ==
  ASSUME NEW n, NEW p, NEW c, NEW s, NEW side \in Sides, NEW m \in ToSide(Peer(side), c, s),
         m \in AnyMessage, Joint("memory", n, p, c, s), n.conn[side].native
  PROVE  /\ Joint("memory", MemorySent(n, side, m), p, c, s)
         /\ MemorySent(n, side, m).conn = n.conn
<1> DEFINE v == PayloadReceived(m)
           n2 == MemorySent(n, side, m)
<1>0. PICK o \in Sides : o = Peer(side)
  BY SidesAre
<1> DEFINE e == [n.events EXCEPT ![o] = Append(n.events[o], v)]
<1>1. n \in Nets /\ n.conn \in [Sides -> Records]
      /\ n.events \in [Sides -> Seq(EventsOf(AnyMessage))]
  BY DEF Joint, Nets
<1>2. e \in [Sides -> Seq(EventsOf(AnyMessage))]
  <2>1. v \in EventsOf(AnyMessage)
    BY DEF EventsOf
  <2> HIDE DEF v
  <2>2. Append(n.events[o], v) \in Seq(EventsOf(AnyMessage))
    BY <1>1, <2>1
  <2> QED BY <1>1, <2>2
<1>3. n2 = [n EXCEPT !.events = e]
  BY <1>0, <1>1 DEF MemorySent, Emit, Nets
<1> HIDE DEF n2, e, v
<1>4. n2 \in Nets /\ n2.events = e
      /\ n2.link = n.link /\ n2.callbacks = n.callbacks /\ n2.wire = n.wire
      /\ n2.loose = n.loose /\ n2.inbox = n.inbox /\ n2.stray = n.stray /\ n2.conn = n.conn
  BY <1>1, <1>2, <1>3 DEF Nets
<1>5. MemoryShared(n, p)
  BY DEF Joint
<1>6. n.conn[o].native
  BY <1>0, <1>5, SidesAre DEF MemoryShared
<1>7. ASSUME NEW x \in Sides
      PROVE  /\ EndSound("memory", n2.conn[x], n2.events[x], ToHandle(p[x]), Unmet(x, c, s))
             /\ Carried(n2, p, c, s, x)
  <2>1. /\ EndSound("memory", n.conn[x], n.events[x], ToHandle(p[x]), Unmet(x, c, s))
        /\ Carried(n, p, c, s, x)
    BY DEF Joint
  <2>2. /\ EndSound("memory", n2.conn[x], n2.events[x], ToHandle(p[x]), Unmet(x, c, s))
        /\ Shaped(n2.events[x], ToSide(x, c, s))
    <3>1. CASE x # o
      <4>1. n2.events[x] = n.events[x]
        BY <1>1, <1>4, <3>1 DEF e
      <4> QED BY <1>4, <2>1, <4>1 DEF Carried
    <3>2. CASE x = o
      <4>1. n2.events[x] = Append(n.events[x], PayloadReceived(m))
        BY <1>1, <1>4, <3>2 DEF e, v
      <4>2. m \in ToSide(x, c, s) /\ Shaped(n.events[x], ToSide(x, c, s))
            /\ n.conn[x] \in Records /\ n.conn[x].native
        BY <1>0, <1>1, <1>6, <2>1, <3>2 DEF Carried
      <4>3. /\ EndSound("memory", n.conn[x], Append(n.events[x], PayloadReceived(m)),
                        ToHandle(p[x]), Unmet(x, c, s))
            /\ Shaped(Append(n.events[x], PayloadReceived(m)), ToSide(x, c, s))
        BY <2>1, <4>2, EndReceives
      <4> QED BY <1>4, <4>1, <4>3
    <3> QED BY <3>1, <3>2
  <2> QED BY <1>4, <2>1, <2>2 DEF Carried
<1>8. MemoryShared(n2, p)
  BY <1>4, <1>5 DEF MemoryShared
<1>9. n2.conn["server"].native \/ p["server"].at # "assign"
  BY <1>5, SidesAre DEF MemoryShared
<1>10. Joint("memory", n2, p, c, s)
  BY <1>4, <1>7, <1>8, <1>9 DEF Joint
<1> QED
  BY <1>4, <1>10 DEF n2

\* disconnect over either transport leaves the side without a connection.
LEMMA DisconnectKeeps ==
  ASSUME transport \in {"native", "memory"}, NEW n, NEW p, NEW c, NEW s, NEW side \in Sides,
         Joint(transport, n, p, c, s), p["server"].at = "assign" => side = "client"
  PROVE  /\ Joint(transport, Disconnect(n, side), p, c, s)
         /\ ~Disconnect(n, side).conn[side].native
         /\ Disconnect(n, side).conn[Peer(side)].native => n.conn[Peer(side)].native
<1>1. CanDisconnect(n, side) <=> n.conn[side].native
  BY DEF Joint, EndSound, CanDisconnect
<1>2. CASE ~n.conn[side].native
  BY <1>1, <1>2 DEF Disconnect
<1>3. CASE n.conn[side].native /\ transport = "memory"
  BY <1>1, <1>3, MemoryDisconnectedKeeps, SidesAre DEF Disconnect
<1>4. CASE n.conn[side].native /\ transport = "native"
  <2>1. Disconnect(n, side) = NativeDisconnected(n, side)
    BY <1>1, <1>4 DEF Disconnect
  <2>2. /\ Ended(NativeDisconnected(n, side), n, side)
        /\ Joint("native", NativeDisconnected(n, side), p, c, s)
    BY <1>4, NativeDisconnectedKeeps
  <2>3. PICK n2 : n2 = NativeDisconnected(n, side)
    OBVIOUS
  <2> QED BY <1>4, <2>1, <2>2, <2>3 DEF Ended
<1> QED
  BY <1>2, <1>3, <1>4

\* send over either transport, of a message the peer may get.
LEMMA SentKeeps ==
  ASSUME transport \in {"native", "memory"}, NEW n, NEW p, NEW c, NEW s, NEW side \in Sides,
         Joint(transport, n, p, c, s), CanSend(n, side),
         NEW m \in ToSide(Peer(side), c, s), m \in AnyMessage
  PROVE  /\ Joint(transport, Sent(n, side, m), p, c, s)
         /\ Sent(n, side, m).conn = n.conn
<1>1. CASE transport = "memory"
  BY <1>1, MemorySentKeeps DEF Sent, CanSend, MemoryCanSend
<1>2. CASE transport = "native"
  BY <1>2, NativeSentKeeps DEF Sent
<1> QED
  BY <1>1, <1>2

-----------------------------------------------------------------------------
(* Lemmas about the runtimes.                                                 *)

\* What may be sent is a message.
LEMMA ToSideMessages ==
  ASSUME NEW c, NEW s \in ServerRecords, NEW side
  PROVE  ToSide(side, c, s) \subseteq AnyMessage
<1>1. s.id \in Nat
  BY DEF ServerRecords
<1> QED
  BY <1>1 DEF ToSide, AnyMessage

\* A change of the runtimes alone, between two events or in the middle of one.
LEMMA RuntimesChange ==
  ASSUME NEW t, NEW n, NEW p, NEW c, NEW s, NEW c2 \in ClientRecords, NEW s2 \in ServerRecords,
         Joint(t, n, p, c, s), RuntimesSound(c2, s2),
         \A side \in Sides : /\ ToSide(side, c, s) \subseteq ToSide(side, c2, s2)
                             /\ Unmet(side, c, s) <=> Unmet(side, c2, s2)
  PROVE  Joint(t, n, p, c2, s2)
<1>1. ASSUME NEW x \in Sides
      PROVE  /\ EndSound(t, n.conn[x], n.events[x], ToHandle(p[x]), Unmet(x, c2, s2))
             /\ Carried(n, p, c2, s2, x)
  <2>1. /\ EndSound(t, n.conn[x], n.events[x], ToHandle(p[x]), Unmet(x, c, s))
        /\ Carried(n, p, c, s, x)
    BY DEF Joint
  <2>2. Unmet(x, c, s) <=> Unmet(x, c2, s2)
    OBVIOUS
  <2>3. EndSound(t, n.conn[x], n.events[x], ToHandle(p[x]), Unmet(x, c2, s2))
    BY <2>1, <2>2 DEF EndSound
  <2>4. Carried(n, p, c2, s2, x)
    <3> DEFINE M == ToSide(x, c, s) N == ToSide(x, c2, s2)
    <3>1. M \subseteq N /\ Seq(M) \subseteq Seq(N)
      OBVIOUS
    <3>2. /\ n.wire[x] \in Seq(M) /\ n.loose[x] \subseteq M /\ n.inbox[x] \in Seq(M)
          /\ x = "server" => n.stray \in Seq(M)
          /\ Shaped(n.events[x], M) /\ Shaped(ToHandle(p[x]), M)
      BY <2>1 DEF Carried
    <3> HIDE DEF M, N
    <3>3. Shaped(n.events[x], N) /\ Shaped(ToHandle(p[x]), N)
      BY <3>1, <3>2, ShapedGrows
    <3>4. /\ n.wire[x] \in Seq(N) /\ n.loose[x] \subseteq N /\ n.inbox[x] \in Seq(N)
          /\ x = "server" => n.stray \in Seq(N)
      BY <3>1, <3>2
    <3> QED BY <3>3, <3>4 DEF Carried, N
  <2> QED BY <2>3, <2>4
<1>2. OfferedOnce(n, p, c, s) => OfferedOnce(n, p, c2, s2)
  <2>1. Offerable(n, c, s) => Offerable(n, c2, s2)
    BY SidesAre DEF Offerable
  <2> QED BY <2>1 DEF OfferedOnce
<1> QED
  BY <1>1, <1>2 DEF Joint

\* A runtime takes an event off its batch and changes with it.
LEMMA HandlesKeeps ==
  ASSUME NEW t \in {"native", "memory"}, NEW n, NEW p, NEW c, NEW s, NEW side \in Sides,
         Joint(t, n, p, c, s), p[side].at = "events", p[side].batch # << >>,
         NEW c2 \in ClientRecords, NEW s2 \in ServerRecords, RuntimesSound(c2, s2),
         \A x \in Sides : ToSide(x, c, s) \subseteq ToSide(x, c2, s2),
         Unmet(Peer(side), c, s) <=> Unmet(Peer(side), c2, s2),
         Unmet(side, c2, s2) => Unmet(side, c, s),
         Unmet(side, c, s) /\ ~Unmet(side, c2, s2) =>
           \/ Head(p[side].batch) = Connected
           \/ side = "client" /\ Head(p[side].batch) = Disconnected
  PROVE  Joint(t, n, [p EXCEPT ![side].batch = Tail(@)], c2, s2)
<1> DEFINE q == [p EXCEPT ![side].batch = Tail(@)]
<1>1. n \in Nets /\ p \in [Sides -> Polling] /\ \A x \in Sides : n.conn[x] \in Records
  BY DEF Joint, Nets
<1>2. ToHandle(p[side]) = p[side].batch /\ ToRun(p[side]) = << >>
  BY DEF ToHandle, ToRun
<1>3. Carried(n, p, c, s, side)
  BY DEF Joint
<1>4. Shaped(p[side].batch, ToSide(side, c, s))
  BY <1>2, <1>3 DEF Carried
<1>5. Shaped(Tail(p[side].batch), ToSide(side, c, s))
  BY <1>4, ShapedTail
<1>6. /\ q[side].at = "events" /\ q[side].batch = Tail(p[side].batch)
      /\ ToHandle(q[side]) = Tail(p[side].batch) /\ ToRun(q[side]) = << >>
      /\ \A x \in Sides : x # side => q[x] = p[x]
      /\ \A x \in Sides : q[x].at = p[x].at /\ ToRun(q[x]) = ToRun(p[x])
  BY <1>1, <1>2 DEF ToHandle, ToRun, Polling
<1>7. q \in [Sides -> Polling]
  <2>1. Tail(p[side].batch) \in Seq(EventsOf(AnyMessage))
    <3>1. p[side].batch \in Seq(EventsOf(AnyMessage))
      <4>1. ToSide(side, c, s) \subseteq AnyMessage
        BY ToSideMessages DEF Joint
      <4>2. Shaped(p[side].batch, AnyMessage)
        BY <1>4, <4>1, ShapedGrows
      <4> QED BY <4>2 DEF Shaped
    <3> QED BY <3>1
  <2>2. [p[side] EXCEPT !.batch = Tail(@)] \in Polling
    BY <1>1, <2>1 DEF Polling
  <2> QED BY <1>1, <2>2
<1> HIDE DEF q
<1>8. ASSUME NEW x \in Sides
      PROVE  /\ EndSound(t, n.conn[x], n.events[x], ToHandle(q[x]), Unmet(x, c2, s2))
             /\ Carried(n, q, c2, s2, x)
             /\ q[x].at \in {"callbacks", "assign"} => q[x].batch \in Seq(Statuses)
  <2>1. /\ EndSound(t, n.conn[x], n.events[x], ToHandle(p[x]), Unmet(x, c, s))
        /\ Carried(n, p, c, s, x)
        /\ p[x].at \in {"callbacks", "assign"} => p[x].batch \in Seq(Statuses)
    BY DEF Joint
  <2>2. EndSound(t, n.conn[x], n.events[x], ToHandle(q[x]), Unmet(x, c2, s2))
    <3>1. CASE x = side
      <4>1. Unmet(side, c, s) \in BOOLEAN /\ Unmet(side, c2, s2) \in BOOLEAN
        BY DEF Unmet, Joint, ClientRecords, ServerRecords
      <4>2. EndSound(t, n.conn[side], n.events[side], p[side].batch, Unmet(side, c, s))
        BY <1>2, <2>1, <3>1
      <4>3. EndSound(t, n.conn[side], n.events[side], Tail(p[side].batch), Unmet(side, c2, s2))
        BY <1>1, <1>4, <4>1, <4>2, EndHandles
      <4> QED BY <1>6, <3>1, <4>3
    <3>2. CASE x # side
      <4>1. q[x] = p[x] /\ x = Peer(side)
        BY <1>6, <3>2, SidesAre
      <4>2. Unmet(x, c, s) <=> Unmet(x, c2, s2)
        BY <4>1
      <4> QED BY <2>1, <4>1, <4>2 DEF EndSound
    <3> QED BY <3>1, <3>2
  <2>3. Carried(n, q, c2, s2, x)
    <3> DEFINE M == ToSide(x, c, s) N == ToSide(x, c2, s2)
    <3>1. M \subseteq N /\ Seq(M) \subseteq Seq(N)
      OBVIOUS
    <3>2. /\ n.wire[x] \in Seq(M) /\ n.loose[x] \subseteq M /\ n.inbox[x] \in Seq(M)
          /\ x = "server" => n.stray \in Seq(M)
          /\ Shaped(n.events[x], M) /\ Shaped(ToHandle(p[x]), M)
      BY <2>1 DEF Carried
    <3>3. Shaped(ToHandle(q[x]), M)
      <4>1. CASE x = side
        BY <1>5, <1>6, <4>1
      <4>2. CASE x # side
        BY <1>6, <3>2, <4>2
      <4> QED BY <4>1, <4>2
    <3> HIDE DEF M, N
    <3>4. Shaped(n.events[x], N) /\ Shaped(ToHandle(q[x]), N)
      BY <3>1, <3>2, <3>3, ShapedGrows
    <3>5. /\ n.wire[x] \in Seq(N) /\ n.loose[x] \subseteq N /\ n.inbox[x] \in Seq(N)
          /\ x = "server" => n.stray \in Seq(N)
      BY <3>1, <3>2
    <3> QED BY <3>4, <3>5 DEF Carried, N
  <2>4. q[x].at \in {"callbacks", "assign"} => q[x].batch \in Seq(Statuses)
    BY <1>6, <2>1
  <2> QED BY <2>2, <2>3, <2>4
<1>9. t = "native" => OfferedOnce(n, q, c2, s2)
  <2>1. SUFFICES ASSUME t = "native" PROVE OfferedOnce(n, q, c2, s2)
    OBVIOUS
  <2>2. OfferedOnce(n, p, c, s)
    BY <2>1 DEF Joint
  <2>3. Offerable(n, c, s) => Offerable(n, c2, s2)
    <3>1. SUFFICES ASSUME Offerable(n, c, s) PROVE Unmet("server", c2, s2)
      BY DEF Offerable
    <3>2. CASE side = "client"
      BY <3>1, <3>2, SidesAre DEF Offerable
    <3>3. CASE side = "server"
      <4>1. ~n.conn[side].connectedEmitted /\ Unmet(side, c, s)
        BY <3>1, <3>3 DEF Offerable, NoConnection
      <4>2. ~Has(p[side].batch, Connected)
        BY <1>2, <2>1, <4>1 DEF Joint, EndSound
      <4>3. Has(p[side].batch, Head(p[side].batch))
        BY <1>4, ShapedTail
      <4> QED BY <3>3, <4>1, <4>2, <4>3
    <3> QED BY <3>2, <3>3, SidesAre
  <2>4. \A x \in Sides : ToRun(q[x]) = ToRun(p[x]) /\ q[x].at = p[x].at
    BY <1>6
  <2> QED BY <2>2, <2>3, <2>4, SidesAre DEF OfferedOnce
<1>10. t = "memory" => MemoryShared(n, q)
  BY <1>6 DEF Joint, MemoryShared
<1>11. /\ q["client"].at # "assign"
       /\ q["server"].at = "assign" => n.conn["server"].native
  BY <1>6, SidesAre DEF Joint
<1> QED
  BY <1>1, <1>7, <1>8, <1>9, <1>10, <1>11 DEF Joint, q

-----------------------------------------------------------------------------
(* The server's handlers.                                                     *)

\* What a handler makes of the server keeps everything sound.
ServerKeeps(n, st, p, c) ==
  /\ Joint(transport, st.net, p, c, st.server)
  /\ st.net.conn["client"].native => n.conn["client"].native

\* The session of one connection is opened, joined and ended once.
SessionMoves(s, s2) ==
  \/ s2.session = s.session /\ s2.ended = s.ended
  \/ s.session # "none" /\ s2.session = "none" /\ s2.ended
  \/ s.session = "open" /\ s2.session = "ready" /\ s2.ended = s.ended
  \/ s.session = "none" /\ ~s.ended /\ s2.session = "open" /\ ~s2.ended

LEMMA RemoveKeeps ==
  ASSUME NEW n, NEW p, NEW c, NEW s, Joint(transport, n, p, c, s)
  PROVE  LET st == RemoveSession([net |-> n, server |-> s])
         IN  /\ ServerKeeps(n, st, p, c) /\ st.net = n /\ st.server.id = s.id
             /\ st.server.session = "none" /\ (s.session # "none" => st.server.ended)
             /\ s.session = "none" => st.server = s
<1> DEFINE s2 == [s EXCEPT !.session = "none", !.ended = @ \/ s.session # "none"]
           st == RemoveSession([net |-> n, server |-> s])
<1>1. c \in ClientRecords /\ s \in ServerRecords /\ RuntimesSound(c, s)
  BY DEF Joint
<1>2. st.net = n /\ st.server = s2
  BY <1>1 DEF RemoveSession, ServerRecords
<1>3. /\ s2 \in ServerRecords /\ s2.session = "none" /\ s2.id = s.id /\ s2.nextId = s.nextId
      /\ s2.ended <=> s.ended \/ s.session # "none"
      /\ s.session = "none" => s2 = s
  BY <1>1 DEF ServerRecords
<1> HIDE DEF s2, st
<1>4. RuntimesSound(c, s2)
  BY <1>1, <1>3 DEF RuntimesSound
<1>5. \A side \in Sides : /\ ToSide(side, c, s) = ToSide(side, c, s2)
                          /\ Unmet(side, c, s) <=> Unmet(side, c, s2)
  BY <1>1, <1>3, SidesAre DEF ToSide, Unmet, RuntimesSound
<1>6. Joint(transport, n, p, c, s2)
  BY <1>1, <1>3, <1>4, <1>5, RuntimesChange
<1> QED
  BY <1>2, <1>3, <1>6 DEF ServerKeeps, st

LEMMA SessionClosedKeeps ==
  ASSUME transport \in {"native", "memory"}, NEW n, NEW p, NEW c, NEW s,
         Joint(transport, n, p, c, s), p["server"].at # "assign"
  PROVE  LET st == SessionClosed([net |-> n, server |-> s])
         IN  /\ ServerKeeps(n, st, p, c) /\ st.server.id = s.id
             /\ st.server.session = "none" /\ (s.session # "none" => st.server.ended)
             /\ s.session = "none" => st.server = s
<1> DEFINE n2 == Disconnect(n, "server")
<1>1. Joint(transport, n2, p, c, s) /\ (n2.conn["client"].native => n.conn["client"].native)
  BY DisconnectKeeps, SidesAre
<1>2. SessionClosed([net |-> n, server |-> s]) = RemoveSession([net |-> n2, server |-> s])
  BY DEF SessionClosed
<1> HIDE DEF n2
<1>3. PICK st : st = RemoveSession([net |-> n2, server |-> s])
  OBVIOUS
<1>4. /\ ServerKeeps(n2, st, p, c) /\ st.server.id = s.id
      /\ st.server.session = "none" /\ (s.session # "none" => st.server.ended)
      /\ s.session = "none" => st.server = s
  BY <1>1, <1>3, RemoveKeeps
<1>5. ServerKeeps(n, st, p, c)
  BY <1>1, <1>4 DEF ServerKeeps
<1> QED
  BY <1>2, <1>3, <1>4, <1>5

\* A message the client may get goes out, or the session ends.
LEMMA TransmitKeeps ==
  ASSUME transport \in {"native", "memory"}, NEW n, NEW p, NEW c, NEW s,
         Joint(transport, n, p, c, s), p["server"].at # "assign", s.session # "none",
         NEW m \in ToSide("client", c, s), NEW full
  PROVE  LET st == Transmit([net |-> n, server |-> s], m, full)
         IN  /\ ServerKeeps(n, st, p, c) /\ st.server.id = s.id
             /\ \/ st.server = s
                \/ st.server.session = "none" /\ st.server.ended
<1>1. m \in AnyMessage
  BY ToSideMessages DEF Joint
<1>2. CASE CanSend(n, "server") /\ ~full
  <2>1. Transmit([net |-> n, server |-> s], m, full)
          = [net |-> Sent(n, "server", m), server |-> s]
    BY <1>2 DEF Transmit
  <2>2. Joint(transport, Sent(n, "server", m), p, c, s) /\ Sent(n, "server", m).conn = n.conn
    BY <1>1, <1>2, SentKeeps, SidesAre
  <2> QED BY <2>1, <2>2 DEF ServerKeeps
<1>3. CASE ~(CanSend(n, "server") /\ ~full)
  <2>1. Transmit([net |-> n, server |-> s], m, full) = SessionClosed([net |-> n, server |-> s])
    BY <1>3 DEF Transmit
  <2> QED BY <2>1, SessionClosedKeeps
<1> QED
  BY <1>2, <1>3

LEMMA SendSnapshotKeeps ==
  ASSUME transport \in {"native", "memory"}, NEW n, NEW p, NEW c, NEW s,
         Joint(transport, n, p, c, s), p["server"].at # "assign", s.session # "open",
         NEW full
  PROVE  LET st == SendSnapshot([net |-> n, server |-> s], full)
         IN  /\ ServerKeeps(n, st, p, c) /\ st.server.id = s.id
             /\ \/ st.server = s
                \/ s.session # "none" /\ st.server.session = "none" /\ st.server.ended
<1>1. CASE s.session = "none"
  <2>1. SendSnapshot([net |-> n, server |-> s], full) = [net |-> n, server |-> s]
    BY <1>1 DEF SendSnapshot
  <2> QED BY <2>1 DEF ServerKeeps
<1>2. CASE s.session # "none"
  <2>1. SendSnapshot([net |-> n, server |-> s], full)
          = Transmit([net |-> n, server |-> s], FullSnapshot, full)
    BY <1>2 DEF SendSnapshot
  <2>2. FullSnapshot \in ToSide("client", c, s)
    BY <1>2 DEF ToSide, Joint, RuntimesSound, ServerRecords
  <2> QED BY <1>2, <2>1, <2>2, TransmitKeeps
<1> QED
  BY <1>1, <1>2

\* accept: from a session that is open to one that has joined, or ended.
LEMMA AcceptKeeps ==
  ASSUME transport \in {"native", "memory"}, NEW n, NEW p, NEW c, NEW s,
         Joint(transport, n, p, c, s), p["server"].at # "assign", s.session = "open",
         c.connection, NEW full
  PROVE  LET st == Accept([net |-> n, server |-> s], full)
         IN  ServerKeeps(n, st, p, c) /\ SessionMoves(s, st.server)
<1> DEFINE s1 == [s EXCEPT !.session = "ready", !.id = s.nextId, !.nextId = @ + 1]
           st1 == Transmit([net |-> n, server |-> s1], ServerWelcome(s1.id), full)
           st2 == SendSnapshot(st1, full)
<1>1. c \in ClientRecords /\ s \in ServerRecords /\ RuntimesSound(c, s)
  BY DEF Joint
<1>2. s.id = 0 /\ c.id = 0 /\ ~c.snapshot /\ ~s.ended
  BY <1>1 DEF RuntimesSound
<1>3. /\ s1 \in ServerRecords /\ s1.session = "ready" /\ s1.id = s.nextId /\ s1.id # 0
      /\ s1.nextId = s1.id + 1 /\ s1.ended = s.ended /\ s1.id < s1.nextId
  <2>1. PICK k \in Nat : k = s.nextId /\ k # 0
    BY <1>1 DEF ServerRecords
  <2>2. PICK x, y : \E e \in BOOLEAN, r \in {FALSE} :
          s = [session |-> x, id |-> y, nextId |-> k, ended |-> e, rejected |-> r]
    BY <1>1, <2>1 DEF ServerRecords
  <2>3. PICK e \in BOOLEAN, r \in {FALSE} :
          s = [session |-> x, id |-> y, nextId |-> k, ended |-> e, rejected |-> r]
    BY <2>2
  <2>4. s1 = [session |-> "ready", id |-> k, nextId |-> k + 1, ended |-> e, rejected |-> r]
    <3>1. PICK a : a = [s EXCEPT !.session = "ready"]
      OBVIOUS
    <3>2. a = [session |-> "ready", id |-> y, nextId |-> k, ended |-> e, rejected |-> r]
      BY <2>3, <3>1
    <3>3. PICK b : b = [a EXCEPT !.id = k]
      OBVIOUS
    <3>4. b = [session |-> "ready", id |-> k, nextId |-> k, ended |-> e, rejected |-> r]
      BY <3>2, <3>3
    <3>5. PICK j : j = k + 1
      OBVIOUS
    <3>6. PICK d : d = [b EXCEPT !.nextId = j]
      OBVIOUS
    <3>7. d = [session |-> "ready", id |-> k, nextId |-> j, ended |-> e, rejected |-> r]
      BY <3>4, <3>6
    <3> QED BY <2>1, <3>1, <3>3, <3>5, <3>6, <3>7, Zenon
  <2>5. k + 1 \in Nat \ {0} /\ k < k + 1
    BY <2>1
  <2> HIDE DEF s1
  <2> QED BY <2>1, <2>3, <2>4, <2>5 DEF ServerRecords
<1>4. Accept([net |-> n, server |-> s], full) = st2
  <2> DEFINE joined == [net |-> n, server |-> s1]
  <2>1. [[net |-> n, server |-> s] EXCEPT !.server.session = "ready",
                                          !.server.id = s.nextId,
                                          !.server.nextId = @ + 1] = joined
    <3>1. PICK a : a = [s EXCEPT !.session = "ready"]
      OBVIOUS
    <3>2. PICK b : b = [a EXCEPT !.id = s.nextId]
      OBVIOUS
    <3>3. PICK d : d = [b EXCEPT !.nextId = s.nextId + 1]
      OBVIOUS
    <3>4. [[net |-> n, server |-> s] EXCEPT !.server.session = "ready"]
            = [net |-> n, server |-> a]
      BY <3>1
    <3>5. [[net |-> n, server |-> a] EXCEPT !.server.id = s.nextId]
            = [net |-> n, server |-> b]
      BY <3>2
    <3>6. [[net |-> n, server |-> b] EXCEPT !.server.nextId = s.nextId + 1]
            = [net |-> n, server |-> d]
      BY <3>3
    <3>7. [net |-> n, server |-> s].server.nextId + 1 = s.nextId + 1
      OBVIOUS
    <3>8. s1 = d
      BY <3>1, <3>2, <3>3, Zenon
    <3> HIDE DEF s1
    <3>9. [[[[net |-> n, server |-> s] EXCEPT !.server.session = "ready"]
               EXCEPT !.server.id = s.nextId] EXCEPT !.server.nextId = s.nextId + 1] = joined
      BY <3>4, <3>5, <3>6, <3>8, Zenon
    <3> QED BY <3>7, <3>9, Zenon
  <2> HIDE DEF s1
  <2>2. Accept([net |-> n, server |-> s], full)
          = SendSnapshot(Transmit(joined, ServerWelcome(joined.server.id), full), full)
    BY <2>1 DEF Accept
  <2> QED BY <2>2
<1> HIDE DEF s1
<1>5. RuntimesSound(c, s1)
  BY <1>1, <1>2, <1>3 DEF RuntimesSound
<1>6. \A side \in Sides : /\ ToSide(side, c, s) \subseteq ToSide(side, c, s1)
                          /\ Unmet(side, c, s) <=> Unmet(side, c, s1)
  BY <1>2, <1>3, SidesAre DEF ToSide, Unmet
<1>7. Joint(transport, n, p, c, s1)
  BY <1>1, <1>3, <1>5, <1>6, RuntimesChange
<1>8. ServerWelcome(s1.id) \in ToSide("client", c, s1)
  BY <1>3 DEF ToSide
<1>9. /\ ServerKeeps(n, st1, p, c)
      /\ st1.server = s1 \/ (st1.server.session = "none" /\ st1.server.ended)
  BY <1>3, <1>7, <1>8, TransmitKeeps
<1>10. st1 = [net |-> st1.net, server |-> st1.server]
  BY DEF Transmit, SessionClosed, RemoveSession
<1> HIDE DEF st1
<1>11. st1.server.session # "open"
  BY <1>3, <1>9
<1>12. /\ ServerKeeps(n, st2, p, c)
       /\ st2.server = st1.server \/ (st2.server.session = "none" /\ st2.server.ended)
  <2>1. PICK n1, s11 : st1 = [net |-> n1, server |-> s11]
    BY <1>10
  <2>2. Joint(transport, n1, p, c, s11) /\ s11.session # "open"
    BY <1>9, <1>11, <2>1 DEF ServerKeeps
  <2>3. PICK st : st = SendSnapshot([net |-> n1, server |-> s11], full)
    OBVIOUS
  <2>4. /\ ServerKeeps(n1, st, p, c)
        /\ st.server = s11 \/ (st.server.session = "none" /\ st.server.ended)
    BY <2>2, <2>3, SendSnapshotKeeps
  <2>5. ServerKeeps(n, st, p, c)
    BY <1>9, <2>1, <2>4 DEF ServerKeeps
  <2> QED BY <2>1, <2>3, <2>4, <2>5
<1>13. SessionMoves(s, st2.server)
  BY <1>2, <1>3, <1>9, <1>12 DEF SessionMoves
<1> QED
  BY <1>4, <1>12, <1>13

\* One event of process_events, taken off the batch, on the server.
LEMMA ServerEventKeeps ==
  ASSUME transport \in {"native", "memory"}, NEW n, NEW p, NEW c, NEW s,
         Joint(transport, n, p, c, s), p["server"].at = "events", p["server"].batch # << >>,
         NEW full
  PROVE  LET st == ServerEvent([net |-> n, server |-> s], Head(p["server"].batch), full)
         IN  /\ ServerKeeps(n, st, [p EXCEPT !["server"].batch = Tail(@)], c)
             /\ SessionMoves(s, st.server)
<1> DEFINE e == Head(p["server"].batch) q == [p EXCEPT !["server"].batch = Tail(@)]
           st0 == [net |-> n, server |-> s] st == ServerEvent(st0, e, full)
<1>1. c \in ClientRecords /\ s \in ServerRecords /\ RuntimesSound(c, s)
      /\ p \in [Sides -> Polling]
  BY DEF Joint
<1>2. /\ EndSound(transport, n.conn["server"], n.events["server"], p["server"].batch,
                  Unmet("server", c, s))
      /\ Shaped(p["server"].batch, ToSide("server", c, s))
  BY SidesAre DEF Joint, Carried, ToHandle
<1>3. e \in EventsOf(ToSide("server", c, s)) /\ Has(p["server"].batch, e)
  BY <1>2, ShapedTail
<1>4. q["server"].at # "assign"
  BY <1>1, SidesAre DEF Polling
<1>5. ASSUME NEW s2 \in ServerRecords, RuntimesSound(c, s2),
             \A x \in Sides : ToSide(x, c, s) \subseteq ToSide(x, c, s2),
             Unmet("server", c, s2) => Unmet("server", c, s),
             Unmet("server", c, s) /\ ~Unmet("server", c, s2) => e = Connected
      PROVE  Joint(transport, n, q, c, s2)
  <2>1. Unmet(Peer("server"), c, s) <=> Unmet(Peer("server"), c, s2)
    BY DEF Unmet, Peer
  <2>2. "server" \in Sides /\ c \in ClientRecords
    BY <1>1, SidesAre
  <2>3. Unmet("server", c, s) /\ ~Unmet("server", c, s2) =>
          \/ Head(p["server"].batch) = Connected
          \/ "server" = "client" /\ Head(p["server"].batch) = Disconnected
    BY <1>5
  <2> HIDE DEF e
  <2> QED BY <1>5, <2>1, <2>2, <2>3, HandlesKeeps, Zenon
<1>6. Joint(transport, n, q, c, s)
  BY <1>1, <1>5
<1> HIDE DEF q, e
<1>7. CASE e = Connected
  <2>1. Unmet("server", c, s)
    BY <1>2, <1>3, <1>7 DEF EndSound
  <2> DEFINE s2 == [s EXCEPT !.session = "open"]
  <2>2. st = [net |-> n, server |-> s2]
    BY <1>1, <1>7, <2>1 DEF ServerEvent, Connected, Unmet, ServerRecords
  <2>3. /\ s2 \in ServerRecords /\ s2.session = "open" /\ s2.id = s.id /\ s2.ended = s.ended
        /\ s2.nextId = s.nextId
    BY <1>1 DEF ServerRecords
  <2> HIDE DEF s2
  <2>4. RuntimesSound(c, s2) /\ ~Unmet("server", c, s2)
    BY <1>1, <2>1, <2>3 DEF RuntimesSound, Unmet
  <2>5. \A x \in Sides : ToSide(x, c, s) = ToSide(x, c, s2)
    BY <2>3 DEF ToSide
  <2>6. Joint(transport, n, q, c, s2)
    BY <1>5, <1>7, <2>1, <2>3, <2>4, <2>5
  <2>7. SessionMoves(s, s2)
    BY <2>1, <2>3 DEF SessionMoves, Unmet
  <2> QED BY <2>2, <2>6, <2>7 DEF ServerKeeps, e, q
<1>8. CASE e = Disconnected
  <2>1. st = RemoveSession(st0)
    BY <1>8 DEF ServerEvent, Disconnected
  <2>2. ServerKeeps(n, st, q, c)
    BY <1>6, <2>1, RemoveKeeps
  <2>3. SessionMoves(s, st.server)
    BY <1>6, <2>1, RemoveKeeps DEF SessionMoves
  <2> QED BY <2>2, <2>3 DEF e, q
<1>9. CASE s.session = "none" /\ e # Connected /\ e # Disconnected
  <2>1. PICK m : e = PayloadReceived(m)
    BY <1>3, <1>9 DEF EventsOf
  <2>2. st = st0
    BY <1>9, <2>1 DEF ServerEvent, PayloadReceived
  <2> QED BY <1>6, <2>2 DEF ServerKeeps, SessionMoves, e, q
<1>10. CASE s.session # "none" /\ e # Connected /\ e # Disconnected
  <2>1. PICK m \in ToSide("server", c, s) : e = PayloadReceived(m)
    BY <1>3, <1>10 DEF EventsOf
  <2>2. e.type = "PayloadReceived" /\ e.message = m /\ c.connection
    BY <2>1, SidesAre DEF PayloadReceived, ToSide
  <2>3. CASE m = ClientHello /\ s.session = "ready"
    <3>1. st = Transmit(st0, ServerWelcome(s.id), full)
      BY <1>10, <2>2, <2>3 DEF ServerEvent, HelloReceived, ClientHello, Message
    <3>2. ServerWelcome(s.id) \in ToSide("client", c, s)
      BY <1>1, <2>3 DEF ToSide, RuntimesSound
    <3>3. /\ ServerKeeps(n, st, q, c)
          /\ st.server = s \/ (st.server.session = "none" /\ st.server.ended)
      BY <1>4, <1>6, <1>10, <3>1, <3>2, TransmitKeeps
    <3> QED BY <1>10, <3>3 DEF SessionMoves, e, q
  <2>4. CASE m = ClientHello /\ s.session # "ready"
    <3>1. st = Accept(st0, full)
      BY <1>10, <2>2, <2>4 DEF ServerEvent, HelloReceived, ClientHello, Message
    <3>2. s.session = "open"
      BY <1>1, <1>10, <2>4 DEF ServerRecords
    <3> QED BY <1>4, <1>6, <2>2, <3>1, <3>2, AcceptKeeps DEF e, q
  <2>5. CASE m = InputPacket /\ m # ClientHello
    <3>1. s.id # 0
      BY <2>1, <2>5, SidesAre DEF ToSide
    <3>2. s.session = "ready"
      BY <1>1, <1>10, <3>1 DEF RuntimesSound, ServerRecords
    <3>3. st = st0
      BY <1>10, <2>2, <2>5, <3>2 DEF ServerEvent, InputPacket, Message
    <3> QED BY <1>6, <3>3 DEF ServerKeeps, SessionMoves, e, q
  <2> QED BY <2>1, <2>3, <2>4, <2>5 DEF ToSide
<1> QED
  BY <1>7, <1>8, <1>9, <1>10

-----------------------------------------------------------------------------
(* The client's handlers.                                                     *)

\* The client failed and its endpoint has closed the connection, or it goes on
\* with the connection no better than it was.
Failing(st) ==
  st.client.state = "Failed" /\ st.client.error # "none" /\ ~st.net.conn["client"].native
Going(n, c, st) ==
  st.client.error = c.error /\ (st.net.conn["client"].native => n.conn["client"].native)

\* How the client's state moves with an event.
ClientMoves(state, state2, event) ==
  \/ state2 = state
  \/ state = "Connecting" /\ state2 = "Handshaking"
  \/ state # "Connecting" /\ state2 = "Ready"
  \/ event = Disconnected /\ state2 = "Disconnected"

LEMMA FailKeeps ==
  ASSUME transport \in {"native", "memory"}, NEW n, NEW p, NEW c, NEW s,
         Joint(transport, n, p, c, s), c.connection
  PROVE  LET st == Fail([net |-> n, client |-> c], "TransportSendFailed")
         IN  Joint(transport, st.net, p, st.client, s) /\ Failing(st)
<1> DEFINE c2 == [c EXCEPT !.state = "Failed", !.error = "TransportSendFailed"]
           n2 == Disconnect(n, "client")
<1>1. Fail([net |-> n, client |-> c], "TransportSendFailed") = [net |-> n2, client |-> c2]
  BY DEF Fail
<1>2. Joint(transport, n2, p, c, s) /\ ~n2.conn["client"].native
  BY DisconnectKeeps, SidesAre
<1>3. c \in ClientRecords /\ s \in ServerRecords /\ RuntimesSound(c, s)
  BY DEF Joint
<1>4. /\ c2 \in ClientRecords /\ c2.state = "Failed" /\ c2.error = "TransportSendFailed"
      /\ c2.id = c.id /\ c2.snapshot = c.snapshot /\ c2.connection
  BY <1>3 DEF ClientRecords, ClientStates
<1> HIDE DEF c2, n2
<1>5. RuntimesSound(c2, s)
  BY <1>3, <1>4 DEF RuntimesSound
<1>6. \A side \in Sides : /\ ToSide(side, c, s) \subseteq ToSide(side, c2, s)
                          /\ Unmet(side, c, s) <=> Unmet(side, c2, s)
  BY <1>4 DEF ToSide, Unmet
<1>7. Joint(transport, n2, p, c2, s)
  BY <1>2, <1>3, <1>4, <1>5, <1>6, RuntimesChange
<1> QED
  BY <1>1, <1>2, <1>4, <1>7 DEF Failing

\* A hello goes out, or the client fails.
LEMMA GreetedKeeps ==
  ASSUME transport \in {"native", "memory"}, NEW n, NEW p, NEW c, NEW s,
         Joint(transport, n, p, c, s), c.connection, NEW full
  PROVE  LET st == Greeted([net |-> n, client |-> c], full)
         IN  /\ Joint(transport, st.net, p, st.client, s)
             /\ Failing(st) \/ (Going(n, c, st) /\ st.client.state = c.state)
<1> DEFINE c2 == [c EXCEPT !.hello = "recent"]
           n2 == Sent(n, "client", ClientHello)
<1>1. c \in ClientRecords /\ s \in ServerRecords /\ RuntimesSound(c, s)
  BY DEF Joint
<1>2. CASE CanSend(n, "client") /\ ~full
  <2>1. Greeted([net |-> n, client |-> c], full) = [net |-> n2, client |-> c2]
    BY <1>2 DEF Greeted
  <2>2. ClientHello \in ToSide(Peer("client"), c, s) /\ ClientHello \in AnyMessage
    BY SidesAre DEF ToSide, AnyMessage
  <2>3. Joint(transport, n2, p, c, s) /\ n2.conn = n.conn
    BY <1>2, <2>2, SentKeeps, SidesAre
  <2>4. /\ c2 \in ClientRecords /\ c2.state = c.state /\ c2.error = c.error
        /\ c2.id = c.id /\ c2.snapshot = c.snapshot /\ c2.connection = c.connection
    BY <1>1 DEF ClientRecords
  <2> HIDE DEF c2, n2
  <2>5. RuntimesSound(c2, s)
    BY <1>1, <2>4 DEF RuntimesSound
  <2>6. \A side \in Sides : /\ ToSide(side, c, s) \subseteq ToSide(side, c2, s)
                            /\ Unmet(side, c, s) <=> Unmet(side, c2, s)
    BY <2>4 DEF ToSide, Unmet
  <2>7. Joint(transport, n2, p, c2, s)
    BY <1>1, <2>3, <2>4, <2>5, <2>6, RuntimesChange
  <2>8. PICK st : /\ st = Greeted([net |-> n, client |-> c], full)
                  /\ st.net = n2 /\ st.client = c2
    BY <2>1
  <2>9. Joint(transport, st.net, p, st.client, s) /\ Going(n, c, st) /\ st.client.state = c.state
    BY <2>3, <2>4, <2>7, <2>8 DEF Going
  <2> QED BY <2>8, <2>9
<1>3. CASE ~(CanSend(n, "client") /\ ~full)
  <2>1. Greeted([net |-> n, client |-> c], full)
          = Fail([net |-> n, client |-> c], "TransportSendFailed")
    BY <1>3 DEF Greeted
  <2> QED BY <2>1, FailKeeps
<1> QED
  BY <1>2, <1>3

\* The retry of the hello.
LEMMA HelloRetriedKeeps ==
  ASSUME transport \in {"native", "memory"}, NEW n, NEW p, NEW c, NEW s,
         Joint(transport, n, p, c, s), NEW full
  PROVE  LET st == HelloRetried([net |-> n, client |-> c], full)
         IN  /\ Joint(transport, st.net, p, st.client, s)
             /\ Failing(st) \/ (Going(n, c, st) /\ st.client.state = c.state)
<1>1. CASE c.state = "Handshaking" /\ c.id = 0 /\ c.hello = "due"
  <2>1. c.connection
    BY <1>1 DEF Joint, RuntimesSound
  <2>2. HelloRetried([net |-> n, client |-> c], full) = Greeted([net |-> n, client |-> c], full)
    BY <1>1 DEF HelloRetried
  <2> QED BY <2>1, <2>2, GreetedKeeps
<1>2. CASE ~(c.state = "Handshaking" /\ c.id = 0 /\ c.hello = "due")
  <2>1. HelloRetried([net |-> n, client |-> c], full) = [net |-> n, client |-> c]
    BY <1>2 DEF HelloRetried
  <2> QED BY <2>1 DEF Going
<1> QED
  BY <1>1, <1>2

\* The inputs and the status of a ready client.
LEMMA InputsFlushedKeeps ==
  ASSUME transport \in {"native", "memory"}, NEW n, NEW p, NEW c, NEW s,
         Joint(transport, n, p, c, s), NEW pending, NEW full
  PROVE  LET st == InputsFlushed([net |-> n, client |-> c], pending, full)
         IN  /\ Joint(transport, st.net, p, st.client, s)
             /\ Failing(st) \/ (Going(n, c, st) /\ st.client = c)
             /\ c.state # "Ready" => st.net = n /\ st.client = c
<1>1. CASE c.state # "Ready" \/ ~pending
  <2>1. InputsFlushed([net |-> n, client |-> c], pending, full) = [net |-> n, client |-> c]
    BY <1>1 DEF InputsFlushed
  <2> QED BY <2>1 DEF Going
<1>2. CASE c.state = "Ready" /\ pending /\ ~CanSend(n, "client")
  <2>1. InputsFlushed([net |-> n, client |-> c], pending, full)
          = Fail([net |-> n, client |-> c], "TransportSendFailed")
    BY <1>2 DEF InputsFlushed
  <2>2. c.connection
    BY <1>2 DEF Joint, RuntimesSound
  <2> QED BY <1>2, <2>1, <2>2, FailKeeps
<1>3. CASE c.state = "Ready" /\ pending /\ CanSend(n, "client") /\ full
  <2>1. InputsFlushed([net |-> n, client |-> c], pending, full) = [net |-> n, client |-> c]
    BY <1>3 DEF InputsFlushed
  <2> QED BY <2>1 DEF Going
<1>4. CASE c.state = "Ready" /\ pending /\ CanSend(n, "client") /\ ~full
  <2>1. InputsFlushed([net |-> n, client |-> c], pending, full)
          = [net |-> Sent(n, "client", InputPacket), client |-> c]
    BY <1>4 DEF InputsFlushed
  <2>2. InputPacket \in ToSide(Peer("client"), c, s) /\ InputPacket \in AnyMessage
    <3>1. c.connection /\ s.id # 0
      BY <1>4 DEF Joint, RuntimesSound
    <3> QED BY <3>1, SidesAre DEF ToSide, AnyMessage
  <2>3. /\ Joint(transport, Sent(n, "client", InputPacket), p, c, s)
        /\ Sent(n, "client", InputPacket).conn = n.conn
    BY <1>4, <2>2, SentKeeps, SidesAre
  <2>4. PICK st : /\ st = InputsFlushed([net |-> n, client |-> c], pending, full)
                  /\ st.net = Sent(n, "client", InputPacket) /\ st.client = c
    BY <2>1
  <2>5. Joint(transport, st.net, p, st.client, s) /\ Going(n, c, st)
    BY <2>3, <2>4 DEF Going
  <2> QED BY <1>4, <2>4, <2>5
<1> QED
  BY <1>1, <1>2, <1>3, <1>4

\* A message of the server makes the client as joined as it can be.
LEMMA UpdateReadyStateIs ==
  ASSUME NEW n, NEW c \in ClientRecords, NEW s, RuntimesSound(c, s), c.connection
  PROVE  LET st == UpdateReadyState([net |-> n, client |-> c])
         IN  /\ st.net = n /\ st.client \in ClientRecords /\ st.client.error = c.error
             /\ st.client.connection /\ RuntimesSound(st.client, s)
             /\ st.client.state \in {c.state, "Ready"}
<1>1. CASE c.id = 0 \/ ~c.snapshot
  <2>1. UpdateReadyState([net |-> n, client |-> c]) = [net |-> n, client |-> c]
    BY <1>1 DEF UpdateReadyState
  <2> QED BY <2>1
<1>2. CASE ~(c.id = 0 \/ ~c.snapshot)
  <2> DEFINE c2 == [c EXCEPT !.state = "Ready"]
  <2>1. UpdateReadyState([net |-> n, client |-> c]) = [net |-> n, client |-> c2]
    BY <1>2 DEF UpdateReadyState
  <2>2. /\ c2 \in ClientRecords /\ c2.state = "Ready" /\ c2.error = c.error
        /\ c2.id = c.id /\ c2.snapshot = c.snapshot /\ c2.connection = c.connection
    BY DEF ClientRecords, ClientStates
  <2> HIDE DEF c2
  <2>3. RuntimesSound(c2, s)
    BY <1>2, <2>2 DEF RuntimesSound
  <2>4. PICK st : /\ st = UpdateReadyState([net |-> n, client |-> c])
                  /\ st.net = n /\ st.client = c2
    BY <2>1
  <2> QED BY <2>2, <2>3, <2>4
<1> QED
  BY <1>1, <1>2

\* A welcome or a snapshot, whatever came before it.
LEMMA ServerMessageKeeps ==
  ASSUME NEW n, NEW c \in ClientRecords, NEW s \in ServerRecords, RuntimesSound(c, s),
         NEW m \in ToSide("client", c, s), NEW full
  PROVE  LET st == ClientEvent([net |-> n, client |-> c], PayloadReceived(m), full)
         IN  /\ st.net = n /\ st.client \in ClientRecords /\ st.client.error = c.error
             /\ st.client.connection /\ c.connection /\ RuntimesSound(st.client, s)
             /\ st.client.state \in {c.state, "Ready"}
<1> DEFINE st0 == [net |-> n, client |-> c] st == ClientEvent(st0, PayloadReceived(m), full)
<1>1. s.id # 0 /\ c.connection /\ m \in {ServerWelcome(s.id), FullSnapshot}
  BY DEF ToSide, RuntimesSound
<1>2. CASE m = ServerWelcome(s.id)
  <2>1. m.kind = "welcome" /\ m.delivery = "Reliable" /\ m.id = s.id
    BY <1>2 DEF ServerWelcome, Message
  <2>2. st = WelcomeReceived(st0, m)
    BY <2>1 DEF ClientEvent, PayloadReceived
  <2>3. CASE c.id = s.id
    <3>1. st = st0
      BY <2>1, <2>2, <2>3 DEF WelcomeReceived
    <3> QED BY <1>1, <3>1
  <2>4. CASE c.id # s.id
    <3> DEFINE c2 == [c EXCEPT !.id = s.id]
    <3>1. c.id = 0
      BY <2>4 DEF RuntimesSound
    <3>2. st = UpdateReadyState([net |-> n, client |-> c2])
      BY <1>1, <2>1, <2>2, <3>1 DEF WelcomeReceived
    <3>3. /\ c2 \in ClientRecords /\ c2.state = c.state /\ c2.error = c.error
          /\ c2.id = s.id /\ c2.snapshot = c.snapshot /\ c2.connection = c.connection
      BY DEF ClientRecords, ServerRecords
    <3> HIDE DEF c2, st
    <3>4. RuntimesSound(c2, s)
      BY <1>1, <3>3 DEF RuntimesSound
    <3>5. /\ st.net = n /\ st.client \in ClientRecords /\ st.client.error = c2.error
          /\ st.client.connection /\ RuntimesSound(st.client, s)
          /\ st.client.state \in {c2.state, "Ready"}
      BY <1>1, <3>2, <3>3, <3>4, UpdateReadyStateIs
    <3> QED BY <1>1, <3>3, <3>5 DEF st
  <2> QED BY <2>3, <2>4
<1>3. CASE m = FullSnapshot
  <2> DEFINE c2 == [c EXCEPT !.snapshot = TRUE]
  <2>1. m.kind = "snapshot" /\ m.delivery = "Unreliable"
    BY <1>3 DEF FullSnapshot, Message
  <2>2. st = UpdateReadyState([net |-> n, client |-> c2])
    <3>1. st = SnapshotReceived(st0, m)
      BY <2>1 DEF ClientEvent, PayloadReceived
    <3>2. [st0 EXCEPT !.client.snapshot = TRUE] = [net |-> n, client |-> c2]
      <4>1. PICK a : a = [c EXCEPT !.snapshot = TRUE]
        OBVIOUS
      <4>2. st0.client = c
        OBVIOUS
      <4>3. [st0 EXCEPT !.client = a] = [net |-> n, client |-> a]
        OBVIOUS
      <4> HIDE DEF st0
      <4> QED BY <4>1, <4>2, <4>3, Zenon
    <3> HIDE DEF st, st0, c2
    <3> QED BY <2>1, <3>1, <3>2 DEF SnapshotReceived
  <2>3. /\ c2 \in ClientRecords /\ c2.state = c.state /\ c2.error = c.error
        /\ c2.id = c.id /\ c2.snapshot /\ c2.connection = c.connection
    BY DEF ClientRecords
  <2> HIDE DEF c2, st
  <2>4. RuntimesSound(c2, s)
    BY <1>1, <2>3 DEF RuntimesSound
  <2>5. /\ st.net = n /\ st.client \in ClientRecords /\ st.client.error = c2.error
        /\ st.client.connection /\ RuntimesSound(st.client, s)
        /\ st.client.state \in {c2.state, "Ready"}
    BY <1>1, <2>2, <2>3, <2>4, UpdateReadyStateIs
  <2> QED BY <1>1, <2>3, <2>5 DEF st
<1> QED
  BY <1>1, <1>2, <1>3

\* One event of process_events, taken off the batch, on the client.
LEMMA ClientEventKeeps ==
  ASSUME transport \in {"native", "memory"}, NEW n, NEW p, NEW c, NEW s,
         Joint(transport, n, p, c, s), p["client"].at = "events", p["client"].batch # << >>,
         NEW full
  PROVE  LET e == Head(p["client"].batch)
             st == ClientEvent([net |-> n, client |-> c], e, full)
         IN  /\ Joint(transport, st.net, [p EXCEPT !["client"].batch = Tail(@)], st.client, s)
             /\ \/ Failing(st)
                \/ Going(n, c, st) /\ ClientMoves(c.state, st.client.state, e)
<1> DEFINE e == Head(p["client"].batch) q == [p EXCEPT !["client"].batch = Tail(@)]
           st0 == [net |-> n, client |-> c] st == ClientEvent(st0, e, full)
<1>1. c \in ClientRecords /\ s \in ServerRecords /\ RuntimesSound(c, s)
      /\ p \in [Sides -> Polling]
  BY DEF Joint
<1>2. /\ EndSound(transport, n.conn["client"], n.events["client"], p["client"].batch,
                  Unmet("client", c, s))
      /\ Shaped(p["client"].batch, ToSide("client", c, s))
  BY SidesAre DEF Joint, Carried, ToHandle
<1>3. e \in EventsOf(ToSide("client", c, s)) /\ Has(p["client"].batch, e)
  BY <1>2, ShapedTail
<1>4. ASSUME NEW c2 \in ClientRecords, RuntimesSound(c2, s),
             c.connection => c2.connection, Unmet("client", c2, s) => Unmet("client", c, s),
             Unmet("client", c, s) /\ ~Unmet("client", c2, s) =>
               e = Connected \/ e = Disconnected
      PROVE  Joint(transport, n, q, c2, s)
  <2>1. Unmet(Peer("client"), c, s) <=> Unmet(Peer("client"), c2, s)
    BY DEF Unmet, Peer
  <2>2. "client" \in Sides /\ s \in ServerRecords
    BY <1>1, SidesAre
  <2>3. Unmet("client", c, s) /\ ~Unmet("client", c2, s) =>
          \/ Head(p["client"].batch) = Connected
          \/ "client" = "client" /\ Head(p["client"].batch) = Disconnected
    BY <1>4
  <2>4. \A x \in Sides : ToSide(x, c, s) \subseteq ToSide(x, c2, s)
    BY <1>4 DEF ToSide
  <2> HIDE DEF e
  <2> QED BY <1>4, <2>1, <2>2, <2>3, <2>4, HandlesKeeps, Zenon
<1> HIDE DEF q, e
<1>5. CASE e = Connected
  <2> DEFINE c2 == [c EXCEPT !.connection = TRUE, !.state = "Handshaking"]
  <2>1. Unmet("client", c, s)
    BY <1>2, <1>3, <1>5 DEF EndSound
  <2>2. ~c.connection /\ c.state = "Connecting"
    BY <2>1 DEF Unmet
  <2>3. st = Greeted([net |-> n, client |-> c2], full)
    <3>1. st = Greeted([st0 EXCEPT !.client.connection = TRUE,
                                   !.client.state = "Handshaking"], full)
      BY <1>5, <2>2 DEF ClientEvent, Connected
    <3>2. [st0 EXCEPT !.client.connection = TRUE, !.client.state = "Handshaking"]
            = [net |-> n, client |-> c2]
      <4>1. PICK a : a = [c EXCEPT !.connection = TRUE]
        OBVIOUS
      <4>2. PICK b : b = [a EXCEPT !.state = "Handshaking"]
        OBVIOUS
      <4>3. PICK r : r = [net |-> n, client |-> a]
        OBVIOUS
      <4>4. st0.client = c /\ r.client = a
        BY <4>3
      <4>5. [st0 EXCEPT !.client = a] = r
        BY <4>3
      <4>6. [r EXCEPT !.client = b] = [net |-> n, client |-> b]
        BY <4>3
      <4> HIDE DEF st0
      <4> QED BY <4>1, <4>2, <4>4, <4>5, <4>6, Zenon
    <3> HIDE DEF st, st0, c2
    <3> QED BY <3>1, <3>2
  <2>4. /\ c2 \in ClientRecords /\ c2.connection /\ c2.state = "Handshaking"
        /\ c2.id = c.id /\ c2.snapshot = c.snapshot /\ c2.error = c.error
    BY <1>1 DEF ClientRecords, ClientStates
  <2> HIDE DEF c2
  <2>5. RuntimesSound(c2, s) /\ ~Unmet("client", c2, s)
    BY <1>1, <2>2, <2>4 DEF RuntimesSound, Unmet
  <2>6. Joint(transport, n, q, c2, s)
    BY <1>4, <1>5, <2>4, <2>5
  <2> HIDE DEF st
  <2>7. /\ Joint(transport, st.net, q, st.client, s)
        /\ Failing(st) \/ (Going(n, c2, st) /\ st.client.state = c2.state)
    BY <2>3, <2>4, <2>6, GreetedKeeps
  <2>8. Going(n, c2, st) => Going(n, c, st)
    BY <2>4 DEF Going
  <2> QED BY <2>2, <2>4, <2>7, <2>8 DEF ClientMoves, st, st0, e, q
<1>6. CASE e = Disconnected
  <2> DEFINE c2 == [c EXCEPT !.state = "Disconnected"]
  <2>1. st = [net |-> n, client |-> c2]
    <3>1. st = [st0 EXCEPT !.client.state = "Disconnected"]
      BY <1>6 DEF ClientEvent, Disconnected
    <3>2. PICK a : a = c2
      OBVIOUS
    <3>3. st0.client = c
      OBVIOUS
    <3>4. [st0 EXCEPT !.client = a] = [net |-> n, client |-> a]
      OBVIOUS
    <3> HIDE DEF st, st0
    <3> QED BY <3>1, <3>2, <3>3, <3>4, Zenon
  <2>2. /\ c2 \in ClientRecords /\ c2.connection = c.connection /\ c2.state = "Disconnected"
        /\ c2.id = c.id /\ c2.snapshot = c.snapshot /\ c2.error = c.error
    BY <1>1 DEF ClientRecords, ClientStates
  <2> HIDE DEF c2
  <2>3. RuntimesSound(c2, s) /\ ~Unmet("client", c2, s)
    BY <1>1, <2>2 DEF RuntimesSound, Unmet
  <2>4. Joint(transport, n, q, c2, s)
    BY <1>4, <1>6, <2>2, <2>3
  <2> HIDE DEF st
  <2>5. st.net = n /\ st.client = c2
    BY <2>1
  <2>6. Going(n, c, st) /\ ClientMoves(c.state, st.client.state, e)
    BY <1>6, <2>2, <2>5 DEF Going, ClientMoves
  <2> QED BY <2>4, <2>5, <2>6 DEF st, st0, e, q
<1>7. CASE e # Connected /\ e # Disconnected
  <2>1. PICK m \in ToSide("client", c, s) : e = PayloadReceived(m)
    BY <1>3, <1>7 DEF EventsOf
  <2>2. st = ClientEvent([net |-> n, client |-> c], PayloadReceived(m), full)
    BY <2>1
  <2> HIDE DEF st
  <2>3. /\ st.net = n /\ st.client \in ClientRecords /\ st.client.error = c.error
        /\ st.client.connection /\ c.connection /\ RuntimesSound(st.client, s)
        /\ st.client.state \in {c.state, "Ready"}
    BY <1>1, <2>2, ServerMessageKeeps
  <2>4. ~Unmet("client", c, s) /\ ~Unmet("client", st.client, s)
    BY <2>3 DEF Unmet
  <2>5. Joint(transport, n, q, st.client, s)
    BY <1>4, <2>3, <2>4
  <2>6. c.state # "Connecting"
    BY <1>1, <2>3 DEF RuntimesSound
  <2>7. Going(n, c, st) /\ ClientMoves(c.state, st.client.state, e)
    BY <2>3, <2>6 DEF Going, ClientMoves
  <2> QED BY <2>3, <2>5, <2>7 DEF st, st0, e, q
<1> QED
  BY <1>5, <1>6, <1>7

\* A process leaves process_events, and drops what it did not handle.
LEMMA LeavesKeeps ==
  ASSUME NEW t, NEW n, NEW p, NEW c, NEW s, NEW side \in Sides,
         Joint(t, n, p, c, s), p[side].at = "events"
  PROVE  Joint(t, n, [p EXCEPT ![side] = Idle], c, s)
<1> DEFINE q == [p EXCEPT ![side] = Idle]
<1>1. n \in Nets /\ p \in [Sides -> Polling] /\ s \in ServerRecords
  BY DEF Joint
<1>2. Idle \in Polling /\ Idle.at = "idle" /\ ToHandle(Idle) = << >> /\ ToRun(Idle) = << >>
  BY DEF Polling, Idle, ToHandle, ToRun
<1>3. ToRun(p[side]) = << >>
  BY DEF ToRun
<1>4. /\ q \in [Sides -> Polling] /\ q[side] = Idle
      /\ \A x \in Sides : x # side => q[x] = p[x]
      /\ \A x \in Sides : ToRun(q[x]) = ToRun(p[x])
      /\ \A x \in Sides : q[x].at \in {"callbacks", "assign"} => q[x] = p[x]
  BY <1>1, <1>2, <1>3
<1> HIDE DEF q
<1>5. ASSUME NEW x \in Sides
      PROVE  /\ EndSound(t, n.conn[x], n.events[x], ToHandle(q[x]), Unmet(x, c, s))
             /\ Carried(n, q, c, s, x)
             /\ q[x].at \in {"callbacks", "assign"} => q[x].batch \in Seq(Statuses)
  <2>1. /\ EndSound(t, n.conn[x], n.events[x], ToHandle(p[x]), Unmet(x, c, s))
        /\ Carried(n, p, c, s, x)
        /\ p[x].at \in {"callbacks", "assign"} => p[x].batch \in Seq(Statuses)
    BY DEF Joint
  <2>2. CASE x = side
    <3>1. ToHandle(q[x]) = << >>
      BY <1>2, <1>4, <2>2
    <3>2. Shaped(<< >>, ToSide(x, c, s)) /\ \A e : ~Has(<< >>, e)
      BY EmptyQueue
    <3>3. Carried(n, q, c, s, x)
      BY <2>1, <3>1, <3>2 DEF Carried
    <3>4. EndSound(t, n.conn[x], n.events[x], ToHandle(q[x]), Unmet(x, c, s))
      BY <2>1, <3>1, <3>2 DEF EndSound
    <3> QED BY <1>4, <2>1, <3>3, <3>4
  <2>3. CASE x # side
    <3>1. q[x] = p[x]
      BY <1>4, <2>3
    <3> QED BY <2>1, <3>1 DEF Carried
  <2> QED BY <2>2, <2>3
<1>6. t = "native" => OfferedOnce(n, q, c, s)
  <2>1. OfferedOnce(n, p, c, s) => OfferedOnce(n, q, c, s)
    <3>1. q["server"].at = p["server"].at \/ ToRun(p["server"]) = << >>
      BY <1>3, <1>4, SidesAre
    <3>2. \A i \in DOMAIN << >> : FALSE
      OBVIOUS
    <3> QED BY <1>4, <3>1, <3>2, SidesAre DEF OfferedOnce
  <2> QED BY <2>1 DEF Joint
<1>7. t = "memory" => MemoryShared(n, q)
  <2>1. \A x \in Sides : p[x].at # "assign" => q[x].at # "assign"
    BY <1>2, <1>4
  <2> QED BY <1>4, <2>1 DEF Joint, MemoryShared
<1>8. /\ q["client"].at # "assign"
      /\ q["server"].at = "assign" => n.conn["server"].native
  BY <1>2, <1>4, SidesAre DEF Joint
<1> QED
  BY <1>1, <1>4, <1>5, <1>6, <1>7, <1>8 DEF Joint, q

-----------------------------------------------------------------------------
(* Steps of the library and of the polls.                                     *)

\* A step that neither reports nor handles an event: it moves callbacks and
\* messages, and may tell an endpoint the state of its connection.
LEMMA NetMoves ==
  ASSUME NEW t, NEW n, NEW p, NEW c, NEW s, Joint(t, n, p, c, s),
         NEW n2 \in Nets, NEW p2 \in [Sides -> Polling],
         \A x \in Sides :
           /\ n2.events[x] = n.events[x] /\ ToHandle(p2[x]) = ToHandle(p[x])
           /\ n2.conn[x].native = n.conn[x].native /\ n2.conn[x].known = n.conn[x].known
           /\ n2.conn[x].connectedEmitted = n.conn[x].connectedEmitted
           /\ n2.conn[x].disconnectEmitted = n.conn[x].disconnectEmitted
           /\ n2.wire[x] \in Seq(ToSide(x, c, s)) /\ n2.loose[x] \subseteq ToSide(x, c, s)
           /\ n2.inbox[x] \in Seq(ToSide(x, c, s))
           /\ p2[x].at \in {"callbacks", "assign"} => p2[x].batch \in Seq(Statuses),
         n2.stray \in Seq(ToSide("server", c, s)),
         p2["client"].at # "assign",
         p2["server"].at = "assign" => n2.conn["server"].native,
         t = "native" => OfferedOnce(n2, p2, c, s),
         t = "memory" => MemoryShared(n2, p2)
  PROVE  Joint(t, n2, p2, c, s)
<1>1. ASSUME NEW x \in Sides
      PROVE  /\ EndSound(t, n2.conn[x], n2.events[x], ToHandle(p2[x]), Unmet(x, c, s))
             /\ Carried(n2, p2, c, s, x)
  <2>1. /\ EndSound(t, n.conn[x], n.events[x], ToHandle(p[x]), Unmet(x, c, s))
        /\ Carried(n, p, c, s, x)
    BY DEF Joint
  <2>2. EndSound(t, n2.conn[x], n2.events[x], ToHandle(p2[x]), Unmet(x, c, s))
    BY <2>1 DEF EndSound
  <2>3. Carried(n2, p2, c, s, x)
    BY <2>1 DEF Carried
  <2> QED BY <2>2, <2>3
<1> QED
  BY <1>1 DEF Joint

\* A step of the library while the polls are as they are.
LEMMA LibraryMoves ==
  ASSUME NEW n, NEW p, NEW c, NEW s, Joint("native", n, p, c, s),
         NEW n2 \in Nets, n2.events = n.events, n2.conn = n.conn,
         \A x \in Sides :
           /\ n2.wire[x] \in Seq(ToSide(x, c, s)) /\ n2.loose[x] \subseteq ToSide(x, c, s)
           /\ n2.inbox[x] \in Seq(ToSide(x, c, s)),
         n2.stray \in Seq(ToSide("server", c, s)), OfferedOnce(n2, p, c, s)
  PROVE  Joint("native", n2, p, c, s)
<1>1. ASSUME NEW x \in Sides
      PROVE  /\ EndSound("native", n2.conn[x], n2.events[x], ToHandle(p[x]), Unmet(x, c, s))
             /\ Carried(n2, p, c, s, x)
  BY DEF Joint, Carried
<1> QED
  BY <1>1 DEF Joint

\* A status that is posted after the others.
LEMMA StatusPosted ==
  ASSUME NEW q \in Seq(Statuses), NEW e \in Statuses
  PROVE  /\ Append(q, e) \in Seq(Statuses) /\ Append(q, e) # << >>
         /\ \A x : Has(Append(q, e), x) <=> Has(q, x) \/ x = e
         /\ \A i \in DOMAIN Append(q, e) :
              \/ Append(q, e)[i] = e /\ i = Len(q) + 1
              \/ i \in DOMAIN q /\ Append(q, e)[i] = q[i]
<1>1. Len(q) \in Nat /\ DOMAIN q = 1 .. Len(q)
  OBVIOUS
<1>2. /\ Append(q, e) \in Seq(Statuses) /\ Len(Append(q, e)) = Len(q) + 1
      /\ DOMAIN Append(q, e) = 1 .. Len(q) + 1
      /\ \A i \in 1 .. Len(q) : Append(q, e)[i] = q[i]
      /\ Append(q, e)[Len(q) + 1] = e
  BY <1>1
<1>3. \A x : Has(Append(q, e), x) <=> Has(q, x) \/ x = e
  BY <1>1, <1>2 DEF Has
<1>4. Append(q, e) # << >>
  BY <1>1, <1>2
<1>5. ASSUME NEW i \in 1 .. Len(q) + 1
      PROVE  \/ Append(q, e)[i] = e /\ i = Len(q) + 1
             \/ i \in DOMAIN q /\ Append(q, e)[i] = q[i]
  BY <1>1, <1>2
<1> QED
  BY <1>2, <1>3, <1>4, <1>5

\* The first of some statuses, and the others.
LEMMA StatusTaken ==
  ASSUME NEW q \in Seq(Statuses), q # << >>
  PROVE  /\ Head(q) \in Statuses /\ Has(q, Head(q)) /\ Tail(q) \in Seq(Statuses)
         /\ q[1] = Head(q) /\ 1 \in DOMAIN q
         /\ \A i \in DOMAIN Tail(q) : i + 1 \in DOMAIN q /\ Tail(q)[i] = q[i + 1] /\ i + 1 # 1
<1>1. Len(q) \in Nat /\ DOMAIN q = 1 .. Len(q) /\ Len(q) > 0
  OBVIOUS
<1>2. PICK k \in Nat : k = Len(q) /\ k > 0 /\ DOMAIN q = 1 .. k
  BY <1>1
<1>3. /\ Tail(q) \in Seq(Statuses) /\ Len(Tail(q)) = k - 1 /\ Head(q) = q[1]
      /\ DOMAIN Tail(q) = 1 .. k - 1 /\ \A i \in 1 .. k - 1 : Tail(q)[i] = q[i + 1]
  BY <1>2
<1>4. \A i \in 1 .. k - 1 : i + 1 \in 1 .. k /\ i + 1 # 1
  BY <1>2
<1>5. 1 \in DOMAIN q /\ Head(q) \in Statuses
  BY <1>2, <1>3
<1> QED
  BY <1>2, <1>3, <1>4, <1>5 DEF Has

\* A step that the client does not take keeps what it was told.
LEMMA QuietKeeps ==
  ASSUME ConnectionInv, UNCHANGED <<transport, client>>, poll'["client"] = poll["client"],
         net'.conn["client"].native => net.conn["client"].native,
         reported' = IF poll'["client"].at = "idle" THEN client'.state ELSE reported,
         Joint(transport, net', poll', client, server')
  PROVE  ConnectionInv'
<1>1. Told(net, poll, client, reported) /\ transport \in {"native", "memory"}
  BY DEF ConnectionInv
<1>2. reported' = reported
  BY <1>1 DEF Told
<1>3. Ending(net, poll, client) => Ending(net', poll', client)
  BY DEF Ending
<1>4. Told(net', poll', client, reported)
  BY <1>1, <1>3 DEF Told
<1> QED
  BY <1>1, <1>2, <1>4 DEF ConnectionInv

\* How the application is told the client's state.
Reports == reported' = IF poll'["client"].at = "idle" THEN client'.state ELSE reported

\* What the proofs below use of a network.
LEMMA NetFields ==
  ASSUME NEW n \in Nets
  PROVE  /\ n.link \in [Sides -> Links] /\ n.callbacks \in [Sides -> Seq(Statuses)]
         /\ n.wire \in [Sides -> Seq(AnyMessage)] /\ n.loose \in [Sides -> SUBSET AnyMessage]
         /\ n.inbox \in [Sides -> Seq(AnyMessage)] /\ n.stray \in Seq(AnyMessage)
         /\ n.grouped \in BOOLEAN /\ n.conn \in [Sides -> Records]
         /\ n.events \in [Sides -> Seq(EventsOf(AnyMessage))]
BY DEF Nets

LEMMA LibraryOffersKeeps ==
  ASSUME ConnectionInv, LibraryOffers, Reports
  PROVE  ConnectionInv' /\ UNCHANGED server
<1> DEFINE link2 == [net.link EXCEPT !["server"] = "connecting"]
           calls2 == [net.callbacks EXCEPT !["server"] = Append(@, "Connecting")]
<1>1. /\ transport = "native" /\ net \in Nets /\ net.link["server"] = "none"
      /\ poll \in [Sides -> Polling]
      /\ net' = [net EXCEPT !.link["server"] = "connecting",
                            !.callbacks["server"] = Append(@, "Connecting")]
      /\ UNCHANGED <<transport, poll, client, server>>
      /\ Joint("native", net, poll, client, server)
  BY DEF ConnectionInv, Joint, LibraryOffers
<1>2. OfferedOnce(net, poll, client, server)
  BY <1>1 DEF Joint
<1>3. /\ net.callbacks["server"] = << >> /\ ToRun(poll["server"]) = << >>
      /\ Offerable(net, client, server)
  BY <1>1, <1>2 DEF OfferedOnce
<1>4. link2 \in [Sides -> Links] /\ link2["server"] = "connecting"
  BY <1>1, NetFields, SidesAre DEF Links
<1>5. /\ calls2 \in [Sides -> Seq(Statuses)] /\ calls2["client"] = net.callbacks["client"]
      /\ calls2["server"] = Append(<< >>, "Connecting")
  <2>1. Append(net.callbacks["server"], "Connecting") \in Seq(Statuses)
    BY <1>3 DEF Statuses
  <2> QED BY <1>1, <1>3, <2>1, NetFields, SidesAre
<1>6. net' = [net EXCEPT !.link = link2, !.callbacks = calls2]
  BY <1>1 DEF Nets
<1> HIDE DEF link2, calls2
<1>7. /\ net' \in Nets /\ net'.link = link2 /\ net'.callbacks = calls2
      /\ net'.wire = net.wire /\ net'.loose = net.loose /\ net'.inbox = net.inbox
      /\ net'.stray = net.stray /\ net'.conn = net.conn /\ net'.events = net.events
  BY <1>1, <1>4, <1>5, <1>6 DEF Nets
<1>8. DOMAIN Append(<< >>, "Connecting") = {1}
  OBVIOUS
<1>9. OfferedOnce(net', poll, client, server)
  BY <1>2, <1>3, <1>4, <1>5, <1>7, <1>8 DEF OfferedOnce, Offerable, Has
<1>10. Joint("native", net', poll, client, server)
  BY <1>1, <1>7, <1>9, NetMoves, SidesAre DEF Joint, Carried
<1> QED
  BY <1>1, <1>7, <1>10, QuietKeeps DEF Reports

LEMMA LibraryConnectsKeeps ==
  ASSUME ConnectionInv, LibraryConnects, Reports
  PROVE  ConnectionInv' /\ UNCHANGED server
<1> DEFINE link2 == [net.link EXCEPT !["client"] = "connected"]
           calls2 == [net.callbacks EXCEPT !["client"] = Append(@, "Connected")]
<1>1. /\ net \in Nets /\ net.link["server"] = "connected"
      /\ net' = [net EXCEPT !.link["client"] = "connected",
                            !.callbacks["client"] = Append(@, "Connected")]
      /\ UNCHANGED <<transport, poll, client, server>>
      /\ Joint(transport, net, poll, client, server)
  BY DEF ConnectionInv, Joint, LibraryConnects
<1>2. transport = "native"
  BY <1>1 DEF ConnectionInv, Joint, MemoryShared
<1>3. OfferedOnce(net, poll, client, server)
  BY <1>1, <1>2 DEF Joint
<1>4. link2 \in [Sides -> Links] /\ link2["server"] = "connected"
  BY <1>1, NetFields, SidesAre DEF Links
<1>5. net.callbacks["client"] \in Seq(Statuses) /\ "Connected" \in Statuses
  BY <1>1, NetFields, SidesAre DEF Statuses
<1>6. /\ calls2 \in [Sides -> Seq(Statuses)] /\ calls2["server"] = net.callbacks["server"]
      /\ calls2["client"] = Append(net.callbacks["client"], "Connected")
  BY <1>1, <1>5, StatusPosted, NetFields, SidesAre
<1>7. ~Has(calls2["client"], "Connecting")
  BY <1>3, <1>5, <1>6, StatusPosted DEF OfferedOnce
<1>8. net' = [net EXCEPT !.link = link2, !.callbacks = calls2]
  BY <1>1 DEF Nets
<1> HIDE DEF link2, calls2
<1>9. /\ net' \in Nets /\ net'.link = link2 /\ net'.callbacks = calls2
      /\ net'.wire = net.wire /\ net'.loose = net.loose /\ net'.inbox = net.inbox
      /\ net'.stray = net.stray /\ net'.conn = net.conn /\ net'.events = net.events
  BY <1>1, <1>4, <1>6, <1>8 DEF Nets
<1>10. OfferedOnce(net', poll, client, server)
  BY <1>1, <1>3, <1>4, <1>6, <1>7, <1>9 DEF OfferedOnce, Offerable
<1>11. Joint("native", net', poll, client, server)
  BY <1>1, <1>2, <1>9, <1>10, NetMoves, SidesAre DEF Joint, Carried
<1> QED
  BY <1>1, <1>2, <1>9, <1>11, QuietKeeps DEF Reports

\* The library's end of a side, with a status that tells it.
LEMMA LinkClosedKeeps ==
  ASSUME ConnectionInv, Reports, transport = "native", NEW side \in Sides, Active(side),
         NEW status \in {"ClosedByPeer", "ProblemDetectedLocally"},
         net' = LinkClosed(net, side, status), UNCHANGED <<transport, poll, client, server>>
  PROVE  ConnectionInv' /\ UNCHANGED server
<1> DEFINE link2 == [net.link EXCEPT ![side] = "closed"]
           wire2 == [net.wire EXCEPT ![side] = << >>]
           loose2 == [net.loose EXCEPT ![side] = {}]
           calls2 == [net.callbacks EXCEPT ![side] = Append(@, status)]
<1>1. /\ net \in Nets /\ Joint("native", net, poll, client, server)
      /\ net.link[side] # "none" /\ status \in Statuses /\ status # "Connecting"
  BY DEF ConnectionInv, Joint, Active, Statuses
<1>2. OfferedOnce(net, poll, client, server)
  BY <1>1 DEF Joint
<1>3. /\ link2 \in [Sides -> Links] /\ link2[side] = "closed"
      /\ \A x \in Sides : x # side => link2[x] = net.link[x]
  BY <1>1, NetFields DEF Links
<1>4. net.callbacks[side] \in Seq(Statuses)
  BY <1>1, NetFields
<1>5. /\ calls2 \in [Sides -> Seq(Statuses)]
      /\ calls2[side] = Append(net.callbacks[side], status)
      /\ \A x \in Sides : x # side => calls2[x] = net.callbacks[x]
  BY <1>1, <1>4, StatusPosted, NetFields
<1>6. /\ wire2 \in [Sides -> Seq(AnyMessage)] /\ loose2 \in [Sides -> SUBSET AnyMessage]
      /\ \A x \in Sides : wire2[x] \in {net.wire[x], << >>} /\ loose2[x] \subseteq net.loose[x]
  BY <1>1, NetFields
<1>7. net' = [net EXCEPT !.link = link2, !.wire = wire2, !.loose = loose2, !.callbacks = calls2]
  BY <1>1 DEF Nets, LinkClosed
<1> HIDE DEF link2, calls2, wire2, loose2
<1>8. /\ net' \in Nets /\ net'.link = link2 /\ net'.callbacks = calls2
      /\ net'.wire = wire2 /\ net'.loose = loose2 /\ net'.inbox = net.inbox
      /\ net'.stray = net.stray /\ net'.conn = net.conn /\ net'.events = net.events
  BY <1>1, <1>3, <1>5, <1>6, <1>7 DEF Nets
<1>9. ASSUME NEW x \in Sides
      PROVE  Has(calls2[x], "Connecting") <=> Has(net.callbacks[x], "Connecting")
  <2>1. \A y : Has(Append(net.callbacks[side], status), y) <=>
                 Has(net.callbacks[side], y) \/ y = status
    BY <1>1, <1>4, StatusPosted
  <2> QED BY <1>1, <1>5, <2>1
<1>10. \A i \in DOMAIN calls2["server"] : calls2["server"][i] = "Connecting" => i = 1
  <2>1. \A i \in DOMAIN net.callbacks["server"] :
           net.callbacks["server"][i] = "Connecting" => i = 1
    BY <1>2 DEF OfferedOnce
  <2>2. CASE side = "server"
    <3>1. \A i \in DOMAIN calls2["server"] :
             \/ calls2["server"][i] = status
             \/ i \in DOMAIN net.callbacks["server"]
                /\ calls2["server"][i] = net.callbacks["server"][i]
      BY <1>1, <1>4, <1>5, <2>2, StatusPosted
    <3> QED BY <1>1, <2>1, <3>1
  <2>3. CASE side # "server"
    BY <1>5, <2>1, <2>3, SidesAre
  <2> QED BY <2>2, <2>3
<1>11. /\ link2["server"] = "none" => net.link["server"] = "none"
       /\ net.link["server"] = "none" => calls2["server"] = net.callbacks["server"]
  BY <1>1, <1>3, <1>5, SidesAre
<1>12. OfferedOnce(net', poll, client, server)
  <2>1. /\ Has(calls2["client"], "Connecting") <=> Has(net.callbacks["client"], "Connecting")
        /\ Has(calls2["server"], "Connecting") <=> Has(net.callbacks["server"], "Connecting")
    BY <1>9, SidesAre
  <2>2. Offerable(net', client, server) <=> Offerable(net, client, server)
    BY <1>8 DEF Offerable
  <2> QED BY <1>2, <1>8, <1>10, <1>11, <2>1, <2>2 DEF OfferedOnce
<1>13. Joint("native", net', poll, client, server)
  <2>1. << >> \in Seq(ToSide(side, client, server))
    OBVIOUS
  <2>2. \A x \in Sides : /\ net.wire[x] \in Seq(ToSide(x, client, server))
                         /\ net.loose[x] \subseteq ToSide(x, client, server)
                         /\ net.inbox[x] \in Seq(ToSide(x, client, server))
                         /\ << >> \in Seq(ToSide(x, client, server))
    BY <1>1 DEF Joint, Carried
  <2>3. net.stray \in Seq(ToSide("server", client, server))
    BY <1>1, SidesAre DEF Joint, Carried
  <2>4. \A x \in Sides : /\ net'.wire[x] \in Seq(ToSide(x, client, server))
                         /\ net'.loose[x] \subseteq ToSide(x, client, server)
    BY <1>6, <1>8, <2>2
  <2>5. /\ net'.events = net.events /\ net'.conn = net.conn
        /\ \A x \in Sides : /\ net'.wire[x] \in Seq(ToSide(x, client, server))
                            /\ net'.loose[x] \subseteq ToSide(x, client, server)
                            /\ net'.inbox[x] \in Seq(ToSide(x, client, server))
        /\ net'.stray \in Seq(ToSide("server", client, server))
    BY <1>8, <2>2, <2>3, <2>4
  <2> QED BY <1>1, <1>8, <1>12, <2>5, LibraryMoves
<1> QED
  BY <1>8, <1>13, QuietKeeps DEF Reports

LEMMA LibraryFailsKeeps ==
  ASSUME ConnectionInv, Reports, NEW side \in Sides, LibraryFails(side)
  PROVE  ConnectionInv' /\ UNCHANGED server
BY LinkClosedKeeps DEF LibraryFails

LEMMA LibraryNoticesKeeps ==
  ASSUME ConnectionInv, Reports, NEW side \in Sides, LibraryNotices(side)
  PROVE  ConnectionInv' /\ UNCHANGED server
<1>1. PICK status \in {"ClosedByPeer", "ProblemDetectedLocally"} :
        net' = LinkClosed(net, side, status)
  BY DEF LibraryNotices
<1> QED
  BY <1>1, LinkClosedKeeps DEF LibraryNotices

\* Messages that move towards a side, or are lost.
LEMMA MessagesMove ==
  ASSUME ConnectionInv, Reports, UNCHANGED <<transport, poll, client, server>>,
         net' \in Nets, net'.link = net.link, net'.callbacks = net.callbacks,
         net'.conn = net.conn, net'.events = net.events,
         \A x \in Sides :
           /\ net'.wire[x] \in Seq(ToSide(x, client, server))
           /\ net'.loose[x] \subseteq ToSide(x, client, server)
           /\ net'.inbox[x] \in Seq(ToSide(x, client, server)),
         net'.stray \in Seq(ToSide("server", client, server))
  PROVE  ConnectionInv' /\ UNCHANGED server
<1>1. Joint(transport, net, poll, client, server)
  BY DEF ConnectionInv
<1>2. ASSUME NEW x \in Sides
      PROVE  /\ EndSound(transport, net'.conn[x], net'.events[x], ToHandle(poll[x]),
                         Unmet(x, client, server))
             /\ Carried(net', poll, client, server, x)
  BY <1>1 DEF Joint, Carried
<1>3. transport = "native" => OfferedOnce(net', poll, client, server)
  BY <1>1 DEF Joint, OfferedOnce, Offerable
<1>4. transport = "memory" => MemoryShared(net', poll)
  BY <1>1 DEF Joint, MemoryShared
<1>5. Joint(transport, net', poll, client, server)
  BY <1>1, <1>2, <1>3, <1>4 DEF Joint
<1> QED
  BY <1>5, QuietKeeps DEF Reports

\* A message joins those that wait for a side.
LEMMA ArrivedIs ==
  ASSUME NEW n \in Nets, NEW side \in Sides, NEW m \in AnyMessage,
         NEW M, m \in M, n.inbox[side] \in Seq(M), side = "server" => n.stray \in Seq(M)
  PROVE  LET n2 == Arrived(n, side, m)
         IN  /\ n2 \in Nets /\ n2.link = n.link /\ n2.callbacks = n.callbacks
             /\ n2.conn = n.conn /\ n2.events = n.events /\ n2.wire = n.wire
             /\ n2.loose = n.loose
             /\ \A x \in Sides : x # side => n2.inbox[x] = n.inbox[x]
             /\ n2.inbox[side] \in Seq(M)
             /\ IF side = "server" THEN n2.stray \in Seq(M) ELSE n2.stray = n.stray
<1>1. CASE side = "server" /\ ~n.grouped
  <2>1. Append(n.stray, m) \in Seq(AnyMessage) /\ Append(n.stray, m) \in Seq(M)
    BY <1>1, NetFields
  <2>2. PICK q : q = Append(n.stray, m)
    OBVIOUS
  <2>3. PICK n2 : n2 = [n EXCEPT !.stray = q]
    OBVIOUS
  <2>4. Arrived(n, side, m) = n2
    BY <1>1, <2>2, <2>3 DEF Arrived
  <2>5. /\ n2 \in Nets /\ n2.link = n.link /\ n2.callbacks = n.callbacks
        /\ n2.conn = n.conn /\ n2.events = n.events /\ n2.wire = n.wire
        /\ n2.loose = n.loose /\ n2.inbox = n.inbox /\ n2.stray = q
    BY <2>1, <2>2, <2>3 DEF Nets
  <2> QED BY <1>1, <2>1, <2>2, <2>4, <2>5
<1>2. CASE ~(side = "server" /\ ~n.grouped)
  <2>1. Append(n.inbox[side], m) \in Seq(AnyMessage) /\ Append(n.inbox[side], m) \in Seq(M)
    BY NetFields
  <2>2. PICK f : f = [n.inbox EXCEPT ![side] = Append(n.inbox[side], m)]
    OBVIOUS
  <2>3. /\ f \in [Sides -> Seq(AnyMessage)] /\ f[side] \in Seq(M)
        /\ \A x \in Sides : x # side => f[x] = n.inbox[x]
    BY <2>1, <2>2, NetFields
  <2>4. PICK n2 : n2 = [n EXCEPT !.inbox = f]
    OBVIOUS
  <2>5. Arrived(n, side, m) = n2
    BY <1>2, <2>2, <2>4 DEF Arrived
  <2>6. /\ n2 \in Nets /\ n2.link = n.link /\ n2.callbacks = n.callbacks
        /\ n2.conn = n.conn /\ n2.events = n.events /\ n2.wire = n.wire
        /\ n2.loose = n.loose /\ n2.inbox = f /\ n2.stray = n.stray
    BY <2>3, <2>4 DEF Nets
  <2> QED BY <2>3, <2>5, <2>6
<1> QED
  BY <1>1, <1>2

LEMMA ReliableArrivesKeeps ==
  ASSUME ConnectionInv, Reports, NEW side \in Sides, ReliableArrives(side)
  PROVE  ConnectionInv' /\ UNCHANGED server
<1> DEFINE M == ToSide(side, client, server) m == Head(net.wire[side])
           n1 == Arrived(net, side, m) w == [net.wire EXCEPT ![side] = Tail(@)]
<1>1. Joint(transport, net, poll, client, server) /\ net \in Nets
  BY DEF ConnectionInv, Joint
<1>2. M \subseteq AnyMessage
  BY <1>1, ToSideMessages DEF Joint
<1>3. \A x \in Sides : /\ net.wire[x] \in Seq(ToSide(x, client, server))
                       /\ net.loose[x] \subseteq ToSide(x, client, server)
                       /\ net.inbox[x] \in Seq(ToSide(x, client, server))
  BY <1>1 DEF Joint, Carried
<1>4. net.stray \in Seq(ToSide("server", client, server))
  BY <1>1, SidesAre DEF Joint, Carried
<1>5. /\ net.wire[side] \in Seq(M) /\ net.wire[side] # << >>
      /\ UNCHANGED <<transport, poll, client, server>>
      /\ net' = [n1 EXCEPT !.wire[side] = Tail(@)]
  BY <1>3 DEF ReliableArrives
<1> HIDE DEF M
<1>6. m \in M /\ Tail(net.wire[side]) \in Seq(M) /\ Tail(net.wire[side]) \in Seq(AnyMessage)
  BY <1>2, <1>5
<1>7. m \in AnyMessage /\ net.inbox[side] \in Seq(M) /\ (side = "server" => net.stray \in Seq(M))
  BY <1>2, <1>3, <1>4, <1>6 DEF M
<1> HIDE DEF m
<1>8. /\ n1 \in Nets /\ n1.link = net.link /\ n1.callbacks = net.callbacks
      /\ n1.conn = net.conn /\ n1.events = net.events /\ n1.wire = net.wire
      /\ n1.loose = net.loose
      /\ \A x \in Sides : x # side => n1.inbox[x] = net.inbox[x]
      /\ n1.inbox[side] \in Seq(M)
      /\ IF side = "server" THEN n1.stray \in Seq(M) ELSE n1.stray = net.stray
  BY <1>1, <1>6, <1>7, ArrivedIs
<1> HIDE DEF n1
<1>9. /\ w \in [Sides -> Seq(AnyMessage)] /\ w[side] \in Seq(M)
      /\ \A x \in Sides : x # side => w[x] = net.wire[x]
  BY <1>1, <1>6, NetFields
<1>10. net' = [n1 EXCEPT !.wire = w]
  BY <1>5, <1>8 DEF Nets
<1> HIDE DEF w
<1>11. /\ net' \in Nets /\ net'.link = n1.link /\ net'.callbacks = n1.callbacks
       /\ net'.conn = n1.conn /\ net'.events = n1.events /\ net'.wire = w
       /\ net'.loose = n1.loose /\ net'.inbox = n1.inbox /\ net'.stray = n1.stray
  BY <1>8, <1>9, <1>10 DEF Nets
<1>12. \A x \in Sides : /\ net'.wire[x] \in Seq(ToSide(x, client, server))
                        /\ net'.loose[x] \subseteq ToSide(x, client, server)
                        /\ net'.inbox[x] \in Seq(ToSide(x, client, server))
  BY <1>3, <1>8, <1>9, <1>11 DEF M
<1>13. net'.stray \in Seq(ToSide("server", client, server))
  BY <1>4, <1>8, <1>11 DEF M
<1> QED
  BY <1>5, <1>8, <1>11, <1>12, <1>13, MessagesMove

LEMMA UnreliableArrivesKeeps ==
  ASSUME ConnectionInv, Reports, NEW side \in Sides, UnreliableArrives(side)
  PROVE  ConnectionInv' /\ UNCHANGED server
<1> DEFINE M == ToSide(side, client, server)
<1>1. Joint(transport, net, poll, client, server) /\ net \in Nets
  BY DEF ConnectionInv, Joint
<1>2. M \subseteq AnyMessage
  BY <1>1, ToSideMessages DEF Joint
<1>3. \A x \in Sides : /\ net.wire[x] \in Seq(ToSide(x, client, server))
                       /\ net.loose[x] \subseteq ToSide(x, client, server)
                       /\ net.inbox[x] \in Seq(ToSide(x, client, server))
  BY <1>1 DEF Joint, Carried
<1>4. net.stray \in Seq(ToSide("server", client, server))
  BY <1>1, SidesAre DEF Joint, Carried
<1>5. PICK m \in net.loose[side] : net' = [Arrived(net, side, m) EXCEPT !.loose[side] = @ \ {m}]
  BY DEF UnreliableArrives
<1> DEFINE n1 == Arrived(net, side, m) l == [net.loose EXCEPT ![side] = @ \ {m}]
<1>6. UNCHANGED <<transport, poll, client, server>> /\ m \in M
  BY <1>3 DEF UnreliableArrives
<1> HIDE DEF M
<1>7. m \in AnyMessage /\ net.inbox[side] \in Seq(M) /\ (side = "server" => net.stray \in Seq(M))
  BY <1>2, <1>3, <1>4, <1>6 DEF M
<1>8. /\ n1 \in Nets /\ n1.link = net.link /\ n1.callbacks = net.callbacks
      /\ n1.conn = net.conn /\ n1.events = net.events /\ n1.wire = net.wire
      /\ n1.loose = net.loose
      /\ \A x \in Sides : x # side => n1.inbox[x] = net.inbox[x]
      /\ n1.inbox[side] \in Seq(M)
      /\ IF side = "server" THEN n1.stray \in Seq(M) ELSE n1.stray = net.stray
  BY <1>1, <1>6, <1>7, ArrivedIs
<1>9. net' = [n1 EXCEPT !.loose = l]
  <2> HIDE DEF n1
  <2>1. n1 = Arrived(net, side, m)
    BY DEF n1
  <2>2. [n1 EXCEPT !.loose[side] = @ \ {m}] = [n1 EXCEPT !.loose = l]
    BY <1>8 DEF Nets
  <2> QED BY <1>5, <2>1, <2>2
<1> HIDE DEF n1
<1>10. /\ l \in [Sides -> SUBSET AnyMessage]
       /\ \A x \in Sides : l[x] \subseteq net.loose[x]
  BY <1>1, NetFields
<1> HIDE DEF l
<1>11. /\ net' \in Nets /\ net'.link = n1.link /\ net'.callbacks = n1.callbacks
       /\ net'.conn = n1.conn /\ net'.events = n1.events /\ net'.wire = n1.wire
       /\ net'.loose = l /\ net'.inbox = n1.inbox /\ net'.stray = n1.stray
  BY <1>8, <1>9, <1>10 DEF Nets
<1>12. \A x \in Sides : /\ net'.wire[x] \in Seq(ToSide(x, client, server))
                        /\ net'.loose[x] \subseteq ToSide(x, client, server)
                        /\ net'.inbox[x] \in Seq(ToSide(x, client, server))
  BY <1>3, <1>8, <1>10, <1>11 DEF M
<1>13. net'.stray \in Seq(ToSide("server", client, server))
  BY <1>4, <1>8, <1>11 DEF M
<1> QED
  BY <1>6, <1>8, <1>11, <1>12, <1>13, MessagesMove

LEMMA UnreliableLostKeeps ==
  ASSUME ConnectionInv, Reports, NEW side \in Sides, UnreliableLost(side)
  PROVE  ConnectionInv' /\ UNCHANGED server
<1>1. Joint(transport, net, poll, client, server) /\ net \in Nets
  BY DEF ConnectionInv, Joint
<1>2. \A x \in Sides : /\ net.wire[x] \in Seq(ToSide(x, client, server))
                       /\ net.loose[x] \subseteq ToSide(x, client, server)
                       /\ net.inbox[x] \in Seq(ToSide(x, client, server))
  BY <1>1 DEF Joint, Carried
<1>3. net.stray \in Seq(ToSide("server", client, server))
  BY <1>1, SidesAre DEF Joint, Carried
<1>4. UNCHANGED <<transport, poll, client, server>>
  BY DEF UnreliableLost
<1>5. PICK m \in net.loose[side] : net' = [net EXCEPT !.loose[side] = @ \ {m}]
  BY DEF UnreliableLost
<1> DEFINE l == [net.loose EXCEPT ![side] = @ \ {m}]
<1>6. net' = [net EXCEPT !.loose = l]
  BY <1>1, <1>5 DEF Nets
<1>7. /\ l \in [Sides -> SUBSET AnyMessage]
      /\ \A x \in Sides : l[x] \subseteq net.loose[x]
  BY <1>1, NetFields
<1> HIDE DEF l
<1>8. /\ net' \in Nets /\ net'.link = net.link /\ net'.callbacks = net.callbacks
      /\ net'.conn = net.conn /\ net'.events = net.events /\ net'.wire = net.wire
      /\ net'.loose = l /\ net'.inbox = net.inbox /\ net'.stray = net.stray
  BY <1>1, <1>6, <1>7 DEF Nets
<1>9. \A x \in Sides : /\ net'.wire[x] \in Seq(ToSide(x, client, server))
                       /\ net'.loose[x] \subseteq ToSide(x, client, server)
                       /\ net'.inbox[x] \in Seq(ToSide(x, client, server))
  BY <1>2, <1>7, <1>8
<1> QED
  BY <1>3, <1>4, <1>8, <1>9, MessagesMove

LEMMA PollsKeeps ==
  ASSUME ConnectionInv, Reports, NEW side \in Sides, Polls(side)
  PROVE  ConnectionInv' /\ UNCHANGED server
<1> DEFINE calls2 == [net.callbacks EXCEPT ![side] = << >>]
           taken == [at |-> "callbacks", batch |-> net.callbacks[side]]
           client2 == [client EXCEPT !.error = "none"]
<1>1. /\ Joint(transport, net, poll, client, server) /\ net \in Nets
      /\ poll \in [Sides -> Polling] /\ client \in ClientRecords /\ server \in ServerRecords
      /\ Told(net, poll, client, reported) /\ transport \in {"native", "memory"}
  BY DEF ConnectionInv, Joint
<1>2. /\ poll[side].at = "idle" /\ poll' = [poll EXCEPT ![side] = taken]
      /\ net' = [net EXCEPT !.callbacks = calls2] /\ UNCHANGED <<transport, server>>
      /\ IF side = "server" THEN UNCHANGED client ELSE client' = client2
  BY <1>1 DEF Polls, Nets
<1>3. /\ net.callbacks[side] \in Seq(Statuses) /\ calls2 \in [Sides -> Seq(Statuses)]
      /\ calls2[side] = << >> /\ \A x \in Sides : x # side => calls2[x] = net.callbacks[x]
  BY <1>1, NetFields
<1>4. /\ taken \in Polling /\ taken.at = "callbacks" /\ taken.batch = net.callbacks[side]
      /\ ToHandle(taken) = << >> /\ ToRun(taken) = net.callbacks[side]
  BY <1>3 DEF Polling, ToHandle, ToRun
<1>5. ToHandle(poll[side]) = << >> /\ ToRun(poll[side]) = << >>
  BY <1>2 DEF ToHandle, ToRun
<1> HIDE DEF calls2, taken
<1>6. /\ net' \in Nets /\ net'.link = net.link /\ net'.callbacks = calls2
      /\ net'.conn = net.conn /\ net'.events = net.events /\ net'.wire = net.wire
      /\ net'.loose = net.loose /\ net'.inbox = net.inbox /\ net'.stray = net.stray
  BY <1>1, <1>2, <1>3 DEF Nets
<1>7. /\ poll' \in [Sides -> Polling] /\ poll'[side] = taken
      /\ \A x \in Sides : x # side => poll'[x] = poll[x]
  BY <1>1, <1>2, <1>4
<1>8. transport = "native" => OfferedOnce(net', poll', client, server)
  <2>1. SUFFICES ASSUME transport = "native" PROVE OfferedOnce(net', poll', client, server)
    OBVIOUS
  <2>2. OfferedOnce(net, poll, client, server)
    BY <1>1, <2>1 DEF Joint
  <2>3. Offerable(net', client, server) <=> Offerable(net, client, server)
    BY <1>6 DEF Offerable
  <2>4. \A x : ~Has(<< >>, x)
    BY EmptyQueue
  <2>5. CASE side = "client"
    BY <1>3, <1>4, <1>5, <1>6, <1>7, <2>2, <2>3, <2>4, <2>5, SidesAre DEF OfferedOnce
  <2>6. CASE side = "server"
    <3>1. /\ net'.callbacks["server"] = << >> /\ ToRun(poll'["server"]) = net.callbacks["server"]
          /\ poll'["server"].at = "callbacks" /\ poll'["client"] = poll["client"]
          /\ net'.callbacks["client"] = net.callbacks["client"] /\ net'.link = net.link
      BY <1>3, <1>4, <1>6, <1>7, <2>6, SidesAre
    <3>2. \A i \in DOMAIN << >> : FALSE
      OBVIOUS
    <3> QED BY <2>2, <2>3, <2>4, <3>1, <3>2 DEF OfferedOnce
  <2> QED BY <2>5, <2>6, SidesAre
<1>9. transport = "memory" => MemoryShared(net', poll')
  <2>1. SUFFICES ASSUME transport = "memory" PROVE MemoryShared(net', poll')
    OBVIOUS
  <2>2. MemoryShared(net, poll)
    BY <1>1, <2>1 DEF Joint
  <2>3. ASSUME NEW x \in Sides
        PROVE  net'.callbacks[x] = << >> /\ ToRun(poll'[x]) = << >> /\ poll'[x].at # "assign"
    BY <1>3, <1>4, <1>6, <1>7, <2>2 DEF MemoryShared
  <2> QED BY <1>6, <2>2, <2>3 DEF MemoryShared
<1>10. Joint(transport, net', poll', client, server)
  <2>1. ASSUME NEW x \in Sides
        PROVE  /\ EndSound(transport, net'.conn[x], net'.events[x], ToHandle(poll'[x]),
                           Unmet(x, client, server))
               /\ Carried(net', poll', client, server, x)
               /\ poll'[x].at \in {"callbacks", "assign"} => poll'[x].batch \in Seq(Statuses)
    <3>1. /\ EndSound(transport, net.conn[x], net.events[x], ToHandle(poll[x]),
                      Unmet(x, client, server))
          /\ Carried(net, poll, client, server, x)
          /\ poll[x].at \in {"callbacks", "assign"} => poll[x].batch \in Seq(Statuses)
      BY <1>1 DEF Joint
    <3>2. ToHandle(poll'[x]) = ToHandle(poll[x])
      BY <1>4, <1>5, <1>7
    <3>3. poll'[x].at \in {"callbacks", "assign"} => poll'[x].batch \in Seq(Statuses)
      BY <1>3, <1>4, <1>7, <3>1
    <3> QED BY <1>6, <3>1, <3>2, <3>3 DEF Carried
  <2>2. /\ poll'["client"].at # "assign"
        /\ poll'["server"].at = "assign" => net'.conn["server"].native
    BY <1>1, <1>4, <1>6, <1>7, SidesAre DEF Joint
  <2> QED BY <1>1, <1>6, <1>7, <1>8, <1>9, <2>1, <2>2 DEF Joint
<1>11. CASE side = "server"
  BY <1>2, <1>6, <1>7, <1>10, <1>11, QuietKeeps, SidesAre DEF Reports
<1>12. CASE side = "client"
  <2>1. /\ client2 \in ClientRecords /\ client2.error = "none" /\ client2.state = client.state
        /\ client2.connection = client.connection /\ client2.id = client.id
        /\ client2.snapshot = client.snapshot
    BY <1>1 DEF ClientRecords
  <2>2. client' = client2
    BY <1>2, <1>12, SidesAre
  <2> HIDE DEF client2
  <2>3. RuntimesSound(client2, server)
    BY <1>1, <2>1 DEF Joint, RuntimesSound
  <2>4. \A x \in Sides : /\ ToSide(x, client, server) \subseteq ToSide(x, client2, server)
                         /\ Unmet(x, client, server) <=> Unmet(x, client2, server)
    BY <2>1 DEF ToSide, Unmet
  <2>5. Joint(transport, net', poll', client2, server)
    BY <1>1, <1>10, <2>1, <2>3, <2>4, RuntimesChange
  <2>6. poll'["client"].at = "callbacks" /\ ToHandle(poll'["client"]) = << >>
        /\ ToHandle(poll["client"]) = << >> /\ poll["client"].at = "idle"
    BY <1>2, <1>4, <1>5, <1>7, <1>12
  <2>7. reported' = reported
    BY <2>6 DEF Reports
  <2>8. Told(net', poll', client2, reported)
    BY <1>1, <1>6, <2>1, <2>6 DEF Told, Ending
  <2> QED BY <1>1, <1>2, <2>2, <2>5, <2>7, <2>8 DEF ConnectionInv
<1> QED
  BY <1>11, <1>12, SidesAre

\* What a poll gets: the queue, and the messages that wait if the end is up; and
\* whether the endpoint still knows the connection then.
Waiting(n, side) == n.inbox[side] \o IF side = "server" THEN n.stray ELSE << >>
Polled(n, side) ==
  IF n.conn[side].native
  THEN n.events[side]
       \o [i \in DOMAIN Waiting(n, side) |-> PayloadReceived(Waiting(n, side)[i])]
  ELSE n.events[side]
StillKnown(n, side) ==
  IF transport = "native" /\ side = "server" /\ Has(Polled(n, side), Disconnected)
  THEN FALSE ELSE n.conn[side].known

LEMMA ReceivedIs ==
  ASSUME NEW n \in Nets, NEW side \in Sides
  PROVE  /\ ReceiveMessages(n, side).events[side] = Polled(n, side)
         /\ Drained(ReceiveMessages(n, side), side) =
              [n EXCEPT !.events = [n.events EXCEPT ![side] = << >>],
                        !.inbox = [n.inbox EXCEPT ![side] = << >>],
                        !.stray = IF side = "server" THEN << >> ELSE n.stray,
                        !.conn = [n.conn EXCEPT ![side] =
                                    [n.conn[side] EXCEPT !.known = StillKnown(n, side)]]]
<1> DEFINE r == Polled(n, side)
           n1 == ReceiveMessages(n, side)
           stray2 == IF side = "server" THEN << >> ELSE n.stray
           inbox2 == [n.inbox EXCEPT ![side] = << >>]
<1>1. n1 = [n EXCEPT !.events = [n.events EXCEPT ![side] = r],
                     !.inbox = inbox2, !.stray = stray2]
  BY DEF ReceiveMessages, Nets, Polled, Waiting
<1>2. /\ DOMAIN n1 = DOMAIN n /\ n1.events = [n.events EXCEPT ![side] = r]
      /\ n1.inbox = inbox2 /\ n1.stray = stray2 /\ n1.conn = n.conn
  <2> HIDE DEF n1, r, stray2, inbox2
  <2> QED BY <1>1 DEF Nets
<1>3. n1.events[side] = r
  <2> HIDE DEF n1, r
  <2> QED BY <1>2, NetFields
<1>4. Disconnected \in ToSet(r) <=> Has(r, Disconnected)
  <2> HIDE DEF r
  <2> QED BY DEF ToSet, Has
<1> DEFINE left == transport = "native" /\ side = "server" /\ Has(r, Disconnected)
           record == IF left THEN [n.conn[side] EXCEPT !.known = FALSE] ELSE n.conn[side]
<1> HIDE DEF r, n1, stray2, inbox2
<1>5. Drained(n1, side) = [n1 EXCEPT !.events = [n1.events EXCEPT ![side] = << >>],
                                     !.conn = [n1.conn EXCEPT ![side] = record]]
  <2>1. (IF /\ transport = "native" /\ side = "server" /\ Disconnected \in ToSet(n1.events[side])
         THEN [n1.conn[side] EXCEPT !.known = FALSE] ELSE n1.conn[side]) = record
    BY <1>2, <1>3, <1>4
  <2> HIDE DEF record
  <2>2. Drained(n1, side) = [n1 EXCEPT !.events[side] = << >>, !.conn[side] = record]
    BY <1>2, <2>1 DEF Drained, Nets
  <2> QED BY <1>2, <2>2 DEF Nets
<1>6. [n1.events EXCEPT ![side] = << >>] = [n.events EXCEPT ![side] = << >>]
  BY <1>2, NetFields
<1>7. record = [n.conn[side] EXCEPT !.known = StillKnown(n, side)]
  BY NetFields DEF Records, StillKnown, r
<1> HIDE DEF record, left
<1>8. Drained(n1, side) = [n EXCEPT !.events = [n.events EXCEPT ![side] = << >>],
                                    !.inbox = inbox2, !.stray = stray2,
                                    !.conn = [n.conn EXCEPT ![side] = record]]
  BY <1>1, <1>2, <1>5, <1>6 DEF Nets
<1> QED
  BY <1>3, <1>7, <1>8, Zenon DEF r, n1, stray2, inbox2

\* What is polled is shaped, and ends or starts as the queue did.
LEMMA PolledIs ==
  ASSUME NEW n \in Nets, NEW side \in Sides, NEW M, n.inbox[side] \in Seq(M),
         side = "server" => n.stray \in Seq(M), Shaped(n.events[side], M),
         n.conn[side].native => ~Has(n.events[side], Disconnected)
  PROVE  /\ Shaped(Polled(n, side), M)
         /\ Has(Polled(n, side), Disconnected) <=> Has(n.events[side], Disconnected)
         /\ Has(Polled(n, side), Connected) <=> Has(n.events[side], Connected)
         /\ ~n.conn[side].native => Polled(n, side) = n.events[side]
<1>1. CASE ~n.conn[side].native
  BY <1>1 DEF Polled
<1>2. CASE n.conn[side].native
  <2> DEFINE ms == Waiting(n, side)
             es == [i \in DOMAIN ms |-> PayloadReceived(ms[i])]
  <2>1. ms \in Seq(M)
    BY DEF Waiting
  <2>2. Polled(n, side) = n.events[side] \o es
    BY <1>2 DEF Polled
  <2> HIDE DEF ms
  <2>3. /\ Shaped(n.events[side] \o es, M) /\ ~Has(n.events[side] \o es, Disconnected)
        /\ Has(n.events[side] \o es, Connected) <=> Has(n.events[side], Connected)
    BY <1>2, <2>1, ShapedPayloads
  <2> QED BY <1>2, <2>2, <2>3
<1> QED
  BY <1>1, <1>2

LEMMA ReceivesKeeps ==
  ASSUME ConnectionInv, Reports, NEW side \in Sides, Receives(side)
  PROVE  ConnectionInv' /\ UNCHANGED server
<1> DEFINE M == ToSide(side, client, server)
           r == Polled(net, side)
           events2 == [net.events EXCEPT ![side] = << >>]
           inbox2 == [net.inbox EXCEPT ![side] = << >>]
           stray2 == IF side = "server" THEN << >> ELSE net.stray
           record == [net.conn[side] EXCEPT !.known = StillKnown(net, side)]
           conn2 == [net.conn EXCEPT ![side] = record]
           taken == [at |-> "events", batch |-> r]
<1>1. /\ Joint(transport, net, poll, client, server) /\ net \in Nets
      /\ poll \in [Sides -> Polling] /\ client \in ClientRecords /\ server \in ServerRecords
      /\ Told(net, poll, client, reported) /\ transport \in {"native", "memory"}
  BY DEF ConnectionInv, Joint
<1>2. /\ poll[side] = [at |-> "callbacks", batch |-> << >>]
      /\ UNCHANGED <<transport, client, server>>
      /\ net' = [net EXCEPT !.events = events2, !.inbox = inbox2, !.stray = stray2,
                            !.conn = conn2]
      /\ poll' = [poll EXCEPT ![side] = taken]
  BY <1>1, ReceivedIs DEF Receives
<1>3. /\ poll[side].at = "callbacks" /\ ToHandle(poll[side]) = << >> /\ ToRun(poll[side]) = << >>
  BY <1>2 DEF ToHandle, ToRun
<1>4. /\ EndSound(transport, net.conn[side], net.events[side], << >>, Unmet(side, client, server))
      /\ Carried(net, poll, client, server, side)
  BY <1>1, <1>3 DEF Joint
<1>5. /\ Shaped(r, M)
      /\ Has(r, Disconnected) <=> Has(net.events[side], Disconnected)
      /\ Has(r, Connected) <=> Has(net.events[side], Connected)
      /\ ~net.conn[side].native => r = net.events[side]
  <2>1. /\ net.inbox[side] \in Seq(M) /\ Shaped(net.events[side], M)
        /\ side = "server" => net.stray \in Seq(M)
        /\ net.conn[side].native => ~Has(net.events[side], Disconnected)
    BY <1>4 DEF Carried, EndSound
  <2> HIDE DEF M
  <2> QED BY <1>1, <2>1, PolledIs
<1>6. net.conn[side] \in Records /\ StillKnown(net, side) \in BOOLEAN
      /\ (net.conn[side].native => StillKnown(net, side) = net.conn[side].known)
  BY <1>1, <1>4, <1>5, NetFields DEF StillKnown, Records, EndSound
<1>7. /\ record \in Records /\ record.native = net.conn[side].native
      /\ record.connectedEmitted = net.conn[side].connectedEmitted
      /\ record.disconnectEmitted = net.conn[side].disconnectEmitted
      /\ net.conn[side].native => record.known
  BY <1>4, <1>6 DEF Records, EndSound
<1>8. r \in Seq(EventsOf(AnyMessage))
  <2>1. M \subseteq AnyMessage
    BY <1>1, ToSideMessages
  <2>2. Shaped(r, AnyMessage)
    BY <1>5, <2>1, ShapedGrows
  <2> QED BY <2>2 DEF Shaped
<1>9. Offerable(net, client, server) /\ side = "server" => r = << >> /\ record = net.conn[side]
  <2>1. SUFFICES ASSUME Offerable(net, client, server), side = "server"
                 PROVE  r = << >> /\ record = net.conn[side]
    OBVIOUS
  <2>2. net.conn[side] = NoConnection /\ net.events[side] = << >>
    BY <2>1 DEF Offerable
  <2>3. r = << >>
    BY <1>5, <2>2 DEF NoConnection
  <2>4. StillKnown(net, side) = FALSE
    BY <2>2 DEF StillKnown, NoConnection
  <2>5. record = net.conn[side]
    <3>1. PICK k \in Records : k = net.conn[side]
      BY <1>6
    <3>2. k.known = FALSE
      BY <2>2, <3>1 DEF NoConnection
    <3>3. [k EXCEPT !.known = FALSE] = k
      BY <3>2 DEF Records
    <3> QED BY <2>4, <3>1, <3>3, Zenon
  <2> QED BY <2>3, <2>5
<1> HIDE DEF r, record
<1>10. /\ events2 \in [Sides -> Seq(EventsOf(AnyMessage))] /\ events2[side] = << >>
       /\ inbox2 \in [Sides -> Seq(AnyMessage)] /\ inbox2[side] = << >>
       /\ stray2 \in Seq(AnyMessage) /\ (side = "server" => stray2 = << >>)
       /\ side # "server" => stray2 = net.stray
       /\ conn2 \in [Sides -> Records] /\ conn2[side] = record
       /\ \A x \in Sides : x # side => /\ events2[x] = net.events[x] /\ inbox2[x] = net.inbox[x]
                                       /\ conn2[x] = net.conn[x]
  BY <1>1, <1>7, NetFields
<1> HIDE DEF events2, inbox2, stray2, conn2
<1>11. /\ net' \in Nets /\ net'.link = net.link /\ net'.callbacks = net.callbacks
       /\ net'.conn = conn2 /\ net'.events = events2 /\ net'.wire = net.wire
       /\ net'.loose = net.loose /\ net'.inbox = inbox2 /\ net'.stray = stray2
  BY <1>1, <1>2, <1>10 DEF Nets
<1>12. /\ taken \in Polling /\ taken.at = "events" /\ ToHandle(taken) = r /\ ToRun(taken) = << >>
  BY <1>8 DEF Polling, ToHandle, ToRun
<1> HIDE DEF taken
<1>13. /\ poll' \in [Sides -> Polling] /\ poll'[side] = taken
       /\ \A x \in Sides : x # side => poll'[x] = poll[x]
       /\ \A x \in Sides : ToRun(poll'[x]) = ToRun(poll[x])
  BY <1>1, <1>2, <1>3, <1>12
<1>14. ASSUME NEW x \in Sides
       PROVE  /\ EndSound(transport, net'.conn[x], net'.events[x], ToHandle(poll'[x]),
                          Unmet(x, client, server))
              /\ Carried(net', poll', client, server, x)
              /\ poll'[x].at \in {"callbacks", "assign"} => poll'[x].batch \in Seq(Statuses)
  <2>1. /\ EndSound(transport, net.conn[x], net.events[x], ToHandle(poll[x]),
                    Unmet(x, client, server))
        /\ Carried(net, poll, client, server, x)
        /\ poll[x].at \in {"callbacks", "assign"} => poll[x].batch \in Seq(Statuses)
    BY <1>1 DEF Joint
  <2>2. CASE x = side
    <3>1. EndSound(transport, record, << >>, r, Unmet(side, client, server))
      <4>1. Shaped(net.events[side], M)
        BY <1>4 DEF Carried
      <4> HIDE DEF M
      <4> QED BY <1>4, <1>5, <1>6, <1>7, <4>1, EndPolled
    <3>2. Shaped(<< >>, M) /\ << >> \in Seq(M)
      BY EmptyQueue
    <3>3. Carried(net', poll', client, server, side)
      BY <1>4, <1>5, <1>10, <1>11, <1>12, <1>13, <3>2 DEF Carried
    <3> QED BY <1>10, <1>11, <1>12, <1>13, <2>2, <3>1, <3>3
  <2>3. CASE x # side
    <3>1. x = "server" => stray2 = net.stray
      BY <1>10, <2>3
    <3> QED BY <1>10, <1>11, <1>13, <2>1, <2>3, <3>1 DEF Carried
  <2> QED BY <2>2, <2>3
<1>15. transport = "native" => OfferedOnce(net', poll', client, server)
  <2>1. SUFFICES ASSUME transport = "native" PROVE OfferedOnce(net', poll', client, server)
    OBVIOUS
  <2>2. OfferedOnce(net, poll, client, server)
    BY <1>1, <2>1 DEF Joint
  <2>3. Offerable(net, client, server) => Offerable(net', client, server)
    <3>1. CASE side = "server"
      BY <1>9, <1>10, <1>11, <3>1 DEF Offerable
    <3>2. CASE side # "server"
      BY <1>10, <1>11, <3>2, SidesAre DEF Offerable
    <3> QED BY <3>1, <3>2
  <2>4. poll'["server"] = poll["server"] \/ ToRun(poll["server"]) = << >>
    BY <1>3, <1>13, SidesAre
  <2>5. \A i \in DOMAIN << >> : FALSE
    OBVIOUS
  <2> QED BY <1>11, <1>13, <2>2, <2>3, <2>4, <2>5, SidesAre DEF OfferedOnce
<1>16. transport = "memory" => MemoryShared(net', poll')
  <2>1. \A x \in Sides : net'.conn[x].native = net.conn[x].native
    BY <1>7, <1>10, <1>11
  <2>2. \A x \in Sides : poll[x].at # "assign" => poll'[x].at # "assign"
    BY <1>12, <1>13
  <2> QED BY <1>1, <1>11, <1>13, <2>1, <2>2, SidesAre DEF Joint, MemoryShared
<1>17. /\ poll'["client"].at # "assign"
       /\ poll'["server"].at = "assign" => net'.conn["server"].native
  <2>1. \A x \in Sides : poll'[x].at = "assign" => poll[x].at = "assign"
    BY <1>12, <1>13
  <2>2. \A x \in Sides : net'.conn[x].native = net.conn[x].native
    BY <1>7, <1>10, <1>11
  <2> QED BY <1>1, <2>1, <2>2, SidesAre DEF Joint
<1>18. Joint(transport, net', poll', client, server)
  BY <1>1, <1>11, <1>13, <1>14, <1>15, <1>16, <1>17 DEF Joint
<1>19. CASE side = "server"
  BY <1>2, <1>10, <1>11, <1>13, <1>18, <1>19, QuietKeeps, SidesAre DEF Reports
<1>20. CASE side = "client"
  <2>1. poll["client"].at = "callbacks" /\ poll'["client"].at = "events"
        /\ ToHandle(poll["client"]) = << >> /\ ToHandle(poll'["client"]) = r
    BY <1>3, <1>12, <1>13, <1>20
  <2>2. reported' = reported
    BY <2>1 DEF Reports
  <2>3. net'.conn["client"].native = net.conn["client"].native
    BY <1>7, <1>10, <1>11, <1>20
  <2>4. Ending(net, poll, client) => Ending(net', poll', client)
    <3>1. SUFFICES ASSUME Ending(net, poll, client) PROVE Ending(net', poll', client)
      OBVIOUS
    <3>2. ~Has(<< >>, Disconnected)
      BY EmptyQueue
    <3>3. ~net.conn["client"].native /\ Closed(client.state)
      BY <2>1, <3>1, <3>2 DEF Ending
    <3>4. r = << >> \/ Has(r, Disconnected)
      BY <1>4, <1>5, <1>20, <3>3 DEF EndSound
    <3> QED BY <2>1, <2>3, <3>3, <3>4 DEF Ending
  <2>5. Told(net', poll', client, reported)
    BY <1>1, <2>1, <2>4 DEF Told
  <2> QED BY <1>1, <1>2, <1>18, <2>2, <2>5 DEF ConnectionInv
<1> QED
  BY <1>19, <1>20, SidesAre

\* RunCallbacks takes the next status; an offer finds the endpoint without the
\* connection, and comes once.
TakenBy(side, p2) ==
  /\ transport = "native" /\ Callback(side) \in Statuses
  /\ Joint("native", net, p2, client, server)
  /\ p2[side].at = "callbacks" /\ ~Has(ToRun(p2[side]), "Connecting")
  /\ p2[side].batch = Tail(poll[side].batch)
  /\ p2[side].batch \in Seq(Statuses)
  /\ \A x \in Sides : x # side => p2[x] = poll[x]
  /\ ToHandle(poll[side]) = << >>
  /\ side = "server" => /\ net.link["server"] # "none"
                        /\ ~Has(net.callbacks["server"], "Connecting")
  /\ Callback(side) = "Connecting" => side = "server" /\ Offerable(net, client, server)

LEMMA CallbackTaken ==
  ASSUME ConnectionInv, NEW side \in Sides, AtCallback(side),
         NEW p2, p2 = [poll EXCEPT ![side].batch = Tail(@)]
  PROVE  TakenBy(side, p2)
<1> DEFINE q == poll[side].batch
<1>1. /\ Joint(transport, net, poll, client, server) /\ net \in Nets
      /\ poll \in [Sides -> Polling] /\ transport \in {"native", "memory"}
      /\ client \in ClientRecords /\ server \in ServerRecords
  BY DEF ConnectionInv, Joint
<1>2. poll[side].at = "callbacks" /\ q # << >> /\ ToRun(poll[side]) = q
      /\ ToHandle(poll[side]) = << >>
  BY DEF AtCallback, ToRun, ToHandle
<1>3. transport = "native"
  BY <1>1, <1>2 DEF Joint, MemoryShared
<1>4. q \in Seq(Statuses)
  BY <1>1, <1>2 DEF Joint
<1>5. OfferedOnce(net, poll, client, server)
  BY <1>1, <1>3 DEF Joint
<1>6. Callback(side) = Head(q)
  BY DEF Callback
<1> HIDE DEF q
<1>7. /\ Head(q) \in Statuses /\ Has(q, Head(q)) /\ Tail(q) \in Seq(Statuses)
      /\ \A i \in DOMAIN Tail(q) : i + 1 \in DOMAIN q /\ Tail(q)[i] = q[i + 1] /\ i + 1 # 1
  BY <1>2, <1>4, StatusTaken
<1>8. /\ p2 \in [Sides -> Polling] /\ p2[side].at = "callbacks" /\ p2[side].batch = Tail(q)
      /\ \A x \in Sides : x # side => p2[x] = poll[x]
  <2>1. [poll[side] EXCEPT !.batch = Tail(@)] \in Polling
        /\ [poll[side] EXCEPT !.batch = Tail(@)].at = "callbacks"
        /\ [poll[side] EXCEPT !.batch = Tail(@)].batch = Tail(q)
    BY <1>1, <1>2, <1>7 DEF Polling, q
  <2> QED BY <1>1, <2>1
<1>9. ToRun(p2[side]) = Tail(q) /\ ToHandle(p2[side]) = << >>
  BY <1>8 DEF ToRun, ToHandle
<1>10. ~Has(Tail(q), "Connecting")
  <2>1. CASE side = "client"
    <3>1. ~Has(q, "Connecting")
      BY <1>2, <1>5, <2>1 DEF OfferedOnce
    <3> QED BY <1>7, <3>1 DEF Has
  <2>2. CASE side = "server"
    <3>1. \A i \in DOMAIN q : q[i] = "Connecting" => i = 1
      BY <1>2, <1>5, <2>2 DEF OfferedOnce
    <3>2. \A i \in DOMAIN Tail(q) : Tail(q)[i] # "Connecting"
      BY <1>7, <3>1, Zenon
    <3> QED BY <3>2 DEF Has
  <2> QED BY <2>1, <2>2, SidesAre
<1>11. Head(q) = "Connecting" => side = "server" /\ Offerable(net, client, server)
  BY <1>2, <1>5, <1>7, SidesAre DEF OfferedOnce
<1>12. side = "server" => net.link["server"] # "none" /\ ~Has(net.callbacks["server"], "Connecting")
  BY <1>2, <1>5 DEF OfferedOnce
<1>13. OfferedOnce(net, p2, client, server)
  <2>1. CASE side = "client"
    BY <1>5, <1>8, <1>9, <1>10, <2>1, SidesAre DEF OfferedOnce
  <2>2. CASE side = "server"
    <3>1. ToRun(p2["client"]) = ToRun(poll["client"])
      BY <1>8, <2>2, SidesAre
    <3>2. \A i \in DOMAIN ToRun(p2["server"]) : ToRun(p2["server"])[i] # "Connecting"
      BY <1>9, <1>10, <2>2 DEF Has
    <3> QED BY <1>5, <1>9, <1>10, <1>12, <2>2, <3>1, <3>2 DEF OfferedOnce
  <2> QED BY <2>1, <2>2, SidesAre
<1>14. Joint("native", net, p2, client, server)
  <2>1. ASSUME NEW x \in Sides
        PROVE  /\ EndSound("native", net.conn[x], net.events[x], ToHandle(p2[x]),
                           Unmet(x, client, server))
               /\ Carried(net, p2, client, server, x)
               /\ p2[x].at \in {"callbacks", "assign"} => p2[x].batch \in Seq(Statuses)
    <3>1. /\ EndSound("native", net.conn[x], net.events[x], ToHandle(poll[x]),
                      Unmet(x, client, server))
          /\ Carried(net, poll, client, server, x)
          /\ poll[x].at \in {"callbacks", "assign"} => poll[x].batch \in Seq(Statuses)
      BY <1>1, <1>3 DEF Joint
    <3>2. ToHandle(p2[x]) = ToHandle(poll[x])
      BY <1>2, <1>8, <1>9
    <3> QED BY <1>7, <1>8, <3>1, <3>2 DEF Carried
  <2>2. /\ p2["client"].at # "assign"
        /\ p2["server"].at = "assign" => net.conn["server"].native
    BY <1>1, <1>8, SidesAre DEF Joint
  <2> QED BY <1>1, <1>8, <1>13, <2>1, <2>2 DEF Joint
<1> QED
  BY <1>2, <1>3, <1>6, <1>7, <1>8, <1>9, <1>10, <1>11, <1>12, <1>14 DEF q, TakenBy

\* A callback, and what it says of the client's end: no longer up than before.
LEMMA HandleStatusKeeps ==
  ASSUME NEW n, NEW p, NEW c, NEW s, NEW side \in Sides, NEW status \in Statuses,
         Joint("native", n, p, c, s), p["server"].at = "assign" => side = "client"
  PROVE  /\ Joint("native", HandleStatus(n, side, status), p, c, s)
         /\ HandleStatus(n, side, status).conn["client"].native => n.conn["client"].native
<1> DEFINE x == MapState(status) known == [n EXCEPT !.conn[side].state = x]
           n2 == HandleStatus(n, side, status)
<1>1. n \in Nets /\ n.conn \in [Sides -> Records] /\ x \in ConnectionStates
      /\ p \in [Sides -> Polling]
  BY DEF Joint, Nets, MapState, Statuses, ConnectionStates
<1>2. CASE ~n.conn[side].native
  BY <1>2 DEF HandleStatus
<1>3. CASE n.conn[side].native /\ status = "Connected" /\ ~n.conn[side].connectedEmitted
  <2> DEFINE record == [n.conn[side] EXCEPT !.state = x, !.connectedEmitted = TRUE]
             conn2 == [n.conn EXCEPT ![side] = record]
             events2 == [n.events EXCEPT ![side] = Append(@, Connected)]
  <2>1. /\ record \in Records /\ record.native /\ record.connectedEmitted
        /\ record.known = n.conn[side].known
        /\ record.disconnectEmitted = n.conn[side].disconnectEmitted
    BY <1>1, <1>3 DEF Records
  <2>2. /\ EndSound("native", n.conn[side], n.events[side], ToHandle(p[side]), Unmet(side, c, s))
        /\ Shaped(n.events[side], ToSide(side, c, s)) /\ n.conn[side] \in Records
    BY <1>1 DEF Joint, Carried
  <2>3. record.known /\ ~record.disconnectEmitted
    BY <1>3, <2>1, <2>2 DEF EndSound
  <2> HIDE DEF x
  <2>4. /\ EndSound("native", record, Append(n.events[side], Connected), ToHandle(p[side]),
                    Unmet(side, c, s))
        /\ Shaped(Append(n.events[side], Connected), ToSide(side, c, s))
    <3> HIDE DEF record
    <3> QED BY <1>3, <2>1, <2>2, <2>3, EndConnects
  <2>5. n2 = Emit([known EXCEPT !.conn[side].connectedEmitted = TRUE], side, Connected)
    BY <1>3 DEF HandleStatus, x
  <2>6. [known EXCEPT !.conn[side].connectedEmitted = TRUE] = [n EXCEPT !.conn = conn2]
    BY <1>1 DEF Nets
  <2> HIDE DEF record, n2, known
  <2>7. conn2 \in [Sides -> Records] /\ conn2[side] = record
        /\ \A y \in Sides : y # side => conn2[y] = n.conn[y]
    BY <1>1, <2>1
  <2>8. events2 \in [Sides -> Seq(EventsOf(AnyMessage))]
        /\ events2[side] = Append(n.events[side], Connected)
        /\ \A y \in Sides : y # side => events2[y] = n.events[y]
    <3>1. Connected \in EventsOf(AnyMessage) /\ n.events[side] \in Seq(EventsOf(AnyMessage))
      BY <1>1, NetFields DEF EventsOf
    <3>2. Append(n.events[side], Connected) \in Seq(EventsOf(AnyMessage))
      BY <3>1
    <3> QED BY <1>1, <3>2, NetFields
  <2> HIDE DEF conn2
  <2>9. n2 = [n EXCEPT !.conn = conn2, !.events = events2]
    BY <1>1, <2>5, <2>6 DEF Emit, Nets
  <2> HIDE DEF events2
  <2>10. /\ n2 \in Nets /\ n2.link = n.link /\ n2.callbacks = n.callbacks /\ n2.wire = n.wire
         /\ n2.loose = n.loose /\ n2.inbox = n.inbox /\ n2.stray = n.stray
         /\ n2.conn = conn2 /\ n2.events = events2
    BY <1>1, <2>7, <2>8, <2>9 DEF Nets
  <2>11. ASSUME NEW y \in Sides
         PROVE  /\ EndSound("native", n2.conn[y], n2.events[y], ToHandle(p[y]), Unmet(y, c, s))
                /\ Carried(n2, p, c, s, y)
    <3>1. /\ EndSound("native", n.conn[y], n.events[y], ToHandle(p[y]), Unmet(y, c, s))
          /\ Carried(n, p, c, s, y)
      BY DEF Joint
    <3>2. CASE y = side
      BY <2>4, <2>7, <2>8, <2>10, <3>1, <3>2 DEF Carried
    <3>3. CASE y # side
      BY <2>7, <2>8, <2>10, <3>1, <3>3 DEF Carried
    <3> QED BY <3>2, <3>3
  <2>12. OfferedOnce(n2, p, c, s)
    <3>1. OfferedOnce(n, p, c, s)
      BY DEF Joint
    <3>2. CASE side = "server"
      <4>1. /\ ~Has(n.callbacks["server"], "Connecting") /\ n.link["server"] # "none"
            /\ ~Has(ToRun(p["server"]), "Connecting")
        BY <1>3, <3>1, <3>2, OfferFindsNone
      <4> QED BY <2>10, <3>1, <4>1 DEF OfferedOnce
    <3>3. CASE side # "server"
      <4>1. Offerable(n2, c, s) <=> Offerable(n, c, s)
        BY <2>7, <2>8, <2>10, <3>3, SidesAre DEF Offerable
      <4> QED BY <2>10, <3>1, <4>1 DEF OfferedOnce
    <3> QED BY <3>2, <3>3
  <2>13. \A y \in Sides : n2.conn[y].native <=> n.conn[y].native
    BY <1>3, <2>1, <2>7, <2>10
  <2>14. Joint("native", n2, p, c, s)
    BY <2>10, <2>11, <2>12, <2>13, SidesAre DEF Joint
  <2> QED BY <2>13, <2>14, SidesAre DEF n2
<1>4. CASE n.conn[side].native /\ status \in {"ClosedByPeer", "ProblemDetectedLocally"}
  <2>1. n2 = FinishConnection(known, side)
    BY <1>4 DEF HandleStatus
  <2> HIDE DEF x, n2
  <2>2. Ended(n2, n, side) /\ Joint("native", n2, p, c, s)
    BY <1>1, <1>4, <2>1, FinishedKeeps
  <2>3. n2.conn["client"].native => n.conn["client"].native
    BY <2>2, SidesAre DEF Ended
  <2> QED BY <2>2, <2>3 DEF n2
<1>5. CASE /\ n.conn[side].native /\ status \notin {"ClosedByPeer", "ProblemDetectedLocally"}
           /\ ~(status = "Connected" /\ ~n.conn[side].connectedEmitted)
  <2> DEFINE record == [n.conn[side] EXCEPT !.state = x]
             conn2 == [n.conn EXCEPT ![side] = record]
  <2>1. n2 = [n EXCEPT !.conn = conn2]
    BY <1>1, <1>5 DEF HandleStatus, Nets
  <2>2. /\ record \in Records /\ record.native = n.conn[side].native
        /\ record.known = n.conn[side].known
        /\ record.connectedEmitted = n.conn[side].connectedEmitted
        /\ record.disconnectEmitted = n.conn[side].disconnectEmitted
    BY <1>1 DEF Records
  <2> HIDE DEF record, n2, x
  <2>3. /\ conn2 \in [Sides -> Records] /\ conn2[side] = record
        /\ \A y \in Sides : y # side => conn2[y] = n.conn[y]
    BY <1>1, <2>2
  <2> HIDE DEF conn2
  <2>4. /\ n2 \in Nets /\ n2.link = n.link /\ n2.callbacks = n.callbacks /\ n2.wire = n.wire
        /\ n2.loose = n.loose /\ n2.inbox = n.inbox /\ n2.stray = n.stray
        /\ n2.conn = conn2 /\ n2.events = n.events
    BY <1>1, <2>1, <2>3 DEF Nets
  <2>5. \A y \in Sides : /\ n2.conn[y].native = n.conn[y].native
                         /\ n2.conn[y].known = n.conn[y].known
                         /\ n2.conn[y].connectedEmitted = n.conn[y].connectedEmitted
                         /\ n2.conn[y].disconnectEmitted = n.conn[y].disconnectEmitted
    BY <2>2, <2>3, <2>4
  <2>6. ASSUME NEW y \in Sides
        PROVE  /\ EndSound("native", n2.conn[y], n2.events[y], ToHandle(p[y]), Unmet(y, c, s))
               /\ Carried(n2, p, c, s, y)
    <3>1. /\ EndSound("native", n.conn[y], n.events[y], ToHandle(p[y]), Unmet(y, c, s))
          /\ Carried(n, p, c, s, y)
      BY DEF Joint
    <3> QED BY <2>4, <2>5, <3>1 DEF EndSound, Carried
  <2>7. OfferedOnce(n2, p, c, s)
    <3>1. OfferedOnce(n, p, c, s)
      BY DEF Joint
    <3>2. CASE side = "server"
      <4>1. /\ ~Has(n.callbacks["server"], "Connecting") /\ n.link["server"] # "none"
            /\ ~Has(ToRun(p["server"]), "Connecting")
        BY <1>5, <3>1, <3>2, OfferFindsNone
      <4> QED BY <2>4, <3>1, <4>1 DEF OfferedOnce
    <3>3. CASE side # "server"
      <4>1. Offerable(n2, c, s) <=> Offerable(n, c, s)
        BY <2>3, <2>4, <3>3, SidesAre DEF Offerable
      <4> QED BY <2>4, <3>1, <4>1 DEF OfferedOnce
    <3> QED BY <3>2, <3>3
  <2>8. Joint("native", n2, p, c, s)
    BY <2>4, <2>5, <2>6, <2>7, SidesAre DEF Joint
  <2> QED BY <2>5, <2>8, SidesAre DEF n2
<1> QED
  BY <1>2, <1>3, <1>4, <1>5

LEMMA RunsCallbackKeeps ==
  ASSUME ConnectionInv, Reports, NEW side \in Sides, RunsCallback(side)
  PROVE  ConnectionInv' /\ UNCHANGED server
<1>1. PICK status : status = Callback(side)
  OBVIOUS
<1>2. /\ AtCallback(side) /\ net' = HandleStatus(net, side, status)
      /\ poll' = [poll EXCEPT ![side].batch = Tail(@)]
      /\ UNCHANGED <<transport, client, server>>
  BY <1>1 DEF RunsCallback
<1>3. /\ transport = "native" /\ status \in Statuses
      /\ Joint("native", net, poll', client, server) /\ poll'[side].at = "callbacks"
      /\ \A x \in Sides : x # side => poll'[x] = poll[x]
      /\ ToHandle(poll[side]) = << >>
  <2>1. PICK p2 : p2 = [poll EXCEPT ![side].batch = Tail(@)]
    OBVIOUS
  <2>2. AtCallback(side)
    BY <1>2
  <2>3. TakenBy(side, p2)
    BY <2>1, <2>2, CallbackTaken, Zenon
  <2> QED BY <1>1, <1>2, <2>1, <2>3, Zenon DEF TakenBy
<1>4. poll'["server"].at = "assign" => side = "client"
  BY <1>3, SidesAre
<1>5. /\ Joint("native", net', poll', client, server)
      /\ net'.conn["client"].native => net.conn["client"].native
  <2>1. PICK p2 : p2 = poll'
    OBVIOUS
  <2>2. /\ Joint("native", HandleStatus(net, side, status), p2, client, server)
        /\ HandleStatus(net, side, status).conn["client"].native => net.conn["client"].native
    BY <1>3, <1>4, <2>1, HandleStatusKeeps
  <2> QED BY <1>2, <2>1, <2>2
<1>6. CASE side = "server"
  BY <1>2, <1>3, <1>5, <1>6, QuietKeeps, SidesAre DEF Reports
<1>7. CASE side = "client"
  <2>1. /\ poll["client"].at = "callbacks" /\ poll'["client"].at = "callbacks"
        /\ ToHandle(poll["client"]) = << >> /\ ToHandle(poll'["client"]) = << >>
    BY <1>2, <1>3, <1>7 DEF AtCallback, ToHandle
  <2>2. reported' = reported
    BY <2>1 DEF Reports
  <2>3. Told(net, poll, client, reported)
    BY DEF ConnectionInv
  <2>4. Told(net', poll', client, reported)
    BY <1>5, <2>1, <2>3 DEF Told, Ending
  <2> QED BY <1>2, <1>3, <1>5, <2>2, <2>4 DEF ConnectionInv
<1> QED
  BY <1>6, <1>7, SidesAre

LEMMA ServerAcceptsKeeps ==
  ASSUME ConnectionInv, Reports, ServerAccepts
  PROVE  ConnectionInv' /\ UNCHANGED server
<1> DEFINE side == "server"
           conn2 == [net.conn EXCEPT !["server"] = AddedConnection]
           added == [net EXCEPT !.conn["server"] = AddedConnection]
           p2 == [poll EXCEPT !["server"].batch = Tail(@)]
<1>1. /\ AtCallback("server") /\ Callback("server") = "Connecting"
      /\ UNCHANGED <<transport, client, server>>
  BY DEF ServerAccepts, Offered
<1>2. /\ net \in Nets /\ poll \in [Sides -> Polling]
  BY DEF ConnectionInv, Joint
<1>3. /\ transport = "native" /\ Joint("native", net, p2, client, server)
      /\ p2["server"].at = "callbacks" /\ ~Has(ToRun(p2["server"]), "Connecting")
      /\ p2["server"].batch = Tail(poll["server"].batch)
      /\ p2["server"].batch \in Seq(Statuses)
      /\ p2["client"] = poll["client"] /\ net.link["server"] # "none"
      /\ ~Has(net.callbacks["server"], "Connecting") /\ ToHandle(poll["server"]) = << >>
      /\ Offerable(net, client, server)
  <2>1. PICK p3 : p3 = [poll EXCEPT !["server"].batch = Tail(@)]
    OBVIOUS
  <2>2. TakenBy("server", p3)
    BY <1>1, <2>1, CallbackTaken, SidesAre
  <2> QED BY <1>1, <2>1, <2>2, SidesAre DEF TakenBy
<1> HIDE DEF p2
<1>4. /\ AddedConnection \in Records /\ AddedConnection.native /\ AddedConnection.known
      /\ ~AddedConnection.disconnectEmitted /\ ~AddedConnection.connectedEmitted
  BY DEF AddedConnection, NoConnection, Records, ConnectionStates
<1>5. /\ conn2 \in [Sides -> Records] /\ conn2["server"] = AddedConnection
      /\ conn2["client"] = net.conn["client"] /\ added = [net EXCEPT !.conn = conn2]
  BY <1>2, <1>4, NetFields, SidesAre DEF Nets
<1>6. /\ net.events["server"] = << >> /\ Unmet("server", client, server)
  BY <1>3 DEF Offerable
<1>7. ToHandle(p2["server"]) = << >>
  BY <1>3 DEF ToHandle
<1>8. EndSound("native", AddedConnection, << >>, << >>, Unmet("server", client, server))
  <2>1. << >> \in Seq({Connected, Disconnected}) /\ \A e : ~Has(<< >>, e)
    BY EmptyQueue
  <2> QED BY <1>4, <1>6, <2>1 DEF EndSound
<1>9. CASE net.link["server"] = "connecting"
  <2> DEFINE link2 == [net.link EXCEPT !["server"] = "connected"]
             calls2 == [net.callbacks EXCEPT !["server"] = Append(@, "Connected")]
             assign == [at |-> "assign", batch |-> Tail(poll["server"].batch)]
  <2>1. /\ net' = [added EXCEPT !.link["server"] = "connected",
                                !.callbacks["server"] = Append(@, "Connected")]
        /\ poll' = [poll EXCEPT !["server"] = assign]
    BY <1>9 DEF ServerAccepts
  <2>2. /\ link2 \in [Sides -> Links] /\ link2["server"] = "connected"
    BY <1>2, NetFields, SidesAre DEF Links
  <2>3. net.callbacks["server"] \in Seq(Statuses) /\ "Connected" \in Statuses
    BY <1>2, NetFields, SidesAre DEF Statuses
  <2>4. /\ calls2 \in [Sides -> Seq(Statuses)] /\ calls2["client"] = net.callbacks["client"]
        /\ calls2["server"] = Append(net.callbacks["server"], "Connected")
    BY <1>2, <2>3, StatusPosted, NetFields, SidesAre
  <2>5. ~Has(calls2["server"], "Connecting")
    BY <1>3, <2>3, <2>4, StatusPosted
  <2>6. net' = [net EXCEPT !.conn = conn2, !.link = link2, !.callbacks = calls2]
    <3> HIDE DEF conn2, added
    <3> QED BY <1>2, <1>5, <2>1 DEF Nets
  <2> HIDE DEF conn2, link2, calls2
  <2>7. /\ net' \in Nets /\ net'.link = link2 /\ net'.callbacks = calls2
        /\ net'.wire = net.wire /\ net'.loose = net.loose /\ net'.inbox = net.inbox
        /\ net'.stray = net.stray /\ net'.conn = conn2 /\ net'.events = net.events
    BY <1>2, <1>5, <2>2, <2>4, <2>6 DEF Nets
  <2>8. /\ assign \in Polling /\ assign.at = "assign" /\ assign.batch = p2["server"].batch
        /\ ToHandle(assign) = << >> /\ ToRun(assign) = ToRun(p2["server"])
    BY <1>3 DEF Polling, ToHandle, ToRun
  <2> HIDE DEF assign
  <2>9. /\ poll' \in [Sides -> Polling] /\ poll'["server"] = assign
        /\ poll'["client"] = poll["client"]
    BY <1>2, <2>1, <2>8, SidesAre
  <2>10. ASSUME NEW x \in Sides
         PROVE  /\ EndSound("native", net'.conn[x], net'.events[x], ToHandle(poll'[x]),
                            Unmet(x, client, server))
                /\ Carried(net', poll', client, server, x)
                /\ poll'[x].at \in {"callbacks", "assign"} => poll'[x].batch \in Seq(Statuses)
    <3>1. /\ EndSound("native", net.conn[x], net.events[x], ToHandle(p2[x]),
                      Unmet(x, client, server))
          /\ Carried(net, p2, client, server, x)
          /\ p2[x].at \in {"callbacks", "assign"} => p2[x].batch \in Seq(Statuses)
      BY <1>3 DEF Joint
    <3>2. CASE x = "server"
      <4>1. EndSound("native", net'.conn[x], net'.events[x], ToHandle(poll'[x]),
                     Unmet(x, client, server))
        BY <1>5, <1>6, <1>8, <2>7, <2>8, <2>9, <3>2
      <4>2. ToHandle(poll'[x]) = ToHandle(p2[x])
        BY <1>7, <2>8, <2>9, <3>2
      <4> QED BY <1>3, <2>7, <2>8, <2>9, <3>1, <3>2, <4>1, <4>2 DEF Carried
    <3>3. CASE x = "client"
      <4>1. poll'[x] = p2[x] /\ net'.conn[x] = net.conn[x]
        BY <1>3, <1>5, <2>7, <2>9, <3>3
      <4> QED BY <2>7, <3>1, <3>3, <4>1 DEF Carried
    <3> QED BY <3>2, <3>3, SidesAre
  <2>11. OfferedOnce(net', poll', client, server)
    <3>1. OfferedOnce(net, p2, client, server)
      BY <1>3 DEF Joint
    <3>2. /\ ToRun(poll'["client"]) = ToRun(p2["client"])
          /\ ToRun(poll'["server"]) = ToRun(p2["server"])
      BY <1>3, <2>8, <2>9
    <3>3. \A i \in DOMAIN ToRun(p2["server"]) : ToRun(p2["server"])[i] # "Connecting"
      BY <1>3 DEF Has
    <3>4. \A i \in DOMAIN calls2["server"] : calls2["server"][i] # "Connecting"
      BY <2>5 DEF Has
    <3> QED BY <1>3, <2>2, <2>4, <2>5, <2>7, <3>1, <3>2, <3>3, <3>4 DEF OfferedOnce
  <2>12. /\ poll'["client"].at # "assign" /\ net'.conn["server"].native
         /\ net'.conn["client"] = net.conn["client"]
    BY <1>3, <1>4, <1>5, <2>7, <2>9 DEF Joint
  <2>13. Joint("native", net', poll', client, server)
    BY <1>3, <2>7, <2>9, <2>10, <2>11, <2>12 DEF Joint
  <2> QED BY <1>1, <1>3, <2>9, <2>12, <2>13, QuietKeeps DEF Reports
<1>10. CASE net.link["server"] # "connecting"
  <2>1. net' = FailConnection(added, "server") /\ poll' = p2
    BY <1>10 DEF ServerAccepts, p2
  <2> HIDE DEF conn2, added
  <2>2. /\ added \in Nets /\ added.link = net.link /\ added.callbacks = net.callbacks
        /\ added.wire = net.wire /\ added.loose = net.loose /\ added.inbox = net.inbox
        /\ added.stray = net.stray /\ added.conn = conn2 /\ added.events = net.events
    BY <1>2, <1>5 DEF Nets
  <2>3. ASSUME NEW x \in Sides
        PROVE  /\ EndSound("native", added.conn[x], added.events[x], ToHandle(p2[x]),
                           Unmet(x, client, server))
               /\ Carried(added, p2, client, server, x)
    <3>1. /\ EndSound("native", net.conn[x], net.events[x], ToHandle(p2[x]),
                      Unmet(x, client, server))
          /\ Carried(net, p2, client, server, x)
      BY <1>3 DEF Joint
    <3>2. CASE x = "server"
      BY <1>5, <1>6, <1>7, <1>8, <2>2, <3>1, <3>2 DEF Carried
    <3>3. CASE x = "client"
      BY <1>5, <2>2, <3>1, <3>3 DEF Carried
    <3> QED BY <3>2, <3>3, SidesAre
  <2>4. OfferedOnce(added, p2, client, server)
    <3>1. OfferedOnce(net, p2, client, server)
      BY <1>3 DEF Joint
    <3> QED BY <1>3, <2>2, <3>1 DEF OfferedOnce
  <2>5. Joint("native", added, p2, client, server)
    BY <1>3, <2>2, <2>3, <2>4 DEF Joint
  <2>6. added.conn["server"].native /\ "server" \in Sides /\ "Failed" \in ConnectionStates
    BY <1>4, <1>5, <2>2, SidesAre DEF ConnectionStates
  <2>7. PICK n2 : n2 = FinishConnection([added EXCEPT !.conn["server"].state = "Failed"], "server")
    OBVIOUS
  <2>8. Ended(n2, added, "server") /\ Joint("native", n2, p2, client, server)
    BY <1>3, <2>5, <2>6, <2>7, FinishedKeeps
  <2>9. net' = n2
    BY <2>1, <2>7 DEF FailConnection
  <2>10. net'.conn["client"] = net.conn["client"]
    BY <1>5, <2>2, <2>8, <2>9, SidesAre DEF Ended
  <2>11. Joint("native", net', poll', client, server)
    BY <2>1, <2>8, <2>9
  <2> QED BY <1>1, <1>3, <2>1, <2>10, <2>11, QuietKeeps DEF Reports
<1> QED
  BY <1>9, <1>10

LEMMA ServerAssignsKeeps ==
  ASSUME ConnectionInv, Reports, ServerAssignsPollGroup
  PROVE  ConnectionInv' /\ UNCHANGED server
<1>1. /\ Joint(transport, net, poll, client, server) /\ net \in Nets
      /\ poll \in [Sides -> Polling] /\ transport \in {"native", "memory"}
      /\ poll["server"].at = "assign"
      /\ poll' = [poll EXCEPT !["server"].at = "callbacks"]
      /\ UNCHANGED <<transport, client, server>>
  BY DEF ConnectionInv, Joint, ServerAssignsPollGroup
<1>2. transport = "native" /\ net.conn["server"].native
  BY <1>1, SidesAre DEF Joint, MemoryShared
<1>3. OfferedOnce(net, poll, client, server)
  BY <1>1, <1>2 DEF Joint
<1>4. poll["server"].batch \in Seq(Statuses)
  BY <1>1, SidesAre DEF Joint
<1>5. /\ poll' \in [Sides -> Polling] /\ poll'["server"].at = "callbacks"
      /\ poll'["server"].batch = poll["server"].batch /\ poll'["client"] = poll["client"]
  <2>1. /\ [poll["server"] EXCEPT !.at = "callbacks"] \in Polling
        /\ [poll["server"] EXCEPT !.at = "callbacks"].at = "callbacks"
        /\ [poll["server"] EXCEPT !.at = "callbacks"].batch = poll["server"].batch
    BY <1>1, SidesAre DEF Polling
  <2> QED BY <1>1, <2>1, SidesAre
<1>6. /\ \A x \in Sides : /\ ToRun(poll'[x]) = ToRun(poll[x])
                          /\ ToHandle(poll'[x]) = ToHandle(poll[x])
      /\ poll'["client"].at # "assign"
  BY <1>1, <1>5, SidesAre DEF Joint, ToRun, ToHandle
<1>7. \A i \in DOMAIN ToRun(poll["server"]) : ToRun(poll["server"])[i] # "Connecting"
  BY <1>1, <1>3 DEF OfferedOnce
<1>8. /\ net.link["server"] # "none" /\ ~Has(net.callbacks["server"], "Connecting")
      /\ ~Has(ToRun(poll["server"]), "Connecting")
  BY <1>2, <1>3, OfferFindsNone
<1>9. OfferedOnce(net, poll', client, server)
  BY <1>3, <1>6, <1>7, SidesAre DEF OfferedOnce
<1>10. \A x \in Sides : poll'[x].at \in {"callbacks", "assign"} => poll'[x].batch \in Seq(Statuses)
  <2>1. \A x \in Sides : poll[x].at \in {"callbacks", "assign"} => poll[x].batch \in Seq(Statuses)
    BY <1>1 DEF Joint
  <2> QED BY <1>4, <1>5, <2>1, SidesAre
<1>11. ASSUME NEW x \in Sides
       PROVE  /\ EndSound("native", net.conn[x], net.events[x], ToHandle(poll'[x]),
                          Unmet(x, client, server))
              /\ Carried(net, poll', client, server, x)
  <2>1. /\ EndSound("native", net.conn[x], net.events[x], ToHandle(poll[x]),
                    Unmet(x, client, server))
        /\ Carried(net, poll, client, server, x)
    BY <1>1, <1>2 DEF Joint
  <2> QED BY <1>6, <2>1 DEF Carried
<1>12. CASE net.link["server"] # "connected"
  <2>1. Joint("native", net, poll', client, server)
    BY <1>1, <1>5, <1>6, <1>9, <1>10, <1>11 DEF Joint
  <2>2. PICK n2, p2 :
          /\ n2 = FinishConnection([net EXCEPT !.conn["server"].state = "Failed"], "server")
          /\ p2 = poll'
    OBVIOUS
  <2>3. /\ Joint("native", net, p2, client, server) /\ p2["server"].at # "assign"
        /\ "server" \in Sides /\ "Failed" \in ConnectionStates
    BY <1>5, <2>1, <2>2, SidesAre DEF ConnectionStates
  <2>4. Ended(n2, net, "server") /\ Joint("native", n2, p2, client, server)
    BY <1>2, <2>2, <2>3, FinishedKeeps
  <2>5. net' = n2
    BY <1>12, <2>2 DEF ServerAssignsPollGroup, FailConnection
  <2>6. net'.conn["client"] = net.conn["client"]
    BY <2>4, <2>5, SidesAre DEF Ended
  <2> QED BY <1>1, <1>2, <1>5, <2>2, <2>4, <2>5, <2>6, QuietKeeps DEF Reports
<1>13. CASE net.link["server"] = "connected"
  <2>1. PICK moved \in BOOLEAN :
          net' = [net EXCEPT !.grouped = TRUE,
                             !.conn["server"].state = MapState("Connecting"),
                             !.inbox["server"] = IF moved THEN net.stray ELSE @,
                             !.stray = IF moved THEN << >> ELSE @]
    BY <1>13 DEF ServerAssignsPollGroup
  <2> DEFINE record == [net.conn["server"] EXCEPT !.state = "Connecting"]
             conn2 == [net.conn EXCEPT !["server"] = record]
             inbox2 == [net.inbox EXCEPT !["server"] = IF moved THEN net.stray ELSE @]
             stray2 == IF moved THEN << >> ELSE net.stray
  <2>2. net' = [net EXCEPT !.grouped = TRUE, !.conn = conn2, !.inbox = inbox2, !.stray = stray2]
    BY <1>1, <2>1 DEF Nets, MapState
  <2>3. /\ record \in Records /\ record.native = net.conn["server"].native
        /\ record.known = net.conn["server"].known
        /\ record.connectedEmitted = net.conn["server"].connectedEmitted
        /\ record.disconnectEmitted = net.conn["server"].disconnectEmitted
    <3>1. net.conn["server"] \in Records
      BY <1>1, NetFields, SidesAre
    <3> QED BY <3>1 DEF Records, ConnectionStates
  <2> HIDE DEF record
  <2>4. /\ conn2 \in [Sides -> Records] /\ conn2["server"] = record
        /\ conn2["client"] = net.conn["client"]
        /\ inbox2 \in [Sides -> Seq(AnyMessage)] /\ inbox2["client"] = net.inbox["client"]
        /\ inbox2["server"] \in {net.inbox["server"], net.stray}
        /\ stray2 \in Seq(AnyMessage) /\ stray2 \in {<< >>, net.stray}
    BY <1>1, <2>3, NetFields, SidesAre
  <2> HIDE DEF conn2, inbox2, stray2
  <2>5. /\ net' \in Nets /\ net'.link = net.link /\ net'.callbacks = net.callbacks
        /\ net'.wire = net.wire /\ net'.loose = net.loose /\ net'.inbox = inbox2
        /\ net'.stray = stray2 /\ net'.conn = conn2 /\ net'.events = net.events
    BY <1>1, <2>2, <2>4 DEF Nets
  <2>6. \A x \in Sides : /\ net'.conn[x].native = net.conn[x].native
                         /\ net'.conn[x].known = net.conn[x].known
                         /\ net'.conn[x].connectedEmitted = net.conn[x].connectedEmitted
                         /\ net'.conn[x].disconnectEmitted = net.conn[x].disconnectEmitted
    BY <2>3, <2>4, <2>5, SidesAre
  <2>7. ASSUME NEW x \in Sides
        PROVE  /\ EndSound("native", net'.conn[x], net'.events[x], ToHandle(poll'[x]),
                           Unmet(x, client, server))
               /\ Carried(net', poll', client, server, x)
    <3>1. /\ EndSound("native", net.conn[x], net.events[x], ToHandle(poll'[x]),
                      Unmet(x, client, server))
          /\ Carried(net, poll', client, server, x)
      BY <1>11
    <3>2. EndSound("native", net'.conn[x], net'.events[x], ToHandle(poll'[x]),
                   Unmet(x, client, server))
      BY <2>5, <2>6, <3>1 DEF EndSound
    <3>3. << >> \in Seq(ToSide(x, client, server))
      OBVIOUS
    <3>4. Carried(net', poll', client, server, x)
      BY <2>4, <2>5, <3>1, <3>3, SidesAre DEF Carried
    <3> QED BY <3>2, <3>4
  <2>8. OfferedOnce(net', poll', client, server)
    BY <1>6, <1>8, <1>9, <2>5, SidesAre DEF OfferedOnce
  <2>9. Joint("native", net', poll', client, server)
    BY <1>1, <1>5, <1>6, <1>10, <2>5, <2>7, <2>8 DEF Joint
  <2> QED BY <1>1, <1>2, <1>5, <2>6, <2>9, QuietKeeps, SidesAre DEF Reports
<1> QED
  BY <1>12, <1>13

\* An action of the server's runtime moves its session.
LEMMA ServerHandlesEventKeeps ==
  ASSUME ConnectionInv, Reports, ServerHandlesEvent
  PROVE  ConnectionInv' /\ SessionMoves(server, server')
<1>1. /\ transport \in {"native", "memory"}
      /\ Joint(transport, net, poll, client, server) /\ poll \in [Sides -> Polling]
      /\ poll["server"].at = "events" /\ poll["server"].batch # << >>
      /\ poll' = [poll EXCEPT !["server"].batch = Tail(@)]
      /\ UNCHANGED <<transport, client>>
  BY DEF ConnectionInv, Joint, ServerHandlesEvent, ServerBecomes
<1>2. PICK full, st : /\ st = ServerEvent([net |-> net, server |-> server],
                                          Head(poll["server"].batch), full)
                      /\ net' = st.net /\ server' = st.server
  BY DEF ServerHandlesEvent, ServerBecomes, Serving
<1>3. ServerKeeps(net, st, poll', client) /\ SessionMoves(server, st.server)
  BY <1>1, <1>2, ServerEventKeeps, Zenon
<1>4. poll'["client"] = poll["client"]
  BY <1>1, SidesAre
<1>5. /\ Joint(transport, net', poll', client, server')
      /\ net'.conn["client"].native => net.conn["client"].native
  BY <1>2, <1>3 DEF ServerKeeps
<1> QED
  BY <1>1, <1>2, <1>3, <1>4, <1>5, QuietKeeps DEF Reports

LEMMA ServerReturnsKeeps ==
  ASSUME ConnectionInv, Reports, ServerReturns
  PROVE  ConnectionInv' /\ UNCHANGED server
<1>1. /\ Joint(transport, net, poll, client, server) /\ poll \in [Sides -> Polling]
      /\ poll["server"].at = "events" /\ poll' = [poll EXCEPT !["server"] = Idle]
      /\ UNCHANGED <<transport, net, client, server>>
  BY DEF ConnectionInv, Joint, ServerReturns
<1>2. poll'["client"] = poll["client"]
  BY <1>1, SidesAre
<1>3. Joint(transport, net, poll', client, server)
  BY <1>1, LeavesKeeps, SidesAre
<1>4. Joint(transport, net', poll', client, server')
  BY <1>1, <1>3
<1> QED
  BY <1>1, <1>2, <1>4, QuietKeeps DEF Reports

LEMMA ServerSendsSnapshotKeeps ==
  ASSUME ConnectionInv, Reports, ServerSendsSnapshot
  PROVE  ConnectionInv' /\ SessionMoves(server, server')
<1>1. /\ transport \in {"native", "memory"}
      /\ Joint(transport, net, poll, client, server)
      /\ poll["server"].at = "idle" /\ server.session = "ready" /\ poll' = poll
      /\ UNCHANGED <<transport, client>>
  BY DEF ConnectionInv, ServerSendsSnapshot, ServerBecomes
<1>2. PICK full, st : /\ st = SendSnapshot([net |-> net, server |-> server], full)
                      /\ net' = st.net /\ server' = st.server
  BY DEF ServerSendsSnapshot, ServerBecomes, Serving
<1>3. poll["server"].at # "assign" /\ server.session # "open"
  BY <1>1
<1>4. /\ ServerKeeps(net, st, poll, client)
      /\ \/ st.server = server
         \/ server.session # "none" /\ st.server.session = "none" /\ st.server.ended
  BY <1>1, <1>2, <1>3, SendSnapshotKeeps
<1>5. /\ Joint(transport, net', poll', client, server')
      /\ net'.conn["client"].native => net.conn["client"].native
  BY <1>1, <1>2, <1>4 DEF ServerKeeps
<1>6. SessionMoves(server, server')
  BY <1>2, <1>4 DEF SessionMoves
<1> QED
  BY <1>1, <1>5, <1>6, QuietKeeps DEF Reports

LEMMA ServerTimesOutKeeps ==
  ASSUME ConnectionInv, Reports, ServerTimesOut
  PROVE  ConnectionInv' /\ SessionMoves(server, server')
<1>1. /\ transport \in {"native", "memory"}
      /\ Joint(transport, net, poll, client, server)
      /\ poll["server"].at = "idle" /\ server.session # "none" /\ poll' = poll
      /\ UNCHANGED <<transport, client>>
  BY DEF ConnectionInv, ServerTimesOut, ServerBecomes
<1>2. PICK st : /\ st = SessionClosed([net |-> net, server |-> server])
                /\ net' = st.net /\ server' = st.server
  BY DEF ServerTimesOut, ServerBecomes, Serving
<1>3. poll["server"].at # "assign"
  BY <1>1
<1>4. /\ ServerKeeps(net, st, poll, client)
      /\ st.server.session = "none" /\ (server.session # "none" => st.server.ended)
  BY <1>1, <1>2, <1>3, SessionClosedKeeps
<1>5. /\ Joint(transport, net', poll', client, server')
      /\ net'.conn["client"].native => net.conn["client"].native
  BY <1>1, <1>2, <1>4 DEF ServerKeeps
<1>6. SessionMoves(server, server')
  BY <1>1, <1>2, <1>4 DEF SessionMoves
<1> QED
  BY <1>1, <1>5, <1>6, QuietKeeps DEF Reports

\* What the application is told only moves forward.
ReportMoves(r, r2) ==
  \/ r2 = r
  \/ Closed(r2)
  \/ r = "Connecting" /\ r2 \in {"Handshaking", "Ready"}
  \/ r = "Handshaking" /\ r2 = "Ready"

\* Between calls the client's state is what was told last, or one after it.
LEMMA ToldAtReturn ==
  ASSUME NEW n, NEW p, NEW c \in ClientRecords, NEW r, Told(n, p, c, r),
         ToHandle(p["client"]) = << >>,
         NEW n2, NEW p2, NEW c2 \in ClientRecords, p2["client"].at = "idle",
         \/ Closed(c2.state) /\ ~n2.conn["client"].native
         \/ c2.state = c.state /\ (n2.conn["client"].native => n.conn["client"].native)
  PROVE  Told(n2, p2, c2, c2.state) /\ ReportMoves(r, c2.state)
<1>1. ~Has(ToHandle(p["client"]), Disconnected)
  BY EmptyQueue
<1>2. p2["client"].at = "idle" /\ ToHandle(p2["client"]) = << >>
  BY DEF ToHandle
<1>3. c2.state \in ClientStates /\ c.state \in ClientStates
  BY DEF ClientRecords
<1>4. Closed(r) \/ Closed(c.state) => ~n.conn["client"].native /\ Closed(c.state)
  BY <1>1 DEF Told, Ending
<1>5. Closed(c2.state) => ~n2.conn["client"].native
  BY <1>4
<1>6. Told(n2, p2, c2, c2.state)
  BY <1>2, <1>3, <1>5 DEF Told, Ending, Closed
<1>7. ReportMoves(r, c2.state)
  <2>1. CASE Closed(c2.state)
    BY <2>1 DEF ReportMoves
  <2>2. CASE ~Closed(c2.state)
    BY <1>3, <1>4, <2>2 DEF ReportMoves, Closed, ClientStates, Told
  <2> QED BY <2>1, <2>2
<1> QED
  BY <1>6, <1>7

LEMMA ClientReturnsKeeps ==
  ASSUME ConnectionInv, Reports, ClientReturns
  PROVE  ConnectionInv' /\ ReportMoves(reported, reported')
<1>1. /\ transport \in {"native", "memory"}
      /\ Joint(transport, net, poll, client, server) /\ Told(net, poll, client, reported)
      /\ poll \in [Sides -> Polling] /\ client \in ClientRecords
      /\ poll["client"] = [at |-> "events", batch |-> << >>]
      /\ poll' = [poll EXCEPT !["client"] = Idle]
      /\ UNCHANGED <<transport, server>>
  BY DEF ConnectionInv, Joint, ClientReturns, ClientBecomes
<1>2. PICK full, pending, st, st2 :
        /\ st = HelloRetried([net |-> net, client |-> client], full)
        /\ st2 = InputsFlushed(st, pending, full)
        /\ net' = st2.net /\ client' = st2.client
  BY DEF ClientReturns, ClientBecomes, Playing
<1>3. st = [net |-> st.net, client |-> st.client]
  BY <1>2 DEF HelloRetried, Greeted, Fail
<1>4. /\ Joint(transport, st.net, poll, st.client, server)
      /\ Failing(st) \/ (Going(net, client, st) /\ st.client.state = client.state)
  BY <1>1, <1>2, HelloRetriedKeeps
<1>5. PICK n, c : n = st.net /\ c = st.client
  OBVIOUS
<1>6. st2 = InputsFlushed([net |-> n, client |-> c], pending, full)
  BY <1>2, <1>3, <1>5
<1>7. Joint(transport, n, poll, c, server)
  BY <1>4, <1>5
<1>8. /\ Joint(transport, st2.net, poll, st2.client, server)
      /\ Failing(st2) \/ (Going(n, c, st2) /\ st2.client = c)
      /\ c.state # "Ready" => st2.net = n /\ st2.client = c
  BY <1>1, <1>6, <1>7, InputsFlushedKeeps
<1>9. poll["client"].at = "events" /\ ToHandle(poll["client"]) = << >>
  BY <1>1 DEF ToHandle
<1>10. Joint(transport, st2.net, poll', st2.client, server)
  BY <1>1, <1>8, <1>9, LeavesKeeps, SidesAre
<1>11. \/ Closed(st2.client.state) /\ ~st2.net.conn["client"].native
       \/ /\ st2.client.state = client.state
          /\ st2.net.conn["client"].native => net.conn["client"].native
  <2>1. CASE Failing(st)
    <3>1. c.state = "Failed" /\ ~n.conn["client"].native
      BY <1>5, <2>1 DEF Failing
    <3> QED BY <1>8, <3>1 DEF Closed
  <2>2. CASE Failing(st2)
    BY <2>2 DEF Failing, Closed
  <2>3. CASE /\ Going(net, client, st) /\ st.client.state = client.state
             /\ Going(n, c, st2) /\ st2.client = c
    BY <1>5, <2>3 DEF Going
  <2> QED BY <1>4, <1>8, <2>1, <2>2, <2>3
<1>12. poll'["client"].at = "idle" /\ st2.client \in ClientRecords
  BY <1>1, <1>10, SidesAre DEF Joint, Idle
<1>13. /\ Told(st2.net, poll', st2.client, st2.client.state)
       /\ ReportMoves(reported, st2.client.state)
  BY <1>1, <1>9, <1>11, <1>12, ToldAtReturn
<1>14. reported' = st2.client.state
  BY <1>2, <1>12 DEF Reports
<1> QED
  BY <1>1, <1>2, <1>10, <1>13, <1>14 DEF ConnectionInv

\* A closed client handles what is left of its batch, which ends the connection.
LEMMA ToldWhileHandling ==
  ASSUME NEW n, NEW p, NEW c \in ClientRecords, NEW r, Told(n, p, c, r),
         p["client"].at = "events", NEW M, Shaped(p["client"].batch, M),
         p["client"].batch # << >>,
         Has(p["client"].batch, Disconnected) => ~n.conn["client"].native,
         NEW n2, NEW p2, NEW c2, p2["client"].at = "events",
         p2["client"].batch = Tail(p["client"].batch), c2.error = c.error,
         n2.conn["client"].native => n.conn["client"].native,
         ClientMoves(c.state, c2.state, Head(p["client"].batch)),
         Head(p["client"].batch) = Disconnected => c2.state = "Disconnected"
  PROVE  Told(n2, p2, c2, r)
<1>1. /\ ToHandle(p["client"]) = p["client"].batch
      /\ ToHandle(p2["client"]) = Tail(p["client"].batch)
  BY DEF ToHandle
<1>2. PICK q : q = p["client"].batch
  OBVIOUS
<1>3. /\ Shaped(q, M) /\ q # << >>
      /\ Has(q, Disconnected) => ~n.conn["client"].native
      /\ ClientMoves(c.state, c2.state, Head(q))
      /\ Head(q) = Disconnected => c2.state = "Disconnected"
      /\ ToHandle(p["client"]) = q /\ ToHandle(p2["client"]) = Tail(q)
  BY <1>1, <1>2
<1>4. /\ Has(q, Head(q)) /\ Head(q) = Disconnected => Tail(q) = << >>
      /\ Head(q) # Disconnected /\ Has(q, Disconnected) => Has(Tail(q), Disconnected)
  BY <1>3, ShapedTail
<1>5. Has(q, Head(q))
  BY <1>3, ShapedTail
<1>6. c.state \in ClientStates
  BY DEF ClientRecords
<1>7. Head(q) = Disconnected => Ending(n2, p2, c2)
  BY <1>3, <1>4, <1>5 DEF Ending, Closed
<1>8. Head(q) # Disconnected /\ Has(q, Disconnected) => Ending(n2, p2, c2)
  BY <1>3, <1>4 DEF Ending
<1>9. Closed(r) \/ Closed(c.state) => Has(q, Disconnected)
  BY <1>3 DEF Told, Ending
<1>10. Closed(c2.state) => Closed(c.state) \/ Head(q) = Disconnected
  BY <1>3 DEF ClientMoves, Closed
<1>11. Closed(r) \/ Closed(c2.state) => Ending(n2, p2, c2)
  BY <1>7, <1>8, <1>9, <1>10
<1>12. /\ c2.state = "Connecting" => c.state = "Connecting"
       /\ c2.state = "Handshaking" => c.state \in {"Connecting", "Handshaking"}
  BY <1>3 DEF ClientMoves
<1> QED
  BY <1>11, <1>12 DEF Told

LEMMA ClientHandlesEventKeeps ==
  ASSUME ConnectionInv, Reports, ClientHandlesEvent
  PROVE  ConnectionInv' /\ ReportMoves(reported, reported')
<1>1. /\ transport \in {"native", "memory"}
      /\ Joint(transport, net, poll, client, server) /\ Told(net, poll, client, reported)
      /\ poll \in [Sides -> Polling] /\ client \in ClientRecords
      /\ poll["client"].at = "events" /\ poll["client"].batch # << >>
      /\ poll' = [poll EXCEPT !["client"] =
                    IF client'.error # "none" THEN Idle
                    ELSE [at |-> "events", batch |-> Tail(@.batch)]]
      /\ UNCHANGED <<transport, server>>
  BY DEF ConnectionInv, Joint, ClientHandlesEvent, ClientBecomes
<1>2. PICK full, st : /\ st = ClientEvent([net |-> net, client |-> client],
                                          Head(poll["client"].batch), full)
                      /\ net' = st.net /\ client' = st.client
  BY DEF ClientHandlesEvent, ClientBecomes, Playing
<1>3. PICK p2 : p2 = [poll EXCEPT !["client"].batch = Tail(@)]
  OBVIOUS
<1>4. /\ Joint(transport, st.net, p2, st.client, server)
      /\ \/ Failing(st)
         \/ /\ Going(net, client, st)
            /\ ClientMoves(client.state, st.client.state, Head(poll["client"].batch))
  BY <1>1, <1>2, <1>3, ClientEventKeeps
<1>5. /\ p2 \in [Sides -> Polling] /\ st.client \in ClientRecords
  BY <1>4 DEF Joint
<1>6. /\ p2["client"] = [poll["client"] EXCEPT !.batch = Tail(poll["client"].batch)]
      /\ \A x \in Sides : x # "client" => p2[x] = poll[x]
  BY <1>1, <1>3, SidesAre
<1>7. p2["client"].at = "events" /\ p2["client"].batch = Tail(poll["client"].batch)
  <2>1. poll["client"] \in Polling
    BY <1>1, SidesAre
  <2> QED BY <1>1, <1>6, <2>1 DEF Polling
<1>8. CASE st.client.error # "none"
  <2>1. Failing(st)
    BY <1>1, <1>4, <1>8 DEF Going, Told
  <2>2. poll' = [p2 EXCEPT !["client"] = Idle]
    BY <1>1, <1>2, <1>3, <1>8
  <2>3. Joint(transport, st.net, poll', st.client, server)
    BY <1>4, <1>7, <2>2, LeavesKeeps, SidesAre
  <2>4. poll'["client"] = Idle
    BY <1>5, <2>2, SidesAre
  <2>5. reported' = st.client.state
    BY <1>2, <2>4 DEF Reports, Idle
  <2>6. Told(st.net, poll', st.client, st.client.state)
    BY <1>5, <2>1, <2>4 DEF Told, Idle, Failing, Closed, Ending, ToHandle, ClientStates
  <2>7. ReportMoves(reported, st.client.state)
    BY <2>1 DEF ReportMoves, Failing, Closed
  <2> QED BY <1>1, <1>2, <2>3, <2>5, <2>6, <2>7 DEF ConnectionInv
<1>9. CASE st.client.error = "none"
  <2>1. /\ Going(net, client, st)
        /\ ClientMoves(client.state, st.client.state, Head(poll["client"].batch))
    BY <1>4, <1>9 DEF Failing
  <2>2. poll' = p2
    <3>1. client'.error = "none"
      BY <1>2, <1>9
    <3>2. PICK b : b = [at |-> "events", batch |-> Tail(poll["client"].batch)]
      OBVIOUS
    <3>3. poll' = [poll EXCEPT !["client"] = b]
      BY <1>1, <3>1, <3>2
    <3>4. p2["client"] = b /\ p2 \in [Sides -> Polling]
      <4>1. p2["client"] \in Polling
        BY <1>5, SidesAre
      <4> QED BY <1>5, <1>7, <3>2, <4>1 DEF Polling
    <3>5. poll' \in [Sides -> Polling] /\ \A x \in Sides : poll'[x] = p2[x]
      BY SMTT(30), <1>1, <1>6, <3>3, <3>4, SidesAre
    <3> QED BY <3>4, <3>5
  <2>3. /\ Shaped(poll["client"].batch, ToSide("client", client, server))
        /\ Has(poll["client"].batch, Disconnected) => ~net.conn["client"].native
    BY <1>1, SidesAre DEF Joint, Carried, EndSound, ToHandle
  <2>4. Head(poll["client"].batch) = Disconnected => st.client.state = "Disconnected"
    <3>1. SUFFICES ASSUME Head(poll["client"].batch) = Disconnected
                   PROVE  st.client.state = "Disconnected"
      OBVIOUS
    <3>2. PICK c : c = client
      OBVIOUS
    <3>3. st = [[net |-> net, client |-> c] EXCEPT !.client.state = "Disconnected"]
      BY <1>2, <3>1, <3>2 DEF ClientEvent, Connected, Disconnected
    <3>4. st.client = [c EXCEPT !.state = "Disconnected"]
      BY <3>3
    <3>5. c \in ClientRecords
      BY <1>1, <3>2
    <3> QED BY <3>4, <3>5 DEF ClientRecords
  <2>5. /\ st.client.error = client.error
        /\ st.net.conn["client"].native => net.conn["client"].native
    BY <2>1 DEF Going
  <2>6. Told(st.net, p2, st.client, reported)
    BY <1>1, <1>7, <2>1, <2>3, <2>4, <2>5, ToldWhileHandling
  <2>7. reported' = reported
    BY <1>7, <2>2 DEF Reports
  <2> QED BY <1>1, <1>2, <1>4, <2>2, <2>6, <2>7 DEF ConnectionInv, ReportMoves
<1> QED
  BY <1>8, <1>9

LEMMA TimePassesKeeps ==
  ASSUME ConnectionInv, Reports, TimePasses
  PROVE  ConnectionInv' /\ ReportMoves(reported, reported')
<1>1. /\ transport \in {"native", "memory"}
      /\ Joint(transport, net, poll, client, server) /\ Told(net, poll, client, reported)
      /\ client \in ClientRecords /\ server \in ServerRecords
      /\ RuntimesSound(client, server)
      /\ client' = [client EXCEPT !.hello = "due"]
      /\ UNCHANGED <<transport, net, poll, server>>
  BY DEF ConnectionInv, Joint, TimePasses
<1>2. PICK c : c = client'
  OBVIOUS
<1>3. /\ c \in ClientRecords /\ c.state = client.state /\ c.connection = client.connection
      /\ c.id = client.id /\ c.snapshot = client.snapshot /\ c.error = client.error
  BY <1>1, <1>2 DEF ClientRecords
<1>4. RuntimesSound(c, server)
  BY <1>1, <1>3 DEF RuntimesSound
<1>5. ASSUME NEW side \in Sides
      PROVE  /\ ToSide(side, client, server) \subseteq ToSide(side, c, server)
             /\ Unmet(side, client, server) <=> Unmet(side, c, server)
  BY <1>3 DEF ToSide, Unmet
<1>6. Joint(transport, net, poll, c, server)
  BY <1>1, <1>3, <1>4, <1>5, RuntimesChange
<1>7. Told(net, poll, c, reported)
  BY <1>1, <1>3 DEF Told, Ending
<1>8. reported' = reported
  BY <1>1, <1>2, <1>3 DEF Reports, Told
<1> QED
  BY <1>1, <1>2, <1>6, <1>7, <1>8 DEF ConnectionInv, ReportMoves

\* A client whose end is closed changes only its state.
LEMMA ClientEndsKeeps ==
  ASSUME NEW t, NEW n, NEW p, NEW c, NEW s, Joint(t, n, p, c, s), c.connection,
         NEW c2, c2 = [c EXCEPT !.state = "Disconnected"]
  PROVE  Joint(t, n, p, c2, s)
<1>1. c \in ClientRecords /\ s \in ServerRecords /\ RuntimesSound(c, s)
  BY DEF Joint
<1>2. /\ c2 \in ClientRecords /\ c2.state = "Disconnected" /\ c2.connection = c.connection
      /\ c2.id = c.id /\ c2.snapshot = c.snapshot
  BY <1>1 DEF ClientRecords, ClientStates
<1>3. RuntimesSound(c2, s)
  BY <1>1, <1>2 DEF RuntimesSound
<1>4. ASSUME NEW side \in Sides
      PROVE  /\ ToSide(side, c, s) \subseteq ToSide(side, c2, s)
             /\ Unmet(side, c, s) <=> Unmet(side, c2, s)
  BY <1>2 DEF ToSide, Unmet
<1> QED
  BY <1>1, <1>2, <1>3, <1>4, RuntimesChange

LEMMA ClientDisconnectsKeeps ==
  ASSUME ConnectionInv, Reports, ClientDisconnects
  PROVE  ConnectionInv' /\ ReportMoves(reported, reported')
<1>1. /\ transport \in {"native", "memory"}
      /\ Joint(transport, net, poll, client, server) /\ Told(net, poll, client, reported)
      /\ client \in ClientRecords /\ client.connection
      /\ poll["client"].at = "idle" /\ net' = Disconnect(net, "client")
      /\ client' = [client EXCEPT !.state = "Disconnected"]
      /\ UNCHANGED <<transport, poll, server>>
  BY DEF ConnectionInv, Joint, ClientDisconnects
<1>2. PICK n, c : n = net' /\ c = client'
  OBVIOUS
<1>3. /\ Joint(transport, n, poll, client, server) /\ ~n.conn["client"].native
  BY <1>1, <1>2, DisconnectKeeps, SidesAre
<1>4. Joint(transport, n, poll, c, server)
  BY <1>1, <1>2, <1>3, ClientEndsKeeps
<1>5. c \in ClientRecords /\ c.state = "Disconnected"
  BY <1>1, <1>2 DEF ClientRecords, ClientStates
<1>6. ToHandle(poll["client"]) = << >>
  BY <1>1 DEF ToHandle
<1>7. Told(n, poll, c, c.state) /\ ReportMoves(reported, c.state)
  BY <1>1, <1>3, <1>5, <1>6, ToldAtReturn DEF Closed
<1>8. reported' = c.state
  BY <1>1, <1>2 DEF Reports
<1> QED
  BY <1>1, <1>2, <1>4, <1>7, <1>8 DEF ConnectionInv

LEMMA ClientExitsKeeps ==
  ASSUME ConnectionInv, Reports, ClientExits
  PROVE  ConnectionInv' /\ ReportMoves(reported, reported')
<1>1. /\ transport = "native" /\ net \in Nets /\ poll \in [Sides -> Polling]
      /\ Joint("native", net, poll, client, server) /\ Told(net, poll, client, reported)
      /\ client \in ClientRecords /\ server \in ServerRecords
      /\ RuntimesSound(client, server)
      /\ poll["client"].at = "idle"
      /\ net' = [CloseNative(net, "client")
                   EXCEPT !.callbacks["client"] = << >>, !.events["client"] = << >>]
      /\ client' = [client EXCEPT !.state = "Exited"]
      /\ UNCHANGED <<transport, poll, server>>
  BY DEF ConnectionInv, Joint, ClientExits
<1>2. PICK n, c, m : n = net' /\ c = client' /\ m = CloseNative(net, "client")
  OBVIOUS
<1>3. m = [net EXCEPT !.link = [net.link EXCEPT !["client"] = "closed"],
                      !.wire = [net.wire EXCEPT !["client"] = << >>],
                      !.loose = [net.loose EXCEPT !["client"] = {}],
                      !.inbox = [net.inbox EXCEPT !["client"] = << >>],
                      !.stray = net.stray,
                      !.conn = [net.conn EXCEPT !["client"] =
                                  [net.conn["client"] EXCEPT !.native = FALSE]]]
  BY <1>1, <1>2, CloseNativeIs, SidesAre
<1> DEFINE link2 == [net.link EXCEPT !["client"] = "closed"]
           wire2 == [net.wire EXCEPT !["client"] = << >>]
           loose2 == [net.loose EXCEPT !["client"] = {}]
           inbox2 == [net.inbox EXCEPT !["client"] = << >>]
           record == [net.conn["client"] EXCEPT !.native = FALSE]
           conn2 == [net.conn EXCEPT !["client"] = record]
           callbacks2 == [net.callbacks EXCEPT !["client"] = << >>]
           events2 == [net.events EXCEPT !["client"] = << >>]
<1>4. m = [net EXCEPT !.link = link2, !.wire = wire2, !.loose = loose2, !.inbox = inbox2,
                      !.stray = net.stray, !.conn = conn2]
  BY <1>3
<1>5. record \in Records /\ ~record.native
  <2>1. net.conn["client"] \in Records
    BY <1>1, NetFields, SidesAre
  <2> QED BY <2>1 DEF Records
<1> HIDE DEF record
<1>6. /\ link2 \in [Sides -> Links] /\ link2["server"] = net.link["server"]
      /\ wire2 \in [Sides -> Seq(AnyMessage)] /\ wire2["client"] = << >>
      /\ wire2["server"] = net.wire["server"]
      /\ loose2 \in [Sides -> SUBSET AnyMessage] /\ loose2["client"] = {}
      /\ loose2["server"] = net.loose["server"]
  BY <1>1, NetFields, SidesAre DEF Links
<1>7. /\ inbox2 \in [Sides -> Seq(AnyMessage)] /\ inbox2["client"] = << >>
      /\ inbox2["server"] = net.inbox["server"]
      /\ conn2 \in [Sides -> Records] /\ conn2["client"] = record
      /\ conn2["server"] = net.conn["server"]
      /\ callbacks2 \in [Sides -> Seq(Statuses)] /\ callbacks2["client"] = << >>
      /\ callbacks2["server"] = net.callbacks["server"]
      /\ events2 \in [Sides -> Seq(EventsOf(AnyMessage))] /\ events2["client"] = << >>
      /\ events2["server"] = net.events["server"]
  BY <1>1, <1>5, NetFields, SidesAre
<1>8. net.stray \in Seq(AnyMessage)
  BY <1>1, NetFields
<1> HIDE DEF link2, wire2, loose2, inbox2, conn2
<1>9. /\ m \in Nets /\ m.link = link2 /\ m.wire = wire2 /\ m.loose = loose2
      /\ m.inbox = inbox2 /\ m.stray = net.stray /\ m.conn = conn2
      /\ m.callbacks = net.callbacks /\ m.events = net.events
  BY <1>1, <1>4, <1>6, <1>7, <1>8 DEF Nets
<1>10. n = [m EXCEPT !.callbacks = callbacks2, !.events = events2]
  <2>1. n = [m EXCEPT !.callbacks["client"] = << >>, !.events["client"] = << >>]
    BY <1>1, <1>2
  <2>2. n = [m EXCEPT !.callbacks = [m.callbacks EXCEPT !["client"] = << >>],
                      !.events = [m.events EXCEPT !["client"] = << >>]]
    BY <1>9, <2>1 DEF Nets
  <2> QED BY <1>9, <2>2
<1> HIDE DEF callbacks2, events2
<1>11. /\ n \in Nets /\ n.link = link2 /\ n.wire = wire2 /\ n.loose = loose2
       /\ n.inbox = inbox2 /\ n.stray = net.stray /\ n.conn = conn2
       /\ n.callbacks = callbacks2 /\ n.events = events2
  BY <1>7, <1>9, <1>10 DEF Nets
<1>12. /\ c \in ClientRecords /\ c.state = "Exited" /\ c.connection = client.connection
       /\ c.id = client.id /\ c.snapshot = client.snapshot
  BY <1>1, <1>2 DEF ClientRecords, ClientStates
<1>13. RuntimesSound(c, server)
  BY <1>1, <1>12 DEF RuntimesSound
<1>14. \A side \in Sides : ToSide(side, c, server) = ToSide(side, client, server)
  BY <1>12 DEF ToSide
<1>15. ToHandle(poll["client"]) = << >> /\ ToRun(poll["client"]) = << >>
  BY <1>1 DEF ToHandle, ToRun
<1>16. /\ EndSound("native", n.conn["client"], n.events["client"], ToHandle(poll["client"]),
                   Unmet("client", c, server))
       /\ Carried(n, poll, c, server, "client")
  <2>1. << >> \in Seq({Connected, Disconnected})
    OBVIOUS
  <2>2. EndSound("native", n.conn["client"], n.events["client"], ToHandle(poll["client"]),
                 Unmet("client", c, server))
    BY <1>5, <1>7, <1>11, <1>15, <2>1, EmptyQueue DEF EndSound
  <2>3. PICK M : M = ToSide("client", c, server)
    OBVIOUS
  <2>4. << >> \in Seq(M) /\ Shaped(<< >>, M)
    BY EmptyQueue
  <2>5. Carried(n, poll, c, server, "client")
    BY <1>6, <1>7, <1>11, <1>15, <2>3, <2>4 DEF Carried
  <2> QED BY <2>2, <2>5
<1>17. /\ EndSound("native", n.conn["server"], n.events["server"], ToHandle(poll["server"]),
                   Unmet("server", c, server))
       /\ Carried(n, poll, c, server, "server")
  <2>1. /\ EndSound("native", net.conn["server"], net.events["server"],
                    ToHandle(poll["server"]), Unmet("server", client, server))
        /\ Carried(net, poll, client, server, "server")
    BY <1>1, SidesAre DEF Joint
  <2>2. Unmet("server", c, server) <=> Unmet("server", client, server)
    BY DEF Unmet
  <2>3. EndSound("native", n.conn["server"], n.events["server"], ToHandle(poll["server"]),
                 Unmet("server", c, server))
    BY <1>7, <1>11, <2>1, <2>2 DEF Unmet
  <2>4. Carried(n, poll, c, server, "server")
    BY <1>6, <1>7, <1>11, <1>14, <2>1, SidesAre DEF Carried
  <2> QED BY <2>3, <2>4
<1>18. OfferedOnce(n, poll, c, server)
  <2>1. OfferedOnce(net, poll, client, server)
    BY <1>1 DEF Joint
  <2>2. ~Has(n.callbacks["client"], "Connecting")
    BY <1>7, <1>11, EmptyQueue
  <2>3. Offerable(net, client, server) => Offerable(n, c, server)
    BY <1>7, <1>11 DEF Offerable, Unmet
  <2> QED BY <1>6, <1>7, <1>11, <2>1, <2>2, <2>3 DEF OfferedOnce
<1>19. Joint("native", n, poll, c, server)
  <2>1. \A side \in Sides :
          /\ EndSound("native", n.conn[side], n.events[side], ToHandle(poll[side]),
                      Unmet(side, c, server))
          /\ Carried(n, poll, c, server, side)
    BY <1>16, <1>17, SidesAre
  <2>2. /\ \A side \in Sides : poll[side].at \in {"callbacks", "assign"} =>
             poll[side].batch \in Seq(Statuses)
        /\ poll["client"].at # "assign"
        /\ poll["server"].at = "assign" => n.conn["server"].native
    BY <1>1, <1>7, <1>11 DEF Joint
  <2> QED BY <1>1, <1>11, <1>12, <1>13, <1>18, <2>1, <2>2 DEF Joint
<1>20. Told(n, poll, c, c.state) /\ ReportMoves(reported, c.state)
  <2>1. Closed(c.state) /\ ~n.conn["client"].native
    BY <1>5, <1>7, <1>11, <1>12 DEF Closed
  <2> QED BY <1>1, <1>12, <1>15, <2>1, ToldAtReturn
<1>21. reported' = c.state
  BY <1>1, <1>2 DEF Reports
<1> QED
  BY <1>1, <1>2, <1>19, <1>20, <1>21 DEF ConnectionInv

-----------------------------------------------------------------------------
(* The invariant holds at first, and every step keeps it.                     *)

LEMMA InitInv == Init => ConnectionInv
<1> SUFFICES ASSUME Init PROVE ConnectionInv
  OBVIOUS
<1>1. /\ transport \in {"native", "memory"} /\ net = NetInit(transport)
      /\ poll = [side \in Sides |-> Idle] /\ reported = "Connecting"
      /\ client = [state |-> "Connecting", connection |-> FALSE, id |-> 0,
                   snapshot |-> FALSE, hello |-> "none", error |-> "none"]
      /\ server = [session |-> "none", id |-> 0, nextId |-> 1, ended |-> FALSE,
                   rejected |-> FALSE]
  BY TransportsAssumption DEF Init
<1>2. /\ client \in ClientRecords /\ server \in ServerRecords /\ RuntimesSound(client, server)
      /\ \A side \in Sides : Unmet(side, client, server)
  BY <1>1 DEF ClientRecords, ClientStates, ServerRecords, RuntimesSound, Unmet
<1>3. /\ poll \in [Sides -> Polling]
      /\ \A side \in Sides : /\ poll[side].at = "idle"
                             /\ ToRun(poll[side]) = << >> /\ ToHandle(poll[side]) = << >>
  <2>1. << >> \in Seq(Statuses)
    OBVIOUS
  <2>2. Idle \in Polling /\ Idle.at = "idle"
    BY <2>1 DEF Idle, Polling
  <2>3. ToRun(Idle) = << >> /\ ToHandle(Idle) = << >>
    BY <2>2 DEF ToRun, ToHandle
  <2> QED BY <1>1, <2>2, <2>3
<1>4. /\ NoConnection \in Records /\ AddedConnection \in Records
      /\ NoConnection.known = FALSE /\ NoConnection.native = FALSE
      /\ NoConnection.connectedEmitted = FALSE /\ NoConnection.disconnectEmitted = FALSE
      /\ AddedConnection.known = TRUE /\ AddedConnection.native = TRUE
      /\ AddedConnection.connectedEmitted = FALSE
      /\ AddedConnection.disconnectEmitted = FALSE
  BY DEF Records, ConnectionStates, NoConnection, AddedConnection
<1>5. /\ net.link = [client |-> "connecting", server |-> "none"]
      /\ net.callbacks = [side \in Sides |-> << >>] /\ net.wire = [side \in Sides |-> << >>]
      /\ net.loose = [side \in Sides |-> {}] /\ net.inbox = [side \in Sides |-> << >>]
      /\ net.stray = << >> /\ net.grouped = FALSE
      /\ net.conn = [client |-> AddedConnection,
                     server |-> IF transport = "memory" THEN AddedConnection ELSE NoConnection]
      /\ net.events = [side \in Sides |-> IF transport = "memory" THEN << Connected >> ELSE << >>]
      /\ net = NetInit(transport)
  BY <1>1 DEF NetInit
<1>6. ASSUME NEW M
      PROVE  /\ << >> \in Seq(M) /\ Shaped(<< >>, M) /\ Shaped(<< Connected >>, M)
             /\ Has(<< Connected >>, Connected) /\ ~Has(<< Connected >>, Disconnected)
             /\ \A e : ~Has(<< >>, e)
             /\ << Connected >> # << >>
             /\ << Connected >> \in Seq(EventsOf(M)) /\ << >> \in Seq(EventsOf(M))
  <2>1. Connected \in EventsOf(M)
    BY DEF EventsOf
  <2>2. PICK e : e = Connected
    OBVIOUS
  <2>3. /\ << e >> \in Seq(EventsOf(M)) /\ << e >> # << >> /\ Len(<< e >>) = 1
        /\ DOMAIN << e >> = {1} /\ << e >>[1] = e
    BY <2>1, <2>2
  <2>4. Shaped(<< e >>, M) /\ Has(<< e >>, e) /\ ~Has(<< e >>, Disconnected)
    BY <2>2, <2>3, EventKinds DEF Shaped, Has
  <2> QED BY <2>2, <2>3, <2>4, EmptyQueue
<1>7. /\ net.conn["client"] = AddedConnection
      /\ net.conn["server"] = IF transport = "memory" THEN AddedConnection ELSE NoConnection
      /\ net.conn \in [Sides -> Records] /\ net.link \in [Sides -> Links]
      /\ net.link["server"] = "none"
  BY <1>4, <1>5 DEF Sides, Links
<1>8. \A side \in Sides :
        /\ net.callbacks[side] = << >> /\ net.wire[side] = << >> /\ net.loose[side] = {}
        /\ net.inbox[side] = << >>
        /\ net.events[side] = IF transport = "memory" THEN << Connected >> ELSE << >>
  BY <1>5
<1>9. net \in Nets
  <2>1. /\ net.callbacks \in [Sides -> Seq(Statuses)]
        /\ net.wire \in [Sides -> Seq(AnyMessage)]
        /\ net.loose \in [Sides -> SUBSET AnyMessage]
        /\ net.inbox \in [Sides -> Seq(AnyMessage)] /\ net.stray \in Seq(AnyMessage)
        /\ net.grouped \in BOOLEAN
        /\ net.events \in [Sides -> Seq(EventsOf(AnyMessage))]
    <3>1. /\ << Connected >> \in Seq(EventsOf(AnyMessage))
          /\ << >> \in Seq(EventsOf(AnyMessage))
      BY <1>6, Zenon
    <3>2. net.events \in [Sides -> Seq(EventsOf(AnyMessage))]
      BY <1>5, <3>1
    <3>3. /\ << >> \in Seq(Statuses) /\ << >> \in Seq(AnyMessage)
          /\ {} \in SUBSET AnyMessage
      OBVIOUS
    <3>4. /\ net.callbacks \in [Sides -> Seq(Statuses)]
          /\ net.wire \in [Sides -> Seq(AnyMessage)]
          /\ net.loose \in [Sides -> SUBSET AnyMessage]
          /\ net.inbox \in [Sides -> Seq(AnyMessage)]
      BY <1>5, <3>3
    <3> QED BY <1>5, <3>2, <3>3, <3>4
  <2> QED BY <1>5, <1>7, <2>1 DEF Nets, NetInit
<1>10. \A side \in Sides :
         /\ EndSound(transport, net.conn[side], net.events[side], ToHandle(poll[side]),
                     Unmet(side, client, server))
         /\ Carried(net, poll, client, server, side)
  <2> SUFFICES ASSUME NEW side \in Sides
               PROVE  /\ EndSound(transport, net.conn[side], net.events[side],
                                  ToHandle(poll[side]), Unmet(side, client, server))
                      /\ Carried(net, poll, client, server, side)
    OBVIOUS
  <2>1. CASE transport = "memory"
    <3>1. /\ net.conn[side] = AddedConnection /\ net.events[side] = << Connected >>
          /\ ToHandle(poll[side]) = << >> /\ Unmet(side, client, server)
      BY <1>2, <1>3, <1>7, <1>8, <2>1, SidesAre
    <3>2. EndSound(transport, net.conn[side], net.events[side], ToHandle(poll[side]),
                   Unmet(side, client, server))
      BY <1>4, <1>6, <2>1, <3>1 DEF EndSound
    <3>3. Carried(net, poll, client, server, side)
      BY <1>5, <1>6, <1>8, <3>1 DEF Carried
    <3> QED BY <3>2, <3>3
  <2>2. CASE transport = "native"
    <3>1. /\ net.conn[side] \in {AddedConnection, NoConnection} /\ net.events[side] = << >>
          /\ ToHandle(poll[side]) = << >> /\ Unmet(side, client, server)
      BY <1>2, <1>3, <1>7, <1>8, <2>2, SidesAre
    <3>2. << >> \in Seq({Connected, Disconnected})
      OBVIOUS
    <3>3. EndSound(transport, net.conn[side], net.events[side], ToHandle(poll[side]),
                   Unmet(side, client, server))
      BY <1>4, <1>6, <3>1, <3>2 DEF EndSound
    <3>4. Carried(net, poll, client, server, side)
      BY <1>5, <1>6, <1>8, <3>1 DEF Carried
    <3> QED BY <3>3, <3>4
  <2> QED BY <1>1, <2>1, <2>2
<1>11. transport = "native" => OfferedOnce(net, poll, client, server)
  <2>1. SUFFICES ASSUME transport = "native" PROVE OfferedOnce(net, poll, client, server)
    OBVIOUS
  <2>2. Offerable(net, client, server)
    BY <1>2, <1>7, <1>8, <2>1, SidesAre DEF Offerable
  <2>3. \A e : ~Has(<< >>, e)
    BY EmptyQueue
  <2>4. /\ net.callbacks["client"] = << >> /\ net.callbacks["server"] = << >>
        /\ ToRun(poll["client"]) = << >> /\ ToRun(poll["server"]) = << >>
    BY <1>3, <1>8, SidesAre
  <2> QED BY <2>2, <2>3, <2>4 DEF OfferedOnce
<1>12. transport = "memory" => MemoryShared(net, poll)
  BY <1>3, <1>7, <1>8 DEF MemoryShared
<1>13. Joint(transport, net, poll, client, server)
  BY <1>2, <1>3, <1>9, <1>10, <1>11, <1>12, SidesAre DEF Joint
<1>14. Told(net, poll, client, reported)
  BY <1>1, <1>3, SidesAre DEF Told, Closed, ClientStates
<1> QED
  BY <1>1, <1>13, <1>14 DEF ConnectionInv

\* A step that leaves the client alone tells the application nothing new.
LEMMA ReportedStays ==
  ASSUME ConnectionInv, Reports, client'.state = client.state,
         poll'["client"].at = "idle" => poll["client"].at = "idle"
  PROVE  reported' = reported
BY DEF ConnectionInv, Told, Reports

\* One of the two runtimes moves forward, the other one stays.
Forward ==
  \/ reported' = reported /\ SessionMoves(server, server')
  \/ UNCHANGED server /\ ReportMoves(reported, reported')

LEMMA QuietForward ==
  ASSUME ConnectionInv, Reports, client'.state = client.state,
         poll'["client"].at = "idle" => poll["client"].at = "idle",
         UNCHANGED server
  PROVE  Forward
BY ReportedStays DEF Forward, SessionMoves

LEMMA LibraryStep ==
  ASSUME ConnectionInv, Reports,
         \/ LibraryOffers
         \/ LibraryConnects
         \/ \E side \in Sides :
              \/ LibraryFails(side)
              \/ LibraryNotices(side)
              \/ ReliableArrives(side)
              \/ UnreliableArrives(side)
              \/ UnreliableLost(side)
  PROVE  ConnectionInv' /\ Forward
<1>1. ConnectionInv' /\ UNCHANGED server
  BY LibraryOffersKeeps, LibraryConnectsKeeps, LibraryFailsKeeps, LibraryNoticesKeeps,
     ReliableArrivesKeeps, UnreliableArrivesKeeps, UnreliableLostKeeps
<1>2. UNCHANGED <<poll, client>>
  BY DEF LibraryOffers, LibraryConnects, LibraryFails, LibraryNotices, ReliableArrives,
         UnreliableArrives, UnreliableLost
<1> QED
  BY <1>1, <1>2, QuietForward

LEMMA PollForward ==
  ASSUME ConnectionInv, Reports, NEW side \in Sides, PollStep(side)
  PROVE  ConnectionInv' /\ Forward
<1>1. ConnectionInv' /\ UNCHANGED server
  BY PollsKeeps, RunsCallbackKeeps, ReceivesKeeps DEF PollStep
<1>2. poll \in [Sides -> Polling] /\ client \in ClientRecords
  BY DEF ConnectionInv, Joint
<1>3. CASE Polls(side)
  <2>1. client'.state = client.state
    BY <1>2, <1>3, SidesAre DEF Polls, ClientRecords
  <2>2. PICK b : b = [at |-> "callbacks", batch |-> net.callbacks[side]]
    OBVIOUS
  <2>3. poll' = [poll EXCEPT ![side] = b] /\ b.at = "callbacks"
    BY <1>3, <2>2 DEF Polls
  <2>4. poll'["client"].at = "idle" => poll["client"].at = "idle"
    BY <1>2, <2>3, SidesAre
  <2> QED BY <1>1, <2>1, <2>4, QuietForward
<1>4. CASE RunsCallback(side)
  <2>1. client' = client /\ poll' = [poll EXCEPT ![side].batch = Tail(@)]
        /\ poll[side].at = "callbacks"
    BY <1>4 DEF RunsCallback, AtCallback
  <2>2. [poll[side] EXCEPT !.batch = Tail(poll[side].batch)].at = "callbacks"
    <3>1. poll[side] \in Polling
      BY <1>2
    <3> QED BY <2>1, <3>1 DEF Polling
  <2>3. poll'["client"].at = "idle" => poll["client"].at = "idle"
    BY <1>2, <2>1, <2>2, SidesAre
  <2> QED BY <1>1, <2>1, <2>3, QuietForward
<1>5. CASE Receives(side)
  <2>1. PICK b : b = [at |-> "events", batch |-> ReceiveMessages(net, side).events[side]]
    OBVIOUS
  <2>2. poll'["client"].at = "idle" => poll["client"].at = "idle"
    <3>1. poll' = [poll EXCEPT ![side] = b] /\ b.at = "events"
      BY <1>5, <2>1 DEF Receives
    <3> QED BY <1>2, <3>1, SidesAre
  <2>3. client' = client
    BY <1>5 DEF Receives
  <2> QED BY <1>1, <2>2, <2>3, QuietForward
<1> QED
  BY <1>3, <1>4, <1>5 DEF PollStep

LEMMA ServerForward ==
  ASSUME ConnectionInv, Reports,
         \/ ServerAccepts
         \/ ServerAssignsPollGroup
         \/ ServerHandlesEvent
         \/ ServerReturns
         \/ ServerSendsSnapshot
         \/ ServerTimesOut
  PROVE  ConnectionInv' /\ Forward
<1>1. ConnectionInv' /\ SessionMoves(server, server')
  <2>1. UNCHANGED server => SessionMoves(server, server')
    BY DEF SessionMoves
  <2> QED
    BY <2>1, ServerAcceptsKeeps, ServerAssignsKeeps, ServerHandlesEventKeeps,
       ServerReturnsKeeps, ServerSendsSnapshotKeeps, ServerTimesOutKeeps
<1>2. UNCHANGED client
  BY DEF ServerAccepts, ServerAssignsPollGroup, ServerHandlesEvent, ServerReturns,
         ServerSendsSnapshot, ServerTimesOut, ServerBecomes
<1>3. poll \in [Sides -> Polling]
  BY DEF ConnectionInv, Joint
<1>4. poll'["client"] = poll["client"]
  <2>1. CASE ServerAccepts
    <3>1. \/ \E b : poll' = [poll EXCEPT !["server"] = b]
          \/ poll' = [poll EXCEPT !["server"].batch = Tail(@)]
      BY <2>1 DEF ServerAccepts
    <3> QED BY <1>3, <3>1, SidesAre
  <2>2. CASE ServerAssignsPollGroup
    BY <1>3, <2>2, SidesAre DEF ServerAssignsPollGroup
  <2>3. CASE ServerHandlesEvent
    BY <1>3, <2>3, SidesAre DEF ServerHandlesEvent
  <2>4. CASE ServerReturns
    BY <1>3, <2>4, SidesAre DEF ServerReturns
  <2>5. CASE ServerSendsSnapshot \/ ServerTimesOut
    BY <2>5 DEF ServerSendsSnapshot, ServerTimesOut
  <2> QED BY <2>1, <2>2, <2>3, <2>4, <2>5
<1>5. reported' = reported
  BY <1>2, <1>4, ReportedStays
<1> QED
  BY <1>1, <1>5 DEF Forward

LEMMA ClientForward ==
  ASSUME ConnectionInv, Reports,
         \/ ClientHandlesEvent
         \/ ClientReturns
         \/ TimePasses
         \/ ClientDisconnects
         \/ ClientExits
  PROVE  ConnectionInv' /\ Forward
<1>1. ConnectionInv' /\ ReportMoves(reported, reported')
  BY ClientHandlesEventKeeps, ClientReturnsKeeps, TimePassesKeeps, ClientDisconnectsKeeps,
     ClientExitsKeeps
<1>2. UNCHANGED server
  BY DEF ClientHandlesEvent, ClientReturns, TimePasses, ClientDisconnects, ClientExits,
         ClientBecomes
<1> QED
  BY <1>1, <1>2 DEF Forward

LEMMA NextInv ==
  ASSUME ConnectionInv, [Next]_<<connectionVars, reported>>
  PROVE  ConnectionInv' /\ Forward
<1>1. CASE Next
  <2>1. Step /\ Reports
    BY <1>1 DEF Next, Reports
  <2>2. "client" \in Sides /\ "server" \in Sides
    BY SidesAre
  <2>3. \/ /\ \/ LibraryOffers
              \/ LibraryConnects
              \/ \E side \in Sides :
                   \/ LibraryFails(side)
                   \/ LibraryNotices(side)
                   \/ ReliableArrives(side)
                   \/ UnreliableArrives(side)
                   \/ UnreliableLost(side)
        \/ PollStep("server") \/ PollStep("client")
        \/ /\ \/ ServerAccepts
              \/ ServerAssignsPollGroup
              \/ ServerHandlesEvent
              \/ ServerReturns
              \/ ServerSendsSnapshot
              \/ ServerTimesOut
        \/ /\ \/ ClientHandlesEvent
              \/ ClientReturns
              \/ TimePasses
              \/ ClientDisconnects
              \/ ClientExits
    BY <2>1, Zenon DEF Step, ServerPumps, ClientPumps
  <2> QED
    BY <2>1, <2>2, <2>3, LibraryStep, PollForward, ServerForward, ClientForward, Zenon
<1>2. CASE UNCHANGED <<connectionVars, reported>>
  <2>1. UNCHANGED <<transport, net, poll, client, server, reported>>
    BY <1>2 DEF connectionVars
  <2>2. ConnectionInv'
    BY <2>1 DEF ConnectionInv
  <2> QED BY <2>1, <2>2 DEF Forward, SessionMoves
<1> QED
  BY <1>1, <1>2

-----------------------------------------------------------------------------
(* What the invariant says of the properties.                                 *)

\* What a side has been sent is a message of the protocol.
LEMMA SentAreMessages ==
  ASSUME RuntimesSound(client, server), server \in ServerRecords, NEW side
  PROVE  ToSide(side, client, server) \subseteq Messages
<1>1. server.id # 0 => server.id \in 1 .. server.nextId - 1
  BY DEF RuntimesSound, ServerRecords
<1>2. server.id # 0 => ServerWelcome(server.id) \in Messages
  BY <1>1 DEF Messages
<1> QED
  BY <1>2 DEF ToSide, Messages

\* The messages of a queue of events.
LEMMA MessagesOf ==
  ASSUME NEW M, NEW q \in Seq(EventsOf(M))
  PROVE  [i \in DOMAIN q |-> q[i].message] \in Seq(M \cup {NoMessage})
<1>1. Len(q) \in Nat /\ DOMAIN q = 1 .. Len(q)
  OBVIOUS
<1>2. \A e \in EventsOf(M) : e.message \in M \cup {NoMessage}
  BY DEF EventsOf, Connected, Disconnected, PayloadReceived
<1>3. \A i \in 1 .. Len(q) : q[i].message \in M \cup {NoMessage}
  BY <1>1, <1>2
<1> QED
  BY <1>1, <1>3

LEMMA QueuedAreMessages ==
  ASSUME ConnectionInv, NEW side \in Sides
  PROVE  ToSet(Queued(side)) \subseteq Messages \cup {NoMessage}
<1>1. /\ Carried(net, poll, client, server, side)
      /\ ToSide(side, client, server) \subseteq Messages
  BY SentAreMessages DEF ConnectionInv, Joint
<1>2. PICK M : M = ToSide(side, client, server)
  OBVIOUS
<1>3. PICK N : N = Messages \cup {NoMessage}
  OBVIOUS
<1>4. M \subseteq N /\ M \cup {NoMessage} \subseteq N
  BY <1>1, <1>2, <1>3
<1>5. PICK a, b, c, d, e :
        /\ a = net.wire[side] /\ b = net.inbox[side]
        /\ c = (IF side = "server" THEN net.stray ELSE << >>)
        /\ d = net.events[side] /\ e = ToHandle(poll[side])
  OBVIOUS
<1>6. /\ a \in Seq(M) /\ b \in Seq(M) /\ c \in Seq(M)
      /\ d \in Seq(EventsOf(M)) /\ e \in Seq(EventsOf(M))
  BY <1>1, <1>2, <1>5 DEF Carried, Shaped
<1>7. PICK f : f = [i \in DOMAIN (d \o e) |-> (d \o e)[i].message]
  OBVIOUS
<1>8. f \in Seq(N)
  <2>1. d \o e \in Seq(EventsOf(M))
    BY <1>6
  <2>2. f \in Seq(M \cup {NoMessage})
    BY <1>7, <2>1, MessagesOf
  <2> QED BY <1>4, <2>2
<1>9. Queued(side) = a \o b \o c \o f
  <2>1. e = IF poll[side].at = "events" THEN poll[side].batch ELSE << >>
    BY <1>5 DEF ToHandle
  <2> QED BY <1>5, <1>7, <2>1 DEF Queued
<1>10. a \o b \o c \o f \in Seq(N)
  <2>1. a \in Seq(N) /\ b \in Seq(N) /\ c \in Seq(N)
    BY <1>4, <1>6
  <2> QED BY <1>8, <2>1
<1> QED
  BY <1>3, <1>9, <1>10 DEF ToSet

LEMMA InvSuffices == ConnectionInv => ConnectionSound
<1> SUFFICES ASSUME ConnectionInv PROVE ConnectionSound
  OBVIOUS
<1>1. /\ net \in Nets /\ poll \in [Sides -> Polling] /\ client \in ClientRecords
      /\ server \in ServerRecords /\ RuntimesSound(client, server)
      /\ \A side \in Sides :
           /\ EndSound(transport, net.conn[side], net.events[side], ToHandle(poll[side]),
                       Unmet(side, client, server))
           /\ Carried(net, poll, client, server, side)
  BY DEF ConnectionInv, Joint
<1>2. ConnectionTypeOK
  <2>1. net.link \in [Sides -> {"none", "connecting", "connected", "closed"}]
    BY <1>1, NetFields DEF Links
  <2>2. ASSUME NEW side \in Sides
        PROVE  /\ net.loose[side] \subseteq Messages
               /\ ToSet(Queued(side)) \subseteq Messages \cup {NoMessage}
               /\ net.conn[side].native => net.conn[side].known
               /\ poll[side].at \in {"idle", "callbacks", "assign", "events"}
    <3>1. net.loose[side] \subseteq Messages
      BY <1>1, SentAreMessages DEF Carried
    <3>2. net.conn[side].native => net.conn[side].known
      BY <1>1 DEF EndSound
    <3>3. poll[side].at \in {"idle", "callbacks", "assign", "events"}
      <4>1. poll[side] \in Polling
        BY <1>1
      <4> QED BY <4>1 DEF Polling
    <3> QED BY <3>1, <3>2, <3>3, QueuedAreMessages
  <2>3. /\ client.state \in {"Connecting", "Handshaking", "Ready", "Disconnected",
                             "Failed", "Exited"}
        /\ client.hello \in {"none", "recent", "due"}
        /\ server.session \in {"none", "open", "ready"}
    BY <1>1 DEF ClientRecords, ClientStates, ServerRecords
  <2> QED BY <2>1, <2>2, <2>3 DEF ConnectionTypeOK
<1>3. HandshakeTolerant
  BY <1>1 DEF HandshakeTolerant, ClientRecords, ServerRecords
<1>4. ReadyMeansJoined
  BY <1>1 DEF ReadyMeansJoined, RuntimesSound, ClientRecords
<1>5. EndIsLast
  <2> SUFFICES ASSUME NEW side \in Sides, NEW i \in DOMAIN net.events[side],
                      net.events[side][i] = Disconnected
               PROVE  i = Len(net.events[side]) /\ ~net.conn[side].native
    BY DEF EndIsLast
  <2>1. i = Len(net.events[side])
    BY <1>1 DEF Carried, Shaped
  <2>2. Has(net.events[side], Disconnected)
    BY DEF Has
  <2> QED BY <1>1, <2>1, <2>2 DEF EndSound
<1> QED
  BY <1>2, <1>3, <1>4, <1>5 DEF ConnectionSound

\* The session's phase after one move.
LEMMA ServerPhaseMoves ==
  ASSUME server \in ServerRecords, server' \in ServerRecords,
         server.ended => server.session = "none", SessionMoves(server, server')
  PROVE  ServerPhase' = ServerPhase \/ ServerPhase' \in Lifecycle!ServerLater(ServerPhase)
<1>1. /\ server.session \in {"none", "open", "ready"} /\ server.ended \in BOOLEAN
      /\ server'.session \in {"none", "open", "ready"} /\ server'.ended \in BOOLEAN
  BY DEF ServerRecords
<1>2. ServerPhase = CASE server.session = "open" -> "open"
                      [] server.session = "ready" -> "joined"
                      [] OTHER -> IF server.ended THEN "ended" ELSE "absent"
  BY DEF ServerPhase
<1>3. ServerPhase' = CASE server'.session = "open" -> "open"
                       [] server'.session = "ready" -> "joined"
                       [] OTHER -> IF server'.ended THEN "ended" ELSE "absent"
  BY DEF ServerPhase
<1>4. CASE server'.session = server.session /\ server'.ended = server.ended
  BY <1>2, <1>3, <1>4
<1>5. CASE server.session # "none" /\ server'.session = "none" /\ server'.ended
  <2>1. ServerPhase \in {"open", "joined"} /\ ServerPhase' = "ended"
    BY <1>1, <1>2, <1>3, <1>5
  <2> QED BY <2>1 DEF Lifecycle!ServerLater
<1>6. CASE server.session = "open" /\ server'.session = "ready" /\ server'.ended = server.ended
  <2>1. ServerPhase = "open" /\ ServerPhase' = "joined"
    BY <1>1, <1>2, <1>3, <1>6
  <2> QED BY <2>1 DEF Lifecycle!ServerLater
<1>7. CASE server.session = "none" /\ ~server.ended /\ server'.session = "open" /\ ~server'.ended
  <2>1. ServerPhase = "absent" /\ ServerPhase' = "open"
    BY <1>1, <1>2, <1>3, <1>7
  <2> QED BY <2>1 DEF Lifecycle!ServerLater
<1> QED
  BY <1>4, <1>5, <1>6, <1>7 DEF SessionMoves

\* The client's phase after one report.
LEMMA ClientPhaseMoves ==
  ASSUME reported \in ClientStates, reported' \in ClientStates,
         ReportMoves(reported, reported')
  PROVE  /\ ClientPhase' = ClientPhase \/ ClientPhase' \in Lifecycle!ClientLater(ClientPhase)
         /\ ClientPhase' = "ready" <=> reported' = "Ready"
<1>1. /\ ClientPhase = CASE reported = "Connecting"  -> "connecting"
                         [] reported = "Handshaking" -> "handshaking"
                         [] reported = "Ready"       -> "ready"
                         [] OTHER                    -> "closed"
      /\ ClientPhase' = CASE reported' = "Connecting"  -> "connecting"
                          [] reported' = "Handshaking" -> "handshaking"
                          [] reported' = "Ready"       -> "ready"
                          [] OTHER                     -> "closed"
  BY DEF ClientPhase
<1>2. ClientPhase' = "ready" <=> reported' = "Ready"
  BY <1>1
<1>3. CASE reported' = reported
  BY <1>1, <1>2, <1>3
<1>4. CASE Closed(reported')
  <2>1. /\ ClientPhase' = "closed"
        /\ ClientPhase \in {"connecting", "handshaking", "ready", "closed"}
    BY <1>1, <1>4 DEF Closed
  <2> QED BY <1>2, <2>1 DEF Lifecycle!ClientLater
<1>5. CASE \/ reported = "Connecting" /\ reported' \in {"Handshaking", "Ready"}
           \/ reported = "Handshaking" /\ reported' = "Ready"
  <2>1. \/ ClientPhase = "connecting" /\ ClientPhase' \in {"handshaking", "ready"}
        \/ ClientPhase = "handshaking" /\ ClientPhase' = "ready"
    BY <1>1, <1>5
  <2> QED BY <1>2, <2>1 DEF Lifecycle!ClientLater
<1> QED
  BY <1>3, <1>4, <1>5 DEF ReportMoves

\* A client that is told to be ready has a session that joined.
LEMMA ReadyAfterJoined ==
  ASSUME ConnectionInv, ConnectionInv', Reports, UNCHANGED server,
         reported' = "Ready", reported # "Ready"
  PROVE  ServerPhase \in {"joined", "ended"}
<1>1. client'.state = "Ready"
  BY DEF Reports
<1>2. RuntimesSound(client', server) /\ client' \in ClientRecords /\ server \in ServerRecords
  BY DEF ConnectionInv, Joint
<1>3. server.id # 0
  BY <1>1, <1>2 DEF RuntimesSound
<1>4. server.session # "open" /\ (server.session = "none" => server.ended)
  BY <1>2, <1>3 DEF RuntimesSound
<1>5. server.session \in {"none", "open", "ready"}
  BY <1>2 DEF ServerRecords
<1> QED
  BY <1>4, <1>5 DEF ServerPhase

\* Every step is one of the lifecycle's, or none.
LEMMA StepMapsToLifecycle ==
  ASSUME ConnectionInv, ConnectionInv', [Next]_<<connectionVars, reported>>
  PROVE  [Lifecycle!ClientMoves \/ Lifecycle!ServerMoves]_<<ClientPhase, ServerPhase>>
<1>1. /\ server \in ServerRecords /\ server' \in ServerRecords
      /\ server.ended => server.session = "none"
      /\ reported \in ClientStates /\ reported' \in ClientStates
  BY DEF ConnectionInv, Joint, RuntimesSound, Told
<1>2. Forward
  BY NextInv
<1>3. CASE reported' = reported /\ SessionMoves(server, server')
  <2>1. ClientPhase' = ClientPhase
    BY <1>3 DEF ClientPhase
  <2>2. ServerPhase' = ServerPhase \/ ServerPhase' \in Lifecycle!ServerLater(ServerPhase)
    BY <1>1, <1>3, ServerPhaseMoves
  <2> QED BY <2>1, <2>2 DEF Lifecycle!ServerMoves
<1>4. CASE UNCHANGED server /\ ReportMoves(reported, reported')
  <2>1. ServerPhase' = ServerPhase
    BY <1>4 DEF ServerPhase
  <2>2. /\ ClientPhase' = ClientPhase \/ ClientPhase' \in Lifecycle!ClientLater(ClientPhase)
        /\ ClientPhase' = "ready" <=> reported' = "Ready"
    BY <1>1, <1>4, ClientPhaseMoves
  <2>3. CASE reported' = reported
    <3>1. ClientPhase' = ClientPhase
      BY <2>3 DEF ClientPhase
    <3> QED BY <2>1, <3>1
  <2>4. CASE reported' # reported
    <3>1. Reports
      BY <2>4 DEF Next, Reports
    <3>2. ClientPhase' = "ready" => ServerPhase \in {"joined", "ended"}
      BY <1>4, <2>2, <2>4, <3>1, ReadyAfterJoined
    <3> QED BY <2>1, <2>2, <3>2 DEF Lifecycle!ClientMoves
  <2> QED BY <2>3, <2>4
<1> QED
  BY <1>2, <1>3, <1>4 DEF Forward

-----------------------------------------------------------------------------
(* The theorems.                                                              *)

\* The inductive invariant, for either transport and any number of messages.
THEOREM ConnectionInvHolds == Spec => []ConnectionInv
<1>1. ConnectionInv /\ [Next]_<<connectionVars, reported>> => ConnectionInv'
  BY NextInv
<1> QED
  BY <1>1, InitInv, PTL DEF Spec

\* However the library, the two polls, the repeated hellos and the lost or late
\* packets interleave: neither runtime meets a packet it did not expect, a ready
\* client has the id of its session and a snapshot, and an endpoint reports the
\* end of a connection once, last, and after it closed its side.
THEOREM ConnectionAlwaysSound == Spec => []ConnectionSound
BY ConnectionInvHolds, InvSuffices, PTL

\* The runtimes over either transport implement the lifecycle: the phases only
\* move forward, and no client is ready before its session joined.
THEOREM ConnectionImplementsLifecycle == Spec => ImplementsLifecycle
<1>1. Init => ClientPhase = "connecting" /\ ServerPhase = "absent"
  <2> SUFFICES ASSUME Init PROVE ClientPhase = "connecting" /\ ServerPhase = "absent"
    OBVIOUS
  <2>1. reported = "Connecting" /\ server.session = "none" /\ server.ended = FALSE
    BY DEF Init
  <2> QED BY <2>1 DEF ClientPhase, ServerPhase
<1>2. ConnectionInv /\ ConnectionInv' /\ [Next]_<<connectionVars, reported>>
        => [Lifecycle!ClientMoves \/ Lifecycle!ServerMoves]_<<ClientPhase, ServerPhase>>
  BY StepMapsToLifecycle
<1> QED
  BY <1>1, <1>2, ConnectionInvHolds, PTL
     DEF Spec, ImplementsLifecycle, Lifecycle!LifecycleSpec, Lifecycle!lifecycleVars

===============================================================================
