--------------------------- MODULE ServerSessions ---------------------------
(***************************************************************************)
(* The sessions of the server runtime (server_runtime.cpp) and the players *)
(* it keeps for them in the authoritative world: joining, playing, being   *)
(* absorbed, spectating, respawning and leaving.                           *)
(*                                                                         *)
(* One action is one transport event handled by process_events, or one     *)
(* step().  Positions and masses are left out: any player that another     *)
(* owner's player could reach may be absorbed, any two pieces of an owner  *)
(* may merge, and any spawn may find no safe position.  Ticks are counted  *)
(* relative to the present: idle is world_.tick() - last_activity_tick and *)
(* respawn the ticks left to respawn_available_tick.  Sequence numbers of  *)
(* commands and receipts are the subject of InputFlow and ReceiptStream,   *)
(* and absent here; latest_absorption and latest_respawn_result only       *)
(* report.                                                                 *)
(***************************************************************************)
EXTENDS Integers, Sequences, SequencesExt

CONSTANTS
  Connections,       \* transport connection handles
  InvalidEntity,     \* EntityId::kInvalidValue
  InvalidOwner,      \* PlayerOwnerId::kInvalidValue
  MaxPieces,         \* rules.maximum_pieces_per_owner
  QueueCapacity,     \* the commands a session queues
  ReceiptCapacity,   \* kMaximumPendingAuthorityReceipts
  LivenessTimeout,   \* settings_.liveness_timeout_ticks
  HandshakeTimeout,  \* settings_.handshake_timeout_ticks
  InputHold,         \* settings_.input_hold_ticks
  Cooldown,          \* settings_.respawn_cooldown_ticks
  MaxEvents          \* bound: events of one tick

ASSUME SessionsAssumption ==
  /\ InvalidEntity \in Nat /\ InvalidOwner \in Nat
  /\ MaxPieces \in Nat \ {0}
  /\ QueueCapacity \in Nat /\ ReceiptCapacity \in Nat
  /\ LivenessTimeout \in Nat \ {0} /\ HandshakeTimeout \in Nat \ {0}
  /\ InputHold \in Nat /\ Cooldown \in Nat /\ MaxEvents \in Nat

NoId == -1           \* an invalid EntityId or PlayerOwnerId
NoTick == -1         \* an absent tick
Actions == SUBSET {"split", "respawn"}   \* action_bits of a command

VARIABLES
  sessions,     \* sessions_: the connections with a session, and the sessions
  players,      \* the world's player entities, and their owners
  nextEntity,   \* World::next_entity_id_
  nextOwner,    \* next_owner_id_
  oddTick,      \* world_.tick() is odd
  server        \* "running", the RuntimeError returned, or "crashed"

sessionVars == <<sessions, players, nextEntity, nextOwner, oddTick, server>>

\* The Session a connection starts with.
NewSession ==
  [ready |-> FALSE, role |-> "Player", owner |-> NoId, mode |-> "Playing",
   pieces |-> {}, primary |-> NoId, follow |-> NoId, respawn |-> NoTick,
   inputs |-> << >>, missing |-> 0, idle |-> 0, receipts |-> 0]

\* The map f with the value v at x.
With(f, x, v) == [y \in DOMAIN f \cup {x} |-> IF y = x THEN v ELSE f[y]]

-----------------------------------------------------------------------------
(* Sessions and players together: what a handler works on.                 *)

Current == [sessions |-> sessions, players |-> players]

\* Faulty variant: the primary player is the only one removed.
RemoveSessions_PrimaryOnly(st, gone) ==
  LET removed == {st.sessions[c].primary : c \in gone}
  IN [sessions |-> Restrict(st.sessions, DOMAIN st.sessions \ gone),
      players |-> Restrict(st.players, DOMAIN st.players \ removed)]

\* remove_session for each connection: its players leave the world.
RemoveSessions(st, gone) ==
  LET removed == UNION {st.sessions[c].pieces : c \in gone}
  IN [sessions |-> Restrict(st.sessions, DOMAIN st.sessions \ gone),
      players |-> Restrict(st.players, DOMAIN st.players \ removed)]

\* Commit the handler's work.
Become(st) ==
  sessions' = st.sessions /\ players' = st.players /\ UNCHANGED server

\* A handler that returns a RuntimeError ends the process.
Stop(status) ==
  /\ server' = status
  /\ UNCHANGED <<sessions, players, nextEntity, nextOwner, oddTick>>

-----------------------------------------------------------------------------
(* process_events.                                                         *)

\* The Connected event.  Nothing is kept of a session that is gone, so the
\* handle of an earlier connection serves for a new one.
Connect(c) ==
  /\ server = "running" /\ c \notin DOMAIN sessions
  /\ sessions' = With(sessions, c, NewSession)
  /\ UNCHANGED <<players, nextEntity, nextOwner, oddTick, server>>

\* The Disconnected event, or reject() for a payload that fails to decode, has
\* the wrong delivery mode, or breaks a rule that InputFlow and ReceiptStream
\* model.
Leave(c) ==
  /\ server = "running" /\ c \in DOMAIN sessions
  /\ Become(RemoveSessions(Current, {c}))
  /\ UNCHANGED <<nextEntity, nextOwner, oddTick>>

\* next_available_owner_id.
OwnerCandidates ==
  {o \in nextOwner .. InvalidOwner - 1 :
     /\ \A c \in DOMAIN sessions : sessions[c].owner # o
     /\ \A p \in DOMAIN players : players[p] # o}

\* accept, the checks and the spawn that can end the server.
AcceptError(role, safe) ==
  IF role = "Spectator" THEN "running"
  ELSE IF OwnerCandidates = {} THEN "PlayerOwnerIdExhausted"
  ELSE IF nextEntity = InvalidEntity THEN "EntityIdExhausted"
  ELSE IF ~safe THEN "NoSafeSpawn"
  ELSE "running"

\* The session that accept installs.
Accepted(session, role, owner) ==
  IF role = "Player"
  THEN [session EXCEPT !.ready = TRUE, !.role = role, !.owner = owner,
                       !.mode = "Playing", !.pieces = {nextEntity},
                       !.primary = nextEntity, !.idle = 0]
  ELSE [session EXCEPT !.ready = TRUE, !.role = role, !.mode = "Spectating", !.idle = 0]

\* A ClientHello that completes the handshake: accept, then the welcome and the
\* first snapshot, which a new session's state never invalidates.  A failed send
\* of either removes the session again.
Join(c, role, safe, sent) ==
  LET owner == Min(OwnerCandidates)
      joined == [sessions |-> [sessions EXCEPT ![c] = Accepted(@, role, owner)],
                 players |-> IF role = "Player" THEN With(players, nextEntity, owner)
                             ELSE players]
  IN /\ server = "running" /\ c \in DOMAIN sessions /\ ~sessions[c].ready
     /\ \/ /\ AcceptError(role, safe) # "running"
           /\ Stop(AcceptError(role, safe))
        \/ /\ AcceptError(role, safe) = "running"
           /\ Become(IF sent THEN joined ELSE RemoveSessions(joined, {c}))
           /\ IF role = "Player"
              THEN nextEntity' = nextEntity + 1 /\ nextOwner' = owner + 1
              ELSE UNCHANGED <<nextEntity, nextOwner>>
           /\ UNCHANGED oddTick

\* A repeated ClientHello: the same role gets the welcome again, another one is
\* rejected.
JoinAgain(c, role, sent) ==
  LET refreshed == [Current EXCEPT !.sessions[c].idle = 0]
  IN /\ server = "running" /\ c \in DOMAIN sessions /\ sessions[c].ready
     /\ Become(IF role = sessions[c].role /\ sent THEN refreshed
               ELSE RemoveSessions(Current, {c}))
     /\ UNCHANGED <<nextEntity, nextOwner, oddTick>>

\* A ClientStatus or InputPacket of a ready session acknowledges receipts; the
\* packet adds its fresh commands.
Hear(c, fresh, acknowledged) ==
  /\ server = "running" /\ c \in DOMAIN sessions /\ sessions[c].ready
  /\ acknowledged <= sessions[c].receipts
  /\ fresh # << >> => sessions[c].role = "Player"
  /\ Len(sessions[c].inputs) + Len(fresh) <= QueueCapacity
  /\ sessions' = [sessions EXCEPT ![c].idle = 0, ![c].inputs = @ \o fresh,
                                  ![c].receipts = @ - acknowledged]
  /\ UNCHANGED <<players, nextEntity, nextOwner, oddTick, server>>

-----------------------------------------------------------------------------
(* step: commands.                                                         *)

\* remove_inactive_sessions.
Inactive ==
  {c \in DOMAIN sessions :
     sessions[c].idle >= IF sessions[c].ready THEN LivenessTimeout ELSE HandshakeTimeout}

\* The sessions whose oldest command this tick applies.
Selected(st) ==
  {c \in DOMAIN st.sessions : st.sessions[c].ready /\ st.sessions[c].inputs # << >>}

\* Those whose respawn request passes the cooldown.
Respawnable(st) ==
  {c \in Selected(st) :
     /\ "respawn" \in Head(st.sessions[c].inputs)
     /\ st.sessions[c].mode = "Spectating"
     /\ st.sessions[c].respawn = 0}

\* process_respawn_request: spawned gives each session that found a safe
\* position its new player.
Respawned(st, spawned) ==
  [sessions |-> [c \in DOMAIN st.sessions |->
                   IF c \in DOMAIN spawned
                   THEN [st.sessions[c] EXCEPT
                           !.mode = "Playing", !.pieces = {spawned[c]},
                           !.primary = spawned[c], !.follow = NoId, !.respawn = NoTick]
                   ELSE st.sessions[c]],
   players |-> [p \in DOMAIN st.players \cup Range(spawned) |->
                  IF p \in Range(spawned)
                  THEN st.sessions[CHOOSE c \in DOMAIN spawned : spawned[c] = p].owner
                  ELSE st.players[p]]]

\* The spawns of a tick: the map of sessions decides their order.
Spawns(st) ==
  UNION {{f \in [who -> nextEntity .. nextEntity + Cardinality(who) - 1] :
            IsInjective(f)} : who \in SUBSET Respawnable(st)}

\* Count the missing input of each playing session that has none, and restart
\* the count of those that have one.  Any count past InputHold has the same
\* effect, so it stays there.
Missed(session) == [session EXCEPT !.missing = IF @ > InputHold THEN @ ELSE @ + 1]
Counted(st) ==
  [st EXCEPT !.sessions = [c \in DOMAIN @ |->
     CASE c \in Selected(st) -> [@[c] EXCEPT !.missing = 0]
       [] c \notin Selected(st) /\ @[c].ready /\ @[c].mode = "Playing" ->
            Missed(@[c])
       [] OTHER -> @[c]]]

\* The owners the tick's commands name: every applied command of a playing
\* session, and a stop for those that went silent.
Commanded(st) ==
  {st.sessions[c].owner : c \in {d \in DOMAIN st.sessions :
     /\ st.sessions[d].ready /\ st.sessions[d].mode = "Playing"
     /\ d \in Selected(st) \/ st.sessions[d].missing > InputHold}}

Splitting(st) ==
  {st.sessions[c].owner : c \in {d \in Selected(st) :
     st.sessions[d].mode = "Playing" /\ "split" \in Head(st.sessions[d].inputs)}}

-----------------------------------------------------------------------------
(* step: World::advance.                                                   *)

\* A world in the middle of a tick: its players, the owners of all the tick
\* saw, the id of the next one, and the events so far.
World(st, next) ==
  [players |-> st.players, owners |-> st.players, next |-> next, journal |-> << >>]

Pieces(world, owner) == {p \in DOMAIN world : world[p] = owner}

Event(kind, subject, object) == [kind |-> kind, subject |-> subject, object |-> object]

\* advance_simulation resolves splits, then absorptions, merges and food.
Phase(e) ==
  CASE e.kind = "Split" -> 1
    [] e.kind = "Absorb" -> 2
    [] e.kind = "Merge" -> 3
    [] e.kind = "Food" -> 4

\* The split requests that may be granted next: to each piece the owner had
\* before, once.  The subject is the parent, the object its child.
Splits(world, splitting) ==
  LET touched == UNION {{e.subject, e.object} : e \in Range(world.journal)}
  IN {Event("Split", p, world.next) : p \in {q \in DOMAIN world.players \ touched :
        /\ world.players[q] \in splitting
        /\ Cardinality(Pieces(world.players, world.players[q])) < MaxPieces
        /\ world.next < InvalidEntity}}

\* Players that meet: one absorbs another owner's (the object), or one merges
\* with a piece of its owner into the one with the smaller id.
Meetings(w) ==
  {e \in {Event(k, p, q) : k \in {"Absorb", "Merge"}, p, q \in DOMAIN w} :
     IF e.kind = "Absorb" THEN w[e.subject] # w[e.object]
     ELSE w[e.subject] = w[e.object] /\ e.subject < e.object}

\* The events that may come next.
Possible(world, splitting) ==
  LET done == world.journal
      meals == {Event("Food", p, NoId) : p \in DOMAIN world.players}
  IN {e \in Splits(world, splitting) \cup Meetings(world.players) \cup meals :
        done # << >> => Phase(e) >= Phase(done[Len(done)])}

\* The world after an event: a split adds the child, an absorption or a merge
\* removes its object.
After(world, e) ==
  IF e.kind = "Split"
  THEN [players |-> With(world.players, e.object, world.owners[e.subject]),
        owners |-> With(world.owners, e.object, world.owners[e.subject]),
        next |-> world.next + 1, journal |-> Append(world.journal, e)]
  ELSE [world EXCEPT !.players = Restrict(@, DOMAIN @ \ {e.object}),
                     !.journal = Append(@, e)]

\* The outcomes of a tick with at most MaxEvents events.
Outcomes(start, splitting) ==
  LET outcomes[n \in 0 .. MaxEvents] ==
        IF n = 0 THEN {start}
        ELSE outcomes[n - 1] \cup
             UNION {{After(w, e) : e \in Possible(w, splitting)} :
                      w \in {v \in outcomes[n - 1] : Len(v.journal) = n - 1}}
  IN outcomes[MaxEvents]

-----------------------------------------------------------------------------
(* step: process_simulation_events.                                        *)

\* simulation_event_participants.
Participants(e, owners) ==
  {owners[e.subject]} \cup (IF e.kind = "Absorb" THEN {owners[e.object]} ELSE {})

\* A session loses a piece; heir is the next primary if that was the primary.
\* Absorbed to the last piece, the player spectates its killer.
WithoutPiece(session, piece, heir, killer) ==
  LET left == session.pieces \ {piece}
  IN IF left # {}
     THEN [session EXCEPT !.pieces = left,
                          !.primary = IF @ = piece THEN heir ELSE @]
     ELSE [session EXCEPT !.pieces = left, !.mode = "Spectating", !.primary = NoId,
                          !.follow = killer, !.respawn = Cooldown, !.missing = 0]

\* A participant's part in an event.
Involved(session, e, owners) ==
  CASE e.kind = "Split" -> [session EXCEPT !.pieces = @ \cup {e.object}]
    [] e.kind = "Absorb" /\ session.owner = owners[e.object] ->
         WithoutPiece(session, e.object, Min(session.pieces \ {e.object}), e.subject)
    [] e.kind = "Merge" -> WithoutPiece(session, e.object, e.subject, NoId)
    [] OTHER -> session

\* enqueue_authority_receipt: a full queue takes no more.
Receipted(session) ==
  [session EXCEPT !.receipts = IF @ < ReceiptCapacity THEN @ + 1 ELSE @]

\* One event: sessions change, and its participants get a receipt; full ones
\* are marked to be failed once the journal is through.
ProcessEvent(acc, e, owners) ==
  LET addressed == {c \in DOMAIN acc.sessions :
                      /\ acc.sessions[c].ready
                      /\ acc.sessions[c].owner \in Participants(e, owners)}
  IN [sessions |-> [c \in DOMAIN acc.sessions |->
                      IF c \in addressed
                      THEN Receipted(Involved(acc.sessions[c], e, owners))
                      ELSE acc.sessions[c]],
      overflowed |-> acc.overflowed \cup
                       {c \in addressed : acc.sessions[c].receipts = ReceiptCapacity}]

\* process_simulation_events up to the removal of the overflowed sessions.
Processed(st, journal, owners) ==
  LET after[i \in 0 .. Len(journal)] ==
        IF i = 0 THEN [sessions |-> st.sessions, overflowed |-> {}]
        ELSE ProcessEvent(after[i - 1], journal[i], owners)
  IN after[Len(journal)]

-----------------------------------------------------------------------------
(* step: acknowledge, refresh and send.                                    *)

\* One tick passes for the sessions' deadlines.
Older(session) ==
  [session EXCEPT !.idle = @ + 1, !.respawn = IF @ > 0 THEN @ - 1 ELSE @]
Aged(st) == [st EXCEPT !.sessions = [c \in DOMAIN @ |-> Older(@[c])]]

\* The applied commands leave their queues.
Shifted(session) == [session EXCEPT !.inputs = Tail(@)]
Acknowledged(st, selected) ==
  [st EXCEPT !.sessions = [c \in DOMAIN @ |->
     IF c \in selected THEN Shifted(@[c]) ELSE @[c]]]

\* refresh_follow_targets: a follow target that left the world is cleared.
Refreshed(st) ==
  [st EXCEPT !.sessions = [c \in DOMAIN @ |->
     IF @[c].mode = "Spectating" /\ @[c].follow \notin DOMAIN st.players
     THEN [@[c] EXCEPT !.follow = NoId] ELSE @[c]]]

\* protocol::validate as build_full_snapshot calls it: the recipient's part.
ValidSnapshot(session, world) ==
  /\ session.pieces \subseteq DOMAIN world
  /\ \A p, q \in session.pieces : world[p] = world[q]
  /\ session.follow # NoId => session.follow \in DOMAIN world
  /\ IF session.mode = "Playing"
     THEN /\ session.primary \in session.pieces
          /\ session.follow = NoId /\ session.respawn = NoTick
     ELSE /\ session.pieces = {} /\ session.primary = NoId
          /\ session.respawn = NoTick => session.follow = NoId

\* send_snapshot: an invalid snapshot is an error of the whole server, a failed
\* send (the connection was lost, its queue is full) removes the session.
SendSnapshot(acc, c, failing) ==
  IF acc.status # "running" \/ c \notin DOMAIN acc.st.sessions THEN acc
  ELSE IF ~ValidSnapshot(acc.st.sessions[c], acc.st.players)
       THEN [acc EXCEPT !.status = "InvalidWorldState"]
  ELSE IF c \in failing THEN [acc EXCEPT !.st = RemoveSessions(@, {c})]
  ELSE acc

\* The snapshots of an even tick, in the order of the session map.
Snapshots(st, order, failing) ==
  LET sent[i \in 0 .. Len(order)] ==
        IF i = 0 THEN [st |-> st, status |-> "running"]
        ELSE SendSnapshot(sent[i - 1], order[i], failing)
  IN sent[Len(order)]

Ready(st) == {c \in DOMAIN st.sessions : st.sessions[c].ready}

\* The rest of step once sessions and world have settled: every other tick,
\* snapshots, some of which may not go out.
Publish(settled) ==
  \/ ~oddTick /\ Become(settled)
  \/ /\ oddTick
     /\ \E order \in SetToSeqs(Ready(settled)), failing \in SUBSET Ready(settled) :
          LET sent == Snapshots(settled, order, failing)
          IN IF sent.status = "running" THEN Become(sent.st)
             ELSE /\ sessions' = sent.st.sessions /\ players' = sent.st.players
                  /\ server' = sent.status

\* What follows World::advance, given the tick's outcome: sessions_.at throws
\* for an applied command whose session was failed.
Finish(st, outcome) ==
  LET processed == Processed(st, outcome.journal, outcome.owners)
      lost == Selected(st) \cap processed.overflowed
      survived == RemoveSessions([sessions |-> processed.sessions,
                                  players |-> outcome.players], processed.overflowed)
  IN \/ /\ lost # {}
        /\ Stop("crashed")
     \/ /\ lost = {}
        /\ nextEntity' = outcome.next
        /\ oddTick' = ~oddTick
        /\ Publish(Refreshed(Acknowledged(survived, Selected(st))))
        /\ UNCHANGED nextOwner

\* What a tick's commands end the server with.
CommandError(st, next) ==
  IF \E c \in Selected(st) : /\ "respawn" \in Head(st.sessions[c].inputs)
                            /\ st.sessions[c].mode = "Spectating"
                            /\ st.sessions[c].respawn = NoTick
  THEN "InvalidWorldState"
  ELSE IF next > InvalidEntity THEN "EntityIdExhausted"
  ELSE IF ~(Commanded(st) \subseteq Range(st.players)) THEN "SimulationInputRejected"
  ELSE "running"

Step ==
  LET active == RemoveSessions(Current, Inactive)
  IN /\ server = "running"
     /\ \E spawned \in Spawns(active) :
          LET st == Counted(Respawned(active, spawned))
              next == nextEntity + Cardinality(DOMAIN spawned)
          IN \/ /\ CommandError(st, next) # "running"
                /\ Stop(CommandError(st, next))
             \/ /\ CommandError(st, next) = "running"
                /\ \E outcome \in Outcomes(World(st, next), Splitting(st)) :
                     Finish(Aged(st), outcome)

-----------------------------------------------------------------------------
SessionsInit ==
  /\ sessions = << >>
  /\ players = << >>
  /\ nextEntity = 0 /\ nextOwner = 0 /\ oddTick = FALSE
  /\ server = "running"

SessionsNext ==
  \/ \E c \in Connections : Connect(c) \/ Leave(c)
  \/ \E c \in Connections, role \in {"Player", "Spectator"}, safe \in BOOLEAN,
        sent \in BOOLEAN : Join(c, role, safe, sent)
  \/ \E c \in Connections, role \in {"Player", "Spectator"}, sent \in BOOLEAN :
       JoinAgain(c, role, sent)
  \/ \E c \in Connections, acknowledged \in 0 .. ReceiptCapacity :
       \E fresh \in {<< >>} \cup {<<a>> : a \in Actions} : Hear(c, fresh, acknowledged)
  \/ Step

SessionsSpec == SessionsInit /\ [][SessionsNext]_sessionVars

-----------------------------------------------------------------------------
(* Properties.                                                             *)

Sessions ==
  [ready : BOOLEAN, role : {"Player", "Spectator"}, owner : -1 .. InvalidOwner - 1,
   mode : {"Playing", "Spectating"}, pieces : SUBSET (0 .. InvalidEntity - 1),
   primary : -1 .. InvalidEntity - 1, follow : -1 .. InvalidEntity - 1,
   respawn : -1 .. Cooldown, inputs : Seq(Actions), missing : 0 .. InputHold + 1,
   idle : 0 .. LivenessTimeout + HandshakeTimeout, receipts : 0 .. ReceiptCapacity]

\* Types of the runtime's fields; idle has a bound because silent sessions are
\* removed.
SessionsTypeOK ==
  /\ DOMAIN sessions \subseteq Connections /\ Range(sessions) \subseteq Sessions
  /\ DOMAIN players \subseteq 0 .. nextEntity - 1 /\ Range(players) \subseteq 0 .. nextOwner - 1
  /\ nextEntity \in 0 .. InvalidEntity /\ nextOwner \in 0 .. InvalidOwner
  /\ oddTick \in BOOLEAN

\* Sessions and world agree on who plays: a session lists exactly the world's
\* players of its owner, among them its primary; it is Playing while it has
\* one and otherwise waits for a respawn; no player is left behind without a
\* session, whatever splits, absorptions, merges, respawns, timeouts and failed
\* sends came before.
OwnershipAgrees ==
  /\ \A c \in DOMAIN sessions :
       LET s == sessions[c]
       IN /\ s.pieces = IF s.owner = NoId THEN {} ELSE Pieces(players, s.owner)
          /\ s.owner # NoId <=> s.ready /\ s.role = "Player"
          /\ s.owner # NoId /\ s.mode = "Playing" =>
               s.primary \in s.pieces /\ s.respawn = NoTick
          /\ s.owner # NoId /\ s.mode = "Spectating" =>
               s.pieces = {} /\ s.respawn # NoTick
  /\ \A p \in DOMAIN players : \E c \in DOMAIN sessions : sessions[c].owner = players[p]
  /\ \A c, d \in DOMAIN sessions :
       sessions[c].owner = sessions[d].owner /\ sessions[c].owner # NoId => c = d

\* No tick is lost to a command: step never names an owner that is not in the
\* world, which would end the whole server with SimulationInputRejected.
CommandsAccepted == server # "SimulationInputRejected"

\* Sessions, owners and players stay in agreement, and no tick meets a command
\* of an owner without players.
SessionsSound == SessionsTypeOK /\ OwnershipAgrees /\ CommandsAccepted

\* A session whose receipts overflow is failed alone: the server goes on.
OverflowIsLocal == server # "crashed"

=============================================================================
