---------------------------- MODULE SessionProofs ----------------------------
(* Proofs about both ends of a player's session: the sessions of the server,  *)
(* for every set of connections and any number of players, whatever joins,    *)
(* leaves, splits, is absorbed, merges or respawns, and whichever sends fail; *)
(* then the prediction of a client, for every history capacity, number of     *)
(* epochs and order, loss and repetition of snapshots.                        *)
EXTENDS ServerSessions, ClientPrediction, SharedLemmas

-----------------------------------------------------------------------------
(* The server: sessions and players agree.                                 *)

\* One session and the world: what OwnershipAgrees says of it, and what keeps a
\* spectator's session from ever being given a command or a player.
Fits(session, place) ==
  /\ session.pieces = IF session.owner = NoId THEN {} ELSE Pieces(place, session.owner)
  /\ session.owner # NoId <=> session.ready /\ session.role = "Player"
  /\ session.owner # NoId /\ session.mode = "Playing"
       => session.primary \in session.pieces /\ session.respawn = NoTick
  /\ session.owner # NoId /\ session.mode = "Spectating"
       => session.pieces = {} /\ session.respawn # NoTick
  /\ session.owner = NoId => session.respawn = NoTick
  /\ session.owner = NoId /\ session.ready => session.mode = "Spectating"

SessionMap(s) ==
  DOMAIN s \subseteq Connections /\ IsFiniteSet(DOMAIN s) /\ s \in [DOMAIN s -> Sessions]
PlayerMap(w, free, owners) ==
  /\ w \in [DOMAIN w -> 0 .. owners - 1]
  /\ DOMAIN w \subseteq 0 .. free - 1 /\ free \in 0 .. InvalidEntity

\* Every player has a session, no two sessions share an owner, and none has one
\* that was not given out.
Owned(s, w, owners) ==
  /\ \A p \in DOMAIN w : \E c \in DOMAIN s : s[c].owner = w[p]
  /\ \A c, d \in DOMAIN s : s[c].owner = s[d].owner /\ s[c].owner # NoId => c = d
  /\ \A c \in DOMAIN s : s[c].owner < owners

\* Sessions and world agree at every step of a handler, given the next ids.
Agree(s, w, free, owners) ==
  /\ SessionMap(s) /\ PlayerMap(w, free, owners)
  /\ \A c \in DOMAIN s : Fits(s[c], w)
  /\ Owned(s, w, owners)
StateAgrees(st, free, owners) ==
  /\ st = [sessions |-> st.sessions, players |-> st.players]
  /\ Agree(st.sessions, st.players, free, owners)

SessionsInv ==
  /\ Agree(sessions, players, nextEntity, nextOwner)
  /\ nextOwner \in 0 .. InvalidOwner /\ oddTick \in BOOLEAN
  /\ CommandsAccepted

-----------------------------------------------------------------------------
(* Handlers that change sessions one by one, and leave the world alone.    *)

\* The session's owner stays, and the session still fits the world.
Replaces(new, old, w) == new \in Sessions /\ new.owner = old.owner /\ Fits(new, w)

\* Sessions and world still agree.
LEMMA PointwiseAgrees ==
  ASSUME NEW s, NEW w, NEW free, NEW owners, Agree(s, w, free, owners),
         NEW t, t = [c \in DOMAIN s |-> t[c]],
         \A c \in DOMAIN s : Replaces(t[c], s[c], w)
  PROVE  Agree(t, w, free, owners)
<1>1. DOMAIN t = DOMAIN s
  OBVIOUS
<1>2. SessionMap(t)
  BY <1>1 DEF Agree, SessionMap, Replaces
<1>3. \A c \in DOMAIN t : Fits(t[c], w) /\ t[c].owner = s[c].owner
  BY <1>1 DEF Replaces
<1>4. Owned(t, w, owners)
  BY <1>1, <1>3 DEF Agree, Owned
<1> QED
  BY <1>2, <1>3, <1>4 DEF Agree

\* The same for a handler of a whole state.
LEMMA StatePointwise ==
  ASSUME NEW st, NEW free, NEW owners, StateAgrees(st, free, owners),
         NEW t, t = [c \in DOMAIN st.sessions |-> t[c]],
         \A c \in DOMAIN st.sessions : Replaces(t[c], st.sessions[c], st.players)
  PROVE  /\ StateAgrees([st EXCEPT !.sessions = t], free, owners)
         /\ [st EXCEPT !.sessions = t].sessions = t
         /\ [st EXCEPT !.sessions = t].players = st.players
<1>1. [st EXCEPT !.sessions = t] = [sessions |-> t, players |-> st.players]
  BY DEF StateAgrees
<1>2. Agree(t, st.players, free, owners)
  BY PointwiseAgrees DEF StateAgrees
<1> QED
  BY <1>1, <1>2 DEF StateAgrees

\* What is known of one session of a state.
LEMMA SessionFacts ==
  ASSUME NEW s, NEW w, NEW free, NEW owners, Agree(s, w, free, owners),
         NEW c \in DOMAIN s
  PROVE  s[c] \in Sessions /\ Fits(s[c], w)
BY DEF Agree, SessionMap

\* Counting missing input.
LEMMA CountedAgrees ==
  ASSUME NEW st, NEW free, NEW owners, StateAgrees(st, free, owners),
         SessionsAssumption
  PROVE  /\ StateAgrees(Counted(st), free, owners)
         /\ DOMAIN Counted(st).sessions = DOMAIN st.sessions
         /\ \A c \in DOMAIN st.sessions :
              Counted(st).sessions[c].idle = st.sessions[c].idle
<1> DEFINE t == [c \in DOMAIN st.sessions |->
     CASE c \in Selected(st) -> [st.sessions[c] EXCEPT !.missing = 0]
       [] c \notin Selected(st) /\ st.sessions[c].ready
            /\ st.sessions[c].mode = "Playing" -> Missed(st.sessions[c])
       [] OTHER -> st.sessions[c]]
<1>1. ASSUME NEW x \in Sessions, Fits(x, st.players)
      PROVE  /\ Replaces([x EXCEPT !.missing = 0], x, st.players)
             /\ Replaces(Missed(x), x, st.players)
             /\ Replaces(x, x, st.players)
  <2>1. InputHold \in Nat
    BY DEF SessionsAssumption
  <2>2. \A v \in 0 .. InputHold + 1 : [x EXCEPT !.missing = v] \in Sessions
    BY <1>1 DEF Sessions
  <2>3. 0 \in 0 .. InputHold + 1
        /\ (IF x.missing > InputHold THEN x.missing ELSE x.missing + 1) \in 0 .. InputHold + 1
    BY <1>1, <2>1 DEF Sessions
  <2>4. /\ [x EXCEPT !.missing = 0] \in Sessions /\ Missed(x) \in Sessions
    BY <2>2, <2>3 DEF Missed
  <2> QED BY <1>1, <2>4 DEF Replaces, Fits, Missed, Sessions
<1>2. ASSUME NEW c \in DOMAIN st.sessions
      PROVE  Replaces(t[c], st.sessions[c], st.players) /\ t[c].idle = st.sessions[c].idle
  <2>1. st.sessions[c] \in Sessions /\ Fits(st.sessions[c], st.players)
    BY SessionFacts DEF StateAgrees
  <2>2. t[c] \in {[st.sessions[c] EXCEPT !.missing = 0], Missed(st.sessions[c]),
                  st.sessions[c]}
    OBVIOUS
  <2>3. \A v : [st.sessions[c] EXCEPT !.missing = v].idle = st.sessions[c].idle
    BY <2>1 DEF Sessions
  <2>4. t[c].idle = st.sessions[c].idle
    BY <2>2, <2>3 DEF Missed
  <2> QED BY <2>1, <2>2, <2>4, <1>1
<1>3. Counted(st) = [st EXCEPT !.sessions = t]
  BY DEF Counted
<1>4. t = [c \in DOMAIN st.sessions |-> t[c]]
  OBVIOUS
<1> HIDE DEF t
<1>5. /\ StateAgrees([st EXCEPT !.sessions = t], free, owners)
      /\ [st EXCEPT !.sessions = t].sessions = t
  BY <1>2, <1>4, StatePointwise
<1> QED
  BY <1>2, <1>3, <1>4, <1>5

\* One tick passes: a session that was not removed for its silence was last
\* heard less than a timeout ago.
LEMMA AgedAgrees ==
  ASSUME NEW st, NEW free, NEW owners, StateAgrees(st, free, owners),
         SessionsAssumption,
         \A c \in DOMAIN st.sessions :
           st.sessions[c].idle < LivenessTimeout + HandshakeTimeout
  PROVE  /\ StateAgrees(Aged(st), free, owners)
         /\ Aged(st).players = st.players
         /\ DOMAIN Aged(st).sessions = DOMAIN st.sessions
<1> DEFINE t == [c \in DOMAIN st.sessions |-> Older(st.sessions[c])]
<1>1. ASSUME NEW x \in Sessions, Fits(x, st.players),
             x.idle < LivenessTimeout + HandshakeTimeout
      PROVE  Replaces(Older(x), x, st.players)
  <2>1. Cooldown \in Nat /\ LivenessTimeout \in Nat /\ HandshakeTimeout \in Nat
    BY DEF SessionsAssumption
  <2> DEFINE i == x.idle + 1
             r == IF x.respawn > 0 THEN x.respawn - 1 ELSE x.respawn
  <2>2. i \in 0 .. LivenessTimeout + HandshakeTimeout
    BY <1>1, <2>1 DEF Sessions
  <2>3. r \in -1 .. Cooldown /\ (r = NoTick <=> x.respawn = NoTick)
    BY <1>1, <2>1 DEF Sessions, NoTick
  <2>4. Older(x) = [[x EXCEPT !.idle = i] EXCEPT !.respawn = r]
    BY <1>1 DEF Older, Sessions
  <2> HIDE DEF i, r
  <2>5. PICK y : y = [x EXCEPT !.idle = i]
    OBVIOUS
  <2>6. y \in Sessions
    BY <1>1, <2>2, <2>5 DEF Sessions
  <2>7. Older(x) = [y EXCEPT !.respawn = r]
    BY <2>4, <2>5
  <2>8. Older(x) \in Sessions
    BY <2>3, <2>6, <2>7 DEF Sessions
  <2> QED BY <1>1, <2>3, <2>5, <2>6, <2>7, <2>8 DEF Replaces, Fits, Sessions
<1>2. ASSUME NEW c \in DOMAIN st.sessions
      PROVE  Replaces(t[c], st.sessions[c], st.players)
  <2>1. st.sessions[c] \in Sessions /\ Fits(st.sessions[c], st.players)
    BY SessionFacts DEF StateAgrees
  <2> QED BY <2>1, <1>1
<1>3. Aged(st) = [st EXCEPT !.sessions = t]
  BY DEF Aged
<1>4. t = [c \in DOMAIN st.sessions |-> t[c]]
  OBVIOUS
<1>5. DOMAIN t = DOMAIN st.sessions
  OBVIOUS
<1> HIDE DEF t
<1>6. /\ StateAgrees(Aged(st), free, owners)
      /\ Aged(st).players = st.players /\ Aged(st).sessions = t
  <2>1. /\ StateAgrees([st EXCEPT !.sessions = t], free, owners)
        /\ [st EXCEPT !.sessions = t].sessions = t
        /\ [st EXCEPT !.sessions = t].players = st.players
    BY <1>2, <1>4, StatePointwise, Zenon
  <2> QED BY <1>3, <2>1
<1> QED
  BY <1>5, <1>6

\* The applied commands leave the queues that have them.
LEMMA AcknowledgedAgrees ==
  ASSUME NEW st, NEW free, NEW owners, StateAgrees(st, free, owners),
         NEW selected,
         \A c \in DOMAIN st.sessions : c \in selected => st.sessions[c].inputs # << >>
  PROVE  /\ StateAgrees(Acknowledged(st, selected), free, owners)
         /\ Acknowledged(st, selected).players = st.players
<1> DEFINE t == [c \in DOMAIN st.sessions |->
     IF c \in selected THEN Shifted(st.sessions[c]) ELSE st.sessions[c]]
<1>1. ASSUME NEW x \in Sessions, Fits(x, st.players)
      PROVE  /\ x.inputs # << >> => Replaces(Shifted(x), x, st.players)
             /\ Replaces(x, x, st.players)
  <2>1. x.inputs \in Seq(Actions)
    BY <1>1 DEF Sessions
  <2>2. ASSUME x.inputs # << >> PROVE Tail(x.inputs) \in Seq(Actions)
    BY <2>1, <2>2
  <2>3. x.inputs # << >> => Shifted(x) \in Sessions
    BY <1>1, <2>2 DEF Shifted, Sessions
  <2> QED BY <1>1, <2>3 DEF Replaces, Fits, Shifted, Sessions
<1>2. ASSUME NEW c \in DOMAIN st.sessions
      PROVE  Replaces(t[c], st.sessions[c], st.players)
  <2>1. st.sessions[c] \in Sessions /\ Fits(st.sessions[c], st.players)
    BY SessionFacts DEF StateAgrees
  <2>2. t[c] = IF c \in selected THEN Shifted(st.sessions[c]) ELSE st.sessions[c]
    OBVIOUS
  <2> QED BY <2>1, <2>2, <1>1
<1>3. Acknowledged(st, selected) = [st EXCEPT !.sessions = t]
  BY DEF Acknowledged
<1>4. t = [c \in DOMAIN st.sessions |-> t[c]]
  OBVIOUS
<1> HIDE DEF t
<1> QED
  BY <1>2, <1>3, <1>4, StatePointwise

\* A follow target that is gone is cleared.
LEMMA RefreshedAgrees ==
  ASSUME NEW st, NEW free, NEW owners, StateAgrees(st, free, owners),
         SessionsAssumption
  PROVE  /\ StateAgrees(Refreshed(st), free, owners)
         /\ Refreshed(st).players = st.players
<1> DEFINE t == [c \in DOMAIN st.sessions |->
     IF st.sessions[c].mode = "Spectating" /\ st.sessions[c].follow \notin DOMAIN st.players
     THEN [st.sessions[c] EXCEPT !.follow = NoId] ELSE st.sessions[c]]
<1>1. ASSUME NEW x \in Sessions, Fits(x, st.players)
      PROVE  /\ Replaces([x EXCEPT !.follow = NoId], x, st.players)
             /\ Replaces(x, x, st.players)
  <2>1. NoId \in -1 .. InvalidEntity - 1
    BY DEF NoId, SessionsAssumption
  <2>2. [x EXCEPT !.follow = NoId] \in Sessions
    BY <1>1, <2>1 DEF Sessions
  <2> QED BY <1>1, <2>2 DEF Replaces, Fits, Sessions
<1>2. ASSUME NEW c \in DOMAIN st.sessions
      PROVE  Replaces(t[c], st.sessions[c], st.players)
  <2>1. st.sessions[c] \in Sessions /\ Fits(st.sessions[c], st.players)
    BY SessionFacts DEF StateAgrees
  <2>2. t[c] \in {[st.sessions[c] EXCEPT !.follow = NoId], st.sessions[c]}
    OBVIOUS
  <2> QED BY <2>1, <2>2, <1>1
<1>3. Refreshed(st) = [st EXCEPT !.sessions = t]
  BY DEF Refreshed
<1>4. t = [c \in DOMAIN st.sessions |-> t[c]]
  OBVIOUS
<1> HIDE DEF t
<1> QED
  BY <1>2, <1>3, <1>4, StatePointwise

-----------------------------------------------------------------------------
(* Leaving.                                                                *)

\* Sessions that go take their players, and only theirs.
LEMMA RemoveSessionsAgrees ==
  ASSUME NEW st, NEW free, NEW owners, StateAgrees(st, free, owners),
         NEW gone, gone \subseteq DOMAIN st.sessions
  PROVE  /\ StateAgrees(RemoveSessions(st, gone), free, owners)
         /\ DOMAIN RemoveSessions(st, gone).sessions = DOMAIN st.sessions \ gone
         /\ \A c \in DOMAIN st.sessions \ gone :
              RemoveSessions(st, gone).sessions[c] = st.sessions[c]
<1> DEFINE s == st.sessions
           w == st.players
           removed == UNION {s[c].pieces : c \in gone}
           kept == DOMAIN s \ gone
           t == Restrict(s, kept)
           v == Restrict(w, DOMAIN w \ removed)
<1>1. RemoveSessions(st, gone) = [sessions |-> t, players |-> v]
  BY DEF RemoveSessions
<1>2. /\ SessionMap(s) /\ PlayerMap(w, free, owners) /\ Owned(s, w, owners)
      /\ \A c \in DOMAIN s : Fits(s[c], w)
  BY DEF StateAgrees, Agree
<1>3. DOMAIN t = kept /\ \A c \in kept : t[c] = s[c]
  BY DEF Restrict
<1>4. DOMAIN v = DOMAIN w \ removed /\ \A p \in DOMAIN v : v[p] = w[p]
  BY DEF Restrict
<1>5. \A p \in DOMAIN w : \A c \in DOMAIN s : s[c].owner = w[p] => p \in s[c].pieces
  <2> SUFFICES ASSUME NEW p \in DOMAIN w, NEW c \in DOMAIN s, s[c].owner = w[p]
               PROVE  p \in s[c].pieces
    OBVIOUS
  <2>1. w[p] # NoId
    BY <1>2 DEF PlayerMap, NoId
  <2> QED BY <1>2, <2>1 DEF Fits, Pieces
<1>6. ASSUME NEW p \in removed PROVE \E c \in gone : s[c].owner = w[p]
  <2>1. PICK c \in gone : p \in s[c].pieces
    OBVIOUS
  <2>2. c \in DOMAIN s /\ Fits(s[c], w)
    BY <1>2
  <2> HIDE DEF s, w
  <2>3. s[c].owner = w[p]
    BY <2>1, <2>2 DEF Fits, Pieces
  <2> QED BY <2>3
<1>7. \A p \in DOMAIN v : v[p] = w[p] /\ p \in DOMAIN w
        /\ \A c \in gone : s[c].owner # w[p]
  BY <1>4, <1>5
<1> HIDE DEF s, w, removed, kept, t, v
<1>8. kept \subseteq DOMAIN s /\ \A c \in DOMAIN s : c \in kept <=> c \notin gone
  BY DEF kept
<1>9. SessionMap(t)
  <2>1. IsFiniteSet(kept)
    BY <1>2, <1>8, FS_Subset DEF SessionMap
  <2>2. t = [c \in DOMAIN t |-> t[c]]
    BY DEF t, Restrict
  <2> QED BY <1>2, <1>3, <1>8, <2>1, <2>2 DEF SessionMap
<1>10. PlayerMap(v, free, owners)
  <2>1. v = [p \in DOMAIN v |-> v[p]]
    BY DEF v, Restrict
  <2> QED BY <1>2, <1>7, <2>1 DEF PlayerMap
<1>11. ASSUME NEW c \in DOMAIN t
       PROVE  Fits(t[c], v)
  <2>1. c \in DOMAIN s /\ c \notin gone /\ t[c] = s[c] /\ Fits(s[c], w)
    BY <1>2, <1>3, <1>8
  <2>2. ASSUME s[c].owner # NoId
        PROVE  Pieces(v, s[c].owner) = Pieces(w, s[c].owner)
    <3>1. ASSUME NEW p \in DOMAIN w, w[p] = s[c].owner
          PROVE  p \notin removed
      <4>1. ASSUME p \in removed PROVE FALSE
        <5>1. PICK d \in gone : s[d].owner = w[p]
          BY <1>6, <4>1
        <5>2. d \in DOMAIN s
          BY DEF s
        <5> QED BY <1>2, <2>1, <2>2, <3>1, <5>1, <5>2 DEF Owned
      <4> QED BY <4>1
    <3> QED BY <1>4, <3>1 DEF Pieces
  <2> QED BY <2>1, <2>2 DEF Fits
<1>12. Owned(t, v, owners)
  <2>1. ASSUME NEW p \in DOMAIN v PROVE \E c \in DOMAIN t : t[c].owner = v[p]
    <3>1. PICK c \in DOMAIN s : s[c].owner = w[p]
      BY <1>2, <1>7 DEF Owned
    <3>2. c \in kept
      BY <1>7, <1>8, <3>1
    <3> QED BY <1>3, <1>7, <3>1, <3>2
  <2>2. /\ \A c, d \in DOMAIN t : t[c].owner = t[d].owner /\ t[c].owner # NoId => c = d
        /\ \A c \in DOMAIN t : t[c].owner < owners
    BY <1>2, <1>3, <1>8 DEF Owned
  <2> QED BY <2>1, <2>2 DEF Owned
<1>13. Agree(t, v, free, owners)
  BY <1>9, <1>10, <1>11, <1>12 DEF Agree
<1> QED
  BY <1>1, <1>3, <1>13 DEF StateAgrees, s, kept

-----------------------------------------------------------------------------
(* Respawning.                                                             *)

\* Sessions that wait for a respawn get new players, one each.
LEMMA RespawnedAgrees ==
  ASSUME NEW st, NEW free, NEW owners, StateAgrees(st, free, owners),
         NEW after \in free .. InvalidEntity, SessionsAssumption, owners \in Nat,
         NEW who \in SUBSET Respawnable(st),
         NEW spawned \in [who -> free .. after - 1], IsInjective(spawned)
  PROVE  /\ StateAgrees(Respawned(st, spawned), after, owners)
         /\ DOMAIN Respawned(st, spawned).sessions = DOMAIN st.sessions
         /\ \A c \in DOMAIN st.sessions :
              Respawned(st, spawned).sessions[c].idle = st.sessions[c].idle
<1> DEFINE s == st.sessions
           w == st.players
           Placed(x, p) == [x EXCEPT !.mode = "Playing", !.pieces = {p},
                              !.primary = p, !.follow = NoId, !.respawn = NoTick]
           t == [c \in DOMAIN s |-> IF c \in DOMAIN spawned THEN Placed(s[c], spawned[c])
                                    ELSE s[c]]
           v == [p \in DOMAIN w \cup Range(spawned) |->
                  IF p \in Range(spawned)
                  THEN s[CHOOSE c \in DOMAIN spawned : spawned[c] = p].owner ELSE w[p]]
<1>1. Respawned(st, spawned) = [sessions |-> t, players |-> v]
  BY DEF Respawned
<1>2. /\ SessionMap(s) /\ PlayerMap(w, free, owners) /\ Owned(s, w, owners)
      /\ \A c \in DOMAIN s : Fits(s[c], w)
  BY DEF StateAgrees, Agree
<1>3. /\ free \in Nat /\ after \in Nat /\ InvalidEntity \in Nat
      /\ DOMAIN w \subseteq 0 .. free - 1 /\ w \in [DOMAIN w -> 0 .. owners - 1]
  BY <1>2 DEF PlayerMap, SessionsAssumption
<1>4. DOMAIN spawned = who
  OBVIOUS
<1>5. ASSUME NEW c \in who
      PROVE  /\ c \in DOMAIN s /\ s[c] \in Sessions /\ Fits(s[c], w)
             /\ s[c].owner \in 0 .. owners - 1 /\ s[c].mode = "Spectating"
             /\ s[c].pieces = {} /\ spawned[c] \in free .. after - 1
  <2>1. c \in DOMAIN s /\ s[c].mode = "Spectating" /\ s[c].respawn = 0
    BY DEF Respawnable, Selected
  <2>2. s[c] \in Sessions /\ Fits(s[c], w) /\ s[c].owner < owners
    BY <1>2, <2>1 DEF SessionMap, Owned
  <2>3. s[c].owner # NoId
    BY <2>1, <2>2 DEF Fits, NoTick
  <2>4. s[c].pieces = {}
    BY <2>1, <2>2, <2>3 DEF Fits
  <2>5. s[c].owner \in -1 .. InvalidOwner - 1
    BY <2>2 DEF Sessions
  <2>6. s[c].owner \in Int /\ s[c].owner >= -1 /\ s[c].owner # -1
    BY <2>3, <2>5 DEF NoId, SessionsAssumption
  <2>7. s[c].owner \in 0 .. owners - 1
    BY <2>2, <2>6
  <2> QED BY <2>1, <2>2, <2>4, <2>7
<1>6. ASSUME NEW c \in who
      PROVE  /\ spawned[c] \in DOMAIN v /\ v[spawned[c]] = s[c].owner
  <2>1. \A d \in who : spawned[d] = spawned[c] => d = c
    BY DEF IsInjective
  <2>2. spawned[c] \in Range(spawned)
    BY DEF Range
  <2>3. (CHOOSE d \in DOMAIN spawned : spawned[d] = spawned[c]) = c
    BY <2>1
  <2> QED BY <2>2, <2>3
<1>7. ASSUME NEW p \in DOMAIN w
      PROVE  p \in DOMAIN v /\ v[p] = w[p] /\ p \notin Range(spawned)
  <2>1. \A c \in who : spawned[c] # p
    BY <1>3, <1>5
  <2>2. p \notin Range(spawned)
    BY <2>1 DEF Range
  <2> QED BY <2>2
<1>8. \A p \in DOMAIN v : p \in DOMAIN w \/ \E c \in who : p = spawned[c]
  BY DEF Range
<1>9. /\ DOMAIN t = DOMAIN s
      /\ \A c \in DOMAIN s : t[c] = IF c \in who THEN Placed(s[c], spawned[c]) ELSE s[c]
  BY <1>4
<1> HIDE DEF Placed
<1>10. t = [c \in DOMAIN s |-> t[c]]
  OBVIOUS
<1>21. v = [p \in DOMAIN v |-> v[p]]
  OBVIOUS
<1> HIDE DEF s, w, t, v
<1>11. ASSUME NEW c \in who
       PROVE  /\ t[c] \in Sessions /\ t[c].owner = s[c].owner /\ t[c].idle = s[c].idle
              /\ t[c].pieces = {spawned[c]} /\ t[c].primary = spawned[c]
              /\ t[c].mode = "Playing" /\ t[c].respawn = NoTick
              /\ t[c].ready = s[c].ready /\ t[c].role = s[c].role
  <2>1. t[c] = Placed(s[c], spawned[c]) /\ s[c] \in Sessions
    BY <1>5, <1>9
  <2>2. /\ spawned[c] \in 0 .. InvalidEntity - 1 /\ spawned[c] \in -1 .. InvalidEntity - 1
        /\ NoId \in -1 .. InvalidEntity - 1 /\ NoTick \in -1 .. Cooldown
    BY <1>3, <1>5 DEF NoId, NoTick, SessionsAssumption
  <2>3. PICK x : x = [s[c] EXCEPT !.mode = "Playing"]
    OBVIOUS
  <2>4. PICK y : y = [x EXCEPT !.pieces = {spawned[c]}]
    OBVIOUS
  <2>5. PICK z : z = [y EXCEPT !.primary = spawned[c]]
    OBVIOUS
  <2>6. PICK f : f = [z EXCEPT !.follow = NoId]
    OBVIOUS
  <2>7. t[c] = [f EXCEPT !.respawn = NoTick]
    BY <2>1, <2>3, <2>4, <2>5, <2>6 DEF Placed, Sessions
  <2>8. /\ x \in Sessions /\ x.mode = "Playing"
        /\ x.owner = s[c].owner /\ x.idle = s[c].idle
        /\ x.ready = s[c].ready /\ x.role = s[c].role
    BY <2>1, <2>3 DEF Sessions
  <2>9. /\ y \in Sessions /\ y.mode = "Playing" /\ y.pieces = {spawned[c]}
        /\ y.owner = s[c].owner /\ y.idle = s[c].idle
        /\ y.ready = s[c].ready /\ y.role = s[c].role
    BY <2>2, <2>4, <2>8 DEF Sessions
  <2>10. /\ z \in Sessions /\ z.mode = "Playing" /\ z.pieces = {spawned[c]}
         /\ z.primary = spawned[c]
         /\ z.owner = s[c].owner /\ z.idle = s[c].idle
         /\ z.ready = s[c].ready /\ z.role = s[c].role
    BY <2>2, <2>5, <2>9 DEF Sessions
  <2>11. /\ f \in Sessions /\ f.mode = "Playing" /\ f.pieces = {spawned[c]}
         /\ f.primary = spawned[c]
         /\ f.owner = s[c].owner /\ f.idle = s[c].idle
         /\ f.ready = s[c].ready /\ f.role = s[c].role
    BY <2>2, <2>6, <2>10 DEF Sessions
  <2> QED BY <2>2, <2>7, <2>11 DEF Sessions
<1>12. SessionMap(t)
  BY <1>2, <1>9, <1>10, <1>11 DEF SessionMap
<1>13. PlayerMap(v, after, owners)
  <2>1. ASSUME NEW p \in DOMAIN v PROVE p \in 0 .. after - 1 /\ v[p] \in 0 .. owners - 1
    <3>1. CASE p \in DOMAIN w
      BY <1>3, <1>7, <3>1
    <3>2. CASE \E c \in who : p = spawned[c]
      BY <1>3, <1>5, <1>6, <3>2
    <3> QED BY <1>8, <3>1, <3>2
  <2> QED BY <1>3, <1>21, <2>1 DEF PlayerMap
<1>14. ASSUME NEW c \in DOMAIN s
       PROVE  t[c].owner = s[c].owner /\ t[c].idle = s[c].idle
  BY <1>9, <1>11
<1>15. Owned(t, v, owners)
  <2>1. ASSUME NEW p \in DOMAIN v PROVE \E c \in DOMAIN t : t[c].owner = v[p]
    <3>1. CASE p \in DOMAIN w
      BY <1>2, <1>7, <1>9, <1>14, <3>1 DEF Owned
    <3>2. CASE \E c \in who : p = spawned[c]
      BY <1>5, <1>6, <1>9, <1>14, <3>2
    <3> QED BY <1>8, <3>1, <3>2
  <2> QED BY <1>2, <1>9, <1>14, <2>1 DEF Owned
<1>16. ASSUME NEW c \in who
       PROVE  Fits(t[c], v)
  <2>1. s[c].owner # NoId
    BY <1>3, <1>5 DEF NoId
  <2>2. \A p \in DOMAIN w : w[p] # s[c].owner
    BY <1>5, <2>1 DEF Fits, Pieces
  <2>3. \A d \in who : s[d].owner = s[c].owner => d = c
    BY <1>2, <1>5, <2>1 DEF Owned
  <2>4. Pieces(v, s[c].owner) = {spawned[c]}
    <3>1. ASSUME NEW p \in DOMAIN v, v[p] = s[c].owner PROVE p = spawned[c]
      <4>1. p \notin DOMAIN w
        BY <1>7, <2>2, <3>1
      <4>2. PICK d \in who : p = spawned[d]
        BY <1>8, <4>1
      <4> QED BY <1>6, <2>3, <3>1, <4>2
    <3> QED BY <1>6, <3>1 DEF Pieces
  <2>5. s[c].ready /\ s[c].role = "Player"
    BY <1>5, <2>1 DEF Fits
  <2> QED BY <1>11, <2>1, <2>4, <2>5 DEF Fits
<1>17. ASSUME NEW c \in DOMAIN s, c \notin who
       PROVE  Fits(t[c], v)
  <2>1. t[c] = s[c] /\ Fits(s[c], w)
    BY <1>2, <1>9, <1>17
  <2>2. ASSUME s[c].owner # NoId
        PROVE  Pieces(v, s[c].owner) = Pieces(w, s[c].owner)
    <3>1. \A d \in who : s[d].owner # s[c].owner
      BY <1>2, <1>5, <1>17, <2>2 DEF Owned
    <3>2. \A p \in DOMAIN v : v[p] = s[c].owner => p \in DOMAIN w
      BY <1>6, <1>8, <3>1
    <3> QED BY <1>7, <3>2 DEF Pieces
  <2> QED BY <2>1, <2>2 DEF Fits
<1>18. Agree(t, v, after, owners)
  BY <1>9, <1>12, <1>13, <1>15, <1>16, <1>17 DEF Agree
<1>19. /\ Respawned(st, spawned).sessions = t /\ Respawned(st, spawned).players = v
       /\ Respawned(st, spawned) = [sessions |-> Respawned(st, spawned).sessions,
                                    players |-> Respawned(st, spawned).players]
  BY <1>1
<1>20. StateAgrees(Respawned(st, spawned), after, owners)
  BY <1>18, <1>19 DEF StateAgrees
<1> QED
  BY <1>9, <1>14, <1>19, <1>20 DEF s

-----------------------------------------------------------------------------
(* One event of the simulation, as a session sees it.                      *)

\* The session keeps its owner and its queue, and fits the new world.
Follows(new, old, w) == Replaces(new, old, w) /\ new.inputs = old.inputs

\* A session none of whose players an event touches fits the world after it.
LEMMA UntouchedFollows ==
  ASSUME NEW x \in Sessions, NEW w, NEW v, Fits(x, w),
         x.owner # NoId => Pieces(v, x.owner) = Pieces(w, x.owner)
  PROVE  Follows(x, x, v)
BY DEF Follows, Replaces, Fits

\* A receipt changes nothing but their number.
LEMMA ReceiptedFollows ==
  ASSUME NEW x \in Sessions, NEW old, NEW w, Follows(x, old, w), SessionsAssumption
  PROVE  Follows(Receipted(x), old, w)
<1> DEFINE n == IF x.receipts < ReceiptCapacity THEN x.receipts + 1 ELSE x.receipts
<1>1. n \in 0 .. ReceiptCapacity
  BY DEF Sessions, SessionsAssumption
<1>2. Receipted(x) = [x EXCEPT !.receipts = n]
  BY DEF Receipted
<1> HIDE DEF n
<1> QED
  BY <1>1, <1>2 DEF Follows, Replaces, Fits, Sessions

\* A session with a player is playing.
LEMMA HasPieces ==
  ASSUME NEW x \in Sessions, NEW w, Fits(x, w), NEW p \in DOMAIN w, x.owner = w[p],
         w[p] # NoId
  PROVE  /\ p \in x.pieces /\ x.mode = "Playing" /\ x.pieces = Pieces(w, x.owner)
         /\ x.primary \in x.pieces /\ x.respawn = NoTick
         /\ x.ready /\ x.role = "Player"
BY DEF Fits, Pieces, Sessions

\* A split gives the session the child.
LEMMA SplitFollows ==
  ASSUME NEW x \in Sessions, NEW w, Fits(x, w), NEW p \in DOMAIN w, x.owner = w[p],
         w[p] # NoId, NEW q \in 0 .. InvalidEntity - 1
  PROVE  Follows([x EXCEPT !.pieces = @ \cup {q}], x, With(w, q, w[p]))
<1> DEFINE v == With(w, q, w[p])
           y == [x EXCEPT !.pieces = @ \cup {q}]
<1>1. /\ p \in x.pieces /\ x.mode = "Playing" /\ x.pieces = Pieces(w, x.owner)
      /\ x.primary \in x.pieces /\ x.respawn = NoTick
      /\ x.ready /\ x.role = "Player"
  BY HasPieces
<1>2. Pieces(v, x.owner) = x.pieces \cup {q}
  BY <1>1 DEF Pieces, With
<1> HIDE DEF v
<1>3. y \in Sessions /\ y.pieces = x.pieces \cup {q}
  BY DEF Sessions
<1>4. /\ y.owner = x.owner /\ y.mode = x.mode /\ y.ready = x.ready /\ y.role = x.role
      /\ y.primary = x.primary /\ y.respawn = x.respawn /\ y.inputs = x.inputs
  BY DEF Sessions
<1> HIDE DEF y
<1>5. Follows(y, x, v)
  BY <1>1, <1>2, <1>3, <1>4 DEF Follows, Replaces, Fits
<1> QED
  BY <1>5 DEF v, y

\* A session that loses a player has another primary, or spectates.
LEMMA WithoutPieceFollows ==
  ASSUME NEW x \in Sessions, NEW w, Fits(x, w), NEW q \in DOMAIN w, x.owner = w[q],
         w[q] # NoId, SessionsAssumption,
         NEW heir, x.pieces \ {q} # {} => heir \in x.pieces \ {q},
         NEW killer \in -1 .. InvalidEntity - 1
  PROVE  Follows(WithoutPiece(x, q, heir, killer), x, Restrict(w, DOMAIN w \ {q}))
<1> DEFINE v == Restrict(w, DOMAIN w \ {q})
           y == WithoutPiece(x, q, heir, killer)
           left == x.pieces \ {q}
<1>1. /\ q \in x.pieces /\ x.mode = "Playing" /\ x.pieces = Pieces(w, x.owner)
      /\ x.primary \in x.pieces /\ x.respawn = NoTick
      /\ x.ready /\ x.role = "Player"
  BY HasPieces
<1>2. Pieces(v, x.owner) = left
  BY <1>1 DEF Pieces, Restrict
<1>3. left \subseteq 0 .. InvalidEntity - 1
  BY DEF Sessions
<1> HIDE DEF v, left
<1>4. CASE left # {}
  <2> DEFINE h == IF x.primary = q THEN heir ELSE x.primary
  <2>1. h \in left /\ h \in -1 .. InvalidEntity - 1
    <3>1. h \in left
      BY <1>1, <1>4 DEF left
    <3>2. 0 .. InvalidEntity - 1 \subseteq -1 .. InvalidEntity - 1
      BY DEF SessionsAssumption
    <3> HIDE DEF h
    <3> QED BY <1>3, <3>1, <3>2
  <2>2. y = [x EXCEPT !.pieces = left, !.primary = h]
    BY <1>4 DEF WithoutPiece, left
  <2> HIDE DEF h, y
  <2>3. PICK z : z = [x EXCEPT !.pieces = left]
    OBVIOUS
  <2>4. y = [z EXCEPT !.primary = h]
    BY <2>2, <2>3 DEF Sessions
  <2>5. /\ z \in Sessions /\ z.pieces = left /\ z.owner = x.owner
        /\ z.mode = x.mode /\ z.ready = x.ready /\ z.role = x.role
        /\ z.respawn = x.respawn /\ z.inputs = x.inputs
    BY <1>3, <2>3 DEF Sessions
  <2>6. /\ y \in Sessions /\ y.pieces = left /\ y.primary = h /\ y.owner = x.owner
        /\ y.mode = x.mode /\ y.ready = x.ready /\ y.role = x.role
        /\ y.respawn = x.respawn /\ y.inputs = x.inputs
    BY <2>1, <2>4, <2>5 DEF Sessions
  <2> QED BY <1>1, <1>2, <2>1, <2>6 DEF Follows, Replaces, Fits, v, y
<1>5. CASE left = {}
  <2>1. y = [x EXCEPT !.pieces = left, !.mode = "Spectating", !.primary = NoId,
                      !.follow = killer, !.respawn = Cooldown, !.missing = 0]
    BY <1>5 DEF WithoutPiece, left
  <2>2. /\ NoId \in -1 .. InvalidEntity - 1 /\ Cooldown \in -1 .. Cooldown
        /\ Cooldown # NoTick /\ 0 \in 0 .. InputHold + 1
    BY DEF NoId, NoTick, SessionsAssumption
  <2> HIDE DEF y
  <2>3. PICK a : a = [x EXCEPT !.pieces = left, !.mode = "Spectating"]
    OBVIOUS
  <2>4. PICK b : b = [a EXCEPT !.primary = NoId, !.follow = killer]
    OBVIOUS
  <2>5. y = [b EXCEPT !.respawn = Cooldown, !.missing = 0]
    BY <2>1, <2>3, <2>4 DEF Sessions
  <2>6. /\ a \in Sessions /\ a.pieces = left /\ a.mode = "Spectating"
        /\ a.owner = x.owner /\ a.ready = x.ready /\ a.role = x.role
        /\ a.inputs = x.inputs
    BY <1>3, <2>3 DEF Sessions
  <2>7. /\ b \in Sessions /\ b.pieces = left /\ b.mode = "Spectating"
        /\ b.owner = x.owner /\ b.ready = x.ready /\ b.role = x.role
        /\ b.inputs = x.inputs
    BY <2>2, <2>4, <2>6 DEF Sessions
  <2>8. /\ y \in Sessions /\ y.pieces = left /\ y.mode = "Spectating"
        /\ y.owner = x.owner /\ y.ready = x.ready /\ y.role = x.role
        /\ y.inputs = x.inputs /\ y.respawn = Cooldown
    BY <2>2, <2>5, <2>7 DEF Sessions
  <2> QED BY <1>1, <1>2, <1>5, <2>2, <2>8 DEF Follows, Replaces, Fits, v, y
<1> QED
  BY <1>4, <1>5

-----------------------------------------------------------------------------
(* One event of the simulation, for all sessions.                          *)

Extends(f, g) == DOMAIN g \subseteq DOMAIN f /\ \A x \in DOMAIN g : f[x] = g[x]

EventRecords ==
  [kind : {"Split", "Absorb", "Merge", "Food"}, subject : Int, object : Int]

\* What advance_simulation may report of the players w.
Happens(e, w, free) ==
  /\ e \in EventRecords /\ e.subject \in DOMAIN w
  /\ e.kind = "Split" => e.object = free /\ free < InvalidEntity
  /\ e.kind = "Absorb" => e.object \in DOMAIN w /\ w[e.subject] # w[e.object]
  /\ e.kind = "Merge" =>
       /\ e.object \in DOMAIN w /\ w[e.subject] = w[e.object]
       /\ e.subject # e.object
  /\ e.kind = "Food" => e.object = NoId

\* The players after an event, and the next id.
PlayersAfter(e, w) ==
  IF e.kind = "Split" THEN With(w, e.object, w[e.subject])
  ELSE Restrict(w, DOMAIN w \ {e.object})
NextAfter(e, free) == IF e.kind = "Split" THEN free + 1 ELSE free

\* What an event makes of one session.
SessionAfter(x, e, o) ==
  IF x.ready /\ x.owner \in Participants(e, o)
  THEN Receipted(Involved(x, e, o)) ELSE x

\* Every session follows an event: the one that splits, the ones that meet, and
\* those it does not touch.
LEMMA EventFollows ==
  ASSUME NEW s, NEW w, NEW free, NEW given, Agree(s, w, free, given),
         SessionsAssumption, NEW e, Happens(e, w, free), NEW o, Extends(o, w),
         NEW c \in DOMAIN s
  PROVE  Follows(SessionAfter(s[c], e, o), s[c], PlayersAfter(e, w))
<1> DEFINE p == e.subject
           q == e.object
           v == PlayersAfter(e, w)
<1>1. PICK x : x = s[c]
  OBVIOUS
<1>2. x \in Sessions /\ Fits(x, w)
  BY <1>1, SessionFacts
<1>3. /\ p \in DOMAIN w /\ o[p] = w[p] /\ w[p] # NoId
      /\ \A r \in DOMAIN w : r \in 0 .. InvalidEntity - 1 /\ r # NoId /\ w[r] # NoId
  <2>1. /\ w \in [DOMAIN w -> 0 .. given - 1] /\ free \in 0 .. InvalidEntity
        /\ DOMAIN w \subseteq 0 .. free - 1 /\ InvalidEntity \in Nat
    BY DEF Agree, PlayerMap, SessionsAssumption
  <2>2. \A r \in DOMAIN w : r \in 0 .. InvalidEntity - 1 /\ r # NoId /\ w[r] # NoId
    BY <2>1 DEF NoId
  <2>3. p \in DOMAIN w /\ o[p] = w[p]
    BY DEF Happens, Extends
  <2> QED BY <2>2, <2>3
<1>4. e.kind \in {"Split", "Absorb", "Merge", "Food"}
  BY DEF Happens, EventRecords
<1>5. ASSUME NEW r \in DOMAIN w, x.owner = w[r]
      PROVE  x.ready /\ r \in x.pieces
  BY <1>2, <1>3, <1>5, HasPieces
<1>6. CASE e.kind = "Split"
  <2>1. /\ v = With(w, q, w[p]) /\ q \in 0 .. InvalidEntity - 1 /\ q \notin DOMAIN w
    <3>1. q = free /\ free < InvalidEntity /\ free \in 0 .. InvalidEntity
          /\ DOMAIN w \subseteq 0 .. free - 1
      BY <1>6 DEF Happens, Agree, PlayerMap
    <3>2. InvalidEntity \in Nat
      BY DEF SessionsAssumption
    <3> QED BY <1>6, <3>1, <3>2 DEF PlayersAfter
  <2>2. Participants(e, o) = {w[p]}
    BY <1>3, <1>6 DEF Participants
  <2>3. CASE x.owner = w[p]
    <3>1. Follows([x EXCEPT !.pieces = @ \cup {q}], x, v)
      BY <1>2, <1>3, <2>1, <2>3, SplitFollows
    <3>2. Involved(x, e, o) = [x EXCEPT !.pieces = @ \cup {q}]
      BY <1>6 DEF Involved
    <3>3. Involved(x, e, o) \in Sessions
      BY <3>1, <3>2 DEF Follows, Replaces
    <3>4. Follows(Receipted(Involved(x, e, o)), x, v)
      BY <3>1, <3>2, <3>3, ReceiptedFollows
    <3> QED BY <1>1, <1>3, <1>5, <2>2, <2>3, <3>4 DEF SessionAfter
  <2>4. CASE x.owner # w[p]
    <3>1. Pieces(v, x.owner) = Pieces(w, x.owner)
      BY <2>1, <2>4 DEF With, Pieces
    <3>2. Follows(x, x, v)
      BY <1>2, <3>1, UntouchedFollows
    <3> QED BY <1>1, <2>2, <2>4, <3>2 DEF SessionAfter
  <2> QED BY <2>3, <2>4
<1>7. CASE e.kind \in {"Absorb", "Merge"} /\ x.owner = w[q]
  <2>1. q \in DOMAIN w /\ o[q] = w[q] /\ w[q] # NoId /\ p # q
    BY <1>3, <1>7 DEF Happens, Extends
  <2>2. v = Restrict(w, DOMAIN w \ {q})
    BY <1>7 DEF PlayersAfter
  <2> HIDE DEF v
  <2>3. x.ready /\ x.owner \in Participants(e, o)
    <3>1. e.kind = "Merge" => w[p] = w[q]
      BY DEF Happens
    <3> QED BY <1>3, <1>5, <1>7, <2>1, <3>1 DEF Participants
  <2>4. \A heir : \A killer \in -1 .. InvalidEntity - 1 :
          (x.pieces \ {q} # {} => heir \in x.pieces \ {q})
            => Follows(WithoutPiece(x, q, heir, killer), x, v)
    <3> SUFFICES ASSUME NEW heir, x.pieces \ {q} # {} => heir \in x.pieces \ {q},
                        NEW killer \in -1 .. InvalidEntity - 1
                 PROVE  Follows(WithoutPiece(x, q, heir, killer), x, v)
      OBVIOUS
    <3>1. q \in DOMAIN w /\ x.owner = w[q] /\ w[q] # NoId /\ Fits(x, w)
      BY <1>2, <1>7, <2>1
    <3>2. Follows(WithoutPiece(x, q, heir, killer), x, Restrict(w, DOMAIN w \ {q}))
      <4> HIDE DEF q
      <4> QED BY <1>2, <3>1, WithoutPieceFollows
    <3> QED BY <2>2, <3>2
  <2>5. Follows(Involved(x, e, o), x, v)
    <3>1. CASE e.kind = "Absorb"
      <4>1. Involved(x, e, o) = WithoutPiece(x, q, Min(x.pieces \ {q}), p)
        BY <1>7, <2>1, <3>1 DEF Involved
      <4>2. x.pieces \ {q} \in SUBSET Nat
        BY <1>2 DEF Sessions
      <4>3. x.pieces \ {q} # {} => Min(x.pieces \ {q}) \in x.pieces \ {q}
        BY <4>2, NatMinIs
      <4>4. p \in -1 .. InvalidEntity - 1
        BY <1>3 DEF SessionsAssumption
      <4> QED BY <2>4, <4>1, <4>3, <4>4
    <3>2. CASE e.kind = "Merge"
      <4>1. Involved(x, e, o) = WithoutPiece(x, q, p, NoId)
        BY <3>2 DEF Involved
      <4>2. w[p] = w[q]
        BY <3>2 DEF Happens
      <4>3. p \in x.pieces \ {q}
        BY <1>3, <1>5, <1>7, <2>1, <4>2
      <4>4. NoId \in -1 .. InvalidEntity - 1
        BY DEF NoId, SessionsAssumption
      <4> QED BY <2>4, <4>1, <4>3, <4>4
    <3> QED BY <1>7, <3>1, <3>2
  <2>6. Involved(x, e, o) \in Sessions
    BY <2>5 DEF Follows, Replaces
  <2>7. Follows(Receipted(Involved(x, e, o)), x, v)
    BY <2>5, <2>6, ReceiptedFollows
  <2> QED BY <1>1, <2>3, <2>7 DEF SessionAfter, v
<1>8. CASE \/ e.kind = "Food"
           \/ e.kind \in {"Absorb", "Merge"} /\ x.owner # w[q]
  <2>1. v = Restrict(w, DOMAIN w \ {q})
    BY <1>8 DEF PlayersAfter
  <2>2. e.kind = "Food" => q \notin DOMAIN w
    BY <1>3 DEF Happens
  <2>3. Pieces(v, x.owner) = Pieces(w, x.owner)
    BY <1>8, <2>1, <2>2 DEF Restrict, Pieces
  <2>4. Follows(x, x, v)
    BY <1>2, <2>3, UntouchedFollows
  <2>5. CASE x.owner \notin Participants(e, o)
    BY <1>1, <2>4, <2>5 DEF SessionAfter
  <2>6. CASE x.owner \in Participants(e, o)
    <3>1. e.kind \in {"Absorb", "Merge"} => q \in DOMAIN w /\ o[q] = w[q]
      BY DEF Happens, Extends
    <3>2. ~(e.kind = "Merge")
      <4>1. e.kind = "Merge" => w[p] = w[q]
        BY DEF Happens
      <4> QED BY <1>3, <1>8, <2>6, <4>1 DEF Participants
    <3>3. Involved(x, e, o) = x
      BY <1>4, <1>8, <3>1, <3>2 DEF Involved
    <3>4. Follows(Receipted(x), x, v)
      BY <1>2, <2>4, ReceiptedFollows
    <3> QED BY <1>1, <2>4, <3>3, <3>4 DEF SessionAfter
  <2> QED BY <2>5, <2>6
<1>9. \/ e.kind = "Split"
      \/ e.kind \in {"Absorb", "Merge"} /\ x.owner = w[q]
      \/ e.kind = "Food"
      \/ e.kind \in {"Absorb", "Merge"} /\ x.owner # w[q]
  BY <1>4
<1> QED
  BY <1>6, <1>7, <1>8, <1>9, Zenon

\* The players after an event are players of the same sessions.
LEMMA EventPlayers ==
  ASSUME NEW w, NEW free, NEW given, PlayerMap(w, free, given), given \in Nat,
         SessionsAssumption, NEW e, Happens(e, w, free)
  PROVE  /\ PlayerMap(PlayersAfter(e, w), NextAfter(e, free), given)
         /\ \A r \in DOMAIN PlayersAfter(e, w) :
              \E p \in DOMAIN w : PlayersAfter(e, w)[r] = w[p]
<1>1. /\ w \in [DOMAIN w -> 0 .. given - 1] /\ DOMAIN w \subseteq 0 .. free - 1
      /\ free \in 0 .. InvalidEntity /\ InvalidEntity \in Nat
      /\ e.subject \in DOMAIN w
  BY DEF PlayerMap, SessionsAssumption, Happens
<1> DEFINE v == PlayersAfter(e, w)
<1>2. CASE e.kind = "Split"
  <2>1. v = With(w, free, w[e.subject]) /\ free < InvalidEntity
    BY <1>2 DEF PlayersAfter, Happens
  <2>2. NextAfter(e, free) = free + 1
    BY <1>2 DEF NextAfter
  <2>3. v \in [DOMAIN w \cup {free} -> 0 .. given - 1]
    BY <1>1, <2>1 DEF With
  <2>4. \A r \in DOMAIN v : \E p \in DOMAIN w : v[r] = w[p]
    BY <1>1, <2>1 DEF With
  <2> HIDE DEF v
  <2>5. PlayerMap(v, free + 1, given)
    BY <1>1, <2>1, <2>3 DEF PlayerMap
  <2> QED BY <2>2, <2>4, <2>5 DEF v
<1>3. CASE e.kind # "Split"
  <2>1. v = Restrict(w, DOMAIN w \ {e.object}) /\ NextAfter(e, free) = free
    BY <1>3 DEF PlayersAfter, NextAfter
  <2>2. v \in [DOMAIN w \ {e.object} -> 0 .. given - 1]
    BY <1>1, <2>1 DEF Restrict
  <2>3. \A r \in DOMAIN v : r \in DOMAIN w /\ v[r] = w[r]
    BY <2>1 DEF Restrict
  <2> HIDE DEF v
  <2>4. PlayerMap(v, free, given)
    BY <1>1, <2>2 DEF PlayerMap
  <2> QED BY <2>1, <2>3, <2>4 DEF v
<1> QED
  BY <1>2, <1>3

\* process_simulation_events for one event.
EventDone(r, acc, e, w, free, given) ==
  /\ Agree(r.sessions, PlayersAfter(e, w), NextAfter(e, free), given)
  /\ DOMAIN r.sessions = DOMAIN acc.sessions
  /\ \A c \in DOMAIN acc.sessions : r.sessions[c].inputs = acc.sessions[c].inputs
  /\ r.overflowed \subseteq DOMAIN acc.sessions

\* The sessions the event leaves agree with the players it leaves.
LEMMA ProcessEventAgrees ==
  ASSUME NEW acc, NEW w, NEW free, NEW given \in Nat,
         Agree(acc.sessions, w, free, given),
         acc.overflowed \subseteq DOMAIN acc.sessions,
         SessionsAssumption, NEW e, Happens(e, w, free), NEW o, Extends(o, w)
  PROVE  EventDone(ProcessEvent(acc, e, o), acc, e, w, free, given)
<1> DEFINE r == ProcessEvent(acc, e, o)
           s == acc.sessions
           t == r.sessions
           v == PlayersAfter(e, w)
<1>1. t = [c \in DOMAIN s |-> SessionAfter(s[c], e, o)]
  BY DEF ProcessEvent, SessionAfter
<1>2. r.overflowed \subseteq DOMAIN s
  BY DEF ProcessEvent
<1>3. ASSUME NEW c \in DOMAIN s
      PROVE  /\ t[c] \in Sessions /\ t[c].owner = s[c].owner /\ Fits(t[c], v)
             /\ t[c].inputs = s[c].inputs
  <2>1. Follows(SessionAfter(s[c], e, o), s[c], v)
    BY EventFollows
  <2>2. t[c] = SessionAfter(s[c], e, o)
    BY <1>1
  <2> QED BY <2>1, <2>2 DEF Follows, Replaces
<1>4. SessionMap(s) /\ PlayerMap(w, free, given) /\ Owned(s, w, given)
  BY DEF Agree
<1>5. /\ PlayerMap(v, NextAfter(e, free), given)
      /\ \A x \in DOMAIN v : \E p \in DOMAIN w : v[x] = w[p]
  BY <1>4, EventPlayers
<1> HIDE DEF r, s, t, v
<1>6. DOMAIN t = DOMAIN s /\ t = [c \in DOMAIN s |-> t[c]]
  BY <1>1
<1>7. SessionMap(t)
  BY <1>3, <1>4, <1>6 DEF SessionMap
<1>8. Owned(t, v, given)
  BY <1>3, <1>4, <1>5, <1>6 DEF Owned
<1>9. Agree(t, v, NextAfter(e, free), given)
  BY <1>3, <1>5, <1>6, <1>7, <1>8 DEF Agree
<1> QED
  BY <1>2, <1>3, <1>6, <1>9 DEF EventDone, r, s, t, v

-----------------------------------------------------------------------------
(* The journal of a tick.                                                  *)

\* The loop over the journal computes each state from the last.
FollowsJournal(after, st, journal, o) ==
  after = [i \in 0 .. Len(journal) |->
             IF i = 0 THEN [sessions |-> st.sessions, overflowed |-> {}]
             ELSE ProcessEvent(after[i - 1], journal[i], o)]

\* The recursive definition of that loop has a solution.
LEMMA ProcessedEquation ==
  ASSUME NEW st, NEW journal, Len(journal) \in Nat, NEW o
  PROVE  \E after : /\ FollowsJournal(after, st, journal, o)
                    /\ Processed(st, journal, o) = after[Len(journal)]
<1> DEFINE start == [sessions |-> st.sessions, overflowed |-> {}]
           Following(acc, i) == ProcessEvent(acc, journal[i], o)
           Solves(f, n) == f = [i \in 0 .. n |->
             IF i = 0 THEN start ELSE Following(f[i - 1], i)]
           S == {n \in Nat : \E f : Solves(f, n)}
<1> HIDE DEF Following, start
<1>1. 0 \in S
  <2> DEFINE f == [i \in 0 .. 0 |-> start]
  <2>1. Solves(f, 0)
    OBVIOUS
  <2> QED BY <2>1
<1>2. ASSUME NEW n \in Nat, n \in S
      PROVE  n + 1 \in S
  <2>1. PICK f : Solves(f, n)
    BY <1>2
  <2> DEFINE last == Following(f[n], n + 1)
             g == [i \in 0 .. n + 1 |-> IF i <= n THEN f[i] ELSE last]
  <2> HIDE DEF last
  <2>2. \A i \in 0 .. n : g[i] = f[i]
    OBVIOUS
  <2>3. \A i \in 0 .. n + 1 :
          g[i] = IF i = 0 THEN start ELSE Following(g[i - 1], i)
    <3> SUFFICES ASSUME NEW i \in 0 .. n + 1
                 PROVE  g[i] = IF i = 0 THEN start ELSE Following(g[i - 1], i)
      OBVIOUS
    <3>1. CASE i <= n
      <4>1. g[i] = f[i] BY <3>1
      <4>2. i # 0 => i - 1 \in 0 .. n BY <3>1
      <4>3. i # 0 => g[i - 1] = f[i - 1] BY <4>2, <2>2
      <4>4. f[i] = IF i = 0 THEN start ELSE Following(f[i - 1], i)
        BY <2>1, <3>1
      <4> QED BY <4>1, <4>3, <4>4
    <3>2. CASE i = n + 1
      <4>1. g[i] = last BY <3>2
      <4>2. g[n] = f[n] BY <2>2
      <4> QED BY <4>1, <4>2, <3>2 DEF last
    <3> QED BY <3>1, <3>2
  <2>4. Solves(g, n + 1)
    BY <2>3
  <2> HIDE DEF Solves, g
  <2>5. n + 1 \in Nat /\ \E h : Solves(h, n + 1)
    BY <2>4
  <2> QED BY <2>5
<1>3. Len(journal) \in S
  BY <1>1, <1>2, SetInduction
<1>4. PICK f : Solves(f, Len(journal))
  BY <1>3
<1> DEFINE after == CHOOSE h : Solves(h, Len(journal))
<1>5. Solves(after, Len(journal))
  BY <1>4
<1>6. Processed(st, journal, o) = after[Len(journal)]
  BY DEF Processed, Following, start
<1>7. FollowsJournal(after, st, journal, o)
  BY <1>5 DEF FollowsJournal, Following, start
<1> QED
  BY <1>6, <1>7

\* An empty journal changes nothing.
LEMMA ProcessedNone ==
  ASSUME NEW st, NEW o
  PROVE  Processed(st, << >>, o) = [sessions |-> st.sessions, overflowed |-> {}]
<1>1. Len(<< >>) = 0
  OBVIOUS
<1>2. PICK after : /\ FollowsJournal(after, st, << >>, o)
                   /\ Processed(st, << >>, o) = after[0]
  BY <1>1, ProcessedEquation
<1> QED
  BY <1>1, <1>2 DEF FollowsJournal

\* The last event is processed after the others.
LEMMA ProcessedAppend ==
  ASSUME NEW st, NEW T, NEW journal \in Seq(T), NEW e \in T, NEW o
  PROVE  Processed(st, Append(journal, e), o) = ProcessEvent(Processed(st, journal, o), e, o)
<1> DEFINE n == Len(journal)
           longer == Append(journal, e)
<1>1. /\ n \in Nat /\ longer \in Seq(T) /\ Len(longer) = n + 1
      /\ \A i \in 1 .. n : longer[i] = journal[i]
      /\ longer[n + 1] = e
  BY AppendProperties
<1>2. PICK f : FollowsJournal(f, st, journal, o) /\ Processed(st, journal, o) = f[n]
  BY <1>1, ProcessedEquation
<1>3. PICK g : FollowsJournal(g, st, longer, o) /\ Processed(st, longer, o) = g[n + 1]
  <2> HIDE DEF n, longer
  <2>1. Len(longer) \in Nat
    BY <1>1
  <2>2. \E g : /\ FollowsJournal(g, st, longer, o)
               /\ Processed(st, longer, o) = g[Len(longer)]
    BY <2>1, ProcessedEquation
  <2> QED BY <1>1, <2>2
<1> HIDE DEF n, longer
<1>4. \A i \in 0 .. n :
        f[i] = IF i = 0 THEN [sessions |-> st.sessions, overflowed |-> {}]
               ELSE ProcessEvent(f[i - 1], journal[i], o)
  BY <1>2 DEF FollowsJournal, n
<1>5. \A i \in 0 .. n + 1 :
        g[i] = IF i = 0 THEN [sessions |-> st.sessions, overflowed |-> {}]
               ELSE ProcessEvent(g[i - 1], longer[i], o)
  BY <1>1, <1>3 DEF FollowsJournal
<1> DEFINE S == {i \in Nat : i <= n => f[i] = g[i]}
<1>6. 0 \in S
  <2>1. 0 \in 0 .. n /\ 0 \in 0 .. n + 1
    BY <1>1
  <2>2. f[0] = [sessions |-> st.sessions, overflowed |-> {}]
    BY <1>4, <2>1
  <2>3. g[0] = [sessions |-> st.sessions, overflowed |-> {}]
    BY <1>5, <2>1
  <2> QED BY <2>2, <2>3
<1>7. ASSUME NEW i \in Nat, i \in S, i + 1 <= n PROVE f[i + 1] = g[i + 1]
  <2>1. i + 1 \in 1 .. n /\ i + 1 \in 0 .. n + 1 /\ i + 1 \in 0 .. n /\ i <= n
        /\ (i + 1) - 1 = i /\ i + 1 # 0
    BY <1>1, <1>7
  <2>2. f[i + 1] = ProcessEvent(f[i], journal[i + 1], o)
    BY <1>4, <2>1
  <2>3. g[i + 1] = ProcessEvent(g[i], longer[i + 1], o)
    BY <1>5, <2>1
  <2> QED BY <1>1, <1>7, <2>1, <2>2, <2>3
<1>8. n \in S
  <2>1. ASSUME NEW i \in Nat, i \in S PROVE i + 1 \in S
    <3>1. i + 1 <= n => f[i + 1] = g[i + 1]
      BY <1>7, <2>1
    <3> QED BY <3>1
  <2> HIDE DEF S
  <2>2. Nat \subseteq S
    BY <1>6, <2>1, SetInduction
  <2> QED BY <1>1, <2>2
<1>9. g[n + 1] = ProcessEvent(g[n], longer[n + 1], o)
  BY <1>1, <1>5
<1> QED
  BY <1>1, <1>2, <1>3, <1>8, <1>9 DEF longer

-----------------------------------------------------------------------------
(* The worlds of a tick.                                                   *)

\* A world in the middle of a tick: the owners it saw are those of its players.
WorldOK(v) ==
  /\ v = [players |-> v.players, owners |-> v.owners, next |-> v.next,
          journal |-> v.journal]
  /\ v.journal \in Seq(EventRecords)
  /\ v.next \in Nat /\ DOMAIN v.owners \subseteq 0 .. v.next - 1
  /\ Extends(v.owners, v.players)

\* What the journal makes of the sessions of st agrees with the world.
Settles(r, st, v, given) ==
  /\ Agree(r.sessions, v.players, v.next, given)
  /\ DOMAIN r.sessions = DOMAIN st.sessions
  /\ \A c \in DOMAIN st.sessions : r.sessions[c].inputs = st.sessions[c].inputs
  /\ r.overflowed \subseteq DOMAIN st.sessions

\* The events still to come may add owners, which changes nothing for the past.
WorldGood(st, v, given) ==
  /\ WorldOK(v)
  /\ \A o : Extends(o, v.owners) => Settles(Processed(st, v.journal, o), st, v, given)

\* advance_simulation reports only events of the players it has.
LEMMA PossibleHappens ==
  ASSUME NEW v, WorldOK(v), DOMAIN v.players \subseteq Int,
         NEW splitting, NEW e \in Possible(v, splitting)
  PROVE  Happens(e, v.players, v.next)
<1>1. e \in Splits(v, splitting) \cup Meetings(v.players)
            \cup {Event("Food", p, NoId) : p \in DOMAIN v.players}
  BY DEF Possible
<1>2. v.next \in Int /\ NoId \in Int
  BY DEF WorldOK, NoId
<1>3. CASE e \in Splits(v, splitting)
  <2>1. PICK p \in DOMAIN v.players : e = Event("Split", p, v.next) /\ v.next < InvalidEntity
    BY <1>3 DEF Splits
  <2> QED BY <1>2, <2>1 DEF Event, Happens, EventRecords
<1>4. CASE e \in Meetings(v.players)
  <2>1. PICK k \in {"Absorb", "Merge"}, p \in DOMAIN v.players, q \in DOMAIN v.players :
          e = Event(k, p, q)
    BY <1>4 DEF Meetings
  <2>2. /\ e.kind = k /\ e.subject = p /\ e.object = q /\ e \in EventRecords
    BY <2>1 DEF Event, EventRecords
  <2>3. /\ k = "Absorb" => v.players[p] # v.players[q]
        /\ k = "Merge" => v.players[p] = v.players[q] /\ p < q
    BY <1>4, <2>2 DEF Meetings
  <2> QED BY <2>2, <2>3 DEF Happens
<1>5. CASE e \in {Event("Food", p, NoId) : p \in DOMAIN v.players}
  BY <1>2, <1>5 DEF Event, Happens, EventRecords
<1> QED
  BY <1>1, <1>3, <1>4, <1>5

\* What advance_simulation does with an event.
LEMMA AfterFields ==
  ASSUME NEW v, WorldOK(v), NEW e, Happens(e, v.players, v.next)
  PROVE  /\ WorldOK(After(v, e))
         /\ After(v, e).players = PlayersAfter(e, v.players)
         /\ After(v, e).next = NextAfter(e, v.next)
         /\ After(v, e).journal = Append(v.journal, e)
         /\ Extends(After(v, e).owners, v.owners)
<1> DEFINE u == After(v, e)
<1>1. /\ e \in EventRecords /\ e.subject \in DOMAIN v.players
      /\ v.owners[e.subject] = v.players[e.subject]
      /\ v.next \in Nat /\ DOMAIN v.owners \subseteq 0 .. v.next - 1
      /\ Extends(v.owners, v.players) /\ v.journal \in Seq(EventRecords)
  BY DEF WorldOK, Happens, Extends
<1>2. Append(v.journal, e) \in Seq(EventRecords)
  BY <1>1, AppendProperties
<1>3. PICK j : j = Append(v.journal, e)
  OBVIOUS
<1>4. CASE e.kind = "Split"
  <2>1. PICK m : m = With(v.players, e.object, v.players[e.subject])
    OBVIOUS
  <2>2. PICK n : n = With(v.owners, e.object, v.players[e.subject])
    OBVIOUS
  <2>3. u = [players |-> m, owners |-> n, next |-> v.next + 1, journal |-> j]
    BY <1>1, <1>3, <1>4, <2>1, <2>2 DEF After
  <2>4. e.object = v.next
    BY <1>4 DEF Happens
  <2>5. v.next \notin DOMAIN v.owners
    BY <1>1
  <2>6. Extends(n, m) /\ Extends(n, v.owners) /\ DOMAIN n = DOMAIN v.owners \cup {v.next}
    BY <1>1, <2>1, <2>2, <2>4, <2>5 DEF With, Extends
  <2>7. DOMAIN n \subseteq 0 .. (v.next + 1) - 1 /\ v.next + 1 \in Nat
    BY <1>1, <2>6
  <2>8. /\ PlayersAfter(e, v.players) = m /\ NextAfter(e, v.next) = v.next + 1
    BY <1>4, <2>1 DEF PlayersAfter, NextAfter
  <2> HIDE DEF u
  <2>9. /\ u.players = m /\ u.owners = n /\ u.next = v.next + 1 /\ u.journal = j
        /\ u = [players |-> u.players, owners |-> u.owners, next |-> u.next,
                journal |-> u.journal]
    BY <2>3
  <2>10. WorldOK(u)
    BY <1>2, <1>3, <2>6, <2>7, <2>9 DEF WorldOK
  <2> QED BY <1>3, <2>6, <2>8, <2>9, <2>10 DEF u
<1>5. CASE e.kind # "Split"
  <2>1. PICK m : m = Restrict(v.players, DOMAIN v.players \ {e.object})
    OBVIOUS
  <2>2. u = [players |-> m, owners |-> v.owners, next |-> v.next, journal |-> j]
    BY <1>3, <1>5, <2>1 DEF After, WorldOK
  <2>3. Extends(v.owners, m) /\ Extends(v.owners, v.owners)
    BY <1>1, <2>1 DEF Restrict, Extends
  <2>4. /\ PlayersAfter(e, v.players) = m /\ NextAfter(e, v.next) = v.next
    BY <1>5, <2>1 DEF PlayersAfter, NextAfter
  <2> HIDE DEF u
  <2>5. /\ u.players = m /\ u.owners = v.owners /\ u.next = v.next /\ u.journal = j
        /\ u = [players |-> u.players, owners |-> u.owners, next |-> u.next,
                journal |-> u.journal]
    BY <2>2
  <2>6. WorldOK(u)
    BY <1>1, <1>2, <1>3, <2>3, <2>5 DEF WorldOK
  <2> QED BY <1>3, <2>3, <2>4, <2>5, <2>6 DEF u
<1> QED
  BY <1>4, <1>5

\* Every event the simulation may report next leaves a good world.
LEMMA AfterGood ==
  ASSUME NEW st, NEW v, NEW given \in Nat, WorldGood(st, v, given),
         SessionsAssumption, NEW splitting, NEW e \in Possible(v, splitting)
  PROVE  WorldGood(st, After(v, e), given)
<1>1. WorldOK(v)
  BY DEF WorldGood
<1>2. Happens(e, v.players, v.next)
  <2>1. Extends(v.owners, v.owners)
    BY DEF Extends
  <2>2. PlayerMap(v.players, v.next, given)
    BY <2>1 DEF WorldGood, Settles, Agree
  <2>3. DOMAIN v.players \subseteq Int
    BY <2>2 DEF PlayerMap
  <2> QED BY <1>1, <2>3, PossibleHappens
<1>3. PICK u : u = After(v, e)
  OBVIOUS
<1>4. /\ WorldOK(u) /\ u.players = PlayersAfter(e, v.players)
      /\ u.next = NextAfter(e, v.next) /\ u.journal = Append(v.journal, e)
      /\ Extends(u.owners, v.owners)
  BY <1>1, <1>2, <1>3, AfterFields
<1>5. ASSUME NEW o, Extends(o, u.owners)
      PROVE  Settles(Processed(st, u.journal, o), st, u, given)
  <2>1. Extends(o, v.owners)
    BY <1>4, <1>5 DEF Extends
  <2>2. PICK acc : acc = Processed(st, v.journal, o)
    OBVIOUS
  <2>3. Settles(acc, st, v, given)
    BY <2>1, <2>2 DEF WorldGood
  <2>4. Extends(o, v.players)
    BY <1>1, <2>1 DEF WorldOK, Extends
  <2>5. /\ Agree(acc.sessions, v.players, v.next, given)
        /\ acc.overflowed \subseteq DOMAIN acc.sessions
    BY <2>3 DEF Settles
  <2>6. EventDone(ProcessEvent(acc, e, o), acc, e, v.players, v.next, given)
    BY <1>2, <2>4, <2>5, ProcessEventAgrees
  <2>7. Processed(st, u.journal, o) = ProcessEvent(acc, e, o)
    <3>1. v.journal \in Seq(EventRecords) /\ e \in EventRecords
      BY <1>1, <1>2 DEF WorldOK, Happens
    <3> QED BY <1>4, <2>2, <3>1, ProcessedAppend
  <2>8. PICK r : r = ProcessEvent(acc, e, o)
    OBVIOUS
  <2>9. Settles(r, st, u, given)
    BY <1>4, <2>3, <2>6, <2>8 DEF EventDone, Settles
  <2> QED BY <2>7, <2>8, <2>9
<1>6. WorldGood(st, u, given)
  BY <1>4, <1>5 DEF WorldGood
<1> QED
  BY <1>3, <1>6

\* The worlds after at most n events, from the worlds after one less.
OneMore(ws, n, splitting) ==
  ws \cup UNION {{After(w, e) : e \in Possible(w, splitting)} :
                   w \in {v \in ws : Len(v.journal) = n - 1}}
FollowsOutcomes(outcomes, start, splitting) ==
  outcomes = [n \in 0 .. MaxEvents |->
    IF n = 0 THEN {start} ELSE OneMore(outcomes[n - 1], n, splitting)]

\* The recursive definition of those sets has a solution.
LEMMA OutcomesEquation ==
  ASSUME NEW start, NEW splitting, MaxEvents \in Nat
  PROVE  \E outcomes : /\ FollowsOutcomes(outcomes, start, splitting)
                       /\ Outcomes(start, splitting) = outcomes[MaxEvents]
<1> DEFINE first == {start}
           Following(ws, n) == OneMore(ws, n, splitting)
           Solves(f, m) == f = [n \in 0 .. m |->
             IF n = 0 THEN first ELSE Following(f[n - 1], n)]
           S == {n \in Nat : \E f : Solves(f, n)}
<1> HIDE DEF Following, first
<1>1. 0 \in S
  <2> DEFINE f == [i \in 0 .. 0 |-> first]
  <2>1. Solves(f, 0)
    OBVIOUS
  <2> QED BY <2>1
<1>2. ASSUME NEW n \in Nat, n \in S
      PROVE  n + 1 \in S
  <2>1. PICK f : Solves(f, n)
    BY <1>2
  <2> DEFINE last == Following(f[n], n + 1)
             g == [i \in 0 .. n + 1 |-> IF i <= n THEN f[i] ELSE last]
  <2> HIDE DEF last
  <2>2. \A i \in 0 .. n : g[i] = f[i]
    OBVIOUS
  <2>3. \A i \in 0 .. n + 1 :
          g[i] = IF i = 0 THEN first ELSE Following(g[i - 1], i)
    <3> SUFFICES ASSUME NEW i \in 0 .. n + 1
                 PROVE  g[i] = IF i = 0 THEN first ELSE Following(g[i - 1], i)
      OBVIOUS
    <3>1. CASE i <= n
      <4>1. g[i] = f[i] BY <3>1
      <4>2. i # 0 => i - 1 \in 0 .. n BY <3>1
      <4>3. i # 0 => g[i - 1] = f[i - 1] BY <4>2, <2>2
      <4>4. f[i] = IF i = 0 THEN first ELSE Following(f[i - 1], i)
        BY <2>1, <3>1
      <4> QED BY <4>1, <4>3, <4>4
    <3>2. CASE i = n + 1
      <4>1. g[i] = last BY <3>2
      <4>2. g[n] = f[n] BY <2>2
      <4> QED BY <4>1, <4>2, <3>2 DEF last
    <3> QED BY <3>1, <3>2
  <2>4. Solves(g, n + 1)
    BY <2>3
  <2> HIDE DEF Solves, g
  <2>5. n + 1 \in Nat /\ \E h : Solves(h, n + 1)
    BY <2>4
  <2> QED BY <2>5
<1>3. MaxEvents \in S
  BY <1>1, <1>2, SetInduction
<1>4. PICK f : Solves(f, MaxEvents)
  BY <1>3
<1> DEFINE outcomes == CHOOSE h : Solves(h, MaxEvents)
<1>5. Solves(outcomes, MaxEvents)
  BY <1>4
<1>6. Outcomes(start, splitting) = outcomes[MaxEvents]
  BY DEF Outcomes, Following, first, OneMore
<1>7. FollowsOutcomes(outcomes, start, splitting)
  BY <1>5 DEF FollowsOutcomes, Following, first
<1> QED
  BY <1>6, <1>7

\* Every outcome of a tick that starts in a good world is one.
LEMMA OutcomesGood ==
  ASSUME NEW st, NEW start, NEW given \in Nat, WorldGood(st, start, given),
         SessionsAssumption, NEW splitting
  PROVE  \A v \in Outcomes(start, splitting) : WorldGood(st, v, given)
<1>1. MaxEvents \in Nat
  BY DEF SessionsAssumption
<1>2. PICK outcomes : /\ FollowsOutcomes(outcomes, start, splitting)
                      /\ Outcomes(start, splitting) = outcomes[MaxEvents]
  BY <1>1, OutcomesEquation
<1>3. \A n \in 0 .. MaxEvents :
        outcomes[n] = IF n = 0 THEN {start} ELSE OneMore(outcomes[n - 1], n, splitting)
  BY <1>2 DEF FollowsOutcomes
<1> DEFINE S == {n \in Nat : n <= MaxEvents => \A v \in outcomes[n] : WorldGood(st, v, given)}
<1>4. 0 \in S
  <2>1. outcomes[0] = {start}
    BY <1>1, <1>3
  <2> QED BY <2>1
<1>5. ASSUME NEW n \in Nat, n \in S PROVE n + 1 \in S
  <2>1. ASSUME n + 1 <= MaxEvents, NEW u \in outcomes[n + 1]
        PROVE  WorldGood(st, u, given)
    <3>1. /\ n + 1 \in 0 .. MaxEvents /\ n + 1 # 0 /\ (n + 1) - 1 = n /\ n <= MaxEvents
      BY <1>1, <2>1
    <3>2. \A v \in outcomes[n] : WorldGood(st, v, given)
      BY <1>5, <3>1
    <3>3. u \in OneMore(outcomes[n], n + 1, splitting)
      BY <1>3, <2>1, <3>1
    <3>4. \/ u \in outcomes[n]
          \/ \E v \in outcomes[n] : \E e \in Possible(v, splitting) : u = After(v, e)
      BY <3>3 DEF OneMore
    <3> QED BY <3>2, <3>4, AfterGood
  <2> QED BY <2>1
<1>6. MaxEvents \in S
  <2> HIDE DEF S
  <2>1. Nat \subseteq S
    BY <1>4, <1>5, SetInduction
  <2> QED BY <1>1, <2>1
<1> QED
  BY <1>1, <1>2, <1>6

\* A tick starts in a good world.
LEMMA WorldStarts ==
  ASSUME NEW st, NEW free, NEW given, StateAgrees(st, free, given), SessionsAssumption,
         NEW counted, counted.players = st.players
  PROVE  WorldGood(st, World(counted, free), given)
<1>1. PICK v : v = World(counted, free)
  OBVIOUS
<1>2. /\ v = [players |-> st.players, owners |-> st.players, next |-> free, journal |-> << >>]
  BY <1>1 DEF World
<1>3. /\ v.players = st.players /\ v.owners = st.players /\ v.next = free
      /\ v.journal = << >>
      /\ v = [players |-> v.players, owners |-> v.owners, next |-> v.next,
              journal |-> v.journal]
  BY <1>2
<1>4. PlayerMap(st.players, free, given)
  BY DEF StateAgrees, Agree
<1>5. WorldOK(v)
  <2>1. free \in Nat /\ DOMAIN st.players \subseteq 0 .. free - 1
    BY <1>4 DEF PlayerMap, SessionsAssumption
  <2>2. << >> \in Seq(EventRecords)
    OBVIOUS
  <2> QED BY <1>3, <2>1, <2>2 DEF WorldOK, Extends
<1>6. ASSUME NEW o PROVE Settles(Processed(st, v.journal, o), st, v, given)
  <2>1. PICK r : r = Processed(st, v.journal, o)
    OBVIOUS
  <2>2. r = [sessions |-> st.sessions, overflowed |-> {}]
    BY <1>3, <2>1, ProcessedNone
  <2>3. Agree(st.sessions, v.players, v.next, given)
    BY <1>3 DEF StateAgrees
  <2>4. Settles(r, st, v, given)
    BY <2>2, <2>3 DEF Settles
  <2> QED BY <2>1, <2>4
<1> QED
  BY <1>1, <1>5, <1>6 DEF WorldGood

-----------------------------------------------------------------------------
(* The snapshots.                                                          *)

FollowsOrder(sent, st, order, failing) ==
  sent = [i \in 0 .. Len(order) |->
            IF i = 0 THEN [st |-> st, status |-> "running"]
            ELSE SendSnapshot(sent[i - 1], order[i], failing)]

\* The recursive definition of the snapshots has a solution.
LEMMA SnapshotsEquation ==
  ASSUME NEW st, NEW order, Len(order) \in Nat, NEW failing
  PROVE  \E sent : /\ FollowsOrder(sent, st, order, failing)
                   /\ Snapshots(st, order, failing) = sent[Len(order)]
<1> DEFINE start == [st |-> st, status |-> "running"]
           Following(acc, i) == SendSnapshot(acc, order[i], failing)
           Solves(f, n) == f = [i \in 0 .. n |->
             IF i = 0 THEN start ELSE Following(f[i - 1], i)]
           S == {n \in Nat : \E f : Solves(f, n)}
<1> HIDE DEF Following, start
<1>1. 0 \in S
  <2> DEFINE f == [i \in 0 .. 0 |-> start]
  <2>1. Solves(f, 0)
    OBVIOUS
  <2> QED BY <2>1
<1>2. ASSUME NEW n \in Nat, n \in S
      PROVE  n + 1 \in S
  <2>1. PICK f : Solves(f, n)
    BY <1>2
  <2> DEFINE last == Following(f[n], n + 1)
             g == [i \in 0 .. n + 1 |-> IF i <= n THEN f[i] ELSE last]
  <2> HIDE DEF last
  <2>2. \A i \in 0 .. n : g[i] = f[i]
    OBVIOUS
  <2>3. \A i \in 0 .. n + 1 :
          g[i] = IF i = 0 THEN start ELSE Following(g[i - 1], i)
    <3> SUFFICES ASSUME NEW i \in 0 .. n + 1
                 PROVE  g[i] = IF i = 0 THEN start ELSE Following(g[i - 1], i)
      OBVIOUS
    <3>1. CASE i <= n
      <4>1. g[i] = f[i] BY <3>1
      <4>2. i # 0 => i - 1 \in 0 .. n BY <3>1
      <4>3. i # 0 => g[i - 1] = f[i - 1] BY <4>2, <2>2
      <4>4. f[i] = IF i = 0 THEN start ELSE Following(f[i - 1], i)
        BY <2>1, <3>1
      <4> QED BY <4>1, <4>3, <4>4
    <3>2. CASE i = n + 1
      <4>1. g[i] = last BY <3>2
      <4>2. g[n] = f[n] BY <2>2
      <4> QED BY <4>1, <4>2, <3>2 DEF last
    <3> QED BY <3>1, <3>2
  <2>4. Solves(g, n + 1)
    BY <2>3
  <2> HIDE DEF Solves, g
  <2>5. n + 1 \in Nat /\ \E h : Solves(h, n + 1)
    BY <2>4
  <2> QED BY <2>5
<1>3. Len(order) \in S
  BY <1>1, <1>2, SetInduction
<1>4. PICK f : Solves(f, Len(order))
  BY <1>3
<1> DEFINE sent == CHOOSE h : Solves(h, Len(order))
<1>5. Solves(sent, Len(order))
  BY <1>4
<1>6. Snapshots(st, order, failing) = sent[Len(order)]
  BY DEF Snapshots, Following, start
<1>7. FollowsOrder(sent, st, order, failing)
  BY <1>5 DEF FollowsOrder, Following, start
<1> QED
  BY <1>6, <1>7

\* A snapshot removes its session at most.
SentOK(acc, free, given) ==
  /\ acc = [st |-> acc.st, status |-> acc.status]
  /\ acc.status \in {"running", "InvalidWorldState"}
  /\ StateAgrees(acc.st, free, given)

\* send_snapshot for one connection.
LEMMA SendSnapshotAgrees ==
  ASSUME NEW acc, NEW free, NEW given, SentOK(acc, free, given), NEW c, NEW failing
  PROVE  SentOK(SendSnapshot(acc, c, failing), free, given)
<1>1. CASE c \in DOMAIN acc.st.sessions /\ SendSnapshot(acc, c, failing)
             = [acc EXCEPT !.st = RemoveSessions(@, {c})]
  <2>1. PICK new : new = RemoveSessions(acc.st, {c})
    OBVIOUS
  <2>2. StateAgrees(new, free, given)
    <3>1. {c} \subseteq DOMAIN acc.st.sessions
      BY <1>1
    <3> QED BY <2>1, <3>1, RemoveSessionsAgrees DEF SentOK
  <2>3. SendSnapshot(acc, c, failing) = [acc EXCEPT !.st = new]
    BY <1>1, <2>1 DEF SentOK
  <2>4. SendSnapshot(acc, c, failing) = [st |-> new, status |-> acc.status]
    BY <2>3 DEF SentOK
  <2> QED BY <2>2, <2>4 DEF SentOK
<1>2. CASE SendSnapshot(acc, c, failing) = [acc EXCEPT !.status = "InvalidWorldState"]
  <2>1. SendSnapshot(acc, c, failing) = [st |-> acc.st, status |-> "InvalidWorldState"]
    BY <1>2 DEF SentOK
  <2> QED BY <2>1 DEF SentOK
<1>3. CASE SendSnapshot(acc, c, failing) = acc
  BY <1>3
<1>4. \/ c \in DOMAIN acc.st.sessions /\ SendSnapshot(acc, c, failing)
             = [acc EXCEPT !.st = RemoveSessions(@, {c})]
      \/ SendSnapshot(acc, c, failing) = [acc EXCEPT !.status = "InvalidWorldState"]
      \/ SendSnapshot(acc, c, failing) = acc
  BY DEF SendSnapshot
<1> QED
  BY <1>1, <1>2, <1>3, <1>4, Zenon

\* The snapshots of a tick, whichever fail.
LEMMA SnapshotsAgree ==
  ASSUME NEW st, NEW free, NEW given, StateAgrees(st, free, given),
         NEW order, Len(order) \in Nat, NEW failing
  PROVE  SentOK(Snapshots(st, order, failing), free, given)
<1> DEFINE n == Len(order)
<1>1. PICK sent : /\ FollowsOrder(sent, st, order, failing)
                  /\ Snapshots(st, order, failing) = sent[n]
  BY SnapshotsEquation
<1> DEFINE S == {i \in Nat : i <= n => SentOK(sent[i], free, given)}
<1>2. \A i \in 0 .. n : sent[i] = IF i = 0 THEN [st |-> st, status |-> "running"]
                                  ELSE SendSnapshot(sent[i - 1], order[i], failing)
  BY <1>1 DEF FollowsOrder
<1>3. n \in Nat
  OBVIOUS
<1> HIDE DEF n
<1>4. 0 \in S
  <2>1. sent[0] = [st |-> st, status |-> "running"]
    BY <1>2, <1>3
  <2>2. SentOK(sent[0], free, given)
    BY <2>1 DEF SentOK
  <2> QED BY <2>2
<1>5. ASSUME NEW i \in Nat, i \in S PROVE i + 1 \in S
  <2>1. ASSUME i + 1 <= n PROVE SentOK(sent[i + 1], free, given)
    <3>1. i + 1 \in 0 .. n /\ i + 1 # 0 /\ (i + 1) - 1 = i /\ i <= n
      BY <1>3, <2>1
    <3>2. SentOK(sent[i], free, given)
      BY <1>5, <3>1
    <3>3. sent[i + 1] = SendSnapshot(sent[i], order[i + 1], failing)
      BY <1>2, <3>1
    <3> QED BY <3>2, <3>3, SendSnapshotAgrees
  <2> QED BY <2>1
<1>6. n \in S
  <2> HIDE DEF S
  <2>1. Nat \subseteq S
    BY <1>4, <1>5, SetInduction
  <2> QED BY <1>3, <2>1
<1> QED
  BY <1>1, <1>3, <1>6

-----------------------------------------------------------------------------
(* The handlers of process_events.                                         *)

\* What a handler starts from.
LEMMA CurrentAgrees ==
  ASSUME SessionsInv, SessionsAssumption
  PROVE  /\ StateAgrees(Current, nextEntity, nextOwner)
         /\ Current.sessions = sessions /\ Current.players = players
         /\ nextEntity \in Nat /\ nextOwner \in Nat
BY DEF SessionsInv, StateAgrees, Current, Agree, PlayerMap, SessionsAssumption

\* A new session has no owner and no players.
LEMMA ConnectKeeps ==
  ASSUME SessionsInv, SessionsAssumption, NEW c \in Connections, Connect(c)
  PROVE  SessionsInv'
<1> DEFINE t == With(sessions, c, NewSession)
<1>1. /\ SessionMap(sessions) /\ PlayerMap(players, nextEntity, nextOwner)
      /\ \A d \in DOMAIN sessions : Fits(sessions[d], players)
      /\ Owned(sessions, players, nextOwner)
      /\ nextOwner \in 0 .. InvalidOwner /\ CommandsAccepted
      /\ oddTick \in BOOLEAN /\ nextOwner \in Nat
  BY DEF SessionsInv, Agree, SessionsAssumption
<1>2. /\ sessions' = t /\ players' = players /\ nextEntity' = nextEntity
      /\ nextOwner' = nextOwner /\ oddTick' = oddTick /\ server' = server
      /\ c \notin DOMAIN sessions
  BY DEF Connect
<1>3. /\ NewSession \in Sessions /\ Fits(NewSession, players) /\ NewSession.owner = NoId
  <2>1. /\ NoId \in -1 .. InvalidOwner - 1 /\ NoId \in -1 .. InvalidEntity - 1
        /\ NoTick \in -1 .. Cooldown /\ 0 \in 0 .. InputHold + 1
        /\ 0 \in 0 .. LivenessTimeout + HandshakeTimeout /\ 0 \in 0 .. ReceiptCapacity
    BY DEF NoId, NoTick, SessionsAssumption
  <2>2. << >> \in Seq(Actions)
    OBVIOUS
  <2>3. NewSession \in Sessions
    BY <2>1, <2>2 DEF NewSession, Sessions
  <2> QED BY <2>3 DEF NewSession, Fits
<1>4. /\ DOMAIN t = DOMAIN sessions \cup {c} /\ t = [d \in DOMAIN t |-> t[d]]
      /\ t[c] = NewSession /\ \A d \in DOMAIN sessions : t[d] = sessions[d]
  BY <1>2 DEF With
<1> HIDE DEF t
<1>5. SessionMap(t)
  <2>1. IsFiniteSet(DOMAIN t)
    BY <1>1, <1>4, FS_AddElement DEF SessionMap
  <2> QED BY <1>1, <1>3, <1>4, <2>1 DEF SessionMap
<1>6. \A d \in DOMAIN t : Fits(t[d], players)
  BY <1>1, <1>3, <1>4
<1>7. Owned(t, players, nextOwner)
  <2>1. ASSUME NEW p \in DOMAIN players PROVE \E d \in DOMAIN t : t[d].owner = players[p]
    BY <1>1, <1>4 DEF Owned
  <2>2. ASSUME NEW a \in DOMAIN t, NEW b \in DOMAIN t, t[a].owner = t[b].owner,
               t[a].owner # NoId
        PROVE  a = b
    BY <1>1, <1>3, <1>4, <2>2 DEF Owned
  <2>3. NoId < nextOwner
    BY <1>1 DEF NoId
  <2>4. \A d \in DOMAIN t : t[d].owner < nextOwner
    BY <1>1, <1>3, <1>4, <2>3 DEF Owned
  <2> QED BY <2>1, <2>2, <2>4 DEF Owned
<1>8. Agree(t, players, nextEntity, nextOwner)
  BY <1>1, <1>5, <1>6, <1>7 DEF Agree
<1> QED
  BY <1>1, <1>2, <1>8 DEF SessionsInv, CommandsAccepted

\* What a handler that ends in Become leaves.
LEMMA BecomeKeeps ==
  ASSUME SessionsInv, NEW st, NEW free, NEW given, StateAgrees(st, free, given),
         sessions' = st.sessions, players' = st.players, nextEntity' = free,
         nextOwner' = given, given \in 0 .. InvalidOwner, oddTick' \in BOOLEAN,
         server' # "SimulationInputRejected"
  PROVE  SessionsInv'
BY DEF SessionsInv, StateAgrees, CommandsAccepted

\* Disconnected, and reject().
LEMMA LeaveKeeps ==
  ASSUME SessionsInv, SessionsAssumption, NEW c, Leave(c)
  PROVE  SessionsInv'
<1>1. PICK st : st = RemoveSessions(Current, {c})
  OBVIOUS
<1>2. c \in DOMAIN Current.sessions
  BY CurrentAgrees DEF Leave
<1>3. StateAgrees(st, nextEntity, nextOwner)
  BY <1>1, <1>2, CurrentAgrees, RemoveSessionsAgrees
<1>4. /\ sessions' = st.sessions /\ players' = st.players /\ nextEntity' = nextEntity
      /\ nextOwner' = nextOwner /\ oddTick' = oddTick /\ server' = "running"
  BY <1>1 DEF Leave, Become
<1>5. nextOwner \in 0 .. InvalidOwner /\ oddTick \in BOOLEAN
  BY DEF SessionsInv
<1> QED
  BY <1>3, <1>4, <1>5, BecomeKeeps

\* accept gives the session an owner that nobody has, and its first player.
LEMMA PlayerAccepted ==
  ASSUME SessionsInv, SessionsAssumption, NEW c \in DOMAIN sessions,
         ~sessions[c].ready, NEW owner \in OwnerCandidates, nextEntity # InvalidEntity
  PROVE  Agree([sessions EXCEPT ![c] = Accepted(@, "Player", owner)],
               With(players, nextEntity, owner), nextEntity + 1, owner + 1)
<1> DEFINE x == sessions[c]
           y == Accepted(x, "Player", owner)
           t == [sessions EXCEPT ![c] = Accepted(@, "Player", owner)]
           v == With(players, nextEntity, owner)
<1>1. /\ SessionMap(sessions) /\ PlayerMap(players, nextEntity, nextOwner)
      /\ \A d \in DOMAIN sessions : Fits(sessions[d], players)
      /\ Owned(sessions, players, nextOwner)
  BY DEF SessionsInv, Agree
<1>2. /\ nextOwner \in Nat /\ nextEntity \in 0 .. InvalidEntity /\ InvalidEntity \in Nat
      /\ InvalidOwner \in Nat
  BY <1>1 DEF SessionsInv, PlayerMap, SessionsAssumption
<1>3. /\ owner \in nextOwner .. InvalidOwner - 1
      /\ \A d \in DOMAIN sessions : sessions[d].owner # owner
      /\ \A p \in DOMAIN players : players[p] # owner
  BY DEF OwnerCandidates
<1>4. /\ x \in Sessions /\ x.owner = NoId /\ x.respawn = NoTick
  BY <1>1 DEF SessionMap, Fits
<1>5. /\ y \in Sessions /\ y.ready /\ y.role = "Player" /\ y.owner = owner
      /\ y.mode = "Playing" /\ y.pieces = {nextEntity} /\ y.primary = nextEntity
      /\ y.respawn = NoTick
  <2>1. /\ owner \in -1 .. InvalidOwner - 1 /\ nextEntity \in 0 .. InvalidEntity - 1
        /\ nextEntity \in -1 .. InvalidEntity - 1
        /\ 0 \in 0 .. LivenessTimeout + HandshakeTimeout
    BY <1>2, <1>3 DEF SessionsAssumption
  <2>2. y = [x EXCEPT !.ready = TRUE, !.role = "Player", !.owner = owner,
                      !.mode = "Playing", !.pieces = {nextEntity},
                      !.primary = nextEntity, !.idle = 0]
    BY DEF Accepted
  <2> HIDE DEF x, y
  <2>3. PICK a : a = [x EXCEPT !.ready = TRUE, !.role = "Player"]
    OBVIOUS
  <2>4. PICK b : b = [a EXCEPT !.owner = owner, !.mode = "Playing"]
    OBVIOUS
  <2>5. PICK z : z = [b EXCEPT !.pieces = {nextEntity}, !.primary = nextEntity]
    OBVIOUS
  <2>6. y = [z EXCEPT !.idle = 0]
    BY <1>4, <2>2, <2>3, <2>4, <2>5 DEF Sessions
  <2>7. a \in Sessions /\ a.ready /\ a.role = "Player" /\ a.respawn = NoTick
    BY <1>4, <2>3 DEF Sessions
  <2>8. /\ b \in Sessions /\ b.ready /\ b.role = "Player" /\ b.respawn = NoTick
        /\ b.owner = owner /\ b.mode = "Playing"
    BY <2>1, <2>4, <2>7 DEF Sessions
  <2>9. /\ z \in Sessions /\ z.ready /\ z.role = "Player" /\ z.respawn = NoTick
        /\ z.owner = owner /\ z.mode = "Playing" /\ z.pieces = {nextEntity}
        /\ z.primary = nextEntity
    BY <2>1, <2>5, <2>8 DEF Sessions
  <2> QED BY <2>1, <2>6, <2>9 DEF Sessions
<1>6. /\ DOMAIN t = DOMAIN sessions /\ t[c] = y
      /\ \A d \in DOMAIN sessions \ {c} : t[d] = sessions[d]
      /\ t = [d \in DOMAIN t |-> t[d]]
  OBVIOUS
<1>7. /\ DOMAIN v = DOMAIN players \cup {nextEntity} /\ v[nextEntity] = owner
      /\ nextEntity \notin DOMAIN players
      /\ \A p \in DOMAIN players : v[p] = players[p]
      /\ v = [p \in DOMAIN v |-> v[p]]
  <2>1. nextEntity \notin DOMAIN players
    BY <1>1, <1>2 DEF PlayerMap
  <2> QED BY <2>1 DEF With
<1> HIDE DEF x, y, t, v
<1>8. SessionMap(t)
  BY <1>1, <1>5, <1>6 DEF SessionMap
<1>9. PlayerMap(v, nextEntity + 1, owner + 1)
  <2>1. /\ DOMAIN players \subseteq 0 .. nextEntity - 1
        /\ players \in [DOMAIN players -> 0 .. nextOwner - 1]
    BY <1>1 DEF PlayerMap
  <2>2. nextEntity + 1 \in 0 .. InvalidEntity
    BY <1>2
  <2>3. \A p \in DOMAIN v : p \in 0 .. (nextEntity + 1) - 1 /\ v[p] \in 0 .. (owner + 1) - 1
    BY <1>2, <1>3, <1>7, <2>1
  <2> QED BY <1>7, <2>2, <2>3 DEF PlayerMap
<1>10. ASSUME NEW d \in DOMAIN t
       PROVE  Fits(t[d], v)
  <2>1. CASE d = c
    <3>1. Pieces(v, owner) = {nextEntity}
      BY <1>3, <1>7 DEF Pieces
    <3>2. owner # NoId
      BY <1>2, <1>3 DEF NoId
    <3> QED BY <1>5, <1>6, <2>1, <3>1, <3>2 DEF Fits
  <2>2. CASE d # c
    <3>1. t[d] = sessions[d] /\ Fits(sessions[d], players) /\ sessions[d].owner # owner
      BY <1>1, <1>3, <1>6, <2>2
    <3>2. Pieces(v, sessions[d].owner) = Pieces(players, sessions[d].owner)
      BY <1>7, <3>1 DEF Pieces
    <3> QED BY <3>1, <3>2 DEF Fits
  <2> QED BY <2>1, <2>2
<1>11. Owned(t, v, owner + 1)
  <2>1. ASSUME NEW p \in DOMAIN v PROVE \E d \in DOMAIN t : t[d].owner = v[p]
    <3>1. CASE p = nextEntity
      BY <1>5, <1>6, <1>7, <3>1
    <3>2. CASE p \in DOMAIN players
      <4>1. PICK d \in DOMAIN sessions : sessions[d].owner = players[p]
        BY <1>1, <3>2 DEF Owned
      <4>2. players[p] # NoId
        BY <1>1, <3>2 DEF PlayerMap, NoId
      <4>3. d # c
        BY <1>4, <4>1, <4>2 DEF x
      <4> QED BY <1>6, <1>7, <3>2, <4>1, <4>3
    <3> QED BY <1>7, <3>1, <3>2
  <2>2. ASSUME NEW a \in DOMAIN t, NEW b \in DOMAIN t, t[a].owner = t[b].owner,
               t[a].owner # NoId
        PROVE  a = b
    BY <1>1, <1>3, <1>5, <1>6, <2>2 DEF Owned
  <2>3. ASSUME NEW d \in DOMAIN t PROVE t[d].owner < owner + 1
    <3>1. CASE d = c
      BY <1>2, <1>3, <1>5, <1>6, <3>1
    <3>2. CASE d # c
      <4>1. t[d] = sessions[d] /\ d \in DOMAIN sessions
        BY <1>6, <3>2
      <4>2. sessions[d].owner < nextOwner /\ sessions[d] \in Sessions
        BY <1>1, <4>1 DEF Owned, SessionMap
      <4>3. sessions[d].owner \in Int
        BY <1>2, <4>2 DEF Sessions
      <4> QED BY <1>2, <1>3, <4>1, <4>2, <4>3
    <3> QED BY <3>1, <3>2
  <2> QED BY <2>1, <2>2, <2>3 DEF Owned
<1>12. Agree(t, v, nextEntity + 1, owner + 1)
  BY <1>8, <1>9, <1>10, <1>11 DEF Agree
<1> QED
  BY <1>12 DEF t, v

\* A spectator gets neither.
LEMMA SpectatorAccepted ==
  ASSUME SessionsInv, SessionsAssumption, NEW c \in DOMAIN sessions,
         ~sessions[c].ready, NEW owner
  PROVE  Agree([sessions EXCEPT ![c] = Accepted(@, "Spectator", owner)],
               players, nextEntity, nextOwner)
<1> DEFINE x == sessions[c]
           y == Accepted(x, "Spectator", owner)
           t == [sessions EXCEPT ![c] = Accepted(@, "Spectator", owner)]
<1>1. Agree(sessions, players, nextEntity, nextOwner)
  BY DEF SessionsInv
<1>2. x \in Sessions /\ Fits(x, players) /\ x.owner = NoId
  <2>1. x \in Sessions /\ Fits(x, players)
    BY <1>1, SessionFacts
  <2> QED BY <2>1 DEF Fits
<1>3. Replaces(y, x, players)
  <2>1. y = [x EXCEPT !.ready = TRUE, !.role = "Spectator", !.mode = "Spectating", !.idle = 0]
    BY DEF Accepted
  <2>2. 0 \in 0 .. LivenessTimeout + HandshakeTimeout
    BY DEF SessionsAssumption
  <2> HIDE DEF x, y
  <2>3. PICK a : a = [x EXCEPT !.ready = TRUE, !.role = "Spectator"]
    OBVIOUS
  <2>4. y = [a EXCEPT !.mode = "Spectating", !.idle = 0]
    BY <1>2, <2>1, <2>3 DEF Sessions
  <2>5. /\ a \in Sessions /\ a.role = "Spectator" /\ a.owner = NoId
        /\ a.pieces = x.pieces /\ a.respawn = x.respawn
    BY <1>2, <2>3 DEF Sessions
  <2>6. /\ y \in Sessions /\ y.role = "Spectator" /\ y.owner = NoId
        /\ y.pieces = x.pieces /\ y.respawn = x.respawn /\ y.mode = "Spectating"
    BY <2>2, <2>4, <2>5 DEF Sessions
  <2> QED BY <1>2, <2>6 DEF Replaces, Fits
<1>4. /\ t = [d \in DOMAIN sessions |-> t[d]]
      /\ t[c] = y /\ \A d \in DOMAIN sessions \ {c} : t[d] = sessions[d]
  OBVIOUS
<1> HIDE DEF y, t
<1>5. ASSUME NEW d \in DOMAIN sessions
      PROVE  Replaces(t[d], sessions[d], players)
  <2>1. CASE d = c
    BY <1>3, <1>4, <2>1
  <2>2. CASE d # c
    <3>1. sessions[d] \in Sessions /\ Fits(sessions[d], players)
      BY <1>1, SessionFacts
    <3> QED BY <1>4, <2>2, <3>1 DEF Replaces
  <2> QED BY <2>1, <2>2
<1>6. Agree(t, players, nextEntity, nextOwner)
  BY <1>1, <1>4, <1>5, PointwiseAgrees
<1> QED
  BY <1>6 DEF t

\* A handshake, which ends the server, joins, or fails to answer.
LEMMA JoinKeeps ==
  ASSUME SessionsInv, SessionsAssumption, NEW c, NEW role \in {"Player", "Spectator"},
         NEW safe, NEW sent, Join(c, role, safe, sent)
  PROVE  SessionsInv'
<1> DEFINE owner == Min(OwnerCandidates)
           error == AcceptError(role, safe)
           joined == [sessions |-> [sessions EXCEPT ![c] = Accepted(@, role, owner)],
                      players |-> IF role = "Player" THEN With(players, nextEntity, owner)
                                  ELSE players]
           free == IF role = "Player" THEN nextEntity + 1 ELSE nextEntity
           given == IF role = "Player" THEN owner + 1 ELSE nextOwner
<1>1. /\ c \in DOMAIN sessions /\ ~sessions[c].ready
      /\ nextOwner \in 0 .. InvalidOwner /\ oddTick \in BOOLEAN /\ InvalidOwner \in Nat
  BY DEF Join, SessionsInv, SessionsAssumption
<1>2. CASE error # "running" /\ Stop(error)
  <2>1. error # "SimulationInputRejected"
    BY DEF AcceptError
  <2> HIDE DEF error
  <2>2. UNCHANGED <<sessions, players, nextEntity, nextOwner, oddTick>> /\ server' = error
    BY <1>2 DEF Stop
  <2> QED BY <2>1, <2>2 DEF SessionsInv, CommandsAccepted
<1>3. CASE /\ error = "running"
           /\ Become(IF sent THEN joined ELSE RemoveSessions(joined, {c}))
           /\ IF role = "Player"
              THEN nextEntity' = nextEntity + 1 /\ nextOwner' = owner + 1
              ELSE UNCHANGED <<nextEntity, nextOwner>>
           /\ UNCHANGED oddTick
  <2>1. StateAgrees(joined, free, given) /\ given \in 0 .. InvalidOwner
    <3>1. CASE role = "Player"
      <4>1. OwnerCandidates # {} /\ nextEntity # InvalidEntity
        BY <1>3, <3>1 DEF AcceptError
      <4>2. OwnerCandidates \in SUBSET Nat /\ OwnerCandidates \subseteq 0 .. InvalidOwner - 1
        BY <1>1 DEF OwnerCandidates
      <4>3. owner \in OwnerCandidates
        BY <4>1, <4>2, NatMinIs
      <4> HIDE DEF owner
      <4>4. owner \in 0 .. InvalidOwner - 1
        BY <4>2, <4>3
      <4>5. owner + 1 \in 0 .. InvalidOwner
        BY <1>1, <4>4
      <4>6. Agree([sessions EXCEPT ![c] = Accepted(@, "Player", owner)],
                  With(players, nextEntity, owner), nextEntity + 1, owner + 1)
        BY <1>1, <4>1, <4>3, PlayerAccepted
      <4> QED BY <3>1, <4>5, <4>6 DEF StateAgrees
    <3>2. CASE role = "Spectator"
      <4> HIDE DEF owner
      <4>1. Agree([sessions EXCEPT ![c] = Accepted(@, "Spectator", owner)],
                  players, nextEntity, nextOwner)
        BY <1>1, SpectatorAccepted
      <4> QED BY <1>1, <3>2, <4>1 DEF StateAgrees
    <3> QED BY <3>1, <3>2
  <2>2. c \in DOMAIN joined.sessions
    BY <1>1
  <2>3. nextEntity' = free /\ nextOwner' = given /\ oddTick' = oddTick
    BY <1>3
  <2>4. server' = "running"
    BY <1>3 DEF Become, Join
  <2>5. PICK st : st = IF sent THEN joined ELSE RemoveSessions(joined, {c})
    OBVIOUS
  <2>6. sessions' = st.sessions /\ players' = st.players
    BY <1>3, <2>5 DEF Become
  <2> HIDE DEF joined, free, given
  <2>7. StateAgrees(st, free, given)
    <3>1. {c} \subseteq DOMAIN joined.sessions
      BY <2>2
    <3>2. StateAgrees(RemoveSessions(joined, {c}), free, given)
      BY <2>1, <3>1, RemoveSessionsAgrees
    <3> QED BY <2>1, <2>5, <3>2
  <2> QED BY <1>1, <2>1, <2>3, <2>4, <2>6, <2>7, BecomeKeeps
<1> QED
  BY <1>2, <1>3 DEF Join

\* A session heard anew.
LEMMA HeardAgrees ==
  ASSUME SessionsInv, SessionsAssumption, NEW c \in DOMAIN sessions,
         NEW waiting \in Seq(Actions), NEW receipts \in 0 .. ReceiptCapacity
  PROVE  Agree([sessions EXCEPT ![c] = [sessions[c] EXCEPT
                  !.idle = 0, !.inputs = waiting, !.receipts = receipts]],
               players, nextEntity, nextOwner)
<1> DEFINE x == sessions[c]
           y == [x EXCEPT !.idle = 0, !.inputs = waiting, !.receipts = receipts]
           t == [sessions EXCEPT ![c] = y]
<1>1. Agree(sessions, players, nextEntity, nextOwner)
  BY DEF SessionsInv
<1>2. x \in Sessions /\ Fits(x, players)
  BY <1>1, SessionFacts
<1>3. Replaces(y, x, players)
  <2>1. 0 \in 0 .. LivenessTimeout + HandshakeTimeout
    BY DEF SessionsAssumption
  <2> HIDE DEF x
  <2>2. PICK a : a = [x EXCEPT !.idle = 0]
    OBVIOUS
  <2>3. PICK b : b = [a EXCEPT !.inputs = waiting]
    OBVIOUS
  <2>4. y = [b EXCEPT !.receipts = receipts]
    BY <1>2, <2>2, <2>3 DEF Sessions
  <2> HIDE DEF y
  <2>5. a \in Sessions /\ a.owner = x.owner /\ Fits(a, players)
    BY <1>2, <2>1, <2>2 DEF Sessions, Fits
  <2>6. b \in Sessions /\ b.owner = x.owner /\ Fits(b, players)
    BY <2>3, <2>5 DEF Sessions, Fits
  <2> QED BY <2>4, <2>6 DEF Sessions, Fits, Replaces
<1>4. /\ t = [d \in DOMAIN sessions |-> t[d]]
      /\ t[c] = y /\ \A d \in DOMAIN sessions \ {c} : t[d] = sessions[d]
  OBVIOUS
<1> HIDE DEF y, t
<1>5. ASSUME NEW d \in DOMAIN sessions
      PROVE  Replaces(t[d], sessions[d], players)
  <2>1. CASE d = c
    BY <1>3, <1>4, <2>1
  <2>2. CASE d # c
    <3>1. sessions[d] \in Sessions /\ Fits(sessions[d], players)
      BY <1>1, SessionFacts
    <3> QED BY <1>4, <2>2, <3>1 DEF Replaces
  <2> QED BY <2>1, <2>2
<1>6. Agree(t, players, nextEntity, nextOwner)
  BY <1>1, <1>4, <1>5, PointwiseAgrees
<1> QED
  BY <1>6 DEF t, y

\* A status or an input packet.
LEMMA HearKeeps ==
  ASSUME SessionsInv, SessionsAssumption, NEW c, NEW fresh \in Seq(Actions),
         NEW acknowledged \in 0 .. ReceiptCapacity, Hear(c, fresh, acknowledged)
  PROVE  SessionsInv'
<1>1. /\ c \in DOMAIN sessions /\ acknowledged <= sessions[c].receipts
      /\ UNCHANGED <<players, nextEntity, nextOwner, oddTick, server>>
  BY DEF Hear
<1>2. sessions[c] \in Sessions
  BY <1>1, SessionFacts DEF SessionsInv
<1>3. /\ sessions[c].inputs \o fresh \in Seq(Actions)
      /\ sessions[c].receipts - acknowledged \in 0 .. ReceiptCapacity
  <2>1. sessions[c].inputs \in Seq(Actions)
    BY <1>2 DEF Sessions
  <2>2. sessions[c].receipts \in 0 .. ReceiptCapacity
    BY <1>2 DEF Sessions
  <2>3. sessions[c].receipts - acknowledged \in 0 .. ReceiptCapacity
    BY <1>1, <2>2 DEF SessionsAssumption
  <2> QED BY <2>1, <2>3, ConcatProperties
<1>4. sessions' = [sessions EXCEPT ![c] = [sessions[c] EXCEPT !.idle = 0,
         !.inputs = sessions[c].inputs \o fresh,
         !.receipts = sessions[c].receipts - acknowledged]]
  BY <1>1, <1>2 DEF Hear, Sessions
<1>5. Agree(sessions', players, nextEntity, nextOwner)
  BY <1>1, <1>3, <1>4, HeardAgrees
<1> QED
  BY <1>1, <1>5 DEF SessionsInv, CommandsAccepted

\* A repeated hello.
LEMMA JoinAgainKeeps ==
  ASSUME SessionsInv, SessionsAssumption, NEW c, NEW role, NEW sent,
         JoinAgain(c, role, sent)
  PROVE  SessionsInv'
<1> DEFINE refreshed == [Current EXCEPT !.sessions[c].idle = 0]
<1>1. /\ c \in DOMAIN sessions /\ nextOwner \in 0 .. InvalidOwner /\ oddTick \in BOOLEAN
      /\ UNCHANGED <<nextEntity, nextOwner, oddTick>>
  BY DEF JoinAgain, SessionsInv
<1>2. PICK x : x = sessions[c]
  OBVIOUS
<1>3. x \in Sessions
  BY <1>1, <1>2, SessionFacts DEF SessionsInv
<1>4. PICK t : t = [sessions EXCEPT ![c] = [x EXCEPT !.idle = 0]]
  OBVIOUS
<1>5. refreshed = [sessions |-> t, players |-> players]
  BY <1>1, <1>2, <1>4 DEF Current
<1>6. Agree(t, players, nextEntity, nextOwner)
  <2>1. x.inputs \in Seq(Actions) /\ x.receipts \in 0 .. ReceiptCapacity
    BY <1>3 DEF Sessions
  <2>2. [x EXCEPT !.idle = 0]
          = [x EXCEPT !.idle = 0, !.inputs = x.inputs, !.receipts = x.receipts]
    BY <1>3 DEF Sessions
  <2>3. t = [sessions EXCEPT ![c] = [sessions[c] EXCEPT
               !.idle = 0, !.inputs = x.inputs, !.receipts = x.receipts]]
    BY <1>2, <1>4, <2>2
  <2> QED BY <1>1, <2>1, <2>3, HeardAgrees
<1>7. StateAgrees(refreshed, nextEntity, nextOwner)
  BY <1>5, <1>6 DEF StateAgrees
<1>8. StateAgrees(RemoveSessions(Current, {c}), nextEntity, nextOwner)
  <2>1. {c} \subseteq DOMAIN Current.sessions
    BY <1>1, CurrentAgrees
  <2> QED BY <2>1, CurrentAgrees, RemoveSessionsAgrees
<1>9. PICK st : st = IF role = sessions[c].role /\ sent THEN refreshed
                     ELSE RemoveSessions(Current, {c})
  OBVIOUS
<1> HIDE DEF refreshed
<1>10. StateAgrees(st, nextEntity, nextOwner)
  BY <1>7, <1>8, <1>9
<1>11. sessions' = st.sessions /\ players' = st.players /\ server' = "running"
  BY <1>9 DEF JoinAgain, Become, refreshed
<1> QED
  BY <1>1, <1>10, <1>11, BecomeKeeps

-----------------------------------------------------------------------------
(* step.                                                                   *)

\* The sessions that go on have been heard less than a timeout ago.
LEMMA ActiveAgrees ==
  ASSUME SessionsInv, SessionsAssumption,
         NEW active, active = RemoveSessions(Current, Inactive)
  PROVE  /\ StateAgrees(active, nextEntity, nextOwner)
         /\ \A c \in DOMAIN active.sessions :
              active.sessions[c].idle < LivenessTimeout + HandshakeTimeout
<1>1. /\ StateAgrees(Current, nextEntity, nextOwner)
      /\ Current.sessions = sessions
  BY CurrentAgrees
<1>2. Inactive \subseteq DOMAIN Current.sessions
  BY <1>1 DEF Inactive
<1>3. /\ StateAgrees(active, nextEntity, nextOwner)
      /\ DOMAIN active.sessions = DOMAIN sessions \ Inactive
      /\ \A c \in DOMAIN sessions \ Inactive : active.sessions[c] = sessions[c]
  BY <1>1, <1>2, RemoveSessionsAgrees
<1>4. ASSUME NEW c \in DOMAIN sessions \ Inactive
      PROVE  sessions[c].idle < LivenessTimeout + HandshakeTimeout
  <2>1. sessions[c] \in Sessions
    BY SessionFacts DEF SessionsInv
  <2>2. sessions[c].idle \in Int /\ LivenessTimeout \in Nat \ {0}
        /\ HandshakeTimeout \in Nat \ {0}
    BY <2>1 DEF Sessions, SessionsAssumption
  <2>3. ~(sessions[c].idle >= IF sessions[c].ready THEN LivenessTimeout ELSE HandshakeTimeout)
    BY DEF Inactive
  <2> QED BY <2>2, <2>3
<1> QED
  BY <1>3, <1>4

\* Every command of a tick names an owner with a player.
LEMMA CommandsNamePlayers ==
  ASSUME NEW st, NEW free, NEW given, StateAgrees(st, free, given)
  PROVE  Commanded(st) \subseteq Range(st.players)
<1> SUFFICES ASSUME NEW c \in DOMAIN st.sessions, st.sessions[c].ready,
                    st.sessions[c].mode = "Playing"
             PROVE  st.sessions[c].owner \in Range(st.players)
  BY DEF Commanded
<1>1. PICK x : x = st.sessions[c]
  OBVIOUS
<1>2. Fits(x, st.players)
  BY <1>1, SessionFacts DEF StateAgrees
<1>3. x.owner # NoId /\ x.ready /\ x.mode = "Playing"
  BY <1>1, <1>2 DEF Fits
<1>4. x.primary \in Pieces(st.players, x.owner)
  BY <1>2, <1>3 DEF Fits
<1>5. x.primary \in DOMAIN st.players /\ st.players[x.primary] = x.owner
  BY <1>4 DEF Pieces
<1> QED
  BY <1>1, <1>5 DEF Range

\* A command error is never one of an owner without players, and none at all
\* leaves the ids in range.
LEMMA CommandErrors ==
  ASSUME NEW st, NEW free, NEW given, StateAgrees(st, free, given), NEW after
  PROVE  /\ CommandError(st, after) # "SimulationInputRejected"
         /\ CommandError(st, after) = "running" => ~(after > InvalidEntity)
BY CommandsNamePlayers DEF CommandError

\* What follows World::advance.
LEMMA FinishKeeps ==
  ASSUME SessionsInv, SessionsAssumption, server = "running",
         NEW st, NEW outcome, WorldGood(st, outcome, nextOwner),
         NEW from, StateAgrees(st, from, nextOwner),
         Finish(st, outcome)
  PROVE  SessionsInv'
<1>1. nextOwner \in 0 .. InvalidOwner /\ oddTick \in BOOLEAN
  BY DEF SessionsInv
<1>2. PICK processed : processed = Processed(st, outcome.journal, outcome.owners)
  OBVIOUS
<1>3. Settles(processed, st, outcome, nextOwner)
  <2>1. Extends(outcome.owners, outcome.owners)
    BY DEF Extends
  <2> QED BY <1>2, <2>1 DEF WorldGood
<1>4. PICK before : before = [sessions |-> processed.sessions, players |-> outcome.players]
  OBVIOUS
<1>5. PICK survived : survived = RemoveSessions(before, processed.overflowed)
  OBVIOUS
<1>6. PICK settled : settled = Refreshed(Acknowledged(survived, Selected(st)))
  OBVIOUS
<1>7. StateAgrees(before, outcome.next, nextOwner) /\ before.sessions = processed.sessions
  BY <1>3, <1>4 DEF Settles, StateAgrees
<1>8. /\ StateAgrees(survived, outcome.next, nextOwner)
      /\ DOMAIN survived.sessions = DOMAIN before.sessions \ processed.overflowed
      /\ \A c \in DOMAIN before.sessions \ processed.overflowed :
           survived.sessions[c] = before.sessions[c]
  <2>1. processed.overflowed \subseteq DOMAIN before.sessions
    BY <1>3, <1>7 DEF Settles
  <2> QED BY <1>5, <1>7, <2>1, RemoveSessionsAgrees
<1>9. ASSUME NEW c \in DOMAIN survived.sessions, c \in Selected(st)
      PROVE  survived.sessions[c].inputs # << >>
  <2>1. c \in DOMAIN st.sessions /\ st.sessions[c].inputs # << >>
    BY <1>9 DEF Selected
  <2>2. survived.sessions[c] = processed.sessions[c]
    BY <1>7, <1>8
  <2>3. processed.sessions[c].inputs = st.sessions[c].inputs
    BY <1>3, <2>1 DEF Settles
  <2> QED BY <2>1, <2>2, <2>3
<1>10. StateAgrees(Acknowledged(survived, Selected(st)), outcome.next, nextOwner)
  BY <1>8, <1>9, AcknowledgedAgrees
<1>11. StateAgrees(settled, outcome.next, nextOwner)
  BY <1>6, <1>10, RefreshedAgrees
<1>12. CASE Stop("crashed")
  BY <1>1, <1>12 DEF Stop, SessionsInv, CommandsAccepted
<1>13. CASE /\ nextEntity' = outcome.next /\ oddTick' = ~oddTick
            /\ Publish(settled) /\ UNCHANGED nextOwner
  <2>1. oddTick' \in BOOLEAN /\ nextEntity' = outcome.next /\ nextOwner' = nextOwner
    BY <1>13
  <2>2. CASE Become(settled)
    <3>1. sessions' = settled.sessions /\ players' = settled.players
          /\ server' # "SimulationInputRejected"
      BY <2>2 DEF Become
    <3> QED BY <1>1, <1>11, <2>1, <3>1, BecomeKeeps
  <2>3. ASSUME NEW order \in SetToSeqs(Ready(settled)), NEW failing,
               LET sent == Snapshots(settled, order, failing)
               IN IF sent.status = "running" THEN Become(sent.st)
                  ELSE /\ sessions' = sent.st.sessions /\ players' = sent.st.players
                       /\ server' = sent.status
        PROVE  SessionsInv'
    <3>1. PICK sent : sent = Snapshots(settled, order, failing)
      OBVIOUS
    <3>2. Len(order) \in Nat
      <4>1. IsFiniteSet(DOMAIN settled.sessions)
        BY <1>11 DEF StateAgrees, Agree, SessionMap
      <4>2. IsFiniteSet(Ready(settled))
        BY <4>1, FS_Subset DEF Ready
      <4>3. Cardinality(Ready(settled)) \in Nat
        BY <4>2, FS_CardinalityType
      <4>4. order \in [1 .. Cardinality(Ready(settled)) -> Ready(settled)]
        BY DEF SetToSeqs
      <4> QED BY <4>3, <4>4
    <3>3. SentOK(sent, outcome.next, nextOwner)
      BY <1>11, <3>1, <3>2, SnapshotsAgree
    <3>4. sessions' = sent.st.sessions /\ players' = sent.st.players
          /\ server' # "SimulationInputRejected"
      BY <2>3, <3>1, <3>3 DEF SentOK, Become
    <3> QED BY <1>1, <2>1, <3>3, <3>4, BecomeKeeps DEF SentOK
  <2> QED BY <1>13, <2>2, <2>3 DEF Publish
<1>14. \/ Stop("crashed")
       \/ /\ nextEntity' = outcome.next /\ oddTick' = ~oddTick
          /\ Publish(settled) /\ UNCHANGED nextOwner
  BY <1>2, <1>4, <1>5, <1>6 DEF Finish
<1> QED
  BY <1>12, <1>13, <1>14

\* A tick: silent sessions go, respawns are placed, commands are checked, and the
\* world moves on.
LEMMA StepKeeps ==
  ASSUME SessionsInv, SessionsAssumption, Step
  PROVE  SessionsInv'
<1>1. PICK active : active = RemoveSessions(Current, Inactive)
  OBVIOUS
<1>2. /\ StateAgrees(active, nextEntity, nextOwner)
      /\ \A c \in DOMAIN active.sessions :
           active.sessions[c].idle < LivenessTimeout + HandshakeTimeout
  BY <1>1, ActiveAgrees
<1>3. PICK spawned \in Spawns(active) :
        LET st == Counted(Respawned(active, spawned))
            free == nextEntity + Cardinality(DOMAIN spawned)
        IN \/ /\ CommandError(st, free) # "running"
              /\ Stop(CommandError(st, free))
           \/ /\ CommandError(st, free) = "running"
              /\ \E outcome \in Outcomes(World(st, free), Splitting(st)) :
                   Finish(Aged(st), outcome)
  BY <1>1 DEF Step
<1>4. PICK free : free = nextEntity + Cardinality(DOMAIN spawned)
  OBVIOUS
<1>5. PICK placed : placed = Respawned(active, spawned)
  OBVIOUS
<1>6. PICK st : st = Counted(placed)
  OBVIOUS
<1>7. PICK aged : aged = Aged(st)
  OBVIOUS
<1>8. /\ server = "running"
      /\ \/ CommandError(st, free) # "running" /\ Stop(CommandError(st, free))
         \/ /\ CommandError(st, free) = "running"
            /\ \E outcome \in Outcomes(World(st, free), Splitting(st)) :
                 Finish(aged, outcome)
  BY <1>3, <1>4, <1>5, <1>6, <1>7 DEF Step
<1>9. /\ nextEntity \in Nat /\ nextOwner \in Nat /\ InvalidEntity \in Nat
      /\ nextEntity \in 0 .. InvalidEntity
  BY CurrentAgrees DEF SessionsAssumption, SessionsInv, Agree, PlayerMap
<1>10. PICK who \in SUBSET Respawnable(active) :
         /\ spawned \in [who -> nextEntity .. nextEntity + Cardinality(who) - 1]
         /\ IsInjective(spawned)
  BY <1>3 DEF Spawns
<1>11. DOMAIN spawned = who /\ free \in Nat /\ free >= nextEntity
       /\ spawned \in [who -> nextEntity .. free - 1]
  <2>1. who \subseteq DOMAIN active.sessions
    BY DEF Respawnable, Selected
  <2>2. IsFiniteSet(who)
    BY <1>2, <2>1, FS_Subset DEF StateAgrees, Agree, SessionMap
  <2>3. Cardinality(who) \in Nat
    BY <2>2, FS_CardinalityType
  <2>4. DOMAIN spawned = who
    BY <1>10
  <2>5. free = nextEntity + Cardinality(who)
    BY <1>4, <2>4
  <2> QED BY <1>9, <1>10, <2>3, <2>4, <2>5
<1>12. ASSUME NEW after \in nextEntity .. InvalidEntity,
              spawned \in [who -> nextEntity .. after - 1]
       PROVE  /\ StateAgrees(st, after, nextOwner)
              /\ DOMAIN st.sessions = DOMAIN active.sessions
              /\ \A c \in DOMAIN st.sessions : st.sessions[c].idle = active.sessions[c].idle
  <2>1. /\ StateAgrees(placed, after, nextOwner)
        /\ DOMAIN placed.sessions = DOMAIN active.sessions
        /\ \A c \in DOMAIN active.sessions :
             placed.sessions[c].idle = active.sessions[c].idle
    BY <1>2, <1>5, <1>9, <1>10, <1>12, RespawnedAgrees
  <2> QED BY <1>6, <2>1, CountedAgrees
<1>13. CASE free > InvalidEntity
  <2>1. /\ CommandError(st, free) \in {"InvalidWorldState", "EntityIdExhausted"}
    BY <1>13 DEF CommandError
  <2>2. Stop(CommandError(st, free))
    BY <1>8, <2>1
  <2>3. /\ UNCHANGED <<sessions, players, nextEntity, nextOwner, oddTick>>
        /\ server' # "SimulationInputRejected"
    BY <2>1, <2>2 DEF Stop
  <2> QED BY <2>3 DEF SessionsInv, CommandsAccepted
<1>14. CASE ~(free > InvalidEntity)
  <2>1. free \in nextEntity .. InvalidEntity
    BY <1>9, <1>11, <1>14
  <2>2. /\ StateAgrees(st, free, nextOwner)
        /\ \A c \in DOMAIN st.sessions :
             st.sessions[c].idle < LivenessTimeout + HandshakeTimeout
    BY <1>2, <1>11, <1>12, <2>1
  <2>3. CASE Stop(CommandError(st, free))
    <3>1. CommandError(st, free) # "SimulationInputRejected"
      BY <2>2, CommandErrors
    <3>2. /\ UNCHANGED <<sessions, players, nextEntity, nextOwner, oddTick>>
          /\ server' # "SimulationInputRejected"
      BY <2>3, <3>1 DEF Stop
    <3> QED BY <3>2 DEF SessionsInv, CommandsAccepted
  <2>4. ASSUME NEW outcome \in Outcomes(World(st, free), Splitting(st)),
               Finish(aged, outcome)
        PROVE  SessionsInv'
    <3>1. StateAgrees(aged, free, nextOwner) /\ aged.players = st.players
      BY <1>7, <2>2, AgedAgrees
    <3>2. WorldGood(aged, World(st, free), nextOwner)
      BY <3>1, WorldStarts
    <3>3. WorldGood(aged, outcome, nextOwner)
      BY <1>9, <3>2, OutcomesGood
    <3> QED BY <1>8, <2>4, <3>1, <3>3, FinishKeeps
  <2> QED BY <1>8, <2>3, <2>4
<1> QED
  BY <1>13, <1>14

-----------------------------------------------------------------------------
(* The invariant.                                                          *)

\* An empty server.
LEMMA SessionsInvInit ==
  ASSUME SessionsInit, SessionsAssumption
  PROVE  SessionsInv
<1>1. /\ sessions = << >> /\ players = << >> /\ nextEntity = 0 /\ nextOwner = 0
      /\ oddTick = FALSE /\ server = "running"
  BY DEF SessionsInit
<1>2. DOMAIN sessions = {} /\ DOMAIN players = {}
  BY <1>1
<1>3. SessionMap(sessions)
  BY <1>1, <1>2, FS_EmptySet DEF SessionMap
<1>4. PlayerMap(players, 0, 0)
  BY <1>1, <1>2 DEF PlayerMap, SessionsAssumption
<1>5. Owned(sessions, players, 0)
  BY <1>2 DEF Owned
<1>6. Agree(sessions, players, nextEntity, nextOwner)
  BY <1>1, <1>2, <1>3, <1>4, <1>5 DEF Agree
<1>7. nextOwner \in 0 .. InvalidOwner
  BY <1>1 DEF SessionsAssumption
<1> QED
  BY <1>1, <1>6, <1>7 DEF SessionsInv, CommandsAccepted

\* Every action.
LEMMA SessionsInvStep ==
  ASSUME SessionsInv, SessionsAssumption, [SessionsNext]_sessionVars
  PROVE  SessionsInv'
<1>1. CASE UNCHANGED sessionVars
  BY <1>1 DEF SessionsInv, CommandsAccepted, sessionVars
<1>2. ASSUME NEW c \in Connections, Connect(c) \/ Leave(c)
      PROVE  SessionsInv'
  BY <1>2, ConnectKeeps, LeaveKeeps
<1>3. ASSUME NEW c \in Connections, NEW role \in {"Player", "Spectator"},
             NEW safe \in BOOLEAN, NEW sent \in BOOLEAN, Join(c, role, safe, sent)
      PROVE  SessionsInv'
  BY <1>3, JoinKeeps
<1>4. ASSUME NEW c \in Connections, NEW role \in {"Player", "Spectator"},
             NEW sent \in BOOLEAN, JoinAgain(c, role, sent)
      PROVE  SessionsInv'
  BY <1>4, JoinAgainKeeps
<1>5. ASSUME NEW c \in Connections, NEW acknowledged \in 0 .. ReceiptCapacity,
             NEW fresh \in {<< >>} \cup {<<a>> : a \in Actions},
             Hear(c, fresh, acknowledged)
      PROVE  SessionsInv'
  <2>1. << >> \in Seq(Actions) /\ \A a \in Actions : <<a>> \in Seq(Actions)
    OBVIOUS
  <2>2. fresh = << >> \/ \E a \in Actions : fresh = <<a>>
    OBVIOUS
  <2>3. fresh \in Seq(Actions)
    BY <2>1, <2>2
  <2> QED BY <1>5, <2>3, HearKeeps
<1>6. CASE Step
  BY <1>6, StepKeeps
<1> QED
  BY <1>1, <1>2, <1>3, <1>4, <1>5, <1>6 DEF SessionsNext

\* Sessions and world agree after every tick and every message, with every
\* session's owner, pieces, primary, mode and respawn in step.
THEOREM SessionsInvHolds == SessionsSpec => []SessionsInv
<1>1. SessionsInit => SessionsInv
  BY SessionsInvInit, SessionsAssumption
<1>2. SessionsInv /\ [SessionsNext]_sessionVars => SessionsInv'
  BY SessionsInvStep, SessionsAssumption
<1> QED
  BY <1>1, <1>2, PTL DEF SessionsSpec

\* The invariant implies the property the run checks.
LEMMA InvImpliesSound ==
  ASSUME SessionsInv, SessionsAssumption
  PROVE  SessionsSound
<1>1. /\ SessionMap(sessions) /\ PlayerMap(players, nextEntity, nextOwner)
      /\ \A c \in DOMAIN sessions : Fits(sessions[c], players)
      /\ Owned(sessions, players, nextOwner)
      /\ nextOwner \in 0 .. InvalidOwner /\ oddTick \in BOOLEAN /\ CommandsAccepted
  BY DEF SessionsInv, Agree
<1>2. SessionsTypeOK
  <2>1. Range(sessions) \subseteq Sessions /\ DOMAIN sessions \subseteq Connections
    BY <1>1 DEF SessionMap, Range
  <2>2. Range(players) \subseteq 0 .. nextOwner - 1
    BY <1>1 DEF PlayerMap, Range
  <2> QED BY <1>1, <2>1, <2>2 DEF PlayerMap, SessionsTypeOK
<1>3. OwnershipAgrees
  <2>1. ASSUME NEW c \in DOMAIN sessions
        PROVE  LET s == sessions[c]
               IN /\ s.pieces = IF s.owner = NoId THEN {} ELSE Pieces(players, s.owner)
                  /\ s.owner # NoId <=> s.ready /\ s.role = "Player"
                  /\ s.owner # NoId /\ s.mode = "Playing" =>
                       s.primary \in s.pieces /\ s.respawn = NoTick
                  /\ s.owner # NoId /\ s.mode = "Spectating" =>
                       s.pieces = {} /\ s.respawn # NoTick
    BY <1>1 DEF Fits
  <2> QED BY <1>1, <2>1 DEF OwnershipAgrees, Owned
<1> QED
  BY <1>1, <1>2, <1>3 DEF SessionsSound

\* A session lists exactly the world's players of its owner, with its primary
\* among them while it plays and a respawn to wait for while it does not; no
\* player is left behind; and no tick ever meets a command of an owner without
\* players.
THEOREM SessionsAlwaysSound == SessionsSpec => []SessionsSound
<1>1. SessionsInv => SessionsSound
  BY InvImpliesSound, SessionsAssumption
<1> QED
  BY <1>1, SessionsInvHolds, PTL

-----------------------------------------------------------------------------
(* The client: the inductive invariant.                                    *)

Modes == {"Playing", "Spectating"}
ServerStates == [tick : Nat, ack : -1 .. InvalidInput - 1, mode : Modes]

\* The server has applied only commands that were submitted, snapshots are
\* states it was in, later ones acknowledge no less, and the client's world is
\* one of them.
ServerSide ==
  /\ next \in 0 .. InvalidInput
  /\ authority \in ServerStates /\ authority.tick <= MaxTick /\ authority.ack < next
  /\ snapshots \subseteq ServerStates
  /\ \A s \in snapshots :
       /\ s.tick <= authority.tick /\ s.ack <= authority.ack
       /\ s.tick = authority.tick => s = authority
  /\ \A s, t \in snapshots : s.tick <= t.tick => s.ack <= t.ack
  /\ world \in snapshots \cup {NoSnapshot}
  /\ respawns \subseteq 0 .. next - 1

\* A player that a snapshot saw defeated plays again only because a respawn
\* request past that snapshot was applied.
RespawnEvidence ==
  /\ \A s \in snapshots :
       s.mode = "Spectating" /\ authority.mode = "Playing"
         => \E r \in respawns : s.ack < r /\ r <= authority.ack
  /\ \A s, t \in snapshots :
       s.mode = "Spectating" /\ t.mode = "Playing" /\ s.tick < t.tick
         => \E r \in respawns : s.ack < r /\ r <= t.ack

\* t predicts from the snapshot s: it has stepped the first m of the h commands
\* before nx, all of them while its player is alive and some of them otherwise.
FitsHistory(t, s, h, nx) ==
  /\ t \in Timelines /\ t.tick = s.tick /\ t.acked = s.ack
  /\ h \in 0 .. HistoryCapacity /\ s.ack < nx - h /\ h <= nx
  /\ t.submitted \in s.ack .. nx - 1
  /\ \E m \in 0 .. h :
       /\ t.frames = Interval(nx - 1 - h, m)
       /\ t.alive => m = h
       /\ m = 0 => h = 0 /\ t.alive
       /\ m > 0 => t.submitted = nx - 1 - h + m

\* A timeline without a stepped command has seen the last one submitted.  This,
\* which keeps acknowledgements from running ahead of an empty history, needs
\* respawn requests to go out one at a time: doubled tells when they have not.
CaughtUp(t, nx) == t.frames = << >> => t.submitted = nx - 1

\* The history is a run of commands that ends with the last one submitted.
HistoryIsRun ==
  /\ Len(inputs) \in 0 .. HistoryCapacity /\ Len(inputs) <= next
  /\ inputs = Interval(next - 1 - Len(inputs), Len(inputs))

\* A client without a session, one whose player is defeated, and one that plays.
HasPlayed == welcomed /\ world # NoSnapshot
Waiting == timeline = None /\ inputs = << >> /\ next = 0 /\ respawns = {}
Defeated ==
  /\ timeline = None /\ inputs = << >>
  /\ ~doubled => \A r \in respawns : r <= world.ack \/ r = next - 1
Predicting ==
  /\ timeline # None /\ FitsHistory(timeline, world, Len(inputs), next)
  /\ ~doubled => CaughtUp(timeline, next) /\ \A r \in respawns : r <= world.ack

ClientHealthy ==
  failed = "none" =>
    /\ ~HasPlayed => Waiting
    /\ HasPlayed /\ world.mode = "Spectating" => Defeated
    /\ HasPlayed /\ world.mode = "Playing" => Predicting

PredictionInv ==
  /\ PredictionTypeOK /\ ServerSide /\ RespawnEvidence /\ HistoryIsRun
  /\ ClientHealthy /\ FailuresExplained

-----------------------------------------------------------------------------
(* Lemmas about the timeline's calls.                                      *)

\* discard_through on a run of commands leaves the rest of the run.
LEMMA BeyondInterval ==
  ASSUME NEW a \in Int, NEW n \in Nat, NEW ack \in Int
  PROVE  /\ ack <= a => Beyond(Interval(a, n), ack) = Interval(a, n)
         /\ ack \in a .. a + n => Beyond(Interval(a, n), ack) = Interval(ack, a + n - ack)
         /\ ack >= a + n => Beyond(Interval(a, n), ack) = << >>
BY IntervalDrop DEF Beyond, Popped

\* A run of valid inputs is a sequence of inputs.
LEMMA InputRun ==
  ASSUME NEW a \in Int, NEW n \in Nat, n = 0 \/ (a >= -1 /\ a + n < InvalidInput)
  PROVE  Interval(a, n) \in Seq(Inputs)
<1>1. /\ Interval(a, n) \in Seq(Int) /\ Len(Interval(a, n)) = n
      /\ \A i \in 1 .. n : Interval(a, n)[i] = a + i
  BY IntervalProperties
<1>2. ASSUME NEW i \in 1 .. n PROVE Interval(a, n)[i] \in Inputs
  <2>1. a + i \in Inputs
    BY PredictionAssumption DEF Inputs
  <2> QED BY <1>1, <2>1
<1> QED
  BY <1>1, <1>2, ElementOfSeq, SeqDef

\* u is t, with m commands after f stepped, advanced over the next l: a prefix of
\* them is stepped, and all unless the player is gone.
AdvancedBy(u, t, f, m, l) ==
  /\ u \in Timelines /\ u.tick = t.tick /\ u.acked = t.acked /\ u.epoch = t.epoch
  /\ \E n \in 0 .. l :
       /\ u.frames = Interval(f, m + n)
       /\ n = 0 => u.alive = t.alive /\ u.submitted = t.submitted
       /\ n > 0 => t.alive /\ u.submitted = f + m + n
       /\ n < l => ~u.alive

\* What advancing a timeline over a run of commands commits.
LEMMA AdvancedOutcome ==
  ASSUME NEW t \in Timelines, NEW f \in Int, f >= -1, NEW m \in Nat, NEW l \in Nat,
         t.frames = Interval(f, m), f + m + l < InvalidInput,
         NEW u \in Advanced(t, Interval(f + m, l))
  PROVE  AdvancedBy(u, t, f, m, l)
<1> USE PredictionAssumption
<1> DEFINE c == Interval(f + m, l)
<1>1. Len(c) = l /\ \A i \in 1 .. l : c[i] = f + m + i
  BY IntervalProperties
<1> HIDE DEF c
<1>2. PICK p \in (0 .. l) \X BOOLEAN :
        /\ u = [t EXCEPT !.frames = @ \o SubSeq(c, 1, p[1]), !.alive = p[2],
                         !.submitted = IF p[1] = 0 THEN @ ELSE c[p[1]]]
        /\ p[1] = 0 => p[2] = t.alive
        /\ p[1] > 0 => t.alive
        /\ p[1] < l => ~p[2]
  BY <1>1 DEF Advanced, c
<1>3. PICK n \in 0 .. l, alive \in BOOLEAN : n = p[1] /\ alive = p[2]
  OBVIOUS
<1>4. SubSeq(c, 1, n) = Interval(f + m, n)
  <2>1. 0 \in 0 .. l /\ n \in 0 .. l /\ f + m \in Int
    OBVIOUS
  <2>2. SubSeq(c, 0 + 1, n) = Interval(f + m + 0, n - 0)
    BY <2>1, IntervalCut DEF c
  <2>3. f + m + 0 = f + m /\ n - 0 = n /\ 0 + 1 = 1
    OBVIOUS
  <2> QED BY <2>2, <2>3
<1>5. t.frames \o SubSeq(c, 1, n) = Interval(f, m + n)
  <2>1. n \in Nat
    OBVIOUS
  <2> QED BY <1>4, <2>1, IntervalConcat, ZenonT(30)
<1>6. /\ u.frames = Interval(f, m + n) /\ u.alive = alive
      /\ u.submitted = (IF n = 0 THEN t.submitted ELSE c[n])
      /\ u.tick = t.tick /\ u.acked = t.acked /\ u.epoch = t.epoch
  BY <1>2, <1>3, <1>5 DEF Timelines
<1>7. n > 0 => c[n] = f + m + n /\ f + m + n \in Inputs
  BY <1>1 DEF Inputs
<1>8. u.frames \in Seq(Inputs)
  <2>1. m + n \in Nat /\ f + (m + n) < InvalidInput
    OBVIOUS
  <2> QED BY <1>6, <2>1, InputRun
<1>9. u \in Timelines
  <2> DEFINE last == IF n = 0 THEN t.submitted ELSE c[n]
  <2>1. u = [tick |-> t.tick, acked |-> t.acked, submitted |-> last,
             frames |-> t.frames \o SubSeq(c, 1, n), epoch |-> t.epoch, alive |-> alive]
    BY <1>2, <1>3 DEF Timelines
  <2>2. last \in Inputs \cup {NoInput}
    <3>1. CASE n = 0
      BY <3>1 DEF Timelines
    <3>2. CASE n # 0
      BY <1>7, <3>2
    <3> QED BY <3>1, <3>2
  <2>3. t.frames \o SubSeq(c, 1, n) \in Seq(Inputs)
    BY <1>5, <1>6, <1>8
  <2>4. /\ t.tick \in 0 .. MaxTick /\ t.acked \in Inputs \cup {NoInput}
        /\ t.epoch \in 0 .. InvalidEpoch - 1
    BY DEF Timelines
  <2> HIDE DEF last
  <2> QED BY <2>1, <2>2, <2>3, <2>4, Zenon DEF Timelines
<1>10. /\ n = 0 => u.alive = t.alive /\ u.submitted = t.submitted
       /\ n > 0 => t.alive /\ u.submitted = f + m + n
       /\ n < l => ~u.alive
  <2>1. n > 0 => n # 0
    OBVIOUS
  <2> QED BY <1>2, <1>3, <1>6, <1>7, <2>1, Zenon
<1> QED
  BY <1>6, <1>9, <1>10, Zenon DEF AdvancedBy

\* Advancing does not fail for lack of room or because a command is too old.
LEMMA AdvancedPossible ==
  ASSUME NEW t \in Timelines, NEW f \in Int, NEW m \in Nat, NEW l \in Nat,
         t.frames = Interval(f, m), m + l <= HistoryCapacity,
         t.alive /\ l > 0 => t.submitted <= f + m /\ t.acked <= f + m
  PROVE  Advanced(t, Interval(f + m, l)) # {}
<1> USE PredictionAssumption
<1> DEFINE c == Interval(f + m, l)
<1>1. /\ Len(c) = l /\ \A i \in 1 .. l : c[i] = f + m + i
      /\ Len(t.frames) = m
  <2>1. f + m \in Int
    OBVIOUS
  <2> QED BY <2>1, IntervalProperties
<1> HIDE DEF c
<1>2. t.submitted \in Int /\ t.acked \in Int /\ t.alive \in BOOLEAN
  BY DEF Timelines, Inputs, NoInput
<1>3. ASSUME NEW n \in 0 .. l, NEW alive \in BOOLEAN,
             n = 0 => alive = t.alive,
             n > 0 => /\ t.alive /\ c[1] > t.submitted /\ c[1] > t.acked
                      /\ m + n <= HistoryCapacity,
             n < l => ~alive
      PROVE  Advanced(t, c) # {}
  <2> DEFINE q == <<n, alive>>
             Allowed(x) == /\ x[1] = 0 => x[2] = t.alive
                           /\ x[1] > 0 => /\ t.alive
                                          /\ c[1] > t.submitted /\ c[1] > t.acked
                                          /\ Len(t.frames) + x[1] <= HistoryCapacity
                           /\ x[1] < Len(c) => ~x[2]
             Result(x) == [t EXCEPT !.frames = @ \o SubSeq(c, 1, x[1]), !.alive = x[2],
                                    !.submitted = IF x[1] = 0 THEN @ ELSE c[x[1]]]
  <2>1. q \in (0 .. Len(c)) \X BOOLEAN
    BY <1>1
  <2>2. q[1] = n /\ q[2] = alive
    OBVIOUS
  <2> HIDE DEF q
  <2>3. Allowed(q)
    BY <1>1, <1>3, <2>2
  <2>4. Advanced(t, c) = {Result(x) : x \in {y \in (0 .. Len(c)) \X BOOLEAN : Allowed(y)}}
    BY DEF Advanced
  <2> HIDE DEF Allowed, Result
  <2>5. Result(q) \in Advanced(t, c)
    BY <2>1, <2>3, <2>4
  <2> QED BY <2>5
<1>4. CASE t.alive /\ l > 0
  <2>1. c[1] = f + m + 1
    BY <1>1, <1>4
  <2>2. c[1] > t.submitted /\ c[1] > t.acked
    BY <1>2, <1>4, <2>1
  <2>3. l \in 0 .. l /\ TRUE \in BOOLEAN /\ ~(l < l) /\ l # 0
    BY <1>4
  <2>4. Advanced(t, c) # {}
    BY <1>3, <1>4, <2>2, <2>3
  <2> QED BY <2>4 DEF c
<1>5. CASE ~t.alive \/ l = 0
  <2>1. 0 \in 0 .. l /\ ~(0 > 0) /\ (0 < l => ~t.alive)
    BY <1>5
  <2>2. Advanced(t, c) # {}
    BY <1>2, <1>3, <2>1
  <2> QED BY <2>2 DEF c
<1>6. (t.alive /\ l > 0) \/ ~t.alive \/ l = 0
  OBVIOUS
<1> QED
  BY <1>4, <1>5, <1>6, Zenon

\* A timeline that a call has just committed for the snapshot s, before the
\* retained commands it has not stepped are advanced: h commands are retained
\* before nx, the first m of them stepped.
Base(t, s, h, nx) ==
  /\ t \in Timelines /\ t.tick = s.tick /\ t.acked = s.ack
  /\ h \in 0 .. HistoryCapacity /\ s.ack < nx - h /\ h <= nx
  /\ t.submitted \in s.ack .. nx - 1
  /\ \E m \in 0 .. h :
       /\ t.frames = Interval(nx - 1 - h, m)
       /\ m = 0 => t.alive
       /\ h > 0 => t.submitted = nx - 1 - h + m

\* The commands such a timeline has not stepped are the rest of the history.
LEMMA BufferedIs ==
  ASSUME NEW t, NEW f \in Int, NEW h \in Nat, NEW m \in 0 .. h,
         t.frames = Interval(f, m), t.acked \in Int, t.acked <= f
  PROVE  Buffered(t, Interval(f, h)) = Interval(f + m, h - m)
<1>1. /\ Len(t.frames) = m /\ (t.frames = << >> <=> m = 0)
      /\ m > 0 => t.frames[m] = f + m
  <2>1. m \in Nat /\ (m > 0 => m \in 1 .. m)
    OBVIOUS
  <2> QED BY <2>1, IntervalProperties
<1>2. CASE m = 0
  <2>1. Buffered(t, Interval(f, h)) = Interval(f, h)
    BY <1>1, <1>2, BeyondInterval DEF Buffered
  <2>2. f + m = f /\ h - m = h
    BY <1>2
  <2> QED BY <2>1, <2>2
<1>3. CASE m > 0
  <2>1. Buffered(t, Interval(f, h)) = Beyond(Interval(f, h), f + m)
    BY <1>1, <1>3 DEF Buffered
  <2>2. f + m \in Int /\ f + m \in f .. f + h /\ f + h - (f + m) = h - m
    OBVIOUS
  <2>3. Beyond(Interval(f, h), f + m) = Interval(f + m, f + h - (f + m))
    BY <2>2, BeyondInterval
  <2> QED BY <2>1, <2>2, <2>3
<1> QED
  BY <1>2, <1>3

\* Advancing it over them succeeds, and makes a timeline that fits.
LEMMA BaseAdvances ==
  ASSUME NEW s, s.ack \in Int, NEW nx \in 0 .. InvalidInput, NEW h, NEW t, Base(t, s, h, nx)
  PROVE  LET advanced == Advanced(t, Buffered(t, Interval(nx - 1 - h, h)))
         IN /\ advanced # {}
            /\ \A u \in advanced :
                 /\ FitsHistory(u, s, h, nx) /\ u.epoch = t.epoch
                 /\ u.frames = << >> => t.frames = << >> /\ h = 0 /\ u.submitted = t.submitted
<1> USE PredictionAssumption
<1> DEFINE f == nx - 1 - h
<1>1. /\ t \in Timelines /\ t.tick = s.tick /\ t.acked = s.ack
      /\ h \in 0 .. HistoryCapacity /\ s.ack < nx - h /\ h <= nx
      /\ t.submitted \in s.ack .. nx - 1
  BY DEF Base
<1>2. PICK m \in 0 .. h : /\ t.frames = Interval(f, m) /\ (m = 0 => t.alive)
                          /\ (h > 0 => t.submitted = f + m)
  BY DEF Base
<1>3. f \in Int /\ f >= -1 /\ h \in Nat /\ m \in Nat /\ s.ack <= f /\ f + h = nx - 1
  BY <1>1
<1> HIDE DEF f
<1>4. Buffered(t, Interval(f, h)) = Interval(f + m, h - m)
  BY <1>1, <1>2, <1>3, BufferedIs
<1>5. PICK l \in Nat : l = h - m
  BY <1>3
<1>6. Advanced(t, Interval(f + m, l)) # {}
  <2>1. m + l <= HistoryCapacity
    BY <1>1, <1>5
  <2>2. l > 0 => t.submitted <= f + m /\ t.acked <= f + m
    BY <1>1, <1>2, <1>3, <1>5
  <2> QED BY <1>1, <1>2, <1>3, <2>1, <2>2, AdvancedPossible
<1>7. ASSUME NEW u \in Advanced(t, Interval(f + m, l))
      PROVE  /\ FitsHistory(u, s, h, nx) /\ u.epoch = t.epoch
             /\ u.frames = << >> => t.frames = << >> /\ h = 0 /\ u.submitted = t.submitted
  <2>1. f + m + l < InvalidInput
    BY <1>3, <1>5
  <2>2. AdvancedBy(u, t, f, m, l)
    BY <1>1, <1>2, <1>3, <2>1, AdvancedOutcome, Zenon
  <2>3. PICK n \in 0 .. l :
          /\ u.frames = Interval(f, m + n)
          /\ n = 0 => u.alive = t.alive /\ u.submitted = t.submitted
          /\ n > 0 => t.alive /\ u.submitted = f + m + n
          /\ n < l => ~u.alive
    BY <2>2 DEF AdvancedBy
  <2>4. PICK k \in 0 .. h : k = m + n
    <3>1. m + n \in 0 .. h
      BY <1>3, <1>5
    <3> QED BY <3>1
  <2>5. u.frames = Interval(f, k) /\ (u.frames = << >> <=> k = 0)
    <3>1. k \in Nat
      BY <1>3
    <3>2. u.frames = Interval(f, k)
      BY <2>3, <2>4
    <3>3. Interval(f, k) = << >> <=> k = 0
      BY <1>3, <3>1, IntervalProperties
    <3> QED BY <3>2, <3>3
  <2>6. u.alive => k = h
    <3>1. n < l \/ k = h
      BY <1>3, <1>5, <2>4
    <3> QED BY <2>3, <3>1, Zenon
  <2>7. k = 0 => m = 0 /\ n = 0 /\ h = 0 /\ u.alive /\ u.submitted = t.submitted
    <3>1. k = 0 => m = 0 /\ n = 0
      BY <1>3, <2>4
    <3>2. n = 0 /\ ~(n < l) /\ m = 0 => h = 0
      BY <1>3, <1>5
    <3>3. m = 0 /\ n = 0 => u.alive /\ u.submitted = t.submitted
      BY <1>2, <2>3, Zenon
    <3> QED BY <2>3, <3>1, <3>2, <3>3, Zenon
  <2>8. u.submitted \in s.ack .. nx - 1 /\ (k > 0 => u.submitted = f + k)
    <3>1. CASE n = 0
      <4>1. u.submitted = t.submitted
        BY <2>3, <3>1, Zenon
      <4>2. k = m /\ (k > 0 => h > 0)
        BY <1>3, <2>4, <3>1
      <4> QED BY <1>1, <1>2, <4>1, <4>2, Zenon
    <3>2. CASE n > 0
      <4>1. u.submitted = f + m + n
        BY <2>3, <3>2, Zenon
      <4>2. f + m + n = f + k /\ f + k \in s.ack .. nx - 1
        BY <1>3, <2>4
      <4> QED BY <4>1, <4>2, Zenon
    <3>3. n = 0 \/ n > 0
      OBVIOUS
    <3> QED BY <3>1, <3>2, <3>3, Zenon
  <2>9. FitsHistory(u, s, h, nx)
    <3>1. u \in Timelines /\ u.tick = s.tick /\ u.acked = s.ack
      BY <1>1, <2>2, Zenon DEF AdvancedBy
    <3> QED BY <1>1, <2>5, <2>6, <2>7, <2>8, <3>1, Zenon DEF FitsHistory, f
  <2>10. m = 0 => t.frames = << >>
    BY <1>2, <1>3, IntervalProperties
  <2> QED BY <2>2, <2>5, <2>7, <2>9, <2>10, Zenon DEF AdvancedBy
<1> QED
  BY <1>4, <1>5, <1>6, <1>7 DEF f

\* Stepping one more command succeeds and fits.
LEMMA StepFits ==
  ASSUME NEW s, s.ack \in Int, NEW nx \in 0 .. InvalidInput - 1,
         NEW h \in 0 .. HistoryCapacity - 1, NEW t, FitsHistory(t, s, h, nx), t.alive
  PROVE  /\ Advanced(t, <<nx>>) # {}
         /\ \A u \in Advanced(t, <<nx>>) :
              FitsHistory(u, s, h + 1, nx + 1) /\ u.epoch = t.epoch /\ u.frames # << >>
<1> USE PredictionAssumption
<1> DEFINE f == nx - 1 - h
<1>1. /\ t \in Timelines /\ t.tick = s.tick /\ t.acked = s.ack
      /\ s.ack < nx - h /\ h <= nx /\ t.submitted \in s.ack .. nx - 1
      /\ t.frames = Interval(f, h)
  BY DEF FitsHistory
<1>2. /\ f \in Int /\ f >= -1 /\ h \in Nat /\ s.ack <= f /\ f + h = nx - 1 /\ 1 \in Nat
      /\ f + h + 1 < InvalidInput /\ h + 1 <= HistoryCapacity
  BY <1>1
<1>3. <<nx>> = Interval(f + h, 1)
  <2>1. Interval(nx - 1, 1) = <<nx>>
    BY DEF Interval
  <2> QED BY <1>2, <2>1
<1> HIDE DEF f
<1>4. Advanced(t, Interval(f + h, 1)) # {}
  <2>1. t.submitted <= f + h /\ t.acked <= f + h
    BY <1>1, <1>2
  <2> QED BY <1>1, <1>2, <2>1, AdvancedPossible
<1>5. ASSUME NEW u \in Advanced(t, Interval(f + h, 1))
      PROVE  FitsHistory(u, s, h + 1, nx + 1) /\ u.epoch = t.epoch /\ u.frames # << >>
  <2>1. AdvancedBy(u, t, f, h, 1)
    BY <1>1, <1>2, AdvancedOutcome, Zenon
  <2>2. u.frames = Interval(f, h + 1) /\ u.submitted = f + h + 1
    <3>1. PICK n \in 0 .. 1 :
            /\ u.frames = Interval(f, h + n)
            /\ n = 0 => u.alive = t.alive /\ u.submitted = t.submitted
            /\ n > 0 => t.alive /\ u.submitted = f + h + n
            /\ n < 1 => ~u.alive
      BY <2>1 DEF AdvancedBy
    <3>2. n = 1
      <4>1. n = 0 => n < 1
        OBVIOUS
      <4>2. n # 0
        BY <3>1, <4>1, Zenon
      <4> QED BY <4>2
    <3> QED BY <3>1, <3>2
  <2>3. u.frames # << >>
    BY <1>2, <2>2, IntervalProperties
  <2>4. /\ nx + 1 - 1 - (h + 1) = f /\ h + 1 \in 0 .. HistoryCapacity
        /\ s.ack < nx + 1 - (h + 1) /\ h + 1 <= nx + 1
        /\ u.submitted \in s.ack .. nx + 1 - 1 /\ u.submitted = f + (h + 1)
        /\ h + 1 \in 0 .. h + 1 /\ h + 1 # 0
    BY <1>1, <1>2, <2>2 DEF f
  <2>5. FitsHistory(u, s, h + 1, nx + 1)
    <3>1. u \in Timelines /\ u.tick = s.tick /\ u.acked = s.ack
      BY <1>1, <2>1, Zenon DEF AdvancedBy
    <3>2. /\ u.frames = Interval(nx + 1 - 1 - (h + 1), h + 1)
          /\ u.submitted = nx + 1 - 1 - (h + 1) + (h + 1)
      BY <2>2, <2>4, Zenon
    <3> DEFINE k == h + 1
    <3>3. \E m \in 0 .. k :
            /\ u.frames = Interval(nx + 1 - 1 - k, m)
            /\ u.alive => m = k
            /\ m = 0 => k = 0 /\ u.alive
            /\ m > 0 => u.submitted = nx + 1 - 1 - k + m
      BY <2>4, <3>2, Zenon
    <3>4. /\ k \in 0 .. HistoryCapacity /\ s.ack < nx + 1 - k /\ k <= nx + 1
          /\ u.submitted \in s.ack .. nx + 1 - 1
      BY <2>4
    <3> HIDE DEF k
    <3>5. FitsHistory(u, s, k, nx + 1)
      BY <3>1, <3>3, <3>4 DEF FitsHistory
    <3> QED BY <3>5 DEF k
  <2> QED BY <2>1, <2>3, <2>5, Zenon DEF AdvancedBy
<1> QED
  BY <1>3, <1>4, <1>5

\* A command that is deferred leaves a timeline that fits.
LEMMA DeferFits ==
  ASSUME NEW s, s.ack \in Int, NEW nx \in 0 .. InvalidInput - 1,
         NEW h \in 0 .. HistoryCapacity - 1, NEW t, FitsHistory(t, s, h, nx), ~t.alive
  PROVE  FitsHistory(t, s, h + 1, nx + 1) /\ t.frames # << >>
<1> USE PredictionAssumption
<1>1. PICK m \in 0 .. h :
        /\ t.frames = Interval(nx - 1 - h, m)
        /\ m = 0 => h = 0 /\ t.alive
        /\ m > 0 => t.submitted = nx - 1 - h + m
  BY DEF FitsHistory
<1>2. /\ m > 0 /\ m \in 0 .. h + 1 /\ nx + 1 - 1 - (h + 1) = nx - 1 - h
      /\ h + 1 \in 0 .. HistoryCapacity /\ nx + 1 - (h + 1) = nx - h
      /\ s.ack < nx - h /\ h <= nx /\ t.submitted \in s.ack .. nx - 1
  BY <1>1 DEF FitsHistory
<1>3. t.frames # << >>
  <2>1. nx - 1 - h \in Int /\ m \in Nat
    BY <1>1
  <2> QED BY <1>1, <1>2, <2>1, IntervalProperties
<1>4. h + 1 <= nx + 1 /\ t.submitted \in s.ack .. nx + 1 - 1
      /\ t.submitted = nx + 1 - 1 - (h + 1) + m
  BY <1>1, <1>2
<1>5. t \in Timelines /\ t.tick = s.tick /\ t.acked = s.ack /\ m # 0
  BY <1>2 DEF FitsHistory
<1>6. t.frames = Interval(nx + 1 - 1 - (h + 1), m) /\ s.ack < nx + 1 - (h + 1)
  BY <1>1, <1>2, Zenon
<1>7. \E k \in 0 .. h + 1 :
        /\ t.frames = Interval(nx + 1 - 1 - (h + 1), k)
        /\ t.alive => k = h + 1
        /\ k = 0 => h + 1 = 0 /\ t.alive
        /\ k > 0 => t.submitted = nx + 1 - 1 - (h + 1) + k
  <2>1. m \in 0 .. h + 1
    BY <1>2
  <2> QED BY <1>4, <1>5, <1>6, <2>1, Zenon
<1>8. h + 1 \in 0 .. HistoryCapacity
  BY <1>2
<1> DEFINE j == h + 1
<1>9. /\ j \in 0 .. HistoryCapacity /\ s.ack < nx + 1 - j /\ j <= nx + 1
      /\ t.submitted \in s.ack .. nx + 1 - 1
      /\ \E k \in 0 .. j :
           /\ t.frames = Interval(nx + 1 - 1 - j, k)
           /\ t.alive => k = j
           /\ k = 0 => j = 0 /\ t.alive
           /\ k > 0 => t.submitted = nx + 1 - 1 - j + k
  BY <1>4, <1>6, <1>7, <1>8
<1> HIDE DEF j
<1>10. FitsHistory(t, s, j, nx + 1)
  BY <1>5, <1>9 DEF FitsHistory
<1> QED
  BY <1>3, <1>10 DEF j

-----------------------------------------------------------------------------
(* Lemmas about install_authority.                                         *)

\* How many of the h commands before nx an acknowledgement leaves.
Kept(h, nx, ack) == IF ack < nx - h THEN h ELSE nx - 1 - ack

\* The acknowledged commands leave the history, and the rest is a run.
LEMMA KeptHistory ==
  ASSUME NEW nx \in Int, NEW h \in Nat, NEW ack \in Int, ack < nx
  PROVE  /\ Kept(h, nx, ack) \in 0 .. h /\ ack < nx - Kept(h, nx, ack)
         /\ Beyond(Interval(nx - 1 - h, h), ack)
              = Interval(nx - 1 - Kept(h, nx, ack), Kept(h, nx, ack))
<1> DEFINE f == nx - 1 - h
<1>1. f \in Int
  OBVIOUS
<1>2. CASE ack < nx - h
  <2>1. Kept(h, nx, ack) = h /\ ack <= f /\ h \in 0 .. h
    BY <1>2 DEF Kept
  <2>2. Beyond(Interval(f, h), ack) = Interval(f, h)
    BY <1>1, <2>1, BeyondInterval
  <2> QED BY <1>2, <2>1, <2>2
<1>3. CASE ~(ack < nx - h)
  <2>1. /\ Kept(h, nx, ack) = nx - 1 - ack /\ nx - 1 - ack \in 0 .. h
        /\ ack \in f .. f + h /\ f + h - ack = nx - 1 - ack
        /\ nx - 1 - (nx - 1 - ack) = ack /\ ack < nx - (nx - 1 - ack)
    BY <1>3 DEF Kept
  <2>2. Beyond(Interval(f, h), ack) = Interval(ack, f + h - ack)
    BY <1>1, <2>1, BeyondInterval
  <2> QED BY <2>1, <2>2
<1> QED
  BY <1>2, <1>3

\* A snapshot whose values a timeline can hold.
Installable(s) ==
  s.tick \in 0 .. MaxTick /\ s.ack \in Inputs \cup {NoInput} /\ s.ack \in Int

\* A timeline made afresh from a snapshot has stepped none of the k commands
\* retained before nx.
LEMMA InstalledBase ==
  ASSUME NEW s, Installable(s), NEW nx \in 0 .. InvalidInput, NEW k \in 0 .. HistoryCapacity,
         NEW submitted \in Inputs \cup {NoInput}, NEW epoch \in 0 .. InvalidEpoch - 1,
         s.ack < nx - k, k <= nx, submitted < nx,
         k > 0 => submitted <= s.ack /\ s.ack = nx - 1 - k,
         NEW r \in Installed(s, submitted, epoch)
  PROVE  /\ Base(r, s, k, nx) /\ r.epoch = epoch /\ r.frames = << >>
         /\ r.submitted = IF s.ack > submitted THEN s.ack ELSE submitted
<1> USE PredictionAssumption
<1> DEFINE sub == IF s.ack > submitted THEN s.ack ELSE submitted
<1>1. r = [tick |-> s.tick, acked |-> s.ack, submitted |-> sub, frames |-> << >>,
           epoch |-> epoch, alive |-> TRUE]
  BY DEF Installed
<1>2. submitted \in Int /\ s.ack \in Int
  BY DEF Installable, Inputs, NoInput
<1>3. /\ sub \in Inputs \cup {NoInput} /\ sub \in s.ack .. nx - 1
      /\ k > 0 => sub = nx - 1 - k + 0
  BY <1>2 DEF Installable
<1> HIDE DEF sub
<1>4. r \in Timelines
  <2>1. << >> \in Seq(Inputs) /\ TRUE \in BOOLEAN
    OBVIOUS
  <2> QED BY <1>1, <1>3, <2>1 DEF Timelines, Installable
<1>5. Interval(nx - 1 - k, 0) = << >>
  <2>1. nx - 1 - k \in Int
    OBVIOUS
  <2> QED BY <2>1, IntervalProperties
<1>6. /\ r.tick = s.tick /\ r.acked = s.ack /\ r.submitted = sub /\ r.frames = << >>
      /\ r.epoch = epoch /\ r.alive
  BY <1>1
<1>7. 0 \in 0 .. k
  OBVIOUS
<1>8. \E m \in 0 .. k :
        /\ r.frames = Interval(nx - 1 - k, m)
        /\ m = 0 => r.alive
        /\ k > 0 => r.submitted = nx - 1 - k + m
  BY <1>3, <1>5, <1>6, <1>7, Zenon
<1>9. Base(r, s, k, nx)
  BY <1>3, <1>4, <1>6, <1>8, Zenon DEF Base
<1> QED
  BY <1>6, <1>9 DEF sub

\* A replay from a later snapshot, which the timeline has stepped, keeps the
\* commands after it.
LEMMA ReplayedBase ==
  ASSUME NEW w, w.ack \in Int, w.tick \in Int, NEW s, Installable(s),
         s.tick >= w.tick, s.ack >= w.ack,
         NEW nx \in 0 .. InvalidInput, NEW h, NEW t, FitsHistory(t, w, h, nx), s.ack <= t.submitted,
         NEW epoch \in 0 .. InvalidEpoch - 1
  PROVE  /\ Replayed(t, s, epoch) # {}
         /\ \A r \in Replayed(t, s, epoch) :
              /\ Base(r, s, Kept(h, nx, s.ack), nx) /\ r.epoch = epoch
              /\ CaughtUp(t, nx) /\ Kept(h, nx, s.ack) = 0 => r.submitted = nx - 1
<1> USE PredictionAssumption
<1> DEFINE f == nx - 1 - h
           k == Kept(h, nx, s.ack)
           kept == Beyond(t.frames, s.ack)
<1>1. /\ t \in Timelines /\ t.tick = w.tick /\ t.acked = w.ack
      /\ h \in 0 .. HistoryCapacity /\ h <= nx /\ t.submitted \in w.ack .. nx - 1
  BY DEF FitsHistory
<1>2. PICK m \in 0 .. h : /\ t.frames = Interval(f, m) /\ (m = 0 => h = 0)
                          /\ (m > 0 => t.submitted = f + m)
  BY DEF FitsHistory
<1>3. s.ack \in Int /\ s.ack < nx /\ h \in Nat /\ f \in Int /\ m \in Nat
  BY <1>1 DEF Installable
<1>4. k \in 0 .. h /\ s.ack < nx - k
  BY <1>3, KeptHistory
<1>5. PICK j \in 0 .. k : j = m - (h - k) /\ kept = Interval(nx - 1 - k, j)
  <2>1. CASE s.ack < nx - h
    <3>1. k = h /\ s.ack <= f /\ m = m - (h - k) /\ m \in 0 .. k /\ nx - 1 - k = f
      BY <1>3, <2>1 DEF Kept
    <3>2. kept = Interval(f, m)
      BY <1>2, <1>3, <3>1, BeyondInterval
    <3> QED BY <3>1, <3>2
  <2>2. CASE ~(s.ack < nx - h)
    <3>1. k = nx - 1 - s.ack /\ nx - 1 - k = s.ack /\ s.ack \in f .. f + m
      <4>1. k = nx - 1 - s.ack
        BY <2>2 DEF Kept
      <4>2. nx - 1 - k = s.ack /\ s.ack >= f
        BY <1>3, <2>2, <4>1
      <4>3. s.ack <= f + m
        BY <1>2, <1>3, <1>1
      <4> QED BY <1>3, <4>1, <4>2, <4>3
    <3>2. kept = Interval(s.ack, f + m - s.ack)
      BY <1>2, <1>3, <3>1, BeyondInterval
    <3>3. f + m - s.ack = m - (h - k) /\ m - (h - k) \in 0 .. k
      BY <1>3, <3>1
    <3> QED BY <3>1, <3>2, <3>3
  <2> QED BY <2>1, <2>2
<1> HIDE DEF kept, k
<1>6. nx - 1 - k \in Int /\ j \in Nat
  BY <1>3, <1>4
<1>7. kept = << >> <=> j = 0
  BY <1>5, <1>6, IntervalProperties, ZenonT(30)
<1>8. kept \in Seq(Inputs)
  <2>1. nx - 1 - k >= -1 /\ nx - 1 - k + j < InvalidInput
    BY <1>1, <1>4
  <2> QED BY <1>5, <1>6, <2>1, InputRun
<1> DEFINE Result(alive) == [tick |-> s.tick, acked |-> s.ack, submitted |-> t.submitted,
                             frames |-> kept, epoch |-> epoch, alive |-> alive]
           Allowed(alive) == /\ s.tick >= t.tick
                             /\ s.ack >= t.acked /\ s.ack <= t.submitted
                             /\ kept = << >> => alive
<1>9. Replayed(t, s, epoch) = {Result(a) : a \in {b \in BOOLEAN : Allowed(b)}}
  BY DEF Replayed, kept
<1>10. Allowed(TRUE)
  BY <1>1
<1> HIDE DEF Result, Allowed
<1>11. Replayed(t, s, epoch) # {}
  BY <1>9, <1>10
<1>12. ASSUME NEW r \in Replayed(t, s, epoch)
       PROVE  /\ Base(r, s, k, nx) /\ r.epoch = epoch
              /\ CaughtUp(t, nx) /\ k = 0 => r.submitted = nx - 1
  <2>1. PICK a \in BOOLEAN : r = Result(a) /\ Allowed(a)
    BY <1>9
  <2>2. /\ r.tick = s.tick /\ r.acked = s.ack /\ r.submitted = t.submitted /\ r.frames = kept
        /\ r.epoch = epoch /\ r.alive = a
    BY <2>1 DEF Result
  <2>3. r \in Timelines
    <3>1. t.submitted \in Inputs \cup {NoInput}
      BY <1>1 DEF Timelines
    <3> QED BY <1>8, <2>1, <3>1 DEF Result, Timelines, Installable
  <2>4. j = 0 => r.alive
    BY <1>7, <2>1, <2>2 DEF Allowed
  <2>5. k > 0 => r.submitted = nx - 1 - k + j
    <3>1. k > 0 => m > 0
      BY <1>2, <1>3, <1>4
    <3>2. f + m = nx - 1 - k + j
      BY <1>3, <1>4, <1>5
    <3> QED BY <1>2, <2>2, <3>1, <3>2
  <2>6. k \in 0 .. HistoryCapacity /\ s.ack < nx - k /\ k <= nx /\ r.submitted \in s.ack .. nx - 1
    BY <1>1, <1>3, <1>4, <2>2
  <2>7. Base(r, s, k, nx)
    BY <1>5, <2>2, <2>3, <2>4, <2>5, <2>6, Zenon DEF Base
  <2>8. CaughtUp(t, nx) /\ k = 0 => r.submitted = nx - 1
    <3>1. CASE h = 0
      <4>1. t.frames = << >>
        <5>1. m = 0
          BY <3>1
        <5> QED BY <1>2, <1>3, <5>1, IntervalProperties
      <4> QED BY <2>2, <4>1 DEF CaughtUp
    <3>2. CASE h # 0
      <4>1. k = 0 => s.ack = nx - 1
        BY <1>3, <3>2 DEF k, Kept
      <4> QED BY <1>1, <1>3, <2>2, <4>1
    <3> QED BY <3>1, <3>2
  <2> QED BY <2>2, <2>7, <2>8
<1> QED
  BY <1>11, <1>12 DEF k

\* The timelines of a call, advanced over the k commands before nx, fit.
ResumedFits(ts, s, k, nx, epoch) ==
  /\ Resumed(ts, Interval(nx - 1 - k, k)) # {}
  /\ \A u \in Resumed(ts, Interval(nx - 1 - k, k)) :
       /\ FitsHistory(u, s, k, nx) /\ u.epoch = epoch
       /\ u.frames = << >> => k = 0 /\ \E r \in ts : u.submitted = r.submitted

\* Whatever timelines a call commits for k retained commands, advancing them over
\* the rest of the history succeeds, and makes timelines that fit.
LEMMA CommittedAdvances ==
  ASSUME NEW s, s.ack \in Int, NEW nx \in 0 .. InvalidInput, NEW k \in Nat, NEW ts, NEW epoch,
         ts # {}, \A r \in ts : Base(r, s, k, nx) /\ r.epoch = epoch
  PROVE  ResumedFits(ts, s, k, nx, epoch)
<1> DEFINE advanced(r) == Advanced(r, Buffered(r, Interval(nx - 1 - k, k)))
           committed == UNION {advanced(r) : r \in ts}
<1>1. ASSUME NEW r \in ts
      PROVE  /\ advanced(r) # {}
             /\ \A u \in advanced(r) :
                  /\ FitsHistory(u, s, k, nx) /\ u.epoch = epoch
                  /\ u.frames = << >> => k = 0 /\ u.submitted = r.submitted
  <2>1. Base(r, s, k, nx) /\ r.epoch = epoch
    OBVIOUS
  <2> QED BY <2>1, BaseAdvances
<1> HIDE DEF advanced
<1>2. committed # {}
  <2>1. PICK r \in ts : TRUE
    OBVIOUS
  <2>2. PICK u : u \in advanced(r)
    BY <1>1, <2>1
  <2> QED BY <2>1, <2>2
<1>3. ASSUME NEW u \in committed
      PROVE  /\ FitsHistory(u, s, k, nx) /\ u.epoch = epoch
             /\ u.frames = << >> => k = 0 /\ \E r \in ts : u.submitted = r.submitted
  <2>1. PICK r \in ts : u \in advanced(r)
    OBVIOUS
  <2> QED BY <1>1, <2>1
<1> QED
  BY <1>2, <1>3 DEF advanced, Resumed, ResumedFits

\* A healthy outcome: the history is the last k commands before nx, and the
\* timeline predicts them from s.
Healthy(o, s, k, nx) ==
  /\ o.error = "none" /\ o.inputs = Interval(nx - 1 - k, k)
  /\ o.timeline # None /\ FitsHistory(o.timeline, s, k, nx)

\* An exhausted scope epoch.
Exhausted(o) ==
  o.error \in {"PredictionScopeFailed", "MissingControlledEntity"}
    /\ o.timeline.epoch = InvalidEpoch - 1

\* The first install, and the one after a defeat, succeeds.
LEMMA FirstInstall ==
  ASSUME timeline = None, NEW s, Installable(s), next \in 0 .. InvalidInput, s.ack < next,
         NEW reason, NEW rebuild \in BOOLEAN, NEW o \in Installs(s, << >>, reason, rebuild)
  PROVE  /\ Healthy(o, s, 0, next)
         /\ s.ack = next - 1 => CaughtUp(o.timeline, next)
<1> USE PredictionAssumption
<1> DEFINE ts == Installed(s, NoInput, 0)
           run == Interval(next - 1 - 0, 0)
           committed == Resumed(ts, run)
<1>1. s.ack \in Int /\ 0 \in Nat /\ next - 1 - 0 \in Int
  BY DEF Installable
<1>2. run = << >>
  BY <1>1, IntervalProperties
<1>3. Beyond(<< >>, s.ack) = << >>
  <2>1. s.ack <= next - 1 - 0
    BY <1>1
  <2> QED BY <1>1, <1>2, <2>1, BeyondInterval
<1>4. ts # {}
  BY DEF Installed
<1>5. ASSUME NEW r \in ts
      PROVE  Base(r, s, 0, next) /\ r.epoch = 0 /\ (s.ack = next - 1 => r.submitted = next - 1)
  <2>1. /\ 0 \in 0 .. HistoryCapacity /\ NoInput \in Inputs \cup {NoInput} /\ NoInput < next
        /\ 0 \in 0 .. InvalidEpoch - 1 /\ s.ack < next - 0 /\ 0 <= next /\ ~(0 > 0)
    BY <1>1 DEF NoInput
  <2>2. /\ Base(r, s, 0, next) /\ r.epoch = 0
        /\ r.submitted = IF s.ack > NoInput THEN s.ack ELSE NoInput
    BY <2>1, InstalledBase
  <2>3. s.ack = next - 1 => (IF s.ack > NoInput THEN s.ack ELSE NoInput) = next - 1
    BY <1>1 DEF NoInput
  <2> QED BY <2>2, <2>3, Zenon
<1> HIDE DEF ts, run
<1>6. /\ committed # {}
      /\ \A u \in committed :
           /\ FitsHistory(u, s, 0, next)
           /\ u.frames = << >> => \E r \in ts : u.submitted = r.submitted
  <2>1. \A r \in ts : Base(r, s, 0, next) /\ r.epoch = 0
    BY <1>5
  <2>2. ResumedFits(ts, s, 0, next, 0)
    BY <1>1, <1>4, <2>1, CommittedAdvances
  <2> QED BY <2>2, Zenon DEF run, ResumedFits
<1>7. o \in Committed(committed, timeline, << >>)
  <2>1. ~CatchUp(s, reason)
    BY DEF CatchUp
  <2>2. SelectedTimeline(s, reason, rebuild) = ts
    BY DEF SelectedTimeline, ts
  <2>3. committed = Resumed(SelectedTimeline(s, reason, rebuild), << >>)
    BY <1>2, <2>2, Zenon
  <2> HIDE DEF committed
  <2> QED BY <1>3, <1>6, <2>1, <2>3 DEF Installs
<1> HIDE DEF committed
<1>8. PICK u \in committed : o = Outcome("none", u, << >>)
  BY <1>6, <1>7 DEF Committed
<1>9. o.error = "none" /\ o.timeline = u /\ o.inputs = << >>
  BY <1>8 DEF Outcome
<1>10. u # None
  BY <1>6 DEF FitsHistory
<1>11. s.ack = next - 1 => CaughtUp(u, next)
  BY <1>5, <1>6 DEF CaughtUp
<1> QED
  BY <1>2, <1>6, <1>9, <1>10, <1>11 DEF Healthy, run

\* A replay of t from s, advanced over the k commands before nx, fits, and still
\* has no command to wait for if t has none.
ReplayFits(t, s, k, nx, epoch) ==
  /\ ResumedFits(Replayed(t, s, epoch), s, k, nx, epoch)
  /\ CaughtUp(t, nx) =>
       \A u \in Resumed(Replayed(t, s, epoch), Interval(nx - 1 - k, k)) : CaughtUp(u, nx)

\* A replay from an acknowledgement that the timeline has stepped succeeds.
LEMMA ReplayResumes ==
  ASSUME NEW w, w.ack \in Int, w.tick \in Int, NEW s, Installable(s),
         s.tick >= w.tick, s.ack >= w.ack,
         NEW nx \in 0 .. InvalidInput, NEW h, NEW t, FitsHistory(t, w, h, nx), s.ack <= t.submitted,
         NEW epoch \in 0 .. InvalidEpoch - 1
  PROVE  ReplayFits(t, s, Kept(h, nx, s.ack), nx, epoch)
<1> DEFINE ts == Replayed(t, s, epoch)
           k == Kept(h, nx, s.ack)
<1>1. /\ ts # {}
      /\ \A r \in ts : /\ Base(r, s, k, nx) /\ r.epoch = epoch
                       /\ CaughtUp(t, nx) /\ k = 0 => r.submitted = nx - 1
  BY ReplayedBase
<1>2. s.ack \in Int /\ k \in Nat
  <2>1. s.ack \in Int /\ s.ack < nx /\ h \in Nat /\ nx \in Int
    BY PredictionAssumption DEF FitsHistory, Installable
  <2>2. k \in 0 .. h
    BY <2>1, KeptHistory
  <2> QED BY <2>1, <2>2
<1> HIDE DEF ts, k
<1>3. ResumedFits(ts, s, k, nx, epoch)
  <2>1. \A r \in ts : Base(r, s, k, nx) /\ r.epoch = epoch
    BY <1>1
  <2> QED BY <1>1, <1>2, <2>1, CommittedAdvances
<1>4. ASSUME CaughtUp(t, nx), NEW u \in Resumed(ts, Interval(nx - 1 - k, k))
      PROVE  CaughtUp(u, nx)
  <2>1. u.frames = << >> => k = 0 /\ \E r \in ts : u.submitted = r.submitted
    BY <1>3 DEF ResumedFits
  <2> QED BY <1>1, <1>4, <2>1, Zenon DEF CaughtUp
<1> QED
  BY <1>3, <1>4, Zenon DEF ReplayFits, ts, k

\* The commands of the history that the timeline has not stepped begin right
\* after the last one it has.
LEMMA AheadRetained ==
  ASSUME NEW w, w.ack \in Int, NEW nx \in 0 .. InvalidInput, NEW h, NEW t, FitsHistory(t, w, h, nx),
         CaughtUp(t, nx), NEW ack \in Int, t.submitted < ack, ack < nx
  PROVE  ack \in Range(Interval(nx - 1 - h, h))
<1> DEFINE f == nx - 1 - h
<1>1. h \in 0 .. HistoryCapacity /\ h \in Nat /\ f \in Int
  BY PredictionAssumption DEF FitsHistory
<1>2. PICK m \in 0 .. h : t.frames = Interval(f, m) /\ (m > 0 => t.submitted = f + m)
  BY DEF FitsHistory
<1>3. m > 0
  <2>1. t.frames # << >>
    BY DEF CaughtUp
  <2>2. m \in Nat
    BY <1>1
  <2>3. m # 0
    BY <1>1, <1>2, <2>1, <2>2, IntervalProperties
  <2> QED BY <2>2, <2>3
<1>4. ack - f \in 1 .. h /\ f + (ack - f) = ack
  BY <1>1, <1>2, <1>3
<1>5. /\ DOMAIN Interval(f, h) = 1 .. h
      /\ \A i \in 1 .. h : Interval(f, h)[i] = f + i
  BY <1>1, IntervalProperties
<1> HIDE DEF f
<1> QED
  <2>1. ack - f \in DOMAIN Interval(f, h) /\ Interval(f, h)[ack - f] = ack
    BY <1>4, <1>5
  <2> QED BY <2>1, Zenon DEF Range, f

\* Installing a snapshot into a running prediction fails only when the scope's
\* epochs are exhausted, or with commands that no timeline has seen.
Continued(o, s, k) ==
  \/ /\ Healthy(o, s, k, next)
     /\ CaughtUp(timeline, next) => CaughtUp(o.timeline, next)
  \/ /\ o.timeline = timeline /\ o.inputs = inputs
     /\ \/ Exhausted(o) /\ o.error = "PredictionScopeFailed"
        \/ ~CaughtUp(timeline, next) /\ o.error = "PredictionTimelineFailed"

\* The install of a later snapshot.
LEMMA ContinuedInstall ==
  ASSUME NEW s, Installable(s), next \in 0 .. InvalidInput,
         timeline # None, NEW w, w.ack \in Int, w.tick \in Int, NEW h \in Nat,
         FitsHistory(timeline, w, h, next),
         inputs = Interval(next - 1 - h, h), s.tick >= w.tick, s.ack >= w.ack, s.ack < next,
         NEW rebuild \in BOOLEAN, NEW o \in Installs(s, inputs, "NewAuthority", rebuild)
  PROVE  Continued(o, s, Kept(h, next, s.ack))
<1> USE PredictionAssumption
<1> DEFINE k == Kept(h, next, s.ack)
           kept == Beyond(inputs, s.ack)
           epoch == IF rebuild THEN timeline.epoch + 1 ELSE timeline.epoch
           ts == SelectedTimeline(s, "NewAuthority", rebuild)
           committed == Resumed(ts, kept)
           scope == rebuild /\ timeline.epoch = InvalidEpoch - 1
           lost == CatchUp(s, "NewAuthority") /\ s.ack \notin Range(inputs)
<1>1. /\ k \in 0 .. h /\ s.ack < next - k /\ kept = Interval(next - 1 - k, k)
      /\ s.ack \in Int /\ next \in Int
  BY KeptHistory DEF Installable
<1>2. /\ timeline \in Timelines /\ timeline.tick = w.tick /\ timeline.acked = w.ack
      /\ h \in 0 .. HistoryCapacity /\ h <= next /\ timeline.submitted \in w.ack .. next - 1
      /\ timeline.submitted \in Inputs \cup {NoInput}
  BY DEF FitsHistory, Timelines
<1>3. CASE scope
  <2>1. o = Outcome("PredictionScopeFailed", timeline, inputs)
    BY <1>3 DEF Installs
  <2> QED BY <1>3, <2>1 DEF Outcome, Continued, Exhausted
<1>4. CASE ~scope /\ lost
  <2>1. o = Outcome("PredictionTimelineFailed", timeline, inputs)
    BY <1>4 DEF Installs
  <2>2. ~CaughtUp(timeline, next)
    <3>1. s.ack > timeline.submitted
      BY <1>4 DEF CatchUp
    <3>2. s.ack \notin Range(Interval(next - 1 - h, h))
      BY <1>4
    <3>3. timeline.submitted < s.ack
      BY <1>1, <1>2, <3>1
    <3> QED BY <1>1, <3>2, <3>3, AheadRetained
  <2> QED BY <2>1, <2>2 DEF Outcome, Continued
<1>5. CASE ~scope /\ ~lost
  <2>1. epoch \in 0 .. InvalidEpoch - 1
    <3>1. timeline.epoch \in 0 .. InvalidEpoch - 1
      BY <1>2 DEF Timelines
    <3> QED BY <1>5, <3>1
  <2> HIDE DEF epoch, k
  <2>2. /\ ResumedFits(ts, s, k, next, epoch)
        /\ CaughtUp(timeline, next)
             => \A u \in Resumed(ts, Interval(next - 1 - k, k)) : CaughtUp(u, next)
    <3>1. CASE CatchUp(s, "NewAuthority")
      <4>1. s.ack > timeline.submitted /\ s.ack \in Range(inputs)
        BY <1>5, <3>1 DEF CatchUp
      <4>2. s.ack \in next - h .. next - 1
        <5>1. PICK i \in DOMAIN inputs : inputs[i] = s.ack
          BY <4>1 DEF Range
        <5>2. i \in 1 .. h /\ inputs[i] = next - 1 - h + i
          <6> DEFINE a == next - 1 - h
          <6>1. a \in Int
            BY <1>1
          <6>2. inputs = Interval(a, h)
            OBVIOUS
          <6> HIDE DEF a
          <6>3. DOMAIN inputs = 1 .. h /\ \A j \in 1 .. h : inputs[j] = a + j
            BY <6>1, <6>2, IntervalProperties, ZenonT(30)
          <6> QED BY <5>1, <6>3, Zenon DEF a
        <5> QED BY <1>1, <5>1, <5>2
      <4>3. k = next - 1 - s.ack
        BY <1>1, <4>2 DEF k, Kept
      <4>4. ts = Installed(s, timeline.submitted, epoch)
        BY <1>1, <1>2, <3>1 DEF SelectedTimeline, HardResynced, epoch
      <4>5. ASSUME NEW r \in ts
            PROVE  Base(r, s, k, next) /\ r.epoch = epoch /\ r.submitted = s.ack
        <5>1. /\ k \in 0 .. HistoryCapacity /\ k <= next /\ timeline.submitted < next
              /\ timeline.submitted <= s.ack /\ s.ack = next - 1 - k
          BY <1>1, <1>2, <4>1, <4>3
        <5>2. /\ Base(r, s, k, next) /\ r.epoch = epoch
              /\ r.submitted = IF s.ack > timeline.submitted THEN s.ack ELSE timeline.submitted
          BY <1>1, <1>2, <2>1, <4>4, <4>5, <5>1, InstalledBase
        <5> QED BY <4>1, <5>2
      <4>6. ts # {}
        BY <4>4 DEF Installed
      <4> HIDE DEF ts
      <4>7. ResumedFits(ts, s, k, next, epoch)
        <5>1. k \in Nat /\ \A r \in ts : Base(r, s, k, next) /\ r.epoch = epoch
          BY <1>1, <4>5
        <5> QED BY <1>1, <4>6, <5>1, CommittedAdvances
      <4>8. ASSUME NEW u \in Resumed(ts, Interval(next - 1 - k, k))
            PROVE  CaughtUp(u, next)
        <5>1. u.frames = << >> => k = 0 /\ u.submitted = s.ack
          BY <4>5, <4>7 DEF ResumedFits
        <5>2. k = 0 => s.ack = next - 1
          BY <1>1, <4>3
        <5> QED BY <5>1, <5>2 DEF CaughtUp
      <4> QED BY <4>7, <4>8
    <3>2. CASE ~CatchUp(s, "NewAuthority")
      <4>1. s.ack <= timeline.submitted
        BY <1>1, <1>2, <3>2 DEF CatchUp
      <4>2. ts = Replayed(timeline, s, epoch)
        BY <3>2 DEF SelectedTimeline, epoch
      <4>3. ReplayFits(timeline, s, k, next, epoch)
        BY <2>1, <4>1, ReplayResumes DEF k
      <4> QED BY <4>2, <4>3 DEF ReplayFits
    <3> QED BY <3>1, <3>2
  <2> HIDE DEF ts
  <2>3. committed # {}
    BY <1>1, <2>2 DEF ResumedFits
  <2>4. o \in Committed(committed, timeline, kept)
    BY <1>5, <2>3 DEF Installs, ts
  <2>5. PICK u \in committed : o = Outcome("none", u, kept)
    BY <2>3, <2>4 DEF Committed
  <2>6. o.error = "none" /\ o.timeline = u /\ o.inputs = Interval(next - 1 - k, k)
    BY <1>1, <2>5 DEF Outcome
  <2>7. FitsHistory(u, s, k, next) /\ (CaughtUp(timeline, next) => CaughtUp(u, next))
    BY <1>1, <2>2 DEF ResumedFits
  <2>8. u # None
    BY <2>7 DEF FitsHistory
  <2> QED BY <2>6, <2>7, <2>8 DEF Continued, Healthy, k
<1> QED
  BY <1>3, <1>4, <1>5

-----------------------------------------------------------------------------
(* Lemmas about submit_input.                                              *)

\* A client that predicts h retained commands from its world.
Playing(h) ==
  /\ next \in 0 .. InvalidInput /\ h \in Nat /\ Installable(world)
  /\ timeline # None /\ FitsHistory(timeline, world, h, next)
  /\ inputs = Interval(next - 1 - h, h)

\* While commands are submitted, an outcome is healthy with k commands or has
\* the scope's epochs exhausted.
Submitting(o, k, nx) ==
  \/ Healthy(o, world, k, nx)
  \/ Exhausted(o) /\ o.inputs = Interval(nx - 1 - k, k) /\ o.timeline \in Timelines

\* A full history is resynced to an empty one, and never fails otherwise.
LEMMA ResyncedFits ==
  ASSUME NEW h, Playing(h), NEW rebuild \in BOOLEAN, NEW o \in Resynced(rebuild)
  PROVE  \E k \in 0 .. h : /\ Submitting(o, k, next) /\ (~HistoryFull => k = h)
                           /\ o.error = "none" => k < HistoryCapacity
<1> USE PredictionAssumption
<1>1. /\ timeline \in Timelines /\ timeline.tick = world.tick /\ timeline.acked = world.ack
      /\ h \in 0 .. HistoryCapacity /\ h <= next /\ timeline.submitted \in world.ack .. next - 1
      /\ timeline.submitted \in Inputs \cup {NoInput} /\ world.ack < next - h
      /\ next \in Int /\ world.ack \in Int /\ world.tick \in Int /\ h \in Nat
  BY DEF Playing, FitsHistory, Timelines, Installable
<1>2. inputs = Interval(next - 1 - h, h) /\ Len(inputs) = h
  <2> DEFINE a == next - 1 - h
  <2>1. a \in Int /\ inputs = Interval(a, h)
    BY <1>1 DEF Playing
  <2> HIDE DEF a
  <2>2. Len(inputs) = h
    BY <1>1, <2>1, IntervalProperties
  <2> QED BY <2>2 DEF Playing
<1>3. CASE ~HistoryFull
  <2>1. o = Outcome("none", timeline, inputs)
    BY <1>3 DEF Resynced
  <2>2. h < HistoryCapacity
    BY <1>1, <1>2, <1>3 DEF HistoryFull
  <2>3. Healthy(o, world, h, next)
    BY <1>2, <2>1 DEF Healthy, Outcome, Playing
  <2> QED BY <1>1, <2>2, <2>3 DEF Submitting
<1>4. CASE HistoryFull
  <2> DEFINE epoch == IF rebuild THEN timeline.epoch + 1 ELSE timeline.epoch
             ts == SelectedTimeline(world, "HardResync", rebuild)
             run == Interval(next - 1 - 0, 0)
             committed == Resumed(ts, run)
             scope == rebuild /\ timeline.epoch = InvalidEpoch - 1
  <2>1. PICK i \in Installs(world, << >>, "HardResync", rebuild) :
          o = IF i.error = "none" THEN i
              ELSE Outcome("MissingControlledEntity", timeline, inputs)
    BY <1>4 DEF Resynced
  <2>2. run = << >> /\ Beyond(<< >>, world.ack) = << >>
    <3>1. next - 1 - 0 \in Int /\ world.ack <= next - 1 - 0 /\ 0 \in Nat
      BY <1>1
    <3>2. run = << >>
      BY <3>1, IntervalProperties
    <3> QED BY <1>1, <3>1, <3>2, BeyondInterval
  <2>3. CASE scope
    <3>1. i.error # "none"
      BY <1>1, <2>3 DEF Installs, Outcome, Playing
    <3>2. o = Outcome("MissingControlledEntity", timeline, inputs)
      BY <2>1, <3>1
    <3>3. Exhausted(o) /\ o.inputs = Interval(next - 1 - h, h) /\ o.timeline \in Timelines
          /\ o.error # "none" /\ h \in 0 .. h
      BY <1>1, <1>2, <2>3, <3>2 DEF Exhausted, Outcome
    <3> QED BY <1>4, <3>3, Zenon DEF Submitting
  <2>4. CASE ~scope
    <3>1. epoch \in 0 .. InvalidEpoch - 1
      <4>1. timeline.epoch \in 0 .. InvalidEpoch - 1
        BY <1>1 DEF Timelines
      <4> QED BY <2>4, <4>1
    <3>2. ts = Installed(world, timeline.submitted, epoch)
      <4>1. timeline # None /\ "HardResync" # "NewAuthority"
        BY DEF Playing
      <4> QED BY <1>1, <4>1 DEF SelectedTimeline, HardResynced, epoch
    <3> HIDE DEF epoch, run
    <3>3. ASSUME NEW r \in ts
          PROVE  Base(r, world, 0, next) /\ r.epoch = epoch
      <4>1. /\ 0 \in 0 .. HistoryCapacity /\ 0 <= next /\ timeline.submitted < next
            /\ world.ack < next - 0 /\ ~(0 > 0)
        BY <1>1
      <4>2. next \in 0 .. InvalidInput /\ Installable(world)
        BY DEF Playing
      <4> QED BY <1>1, <3>1, <3>2, <3>3, <4>1, <4>2, InstalledBase
    <3>4. ts # {}
      BY <3>2 DEF Installed
    <3> HIDE DEF ts
    <3>5. ResumedFits(ts, world, 0, next, epoch)
      <4>1. 0 \in Nat /\ \A r \in ts : Base(r, world, 0, next) /\ r.epoch = epoch
        BY <3>3
      <4>2. next \in 0 .. InvalidInput /\ world.ack \in Int
        BY <1>1 DEF Playing
      <4> QED BY <3>4, <4>1, <4>2, CommittedAdvances
    <3>6. committed # {}
      BY <3>5, Zenon DEF ResumedFits, run
    <3>7. i \in Committed(committed, timeline, << >>)
      <4>1. ~CatchUp(world, "HardResync")
        BY DEF CatchUp
      <4>2. committed = Resumed(SelectedTimeline(world, "HardResync", rebuild), << >>)
        BY <2>2, Zenon DEF ts
      <4> HIDE DEF committed
      <4> QED BY <2>2, <2>4, <3>6, <4>1, <4>2 DEF Installs
    <3>8. PICK u \in committed : i = Outcome("none", u, << >>)
      BY <3>6, <3>7 DEF Committed
    <3>9. o.error = "none" /\ o.timeline = u /\ o.inputs = run
      BY <2>1, <2>2, <3>8 DEF Outcome
    <3>10. FitsHistory(u, world, 0, next)
      BY <3>5, Zenon DEF ResumedFits, run
    <3>11. u # None
      BY <3>10 DEF FitsHistory
    <3>12. Healthy(o, world, 0, next)
      BY <3>9, <3>10, <3>11, Zenon DEF Healthy, run
    <3>13. 0 \in 0 .. h /\ 0 < HistoryCapacity
      BY <1>1
    <3> QED BY <1>4, <3>12, <3>13 DEF Submitting
  <2> QED BY <2>3, <2>4
<1> QED
  BY <1>3, <1>4

\* The rebase of the scope keeps every retained command, or has no epoch left.
LEMMA EnsuredFits ==
  ASSUME NEW nx \in 0 .. InvalidInput, NEW k \in Nat, Installable(world),
         NEW o, Submitting(o, k, nx), NEW rebase \in BOOLEAN, NEW e \in Ensured(o, rebase)
  PROVE  Submitting(e, k, nx) /\ (e.error = "none" => o.error = "none")
<1> USE PredictionAssumption
<1>1. CASE ~rebase \/ o.error # "none"
  BY <1>1 DEF Ensured
<1>2. CASE ~(~rebase \/ o.error # "none") /\ o.timeline.epoch = InvalidEpoch - 1
  <2>1. e = Outcome("PredictionScopeFailed", o.timeline, o.inputs)
    BY <1>2 DEF Ensured
  <2>2. Healthy(o, world, k, nx)
    BY <1>2 DEF Submitting, Exhausted
  <2>3. o.timeline \in Timelines /\ o.inputs = Interval(nx - 1 - k, k)
    BY <2>2 DEF Healthy, FitsHistory
  <2> QED BY <1>2, <2>1, <2>3 DEF Submitting, Exhausted, Outcome
<1>3. CASE ~(~rebase \/ o.error # "none") /\ o.timeline.epoch # InvalidEpoch - 1
  <2> DEFINE t == o.timeline
             epoch == t.epoch + 1
             committed == Resumed(Replayed(t, world, epoch), o.inputs)
  <2>1. FitsHistory(t, world, k, nx) /\ o.inputs = Interval(nx - 1 - k, k)
    BY <1>3 DEF Submitting, Exhausted, Healthy
  <2>2. /\ t \in Timelines /\ world.ack \in Int /\ world.tick \in Int /\ world.ack < nx - k
        /\ world.ack <= t.submitted
    BY <2>1 DEF FitsHistory, Installable
  <2>3. epoch \in 0 .. InvalidEpoch - 1
    <3>1. t.epoch \in 0 .. InvalidEpoch - 1
      BY <2>2 DEF Timelines
    <3> QED BY <1>3, <3>1
  <2>4. e \in Committed(committed, o.timeline, o.inputs)
    BY <1>3 DEF Ensured
  <2>5. Kept(k, nx, world.ack) = k
    BY <2>2 DEF Kept
  <2> HIDE DEF epoch, t
  <2>6. ReplayFits(t, world, k, nx, epoch)
    <3>1. world.tick >= world.tick /\ world.ack >= world.ack
      BY <2>2
    <3>2. ReplayFits(t, world, Kept(k, nx, world.ack), nx, epoch)
      BY <2>1, <2>2, <2>3, <3>1, ReplayResumes
    <3> QED BY <2>5, <3>2
  <2>7. committed # {} /\ \A u \in committed : FitsHistory(u, world, k, nx)
    BY <2>1, <2>6, Zenon DEF ReplayFits, ResumedFits
  <2> HIDE DEF committed
  <2>8. PICK u \in committed : e = Outcome("none", u, o.inputs)
    BY <2>4, <2>7 DEF Committed
  <2>9. u # None /\ FitsHistory(u, world, k, nx)
    BY <2>7 DEF FitsHistory
  <2> QED BY <1>3, <2>1, <2>8, <2>9 DEF Submitting, Healthy, Outcome
<1> QED
  BY <1>1, <1>2, <1>3

\* The new command is retained, and stepped or deferred.
LEMMA SteppedFits ==
  ASSUME next \in 0 .. InvalidInput - 1, NEW k \in 0 .. HistoryCapacity - 1, Installable(world),
         NEW e, Healthy(e, world, k, next), NEW o \in Stepped(e)
  PROVE  Healthy(o, world, k + 1, next + 1) /\ o.timeline.frames # << >>
<1> USE PredictionAssumption
<1> DEFINE f == next - 1 - k
           t == e.timeline
<1>1. /\ world.ack \in Int /\ f \in Int /\ k \in Nat /\ k # HistoryCapacity /\ 1 \in Nat
      /\ f + k = next - 1 /\ next + 1 - 1 - (k + 1) = f /\ k + 1 \in Nat
  BY DEF Installable
<1>2. e.error = "none" /\ e.inputs = Interval(f, k) /\ t # None /\ FitsHistory(t, world, k, next)
  BY DEF Healthy
<1>3. Retained(e.inputs, next) = Interval(next + 1 - 1 - (k + 1), k + 1)
  <2> HIDE DEF f
  <2>1. Len(e.inputs) = k /\ e.inputs \in Seq(Int)
    <3>1. f \in Int /\ k \in Nat /\ e.inputs = Interval(f, k)
      BY <1>1, <1>2
    <3>2. Len(Interval(f, k)) = k /\ Interval(f, k) \in Seq(Int)
      BY <3>1, IntervalProperties, Zenon
    <3> QED BY <3>1, <3>2, Zenon
  <2>2. Retained(e.inputs, next) = Append(e.inputs, next)
    BY <1>1, <2>1 DEF Retained
  <2>3. Append(Interval(f, k), f + k + 1) = Interval(f, k + 1)
    BY <1>1, IntervalAppend
  <2>4. f + k + 1 = next
    BY <1>1
  <2> QED BY <1>1, <1>2, <2>2, <2>3, <2>4, Zenon
<1> HIDE DEF f
<1>4. CASE ~t.alive
  <2>1. o = Outcome("none", t, Retained(e.inputs, next))
    BY <1>2, <1>4 DEF Stepped
  <2>2. FitsHistory(t, world, k + 1, next + 1) /\ t.frames # << >>
    BY <1>1, <1>2, <1>4, DeferFits
  <2> QED BY <1>2, <1>3, <2>1, <2>2 DEF Healthy, Outcome
<1>5. CASE t.alive
  <2>1. /\ Advanced(t, <<next>>) # {}
        /\ \A u \in Advanced(t, <<next>>) :
             FitsHistory(u, world, k + 1, next + 1) /\ u.frames # << >>
    BY <1>1, <1>2, <1>5, StepFits
  <2>2. o \in Committed(Advanced(t, <<next>>), t, Retained(e.inputs, next))
    BY <1>2, <1>5 DEF Stepped
  <2>3. PICK u \in Advanced(t, <<next>>) : o = Outcome("none", u, Retained(e.inputs, next))
    BY <2>1, <2>2 DEF Committed
  <2>4. u # None /\ FitsHistory(u, world, k + 1, next + 1) /\ u.frames # << >>
    BY <2>1 DEF FitsHistory
  <2> QED BY <1>3, <2>3, <2>4 DEF Healthy, Outcome
<1> QED
  BY <1>4, <1>5

-----------------------------------------------------------------------------
(* Every action preserves the invariant.                                   *)

\* A history of the k commands before nx, without nx itself.
IsHistory(history, k, nx) ==
  /\ Len(history) = k /\ history \in Seq(Inputs) /\ nx \notin Range(history)
  /\ k > 0 => nx - 1 \in Range(history)

\* A run of commands is one.
LEMMA RunIsHistory ==
  ASSUME NEW nx \in 0 .. InvalidInput, NEW k \in 0 .. HistoryCapacity, k <= nx,
         NEW history, history = Interval(nx - 1 - k, k)
  PROVE  IsHistory(history, k, nx)
<1> USE PredictionAssumption
<1> DEFINE f == nx - 1 - k
<1>1. f \in Int /\ k \in Nat /\ f >= -1 /\ f + k < InvalidInput /\ f + k = nx - 1
  OBVIOUS
<1>2. history = Interval(f, k)
  OBVIOUS
<1> HIDE DEF f
<1>3. /\ Len(history) = k /\ DOMAIN history = 1 .. k
      /\ \A i \in 1 .. k : history[i] = f + i
  <2>1. /\ Len(Interval(f, k)) = k /\ DOMAIN Interval(f, k) = 1 .. k
        /\ \A i \in 1 .. k : Interval(f, k)[i] = f + i
    BY <1>1, IntervalProperties, Zenon
  <2> QED BY <1>2, <2>1, Zenon
<1>4. Interval(f, k) \in Seq(Inputs)
  BY <1>1, InputRun
<1>5. nx \notin Range(history)
  <2>1. ASSUME NEW i \in 1 .. k PROVE f + i # nx
    BY <1>1
  <2> QED BY <1>3, <2>1 DEF Range
<1>6. ASSUME k > 0 PROVE nx - 1 \in Range(history)
  <2>1. k \in DOMAIN history /\ history[k] = nx - 1
    BY <1>1, <1>3, <1>6
  <2> QED BY <2>1, Zenon DEF Range
<1> QED
  BY <1>2, <1>3, <1>4, <1>5, <1>6 DEF IsHistory

\* A step of the client keeps what relates the server, its snapshots and the
\* respawn requests.
LEMMA ClientKeepsServerSide ==
  ASSUME ServerSide, RespawnEvidence, UNCHANGED <<authority, snapshots>>,
         next' \in next .. InvalidInput, world' \in snapshots \cup {NoSnapshot},
         respawns \subseteq respawns', respawns' \subseteq 0 .. next' - 1
  PROVE  ServerSide' /\ RespawnEvidence'
<1> USE PredictionAssumption
<1>1. next \in Int /\ authority.ack \in Int /\ authority.ack < next
  BY DEF ServerSide, ServerStates
<1>2. next' \in 0 .. InvalidInput /\ authority.ack < next'
  BY <1>1 DEF ServerSide
<1>3. ServerSide'
  BY <1>2, Zenon DEF ServerSide
<1>4. RespawnEvidence'
  <2>1. authority' = authority /\ snapshots' = snapshots
    OBVIOUS
  <2> QED BY <2>1, Zenon DEF RespawnEvidence
<1> QED
  BY <1>3, <1>4

\* Snapshots have values a timeline can hold.
LEMMA SnapshotsInstallable ==
  ASSUME ServerSide, NEW s \in snapshots
  PROVE  /\ Installable(s) /\ s \in ServerStates /\ s # NoSnapshot
         /\ s.ack < next /\ next \in 0 .. InvalidInput
<1> USE PredictionAssumption
<1>1. /\ s \in ServerStates /\ authority \in ServerStates /\ authority.tick <= MaxTick
      /\ s.tick <= authority.tick /\ s.ack <= authority.ack /\ authority.ack < next
      /\ next \in 0 .. InvalidInput
  BY DEF ServerSide
<1>2. s.tick \in Nat /\ s.ack \in -1 .. InvalidInput - 1
  BY <1>1 DEF ServerStates
<1>3. authority.tick \in Nat /\ authority.ack \in -1 .. InvalidInput - 1
  BY <1>1 DEF ServerStates
<1>4. s.tick \in 0 .. MaxTick /\ s.ack \in Inputs \cup {NoInput} /\ s.ack \in Int
      /\ s.ack < next
  BY <1>1, <1>2, <1>3 DEF Inputs, NoInput
<1>5. s # NoSnapshot
  BY <1>2 DEF NoSnapshot
<1> QED
  BY <1>1, <1>4, <1>5 DEF Installable

\* A client that predicts, in the terms of the lemmas above.
LEMMA PredictingPlays ==
  ASSUME PredictionTypeOK, ServerSide, HistoryIsRun, Predicting, world # NoSnapshot
  PROVE  /\ Playing(Len(inputs)) /\ Len(inputs) \in 0 .. HistoryCapacity
         /\ world \in snapshots /\ world.ack \in Int /\ world.tick \in Int
<1>1. world \in snapshots /\ Installable(world) /\ next \in 0 .. InvalidInput
  BY SnapshotsInstallable DEF ServerSide
<1>2. Len(inputs) \in 0 .. HistoryCapacity /\ Len(inputs) \in Nat
  BY PredictionAssumption DEF HistoryIsRun
<1> QED
  BY <1>1, <1>2 DEF Playing, Predicting, HistoryIsRun, Installable

\* The prediction after an install is healthy again, or has failed for want of an
\* epoch.
LEMMA InstalledInv ==
  ASSUME PredictionInv, NEW s \in snapshots, NEW o,
         world' = (IF o.error = "none" THEN s ELSE world),
         failed' = o.error, timeline' = o.timeline, inputs' = o.inputs, welcomed',
         UNCHANGED <<next, respawns, doubled, authority, snapshots>>,
         \/ /\ s.mode = "Spectating" /\ o.error = "none" /\ timeline' = None /\ inputs' = << >>
            /\ ~doubled => \A r \in respawns : r <= s.ack \/ r = next - 1
         \/ \E k \in 0 .. HistoryCapacity :
              /\ s.mode = "Playing" /\ Healthy(o, s, k, next)
              /\ ~doubled => CaughtUp(o.timeline, next) /\ \A r \in respawns : r <= s.ack
         \/ /\ timeline' = timeline /\ inputs' = inputs
            /\ \/ o.error = "PredictionScopeFailed" /\ Exhausted(o)
               \/ o.error = "PredictionTimelineFailed" /\ doubled
  PROVE  PredictionInv'
<1> USE PredictionAssumption
<1>1. /\ next \in 0 .. InvalidInput /\ next \in Int /\ respawns \subseteq 0 .. next - 1
      /\ s \in ServerStates /\ s # NoSnapshot
  BY SnapshotsInstallable DEF PredictionInv, ServerSide
<1>2. ServerSide' /\ RespawnEvidence'
  <2>1. next' \in next .. InvalidInput /\ respawns \subseteq respawns'
        /\ respawns' \subseteq 0 .. next' - 1
    BY <1>1
  <2>2. world' \in snapshots \cup {NoSnapshot}
    BY DEF PredictionInv, ServerSide
  <2> QED BY <2>1, <2>2, ClientKeepsServerSide DEF PredictionInv
<1>3. CASE s.mode = "Spectating" /\ o.error = "none" /\ timeline' = None /\ inputs' = << >>
           /\ (~doubled => \A r \in respawns : r <= s.ack \/ r = next - 1)
  <2>1. world' = s /\ failed' = "none"
    BY <1>3
  <2>2. PredictionTypeOK'
    BY <1>3, <2>1 DEF PredictionInv, PredictionTypeOK
  <2>3. HistoryIsRun'
    <3>1. next' - 1 - 0 \in Int /\ Len(<< >>) = 0 /\ 0 \in 0 .. HistoryCapacity /\ 0 <= next'
      BY <1>1
    <3>2. Interval(next' - 1 - 0, 0) = << >>
      BY <3>1, IntervalProperties
    <3> QED BY <1>3, <3>1, <3>2, Zenon DEF HistoryIsRun
  <2>4. Defeated'
    BY <1>3, <2>1 DEF Defeated
  <2>5. ClientHealthy'
    BY <1>1, <1>3, <2>1, <2>4 DEF ClientHealthy, HasPlayed
  <2>6. FailuresExplained'
    BY <2>1 DEF FailuresExplained, FrontiersReconcile
  <2> QED BY <1>2, <2>2, <2>3, <2>5, <2>6 DEF PredictionInv
<1>4. ASSUME NEW k \in 0 .. HistoryCapacity, s.mode = "Playing", Healthy(o, s, k, next),
             ~doubled => CaughtUp(o.timeline, next) /\ \A r \in respawns : r <= s.ack
      PROVE  PredictionInv'
  <2>1. world' = s /\ failed' = "none" /\ inputs' = Interval(next - 1 - k, k)
        /\ timeline' # None /\ FitsHistory(timeline', s, k, next)
    BY <1>4 DEF Healthy
  <2>2. timeline' \in Timelines /\ k <= next
    BY <2>1 DEF FitsHistory
  <2>3. Len(inputs') = k /\ inputs' \in Seq(Inputs)
    BY <1>1, <2>1, <2>2, RunIsHistory DEF IsHistory
  <2>4. PredictionTypeOK'
    BY <1>1, <2>1, <2>2, <2>3 DEF PredictionInv, PredictionTypeOK
  <2>5. HistoryIsRun'
    BY <2>1, <2>2, <2>3 DEF HistoryIsRun
  <2>6. Predicting'
    BY <1>4, <2>1, <2>3 DEF Predicting, CaughtUp, FitsHistory
  <2>7. ClientHealthy'
    BY <1>1, <1>4, <2>1, <2>6 DEF ClientHealthy, HasPlayed
  <2>8. FailuresExplained'
    BY <2>1 DEF FailuresExplained, FrontiersReconcile
  <2> QED BY <1>2, <2>4, <2>5, <2>7, <2>8 DEF PredictionInv
<1>5. CASE /\ timeline' = timeline /\ inputs' = inputs
           /\ \/ o.error = "PredictionScopeFailed" /\ Exhausted(o)
              \/ o.error = "PredictionTimelineFailed" /\ doubled
  <2>1. failed' # "none" /\ world' = world
    BY <1>5
  <2>2. PredictionTypeOK'
    BY <1>5 DEF PredictionInv, PredictionTypeOK
  <2>3. HistoryIsRun'
    BY <1>5 DEF PredictionInv, HistoryIsRun
  <2>4. ClientHealthy'
    BY <2>1 DEF ClientHealthy
  <2>5. FailuresExplained'
    BY <1>5, Zenon DEF FailuresExplained, FrontiersReconcile, Exhausted
  <2> QED BY <1>2, <2>2, <2>3, <2>4, <2>5 DEF PredictionInv
<1> QED
  BY <1>3, <1>4, <1>5, Zenon

\* A snapshot that shows the player back after a defeat acknowledges the whole
\* history, when respawn requests go out one at a time.
LEMMA RespawnAcknowledged ==
  ASSUME PredictionInv, ~doubled, Defeated, world # NoSnapshot, world.mode = "Spectating",
         NEW s \in snapshots, s.mode = "Playing", world.tick < s.tick
  PROVE  s.ack = next - 1
<1> USE PredictionAssumption
<1>1. world \in snapshots /\ s.ack \in Int /\ s.ack < next /\ world.ack \in Int /\ next \in Int
      /\ respawns \subseteq 0 .. next - 1
  BY SnapshotsInstallable DEF PredictionInv, ServerSide, Installable
<1>2. PICK r \in respawns : world.ack < r /\ r <= s.ack
  BY <1>1 DEF PredictionInv, RespawnEvidence
<1>3. r \in Int /\ (r <= world.ack \/ r = next - 1)
  BY <1>1 DEF Defeated
<1> QED
  BY <1>1, <1>2, <1>3

\* Installing a Playing snapshot where there is no timeline.
LEMMA PlaysAfresh ==
  ASSUME PredictionInv, timeline = None, inputs = << >>, NEW s \in snapshots, s.mode = "Playing",
         ~doubled => s.ack = next - 1,
         NEW rebuild \in BOOLEAN, NEW o \in Prediction(s, rebuild)
  PROVE  /\ Healthy(o, s, 0, next)
         /\ ~doubled => CaughtUp(o.timeline, next) /\ \A r \in respawns : r <= s.ack
<1>1. Installable(s) /\ s.ack < next /\ next \in 0 .. InvalidInput
      /\ respawns \subseteq 0 .. next - 1
  BY SnapshotsInstallable DEF PredictionInv, ServerSide
<1>2. o \in Installs(s, << >>, "NewAuthority", rebuild)
  BY DEF Prediction
<1>3. Healthy(o, s, 0, next) /\ (s.ack = next - 1 => CaughtUp(o.timeline, next))
  BY <1>1, <1>2, FirstInstall
<1>4. s.ack = next - 1 => \A r \in respawns : r <= s.ack
  BY <1>1, PredictionAssumption
<1> QED
  BY <1>3, <1>4

\* A snapshot moves the prediction to itself, or the client fails for want of an
\* epoch.
LEMMA ProcessSnapshotInv ==
  ASSUME PredictionInv, NEW s \in snapshots, NEW rebuild \in BOOLEAN,
         ProcessSnapshot(s, rebuild)
  PROVE  PredictionInv'
<1> USE PredictionAssumption
<1>1. /\ Installable(s) /\ s \in ServerStates /\ s # NoSnapshot /\ s.ack < next
      /\ next \in 0 .. InvalidInput /\ next \in Int /\ respawns \subseteq 0 .. next - 1
      /\ s.ack \in Int /\ s.tick \in Int /\ failed = "none"
  BY SnapshotsInstallable DEF PredictionInv, ServerSide, Installable, ProcessSnapshot
<1>2. /\ world.ack \in Int /\ world.tick \in Int /\ world \in snapshots \cup {NoSnapshot}
      /\ s.tick > world.tick => s.ack >= world.ack
  <2>1. CASE world \in snapshots
    <3>1. Installable(world)
      BY <2>1, SnapshotsInstallable DEF PredictionInv
    <3>2. s.tick > world.tick => world.tick <= s.tick
      BY <1>1, <3>1 DEF Installable
    <3>3. s.tick > world.tick => world.ack <= s.ack
      BY <2>1, <3>2 DEF PredictionInv, ServerSide
    <3> QED BY <1>1, <2>1, <3>1, <3>3 DEF Installable
  <2>2. CASE world = NoSnapshot
    <3>1. s.ack >= -1
      BY <1>1 DEF ServerStates
    <3> QED BY <2>2, <3>1 DEF NoSnapshot, NoInput
  <2> QED BY <2>1, <2>2 DEF PredictionInv, ServerSide
<1>3. CASE s.tick <= world.tick /\ UNCHANGED predictionVars
  BY <1>3 DEF PredictionInv, PredictionTypeOK, ServerSide, RespawnEvidence, HistoryIsRun,
     ClientHealthy, HasPlayed, Waiting, Defeated, Predicting, FailuresExplained, FrontiersReconcile,
     CaughtUp, FitsHistory, predictionVars, predictionClient
<1>4. CASE s.tick > world.tick /\ ~ValidAcknowledgement(s)
  BY <1>1, <1>2, <1>4 DEF ValidAcknowledgement
<1>5. CASE /\ s.tick > world.tick /\ ValidAcknowledgement(s)
           /\ \E o \in IF welcomed THEN Prediction(s, rebuild)
                       ELSE {Outcome("none", timeline, inputs)} :
                /\ failed' = o.error
                /\ timeline' = o.timeline /\ inputs' = o.inputs
                /\ world' = IF o.error = "none" THEN s ELSE world
           /\ UNCHANGED <<welcomed, next, respawns, doubled, authority, snapshots>>
  <2>1. PICK o \in IF welcomed THEN Prediction(s, rebuild)
                   ELSE {Outcome("none", timeline, inputs)} :
          /\ failed' = o.error
          /\ timeline' = o.timeline /\ inputs' = o.inputs
          /\ world' = IF o.error = "none" THEN s ELSE world
    BY <1>5
  <2>2. s.ack >= world.ack /\ s.tick > world.tick
    BY <1>1, <1>2, <1>5
  <2>3. CASE ~welcomed
    <3>1. UNCHANGED <<timeline, inputs, failed, welcomed, next, respawns, doubled, authority,
                      snapshots>>
          /\ world' = s
      BY <1>1, <1>5, <2>1, <2>3 DEF Outcome
    <3>2. ServerSide' /\ RespawnEvidence'
      <4>1. next' \in next .. InvalidInput /\ respawns \subseteq respawns'
            /\ respawns' \subseteq 0 .. next' - 1 /\ world' \in snapshots \cup {NoSnapshot}
        BY <1>1, <3>1
      <4> QED BY <3>1, <4>1, ClientKeepsServerSide DEF PredictionInv
    <3>3. PredictionTypeOK' /\ HistoryIsRun'
      BY <3>1 DEF PredictionInv, PredictionTypeOK, HistoryIsRun
    <3>4. ClientHealthy'
      BY <1>1, <2>3, <3>1 DEF PredictionInv, ClientHealthy, HasPlayed, Waiting
    <3>5. FailuresExplained'
      BY <1>1, <3>1 DEF FailuresExplained, FrontiersReconcile
    <3> QED BY <3>2, <3>3, <3>4, <3>5 DEF PredictionInv
  <2>4. CASE welcomed
    <3>1. o \in Prediction(s, rebuild) /\ welcomed'
      BY <1>5, <2>1, <2>4
    <3>2. /\ world = NoSnapshot => Waiting
          /\ world # NoSnapshot /\ world.mode = "Spectating" => Defeated
          /\ world # NoSnapshot /\ world.mode = "Playing" => Predicting
          /\ world # NoSnapshot => world.mode \in Modes
      <4>1. world # NoSnapshot => world.mode \in Modes
        BY DEF PredictionInv, ServerSide, ServerStates
      <4> QED BY <1>1, <2>4, <4>1 DEF PredictionInv, ClientHealthy, HasPlayed
    <3> DEFINE result ==
          \/ /\ s.mode = "Spectating" /\ o.error = "none" /\ timeline' = None /\ inputs' = << >>
             /\ ~doubled => \A r \in respawns : r <= s.ack \/ r = next - 1
          \/ \E k \in 0 .. HistoryCapacity :
               /\ s.mode = "Playing" /\ Healthy(o, s, k, next)
               /\ ~doubled => CaughtUp(o.timeline, next) /\ \A r \in respawns : r <= s.ack
          \/ /\ timeline' = timeline /\ inputs' = inputs
             /\ \/ o.error = "PredictionScopeFailed" /\ Exhausted(o)
                \/ o.error = "PredictionTimelineFailed" /\ doubled
    <3>3. CASE s.mode = "Spectating"
      <4>1. timeline # None => Predicting /\ world # NoSnapshot
        BY <3>2 DEF Modes, Waiting, Defeated
      <4>2. timeline # None => timeline.tick = world.tick /\ timeline.acked = world.ack
        BY <4>1 DEF Predicting, FitsHistory
      <4>3. timeline # None => HardResynced(timeline, s, timeline.epoch) # {}
        <5>1. s.tick >= world.tick /\ s.ack >= world.ack
          BY <1>1, <1>2, <2>2
        <5>2. timeline # None => s.tick >= timeline.tick /\ s.ack >= timeline.acked
          BY <4>2, <5>1, Zenon
        <5> QED BY <5>2, Zenon DEF HardResynced, Installed
      <4>4. o = Outcome("none", None, << >>)
        BY <3>1, <3>3, <4>3 DEF Prediction, Ends
      <4>5. ~doubled => \A r \in respawns : r <= s.ack \/ r = next - 1
        <5>1. ASSUME ~doubled, NEW r \in respawns PROVE r <= s.ack \/ r = next - 1
          <6>1. r <= world.ack \/ r = next - 1
            BY <3>2, <5>1 DEF Waiting, Defeated, Predicting, Modes
          <6>2. r \in Int
            BY <1>1
          <6> QED BY <1>1, <1>2, <2>2, <6>1, <6>2
        <5> QED BY <5>1
      <4>6. result
        BY <2>1, <3>3, <4>4, <4>5 DEF Outcome
      <4> QED BY <1>5, <2>1, <3>1, <4>6, InstalledInv
    <3>4. CASE s.mode = "Playing" /\ timeline = None
      <4>1. inputs = << >>
        BY <3>2, <3>4 DEF Waiting, Defeated, Predicting, Modes
      <4>2. ~doubled => s.ack = next - 1
        <5>1. CASE world = NoSnapshot
          <6>1. next = 0 /\ s.ack >= -1
            BY <1>1, <3>2, <5>1 DEF Waiting, ServerStates
          <6> QED BY <1>1, <6>1
        <5>2. CASE world # NoSnapshot
          <6>1. world.mode = "Spectating" /\ Defeated
            BY <3>2, <3>4, <5>2 DEF Predicting, Modes
          <6>2. world.tick < s.tick
            BY <1>1, <1>2, <2>2
          <6> QED BY <3>4, <5>2, <6>1, <6>2, RespawnAcknowledged
        <5> QED BY <5>1, <5>2
      <4>3. /\ Healthy(o, s, 0, next)
            /\ ~doubled => CaughtUp(o.timeline, next) /\ \A r \in respawns : r <= s.ack
        BY <3>1, <3>4, <4>1, <4>2, PlaysAfresh
      <4>4. result
        <5>1. 0 \in 0 .. HistoryCapacity
          OBVIOUS
        <5> QED BY <3>4, <4>3, <5>1
      <4> QED BY <1>5, <2>1, <3>1, <4>4, InstalledInv
    <3>5. CASE s.mode = "Playing" /\ timeline # None
      <4>1. Predicting /\ world # NoSnapshot
        BY <3>2, <3>5 DEF Waiting, Defeated, Modes
      <4>2. Playing(Len(inputs)) /\ Len(inputs) \in 0 .. HistoryCapacity
        BY <4>1, PredictingPlays DEF PredictionInv
      <4> DEFINE h == Len(inputs)
                 k == Kept(h, next, s.ack)
      <4>3. Continued(o, s, k)
        <5>1. o \in Installs(s, inputs, "NewAuthority", rebuild)
          BY <3>1, <3>5 DEF Prediction
        <5>2. s.tick >= world.tick
          BY <1>1, <1>2, <2>2
        <5> QED BY <1>1, <1>2, <2>2, <3>5, <4>2, <5>1, <5>2, ContinuedInstall DEF Playing
      <4>4. k \in 0 .. HistoryCapacity
        <5>1. h \in Nat
          BY <4>2
        <5>2. k \in 0 .. h
          BY <1>1, <5>1, KeptHistory
        <5> QED BY <4>2, <5>2
      <4>5. ~doubled => CaughtUp(timeline, next) /\ \A r \in respawns : r <= s.ack
        <5>1. ~doubled => CaughtUp(timeline, next) /\ \A r \in respawns : r <= world.ack
          BY <4>1 DEF Predicting
        <5>2. \A r \in respawns : r <= world.ack => r <= s.ack
          <6>1. \A r \in respawns : r \in Int
            BY <1>1
          <6> QED BY <1>1, <1>2, <2>2, <6>1
        <5> QED BY <5>1, <5>2
      <4> HIDE DEF k
      <4>6. result
        BY <2>1, <3>5, <4>3, <4>4, <4>5 DEF Continued
      <4> QED BY <1>5, <2>1, <3>1, <4>6, InstalledInv
    <3>6. s.mode \in Modes
      BY <1>1 DEF ServerStates
    <3> QED BY <3>3, <3>4, <3>5, <3>6 DEF Modes
  <2> QED BY <2>3, <2>4
<1> QED
  BY <1>3, <1>4, <1>5 DEF ProcessSnapshot

\* The welcome makes the prediction of a snapshot that came before it.
LEMMA ProcessWelcomeInv ==
  ASSUME PredictionInv, ProcessWelcome
  PROVE  PredictionInv'
<1> USE PredictionAssumption
<1>1. /\ failed = "none" /\ ~welcomed /\ welcomed' = TRUE
      /\ UNCHANGED <<world, next, respawns, doubled, authority, snapshots>>
  BY DEF ProcessWelcome
<1>2. PICK o \in IF world = NoSnapshot THEN {Outcome("none", None, << >>)}
                 ELSE Prediction(world, TRUE) :
        failed' = o.error /\ timeline' = o.timeline /\ inputs' = o.inputs
  BY DEF ProcessWelcome
<1>3. timeline = None /\ inputs = << >> /\ next = 0 /\ respawns = {}
  BY <1>1 DEF PredictionInv, ClientHealthy, HasPlayed, Waiting
<1>4. CASE world = NoSnapshot
  <2>1. UNCHANGED <<timeline, inputs, failed>>
    BY <1>1, <1>2, <1>3, <1>4 DEF Outcome
  <2>2. ServerSide' /\ RespawnEvidence'
    <3>1. next' \in next .. InvalidInput /\ respawns \subseteq respawns'
          /\ respawns' \subseteq 0 .. next' - 1 /\ world' \in snapshots \cup {NoSnapshot}
      BY <1>1, <1>3, <1>4
    <3> QED BY <1>1, <3>1, ClientKeepsServerSide DEF PredictionInv
  <2>3. PredictionTypeOK' /\ HistoryIsRun'
    BY <1>1, <2>1 DEF PredictionInv, PredictionTypeOK, HistoryIsRun
  <2>4. ClientHealthy'
    BY <1>1, <1>3, <1>4, <2>1 DEF ClientHealthy, HasPlayed, Waiting, NoSnapshot
  <2>5. FailuresExplained'
    BY <1>1, <2>1 DEF FailuresExplained, FrontiersReconcile
  <2> QED BY <2>2, <2>3, <2>4, <2>5 DEF PredictionInv
<1>5. CASE world # NoSnapshot
  <2>1. world \in snapshots /\ o \in Prediction(world, TRUE)
    BY <1>2, <1>5 DEF PredictionInv, ServerSide
  <2>2. world \in ServerStates /\ world.ack < next /\ world.ack \in Int
    BY <2>1, SnapshotsInstallable DEF PredictionInv, Installable
  <2>3. world' = (IF o.error = "none" THEN world ELSE world)
    BY <1>1
  <2>4. CASE world.mode = "Spectating"
    <3>1. o = Outcome("none", None, << >>)
      BY <1>3, <2>1, <2>4 DEF Prediction, Ends
    <3>2. o.error = "none" /\ timeline' = None /\ inputs' = << >>
      BY <1>2, <3>1 DEF Outcome
    <3> QED BY <1>1, <1>2, <1>3, <2>1, <2>3, <2>4, <3>2, InstalledInv
  <2>5. CASE world.mode = "Playing"
    <3>1. ~doubled => world.ack = next - 1
      <4>1. world.ack >= -1
        BY <2>2 DEF ServerStates
      <4> QED BY <1>3, <2>2, <4>1
    <3>2. /\ Healthy(o, world, 0, next)
          /\ ~doubled => CaughtUp(o.timeline, next) /\ \A r \in respawns : r <= world.ack
      BY <1>3, <2>1, <2>5, <3>1, PlaysAfresh
    <3>3. 0 \in 0 .. HistoryCapacity
      OBVIOUS
    <3> QED BY <1>1, <1>2, <2>1, <2>3, <2>5, <3>2, <3>3, InstalledInv
  <2> QED BY <2>2, <2>4, <2>5 DEF ServerStates, Modes
<1> QED
  BY <1>4, <1>5

\* A submitted command has an outcome: the history, or what a resync of a full
\* one leaves, takes it, or the client fails for want of an epoch.
SubmitOutcome(o, k) ==
  /\ ~HistoryFull => k = Len(inputs)
  /\ failed' = o.error /\ timeline' = o.timeline /\ inputs' = o.inputs
  /\ next' = IF next \in Range(o.inputs) THEN next + 1 ELSE next
  /\ \/ k < HistoryCapacity /\ Healthy(o, world, k + 1, next + 1) /\ o.timeline.frames # << >>
     \/ /\ Exhausted(o) /\ o.error # "none"
        /\ o.inputs = Interval(next - 1 - k, k) /\ o.timeline \in Timelines

\* Every submitted command has one.
LEMMA SubmitHasOutcome ==
  ASSUME PredictionInv, NEW rebase \in BOOLEAN, NEW rebuild \in BOOLEAN,
         SubmitPlaying(rebase, rebuild)
  PROVE  \E k \in 0 .. Len(inputs) : \E o : SubmitOutcome(o, k)
<1> USE PredictionAssumption
<1>1. /\ failed = "none" /\ welcomed /\ world # NoSnapshot /\ next < InvalidInput
      /\ world.mode = "Playing" /\ timeline # None
      /\ UNCHANGED <<welcomed, world, respawns, doubled, authority, snapshots>>
  BY DEF SubmitPlaying, MaySubmit
<1>2. Predicting /\ next \in 0 .. InvalidInput - 1 /\ respawns \subseteq 0 .. next - 1
  BY <1>1 DEF PredictionInv, ClientHealthy, HasPlayed, ServerSide
<1>3. Playing(Len(inputs)) /\ Len(inputs) \in 0 .. HistoryCapacity
      /\ world \in snapshots /\ Installable(world)
  BY <1>1, <1>2, PredictingPlays DEF PredictionInv, Playing
<1> DEFINE h == Len(inputs)
<1>4. PICK resync \in Resynced(rebuild) : \E ensured \in Ensured(resync, rebase) :
        \E o \in Stepped(ensured) :
          /\ failed' = o.error
          /\ timeline' = o.timeline /\ inputs' = o.inputs
          /\ next' = IF next \in Range(o.inputs) THEN next + 1 ELSE next
  BY DEF SubmitPlaying
<1>5. PICK ensured \in Ensured(resync, rebase) : \E o \in Stepped(ensured) :
        /\ failed' = o.error
        /\ timeline' = o.timeline /\ inputs' = o.inputs
        /\ next' = IF next \in Range(o.inputs) THEN next + 1 ELSE next
  BY <1>4
<1>6. PICK o \in Stepped(ensured) :
        /\ failed' = o.error
        /\ timeline' = o.timeline /\ inputs' = o.inputs
        /\ next' = IF next \in Range(o.inputs) THEN next + 1 ELSE next
  BY <1>5
<1>7. PICK k \in 0 .. h : /\ Submitting(resync, k, next) /\ (~HistoryFull => k = h)
                          /\ resync.error = "none" => k < HistoryCapacity
  BY <1>3, ResyncedFits
<1>8. k \in Nat /\ k \in 0 .. HistoryCapacity /\ k <= next
  <2>1. h \in 0 .. HistoryCapacity /\ h <= next /\ next \in Int
    BY <1>2, <1>3 DEF PredictionInv, HistoryIsRun
  <2> HIDE DEF h
  <2> QED BY <2>1
<1>9. Submitting(ensured, k, next) /\ (ensured.error = "none" => k < HistoryCapacity)
  <2>1. next \in 0 .. InvalidInput
    BY <1>2
  <2> QED BY <1>3, <1>7, <1>8, <2>1, EnsuredFits
<1>10. CASE ensured.error = "none"
  <2>1. Healthy(ensured, world, k, next) /\ k \in 0 .. HistoryCapacity - 1
    BY <1>8, <1>9, <1>10 DEF Submitting, Exhausted
  <2>2. Healthy(o, world, k + 1, next + 1) /\ o.timeline.frames # << >>
    BY <1>2, <1>3, <1>6, <2>1, SteppedFits
  <2>3. k < HistoryCapacity
    BY <2>1
  <2> QED BY <1>6, <1>7, <2>2, <2>3, Zenon DEF SubmitOutcome
<1>11. CASE ensured.error # "none"
  <2>1. o = ensured
    BY <1>6, <1>11 DEF Stepped
  <2>2. Exhausted(o) /\ o.inputs = Interval(next - 1 - k, k) /\ o.timeline \in Timelines
    BY <1>9, <1>11, <2>1 DEF Submitting, Healthy
  <2> QED BY <1>6, <1>7, <1>11, <2>1, <2>2, Zenon DEF SubmitOutcome
<1> QED
  BY <1>10, <1>11

\* A submitted command extends the history and the prediction, or the client
\* fails for want of an epoch.
LEMMA SubmitPlayingInv ==
  ASSUME PredictionInv, NEW rebase \in BOOLEAN, NEW rebuild \in BOOLEAN,
         SubmitPlaying(rebase, rebuild)
  PROVE  PredictionInv'
<1> USE PredictionAssumption
<1>1. /\ failed = "none" /\ welcomed /\ world # NoSnapshot /\ next < InvalidInput
      /\ world.mode = "Playing" /\ timeline # None
      /\ UNCHANGED <<welcomed, world, respawns, doubled, authority, snapshots>>
  BY DEF SubmitPlaying, MaySubmit
<1>2. Predicting /\ next \in 0 .. InvalidInput - 1 /\ respawns \subseteq 0 .. next - 1
  BY <1>1 DEF PredictionInv, ClientHealthy, HasPlayed, ServerSide
<1>3. Playing(Len(inputs)) /\ Len(inputs) \in 0 .. HistoryCapacity
      /\ world \in snapshots /\ Installable(world)
  BY <1>1, <1>2, PredictingPlays DEF PredictionInv, Playing
<1> DEFINE h == Len(inputs)
<1>4. PICK k \in 0 .. h : \E o : SubmitOutcome(o, k)
  BY SubmitHasOutcome
<1>5. PICK o : SubmitOutcome(o, k)
  BY <1>4
<1>6. /\ failed' = o.error /\ timeline' = o.timeline /\ inputs' = o.inputs
      /\ next' = IF next \in Range(o.inputs) THEN next + 1 ELSE next
  BY <1>5 DEF SubmitOutcome
<1>8. k \in Nat /\ k \in 0 .. HistoryCapacity /\ k <= next
  <2>1. h \in 0 .. HistoryCapacity /\ h <= next /\ next \in Int
    BY <1>2, <1>3 DEF PredictionInv, HistoryIsRun
  <2> HIDE DEF h
  <2> QED BY <2>1
<1>9. CASE k < HistoryCapacity /\ Healthy(o, world, k + 1, next + 1)
           /\ o.timeline.frames # << >>
  <2> DEFINE j == k + 1
             nx == next + 1
  <2>3. /\ failed' = "none" /\ inputs' = Interval(nx - 1 - j, j)
        /\ timeline' # None /\ FitsHistory(timeline', world, j, nx)
    BY <1>6, <1>9 DEF Healthy
  <2>4. nx \in 0 .. InvalidInput /\ j \in 0 .. HistoryCapacity /\ j <= nx /\ j > 0
        /\ nx - 1 = next
    BY <1>2, <1>8, <1>9
  <2> HIDE DEF nx, j
  <2>5. Len(inputs') = j /\ inputs' \in Seq(Inputs) /\ next \in Range(inputs')
    <3>1. IsHistory(inputs', j, nx)
      BY <2>3, <2>4, RunIsHistory
    <3> QED BY <2>4, <3>1 DEF IsHistory
  <2>6. next' = nx
    BY <1>6, <2>5 DEF nx
  <2>7. timeline' \in Timelines
    BY <2>3 DEF FitsHistory
  <2>8. PredictionTypeOK'
    BY <1>1, <2>3, <2>4, <2>5, <2>6, <2>7 DEF PredictionInv, PredictionTypeOK
  <2>9. ServerSide' /\ RespawnEvidence'
    <3>1. next' \in next .. InvalidInput /\ respawns' \subseteq 0 .. next' - 1
      BY <1>1, <1>2, <2>6 DEF nx
    <3>2. respawns \subseteq respawns' /\ world' \in snapshots \cup {NoSnapshot}
      BY <1>1, <1>3
    <3> QED BY <1>1, <3>1, <3>2, ClientKeepsServerSide DEF PredictionInv
  <2>10. HistoryIsRun'
    BY <2>3, <2>4, <2>5, <2>6 DEF HistoryIsRun
  <2>11. Predicting'
    <3>1. timeline'.frames # << >>
      BY <1>6, <1>9
    <3>2. FitsHistory(timeline, world, Len(inputs), next)'
      BY <1>1, <2>3, <2>5, <2>6 DEF FitsHistory
    <3>3. ~doubled => \A r \in respawns : r <= world.ack
      BY <1>2 DEF Predicting
    <3> QED BY <1>1, <2>3, <3>1, <3>2, <3>3 DEF Predicting, CaughtUp
  <2>12. ClientHealthy'
    BY <1>1, <2>11 DEF ClientHealthy, HasPlayed, NoSnapshot
  <2>13. FailuresExplained'
    BY <2>3 DEF FailuresExplained, FrontiersReconcile
  <2> QED BY <2>8, <2>9, <2>10, <2>12, <2>13 DEF PredictionInv
<1>10. CASE /\ Exhausted(o) /\ o.error # "none"
            /\ o.inputs = Interval(next - 1 - k, k) /\ o.timeline \in Timelines
  <2>3. Len(inputs') = k /\ inputs' \in Seq(Inputs) /\ next \notin Range(inputs')
    <3>1. next \in 0 .. InvalidInput /\ inputs' = Interval(next - 1 - k, k)
      BY <1>2, <1>6, <1>10
    <3>2. IsHistory(inputs', k, next)
      BY <1>8, <3>1, RunIsHistory, Zenon
    <3> QED BY <3>2 DEF IsHistory
  <2>4. next' = next /\ failed' # "none" /\ timeline'.epoch = InvalidEpoch - 1
        /\ failed' \in {"PredictionScopeFailed", "MissingControlledEntity"}
    BY <1>6, <1>10, <2>3 DEF Exhausted
  <2>5. PredictionTypeOK'
    BY <1>1, <1>2, <1>6, <1>8, <1>10, <2>3, <2>4 DEF PredictionInv, PredictionTypeOK
  <2>6. ServerSide' /\ RespawnEvidence'
    <3>1. next' \in next .. InvalidInput /\ respawns' \subseteq 0 .. next' - 1
      BY <1>1, <1>2, <2>4
    <3>2. respawns \subseteq respawns' /\ world' \in snapshots \cup {NoSnapshot}
      BY <1>1, <1>3
    <3> QED BY <1>1, <3>1, <3>2, ClientKeepsServerSide DEF PredictionInv
  <2>7. HistoryIsRun'
    BY <1>6, <1>8, <1>10, <2>3, <2>4 DEF HistoryIsRun
  <2>8. ClientHealthy' /\ FailuresExplained'
    BY <2>4 DEF ClientHealthy, FailuresExplained, FrontiersReconcile
  <2> QED BY <2>5, <2>6, <2>7, <2>8 DEF PredictionInv
<1> QED
  BY <1>5, <1>9, <1>10 DEF SubmitOutcome

\* A respawn request goes out when no earlier one is unacknowledged, or it is
\* remembered as doubled.
LEMMA SubmitRespawnInv ==
  ASSUME PredictionInv, SubmitRespawn
  PROVE  PredictionInv'
<1> USE PredictionAssumption
<1>1. /\ failed = "none" /\ welcomed /\ world # NoSnapshot /\ next < InvalidInput
      /\ world.mode = "Spectating" /\ respawns' = respawns \cup {next} /\ next' = next + 1
      /\ doubled' = (doubled \/ \E q \in respawns : q > world.ack)
      /\ UNCHANGED <<welcomed, world, inputs, timeline, failed, authority, snapshots>>
  BY DEF SubmitRespawn, MaySubmit
<1>2. /\ next \in 0 .. InvalidInput - 1 /\ respawns \subseteq 0 .. next - 1
      /\ world \in snapshots
  BY <1>1 DEF PredictionInv, ServerSide
<1>3. Defeated
  BY <1>1 DEF PredictionInv, ClientHealthy, HasPlayed
<1>4. ServerSide' /\ RespawnEvidence'
  <2>1. next' \in next .. InvalidInput /\ respawns' \subseteq 0 .. next' - 1
    BY <1>1, <1>2
  <2>2. respawns \subseteq respawns' /\ world' \in snapshots \cup {NoSnapshot}
    BY <1>1, <1>2
  <2> QED BY <1>1, <2>1, <2>2, ClientKeepsServerSide DEF PredictionInv
<1>5. PredictionTypeOK'
  <2>1. next' \in 0 .. InvalidInput /\ respawns' \subseteq Inputs
    BY <1>1, <1>2 DEF PredictionInv, PredictionTypeOK, Inputs
  <2> QED BY <1>1, <2>1 DEF PredictionInv, PredictionTypeOK
<1>6. HistoryIsRun'
  <2>1. next' - 1 - 0 \in Int /\ Len(<< >>) = 0 /\ 0 \in 0 .. HistoryCapacity /\ 0 <= next'
    BY <1>1, <1>2
  <2>2. Interval(next' - 1 - 0, 0) = << >>
    BY <2>1, IntervalProperties
  <2>3. inputs' = << >>
    BY <1>1, <1>3 DEF Defeated
  <2> QED BY <2>1, <2>2, <2>3, Zenon DEF HistoryIsRun
<1>7. ASSUME ~doubled', NEW r \in respawns PROVE r <= world.ack
  <2>1. world.ack \in Int /\ r \in Int
    BY <1>2, <1>7, SnapshotsInstallable DEF PredictionInv, Installable
  <2>2. ~\E q \in respawns : q > world.ack
    BY ONLY <1>1, <1>7, Zenon
  <2>3. ~(r > world.ack)
    BY <1>7, <2>2
  <2> QED BY <2>1, <2>3
<1>8. Defeated'
  <2>1. timeline' = None /\ inputs' = << >>
    BY <1>1, <1>3 DEF Defeated
  <2>2. ~doubled' => \A r \in respawns' : r <= world'.ack \/ r = next' - 1
    BY <1>1, <1>2, <1>7
  <2> QED BY <2>1, <2>2 DEF Defeated
<1>9. ClientHealthy'
  BY <1>1, <1>8 DEF ClientHealthy, HasPlayed, NoSnapshot
<1>10. FailuresExplained'
  BY <1>1 DEF FailuresExplained, FrontiersReconcile
<1> QED
  BY <1>4, <1>5, <1>6, <1>9, <1>10 DEF PredictionInv

\* A step of the server acknowledges no less than before, and lets a defeated
\* player back only for a respawn request.
LEMMA ServerStepInv ==
  ASSUME PredictionInv, NEW applies \in BOOLEAN, NEW granted \in BOOLEAN,
         NEW absorbed \in BOOLEAN, ServerStep(applies, granted, absorbed)
  PROVE  PredictionInv'
<1> USE PredictionAssumption
<1> DEFINE ack == IF applies THEN authority.ack + 1 ELSE authority.ack
           respawned == applies /\ granted /\ ack \in respawns /\ authority.mode = "Spectating"
           mode == IF absorbed THEN "Spectating" ELSE IF respawned THEN "Playing" ELSE authority.mode
           after == [tick |-> authority.tick + 1, ack |-> ack, mode |-> mode]
<1>1. /\ authority.tick < MaxTick /\ (applies => authority.ack + 1 < next) /\ authority' = after
      /\ snapshots' = (IF after.tick % 2 = 0 THEN snapshots \cup {after} ELSE snapshots)
      /\ UNCHANGED <<welcomed, world, next, inputs, timeline, failed, respawns, doubled>>
  BY DEF ServerStep, predictionClient
<1>2. /\ authority.tick \in Nat /\ authority.ack \in -1 .. InvalidInput - 1 /\ authority.mode \in Modes
      /\ authority.ack < next /\ next \in 0 .. InvalidInput
  BY DEF PredictionInv, ServerSide, ServerStates
<1>3. /\ ack \in -1 .. InvalidInput - 1 /\ ack >= authority.ack /\ ack < next /\ mode \in Modes
      /\ applies => ack > authority.ack
  BY <1>1, <1>2 DEF Modes
<1>4. mode = "Playing" => authority.mode = "Playing" \/ (applies /\ ack \in respawns)
  OBVIOUS
<1> HIDE DEF ack, mode
<1>5. /\ after \in ServerStates /\ after.tick = authority.tick + 1 /\ after.ack = ack
      /\ after.mode = mode
  BY <1>2, <1>3 DEF ServerStates
<1> HIDE DEF after
<1>6. snapshots' \subseteq snapshots \cup {after} /\ snapshots \subseteq snapshots'
  BY <1>1
<1>7. ASSUME NEW s \in snapshots
      PROVE  /\ s \in ServerStates /\ s.tick \in Nat /\ s.ack \in Int
             /\ s.tick < after.tick /\ s.ack <= after.ack /\ s.ack <= authority.ack
  <2>1. s \in ServerStates /\ s.tick <= authority.tick /\ s.ack <= authority.ack
    BY DEF PredictionInv, ServerSide
  <2>2. s.tick \in Nat /\ s.ack \in Int
    BY <2>1 DEF ServerStates
  <2> QED BY <1>2, <1>3, <1>5, <2>1, <2>2
<1>8. ServerSide'
  <2>1. authority' \in ServerStates /\ authority'.tick <= MaxTick /\ authority'.ack < next'
        /\ next' \in 0 .. InvalidInput
    BY <1>1, <1>2, <1>3, <1>5
  <2>2. snapshots' \subseteq ServerStates
    BY <1>5, <1>6, <1>7
  <2>3. ASSUME NEW s \in snapshots'
        PROVE  /\ s.tick <= authority'.tick /\ s.ack <= authority'.ack
               /\ s.tick = authority'.tick => s = authority'
    <3>1. CASE s = after
      BY <1>1, <1>2, <1>3, <1>5, <3>1
    <3>2. CASE s \in snapshots
      BY <1>1, <1>2, <1>5, <1>7, <3>2
    <3> QED BY <1>6, <3>1, <3>2
  <2>4. ASSUME NEW s \in snapshots', NEW t \in snapshots', s.tick <= t.tick
        PROVE  s.ack <= t.ack
    <3>1. CASE s \in snapshots /\ t \in snapshots
      BY <2>4, <3>1 DEF PredictionInv, ServerSide
    <3>2. CASE s \in snapshots /\ t = after
      BY <1>7, <3>2
    <3>3. CASE s = after /\ t \in snapshots
      BY <1>2, <1>5, <1>7, <2>4, <3>3
    <3>4. CASE s = after /\ t = after
      BY <1>3, <1>5, <3>4
    <3> QED BY <1>6, <3>1, <3>2, <3>3, <3>4
  <2>5. world' \in snapshots' \cup {NoSnapshot} /\ respawns' \subseteq 0 .. next' - 1
    BY <1>1, <1>6 DEF PredictionInv, ServerSide
  <2> QED BY <2>1, <2>2, <2>3, <2>4, <2>5 DEF ServerSide
<1>9. ASSUME NEW s \in snapshots', s.mode = "Spectating", after.mode = "Playing"
      PROVE  \E r \in respawns : s.ack < r /\ r <= after.ack
  <2>1. s \in snapshots
    BY <1>6, <1>9
  <2>2. CASE authority.mode = "Playing"
    <3>1. PICK r \in respawns : s.ack < r /\ r <= authority.ack
      BY <1>9, <2>1, <2>2 DEF PredictionInv, RespawnEvidence
    <3>2. r \in Int
      BY DEF PredictionInv, ServerSide
    <3>3. r <= after.ack
      BY <1>2, <1>3, <1>5, <3>1, <3>2
    <3> QED BY <3>1, <3>3
  <2>3. CASE authority.mode # "Playing"
    <3>1. applies /\ ack \in respawns
      BY <1>4, <1>5, <1>9, <2>3
    <3>2. s.ack < ack /\ ack <= after.ack
      BY <1>2, <1>3, <1>5, <1>7, <2>1, <3>1
    <3> QED BY <3>1, <3>2
  <2> QED BY <2>2, <2>3
<1>10. RespawnEvidence'
  <2>1. ASSUME NEW s \in snapshots', NEW t \in snapshots',
               s.mode = "Spectating", t.mode = "Playing", s.tick < t.tick
        PROVE  \E r \in respawns' : s.ack < r /\ r <= t.ack
    <3>1. CASE t = after
      BY <1>1, <1>9, <2>1, <3>1
    <3>2. CASE t \in snapshots /\ s = after
      BY <1>2, <1>5, <1>7, <2>1, <3>2
    <3>3. CASE t \in snapshots /\ s \in snapshots
      BY <1>1, <2>1, <3>3 DEF PredictionInv, RespawnEvidence
    <3> QED BY <1>6, <3>1, <3>2, <3>3
  <2>2. \A s \in snapshots' :
          s.mode = "Spectating" /\ authority'.mode = "Playing"
            => \E r \in respawns' : s.ack < r /\ r <= authority'.ack
    BY <1>1, <1>9
  <2> QED BY <2>1, <2>2 DEF RespawnEvidence
<1>11. PredictionTypeOK' /\ HistoryIsRun' /\ FailuresExplained'
  BY <1>1 DEF PredictionInv, PredictionTypeOK, HistoryIsRun, FailuresExplained,
     FrontiersReconcile
<1>12. ClientHealthy'
  BY <1>1 DEF PredictionInv, ClientHealthy, HasPlayed, Waiting, Defeated, Predicting,
     CaughtUp, FitsHistory, NoSnapshot
<1> QED
  BY <1>8, <1>10, <1>11, <1>12 DEF PredictionInv

-----------------------------------------------------------------------------
(* Theorems.                                                               *)

\* Initially the client waits for its session.
LEMMA PredictionInvInit == PredictionInit => PredictionInv
<1> SUFFICES ASSUME PredictionInit PROVE PredictionInv
  OBVIOUS
<1> USE PredictionAssumption DEF PredictionInit
<1>1. PredictionTypeOK
  <2>1. << >> \in Seq(Inputs) /\ Len(<< >>) = 0
    OBVIOUS
  <2>2. welcomed = FALSE /\ next = 0 /\ inputs = << >> /\ timeline = None /\ failed = "none"
        /\ respawns = {} /\ doubled = FALSE
    OBVIOUS
  <2>3. 0 \in 0 .. InvalidInput /\ 0 <= HistoryCapacity
    OBVIOUS
  <2> QED BY ONLY <2>1, <2>2, <2>3, Zenon DEF PredictionTypeOK
<1>2. ServerSide
  BY DEF ServerSide, ServerStates, Modes, NoInput
<1>3. RespawnEvidence
  BY DEF RespawnEvidence
<1>4. HistoryIsRun
  <2>1. 0 - 1 - 0 \in Int /\ Len(<< >>) = 0 /\ 0 \in 0 .. HistoryCapacity /\ 0 <= 0
    OBVIOUS
  <2>2. Interval(0 - 1 - 0, 0) = << >>
    BY <2>1, IntervalProperties
  <2>3. inputs = << >> /\ next = 0
    OBVIOUS
  <2> QED BY <2>1, <2>2, <2>3, Zenon DEF HistoryIsRun
<1>5. ClientHealthy
  BY DEF ClientHealthy, HasPlayed, Waiting
<1>6. FailuresExplained
  BY DEF FailuresExplained, FrontiersReconcile
<1> QED
  BY <1>1, <1>2, <1>3, <1>4, <1>5, <1>6 DEF PredictionInv

\* Every step preserves the invariant.
LEMMA PredictionInvNext == PredictionInv /\ [PredictionNext]_predictionVars => PredictionInv'
<1> SUFFICES ASSUME PredictionInv, [PredictionNext]_predictionVars PROVE PredictionInv'
  OBVIOUS
<1>1. CASE \E s \in snapshots, rebuild \in BOOLEAN : ProcessSnapshot(s, rebuild)
  BY <1>1, ProcessSnapshotInv
<1>2. CASE ProcessWelcome
  BY <1>2, ProcessWelcomeInv
<1>3. CASE \E rebase, rebuild \in BOOLEAN : SubmitPlaying(rebase, rebuild)
  BY <1>3, SubmitPlayingInv
<1>4. CASE SubmitRespawn
  BY <1>4, SubmitRespawnInv
<1>5. CASE \E applies, granted, absorbed \in BOOLEAN : ServerStep(applies, granted, absorbed)
  BY <1>5, ServerStepInv
<1>6. CASE UNCHANGED predictionVars
  BY <1>6 DEF PredictionInv, PredictionTypeOK, ServerSide, RespawnEvidence, HistoryIsRun,
     ClientHealthy, HasPlayed, Waiting, Defeated, Predicting, FailuresExplained, FrontiersReconcile,
     CaughtUp, FitsHistory, predictionVars, predictionClient
<1> QED
  BY <1>1, <1>2, <1>3, <1>4, <1>5, <1>6, Zenon DEF PredictionNext

\* The invariant holds in every reachable state.
THEOREM PredictionInvHolds == PredictionSpec => []PredictionInv
<1>1. PredictionInit => PredictionInv
  BY PredictionInvInit
<1>2. PredictionInv /\ [PredictionNext]_predictionVars => PredictionInv'
  BY PredictionInvNext
<1> QED
  BY <1>1, <1>2, PTL DEF PredictionSpec

\* The invariant implies that the prediction is sound.
LEMMA PredictionInvSuffices == PredictionInv => PredictionSound
<1> SUFFICES ASSUME PredictionInv, failed = "none", welcomed, world # NoSnapshot
             PROVE  PredictionCurrent
  BY DEF PredictionInv, PredictionSound, PredictionCurrent
<1> USE PredictionAssumption
<1>1. /\ world.mode = "Spectating" => Defeated
      /\ world.mode = "Playing" => Predicting
      /\ world.mode \in Modes
  BY DEF PredictionInv, ClientHealthy, HasPlayed, ServerSide, ServerStates
<1>2. timeline # None <=> world.mode = "Playing"
  BY <1>1 DEF Modes, Defeated, Predicting
<1>3. CASE world.mode = "Spectating"
  <2>1. DOMAIN inputs = {} /\ timeline = None
    BY <1>1, <1>3 DEF Defeated
  <2> QED BY <1>2, <2>1 DEF PredictionCurrent
<1>4. CASE world.mode = "Playing"
  <2> DEFINE h == Len(inputs)
             f == next - 1 - h
  <2>1. Predicting /\ h \in 0 .. HistoryCapacity /\ world.ack \in Int /\ inputs = Interval(f, h)
        /\ next \in Int
    BY <1>1, <1>4, PredictingPlays DEF PredictionInv, HistoryIsRun, ServerSide
  <2>2. /\ timeline.tick = world.tick /\ timeline.acked = world.ack /\ world.ack < next - h
    BY <2>1 DEF Predicting, FitsHistory
  <2>3. PICK m \in 0 .. h : timeline.frames = Interval(f, m) /\ (timeline.alive => m = h)
    BY <2>1 DEF Predicting, FitsHistory
  <2> HIDE DEF h
  <2>4. f \in Int /\ h \in Nat /\ m \in Nat /\ world.ack <= f /\ m \in 0 .. h
    BY <2>1, <2>2, <2>3
  <2>5. \A i \in DOMAIN inputs : inputs[i] = next - h + i - 1 /\ inputs[i] > world.ack
    <3> HIDE DEF f
    <3>1. DOMAIN inputs = 1 .. h /\ \A i \in 1 .. h : inputs[i] = f + i
      <4>1. /\ DOMAIN Interval(f, h) = 1 .. h
            /\ \A i \in 1 .. h : Interval(f, h)[i] = f + i
        BY <2>4, IntervalProperties, Zenon
      <4> QED BY <2>1, <4>1, Zenon
    <3>2. ASSUME NEW i \in 1 .. h PROVE f + i = next - h + i - 1 /\ f + i > world.ack
      BY <2>1, <2>4 DEF f
    <3> QED BY <3>1, <3>2, Zenon
  <2> HIDE DEF f
  <2>6. IsPrefix(timeline.frames, inputs)
    <3>1. SubSeq(Interval(f, m), 1, m) = Interval(f, m) /\ SubSeq(Interval(f, h), 1, m) = Interval(f, m)
      <4>1. 0 \in 0 .. m /\ 0 \in 0 .. h /\ m \in 0 .. m /\ m \in 0 .. h /\ 0 + 1 = 1 /\ m - 0 = m
            /\ f + 0 = f
        BY <2>4
      <4>2. SubSeq(Interval(f, m), 0 + 1, m) = Interval(f + 0, m - 0)
        BY <2>4, <4>1, IntervalCut
      <4>3. SubSeq(Interval(f, h), 0 + 1, m) = Interval(f + 0, m - 0)
        BY <2>4, <4>1, IntervalCut
      <4> QED BY <4>1, <4>2, <4>3
    <3>2. Len(Interval(f, m)) = m /\ Len(Interval(f, h)) = h /\ m <= h
      BY <2>4, IntervalProperties
    <3> QED BY <2>1, <2>3, <3>1, <3>2 DEF IsPrefix
  <2>7. timeline.alive => timeline.frames = inputs
    BY <2>1, <2>3
  <2> QED BY <1>2, <2>2, <2>5, <2>6, <2>7 DEF PredictionCurrent, h
<1> QED
  BY <1>1, <1>3, <1>4 DEF Modes

\* For every history capacity and every order, loss and repetition of snapshots,
\* a healthy client predicts the newest one with the unacknowledged commands on
\* top, and only while it plays (install_authority and submit_input).
THEOREM PredictionAlwaysSound == PredictionSpec => []PredictionSound
<1>1. PredictionInv => PredictionSound
  BY PredictionInvSuffices
<1> QED
  BY <1>1, PredictionInvHolds, PTL

\* No order, loss or repetition of snapshots, no defeat, deferral or full history
\* fails the prediction (install_authority and submit_input) before its scope
\* epochs are exhausted, unless the player requested a respawn while an earlier
\* request was unacknowledged; and then the one other failure is the timeline's.
THEOREM FailuresAlwaysExplained == PredictionSpec => []FailuresExplained
<1>1. PredictionInv => FailuresExplained
  BY DEF PredictionInv
<1> QED
  BY <1>1, PredictionInvHolds, PTL

\* The values of a run.
LEMMA RunRange ==
  ASSUME NEW a \in Int, NEW n \in Nat
  PROVE  Range(Interval(a, n)) = a + 1 .. a + n
<1>1. DOMAIN Interval(a, n) = 1 .. n /\ \A i \in 1 .. n : Interval(a, n)[i] = a + i
  BY IntervalProperties
<1>2. ASSUME NEW v \in a + 1 .. a + n PROVE v \in Range(Interval(a, n))
  <2>1. v - a \in 1 .. n /\ a + (v - a) = v
    OBVIOUS
  <2>2. v - a \in DOMAIN Interval(a, n) /\ Interval(a, n)[v - a] = v
    BY <1>1, <2>1
  <2> QED BY <2>2, Zenon DEF Range
<1>3. ASSUME NEW i \in 1 .. n PROVE a + i \in a + 1 .. a + n
  OBVIOUS
<1> QED
  BY <1>1, <1>2, <1>3 DEF Range

\* What a step may do with the retained commands.
CommandsKept ==
  \A i \in DOMAIN inputs :
    \/ inputs[i] \in Range(inputs')
    \/ inputs[i] <= world'.ack
    \/ world'.mode = "Spectating"
    \/ Len(inputs) = HistoryCapacity /\ (next' > next \/ failed' # "none")

\* The history as a set of commands.
LEMMA HistoryRange ==
  ASSUME PredictionInv
  PROVE  /\ Range(inputs) = next - Len(inputs) .. next - 1
         /\ next \in Int /\ Len(inputs) \in Nat
         /\ \A i \in DOMAIN inputs : inputs[i] \in Range(inputs)
<1> DEFINE h == Len(inputs)
<1>1. inputs = Interval(next - 1 - h, h) /\ h \in Nat /\ next \in Int
  BY PredictionAssumption DEF PredictionInv, HistoryIsRun, ServerSide
<1> HIDE DEF h
<1>2. Range(Interval(next - 1 - h, h)) = next - h .. next - 1
  <2> DEFINE f == next - 1 - h
  <2>1. f \in Int /\ f + 1 = next - h /\ f + h = next - 1
    BY <1>1
  <2> HIDE DEF f
  <2>2. Range(Interval(f, h)) = f + 1 .. f + h
    BY <1>1, <2>1, RunRange
  <2> QED BY <2>1, <2>2, Zenon DEF f
<1> QED
  BY <1>1, <1>2, Zenon DEF h, Range

\* A snapshot takes from the history the commands it acknowledges, or all of them
\* when it shows the player defeated.
LEMMA ProcessSnapshotKeeps ==
  ASSUME PredictionInv, NEW s \in snapshots, NEW rebuild \in BOOLEAN,
         ProcessSnapshot(s, rebuild)
  PROVE  CommandsKept
<1> USE PredictionAssumption
<1>1. Range(inputs) = next - Len(inputs) .. next - 1 /\ next \in Int /\ Len(inputs) \in Nat
      /\ \A i \in DOMAIN inputs : inputs[i] \in Range(inputs)
  BY HistoryRange
<1>2. CASE inputs' = inputs
  BY <1>1, <1>2 DEF CommandsKept
<1>3. CASE inputs' # inputs
  <2>1. welcomed /\ s.tick > world.tick /\ ValidAcknowledgement(s) /\ failed = "none"
    BY <1>3 DEF ProcessSnapshot, Outcome, predictionVars, predictionClient
  <2>2. PICK o \in Prediction(s, rebuild) :
          /\ inputs' = o.inputs /\ world' = IF o.error = "none" THEN s ELSE world
    BY <2>1, <1>3 DEF ProcessSnapshot, predictionVars, predictionClient
  <2>3. CASE s.mode = "Spectating"
    <3>1. o.error = "none"
      BY <1>3, <2>2, <2>3 DEF Prediction, Ends, Outcome
    <3> QED BY <2>2, <2>3, <3>1 DEF CommandsKept
  <2>4. CASE s.mode # "Spectating" /\ inputs # << >>
    <3> DEFINE h == Len(inputs)
               k == Kept(h, next, s.ack)
    <3>1. world # NoSnapshot /\ world.mode = "Playing" /\ Predicting
      <4>1. HasPlayed /\ world.mode \in Modes
        BY <2>1, <2>4 DEF PredictionInv, ClientHealthy, HasPlayed, Waiting, ServerSide, ServerStates
      <4>2. world.mode # "Spectating"
        BY <2>1, <2>4, <4>1 DEF PredictionInv, ClientHealthy, Defeated
      <4>3. world.mode = "Playing"
        BY <4>1, <4>2 DEF Modes
      <4> QED BY <2>1, <4>1, <4>3 DEF PredictionInv, ClientHealthy, HasPlayed
    <3>2. Playing(h) /\ h \in Nat /\ world.ack \in Int /\ world.tick \in Int
      BY <3>1, PredictingPlays DEF PredictionInv, Playing
    <3>3. /\ Installable(s) /\ next \in 0 .. InvalidInput /\ s.ack \in Int /\ s.tick \in Int
          /\ s.ack >= world.ack /\ s.ack < next /\ s.tick >= world.tick
      <4>1. Installable(s) /\ next \in 0 .. InvalidInput /\ s.ack \in Int /\ s.tick \in Int
        BY SnapshotsInstallable DEF PredictionInv, Installable
      <4> QED BY <2>1, <3>2, <4>1 DEF ValidAcknowledgement
    <3>4. Continued(o, s, k)
      <4>1. o \in Installs(s, inputs, "NewAuthority", rebuild)
        BY <2>2, <2>4 DEF Prediction
      <4> QED BY <3>1, <3>2, <3>3, <4>1, ContinuedInstall DEF Playing
    <3>5. o.error = "none" /\ o.inputs = Interval(next - 1 - k, k)
      BY <1>3, <2>2, <3>4 DEF Continued, Healthy
    <3>6. k \in Nat /\ (s.ack < next - h => k = h) /\ (~(s.ack < next - h) => k = next - 1 - s.ack)
      BY <1>1, <3>3, KeptHistory DEF Kept
    <3> HIDE DEF k
    <3>7. Range(inputs') = next - k .. next - 1
      <4> DEFINE f == next - 1 - k
      <4>1. f \in Int /\ f + 1 = next - k /\ f + k = next - 1
        BY <1>1, <3>6
      <4>2. inputs' = Interval(f, k)
        BY <2>2, <3>5
      <4> HIDE DEF f
      <4>3. Range(Interval(f, k)) = f + 1 .. f + k
        BY <3>6, <4>1, RunRange
      <4> QED BY <4>1, <4>2, <4>3, Zenon
    <3>8. world' = s
      BY <2>2, <3>5
    <3> HIDE DEF h
    <3>9. ASSUME NEW v \in next - h .. next - 1, ~(v <= s.ack)
          PROVE  v \in next - k .. next - 1
      <4>1. CASE s.ack < next - h
        BY <3>6, <3>9, <4>1
      <4>2. CASE ~(s.ack < next - h)
        <5>1. k = next - 1 - s.ack
          BY <3>6, <4>2
        <5> QED BY <1>1, <3>2, <3>3, <3>9, <5>1
      <4> QED BY <4>1, <4>2
    <3> QED BY <1>1, <3>7, <3>8, <3>9, Zenon DEF CommandsKept, h
  <2>5. CASE inputs = << >>
    BY <2>5 DEF CommandsKept
  <2> QED BY <2>3, <2>4, <2>5
<1> QED
  BY <1>2, <1>3

\* A submitted command is added to the retained ones, unless a full history had to
\* be resynced for it.
LEMMA SubmitPlayingKeeps ==
  ASSUME PredictionInv, NEW rebase \in BOOLEAN, NEW rebuild \in BOOLEAN,
         SubmitPlaying(rebase, rebuild)
  PROVE  CommandsKept
<1> USE PredictionAssumption
<1> DEFINE h == Len(inputs)
<1>1. Range(inputs) = next - h .. next - 1 /\ next \in Int /\ h \in Nat
      /\ \A i \in DOMAIN inputs : inputs[i] \in Range(inputs)
  BY HistoryRange
<1>2. PICK k \in 0 .. h : \E o : SubmitOutcome(o, k)
  BY SubmitHasOutcome
<1>3. PICK o : SubmitOutcome(o, k)
  BY <1>2
<1>4. CASE /\ k < HistoryCapacity /\ Healthy(o, world, k + 1, next + 1)
           /\ o.timeline.frames # << >>
  <2> DEFINE f == (next + 1) - 1 - (k + 1)
  <2>1. f \in Int /\ f + 1 = next - k /\ f + (k + 1) = next /\ k + 1 \in Nat
    BY <1>1
  <2>2. o.inputs = Interval(f, k + 1)
    BY <1>4, Zenon DEF Healthy
  <2> HIDE DEF f
  <2>3. Range(o.inputs) = f + 1 .. f + (k + 1)
    BY <2>1, <2>2, RunRange
  <2>4. Range(o.inputs) = next - k .. next
    BY <2>1, <2>3, Zenon
  <2>5. next' = next + 1 /\ inputs' = o.inputs
    BY <1>1, <1>3, <2>4 DEF SubmitOutcome
  <2>6. CASE HistoryFull
    BY <1>1, <2>5, <2>6 DEF CommandsKept, HistoryFull
  <2>7. CASE ~HistoryFull
    <3>1. k = h
      BY <1>3, <2>7 DEF SubmitOutcome
    <3>2. ASSUME NEW v \in next - h .. next - 1 PROVE v \in next - h .. next
      BY <1>1
    <3> QED BY <1>1, <2>4, <2>5, <3>1, <3>2, Zenon DEF CommandsKept
  <2> QED BY <2>6, <2>7
<1>5. CASE /\ Exhausted(o) /\ o.error # "none"
           /\ o.inputs = Interval(next - 1 - k, k) /\ o.timeline \in Timelines
  <2>1. failed' # "none" /\ inputs' = o.inputs
    BY <1>3, <1>5 DEF SubmitOutcome
  <2>2. CASE HistoryFull
    BY <2>1, <2>2 DEF CommandsKept, HistoryFull
  <2>3. CASE ~HistoryFull
    <3>1. k = h
      BY <1>3, <2>3 DEF SubmitOutcome
    <3>2. inputs' = inputs
      BY <1>5, <2>1, <3>1 DEF PredictionInv, HistoryIsRun
    <3> QED BY <1>1, <3>2 DEF CommandsKept
  <2> QED BY <2>2, <2>3
<1> QED
  BY <1>3, <1>4, <1>5 DEF SubmitOutcome

\* A command in input_history_ is given up only because the server acknowledged
\* it, the player was defeated, or submit_input resynced a full history.
THEOREM CommandsAlwaysRetained == PredictionSpec => CommandsRetained
<1>1. PredictionInv /\ [PredictionNext]_predictionVars => [CommandsKept]_predictionVars
  <2> SUFFICES ASSUME PredictionInv, PredictionNext PROVE CommandsKept
    OBVIOUS
  <2>1. CASE \E s \in snapshots, rebuild \in BOOLEAN : ProcessSnapshot(s, rebuild)
    BY <2>1, ProcessSnapshotKeeps
  <2>2. CASE ProcessWelcome
    <3>1. inputs = << >>
      BY <2>2 DEF ProcessWelcome, PredictionInv, ClientHealthy, HasPlayed, Waiting
    <3> QED BY <3>1 DEF CommandsKept
  <2>3. CASE \E rebase, rebuild \in BOOLEAN : SubmitPlaying(rebase, rebuild)
    BY <2>3, SubmitPlayingKeeps
  <2>4. CASE inputs' = inputs
    BY <2>4, HistoryRange DEF CommandsKept
  <2>5. SubmitRespawn => inputs' = inputs
    BY DEF SubmitRespawn
  <2>6. (\E applies, granted, absorbed \in BOOLEAN : ServerStep(applies, granted, absorbed))
          => inputs' = inputs
    BY DEF ServerStep, predictionClient
  <2> QED BY <2>1, <2>2, <2>3, <2>4, <2>5, <2>6, Zenon DEF PredictionNext
<1>2. PredictionInv /\ [PredictionNext]_predictionVars
        => [\A i \in DOMAIN inputs :
              \/ inputs[i] \in Range(inputs')
              \/ inputs[i] <= world'.ack
              \/ world'.mode = "Spectating"
              \/ Len(inputs) = HistoryCapacity /\ (next' > next \/ failed' # "none")]_predictionVars
  BY <1>1 DEF CommandsKept
<1> QED
  BY <1>2, PredictionInvHolds, PTL DEF PredictionSpec, CommandsRetained
=============================================================================
