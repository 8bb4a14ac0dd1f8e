-------------------------------- MODULE World --------------------------------
(***************************************************************************)
(* dots::simulation::World: the store of players (pieces) and food, and the *)
(* deterministic tick that advances it.  A world is a value: a tick works   *)
(* on a copy and commits it, a checkpoint leaves out what a restore         *)
(* rebuilds (lookup tables, radii, the grid, the order of the arrays).      *)
(*                                                                          *)
(* Two worlds appear.  `world` is the authoritative one, which a server     *)
(* spawns into, removes from and advances; `replica` is one restored from   *)
(* its checkpoint and advanced by the same commands, as a client does.      *)
(*                                                                          *)
(* Positions are one-dimensional integers, masses integers in a unit small  *)
(* enough for the halvings of a split to stay exact, ids start at 1 and the *)
(* rules are constants.  The parallel arrays                                *)
(* entity_ids_, owner_ids_, positions_ ... are one sequence of records.     *)
(***************************************************************************)
EXTENDS SpatialGrid, TLC

CONSTANTS
  Owners,             \* owner ids, numbers
  SpawnPoints,        \* the pairs of owner and position that spawns are asked for
  FoodPoints,         \* where food is
  CommandForms,       \* the commands that are tried
  Mechanics,          \* the sets of mechanics a tick may run with
  InitialMass, FoodMass, MinSplitMass, MaxPieces,
  Speed, LaunchSpeed, LaunchDecay, Cohesion, \* units per tick
  SplitRecast, MergeDelay, \* ticks
  RadiusForMass(_),
  LastEntity,         \* bound: EntityId::kInvalidValue - 1
  LastTick,           \* bound: the largest tick
  WireTick,           \* the largest tick of the wire (u32; the world's are u64)
  WireCount,          \* the most owners and the most entities of a snapshot (u16)
  EditTick            \* bound: the last tick at which spawns and removals are asked for

\* (The smallest mass that splits has a half.)
ASSUME WorldAssumption ==
  /\ Owners \subseteq Nat \ {0} /\ SpawnPoints \subseteq Owners \X Int /\ FoodPoints \subseteq Int
  /\ \A n \in {InitialMass, FoodMass, MinSplitMass, MaxPieces, SplitRecast, MergeDelay} :
       n \in Nat \ {0}
  /\ MinSplitMass >= 2
  /\ {Speed, LaunchSpeed, LaunchDecay, Cohesion} \subseteq Int
  /\ LastEntity \in Nat /\ LastTick \in Nat /\ WireTick \in Nat /\ WireCount \in Nat
  /\ \A f \in CommandForms : f.move \in Int
  /\ Mechanics \subseteq SUBSET {"absorption", "food", "split_merge"}

VARIABLES world, replica
vars == <<world, replica>>

NoWorld == <<>>   \* replica is a sequence of at most one world
NoInput == 0
NoOwner == 0
NoKey   == <<>>

EmptyWorld ==
  [players |-> <<>>, food |-> <<>>, locations |-> <<>>, owners |-> <<>>,
   grid |-> EmptyGrid, next |-> 1, tick |-> 0, journal |-> <<>>]

-----------------------------------------------------------------------------
(* Lookup and arrays.                                                      *)

\* deadline_after: saturates at the largest tick.
DeadlineAfter(tick, n) == IF tick > LastTick - n THEN LastTick ELSE tick + n

HasNextEntity(w) == w.next <= LastEntity

Located(w, id, kind) == id \in DOMAIN w.locations /\ w.locations[id].kind = kind
FindIndex(w, id) == w.locations[id].index
\* owners_ is kept sorted: std::lower_bound finds an owner, or its place.
LowerBound(w, o) == Min({i \in DOMAIN w.owners : w.owners[i].owner >= o} \cup {Len(w.owners) + 1})
FindOwner(w, o) ==
  LET at == LowerBound(w, o)
  IN  IF at \in DOMAIN w.owners /\ w.owners[at].owner = o THEN at ELSE 0

Locate(locations, id, kind, index) ==
  [x \in DOMAIN locations \cup {id} |->
     IF x = id THEN [kind |-> kind, index |-> index] ELSE locations[x]]

\* The last element takes the place of the removed one.
SwapAndPop(s, i) == SubSeq([s EXCEPT ![i] = s[Len(s)]], 1, Len(s) - 1)

\* Mutant: the entity moved into the gap keeps its old index.
RelocateRemovedOnly(w, array, i, kind) ==
  [x \in DOMAIN w.locations \ {array[i].id} |-> w.locations[x]]

Relocate(w, array, i, kind) ==
  LET id    == array[i].id
      moved == array[Len(array)].id
      at    == IF moved = id THEN w.locations ELSE Locate(w.locations, moved, kind, i)
  IN  [x \in DOMAIN at \ {id} |-> at[x]]

-----------------------------------------------------------------------------
(* Spawning and removing.                                                  *)

Bounds(piece) == Circle(piece.pos, piece.radius)
FoodBounds(f) == Circle(f.pos, RadiusForMass(FoodMass))

Piece(id, o, pos, mass, launch, eligible, key) ==
  [id |-> id, owner |-> o, pos |-> pos, mass |-> mass, radius |-> RadiusForMass(mass),
   launch |-> launch, eligible |-> eligible, key |-> key]

\* An entity enters the grid and comes last in its arrays.
WithPlayer(w, p) ==
  [w EXCEPT !.players = Append(@, p),
            !.locations = Locate(@, p.id, "player", Len(w.players) + 1),
            !.grid = Insert(@, p.id, Bounds(p))]

WithFood(w, f) ==
  [w EXCEPT !.food = Append(@, f),
            !.locations = Locate(@, f.id, "food", Len(w.food) + 1),
            !.grid = Insert(@, f.id, FoodBounds(f))]

\* A new piece also comes last in its owner's list.
AppendPiece(w, p) ==
  [WithPlayer(w, p) EXCEPT !.owners[FindOwner(w, p.owner)].pieces = Append(@, p.id),
                           !.next = @ + 1]

NewOwner(o) ==
  [owner |-> o, pieces |-> <<>>, move |-> 0, lastMove |-> 0,
   lastInput |-> NoInput, cooldown |-> 0]

WithOwner(w, o) ==
  IF FindOwner(w, o) # 0
    THEN w
    ELSE [w EXCEPT !.owners = InsertAt(@, LowerBound(w, o), NewOwner(o))]

CanSpawnPlayer(w, pos) ==
  HasNextEntity(w) /\ CanIndex(Circle(pos, RadiusForMass(InitialMass)))

SpawnedPlayer(w, o, pos) ==
  AppendPiece(WithOwner(w, o),
    Piece(w.next, o, pos, InitialMass, 0, DeadlineAfter(w.tick, MergeDelay), NoKey))

\* An owner without pieces is erased, with its input and cooldown state.
RemovedPlayer(w, id) ==
  LET i    == FindIndex(w, id)
      o    == FindOwner(w, w.players[i].owner)
      left == Kept(w.owners[o].pieces, ToSet(w.owners[o].pieces) \ {id})
  IN  [w EXCEPT !.players = SwapAndPop(@, i),
                !.locations = Relocate(w, w.players, i, "player"),
                !.grid = Erase(@, id),
                !.owners = IF left = <<>> THEN RemoveAt(@, o)
                           ELSE [@ EXCEPT ![o].pieces = left]]

CanSpawnFood(w, pos) ==
  HasNextEntity(w) /\ CanIndex(FoodBounds([pos |-> pos]))

SpawnedFood(w, pos) == [WithFood(w, [id |-> w.next, pos |-> pos]) EXCEPT !.next = @ + 1]

RemovedFood(w, id) ==
  LET i == FindIndex(w, id)
  IN  [w EXCEPT !.food = SwapAndPop(@, i),
                !.locations = Relocate(w, w.food, i, "food"),
                !.grid = Erase(@, id)]

\* classify_initial_player_spawn = Clear: no player overlaps the new one.
SpawnClear(w, pos) ==
  LET c == Circle(pos, RadiusForMass(InitialMass))
  IN  /\ CanIndex(c)
      /\ \A id \in ToSet(Query(w.grid, c)) :
           Located(w, id, "player") => ~CirclesOverlap(c, Bounds(w.players[FindIndex(w, id)]))

-----------------------------------------------------------------------------
(* Checkpoint and restore.                                                 *)

StrictlySorted(s) == \A i \in 1 .. Len(s) - 1 : s[i] < s[i + 1]
Column(s, field) == [i \in DOMAIN s |-> s[i][field]]
Ids(s) == ToSet(Column(s, "id"))

\* A set of entity ids, and a sequence of entities, sorted.
Ascending(S) == Kept([n \in 1 .. LastEntity |-> n], S)
ById(s) ==
  LET ids == Ascending(Ids(s))
  IN  [i \in DOMAIN ids |-> CHOOSE e \in ToSet(s) : e.id = ids[i]]

\* PlayerCheckpoint: a piece without what is derived from it.
PlayerState(p) ==
  [id |-> p.id, owner |-> p.owner, pos |-> p.pos, mass |-> p.mass, launch |-> p.launch,
   eligible |-> p.eligible, key |-> p.key]

Checkpoint(w) ==
  [tick |-> w.tick, next |-> w.next, owners |-> w.owners,
   players |-> ById([i \in DOMAIN w.players |-> PlayerState(w.players[i])]),
   food |-> ById(w.food)]

\* No two entities have the same prediction key.
KeysDistinct(s) == \A i, j \in DOMAIN s : s[i].key = s[j].key => i = j \/ s[i].key = NoKey

\* Mutant: an id may be a player's and a food's.
EntitiesValidApart(cp) ==
  LET owners == ToSet(Column(cp.owners, "owner"))
  IN  /\ \A e \in ToSet(cp.players) \cup ToSet(cp.food) : e.id < cp.next
      /\ KeysDistinct(cp.players)
      /\ \A p \in ToSet(cp.players) : p.owner \in owners /\ (p.key # NoKey => p.key[1] = p.owner)

\* Ids precede the allocator and name one entity each; a player has a known
\* owner and a prediction key of its own.
EntitiesValid(cp) ==
  LET owners == ToSet(Column(cp.owners, "owner"))
  IN  /\ \A e \in ToSet(cp.players) \cup ToSet(cp.food) : e.id < cp.next
      /\ IsInjective(Column(cp.players, "id") \o Column(cp.food, "id"))
      /\ KeysDistinct(cp.players)
      /\ \A p \in ToSet(cp.players) : p.owner \in owners /\ (p.key # NoKey => p.key[1] = p.owner)

\* The conditions of restore, in its order (the rules are constants here and
\* every position, mass and movement of the model is finite).
RestoreError(cp) ==
  LET pieces(o) == Column(Kept(cp.players, {p \in ToSet(cp.players) : p.owner = o}), "id")
  IN  CASE \/ ~StrictlySorted(Column(cp.owners, "owner"))
           \/ ~StrictlySorted(Column(cp.players, "id"))
           \/ ~StrictlySorted(Column(cp.food, "id")) -> "InvalidOrdering"
        [] OTHER ->
      CASE \E s \in ToSet(cp.owners) : s.pieces = <<>> \/ ~StrictlySorted(s.pieces)
             -> "InvalidOwnerState"
        [] OTHER ->
      CASE ~EntitiesValid(cp) -> "InvalidEntityState"
        [] OTHER ->
      CASE \E s \in ToSet(cp.owners) : pieces(s.owner) # s.pieces -> "InvalidOwnerState"
        [] OTHER ->
      CASE \/ \E p \in ToSet(cp.players) : ~CanIndex(Circle(p.pos, RadiusForMass(p.mass)))
           \/ \E f \in ToSet(cp.food) : ~CanIndex(FoodBounds(f)) -> "InvalidGeometry"
        [] OTHER -> "none"

\* Mutant: the launch velocity is not restored.
RestoredPieceAtRest(p) == Piece(p.id, p.owner, p.pos, p.mass, 0, p.eligible, p.key)

RestoredPiece(p) == Piece(p.id, p.owner, p.pos, p.mass, p.launch, p.eligible, p.key)

\* A fresh world filled in checkpoint order; the old one is replaced whole.
WithPlayers(w, ps) ==
  LET after[n \in 0 .. Len(ps)] ==
        IF n = 0 THEN w ELSE WithPlayer(after[n - 1], RestoredPiece(ps[n]))
  IN  after[Len(ps)]

WithFoods(w, fs) ==
  LET after[n \in 0 .. Len(fs)] == IF n = 0 THEN w ELSE WithFood(after[n - 1], fs[n])
  IN  after[Len(fs)]

Restored(cp) ==
  WithFoods(WithPlayers([EmptyWorld EXCEPT !.tick = cp.tick, !.next = cp.next,
                                           !.owners = cp.owners],
                        cp.players),
            cp.food)

-----------------------------------------------------------------------------
(* The snapshot of a world on the wire (replication.cpp): build and hydrate.*)

\* checkpoint_digest: a hash of every field in this order (two checkpoints are
\* taken to hash alike only when they are equal).
Digest(cp) == <<cp.tick, cp.next, cp.owners, cp.players, cp.food>>

PlayerEntity(p) ==
  [kind |-> "player", id |-> p.id, owner |-> p.owner, pos |-> p.pos, mass |-> p.mass,
   launch |-> p.launch, eligible |-> p.eligible, key |-> p.key]

FoodEntity(f) ==
  [kind |-> "food", id |-> f.id, owner |-> NoOwner, pos |-> f.pos, mass |-> FoodMass,
   launch |-> 0, eligible |-> 0, key |-> NoKey]

\* build_full_snapshot, the message: players and food in one array by id; the
\* owners' lists of pieces are left for the client to derive.  The narrowing of
\* the ticks keeps those that TicksFit lets through.
SnapshotOf(cp) ==
  [tick |-> cp.tick, next |-> cp.next, digest |-> Digest(cp),
   owners |-> [i \in DOMAIN cp.owners |-> [cp.owners[i] EXCEPT !.pieces = <<>>]],
   entities |-> ById([i \in DOMAIN cp.players |-> PlayerEntity(cp.players[i])]
                       \o [i \in DOMAIN cp.food |-> FoodEntity(cp.food[i])])]

\* A prediction key is its owner's, of an input that owner has had applied.
KeyAdmissible(e, s) ==
  \/ e.key = NoKey
  \/ \E o \in ToSet(s.owners) : o.owner = e.owner /\ e.key[1] = e.owner
                               /\ o.lastInput # NoInput /\ e.key[2] <= o.lastInput

\* validate(FullSnapshot), the owners and entities: neither too many, both
\* sorted, every player of a listed owner and every owner with a piece, food
\* without player state.
SnapshotValid(s) ==
  LET players == {e \in ToSet(s.entities) : e.kind = "player"}
  IN  /\ Len(s.entities) <= WireCount /\ Len(s.owners) <= WireCount
      /\ StrictlySorted(Column(s.owners, "owner")) /\ StrictlySorted(Column(s.entities, "id"))
      /\ \A e \in ToSet(s.entities) : e.mass > 0 /\ (s.next <= LastEntity => e.id < s.next)
      /\ {e.owner : e \in players} = ToSet(Column(s.owners, "owner"))
      /\ \A e \in players : KeyAdmissible(e, s)
      /\ KeysDistinct(s.entities)
      /\ \A e \in ToSet(s.entities) \ players : e = [FoodEntity(e) EXCEPT !.mass = e.mass]

\* tick_fits_protocol of the tick, the owners' cooldowns and the pieces' deadlines.
TickFits(tick) == tick <= WireTick
TicksFit(cp) ==
  /\ TickFits(cp.tick)
  /\ \A s \in ToSet(cp.owners) : TickFits(s.cooldown)
  /\ \A p \in ToSet(cp.players) : TickFits(p.eligible)

\* build_full_snapshot, the refusals: the server does not send what the wire
\* cannot carry, nor what a client would not take.
SnapshotBuildError(cp) ==
  CASE ~TicksFit(cp) -> "TickOutOfRange"
    [] OTHER ->
  CASE ~SnapshotValid(SnapshotOf(cp)) -> "InvalidWorldState"
    [] OTHER -> "none"

\* hydrate_checkpoint: the checkpoint the client makes of a snapshot.
Hydrated(s) ==
  LET of(kind)  == Kept(s.entities, {e \in ToSet(s.entities) : e.kind = kind})
      players   == [i \in DOMAIN of("player") |-> PlayerState(of("player")[i])]
      pieces(o) == Column(Kept(players, {p \in ToSet(players) : p.owner = o}), "id")
  IN  [tick |-> s.tick, next |-> s.next, players |-> players,
       owners |-> [i \in DOMAIN s.owners |->
                     [s.owners[i] EXCEPT !.pieces = pieces(s.owners[i].owner)]],
       food |-> [i \in DOMAIN of("food") |-> [id |-> of("food")[i].id, pos |-> of("food")[i].pos]]]

HydrationError(s) ==
  CASE ~SnapshotValid(s) -> "InvalidSnapshot"
    [] OTHER ->
  CASE \E e \in ToSet(s.entities) : e.kind = "food" /\ e.mass # FoodMass -> "InvalidFoodMass"
    [] OTHER ->
  CASE RestoreError(Hydrated(s)) # "none" -> "RestoreFailed"
    [] OTHER ->
  CASE Digest(Hydrated(s)) # s.digest -> "DigestMismatch"
    [] OTHER -> "none"

-----------------------------------------------------------------------------
(* advance: commands.                                                      *)

\* apply_commands orders the commands by owner and rejects them all when one
\* is bad: a second command of an owner, an unknown owner, an input that is
\* not newer.
CommandsValid(w, cmds) ==
  /\ IsInjective(Column(cmds, "owner"))
  /\ \A i \in DOMAIN cmds :
       LET o == FindOwner(w, cmds[i].owner)
       IN  /\ o # 0
           /\ cmds[i].type = "ApplyInput" =>
                cmds[i].input # NoInput /\ cmds[i].input > w.owners[o].lastInput
           /\ cmds[i].type # "ApplyInput" => cmds[i].input = NoInput /\ ~cmds[i].split
           /\ cmds[i].type = "StopMovement" => cmds[i].move = 0

Commanded(s, c) ==
  [s EXCEPT !.move = c.move,
            !.lastMove = IF c.type # "StopMovement" /\ c.move # 0 THEN c.move ELSE @,
            !.lastInput = IF c.type = "ApplyInput" THEN c.input ELSE @]

ApplyCommands(w, cmds) ==
  [w EXCEPT !.owners = <<>> \o [s \in DOMAIN @ |->
     LET c == SelectInSeq(cmds, LAMBDA x : x.owner = @[s].owner)
     IN  IF c = 0 THEN @[s] ELSE Commanded(@[s], cmds[c])]]

\* The commands with a split, in the order of their owners.
SplitRequests(w, cmds) ==
  LET of(i) == {c \in ToSet(cmds) : c.owner = w.owners[i].owner /\ c.split}
      asked == Kept([i \in DOMAIN w.owners |-> i], {i \in DOMAIN w.owners : of(i) # {}})
  IN  [n \in DOMAIN asked |-> CHOOSE c \in of(asked[n]) : TRUE]

-----------------------------------------------------------------------------
(* advance_simulation: splits.                                             *)

Signum(n) == IF n > 0 THEN 1 ELSE IF n < 0 THEN -1 ELSE 0
LaunchDirection(s) == IF s.move # 0 THEN s.move ELSE IF s.lastMove # 0 THEN s.lastMove ELSE 1

\* The body of the inner loop for one parent.
SplitPiece(w, first, request, parent) ==
  LET o    == FindOwner(w, request.owner)
      i    == FindIndex(w, parent)
      half == w.players[i].mass \div 2
      done == w.tick + 1
      key  == <<request.owner, request.input, w.next - first>> \* ... child_ordinal
      child == Piece(w.next, request.owner, w.players[i].pos, half,
                     LaunchDirection(w.owners[o]) * LaunchSpeed,
                     DeadlineAfter(done, MergeDelay), key)
      shrunk == [w.players[i] EXCEPT !.mass = half, !.radius = RadiusForMass(half),
                                     !.eligible = DeadlineAfter(done, MergeDelay)]
  IN  IF \/ Len(w.owners[o].pieces) >= MaxPieces
         \/ ~HasNextEntity(w)
         \/ w.players[i].mass < MinSplitMass
        THEN w
        ELSE [AppendPiece([w EXCEPT !.players[i] = shrunk,
                                    !.grid = Update(@, parent, Bounds(shrunk))], child)
                EXCEPT !.journal = Append(@, [type |-> "split", owner |-> request.owner,
                                              key |-> key, parent |-> parent, child |-> w.next])]

SplitRequest(w, request) ==
  LET o       == FindOwner(w, request.owner)
      parents == w.owners[o].pieces
      split[n \in 0 .. Len(parents)] ==
        IF n = 0 THEN w ELSE SplitPiece(split[n - 1], w.next, request, parents[n])
      done    == split[Len(parents)]
  IN  IF w.tick + 1 < w.owners[o].cooldown \/ Len(parents) >= MaxPieces
        THEN w
        ELSE IF done.next = w.next
               THEN done
               ELSE [done EXCEPT !.owners[o].cooldown = DeadlineAfter(w.tick + 1, SplitRecast)]

Splits(w, requests, mechanics) ==
  LET after[n \in 0 .. Len(requests)] ==
        IF n = 0 THEN w ELSE SplitRequest(after[n - 1], requests[n])
  IN  IF "split_merge" \in mechanics THEN after[Len(requests)] ELSE w

-----------------------------------------------------------------------------
(* advance_simulation: movement.                                           *)

\* Where the mass centre of the piece's owner lies from the piece.
TowardsCentroid(w, p) ==
  LET mine == {q \in ToSet(w.players) : q.owner = p.owner}
      moment == MapThenSumSet(LAMBDA q : q.pos * q.mass, mine)
      mass   == MapThenSumSet(LAMBDA q : q.mass, mine)
  IN  Signum(moment - p.pos * mass)

\* decayed_launch_velocity
Decayed(v) == IF v \in -LaunchDecay .. LaunchDecay THEN 0 ELSE v - Signum(v) * LaunchDecay

Velocity(move, launch, additional) == move * Speed + launch + additional

MovedPiece(w, mechanics, p) ==
  LET s == w.owners[FindOwner(w, p.owner)]
      coheres == /\ "split_merge" \in mechanics
                 /\ Len(s.pieces) > 1
                 /\ w.tick + 1 >= p.eligible
  IN  [p EXCEPT !.pos = @ + Velocity(s.move, p.launch,
                                     IF coheres THEN TowardsCentroid(w, p) * Cohesion ELSE 0),
                !.launch = Decayed(@)]

\* (The concatenation with the empty sequence has TLC compute the elements once.)
Moved(w, mechanics) ==
  <<>> \o [i \in DOMAIN w.players |-> MovedPiece(w, mechanics, w.players[i])]

-----------------------------------------------------------------------------
(* advance_simulation: absorption, merging, food.  The phases work on the   *)
(* moved pieces, a set of live indices and the tick's events.               *)

\* The grid of the moved pieces.
PieceGrid(ps) ==
  LET after[n \in 0 .. Len(ps)] ==
        IF n = 0 THEN EmptyGrid ELSE Insert(after[n - 1], ps[n].id, Bounds(ps[n]))
  IN  after[Len(ps)]

\* The pairs that meet, larger first.
AbsorptionPairs(ps) ==
  LET grid == PieceGrid(ps)
      meets(i) == LET near == ToSet(Query(grid, Bounds(ps[i])))
                  IN  {j \in DOMAIN ps : /\ j > i /\ ps[j].id \in near
                                         /\ ps[i].owner # ps[j].owner
                                         /\ CirclesOverlap(Bounds(ps[i]), Bounds(ps[j]))
                                         /\ ps[i].mass # ps[j].mass}
      pair(i, j) == IF ps[i].mass > ps[j].mass THEN <<i, j>> ELSE <<j, i>>
  IN  UNION {{pair(i, j) : j \in meets(i)} : i \in DOMAIN ps}

\* They are sorted by the masses before the phase, then by the ids.
PairBefore(ps, x, y) ==
  IF ps[x[1]].mass # ps[y[1]].mass THEN ps[x[1]].mass > ps[y[1]].mass
  ELSE IF x[1] # y[1] THEN ps[x[1]].id < ps[y[1]].id
  ELSE ps[x[2]].id < ps[y[2]].id

AbsorptionCandidates(ps) ==
  LET pairs == AbsorptionPairs(ps)
  IN  [n \in 1 .. Cardinality(pairs) |->
         CHOOSE x \in pairs : Cardinality({y \in pairs : PairBefore(ps, y, x)}) = n - 1]

Grown(p, mass) == [p EXCEPT !.mass = mass, !.radius = RadiusForMass(mass)]

Absorbed(st, a, v) ==
  [st EXCEPT !.live = @ \ {v},
             !.players[a] = Grown(@, @.mass + st.players[v].mass),
             !.events = Append(@, [type |-> "absorbed", victim |-> st.players[v].id,
                                   absorber |-> st.players[a].id, mass |-> st.players[v].mass])]

\* Mutant: a victim that is already gone is absorbed again.
AbsorbAgain(st, pair) ==
  IF pair[1] \notin st.live THEN st ELSE Absorbed(st, pair[1], pair[2])

Absorb(st, pair) ==
  IF pair[1] \notin st.live \/ pair[2] \notin st.live
    THEN st
    ELSE Absorbed(st, pair[1], pair[2])

AbsorbAll(st, candidates) ==
  LET after[n \in 0 .. Len(candidates)] ==
        IF n = 0 THEN st ELSE Absorb(after[n - 1], candidates[n])
  IN  after[Len(candidates)]

Absorptions(st, mechanics) ==
  IF "absorption" \in mechanics THEN AbsorbAll(st, AbsorptionCandidates(st.players)) ELSE st

\* The mergeable pairs, as indices; of these the code takes the one with the
\* smallest ids.
MergePairs(st, done) ==
  {pair \in st.live \X st.live :
     LET p == st.players[pair[1]]  q == st.players[pair[2]]
     IN  /\ p.id < q.id /\ p.owner = q.owner
         /\ done >= p.eligible /\ done >= q.eligible
         /\ CirclesOverlap(Bounds(p), Bounds(q))}

Selected(st, pairs) ==
  CHOOSE x \in pairs : \A y \in pairs :
    \/ st.players[x[1]].id < st.players[y[1]].id
    \/ x[1] = y[1] /\ st.players[x[2]].id <= st.players[y[2]].id

MergedEvent(p, q) == [type |-> "merged", survivor |-> p.id, consumed |-> q.id]

MergeOnce(st, done) ==
  LET pairs == MergePairs(st, done)
      pair  == Selected(st, pairs)
      p == st.players[pair[1]]  q == st.players[pair[2]]
      mass == p.mass + q.mass
      mean(field) == (p[field] * p.mass + q[field] * q.mass) \div mass
  IN  IF pairs = {}
        THEN st
        ELSE [st EXCEPT !.live = @ \ {pair[2]},
                        !.players[pair[1]] =
                          [Grown(p, mass) EXCEPT !.pos = mean("pos"), !.launch = mean("launch"),
                             !.eligible = IF q.eligible > p.eligible THEN q.eligible ELSE @],
                        !.events = Append(@, MergedEvent(p, q))]

\* Every iteration removes a piece, so as many as there are pieces suffice.
Merges(st, mechanics, done) ==
  LET after[n \in 0 .. Len(st.players)] ==
        IF n = 0 THEN st ELSE MergeOnce(after[n - 1], done)
  IN  IF "split_merge" \in mechanics THEN after[Len(st.players)] ELSE st

\* Who eats which food: the contacts are sorted by food and then by player,
\* and the first contact of a food counts.
FoodMeetings(w, st) ==
  LET ps == st.players
      near == [i \in st.live |-> ToSet(Query(w.grid, Bounds(ps[i])))]
      touching(id) == {i \in st.live :
                         /\ id \in near[i]
                         /\ CirclesOverlap(Bounds(ps[i]), FoodBounds(w.food[FindIndex(w, id)]))}
      touched == Ascending({id \in DOMAIN w.locations :
                              Located(w, id, "food") /\ touching(id) # {}})
  IN  [n \in DOMAIN touched |->
         [food   |-> touched[n],
          player |-> CHOOSE i \in touching(touched[n]) :
                       \A j \in touching(touched[n]) : ps[i].id <= ps[j].id]]

Eat(st, meeting) ==
  [st EXCEPT !.eaten = Append(@, meeting.food),
             !.players[meeting.player] = Grown(@, @.mass + FoodMass),
             !.events = Append(@, [type |-> "eaten", food |-> meeting.food,
                                   player |-> st.players[meeting.player].id,
                                   mass |-> FoodMass])]

EatAll(st, meetings) ==
  LET after[n \in 0 .. Len(meetings)] ==
        IF n = 0 THEN st ELSE Eat(after[n - 1], meetings[n])
  IN  after[Len(meetings)]

Meals(w, st, mechanics) ==
  IF "food" \in mechanics THEN EatAll(st, FoodMeetings(w, st)) ELSE st

-----------------------------------------------------------------------------
(* advance.                                                                *)

\* The phases up to the decision whether the tick can be committed.
Resolved(w, mechanics) ==
  LET moved == [players |-> Moved(w, mechanics), live |-> DOMAIN w.players,
                events |-> w.journal, eaten |-> <<>>]
  IN  Meals(w, Merges(Absorptions(moved, mechanics), mechanics, w.tick + 1), mechanics)

\* Live pieces are updated in place, the dead and the eaten removed.
InPlace(w, i, p) ==
  [w EXCEPT !.players[i] = p, !.grid = Update(@, p.id, Bounds(p))]

Updated(w, st) ==
  LET after[n \in 0 .. Len(st.players)] ==
        IF n = 0 THEN w
        ELSE IF n \in st.live THEN InPlace(after[n - 1], n, st.players[n]) ELSE after[n - 1]
  IN  after[Len(st.players)]

Buried(w, dead) ==
  LET after[n \in 0 .. Len(dead)] ==
        IF n = 0 THEN w ELSE RemovedPlayer(after[n - 1], dead[n])
  IN  after[Len(dead)]

Digested(w, eaten) ==
  LET after[n \in 0 .. Len(eaten)] ==
        IF n = 0 THEN w ELSE RemovedFood(after[n - 1], eaten[n])
  IN  after[Len(eaten)]

Committed(w, st) ==
  LET dead == Kept(Column(st.players, "id"),
                   {st.players[i].id : i \in DOMAIN st.players \ st.live})
  IN  [Digested(Buried(Updated(w, st), dead), st.eaten) EXCEPT !.tick = @ + 1,
                                                               !.journal = st.events]

\* The tick is refused, and the world w before it kept, when a piece would
\* leave the grid: after its move, or grown at the end.
Ended(w, split, st, mechanics) ==
  IF \/ \E i \in DOMAIN split.players : ~CanIndex(Bounds(Moved(split, mechanics)[i]))
     \/ \E i \in st.live : ~CanIndex(Bounds(st.players[i]))
    THEN w
    ELSE Committed(split, st)

\* advance: the new world, or the old one when the tick is refused (also for a
\* bad command or at the last tick).
Advanced(w, cmds, mechanics) ==
  LET split == Splits([ApplyCommands(w, cmds) EXCEPT !.journal = <<>>],
                      SplitRequests(w, cmds), mechanics)
  IN  IF ~CommandsValid(w, cmds) \/ w.tick = LastTick
        THEN w
        ELSE Ended(w, split, Resolved(split, mechanics), mechanics)

-----------------------------------------------------------------------------

Init == world = EmptyWorld /\ replica = NoWorld

\* spawn_player as the server uses it: only where the spot is clear.
SpawnPlayer(o, pos) ==
  /\ CanSpawnPlayer(world, pos) /\ SpawnClear(world, pos)
  /\ world' = SpawnedPlayer(world, o, pos)
  /\ replica' = NoWorld

SpawnFood(pos) ==
  /\ CanSpawnFood(world, pos)
  /\ world' = SpawnedFood(world, pos)
  /\ replica' = NoWorld

RemovePlayer(id) ==
  /\ Located(world, id, "player")
  /\ world' = RemovedPlayer(world, id)
  /\ replica' = NoWorld

RemoveFood(id) ==
  /\ Located(world, id, "food")
  /\ world' = RemovedFood(world, id)
  /\ replica' = NoWorld

\* A client hydrates a snapshot of the world and restores its checkpoint.
Restore ==
  LET snapshot == SnapshotOf(Checkpoint(world))
  IN  /\ replica = NoWorld
      /\ SnapshotBuildError(Checkpoint(world)) = "none"
      /\ HydrationError(snapshot) = "none"
      /\ replica' = <<Restored(Hydrated(snapshot))>>
      /\ UNCHANGED world

\* What a caller may ask of the owners the world knows; a new input id is the
\* tick's number, the other one is the first ever used.
Commands(w) ==
  {[type |-> f.type, owner |-> o, move |-> f.move, split |-> f.split,
    input |-> IF f.type # "ApplyInput" THEN NoInput ELSE IF f.new THEN w.tick + 1 ELSE 1] :
     f \in CommandForms, o \in ToSet(Column(w.owners, "owner"))}

Advance(cmds, mechanics) ==
  /\ world' = Advanced(world, cmds, mechanics)
  /\ replica' = [i \in DOMAIN replica |-> Advanced(replica[i], cmds, mechanics)]

Next ==
  \/ /\ world.tick <= EditTick
     /\ \/ \E at \in SpawnPoints : SpawnPlayer(at[1], at[2])
        \/ \E pos \in FoodPoints : SpawnFood(pos)
        \/ \E id \in DOMAIN world.locations : RemovePlayer(id) \/ RemoveFood(id)
  \/ Restore
  \/ \E mechanics \in Mechanics :
       \/ Advance(<<>>, mechanics)
       \/ \E c \in Commands(world) :
            \/ Advance(<<c>>, mechanics)
            \/ \E d \in {x \in Commands(world) : x.owner <= c.owner} : Advance(<<c, d>>, mechanics)

Spec == Init /\ [][Next]_vars

-----------------------------------------------------------------------------
(* Properties.                                                             *)

TotalMass(w) ==
  MapThenSumSet(LAMBDA i : w.players[i].mass, DOMAIN w.players) + FoodMass * Len(w.food)

\* The lookup table, the owners' lists, the derived radii and the grid say
\* the same as the arrays.
Consistent(w) ==
  /\ DOMAIN w.locations = Ids(w.players) \cup Ids(w.food)
  /\ \A i \in DOMAIN w.players :
       /\ w.locations[w.players[i].id] = [kind |-> "player", index |-> i]
       /\ w.players[i].radius = RadiusForMass(w.players[i].mass)
       /\ w.grid.entries[w.players[i].id] = CellRange(Bounds(w.players[i]))
  /\ \A i \in DOMAIN w.food :
       /\ w.locations[w.food[i].id] = [kind |-> "food", index |-> i]
       /\ w.grid.entries[w.food[i].id] = CellRange(FoodBounds(w.food[i]))
  /\ DOMAIN w.grid.entries = DOMAIN w.locations
  /\ GridCoherent(w.grid)
  /\ StrictlySorted(Column(w.owners, "owner"))
  /\ ToSet(Column(w.owners, "owner")) = ToSet(Column(w.players, "owner"))
  /\ \A s \in ToSet(w.owners) :
       /\ StrictlySorted(s.pieces)
       /\ ToSet(s.pieces) = {p.id : p \in {q \in ToSet(w.players) : q.owner = s.owner}}

WorldTypeOK ==
  /\ world.next \in 1 .. LastEntity + 1 /\ world.tick \in 0 .. LastTick
  /\ \A p \in ToSet(world.players) : p.mass > 0 /\ p.eligible \in 0 .. LastTick
  /\ Len(replica) <= 1

\* Whatever sequence of spawns, removals, ticks and restores ran, swap-and-pop
\* removal and the incremental grid leave every index of the store in
\* agreement with the arrays, in the server's world and in a restored one.
StoreConsistent == Consistent(world) /\ \A w \in ToSet(replica) : Consistent(w)

\* Both worlds have their types, deadlines and identifiers at their limits
\* included, and every index agrees with the arrays.
StoreSound == WorldTypeOK /\ StoreConsistent

\* A world restored from a checkpoint and advanced by the same commands stays
\* equal to the world it came from, events and their order included, although
\* its arrays and grid cells are in another order: prediction replays what the
\* server does.
ReplicaFollows ==
  [][replica # NoWorld /\ replica' # NoWorld =>
       /\ Checkpoint(replica'[1]) = Checkpoint(world')
       /\ world'.tick # world.tick => replica'[1].journal = world'.journal]_vars

\* A tick moves mass between pieces and food and neither makes nor loses any,
\* through splits, absorptions, merges and meals in one tick.
MassConserved ==
  [][world'.tick # world.tick => TotalMass(world') = TotalMass(world)]_vars

\* The journal of a tick explains every piece and food that came or went, once
\* each: its children appear, its victims, consumed pieces and eaten food are
\* gone, and nobody is absorbed in the tick in which it absorbed another.
JournalExplainsTick ==
  [][world'.tick # world.tick =>
       LET j == world'.journal
           of(type, field) == Column(SelectSeq(j, LAMBDA e : e.type = type), field)
           gone == of("absorbed", "victim") \o of("merged", "consumed")
       IN  /\ IsInjective(gone) /\ IsInjective(of("eaten", "food"))
           /\ ToSet(of("absorbed", "absorber")) \cap ToSet(of("absorbed", "victim")) = {}
           /\ Ids(world'.players) =
                (Ids(world.players) \cup ToSet(of("split", "child"))) \ ToSet(gone)
           /\ Ids(world'.food) = Ids(world.food) \ ToSet(of("eaten", "food"))]_vars

\* A tick can be accounted for from outside: its journal explains who came and
\* went, and the mass that moved with them is all there.
TickAccounted == MassConserved /\ JournalExplainsTick

\* Checkpoints that differ from a real one in one place.
Variants(cp) ==
  {cp, [cp EXCEPT !.next = 1], [cp EXCEPT !.food = Reverse(@)],
   [cp EXCEPT !.owners = <<>>], [cp EXCEPT !.players = Reverse(@)],
   [cp EXCEPT !.owners = Reverse(@)]}
    \cup {[cp EXCEPT !.owners[i].pieces = Tail(@)] : i \in DOMAIN cp.owners}
    \cup {[cp EXCEPT !.players[i].owner = o] : i \in DOMAIN cp.players, o \in Owners}
    \cup {[cp EXCEPT !.players = SubSeq(@, 1, i)] : i \in DOMAIN cp.players}
    \cup {[cp EXCEPT !.food[i].id = p.id] : i \in DOMAIN cp.food, p \in ToSet(cp.players)}

\* The wire has room for the world's ticks, owners and entities.
WithinWire(w) ==
  /\ TicksFit(Checkpoint(w))
  /\ Len(w.owners) <= WireCount /\ Len(w.players) + Len(w.food) <= WireCount

\* The server builds a snapshot of every world the program reaches unless the
\* wire has no room for it, so that nothing but the width of a field ever stops
\* it (a key given twice, an owner left without a piece or an id reused would),
\* and the client gets the checkpoint back from every snapshot that is built;
\* what restore accepts among damaged checkpoints is still a consistent world.
RestoreSound ==
  /\ SnapshotBuildError(Checkpoint(world)) = "none" <=> WithinWire(world)
  /\ WithinWire(world) => HydrationError(SnapshotOf(Checkpoint(world))) = "none"
  /\ \A cp \in Variants(Checkpoint(world)) :
       RestoreError(cp) = "none" => Consistent(Restored(cp))
=============================================================================
