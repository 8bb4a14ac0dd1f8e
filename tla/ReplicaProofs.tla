---------------------------- MODULE ReplicaProofs ----------------------------
(* Proofs that prediction may replay the server: a world restored from a      *)
(* snapshot computes what the server computes, although its arrays and its    *)
(* grid cells are in another order.  Each operation is followed on two worlds *)
(* of the same entities; where an order matters the code sorts, and what it   *)
(* sorts by never ties.                                                       *)
EXTENDS WorldProofs

-----------------------------------------------------------------------------
(* Two worlds of the same entities, in arrays and cells of other orders.    *)

\* A world and another one agree in all that a checkpoint keeps.
SameWorld(w, v) ==
  /\ ToSet(v.players) = ToSet(w.players) /\ ToSet(v.food) = ToSet(w.food)
  /\ v.owners = w.owners /\ v.next = w.next /\ v.tick = w.tick

\* ... and in the events of the tick that is running.
SameTick(w, v) == SameWorld(w, v) /\ v.journal = w.journal

\* Their checkpoints are equal.
LEMMA SameCheckpoint ==
  ASSUME NEW w, Sound(w), NEW v, Sound(v), SameWorld(w, v)
  PROVE  Checkpoint(v) = Checkpoint(w)
<1> DEFINE cp == Checkpoint(w)  dp == Checkpoint(v)
<1>1. /\ CheckpointOf(w, cp) /\ CheckpointTyped(cp)
      /\ CheckpointOf(v, dp) /\ CheckpointTyped(dp)
  BY CheckpointFacts, CheckpointType
<1>2. /\ cp = [tick |-> cp.tick, next |-> cp.next, owners |-> cp.owners,
               players |-> cp.players, food |-> cp.food]
      /\ dp = [tick |-> dp.tick, next |-> dp.next, owners |-> dp.owners,
               players |-> dp.players, food |-> dp.food]
  BY DEF Checkpoint
<1> HIDE DEF cp, dp
<1>3. cp.tick = dp.tick /\ cp.next = dp.next /\ cp.owners = dp.owners
  BY <1>1 DEF CheckpointOf, SameWorld
<1>4. cp.players = dp.players
  <2>1. \A e : e \in ToSet(cp.players) <=> e \in ToSet(dp.players)
    BY <1>1 DEF CheckpointOf, SameWorld
  <2>2. ToSet(cp.players) = ToSet(dp.players)
    BY <2>1
  <2>3. \A e \in PlayerStates : e["id"] \in Int
    BY DEF PlayerStates, Positive
  <2>4. cp.players \in Seq(PlayerStates) /\ dp.players \in Seq(PlayerStates)
    BY <1>1 DEF CheckpointTyped
  <2>5. SortedById(cp.players) /\ SortedById(dp.players)
    BY <1>1 DEF CheckpointOf
  <2> QED BY <2>2, <2>3, <2>4, <2>5, SortedUnique
<1>5. cp.food = dp.food
  <2>2. ToSet(cp.food) = ToSet(dp.food)
    BY <1>1 DEF CheckpointOf, SameWorld
  <2>3. \A e \in Foods : e["id"] \in Int
    BY DEF Foods, Positive
  <2>4. cp.food \in Seq(Foods) /\ dp.food \in Seq(Foods)
    BY <1>1 DEF CheckpointTyped
  <2>5. SortedById(cp.food) /\ SortedById(dp.food)
    BY <1>1 DEF CheckpointOf
  <2> QED BY <2>2, <2>3, <2>4, <2>5, SortedUnique
<1>6. cp = dp
  BY ONLY <1>2, <1>3, <1>4, <1>5
<1> QED BY <1>6 DEF cp, dp

\* They find the same owners, pieces and food.
LEMMA SameFound ==
  ASSUME NEW w, NEW v, v.owners = w.owners, NEW o
  PROVE  FindOwner(v, o) = FindOwner(w, o) /\ LowerBound(v, o) = LowerBound(w, o)
BY DEF FindOwner, LowerBound

\* A piece has the same record in both.
LEMMA SamePiece ==
  ASSUME NEW w, Stored(w), NEW v, Stored(v), ToSet(v.players) = ToSet(w.players),
         NEW id \in IdsOf(ToSet(w.players))
  PROVE  v.players[FindIndex(v, id)] = w.players[FindIndex(w, id)]
<1>1. Located(w, id, "player") /\ Located(v, id, "player")
  BY LocatedIs
<1>2. /\ w.players[FindIndex(w, id)] \in ToSet(w.players)
      /\ v.players[FindIndex(v, id)] \in ToSet(w.players)
      /\ w.players[FindIndex(w, id)].id = id /\ v.players[FindIndex(v, id)].id = id
  BY <1>1, LocatedIs
<1>3. \A x, y \in ToSet(w.players) : x.id = y.id => x = y
  BY ArraysApart DEF Stored
<1> QED BY <1>2, <1>3

\* So has a food.
LEMMA SameFood ==
  ASSUME NEW w, Stored(w), NEW v, Stored(v), ToSet(v.food) = ToSet(w.food),
         NEW id \in IdsOf(ToSet(w.food))
  PROVE  v.food[FindIndex(v, id)] = w.food[FindIndex(w, id)]
<1>1. Located(w, id, "food") /\ Located(v, id, "food")
  BY LocatedIs
<1>2. /\ FindIndex(w, id) \in DOMAIN w.food /\ FindIndex(v, id) \in DOMAIN v.food
      /\ w.food[FindIndex(w, id)].id = id /\ v.food[FindIndex(v, id)].id = id
  BY <1>1, LocatedIs
<1>4. /\ w.food[FindIndex(w, id)] \in ToSet(w.food)
      /\ v.food[FindIndex(v, id)] \in ToSet(w.food)
  BY <1>2 DEF ToSet
<1>3. \A x, y \in ToSet(w.food) : x.id = y.id => x = y
  <2>1. Arrays(w.food, "food", w.players, "player", w.locations)
    BY ArraysSwap DEF Stored
  <2> QED BY <2>1, ArraysApart
<1> QED BY <1>2, <1>3, <1>4

-----------------------------------------------------------------------------
(* Commands and splits.                                                    *)

\* apply_commands looks at the owners only.
LEMMA SameCommands ==
  ASSUME NEW w, Sound(w), NEW v, Sound(v), SameWorld(w, v), NEW cmds
  PROVE  /\ SameTick([ApplyCommands(w, cmds) EXCEPT !.journal = <<>>],
                     [ApplyCommands(v, cmds) EXCEPT !.journal = <<>>])
         /\ SplitRequests(v, cmds) = SplitRequests(w, cmds)
         /\ CommandsValid(v, cmds) <=> CommandsValid(w, cmds)
<1> DEFINE commanded(owners) ==
      <<>> \o [s \in DOMAIN owners |->
        LET c == SelectInSeq(cmds, LAMBDA x : x.owner = owners[s].owner)
        IN  IF c = 0 THEN owners[s] ELSE Commanded(owners[s], cmds[c])]
<1>1. v.owners = w.owners
  BY DEF SameWorld
<1>2. ApplyCommands(w, cmds) = [w EXCEPT !.owners = commanded(w.owners)]
  BY DEF ApplyCommands
<1>3. ApplyCommands(v, cmds) = [v EXCEPT !.owners = commanded(v.owners)]
  BY DEF ApplyCommands
<1>4. commanded(v.owners) = commanded(w.owners)
  BY <1>1
<1> HIDE DEF commanded
<1>5. DOMAIN w = WorldFields /\ DOMAIN v = WorldFields
  BY DEF Sound, Stored
<1>6. SameTick([ApplyCommands(w, cmds) EXCEPT !.journal = <<>>],
               [ApplyCommands(v, cmds) EXCEPT !.journal = <<>>])
  BY <1>2, <1>3, <1>4, <1>5 DEF SameTick, SameWorld, WorldFields
<1>7. SplitRequests(v, cmds) = SplitRequests(w, cmds)
  BY <1>1 DEF SplitRequests
<1>8. CommandsValid(v, cmds) <=> CommandsValid(w, cmds)
  BY <1>1, SameFound DEF CommandsValid
<1> QED BY <1>6, <1>7, <1>8

\* One element of a list without repetition is replaced.
LEMMA ReplacedSet ==
  ASSUME NEW T, NEW s \in Seq(T), NEW i \in DOMAIN s, \A j \in DOMAIN s : s[j] = s[i] => j = i,
         NEW x, NEW t, t = [s EXCEPT ![i] = x]
  PROVE  ToSet(t) = (ToSet(s) \ {s[i]}) \cup {x}
<1>1. DOMAIN t = DOMAIN s /\ t[i] = x /\ \A j \in DOMAIN s : j # i => t[j] = s[j]
  OBVIOUS
<1>2. \A y : y \in ToSet(t) <=> y \in (ToSet(s) \ {s[i]}) \cup {x}
  <2>1. ASSUME NEW y \in ToSet(t) PROVE y \in (ToSet(s) \ {s[i]}) \cup {x}
    BY <1>1 DEF ToSet
  <2>2. ASSUME NEW y, y \in (ToSet(s) \ {s[i]}) \cup {x} PROVE y \in ToSet(t)
    <3>1. CASE y = x
      BY <1>1, <3>1 DEF ToSet
    <3>2. CASE y \in ToSet(s) /\ y # s[i]
      <4>1. PICK j \in DOMAIN s : y = s[j]
        BY <3>2 DEF ToSet
      <4> QED BY <1>1, <3>2, <4>1 DEF ToSet
    <3> QED BY <2>2, <3>1, <3>2
  <2> QED BY <2>1, <2>2
<1> QED BY <1>2

\* What the split of a piece p makes of it, and its child.
Shrunk(w, p) ==
  [p EXCEPT !.mass = p.mass \div 2, !.radius = RadiusForMass(p.mass \div 2),
            !.eligible = DeadlineAfter(w.tick + 1, MergeDelay)]

\* The child it launches.
Child(w, first, request, p) ==
  Piece(w.next, request.owner, p.pos, p.mass \div 2,
        LaunchDirection(w.owners[FindOwner(w, request.owner)]) * LaunchSpeed,
        DeadlineAfter(w.tick + 1, MergeDelay), ChildKey(w, first, request))

\* The conditions of the split.
MaySplit(w, request, p) ==
  /\ ~(Len(w.owners[FindOwner(w, request.owner)].pieces) >= MaxPieces)
  /\ HasNextEntity(w) /\ ~(p.mass < MinSplitMass)

\* The split as the entities see it, whatever the arrays.
SplitIs(w, first, request, p, v) ==
  IF ~MaySplit(w, request, p) THEN v = w
  ELSE /\ ToSet(v.players) = (ToSet(w.players) \ {p})
                               \cup {Shrunk(w, p), Child(w, first, request, p)}
       /\ v.food = w.food /\ v.next = w.next + 1 /\ v.tick = w.tick
       /\ v.owners = [w.owners EXCEPT ![FindOwner(w, request.owner)].pieces = Append(@, w.next)]
       /\ v.journal = Append(w.journal,
            [type |-> "split", owner |-> request.owner, key |-> ChildKey(w, first, request),
             parent |-> p.id, child |-> w.next])

\* The loop body does that or nothing.
LEMMA SplitPieceIs ==
  ASSUME NEW w, Sound(w), NEW first, NEW request, NEW parent \in IdsOf(ToSet(w.players))
  PROVE  SplitIs(w, first, request, w.players[FindIndex(w, parent)],
                 SplitPiece(w, first, request, parent))
<1> DEFINE o == FindOwner(w, request.owner)
           i == FindIndex(w, parent)
           p == w.players[i]
           shrunk == Shrunk(w, p)
           child == Child(w, first, request, p)
           grid == Update(w.grid, parent, Bounds(shrunk))
           mid == [w EXCEPT !.players[i] = shrunk, !.grid = grid]
           grown == AppendPiece(mid, child)
           event == [type |-> "split", owner |-> request.owner,
                     key |-> ChildKey(w, first, request), parent |-> parent, child |-> w.next]
           v == SplitPiece(w, first, request, parent)
<1>1. v = IF ~MaySplit(w, request, p) THEN w ELSE [grown EXCEPT !.journal = Append(@, event)]
  BY DEF SplitPiece, MaySplit, Shrunk, Child, ChildKey
<1>2. /\ i \in DOMAIN w.players /\ p.id = parent
      /\ w.players \in Seq(Pieces) /\ DOMAIN w = WorldFields
      /\ \A j \in DOMAIN w.players : w.players[j].id = p.id => j = i
  <2>1. Stored(w)
    BY DEF Sound
  <2>2. i \in DOMAIN w.players /\ p.id = parent
    BY <2>1, LocatedIs
  <2>3. \A j, k \in DOMAIN w.players : w.players[j].id = w.players[k].id => j = k
    BY <2>1, ArraysApart DEF Stored
  <2> QED BY <2>1, <2>2, <2>3 DEF Stored
<1>3. child.id = w.next /\ child.owner = request.owner
  BY DEF Child, Piece
<1> HIDE DEF shrunk, child, grid, event, v
<1>4. /\ DOMAIN mid = WorldFields
      /\ mid.players = [w.players EXCEPT ![i] = shrunk] /\ mid.owners = w.owners
      /\ mid.food = w.food /\ mid.next = w.next /\ mid.tick = w.tick /\ mid.journal = w.journal
  BY <1>2 DEF WorldFields
<1> HIDE DEF mid
<1>5. FindOwner(mid, child.owner) = o
  BY <1>3, <1>4, SameFound
<1>6. /\ DOMAIN grown = WorldFields
      /\ grown.players = Append(mid.players, child) /\ grown.food = w.food
      /\ grown.next = w.next + 1 /\ grown.tick = w.tick /\ grown.journal = w.journal
      /\ grown.owners = [w.owners EXCEPT ![o].pieces = Append(@, w.next)]
  <2> DEFINE u == WithPlayer(mid, child)
  <2>1. /\ DOMAIN u = WorldFields
        /\ u.players = Append(mid.players, child) /\ u.food = mid.food
        /\ u.next = mid.next /\ u.tick = mid.tick /\ u.journal = mid.journal
        /\ u.owners = mid.owners
    BY <1>4 DEF WithPlayer, WorldFields
  <2> HIDE DEF u
  <2>2. grown = [u EXCEPT !.owners[o].pieces = Append(@, child.id), !.next = @ + 1]
    BY <1>5 DEF AppendPiece, u
  <2>3. /\ DOMAIN grown = WorldFields
        /\ grown.players = u.players /\ grown.food = u.food /\ grown.next = u.next + 1
        /\ grown.tick = u.tick /\ grown.journal = u.journal
        /\ grown.owners = [u.owners EXCEPT ![o].pieces = Append(@, child.id)]
    BY <2>1, <2>2 DEF WorldFields
  <2> QED BY <1>3, <1>4, <2>1, <2>3
<1> HIDE DEF grown
<1>7. ASSUME MaySplit(w, request, p)
      PROVE  /\ v.players = Append([w.players EXCEPT ![i] = shrunk], child)
             /\ v.food = w.food /\ v.next = w.next + 1 /\ v.tick = w.tick
             /\ v.owners = [w.owners EXCEPT ![o].pieces = Append(@, w.next)]
             /\ v.journal = Append(w.journal, event)
  <2>1. v = [grown EXCEPT !.journal = Append(@, event)]
    BY <1>1, <1>7
  <2> QED BY <2>1, <1>4, <1>6 DEF WorldFields
<1>8. ASSUME MaySplit(w, request, p)
      PROVE  ToSet(v.players) = (ToSet(w.players) \ {p}) \cup {shrunk, child}
  <2> DEFINE t == [w.players EXCEPT ![i] = shrunk]
             T == Pieces \cup {shrunk, child}
  <2>1. w.players \in Seq(T)
    BY <1>2
  <2>2. t \in Seq(T)
    <3>1. shrunk \in T
      OBVIOUS
    <3> HIDE DEF T
    <3> QED BY <1>2, <2>1, <3>1, ReplaceFacts
  <2>3. ToSet(Append(t, child)) = ToSet(t) \cup {child}
    <3> HIDE DEF t
    <3>1. child \in T
      OBVIOUS
    <3> HIDE DEF T
    <3> QED BY <2>2, <3>1, AppendFacts
  <2>4. ToSet(t) = (ToSet(w.players) \ {p}) \cup {shrunk}
    <3> HIDE DEF T
    <3>1. \A j \in DOMAIN w.players : w.players[j] = w.players[i] => j = i
      BY <1>2
    <3> QED BY <1>2, <2>1, <3>1, ReplacedSet
  <2> QED BY <1>7, <1>8, <2>3, <2>4
<1> HIDE DEF o, p, i
<1>9. SplitIs(w, first, request, p, v)
  BY <1>1, <1>2, <1>7, <1>8 DEF SplitIs, o, shrunk, child, event, p, i
<1> QED BY <1>9 DEF p, i, v

\* One parent splits alike.
LEMMA SamePieceSplit ==
  ASSUME NEW w, Sound(w), NEW v, Sound(v), SameTick(w, v), NEW first, NEW request,
         NEW parent \in IdsOf(ToSet(w.players))
  PROVE  SameTick(SplitPiece(w, first, request, parent), SplitPiece(v, first, request, parent))
<1> DEFINE p == w.players[FindIndex(w, parent)]
           x == SplitPiece(w, first, request, parent)
           y == SplitPiece(v, first, request, parent)
<1>1. /\ ToSet(v.players) = ToSet(w.players) /\ ToSet(v.food) = ToSet(w.food)
      /\ v.owners = w.owners /\ v.next = w.next /\ v.tick = w.tick /\ v.journal = w.journal
  BY DEF SameTick, SameWorld
<1>2. v.players[FindIndex(v, parent)] = p
  BY <1>1, SamePiece DEF Sound
<1>3. SplitIs(w, first, request, p, x)
  BY SplitPieceIs
<1>4. SplitIs(v, first, request, p, y)
  BY <1>1, <1>2, SplitPieceIs
<1> HIDE DEF p, x, y
<1>5. FindOwner(v, request.owner) = FindOwner(w, request.owner)
  BY <1>1, SameFound
<1>6. /\ MaySplit(v, request, p) <=> MaySplit(w, request, p)
      /\ Shrunk(v, p) = Shrunk(w, p)
      /\ Child(v, first, request, p) = Child(w, first, request, p)
      /\ ChildKey(v, first, request) = ChildKey(w, first, request)
  BY <1>1, <1>5 DEF MaySplit, Shrunk, Child, ChildKey, HasNextEntity
<1>7. CASE ~MaySplit(w, request, p)
  BY <1>1, <1>3, <1>4, <1>6, <1>7 DEF SplitIs, SameTick, SameWorld, x, y
<1>8. CASE MaySplit(w, request, p)
  <2>1. /\ ToSet(y.players) = ToSet(x.players) /\ y.food = v.food /\ x.food = w.food
        /\ y.next = x.next /\ y.tick = x.tick
    BY <1>1, <1>3, <1>4, <1>6, <1>8 DEF SplitIs
  <2>2. y.owners = x.owners /\ y.journal = x.journal
    BY <1>1, <1>3, <1>4, <1>5, <1>6, <1>8 DEF SplitIs
  <2> QED BY <1>1, <2>1, <2>2 DEF SameTick, SameWorld, x, y
<1> QED BY <1>7, <1>8

\* The next parent of a request splits.
LEMMA SplitProceeds ==
  ASSUME NEW w, Sound(w), NEW request, IsCommand(request),
         \E k \in DOMAIN w.owners : w.owners[k].owner = request.owner,
         NEW parents, parents = w.owners[FindOwner(w, request.owner)].pieces,
         NEW u, SplitStep(w, u), NEW n \in 1 .. Len(parents)
  PROVE  /\ parents[n] \in IdsOf(ToSet(u.players))
         /\ SplitStep(w, SplitPiece(u, w.next, request, parents[n]))
<1> DEFINE o == FindOwner(w, request.owner)
<1>1. /\ Stored(w) /\ Numbered(w) /\ OwnersSound(ToSet(w.players), w.owners, {})
      /\ w.owners \in Seq(OwnerStates) /\ w.next \in 1 .. LastEntity + 1
  BY DEF Sound, Numbered
<1>2. o \in DOMAIN w.owners /\ w.owners[o].owner = request.owner
  <2>1. request.owner \in Int
    BY DEF IsCommand, Positive
  <2>2. SearchFinds(w, request.owner)
    BY <1>1, <2>1, FindOwnerFacts DEF OwnersSound
  <2> QED BY <2>2 DEF SearchFinds
<1>3. parents[n] \in IdsOf(ToSet(w.players))
  <2>1. parents \in Seq(Positive)
    <3>1. w.owners[o] \in OwnerStates
      BY <1>1, <1>2, ElementsIn
    <3> QED BY <3>1 DEF OwnerStates
  <2>2. ToSet(parents) = Listed(ToSet(w.players), w.owners[o].owner)
    BY <1>1, <1>2 DEF OwnersSound
  <2>3. ToSet(parents) \subseteq IdsOf(ToSet(w.players))
    BY <2>2 DEF Listed, IdsOf
  <2> QED BY <2>1, <2>3, ElementsIn
<1>4. w.next \in Int
  BY <1>1, ConstantTypes
<1>5. parents[n] \in IdsOf(ToSet(u.players))
  BY <1>3 DEF SplitStep
<1>6. Sound(u) /\ \E k \in DOMAIN u.owners : u.owners[k].owner = request.owner
  BY DEF SplitStep, SameInputs, SameOwners
<1>7. SplitStep(u, SplitPiece(u, w.next, request, parents[n]))
  BY <1>4, <1>5, <1>6, SplitPieceSound
<1> QED BY <1>5, <1>7, SplitStepTrans

\* The steps of a request.
LEMMA RequestEquation ==
  ASSUME NEW w, Sound(w), NEW request, IsCommand(request),
         \E k \in DOMAIN w.owners : w.owners[k].owner = request.owner,
         NEW parents, parents = w.owners[FindOwner(w, request.owner)].pieces
  PROVE  Len(parents) \in Nat /\ \E f : RequestSteps(w, request, parents, f)
<1>1. SearchFinds(w, request.owner) /\ w.owners \in Seq(OwnerStates)
  <2>1. request.owner \in Int
    BY DEF IsCommand, Positive
  <2> QED BY <2>1, FindOwnerFacts DEF OwnersSound, Sound, Numbered
<1>2. w.owners[FindOwner(w, request.owner)] \in OwnerStates
  BY <1>1, ElementsIn DEF SearchFinds
<1>3. Len(parents) \in Nat
  BY <1>2, ElementsIn DEF OwnerStates
<1>4. \E f : RequestSteps(w, request, parents, f)
  BY ONLY <1>3, parents = w.owners[FindOwner(w, request.owner)].pieces, SplitEquation
<1> QED BY <1>3, <1>4

\* One owner's request is done alike.
LEMMA SameRequest ==
  ASSUME NEW w, Sound(w), NEW v, Sound(v), SameTick(w, v), NEW request, IsCommand(request),
         \E k \in DOMAIN w.owners : w.owners[k].owner = request.owner
  PROVE  SameTick(SplitRequest(w, request), SplitRequest(v, request))
<1> DEFINE o == FindOwner(w, request.owner)
           parents == w.owners[o].pieces
           size == Len(parents)
<1>1. /\ v.owners = w.owners /\ v.next = w.next /\ v.tick = w.tick
      /\ FindOwner(v, request.owner) = o
  BY SameFound DEF SameTick, SameWorld
<1>2. /\ \E k \in DOMAIN v.owners : v.owners[k].owner = request.owner
      /\ parents = v.owners[FindOwner(v, request.owner)].pieces
  BY <1>1
<1>3. size \in Nat /\ \E f : RequestSteps(w, request, parents, f)
  <2> HIDE DEF parents
  <2>1. parents = w.owners[FindOwner(w, request.owner)].pieces
    BY DEF parents
  <2> QED BY <2>1, RequestEquation
<1>4. \E g : RequestSteps(v, request, parents, g)
  <2> HIDE DEF parents
  <2> QED BY <1>2, RequestEquation
<1>5. PICK f : RequestSteps(w, request, parents, f)
  BY <1>3
<1>6. PICK g : RequestSteps(v, request, parents, g)
  BY <1>4
<1>7. parents = w.owners[FindOwner(w, request.owner)].pieces
  OBVIOUS
<1> HIDE DEF parents, o
<1> DEFINE Both(n) == SplitStep(w, f[n]) /\ SplitStep(v, g[n]) /\ SameTick(f[n], g[n])
           I == {n \in Nat : n <= size => Both(n)}
<1>8. 0 \in I
  <2>1. SplitStep(w, w) /\ SplitStep(v, v)
    BY DEF SplitStep, SameInputs, SameOwners
  <2> QED BY <2>1, <1>5, <1>6 DEF RequestSteps
<1>9. ASSUME NEW n \in Nat, n \in I PROVE n + 1 \in I
  <2> SUFFICES ASSUME n + 1 <= size PROVE Both(n + 1)
    OBVIOUS
  <2>1. Both(n) /\ n + 1 \in 1 .. size
    BY <1>3, <1>9
  <2>2. /\ f[n + 1] = SplitPiece(f[n], w.next, request, parents[n + 1])
        /\ g[n + 1] = SplitPiece(g[n], v.next, request, parents[n + 1])
    BY <1>5, <1>6 DEF RequestSteps
  <2> DEFINE x == f[n]  y == g[n]  m == n + 1
  <2>3. SplitStep(w, x) /\ SplitStep(v, y) /\ SameTick(x, y) /\ m \in 1 .. Len(parents)
    BY <2>1
  <2> HIDE DEF x, y, m, Both
  <2>4. /\ parents[m] \in IdsOf(ToSet(x.players))
        /\ SplitStep(w, SplitPiece(x, w.next, request, parents[m]))
    BY <2>3, <1>7, SplitProceeds
  <2>5. SplitStep(v, SplitPiece(y, v.next, request, parents[m]))
    BY <2>3, <1>2, SplitProceeds
  <2>6. Sound(x) /\ Sound(y)
    BY <2>3 DEF SplitStep
  <2>7. SameTick(SplitPiece(x, w.next, request, parents[m]),
                 SplitPiece(y, w.next, request, parents[m]))
    BY <2>3, <2>4, <2>6, SamePieceSplit
  <2> QED BY <2>2, <2>4, <2>5, <2>7, <1>1 DEF x, y, m, Both
<1>10. Both(size)
  <2>1. size \in I
    <3> HIDE DEF I
    <3>1. \A n \in Nat : n \in I
      BY <1>8, <1>9, SetInduction
    <3> HIDE DEF size
    <3> QED BY <1>3, <3>1
  <2> QED BY <1>3, <2>1
<1> DEFINE x == f[size]  y == g[size]
<1>11. SplitStep(w, x) /\ SplitStep(v, y) /\ SameTick(x, y)
  BY <1>10
<1> DEFINE refused == w.tick + 1 < w.owners[o].cooldown \/ size >= MaxPieces
           until == DeadlineAfter(w.tick + 1, SplitRecast)
<1>12. /\ SplitRequest(w, request) =
            IF refused THEN w ELSE IF x.next = w.next THEN x
            ELSE [x EXCEPT !.owners[o].cooldown = until]
       /\ SplitRequest(v, request) =
            IF refused THEN v ELSE IF y.next = v.next THEN y
            ELSE [y EXCEPT !.owners[o].cooldown = until]
  BY <1>1, <1>5, <1>6 DEF RequestSteps, o
<1> HIDE DEF refused, until, x, y
<1>13. SameTick([x EXCEPT !.owners[o].cooldown = until], [y EXCEPT !.owners[o].cooldown = until])
  <2>1. DOMAIN x = WorldFields /\ DOMAIN y = WorldFields
    BY <1>11 DEF SplitStep, Sound, Stored
  <2> QED BY <1>11, <2>1 DEF SameTick, SameWorld, WorldFields
<1>14. x.next = y.next
  BY <1>11 DEF SameTick, SameWorld
<1> QED BY <1>1, <1>11, <1>12, <1>13, <1>14

\* All requests are done alike.
LEMMA SameSplits ==
  ASSUME NEW w, Sound(w), NEW v, Sound(v), SameTick(w, v), NEW requests, Len(requests) \in Nat,
         DOMAIN requests = 1 .. Len(requests), NEW mechanics,
         \A n \in DOMAIN requests :
           /\ IsCommand(requests[n])
           /\ \E k \in DOMAIN w.owners : w.owners[k].owner = requests[n].owner
  PROVE  SameTick(Splits(w, requests, mechanics), Splits(v, requests, mechanics))
<1>1. PICK f : SplitsSteps(w, requests, mechanics, f)
  BY SplitsEquation
<1>2. PICK g : SplitsSteps(v, requests, mechanics, g)
  BY SplitsEquation
<1> DEFINE Both(n) == SplitStep(w, f[n]) /\ SplitStep(v, g[n]) /\ SameTick(f[n], g[n])
           I == {n \in Nat : n <= Len(requests) => Both(n)}
<1>3. 0 \in I
  <2>1. SplitStep(w, w) /\ SplitStep(v, v)
    BY DEF SplitStep, SameInputs, SameOwners
  <2> QED BY <2>1, <1>1, <1>2 DEF SplitsSteps
<1>4. ASSUME NEW n \in Nat, n \in I PROVE n + 1 \in I
  <2> SUFFICES ASSUME n + 1 <= Len(requests) PROVE Both(n + 1)
    OBVIOUS
  <2> DEFINE x == f[n]  y == g[n]  request == requests[n + 1]
  <2>1. SplitStep(w, x) /\ SplitStep(v, y) /\ SameTick(x, y) /\ n + 1 \in DOMAIN requests
    BY <1>4
  <2>2. f[n + 1] = SplitRequest(x, request) /\ g[n + 1] = SplitRequest(y, request)
    BY <1>1, <1>2 DEF SplitsSteps
  <2>3. IsCommand(request) /\ \E k \in DOMAIN w.owners : w.owners[k].owner = request.owner
    BY <2>1
  <2> HIDE DEF x, y, request, Both
  <2>4. Sound(x) /\ \E k \in DOMAIN x.owners : x.owners[k].owner = request.owner
    BY <2>1, <2>3 DEF SplitStep, SameInputs, SameOwners
  <2>5. Sound(y) /\ y.owners = x.owners
    BY <2>1 DEF SplitStep, SameTick, SameWorld
  <2>6. SplitStep(x, SplitRequest(x, request)) /\ SplitStep(y, SplitRequest(y, request))
    BY <2>3, <2>4, <2>5, SplitRequestSound
  <2>7. SameTick(SplitRequest(x, request), SplitRequest(y, request))
    BY <2>1, <2>3, <2>4, <2>5, SameRequest
  <2>8. SplitStep(w, f[n + 1]) /\ SplitStep(v, g[n + 1])
    BY <2>1, <2>2, <2>6, SplitStepTrans
  <2> QED BY <2>2, <2>7, <2>8 DEF Both
<1>5. Both(Len(requests))
  <2>1. Len(requests) \in I
    <3> HIDE DEF I
    <3> QED BY <1>3, <1>4, SetInduction
  <2> QED BY <2>1
<1> QED BY <1>1, <1>2, <1>5 DEF SplitsSteps

-----------------------------------------------------------------------------
(* The phases of a tick work alike on two arrays of the same pieces.       *)

\* What the phases work on: pieces that ids tell apart, some of them live.
Working(st) ==
  /\ DOMAIN st = {"players", "live", "events", "eaten"}
  /\ st.players \in Seq(Pieces) /\ st.live \subseteq DOMAIN st.players
  /\ \A i, j \in DOMAIN st.players : st.players[i].id = st.players[j].id => i = j

\* The live pieces.
Live(st) == {st.players[i] : i \in st.live}

\* The same pieces are live, the same happened.
SameState(s, t) == Live(t) = Live(s) /\ t.events = s.events /\ t.eaten = s.eaten

\* The phases work on such states.
LEMMA PhaseWorks ==
  ASSUME NEW w, Stored(w), NEW st, NEW eaten, Phase(w, st, eaten)
  PROVE  Working(st)
<1>1. \A i, j \in DOMAIN w.players : w.players[i].id = w.players[j].id => i = j
  BY ArraysApart DEF Stored
<1> QED BY <1>1 DEF Phase, Replaces, Working

\* The same piece lives in both arrays or in none.
LEMMA SameLive ==
  ASSUME NEW s, Working(s), NEW t, Working(t), Live(t) = Live(s),
         NEW i \in DOMAIN s.players, NEW a \in DOMAIN t.players,
         s.players[i].id = t.players[a].id
  PROVE  /\ i \in s.live <=> a \in t.live
         /\ i \in s.live => t.players[a] = s.players[i]
<1>1. ASSUME i \in s.live PROVE a \in t.live /\ t.players[a] = s.players[i]
  <2>1. s.players[i] \in Live(t)
    BY <1>1 DEF Live
  <2>2. PICK b \in t.live : s.players[i] = t.players[b]
    BY <2>1 DEF Live
  <2>3. b = a
    BY <2>2 DEF Working
  <2> QED BY <2>2, <2>3
<1>2. ASSUME a \in t.live PROVE i \in s.live
  <2>1. t.players[a] \in Live(s)
    BY <1>2 DEF Live
  <2>2. PICK j \in s.live : t.players[a] = s.players[j]
    BY <2>1 DEF Live
  <2>3. i = j
    BY <2>2 DEF Working
  <2> QED BY <2>2, <2>3
<1> QED BY <1>1, <1>2

\* The pieces at some places.
At(st, D) == {st.players[j] : j \in D}

\* One piece is replaced, others end.
LEMMA LiveReplaced ==
  ASSUME NEW st, Working(st), NEW i \in st.live, NEW D, i \notin D, D \subseteq st.live, NEW q,
         NEW v, v.players = [st.players EXCEPT ![i] = q], v.live = st.live \ D
  PROVE  Live(v) = (Live(st) \ ({st.players[i]} \cup At(st, D))) \cup {q}
<1> DEFINE R == (Live(st) \ ({st.players[i]} \cup At(st, D))) \cup {q}
<1>1. /\ i \in DOMAIN st.players /\ v.players[i] = q
      /\ \A j \in st.live : j # i => v.players[j] = st.players[j]
      /\ \A j, k \in st.live : st.players[j] = st.players[k] => j = k
  BY DEF Working
<1>2. ASSUME NEW x \in Live(v) PROVE x \in R
  <2>1. PICK j \in v.live : x = v.players[j]
    BY DEF Live
  <2>2. CASE j = i
    BY <1>1, <2>1, <2>2
  <2>3. CASE j # i
    <3>1. x = st.players[j] /\ j \in st.live /\ j \notin D
      BY <1>1, <2>1, <2>3
    <3>2. x \in Live(st) /\ x # st.players[i] /\ \A k \in D : x # st.players[k]
      BY <1>1, <2>3, <3>1 DEF Live
    <3> QED BY <3>2 DEF At
  <2> QED BY <2>2, <2>3
<1>3. ASSUME NEW x \in R PROVE x \in Live(v)
  <2>1. CASE x = q
    BY <1>1, <2>1 DEF Live
  <2>2. CASE x \in Live(st) /\ x # st.players[i] /\ x \notin At(st, D)
    <3>1. PICK j \in st.live : x = st.players[j]
      BY <2>2 DEF Live
    <3>2. j # i /\ j \notin D
      BY <2>2, <3>1 DEF At
    <3> QED BY <1>1, <3>1, <3>2 DEF Live
  <2> QED BY <2>1, <2>2
<1> QED BY <1>2, <1>3

\* What a phase does to one piece, which others may end in.
Effect(st, v, p, ended, q, events, eaten) ==
  /\ Live(v) = (Live(st) \ ({p} \cup ended)) \cup {q}
  /\ v.events = events /\ v.eaten = eaten

\* An absorption, as the live pieces see it.
AbsorbedEvent(p, q) ==
  [type |-> "absorbed", victim |-> q.id, absorber |-> p.id, mass |-> q.mass]

\* ... when both pieces still live.
LEMMA AbsorbIs ==
  ASSUME NEW st, Working(st), NEW x, x[1] \in DOMAIN st.players, x[2] \in DOMAIN st.players,
         x[1] # x[2]
  PROVE  IF x[1] \notin st.live \/ x[2] \notin st.live
           THEN Absorb(st, x) = st
           ELSE Effect(st, Absorb(st, x), st.players[x[1]], {st.players[x[2]]},
                       Grown(st.players[x[1]], st.players[x[1]].mass + st.players[x[2]].mass),
                       Append(st.events, AbsorbedEvent(st.players[x[1]], st.players[x[2]])),
                       st.eaten)
<1>1. CASE x[1] \notin st.live \/ x[2] \notin st.live
  BY <1>1 DEF Absorb
<1>2. CASE ~(x[1] \notin st.live \/ x[2] \notin st.live)
  <2> DEFINE a == x[1]  b == x[2]
             p == st.players[a]  q == st.players[b]
             g == Grown(p, p.mass + q.mass)
             v == Absorb(st, x)
  <2>1. v = [st EXCEPT !.live = @ \ {b}, !.players[a] = Grown(@, @.mass + q.mass),
                       !.events = Append(@, AbsorbedEvent(p, q))]
    BY <1>2 DEF Absorb, Absorbed, AbsorbedEvent
  <2>2. /\ v.players = [st.players EXCEPT ![a] = g] /\ v.live = st.live \ {b}
        /\ v.events = Append(st.events, AbsorbedEvent(p, q)) /\ v.eaten = st.eaten
    BY <2>1 DEF Working
  <2> HIDE DEF v, g, p, q
  <2> DEFINE D == {b}
  <2>3. a \in st.live /\ a \notin D /\ D \subseteq st.live /\ v.live = st.live \ D
    BY <1>2, <2>2
  <2> HIDE DEF D, a, b
  <2>4. Live(v) = (Live(st) \ ({st.players[a]} \cup At(st, D))) \cup {g}
    <3>1. Working(st)
      OBVIOUS
    <3>2. v.players = [st.players EXCEPT ![a] = g]
      BY <2>2
    <3> QED BY ONLY <2>3, <3>1, <3>2, LiveReplaced
  <2>5. At(st, D) = {q}
    BY DEF D, q, At
  <2>6. Effect(st, v, p, {q}, g, Append(st.events, AbsorbedEvent(p, q)), st.eaten)
    BY <2>2, <2>4, <2>5 DEF Effect, p
  <2> QED BY <1>2, <2>6 DEF v, g, p, q, a, b
<1> QED BY <1>1, <1>2

\* Both arrays absorb alike.
LEMMA SameAbsorb ==
  ASSUME NEW s, Working(s), NEW t, Working(t), SameState(s, t),
         NEW x, x[1] \in DOMAIN s.players, x[2] \in DOMAIN s.players, x[1] # x[2],
         NEW y, y[1] \in DOMAIN t.players, y[2] \in DOMAIN t.players, y[1] # y[2],
         s.players[x[1]].id = t.players[y[1]].id, s.players[x[2]].id = t.players[y[2]].id
  PROVE  SameState(Absorb(s, x), Absorb(t, y))
<1>1. /\ x[1] \in s.live <=> y[1] \in t.live
      /\ x[1] \in s.live => t.players[y[1]] = s.players[x[1]]
      /\ x[2] \in s.live <=> y[2] \in t.live
      /\ x[2] \in s.live => t.players[y[2]] = s.players[x[2]]
  BY SameLive DEF SameState
<1>2. CASE x[1] \notin s.live \/ x[2] \notin s.live
  <2>1. Absorb(s, x) = s /\ Absorb(t, y) = t
    BY <1>1, <1>2, AbsorbIs
  <2> QED BY <2>1
<1>3. CASE ~(x[1] \notin s.live \/ x[2] \notin s.live)
  <2> DEFINE p == s.players[x[1]]  q == s.players[x[2]]
             g == Grown(p, p.mass + q.mass)
             events == Append(s.events, AbsorbedEvent(p, q))
  <2>1. Effect(s, Absorb(s, x), p, {q}, g, events, s.eaten)
    BY <1>3, AbsorbIs
  <2>2. Effect(t, Absorb(t, y), t.players[y[1]], {t.players[y[2]]},
               Grown(t.players[y[1]], t.players[y[1]].mass + t.players[y[2]].mass),
               Append(t.events, AbsorbedEvent(t.players[y[1]], t.players[y[2]])), t.eaten)
    BY <1>1, <1>3, AbsorbIs
  <2>3. Effect(t, Absorb(t, y), p, {q}, g, events, s.eaten)
    BY <1>1, <1>3, <2>2 DEF SameState
  <2> HIDE DEF p, q, g, events
  <2> QED BY <2>1, <2>3 DEF Effect, SameState
<1> QED BY <1>2, <1>3

\* A meal, as the live pieces see it.
EatenEvent(p, food) == [type |-> "eaten", food |-> food, player |-> p.id, mass |-> FoodMass]

\* ... when the piece lives.
LEMMA EatIs ==
  ASSUME NEW st, Working(st), NEW meeting, meeting.player \in st.live
  PROVE  Effect(st, Eat(st, meeting), st.players[meeting.player], {},
                Grown(st.players[meeting.player], st.players[meeting.player].mass + FoodMass),
                Append(st.events, EatenEvent(st.players[meeting.player], meeting.food)),
                Append(st.eaten, meeting.food))
<1> DEFINE a == meeting.player
           p == st.players[a]
           g == Grown(p, p.mass + FoodMass)
           v == Eat(st, meeting)
           D == {}
<1>1. v = [st EXCEPT !.eaten = Append(@, meeting.food), !.players[a] = Grown(@, @.mass + FoodMass),
                     !.events = Append(@, EatenEvent(p, meeting.food))]
  BY DEF Eat, EatenEvent
<1>2. /\ v.players = [st.players EXCEPT ![a] = g] /\ v.live = st.live
      /\ v.events = Append(st.events, EatenEvent(p, meeting.food))
      /\ v.eaten = Append(st.eaten, meeting.food)
  BY <1>1 DEF Working
<1> HIDE DEF v, g, a
<1>3. a \in st.live /\ a \notin D /\ D \subseteq st.live /\ v.live = st.live \ D
  BY <1>2 DEF a
<1>4. At(st, D) = {}
  BY DEF At
<1> HIDE DEF D
<1>5. Live(v) = (Live(st) \ ({st.players[a]} \cup At(st, D))) \cup {g}
  <2>1. Working(st) /\ v.players = [st.players EXCEPT ![a] = g]
    BY <1>2
  <2> QED BY ONLY <1>3, <2>1, LiveReplaced
<1>6. Effect(st, v, p, {}, g, Append(st.events, EatenEvent(p, meeting.food)),
             Append(st.eaten, meeting.food))
  BY <1>2, <1>4, <1>5 DEF Effect
<1> QED BY <1>6 DEF v, g, a

\* Both arrays eat alike.
LEMMA SameEat ==
  ASSUME NEW s, Working(s), NEW t, Working(t), SameState(s, t),
         NEW x, x.player \in s.live, NEW y, y.player \in t.live, x.food = y.food,
         s.players[x.player].id = t.players[y.player].id
  PROVE  SameState(Eat(s, x), Eat(t, y))
<1> DEFINE p == s.players[x.player]
           g == Grown(p, p.mass + FoodMass)
           events == Append(s.events, EatenEvent(p, x.food))
           eaten == Append(s.eaten, x.food)
<1>1. t.players[y.player] = p
  BY SameLive DEF SameState, Working
<1>2. Effect(s, Eat(s, x), p, {}, g, events, eaten)
  BY EatIs
<1>3. Effect(t, Eat(t, y), t.players[y.player], {},
             Grown(t.players[y.player], t.players[y.player].mass + FoodMass),
             Append(t.events, EatenEvent(t.players[y.player], y.food)), Append(t.eaten, y.food))
  BY EatIs
<1>4. Effect(t, Eat(t, y), p, {}, g, events, eaten)
  BY <1>1, <1>3 DEF SameState
<1> HIDE DEF p, g, events, eaten
<1> QED BY <1>2, <1>4 DEF Effect, SameState

\* Two pieces that may merge.
Mergeable(p, q, done) ==
  /\ p.id < q.id /\ p.owner = q.owner
  /\ done >= p.eligible /\ done >= q.eligible
  /\ CirclesOverlap(Bounds(p), Bounds(q))

\* The pair that merges.
LeastPair(L, done, p, q) ==
  /\ p \in L /\ q \in L /\ Mergeable(p, q, done)
  /\ \A r, o \in L : Mergeable(r, o, done) => \/ p.id < r.id
                                              \/ p = r /\ q.id <= o.id

\* What it becomes.
Merger(p, q) ==
  LET mass == p.mass + q.mass
      mean(field) == (p[field] * p.mass + q[field] * q.mass) \div mass
  IN  [Grown(p, mass) EXCEPT !.pos = mean("pos"), !.launch = mean("launch"),
                             !.eligible = IF q.eligible > p.eligible THEN q.eligible ELSE @]

\* There is one such pair.
LEMMA LeastPairUnique ==
  ASSUME NEW L, \A p \in L : p.id \in Int, \A p, q \in L : p.id = q.id => p = q,
         NEW done, NEW p, NEW q, LeastPair(L, done, p, q),
         NEW r, NEW o, LeastPair(L, done, r, o)
  PROVE  r = p /\ o = q
<1>1. /\ p \in L /\ q \in L /\ r \in L /\ o \in L
      /\ p.id < r.id \/ (p = r /\ q.id <= o.id)
      /\ r.id < p.id \/ (r = p /\ o.id <= q.id)
  BY DEF LeastPair
<1>2. p.id \in Int /\ r.id \in Int /\ q.id \in Int /\ o.id \in Int
  BY <1>1
<1>3. p = r /\ q.id = o.id
  BY ONLY <1>1, <1>2
<1> QED BY <1>1, <1>3

\* Merging once, as the live pieces see it.
MergeEffect(st, v, done) ==
  IF \A p, q \in Live(st) : ~Mergeable(p, q, done)
    THEN v = st
    ELSE \E p, q : /\ LeastPair(Live(st), done, p, q)
                   /\ Effect(st, v, p, {q}, Merger(p, q), Append(st.events, MergedEvent(p, q)),
                             st.eaten)

\* An iteration merges that pair, or finds none.
LEMMA MergeOnceIs ==
  ASSUME NEW st, Working(st), NEW done
  PROVE  MergeEffect(st, MergeOnce(st, done), done)
<1> DEFINE pairs == MergePairs(st, done)
           x == Selected(st, pairs)
           a == x[1]  b == x[2]
           p == st.players[a]  q == st.players[b]
           v == MergeOnce(st, done)
           g == Merger(p, q)
           events == Append(st.events, MergedEvent(p, q))
<1>1. pairs = {y \in st.live \X st.live : Mergeable(st.players[y[1]], st.players[y[2]], done)}
  BY DEF MergePairs, Mergeable
<1>2. /\ \A i \in st.live : st.players[i] \in Pieces
      /\ st.live \subseteq DOMAIN st.players
      /\ \A i, j \in st.live : st.players[i].id = st.players[j].id => i = j
  BY ElementsIn DEF Working
<1>3. v = IF pairs = {} THEN st
          ELSE [st EXCEPT !.live = @ \ {b}, !.players[a] = g,
                          !.events = Append(@, MergedEvent(p, q))]
  BY DEF MergeOnce, Merger
<1> HIDE DEF pairs, x, g, v
<1>4. CASE pairs = {}
  <2>1. \A r, o \in Live(st) : ~Mergeable(r, o, done)
    <3> SUFFICES ASSUME NEW i \in st.live, NEW j \in st.live,
                        Mergeable(st.players[i], st.players[j], done)
                 PROVE  FALSE
      BY DEF Live
    <3>1. <<i, j>> \in pairs
      BY <1>1
    <3> QED BY <1>4, <3>1
  <2> QED BY <1>3, <1>4, <2>1 DEF MergeEffect, v
<1>5. CASE pairs # {}
  <2>1. x \in pairs /\ Least(st, pairs, x)
    <3>1. pairs \subseteq st.live \X st.live
      BY <1>1
    <3>2. \A i \in st.live : st.players[i].id \in Nat
      BY <1>2 DEF Pieces, Positive
    <3> QED BY ONLY <1>2, <1>5, <3>1, <3>2, SelectedIs DEF x
  <2>2. a \in st.live /\ b \in st.live /\ Mergeable(p, q, done)
    BY <1>1, <2>1
  <2>3. p.id \in Int /\ q.id \in Int /\ p.id < q.id
    BY <1>2, <2>2 DEF Mergeable, Pieces, Positive
  <2>4. a # b
    BY <2>3
  <2>5. LeastPair(Live(st), done, p, q)
    <3>1. ASSUME NEW r \in Live(st), NEW o \in Live(st), Mergeable(r, o, done)
          PROVE  p.id < r.id \/ (p = r /\ q.id <= o.id)
      <4>1. PICK i \in st.live : r = st.players[i]
        BY DEF Live
      <4>2. PICK j \in st.live : o = st.players[j]
        BY DEF Live
      <4>3. <<i, j>> \in pairs
        BY <1>1, <3>1, <4>1, <4>2
      <4>4. \/ st.players[a].id < st.players[i].id
            \/ a = i /\ st.players[b].id <= st.players[j].id
        BY <2>1, <4>3 DEF Least
      <4> QED BY <4>1, <4>2, <4>4
    <3>2. p \in Live(st) /\ q \in Live(st)
      BY <2>2 DEF Live
    <3> QED BY <2>2, <3>1, <3>2 DEF LeastPair
  <2>6. /\ v.players = [st.players EXCEPT ![a] = g] /\ v.live = st.live \ {b}
        /\ v.events = events /\ v.eaten = st.eaten
    BY <1>3, <1>5 DEF Working
  <2> HIDE DEF p, q, a, b, events
  <2> DEFINE D == {b}
  <2>7. At(st, D) = {q}
    BY DEF At, q
  <2>8. a \in st.live /\ a \notin D /\ D \subseteq st.live /\ v.live = st.live \ D
    BY <2>2, <2>4, <2>6
  <2> HIDE DEF D
  <2>9. Live(v) = (Live(st) \ ({st.players[a]} \cup At(st, D))) \cup {g}
    BY <2>6, <2>8, LiveReplaced
  <2>10. Effect(st, v, p, {q}, g, events, st.eaten)
    BY <2>6, <2>7, <2>9 DEF Effect, p
  <2>11. ~(\A r, o \in Live(st) : ~Mergeable(r, o, done))
    BY <2>5 DEF LeastPair
  <2> QED BY <2>5, <2>10, <2>11 DEF MergeEffect, v, g, events
<1> QED BY <1>4, <1>5

\* Both arrays merge alike.
LEMMA SameMergeOnce ==
  ASSUME NEW s, Working(s), NEW t, Working(t), SameState(s, t), NEW done
  PROVE  SameState(MergeOnce(s, done), MergeOnce(t, done))
<1> DEFINE L == Live(s)
           x == MergeOnce(s, done)  y == MergeOnce(t, done)
<1>1. MergeEffect(s, x, done) /\ MergeEffect(t, y, done)
  BY MergeOnceIs
<1>2. Live(t) = L
  BY DEF SameState
<1> HIDE DEF x, y
<1>3. CASE \A p, q \in L : ~Mergeable(p, q, done)
  BY <1>1, <1>2, <1>3 DEF MergeEffect, x, y
<1>4. CASE ~(\A p, q \in L : ~Mergeable(p, q, done))
  <2>1. /\ \A p \in L : p.id \in Int
        /\ \A p, q \in L : p.id = q.id => p = q
    <3>1. /\ \A i \in s.live : i \in DOMAIN s.players /\ s.players[i] \in Pieces
          /\ \A i, j \in s.live : s.players[i].id = s.players[j].id => i = j
      BY ElementsIn DEF Working
    <3>2. \A p \in Pieces : p.id \in Int
      BY DEF Pieces, Positive
    <3> QED BY <3>1, <3>2 DEF Live
  <2>2. PICK p, q : /\ LeastPair(L, done, p, q)
                    /\ Effect(s, x, p, {q}, Merger(p, q), Append(s.events, MergedEvent(p, q)),
                              s.eaten)
    BY <1>1, <1>4 DEF MergeEffect
  <2>3. PICK r, o : /\ LeastPair(L, done, r, o)
                    /\ Effect(t, y, r, {o}, Merger(r, o), Append(t.events, MergedEvent(r, o)),
                              t.eaten)
    BY <1>1, <1>2, <1>4 DEF MergeEffect
  <2> HIDE DEF L
  <2>4. r = p /\ o = q
    BY <2>1, <2>2, <2>3, LeastPairUnique
  <2>5. SameState(x, y)
    BY <2>2, <2>3, <2>4 DEF Effect, SameState, L
  <2> QED BY <2>5 DEF x, y
<1> QED BY <1>3, <1>4

-----------------------------------------------------------------------------
(* What a query finds does not depend on the order of the cells' lists.     *)

\* The radius of a mass is a length.
RadiiAreLengths == \A mass \in Positive : RadiusForMass(mass) \in Nat

\* Division does not fall.
LEMMA DivGrows ==
  ASSUME NEW a \in Int, NEW b \in Int, a <= b, NEW c \in Nat \ {0}
  PROVE  a \div c \in Int /\ b \div c \in Int /\ a \div c <= b \div c
<1> DEFINE p == a \div c  q == b \div c
<1>1. /\ p \in Int /\ q \in Int
  OBVIOUS
<1>2. a = c * p + (a % c) /\ a % c \in 0 .. c - 1
  OBVIOUS
<1>3. b = c * q + (b % c) /\ b % c \in 0 .. c - 1
  OBVIOUS
<1> HIDE DEF p, q
<1>4. ASSUME p >= q + 1 PROVE FALSE
  <2>1. c * p >= c * (q + 1)
    BY <1>1, <1>4
  <2>2. c * (q + 1) = c * q + c
    BY <1>1
  <2>3. c * p \in Int /\ c * q \in Int
    BY <1>1
  <2> QED BY <1>2, <1>3, <2>1, <2>2, <2>3
<1> QED BY <1>1, <1>4

\* A circle covers a number of cells.
LEMMA RangeWidth ==
  ASSUME NEW c, c.center \in Int, c.radius \in Nat
  PROVE  /\ CellRange(c).min \in Int /\ CellRange(c).max \in Int
         /\ (CellRange(c).max - CellRange(c).min) + 1 \in Nat
<1> DEFINE lo == (c.center - c.radius) \div CellSize
           hi == (c.center + c.radius) \div CellSize
<1>1. CellSize \in Nat \ {0}
  BY GridAssumption
<1>2. /\ c.center - c.radius \in Int /\ c.center + c.radius \in Int
      /\ c.center - c.radius <= c.center + c.radius
  OBVIOUS
<1>3. lo \in Int /\ hi \in Int /\ lo <= hi
  BY ONLY <1>1, <1>2, DivGrows
<1>4. CellRange(c) = IF lo < MinCell \/ hi > MaxCell \/ (hi - lo) + 1 > MaxCellsPerAxis
                       THEN NoRange ELSE [min |-> lo, max |-> hi]
  BY DEF CellRange
<1> HIDE DEF lo, hi
<1>5. CellRange(c) = NoRange \/ CellRange(c) = [min |-> lo, max |-> hi]
  BY <1>4
<1>6. NoRange.min = 1 /\ NoRange.max = 0
  BY DEF NoRange
<1>7. CASE CellRange(c) = NoRange
  BY <1>6, <1>7
<1>8. CASE CellRange(c) = [min |-> lo, max |-> hi]
  BY <1>3, <1>8
<1> QED BY <1>5, <1>7, <1>8

\* The list of a cell.
CellList(g, k) == IF k \in DOMAIN g.cells THEN g.cells[k] ELSE <<>>

\* The recursive function of Query.
QuerySteps(g, c, width, f) ==
  /\ f[0] = <<>>
  /\ \A n \in Nat : n + 1 <= width =>
       f[n + 1] = f[n] \o Kept(CellList(g, CellRange(c).min + n),
                               ToSet(CellList(g, CellRange(c).min + n)) \ ToSet(f[n]))
  /\ Query(g, c) = f[width]

\* ... exists.
LEMMA QueryEquation ==
  ASSUME NEW g, NEW c, CellRange(c).min \in Int,
         NEW width \in Nat, width = (CellRange(c).max - CellRange(c).min) + 1
  PROVE  \E f : QuerySteps(g, c, width, f)
<1> DEFINE from == CellRange(c).min
           base == <<>>
           Step(x, n) == x \o Kept(CellList(g, from + n - 1),
                                   ToSet(CellList(g, from + n - 1)) \ ToSet(x))
           Solves(f, m) == f = [n \in 0 .. m |-> IF n = 0 THEN base ELSE Step(f[n - 1], n)]
           Solved == {m \in Nat : \E f : Solves(f, m)}
<1> HIDE DEF Step, base
<1>1. 0 \in Solved
  <2> DEFINE g0 == [n \in 0 .. 0 |-> base]
  <2>1. Solves(g0, 0)
    OBVIOUS
  <2> QED BY <2>1
<1>2. ASSUME NEW m \in Nat, m \in Solved PROVE m + 1 \in Solved
  <2>1. PICK f : Solves(f, m)
    BY <1>2
  <2> DEFINE last == Step(f[m], m + 1)
             h == [n \in 0 .. m + 1 |-> IF n <= m THEN f[n] ELSE last]
  <2> HIDE DEF last
  <2>2. \A n \in 0 .. m : h[n] = f[n]
    OBVIOUS
  <2>3. ASSUME NEW n \in 0 .. m + 1
        PROVE  h[n] = IF n = 0 THEN base ELSE Step(h[n - 1], n)
    <3>1. CASE n <= m
      <4>1. h[n] = f[n] BY <3>1
      <4>2. n # 0 => n - 1 \in 0 .. m BY <3>1
      <4>3. n # 0 => h[n - 1] = f[n - 1] BY <4>2, <2>2
      <4>4. f[n] = IF n = 0 THEN base ELSE Step(f[n - 1], n)
        BY <2>1, <3>1
      <4> QED BY <4>1, <4>3, <4>4
    <3>2. CASE n = m + 1
      <4>1. h[n] = last BY <3>2
      <4>2. h[m] = f[m] BY <2>2
      <4> QED BY <4>1, <4>2, <3>2 DEF last
    <3> QED BY <3>1, <3>2
  <2>4. Solves(h, m + 1)
    BY <2>3
  <2> HIDE DEF Solves, h
  <2>5. m + 1 \in Nat /\ \E x : Solves(x, m + 1)
    BY <2>4
  <2> QED BY <2>5
<1>4. width \in Solved
  BY <1>1, <1>2, SetInduction
<1> DEFINE f == CHOOSE h : Solves(h, width)
<1>5. Solves(f, width)
  BY <1>4
<1>6. Query(g, c) = f[width]
  BY DEF Query, Step, base, CellList
<1> HIDE DEF f
<1>7. f[0] = base
  BY <1>5
<1>8. ASSUME NEW n \in Nat, n + 1 <= width PROVE f[n + 1] = Step(f[n], n + 1)
  <2>1. n + 1 \in 0 .. width /\ n + 1 # 0 /\ (n + 1) - 1 = n
    BY <1>8
  <2>2. f[n + 1] = IF n + 1 = 0 THEN base ELSE Step(f[(n + 1) - 1], n + 1)
    BY <1>5, <2>1
  <2> QED BY <2>1, <2>2
<1>9. \A n \in Nat : from + (n + 1) - 1 = from + n
  OBVIOUS
<1> QED
  BY <1>6, <1>7, <1>8, <1>9 DEF QuerySteps, Step, base

\* A query finds what the cells of its range list.
Found(g, c, id) == \E k \in Cells(CellRange(c)) : id \in ToSet(CellList(g, k))

\* ... each id once or more, and nothing else.
LEMMA QueryFinds ==
  ASSUME NEW g, GridSound(g), NEW c, c.center \in Int, c.radius \in Nat
  PROVE  \A id : id \in ToSet(Query(g, c)) <=> Found(g, c, id)
<1> DEFINE from == CellRange(c).min
           width == (CellRange(c).max - CellRange(c).min) + 1
<1>1. from \in Int /\ CellRange(c).max \in Int /\ width \in Nat
  BY RangeWidth
<1>2. PICK f : QuerySteps(g, c, width, f)
  BY <1>1, QueryEquation
<1>3. \A k : CellList(g, k) \in Seq(Positive)
  BY DEF CellList, GridSound
<1>4. \A k : k \in Cells(CellRange(c)) <=> \E n \in Nat : n < width /\ k = from + n
  <2>1. ASSUME NEW k \in Cells(CellRange(c)) PROVE \E n \in Nat : n < width /\ k = from + n
    <3>1. k \in from .. CellRange(c).max
      BY DEF Cells
    <3>2. k - from \in Nat /\ k - from < width /\ k = from + (k - from)
      BY <1>1, <3>1
    <3> HIDE DEF width, from
    <3> QED BY <3>2
  <2>2. ASSUME NEW n \in Nat, n < width PROVE from + n \in Cells(CellRange(c))
    BY <1>1, <2>2 DEF Cells
  <2> HIDE DEF width, from
  <2> QED BY <2>1, <2>2
<1> HIDE DEF width, from
<1> DEFINE In(n) == /\ f[n] \in Seq(Positive)
                    /\ \A id : id \in ToSet(f[n]) <=>
                         \E m \in Nat : m < n /\ id \in ToSet(CellList(g, from + m))
           I == {n \in Nat : n <= width => In(n)}
<1>5. 0 \in I
  <2>1. f[0] = <<>>
    BY <1>2 DEF QuerySteps
  <2>2. ToSet(<<>>) = {} /\ <<>> \in Seq(Positive)
    BY DEF ToSet
  <2>3. \A m \in Nat : ~(m < 0)
    OBVIOUS
  <2> QED BY <2>1, <2>2, <2>3
<1>6. ASSUME NEW n \in Nat, n \in I PROVE n + 1 \in I
  <2> SUFFICES ASSUME n + 1 <= width PROVE In(n + 1)
    OBVIOUS
  <2> DEFINE l == CellList(g, from + n)
             old == f[n]
             more == Kept(l, ToSet(l) \ ToSet(old))
  <2>1. In(n)
    BY <1>1, <1>6
  <2>2. f[n + 1] = old \o more
    BY <1>2 DEF QuerySteps, from
  <2>3. l \in Seq(Positive) /\ old \in Seq(Positive)
    BY <1>3, <2>1
  <2> HIDE DEF l, old
  <2>4. more \in Seq(Positive) /\ ToSet(more) = ToSet(l) \cap (ToSet(l) \ ToSet(old))
    BY <2>3, KeptFacts
  <2> HIDE DEF more
  <2>5. /\ f[n + 1] \in Seq(Positive)
        /\ \A id : id \in ToSet(f[n + 1]) <=> id \in ToSet(old) \/ id \in ToSet(more)
    BY <2>2, <2>3, <2>4, ConcatHolds
  <2>6. \A id : id \in ToSet(f[n + 1]) <=> id \in ToSet(old) \/ id \in ToSet(l)
    BY <2>4, <2>5
  <2>7. \A m \in Nat : m < n + 1 <=> m < n \/ m = n
    OBVIOUS
  <2>8. \A id : id \in ToSet(f[n + 1]) <=>
          \E m \in Nat : m < n + 1 /\ id \in ToSet(CellList(g, from + m))
    BY <2>1, <2>6, <2>7 DEF l, old
  <2> QED BY <2>5, <2>8
<1>7. In(width)
  <2>1. width \in I
    <3> HIDE DEF I
    <3> QED BY <1>1, <1>5, <1>6, SetInduction
  <2> QED BY <1>1, <2>1
<1>8. Query(g, c) = f[width]
  BY <1>2 DEF QuerySteps
<1>9. \A id : id \in ToSet(Query(g, c)) <=>
        \E m \in Nat : m < width /\ id \in ToSet(CellList(g, from + m))
  BY <1>7, <1>8
<1> QED BY <1>4, <1>9 DEF Found

\* Grids with the same entries answer alike.
SameEntries(g, h) ==
  /\ DOMAIN h.entries = DOMAIN g.entries
  /\ \A id \in DOMAIN g.entries : h.entries[id] = g.entries[id]

\* What one grid lists for a circle, the other does.
LEMMA SameFind ==
  ASSUME NEW g, GridSound(g), NEW h, GridSound(h), SameEntries(g, h), NEW c, NEW id,
         Found(g, c, id)
  PROVE  Found(h, c, id)
<1>1. PICK k \in Cells(CellRange(c)) : id \in ToSet(CellList(g, k))
  BY DEF Found
<1>2. k \in DOMAIN g.cells /\ id \in ToSet(g.cells[k])
  BY <1>1 DEF CellList, ToSet
<1>3. id \in DOMAIN g.entries /\ k \in Cells(g.entries[id])
  BY <1>2 DEF GridSound, GridCoherent
<1>4. id \in DOMAIN h.entries /\ k \in Cells(h.entries[id])
  BY <1>3 DEF SameEntries
<1>5. k \in DOMAIN h.cells /\ id \in ToSet(h.cells[k])
  BY <1>4 DEF GridSound, GridCoherent
<1> QED BY <1>1, <1>5 DEF Found, CellList

\* So queries answer with the same ids.
LEMMA SameQuery ==
  ASSUME NEW g, GridSound(g), NEW h, GridSound(h), SameEntries(g, h),
         NEW c, c.center \in Int, c.radius \in Nat
  PROVE  ToSet(Query(h, c)) = ToSet(Query(g, c))
<1>1. SameEntries(h, g)
  BY DEF SameEntries
<1>2. \A id : id \in ToSet(Query(h, c)) <=> id \in ToSet(Query(g, c))
  BY <1>1, QueryFinds, SameFind
<1> QED BY <1>2

-----------------------------------------------------------------------------
(* Ranks in a finite order.                                                *)

\* A strict order of all elements of R.
Ordered(R, lt) ==
  /\ \A a \in R : <<a, a>> \notin lt
  /\ \A a, b, c \in R : <<a, b>> \in lt /\ <<b, c>> \in lt => <<a, c>> \in lt
  /\ \A a, b \in R : a = b \/ <<a, b>> \in lt \/ <<b, a>> \in lt

\* What is lower, and how much of it.
Below(R, lt, a) == {b \in R : <<b, a>> \in lt}
Rank(R, lt, a) == Cardinality(Below(R, lt, a))

\* What is lower has a smaller rank.
LEMMA RankGrows ==
  ASSUME NEW R, IsFiniteSet(R), NEW lt, Ordered(R, lt), NEW a \in R, NEW b \in R, <<a, b>> \in lt
  PROVE  Rank(R, lt, a) < Rank(R, lt, b)
<1> DEFINE A == Below(R, lt, a)  B == Below(R, lt, b)
<1>1. A \in SUBSET B
  BY DEF Below, Ordered
<1>2. a \in B /\ a \notin A /\ B \in SUBSET R
  BY DEF Below, Ordered
<1> HIDE DEF A, B
<1>3. IsFiniteSet(B)
  BY <1>2, FS_Subset
<1>4. /\ IsFiniteSet(A) /\ Cardinality(A) <= Cardinality(B)
      /\ Cardinality(B) = Cardinality(A) => B = A
  BY <1>1, <1>3, FS_Subset
<1>5. Cardinality(A) \in Nat /\ Cardinality(B) \in Nat
  BY <1>3, <1>4, FS_CardinalityType
<1>6. Cardinality(A) # Cardinality(B)
  BY <1>2, <1>4
<1>7. Cardinality(A) < Cardinality(B)
  BY ONLY <1>4, <1>5, <1>6
<1> QED BY <1>7 DEF Rank, A, B

\* Ranks tell elements apart and stay below their number.
LEMMA RankApart ==
  ASSUME NEW R, IsFiniteSet(R), NEW lt, Ordered(R, lt), NEW a \in R
  PROVE  /\ Rank(R, lt, a) \in Nat /\ Rank(R, lt, a) < Cardinality(R)
         /\ \A b \in R : Rank(R, lt, b) = Rank(R, lt, a) => b = a
<1> DEFINE A == Below(R, lt, a)
<1>1. A \in SUBSET R /\ a \notin A
  BY DEF Below, Ordered
<1> HIDE DEF A
<1>2. /\ IsFiniteSet(A) /\ Cardinality(A) <= Cardinality(R)
      /\ Cardinality(R) = Cardinality(A) => R = A
  BY <1>1, FS_Subset
<1>3. Cardinality(A) \in Nat /\ Cardinality(R) \in Nat
  BY <1>2, FS_CardinalityType
<1>4. Cardinality(A) # Cardinality(R)
  BY <1>1, <1>2
<1>5. Cardinality(A) < Cardinality(R)
  BY ONLY <1>2, <1>3, <1>4
<1>6. Rank(R, lt, a) = Cardinality(A)
  BY DEF Rank, A
<1>7. ASSUME NEW b \in R, Rank(R, lt, b) = Rank(R, lt, a) PROVE b = a
  <2>1. Rank(R, lt, a) \in Int
    BY <1>3, <1>6
  <2>2. ~(Rank(R, lt, a) < Rank(R, lt, b)) /\ ~(Rank(R, lt, b) < Rank(R, lt, a))
    BY <1>7, <2>1
  <2> QED BY <2>2, RankGrows DEF Ordered
<1> QED BY <1>3, <1>5, <1>6, <1>7

\* Every number below is a rank.
LEMMA RankTaken ==
  ASSUME NEW R, IsFiniteSet(R), NEW lt, Ordered(R, lt), NEW n \in Nat, n < Cardinality(R)
  PROVE  \E a \in R : Rank(R, lt, a) = n
<1> DEFINE N == Cardinality(R)
           T == 0 .. N - 1
           f == [a \in R |-> Rank(R, lt, a)]
<1>1. N \in Nat
  BY FS_CardinalityType
<1> HIDE DEF N
<1>2. IsFiniteSet(T) /\ Cardinality(T) = N
  <2>1. N - 1 \in Int /\ 0 \in Int
    BY <1>1
  <2>2. IsFiniteSet(T) /\ Cardinality(T) = IF 0 > N - 1 THEN 0 ELSE (N - 1) - 0 + 1
    BY <2>1, FS_Interval
  <2> HIDE DEF T
  <2> QED BY <1>1, <2>2
<1>3. \A a \in R : Rank(R, lt, a) \in T
  BY <1>1, RankApart DEF N
<1>4. \A a, b \in R : Rank(R, lt, a) = Rank(R, lt, b) => a = b
  BY RankApart
<1> HIDE DEF T
<1>5. f \in Injection(R, T)
  <2>1. f \in [R -> T]
    BY <1>3
  <2>2. \A a \in R : f[a] = Rank(R, lt, a)
    OBVIOUS
  <2> HIDE DEF f
  <2>3. \A a, b \in R : f[a] = f[b] => a = b
    BY <1>4, <2>2
  <2> QED BY <2>1, <2>3 DEF Injection, IsInjective
<1> HIDE DEF f
<1>6. f \in Surjection(R, T)
  BY <1>2, <1>5, FS_Injection DEF N
<1>7. n \in T
  BY <1>1 DEF T, N
<1>8. PICK a \in R : f[a] = n
  BY <1>6, <1>7 DEF Surjection
<1> QED BY <1>8 DEF f

-----------------------------------------------------------------------------
(* Absorption works through the same pieces in the same order.             *)

\* The recursive function of PieceGrid.
PieceGridSteps(ps, f) ==
  /\ f[0] = EmptyGrid
  /\ \A n \in Nat : n + 1 <= Len(ps) =>
       f[n + 1] = Insert(f[n], ps[n + 1].id, Bounds(ps[n + 1]))
  /\ PieceGrid(ps) = f[Len(ps)]

\* ... exists.
LEMMA PieceGridEquation ==
  ASSUME NEW ps, Len(ps) \in Nat
  PROVE  \E f : PieceGridSteps(ps, f)
<1> DEFINE base == EmptyGrid
           Step(x, n) == Insert(x, ps[n].id, Bounds(ps[n]))
           Solves(f, m) == f = [n \in 0 .. m |-> IF n = 0 THEN base ELSE Step(f[n - 1], n)]
           Solved == {m \in Nat : \E f : Solves(f, m)}
<1> HIDE DEF Step, base
<1>1. 0 \in Solved
  <2> DEFINE g == [n \in 0 .. 0 |-> base]
  <2>1. Solves(g, 0)
    OBVIOUS
  <2> QED BY <2>1
<1>2. ASSUME NEW m \in Nat, m \in Solved PROVE m + 1 \in Solved
  <2>1. PICK f : Solves(f, m)
    BY <1>2
  <2> DEFINE last == Step(f[m], m + 1)
             g == [n \in 0 .. m + 1 |-> IF n <= m THEN f[n] ELSE last]
  <2> HIDE DEF last
  <2>2. \A n \in 0 .. m : g[n] = f[n]
    OBVIOUS
  <2>3. ASSUME NEW n \in 0 .. m + 1
        PROVE  g[n] = IF n = 0 THEN base ELSE Step(g[n - 1], n)
    <3>1. CASE n <= m
      <4>1. g[n] = f[n] BY <3>1
      <4>2. n # 0 => n - 1 \in 0 .. m BY <3>1
      <4>3. n # 0 => g[n - 1] = f[n - 1] BY <4>2, <2>2
      <4>4. f[n] = IF n = 0 THEN base ELSE Step(f[n - 1], n)
        BY <2>1, <3>1
      <4> QED BY <4>1, <4>3, <4>4
    <3>2. CASE n = m + 1
      <4>1. g[n] = last BY <3>2
      <4>2. g[m] = f[m] BY <2>2
      <4> QED BY <4>1, <4>2, <3>2 DEF last
    <3> QED BY <3>1, <3>2
  <2>4. Solves(g, m + 1)
    BY <2>3
  <2> HIDE DEF Solves, g
  <2>5. m + 1 \in Nat /\ \E h : Solves(h, m + 1)
    BY <2>4
  <2> QED BY <2>5
<1>3. Len(ps) \in Nat
  OBVIOUS
<1>4. Len(ps) \in Solved
  BY <1>1, <1>2, <1>3, SetInduction
<1> DEFINE f == CHOOSE h : Solves(h, Len(ps))
<1>5. Solves(f, Len(ps))
  BY <1>4
<1>6. PieceGrid(ps) = f[Len(ps)]
  BY DEF PieceGrid, Step, base
<1> HIDE DEF f
<1>7. f[0] = base
  BY <1>3, <1>5
<1>8. ASSUME NEW n \in Nat, n + 1 <= Len(ps) PROVE f[n + 1] = Step(f[n], n + 1)
  <2>1. n + 1 \in 0 .. Len(ps) /\ n + 1 # 0 /\ (n + 1) - 1 = n
    BY <1>3, <1>8
  <2>2. f[n + 1] = IF n + 1 = 0 THEN base ELSE Step(f[(n + 1) - 1], n + 1)
    BY <1>5, <2>1
  <2> QED BY <2>1, <2>2
<1> QED
  BY <1>6, <1>7, <1>8 DEF PieceGridSteps, Step, base

\* A grid of the first n pieces.
GridOf(g, ps, n) ==
  /\ GridSound(g) /\ DOMAIN g.entries = {ps[i].id : i \in 1 .. n}
  /\ \A i \in 1 .. n : g.entries[ps[i].id] = CellRange(Bounds(ps[i]))

\* Pieces that ids tell apart.
Apart(ps) ==
  ps \in Seq(Pieces) /\ \A i, j \in DOMAIN ps : ps[i].id = ps[j].id => i = j

\* The grid the absorption phase builds is one of all pieces.
LEMMA PieceGridIs ==
  ASSUME NEW ps, Apart(ps)
  PROVE  GridOf(PieceGrid(ps), ps, Len(ps))
<1>1. /\ Len(ps) \in Nat /\ DOMAIN ps = 1 .. Len(ps)
      /\ \A i \in DOMAIN ps : ps[i] \in Pieces /\ ps[i].id \in Positive
  <2>1. /\ Len(ps) \in Nat /\ DOMAIN ps = 1 .. Len(ps)
        /\ \A i \in DOMAIN ps : ps[i] \in Pieces
    BY ElementsIn DEF Apart
  <2> QED BY <2>1 DEF Pieces
<1>2. PICK f : PieceGridSteps(ps, f)
  BY <1>1, PieceGridEquation
<1> DEFINE I == {n \in Nat : n <= Len(ps) => GridOf(f[n], ps, n)}
<1>3. 0 \in I
  <2>1. GridSound(f[0]) /\ f[0].entries = <<>>
    BY <1>2, EmptyGridSound DEF PieceGridSteps
  <2>2. DOMAIN <<>> = {} /\ {ps[i].id : i \in 1 .. 0} = {}
    OBVIOUS
  <2> QED BY <2>1, <2>2 DEF GridOf
<1>4. ASSUME NEW n \in Nat, n \in I PROVE n + 1 \in I
  <2> SUFFICES ASSUME n + 1 <= Len(ps) PROVE GridOf(f[n + 1], ps, n + 1)
    OBVIOUS
  <2> DEFINE g == f[n]  p == ps[n + 1]  h == f[n + 1]
  <2>1. GridOf(g, ps, n) /\ n + 1 \in DOMAIN ps
    BY <1>1, <1>4
  <2>2. h = Insert(g, p.id, Bounds(p))
    BY <1>2 DEF PieceGridSteps
  <2>3. \A i \in 1 .. n : i \in DOMAIN ps /\ i # n + 1
    BY <1>1, <2>1
  <2>4. p.id \notin DOMAIN g.entries /\ p.id \in Positive
    BY <1>1, <2>1, <2>3 DEF GridOf, Apart
  <2>5. \A i \in 1 .. n + 1 : i \in 1 .. n \/ i = n + 1
    OBVIOUS
  <2>6. {ps[i].id : i \in 1 .. n + 1} = {ps[i].id : i \in 1 .. n} \cup {p.id}
    BY <2>5
  <2>9. \A i \in 1 .. n : ps[i].id # p.id
    BY <2>1, <2>3 DEF Apart
  <2> HIDE DEF g, p, h
  <2>7. GridAfter(g, h, p.id, CellRange(Bounds(p)))
    BY <2>1, <2>2, <2>4, InsertSound DEF GridOf
  <2>8. GridOf(h, ps, n + 1)
    BY <2>1, <2>5, <2>6, <2>7, <2>9 DEF GridAfter, GridOf, p
  <2> QED BY <2>8 DEF h
<1>5. GridOf(f[Len(ps)], ps, Len(ps))
  <2>1. Len(ps) \in I
    <3> HIDE DEF I
    <3> QED BY <1>1, <1>3, <1>4, SetInduction
  <2> QED BY <1>1, <2>1
<1> QED BY <1>2, <1>5 DEF PieceGridSteps

\* Two circles share a cell.
Touch(c, d) == \E k \in Cells(CellRange(c)) : k \in Cells(CellRange(d))

\* The grid of the pieces finds those whose cells a circle shares.
LEMMA PieceGridFinds ==
  ASSUME RadiiAreLengths, NEW ps, Apart(ps), NEW i \in DOMAIN ps,
         NEW c, c.center \in Int, c.radius \in Nat
  PROVE  ps[i].id \in ToSet(Query(PieceGrid(ps), c)) <=> Touch(c, Bounds(ps[i]))
<1> DEFINE g == PieceGrid(ps)
<1>1. GridOf(g, ps, Len(ps))
  BY PieceGridIs
<1>2. i \in 1 .. Len(ps)
  BY ElementsIn DEF Apart
<1>3. /\ GridSound(g) /\ ps[i].id \in DOMAIN g.entries
      /\ g.entries[ps[i].id] = CellRange(Bounds(ps[i]))
  BY <1>1, <1>2 DEF GridOf
<1> HIDE DEF g
<1>4. ps[i].id \in ToSet(Query(g, c)) <=> Found(g, c, ps[i].id)
  BY <1>3, QueryFinds
<1>5. \A k : ps[i].id \in ToSet(CellList(g, k)) <=> k \in Cells(g.entries[ps[i].id])
  <2> TAKE k
  <2>1. ASSUME ps[i].id \in ToSet(CellList(g, k)) PROVE k \in Cells(g.entries[ps[i].id])
    <3>1. k \in DOMAIN g.cells /\ ps[i].id \in ToSet(g.cells[k])
      BY <2>1 DEF CellList, ToSet
    <3> QED BY <1>3, <3>1 DEF GridSound, GridCoherent
  <2>2. ASSUME k \in Cells(g.entries[ps[i].id]) PROVE ps[i].id \in ToSet(CellList(g, k))
    <3>1. k \in DOMAIN g.cells /\ ps[i].id \in ToSet(g.cells[k])
      BY <1>3, <2>2 DEF GridSound, GridCoherent
    <3> QED BY <3>1 DEF CellList
  <2> QED BY <2>1, <2>2
<1>6. Found(g, c, ps[i].id) <=> Touch(c, Bounds(ps[i]))
  BY <1>3, <1>5 DEF Found, Touch
<1> QED BY <1>4, <1>6 DEF g

\* A piece is a circle.
LEMMA BoundsType ==
  ASSUME RadiiAreLengths, NEW p \in Pieces
  PROVE  Bounds(p).center \in Int /\ Bounds(p).radius \in Nat
<1>1. p.pos \in Int /\ p.radius \in Nat
  BY DEF Pieces, Radii, RadiiAreLengths
<1> QED BY <1>1 DEF Bounds, Circle

\* Circles meet each other.
LEMMA OverlapBoth ==
  ASSUME NEW c, c.center \in Int, c.radius \in Nat, NEW d, d.center \in Int, d.radius \in Nat,
         CirclesOverlap(c, d)
  PROVE  CirclesOverlap(d, c)
<1> DEFINE x == c.center - d.center  y == d.center - c.center
<1>1. y = -x /\ x \in Int /\ y \in Int
  OBVIOUS
<1>2. c.radius + d.radius = d.radius + c.radius
  OBVIOUS
<1>3. x * x <= (c.radius + d.radius) * (c.radius + d.radius)
  BY DEF CirclesOverlap
<1> HIDE DEF x, y
<1>4. y * y = x * x
  BY <1>1
<1>5. y * y <= (d.radius + c.radius) * (d.radius + c.radius)
  BY <1>2, <1>3, <1>4
<1> QED BY <1>5 DEF CirclesOverlap, y

\* A piece meets another one that it may absorb.
Preys(p, q) ==
  /\ p.mass > q.mass /\ p.owner # q.owner
  /\ CirclesOverlap(Bounds(p), Bounds(q)) /\ Touch(Bounds(p), Bounds(q))

\* The candidates are the pairs of such pieces.
LEMMA PairsAre ==
  ASSUME RadiiAreLengths, NEW ps, Apart(ps)
  PROVE  \A x : x \in AbsorptionPairs(ps) <=>
                  /\ x \in (DOMAIN ps) \X (DOMAIN ps)
                  /\ Preys(ps[x[1]], ps[x[2]])
<1> DEFINE pairs == AbsorptionPairs(ps)
           grid == PieceGrid(ps)
           meets(i) == LET near == ToSet(Query(grid, Bounds(ps[i])))
                       IN  {j \in DOMAIN ps : /\ j > i /\ ps[j].id \in near
                                              /\ ps[i].owner # ps[j].owner
                                              /\ CirclesOverlap(Bounds(ps[i]), Bounds(ps[j]))
                                              /\ ps[i].mass # ps[j].mass}
           pair(i, j) == IF ps[i].mass > ps[j].mass THEN <<i, j>> ELSE <<j, i>>
<1>1. pairs = UNION {{pair(i, j) : j \in meets(i)} : i \in DOMAIN ps}
  BY DEF AbsorptionPairs
<1>2. /\ DOMAIN ps = 1 .. Len(ps) /\ Len(ps) \in Nat
      /\ \A i \in DOMAIN ps : ps[i] \in Pieces
  BY ElementsIn DEF Apart
<1>3. \A i \in DOMAIN ps : i \in Int /\ ps[i].mass \in Int
  BY <1>2 DEF Pieces, Positive
<1>4. \A i \in DOMAIN ps : Bounds(ps[i]).center \in Int /\ Bounds(ps[i]).radius \in Nat
  BY <1>2, BoundsType
<1>5. \A i, j \in DOMAIN ps :
        j \in meets(i) <=> /\ j > i /\ Touch(Bounds(ps[i]), Bounds(ps[j]))
                           /\ ps[i].owner # ps[j].owner
                           /\ CirclesOverlap(Bounds(ps[i]), Bounds(ps[j]))
                           /\ ps[i].mass # ps[j].mass
  BY <1>4, PieceGridFinds
<1>6. \A i : meets(i) \subseteq DOMAIN ps
  OBVIOUS
<1> HIDE DEF pairs, meets
<1>7. \A i, j \in DOMAIN ps :
        /\ CirclesOverlap(Bounds(ps[i]), Bounds(ps[j])) =>
             CirclesOverlap(Bounds(ps[j]), Bounds(ps[i]))
        /\ Touch(Bounds(ps[i]), Bounds(ps[j])) => Touch(Bounds(ps[j]), Bounds(ps[i]))
  BY <1>4, OverlapBoth DEF Touch
<1>8. ASSUME NEW x \in pairs
      PROVE  x \in (DOMAIN ps) \X (DOMAIN ps) /\ Preys(ps[x[1]], ps[x[2]])
  <2>1. PICK i \in DOMAIN ps, j \in DOMAIN ps : x = pair(i, j) /\ j \in meets(i)
    BY <1>1, <1>6
  <2>2. CASE ps[i].mass > ps[j].mass
    BY <1>5, <2>1, <2>2 DEF Preys
  <2>3. CASE ~(ps[i].mass > ps[j].mass)
    <3>1. ps[j].mass > ps[i].mass
      BY <1>3, <1>5, <2>1, <2>3
    <3>2. x = <<j, i>>
      BY <2>1, <2>3
    <3> QED BY <1>5, <1>7, <2>1, <3>1, <3>2 DEF Preys
  <2> QED BY <2>2, <2>3
<1>9. ASSUME NEW i \in DOMAIN ps, NEW j \in DOMAIN ps, Preys(ps[i], ps[j])
      PROVE  <<i, j>> \in pairs
  <2>1. ps[i].mass > ps[j].mass /\ i \in Int /\ j \in Int /\ i # j
    BY <1>3, <1>9 DEF Preys
  <2>2. CASE j > i
    <3>1. j \in meets(i)
      BY <1>5, <1>9, <2>1, <2>2, <1>3 DEF Preys
    <3>2. pair(i, j) = <<i, j>>
      BY <2>1
    <3> QED BY <1>1, <3>1, <3>2
  <2>3. CASE i > j
    <3>1. i \in meets(j)
      BY <1>5, <1>7, <1>9, <2>1, <2>3, <1>3 DEF Preys
    <3>2. pair(j, i) = <<i, j>>
      BY <1>3, <2>1
    <3> QED BY <1>1, <3>1, <3>2
  <2> QED BY <2>1, <2>2, <2>3
<1>10. ASSUME NEW x \in (DOMAIN ps) \X (DOMAIN ps), Preys(ps[x[1]], ps[x[2]])
       PROVE  x \in pairs
  <2>1. x = <<x[1], x[2]>> /\ x[1] \in DOMAIN ps /\ x[2] \in DOMAIN ps
    OBVIOUS
  <2> QED BY <1>9, <1>10, <2>1
<1> QED BY <1>8, <1>10 DEF pairs

\* The pairs of pieces that meet.
Meeting(P) == {r \in P \X P : Preys(r[1], r[2])}

\* Larger absorbers come first, then smaller ids.
Earlier(r, s) ==
  IF r[1].mass # s[1].mass THEN r[1].mass > s[1].mass
  ELSE IF r[1] # s[1] THEN r[1].id < s[1].id
  ELSE r[2].id < s[2].id
Order(P) == {z \in Meeting(P) \X Meeting(P) : Earlier(z[1], z[2])}

\* Pieces with numbers that ids tell apart.
Distinct(P) ==
  /\ \A p \in P : p.mass \in Int /\ p.id \in Int
  /\ \A p, q \in P : p.id = q.id => p = q

\* The pairs that meet are in a strict order.
LEMMA MeetingOrdered ==
  ASSUME NEW P, Distinct(P)
  PROVE  Ordered(Meeting(P), Order(P))
<1> DEFINE R == Meeting(P)
<1>1. \A r \in R : r[1] \in P /\ r[2] \in P /\ r = <<r[1], r[2]>>
  BY DEF Meeting
<1>2. \A r, s \in R : <<r, s>> \in Order(P) <=> Earlier(r, s)
  BY DEF Order
<1> HIDE DEF R
<1>3. \A r \in R : /\ r[1].mass \in Int /\ r[1].id \in Int /\ r[2].id \in Int
  BY <1>1 DEF Distinct
<1>4. \A r \in R : ~Earlier(r, r)
  BY <1>3 DEF Earlier
<1>5. ASSUME NEW r \in R, NEW s \in R, r # s, ~Earlier(r, s) PROVE Earlier(s, r)
  <2>1. r[1] # s[1] => r[1].id # s[1].id
    BY <1>1 DEF Distinct
  <2>2. r[1] = s[1] => r[2].id # s[2].id
    BY <1>1, <1>5 DEF Distinct
  <2> QED BY <1>3, <1>5, <2>1, <2>2 DEF Earlier
<1>6. ASSUME NEW a \in R, NEW b \in R, NEW c \in R, Earlier(a, b), Earlier(b, c) PROVE Earlier(a, c)
  <2>1. /\ a[1] = b[1] <=> a[1].id = b[1].id
        /\ b[1] = c[1] <=> b[1].id = c[1].id
        /\ a[1] = c[1] <=> a[1].id = c[1].id
    BY <1>1 DEF Distinct
  <2> QED BY <1>3, <1>6, <2>1 DEF Earlier
<1> QED BY <1>2, <1>4, <1>5, <1>6 DEF Ordered, R

\* A pair of places as the pieces there.
Pieced(ps, x) == <<ps[x[1]], ps[x[2]]>>

\* The pieces of an array.
LEMMA ApartDistinct ==
  ASSUME NEW ps, Apart(ps)
  PROVE  /\ Distinct(ToSet(ps)) /\ \A i \in DOMAIN ps : ps[i] \in ToSet(ps)
         /\ \A i, j \in DOMAIN ps : ps[i] = ps[j] => i = j
         /\ \A p \in ToSet(ps) : \E i \in DOMAIN ps : ps[i] = p
<1>1. /\ \A i \in DOMAIN ps : ps[i] \in Pieces
      /\ \A i \in DOMAIN ps : ps[i] \in ToSet(ps)
      /\ \A p \in ToSet(ps) : \E i \in DOMAIN ps : ps[i] = p
  BY ElementsIn DEF Apart, ToSet
<1>2. \A p \in Pieces : p.mass \in Int /\ p.id \in Int
  BY DEF Pieces, Positive
<1>3. \A i, j \in DOMAIN ps : ps[i].id = ps[j].id => i = j
  BY DEF Apart
<1> QED BY <1>1, <1>2, <1>3 DEF Distinct

\* Places and pieces correspond.
LEMMA PairsPieced ==
  ASSUME RadiiAreLengths, NEW ps, Apart(ps)
  PROVE  /\ IsFiniteSet(AbsorptionPairs(ps))
         /\ \A x \in AbsorptionPairs(ps) :
              x[1] \in DOMAIN ps /\ x[2] \in DOMAIN ps /\ Pieced(ps, x) \in Meeting(ToSet(ps))
         /\ \A x, y \in AbsorptionPairs(ps) : Pieced(ps, x) = Pieced(ps, y) => x = y
         /\ \A r \in Meeting(ToSet(ps)) : \E x \in AbsorptionPairs(ps) : Pieced(ps, x) = r
<1> DEFINE pairs == AbsorptionPairs(ps)
<1>1. \A x : x \in pairs <=> x \in (DOMAIN ps) \X (DOMAIN ps) /\ Preys(ps[x[1]], ps[x[2]])
  BY PairsAre
<1> HIDE DEF pairs
<1>2. IsFiniteSet(pairs)
  <2>1. Len(ps) \in Nat /\ DOMAIN ps = 1 .. Len(ps)
    BY ElementsIn DEF Apart
  <2>2. IsFiniteSet(DOMAIN ps)
    BY <2>1, FS_Interval
  <2>3. IsFiniteSet((DOMAIN ps) \X (DOMAIN ps))
    BY <2>2, FS_Product
  <2>4. pairs \subseteq (DOMAIN ps) \X (DOMAIN ps)
    BY <1>1
  <2> QED BY <2>3, <2>4, FS_Subset
<1>3. ASSUME NEW x \in pairs
      PROVE  x[1] \in DOMAIN ps /\ x[2] \in DOMAIN ps /\ Pieced(ps, x) \in Meeting(ToSet(ps))
  <2>1. x[1] \in DOMAIN ps /\ x[2] \in DOMAIN ps /\ Preys(ps[x[1]], ps[x[2]])
    BY <1>1
  <2> QED BY <2>1, ApartDistinct DEF Meeting, Pieced
<1>4. ASSUME NEW x \in pairs, NEW y \in pairs, Pieced(ps, x) = Pieced(ps, y) PROVE x = y
  <2>1. ps[x[1]] = ps[y[1]] /\ ps[x[2]] = ps[y[2]]
    BY <1>4 DEF Pieced
  <2>2. x[1] = y[1] /\ x[2] = y[2]
    BY <1>3, <2>1, ApartDistinct
  <2>3. x = <<x[1], x[2]>> /\ y = <<y[1], y[2]>>
    BY <1>1
  <2> QED BY <2>2, <2>3
<1>5. ASSUME NEW r \in Meeting(ToSet(ps)) PROVE \E x \in pairs : Pieced(ps, x) = r
  <2>1. r[1] \in ToSet(ps) /\ r[2] \in ToSet(ps) /\ Preys(r[1], r[2]) /\ r = <<r[1], r[2]>>
    BY DEF Meeting
  <2>2. PICK i \in DOMAIN ps : ps[i] = r[1]
    BY <2>1, ApartDistinct
  <2>3. PICK j \in DOMAIN ps : ps[j] = r[2]
    BY <2>1, ApartDistinct
  <2>4. <<i, j>> \in pairs
    BY <1>1, <2>1, <2>2, <2>3
  <2>5. Pieced(ps, <<i, j>>) = r
    BY <2>1, <2>2, <2>3 DEF Pieced
  <2> QED BY <2>4, <2>5
<1> QED BY <1>2, <1>3, <1>4, <1>5 DEF pairs

\* As many pairs precede one in either order.
LEMMA PairRank ==
  ASSUME RadiiAreLengths, NEW ps, Apart(ps), NEW x \in AbsorptionPairs(ps)
  PROVE  Cardinality({y \in AbsorptionPairs(ps) : PairBefore(ps, y, x)})
           = Rank(Meeting(ToSet(ps)), Order(ToSet(ps)), Pieced(ps, x))
<1> DEFINE pairs == AbsorptionPairs(ps)
           R == Meeting(ToSet(ps))
           S == {y \in pairs : PairBefore(ps, y, x)}
           T == Below(R, Order(ToSet(ps)), Pieced(ps, x))
           f == [y \in S |-> Pieced(ps, y)]
<1>1. /\ IsFiniteSet(pairs) /\ x \in pairs
      /\ \A y \in pairs : y[1] \in DOMAIN ps /\ y[2] \in DOMAIN ps /\ Pieced(ps, y) \in R
      /\ \A y, z \in pairs : Pieced(ps, y) = Pieced(ps, z) => y = z
      /\ \A r \in R : \E y \in pairs : Pieced(ps, y) = r
  BY PairsPieced
<1> HIDE DEF pairs
<1>2. \A y \in pairs : PairBefore(ps, y, x) <=> Earlier(Pieced(ps, y), Pieced(ps, x))
  <2> TAKE y \in pairs
  <2>1. /\ Pieced(ps, y)[1] = ps[y[1]] /\ Pieced(ps, y)[2] = ps[y[2]]
        /\ Pieced(ps, x)[1] = ps[x[1]] /\ Pieced(ps, x)[2] = ps[x[2]]
    BY DEF Pieced
  <2>2. ps[y[1]] = ps[x[1]] <=> y[1] = x[1]
    BY <1>1, ApartDistinct
  <2> QED BY <2>1, <2>2 DEF PairBefore, Earlier
<1>3. \A r : r \in T <=> r \in R /\ Earlier(r, Pieced(ps, x))
  BY <1>1 DEF Below, Order
<1> HIDE DEF R, T
<1>4. IsFiniteSet(S)
  BY <1>1, FS_Subset
<1>5. f \in [S -> T]
  BY <1>1, <1>2, <1>3
<1>6. \A y \in S : f[y] = Pieced(ps, y) /\ y \in pairs
  OBVIOUS
<1>7. \A r \in T : \E y \in S : Pieced(ps, y) = r
  BY <1>1, <1>2, <1>3
<1> HIDE DEF f, S
<1>8. /\ \A y, z \in S : f[y] = f[z] => y = z
      /\ \A r \in T : \E y \in S : f[y] = r
  BY <1>1, <1>6, <1>7
<1>9. Cardinality(T) = Cardinality(S)
  BY <1>4, <1>5, <1>8, ImageSize
<1> QED BY <1>9 DEF Rank, S, T, R, pairs

\* The n-th candidate is the pair with n - 1 pairs before it.
CandidatesAs(ps, cs) ==
  LET R == Meeting(ToSet(ps))
  IN  /\ IsFiniteSet(R) /\ Len(cs) = Cardinality(R) /\ Len(cs) \in Nat
      /\ \A n \in Nat : n + 1 <= Len(cs) =>
           /\ cs[n + 1] \in AbsorptionPairs(ps)
           /\ Rank(R, Order(ToSet(ps)), Pieced(ps, cs[n + 1])) = n

\* The candidates are sorted so.
LEMMA CandidatesAre ==
  ASSUME RadiiAreLengths, NEW ps, Apart(ps)
  PROVE  CandidatesAs(ps, AbsorptionCandidates(ps))
<1> DEFINE pairs == AbsorptionPairs(ps)
           R == Meeting(ToSet(ps))
           lt == Order(ToSet(ps))
           N == Cardinality(pairs)
           before(x) == Cardinality({y \in pairs : PairBefore(ps, y, x)})
           c(n) == CHOOSE x \in pairs : before(x) = n - 1
           cs == AbsorptionCandidates(ps)
           f == [y \in pairs |-> Pieced(ps, y)]
<1>1. /\ IsFiniteSet(pairs)
      /\ \A y \in pairs : Pieced(ps, y) \in R
      /\ \A y, z \in pairs : Pieced(ps, y) = Pieced(ps, z) => y = z
      /\ \A r \in R : \E y \in pairs : Pieced(ps, y) = r
  BY PairsPieced
<1>2. cs = [n \in 1 .. N |-> c(n)]
  BY DEF AbsorptionCandidates
<1>3. \A x \in pairs : before(x) = Rank(R, lt, Pieced(ps, x))
  BY PairRank
<1>4. Ordered(R, lt)
  BY ApartDistinct, MeetingOrdered
<1> HIDE DEF pairs, R, lt, before
<1>5. IsFiniteSet(R) /\ Cardinality(R) = N
  <2>1. f \in [pairs -> R] /\ \A y \in pairs : f[y] = Pieced(ps, y)
    BY <1>1
  <2> HIDE DEF f
  <2>2. /\ \A y, z \in pairs : f[y] = f[z] => y = z
        /\ \A r \in R : \E y \in pairs : f[y] = r
    BY <1>1, <2>1
  <2> QED BY <1>1, <2>1, <2>2, ImageSize
<1>6. N \in Nat
  BY <1>1, FS_CardinalityType
<1> HIDE DEF N, cs
<1>7. Len(cs) = N
  BY <1>2, <1>6
<1>8. ASSUME NEW n \in Nat, n + 1 <= N
      PROVE  cs[n + 1] \in pairs /\ Rank(R, lt, Pieced(ps, cs[n + 1])) = n
  <2>1. n < Cardinality(R)
    BY <1>5, <1>6, <1>8
  <2>2. PICK r \in R : Rank(R, lt, r) = n
    BY <1>4, <1>5, <2>1, RankTaken
  <2>3. PICK x \in pairs : Pieced(ps, x) = r
    BY <1>1
  <2>4. (n + 1) - 1 = n /\ n + 1 \in 1 .. N
    BY <1>6, <1>8
  <2>5. before(x) = (n + 1) - 1
    BY <1>3, <2>2, <2>3, <2>4
  <2>6. c(n + 1) \in pairs /\ before(c(n + 1)) = (n + 1) - 1
    BY <2>5
  <2>7. cs[n + 1] = c(n + 1)
    BY <1>2, <2>4
  <2> HIDE DEF c
  <2> QED BY <1>3, <2>4, <2>6, <2>7
<1> QED BY <1>5, <1>6, <1>7, <1>8 DEF CandidatesAs, pairs, R, lt, cs

\* Both arrays have the same candidates.
LEMMA SameCandidates ==
  ASSUME RadiiAreLengths, NEW ps, Apart(ps), NEW qs, Apart(qs), ToSet(qs) = ToSet(ps),
         NEW cs, CandidatesAs(ps, cs), NEW ds, CandidatesAs(qs, ds)
  PROVE  /\ Len(ds) = Len(cs)
         /\ \A n \in Nat : n + 1 <= Len(cs) =>
              /\ cs[n + 1] \in AbsorptionPairs(ps) /\ ds[n + 1] \in AbsorptionPairs(qs)
              /\ Pieced(qs, ds[n + 1]) = Pieced(ps, cs[n + 1])
<1> DEFINE R == Meeting(ToSet(ps))
           lt == Order(ToSet(ps))
<1>1. Ordered(R, lt)
  BY ApartDistinct, MeetingOrdered
<1>2. /\ IsFiniteSet(R) /\ Len(cs) = Cardinality(R) /\ Len(ds) = Cardinality(R)
      /\ \A n \in Nat : n + 1 <= Len(cs) =>
           /\ cs[n + 1] \in AbsorptionPairs(ps)
           /\ Rank(R, lt, Pieced(ps, cs[n + 1])) = n
      /\ \A n \in Nat : n + 1 <= Len(ds) =>
           /\ ds[n + 1] \in AbsorptionPairs(qs)
           /\ Rank(R, lt, Pieced(qs, ds[n + 1])) = n
  BY DEF CandidatesAs
<1>3. /\ \A x \in AbsorptionPairs(ps) : Pieced(ps, x) \in R
      /\ \A x \in AbsorptionPairs(qs) : Pieced(qs, x) \in R
  BY PairsPieced
<1> HIDE DEF R, lt
<1>4. ASSUME NEW n \in Nat, n + 1 <= Len(cs) PROVE Pieced(qs, ds[n + 1]) = Pieced(ps, cs[n + 1])
  <2> DEFINE r == Pieced(ps, cs[n + 1])  o == Pieced(qs, ds[n + 1])
  <2>1. /\ r \in R /\ Rank(R, lt, r) = n
        /\ o \in R /\ Rank(R, lt, o) = n
    BY <1>2, <1>3, <1>4
  <2> HIDE DEF r, o
  <2>2. o = r
    BY <1>1, <1>2, <2>1, RankApart
  <2> QED BY <2>2 DEF r, o
<1> QED BY <1>2, <1>4

\* The ids of the pieces at the places stay.
KeepsIds(s, t) ==
  /\ DOMAIN t.players = DOMAIN s.players
  /\ \A i \in DOMAIN s.players : t.players[i].id = s.players[i].id

\* All candidates are absorbed alike.
LEMMA SameAbsorptions ==
  ASSUME RadiiAreLengths, NEW w, Stored(w), NEW v, Stored(v),
         NEW s, NEW t, NEW eaten, Phase(w, s, eaten), Phase(v, t, eaten),
         s.live = DOMAIN s.players, t.live = DOMAIN t.players,
         SameState(s, t), NEW mechanics
  PROVE  SameState(Absorptions(s, mechanics), Absorptions(t, mechanics))
<1> DEFINE ps == s.players  qs == t.players
           cs == AbsorptionCandidates(ps)  ds == AbsorptionCandidates(qs)
<1>1. Working(s) /\ Working(t)
  BY PhaseWorks
<1>2. Apart(ps) /\ Apart(qs)
  BY <1>1 DEF Working, Apart
<1>3. ToSet(qs) = ToSet(ps)
  BY DEF SameState, Live, ToSet
<1>4. CandidatesAs(ps, cs) /\ CandidatesAs(qs, ds)
  BY <1>2, CandidatesAre
<1>5. Len(cs) \in Nat /\ Len(ds) \in Nat
  BY <1>4 DEF CandidatesAs
<1>6. cs = AbsorptionCandidates(s.players) /\ ds = AbsorptionCandidates(t.players)
  OBVIOUS
<1> HIDE DEF cs, ds
<1>7. PICK f : AbsorptionsSteps(s, mechanics, cs, f)
  BY <1>5, <1>6, AbsorptionsEquation
<1>8. PICK g : AbsorptionsSteps(t, mechanics, ds, g)
  BY <1>5, <1>6, AbsorptionsEquation
<1>9. /\ Len(ds) = Len(cs)
      /\ \A n \in Nat : n + 1 <= Len(cs) =>
           /\ cs[n + 1] \in AbsorptionPairs(ps) /\ ds[n + 1] \in AbsorptionPairs(qs)
           /\ Pieced(qs, ds[n + 1]) = Pieced(ps, cs[n + 1])
  BY <1>2, <1>3, <1>4, SameCandidates
<1> DEFINE Both(n) == Phase(w, f[n], eaten) /\ Phase(v, g[n], eaten) /\ SameState(f[n], g[n])
           I == {n \in Nat : n <= Len(cs) => Both(n)}
<1>10. 0 \in I
  BY <1>7, <1>8 DEF AbsorptionsSteps
<1>11. ASSUME NEW n \in Nat, n \in I PROVE n + 1 \in I
  <2> SUFFICES ASSUME n + 1 <= Len(cs) PROVE Both(n + 1)
    OBVIOUS
  <2> DEFINE a == f[n]  b == g[n]  x == cs[n + 1]  y == ds[n + 1]
  <2>1. Phase(w, a, eaten) /\ Phase(v, b, eaten) /\ SameState(a, b)
    BY <1>5, <1>11
  <2>2. f[n + 1] = Absorb(a, x) /\ g[n + 1] = Absorb(b, y)
    BY <1>7, <1>8, <1>9 DEF AbsorptionsSteps
  <2>3. /\ x \in AbsorptionPairs(ps) /\ y \in AbsorptionPairs(qs)
        /\ Pieced(qs, y) = Pieced(ps, x)
    BY <1>9
  <2> HIDE DEF a, b, x, y
  <2>4. Phase(w, Absorb(a, x), eaten) /\ Phase(v, Absorb(b, y), eaten)
    BY <2>1, AbsorbPhase
  <2>5. Working(a) /\ Working(b)
    BY <2>1, PhaseWorks
  <2>6. KeepsIds(s, a) /\ KeepsIds(t, b)
    BY <2>1 DEF Phase, Replaces, KeepsIds
  <2>7. /\ x[1] \in DOMAIN ps /\ x[2] \in DOMAIN ps /\ y[1] \in DOMAIN qs /\ y[2] \in DOMAIN qs
        /\ Preys(ps[x[1]], ps[x[2]]) /\ Preys(qs[y[1]], qs[y[2]])
    BY <1>2, <2>3, PairsAre
  <2>8. ps[x[1]] = qs[y[1]] /\ ps[x[2]] = qs[y[2]]
    BY <2>3 DEF Pieced
  <2>9. x[1] # x[2] /\ y[1] # y[2]
    BY <2>7 DEF Preys
  <2>10. /\ x[1] \in DOMAIN a.players /\ x[2] \in DOMAIN a.players
         /\ y[1] \in DOMAIN b.players /\ y[2] \in DOMAIN b.players
         /\ a.players[x[1]].id = b.players[y[1]].id /\ a.players[x[2]].id = b.players[y[2]].id
    BY <2>6, <2>7, <2>8 DEF KeepsIds
  <2>11. SameState(Absorb(a, x), Absorb(b, y))
    BY <2>1, <2>5, <2>9, <2>10, SameAbsorb
  <2> QED BY <2>2, <2>4, <2>11
<1>12. Both(Len(cs))
  <2>1. Len(cs) \in I
    <3> HIDE DEF I
    <3> QED BY <1>5, <1>10, <1>11, SetInduction
  <2> QED BY <1>5, <2>1
<1> QED BY <1>7, <1>8, <1>9, <1>12 DEF AbsorptionsSteps

-----------------------------------------------------------------------------
(* Movement and merges.                                                    *)

\* What movement makes of each piece.
LEMMA MovedIs ==
  ASSUME NEW w, Sound(w), NEW mechanics
  PROVE  /\ DOMAIN Moved(w, mechanics) = DOMAIN w.players
         /\ \A i \in DOMAIN w.players :
              /\ Moved(w, mechanics)[i] = MovedPiece(w, mechanics, w.players[i])
              /\ w.players[i] \in ToSet(w.players)
         /\ \A p \in ToSet(w.players) : \E i \in DOMAIN w.players : w.players[i] = p
<1> DEFINE g(i) == MovedPiece(w, mechanics, w.players[i])
           T == {g(i) : i \in DOMAIN w.players}
           f == [i \in DOMAIN w.players |-> g(i)]
<1>1. /\ Len(w.players) \in Nat /\ DOMAIN w.players = 1 .. Len(w.players)
      /\ \A i \in DOMAIN w.players : w.players[i] \in ToSet(w.players)
  BY ElementsIn DEF Sound, Stored
<1>2. Moved(w, mechanics) = <<>> \o f
  BY DEF Moved
<1> HIDE DEF g
<1>3. f \in Seq(T) /\ DOMAIN f = DOMAIN w.players /\ \A i \in DOMAIN w.players : f[i] = g(i)
  BY <1>1
<1> HIDE DEF f, T
<1>4. <<>> \o f = f
  BY <1>3, ConcatEmptySeq
<1>5. \A p \in ToSet(w.players) : \E i \in DOMAIN w.players : w.players[i] = p
  BY DEF ToSet
<1> QED BY <1>1, <1>2, <1>3, <1>4, <1>5 DEF g

\* Pieces move alike.
LEMMA SameMovedPiece ==
  ASSUME NEW w, NEW v, SameWorld(w, v), NEW mechanics, NEW p
  PROVE  MovedPiece(v, mechanics, p) = MovedPiece(w, mechanics, p)
<1>1. /\ ToSet(v.players) = ToSet(w.players) /\ v.owners = w.owners /\ v.tick = w.tick
      /\ FindOwner(v, p.owner) = FindOwner(w, p.owner)
  BY SameFound DEF SameWorld
<1>2. TowardsCentroid(v, p) = TowardsCentroid(w, p)
  BY <1>1 DEF TowardsCentroid
<1> QED BY <1>1, <1>2 DEF MovedPiece

\* What the phases begin with.
MovedState(w, mechanics) ==
  [players |-> Moved(w, mechanics), live |-> DOMAIN w.players, events |-> w.journal,
   eaten |-> <<>>]

\* A piece would leave the grid.
Leaves(P) == \E p \in P : ~CanIndex(Bounds(p))

\* All pieces live after the move.
LEMMA MovedLive ==
  ASSUME NEW w, Sound(w), NEW mechanics
  PROVE  /\ Live(MovedState(w, mechanics))
              = {MovedPiece(w, mechanics, p) : p \in ToSet(w.players)}
         /\ (\E i \in DOMAIN w.players : ~CanIndex(Bounds(Moved(w, mechanics)[i])))
              <=> Leaves({MovedPiece(w, mechanics, p) : p \in ToSet(w.players)})
<1> DEFINE m(p) == MovedPiece(w, mechanics, p)
           M == Moved(w, mechanics)
<1>1. /\ \A i \in DOMAIN w.players : M[i] = m(w.players[i]) /\ w.players[i] \in ToSet(w.players)
      /\ \A p \in ToSet(w.players) : \E i \in DOMAIN w.players : w.players[i] = p
  BY MovedIs
<1> HIDE DEF m, M
<1>2. \A x : x \in {M[i] : i \in DOMAIN w.players} <=> x \in {m(p) : p \in ToSet(w.players)}
  BY <1>1
<1>3. {M[i] : i \in DOMAIN w.players} = {m(p) : p \in ToSet(w.players)}
  BY <1>2
<1>4. Live(MovedState(w, mechanics)) = {M[i] : i \in DOMAIN w.players}
  BY DEF Live, MovedState, M
<1>5. (\E i \in DOMAIN w.players : ~CanIndex(Bounds(M[i])))
        <=> Leaves({M[i] : i \in DOMAIN w.players})
  BY DEF Leaves
<1> QED BY <1>3, <1>4, <1>5 DEF m, M

\* All pieces move alike.
LEMMA SameMoved ==
  ASSUME NEW w, Sound(w), NEW v, Sound(v), SameTick(w, v), NEW mechanics
  PROVE  /\ SameState(MovedState(w, mechanics), MovedState(v, mechanics))
         /\ (\E i \in DOMAIN v.players : ~CanIndex(Bounds(Moved(v, mechanics)[i])))
              <=> (\E i \in DOMAIN w.players : ~CanIndex(Bounds(Moved(w, mechanics)[i])))
<1> DEFINE P == {MovedPiece(w, mechanics, p) : p \in ToSet(w.players)}
           Q == {MovedPiece(v, mechanics, p) : p \in ToSet(v.players)}
           a == MovedState(w, mechanics)  b == MovedState(v, mechanics)
<1>1. SameWorld(w, v) /\ ToSet(v.players) = ToSet(w.players) /\ v.journal = w.journal
  BY DEF SameTick, SameWorld
<1>2. P = Q
  BY <1>1, SameMovedPiece
<1>3. /\ Live(a) = P /\ Live(b) = Q
      /\ (\E i \in DOMAIN w.players : ~CanIndex(Bounds(Moved(w, mechanics)[i]))) <=> Leaves(P)
      /\ (\E i \in DOMAIN v.players : ~CanIndex(Bounds(Moved(v, mechanics)[i]))) <=> Leaves(Q)
  BY MovedLive
<1>4. a.events = w.journal /\ b.events = v.journal /\ a.eaten = <<>> /\ b.eaten = <<>>
  BY DEF MovedState
<1> HIDE DEF P, Q, a, b
<1>5. SameState(a, b)
  BY <1>1, <1>2, <1>3, <1>4 DEF SameState
<1> QED BY <1>2, <1>3, <1>5 DEF a, b

\* Arrays of the same pieces are equally long.
LEMMA SameLength ==
  ASSUME NEW ps, Apart(ps), NEW qs, Apart(qs), ToSet(qs) = ToSet(ps)
  PROVE  Len(qs) = Len(ps)
<1>1. ASSUME NEW s, Apart(s) PROVE Cardinality(ToSet(s)) = Len(s)
  <2>1. /\ Len(s) \in Nat /\ DOMAIN s = 1 .. Len(s) /\ s \in [1 .. Len(s) -> ToSet(s)]
    BY <1>1, ElementsIn DEF Apart, ToSet
  <2>2. IsFiniteSet(1 .. Len(s)) /\ Cardinality(1 .. Len(s)) = Len(s)
    BY <2>1, FS_Interval
  <2>3. /\ \A x, y \in 1 .. Len(s) : s[x] = s[y] => x = y
        /\ \A z \in ToSet(s) : \E x \in 1 .. Len(s) : s[x] = z
    BY <1>1, <2>1, ApartDistinct
  <2> QED BY <2>1, <2>2, <2>3, ImageSize
<1> QED BY <1>1

\* All merges are done alike.
LEMMA SameMerges ==
  ASSUME NEW w, Sound(w), NEW v, Sound(v), SameWorld(w, v),
         NEW s, NEW t, NEW eaten, Phase(w, s, eaten), Phase(v, t, eaten),
         SameState(s, t), NEW mechanics, NEW done
  PROVE  SameState(Merges(s, mechanics, done), Merges(t, mechanics, done))
<1> DEFINE size == Len(s.players)
<1>1. Stored(w) /\ Stored(v)
  BY DEF Sound
<1>2. size \in Nat /\ size = Len(t.players)
  <2>1. Apart(w.players) /\ Apart(v.players)
    BY <1>1, ArraysApart DEF Stored, Apart
  <2>2. Len(v.players) = Len(w.players)
    BY <2>1, SameLength DEF SameWorld
  <2>3. /\ s.players \in Seq(Pieces) /\ DOMAIN s.players = DOMAIN w.players
        /\ t.players \in Seq(Pieces) /\ DOMAIN t.players = DOMAIN v.players
    BY DEF Phase
  <2> QED BY <2>1, <2>2, <2>3, ElementsIn DEF Apart
<1>3. PICK f : MergesSteps(s, mechanics, done, size, f)
  BY <1>2, MergesEquation
<1> HIDE DEF size
<1>4. PICK g : MergesSteps(t, mechanics, done, size, g)
  BY <1>2, MergesEquation
<1> DEFINE Both(n) == Phase(w, f[n], eaten) /\ Phase(v, g[n], eaten) /\ SameState(f[n], g[n])
           I == {n \in Nat : n <= size => Both(n)}
<1>5. 0 \in I
  BY <1>3, <1>4 DEF MergesSteps
<1>6. ASSUME NEW n \in Nat, n \in I PROVE n + 1 \in I
  <2> SUFFICES ASSUME n + 1 <= size PROVE Both(n + 1)
    OBVIOUS
  <2> DEFINE a == f[n]  b == g[n]
  <2>1. Phase(w, a, eaten) /\ Phase(v, b, eaten) /\ SameState(a, b)
    BY <1>2, <1>6
  <2>2. f[n + 1] = MergeOnce(a, done) /\ g[n + 1] = MergeOnce(b, done)
    BY <1>3, <1>4 DEF MergesSteps
  <2> HIDE DEF a, b
  <2>3. Phase(w, MergeOnce(a, done), eaten) /\ Phase(v, MergeOnce(b, done), eaten)
    BY <2>1, MergePhase
  <2>4. Working(a) /\ Working(b)
    BY <1>1, <2>1, PhaseWorks
  <2>5. SameState(MergeOnce(a, done), MergeOnce(b, done))
    BY <2>1, <2>4, SameMergeOnce
  <2> QED BY <2>2, <2>3, <2>5
<1>7. Both(size)
  <2>1. size \in I
    <3> HIDE DEF I
    <3> QED BY <1>2, <1>5, <1>6, SetInduction
  <2> QED BY <1>2, <2>1
<1> QED BY <1>3, <1>4, <1>7 DEF MergesSteps

-----------------------------------------------------------------------------
(* Meals.                                                                  *)

\* The grids of two worlds have the same entries.
LEMMA SameGrids ==
  ASSUME NEW w, Stored(w), NEW v, Stored(v), SameWorld(w, v)
  PROVE  SameEntries(w.grid, v.grid)
<1> DEFINE P == ToSet(w.players)  F == ToSet(w.food)
<1>1. /\ DOMAIN w.grid.entries = IdsOf(P) \cup IdsOf(F)
      /\ DOMAIN v.grid.entries = IdsOf(P) \cup IdsOf(F)
  BY DEF SameWorld, Stored, Arrays
<1>2. /\ \A p \in P : w.grid.entries[p.id] = v.grid.entries[p.id]
      /\ \A f \in F : w.grid.entries[f.id] = v.grid.entries[f.id]
  BY DEF SameWorld, Stored
<1> HIDE DEF P, F
<1>3. \A id \in IdsOf(P) \cup IdsOf(F) : v.grid.entries[id] = w.grid.entries[id]
  BY <1>2 DEF IdsOf
<1> QED BY <1>1, <1>3 DEF SameEntries

\* A piece touches a food.
Reaches(w, p, id) ==
  /\ id \in ToSet(Query(w.grid, Bounds(p)))
  /\ CirclesOverlap(Bounds(p), FoodBounds(w.food[FindIndex(w, id)]))

\* It does so in both worlds.
LEMMA SameReach ==
  ASSUME RadiiAreLengths, NEW w, Stored(w), NEW v, Stored(v), SameWorld(w, v),
         NEW p \in Pieces, NEW id \in IdsOf(ToSet(w.food))
  PROVE  Reaches(v, p, id) <=> Reaches(w, p, id)
<1>1. Bounds(p).center \in Int /\ Bounds(p).radius \in Nat
  BY BoundsType
<1>2. GridSound(w.grid) /\ GridSound(v.grid) /\ SameEntries(w.grid, v.grid)
  BY SameGrids DEF Stored
<1> DEFINE c == Bounds(p)  g == w.grid  h == v.grid
<1>3. ToSet(Query(h, c)) = ToSet(Query(g, c))
  <2> HIDE DEF c, g, h
  <2> QED BY <1>1, <1>2, SameQuery DEF c, g, h
<1>4. v.food[FindIndex(v, id)] = w.food[FindIndex(w, id)]
  BY SameFood DEF SameWorld
<1> QED BY <1>3, <1>4 DEF Reaches

\* The food that is eaten.
Edible(w, L) == {id \in IdsOf(ToSet(w.food)) : \E p \in L : Reaches(w, p, id)}

\* Of the pieces that touch it, the one with the smallest id eats a food.
Eater(w, L, id, p) ==
  p \in L /\ Reaches(w, p, id) /\ \A q \in L : Reaches(w, q, id) => p.id <= q.id

\* The meetings are the food in order, each with the piece that eats it.
MeetingsAre(w, st, ms) ==
  LET order == Ascending(Edible(w, Live(st)))
  IN  /\ Len(ms) = Len(order) /\ Len(ms) \in Nat
      /\ \A n \in Nat : n + 1 <= Len(ms) =>
           /\ ms[n + 1].food = order[n + 1] /\ order[n + 1] \in Edible(w, Live(st))
           /\ ms[n + 1].player \in st.live
           /\ Eater(w, Live(st), order[n + 1], st.players[ms[n + 1].player])

\* The contacts of a tick come down to these.
LEMMA MeetingsFound ==
  ASSUME NEW w, Sound(w), NEW st, NEW eaten, Phase(w, st, eaten)
  PROVE  MeetingsAre(w, st, FoodMeetings(w, st))
<1> DEFINE ps == st.players
           near == [i \in st.live |-> ToSet(Query(w.grid, Bounds(ps[i])))]
           touching(id) == {i \in st.live :
                              /\ id \in near[i]
                              /\ CirclesOverlap(Bounds(ps[i]),
                                                FoodBounds(w.food[FindIndex(w, id)]))}
           S == {id \in DOMAIN w.locations : Located(w, id, "food") /\ touching(id) # {}}
           touched == Ascending(S)
           first(id) == CHOOSE i \in touching(id) : \A j \in touching(id) : ps[i].id <= ps[j].id
           meetings == FoodMeetings(w, st)
           E == Edible(w, Live(st))
<1>1. meetings = [n \in DOMAIN touched |-> [food |-> touched[n], player |-> first(touched[n])]]
  BY DEF FoodMeetings
<1>2. \A i \in st.live : ps[i].id \in Nat
  BY DEF Phase, Replaces, Pieces, Positive
<1>3. \A id : touching(id) = {i \in st.live : Reaches(w, ps[i], id)}
  BY DEF Reaches
<1>4. S = E
  <2>1. \A id : Located(w, id, "food") <=> id \in IdsOf(ToSet(w.food))
    BY LocatedIs DEF Sound
  <2>2. \A id : Located(w, id, "food") => id \in DOMAIN w.locations
    BY DEF Located
  <2>3. \A id : touching(id) # {} <=> \E p \in Live(st) : Reaches(w, p, id)
    BY <1>3 DEF Live
  <2> HIDE DEF touching
  <2>4. \A id : id \in S <=> id \in E
    BY <2>1, <2>2, <2>3 DEF Edible
  <2> QED BY <2>4
<1> HIDE DEF S, touching, ps, meetings
<1>5. /\ touched \in Seq(1 .. LastEntity) /\ ToSet(touched) = E \cap (1 .. LastEntity)
  BY <1>4, ConstantTypes, AscendingFacts
<1>6. touched = Ascending(E)
  BY <1>4
<1> HIDE DEF touched, E
<1>7. Len(touched) \in Nat /\ DOMAIN touched = 1 .. Len(touched)
  BY <1>5, LenProperties
<1>8. \A n \in DOMAIN touched : touched[n] \in E
  BY <1>5 DEF ToSet
<1>9. ASSUME NEW id \in E
      PROVE  /\ first(id) \in st.live
             /\ Eater(w, Live(st), id, ps[first(id)])
  <2> DEFINE T == touching(id)
             A == {ps[i].id : i \in T}
  <2>1. T # {} /\ T \subseteq st.live /\ T = {i \in st.live : Reaches(w, ps[i], id)}
    BY <1>3, <1>4 DEF S
  <2> HIDE DEF T
  <2>2. A \in SUBSET Nat /\ A # {}
    BY <1>2, <2>1
  <2>3. Min(A) \in A /\ \A x \in A : Min(A) <= x
    <3> HIDE DEF A
    <3> QED BY <2>2, NatMinIs
  <2>4. PICK i \in T : ps[i].id = Min(A)
    BY <2>3
  <2>5. \E k \in T : \A j \in T : ps[k].id <= ps[j].id
    BY <2>3, <2>4
  <2>6. first(id) = CHOOSE k \in T : \A j \in T : ps[k].id <= ps[j].id
    BY DEF T
  <2> HIDE DEF first
  <2>7. first(id) \in T /\ \A j \in T : ps[first(id)].id <= ps[j].id
    BY <2>5, <2>6
  <2>8. Eater(w, Live(st), id, ps[first(id)])
    <3>1. ASSUME NEW q \in Live(st), Reaches(w, q, id) PROVE ps[first(id)].id <= q.id
      <4>1. PICK j \in st.live : q = ps[j]
        BY DEF Live, ps
      <4> QED BY <2>1, <2>7, <3>1, <4>1
    <3> QED BY <2>1, <2>7, <3>1 DEF Eater, Live, ps
  <2> QED BY <2>1, <2>7, <2>8
<1> HIDE DEF first
<1>10. Len(meetings) = Len(touched)
  <2>1. meetings \in Seq({meetings[n] : n \in DOMAIN touched})
    BY <1>1, <1>7
  <2>2. DOMAIN meetings = DOMAIN touched
    BY <1>1
  <2> QED BY <1>7, <2>1, <2>2, LenProperties
<1>11. ASSUME NEW n \in Nat, n + 1 <= Len(meetings)
       PROVE  /\ meetings[n + 1].food = touched[n + 1] /\ touched[n + 1] \in E
              /\ meetings[n + 1].player = first(touched[n + 1])
  <2>1. n + 1 \in DOMAIN touched
    BY <1>7, <1>10, <1>11
  <2> QED BY <1>1, <1>8, <2>1
<1> QED BY <1>6, <1>7, <1>9, <1>10, <1>11 DEF MeetingsAre, E, ps, meetings

\* Both worlds serve the same food.
LEMMA SameEdible ==
  ASSUME RadiiAreLengths, NEW w, Stored(w), NEW v, Stored(v), SameWorld(w, v),
         NEW L, L \subseteq Pieces
  PROVE  Edible(v, L) = Edible(w, L)
<1>1. IdsOf(ToSet(v.food)) = IdsOf(ToSet(w.food))
  BY DEF SameWorld
<1>2. \A id \in IdsOf(ToSet(w.food)) : \A p \in L : Reaches(v, p, id) <=> Reaches(w, p, id)
  BY SameReach
<1> QED BY <1>1, <1>2 DEF Edible

\* ... to the same pieces.
LEMMA SameMeetings ==
  ASSUME RadiiAreLengths, NEW w, Stored(w), NEW v, Stored(v), SameWorld(w, v),
         NEW s, Working(s), NEW t, Working(t), SameState(s, t),
         NEW ms, MeetingsAre(w, s, ms), NEW ns, MeetingsAre(v, t, ns)
  PROVE  /\ Len(ns) = Len(ms) /\ Len(ms) \in Nat
         /\ \A n \in Nat : n + 1 <= Len(ms) =>
              /\ ms[n + 1].player \in s.live /\ ns[n + 1].player \in t.live
              /\ ns[n + 1].food = ms[n + 1].food
              /\ t.players[ns[n + 1].player].id = s.players[ms[n + 1].player].id
<1> DEFINE L == Live(s)
           E == Edible(w, L)
           order == Ascending(E)
<1>1. Live(t) = L
  BY DEF SameState
<1>2. L \subseteq Pieces
  BY ElementsIn DEF Working, Live
<1> HIDE DEF L
<1>3. Edible(v, L) = E
  BY <1>2, SameEdible
<1>4. /\ Len(ms) = Len(order) /\ Len(ns) = Len(order) /\ Len(ms) \in Nat
      /\ \A n \in Nat : n + 1 <= Len(ms) =>
           /\ ms[n + 1].food = order[n + 1] /\ ns[n + 1].food = order[n + 1]
           /\ order[n + 1] \in E
           /\ ms[n + 1].player \in s.live /\ ns[n + 1].player \in t.live
           /\ Eater(w, L, order[n + 1], s.players[ms[n + 1].player])
           /\ Eater(v, L, order[n + 1], t.players[ns[n + 1].player])
  BY <1>1, <1>3 DEF MeetingsAre, L
<1> HIDE DEF E, order
<1>5. ASSUME NEW id \in E, NEW p, Eater(w, L, id, p), NEW q, Eater(v, L, id, q)
      PROVE  q.id = p.id
  <2>1. id \in IdsOf(ToSet(w.food)) /\ p \in L /\ q \in L /\ p.id \in Int /\ q.id \in Int
    BY <1>2, <1>5 DEF E, Edible, Eater, Pieces, Positive
  <2>2. \A r \in L : Reaches(v, r, id) <=> Reaches(w, r, id)
    BY <1>2, <2>1, SameReach
  <2>3. p.id <= q.id /\ q.id <= p.id
    BY <1>5, <2>2 DEF Eater
  <2> QED BY <2>1, <2>3
<1> QED BY <1>4, <1>5

\* A meal ends nobody.
LEMMA EatKeeps ==
  ASSUME NEW st, Working(st), NEW meeting
  PROVE  Eat(st, meeting).live = st.live
BY DEF Working, Eat

\* All meals are taken alike.
LEMMA SameMeals ==
  ASSUME RadiiAreLengths, NEW w, Sound(w), NEW v, Sound(v), SameWorld(w, v),
         NEW s, NEW t, NEW eaten, Phase(w, s, eaten), Phase(v, t, eaten),
         SameState(s, t), NEW mechanics
  PROVE  SameState(Meals(w, s, mechanics), Meals(v, t, mechanics))
<1> DEFINE ms == FoodMeetings(w, s)  ns == FoodMeetings(v, t)
<1>1. Stored(w) /\ Stored(v)
  BY DEF Sound
<1>2. Working(s) /\ Working(t)
  BY <1>1, PhaseWorks
<1>3. MeetingsAre(w, s, ms) /\ MeetingsAre(v, t, ns)
  BY MeetingsFound
<1>4. ms = FoodMeetings(w, s) /\ ns = FoodMeetings(v, t)
  OBVIOUS
<1> HIDE DEF ms, ns
<1>5. /\ Len(ns) = Len(ms) /\ Len(ms) \in Nat
      /\ \A n \in Nat : n + 1 <= Len(ms) =>
           /\ ms[n + 1].player \in s.live /\ ns[n + 1].player \in t.live
           /\ ns[n + 1].food = ms[n + 1].food
           /\ t.players[ns[n + 1].player].id = s.players[ms[n + 1].player].id
  BY <1>1, <1>2, <1>3, SameMeetings
<1>6. PICK f : MealsSteps(w, s, mechanics, ms, f)
  BY <1>4, <1>5, MealsEquation
<1>7. PICK g : MealsSteps(v, t, mechanics, ns, g)
  BY <1>4, <1>5, MealsEquation
<1> DEFINE Serving(u, x, y) == (\E e : Phase(u, y, e)) /\ y.live = x.live
           Both(n) == Serving(w, s, f[n]) /\ Serving(v, t, g[n]) /\ SameState(f[n], g[n])
           I == {n \in Nat : n <= Len(ms) => Both(n)}
<1>8. 0 \in I
  BY <1>6, <1>7 DEF MealsSteps
<1>9. ASSUME NEW n \in Nat, n \in I PROVE n + 1 \in I
  <2> SUFFICES ASSUME n + 1 <= Len(ms) PROVE Both(n + 1)
    OBVIOUS
  <2> DEFINE a == f[n]  b == g[n]  x == ms[n + 1]  y == ns[n + 1]
  <2>1. Serving(w, s, a) /\ Serving(v, t, b) /\ SameState(a, b)
    BY <1>5, <1>9
  <2>2. f[n + 1] = Eat(a, x) /\ g[n + 1] = Eat(b, y)
    BY <1>5, <1>6, <1>7 DEF MealsSteps
  <2>3. /\ x.player \in s.live /\ y.player \in t.live /\ x.food = y.food
        /\ t.players[y.player].id = s.players[x.player].id
    BY <1>5
  <2> HIDE DEF a, b, x, y
  <2>4. PICK d : Phase(w, a, d)
    BY <2>1
  <2>5. PICK e : Phase(v, b, e)
    BY <2>1
  <2>6. Working(a) /\ Working(b)
    BY <1>1, <2>4, <2>5, PhaseWorks
  <2>7. KeepsIds(s, a) /\ KeepsIds(t, b)
    BY <2>4, <2>5 DEF Phase, Replaces, KeepsIds
  <2>8. x.player \in DOMAIN s.players /\ y.player \in DOMAIN t.players
    BY <1>2, <2>3 DEF Working
  <2>9. /\ x.player \in a.live /\ y.player \in b.live
        /\ a.players[x.player].id = b.players[y.player].id
    BY <2>1, <2>3, <2>7, <2>8 DEF KeepsIds
  <2>10. SameState(Eat(a, x), Eat(b, y))
    BY <2>1, <2>3, <2>6, <2>9, SameEat
  <2>11. x.player \in DOMAIN w.players /\ y.player \in DOMAIN v.players
    BY <2>8 DEF Phase
  <2>12. Phase(w, Eat(a, x), Append(d, x.food)) /\ Phase(v, Eat(b, y), Append(e, y.food))
    BY <2>4, <2>5, <2>11, EatPhase
  <2>13. Eat(a, x).live = s.live /\ Eat(b, y).live = t.live
    BY <2>1, <2>6, EatKeeps
  <2>14. Serving(w, s, Eat(a, x)) /\ Serving(v, t, Eat(b, y))
    BY <2>12, <2>13
  <2> HIDE DEF Serving
  <2> QED BY <2>2, <2>10, <2>14
<1>10. Both(Len(ms))
  <2>1. Len(ms) \in I
    <3> HIDE DEF I
    <3> QED BY <1>5, <1>8, <1>9, SetInduction
  <2> QED BY <1>5, <2>1
<1> QED BY <1>5, <1>6, <1>7, <1>10 DEF MealsSteps

\* A tick comes out alike.
LEMMA SameResolved ==
  ASSUME RadiiAreLengths, NEW w, Sound(w), NEW v, Sound(v), SameTick(w, v), NEW mechanics
  PROVE  SameState(Resolved(w, mechanics), Resolved(v, mechanics))
<1> DEFINE s == MovedState(w, mechanics)  t == MovedState(v, mechanics)
           a == Absorptions(s, mechanics)  b == Absorptions(t, mechanics)
           m == Merges(a, mechanics, w.tick + 1)  n == Merges(b, mechanics, w.tick + 1)
           none == <<>>
<1>1. Stored(w) /\ Stored(v) /\ SameWorld(w, v) /\ v.tick = w.tick
  BY DEF Sound, SameTick, SameWorld
<1>2. Phase(w, s, <<>>) /\ Phase(v, t, <<>>) /\ SameState(s, t)
  BY MovedPhase, SameMoved DEF MovedState
<1>3. s.live = DOMAIN w.players /\ t.live = DOMAIN v.players
  BY DEF MovedState
<1>4. /\ Resolved(w, mechanics) = Meals(w, m, mechanics)
      /\ Resolved(v, mechanics) = Meals(v, n, mechanics)
  BY <1>1 DEF Resolved, MovedState
<1> HIDE DEF s, t
<1>5. s.live = DOMAIN s.players /\ t.live = DOMAIN t.players
  BY <1>2, <1>3 DEF Phase
<1>6. Phase(w, a, <<>>) /\ Phase(v, b, <<>>) /\ SameState(a, b)
  BY <1>1, <1>2, <1>5, AbsorptionsPhase, SameAbsorptions
<1> HIDE DEF a, b
<1>7. Phase(w, m, <<>>) /\ Phase(v, n, <<>>) /\ SameState(m, n)
  BY <1>1, <1>6, MergesPhase, SameMerges
<1> HIDE DEF m, n
<1> QED BY <1>1, <1>4, <1>7, SameMeals

-----------------------------------------------------------------------------
(* The commit.                                                             *)

\* The owners' states follow from those of the tick before and the pieces.
LEMMA OwnersAgree ==
  ASSUME NEW P, NEW x \in Seq(OwnerStates), NEW y \in Seq(OwnerStates),
         OwnersSound(P, x, {}), OwnersSound(P, y, {}),
         NEW base \in Seq(OwnerStates), OwnersSorted(base),
         StatesKept(base, x), StatesKept(base, y)
  PROVE  y = x
<1> DEFINE A == [i \in DOMAIN x |-> x[i].owner]
           B == [i \in DOMAIN y |-> y[i].owner]
<1>1. /\ Len(x) \in Nat /\ DOMAIN x = 1 .. Len(x)
      /\ \A i \in DOMAIN x : x[i] \in OwnerStates /\ x[i] \in ToSet(x)
      /\ Len(y) \in Nat /\ DOMAIN y = 1 .. Len(y)
      /\ \A i \in DOMAIN y : y[i] \in OwnerStates /\ y[i] \in ToSet(y)
      /\ \A i \in DOMAIN base : base[i] \in OwnerStates
  BY ElementsIn
<1>2. \A s \in OwnerStates : s.owner \in Int /\ s.pieces \in Seq(Int)
  BY DEF OwnerStates, Positive
<1>3. A \in Seq(Int) /\ B \in Seq(Int) /\ Len(A) = Len(x) /\ Len(B) = Len(y)
  BY <1>1, <1>2
<1>4. Increasing(A) /\ Increasing(B)
  BY DEF OwnersSound, OwnersSorted, Increasing
<1>5. ToSet(A) = ToSet(B)
  <2>1. /\ ToSet(A) = {x[i].owner : i \in DOMAIN x}
        /\ ToSet(B) = {y[i].owner : i \in DOMAIN y}
    BY DEF ToSet
  <2> QED BY <2>1 DEF OwnersSound
<1>6. A = B
  <2> HIDE DEF A, B
  <2> QED BY <1>3, <1>4, <1>5, IncreasingUnique
<1>7. Len(y) = Len(x)
  BY <1>3, <1>6
<1>8. ASSUME NEW i \in 1 .. Len(x) PROVE y[i] = x[i]
  <2> DEFINE s == x[i]  t == y[i]
  <2>1. i \in DOMAIN x /\ i \in DOMAIN y
    BY <1>1, <1>7
  <2>2. t.owner = s.owner
    <3>1. A[i] = s.owner /\ B[i] = t.owner
      BY <2>1
    <3> HIDE DEF A, B
    <3> QED BY <1>6, <3>1
  <2>3. /\ s \in OwnerStates /\ t \in OwnerStates /\ s \in ToSet(x) /\ t \in ToSet(y)
        /\ Increasing(s.pieces) /\ Increasing(t.pieces)
        /\ ToSet(s.pieces) = Listed(P, s.owner) /\ ToSet(t.pieces) = Listed(P, t.owner)
    BY <1>1, <2>1 DEF OwnersSound
  <2> HIDE DEF s, t
  <2>4. t.pieces = s.pieces
    BY <1>2, <2>2, <2>3, IncreasingUnique
  <2>5. PICK a \in ToSet(base) :
          /\ a.owner = s.owner /\ a.lastInput = s.lastInput /\ a.move = s.move
          /\ a.lastMove = s.lastMove /\ a.cooldown = s.cooldown
    BY <2>3 DEF StatesKept
  <2>6. PICK b \in ToSet(base) :
          /\ b.owner = t.owner /\ b.lastInput = t.lastInput /\ b.move = t.move
          /\ b.lastMove = t.lastMove /\ b.cooldown = t.cooldown
    BY <2>3 DEF StatesKept
  <2>7. b = a
    <3>1. PICK j \in DOMAIN base : a = base[j]
      BY <2>5 DEF ToSet
    <3>2. PICK k \in DOMAIN base : b = base[k]
      BY <2>6 DEF ToSet
    <3>3. base[j].owner = base[k].owner
      BY <2>2, <2>5, <2>6, <3>1, <3>2
    <3>4. j = k
      BY <3>3, OwnersApart
    <3> QED BY <3>1, <3>2, <3>4
  <2>8. t = s
    <3>1. \A c \in OwnerStates :
            c = [owner |-> c.owner, pieces |-> c.pieces, move |-> c.move,
                 lastMove |-> c.lastMove, lastInput |-> c.lastInput, cooldown |-> c.cooldown]
      BY DEF OwnerStates
    <3>2. /\ t.owner = s.owner /\ t.pieces = s.pieces /\ t.move = s.move
          /\ t.lastMove = s.lastMove /\ t.lastInput = s.lastInput /\ t.cooldown = s.cooldown
      BY <2>2, <2>4, <2>5, <2>6, <2>7
    <3>3. t \in OwnerStates /\ s \in OwnerStates
      BY <2>3
    <3>4. /\ s = [owner |-> s.owner, pieces |-> s.pieces, move |-> s.move,
                  lastMove |-> s.lastMove, lastInput |-> s.lastInput, cooldown |-> s.cooldown]
          /\ t = [owner |-> t.owner, pieces |-> t.pieces, move |-> t.move,
                  lastMove |-> t.lastMove, lastInput |-> t.lastInput, cooldown |-> t.cooldown]
      BY ONLY <3>1, <3>3
    <3> QED BY ONLY <3>2, <3>4
  <2> QED BY <2>8 DEF s, t
<1> HIDE DEF A, B
<1> QED BY <1>1, <1>7, <1>8, SeqEqual

\* What a commit leaves of the pieces and the food.
LEMMA CommittedLive ==
  ASSUME NEW w, NEW st, NEW v, CommittedFrom(w, st, v)
  PROVE  ToSet(v.players) = Live(st)
BY DEF CommittedFrom, Live

\* Both worlds commit alike.
LEMMA SameCommit ==
  ASSUME NEW w, Sound(w), NEW v, Sound(v), SameWorld(w, v),
         NEW s, NEW t, SameState(s, t),
         NEW x, Sound(x), CommittedFrom(w, s, x), NEW y, Sound(y), CommittedFrom(v, t, y)
  PROVE  SameTick(x, y)
<1>1. ToSet(y.players) = ToSet(x.players)
  BY CommittedLive DEF SameState
<1>2. ToSet(y.food) = ToSet(x.food)
  <2> DEFINE F == ToSet(w.food)  X == ToSet(x.food)  Y == ToSet(y.food)
  <2>1. X \subseteq F /\ Y \subseteq F /\ IdsOf(X) = IdsOf(Y)
    BY DEF CommittedFrom, SameWorld, SameState
  <2>2. \A e, f \in F : e.id = f.id => e = f
    <3>1. Arrays(w.food, "food", w.players, "player", w.locations)
      BY ArraysSwap DEF Sound, Stored
    <3> QED BY <3>1, ArraysApart
  <2> HIDE DEF F, X, Y
  <2>3. \A e : e \in Y <=> e \in X
    <3>1. ASSUME NEW e \in Y PROVE e \in X
      <4>1. PICK f \in X : f.id = e.id
        BY <2>1 DEF IdsOf
      <4> QED BY <2>1, <2>2, <4>1
    <3>2. ASSUME NEW e \in X PROVE e \in Y
      <4>1. PICK f \in Y : f.id = e.id
        BY <2>1 DEF IdsOf
      <4> QED BY <2>1, <2>2, <4>1
    <3> QED BY <3>1, <3>2
  <2> QED BY <2>3 DEF X, Y
<1>3. y.owners = x.owners
  <2>1. /\ x.owners \in Seq(OwnerStates) /\ OwnersSound(ToSet(x.players), x.owners, {})
        /\ y.owners \in Seq(OwnerStates) /\ OwnersSound(ToSet(y.players), y.owners, {})
        /\ w.owners \in Seq(OwnerStates) /\ OwnersSorted(w.owners)
    BY DEF Sound, Numbered, OwnersSound
  <2>2. StatesKept(w.owners, x.owners) /\ StatesKept(w.owners, y.owners)
    BY DEF CommittedFrom, SameWorld
  <2> QED BY <1>1, <2>1, <2>2, OwnersAgree
<1>4. y.next = x.next /\ y.tick = x.tick /\ y.journal = x.journal
  BY DEF CommittedFrom, SameWorld, SameState
<1> QED BY <1>1, <1>2, <1>3, <1>4 DEF SameTick, SameWorld

\* Both worlds advance alike.
LEMMA SameAdvanced ==
  ASSUME RadiiAreLengths, NEW w, Sound(w), NEW v, Sound(v), SameWorld(w, v),
         NEW cmds, Len(cmds) \in Nat, DOMAIN cmds = 1 .. Len(cmds),
         \A i \in DOMAIN cmds : IsCommand(cmds[i]), NEW mechanics
  PROVE  /\ SameWorld(Advanced(w, cmds, mechanics), Advanced(v, cmds, mechanics))
         /\ Advanced(w, cmds, mechanics).tick # w.tick =>
              Advanced(v, cmds, mechanics).journal = Advanced(w, cmds, mechanics).journal
<1> DEFINE ready(u) == [ApplyCommands(u, cmds) EXCEPT !.journal = <<>>]
           requests == SplitRequests(w, cmds)
           split(u) == Splits(ready(u), requests, mechanics)
           refused == ~CommandsValid(w, cmds) \/ w.tick = LastTick
           x == split(w)  y == split(v)
           s == Resolved(x, mechanics)  t == Resolved(y, mechanics)
<1>1. /\ SameTick(ready(w), ready(v)) /\ SplitRequests(v, cmds) = requests
      /\ CommandsValid(v, cmds) <=> CommandsValid(w, cmds)
  BY SameCommands
<1>2. v.tick = w.tick
  BY DEF SameWorld
<1>3. /\ Advanced(w, cmds, mechanics) = IF refused THEN w ELSE Ended(w, x, s, mechanics)
      /\ Advanced(v, cmds, mechanics) = IF refused THEN v ELSE Ended(v, y, t, mechanics)
  BY <1>1, <1>2 DEF Advanced
<1>4. /\ Len(requests) \in Nat /\ DOMAIN requests = 1 .. Len(requests)
      /\ \A n \in DOMAIN requests :
           /\ IsCommand(requests[n])
           /\ \E k \in DOMAIN w.owners : w.owners[k].owner = requests[n].owner
  BY SplitRequestsType
<1> HIDE DEF requests
<1>5. ASSUME NEW u, Sound(u), u.owners = w.owners
      PROVE  /\ Sound(ready(u)) /\ Sound(split(u)) /\ split(u).tick = u.tick
             /\ \A n \in DOMAIN requests :
                  \E k \in DOMAIN ready(u).owners : ready(u).owners[k].owner = requests[n].owner
  <2> DEFINE applied == ApplyCommands(u, cmds)
  <2>1. Sound(applied) /\ SameOwners(u, applied) /\ applied.tick = u.tick
    BY <1>5, ApplyCommandsSound
  <2> HIDE DEF applied
  <2>2. Sound([applied EXCEPT !.journal = <<>>])
    BY <2>1, JournalChanged
  <2>3. ready(u) = [applied EXCEPT !.journal = <<>>]
    BY DEF applied
  <2> HIDE DEF ready
  <2>4. ready(u).owners = applied.owners /\ ready(u).tick = applied.tick
    BY <2>1, <2>3 DEF Sound, Stored, WorldFields
  <2>5. \A n \in DOMAIN requests :
          \E k \in DOMAIN ready(u).owners : ready(u).owners[k].owner = requests[n].owner
    BY <1>4, <1>5, <2>1, <2>4 DEF SameOwners
  <2>6. SplitStep(ready(u), split(u))
    BY <1>4, <2>2, <2>3, <2>5, SplitsSound
  <2> HIDE DEF split
  <2> QED BY <2>1, <2>2, <2>3, <2>4, <2>5, <2>6 DEF SplitStep
<1>6. SameTick(x, y)
  <2>1. /\ Sound(ready(w)) /\ Sound(ready(v))
        /\ \A n \in DOMAIN requests :
             \E k \in DOMAIN ready(w).owners : ready(w).owners[k].owner = requests[n].owner
    BY <1>5 DEF SameWorld
  <2> HIDE DEF ready
  <2> QED BY <1>1, <1>4, <2>1, SameSplits
<1>7. Sound(x) /\ Sound(y) /\ x.tick = w.tick /\ y.tick = w.tick
  BY <1>2, <1>5 DEF SameWorld
<1> HIDE DEF ready, split, refused, x, y
<1>8. SameState(s, t) /\ Fed(x, s) /\ Fed(y, t)
  BY <1>6, <1>7, SameResolved, ResolvedFed
<1> DEFINE outside(u) == \E i \in DOMAIN u.players : ~CanIndex(Bounds(Moved(u, mechanics)[i]))
<1>9. outside(y) <=> outside(x)
  BY <1>6, <1>7, SameMoved
<1>10. (\E i \in s.live : ~CanIndex(Bounds(s.players[i])))
         <=> (\E i \in t.live : ~CanIndex(Bounds(t.players[i])))
  <2>1. (\E i \in s.live : ~CanIndex(Bounds(s.players[i]))) <=> Leaves(Live(s))
    BY DEF Leaves, Live
  <2>2. (\E i \in t.live : ~CanIndex(Bounds(t.players[i]))) <=> Leaves(Live(t))
    BY DEF Leaves, Live
  <2> QED BY <1>8, <2>1, <2>2 DEF SameState
<1> HIDE DEF s, t
<1> DEFINE stays == outside(x) \/ \E i \in s.live : ~CanIndex(Bounds(s.players[i]))
<1>11. /\ Ended(w, x, s, mechanics) = IF stays THEN w ELSE Committed(x, s)
       /\ Ended(v, y, t, mechanics) = IF stays THEN v ELSE Committed(y, t)
  BY <1>9, <1>10 DEF Ended
<1> HIDE DEF stays, outside
<1>12. CASE refused \/ stays
  BY <1>3, <1>11, <1>12
<1>13. CASE ~refused /\ ~stays
  <2>1. x.tick # LastTick /\ y.tick # LastTick
    BY <1>7, <1>13 DEF refused
  <2>2. /\ Sound(Committed(x, s)) /\ CommittedFrom(x, s, Committed(x, s))
        /\ Sound(Committed(y, t)) /\ CommittedFrom(y, t, Committed(y, t))
    BY <1>7, <1>8, <2>1, CommittedSound
  <2>3. SameTick(Committed(x, s), Committed(y, t))
    BY <1>6, <1>7, <1>8, <2>2, SameCommit DEF SameTick
  <2> QED BY <1>3, <1>11, <1>13, <2>3 DEF SameTick
<1> QED BY <1>12, <1>13

-----------------------------------------------------------------------------
(* Prediction replays what the server does.                                *)

\* What a checkpoint leaves out of a piece is restored.
LEMMA RestoredPieceIs ==
  ASSUME NEW p \in Pieces, p.radius = RadiusForMass(p.mass)
  PROVE  RestoredPiece(PlayerState(p)) = p
<1>1. p = [id |-> p.id, owner |-> p.owner, pos |-> p.pos, mass |-> p.mass, radius |-> p.radius,
           launch |-> p.launch, eligible |-> p.eligible, key |-> p.key]
  BY DEF Pieces
<1>2. RestoredPiece(PlayerState(p)) =
        [id |-> p.id, owner |-> p.owner, pos |-> p.pos, mass |-> p.mass,
         radius |-> RadiusForMass(p.mass), launch |-> p.launch, eligible |-> p.eligible,
         key |-> p.key]
  BY DEF RestoredPiece, PlayerState, Piece
<1> QED BY <1>1, <1>2

\* The world a client restores is the server's.
LEMMA RestoredSame ==
  ASSUME NEW w, Sound(w), NEW s, s = SnapshotOf(Checkpoint(w)), HydrationError(s) = "none"
  PROVE  SameWorld(w, Restored(Hydrated(s)))
<1> DEFINE cp == Checkpoint(w)  h == Hydrated(s)  v == Restored(h)
<1>1. HydratedAs(cp, h)
  BY HydratedAccepted
<1>2. CheckpointOf(w, cp)
  BY CheckpointFacts
<1> HIDE DEF cp, h
<1>3. RestoredFrom(h, v)
  BY <1>1, RestoredIs DEF HydratedAs
<1> HIDE DEF v
<1>4. \A p \in ToSet(w.players) : p \in Pieces /\ RestoredPiece(PlayerState(p)) = p
  <2>1. \A p \in ToSet(w.players) : p \in Pieces /\ p.radius = RadiusForMass(p.mass)
    BY ElementsIn DEF Sound, Stored
  <2> QED BY <2>1, RestoredPieceIs
<1>5. ToSet(v.players) = ToSet(w.players)
  <2>1. /\ DOMAIN v.players = DOMAIN cp.players
        /\ \A i \in DOMAIN cp.players : v.players[i] = RestoredPiece(cp.players[i])
    BY <1>1, <1>3 DEF RestoredFrom, HydratedAs
  <2>2. \A e : e \in ToSet(cp.players) <=> \E p \in ToSet(w.players) : e = PlayerState(p)
    BY <1>2 DEF CheckpointOf
  <2>3. ASSUME NEW q \in ToSet(v.players) PROVE q \in ToSet(w.players)
    <3>1. PICK i \in DOMAIN cp.players : q = RestoredPiece(cp.players[i])
      BY <2>1 DEF ToSet
    <3>2. cp.players[i] \in ToSet(cp.players)
      BY DEF ToSet
    <3>3. PICK p \in ToSet(w.players) : cp.players[i] = PlayerState(p)
      BY <2>2, <3>2
    <3> QED BY <1>4, <3>1, <3>3
  <2>4. ASSUME NEW p \in ToSet(w.players) PROVE p \in ToSet(v.players)
    <3>1. PlayerState(p) \in ToSet(cp.players)
      BY <2>2
    <3>2. PICK i \in DOMAIN cp.players : cp.players[i] = PlayerState(p)
      BY <3>1 DEF ToSet
    <3>3. v.players[i] = p /\ i \in DOMAIN v.players
      BY <1>4, <2>1, <3>2
    <3> QED BY <3>3 DEF ToSet
  <2> QED BY <2>3, <2>4
<1>6. ToSet(v.food) = ToSet(w.food)
  <2>1. ToSet(v.food) = ToSet(cp.food)
    BY <1>1, <1>3 DEF RestoredFrom, HydratedAs, ToSet
  <2> QED BY <1>2, <2>1 DEF CheckpointOf
<1>7. v.owners = w.owners /\ v.next = w.next /\ v.tick = w.tick
  BY <1>1, <1>2, <1>3 DEF RestoredFrom, HydratedAs, CheckpointOf
<1> QED BY <1>5, <1>6, <1>7 DEF SameWorld, v, h

\* The invariant: a replica is the same world.
FollowInvariant ==
  WorldInvariant /\ (replica # NoWorld => SameWorld(world, replica[1]))

\* What a step may do to both worlds.
Follows ==
  replica # NoWorld /\ replica' # NoWorld =>
    /\ Checkpoint(replica'[1]) = Checkpoint(world')
    /\ world'.tick # world.tick => replica'[1].journal = world'.journal

\* The replica of an invariant state is a sound world.
LEMMA ReplicaSound ==
  ASSUME WorldInvariant, replica # NoWorld
  PROVE  /\ Sound(world) /\ Sound(replica[1]) /\ DOMAIN replica = 1 .. 1
         /\ replica = <<replica[1]>>
<1>1. PICK w : Sound(w) /\ replica = <<w>>
  BY DEF WorldInvariant
<1> QED BY <1>1 DEF WorldInvariant

\* A tick of both.
LEMMA AdvanceStepFollows ==
  ASSUME RadiiAreLengths, FollowInvariant,
         NEW cmds, Len(cmds) \in Nat, DOMAIN cmds = 1 .. Len(cmds),
         \A i \in DOMAIN cmds : IsCommand(cmds[i]),
         NEW mechanics, Advance(cmds, mechanics)
  PROVE  (replica' # NoWorld => SameWorld(world', replica'[1])) /\ Follows
<1>1. /\ world' = Advanced(world, cmds, mechanics)
      /\ replica' = [i \in DOMAIN replica |-> Advanced(replica[i], cmds, mechanics)]
  BY DEF Advance
<1>2. CASE replica = NoWorld
  <2>1. replica' = NoWorld
    BY <1>1, <1>2 DEF NoWorld
  <2> QED BY <2>1 DEF Follows
<1>3. CASE replica # NoWorld
  <2> DEFINE v == replica[1]
             x == Advanced(world, cmds, mechanics)  y == Advanced(v, cmds, mechanics)
  <2>1. Sound(world) /\ Sound(v) /\ SameWorld(world, v) /\ DOMAIN replica = 1 .. 1
    BY <1>3, ReplicaSound DEF FollowInvariant
  <2>2. replica'[1] = y /\ world' = x
    BY <1>1, <2>1
  <2> HIDE DEF v
  <2>3. SameWorld(x, y) /\ (x.tick # world.tick => y.journal = x.journal)
    BY <2>1, SameAdvanced
  <2>4. Sound(x) /\ Sound(y)
    BY <2>1, AdvancedSound
  <2> HIDE DEF x, y
  <2>5. Checkpoint(y) = Checkpoint(x)
    BY <2>3, <2>4, SameCheckpoint
  <2> QED BY <2>2, <2>3, <2>5 DEF Follows
<1> QED BY <1>2, <1>3

\* Every step keeps the replica the same world.
LEMMA FollowStep ==
  ASSUME RadiiAreLengths, FollowInvariant, [Next]_vars
  PROVE  (replica' # NoWorld => SameWorld(world', replica'[1])) /\ [Follows]_vars
<1> DEFINE Goal == (replica' # NoWorld => SameWorld(world', replica'[1])) /\ [Follows]_vars
<1>1. CASE UNCHANGED vars
  BY <1>1 DEF vars, FollowInvariant
<1>2. CASE Restore
  <2> DEFINE s == SnapshotOf(Checkpoint(world))
             w == Restored(Hydrated(s))
  <2>1. /\ Sound(world) /\ replica = NoWorld /\ HydrationError(s) = "none"
        /\ replica' = <<w>> /\ world' = world
    BY <1>2 DEF Restore, FollowInvariant, WorldInvariant
  <2>2. SameWorld(world, w)
    <3> HIDE DEF w
    <3> QED BY <2>1, RestoredSame DEF w
  <2> HIDE DEF w
  <2> QED BY <2>1, <2>2 DEF Follows
<1>3. CASE \/ \E at \in SpawnPoints : SpawnPlayer(at[1], at[2])
           \/ \E pos \in FoodPoints : SpawnFood(pos)
           \/ \E id \in DOMAIN world.locations : RemovePlayer(id) \/ RemoveFood(id)
  <2>1. replica' = NoWorld
    BY <1>3 DEF SpawnPlayer, SpawnFood, RemovePlayer, RemoveFood
  <2> QED BY <2>1 DEF Follows
<1>4. \A c \in Commands(world) : IsCommand(c)
  BY CommandsAre DEF FollowInvariant, WorldInvariant
<1>5. ASSUME NEW mechanics \in Mechanics, Advance(<<>>, mechanics) PROVE Goal
  <2>1. Len(<<>>) \in Nat /\ DOMAIN <<>> = 1 .. Len(<<>>) /\ DOMAIN <<>> = {}
    OBVIOUS
  <2> QED BY <1>5, <2>1, AdvanceStepFollows
<1>6. ASSUME NEW mechanics \in Mechanics, NEW c \in Commands(world), Advance(<<c>>, mechanics)
      PROVE  Goal
  <2> DEFINE cmds == <<c>>
  <2>1. /\ Len(cmds) \in Nat /\ DOMAIN cmds = 1 .. Len(cmds)
        /\ \A i \in DOMAIN cmds : cmds[i] = c
    OBVIOUS
  <2> HIDE DEF cmds
  <2> QED BY <1>4, <1>6, <2>1, AdvanceStepFollows DEF cmds
<1>7. ASSUME NEW mechanics \in Mechanics, NEW c \in Commands(world), NEW d \in Commands(world),
             Advance(<<c, d>>, mechanics)
      PROVE  Goal
  <2> DEFINE cmds == <<c, d>>
  <2>1. /\ Len(cmds) \in Nat /\ DOMAIN cmds = 1 .. Len(cmds)
        /\ \A i \in DOMAIN cmds : cmds[i] = c \/ cmds[i] = d
    OBVIOUS
  <2> HIDE DEF cmds
  <2> QED BY <1>4, <1>7, <2>1, AdvanceStepFollows DEF cmds
<1> HIDE DEF Goal
<1>8. Goal
  BY <1>1, <1>2, <1>3, <1>5, <1>6, <1>7 DEF Next, Goal
<1> QED BY <1>8 DEF Goal

\* A world restored from a checkpoint and advanced by the same commands stays
\* equal to the world it came from, events and their order included.
THEOREM ReplicaAlwaysFollows ==
  ASSUME RadiiAreLengths
  PROVE  Spec => ReplicaFollows
<1>1. Init => FollowInvariant
  BY InvariantInit DEF Init, FollowInvariant
<1>2. FollowInvariant /\ [Next]_vars => FollowInvariant'
  <2> SUFFICES ASSUME FollowInvariant, [Next]_vars PROVE FollowInvariant'
    OBVIOUS
  <2>1. WorldInvariant'
    BY InvariantStep DEF FollowInvariant
  <2>2. replica' # NoWorld => SameWorld(world', replica'[1])
    BY FollowStep
  <2>3. (replica # NoWorld => SameWorld(world, replica[1]))'
    BY <2>2 DEF SameWorld, NoWorld
  <2> QED BY <2>1, <2>3 DEF FollowInvariant
<1>3. FollowInvariant /\ [Next]_vars => [Follows]_vars
  BY FollowStep
<1> QED BY <1>1, <1>2, <1>3, PTL DEF Spec, ReplicaFollows, Follows
=============================================================================
