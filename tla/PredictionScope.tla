--------------------------- MODULE PredictionScope ---------------------------
(***************************************************************************)
(* dots::prediction: which part of the world a client predicts, and the    *)
(* model that steps it.  build_prediction_scope selects owners, pieces and  *)
(* food from an authoritative checkpoint, project_checkpoint cuts the       *)
(* checkpoint down to them, and WorldModel restores and steps the result.   *)
(*                                                                          *)
(* `world` is the server's complete world and `replica` what the client     *)
(* predicts inside its scope, one tick for one tick, so that what the scope *)
(* leaves out can be seen to matter or not.  A snapshot shows the world of  *)
(* the present tick and acknowledges every input; between snapshots the     *)
(* client predicts from the newest one with its own inputs and the movement *)
(* it saw the other owners hold.  The masks of the code are sets of names.  *)
(***************************************************************************)
EXTENDS World

CONSTANTS
  Layouts,       \* the checkpoints a session may start from
  Me,            \* the client's owner id
  Requests,      \* the profiles and coverages that scopes are asked for
  OwnForms,      \* the client's inputs: move and split
  RemoteForms,   \* what other owners may do besides holding their movement
  HorizonFloor,  \* kPredictionScopeHorizonFloor
  MaxHorizon,    \* kMaximumReplayHorizonTicks
  LastEpoch      \* bound: ScopeEpoch::kInvalidValue - 1

ASSUME ScopeAssumption ==
  /\ Me \in Owners /\ HorizonFloor \in 1 .. MaxHorizon /\ LastEpoch \in Nat
  /\ \A cp \in Layouts : RestoreError(cp) = "none" /\ \E s \in ToSet(cp.owners) : s.owner = Me

VARIABLES
  request,    \* the policy of this session
  scope,      \* the timeline's scope, a sequence of at most one
  authority,  \* the checkpoint hydrated from the newest snapshot
  inputs,     \* input_history_: the commands since that snapshot
  submitted,  \* how many of them the timeline has taken, the others wait
  error,      \* the runtime error that ended the client, or "none"
  strayed,    \* the other owners that did not just hold their movement since
  contested,  \* somebody ate or absorbed with an owned piece since
  grown       \* an owner outside the scope gained mass in one piece since

scopeVars == <<world, replica, request, scope, authority, inputs, submitted, error,
               strayed, contested, grown>>

-----------------------------------------------------------------------------
(* Mechanics and what they need.                                           *)

KnownMechanics == {"movement", "food", "absorption", "split_merge"}

\* kMechanicContracts: every other mechanic depends on movement.
Dependencies(m) == IF m = "movement" THEN {} ELSE {"movement"}

\* The domains a mechanic reads or writes.
Domains(m) ==
  CASE m = "movement" -> {"rules", "tick", "commands", "topology", "kinematics", "mass"}
    [] m = "food" -> {"rules", "kinematics", "mass", "food", "journal"}
    [] m = "absorption" -> {"topology", "kinematics", "mass", "journal"}
    [] m = "split_merge" -> {"rules", "tick", "allocator", "commands", "topology",
                             "kinematics", "mass", "identity", "journal"}

ResolvedMechanics(asked) == asked \cup UNION {Dependencies(m) : m \in asked}

RequiredDomains(mechanics) ==
  {"rules", "tick", "allocator"} \cup UNION {Domains(m) : m \in mechanics}

\* A checkpoint carries every domain but the journal.
DomainsAvailable(required, coverage) == required \ {"journal"} \subseteq coverage.domains

RemoteChannels(owners, owned) == IF owners \subseteq owned THEN {} ELSE {"remote_movement"}

OwnerOf(cp, o) == CHOOSE s \in ToSet(cp.owners) : s.owner = o
HasOwner(cp, o) == o \in ToSet(Column(cp.owners, "owner"))
PiecesOf(cp, owners) == {p \in ToSet(cp.players) : p.owner \in owners}

-----------------------------------------------------------------------------
(* build_prediction_scope.                                                 *)

\* Fixed policy of the safe fallback: own pieces, no food, nobody else.
OwnedScope(cp, req, horizon, epoch, fallback) ==
  LET mechanics == {"movement", "split_merge"}
  IN  [requested |-> req.profile, active |-> "OwnedGameplay", fallback |-> fallback,
       asked |-> req.mechanics, mechanics |-> mechanics,
       domains |-> RequiredDomains(mechanics), channels |-> {},
       owned |-> {Me}, owners |-> {Me},
       players |-> {p.id : p \in PiecesOf(cp, {Me})}, food |-> {},
       horizon |-> horizon, epoch |-> epoch]

Abs(n) == IF n < 0 THEN -n ELSE n

\* Mutant: only the steady movement is counted.
TravelBoundSteady(p, mechanics, horizon) == Speed * horizon

\* How far a piece, or a child it launches, can get.
TravelBound(p, mechanics, horizon) ==
  (Speed + Abs(p.launch) + (IF "split_merge" \in mechanics THEN LaunchSpeed + Cohesion ELSE 0))
    * horizon

Within(p, q, reach) == Abs(p.pos - q.pos) <= reach

\* One pass of the loop: the pieces of the owners, the food and the other
\* pieces within reach of an island that may all have become one piece.
Expanded(cp, mechanics, horizon, island) ==
  LET pieces == {p \in ToSet(cp.players) : p.id \in island.players \/ p.owner \in island.owners}
      radius == RadiusForMass(MapThenSumSet(LAMBDA p : p.mass, pieces)
                                + FoodMass * Cardinality(island.food))
      bound(p) == TravelBound(p, mechanics, horizon)
      eaten == {f \in ToSet(cp.food) : \E p \in pieces :
                  Within(p, f, radius + RadiusForMass(FoodMass) + bound(p))}
      met   == {q \in ToSet(cp.players) : \E p \in pieces \ {q} :
                  Within(p, q, radius + RadiusForMass(q.mass) + bound(p) + bound(q))}
      reached == pieces \cup (IF "absorption" \in mechanics THEN met ELSE {})
  IN  [owners |-> island.owners \cup {p.owner : p \in reached},
       players |-> {p.id : p \in reached},
       food |-> island.food \cup (IF "food" \in mechanics THEN {f.id : f \in eaten} ELSE {})]

\* Every pass that changes something adds an entity or an owner.
Closure(cp, mechanics, horizon) ==
  FoldLeft(LAMBDA island, pass : Expanded(cp, mechanics, horizon, island),
           [owners |-> {Me}, players |-> {}, food |-> {}],
           [pass \in 1 .. Len(cp.players) + Len(cp.food) + 1 |-> pass])

Everything(cp) ==
  [owners |-> ToSet(Column(cp.owners, "owner")), players |-> ToSet(Column(cp.players, "id")),
   food |-> ToSet(Column(cp.food, "id"))]

Incomplete(req, mechanics) ==
  \/ ~DomainsAvailable(RequiredDomains(mechanics), req.coverage)
  \/ req.profile = "FullReplicated" /\ ~req.coverage.entities
  \/ req.profile = "InteractionClosure" /\ ~req.coverage.neighbourhood

\* Callers make sure that Me has an owner in the checkpoint and that the
\* horizon is in range; every mechanic is implemented and known.
BuildScope(cp, req, horizon, epoch) ==
  LET mechanics == ResolvedMechanics(req.mechanics)
      island == IF req.profile = "FullReplicated"
                  THEN Everything(cp)
                  ELSE Closure(cp, mechanics, horizon)
      channels == RemoteChannels(island.owners, {Me})
  IN  IF req.profile = "OwnedGameplay"
        THEN OwnedScope(cp, req, horizon, epoch, "none")
        ELSE IF Incomplete(req, mechanics) \/ ~(channels \subseteq req.coverage.channels)
               THEN OwnedScope(cp, req, horizon, epoch, "IncompleteClosure")
               ELSE [requested |-> req.profile, active |-> req.profile, fallback |-> "none",
                     asked |-> req.mechanics, mechanics |-> mechanics,
                     domains |-> RequiredDomains(mechanics), channels |-> channels,
                     owned |-> {Me}, owners |-> island.owners, players |-> island.players,
                     food |-> island.food, horizon |-> horizon, epoch |-> epoch]

\* is_valid_prediction_scope
ValidScope(s) ==
  /\ s.horizon \in 1 .. MaxHorizon
  /\ s.asked # {} /\ s.asked \subseteq KnownMechanics
  /\ "movement" \in s.mechanics /\ s.mechanics \subseteq KnownMechanics
  /\ s.domains = RequiredDomains(s.mechanics)
  /\ s.owned # {} /\ s.owned \subseteq s.owners
  /\ s.channels = RemoteChannels(s.owners, s.owned)
  /\ IF s.active = "OwnedGameplay"
       THEN /\ s.fallback = (IF s.requested = "OwnedGameplay" THEN "none" ELSE "IncompleteClosure")
            /\ s.mechanics = {"movement", "split_merge"}
            /\ s.owners = s.owned /\ s.food = {}
       ELSE /\ s.active = s.requested /\ s.fallback = "none"
            /\ s.mechanics = ResolvedMechanics(s.asked)

-----------------------------------------------------------------------------
(* project_checkpoint.                                                     *)

\* Children that the client predicted have ids the scope could not name.
AdmitsPlayer(s, p) ==
  \/ p.id \in s.players
  \/ "split_merge" \in s.mechanics /\ p.key # NoKey /\ p.owner \in s.owned

Projection(cp, s) ==
  [cp EXCEPT !.owners = SelectSeq(@, LAMBDA o : o.owner \in s.owners),
             !.players = SelectSeq(@, LAMBDA p : AdmitsPlayer(s, p)),
             !.food = SelectSeq(@, LAMBDA f : f.id \in s.food)]

ProjectionError(cp, s) ==
  CASE ~ValidScope(s) -> "InvalidScope"
    [] OTHER ->
  CASE RestoreError(cp) # "none" -> "CheckpointRestoreFailed"
    [] OTHER ->
  CASE \/ \E p \in ToSet(cp.players) : (p.owner \in s.owners) # AdmitsPlayer(s, p)
       \/ /\ s.active = "FullReplicated"
          /\ \/ \E o \in ToSet(cp.owners) : o.owner \notin s.owners
             \/ \E p \in ToSet(cp.players) : ~AdmitsPlayer(s, p)
             \/ \E f \in ToSet(cp.food) : f.id \notin s.food -> "CheckpointOutsideScope"
    [] OTHER ->
  CASE RestoreError(Projection(cp, s)) # "none" -> "CheckpointRestoreFailed"
    [] OTHER -> "none"

\* expanded_terminal_projection_scope: the admitted owners with the pieces
\* they have now, everything for the full profile.
ExpandedScope(cp, s) ==
  LET full   == s.active = "FullReplicated"
      owners == s.owners \cup (IF full THEN ToSet(Column(cp.owners, "owner")) ELSE {})
  IN  [s EXCEPT !.epoch = @ + 1,
                !.owners = owners,
                !.players = @ \cup {p.id : p \in PiecesOf(cp, owners)},
                !.food = @ \cup (IF full THEN ToSet(Column(cp.food, "id")) ELSE {}),
                !.channels = RemoteChannels(owners, s.owned)]

-----------------------------------------------------------------------------
(* WorldModel.                                                             *)

RestoredState(cp, s) ==
  IF ProjectionError(cp, s) # "none" THEN ProjectionError(cp, s)
  ELSE IF Projection(cp, s) # cp THEN "CheckpointOutsideScope" ELSE "none"

LiveRemotes(w, s) == SelectSeq(w.owners, LAMBDA o : o.owner \notin s.owned)

\* remote_movement_assumptions finds no authoritative movement.
AssumptionsMissing(w, s, cp) ==
  \E o \in ToSet(LiveRemotes(w, s)) : ~HasOwner(cp, o.owner)

Assumptions(w, s, cp) ==
  [i \in DOMAIN LiveRemotes(w, s) |->
     LET o == LiveRemotes(w, s)[i].owner
     IN  [type |-> "AssumeMovement", owner |-> o, move |-> OwnerOf(cp, o).move,
          split |-> FALSE, input |-> NoInput]]

\* WorldModel::step: the command of an owner that prediction removed is kept
\* in its frame but not applied.
ModelStep(w, cmd, s, cp) ==
  Advanced(w,
    (IF FindOwner(w, cmd.owner) # 0 THEN <<cmd>> ELSE <<>>) \o Assumptions(w, s, cp),
    s.mechanics)

StepError(w, after, cmd, s, cp) ==
  IF ~ValidScope(s) THEN "InvalidScope"
  ELSE IF cmd.owner \notin s.owned \/ AssumptionsMissing(w, s, cp) THEN "InvalidStimulus"
  ELSE IF after.tick = w.tick THEN "TickFailed" ELSE "none"

\* The state machine of a replay: a prediction, its error and how many
\* commands it has taken.
Taken(st, after, failure) ==
  IF failure = "none" THEN [st EXCEPT !.state = after, !.taken = @ + 1]
                      ELSE [st EXCEPT !.error = failure]
SteppedTo(st, after, cmd, s, cp) == Taken(st, after, StepError(st.state, after, cmd, s, cp))
Stepped(st, cmd, s, cp) ==
  IF st.error # "none" THEN st ELSE SteppedTo(st, ModelStep(st.state, cmd, s, cp), cmd, s, cp)

\* advance_timeline puts the command off while its owner is not predicted.
AdvancedTimeline(st, cmd, s, cp) ==
  IF FindOwner(st.state, cmd.owner) = 0 \/ st.deferred
    THEN [st EXCEPT !.deferred = TRUE]
    ELSE Stepped(st, cmd, s, cp)

\* Restore the projected authority, replay the frames the timeline holds with
\* the movement the authority shows, then take the inputs that waited.
ReplayStart(cp, s) ==
  [state |-> Restored(Projection(cp, s)), error |-> RestoredState(Projection(cp, s), s),
   taken |-> 0, deferred |-> FALSE]

\* One command of the history, which the timeline held in a frame or not.
ReplayedCommand(st, c, held, s, cp) ==
  IF held THEN Stepped(st, c, s, cp) ELSE AdvancedTimeline(st, c, s, cp)

Replayed(cp, s, history, frames) ==
  FoldLeft(LAMBDA st, i : ReplayedCommand(st, history[i], i <= frames, s, cp),
           ReplayStart(cp, s), [i \in DOMAIN history |-> i])

-----------------------------------------------------------------------------
(* The client runtime: choosing, keeping and leaving a scope.              *)

Greater(a, b) == IF a > b THEN a ELSE b
ReplayHorizon(n) == Greater(HorizonFloor, n)

\* scope_covers: a wider scope of the same policy is kept.
ScopeCovers(current, required) ==
  /\ \A field \in {"requested", "active", "fallback", "asked", "mechanics", "domains", "owned"} :
       current[field] = required[field]
  /\ \A field \in {"channels", "owners", "players", "food"} :
       required[field] \subseteq current[field]

\* install_authority up to the new timeline: the scope it selects.
SelectedScope(cp, horizon) ==
  LET required(epoch) == BuildScope(cp, request, horizon, epoch)
  IN  IF scope = <<>>
        THEN required(1)
        ELSE IF /\ ScopeCovers(scope[1], required(scope[1].epoch))
                /\ ProjectionError(cp, scope[1]) = "none"
               THEN scope[1]
               ELSE required(scope[1].epoch + 1)

EpochExhausted(selected) == selected.epoch > LastEpoch

\* The selected scope and the replayed prediction replace the old ones, or
\* the runtime fails and everything stays.
InstallFailure(cp, selected, replay) ==
  IF EpochExhausted(selected) \/ ProjectionError(cp, selected) # "none"
    THEN "PredictionScopeFailed"
    ELSE IF replay.error # "none" THEN "PredictionTimelineFailed" ELSE "none"

InstallOutcome(selected, replay, failure) ==
  IF failure = "none"
    THEN [scope |-> <<selected>>, state |-> <<replay.state>>, taken |-> replay.taken,
          error |-> "none"]
    ELSE [scope |-> scope, state |-> replica, taken |-> submitted, error |-> failure]

InstalledIn(cp, selected, replay) ==
  InstallOutcome(selected, replay, InstallFailure(cp, selected, replay))

Rebased(cp, selected, history, frames) ==
  InstalledIn(cp, selected, Replayed(cp, selected, history, frames))

Installed(cp, history, frames, horizon) ==
  Rebased(cp, SelectedScope(cp, horizon), history, frames)

Playing == error = "none" /\ scope # <<>>

ScopeInit ==
  /\ request \in Requests
  /\ \E cp \in Layouts : authority = cp /\ world = Restored(cp)
  /\ replica = NoWorld /\ scope = <<>>
  /\ inputs = <<>> /\ submitted = 0 /\ error = "none"
  /\ strayed = {} /\ contested = FALSE /\ grown = FALSE

\* A snapshot of the present world, in which the client still plays.
InstallSnapshot ==
  /\ error = "none"
  /\ FindOwner(world, Me) # 0
  /\ authority' = Checkpoint(world)
  /\ \E install \in {Installed(authority', <<>>, 0, ReplayHorizon(0))} :
       /\ inputs' = IF install.error = "none" THEN <<>> ELSE inputs
       /\ scope' = install.scope /\ replica' = install.state
       /\ submitted' = install.taken /\ error' = install.error
  /\ strayed' = {} /\ contested' = FALSE /\ grown' = FALSE
  /\ UNCHANGED <<world, request>>

\* Mutant: a terminal checkpoint must fit the old scope.
TerminalScopeRetained(cp, s) == s

TerminalScope(cp, s) ==
  IF ProjectionError(cp, s) = "CheckpointOutsideScope" THEN ExpandedScope(cp, s) ELSE s

\* A snapshot in which the client's last piece is gone: the timeline takes the
\* terminal checkpoint in a scope that admits it and is then discarded.
InstallTerminal ==
  /\ error = "none"
  /\ FindOwner(world, Me) = 0
  /\ authority' = Checkpoint(world)
  /\ IF scope = <<>> THEN UNCHANGED <<error, scope, replica>> ELSE
     LET final == TerminalScope(authority', scope[1])
         failure == ProjectionError(authority', final)
         restore == RestoredState(Projection(authority', final), final)
     IN  IF EpochExhausted(final) \/ failure # "none"
           THEN error' = "PredictionScopeFailed" /\ UNCHANGED <<scope, replica>>
           ELSE IF restore # "none"
                  THEN error' = "PredictionTimelineFailed" /\ UNCHANGED <<scope, replica>>
                  ELSE error' = "none" /\ scope' = <<>> /\ replica' = NoWorld
  /\ inputs' = <<>> /\ submitted' = 0
  /\ strayed' = {} /\ contested' = FALSE /\ grown' = FALSE
  /\ UNCHANGED <<world, request>>

\* ensure_prediction_scope: rebase on the newest snapshot when the closure of
\* the next suffix depth is not inside the scope.
EnsuredScope ==
  LET required == BuildScope(authority, request, ReplayHorizon(Len(inputs) + 1), scope[1].epoch)
  IN  IF ScopeCovers(scope[1], required)
        THEN [scope |-> scope, state |-> replica, taken |-> submitted, error |-> "none"]
        ELSE Installed(authority, inputs, submitted,
                       ReplayHorizon(Greater(Len(inputs), Len(inputs) + 1)))

\* The owner of a piece that was there before the tick or split off in it.
OwnerBefore(w, journal, id) ==
  IF Located(w, id, "player")
    THEN w.players[FindIndex(w, id)].owner
    ELSE (CHOOSE e \in ToSet(journal) : e.type = "split" /\ e.child = id).owner

\* Who gained mass by an event, and from whom.
Gainer(w, journal, e) ==
  CASE e.type = "eaten" -> {OwnerBefore(w, journal, e.player)}
    [] e.type = "absorbed" -> {OwnerBefore(w, journal, e.absorber)}
    [] e.type = "merged" -> {OwnerBefore(w, journal, e.survivor)}
    [] e.type = "split" -> {}
Loser(w, journal, e) ==
  IF e.type = "absorbed" THEN {OwnerBefore(w, journal, e.victim)} ELSE {}

\* The server's tick and the client's prediction of it.  The other owners do
\* what `others` says: a set of at most one command each.
Step(form, others) ==
  LET cmd == [type |-> "ApplyInput", owner |-> Me, move |-> form.move, split |-> form.split,
              input |-> world.tick + 1]
      mine == IF FindOwner(world, Me) # 0 THEN <<cmd>> ELSE <<>>
  IN  /\ Playing /\ world.tick < LastTick
      /\ world' = Advanced(world, mine \o SetToSeq(others), {"absorption", "food", "split_merge"})
      /\ \E base \in {EnsuredScope} :
         \E next \in {AdvancedTimeline([state |-> base.state[1], error |-> base.error,
                                        taken |-> base.taken,
                                        deferred |-> base.taken < Len(inputs)],
                                       cmd, base.scope[1], authority)} :
           /\ scope' = base.scope /\ replica' = <<next.state>>
           /\ submitted' = next.taken
           /\ error' = IF next.error = "none" THEN "none" ELSE "PredictionTimelineFailed"
      /\ inputs' = Append(inputs, cmd)
      /\ strayed' = strayed \cup {c.owner : c \in others}
      /\ contested' = (contested \/ \E e \in ToSet(world'.journal) :
                         /\ e.type # "merged"
                         /\ Me \in Gainer(world, world'.journal, e)
                                  \cup Loser(world, world'.journal, e))
      /\ grown' = (grown \/ \E e \in ToSet(world'.journal) :
                     ~(Gainer(world, world'.journal, e) \subseteq scope'[1].owners))
      /\ UNCHANGED <<request, authority>>

RemoteCommands ==
  {[type |-> "ApplyInput", owner |-> o, move |-> f.move, split |-> f.split,
    input |-> world.tick + 1] :
     f \in RemoteForms, o \in ToSet(Column(world.owners, "owner")) \ {Me}}

ScopeNext ==
  \/ InstallSnapshot
  \/ InstallTerminal
  \/ \E form \in OwnForms, others \in SUBSET RemoteCommands :
       /\ \A c, d \in others : c.owner = d.owner => c = d
       /\ Step(form, others)

ScopeSpec == ScopeInit /\ [][ScopeNext]_scopeVars

-----------------------------------------------------------------------------
(* Properties.                                                             *)

ScopeTypeOK ==
  /\ Len(scope) <= 1 /\ (scope # <<>> => ValidScope(scope[1]) /\ Len(replica) = 1)
  /\ submitted <= Len(inputs) /\ authority.tick + Len(inputs) = world.tick
  /\ Playing => replica[1].tick = authority.tick + submitted

\* No legal sequence of snapshots, inputs and defeats makes the client fail:
\* what build_prediction_scope selects always projects and restores, a replay
\* always finds the movement of the owners it meets, a predicted tick is never
\* refused, and the terminal checkpoint fits its expanded scope.
PredictionSurvives == error = "none"

\* "Live checkpoint state may contain a subset after consumption/absorption and
\* locally predicted owned children" (types.hpp): what the client predicts can
\* be captured and restored under its scope at any time.
PredictionInScope ==
  Playing => RestoredState(Checkpoint(replica[1]), scope[1]) = "none"

\* The client's prediction holds from snapshot to snapshot: its fields agree,
\* nothing in it fails, and it stays inside its scope.
PredictionHolds == ScopeTypeOK /\ PredictionSurvives /\ PredictionInScope

\* The part of a world a scope talks about; a piece is known by its prediction
\* key where it has one, because the server numbers children differently.
View(w, s) ==
  [pieces |-> {[name |-> IF p.key = NoKey THEN <<p.id>> ELSE p.key, owner |-> p.owner,
                pos |-> p.pos, mass |-> p.mass, launch |-> p.launch, eligible |-> p.eligible] :
                 p \in {q \in ToSet(w.players) : q.owner \in s.owners}},
   owners |-> {[o EXCEPT !.pieces = Len(@)] : o \in {x \in ToSet(w.owners) : x.owner \in s.owners}},
   food |-> {f \in ToSet(w.food) : f.id \in s.food}]

\* The others in the scope held their movement, and nothing happened that the
\* active profile leaves to the server.
Foreseeable ==
  /\ strayed \cap scope[1].owners = {}
  /\ scope[1].active = "OwnedGameplay" => ~contested

\* "Owned pieces plus the fixed-point closure of every entity and mechanic that
\* can affect them during the replay horizon" (rollback_prediction_design.md):
\* the predicted island is the server's.
Agrees ==
  Playing /\ replica[1].tick = world.tick /\ Foreseeable
    => View(replica[1], scope[1]) = View(world, scope[1])

\* The interaction closure: as long as no piece outside it gains mass, whatever
\* the owners outside it do, the predicted island is the server's, at every
\* depth, through retained scopes and rebases.
IslandAgrees == ~grown => Agrees
=============================================================================
