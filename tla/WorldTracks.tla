---------------------------- MODULE WorldTracks ----------------------------
(***************************************************************************)
(* What a networked frame shows of the world.  Frame extraction chooses    *)
(* one source for each entity: the predicted world inside the prediction   *)
(* scope, the delayed or extrapolated authority outside, the local         *)
(* presentation for the controlled piece.  PersistentWorldPresentation     *)
(* keeps a track per semantic entity, carries the drawn pose over a change *)
(* of source or of identifier, and fades out what disappeared.             *)
(*                                                                         *)
(* The world is the player's piece "p", the child "c" of its split, which  *)
(* the prediction holds under the provisional identifier "q" until the     *)
(* authority names it, and a rival "r"; food takes the rival's path.       *)
(* Positions are integers that follow from a tick; radii, which are        *)
(* carried over like positions, and the debug layers are left out.         *)
(***************************************************************************)
EXTENDS Integers, Sequences, FiniteSets, SequencesExt

CONSTANTS
    Modes,           \* remote presentation modes of the client to check
    TrackSmoothing,       \* kStructuralPresentationSmoothingDuration
    Speed,           \* distance a player moves in a tick
    Error,           \* possible distance of a wrong prediction of the rival
    TrackAlphaSteps,      \* subdivisions of a tick
    Alphas,          \* the ones frames are drawn at
    TrailCapacity, TrailRetention,
    TrackMaxTick, MaxLead, TrackMaxElapsed, TrackMaxResyncs   \* bounds

ASSUME TracksAssumption ==
    /\ {TrackSmoothing, TrackAlphaSteps, TrailCapacity, TrailRetention} \subseteq Nat \ {0}
    /\ {TrackMaxTick, MaxLead, TrackMaxElapsed, TrackMaxResyncs} \subseteq Nat
    /\ {Speed, Error} \subseteq Int /\ Alphas \subseteq 0..TrackAlphaSteps
    /\ Modes \subseteq {"interpolated", "extrapolated"}

VARIABLES
    mode,        \* config.debug.remote_presentation_mode
    authority,   \* the replicated world, and the snapshot before it
    prediction,  \* the runtime's predicted world, scope and corrections
    playing,     \* session_mode() = Playing
    spectating,  \* the frame loop's spectator_camera_active
    tracks,      \* PersistentWorldPresentation::tracks_
    resyncs,     \* last_hard_resync_sequence_
    trail,       \* motion_trail_
    display      \* history: what the last frame drew

tracksVars == <<mode, authority, prediction, playing, spectating, tracks, resyncs, trail, display>>

Ids == {"p", "c", "q", "r"}
OwnIds == {"p", "c", "q"}
Keys == {"p", "k", "r"}

(* key_for: a split child is known by its prediction key, whoever names it. *)
KeyFor(id) == IF id \in {"c", "q"} THEN "k" ELSE id

Pose(tick) == Speed * tick

----------------------------------------------------------------------------
(* The client runtime, as far as frames see it.                            *)

NoCorrection == [generation |-> 0, displacement |-> 0]

(* A snapshot: one entity may be gone, a requested split may have been     *)
(* executed.  The prediction restarts from it with what is not acknowledged*)
(* and a wrong guess about the rival becomes a correction.                 *)
Snapshot(gone, split, scope) ==
    LET alive == (authority.alive \ gone) \cup (IF split THEN {"c"} ELSE {})
        both  == {"r"} \subseteq prediction.alive \cap scope \cap alive
    IN  /\ playing /\ authority.tick < TrackMaxTick
        /\ gone \subseteq authority.alive \ {"p"} /\ Cardinality(gone) <= 1
        /\ split => prediction.pending
        /\ scope \subseteq {"r"}
        /\ authority' = [tick |-> authority.tick + 1, alive |-> alive,
                         before |-> authority.alive]
        /\ prediction' = [prediction EXCEPT
             !.tick = IF @ > authority.tick THEN @ ELSE authority.tick + 1,
             !.pending = @ /\ ~split,
             !.scope = (OwnIds \cup scope) \cap alive,
             !.alive = ((OwnIds \cup scope) \cap alive)
                       \cup (IF prediction.pending /\ ~split THEN {"q"} ELSE {}),
             !.guess = 0,
             !.correction = IF both /\ prediction.guess # 0
                            THEN [generation |-> @.generation + 1, displacement |-> prediction.guess]
                            ELSE @]
        /\ UNCHANGED <<mode, playing, spectating, tracks, resyncs, trail, display>>

(* A predicted step with at most one event: a split, an absorption or a    *)
(* wrong guess about the rival.                                            *)
PredictStep(split, gone, guess) ==
    /\ playing /\ prediction.tick < authority.tick + MaxLead
    /\ split => ~prediction.pending /\ ~prediction.used /\ "p" \in prediction.alive
    /\ gone \subseteq prediction.alive /\ Cardinality(gone) <= 1
    /\ guess # 0 => "r" \in prediction.alive
    /\ Cardinality(gone) + (IF split THEN 1 ELSE 0) + (IF guess # 0 THEN 1 ELSE 0) <= 1
    /\ prediction' = [prediction EXCEPT
         !.tick = @ + 1, !.pending = @ \/ split, !.used = @ \/ split,
         !.alive = (@ \ gone) \cup (IF split THEN {"q"} ELSE {}), !.guess = guess]
    /\ UNCHANGED <<mode, authority, playing, spectating, tracks, resyncs, trail, display>>

(* hard_resync: the prediction is the authority again.                     *)
TracksHardResync ==
    /\ playing /\ prediction.resyncs < TrackMaxResyncs
    /\ prediction' = [prediction EXCEPT
         !.tick = authority.tick, !.alive = prediction.scope, !.guess = 0,
         !.pending = FALSE, !.correction = NoCorrection, !.resyncs = @ + 1]
    /\ UNCHANGED <<mode, authority, playing, spectating, tracks, resyncs, trail, display>>

TracksDefeat ==
    /\ playing /\ authority.tick < TrackMaxTick
    /\ playing' = FALSE
    /\ authority' = [tick |-> authority.tick + 1, alive |-> authority.alive \ OwnIds,
                     before |-> authority.alive]
    /\ prediction' = [prediction EXCEPT !.alive = {}, !.scope = {}, !.pending = FALSE,
                                        !.guess = 0, !.correction = NoCorrection]
    /\ UNCHANGED <<mode, spectating, tracks, resyncs, trail, display>>

----------------------------------------------------------------------------
(* Frame extraction.                                                       *)

(* predicted_primary_entity_id, or the authority's primary without one.    *)
Primary ==
    IF "p" \in prediction.alive \/ prediction.alive \cap OwnIds = {} THEN "p"
    ELSE CHOOSE id \in prediction.alive \cap OwnIds : TRUE

Circle(id, pos, source, revision) ==
    [id |-> id, pos |-> pos, source |-> source, revision |-> revision,
     generation |-> 0, displacement |-> 0]

(* The entities a remote buffer samples leave out the local primary.       *)
RemoteCircles(delayed) ==
    LET local   == IF playing THEN {"p"} ELSE {}
        tick    == authority.tick - (IF delayed THEN 1 ELSE 0)
        sampled == (IF delayed THEN authority.before ELSE authority.alive) \ local
        source  == IF delayed THEN "Interpolated" ELSE "Extrapolated"
    IN  {Circle(id, Pose(tick), source, tick) : id \in sampled}

(* Mutant of OutsidePrediction: predicted entities are not left out.       *)
OutsidePredictionAll(circles) == circles

OutsidePrediction(circles) ==
    {c \in circles : c.id \notin prediction.alive /\ c.id \notin prediction.scope}

PredictedCircle(id) ==
    [Circle(id, Pose(prediction.tick) + (IF id = "r" THEN prediction.guess ELSE 0),
            IF id = Primary THEN "State" ELSE "Predicted", prediction.tick)
       EXCEPT !.generation = IF id = "r" THEN prediction.correction.generation ELSE 0,
              !.displacement = IF id = "r" THEN prediction.correction.displacement ELSE 0]

(* extract_remote_..._predicted_frame: the controlled piece is drawn even  *)
(* when the prediction lost it.                                            *)
PlayingCircles(delayed) ==
    OutsidePrediction(RemoteCircles(delayed))
    \cup {PredictedCircle(id) : id \in prediction.alive}
    \cup (IF Primary \in prediction.alive THEN {}
          ELSE {Circle(Primary, Pose(prediction.tick), "State", 0)})

----------------------------------------------------------------------------
(* PersistentWorldPresentation.                                            *)

Saturated(age, elapsed, limit) == IF age + elapsed > limit THEN limit ELSE age + elapsed

NewTrack(c) ==
    [previous |-> c, current |-> c, offset |-> 0, age |-> 0, active |-> FALSE,
     fading |-> FALSE, fadeAge |-> 0, lastId |-> c.id]

(* evaluate.                                                               *)
Evaluate(t, alpha) ==
    LET tweened == /\ t.current.source = "Predicted" /\ t.previous.source = "Predicted"
                   /\ t.previous.revision # t.current.revision
        base    == IF tweened
                   THEN t.previous.pos + ((t.current.pos - t.previous.pos) * alpha) \div TrackAlphaSteps
                   ELSE t.current.pos
    IN  base + (IF t.active THEN (t.offset * (TrackSmoothing - t.age)) \div TrackSmoothing ELSE 0)

Replaced(t, c) ==
    LET revised == t.current.revision # c.revision
        moved   == t.current.source # c.source
        renamed == t.lastId # c.id
    IN  IF c.source = "Predicted" /\ revised /\ ~moved
        THEN [t EXCEPT !.previous = t.current, !.current = c]
        ELSE IF \/ c.source # "Predicted" \/ moved \/ renamed
                \/ ~revised /\ t.current.pos # c.pos
        THEN [t EXCEPT !.previous = c, !.current = c]
        ELSE t

(* Mutant of Residual: an offset still decaying is not part of the pose.   *)
ResidualOfSource(t, c, alpha) ==
    IF /\ c.source = "Predicted" /\ t.current.generation # c.generation
       /\ t.current.source = c.source /\ t.lastId = c.id
    THEN c.displacement
    ELSE t.current.pos - c.pos

(* The distance a track keeps from its new source, to decay from there.    *)
Residual(t, c, alpha) ==
    IF /\ c.source = "Predicted" /\ t.current.generation # c.generation
       /\ t.current.source = c.source /\ t.lastId = c.id
    THEN c.displacement
    ELSE Evaluate(t, alpha) - c.pos

SmoothChange(t, c) ==
    \/ t.current.source # c.source
    \/ t.lastId # c.id
    \/ t.current.revision # c.revision /\ c.source = "Extrapolated"
    \/ c.source = "Predicted" /\ t.current.generation # c.generation

Observed(t, c, alpha) ==
    LET r == [Replaced(t, c) EXCEPT !.lastId = c.id, !.fading = FALSE, !.fadeAge = 0]
    IN  IF SmoothChange(t, c)
        THEN [r EXCEPT !.offset = Residual(t, c, alpha), !.age = 0,
                       !.active = Residual(t, c, alpha) # 0]
        ELSE r

Older(t, elapsed) ==
    [t EXCEPT !.age = Saturated(@, elapsed, TrackSmoothing),
              !.fadeAge = IF t.fading THEN Saturated(@, elapsed, TrackSmoothing) ELSE 0]

Kept(all) ==
    [k \in {j \in DOMAIN all : all[j].fading => all[j].fadeAge < TrackSmoothing} |-> all[k]]

(* The track of k in a frame with these circles.                           *)
ComposedTrack(old, circles, k, alpha, elapsed) ==
    LET seen == {c \in circles : KeyFor(c.id) = k}
        aged == Older(old[k], elapsed)
    IN  IF k \notin DOMAIN old THEN NewTrack(CHOOSE c \in seen : TRUE)
        ELSE IF seen # {} THEN Observed(aged, CHOOSE c \in seen : TRUE, alpha)
        ELSE IF aged.fading THEN aged
        ELSE [aged EXCEPT !.fading = TRUE, !.fadeAge = 0]

ComposedTracks(old, circles, alpha, elapsed) ==
    Kept([k \in DOMAIN old \cup {KeyFor(c.id) : c \in circles} |->
            ComposedTrack(old, circles, k, alpha, elapsed)])

TrailWith(samples, pos) ==
    IF samples = <<>> \/ (Last(samples).age > 0 /\ Last(samples).pos # pos)
    THEN Append(IF Len(samples) = TrailCapacity THEN Tail(samples) ELSE samples,
                [pos |-> pos, age |-> 0])
    ELSE samples

(* What erase_if leaves: the samples are in the order of their times, so   *)
(* that the expired ones come first.                                       *)
Unexpired(samples) ==
    LET expired == Max({n \in 0..Len(samples) :
                          \A i \in 1..n : samples[i].age >= TrailRetention})
    IN  SubSeq(samples, expired + 1, Len(samples))

----------------------------------------------------------------------------
(* The frame loop.                                                         *)

NoDisplay == [wanted |-> {}, at |-> <<>>, alpha |-> 0, elapsed |-> 0, handed |-> {}]

(* compose: a new resync sequence forgets every track.                     *)
Compose(old, samples, circles, alpha, elapsed, target) ==
    LET resynced == resyncs # prediction.resyncs
        kept     == IF resynced THEN <<>> ELSE old
        Sought(k) == CHOOSE c \in circles : KeyFor(c.id) = k
        both     == {k \in {KeyFor(c.id) : c \in circles} \cap DOMAIN kept : ~kept[k].fading}
        renamed  == {k \in both : kept[k].lastId # Sought(k).id}
        revised  == {k \in both : kept[k].current.revision # Sought(k).revision}
        handed   == {k \in both : \/ kept[k].current.source # Sought(k).source
                                  \/ k \in revised /\ Sought(k).source = "Extrapolated"
                                  \/ k \in renamed \ revised}
        past     == IF resynced THEN <<>>
                    ELSE [i \in DOMAIN samples |->
                            [samples[i] EXCEPT !.age = Saturated(@, elapsed, TrailRetention)]]
    IN  /\ tracks' = ComposedTracks(kept, circles, alpha, elapsed)
        /\ resyncs' = prediction.resyncs
        /\ display' = [wanted |-> {KeyFor(c.id) : c \in circles},
                       at |-> [k \in {j \in DOMAIN tracks' : ~tracks'[j].fading} |->
                                 Evaluate(tracks'[k], alpha)],
                       alpha |-> alpha, elapsed |-> elapsed, handed |-> handed]
        /\ trail' = Unexpired(IF target \in DOMAIN display'.at
                              THEN TrailWith(past, display'.at[target]) ELSE past)

PlayingFrame(alpha, elapsed) ==
    /\ playing
    /\ Compose(tracks, trail, PlayingCircles(mode = "interpolated"), alpha, elapsed,
               KeyFor(Primary))
    /\ spectating' = FALSE
    /\ UNCHANGED <<mode, authority, prediction, playing>>

(* A spectator frame, delayed or with the live fallback; the first one     *)
(* starts from nothing.                                                    *)
SpectatorFrame(delayed, elapsed) ==
    /\ ~playing
    /\ Compose(IF spectating THEN tracks ELSE <<>>, IF spectating THEN trail ELSE <<>>,
               RemoteCircles(delayed), TrackAlphaSteps, elapsed, "nothing")
    /\ spectating' = TRUE
    /\ UNCHANGED <<mode, authority, prediction, playing>>

TracksInit ==
    /\ mode \in Modes
    /\ authority = [tick |-> 1, alive |-> {"p", "r"}, before |-> {"p", "r"}]
    /\ \E scope \in SUBSET {"r"} :
         prediction = [tick |-> 1, alive |-> {"p"} \cup scope, scope |-> {"p"} \cup scope,
                       pending |-> FALSE, used |-> FALSE, guess |-> 0,
                       correction |-> NoCorrection, resyncs |-> 0]
    /\ playing = TRUE /\ spectating = FALSE
    /\ tracks = <<>> /\ resyncs = 0 /\ trail = <<>> /\ display = NoDisplay

TracksNext ==
    \/ \E gone \in {{}, {"r"}, {"c"}}, split \in BOOLEAN, scope \in SUBSET {"r"} :
         Snapshot(gone, split, scope)
    \/ \E split \in BOOLEAN, gone \in {{}} \cup {{id} : id \in Ids}, guess \in {0, Error} :
         PredictStep(split, gone, guess)
    \/ TracksHardResync
    \/ TracksDefeat
    \/ \E alpha \in Alphas, elapsed \in 0..TrackMaxElapsed : PlayingFrame(alpha, elapsed)
    \/ \E delayed \in BOOLEAN, elapsed \in 0..TrackMaxElapsed : SpectatorFrame(delayed, elapsed)

----------------------------------------------------------------------------
(* Properties.                                                             *)

(* Shape of the tracks; fades end and the trail is bounded (compose).      *)
TracksTypeOK ==
    /\ DOMAIN tracks \subseteq Keys
    /\ \A k \in DOMAIN tracks :
         /\ tracks[k].age \in 0..TrackSmoothing
         /\ tracks[k].fading => tracks[k].fadeAge < TrackSmoothing
    /\ Len(trail) <= TrailCapacity
    /\ \A i \in DOMAIN trail : trail[i].age < TrailRetention

(* The next frame is drawn at the same instant and fraction of a tick.     *)
Instant == display' # display /\ display'.elapsed = 0 /\ display'.alpha = display.alpha

(* Every entity of a frame is drawn solid exactly once, under one          *)
(* identifier, from one source: no entity of the prediction scope shows a  *)
(* second time from the authority, a split child is never beside its       *)
(* provisional self, and what is drawn does not fade at the same time      *)
(* (extract_remote_interpolated_predicted_frame, compose).                 *)
DrawnOnce ==
    /\ \A delayed \in BOOLEAN :
         LET circles == IF playing THEN PlayingCircles(delayed) ELSE RemoteCircles(delayed)
         IN  \A c, d \in circles : KeyFor(c.id) = KeyFor(d.id) => c = d
    /\ DOMAIN display.at = display.wanted

(* Tracks and trail stay bounded, and every entity is drawn once.          *)
TracksSound == TracksTypeOK /\ DrawnOnce

(* A change of source, or of the snapshot behind an extrapolation, does    *)
(* not move the drawn entity: a frame at the same instant draws it where   *)
(* it was, though an older offset may still be decaying; so does a new     *)
(* identifier between two predicted ticks (compose).                       *)
HandoffSeamless ==
    [][Instant => \A k \in display'.handed \cap DOMAIN display.at :
                    display'.at[k] = display.at[k]]_tracksVars
=============================================================================
