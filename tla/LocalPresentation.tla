------------------------- MODULE LocalPresentation -------------------------
(***************************************************************************)
(* How the client shows the player it predicts: the corrections the client *)
(* runtime accumulates between frames, LocalPredictionPresentation, which  *)
(* turns them into an offset that decays, and PredictionCorrectionHistory, *)
(* which keeps a bounded, fading list of them.  The frame loop drives both *)
(* only when it draws: any number of steps and corrections, or a whole     *)
(* life, may pass between two frames.                                      *)
(*                                                                         *)
(* Positions are one-dimensional integers.  The times of the code are ages *)
(* here, saturated where the code no longer tells them apart.              *)
(***************************************************************************)
EXTENDS Integers, Sequences, FiniteSets, SequencesExt

CONSTANTS
    Velocity,          \* distance of a predicted step
    Corrections,       \* displacements of the head by reconciliation
    Starts,            \* where a resync or a respawn places the player
    Smoothing,         \* frames' time until an offset has decayed
    Retention,         \* time a correction stays visible
    AlphaSteps,        \* subdivisions of a tick that frames sample
    HistoryCapacity,   \* PredictionCorrectionHistory::capacity_
    RecentCapacity,    \* kRecentPredictionCorrectionCapacity
    MaxTick, MaxSequence, MaxResyncs, MaxLives, MaxElapsed   \* bounds

ASSUME LocalAssumption ==
    /\ {Smoothing, Retention, AlphaSteps, HistoryCapacity, RecentCapacity} \subseteq Nat \ {0}
    /\ Smoothing <= Retention /\ MaxTick \in Nat \ {0} /\ Velocity \in Int
    /\ {MaxSequence, MaxResyncs, MaxLives, MaxElapsed} \subseteq Nat
    /\ Corrections \subseteq Int \ {0} /\ Starts \subseteq Int

VARIABLES
    head,       \* the runtime's prediction: position, tick, correction counters
    recent,     \* recent_prediction_corrections_, as sequence numbers
    issued,     \* prediction_correction_sequence_
    smooth,     \* LocalPredictionPresentation
    past,       \* PredictionCorrectionHistory
    localSpectating, \* the frame loop's spectator_camera_active
    uncorrected,\* history: the head without the corrections since the frame
    localDisplay,    \* history: what the last frame drew and should have drawn
    gone        \* history: corrections that left the screen

localVars == <<head, recent, issued, smooth, past, localSpectating, uncorrected, localDisplay, gone>>

Aged(age, elapsed) == IF age + elapsed > Retention THEN Retention ELSE age + elapsed

----------------------------------------------------------------------------
(* The runtime between two frames.                                         *)

(* append_prediction_correction.                                           *)
Recorded(list) ==
    Append(IF Len(list) = RecentCapacity THEN Tail(list) ELSE list, issued + 1)

Step ==
    /\ head.alive /\ head.tick < MaxTick
    /\ head' = [head EXCEPT !.pos = @ + Velocity, !.tick = @ + 1]
    /\ uncorrected' = [uncorrected EXCEPT !.pos = @ + Velocity]
    /\ UNCHANGED <<recent, issued, smooth, past, localSpectating, localDisplay, gone>>

(* Reconciliation moves the head by d, at its tick or, when the server     *)
(* ran on without a command, at a later one.                               *)
Reconcile(d, ticks) ==
    /\ head.alive /\ head.tick + ticks <= MaxTick /\ issued < MaxSequence
    /\ head' = [head EXCEPT !.pos = @ + d, !.tick = @ + ticks,
                            !.accumulated = @ - d, !.sequence = @ + 1]
    /\ recent' = Recorded(recent) /\ issued' = issued + 1
    /\ UNCHANGED <<smooth, past, localSpectating, uncorrected, localDisplay, gone>>

(* A correction of another player is recorded and moves nothing here.      *)
ReconcileRemote ==
    /\ head.alive /\ issued < MaxSequence
    /\ recent' = Recorded(recent) /\ issued' = issued + 1
    /\ UNCHANGED <<head, smooth, past, localSpectating, uncorrected, localDisplay, gone>>

(* hard_resync: the history was full; the head is the authority again.     *)
LocalHardResync(start, tick) ==
    /\ head.alive /\ head.resyncs < MaxResyncs /\ tick <= head.tick
    /\ head' = [head EXCEPT !.pos = start, !.tick = tick, !.accumulated = 0,
                            !.sequence = 0, !.resyncs = @ + 1]
    /\ recent' = <<>>
    /\ uncorrected' = [pos |-> start, kept |-> FALSE]
    /\ UNCHANGED <<issued, smooth, past, localSpectating, localDisplay, gone>>

(* An acknowledgement ahead of the timeline resyncs it, and the distance   *)
(* to the new head is the first correction after the resync.               *)
CatchUp(d) ==
    /\ head.alive /\ head.resyncs < MaxResyncs /\ issued < MaxSequence
    /\ head' = [head EXCEPT !.pos = @ + d, !.accumulated = -d, !.sequence = 1,
                            !.resyncs = @ + 1]
    /\ recent' = <<issued + 1>> /\ issued' = issued + 1
    /\ uncorrected' = [uncorrected EXCEPT !.pos = head.pos, !.kept = FALSE]
    /\ UNCHANGED <<smooth, past, localSpectating, localDisplay, gone>>

(* clear_prediction_state, and the first prediction of the next life.      *)
LocalDefeat ==
    /\ head.alive
    /\ head' = [head EXCEPT !.alive = FALSE, !.accumulated = 0, !.sequence = 0]
    /\ recent' = <<>>
    /\ UNCHANGED <<issued, smooth, past, localSpectating, uncorrected, localDisplay, gone>>

Respawn(start) ==
    /\ ~head.alive /\ head.life < MaxLives
    /\ head' = [head EXCEPT !.alive = TRUE, !.pos = start, !.life = @ + 1]
    /\ uncorrected' = [pos |-> start, kept |-> FALSE]
    /\ UNCHANGED <<recent, issued, smooth, past, localSpectating, localDisplay, gone>>

----------------------------------------------------------------------------
(* LocalPredictionPresentation.                                            *)

Blank ==
    [live |-> FALSE, previous |-> 0, position |-> 0, start |-> 0, age |-> 0,
     active |-> FALSE, accumulated |-> 0, sequence |-> 0, resyncs |-> 0,
     tick |-> 0, visual |-> FALSE, visualAge |-> 0]

(* evaluate_smoothing_offset.                                              *)
Offset(s) ==
    IF ~s.active \/ s.age >= Smoothing THEN 0
    ELSE (s.start * (Smoothing - s.age)) \div Smoothing

Initialized ==
    [Blank EXCEPT !.live = TRUE, !.previous = head.pos, !.position = head.pos,
                  !.accumulated = head.accumulated, !.sequence = head.sequence,
                  !.resyncs = head.resyncs, !.tick = head.tick]

MustInitialize(s) ==
    \/ ~s.live
    \/ head.resyncs < s.resyncs
    \/ head.resyncs = s.resyncs /\ (head.sequence < s.sequence \/ head.tick < s.tick)

AfterResync(s) ==
    IF head.resyncs = s.resyncs THEN s
    ELSE [s EXCEPT !.start = 0, !.age = 0, !.active = FALSE,
                   !.accumulated = 0, !.sequence = 0, !.visual = FALSE]

(* Mutant of AfterCorrection: the offset still decaying is forgotten.      *)
AfterCorrectionAlone(s) ==
    IF head.sequence = s.sequence THEN s
    ELSE LET offset == head.accumulated - s.accumulated
         IN  [s EXCEPT !.start = offset, !.age = 0, !.active = offset # 0,
                       !.visual = TRUE, !.visualAge = 0]

(* A new correction starts a new decay from what is left of the old one.   *)
AfterCorrection(s) ==
    IF head.sequence = s.sequence THEN s
    ELSE LET offset == Offset(s) + head.accumulated - s.accumulated
         IN  [s EXCEPT !.start = offset, !.age = 0, !.active = offset # 0,
                       !.visual = TRUE, !.visualAge = 0]

(* The pair of positions a frame interpolates.                             *)
AfterSteps(s, resynced) ==
    IF resynced \/ (head.tick = s.tick /\ head.pos # s.position)
    THEN [s EXCEPT !.previous = head.pos, !.position = head.pos]
    ELSE IF head.tick > s.tick
    THEN [s EXCEPT !.previous = s.position, !.position = head.pos]
    ELSE s

Updated(s) ==
    IF MustInitialize(s) THEN Initialized
    ELSE LET moved == AfterSteps(AfterCorrection(AfterResync(s)), head.resyncs # s.resyncs)
         IN  [moved EXCEPT !.accumulated = head.accumulated, !.sequence = head.sequence,
                           !.resyncs = head.resyncs, !.tick = head.tick,
                           !.visual = @ /\ moved.visualAge < Retention]

(* presentation_position: at alpha AlphaSteps the newest prediction.       *)
Position(s, alpha) ==
    s.previous + ((s.position - s.previous) * alpha) \div AlphaSteps + Offset(s)

----------------------------------------------------------------------------
(* PredictionCorrectionHistory.                                            *)

NoHistory == [live |-> FALSE, retained |-> <<>>, last |-> 0, resyncs |-> 0]

Cleared(p) == [p EXCEPT !.retained = <<>>]

Restarted(p) ==
    \/ ~p.live
    \/ head.resyncs # p.resyncs
    \/ recent # <<>> /\ Last(recent) < p.last

(* A sample of the runtime that is new to the history.                     *)
Noticed(p, n) ==
    IF n <= p.last THEN p
    ELSE [p EXCEPT !.retained = Append(IF Len(@) = HistoryCapacity THEN Tail(@) ELSE @,
                                       [sequence |-> n, age |-> 0]),
                   !.last = n]

(* What erase_if leaves: the oldest come first.                            *)
Lasting(list) ==
    LET expired == Max({n \in 0..Len(list) : \A i \in 1..n : list[i].age >= Retention})
    IN  SubSeq(list, expired + 1, Len(list))

PastUpdated(p) ==
    LET base == IF Restarted(p) THEN [NoHistory EXCEPT !.live = TRUE, !.resyncs = head.resyncs]
                ELSE p
        after[i \in 0..Len(recent)] ==
            IF i = 0 THEN base ELSE Noticed(after[i - 1], recent[i])
    IN  [after[Len(recent)] EXCEPT !.retained = Lasting(@)]

AgePast(p, elapsed) ==
    [p EXCEPT !.retained =
        [i \in DOMAIN @ |-> [sequence |-> @[i].sequence, age |-> Aged(@[i].age, elapsed)]]]

OnScreen(p) == {p.retained[i].sequence : i \in DOMAIN p.retained}

----------------------------------------------------------------------------
(* The frame loop.                                                         *)

NoLocalDisplay == [comparable |-> FALSE, full |-> 0, expected |-> 0, life |-> 0]

(* A drawn frame while playing.  The history variables compare what is     *)
(* drawn with the uncorrected motion plus what was left of older offsets.  *)
LocalPlayingFrame(elapsed) ==
    LET entered == IF localSpectating THEN Blank ELSE smooth
        aged    == [entered EXCEPT !.age = Aged(@, elapsed), !.visualAge = Aged(@, elapsed)]
        s       == Updated(aged)
        left    == IF uncorrected.kept /\ entered.live THEN Offset(aged) ELSE 0
        seen    == AgePast(past, elapsed)
        p       == PastUpdated(seen)
    IN  /\ head.alive
        /\ smooth' = s /\ past' = p /\ localSpectating' = FALSE
        /\ localDisplay' = [comparable |-> (~entered.live \/ localDisplay.life = head.life), life |-> head.life,
                       full |-> Position(s, AlphaSteps),
                       expected |-> (IF entered.live THEN uncorrected.pos ELSE head.pos) + left]
        /\ uncorrected' = [pos |-> head.pos, kept |-> TRUE]
        /\ gone' = gone \cup ((1..p.last) \ OnScreen(p))
        /\ UNCHANGED <<head, recent, issued>>

(* A drawn frame while localSpectating: the first one forgets the player.       *)
LocalSpectatorFrame ==
    /\ ~head.alive /\ ~localSpectating
    /\ smooth' = Blank /\ past' = Cleared(past) /\ localSpectating' = TRUE
    /\ gone' = gone \cup OnScreen(past)
    /\ localDisplay' = NoLocalDisplay
    /\ UNCHANGED <<head, recent, issued, uncorrected>>

(* The debug control that clears correction visuals.                       *)
ClearVisuals ==
    /\ head.alive /\ ~localSpectating
    /\ smooth' = [smooth EXCEPT !.visual = FALSE]
    /\ past' = Cleared(past)
    /\ gone' = gone \cup OnScreen(past)
    /\ UNCHANGED <<head, recent, issued, localSpectating, uncorrected, localDisplay>>

LocalInit ==
    /\ \E start \in Starts :
         /\ head = [pos |-> start, tick |-> 1, accumulated |-> 0, sequence |-> 0,
                    resyncs |-> 0, alive |-> TRUE, life |-> 1]
         /\ uncorrected = [pos |-> start, kept |-> FALSE]
    /\ recent = <<>> /\ issued = 0
    /\ smooth = Blank /\ past = NoHistory /\ localSpectating = FALSE
    /\ localDisplay = NoLocalDisplay /\ gone = {}

LocalNext ==
    \/ Step
    \/ \E d \in Corrections, ticks \in 0..1 : Reconcile(d, ticks)
    \/ ReconcileRemote
    \/ \E start \in Starts, tick \in 1..MaxTick : LocalHardResync(start, tick)
    \/ \E d \in Corrections : CatchUp(d)
    \/ LocalDefeat
    \/ \E start \in Starts : Respawn(start)
    \/ \E elapsed \in 0..MaxElapsed : LocalPlayingFrame(elapsed)
    \/ LocalSpectatorFrame
    \/ ClearVisuals

----------------------------------------------------------------------------
(* Properties.                                                             *)

(* Shape of the presentation's state.                                      *)
LocalTypeOK ==
    /\ head.tick \in 1..MaxTick /\ head.sequence \in 0..MaxSequence
    /\ recent \in BoundedSeq(1..issued, RecentCapacity)
    /\ smooth.age \in 0..Retention /\ smooth.visualAge \in 0..Retention
    /\ Len(past.retained) <= HistoryCapacity
    /\ OnScreen(past) \subseteq 1..issued

(* At the end of a tick's interpolation the player is drawn where the      *)
(* uncorrected motion would have led, plus what was left of older          *)
(* corrections: however many corrections, steps and resyncs fell between   *)
(* two frames, none of them shows as a jump (update, install_authority).   *)
(* A life that began with no frame drawn since an earlier one is exempt:   *)
(* the code cannot tell that its counters belong to another life.          *)
CorrectionsAbsorbed ==
    localDisplay.comparable => localDisplay.full = localDisplay.expected

(* A correction that left the screen, by age, by eviction or because it    *)
(* was cleared, never comes back, though the runtime still lists it        *)
(* (PredictionCorrectionHistory::update and clear).                        *)
NoCorrectionReturns == OnScreen(past) \cap gone = {}

(* Corrections are bounded in number and age, absorbed without a jump, and *)
(* gone once they have left the screen.                                    *)
LocalSound == LocalTypeOK /\ CorrectionsAbsorbed /\ NoCorrectionReturns
=============================================================================
