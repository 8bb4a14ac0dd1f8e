-------------------------- MODULE ClientPrediction --------------------------
(***************************************************************************)
(* The prediction of one client runtime (client_runtime.cpp): which        *)
(* commands its input history retains, which of them its rollback timeline *)
(* has stepped, and which call of the timeline install_authority makes for *)
(* a snapshot.                                                             *)
(*                                                                         *)
(* A timeline is seen through its frontiers (the module Timeline has the   *)
(* rest).  Whether a replay leaves the predicted world without the owner's *)
(* player, and whether the retained scope covers the required one, are     *)
(* free choices; hydrating, projecting and stepping a coherent snapshot    *)
(* does not fail.  The owner of a session never changes.  Commands reach   *)
(* the server in order (InputFlow), snapshots may be lost, repeated or     *)
(* reordered.  The queue of event batches, drained on every frame, and the *)
(* pause of a full outbox (InputFlow) are left out.                        *)
(***************************************************************************)
EXTENDS Integers, Sequences, FiniteSets, SequencesExt

CONSTANTS
  None,              \* no timeline_
  InvalidInput,      \* InputSequenceId::kInvalidValue
  HistoryCapacity,   \* kPredictionHistoryCapacity
  InvalidEpoch,      \* ScopeEpoch::kInvalidValue
  MaxTick,           \* bound: server ticks
  MaxRespawns        \* bound: respawn requests in flight

Inputs == 0 .. InvalidInput - 1
NoInput == -1        \* an invalid InputSequenceId
NoSnapshot == [tick |-> -1, ack |-> NoInput, mode |-> "Playing"]

Timelines ==
  [tick : 0 .. MaxTick, acked : Inputs \cup {NoInput}, submitted : Inputs \cup {NoInput},
   frames : Seq(Inputs), epoch : 0 .. InvalidEpoch - 1, alive : BOOLEAN]

ASSUME PredictionAssumption ==
  /\ InvalidInput \in Nat \ {0} /\ HistoryCapacity \in Nat \ {0}
  /\ InvalidEpoch \in Nat \ {0} /\ MaxTick \in Nat /\ MaxRespawns \in Nat
  /\ None \notin Timelines

VARIABLES
  welcomed,     \* world_rules_ is set
  world,        \* world_: the newest snapshot applied
  next,         \* next_input_id_
  inputs,       \* input_history_
  timeline,     \* timeline_, its frontiers
  failed,       \* the RuntimeError reported, or "none"
  respawns,     \* the commands that request a respawn
  doubled,      \* history: one was sent while another was unacknowledged
  authority,    \* the server's tick, last processed command and session mode
  snapshots     \* the snapshots sent

predictionClient == <<welcomed, world, next, inputs, timeline, failed, respawns, doubled>>
predictionVars == <<predictionClient, authority, snapshots>>

-----------------------------------------------------------------------------
(* The timeline's calls, as the timelines they may commit; none is a        *)
(* failure.  alive tells whether the predicted world has a player of the    *)
(* owner: each replayed or stepped command may remove it.                   *)

\* What discard_through pops: how many of the leading commands have a sequence
\* that is no later.
Popped(seq, ack) ==
  Max({n \in 0 .. Len(seq) : \A i \in 1 .. n : seq[i] <= ack})

\* Faulty variant: the command after the acknowledged one goes too.
Beyond_OffByOne(seq, ack) == SubSeq(seq, Popped(seq, ack + 1) + 1, Len(seq))

\* What discard_through leaves.
Beyond(seq, ack) == SubSeq(seq, Popped(seq, ack) + 1, Len(seq))

Installed(s, submitted, epoch) ==
  {[tick |-> s.tick, acked |-> s.ack, submitted |-> IF s.ack > submitted THEN s.ack ELSE submitted,
    frames |-> << >>, epoch |-> epoch, alive |-> TRUE]}

HardResynced(t, s, epoch) ==
  IF s.tick >= t.tick /\ s.ack >= t.acked THEN Installed(s, t.submitted, epoch) ELSE {}

\* reconcile, refresh_authority and rebase_scope.
Replayed(t, s, epoch) ==
  LET kept == Beyond(t.frames, s.ack)
  IN {[tick |-> s.tick, acked |-> s.ack, submitted |-> t.submitted, frames |-> kept,
       epoch |-> epoch, alive |-> alive] :
        alive \in {a \in BOOLEAN : /\ s.tick >= t.tick
                                   /\ s.ack >= t.acked /\ s.ack <= t.submitted
                                   /\ kept = << >> => a}}

\* advance_timeline for each of the commands until one is Deferred, because the
\* predicted owner is absent.
Advanced(t, commands) ==
  {[t EXCEPT !.frames = @ \o SubSeq(commands, 1, p[1]), !.alive = p[2],
             !.submitted = IF p[1] = 0 THEN @ ELSE commands[p[1]]] :
     p \in {q \in (0 .. Len(commands)) \X BOOLEAN :
       /\ q[1] = 0 => q[2] = t.alive
       /\ q[1] > 0 => /\ t.alive
                      /\ commands[1] > t.submitted /\ commands[1] > t.acked
                      /\ Len(t.frames) + q[1] <= HistoryCapacity
       /\ q[1] < Len(commands) => ~q[2]}}

-----------------------------------------------------------------------------
(* install_authority.                                                      *)

Outcome(error, t, kept) == [error |-> error, timeline |-> t, inputs |-> kept]

\* The timelines of a call that commits one of ts, or its failure.
Committed(ts, before, kept) ==
  IF ts = {} THEN {Outcome("PredictionTimelineFailed", before, kept)}
  ELSE {Outcome("none", t, kept) : t \in ts}

\* Faulty variant: an acknowledgement beyond the timeline is reconciled.
CatchUp_Never(s, reason) == FALSE

\* The acknowledgement passed what the timeline has stepped: the commands in
\* between were deferred.
CatchUp(s, reason) ==
  reason # "HardResync" /\ timeline # None /\ s.ack > timeline.submitted

\* The call that install_authority selects; rebuild: the retained scope does
\* not cover the required one.
SelectedTimeline(s, reason, rebuild) ==
  LET epoch == IF rebuild THEN timeline.epoch + 1 ELSE timeline.epoch
  IN IF timeline = None THEN Installed(s, NoInput, 0)
     ELSE IF reason = "HardResync" \/ CatchUp(s, reason) THEN HardResynced(timeline, s, epoch)
     ELSE Replayed(timeline, s, epoch)

\* The retained commands the selected call has not stepped.
Buffered(t, kept) ==
  Beyond(kept, IF t.frames = << >> THEN t.acked ELSE t.frames[Len(t.frames)])

\* The loop over them, for each timeline the selected call may have committed.
Resumed(ts, kept) == UNION {Advanced(t, Buffered(t, kept)) : t \in ts}

\* install_authority for a Playing snapshot, with `history' as input_history_.
Installs(s, history, reason, rebuild) ==
  LET kept == Beyond(history, s.ack)
      failure(error) == {Outcome(error, timeline, history)}
      committed == Resumed(SelectedTimeline(s, reason, rebuild), kept)
  IN IF rebuild /\ timeline # None /\ timeline.epoch = InvalidEpoch - 1
     THEN failure("PredictionScopeFailed")
     ELSE IF \/ CatchUp(s, reason) /\ s.ack \notin Range(history)
             \/ committed = {}
     THEN failure("PredictionTimelineFailed")
     ELSE Committed(committed, timeline, kept)

\* A Spectating snapshot ends the timeline with a hard resync, and
\* clear_prediction_state follows.
Ends(s) ==
  IF timeline # None /\ HardResynced(timeline, s, timeline.epoch) = {}
  THEN {Outcome("PredictionTimelineFailed", timeline, inputs)}
  ELSE {Outcome("none", None, << >>)}

-----------------------------------------------------------------------------
(* The client.                                                             *)

\* Faulty variant: the defeated player's prediction is kept.
Prediction_Kept(s, rebuild) == Installs(s, inputs, "NewAuthority", rebuild)

Prediction(s, rebuild) ==
  IF s.mode = "Spectating" THEN Ends(s) ELSE Installs(s, inputs, "NewAuthority", rebuild)

ValidAcknowledgement(s) == s.ack >= world.ack /\ s.ack < next

\* process_snapshot: a stale snapshot is dropped, before the welcome the world
\* alone is replaced, and no error leaves a trace but itself.
ProcessSnapshot(s, rebuild) ==
  /\ failed = "none"
  /\ \/ s.tick <= world.tick /\ UNCHANGED predictionVars
     \/ /\ s.tick > world.tick /\ ~ValidAcknowledgement(s)
        /\ failed' = "InvalidInputAcknowledgement"
        /\ UNCHANGED <<welcomed, world, next, inputs, timeline, respawns, doubled, authority,
                       snapshots>>
     \/ /\ s.tick > world.tick /\ ValidAcknowledgement(s)
        /\ \E o \in IF welcomed THEN Prediction(s, rebuild)
                    ELSE {Outcome("none", timeline, inputs)} :
             /\ failed' = o.error
             /\ timeline' = o.timeline /\ inputs' = o.inputs
             /\ world' = IF o.error = "none" THEN s ELSE world
        /\ UNCHANGED <<welcomed, next, respawns, doubled, authority, snapshots>>

\* The first welcome: a snapshot that came before it is installed now.
ProcessWelcome ==
  /\ failed = "none" /\ ~welcomed
  /\ welcomed' = TRUE
  /\ \E o \in IF world = NoSnapshot THEN {Outcome("none", None, << >>)}
              ELSE Prediction(world, TRUE) :
       failed' = o.error /\ timeline' = o.timeline /\ inputs' = o.inputs
  /\ UNCHANGED <<world, next, respawns, doubled, authority, snapshots>>

\* update_ready_state has made the client Ready, and there are commands left.
MaySubmit ==
  failed = "none" /\ welcomed /\ world # NoSnapshot /\ next < InvalidInput

\* PredictionHistory: full and push_back.
HistoryFull == Len(inputs) = HistoryCapacity
Retained(history, command) ==
  IF Len(history) = HistoryCapacity THEN history ELSE Append(history, command)

\* hard_resync of a full history: a failure restores the history and has one
\* name.
Resynced(rebuild) ==
  IF HistoryFull
  THEN {IF o.error = "none" THEN o
        ELSE Outcome("MissingControlledEntity", timeline, inputs) :
          o \in Installs(world, << >>, "HardResync", rebuild)}
  ELSE {Outcome("none", timeline, inputs)}

\* ensure_prediction_scope for one more command: the retained scope covers it,
\* or the timeline is rebased to the next epoch.
Ensured(o, rebase) ==
  IF ~rebase \/ o.error # "none" THEN {o}
  ELSE IF o.timeline.epoch = InvalidEpoch - 1
       THEN {Outcome("PredictionScopeFailed", o.timeline, o.inputs)}
  ELSE Committed(Resumed(Replayed(o.timeline, world, o.timeline.epoch + 1), o.inputs),
                 o.timeline, o.inputs)

\* The command is retained and stepped, or deferred.
Stepped(o) ==
  IF o.error # "none" THEN {o}
  ELSE IF ~o.timeline.alive THEN {Outcome("none", o.timeline, Retained(o.inputs, next))}
  ELSE Committed(Advanced(o.timeline, <<next>>), o.timeline, Retained(o.inputs, next))

\* submit_input while Playing.
SubmitPlaying(rebase, rebuild) ==
  /\ MaySubmit /\ world.mode = "Playing" /\ timeline # None
  /\ \E resync \in Resynced(rebuild) : \E ensured \in Ensured(resync, rebase) :
       \E o \in Stepped(ensured) :
         /\ failed' = o.error
         /\ timeline' = o.timeline /\ inputs' = o.inputs
         /\ next' = IF next \in Range(o.inputs) THEN next + 1 ELSE next
  /\ UNCHANGED <<welcomed, world, respawns, doubled, authority, snapshots>>

\* submit_input while Spectating, which the apps call for a respawn request: the
\* command is sent, and not retained.  Nothing keeps the player from requesting
\* again before the first request is answered.
SubmitRespawn ==
  /\ MaySubmit /\ world.mode = "Spectating"
  /\ Cardinality({q \in respawns : q > world.ack}) < MaxRespawns
  /\ respawns' = respawns \cup {next}
  /\ doubled' = (doubled \/ \E q \in respawns : q > world.ack)
  /\ next' = next + 1
  /\ UNCHANGED <<welcomed, world, inputs, timeline, failed, authority, snapshots>>

-----------------------------------------------------------------------------
(* The server.                                                             *)

\* step: at most one command is applied, a respawn request may be granted, a
\* player may be absorbed, and every other tick has a snapshot.
ServerStep(applies, granted, absorbed) ==
  LET ack == IF applies THEN authority.ack + 1 ELSE authority.ack
      respawned == applies /\ granted /\ ack \in respawns /\ authority.mode = "Spectating"
      mode == IF absorbed THEN "Spectating" ELSE IF respawned THEN "Playing" ELSE authority.mode
      after == [tick |-> authority.tick + 1, ack |-> ack, mode |-> mode]
  IN /\ authority.tick < MaxTick
     /\ applies => authority.ack + 1 < next
     /\ absorbed => authority.mode = "Playing" \/ respawned
     /\ authority' = after
     /\ snapshots' = IF after.tick % 2 = 0 THEN snapshots \cup {after} ELSE snapshots
     /\ UNCHANGED predictionClient

-----------------------------------------------------------------------------
\* The session was accepted: its welcome and its first snapshot are under way.
PredictionInit ==
  /\ welcomed = FALSE /\ world = NoSnapshot /\ next = 0 /\ inputs = << >>
  /\ timeline = None /\ failed = "none" /\ respawns = {} /\ doubled = FALSE
  /\ authority = [tick |-> 0, ack |-> NoInput, mode |-> "Playing"]
  /\ snapshots = {authority}

PredictionNext ==
  \/ \E s \in snapshots, rebuild \in BOOLEAN : ProcessSnapshot(s, rebuild)
  \/ ProcessWelcome
  \/ \E rebase, rebuild \in BOOLEAN : SubmitPlaying(rebase, rebuild)
  \/ SubmitRespawn
  \/ \E applies, granted, absorbed \in BOOLEAN : ServerStep(applies, granted, absorbed)

PredictionSpec == PredictionInit /\ [][PredictionNext]_predictionVars

-----------------------------------------------------------------------------
(* Properties.                                                             *)

\* Types of the client's fields.
PredictionTypeOK ==
  /\ welcomed \in BOOLEAN /\ doubled \in BOOLEAN
  /\ next \in 0 .. InvalidInput /\ respawns \subseteq Inputs
  /\ inputs \in Seq(Inputs) /\ Len(inputs) <= HistoryCapacity
  /\ timeline # None => timeline \in Timelines
  /\ failed \in {"none", "InvalidInputAcknowledgement", "PredictionScopeFailed",
                 "PredictionTimelineFailed", "MissingControlledEntity"}

\* A healthy client predicts exactly while it plays, from the newest snapshot;
\* its history holds, without gaps, the unacknowledged commands up to the last
\* one submitted, the timeline has stepped a prefix of them, and the rest is
\* deferred only while the predicted player is gone.
PredictionCurrent ==
  failed = "none" /\ welcomed /\ world # NoSnapshot =>
    /\ timeline # None <=> world.mode = "Playing"
    /\ \A i \in DOMAIN inputs : inputs[i] = next - Len(inputs) + i - 1 /\ inputs[i] > world.ack
    /\ timeline # None =>
         /\ timeline.tick = world.tick /\ timeline.acked = world.ack
         /\ IsPrefix(timeline.frames, inputs)
         /\ timeline.alive => timeline.frames = inputs

\* The client's fields have their types and the prediction is the newest
\* snapshot with the unacknowledged commands on top.
PredictionSound == PredictionTypeOK /\ PredictionCurrent

\* No order of snapshots, deferred commands, defeats, respawns and full histories
\* makes the client's frontiers contradict what the server acknowledges: only an
\* exhausted scope epoch fails an install.  (So the stress gate of
\* docs/plans/14-input-flow-control-spectator-stress.md asks: no prediction
\* failure; a second respawn request before the answer to the first breaks it.)
FrontiersReconcile ==
  failed # "none" =>
    /\ failed \in {"PredictionScopeFailed", "MissingControlledEntity"}
    /\ timeline.epoch = InvalidEpoch - 1

\* Nothing else breaks it: unless the player requested a respawn while an earlier
\* request was unacknowledged, no order of snapshots, deferred commands, defeats,
\* respawns and full histories fails the prediction before the scope epochs are
\* exhausted; and those two are the only ways it fails.
FailuresExplained ==
  FrontiersReconcile \/ (doubled /\ failed = "PredictionTimelineFailed")

\* A retained command is given up only because the server acknowledged it, the
\* player was defeated, or a full history was resynced to take a new command.
CommandsRetained ==
  [][\A i \in DOMAIN inputs :
       \/ inputs[i] \in Range(inputs')
       \/ inputs[i] <= world'.ack
       \/ world'.mode = "Spectating"
       \/ Len(inputs) = HistoryCapacity /\ (next' > next \/ failed' # "none")]_predictionVars
=============================================================================
