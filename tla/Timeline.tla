------------------------------ MODULE Timeline ------------------------------
(***************************************************************************)
(* The rollback timeline of engine/rollback (timeline.hpp): a committed    *)
(* authoritative checkpoint plus a bounded history of predicted frames,    *)
(* replayed from a newer checkpoint whenever authority arrives.            *)
(*                                                                         *)
(* The game supplies the model (restore, capture, step, event keys and the *)
(* stimulus refresh), which are the operator constants below.  Each public *)
(* call of the class is one action: it either commits, and `commit' is the *)
(* Commit it returns, or fails, and `commit' is NoCommit while every       *)
(* committed field keeps its value.  Which TimelineErrorCode a failure     *)
(* carries, the digests, the state difference and the counters are         *)
(* diagnostics and left out.                                               *)
(***************************************************************************)
EXTENDS Integers, Sequences, EventJournal

CONSTANTS
  Capacity,         \* HistorySettings::capacity
  MaxSequence,      \* largest valid CommandSequence value
  MaxEpoch,         \* largest valid ScopeEpoch value
  Checkpoints,      \* Model::Checkpoint
  States,           \* Model::State
  Scopes,           \* Model::Scope
  Stimuli,          \* Model::Stimulus
  Refreshes,        \* the stimulus-refresh callbacks a caller may pass
  AuthorityFrames,  \* the authority frames a caller may pass
  Retain,           \* the refresh used by the plain calls: keep the stimulus
  Restore(_, _),    \* Model::restore(checkpoint, scope)
  Capture(_, _),    \* Model::capture(state, scope)
  Step(_, _, _),    \* Model::step(state, stimulus, scope)
  Refresh(_, _, _, _, _)
                    \* refresh(callback, sequence, stimulus, state, scope)

\* A StrongId's invalid value is the largest one of its representation;
\* std::nullopt of an optional sequence is the value below all of them.
Sequences == 0 .. MaxSequence
InvalidSequence == MaxSequence + 1
NoSequence == -1
Epochs == 0 .. MaxEpoch
InvalidEpoch == MaxEpoch + 1

ASSUME BoundsAssumption ==
  /\ Capacity \in Nat \ {0}
  /\ MaxSequence \in Nat
  /\ MaxEpoch \in Nat

ASSUME AuthorityAssumption ==
  /\ AuthorityFrames \subseteq
       [tick : Nat, ack : Sequences \cup {NoSequence, InvalidSequence},
        epoch : Epochs \cup {InvalidEpoch}, checkpoint : Checkpoints,
        events : SUBSET AuthorityEvents]

\* The contract of a rollback model: operations stay within their types, a
\* state that a step reached survives capture and restore, and Retain returns
\* the stimulus it was given.
ASSUME ModelAssumption ==
  /\ None \notin States /\ None \notin Checkpoints /\ None \notin Scopes
  /\ None \notin Stimuli /\ None \notin Events
  /\ Retain \in Refreshes
  /\ \A c \in Checkpoints, sc \in Scopes :
       Restore(c, sc) \in States \cup {None}
  /\ \A s \in States, sc \in Scopes : Capture(s, sc) \in Checkpoints
  /\ \A s \in States, st \in Stimuli, sc \in Scopes :
       LET stepped == Step(s, st, sc)
       IN /\ DOMAIN stepped = {"state", "events"}
          /\ stepped.state \in States \cup {None}
          /\ stepped.events \in Seq(Events)
          /\ stepped.state # None =>
               Restore(Capture(stepped.state, sc), sc) = stepped.state
  /\ \A e \in Events : EventKey(e) \in Keys
  /\ \A r \in Refreshes, q \in Sequences, st \in Stimuli, s \in States,
        sc \in Scopes :
       /\ Refresh(r, q, st, s, sc) \in Stimuli \cup {None}
       /\ r = Retain => Refresh(r, q, st, s, sc) = st

VARIABLES
  state,      \* state_, None until initialize
  base,       \* base_checkpoint_
  scope,      \* scope_
  history,    \* history_, oldest frame first
  authTick,   \* authoritative_tick_
  predTick,   \* predicted_tick_
  epoch,      \* scope_epoch_
  acked,      \* acknowledged_through_
  submitted,  \* last_submitted_sequence_
  commit      \* what the last call returned

committed ==
  <<state, base, scope, history, authTick, predTick, epoch, acked, submitted>>
vars == <<committed, commit>>

Frames ==
  [tick : Nat, seq : Sequences, stimulus : Stimuli, checkpoint : Checkpoints,
   events : Seq(Events), epoch : Epochs]

Kinds ==
  {"Initialize", "Advance", "Reconcile", "AuthorityRefresh", "ScopeRebase",
   "HardResync"}
NoCommit == [kind |-> "None", changes |-> {}, retired |-> {}]
Commits == [kind : Kinds, changes : SUBSET Changes, retired : SUBSET Keys]

initialized == state # None

-----------------------------------------------------------------------------
(* Event journals.                                                         *)

\* The events of a frame sequence.
Journal(frames) ==
  UNION {{frames[i].events[j] : j \in DOMAIN frames[i].events} :
           i \in DOMAIN frames}

\* append_events and build_event_map accept the frames: no key occurs twice.
UniqueKeys(frames) ==
  \A i, k \in DOMAIN frames :
    \A j \in DOMAIN frames[i].events, l \in DOMAIN frames[k].events :
      EventKey(frames[i].events[j]) = EventKey(frames[k].events[l])
        => i = k /\ j = l

-----------------------------------------------------------------------------
(* Replay.                                                                 *)

\* Faulty variant: the loop also drops the first unacknowledged frame.
AckedCount_OffByOne(ack) ==
  CHOOSE n \in 0 .. Len(history) :
    \A i \in DOMAIN history : history[i].seq <= ack + 1 <=> i <= n

\* The frames the replay loop keeps.  Sequences increase along the history, so
\* the acknowledged frames it skips are a prefix.
AckedCount(ack) ==
  CHOOSE n \in 0 .. Len(history) :
    \A i \in DOMAIN history : history[i].seq <= ack <=> i <= n
Retained(ack) == SubSeq(history, AckedCount(ack) + 1, Len(history))

\* One iteration of the replay loop: refresh the stimulus, step the scratch
\* state.  None is a failure, and every later iteration of a failed loop.
NextScratch(s, frame, refresh, sc) ==
  LET stimulus == Refresh(refresh, frame.seq, frame.stimulus, s, sc)
  IN IF s = None \/ stimulus = None THEN None ELSE Step(s, stimulus, sc).state

\* The scratch state before each replayed frame and after the last one.
ScratchStates(frames, start, refresh, sc) ==
  LET scratch[i \in 0 .. Len(frames)] ==
        IF i = 0 THEN start
        ELSE NextScratch(scratch[i - 1], frames[i], refresh, sc)
  IN scratch

\* Faulty variants: the loop keeps the frame's old tick, or steps the refreshed
\* stimulus but stores the old one.
ReplayedFrame_OldTick(frame, s, refresh, sc, tick, ep) ==
  LET stimulus == Refresh(refresh, frame.seq, frame.stimulus, s, sc)
      stepped == Step(s, stimulus, sc)
  IN [frame EXCEPT !.stimulus = stimulus, !.events = stepped.events, !.epoch = ep,
                   !.checkpoint = Capture(stepped.state, sc)]
ReplayedFrame_OldStimulus(frame, s, refresh, sc, tick, ep) ==
  LET stepped == Step(s, Refresh(refresh, frame.seq, frame.stimulus, s, sc), sc)
  IN [frame EXCEPT !.tick = tick, !.events = stepped.events, !.epoch = ep,
                   !.checkpoint = Capture(stepped.state, sc)]

\* The frame the loop pushes for a retained one, stepped from scratch state s.
ReplayedFrame(frame, s, refresh, sc, tick, ep) ==
  LET stimulus == Refresh(refresh, frame.seq, frame.stimulus, s, sc)
      stepped == Step(s, stimulus, sc)
  IN [tick |-> tick, seq |-> frame.seq, stimulus |-> stimulus,
      checkpoint |-> Capture(stepped.state, sc), events |-> stepped.events,
      epoch |-> ep]

-----------------------------------------------------------------------------
(* Operations.                                                             *)

Init ==
  /\ state = None
  /\ base = None
  /\ scope = None
  /\ history = << >>
  /\ authTick = 0
  /\ predTick = 0
  /\ epoch = InvalidEpoch
  /\ acked = NoSequence
  /\ submitted = NoSequence
  /\ commit = NoCommit

\* failure(): nothing but the failure counter changes.
Fail == commit' = NoCommit /\ UNCHANGED committed

ValidIds(a) == a.epoch # InvalidEpoch /\ a.ack # InvalidSequence

\* Installing an authority frame as the new base with an empty history.
Install(a, sc, kind) ==
  /\ state' = Restore(a.checkpoint, sc)
  /\ base' = a.checkpoint
  /\ scope' = sc
  /\ history' = << >>
  /\ authTick' = a.tick
  /\ predTick' = a.tick
  /\ epoch' = a.epoch
  /\ acked' = a.ack
  /\ submitted' = IF a.ack > submitted THEN a.ack ELSE submitted
  /\ commit' = [kind |-> kind,
                changes |-> EventChanges(Journal(history), {}, a.events),
                retired |-> RetiredKeys(Journal(history), {}, a.events)]

MayInitialize(a, sc) ==
  /\ ~initialized
  /\ ValidIds(a)
  /\ ValidAuthorityEvents(a.events)
  /\ Restore(a.checkpoint, sc) # None

Initialize(a, sc) ==
  \/ /\ MayInitialize(a, sc)
     /\ Install(a, sc, "Initialize")
  \/ ~MayInitialize(a, sc) /\ Fail

HeadCheckpoint ==
  IF history = << >> THEN base ELSE history[Len(history)].checkpoint

\* Faulty variant: the reserved invalid sequence is accepted.
MayAdvance_InvalidAccepted(seq) ==
  /\ initialized
  /\ seq > submitted
  /\ seq > acked
  /\ Len(history) < Capacity
  /\ Restore(HeadCheckpoint, scope) # None

MayAdvance(seq) ==
  /\ initialized
  /\ seq # InvalidSequence
  /\ seq > submitted
  /\ seq > acked
  /\ Len(history) < Capacity
  /\ Restore(HeadCheckpoint, scope) # None

\* The frame advance() would append.
PredictedFrame(seq, stimulus) ==
  LET stepped == Step(Restore(HeadCheckpoint, scope), stimulus, scope)
  IN [tick |-> predTick + 1, seq |-> seq, stimulus |-> stimulus,
      checkpoint |-> Capture(stepped.state, scope), events |-> stepped.events,
      epoch |-> epoch]

AdvanceSteps(seq, stimulus) ==
  /\ MayAdvance(seq)
  /\ Step(Restore(HeadCheckpoint, scope), stimulus, scope).state # None
  /\ UniqueKeys(Append(history, PredictedFrame(seq, stimulus)))

Advance(seq, stimulus) ==
  \/ /\ AdvanceSteps(seq, stimulus)
     /\ LET frame == PredictedFrame(seq, stimulus)
        IN /\ history' = Append(history, frame)
           /\ commit' = [kind |-> "Advance",
                         changes |-> {Change("FirstPredicted", EventKey(e),
                                             None, e) :
                                        e \in Journal(<<frame>>)},
                         retired |-> {}]
     /\ state' = Step(Restore(HeadCheckpoint, scope), stimulus, scope).state
     /\ predTick' = predTick + 1
     /\ submitted' = seq
     /\ UNCHANGED <<base, scope, authTick, epoch, acked>>
  \/ ~AdvanceSteps(seq, stimulus) /\ Fail

\* Faulty variant: an acknowledgement may regress.
ValidAuthority_AckRegresses(a, strictlyNewer, mayPassSubmitted) ==
  /\ ValidIds(a)
  /\ IF strictlyNewer THEN a.tick > authTick ELSE a.tick >= authTick
  /\ mayPassSubmitted \/ a.ack <= submitted
  /\ ValidAuthorityEvents(a.events)

\* validate_authority: an accepted tick, and an acknowledgement that neither
\* disappears, regresses, nor (unless the caller resyncs) passes the last
\* submitted command.  Every caller that accepts an equal tick also accepts a
\* different checkpoint for it, so the MustMatch rule never decides.
ValidAuthority(a, strictlyNewer, mayPassSubmitted) ==
  /\ ValidIds(a)
  /\ IF strictlyNewer THEN a.tick > authTick ELSE a.tick >= authTick
  /\ a.ack >= acked
  /\ mayPassSubmitted \/ a.ack <= submitted
  /\ ValidAuthorityEvents(a.events)

\* reconcile_with_scope: restore authority in scratch, replay the retained
\* frames, resolve events, and only then replace the committed fields.
Replay(a, sc, refresh, kind, strictlyNewer) ==
  LET kept == Retained(a.ack)
      scratch == ScratchStates(kept, Restore(a.checkpoint, sc), refresh, sc)
      replayed == [i \in 1 .. Len(kept) |->
                     ReplayedFrame(kept[i], scratch[i - 1], refresh, sc,
                                   a.tick + i, a.epoch)]
      may == /\ ValidAuthority(a, strictlyNewer, FALSE)
             /\ Restore(a.checkpoint, sc) # None
             /\ scratch[Len(kept)] # None
             /\ UniqueKeys(replayed)
             /\ ~Conflicting(Journal(replayed), a.events)
  IN \/ /\ may
        /\ state' = scratch[Len(kept)]
        /\ base' = a.checkpoint
        /\ scope' = sc
        /\ history' = replayed
        /\ authTick' = a.tick
        /\ predTick' = a.tick + Len(kept)
        /\ epoch' = a.epoch
        /\ acked' = a.ack
        /\ commit' = [kind |-> kind,
                      changes |-> EventChanges(Journal(history),
                                               Journal(replayed), a.events),
                      retired |-> RetiredKeys(Journal(history),
                                              Journal(replayed), a.events)]
        /\ UNCHANGED submitted
     \/ ~may /\ Fail

Reconcile(a, refresh) ==
  \/ /\ initialized /\ a.epoch = epoch
     /\ Replay(a, scope, refresh, "Reconcile", TRUE)
  \/ ~(initialized /\ a.epoch = epoch) /\ Fail

RefreshAuthority(a, refresh) ==
  \/ /\ initialized /\ a.epoch = epoch /\ a.tick = authTick
     /\ Replay(a, scope, refresh, "AuthorityRefresh", FALSE)
  \/ ~(initialized /\ a.epoch = epoch /\ a.tick = authTick) /\ Fail

RebaseScope(a, sc, refresh) ==
  \/ /\ initialized /\ a.epoch # InvalidEpoch /\ a.epoch > epoch
     /\ Replay(a, sc, refresh, "ScopeRebase", FALSE)
  \/ ~(initialized /\ a.epoch # InvalidEpoch /\ a.epoch > epoch) /\ Fail

\* Faulty variant: a resync within the epoch may replace the scope.
MayHardResync_AnyScope(a, sc) ==
  /\ initialized
  /\ a.epoch >= epoch
  /\ ValidAuthority(a, FALSE, TRUE)
  /\ Restore(a.checkpoint, sc) # None

\* hard_resync may replace the scope only together with its epoch.
MayHardResync(a, sc) ==
  /\ initialized
  /\ a.epoch >= epoch
  /\ a.epoch = epoch => sc = scope
  /\ ValidAuthority(a, FALSE, TRUE)
  /\ Restore(a.checkpoint, sc) # None

HardResync(a, sc) ==
  \/ /\ MayHardResync(a, sc)
     /\ Install(a, sc, "HardResync")
  \/ ~MayHardResync(a, sc) /\ Fail

Next ==
  \/ \E a \in AuthorityFrames, sc \in Scopes : Initialize(a, sc)
  \/ \E seq \in Sequences \cup {InvalidSequence}, st \in Stimuli :
       Advance(seq, st)
  \/ \E a \in AuthorityFrames, r \in Refreshes : Reconcile(a, r)
  \/ \E a \in AuthorityFrames, r \in Refreshes : RefreshAuthority(a, r)
  \/ \E a \in AuthorityFrames, sc \in Scopes, r \in Refreshes :
       RebaseScope(a, sc, r)
  \/ \E a \in AuthorityFrames, sc \in Scopes : HardResync(a, sc)

Spec == Init /\ [][Next]_vars

-----------------------------------------------------------------------------
(* Properties.                                                             *)

\* Type correctness of the committed fields and of the returned value; the
\* optional fields are present together.
TypeOK ==
  /\ state \in States \cup {None}
  /\ base \in Checkpoints \cup {None}
  /\ scope \in Scopes \cup {None}
  /\ history \in Seq(Frames)
  /\ authTick \in Nat
  /\ predTick \in Nat
  /\ epoch \in Epochs \cup {InvalidEpoch}
  /\ acked \in Sequences \cup {NoSequence}
  /\ submitted \in Sequences \cup {NoSequence}
  /\ commit \in Commits \cup {NoCommit}
  /\ initialized => base \in Checkpoints /\ scope \in Scopes /\ epoch \in Epochs
  /\ ~initialized => history = << >> /\ submitted = NoSequence

\* The predicted frames are the consecutive ticks after the authoritative one:
\* no replay leaves a hole, a duplicate or a head that disagrees with
\* predicted_tick().
TicksContiguous ==
  /\ predTick = authTick + Len(history)
  /\ \A i \in DOMAIN history : history[i].tick = authTick + i

\* The command frontiers: the retained frames are exactly ordered between the
\* acknowledgement and the last submitted command, each command once, within
\* the capacity, however acknowledgements, resyncs and advances interleave.
FrontiersOrdered ==
  /\ acked <= submitted
  /\ Len(history) <= Capacity
  /\ \A i \in DOMAIN history : acked < history[i].seq /\ history[i].seq <= submitted
  /\ \A i, j \in DOMAIN history : i < j => history[i].seq < history[j].seq

\* The committed prediction is a replay of the committed authority: every
\* retained frame is what the model computes from the frame before it under the
\* current scope and epoch, and the live state is the restored head, so no call
\* mixes frames of two bases, scopes or epochs.
ReplayCoherent ==
  initialized =>
    LET before(i) == IF i = 1 THEN base ELSE history[i - 1].checkpoint
    IN /\ state = Restore(HeadCheckpoint, scope)
       /\ \A i \in DOMAIN history :
            LET stepped == Step(Restore(before(i), scope), history[i].stimulus,
                                scope)
            IN /\ history[i].epoch = epoch
               /\ history[i].checkpoint = Capture(stepped.state, scope)
               /\ history[i].events = stepped.events

\* Keys stay unique over the retained history, so building the event index of
\* the committed history never fails.
JournalKeysUnique == UniqueKeys(history)

\* What is retained is one line of prediction: consecutive ticks, the commands in
\* order behind the acknowledgement, and no event key twice.
HistorySound == TicksContiguous /\ FrontiersOrdered /\ JournalKeysUnique

\* Authority never moves back: tick, acknowledgement, submitted command and
\* scope epoch only grow once the timeline is initialized.
FrontiersMonotone ==
  [][initialized => /\ authTick' >= authTick
                    /\ acked' >= acked
                    /\ submitted' >= submitted
                    /\ epoch' >= epoch]_vars

\* One epoch names one prediction scope: no call replaces the scope and keeps
\* the epoch.
EpochNamesScope == [][initialized /\ epoch' = epoch => scope' = scope]_vars

\* A submitted command leaves the retained history only because authority
\* acknowledged it or because the caller asked for a hard resync, and only
\* advance() adds one.
CommandsKept ==
  [][LET Held(h) == {h[i].seq : i \in DOMAIN h}
     IN /\ \A q \in Held(history) \ Held(history') :
             q <= acked' \/ commit'.kind = "HardResync"
        /\ Held(history') \subseteq
             Held(history) \cup (IF commit'.kind = "Advance"
                                THEN {submitted'} ELSE {})]_vars

\* A consumer that knows the journal only through the published changes stays
\* in step with it: applying a commit's changes to the old journal yields the
\* new one, with one change per key, and a settled key is out of the journal.
Applied(journal, changes) ==
  LET touched == {c.key : c \in changes}
  IN {e \in journal : EventKey(e) \notin touched}
     \cup {c.current : c \in {x \in changes :
                              x.transition \in {"FirstPredicted", "Revised"}}}
ChangesExplainJournal ==
  [][/\ Journal(history') = Applied(Journal(history), commit'.changes)
     /\ \A c, d \in commit'.changes : c.key = d.key => c = d
     /\ \A c \in commit'.changes :
          c.transition \in {"Revised", "Retracted", "Confirmed"}
            <=> c.previous \in Journal(history)
     /\ commit'.retired \cap KeysOf(Journal(history')) = {}]_vars
=============================================================================
