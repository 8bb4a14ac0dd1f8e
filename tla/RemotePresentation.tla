------------------------- MODULE RemotePresentation -------------------------
(***************************************************************************)
(* How the client shows the entities it does not control: the delayed      *)
(* RemoteSnapshotBuffer with its disciplined cursor, the bounded           *)
(* RemoteExtrapolationBuffer, and the frame loop that feeds and samples    *)
(* both.  One entity, Own, is the player of this client; it exists in a    *)
(* snapshot exactly while the session is Playing.                          *)
(*                                                                         *)
(* The cursor is an integer number of units, Scale to a server tick, and   *)
(* the clock counts TickTime units to a server tick, so that the rates of  *)
(* the code (0.95 .. 1.05 around 1.0) become integers around NormalRate.   *)
(* A snapshot is the tick it was taken at: the server numbers snapshots in *)
(* tick order, so one number stands for both guards of the code.  Every    *)
(* player moves Scale units a tick; what interpolation, holding and        *)
(* extrapolation do to a pose is then a number to compare with the cursor. *)
(***************************************************************************)
EXTENDS Integers, Sequences, FiniteSets, SequencesExt

CONSTANTS
    Entities, Own,       \* entity identifiers; the controlled one
    Lives,               \* the ticks at which each entity exists
    LastTick,            \* bound: the last tick the server runs
    MaxTime,             \* bound: the clock stops here
    MaxFrame,            \* bound: the longest frame, in clock units
    TickTime, NormalRate, MinRate, MaxRate,
    Gain,                \* cursor error that changes the rate by one
    Deadband,            \* cursor error below which the rate is normal
    MaximumCursorError,  \* in ticks: beyond it the cursor is rebased
    DelayTicks, Capacity, LimitTicks

ASSUME RemoteAssumption ==
    /\ IsFiniteSet(Entities) /\ Own \in Entities
    /\ Lives \in [Entities -> SUBSET (1..LastTick)]
    /\ {TickTime, NormalRate, MinRate, Gain, DelayTicks, Capacity, LimitTicks}
           \subseteq Nat \ {0}
    /\ {LastTick, MaxTime, MaxFrame, MaxRate, Deadband, MaximumCursorError} \subseteq Nat
    /\ MinRate <= NormalRate /\ NormalRate <= MaxRate
    /\ DelayTicks < Capacity

(* The server gives an identifier out once: an entity lives at a stretch.  *)
ASSUME LivesAssumption ==
    \A e \in Entities : \A t, u \in Lives[e] : t..u \subseteq Lives[e]

VARIABLES
    now,          \* the client's steady clock
    serverTick,   \* ticks the server has run
    rules,        \* the welcome, with the world rules, has arrived
    applied,      \* newest snapshot the client runtime applied (0: none)
    buffer,       \* RemoteSnapshotBuffer
    latest,       \* RemoteExtrapolationBuffer::latest_, as <<>> or one record
    failed,       \* the session ended with InvalidSnapshot
    frame,        \* what the last frame drew
    received      \* history: every snapshot tick the buffer kept

remoteVars == <<now, serverTick, rules, applied, buffer, latest, failed, frame, received>>

Scale == TickTime * NormalRate
WorldAt(tick) == {e \in Entities : tick \in Lives[e]}
Larger(a, b) == IF a >= b THEN a ELSE b
Clamp(x, low, high) == IF x < low THEN low ELSE IF x > high THEN high ELSE x
Playing == applied > 0 /\ Own \in WorldAt(applied)

EmptyBuffer ==
    [samples |-> <<>>, cursor |-> 0, ready |-> FALSE, advanced |-> <<>>,
     observed |-> 0, hold |-> <<>>, episodes |-> 0, recoveries |-> 0,
     totalHold |-> 0, totalPostCap |-> 0,
     presented |-> {}, lifecycle |-> FALSE, created |-> 0, removed |-> 0]

----------------------------------------------------------------------------
(* Lookups in the buffer.  The older sample of a cursor before every       *)
(* retained one is the first.                                              *)

Newest(b) == Last(b.samples)
OlderIndex(b) ==
    LET reached == {i \in 2..Len(b.samples) : b.samples[i] * Scale <= b.cursor}
    IN  IF reached = {} THEN 1 ELSE Max(reached)
AheadIndexes(b) == {i \in 1..Len(b.samples) : b.samples[i] * Scale > b.cursor}
HasNewer(b) == AheadIndexes(b) # {}
NewerIndex(b) == Min(AheadIndexes(b))
Desired(b) == (Newest(b) - DelayTicks) * Scale

(* RemoteSnapshotBuffer::insert: only a newer snapshot is kept, the first  *)
(* one places the cursor, and the oldest leaves a full buffer.             *)
InsertSample(b, tick) ==
    IF b.samples # <<>> /\ tick <= Newest(b) THEN b
    ELSE [b EXCEPT
            !.samples = IF Len(@) = Capacity THEN Append(Tail(@), tick) ELSE Append(@, tick),
            !.cursor = IF b.samples = <<>> THEN tick * Scale ELSE @]

(* A hold longer than the extrapolation limit is only shown as one after   *)
(* the limit.                                                              *)
PostCap(duration) == Larger(duration - LimitTicks * TickTime, 0)

FinishHold(b, time) ==
    LET duration == time - Head(b.hold)
    IN  [b EXCEPT !.hold = <<>>, !.recoveries = @ + 1,
                  !.totalHold = @ + duration,
                  !.totalPostCap = @ + PostCap(duration)]

CursorRate(error) ==
    IF error \in -Deadband..Deadband THEN NormalRate
    ELSE Clamp(NormalRate + error \div Gain, MinRate, MaxRate)

(* The cursor fell behind every retained sample, or too far behind its     *)
(* target: it jumps forward and time starts again from here.               *)
Rebased(b) ==
    LET front == b.samples[1] * Scale IN
    IF b.cursor < front
    THEN [b EXCEPT !.cursor = Larger(Desired(b), front)]
    ELSE [b EXCEPT !.cursor = Desired(b)]

(* Mutant of NeedsRebase: an error of either sign jumps.                   *)
NeedsRebaseEitherWay(b) ==
    \/ b.cursor < b.samples[1] * Scale
    \/ Desired(b) - b.cursor \notin -MaximumCursorError * Scale..MaximumCursorError * Scale

NeedsRebase(b) ==
    \/ b.cursor < b.samples[1] * Scale
    \/ Desired(b) - b.cursor > MaximumCursorError * Scale

Moved(b, time) ==
    LET elapsed == time - Head(b.advanced)
    IN  [b EXCEPT !.cursor = @ + elapsed * CursorRate(Desired(b) - @)]

BeginHold(b, time) ==
    IF HasNewer(b) \/ b.hold # <<>> THEN b
    ELSE [b EXCEPT !.hold = <<time>>, !.episodes = @ + 1]

(* RemoteSnapshotBuffer::advance.                                          *)
Disciplined(b, time) ==
    LET resumed == IF b.hold = <<>> THEN b ELSE FinishHold(b, time)
        placed  == IF NeedsRebase(resumed) THEN Rebased(resumed) ELSE Moved(resumed, time)
    IN  BeginHold(placed, time)

AdvanceBuffer(b, time) ==
    IF b.samples = <<>>
    THEN [b EXCEPT !.advanced = IF @ = <<>> THEN <<time>> ELSE @]
    ELSE [(IF ~b.ready
           THEN IF Newest(b) - b.samples[1] < DelayTicks THEN b
                ELSE [b EXCEPT !.cursor = Desired(b), !.ready = TRUE, !.observed = time]
           ELSE IF b.hold # <<>> /\ ~HasNewer(b) THEN b
           ELSE Disciplined(b, time))
          EXCEPT !.advanced = <<time>>]

----------------------------------------------------------------------------
(* Sampling.                                                               *)

(* Mutant of SampledEntities: both sides of the bracket are drawn.         *)
SampledEntitiesUnion(b, controlled) ==
    (WorldAt(b.samples[OlderIndex(b)])
     \cup (IF HasNewer(b) THEN WorldAt(b.samples[NewerIndex(b)]) ELSE {})) \ controlled

(* The entities between the two samples around the cursor: one that is     *)
(* only in the older is kept until the newer is reached, one that is only  *)
(* in the newer waits for it.                                              *)
SampledEntities(b, controlled) ==
    LET older == WorldAt(b.samples[OlderIndex(b)]) IN
    IF ~HasNewer(b) THEN older \ controlled
    ELSE LET tick  == b.samples[NewerIndex(b)]
             newer == WorldAt(tick)
         IN  ((older \cap newer)
              \cup (IF b.cursor < tick * Scale THEN older \ newer ELSE newer \ older))
             \ controlled

(* Where a uniformly moving player appears: linear interpolation, clamped  *)
(* to the two samples, or the older sample when there is no newer one.     *)
SampledPose(b) ==
    LET older == b.samples[OlderIndex(b)] * Scale IN
    IF ~HasNewer(b) THEN older
    ELSE Clamp(b.cursor, older, Larger(older, b.samples[NewerIndex(b)] * Scale))

(* record_presented_lifecycle: counts what appeared and what went.         *)
RecordLifecycle(b, shown) ==
    IF ~b.lifecycle THEN [b EXCEPT !.presented = shown, !.lifecycle = TRUE]
    ELSE [b EXCEPT !.presented = shown,
                   !.created = @ + Cardinality(shown \ b.presented),
                   !.removed = @ + Cardinality(b.presented \ shown)]

SampleBuffer(b, controlled) ==
    IF b.samples = <<>> THEN b ELSE RecordLifecycle(b, SampledEntities(b, controlled))

(* RemoteExtrapolationBuffer::insert, by the client's frame: refused       *)
(* unless it is newer than the latest.                                     *)
AcceptsKinematics(tick) == latest = <<>> \/ tick > Head(latest).tick

(* sample_ticks: bounded advancement from the newest sample.  The offset   *)
(* is in clock units.                                                      *)
ExtrapolatedPose(tick, offset) ==
    tick * Scale + Clamp(offset, 0, LimitTicks * TickTime) * NormalRate

NoFrame == [drawn |-> FALSE, ready |-> FALSE, holding |-> FALSE, cursor |-> 0,
            newest |-> 0, shown |-> {}, pose |-> 0, fallback |-> FALSE,
            fallbackShown |-> {}, fallbackPose |-> 0, playing |-> FALSE]

----------------------------------------------------------------------------
(* The server and the network: a snapshot of every tick, each of which may *)
(* arrive late, twice or never.                                            *)
ServerStep ==
    /\ serverTick < LastTick
    /\ serverTick' = serverTick + 1
    /\ UNCHANGED <<now, rules, applied, buffer, latest, failed, frame, received>>

Welcome ==
    /\ ~rules
    /\ rules' = TRUE
    /\ UNCHANGED <<now, serverTick, applied, buffer, latest, failed, frame, received>>

(* ReplicatedWorld::apply ignores a snapshot that is not newer.            *)
Stale(tick) == tick <= applied

(* process_client_events: the applied snapshot goes to both buffers, to    *)
(* the second only once the rules are known; a refusal ends the session.   *)
Receive(tick) ==
    /\ ~failed
    /\ ~Stale(tick)
    /\ applied' = tick
    /\ buffer' = InsertSample(buffer, tick)
    /\ received' = IF buffer'.samples = buffer.samples THEN received ELSE received \cup {tick}
    /\ IF rules
       THEN /\ failed' = ~AcceptsKinematics(tick)
            /\ latest' = IF AcceptsKinematics(tick)
                         THEN <<[tick |-> tick, arrival |-> now]>> ELSE latest
       ELSE UNCHANGED <<failed, latest>>
    /\ UNCHANGED <<now, serverTick, rules, frame>>

(* A frame of the client: advance, sample, and, for a spectator whose      *)
(* delayed view has run dry, fall back to extrapolation by the time held.  *)
Frame(elapsed) ==
    LET time       == now + elapsed
        controlled == IF Playing THEN {Own} ELSE {}
        advanced   == AdvanceBuffer(buffer, time)
        drawn      == SampleBuffer(advanced, controlled)
        holding    == advanced.hold # <<>>
        fallback   == ~Playing /\ advanced.ready /\ holding /\ latest # <<>>
    IN  /\ ~failed /\ rules /\ applied > 0
        /\ time <= MaxTime
        /\ now' = time
        /\ buffer' = drawn
        /\ frame' = [drawn |-> TRUE, ready |-> drawn.ready, holding |-> holding,
                     cursor |-> drawn.cursor, newest |-> Newest(drawn),
                     shown |-> SampledEntities(advanced, controlled),
                     pose |-> SampledPose(advanced),
                     fallback |-> fallback,
                     fallbackShown |-> IF fallback THEN WorldAt(Head(latest).tick) ELSE {},
                     fallbackPose |-> IF fallback
                                      THEN ExtrapolatedPose(Head(latest).tick,
                                                            time - Head(advanced.hold))
                                      ELSE 0,
                     playing |-> Playing]
        /\ UNCHANGED <<serverTick, rules, applied, latest, failed, received>>

RemoteInit ==
    /\ now = 0 /\ serverTick = 0 /\ rules = FALSE /\ applied = 0
    /\ buffer = EmptyBuffer /\ latest = <<>> /\ failed = FALSE
    /\ frame = NoFrame /\ received = {}

RemoteNext ==
    \/ ServerStep
    \/ Welcome
    \/ \E tick \in 1..serverTick : Receive(tick)
    \/ \E elapsed \in 0..MaxFrame : Frame(elapsed)

----------------------------------------------------------------------------
(* Properties.                                                             *)

(* Shape of the buffer: retained ticks increase, within the capacity.      *)
RemoteTypeOK ==
    /\ now \in 0..MaxTime /\ serverTick \in 0..LastTick /\ applied \in 0..serverTick
    /\ buffer.samples \in BoundedSeq(1..LastTick, Capacity)
    /\ \A i \in 1..Len(buffer.samples) - 1 : buffer.samples[i] < buffer.samples[i + 1]
    /\ Len(buffer.hold) <= 1 /\ Len(latest) <= 1
    /\ buffer.presented \subseteq Entities /\ received \subseteq 1..serverTick

(* The cursor never runs backwards, through holds, rebases, evictions and  *)
(* bursts: remote players are never rewound (advance, insert).             *)
CursorNeverRewinds == [][buffer.samples # <<>> => buffer'.cursor >= buffer.cursor]_remoteVars

(* After every frame the cursor is at most MaximumCursorError ticks behind *)
(* its target and at most one frame at the highest rate past the newest    *)
(* sample, whatever arrived or failed to arrive (advance).                 *)
CursorNearTarget ==
    frame.drawn /\ frame.ready =>
        /\ (frame.newest - DelayTicks - MaximumCursorError) * Scale <= frame.cursor
        /\ frame.cursor <= frame.newest * Scale + MaxFrame * MaxRate

(* A frame shows the world of one moment: exactly the entities of the      *)
(* newest snapshot received at or before the cursor, so no entity appears  *)
(* before its time and none outlives the snapshot that dropped it          *)
(* (sample, older_sample_index).                                           *)
FrameShowsOneMoment ==
    frame.drawn /\ frame.ready /\ ~frame.fallback =>
        LET reached == {t \in received : t * Scale <= frame.cursor /\ t <= frame.newest}
        IN  /\ reached # {}
            /\ frame.shown = WorldAt(Max(reached)) \ (IF frame.playing THEN {Own} ELSE {})

(* A held picture is a hold: without a newer sample the pose stays at the  *)
(* newest one, and with one it is exactly where the cursor stands.         *)
PoseFollowsCursor ==
    frame.drawn /\ frame.ready =>
        frame.pose = IF frame.holding THEN frame.newest * Scale ELSE frame.cursor

(* The live fallback of a spectator shows the same entities as the held    *)
(* picture it replaces, no further ahead than the limit: both buffers      *)
(* agree on the newest snapshot (client_app, sample_offset).               *)
FallbackShowsSameEntities ==
    frame.fallback => /\ frame.fallbackShown = frame.shown
                      /\ frame.fallbackPose \in frame.pose..frame.pose + LimitTicks * Scale

(* The session never ends because the extrapolation buffer refuses what    *)
(* the runtime applied, in whatever order snapshots and welcome arrive.    *)
AppliedNeverRefused == ~failed

(* The hold statistics add up: time held, the current hold included, never *)
(* exceeds the time observed, and every episode but the current one has    *)
(* ended (finish_hold, statistics).                                        *)
HoldTimeAccounted ==
    LET current == IF buffer.hold = <<>> THEN 0 ELSE now - Head(buffer.hold)
    IN  buffer.ready =>
          /\ buffer.totalHold + current <= now - buffer.observed
          /\ buffer.totalPostCap + PostCap(current) <= buffer.totalHold + current
          /\ buffer.episodes = buffer.recoveries + Len(buffer.hold)

(* No entity flickers: each comes into the delayed picture at most once    *)
(* and leaves it at most once, the player's own body included, which comes *)
(* in when a defeat ends its exclusion (record_presented_lifecycle).       *)
NoFlicker == /\ buffer.created <= Cardinality(Entities)
             /\ buffer.removed <= Cardinality(Entities)

(* The delayed picture is sound: the buffers and the cursor keep their     *)
(* bounds, what a frame draws is the world of one moment, and no order of  *)
(* arrivals, holds and fallbacks refuses a snapshot or loses hold time.    *)
RemoteSound ==
    /\ RemoteTypeOK /\ CursorNearTarget /\ AppliedNeverRefused /\ HoldTimeAccounted
    /\ FrameShowsOneMoment /\ PoseFollowsCursor /\ FallbackShowsSameEntities
    /\ NoFlicker
=============================================================================
