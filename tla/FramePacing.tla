----------------------------- MODULE FramePacing -----------------------------
(***************************************************************************)
(* The fixed steps of the networked client's frame loop (client_app.cpp):   *)
(* how much wall time becomes steps, and which command carries the split or *)
(* respawn a player asked for.  FixedStepAccumulator (time.cpp) turns time  *)
(* into steps; CommandTimingController (command_timing.cpp) stretches it at *)
(* a rate that is any one within its clamp here, and that CommandTiming     *)
(* follows.                                                                 *)
(*                                                                          *)
(* While the link is up the outbox drains; while it is down commands wait   *)
(* in it (InputFlow has the protocol of the two ends), and the server says  *)
(* nothing.                                                                 *)
(***************************************************************************)
EXTENDS Integers

CONSTANTS
    StepTime,        \* kTickDuration
    MaxFrameDelta,   \* config.simulation.max_frame_delta_ms
    MaxSteps,        \* config.simulation.max_steps_per_frame
    RateUnit,        \* the nominal rate
    SlowestRate, FastestRate,  \* minimum_rate_scale, maximum_rate_scale, in its parts
    Prefill,         \* initial_prefill_count
    PauseDepth, ResumeDepth,   \* kInputPauseThreshold, kInputResumeThreshold
    FlushLimit,      \* kMaximumInputPacketsPerFlush
    FrameTimes,      \* what a frame may take
    LifeLimit,       \* bound: lives of the player
    OutageLimit      \* bound: times the link goes down

ASSUME PacingAssumption ==
    /\ {StepTime, MaxFrameDelta, MaxSteps, RateUnit} \subseteq Nat \ {0}
    /\ SlowestRate \in Nat /\ FastestRate \in Nat
    /\ SlowestRate <= RateUnit /\ RateUnit <= FastestRate
    /\ {Prefill, PauseDepth, ResumeDepth, FlushLimit} \subseteq Nat
    /\ ResumeDepth < PauseDepth /\ FrameTimes \subseteq Nat

Between == -1     \* no frame is running
Nobody == 0       \* the life of no request

VARIABLES
    loop,     \* the frame loop and its accumulator
    link,     \* the outbox and the link
    asked     \* history: the life in which the player asked for a split, and that
              \* for a respawn, until a command carries the request

pacingVars == <<loop, link, asked>>

-----------------------------------------------------------------------------
(* FixedStepAccumulator.                                                   *)

Least(a, b) == IF a < b THEN a ELSE b

\* scale_accumulator_elapsed, rounded to the nearest.
ScaledElapsed(elapsed, rate) == (2 * elapsed * rate + RateUnit) \div (2 * RateUnit)

\* advance, and discard_pending_steps when the step limit was reached.
Advanced(accumulated, elapsed) ==
    LET available == (accumulated + elapsed) \div StepTime
        steps == Least(available, MaxSteps)
        left == accumulated + elapsed - steps * StepTime
    IN [steps |-> steps,
        accumulated |-> IF available > MaxSteps THEN left % StepTime ELSE left]

-----------------------------------------------------------------------------
(* The outbox and the link.                                                *)

\* update_input_pause_state and the packets one flush sends.
Flushed(k) ==
    LET sent == IF k.up THEN Least(k.unsent, FlushLimit) ELSE 0
        unsent == k.unsent - sent
        before == IF k.paused THEN k.unsent > ResumeDepth ELSE k.unsent >= PauseDepth
    IN [k EXCEPT !.unsent = unsent,
                 !.paused = IF before THEN unsent > ResumeDepth ELSE unsent >= PauseDepth]

\* submit_input accepts a command.
Accepted(k) == Flushed([k EXCEPT !.unsent = @ + 1])

\* The queue of a life that has begun is filled with commands.
Prefilled(k) ==
    LET filled[n \in 0 .. Prefill] == IF n = 0 THEN k ELSE Accepted(filled[n - 1])
    IN filled[Prefill]

\* What the newest snapshot of a poll may say of the player.  A respawn answers
\* a request, and no life that a frame began ends in that frame.
News(w) ==
    {"none"}
      \cup (IF w.link.up /\ w.loop.playing /\ w.loop.began THEN {"died"} ELSE {})
      \cup (IF w.link.up /\ ~w.loop.playing /\ w.link.requested /\ w.link.unsent = 0
              /\ w.loop.life < LifeLimit
            THEN {"respawned"} ELSE {})

\* process_events: a snapshot may change the mode, then the outbox is flushed.
Polled(w, news) ==
    [loop |-> [w.loop EXCEPT !.playing = IF news = "none" THEN @ ELSE news = "respawned",
                             !.life = IF news = "respawned" THEN @ + 1 ELSE @],
     link |-> [Flushed(w.link) EXCEPT !.requested = @ /\ news # "respawned"]]

-----------------------------------------------------------------------------
(* The frame loop.                                                         *)

\* A poll, then the steps of the time since the last frame, stretched at the
\* controller's rate while commands are produced, then the key the player
\* pressed: split while playing, respawn while not.
BeginFrame(time, rate, pressed) ==
    LET begun == [loop |-> [loop EXCEPT !.began = loop.playing], link |-> link]
    IN /\ loop.todo = Between
       /\ \E news \in News(begun) :
            LET w == Polled(begun, news)
                bounded == Least(time, MaxFrameDelta)
                a == Advanced(loop.accumulated,
                       IF w.loop.playing /\ ~w.link.paused THEN ScaledElapsed(bounded, rate)
                       ELSE bounded)
                playing == w.loop.playing
            IN /\ link' = w.link
               /\ loop' = [w.loop EXCEPT
                    !.accumulated = a.accumulated, !.todo = a.steps,
                    !.split = IF playing THEN @ \/ pressed ELSE @ /\ ~pressed,
                    !.respawn = ~playing /\ (@ \/ pressed)]
               /\ asked' = IF ~pressed THEN asked
                           ELSE IF playing THEN [asked EXCEPT !.split = w.loop.life]
                           ELSE [asked EXCEPT !.respawn = w.loop.life]

\* Faulty variant: every step carries the request again.
Uncarried_Repeated(request, carried) == request

\* A request waits until a command carries it.
Uncarried(request, carried) == request /\ ~carried

\* One step: submit, poll, and prefill the queue of a life that has begun.
FixedStep ==
    LET playing == loop.playing
        submits == ~link.paused /\ (playing \/ loop.respawn)
        splits == submits /\ playing /\ loop.split
        respawns == submits /\ ~playing
        sent == [loop |-> [loop EXCEPT !.split = Uncarried(@, splits),
                                  !.respawn = Uncarried(@, respawns)],
                 link |-> IF submits THEN [Accepted(link) EXCEPT !.requested = @ \/ respawns]
                          ELSE link]
    IN /\ loop.todo > 0
       /\ \E news \in News(sent) :
            LET w == Polled(sent, news)
            IN /\ link' = IF news = "respawned" THEN Prefilled(w.link) ELSE w.link
               /\ loop' = [w.loop EXCEPT !.todo = @ - 1, !.split = @ /\ w.loop.playing]
               /\ asked' = [split |-> IF splits THEN Nobody ELSE asked.split,
                            respawn |-> IF respawns THEN Nobody ELSE asked.respawn]

\* The rest of the frame, which a window without a surface skips.
EndFrame(surface) ==
    /\ loop.todo = 0
    /\ loop' = [loop EXCEPT !.todo = Between, !.began = FALSE,
                            !.split = @ /\ (loop.playing \/ ~surface),
                            !.respawn = @ /\ (~loop.playing \/ ~surface)]
    /\ UNCHANGED <<link, asked>>

\* The link goes down, or comes back.
LinkChanges ==
    /\ loop.todo = Between
    /\ ~link.up \/ link.outages < OutageLimit
    /\ link' = [link EXCEPT !.up = ~@, !.outages = IF link.up THEN @ + 1 ELSE @]
    /\ UNCHANGED <<loop, asked>>

\* The session is Ready, and its queue prefilled.
PacingInit ==
    /\ loop = [accumulated |-> 0, todo |-> Between, playing |-> TRUE,
               began |-> FALSE, life |-> 1, split |-> FALSE, respawn |-> FALSE]
    /\ link = [unsent |-> 0, paused |-> FALSE, up |-> TRUE, requested |-> FALSE, outages |-> 0]
    /\ asked = [split |-> Nobody, respawn |-> Nobody]

PacingNext ==
    \/ \E time \in FrameTimes, rate \in SlowestRate .. FastestRate, pressed \in BOOLEAN :
         BeginFrame(time, rate, pressed)
    \/ FixedStep
    \/ \E surface \in BOOLEAN : EndFrame(surface)
    \/ LinkChanges

PacingSpec == PacingInit /\ [][PacingNext]_pacingVars

-----------------------------------------------------------------------------
(* Properties.                                                             *)

\* Whenever a step may send a request, the flag of the mode says exactly whether
\* the player asked in this life and no command has carried it: presses outlast
\* pauses and frames without a step, none is repeated, none passes to the next life.
RequestsCarriedOnce ==
    loop.todo > 0 =>
        /\ loop.playing => (loop.split <=> asked.split = loop.life)
        /\ ~loop.playing => (loop.respawn <=> asked.respawn = loop.life)
=============================================================================
