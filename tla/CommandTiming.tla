---------------------------- MODULE CommandTiming ----------------------------
(***************************************************************************)
(* The closed loop that keeps the server's queue of commands at its target  *)
(* depth: every other tick a snapshot reports the depth, the client         *)
(* (CommandTimingController, command_timing.cpp) averages what it hears and *)
(* stretches the time its frame loop (client_app.cpp) turns into commands.  *)
(*                                                                          *)
(* Commands and reports take `latency' frames each way, and the frame that  *)
(* the client measures may differ from what the server's clock says.  Either *)
(* side may stall: the client catches up on a bounded part of the time it   *)
(* missed, and the server (apps/server/main.cpp) runs a bounded number of   *)
(* ticks at once.  Doubles are fixed-point: a smoothed depth counts         *)
(* 1/Precision commands, a rate 1/RateUnit.  Prediction, what the commands  *)
(* say and what the network loses are left to other modules.                *)
(***************************************************************************)
EXTENDS Integers, Sequences, FiniteSetsExt

CONSTANTS
    TickTime,        \* kTickDuration
    FrameTime,       \* what the client shows a frame for, on the server's clock
    Drifts,          \* what the client's clock may add to that
    Latencies,       \* frames that a message may take
    FrameDelta,      \* config.simulation.max_frame_delta_ms
    FrameSteps,      \* config.simulation.max_steps_per_frame
    CatchUpTicks,    \* ticks the server runs late before it drops time
    Precision, RateUnit,
    Target,          \* CommandTimingSettings, in the units above
    DeadbandMin, DeadbandMax,
    Inertia,         \* 1 / ewma_alpha
    RateGain,        \* gain
    SlowestRate, FastestRate,
    Prefilled,       \* initial_prefill_count
    ReceiveWindow,   \* kInputReceiveWindow
    PauseDepth, ResumeDepth,   \* kInputPauseThreshold, kInputResumeThreshold
    FlushLimit,      \* kMaximumInputPacketsPerFlush
    ClientStalls, ServerStalls,   \* bounds: frames a stall may take
    StallStarts      \* bound: frames of calm before a stall

ASSUME TimingAssumption ==
    /\ {TickTime, FrameTime, Precision, RateUnit, Inertia, FrameSteps} \subseteq Nat \ {0}
    /\ \A drift \in Drifts : FrameTime + drift \in Nat
    /\ Latencies \subseteq Nat \ {0}
    /\ DeadbandMin <= Target /\ Target <= DeadbandMax
    /\ SlowestRate <= RateUnit /\ RateUnit <= FastestRate
    /\ ResumeDepth < PauseDepth /\ Prefilled <= ReceiveWindow
    /\ {0} \cup StallStarts \cup ClientStalls \cup ServerStalls \subseteq Nat

NoReport == -1       \* no snapshot was accepted yet

Settings ==
    {[latency |-> n, frame |-> FrameTime + drift] : n \in Latencies, drift \in Drifts}

\* Functions of these states compute a frame step by step.
Clients == [smoothed : Nat, latest : Nat \cup {NoReport}, accumulated : Nat, waited : Nat,
            unsent : Nat, unacknowledged : Nat, paused : BOOLEAN, sent : Nat]
Reports == [depth : Nat, applied : Nat]
Servers == [queue : Nat, clock : Nat, odd : BOOLEAN, applied : Nat, starved : BOOLEAN,
            reports : Seq(Reports)]

VARIABLES
    setting,    \* the latency and the length of a frame on the client's clock
    client,     \* the controller, the accumulator and the outbox
    server,     \* the queue of the session and the clock of the tick loop
    wire,       \* the commands and the reports under way, a place for each frame
    stall       \* who stands still, for how long, who did, and for how long nobody does

timingVars == <<setting, client, server, wire, stall>>

-----------------------------------------------------------------------------
(* CommandTimingController.                                                *)

\* llround of n / d, which is never negative here.
Nearest(n, d) == (2 * n + d) \div (2 * d)

\* Faulty variant: the rate is clamped at the nominal one.
RateScale_SlowOnly(smoothed) ==
    IF smoothed \in DeadbandMin .. DeadbandMax THEN RateUnit
    ELSE Max({SlowestRate, Min({RateUnit, RateUnit + RateGain * (Target - smoothed)})})

\* update_rate_scale: nominal in the deadband, else proportional to the error.
RateScale(smoothed) ==
    IF smoothed \in DeadbandMin .. DeadbandMax THEN RateUnit
    ELSE Max({SlowestRate, Min({FastestRate, RateUnit + RateGain * (Target - smoothed)})})

\* scale_accumulator_elapsed.
ScaledElapsed(elapsed, smoothed) == Nearest(elapsed * RateScale(smoothed), RateUnit)

\* observe_server_queue_depth: the exponentially weighted mean.
Smoothed(smoothed, depth) == Nearest((Inertia - 1) * smoothed + depth * Precision, Inertia)

-----------------------------------------------------------------------------
(* The client.                                                             *)

\* update_input_pause_state.
PauseUpdated(c) ==
    [c EXCEPT !.paused = IF @ THEN c.unsent > ResumeDepth ELSE c.unsent >= PauseDepth]

\* flush_pending_inputs: granted commands leave the outbox.
FlushedOutbox[c \in Clients] ==
    LET before == PauseUpdated(c)
        count == Min({c.unsent, FlushLimit, ReceiveWindow - c.unacknowledged})
    IN PauseUpdated([before EXCEPT !.unsent = @ - count, !.unacknowledged = @ + count,
                                   !.sent = @ + count])

\* process_events: each snapshot reports a depth and acknowledges commands.
Observed[c \in Clients, report \in Reports] ==
    [c EXCEPT !.latest = report.depth, !.smoothed = Smoothed(@, report.depth),
              !.unacknowledged = @ - report.applied]
ProcessedEvents(c, reports) ==
    LET heard[n \in 0 .. Len(reports)] ==
          IF n = 0 THEN c ELSE Observed[heard[n - 1], reports[n]]
    IN FlushedOutbox[heard[Len(reports)]]

\* A fixed step: a client that is not paused submits a command, then it polls.
Stepped[c \in Clients] ==
    FlushedOutbox[IF c.paused THEN c ELSE FlushedOutbox[[c EXCEPT !.unsent = @ + 1]]]

\* FixedStepAccumulator::advance, discard_pending_steps at the step limit, and
\* the steps.
Accumulated[c \in Clients, elapsed \in Nat] ==
    LET available == (c.accumulated + elapsed) \div TickTime
        steps == Min({available, FrameSteps})
        left == c.accumulated + elapsed - steps * TickTime
        after[n \in 0 .. steps] ==
          IF n = 0
          THEN [c EXCEPT !.accumulated = IF available > FrameSteps THEN left % TickTime ELSE left]
          ELSE Stepped[after[n - 1]]
    IN after[steps]

\* The steps of a frame, after a poll that left the client heard: its time is
\* bounded, and stretched while commands are produced.
Framed[heard \in Clients, frame \in Nat] ==
    LET elapsed == Min({heard.waited + frame, FrameDelta})
    IN Accumulated[[heard EXCEPT !.waited = 0],
                   IF heard.paused THEN elapsed ELSE ScaledElapsed(elapsed, heard.smoothed)]

-----------------------------------------------------------------------------
(* The server.                                                             *)

\* step: the oldest command is applied, or one is missing, and even ticks report.
Ticked[s \in Servers] ==
    LET applied == IF s.queue = 0 THEN 0 ELSE 1
        t == [s EXCEPT !.queue = @ - applied, !.applied = @ + applied,
                       !.starved = @ \/ applied = 0, !.odd = ~@]
    IN IF t.odd THEN t
       ELSE [t EXCEPT !.applied = 0,
                      !.reports = Append(@, [depth |-> t.queue, applied |-> t.applied])]

\* The ticks that are due, at most CatchUpTicks of them, then time is dropped.
Served[s \in Servers] ==
    LET due == s.clock \div TickTime
        after[n \in 0 .. Min({due, CatchUpTicks})] ==
          IF n = 0 THEN [s EXCEPT !.clock = IF due > CatchUpTicks THEN 0 ELSE @ % TickTime,
                                  !.starved = FALSE]
          ELSE Ticked[after[n - 1]]
    IN after[Min({due, CatchUpTicks})]

-----------------------------------------------------------------------------
\* The time of one frame passes: what is due arrives, and whoever does not
\* stand still runs.
Frame ==
    LET stands(side) == stall.left > 0 /\ stall.side = side
        reached == [server EXCEPT !.queue = @ + Head(wire.up), !.clock = @ + FrameTime,
                                  !.reports = << >>]
    IN \E s \in {IF stands("server") THEN reached ELSE Served[reached]},
          c \in {IF stands("client")
                 THEN [client EXCEPT !.waited = @ + setting.frame, !.sent = 0]
                 ELSE Framed[ProcessedEvents([client EXCEPT !.sent = 0], Head(wire.down)),
                             setting.frame]} :
         LET reports == Append(wire.down, s.reports)
         IN /\ server' = s
            /\ client' = c
            /\ wire' = [up |-> Append(Tail(wire.up), c.sent),
                        down |-> IF stands("client")
                                 THEN <<reports[1] \o reports[2]>>
                                        \o SubSeq(reports, 3, Len(reports))
                                 ELSE Tail(reports)]
            /\ stall' = [stall EXCEPT !.left = Max({0, @ - 1}),
                                      !.calm = IF stall.left > 0 THEN 0
                                               ELSE Min({@ + 1, Max({0} \cup StallStarts) + 1})]
            /\ UNCHANGED setting

\* One side stands still, for the first time.
Stall(side, frames) ==
    /\ stall.left = 0 /\ stall.calm \in StallStarts /\ side \notin stall.past
    /\ stall' = [stall EXCEPT !.side = side, !.left = frames, !.past = @ \cup {side}]
    /\ UNCHANGED <<setting, client, server, wire>>

\* The session is Ready, and the client has sent the commands of its prefill.
TimingInit ==
    /\ setting \in Settings
    /\ client = [smoothed |-> Target, latest |-> NoReport, accumulated |-> 0, waited |-> 0,
                 unsent |-> 0, unacknowledged |-> Prefilled, paused |-> FALSE, sent |-> 0]
    /\ server = [queue |-> 0, clock |-> 0, odd |-> FALSE, applied |-> 0, starved |-> FALSE,
                 reports |-> << >>]
    /\ wire = [up |-> [n \in 1 .. setting.latency |->
                         IF n = setting.latency THEN Prefilled ELSE 0],
               down |-> [n \in 1 .. setting.latency |-> << >>]]
    /\ stall = [side |-> "none", left |-> 0, past |-> {}, calm |-> 0]

TimingNext ==
    \/ Frame
    \/ \E frames \in ClientStalls : Stall("client", frames)
    \/ \E frames \in ServerStalls : Stall("server", frames)

\* Both loops run on.
TimingFairness == WF_timingVars(Frame)
TimingSpec == TimingInit /\ [][TimingNext]_timingVars /\ TimingFairness

-----------------------------------------------------------------------------
(* Properties.                                                             *)

\* Ticks found a command, and the last report is within one command of the target.
QueueOnTarget ==
    /\ ~server.starved
    /\ client.latest * Precision \in Target - Precision .. Target + Precision
=============================================================================
