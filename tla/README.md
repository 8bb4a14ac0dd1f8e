# Verification of mycore

TLA+ models of the rollback engine and of the Dots client and server in this
repository, checked with TLC and, where marked, proved with TLAPS. `PROJECT.json`
lists components, runs, findings, hazards, theorems and the source lines behind
every definition.

## 1. Inventory

The repository is a C++ engine (`src/engine`) and one game (`src/games/dots`). A
server simulates the world at 30 Hz and sends each session a full snapshot every
second tick. A client predicts its own player with a rollback timeline, corrects it
with every snapshot, turns predicted or confirmed events into effects that cannot be
rewound, and draws the rest of the world from delayed snapshots. All runtime state has
a single owner thread, but the native transport's library has a thread of its own.
What is concurrent is the two processes, that library and the messages between them,
plus the long sequences of calls that the order of messages can produce.

| Component | State | Operations | What makes it correct |
|---|---|---|---|
| `rollback::Timeline` (`timeline.hpp`) | base checkpoint, live state, scope and epoch, bounded history of frames, acknowledged and submitted frontiers | `initialize`, `advance`, `reconcile`, `refresh_authority`, `rebase_scope`, `hard_resync` | the prediction is always a replay of the committed authority; frontiers ordered and monotone; no command lost; a failed call changes nothing; published changes explain the journal |
| `StaticConsequenceRouter` (`consequence_router.hpp`) | a ledger per handler, two sets of retirement evidence | `consume` | a one-shot consequence runs once, a cancelable one is finished once, the ledger is bounded |
| Consequence pipeline (`client_runtime.cpp`, `rollback_consequences.cpp`) | queue of event batches, pending retirements, cue store | `install_authority`, `take_prediction_event_batches`, the six handlers | cues follow the prediction, notices appear once, evidence settles |
| Input flow (`client_runtime.cpp`, `server_runtime.cpp`, `messages.hpp`) | client outbox, pause state, grant; server queue and last processed input | `submit_input`, `process_events`, `enqueue_input`, `step` | a conforming client is never rejected; commands run once and in order; pauses end unless a whole window is lost |
| Authority receipts (`server_runtime.cpp`, `replication.cpp`) | server queue and acknowledged frontier; client inbox with accepted, published and retired frontiers | `enqueue_authority_receipt`, `acknowledge_authority_receipts`, `AuthorityReceiptInbox::apply`, `mark_published_through` | exactly-once in-order delivery; eventual delivery |
| Server sessions (`server_runtime.cpp`) | sessions, owners, players of the world | `process_events`, `step` and all they call | sessions and world agree on ownership; one session's failure stays its own |
| Transport and handshake (`net_transport/`, both runtimes) | links, queues of events, connection states | `connect`, `poll`, `send`, `disconnect`, hello and welcome | every handshake ends; nobody stays attached to a session that is gone |
| Simulation (`world.cpp`, `tick.cpp`, `spatial_grid.cpp`) | entities in slot arrays, owners, lookup tables, grid, the tick's journal | `spawn_player`, `remove_player`, `advance`, `checkpoint`, `restore` | indices agree with arrays; ticks are deterministic, conserve mass and explain themselves |
| Replication and protocol (`replication.cpp`, `codec.cpp`) | the newest snapshot | `build_full_snapshot`, `validate`, `hydrate_checkpoint`, `ReplicatedWorld::apply` | a snapshot of the server's state is built unless the wire has no room for it, passes the codec, and hydration returns the state |
| Client prediction (`client_runtime.cpp`) | timeline, input history, scope | `submit_input`, `process_snapshot`, `install_authority`, `hard_resync` | frontiers of timeline, history and snapshots agree |
| Prediction scope (`prediction/`) | scope of owners, pieces and food | `build_prediction_scope`, `project_checkpoint`, `WorldModel` | what is predicted inside the scope is what the server computes |
| Presentation (`presentation/`) | snapshot buffers and cursor, correction offset, tracks and trails | `push`, `sample`, `observe`, `update` | one moment per frame, the cursor does not rewind, corrections decay once, handovers do not jump |
| Frame pacing (`client_app.cpp`, `time.cpp`) | accumulator, pending requests | the frame loop | a request travels once |
| Command timing (`command_timing.cpp`) | mean of the reported queue depths, rate | `observe_server_queue_depth`, `scale_accumulator_elapsed` | no burst after a stall; the server's queue comes back to its target depth |
| Provenance, configuration, tools, rendering, engine services | | | diagnostics and I/O |

Interactions. The server's `step` drains one command per session, advances the world,
turns the journal into session changes and receipts, and sends snapshots. A snapshot
carries the world, the acknowledged input, the input grant, the pending receipts and
the retirement frontier. The client applies it to the replicated world, updates inbox
and outbox, hydrates a checkpoint, reconciles the timeline and queues event batches.
Once a frame the application drains the batches into the router, feeds the buffers
and draws.

Hard behaviours. Unreliable packets are lost, repeated and reordered. Snapshots are
older than the predictions they correct. Retained commands are replayed under changed
authority, scope or stimuli. Callbacks, model steps and sends fail in the middle of an
operation. Queues, identifiers and histories reach their limits. Sessions time out or
fail in the tick that uses them. Several steps, corrections and lives may fall between
two frames. The `hazards` of `PROJECT.json` name the lines.

## 2. Modules

| Module | Models |
|---|---|
| `EventJournal` | events, keys, authority dispositions and `resolve_event_changes` |
| `Timeline` | the timeline class, one action per public call, over an arbitrary game model given as operator constants |
| `CommandProofs` | theorems about `Timeline`, `ConsequenceRouter` and `InputFlow` |
| `ReceiptProofs` | theorems about `ReceiptStream` and `ConsequencePipeline` |
| `WorldProofs`, `ReplicaProofs` | theorems about `World`; the second is about two worlds that advance together |
| `SessionProofs` | theorems about `ServerSessions` and `ClientPrediction` |
| `ConnectionProofs`, `PresentationProofs` | theorems about the module of that name |
| `SharedLemmas` | lemmas the proofs share: induction over a finite index set, minima and maxima, intervals of consecutive numbers |
| `ConsequenceRouter` | the router, one action `Consume` for a whole batch; extends `EventJournal` |
| `ConsequencePipeline` | runtime, batches, router and cue store composed; extends `ConsequenceRouter` |
| `Rollback` | `Timeline` and `ConsequenceRouter`, for TLC: a behaviour follows one of them |
| `InputFlow` | one client and its session: commands, packets, grants, pauses |
| `CommandTiming` | the rate controller in its loop with frame loop, network and server queue |
| `Commands` | `InputFlow` and `CommandTiming`: a behaviour follows one of them |
| `ReceiptStream` | one client and its session: receipts, acknowledgements, retirement |
| `ReceiptDelivery` | abstract specification: receipts are reported and delivered in order, once |
| `AuthorityReceipts` | `ReceiptStream` and `ConsequencePipeline`: a behaviour follows one of them |
| `ServerSessions` | all sessions of a server with the players of the world |
| `Connection` | one connection over either transport, from the library to the sessions |
| `SessionLifecycle` | abstract specification of `Connection`: the phases of client and server session |
| `SpatialGrid` | the grid: cells, insertion, update, query |
| `World` | the simulation, its checkpoints and their snapshots; extends `SpatialGrid` |
| `PredictionScope` | scope selection and the predicted island beside the complete world; extends `World` |
| `ClientPrediction` | one client's input history and timeline frontiers |
| `FramePacing` | fixed steps and requests |
| `RemotePresentation` | delayed and extrapolated remote entities |
| `LocalPresentation` | corrections of the predicted player between frames |
| `WorldTracks` | tracks of entities that change source or identifier |
| `Presentation` | the four parts of a client frame |
| `MC*` | instances for TLC |

`Rollback`, `Commands`, `AuthorityReceipts` and `Presentation` put parts side by side that
share no state, or of which one leaves out what the other is about. The variable `part` is
chosen at the start and says which part moves; fairness and liveness are stated for that part.
Nothing is composed by it, and each part is also a specification of its own, which the theorems
are about.

**Timeline.** The variables are the fields of the class; `commit` is the returned
value, `NoCommit` a failure. Each action has a committing disjunct, guarded by all
checks of the call, and a failing one that leaves every committed field alone. A replay
is `ScratchStates`, the recursive function of the scratch state over the retained
frames; as in the code nothing is committed before the last frame has stepped and the
events are resolved. Error codes, digests and counters are left out. `std::nullopt` of
a sequence is -1, a `StrongId`'s invalid value one past the largest valid one.

**ConsequenceRouter.** The ledger has one entry per key, because handlers and pruning
look only at the key's own changes. `AfterChanges` is a recursive function over the
position in the batch, so that it can be reasoned about. `fired` and `open` are history variables that count
callbacks. Which callbacks fail is chosen freely for each change.

**ConsequencePipeline.** One key, of a kind chosen at the start: a split, a meal or an
absorption. Its two predicting handlers and, for an absorption, the confirming one act
on it as the router dispatches. The records of the cue store are a set, as each has its own
token; the queue is drained by a recursive function over the position in it (`Drains`).
`queueFull` is the error that ends the client. What a replay predicts, which
commands it retains and which snapshots arrive are free; `full` snapshots carry the
receipts of other keys and no room for this one. A merge has no handler.

**InputFlow, ReceiptStream.** Both directions are sets of messages: an element can be
received at any time, again and again, or never, which covers delay, repetition and
reordering. Permanent loss of packets is an explicit action in `InputFlow`, because it
matters for liveness. Repeated snapshots with equal content keep one id, to keep the
state space finite. The transport may cut a flush short after any number of packets.

**CommandTiming.** The constants are those of the code: two commands as target, a deadband
from 1.5 to 2.5, an average with weight 1/8, a gain of 0.025 and a clamp of 5 % (`MCCommands`).
One action is a frame of 1/60 s, in which whatever is due arrives, the client runs its poll and its
fixed steps, and the server the ticks that are due, at most five before it drops time. Functions
over sets of states compute it in the order of the code. Time is counted in 1/76800 s, a smoothed
depth in 1/64 command and a rate in 1/2560; the average rounds to the nearest 1/64, where the
code keeps a double, so that a mean stops moving up to four units before the depth it
follows, well inside the deadband. The latency is constant in a
behaviour, nothing is lost, clocks differ by up to 0.16 % either way, and each side may
stall once, for a time that fills the outbox or empties the queue.

**ServerSessions.** One action is one transport event handled to its end, or one
`step` to its end: removal of inactive sessions, respawns, commands, the simulation,
receipts, acknowledgements, follow targets and snapshots, in the order of the code.
Geometry and masses are abstracted to a free choice of up to `MaxEvents` events, in the
phase order of `advance_simulation` (`World` has them). The order of the
`std::unordered_map` of sessions is a free choice. `server` records the error that
ended the process, if any.

**Connection.** The native transport's library is external: it changes the state of a
link, queues callbacks and carries messages between any two steps of the processes. A
poll first dispatches callbacks and then collects messages, as separate steps. The
memory transport puts events straight into the peer's queue. Many sessions are in
`ServerSessions`.

**World.** Positions are integers on a line and masses integers whose halvings stay
exact: floating-point rounding is left out, and so are the sums of the second
dimension. Rules are constants; `WorldAssumption` asks of them what `valid_rules` does, and
two units of mass of a piece that splits, as its halves are exact. The parallel arrays are one sequence of records;
swap-and-pop, the lookup table and the grid are as in the code, and the phases of a
tick are in its order. `replica` is the world a client restores: the checkpoint is
turned into a snapshot, validated, hydrated, compared by digest (taken to be free of
collisions) and restored. `build_full_snapshot` refuses ticks and deadlines that do not fit
the wire, and its validation too many owners or entities (`SnapshotBuildError`): the server
then fails, and `WireTick` and `WireCount` are so small in the run that it happens.

**PredictionScope.** `world` is the server's, `replica` the client's projection of it,
stepped tick for tick with the movement that the client saw others hold.

**ClientPrediction.** A timeline is its frontiers here; the operators `Installed`,
`HardResynced`, `Replayed` and `Advanced` give the timelines a call of `Timeline` may
commit, none if it fails. One action is one snapshot, the welcome, or one submitted
command to its end, with the resync and the scope change it may need. The history of
inputs drops what a snapshot acknowledges (`Beyond`) and its oldest entry when it is full
(`Popped`), both written as the tail the code's loops leave. Whether a
predicted command removes the player, and whether the retained scope suffices, are free.
The server is reduced to tick, acknowledgement and session mode.

**Presentation.** A frame updates four parts that do not read each other's state, so a
behaviour of the whole is one of each, and `part` names the one a behaviour follows.
Cursor, clock and rates are integers; ages saturate where the code no longer tells
them apart. `FramePacing` takes any rate within the controller's clamp. Assumed: a life
does not end in the frame that began it, and a respawn is answered when the outbox is
empty.

## 3. Runs

Invariants are conjunctions of named parts, each commented in its module.

| Run | Instance | Shows |
|---|---|---|
| `rollback` | timeline: a counter model with two scopes and two stimuli, capacity 2, sequences to 2, two epochs, ticks to 2, authority dispositions on ticks 0 and 1, invalid identifiers included; router: the six handlers, one key, batches of every transition, evidence and malformed shape | `HistorySound`: ticks contiguous, frontiers ordered, keys unique. `ReplayCoherent`: prediction equals replay. `FrontiersMonotone`, `EpochNamesScope`, `CommandsKept`. `ChangesExplainJournal`: the changes of a commit account for the journal before and after it. `DeliveriesBalanced`: at most once, tokens finished once. `LedgerSound`: the ledger is pruned |
| `commands` | flow: six inputs, window 3, queue 4, thresholds 2 and 1, at most three losses; timing: the code's settings, latencies of 16 and 100 ms each way, three clock drifts, stalls of 0.2 and 1 s (client), 0.13 and 1.5 s (server) | `FlowAgrees`: no peer rejects the other, every message passes the codec. `OutboxSound`, `AppliedInOrder`. `PausesEndUnlessWindowLost`: only the loss of every command the server would accept keeps a pause from ending. `QueueRecovers`: after the stalls every tick finds a command and the reported depth is within one of the target, for good |
| `input_stall` (violation) | the flow above | finding 2 |
| `receipts` | stream: five receipts, queue of 3, two per snapshot; pipeline: one key of each of three kinds, three server ticks, heads to tick 3, a queue of three batches, five tokens | `FrontiersAgree`; the stream implements `ReceiptDelivery`; `ReceiptsArrive`. `CuesSound`: cues follow the prediction and are not erased under a token. `EvidenceSettles`: tombstones and proofs retire. `FlashesJustified`: every flash has a new prediction behind it |
| `server_sessions` | two connections, four entities, two owners, two pieces, two events per tick | `SessionsSound`: ownership agrees and the commands of a tick are accepted |
| `server_overflow` (violation) | the same | finding 1 |
| `connection` | both transports, at most two queued unreliable messages | `ConnectionSound`; the handshake implements `SessionLifecycle`; `HandshakeEnds`; `NoOrphans` |
| `world` | cells of 4, four entities, ticks to 3, two owners, one food, a wire for ticks to 2 and three entities | `StoreSound`: every index agrees. `RestoreSound`: a snapshot is built exactly when the wire has room, and hydrates; damaged checkpoints are refused or harmless. `ReplicaFollows`: a restored world stays equal. `TickAccounted`: mass conserved, journal complete |
| `prediction_scope` | four layouts, three ticks, five requests | `PredictionHolds`: no prediction step fails and what it steps lies in the scope. `IslandAgrees`: the island is what the server computes |
| `client_prediction` | six commands, history of 3, three epochs, ten ticks, two respawn requests in flight | `PredictionSound`: the prediction follows the newest snapshot. `FailuresExplained`: it fails only for want of an epoch or after a doubled respawn request. `CommandsRetained` |
| `respawn_twice` (violation) | the same | finding 3 |
| `presentation` | remote: 6 ticks, buffer of 3; local: 2 ticks, 3 corrections, one resync, two lives; tracks: 2 ticks; pacing: frames of one step and of more than the cap, rates from 19/20 to 21/20, two lives, one outage | `RemoteSound`, `CursorNeverRewinds`; `LocalSound`; `TracksSound`, `HandoffSeamless`; `RequestsCarriedOnce` |

Bounds. A capacity of two lets a replay drop one frame and keep one; sequences to two
reach the invalid one next to a full history. One key is enough for the router because
entries do not interact; three ticks of the pipeline let a key be predicted, retracted,
predicted again later and settled by evidence of either tick. A window smaller than the
sequence range makes the grant bind and lets it reach the clamp at the invalid value, and
as many losses as the window is wide lose all of it. A
receipt queue larger than a snapshot's share makes a batch partial, and five receipts
overflow the queue. Two sessions suffice for one to absorb, follow and outlive another;
two events per tick let a split be followed by the absorption of the child or a merge.
Four entities exhaust the allocator and are one more than the wire's three; within three
ticks a piece splits, is absorbed or merges again, and a deadline passes what the wire can
carry before it saturates. The layouts of the
scope put a chain of absorptions, a neighbour at the edge of the closure, prey beside two own
pieces and a heavy far pair before the client. A remote buffer of three evicts
the sample under the cursor. The stalls of `CommandTiming` are shorter and longer than it takes to
fill the outbox or empty the queue, and start before, during and after the first reports;
its states repeat once the loop has settled, so the run covers behaviours of any length. `Max*`,
`Last*` and `*Limit` constants are bounds of the models. Connections of `ServerSessions` are interchangeable, hence a symmetry set; no
liveness is checked there. Deadlock is not checked where a behaviour ends: a server or
client that returned an error (`server_sessions`, `client_prediction`), the last tick of the
pipeline in `receipts`, and the last frame of `presentation`.

Fairness. The main loops of the applications step the server and poll the client
forever, so the server's steps, the client's polls and its status messages are weakly
fair. A snapshot is sent again every second tick and an acknowledgement in every
packet, so the newest of each is assumed to arrive in the end (`NewestProcessed` for the
snapshots of `InputFlow`). Of the input packets, none is sent again: as long as packets with a
command the server still waits for are on their way, one of them is received in the end
(`FreshReceived`), and the network may lose up to `MaxLosses` packets, a whole window. `CommandTiming` asks only that frames go on. In `Connection` time passes, the library delivers reliable messages while a
link is up and finds out about a peer that is gone (weak fairness), and of unreliable
messages sent again and again one arrives, as does one of the server's sends succeed
(strong fairness). Nothing is assumed about older messages, or about new commands.

Refinements. `ReceiptStream` implements `ReceiptDelivery` with the receipts issued as
the receipts reported; `Connection` implements `SessionLifecycle`, in which a side only
moves forward through its phases, with the phases computed from the states of both runtimes.

## 4. Findings

1. *Receipt overflow ends the server* (run `server_overflow`). A session failed for
   overflow in a tick that applied one of its commands is looked up again with
   `sessions_.at`, which throws. The test that overflow "fails only the affected
   session" has no pending command.

2. *A lost window stalls the client* (run `input_stall`). A command is sent once, and
   again only beside newer ones (`flush_pending_inputs`, `client_runtime.cpp:1347`). When every
   packet of a receive window is lost, the server applies nothing, its grant stays, the
   outbox stays full and the pause stays on, although
   `docs/plans/14-input-flow-control-spectator-stress.md:42` has production resume.
   `PausesEndUnlessWindowLost` shows that nothing less does this.
3. *A second respawn request ends the client* (run `respawn_twice`). The application sends one
   for every key press (`client_app.cpp:1539`). When the first is granted, a new timeline starts; the
   acknowledgement of the second is then ahead of it and in no history, and the client
   returns `PredictionTimelineFailed` (`client_runtime.cpp:2090`), where
   `docs/plans/14-input-flow-control-spectator-stress.md:112` allows no prediction failure.
   `FailuresExplained` shows that nothing else does this.

Further disagreements between documents and code, met while modelling and not claimed
by a run:

- `docs/rollback_library_guide.md:585` calls retirement a proof that a key cannot come
  back; `resolve_event_changes` (`timeline.hpp:745`) reports a key as retired while its
  command is retained, and a later replay can predict it again.
- `docs/rollback_prediction_design.md:445` excludes reuse of a key after external
  retirement; evidence (`client_runtime.cpp:1863`) can be older than a newer prediction
  of the key. `FlashesJustified` states what holds instead.
- `docs/server_authoritative_networking_guide.md:307` says a lost peer ends its own
  session; a failed send inside the snapshot loop removes players that a later snapshot
  still follows, and that one fails with `InvalidWorldState` (`server_runtime.cpp:386`).
- `docs/rollback_prediction_design.md:300` against `scope.cpp:232`: the closure uses
  present radii, so an outside owner that merges or eats within the horizon can reach an
  owned piece. `IslandAgrees` excludes growth outside.
- `docs/rollback_prediction_design.md:562` against `client_app.cpp:1618`: the prefill
  after a respawn happens only when the poll inside a fixed step sees it.

## 5. Proofs

Every theorem holds for all values of the constants that meet the module's assumption
(`ReplicaAlwaysFollows` has a hypothesis of its own), and each is proved from an inductive invariant that TLC checked first. `PROJECT.json`
lists the theorems.

**CommandProofs**, for the timeline, with every game model that meets `ModelAssumption`, every capacity,
sequence and epoch range and every set of authority frames:
`TypeCorrect`, `HistoryIsSound` and `PredictionIsReplay` for the invariants `TypeOK`,
`HistorySound` and `ReplayCoherent`; `FrontiersAreMonotone`, `EpochsNameScopes`,
`CommandsAreKept` and `ChangesAlwaysExplain` for the action properties. `ModelAssumption` is the contract of a
rollback model: operations stay within their types, and a state reached by a step
survives capture and restore. The code relies on it wherever it restores the head
checkpoint instead of using the live state. `Inv` is the conjunction of the invariants,
which need one another: that the acknowledged frames are a prefix (`AckedPrefix`) rests
on the order of sequences; contiguous ticks after a replay on the length of that suffix;
replay coherence after an advance on the state being the restored head. That event keys
stay unique (`NextKeys`) is inductive by itself. There is a lemma per kind of step
(`FailPreserves`, `InstallPreserves`, `ReplayPreserves`, `AdvancePreserves`). What a commit
publishes is proved apart from the calls: `ChangeKinds` reads each change of a resolution
back as one of five kinds, `ChangesKeyedOnce` and `ChangesApply` show for any two journals
without repeated keys that the kinds exclude one another and lead from the one to the other,
and a call only has to meet those conditions (`StepExplains`), which is where the uniqueness
of keys and the refusal of conflicting outcomes are needed.

For the input flow, with every input range, window, queue capacity and pair of
thresholds in the order the code's constants have (`FlowAssumption`: the window fits the
server's queue, and the resume threshold is under the pause threshold): `OutboxAlwaysSound`,
`FlowAlwaysAgrees` and `CommandsAppliedInOrder`. `FlowInv` has four parts:
the outbox and the retained samples are consecutive and meet (`ClientQueues`), the server
has applied and queued only what was transmitted, and the client has heard no more than it
applied (`FrontiersBehind`), a packet is a run of transmitted samples within the grant
(`PacketsGranted`), and a later snapshot acknowledges no less (`SnapshotsOrdered`). The last
two are what the code relies on without checking: the server compares a packet with the
grant it has when the packet arrives, which may be later than the one the client used.

For the router, with every set of keys, any handlers, every stream of batches
and every choice of failing callbacks (`BatchAssumption`: the batches are sequences of
changes; `HandlerAssumption`: the kinds of handler are disjoint): `DeliveriesAlwaysBalanced`
and `LedgerAlwaysSound`. `RouterInv` says of every key that the entry agrees with the counts of
callbacks (`Balanced`) and that an entry retired from both sides is only kept for a token
(`Settled`). The first needs the second: a pruned entry starts to count again.

**ReceiptProofs**, for every number of receipts, queue size and share of a
snapshot (`ReceiptAssumption`: all positive): `FrontiersAlwaysAgree` for
`FrontiersAgree`, and `StreamImplementsDelivery`, that every step of the stream is a step
of `ReceiptDelivery` or a stutter. `FrontiersAgree` is not inductive, because it does not
say what is in flight. `StreamInv` says that the server's queue, the client's inbox and the
receipts of every snapshot are intervals of consecutive sequences (`FrontierFacts`,
`SnapshotsIssued`); that the frontiers are in order, those the client published ahead of
those the server knows of, and those ahead of the ones a snapshot reports; and that the
frontier in a snapshot never moves back from an earlier to a later one (`SnapshotsOrdered`).
A snapshot the client accepts then overlaps what it has or follows on from it.
For the pipeline, with every queue capacity, duration of the cues, bound on ticks and heads
and kind of event (`PipelineAssumption`: the router has the six handlers of the code, the key
names the occurrences of the kind, and durations and capacities are positive):
`CuesAlwaysSound`, `EvidenceAlwaysSettles` and
`FlashesAlwaysJustified`. Nothing simpler than the whole queue relates the timeline to the
screen: a batch may retract what an earlier one in the queue predicted and a later one predicts
again, and a full queue drops an install after earlier batches were queued. So `PipelineInv`
says that the batches are a path (`Path`) of legal moves of the key (`Link`), from the stage at
which the store stands to the stage of the runtime. A stage is a phase (nothing known,
predicted, settled) and whether a retirement is still owed its external evidence, which for
the runtime is that `pending` is set. `StoreInv` says what ledger and cues are at a stage: the
token is held exactly in phase "predicted" (`Known`), a retirement that is owed has the
replay's evidence and no other, and nothing is known of a key that is neither predicted nor
owed (`Evidence`), the next flash has an external proof to pay for it (`Counted`), and the only
record that is not terminal is the one the token names (`Cues`). `DeliveredStep`, `RetireStep`
and `ConsumedStep` show that consuming one batch takes the store along one link, `DrainedStore`
adds them up over the queue, and at the end of a frame the two stages are one. On the other side `BatchTells`,
`SettledBatchTells` and `SpectatorBatchTells` show that each commit is one more link,
and `PublishStep` that an install either leaves queue and pending retirement alone or moves
both to its own stage. That an acknowledged or absorbed occurrence is not predicted any more
(`Gone`) is what makes "settled" final.

**ConnectionProofs**, for either transport and any number of hellos, snapshots and
identifiers (`TransportsAssumption`; `MaxQueued` may be anything): `ConnectionAlwaysSound`
for `ConnectionSound`, and `ConnectionImplementsLifecycle`, that every step of the
connection is a step of `SessionLifecycle` or a stutter. None of the parts of
`ConnectionSound` is inductive: what a runtime meets depends on what is still in the queues.
`ConnectionInv` therefore says, of the record, the queue and the unfinished batch of each
endpoint together, that they hold the connection's begin at most once and first, its end at
most once and last, and no begin for a runtime that has met the connection (`EndSound`,
`Shaped`); that everything on its way to a side, in whichever queue, is something the other
side has sent by now (`Carried`); that the library's offer is the first callback the
listening side runs, before it has any record of the connection (`OfferedOnce`), while in
memory both sides are up or down together (`MemoryShared`); that the identifiers of the two
runtimes agree (`RuntimesSound`); and that a client which is closed, or has said so, has only
events left that end with Disconnected (`Told`). The last is needed for the refinement alone:
a closed client still handles what was queued before, which may even make it ready again
within a poll, and only the end of that batch makes sure that the application is never
told of a step back.
There is one lemma per action (`...Keeps`) over lemmas about one endpoint, about sending and
closing on either transport, and about the handlers of both runtimes.

**SessionProofs**, for the server's sessions, with every set of connections and any numbers of pieces, events
in a tick, timeouts and capacities (`SessionsAssumption`: the timeouts and the pieces of an
owner are positive): `SessionsAlwaysSound` for `SessionsSound`. `SessionsInv` adds to it what
the handlers rely on: every given owner is below the next one, also that of a session that
has no players now (`Owned`), so that an owner is never given out twice; a session without an
owner waits for no respawn, so that a spectator never gets a player, and never plays once it
is ready, so that it is never commanded (`Fits`); and the sessions are finitely many. One
handler is a chain of changes to sessions and players, each with a lemma that it keeps the
two in agreement (`...Agrees`). For a tick the argument follows the journal: a world in the
middle of a tick is good (`WorldGood`) when what the journal so far makes of the sessions
agrees with its players, and stays good after every event the simulation may report
(`AfterGood`), which `EventFollows` shows session by session: the one that splits, the one
that loses a piece or its last, and those the event does not touch. So it does not matter
that the server processes the journal only after the world has moved on.
For the client's prediction, with every history capacity, epoch range, number of ticks, commands
and respawn requests in flight (`PredictionAssumption`): `PredictionAlwaysSound`,
`CommandsAlwaysRetained` and `FailuresAlwaysExplained`. `PredictionInv` is the type invariant
with five parts: `ServerSide`
orders the server's clocks with the snapshots it sent; `RespawnEvidence` says where each
respawn request can be, and which snapshots may answer it; `HistoryIsRun` that the retained
inputs are consecutive; `ClientHealthy` that the timeline's frontiers fit the history
and the newest snapshot (`FitsHistory`); and `FailuresExplained` itself. As long as no request was
doubled, a defeated player's last command is the only request that may be unanswered, and a
snapshot that acknowledges a respawn starts a timeline at that command, so that
what the client retained begins there (`CaughtUp`); once one was doubled that part is given up, and
only the failure of the timeline is added. The history variable `doubled` records it and no action
reads it.

**PresentationProofs**, part by part: an invariant of one part is proved from the steps of
that part, and every other step of `Presentation` leaves its variables alone.
For the delayed view, with any entities and lives, buffer size, delay, rates and limits
(`RemoteAssumption`, and `LivesAssumption`: an identifier is given out once, so that an
entity lives at a stretch): `RemoteAlwaysSound` for `RemoteSound` and `CursorAlwaysAdvances`
for `CursorNeverRewinds`. `RemoteInv` says of the buffer that it holds exactly the newest of
the snapshots that arrived (`SamplesOK`, `Retains`), which is what makes a picture between two
samples one moment of the world; of the hold accounting that the total and the episode running
now fit into the time since the first snapshot (`Accounted`); and of what was drawn that there
is a moment the view has passed up to which each entity was counted as it came and went (`Pictured`).
The last is why nothing flickers: the moment only moves forward, and an entity's life is an
interval.
For the pacing, with any times, limits, rates and thresholds (`PacingAssumption`: the outbox resumes
below the depth it pauses at): `RequestsAlwaysCarriedOnce` for `RequestsCarriedOnce`.
`PacingInv` adds what a frame relies on between its steps: an outbox is paused only while
commands wait in it, so that no respawn is answered while the next request is held back;
nothing of a respawn is pending while the player plays; and a split flag left over from a
life that ended goes before the request for the next life does.
For the tracks, with any lead, speeds, smoothing and retention (`TracksAssumption`):
`TracksAlwaysSound` for `TracksSound` and `HandoffAlwaysSeamless` for `HandoffSeamless`.
`TracksInv` says of the worlds a frame is drawn from that the split child has one identifier
at a time: the provisional one only while the split is unanswered, its own only after it was
answered, and a second split never follows (`WorldsSound`). That makes the circles of a frame
unique (`PlayingCirclesAre`), and the rest is about one track: a handover rests it on its new
source and takes the whole distance as offset (`HandoverIs`). The trail is in the order of its
ages, which is why its expired samples come first (`TrailOK`).
For the local player, with any step, displacements, times and capacities
(`LocalAssumption`): `LocalAlwaysSound` for `LocalSound`. `LocalInv` relates the head to the
frame drawn last (`Followed`): while the epoch is the same, the counters never fall behind the
frame's and the uncorrected position is the head's less the corrections since that frame;
after a resync the epoch is later and all of its corrections count. One update then turns
exactly that difference into the new offset (`UpdateFollows`). For the list it says that what
left the screen is not on it, and that the history has passed every sequence number of the
same epoch the runtime still lists (`GoneStays`): this is why clearing the list keeps its last
sequence number, and why a resync, which forgets that number, brings nothing back.

**WorldProofs**, for every table of radii, cell size and grid limit, every rule set, every
set of owners, spawn points, commands and mechanics, and any number of entities and ticks
(`WorldAssumption`, `GridAssumption`): `StoreAlwaysSound` for `StoreSound` and
`SnapshotsAlwaysRestore` for `RestoreSound`.
`WorldInvariant` says of the server's world and of the restored one that they are `Sound`,
which has three parts. `Stored`: the lookup table is a bijection with the places of the two
arrays (`Arrays`), the grid's entries are exactly its ids with the cells of their
circles, each cell lists every entity once and only those whose range has it (`GridSound`).
`Numbered`: no id reaches the allocator, no counter its limit. `OwnersSound`: the
owners are sorted, are those of the pieces, and each lists its pieces in ascending order,
which is why a new id may be appended and binary search finds an owner.
`InsertSound`, `UpdateSound` and `EraseSound` follow the grid, `ArraysAppend` and `ArraysRemove`
the table through an append and a swap-and-pop. A spawn is good while the owner
that waits for its first piece has none (`Expecting`). A tick works on a copy: each of its phases
hands on pieces with the ids and owners of the world (`Phase`) and eats every food once
(`Fed`), and `CommittedSound` writes such a copy back: in place, then the dead, then the eaten,
whose indices move while they are removed. The model's loops are recursive functions;
for each a lemma shows that the function exists (`...Equation`), and the rest is induction over its index.
`RestoreAlwaysSound` is about any checkpoint of the right types, made by a world or not: one that
`restore` accepts fills a `Sound` world, so its checks are enough for every later call.
For `RestoreSound` the invariant `SentInvariant` adds that the server's world is `Encodable`:
everything is where the grid can index it (`InGrid`), and no two pieces have the same prediction
key, nor one of an input its owner has not had applied (`KeysSound`). A tick gives keys while it
splits pieces one after another, so `RequestDoing` says what holds in the middle: the owner's
older keys are of earlier inputs, because a command is only valid with a newer one
(`CommandsNewer`), and the children so far are numbered below the next. Every other operation
carries keys along and never takes the state of an owner who still has pieces (`Carried`).
`HydrationAdmits` then follows an encodable world through the codec: `ById` gives the one
sequence of its entities by id (`IncreasingUnique`), so that the client, which only gets the
merged array, takes apart the same two arrays, derives the same lists of pieces and
computes the same digest.

`RestoreSound` claims a snapshot only for worlds whose ticks and counts the wire can carry
(`WithinWire`), and that the server refuses every other one: `WireTick` and `WireCount` are
constants, 2^32 - 1 and 65535 in the code, of which the model's `LastTick` and `LastEntity`
are independent.

**ReplicaProofs**, under `WorldAssumption`, `GridAssumption` and the hypothesis that the radius of
a mass is a length (`RadiiAreLengths`): `ReplicaAlwaysFollows` for `ReplicaFollows`. The two worlds
hold the same pieces and food in arrays of other orders (`SameWorld`), so nothing may depend on
an index. A phase of the tick is followed on the set of live pieces and the events so far
(`SameState`), and has one lemma that it keeps two such states the same (`SameSplits`,
`SameAbsorptions`, `SameMerges`, `SameMeals`). Where the code looks
for candidates in the grid, what a query finds does not depend on the order of the cells' lists
(`SameQuery`); where it sorts, the rank of a candidate among the others is the same in
both worlds, because masses and ids decide before any index does (`Ordered`, `RankTaken`,
`SameCandidates`); where it takes a best pair, that pair is unique (`LeastPairUnique`).
`SameCommit` writes the two back and `SameAdvanced` puts the phases together; as restoring gives
a `SameWorld` to begin with (`RestoredSame`), the worlds never part, nor do their journals.

The named assumptions are evaluated by TLC on the instance of each module's run, and the
constants of the code meet them as far as they are numbers: capacities, windows, thresholds,
durations and timeouts. The others are abstractions and hold by what they abstract:
that the operations of a game model stay within their types and survive capture and restore
(`ModelAssumption`), that an identifier is given out once (`LivesAssumption`, which
`StoreAlwaysSound` shows of the world's allocator), that a piece splits in two exact halves (`MinSplitMass`),
and that radii are lengths, integers here.

Only model-checked: `TickAccounted` of `World`, which compares the sum of all masses before and
after, through folds whose results the provers cannot derive by induction over an operator; the
properties of `PredictionScope`; and `QueueRecovers`, as that a loop settles is a property of its
numbers. Liveness under fairness (`PausesEndUnlessWindowLost`, `ReceiptsArrive`, `HandshakeEnds`,
`NoOrphans`) and `ENABLED` are beyond the provers and stay with TLC.

## 6. Not modelled

- Two-dimensional floating-point geometry, its rounding, and the search spiral for
  spawn points: the models use integers on a line.
- Byte layout of messages: validation is modelled, a message is its fields.
- Input provenance, command-timing and prediction statistics, debug fault injection,
  logs: diagnostics that nothing reads back.
- Conversions between ticks and durations, and `next_period`, by which the headless bot turns
  the rate into a period.
- Losses and a latency that varies, in the loop of `CommandTiming`.
- Configuration, command lines, the offline loop, bots, rendering, camera, colours,
  assets and tools.

## 7. Plan

1. The refinement of the frontiers of `ClientPrediction` by `Timeline`.
2. The offline loop of the client, which steps a world without a server.
