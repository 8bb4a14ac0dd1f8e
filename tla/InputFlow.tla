----------------------------- MODULE InputFlow -----------------------------
(***************************************************************************)
(* Flow control of player commands between one client runtime              *)
(* (client_runtime.cpp) and its session at the server runtime              *)
(* (server_runtime.cpp): the client holds commands back in an outbox until *)
(* a snapshot grants their sequence, the server applies at most one        *)
(* command per tick and grants a window past the last one it applied.      *)
(*                                                                         *)
(* Packets and snapshots are unreliable: everything sent stays in          *)
(* `packets' or `snapshots' and may arrive at any time, in any order, any  *)
(* number of times or never; losing a packet takes it out.  Samples are    *)
(* immutable, so a sample is its sequence number.  The model starts when   *)
(* the handshake has made the client Ready as a player.                    *)
(***************************************************************************)
EXTENDS Integers, Sequences, FiniteSets, FiniteSetsExt

CONSTANTS
  InvalidInput,      \* InputSequenceId::kInvalidValue
  Window,            \* kInputReceiveWindow
  QueueCapacity,     \* kMaximumPendingInputCount
  PacketSamples,     \* kMaximumInputSamplesPerPacket
  Redundancy,        \* settings_.input_redundancy
  OutboxCapacity,    \* kPredictionHistoryCapacity
  PauseThreshold,    \* kInputPauseThreshold
  ResumeThreshold,   \* kInputResumeThreshold
  PacketsPerFlush,   \* kMaximumInputPacketsPerFlush
  MaxLosses          \* bound: packets the network may lose

Inputs == 0 .. InvalidInput - 1
NoInput == -1        \* an invalid InputSequenceId

ASSUME FlowAssumption ==
  /\ InvalidInput \in Nat \ {0}
  /\ Window \in Nat \ {0} /\ Window <= QueueCapacity
  /\ QueueCapacity \in Nat
  /\ PacketSamples \in Nat \ {0}
  /\ Redundancy \in BOOLEAN
  /\ ResumeThreshold \in Nat /\ PauseThreshold \in Nat /\ OutboxCapacity \in Nat
  /\ ResumeThreshold < PauseThreshold /\ PauseThreshold <= OutboxCapacity
  /\ PacketsPerFlush \in Nat \ {0}
  /\ MaxLosses \in Nat

VARIABLES
  next,        \* next_input_id_
  outbox,      \* command_outbox_
  recent,      \* recently_transmitted_inputs_
  paused,      \* input_production_paused_
  snapshotId,  \* world_.snapshot_id()
  ack,         \* world_.last_processed_input_id()
  grant,       \* world_.input_receive_through()
  failed,      \* the runtime reported an error and stopped
  processed,   \* Session::last_processed_input_id
  pending,     \* Session::pending_inputs
  oddTick,     \* world_.tick() is odd
  issued,      \* Session::next_snapshot_id
  rejected,    \* the server rejected a packet and dropped the session
  packets, snapshots, lost

clientVars == <<next, outbox, recent, paused, snapshotId, ack, grant, failed>>
serverVars == <<processed, pending, oddTick, issued, rejected>>
flowVars == <<clientVars, serverVars, packets, snapshots, lost>>

\* input_receive_through_for: a window past the last processed input, short of
\* the invalid value.
ReceiveThrough(input) ==
  IF input + Window < InvalidInput THEN input + Window ELSE InvalidInput - 1

Snapshot(id, input) ==
  [id |-> id, ack |-> input, grant |-> ReceiveThrough(input)]

-----------------------------------------------------------------------------
(* The client.                                                             *)

\* Faulty variant: production pauses one command late.
PauseAfter_Late(wasPaused, unsent) ==
  IF wasPaused THEN unsent > ResumeThreshold ELSE unsent > PauseThreshold

\* update_input_pause_state: hysteresis on the unsent commands.
PauseAfter(wasPaused, unsent) ==
  IF wasPaused THEN unsent > ResumeThreshold ELSE unsent >= PauseThreshold

\* Faulty variants: the grant is taken as the first sequence that is not
\* granted, or one past it is sent.
Sendable_Short(queue, through) ==
  LET granted == {i \in DOMAIN queue : queue[i] < through}
  IN Min({PacketsPerFlush, Cardinality(granted)})
Sendable_PastGrant(queue, through) ==
  LET granted == {i \in DOMAIN queue : queue[i] <= through + 1}
  IN Min({PacketsPerFlush, Cardinality(granted)})

\* The packets one flush may send: the granted head of the outbox, at most
\* PacketsPerFlush.
Sendable(queue, through) ==
  LET granted == {i \in DOMAIN queue : queue[i] <= through}
  IN Min({PacketsPerFlush, Cardinality(granted)})

\* CommandOutbox: full, push_back of a queue that is not, and one pop_front for
\* each packet sent.
OutboxFull == Len(outbox) >= OutboxCapacity
Queued(queue, command) == Append(queue, command)
Popped(queue, count) == SubSeq(queue, count + 1, Len(queue))

\* The newest transmitted samples that are kept for redundancy.
Newest(samples) ==
  SubSeq(samples, Max({1, Len(samples) - PacketSamples + 2}), Len(samples))

\* make_input_packet: a sample and the unprocessed ones sent just before it.
Packet(sample, before, through) ==
  {sample} \cup {before[i] : i \in {j \in DOMAIN before :
                   /\ Redundancy
                   /\ before[j] < sample /\ before[j] > through
                   /\ sample - before[j] <= PacketSamples - 1}}

\* validate(InputPacket): a packet carries some samples, not too many, with
\* consecutive ids.
ValidPacket(samples) ==
  /\ samples # {} /\ Cardinality(samples) <= PacketSamples
  /\ Max(samples) - Min(samples) = Cardinality(samples) - 1

\* flush_pending_inputs: count packets leave the outbox queue; fewer than
\* sendable when the transport's queue fills up.
Flush(queue, wasPaused, input, through, count) ==
  LET sent(i) == Newest(recent \o SubSeq(queue, 1, i))
  IN /\ count <= Sendable(queue, through)
     /\ packets' = packets \cup {Packet(queue[i], sent(i - 1), input) : i \in 1 .. count}
     /\ outbox' = Popped(queue, count)
     /\ recent' = sent(count)
     /\ paused' = PauseAfter(wasPaused, Len(queue) - count)

\* submit_input: queue the command, then update the pause state and flush.  A
\* paused client, an exhausted sequence or a full outbox refuses it.
SubmitInput(count) ==
  /\ ~failed /\ ~paused /\ next # InvalidInput /\ ~OutboxFull
  /\ next' = next + 1
  /\ LET queue == Queued(outbox, next)
     IN Flush(queue, PauseAfter(paused, Len(queue)), ack, grant, count)
  /\ UNCHANGED <<snapshotId, ack, grant, failed, serverVars, snapshots, lost>>

\* valid_acknowledgement: it neither disappears, regresses, nor names an input
\* that was never submitted.
ValidAcknowledgement(input) == input >= ack /\ input < next

\* ReplicatedWorld::apply drops a snapshot that is not newer.
Newer(snapshot) == snapshot.id > snapshotId

\* process_events on one snapshot, then the flush.  Polling several snapshots
\* is polling each with the transport's queue full before the last one.
ProcessSnapshot(snapshot, count) ==
  LET newer == Newer(snapshot)
      valid == ValidAcknowledgement(snapshot.ack)
  IN /\ ~failed
     /\ failed' = (newer /\ ~valid)
     /\ snapshotId' = IF newer /\ valid THEN snapshot.id ELSE snapshotId
     /\ ack' = IF newer /\ valid THEN snapshot.ack ELSE ack
     /\ grant' = IF newer /\ valid THEN snapshot.grant ELSE grant
     /\ failed' => count = 0
     /\ Flush(outbox, paused, ack', grant', count)
     /\ UNCHANGED <<next, serverVars, snapshots, lost>>

-----------------------------------------------------------------------------
(* The server.                                                             *)

\* Faulty variant: samples already applied are queued again.
Fresh_AppliedKept(samples) == samples \ pending

\* enqueue_input looks only at samples it neither applied nor queued.
Fresh(samples) == {s \in samples : s > processed} \ pending

\* process_events on one packet: a fresh sample beyond the grant or a full
\* queue rejects the peer.
ReceiveInput(packet) ==
  LET fresh == Fresh(packet)
      acceptable == /\ \A s \in fresh : s <= ReceiveThrough(processed)
                    /\ Cardinality(pending) + Cardinality(fresh) <= QueueCapacity
  IN /\ ~rejected
     /\ rejected' = ~acceptable
     /\ pending' = IF acceptable THEN pending \cup fresh ELSE pending
     /\ UNCHANGED <<clientVars, processed, oddTick, issued, packets, snapshots, lost>>

\* validate(FullSnapshot), the input flow: the queue length a snapshot reports
\* is within the window it grants.
ValidQueueReport(count) == count <= QueueCapacity /\ count <= Window

\* step: apply the oldest queued sample, and send a snapshot on even ticks.  A
\* snapshot with the frontiers of the one before it has the same effect whether
\* it is applied or dropped as stale, so it keeps that one's id.
ServerStep ==
  LET applied == IF pending = {} THEN processed ELSE Min(pending)
      repeated == \E s \in snapshots : s.id = issued - 1 /\ s.ack = applied
  IN /\ ~rejected
     /\ processed' = applied
     /\ pending' = pending \ {applied}
     /\ oddTick' = ~oddTick
     /\ \/ /\ oddTick /\ ~repeated
           /\ snapshots' = snapshots \cup {Snapshot(issued, applied)}
           /\ issued' = issued + 1
        \/ /\ ~oddTick \/ repeated
           /\ UNCHANGED <<snapshots, issued>>
     /\ UNCHANGED <<clientVars, rejected, packets, lost>>

\* The network drops a packet.
LosePacket(packet) ==
  /\ lost < MaxLosses
  /\ lost' = lost + 1
  /\ packets' = packets \ {packet}
  /\ UNCHANGED <<clientVars, serverVars, snapshots>>

-----------------------------------------------------------------------------
FlowInit ==
  /\ next = 0 /\ outbox = << >> /\ recent = << >> /\ paused = FALSE
  /\ snapshotId = 0 /\ ack = NoInput /\ grant = ReceiveThrough(NoInput)
  /\ failed = FALSE
  /\ processed = NoInput /\ pending = {} /\ oddTick = FALSE /\ issued = 1
  /\ rejected = FALSE
  /\ packets = {} /\ snapshots = {Snapshot(0, NoInput)} /\ lost = 0

FlowNext ==
  \/ \E count \in 0 .. PacketsPerFlush : SubmitInput(count)
  \/ \E s \in snapshots, count \in 0 .. PacketsPerFlush : ProcessSnapshot(s, count)
  \/ \E p \in packets : ReceiveInput(p)
  \/ ServerStep
  \/ \E p \in packets : LosePacket(p)

FlowSpec == FlowInit /\ [][FlowNext]_flowVars

\* A poll whose flush is not cut short by the transport.
ProcessFully(snapshot) ==
  ProcessSnapshot(snapshot, Sendable(outbox, IF Newer(snapshot) THEN snapshot.grant
                                             ELSE grant))

NewestProcessed == \E s \in snapshots : s.id = issued - 1 /\ ProcessFully(s)

\* A packet that the network did not lose, with a sample the server waits for.
FreshReceived == \E p \in packets : ReceiveInput(p) /\ pending' # pending

\* The server keeps stepping, the client keeps polling with room in the
\* transport's queue, the newest snapshot (sent again every other tick) gets
\* through in the end, and so does every packet the network does not lose.
FlowFairness ==
  /\ WF_flowVars(ServerStep)
  /\ WF_flowVars(NewestProcessed)
  /\ WF_flowVars(FreshReceived)

FairFlowSpec == FlowSpec /\ FlowFairness

-----------------------------------------------------------------------------
(* Properties.                                                             *)

\* Types of both sides' fields.
FlowTypeOK ==
  /\ next \in 0 .. InvalidInput
  /\ outbox \in Seq(Inputs) /\ recent \in Seq(Inputs)
  /\ paused \in BOOLEAN /\ failed \in BOOLEAN /\ rejected \in BOOLEAN
  /\ snapshotId \in 0 .. issued - 1 /\ issued \in Nat
  /\ ack \in Inputs \cup {NoInput} /\ processed \in Inputs \cup {NoInput}
  /\ grant \in Inputs
  /\ pending \in SUBSET Inputs
  /\ oddTick \in BOOLEAN
  /\ packets \in SUBSET (SUBSET Inputs)

\* The server never rejects this client, and its queue stays within the
\* advertised window, far from the defensive capacity: no order of late,
\* repeated or lost packets and snapshots makes a conforming client exceed its
\* grant, or makes the server fail on a snapshot the codec refuses.
ConformingClientAccepted == ~rejected /\ ValidQueueReport(Cardinality(pending))

\* However the transport cuts flushes short and acknowledgements move meanwhile,
\* redundant samples never leave a gap that would make the codec refuse the
\* packet and end the client.
PacketsEncodable == \A p \in packets : ValidPacket(p)

\* The client never sees an acknowledgement it must reject, whatever order
\* snapshots arrive in.
AcknowledgementsValid == ~failed

\* Neither side ever finds the other in violation of the protocol: the window
\* that each derives from what it last heard is one the other accepts, and what
\* each makes of its queues is a message the codec sends.
FlowAgrees == ConformingClientAccepted /\ AcknowledgementsValid /\ PacketsEncodable

\* Commands wait, in submission order and without gaps, behind everything
\* transmitted, and the outbox holds at most PauseThreshold of them: production
\* stops long before a full outbox would drop a command.
OutboxHoldsSuffix ==
  /\ Len(outbox) <= PauseThreshold
  /\ \A i \in DOMAIN outbox : outbox[i] = next - Len(outbox) + i - 1
  /\ paused => Len(outbox) > ResumeThreshold
  /\ ~paused => Len(outbox) < PauseThreshold

\* The fields of both sides have their types, the grant short of the invalid
\* input, and the outbox is the suffix of what was submitted.
OutboxSound == FlowTypeOK /\ OutboxHoldsSuffix

\* The server applies every command at most once and in submission order:
\* repeated and late samples never run again.
AppliedInOrder ==
  [][processed' # processed => processed' > processed /\ processed' < next]_flowVars

\* A client that paused command production resumes.
PausesEnd == paused ~> ~paused

\* Every command that the server would accept was sent, and all of them are lost.
WindowLost ==
  LET window == processed + 1 .. ReceiveThrough(processed)
  IN /\ \A i \in DOMAIN outbox : outbox[i] \notin window
     /\ \A sample \in window : sample \notin pending /\ \A p \in packets : sample \notin p

\* Losing a whole window of commands is all that keeps a paused client from
\* resuming: while one of them is still to be applied, or may still be sent,
\* the grant moves and drains the outbox, whatever else was lost or repeated.
PausesEndUnlessWindowLost == paused ~> (~paused \/ WindowLost)
=============================================================================
