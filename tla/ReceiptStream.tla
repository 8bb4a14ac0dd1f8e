---------------------------- MODULE ReceiptStream ----------------------------
(***************************************************************************)
(* Authority receipts of one session: the server (server_runtime.cpp)      *)
(* numbers the simulation events a client takes part in and repeats the    *)
(* unacknowledged ones in every snapshot; the client's                     *)
(* AuthorityReceiptInbox (replication.cpp) accepts them in order, and the  *)
(* client runtime publishes them to its timeline and acknowledges them.    *)
(*                                                                         *)
(* Snapshots and acknowledgements are unreliable: what was sent stays in   *)
(* `snapshots' or `acks' and may arrive at any time, in any order, any     *)
(* number of times or never.  The welcome is reliable but may arrive after *)
(* a snapshot.  The server numbers an event once, so a receipt is its      *)
(* sequence number, and distinct receipts have distinct event keys.        *)
(***************************************************************************)
EXTENDS Integers, Sequences, FiniteSetsExt

CONSTANTS
  InvalidReceipt,    \* AuthorityReceiptSequenceId::kInvalidValue
  PendingCapacity,   \* kMaximumPendingAuthorityReceipts
  PerSnapshot,       \* kMaximumAuthorityReceiptsPerSnapshot
  EventsPerTick      \* bound: events of one tick that concern the client

Receipts == 0 .. InvalidReceipt - 1
NoReceipt == -1      \* an invalid AuthorityReceiptSequenceId

ASSUME ReceiptAssumption ==
  /\ InvalidReceipt \in Nat \ {0}
  /\ PendingCapacity \in Nat \ {0}
  /\ PerSnapshot \in 1 .. PendingCapacity
  /\ EventsPerTick \in Nat

VARIABLES
  nextReceipt,  \* Session::next_authority_receipt_sequence
  pendingR,     \* Session::pending_authority_receipts
  ackedR,       \* Session::last_acknowledged_authority_receipt
  oddTick,      \* world_.tick() is odd
  issued,       \* Session::next_snapshot_id
  session,      \* "open", "overflowed" (fail_session) or "rejected" (reject)
  welcomed,     \* the client has the welcome: world_rules_ is set
  snapshotId,   \* world_.snapshot_id()
  retained,     \* AuthorityReceiptInbox::retained_
  accepted,     \* accepted_through_
  published,    \* published_through_
  retiredR,     \* server_retired_through_
  failed,       \* the runtime reported InvalidSnapshot and stopped
  delivered,    \* ghost: the receipts handed to the timeline
  snapshots, acks

serverVars == <<nextReceipt, pendingR, ackedR, oddTick, issued, session>>
clientVars ==
  <<welcomed, snapshotId, retained, accepted, published, retiredR, failed, delivered>>
streamVars == <<serverVars, clientVars, snapshots, acks>>

-----------------------------------------------------------------------------
(* The server.                                                             *)

\* The receipts of a queue past a frontier: those at or before it leave at the
\* front, as pop_front takes them.
Through(queue, frontier) ==
  {n \in 0 .. Len(queue) : \A i \in 1 .. n : queue[i] <= frontier}
Past(queue, frontier) ==
  SubSeq(queue, Max(Through(queue, frontier)) + 1, Len(queue))

\* Faulty variant: the newest receipts are sent first.
Snapshot_NewestFirst(id, pending) ==
  [id |-> id, receipts |-> SubSeq(pending, 1 + Max({0, Len(pending) - PerSnapshot}),
                                  Len(pending)),
   retired |-> ackedR]

\* The snapshot send_snapshot builds: the oldest pending receipts, and the
\* acknowledged frontier.
Snapshot(id, pending) ==
  [id |-> id, receipts |-> SubSeq(pending, 1, Min({Len(pending), PerSnapshot})),
   retired |-> ackedR]

\* validate(FullSnapshot), the receipts: they continue the retired frontier
\* without a gap, and their event keys, here the numbers, are distinct.
ValidReceipts(s) ==
  /\ Len(s.receipts) <= PerSnapshot
  /\ s.receipts # << >> => s.retired # InvalidReceipt - 1 /\ s.receipts[1] = s.retired + 1
  /\ \A i \in 1 .. Len(s.receipts) - 1 : s.receipts[i + 1] = s.receipts[i] + 1

\* enqueue_authority_receipt for each of the tick's events: how many fit.
Enqueued(count) ==
  Min({count, PendingCapacity - Len(pendingR), InvalidReceipt - nextReceipt})

\* step: the tick's events are enqueued, a session they do not fit is failed,
\* and an open session gets a snapshot on even ticks.  A snapshot equal to the
\* one before it but for its id has the same effect whether it is applied or
\* dropped as stale, so it keeps that one's id.
ServerStep(count) ==
  LET fit == Enqueued(count)
      pending == pendingR \o [i \in 1 .. fit |-> nextReceipt + i - 1]
      repeated == Snapshot(issued - 1, pending) \in snapshots
  IN /\ session = "open"
     /\ session' = IF fit < count THEN "overflowed" ELSE "open"
     /\ pendingR' = pending
     /\ nextReceipt' = nextReceipt + fit
     /\ oddTick' = ~oddTick
     /\ IF oddTick /\ fit = count /\ ~repeated
        THEN snapshots' = snapshots \cup {Snapshot(issued, pending)} /\ issued' = issued + 1
        ELSE UNCHANGED <<snapshots, issued>>
     /\ UNCHANGED <<ackedR, clientVars, acks>>

\* Faulty variant: an old acknowledgement moves the frontier back.
ReceiveAck_Regresses(ack) ==
  LET issuedAck == ack < nextReceipt
  IN /\ session = "open"
     /\ session' = IF ack >= nextReceipt THEN "rejected" ELSE "open"
     /\ ackedR' = IF issuedAck THEN ack ELSE ackedR
     /\ pendingR' = IF issuedAck THEN Past(pendingR, ack) ELSE pendingR
     /\ UNCHANGED <<nextReceipt, oddTick, issued, clientVars, snapshots, acks>>

\* acknowledge_authority_receipts, called for every input packet and status: an
\* acknowledgement beyond what was issued rejects the peer, an old one is
\* ignored, and a new one retires the receipts through it.
ReceiveAck(ack) ==
  LET newer == ack > ackedR /\ ack < nextReceipt
  IN /\ session = "open"
     /\ session' = IF ack >= nextReceipt THEN "rejected" ELSE "open"
     /\ ackedR' = IF newer THEN ack ELSE ackedR
     /\ pendingR' = IF newer THEN Past(pendingR, ack) ELSE pendingR
     /\ UNCHANGED <<nextReceipt, oddTick, issued, clientVars, snapshots, acks>>

-----------------------------------------------------------------------------
(* The client.                                                             *)

\* AuthorityReceiptInbox::apply: the echoed frontier neither regresses nor
\* passes what this client published.
ValidRetirement(s) == s.retired >= retiredR /\ s.retired <= published

\* The retained receipts once the echoed frontier is dropped.
Unretired(s) == Past(retained, s.retired)

\* The receipts the snapshot adds: those of a snapshot are in order.
NewReceipts(s) == Past(s.receipts, accepted)

\* Known receipts must still be retained, new ones extend the accepted frontier
\* without a gap, and all fit.
Acceptable(s) ==
  LET kept == Unretired(s)
      new == NewReceipts(s)
  IN /\ ValidRetirement(s)
     /\ \A i \in DOMAIN s.receipts :
          s.receipts[i] <= accepted => \E j \in DOMAIN kept : kept[j] = s.receipts[i]
     /\ \A i \in DOMAIN new : new[i] = accepted + i
     /\ Len(kept) + Len(new) <= PendingCapacity

\* Faulty variant: everything retained is handed over again.
Pending_All(receipts) == receipts

\* pending_publication, handed over by install_authority, which then marks all
\* of it published.  The inbox is in order.
Pending(receipts) == Past(receipts, published)
LastOr(receipts, default) ==
  IF receipts = << >> THEN default ELSE receipts[Len(receipts)]

\* ReplicatedWorld::apply drops a snapshot that is not newer.
Newer(s) == s.id > snapshotId

\* process_snapshot: an acceptable newer snapshot replaces the inbox and, once
\* the welcome is in, publishes what is pending.
ProcessSnapshot(s) ==
  LET applied == Newer(s) /\ Acceptable(s)
      inbox == Unretired(s) \o NewReceipts(s)
      publication == IF applied /\ welcomed THEN Pending(inbox) ELSE << >>
  IN /\ ~failed
     /\ failed' = (Newer(s) /\ ~Acceptable(s))
     /\ snapshotId' = IF applied THEN s.id ELSE snapshotId
     /\ retained' = IF applied THEN inbox ELSE retained
     /\ accepted' = IF applied THEN LastOr(NewReceipts(s), accepted) ELSE accepted
     /\ retiredR' = IF applied THEN s.retired ELSE retiredR
     /\ published' = LastOr(publication, published)
     /\ delivered' = delivered \o publication
     /\ UNCHANGED <<welcomed, serverVars, snapshots, acks>>

\* process_events on the welcome: receipts of earlier snapshots are published.
\* A repeated welcome is ignored.
ProcessWelcome ==
  LET publication == Pending(retained)
  IN /\ ~failed /\ ~welcomed
     /\ welcomed' = TRUE
     /\ published' = LastOr(publication, published)
     /\ delivered' = delivered \o publication
     /\ UNCHANGED <<snapshotId, retained, accepted, retiredR, failed, serverVars,
                    snapshots, acks>>

\* make_input_packet and maybe_send_status of a Ready client carry the published
\* frontier.
SendAck ==
  /\ ~failed /\ welcomed /\ snapshotId # NoReceipt
  /\ acks' = acks \cup {published}
  /\ UNCHANGED <<serverVars, clientVars, snapshots>>

-----------------------------------------------------------------------------
\* The session was accepted: the welcome and snapshot 0 are on their way.
StreamInit ==
  /\ nextReceipt = 0 /\ pendingR = << >> /\ ackedR = NoReceipt
  /\ oddTick = FALSE /\ issued = 1 /\ session = "open"
  /\ welcomed = FALSE /\ snapshotId = NoReceipt /\ retained = << >>
  /\ accepted = NoReceipt /\ published = NoReceipt /\ retiredR = NoReceipt
  /\ failed = FALSE /\ delivered = << >>
  /\ snapshots = {[id |-> 0, receipts |-> << >>, retired |-> NoReceipt]}
  /\ acks = {}

StreamNext ==
  \/ \E count \in 0 .. EventsPerTick : ServerStep(count)
  \/ \E ack \in acks : ReceiveAck(ack)
  \/ \E s \in snapshots : ProcessSnapshot(s)
  \/ ProcessWelcome
  \/ SendAck

StreamSpec == StreamInit /\ [][StreamNext]_streamVars

\* The server keeps stepping and the client keeps polling and sending; the
\* welcome arrives, and so in the end do the newest snapshot and the newest
\* acknowledgement, which are sent again and again.
StreamFairness ==
  /\ WF_streamVars(\E count \in 0 .. EventsPerTick : ServerStep(count))
  /\ WF_streamVars(\E s \in snapshots : s.id = issued - 1 /\ ProcessSnapshot(s))
  /\ WF_streamVars(ProcessWelcome)
  /\ WF_streamVars(SendAck)
  /\ WF_streamVars(ReceiveAck(published) /\ published \in acks)

FairStreamSpec == StreamSpec /\ StreamFairness

-----------------------------------------------------------------------------
(* Properties.                                                             *)

\* Types of both sides' fields.
StreamTypeOK ==
  /\ nextReceipt \in 0 .. InvalidReceipt
  /\ pendingR \in Seq(Receipts) /\ retained \in Seq(Receipts)
  /\ {ackedR, accepted, published, retiredR} \subseteq Receipts \cup {NoReceipt}
  /\ issued \in Nat /\ snapshotId \in -1 .. issued - 1
  /\ session \in {"open", "overflowed", "rejected"}
  /\ Len(pendingR) <= PendingCapacity
  /\ acks \subseteq Receipts \cup {NoReceipt}

\* Neither side ever finds the other in violation of the protocol: no order of
\* late, repeated or lost snapshots and acknowledgements makes the inbox report
\* a gap, a conflict, an invalid retirement or an overflow, or makes the server
\* reject an acknowledgement.
PeersAgree == ~failed /\ session # "rejected"

\* The server forgets a receipt only after the client published it, and the
\* client forgets it only after the server did: the retirement frontiers stay
\* in this order, and each side holds exactly the receipts past its own.
RetirementOrdered ==
  /\ retiredR <= ackedR /\ ackedR <= published
  /\ published <= accepted /\ accepted < nextReceipt
  /\ pendingR = [i \in 1 .. nextReceipt - 1 - ackedR |-> ackedR + i]
  /\ retained = [i \in 1 .. accepted - retiredR |-> retiredR + i]

\* Every snapshot is one the codec sends: acknowledgements that overtake each
\* other never put the receipts out of step with the frontier beside them.
SnapshotsEncodable == \A s \in snapshots : ValidReceipts(s)

\* The frontiers of both sides fit together at any time, so that neither side
\* ends the session for what the other did.
FrontiersAgree == StreamTypeOK /\ PeersAgree /\ RetirementOrdered /\ SnapshotsEncodable

\* Seen through the receipts issued and the receipts handed to the timeline,
\* the protocol is in-order exactly-once delivery.
Delivery == INSTANCE ReceiptDelivery WITH reported <- nextReceipt
ImplementsDelivery == Delivery!DeliverySpec

\* While the session is open, every receipt issued is delivered in the end.
ReceiptsArrive ==
  \A r \in Receipts :
    nextReceipt > r ~> (published >= r \/ session # "open")
=============================================================================
