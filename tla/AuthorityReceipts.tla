-------------------------- MODULE AuthorityReceipts --------------------------
(***************************************************************************)
(* The two halves of what becomes of an authority receipt: the protocol     *)
(* that carries the receipts of every event key through an unreliable       *)
(* network to the client's timeline (ReceiptStream), and what the client    *)
(* makes of one key's receipt from the timeline to the cue store            *)
(* (ConsequencePipeline, which lets a receipt come whenever that protocol   *)
(* may bring it).  A behaviour of this module follows the half that `part'  *)
(* names and leaves the other as it starts.                                 *)
(***************************************************************************)
EXTENDS ReceiptStream, ConsequencePipeline

VARIABLE part

receiptVars == <<part, streamVars, pipelineVars>>

FollowStream(A) == part = "stream" /\ A /\ UNCHANGED <<part, pipelineVars>>
FollowPipeline(A) == part = "pipeline" /\ A /\ UNCHANGED <<part, streamVars>>

ReceiptsInit ==
  /\ part \in {"stream", "pipeline"}
  /\ StreamInit /\ PipelineInit
  /\ part = "stream" => kind = "split"

ReceiptsNext == FollowStream(StreamNext) \/ FollowPipeline(PipelineNext)

\* StreamFairness, of the half it is about; nothing is asked of the other.
ReceiptsFairness ==
  /\ WF_receiptVars(FollowStream(\E count \in 0 .. EventsPerTick : ServerStep(count)))
  /\ WF_receiptVars(FollowStream(\E s \in snapshots : s.id = issued - 1 /\ ProcessSnapshot(s)))
  /\ WF_receiptVars(FollowStream(ProcessWelcome))
  /\ WF_receiptVars(FollowStream(SendAck))
  /\ WF_receiptVars(FollowStream(ReceiveAck(published) /\ published \in acks))

ReceiptsSpec == ReceiptsInit /\ [][ReceiptsNext]_receiptVars /\ ReceiptsFairness
=============================================================================
