------------------------ MODULE MCAuthorityReceipts ------------------------
(* Receipts with room for a few: snapshots are full before the queue is,    *)
(* and both the queue and the sequence numbers run out.  The pipeline of    *)
(* one key of each kind, with the game's six handlers.                      *)
EXTENDS AuthorityReceipts

MCEvents == {Event(k, tick) : k \in Kinds, tick \in 1 .. MaxHead}
MCEventKey(e) == Key
MCAlternative(e) == e.kind
MCPredictOnce == ByPolicy("PredictOnce")
MCConfirmOnce == ByPolicy("ConfirmOnce")
MCPredictCancelable == ByPolicy("PredictCancelable")
MCSubscription == [h \in Router |-> h.event]
NoBatches == {}
=============================================================================
