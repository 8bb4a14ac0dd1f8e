--------------------------- MODULE ReceiptDelivery ---------------------------
(***************************************************************************)
(* What the authority receipts of a session promise: the events the server *)
(* reports to a client reach the client's timeline in order, each exactly  *)
(* once, and none that was not reported.                                   *)
(***************************************************************************)
EXTENDS Naturals, Sequences

VARIABLES
  reported,   \* how many receipts the server has issued
  delivered   \* the receipts the client's timeline was given, in that order

DeliveryInit == reported = 0 /\ delivered = << >>

\* The server issues receipts, numbered from 0.
Report ==
  /\ reported' > reported /\ reported' \in Nat
  /\ UNCHANGED delivered

\* The client is given the next receipts.
Deliver ==
  /\ Len(delivered') \in Len(delivered) + 1 .. reported
  /\ delivered' = [i \in 1 .. Len(delivered') |-> i - 1]
  /\ UNCHANGED reported

DeliverySpec ==
  DeliveryInit /\ [][Report \/ Deliver]_<<reported, delivered>>
=============================================================================
