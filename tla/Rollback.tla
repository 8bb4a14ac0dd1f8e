------------------------------- MODULE Rollback -------------------------------
(***************************************************************************)
(* The two state machines of engine/rollback: the timeline, which predicts  *)
(* and replays, and the consequence router, which turns the changes that    *)
(* its commits publish into callbacks.  A caller hands the changes over in  *)
(* batches of its own making (ConsequencePipeline follows the game's), so   *)
(* that each is checked here against every caller, and a behaviour of this  *)
(* module follows the one that `part' names and leaves the other as it      *)
(* starts.                                                                  *)
(***************************************************************************)
EXTENDS Timeline, ConsequenceRouter

VARIABLE part

rollbackVars == <<part, vars, routerVars>>

RollbackInit ==
  /\ part \in {"timeline", "router"}
  /\ Init /\ RouterInit

RollbackNext ==
  /\ UNCHANGED part
  /\ \/ part = "timeline" /\ Next /\ UNCHANGED routerVars
     \/ part = "router" /\ RouterNext /\ UNCHANGED vars

RollbackSpec == RollbackInit /\ [][RollbackNext]_rollbackVars
=============================================================================
