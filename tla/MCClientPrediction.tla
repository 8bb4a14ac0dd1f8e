------------------------- MODULE MCClientPrediction -------------------------
(* One client whose history holds a few commands.                          *)
EXTENDS ClientPrediction
=============================================================================
