---------------------------- MODULE MCInputFlow ----------------------------
(* Command flow with a window of three sequences.                           *)
EXTENDS InputFlow
=============================================================================
