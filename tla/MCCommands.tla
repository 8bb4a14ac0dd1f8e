---------------------------- MODULE MCCommands ----------------------------
(* Flow control with a window of three sequences, all of which may be lost;  *)
(* the closed loop with the code's settings: times in 1/76800 of a second,   *)
(* the client's clock off by more than 0.1 % at most, 16 or 100 ms of       *)
(* latency each way at 60 frames per second.                                 *)
EXTENDS Commands

MCDrifts == {-2, 0, 2}
=============================================================================
