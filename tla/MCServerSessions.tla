-------------------------- MODULE MCServerSessions --------------------------
(* Server sessions for TLC: connections are interchangeable.               *)
EXTENDS ServerSessions, TLC

ConnectionSymmetry == Permutations(Connections)
=============================================================================
