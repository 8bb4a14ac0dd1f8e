--------------------------- MODULE SessionLifecycle ---------------------------
(* What one connection between a client and the server promises, whatever the *)
(* transport under it does: each side only moves forward through its phases,  *)
(* and a client is ready only for a session that the server joined.  A side   *)
(* may pass through several phases between two observations, because one poll *)
(* hands the runtime everything that is queued.                               *)

VARIABLES clientPhase, serverPhase

lifecycleVars == <<clientPhase, serverPhase>>

ClientLater(p) ==
  CASE p = "connecting"  -> {"handshaking", "ready", "closed"}
    [] p = "handshaking" -> {"ready", "closed"}
    [] p = "ready"       -> {"closed"}
    [] OTHER             -> {}

ServerLater(p) ==
  CASE p = "absent" -> {"open", "joined", "ended"}
    [] p = "open"   -> {"joined", "ended"}
    [] p = "joined" -> {"ended"}
    [] OTHER        -> {}

ClientMoves ==
  /\ clientPhase' \in ClientLater(clientPhase)
  /\ clientPhase' = "ready" => serverPhase \in {"joined", "ended"}
  /\ UNCHANGED serverPhase

ServerMoves ==
  /\ serverPhase' \in ServerLater(serverPhase)
  /\ UNCHANGED clientPhase

LifecycleSpec ==
  /\ clientPhase = "connecting" /\ serverPhase = "absent"
  /\ [][ClientMoves \/ ServerMoves]_lifecycleVars
===============================================================================
