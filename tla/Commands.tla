------------------------------ MODULE Commands ------------------------------
(***************************************************************************)
(* The commands of one player on their way to the server: the protocol that *)
(* carries them through an unreliable network (InputFlow), and the rate at  *)
(* which the client produces them (CommandTiming).  InputFlow leaves out    *)
(* time and CommandTiming losses, so that a behaviour of this module        *)
(* follows the one that `part' names and leaves the other as it starts.     *)
(***************************************************************************)
EXTENDS InputFlow, CommandTiming

VARIABLE part

commandVars == <<part, flowVars, timingVars>>

FollowFlow(A) == part = "flow" /\ A /\ UNCHANGED <<part, timingVars>>
FollowTiming(A) == part = "timing" /\ A /\ UNCHANGED <<part, flowVars>>

CommandsInit ==
  /\ part \in {"flow", "timing"}
  /\ FlowInit /\ TimingInit
  /\ part = "flow" => setting = (CHOOSE s \in Settings : TRUE)

CommandsNext == FollowFlow(FlowNext) \/ FollowTiming(TimingNext)

\* The fairness of either part.
CommandsFairness ==
  /\ WF_commandVars(FollowFlow(ServerStep))
  /\ WF_commandVars(FollowFlow(NewestProcessed))
  /\ WF_commandVars(FollowFlow(FreshReceived))
  /\ WF_commandVars(FollowTiming(Frame))

CommandsSpec == CommandsInit /\ [][CommandsNext]_commandVars /\ CommandsFairness

-----------------------------------------------------------------------------
\* Once nobody stalls any more, every tick finds a command from some time on, and
\* every report is within one command of the target: the rate comes back from an
\* empty queue and from a full window, and latency, the mean and the deadband do
\* not make it swing, whichever clock is faster.
QueueRecovers == <>[](part = "timing" => QueueOnTarget)
=============================================================================
