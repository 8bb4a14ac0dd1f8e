---------------------------- MODULE Presentation ----------------------------
(***************************************************************************)
(* What the client does in a frame: it paces the commands, plays the remote *)
(* buffers, and draws the local player's correction offset and the tracks   *)
(* of the entities.  A frame updates all four, and none reads the state of   *)
(* another, so that a behaviour of the whole is one of each.  A behaviour of *)
(* this module follows one of them, which `part' names, and leaves the       *)
(* others as they start.                                                     *)
(***************************************************************************)
EXTENDS RemotePresentation, LocalPresentation, WorldTracks, FramePacing

VARIABLE part

presentationVars == <<part, remoteVars, localVars, tracksVars, pacingVars>>

\* The parts that are not followed have one initial state each.
Init ==
    /\ part \in {"remote", "local", "tracks", "pacing"}
    /\ RemoteInit /\ LocalInit /\ TracksInit /\ PacingInit
    /\ part # "local" => head.pos = CHOOSE start \in Starts : TRUE
    /\ part # "tracks" => mode = (CHOOSE m \in Modes : TRUE) /\ prediction.scope = {"p"}

Next ==
    /\ UNCHANGED part
    /\ \/ part = "remote" /\ RemoteNext /\ UNCHANGED <<localVars, tracksVars, pacingVars>>
       \/ part = "local" /\ LocalNext /\ UNCHANGED <<remoteVars, tracksVars, pacingVars>>
       \/ part = "tracks" /\ TracksNext /\ UNCHANGED <<remoteVars, localVars, pacingVars>>
       \/ part = "pacing" /\ PacingNext /\ UNCHANGED <<remoteVars, localVars, tracksVars>>

Spec == Init /\ [][Next]_presentationVars
=============================================================================
