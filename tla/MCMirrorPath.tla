----------------------------- MODULE MCMirrorPath -----------------------------
(***************************************************************************)
(* The way of a picture: the mirror service of a device, the pipe that     *)
(* carries the frames of one of its sessions to the decoder, and the way   *)
(* back of the touches. They share no variable: `focus` picks the one that *)
(* moves (see MCDeviceSessions).                                           *)
(***************************************************************************)
EXTENDS MirrorService, ControlHand

CONSTANTS QUEUE_CAP, MaxPts, MaxConfig

VARIABLES
  focus,
  last_config, pending_config, queue, droppedFrames, closed, permit,
  pump, config, pts, seat, batch, seatConfig, fed

Pipe == INSTANCE FramePipe WITH dropped <- droppedFrames

ASSUME PathAssumptions == MirrorAssumption /\ Pipe!PipeAssumption /\ HandAssumption

mirrorVars == <<slot, next, cancelled, call, pc, session, warm, warmups, begun, dropped,
                tunnels, ends>>
frameVars == <<last_config, pending_config, queue, droppedFrames, closed, permit, pump, config,
               pts, seat, batch, seatConfig, fed>>
pathVars == <<focus, mirrorVars, frameVars, handVars>>

PathInit == focus \in {"mirror", "frames", "hand"} /\ Init /\ Pipe!Init /\ HandInit

PathNext ==
  /\ UNCHANGED focus
  /\ \/ focus = "mirror" /\ Next /\ UNCHANGED <<frameVars, handVars>>
     \/ focus = "frames" /\ Pipe!Next /\ UNCHANGED <<mirrorVars, handVars>>
     \/ focus = "hand" /\ HandNext /\ UNCHANGED <<mirrorVars, frameVars>>

(* Weaker than what tokio gives: it runs every ready task, here one of the *)
(* sessions and one of the warmups has to move.                            *)
Fairness ==
  /\ \A c \in Callers : WF_mirrorVars(focus = "mirror" /\ CallStep(c))
  /\ WF_mirrorVars(focus = "mirror" /\ \E g \in Gen : SessionStep(g))
  /\ WF_mirrorVars(focus = "mirror" /\ \E w \in Warmup : WarmStep(w))
  /\ WF_frameVars(focus = "frames" /\ Pipe!SeatStep)

PathSpec == PathInit /\ [][PathNext]_pathVars /\ Fairness
-----------------------------------------------------------------------------
(* The properties of the pipe, under the names the run gives them; those   *)
(* of the service and of the hand are in MirrorService and ControlHand.    *)

(* Every variable has its type.                                            *)
PathTypeOK == TypeOK /\ Pipe!TypeOK /\ HandTypeOK

(* FramePipe: no keyframe is fed with an older config, and a keyframe is   *)
(* dropped for a newer keyframe only.                                      *)
FramesDecode == Pipe!FramesDecode

(* MirrorService, FramePipe: no call is left waiting, and the seat of a    *)
(* closed pipe ends.                                                       *)
PathEnds == MirrorCallsReturn /\ Pipe!SeatEnds
=============================================================================
