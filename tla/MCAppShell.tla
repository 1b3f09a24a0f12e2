----------------------------- MODULE MCAppShell -----------------------------
(***************************************************************************)
(* The shell of the application: the task center with the event channel    *)
(* and its dispatcher, the stage of the mirror page, and what is below it  *)
(* on Linux: the decoding seat of a surface, the surfaces of the hardware  *)
(* decoder and the headers it reads, and the canvas on the screen. They    *)
(* share no variable: `focus` picks the one that moves (see                *)
(* MCDeviceSessions).                                                      *)
(***************************************************************************)
EXTENDS TaskCenter

CONSTANTS
  PageDevices, Mirrored, StageSurfaces, StageLayouts, StageToggles, StageBinds,  (* PresentHost *)
  SeatSurfaces, SeatBinds, SeatConfigs, SeatFrames, SeatChanges,                 (* LinuxSeat   *)
  PaintSurfaces, PaintPosts,                                                     (* LinuxPaint  *)
  RingSize, RingKeeps, RingPlain                                                 (* VaSurfaces  *)

VARIABLES
  focus,
  active, surface, live_bind, last_layout, callPc, layout, created, tx, bind, thread, stage,
  cmds, slots, layouts, toggles, generation, ended, strayed,
  pipes, pushed, vld, enabled, installed, paused, changes, seat_bind, seat_surface,
  seat_generation, present_bind, seatThread, seatCmds, seat, seatPc, batch, fed, gone_astray,
  poster, told, posted, newest, paint_job, scheduled, idle, canvas, last, gtk, window,
  left_behind,
  opened, done, cursor, dpb, picture, target, blit, taken, painting, plain, destroyed,
  input, raw, read, values, at

Present == INSTANCE PresentHost WITH
             Serials <- PageDevices, MaxSurface <- StageSurfaces, MaxLayout <- StageLayouts,
             MaxToggle <- StageToggles, MaxBind <- StageBinds, pc <- callPc

Seat == INSTANCE LinuxSeat WITH
          MaxSurface <- SeatSurfaces, MaxBind <- SeatBinds, MaxConfig <- SeatConfigs,
          MaxFrame <- SeatFrames, MaxChange <- SeatChanges,
          live_bind <- seat_bind, surface <- seat_surface, generation <- seat_generation,
          thread <- seatThread, cmds <- seatCmds, pc <- seatPc, strayed <- gone_astray

Paint == INSTANCE LinuxPaint WITH
           MaxSurface <- PaintSurfaces, MaxPost <- PaintPosts, thread <- poster, job <- paint_job,
           strayed <- left_behind

Decoder == INSTANCE VaSurfaces WITH
             SURFACES <- RingSize, Keep <- RingKeeps, MaxPlain <- RingPlain,
             job <- blit, last <- taken, strayed <- destroyed

Headers == INSTANCE H264Headers WITH Numbers <- {0, 1, 5}, MaxBytes <- 4

ASSUME ShellAssumptions ==
  /\ Present!PresentAssumption
  /\ Seat!SeatAssumption
  /\ Paint!PaintAssumption
  /\ Decoder!SurfacesAssumption
  /\ Headers!HeadersAssumption

presentVars == <<active, surface, live_bind, last_layout, callPc, layout, created, tx, bind,
                 thread, stage, cmds, slots, layouts, toggles, generation, ended, strayed>>
seatVars == <<pipes, pushed, vld, enabled, installed, paused, changes, seat_bind, seat_surface,
              seat_generation, present_bind, seatThread, seatCmds, seat, seatPc, batch, fed,
              gone_astray>>
paintVars == <<poster, told, posted, newest, paint_job, scheduled, idle, canvas, last, gtk,
               window, left_behind>>
decoderVars == <<opened, done, cursor, dpb, picture, target, blit, taken, painting, plain,
                 destroyed>>
headerVars == <<input, raw, read, values, at>>
appVars == <<focus, vars, presentVars, seatVars, paintVars, decoderVars, headerVars>>

ShellInit ==
  /\ focus \in {"tasks", "present", "seat", "paint", "decoder", "headers"}
  /\ Init /\ Present!Init /\ Seat!Init /\ Paint!Init /\ Decoder!Init
  /\ last_layout \notin Mirrored
  /\ focus # "present" => last_layout = Present!NoLayout
  /\ focus # "seat" => ~vld /\ ~enabled /\ ~installed
  /\ \/ focus = "headers" /\ Headers!Init
     \/ focus # "headers" /\ input = [kind |-> "none"] /\ raw = <<>> /\ read = 0
                           /\ values = <<>> /\ at = 9

(* Nothing is claimed of the seat, of the canvas and of the decoder once   *)
(* what they call strayed has happened; a behaviour of the seat or of the  *)
(* decoder goes no further then.                                           *)
ShellNext ==
  /\ UNCHANGED focus
  /\ \/ /\ focus = "tasks" /\ Next
        /\ UNCHANGED <<presentVars, seatVars, paintVars, decoderVars, headerVars>>
     \/ /\ focus = "present" /\ Present!Next
        /\ UNCHANGED <<vars, seatVars, paintVars, decoderVars, headerVars>>
     \/ /\ focus = "seat" /\ ~gone_astray /\ Seat!Next
        /\ UNCHANGED <<vars, presentVars, paintVars, decoderVars, headerVars>>
     \/ /\ focus = "paint" /\ Paint!Next
        /\ UNCHANGED <<vars, presentVars, seatVars, decoderVars, headerVars>>
     \/ /\ focus = "decoder" /\ ~destroyed /\ Decoder!Next
        /\ UNCHANGED <<vars, presentVars, seatVars, paintVars, headerVars>>
     \/ /\ focus = "headers" /\ Headers!Next
        /\ UNCHANGED <<vars, presentVars, seatVars, paintVars, decoderVars>>

(* Weaker than what tokio and the threads of the surfaces give, where each *)
(* goes on: here one caller and one surface of the stage do, and one of    *)
(* the steps that Fairness of TaskCenter names. That is enough here, where *)
(* each of them has a bounded number of steps.                             *)
TaskStep ==
  \/ \E o \in Owners : OwnerStep(o)
  \/ \E g \in Gen : RegisterRun(g)
  \/ \E j \in Jobs : JobEmits(j)
  \/ \E id \in Id : SpawnedSend(id)
  \/ DispatcherStep

ShellFairness ==
  /\ WF_vars(focus = "tasks" /\ TaskStep)
  /\ WF_presentVars(focus = "present" /\ \E c \in Present!Callers : Present!CallStep(c))
  /\ WF_presentVars(focus = "present" /\ \E k \in Present!Surfaces : Present!SurfaceStep(k))

ShellSpec == ShellInit /\ [][ShellNext]_appVars /\ ShellFairness
-----------------------------------------------------------------------------
(* The properties of the modules, under the names the run gives them;      *)
(* FinishedOnce is in TaskCenter.                                          *)

(* Every variable has its type.                                            *)
ShellTypeOK == TypeOK /\ Present!TypeOK /\ Seat!TypeOK /\ Paint!TypeOK /\ Decoder!TypeOK

(* PresentHost: the stage shows what is bound, or nothing, when all calls  *)
(* are through, and GeomHost has no window that is gone.                   *)
StageAtRest == Present!StageAtRest

(* LinuxSeat: what the client is told of the seat is true of it.           *)
SeatTellsTruth == Seat!SeatTellsTruth

(* VaSurfaces: no picture is decoded over one that is still wanted, and    *)
(* surfaces come back. LinuxPaint: what is posted last gets to the screen. *)
PicturesReachTheScreen == Decoder!SurfacesAreOwned /\ Paint!PaintReachesTheScreen

(* H264Headers: parameter sets and slice headers are read as written.      *)
HeadersAreRead == focus = "headers" => Headers!HeadersAreRead

(* TaskCenter: a finished task gets to the client. PresentHost: a surface  *)
(* that is not the one of the stage ends.                                  *)
ShellSettles == FinishIsShown /\ Present!OldSurfacesEnd
=============================================================================
