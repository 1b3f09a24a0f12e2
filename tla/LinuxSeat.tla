------------------------------ MODULE LinuxSeat ------------------------------
(***************************************************************************)
(* The surface of the mirror page on Linux (yohu-adbtools mirror_present,  *)
(* linux/surface.rs and linux/host.rs): one thread per surface takes the   *)
(* commands of the page, picks a decoder, drains the frame pipe and feeds  *)
(* it. The decoding seat lives and dies with that thread; what it says of  *)
(* itself goes into one slot, `present_bind`, that all surfaces share.     *)
(* PresentHost has the calls of the page in small steps and FramePipe the  *)
(* pipe when it is full; here a call is one step and the pipe never fills. *)
(* One device; the layouts of the page differ in whether it is paused.     *)
(***************************************************************************)
EXTENDS Integers, Sequences

CONSTANTS
  MaxSurface, (* bound: surfaces                                           *)
  MaxBind,    (* bound: sessions                                           *)
  MaxConfig,  (* bound: configurations pushed                              *)
  MaxFrame,   (* bound: frames pushed, at most QUEUE_CAP of frame.rs       *)
  MaxChange   (* bound: changes of the pause, the switch and the library   *)

SeatAssumption == {MaxSurface, MaxBind, MaxConfig, MaxFrame, MaxChange} \subseteq Nat

Surfaces == 1 .. MaxSurface
Sessions == 1 .. MaxBind
Nothing == 0
Binds == {"Idle", "Disabled", "Missing", "Loading", "Video", "Paused"}
Failures == {"Disabled", "Missing"}   (* the two kinds of Failed           *)

VARIABLES
  pipes,      (* the FramePipe of each session                             *)
  pushed,     (* frames so far                                             *)
  vld,        (* the machine has a VLD for H.264                           *)
  enabled,    (* openh264_on                                               *)
  installed,  (* the OpenH264 library can be loaded                        *)
  paused, changes,
  live_bind, surface, generation,     (* PresentHost                       *)
  present_bind,
  thread, cmds, seat, pc, batch,      (* of each surface                   *)
  fed,        (* the last keyframe fed: its configuration, and the one     *)
              (* that was fed with it                                      *)
  strayed     (* a surface did one of the things below that leave          *)
              (* present_bind behind                                       *)

pageVars == <<paused, live_bind, surface, generation>>
machineVars == <<vld, enabled, installed, changes>>
surfaceVars == <<thread, cmds, seat, pc, batch>>
vars == <<pipes, pushed, machineVars, pageVars, present_bind, surfaceVars, fed, strayed>>

EmptyPipe == [last_config |-> Nothing, pending |-> FALSE, queue |-> <<>>]
NewSeat ==
  [pipe |-> Nothing, va_tried |-> FALSE, decoder |-> "none", failed |-> "none",
   last_config |-> Nothing, headers |-> Nothing, bound |-> FALSE, has_frame |-> FALSE,
   paused |-> FALSE, published |-> "none"]

Init ==
  /\ pipes = [g \in Sessions |-> EmptyPipe] /\ pushed = 0
  /\ vld \in BOOLEAN /\ enabled \in BOOLEAN /\ installed \in BOOLEAN /\ changes = 0
  /\ paused = FALSE /\ live_bind = Nothing /\ surface = Nothing /\ generation = 0
  /\ present_bind = "Idle"
  /\ thread = [k \in Surfaces |-> "None"] /\ cmds = [k \in Surfaces |-> <<>>]
  /\ seat = [k \in Surfaces |-> NewSeat]
  /\ pc = [k \in Surfaces |-> "Recv"] /\ batch = [k \in Surfaces |-> <<>>]
  /\ fed = [config |-> Nothing, with |-> Nothing]
  /\ strayed = FALSE

Stray(how) == strayed' = (strayed \/ how)
-----------------------------------------------------------------------------
(* The device: a configuration comes first and whenever the encoder is     *)
(* set up anew, the frames after it need it.                               *)
Configs == {pipes[g].last_config : g \in Sessions}
Newest == CHOOSE c \in Configs : \A d \in Configs : d <= c

PushConfig ==
  /\ live_bind # Nothing /\ Newest < MaxConfig
  /\ pipes' = [pipes EXCEPT ![live_bind].last_config = Newest + 1,
                            ![live_bind].pending = TRUE]
  /\ UNCHANGED <<pushed, machineVars, pageVars, present_bind, surfaceVars, fed, strayed>>

PushFrame(keyframe) ==
  /\ live_bind # Nothing /\ pipes[live_bind].last_config # Nothing /\ pushed < MaxFrame
  /\ pushed' = pushed + 1
  /\ pipes' = [pipes EXCEPT ![live_bind].queue =
                 Append(@, [keyframe |-> keyframe, config |-> pipes[live_bind].last_config])]
  /\ UNCHANGED <<machineVars, pageVars, present_bind, surfaceVars, fed, strayed>>
-----------------------------------------------------------------------------
(* The page and the settings.                                              *)
Post(k, cmd) ==
  cmds' = IF k = Nothing THEN cmds ELSE [cmds EXCEPT ![k] = Append(@, cmd)]

(* attach: of a new session, or of the one a second start has adopted.     *)
Attach ==
  /\ \/ live_bind = Nothing /\ generation < MaxBind /\ generation' = generation + 1
     \/ live_bind # Nothing /\ changes < MaxChange /\ UNCHANGED generation
  /\ changes' = IF live_bind = Nothing THEN changes ELSE changes + 1
  /\ live_bind' = generation'
  /\ Post(surface, [cmd |-> "Bind", pipe |-> live_bind'])
  /\ UNCHANGED <<pipes, pushed, vld, enabled, installed, paused, surface, present_bind, thread,
                 seat, pc, batch, fed, strayed>>

Unbind ==
  /\ live_bind # Nothing
  /\ live_bind' = Nothing
  /\ Post(surface, [cmd |-> "Unbind"])
  /\ UNCHANGED <<pipes, pushed, machineVars, paused, surface, generation, present_bind, thread,
                 seat, pc, batch, fed, strayed>>

(* set_active and layout: a new surface is laid out, then bound.           *)
Open(k) ==
  /\ surface = Nothing
  /\ thread[k] = "None" /\ \A j \in 1 .. k - 1 : thread[j] # "None"
  /\ surface' = k
  /\ thread' = [thread EXCEPT ![k] = "Running"]
  /\ cmds' = [cmds EXCEPT ![k] =
                <<[cmd |-> "Layout", paused |-> paused]>>
                  \o IF live_bind = Nothing THEN <<>> ELSE <<[cmd |-> "Bind", pipe |-> live_bind]>>]
  /\ UNCHANGED <<pipes, pushed, machineVars, paused, live_bind, generation, present_bind, seat,
                 pc, batch, fed, strayed>>

Pause ==
  /\ changes < MaxChange /\ changes' = changes + 1
  /\ paused' = ~paused
  /\ Post(surface, [cmd |-> "Layout", paused |-> paused'])
  /\ UNCHANGED <<pipes, pushed, vld, enabled, installed, live_bind, surface, generation,
                 present_bind, thread, seat, pc, batch, fed, strayed>>

(* shutdown says Idle for the surface it leaves to itself.                 *)
Shutdown ==
  /\ surface # Nothing
  /\ surface' = Nothing
  /\ Post(surface, [cmd |-> "Shutdown"])
  /\ present_bind' = "Idle"
  /\ UNCHANGED <<pipes, pushed, machineVars, paused, live_bind, generation, thread, seat, pc,
                 batch, fed, strayed>>

(* The switch of the settings, and a download of the library.              *)
ChangeMachine ==
  /\ changes < MaxChange /\ changes' = changes + 1
  /\ \/ enabled' = ~enabled /\ UNCHANGED installed
     \/ ~installed /\ installed' = TRUE /\ UNCHANGED enabled
  /\ UNCHANGED <<pipes, pushed, vld, pageVars, present_bind, surfaceVars, fed, strayed>>
-----------------------------------------------------------------------------
(* The thread of a surface. A seat `s` comes out of each operation; what   *)
(* it publishes on the way is in `says`.                                   *)
Silent == "nothing"

Mode(s) ==
  IF ~s.bound THEN "Empty" ELSE IF ~s.has_frame THEN "Loading"
  ELSE IF s.paused THEN "Paused" ELSE "Video"

(* publish: only what differs from what this surface has said last.        *)
Publish(k, s, says, astray) ==
  IF says \in {Silent, s.published}
  THEN seat' = [seat EXCEPT ![k] = s] /\ Stray(astray) /\ UNCHANGED present_bind
  ELSE /\ seat' = [seat EXCEPT ![k] = [s EXCEPT !.published = says]]
       /\ present_bind' = says
       /\ Stray(astray \/ surface # k)

(* bind_after_frame.                                                       *)
AfterFrame(s) == IF Mode(s) = "Video" THEN "Video" ELSE "Paused"

(* ensure_decoder: a decoder that is there stays, unless it is OpenH264    *)
(* and switched off; a failure stays, unless it was the switch; libva is   *)
(* tried once for a binding, then OpenH264.                                *)
(* For mutation: the client is not told.                                   *)
FailQuietly(s, failure) ==
  [seat |-> [s EXCEPT !.decoder = "none", !.failed = failure], says |-> Silent]

Fail(s, failure) == [seat |-> [s EXCEPT !.decoder = "none", !.failed = failure], says |-> failure]
Opened(s, decoder) ==
  [seat |-> [s EXCEPT !.decoder = decoder, !.failed = "none", !.headers = Nothing],
   says |-> "Loading"]

Soft(s) ==
  CASE ~enabled -> Fail(s, "Disabled")
    [] enabled /\ installed -> Opened(s, "OpenH264")
    [] enabled /\ ~installed -> Fail(s, "Missing")

Ready(s) == s.decoder = "libva" \/ (s.decoder = "OpenH264" /\ enabled)
Retries(s) == s.failed = "none" \/ (s.failed = "Disabled" /\ enabled)

ensure_decoder(s) ==
  CASE Ready(s) ->
         [seat |-> [s EXCEPT !.failed = "none"],
          says |-> IF s.failed = "none" THEN Silent ELSE "Loading"]
    [] s.decoder = "OpenH264" /\ ~enabled -> Fail(s, "Disabled")
    [] s.decoder = "none" /\ ~Retries(s) -> [seat |-> s, says |-> Silent]
    [] s.decoder = "none" /\ Retries(s) /\ ~s.va_tried /\ vld ->
         Opened([s EXCEPT !.va_tried = TRUE], "libva")
    [] s.decoder = "none" /\ Retries(s) /\ ~(~s.va_tried /\ vld) ->
         Soft([s EXCEPT !.va_tried = TRUE])

(* dispatch.                                                               *)
Dispatch(k, cmd) ==
  \/ /\ cmd.cmd = "Layout"
     /\ LET s == [seat[k] EXCEPT !.paused = cmd.paused]
        IN Publish(k, s, IF s.has_frame THEN AfterFrame(s) ELSE Silent,
                   s.has_frame /\ s.failed # "none")
     /\ UNCHANGED thread
  \/ /\ cmd.cmd = "Bind"
     /\ LET s == [seat[k] EXCEPT !.pipe = cmd.pipe, !.failed = "none", !.bound = TRUE,
                                 !.has_frame = FALSE]
            next == ensure_decoder(s)
        IN Publish(k, next.seat, next.says, seat[k].decoder # "none" /\ seat[k].failed # "none")
     /\ UNCHANGED thread
  \/ /\ cmd.cmd = "Unbind"
     /\ LET s == [NewSeat EXCEPT !.paused = seat[k].paused, !.published = seat[k].published]
        IN Publish(k, s, "Idle", FALSE)
     /\ UNCHANGED thread
  \/ /\ cmd.cmd = "Shutdown"
     /\ thread' = [thread EXCEPT ![k] = "Gone"]
     /\ seat' = [seat EXCEPT ![k] = NewSeat]
     /\ UNCHANGED <<present_bind, strayed>>

Step(k) ==
  /\ thread[k] = "Running" /\ pc[k] = "Recv" /\ cmds[k] # <<>>
  /\ cmds' = [cmds EXCEPT ![k] = IF Head(@).cmd = "Shutdown" THEN <<>> ELSE Tail(@)]
  /\ Dispatch(k, Head(cmds[k]))
  /\ UNCHANGED <<pipes, pushed, machineVars, pageVars, pc, batch, fed>>

(* tick: the pipe gives its configuration once, and the seat keeps it.     *)
drain_ready(s) ==
  IF s.pipe # Nothing /\ pipes[s.pipe].pending
  THEN [s EXCEPT !.last_config = pipes[s.pipe].last_config] ELSE s

(* A turn of the loop when the commands are through: ensure_decoder, then  *)
(* tick, whether there is a decoder or not. Nothing that happens between   *)
(* the two could not as well before or after.                              *)
Turn(k) ==
  /\ thread[k] = "Running" /\ pc[k] = "Recv" /\ cmds[k] = <<>> /\ seat[k].pipe # Nothing
  /\ LET next == ensure_decoder(seat[k])
     IN Publish(k, drain_ready(next.seat), next.says, FALSE)
  /\ batch' = [batch EXCEPT ![k] = pipes[seat[k].pipe].queue]
  /\ pipes' = [pipes EXCEPT ![seat[k].pipe].pending = FALSE, ![seat[k].pipe].queue = <<>>]
  /\ pc' = [pc EXCEPT ![k] = IF batch'[k] = <<>> THEN "Recv" ELSE "Feed"]
  /\ UNCHANGED <<pushed, machineVars, pageVars, thread, cmds, fed>>

(* access_unit: a keyframe goes with the configuration of the seat, if it  *)
(* has one; the decoder keeps the headers.                                 *)
WithConfig(s, frame) ==
  IF frame.keyframe /\ s.last_config # Nothing THEN [s EXCEPT !.headers = s.last_config] ELSE s

(* decode_au: libva is dropped at its first error, and it has one for any  *)
(* frame while it has no headers; OpenH264 is opened then, if it can be,   *)
(* whatever the switch or an earlier failure says, and takes the frame.    *)
OpenSoft(s) ==
  IF s.decoder = "OpenH264" THEN s
  ELSE [s EXCEPT !.decoder = IF installed THEN "OpenH264" ELSE "none", !.headers = Nothing]

Decoded(s, frame) ==
  LET va == WithConfig(s, frame)
      soft == WithConfig(OpenSoft(s), frame)
  IN {[seat |-> v, picture |-> TRUE] :
        v \in {w \in {va} : s.decoder = "libva" /\ w.headers # Nothing}}
     \cup {[seat |-> soft, picture |-> p] :
             p \in {q \in BOOLEAN : q => soft.decoder = "OpenH264" /\ soft.headers # Nothing}}

(* take_picture: the first one of a binding makes the stage show video, or *)
(* its pause; a stage that is paused keeps it back.                        *)
Taken(s) == [s EXCEPT !.has_frame = TRUE]

Feed(k) ==
  /\ pc[k] = "Feed"
  /\ LET frame == Head(batch[k])
         s == seat[k]
     IN /\ fed' = IF frame.keyframe THEN [config |-> frame.config, with |-> s.last_config]
                  ELSE fed
        /\ \E d \in Decoded(s, frame) :
             /\ Publish(k, IF d.picture THEN Taken(d.seat) ELSE d.seat,
                        IF d.picture /\ Mode(s) # "Paused" THEN AfterFrame(Taken(s)) ELSE Silent,
                        FALSE)
  /\ batch' = [batch EXCEPT ![k] = Tail(@)]
  /\ pc' = [pc EXCEPT ![k] = IF batch'[k] = <<>> THEN "Recv" ELSE "Feed"]
  /\ UNCHANGED <<pipes, pushed, machineVars, pageVars, thread, cmds>>

SurfaceStep(k) == Step(k) \/ Turn(k) \/ Feed(k)

Next ==
  \/ PushConfig \/ \E keyframe \in BOOLEAN : PushFrame(keyframe)
  \/ ~strayed /\ (Attach \/ Unbind \/ Pause \/ Shutdown \/ ChangeMachine
                   \/ \E k \in Surfaces : Open(k))
  \/ \E k \in Surfaces : SurfaceStep(k)

Spec == Init /\ [][Next]_vars
-----------------------------------------------------------------------------
(* Every variable has its type.                                            *)
TypeOK ==
  /\ pipes \in [Sessions -> [last_config : 0 .. MaxConfig, pending : BOOLEAN,
                             queue : Seq([keyframe : BOOLEAN, config : 1 .. MaxConfig])]]
  /\ pushed \in 0 .. MaxFrame /\ changes \in 0 .. MaxChange
  /\ {vld, enabled, installed, paused, strayed} \subseteq BOOLEAN
  /\ live_bind \in 0 .. MaxBind /\ generation \in 0 .. MaxBind /\ surface \in 0 .. MaxSurface
  /\ present_bind \in Binds
  /\ thread \in [Surfaces -> {"None", "Running", "Gone"}]
  /\ pc \in [Surfaces -> {"Recv", "Feed"}]
  /\ seat \in [Surfaces ->
       [pipe : 0 .. MaxBind, va_tried : BOOLEAN, decoder : {"none", "libva", "OpenH264"},
        failed : {"none"} \cup Failures, last_config : 0 .. MaxConfig, headers : 0 .. MaxConfig,
        bound : BOOLEAN, has_frame : BOOLEAN, paused : BOOLEAN,
        published : {"none"} \cup Binds]]

(* Nothing to do for the thread of a surface.                              *)
AtRest(k) ==
  /\ thread[k] = "Running" /\ pc[k] = "Recv" /\ cmds[k] = <<>>
  /\ seat[k].bound => ensure_decoder(seat[k]) = [seat |-> seat[k], says |-> Silent]

(* What present_bind may say of a seat. Loading, Video and Paused are not  *)
(* told apart: a decoder that is opened anew, or a session bound to a seat *)
(* with a decoder, leaves one where the stage has another.                 *)
Truth(s) ==
  IF ~s.bound THEN {"Idle"}
  ELSE IF s.failed # "none" THEN {s.failed}
  ELSE {"Loading", "Video", "Paused"}

(* When the surface of the page has done what there was to do, what the    *)
(* client is told, present_bind, is true of it: unbound, failed for this   *)
(* reason or that, or with a decoder. A surface says only what differs     *)
(* from what it said last, and others have written the slot in between     *)
(* (host.rs publish, mod.rs shutdown, surface.rs ensure_decoder and        *)
(* decode_au). It holds unless (`strayed`) a surface spoke after the page  *)
(* had left it, or the page was laid out over a seat that had failed in    *)
(* the middle of a video, or bound again to one that had failed and for    *)
(* which a frame opened OpenH264 all the same.                             *)
SeatTellsTruth ==
  surface # Nothing /\ AtRest(surface) /\ ~strayed => present_bind \in Truth(seat[surface])

(* A keyframe is fed with the configuration it was encoded with, or a      *)
(* newer one: the pipe gives its configuration out once, and keeps a copy  *)
(* for every seat that comes later (frame.rs sticky_config).               *)
KeyframesCarryConfig == fed.with >= fed.config
=============================================================================
