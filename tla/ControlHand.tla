----------------------------- MODULE ControlHand -----------------------------
(***************************************************************************)
(* The hand on the mirrored picture: the pointer of the user becomes       *)
(* touches of the device (yohu-adbtools mirror_present: control_hand.rs,   *)
(* pointer.rs, stage.rs, present_beat.rs; MirrorService::inject). One      *)
(* surface thread works through its commands, PresentHost has the order in *)
(* which they come; each touch is sent to the mirror service by a task of  *)
(* its own, and by then much may have changed.                             *)
(*                                                                         *)
(* Coordinates are left out but for the question whether the pointer is on *)
(* the picture; so is what decides only about drawing: sizes, visibility.  *)
(***************************************************************************)
EXTENDS Integers

CONSTANTS
  Serials,   (* devices                                                    *)
  MaxTouch   (* bound: touches                                             *)

HandAssumption == MaxTouch \in Nat

VARIABLES
  stage,     (* Stage                                                      *)
  pressing,  (* PointerGesture                                             *)
  flight,    (* the tasks that inject a touch                              *)
  touches,   (* how many there have been                                   *)
  control,   (* the control channel of the session of each device          *)
  finger,    (* of the devices, those with a finger down                   *)
  overtaken, (* a touch was injected before an older one of its device     *)
  turned     (* the stage went to another device while the hand pressed    *)

gestureVars == <<stage, pressing, flight, touches>>
fingerVars == <<control, finger, overtaken>>
handVars == <<gestureVars, fingerVars, turned>>

NoSerial == "none"

HandInit ==
  /\ stage = [serial |-> NoSerial, want_control |-> FALSE, paused |-> FALSE, bound |-> FALSE,
              has_frame |-> FALSE]
  /\ pressing = FALSE /\ flight = {} /\ touches = 0
  /\ control = [s \in Serials |-> "None"] /\ finger = {}
  /\ overtaken = FALSE /\ turned = FALSE

(* stage_mode: the picture of a device, and not its last one, is shown.    *)
Video(st) == st.bound /\ st.has_frame /\ ~st.paused
Operable(st) == st.want_control /\ Video(st)

(* inject: a task is spawned, for the device the stage is at now. The      *)
(* gesture always remembers a point while it presses.                      *)
Inject(serial, action) ==
  /\ touches < MaxTouch
  /\ touches' = touches + 1
  /\ flight' = flight \cup {[n |-> touches, serial |-> serial, action |-> action]}

(* end_press: of a hand that presses.                                      *)
EndPress(serial) ==
  IF pressing THEN pressing' = FALSE /\ Inject(serial, "Up")
  ELSE UNCHANGED <<pressing, flight, touches>>

Turn(serial) == turned' = (turned \/ (pressing /\ serial # stage.serial))
-----------------------------------------------------------------------------
(* apply_layout: the stage is at the device of the layout, if it names     *)
(* one, before the hand is lifted, if it has to be.                        *)
Layout ==
  \E s \in Serials \cup {stage.serial}, want, paused \in BOOLEAN :
    /\ stage' = [stage EXCEPT !.serial = s, !.want_control = want, !.paused = paused]
    /\ Turn(s)
    /\ IF Operable(stage') THEN UNCHANGED <<pressing, flight, touches>> ELSE EndPress(s)
    /\ UNCHANGED fingerVars

(* open_pipe: without lifting the hand.                                    *)
Bind ==
  \E s \in Serials :
    /\ stage' = [stage EXCEPT !.serial = s, !.bound = TRUE, !.has_frame = FALSE]
    /\ Turn(s)
    /\ UNCHANGED <<pressing, flight, touches, fingerVars>>

(* accept_presented_frame, resume_live_frame: there is a first picture.    *)
FirstFrame ==
  /\ stage.bound /\ ~stage.has_frame
  /\ stage' = [stage EXCEPT !.has_frame = TRUE]
  /\ UNCHANGED <<pressing, flight, touches, fingerVars, turned>>

(* release_pipe, of the device the stage is at.                            *)
release_pipe ==
  /\ EndPress(stage.serial)
  /\ stage' = [stage EXCEPT !.bound = FALSE, !.has_frame = FALSE]
  /\ UNCHANGED <<fingerVars, turned>>

(* Mutant: the gesture is forgotten, the finger stays.                     *)
uninstall_only ==
  /\ pressing' = FALSE
  /\ stage' = [serial |-> NoSerial, want_control |-> FALSE, paused |-> FALSE, bound |-> FALSE,
               has_frame |-> FALSE]
  /\ UNCHANGED <<flight, touches, fingerVars, turned>>

(* The surface ends (uninstall); the next one has a stage of its own.      *)
Uninstall ==
  /\ EndPress(stage.serial)
  /\ stage' = [serial |-> NoSerial, want_control |-> FALSE, paused |-> FALSE, bound |-> FALSE,
               has_frame |-> FALSE]
  /\ UNCHANGED <<fingerVars, turned>>

(* plan_wire, PointerGesture::feed: a stage that cannot be operated lifts  *)
(* the hand, and so does a Move off the picture, an Up wherever it is, and *)
(* a Leave, which does not even ask for the stage.                         *)
Pointer ==
  /\ \/ Operable(stage) /\ pressing' = TRUE /\ Inject(stage.serial, "Down")
     \/ Operable(stage) /\ pressing /\ Inject(stage.serial, "Move") /\ UNCHANGED pressing
     \/ pressing /\ EndPress(stage.serial)
  /\ UNCHANGED <<stage, fingerVars, turned>>

(* MirrorService::inject, when its turn comes, with the write that follows *)
(* if there is a channel: a touch for a session without one is lost.       *)
Touch(t) ==
  /\ flight' = flight \ {t}
  /\ finger' = IF control[t.serial] # "Open" \/ t.action = "Move" THEN finger
               ELSE IF t.action = "Down" THEN finger \cup {t.serial}
               ELSE finger \ {t.serial}
  /\ overtaken' = (overtaken \/ \E u \in flight : u.serial = t.serial /\ u.n < t.n)
  /\ UNCHANGED <<stage, pressing, touches, control, turned>>

(* The sessions: Live with a control channel, which close_control, or a    *)
(* write that fails, ends before the session does. The server goes with    *)
(* the session, and its finger with it.                                    *)
Live(s) ==
  /\ control[s] = "None"
  /\ control' = [control EXCEPT ![s] = "Open"]
  /\ UNCHANGED <<gestureVars, finger, overtaken, turned>>

close_control(s) ==
  /\ control[s] = "Open"
  /\ control' = [control EXCEPT ![s] = "Closed"]
  /\ UNCHANGED <<gestureVars, finger, overtaken, turned>>

End(s) ==
  /\ control[s] # "None"
  /\ control' = [control EXCEPT ![s] = "None"]
  /\ finger' = finger \ {s}
  /\ UNCHANGED <<gestureVars, overtaken, turned>>

(* Followed until one of the two things the hand does not recover from.    *)
HandNext ==
  \/ /\ ~overtaken /\ ~turned
     /\ Layout \/ Bind \/ FirstFrame \/ release_pipe \/ Uninstall \/ Pointer
  \/ \E t \in flight : Touch(t)
  \/ \E s \in Serials : Live(s) \/ close_control(s) \/ End(s)

HandSpec == HandInit /\ [][HandNext]_handVars
-----------------------------------------------------------------------------
(* Every variable has its type.                                            *)
HandTypeOK ==
  /\ stage \in [serial : {NoSerial} \cup Serials, want_control : BOOLEAN, paused : BOOLEAN,
                bound : BOOLEAN, has_frame : BOOLEAN]
  /\ pressing \in BOOLEAN /\ overtaken \in BOOLEAN /\ turned \in BOOLEAN
  /\ flight \subseteq [n : 0 .. MaxTouch - 1, serial : Serials, action : {"Down", "Move", "Up"}]
  /\ touches \in 0 .. MaxTouch
  /\ control \in [Serials -> {"None", "Open", "Closed"}]
  /\ finger \subseteq Serials

(* When every touch is through, a device whose channel is open has a       *)
(* finger down only while the hand presses, on that device, and the hand   *)
(* presses only while the stage has a pipe: no pause, end of a session,    *)
(* loss of control or end of the surface leaves a finger on the device.    *)
(* Two things do, and nothing else: a touch that overtook an older one     *)
(* (control_hand.rs:139), and a stage that went to another device while    *)
(* the hand pressed: the lift then goes to that one (host.rs apply_layout, *)
(* control_hand.rs lift_without_control, end_press).                       *)
FingersFollowTheHand ==
  /\ pressing => stage.bound
  /\ flight = {} /\ ~overtaken /\ ~turned =>
       \A s \in finger : control[s] = "Open" => pressing /\ stage.serial = s
=============================================================================
