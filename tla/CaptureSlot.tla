----------------------------- MODULE CaptureSlot ----------------------------
(***************************************************************************)
(* What the capture service promises about the slot of a device, whatever  *)
(* calls and workers race for it:                                          *)
(*                                                                         *)
(*     Empty -> Starting(g) -> Live(g) -> Stopping(g) -> Empty             *)
(*                                                                         *)
(* with a generation never handed out before on every opening, the slot    *)
(* dropped from any phase, and one Stopped announced per generation, after *)
(* the slot of that generation is gone.                                    *)
(***************************************************************************)
EXTENDS Integers

CONSTANT Serials

VARIABLES
  slot,       (* phase and generation of each device                       *)
  issued,     (* the last generation handed out                            *)
  announced   (* generations whose Stopped has been announced              *)

slotSpecVars == <<slot, issued, announced>>

NoSlot == [phase |-> "Empty", generation |-> 0]

Init ==
  /\ slot = [s \in Serials |-> NoSlot]
  /\ issued = 0
  /\ announced = {}

Open(s) ==
  /\ slot[s] = NoSlot
  /\ issued' = issued + 1
  /\ slot' = [slot EXCEPT ![s] = [phase |-> "Starting", generation |-> issued']]
  /\ UNCHANGED announced

GoLive(s) ==
  /\ slot[s].phase = "Starting"
  /\ slot' = [slot EXCEPT ![s].phase = "Live"]
  /\ UNCHANGED <<issued, announced>>

Close(s) ==
  /\ slot[s].phase \in {"Starting", "Live"}
  /\ slot' = [slot EXCEPT ![s].phase = "Stopping"]
  /\ UNCHANGED <<issued, announced>>

Drop(s) ==
  /\ slot[s] # NoSlot
  /\ slot' = [slot EXCEPT ![s] = NoSlot]
  /\ UNCHANGED <<issued, announced>>

(* A generation that was handed out and whose slot is gone.                *)
Gone(g) ==
  /\ g \in 1 .. issued
  /\ \A s \in Serials : slot[s].generation # g

Announce(g) ==
  /\ Gone(g)
  /\ g \notin announced
  /\ announced' = announced \cup {g}
  /\ UNCHANGED <<slot, issued>>

Next ==
  \/ \E s \in Serials : Open(s) \/ GoLive(s) \/ Close(s) \/ Drop(s)
  \/ \E g \in 1 .. issued : Announce(g)

Spec == Init /\ [][Next]_slotSpecVars
=============================================================================
