----------------------------- MODULE PresentHost -----------------------------
(***************************************************************************)
(* The stage of the mirror page (yohu-adbtools mirror_present/mod.rs), as  *)
(* it is on Windows: a surface is a thread with a window of its own and an *)
(* unbounded queue of commands, and it ends on Shutdown or when the last   *)
(* Sender of its queue is dropped. PresentHost keeps one Sender and what   *)
(* is bound; the lock is never held from one section to the next, so a     *)
(* caller goes on with a Sender, or a binding, that is no longer current.  *)
(* Callers: "main" turns the stage on and off, "view" reports the layout,  *)
(* "start" attaches a new session. Pointers, screenshots and the sizes of  *)
(* pictures, which change none of this, are left out.                      *)
(***************************************************************************)
EXTENDS Integers, Sequences, SequencesExt

CONSTANTS
  Serials,    (* devices the page is laid out for                          *)
  Mirrored,   (* those with sessions                                       *)
  MaxSurface, (* bound: surfaces                                           *)
  MaxLayout,  (* bound: calls of layout                                    *)
  MaxToggle,  (* bound: calls of set_active                                *)
  MaxBind     (* bound: sessions attached                                  *)


Callers == {"main", "view", "start"}
Surfaces == 1 .. MaxSurface
NoSurface == 0
NoSerial == "none"

PresentAssumption ==
  /\ Mirrored \subseteq Serials /\ NoSerial \notin Serials
  /\ {MaxSurface, MaxLayout, MaxToggle, MaxBind} \subseteq Nat

NoBind == [serial |-> NoSerial, generation |-> 0]
Binds == [serial : Mirrored, generation : 1 .. MaxBind]
NoLayout == NoSerial
Layouts == Serials

VARIABLES
  active, surface, live_bind, last_layout,   (* Inner                      *)
  pc, layout, created, tx, bind,             (* of each caller             *)
  thread, stage, cmds,                       (* of each surface            *)
  slots,                                     (* GeomHost: its window       *)
  layouts, toggles, generation, ended,       (* calls so far               *)
  strayed  (* a caller or an old surface has done one of the things below  *)
           (* that the stage does not recover from                         *)

innerVars == <<active, surface, live_bind, last_layout>>
callVars == <<pc, layout, created, tx, bind>>
surfaceVars == <<thread, stage, cmds, slots>>
countVars == <<layouts, toggles, generation, ended>>
vars == <<innerVars, callVars, surfaceVars, countVars, strayed>>

Init ==
  /\ active = FALSE /\ surface = NoSurface /\ live_bind = NoBind
  /\ last_layout \in {NoLayout} \cup Layouts
  /\ pc = [c \in Callers |-> "Idle"]
  /\ layout = [c \in Callers |-> NoLayout] /\ created = [c \in Callers |-> FALSE]
  /\ tx = [c \in Callers |-> NoSurface] /\ bind = [c \in Callers |-> NoBind]
  /\ thread = [k \in Surfaces |-> "None"]
  /\ stage = [k \in Surfaces |-> [serial |-> NoSerial, bound |-> NoBind]]
  /\ cmds = [k \in Surfaces |-> <<>>]
  /\ slots = [s \in Serials |-> NoSurface]
  /\ layouts = 0 /\ toggles = 0 /\ generation = 0 /\ ended = 0
  /\ strayed = FALSE

Goto(c, label) == pc' = [pc EXCEPT ![c] = label]
Hold(c, k) == tx' = [tx EXCEPT ![c] = k]
(* A command behind a Shutdown, or for a thread that has ended, is lost.   *)
Deaf(k) == thread[k] \in {"Leaving", "Gone", "Failed"} \/ Contains(cmds[k], [cmd |-> "Shutdown"])
Post(k, cmd) == cmds' = IF Deaf(k) THEN cmds ELSE [cmds EXCEPT ![k] = Append(@, cmd)]
Forget(c) == layout' = [layout EXCEPT ![c] = NoLayout]
Stray(how) == strayed' = (strayed \/ how)
-----------------------------------------------------------------------------
(* set_active: turned on, the last layout that showed something is laid    *)
(* out again; turned off, the surface is taken down.                       *)
SetActive ==
  /\ pc["main"] = "Idle" /\ toggles < MaxToggle
  /\ toggles' = toggles + 1
  /\ active' = ~active
  /\ \/ active /\ Goto("main", "TakeSurface") /\ UNCHANGED layout
     \/ /\ ~active /\ last_layout # NoLayout
        /\ layout' = [layout EXCEPT !["main"] = last_layout] /\ Goto("main", "Check")
     \/ ~active /\ last_layout = NoLayout /\ UNCHANGED <<pc, layout>>
  /\ UNCHANGED <<surface, live_bind, last_layout, created, tx, bind, surfaceVars, layouts,
                 generation, ended, strayed>>

(* mirror.layout of the page.                                              *)
Layout ==
  /\ pc["view"] = "Idle" /\ layouts < MaxLayout
  /\ layouts' = layouts + 1
  /\ \E l \in {NoLayout} \cup Layouts : layout' = [layout EXCEPT !["view"] = l]
  /\ Goto("view", "Check")
  /\ UNCHANGED <<innerVars, created, tx, bind, surfaceVars, toggles, generation, ended,
                 strayed>>

(* layout: discarded while the stage is off; the rest of the call does not *)
(* ask again. One that shows something is kept for the next time.          *)
Check(c) ==
  /\ pc[c] = "Check"
  /\ \/ ~active /\ Goto(c, "Idle") /\ Forget(c)
     \/ active /\ layout[c] # NoLayout /\ Goto(c, "Ensure") /\ UNCHANGED layout
     \/ active /\ layout[c] = NoLayout /\ Goto(c, "TakeSurface") /\ UNCHANGED layout
  /\ last_layout' = IF active /\ layout[c] # NoLayout THEN layout[c] ELSE last_layout
  /\ UNCHANGED <<active, surface, live_bind, created, tx, bind, surfaceVars, countVars, strayed>>

(* ensure_surface: the thread is spawned outside the lock, if there is an  *)
(* owner window and a device to draw with.                                 *)
Ensure(c) ==
  /\ pc[c] = "Ensure"
  /\ \/ surface # NoSurface /\ Goto(c, "Tell") /\ UNCHANGED <<tx, thread, stage>>
     \/ surface = NoSurface /\ Goto(c, "Idle") /\ UNCHANGED <<tx, thread, stage>>
     \/ \E k \in Surfaces :
          /\ surface = NoSurface
          /\ thread[k] = "None" /\ \A j \in 1 .. k - 1 : thread[j] # "None"
          /\ thread' = [thread EXCEPT ![k] = "Starting"]
          /\ stage' = [stage EXCEPT ![k].serial = layout[c]]
          /\ Hold(c, k)
          /\ Goto(c, "Store")
  /\ UNCHANGED <<innerVars, layout, created, bind, cmds, slots, countVars, strayed>>

(* The Sender is stored whatever has become of the stage: it may be off,   *)
(* or have another surface, whose Sender is dropped.                       *)
Store(c) ==
  /\ pc[c] = "Store"
  /\ surface' = tx[c]
  /\ Hold(c, NoSurface)
  /\ created' = [created EXCEPT ![c] = TRUE]
  /\ Stray(~active \/ surface # NoSurface)
  /\ Goto(c, "Tell")
  /\ UNCHANGED <<active, live_bind, last_layout, layout, bind, surfaceVars, countVars>>

(* A call that finds the surface gone goes on to the binding.              *)
Tell(c) ==
  /\ pc[c] = "Tell"
  /\ Hold(c, surface)
  /\ Goto(c, "Send")
  /\ UNCHANGED <<innerVars, layout, created, bind, surfaceVars, countVars, strayed>>

Send(c) ==
  /\ pc[c] = "Send"
  /\ IF tx[c] = NoSurface THEN UNCHANGED cmds
     ELSE Post(tx[c], [cmd |-> "Layout", serial |-> layout[c]])
  /\ Hold(c, NoSurface)
  /\ Goto(c, IF created[c] THEN "Flush" ELSE "Idle")
  /\ created' = [created EXCEPT ![c] = FALSE]
  /\ Forget(c)
  /\ UNCHANGED <<innerVars, bind, thread, stage, slots, countVars, strayed>>

(* flush_live_bind: a new surface is bound to what is bound now. The lock  *)
(* is given back before the command is sent.                               *)
Flush(c) ==
  /\ pc[c] = "Flush"
  /\ IF surface = NoSurface \/ live_bind = NoBind
     THEN Goto(c, "Idle") /\ UNCHANGED <<tx, bind>>
     ELSE Goto(c, "Bind") /\ Hold(c, surface) /\ bind' = [bind EXCEPT ![c] = live_bind]
  /\ UNCHANGED <<innerVars, layout, created, surfaceVars, countVars, strayed>>

SendBind(c) ==
  /\ pc[c] = "Bind"
  /\ Post(tx[c], [cmd |-> "Bind", to |-> bind[c]])
  /\ Stray(bind[c] # live_bind)
  /\ Hold(c, NoSurface) /\ bind' = [bind EXCEPT ![c] = NoBind]
  /\ Goto(c, "Idle")
  /\ UNCHANGED <<innerVars, layout, created, thread, stage, slots, countVars>>

(* attach, of a new session.                                               *)
Attach ==
  /\ pc["start"] = "Idle"
  /\ generation < MaxBind
  /\ generation' = generation + 1
  /\ \E s \in Mirrored : live_bind' = [serial |-> s, generation |-> generation']
  /\ IF surface = NoSurface THEN UNCHANGED <<pc, tx, bind>>
     ELSE /\ Goto("start", "Bind") /\ Hold("start", surface)
          /\ bind' = [bind EXCEPT !["start"] = live_bind']
  /\ UNCHANGED <<active, surface, last_layout, layout, created, surfaceVars, layouts, toggles,
                 ended, strayed>>

(* unbind, by the dispatcher, when a session of that device is over: both  *)
(* under the lock.                                                         *)
Unbind(s) ==
  /\ ended < generation
  /\ ended' = ended + 1
  /\ live_bind' = IF live_bind.serial = s THEN NoBind ELSE live_bind
  /\ IF surface = NoSurface THEN UNCHANGED cmds
     ELSE Post(surface, [cmd |-> "Unbind", serial |-> s])
  /\ UNCHANGED <<active, surface, last_layout, callVars, thread, stage, slots, layouts,
                 toggles, generation, strayed>>

(* shutdown: of set_active, or of a layout that shows nothing.             *)
TakeSurface(c) ==
  /\ pc[c] = "TakeSurface"
  /\ surface' = NoSurface
  /\ Hold(c, surface)
  /\ Goto(c, IF surface = NoSurface THEN "Idle" ELSE "SendShutdown")
  /\ UNCHANGED <<active, live_bind, last_layout, layout, created, bind, surfaceVars, countVars,
                 strayed>>

SendShutdown(c) ==
  /\ pc[c] = "SendShutdown"
  /\ Post(tx[c], [cmd |-> "Shutdown"])
  /\ Hold(c, NoSurface)
  /\ Goto(c, "Idle")
  /\ UNCHANGED <<innerVars, layout, created, bind, thread, stage, slots, countVars, strayed>>

CallStep(c) ==
  \/ Check(c) \/ Ensure(c) \/ Store(c) \/ Tell(c) \/ Send(c)
  \/ Flush(c) \/ SendBind(c) \/ TakeSurface(c) \/ SendShutdown(c)
-----------------------------------------------------------------------------
(* The slot of a device may be that of another surface.                    *)
Taken(k, serial) == slots[serial] \notin {k, NoSurface}

(* run_loop: the window is registered under the device of the stage; a     *)
(* thread may fail before that, or after, when it gets no swap chain.      *)
Begin(k) ==
  /\ thread[k] = "Starting"
  /\ \/ /\ slots' = [slots EXCEPT ![stage[k].serial] = k]
        /\ \E end \in {"Running", "Failed"} : thread' = [thread EXCEPT ![k] = end]
        /\ Stray(Taken(k, stage[k].serial))
     \/ thread' = [thread EXCEPT ![k] = "Failed"] /\ UNCHANGED <<slots, strayed>>
  /\ cmds' = [cmds EXCEPT ![k] = IF thread'[k] = "Failed" THEN <<>> ELSE @]
  /\ UNCHANGED <<innerVars, callVars, stage, countVars>>

(* Mutant: the window stays registered under the device before.            *)
leave_slot(k, serial) ==
  /\ slots' = [slots EXCEPT ![serial] = k]
  /\ Stray(Taken(k, serial))

(* apply_layout and bind: the window follows the device of the stage.      *)
Move(k, serial) ==
  IF stage[k].serial = serial THEN UNCHANGED <<slots, strayed>>
  ELSE /\ slots' = [slots EXCEPT ![stage[k].serial] = NoSurface, ![serial] = k]
       /\ Stray(Taken(k, stage[k].serial) \/ Taken(k, serial))

(* dispatch. An Unbind counts if it is for the device of the stage, which  *)
(* is the one of the last layout, or of the last binding.                  *)
Apply(k, cmd) ==
  \/ /\ cmd.cmd = "Layout"
     /\ Move(k, cmd.serial)
     /\ stage' = [stage EXCEPT ![k].serial = cmd.serial]
     /\ UNCHANGED thread
  \/ /\ cmd.cmd = "Bind"
     /\ Move(k, cmd.to.serial)
     /\ stage' = [stage EXCEPT ![k] = [serial |-> cmd.to.serial, bound |-> cmd.to]]
     /\ UNCHANGED thread
  \/ /\ cmd.cmd = "Unbind"
     /\ stage' = IF stage[k].serial = cmd.serial THEN [stage EXCEPT ![k].bound = NoBind]
                 ELSE stage
     /\ Stray(/\ stage[k].bound # NoBind
              /\ stage[k].serial # stage[k].bound.serial
              /\ cmd.serial \in {stage[k].serial, stage[k].bound.serial})
     /\ UNCHANGED <<thread, slots>>
  \/ /\ cmd.cmd = "Shutdown"
     /\ thread' = [thread EXCEPT ![k] = "Leaving"]
     /\ UNCHANGED <<stage, slots, strayed>>

Step(k) ==
  /\ thread[k] = "Running" /\ cmds[k] # <<>>
  /\ cmds' = [cmds EXCEPT ![k] = Tail(@)]
  /\ Apply(k, Head(cmds[k]))
  /\ UNCHANGED <<innerVars, callVars, countVars>>

(* poll_timeout, poll_ready: Disconnected stops the loop as Shutdown does. *)
Disconnected(k) == surface # k /\ \A c \in Callers : tx[c] # k

Disconnect(k) ==
  /\ thread[k] = "Running" /\ cmds[k] = <<>> /\ Disconnected(k)
  /\ thread' = [thread EXCEPT ![k] = "Leaving"]
  /\ UNCHANGED <<innerVars, callVars, stage, cmds, slots, countVars, strayed>>

(* unregister goes by the device: the slot may be that of a newer surface. *)
Leave(k) ==
  /\ thread[k] = "Leaving"
  /\ slots' = [slots EXCEPT ![stage[k].serial] = NoSurface]
  /\ Stray(Taken(k, stage[k].serial))
  /\ thread' = [thread EXCEPT ![k] = "Gone"] /\ cmds' = [cmds EXCEPT ![k] = <<>>]
  /\ stage' = [stage EXCEPT ![k] = [serial |-> NoSerial, bound |-> NoBind]]
  /\ UNCHANGED <<innerVars, callVars, countVars>>

SurfaceStep(k) == Begin(k) \/ Step(k) \/ Disconnect(k) \/ Leave(k)

Next ==
  \/ ~strayed /\ (SetActive \/ Layout \/ Attach \/ \E s \in Mirrored : Unbind(s))
  \/ \E c \in Callers : CallStep(c)
  \/ \E k \in Surfaces : SurfaceStep(k)
-----------------------------------------------------------------------------
Commands ==
  [cmd : {"Layout", "Unbind"}, serial : Serials] \cup [cmd : {"Bind"}, to : Binds]
    \cup [cmd : {"Shutdown"}]

(* Every variable has its type.                                            *)
TypeOK ==
  /\ active \in BOOLEAN /\ strayed \in BOOLEAN
  /\ surface \in {NoSurface} \cup Surfaces
  /\ live_bind \in {NoBind} \cup Binds
  /\ last_layout \in {NoLayout} \cup Layouts
  /\ pc \in [Callers -> {"Idle", "Check", "Ensure", "Store", "Tell", "Send", "Flush",
                         "Bind", "TakeSurface", "SendShutdown"}]
  /\ layout \in [Callers -> {NoLayout} \cup Layouts]
  /\ created \in [Callers -> BOOLEAN]
  /\ tx \in [Callers -> {NoSurface} \cup Surfaces]
  /\ bind \in [Callers -> {NoBind} \cup Binds]
  /\ thread \in [Surfaces -> {"None", "Starting", "Running", "Leaving", "Gone", "Failed"}]
  /\ stage \in [Surfaces -> [serial : {NoSerial} \cup Serials, bound : {NoBind} \cup Binds]]
  /\ \A k \in Surfaces : \A i \in DOMAIN cmds[k] : cmds[k][i] \in Commands
  /\ slots \in [Serials -> {NoSurface} \cup Surfaces]
  /\ layouts \in 0 .. MaxLayout /\ toggles \in 0 .. MaxToggle /\ generation \in 0 .. MaxBind
  /\ ended \in 0 .. MaxBind

AtRest ==
  /\ \A c \in Callers : pc[c] = "Idle"
  /\ \A k \in Surfaces :
       /\ thread[k] \notin {"Starting", "Leaving"}
       /\ thread[k] = "Running" => cmds[k] = <<>>

(* When every call and every command is through, a stage that is off has   *)
(* no surface, and the surface of one that is on shows the session that is *)
(* bound, in a window that follows the main one. At any time, GeomHost     *)
(* places no window that is gone: a surface that has left holds no slot,   *)
(* under whatever devices it was known. The first holds whatever the order *)
(* of calls, commands and ends of older surfaces, unless one of these was  *)
(* among them (`strayed`): a surface stored while the stage was off or had *)
(* another one; a Bind sent after its binding was over; the slot of a      *)
(* device taken or removed by another surface; an Unbind at a surface laid *)
(* out for another device than the one it shows (mod.rs set_active,        *)
(* layout, attach, unbind; surface.rs run_loop, apply_layout, bind).       *)
StageAtRest ==
  /\ AtRest /\ ~strayed =>
       /\ ~active => surface = NoSurface
       /\ surface # NoSurface /\ thread[surface] = "Running" =>
            /\ stage[surface].bound = live_bind
            /\ slots[stage[surface].serial] = surface
  /\ \A s \in Serials : slots[s] # NoSurface => thread[slots[s]] # "Gone"

(* The threads of surfaces that PresentHost does not hold end, also when   *)
(* two callers have made one each and one Sender was dropped (mod.rs       *)
(* shutdown, backend.rs poll_timeout).                                     *)
Old(k) == surface # k /\ thread[k] \in {"Starting", "Running", "Leaving"}

OldSurfacesEnd == (\E k \in Surfaces : Old(k)) ~> (\A k \in Surfaces : ~Old(k))
=============================================================================
