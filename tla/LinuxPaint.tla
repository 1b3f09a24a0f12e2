----------------------------- MODULE LinuxPaint -----------------------------
(***************************************************************************)
(* The canvas of the mirror stage on Linux (yohu-adbtools mirror_present,  *)
(* linux/widget.rs): the threads of the surfaces post what is to be drawn, *)
(* the GTK thread draws it. A surface has one slot for its newest job and  *)
(* a flag that a redraw is queued; the GTK thread has one canvas, that of  *)
(* the surface booted last, with a child window over the page. Surfaces    *)
(* follow one another, and an old one may end after the new one has begun. *)
(***************************************************************************)
EXTENDS Integers, Sequences

CONSTANTS
  MaxSurface, (* bound: surfaces                                           *)
  MaxPost     (* bound: jobs posted                                        *)

PaintAssumption == {MaxSurface, MaxPost} \subseteq Nat

Surfaces == 1 .. MaxSurface

(* A job shows the stage or hides the window: when there is nothing to     *)
(* show, and over the download of OpenH264 (yield_web). NoJob for none.    *)
NoJob == [n |-> 0, show |-> FALSE]
PaintJobs == [n : 1 .. MaxPost + MaxSurface, show : BOOLEAN]

VARIABLES
  thread,     (* of each surface: is it posting, and has it ended          *)
  told,       (* surfaces that have been told to end                       *)
  posted,     (* jobs so far                                               *)
  newest,     (* the job each surface has posted last                      *)
  job, scheduled,       (* Shared                                          *)
  idle,       (* the idle sources of the GTK main loop, in order           *)
  canvas,     (* whose it is, 0 before the first boot                      *)
  last,       (* Canvas.last                                               *)
  gtk,        (* where the GTK thread stands in redraw                     *)
  window,     (* the child window of each surface: what it shows           *)
  strayed     (* a surface was booted before the canvas had taken the      *)
              (* hidden paint of the one before                            *)

postVars == <<thread, told, posted, newest>>
gtkVars == <<canvas, last, gtk, window>>
vars == <<postVars, job, scheduled, idle, gtkVars, strayed>>

Init ==
  /\ thread = [k \in Surfaces |-> "None"] /\ told = {} /\ posted = 0
  /\ newest = [k \in Surfaces |-> NoJob]
  /\ job = [k \in Surfaces |-> NoJob] /\ scheduled = [k \in Surfaces |-> FALSE]
  /\ idle = <<>> /\ canvas = 0 /\ last = NoJob /\ gtk = "Main"
  /\ window = [k \in Surfaces |-> NoJob]
  /\ strayed = FALSE
-----------------------------------------------------------------------------
(* The threads of the surfaces.                                            *)

(* boot: the next surface begins when the one before has been told to end. *)
Spawn(k) ==
  /\ thread[k] = "None" /\ \A j \in 1 .. k - 1 : j \in told
  /\ thread' = [thread EXCEPT ![k] = "Loop"]
  /\ idle' = Append(idle, k)
  /\ UNCHANGED <<told, posted, newest, job, scheduled, gtkVars, strayed>>

Tell(k) ==
  /\ thread[k] # "None" /\ k \notin told /\ told' = told \cup {k}
  /\ UNCHANGED <<thread, posted, newest, job, scheduled, idle, gtkVars, strayed>>

(* post: the slot first, then the flag; the last job of a surface is       *)
(* hidden_paint.                                                           *)
Redraw == 0

SetJob(k, next, pc) ==
  /\ thread[k] = "Loop" /\ thread' = [thread EXCEPT ![k] = pc]
  /\ posted' = posted + 1
  /\ newest' = [newest EXCEPT ![k] = next]
  /\ job' = [job EXCEPT ![k] = next]
  /\ UNCHANGED <<told, scheduled, idle, gtkVars, strayed>>

Post(k, show) == posted < MaxPost /\ SetJob(k, [n |-> posted + 1, show |-> show], "Swap")
Hide(k) == k \in told /\ SetJob(k, [n |-> posted + 1, show |-> FALSE], "LastSwap")

Schedule(k) ==
  /\ scheduled' = [scheduled EXCEPT ![k] = TRUE]
  /\ idle' = IF scheduled[k] THEN idle ELSE Append(idle, Redraw)

Swap(k) ==
  /\ thread[k] \in {"Swap", "LastSwap"}
  /\ thread' = [thread EXCEPT ![k] = IF @ = "Swap" THEN "Loop" ELSE "Gone"]
  /\ Schedule(k)
  /\ UNCHANGED <<told, posted, newest, job, gtkVars, strayed>>
-----------------------------------------------------------------------------
(* The GTK thread. Boot puts a new canvas in the place of the old one; the *)
(* child window of that one is let go of as it is.                         *)
Boot ==
  /\ gtk = "Main" /\ idle # <<>> /\ Head(idle) # Redraw
  /\ idle' = Tail(idle)
  /\ canvas' = Head(idle) /\ last' = NoJob
  /\ gtk' = "Redraw"
  /\ strayed' = (strayed \/ (canvas # 0 /\ window[canvas].show))
  /\ UNCHANGED <<postVars, job, scheduled, window>>

(* A queued redraw, or the timer, which fires every 200 ms.                *)
Wake ==
  /\ gtk = "Main" /\ canvas # 0
  /\ \/ idle # <<>> /\ Head(idle) = Redraw /\ idle' = Tail(idle)
     \/ UNCHANGED idle
  /\ gtk' = "Redraw"
  /\ UNCHANGED <<postVars, job, scheduled, canvas, last, window, strayed>>

(* A redraw before the first boot finds no canvas.                         *)
WakeEmpty ==
  /\ gtk = "Main" /\ canvas = 0 /\ idle # <<>> /\ Head(idle) = Redraw
  /\ idle' = Tail(idle)
  /\ UNCHANGED <<postVars, job, scheduled, gtkVars, strayed>>

(* redraw: the flag, then the slot, then a second look at the slot.        *)
Clear ==
  /\ gtk = "Redraw" /\ gtk' = "Take"
  /\ scheduled' = [scheduled EXCEPT ![canvas] = FALSE]
  /\ UNCHANGED <<postVars, job, idle, canvas, last, window, strayed>>

(* Mutant: the flag stays.                                                 *)
ClearNothing ==
  /\ gtk = "Redraw" /\ gtk' = "Take"
  /\ UNCHANGED <<postVars, job, scheduled, idle, canvas, last, window, strayed>>

Take ==
  /\ gtk = "Take" /\ gtk' = "Recheck"
  /\ last' = IF job[canvas] = NoJob THEN last ELSE job[canvas]
  /\ job' = [job EXCEPT ![canvas] = NoJob]
  /\ UNCHANGED <<postVars, scheduled, idle, canvas, window, strayed>>

(* The second look, and paint: the window is made when it is first needed, *)
(* and hidden, not destroyed, when there is nothing to show.               *)
Shown(k, next) == IF next.show \/ window[k] # NoJob THEN next ELSE NoJob

Recheck ==
  /\ gtk = "Recheck" /\ gtk' = "Main"
  /\ IF job[canvas] = NoJob THEN UNCHANGED <<scheduled, idle>> ELSE Schedule(canvas)
  /\ window' = [window EXCEPT ![canvas] = Shown(canvas, last)]
  /\ UNCHANGED <<postVars, job, canvas, last, strayed>>

GtkStep == Boot \/ Wake \/ WakeEmpty \/ Clear \/ Take \/ Recheck

Next ==
  \/ \E k \in Surfaces : Spawn(k) \/ Tell(k) \/ Hide(k) \/ Swap(k)
  \/ \E k \in Surfaces, show \in BOOLEAN : Post(k, show)
  \/ GtkStep
-----------------------------------------------------------------------------
(* Every variable has its type.                                            *)
TypeOK ==
  /\ thread \in [Surfaces -> {"None", "Loop", "Swap", "LastSwap", "Gone"}]
  /\ told \subseteq Surfaces /\ posted \in 0 .. MaxPost + MaxSurface
  /\ {newest[k] : k \in Surfaces} \cup {job[k] : k \in Surfaces} \cup {last}
       \cup {window[k] : k \in Surfaces} \subseteq PaintJobs \cup {NoJob}
  /\ scheduled \in [Surfaces -> BOOLEAN]
  /\ idle \in Seq(Surfaces \cup {Redraw})
  /\ canvas \in 0 .. MaxSurface /\ gtk \in {"Main", "Redraw", "Take", "Recheck"}
  /\ strayed \in BOOLEAN

(* What the surface of the canvas has posted is going to be drawn without  *)
(* the help of the timer: the GTK thread is about to look at the slot, or  *)
(* a redraw is queued, or the poster is about to queue one. No job falls   *)
(* between the two that set and clear the flag at the same time.           *)
Queued == \E i \in DOMAIN idle : idle[i] = Redraw

PaintIsScheduled ==
  canvas # 0 /\ job[canvas] # NoJob =>
    gtk # "Main" \/ Queued \/ thread[canvas] \in {"Swap", "LastSwap"}

(* When all is drawn, the window shows what its surface posted last, and   *)
(* no window of another surface covers the page. The second is not shown   *)
(* (`strayed`) for a surface that was slower to hide its window than the   *)
(* next one to come up: its window stays where it is.                      *)
AllDrawn == gtk = "Main" /\ idle = <<>> /\ \A k \in Surfaces : thread[k] \in {"None", "Loop", "Gone"}

CanvasAtRest ==
  AllDrawn /\ canvas # 0 =>
    /\ window[canvas].show = newest[canvas].show
    /\ newest[canvas].show => window[canvas] = newest[canvas]
    /\ ~strayed => \A k \in Surfaces \ {canvas} : ~window[k].show

PaintReachesTheScreen == PaintIsScheduled /\ CanvasAtRest
=============================================================================
