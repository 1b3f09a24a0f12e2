---------------------------- MODULE ProcessRunner ----------------------------
(***************************************************************************)
(* core/yohu-runtime/src/process.rs: one run of a child process, by        *)
(* run_capture ("capture"), run_streaming ("follow", logcat) or            *)
(* run_streaming_joined ("joined", adb push and pull).                     *)
(*                                                                         *)
(* The child writes OutLines lines to stdout and ErrLines to stderr, in    *)
(* any order, and waits at a full pipe.  A line of stdout is two pieces,   *)
(* as read_until finds it when a read of the pipe ends inside the line.    *)
(* The pumps are tasks of their own; the two streaming modes read stdout   *)
(* themselves, as the last branch of a biased select.                      *)
(***************************************************************************)
EXTENDS Integers

CONSTANTS
  OutLines, ErrLines,   \* what the child writes
  PipeCap,              \* pieces or lines the system's pipe holds
  ChanCap,              \* CAPTURE_CHAN, STREAM_STDERR_CHAN
  LineCap               \* the channel line_tx

RunnerAssumption ==
  /\ OutLines \in Nat /\ ErrLines \in Nat
  /\ PipeCap \in Nat \ {0} /\ ChanCap \in Nat \ {0} /\ LineCap \in Nat \ {0}

VARIABLES
  mode,
  child,      \* "running", "hung", "exited", "killed"
  turn,       \* the pipe the child is writing to, or "none"
  open,       \* the pipes the child has not closed
  wrote,      \* pieces of stdout, lines of stderr the child has written
  read,       \* and how many of them have left the pipe
  pump,       \* the pump task of a pipe
  chan,       \* lines in the channel of a pump
  drained,    \* stdout_done, stderr_done
  got,        \* lines handed on (stdout), collected (stderr, capture)
  held,       \* read_line_lossy has the first piece of a line in its buffer
  whole,      \* the line about to be sent is a whole one
  cut,        \* part of a line has been sent as a line
  lines,      \* lines in line_tx
  consumer,   \* somebody receives them
  cancelled,
  pc, outcome

vars == <<mode, child, turn, open, wrote, read, pump, chan, drained, got, held, whole, cut,
          lines, consumer, cancelled, pc, outcome>>

Pipe == {"out", "err"}
Size == [out |-> 2 * OutLines, err |-> ErrLines]
Outcome == {"none", "exit", "cancelled", "timeout", "failed"}

TypeOK ==
  /\ mode \in {"capture", "follow", "joined"}
  /\ child \in {"running", "hung", "exited", "killed"}
  /\ turn \in Pipe \cup {"none"}
  /\ open \subseteq Pipe
  /\ \A p \in Pipe : read[p] \in 0 .. wrote[p] /\ wrote[p] \in 0 .. Size[p]
  /\ \A p \in Pipe : wrote[p] - read[p] <= PipeCap
  /\ pump \in [Pipe -> {"none", "reading", "done", "failed", "joined", "lost", "aborted"}]
  /\ \A p \in Pipe : chan[p] \in 0 .. ChanCap
  /\ drained \in [Pipe -> BOOLEAN]
  /\ \A p \in Pipe : got[p] \in 0 .. Size[p]
  /\ held \in BOOLEAN /\ whole \in BOOLEAN /\ cut \in BOOLEAN
  /\ lines \in 0 .. LineCap
  /\ consumer \in BOOLEAN /\ cancelled \in BOOLEAN
  /\ pc \in {"loop", "sendOut", "sendErr", "wait", "reap", "done"}
  /\ outcome \in Outcome
-----------------------------------------------------------------------------
(* The child.  It writes one thing after another, so that a full pipe      *)
(* stops all of it; it closes a pipe when it has no more for it.           *)

childVars == <<child, turn, open, wrote>>
runVars == <<pump, chan, drained, got, held, whole, cut, lines, consumer, cancelled, pc, outcome>>

Turn(p) ==
  /\ child = "running" /\ turn = "none" /\ p \in open /\ wrote[p] < Size[p]
  /\ turn' = p
  /\ UNCHANGED <<mode, child, open, wrote, read, runVars>>

(* A pipe whose reader is gone takes everything and keeps nothing.         *)
Unread(p) == p = "err" /\ pump[p] \in {"failed", "lost"}

Write(p) ==
  /\ child = "running" /\ turn = p
  /\ wrote[p] - read[p] < PipeCap
  /\ wrote' = [wrote EXCEPT ![p] = @ + 1]
  /\ read' = IF Unread(p) THEN [read EXCEPT ![p] = @ + 1] ELSE read
  /\ turn' = "none"
  /\ UNCHANGED <<mode, child, open, runVars>>

Close(p) ==
  /\ child = "running" /\ p \in open /\ wrote[p] = Size[p]
  /\ open' = open \ {p}
  /\ UNCHANGED <<mode, child, turn, wrote, read, runVars>>

Exit ==
  /\ child = "running" /\ open = {}
  /\ child' = "exited"
  /\ UNCHANGED <<mode, turn, open, wrote, read, runVars>>

Hang ==
  /\ child = "running" /\ open # {}
  /\ child' = "hung"
  /\ UNCHANGED <<mode, turn, open, wrote, read, runVars>>
-----------------------------------------------------------------------------
(* spawn_bounded_pump, read_lines_bounded: a task that reads whole lines   *)
(* into its channel; invalid UTF-8 or too many bytes end it early.         *)

Eof(p) == p \notin open /\ wrote[p] = read[p]

PumpLine(p) ==
  /\ pump[p] = "reading" /\ read[p] < wrote[p] /\ chan[p] < ChanCap
  /\ read' = [read EXCEPT ![p] = @ + 1]
  /\ chan' = IF p = "out" /\ read[p] % 2 = 0 THEN chan ELSE [chan EXCEPT ![p] = @ + 1]
  /\ UNCHANGED <<mode, childVars, pump, drained, got, held, whole, cut, lines, consumer,
                 cancelled, pc, outcome>>

PumpEnd(p) ==
  /\ pump[p] = "reading"
  /\ \/ Eof(p) /\ pump' = [pump EXCEPT ![p] = "done"] /\ UNCHANGED read
     \/ /\ read[p] < wrote[p] /\ chan[p] < ChanCap
        /\ pump' = [pump EXCEPT ![p] = "failed"]
        /\ read' = [read EXCEPT ![p] = wrote[p]]
  /\ UNCHANGED <<mode, childVars, chan, drained, got, held, whole, cut, lines, consumer,
                 cancelled, pc, outcome>>
-----------------------------------------------------------------------------
(* run_capture and stream.                                                 *)

Ended(p) == pump[p] \in {"done", "failed"}

(* recv has something to return, if only that the channel has ended.       *)
ChanReady(p) == ~drained[p] /\ (chan[p] > 0 \/ pump[p] \notin {"none", "reading"})

(* Release the pipes, stop the pumps, remember why.                        *)
Stop(why) ==
  /\ pump' = [p \in Pipe |-> IF pump[p] \in {"reading", "done", "failed"}
                             THEN "aborted" ELSE pump[p]]
  /\ outcome' = why /\ pc' = "reap"
  /\ UNCHANGED <<mode, childVars, read, chan, drained, got, whole, cut, lines, consumer,
                 cancelled>>

(* Every select asks the token first; the wait for the exit has no select. *)
SeeCancel ==
  /\ pc \in {"loop", "sendOut", "sendErr"} /\ cancelled
  /\ Stop("cancelled") /\ held' = FALSE

(* The timeout of run_capture also guards its wait.                        *)
TimeOut ==
  /\ mode = "capture" /\ pc \in {"loop", "wait"}
  /\ Stop("timeout") /\ held' = FALSE

(* join_pump_task.  Only logcat, while it still has its stdout, goes on    *)
(* without its stderr.                                                     *)
JoinPump(p) ==
  /\ pc = "loop" /\ ~cancelled /\ Ended(p)
  /\ held' = FALSE
  /\ IF pump[p] = "failed" /\ (mode # "follow" \/ drained["out"])
     THEN Stop("failed")
     ELSE /\ pump' = [pump EXCEPT ![p] = IF @ = "failed" THEN "lost" ELSE "joined"]
          /\ drained' = [drained EXCEPT ![p] = @ \/ pump[p] = "failed"]
          /\ UNCHANGED <<mode, childVars, read, chan, got, whole, cut, lines, consumer,
                         cancelled, pc, outcome>>

(* A chunk of a pump, or the end of its channel.  Whatever branch of the   *)
(* select completes, the future of read_line_lossy is dropped, and with it *)
(* what it has read of a line.                                             *)
Receive(p) ==
  /\ pc = "loop" /\ ~cancelled /\ ~Ended(p) /\ ChanReady(p)
  /\ held' = FALSE
  /\ IF chan[p] > 0
     THEN /\ chan' = [chan EXCEPT ![p] = @ - 1]
          /\ got' = [got EXCEPT ![p] = @ + 1]
          /\ pc' = IF mode = "joined" THEN "sendErr" ELSE "loop"
          /\ UNCHANGED drained
     ELSE /\ drained' = [drained EXCEPT ![p] = TRUE]
          /\ UNCHANGED <<chan, got, pc>>
  /\ UNCHANGED <<mode, childVars, read, pump, whole, cut, lines, consumer, cancelled, outcome>>

(* read_line_lossy, the last branch.                                       *)
ReadLine ==
  /\ mode # "capture" /\ pc = "loop" /\ ~drained["out"]
  /\ ~cancelled /\ ~Ended("err") /\ ~ChanReady("err")
  /\ \/ /\ read["out"] < wrote["out"]
        /\ read' = [read EXCEPT !["out"] = @ + 1]
        /\ held' = (read["out"] % 2 = 0)
        /\ whole' = held
        /\ pc' = IF held' THEN "loop" ELSE "sendOut"
        /\ UNCHANGED drained
     \/ /\ Eof("out")
        /\ drained' = [drained EXCEPT !["out"] = TRUE]
        /\ held' = FALSE
        /\ UNCHANGED <<read, whole, pc>>
  /\ UNCHANGED <<mode, childVars, pump, chan, got, cut, lines, consumer, cancelled, outcome>>

(* forward_line, and the send of a line of stdout.                         *)
SendLine ==
  /\ pc \in {"sendOut", "sendErr"} /\ ~cancelled
  /\ IF ~consumer
     THEN Stop("cancelled") /\ UNCHANGED held
     ELSE /\ lines < LineCap
          /\ lines' = lines + 1
          /\ got' = IF pc = "sendOut" THEN [got EXCEPT !["out"] = @ + 1] ELSE got
          /\ cut' = (cut \/ (pc = "sendOut" /\ ~whole))
          /\ pc' = "loop"
          /\ UNCHANGED <<mode, childVars, read, pump, chan, drained, held, whole, consumer,
                         cancelled, outcome>>

(* Both ends seen and the pumps joined: what is left is the exit.          *)
Drained ==
  /\ pc = "loop" /\ ~cancelled
  /\ \A p \in Pipe : drained[p] /\ pump[p] \in {"none", "joined", "lost"}
  /\ pc' = "wait"
  /\ UNCHANGED <<mode, childVars, read, pump, chan, drained, got, held, whole, cut, lines,
                 consumer, cancelled, outcome>>

Wait ==
  /\ pc = "wait" /\ child = "exited"
  /\ pc' = "done" /\ outcome' = "exit"
  /\ UNCHANGED <<mode, childVars, read, pump, chan, drained, got, held, whole, cut, lines,
                 consumer, cancelled>>

(* kill_tree, and a wait that ends after REAP_WAIT at the latest.          *)
Reap ==
  /\ pc = "reap"
  /\ child' = IF child = "exited" THEN child ELSE "killed"
  /\ pc' = "done"
  /\ UNCHANGED <<mode, turn, open, wrote, read, pump, chan, drained, got, held, whole, cut,
                 lines, consumer, cancelled, outcome>>
-----------------------------------------------------------------------------
Cancel ==
  /\ ~cancelled /\ cancelled' = TRUE
  /\ UNCHANGED <<mode, childVars, read, pump, chan, drained, got, held, whole, cut, lines,
                 consumer, pc, outcome>>

TakeLine ==
  /\ consumer /\ lines > 0 /\ lines' = lines - 1
  /\ UNCHANGED <<mode, childVars, read, pump, chan, drained, got, held, whole, cut, consumer,
                 cancelled, pc, outcome>>

DropConsumer ==
  /\ mode # "capture" /\ consumer /\ consumer' = FALSE /\ lines' = 0
  /\ UNCHANGED <<mode, childVars, read, pump, chan, drained, got, held, whole, cut, cancelled,
                 pc, outcome>>

Init ==
  /\ mode \in {"capture", "follow", "joined"}
  /\ child = "running" /\ turn = "none" /\ open = Pipe
  /\ wrote = [p \in Pipe |-> 0] /\ read = [p \in Pipe |-> 0]
  /\ pump = [out |-> IF mode = "capture" THEN "reading" ELSE "none", err |-> "reading"]
  /\ chan = [p \in Pipe |-> 0] /\ drained = [p \in Pipe |-> FALSE]
  /\ got = [p \in Pipe |-> 0]
  /\ held = FALSE /\ whole = TRUE /\ cut = FALSE
  /\ lines = 0 /\ consumer = TRUE /\ cancelled = FALSE
  /\ pc = "loop" /\ outcome = "none"

ChildStep == (\E p \in Pipe : Turn(p) \/ Write(p) \/ Close(p)) \/ Exit
PumpStep(p) == PumpLine(p) \/ PumpEnd(p)
RunStep ==
  \/ SeeCancel \/ ReadLine \/ SendLine \/ Drained \/ Wait \/ Reap
  \/ \E p \in Pipe : JoinPump(p) \/ Receive(p)

Next ==
  \/ ChildStep \/ Hang \/ RunStep \/ TimeOut \/ Cancel \/ TakeLine \/ DropConsumer
  \/ \E p \in Pipe : PumpStep(p)

Spec ==
  /\ Init /\ [][Next]_vars
  /\ WF_vars(ChildStep) /\ WF_vars(RunStep) /\ WF_vars(TakeLine)
  /\ \A p \in Pipe : WF_vars(PumpStep(p))
-----------------------------------------------------------------------------
(* A run that reports the exit of its child has handed on all the child    *)
(* wrote, to either pipe: the tail of stderr is the text of BadExit.       *)
OutputIsWhole ==
  outcome = "exit" =>
    /\ got["out"] = OutLines
    /\ got["err"] = ErrLines \/ pump["err"] = "lost"

(* A run returns: no pipe fills up behind its back, and a cancelled one    *)
(* comes back even from a child that hangs or a consumer that has gone.    *)
(* Only the last wait is beyond the token: logcat that has lost its stderr *)
(* and closed its stdout keeps the run until it exits.                     *)
RunReturns == <>[](pc = "done" \/ (child = "hung" /\ (cancelled => pc = "wait")))

(* What is handed on as a line is a line the child wrote.                  *)
LinesAreWhole == ~cut
=============================================================================
