----------------------------- MODULE TaskCenter -----------------------------
(***************************************************************************)
(* The task center of the application shell (tasks.rs) and the two kinds   *)
(* of owners that register with it: a job (file transfer, command group,   *)
(* update download) that finishes its own task, and a capture, whose task  *)
(* is found again by device serial (capture_runs.rs) when the dispatcher   *)
(* (events.rs) takes the capture's Stopped from the event channel.         *)
(*                                                                         *)
(* The capture service is seen through CaptureSlot. Shell code runs on     *)
(* several threads: an action ends where a lock is released, where an      *)
(* event enters the channel, or where a spawned task takes over.           *)
(***************************************************************************)
EXTENDS Integers, Sequences

CONSTANTS
  Serials,   (* device serials                                             *)
  Jobs,      (* transfers, command groups, downloads: one task each        *)
  MaxGen,    (* bound: captures opened in one behaviour                    *)
  MaxTask,   (* bound: tasks registered in one behaviour                   *)
  EventCap   (* capacity of the event channel                              *)

ASSUME CenterAssumption ==
  /\ MaxGen \in Nat \ {0}
  /\ MaxTask \in Nat \ {0}
  /\ EventCap \in Nat \ {0}
  /\ Jobs \cap (1 .. MaxGen) = {}

VARIABLES
  slot, issued, announced,  (* the capture service, see CaptureSlot        *)
  inner,     (* TaskCenter.inner: what each task id is                     *)
  next,      (* TaskCenter.next, the next id                               *)
  runs,      (* CaptureRuns.tasks: the task of each device, 0 for none     *)
  sink,      (* the event channel, oldest first                            *)
  sending,   (* the summary a spawned send of finish(id) still carries     *)
  shown,     (* the table the client shows                                 *)
  pc, task, snap,   (* of each owner: where it stands, the id it was       *)
                    (* given, the summary it is about to try_send          *)
  device,           (* the device of each capture opened so far            *)
  dispatcher        (* what the dispatcher is doing, and for which task    *)

slotVars == <<slot, issued, announced>>
ownerVars == <<pc, task, snap, device>>
vars == <<slotVars, inner, next, runs, sink, sending, shown, ownerVars, dispatcher>>

Captures == INSTANCE CaptureSlot

Gen == 1 .. MaxGen
Id == 1 .. MaxTask
Owners == Jobs \cup Gen

Table == [Id -> {"absent", "active", "done"}]

NoTable == [id \in Id |-> "absent"]

StoppedEvent(s) == [kind |-> "stopped", serial |-> s]
SummaryEvent(tasks) == [kind |-> "summary", tasks |-> tasks]

Event == {StoppedEvent(s) : s \in Serials}
           \cup {SummaryEvent(tasks) : tasks \in Table}

AtRecv == [at |-> "Recv", task |-> 0]

OwnerPcs == {"Idle", "Starting", "Insert", "Snapshot", "EmitLossy",
             "RegisterRun", "Running", "EmitFinish", "Over"}

(* Mutant: a channel without a bound.                                      *)
RoomForAll == TRUE

Room == Len(sink) < EventCap

Goto(o, from, to) ==
  /\ pc[o] = from
  /\ pc' = [pc EXCEPT ![o] = to]

-----------------------------------------------------------------------------
(* register(): insert under the lock, a summary under the lock again, and  *)
(* try_send.                                                               *)

Insert(o) ==
  /\ Goto(o, "Insert", "Snapshot")
  /\ next \in Id
  /\ inner' = [inner EXCEPT ![next] = "active"]
  /\ task' = [task EXCEPT ![o] = next]
  /\ next' = next + 1
  /\ UNCHANGED <<slotVars, runs, sink, sending, shown, snap, device, dispatcher>>

Snapshot(o) ==
  /\ Goto(o, "Snapshot", "EmitLossy")
  /\ snap' = [snap EXCEPT ![o] = inner]
  /\ UNCHANGED <<slotVars, inner, next, runs, sink, sending, shown, task, device, dispatcher>>

(* A full channel loses the event.                                         *)
EmitLossy(o) ==
  /\ Goto(o, "EmitLossy", IF o \in Jobs THEN "Running" ELSE "RegisterRun")
  /\ sink' = IF Room THEN Append(sink, SummaryEvent(snap[o])) ELSE sink
  /\ snap' = [snap EXCEPT ![o] = NoTable]
  /\ UNCHANGED <<slotVars, inner, next, runs, sending, shown, task, device, dispatcher>>

(* finish(id): the task is made inactive under the lock.                   *)
SetDone(id) == inner' = [inner EXCEPT ![id] = "done"]

(* Mutant: the last summary is sent like the first.                        *)
EmitFinishLossy(id) ==
  /\ sink' = IF Room THEN Append(sink, SummaryEvent(inner)) ELSE sink
  /\ UNCHANGED sending

(* emit_finish(): a summary, and a spawned task that sends it.             *)
EmitFinish(id) ==
  /\ sending' = [sending EXCEPT ![id] = inner]
  /\ UNCHANGED sink

(* The spawned send().await of emit_finish.                                *)
SpawnedSend(id) ==
  /\ sending[id] # NoTable
  /\ Room
  /\ sink' = Append(sink, SummaryEvent(sending[id]))
  /\ sending' = [sending EXCEPT ![id] = NoTable]
  /\ UNCHANGED <<slotVars, inner, next, runs, shown, ownerVars, dispatcher>>

-----------------------------------------------------------------------------
(* Jobs: register, run for as long as it takes, finish.                    *)

StartJob(j) ==
  /\ Goto(j, "Idle", "Insert")
  /\ UNCHANGED <<slotVars, inner, next, runs, sink, sending, shown, task, snap, device, dispatcher>>

JobEnds(j) ==
  /\ Goto(j, "Running", "EmitFinish")
  /\ SetDone(task[j])
  /\ UNCHANGED <<slotVars, next, runs, sink, sending, shown, task, snap, device, dispatcher>>

JobEmits(j) ==
  /\ Goto(j, "EmitFinish", "Over")
  /\ EmitFinish(task[j])
  /\ UNCHANGED <<slotVars, inner, next, runs, shown, task, snap, device, dispatcher>>

-----------------------------------------------------------------------------
(* Captures. The owner of generation g is the call of capture_runs::start  *)
(* that opened it; a call that adopts a Live slot registers nothing.       *)

shellVars == <<inner, next, runs, sending, shown, task, snap, dispatcher>>

OpenCapture(s) ==
  /\ issued < MaxGen
  /\ Captures!Open(s)
  /\ Goto(issued', "Idle", "Starting")
  /\ device' = [device EXCEPT ![issued'] = s]
  /\ UNCHANGED <<shellVars, sink>>

(* service.start returns Ok: the call goes on to register.                 *)
CaptureLive(s) ==
  /\ Captures!GoLive(s)
  /\ Goto(slot[s].generation, "Starting", "Insert")
  /\ UNCHANGED <<shellVars, device, sink>>

CloseCapture(s) ==
  /\ Captures!Close(s)
  /\ UNCHANGED <<shellVars, device, sink, pc>>

(* The slot goes. A start that has not returned yet returns an error.      *)
DropCapture(s) ==
  LET g == slot[s].generation IN
  /\ Captures!Drop(s)
  /\ pc' = IF pc[g] = "Starting" THEN [pc EXCEPT ![g] = "Over"] ELSE pc
  /\ UNCHANGED <<shellVars, device, sink>>

(* The Stopped of a capture enters the channel.                            *)
AnnounceCapture(g) ==
  /\ Captures!Announce(g)
  /\ Room
  /\ sink' = Append(sink, StoppedEvent(device[g]))
  /\ UNCHANGED <<shellVars, device, pc>>

(* capture_runs.register(serial, task_id).                                 *)
RegisterRun(g) ==
  /\ Goto(g, "RegisterRun", "Over")
  /\ runs' = [runs EXCEPT ![device[g]] = task[g]]
  /\ UNCHANGED <<slotVars, inner, next, sink, sending, shown, task, snap, device, dispatcher>>

-----------------------------------------------------------------------------
(* The dispatcher, the one receiver of the channel.                        *)

(* A summary replaces the client's table.                                  *)
DispatchSummary ==
  /\ dispatcher = AtRecv
  /\ sink # <<>> /\ Head(sink).kind = "summary"
  /\ shown' = Head(sink).tasks
  /\ sink' = Tail(sink)
  /\ UNCHANGED <<slotVars, inner, next, runs, sending, ownerVars, dispatcher>>

(* Mutant: the entry is read and left in the map.                          *)
TakeRunKeeps(s) ==
  /\ dispatcher' = IF runs[s] = 0 THEN AtRecv ELSE [at |-> "SetDone", task |-> runs[s]]
  /\ UNCHANGED runs

(* capture_runs::finish: take the device's task, if it has one.            *)
TakeRun(s) ==
  /\ dispatcher' = IF runs[s] = 0 THEN AtRecv ELSE [at |-> "SetDone", task |-> runs[s]]
  /\ runs' = [runs EXCEPT ![s] = 0]

DispatchStopped ==
  /\ dispatcher = AtRecv
  /\ sink # <<>> /\ Head(sink).kind = "stopped"
  /\ TakeRun(Head(sink).serial)
  /\ sink' = Tail(sink)
  /\ UNCHANGED <<slotVars, inner, next, sending, shown, ownerVars>>

DispatcherSetsDone ==
  /\ dispatcher.at = "SetDone"
  /\ SetDone(dispatcher.task)
  /\ dispatcher' = [dispatcher EXCEPT !.at = "EmitFinish"]
  /\ UNCHANGED <<slotVars, next, runs, sink, sending, shown, ownerVars>>

DispatcherEmits ==
  /\ dispatcher.at = "EmitFinish"
  /\ EmitFinish(dispatcher.task)
  /\ dispatcher' = AtRecv
  /\ UNCHANGED <<slotVars, inner, next, runs, shown, ownerVars>>

-----------------------------------------------------------------------------
Init ==
  /\ Captures!Init
  /\ inner = NoTable
  /\ next = 1
  /\ runs = [s \in Serials |-> 0]
  /\ sink = <<>>
  /\ sending = [id \in Id |-> NoTable]
  /\ shown = NoTable
  /\ pc = [o \in Owners |-> "Idle"]
  /\ task = [o \in Owners |-> 0]
  /\ snap = [o \in Owners |-> NoTable]
  /\ device = [g \in Gen |-> "none"]
  /\ dispatcher = AtRecv

CaptureStep(s) ==
  \/ OpenCapture(s) \/ CaptureLive(s) \/ CloseCapture(s) \/ DropCapture(s)

OwnerStep(o) ==
  \/ Insert(o) \/ Snapshot(o) \/ EmitLossy(o)

DispatcherStep ==
  \/ DispatchSummary \/ DispatchStopped \/ DispatcherSetsDone \/ DispatcherEmits

Next ==
  \/ \E s \in Serials : CaptureStep(s)
  \/ \E g \in Gen : AnnounceCapture(g) \/ RegisterRun(g)
  \/ \E j \in Jobs : StartJob(j) \/ JobEnds(j) \/ JobEmits(j)
  \/ \E o \in Owners : OwnerStep(o)
  \/ \E id \in Id : SpawnedSend(id)
  \/ DispatcherStep

(* tokio runs every ready task. A job may run for ever; captures are       *)
(* opened and closed as users and devices like.                            *)
Fairness ==
  /\ \A o \in Owners : WF_vars(OwnerStep(o))
  /\ \A g \in Gen : WF_vars(RegisterRun(g))
  /\ \A j \in Jobs : WF_vars(JobEmits(j))
  /\ \A id \in Id : WF_vars(SpawnedSend(id))
  /\ WF_vars(DispatcherStep)

Spec == Init /\ [][Next]_vars

FairSpec == Spec /\ Fairness
-----------------------------------------------------------------------------
(* Properties                                                               *)

TypeOK ==
  /\ inner \in Table
  /\ next \in 1 .. MaxTask + 1
  /\ runs \in [Serials -> 0 .. MaxTask]
  /\ sink \in Seq(Event) /\ Len(sink) <= EventCap
  /\ sending \in [Id -> Table]
  /\ shown \in Table
  /\ pc \in [Owners -> OwnerPcs]
  /\ task \in [Owners -> 0 .. MaxTask]
  /\ snap \in [Owners -> Table]
  /\ device \in [Gen -> Serials \cup {"none"}]
  /\ dispatcher \in [at : {"Recv", "SetDone", "EmitFinish"}, task : 0 .. MaxTask]

(* A task that can still be finished has not been: what a device maps to   *)
(* is active, no two devices map to one task, and the task the dispatcher  *)
(* has in hand is mapped by none, so no task is finished twice.            *)
FinishedOnce ==
  /\ \A s \in Serials : runs[s] # 0 =>
       /\ inner[runs[s]] = "active"
       /\ \A r \in Serials : runs[r] = runs[s] => r = s
       /\ dispatcher.task # runs[s]
  /\ dispatcher.at = "SetDone" => inner[dispatcher.task] = "active"

(* The final summary of a task is delivered: from the moment a task is     *)
(* made inactive its end gets to the client, though the dispatcher, which  *)
(* finishes the tasks of captures, is also the only reader of the channel  *)
(* the summary goes through.                                               *)
Finishing(id) ==
  \/ dispatcher.at = "EmitFinish" /\ dispatcher.task = id
  \/ \E j \in Jobs : pc[j] = "EmitFinish" /\ task[j] = id

FinishIsShown == \A id \in Id : Finishing(id) ~> shown[id] = "done"

(* Nothing on its way to the client.                                       *)
Quiet ==
  /\ sink = <<>>
  /\ \A id \in Id : sending[id] = NoTable
  /\ dispatcher = AtRecv
  /\ \A o \in Owners : pc[o] \in {"Idle", "Starting", "Running", "Over"}

(* A client that believes the pushes alone shows every finished task as    *)
(* finished when nothing is on its way any more.                           *)
ShownAtRest ==
  Quiet => \A id \in Id : inner[id] = "done" => shown[id] = "done"

(* The Stopped of a capture closes the task of that capture: a task is     *)
(* done only when its capture is gone.                                     *)
TaskEndsWithItsCapture ==
  \A g \in Gen :
    task[g] # 0 /\ inner[task[g]] = "done" => Captures!Gone(g)
=============================================================================
