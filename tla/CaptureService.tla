--------------------------- MODULE CaptureService ---------------------------
(***************************************************************************)
(* The per-device capture slot of yohu-logsrv (capture.rs): concurrent     *)
(* start / stop / detach calls, the follow worker each generation owns,    *)
(* the Notify every waiting call sleeps on and the bounded event channel   *)
(* the control-plane CaptureState events go through.                       *)
(*                                                                         *)
(* One action per stretch of code between two points where another task    *)
(* can run: a lock section of `inner`, a send().await on the sink, the     *)
(* await of a Notify or of a JoinHandle.                                   *)
(***************************************************************************)
EXTENDS Integers, Sequences, FiniteSets

CONSTANTS
  Serials,      (* device serials                                          *)
  Tasks,        (* tasks that run the IPC handlers of start/stop/detach    *)
  MaxGen,       (* bound: generations handed out in one behaviour          *)
  SinkCap,      (* capacity of the event channel                           *)
  JoinTimesOut  (* may STOP_JOIN (3 s) run out before a worker has ended?  *)

ASSUME ServiceAssumption ==
  /\ MaxGen \in Nat \ {0}
  /\ SinkCap \in Nat \ {0}
  /\ JoinTimesOut \in BOOLEAN

VARIABLES
  captures,        (* inner.captures: the slot of each device              *)
  last_generation, (* inner.last_generation, 0 when the map has no entry   *)
  next_generation, (* inner.next_generation                                *)
  cancelled,       (* generations whose slot token has been cancelled      *)
  root_cancelled,  (* the application's root token                         *)
  ring,            (* generations whose lines the device's ring holds      *)
  worker,          (* the follow worker of each generation                 *)
  sink,            (* the event channel, oldest first                      *)
  received,        (* generations whose Stopped the client has received    *)
  call,            (* the call each task is executing                      *)
  pc               (* where in it the task stands                          *)

slotVars == <<captures, last_generation, next_generation>>
tokenVars == <<cancelled, root_cancelled>>
eventVars == <<sink, received>>
vars == <<slotVars, tokenVars, ring, worker, sink, received, call, pc>>

Gen == 1 .. MaxGen

Phases == {"Starting", "Live", "Stopping"}

Empty == [phase |-> "Empty", generation |-> 0, handles |-> FALSE]

Slot == [phase : Phases, generation : Gen, handles : BOOLEAN] \cup {Empty}

NoCall == [op |-> "none", serial |-> "none", generation |-> 0]

Call == [op : {"start", "stop", "detach"}, serial : Serials,
         generation : 0 .. MaxGen] \cup {NoCall}

UndecidedPcs == {"DecideStart", "RecheckStart", "WaitStart"}

StartPcs == UndecidedPcs \cup
            {"ClearDevice", "CheckCancel", "AbandonStart", "SendAbandoned",
             "ClearRing", "SendRunning", "SpawnWorker", "Publish", "JoinOwn"}

StopPcs == {"DecideStop", "RecheckStop", "WaitStop", "JoinWorkers",
            "RemoveSlot", "SendStopped"}

Pcs == {"Idle"} \cup StartPcs \cup StopPcs \cup {"ClearAfterStop"}

NoWorker == [state |-> "none", serial |-> "none"]

Worker == [state : {"following", "offline", "releasing", "ended"},
           serial : Serials] \cup {NoWorker}

Event == [serial : Serials, generation : Gen, state : {"Running", "Stopped"}]

-----------------------------------------------------------------------------
(* The small predicates of capture.rs.                                     *)

phase_occupies(phase) == phase \in {"Starting", "Live"}

(* Where both start and stop wait, and what they recheck before sleeping.  *)
StartMustWait(s) == captures[s].phase \in {"Starting", "Stopping"}
StopMustWait(s) == captures[s].phase = "Stopping"

Holds(s, g, phases) ==
  captures[s].generation = g /\ captures[s].phase \in phases

(* A slot token is a child of the root token.                              *)
Cancelled(g) == root_cancelled \/ g \in cancelled

(* status(serial).generation, the generation a client reconciles with.     *)
StatusGeneration(s) ==
  IF captures[s] # Empty THEN captures[s].generation ELSE last_generation[s]

(* Mutant: the generation is forgotten with the slot.                      *)
Forget(s) ==
  /\ captures' = [captures EXCEPT ![s] = Empty]
  /\ UNCHANGED <<last_generation, next_generation>>

remember_and_remove(s) ==
  /\ captures' = [captures EXCEPT ![s] = Empty]
  /\ last_generation' = [last_generation EXCEPT ![s] = captures[s].generation]
  /\ UNCHANGED next_generation

(* Mutant: a channel without a bound.                                      *)
SendUnbounded(s, g, state) ==
  /\ sink' = Append(sink, [serial |-> s, generation |-> g, state |-> state])
  /\ UNCHANGED received

(* send().await: enabled while the channel has room. A sender that found   *)
(* the channel full may be overtaken by one that came later: the permit is *)
(* handed to the sleeper, the message is pushed when it is polled again.   *)
Send(s, g, state) ==
  /\ Len(sink) < SinkCap
  /\ sink' = Append(sink, [serial |-> s, generation |-> g, state |-> state])
  /\ UNCHANGED received

Goto(t, from, to) ==
  /\ pc[t] = from
  /\ pc' = [pc EXCEPT ![t] = to]

(* pc after task t goes from -> to and notify_waiters wakes every sleeper. *)
(* A Notified future counts as a sleeper from its creation, which precedes *)
(* the recheck: a wakeup between the two only repeats the decision.        *)
Awake == [u \in Tasks |->
            CASE pc[u] = "WaitStart" -> "DecideStart"
              [] pc[u] = "WaitStop"  -> "DecideStop"
              [] OTHER -> pc[u]]

GotoAndNotify(t, from, to) ==
  /\ pc[t] = from
  /\ pc' = [Awake EXCEPT ![t] = to]

Serial(t) == call[t].serial
Generation(t) == call[t].generation

Return(t, from) ==
  /\ Goto(t, from, "Idle")
  /\ call' = [call EXCEPT ![t] = NoCall]

ReturnAndNotify(t, from) ==
  /\ GotoAndNotify(t, from, "Idle")
  /\ call' = [call EXCEPT ![t] = NoCall]

-----------------------------------------------------------------------------
(* start                                                                    *)

(* Bound: no more calls than there are generations left to hand out.       *)
CallStart(t, s) ==
  /\ next_generation + Cardinality({u \in Tasks : pc[u] \in UndecidedPcs}) < MaxGen
  /\ Goto(t, "Idle", "DecideStart")
  /\ call' = [call EXCEPT ![t] = [op |-> "start", serial |-> s, generation |-> 0]]
  /\ UNCHANGED <<slotVars, tokenVars, ring, worker, eventVars>>

(* decide_start, StartDecision::Adopt: only a Live slot is adopted.        *)
Adopt(t) ==
  /\ Return(t, "DecideStart")
  /\ captures[Serial(t)].phase = "Live"
  /\ UNCHANGED <<slotVars, tokenVars, ring, worker, eventVars>>

(* decide_start, StartDecision::Wait.                                      *)
DecideWait(t) ==
  /\ Goto(t, "DecideStart", "RecheckStart")
  /\ StartMustWait(Serial(t))
  /\ UNCHANGED <<slotVars, tokenVars, ring, worker, eventVars, call>>

(* decide_start, StartDecision::Begin, and the notify_waiters after it.    *)
(* The caller's clear_device flag picks where it goes next.                *)
Begin(t) ==
  LET g == next_generation + 1 IN
  /\ \E to \in {"ClearDevice", "CheckCancel"} :
       GotoAndNotify(t, "DecideStart", to)
  /\ captures[Serial(t)] = Empty
  /\ g \in Gen
  /\ next_generation' = g
  /\ captures' = [captures EXCEPT ![Serial(t)] =
                    [phase |-> "Starting", generation |-> g, handles |-> FALSE]]
  /\ call' = [call EXCEPT ![t].generation = g]
  /\ UNCHANGED <<last_generation, tokenVars, ring, worker, eventVars>>

(* Mutant: sleep without rechecking the slot.                              *)
SleepUnchecked(t) ==
  /\ Goto(t, "RecheckStart", "WaitStart")
  /\ UNCHANGED <<slotVars, tokenVars, ring, worker, eventVars, call>>

(* changed.notified(), start_must_wait, notified.await.                    *)
RecheckStart(t) ==
  /\ Goto(t, "RecheckStart",
          IF StartMustWait(Serial(t)) THEN "WaitStart" ELSE "DecideStart")
  /\ UNCHANGED <<slotVars, tokenVars, ring, worker, eventVars, call>>

(* Mutant: the error of clear_log is returned without abandon_starting.    *)
ClearDeviceForgets(t) ==
  \/ /\ Goto(t, "ClearDevice", "CheckCancel")
     /\ UNCHANGED <<slotVars, tokenVars, ring, worker, eventVars, call>>
  \/ /\ Return(t, "ClearDevice")
     /\ UNCHANGED <<slotVars, tokenVars, ring, worker, eventVars>>

(* adb.clear_log(serial, cancel): success, or an error (the token was      *)
(* cancelled, the transport failed) that gives the slot up.                *)
ClearDevice(t) ==
  /\ \E to \in {"CheckCancel", "AbandonStart"} : Goto(t, "ClearDevice", to)
  /\ UNCHANGED <<slotVars, tokenVars, ring, worker, eventVars, call>>

CheckCancel(t) ==
  /\ Goto(t, "CheckCancel",
          IF Cancelled(Generation(t)) THEN "AbandonStart" ELSE "ClearRing")
  /\ UNCHANGED <<slotVars, tokenVars, ring, worker, eventVars, call>>

(* Mutant: Stopped is published whether or not the slot was still ours.    *)
AbandonAlways(t) ==
  /\ Goto(t, "AbandonStart", "SendAbandoned")
  /\ IF Holds(Serial(t), Generation(t), {"Starting"})
     THEN remember_and_remove(Serial(t)) ELSE UNCHANGED slotVars
  /\ UNCHANGED <<tokenVars, ring, worker, eventVars, call>>

(* Mutant: the slot is dropped and nobody is told.                         *)
AbandonQuietly(t) ==
  /\ Return(t, "AbandonStart")
  /\ IF Holds(Serial(t), Generation(t), {"Starting"})
     THEN remember_and_remove(Serial(t)) ELSE UNCHANGED slotVars
  /\ UNCHANGED <<tokenVars, ring, worker, eventVars>>

(* abandon_starting, its lock section.                                     *)
AbandonStart(t) ==
  \/ /\ Goto(t, "AbandonStart", "SendAbandoned")
     /\ Holds(Serial(t), Generation(t), {"Starting"})
     /\ remember_and_remove(Serial(t))
     /\ UNCHANGED <<tokenVars, ring, worker, eventVars, call>>
  \/ /\ Return(t, "AbandonStart")
     /\ ~ Holds(Serial(t), Generation(t), {"Starting"})
     /\ UNCHANGED <<slotVars, tokenVars, ring, worker, eventVars>>

(* abandon_starting, publish_stopped and notify_waiters.                   *)
SendAbandoned(t) ==
  /\ ReturnAndNotify(t, "SendAbandoned")
  /\ Send(Serial(t), Generation(t), "Stopped")
  /\ UNCHANGED <<slotVars, tokenVars, ring, worker>>

(* ring.clear(), windows.clear_serial(), Batcher::spawn.                   *)
ClearRing(t) ==
  /\ Goto(t, "ClearRing", "SendRunning")
  /\ ring' = [ring EXCEPT ![Serial(t)] = {}]
  /\ UNCHANGED <<slotVars, tokenVars, worker, eventVars, call>>

SendRunning(t) ==
  /\ Goto(t, "SendRunning", "SpawnWorker")
  /\ Send(Serial(t), Generation(t), "Running")
  /\ UNCHANGED <<slotVars, tokenVars, ring, worker, call>>

(* The second cancel check, then tokio::spawn(supervise_follow).           *)
SpawnWorker(t) ==
  \/ /\ Goto(t, "SpawnWorker", "AbandonStart")
     /\ Cancelled(Generation(t))
     /\ UNCHANGED <<slotVars, tokenVars, ring, worker, eventVars, call>>
  \/ /\ Goto(t, "SpawnWorker", "Publish")
     /\ ~ Cancelled(Generation(t))
     /\ worker' = [worker EXCEPT ![Generation(t)] =
                    [state |-> "following", serial |-> Serial(t)]]
     /\ UNCHANGED <<slotVars, tokenVars, ring, eventVars, call>>

(* Mutant: Live whenever the generation matches, its phase unchecked.      *)
PublishUnchecked(t) ==
  /\ ReturnAndNotify(t, "Publish")
  /\ IF Generation(t) = captures[Serial(t)].generation
     THEN captures' = [captures EXCEPT ![Serial(t)] =
            [phase |-> "Live", generation |-> Generation(t), handles |-> TRUE]]
     ELSE UNCHANGED captures
  /\ UNCHANGED <<last_generation, next_generation, tokenVars, ring, worker, eventVars>>

(* The lock section that makes the slot Live, or finds it gone.            *)
Publish(t) ==
  \/ /\ ReturnAndNotify(t, "Publish")
     /\ Holds(Serial(t), Generation(t), {"Starting"})
     /\ captures' = [captures EXCEPT ![Serial(t)] =
          [phase |-> "Live", generation |-> Generation(t), handles |-> TRUE]]
     /\ UNCHANGED <<last_generation, next_generation, tokenVars, ring, worker, eventVars>>
  \/ /\ Goto(t, "Publish", "JoinOwn")
     /\ ~ Holds(Serial(t), Generation(t), {"Starting"})
     /\ cancelled' = cancelled \cup {Generation(t)}
     /\ UNCHANGED <<slotVars, root_cancelled, ring, worker, eventVars, call>>

(* join_or_abort: the worker has ended, or STOP_JOIN runs out and it is    *)
(* aborted at the await it stands at: the adb process that is slow to die, *)
(* the line pump that is slow to drain, a send into a full channel.        *)
JoinOrAbort(g) ==
  \/ worker[g].state = "ended" /\ UNCHANGED worker
  \/ /\ JoinTimesOut
     /\ \/ worker[g].state \in {"following", "offline"}
        \/ worker[g].state = "releasing" /\ Len(sink) = SinkCap
     /\ worker' = [worker EXCEPT ![g].state = "ended"]

JoinOwn(t) ==
  /\ Return(t, "JoinOwn")
  /\ JoinOrAbort(Generation(t))
  /\ UNCHANGED <<slotVars, tokenVars, ring, eventVars>>

-----------------------------------------------------------------------------
(* stop, and detach_device = stop followed by clear                        *)

CallStop(t, s) ==
  /\ Goto(t, "Idle", "DecideStop")
  /\ \E op \in {"stop", "detach"} :
       call' = [call EXCEPT ![t] = [op |-> op, serial |-> s, generation |-> 0]]
  /\ UNCHANGED <<slotVars, tokenVars, ring, worker, eventVars>>

(* Where stop goes when it is over: detach_device still has to clear.      *)
AfterStop(t) == IF call[t].op = "detach" THEN "ClearAfterStop" ELSE "Idle"

EndStop(t) ==
  call' = IF call[t].op = "detach" THEN call ELSE [call EXCEPT ![t] = NoCall]

NothingToStop(t) ==
  /\ Goto(t, "DecideStop", AfterStop(t))
  /\ captures[Serial(t)] = Empty
  /\ EndStop(t)
  /\ UNCHANGED <<slotVars, tokenVars, ring, worker, eventVars>>

DecideStop(t) ==
  /\ Goto(t, "DecideStop", "RecheckStop")
  /\ StopMustWait(Serial(t))
  /\ UNCHANGED <<slotVars, tokenVars, ring, worker, eventVars, call>>

(* Mutant: the token of the slot is left alone.                            *)
TakeSlotUncancelled(t) ==
  LET slot == captures[Serial(t)] IN
  /\ GotoAndNotify(t, "DecideStop",
                   IF slot.handles THEN "JoinWorkers" ELSE "RemoveSlot")
  /\ phase_occupies(slot.phase)
  /\ captures' = [captures EXCEPT ![Serial(t)] =
       [phase |-> "Stopping", generation |-> slot.generation, handles |-> FALSE]]
  /\ call' = [call EXCEPT ![t].generation = slot.generation]
  /\ UNCHANGED <<last_generation, next_generation, tokenVars, ring, worker, eventVars>>

(* The lock section that makes the slot Stopping, cancels its token and    *)
(* takes the handles, and the notify_waiters after it. A Starting slot has *)
(* no handles yet: there is nothing to join.                               *)
TakeSlot(t) ==
  LET slot == captures[Serial(t)] IN
  /\ GotoAndNotify(t, "DecideStop",
                   IF slot.handles THEN "JoinWorkers" ELSE "RemoveSlot")
  /\ phase_occupies(slot.phase)
  /\ captures' = [captures EXCEPT ![Serial(t)] =
       [phase |-> "Stopping", generation |-> slot.generation, handles |-> FALSE]]
  /\ cancelled' = cancelled \cup {slot.generation}
  /\ call' = [call EXCEPT ![t].generation = slot.generation]
  /\ UNCHANGED <<last_generation, next_generation, root_cancelled, ring, worker, eventVars>>

RecheckStop(t) ==
  /\ Goto(t, "RecheckStop",
          IF StopMustWait(Serial(t)) THEN "WaitStop" ELSE "DecideStop")
  /\ UNCHANGED <<slotVars, tokenVars, ring, worker, eventVars, call>>

JoinWorkers(t) ==
  /\ Goto(t, "JoinWorkers", "RemoveSlot")
  /\ JoinOrAbort(Generation(t))
  /\ UNCHANGED <<slotVars, tokenVars, ring, eventVars, call>>

(* The lock section that removes the slot if it is still the one taken.    *)
(* Otherwise the Stopped is dropped and stop ends.                         *)
RemoveSlot(t) ==
  /\ pc[t] = "RemoveSlot"
  /\ IF Holds(Serial(t), Generation(t), {"Stopping"})
     THEN /\ remember_and_remove(Serial(t))
          /\ Goto(t, "RemoveSlot", "SendStopped")
          /\ UNCHANGED call
     ELSE /\ GotoAndNotify(t, "RemoveSlot", AfterStop(t))
          /\ EndStop(t)
          /\ UNCHANGED slotVars
  /\ UNCHANGED <<tokenVars, ring, worker, eventVars>>

(* publish_stopped and the last notify_waiters of stop.                    *)
SendStopped(t) ==
  /\ GotoAndNotify(t, "SendStopped", AfterStop(t))
  /\ Send(Serial(t), Generation(t), "Stopped")
  /\ EndStop(t)
  /\ UNCHANGED <<slotVars, tokenVars, ring, worker>>

(* clear(serial), the second half of detach_device.                        *)
ClearAfterStop(t) ==
  /\ Return(t, "ClearAfterStop")
  /\ ring' = [ring EXCEPT ![Serial(t)] = {}]
  /\ UNCHANGED <<slotVars, tokenVars, worker, eventVars>>

-----------------------------------------------------------------------------
(* The follow worker (supervise_follow) of generation g.                   *)

(* A line the worker's pump admits. It may come after the token is         *)
(* cancelled: the worker ends only when it sees the cancellation.          *)
(* FollowEnd::Exited and Error restart the attempt in place: the worker    *)
(* stays "following" and neither the slot nor the ring is touched.         *)
WorkerLine(g) ==
  /\ worker[g].state = "following"
  /\ ring' = [ring EXCEPT ![worker[g].serial] = @ \cup {g}]
  /\ UNCHANGED <<slotVars, tokenVars, worker, eventVars, call, pc>>

(* FollowEnd::Cancelled.                                                   *)
WorkerCancelled(g) ==
  /\ worker[g].state = "following"
  /\ Cancelled(g)
  /\ worker' = [worker EXCEPT ![g].state = "ended"]
  /\ UNCHANGED <<slotVars, tokenVars, ring, eventVars, call, pc>>

(* FollowEnd::Offline, decided while the token is not cancelled.           *)
WorkerOffline(g) ==
  /\ worker[g].state = "following"
  /\ ~ Cancelled(g)
  /\ worker' = [worker EXCEPT ![g].state = "offline"]
  /\ UNCHANGED <<slotVars, tokenVars, ring, eventVars, call, pc>>

(* Mutant: only a Live slot is released; one still Starting is kept.       *)
ReleaseLive(g) ==
  LET s == worker[g].serial IN
  /\ worker[g].state = "offline"
  /\ IF Holds(s, g, {"Live"})
     THEN /\ remember_and_remove(s)
          /\ cancelled' = cancelled \cup {g}
          /\ worker' = [worker EXCEPT ![g].state = "releasing"]
     ELSE /\ worker' = [worker EXCEPT ![g].state = "ended"]
          /\ UNCHANGED <<slotVars, cancelled>>
  /\ UNCHANGED <<root_cancelled, ring, eventVars, call, pc>>

(* release_if_current: its lock section and slot.cancel.cancel().          *)
Release(g) ==
  LET s == worker[g].serial IN
  /\ worker[g].state = "offline"
  /\ \/ /\ Holds(s, g, {"Starting", "Live"})
        /\ remember_and_remove(s)
        /\ cancelled' = cancelled \cup {g}
        /\ worker' = [worker EXCEPT ![g].state = "releasing"]
     \/ /\ ~ Holds(s, g, {"Starting", "Live"})
        /\ worker' = [worker EXCEPT ![g].state = "ended"]
        /\ UNCHANGED <<slotVars, cancelled>>
  /\ UNCHANGED <<root_cancelled, ring, eventVars, call, pc>>

(* release_if_current: publish_stopped, notify_waiters, end of the task.   *)
WorkerSend(g) ==
  /\ worker[g].state = "releasing"
  /\ Send(worker[g].serial, g, "Stopped")
  /\ worker' = [worker EXCEPT ![g].state = "ended"]
  /\ pc' = Awake
  /\ UNCHANGED <<slotVars, tokenVars, ring, call>>

-----------------------------------------------------------------------------
(* The application: the event pump that empties the channel, and exit.     *)

Deliver ==
  /\ sink # <<>>
  /\ sink' = Tail(sink)
  /\ received' = IF Head(sink).state = "Stopped"
                 THEN received \cup {Head(sink).generation} ELSE received
  /\ UNCHANGED <<slotVars, tokenVars, ring, worker, call, pc>>

RootCancel ==
  /\ ~ root_cancelled
  /\ root_cancelled' = TRUE
  /\ UNCHANGED <<slotVars, cancelled, ring, worker, eventVars, call, pc>>

-----------------------------------------------------------------------------
Init ==
  /\ captures = [s \in Serials |-> Empty]
  /\ last_generation = [s \in Serials |-> 0]
  /\ next_generation = 0
  /\ cancelled = {}
  /\ root_cancelled = FALSE
  /\ ring = [s \in Serials |-> {}]
  /\ worker = [g \in Gen |-> NoWorker]
  /\ sink = <<>>
  /\ received = {}
  /\ call = [t \in Tasks |-> NoCall]
  /\ pc = [t \in Tasks |-> "Idle"]

(* What a task does once it has been called; a client need not call.       *)
StartStep(t) ==
  \/ Adopt(t) \/ DecideWait(t) \/ Begin(t) \/ RecheckStart(t)
  \/ ClearDevice(t) \/ CheckCancel(t) \/ AbandonStart(t) \/ SendAbandoned(t)
  \/ ClearRing(t) \/ SendRunning(t) \/ SpawnWorker(t) \/ Publish(t) \/ JoinOwn(t)

StopStep(t) ==
  \/ NothingToStop(t) \/ DecideStop(t) \/ TakeSlot(t) \/ RecheckStop(t)
  \/ JoinWorkers(t) \/ RemoveSlot(t) \/ SendStopped(t) \/ ClearAfterStop(t)

WorkerStep(g) ==
  \/ WorkerLine(g) \/ WorkerCancelled(g) \/ WorkerOffline(g)
  \/ Release(g) \/ WorkerSend(g)

Next ==
  \/ \E t \in Tasks, s \in Serials : CallStart(t, s) \/ CallStop(t, s)
  \/ \E t \in Tasks : StartStep(t) \/ StopStep(t)
  \/ \E g \in Gen : WorkerStep(g)
  \/ Deliver
  \/ RootCancel

(* tokio runs every ready task and the application's event pump never      *)
(* stops receiving. Clients, devices and the user promise nothing.         *)
Fairness ==
  /\ \A t \in Tasks : WF_vars(StartStep(t)) /\ WF_vars(StopStep(t))
  /\ \A g \in Gen : /\ WF_vars(WorkerCancelled(g))
                    /\ WF_vars(Release(g))
                    /\ WF_vars(WorkerSend(g))
  /\ WF_vars(Deliver)

Spec == Init /\ [][Next]_vars

FairSpec == Spec /\ Fairness
-----------------------------------------------------------------------------
(* Properties                                                               *)

TypeOK ==
  /\ captures \in [Serials -> Slot]
  /\ last_generation \in [Serials -> 0 .. MaxGen]
  /\ next_generation \in 0 .. MaxGen
  /\ cancelled \subseteq Gen
  /\ root_cancelled \in BOOLEAN
  /\ ring \in [Serials -> SUBSET Gen]
  /\ worker \in [Gen -> Worker]
  /\ sink \in Seq(Event) /\ Len(sink) <= SinkCap
  /\ received \subseteq Gen
  /\ call \in [Tasks -> Call]
  /\ pc \in [Tasks -> Pcs]

(* The tasks that open, and that close, the slot of generation g on s.     *)
OpenerPcs == {"ClearDevice", "CheckCancel", "AbandonStart", "ClearRing",
              "SendRunning", "SpawnWorker", "Publish"}
CloserPcs == {"JoinWorkers", "RemoveSlot"}

WorksOn(t, s, g, pcs) == pc[t] \in pcs /\ Serial(t) = s /\ Generation(t) = g

(* No slot is left in a transient phase: while a slot is Starting the call *)
(* that opened it is still in start(), while it is Stopping the call that  *)
(* took it is still in stop(); and that call still finds its own slot when *)
(* it comes back from the join, so the branch of stop() that drops a       *)
(* Stopped "superseded by a newer generation" is never taken.              *)
SlotHasItsTask ==
  \A s \in Serials :
    LET g == captures[s].generation IN
    /\ captures[s].phase = "Starting" => \E t \in Tasks : WorksOn(t, s, g, OpenerPcs)
    /\ captures[s].phase = "Stopping" => \E t \in Tasks : WorksOn(t, s, g, CloserPcs)
    /\ \A t \in Tasks :
         pc[t] \in CloserPcs /\ Serial(t) = s => Holds(s, Generation(t), {"Stopping"})

(* A Live slot whose token is not cancelled has a worker that follows the  *)
(* device, or one that has just gone offline and is about to release the   *)
(* slot: status never says "capturing" of a stream nobody reads.           *)
LiveIsFed ==
  \A s \in Serials :
    captures[s].phase = "Live" /\ ~ Cancelled(captures[s].generation)
      => worker[captures[s].generation].state \in {"following", "offline"}

(* At most one worker of a device follows with a token that is not         *)
(* cancelled, across restarts, supersession and late starts.               *)
OneFollower ==
  \A g, h \in Gen :
    /\ g # h
    /\ worker[g].state = "following" /\ worker[h].state = "following"
    /\ worker[g].serial = worker[h].serial
    => Cancelled(g) \/ Cancelled(h)

(* stop(), abandon_starting and release_if_current may all race to end one *)
(* generation: exactly one Stopped of it ever enters the channel.          *)
StoppedIsUnique ==
  \A i \in 1 .. Len(sink) :
    sink[i].state = "Stopped" =>
      /\ sink[i].generation \notin received
      /\ \A j \in 1 .. Len(sink) :
           sink[j].state = "Stopped" /\ sink[j].generation = sink[i].generation => j = i

(* The generation status() reports for a device never goes back, through   *)
(* openings, adoptions and every way a slot ends: a client compares        *)
(* generations and only ever raises its own.                               *)
GenerationOnlyGrows ==
  [][\A s \in Serials : StatusGeneration(s)' >= StatusGeneration(s)]_vars

(* The slots, seen from outside, follow CaptureSlot: the lifecycle of the  *)
(* module header, with one Stopped per generation and never before the     *)
(* slot is gone.                                                           *)
StoppedInSink ==
  {sink[i].generation : i \in {j \in 1 .. Len(sink) : sink[j].state = "Stopped"}}

Abstract == INSTANCE CaptureSlot WITH
  slot <- [s \in Serials |-> [phase |-> captures[s].phase,
                              generation |-> captures[s].generation]],
  issued <- next_generation,
  announced <- received \cup StoppedInSink

AbstractSlot == Abstract!Spec

(* Every call of start, stop or detach returns: no wakeup is lost between  *)
(* a recheck and a sleep, and no two calls wait for each other.            *)
CallsReturn == \A t \in Tasks : pc[t] # "Idle" ~> pc[t] = "Idle"

(* Control-plane delivery: once the slot of a generation is gone, the      *)
(* client receives its Stopped.                                            *)
EveryStopIsDelivered == \A g \in Gen : Abstract!Gone(g) ~> g \in received

(* The ring of a Live device holds only lines of its own stream: a new     *)
(* stream clears the ring before it follows.                               *)
LiveRingIsItsOwn ==
  \A s \in Serials :
    captures[s].phase = "Live" => ring[s] \subseteq {captures[s].generation}
=============================================================================
