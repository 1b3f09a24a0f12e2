------------------------------- MODULE GroupRun -------------------------------
(***************************************************************************)
(* One run of a command group or block (yohu-domain command/executor.rs,   *)
(* yohu-adbtools group_runs.rs): the devices work in parallel, the steps   *)
(* of a device one after the other. Each step sends its progress through a *)
(* channel of the run to a forwarder, which passes it on to the client as  *)
(* long as that one has room. The run is over when the forwarder is.       *)
(***************************************************************************)
EXTENDS Integers, Sequences

CONSTANTS
  Devices,
  Steps,    (* steps of the group                                          *)
  EventCap, (* GROUP_EVENT_CHANNEL_CAP                                     *)
  SinkCap   (* events the channel to the client holds                      *)

GroupAssumption == Steps \in Nat \ {0} /\ EventCap \in Nat \ {0} /\ SinkCap \in Nat \ {0}

VARIABLES
  run,        (* Idle, Running, Forwarding, Finished                       *)
  registered, (* its token is in GroupRuns, and it has a task              *)
  cancelled,
  step, pc,   (* run_for_device: index of the step, and what it is doing   *)
  senders,    (* devices and run_group whose sender is alive               *)
  progress,   (* channel of the run                                        *)
  forwarding, (* the forwarder is alive                                    *)
  sink        (* events on their way to the client                         *)

vars == <<run, registered, cancelled, step, pc, senders, progress, forwarding, sink>>
deviceVars == <<step, pc>>
channelVars == <<senders, progress, forwarding, sink>>

Init ==
  /\ run = "Idle" /\ registered = FALSE /\ cancelled = FALSE
  /\ step = [d \in Devices |-> 1] /\ pc = [d \in Devices |-> "Idle"]
  /\ senders = {} /\ progress = <<>> /\ forwarding = FALSE /\ sink = 0
-----------------------------------------------------------------------------
(* spawn: the token is allocated and the task registered; then the         *)
(* forwarder and a task for each device. The executor keeps a sender of    *)
(* its own for as long as it waits for them.                               *)
Start ==
  /\ run = "Idle"
  /\ run' = "Running" /\ registered' = TRUE
  /\ pc' = [d \in Devices |-> "Check"]
  /\ senders' = Devices \cup {"executor"} /\ forwarding' = TRUE
  /\ UNCHANGED <<cancelled, step, progress, sink>>

(* A run that has been released is not found any more.                     *)
Cancel ==
  /\ registered /\ ~cancelled
  /\ cancelled' = TRUE
  /\ UNCHANGED <<run, registered, deviceVars, channelVars>>

(* A task that returns drops its sender.                                   *)
Return(d) ==
  /\ pc' = [pc EXCEPT ![d] = "Returned"]
  /\ senders' = senders \ {d}
  /\ UNCHANGED <<step, progress>>

Check(d) ==
  /\ pc[d] = "Check"
  /\ \/ (cancelled \/ step[d] > Steps) /\ Return(d)
     \/ /\ ~cancelled /\ step[d] <= Steps
        /\ pc' = [pc EXCEPT ![d] = "Command"]
        /\ UNCHANGED <<step, senders, progress>>
  /\ UNCHANGED <<run, registered, cancelled, forwarding, sink>>

(* run_command: an answer, a fault, or a cancelled command, they all are   *)
(* progress (external: the runner comes back, by its own timeout).         *)
Command(d) ==
  /\ pc[d] = "Command"
  /\ pc' = [pc EXCEPT ![d] = "Send"]
  /\ UNCHANGED <<run, registered, cancelled, step, channelVars>>

(* The send waits for room; it fails when there is no forwarder.           *)
Send(d) ==
  /\ pc[d] = "Send"
  /\ \/ ~forwarding /\ Return(d)
     \/ /\ forwarding /\ Len(progress) < EventCap
        /\ progress' = Append(progress, [device |-> d, step |-> step[d]])
        /\ pc' = [pc EXCEPT ![d] = "Gap"]
        /\ UNCHANGED <<step, senders>>
  /\ UNCHANGED <<run, registered, cancelled, forwarding, sink>>

(* wait_gap: the last step has none.                                       *)
Gap(d) ==
  /\ pc[d] = "Gap"
  /\ \/ cancelled /\ step[d] < Steps /\ Return(d)
     \/ /\ pc' = [pc EXCEPT ![d] = "Check"]
        /\ step' = [step EXCEPT ![d] = @ + 1]
        /\ UNCHANGED <<senders, progress>>
  /\ UNCHANGED <<run, registered, cancelled, forwarding, sink>>

(* Mutant: the channel is kept open by the run itself.                     *)
KeepSender == senders

DropSender == senders \ {"executor"}

Join ==
  /\ run = "Running" /\ \A d \in Devices : pc[d] = "Returned"
  /\ run' = "Forwarding" /\ senders' = DropSender
  /\ UNCHANGED <<registered, cancelled, deviceVars, progress, forwarding, sink>>

(* The forwarder does not wait for the client: what finds no room is lost. *)
Forward ==
  /\ forwarding
  /\ \/ /\ progress # <<>>
        /\ progress' = Tail(progress)
        /\ sink' = IF sink < SinkCap THEN sink + 1 ELSE sink
        /\ UNCHANGED forwarding
     \/ /\ progress = <<>> /\ senders = {}
        /\ forwarding' = FALSE
        /\ UNCHANGED <<progress, sink>>
  /\ UNCHANGED <<run, registered, cancelled, deviceVars, senders>>

(* release, and the task is finished.                                      *)
Finish ==
  /\ run = "Forwarding" /\ ~forwarding
  /\ run' = "Finished" /\ registered' = FALSE
  /\ UNCHANGED <<cancelled, deviceVars, channelVars>>

Drain ==
  /\ sink > 0
  /\ sink' = sink - 1
  /\ UNCHANGED <<run, registered, cancelled, deviceVars, senders, progress, forwarding>>

DeviceStep(d) == Check(d) \/ Command(d) \/ Send(d) \/ Gap(d)
RunStep == Join \/ Forward \/ Finish

Next == Start \/ Cancel \/ RunStep \/ Drain \/ \E d \in Devices : DeviceStep(d)

Spec == Init /\ [][Next]_vars /\ WF_vars(RunStep) /\ \A d \in Devices : WF_vars(DeviceStep(d))
-----------------------------------------------------------------------------
(* Every variable has its type.                                            *)
TypeOK ==
  /\ run \in {"Idle", "Running", "Forwarding", "Finished"}
  /\ registered \in BOOLEAN /\ cancelled \in BOOLEAN /\ forwarding \in BOOLEAN
  /\ step \in [Devices -> 1 .. Steps + 1]
  /\ pc \in [Devices -> {"Idle", "Check", "Command", "Send", "Gap", "Returned"}]
  /\ senders \subseteq Devices \cup {"executor"}
  /\ Len(progress) <= EventCap /\ sink \in 0 .. SinkCap

(* A run ends, and its task leaves the task center, even if the client     *)
(* takes none of its progress (no fairness of Drain): the devices wait for *)
(* the forwarder only, and that one for nobody; and it ends itself,        *)
(* because the last sender is dropped when the devices have returned       *)
(* (group_runs::spawn, GroupExecutor::run).                                *)
RunEnds == registered ~> ~registered
=============================================================================
