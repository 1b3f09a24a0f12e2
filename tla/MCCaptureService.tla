-------------------------- MODULE MCCaptureService --------------------------
(***************************************************************************)
(* CaptureService on two small instances. One has three tasks, a service   *)
(* whose joins may time out and no fairness: it is for the safety of the   *)
(* slot. `Calls` has two tasks, no timeouts and fair scheduling: it is for *)
(* what must happen in the end. They share no variable: `focus` picks the  *)
(* one that moves, the other stays in its initial state.                   *)
(***************************************************************************)
EXTENDS CaptureService, TLC

CONSTANT FairTasks

(* The tasks are interchangeable. Those of `Calls` are others and are left *)
(* alone: no state a temporal property looks at, all of them initial as    *)
(* far as the first instance goes, is merged with another one.             *)
ASSUME FairAssumption == FairTasks \cap Tasks = {}

TaskSymmetry == Permutations(Tasks)

VARIABLES
  focus,
  fairCaptures, fair_last_generation, fair_next_generation, fairCancelled, fair_root_cancelled,
  fairRing, fairWorker, fairSink, fairReceived, fairCall, fairPc

Calls == INSTANCE CaptureService WITH
           Tasks <- FairTasks, JoinTimesOut <- FALSE,
           captures <- fairCaptures, last_generation <- fair_last_generation,
           next_generation <- fair_next_generation, cancelled <- fairCancelled,
           root_cancelled <- fair_root_cancelled, ring <- fairRing, worker <- fairWorker,
           sink <- fairSink, received <- fairReceived, call <- fairCall, pc <- fairPc

ASSUME CallsAssumption == Calls!ServiceAssumption

fairVars == <<fairCaptures, fair_last_generation, fair_next_generation, fairCancelled,
              fair_root_cancelled, fairRing, fairWorker, fairSink, fairReceived, fairCall, fairPc>>

MCInit == focus \in {"slot", "calls"} /\ Init /\ Calls!Init

MCNext ==
  /\ UNCHANGED focus
  /\ \/ focus = "slot" /\ Next /\ UNCHANGED fairVars
     \/ focus = "calls" /\ Calls!Next /\ UNCHANGED vars

(* The fairness of CaptureService, while the calls are what moves.         *)
MCFairness ==
  /\ \A t \in FairTasks : /\ WF_fairVars(focus = "calls" /\ Calls!StartStep(t))
                          /\ WF_fairVars(focus = "calls" /\ Calls!StopStep(t))
  /\ \A g \in Gen : /\ WF_fairVars(focus = "calls" /\ Calls!WorkerCancelled(g))
                    /\ WF_fairVars(focus = "calls" /\ Calls!Release(g))
                    /\ WF_fairVars(focus = "calls" /\ Calls!WorkerSend(g))
  /\ WF_fairVars(focus = "calls" /\ Calls!Deliver)

MCSpec == MCInit /\ [][MCNext]_<<focus, vars, fairVars>> /\ MCFairness
-----------------------------------------------------------------------------
(* The fair instance: no call sleeps through its wakeup, no two wait for   *)
(* each other, and the Stopped of every ended generation is delivered.     *)
FairCallsReturn == Calls!CallsReturn
FairStopIsDelivered == Calls!EveryStopIsDelivered
=============================================================================
