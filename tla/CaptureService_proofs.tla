----------------------- MODULE CaptureService_proofs -----------------------
(***************************************************************************)
(* Proofs about CaptureService, for every set of devices and of tasks, any *)
(* number of generations and any channel capacity, with and without joins  *)
(* that run out of time: the types, then the safety properties from an     *)
(* inductive invariant:                                                    *)
(*                                                                         *)
(*   SlotOrder   generations of slots are distinct, issued, and later than *)
(*               the one the device remembers;                             *)
(*   Custody     the Stopped of a generation is in one place: owed by a    *)
(*               call, owed by a worker, in the channel, or received, and  *)
(*               in none while a slot still holds the generation;          *)
(*   Closers     a Stopping slot belongs to exactly one stop().            *)
(*                                                                         *)
(* The steps of a task are first sorted by what they do to the slot and to *)
(* the Stopped (TaskEffects); each invariant then has one case per effect. *)
(* Last, CaptureService implements CaptureSlot: every step opens,          *)
(* publishes, closes or drops one slot, announces one Stopped of a         *)
(* generation whose slot is gone, or changes nothing that can be seen from *)
(* outside.                                                                *)
(***************************************************************************)
EXTENDS CaptureService, TLAPS

(* The calls that own a generation: they opened it or took it to close it. *)
OwnerPcs == OpenerPcs \cup CloserPcs \cup {"SendAbandoned", "JoinOwn", "SendStopped"}

(* A task that is not idle executes a call, and a task that has opened or  *)
(* taken a slot knows its generation.                                      *)
CallOK ==
  \A t \in Tasks :
    /\ pc[t] # "Idle" => call[t].op # "none"
    /\ pc[t] \in OwnerPcs => Generation(t) \in Gen

TInv == TypeOK /\ CallOK

LEMMA AwakeType ==
  ASSUME TypeOK
  PROVE  /\ Awake \in [Tasks -> Pcs]
         /\ \A u \in Tasks : Awake[u] \in OwnerPcs <=> pc[u] \in OwnerPcs
         /\ \A u \in Tasks : Awake[u] \in OwnerPcs => Awake[u] = pc[u]
         /\ \A u \in Tasks : Awake[u] = "Idle" <=> pc[u] = "Idle"
  BY DEF TypeOK, Awake, Pcs, StartPcs, StopPcs, UndecidedPcs, OwnerPcs,
         OpenerPcs, CloserPcs

LEMMA SendType ==
  ASSUME TypeOK, NEW s \in Serials, NEW g \in Gen, NEW state \in {"Running", "Stopped"},
         Send(s, g, state)
  PROVE  /\ sink' \in Seq(Event) /\ Len(sink') <= SinkCap
         /\ received' = received
  BY ServiceAssumption DEF TypeOK, Send, Event

LEMMA InitType == Init => TInv
<1> SUFFICES ASSUME Init PROVE TInv
  OBVIOUS
<1>1. captures \in [Serials -> Slot] /\ worker \in [Gen -> Worker]
  BY DEF Init, Slot, Worker
<1>2. call \in [Tasks -> Call] /\ pc \in [Tasks -> Pcs]
  BY DEF Init, Call, Pcs
<1>3. sink \in Seq(Event) /\ Len(sink) <= SinkCap
  BY ServiceAssumption DEF Init
<1>4. /\ last_generation \in [Serials -> 0 .. MaxGen]
      /\ next_generation \in 0 .. MaxGen
      /\ ring \in [Serials -> SUBSET Gen]
  BY ServiceAssumption DEF Init
<1>5. CallOK
  BY DEF Init, CallOK, OwnerPcs, OpenerPcs, CloserPcs
<1>6. QED
  BY <1>1, <1>2, <1>3, <1>4, <1>5 DEF TInv, TypeOK, Init

LEMMA SlotFields ==
  ASSUME TypeOK, NEW s \in Serials
  PROVE  /\ captures[s].phase \in Phases \cup {"Empty"}
         /\ captures[s].phase # "Empty" => captures[s].generation \in Gen
         /\ captures[s].phase = "Empty" <=> captures[s] = Empty
         /\ captures[s].phase = "Empty" => captures[s].generation = 0
  BY DEF TypeOK, Slot, Phases, Empty

LEMMA CallFields ==
  ASSUME TInv, NEW t \in Tasks, pc[t] # "Idle"
  PROVE  /\ Serial(t) \in Serials
         /\ call[t].op \in {"start", "stop", "detach"}
         /\ Generation(t) \in 0 .. MaxGen
         /\ \A g \in 0 .. MaxGen : [call[t] EXCEPT !.generation = g] \in Call
  BY DEF TInv, TypeOK, CallOK, Call, NoCall, Serial, Generation

LEMMA WorkerFields ==
  ASSUME TypeOK, NEW g \in Gen, worker[g].state # "none",
         NEW state \in {"following", "offline", "releasing", "ended"}
  PROVE  /\ worker[g].serial \in Serials
         /\ [worker[g] EXCEPT !.state = state] \in Worker
  BY DEF TypeOK, Worker, NoWorker

LEMMA JoinType ==
  ASSUME TypeOK, NEW g \in Gen, JoinOrAbort(g)
  PROVE  worker' \in [Gen -> Worker]
<1>1. CASE worker' = worker
  BY <1>1 DEF TypeOK
<1>2. CASE /\ worker[g].state \in {"following", "offline", "releasing"}
           /\ worker' = [worker EXCEPT ![g].state = "ended"]
  <2>1. [worker[g] EXCEPT !.state = "ended"] \in Worker
    BY <1>2, WorkerFields
  <2>2. QED
    BY <1>2, <2>1 DEF TypeOK
<1>3. QED
  BY <1>1, <1>2 DEF JoinOrAbort

LEMMA RemoveType ==
  ASSUME TypeOK, NEW s \in Serials, remember_and_remove(s)
  PROVE  /\ captures' \in [Serials -> Slot]
         /\ last_generation' \in [Serials -> 0 .. MaxGen]
         /\ next_generation' = next_generation
<1>1. Empty \in Slot
  BY DEF Slot
<1>2. captures[s].generation \in 0 .. MaxGen
  BY ServiceAssumption DEF TypeOK, Slot, Empty, Gen
<1>3. QED
  BY <1>1, <1>2 DEF TypeOK, remember_and_remove

LEMMA StartStepType ==
  ASSUME TInv, NEW t \in Tasks, StartStep(t)
  PROVE  TInv'
<1> USE DEF TInv, TypeOK, CallOK, Gen, Slot, Empty, Call, NoCall, Serial, Generation,
        slotVars, tokenVars, eventVars, Goto, Return, GotoAndNotify, ReturnAndNotify
<1> USE DEF Pcs, StartPcs, StopPcs, UndecidedPcs, OwnerPcs, OpenerPcs, CloserPcs
<1>1. CASE Adopt(t)
  BY <1>1 DEF Adopt
<1>2. CASE DecideWait(t)
  BY <1>2 DEF DecideWait
<1>3. CASE Begin(t)
  <2> DEFINE g == next_generation + 1
  <2>1. [phase |-> "Starting", generation |-> g, handles |-> FALSE] \in Slot
    BY <1>3 DEF Begin, Phases
  <2>2. captures' \in [Serials -> Slot]
    BY <1>3, <2>1 DEF Begin
  <2>3. g \in Gen /\ next_generation' \in 0 .. MaxGen
    BY <1>3, ServiceAssumption DEF Begin
  <2>4. call' \in [Tasks -> Call] /\ Generation(t)' = g
    BY <1>3, <2>3, CallFields DEF Begin
  <2>5. \A u \in Tasks : call'[u].op = call[u].op /\ (u # t => call'[u] = call[u])
    BY <1>3 DEF Begin
  <2>6. pc' \in [Tasks -> Pcs]
    BY <1>3, AwakeType DEF Begin
  <2>7. CallOK'
    BY <1>3, <2>3, <2>4, <2>5, AwakeType DEF Begin
  <2>8. QED
    BY <1>3, <2>2, <2>3, <2>4, <2>6, <2>7 DEF Begin
<1>4. CASE RecheckStart(t)
  BY <1>4 DEF RecheckStart
<1>5. CASE ClearDevice(t)
  BY <1>5 DEF ClearDevice
<1>6. CASE CheckCancel(t)
  BY <1>6 DEF CheckCancel
<1>7. CASE AbandonStart(t)
  BY <1>7, CallFields, RemoveType, ZenonT(40) DEF AbandonStart
<1>8. CASE SendAbandoned(t)
  BY <1>8, CallFields, AwakeType, SendType, ZenonT(40) DEF SendAbandoned
<1>9. CASE ClearRing(t)
  BY <1>9 DEF ClearRing
<1>10. CASE SendRunning(t)
  BY <1>10, CallFields, SendType DEF SendRunning
<1>11. CASE SpawnWorker(t)
  <2>1. [state |-> "following", serial |-> Serial(t)] \in Worker
    BY <1>11 DEF SpawnWorker, Worker
  <2>2. worker' \in [Gen -> Worker]
    BY <1>11, <2>1 DEF SpawnWorker
  <2>3. QED
    BY <1>11, <2>2 DEF SpawnWorker
<1>12. CASE Publish(t)
  <2>1. [phase |-> "Live", generation |-> Generation(t), handles |-> TRUE] \in Slot
    BY <1>12 DEF Publish, Phases
  <2>2. captures' \in [Serials -> Slot]
    BY <1>12, <2>1 DEF Publish
  <2>3. pc' \in [Tasks -> Pcs] /\ call' \in [Tasks -> Call]
    BY <1>12, AwakeType, ZenonT(40) DEF Publish
  <2>4. CallOK'
    BY <1>12, AwakeType DEF Publish
  <2>5. QED
    BY <1>12, <2>2, <2>3, <2>4 DEF Publish
<1>13. CASE JoinOwn(t)
  <2>1. worker' \in [Gen -> Worker]
    BY <1>13, JoinType DEF JoinOwn
  <2>2. QED
    BY <1>13, <2>1 DEF JoinOwn
<1>14. QED
  BY <1>1, <1>2, <1>3, <1>4, <1>5, <1>6, <1>7, <1>8, <1>9, <1>10, <1>11, <1>12,
     <1>13 DEF StartStep

LEMMA StopStepType ==
  ASSUME TInv, NEW t \in Tasks, StopStep(t)
  PROVE  TInv'
<1> USE DEF TInv, TypeOK, CallOK, Gen, Call, NoCall, Serial, Generation,
        slotVars, tokenVars, eventVars, Goto, Return, GotoAndNotify, AfterStop, EndStop
<1> USE DEF Pcs, StartPcs, StopPcs, UndecidedPcs, OwnerPcs, OpenerPcs, CloserPcs
<1>1. CASE NothingToStop(t)
  BY <1>1 DEF NothingToStop
<1>2. CASE DecideStop(t)
  BY <1>2 DEF DecideStop
<1>3. CASE TakeSlot(t)
  <2> DEFINE s == Serial(t)
             g == captures[Serial(t)].generation
  <2>1. s \in Serials /\ g \in Gen
    BY <1>3, CallFields, SlotFields DEF TakeSlot, phase_occupies
  <2>2. [phase |-> "Stopping", generation |-> g, handles |-> FALSE] \in Slot
    BY <2>1 DEF Slot, Phases
  <2>3. captures' \in [Serials -> Slot]
    BY <1>3, <2>2 DEF TakeSlot
  <2>4. call' \in [Tasks -> Call] /\ Generation(t)' = g
    BY <1>3, <2>1, CallFields DEF TakeSlot
  <2>5. \A u \in Tasks : call'[u].op = call[u].op /\ (u # t => call'[u] = call[u])
    BY <1>3 DEF TakeSlot
  <2>6. pc' \in [Tasks -> Pcs]
    BY <1>3, AwakeType DEF TakeSlot
  <2>7. CallOK'
    BY <1>3, <2>1, <2>4, <2>5, AwakeType DEF TakeSlot
  <2>8. QED
    BY <1>3, <2>1, <2>3, <2>4, <2>6, <2>7 DEF TakeSlot
<1>4. CASE RecheckStop(t)
  BY <1>4 DEF RecheckStop
<1>5. CASE JoinWorkers(t)
  <2>1. worker' \in [Gen -> Worker]
    BY <1>5, JoinType DEF JoinWorkers
  <2>2. QED
    BY <1>5, <2>1 DEF JoinWorkers
<1>6. CASE RemoveSlot(t)
  <2>1. CASE Holds(Serial(t), Generation(t), {"Stopping"})
    BY <1>6, <2>1, CallFields, RemoveType DEF RemoveSlot
  <2>2. CASE ~ Holds(Serial(t), Generation(t), {"Stopping"})
    <3>1. pc' \in [Tasks -> Pcs] /\ call' \in [Tasks -> Call]
      BY <1>6, <2>2, AwakeType, ZenonT(40) DEF RemoveSlot
    <3>2. \A u \in Tasks : u # t => call'[u] = call[u] /\ pc'[u] = Awake[u]
      BY <1>6, <2>2, AwakeType DEF RemoveSlot
    <3>3. /\ pc'[t] \notin OwnerPcs
          /\ pc'[t] # "Idle" => call'[t] = call[t]
      BY <1>6, <2>2, AwakeType DEF RemoveSlot
    <3>4. call[t].op # "none"
      BY <1>6 DEF RemoveSlot
    <3>5. CallOK'
      BY <3>2, <3>3, <3>4, AwakeType, ZenonT(40)
    <3>6. QED
      BY <1>6, <2>2, <3>1, <3>5 DEF RemoveSlot
  <2>3. QED
    BY <2>1, <2>2
<1>7. CASE SendStopped(t)
  BY <1>7, CallFields, SendType, AwakeType DEF SendStopped
<1>8. CASE ClearAfterStop(t)
  BY <1>8 DEF ClearAfterStop
<1>9. QED
  BY <1>1, <1>2, <1>3, <1>4, <1>5, <1>6, <1>7, <1>8 DEF StopStep

LEMMA WorkerStepType ==
  ASSUME TInv, NEW g \in Gen, WorkerStep(g)
  PROVE  TInv'
<1> USE DEF TInv, TypeOK, CallOK, slotVars, tokenVars, eventVars, Serial, Generation
<1>1. CASE WorkerLine(g)
  <2>1. worker[g].serial \in Serials
    BY <1>1, WorkerFields DEF WorkerLine
  <2>2. QED
    BY <1>1, <2>1 DEF WorkerLine
<1>2. CASE WorkerCancelled(g)
  BY <1>2, WorkerFields DEF WorkerCancelled
<1>3. CASE WorkerOffline(g)
  BY <1>3, WorkerFields DEF WorkerOffline
<1>4. CASE Release(g)
  <2>1. worker[g].serial \in Serials
    BY <1>4, WorkerFields DEF Release
  <2>2. \A state \in {"releasing", "ended"} : [worker[g] EXCEPT !.state = state] \in Worker
    BY <1>4, WorkerFields DEF Release
  <2>3. worker' \in [Gen -> Worker]
    BY <1>4, <2>2 DEF Release
  <2>4. QED
    BY <1>4, <2>1, <2>3, RemoveType DEF Release
<1>5. CASE WorkerSend(g)
  <2>1. worker[g].serial \in Serials /\ worker' \in [Gen -> Worker]
    BY <1>5, WorkerFields DEF WorkerSend
  <2>2. QED
    BY <1>5, <2>1, SendType, AwakeType DEF WorkerSend
<1>6. QED
  BY <1>1, <1>2, <1>3, <1>4, <1>5 DEF WorkerStep

LEMMA StepType == TInv /\ [Next]_vars => TInv'
<1> SUFFICES ASSUME TInv, [Next]_vars PROVE TInv'
  OBVIOUS
<1>1. ASSUME NEW t \in Tasks, NEW s \in Serials, CallStart(t, s) \/ CallStop(t, s)
      PROVE  TInv'
  <2>1. PICK op \in {"start", "stop", "detach"}, to \in {"DecideStart", "DecideStop"} :
          /\ call' = [call EXCEPT ![t] = [op |-> op, serial |-> s, generation |-> 0]]
          /\ pc' = [pc EXCEPT ![t] = to]
    BY <1>1 DEF CallStart, CallStop, Goto
  <2>2. [op |-> op, serial |-> s, generation |-> 0] \in Call
    BY ServiceAssumption DEF Call
  <2>3. pc' \in [Tasks -> Pcs] /\ call' \in [Tasks -> Call]
    BY <2>1, <2>2 DEF TInv, TypeOK, Pcs, StartPcs, UndecidedPcs, StopPcs
  <2>4. CallOK'
    BY <2>1 DEF TInv, TypeOK, CallOK, OwnerPcs, OpenerPcs, CloserPcs, Serial, Generation
  <2>5. QED
    BY <1>1, <2>3, <2>4 DEF CallStart, CallStop, TInv, TypeOK, slotVars, tokenVars,
                            eventVars
<1>2. ASSUME NEW t \in Tasks, StartStep(t) \/ StopStep(t)
      PROVE  TInv'
  BY <1>2, StartStepType, StopStepType
<1>3. ASSUME NEW g \in Gen, WorkerStep(g)
      PROVE  TInv'
  BY <1>3, WorkerStepType
<1>4. CASE Deliver
  <2>1. Head(sink) \in Event /\ Tail(sink) \in Seq(Event) /\ Len(Tail(sink)) <= SinkCap
    BY <1>4, ServiceAssumption DEF Deliver, TInv, TypeOK
  <2>2. QED
    BY <1>4, <2>1 DEF Deliver, TInv, TypeOK, CallOK, Event, slotVars, tokenVars,
                      Serial, Generation
<1>5. CASE RootCancel
  BY <1>5 DEF RootCancel, TInv, TypeOK, CallOK, slotVars, eventVars, Serial, Generation
<1>6. CASE UNCHANGED vars
  BY <1>6 DEF vars, TInv, TypeOK, CallOK, slotVars, tokenVars, eventVars, Serial, Generation
<1>7. QED
  BY <1>1, <1>2, <1>3, <1>4, <1>5, <1>6 DEF Next

(* Every variable keeps its type, and every running call knows its device. *)
LEMMA TypeInvariant == Spec => []TInv
  BY InitType, StepType, PTL DEF Spec

(* Every variable keeps its type: in particular no send ever finds more    *)
(* room than the event channel has, and no slot is left half-written.      *)
THEOREM TypeCorrect == Spec => []TypeOK
<1>1. TInv => TypeOK
  BY DEF TInv
<1>2. QED
  BY <1>1, TypeInvariant, PTL

-----------------------------------------------------------------------------
(* The slots and the Stopped                                                *)

SenderPcs == {"SendAbandoned", "SendStopped"}

RolePcs == OpenerPcs \cup CloserPcs \cup SenderPcs

(* A role is kept: same kind of program counter, same generation.          *)
SameRole(t) ==
  /\ pc'[t] \in OpenerPcs <=> pc[t] \in OpenerPcs
  /\ pc'[t] \in CloserPcs <=> pc[t] \in CloserPcs
  /\ pc'[t] \in SenderPcs <=> pc[t] \in SenderPcs
  /\ pc[t] \in RolePcs => call'[t] = call[t]

Opened(s) ==
  /\ captures[s] = Empty
  /\ next_generation' = next_generation + 1
  /\ captures' = [captures EXCEPT ![s] =
       [phase |-> "Starting", generation |-> next_generation + 1, handles |-> FALSE]]
  /\ UNCHANGED last_generation

Repainted(s, from, to) ==
  /\ captures[s].phase \in from
  /\ \E handles \in BOOLEAN :
       captures' = [captures EXCEPT ![s] =
         [phase |-> to, generation |-> captures[s].generation, handles |-> handles]]
  /\ UNCHANGED <<last_generation, next_generation>>

(* What a step of a task does to its role, to the slot and to the Stopped. *)
Continues(t) == SameRole(t) /\ UNCHANGED slotVars

GivesUp(t) ==
  /\ pc[t] \in OpenerPcs \cup CloserPcs /\ pc'[t] \notin RolePcs
  /\ pc[t] \in OpenerPcs => ~ Holds(Serial(t), Generation(t), {"Starting"})
  /\ pc[t] \in CloserPcs => ~ Holds(Serial(t), Generation(t), {"Stopping"})
  /\ UNCHANGED slotVars

Opens(t) ==
  /\ pc[t] \notin RolePcs \cup {"Idle"} /\ pc'[t] \in OpenerPcs
  /\ Opened(Serial(t))
  /\ call'[t].serial = call[t].serial
  /\ call'[t].generation = next_generation + 1

GoesLive(t) ==
  /\ pc[t] \in OpenerPcs /\ pc'[t] \notin RolePcs
  /\ Holds(Serial(t), Generation(t), {"Starting"})
  /\ Repainted(Serial(t), {"Starting"}, "Live")

Takes(t) ==
  /\ pc[t] \notin RolePcs \cup {"Idle"} /\ pc'[t] \in CloserPcs
  /\ Repainted(Serial(t), {"Starting", "Live"}, "Stopping")
  /\ call'[t].serial = call[t].serial
  /\ call'[t].generation = captures[Serial(t)].generation

Removes(t) ==
  /\ \/ pc[t] \in OpenerPcs /\ Holds(Serial(t), Generation(t), {"Starting"})
     \/ pc[t] \in CloserPcs /\ Holds(Serial(t), Generation(t), {"Stopping"})
  /\ pc'[t] \in SenderPcs
  /\ call'[t] = call[t]
  /\ remember_and_remove(Serial(t))

Sends(t) ==
  /\ pc[t] \in SenderPcs /\ pc'[t] \notin RolePcs
  /\ Send(Serial(t), Generation(t), "Stopped")
  /\ UNCHANGED slotVars

(* The channel and the received Stopped of every step but Sends.           *)
NoStopped ==
  \/ UNCHANGED eventVars
  \/ \E s \in Serials, g \in Gen : Send(s, g, "Running")

NoRelease ==
  \A g \in Gen : worker'[g].state = "releasing" => worker[g].state = "releasing"

TaskEffect(t) ==
  \/ /\ \/ Continues(t) \/ GivesUp(t) \/ Opens(t) \/ GoesLive(t) \/ Takes(t) \/ Removes(t)
     /\ NoStopped
  \/ Sends(t)

(* Only the task that steps changes its call and its role.                 *)
OthersStay(t) ==
  \A u \in Tasks \ {t} :
    /\ call'[u] = call[u]
    /\ pc'[u] \in RolePcs <=> pc[u] \in RolePcs
    /\ pc[u] \in RolePcs => pc'[u] = pc[u]

LEMMA MoveStays ==
  ASSUME TInv, NEW t \in Tasks, NEW from, NEW to,
         Goto(t, from, to) \/ GotoAndNotify(t, from, to),
         call' = call \/ \E c : call' = [call EXCEPT ![t] = c]
  PROVE  OthersStay(t) /\ pc[t] = from /\ pc'[t] = to
<1>1. \A u \in Tasks \ {t} : call'[u] = call[u]
  BY DEF TInv, TypeOK
<1>2. CASE Goto(t, from, to)
  BY <1>1, <1>2 DEF TInv, TypeOK, Goto, OthersStay
<1>3. CASE GotoAndNotify(t, from, to)
  <2>1. pc' = [Awake EXCEPT ![t] = to] /\ Awake \in [Tasks -> Pcs] /\ pc[t] = from
    BY <1>3, AwakeType DEF TInv, GotoAndNotify
  <2>2. RolePcs \subseteq OwnerPcs
    BY DEF RolePcs, OwnerPcs, SenderPcs
  <2>3. \A u \in Tasks : /\ Awake[u] \in OwnerPcs <=> pc[u] \in OwnerPcs
                         /\ Awake[u] \in OwnerPcs => Awake[u] = pc[u]
    BY AwakeType DEF TInv
  <2>4. QED
    BY <1>1, <2>1, <2>2, <2>3 DEF OthersStay
<1>4. QED
  BY <1>2, <1>3

LEMMA CallUpdate ==
  ASSUME TInv, NEW t \in Tasks, pc[t] # "Idle", NEW g
  PROVE  /\ [call[t] EXCEPT !.generation = g].generation = g
         /\ [call[t] EXCEPT !.generation = g].serial = call[t].serial
  BY DEF TInv, TypeOK, CallOK, Call, NoCall

LEMMA JoinReleases ==
  ASSUME TInv, NEW g, JoinOrAbort(g)
  PROVE  NoRelease
<1>1. CASE UNCHANGED worker
  BY <1>1 DEF NoRelease
<1>2. CASE worker' = [worker EXCEPT ![g].state = "ended"]
  <2>1. \A h \in Gen : h # g => worker'[h] = worker[h]
    BY <1>2 DEF TInv, TypeOK
  <2>2. g \in Gen => worker'[g] = [worker[g] EXCEPT !.state = "ended"] /\ worker[g] \in Worker
    BY <1>2 DEF TInv, TypeOK
  <2>3. g \in Gen => worker'[g].state = "ended"
    BY <2>2 DEF Worker, NoWorker
  <2>4. QED
    BY <2>1, <2>3 DEF NoRelease
<1>3. QED
  BY <1>1, <1>2 DEF JoinOrAbort

LEMMA StartEffects ==
  ASSUME TInv, NEW t \in Tasks, StartStep(t)
  PROVE  OthersStay(t) /\ TaskEffect(t) /\ NoRelease
<1> USE DEF RolePcs, SenderPcs, OpenerPcs, CloserPcs, slotVars, eventVars
<1>1. CASE Adopt(t)
  <2>1. OthersStay(t) /\ pc[t] = "DecideStart" /\ pc'[t] = "Idle"
    BY <1>1, MoveStays DEF Return, ReturnAndNotify, Adopt
  <2>2. QED
    BY <1>1, <2>1 DEF Adopt, TaskEffect, Continues, SameRole, NoStopped, NoRelease
<1>2. CASE DecideWait(t)
  <2>1. OthersStay(t) /\ pc[t] = "DecideStart" /\ pc'[t] = "RecheckStart"
    BY <1>2, MoveStays DEF Return, ReturnAndNotify, DecideWait
  <2>2. QED
    BY <1>2, <2>1 DEF DecideWait, TaskEffect, Continues, SameRole, NoStopped, NoRelease
<1>3. CASE Begin(t)
  <2>1. PICK to \in {"ClearDevice", "CheckCancel"} : GotoAndNotify(t, "DecideStart", to)
    BY <1>3 DEF Begin
  <2>2. OthersStay(t) /\ pc[t] = "DecideStart" /\ pc'[t] = to
    BY <1>3, <2>1, MoveStays DEF Begin
  <2>3. Opened(Serial(t))
    BY <1>3 DEF Begin, Opened
  <2>4. call'[t] = [call[t] EXCEPT !.generation = next_generation + 1]
    BY <1>3 DEF TInv, TypeOK, Begin
  <2>5. call'[t].serial = call[t].serial /\ call'[t].generation = next_generation + 1
    BY <2>2, <2>4, CallUpdate
  <2>6. QED
    BY <1>3, <2>2, <2>3, <2>5 DEF Begin, TaskEffect, Opens, NoStopped, NoRelease
<1>4. CASE RecheckStart(t)
  <2>1. PICK to \in {"WaitStart", "DecideStart"} : Goto(t, "RecheckStart", to)
    BY <1>4 DEF RecheckStart
  <2>2. OthersStay(t) /\ pc[t] = "RecheckStart" /\ pc'[t] = to
    BY <1>4, <2>1, MoveStays DEF Return, ReturnAndNotify, RecheckStart
  <2>3. QED
    BY <1>4, <2>2 DEF RecheckStart, TaskEffect, Continues, SameRole, NoStopped, NoRelease
<1>5. CASE ClearDevice(t)
  <2>1. PICK to \in {"CheckCancel", "AbandonStart"} : Goto(t, "ClearDevice", to)
    BY <1>5 DEF ClearDevice
  <2>2. OthersStay(t) /\ pc[t] = "ClearDevice" /\ pc'[t] = to
    BY <1>5, <2>1, MoveStays DEF Return, ReturnAndNotify, ClearDevice
  <2>3. QED
    BY <1>5, <2>2 DEF ClearDevice, TaskEffect, Continues, SameRole, NoStopped, NoRelease
<1>6. CASE CheckCancel(t)
  <2>1. PICK to \in {"AbandonStart", "ClearRing"} : Goto(t, "CheckCancel", to)
    BY <1>6 DEF CheckCancel
  <2>2. OthersStay(t) /\ pc[t] = "CheckCancel" /\ pc'[t] = to
    BY <1>6, <2>1, MoveStays DEF Return, ReturnAndNotify, CheckCancel
  <2>3. QED
    BY <1>6, <2>2 DEF CheckCancel, TaskEffect, Continues, SameRole, NoStopped, NoRelease
<1>7. CASE AbandonStart(t)
  <2>1. CASE Goto(t, "AbandonStart", "SendAbandoned")
             /\ Holds(Serial(t), Generation(t), {"Starting"})
             /\ remember_and_remove(Serial(t))
             /\ UNCHANGED <<worker, eventVars, call>>
    <3>1. OthersStay(t) /\ pc[t] = "AbandonStart" /\ pc'[t] = "SendAbandoned"
      BY <2>1, MoveStays DEF Return, ReturnAndNotify
    <3>2. QED
      BY <2>1, <3>1 DEF TaskEffect, Removes, NoStopped, NoRelease
  <2>2. CASE Return(t, "AbandonStart")
             /\ ~ Holds(Serial(t), Generation(t), {"Starting"})
             /\ UNCHANGED <<slotVars, worker, eventVars>>
    <3>1. OthersStay(t) /\ pc[t] = "AbandonStart" /\ pc'[t] = "Idle"
      BY <2>2, MoveStays DEF Return, ReturnAndNotify
    <3>2. QED
      BY <2>2, <3>1 DEF TaskEffect, GivesUp, NoStopped, NoRelease
  <2>3. QED
    BY <1>7, <2>1, <2>2 DEF AbandonStart
<1>8. CASE SendAbandoned(t)
  <2>1. OthersStay(t) /\ pc[t] = "SendAbandoned" /\ pc'[t] = "Idle"
    BY <1>8, MoveStays DEF Return, ReturnAndNotify, SendAbandoned
  <2>2. QED
    BY <1>8, <2>1 DEF SendAbandoned, TaskEffect, Sends, NoRelease
<1>9. CASE ClearRing(t)
  <2>1. OthersStay(t) /\ pc[t] = "ClearRing" /\ pc'[t] = "SendRunning"
    BY <1>9, MoveStays DEF Return, ReturnAndNotify, ClearRing
  <2>2. QED
    BY <1>9, <2>1 DEF ClearRing, TaskEffect, Continues, SameRole, NoStopped, NoRelease
<1>10. CASE SendRunning(t)
  <2>1. OthersStay(t) /\ pc[t] = "SendRunning" /\ pc'[t] = "SpawnWorker"
    BY <1>10, MoveStays DEF Return, ReturnAndNotify, SendRunning
  <2>2. Serial(t) \in Serials /\ Generation(t) \in Gen
    BY <2>1, CallFields DEF TInv, CallOK, OwnerPcs
  <2>3. QED
    BY <1>10, <2>1, <2>2 DEF SendRunning, TaskEffect, Continues, SameRole, NoStopped, NoRelease
<1>11. CASE SpawnWorker(t)
  <2>1. PICK to \in {"AbandonStart", "Publish"} : Goto(t, "SpawnWorker", to)
    BY <1>11 DEF SpawnWorker
  <2>2. OthersStay(t) /\ pc[t] = "SpawnWorker" /\ pc'[t] = to
    BY <1>11, <2>1, MoveStays DEF Return, ReturnAndNotify, SpawnWorker
  <2>3. NoRelease
    <3>1. CASE UNCHANGED worker
      BY <3>1 DEF NoRelease
    <3>2. CASE worker' = [worker EXCEPT ![Generation(t)] =
                            [state |-> "following", serial |-> Serial(t)]]
      BY <3>2 DEF TInv, TypeOK, NoRelease
    <3>3. QED
      BY <1>11, <3>1, <3>2 DEF SpawnWorker
  <2>4. QED
    BY <1>11, <2>2, <2>3 DEF SpawnWorker, TaskEffect, Continues, SameRole, NoStopped
<1>12. CASE Publish(t)
  <2>1. CASE ReturnAndNotify(t, "Publish")
             /\ Holds(Serial(t), Generation(t), {"Starting"})
             /\ captures' = [captures EXCEPT ![Serial(t)] =
                  [phase |-> "Live", generation |-> Generation(t), handles |-> TRUE]]
             /\ UNCHANGED <<last_generation, next_generation, worker, eventVars>>
    <3>1. OthersStay(t) /\ pc[t] = "Publish" /\ pc'[t] = "Idle"
      BY <2>1, MoveStays DEF Return, ReturnAndNotify
    <3>2. Repainted(Serial(t), {"Starting"}, "Live")
      BY <2>1 DEF Repainted, Holds
    <3>3. QED
      BY <2>1, <3>1, <3>2 DEF TaskEffect, GoesLive, NoStopped, NoRelease
  <2>2. CASE Goto(t, "Publish", "JoinOwn")
             /\ ~ Holds(Serial(t), Generation(t), {"Starting"})
             /\ UNCHANGED <<slotVars, worker, eventVars, call>>
    <3>1. OthersStay(t) /\ pc[t] = "Publish" /\ pc'[t] = "JoinOwn"
      BY <2>2, MoveStays DEF Return, ReturnAndNotify
    <3>2. QED
      BY <2>2, <3>1 DEF TaskEffect, GivesUp, NoStopped, NoRelease
  <2>3. QED
    BY <1>12, <2>1, <2>2 DEF Publish
<1>13. CASE JoinOwn(t)
  <2>1. OthersStay(t) /\ pc[t] = "JoinOwn" /\ pc'[t] = "Idle"
    BY <1>13, MoveStays DEF Return, ReturnAndNotify, JoinOwn
  <2>2. NoRelease
    BY <1>13, JoinReleases DEF JoinOwn
  <2>3. QED
    BY <1>13, <2>1, <2>2 DEF JoinOwn, TaskEffect, Continues, SameRole, NoStopped
<1>14. QED
  BY <1>1, <1>2, <1>3, <1>4, <1>5, <1>6, <1>7, <1>8, <1>9, <1>10, <1>11, <1>12,
     <1>13 DEF StartStep

LEMMA StopEffects ==
  ASSUME TInv, NEW t \in Tasks, StopStep(t)
  PROVE  OthersStay(t) /\ TaskEffect(t) /\ NoRelease
<1> USE DEF RolePcs, SenderPcs, OpenerPcs, CloserPcs, slotVars, eventVars
<1>1. CASE NothingToStop(t)
  <2>1. PICK to \in {"Idle", "ClearAfterStop"} : Goto(t, "DecideStop", to)
    BY <1>1 DEF NothingToStop, AfterStop
  <2>2. OthersStay(t) /\ pc[t] = "DecideStop" /\ pc'[t] = to
    BY <1>1, <2>1, MoveStays DEF NothingToStop, EndStop
  <2>3. QED
    BY <1>1, <2>2 DEF NothingToStop, TaskEffect, Continues, SameRole, NoStopped, NoRelease
<1>2. CASE DecideStop(t)
  <2>1. OthersStay(t) /\ pc[t] = "DecideStop" /\ pc'[t] = "RecheckStop"
    BY <1>2, MoveStays DEF DecideStop
  <2>2. QED
    BY <1>2, <2>1 DEF DecideStop, TaskEffect, Continues, SameRole, NoStopped, NoRelease
<1>3. CASE TakeSlot(t)
  <2>1. PICK to \in {"JoinWorkers", "RemoveSlot"} : GotoAndNotify(t, "DecideStop", to)
    BY <1>3 DEF TakeSlot
  <2>2. OthersStay(t) /\ pc[t] = "DecideStop" /\ pc'[t] = to
    BY <1>3, <2>1, MoveStays DEF TakeSlot
  <2>3. Repainted(Serial(t), {"Starting", "Live"}, "Stopping")
    BY <1>3 DEF TakeSlot, Repainted, phase_occupies
  <2>4. call'[t] = [call[t] EXCEPT !.generation = captures[Serial(t)].generation]
    BY <1>3 DEF TInv, TypeOK, TakeSlot
  <2>5. /\ call'[t].serial = call[t].serial
        /\ call'[t].generation = captures[Serial(t)].generation
    BY <2>2, <2>4, CallUpdate
  <2>6. QED
    BY <1>3, <2>2, <2>3, <2>5 DEF TakeSlot, TaskEffect, Takes, NoStopped, NoRelease
<1>4. CASE RecheckStop(t)
  <2>1. PICK to \in {"WaitStop", "DecideStop"} : Goto(t, "RecheckStop", to)
    BY <1>4 DEF RecheckStop
  <2>2. OthersStay(t) /\ pc[t] = "RecheckStop" /\ pc'[t] = to
    BY <1>4, <2>1, MoveStays DEF RecheckStop
  <2>3. QED
    BY <1>4, <2>2 DEF RecheckStop, TaskEffect, Continues, SameRole, NoStopped, NoRelease
<1>5. CASE JoinWorkers(t)
  <2>1. OthersStay(t) /\ pc[t] = "JoinWorkers" /\ pc'[t] = "RemoveSlot"
    BY <1>5, MoveStays DEF JoinWorkers
  <2>2. NoRelease
    BY <1>5, JoinReleases DEF JoinWorkers
  <2>3. QED
    BY <1>5, <2>1, <2>2 DEF JoinWorkers, TaskEffect, Continues, SameRole, NoStopped
<1>6. CASE RemoveSlot(t)
  <2>1. CASE Holds(Serial(t), Generation(t), {"Stopping"})
    <3>1. OthersStay(t) /\ pc[t] = "RemoveSlot" /\ pc'[t] = "SendStopped"
      BY <1>6, <2>1, MoveStays DEF RemoveSlot
    <3>2. QED
      BY <1>6, <2>1, <3>1 DEF RemoveSlot, TaskEffect, Removes, NoStopped, NoRelease
  <2>2. CASE ~ Holds(Serial(t), Generation(t), {"Stopping"})
    <3>1. PICK to \in {"Idle", "ClearAfterStop"} : GotoAndNotify(t, "RemoveSlot", to)
      BY <1>6, <2>2 DEF RemoveSlot, AfterStop
    <3>2. OthersStay(t) /\ pc[t] = "RemoveSlot" /\ pc'[t] = to
      BY <1>6, <2>2, <3>1, MoveStays DEF RemoveSlot, EndStop
    <3>3. QED
      BY <1>6, <2>2, <3>2 DEF RemoveSlot, TaskEffect, GivesUp, NoStopped, NoRelease
  <2>3. QED
    BY <2>1, <2>2
<1>7. CASE SendStopped(t)
  <2>1. PICK to \in {"Idle", "ClearAfterStop"} : GotoAndNotify(t, "SendStopped", to)
    BY <1>7 DEF SendStopped, AfterStop
  <2>2. OthersStay(t) /\ pc[t] = "SendStopped" /\ pc'[t] = to
    BY <1>7, <2>1, MoveStays DEF SendStopped, EndStop
  <2>3. QED
    BY <1>7, <2>2 DEF SendStopped, TaskEffect, Sends, NoRelease
<1>8. CASE ClearAfterStop(t)
  <2>1. OthersStay(t) /\ pc[t] = "ClearAfterStop" /\ pc'[t] = "Idle"
    BY <1>8, MoveStays DEF ClearAfterStop, Return
  <2>2. QED
    BY <1>8, <2>1 DEF ClearAfterStop, TaskEffect, Continues, SameRole, NoStopped, NoRelease
<1>9. QED
  BY <1>1, <1>2, <1>3, <1>4, <1>5, <1>6, <1>7, <1>8 DEF StopStep

LEMMA CallEffects ==
  ASSUME TInv, NEW t \in Tasks, NEW s \in Serials, CallStart(t, s) \/ CallStop(t, s)
  PROVE  OthersStay(t) /\ TaskEffect(t) /\ NoRelease
<1>1. PICK to \in {"DecideStart", "DecideStop"} : Goto(t, "Idle", to)
  BY DEF CallStart, CallStop
<1>2. OthersStay(t) /\ pc[t] = "Idle" /\ pc'[t] = to
  BY <1>1, MoveStays DEF CallStart, CallStop
<1>3. QED
  BY <1>2 DEF CallStart, CallStop, TaskEffect, Continues, SameRole, NoStopped, NoRelease,
    RolePcs, SenderPcs, OpenerPcs, CloserPcs, slotVars, eventVars

-----------------------------------------------------------------------------
(* What the steps of the workers and of the application do.                *)

Releases(g) ==
  /\ worker[g].state = "offline"
  /\ \E s \in Serials : Holds(s, g, {"Starting", "Live"}) /\ remember_and_remove(s)
  /\ worker' = [worker EXCEPT ![g].state = "releasing"]
  /\ UNCHANGED <<sink, received, call, pc>>

Quiet == UNCHANGED <<slotVars, sink, received, call, pc>> /\ NoRelease

StepEffect ==
  \/ \E t \in Tasks : OthersStay(t) /\ TaskEffect(t) /\ NoRelease
  \/ \E g \in Gen : Releases(g) \/ WorkerSend(g)
  \/ Deliver
  \/ Quiet

LEMMA WorkerEffects ==
  ASSUME TInv, NEW g \in Gen, WorkerStep(g)
  PROVE  StepEffect
<1>1. CASE WorkerLine(g)
  BY <1>1 DEF WorkerLine, StepEffect, Quiet, NoRelease, eventVars
<1>2. CASE WorkerCancelled(g) \/ WorkerOffline(g)
  <2>1. PICK state \in {"ended", "offline"} :
          worker' = [worker EXCEPT ![g].state = state] /\ worker[g].state = "following"
    BY <1>2 DEF WorkerCancelled, WorkerOffline
  <2>2. worker'[g].state = state
    BY <2>1 DEF TInv, TypeOK, Worker, NoWorker
  <2>3. NoRelease
    BY <2>1, <2>2 DEF NoRelease, TInv, TypeOK
  <2>4. QED
    BY <1>2, <2>3 DEF WorkerCancelled, WorkerOffline, StepEffect, Quiet, eventVars
<1>3. CASE Release(g)
  <2>1. CASE Holds(worker[g].serial, g, {"Starting", "Live"})
    <3>1. worker[g].serial \in Serials
      BY <1>3, WorkerFields DEF Release, TInv
    <3>2. Releases(g)
      BY <1>3, <2>1, <3>1 DEF Release, Releases, eventVars
    <3>3. QED
      BY <3>2 DEF StepEffect
  <2>2. CASE ~ Holds(worker[g].serial, g, {"Starting", "Live"})
    <3>1. worker' = [worker EXCEPT ![g].state = "ended"] /\ worker[g].state = "offline"
      BY <1>3, <2>2 DEF Release
    <3>2. worker'[g].state = "ended"
      BY <3>1 DEF TInv, TypeOK, Worker, NoWorker
    <3>3. NoRelease
      BY <3>1, <3>2 DEF NoRelease, TInv, TypeOK
    <3>4. QED
      BY <1>3, <2>2, <3>3 DEF Release, StepEffect, Quiet, eventVars
  <2>3. QED
    BY <2>1, <2>2
<1>4. CASE WorkerSend(g)
  BY <1>4 DEF StepEffect
<1>5. QED
  BY <1>1, <1>2, <1>3, <1>4 DEF WorkerStep

LEMMA StepEffects == TInv /\ [Next]_vars => StepEffect
<1> SUFFICES ASSUME TInv, [Next]_vars PROVE StepEffect
  OBVIOUS
<1>1. ASSUME NEW t \in Tasks, NEW s \in Serials, CallStart(t, s) \/ CallStop(t, s)
      PROVE  StepEffect
  BY <1>1, CallEffects DEF StepEffect
<1>2. ASSUME NEW t \in Tasks, StartStep(t) \/ StopStep(t)
      PROVE  StepEffect
  BY <1>2, StartEffects, StopEffects DEF StepEffect
<1>3. ASSUME NEW g \in Gen, WorkerStep(g)
      PROVE  StepEffect
  BY <1>3, WorkerEffects
<1>4. CASE Deliver
  BY <1>4 DEF StepEffect
<1>5. CASE RootCancel \/ UNCHANGED vars
  BY <1>5 DEF RootCancel, vars, StepEffect, Quiet, NoRelease, eventVars, slotVars
<1>6. QED
  BY <1>1, <1>2, <1>3, <1>4, <1>5 DEF Next

-----------------------------------------------------------------------------
(* The slots: SlotOrder, and the generation a client sees.                 *)

SlotOrder ==
  /\ \A s \in Serials :
       /\ last_generation[s] <= next_generation
       /\ captures[s].generation # 0 =>
            /\ last_generation[s] < captures[s].generation
            /\ captures[s].generation <= next_generation
  /\ \A s, r \in Serials :
       captures[s].generation # 0 /\ captures[r].generation = captures[s].generation
         => r = s

SlotEffect ==
  \/ UNCHANGED slotVars
  \/ \E s \in Serials : \/ Opened(s)
                        \/ Repainted(s, {"Starting"}, "Live")
                        \/ Repainted(s, {"Starting", "Live"}, "Stopping")
                        \/ captures[s] # Empty /\ remember_and_remove(s)

LEMMA RoleSerial ==
  ASSUME TInv, NEW t \in Tasks, pc[t] \in RolePcs
  PROVE  Serial(t) \in Serials /\ Generation(t) \in Gen
<1>1. pc[t] # "Idle" /\ pc[t] \in OwnerPcs
  BY DEF RolePcs, SenderPcs, OpenerPcs, CloserPcs, OwnerPcs
<1>2. QED
  BY <1>1, CallFields DEF TInv, CallOK

LEMMA SlotEffects == TInv /\ StepEffect => SlotEffect
<1> SUFFICES ASSUME TInv, StepEffect PROVE SlotEffect
  OBVIOUS
<1>1. ASSUME NEW t \in Tasks, TaskEffect(t)
      PROVE  SlotEffect
  <2>1. CASE Continues(t) \/ GivesUp(t) \/ Sends(t)
    BY <2>1 DEF Continues, GivesUp, Sends, SlotEffect
  <2>2. CASE Opens(t) \/ Takes(t)
    <3>1. call[t].serial \in Serials
      BY <2>2, CallFields DEF Opens, Takes, Serial
    <3>2. QED
      BY <2>2, <3>1 DEF Opens, Takes, SlotEffect, Serial
  <2>3. CASE GoesLive(t)
    <3>1. Serial(t) \in Serials
      BY <2>3, RoleSerial DEF GoesLive, RolePcs
    <3>2. QED
      BY <2>3, <3>1 DEF GoesLive, SlotEffect
  <2>4. CASE Removes(t)
    <3>1. Serial(t) \in Serials
      BY <2>4, RoleSerial DEF Removes, RolePcs
    <3>2. captures[Serial(t)] # Empty
      BY <2>4 DEF Removes, Holds, Empty
    <3>3. QED
      BY <2>4, <3>1, <3>2 DEF Removes, SlotEffect
  <2>5. QED
    BY <1>1, <2>1, <2>2, <2>3, <2>4 DEF TaskEffect
<1>2. ASSUME NEW g \in Gen, Releases(g)
      PROVE  SlotEffect
  BY <1>2 DEF Releases, SlotEffect, Holds, Empty
<1>3. ASSUME NEW g \in Gen, WorkerSend(g)
      PROVE  SlotEffect
  BY <1>3 DEF WorkerSend, SlotEffect
<1>4. CASE Deliver \/ Quiet
  BY <1>4 DEF Deliver, Quiet, SlotEffect, slotVars
<1>5. QED
  BY <1>1, <1>2, <1>3, <1>4 DEF StepEffect
LEMMA SlotNumbers ==
  ASSUME TInv
  PROVE  /\ next_generation \in Nat
         /\ \A s \in Serials :
              /\ last_generation[s] \in Nat
              /\ captures[s].generation \in Nat
              /\ captures[s] = Empty <=> captures[s].generation = 0
  BY ServiceAssumption DEF TInv, TypeOK, Slot, Empty, Gen

(* What SlotEffect does to the numbers.                                    *)
Reopened(s) ==
  /\ captures[s].generation = 0
  /\ next_generation' = next_generation + 1
  /\ captures'[s].generation = next_generation + 1
  /\ last_generation'[s] = last_generation[s]

Kept(s) ==
  /\ captures'[s].generation = captures[s].generation
  /\ last_generation'[s] = last_generation[s]
  /\ next_generation' = next_generation

Remembered(s) ==
  /\ captures[s].generation # 0
  /\ captures'[s].generation = 0
  /\ last_generation'[s] = captures[s].generation
  /\ next_generation' = next_generation

NumberEffect(s) ==
  /\ \A r \in Serials \ {s} : /\ captures'[r].generation = captures[r].generation
                              /\ last_generation'[r] = last_generation[r]
  /\ Reopened(s) \/ Kept(s) \/ Remembered(s)

LEMMA NumberEffects ==
  ASSUME TInv, SlotEffect, ~ UNCHANGED slotVars
  PROVE  \E s \in Serials : NumberEffect(s)
<1> USE DEF TInv, TypeOK
<1>1. ASSUME NEW s \in Serials, Opened(s)
      PROVE  NumberEffect(s)
  BY <1>1 DEF Opened, NumberEffect, Reopened, Empty
<1>2. ASSUME NEW s \in Serials, NEW from, NEW to, Repainted(s, from, to)
      PROVE  NumberEffect(s)
  BY <1>2 DEF Repainted, NumberEffect, Kept
<1>3. ASSUME NEW s \in Serials, captures[s] # Empty, remember_and_remove(s)
      PROVE  NumberEffect(s)
  <2>1. captures[s].generation # 0
    BY <1>3, SlotNumbers
  <2>2. QED
    BY <1>3, <2>1 DEF remember_and_remove, NumberEffect, Remembered, Empty
<1>4. QED
  BY <1>1, <1>2, <1>3 DEF SlotEffect

LEMMA SlotOrderInit == Init => SlotOrder
  BY DEF Init, SlotOrder, Empty

(* Nothing hands out, keeps or removes a generation out of order.          *)
LEMMA SlotOrderStep ==
  ASSUME TInv, TInv', SlotOrder, SlotEffect
  PROVE  SlotOrder'
<1>1. CASE UNCHANGED slotVars
  BY <1>1 DEF SlotOrder, slotVars
<1>2. ASSUME NEW s \in Serials, NumberEffect(s)
      PROVE  SlotOrder'
  BY <1>2, SlotNumbers DEF SlotOrder, NumberEffect, Reopened, Kept, Remembered
<1>3. QED
  BY <1>1, <1>2, NumberEffects

LEMMA StatusGrows ==
  ASSUME TInv, TInv', SlotOrder, SlotEffect, NEW s \in Serials
  PROVE  StatusGeneration(s)' >= StatusGeneration(s)
<1>1. /\ StatusGeneration(s) = IF captures[s].generation # 0
                               THEN captures[s].generation ELSE last_generation[s]
      /\ StatusGeneration(s)' = IF captures'[s].generation # 0
                                THEN captures'[s].generation ELSE last_generation'[s]
      /\ StatusGeneration(s) \in Nat
  <2>1. /\ captures[s] = Empty <=> captures[s].generation = 0
        /\ (captures[s] = Empty <=> captures[s].generation = 0)'
        /\ captures[s].generation \in Nat /\ last_generation[s] \in Nat
    <3>1. captures'[s] = Empty <=> captures'[s].generation = 0
      BY DEF TInv, TypeOK, Slot, Empty, Gen
    <3>2. QED
      BY <3>1, SlotNumbers
  <2>2. QED
    BY <2>1 DEF StatusGeneration
<1>2. CASE UNCHANGED slotVars
  BY <1>1, <1>2 DEF slotVars
<1>3. ASSUME NEW r \in Serials, NumberEffect(r)
      PROVE  StatusGeneration(s)' >= StatusGeneration(s)
  BY <1>1, <1>3, SlotNumbers DEF SlotOrder, NumberEffect, Reopened, Kept, Remembered
<1>4. QED
  BY <1>2, <1>3, NumberEffects

LEMMA SlotOrderInvariant == Spec => [](TInv /\ SlotOrder)
<1>1. TInv /\ SlotOrder /\ [Next]_vars => SlotOrder'
  BY StepType, StepEffects, SlotEffects, SlotOrderStep
<1>2. QED
  BY <1>1, SlotOrderInit, TypeInvariant, PTL DEF Spec

(* The generation status() reports never goes back.                        *)
THEOREM GenerationsOnlyGrow == Spec => GenerationOnlyGrows
<1>1. TInv /\ SlotOrder /\ [Next]_vars
        => \A s \in Serials : StatusGeneration(s)' >= StatusGeneration(s)
  BY StepType, StepEffects, SlotEffects, StatusGrows
<1>2. QED
  BY <1>1, SlotOrderInvariant, PTL DEF Spec, GenerationOnlyGrows
-----------------------------------------------------------------------------
(* The Stopped of a generation: who owes it, and where it has gone.        *)

Gone(g) == g \in 1 .. next_generation /\ \A s \in Serials : captures[s].generation # g

Announced == received \cup StoppedInSink

Custody ==
  /\ \A t \in Tasks : pc[t] \in SenderPcs =>
       /\ Gone(Generation(t))
       /\ Generation(t) \notin Announced
       /\ worker[Generation(t)].state # "releasing"
       /\ \A u \in Tasks :
            pc[u] \in SenderPcs /\ Generation(u) = Generation(t) => u = t
  /\ \A g \in Gen : worker[g].state = "releasing" => Gone(g) /\ g \notin Announced
  /\ \A g \in Announced : Gone(g)

LEMMA GoneStable ==
  ASSUME TInv, SlotOrder, SlotEffect, NEW g, Gone(g)
  PROVE  Gone(g)'
<1>1. CASE UNCHANGED slotVars
  BY <1>1 DEF Gone, slotVars
<1>2. ASSUME NEW s \in Serials, NumberEffect(s)
      PROVE  Gone(g)'
  BY <1>2, SlotNumbers DEF Gone, NumberEffect, Reopened, Kept, Remembered
<1>3. QED
  BY <1>1, <1>2, NumberEffects

(* A slot that is removed is gone, and was not before.                     *)
LEMMA RemovedGone ==
  ASSUME TInv, SlotOrder, NEW s \in Serials, NEW g \in Gen,
         captures[s].generation = g, remember_and_remove(s)
  PROVE  Gone(g)' /\ ~ Gone(g)
<1>1. g # 0 /\ g <= next_generation /\ g \in 1 .. next_generation
  BY SlotNumbers DEF SlotOrder, Gen
<1>2. captures'[s].generation = 0
  BY DEF remember_and_remove, Empty, TInv, TypeOK
<1>3. \A r \in Serials \ {s} : captures'[r] = captures[r] /\ captures[r].generation # g
  BY <1>1 DEF remember_and_remove, TInv, TypeOK, SlotOrder
<1>4. QED
  BY <1>1, <1>2, <1>3 DEF Gone, remember_and_remove

LEMMA InSink ==
  \A g : g \in StoppedInSink <=>
    \E i \in 1 .. Len(sink) : sink[i].state = "Stopped" /\ sink[i].generation = g
  BY DEF StoppedInSink

LEMMA SendStoppedEffect ==
  ASSUME TInv, StoppedIsUnique, NEW s \in Serials, NEW g \in Gen, g \notin Announced,
         Send(s, g, "Stopped")
  PROVE  Announced' = Announced \cup {g} /\ StoppedIsUnique'
<1> DEFINE e == [serial |-> s, generation |-> g, state |-> "Stopped"]
<1>1. /\ sink \in Seq(Event) /\ e \in Event
      /\ sink' = Append(sink, e) /\ received' = received
  BY DEF TInv, TypeOK, Send, Event
<1>2. /\ Len(sink') = Len(sink) + 1
      /\ sink'[Len(sink) + 1] = e
      /\ \A i \in 1 .. Len(sink) : sink'[i] = sink[i]
      /\ Len(sink) \in Nat
  BY <1>1
<1>3. \A h : h \in StoppedInSink' <=>
         \E i \in 1 .. Len(sink') : sink'[i].state = "Stopped" /\ sink'[i].generation = h
  BY DEF StoppedInSink
<1>4. StoppedInSink' = StoppedInSink \cup {g}
  BY <1>2, <1>3, InSink
<1>5. \A i \in 1 .. Len(sink) : sink[i].state = "Stopped" => sink[i].generation # g
  BY InSink DEF Announced
<1>6. StoppedIsUnique'
  BY <1>1, <1>2, <1>5 DEF StoppedIsUnique, Announced
<1>7. QED
  BY <1>1, <1>4, <1>6 DEF Announced

LEMMA NoStoppedEffect ==
  ASSUME TInv, StoppedIsUnique, NoStopped
  PROVE  Announced' = Announced /\ StoppedIsUnique'
<1>1. CASE UNCHANGED eventVars
  BY <1>1 DEF eventVars, Announced, StoppedInSink, StoppedIsUnique
<1>2. ASSUME NEW s \in Serials, NEW g \in Gen, Send(s, g, "Running")
      PROVE  Announced' = Announced /\ StoppedIsUnique'
  <2> DEFINE e == [serial |-> s, generation |-> g, state |-> "Running"]
  <2>1. /\ sink \in Seq(Event) /\ e \in Event
        /\ sink' = Append(sink, e) /\ received' = received
    BY <1>2 DEF TInv, TypeOK, Send, Event
  <2>2. /\ Len(sink') = Len(sink) + 1
        /\ sink'[Len(sink) + 1] = e
        /\ \A i \in 1 .. Len(sink) : sink'[i] = sink[i]
        /\ Len(sink) \in Nat
    BY <2>1
  <2>3. \A h : h \in StoppedInSink' <=>
           \E i \in 1 .. Len(sink') : sink'[i].state = "Stopped" /\ sink'[i].generation = h
    BY DEF StoppedInSink
  <2>4. StoppedInSink' = StoppedInSink
    <3>1. \A h : h \in StoppedInSink' => h \in StoppedInSink
      BY <2>2, <2>3, InSink
    <3>2. \A h : h \in StoppedInSink => h \in StoppedInSink'
      BY <2>2, <2>3, InSink
    <3>3. QED
      BY <3>1, <3>2
  <2>5. StoppedIsUnique'
    BY <2>1, <2>2 DEF StoppedIsUnique
  <2>6. QED
    BY <2>1, <2>4, <2>5 DEF Announced
<1>3. QED
  BY <1>1, <1>2 DEF NoStopped

LEMMA DeliverEffect ==
  ASSUME TInv, StoppedIsUnique, Deliver
  PROVE  Announced' = Announced /\ StoppedIsUnique'
<1>1. /\ sink \in Seq(Event) /\ sink # <<>> /\ sink' = Tail(sink)
      /\ Len(sink) \in Nat \ {0}
      /\ Len(sink') = Len(sink) - 1
      /\ \A i \in 1 .. Len(sink') : sink'[i] = sink[i + 1]
      /\ Head(sink) = sink[1]
  BY DEF Deliver, TInv, TypeOK
<1>2. \A h : h \in StoppedInSink' <=>
         \E i \in 1 .. Len(sink') : sink'[i].state = "Stopped" /\ sink'[i].generation = h
  BY DEF StoppedInSink
<1>3. received' = IF sink[1].state = "Stopped"
                  THEN received \cup {sink[1].generation} ELSE received
  BY <1>1 DEF Deliver
<1>4. \A h : h \in Announced' => h \in Announced
  BY <1>1, <1>2, <1>3, InSink DEF Announced
<1>5. \A h : h \in StoppedInSink => h \in Announced'
  <2> SUFFICES ASSUME NEW i \in 1 .. Len(sink), sink[i].state = "Stopped"
               PROVE  sink[i].generation \in Announced'
    BY InSink
  <2>1. CASE i = 1
    BY <1>3, <2>1 DEF Announced
  <2>2. CASE i # 1
    <3>1. i - 1 \in 1 .. Len(sink') /\ sink'[i - 1] = sink[i]
      BY <1>1, <2>2
    <3>2. QED
      BY <1>2, <3>1 DEF Announced
  <2>3. QED
    BY <2>1, <2>2
<1>6. StoppedIsUnique'
  <2> SUFFICES ASSUME NEW i \in 1 .. Len(sink'), sink'[i].state = "Stopped"
               PROVE  /\ sink'[i].generation \notin received'
                      /\ \A j \in 1 .. Len(sink') :
                           sink'[j].state = "Stopped"
                             /\ sink'[j].generation = sink'[i].generation => j = i
    BY DEF StoppedIsUnique
  <2>1. i + 1 \in 1 .. Len(sink) /\ sink'[i] = sink[i + 1]
    BY <1>1
  <2>2. sink[i + 1].generation \notin received
    BY <2>1 DEF StoppedIsUnique
  <2>3. sink[1].state = "Stopped" => sink[1].generation # sink[i + 1].generation
    BY <1>1, <2>1 DEF StoppedIsUnique
  <2>4. \A j \in 1 .. Len(sink') : j + 1 \in 1 .. Len(sink) /\ sink'[j] = sink[j + 1]
    BY <1>1
  <2>5. \A j \in 1 .. Len(sink') :
           sink'[j].state = "Stopped" /\ sink'[j].generation = sink'[i].generation => j = i
    BY <2>1, <2>4, SMTT(30) DEF StoppedIsUnique
  <2>6. QED
    BY <1>3, <2>1, <2>2, <2>3, <2>5
<1>7. QED
  BY <1>3, <1>4, <1>5, <1>6 DEF Announced
LEMMA CustodyInit == Init => Custody /\ StoppedIsUnique
  BY DEF Init, Custody, StoppedIsUnique, Announced, StoppedInSink, SenderPcs, NoWorker

(* Nobody new owes a Stopped, and none is sent.                            *)
LEMMA CustodyKept ==
  ASSUME TInv, SlotOrder, SlotEffect, Custody, NoRelease, Announced' = Announced,
         \A u \in Tasks : pc'[u] \in SenderPcs =>
           pc[u] \in SenderPcs /\ Generation(u)' = Generation(u)
  PROVE  Custody'
<1>1. \A g : Gone(g) => Gone(g)'
  BY GoneStable
<1>2. \A u \in Tasks : pc'[u] \in SenderPcs => Generation(u)' \in Gen
  BY RoleSerial DEF RolePcs
<1>3. ASSUME NEW t \in Tasks, pc'[t] \in SenderPcs
      PROVE  /\ Gone(Generation(t))'
             /\ Generation(t)' \notin Announced'
             /\ worker'[Generation(t)'].state # "releasing"
             /\ \A u \in Tasks :
                  pc'[u] \in SenderPcs /\ Generation(u)' = Generation(t)' => u = t
  <2>1. pc[t] \in SenderPcs /\ Generation(t)' = Generation(t)
    BY <1>3
  <2>2. Gone(Generation(t))'
    BY <1>1, <2>1 DEF Custody, Gone
  <2>3. worker'[Generation(t)'].state # "releasing"
    BY <1>2, <1>3, <2>1 DEF Custody, NoRelease
  <2>4. QED
    BY <2>1, <2>2, <2>3 DEF Custody
<1>4. \A g \in Gen : worker'[g].state = "releasing" => Gone(g)' /\ g \notin Announced'
  BY <1>1 DEF Custody, NoRelease
<1>5. \A g \in Announced' : Gone(g)'
  BY <1>1 DEF Custody
<1>6. QED
  BY <1>3, <1>4, <1>5 DEF Custody

LEMMA CustodyRemoves ==
  ASSUME TInv, SlotOrder, SlotEffect, Custody, NoRelease, Announced' = Announced,
         NEW t \in Tasks, OthersStay(t), Removes(t)
  PROVE  Custody'
<1>1. PICK g \in Gen, s \in Serials :
         /\ g = Generation(t) /\ s = Serial(t)
         /\ captures[s].generation = g /\ remember_and_remove(s)
  BY RoleSerial DEF Removes, RolePcs, Holds
<1>2. Gone(g)' /\ ~ Gone(g)
  BY <1>1, RemovedGone
<1>3. \A h : Gone(h) => Gone(h)'
  BY GoneStable
<1>4. Generation(t)' = g
  BY <1>1 DEF Removes, Generation
<1>5. \A u \in Tasks \ {t} : pc'[u] \in SenderPcs =>
         /\ pc[u] \in SenderPcs /\ Generation(u)' = Generation(u)
         /\ Generation(u) # g /\ Generation(u) \in Gen
  <2> SUFFICES ASSUME NEW u \in Tasks \ {t}, pc'[u] \in SenderPcs
               PROVE  /\ pc[u] \in SenderPcs /\ Generation(u)' = Generation(u)
                      /\ Generation(u) # g /\ Generation(u) \in Gen
    OBVIOUS
  <2>1. pc[u] \in SenderPcs /\ Generation(u)' = Generation(u)
    BY DEF OthersStay, RolePcs, Generation
  <2>2. Gone(Generation(u))
    BY <2>1 DEF Custody
  <2>3. QED
    BY <1>2, <2>1, <2>2, RoleSerial DEF RolePcs
<1>6. g \notin Announced /\ worker[g].state # "releasing"
  BY <1>1, <1>2 DEF Custody
<1>7. \A u \in Tasks : pc'[u] \in SenderPcs =>
         /\ Gone(Generation(u))'
         /\ Generation(u)' \notin Announced'
         /\ worker'[Generation(u)'].state # "releasing"
  <2> SUFFICES ASSUME NEW u \in Tasks, pc'[u] \in SenderPcs
               PROVE  /\ Gone(Generation(u))'
                      /\ Generation(u)' \notin Announced'
                      /\ worker'[Generation(u)'].state # "releasing"
    OBVIOUS
  <2>1. CASE u = t
    BY <1>1, <1>2, <1>4, <1>6, <2>1 DEF NoRelease, Gone
  <2>2. CASE u # t
    BY <1>3, <1>5, <2>2 DEF Custody, NoRelease, Gone
  <2>3. QED
    BY <2>1, <2>2
<1>8. \A u, v \in Tasks :
         pc'[u] \in SenderPcs /\ pc'[v] \in SenderPcs /\ Generation(u)' = Generation(v)' => u = v
  BY <1>4, <1>5 DEF Custody
<1>9. \A h \in Gen : worker'[h].state = "releasing" => Gone(h)' /\ h \notin Announced'
  BY <1>3 DEF Custody, NoRelease
<1>10. \A h \in Announced' : Gone(h)'
  BY <1>3 DEF Custody
<1>11. QED
  BY <1>7, <1>8, <1>9, <1>10 DEF Custody

LEMMA CustodySends ==
  ASSUME TInv, SlotOrder, SlotEffect, Custody, StoppedIsUnique, NoRelease,
         NEW t \in Tasks, OthersStay(t), Sends(t)
  PROVE  Custody' /\ StoppedIsUnique'
<1> DEFINE g == Generation(t)
<1>1. Serial(t) \in Serials /\ g \in Gen
  BY RoleSerial DEF Sends, RolePcs
<1>2. Gone(g) /\ g \notin Announced /\ worker[g].state # "releasing"
  BY DEF Custody, Sends
<1>3. Announced' = Announced \cup {g} /\ StoppedIsUnique'
  BY <1>1, <1>2, SendStoppedEffect DEF Sends
<1>4. \A h : Gone(h) => Gone(h)'
  BY GoneStable
<1>5. \A u \in Tasks : pc'[u] \in SenderPcs =>
         /\ u # t /\ pc[u] \in SenderPcs /\ Generation(u)' = Generation(u)
         /\ Generation(u) \in Gen
  BY RoleSerial DEF Sends, OthersStay, RolePcs, Generation
<1>6. \A u \in Tasks : pc'[u] \in SenderPcs =>
         /\ Gone(Generation(u))'
         /\ Generation(u)' \notin Announced'
         /\ worker'[Generation(u)'].state # "releasing"
         /\ \A v \in Tasks :
              pc'[v] \in SenderPcs /\ Generation(v)' = Generation(u)' => u = v
  <2> SUFFICES ASSUME NEW u \in Tasks, pc'[u] \in SenderPcs
               PROVE  /\ Gone(Generation(u))'
                      /\ Generation(u)' \notin Announced'
                      /\ worker'[Generation(u)'].state # "releasing"
                      /\ \A v \in Tasks :
                           pc'[v] \in SenderPcs /\ Generation(v)' = Generation(u)' => u = v
    OBVIOUS
  <2>1. Generation(u) # g
    BY <1>5 DEF Custody, Sends
  <2>2. Gone(Generation(u))'
    BY <1>4, <1>5 DEF Custody, Gone
  <2>3. QED
    BY <1>3, <1>5, <2>1, <2>2 DEF Custody, NoRelease
<1>7. \A h \in Gen : worker'[h].state = "releasing" => Gone(h)' /\ h \notin Announced'
  BY <1>2, <1>3, <1>4 DEF Custody, NoRelease
<1>8. \A h \in Announced' : Gone(h)'
  BY <1>2, <1>3, <1>4 DEF Custody
<1>9. QED
  BY <1>3, <1>6, <1>7, <1>8 DEF Custody
LEMMA CustodyReleases ==
  ASSUME TInv, SlotOrder, SlotEffect, Custody, Announced' = Announced,
         NEW g \in Gen, Releases(g)
  PROVE  Custody'
<1>1. PICK s \in Serials : captures[s].generation = g /\ remember_and_remove(s)
  BY DEF Releases, Holds
<1>2. Gone(g)' /\ ~ Gone(g)
  BY <1>1, RemovedGone
<1>3. \A h : Gone(h) => Gone(h)'
  BY GoneStable
<1>4. \A h \in Gen : worker'[h].state = "releasing" => h = g \/ worker[h].state = "releasing"
  BY DEF Releases, TInv, TypeOK
<1>5. \A u \in Tasks : pc'[u] \in SenderPcs =>
         /\ pc[u] \in SenderPcs /\ Generation(u)' = Generation(u)
         /\ Generation(u) \in Gen
  BY RoleSerial DEF Releases, Generation, RolePcs
<1>6. \A u \in Tasks : pc[u] \in SenderPcs => Generation(u) # g
  BY <1>2 DEF Custody
<1>7. g \notin Announced
  BY <1>2 DEF Custody
<1>8. \A u \in Tasks : pc'[u] \in SenderPcs =>
         /\ Gone(Generation(u))'
         /\ Generation(u)' \notin Announced'
         /\ worker'[Generation(u)'].state # "releasing"
         /\ \A v \in Tasks :
              pc'[v] \in SenderPcs /\ Generation(v)' = Generation(u)' => u = v
  <2> SUFFICES ASSUME NEW u \in Tasks, pc'[u] \in SenderPcs
               PROVE  /\ Gone(Generation(u))'
                      /\ Generation(u)' \notin Announced'
                      /\ worker'[Generation(u)'].state # "releasing"
                      /\ \A v \in Tasks :
                           pc'[v] \in SenderPcs /\ Generation(v)' = Generation(u)' => u = v
    OBVIOUS
  <2>1. Gone(Generation(u))'
    BY <1>3, <1>5 DEF Custody, Gone
  <2>2. QED
    BY <1>4, <1>5, <1>6, <2>1 DEF Custody
<1>9. \A h \in Gen : worker'[h].state = "releasing" => Gone(h)' /\ h \notin Announced'
  BY <1>2, <1>3, <1>4, <1>7 DEF Custody
<1>10. \A h \in Announced' : Gone(h)'
  BY <1>3 DEF Custody
<1>11. QED
  BY <1>8, <1>9, <1>10 DEF Custody

LEMMA CustodyWorkerSend ==
  ASSUME TInv, SlotOrder, SlotEffect, Custody, StoppedIsUnique,
         NEW g \in Gen, WorkerSend(g)
  PROVE  Custody' /\ StoppedIsUnique'
<1>1. worker[g].serial \in Serials /\ worker[g].state = "releasing"
  BY WorkerFields DEF WorkerSend, TInv
<1>2. Gone(g) /\ g \notin Announced
  BY <1>1 DEF Custody
<1>3. Announced' = Announced \cup {g} /\ StoppedIsUnique'
  BY <1>1, <1>2, SendStoppedEffect DEF WorkerSend
<1>4. \A h : Gone(h) => Gone(h)'
  BY GoneStable
<1>5. \A u \in Tasks : pc'[u] \in SenderPcs =>
         /\ pc[u] \in SenderPcs /\ Generation(u)' = Generation(u)
         /\ Generation(u) \in Gen
  <2>1. \A u \in Tasks : Awake[u] \in OwnerPcs => Awake[u] = pc[u]
    BY AwakeType DEF TInv
  <2>2. QED
    BY <2>1, RoleSerial DEF WorkerSend, Generation, RolePcs, OwnerPcs, SenderPcs
<1>6. \A h \in Gen : worker'[h].state = "releasing" => h # g /\ worker[h].state = "releasing"
  <2>1. worker[g] \in Worker /\ worker'[g] = [worker[g] EXCEPT !.state = "ended"]
    BY DEF WorkerSend, TInv, TypeOK
  <2>2. worker'[g].state = "ended"
    BY <2>1 DEF Worker, NoWorker
  <2>3. QED
    BY <2>2 DEF WorkerSend, TInv, TypeOK
<1>7. \A u \in Tasks : pc'[u] \in SenderPcs =>
         /\ Gone(Generation(u))'
         /\ Generation(u)' \notin Announced'
         /\ worker'[Generation(u)'].state # "releasing"
         /\ \A v \in Tasks :
              pc'[v] \in SenderPcs /\ Generation(v)' = Generation(u)' => u = v
  <2> SUFFICES ASSUME NEW u \in Tasks, pc'[u] \in SenderPcs
               PROVE  /\ Gone(Generation(u))'
                      /\ Generation(u)' \notin Announced'
                      /\ worker'[Generation(u)'].state # "releasing"
                      /\ \A v \in Tasks :
                           pc'[v] \in SenderPcs /\ Generation(v)' = Generation(u)' => u = v
    OBVIOUS
  <2>1. Gone(Generation(u))'
    BY <1>4, <1>5 DEF Custody, Gone
  <2>2. Generation(u) # g
    BY <1>1, <1>5 DEF Custody
  <2>3. QED
    BY <1>3, <1>5, <1>6, <2>1, <2>2 DEF Custody
<1>8. \A h \in Gen : worker'[h].state = "releasing" => Gone(h)' /\ h \notin Announced'
  BY <1>3, <1>4, <1>6 DEF Custody
<1>9. \A h \in Announced' : Gone(h)'
  BY <1>2, <1>3, <1>4 DEF Custody
<1>10. QED
  BY <1>3, <1>7, <1>8, <1>9 DEF Custody

LEMMA CustodyStep ==
  ASSUME TInv, SlotOrder, Custody, StoppedIsUnique, StepEffect
  PROVE  Custody' /\ StoppedIsUnique'
<1>1. SlotEffect
  BY SlotEffects
<1>2. ASSUME NEW t \in Tasks, OthersStay(t), TaskEffect(t), NoRelease
      PROVE  Custody' /\ StoppedIsUnique'
  <2>1. CASE Sends(t)
    BY <1>1, <1>2, <2>1, CustodySends
  <2>2. CASE NoStopped /\ Removes(t)
    BY <1>1, <1>2, <2>2, CustodyRemoves, NoStoppedEffect
  <2>3. CASE /\ NoStopped
             /\ Continues(t) \/ GivesUp(t) \/ Opens(t) \/ GoesLive(t) \/ Takes(t)
    <3>1. pc'[t] \in SenderPcs => pc[t] \in SenderPcs /\ call'[t] = call[t]
      BY <2>3 DEF Continues, GivesUp, Opens, GoesLive, Takes, SameRole, RolePcs,
                  SenderPcs, OpenerPcs, CloserPcs
    <3>2. \A u \in Tasks : pc'[u] \in SenderPcs =>
             pc[u] \in SenderPcs /\ Generation(u)' = Generation(u)
      BY <1>2, <3>1 DEF OthersStay, RolePcs, Generation
    <3>3. QED
      BY <1>1, <1>2, <2>3, <3>2, CustodyKept, NoStoppedEffect
  <2>4. QED
    BY <1>2, <2>1, <2>2, <2>3 DEF TaskEffect
<1>3. ASSUME NEW g \in Gen, Releases(g)
      PROVE  Custody' /\ StoppedIsUnique'
  <2>1. NoStopped
    BY <1>3 DEF Releases, NoStopped, eventVars
  <2>2. QED
    BY <1>1, <1>3, <2>1, CustodyReleases, NoStoppedEffect
<1>4. ASSUME NEW g \in Gen, WorkerSend(g)
      PROVE  Custody' /\ StoppedIsUnique'
  BY <1>1, <1>4, CustodyWorkerSend
<1>5. CASE Deliver
  <2>1. NoRelease /\ Announced' = Announced /\ StoppedIsUnique'
    BY <1>5, DeliverEffect DEF Deliver, NoRelease
  <2>2. \A u \in Tasks : pc'[u] = pc[u] /\ Generation(u)' = Generation(u)
    BY <1>5 DEF Deliver, Generation
  <2>3. QED
    BY <1>1, <2>1, <2>2, CustodyKept
<1>6. CASE Quiet
  <2>1. NoRelease /\ NoStopped
    BY <1>6 DEF Quiet, NoStopped, eventVars
  <2>2. \A u \in Tasks : pc'[u] = pc[u] /\ Generation(u)' = Generation(u)
    BY <1>6 DEF Quiet, Generation
  <2>3. QED
    BY <1>1, <2>1, <2>2, CustodyKept, NoStoppedEffect
<1>7. QED
  BY <1>2, <1>3, <1>4, <1>5, <1>6 DEF StepEffect

LEMMA CustodyInvariant == Spec => [](TInv /\ SlotOrder /\ Custody /\ StoppedIsUnique)
<1>1. TInv /\ SlotOrder /\ Custody /\ StoppedIsUnique /\ [Next]_vars
        => Custody' /\ StoppedIsUnique'
  BY StepEffects, CustodyStep
<1>2. QED
  BY <1>1, CustodyInit, SlotOrderInvariant, PTL DEF Spec

(* stop(), abandon_starting and release_if_current race to end a           *)
(* generation, and still at most one Stopped of it enters the channel.     *)
THEOREM OneStoppedPerGeneration == Spec => []StoppedIsUnique
  BY CustodyInvariant, PTL
-----------------------------------------------------------------------------
(* Every transient slot belongs to a call that is still running.           *)

OneCloser ==
  \A t, u \in Tasks :
    pc[t] \in CloserPcs /\ pc[u] \in CloserPcs /\ Serial(t) = Serial(u) => t = u

Closers == SlotHasItsTask /\ OneCloser

LEMMA ClosersInit == Init => Closers
  BY DEF Init, Closers, SlotHasItsTask, OneCloser, Empty, OpenerPcs, CloserPcs

(* Who opens or closes what, before and after a step that keeps the slots. *)
LEMMA ClosersKept ==
  ASSUME Closers, UNCHANGED captures,
         \A u \in Tasks : /\ pc'[u] \in OpenerPcs <=> pc[u] \in OpenerPcs
                          /\ pc'[u] \in CloserPcs <=> pc[u] \in CloserPcs
                          /\ pc[u] \in OpenerPcs \cup CloserPcs => call'[u] = call[u]
  PROVE  Closers'
<1>1. \A u \in Tasks : pc[u] \in OpenerPcs \cup CloserPcs =>
         call'[u].serial = call[u].serial /\ call'[u].generation = call[u].generation
  OBVIOUS
<1>2. SlotHasItsTask'
  BY <1>1 DEF Closers, SlotHasItsTask, WorksOn, Holds, Serial, Generation
<1>3. OneCloser'
  BY <1>1 DEF Closers, OneCloser, Serial
<1>4. QED
  BY <1>2, <1>3 DEF Closers

(* A step of task t that rewrites the slot it works on.                    *)
LEMMA ClosersRewritten ==
  ASSUME TInv, Closers, NEW s \in Serials, NEW t \in Tasks, OthersStay(t),
         s = call[t].serial,
         \A r \in Serials \ {s} : captures'[r] = captures[r],
         pc'[t] \in RolePcs => call'[t].serial = s,
         \/ captures[s].phase # "Stopping"
         \/ pc[t] \in CloserPcs,
         captures'[s].phase = "Starting" =>
           pc'[t] \in OpenerPcs /\ captures'[s].generation = call'[t].generation,
         captures'[s].phase = "Stopping" <=> pc'[t] \in CloserPcs,
         pc'[t] \in CloserPcs => captures'[s].generation = call'[t].generation
  PROVE  Closers'
<1> USE DEF Serial, Generation
<1>1. \A u \in Tasks \ {t} :
         /\ call'[u] = call[u]
         /\ pc'[u] \in OpenerPcs <=> pc[u] \in OpenerPcs
         /\ pc'[u] \in CloserPcs <=> pc[u] \in CloserPcs
  BY DEF OthersStay, RolePcs
<1>2. \A u \in Tasks \ {t} : pc[u] \in CloserPcs => call[u].serial # s
  BY DEF Closers, SlotHasItsTask, OneCloser, Holds
<1>3. pc'[t] \in OpenerPcs \cup CloserPcs => call'[t].serial = s
  BY DEF RolePcs
<1>4. ASSUME NEW r \in Serials \ {s}
      PROVE  /\ captures'[r].phase = "Starting" =>
                  \E u \in Tasks : WorksOn(u, r, captures[r].generation, OpenerPcs)'
             /\ captures'[r].phase = "Stopping" =>
                  \E u \in Tasks : WorksOn(u, r, captures[r].generation, CloserPcs)'
             /\ \A u \in Tasks : pc'[u] \in CloserPcs /\ call'[u].serial = r =>
                  Holds(r, Generation(u), {"Stopping"})'
  <2>1. captures'[r] = captures[r]
    OBVIOUS
  <2>2. \A u \in Tasks : call[u].serial = r => u # t
    OBVIOUS
  <2>3. \A g, pcs : \A u \in Tasks : WorksOn(u, r, g, pcs) => u # t
    BY <2>2 DEF WorksOn
  <2>4. \A g : \A u \in Tasks \ {t} : WorksOn(u, r, g, OpenerPcs) => WorksOn(u, r, g, OpenerPcs)'
    BY <1>1 DEF WorksOn
  <2>5. \A g : \A u \in Tasks \ {t} : WorksOn(u, r, g, CloserPcs) => WorksOn(u, r, g, CloserPcs)'
    BY <1>1 DEF WorksOn
  <2>6. \A u \in Tasks : pc'[u] \in CloserPcs /\ call'[u].serial = r =>
           Holds(r, Generation(u), {"Stopping"})'
    BY <1>1, <1>3, <2>1 DEF Closers, SlotHasItsTask, Holds
  <2>7. QED
    BY <2>1, <2>3, <2>4, <2>5, <2>6 DEF Closers, SlotHasItsTask
<1>5. /\ captures'[s].phase = "Starting" => WorksOn(t, s, captures[s].generation, OpenerPcs)'
      /\ captures'[s].phase = "Stopping" => WorksOn(t, s, captures[s].generation, CloserPcs)'
  BY <1>3 DEF WorksOn
<1>6. \A u \in Tasks : pc'[u] \in CloserPcs /\ call'[u].serial = s =>
         Holds(s, Generation(u), {"Stopping"})'
  BY <1>1, <1>2 DEF Holds
<1>7. SlotHasItsTask'
  BY <1>4, <1>5, <1>6 DEF SlotHasItsTask
<1>8. OneCloser'
  BY <1>1, <1>2, <1>3 DEF Closers, OneCloser
<1>9. QED
  BY <1>7, <1>8 DEF Closers

(* A task that gives up had lost its slot to somebody else.                *)
LEMMA ClosersGivesUp ==
  ASSUME TInv, Closers, NEW t \in Tasks, OthersStay(t), GivesUp(t)
  PROVE  Closers'
<1> USE DEF Serial, Generation
<1>1. UNCHANGED captures /\ Serial(t) \in Serials
  BY RoleSerial DEF GivesUp, slotVars, RolePcs
<1>2. pc[t] \notin CloserPcs
  BY <1>1 DEF GivesUp, Closers, SlotHasItsTask
<1>3. pc[t] \in OpenerPcs /\ ~ Holds(Serial(t), Generation(t), {"Starting"})
  BY <1>2 DEF GivesUp
<1>4. \A u \in Tasks \ {t} :
         /\ call'[u] = call[u]
         /\ pc'[u] \in OpenerPcs <=> pc[u] \in OpenerPcs
         /\ pc'[u] \in CloserPcs <=> pc[u] \in CloserPcs
  BY DEF OthersStay, RolePcs
<1>5. pc'[t] \notin OpenerPcs \cup CloserPcs
  BY DEF GivesUp, RolePcs
<1>6. ASSUME NEW s \in Serials
      PROVE  /\ captures[s].phase = "Starting" =>
                  \E u \in Tasks \ {t} : WorksOn(u, s, captures[s].generation, OpenerPcs)
             /\ captures[s].phase = "Stopping" =>
                  \E u \in Tasks \ {t} : WorksOn(u, s, captures[s].generation, CloserPcs)
  BY <1>2, <1>3 DEF Closers, SlotHasItsTask, WorksOn, Holds
<1>7. SlotHasItsTask'
  BY <1>1, <1>4, <1>5, <1>6 DEF Closers, SlotHasItsTask, WorksOn, Holds
<1>8. OneCloser'
  BY <1>4, <1>5 DEF Closers, OneCloser
<1>9. QED
  BY <1>7, <1>8 DEF Closers

LEMMA ClosersReleases ==
  ASSUME TInv, Closers, NEW g \in Gen, Releases(g)
  PROVE  Closers'
<1>1. PICK s \in Serials : Holds(s, g, {"Starting", "Live"}) /\ remember_and_remove(s)
  BY DEF Releases
<1>2. captures'[s] = Empty /\ \A r \in Serials \ {s} : captures'[r] = captures[r]
  BY <1>1 DEF remember_and_remove, TInv, TypeOK
<1>3. pc' = pc /\ call' = call
  BY DEF Releases
<1>4. SlotHasItsTask'
  BY <1>1, <1>2, <1>3 DEF Closers, SlotHasItsTask, WorksOn, Holds, Empty, Serial, Generation
<1>5. OneCloser'
  BY <1>3 DEF Closers, OneCloser, Serial
<1>6. QED
  BY <1>4, <1>5 DEF Closers

LEMMA RoleKinds ==
  ASSUME NEW p \in RolePcs
  PROVE  /\ p \in OpenerPcs => p \notin CloserPcs \cup SenderPcs
         /\ p \in CloserPcs => p \notin OpenerPcs \cup SenderPcs
         /\ p \in SenderPcs => p \notin OpenerPcs \cup CloserPcs
  BY DEF RolePcs, OpenerPcs, CloserPcs, SenderPcs

LEMMA ClosersTask ==
  ASSUME TInv, Closers, NEW t \in Tasks, OthersStay(t), TaskEffect(t)
  PROVE  Closers'
<1> DEFINE s == call[t].serial
<1>1. CASE Continues(t) \/ Sends(t)
  <2>1. /\ pc'[t] \in OpenerPcs <=> pc[t] \in OpenerPcs
        /\ pc'[t] \in CloserPcs <=> pc[t] \in CloserPcs
        /\ pc[t] \in OpenerPcs \cup CloserPcs => call'[t] = call[t]
        /\ UNCHANGED captures
    BY <1>1, RoleKinds DEF Continues, Sends, SameRole, RolePcs, slotVars
  <2>2. \A u \in Tasks : /\ pc'[u] \in OpenerPcs <=> pc[u] \in OpenerPcs
                         /\ pc'[u] \in CloserPcs <=> pc[u] \in CloserPcs
                         /\ pc[u] \in OpenerPcs \cup CloserPcs => call'[u] = call[u]
    BY <2>1 DEF OthersStay, RolePcs
  <2>3. QED
    BY <2>1, <2>2, ClosersKept
<1>2. CASE GivesUp(t)
  BY <1>2, ClosersGivesUp
<1>3. CASE Opens(t)
  <2>1. s \in Serials
    BY <1>3, CallFields DEF Opens, Serial
  <2>2. /\ captures'[s] = [phase |-> "Starting", generation |-> next_generation + 1,
                           handles |-> FALSE]
        /\ captures[s].phase = "Empty"
        /\ \A r \in Serials \ {s} : captures'[r] = captures[r]
    BY <1>3, <2>1 DEF Opens, Opened, Empty, Serial, TInv, TypeOK
  <2>3. QED
    BY <1>3, <2>1, <2>2, RoleKinds, ClosersRewritten DEF Opens, RolePcs
<1>4. CASE GoesLive(t)
  <2>1. s \in Serials
    BY <1>4, RoleSerial DEF GoesLive, RolePcs, Serial
  <2>2. /\ captures'[s].phase = "Live" /\ captures[s].phase = "Starting"
        /\ \A r \in Serials \ {s} : captures'[r] = captures[r]
    BY <1>4, <2>1 DEF GoesLive, Repainted, Serial, TInv, TypeOK
  <2>3. QED
    BY <1>4, <2>1, <2>2, ClosersRewritten DEF GoesLive, RolePcs
<1>5. CASE Takes(t)
  <2>1. s \in Serials
    BY <1>5, CallFields DEF Takes, Serial
  <2>2. /\ captures'[s].phase = "Stopping" /\ captures[s].phase \in {"Starting", "Live"}
        /\ captures'[s].generation = captures[s].generation
        /\ \A r \in Serials \ {s} : captures'[r] = captures[r]
    BY <1>5, <2>1 DEF Takes, Repainted, Serial, TInv, TypeOK
  <2>3. QED
    BY <1>5, <2>1, <2>2, ClosersRewritten DEF Takes, RolePcs, Serial
<1>6. CASE Removes(t)
  <2>1. s \in Serials
    BY <1>6, RoleSerial DEF Removes, RolePcs, Serial
  <2>2. /\ captures'[s].phase = "Empty"
        /\ \A r \in Serials \ {s} : captures'[r] = captures[r]
    BY <1>6, <2>1 DEF Removes, remember_and_remove, Empty, Serial, TInv, TypeOK
  <2>3. captures[s].phase # "Stopping" \/ pc[t] \in CloserPcs
    BY <1>6 DEF Removes, Holds, Serial
  <2>4. QED
    BY <1>6, <2>1, <2>2, <2>3, RoleKinds, ClosersRewritten DEF Removes, RolePcs
<1>7. QED
  BY <1>1, <1>2, <1>3, <1>4, <1>5, <1>6 DEF TaskEffect

LEMMA ClosersStep ==
  ASSUME TInv, Closers, StepEffect
  PROVE  Closers'
<1>1. ASSUME NEW t \in Tasks, OthersStay(t), TaskEffect(t)
      PROVE  Closers'
  BY <1>1, ClosersTask
<1>2. ASSUME NEW g \in Gen, Releases(g)
      PROVE  Closers'
  BY <1>2, ClosersReleases
<1>3. ASSUME NEW g \in Gen, WorkerSend(g)
      PROVE  Closers'
  <2>1. \A u \in Tasks : /\ Awake[u] \in OwnerPcs <=> pc[u] \in OwnerPcs
                         /\ Awake[u] \in OwnerPcs => Awake[u] = pc[u]
    BY AwakeType DEF TInv
  <2>2. OpenerPcs \cup CloserPcs \subseteq OwnerPcs
    BY DEF OwnerPcs
  <2>3. UNCHANGED captures /\ pc' = Awake /\ call' = call
    BY <1>3 DEF WorkerSend, slotVars
  <2>4. \A u \in Tasks : /\ pc'[u] \in OpenerPcs <=> pc[u] \in OpenerPcs
                         /\ pc'[u] \in CloserPcs <=> pc[u] \in CloserPcs
    BY <2>1, <2>2, <2>3
  <2>5. QED
    BY <2>3, <2>4, ClosersKept
<1>4. CASE Deliver \/ Quiet
  BY <1>4, ClosersKept DEF Deliver, Quiet, slotVars
<1>5. QED
  BY <1>1, <1>2, <1>3, <1>4 DEF StepEffect

(* No slot stays Starting or Stopping without the call that must move it   *)
(* on, and a stop() that took a slot still finds it when its join is over. *)
THEOREM TransientSlotsHaveTasks == Spec => []SlotHasItsTask
<1>1. TInv /\ Closers /\ [Next]_vars => Closers'
  BY StepEffects, ClosersStep
<1>2. Closers => SlotHasItsTask
  BY DEF Closers
<1>3. QED
  BY <1>1, <1>2, ClosersInit, TypeInvariant, PTL DEF Spec

-----------------------------------------------------------------------------
(* The abstract slot                                                        *)

abstractSlot == [s \in Serials |-> [phase |-> captures[s].phase,
                                    generation |-> captures[s].generation]]

AbstractStep == [Abstract!Next]_(Abstract!slotSpecVars)

LEMMA AbstractInit == Init => Abstract!Init
<1> SUFFICES ASSUME Init PROVE Abstract!Init
  OBVIOUS
<1>1. abstractSlot = [s \in Serials |-> Abstract!NoSlot]
  BY DEF Init, abstractSlot, Empty, Abstract!NoSlot
<1>2. received \cup StoppedInSink = {}
  BY DEF Init, StoppedInSink
<1>3. QED
  BY <1>1, <1>2 DEF Init, Abstract!Init, abstractSlot

(* The steps that rewrite one slot, as steps of the abstract slots.        *)
LEMMA AbstractSlotStep ==
  ASSUME TInv, SlotEffect, Announced' = Announced, ~ UNCHANGED slotVars
  PROVE  AbstractStep
<1> USE DEF TInv, TypeOK
<1>1. ASSUME NEW s \in Serials, NEW v,
             captures' = [captures EXCEPT ![s] = v]
      PROVE  abstractSlot' = [abstractSlot EXCEPT ![s] =
               [phase |-> v.phase, generation |-> v.generation]]
  BY <1>1 DEF abstractSlot
<1>2. ASSUME NEW s \in Serials, Opened(s)
      PROVE  Abstract!Open(s)
  <2>1. abstractSlot' = [abstractSlot EXCEPT ![s] =
          [phase |-> "Starting", generation |-> next_generation']]
    BY <1>1, <1>2 DEF Opened
  <2>2. abstractSlot[s] = Abstract!NoSlot
    BY <1>2 DEF Opened, abstractSlot, Empty, Abstract!NoSlot
  <2>3. QED
    BY <1>2, <2>1, <2>2 DEF Abstract!Open, abstractSlot, Announced, Opened
<1>3. ASSUME NEW s \in Serials, NEW to, NEW from,
             Repainted(s, from, to)
      PROVE  /\ abstractSlot' = [abstractSlot EXCEPT ![s].phase = to]
             /\ abstractSlot[s].phase \in from
             /\ UNCHANGED next_generation
  <2>1. PICK handles \in BOOLEAN :
          captures' = [captures EXCEPT ![s] =
            [phase |-> to, generation |-> captures[s].generation, handles |-> handles]]
    BY <1>3 DEF Repainted
  <2>2. abstractSlot' = [abstractSlot EXCEPT ![s] =
          [phase |-> to, generation |-> captures[s].generation]]
    BY <1>1, <2>1
  <2>3. [abstractSlot[s] EXCEPT !.phase = to] =
          [phase |-> to, generation |-> captures[s].generation]
    BY DEF abstractSlot
  <2>4. QED
    BY <1>3, <2>2, <2>3 DEF abstractSlot, Repainted
<1>4. ASSUME NEW s \in Serials, Repainted(s, {"Starting"}, "Live")
      PROVE  Abstract!GoLive(s)
  <2>1. /\ abstractSlot' = [abstractSlot EXCEPT ![s].phase = "Live"]
        /\ abstractSlot[s].phase = "Starting"
        /\ UNCHANGED next_generation
    BY <1>3, <1>4
  <2>2. QED
    BY <2>1 DEF Abstract!GoLive, abstractSlot, Announced
<1>5. ASSUME NEW s \in Serials, Repainted(s, {"Starting", "Live"}, "Stopping")
      PROVE  Abstract!Close(s)
  BY <1>3, <1>5 DEF Abstract!Close, abstractSlot, Announced
<1>6. ASSUME NEW s \in Serials, captures[s] # Empty, remember_and_remove(s)
      PROVE  Abstract!Drop(s)
  <2>1. abstractSlot' = [abstractSlot EXCEPT ![s] = Abstract!NoSlot]
    BY <1>1, <1>6 DEF remember_and_remove, Empty, Abstract!NoSlot
  <2>2. abstractSlot[s] # Abstract!NoSlot
    BY <1>6, SlotNumbers DEF abstractSlot, Abstract!NoSlot
  <2>3. QED
    BY <1>6, <2>1, <2>2 DEF Abstract!Drop, abstractSlot, Announced, remember_and_remove
<1>7. QED
  BY <1>2, <1>4, <1>5, <1>6 DEF SlotEffect, AbstractStep, Abstract!Next

LEMMA AbstractAnnounce ==
  ASSUME TInv, UNCHANGED slotVars, NEW g \in Gen, Gone(g), g \notin Announced,
         Announced' = Announced \cup {g}
  PROVE  AbstractStep
<1>1. Abstract!Gone(g)
  BY DEF Gone, Abstract!Gone
<1>2. Abstract!Announce(g)
  BY <1>1 DEF Abstract!Announce, Announced, slotVars
<1>3. g \in 1 .. next_generation
  BY DEF Gone
<1>4. QED
  BY <1>2, <1>3 DEF AbstractStep, Abstract!Next

LEMMA AbstractStutter ==
  ASSUME UNCHANGED slotVars, Announced' = Announced
  PROVE  AbstractStep
  BY DEF AbstractStep, Abstract!slotSpecVars, slotVars, Announced

LEMMA AbstractSteps ==
  ASSUME TInv, SlotOrder, Custody, StoppedIsUnique, StepEffect
  PROVE  AbstractStep
<1>1. SlotEffect
  BY SlotEffects
<1>2. ASSUME Announced' = Announced
      PROVE  AbstractStep
  BY <1>1, <1>2, AbstractSlotStep, AbstractStutter
<1>3. ASSUME NEW t \in Tasks, TaskEffect(t)
      PROVE  AbstractStep
  <2>1. CASE NoStopped
    BY <1>2, <2>1, NoStoppedEffect
  <2>2. CASE Sends(t)
    <3>1. PICK g \in Gen, s \in Serials : g = Generation(t) /\ s = Serial(t)
      BY <2>2, RoleSerial DEF Sends, RolePcs
    <3>2. Gone(g) /\ g \notin Announced /\ Send(s, g, "Stopped") /\ UNCHANGED slotVars
      BY <2>2, <3>1 DEF Sends, Custody
    <3>3. Announced' = Announced \cup {g}
      BY <3>2, SendStoppedEffect
    <3>4. QED
      BY <3>2, <3>3, AbstractAnnounce
  <2>3. QED
    BY <1>3, <2>1, <2>2 DEF TaskEffect
<1>4. ASSUME NEW g \in Gen, Releases(g)
      PROVE  AbstractStep
  <2>1. NoStopped
    BY <1>4 DEF Releases, NoStopped, eventVars
  <2>2. QED
    BY <1>2, <2>1, NoStoppedEffect
<1>5. ASSUME NEW g \in Gen, WorkerSend(g)
      PROVE  AbstractStep
  <2>1. PICK s \in Serials : Send(s, g, "Stopped") /\ worker[g].state = "releasing"
    BY <1>5, WorkerFields DEF WorkerSend, TInv
  <2>2. Gone(g) /\ g \notin Announced
    BY <2>1 DEF Custody
  <2>3. Announced' = Announced \cup {g}
    BY <2>1, <2>2, SendStoppedEffect
  <2>4. QED
    BY <1>5, <2>2, <2>3, AbstractAnnounce DEF WorkerSend
<1>6. CASE Deliver
  BY <1>2, <1>6, DeliverEffect
<1>7. CASE Quiet
  <2>1. NoStopped
    BY <1>7 DEF Quiet, NoStopped, eventVars
  <2>2. QED
    BY <1>2, <2>1, NoStoppedEffect
<1>8. QED
  BY <1>3, <1>4, <1>5, <1>6, <1>7 DEF StepEffect

(* The capture service implements the slot lifecycle it promises: one      *)
(* fresh generation per opening, one Stopped per generation, and never     *)
(* before the slot of that generation is gone.                             *)
THEOREM CaptureServiceImplementsCaptureSlot == Spec => AbstractSlot
<1>1. TInv /\ SlotOrder /\ Custody /\ StoppedIsUnique /\ [Next]_vars => AbstractStep
  BY StepEffects, AbstractSteps
<1>2. QED
  BY <1>1, AbstractInit, CustodyInvariant, PTL DEF Spec, AbstractSlot, Abstract!Spec,
     AbstractStep
=============================================================================
