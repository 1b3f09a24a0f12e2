------------------------- MODULE TaskCenter_proofs -------------------------
(***************************************************************************)
(* The task center gives every task to one holder at a time, and finishes  *)
(* none twice (TaskCenter.tla).                                            *)
(*                                                                         *)
(* A task that can still be finished is in one of three places: with the   *)
(* owner that registered it (tasks.rs, capture_runs.rs), in the entry of a *)
(* device in CaptureRuns, or in the hand of the dispatcher (events.rs).    *)
(* Custody says that it is in one of them only, and active there. It is    *)
(* what FinishedOnce lacks: of the owners, which no conjunct of it names,  *)
(* one moves a task into the map at RegisterRun and another finishes its   *)
(* own at JobEnds, whatever the map and the dispatcher hold then.          *)
(***************************************************************************)
EXTENDS TaskCenter, TLAPS

(* The owner has a task that it will finish, or hand to CaptureRuns.       *)
Holding(o) == pc[o] \in {"Snapshot", "EmitLossy", "RegisterRun", "Running"}

SlotOK ==
  /\ slot \in [Serials -> [phase : {"Empty", "Starting", "Live", "Stopping"},
                           generation : 0 .. MaxGen]]
  /\ \A s \in Serials : slot[s].phase # "Empty" => slot[s].generation \in Gen
  /\ issued \in 0 .. MaxGen
  /\ \A g \in 1 .. issued : device[g] \in Serials

(* Ids are handed out in order.                                            *)
FreshIds == \A id \in Id : id >= next => inner[id] = "absent"

HeldOnce ==
  \A o \in Owners : Holding(o) =>
    /\ task[o] \in Id /\ task[o] < next /\ inner[task[o]] = "active"
    /\ \A p \in Owners : Holding(p) /\ task[p] = task[o] => p = o
    /\ \A s \in Serials : runs[s] # task[o]
    /\ dispatcher.task # task[o]

MappedOnce ==
  \A s \in Serials : runs[s] # 0 =>
    /\ runs[s] < next /\ inner[runs[s]] = "active"
    /\ \A r \in Serials : runs[r] = runs[s] => r = s
    /\ dispatcher.task # runs[s]

InHand ==
  /\ dispatcher.task < next
  /\ dispatcher.at = "Recv" => dispatcher.task = 0
  /\ dispatcher.at = "SetDone" => dispatcher.task # 0 /\ inner[dispatcher.task] = "active"

Typed == TypeOK /\ SlotOK

Custody == FreshIds /\ HeldOnce /\ MappedOnce /\ InHand

-----------------------------------------------------------------------------
(* Facts about the types                                                   *)

LEMMA Bounds ==
  ASSUME CenterAssumption
  PROVE  /\ MaxGen \in Nat \ {0} /\ MaxTask \in Nat \ {0} /\ EventCap \in Nat \ {0}
         /\ \A j \in Jobs : j \notin Gen
         /\ NoTable \in Table
  BY DEF CenterAssumption, Gen, NoTable, Table

(* An event of the channel carries a table when it is a summary.           *)
LEMMA SummariesCarryTables ==
  ASSUME NEW e \in Event, e.kind = "summary"
  PROVE  e.tasks \in Table
<1>1. CASE \E s \in Serials : e = StoppedEvent(s)
  BY <1>1 DEF StoppedEvent
<1>2. CASE \E tasks \in Table : e = SummaryEvent(tasks)
  BY <1>2 DEF SummaryEvent
<1> QED
  BY <1>1, <1>2 DEF Event

LEMMA StoppedNamesDevice ==
  ASSUME NEW e \in Event, e.kind = "stopped"
  PROVE  e.serial \in Serials
<1>1. CASE \E s \in Serials : e = StoppedEvent(s)
  BY <1>1 DEF StoppedEvent
<1>2. CASE \E tasks \in Table : e = SummaryEvent(tasks)
  BY <1>2 DEF SummaryEvent
<1> QED
  BY <1>1, <1>2 DEF Event

(* Whatever is appended to the channel while it has room fits.             *)
LEMMA RoomIsEnough ==
  ASSUME CenterAssumption, sink \in Seq(Event), Room, NEW e \in Event
  PROVE  Append(sink, e) \in Seq(Event) /\ Len(Append(sink, e)) <= EventCap
  BY Bounds DEF Room

LEMMA ReceivedLeavesRoom ==
  ASSUME CenterAssumption, sink \in Seq(Event), Len(sink) <= EventCap, sink # <<>>
  PROVE  /\ Head(sink) \in Event
         /\ Tail(sink) \in Seq(Event) /\ Len(Tail(sink)) <= EventCap
  BY Bounds

(* A step of an owner from one place to the next.                          *)
LEMMA Steps ==
  ASSUME TypeOK
  PROVE  \A o \in Owners, from, to \in OwnerPcs : Goto(o, from, to) =>
           /\ pc' \in [Owners -> OwnerPcs]
           /\ pc[o] = from /\ pc'[o] = to
           /\ \A p \in Owners : p # o => pc'[p] = pc[p]
  BY DEF TypeOK, Goto

-----------------------------------------------------------------------------
(* Types                                                                   *)

LEMMA CaptureKeepsTypes ==
  ASSUME CenterAssumption, Typed, NEW s \in Serials, CaptureStep(s)
  PROVE  Typed'
<1> DEFINE g == slot[s].generation
<1>1. /\ MaxGen \in Nat /\ issued \in 0 .. MaxGen /\ slot[s].generation \in 0 .. MaxGen
      /\ slot \in [Serials -> [phase : {"Empty", "Starting", "Live", "Stopping"},
                               generation : 0 .. MaxGen]]
      /\ Gen \subseteq Owners /\ pc \in [Owners -> OwnerPcs]
  BY Bounds DEF Typed, TypeOK, SlotOK, Owners
<1>2. /\ UNCHANGED <<inner, next, runs, sending, shown, task, snap, dispatcher, sink>>
      /\ device' \in [Gen -> Serials \cup {"none"}]
  BY <1>1
  DEF Typed, TypeOK, CaptureStep, OpenCapture, CaptureLive, CloseCapture, DropCapture, shellVars
<1>3. slot[s].phase # "Empty" => g \in Gen
  BY DEF Typed, SlotOK
<1>4. /\ pc' \in [Owners -> OwnerPcs]
  BY <1>1 DEF CaptureStep, OpenCapture, CaptureLive, CloseCapture, DropCapture, Goto, OwnerPcs
<1>5. TypeOK'
  BY <1>2, <1>4 DEF Typed, TypeOK, Table
<1>6. SlotOK'
  <2>1. CASE OpenCapture(s)
    <3>1. issued' = issued + 1 /\ issued' \in Gen
      BY <1>1, <2>1 DEF OpenCapture, Captures!Open, Gen
    <3>2. slot' \in [Serials -> [phase : {"Empty", "Starting", "Live", "Stopping"},
                                 generation : 0 .. MaxGen]]
      BY <1>1, <2>1, <3>1 DEF OpenCapture, Captures!Open, Gen
    <3>3. \A r \in Serials : slot'[r].phase # "Empty" => slot'[r].generation \in Gen
      BY <1>1, <2>1, <3>1 DEF OpenCapture, Captures!Open, Typed, SlotOK
    <3>4. \A h \in 1 .. issued' : device'[h] = IF h = issued' THEN s ELSE device[h]
      BY <1>1, <2>1, <3>1 DEF OpenCapture, Typed, TypeOK, Gen
    <3>5. \A h \in 1 .. issued' : h # issued' => h \in 1 .. issued
      BY <1>1, <3>1
    <3>6. \A h \in 1 .. issued' : device'[h] \in Serials
      BY <3>4, <3>5 DEF Typed, SlotOK
    <3> QED
      BY <3>1, <3>2, <3>3, <3>6 DEF SlotOK, Gen
  <2>2. CASE CaptureLive(s)
    BY <1>1, <2>2 DEF Typed, CaptureLive, Captures!GoLive, SlotOK, Gen
  <2>3. CASE CloseCapture(s)
    BY <1>1, <2>3 DEF Typed, CloseCapture, Captures!Close, SlotOK, Gen
  <2>4. CASE DropCapture(s)
    BY <1>1, <2>4 DEF Typed, DropCapture, Captures!Drop, Captures!NoSlot, SlotOK, Gen
  <2> QED
    BY <2>1, <2>2, <2>3, <2>4 DEF CaptureStep
<1> QED
  BY <1>5, <1>6 DEF Typed

(* Steps of the owners, and of the tasks they spawn.                       *)
LEMMA OwnersKeepTypes ==
  ASSUME CenterAssumption, Typed,
         \/ \E o \in Owners : OwnerStep(o)
         \/ \E g \in Gen : AnnounceCapture(g) \/ RegisterRun(g)
         \/ \E j \in Jobs : StartJob(j) \/ JobEnds(j) \/ JobEmits(j)
         \/ \E id \in Id : SpawnedSend(id)
  PROVE  Typed'
<1>1. /\ TypeOK /\ SlotOK /\ Jobs \subseteq Owners /\ Gen \subseteq Owners
      /\ MaxTask \in Nat /\ NoTable \in Table
      /\ \A tasks \in Table : SummaryEvent(tasks) \in Event
  BY Bounds DEF Typed, Owners, Event
<1>2. \A id \in Nat : [inner EXCEPT ![id] = "done"] \in Table
  BY <1>1 DEF TypeOK, Table
<1>3. SlotOK'
  <2>1. slot' = slot /\ issued' = issued /\ device' = device
    BY DEF OwnerStep, Insert, Snapshot, EmitLossy, AnnounceCapture, Captures!Announce, RegisterRun,
           StartJob, JobEnds, JobEmits, SpawnedSend, slotVars, ownerVars
  <2> QED
    BY <1>1, <2>1 DEF SlotOK
<1>4. ASSUME NEW o \in Owners, OwnerStep(o)
      PROVE  TypeOK'
  <2>1. CASE Insert(o)
    <3>1. inner' \in Table /\ next' \in 1 .. MaxTask + 1 /\ task' \in [Owners -> 0 .. MaxTask]
      BY <1>1, <2>1 DEF Insert, TypeOK, Table, Id
    <3>2. pc' \in [Owners -> OwnerPcs]
      BY <1>1, <2>1 DEF Insert, TypeOK, Goto, OwnerPcs
    <3> QED
      BY <1>1, <2>1, <3>1, <3>2 DEF Insert, TypeOK
  <2>2. CASE Snapshot(o)
    <3>1. pc' \in [Owners -> OwnerPcs]
      BY <1>1, <2>2 DEF Snapshot, TypeOK, Goto, OwnerPcs
    <3> QED
      BY <1>1, <2>2, <3>1 DEF Snapshot, TypeOK
  <2>3. CASE EmitLossy(o)
    <3>1. pc' \in [Owners -> OwnerPcs]
      BY <1>1, <2>3 DEF EmitLossy, TypeOK, Goto, OwnerPcs
    <3>2. snap[o] \in Table /\ snap' \in [Owners -> Table]
      BY <1>1, <2>3 DEF EmitLossy, TypeOK
    <3>3. sink' \in Seq(Event) /\ Len(sink') <= EventCap
      BY <1>1, <2>3, <3>2, RoomIsEnough DEF EmitLossy, TypeOK
    <3> QED
      BY <1>1, <2>3, <3>1, <3>2, <3>3 DEF EmitLossy, TypeOK
  <2> QED
    BY <1>4, <2>1, <2>2, <2>3 DEF OwnerStep
<1>5. ASSUME NEW g \in Gen, AnnounceCapture(g)
      PROVE  TypeOK'
  <2>1. StoppedEvent(device[g]) \in Event
    BY <1>1, <1>5 DEF AnnounceCapture, Captures!Announce, Captures!Gone, SlotOK, Event
  <2>2. sink' \in Seq(Event) /\ Len(sink') <= EventCap
    BY <1>1, <1>5, <2>1, RoomIsEnough DEF AnnounceCapture, TypeOK
  <2> QED
    BY <1>1, <1>5, <2>2 DEF AnnounceCapture, TypeOK, shellVars
<1>6. ASSUME NEW g \in Gen, RegisterRun(g)
      PROVE  TypeOK'
  <2>1. pc' \in [Owners -> OwnerPcs] /\ runs' \in [Serials -> 0 .. MaxTask]
    BY <1>1, <1>6 DEF RegisterRun, TypeOK, Goto, OwnerPcs
  <2> QED
    BY <1>1, <1>6, <2>1 DEF RegisterRun, TypeOK, slotVars
<1>7. ASSUME NEW j \in Jobs, StartJob(j) \/ JobEnds(j) \/ JobEmits(j)
      PROVE  TypeOK'
  <2>1. pc' \in [Owners -> OwnerPcs] /\ task[j] \in Nat
    BY <1>1, <1>7, SMTT(30) DEF StartJob, JobEnds, JobEmits, TypeOK, Goto, OwnerPcs
  <2>2. inner' \in Table /\ sending' \in [Id -> Table] /\ sink' = sink
    BY <1>1, <1>2, <1>7, <2>1, ZenonT(40) DEF StartJob, JobEnds, JobEmits, SetDone, EmitFinish, TypeOK
  <2> QED
    BY <1>1, <1>7, <2>1, <2>2 DEF StartJob, JobEnds, JobEmits, TypeOK, slotVars
<1>8. ASSUME NEW id \in Id, SpawnedSend(id)
      PROVE  TypeOK'
  <2>1. /\ sending[id] \in Table /\ sending' \in [Id -> Table]
        /\ sink' = Append(sink, SummaryEvent(sending[id])) /\ Room
    BY <1>1, <1>8 DEF SpawnedSend, TypeOK
  <2>2. sink' \in Seq(Event) /\ Len(sink') <= EventCap
    BY <1>1, <2>1, RoomIsEnough DEF TypeOK
  <2> QED
    BY <1>1, <1>8, <2>1, <2>2 DEF SpawnedSend, TypeOK, ownerVars, slotVars
<1> QED
  BY <1>3, <1>4, <1>5, <1>6, <1>7, <1>8 DEF Typed

LEMMA DispatcherKeepsTypes ==
  ASSUME CenterAssumption, Typed, DispatcherStep
  PROVE  Typed'
<1>1. /\ TypeOK /\ SlotOK /\ MaxTask \in Nat /\ NoTable \in Table
      /\ dispatcher.task \in 0 .. MaxTask
  BY Bounds DEF Typed, TypeOK
<1>2. SlotOK'
  BY <1>1 DEF SlotOK, DispatcherStep, DispatchSummary, DispatchStopped, DispatcherSetsDone,
              DispatcherEmits, slotVars, ownerVars
<1> SUFFICES TypeOK'
  BY <1>2 DEF Typed
<1>3. CASE DispatchSummary
  <2>1. shown' \in Table /\ sink' \in Seq(Event) /\ Len(sink') <= EventCap
    BY <1>1, <1>3, ReceivedLeavesRoom, SummariesCarryTables DEF DispatchSummary, TypeOK
  <2> QED
    BY <1>1, <1>3, <2>1 DEF DispatchSummary, TypeOK, ownerVars, slotVars
<1>4. CASE DispatchStopped
  <2>1. sink' \in Seq(Event) /\ Len(sink') <= EventCap
    BY <1>1, <1>4, ReceivedLeavesRoom DEF DispatchStopped, TypeOK
  <2>2. Head(sink).serial \in Serials
    BY <1>1, <1>4, ReceivedLeavesRoom, StoppedNamesDevice DEF DispatchStopped, TypeOK
  <2>3. runs' \in [Serials -> 0 .. MaxTask]
    BY <1>1, <1>4, <2>2 DEF DispatchStopped, TakeRun, TypeOK
  <2>4. dispatcher' \in [at : {"Recv", "SetDone", "EmitFinish"}, task : 0 .. MaxTask]
    BY <1>1, <1>4, <2>2 DEF DispatchStopped, TakeRun, TypeOK, AtRecv
  <2> QED
    BY <1>1, <1>4, <2>1, <2>3, <2>4 DEF DispatchStopped, TypeOK, ownerVars, slotVars
<1>5. CASE DispatcherSetsDone
  <2>1. inner' \in Table
    BY <1>1, <1>5 DEF DispatcherSetsDone, SetDone, TypeOK, Table
  <2>2. dispatcher' \in [at : {"Recv", "SetDone", "EmitFinish"}, task : 0 .. MaxTask]
    BY <1>1, <1>5 DEF DispatcherSetsDone, TypeOK
  <2> QED
    BY <1>1, <1>5, <2>1, <2>2 DEF DispatcherSetsDone, TypeOK, ownerVars, slotVars
<1>6. CASE DispatcherEmits
  <2>1. sending' \in [Id -> Table] /\ sink' = sink
    BY <1>1, <1>6 DEF DispatcherEmits, EmitFinish, TypeOK
  <2>2. dispatcher' \in [at : {"Recv", "SetDone", "EmitFinish"}, task : 0 .. MaxTask]
    BY <1>1, <1>6 DEF DispatcherEmits, AtRecv
  <2> QED
    BY <1>1, <1>6, <2>1, <2>2 DEF DispatcherEmits, TypeOK, ownerVars, slotVars
<1> QED
  BY <1>3, <1>4, <1>5, <1>6 DEF DispatcherStep

LEMMA TypesKept ==
  ASSUME CenterAssumption, Typed, [Next]_vars
  PROVE  Typed'
<1>1. CASE UNCHANGED vars
  BY <1>1 DEF vars, slotVars, ownerVars, Typed, TypeOK, SlotOK
<1> QED
  BY <1>1, CaptureKeepsTypes, OwnersKeepTypes, DispatcherKeepsTypes DEF Next

-----------------------------------------------------------------------------
(* Who has a task                                                          *)

(* A step that touches no task, and gives none to an owner.                *)
LEMMA CustodyRests ==
  ASSUME Custody, UNCHANGED <<inner, next, runs, task, dispatcher>>,
         \A o \in Owners : Holding(o)' => Holding(o)
  PROVE  Custody'
  BY DEF Custody, FreshIds, HeldOnce, MappedOnce, InHand

(* What makes an active task inactive has that task from its one holder,   *)
(* who lets go of it.                                                      *)
LEMMA CustodyEnds ==
  ASSUME CenterAssumption, Typed, Custody,
         NEW id \in Id, id < next, SetDone(id),
         UNCHANGED <<next, runs, task>>,
         \A o \in Owners : Holding(o)' => Holding(o) /\ task[o] # id,
         \A s \in Serials : runs[s] # id,
         /\ dispatcher'.task = dispatcher.task
         /\ dispatcher'.at = "SetDone" => dispatcher'.at = dispatcher.at /\ dispatcher.task # id
         /\ dispatcher'.at = "Recv" => dispatcher.at = "Recv"
  PROVE  Custody'
<1>1. /\ inner \in Table /\ runs \in [Serials -> 0 .. MaxTask] /\ MaxTask \in Nat
      /\ next \in Nat
  BY Bounds DEF Typed, TypeOK
<1>2. \A t \in Id : inner'[t] = IF t = id THEN "done" ELSE inner[t]
  BY <1>1 DEF SetDone, Table
<1>3. FreshIds'
  BY <1>1, <1>2 DEF Custody, FreshIds, Id
<1>4. HeldOnce'
  BY <1>2 DEF Custody, HeldOnce
<1>5. MappedOnce'
  BY <1>1, <1>2 DEF Custody, MappedOnce, Id
<1>6. InHand'
  <2>1. dispatcher.task \in 0 .. MaxTask
    BY DEF Typed, TypeOK
  <2> QED
    BY <1>1, <1>2, <2>1 DEF Custody, InHand, Id
<1> QED
  BY <1>3, <1>4, <1>5, <1>6 DEF Custody

(* register: the id is new, and the owner is its holder.                   *)
LEMMA InsertKeepsCustody ==
  ASSUME CenterAssumption, Typed, Custody, NEW o \in Owners, Insert(o)
  PROVE  Custody'
<1>1. /\ inner \in Table /\ task \in [Owners -> 0 .. MaxTask] /\ next \in Id /\ next' = next + 1
      /\ runs \in [Serials -> 0 .. MaxTask] /\ dispatcher.task \in 0 .. MaxTask
      /\ runs' = runs /\ dispatcher' = dispatcher /\ MaxTask \in Nat
  BY Bounds DEF Typed, TypeOK, Insert
<1>2. \A t \in Id : inner'[t] = IF t = next THEN "active" ELSE inner[t]
  BY <1>1 DEF Insert, Table
<1>3. \A p \in Owners : task'[p] = IF p = o THEN next ELSE task[p]
  BY <1>1 DEF Insert
<1>4. /\ ~Holding(o) /\ Holding(o)'
      /\ \A p \in Owners : p # o => (Holding(p)' <=> Holding(p))
  BY DEF Insert, Goto, Holding, Typed, TypeOK
<1>5. FreshIds'
  BY <1>1, <1>2 DEF Custody, FreshIds, Id
<1>6. \A p \in Owners : Holding(p) => task[p] < next /\ task[p] \in Id
  BY DEF Custody, HeldOnce
<1>7. \A s \in Serials : runs[s] # 0 => runs[s] < next
  BY DEF Custody, MappedOnce
<1>8. HeldOnce'
  <2>1. ASSUME NEW p \in Owners, Holding(p)'
        PROVE  /\ task'[p] \in Id /\ task'[p] < next' /\ inner'[task'[p]] = "active"
               /\ \A s \in Serials : runs'[s] # task'[p]
               /\ dispatcher'.task # task'[p]
    <3>1. CASE p = o
      BY <1>1, <1>2, <1>3, <1>7, <3>1 DEF Id, Custody, InHand
    <3>2. CASE p # o
      BY <1>1, <1>2, <1>3, <1>4, <2>1, <3>2 DEF Id, Custody, HeldOnce
    <3> QED
      BY <3>1, <3>2
  <2>2. ASSUME NEW p \in Owners, NEW q \in Owners, Holding(p)', Holding(q)', task'[p] = task'[q]
        PROVE  p = q
    BY <1>1, <1>3, <1>4, <1>6, <2>2 DEF Id, Custody, HeldOnce
  <2> QED
    BY <2>1, <2>2 DEF HeldOnce
<1>9. MappedOnce'
  BY <1>1, <1>2, <1>7 DEF Custody, MappedOnce, Id
<1>10. InHand'
  BY <1>1, <1>2 DEF Custody, InHand, Id
<1> QED
  BY <1>5, <1>8, <1>9, <1>10 DEF Custody

(* The task of a capture goes from its owner into the map.                 *)
LEMMA RegisterRunKeepsCustody ==
  ASSUME CenterAssumption, Typed, Custody, NEW g \in Gen, RegisterRun(g)
  PROVE  Custody'
<1>1. g \in Owners /\ runs \in [Serials -> 0 .. MaxTask] /\ MaxTask \in Nat
  BY Bounds DEF Typed, TypeOK, Owners
<1>2. /\ Holding(g) /\ ~Holding(g)'
      /\ \A p \in Owners : p # g => (Holding(p)' <=> Holding(p))
  BY <1>1 DEF RegisterRun, Goto, Holding, Typed, TypeOK
<1>3. \A s \in Serials : runs'[s] = IF s = device[g] THEN task[g] ELSE runs[s]
  BY <1>1 DEF RegisterRun
<1>4. inner' = inner /\ next' = next /\ task' = task /\ dispatcher' = dispatcher
  BY DEF RegisterRun
<1>5. /\ task[g] \in Id /\ task[g] < next /\ inner[task[g]] = "active"
      /\ \A s \in Serials : runs[s] # task[g]
      /\ dispatcher.task # task[g]
  BY <1>1, <1>2 DEF Custody, HeldOnce
<1>6. HeldOnce'
  BY <1>1, <1>2, <1>3, <1>4 DEF Custody, HeldOnce
<1>7. MappedOnce'
  BY <1>3, <1>4, <1>5 DEF Custody, MappedOnce
<1>8. FreshIds' /\ InHand'
  BY <1>4 DEF Custody, FreshIds, InHand
<1> QED
  BY <1>6, <1>7, <1>8 DEF Custody

(* It goes from the map into the hand of the dispatcher.                   *)
LEMMA TakeRunKeepsCustody ==
  ASSUME CenterAssumption, Typed, Custody, DispatchStopped
  PROVE  Custody'
<1>1. /\ dispatcher.task = 0 /\ dispatcher.at = "Recv"
      /\ runs \in [Serials -> 0 .. MaxTask] /\ MaxTask \in Nat
  BY Bounds DEF Typed, TypeOK, DispatchStopped, AtRecv
<1>2. PICK s \in Serials : TakeRun(s)
  <2>1. Head(sink).serial \in Serials
    BY ReceivedLeavesRoom, StoppedNamesDevice DEF DispatchStopped, Typed, TypeOK
  <2> QED
    BY <2>1 DEF DispatchStopped
<1>3. \A r \in Serials : runs'[r] = IF r = s THEN 0 ELSE runs[r]
  BY <1>1, <1>2 DEF TakeRun
<1>4. /\ runs[s] = 0 => dispatcher'.task = 0 /\ dispatcher'.at = "Recv"
      /\ runs[s] # 0 => dispatcher'.task = runs[s] /\ dispatcher'.at = "SetDone"
  BY <1>2 DEF TakeRun, AtRecv
<1>5. inner' = inner /\ next' = next /\ task' = task /\ pc' = pc
  BY DEF DispatchStopped, ownerVars
<1>6. next \in 1 .. MaxTask + 1
  BY DEF Typed, TypeOK
<1>7. HeldOnce'
  BY <1>1, <1>3, <1>4, <1>5 DEF Custody, HeldOnce, Holding, Id
<1>8. MappedOnce'
  BY <1>1, <1>3, <1>4, <1>5 DEF Custody, MappedOnce
<1>9. FreshIds' /\ InHand'
  BY <1>1, <1>4, <1>5, <1>6 DEF Custody, FreshIds, InHand, MappedOnce
<1> QED
  BY <1>7, <1>8, <1>9 DEF Custody

LEMMA CustodyKept ==
  ASSUME CenterAssumption, Typed, Custody, [Next]_vars
  PROVE  Custody'
<1>1. CASE UNCHANGED vars
  BY <1>1, CustodyRests DEF vars, ownerVars, Holding
<1>2. ASSUME NEW s \in Serials, CaptureStep(s)
      PROVE  Custody'
  <2>1. UNCHANGED <<inner, next, runs, task, dispatcher>>
    BY <1>2 DEF CaptureStep, OpenCapture, CaptureLive, CloseCapture, DropCapture, shellVars
  <2>2. \A o \in Owners : Holding(o)' => Holding(o)
    BY <1>2 DEF CaptureStep, OpenCapture, CaptureLive, CloseCapture, DropCapture, Goto, Holding,
                Typed, TypeOK
  <2> QED
    BY <2>1, <2>2, CustodyRests
<1>3. ASSUME NEW g \in Gen, AnnounceCapture(g)
      PROVE  Custody'
  BY <1>3, CustodyRests DEF AnnounceCapture, shellVars, Holding
<1>4. ASSUME NEW j \in Jobs, StartJob(j) \/ JobEmits(j)
      PROVE  Custody'
  <2>1. \A o \in Owners : Holding(o)' => Holding(o)
    BY <1>4 DEF StartJob, JobEmits, Goto, Holding, Typed, TypeOK
  <2> QED
    BY <1>4, <2>1, CustodyRests DEF StartJob, JobEmits
<1>5. ASSUME NEW j \in Jobs, JobEnds(j)
      PROVE  Custody'
  <2>1. j \in Owners
    BY DEF Owners
  <2>2. /\ Holding(j) /\ ~Holding(j)'
        /\ \A o \in Owners : o # j => (Holding(o)' <=> Holding(o))
    BY <1>5, <2>1 DEF JobEnds, Goto, Holding, Typed, TypeOK
  <2>3. /\ task[j] \in Id /\ task[j] < next /\ dispatcher.task # task[j]
        /\ \A s \in Serials : runs[s] # task[j]
        /\ \A o \in Owners : Holding(o) /\ task[o] = task[j] => o = j
    BY <2>1, <2>2 DEF Custody, HeldOnce
  <2>4. SetDone(task[j]) /\ UNCHANGED <<next, runs, task, dispatcher>>
    BY <1>5 DEF JobEnds
  <2>5. \A o \in Owners : Holding(o)' => Holding(o) /\ task[o] # task[j]
    BY <2>2, <2>3
  <2> QED
    BY <2>3, <2>4, <2>5, CustodyEnds
<1>6. ASSUME NEW o \in Owners, Snapshot(o) \/ EmitLossy(o)
      PROVE  Custody'
  <2>1. \A p \in Owners : Holding(p)' => Holding(p)
    BY <1>6 DEF Snapshot, EmitLossy, Goto, Holding, Typed, TypeOK
  <2> QED
    BY <1>6, <2>1, CustodyRests DEF Snapshot, EmitLossy
<1>7. ASSUME NEW id \in Id, SpawnedSend(id)
      PROVE  Custody'
  BY <1>7, CustodyRests DEF SpawnedSend, ownerVars, Holding
<1>8. CASE DispatchSummary
  BY <1>8, CustodyRests DEF DispatchSummary, ownerVars, Holding
<1>9. CASE DispatcherSetsDone
  <2>1. /\ dispatcher.task < next /\ dispatcher.task \in Id /\ dispatcher.at = "SetDone"
        /\ dispatcher'.task = dispatcher.task /\ dispatcher'.at = "EmitFinish"
    BY <1>9, Bounds DEF DispatcherSetsDone, Custody, InHand, Typed, TypeOK, Id
  <2>2. UNCHANGED <<next, runs, task, pc>> /\ SetDone(dispatcher.task)
    BY <1>9 DEF DispatcherSetsDone, ownerVars
  <2>3. \A o \in Owners : Holding(o)' => Holding(o) /\ task[o] # dispatcher.task
    BY <2>2 DEF Custody, HeldOnce, Holding
  <2>4. \A s \in Serials : runs[s] # dispatcher.task
    BY <2>1, Bounds DEF Custody, MappedOnce, Id
  <2> QED
    BY <2>1, <2>2, <2>3, <2>4, CustodyEnds
<1>10. CASE DispatcherEmits
  <2>1. /\ UNCHANGED <<inner, next, runs, task, pc>>
        /\ dispatcher'.task = 0 /\ dispatcher'.at = "Recv"
    BY <1>10 DEF DispatcherEmits, AtRecv, ownerVars
  <2>2. FreshIds' /\ HeldOnce' /\ MappedOnce'
    BY <2>1, Bounds DEF Custody, FreshIds, HeldOnce, MappedOnce, Holding, Id
  <2>3. InHand'
    BY <2>1, Bounds DEF InHand, Typed, TypeOK
  <2> QED
    BY <2>2, <2>3 DEF Custody
<1>11. CASE \E o \in Owners : Insert(o)
  BY <1>11, InsertKeepsCustody
<1>12. CASE \E g \in Gen : RegisterRun(g)
  BY <1>12, RegisterRunKeepsCustody
<1>13. CASE DispatchStopped
  BY <1>13, TakeRunKeepsCustody
<1> QED
  BY <1>1, <1>2, <1>3, <1>4, <1>5, <1>6, <1>7, <1>8, <1>9, <1>10, <1>11, <1>12, <1>13
  DEF Next, OwnerStep, DispatcherStep

-----------------------------------------------------------------------------
(* The invariant, and what follows from it                                 *)

LEMMA InitCenter ==
  ASSUME CenterAssumption, Init
  PROVE  Typed /\ Custody
<1>1. SlotOK
  BY Bounds DEF Init, Captures!Init, Captures!NoSlot, SlotOK
<1>2. TypeOK
  BY Bounds DEF Init, TypeOK, NoTable, Table, OwnerPcs, AtRecv
<1>3. \A o \in Owners : ~Holding(o)
  BY DEF Init, Holding
<1>4. Custody
  BY <1>3 DEF Init, Custody, FreshIds, HeldOnce, MappedOnce, InHand, AtRecv, NoTable
<1> QED
  BY <1>1, <1>2, <1>4 DEF Typed

LEMMA CenterInvariant ==
  ASSUME CenterAssumption
  PROVE  Spec => [](Typed /\ Custody)
<1>1. Typed /\ Custody /\ [Next]_vars => (Typed /\ Custody)'
  BY TypesKept, CustodyKept
<1> QED
  BY <1>1, InitCenter, PTL DEF Spec

(* Every variable of the task center keeps its type: no id but those       *)
(* register() gave, no event beyond the capacity of the channel.           *)
THEOREM CenterTypes ==
  ASSUME CenterAssumption
  PROVE  Spec => []TypeOK
<1>1. Typed => TypeOK
  BY DEF Typed
<1> QED
  BY <1>1, CenterInvariant, PTL

(* No task is finished twice: the map of capture_runs.rs and the hand of   *)
(* the dispatcher hold active tasks only, each in one place.               *)
THEOREM TasksFinishOnce ==
  ASSUME CenterAssumption
  PROVE  Spec => []FinishedOnce
<1>1. Custody => FinishedOnce
  BY DEF Custody, MappedOnce, InHand, FinishedOnce
<1> QED
  BY <1>1, CenterInvariant, PTL

(* finish() of tasks.rs looks at nothing but the id it is given: that the  *)
(* task it makes inactive is an active one, and that no id is ever used    *)
(* again, is left to those who call it and register().                     *)
TasksOnlyAdvance ==
  \A id \in Id :
    \/ inner'[id] = inner[id]
    \/ inner[id] = "absent" /\ inner'[id] = "active"
    \/ inner[id] = "active" /\ inner'[id] = "done"

(* A task goes from absent to active and from active to done, and no other *)
(* way: none is finished that is not running, and none comes back.         *)
THEOREM TasksAdvance ==
  ASSUME CenterAssumption
  PROVE  Spec => [][TasksOnlyAdvance]_vars
<1>1. ASSUME Typed, Custody, [Next]_vars
      PROVE  [TasksOnlyAdvance]_vars
  <2>1. inner \in Table /\ Jobs \subseteq Owners /\ next \in Nat
    BY <1>1, Bounds DEF Typed, TypeOK, Owners
  <2>2. CASE UNCHANGED inner
    BY <2>2 DEF TasksOnlyAdvance
  <2>3. ASSUME NEW o \in Owners, Insert(o)
        PROVE  TasksOnlyAdvance
    <3>1. next \in Id /\ inner[next] = "absent" /\ inner' = [inner EXCEPT ![next] = "active"]
      BY <1>1, <2>1, <2>3 DEF Insert, Custody, FreshIds, Id
    <3> QED
      BY <2>1, <3>1 DEF TasksOnlyAdvance, Table
  <2>4. ASSUME NEW j \in Jobs, JobEnds(j)
        PROVE  TasksOnlyAdvance
    <3>1. j \in Owners /\ Holding(j)
      BY <2>1, <2>4 DEF JobEnds, Goto, Holding
    <3>2. task[j] \in Id /\ inner[task[j]] = "active" /\ SetDone(task[j])
      BY <1>1, <2>4, <3>1 DEF Custody, HeldOnce, JobEnds
    <3> QED
      BY <2>1, <3>2 DEF TasksOnlyAdvance, SetDone, Table
  <2>5. CASE DispatcherSetsDone
    <3>1. inner[dispatcher.task] = "active" /\ SetDone(dispatcher.task)
      BY <1>1, <2>5 DEF Custody, InHand, DispatcherSetsDone
    <3> QED
      BY <2>1, <3>1 DEF TasksOnlyAdvance, SetDone, Table
  <2> QED
    BY <1>1, <2>2, <2>3, <2>4, <2>5
    DEF Next, vars, CaptureStep, OpenCapture, CaptureLive, CloseCapture, DropCapture, shellVars,
        AnnounceCapture, RegisterRun, StartJob, JobEmits, OwnerStep, Snapshot, EmitLossy,
        SpawnedSend, DispatcherStep, DispatchSummary, DispatchStopped, DispatcherEmits
<1> QED
  BY <1>1, CenterInvariant, PTL DEF Spec
=============================================================================
