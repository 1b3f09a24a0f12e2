------------------------------ MODULE LogClient ------------------------------
(***************************************************************************)
(* The capture client of the UI (ui/packages/modules/logs/src/capture.ts,  *)
(* capture-event.ts, hold.ts) in front of one device.  Several windows     *)
(* share the device's one stream: who clicks first opens it, who leaves    *)
(* last stops it, and nobody but the holds of the windows says who that    *)
(* is.                                                                     *)
(*                                                                         *)
(* The UI is one thread: an action is what it does from one await to the   *)
(* next.  Its calls are served by the capture service, seen through        *)
(* CaptureSlot; answers and events reach it on separate ways, so either    *)
(* may overtake the other.                                                 *)
(***************************************************************************)
EXTENDS Integers, FiniteSets, Sequences, SequencesExt

CONSTANTS
  Windows,
  Device,
  EventCap,
  MaxGen,     \* bound: streams opened
  MaxClick    \* bound: clicks on start, stop, close and devices

ClientAssumption ==
  /\ EventCap \in Nat \ {0} /\ MaxGen \in Nat \ {0} /\ MaxClick \in Nat

VARIABLES
  slot, issued, announced,   \* the capture service, see CaptureSlot
  online,                    \* the device is in the catalog (require_online)
  ending,                    \* it went offline, its detach is still to come
  req,                       \* the call of a job to the service: where it is, its generation
  events,                    \* CaptureState and DeviceOffline on their way
  capturing, starting,       \* of each window
  closed,                    \* windows that are gone
  generation,                \* DeviceUiState.generation
  gate,                      \* runExclusive: the jobs of the device, in order
  at,                        \* where each job stands
  opened, shouldStop, startedGen, status,   \* what it remembers
  bind, setback,             \* bindSerial: the status it asks for; it has set generation back
  clicks

serviceVars == <<slot, issued, announced>>
deviceVars == <<online, ending>>
windowVars == <<capturing, starting, closed>>
jobVars == <<opened, shouldStop, startedGen, status>>
bindVars == <<bind, setback>>
vars == <<serviceVars, deviceVars, req, events, windowVars, generation, gate, at, jobVars,
          bindVars, clicks>>

Capture == INSTANCE CaptureSlot WITH Serials <- {Device}

Gen == 1 .. MaxGen
Job == Windows \X {"start", "stop"}
Call == Windows \X {"start", "stop", "idle", "close"}
NoCall == [at |-> "none", gen |-> 0]
NoStatus == [capturing |-> FALSE, gen |-> 0]
NoBind == [at |-> "none", gen |-> 0]

TypeOK ==
  /\ slot[Device].generation \in 0 .. MaxGen /\ issued \in 0 .. MaxGen /\ announced \subseteq Gen
  /\ online \in BOOLEAN /\ ending \in BOOLEAN
  /\ req \in [Call -> [at : {"none", "sent", "opening", "shown", "stopping", "answered"},
                       gen : 0 .. MaxGen]]
  /\ Len(events) <= EventCap
  /\ Range(events) \subseteq [kind : {"running", "stopped", "offline"}, gen : 0 .. MaxGen]
  /\ capturing \in [Windows -> BOOLEAN] /\ starting \in [Windows -> BOOLEAN]
  /\ closed \subseteq Windows
  /\ generation \in 0 .. MaxGen
  /\ Range(gate) \subseteq Job /\ Len(gate) <= 2 * Cardinality(Windows)
  /\ at \in [Job -> {"none", "gate", "processes", "call", "status", "answer", "page", "idle"}]
  /\ opened \in [Windows -> BOOLEAN] /\ shouldStop \in [Windows -> BOOLEAN]
  /\ startedGen \in [Windows -> 0 .. MaxGen]
  /\ status \in [Job -> [capturing : BOOLEAN, gen : 0 .. MaxGen]]
  /\ bind \in [at : {"none", "asked", "answered"}, gen : 0 .. MaxGen] /\ setback \in BOOLEAN
  /\ clicks \in 0 .. MaxClick
-----------------------------------------------------------------------------
(* hold.ts: a window holds the device while it captures or starts.         *)

Holds(w) == capturing[w] \/ starting[w]
Foreign(w) == \E v \in Windows \ {w} : Holds(v)
Held == \E w \in Windows : Holds(w)

(* The holds that are left when the windows ws are unsubscribed.           *)
HeldWithout(ws) == \E w \in Windows \ ws : Holds(w)

(* workspace.unsubscribeSession.                                           *)
Unsubscribe(ws) ==
  /\ capturing' = [w \in Windows |-> capturing[w] /\ w \notin ws]
  /\ starting' = [w \in Windows |-> starting[w] /\ w \notin ws]

Sent(c) == req[c].at = "none" /\ req' = [req EXCEPT ![c] = [at |-> "sent", gen |-> 0]]
Taken(c) == req' = [req EXCEPT ![c] = NoCall]
-----------------------------------------------------------------------------
(* The service: start, stop and the end of a stream (CaptureService).      *)

clientVars == <<windowVars, generation, gate, at, jobVars, bindVars, clicks>>

Push(e) == Len(events) < EventCap /\ events' = Append(events, e)

Phase == slot[Device].phase

ServeStart(w) ==
  LET c == <<w, "start">> IN
  /\ req[c].at = "sent"
  /\ \/ /\ ~online
        /\ req' = [req EXCEPT ![c].at = "answered"]
        /\ UNCHANGED serviceVars
     \/ /\ online /\ Phase = "Live"
        /\ req' = [req EXCEPT ![c] = [at |-> "answered", gen |-> slot[Device].generation]]
        /\ UNCHANGED serviceVars
     \/ /\ online /\ issued < MaxGen /\ Capture!Open(Device)
        /\ req' = [req EXCEPT ![c] = [at |-> "opening", gen |-> issued']]
  /\ UNCHANGED <<deviceVars, events, clientVars>>

SendRunning(w) ==
  LET c == <<w, "start">> IN
  /\ req[c].at = "opening"
  /\ Push([kind |-> "running", gen |-> req[c].gen])
  /\ req' = [req EXCEPT ![c].at = "shown"]
  /\ UNCHANGED <<serviceVars, deviceVars, clientVars>>

(* Live, or an error: the slot was taken meanwhile, or the device refused. *)
StartEnds(w) ==
  LET c == <<w, "start">>
      mine == slot[Device].generation = req[c].gen /\ Phase = "Starting"
  IN
  /\ \/ /\ req[c].at = "shown" /\ mine /\ Capture!GoLive(Device)
        /\ req' = [req EXCEPT ![c].at = "answered"]
     \/ /\ req[c].at \in {"opening", "shown"}
        /\ IF mine THEN Capture!Drop(Device) ELSE UNCHANGED serviceVars
        /\ req' = [req EXCEPT ![c] = [at |-> "answered", gen |-> 0]]
  /\ UNCHANGED <<deviceVars, events, clientVars>>

ServeStop(c) ==
  /\ c[2] # "start" /\ req[c].at = "sent"
  /\ \/ /\ Phase = "Empty"
        /\ req' = [req EXCEPT ![c].at = "answered"]
        /\ UNCHANGED serviceVars
     \/ /\ Capture!Close(Device)
        /\ req' = [req EXCEPT ![c] = [at |-> "stopping", gen |-> slot[Device].generation]]
  /\ UNCHANGED <<deviceVars, events, clientVars>>

(* The slot goes, and the stop returns once its Stopped is in the channel. *)
StopEnds(c) ==
  /\ req[c].at = "stopping"
  /\ IF slot[Device].generation = req[c].gen
     THEN Capture!Drop(Device) /\ UNCHANGED req
     ELSE /\ req[c].gen \in announced
          /\ req' = [req EXCEPT ![c] = [at |-> "answered", gen |-> 0]]
          /\ UNCHANGED serviceVars
  /\ UNCHANGED <<deviceVars, events, clientVars>>

(* The worker loses the device, or the detach of an offline device.        *)
StreamEnds ==
  /\ \/ Phase = "Live" /\ Capture!Drop(Device)
     \/ ending /\ Phase = "Starting" /\ Capture!Drop(Device)
     \/ ending /\ Phase = "Empty" /\ UNCHANGED serviceVars
  /\ ending' = FALSE
  /\ UNCHANGED <<online, req, events, clientVars>>

SendStopped(g) ==
  /\ Capture!Announce(g)
  /\ Push([kind |-> "stopped", gen |-> g])
  /\ UNCHANGED <<deviceVars, req, clientVars>>

GoOffline ==
  /\ online /\ online' = FALSE /\ ending' = TRUE
  /\ Push([kind |-> "offline", gen |-> 0])
  /\ clicks < MaxClick /\ clicks' = clicks + 1
  /\ UNCHANGED <<serviceVars, req, windowVars, generation, gate, at, jobVars, bindVars>>

(* The next scan finds the device again.  It comes 3 s later: its event    *)
(* and its detach are through by then.                                     *)
ComeBack ==
  /\ ~online /\ ~ending /\ \A i \in DOMAIN events : events[i].kind # "offline"
  /\ online' = TRUE
  /\ UNCHANGED <<serviceVars, ending, req, events, clientVars>>

(* status(): a slot that is Starting counts as capturing.                  *)
TheStatus ==
  IF Phase = "Empty"
  THEN [capturing |-> FALSE, gen |-> issued]
  ELSE [capturing |-> Phase # "Stopping", gen |-> slot[Device].generation]

AnswerStatus(j) ==
  /\ at[j] = "status"
  /\ at' = [at EXCEPT ![j] = "answer"]
  /\ status' = [status EXCEPT ![j] = TheStatus]
  /\ UNCHANGED <<serviceVars, deviceVars, req, events, windowVars, generation, gate,
                 opened, shouldStop, startedGen, bindVars, clicks>>
-----------------------------------------------------------------------------
(* Jobs go through the gate of the device one at a time.                   *)

Turn(j, from) == gate # <<>> /\ Head(gate) = j /\ at[j] = from
Goto(j, to) == at' = [at EXCEPT ![j] = to] /\ UNCHANGED gate
Leave(j) ==
  /\ at' = [at EXCEPT ![j] = "none"] /\ gate' = Tail(gate)

Click(j) ==
  /\ clicks < MaxClick /\ clicks' = clicks + 1
  /\ at[j] = "none"
  /\ at' = [at EXCEPT ![j] = "gate"] /\ gate' = Append(gate, j)

(* startCapture: the button of a window that does not hold.                *)
ClickStart(w) ==
  /\ w \notin closed /\ ~Holds(w) /\ Click(<<w, "start">>)
  /\ UNCHANGED <<serviceVars, deviceVars, req, events, windowVars, generation, jobVars,
                 bindVars>>

StartTurn(w) ==
  LET j == <<w, "start">> IN
  /\ Turn(j, "gate")
  /\ IF w \in closed \/ capturing[w]
     THEN Leave(j) /\ UNCHANGED starting
     ELSE Goto(j, "processes") /\ starting' = [starting EXCEPT ![w] = TRUE]
  /\ UNCHANGED <<serviceVars, deviceVars, req, events, capturing, closed, generation,
                 jobVars, bindVars, clicks>>

(* refreshProcesses has returned.  The first to hold opens the stream.     *)
StartCall(w) ==
  LET j == <<w, "start">> IN
  /\ Turn(j, "processes")
  /\ \/ ~Holds(w) /\ Leave(j) /\ UNCHANGED <<req, jobVars>>
     \/ /\ Holds(w) /\ opened' = [opened EXCEPT ![w] = ~Foreign(w)]
        /\ startedGen' = [startedGen EXCEPT ![w] = generation]
        /\ IF Foreign(w) THEN Goto(j, "status") /\ UNCHANGED req ELSE Goto(j, "call") /\ Sent(j)
        /\ UNCHANGED <<shouldStop, status>>
  /\ UNCHANGED <<serviceVars, deviceVars, events, windowVars, generation, bindVars,
                 clicks>>

(* Mutant: only the device itself ends a stream nobody holds.              *)
StopNever(j, w, held) == Leave(j) /\ UNCHANGED req

(* stopIfIdle, the last thing a start may do.                              *)
StopIfIdle(j, w, held) ==
  IF held
  THEN Leave(j) /\ UNCHANGED req
  ELSE Goto(j, "idle") /\ Sent(<<w, "idle">>)

(* logCaptureStart has returned.                                           *)
StartReturns(w) ==
  LET j == <<w, "start">>
      g == req[j].gen
  IN
  /\ Turn(j, "call") /\ req[j].at = "answered"
  /\ \/ /\ g = 0 /\ Leave(j) /\ Taken(j)
        /\ starting' = [starting EXCEPT ![w] = FALSE]
        /\ UNCHANGED <<generation, startedGen>>
     \/ /\ g # 0 /\ Holds(w) /\ Goto(j, "status") /\ Taken(j)
        /\ generation' = g /\ startedGen' = [startedGen EXCEPT ![w] = g]
        /\ UNCHANGED starting
     \/ /\ g # 0 /\ ~Holds(w)
        /\ at' = [at EXCEPT ![j] = "page"] /\ Taken(j)
        /\ UNCHANGED <<gate, generation, startedGen, starting>>
  /\ UNCHANGED <<serviceVars, deviceVars, events, capturing, closed, opened, shouldStop,
                 status, bindVars, clicks>>

(* confirmStart: only a status that says capturing subscribes the window.  *)
Confirm(w) ==
  LET j == <<w, "start">>
      s == status[j]
  IN
  /\ Turn(j, "answer")
  /\ generation' = IF Holds(w) /\ s.gen >= startedGen[w] THEN s.gen ELSE generation
  /\ IF Holds(w) /\ s.capturing
     THEN /\ capturing' = [capturing EXCEPT ![w] = TRUE]
          /\ starting' = [starting EXCEPT ![w] = FALSE]
     ELSE UNCHANGED <<capturing, starting>>
  /\ status' = [status EXCEPT ![j] = NoStatus]
  /\ Goto(j, "page")
  /\ UNCHANGED <<serviceVars, deviceVars, req, events, closed, opened, shouldStop,
                 startedGen, bindVars, clicks>>

(* The page is loaded: a window that is not live by now gives up its start *)
(* and, if it opened the stream and nobody holds it, stops it.             *)
StartDone(w) ==
  LET j == <<w, "start">> IN
  /\ Turn(j, "page")
  /\ starting' = [starting EXCEPT ![w] = FALSE]
  /\ StopIfIdle(j, w, capturing[w] \/ ~opened[w] \/ HeldWithout({w}))
  /\ UNCHANGED <<serviceVars, deviceVars, events, capturing, closed, generation,
                 jobVars, bindVars, clicks>>

IdleStopped(w) ==
  LET j == <<w, "start">> IN
  /\ Turn(j, "idle") /\ req[<<w, "idle">>].at = "answered"
  /\ Leave(j) /\ Taken(<<w, "idle">>)
  /\ UNCHANGED <<serviceVars, deviceVars, events, windowVars, generation, jobVars,
                 bindVars, clicks>>
-----------------------------------------------------------------------------
(* stopCapture: the last holder stops the stream at once, the rest waits   *)
(* for its turn.                                                           *)
ClickStop(w) ==
  LET j == <<w, "stop">> IN
  /\ w \notin closed /\ Holds(w) /\ Click(j)
  /\ shouldStop' = [shouldStop EXCEPT ![w] = ~Foreign(w)]
  /\ Unsubscribe({w})
  /\ IF Foreign(w) THEN UNCHANGED req ELSE Sent(j)
  /\ UNCHANGED <<serviceVars, deviceVars, events, closed, generation, opened,
                 startedGen, status, bindVars>>

StopTurn(w) ==
  LET j == <<w, "stop">> IN
  /\ Turn(j, "gate")
  /\ Unsubscribe({w})
  /\ IF shouldStop[w] THEN Goto(j, "call") ELSE Leave(j)
  /\ UNCHANGED <<serviceVars, deviceVars, req, events, closed, generation, jobVars,
                 bindVars, clicks>>

StopReturns(w) ==
  LET j == <<w, "stop">> IN
  /\ Turn(j, "call") /\ req[j].at = "answered"
  /\ Goto(j, "status") /\ Taken(j)
  /\ UNCHANGED <<serviceVars, deviceVars, events, windowVars, generation, jobVars,
                 bindVars, clicks>>

StopDone(w) ==
  LET j == <<w, "stop">> IN
  /\ Turn(j, "answer") /\ Leave(j)
  /\ IF status[j].capturing
     THEN UNCHANGED <<generation, capturing, starting>>
     ELSE generation' = status[j].gen /\ Unsubscribe(Windows)
  /\ status' = [status EXCEPT ![j] = NoStatus]
  /\ UNCHANGED <<serviceVars, deviceVars, req, events, closed, opened, shouldStop,
                 startedGen, bindVars, clicks>>

(* closeSession, closeOthers: the windows go, and the stream with them if  *)
(* they were the last to hold it.                                          *)
Close(ws) ==
  LET held == {w \in ws : Holds(w)} IN
  /\ clicks < MaxClick /\ clicks' = clicks + 1
  /\ ws \cap closed = {} /\ closed' = closed \cup ws
  /\ Unsubscribe(ws)
  /\ IF held = {} \/ HeldWithout(ws)
     THEN UNCHANGED req
     ELSE Sent(<<CHOOSE w \in held : TRUE, "close">>)
  /\ UNCHANGED <<serviceVars, deviceVars, events, generation, gate, at, jobVars,
                 bindVars>>

CloseReturns(w) ==
  /\ req[<<w, "close">>].at = "answered" /\ Taken(<<w, "close">>)
  /\ UNCHANGED <<serviceVars, deviceVars, events, clientVars>>
-----------------------------------------------------------------------------
(* bindSerial: the view shows another device, or this one anew, and asks   *)
(* for its status; a newer bind lets an older one fall.                    *)
Select ==
  /\ clicks < MaxClick /\ clicks' = clicks + 1
  /\ bind' \in {NoBind, [NoBind EXCEPT !.at = "asked"]}
  /\ UNCHANGED <<serviceVars, deviceVars, req, events, windowVars, generation, gate, at, jobVars,
                 setback>>

AnswerBind ==
  /\ bind.at = "asked" /\ bind' = [at |-> "answered", gen |-> TheStatus.gen]
  /\ UNCHANGED <<serviceVars, deviceVars, req, events, windowVars, generation, gate, at, jobVars,
                 setback, clicks>>

(* Outside the gate, and whatever generation is by now.                    *)
BindReturns ==
  /\ bind.at = "answered" /\ bind' = NoBind
  /\ generation' = bind.gen
  /\ setback' = (setback \/ bind.gen < generation)
  /\ UNCHANGED <<serviceVars, deviceVars, req, events, windowVars, gate, at, jobVars, clicks>>
-----------------------------------------------------------------------------
(* onCaptureState, onDeviceOffline.  An event of an older generation is    *)
(* ignored, one of the same or a newer one counts.                         *)
Deliver ==
  LET e == Head(events)
      ignored == \/ generation = 0 /\ ~Held
                 \/ e.gen < generation
  IN
  /\ events # <<>> /\ events' = Tail(events)
  /\ IF e.kind # "offline" /\ ignored
     THEN UNCHANGED <<generation, capturing, starting>>
     ELSE /\ generation' = e.gen
          /\ IF e.kind = "running"
             THEN UNCHANGED <<capturing, starting>>
             ELSE Unsubscribe(Windows)
  /\ UNCHANGED <<serviceVars, deviceVars, req, closed, gate, at, jobVars, bindVars,
                 clicks>>

Init ==
  /\ Capture!Init
  /\ online = TRUE /\ ending = FALSE /\ req = [c \in Call |-> NoCall] /\ events = <<>>
  /\ capturing = [w \in Windows |-> FALSE] /\ starting = [w \in Windows |-> FALSE]
  /\ closed = {} /\ generation = 0 /\ gate = <<>>
  /\ at = [j \in Job |-> "none"]
  /\ opened = [w \in Windows |-> FALSE] /\ shouldStop = [w \in Windows |-> FALSE]
  /\ startedGen = [w \in Windows |-> 0] /\ status = [j \in Job |-> NoStatus]
  /\ bind = NoBind /\ setback = FALSE /\ clicks = 0

Next ==
  \/ \E w \in Windows :
       \/ ServeStart(w) \/ SendRunning(w) \/ StartEnds(w)
       \/ ClickStart(w) \/ StartTurn(w) \/ StartCall(w) \/ StartReturns(w) \/ Confirm(w)
       \/ StartDone(w) \/ IdleStopped(w)
       \/ ClickStop(w) \/ StopTurn(w) \/ StopReturns(w) \/ StopDone(w)
       \/ CloseReturns(w)
  \/ \E c \in Call : ServeStop(c) \/ StopEnds(c)
  \/ \E j \in Job : AnswerStatus(j)
  \/ \E g \in 1 .. issued : SendStopped(g)
  \/ \E w \in Windows : Close({w})
  \/ StreamEnds \/ GoOffline \/ ComeBack \/ Deliver
  \/ Select \/ AnswerBind \/ BindReturns

Spec == Init /\ [][Next]_vars
-----------------------------------------------------------------------------
(* Nothing is on its way: no job, no call, no event, no end of a stream.   *)
AtRest ==
  /\ gate = <<>> /\ events = <<>> /\ ~ending
  /\ \A c \in Call : req[c].at = "none"
  /\ \A g \in 1 .. issued : slot[Device].generation = g \/ g \in announced

(* However clicks, closings and the device's own coming and going overlap: *)
(* in the end a window shows a capture if and only if there is one.  No    *)
(* stream runs that nobody holds, no window waits for lines of none.       *)
(* Except once the answer of a bind has set the generation back, which     *)
(* capture-event.ts forbids the events to do: a late Stopped of the older  *)
(* stream then closes the windows of the newer one.                        *)
WindowsMatchStream ==
  ~setback /\ AtRest => ((\E w \in Windows : capturing[w]) <=> Phase = "Live")
=============================================================================
