---------------------------- MODULE BrowseSession ----------------------------
(***************************************************************************)
(* The browse sessions of yohu-files (browse.rs) and the shell's one list  *)
(* token (browse_runs.rs): attach, list, release, the forced detach of a   *)
(* device that went offline, and the reset after a change of the adb path. *)
(*                                                                         *)
(* A session is an Arc<BrowseSlot>, one for each generation, that a call   *)
(* goes on holding after the map has lost it. One action per section under *)
(* the map's or the slot's lock and per await.                             *)
(***************************************************************************)
EXTENDS Integers, FiniteSets

CONSTANTS
  Serials,  (* device serials                                              *)
  Openers,  (* tasks that run the IPC handler of attach                    *)
  Listers,  (* tasks that run that of list                                 *)
  Enders,   (* tasks that run release, the device catalog or set a path    *)
  MaxGen,   (* bound: generations handed out in one behaviour              *)
  MaxTool   (* bound: adb paths the user sets in one behaviour             *)

Callers == Openers \cup Listers \cup Enders

BrowseAssumption == MaxGen \in Nat \ {0} /\ MaxTool \in Nat \ {0}

VARIABLES
  slots,      (* the BrowseSlot of each generation                         *)
  sessions,   (* the map: the generation in each device's slot, 0 for none *)
  generation, (* next_generation                                           *)
  cancelled,  (* callers whose list token has been cancelled               *)
  tool,       (* which adb path is set, counted from 1                     *)
  call, pc,   (* the call of each task and where in it the task stands     *)
  result      (* what its last attach or list gave: a generation, 0 an Err *)

slotVars == <<slots, sessions, generation>>
vars == <<slotVars, cancelled, tool, call, pc, result>>

Gen == 1 .. MaxGen

(* A worker is the adb path its shell was opened with.                     *)
NoShell == 0
Oneshot == -1

Unborn == [state |-> "Unborn", worker |-> NoShell]
Closed == [state |-> "Closed", worker |-> NoShell]
Starting == [state |-> "Starting", worker |-> NoShell]
Live(worker) == [state |-> "Live", worker |-> worker]

Slots == {Unborn, Closed, Starting} \cup {Live(w) : w \in -1 .. MaxTool}

(* arc: the slot the call holds; shell: the shell it holds.                *)
NewCall(op, s, g) == [op |-> op, serial |-> s, generation |-> g, arc |-> 0,
                      shell |-> NoShell, attempt |-> 0]

NoCall == NewCall("none", "none", 0)

Ops == {"attach", "list", "release", "detach", "reset"}

UndecidedPcs == {"PeekAttach", "RecheckAttach", "WaitAttach", "Begin"}

Pcs == UndecidedPcs \cup
       {"Idle", "Open", "Publish", "CloseAbandoned", "RemoveAbandoned",
        "PeekList", "RecheckList", "WaitList", "Oneshot", "RecheckLive", "TakeWorker",
        "OpenWorker", "Exec", "Restore", "LookUp", "Finish",
        "RemoveSlot", "CloseSlot", "Replace", "SetTool", "DropWorkers"}

EXEC_ATTEMPTS == 2

SlotOf(c) == slots[call[c].arc]
IsStarting(g) == g # 0 /\ slots[g].state = "Starting"
IsLive(g) == g # 0 /\ slots[g].state = "Live"

At(c, from) == pc[c] = from

Goto(c, to) == pc' = [pc EXCEPT ![c] = to]

(* notify_waiters wakes every sleeper.                                     *)
GotoAndNotify(c, to) ==
  pc' = [[d \in Callers |-> CASE pc[d] = "WaitAttach" -> "PeekAttach"
                              [] pc[d] = "WaitList" -> "PeekList"
                              [] OTHER -> pc[d]] EXCEPT ![c] = to]

(* The call is over; a Notify may go with it.                              *)
Done(c, value) ==
  /\ call' = [call EXCEPT ![c] = NoCall]
  /\ result' = [result EXCEPT ![c] = value]

Return(c, value) == Goto(c, "Idle") /\ Done(c, value)

Stay == UNCHANGED <<call, result>>

-----------------------------------------------------------------------------
(* attach                                                                   *)

(* Bound: no more calls than there are generations left to hand out, so    *)
(* that Begin finds one in Gen.                                            *)
CallAttach(c, s) ==
  /\ At(c, "Idle")
  /\ generation + Cardinality({d \in Callers : pc[d] \in UndecidedPcs}) < MaxGen
  /\ Goto(c, "PeekAttach")
  /\ call' = [call EXCEPT ![c] = NewCall("attach", s, 0)]
  /\ result' = [result EXCEPT ![c] = 0]
  /\ UNCHANGED <<slotVars, cancelled, tool>>

(* peek_attach. attempt = 1 stands for `waiting`: who has waited for an    *)
(* attach that came to nothing does not try one of its own.                *)
PeekAttach(c) ==
  LET g == sessions[call[c].serial]
      waiting == call[c].attempt = 1
  IN
  /\ At(c, "PeekAttach")
  /\ \/ IsLive(g) /\ Return(c, g)
     \/ /\ IsStarting(g)
        /\ Goto(c, "RecheckAttach")
        /\ call' = [call EXCEPT ![c].attempt = 1]
        /\ UNCHANGED result
     \/ /\ ~IsLive(g) /\ ~IsStarting(g) /\ waiting
        /\ Return(c, 0)
     \/ /\ ~IsLive(g) /\ ~IsStarting(g) /\ ~waiting
        /\ Goto(c, "Begin") /\ Stay
  /\ UNCHANGED <<slotVars, cancelled, tool>>

(* still_starting, with the Notified future already created.               *)
RecheckAttach(c) ==
  /\ At(c, "RecheckAttach")
  /\ Goto(c, IF IsStarting(sessions[call[c].serial]) THEN "WaitAttach" ELSE "PeekAttach")
  /\ UNCHANGED <<slotVars, cancelled, tool, call, result>>

(* begin_attach: the slot is looked at again, and opened.                  *)
Begin(c) ==
  LET s == call[c].serial
      g == generation + 1
  IN
  /\ At(c, "Begin")
  /\ \/ /\ IsLive(sessions[s])
        /\ Return(c, sessions[s])
        /\ UNCHANGED slotVars
     \/ /\ IsStarting(sessions[s])
        /\ Goto(c, "PeekAttach")
        /\ Stay /\ UNCHANGED slotVars
     \/ /\ ~IsLive(sessions[s]) /\ ~IsStarting(sessions[s])
        /\ g \in Gen
        /\ generation' = g
        /\ slots' = [slots EXCEPT ![g] = Starting]
        /\ sessions' = [sessions EXCEPT ![s] = g]
        /\ call' = [call EXCEPT ![c].generation = g, ![c].shell = tool]
        /\ GotoAndNotify(c, "Open")
        /\ UNCHANGED result
  /\ UNCHANGED <<cancelled, tool>>

(* The handshake ends: with a shell, with a device that knows no -T, or    *)
(* with an error (offline, timeout, the slot's or the root token).         *)
Open(c) ==
  /\ At(c, "Open")
  /\ \/ Goto(c, "Publish") /\ UNCHANGED call
     \/ Goto(c, "Publish") /\ call' = [call EXCEPT ![c].shell = Oneshot]
     \/ Goto(c, "CloseAbandoned") /\ call' = [call EXCEPT ![c].shell = NoShell]
  /\ UNCHANGED <<slotVars, cancelled, tool, result>>

(* Mutant: the waiting calls are told only of failures.                    *)
PublishSilently(c) ==
  LET g == call[c].generation IN
  /\ At(c, "Publish")
  /\ IF sessions[call[c].serial] = g /\ IsStarting(g)
     THEN slots' = [slots EXCEPT ![g] = Live(call[c].shell)] /\ Done(c, g) /\ Goto(c, "Idle")
     ELSE UNCHANGED slots /\ Done(c, 0) /\ GotoAndNotify(c, "Idle")
  /\ UNCHANGED <<sessions, generation, cancelled, tool>>

(* publish_live: only into the Starting slot of this very generation.      *)
Publish(c) ==
  LET g == call[c].generation IN
  /\ At(c, "Publish")
  /\ IF sessions[call[c].serial] = g /\ IsStarting(g)
     THEN slots' = [slots EXCEPT ![g] = Live(call[c].shell)] /\ Done(c, g)
     ELSE UNCHANGED slots /\ Done(c, 0)
  /\ GotoAndNotify(c, "Idle")
  /\ UNCHANGED <<sessions, generation, cancelled, tool>>

(* abandon_starting, first section: close the slot if it is still ours.    *)
CloseAbandoned(c) ==
  LET g == call[c].generation
      s == call[c].serial
  IN
  /\ At(c, "CloseAbandoned")
  /\ \/ /\ sessions[s] = 0
        /\ Return(c, 0)
        /\ UNCHANGED slots
     \/ /\ sessions[s] = g /\ IsStarting(g)
        /\ slots' = [slots EXCEPT ![g] = Closed]
        /\ Goto(c, "RemoveAbandoned") /\ Stay
     \/ /\ sessions[s] # 0 /\ ~(sessions[s] = g /\ IsStarting(g))
        /\ GotoAndNotify(c, "Idle") /\ Done(c, 0)
        /\ UNCHANGED slots
  /\ UNCHANGED <<sessions, generation, cancelled, tool>>

(* Mutant: the entry of the device is removed, whatever it holds by now.   *)
RemoveAnything(c) ==
  /\ At(c, "RemoveAbandoned")
  /\ sessions' = [sessions EXCEPT ![call[c].serial] = 0]
  /\ GotoAndNotify(c, "Idle") /\ Done(c, 0)
  /\ UNCHANGED <<slots, generation, cancelled, tool>>

(* Second section: the entry goes if what it holds is closed.              *)
RemoveAbandoned(c) ==
  LET s == call[c].serial IN
  /\ At(c, "RemoveAbandoned")
  /\ sessions' = IF sessions[s] # 0 /\ slots[sessions[s]] = Closed
                 THEN [sessions EXCEPT ![s] = 0] ELSE sessions
  /\ GotoAndNotify(c, "Idle") /\ Done(c, 0)
  /\ UNCHANGED <<slots, generation, cancelled, tool>>

-----------------------------------------------------------------------------
(* release, the detach of went_offline, and reset_transport                *)

(* Every list so far loses its token: each replace cancelled the one       *)
(* before it.                                                              *)
replace == cancelled' = {c \in Callers : call[c].op = "list"}

CallRelease(c, s, g) ==
  /\ At(c, "Idle") /\ g <= generation
  /\ Goto(c, "RemoveSlot")
  /\ call' = [call EXCEPT ![c] = NewCall("release", s, g)]
  /\ UNCHANGED <<slotVars, cancelled, tool, result>>

WentOffline(c, s) ==
  /\ At(c, "Idle")
  /\ replace
  /\ Goto(c, "RemoveSlot")
  /\ call' = [call EXCEPT ![c] = NewCall("detach", s, 0)]
  /\ UNCHANGED <<slotVars, tool, result>>

(* release ends only the session the caller was given; detach ends any.    *)
Matches(c, g) ==
  /\ g # 0
  /\ call[c].op = "release" => g = call[c].generation /\ (IsStarting(g) \/ IsLive(g))

RemoveSlot(c) ==
  LET s == call[c].serial
      g == sessions[s]
  IN
  /\ At(c, "RemoveSlot")
  /\ \/ /\ Matches(c, g)
        /\ sessions' = [sessions EXCEPT ![s] = 0]
        /\ call' = [call EXCEPT ![c].arc = g]
        /\ Goto(c, "CloseSlot")
        /\ UNCHANGED result
     \/ /\ ~Matches(c, g)
        /\ IF call[c].op = "release" THEN Goto(c, "Idle") ELSE GotoAndNotify(c, "Idle")
        /\ Done(c, 0)
        /\ UNCHANGED sessions
  /\ UNCHANGED <<slots, generation, cancelled, tool>>

(* close_slot and notify; release then cancels the lists in flight.        *)
CloseSlot(c) ==
  /\ At(c, "CloseSlot")
  /\ slots' = [slots EXCEPT ![call[c].arc] = Closed]
  /\ \/ call[c].op = "release" /\ GotoAndNotify(c, "Replace") /\ Stay
     \/ call[c].op = "detach" /\ GotoAndNotify(c, "Idle") /\ Done(c, 0)
  /\ UNCHANGED <<sessions, generation, cancelled, tool>>

CallReset(c) ==
  /\ At(c, "Idle") /\ tool < MaxTool
  /\ tool' = tool + 1
  /\ Goto(c, "Replace")
  /\ call' = [call EXCEPT ![c] = NewCall("reset", "none", 0)]
  /\ UNCHANGED <<slotVars, cancelled, result>>

Replace(c) ==
  /\ At(c, "Replace")
  /\ replace
  /\ \/ call[c].op = "release" /\ Return(c, 0)
     \/ call[c].op = "reset" /\ Goto(c, "DropWorkers") /\ Stay
  /\ UNCHANGED <<slotVars, tool>>

(* drop_workers: the Live slots of the map, one after the other.           *)
DropWorkers(c) ==
  /\ At(c, "DropWorkers")
  /\ slots' = [g \in Gen |-> IF IsLive(g) /\ \E s \in Serials : sessions[s] = g
                             THEN Live(NoShell) ELSE slots[g]]
  /\ Return(c, 0)
  /\ UNCHANGED <<sessions, generation, cancelled, tool>>

-----------------------------------------------------------------------------
(* list                                                                     *)

CallList(c, s, g) ==
  /\ At(c, "Idle") /\ g <= generation
  /\ cancelled' = {d \in Callers : d # c /\ call[d].op = "list"}
  /\ Goto(c, "PeekList")
  /\ call' = [call EXCEPT ![c] = NewCall("list", s, g)]
  /\ result' = [result EXCEPT ![c] = 0]
  /\ UNCHANGED <<slotVars, tool>>

(* The head of list_raw's loop: the token, the slot, its state.            *)
PeekList(c) ==
  LET g == sessions[call[c].serial]
      own == g = call[c].generation
  IN
  /\ At(c, "PeekList")
  /\ \/ (c \in cancelled \/ ~own \/ ~(IsStarting(g) \/ IsLive(g))) /\ Return(c, 0)
     \/ /\ c \notin cancelled /\ own /\ (IsStarting(g) \/ IsLive(g))
        /\ call' = [call EXCEPT ![c].arc = g]
        /\ Goto(c, CASE IsStarting(g) -> "RecheckList"
                     [] slots[g] = Live(Oneshot) -> "Oneshot"
                     [] OTHER -> "TakeWorker")
        /\ UNCHANGED result
  /\ UNCHANGED <<slotVars, cancelled, tool>>

RecheckList(c) ==
  /\ At(c, "RecheckList")
  /\ Goto(c, IF SlotOf(c) = Starting THEN "WaitList" ELSE "PeekList")
  /\ UNCHANGED <<slotVars, cancelled, tool, call, result>>

(* list_oneshot: an adb shell for this one list. still_live looks at the   *)
(* slot the call holds.                                                    *)
RunOneshot(c) ==
  /\ At(c, "Oneshot")
  /\ \/ Return(c, 0)
     \/ c \notin cancelled /\ Goto(c, "RecheckLive") /\ Stay
  /\ UNCHANGED <<slotVars, cancelled, tool>>

RecheckLive(c) ==
  /\ At(c, "RecheckLive")
  /\ IF SlotOf(c).state = "Live" THEN Goto(c, "LookUp") /\ Stay ELSE Return(c, 0)
  /\ UNCHANGED <<slotVars, cancelled, tool>>

(* take_or_open_worker, the slot's lock section.                           *)
TakeWorker(c) ==
  LET g == call[c].arc
      w == slots[g].worker
  IN
  /\ At(c, "TakeWorker")
  /\ \/ ~IsLive(g) /\ Return(c, 0) /\ UNCHANGED slots
     \/ IsLive(g) /\ w = Oneshot /\ Goto(c, "Oneshot") /\ Stay /\ UNCHANGED slots
     \/ /\ IsLive(g) /\ w # Oneshot
        /\ slots' = [slots EXCEPT ![g] = Live(NoShell)]
        /\ call' = [call EXCEPT ![c].shell = IF w = NoShell THEN tool ELSE w,
                                ![c].attempt = @ + 1]
        /\ Goto(c, IF w = NoShell THEN "OpenWorker" ELSE "Exec")
        /\ UNCHANGED result
  /\ UNCHANGED <<sessions, generation, cancelled, tool>>

mark_oneshot(g) == slots' = IF IsLive(g) THEN [slots EXCEPT ![g] = Live(Oneshot)] ELSE slots

(* The worker is gone, so the list opens one, under its own token.         *)
OpenWorker(c) ==
  /\ At(c, "OpenWorker")
  /\ \/ c \notin cancelled /\ Goto(c, "Exec") /\ Stay /\ UNCHANGED slots
     \/ /\ mark_oneshot(call[c].arc)
        /\ call' = [call EXCEPT ![c].shell = NoShell]
        /\ Goto(c, "Oneshot") /\ UNCHANGED result
     \/ Return(c, 0) /\ UNCHANGED slots
  /\ UNCHANGED <<sessions, generation, cancelled, tool>>

(* exec: an answer, cancelled or out of time, a device that knows no -T,   *)
(* or a failure, which is tried once more. A shell that failed is dropped. *)
Exec(c) ==
  /\ At(c, "Exec")
  /\ \/ c \notin cancelled /\ Goto(c, "Restore") /\ Stay /\ UNCHANGED slots
     \/ Return(c, 0) /\ UNCHANGED slots
     \/ /\ mark_oneshot(call[c].arc)
        /\ call' = [call EXCEPT ![c].shell = NoShell]
        /\ Goto(c, "Oneshot") /\ UNCHANGED result
     \/ /\ call[c].attempt < EXEC_ATTEMPTS
        /\ call' = [call EXCEPT ![c].shell = NoShell]
        /\ Goto(c, "TakeWorker") /\ UNCHANGED <<result, slots>>
  /\ UNCHANGED <<sessions, generation, cancelled, tool>>

(* restore_worker: back into the slot if it is Live and not oneshot by now *)
Restore(c) ==
  LET g == call[c].arc IN
  /\ At(c, "Restore")
  /\ slots' = IF IsLive(g) /\ slots[g].worker # Oneshot
              THEN [slots EXCEPT ![g] = Live(call[c].shell)] ELSE slots
  /\ call' = [call EXCEPT ![c].shell = NoShell]
  /\ Goto(c, "RecheckLive")
  /\ UNCHANGED <<sessions, generation, cancelled, tool, result>>

(* list: slot_generation once more, the map and then the slot.             *)
LookUp(c) ==
  /\ At(c, "LookUp")
  /\ IF sessions[call[c].serial] = call[c].generation
     THEN Goto(c, "Finish") /\ Stay ELSE Return(c, 0)
  /\ UNCHANGED <<slotVars, cancelled, tool>>

Finish(c) ==
  /\ At(c, "Finish")
  /\ Return(c, IF IsLive(call[c].generation) THEN call[c].generation ELSE 0)
  /\ UNCHANGED <<slotVars, cancelled, tool>>

-----------------------------------------------------------------------------
Init ==
  /\ slots = [g \in Gen |-> Unborn]
  /\ sessions = [s \in Serials |-> 0]
  /\ generation = 0
  /\ cancelled = {}
  /\ tool = 1
  /\ call = [c \in Callers |-> NoCall]
  /\ pc = [c \in Callers |-> "Idle"]
  /\ result = [c \in Callers |-> 0]

Call(c) ==
  \/ c \in Openers /\ \E s \in Serials : CallAttach(c, s)
  \/ c \in Listers /\ \E s \in Serials, g \in Gen : CallList(c, s, g)
  \/ c \in Enders /\ \E s \in Serials, g \in Gen : CallRelease(c, s, g)
  \/ c \in Enders /\ \E s \in Serials : WentOffline(c, s)
  \/ c \in Enders /\ CallReset(c)

Step(c) ==
  \/ PeekAttach(c) \/ RecheckAttach(c) \/ Begin(c) \/ Open(c) \/ Publish(c)
  \/ CloseAbandoned(c) \/ RemoveAbandoned(c)
  \/ RemoveSlot(c) \/ CloseSlot(c) \/ Replace(c) \/ DropWorkers(c)
  \/ PeekList(c) \/ RecheckList(c) \/ RunOneshot(c) \/ RecheckLive(c)
  \/ TakeWorker(c) \/ OpenWorker(c) \/ Exec(c) \/ Restore(c) \/ LookUp(c) \/ Finish(c)

Next == \E c \in Callers : Call(c) \/ Step(c)

Spec == Init /\ [][Next]_vars

(* tokio runs every ready task; the handshake and exec have timeouts.      *)
FairSpec == Spec /\ \A c \in Callers : WF_vars(Step(c))
-----------------------------------------------------------------------------
(* Properties                                                               *)

TypeOK ==
  /\ slots \in [Gen -> Slots]
  /\ sessions \in [Serials -> 0 .. MaxGen]
  /\ generation \in 0 .. MaxGen
  /\ cancelled \subseteq Callers
  /\ tool \in 1 .. MaxTool
  /\ call \in [Callers -> [op : Ops \cup {"none"}, serial : Serials \cup {"none"},
                           generation : 0 .. MaxGen, arc : 0 .. MaxGen,
                           shell : -1 .. MaxTool, attempt : 0 .. EXEC_ATTEMPTS]]
  /\ pc \in [Callers -> Pcs]
  /\ result \in [Callers -> 0 .. MaxGen]

(* One that is open is in the map or in the hands of the call that closes  *)
(* it, and while it is Starting its attach still has to publish or to      *)
(* abandon it.                                                             *)
InHand(g) == \E c \in Callers : pc[c] = "CloseSlot" /\ call[c].arc = g

HasOwner(g) ==
  /\ IsStarting(g) \/ IsLive(g) => InHand(g) \/ \E s \in Serials : sessions[s] = g
  /\ IsStarting(g) /\ ~InHand(g) =>
       \E c \in Callers : /\ call[c].op = "attach" /\ call[c].generation = g
                          /\ pc[c] \in {"Open", "Publish", "CloseAbandoned"}

(* A list returns entries only of a session nobody has ended: not of one   *)
(* released, detached or replaced while the device was answering.          *)
ListIsCurrent ==
  [][\A c \in Callers :
       call[c].op = "list" /\ result[c] = 0 /\ result'[c] # 0
         => IsLive(result'[c])]_vars

(* No step makes a session leak: the shell process of one without an owner *)
(* would live as long as the application. And a Live session ends by the   *)
(* release of its own generation or because its device went offline; a     *)
(* stale release and a failing attach leave it be, and no session comes    *)
(* back.                                                                   *)
EndedBy(c, g) ==
  /\ pc[c] = "CloseSlot" /\ call[c].arc = g
  /\ call[c].op = "release" => call[c].generation = g

SessionsKeepOwners ==
  [][\A g \in Gen :
       /\ HasOwner(g)'
       /\ IsLive(g) /\ slots'[g] = Closed => \E c \in Callers : EndedBy(c, g)
       /\ slots[g] = Closed => slots'[g] = Closed]_vars

(* Every call returns: nobody sleeps through the end of the attach it      *)
(* waits for, though lists wait on a slot the map may have lost.           *)
BrowseCallsReturn == \A c \in Callers : pc[c] # "Idle" ~> pc[c] = "Idle"
=============================================================================
