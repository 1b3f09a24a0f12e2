---------------------------- MODULE MirrorService ----------------------------
(***************************************************************************)
(* The mirror service of yohu-mirror (service.rs, slot.rs, warm.rs) with   *)
(* the session it drives (session.rs, tunnel.rs), for one device: starts   *)
(* and stops around one slot, the session task of each generation, and the *)
(* warmups that open a tunnel ahead of it. Devices share nothing but the   *)
(* Notify, whose extra wakeups only lead to another look.                  *)
(*                                                                         *)
(* One action per lock section and per await. A sender of events may wait  *)
(* for room as long as it likes; of what is sent only the ends are kept.   *)
(***************************************************************************)
EXTENDS Integers, FiniteSets

CONSTANTS
  Starters,  (* tasks that run start                                       *)
  Stoppers,  (* tasks that run stop                                        *)
  Joiners,   (* tasks that run the background join of an offline device    *)
  MaxGen,    (* bound: sessions begun in one behaviour                     *)
  MaxWarm,   (* bound: warmups begun in one behaviour                      *)
  MaxTask    (* bound: sessions and warmups together, and the exit         *)

MirrorAssumption == MaxGen \in Nat \ {0} /\ MaxWarm \in Nat \ {0} /\ MaxTask \in Nat

VARIABLES
  slot,           (* the MirrorSlot of the device                          *)
  next,           (* next_generation                                       *)
  cancelled,      (* generations whose token has been cancelled, and Root  *)
  call, pc,       (* the start or stop of each task, and where it stands   *)
  session,        (* the drive_session task of each generation             *)
  warm,           (* the WarmEntry of the device                           *)
  warmups, begun, (* the warmup tasks, and how many there have been        *)
  dropped,        (* warmups whose token has been cancelled                *)
  tunnels,        (* tunnels adb keeps up                                  *)
  ends            (* how often the end of each generation has been sent   *)

slotVars == <<slot, next, cancelled>>
callVars == <<call, pc>>
warmVars == <<warm, warmups, begun, dropped>>
vars == <<slotVars, callVars, session, warmVars, tunnels, ends>>

Gen == 1 .. MaxGen
Warmup == 1 .. MaxWarm
Callers == Starters \cup Stoppers \cup Joiners

(* A tunnel is named after the warmup or the session that opened it.       *)
NoTunnel == 0
OwnTunnel(g) == MaxWarm + g
Tunnel == 1 .. MaxWarm + MaxGen

Empty == [generation |-> 0, phase |-> "Empty", handle |-> FALSE]
NoWarm == [state |-> "None", by |-> 0, match |-> FALSE]
NoCall == [op |-> "none", generation |-> 0, tunnel |-> NoTunnel]
NoSession == [at |-> "None", tunnel |-> NoTunnel, result |-> "Ended",
              tried |-> FALSE]

(* Every token is a child of root_cancel, which the exit of the program    *)
(* cancels.                                                                *)
Root == 0
Cancelled(g) == g \in cancelled \/ Root \in cancelled
WarmCancelled(w) == w \in dropped \/ Root \in cancelled

CallPcs ==
  {"Idle", "Decide", "RecheckStart", "WaitStart", "Spawn", "Abandon", "PublishHandle",
   "AwaitOrphan", "Stop", "RecheckStop", "WaitStop", "AwaitHandle", "RemoveSlot", "TellStopped",
   "DropWarm", "DropTaken"}
SessionPcs ==
  {"None", "TakeWarm", "RecheckWarm", "WaitWarm", "DropMismatch", "Prepare", "Connect",
   "NoteLive", "Media", "DropTunnel", "AfterAttempt", "Release", "EmitEnd", "Done"}
WarmPcs == {"None", "Open", "CommitOk", "CommitErr", "DropStale", "Done"}

Holds(g, phases) == slot.generation = g /\ slot.phase \in phases

At(c, from) == pc[c] = from
Goto(c, to) == pc' = [pc EXCEPT ![c] = to]
TellEnd(g) == ends' = [ends EXCEPT ![g] = @ + 1]

Drives(g, from) == session[g].at = from
DriveTo(g, to) == session' = [session EXCEPT ![g].at = to]

Back(c, to) == call' = IF to = "Idle" THEN [call EXCEPT ![c] = NoCall] ELSE call
Return(c) == Goto(c, "Idle") /\ Back(c, "Idle")

(* changed.notify_waiters: the waiting starts, stops and sessions look     *)
(* again.                                                                  *)
Woken(p) == CASE p = "WaitStart" -> "Decide" [] p = "WaitStop" -> "Stop" [] OTHER -> p
NotifyCalls(f) == pc' = [c \in Callers |-> Woken(f[c])]
NotifySessions(f) ==
  session' = [g \in Gen |-> IF f[g].at = "WaitWarm" THEN [f[g] EXCEPT !.at = "TakeWarm"] ELSE f[g]]
NotifyFrom(c, to) == NotifyCalls([pc EXCEPT ![c] = to]) /\ NotifySessions(session)
NotifyBy(g, to) == NotifyCalls(pc) /\ NotifySessions([session EXCEPT ![g].at = to])

-----------------------------------------------------------------------------
(* start                                                                    *)

(* Bound: no more starts than there are sessions left to begin.            *)
Undecided == Cardinality({c \in Starters : pc[c] \in {"Decide", "RecheckStart", "WaitStart"}})
Begun == next + Undecided + begun + Cardinality({Root} \cap cancelled)
Left == next + Undecided < MaxGen /\ Begun < MaxTask

CallStart(c) ==
  /\ At(c, "Idle") /\ Left
  /\ Goto(c, "Decide")
  /\ call' = [call EXCEPT ![c] = [NoCall EXCEPT !.op = "start"]]
  /\ UNCHANGED <<slotVars, session, warmVars, tunnels, ends>>

(* decide_start. A Live session is adopted (its Live state is sent again,  *)
(* which is left out), a transitional one waited for.                      *)
Decide(c) ==
  /\ At(c, "Decide")
  /\ \/ slot.phase = "Live" /\ Return(c) /\ UNCHANGED <<slotVars, session>>
     \/ slot.phase \in {"Starting", "Stopping"} /\ Goto(c, "RecheckStart")
        /\ UNCHANGED <<slotVars, call, session>>
     \/ /\ slot.phase = "Empty" /\ next < MaxGen
        /\ next' = next + 1
        /\ slot' = [generation |-> next', phase |-> "Starting", handle |-> FALSE]
        /\ call' = [call EXCEPT ![c].generation = next']
        /\ NotifyFrom(c, "Spawn")
        /\ UNCHANGED cancelled
  /\ UNCHANGED <<warmVars, tunnels, ends>>

(* start_must_wait, with the Notified future already created.              *)
RecheckStart(c) ==
  /\ At(c, "RecheckStart")
  /\ Goto(c, IF slot.phase \in {"Starting", "Stopping"} THEN "WaitStart" ELSE "Decide")
  /\ UNCHANGED <<slotVars, call, session, warmVars, tunnels, ends>>

(* Starting is sent; the token is looked at once more: a stop that has     *)
(* taken the slot has cancelled it, or the exit of the program.            *)
Spawn(c) ==
  LET g == call[c].generation IN
  /\ At(c, "Spawn")
  /\ \/ Cancelled(g) /\ Goto(c, "Abandon") /\ UNCHANGED session
     \/ /\ ~Cancelled(g)
        /\ session' = [session EXCEPT ![g].at = "TakeWarm"]
        /\ Goto(c, "PublishHandle")
  /\ UNCHANGED <<slotVars, call, warmVars, tunnels, ends>>

(* Mutant: the end is told whether or not the slot was still this start's. *)
AbandonAny(c) ==
  LET g == call[c].generation IN
  /\ At(c, "Abandon")
  /\ slot' = IF Holds(g, {"Starting"}) THEN Empty ELSE slot
  /\ Goto(c, "TellStopped")
  /\ UNCHANGED <<next, cancelled, call, session, warmVars, tunnels, ends>>

(* abandon_starting: a slot that is still Starting was cancelled by exit,  *)
(* and nobody else will tell of its end. Stopped is sent and the change    *)
(* notified as at the end of a stop.                                       *)
Abandon(c) ==
  LET g == call[c].generation IN
  /\ At(c, "Abandon")
  /\ \/ /\ Holds(g, {"Starting"})
        /\ slot' = Empty
        /\ Goto(c, "TellStopped") /\ UNCHANGED call
     \/ ~Holds(g, {"Starting"}) /\ Return(c) /\ UNCHANGED slot
  /\ UNCHANGED <<next, cancelled, session, warmVars, tunnels, ends>>

(* can_publish_handle wants Starting, so a session that is Live by now is  *)
(* cancelled, like one that has been stopped.                              *)
PublishHandle(c) ==
  LET g == call[c].generation IN
  /\ At(c, "PublishHandle")
  /\ \/ /\ Holds(g, {"Starting"})
        /\ slot' = [slot EXCEPT !.handle = TRUE]
        /\ NotifyFrom(c, "Idle") /\ Back(c, "Idle")
        /\ UNCHANGED cancelled
     \/ /\ ~Holds(g, {"Starting"})
        /\ cancelled' = cancelled \cup {g}
        /\ Goto(c, "AwaitOrphan")
        /\ UNCHANGED <<slot, session, call>>
  /\ UNCHANGED <<next, warmVars, tunnels, ends>>

AwaitOrphan(c) ==
  /\ At(c, "AwaitOrphan") /\ Drives(call[c].generation, "Done")
  /\ Return(c)
  /\ UNCHANGED <<slotVars, session, warmVars, tunnels, ends>>

-----------------------------------------------------------------------------
(* stop; a device that went offline also loses its warm tunnel             *)

CallStop(c, op) ==
  /\ At(c, "Idle")
  /\ Goto(c, "Stop")
  /\ call' = [call EXCEPT ![c] = [NoCall EXCEPT !.op = op]]
  /\ UNCHANGED <<slotVars, session, warmVars, tunnels, ends>>

AfterStop(c) == IF call[c].op = "offline" THEN "DropWarm" ELSE "Idle"

(* Mutant: a session without a handle has nothing to cancel.               *)
StopByHandle(c) ==
  /\ At(c, "Stop")
  /\ \/ /\ slot.phase = "Empty" /\ Goto(c, AfterStop(c)) /\ Back(c, AfterStop(c))
        /\ UNCHANGED <<slotVars, session>>
     \/ slot.phase = "Stopping" /\ Goto(c, "RecheckStop") /\ UNCHANGED <<slotVars, call, session>>
     \/ /\ slot.phase \in {"Starting", "Live"}
        /\ slot' = [slot EXCEPT !.phase = "Stopping", !.handle = FALSE]
        /\ cancelled' = cancelled \cup IF slot.handle THEN {slot.generation} ELSE {}
        /\ call' = [call EXCEPT ![c].generation = slot.generation]
        /\ NotifyFrom(c, IF slot.handle THEN "AwaitHandle" ELSE "RemoveSlot")
        /\ UNCHANGED next
  /\ UNCHANGED <<warmVars, tunnels, ends>>

Stop(c) ==
  /\ At(c, "Stop")
  /\ \/ /\ slot.phase = "Empty" /\ Goto(c, AfterStop(c)) /\ Back(c, AfterStop(c))
        /\ UNCHANGED <<slotVars, session>>
     \/ slot.phase = "Stopping" /\ Goto(c, "RecheckStop") /\ UNCHANGED <<slotVars, call, session>>
     \/ /\ slot.phase \in {"Starting", "Live"}
        /\ slot' = [slot EXCEPT !.phase = "Stopping", !.handle = FALSE]
        /\ cancelled' = cancelled \cup {slot.generation}
        /\ call' = [call EXCEPT ![c].generation = slot.generation]
        /\ NotifyFrom(c, IF slot.handle THEN "AwaitHandle" ELSE "RemoveSlot")
        /\ UNCHANGED next
  /\ UNCHANGED <<warmVars, tunnels, ends>>

RecheckStop(c) ==
  /\ At(c, "RecheckStop")
  /\ Goto(c, IF slot.phase = "Stopping" THEN "WaitStop" ELSE "Stop")
  /\ UNCHANGED <<slotVars, call, session, warmVars, tunnels, ends>>

(* No timeout: the session has to notice its token.                        *)
AwaitHandle(c) ==
  /\ At(c, "AwaitHandle") /\ Drives(call[c].generation, "Done")
  /\ Goto(c, "RemoveSlot")
  /\ UNCHANGED <<slotVars, call, session, warmVars, tunnels, ends>>

RemoveSlot(c) ==
  /\ At(c, "RemoveSlot")
  /\ \/ /\ Holds(call[c].generation, {"Stopping"})
        /\ slot' = Empty
        /\ Goto(c, "TellStopped") /\ UNCHANGED <<session, call>>
     \/ /\ ~Holds(call[c].generation, {"Stopping"})
        /\ NotifyFrom(c, AfterStop(c)) /\ Back(c, AfterStop(c)) /\ UNCHANGED slot
  /\ UNCHANGED <<next, cancelled, warmVars, tunnels, ends>>

TellStopped(c) ==
  /\ At(c, "TellStopped")
  /\ TellEnd(call[c].generation)
  /\ NotifyFrom(c, AfterStop(c)) /\ Back(c, AfterStop(c))
  /\ UNCHANGED <<slotVars, warmVars, tunnels>>

(* drop_warm                                                                *)
DropWarm(c) ==
  /\ At(c, "DropWarm")
  /\ warm' = NoWarm
  /\ dropped' = IF warm.state = "Busy" THEN dropped \cup {warm.by} ELSE dropped
  /\ call' = [call EXCEPT ![c].tunnel = IF warm.state = "Ready" THEN warm.by ELSE NoTunnel]
  /\ Goto(c, "DropTaken")
  /\ UNCHANGED <<slotVars, session, warmups, begun, tunnels, ends>>

DropTaken(c) ==
  /\ At(c, "DropTaken")
  /\ tunnels' = tunnels \ {call[c].tunnel}
  /\ call' = [call EXCEPT ![c] = NoCall]
  /\ NotifyFrom(c, "Idle")
  /\ UNCHANGED <<slotVars, warmVars, ends>>

-----------------------------------------------------------------------------
(* drive_session                                                            *)

(* Mutant: the ready tunnel is used and stays on offer.                    *)
TakeWarmShared(g) ==
  /\ Drives(g, "TakeWarm")
  /\ \/ warm.state # "Ready" /\ DriveTo(g, "Prepare")
     \/ /\ warm.state = "Ready"
        /\ session' = [session EXCEPT ![g].tunnel = warm.by,
                                      ![g].at = IF warm.match THEN "Prepare" ELSE "DropMismatch"]
  /\ UNCHANGED <<slotVars, callVars, warmVars, tunnels, ends>>

(* take_warm_step: a tunnel opened with another intent is of no use.       *)
TakeWarm(g) ==
  /\ Drives(g, "TakeWarm")
  /\ \/ warm.state = "None" /\ DriveTo(g, "Prepare") /\ UNCHANGED <<pc, warm, dropped>>
     \/ /\ warm.state = "Ready" /\ warm.match
        /\ NotifyCalls(pc)
        /\ NotifySessions([session EXCEPT ![g].tunnel = warm.by, ![g].at = "Prepare"])
        /\ warm' = NoWarm /\ UNCHANGED dropped
     \/ /\ warm.state = "Ready" /\ ~warm.match
        /\ session' = [session EXCEPT ![g].tunnel = warm.by, ![g].at = "DropMismatch"]
        /\ warm' = NoWarm /\ UNCHANGED <<pc, dropped>>
     \/ /\ warm.state = "Busy" /\ ~warm.match
        /\ DriveTo(g, "Prepare")
        /\ warm' = NoWarm /\ dropped' = dropped \cup {warm.by} /\ UNCHANGED pc
     \/ /\ warm.state = "Busy" /\ warm.match
        /\ DriveTo(g, "RecheckWarm") /\ UNCHANGED <<pc, warm, dropped>>
  /\ UNCHANGED <<slotVars, call, warmups, begun, tunnels, ends>>

DropMismatch(g) ==
  /\ Drives(g, "DropMismatch")
  /\ tunnels' = tunnels \ {session[g].tunnel}
  /\ NotifyCalls(pc)
  /\ NotifySessions([session EXCEPT ![g].tunnel = NoTunnel, ![g].at = "Prepare"])
  /\ UNCHANGED <<slotVars, call, warmVars, ends>>

(* still_busy, and the wait for the warmup or for the session's token.     *)
RecheckWarm(g) ==
  /\ Drives(g, "RecheckWarm")
  /\ DriveTo(g, IF warm.state = "Busy" THEN "WaitWarm" ELSE "TakeWarm")
  /\ UNCHANGED <<slotVars, callVars, warmVars, tunnels, ends>>

CancelWait(g) ==
  /\ Drives(g, "WaitWarm") /\ Cancelled(g)
  /\ DriveTo(g, "Prepare")
  /\ UNCHANGED <<slotVars, callVars, warmVars, tunnels, ends>>

Fail(g, result) == session' = [session EXCEPT ![g].at = "DropTunnel", ![g].result = result]

(* run_attempt up to the tunnel: the server file, the codec, the push and  *)
(* the token. Then the warm tunnel, or reverse, or forward. "Hevc" is a    *)
(* fault hevc_should_fallback knows, here a push or a forward that failed. *)
Prepare(g) ==
  /\ Drives(g, "Prepare")
  /\ \/ (\E result \in {"Ended", "Hevc"} : Fail(g, result)) /\ UNCHANGED tunnels
     \/ /\ ~Cancelled(g) /\ session[g].tunnel # NoTunnel
        /\ DriveTo(g, "Connect") /\ UNCHANGED tunnels
     \/ /\ ~Cancelled(g) /\ session[g].tunnel = NoTunnel
        /\ session' = [session EXCEPT ![g].at = "Connect", ![g].tunnel = OwnTunnel(g)]
        /\ tunnels' = tunnels \cup {OwnTunnel(g)}
  /\ UNCHANGED <<slotVars, callVars, warmVars, ends>>

(* The server is spawned, the video and control sockets connect and the    *)
(* handshake is read.                                                      *)
Connect(g) ==
  /\ Drives(g, "Connect")
  /\ \/ ~Cancelled(g) /\ DriveTo(g, "NoteLive")
     \/ \E result \in {"Ended", "Hevc"} : Fail(g, result)
  /\ UNCHANGED <<slotVars, callVars, warmVars, tunnels, ends>>

NoteLive(g) ==
  /\ Drives(g, "NoteLive")
  /\ slot' = IF Holds(g, {"Starting"}) THEN [slot EXCEPT !.phase = "Live"] ELSE slot
  /\ NotifyBy(g, "Media")
  /\ UNCHANGED <<next, cancelled, call, warmVars, tunnels, ends>>

(* Live is sent; MediaLoop::run ends under its token, or with the stream.  *)
CancelMedia(g) ==
  /\ Drives(g, "Media") /\ Cancelled(g)
  /\ Fail(g, "Ended")
  /\ UNCHANGED <<slotVars, callVars, warmVars, tunnels, ends>>

StreamEnds(g) ==
  /\ Drives(g, "Media") /\ ~Cancelled(g)
  /\ \E result \in {"Ended", "Hevc"} : Fail(g, result)
  /\ UNCHANGED <<slotVars, callVars, warmVars, tunnels, ends>>

(* The server is killed and awaited, and the tunnel taken down.            *)
DropTunnel(g) ==
  /\ Drives(g, "DropTunnel")
  /\ tunnels' = tunnels \ {session[g].tunnel}
  /\ session' = [session EXCEPT ![g].at = "AfterAttempt", ![g].tunnel = NoTunnel]
  /\ UNCHANGED <<slotVars, callVars, warmVars, ends>>

(* H.264 is tried once, while the session is still to become Live.         *)
AfterAttempt(g) ==
  LET again == /\ ~Cancelled(g) /\ Holds(g, {"Starting"})
               /\ session[g].result = "Hevc" /\ ~session[g].tried
  IN
  /\ Drives(g, "AfterAttempt")
  /\ session' = [session EXCEPT ![g].at = IF again THEN "Prepare" ELSE "Release",
                                ![g].tried = again, ![g].result = "Ended"]
  /\ UNCHANGED <<slotVars, callVars, warmVars, tunnels, ends>>

(* release_if_current: also a Stopping slot, whose stop then finds it gone *)
Release(g) ==
  /\ Drives(g, "Release")
  /\ slot' = IF slot.generation = g THEN Empty ELSE slot
  /\ DriveTo(g, IF slot.generation = g THEN "EmitEnd" ELSE "Done")
  /\ UNCHANGED <<next, cancelled, callVars, warmVars, tunnels, ends>>

(* Mutant: the session ends and nobody who waits for the slot hears of it. *)
EmitEndSilently(g) ==
  /\ Drives(g, "EmitEnd")
  /\ TellEnd(g)
  /\ DriveTo(g, "Done")
  /\ UNCHANGED <<slotVars, callVars, warmVars, tunnels>>

EmitEnd(g) ==
  /\ Drives(g, "EmitEnd")
  /\ TellEnd(g)
  /\ NotifyBy(g, "Done")
  /\ UNCHANGED <<slotVars, call, warmVars, tunnels>>

-----------------------------------------------------------------------------
(* warmup                                                                   *)

CallWarmup(match) ==
  LET w == begun + 1 IN
  /\ slot.phase = "Empty" /\ warm = NoWarm /\ begun < MaxWarm
  /\ Begun < MaxTask
  /\ begun' = w
  /\ warm' = [state |-> "Busy", by |-> w, match |-> match]
  /\ warmups' = [warmups EXCEPT ![w] = "Open"]
  /\ NotifyCalls(pc) /\ NotifySessions(session)
  /\ UNCHANGED <<slotVars, call, dropped, tunnels, ends>>

(* tunnel::warmup: an error, the token, or a tunnel.                       *)
OpenWarm(w) ==
  /\ warmups[w] = "Open"
  /\ \/ warmups' = [warmups EXCEPT ![w] = "CommitErr"] /\ UNCHANGED tunnels
     \/ warmups' = [warmups EXCEPT ![w] = "CommitOk"] /\ tunnels' = tunnels \cup {w}
  /\ UNCHANGED <<slotVars, callVars, session, warm, begun, dropped, ends>>

(* Mutant: the token of the warmup is not looked at.                       *)
CommitUnlessLive(w) ==
  /\ warmups[w] \in {"CommitOk", "CommitErr"}
  /\ \/ /\ warmups[w] = "CommitOk" /\ warm.state = "Busy" /\ slot.phase # "Live"
        /\ warm' = [warm EXCEPT !.state = "Ready", !.by = w]
        /\ warmups' = [warmups EXCEPT ![w] = "Done"]
        /\ NotifyCalls(pc) /\ NotifySessions(session)
     \/ /\ warm' = NoWarm
        /\ warmups' = [warmups EXCEPT ![w] = IF @ = "CommitOk" THEN "DropStale" ELSE "Done"]
        /\ UNCHANGED <<pc, session>>
  /\ UNCHANGED <<slotVars, call, begun, dropped, tunnels, ends>>

(* commit_warmup: whatever the entry is by now, it is removed unless this  *)
(* tunnel is kept. A Busy entry that is not this warmup's counts as its.   *)
Commit(w) ==
  LET keep == warm.state = "Busy" /\ ~WarmCancelled(w) /\ slot.phase # "Live" IN
  /\ warmups[w] \in {"CommitOk", "CommitErr"}
  /\ \/ /\ warmups[w] = "CommitOk" /\ keep
        /\ warm' = [warm EXCEPT !.state = "Ready", !.by = w]
        /\ warmups' = [warmups EXCEPT ![w] = "Done"]
        /\ NotifyCalls(pc) /\ NotifySessions(session)
     \/ /\ warmups[w] = "CommitOk" /\ ~keep
        /\ warm' = NoWarm
        /\ warmups' = [warmups EXCEPT ![w] = "DropStale"]
        /\ UNCHANGED <<pc, session>>
     \/ /\ warmups[w] = "CommitErr"
        /\ warm' = NoWarm
        /\ warmups' = [warmups EXCEPT ![w] = "Done"]
        /\ NotifyCalls(pc) /\ NotifySessions(session)
  /\ UNCHANGED <<slotVars, call, begun, dropped, tunnels, ends>>

DropStale(w) ==
  /\ warmups[w] = "DropStale"
  /\ tunnels' = tunnels \ {w}
  /\ warmups' = [warmups EXCEPT ![w] = "Done"]
  /\ NotifyCalls(pc) /\ NotifySessions(session)
  /\ UNCHANGED <<slotVars, call, warm, begun, dropped, ends>>

-----------------------------------------------------------------------------
(* exit.rs: the root token is cancelled and no session is stopped by name. *)
(* What still runs goes on until the process ends.                         *)
Exit ==
  /\ Begun < MaxTask
  /\ cancelled' = cancelled \cup {Root}
  /\ UNCHANGED <<slot, next, callVars, session, warmVars, tunnels, ends>>

-----------------------------------------------------------------------------
Init ==
  /\ slot = Empty /\ next = 0 /\ cancelled = {}
  /\ call = [c \in Callers |-> NoCall] /\ pc = [c \in Callers |-> "Idle"]
  /\ session = [g \in Gen |-> NoSession]
  /\ warm = NoWarm /\ warmups = [w \in Warmup |-> "None"] /\ begun = 0 /\ dropped = {}
  /\ tunnels = {}
  /\ ends = [g \in Gen |-> 0]

CallStep(c) ==
  \/ Decide(c) \/ RecheckStart(c) \/ Spawn(c) \/ Abandon(c)
  \/ PublishHandle(c) \/ AwaitOrphan(c) \/ Stop(c) \/ RecheckStop(c) \/ AwaitHandle(c)
  \/ RemoveSlot(c) \/ TellStopped(c) \/ DropWarm(c) \/ DropTaken(c)

SessionStep(g) ==
  \/ TakeWarm(g) \/ DropMismatch(g) \/ RecheckWarm(g) \/ CancelWait(g) \/ Prepare(g)
  \/ Connect(g) \/ NoteLive(g) \/ CancelMedia(g) \/ DropTunnel(g)
  \/ AfterAttempt(g) \/ Release(g) \/ EmitEnd(g)

WarmStep(w) == OpenWarm(w) \/ Commit(w) \/ DropStale(w)

Next ==
  \/ \E c \in Starters : CallStart(c)
  \/ \E c \in Stoppers : CallStop(c, "stop")
  \/ \E c \in Joiners : CallStop(c, "offline")
  \/ \E c \in Callers : CallStep(c)
  \/ \E g \in Gen : SessionStep(g) \/ StreamEnds(g)
  \/ \E match \in BOOLEAN : CallWarmup(match)
  \/ \E w \in Warmup : WarmStep(w)
  \/ Exit

Spec == Init /\ [][Next]_vars

(* tokio runs every ready task; pushing, connecting and the handshake have *)
(* timeouts. A stream may go on for ever.                                  *)
FairSpec ==
  /\ Spec
  /\ \A c \in Callers : WF_vars(CallStep(c))
  /\ \A g \in Gen : WF_vars(SessionStep(g))
  /\ \A w \in Warmup : WF_vars(WarmStep(w))
-----------------------------------------------------------------------------
(* Properties                                                               *)

TypeOK ==
  /\ slot \in {Empty} \cup [generation : Gen, phase : {"Starting", "Live", "Stopping"},
                            handle : BOOLEAN]
  /\ next \in 0 .. MaxGen /\ cancelled \subseteq Gen \cup {Root}
  /\ call \in [Callers -> [op : {"none", "start", "stop", "offline"}, generation : 0 .. MaxGen,
                           tunnel : 0 .. MaxWarm]]
  /\ pc \in [Callers -> CallPcs]
  /\ session \in [Gen -> [at : SessionPcs, tunnel : {NoTunnel} \cup Tunnel,
                          result : {"Ended", "Hevc"}, tried : BOOLEAN]]
  /\ warm \in {NoWarm} \cup [state : {"Busy", "Ready"}, by : Warmup, match : BOOLEAN]
  /\ warmups \in [Warmup -> WarmPcs] /\ begun \in 0 .. MaxWarm /\ dropped \subseteq Warmup
  /\ tunnels \subseteq Tunnel
  /\ ends \in [Gen -> Nat]

(* A session that has lost its slot has been told to end: a start that     *)
(* comes too late, a stop and a newer start leave no server running on the *)
(* device that nobody can stop.                                            *)
OrphansAreCancelled ==
  \A g \in Gen :
    session[g].at \notin {"None", "EmitEnd", "Done"} /\ slot.generation # g => g \in cancelled

(* The client is told of the end of a session once, though a stop, a start *)
(* whose token exit has cancelled and the session itself all may tell it,  *)
(* and of none that still has its slot.                                    *)
EndIsToldOnce ==
  \A g \in Gen : ends[g] <= IF slot.generation = g THEN 0 ELSE 1

(* What was dropped stays dropped: the tunnel of a warmup whose device     *)
(* went offline, or whose intent was not the start's, is not on offer and  *)
(* no session works with it, though entries carry no owner and the warmup  *)
(* may come back when a newer one has the entry.                           *)
CancelledWarmupsAreUnused ==
  /\ warm.state # "None" => warm.by \notin dropped
  /\ \A g \in Gen : session[g].tunnel \notin dropped

(* The tunnel a session works with is up and its alone: no device that     *)
(* goes offline, no stale warmup and no other session takes it down.       *)
TunnelsInUseAreUp ==
  \A g \in Gen :
    session[g].at \in {"Connect", "NoteLive", "Media"} =>
      /\ session[g].tunnel \in tunnels
      /\ \A h \in Gen \ {g} : session[h].tunnel # session[g].tunnel
      /\ ~(warm.state = "Ready" /\ warm.by = session[g].tunnel)

(* Every start and every stop returns, those that wait for a slot in       *)
(* transition and those that wait for a session without a timeout.         *)
MirrorCallsReturn == \A c \in Callers : pc[c] # "Idle" ~> pc[c] = "Idle"
=============================================================================
