------------------------- MODULE MirrorService_proofs -------------------------
(***************************************************************************)
(* Proofs about MirrorService, for any number of calls, sessions and       *)
(* warmups.                                                                *)
(*                                                                         *)
(* The life of a session (Life) and the tunnels (TunnelsOK) are two        *)
(* arguments that share little but the types: most steps of one leave the  *)
(* other at rest, which RestsLife and RestsTunnels say once for all of     *)
(* them.                                                                   *)
(***************************************************************************)
EXTENDS MirrorService, TLAPS

CallType == [op : {"none", "start", "stop", "offline"}, generation : 0 .. MaxGen,
             tunnel : 0 .. MaxWarm]
SessionType == [at : SessionPcs, tunnel : {NoTunnel} \cup Tunnel,
                result : {"Ended", "Hevc"}, tried : BOOLEAN]

(* Where a call has a generation of its own.                               *)
OwnerPcs == {"Spawn", "Abandon", "PublishHandle", "AwaitOrphan", "AwaitHandle", "RemoveSlot",
             "TellStopped"}

(* Where a start has a slot and no session yet.                            *)
BeginPcs == {"Spawn", "Abandon"}

(* Where a notification leaves a call or a session alone, and brings none. *)
FirmPcs == CallPcs \ {"WaitStart", "WaitStop", "Decide", "Stop"}
FirmAts == SessionPcs \ {"WaitWarm", "TakeWarm"}

Working == {"Connect", "NoteLive", "Media"}

-----------------------------------------------------------------------------
(* The invariants                                                           *)

CallsOK ==
  \A c \in Callers : pc[c] \in OwnerPcs => call[c].generation \in Gen /\ call[c].generation <= next

SlotOK ==
  /\ slot.generation <= next
  /\ slot.phase = "Stopping" => slot.generation \in cancelled

SessionsOK == \A g \in Gen : session[g].at # "None" => g <= next

(* Nobody else begins or abandons the session of a start, and the start    *)
(* has its slot or has been cancelled.                                     *)
SpawnsOK ==
  \A c \in Callers : pc[c] \in BeginPcs =>
    /\ session[call[c].generation].at = "None"
    /\ call[c].generation \notin cancelled => slot.generation = call[c].generation
    /\ \A d \in Callers : pc[d] \in BeginPcs /\ call[d].generation = call[c].generation => d = c

(* The end of a session is owed by the one who took the slot away: a stop, *)
(* a start that abandons it, or the session.                               *)
Owes(c, g) == pc[c] = "TellStopped" /\ call[c].generation = g
EndsOK ==
  \A g \in Gen :
    /\ ends[g] \in 0 .. 1
    /\ slot.generation = g \/ g > next =>
         ends[g] = 0 /\ session[g].at # "EmitEnd" /\ \A c \in Callers : ~Owes(c, g)
    /\ session[g].at = "EmitEnd" => ends[g] = 0
    /\ \A c \in Callers : Owes(c, g) =>
         ends[g] = 0 /\ session[g].at # "EmitEnd" /\ \A d \in Callers : Owes(d, g) => d = c

Life == CallsOK /\ SlotOK /\ SessionsOK /\ SpawnsOK /\ OrphansAreCancelled /\ EndsOK

(* Each tunnel has at most one holder: a session, the entry, a call that   *)
(* takes it down, or the warmup that has just opened it.                   *)
SessionTunnels ==
  \A g \in Gen :
    /\ session[g].tunnel \in {NoTunnel, OwnTunnel(g)} \cup Warmup
    /\ session[g].tunnel # NoTunnel => session[g].tunnel \in tunnels
    /\ session[g].at \in Working => session[g].tunnel # NoTunnel
    /\ \A h \in Gen : h # g /\ session[g].tunnel # NoTunnel =>
         session[h].tunnel # session[g].tunnel
    /\ session[g].tunnel \in Warmup =>
         warmups[session[g].tunnel] = "Done" /\ session[g].tunnel \notin dropped

EntryTunnel ==
  /\ warm.state = "Ready" =>
       /\ warmups[warm.by] = "Done" /\ warm.by \in tunnels /\ warm.by \notin dropped
       /\ \A g \in Gen : session[g].tunnel # warm.by
       /\ \A c \in Callers : pc[c] = "DropTaken" => call[c].tunnel # warm.by
  /\ warm.state = "Busy" =>
       /\ warm.by \notin dropped /\ warm.by <= begun
       /\ warmups[warm.by] \in {"Open", "CommitOk", "CommitErr"}

TakenTunnels ==
  \A c \in Callers : pc[c] = "DropTaken" /\ call[c].tunnel # NoTunnel =>
    /\ warmups[call[c].tunnel] = "Done"
    /\ \A g \in Gen : session[g].tunnel # call[c].tunnel

WarmupTunnels ==
  \A w \in Warmup :
    /\ warmups[w] \in {"CommitOk", "DropStale"} => w \in tunnels
    /\ w > begun => warmups[w] = "None" /\ w \notin dropped

TunnelsOK == SessionTunnels /\ EntryTunnel /\ TakenTunnels /\ WarmupTunnels

MirrorInv == TypeOK /\ Life /\ TunnelsOK
-----------------------------------------------------------------------------
(* What a step does to the calls and to the sessions, but for those that a *)
(* notification wakes.                                                     *)

Moves(c, to) ==
  \A d \in Callers : \A p \in FirmPcs : pc'[d] = p <=> IF d = c THEN to = p ELSE pc[d] = p

CallsRest == \A d \in Callers : \A p \in FirmPcs : pc'[d] = p <=> pc[d] = p

MovesOn(g, to, t) ==
  \A h \in Gen :
    /\ session'[h].tunnel = IF h = g THEN t ELSE session[h].tunnel
    /\ \A p \in FirmAts : session'[h].at = p <=> IF h = g THEN to = p ELSE session[h].at = p

SessionsRest ==
  \A h \in Gen :
    /\ session'[h].tunnel = session[h].tunnel
    /\ \A p \in FirmAts : session'[h].at = p <=> session[h].at = p

LEMMA Typed ==
  ASSUME MirrorAssumption, TypeOK
  PROVE  /\ MaxGen \in Nat /\ MaxWarm \in Nat /\ next \in Nat
         /\ slot.generation \in 0 .. MaxGen
         /\ slot.phase \in {"Empty", "Starting", "Live", "Stopping"}
         /\ slot.phase = "Empty" <=> slot.generation = 0
         /\ slot.handle \in BOOLEAN
         /\ call \in [Callers -> CallType] /\ session \in [Gen -> SessionType]
         /\ warm.state \in {"None", "Busy", "Ready"} /\ warm.match \in BOOLEAN
         /\ warm.state # "None" => warm.by \in Warmup
<1>1. MaxGen \in Nat /\ MaxWarm \in Nat
  BY DEF MirrorAssumption
<1>2. /\ slot.generation \in 0 .. MaxGen
      /\ slot.phase \in {"Empty", "Starting", "Live", "Stopping"}
      /\ slot.phase = "Empty" <=> slot.generation = 0
      /\ slot.handle \in BOOLEAN
  <2>1. CASE slot = Empty
    BY <1>1, <2>1 DEF Empty
  <2>2. CASE slot \in [generation : Gen, phase : {"Starting", "Live", "Stopping"}, handle : BOOLEAN]
    BY <1>1, <2>2 DEF Gen
  <2> QED
    BY <2>1, <2>2 DEF TypeOK
<1>3. /\ warm.state \in {"None", "Busy", "Ready"} /\ warm.match \in BOOLEAN
      /\ warm.state # "None" => warm.by \in Warmup
  <2>1. CASE warm = NoWarm
    BY <2>1 DEF NoWarm
  <2>2. CASE warm \in [state : {"Busy", "Ready"}, by : Warmup, match : BOOLEAN]
    BY <2>2
  <2> QED
    BY <2>1, <2>2 DEF TypeOK
<1>4. call \in [Callers -> CallType] /\ session \in [Gen -> SessionType]
  BY DEF TypeOK, CallType, SessionType
<1>5. next \in Nat
  BY <1>1 DEF TypeOK
<1> QED
  BY <1>1, <1>2, <1>3, <1>4, <1>5

(* A notification wakes who waits; everybody else stays where he is.       *)
LEMMA NotifiedCalls ==
  ASSUME NEW f \in [Callers -> CallPcs], NotifyCalls(f)
  PROVE  /\ pc' \in [Callers -> CallPcs]
         /\ \A d \in Callers : \A p \in FirmPcs : pc'[d] = p <=> f[d] = p
<1>1. \A p \in CallPcs : /\ Woken(p) \in CallPcs
                         /\ \A q \in FirmPcs : Woken(p) = q <=> p = q
  BY DEF Woken, CallPcs, FirmPcs
<1> QED
  BY <1>1 DEF NotifyCalls

LEMMA NotifiedSessions ==
  ASSUME NEW f \in [Gen -> SessionType], NotifySessions(f)
  PROVE  /\ session' \in [Gen -> SessionType]
         /\ \A h \in Gen : /\ session'[h].tunnel = f[h].tunnel
                           /\ \A p \in FirmAts : session'[h].at = p <=> f[h].at = p
<1>1. \A h \in Gen : session'[h] = IF f[h].at = "WaitWarm" THEN [f[h] EXCEPT !.at = "TakeWarm"]
                                                          ELSE f[h]
  BY DEF NotifySessions
<1>2. \A h \in Gen : session'[h] \in SessionType
  BY <1>1, ZenonT(40) DEF SessionType, SessionPcs
<1>3. session' \in [Gen -> SessionType]
  BY <1>2 DEF NotifySessions
<1>4. \A h \in Gen : /\ session'[h].tunnel = f[h].tunnel
                     /\ \A p \in FirmAts : session'[h].at = p <=> f[h].at = p
  BY <1>1 DEF SessionType, FirmAts
<1> QED
  BY <1>3, <1>4

LEMMA Notified ==
  ASSUME MirrorAssumption, TypeOK, NotifyCalls(pc), NotifySessions(session)
  PROVE  /\ CallsRest /\ SessionsRest
         /\ pc' \in [Callers -> CallPcs] /\ session' \in [Gen -> SessionType]
<1>1. pc \in [Callers -> CallPcs] /\ session \in [Gen -> SessionType]
  BY Typed DEF TypeOK
<1> QED
  BY <1>1, NotifiedCalls, NotifiedSessions DEF CallsRest, SessionsRest

LEMMA NotifiedFrom ==
  ASSUME MirrorAssumption, TypeOK, NEW c \in Callers, NEW to \in CallPcs, NotifyFrom(c, to)
  PROVE  /\ Moves(c, to) /\ SessionsRest
         /\ pc' \in [Callers -> CallPcs] /\ session' \in [Gen -> SessionType]
<1> DEFINE f == [pc EXCEPT ![c] = to]
<1>1. f \in [Callers -> CallPcs] /\ session \in [Gen -> SessionType]
  BY Typed DEF TypeOK
<1>2. NotifyCalls(f) /\ NotifySessions(session)
  BY DEF NotifyFrom
<1>3. \A d \in Callers : f[d] = IF d = c THEN to ELSE pc[d]
  BY DEF TypeOK
<1> HIDE DEF f
<1> QED
  BY <1>1, <1>2, <1>3, NotifiedCalls, NotifiedSessions DEF Moves, SessionsRest

LEMMA WentTo ==
  ASSUME MirrorAssumption, TypeOK, NEW c \in Callers, NEW to \in CallPcs, Goto(c, to)
  PROVE  Moves(c, to) /\ pc' \in [Callers -> CallPcs]
BY DEF TypeOK, Goto, Moves

(* f is what becomes of the sessions when g alone moves on.                *)
Ahead(f, g, to, t) ==
  /\ f \in [Gen -> SessionType]
  /\ f[g].at = to /\ f[g].tunnel = t
  /\ \A h \in Gen : h # g => f[h] = session[h]

LEMMA MovedOn ==
  ASSUME MirrorAssumption, TypeOK, NEW g \in Gen, NEW to, NEW t, NEW f, Ahead(f, g, to, t),
         session' = f \/ NotifySessions(f)
  PROVE  MovesOn(g, to, t) /\ session' \in [Gen -> SessionType]
<1>1. \A h \in Gen : /\ session'[h].tunnel = f[h].tunnel
                     /\ \A p \in FirmAts : session'[h].at = p <=> f[h].at = p
  BY NotifiedSessions DEF Ahead
<1>2. session' \in [Gen -> SessionType]
  BY NotifiedSessions DEF Ahead
<1> QED
  BY <1>1, <1>2 DEF Ahead, MovesOn

LEMMA MovingOn ==
  ASSUME MirrorAssumption, TypeOK, NEW g \in Gen, NEW to \in SessionPcs
  PROVE  /\ Ahead([session EXCEPT ![g].at = to], g, to, session[g].tunnel)
         /\ \A t \in {NoTunnel} \cup Tunnel :
              /\ Ahead([session EXCEPT ![g].at = to, ![g].tunnel = t], g, to, t)
              /\ Ahead([session EXCEPT ![g].tunnel = t, ![g].at = to], g, to, t)
         /\ \A r \in {"Ended", "Hevc"} :
              /\ Ahead([session EXCEPT ![g].at = to, ![g].result = r], g, to, session[g].tunnel)
              /\ \A b \in BOOLEAN :
                   Ahead([session EXCEPT ![g].at = to, ![g].tried = b, ![g].result = r], g, to,
                         session[g].tunnel)
<1>1. session \in [Gen -> SessionType]
  BY Typed
<1>2. Ahead([session EXCEPT ![g].at = to], g, to, session[g].tunnel)
  BY <1>1 DEF Ahead, SessionType
<1>3. ASSUME NEW t \in {NoTunnel} \cup Tunnel
      PROVE  /\ Ahead([session EXCEPT ![g].at = to, ![g].tunnel = t], g, to, t)
             /\ Ahead([session EXCEPT ![g].tunnel = t, ![g].at = to], g, to, t)
  <2>1. Ahead([session EXCEPT ![g].at = to, ![g].tunnel = t], g, to, t)
    BY <1>1 DEF Ahead, SessionType
  <2>2. Ahead([session EXCEPT ![g].tunnel = t, ![g].at = to], g, to, t)
    BY <1>1 DEF Ahead, SessionType
  <2> QED
    BY <2>1, <2>2
<1>4. ASSUME NEW r \in {"Ended", "Hevc"}
      PROVE  Ahead([session EXCEPT ![g].at = to, ![g].result = r], g, to, session[g].tunnel)
  BY <1>1 DEF Ahead, SessionType
<1>5. ASSUME NEW r \in {"Ended", "Hevc"}, NEW b \in BOOLEAN
      PROVE  Ahead([session EXCEPT ![g].at = to, ![g].tried = b, ![g].result = r], g, to,
                   session[g].tunnel)
  BY <1>1 DEF Ahead, SessionType
<1> QED
  BY <1>2, <1>3, <1>4, <1>5

(* With an unchanged pc, or one that has only been notified.               *)
LEMMA CallsStay ==
  ASSUME MirrorAssumption, TypeOK, NotifyCalls(pc) \/ UNCHANGED pc
  PROVE  CallsRest /\ pc' \in [Callers -> CallPcs]
<1>1. pc \in [Callers -> CallPcs]
  BY DEF TypeOK
<1> QED
  BY <1>1, NotifiedCalls DEF CallsRest

LEMMA SessionsStay ==
  ASSUME MirrorAssumption, TypeOK, NotifySessions(session) \/ UNCHANGED session
  PROVE  SessionsRest /\ session' \in [Gen -> SessionType]
<1>1. session \in [Gen -> SessionType]
  BY Typed
<1> QED
  BY <1>1, NotifiedSessions DEF SessionsRest

(* The way of a session through its task.                                  *)
Paths(g) ==
  /\ TakeWarm(g) =>
       \E to \in {"Prepare", "DropMismatch", "RecheckWarm"} :
         MovesOn(g, to, IF warm.state = "Ready" THEN warm.by ELSE session[g].tunnel)
  /\ DropMismatch(g) => MovesOn(g, "Prepare", NoTunnel)
  /\ RecheckWarm(g) => \E to \in {"WaitWarm", "TakeWarm"} : MovesOn(g, to, session[g].tunnel)
  /\ CancelWait(g) => MovesOn(g, "Prepare", session[g].tunnel)
  /\ Prepare(g) =>
       \/ MovesOn(g, "DropTunnel", session[g].tunnel) /\ UNCHANGED tunnels
       \/ /\ session[g].tunnel # NoTunnel
          /\ MovesOn(g, "Connect", session[g].tunnel) /\ UNCHANGED tunnels
       \/ /\ session[g].tunnel = NoTunnel
          /\ MovesOn(g, "Connect", OwnTunnel(g)) /\ tunnels' = tunnels \cup {OwnTunnel(g)}
  /\ Connect(g) => \E to \in {"NoteLive", "DropTunnel"} : MovesOn(g, to, session[g].tunnel)
  /\ NoteLive(g) => MovesOn(g, "Media", session[g].tunnel)
  /\ CancelMedia(g) \/ StreamEnds(g) => MovesOn(g, "DropTunnel", session[g].tunnel)
  /\ DropTunnel(g) => MovesOn(g, "AfterAttempt", NoTunnel)
  /\ AfterAttempt(g) => \E to \in {"Prepare", "Release"} : MovesOn(g, to, session[g].tunnel)
  /\ Release(g) =>
       MovesOn(g, IF slot.generation = g THEN "EmitEnd" ELSE "Done", session[g].tunnel)
  /\ EmitEnd(g) => MovesOn(g, "Done", session[g].tunnel)

LEMMA SessionPaths ==
  ASSUME MirrorAssumption, TypeOK, NEW g \in Gen
  PROVE  /\ Paths(g)
         /\ SessionStep(g) \/ StreamEnds(g) =>
              CallsRest /\ pc' \in [Callers -> CallPcs] /\ session' \in [Gen -> SessionType]
<1>1. /\ session \in [Gen -> SessionType] /\ session[g] \in SessionType
      /\ MaxGen \in Nat /\ MaxWarm \in Nat
      /\ warm.state = "Ready" => warm.by \in Tunnel
  BY Typed DEF Warmup, Tunnel
<1>2. OwnTunnel(g) \in Tunnel /\ NoTunnel = 0
  BY <1>1 DEF OwnTunnel, Tunnel, Gen, NoTunnel
<1> DEFINE To(at) == MovesOn(g, at, session[g].tunnel) /\ session' \in [Gen -> SessionType]
           Holding(at, t) == MovesOn(g, at, t) /\ session' \in [Gen -> SessionType]
<1>3. ASSUME NEW at \in SessionPcs, DriveTo(g, at) \/ NotifyBy(g, at)
      PROVE  To(at)
  <2> DEFINE f == [session EXCEPT ![g].at = at]
  <2>1. Ahead(f, g, at, session[g].tunnel)
    BY MovingOn
  <2>2. session' = f \/ NotifySessions(f)
    BY <1>3 DEF DriveTo, NotifyBy
  <2> HIDE DEF f
  <2> QED
    BY <2>1, <2>2, MovedOn
<1>5. ASSUME NEW r \in {"Ended", "Hevc"}, Fail(g, r)
      PROVE  To("DropTunnel")
  <2> DEFINE f == [session EXCEPT ![g].at = "DropTunnel", ![g].result = r]
  <2>1. Ahead(f, g, "DropTunnel", session[g].tunnel)
    BY MovingOn DEF SessionPcs
  <2>2. session' = f
    BY <1>5 DEF Fail
  <2> HIDE DEF f
  <2> QED
    BY <2>1, <2>2, MovedOn
<1>6. ASSUME NEW at \in SessionPcs, NEW t \in {NoTunnel} \cup Tunnel,
             \/ session' = [session EXCEPT ![g].tunnel = t, ![g].at = at]
             \/ NotifySessions([session EXCEPT ![g].tunnel = t, ![g].at = at])
             \/ session' = [session EXCEPT ![g].at = at, ![g].tunnel = t]
      PROVE  Holding(at, t)
  <2> DEFINE f == [session EXCEPT ![g].tunnel = t, ![g].at = at]
             h == [session EXCEPT ![g].at = at, ![g].tunnel = t]
  <2>1. Ahead(f, g, at, t) /\ Ahead(h, g, at, t)
    BY MovingOn
  <2>2. session' = f \/ NotifySessions(f) \/ session' = h
    BY <1>6
  <2> HIDE DEF f, h
  <2> QED
    BY <2>1, <2>2, MovedOn
<1>7. TakeWarm(g) =>
        \E to \in {"Prepare", "DropMismatch", "RecheckWarm"} :
          Holding(to, IF warm.state = "Ready" THEN warm.by ELSE session[g].tunnel)
  <2> SUFFICES ASSUME TakeWarm(g)
               PROVE  \E to \in {"Prepare", "DropMismatch", "RecheckWarm"} :
                        Holding(to, IF warm.state = "Ready" THEN warm.by ELSE session[g].tunnel)
    OBVIOUS
  <2> HIDE DEF Holding, To
  <2>1. CASE warm.state # "Ready"
    <3>1. PICK to \in {"Prepare", "RecheckWarm"} : DriveTo(g, to)
      BY <2>1 DEF TakeWarm
    <3>2. to \in SessionPcs
      BY DEF SessionPcs
    <3> QED
      BY <2>1, <3>1, <3>2, <1>3 DEF Holding, To
  <2>2. CASE warm.state = "Ready"
    <3>1. PICK at \in {"Prepare", "DropMismatch"} :
            LET f == [session EXCEPT ![g].tunnel = warm.by, ![g].at = at]
            IN  session' = f \/ NotifySessions(f)
      BY <2>2 DEF TakeWarm
    <3>2. at \in SessionPcs /\ warm.by \in {NoTunnel} \cup Tunnel
      BY <1>1, <2>2 DEF SessionPcs
    <3>3. Holding(at, warm.by)
      BY <3>1, <3>2, <1>6
    <3> QED
      BY <2>2, <3>3
  <2> QED
    BY <2>1, <2>2
<1>8. DropMismatch(g) => Holding("Prepare", NoTunnel)
  BY <1>6 DEF DropMismatch, SessionPcs
<1>9. RecheckWarm(g) => \E to \in {"WaitWarm", "TakeWarm"} : To(to)
  BY <1>3 DEF RecheckWarm, SessionPcs
<1>10. CancelWait(g) => To("Prepare")
  BY <1>3 DEF CancelWait, SessionPcs
<1>11. Prepare(g) =>
         \/ To("DropTunnel") /\ UNCHANGED tunnels
         \/ session[g].tunnel # NoTunnel /\ To("Connect") /\ UNCHANGED tunnels
         \/ /\ session[g].tunnel = NoTunnel
            /\ Holding("Connect", OwnTunnel(g)) /\ tunnels' = tunnels \cup {OwnTunnel(g)}
  BY <1>2, <1>3, <1>5, <1>6 DEF Prepare, SessionPcs
<1>12. Connect(g) => \E to \in {"NoteLive", "DropTunnel"} : To(to)
  BY <1>3, <1>5 DEF Connect, SessionPcs
<1>13. NoteLive(g) => To("Media")
  BY <1>3 DEF NoteLive, SessionPcs
<1>14. CancelMedia(g) \/ StreamEnds(g) => To("DropTunnel")
  BY <1>5 DEF CancelMedia, StreamEnds
<1>15. DropTunnel(g) => Holding("AfterAttempt", NoTunnel)
  BY <1>6 DEF DropTunnel, SessionPcs
<1>16. AfterAttempt(g) => \E to \in {"Prepare", "Release"} : To(to)
  <2> SUFFICES ASSUME AfterAttempt(g)
               PROVE  \E to \in {"Prepare", "Release"} : To(to)
    OBVIOUS
  <2>1. PICK at \in {"Prepare", "Release"}, b \in BOOLEAN :
          session' = [session EXCEPT ![g].at = at, ![g].tried = b, ![g].result = "Ended"]
    BY DEF AfterAttempt
  <2>2. at \in SessionPcs
    BY DEF SessionPcs
  <2> QED
    BY <2>1, <2>2, MovingOn, MovedOn
<1>17. Release(g) => To(IF slot.generation = g THEN "EmitEnd" ELSE "Done")
  BY <1>3 DEF Release, SessionPcs
<1>18. EmitEnd(g) => To("Done")
  BY <1>3 DEF EmitEnd, SessionPcs
<1>19. Paths(g)
  BY <1>7, <1>8, <1>9, <1>10, <1>11, <1>12, <1>13, <1>14, <1>15, <1>16, <1>17, <1>18 DEF Paths
<1>20. SessionStep(g) \/ StreamEnds(g) => session' \in [Gen -> SessionType]
  BY <1>7, <1>8, <1>9, <1>10, <1>11, <1>12, <1>13, <1>14, <1>15, <1>16, <1>17, <1>18
     DEF SessionStep
<1>21. SessionStep(g) \/ StreamEnds(g) => NotifyCalls(pc) \/ UNCHANGED pc
  BY DEF SessionStep, StreamEnds, TakeWarm, DropMismatch, RecheckWarm, CancelWait, Prepare, Connect,
         NoteLive, CancelMedia, DropTunnel, AfterAttempt, Release, EmitEnd, NotifyBy, callVars
<1> QED
  BY <1>19, <1>20, <1>21, CallsStay
-----------------------------------------------------------------------------
(* Types                                                                    *)

(* The types of what a step changes, session and pc apart.                 *)
SlotTypeOK ==
  /\ slot \in {Empty} \cup [generation : Gen, phase : {"Starting", "Live", "Stopping"},
                            handle : BOOLEAN]
  /\ next \in 0 .. MaxGen /\ cancelled \subseteq Gen \cup {Root}

CallTypeOK == call \in [Callers -> CallType]

WarmTypeOK ==
  /\ warm \in {NoWarm} \cup [state : {"Busy", "Ready"}, by : Warmup, match : BOOLEAN]
  /\ warmups \in [Warmup -> WarmPcs] /\ begun \in 0 .. MaxWarm /\ dropped \subseteq Warmup

RestTypeOK == tunnels \subseteq Tunnel /\ ends \in [Gen -> Nat]

TaskTypeOK == pc \in [Callers -> CallPcs] /\ session \in [Gen -> SessionType]

LEMMA TypeParts == TypeOK <=> SlotTypeOK /\ CallTypeOK /\ WarmTypeOK /\ RestTypeOK /\ TaskTypeOK
BY DEF TypeOK, SlotTypeOK, CallTypeOK, WarmTypeOK, RestTypeOK, TaskTypeOK, CallType, SessionType

LEMMA PrimedTypeParts ==
  ASSUME SlotTypeOK', CallTypeOK', WarmTypeOK', RestTypeOK', TaskTypeOK'
  PROVE  TypeOK'
BY DEF TypeOK, SlotTypeOK, CallTypeOK, WarmTypeOK, RestTypeOK, TaskTypeOK, CallType, SessionType

LEMMA CallTyped ==
  ASSUME MirrorAssumption, TypeOK, NEW c \in Callers
  PROVE  /\ NoCall \in CallType
         /\ \A op \in {"none", "start", "stop", "offline"} : [NoCall EXCEPT !.op = op] \in CallType
         /\ \A k \in CallType : [call EXCEPT ![c] = k] \in [Callers -> CallType]
         /\ \A g \in 0 .. MaxGen : [call EXCEPT ![c].generation = g] \in [Callers -> CallType]
         /\ \A t \in 0 .. MaxWarm : [call EXCEPT ![c].tunnel = t] \in [Callers -> CallType]
<1>1. call \in [Callers -> CallType] /\ MaxGen \in Nat /\ MaxWarm \in Nat
  BY Typed
<1>2. NoCall \in CallType
  BY <1>1 DEF NoCall, NoTunnel, CallType
<1>3. \A op \in {"none", "start", "stop", "offline"} : [NoCall EXCEPT !.op = op] \in CallType
  BY <1>2 DEF CallType
<1>4. \A k \in CallType : [call EXCEPT ![c] = k] \in [Callers -> CallType]
  BY <1>1
<1>5. \A g \in 0 .. MaxGen : [call EXCEPT ![c].generation = g] \in [Callers -> CallType]
  BY <1>1 DEF CallType
<1>6. \A t \in 0 .. MaxWarm : [call EXCEPT ![c].tunnel = t] \in [Callers -> CallType]
  BY <1>1 DEF CallType
<1> QED
  BY <1>2, <1>3, <1>4, <1>5, <1>6

(* The steps of a call, by the place they come to.                         *)
LEMMA CallPaths ==
  ASSUME MirrorAssumption, TypeOK, NEW c \in Callers
  PROVE  /\ CallStart(c) => Moves(c, "Decide") /\ SessionsRest
         /\ \A op \in {"stop", "offline"} : CallStop(c, op) => Moves(c, "Stop") /\ SessionsRest
         /\ Decide(c) => /\ SessionsRest
                         /\ \/ Moves(c, "Idle") /\ UNCHANGED slotVars
                            \/ Moves(c, "RecheckStart") /\ UNCHANGED <<slotVars, call>>
                            \/ slot.phase = "Empty" /\ Moves(c, "Spawn")
         /\ RecheckStart(c) => SessionsRest /\ \E to \in {"WaitStart", "Decide"} : Moves(c, to)
         /\ Spawn(c) => /\ UNCHANGED call
                        /\ \/ Moves(c, "Abandon") /\ SessionsRest
                           \/ /\ Moves(c, "PublishHandle") /\ call[c].generation \notin cancelled
                              /\ session' = [session EXCEPT ![call[c].generation].at = "TakeWarm"]
         /\ Abandon(c) => /\ SessionsRest
                          /\ \/ /\ Holds(call[c].generation, {"Starting"})
                                /\ Moves(c, "TellStopped") /\ UNCHANGED call
                             \/ Moves(c, "Idle") /\ UNCHANGED slotVars
         /\ PublishHandle(c) => /\ SessionsRest
                                /\ \/ Moves(c, "Idle")
                                   \/ Moves(c, "AwaitOrphan") /\ UNCHANGED call
         /\ AwaitOrphan(c) => Moves(c, "Idle") /\ SessionsRest
         /\ Stop(c) => /\ SessionsRest
                       /\ \/ \E to \in {"DropWarm", "Idle", "RecheckStop"} :
                               Moves(c, to) /\ UNCHANGED slotVars
                          \/ /\ slot.phase \in {"Starting", "Live"}
                             /\ \E to \in {"AwaitHandle", "RemoveSlot"} : Moves(c, to)
         /\ RecheckStop(c) => SessionsRest /\ \E to \in {"WaitStop", "Stop"} : Moves(c, to)
         /\ AwaitHandle(c) => Moves(c, "RemoveSlot") /\ SessionsRest
         /\ RemoveSlot(c) => /\ SessionsRest
                             /\ \/ /\ Holds(call[c].generation, {"Stopping"})
                                   /\ Moves(c, "TellStopped") /\ UNCHANGED call
                                \/ /\ \E to \in {"DropWarm", "Idle"} : Moves(c, to)
                                   /\ UNCHANGED slotVars
         /\ TellStopped(c) => SessionsRest /\ \E to \in {"DropWarm", "Idle"} : Moves(c, to)
         /\ DropWarm(c) => Moves(c, "DropTaken") /\ SessionsRest
         /\ DropTaken(c) => Moves(c, "Idle") /\ SessionsRest
<1>1. \A to \in CallPcs : Goto(c, to) => Moves(c, to)
  BY WentTo
<1>2. \A to \in CallPcs : NotifyFrom(c, to) => Moves(c, to) /\ SessionsRest
  BY NotifiedFrom
<1>3. UNCHANGED session => SessionsRest
  BY SessionsStay
<1>4. AfterStop(c) \in {"DropWarm", "Idle"}
  BY DEF AfterStop
<1>5. {"Idle", "Decide", "RecheckStart", "WaitStart", "Spawn", "Abandon", "PublishHandle",
        "AwaitOrphan",
       "Stop", "RecheckStop", "WaitStop", "AwaitHandle", "RemoveSlot", "TellStopped", "DropWarm",
       "DropTaken"} = CallPcs
  BY DEF CallPcs
<1> HIDE DEF CallPcs
<1>6. CallStart(c) => Moves(c, "Decide") /\ SessionsRest
  BY <1>1, <1>3, <1>5 DEF CallStart
<1>7. \A op \in {"stop", "offline"} : CallStop(c, op) => Moves(c, "Stop") /\ SessionsRest
  BY <1>1, <1>3, <1>5 DEF CallStop
<1>8. Decide(c) => /\ SessionsRest
                   /\ \/ Moves(c, "Idle") /\ UNCHANGED slotVars
                      \/ Moves(c, "RecheckStart") /\ UNCHANGED <<slotVars, call>>
                      \/ slot.phase = "Empty" /\ Moves(c, "Spawn")
  BY <1>1, <1>2, <1>3, <1>5 DEF Decide, Return
<1>9. RecheckStart(c) => SessionsRest /\ \E to \in {"WaitStart", "Decide"} : Moves(c, to)
  BY <1>1, <1>3, <1>5 DEF RecheckStart
<1>10. Spawn(c) => /\ UNCHANGED call
                   /\ \/ Moves(c, "Abandon") /\ SessionsRest
                      \/ /\ Moves(c, "PublishHandle") /\ call[c].generation \notin cancelled
                         /\ session' = [session EXCEPT ![call[c].generation].at = "TakeWarm"]
  BY <1>1, <1>3, <1>5 DEF Spawn, Cancelled
<1>20. Abandon(c) => /\ SessionsRest
                     /\ \/ /\ Holds(call[c].generation, {"Starting"})
                           /\ Moves(c, "TellStopped") /\ UNCHANGED call
                        \/ Moves(c, "Idle") /\ UNCHANGED slotVars
  BY <1>1, <1>3, <1>5 DEF Abandon, Return, slotVars
<1>11. PublishHandle(c) => /\ SessionsRest
                           /\ \/ Moves(c, "Idle")
                              \/ Moves(c, "AwaitOrphan") /\ UNCHANGED call
  BY <1>1, <1>2, <1>3, <1>5 DEF PublishHandle
<1>12. AwaitOrphan(c) => Moves(c, "Idle") /\ SessionsRest
  BY <1>1, <1>3, <1>5 DEF AwaitOrphan, Return
<1>13. Stop(c) => /\ SessionsRest
                  /\ \/ \E to \in {"DropWarm", "Idle", "RecheckStop"} :
                           Moves(c, to) /\ UNCHANGED slotVars
                     \/ /\ slot.phase \in {"Starting", "Live"}
                        /\ \E to \in {"AwaitHandle", "RemoveSlot"} : Moves(c, to)
  BY <1>1, <1>2, <1>3, <1>4, <1>5 DEF Stop
<1>14. RecheckStop(c) => SessionsRest /\ \E to \in {"WaitStop", "Stop"} : Moves(c, to)
  BY <1>1, <1>3, <1>5 DEF RecheckStop
<1>15. AwaitHandle(c) => Moves(c, "RemoveSlot") /\ SessionsRest
  BY <1>1, <1>3, <1>5 DEF AwaitHandle
<1>16. RemoveSlot(c) => /\ SessionsRest
                        /\ \/ /\ Holds(call[c].generation, {"Stopping"})
                              /\ Moves(c, "TellStopped") /\ UNCHANGED call
                           \/ /\ \E to \in {"DropWarm", "Idle"} : Moves(c, to)
                              /\ UNCHANGED slotVars
  BY <1>1, <1>2, <1>3, <1>4, <1>5 DEF RemoveSlot, slotVars
<1>17. TellStopped(c) => SessionsRest /\ \E to \in {"DropWarm", "Idle"} : Moves(c, to)
  BY <1>2, <1>4, <1>5 DEF TellStopped
<1>18. DropWarm(c) => Moves(c, "DropTaken") /\ SessionsRest
  BY <1>1, <1>3, <1>5 DEF DropWarm
<1>19. DropTaken(c) => Moves(c, "Idle") /\ SessionsRest
  BY <1>2, <1>5 DEF DropTaken
<1> QED
  BY <1>6, <1>7, <1>8, <1>9, <1>10, <1>11, <1>12, <1>13, <1>14, <1>15, <1>16, <1>17, <1>18, <1>19,
     <1>20

LEMMA CallsKeepTypes ==
  ASSUME MirrorAssumption, TypeOK, CallsOK, NEW c \in Callers, CallStep(c)
  PROVE  TypeOK'
<1>1. SlotTypeOK /\ CallTypeOK /\ WarmTypeOK /\ RestTypeOK /\ TaskTypeOK
  BY TypeParts
<1>2. /\ MaxGen \in Nat /\ MaxWarm \in Nat /\ call[c] \in CallType
      /\ slot.generation \in 0 .. MaxGen
      /\ slot.phase = "Empty" <=> slot.generation = 0
      /\ slot.handle \in BOOLEAN
      /\ warm.state # "None" => warm.by \in Warmup
  BY Typed
<1>3. SlotTypeOK'
  <2>1. CASE Decide(c)
    <3>1. slot.phase = "Empty" /\ next < MaxGen =>
            next + 1 \in Gen /\ next + 1 \in 0 .. MaxGen
      BY <1>1, <1>2 DEF SlotTypeOK, Gen
    <3>2. CASE UNCHANGED slotVars
      BY <1>1, <3>2 DEF SlotTypeOK, slotVars
    <3>3. CASE /\ slot.phase = "Empty" /\ next < MaxGen /\ next' = next + 1
               /\ slot' = [generation |-> next', phase |-> "Starting", handle |-> FALSE]
               /\ UNCHANGED cancelled
      BY <1>1, <3>1, <3>3 DEF SlotTypeOK
    <3> QED
      BY <2>1, <3>2, <3>3 DEF Decide
  <2>2. CASE PublishHandle(c)
    <3>1. call[c].generation \in Gen
      BY <2>2 DEF CallsOK, PublishHandle, At, OwnerPcs, BeginPcs
    <3>2. Holds(call[c].generation, {"Starting"}) =>
            slot \in [generation : Gen, phase : {"Starting", "Live", "Stopping"}, handle : BOOLEAN]
      BY <1>1 DEF SlotTypeOK, Holds, Empty
    <3> QED
      BY <1>1, <2>2, <3>1, <3>2 DEF PublishHandle, SlotTypeOK
  <2>3. CASE Stop(c)
    <3>1. slot.phase \in {"Starting", "Live"} =>
            slot \in [generation : Gen, phase : {"Starting", "Live", "Stopping"}, handle : BOOLEAN]
      BY <1>1 DEF SlotTypeOK, Empty
    <3> QED
      BY <1>1, <2>3, <3>1 DEF Stop, SlotTypeOK, slotVars
  <2>4. CASE RemoveSlot(c) \/ Abandon(c)
    BY <1>1, <2>4 DEF RemoveSlot, Abandon, SlotTypeOK
  <2>5. CASE ~(Decide(c) \/ PublishHandle(c) \/ Stop(c) \/ RemoveSlot(c) \/ Abandon(c))
    <3>1. UNCHANGED slotVars
      BY <2>5 DEF CallStep, RecheckStart, Spawn, AwaitOrphan, RecheckStop, AwaitHandle, TellStopped,
                  DropWarm, DropTaken
    <3> QED
      BY <1>1, <3>1 DEF slotVars, SlotTypeOK
  <2> QED
    BY <2>1, <2>2, <2>3, <2>4, <2>5
<1>4. CallTypeOK'
  <2>1. \A p : Back(c, p) => call' \in [Callers -> CallType]
    BY <1>1, CallTyped DEF Back, CallTypeOK
  <2>2. CASE Decide(c)
    <3>1. next < MaxGen => next + 1 \in 0 .. MaxGen
      BY <1>1, <1>2 DEF SlotTypeOK
    <3> QED
      BY <1>1, <2>1, <2>2, <3>1, CallTyped DEF Decide, Return, CallTypeOK
  <2>3. CASE Stop(c)
    BY <1>1, <1>2, <2>1, <2>3, CallTyped DEF Stop, CallTypeOK
  <2>4. CASE DropWarm(c)
    <3>1. (IF warm.state = "Ready" THEN warm.by ELSE NoTunnel) \in 0 .. MaxWarm
      BY <1>2 DEF Warmup, NoTunnel
    <3> QED
      BY <2>4, <3>1, CallTyped DEF DropWarm, CallTypeOK
  <2>5. CASE DropTaken(c)
    BY <2>5, CallTyped DEF DropTaken, CallTypeOK
  <2>6. CASE ~(Decide(c) \/ Stop(c) \/ DropWarm(c) \/ DropTaken(c))
    <3>1. UNCHANGED call \/ \E p : Back(c, p)
      BY <2>6 DEF CallStep, RecheckStart, Spawn, Abandon, PublishHandle, AwaitOrphan, RecheckStop,
         AwaitHandle,
                  RemoveSlot, TellStopped, Return
    <3> QED
      BY <1>1, <2>1, <3>1 DEF CallTypeOK
  <2> QED
    BY <2>2, <2>3, <2>4, <2>5, <2>6
<1>5. WarmTypeOK'
  <2>1. CASE DropWarm(c)
    BY <1>1, <1>2, <2>1 DEF DropWarm, WarmTypeOK
  <2>2. CASE ~DropWarm(c)
    <3>1. UNCHANGED warmVars
      BY <2>2 DEF CallStep, Decide, RecheckStart, Spawn, Abandon, PublishHandle, AwaitOrphan, Stop,
                  RecheckStop, AwaitHandle, RemoveSlot, TellStopped, DropTaken
    <3> QED
      BY <1>1, <3>1 DEF warmVars, WarmTypeOK
  <2> QED
    BY <2>1, <2>2
<1>6. RestTypeOK'
  <2>1. CASE TellStopped(c)
    <3>1. \A g \in Gen : ends[g] + 1 \in Nat
      BY <1>1 DEF RestTypeOK
    <3>2. \A g : [ends EXCEPT ![g] = @ + 1] \in [Gen -> Nat]
      BY <1>1, <3>1 DEF RestTypeOK
    <3> QED
      BY <1>1, <2>1, <3>2 DEF TellStopped, TellEnd, RestTypeOK
  <2>2. CASE DropTaken(c)
    BY <1>1, <2>2 DEF DropTaken, RestTypeOK
  <2>3. CASE ~(TellStopped(c) \/ DropTaken(c))
    <3>1. UNCHANGED <<tunnels, ends>>
      BY <2>3 DEF CallStep, Decide, RecheckStart, Spawn, Abandon, PublishHandle, AwaitOrphan, Stop,
                  RecheckStop, AwaitHandle, RemoveSlot, DropWarm
    <3> QED
      BY <1>1, <3>1 DEF RestTypeOK
  <2> QED
    BY <2>1, <2>2, <2>3
<1>7. TaskTypeOK'
  <2>1. \A to \in CallPcs :
          /\ Goto(c, to) => pc' \in [Callers -> CallPcs]
          /\ NotifyFrom(c, to) =>
               pc' \in [Callers -> CallPcs] /\ session' \in [Gen -> SessionType]
    BY WentTo, NotifiedFrom
  <2>2. AfterStop(c) \in {"DropWarm", "Idle"}
    BY DEF AfterStop
  <2>3. {"Idle", "Decide", "RecheckStart", "WaitStart", "Spawn", "Abandon", "PublishHandle",
          "AwaitOrphan",
         "Stop", "RecheckStop", "WaitStop", "AwaitHandle", "RemoveSlot", "TellStopped", "DropWarm",
         "DropTaken"} = CallPcs
    BY DEF CallPcs
  <2> HIDE DEF CallPcs
  <2>4. UNCHANGED session => session' \in [Gen -> SessionType]
    BY <1>1 DEF TaskTypeOK
  <2>5. [session EXCEPT ![call[c].generation].at = "TakeWarm"] \in [Gen -> SessionType]
    BY <1>1, ZenonT(40) DEF TaskTypeOK, SessionType, SessionPcs
  <2>6. pc' \in [Callers -> CallPcs]
    BY <2>1, <2>2, <2>3 DEF CallStep, Decide, RecheckStart, Spawn, Abandon, PublishHandle,
       AwaitOrphan, Stop,
       RecheckStop, AwaitHandle, RemoveSlot, TellStopped, DropWarm, DropTaken, Return
  <2>7. session' \in [Gen -> SessionType]
    BY <2>1, <2>2, <2>3, <2>4, <2>5
       DEF CallStep, Decide, RecheckStart, Spawn, Abandon, PublishHandle, AwaitOrphan, Stop,
       RecheckStop, AwaitHandle, RemoveSlot, TellStopped, DropWarm, DropTaken
  <2> QED
    BY <2>6, <2>7 DEF TaskTypeOK
<1> QED
  BY <1>3, <1>4, <1>5, <1>6, <1>7, PrimedTypeParts

LEMMA OthersKeepTypes ==
  ASSUME MirrorAssumption, TypeOK,
         \/ \E c \in Starters : CallStart(c)
         \/ \E c \in Stoppers : CallStop(c, "stop")
         \/ \E c \in Joiners : CallStop(c, "offline")
         \/ \E g \in Gen : SessionStep(g) \/ StreamEnds(g)
         \/ \E match \in BOOLEAN : CallWarmup(match)
         \/ \E w \in Warmup : WarmStep(w)
         \/ Exit
  PROVE  TypeOK'
<1>1. SlotTypeOK /\ CallTypeOK /\ WarmTypeOK /\ RestTypeOK /\ TaskTypeOK
  BY TypeParts
<1>2. /\ MaxGen \in Nat /\ MaxWarm \in Nat
      /\ slot.generation \in 0 .. MaxGen
      /\ warm.state # "None" => warm.by \in Warmup
  BY Typed
<1>3. CASE \E c \in Callers, op \in {"stop", "offline"} : CallStart(c) \/ CallStop(c, op)
  <2>1. PICK c \in Callers, op \in {"stop", "offline"} : CallStart(c) \/ CallStop(c, op)
    BY <1>3
  <2>2. CallTypeOK'
    BY <2>1, CallTyped DEF CallStart, CallStop, CallTypeOK
  <2>3. TaskTypeOK'
    BY <1>1, <2>1, WentTo DEF CallStart, CallStop, TaskTypeOK, CallPcs
  <2>4. SlotTypeOK' /\ WarmTypeOK' /\ RestTypeOK'
    BY <1>1, <2>1 DEF CallStart, CallStop, SlotTypeOK, WarmTypeOK, RestTypeOK, slotVars, warmVars
  <2> QED
    BY <2>2, <2>3, <2>4, PrimedTypeParts
<1>4. CASE \E g \in Gen : SessionStep(g) \/ StreamEnds(g)
  <2>1. PICK g \in Gen : SessionStep(g) \/ StreamEnds(g)
    BY <1>4
  <2>2. TaskTypeOK'
    BY <2>1, SessionPaths DEF TaskTypeOK
  <2>3. SlotTypeOK'
    <3>1. CASE NoteLive(g)
      <4>1. Holds(g, {"Starting"}) =>
              slot \in [generation : Gen, phase : {"Starting", "Live", "Stopping"},
                        handle : BOOLEAN]
        BY <1>1 DEF SlotTypeOK, Holds, Empty
      <4> QED
        BY <1>1, <3>1, <4>1 DEF NoteLive, SlotTypeOK
    <3>2. CASE Release(g)
      BY <1>1, <3>2 DEF Release, SlotTypeOK
    <3>3. CASE ~(NoteLive(g) \/ Release(g))
      <4>1. UNCHANGED slotVars
        BY <2>1, <3>3 DEF SessionStep, StreamEnds, TakeWarm, DropMismatch, RecheckWarm, CancelWait,
           Prepare, Connect, CancelMedia, DropTunnel, AfterAttempt, EmitEnd
      <4> QED
        BY <1>1, <4>1 DEF SlotTypeOK, slotVars
    <3> QED
      BY <3>1, <3>2, <3>3
  <2>4. CallTypeOK'
    <3>1. UNCHANGED call
      BY <2>1 DEF SessionStep, StreamEnds, TakeWarm, DropMismatch, RecheckWarm, CancelWait,
         Prepare, Connect, NoteLive, CancelMedia, DropTunnel, AfterAttempt, Release, EmitEnd,
           callVars
    <3> QED
      BY <1>1, <3>1 DEF CallTypeOK
  <2>5. WarmTypeOK'
    <3>1. CASE TakeWarm(g)
      BY <1>1, <1>2, <3>1 DEF TakeWarm, WarmTypeOK
    <3>2. CASE ~TakeWarm(g)
      <4>1. UNCHANGED warmVars
        BY <2>1, <3>2 DEF SessionStep, StreamEnds, DropMismatch, RecheckWarm, CancelWait,
           Prepare, Connect, NoteLive, CancelMedia, DropTunnel, AfterAttempt, Release, EmitEnd
      <4> QED
        BY <1>1, <4>1 DEF WarmTypeOK, warmVars
    <3> QED
      BY <3>1, <3>2
  <2>6. RestTypeOK'
    <3>1. OwnTunnel(g) \in Tunnel
      BY <1>2 DEF OwnTunnel, Tunnel, Gen
    <3>2. tunnels' \subseteq Tunnel
      <4>1. CASE DropMismatch(g) \/ DropTunnel(g) \/ Prepare(g)
        <5>1. \/ UNCHANGED tunnels
              \/ tunnels' = tunnels \ {session[g].tunnel}
              \/ tunnels' = tunnels \cup {OwnTunnel(g)}
          BY <4>1 DEF DropMismatch, DropTunnel, Prepare
        <5> QED
          BY <1>1, <3>1, <5>1 DEF RestTypeOK
      <4>2. CASE ~(DropMismatch(g) \/ DropTunnel(g) \/ Prepare(g))
        <5>1. UNCHANGED tunnels
          BY <2>1, <4>2 DEF SessionStep, StreamEnds, TakeWarm, RecheckWarm, CancelWait, Connect,
             NoteLive, CancelMedia, AfterAttempt, Release, EmitEnd
        <5> QED
          BY <1>1, <5>1 DEF RestTypeOK
      <4> QED
        BY <4>1, <4>2
    <3>3. ends' \in [Gen -> Nat]
      <4>1. ends[g] + 1 \in Nat
        BY <1>1 DEF RestTypeOK
      <4>2. CASE EmitEnd(g)
        BY <1>1, <4>1, <4>2 DEF EmitEnd, TellEnd, RestTypeOK
      <4>3. CASE ~EmitEnd(g)
        <5>1. UNCHANGED ends
          BY <2>1, <4>3 DEF SessionStep, StreamEnds, TakeWarm, DropMismatch, RecheckWarm,
             CancelWait,
             Prepare, Connect, NoteLive, CancelMedia, DropTunnel, AfterAttempt, Release
        <5> QED
          BY <1>1, <5>1 DEF RestTypeOK
      <4> QED
        BY <4>2, <4>3
    <3> QED
      BY <3>2, <3>3 DEF RestTypeOK
  <2> QED
    BY <2>2, <2>3, <2>4, <2>5, <2>6, PrimedTypeParts
<1>5. CASE (\E match \in BOOLEAN : CallWarmup(match)) \/ \E w \in Warmup : WarmStep(w)
  <2>1. TaskTypeOK'
    BY <1>1, <1>5, CallsStay, SessionsStay
       DEF CallWarmup, WarmStep, OpenWarm, Commit, DropStale, TaskTypeOK, callVars
  <2>2. SlotTypeOK' /\ CallTypeOK'
    BY <1>1, <1>5 DEF CallWarmup, WarmStep, OpenWarm, Commit, DropStale, SlotTypeOK, CallTypeOK,
       slotVars, callVars
  <2>3. WarmTypeOK' /\ RestTypeOK'
    <3>1. CASE \E match \in BOOLEAN : CallWarmup(match)
      <4>1. begun < MaxWarm => begun + 1 \in Warmup /\ begun + 1 \in 0 .. MaxWarm
        BY <1>1, <1>2 DEF WarmTypeOK, Warmup
      <4> QED
        BY <1>1, <3>1, <4>1 DEF CallWarmup, WarmTypeOK, RestTypeOK, WarmPcs
    <3>2. CASE \E w \in Warmup : WarmStep(w)
      <4>1. PICK w \in Warmup : WarmStep(w)
        BY <3>2
      <4>2. w \in Tunnel
        BY <1>2 DEF Warmup, Tunnel
      <4>3. CASE Commit(w)
        <5>1. warm.state = "Busy" =>
                warm \in [state : {"Busy", "Ready"}, by : Warmup, match : BOOLEAN]
          BY <1>1 DEF WarmTypeOK, NoWarm
        <5> QED
          BY <1>1, <4>3, <5>1, ZenonT(40) DEF Commit, WarmTypeOK, RestTypeOK, WarmPcs
      <4>4. CASE OpenWarm(w) \/ DropStale(w)
        BY <1>1, <4>2, <4>4 DEF OpenWarm, DropStale, WarmTypeOK, RestTypeOK, WarmPcs
      <4> QED
        BY <4>1, <4>3, <4>4 DEF WarmStep
    <3> QED
      BY <1>5, <3>1, <3>2
  <2> QED
    BY <2>1, <2>2, <2>3, PrimedTypeParts
<1>6. CASE Exit
  <2>1. SlotTypeOK'
    BY <1>1, <1>6 DEF Exit, SlotTypeOK
  <2>2. CallTypeOK' /\ WarmTypeOK' /\ RestTypeOK' /\ TaskTypeOK'
    BY <1>1, <1>6 DEF Exit, CallTypeOK, WarmTypeOK, RestTypeOK, TaskTypeOK, callVars, warmVars
  <2> QED
    BY <2>1, <2>2, PrimedTypeParts
<1> QED
  BY <1>3, <1>4, <1>5, <1>6 DEF Callers
-----------------------------------------------------------------------------
(* The life of a session                                                    *)

Over == {"None", "EmitEnd", "Done"}

(* Nobody comes to own a generation or to owe its end, no session begins   *)
(* or ends.                                                                *)
QuietCalls ==
  \A c \in Callers : pc'[c] \in OwnerPcs =>
    /\ pc[c] \in OwnerPcs
    /\ pc'[c] \in BeginPcs => pc[c] \in BeginPcs
    /\ pc'[c] = "TellStopped" => pc[c] = "TellStopped"
    /\ call'[c].generation = call[c].generation

QuietSessions ==
  \A g \in Gen : /\ session'[g].at = "None" <=> session[g].at = "None"
                 /\ session'[g].at = "EmitEnd" => session[g].at = "EmitEnd"
                 /\ session'[g].at \notin Over => session[g].at \notin Over

LEMMA RestsLife ==
  ASSUME MirrorAssumption, TypeOK, Life, QuietCalls, QuietSessions, UNCHANGED <<slotVars, ends>>
  PROVE  Life'
<1>1. /\ slot' = slot /\ next' = next /\ cancelled' = cancelled /\ ends' = ends
      /\ CallsOK /\ SlotOK /\ SessionsOK /\ SpawnsOK /\ OrphansAreCancelled /\ EndsOK
  BY DEF slotVars, Life
<1>2. CallsOK' /\ SlotOK'
  BY <1>1 DEF CallsOK, SlotOK, QuietCalls
<1>3. SessionsOK' /\ OrphansAreCancelled'
  BY <1>1 DEF SessionsOK, OrphansAreCancelled, QuietSessions, Over
<1>4. SpawnsOK'
  <2> SUFFICES ASSUME NEW c \in Callers, pc'[c] \in BeginPcs
               PROVE  /\ session'[call'[c].generation].at = "None"
                      /\ call'[c].generation \notin cancelled =>
                           slot.generation = call'[c].generation
                      /\ \A d \in Callers :
                           pc'[d] \in BeginPcs /\ call'[d].generation = call'[c].generation => d = c
    BY <1>1 DEF SpawnsOK
  <2>1. /\ pc[c] \in BeginPcs /\ call'[c].generation = call[c].generation
        /\ call[c].generation \in Gen
    BY <1>1 DEF QuietCalls, OwnerPcs, BeginPcs, CallsOK
  <2>2. \A d \in Callers : pc'[d] \in BeginPcs =>
          pc[d] \in BeginPcs /\ call'[d].generation = call[d].generation
    BY DEF QuietCalls, OwnerPcs, BeginPcs
  <2> QED
    BY <1>1, <2>1, <2>2 DEF SpawnsOK, QuietSessions
<1>5. EndsOK'
  <2>1. \A c \in Callers, g \in Gen : Owes(c, g)' => Owes(c, g)
    BY DEF Owes, QuietCalls, OwnerPcs, BeginPcs
  <2> QED
    BY <1>1, <2>1 DEF EndsOK, QuietSessions
<1> QED
  BY <1>2, <1>3, <1>4, <1>5 DEF Life

(* Where these steps leave a call, a notification reaches nobody's pc.     *)
LEMMA Firm ==
  /\ OwnerPcs \subseteq FirmPcs
  /\ {"Idle", "DropTaken", "DropWarm", "RecheckStart", "RecheckStop"} \subseteq FirmPcs
  /\ Over \subseteq FirmAts /\ Working \subseteq FirmAts
BY DEF OwnerPcs, BeginPcs, FirmPcs, CallPcs, Over, Working, FirmAts, SessionPcs

LEMMA Quiet ==
  ASSUME MirrorAssumption, TypeOK
  PROVE  /\ CallsRest /\ UNCHANGED call => QuietCalls
         /\ SessionsRest => QuietSessions
         /\ \A c \in Callers, to \in CallPcs :
              /\ Moves(c, to)
              /\ \A d \in Callers : d # c => call'[d] = call[d]
              /\ to \in OwnerPcs =>
                   /\ pc[c] \in OwnerPcs /\ to # "TellStopped"
                   /\ to \in BeginPcs => pc[c] \in BeginPcs
                   /\ call'[c].generation = call[c].generation
              => QuietCalls
         /\ \A g \in Gen : \A to \in SessionPcs \ Over : \A t :
              MovesOn(g, to, t) /\ session[g].at \notin Over => QuietSessions
<1>1. CallsRest /\ UNCHANGED call => QuietCalls
  BY Firm DEF CallsRest, QuietCalls, OwnerPcs, BeginPcs
<1>2. SessionsRest => QuietSessions
  BY Firm DEF SessionsRest, QuietSessions, Over
<1>3. ASSUME NEW c \in Callers, NEW to \in CallPcs, Moves(c, to),
             \A d \in Callers : d # c => call'[d] = call[d],
             to \in OwnerPcs => /\ pc[c] \in OwnerPcs /\ to # "TellStopped"
                                /\ to \in BeginPcs => pc[c] \in BeginPcs
                                /\ call'[c].generation = call[c].generation
      PROVE  QuietCalls
  <2> SUFFICES ASSUME NEW d \in Callers, pc'[d] \in OwnerPcs
               PROVE  /\ pc[d] \in OwnerPcs
                      /\ pc'[d] \in BeginPcs => pc[d] \in BeginPcs
                      /\ pc'[d] = "TellStopped" => pc[d] = "TellStopped"
                      /\ call'[d].generation = call[d].generation
    BY DEF QuietCalls
  <2>1. PICK p \in OwnerPcs : pc'[d] = p
    OBVIOUS
  <2>2. IF d = c THEN to = p ELSE pc[d] = p
    BY <1>3, <2>1, Firm DEF Moves
  <2> QED
    BY <1>3, <2>1, <2>2
<1>4. ASSUME NEW g \in Gen, NEW to \in SessionPcs \ Over, NEW t, MovesOn(g, to, t),
             session[g].at \notin Over
      PROVE  QuietSessions
  BY <1>4, Firm DEF MovesOn, QuietSessions, Over
<1> QED
  BY <1>1, <1>2, <1>3, <1>4

LEMMA QuietStepsKeepLife ==
  ASSUME MirrorAssumption, TypeOK, Life,
         \/ \E c \in Callers, op \in {"stop", "offline"} : CallStart(c) \/ CallStop(c, op)
         \/ \E c \in Callers : RecheckStart(c) \/ AwaitOrphan(c) \/ RecheckStop(c) \/ AwaitHandle(c)
                              \/ DropWarm(c) \/ DropTaken(c)
         \/ \E g \in Gen : TakeWarm(g) \/ DropMismatch(g) \/ RecheckWarm(g) \/ CancelWait(g)
                          \/ Prepare(g) \/ Connect(g) \/ CancelMedia(g) \/ StreamEnds(g)
                          \/ DropTunnel(g) \/ AfterAttempt(g)
         \/ \E match \in BOOLEAN : CallWarmup(match)
         \/ \E w \in Warmup : WarmStep(w)
  PROVE  Life'
<1>1. call \in [Callers -> CallType]
  BY Typed
<1>2. CASE \E c \in Callers, op \in {"stop", "offline"} : CallStart(c) \/ CallStop(c, op)
  <2>1. PICK c \in Callers, op \in {"stop", "offline"} : CallStart(c) \/ CallStop(c, op)
    BY <1>2
  <2>2. \E to \in CallPcs \ OwnerPcs : Moves(c, to) /\ SessionsRest
    BY <2>1, CallPaths DEF CallPcs, OwnerPcs, BeginPcs
  <2>3. \A d \in Callers : d # c => call'[d] = call[d]
    BY <1>1, <2>1 DEF CallStart, CallStop
  <2>4. UNCHANGED <<slotVars, ends>>
    BY <2>1 DEF CallStart, CallStop
  <2> QED
    BY <2>2, <2>3, <2>4, Quiet, RestsLife
<1>3. CASE \E c \in Callers : RecheckStart(c) \/ AwaitOrphan(c) \/ RecheckStop(c) \/ AwaitHandle(c)
                           \/ DropWarm(c) \/ DropTaken(c)
  <2>1. PICK c \in Callers : RecheckStart(c) \/ AwaitOrphan(c) \/ RecheckStop(c) \/ AwaitHandle(c)
                           \/ DropWarm(c) \/ DropTaken(c)
    BY <1>3
  <2>2. UNCHANGED <<slotVars, ends>>
    BY <2>1 DEF RecheckStart, AwaitOrphan, RecheckStop, AwaitHandle, DropWarm, DropTaken
  <2>3. \A d \in Callers : d # c => call'[d] = call[d]
    BY <1>1, <2>1 DEF RecheckStart, AwaitOrphan, RecheckStop, AwaitHandle, DropWarm, DropTaken,
       Return, Back
  <2>4. CASE AwaitHandle(c)
    <3>1. Moves(c, "RemoveSlot") /\ SessionsRest
      BY <2>4, CallPaths
    <3>2. /\ pc[c] \in OwnerPcs /\ "RemoveSlot" \in CallPcs \ BeginPcs /\ UNCHANGED call
      BY <2>4 DEF AwaitHandle, At, OwnerPcs, BeginPcs, CallPcs
    <3> QED
      BY <2>2, <2>3, <3>1, <3>2, Quiet, RestsLife
  <2>5. CASE ~AwaitHandle(c)
    <3>1. \E to \in CallPcs \ OwnerPcs : Moves(c, to) /\ SessionsRest
      BY <2>1, <2>5, CallPaths DEF CallPcs, OwnerPcs, BeginPcs
    <3> QED
      BY <2>2, <2>3, <3>1, Quiet, RestsLife
  <2> QED
    BY <2>4, <2>5
<1>4. CASE \E g \in Gen : TakeWarm(g) \/ DropMismatch(g) \/ RecheckWarm(g) \/ CancelWait(g)
                       \/ Prepare(g) \/ Connect(g) \/ CancelMedia(g) \/ StreamEnds(g)
                       \/ DropTunnel(g) \/ AfterAttempt(g)
  <2>1. PICK g \in Gen : TakeWarm(g) \/ DropMismatch(g) \/ RecheckWarm(g) \/ CancelWait(g)
                       \/ Prepare(g) \/ Connect(g) \/ CancelMedia(g) \/ StreamEnds(g)
                       \/ DropTunnel(g) \/ AfterAttempt(g)
    BY <1>4
  <2>2. UNCHANGED <<slotVars, call, ends>>
    BY <2>1 DEF TakeWarm, DropMismatch, RecheckWarm, CancelWait, Prepare, Connect, CancelMedia,
       StreamEnds, DropTunnel, AfterAttempt, callVars
  <2>3. session[g].at \notin Over
    BY <2>1 DEF TakeWarm, DropMismatch, RecheckWarm, CancelWait, Prepare, Connect, CancelMedia,
       StreamEnds, DropTunnel, AfterAttempt, Drives, Over
  <2>4. CallsRest
    BY <2>1, SessionPaths DEF SessionStep
  <2>5. \E to \in SessionPcs \ Over : \E t : MovesOn(g, to, t)
    <3>1. Paths(g)
      BY SessionPaths
    <3>2. {"TakeWarm", "RecheckWarm", "WaitWarm", "DropMismatch", "Prepare", "Connect", "NoteLive",
           "DropTunnel", "AfterAttempt", "Release"} \subseteq SessionPcs \ Over
      BY DEF SessionPcs, Over
    <3> HIDE DEF SessionPcs, Over
    <3>3. CASE TakeWarm(g) \/ DropMismatch(g) \/ RecheckWarm(g) \/ CancelWait(g)
      BY <3>1, <3>2, <3>3 DEF Paths
    <3>4. CASE Prepare(g) \/ Connect(g) \/ CancelMedia(g) \/ StreamEnds(g)
      BY <3>1, <3>2, <3>4 DEF Paths
    <3>5. CASE DropTunnel(g) \/ AfterAttempt(g)
      BY <3>1, <3>2, <3>5 DEF Paths
    <3> QED
      BY <2>1, <3>3, <3>4, <3>5
  <2> QED
    BY <2>2, <2>3, <2>4, <2>5, Quiet, RestsLife
<1>5. CASE (\E match \in BOOLEAN : CallWarmup(match)) \/ \E w \in Warmup : WarmStep(w)
  <2>1. UNCHANGED <<slotVars, call, ends>>
    BY <1>5 DEF CallWarmup, WarmStep, OpenWarm, Commit, DropStale, callVars
  <2>2. CallsRest /\ SessionsRest
    BY <1>5, CallsStay, SessionsStay DEF CallWarmup, WarmStep, OpenWarm, Commit, DropStale, callVars
  <2> QED
    BY <2>1, <2>2, Quiet, RestsLife
<1> QED
  BY <1>2, <1>3, <1>4, <1>5

(* A new session: nobody had its number.                                   *)
LEMMA DecideKeepsLife ==
  ASSUME MirrorAssumption, TypeOK, Life, NEW c \in Callers, Decide(c)
  PROVE  Life'
<1> USE DEF OwnerPcs, BeginPcs
<1>1. /\ CallsOK /\ SlotOK /\ SessionsOK /\ SpawnsOK /\ OrphansAreCancelled /\ EndsOK
      /\ call \in [Callers -> CallType] /\ next \in 0 .. MaxGen /\ MaxGen \in Nat
      /\ slot.phase = "Empty" <=> slot.generation = 0
      /\ UNCHANGED ends
  BY Typed DEF Life, Decide, TypeOK
<1>2. SessionsRest
  BY CallPaths
<1>3. CASE UNCHANGED slotVars
  <2>1. \E to \in {"Idle", "RecheckStart"} : Moves(c, to)
    <3>1. slot.phase # "Empty"
      BY <1>1, <1>3 DEF Decide, slotVars
    <3> QED
      BY <3>1, CallPaths
  <2>2. \A d \in Callers : d # c => call'[d] = call[d]
    BY <1>1 DEF Decide, Return, Back
  <2> QED
    BY <1>1, <1>2, <1>3, <2>1, <2>2, Quiet, RestsLife DEF CallPcs
<1>4. CASE ~UNCHANGED slotVars
  <2>1. /\ slot.phase = "Empty" /\ next < MaxGen
        /\ next' = next + 1 /\ slot'.generation = next + 1 /\ slot'.phase = "Starting"
        /\ cancelled' = cancelled
        /\ call' = [call EXCEPT ![c].generation = next + 1]
    BY <1>4 DEF Decide, slotVars
  <2>2. Moves(c, "Spawn")
    BY <1>4, CallPaths DEF slotVars
  <2>3. \A d \in Callers : /\ pc'[d] \in BeginPcs => d = c \/ pc[d] \in BeginPcs
                           /\ pc'[d] \in OwnerPcs => d = c \/ pc[d] \in OwnerPcs
                           /\ pc'[d] = "TellStopped" => d # c /\ pc[d] = "TellStopped"
    BY <2>2, Firm DEF Moves
  <2>4. \A d \in Callers : call'[d].generation = IF d = c THEN next + 1 ELSE call[d].generation
    BY <1>1, <2>1 DEF CallType
  <2>5. \A g \in Gen : /\ session'[g].at = "None" <=> session[g].at = "None"
                       /\ session'[g].at = "EmitEnd" <=> session[g].at = "EmitEnd"
                       /\ session'[g].at \in Over <=> session[g].at \in Over
    BY <1>2, Firm DEF SessionsRest, Over
  <2>6. next + 1 \in Gen
    BY <1>1, <2>1 DEF Gen
  <2>7. CallsOK'
    BY <1>1, <2>1, <2>3, <2>4, <2>6 DEF CallsOK, Gen
  <2>8. SlotOK' /\ SessionsOK'
    BY <1>1, <2>1, <2>5 DEF SlotOK, SessionsOK, Gen
  <2>9. SpawnsOK'
    <3>1. session[next + 1].at = "None"
      BY <1>1, <2>6 DEF SessionsOK, Gen
    <3>2. \A d \in Callers : pc[d] \in BeginPcs =>
            /\ call[d].generation \in Gen /\ call[d].generation # next + 1
            /\ call[d].generation \in cancelled
      BY <1>1, <2>1 DEF CallsOK, SpawnsOK, Gen
    <3> QED
      BY <1>1, <2>1, <2>3, <2>4, <2>5, <2>6, <3>1, <3>2 DEF SpawnsOK
  <2>10. OrphansAreCancelled'
    BY <1>1, <2>1, <2>5, <2>6 DEF OrphansAreCancelled, SessionsOK, Over, Gen
  <2>11. EndsOK'
    <3>1. \A d \in Callers, g \in Gen : Owes(d, g)' => Owes(d, g)
      BY <2>3, <2>4 DEF Owes
    <3> QED
      BY <1>1, <2>1, <2>5, <3>1 DEF EndsOK, Gen
  <2> QED
    BY <2>7, <2>8, <2>9, <2>10, <2>11 DEF Life
<1> QED
  BY <1>3, <1>4

(* A session that begins has its slot, or whoever took it has cancelled it *)
(* before.                                                                 *)
LEMMA SpawnKeepsLife ==
  ASSUME MirrorAssumption, TypeOK, Life, NEW c \in Callers, Spawn(c)
  PROVE  Life'
<1> DEFINE g == call[c].generation
<1>1. /\ CallsOK /\ SlotOK /\ SessionsOK /\ SpawnsOK /\ OrphansAreCancelled /\ EndsOK
      /\ call \in [Callers -> CallType] /\ session \in [Gen -> SessionType]
  BY Typed DEF Life
<1>2. slot' = slot /\ next' = next /\ cancelled' = cancelled /\ ends' = ends
  BY DEF Spawn, slotVars
<1>3. pc[c] = "Spawn" /\ g \in Gen /\ g <= next /\ session[g].at = "None"
  BY <1>1 DEF Spawn, At, CallsOK, SpawnsOK, OwnerPcs, BeginPcs
<1>4. CASE Moves(c, "Abandon") /\ SessionsRest
  <2>1. UNCHANGED call
    BY CallPaths
  <2> QED
    BY <1>2, <1>3, <1>4, <2>1, Quiet, RestsLife DEF CallPcs, OwnerPcs, BeginPcs, slotVars
<1>5. CASE /\ Moves(c, "PublishHandle") /\ g \notin cancelled
           /\ session' = [session EXCEPT ![g].at = "TakeWarm"]
  <2>1. /\ Moves(c, "PublishHandle") /\ call' = call
        /\ session' = [session EXCEPT ![g].at = "TakeWarm"]
    BY <1>5, CallPaths
  <2>2. slot.generation = g /\ \A d \in Callers : pc[d] \in BeginPcs /\ call[d].generation = g =>
          d = c
    BY <1>1, <1>3, <1>5 DEF SpawnsOK, BeginPcs
  <2>3. \A h \in Gen : session'[h].at = IF h = g THEN "TakeWarm" ELSE session[h].at
    BY <1>1, <2>1 DEF SessionType
  <2>4. \A d \in Callers : /\ pc'[d] \in BeginPcs => d # c /\ pc[d] \in BeginPcs
                           /\ pc'[d] \in OwnerPcs => pc[d] \in OwnerPcs
                           /\ pc'[d] = "TellStopped" => pc[d] = "TellStopped"
    BY <1>3, <2>1, Firm DEF Moves, OwnerPcs, BeginPcs
  <2>5. CallsOK' /\ SlotOK' /\ SessionsOK'
    BY <1>1, <1>2, <1>3, <2>1, <2>3, <2>4 DEF CallsOK, SlotOK, SessionsOK
  <2>6. SpawnsOK'
    <3>1. \A d \in Callers : pc'[d] \in BeginPcs => call[d].generation \in Gen \ {g}
      BY <1>1, <2>2, <2>4 DEF CallsOK, OwnerPcs, BeginPcs
    <3> QED
      BY <1>1, <1>2, <2>1, <2>3, <2>4, <3>1 DEF SpawnsOK
  <2>7. OrphansAreCancelled'
    BY <1>1, <1>2, <2>2, <2>3 DEF OrphansAreCancelled
  <2>8. EndsOK'
    <3>1. \A d \in Callers, h \in Gen : Owes(d, h)' => Owes(d, h)
      BY <2>1, <2>4 DEF Owes
    <3>2. \A h \in Gen : session'[h].at = "EmitEnd" => session[h].at = "EmitEnd"
      BY <2>3
    <3> QED
      BY <1>1, <1>2, <3>1, <3>2 DEF EndsOK
  <2> QED
    BY <2>5, <2>6, <2>7, <2>8 DEF Life
<1> QED
  BY <1>4, <1>5, CallPaths

(* A start that finds its slot taken cancels its own session.              *)
LEMMA PublishKeepsLife ==
  ASSUME MirrorAssumption, TypeOK, Life, NEW c \in Callers, PublishHandle(c)
  PROVE  Life'
<1> DEFINE g == call[c].generation
<1>1. /\ CallsOK /\ SlotOK /\ SessionsOK /\ SpawnsOK /\ OrphansAreCancelled /\ EndsOK
      /\ call \in [Callers -> CallType]
  BY Typed DEF Life
<1>2. /\ pc[c] = "PublishHandle" /\ next' = next /\ ends' = ends
      /\ cancelled \subseteq cancelled'
      /\ slot'.generation = slot.generation /\ slot'.phase = slot.phase
      /\ SessionsRest
  BY CallPaths, Typed DEF PublishHandle, At, TypeOK, Holds, Empty
<1>3. \A d \in Callers : /\ pc'[d] \in BeginPcs => pc[d] \in BeginPcs
                         /\ pc'[d] \in OwnerPcs => pc[d] \in OwnerPcs
                         /\ pc'[d] = "TellStopped" => pc[d] = "TellStopped"
                         /\ pc'[d] \in OwnerPcs => call'[d].generation = call[d].generation
  <2>1. CASE Moves(c, "Idle")
    <3>1. \A d \in Callers : d # c => call'[d] = call[d]
      BY <1>1 DEF PublishHandle, Back
    <3> QED
      BY <2>1, <3>1, Firm DEF Moves, OwnerPcs, BeginPcs
  <2>2. CASE Moves(c, "AwaitOrphan") /\ UNCHANGED call
    BY <1>2, <2>2, Firm DEF Moves, OwnerPcs, BeginPcs
  <2> QED
    BY <2>1, <2>2, CallPaths
<1>4. \A h \in Gen : /\ session'[h].at = "None" <=> session[h].at = "None"
                     /\ session'[h].at = "EmitEnd" <=> session[h].at = "EmitEnd"
                     /\ session'[h].at \in Over <=> session[h].at \in Over
  BY <1>2, Firm DEF SessionsRest, Over
<1>5. CallsOK' /\ SlotOK' /\ SessionsOK'
  BY <1>1, <1>2, <1>3, <1>4 DEF CallsOK, SlotOK, SessionsOK
<1>6. SpawnsOK'
  BY <1>1, <1>2, <1>3, <1>4 DEF SpawnsOK, CallsOK, OwnerPcs, BeginPcs
<1>7. OrphansAreCancelled'
  BY <1>1, <1>2, <1>4 DEF OrphansAreCancelled, Over
<1>8. EndsOK'
  <2>1. \A d \in Callers, h \in Gen : Owes(d, h)' => Owes(d, h)
    BY <1>3 DEF Owes, OwnerPcs, BeginPcs
  <2> QED
    BY <1>1, <1>2, <1>4, <2>1 DEF EndsOK
<1> QED
  BY <1>5, <1>6, <1>7, <1>8 DEF Life

(* A stop takes the slot and cancels its session in one lock section.      *)
LEMMA StopKeepsLife ==
  ASSUME MirrorAssumption, TypeOK, Life, NEW c \in Callers, Stop(c)
  PROVE  Life'
<1>1. /\ CallsOK /\ SlotOK /\ SessionsOK /\ SpawnsOK /\ OrphansAreCancelled /\ EndsOK
      /\ call \in [Callers -> CallType] /\ next \in Nat /\ MaxGen \in Nat
      /\ slot.generation \in 0 .. MaxGen /\ slot.phase = "Empty" <=> slot.generation = 0
      /\ next' = next /\ ends' = ends /\ SessionsRest
  BY Typed, CallPaths DEF Life, TypeOK, Stop, slotVars
<1>2. CASE slot.phase \notin {"Starting", "Live"}
  <2>1. \E to \in {"DropWarm", "Idle", "RecheckStop"} : Moves(c, to)
    BY <1>2, CallPaths
  <2>2. \A d \in Callers : d # c => call'[d] = call[d]
    BY <1>1, <1>2 DEF Stop, Back
  <2>3. UNCHANGED <<slotVars, ends>>
    BY <1>2 DEF Stop
  <2> QED
    BY <1>1, <2>1, <2>2, <2>3, Quiet, RestsLife DEF CallPcs, OwnerPcs, BeginPcs
<1>3. CASE slot.phase \in {"Starting", "Live"}
  <2>1. /\ slot'.generation = slot.generation /\ cancelled' = cancelled \cup {slot.generation}
        /\ call' = [call EXCEPT ![c].generation = slot.generation]
        /\ slot.generation \in Gen
    <3>1. slot \in [generation : Gen, phase : {"Starting", "Live", "Stopping"}, handle : BOOLEAN]
      BY <1>3 DEF TypeOK, Empty
    <3> QED
      BY <1>3, <3>1 DEF Stop
  <2>2. \E to \in {"AwaitHandle", "RemoveSlot"} : Moves(c, to)
    <3>1. PICK to \in {"AwaitHandle", "RemoveSlot"} : NotifyFrom(c, to)
      BY <1>3 DEF Stop
    <3> QED
      BY <3>1, NotifiedFrom DEF CallPcs
  <2>3. \A d \in Callers : /\ pc'[d] \in BeginPcs => d # c /\ pc[d] \in BeginPcs
                           /\ pc'[d] \in OwnerPcs => d = c \/ pc[d] \in OwnerPcs
                           /\ pc'[d] = "TellStopped" => d # c /\ pc[d] = "TellStopped"
    BY <2>2, Firm DEF Moves, OwnerPcs, BeginPcs
  <2>4. \A d \in Callers : call'[d].generation = IF d = c THEN slot.generation
                                                        ELSE call[d].generation
    BY <1>1, <2>1 DEF CallType
  <2>5. \A h \in Gen : /\ session'[h].at = "None" <=> session[h].at = "None"
                       /\ session'[h].at = "EmitEnd" <=> session[h].at = "EmitEnd"
                       /\ session'[h].at \in Over <=> session[h].at \in Over
    BY <1>1, Firm DEF SessionsRest, Over
  <2>6. CallsOK' /\ SlotOK' /\ SessionsOK'
    BY <1>1, <2>1, <2>3, <2>4, <2>5 DEF CallsOK, SlotOK, SessionsOK
  <2>7. SpawnsOK'
    BY <1>1, <2>1, <2>3, <2>4, <2>5 DEF SpawnsOK, CallsOK, OwnerPcs, BeginPcs
  <2>8. OrphansAreCancelled'
    BY <1>1, <2>1, <2>5 DEF OrphansAreCancelled, Over
  <2>9. EndsOK'
    <3>1. \A d \in Callers, h \in Gen : Owes(d, h)' => Owes(d, h)
      BY <2>3, <2>4 DEF Owes
    <3> QED
      BY <1>1, <2>1, <2>5, <3>1 DEF EndsOK
  <2> QED
    BY <2>6, <2>7, <2>8, <2>9 DEF Life
<1> QED
  BY <1>2, <1>3

(* The stop that removes the slot owes the end.                            *)
LEMMA RemoveKeepsLife ==
  ASSUME MirrorAssumption, TypeOK, Life, NEW c \in Callers, RemoveSlot(c)
  PROVE  Life'
<1> DEFINE g == call[c].generation
<1>1. /\ CallsOK /\ SlotOK /\ SessionsOK /\ SpawnsOK /\ OrphansAreCancelled /\ EndsOK
      /\ call \in [Callers -> CallType] /\ next \in Nat
      /\ next' = next /\ ends' = ends /\ cancelled' = cancelled /\ SessionsRest
  BY Typed, CallPaths DEF Life, TypeOK, RemoveSlot
<1>2. CASE ~Holds(g, {"Stopping"})
  <2>1. (\E to \in {"DropWarm", "Idle"} : Moves(c, to)) /\ UNCHANGED slotVars
    BY <1>2, CallPaths
  <2>2. \A d \in Callers : d # c => call'[d] = call[d]
    BY <1>1, <1>2 DEF RemoveSlot, Back
  <2> QED
    BY <1>1, <2>1, <2>2, Quiet, RestsLife DEF CallPcs, OwnerPcs, BeginPcs
<1>3. CASE Holds(g, {"Stopping"})
  <2>1. /\ slot.generation = g /\ g \in cancelled /\ slot'.generation = 0 /\ slot'.phase = "Empty"
        /\ g \in Gen /\ pc[c] = "RemoveSlot" /\ call' = call
    BY <1>1, <1>3 DEF RemoveSlot, Holds, SlotOK, Empty, CallsOK, At, OwnerPcs, BeginPcs
  <2>2. Moves(c, "TellStopped")
    BY <1>3 , WentTo DEF RemoveSlot, CallPcs
  <2>3. \A d \in Callers : /\ pc'[d] \in BeginPcs => pc[d] \in BeginPcs
                           /\ pc'[d] \in OwnerPcs => pc[d] \in OwnerPcs
                           /\ pc'[d] = "TellStopped" => d = c \/ pc[d] = "TellStopped"
    BY <2>1, <2>2, Firm DEF Moves, OwnerPcs, BeginPcs
  <2>4. \A h \in Gen : /\ session'[h].at = "None" <=> session[h].at = "None"
                       /\ session'[h].at = "EmitEnd" <=> session[h].at = "EmitEnd"
                       /\ session'[h].at \in Over <=> session[h].at \in Over
    BY <1>1, Firm DEF SessionsRest, Over
  <2>5. CallsOK' /\ SlotOK' /\ SessionsOK'
    BY <1>1, <2>1, <2>3, <2>4 DEF CallsOK, SlotOK, SessionsOK
  <2>6. SpawnsOK'
    BY <1>1, <2>1, <2>3, <2>4 DEF SpawnsOK, CallsOK, OwnerPcs, BeginPcs
  <2>7. OrphansAreCancelled'
    BY <1>1, <2>1, <2>4 DEF OrphansAreCancelled, Over
  <2>8. EndsOK'
    <3>1. \A d \in Callers, h \in Gen : Owes(d, h)' => Owes(d, h) \/ (d = c /\ h = g)
      BY <2>1, <2>3 DEF Owes
    <3>2. \A h \in Gen : slot'.generation = h \/ h > next' => h # g /\ h > next
      BY <1>1, <2>1 DEF SlotOK, Gen
    <3>3. /\ ends[g] = 0 /\ session[g].at # "EmitEnd" /\ \A d \in Callers : ~Owes(d, g)
      BY <1>1, <2>1 DEF EndsOK
    <3>4. \A h \in Gen : h # g => \A d \in Callers : Owes(d, h)' => Owes(d, h)
      BY <3>1
    <3>5. ASSUME NEW h \in Gen
          PROVE  /\ ends'[h] \in 0 .. 1
                 /\ slot'.generation = h \/ h > next' =>
                      ends'[h] = 0 /\ session'[h].at # "EmitEnd" /\ \A d \in Callers : ~Owes(d, h)'
                 /\ session'[h].at = "EmitEnd" => ends'[h] = 0
                 /\ \A d \in Callers : Owes(d, h)' =>
                      /\ ends'[h] = 0 /\ session'[h].at # "EmitEnd"
                      /\ \A e \in Callers : Owes(e, h)' => e = d
      BY <1>1, <2>4, <3>1, <3>2, <3>3, <3>4 DEF EndsOK
    <3> QED
      BY <3>5 DEF EndsOK
  <2> QED
    BY <2>5, <2>6, <2>7, <2>8 DEF Life
<1> QED
  BY <1>2, <1>3

(* A start that abandons its slot owes the end, and its session has never  *)
(* begun.                                                                  *)
LEMMA AbandonKeepsLife ==
  ASSUME MirrorAssumption, TypeOK, Life, NEW c \in Callers, Abandon(c)
  PROVE  Life'
<1> DEFINE g == call[c].generation
<1>1. /\ CallsOK /\ SlotOK /\ SessionsOK /\ SpawnsOK /\ OrphansAreCancelled /\ EndsOK
      /\ call \in [Callers -> CallType] /\ next \in Nat
      /\ next' = next /\ ends' = ends /\ cancelled' = cancelled /\ SessionsRest
  BY Typed, CallPaths DEF Life, TypeOK, Abandon
<1>2. CASE Moves(c, "Idle") /\ UNCHANGED slotVars
  <2>1. \A d \in Callers : d # c => call'[d] = call[d]
    BY <1>1 DEF Abandon, Return, Back
  <2> QED
    BY <1>1, <1>2, <2>1, Quiet, RestsLife DEF CallPcs, OwnerPcs, BeginPcs
<1>3. CASE Holds(g, {"Starting"}) /\ Moves(c, "TellStopped") /\ UNCHANGED call
  <2>1. /\ slot.generation = g /\ slot'.generation = 0 /\ slot'.phase = "Empty"
        /\ g \in Gen /\ pc[c] = "Abandon" /\ call' = call
    BY <1>1, <1>3 DEF Abandon, Holds, Empty, CallsOK, At, OwnerPcs, BeginPcs
  <2>2. Moves(c, "TellStopped") /\ session[g].at = "None"
    BY <1>1, <1>3, <2>1 DEF SpawnsOK, BeginPcs
  <2>3. \A d \in Callers : /\ pc'[d] \in BeginPcs => d # c /\ pc[d] \in BeginPcs
                           /\ pc'[d] \in OwnerPcs => pc[d] \in OwnerPcs
                           /\ pc'[d] = "TellStopped" => d = c \/ pc[d] = "TellStopped"
    BY <2>1, <2>2, Firm DEF Moves, OwnerPcs, BeginPcs
  <2>4. \A h \in Gen : /\ session'[h].at = "None" <=> session[h].at = "None"
                       /\ session'[h].at = "EmitEnd" <=> session[h].at = "EmitEnd"
                       /\ session'[h].at \in Over <=> session[h].at \in Over
    BY <1>1, Firm DEF SessionsRest, Over
  <2>5. CallsOK' /\ SlotOK' /\ SessionsOK'
    BY <1>1, <2>1, <2>3, <2>4 DEF CallsOK, SlotOK, SessionsOK
  <2>6. SpawnsOK'
    <3>1. \A d \in Callers : pc'[d] \in BeginPcs => call[d].generation \in Gen \ {g}
      BY <1>1, <2>1, <2>3 DEF SpawnsOK, CallsOK, OwnerPcs, BeginPcs
    <3> QED
      BY <1>1, <2>1, <2>3, <2>4, <3>1 DEF SpawnsOK
  <2>7. OrphansAreCancelled'
    BY <1>1, <2>1, <2>2, <2>4 DEF OrphansAreCancelled, Over
  <2>8. EndsOK'
    <3>1. \A d \in Callers, h \in Gen : Owes(d, h)' => Owes(d, h) \/ (d = c /\ h = g)
      BY <2>1, <2>3 DEF Owes
    <3>2. \A h \in Gen : slot'.generation = h \/ h > next' => h # g /\ h > next
      BY <1>1, <2>1 DEF SlotOK, Gen
    <3>3. /\ ends[g] = 0 /\ session[g].at # "EmitEnd" /\ \A d \in Callers : ~Owes(d, g)
      BY <1>1, <2>1 DEF EndsOK
    <3>4. \A h \in Gen : h # g => \A d \in Callers : Owes(d, h)' => Owes(d, h)
      BY <3>1
    <3>5. ASSUME NEW h \in Gen
          PROVE  /\ ends'[h] \in 0 .. 1
                 /\ slot'.generation = h \/ h > next' =>
                      ends'[h] = 0 /\ session'[h].at # "EmitEnd" /\ \A d \in Callers : ~Owes(d, h)'
                 /\ session'[h].at = "EmitEnd" => ends'[h] = 0
                 /\ \A d \in Callers : Owes(d, h)' =>
                      /\ ends'[h] = 0 /\ session'[h].at # "EmitEnd"
                      /\ \A e \in Callers : Owes(e, h)' => e = d
      BY <1>1, <2>4, <3>1, <3>2, <3>3, <3>4 DEF EndsOK
    <3> QED
      BY <3>5 DEF EndsOK
  <2> QED
    BY <2>5, <2>6, <2>7, <2>8 DEF Life
<1> QED
  BY <1>2, <1>3, CallPaths

(* Exit touches no slot.                                                   *)
LEMMA ExitKeepsLife ==
  ASSUME MirrorAssumption, TypeOK, Life, Exit
  PROVE  Life'
<1>1. /\ CallsOK /\ SlotOK /\ SessionsOK /\ SpawnsOK /\ OrphansAreCancelled /\ EndsOK
      /\ slot' = slot /\ next' = next /\ call' = call /\ pc' = pc /\ session' = session
      /\ ends' = ends /\ cancelled \subseteq cancelled'
  BY DEF Life, Exit, callVars
<1>2. CallsOK' /\ SlotOK' /\ SessionsOK'
  BY <1>1 DEF CallsOK, SlotOK, SessionsOK
<1>3. SpawnsOK' /\ OrphansAreCancelled'
  BY <1>1 DEF SpawnsOK, OrphansAreCancelled
<1>4. EndsOK'
  BY <1>1 DEF EndsOK, Owes
<1> QED
  BY <1>2, <1>3, <1>4 DEF Life

(* Nobody else owes the end that is told.                                  *)
LEMMA TellKeepsLife ==
  ASSUME MirrorAssumption, TypeOK, Life, NEW c \in Callers, TellStopped(c)
  PROVE  Life'
<1> DEFINE g == call[c].generation
<1>1. /\ CallsOK /\ SlotOK /\ SessionsOK /\ SpawnsOK /\ OrphansAreCancelled /\ EndsOK
      /\ call \in [Callers -> CallType] /\ ends \in [Gen -> Nat] /\ next \in Nat
      /\ slot' = slot /\ next' = next /\ cancelled' = cancelled /\ SessionsRest
  BY Typed, CallPaths DEF Life, TypeOK, TellStopped, slotVars, SlotOK
<1>2. pc[c] = "TellStopped" /\ g \in Gen /\ Owes(c, g) /\ ends' = [ends EXCEPT ![g] = @ + 1]
  BY <1>1 DEF TellStopped, At, CallsOK, OwnerPcs, BeginPcs, Owes, TellEnd
<1>3. \A d \in Callers : d # c => call'[d] = call[d]
  BY <1>1 DEF TellStopped, Back
<1>4. \E to \in {"DropWarm", "Idle"} : Moves(c, to)
  BY CallPaths
<1>5. \A d \in Callers : pc'[d] \in OwnerPcs =>
        d # c /\ pc[d] = pc'[d] /\ call'[d].generation = call[d].generation
  BY <1>3, <1>4, Firm DEF Moves, OwnerPcs, BeginPcs
<1>6. \A h \in Gen : /\ session'[h].at = "None" <=> session[h].at = "None"
                     /\ session'[h].at = "EmitEnd" <=> session[h].at = "EmitEnd"
                     /\ session'[h].at \in Over <=> session[h].at \in Over
  BY <1>1, Firm DEF SessionsRest, Over
<1>7. CallsOK' /\ SlotOK' /\ SessionsOK'
  BY <1>1, <1>5, <1>6 DEF CallsOK, SlotOK, SessionsOK
<1>8. SpawnsOK'
  BY <1>1, <1>5, <1>6 DEF SpawnsOK, CallsOK, OwnerPcs, BeginPcs
<1>9. OrphansAreCancelled'
  BY <1>1, <1>6 DEF OrphansAreCancelled, Over
<1>10. EndsOK'
  <2>1. \A d \in Callers, h \in Gen : Owes(d, h)' => d # c /\ Owes(d, h)
    BY <1>5 DEF Owes, OwnerPcs, BeginPcs
  <2>2. /\ ends[g] = 0 /\ session[g].at # "EmitEnd" /\ slot.generation # g /\ ~(g > next)
        /\ \A d \in Callers : Owes(d, g) => d = c
    BY <1>1, <1>2 DEF EndsOK
  <2>3. \A h \in Gen : ends'[h] = IF h = g THEN 1 ELSE ends[h]
    BY <1>1, <1>2, <2>2
  <2> QED
    BY <1>1, <1>6, <2>1, <2>2, <2>3 DEF EndsOK
<1> QED
  BY <1>7, <1>8, <1>9, <1>10 DEF Life

(* A session becomes Live: the slot keeps its owner.                       *)
LEMMA NoteLiveKeepsLife ==
  ASSUME MirrorAssumption, TypeOK, Life, NEW g \in Gen, NoteLive(g)
  PROVE  Life'
<1>1. /\ CallsOK /\ SlotOK /\ SessionsOK /\ SpawnsOK /\ OrphansAreCancelled /\ EndsOK
      /\ slot'.generation = slot.generation
      /\ slot'.phase = "Stopping" => slot.phase = "Stopping"
      /\ next' = next /\ cancelled' = cancelled /\ ends' = ends /\ call' = call
      /\ session[g].at \notin Over
  BY Typed DEF Life, NoteLive, Drives, Over, TypeOK, Holds, Empty
<1>2. CallsRest /\ MovesOn(g, "Media", session[g].tunnel)
  BY SessionPaths DEF Paths, SessionStep
<1>3. QuietCalls
  BY <1>1, <1>2, Quiet
<1>4. \A h \in Gen : /\ session'[h].at = "None" <=> session[h].at = "None"
                     /\ session'[h].at = "EmitEnd" <=> session[h].at = "EmitEnd"
                     /\ session'[h].at \in Over <=> session[h].at \in Over
  BY <1>1, <1>2, Firm DEF MovesOn, Over
<1>5. CallsOK' /\ SlotOK' /\ SessionsOK'
  BY <1>1, <1>3, <1>4 DEF CallsOK, SlotOK, SessionsOK, QuietCalls
<1>6. SpawnsOK'
  BY <1>1, <1>3, <1>4 DEF SpawnsOK, CallsOK, OwnerPcs, BeginPcs, QuietCalls
<1>7. OrphansAreCancelled'
  BY <1>1, <1>4 DEF OrphansAreCancelled, Over
<1>8. EndsOK'
  <2>1. \A d \in Callers, h \in Gen : Owes(d, h)' => Owes(d, h)
    BY <1>3 DEF Owes, OwnerPcs, BeginPcs, QuietCalls
  <2> QED
    BY <1>1, <1>4, <2>1 DEF EndsOK
<1> QED
  BY <1>5, <1>6, <1>7, <1>8 DEF Life

(* The session that gives up its slot owes the end, any other has lost it. *)
LEMMA ReleaseKeepsLife ==
  ASSUME MirrorAssumption, TypeOK, Life, NEW g \in Gen, Release(g)
  PROVE  Life'
<1>1. /\ CallsOK /\ SlotOK /\ SessionsOK /\ SpawnsOK /\ OrphansAreCancelled /\ EndsOK
      /\ slot'.generation = IF slot.generation = g THEN 0 ELSE slot.generation
      /\ slot'.phase = IF slot.generation = g THEN "Empty" ELSE slot.phase
      /\ next' = next /\ cancelled' = cancelled /\ ends' = ends /\ call' = call
      /\ session[g].at = "Release" /\ next \in Nat /\ g \in Nat /\ g # 0
  BY Typed DEF Life, Release, Drives, callVars, Gen, Empty
<1>2. CallsRest /\ MovesOn(g, IF slot.generation = g THEN "EmitEnd" ELSE "Done", session[g].tunnel)
  BY SessionPaths DEF Paths, SessionStep
<1>3. QuietCalls
  BY <1>1, <1>2, Quiet
<1>4. \A h \in Gen : /\ session'[h].at = "None" <=> session[h].at = "None"
                     /\ session'[h].at = "EmitEnd" <=>
                          IF h = g THEN slot.generation = g ELSE session[h].at = "EmitEnd"
                     /\ session'[h].at \in Over <=> h = g \/ session[h].at \in Over
  BY <1>1, <1>2, Firm DEF MovesOn, Over
<1>5. CallsOK' /\ SlotOK' /\ SessionsOK'
  <2>1. CallsOK'
    BY <1>1, <1>3 DEF CallsOK, QuietCalls
  <2>2. SlotOK' /\ SessionsOK'
    BY <1>1, <1>4 DEF SlotOK, SessionsOK
  <2> QED
    BY <2>1, <2>2
<1>6. SpawnsOK'
  BY <1>1, <1>3, <1>4 DEF SpawnsOK, CallsOK, OwnerPcs, BeginPcs, QuietCalls
<1>7. OrphansAreCancelled'
  BY <1>1, <1>4 DEF OrphansAreCancelled, Over
<1>8. EndsOK'
  <2>1. \A d \in Callers, h \in Gen : Owes(d, h)' => Owes(d, h)
    BY <1>3 DEF Owes, OwnerPcs, BeginPcs, QuietCalls
  <2>2. g <= next /\ (slot.generation = g => ends[g] = 0 /\ \A d \in Callers : ~Owes(d, g))
    BY <1>1 DEF SessionsOK, EndsOK
  <2>3. ASSUME NEW h \in Gen
        PROVE  /\ ends'[h] \in 0 .. 1
               /\ slot'.generation = h \/ h > next' =>
                    ends'[h] = 0 /\ session'[h].at # "EmitEnd" /\ \A d \in Callers : ~Owes(d, h)'
               /\ session'[h].at = "EmitEnd" => ends'[h] = 0
               /\ \A d \in Callers : Owes(d, h)' =>
                    /\ ends'[h] = 0 /\ session'[h].at # "EmitEnd"
                    /\ \A e \in Callers : Owes(e, h)' => e = d
    <3>1. slot'.generation = h => slot.generation = h /\ h # g
      BY <1>1 DEF Gen
    <3>2. CASE h = g
      BY <1>1, <1>4, <2>1, <2>2, <3>1, <3>2 DEF EndsOK
    <3>3. CASE h # g
      BY <1>1, <1>4, <2>1, <3>1, <3>3 DEF EndsOK
    <3> QED
      BY <3>2, <3>3
  <2> QED
    BY <2>3 DEF EndsOK
<1> QED
  BY <1>5, <1>6, <1>7, <1>8 DEF Life

(* Nobody else owes the end that is sent.                                  *)
LEMMA EmitKeepsLife ==
  ASSUME MirrorAssumption, TypeOK, Life, NEW g \in Gen, EmitEnd(g)
  PROVE  Life'
<1>1. /\ CallsOK /\ SlotOK /\ SessionsOK /\ SpawnsOK /\ OrphansAreCancelled /\ EndsOK
      /\ slot' = slot /\ next' = next /\ cancelled' = cancelled /\ call' = call
      /\ session[g].at = "EmitEnd" /\ ends \in [Gen -> Nat] /\ ends' = [ends EXCEPT ![g] = @ + 1]
  BY DEF Life, EmitEnd, Drives, slotVars, TellEnd, TypeOK
<1>2. CallsRest /\ MovesOn(g, "Done", session[g].tunnel)
  BY SessionPaths DEF Paths, SessionStep
<1>3. QuietCalls
  BY <1>1, <1>2, Quiet
<1>4. \A h \in Gen : /\ session'[h].at = "None" <=> session[h].at = "None"
                     /\ session'[h].at = "EmitEnd" <=> h # g /\ session[h].at = "EmitEnd"
                     /\ session'[h].at \in Over <=> session[h].at \in Over
  BY <1>1, <1>2, Firm DEF MovesOn, Over
<1>5. CallsOK' /\ SlotOK' /\ SessionsOK'
  BY <1>1, <1>3, <1>4 DEF CallsOK, SlotOK, SessionsOK, QuietCalls
<1>6. SpawnsOK'
  BY <1>1, <1>3, <1>4 DEF SpawnsOK, CallsOK, OwnerPcs, BeginPcs, QuietCalls
<1>7. OrphansAreCancelled'
  BY <1>1, <1>4 DEF OrphansAreCancelled, Over
<1>8. EndsOK'
  <2>1. \A d \in Callers, h \in Gen : Owes(d, h)' => Owes(d, h)
    BY <1>3 DEF Owes, OwnerPcs, BeginPcs, QuietCalls
  <2>2. ends[g] = 0 /\ slot.generation # g /\ ~(g > next) /\ \A d \in Callers : ~Owes(d, g)
    BY <1>1 DEF EndsOK
  <2>3. \A h \in Gen : ends'[h] = IF h = g THEN 1 ELSE ends[h]
    BY <1>1, <2>2
  <2> QED
    BY <1>1, <1>4, <2>1, <2>2, <2>3 DEF EndsOK
<1> QED
  BY <1>5, <1>6, <1>7, <1>8 DEF Life

LEMMA LifeStep ==
  ASSUME MirrorAssumption, TypeOK, Life, Next
  PROVE  Life'
<1>1. CASE \/ \E c \in Starters : CallStart(c)
           \/ \E c \in Stoppers : CallStop(c, "stop")
           \/ \E c \in Joiners : CallStop(c, "offline")
           \/ \E match \in BOOLEAN : CallWarmup(match)
           \/ \E w \in Warmup : WarmStep(w)
  BY <1>1, QuietStepsKeepLife DEF Callers
<1>2. ASSUME NEW c \in Callers, CallStep(c)
      PROVE  Life'
  BY <1>2, QuietStepsKeepLife, DecideKeepsLife, SpawnKeepsLife, AbandonKeepsLife, PublishKeepsLife,
     StopKeepsLife, RemoveKeepsLife, TellKeepsLife DEF CallStep
<1>3. ASSUME NEW g \in Gen, SessionStep(g) \/ StreamEnds(g)
      PROVE  Life'
  BY <1>3, QuietStepsKeepLife, NoteLiveKeepsLife, ReleaseKeepsLife, EmitKeepsLife DEF SessionStep
<1> QED
  BY <1>1, <1>2, <1>3, ExitKeepsLife DEF Next
-----------------------------------------------------------------------------
(* The tunnels                                                              *)

(* No tunnel changes hands, and no session begins to work without one.     *)
QuietTunnels ==
  /\ UNCHANGED <<warmVars, tunnels>>
  /\ \A g \in Gen :
       /\ session'[g].tunnel = session[g].tunnel
       /\ session'[g].at \in Working => session[g].at \in Working \/ session[g].tunnel # NoTunnel
  /\ \A c \in Callers : pc'[c] = "DropTaken" =>
       pc[c] = "DropTaken" /\ call'[c].tunnel = call[c].tunnel

LEMMA RestsTunnels ==
  ASSUME TunnelsOK, QuietTunnels
  PROVE  TunnelsOK'
<1>1. /\ warm' = warm /\ warmups' = warmups /\ begun' = begun /\ dropped' = dropped
      /\ tunnels' = tunnels
      /\ SessionTunnels /\ EntryTunnel /\ TakenTunnels /\ WarmupTunnels
  BY DEF QuietTunnels, warmVars, TunnelsOK
<1>2. SessionTunnels'
  BY <1>1 DEF SessionTunnels, QuietTunnels, OwnTunnel, NoTunnel
<1>3. EntryTunnel' /\ TakenTunnels' /\ WarmupTunnels'
  BY <1>1 DEF EntryTunnel, TakenTunnels, WarmupTunnels, QuietTunnels
<1> QED
  BY <1>2, <1>3 DEF TunnelsOK

LEMMA QuietCallsKeepTunnels ==
  ASSUME MirrorAssumption, TypeOK, TunnelsOK, NEW c \in Callers,
         \/ \E op \in {"stop", "offline"} : CallStart(c) \/ CallStop(c, op)
         \/ CallStep(c) /\ ~DropWarm(c) /\ ~DropTaken(c)
  PROVE  TunnelsOK'
<1>1. call \in [Callers -> CallType] /\ session \in [Gen -> SessionType]
  BY Typed
<1>2. UNCHANGED <<warmVars, tunnels>>
  BY DEF CallStart, CallStop, CallStep, Decide, RecheckStart, Spawn, Abandon, PublishHandle,
     AwaitOrphan, Stop,
     RecheckStop, AwaitHandle, RemoveSlot, TellStopped
<1>3. pc[c] # "DropTaken"
  BY DEF CallStart, CallStop, CallStep, Decide, RecheckStart, Spawn, Abandon, PublishHandle,
     AwaitOrphan, Stop,
     RecheckStop, AwaitHandle, RemoveSlot, TellStopped, At
<1>4. \A d \in Callers : d # c => call'[d] = call[d]
  BY <1>1 DEF CallStart, CallStop, CallStep, Decide, RecheckStart, Spawn, Abandon, PublishHandle,
     AwaitOrphan,
     Stop, RecheckStop, AwaitHandle, RemoveSlot, TellStopped, Return, Back
<1>5. \E to \in CallPcs \ {"DropTaken"} : Moves(c, to)
  <2>1. {"Idle", "Decide", "RecheckStart", "WaitStart", "Spawn", "Abandon", "PublishHandle",
          "AwaitOrphan",
         "Stop", "RecheckStop", "WaitStop", "AwaitHandle", "RemoveSlot", "TellStopped", "DropWarm"}
        \subseteq CallPcs \ {"DropTaken"}
    BY DEF CallPcs
  <2> HIDE DEF CallPcs
  <2>2. CASE \E op \in {"stop", "offline"} : CallStart(c) \/ CallStop(c, op)
    BY <2>1, <2>2, CallPaths
  <2>3. CASE \/ Decide(c) \/ RecheckStart(c) \/ Spawn(c) \/ Abandon(c) \/ PublishHandle(c)
           \/ AwaitOrphan(c)
    BY <2>1, <2>3, CallPaths
  <2>4. CASE Stop(c) \/ RecheckStop(c) \/ AwaitHandle(c) \/ RemoveSlot(c) \/ TellStopped(c)
    BY <2>1, <2>4, CallPaths
  <2> QED
    BY <2>2, <2>3, <2>4 DEF CallStep
<1>6. \A g \in Gen : /\ session'[g].tunnel = session[g].tunnel
                     /\ session'[g].at \in Working => session[g].at \in Working
  <2>1. CASE SessionsRest
    BY <2>1, Firm DEF SessionsRest, Working
  <2>2. CASE session' = [session EXCEPT ![call[c].generation].at = "TakeWarm"]
    BY <1>1, <2>2 DEF SessionType, Working
  <2> QED
    BY <2>1, <2>2, CallPaths DEF CallStep
<1>7. \A d \in Callers : pc'[d] = "DropTaken" =>
        pc[d] = "DropTaken" /\ call'[d].tunnel = call[d].tunnel
  BY <1>3, <1>4, <1>5, Firm DEF Moves
<1> QED
  BY <1>2, <1>6, <1>7, RestsTunnels DEF QuietTunnels

LEMMA QuietSessionsKeepTunnels ==
  ASSUME MirrorAssumption, TypeOK, TunnelsOK, NEW g \in Gen,
         \/ RecheckWarm(g) \/ CancelWait(g) \/ Connect(g) \/ NoteLive(g) \/ CancelMedia(g)
         \/ StreamEnds(g) \/ AfterAttempt(g) \/ Release(g) \/ EmitEnd(g)
  PROVE  TunnelsOK'
<1>1. UNCHANGED <<warmVars, tunnels>> /\ UNCHANGED call
  BY DEF RecheckWarm, CancelWait, Connect, NoteLive, CancelMedia, StreamEnds, AfterAttempt, Release,
     EmitEnd, callVars
<1>2. CallsRest
  BY SessionPaths DEF SessionStep
<1>3. \E to \in SessionPcs : /\ MovesOn(g, to, session[g].tunnel)
                             /\ to \in Working => session[g].at \in Working
  <2>1. Paths(g)
    BY SessionPaths
  <2>2. CASE Connect(g) \/ NoteLive(g)
    <3>1. session[g].at \in Working
      BY <2>2 DEF Connect, NoteLive, Drives, Working
    <3> QED
      BY <2>1, <2>2, <3>1 DEF Paths, SessionPcs
  <2>3. CASE \/ RecheckWarm(g) \/ CancelWait(g) \/ CancelMedia(g) \/ StreamEnds(g)
             \/ AfterAttempt(g) \/ Release(g) \/ EmitEnd(g)
    <3>1. \E to \in {"WaitWarm", "TakeWarm", "Prepare", "DropTunnel", "Release", "EmitEnd", "Done"} :
            MovesOn(g, to, session[g].tunnel)
      BY <2>1, <2>3 DEF Paths
    <3> QED
      BY <3>1 DEF SessionPcs, Working
  <2> QED
    BY <2>2, <2>3
<1>4. \A h \in Gen : /\ session'[h].tunnel = session[h].tunnel
                     /\ session'[h].at \in Working => session[h].at \in Working
  <2>1. PICK to \in SessionPcs : /\ MovesOn(g, to, session[g].tunnel)
                                 /\ to \in Working => session[g].at \in Working
    BY <1>3
  <2>2. \A h \in Gen : \A p \in Working :
          session'[h].at = p => p = IF h = g THEN to ELSE session[h].at
    BY <2>1 DEF MovesOn, Working, FirmAts, SessionPcs
  <2>3. \A h \in Gen : session'[h].tunnel = session[h].tunnel
    BY <2>1 DEF MovesOn
  <2> QED
    BY <2>1, <2>2, <2>3
<1>5. \A d \in Callers : pc'[d] = "DropTaken" => pc[d] = "DropTaken"
  BY <1>2, Firm DEF CallsRest
<1> QED
  BY <1>1, <1>4, <1>5, RestsTunnels DEF QuietTunnels

(* The types the tunnels need, and that a tunnel of one kind is none of    *)
(* another.                                                                *)
LEMMA TunnelTypes ==
  ASSUME MirrorAssumption, TypeOK
  PROVE  /\ MaxWarm \in Nat /\ begun \in Nat /\ warmups \in [Warmup -> WarmPcs]
         /\ NoTunnel \notin Warmup
         /\ \A g \in Gen : /\ OwnTunnel(g) \notin Warmup /\ OwnTunnel(g) # NoTunnel
                           /\ \A h \in Gen : OwnTunnel(g) = OwnTunnel(h) => g = h
         /\ \A c \in Callers : call[c].tunnel \in {NoTunnel} \cup Warmup
         /\ warm.state # "None" => warm.by \in Warmup
         /\ warm.state \in {"None", "Busy", "Ready"}
<1>1. /\ MaxGen \in Nat /\ MaxWarm \in Nat /\ call \in [Callers -> CallType]
      /\ warm.state # "None" => warm.by \in Warmup
      /\ warm.state \in {"None", "Busy", "Ready"}
  BY Typed
<1>2. begun \in Nat /\ warmups \in [Warmup -> WarmPcs]
  BY <1>1 DEF TypeOK
<1>3. NoTunnel \notin Warmup
  BY DEF NoTunnel, Warmup
<1>4. \A g \in Gen : /\ OwnTunnel(g) \notin Warmup /\ OwnTunnel(g) # NoTunnel
                     /\ \A h \in Gen : OwnTunnel(g) = OwnTunnel(h) => g = h
  BY <1>1 DEF OwnTunnel, Warmup, Gen, NoTunnel
<1>5. \A c \in Callers : call[c].tunnel \in {NoTunnel} \cup Warmup
  BY <1>1 DEF CallType, NoTunnel, Warmup
<1> QED
  BY <1>1, <1>2, <1>3, <1>4, <1>5

(* What drop_warm takes is its own: no session has it.                     *)
LEMMA DropWarmKeepsTunnels ==
  ASSUME MirrorAssumption, TypeOK, TunnelsOK, NEW c \in Callers, DropWarm(c)
  PROVE  TunnelsOK'
<1>1. /\ SessionTunnels /\ EntryTunnel /\ TakenTunnels /\ WarmupTunnels
      /\ call \in [Callers -> CallType]
      /\ session' = session /\ warmups' = warmups /\ begun' = begun /\ tunnels' = tunnels
      /\ warm'.state = "None"
      /\ dropped' = IF warm.state = "Busy" THEN dropped \cup {warm.by} ELSE dropped
      /\ call' = [call EXCEPT ![c].tunnel = IF warm.state = "Ready" THEN warm.by ELSE NoTunnel]
  BY Typed DEF TunnelsOK, DropWarm, NoWarm
<1>2. \A d \in Callers : pc'[d] = "DropTaken" => d = c \/ pc[d] = "DropTaken"
  <2>1. Moves(c, "DropTaken")
    BY CallPaths
  <2> QED
    BY <2>1, Firm DEF Moves
<1>3. \A d \in Callers :
        call'[d].tunnel = IF d = c THEN IF warm.state = "Ready" THEN warm.by ELSE NoTunnel
                          ELSE call[d].tunnel
  BY <1>1 DEF CallType
<1>4. SessionTunnels'
  BY <1>1 DEF SessionTunnels, EntryTunnel, OwnTunnel, NoTunnel
<1>5. TakenTunnels'
  BY <1>1, <1>2, <1>3 DEF TakenTunnels, EntryTunnel
<1>6. EntryTunnel' /\ WarmupTunnels'
  BY <1>1, TunnelTypes DEF EntryTunnel, WarmupTunnels, Warmup
<1> QED
  BY <1>4, <1>5, <1>6 DEF TunnelsOK

LEMMA DropTakenKeepsTunnels ==
  ASSUME MirrorAssumption, TypeOK, TunnelsOK, NEW c \in Callers, DropTaken(c)
  PROVE  TunnelsOK'
<1> DEFINE t == call[c].tunnel
<1>1. /\ SessionTunnels /\ EntryTunnel /\ TakenTunnels /\ WarmupTunnels
      /\ call \in [Callers -> CallType] /\ pc[c] = "DropTaken"
      /\ warm' = warm /\ warmups' = warmups /\ begun' = begun /\ dropped' = dropped
      /\ tunnels' = tunnels \ {t} /\ call' = [call EXCEPT ![c] = NoCall] /\ SessionsRest
  BY Typed, CallPaths DEF TunnelsOK, DropTaken, At, warmVars
<1>2. \A d \in Callers : pc'[d] = "DropTaken" => d # c /\ pc[d] = "DropTaken"
  <2>1. Moves(c, "Idle")
    BY CallPaths
  <2> QED
    BY <2>1, Firm DEF Moves
<1>3. \A d \in Callers : pc'[d] = "DropTaken" => call'[d] = call[d]
  BY <1>1, <1>2
<1>4. \A h \in Gen : /\ session'[h].tunnel = session[h].tunnel
                     /\ session'[h].at \in Working <=> session[h].at \in Working
  BY <1>1, Firm DEF SessionsRest, Working
<1>5. \A h \in Gen : session[h].tunnel # NoTunnel => session[h].tunnel # t
  BY <1>1 DEF TakenTunnels
<1>6. SessionTunnels'
  BY <1>1, <1>4, <1>5 DEF SessionTunnels, OwnTunnel, NoTunnel
<1>7. TakenTunnels'
  BY <1>1, <1>2, <1>3, <1>4 DEF TakenTunnels
<1>8. EntryTunnel'
  BY <1>1, <1>2, <1>3, <1>4 DEF EntryTunnel
<1>9. WarmupTunnels'
  BY <1>1, TunnelTypes DEF WarmupTunnels, TakenTunnels
<1> QED
  BY <1>6, <1>7, <1>8, <1>9 DEF TunnelsOK

(* A session takes the ready tunnel off the entry.                         *)
LEMMA TakeWarmKeepsTunnels ==
  ASSUME MirrorAssumption, TypeOK, TunnelsOK, NEW g \in Gen, TakeWarm(g)
  PROVE  TunnelsOK'
<1>1. /\ SessionTunnels /\ EntryTunnel /\ TakenTunnels /\ WarmupTunnels
      /\ call' = call /\ warmups' = warmups /\ begun' = begun /\ tunnels' = tunnels
  BY DEF TunnelsOK, TakeWarm
<1>2. PICK to \in {"Prepare", "DropMismatch", "RecheckWarm"} :
        MovesOn(g, to, IF warm.state = "Ready" THEN warm.by ELSE session[g].tunnel)
  BY SessionPaths DEF Paths
<1>3. \A d \in Callers : pc'[d] = "DropTaken" => pc[d] = "DropTaken"
  BY SessionPaths, Firm DEF SessionStep, CallsRest
<1>4. \A h \in Gen :
        /\ session'[h].tunnel = IF h = g /\ warm.state = "Ready" THEN warm.by ELSE session[h].tunnel
        /\ session'[h].at \in Working => h # g /\ session[h].at \in Working
  BY <1>2, Firm DEF MovesOn, Working
<1>5. CASE warm.state = "Ready"
  <2>1. warm'.state = "None" /\ dropped' = dropped
    BY <1>5 DEF TakeWarm, NoWarm
  <2>2. SessionTunnels'
    BY <1>1, <1>4, <1>5, <2>1, TunnelTypes DEF SessionTunnels, EntryTunnel
  <2>3. TakenTunnels'
    BY <1>1, <1>3, <1>4, <1>5 DEF TakenTunnels, EntryTunnel
  <2>4. EntryTunnel' /\ WarmupTunnels'
    BY <1>1, <2>1 DEF EntryTunnel, WarmupTunnels
  <2> QED
    BY <2>2, <2>3, <2>4 DEF TunnelsOK
<1>6. CASE warm.state # "Ready"
  <2>1. \/ warm' = warm /\ dropped' = dropped
        \/ warm.state = "Busy" /\ warm'.state = "None" /\ dropped' = dropped \cup {warm.by}
    BY <1>6 DEF TakeWarm, NoWarm
  <2>2. SessionTunnels'
    BY <1>1, <1>4, <1>6, <2>1 DEF SessionTunnels, EntryTunnel
  <2>3. TakenTunnels'
    BY <1>1, <1>3, <1>4, <1>6 DEF TakenTunnels
  <2>4. EntryTunnel'
    BY <1>1, <1>3, <1>4, <1>6, <2>1 DEF EntryTunnel
  <2>5. WarmupTunnels'
    BY <1>1, <2>1, TunnelTypes DEF EntryTunnel, WarmupTunnels, Warmup
  <2> QED
    BY <2>2, <2>3, <2>4, <2>5 DEF TunnelsOK
<1> QED
  BY <1>5, <1>6

(* A session takes its tunnel down: nobody else held it.                   *)
LEMMA TakeDownKeepsTunnels ==
  ASSUME MirrorAssumption, TypeOK, TunnelsOK, NEW g \in Gen, DropMismatch(g) \/ DropTunnel(g)
  PROVE  TunnelsOK'
<1> DEFINE t == session[g].tunnel
<1>1. /\ SessionTunnels /\ EntryTunnel /\ TakenTunnels /\ WarmupTunnels
      /\ call' = call /\ warm' = warm /\ warmups' = warmups /\ begun' = begun
      /\ dropped' = dropped /\ tunnels' = tunnels \ {t}
  BY DEF TunnelsOK, DropMismatch, DropTunnel, callVars, warmVars
<1>2. \E to \in {"Prepare", "AfterAttempt"} : MovesOn(g, to, NoTunnel)
  BY SessionPaths DEF Paths
<1>3. \A d \in Callers : pc'[d] = "DropTaken" => pc[d] = "DropTaken"
  BY SessionPaths, Firm DEF SessionStep, CallsRest
<1>4. \A h \in Gen : /\ session'[h].tunnel = IF h = g THEN NoTunnel ELSE session[h].tunnel
                     /\ session'[h].at \in Working => h # g /\ session[h].at \in Working
  BY <1>2, Firm DEF MovesOn, Working
<1>5. SessionTunnels'
  BY <1>1, <1>4, TunnelTypes DEF SessionTunnels
<1>6. TakenTunnels'
  BY <1>1, <1>3, <1>4 DEF TakenTunnels
<1>7. EntryTunnel'
  BY <1>1, <1>3, <1>4, TunnelTypes DEF EntryTunnel
<1>8. WarmupTunnels'
  BY <1>1 DEF WarmupTunnels, SessionTunnels
<1> QED
  BY <1>5, <1>6, <1>7, <1>8 DEF TunnelsOK

LEMMA PrepareKeepsTunnels ==
  ASSUME MirrorAssumption, TypeOK, TunnelsOK, NEW g \in Gen, Prepare(g)
  PROVE  TunnelsOK'
<1>1. /\ SessionTunnels /\ EntryTunnel /\ TakenTunnels /\ WarmupTunnels
      /\ call' = call /\ warm' = warm /\ warmups' = warmups /\ begun' = begun
      /\ dropped' = dropped
  BY DEF TunnelsOK, Prepare, callVars, warmVars
<1>2. \A d \in Callers : pc'[d] = "DropTaken" => pc[d] = "DropTaken"
  BY SessionPaths, Firm DEF SessionStep, CallsRest
<1>3. CASE MovesOn(g, "DropTunnel", session[g].tunnel) /\ UNCHANGED tunnels
  BY <1>1, <1>2, <1>3, Firm, RestsTunnels DEF MovesOn, Working, QuietTunnels, warmVars
<1>4. CASE session[g].tunnel # NoTunnel /\ MovesOn(g, "Connect", session[g].tunnel) /\
        UNCHANGED tunnels
  BY <1>1, <1>2, <1>4, Firm, RestsTunnels DEF MovesOn, Working, QuietTunnels, warmVars
<1>5. CASE MovesOn(g, "Connect", OwnTunnel(g)) /\ tunnels' = tunnels \cup {OwnTunnel(g)}
  <2>1. \A h \in Gen : /\ session'[h].tunnel = IF h = g THEN OwnTunnel(g) ELSE session[h].tunnel
                       /\ session'[h].at \in Working => h = g \/ session[h].at \in Working
    BY <1>5, Firm DEF MovesOn, Working
  <2>2. SessionTunnels'
    <3>1. \A h \in Gen : h # g => session[h].tunnel # OwnTunnel(g)
      BY <1>1, TunnelTypes DEF SessionTunnels
    <3> QED
      BY <1>1, <1>5, <2>1, <3>1, TunnelTypes DEF SessionTunnels
  <2>3. TakenTunnels'
    BY <1>1, <1>2, <2>1, TunnelTypes DEF TakenTunnels
  <2>4. EntryTunnel'
    BY <1>1, <1>2, <1>5, <2>1, TunnelTypes DEF EntryTunnel
  <2>5. WarmupTunnels'
    BY <1>1, <1>5 DEF WarmupTunnels
  <2> QED
    BY <2>2, <2>3, <2>4, <2>5 DEF TunnelsOK
<1> QED
  BY <1>3, <1>4, <1>5, SessionPaths DEF Paths

LEMMA WarmupsKeepTunnels ==
  ASSUME MirrorAssumption, TypeOK, TunnelsOK,
         (\E match \in BOOLEAN : CallWarmup(match)) \/ \E w \in Warmup : WarmStep(w)
  PROVE  TunnelsOK'
<1>1. SessionTunnels /\ EntryTunnel /\ TakenTunnels /\ WarmupTunnels /\ call' = call
  BY DEF TunnelsOK, CallWarmup, WarmStep, OpenWarm, Commit, DropStale, callVars
<1>2. CallsRest /\ SessionsRest
  BY CallsStay, SessionsStay DEF CallWarmup, WarmStep, OpenWarm, Commit, DropStale, callVars
<1>3. \A d \in Callers : pc'[d] = "DropTaken" => pc[d] = "DropTaken"
  BY <1>2, Firm DEF CallsRest
<1>4. \A h \in Gen : /\ session'[h].tunnel = session[h].tunnel
                     /\ session'[h].at \in Working <=> session[h].at \in Working
  BY <1>2, Firm DEF SessionsRest, Working
<1>5. ASSUME NEW match \in BOOLEAN, CallWarmup(match)
      PROVE  TunnelsOK'
  <2> DEFINE w == begun + 1
  <2>1. /\ begun' = w /\ warm'.state = "Busy" /\ warm'.by = w
        /\ warmups' = [warmups EXCEPT ![w] = "Open"] /\ dropped' = dropped /\ tunnels' = tunnels
        /\ w \in Warmup
    BY <1>5, TunnelTypes DEF CallWarmup, Warmup
  <2>2. warmups[w] = "None" /\ w \notin dropped
    BY <1>1, <2>1, TunnelTypes DEF WarmupTunnels
  <2>3. \A v \in Warmup : warmups'[v] = IF v = w THEN "Open" ELSE warmups[v]
    BY <2>1, TunnelTypes
  <2>4. SessionTunnels'
    BY <1>1, <1>4, <2>1, <2>2, <2>3 DEF SessionTunnels, OwnTunnel, NoTunnel
  <2>5. TakenTunnels'
    BY <1>1, <1>3, <1>4, <2>2, <2>3, TunnelTypes DEF TakenTunnels
  <2>6. EntryTunnel'
    BY <1>1, <2>1, <2>2, <2>3, TunnelTypes DEF EntryTunnel
  <2>7. WarmupTunnels'
    BY <1>1, <2>1, <2>3, TunnelTypes DEF WarmupTunnels, Warmup
  <2> QED
    BY <2>4, <2>5, <2>6, <2>7 DEF TunnelsOK
<1>6. ASSUME NEW w \in Warmup, OpenWarm(w)
      PROVE  TunnelsOK'
  <2>1. /\ warmups[w] = "Open" /\ warm' = warm /\ begun' = begun /\ dropped' = dropped
        /\ tunnels \subseteq tunnels'
        /\ \A v \in Warmup : v # w => warmups'[v] = warmups[v]
        /\ warmups'[w] \in {"CommitErr", "CommitOk"}
        /\ warmups'[w] = "CommitOk" => w \in tunnels'
    BY <1>6, TunnelTypes DEF OpenWarm
  <2>2. SessionTunnels'
    BY <1>1, <1>4, <2>1 DEF SessionTunnels, OwnTunnel, NoTunnel
  <2>3. TakenTunnels'
    BY <1>1, <1>3, <1>4, <2>1, TunnelTypes DEF TakenTunnels
  <2>4. EntryTunnel'
    BY <1>1, <1>3, <1>4, <2>1, TunnelTypes DEF EntryTunnel
  <2>5. WarmupTunnels'
    BY <1>1, <2>1 DEF WarmupTunnels
  <2> QED
    BY <2>2, <2>3, <2>4, <2>5 DEF TunnelsOK
<1>7. ASSUME NEW w \in Warmup, Commit(w)
      PROVE  TunnelsOK'
  <2>1. /\ warmups[w] \in {"CommitOk", "CommitErr"} /\ begun' = begun /\ dropped' = dropped
        /\ tunnels' = tunnels
        /\ \A v \in Warmup : v # w => warmups'[v] = warmups[v]
        /\ warmups'[w] = "Done" \/ (warmups'[w] = "DropStale" /\ warmups[w] = "CommitOk")
        /\ \/ warm'.state = "None"
           \/ /\ warm'.state = "Ready" /\ warm'.by = w /\ warmups[w] = "CommitOk"
              /\ w \notin dropped
              /\ warmups'[w] = "Done"
    <3>1. /\ [warm EXCEPT !.state = "Ready", !.by = w].state = "Ready"
          /\ [warm EXCEPT !.state = "Ready", !.by = w].by = w
      <4>1. CASE warm = NoWarm
        BY <4>1 DEF NoWarm
      <4>2. CASE warm \in [state : {"Busy", "Ready"}, by : Warmup, match : BOOLEAN]
        BY <4>2
      <4> QED
        BY <4>1, <4>2 DEF TypeOK
    <3>2. \A t \in WarmPcs : [warmups EXCEPT ![w] = t][w] = t
      BY TunnelTypes
    <3>3. \A t \in WarmPcs, v \in Warmup : v # w => [warmups EXCEPT ![w] = t][v] = warmups[v]
      BY TunnelTypes
    <3>4. NoWarm.state = "None" /\ {"Done", "DropStale"} \subseteq WarmPcs
      BY DEF NoWarm, WarmPcs
    <3>5. CASE warmups[w] = "CommitOk" /\ warm' = [warm EXCEPT !.state = "Ready", !.by = w]
      <4>1. warm'.state = "Ready" /\ warm'.by = w
        BY <3>1, <3>5
      <4>2. w \notin dropped /\ warmups' = [warmups EXCEPT ![w] = "Done"]
        BY <1>7, <3>4, <3>5, <4>1, Zenon DEF Commit, WarmCancelled
      <4>3. begun' = begun /\ dropped' = dropped /\ tunnels' = tunnels
        BY <1>7 DEF Commit
      <4> QED
        BY <3>2, <3>3, <3>4, <3>5, <4>1, <4>2, <4>3
    <3>6. CASE warm' = NoWarm
      <4>1. \/ warmups' = [warmups EXCEPT ![w] = "Done"]
            \/ warmups[w] = "CommitOk" /\ warmups' = [warmups EXCEPT ![w] = "DropStale"]
        BY <1>7, Zenon DEF Commit
      <4>2. warmups[w] \in {"CommitOk", "CommitErr"}
        BY <1>7, Zenon DEF Commit
      <4>3. begun' = begun /\ dropped' = dropped /\ tunnels' = tunnels
        BY <1>7 DEF Commit
      <4>4. \A v \in Warmup : v # w => warmups'[v] = warmups[v]
        BY <3>3, <3>4, <4>1
      <4>5. warmups'[w] = "Done" \/ (warmups'[w] = "DropStale" /\ warmups[w] = "CommitOk")
        BY <3>2, <3>4, <4>1
      <4>6. warm'.state = "None"
        BY <3>4, <3>6
      <4> QED
        BY <4>2, <4>3, <4>4, <4>5, <4>6
    <3> QED
      BY <1>7, <3>5, <3>6 DEF Commit
  <2>2. SessionTunnels'
    BY <1>1, <1>4, <2>1 DEF SessionTunnels, OwnTunnel, NoTunnel
  <2>3. TakenTunnels'
    BY <1>1, <1>3, <1>4, <2>1, TunnelTypes DEF TakenTunnels
  <2>4. EntryTunnel'
    <3>1. \A h \in Gen : session[h].tunnel # w
      BY <1>1, <2>1 DEF SessionTunnels
    <3>2. \A d \in Callers : pc[d] = "DropTaken" => call[d].tunnel # w
      BY <1>1, <2>1, TunnelTypes DEF TakenTunnels
    <3>3. warmups[w] = "CommitOk" => w \in tunnels
      BY <1>1 DEF WarmupTunnels
    <3> QED
      BY <1>1, <1>3, <1>4, <2>1, <3>1, <3>2, <3>3 DEF EntryTunnel
  <2>5. WarmupTunnels'
    BY <1>1, <2>1 DEF WarmupTunnels
  <2> QED
    BY <2>2, <2>3, <2>4, <2>5 DEF TunnelsOK
<1>8. ASSUME NEW w \in Warmup, DropStale(w)
      PROVE  TunnelsOK'
  <2>1. /\ warmups[w] = "DropStale" /\ warm' = warm /\ begun' = begun /\ dropped' = dropped
        /\ tunnels' = tunnels \ {w}
        /\ \A v \in Warmup : v # w => warmups'[v] = warmups[v]
        /\ warmups'[w] = "Done"
    BY <1>8, TunnelTypes DEF DropStale
  <2>2. SessionTunnels'
    BY <1>1, <1>4, <2>1 DEF SessionTunnels, OwnTunnel, NoTunnel
  <2>3. TakenTunnels'
    BY <1>1, <1>3, <1>4, <2>1, TunnelTypes DEF TakenTunnels
  <2>4. EntryTunnel'
    BY <1>1, <1>3, <1>4, <2>1, TunnelTypes DEF EntryTunnel
  <2>5. WarmupTunnels'
    BY <1>1, <2>1 DEF WarmupTunnels
  <2> QED
    BY <2>2, <2>3, <2>4, <2>5 DEF TunnelsOK
<1> QED
  BY <1>5, <1>6, <1>7, <1>8 DEF WarmStep

LEMMA TunnelStep ==
  ASSUME MirrorAssumption, TypeOK, TunnelsOK, Next
  PROVE  TunnelsOK'
<1>1. ASSUME NEW c \in Callers,
             \/ \E op \in {"stop", "offline"} : CallStart(c) \/ CallStop(c, op)
             \/ CallStep(c)
      PROVE  TunnelsOK'
  BY <1>1, QuietCallsKeepTunnels, DropWarmKeepsTunnels, DropTakenKeepsTunnels
<1>2. ASSUME NEW g \in Gen, SessionStep(g) \/ StreamEnds(g)
      PROVE  TunnelsOK'
  BY <1>2, QuietSessionsKeepTunnels, TakeWarmKeepsTunnels, TakeDownKeepsTunnels, PrepareKeepsTunnels
     DEF SessionStep
<1>3. CASE Exit
  BY <1>3, RestsTunnels DEF Exit, QuietTunnels, callVars
<1> QED
  BY <1>1, <1>2, <1>3, WarmupsKeepTunnels DEF Next, Callers
-----------------------------------------------------------------------------
(* The theorems                                                             *)

LEMMA InitMirror ==
  ASSUME MirrorAssumption, Init
  PROVE  MirrorInv
<1>1. /\ MaxGen \in Nat /\ MaxWarm \in Nat
      /\ slot = Empty /\ next = 0 /\ cancelled = {}
      /\ call = [c \in Callers |-> NoCall] /\ pc = [c \in Callers |-> "Idle"]
      /\ session = [g \in Gen |-> NoSession]
      /\ warm = NoWarm /\ warmups = [w \in Warmup |-> "None"] /\ begun = 0 /\ dropped = {}
      /\ tunnels = {} /\ ends = [g \in Gen |-> 0]
  BY DEF Init, MirrorAssumption
<1>2. TypeOK
  <2>1. NoSession \in SessionType
    BY DEF NoSession, SessionType, SessionPcs
  <2>2. NoCall \in CallType
    BY <1>1 DEF NoCall, CallType, NoTunnel
  <2>3. SlotTypeOK /\ WarmTypeOK /\ RestTypeOK
    BY <1>1 DEF SlotTypeOK, WarmTypeOK, RestTypeOK, WarmPcs
  <2>4. CallTypeOK /\ TaskTypeOK
    BY <1>1, <2>1, <2>2 DEF CallTypeOK, TaskTypeOK, CallPcs
  <2> QED
    BY <2>3, <2>4, TypeParts
<1>3. Life
  <2>1. \A g \in Gen : session[g].at = "None" /\ g > next
    BY <1>1 DEF NoSession, Gen
  <2>2. slot.generation = 0 /\ slot.phase = "Empty" /\ \A g \in Gen : g # 0
    BY <1>1 DEF Empty, Gen
  <2> QED
    BY <1>1, <2>1, <2>2 DEF Life, CallsOK, SlotOK, SessionsOK, SpawnsOK, OrphansAreCancelled,
       EndsOK,
       Owes, OwnerPcs, BeginPcs
<1>4. TunnelsOK
  <2>1. \A g \in Gen : session[g].at = "None" /\ session[g].tunnel = NoTunnel
    BY <1>1 DEF NoSession
  <2>2. NoTunnel \notin Warmup /\ warm.state = "None"
    BY <1>1 DEF NoTunnel, Warmup, NoWarm
  <2> QED
    BY <1>1, <2>1, <2>2 DEF TunnelsOK, SessionTunnels, EntryTunnel, TakenTunnels, WarmupTunnels,
       Working
<1> QED
  BY <1>2, <1>3, <1>4 DEF MirrorInv

LEMMA MirrorStep ==
  ASSUME MirrorAssumption, MirrorInv, [Next]_vars
  PROVE  MirrorInv'
<1>1. TypeOK /\ Life /\ TunnelsOK /\ CallsOK
  BY DEF MirrorInv, Life
<1>2. CASE Next
  <2>1. TypeOK'
    BY <1>1, <1>2, CallsKeepTypes, OthersKeepTypes DEF Next
  <2> QED
    BY <1>1, <1>2, <2>1, LifeStep, TunnelStep DEF MirrorInv
<1>3. CASE UNCHANGED vars
  <2>1. /\ slot' = slot /\ next' = next /\ cancelled' = cancelled /\ call' = call /\ pc' = pc
        /\ session' = session /\ warm' = warm /\ warmups' = warmups /\ begun' = begun
        /\ dropped' = dropped /\ tunnels' = tunnels /\ ends' = ends
    BY <1>3 DEF vars, slotVars, callVars, warmVars
  <2>2. TypeOK'
    BY <1>1, <2>1 DEF TypeOK
  <2>3. Life'
    BY <1>1, <2>1 DEF Life, CallsOK, SlotOK, SessionsOK, SpawnsOK, OrphansAreCancelled, EndsOK, Owes
  <2>4. TunnelsOK'
    BY <1>1, <2>1 DEF TunnelsOK, SessionTunnels, EntryTunnel, TakenTunnels, WarmupTunnels,
       OwnTunnel,
       NoTunnel
  <2> QED
    BY <2>2, <2>3, <2>4 DEF MirrorInv
<1> QED
  BY <1>2, <1>3

LEMMA MirrorInvariant == ASSUME MirrorAssumption PROVE Spec => []MirrorInv
<1>1. Init => MirrorInv
  BY InitMirror
<1>2. MirrorInv /\ [Next]_vars => MirrorInv'
  BY MirrorStep
<1> QED
  BY <1>1, <1>2, PTL DEF Spec

(* Every variable of the mirror service keeps its type (service.rs,        *)
(* session.rs, warm.rs).                                                   *)
THEOREM MirrorTypes == ASSUME MirrorAssumption PROVE Spec => []TypeOK
<1>1. MirrorInv => TypeOK
  BY DEF MirrorInv
<1> QED
  BY <1>1, MirrorInvariant, PTL

(* A session that has lost its slot has been told to end, however many     *)
(* starts, stops and sessions race for it (publish_handle in service.rs).  *)
THEOREM OrphansCancelled == ASSUME MirrorAssumption PROVE Spec => []OrphansAreCancelled
<1>1. MirrorInv => OrphansAreCancelled
  BY DEF MirrorInv, Life
<1> QED
  BY <1>1, MirrorInvariant, PTL

(* The end of a session is told once, by whoever took its slot away        *)
(* (stop, abandon_starting and release_if_current in service.rs).          *)
THEOREM EndToldOnce == ASSUME MirrorAssumption PROVE Spec => []EndIsToldOnce
<1>1. MirrorInv => EndIsToldOnce
  BY DEF MirrorInv, Life, EndsOK, EndIsToldOnce
<1> QED
  BY <1>1, MirrorInvariant, PTL

(* The tunnel a session works with is up and nobody else holds it          *)
(* (take_warm_step, commit_warmup and drop_warm).                          *)
THEOREM TunnelsInUse == ASSUME MirrorAssumption PROVE Spec => []TunnelsInUseAreUp
<1>1. MirrorInv => TunnelsInUseAreUp
  BY DEF MirrorInv, TunnelsOK, SessionTunnels, EntryTunnel, TunnelsInUseAreUp, Working
<1> QED
  BY <1>1, MirrorInvariant, PTL

(* A warmup that was dropped does not come into use again (keep_warmup and *)
(* commit_warmup in warm.rs), though an entry does not know its warmup.    *)
THEOREM CancelledWarmupsUnused == ASSUME MirrorAssumption PROVE Spec => []CancelledWarmupsAreUnused
<1>1. ASSUME MirrorInv
      PROVE  CancelledWarmupsAreUnused
  <2>1. SessionTunnels /\ EntryTunnel /\ TypeOK /\ dropped \subseteq Warmup
    BY <1>1 DEF MirrorInv, TunnelsOK, TypeOK
  <2>2. warm.state # "None" => warm.by \notin dropped
    BY <2>1, TunnelTypes DEF EntryTunnel
  <2>3. \A g \in Gen : session[g].tunnel \notin dropped
    BY <2>1, TunnelTypes DEF SessionTunnels
  <2> QED
    BY <2>2, <2>3 DEF CancelledWarmupsAreUnused
<1> QED
  BY <1>1, MirrorInvariant, PTL
=============================================================================
