---------------------------- MODULE DeviceCatalog ----------------------------
(***************************************************************************)
(* The device catalog of the shell (device_catalog.rs): refreshes that     *)
(* join one scan, the table they replace, the events they send, and what   *)
(* becomes of the sessions of a device that went offline.                  *)
(*                                                                         *)
(* The sessions (capture, mirror, browse) are seen from here               *)
(* as present or not, each with the appearance of the device it was        *)
(* opened in. One action per lock section, await and spawned step.         *)
(***************************************************************************)
EXTENDS Integers, Sequences, FiniteSets

CONSTANTS
  Serials,     (* device serials                                           *)
  Refreshers,  (* tasks that call refresh: the start, the timer, the UI    *)
  MaxAppear,   (* bound: times a device comes online in one behaviour      *)
  MaxOpens,    (* bound: calls that open a session                         *)
  EventCap     (* capacity of the event channel                            *)

CatalogAssumption == MaxAppear \in Nat \ {0} /\ MaxOpens \in Nat /\ EventCap \in Nat \ {0}

VARIABLES
  attached,   (* devices adb would list as online                          *)
  appeared,   (* how often each device has come online                     *)
  gate,       (* catalog_gate and the watch behind it                      *)
  devices,    (* last_devices                                              *)
  sampled,    (* the serials the status hub was last told                  *)
  session,    (* the appearance each session was opened in, 0 for none     *)
  opening, opens, (* calls that have passed require_online, and how many   *)
  late,       (* sessions opened since the table lost their device         *)
  stopping,   (* the background joins, one for each offline decision       *)
  events,     (* the event channel, oldest first                           *)
  shown,      (* the catalog the client shows                              *)
  refresher, pc (* what each refresh found, and where it stands            *)

deviceVars == <<attached, appeared>>
sessionVars == <<session, opening, opens, late>>
vars == <<deviceVars, gate, devices, sampled, sessionVars, stopping, events, shown, refresher, pc>>

(* A table is told apart by who is Online in it: a device that is listed   *)
(* as unauthorized or offline is treated like one that is not listed.      *)
Table == SUBSET Serials

Kinds == {"capture", "mirror", "browse"}
Changed(table) == [kind |-> "changed", table |-> table]
Offline(s) == [kind |-> "offline", serial |-> s]

(* What a refresh has in hand: the scan, the appearances it saw, who went  *)
(* offline, and whom of them the client has not been told of.              *)
NeverSeen == [s \in Serials |-> 0]
Nothing == [scanned |-> {}, seen |-> NeverSeen, offline |-> {}, untold |-> {}]

(* A background join: the devices left, the one in turn, the step in it.   *)
Join(offline, s, seen) == [left |-> offline \ {s}, serial |-> s, step |-> 1, seen |-> seen]

At(c, from, to) == pc[c] = from /\ pc' = [pc EXCEPT ![c] = to]

(* Mutant: an unbounded channel.                                           *)
SendUnbounded(event) == events' = Append(events, event)

Send(event) == Len(events) < EventCap /\ events' = Append(events, event)

-----------------------------------------------------------------------------
(* Devices come, and go or lose their authorization.                       *)
Attach(s) ==
  /\ s \notin attached /\ appeared[s] < MaxAppear
  /\ attached' = attached \cup {s}
  /\ appeared' = [appeared EXCEPT ![s] = @ + 1]
  /\ UNCHANGED <<gate, devices, sampled, sessionVars, stopping, events, shown, refresher,
                 pc>>

Detach(s) ==
  /\ s \in attached
  /\ attached' = attached \ {s}
  /\ UNCHANGED <<appeared, gate, devices, sampled, sessionVars, stopping, events, shown,
                 refresher, pc>>

(* require_online looks at the table, and what it found may be over when   *)
(* the call gets to its session.                                           *)
CheckOnline(k, s) ==
  /\ s \in devices /\ <<k, s>> \notin opening /\ opens < MaxOpens
  /\ opening' = opening \cup {<<k, s>>} /\ opens' = opens + 1
  /\ UNCHANGED <<deviceVars, gate, devices, sampled, session, late, stopping, events, shown,
                 refresher, pc>>

(* One session of a kind per device. The call joins what is there, puts a  *)
(* session into the table, or fails.                                       *)
OpenSession(k, s) ==
  /\ <<k, s>> \in opening /\ opening' = opening \ {<<k, s>>}
  /\ \/ /\ session[k][s] = 0
        /\ session' = [session EXCEPT ![k][s] = appeared[s]]
        /\ late' = IF s \in devices THEN late ELSE late \cup {<<k, s>>}
     \/ UNCHANGED <<session, late>>
  /\ UNCHANGED <<deviceVars, gate, devices, sampled, opens, stopping, events, shown,
                 refresher, pc>>

(* A session may notice by itself that its device is gone.                 *)
FailSession(k, s) ==
  /\ session[k][s] # 0 /\ s \notin attached
  /\ session' = [session EXCEPT ![k][s] = 0]
  /\ UNCHANGED <<deviceVars, gate, devices, sampled, opening, opens, late, stopping, events,
                 shown, refresher, pc>>

-----------------------------------------------------------------------------
(* refresh: the gate                                                        *)

CallRefresh(c) ==
  /\ At(c, "Idle", "Gate")
  /\ UNCHANGED <<deviceVars, gate, devices, sampled, sessionVars, stopping, events, shown,
                 refresher>>

(* A scan that is running is joined; one that has just answered gives its  *)
(* answer at once.                                                         *)
JoinScan(c) ==
  /\ At(c, "Gate", IF gate = "answered" THEN "Idle" ELSE "Waiting")
  /\ gate # "free"
  /\ UNCHANGED <<deviceVars, gate, devices, sampled, sessionVars, stopping, events, shown,
                 refresher>>

Lead(c) ==
  /\ At(c, "Gate", "Scan")
  /\ gate = "free"
  /\ gate' = "scanning"
  /\ UNCHANGED <<deviceVars, devices, sampled, sessionVars, stopping, events, shown,
                 refresher>>

-----------------------------------------------------------------------------
(* refresh_inner                                                            *)

(* devices_resilient: adb's list as it was at some moment, or an error,    *)
(* which changes nothing.                                                  *)
Scan(c) ==
  /\ \/ /\ At(c, "Scan", "Reconcile")
        /\ refresher' = [refresher EXCEPT ![c].scanned = attached, ![c].seen = appeared]
     \/ At(c, "Scan", "Answer") /\ UNCHANGED refresher
  /\ UNCHANGED <<deviceVars, gate, devices, sampled, sessionVars, stopping, events, shown>>

(* catalog_after_scan: the scan is the catalog; offline is who was online  *)
(* in the table before and is no longer, unauthorized ones included.       *)
went_offline(previous, scanned) == previous \ scanned

Reconcile(c) ==
  LET scanned == refresher[c].scanned
      offline == went_offline(devices, scanned)
  IN
  /\ At(c, "Reconcile", "SyncOnline")
  /\ devices' = scanned
  /\ late' = {call \in late : call[2] \notin scanned}
  /\ refresher' = [refresher EXCEPT ![c].offline = offline, ![c].untold = offline]
  /\ UNCHANGED <<deviceVars, gate, sampled, session, opening, opens, stopping, events,
                 shown>>

SyncOnline(c) ==
  /\ At(c, "SyncOnline", "SendChanged")
  /\ sampled' = refresher[c].scanned
  /\ UNCHANGED <<deviceVars, gate, devices, sessionVars, stopping, events, shown,
                 refresher>>

(* Mutant: a full channel loses the table.                                 *)
SendChangedLossy(c) ==
  /\ At(c, "SendChanged", "SendOffline")
  /\ events' = IF Len(events) < EventCap
               THEN Append(events, Changed(refresher[c].scanned)) ELSE events
  /\ UNCHANGED <<deviceVars, gate, devices, sampled, sessionVars, stopping, shown,
                 refresher>>

SendChanged(c) ==
  /\ At(c, "SendChanged", "SendOffline")
  /\ Send(Changed(refresher[c].scanned))
  /\ UNCHANGED <<deviceVars, gate, devices, sampled, sessionVars, stopping, shown,
                 refresher>>

(* DeviceOffline for each of them. The warmups that are spawned next are   *)
(* calls of the mirror service and of no effect here.                      *)
SendOffline(c) ==
  /\ pc[c] = "SendOffline"
  /\ \/ \E s \in refresher[c].untold :
          /\ Send(Offline(s))
          /\ refresher' = [refresher EXCEPT ![c].untold = @ \ {s}]
          /\ UNCHANGED pc
     \/ /\ refresher[c].untold = {}
        /\ At(c, "SendOffline", IF refresher[c].offline = {} THEN "Answer" ELSE "CloseBrowse")
        /\ UNCHANGED <<events, refresher>>
  /\ UNCHANGED <<deviceVars, gate, devices, sampled, sessionVars, stopping, shown>>

(* browse_runs::went_offline is awaited here, whatever generation is open. *)
CloseBrowse(c) ==
  /\ At(c, "CloseBrowse", "SpawnStops")
  /\ session' = [session EXCEPT !["browse"] =
       [s \in Serials |-> IF s \in refresher[c].offline THEN 0 ELSE session["browse"][s]]]
  /\ UNCHANGED <<deviceVars, gate, devices, sampled, opening, opens, late, stopping, events,
                 shown, refresher>>

(* The joins of captures and mirrors go to a spawned task. `seen` keeps    *)
(* the appearance the decision was about; the code keeps no such thing.    *)
SpawnStops(c) ==
  LET r == refresher[c] IN
  /\ At(c, "SpawnStops", "Answer")
  /\ \E s \in r.offline : stopping' = stopping \cup {Join(r.offline, s, r.seen)}
  /\ UNCHANGED <<deviceVars, gate, devices, sampled, sessionVars, events, shown, refresher>>

(* detach_device, mirror.stop: one device after the other, each of what    *)
(* is there when its turn comes.                                           *)
BackgroundKinds == <<"capture", "mirror">>

NextStop(d) ==
  IF d.step < Len(BackgroundKinds) THEN {[d EXCEPT !.step = @ + 1]}
  ELSE {Join(d.left, s, d.seen) : s \in d.left}

StopSession(d) ==
  /\ session' = [session EXCEPT ![BackgroundKinds[d.step]][d.serial] = 0]
  /\ \/ \E next \in NextStop(d) : stopping' = (stopping \ {d}) \cup {next}
     \/ NextStop(d) = {} /\ stopping' = stopping \ {d}
  /\ UNCHANGED <<deviceVars, gate, devices, sampled, opening, opens, late, events, shown,
                 refresher, pc>>

(* The answer wakes who joined; then the gate opens.                       *)
Answer(c) ==
  /\ pc[c] = "Answer"
  /\ gate' = "answered"
  /\ pc' = [d \in Refreshers |-> CASE d = c -> "Clear"
                                   [] pc[d] = "Waiting" -> "Idle"
                                   [] OTHER -> pc[d]]
  /\ refresher' = [refresher EXCEPT ![c] = Nothing]
  /\ UNCHANGED <<deviceVars, devices, sampled, sessionVars, stopping, events, shown>>

Clear(c) ==
  /\ At(c, "Clear", "Idle")
  /\ gate' = "free"
  /\ UNCHANGED <<deviceVars, devices, sampled, sessionVars, stopping, events, shown,
                 refresher>>

(* The client replaces its table; an offline event clears the status of a  *)
(* device only.                                                            *)
Deliver ==
  /\ events # <<>>
  /\ events' = Tail(events)
  /\ shown' = IF Head(events).kind = "changed" THEN Head(events).table ELSE shown
  /\ UNCHANGED <<deviceVars, gate, devices, sampled, sessionVars, stopping, refresher, pc>>

-----------------------------------------------------------------------------
(* restore() may have put last time's table there before the first scan;   *)
(* its devices had come online in that earlier run.                        *)
Init ==
  /\ attached = {}
  /\ gate = "free"
  /\ devices \in Table /\ shown = devices
  /\ appeared = [s \in Serials |-> IF s \in devices THEN 1 ELSE 0]
  /\ sampled = {}
  /\ session = [k \in Kinds |-> [s \in Serials |-> 0]] /\ opening = {} /\ opens = 0 /\ late = {}
  /\ stopping = {}
  /\ events = <<>>
  /\ refresher = [c \in Refreshers |-> Nothing]
  /\ pc = [c \in Refreshers |-> "Idle"]

RefreshStep(c) ==
  \/ JoinScan(c) \/ Lead(c) \/ Scan(c) \/ Reconcile(c) \/ SyncOnline(c) \/ SendChanged(c)
  \/ SendOffline(c) \/ CloseBrowse(c) \/ SpawnStops(c) \/ Answer(c) \/ Clear(c)

Next ==
  \/ \E s \in Serials : Attach(s) \/ Detach(s)
  \/ \E k \in Kinds, s \in Serials : CheckOnline(k, s) \/ OpenSession(k, s) \/ FailSession(k, s)
  \/ \E c \in Refreshers : CallRefresh(c) \/ RefreshStep(c)
  \/ \E d \in stopping : StopSession(d)
  \/ Deliver

Spec == Init /\ [][Next]_vars

(* tokio runs every ready task; adb's list has a timeout; the dispatcher   *)
(* takes what is in the channel.                                           *)
FairSpec ==
  /\ Spec
  /\ \A c \in Refreshers : WF_vars(RefreshStep(c))
  /\ WF_vars(\E d \in stopping : StopSession(d))
  /\ WF_vars(Deliver)
-----------------------------------------------------------------------------
(* Properties                                                               *)

TypeOK ==
  /\ attached \in Table /\ appeared \in [Serials -> 0 .. MaxAppear]
  /\ gate \in {"free", "scanning", "answered"}
  /\ devices \in Table /\ shown \in Table
  /\ sampled \subseteq Serials
  /\ session \in [Kinds -> [Serials -> 0 .. MaxAppear]]
  /\ opening \subseteq Kinds \X Serials /\ late \subseteq Kinds \X Serials
  /\ opens \in 0 .. MaxOpens
  /\ stopping \subseteq [left : SUBSET Serials, serial : Serials, step : 1 .. 2,
                         seen : [Serials -> 0 .. MaxAppear]]
  /\ events \in Seq({Changed(t) : t \in Table} \cup {Offline(s) : s \in Serials})
  /\ Len(events) <= EventCap
  /\ refresher \in [Refreshers -> [scanned : Table, seen : [Serials -> 0 .. MaxAppear],
                                   offline : SUBSET Serials, untold : SUBSET Serials]]

(* Every refresh returns, the ones that joined a scan included.            *)
RefreshReturns == \A c \in Refreshers : pc[c] # "Idle" ~> pc[c] = "Idle"

(* With nothing on its way the client shows the catalog.                   *)
CatalogIsShown ==
  events = <<>> /\ (\A c \in Refreshers : pc[c] \notin {"SyncOnline", "SendChanged"})
    => shown = devices

(* A session ends when the catalog loses its device, or the device comes   *)
(* back, though captures and mirrors are left to a task nobody waits for.  *)
(* Except a session whose call passed require_online before and reached    *)
(* the table after: unless it fails by itself, it is only ended by the     *)
(* next time the catalog loses the device.                                 *)
OfflineConverges ==
  \A s \in Serials :
    s \notin devices ~>
      s \in devices \/ \A k \in Kinds : session[k][s] = 0 \/ <<k, s>> \in late

(* While a device is there, the background join ends only the captures the *)
(* decision was about, not one opened after the device came back.          *)
DetachIsOfTheGeneration ==
  [][\A s \in Serials :
       s \in attached /\ session["capture"][s] # 0 /\ session'["capture"][s] = 0 =>
         \E d \in stopping : d.serial = s /\ d.step = 1 /\ session["capture"][s] <= d.seen[s]]_vars
=============================================================================
