-------------------------- MODULE MCDeviceSessions --------------------------
(***************************************************************************)
(* The parts that stand between a device and its users: browse sessions,   *)
(* the shell they list through, the device catalog and the status hub.     *)
(* They share no variable, so an interleaving of two of them shows nothing *)
(* that one alone does not: `focus` picks the one that moves, the others   *)
(* stay in their initial states.                                           *)
(***************************************************************************)
EXTENDS Integers

CONSTANTS
  Serials, Openers, Listers, Enders, Refreshers, NightCallers,
  MaxGen, MaxTool,                         (* BrowseSession                *)
  MaxTurn, PipeCap, HANDSHAKE_LINE_LIMIT, DrainTimesOut,    (* DeviceShell *)
  MaxAppear, MaxOpens,                     (* DeviceCatalog                *)
  MaxSlot, MaxWrites,                      (* StatusHub                    *)
  EventCap                                 (* of the catalog and the hub   *)

VARIABLES
  focus,
  slots, sessions, generation, cancelled, tool, call, pc, result,
  io, device, stdin, stdout, began, written, tail, nonce, seen, body, origin, outcome,
  attached, appeared, gate, devices, sampled, session, opening, opens, late, stopping, events,
  shown, refresher, refresherPc,
  night, writes, hubSlots, opened, hubCancelled, status, poller, caller, sink, hubShown

Browse == INSTANCE BrowseSession

Shell == INSTANCE DeviceShell

Catalog == INSTANCE DeviceCatalog WITH pc <- refresherPc

Hub == INSTANCE StatusHub WITH
         Callers <- NightCallers, slots <- hubSlots, cancelled <- hubCancelled, shown <- hubShown

ASSUME DeviceAssumptions ==
  /\ Browse!BrowseAssumption
  /\ Shell!ShellAssumption
  /\ Catalog!CatalogAssumption
  /\ Hub!HubAssumption

Init ==
  /\ focus \in {"browse", "shell", "catalog", "status"}
  /\ Browse!Init /\ Shell!Init /\ Catalog!Init /\ Hub!Init
  /\ focus # "catalog" => devices = {}

browseVars == <<slots, sessions, generation, cancelled, tool, call, pc, result>>
shellVars == <<io, device, stdin, stdout, began, written, tail, nonce, seen, body, origin, outcome>>
catalogVars == <<attached, appeared, gate, devices, sampled, session, opening, opens, late,
                 stopping, events, shown, refresher, refresherPc>>
statusVars == <<night, writes, hubSlots, opened, hubCancelled, status, poller, caller, sink,
                hubShown>>
vars == <<focus, browseVars, shellVars, catalogVars, statusVars>>

Next ==
  /\ UNCHANGED focus
  /\ \/ /\ focus = "browse" /\ Browse!Next
        /\ UNCHANGED <<shellVars, catalogVars, statusVars>>
     \/ /\ focus = "shell" /\ Shell!Next
        /\ UNCHANGED <<browseVars, catalogVars, statusVars>>
     \/ /\ focus = "catalog" /\ Catalog!Next
        /\ UNCHANGED <<browseVars, shellVars, statusVars>>
     \/ /\ focus = "status" /\ Hub!Next
        /\ UNCHANGED <<browseVars, shellVars, catalogVars>>

Fairness ==
  /\ \A c \in Browse!Callers : WF_browseVars(focus = "browse" /\ Browse!Step(c))
  /\ \A c \in Refreshers : WF_catalogVars(focus = "catalog" /\ Catalog!RefreshStep(c))
  /\ WF_catalogVars(focus = "catalog" /\ \E d \in stopping : Catalog!StopSession(d))
  /\ WF_catalogVars(focus = "catalog" /\ Catalog!Deliver)
  /\ \A k \in Hub!Slot : /\ WF_statusVars(focus = "status" /\ Hub!PollStep(k))
                         /\ SF_statusVars(focus = "status" /\ Hub!SampleOk(k))
  /\ \A c \in NightCallers : WF_statusVars(focus = "status" /\ Hub!CallStep(c))
  /\ WF_statusVars(focus = "status" /\ Hub!Deliver)

Spec == Init /\ [][Next]_vars

FairSpec == Spec /\ Fairness
-----------------------------------------------------------------------------
(* The properties of the four modules, under the names the run gives them. *)

(* Every variable has its type.                                            *)
TypeOK == Browse!TypeOK /\ Shell!TypeOK /\ Catalog!TypeOK /\ Hub!TypeOK

(* BrowseSession: a list returns entries of a session nobody has ended, no *)
(* session leaks, and one ends by its own release or by its device.        *)
BrowseKeepsItsSessions == Browse!ListIsCurrent /\ Browse!SessionsKeepOwners

(* DeviceShell: an answer is of its own script, and a session falls back   *)
(* to single commands for a device that rejects the script or breaks off   *)
(* the handshake in silence, not for one that is offline, slow or          *)
(* cancelled (with stderr read in time).                                   *)
ShellIsTruthful == Shell!AnswersAreOwn /\ Shell!FallbackIsEarned

(* DeviceCatalog: the client gets the table of the last scan.              *)
CatalogIsShown == Catalog!CatalogIsShown

(* BrowseSession, DeviceCatalog: nobody sleeps through the end of an       *)
(* attach, and those who join a scan return, whatever becomes of it.       *)
CallsReturn == Browse!BrowseCallsReturn /\ Catalog!RefreshReturns

(* DeviceCatalog: the background join ends no newer capture.               *)
DetachIsOfTheGeneration == Catalog!DetachIsOfTheGeneration

(* StatusHub: one poller for each online device.                           *)
OnePoller == Hub!OnePoller

(* DeviceCatalog, StatusHub: devices that went offline lose their sessions,*)
(* but for one that a call opened after the decision, having found the     *)
(* device online before it; and the cache of a device that is online does  *)
(* not stay wrong (of the events to the client nothing is said).           *)
DeviceConverges == Catalog!OfflineConverges /\ Hub!StatusConverges
=============================================================================
