------------------------------- MODULE Transfer -------------------------------
(***************************************************************************)
(* The transfers of files (yohu-files transfer.rs, guard.rs, yohu-adbtools *)
(* transfer_runs.rs): each has an id and a token in the registry, rechecks *)
(* its remote path, lets adb stream, and ends with one event that says how *)
(* it went. Their local files are distinct.                                *)
(***************************************************************************)
EXTENDS Integers, Sequences, SequencesExt

CONSTANTS
  Pushes, Pulls, (* ids of the transfers                                   *)
  EventCap,      (* events the channel to the client holds                 *)
  MaxProgress    (* bound: lines of progress of a transfer                 *)

Transfers == Pushes \cup Pulls

TransferAssumption ==
  /\ Pushes \cap Pulls = {} /\ EventCap \in Nat \ {0} /\ MaxProgress \in Nat

VARIABLES
  pc,         (* New, Recheck, Announce, Stream, Cleanup, Terminal, Release, Ended *)
  registered, (* ids whose token is in TransferRuns                        *)
  cancelled,
  file,       (* the local file: absent, old, partial, whole               *)
  stuck,      (* local files that cannot be removed                        *)
  lines,      (* lines of progress so far                                  *)
  outcome,    (* the state the terminal event will have                    *)
  events,     (* channel to the client: [id, state, file when it was sent] *)
  told        (* the last state of each transfer the client has got        *)

vars == <<pc, registered, cancelled, file, stuck, lines, outcome, events, told>>

Terminal == {"Done", "Failed", "Cancelled"}

Init ==
  /\ pc = [t \in Transfers |-> "New"] /\ registered = {} /\ cancelled = {}
  /\ file \in [Transfers -> {"absent", "old"}] /\ \A t \in Pushes : file[t] = "old"
  /\ stuck \in SUBSET Pulls
  /\ lines = [t \in Transfers |-> 0] /\ outcome = [t \in Transfers |-> "Running"]
  /\ events = <<>> /\ told = [t \in Transfers |-> "none"]
-----------------------------------------------------------------------------
(* The event goes out; emit(.., reliable) and emit_terminal wait for room. *)
Emit(t, state) ==
  /\ Len(events) < EventCap
  /\ events' = Append(events, [id |-> t, state |-> state])

(* Progress in between is lost when there is none.                         *)
TryEmit(t) ==
  IF Len(events) < EventCap
  THEN events' = Append(events, [id |-> t, state |-> "Running"]) ELSE UNCHANGED events

Goto(t, label) == pc' = [pc EXCEPT ![t] = label]

(* fail_before_stream and finish_unsuccessful: clean up, then tell.        *)
Unsuccessful(t, state) ==
  /\ Goto(t, "Cleanup")
  /\ outcome' = [outcome EXCEPT ![t] = state]

(* spawn and run: allocate, register the task.                             *)
Begin(t) ==
  /\ pc[t] = "New"
  /\ registered' = registered \cup {t}
  /\ Goto(t, "Recheck")
  /\ UNCHANGED <<cancelled, file, stuck, lines, outcome, events, told>>

(* An id that has been released is ignored.                                *)
Cancel(t) ==
  /\ t \in registered \ cancelled
  /\ cancelled' = cancelled \cup {t}
  /\ UNCHANGED <<pc, registered, file, stuck, lines, outcome, events, told>>

(* normalize_mut, resolve_and_recheck and, for a push, push_local_total.   *)
(* Whatever goes wrong in them is Failed, a cancel too.                    *)
Recheck(t) ==
  /\ pc[t] = "Recheck"
  /\ \/ Unsuccessful(t, "Failed")
     \/ Goto(t, "Announce") /\ UNCHANGED outcome
  /\ UNCHANGED <<registered, cancelled, file, stuck, lines, events, told>>

Announce(t) ==
  /\ pc[t] = "Announce"
  /\ Emit(t, "Running")
  /\ Goto(t, "Stream")
  /\ UNCHANGED <<registered, cancelled, file, stuck, lines, outcome, told>>

(* adb writes (external), and a line, or the ticker, shows it.             *)
Progress(t) ==
  /\ pc[t] = "Stream" /\ lines[t] < MaxProgress
  /\ lines' = [lines EXCEPT ![t] = @ + 1]
  /\ file' = IF t \in Pulls THEN [file EXCEPT ![t] = "partial"] ELSE file
  /\ TryEmit(t)
  /\ UNCHANGED <<pc, registered, cancelled, stuck, outcome, told>>

(* adb ends: with 0, with another code or a fault, or killed by the token, *)
(* which may come too late.                                                *)
StreamEnds(t) ==
  /\ pc[t] = "Stream"
  /\ \/ /\ Goto(t, "Terminal")
        /\ outcome' = [outcome EXCEPT ![t] = "Done"]
        /\ file' = IF t \in Pulls THEN [file EXCEPT ![t] = "whole"] ELSE file
     \/ Unsuccessful(t, "Failed") /\ UNCHANGED file
     \/ t \in cancelled /\ Unsuccessful(t, "Cancelled") /\ UNCHANGED file
  /\ UNCHANGED <<registered, cancelled, stuck, lines, events, told>>

(* Mutant: what is left after a cancel is left to the client.              *)
CleanupFailed(t) ==
  /\ pc[t] = "Cleanup"
  /\ file' = IF t \in Pulls \ stuck /\ outcome[t] = "Failed" THEN [file EXCEPT ![t] = "absent"]
             ELSE file
  /\ Goto(t, "Terminal")
  /\ UNCHANGED <<registered, cancelled, stuck, lines, outcome, events, told>>

(* cleanup_pull: the local file of a pull goes, also one that was there    *)
(* before. A failure to remove it does not stop the event.                 *)
Cleanup(t) ==
  /\ pc[t] = "Cleanup"
  /\ file' = IF t \in Pulls \ stuck THEN [file EXCEPT ![t] = "absent"] ELSE file
  /\ Goto(t, "Terminal")
  /\ UNCHANGED <<registered, cancelled, stuck, lines, outcome, events, told>>

Tell(t) ==
  /\ pc[t] = "Terminal"
  /\ Emit(t, outcome[t])
  /\ Goto(t, "Release")
  /\ UNCHANGED <<registered, cancelled, file, stuck, lines, outcome, told>>

Release(t) ==
  /\ pc[t] = "Release"
  /\ registered' = registered \ {t}
  /\ Goto(t, "Ended")
  /\ UNCHANGED <<cancelled, file, stuck, lines, outcome, events, told>>

(* The client takes an event.                                              *)
Deliver ==
  /\ events # <<>>
  /\ told' = [told EXCEPT ![Head(events).id] = Head(events).state]
  /\ events' = Tail(events)
  /\ UNCHANGED <<pc, registered, cancelled, file, stuck, lines, outcome>>

TransferStep(t) ==
  Recheck(t) \/ Announce(t) \/ Progress(t) \/ StreamEnds(t) \/ Cleanup(t) \/ Tell(t) \/ Release(t)

Next == Deliver \/ \E t \in Transfers : Begin(t) \/ Cancel(t) \/ TransferStep(t)

Spec == Init /\ [][Next]_vars
-----------------------------------------------------------------------------
(* Every variable has its type.                                            *)
TypeOK ==
  /\ pc \in [Transfers -> {"New", "Recheck", "Announce", "Stream", "Cleanup", "Terminal",
                           "Release", "Ended"}]
  /\ registered \subseteq Transfers /\ cancelled \subseteq Transfers /\ stuck \subseteq Pulls
  /\ file \in [Transfers -> {"absent", "old", "partial", "whole"}]
  /\ lines \in [Transfers -> 0 .. MaxProgress]
  /\ outcome \in [Transfers -> Terminal \cup {"Running"}]
  /\ Len(events) <= EventCap
  /\ told \in [Transfers -> Terminal \cup {"Running", "none"}]

(* Once the client has been told that a transfer is over, that is the last *)
(* it hears of it, and it is true of the disk: a pull that is Done has its *)
(* whole file, one that is not has left nothing half written (unless it    *)
(* cannot be removed).                                                     *)
EndIsTrue ==
  \A t \in Transfers :
    told[t] \in Terminal =>
      /\ \A e \in ToSet(events) : e.id # t
      /\ t \in Pulls \ stuck => IF told[t] = "Done" THEN file[t] = "whole"
                                ELSE file[t] # "partial"
=============================================================================
