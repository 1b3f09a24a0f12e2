------------------------------ MODULE HitBatches ------------------------------
(***************************************************************************)
(* The batches of hits between the worker of a capture and the client      *)
(* (yohu-logsrv batch.rs): hits are gathered, flushed in one event for     *)
(* each window, and an event that finds the channel full is lost but       *)
(* counted. One generation of a capture, which does not end.               *)
(***************************************************************************)
EXTENDS Integers

CONSTANTS
  Windows,
  SinkCap,  (* events the channel to the client holds                      *)
  MaxHits   (* bound: hits of the capture                                  *)

BatchAssumption == SinkCap \in Nat \ {0} /\ MaxHits \in Nat

VARIABLES
  hits,     (* how many there were                                         *)
  pending,  (* windows with hits to send                                   *)
  ready,    (* windows a flush has still to send                           *)
  sink,     (* events on their way to the client                           *)
  dropped,  (* dropped_batches                                             *)
  untold    (* an event was lost, and the client has not heard of it       *)

vars == <<hits, pending, ready, sink, dropped, untold>>

Init ==
  /\ hits = 0 /\ pending = {} /\ ready = {} /\ sink = 0 /\ dropped = 0 /\ untold = FALSE

(* The channel of 4096 notes is left out: a note is gathered with the      *)
(* commit of its line.                                                     *)
Note(w) ==
  /\ hits < MaxHits
  /\ hits' = hits + 1
  /\ pending' = pending \cup {w}
  /\ UNCHANGED <<ready, sink, dropped, untold>>

(* `room` is what the channel still takes.                                 *)
emit_overflow(room) ==
  IF dropped > 0 /\ room > 0
  THEN dropped' = 0 /\ untold' = FALSE /\ sink' = SinkCap - room + 1
  ELSE UNCHANGED <<dropped, untold>> /\ sink' = SinkCap - room

(* A flush comes with the clock, or when the batch is large enough.        *)
Flush ==
  /\ ready = {} /\ pending # {}
  /\ ready' = pending /\ pending' = {}
  /\ UNCHANGED <<hits, sink, dropped, untold>>

SendHits(w) ==
  /\ w \in ready
  /\ ready' = ready \ {w}
  /\ \/ sink < SinkCap /\ emit_overflow(SinkCap - sink - 1)
     \/ sink = SinkCap /\ dropped' = dropped + 1 /\ untold' = TRUE /\ UNCHANGED sink
  /\ UNCHANGED <<hits, pending>>

QuietTick ==
  /\ ready = {} /\ pending = {} /\ dropped > 0
  /\ emit_overflow(SinkCap - sink)
  /\ UNCHANGED <<hits, pending, ready>>

(* aggregate_loop runs on its own; the client takes what it is sent.       *)
Aggregate == Flush \/ QuietTick \/ \E w \in Windows : SendHits(w)

Drain ==
  /\ sink > 0
  /\ sink' = sink - 1
  /\ UNCHANGED <<hits, pending, ready, dropped, untold>>

Next == (\E w \in Windows : Note(w)) \/ Aggregate \/ Drain

Spec == Init /\ [][Next]_vars /\ WF_vars(Aggregate) /\ WF_vars(Drain)
-----------------------------------------------------------------------------
(* Every variable has its type.                                            *)
TypeOK ==
  /\ hits \in 0 .. MaxHits
  /\ pending \subseteq Windows /\ ready \subseteq Windows
  /\ sink \in 0 .. SinkCap /\ dropped \in 0 .. MaxHits /\ untold \in BOOLEAN

(* When a batch of hits finds no room, the client is told in the end that  *)
(* it has missed one (LogOverflow) and can ask for the page; a count that  *)
(* cannot be told at once is kept for a later tick (emit_overflow).        *)
LostHitsAreTold == untold ~> ~untold
=============================================================================
