------------------------------ MODULE FramePipe ------------------------------
(***************************************************************************)
(* The frame pipe between a mirror session and the decoder (yohu-mirror    *)
(* frame.rs), with the loop that fills it (pump.rs) and the decode seat    *)
(* that empties it (mirror_present windows/decode.rs, annexb.rs).          *)
(*                                                                         *)
(* A frame is its kind, its number and the codec config it was encoded     *)
(* under. One action per lock section or atomic of the pipe, so a pop may  *)
(* fall between the two writes of a push. reset_content is left out: the   *)
(* session calls it only while its slot is Starting, and pushes only once  *)
(* it has been Live, so it finds an empty pipe.                            *)
(***************************************************************************)
EXTENDS Integers, Sequences, SequencesExt

CONSTANTS
  QUEUE_CAP,  (* frames the queue holds                                    *)
  MaxPts,     (* bound: frames of one behaviour                            *)
  MaxConfig   (* bound: configs of one behaviour                           *)

PipeAssumption == QUEUE_CAP \in Nat \ {0} /\ MaxPts \in Nat /\ MaxConfig \in Nat \ {0}

VARIABLES
  last_config, pending_config, (* the sticky config, and is it to be read? *)
  queue, dropped, closed,      (* the other fields of the pipe             *)
  permit,                      (* notify_one with nobody asleep            *)
  pump, config, pts,           (* the session: in a push, configs, frames  *)
  seat, batch, seatConfig,     (* the decode seat and what it has in hand  *)
  fed                          (* the keyframes of the last batch fed      *)

pipeVars == <<last_config, pending_config, queue, dropped, closed>>
pumpVars == <<pump, config, pts>>
seatVars == <<batch, seatConfig, fed>>
vars == <<pipeVars, permit, pumpVars, seat, seatVars>>

None == 0
Config(c) == [kind |-> "config", pts |-> 0, config |-> c]
IsConfig(f) == f.kind = "config"
IsDelta(f) == f.kind = "delta"
IsKeyframe(f) == f.kind = "keyframe"
IsFrame(f) == ~IsConfig(f)

Frames == [kind : {"delta", "keyframe"}, pts : 1 .. MaxPts, config : 1 .. MaxConfig]

(* notify_one wakes the sleeper or leaves a permit; notify_waiters wakes   *)
(* who sleeps and leaves nothing.                                          *)
NotifyOne ==
  IF seat = "Asleep" THEN seat' = "Pop" /\ UNCHANGED permit ELSE permit' = TRUE /\ UNCHANGED seat

-----------------------------------------------------------------------------
(* The session: MediaLoop::run pushes what it reads                        *)

(* push of a config: the slot, then the flag.                              *)
PushConfig ==
  /\ pump = "Read" /\ ~closed /\ config < MaxConfig
  /\ config' = config + 1
  /\ last_config' = config'
  /\ pump' = "SetPending"
  /\ UNCHANGED <<pending_config, queue, dropped, closed, permit, pts, seat, seatVars>>

SetPending ==
  /\ pump = "SetPending"
  /\ pending_config' = TRUE
  /\ NotifyOne
  /\ pump' = "Read"
  /\ UNCHANGED <<last_config, queue, dropped, closed, config, pts, seatVars>>

(* Mutant: the oldest frame goes, whatever it is.                          *)
evict_oldest(f) == Tail(queue)

(* Where the frames of a kind are in the queue, and what is left of it     *)
(* when only those stay.                                                   *)
Places(kind) == {i \in DOMAIN queue : queue[i].kind = kind}

Kept(places) ==
  [n \in 1 .. Cardinality(places) |->
     queue[CHOOSE i \in places : Cardinality({j \in places : j <= i}) = n]]

(* evict_for: room for a keyframe is made of all deltas, or else of the    *)
(* oldest keyframe; for a delta only of the oldest delta.                  *)
evict_for(f) ==
  CASE IsKeyframe(f) /\ Places("delta") # {} -> Kept(Places("keyframe"))
    [] IsKeyframe(f) /\ Places("delta") = {} -> RemoveAt(queue, Min(Places("keyframe")))
    [] IsDelta(f) /\ Places("delta") # {} -> RemoveAt(queue, Min(Places("delta")))
    [] OTHER -> queue

lost(before, after) == IF after = before THEN 1 ELSE Len(before) - Len(after)

(* Mutant: one frame too many.                                             *)
FullBeyond == Len(queue) > QUEUE_CAP

Full == Len(queue) >= QUEUE_CAP

PushFrame ==
  /\ pump = "Read" /\ ~closed /\ pts < MaxPts /\ config > 0
  /\ pts' = pts + 1
  /\ \E kind \in {"delta", "keyframe"} :
       LET f == [kind |-> kind, pts |-> pts', config |-> config]
           left == evict_for(f)
       IN
       \/ /\ ~Full
          /\ queue' = Append(queue, f)
          /\ NotifyOne /\ UNCHANGED dropped
       \/ /\ Full /\ left # queue
          /\ queue' = Append(left, f)
          /\ dropped' = dropped + lost(queue, left)
          /\ NotifyOne
       \/ /\ Full /\ left = queue
          /\ dropped' = dropped + lost(queue, left)
          /\ UNCHANGED <<queue, permit, seat>>
  /\ UNCHANGED <<last_config, pending_config, closed, pump, config, seatVars>>

(* close: the flag, then whoever sleeps.                                   *)
Close ==
  /\ ~closed
  /\ closed' = TRUE
  /\ seat' = IF seat = "Asleep" THEN "Pop" ELSE seat
  /\ UNCHANGED <<last_config, pending_config, queue, dropped, permit, pumpVars, seatVars>>

-----------------------------------------------------------------------------
(* The decode seat: run_seat                                                *)

(* A seat that sits down later starts from the sticky config.              *)
Sit ==
  /\ seat = "None"
  /\ seatConfig' = last_config
  /\ seat' = "Pop"
  /\ UNCHANGED <<pipeVars, permit, pumpVars, batch, fed>>

(* pop, in recv, in the last look of recv after a close, and in drain_ready*)
Popping == {"Pop", "LastPop", "Drain"}
Config_of == [Pop |-> "PopConfig", LastPop |-> "LastConfig", Drain |-> "DrainConfig"]
Queue_of == [Pop |-> "PopQueue", LastPop |-> "LastQueue", Drain |-> "DrainQueue"]

SwapPending ==
  /\ seat \in Popping
  /\ pending_config' = FALSE
  /\ seat' = IF pending_config THEN Config_of[seat] ELSE Queue_of[seat]
  /\ UNCHANGED <<last_config, queue, dropped, closed, permit, pumpVars, seatVars>>

PopConfig ==
  \E from \in Popping :
    /\ seat = Config_of[from]
    /\ \/ /\ last_config # None
          /\ batch' = Append(batch, Config(last_config))
          /\ seat' = "Drain"
       \/ last_config = None /\ seat' = Queue_of[from] /\ UNCHANGED batch
    /\ UNCHANGED <<pipeVars, permit, pumpVars, seatConfig, fed>>

(* Nothing there: recv looks at closed, a last pop ends the seat, and a    *)
(* drained batch goes to the decoder.                                      *)
PopQueue ==
  \E from \in Popping :
    /\ seat = Queue_of[from]
    /\ \/ /\ queue # <<>>
          /\ batch' = Append(batch, Head(queue))
          /\ queue' = Tail(queue)
          /\ seat' = "Drain"
       \/ /\ queue = <<>>
          /\ seat' = CASE from = "Pop" -> "CheckClosed"
                       [] from = "LastPop" -> "Ended"
                       [] from = "Drain" -> "Ingest"
          /\ UNCHANGED <<batch, queue>>
    /\ UNCHANGED <<last_config, pending_config, dropped, closed, permit, pumpVars, seatConfig, fed>>

CheckClosed ==
  /\ seat = "CheckClosed"
  /\ seat' = IF closed THEN "LastPop" ELSE "Notified"
  /\ UNCHANGED <<pipeVars, permit, pumpVars, seatVars>>

Notified ==
  /\ seat = "Notified"
  /\ seat' = IF permit THEN "Pop" ELSE "Asleep"
  /\ permit' = FALSE
  /\ UNCHANGED <<pipeVars, pumpVars, seatVars>>

(* The beat of the select loop drops the recv and starts it again.         *)
Beat ==
  /\ seat = "Asleep"
  /\ seat' = "Pop"
  /\ UNCHANGED <<pipeVars, permit, pumpVars, seatVars>>

(* Mutant: a config counts from its place in the batch on.                 *)
select_in_order ==
  LET configs(i) == SelectSeq(SubSeq(batch, 1, i), IsConfig) IN
  [i \in 1 .. Len(batch) |->
     IF configs(i) = <<>> THEN seatConfig ELSE Last(configs(i)).config]

(* select_live_frames: the last config of the batch is that of all its     *)
(* keyframes.                                                              *)
select_live_frames ==
  LET configs == {i \in DOMAIN batch : IsConfig(batch[i])} IN
  [i \in DOMAIN batch |-> IF configs = {} THEN seatConfig ELSE batch[Max(configs)].config]

(* access_unit of each keyframe: the config in front of it, and its own.   *)
Ingest ==
  LET with == select_live_frames
      keys == {i \in 1 .. Len(batch) : IsKeyframe(batch[i])}
  IN
  /\ seat = "Ingest"
  /\ seatConfig' = with[Len(batch)]
  /\ fed' = {[with |-> with[i], own |-> batch[i].config] : i \in keys}
  /\ batch' = <<>>
  /\ seat' = "Pop"
  /\ UNCHANGED <<pipeVars, permit, pumpVars>>

-----------------------------------------------------------------------------
Init ==
  /\ last_config = None /\ pending_config = FALSE
  /\ queue = <<>> /\ dropped = 0 /\ closed = FALSE
  /\ permit = FALSE
  /\ pump = "Read" /\ config = 0 /\ pts = 0
  /\ seat = "None" /\ batch = <<>> /\ seatConfig = None /\ fed = {}

SeatStep ==
  \/ Sit \/ SwapPending \/ PopConfig \/ PopQueue \/ CheckClosed \/ Notified \/ Beat \/ Ingest

Next ==
  \/ PushConfig \/ SetPending \/ PushFrame \/ Close \/ SeatStep

Spec == Init /\ [][Next]_vars

(* tokio runs the seat's task, and its interval ticks.                     *)
FairSpec == Spec /\ WF_vars(SeatStep)
-----------------------------------------------------------------------------
(* Properties                                                               *)

TypeOK ==
  /\ last_config \in 0 .. MaxConfig /\ pending_config \in BOOLEAN
  /\ queue \in Seq(Frames) /\ Len(queue) <= QUEUE_CAP
  /\ dropped \in 0 .. MaxPts /\ closed \in BOOLEAN /\ permit \in BOOLEAN
  /\ pump \in {"Read", "SetPending"}
  /\ config \in 0 .. MaxConfig /\ pts \in 0 .. MaxPts
  /\ seat \in {"None", "Pop", "PopConfig", "PopQueue", "CheckClosed", "LastPop", "LastConfig",
               "LastQueue", "Notified", "Asleep", "Drain", "DrainConfig", "DrainQueue", "Ingest",
               "Ended"}
  /\ batch \in Seq(Frames \cup {Config(c) : c \in 1 .. MaxConfig})
  /\ seatConfig \in 0 .. MaxConfig
  /\ fed \subseteq [with : 0 .. MaxConfig, own : 1 .. MaxConfig]

(* No keyframe is fed with a config older than the one it was encoded      *)
(* under, though a pop may miss the config that was pushed before it.      *)
ConfigIsNotOlder == \A unit \in fed : unit.with >= unit.own

(* A keyframe leaves a full queue only for a newer keyframe: what is left  *)
(* has always a place the decoder can start from.                          *)
KeyframesStay ==
  \A i \in 1 .. Len(queue) :
    /\ IsKeyframe(queue[i])
    /\ \A j \in 1 .. Len(queue') : queue'[j] # queue[i]
    => \/ Contains(batch', queue[i])
       \/ \E j \in 1 .. Len(queue') : IsKeyframe(queue'[j]) /\ queue'[j].pts > queue[i].pts

(* What reaches the decoder can be decoded.                                *)
FramesDecode == [][ConfigIsNotOlder' /\ KeyframesStay]_vars

(* The seat of a closed pipe ends, though a close between its look at the  *)
(* flag and its sleep wakes nobody.                                        *)
SeatEnds == closed /\ seat # "None" ~> seat = "Ended"
=============================================================================
