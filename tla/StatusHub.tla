------------------------------ MODULE StatusHub ------------------------------
(***************************************************************************)
(* The device status hub (yohu-adb status.rs): a slot and a poller for     *)
(* each online device, the user's set_night beside them, and the cache     *)
(* both write. A status is reduced to its night field: the one the user    *)
(* writes and the poller reads. Its generation is read by nobody and left  *)
(* out. One action per lock section and per await.                         *)
(***************************************************************************)
EXTENDS Integers, Sequences, Functions

CONSTANTS
  Serials,    (* device serials                                            *)
  Callers,    (* tasks that run device.setNightMode                        *)
  MaxSlot,    (* bound: slots opened in one behaviour                      *)
  MaxWrites,  (* bound: changes of the devices' night mode                 *)
  EventCap    (* capacity of the event channel                             *)

HubAssumption ==
  /\ MaxSlot \in Nat \ {0} /\ MaxWrites \in Nat /\ EventCap \in Nat \ {0}

VARIABLES
  night,     (* the mode each device is in                                 *)
  writes,    (* changes so far                                             *)
  slots,     (* the slot of each device by number, 0 for none              *)
  opened,    (* slots opened so far                                        *)
  cancelled, (* slots whose token has been cancelled                       *)
  status,    (* the night field cached for each device                     *)
  poller,    (* the poll_loop of each slot: where it is, what it sampled   *)
  caller,    (* a set_night call                                           *)
  sink, shown (* the event channel, and what the client shows              *)

deviceVars == <<night, writes>>
slotVars == <<slots, opened, cancelled>>
clientVars == <<sink, shown>>
vars == <<deviceVars, slotVars, status, poller, caller, clientVars>>

Slot == 1 .. MaxSlot

(* None: the field is not there, because nothing has been cached yet or    *)
(* because only the properties were sampled.                               *)
Fields == {"light", "dark", "None"}

NoPoller == [at |-> "None", serial |-> "none", sample |-> "None"]
Poller == [at : {"Props", "Upsert", "Full", "UpsertFull", "Tick", "Ended"},
           serial : Serials, sample : Fields] \cup {NoPoller}

Idle == [at |-> "Idle", serial |-> "none", slot |-> 0, night |-> "None", sample |-> "None"]
Call == [at : {"Write", "Sample", "Upsert", "Send"}, serial : Serials, slot : Slot,
         night : {"light", "dark"}, sample : Fields] \cup {Idle}

Event == [serial : Serials, night : Fields]

Room == Len(sink) < EventCap

-----------------------------------------------------------------------------
(* sync_online and the pollers                                              *)

(* Mutant: a device that has a slot gets another one.                      *)
NewcomersAll(online) == online

Newcomers(online) == {s \in online : slots[s] = 0}

(* Who left loses slot and cache; each newcomer gets a slot and a poller.  *)
SyncOnline(online) ==
  LET gone == {s \in Serials \ online : slots[s] # 0}
      new == Newcomers(online)
  IN
  /\ cancelled' = cancelled \cup {slots[s] : s \in gone}
  /\ status' = [s \in Serials |-> IF s \in gone \cup new THEN "None" ELSE status[s]]
  /\ \E last \in opened .. MaxSlot : \E number \in Bijection(new, opened + 1 .. last) :
       /\ opened' = last
       /\ slots' = [s \in Serials |-> CASE s \in new -> number[s]
                                        [] s \in gone -> 0
                                        [] OTHER -> slots[s]]
       /\ poller' = [k \in Slot |->
            IF k \in opened + 1 .. last
            THEN [at |-> "Props", sample |-> "None",
                  serial |-> CHOOSE s \in new : number[s] = k]
            ELSE poller[k]]
  /\ UNCHANGED <<deviceVars, caller, clientVars>>

(* sample_props and sample_status: the first has no night field. Under a   *)
(* cancelled token, and on any error, there is no sample.                  *)
SampleOk(k) ==
  /\ poller[k].at \in {"Props", "Full"} /\ k \notin cancelled
  /\ poller' = [poller EXCEPT
       ![k].at = IF @ = "Props" THEN "Upsert" ELSE "UpsertFull",
       ![k].sample = IF poller[k].at = "Props" THEN "None" ELSE night[poller[k].serial]]
  /\ UNCHANGED <<deviceVars, slotVars, status, caller, clientVars>>

AfterSample(k, at) ==
  CASE k \in cancelled -> "Ended"
    [] k \notin cancelled /\ at \in {"Props", "Upsert"} -> "Full"
    [] OTHER -> "Tick"

(* Mutant: a poller whose sample failed gives up.                          *)
SampleErrEnds(k) ==
  /\ poller[k].at \in {"Props", "Full"}
  /\ poller' = [poller EXCEPT ![k].at = "Ended", ![k].sample = "None"]
  /\ UNCHANGED <<deviceVars, slotVars, status, caller, clientVars>>

SampleErr(k) ==
  /\ poller[k].at \in {"Props", "Full"}
  /\ poller' = [poller EXCEPT ![k].at = AfterSample(k, @), ![k].sample = "None"]
  /\ UNCHANGED <<deviceVars, slotVars, status, caller, clientVars>>

(* upsert: into whatever slot the device has by now. A missing field keeps *)
(* its last value; a sample that changes nothing is not an event.          *)
Overlaid(s, sample) == IF sample = "None" THEN status[s] ELSE sample

upsert(s, sample) ==
  status' = IF slots[s] = 0 THEN status
            ELSE [status EXCEPT ![s] = Overlaid(s, sample)]

(* push_sample: a change goes out with try_send.                           *)
PushSample(k) ==
  LET s == poller[k].serial IN
  /\ poller[k].at \in {"Upsert", "UpsertFull"}
  /\ upsert(s, poller[k].sample)
  /\ sink' = IF status'[s] # status[s] /\ Room
             THEN Append(sink, [serial |-> s, night |-> status'[s]]) ELSE sink
  /\ poller' = [poller EXCEPT ![k].at = AfterSample(k, @), ![k].sample = "None"]
  /\ UNCHANGED <<deviceVars, slotVars, caller, shown>>

Tick(k) ==
  /\ poller[k].at = "Tick"
  /\ poller' = [poller EXCEPT ![k].at = IF k \in cancelled THEN "Ended" ELSE "Full"]
  /\ UNCHANGED <<deviceVars, slotVars, status, caller, clientVars>>

-----------------------------------------------------------------------------
(* set_night                                                                *)

CallSetNight(c, s, value) ==
  /\ caller[c] = Idle /\ slots[s] # 0 /\ writes < MaxWrites
  /\ caller' = [caller EXCEPT ![c] =
       [at |-> "Write", serial |-> s, slot |-> slots[s], night |-> value, sample |-> "None"]]
  /\ writes' = writes + 1
  /\ UNCHANGED <<night, slotVars, status, poller, clientVars>>

(* An error, the cancelled token of the slot for one, may come before or   *)
(* after the device has changed.                                           *)
WriteNight(c) ==
  LET at(to) == caller' = [caller EXCEPT ![c] = to] IN
  /\ caller[c].at = "Write"
  /\ \/ /\ caller[c].slot \notin cancelled
        /\ night' = [night EXCEPT ![caller[c].serial] = caller[c].night]
        /\ at([caller[c] EXCEPT !.at = "Sample"])
     \/ UNCHANGED night /\ at(Idle)
  /\ UNCHANGED <<writes, slotVars, status, poller, clientVars>>

(* The sample taken after the write, or the written value over the last    *)
(* snapshot when there is none.                                            *)
SampleNight(c) ==
  /\ caller[c].at = "Sample"
  /\ \/ /\ caller[c].slot \notin cancelled
        /\ caller' = [caller EXCEPT ![c].at = "Upsert", ![c].sample = night[caller[c].serial]]
     \/ caller' = [caller EXCEPT ![c].at = "Upsert", ![c].sample = caller[c].night]
  /\ UNCHANGED <<deviceVars, slotVars, status, poller, clientVars>>

UpsertNight(c) ==
  /\ caller[c].at = "Upsert"
  /\ upsert(caller[c].serial, caller[c].sample)
  /\ caller' = [caller EXCEPT ![c] =
       IF slots[caller[c].serial] = 0 THEN Idle ELSE [caller[c] EXCEPT !.at = "Send"]]
  /\ UNCHANGED <<deviceVars, slotVars, poller, clientVars>>

(* send().await: the user's write is never lost to a full channel.         *)
SendNight(c) ==
  /\ caller[c].at = "Send" /\ Room
  /\ sink' = Append(sink, [serial |-> caller[c].serial, night |-> caller[c].sample])
  /\ caller' = [caller EXCEPT ![c] = Idle]
  /\ UNCHANGED <<deviceVars, slotVars, status, poller, shown>>

Deliver ==
  /\ sink # <<>>
  /\ shown' = [shown EXCEPT ![Head(sink).serial] = Head(sink).night]
  /\ sink' = Tail(sink)
  /\ UNCHANGED <<deviceVars, slotVars, status, poller, caller>>

-----------------------------------------------------------------------------
Init ==
  /\ night = [s \in Serials |-> "light"]
  /\ writes = 0
  /\ slots = [s \in Serials |-> 0] /\ opened = 0 /\ cancelled = {}
  /\ status = [s \in Serials |-> "None"]
  /\ poller = [k \in Slot |-> NoPoller]
  /\ caller = [c \in Callers |-> Idle]
  /\ sink = <<>> /\ shown = status

PollStep(k) == SampleOk(k) \/ SampleErr(k) \/ PushSample(k) \/ Tick(k)
CallStep(c) == WriteNight(c) \/ SampleNight(c) \/ UpsertNight(c) \/ SendNight(c)

Next ==
  \/ \E online \in SUBSET Serials : SyncOnline(online)
  \/ \E k \in Slot : PollStep(k)
  \/ \E c \in Callers : CallStep(c)
  \/ \E c \in Callers, s \in Serials, value \in {"light", "dark"} : CallSetNight(c, s, value)
  \/ Deliver

Spec == Init /\ [][Next]_vars

(* tokio runs every ready task, and a device that stays online answers a   *)
(* sample now and then.                                                    *)
FairSpec ==
  /\ Spec
  /\ \A k \in Slot : WF_vars(PollStep(k)) /\ SF_vars(SampleOk(k))
  /\ \A c \in Callers : WF_vars(CallStep(c))
  /\ WF_vars(Deliver)
-----------------------------------------------------------------------------
(* Properties                                                               *)

TypeOK ==
  /\ night \in [Serials -> {"light", "dark"}] /\ writes \in 0 .. MaxWrites
  /\ slots \in [Serials -> 0 .. MaxSlot] /\ opened \in 0 .. MaxSlot
  /\ cancelled \subseteq Slot
  /\ status \in [Serials -> Fields]
  /\ poller \in [Slot -> Poller]
  /\ caller \in [Callers -> Call]
  /\ sink \in Seq(Event) /\ Len(sink) <= EventCap
  /\ shown \in [Serials -> Fields]

(* An online device has one poller that has not been told to stop, and no  *)
(* other poller goes on without a slot.                                    *)
OnePoller ==
  \A k \in Slot :
    poller[k] # NoPoller /\ k \notin cancelled
      <=> \E s \in Serials : slots[s] = k /\ poller[k].serial = s /\ poller[k].at # "Ended"

(* Samples and writes overtake each other, also into the slot of a device  *)
(* that came back, but the cache does not stay wrong: again and again the  *)
(* status of a device that is online is what the device says.              *)
StatusConverges ==
  \A s \in Serials : []<>(slots[s] = 0 \/ status[s] = night[s])
=============================================================================
