---------------------------- MODULE UpdateDownload ----------------------------
(***************************************************************************)
(* The downloads of an update (yohu-adbtools update_runs.rs, yohu-download *)
(* fetch.rs, stream.rs, resume.rs). One slot holds the token of the newest *)
(* download; a new one cancels the one before and does not wait for it, so *)
(* two of them can be under way, and they write to the same two paths: the *)
(* installer and its `.part`. A path names a file, and a download that has *)
(* one open goes on with it when the path is gone or names another.        *)
(***************************************************************************)
EXTENDS Integers, FiniteSets

CONSTANTS
  MaxDownload,       (* bound: downloads                                   *)
  Size,              (* length of the installer                            *)
  DOWNLOAD_ATTEMPTS

DownloadAssumption ==
  MaxDownload \in Nat /\ Size \in Nat \ {0} /\ DOWNLOAD_ATTEMPTS \in Nat \ {0}

Download == 1 .. MaxDownload
NoFile == 0
File == 1 .. MaxDownload + 2

VARIABLES
  started,   (* downloads so far                                           *)
  slot,      (* download_cancel: the download it cancels, or 0             *)
  cancelled,
  pc,        (* New, Attempt, Request, Stream, Rename, Retry, Clear, Ended *)
  attempt, have, received,
  open,      (* the file a download has open                               *)
  length,    (* of each file                                               *)
  part, dest, (* the files the two paths name                              *)
  stage,     (* what the client hears of it at the end: Ready or Failed    *)
  raced      (* a cancelled download has still made or renamed the `.part` *)

vars == <<started, slot, cancelled, pc, attempt, have, received, open, length, part, dest, stage,
          raced>>
slotVars == <<started, slot, cancelled>>

Init ==
  /\ started = 0 /\ slot = 0 /\ cancelled = {}
  /\ pc = [d \in Download |-> "New"]
  /\ attempt = [d \in Download |-> 1]
  /\ have = [d \in Download |-> 0] /\ received = [d \in Download |-> 0]
  /\ open = [d \in Download |-> NoFile]
  /\ length = [f \in File |-> 0]
  /\ part = NoFile /\ dest = NoFile
  /\ stage = [d \in Download |-> "none"] /\ raced = FALSE

Length(path) == IF path = NoFile THEN 0 ELSE length[path]
Goto(d, label) == pc' = [pc EXCEPT ![d] = label]
-----------------------------------------------------------------------------
(* spawn_download with replace_cancel.                                     *)
Start ==
  LET d == started + 1 IN
  /\ started < MaxDownload
  /\ started' = d /\ slot' = d
  /\ cancelled' = IF slot = 0 THEN cancelled ELSE cancelled \cup {slot}
  /\ Goto(d, "Attempt")
  /\ UNCHANGED <<attempt, have, received, open, length, part, dest, stage, raced>>

Cancel ==
  /\ slot # 0
  /\ cancelled' = cancelled \cup {slot} /\ slot' = 0
  /\ UNCHANGED <<started, pc, attempt, have, received, open, length, part, dest, stage,
                 raced>>

(* The result of fetch.                                                    *)
Result(d, told) ==
  /\ Goto(d, "Clear")
  /\ stage' = [stage EXCEPT ![d] = told]
  /\ open' = [open EXCEPT ![d] = NoFile]

(* A fault that is tried again; the `.part` is removed before the wait.    *)
TryAgain(d) ==
  \/ /\ attempt[d] = DOWNLOAD_ATTEMPTS
     /\ Result(d, "Failed")
     /\ UNCHANGED part
  \/ /\ attempt[d] < DOWNLOAD_ATTEMPTS
     /\ part' = NoFile
     /\ Goto(d, "Retry")
     /\ open' = [open EXCEPT ![d] = NoFile]
     /\ UNCHANGED stage

(* Backoff, or cancelled in it.                                            *)
Retry(d) ==
  /\ pc[d] = "Retry"
  /\ \/ d \in cancelled /\ Result(d, "Failed") /\ UNCHANGED attempt
     \/ /\ Goto(d, "Attempt")
        /\ attempt' = [attempt EXCEPT ![d] = @ + 1]
        /\ UNCHANGED <<stage, open>>
  /\ UNCHANGED <<slotVars, have, received, length, part, dest, raced>>

IsWhole(path) == path # NoFile /\ length[path] = Size

(* The top of stream_once: an installer with the right size and checksum   *)
(* is taken, another one is removed; a `.part` is resumed.                 *)
Attempt(d) ==
  /\ pc[d] = "Attempt"
  /\ \/ d \in cancelled /\ Result(d, "Failed") /\ UNCHANGED <<have, dest>>
     \/ d \notin cancelled /\ IsWhole(dest) /\ Result(d, "Ready") /\ UNCHANGED <<have, dest>>
     \/ /\ d \notin cancelled /\ ~IsWhole(dest)
        /\ dest' = NoFile
        /\ have' = [have EXCEPT ![d] = Length(part)]
        /\ Goto(d, "Request")
        /\ UNCHANGED <<stage, open>>
  /\ UNCHANGED <<slotVars, attempt, received, length, part, raced>>

(* A file is created: an id that no path names and nobody has open.        *)
Fresh == CHOOSE f \in File : f \notin {part, dest} \cup {open[d] : d \in Download}

Opened(d, file, from) ==
  /\ open' = [open EXCEPT ![d] = file]
  /\ received' = [received EXCEPT ![d] = from]
  /\ Goto(d, "Stream")
  /\ UNCHANGED stage

(* resume_plan: 200 starts anew, 206 goes on behind what is there, if it   *)
(* still is what was measured; 416 and the other codes end the download.   *)
(* The token is asked before the answer, and not again until the stream.   *)
Respond(d) ==
  /\ pc[d] = "Request"
  /\ \/ d \in cancelled /\ Result(d, "Failed") /\ UNCHANGED <<received, length, part>>
     \/ d \notin cancelled /\ TryAgain(d) /\ UNCHANGED <<received, length>>
     \/ Result(d, "Failed") /\ UNCHANGED <<received, length, part>>
     \/ /\ part' = Fresh
        /\ length' = [length EXCEPT ![Fresh] = 0]
        /\ Opened(d, Fresh, 0)
     \/ /\ have[d] \in 1 .. Size - 1 /\ part = NoFile
        /\ TryAgain(d) /\ UNCHANGED <<received, length>>
     \/ /\ have[d] \in 1 .. Size - 1 /\ part # NoFile /\ Length(part) # have[d]
        /\ part' = NoFile /\ Result(d, "Failed") /\ UNCHANGED <<received, length>>
     \/ /\ have[d] \in 1 .. Size - 1 /\ part # NoFile /\ Length(part) = have[d]
        /\ Opened(d, part, have[d]) /\ UNCHANGED <<length, part>>
  /\ raced' = (raced \/ (d \in cancelled /\ pc'[d] = "Stream"))
  /\ UNCHANGED <<slotVars, attempt, have, dest>>

(* A chunk is written, as long as the token, which is asked first, is not  *)
(* cancelled; then the `.part` is removed, whoever has made it.            *)
Chunk(d) ==
  /\ pc[d] = "Stream"
  /\ \/ /\ d \notin cancelled /\ received[d] < Size
        /\ received' = [received EXCEPT ![d] = @ + 1]
        /\ length' = [length EXCEPT ![open[d]] = @ + 1]
        /\ UNCHANGED <<pc, part, stage, open>>
     \/ /\ d \in cancelled /\ Result(d, "Failed") /\ part' = NoFile
        /\ UNCHANGED <<received, length>>
     \/ d \notin cancelled /\ TryAgain(d) /\ UNCHANGED <<received, length>>
     \/ /\ d \notin cancelled
        /\ Goto(d, "Rename")
        /\ UNCHANGED <<received, length, part, stage, open>>
  /\ UNCHANGED <<slotVars, attempt, have, dest, raced>>

(* Mutant: what was resumed counts as right.                               *)
VerifiedFresh(d) == received[d] = Size \/ have[d] > 0

(* Size and checksum of what was received.                                 *)
Verified(d) == received[d] = Size

(* The stream has ended, perhaps too early. The `.part` becomes the        *)
(* installer; the token is not asked any more.                             *)
Rename(d) ==
  /\ pc[d] = "Rename"
  /\ \/ /\ ~Verified(d)
        /\ part' = NoFile /\ Result(d, "Failed") /\ UNCHANGED dest
     \/ /\ Verified(d) /\ part # NoFile
        /\ dest' = part /\ part' = NoFile /\ Result(d, "Ready")
     \/ Verified(d) /\ part = NoFile /\ TryAgain(d) /\ UNCHANGED dest
  /\ raced' = (raced \/ d \in cancelled)
  /\ UNCHANGED <<slotVars, attempt, have, received, length>>

(* clear_if_current; the task is finished.                                 *)
Clear(d) ==
  /\ pc[d] = "Clear"
  /\ Goto(d, "Ended")
  /\ slot' = IF slot = d THEN 0 ELSE slot
  /\ UNCHANGED <<started, cancelled, attempt, have, received, open, length, part, dest, stage,
                 raced>>

Step(d) == Retry(d) \/ Attempt(d) \/ Respond(d) \/ Chunk(d) \/ Rename(d) \/ Clear(d)

Next == Start \/ Cancel \/ \E d \in Download : Step(d)

Spec == Init /\ [][Next]_vars
-----------------------------------------------------------------------------
(* Every variable has its type.                                            *)
TypeOK ==
  /\ started \in 0 .. MaxDownload /\ slot \in 0 .. MaxDownload /\ cancelled \subseteq Download
  /\ pc \in [Download -> {"New", "Attempt", "Request", "Stream", "Rename", "Retry", "Clear",
                          "Ended"}]
  /\ attempt \in [Download -> 1 .. DOWNLOAD_ATTEMPTS]
  /\ have \in [Download -> 0 .. Size] /\ received \in [Download -> 0 .. Size]
  /\ open \in [Download -> File \cup {NoFile}] /\ length \in [File -> 0 .. Size]
  /\ part \in File \cup {NoFile} /\ dest \in File \cup {NoFile}
  /\ stage \in [Download -> {"none", "Ready", "Failed"}] /\ raced \in BOOLEAN

(* Ready of the newest download means that the whole installer is there,   *)
(* whatever was resumed, interrupted or removed by the downloads it has    *)
(* replaced: a `.part` that is gone is found out by the rename and fetched *)
(* anew (stream_once, resume_plan, fetch). Except where a cancelled        *)
(* download was past its last look at the token.                           *)
ReadyIsWhole ==
  started > 0 /\ ~raced /\ stage[started] = "Ready" => IsWhole(dest)
=============================================================================
