-------------------------- MODULE JobsAndLogs_proofs --------------------------
(***************************************************************************)
(* What MCJobsAndLogs checks of the jobs and of the documents, for any     *)
(* sizes, numbers and bounds. Each part has an inductive invariant of its  *)
(* own, which its steps keep and the steps of the others do not touch.     *)
(***************************************************************************)
EXTENDS MCJobsAndLogs, Sequences, FiniteSets, FiniteSetTheorems, SequenceTheorems, TLAPS

-----------------------------------------------------------------------------
(* Queues                                                                   *)

LEMMA Appended ==
  ASSUME NEW S, NEW q \in Seq(S), NEW e \in S
  PROVE  /\ Append(q, e) \in Seq(S) /\ Len(Append(q, e)) = Len(q) + 1 /\ Len(q) \in Nat
         /\ \A i \in 1 .. Len(q) : Append(q, e)[i] = q[i]
         /\ Append(q, e)[Len(q) + 1] = e
  OBVIOUS

LEMMA NoneQueued ==
  ASSUME NEW S, NEW q, q = <<>>
  PROVE  q \in Seq(S) /\ Len(q) = 0
  OBVIOUS

LEMMA Received ==
  ASSUME NEW S, NEW q \in Seq(S), q # <<>>
  PROVE  /\ Head(q) = q[1] /\ Head(q) \in S /\ Len(q) \in Nat \ {0}
         /\ Tail(q) \in Seq(S) /\ Len(Tail(q)) = Len(q) - 1
         /\ \A i \in 1 .. Len(Tail(q)) : Tail(q)[i] = q[i + 1]
  OBVIOUS

-----------------------------------------------------------------------------
(* UpdateDownload                                                           *)

(* Only the download in the slot has not been cancelled, of those that     *)
(* have begun and not ended.                                               *)
OneWriter ==
  /\ slot \in {0, started}
  /\ \A d \in Update!Download :
       /\ d > started <=> downloadPc[d] = "New"
       /\ d \in stopped => d <= started
       /\ d # slot => d \in stopped \/ downloadPc[d] \in {"New", "Ended"}

(* What it has received is what its file has; unless a cancelled download  *)
(* has made one as well, the `.part` is that file or none.                 *)
PartIsOwnOf(d) ==
  /\ downloadPc[d] = "Retry" => attempt[d] < DOWNLOAD_ATTEMPTS
  /\ open[d] # Update!NoFile <=> downloadPc[d] \in {"Stream", "Rename"}
  /\ downloadPc[d] \in {"Stream", "Rename"} /\ d \notin stopped =>
       /\ length[open[d]] = received[d]
       /\ ~overtaken => part \in {Update!NoFile, open[d]}

(* What the newest one has told stays true.                                *)
ReadyStaysOf(d) ==
  /\ stage[d] # "none" <=> downloadPc[d] \in {"Clear", "Ended"}
  /\ d = started /\ ~overtaken /\ stage[d] = "Ready" => Update!IsWhole(dest)

PartIsOwn == \A d \in Update!Download : PartIsOwnOf(d)
ReadyStays == \A d \in Update!Download : ReadyStaysOf(d)

UpdateInv == Update!TypeOK /\ OneWriter /\ PartIsOwn /\ ReadyStays

(* More files than the two paths and the others can have: one is free for  *)
(* a download that has none open.                                          *)
LEMMA FreshIsFree ==
  ASSUME Update!DownloadAssumption, Update!TypeOK,
         NEW d \in Update!Download, open[d] = Update!NoFile
  PROVE  /\ Update!Fresh \in Update!File /\ Update!Fresh \notin {part, dest}
         /\ \A e \in Update!Download : open[e] # Update!Fresh
<1> DEFINE taken == {part, dest} \cup {open[e] : e \in Update!Download}
           holders == (0 .. MaxDownload + 1) \ {d}
           holder == [f \in Update!File |->
                        IF f = part THEN 0 ELSE IF f = dest THEN MaxDownload + 1
                        ELSE CHOOSE e \in Update!Download : open[e] = f]
<1>1. MaxDownload \in Nat /\ d \in 0 .. MaxDownload + 1
  BY DEF Update!DownloadAssumption, Update!Download
<1>2. \E f \in Update!File : f \notin taken
  <2> SUFFICES ASSUME Update!File \subseteq taken
               PROVE  FALSE
    OBVIOUS
  <2>1. IsFiniteSet(Update!File) /\ Cardinality(Update!File) = MaxDownload + 2
    BY <1>1, FS_Interval DEF Update!File
  <2>2. /\ IsFiniteSet(0 .. MaxDownload + 1)
        /\ Cardinality(0 .. MaxDownload + 1) = MaxDownload + 2
    BY <1>1, FS_Interval
  <2>3. IsFiniteSet(holders) /\ Cardinality(holders) = MaxDownload + 1
    <3> DEFINE all == 0 .. MaxDownload + 1
    <3>1. IsFiniteSet(all) /\ Cardinality(all) = MaxDownload + 2 /\ d \in all
      BY <1>1, <2>2
    <3>2. /\ IsFiniteSet(all \ {d})
          /\ Cardinality(all \ {d}) = IF d \in all THEN Cardinality(all) - 1 ELSE Cardinality(all)
      <4> HIDE DEF all
      <4> QED
        BY <3>1, FS_RemoveElement
    <3> QED
      BY <1>1, <3>1, <3>2
  <2>4. ASSUME NEW f \in Update!File, f # part, f # dest
        PROVE  holder[f] \in Update!Download /\ open[holder[f]] = f
    BY <2>4
  <2>5. holder \in [Update!File -> holders]
    <3>1. ASSUME NEW f \in Update!File
          PROVE  holder[f] \in holders
      <4>1. f # Update!NoFile /\ d # 0 /\ d # MaxDownload + 1
        BY <1>1 DEF Update!File, Update!NoFile, Update!Download
      <4>2. CASE f # part /\ f # dest
        <5>1. holder[f] \in Update!Download /\ holder[f] # d
          BY <2>4, <4>1, <4>2
        <5> QED
          BY <1>1, <5>1 DEF Update!Download
      <4>3. CASE f = part \/ f = dest
        BY <1>1, <4>1, <4>3
      <4> QED
        BY <4>2, <4>3
    <3> QED
      BY <3>1
  <2>6. PICK f, g \in Update!File : f # g /\ holder[f] = holder[g]
    <3> HIDE DEF holders, holder
    <3> QED
      BY <1>1, <2>1, <2>3, <2>5, FS_PigeonHole
  <2>7. CASE f \in {part, dest} \/ g \in {part, dest}
    <3>1. \A e \in Update!Download : e # 0 /\ e # MaxDownload + 1
      BY <1>1 DEF Update!Download
    <3>2. \A e \in Update!File : /\ e = part => holder[e] = 0
                                 /\ e = dest /\ e # part => holder[e] = MaxDownload + 1
      OBVIOUS
    <3> QED
      BY <1>1, <2>4, <2>6, <2>7, <3>1, <3>2
  <2>8. CASE f \notin {part, dest} /\ g \notin {part, dest}
    BY <2>4, <2>6, <2>8
  <2> QED
    BY <2>7, <2>8
<1>3. Update!Fresh \in Update!File /\ Update!Fresh \notin taken
  BY <1>2 DEF Update!Fresh
<1> QED
  BY <1>3

LEMMA UpdateInitially ==
  ASSUME Update!DownloadAssumption, Update!Init
  PROVE  UpdateInv
<1>1. Update!TypeOK
  <2>1. MaxDownload \in Nat /\ InstallerSize \in Nat /\ DOWNLOAD_ATTEMPTS \in Nat \ {0}
    BY DEF Update!DownloadAssumption
  <2>2. /\ started \in 0 .. MaxDownload /\ slot \in 0 .. MaxDownload
        /\ 0 \in 0 .. InstallerSize /\ 1 \in 1 .. DOWNLOAD_ATTEMPTS
    BY <2>1 DEF Update!Init
  <2> QED
    BY <2>2 DEF Update!Init, Update!TypeOK, Update!NoFile
<1>2. OneWriter /\ PartIsOwn /\ ReadyStays
  BY DEF Update!Init, OneWriter, PartIsOwn, ReadyStays, PartIsOwnOf, ReadyStaysOf,
         Update!Download, Update!NoFile
<1> QED
  BY <1>1, <1>2 DEF UpdateInv

(* The slot moves on; the download that was in it is cancelled.            *)
LEMMA SlotKeepsUpdate ==
  ASSUME Update!DownloadAssumption, UpdateInv,
         Update!Start \/ Update!Cancel \/ \E d \in Update!Download : Update!Clear(d)
  PROVE  UpdateInv'
<1>1. /\ Update!TypeOK /\ OneWriter /\ PartIsOwn /\ ReadyStays /\ MaxDownload \in Nat
  BY DEF UpdateInv, Update!DownloadAssumption
<1>2. CASE Update!Start
  <2> DEFINE d == started + 1
  <2>1. /\ started \in Nat /\ d \in Update!Download /\ downloadPc[d] = "New" /\ d \notin stopped
        /\ started' = d /\ slot' = d
        /\ stopped' = IF slot = 0 THEN stopped ELSE stopped \cup {slot}
        /\ downloadPc' = [downloadPc EXCEPT ![d] = "Attempt"]
        /\ UNCHANGED <<attempt, have, received, open, length, part, dest, stage, overtaken>>
    BY <1>1, <1>2 DEF Update!Start, Update!Goto, Update!TypeOK, OneWriter, Update!Download
  <2>2. Update!TypeOK'
    <3>1. started' \in 0 .. MaxDownload /\ slot' \in 0 .. MaxDownload
      BY <1>1, <2>1 DEF Update!Download
    <3>2. stopped' \subseteq Update!Download
      BY <1>1, <2>1, SMTT(30) DEF Update!TypeOK, Update!Download
    <3> QED
      BY <1>1, <2>1, <3>1, <3>2 DEF Update!TypeOK
  <2>3. OneWriter'
    BY <1>1, <2>1, SMTT(30) DEF Update!TypeOK, OneWriter, Update!Download
  <2>4. PartIsOwn'
    BY <1>1, <2>1 DEF Update!TypeOK, PartIsOwn, PartIsOwnOf
  <2>5. ReadyStays'
    BY <1>1, <2>1 DEF Update!TypeOK, ReadyStays, ReadyStaysOf, Update!IsWhole
  <2> QED
    BY <2>2, <2>3, <2>4, <2>5 DEF UpdateInv
<1>3. CASE Update!Cancel
  <2>1. Update!TypeOK'
    BY <1>1, <1>3 DEF Update!Cancel, Update!TypeOK, Update!Download, OneWriter
  <2>2. OneWriter' /\ PartIsOwn' /\ ReadyStays'
    BY <1>1, <1>3 DEF Update!Cancel, Update!TypeOK, OneWriter, PartIsOwn, ReadyStays,
                      PartIsOwnOf, ReadyStaysOf, Update!IsWhole, Update!Download
  <2> QED
    BY <2>1, <2>2 DEF UpdateInv
<1>4. ASSUME NEW d \in Update!Download, Update!Clear(d)
      PROVE  UpdateInv'
  <2>1. /\ downloadPc[d] = "Clear" /\ downloadPc' = [downloadPc EXCEPT ![d] = "Ended"]
        /\ slot' = IF slot = d THEN 0 ELSE slot
        /\ UNCHANGED <<started, stopped, attempt, have, received, open, length, part, dest,
                       stage, overtaken>>
    BY <1>4 DEF Update!Clear, Update!Goto
  <2>2. Update!TypeOK'
    BY <1>1, <2>1 DEF Update!TypeOK
  <2>3. OneWriter'
    BY <1>1, <2>1 DEF Update!TypeOK, OneWriter
  <2>4. PartIsOwn' /\ ReadyStays'
    BY <1>1, <2>1 DEF Update!TypeOK, PartIsOwn, ReadyStays, PartIsOwnOf, ReadyStaysOf,
                        Update!IsWhole
  <2> QED
    BY <2>2, <2>3, <2>4 DEF UpdateInv
<1> QED
  BY <1>2, <1>3, <1>4

(* What a step of a download leaves to the others: their programs and what *)
(* they have open; and if it is cancelled, their files, and the two paths, *)
(* or it has overtaken them.                                               *)
StepOf(d) ==
  /\ UNCHANGED <<started, slot, stopped>>
  /\ downloadPc[d] \notin {"New", "Ended"} /\ downloadPc'[d] \notin {"New", "Ended"}
  /\ \A e \in Update!Download \ {d} :
       /\ downloadPc'[e] = downloadPc[e] /\ attempt'[e] = attempt[e]
       /\ open'[e] = open[e] /\ received'[e] = received[e] /\ stage'[e] = stage[e]
  /\ overtaken => overtaken'
  /\ d \in stopped =>
       /\ \A f \in Update!File : f = dest \/ (\E e \in Update!Download \ {d} : open[e] = f) =>
            length'[f] = length[f]
       /\ overtaken' \/ (part' \in {Update!NoFile, part} /\ dest' = dest)

LEMMA OthersKeepTheirs ==
  ASSUME Update!DownloadAssumption, UpdateInv, NEW d \in Update!Download,
         Update!TypeOK', StepOf(d), PartIsOwnOf(d)', ReadyStaysOf(d)'
  PROVE  UpdateInv'
<1>1. /\ Update!TypeOK /\ OneWriter /\ PartIsOwn /\ ReadyStays
  BY DEF UpdateInv
<1>2. OneWriter'
  <2> SUFFICES ASSUME NEW e \in Update!Download
               PROVE  /\ e > started <=> downloadPc'[e] = "New"
                      /\ e \in stopped => e <= started
                      /\ e # slot => e \in stopped \/ downloadPc'[e] \in {"New", "Ended"}
    BY <1>1 DEF OneWriter, StepOf
  <2> QED
    BY <1>1 DEF OneWriter, StepOf
<1>3. ASSUME NEW e \in Update!Download, e # d
      PROVE  PartIsOwnOf(e)'
  <2>1. PartIsOwnOf(e)
    BY <1>1 DEF PartIsOwn
  <2>2. CASE downloadPc[e] \in {"Stream", "Rename"} /\ e \notin stopped
    <3>1. d \in stopped
      BY <1>1, <1>3, <2>2 DEF OneWriter, StepOf
    <3>2. open[e] \in Update!File
      BY <1>1, <2>1, <2>2 DEF PartIsOwnOf, Update!TypeOK
    <3>3. length'[open[e]] = length[open[e]]
      BY <1>3, <3>1, <3>2 DEF StepOf
    <3> QED
      BY <1>3, <2>1, <2>2, <3>1, <3>3 DEF PartIsOwnOf, StepOf
  <2>3. CASE ~(downloadPc[e] \in {"Stream", "Rename"} /\ e \notin stopped)
    BY <1>3, <2>1, <2>3 DEF PartIsOwnOf, StepOf
  <2> QED
    BY <2>2, <2>3
<1>4. ASSUME NEW e \in Update!Download, e # d
      PROVE  ReadyStaysOf(e)'
  <2>1. ReadyStaysOf(e)
    BY <1>1 DEF ReadyStays
  <2>2. CASE e = started /\ ~overtaken' /\ stage[e] = "Ready"
    <3>1. d \in stopped
      BY <1>1, <1>4, <2>2 DEF OneWriter, StepOf, Update!Download
    <3>2. Update!IsWhole(dest) /\ dest' = dest /\ length'[dest] = length[dest]
      <4>1. Update!IsWhole(dest) /\ dest' = dest /\ dest \in Update!File
        BY <1>1, <2>1, <2>2, <3>1 DEF ReadyStaysOf, StepOf, Update!IsWhole, Update!TypeOK
      <4> QED
        BY <3>1, <4>1 DEF StepOf
    <3> QED
      BY <1>4, <2>1, <3>2 DEF ReadyStaysOf, StepOf, Update!IsWhole
  <2>3. CASE ~(e = started /\ ~overtaken' /\ stage[e] = "Ready")
    BY <1>4, <2>1, <2>3 DEF ReadyStaysOf, StepOf
  <2> QED
    BY <2>2, <2>3
<1> QED
  BY <1>2, <1>3, <1>4 DEF UpdateInv, PartIsOwn, ReadyStays

LEMMA RequestKeepsUpdate ==
  ASSUME Update!DownloadAssumption, UpdateInv, NEW d \in Update!Download,
         Update!Retry(d) \/ Update!Attempt(d) \/ Update!Respond(d)
  PROVE  UpdateInv'
<1>1. /\ Update!TypeOK /\ OneWriter /\ PartIsOwnOf(d) /\ ReadyStaysOf(d)
      /\ MaxDownload \in Nat /\ InstallerSize \in Nat \ {0} /\ DOWNLOAD_ATTEMPTS \in Nat \ {0}
      /\ downloadPc[d] \in {"Attempt", "Request", "Retry"}
  BY DEF UpdateInv, Update!DownloadAssumption, PartIsOwn, ReadyStays, Update!Retry,
         Update!Attempt, Update!Respond
<1>2. open[d] = Update!NoFile /\ stage[d] = "none"
  BY <1>1 DEF PartIsOwnOf, ReadyStaysOf
<1>3. /\ Update!Fresh \in Update!File /\ Update!Fresh \notin {part, dest}
      /\ \A e \in Update!Download : open[e] # Update!Fresh
  BY <1>1, <1>2, FreshIsFree
<1>4. CASE Update!Retry(d)
  <2>1. Update!TypeOK'
    BY <1>1, <1>4 DEF Update!Retry, Update!Result, Update!Goto, Update!TypeOK, PartIsOwnOf,
                      Update!slotVars
  <2>2. StepOf(d) /\ PartIsOwnOf(d)' /\ ReadyStaysOf(d)'
    BY <1>1, <1>2, <1>4 DEF Update!Retry, Update!Result, Update!Goto, Update!TypeOK, StepOf,
                            PartIsOwnOf, ReadyStaysOf, Update!slotVars, Update!NoFile
  <2> QED
    BY <1>2, <2>1, <2>2, OthersKeepTheirs
<1>5. CASE Update!Attempt(d)
  <2>1. Update!Length(part) \in 0 .. InstallerSize
    BY <1>1 DEF Update!Length, Update!TypeOK
  <2>2. Update!TypeOK'
    BY <1>1, <1>5, <2>1 DEF Update!Attempt, Update!Result, Update!Goto, Update!TypeOK,
                            Update!slotVars
  <2>3. StepOf(d) /\ PartIsOwnOf(d)' /\ ReadyStaysOf(d)'
    BY <1>1, <1>2, <1>5 DEF Update!Attempt, Update!Result, Update!Goto, Update!TypeOK, StepOf,
                            PartIsOwnOf, ReadyStaysOf, Update!slotVars, Update!NoFile,
                            Update!IsWhole
  <2> QED
    BY <1>2, <2>2, <2>3, OthersKeepTheirs
<1>6. CASE Update!Respond(d)
  <2> DEFINE last == /\ Update!Result(d, "Failed") /\ part' \in {part, Update!NoFile}
                     /\ UNCHANGED <<received, length>>
             again == /\ attempt[d] < DOWNLOAD_ATTEMPTS /\ part' = Update!NoFile
                      /\ Update!Goto(d, "Retry") /\ open' = [open EXCEPT ![d] = Update!NoFile]
                      /\ UNCHANGED <<received, length, stage>>
             anew == /\ part' = Update!Fresh /\ length' = [length EXCEPT ![Update!Fresh] = 0]
                     /\ Update!Opened(d, Update!Fresh, 0)
             on == /\ part # Update!NoFile /\ length[part] = have[d]
                   /\ Update!Opened(d, part, have[d]) /\ UNCHANGED <<length, part>>
  <2>1. /\ last \/ again \/ anew \/ on
        /\ overtaken' = (overtaken \/ (d \in stopped /\ downloadPc'[d] = "Stream"))
        /\ UNCHANGED <<started, slot, stopped, attempt, have, dest>>
    BY <1>6 DEF Update!Respond, Update!TryAgain, Update!slotVars, Update!Length
  <2> HIDE DEF last, again, anew, on
  <2>2. Update!TypeOK' /\ StepOf(d) /\ PartIsOwnOf(d)' /\ ReadyStaysOf(d)'
    <3>1. CASE last
      BY <1>1, <1>2, <2>1, <3>1 DEF last, Update!Result, Update!Goto, Update!TypeOK, StepOf,
                                    PartIsOwnOf, ReadyStaysOf, Update!NoFile
    <3>2. CASE again
      BY <1>1, <1>2, <2>1, <3>2 DEF again, Update!Goto, Update!TypeOK, StepOf,
                                    PartIsOwnOf, ReadyStaysOf, Update!NoFile
    <3>3. CASE anew
      <4>1. Update!Fresh # Update!NoFile
        BY <1>3 DEF Update!File, Update!NoFile
      <4>2. Update!TypeOK'
        BY <1>1, <1>3, <2>1, <3>3 DEF anew, Update!Opened, Update!Goto, Update!TypeOK
      <4> QED
        BY <1>1, <1>2, <1>3, <2>1, <3>3, <4>1, <4>2, ZenonT(40)
          DEF anew, Update!Opened, Update!Goto, Update!TypeOK, StepOf, PartIsOwnOf, ReadyStaysOf
    <3>4. CASE on
      BY <1>1, <1>2, <2>1, <3>4 DEF on, Update!Opened, Update!Goto, Update!TypeOK, StepOf,
                                    PartIsOwnOf, ReadyStaysOf
    <3> QED
      BY <2>1, <3>1, <3>2, <3>3, <3>4
  <2> QED
    BY <1>2, <2>2, OthersKeepTheirs
<1> QED
  BY <1>4, <1>5, <1>6

LEMMA StreamKeepsUpdate ==
  ASSUME Update!DownloadAssumption, UpdateInv, NEW d \in Update!Download,
         Update!Chunk(d) \/ Update!Rename(d)
  PROVE  UpdateInv'
<1>1. /\ Update!TypeOK /\ OneWriter /\ PartIsOwnOf(d) /\ ReadyStaysOf(d)
      /\ InstallerSize \in Nat \ {0} /\ DOWNLOAD_ATTEMPTS \in Nat \ {0}
      /\ downloadPc[d] \in {"Stream", "Rename"}
  BY DEF UpdateInv, Update!DownloadAssumption, PartIsOwn, ReadyStays, Update!Chunk,
         Update!Rename
<1>2. stage[d] = "none" /\ open[d] \in Update!File
  BY <1>1 DEF PartIsOwnOf, ReadyStaysOf, Update!TypeOK
<1> DEFINE failed == /\ Update!Result(d, "Failed") /\ part' \in {part, Update!NoFile}
                     /\ UNCHANGED <<received, length, dest>>
           again == /\ attempt[d] < DOWNLOAD_ATTEMPTS /\ part' = Update!NoFile
                    /\ Update!Goto(d, "Retry") /\ open' = [open EXCEPT ![d] = Update!NoFile]
                    /\ UNCHANGED <<received, length, stage, dest>>
           writes == /\ d \notin stopped /\ received[d] < InstallerSize /\ downloadPc[d] = "Stream"
                     /\ received' = [received EXCEPT ![d] = @ + 1]
                     /\ length' = [length EXCEPT ![open[d]] = @ + 1]
                     /\ UNCHANGED <<downloadPc, part, stage, open, dest>>
           turns == /\ Update!Goto(d, "Rename")
                    /\ UNCHANGED <<received, length, part, stage, open, dest>>
           renames == /\ received[d] = InstallerSize /\ part # Update!NoFile
                      /\ dest' = part /\ part' = Update!NoFile /\ Update!Result(d, "Ready")
                      /\ overtaken' = (overtaken \/ d \in stopped)
                      /\ UNCHANGED <<received, length>>
<1>3. failed \/ again \/ writes \/ turns \/ renames
  BY DEF Update!Chunk, Update!Rename, Update!TryAgain, Update!Verified, Update!slotVars
<1>4. /\ overtaken' \in {overtaken, overtaken \/ d \in stopped}
      /\ UNCHANGED <<started, slot, stopped, attempt, have>>
  BY DEF Update!Chunk, Update!Rename, Update!slotVars
<1> HIDE DEF failed, again, writes, turns, renames
<1>5. Update!TypeOK' /\ StepOf(d) /\ PartIsOwnOf(d)' /\ ReadyStaysOf(d)'
  <2>1. CASE failed
    BY <1>1, <1>2, <1>4, <2>1 DEF failed, Update!Result, Update!Goto, Update!TypeOK, StepOf,
                                  PartIsOwnOf, ReadyStaysOf, Update!NoFile
  <2>2. CASE again
    BY <1>1, <1>2, <1>4, <2>2 DEF again, Update!Goto, Update!TypeOK, StepOf,
                                  PartIsOwnOf, ReadyStaysOf, Update!NoFile
  <2>3. CASE writes
    <3>1. length[open[d]] = received[d]
      BY <1>1, <2>3 DEF writes, PartIsOwnOf
    <3>2. Update!TypeOK'
      BY <1>1, <1>2, <1>4, <2>3, <3>1 DEF writes, Update!TypeOK
    <3> QED
      BY <1>1, <1>2, <1>4, <2>3, <3>1, <3>2
        DEF writes, Update!TypeOK, StepOf, PartIsOwnOf, ReadyStaysOf
  <2>4. CASE turns
    BY <1>1, <1>2, <1>4, <2>4 DEF turns, Update!Goto, Update!TypeOK, StepOf, PartIsOwnOf,
                                  ReadyStaysOf
  <2>5. CASE renames
    <3>1. /\ Update!TypeOK'
          /\ downloadPc' = [downloadPc EXCEPT ![d] = "Clear"]
          /\ open' = [open EXCEPT ![d] = Update!NoFile]
          /\ stage' = [stage EXCEPT ![d] = "Ready"]
      BY <1>1, <1>4, <2>5 DEF renames, Update!Result, Update!Goto, Update!TypeOK
    <3>2. PartIsOwnOf(d)'
      BY <1>1, <3>1 DEF Update!TypeOK, PartIsOwnOf
    <3>3. StepOf(d)
      <4>1. overtaken' = (overtaken \/ d \in stopped) /\ length' = length
        BY <2>5 DEF renames
      <4>2. ASSUME NEW e \in Update!Download \ {d}
            PROVE  /\ downloadPc'[e] = downloadPc[e] /\ open'[e] = open[e] /\ stage'[e] = stage[e]
                   /\ attempt'[e] = attempt[e] /\ received'[e] = received[e]
        BY <1>1, <1>4, <2>5, <3>1 DEF renames, Update!TypeOK
      <4>3. (overtaken => overtaken') /\ (d \in stopped => overtaken')
        BY <4>1
      <4>4. downloadPc'[d] = "Clear"
        BY <1>1, <3>1 DEF Update!TypeOK
      <4>5. \A f \in Update!File : length'[f] = length[f]
        BY <4>1
      <4>6. d \in stopped => overtaken' \/ (part' \in {Update!NoFile, part} /\ dest' = dest)
        BY <4>3
      <4> QED
        BY <1>1, <1>4, <4>2, <4>3, <4>4, <4>5, <4>6, Zenon DEF StepOf
    <3>4. ~overtaken' => Update!IsWhole(dest)'
      BY <1>1, <2>5 DEF renames, PartIsOwnOf, Update!IsWhole
    <3>5. stage'[d] = "Ready" /\ downloadPc'[d] = "Clear"
      BY <1>1, <2>5 DEF renames, Update!Result, Update!Goto, Update!TypeOK
    <3> QED
      BY <3>1, <3>2, <3>3, <3>4, <3>5 DEF ReadyStaysOf
  <2> QED
    BY <1>3, <2>1, <2>2, <2>3, <2>4, <2>5
<1> QED
  BY <1>5, OthersKeepTheirs

LEMMA UpdateKept ==
  ASSUME Update!DownloadAssumption, UpdateInv, Update!Next
  PROVE  UpdateInv'
<1>1. CASE Update!Start \/ Update!Cancel
  BY <1>1, SlotKeepsUpdate
<1>2. ASSUME NEW d \in Update!Download, Update!Step(d)
      PROVE  UpdateInv'
  BY <1>2, SlotKeepsUpdate, RequestKeepsUpdate, StreamKeepsUpdate DEF Update!Step
<1> QED
  BY <1>1, <1>2 DEF Update!Next

LEMMA UpdateAlways == Spec => []UpdateInv
<1>1. Update!DownloadAssumption
  BY JobAssumptions
<1>2. Init => UpdateInv
  BY <1>1, UpdateInitially DEF Init
<1>3. UpdateInv /\ [Next]_vars => UpdateInv'
  <2> SUFFICES ASSUME UpdateInv, [Next]_vars
               PROVE  UpdateInv'
    OBVIOUS
  <2>1. CASE UNCHANGED updateVars
    BY <2>1 DEF updateVars, UpdateInv, Update!TypeOK, OneWriter, PartIsOwn, PartIsOwnOf,
                ReadyStays, ReadyStaysOf, Update!IsWhole
  <2>2. CASE Update!Next
    BY <1>1, <2>2, UpdateKept
  <2> QED
    BY <2>1, <2>2 DEF Next, vars
<1> QED
  BY <1>2, <1>3, PTL DEF Spec

(* What the newest download has told to be ready is there, the whole       *)
(* installer (UpdateDownload).                                             *)
THEOREM InstallerIsWhole == Spec => []ReadyIsWhole
<1>1. UpdateInv => ReadyIsWhole
  <2>1. ASSUME Update!TypeOK, started > 0
        PROVE  started \in Update!Download
    BY <2>1 DEF Update!TypeOK, Update!Download
  <2> QED
    BY <2>1 DEF UpdateInv, ReadyStays, ReadyStaysOf, ReadyIsWhole, Update!ReadyIsWhole
<1> QED
  BY <1>1, UpdateAlways, PTL

-----------------------------------------------------------------------------
(* Transfer                                                                 *)

TransferEvent == [id : Files!Transfers, state : Files!Terminal \cup {"Running"}]

(* What is queued of a transfer, what has been told of it, and what it has *)
(* made of its file, as far as it has come: a terminal event is its last.  *)
EndIsLast(t) ==
  /\ transferPc[t] \notin {"Release", "Ended"} =>
       /\ told[t] \notin Files!Terminal
       /\ \A i \in 1 .. Len(events) : events[i].id = t => events[i].state = "Running"
  /\ \A i \in 1 .. Len(events) :
       events[i].id = t /\ events[i].state \in Files!Terminal =>
         /\ events[i].state = outcome[t]
         /\ \A j \in 1 .. Len(events) : i < j => events[j].id # t
  /\ told[t] \in Files!Terminal =>
       told[t] = outcome[t] /\ \A i \in 1 .. Len(events) : events[i].id # t

FileIsAsTold(t) ==
  /\ transferPc[t] = "Cleanup" => outcome[t] \in {"Failed", "Cancelled"}
  /\ transferPc[t] \in {"Terminal", "Release", "Ended"} =>
       /\ outcome[t] \in Files!Terminal
       /\ t \in Pulls \ stuck =>
            IF outcome[t] = "Done" THEN file[t] = "whole" ELSE file[t] # "partial"

TransferInv ==
  /\ Files!TypeOK /\ events \in Seq(TransferEvent)
  /\ \A t \in Files!Transfers : EndIsLast(t) /\ FileIsAsTold(t)

LEMMA TransferInitially ==
  ASSUME Files!TransferAssumption, Files!Init
  PROVE  TransferInv
<1>1. EventCap \in Nat \ {0} /\ MaxProgress \in Nat
  BY DEF Files!TransferAssumption
<1>2. events \in Seq(TransferEvent) /\ Len(events) = 0
  BY NoneQueued DEF Files!Init
<1>3. Files!TypeOK
  BY <1>1, <1>2 DEF Files!Init, Files!TypeOK, Files!Terminal
<1>4. ASSUME NEW t \in Files!Transfers
      PROVE  EndIsLast(t) /\ FileIsAsTold(t)
  BY <1>2 DEF Files!Init, EndIsLast, FileIsAsTold, Files!Terminal
<1> QED
  BY <1>2, <1>3, <1>4 DEF TransferInv

(* A step of a transfer keeps what is said of the others, and what it      *)
(* queues is its own.                                                      *)
OnlyOf(t) ==
  /\ events' \in Seq(TransferEvent)
  /\ \/ events' = events
     \/ \E e \in TransferEvent : e.id = t /\ events' = Append(events, e)
  /\ \A u \in Files!Transfers \ {t} :
       transferPc'[u] = transferPc[u] /\ outcome'[u] = outcome[u] /\ file'[u] = file[u]
  /\ UNCHANGED <<told, stuck>>

LEMMA OthersKeepTheirEnds ==
  ASSUME TransferInv, NEW t \in Files!Transfers,
         Files!TypeOK', OnlyOf(t), EndIsLast(t)', FileIsAsTold(t)'
  PROVE  TransferInv'
<1>1. ASSUME NEW u \in Files!Transfers, u # t
      PROVE  EndIsLast(u)'
  <2>1. EndIsLast(u) /\ events \in Seq(TransferEvent)
    BY DEF TransferInv
  <2>2. transferPc'[u] = transferPc[u] /\ outcome'[u] = outcome[u] /\ told' = told
    BY <1>1 DEF OnlyOf
  <2>3. CASE events' = events
    BY <2>1, <2>2, <2>3 DEF EndIsLast
  <2>4. ASSUME NEW e \in TransferEvent, e.id = t, events' = Append(events, e)
        PROVE  EndIsLast(u)'
    <3>1. /\ Len(events) \in Nat /\ Len(events') = Len(events) + 1
          /\ \A i \in 1 .. Len(events) : events'[i] = events[i]
          /\ events'[Len(events) + 1].id # u
      BY <1>1, <2>1, <2>4, Appended
    <3> QED
      BY <2>1, <2>2, <3>1 DEF EndIsLast
  <2> QED
    BY <2>3, <2>4 DEF OnlyOf
<1>2. ASSUME NEW u \in Files!Transfers, u # t
      PROVE  FileIsAsTold(u)'
  BY <1>2 DEF TransferInv, OnlyOf, FileIsAsTold
<1> QED
  BY <1>1, <1>2 DEF TransferInv, OnlyOf

LEMMA TransferKept ==
  ASSUME Files!TransferAssumption, TransferInv, Files!Next
  PROVE  TransferInv'
<1>1. /\ EventCap \in Nat \ {0} /\ MaxProgress \in Nat
      /\ Files!TypeOK /\ events \in Seq(TransferEvent)
      /\ \A t \in Files!Transfers : EndIsLast(t) /\ FileIsAsTold(t)
      /\ Pulls \subseteq Files!Transfers
  BY DEF Files!TransferAssumption, TransferInv, Files!Transfers
<1>2. ASSUME NEW t \in Files!Transfers, Files!Begin(t) \/ Files!Cancel(t) \/ Files!Recheck(t)
      PROVE  TransferInv'
  <2>1. Files!TypeOK'
    BY <1>1, <1>2 DEF Files!Begin, Files!Cancel, Files!Recheck, Files!Unsuccessful, Files!Goto,
                      Files!TypeOK, Files!Terminal
  <2>2. OnlyOf(t)
    BY <1>1, <1>2 DEF Files!Begin, Files!Cancel, Files!Recheck, Files!Unsuccessful, Files!Goto,
                      Files!TypeOK, OnlyOf
  <2>3. EndIsLast(t)' /\ FileIsAsTold(t)'
    BY <1>1, <1>2 DEF Files!Begin, Files!Cancel, Files!Recheck, Files!Unsuccessful, Files!Goto,
                      Files!TypeOK, Files!Terminal, EndIsLast, FileIsAsTold
  <2> QED
    BY <2>1, <2>2, <2>3, OthersKeepTheirEnds
<1>3. ASSUME NEW t \in Files!Transfers, Files!Announce(t) \/ Files!Progress(t)
      PROVE  TransferInv'
  <2> DEFINE e == [id |-> t, state |-> "Running"]
  <2>1. e \in TransferEvent
    BY DEF TransferEvent
  <2>2. \/ events' = events /\ UNCHANGED told
        \/ events' = Append(events, e) /\ Len(events) < EventCap /\ UNCHANGED told
    BY <1>3 DEF Files!Announce, Files!Progress, Files!Emit, Files!TryEmit
  <2>3. /\ events' \in Seq(TransferEvent) /\ Len(events') <= EventCap
        /\ events' = events \/ events' = Append(events, e)
    <3>1. Len(events) <= EventCap
      BY <1>1 DEF Files!TypeOK
    <3>2. CASE events' = Append(events, e) /\ Len(events) < EventCap
      <4>1. /\ Append(events, e) \in Seq(TransferEvent)
            /\ Len(Append(events, e)) = Len(events) + 1 /\ Len(events) \in Nat
        BY <1>1, <2>1, Appended
      <4> QED
        BY <1>1, <3>2, <4>1
    <3> QED
      BY <1>1, <2>2, <3>1, <3>2
  <2>4. Files!TypeOK'
    <3>1. CASE Files!Announce(t)
      BY <1>1, <2>3, <3>1 DEF Files!Announce, Files!Goto, Files!TypeOK
    <3>2. CASE Files!Progress(t)
      <4>1. lines' \in [Files!Transfers -> 0 .. MaxProgress]
        BY <1>1, <3>2 DEF Files!Progress, Files!TypeOK
      <4> QED
        BY <1>1, <2>3, <3>2, <4>1 DEF Files!Progress, Files!TypeOK
    <3> QED
      BY <1>3, <3>1, <3>2
  <2>5. OnlyOf(t)
    BY <1>1, <1>3, <2>1, <2>3 DEF Files!Announce, Files!Progress, Files!Goto, Files!TypeOK, OnlyOf
  <2>6. /\ transferPc[t] \in {"Announce", "Stream"} /\ transferPc'[t] \in {"Announce", "Stream"}
        /\ UNCHANGED <<told, outcome>>
    BY <1>1, <1>3 DEF Files!Announce, Files!Progress, Files!Goto, Files!TypeOK
  <2>7. \A i \in 1 .. Len(events') : events'[i].id = t => events'[i].state = "Running"
    <3>1. \A i \in 1 .. Len(events) : events[i].id = t => events[i].state = "Running"
      BY <1>1, <2>6 DEF EndIsLast
    <3>2. CASE events' = Append(events, e)
      BY <1>1, <2>1, <3>1, <3>2, Appended
    <3> QED
      BY <2>3, <3>1, <3>2
  <2>8. EndIsLast(t)' /\ FileIsAsTold(t)'
    BY <1>1, <2>6, <2>7 DEF EndIsLast, FileIsAsTold, Files!Terminal
  <2> QED
    BY <2>4, <2>5, <2>8, OthersKeepTheirEnds
<1>4. ASSUME NEW t \in Files!Transfers, Files!StreamEnds(t) \/ Files!Cleanup(t)
      PROVE  TransferInv'
  <2>1. Files!TypeOK'
    BY <1>1, <1>4 DEF Files!StreamEnds, Files!Cleanup, Files!Unsuccessful, Files!Goto,
                      Files!TypeOK, Files!Terminal
  <2>2. OnlyOf(t)
    BY <1>1, <1>4 DEF Files!StreamEnds, Files!Cleanup, Files!Unsuccessful, Files!Goto,
                      Files!TypeOK, OnlyOf
  <2>3. EndIsLast(t)'
    BY <1>1, <1>4 DEF Files!StreamEnds, Files!Cleanup, Files!Unsuccessful, Files!Goto,
                      Files!TypeOK, Files!Terminal, EndIsLast
  <2>4. FileIsAsTold(t)'
    BY <1>1, <1>4 DEF Files!StreamEnds, Files!Cleanup, Files!Unsuccessful, Files!Goto,
                      Files!TypeOK, Files!Terminal, FileIsAsTold
  <2> QED
    BY <2>1, <2>2, <2>3, <2>4, OthersKeepTheirEnds
<1>5. ASSUME NEW t \in Files!Transfers, Files!Tell(t)
      PROVE  TransferInv'
  <2> DEFINE e == [id |-> t, state |-> outcome[t]]
  <2>1. /\ transferPc[t] = "Terminal" /\ outcome[t] \in Files!Terminal
        /\ transferPc' = [transferPc EXCEPT ![t] = "Release"]
        /\ Len(events) < EventCap /\ events' = Append(events, e)
        /\ UNCHANGED <<ids, killed, file, stuck, lines, outcome, told>>
    BY <1>1, <1>5 DEF Files!Tell, Files!Emit, Files!Goto, FileIsAsTold
  <2>2. e \in TransferEvent
    BY <2>1 DEF TransferEvent
  <2>3. /\ events' \in Seq(TransferEvent) /\ Len(events') = Len(events) + 1
        /\ Len(events) \in Nat /\ events'[Len(events) + 1] = e
        /\ \A i \in 1 .. Len(events) : events'[i] = events[i]
    BY <1>1, <2>1, <2>2, Appended
  <2>4. Files!TypeOK'
    BY <1>1, <2>1, <2>3 DEF Files!TypeOK
  <2>5. OnlyOf(t)
    BY <1>1, <2>1, <2>2, <2>3 DEF Files!TypeOK, OnlyOf
  <2>6. EndIsLast(t)'
    <3>1. /\ told[t] \notin Files!Terminal
          /\ \A i \in 1 .. Len(events) : events[i].id = t => events[i].state = "Running"
      BY <1>1, <2>1 DEF EndIsLast
    <3>2. "Running" \notin Files!Terminal
      BY DEF Files!Terminal
    <3>3. transferPc'[t] = "Release"
      BY <1>1, <2>1 DEF Files!TypeOK
    <3>4. ASSUME NEW i \in 1 .. Len(events'), events'[i].id = t,
                 events'[i].state \in Files!Terminal
          PROVE  i = Len(events') /\ events'[i].state = outcome[t]
      BY <2>3, <3>1, <3>2, <3>4
    <3> QED
      BY <2>1, <2>3, <3>1, <3>3, <3>4 DEF EndIsLast
  <2>7. FileIsAsTold(t)'
    BY <1>1, <2>1 DEF Files!TypeOK, FileIsAsTold
  <2> QED
    BY <2>4, <2>5, <2>6, <2>7, OthersKeepTheirEnds
<1>6. ASSUME NEW t \in Files!Transfers, Files!Release(t)
      PROVE  TransferInv'
  <2>1. Files!TypeOK' /\ OnlyOf(t) /\ EndIsLast(t)' /\ FileIsAsTold(t)'
    BY <1>1, <1>6 DEF Files!Release, Files!Goto, Files!TypeOK, OnlyOf, EndIsLast, FileIsAsTold
  <2> QED
    BY <2>1, OthersKeepTheirEnds
<1>7. CASE Files!Deliver
  <2> DEFINE e == Head(events)
  <2>1. /\ e = events[1] /\ e \in TransferEvent /\ Len(events) \in Nat \ {0}
        /\ events' \in Seq(TransferEvent) /\ Len(events') = Len(events) - 1
        /\ \A i \in 1 .. Len(events') : events'[i] = events[i + 1]
        /\ told' = [told EXCEPT ![e.id] = e.state]
        /\ UNCHANGED <<transferPc, ids, killed, file, stuck, lines, outcome>>
    BY <1>1, <1>7, Received DEF Files!Deliver
  <2>2. e.id \in Files!Transfers /\ e.state \in Files!Terminal \cup {"Running"}
    BY <2>1 DEF TransferEvent
  <2> HIDE DEF e
  <2>3. Files!TypeOK'
    BY <1>1, <2>1, <2>2 DEF Files!TypeOK
  <2>4. ASSUME NEW t \in Files!Transfers
        PROVE  EndIsLast(t)'
    <3>1. EndIsLast(t) /\ 1 \in 1 .. Len(events)
      BY <1>1, <2>1
    <3>2. \A i \in 1 .. Len(events') : i + 1 \in 1 .. Len(events) /\ 1 < i + 1
      BY <2>1
    <3>3. CASE e.id # t
      <4>1. told'[t] = told[t]
        BY <1>1, <2>1, <3>3 DEF Files!TypeOK
      <4>2. \A i, j \in 1 .. Len(events') : i < j => i + 1 < j + 1
        BY <2>1
      <4> QED
        BY <2>1, <3>1, <3>2, <4>1, <4>2, SMTT(30) DEF EndIsLast
    <3>4. CASE e.id = t
      <4>1. told'[t] = e.state
        BY <1>1, <2>1, <3>4 DEF Files!TypeOK
      <4>2. \A i, j \in 1 .. Len(events') : i < j => i + 1 < j + 1
        BY <2>1
      <4>3. told[t] \notin Files!Terminal
        BY <2>1, <3>1, <3>4 DEF EndIsLast
      <4>4. e.state \in Files!Terminal =>
              /\ transferPc[t] \in {"Release", "Ended"} /\ e.state = outcome[t]
              /\ \A i \in 1 .. Len(events') : events'[i].id # t
        BY <2>1, <3>1, <3>2, <3>4 DEF EndIsLast, Files!Terminal
      <4> QED
        BY <2>1, <3>1, <3>2, <4>1, <4>2, <4>3, <4>4, SMTT(30) DEF EndIsLast
    <3> QED
      BY <3>3, <3>4
  <2>5. ASSUME NEW t \in Files!Transfers
        PROVE  FileIsAsTold(t)'
    BY <1>1, <2>1 DEF FileIsAsTold
  <2> QED
    BY <2>1, <2>3, <2>4, <2>5 DEF TransferInv
<1> QED
  BY <1>2, <1>3, <1>4, <1>5, <1>6, <1>7 DEF Files!Next, Files!TransferStep

LEMMA TransferAlways == Spec => []TransferInv
<1>1. Files!TransferAssumption
  BY JobAssumptions
<1>2. Init => TransferInv
  BY <1>1, TransferInitially DEF Init
<1>3. TransferInv /\ [Next]_vars => TransferInv'
  <2> SUFFICES ASSUME TransferInv, [Next]_vars
               PROVE  TransferInv'
    OBVIOUS
  <2>1. CASE UNCHANGED transferVars
    BY <2>1 DEF transferVars, TransferInv, Files!TypeOK, EndIsLast, FileIsAsTold
  <2>2. CASE Files!Next
    BY <1>1, <2>2, TransferKept
  <2> QED
    BY <2>1, <2>2 DEF Next, vars
<1> QED
  BY <1>2, <1>3, PTL DEF Spec

-----------------------------------------------------------------------------
(* ProcessRunner                                                            *)

Counters ==
  /\ wrote \in [Process!Pipe -> Nat] /\ read \in [Process!Pipe -> Nat]
  /\ chan \in [Process!Pipe -> Nat] /\ got \in [Process!Pipe -> Nat]

(* A pipe is closed when all has been written to it.                       *)
ChildWritesAll ==
  /\ turn # "none" => turn \in pipes /\ wrote[turn] < Process!Size[turn]
  /\ \A p \in Process!Pipe \ pipes : wrote[p] = Process!Size[p]

(* A pump ends at the end of its pipe or fails; its lines are over when    *)
(* its channel is empty. Only logcat goes on without its stderr.           *)
PumpsEnd ==
  /\ (mode = "capture" <=> pump["out"] # "none") /\ pump["err"] # "none"
  /\ \A p \in Process!Pipe :
       /\ pump[p] \in {"done", "joined"} => p \notin pipes /\ read[p] = wrote[p]
       /\ pump[p] = "lost" => p = "err" /\ mode = "follow"
       /\ drained[p] => pump[p] \notin {"reading", "done", "failed"}
       /\ drained[p] /\ pump[p] = "joined" => chan[p] = 0
       /\ drained[p] /\ pump[p] = "none" => p \notin pipes /\ read[p] = wrote[p]

(* What has left a pipe is in the channel of its pump or handed on; a line *)
(* of stdout is two pieces of it.                                          *)
PiecesAreKept ==
  LET none == pump["out"] = "none"
      n == got["out"] + chan["out"] IN
  /\ got["err"] + chan["err"] <= read["err"]
  /\ pump["err"] \in {"reading", "done", "joined"} => got["err"] + chan["err"] = read["err"]
  /\ 2 * n <= read["out"]
  /\ pump["out"] \in {"reading", "done", "joined"} => read["out"] <= 2 * n + 1
  /\ none => chan["out"] = 0
  /\ none /\ runnerPc \in {"loop", "sendErr", "wait"} => read["out"] <= 2 * n + 1
  /\ none /\ runnerPc = "sendOut" => read["out"] = 2 * n + 2
  /\ runnerPc = "sendOut" => none

ExitIsLast ==
  /\ runnerPc = "wait" =>
       \A p \in Process!Pipe : drained[p] /\ pump[p] \in {"none", "joined", "lost"}
  /\ runOutcome = "exit" => runnerPc = "done"
  /\ Process!OutputIsWhole

ProcessInv ==
  Process!TypeOK /\ Counters /\ ChildWritesAll /\ PumpsEnd /\ PiecesAreKept /\ ExitIsLast

(* What the bounds are, and what of the two pipes can be read off.         *)
LEMMA ProcessFacts ==
  ASSUME Process!RunnerAssumption
  PROVE  /\ OutLines \in Nat /\ ErrLines \in Nat
         /\ PipeCap \in Nat \ {0} /\ ChanCap \in Nat \ {0} /\ LineCap \in Nat \ {0}
         /\ Process!Size["out"] = 2 * OutLines /\ Process!Size["err"] = ErrLines
         /\ \A p \in Process!Pipe : Process!Size[p] \in Nat
         /\ Process!Pipe = {"out", "err"}
  BY DEF Process!RunnerAssumption, Process!Size, Process!Pipe

(* The pieces of a line are told apart by the parity of the count.         *)
LEMMA Halves ==
  ASSUME NEW n \in Nat, NEW r \in Nat, 2 * n <= r, r <= 2 * n + 1
  PROVE  r % 2 = 0 <=> r = 2 * n
  OBVIOUS

LEMMA ProcessInitially ==
  ASSUME Process!RunnerAssumption, Process!Init
  PROVE  ProcessInv
<1>1. /\ wrote = [p \in Process!Pipe |-> 0] /\ read = [p \in Process!Pipe |-> 0]
      /\ chan = [p \in Process!Pipe |-> 0] /\ got = [p \in Process!Pipe |-> 0]
      /\ drained = [p \in Process!Pipe |-> FALSE]
      /\ pump["out"] = (IF mode = "capture" THEN "reading" ELSE "none")
      /\ pump["err"] = "reading"
      /\ turn = "none" /\ pipes = Process!Pipe /\ runnerPc = "loop" /\ runOutcome = "none"
  BY DEF Process!Init
<1>2. Process!TypeOK
  <2>1. pump \in [Process!Pipe -> {"none", "reading", "done", "failed", "joined", "lost", "aborted"}]
    BY DEF Process!Init, Process!Pipe
  <2>2. \A p \in Process!Pipe : wrote[p] = 0 /\ read[p] = 0 /\ chan[p] = 0 /\ got[p] = 0
    BY <1>1
  <2>3. \A p \in Process!Pipe :
          /\ read[p] \in 0 .. wrote[p] /\ wrote[p] \in 0 .. Process!Size[p]
          /\ wrote[p] - read[p] <= PipeCap /\ chan[p] \in 0 .. ChanCap
          /\ got[p] \in 0 .. Process!Size[p]
    BY <2>2, ProcessFacts
  <2>4. /\ mode \in {"capture", "follow", "joined"} /\ child = "running"
        /\ held = FALSE /\ whole = TRUE /\ cut = FALSE /\ lineChan = 0
        /\ consumer = TRUE /\ token = FALSE
    BY DEF Process!Init
  <2>5. lineChan \in 0 .. LineCap /\ drained \in [Process!Pipe -> BOOLEAN]
    BY <1>1, <2>4, ProcessFacts
  <2> QED
    BY <1>1, <2>1, <2>3, <2>4, <2>5 DEF Process!TypeOK, Process!Outcome
<1>3. Counters /\ ChildWritesAll
  BY <1>1 DEF Counters, ChildWritesAll
<1>4. PumpsEnd
  BY <1>1, ProcessFacts DEF PumpsEnd
<1>5. PiecesAreKept
  BY <1>1, ProcessFacts DEF PiecesAreKept
<1>6. ExitIsLast
  BY <1>1 DEF ExitIsLast, Process!OutputIsWhole
<1> QED
  BY <1>2, <1>3, <1>4, <1>5, <1>6 DEF ProcessInv

LEMMA ChildKeepsProcess ==
  ASSUME Process!RunnerAssumption, ProcessInv, Process!ChildStep \/ Process!Hang
  PROVE  ProcessInv'
<1>1. /\ Process!TypeOK /\ Counters /\ ChildWritesAll /\ PumpsEnd /\ PiecesAreKept /\ ExitIsLast
  BY DEF ProcessInv
<1>2. CASE Process!Exit \/ Process!Hang \/ \E p \in Process!Pipe : Process!Turn(p)
  <2>1. UNCHANGED <<mode, pipes, wrote, read, Process!runVars>> /\ turn' \in Process!Pipe \cup {"none"}
    BY <1>1, <1>2 DEF Process!Exit, Process!Hang, Process!Turn, Process!TypeOK
  <2>2. Process!TypeOK'
    BY <1>1, <1>2, <2>1 DEF Process!Exit, Process!Hang, Process!Turn, Process!TypeOK,
                            Process!runVars
  <2>3. Counters' /\ PumpsEnd' /\ PiecesAreKept' /\ ExitIsLast'
    BY <1>1, <2>1 DEF Counters, PumpsEnd, PiecesAreKept, ExitIsLast, Process!OutputIsWhole,
                      Process!runVars
  <2>4. ChildWritesAll'
    BY <1>1, <1>2, <2>1 DEF Process!Exit, Process!Hang, Process!Turn, ChildWritesAll
  <2> QED
    BY <2>2, <2>3, <2>4 DEF ProcessInv
<1>3. ASSUME NEW p \in Process!Pipe, Process!Close(p)
      PROVE  ProcessInv'
  <2>1. /\ pipes' = pipes \ {p} /\ wrote[p] = Process!Size[p]
        /\ UNCHANGED <<mode, child, turn, wrote, read, Process!runVars>>
    BY <1>3 DEF Process!Close
  <2>2. Process!TypeOK'
    BY <1>1, <2>1 DEF Process!TypeOK, Process!runVars
  <2>3. Counters' /\ PumpsEnd' /\ PiecesAreKept' /\ ExitIsLast'
    BY <1>1, <2>1 DEF Counters, PumpsEnd, PiecesAreKept, ExitIsLast, Process!OutputIsWhole,
                      Process!runVars
  <2>4. ChildWritesAll'
    BY <1>1, <2>1, ProcessFacts DEF ChildWritesAll
  <2> QED
    BY <2>2, <2>3, <2>4 DEF ProcessInv
<1>4. ASSUME NEW p \in Process!Pipe, Process!Write(p)
      PROVE  ProcessInv'
  <2>1. /\ p \in pipes /\ wrote[p] < Process!Size[p] /\ wrote[p] - read[p] < PipeCap
        /\ wrote' = [wrote EXCEPT ![p] = @ + 1] /\ turn' = "none"
        /\ \/ read' = read
           \/ read' = [read EXCEPT ![p] = @ + 1] /\ p = "err" /\ pump[p] \in {"failed", "lost"}
        /\ UNCHANGED <<mode, child, pipes, Process!runVars>>
    BY <1>1, <1>4, ProcessFacts DEF Process!Write, Process!Unread, ChildWritesAll
  <2>2. Counters'
    <3>1. UNCHANGED <<chan, got>>
      BY <2>1 DEF Process!runVars
    <3>2. wrote' \in [Process!Pipe -> Nat]
      BY <1>1, <2>1 DEF Counters
    <3>3. read' \in [Process!Pipe -> Nat]
      BY <1>1, <2>1 DEF Counters
    <3> QED
      BY <1>1, <3>1, <3>2, <3>3 DEF Counters
  <2>3. \A q \in Process!Pipe : /\ read'[q] \in 0 .. wrote'[q] /\ wrote'[q] \in 0 .. Process!Size[q]
                                /\ wrote'[q] - read'[q] <= PipeCap
    BY <1>1, <2>1, ProcessFacts DEF Process!TypeOK, Counters
  <2>4. Process!TypeOK'
    BY <1>1, <2>1, <2>3 DEF Process!TypeOK, Process!runVars
  <2>5. ChildWritesAll'
    BY <1>1, <2>1 DEF ChildWritesAll, Counters
  <2>6. PumpsEnd'
    BY <1>1, <2>1 DEF PumpsEnd, Counters, Process!runVars
  <2>7. PiecesAreKept'
    BY <1>1, <2>1, ProcessFacts DEF PiecesAreKept, Counters, Process!runVars
  <2>8. ExitIsLast'
    BY <1>1, <2>1 DEF ExitIsLast, Process!OutputIsWhole, Process!runVars
  <2> QED
    BY <2>2, <2>4, <2>5, <2>6, <2>7, <2>8 DEF ProcessInv
<1> QED
  BY <1>2, <1>3, <1>4 DEF Process!ChildStep

LEMMA PumpKeepsProcess ==
  ASSUME Process!RunnerAssumption, ProcessInv, NEW p \in Process!Pipe, Process!PumpStep(p)
  PROVE  ProcessInv'
<1>1. /\ Process!TypeOK /\ Counters /\ ChildWritesAll /\ PumpsEnd /\ PiecesAreKept /\ ExitIsLast
  BY DEF ProcessInv
<1>2. /\ pump[p] = "reading" /\ (p = "out" => mode = "capture")
      /\ runnerPc # "wait" /\ ~drained[p]
      /\ UNCHANGED <<mode, Process!childVars, drained, got, held, whole, cut, lineChan, consumer,
                     token, runnerPc, runOutcome>>
  BY <1>1 DEF Process!PumpStep, Process!PumpLine, Process!PumpEnd, PumpsEnd, ExitIsLast
<1>3. CASE Process!PumpLine(p)
  <2>1. /\ read[p] < wrote[p] /\ chan[p] < ChanCap
        /\ read' = [read EXCEPT ![p] = @ + 1]
        /\ \/ /\ chan' = chan /\ p = "out" /\ read[p] % 2 = 0
           \/ /\ chan' = [chan EXCEPT ![p] = @ + 1] /\ (p = "out" => read[p] % 2 # 0)
        /\ UNCHANGED pump
    BY <1>3 DEF Process!PumpLine
  <2>2. Counters'
    BY <1>1, <1>2, <2>1 DEF Counters, Process!childVars
  <2>3. \A q \in Process!Pipe : /\ read'[q] \in 0 .. wrote[q] /\ chan'[q] \in 0 .. ChanCap
                                /\ wrote[q] - read'[q] <= PipeCap
    BY <1>1, <2>1, ProcessFacts DEF Process!TypeOK, Counters
  <2>4. Process!TypeOK'
    BY <1>1, <1>2, <2>1, <2>3 DEF Process!TypeOK, Process!childVars
  <2>5. ChildWritesAll' /\ ExitIsLast'
    BY <1>1, <1>2, <2>1 DEF ChildWritesAll, ExitIsLast, Process!OutputIsWhole, Process!childVars
  <2>6. PumpsEnd'
    BY <1>1, <1>2, <2>1 DEF PumpsEnd, Counters, Process!childVars
  <2>7. PiecesAreKept'
    <3>1. /\ got' = got /\ pump' = pump /\ runnerPc' = runnerPc
          /\ got["out"] \in Nat /\ chan["out"] \in Nat /\ read["out"] \in Nat
          /\ got["err"] \in Nat /\ chan["err"] \in Nat /\ read["err"] \in Nat
      BY <1>1, <1>2, <2>1, ProcessFacts DEF Counters
    <3>2. CASE p = "err"
      BY <1>1, <2>1, <3>1, <3>2, ProcessFacts DEF PiecesAreKept, Counters
    <3>3. CASE p = "out"
      <4>1. read["out"] % 2 = 0 <=> read["out"] = 2 * (got["out"] + chan["out"])
        BY <1>1, <1>2, <3>1, <3>3, Halves DEF PiecesAreKept
      <4>2. CASE chan' = chan /\ read["out"] % 2 = 0
        BY <1>1, <1>2, <2>1, <3>1, <3>3, <4>1, <4>2, ProcessFacts DEF PiecesAreKept, Counters
      <4>3. CASE chan' = [chan EXCEPT ![p] = @ + 1] /\ read["out"] % 2 # 0
        BY <1>1, <1>2, <2>1, <3>1, <3>3, <4>1, <4>3, ProcessFacts DEF PiecesAreKept, Counters
      <4> QED
        BY <2>1, <3>3, <4>2, <4>3
    <3> QED
      BY <3>2, <3>3, ProcessFacts
  <2> QED
    BY <2>2, <2>4, <2>5, <2>6, <2>7 DEF ProcessInv
<1>4. CASE Process!PumpEnd(p)
  <2>1. /\ \/ /\ Process!Eof(p) /\ pump' = [pump EXCEPT ![p] = "done"] /\ UNCHANGED read
           \/ pump' = [pump EXCEPT ![p] = "failed"] /\ read' = [read EXCEPT ![p] = wrote[p]]
        /\ UNCHANGED chan
    BY <1>4 DEF Process!PumpEnd
  <2>2. Counters'
    BY <1>1, <1>2, <2>1 DEF Counters, Process!childVars
  <2>3. \A q \in Process!Pipe : read'[q] \in 0 .. wrote[q] /\ wrote[q] - read'[q] <= PipeCap
    BY <1>1, <2>1, ProcessFacts DEF Process!TypeOK, Counters
  <2>4. Process!TypeOK'
    BY <1>1, <1>2, <2>1, <2>3 DEF Process!TypeOK, Process!childVars
  <2>5. /\ pump' \in [Process!Pipe -> {"none", "reading", "done", "failed", "joined", "lost",
                                       "aborted"}]
        /\ \A q \in Process!Pipe \ {p} : pump'[q] = pump[q] /\ read'[q] = read[q]
        /\ \/ Process!Eof(p) /\ pump'[p] = "done" /\ read'[p] = read[p]
           \/ pump'[p] = "failed" /\ read'[p] = wrote[p]
        /\ UNCHANGED <<mode, pipes, turn, wrote, chan, got, drained, runnerPc, runOutcome>>
    BY <1>1, <1>2, <2>1 DEF Process!TypeOK, Counters, Process!childVars
  <2>6. ChildWritesAll' /\ ExitIsLast'
    <3>1. ChildWritesAll'
      BY <1>1, <2>5 DEF ChildWritesAll
    <3>2. pump["err"] = "lost" => pump'["err"] = "lost"
      BY <1>2, <2>5, ProcessFacts
    <3> QED
      BY <1>1, <1>2, <2>5, <3>1, <3>2 DEF ExitIsLast, Process!OutputIsWhole
  <2>7. PumpsEnd'
    <3>1. (mode = "capture" <=> pump'["out"] # "none") /\ pump'["err"] # "none"
      BY <1>1, <1>2, <2>5, ProcessFacts DEF PumpsEnd
    <3>2. ASSUME NEW q \in Process!Pipe
          PROVE  /\ pump'[q] \in {"done", "joined"} => q \notin pipes /\ read'[q] = wrote[q]
                 /\ pump'[q] = "lost" => q = "err" /\ mode = "follow"
                 /\ drained[q] => pump'[q] \notin {"reading", "done", "failed"}
                 /\ drained[q] /\ pump'[q] = "joined" => chan[q] = 0
                 /\ drained[q] /\ pump'[q] = "none" => q \notin pipes /\ read'[q] = wrote[q]
      <4>1. CASE q = p
        BY <1>2, <2>5, <4>1 DEF Process!Eof
      <4>2. CASE q # p
        BY <1>1, <2>5, <4>2 DEF PumpsEnd
      <4> QED
        BY <4>1, <4>2
    <3> QED
      BY <2>5, <3>1, <3>2 DEF PumpsEnd
  <2>8. PiecesAreKept'
    <3>1. read[p] <= wrote[p] /\ read[p] \in Nat /\ wrote[p] \in Nat
      BY <1>1 DEF Process!TypeOK, Counters
    <3>2. CASE p = "err"
      BY <1>1, <1>2, <2>5, <3>1, <3>2, ProcessFacts DEF PiecesAreKept, Counters
    <3>3. CASE p = "out"
      BY <1>1, <1>2, <2>5, <3>1, <3>3, ProcessFacts DEF PiecesAreKept, Counters
    <3> QED
      BY <3>2, <3>3, ProcessFacts
  <2> QED
    BY <2>2, <2>4, <2>6, <2>7, <2>8 DEF ProcessInv
<1> QED
  BY <1>3, <1>4 DEF Process!PumpStep

LEMMA StopKeepsProcess ==
  ASSUME Process!RunnerAssumption, ProcessInv,
         NEW why \in {"cancelled", "timeout", "failed"}, Process!Stop(why), held' \in BOOLEAN
  PROVE  ProcessInv'
<1>1. /\ Process!TypeOK /\ Counters /\ ChildWritesAll /\ PumpsEnd /\ PiecesAreKept /\ ExitIsLast
  BY DEF ProcessInv
<1>2. /\ pump' \in [Process!Pipe -> {"none", "reading", "done", "failed", "joined", "lost",
                                     "aborted"}]
      /\ \A p \in Process!Pipe : pump'[p] \in {pump[p], "aborted"} \ {"reading", "done", "failed"}
      /\ \A p \in Process!Pipe : pump[p] = "none" => pump'[p] = "none"
      /\ runOutcome' = why /\ runnerPc' = "reap"
      /\ UNCHANGED <<mode, child, turn, pipes, wrote, read, chan, drained, got, whole, cut,
                     lineChan, consumer, token>>
  BY <1>1 DEF Process!Stop, Process!TypeOK, Process!childVars
<1>3. Process!TypeOK'
  BY <1>1, <1>2 DEF Process!TypeOK, Process!Outcome
<1>4. Counters' /\ ChildWritesAll' /\ ExitIsLast'
  BY <1>1, <1>2 DEF Counters, ChildWritesAll, ExitIsLast, Process!OutputIsWhole
<1>5. PumpsEnd'
  <2>1. (mode = "capture" <=> pump'["out"] # "none") /\ pump'["err"] # "none"
    BY <1>1, <1>2, ProcessFacts DEF PumpsEnd
  <2> QED
    BY <1>1, <1>2, <2>1 DEF PumpsEnd
<1>6. PiecesAreKept'
  <2>1. pump'["out"] = "none" <=> pump["out"] = "none"
    BY <1>1, <1>2, ProcessFacts DEF PumpsEnd
  <2>2. \A p \in {"out", "err"} : pump'[p] \in {"reading", "done", "joined"} => pump[p] = "joined"
    BY <1>2, ProcessFacts
  <2> QED
    BY <1>1, <1>2, <2>1, <2>2 DEF PiecesAreKept
<1> QED
  BY <1>3, <1>4, <1>5, <1>6 DEF ProcessInv

LEMMA JoinKeepsProcess ==
  ASSUME Process!RunnerAssumption, ProcessInv, NEW p \in Process!Pipe, Process!JoinPump(p)
  PROVE  ProcessInv'
<1>1. /\ Process!TypeOK /\ Counters /\ ChildWritesAll /\ PumpsEnd /\ PiecesAreKept /\ ExitIsLast
  BY DEF ProcessInv
<1>2. CASE Process!Stop("failed")
  BY <1>2, StopKeepsProcess DEF Process!JoinPump
<1>3. CASE ~Process!Stop("failed")
  <2>1. /\ runnerPc = "loop" /\ held' = FALSE /\ pump[p] \in {"done", "failed"}
        /\ pump[p] = "failed" => mode = "follow"
        /\ pump' = [pump EXCEPT ![p] = IF @ = "failed" THEN "lost" ELSE "joined"]
        /\ drained' = [drained EXCEPT ![p] = @ \/ pump[p] = "failed"]
        /\ UNCHANGED <<mode, child, turn, pipes, wrote, read, chan, got, whole, cut, lineChan,
                       consumer, token, runnerPc, runOutcome>>
    BY <1>3 DEF Process!JoinPump, Process!Ended, Process!childVars
  <2>2. /\ pump' \in [Process!Pipe -> {"none", "reading", "done", "failed", "joined", "lost",
                                       "aborted"}]
        /\ drained' \in [Process!Pipe -> BOOLEAN]
        /\ \A q \in Process!Pipe \ {p} : pump'[q] = pump[q] /\ drained'[q] = drained[q]
        /\ \/ pump[p] = "done" /\ pump'[p] = "joined" /\ ~drained'[p]
           \/ pump[p] = "failed" /\ pump'[p] = "lost" /\ drained'[p]
    BY <1>1, <2>1 DEF Process!TypeOK, PumpsEnd
  <2>3. pump[p] = "failed" => p = "err"
    BY <1>1, <2>1, ProcessFacts DEF PumpsEnd
  <2>4. Process!TypeOK'
    BY <1>1, <2>1, <2>2 DEF Process!TypeOK
  <2>5. Counters' /\ ChildWritesAll' /\ ExitIsLast'
    BY <1>1, <2>1 DEF Counters, ChildWritesAll, ExitIsLast, Process!OutputIsWhole
  <2>6. PumpsEnd'
    <3>1. (mode = "capture" <=> pump'["out"] # "none") /\ pump'["err"] # "none"
      BY <1>1, <2>1, <2>2, ProcessFacts DEF PumpsEnd
    <3>2. ASSUME NEW q \in Process!Pipe
          PROVE  /\ pump'[q] \in {"done", "joined"} => q \notin pipes /\ read[q] = wrote[q]
                 /\ pump'[q] = "lost" => q = "err" /\ mode = "follow"
                 /\ drained'[q] => pump'[q] \notin {"reading", "done", "failed"}
                 /\ drained'[q] /\ pump'[q] = "joined" => chan[q] = 0
                 /\ drained'[q] /\ pump'[q] = "none" => q \notin pipes /\ read[q] = wrote[q]
      <4>1. CASE q = p
        BY <1>1, <2>1, <2>2, <2>3, <4>1 DEF PumpsEnd
      <4>2. CASE q # p
        BY <1>1, <2>2, <4>2 DEF PumpsEnd
      <4> QED
        BY <4>1, <4>2
    <3> QED
      BY <2>1, <3>1, <3>2 DEF PumpsEnd
  <2>7. PiecesAreKept'
    <3>1. \A q \in {"out", "err"} :
            /\ pump'[q] = "none" <=> pump[q] = "none"
            /\ pump'[q] \in {"reading", "done", "joined"} => pump[q] \in {"reading", "done", "joined"}
      BY <2>2, ProcessFacts
    <3> QED
      BY <1>1, <2>1, <3>1 DEF PiecesAreKept
  <2> QED
    BY <2>4, <2>5, <2>6, <2>7 DEF ProcessInv
<1> QED
  BY <1>2, <1>3

LEMMA ReceiveKeepsProcess ==
  ASSUME Process!RunnerAssumption, ProcessInv, NEW p \in Process!Pipe, Process!Receive(p)
  PROVE  ProcessInv'
<1>1. /\ Process!TypeOK /\ Counters /\ ChildWritesAll /\ PumpsEnd /\ PiecesAreKept /\ ExitIsLast
  BY DEF ProcessInv
<1>2. /\ runnerPc = "loop" /\ held' = FALSE /\ ~drained[p]
      /\ pump[p] \notin {"done", "failed"} /\ (chan[p] > 0 \/ pump[p] \notin {"none", "reading"})
      /\ UNCHANGED <<mode, child, turn, pipes, wrote, read, pump, whole, cut, lineChan, consumer,
                     token, runOutcome>>
  BY DEF Process!Receive, Process!ChanReady, Process!Ended, Process!childVars
<1>3. CASE chan[p] > 0
  <2>1. /\ chan' = [chan EXCEPT ![p] = @ - 1] /\ got' = [got EXCEPT ![p] = @ + 1]
        /\ runnerPc' \in {"sendErr", "loop"} /\ drained' = drained
    BY <1>3 DEF Process!Receive
  <2>2. Counters'
    BY <1>1, <1>2, <1>3, <2>1 DEF Counters
  <2>3. PiecesAreKept'
    <3>1. got["out"] + chan["out"] = got'["out"] + chan'["out"]
      BY <1>1, <1>3, <2>1, ProcessFacts DEF Counters
    <3>2. got["err"] + chan["err"] = got'["err"] + chan'["err"]
      BY <1>1, <1>3, <2>1, ProcessFacts DEF Counters
    <3>3. pump["out"] = "none" => chan'["out"] = 0 /\ got'["out"] = got["out"]
      BY <1>1, <1>3, <2>1, ProcessFacts DEF PiecesAreKept, Counters
    <3> QED
      BY <1>1, <1>2, <2>1, <3>1, <3>2, <3>3 DEF PiecesAreKept
  <2>4. \A q \in Process!Pipe : chan'[q] \in 0 .. ChanCap /\ got'[q] \in 0 .. Process!Size[q]
    <3>1. \A q \in Process!Pipe : chan'[q] \in 0 .. ChanCap
      BY <1>1, <1>3, <2>1, ProcessFacts DEF Process!TypeOK, Counters
    <3>2. got'["err"] <= read["err"] /\ 2 * got'["out"] <= read["out"]
      BY <1>2, <2>2, <2>3, ProcessFacts DEF PiecesAreKept, Counters
    <3>3. read["err"] <= ErrLines /\ read["out"] <= 2 * OutLines
      BY <1>1, ProcessFacts DEF Process!TypeOK, Counters
    <3> QED
      BY <1>1, <2>2, <3>1, <3>2, <3>3, ProcessFacts DEF Counters
  <2>5. Process!TypeOK'
    BY <1>1, <1>2, <2>1, <2>4 DEF Process!TypeOK
  <2>6. ChildWritesAll' /\ ExitIsLast'
    BY <1>1, <1>2, <2>1 DEF ChildWritesAll, ExitIsLast, Process!OutputIsWhole
  <2>7. PumpsEnd'
    BY <1>1, <1>2, <1>3, <2>1 DEF PumpsEnd, Counters
  <2> QED
    BY <2>2, <2>3, <2>5, <2>6, <2>7 DEF ProcessInv
<1>4. CASE ~(chan[p] > 0)
  <2>1. /\ drained' = [drained EXCEPT ![p] = TRUE] /\ UNCHANGED <<chan, got, runnerPc>>
        /\ chan[p] = 0 /\ pump[p] \notin {"none", "reading", "done", "failed"}
    BY <1>1, <1>2, <1>4 DEF Process!Receive, Counters
  <2>2. Process!TypeOK'
    BY <1>1, <1>2, <2>1 DEF Process!TypeOK
  <2>3. Counters' /\ ChildWritesAll' /\ PiecesAreKept' /\ ExitIsLast'
    BY <1>1, <1>2, <2>1 DEF Counters, ChildWritesAll, PiecesAreKept, ExitIsLast,
                            Process!OutputIsWhole
  <2>4. PumpsEnd'
    BY <1>1, <1>2, <2>1 DEF PumpsEnd, Process!TypeOK
  <2> QED
    BY <2>2, <2>3, <2>4 DEF ProcessInv
<1> QED
  BY <1>3, <1>4

LEMMA LineKeepsProcess ==
  ASSUME Process!RunnerAssumption, ProcessInv, Process!ReadLine \/ Process!SendLine
  PROVE  ProcessInv'
<1>1. /\ Process!TypeOK /\ Counters /\ ChildWritesAll /\ PumpsEnd /\ PiecesAreKept /\ ExitIsLast
  BY DEF ProcessInv
<1>2. /\ got["out"] \in Nat /\ chan["out"] \in Nat /\ read["out"] \in Nat
      /\ wrote["out"] \in Nat /\ wrote["out"] <= 2 * OutLines /\ read["out"] <= wrote["out"]
  BY <1>1, ProcessFacts DEF Counters, Process!TypeOK
<1>3. ASSUME pump["out"] = "none", read["out"] < wrote["out"], runnerPc = "loop",
             read' = [read EXCEPT !["out"] = @ + 1],
             held' = (read["out"] % 2 = 0), whole' = held,
             runnerPc' = IF held' THEN "loop" ELSE "sendOut",
             UNCHANGED <<mode, child, turn, pipes, wrote, pump, chan, drained, got, cut, lineChan,
                         consumer, token, runOutcome>>,
             ~drained["out"]
      PROVE  ProcessInv'
  <2>1. /\ read["out"] % 2 = 0 <=> read["out"] = 2 * got["out"]
        /\ 2 * got["out"] <= read["out"] /\ read["out"] <= 2 * got["out"] + 1 /\ chan["out"] = 0
    <3>1. /\ chan["out"] = 0 /\ 2 * got["out"] <= read["out"]
          /\ read["out"] <= 2 * got["out"] + 1
      BY <1>1, <1>2, <1>3 DEF PiecesAreKept
    <3> QED
      BY <1>2, <3>1, Halves
  <2>2. /\ read' \in [Process!Pipe -> Nat] /\ read'["out"] = read["out"] + 1
        /\ \A q \in Process!Pipe \ {"out"} : read'[q] = read[q]
    BY <1>1, <1>3, ProcessFacts DEF Counters
  <2>3. held' \in BOOLEAN /\ runnerPc' \in {"loop", "sendOut"}
    BY <1>3
  <2>4. \A q \in Process!Pipe : read'[q] \in 0 .. wrote[q] /\ wrote[q] - read'[q] <= PipeCap
    BY <1>1, <1>2, <1>3, <2>2, ProcessFacts DEF Process!TypeOK, Counters
  <2>5. Process!TypeOK'
    BY <1>1, <1>3, <2>3, <2>4 DEF Process!TypeOK
  <2>6. Counters' /\ ChildWritesAll' /\ ExitIsLast'
    BY <1>1, <1>3, <2>2, <2>3 DEF Counters, ChildWritesAll, ExitIsLast, Process!OutputIsWhole
  <2>7. PumpsEnd'
    BY <1>1, <1>3, <2>2 DEF PumpsEnd
  <2>8. PiecesAreKept'
    <3>1. \/ runnerPc' = "loop" /\ read'["out"] = 2 * got["out"] + 1
          \/ runnerPc' = "sendOut" /\ read'["out"] = 2 * got["out"] + 2
      <4>1. CASE read["out"] = 2 * got["out"]
        BY <1>3, <2>1, <2>2, <4>1
      <4>2. CASE read["out"] # 2 * got["out"]
        <5>1. ~held'
          BY <1>3, <2>1, <4>2
        <5>2. runnerPc' = "sendOut"
          BY <1>3, <5>1
        <5> QED
          <6>1. /\ 2 * got["out"] <= read["out"] /\ read["out"] <= 2 * got["out"] + 1
            BY <2>1
          <6>2. read["out"] = 2 * got["out"] + 1
            BY <1>2, <4>2, <6>1
          <6> QED
            BY <1>2, <2>2, <5>2, <6>2
      <4> QED
        BY <4>1, <4>2
    <3>2. read'["err"] = read["err"]
      BY <2>2, ProcessFacts
    <3> QED
      BY <1>1, <1>2, <1>3, <2>1, <3>1, <3>2 DEF PiecesAreKept
  <2> QED
    BY <2>5, <2>6, <2>7, <2>8 DEF ProcessInv
<1>4. ASSUME pump["out"] = "none", Process!Eof("out"), runnerPc = "loop",
             drained' = [drained EXCEPT !["out"] = TRUE], held' = FALSE,
             UNCHANGED <<mode, child, turn, pipes, wrote, read, pump, chan, got, whole, cut,
                         lineChan, consumer, token, runnerPc, runOutcome>>
      PROVE  ProcessInv'
  <2>1. Process!TypeOK'
    BY <1>1, <1>4 DEF Process!TypeOK
  <2>2. Counters' /\ ChildWritesAll' /\ PiecesAreKept' /\ ExitIsLast'
    BY <1>1, <1>4 DEF Counters, ChildWritesAll, PiecesAreKept, ExitIsLast,
                      Process!OutputIsWhole
  <2>3. PumpsEnd'
    BY <1>1, <1>4 DEF PumpsEnd, Process!TypeOK, Process!Eof
  <2> QED
    BY <2>1, <2>2, <2>3 DEF ProcessInv
<1>5. ASSUME runnerPc \in {"sendOut", "sendErr"}, lineChan < LineCap, lineChan' = lineChan + 1,
             got' = IF runnerPc = "sendOut" THEN [got EXCEPT !["out"] = @ + 1] ELSE got,
             cut' \in BOOLEAN, runnerPc' = "loop",
             UNCHANGED <<mode, child, turn, pipes, wrote, read, pump, chan, drained, held, whole,
                         consumer, token, runOutcome>>
      PROVE  ProcessInv'
  <2>1. Counters'
    <3>1. got' \in [Process!Pipe -> Nat]
      <4>1. [got EXCEPT !["out"] = @ + 1] \in [Process!Pipe -> Nat]
        <5>1. got["out"] + 1 \in Nat
          BY <1>2
        <5> QED
          BY <1>1, <5>1 DEF Counters
      <4> QED
        BY <1>1, <1>5, <4>1 DEF Counters
    <3> QED
      BY <1>1, <1>5, <3>1 DEF Counters
  <2>2. PiecesAreKept'
    <3>1. got'["err"] = got["err"]
      BY <1>1, <1>5, ProcessFacts DEF Counters
    <3>2. CASE runnerPc = "sendOut"
      <4>1. got'["out"] = got["out"] + 1 /\ pump["out"] = "none" /\ chan["out"] = 0
        BY <1>1, <1>5, <3>2, ProcessFacts DEF Counters, PiecesAreKept
      <4> QED
        BY <1>1, <1>2, <1>5, <3>1, <3>2, <4>1 DEF PiecesAreKept
    <3>3. CASE runnerPc = "sendErr"
      BY <1>1, <1>5, <3>3 DEF PiecesAreKept
    <3> QED
      BY <1>5, <3>2, <3>3
  <2>3. \A q \in Process!Pipe : got'[q] \in 0 .. Process!Size[q]
    <3>1. 2 * got'["out"] <= read["out"] /\ got'["out"] \in Nat
      BY <1>1, <1>2, <1>5, <2>1, <2>2, ProcessFacts DEF PiecesAreKept, Counters
    <3>2. got'["err"] = got["err"]
      BY <1>1, <1>5, ProcessFacts DEF Counters
    <3> QED
      BY <1>1, <1>2, <3>1, <3>2, ProcessFacts DEF Process!TypeOK
  <2>4. Process!TypeOK'
    <3>1. lineChan' \in 0 .. LineCap
      BY <1>1, <1>5, ProcessFacts DEF Process!TypeOK
    <3> QED
      BY <1>1, <1>5, <2>3, <3>1 DEF Process!TypeOK
  <2>5. ChildWritesAll' /\ ExitIsLast' /\ PumpsEnd'
    BY <1>1, <1>5 DEF ChildWritesAll, ExitIsLast, Process!OutputIsWhole, PumpsEnd
  <2> QED
    BY <2>1, <2>2, <2>4, <2>5 DEF ProcessInv
<1>6. CASE Process!ReadLine
  <2>1. pump["out"] = "none" /\ runnerPc = "loop" /\ ~drained["out"]
    BY <1>1, <1>6 DEF Process!ReadLine, PumpsEnd
  <2> QED
    BY <1>3, <1>4, <1>6, <2>1 DEF Process!ReadLine, Process!childVars
<1>7. CASE Process!SendLine
  <2>1. CASE ~consumer
    BY <1>1, <1>7, <2>1, StopKeepsProcess DEF Process!SendLine, Process!TypeOK
  <2>2. CASE consumer
    <3>1. cut' \in BOOLEAN
      BY <1>7, <2>2 DEF Process!SendLine
    <3> QED
      BY <1>5, <1>7, <2>2, <3>1 DEF Process!SendLine, Process!childVars
  <2> QED
    BY <2>1, <2>2
<1> QED
  BY <1>6, <1>7

LEMMA EndKeepsProcess ==
  ASSUME Process!RunnerAssumption, ProcessInv,
         \/ Process!Drained \/ Process!Wait \/ Process!Reap
         \/ Process!Cancel \/ Process!TakeLine \/ Process!DropConsumer
  PROVE  ProcessInv'
<1>1. /\ Process!TypeOK /\ Counters /\ ChildWritesAll /\ PumpsEnd /\ PiecesAreKept /\ ExitIsLast
  BY DEF ProcessInv
<1>2. UNCHANGED <<mode, turn, pipes, wrote, read, pump, chan, drained, got, held, whole, cut>>
  BY DEF Process!Drained, Process!Wait, Process!Reap, Process!Cancel, Process!TakeLine,
         Process!DropConsumer, Process!childVars
<1>3. Process!TypeOK'
  <2>1. lineChan' \in 0 .. LineCap
    <3>1. /\ lineChan \in 0 .. LineCap /\ LineCap \in Nat
          /\ lineChan' \in {lineChan, 0} \/ (lineChan > 0 /\ lineChan' = lineChan - 1)
      BY <1>1, ProcessFacts
        DEF Process!TypeOK, Process!Drained, Process!Wait, Process!Reap, Process!Cancel,
            Process!TakeLine, Process!DropConsumer
    <3> QED
      BY <3>1
  <2>2. child' \in {"running", "hung", "exited", "killed"}
    BY <1>1 DEF Process!TypeOK, Process!Drained, Process!Wait, Process!Reap, Process!Cancel,
                Process!TakeLine, Process!DropConsumer, Process!childVars
  <2>3. consumer' \in BOOLEAN /\ token' \in BOOLEAN
    BY <1>1 DEF Process!TypeOK, Process!Drained, Process!Wait, Process!Reap, Process!Cancel,
                Process!TakeLine, Process!DropConsumer
  <2>4. /\ runnerPc' \in {"loop", "sendOut", "sendErr", "wait", "reap", "done"}
        /\ runOutcome' \in Process!Outcome
    BY <1>1 DEF Process!TypeOK, Process!Drained, Process!Wait, Process!Reap, Process!Cancel,
                Process!TakeLine, Process!DropConsumer, Process!Outcome
  <2> QED
    BY <1>1, <1>2, <2>1, <2>2, <2>3, <2>4 DEF Process!TypeOK
<1>4. Counters' /\ ChildWritesAll' /\ PumpsEnd'
  BY <1>1, <1>2 DEF Counters, ChildWritesAll, PumpsEnd
<1>5. PiecesAreKept'
  <2>1. \/ runnerPc' = runnerPc
        \/ runnerPc = "loop" /\ runnerPc' = "wait"
        \/ runnerPc' = "done"
    BY DEF Process!Drained, Process!Wait, Process!Reap, Process!Cancel, Process!TakeLine,
           Process!DropConsumer
  <2>2. CASE runnerPc' = runnerPc
    BY <1>1, <1>2, <2>2 DEF PiecesAreKept
  <2>3. CASE runnerPc = "loop" /\ runnerPc' = "wait"
    BY <1>1, <1>2, <2>3 DEF PiecesAreKept
  <2>4. CASE runnerPc' = "done"
    BY <1>1, <1>2, <2>4 DEF PiecesAreKept
  <2> QED
    BY <2>1, <2>2, <2>3, <2>4
<1>6. ExitIsLast'
  <2>1. CASE Process!Drained
    BY <1>1, <1>2, <2>1 DEF Process!Drained, ExitIsLast, Process!OutputIsWhole
  <2>2. CASE Process!Wait
    <3>1. /\ runnerPc = "wait" /\ runnerPc' = "done" /\ runOutcome' = "exit"
      BY <2>2 DEF Process!Wait
    <3>2. ASSUME NEW p \in Process!Pipe, pump[p] # "lost"
          PROVE  /\ read[p] = Process!Size[p] /\ pump[p] \in {"none", "joined"}
                 /\ pump[p] = "joined" => chan[p] = 0
      BY <1>1, <3>1, <3>2 DEF ExitIsLast, PumpsEnd, ChildWritesAll
    <3>3. got["out"] = OutLines
      <4>1. pump["out"] # "lost"
        BY <1>1, ProcessFacts DEF PumpsEnd
      <4>2. /\ read["out"] = 2 * OutLines /\ chan["out"] = 0
            /\ 2 * got["out"] <= read["out"] /\ read["out"] <= 2 * got["out"] + 1
        BY <1>1, <3>1, <3>2, <4>1, ProcessFacts DEF PiecesAreKept, Counters
      <4> QED
        BY <1>1, <4>2, ProcessFacts DEF Counters
    <3>4. got["err"] = ErrLines \/ pump["err"] = "lost"
      BY <1>1, <3>1, <3>2, ProcessFacts DEF PiecesAreKept, Counters, PumpsEnd
    <3> QED
      BY <1>2, <3>1, <3>3, <3>4 DEF ExitIsLast, Process!OutputIsWhole
  <2>3. CASE Process!Reap
    BY <1>1, <1>2, <2>3 DEF Process!Reap, ExitIsLast, Process!OutputIsWhole
  <2>4. CASE UNCHANGED <<runnerPc, runOutcome>>
    BY <1>1, <1>2, <2>4 DEF ExitIsLast, Process!OutputIsWhole
  <2> QED
    BY <2>1, <2>2, <2>3, <2>4 DEF Process!Cancel, Process!TakeLine, Process!DropConsumer
<1> QED
  BY <1>3, <1>4, <1>5, <1>6 DEF ProcessInv

LEMMA ProcessKept ==
  ASSUME Process!RunnerAssumption, ProcessInv, Process!Next
  PROVE  ProcessInv'
<1>1. CASE Process!SeeCancel
  BY <1>1, StopKeepsProcess DEF Process!SeeCancel
<1>2. CASE Process!TimeOut
  BY <1>2, StopKeepsProcess DEF Process!TimeOut
<1> QED
  BY <1>1, <1>2, ChildKeepsProcess, PumpKeepsProcess, JoinKeepsProcess, ReceiveKeepsProcess,
     LineKeepsProcess, EndKeepsProcess
    DEF Process!Next, Process!RunStep

LEMMA ProcessAlways == Spec => []ProcessInv
<1>1. Process!RunnerAssumption
  BY JobAssumptions
<1>2. Init => ProcessInv
  BY <1>1, ProcessInitially DEF Init
<1>3. ProcessInv /\ [Next]_vars => ProcessInv'
  <2> SUFFICES ASSUME ProcessInv, [Next]_vars
               PROVE  ProcessInv'
    OBVIOUS
  <2>1. CASE UNCHANGED processVars
    BY <2>1 DEF processVars, ProcessInv, Process!TypeOK, Counters, ChildWritesAll, PumpsEnd,
                PiecesAreKept, ExitIsLast, Process!OutputIsWhole
  <2>2. CASE Process!Next
    BY <1>1, <2>2, ProcessKept
  <2> QED
    BY <2>1, <2>2 DEF Next, vars
<1> QED
  BY <1>2, <1>3, PTL DEF Spec

-----------------------------------------------------------------------------
(* CommandLibrary                                                           *)

(* What is written is valid, and it is in the `.tmp` when that is renamed. *)
LibraryInv ==
  /\ Commands!TypeOK /\ Commands!LibrarySurvives
  /\ disk.is = "library" => disk = Commands!Whole(disk.library)
  /\ writePc # "Idle" => Commands!validate(op.next)
  /\ writePc = "Rename" => libraryTmp = Commands!Whole(op.next)

LEMMA LibraryAtRest ==
  ASSUME LibraryInv,
         UNCHANGED <<library, disk, libraryTmp, writePc, op, settled, libraryCalls>>
  PROVE  LibraryInv'
<1>1. /\ Commands!validate(library)' = Commands!validate(library)
      /\ Commands!validate(disk.library)' = Commands!validate(disk.library)
      /\ Commands!validate(op.next)' = Commands!validate(op.next)
  BY DEF Commands!validate, Commands!Positions, Commands!Entries
<1>2. /\ Commands!Whole(library)' = Commands!Whole(library)
      /\ Commands!Whole(disk.library)' = Commands!Whole(disk.library)
      /\ Commands!Whole(op.next)' = Commands!Whole(op.next)
  BY DEF Commands!Whole
<1>3. Commands!TypeOK'
  BY <1>1 DEF LibraryInv, Commands!TypeOK
<1>4. Commands!LibrarySurvives'
  BY <1>1, <1>2 DEF LibraryInv, Commands!LibrarySurvives
<1> QED
  BY <1>1, <1>2, <1>3, <1>4 DEF LibraryInv

LEMMA LibraryInitially ==
  ASSUME Commands!LibraryAssumption, Commands!Init
  PROVE  LibraryInv
<1>1. Commands!validate(library)
  BY DEF Commands!Init, Commands!validate, Commands!Positions, Commands!Entries
<1>2. Commands!TypeOK
  <2>1. disk.is \in {"missing", "garbage", "library"} /\ libraryTmp.is = "missing"
    BY DEF Commands!Init, Commands!Missing, Commands!Garbage, Commands!Whole
  <2>2. op.call = "none"
    BY DEF Commands!Init, Commands!NoOp
  <2>3. libraryCalls \in 0 .. MaxCalls
    BY DEF Commands!Init, Commands!LibraryAssumption
  <2>4. writePc = "Idle" /\ settled = FALSE
    BY DEF Commands!Init
  <2> QED
    BY <1>1, <2>1, <2>2, <2>3, <2>4 DEF Commands!TypeOK
<1>3. Commands!LibrarySurvives /\ (disk.is = "library" => disk = Commands!Whole(disk.library))
  BY DEF Commands!LibraryAssumption, Commands!Init, Commands!LibrarySurvives, Commands!Missing,
         Commands!Garbage, Commands!Whole
<1> QED
  BY <1>2, <1>3 DEF LibraryInv, Commands!Init

LEMMA LibraryKept ==
  ASSUME Commands!LibraryAssumption, LibraryInv, Commands!Next
  PROVE  LibraryInv'
<1>1. /\ Commands!validate(FirstLibrary) /\ MaxCalls \in Nat
      /\ Commands!TypeOK /\ Commands!LibrarySurvives
      /\ disk.is = "library" => disk = Commands!Whole(disk.library)
      /\ writePc # "Idle" => Commands!validate(op.next)
      /\ writePc = "Rename" => libraryTmp = Commands!Whole(op.next)
  BY DEF LibraryInv, Commands!LibraryAssumption
<1>2. \A lib : Commands!Whole(lib).is = "library" /\ Commands!Whole(lib).library = lib
  BY DEF Commands!Whole
<1>3. ASSUME UNCHANGED <<library, disk, libraryTmp, writePc, op, settled, libraryCalls>>
      PROVE  LibraryInv'
  BY <1>3, LibraryAtRest
<1>4. ASSUME UNCHANGED <<library, disk, libraryTmp, settled>>,
             libraryCalls < MaxCalls, libraryCalls' = libraryCalls + 1,
             op'.call \in {"none", "load", "save", "apply"}, writePc = "Idle",
             writePc' \in {"Idle", "Tmp"}, writePc' = "Tmp" => Commands!validate(op'.next)
      PROVE  LibraryInv'
  <2>1. libraryCalls' \in 0 .. MaxCalls
    BY <1>1, <1>4 DEF Commands!TypeOK
  <2>2. Commands!validate(library)'
    BY <1>1, <1>4 DEF Commands!TypeOK, Commands!validate, Commands!Positions, Commands!Entries
  <2>3. Commands!TypeOK'
    BY <1>1, <1>4, <2>1, <2>2 DEF Commands!TypeOK
  <2>4. Commands!LibrarySurvives'
    BY <1>1, <1>4 DEF Commands!LibrarySurvives, Commands!validate, Commands!Positions,
                      Commands!Entries
  <2>5. (writePc # "Idle" => Commands!validate(op.next))'
    BY <1>4 DEF Commands!validate, Commands!Positions, Commands!Entries
  <2> QED
    BY <1>1, <1>4, <2>3, <2>4, <2>5 DEF LibraryInv
<1>5. CASE Commands!Load
  <2>1. libraryCalls' \in 0 .. MaxCalls
    BY <1>1, <1>5 DEF Commands!TypeOK, Commands!Load
  <2>2. CASE disk.is = "library" /\ library' = disk.library /\ settled' = TRUE
             /\ op' = Commands!NoOp /\ UNCHANGED writePc
    <3>1. Commands!validate(disk.library) /\ disk = Commands!Whole(disk.library)
      BY <1>1, <2>2 DEF Commands!LibrarySurvives
    <3>2. writePc' = "Idle" /\ UNCHANGED <<disk, libraryTmp>>
      BY <1>5, <2>2 DEF Commands!Load
    <3>3. Commands!validate(library)' /\ Commands!validate(disk.library)'
      BY <2>2, <3>1, <3>2 DEF Commands!validate, Commands!Positions, Commands!Entries
    <3>4. Commands!TypeOK'
      BY <1>1, <2>1, <2>2, <3>2, <3>3 DEF Commands!TypeOK, Commands!NoOp
    <3>5. Commands!LibrarySurvives'
      BY <2>2, <3>1, <3>2, <3>3 DEF Commands!LibrarySurvives
    <3> QED
      BY <3>1, <3>2, <3>4, <3>5 DEF LibraryInv
  <2>3. CASE writePc' = "Tmp" /\ op' = [Commands!NoOp EXCEPT !.call = "load", !.next = FirstLibrary]
             /\ UNCHANGED <<library, settled>>
    BY <1>1, <1>4, <1>5, <2>3 DEF Commands!Load, Commands!NoOp
  <2>4. CASE UNCHANGED <<library, settled, writePc, op>>
    BY <1>1, <1>4, <1>5, <2>4 DEF Commands!Load, Commands!TypeOK
  <2> QED
    BY <1>5, <2>2, <2>3, <2>4 DEF Commands!Load
<1>6. CASE Commands!Save \/ Commands!Apply
  <2>1. /\ UNCHANGED <<library, disk, libraryTmp, settled>> /\ writePc = "Idle"
        /\ libraryCalls < MaxCalls /\ libraryCalls' = libraryCalls + 1
        /\ \/ op'.call \in {"save", "apply"} /\ Commands!Persist
           \/ UNCHANGED <<writePc, op>>
    <3>1. CASE Commands!Save
      <4>1. PICK lib \in Libraries : op' = [Commands!NoOp EXCEPT !.call = "save", !.next = lib]
        BY <3>1 DEF Commands!Save
      <4>2. op'.call = "save"
        BY <4>1 DEF Commands!NoOp
      <4> QED
        BY <3>1, <4>2 DEF Commands!Save
    <3>2. CASE Commands!Apply
      <4>1. \/ UNCHANGED <<writePc, op>>
            \/ op'.call = "apply" /\ Commands!Persist
        <5>1. PICK files, selected :
                LET incoming == Commands!FlattenSeq(files) IN
                IF ~Commands!validate(incoming) \/ ~(selected \subseteq Commands!Ids(incoming))
                THEN UNCHANGED <<writePc, op>>
                ELSE /\ op' = [call |-> "apply", incoming |-> incoming, selected |-> selected,
                               next |-> Commands!apply_import(library, incoming, selected)]
                     /\ Commands!Persist
          BY <3>2, Zenon DEF Commands!Apply
        <5> QED
          BY <5>1
      <4> QED
        BY <3>2, <4>1 DEF Commands!Apply
    <3> QED
      BY <1>6, <3>1, <3>2
  <2>2. CASE op'.call \in {"save", "apply"} /\ Commands!Persist
    <3>1. writePc' \in {"Idle", "Tmp"} /\ (writePc' = "Tmp" => Commands!validate(op'.next))
      BY <2>1, <2>2, Zenon DEF Commands!Persist
    <3> QED
      BY <1>4, <2>1, <2>2, <3>1
  <2>3. CASE UNCHANGED <<writePc, op>>
    BY <1>1, <1>4, <2>1, <2>3 DEF Commands!TypeOK
  <2> QED
    BY <2>1, <2>2, <2>3
<1>7. CASE Commands!WriteTmp
  <2>1. /\ UNCHANGED <<library, disk, settled, libraryCalls>> /\ writePc = "Tmp"
        /\ libraryTmp'.is \in {"missing", "garbage", "library"}
        /\ \/ libraryTmp' = Commands!Whole(op.next) /\ writePc' = "Rename" /\ UNCHANGED op
           \/ writePc' = "Idle" /\ op' = Commands!NoOp
    BY <1>1, <1>2, <1>7
      DEF Commands!WriteTmp, Commands!Return, Commands!TypeOK, Commands!Garbage
  <2>2. Commands!validate(library)'
    BY <1>1, <2>1 DEF Commands!TypeOK, Commands!validate, Commands!Positions, Commands!Entries
  <2>3. Commands!TypeOK'
    BY <1>1, <2>1, <2>2 DEF Commands!TypeOK, Commands!NoOp
  <2>4. Commands!LibrarySurvives'
    BY <1>1, <2>1 DEF Commands!LibrarySurvives, Commands!validate, Commands!Positions,
                      Commands!Entries
  <2>5. (writePc # "Idle" => Commands!validate(op.next))'
    BY <1>1, <2>1 DEF Commands!validate, Commands!Positions, Commands!Entries
  <2> QED
    BY <1>1, <2>1, <2>3, <2>4, <2>5 DEF LibraryInv, Commands!Whole
<1>8. CASE Commands!Rename
  <2>1. writePc' = "Idle" /\ op' = Commands!NoOp /\ UNCHANGED libraryCalls
    BY <1>8 DEF Commands!Rename, Commands!Return
  <2>2. CASE disk' = libraryTmp /\ libraryTmp' = Commands!Missing /\ library' = op.next
             /\ settled' = TRUE
    <3>1. disk' = Commands!Whole(op.next) /\ Commands!validate(op.next)
      BY <1>1, <1>8, <2>2 DEF Commands!Rename
    <3>2. disk'.is = "library" /\ disk'.library = op.next /\ disk' = Commands!Whole(library')
      BY <1>2, <2>2, <3>1
    <3>3. Commands!validate(library)' /\ Commands!validate(disk.library)'
      BY <2>2, <3>1, <3>2 DEF Commands!validate, Commands!Positions, Commands!Entries
    <3>4. Commands!TypeOK'
      BY <1>1, <2>1, <2>2, <3>2, <3>3 DEF Commands!TypeOK, Commands!NoOp, Commands!Missing
    <3>5. Commands!LibrarySurvives'
      BY <2>2, <3>2, <3>3 DEF Commands!LibrarySurvives, Commands!Whole
    <3>6. (disk.is = "library" => disk = Commands!Whole(disk.library))'
      BY <2>2, <3>2 DEF Commands!Whole
    <3> QED
      BY <2>1, <3>4, <3>5, <3>6 DEF LibraryInv
  <2>3. CASE UNCHANGED <<library, disk, libraryTmp, settled>>
    <3>1. Commands!validate(library)'
      BY <1>1, <2>3 DEF Commands!TypeOK, Commands!validate, Commands!Positions, Commands!Entries
    <3>2. Commands!TypeOK'
      BY <1>1, <2>1, <2>3, <3>1 DEF Commands!TypeOK, Commands!NoOp
    <3>3. Commands!LibrarySurvives'
      BY <1>1, <2>3 DEF Commands!LibrarySurvives, Commands!validate, Commands!Positions,
                        Commands!Entries
    <3> QED
      BY <1>1, <2>1, <2>3, <3>2, <3>3 DEF LibraryInv, Commands!Whole
  <2> QED
    BY <1>8, <2>2, <2>3 DEF Commands!Rename
<1>9. CASE Commands!Crash
  <2>1. /\ library' = <<>> /\ settled' = FALSE /\ writePc' = "Idle" /\ op' = Commands!NoOp
        /\ libraryTmp' \in {libraryTmp, Commands!Garbage} /\ UNCHANGED <<disk, libraryCalls>>
    BY <1>9 DEF Commands!Crash, Commands!Return
  <2>2. Commands!validate(library)'
    BY <2>1 DEF Commands!validate, Commands!Positions, Commands!Entries
  <2>3. Commands!TypeOK'
    <3>1. libraryTmp'.is \in {"missing", "garbage", "library"}
      BY <1>1, <2>1 DEF Commands!TypeOK, Commands!Garbage
    <3>2. op'.call = "none"
      BY <2>1 DEF Commands!NoOp
    <3> QED
      BY <1>1, <2>1, <2>2, <3>1, <3>2 DEF Commands!TypeOK
  <2>4. Commands!LibrarySurvives'
    BY <1>1, <2>1 DEF Commands!LibrarySurvives, Commands!validate, Commands!Positions,
                      Commands!Entries
  <2> QED
    BY <1>1, <2>1, <2>3, <2>4 DEF LibraryInv, Commands!Whole
<1>10. CASE \/ \E e \in Commands!Entries(library) : \E n \in 0 .. 4 :
                 Commands!RunEntry(e, Commands!Typed(n))
            \/ \E g \in DOMAIN library : Commands!RunGroup(library[g])
  BY <1>3, <1>10 DEF Commands!RunEntry, Commands!RunGroup
<1> QED
  BY <1>5, <1>6, <1>7, <1>8, <1>9, <1>10 DEF Commands!Next

LEMMA LibraryAlways == Spec => []LibraryInv
<1>1. Commands!LibraryAssumption
  BY JobAssumptions
<1>2. Init => LibraryInv
  BY <1>1, LibraryInitially DEF Init
<1>3. LibraryInv /\ [Next]_vars => LibraryInv'
  <2> SUFFICES ASSUME LibraryInv, [Next]_vars
               PROVE  LibraryInv'
    OBVIOUS
  <2>1. CASE UNCHANGED libraryVars
    BY <2>1, LibraryAtRest DEF libraryVars
  <2>2. CASE Commands!Next
    BY <1>1, <2>2, LibraryKept
  <2> QED
    BY <2>1, <2>2 DEF Next, vars
<1> QED
  BY <1>2, <1>3, PTL DEF Spec

-----------------------------------------------------------------------------
(* SettingsStore. All of it holds as long as one call writes at a time.    *)

(* The writer has the `.tmp` open, which is not the file, and puts in it   *)
(* what is in memory.                                                      *)
TmpIsWritten(t) ==
  /\ openFile[t] # Settings!NoFile <=> savePc[t] = "Write"
  /\ savePc[t] = "Write" =>
       tmp = openFile[t] /\ tmp # Settings!NoFile /\ content[tmp] = Settings!Torn
  /\ savePc[t] = "Rename" =>
       tmp # Settings!NoFile /\ content[tmp] = Settings!Holds(text[t])
  /\ savePc[t] \in {"Create", "Write", "Rename", "Apply"} => text[t] = memory

FileIsWhole ==
  /\ path # Settings!NoFile => content[path].whole
  /\ tmp # Settings!NoFile => tmp # path

(* No call that sets this key has failed since the last start.             *)
Sound(k) == \A u \in Calls : key[u] = k => savePc[u] # "Failed"

Agrees(k) == cores[k] = memory[k] /\ Settings!Filed(k)

(* The file and the services have what is in memory of a sound key, but    *)
(* for the key that is being set.                                          *)
Agreement(t, k) ==
  /\ t = Closing \/ k # key[t] \/ savePc[t] = "Put" => Agrees(k)
  /\ savePc[t] = "Put" /\ k # key[t] => text[t][k] = memory[k]
  /\ savePc[t] = "Apply" => Settings!Filed(k)

OneAtATime ==
  \A t, u \in Settings!Savers : Settings!Under(t) /\ Settings!Under(u) => t = u

SettingsInv ==
  /\ Settings!TypeOK
  /\ savePc[Closing] \notin {"Put", "Apply", "Lost"}
  /\ ~overlapped =>
       /\ OneAtATime /\ FileIsWhole
       /\ \A t \in Settings!Savers : TmpIsWritten(t)
       /\ \A k \in Keys : Sound(k) =>
            /\ \A t \in Settings!Savers : Settings!Under(t) => Agreement(t, k)
            /\ (\A t \in Settings!Savers : ~Settings!Under(t)) => Agrees(k)

LEMMA SettingsFacts ==
  ASSUME Settings!SettingsAssumption
  PROVE  /\ Closing \in Settings!Savers /\ Settings!NoFile \notin Settings!File /\ 1 \in Settings!File
         /\ Settings!Default \in Settings!Document
         /\ (CHOOSE k \in Keys : TRUE) \in Keys
         /\ Settings!Torn.whole = FALSE
         /\ \A d : Settings!Holds(d).whole = TRUE /\ Settings!Holds(d).document = d
<1>1. Closing \in Settings!Savers /\ (CHOOSE k \in Keys : TRUE) \in Keys
  BY DEF Settings!SettingsAssumption, Settings!Savers
<1>2. Settings!Cardinality(Settings!Savers) \in Nat
  <2>1. IsFiniteSet(Calls) /\ IsFiniteSet({Closing})
    BY FS_Singleton, Zenon DEF Settings!SettingsAssumption, Settings!IsFiniteSet, IsFiniteSet
  <2>2. IsFiniteSet(Settings!Savers)
    BY <2>1, FS_Union DEF Settings!Savers
  <2>3. Settings!Cardinality(Settings!Savers) = Cardinality(Settings!Savers)
    BY Zenon DEF Settings!Cardinality, Cardinality
  <2> QED
    BY <2>2, <2>3, FS_CardinalityType
<1>3. Settings!NoFile \notin Settings!File /\ 1 \in Settings!File
  BY <1>2 DEF Settings!NoFile, Settings!File
<1>4. Settings!Default \in Settings!Document
  BY DEF Settings!Default, Settings!Document, Settings!SettingsAssumption
<1>5. /\ Settings!Torn.whole = FALSE
      /\ \A d : Settings!Holds(d).whole = TRUE /\ Settings!Holds(d).document = d
  BY DEF Settings!Torn, Settings!Holds
<1> QED
  BY <1>1, <1>3, <1>4, <1>5

LEMMA SettingsInitially ==
  ASSUME Settings!SettingsAssumption, Settings!Init
  PROVE  SettingsInv
<1> USE DEF Settings!Init
<1>1. /\ \A t \in Settings!Savers :
           savePc[t] = "Idle" /\ openFile[t] = Settings!NoFile /\ ~Settings!Under(t)
      /\ savePc[Closing] = "Idle"
  BY SettingsFacts DEF Settings!Under
<1>2. content \in [Settings!File -> {Settings!Torn} \cup {Settings!Holds(d) : d \in Settings!Document}]
  BY SettingsFacts
<1>3. Settings!TypeOK
  BY <1>2, SettingsFacts DEF Settings!TypeOK
<1>4. FileIsWhole
  BY SettingsFacts DEF FileIsWhole
<1>5. OneAtATime /\ \A t \in Settings!Savers : TmpIsWritten(t)
  BY <1>1 DEF OneAtATime, TmpIsWritten
<1>6. \A k \in Keys : Agrees(k)
  BY SettingsFacts DEF Agrees, Settings!Filed
<1> QED
  BY <1>1, <1>3, <1>4, <1>5, <1>6 DEF SettingsInv

(* A step of the only call that is under way.                              *)
LEMMA Alone ==
  ASSUME SettingsInv, NEW t \in Settings!Savers,
         \A u \in Settings!Savers : u # t =>
           ~Settings!Under(u) /\ savePc'[u] = savePc[u] /\ openFile'[u] = openFile[u],
         \A u \in Settings!Savers : u # t => key'[u] = key[u],
         ~overlapped, savePc[t] # "Failed",
         Settings!TypeOK', (savePc[Closing] \notin {"Put", "Apply", "Lost"})',
         FileIsWhole', TmpIsWritten(t)',
         \A k \in Keys : Sound(k) /\ Sound(k)' =>
           IF Settings!Under(t)' THEN Agreement(t, k)' ELSE Agrees(k)'
  PROVE  SettingsInv'
<1>1. \A u \in Settings!Savers : u # t => ~Settings!Under(u)'
  BY DEF Settings!Under
<1>2. OneAtATime'
  BY <1>1 DEF OneAtATime
<1>3. \A u \in Settings!Savers : TmpIsWritten(u)'
  <2> SUFFICES ASSUME NEW u \in Settings!Savers, u # t
               PROVE  TmpIsWritten(u)'
    OBVIOUS
  <2>1. savePc[u] \in {"Idle", "Done", "Failed", "Lost"} /\ openFile[u] = Settings!NoFile
    BY DEF SettingsInv, TmpIsWritten, Settings!Under
  <2>2. savePc'[u] \in {"Idle", "Done", "Failed", "Lost"} /\ openFile'[u] = Settings!NoFile
    BY <2>1
  <2> QED
    BY <2>2 DEF TmpIsWritten, Settings!NoFile
<1>4. \A k \in Keys : Sound(k)' => Sound(k)
  BY DEF Sound, Settings!Savers
<1>5. \A k \in Keys : Sound(k)' =>
        /\ \A u \in Settings!Savers : Settings!Under(u)' => Agreement(u, k)'
        /\ (\A u \in Settings!Savers : ~Settings!Under(u)') => Agrees(k)'
  BY <1>1, <1>4
<1> QED
  BY <1>2, <1>3, <1>5 DEF SettingsInv

(* A call that fails leaves nothing open.                                  *)
LEMMA FailKeepsSettings ==
  ASSUME Settings!SettingsAssumption, SettingsInv, ~overlapped, UNCHANGED overlapped,
         NEW t \in Settings!Savers, Settings!Under(t), Settings!Fail(t),
         UNCHANGED <<memory, content, path, tmp, key, text, cores, exiting>>
  PROVE  SettingsInv'
<1>1. Settings!TypeOK /\ OneAtATime /\ FileIsWhole /\ TmpIsWritten(t)
  BY DEF SettingsInv
<1>2. savePc' = [savePc EXCEPT ![t] = "Failed"] /\ openFile' = [openFile EXCEPT ![t] = Settings!NoFile]
  BY DEF Settings!Fail, Settings!Goto
<1>3. Settings!TypeOK'
  BY <1>1, <1>2 DEF Settings!TypeOK
<1>4. savePc'[t] = "Failed" /\ openFile'[t] = Settings!NoFile
  BY <1>1, <1>2 DEF Settings!TypeOK
<1>5. \A u \in Settings!Savers : u # t =>
        ~Settings!Under(u) /\ savePc'[u] = savePc[u] /\ openFile'[u] = openFile[u]
  BY <1>1, <1>2 DEF Settings!TypeOK, OneAtATime
<1>6. FileIsWhole' /\ TmpIsWritten(t)' /\ ~Settings!Under(t)'
  BY <1>1, <1>4 DEF FileIsWhole, TmpIsWritten, Settings!Under, Settings!NoFile
<1>7. (savePc[Closing] \notin {"Put", "Apply", "Lost"})'
  BY <1>1, <1>2 DEF SettingsInv, Settings!TypeOK
<1>8. savePc[t] # "Failed"
  BY DEF Settings!Under
<1>9. ASSUME NEW k \in Keys, Sound(k), Sound(k)'
      PROVE  Agrees(k)'
  <2>1. Agreement(t, k)
    BY <1>9 DEF SettingsInv
  <2>2. t = Closing \/ k # key[t]
    BY <1>4, <1>9 DEF Sound, Settings!Savers
  <2> QED
    BY <2>1, <2>2 DEF Agreement, Agrees, Settings!Filed
<1> QED
  BY <1>3, <1>5, <1>6, <1>7, <1>8, <1>9, Alone

(* A call begins when no other is under way, or nothing is claimed any more. *)
LEMMA BeginKeepsSettings ==
  ASSUME Settings!SettingsAssumption, SettingsInv, ~overlapped,
         Settings!Shutdown \/ \E t \in Settings!Savers : Settings!Take(t)
  PROVE  SettingsInv'
<1>1. /\ Settings!TypeOK /\ OneAtATime /\ FileIsWhole
      /\ savePc[Closing] \notin {"Put", "Apply", "Lost"}
  BY DEF SettingsInv
<1>2. ASSUME Settings!TypeOK', (savePc[Closing] \notin {"Put", "Apply", "Lost"})', overlapped'
      PROVE  SettingsInv'
  BY <1>2 DEF SettingsInv
<1>3. CASE Settings!Shutdown
  <2>1. /\ savePc[Closing] = "Idle" /\ savePc' = [savePc EXCEPT ![Closing] = "Copy"]
        /\ exiting' = TRUE
        /\ UNCHANGED <<memory, content, path, tmp, key, text, openFile, cores>>
    BY <1>3 DEF Settings!Shutdown, Settings!Goto, Settings!fileVars
  <2>2. overlapped' \in BOOLEAN /\ (~overlapped' => \A u \in Settings!Savers : ~Settings!Under(u))
    BY <1>3 DEF Settings!Shutdown
  <2>3. Settings!TypeOK'
    BY <1>1, <2>1, <2>2 DEF Settings!TypeOK
  <2>4. savePc'[Closing] = "Copy"
    BY <1>1, <2>1, SettingsFacts DEF Settings!TypeOK
  <2>5. CASE ~overlapped'
    <3>1. \A u \in Settings!Savers : u # Closing =>
            ~Settings!Under(u) /\ savePc'[u] = savePc[u] /\ openFile'[u] = openFile[u]
      BY <1>1, <2>1, <2>2, <2>5 DEF Settings!TypeOK
    <3>2. openFile[Closing] = Settings!NoFile
      BY <2>1, SettingsFacts DEF SettingsInv, TmpIsWritten
    <3>3. TmpIsWritten(Closing)' /\ FileIsWhole'
      BY <1>1, <2>1, <2>4, <3>2 DEF TmpIsWritten, FileIsWhole, Settings!NoFile
    <3>4. \A k \in Keys : Sound(k) => Agrees(k)
      BY <2>2, <2>5 DEF SettingsInv
    <3>5. \A k \in Keys : Sound(k) => Agreement(Closing, k)' /\ Settings!Under(Closing)'
      BY <2>1, <2>4, <3>4 DEF Agreement, Agrees, Settings!Filed, Settings!Under
    <3> QED
      BY <2>1, <2>3, <2>4, <3>1, <3>3, <3>5, Alone, SettingsFacts
  <2> QED
    BY <1>2, <2>2, <2>3, <2>4, <2>5
<1>4. ASSUME NEW t \in Settings!Savers, Settings!Take(t)
      PROVE  SettingsInv'
  <2>1. PICK k \in Keys, v \in Values :
          text' = [text EXCEPT ![t] = [memory EXCEPT ![k] = v]] /\ key' = [key EXCEPT ![t] = k]
    BY <1>4 DEF Settings!Take, Settings!Copy
  <2>2. /\ savePc[t] = "Idle" /\ t # Closing /\ savePc' = [savePc EXCEPT ![t] = "Put"]
        /\ UNCHANGED <<memory, content, path, tmp, openFile, cores, exiting>>
    BY <1>4 DEF Settings!Take, Settings!Goto, Settings!fileVars
  <2>3. overlapped' \in BOOLEAN /\ (~overlapped' => \A u \in Settings!Savers : ~Settings!Under(u))
    BY <1>4 DEF Settings!Take
  <2>4. [memory EXCEPT ![k] = v] \in Settings!Document
    BY <1>1 DEF Settings!TypeOK, Settings!Document
  <2>5. Settings!TypeOK'
    BY <1>1, <2>1, <2>2, <2>3, <2>4 DEF Settings!TypeOK
  <2>6. /\ savePc'[t] = "Put" /\ savePc'[Closing] = savePc[Closing] /\ key'[t] = k
        /\ text'[t] = [memory EXCEPT ![k] = v]
    BY <1>1, <2>1, <2>2, SettingsFacts DEF Settings!TypeOK
  <2>7. CASE ~overlapped'
    <3>1. \A u \in Settings!Savers : u # t =>
            ~Settings!Under(u) /\ savePc'[u] = savePc[u] /\ openFile'[u] = openFile[u]
      BY <1>1, <2>2, <2>3, <2>7 DEF Settings!TypeOK
    <3>2. openFile[t] = Settings!NoFile
      BY <2>2 DEF SettingsInv, TmpIsWritten
    <3>3. TmpIsWritten(t)' /\ FileIsWhole'
      BY <1>1, <2>2, <2>6, <3>2 DEF TmpIsWritten, FileIsWhole, Settings!NoFile
    <3>4. \A j \in Keys : Sound(j) => Agrees(j)
      BY <2>3, <2>7 DEF SettingsInv
    <3>5. \A j \in Keys : j # k => text'[t][j] = memory'[j]
      BY <1>1, <2>2, <2>6 DEF Settings!TypeOK, Settings!Document
    <3>6. \A j \in Keys : Sound(j) => Agreement(t, j)' /\ Settings!Under(t)'
      BY <2>2, <2>6, <3>4, <3>5 DEF Agreement, Agrees, Settings!Filed, Settings!Under
    <3>7. \A u \in Settings!Savers : u # t => key'[u] = key[u]
      BY <1>1, <2>1 DEF Settings!TypeOK
    <3> QED
      BY <1>1, <2>2, <2>5, <2>6, <3>1, <3>3, <3>6, <3>7, Alone
  <2> QED
    BY <1>1, <1>2, <2>3, <2>5, <2>6, <2>7
<1> QED
  BY <1>3, <1>4

LEMMA DocumentKeepsSettings ==
  ASSUME Settings!SettingsAssumption, SettingsInv, ~overlapped, NEW t \in Settings!Savers,
         Settings!Put(t) \/ Settings!CopyAgain(t) \/ Settings!Apply(t)
  PROVE  SettingsInv'
<1>1. /\ Settings!TypeOK /\ OneAtATime /\ FileIsWhole /\ TmpIsWritten(t)
      /\ savePc[Closing] \notin {"Put", "Apply", "Lost"}
  BY DEF SettingsInv
<1>2. /\ Settings!Under(t) /\ savePc[t] \in {"Put", "Copy", "Apply"}
      /\ UNCHANGED <<content, path, tmp, key, openFile, exiting, overlapped>>
  BY DEF Settings!Put, Settings!CopyAgain, Settings!Apply, Settings!Under, Settings!fileVars
<1>3. PICK label \in {"Copy", "Create", "Done"} : savePc' = [savePc EXCEPT ![t] = label]
  BY DEF Settings!Put, Settings!CopyAgain, Settings!Apply, Settings!Goto
<1>4. savePc'[t] = label /\ \A u \in Settings!Savers : u # t =>
        ~Settings!Under(u) /\ savePc'[u] = savePc[u] /\ openFile'[u] = openFile[u]
  BY <1>1, <1>2, <1>3 DEF Settings!TypeOK, OneAtATime
<1>5. (savePc[Closing] \notin {"Put", "Apply", "Lost"})'
  BY <1>1, <1>3, <1>4, SettingsFacts
<1>6. memory \in Settings!Document /\ text[t] \in Settings!Document /\ cores \in Settings!Document
      /\ key[t] \in Keys
  BY <1>1 DEF Settings!TypeOK
<1>7. openFile'[t] = Settings!NoFile /\ FileIsWhole'
  BY <1>1, <1>2 DEF TmpIsWritten, FileIsWhole
<1>8. \A k \in Keys : Sound(k) => Agreement(t, k)
  BY <1>2 DEF SettingsInv
<1>9. CASE Settings!Put(t)
  <2>1. memory' = text[t] /\ savePc[t] = "Put" /\ savePc'[t] = "Copy" /\ UNCHANGED <<text, cores>>
    BY <1>1, <1>9 DEF Settings!Put, Settings!Goto, Settings!TypeOK
  <2>2. Settings!TypeOK'
    BY <1>1, <1>2, <1>3, <1>6, <2>1 DEF Settings!TypeOK
  <2>3. TmpIsWritten(t)'
    BY <1>7, <2>1 DEF TmpIsWritten, Settings!NoFile
  <2>4. t # Closing
    BY <1>1, <2>1
  <2>5. \A k \in Keys : Sound(k) => Agreement(t, k)' /\ Settings!Under(t)'
    BY <1>2, <1>8, <2>1, <2>4 DEF Agreement, Agrees, Settings!Filed, Settings!Under
  <2> QED
    BY <1>2, <1>4, <1>5, <1>7, <2>1, <2>2, <2>3, <2>5, Alone
<1>10. CASE Settings!CopyAgain(t)
  <2>1. /\ text' = [text EXCEPT ![t] = memory] /\ savePc[t] = "Copy" /\ savePc'[t] = "Create"
        /\ UNCHANGED <<memory, cores>>
    BY <1>1, <1>10 DEF Settings!CopyAgain, Settings!Goto, Settings!Copy, Settings!TypeOK
  <2>2. Settings!TypeOK'
    BY <1>1, <1>2, <1>3, <1>6, <2>1 DEF Settings!TypeOK
  <2>3. TmpIsWritten(t)'
    BY <1>1, <1>7, <2>1 DEF TmpIsWritten, Settings!NoFile, Settings!TypeOK
  <2>4. \A k \in Keys : Sound(k) => Agreement(t, k)' /\ Settings!Under(t)'
    BY <1>2, <1>8, <2>1 DEF Agreement, Agrees, Settings!Filed, Settings!Under
  <2> QED
    BY <1>2, <1>4, <1>5, <1>7, <2>1, <2>2, <2>3, <2>4, Alone
<1>11. CASE Settings!Apply(t)
  <2>1. /\ cores' = [cores EXCEPT ![key[t]] = text[t][key[t]]] /\ savePc[t] = "Apply"
        /\ savePc'[t] = "Done" /\ UNCHANGED <<memory, text>>
    BY <1>1, <1>11 DEF Settings!Apply, Settings!Goto, Settings!TypeOK
  <2>2. cores' \in Settings!Document
    BY <1>6, <2>1 DEF Settings!Document
  <2>3. Settings!TypeOK'
    BY <1>1, <1>2, <1>3, <2>1, <2>2 DEF Settings!TypeOK
  <2>4. TmpIsWritten(t)'
    BY <1>7, <2>1 DEF TmpIsWritten, Settings!NoFile
  <2>5. text[t] = memory /\ \A k \in Keys : k # key[t] => cores'[k] = cores[k]
    BY <1>1, <1>6, <2>1 DEF TmpIsWritten, Settings!Document
  <2>6. \A k \in Keys : Sound(k) => Agrees(k)' /\ ~Settings!Under(t)'
    BY <1>2, <1>6, <1>8, <2>1, <2>5
       DEF Agreement, Agrees, Settings!Filed, Settings!Under, Settings!Document
  <2> QED
    BY <1>2, <1>4, <1>5, <1>7, <2>1, <2>3, <2>4, <2>6, Alone
<1> QED
  BY <1>9, <1>10, <1>11

LEMMA FileKeepsSettings ==
  ASSUME Settings!SettingsAssumption, SettingsInv, ~overlapped, NEW t \in Settings!Savers,
         Settings!Create(t) \/ Settings!Write(t) \/ Settings!Rename(t)
  PROVE  SettingsInv'
<1>1. /\ Settings!TypeOK /\ OneAtATime /\ FileIsWhole /\ TmpIsWritten(t)
      /\ savePc[Closing] \notin {"Put", "Apply", "Lost"}
  BY DEF SettingsInv
<1>2. /\ Settings!Under(t) /\ savePc[t] \in {"Create", "Write", "Rename"}
      /\ UNCHANGED <<memory, key, text, cores, exiting, overlapped>>
  BY DEF Settings!Create, Settings!Write, Settings!Rename, Settings!Under
<1>3. text[t] = memory /\ memory \in Settings!Document
  BY <1>1, <1>2 DEF TmpIsWritten, Settings!TypeOK
<1>4. \A k \in Keys : Sound(k) => Agreement(t, k)
  BY <1>2 DEF SettingsInv
<1>5. ASSUME NEW label \in {"Write", "Rename", "Apply", "Done"},
             savePc' = [savePc EXCEPT ![t] = label], t = Closing => label # "Apply",
             Settings!TypeOK', FileIsWhole', TmpIsWritten(t)',
             \A u \in Settings!Savers : u # t => openFile'[u] = openFile[u],
             \A k \in Keys : Sound(k) =>
               IF Settings!Under(t)' THEN Agreement(t, k)' ELSE Agrees(k)'
      PROVE  SettingsInv'
  <2>1. \A u \in Settings!Savers : u # t =>
          ~Settings!Under(u) /\ savePc'[u] = savePc[u] /\ openFile'[u] = openFile[u]
    BY <1>1, <1>2, <1>5 DEF Settings!TypeOK, OneAtATime
  <2>2. savePc'[t] = label
    BY <1>1, <1>5 DEF Settings!TypeOK
  <2>3. (savePc[Closing] \notin {"Put", "Apply", "Lost"})'
    BY <1>1, <1>5, <2>1, <2>2, SettingsFacts
  <2> QED
    BY <1>2, <1>5, <2>1, <2>3, Alone
<1>6. CASE Settings!Fail(t) /\ UNCHANGED <<content, path, tmp>>
  BY <1>2, <1>6, FailKeepsSettings
<1>7. CASE Settings!Create(t) /\ ~(Settings!Fail(t) /\ UNCHANGED <<content, path, tmp>>)
  <2>1. PICK f \in Settings!File :
          /\ IF tmp # Settings!NoFile THEN f = tmp ELSE f # path
          /\ tmp' = f /\ openFile' = [openFile EXCEPT ![t] = f]
          /\ content' = [content EXCEPT ![f] = Settings!Torn]
    BY <1>7 DEF Settings!Create
  <2>2. savePc' = [savePc EXCEPT ![t] = "Write"] /\ UNCHANGED path
    BY <1>7 DEF Settings!Create, Settings!Goto
  <2>3. f # path
    BY <1>1, <2>1 DEF FileIsWhole
  <2>4. Settings!TypeOK'
    BY <1>1, <1>2, <2>1, <2>2 DEF Settings!TypeOK
  <2>5. /\ savePc'[t] = "Write" /\ openFile'[t] = f /\ content'[f] = Settings!Torn
        /\ path # Settings!NoFile => content'[path] = content[path]
    BY <1>1, <2>1, <2>2, <2>3 DEF Settings!TypeOK
  <2>6. FileIsWhole'
    BY <1>1, <2>1, <2>2, <2>3, <2>5 DEF FileIsWhole
  <2>7. TmpIsWritten(t)'
    BY <1>2, <1>3, <2>1, <2>5, SettingsFacts DEF TmpIsWritten, Settings!NoFile, Settings!Torn
  <2>8. \A u \in Settings!Savers : u # t => openFile'[u] = openFile[u]
    BY <1>1, <2>1 DEF Settings!TypeOK
  <2>9. savePc[t] = "Create"
    BY <1>7 DEF Settings!Create
  <2>10. \A k \in Keys : Sound(k) => Agreement(t, k)' /\ Settings!Under(t)'
    BY <1>2, <1>4, <2>2, <2>5, <2>9 DEF Agreement, Agrees, Settings!Filed, Settings!Under
  <2> QED
    BY <1>5, <2>2, <2>4, <2>6, <2>7, <2>8, <2>10
<1>8. CASE Settings!Write(t) /\ ~(Settings!Fail(t) /\ UNCHANGED <<content, path, tmp>>)
  <2>1. savePc[t] = "Write" /\ tmp = openFile[t] /\ tmp # Settings!NoFile /\ content[tmp] = Settings!Torn
    BY <1>1, <1>8 DEF Settings!Write, TmpIsWritten
  <2>2. ~content[openFile[t]].whole
    BY <2>1, SettingsFacts
  <2>3. /\ content' = [content EXCEPT ![tmp] = Settings!Holds(memory)]
        /\ openFile' = [openFile EXCEPT ![t] = Settings!NoFile]
        /\ savePc' = [savePc EXCEPT ![t] = "Rename"] /\ UNCHANGED <<path, tmp>>
    BY <1>3, <1>8, <2>1, <2>2 DEF Settings!Write, Settings!Goto
  <2>4. tmp \in Settings!File /\ tmp # path
    BY <1>1, <2>1 DEF Settings!TypeOK, FileIsWhole
  <2>5. Settings!TypeOK'
    <3>1. content' \in [Settings!File -> {Settings!Torn} \cup
                                         {Settings!Holds(d) : d \in Settings!Document}]
      BY <1>1, <1>3, <2>3 DEF Settings!TypeOK
    <3> QED
      BY <1>1, <1>2, <2>3, <3>1 DEF Settings!TypeOK
  <2>6. /\ savePc'[t] = "Rename" /\ openFile'[t] = Settings!NoFile
        /\ content'[tmp] = Settings!Holds(memory)
        /\ path # Settings!NoFile => content'[path] = content[path]
    BY <1>1, <2>3, <2>4 DEF Settings!TypeOK
  <2>7. FileIsWhole'
    BY <1>1, <2>3, <2>4, <2>6 DEF FileIsWhole
  <2>8. TmpIsWritten(t)'
    BY <1>2, <1>3, <2>1, <2>3, <2>6 DEF TmpIsWritten, Settings!NoFile, Settings!Holds
  <2>9. \A u \in Settings!Savers : u # t => openFile'[u] = openFile[u]
    BY <1>1, <2>3 DEF Settings!TypeOK
  <2>10. \A k \in Keys : Sound(k) => Agreement(t, k)' /\ Settings!Under(t)'
    BY <1>2, <1>4, <2>1, <2>3, <2>6 DEF Agreement, Agrees, Settings!Filed, Settings!Under
  <2> QED
    BY <1>5, <2>3, <2>5, <2>7, <2>8, <2>9, <2>10
<1>9. CASE Settings!Rename(t) /\ ~(Settings!Fail(t) /\ UNCHANGED <<content, path, tmp>>)
  <2>1. /\ savePc[t] = "Rename" /\ tmp # Settings!NoFile
        /\ content[tmp] = Settings!Holds(memory) /\ openFile[t] = Settings!NoFile
    BY <1>1, <1>3, <1>9 DEF Settings!Rename, TmpIsWritten
  <2>2. PICK label \in {"Done", "Apply"} :
          savePc' = [savePc EXCEPT ![t] = label] /\ label = IF t = Closing THEN "Done" ELSE "Apply"
    BY <1>9 DEF Settings!Rename, Settings!Goto
  <2>3. path' = tmp /\ tmp' = Settings!NoFile /\ UNCHANGED <<openFile, content>>
    BY <1>9 DEF Settings!Rename
  <2>4. Settings!TypeOK'
    BY <1>1, <1>2, <2>2, <2>3 DEF Settings!TypeOK
  <2>5. savePc'[t] = label
    BY <1>1, <2>2 DEF Settings!TypeOK
  <2>6. FileIsWhole' /\ \A k \in Keys : Settings!Filed(k)'
    BY <1>2, <2>1, <2>3, SettingsFacts
       DEF FileIsWhole, Settings!Filed, Settings!NoFile, Settings!Holds
  <2>7. TmpIsWritten(t)'
    BY <1>2, <1>3, <2>1, <2>2, <2>3, <2>5 DEF TmpIsWritten, Settings!NoFile
  <2>8. \A k \in Keys : Sound(k) => IF Settings!Under(t)' THEN Agreement(t, k)' ELSE Agrees(k)'
    BY <1>2, <1>4, <2>1, <2>2, <2>5, <2>6 DEF Agreement, Agrees, Settings!Under
  <2> QED
    BY <1>5, <2>2, <2>3, <2>4, <2>6, <2>7, <2>8
<1> QED
  BY <1>6, <1>7, <1>8, <1>9 DEF Settings!Create, Settings!Write, Settings!Rename

LEMMA RestartKeepsSettings ==
  ASSUME Settings!SettingsAssumption, SettingsInv, ~overlapped, Settings!Restart
  PROVE  SettingsInv'
<1>1. Settings!TypeOK /\ FileIsWhole
  BY DEF SettingsInv
<1>2. /\ \A t \in Settings!Savers :
           /\ savePc'[t] = IF t = Closing THEN "Idle"
                           ELSE IF Settings!Under(t) \/ savePc[t] = "Failed" THEN "Lost"
                           ELSE savePc[t]
           /\ openFile'[t] = Settings!NoFile
      /\ UNCHANGED <<content, path, tmp, key, text, overlapped>>
      /\ exiting' = FALSE /\ cores' = memory'
  BY DEF Settings!Restart, Settings!fileVars
<1>3. savePc' \in [Settings!Savers -> {"Idle", "Put", "Copy", "Create", "Write", "Rename", "Apply",
                                       "Done", "Failed", "Lost"}]
  BY <1>1 DEF Settings!Restart, Settings!TypeOK
<1>4. memory' \in Settings!Document /\ \A k \in Keys : Settings!Filed(k)'
  <2>1. CASE path = Settings!NoFile
    BY <2>1, SettingsFacts DEF Settings!Restart, Settings!Filed, Settings!fileVars
  <2>2. CASE path # Settings!NoFile
    <3>1. content[path] \in {Settings!Torn} \cup {Settings!Holds(d) : d \in Settings!Document}
      BY <1>1, <2>2 DEF Settings!TypeOK
    <3>2. content[path].whole
      BY <1>1, <2>2 DEF FileIsWhole
    <3>3. PICK d \in Settings!Document : content[path] = Settings!Holds(d)
      BY <3>1, <3>2, SettingsFacts
    <3>4. memory' = d
      BY <2>2, <3>2, <3>3, SettingsFacts DEF Settings!Restart
    <3> QED
      BY <1>2, <2>2, <3>3, <3>4, SettingsFacts DEF Settings!Filed
  <2> QED
    BY <2>1, <2>2
<1>5. openFile' \in [Settings!Savers -> {Settings!NoFile} \cup Settings!File]
  BY DEF Settings!Restart
<1>6. Settings!TypeOK'
  BY <1>1, <1>2, <1>3, <1>4, <1>5 DEF Settings!TypeOK
<1>7. \A t \in Settings!Savers : ~Settings!Under(t)'
  BY <1>2 DEF Settings!Under
<1>8. \A t \in Settings!Savers : TmpIsWritten(t)'
  BY <1>2, <1>7 DEF TmpIsWritten, Settings!Under, Settings!NoFile
<1>9. OneAtATime' /\ FileIsWhole' /\ savePc'[Closing] = "Idle"
  BY <1>1, <1>2, <1>7, SettingsFacts DEF OneAtATime, FileIsWhole
<1>10. \A k \in Keys : Agrees(k)'
  BY <1>2, <1>4 DEF Agrees
<1> QED
  BY <1>6, <1>7, <1>8, <1>9, <1>10 DEF SettingsInv

LEMMA SettingsKept ==
  ASSUME Settings!SettingsAssumption, SettingsInv, ~overlapped, Settings!Next
  PROVE  SettingsInv'
BY BeginKeepsSettings, DocumentKeepsSettings, FileKeepsSettings, RestartKeepsSettings
  DEF Settings!Next, Settings!Step

LEMMA SettingsAlways == Spec => []SettingsInv
<1>1. Settings!SettingsAssumption
  BY JobAssumptions
<1>2. Init => SettingsInv
  BY <1>1, SettingsInitially DEF Init
<1>3. SettingsInv /\ [Next]_vars => SettingsInv'
  <2> SUFFICES ASSUME SettingsInv, [Next]_vars
               PROVE  SettingsInv'
    OBVIOUS
  <2>1. CASE UNCHANGED settingsVars
    BY <2>1 DEF settingsVars, SettingsInv, Settings!TypeOK, OneAtATime, FileIsWhole, TmpIsWritten,
                Sound, Agrees, Agreement, Settings!Filed, Settings!Under
  <2>2. CASE ~overlapped /\ Settings!Next
    BY <1>1, <2>2, SettingsKept
  <2> QED
    BY <2>1, <2>2 DEF Next, vars
<1> QED
  BY <1>2, <1>3, PTL DEF Spec

-----------------------------------------------------------------------------
(* LogClient                                                                *)

StreamPhase == captureSlot["device"].phase
Holding(w) == capturing[w] \/ starting[w]
StartAt(w) == jobAt[<<w, "start">>]
StartReq(w) == req[<<w, "start">>]

UiEvent == [kind : {"running", "stopped", "offline"}, gen : 0 .. MaxGen]

ReqRecords == [at : {"none", "sent", "opening", "shown", "stopping", "answered"},
               gen : 0 .. MaxGen]
JobPlaces == {"none", "gate", "processes", "call", "status", "answer", "page", "idle"}

ServiceTyped ==
  /\ captureSlot \in [{"device"} -> [phase : {"Empty", "Starting", "Live", "Stopping"},
                                     generation : 0 .. MaxGen]]
  /\ issued \in 0 .. MaxGen /\ announced \subseteq 1 .. issued
  /\ online \in BOOLEAN /\ ending \in BOOLEAN
  /\ uiEvents \in Seq(UiEvent) /\ Len(uiEvents) <= ClientEventCap

WindowsTyped ==
  /\ capturing \in [Windows -> BOOLEAN] /\ starting \in [Windows -> BOOLEAN]
  /\ closed \subseteq Windows /\ generation \in 0 .. issued /\ clicks \in 0 .. MaxClick

JobsTyped ==
  /\ gate \in Seq(Client!Job) /\ jobAt \in [Client!Job -> JobPlaces]
  /\ opened \in [Windows -> BOOLEAN] /\ shouldStop \in [Windows -> BOOLEAN]
  /\ startedGen \in [Windows -> 0 .. issued]
  /\ status \in [Client!Job -> [capturing : BOOLEAN, gen : 0 .. MaxGen]]

ClientTyped ==
  ServiceTyped /\ WindowsTyped /\ JobsTyped /\ req \in [Client!Call -> ReqRecords]

(* The slot is of the newest generation, and only a start that is under    *)
(* way opens it. A device that is gone has its detach to come, or no stream*)
(* any more.                                                               *)
StreamOK ==
  /\ StreamPhase = "Empty" <=> captureSlot["device"].generation = 0
  /\ StreamPhase # "Empty" =>
       captureSlot["device"].generation = issued /\ issued # 0 /\ issued \notin announced
  /\ StreamPhase = "Starting" =>
       \E w \in Windows : StartAt(w) = "call" /\ StartReq(w).at \in {"opening", "shown"}
  /\ StreamPhase = "Stopping" =>
       \E c \in Client!Call : req[c].at = "stopping" /\ req[c].gen = issued
  /\ StreamPhase \in {"Starting", "Live"} /\ ~online => ending

EventsOK ==
  \A i \in 1 .. Len(uiEvents) :
    /\ uiEvents[i].gen <= issued
    /\ uiEvents[i].kind = "stopped" => uiEvents[i].gen \in announced
    /\ uiEvents[i].kind = "offline" => ~online

(* The jobs of the gate move one at a time, and a stop that waits there is *)
(* of a window that has let go.                                            *)
GateOK ==
  /\ \A i, k \in 1 .. Len(gate) : gate[i] = gate[k] => i = k
  /\ \A j \in Client!Job : jobAt[j] # "none" => \E i \in 1 .. Len(gate) : gate[i] = j
  /\ \A i \in 1 .. Len(gate) :
       /\ jobAt[gate[i]] # "none"
       /\ i > 1 => jobAt[gate[i]] = "gate"
       /\ \A k \in 1 .. Len(gate) : \A w \in Windows :
            /\ gate[i] = <<w, "start">> /\ gate[k] = <<w, "stop">>
            /\ jobAt[gate[i]] = "gate"
            => k < i
  /\ \A j \in Client!Job : jobAt[j] = "gate" => ~Holding(j[1])
  /\ \A w \in Windows :
       starting[w] => StartAt(w) \in {"processes", "call", "status", "answer", "page"}

(* The calls of a start.                                                   *)
StartsOK ==
  \A w \in Windows :
    /\ StartReq(w).at # "none" => StartAt(w) = "call" /\ StartReq(w).at # "stopping"
    /\ StartReq(w).at = "sent" => StartReq(w).gen = 0
    /\ StartReq(w).at \in {"opening", "shown"} =>
         StartReq(w).gen = issued /\ StreamPhase # "Live"
    /\ StartReq(w).at = "answered" =>
         /\ StartReq(w).gen \in {0, issued}
         /\ StartReq(w).gen = 0 /\ StreamPhase = "Live" => ending
    /\ StartAt(w) = "processes" => ~capturing[w]
    /\ StartAt(w) = "call" => opened[w] /\ \A v \in Windows : ~capturing[v]

(* What is remembered of the stream is of the newest one: of a window that *)
(* captures, of one that waits for its status, and of the status itself.   *)
NewestIsKnown ==
  /\ \A w \in Windows :
       /\ capturing[w] => generation = issued
       /\ starting[w] /\ StartAt(w) \in {"status", "answer"} => generation = issued
       /\ StartAt(w) = "page" /\ starting[w] => StreamPhase # "Live"
  /\ \A j \in Client!Job :
       jobAt[j] = "answer" =>
         status[j].gen = issued /\ (StreamPhase = "Live" => status[j].capturing)

(* The end of what a window shows, or is about to show, is still to come.  *)
EndIsToCome ==
  /\ issued # 0
  /\ issued \in announced =>
       \E i \in 1 .. Len(uiEvents) : uiEvents[i] = [kind |-> "stopped", gen |-> issued]

ShownEnds ==
  \A w \in Windows :
    \/ capturing[w]
    \/ starting[w] /\ StartAt(w) = "answer" /\ status[<<w, "start">>].capturing
    => EndIsToCome

(* Somebody will end a Live stream: its detach, a window that shows it or  *)
(* is about to, a stop on its way, or the start that opened it.            *)
SomebodyEnds ==
  StreamPhase = "Live" =>
    \/ ending
    \/ \E w \in Windows : capturing[w]
    \/ \E c \in Client!Call : c[2] # "start" /\ req[c].at = "sent"
    \/ \E w \in Windows :
         \/ starting[w] /\ generation = issued
         \/ opened[w] /\ StartAt(w) \in {"call", "status", "answer", "page"}

ClientInv ==
  /\ ClientTyped /\ StreamOK /\ EventsOK /\ GateOK /\ StartsOK /\ NewestIsKnown /\ ShownEnds
  /\ SomebodyEnds

ClientFacts ==
  /\ ClientTyped /\ StreamOK /\ EventsOK /\ GateOK /\ StartsOK /\ NewestIsKnown /\ ShownEnds
  /\ SomebodyEnds /\ MaxGen \in Nat /\ MaxClick \in Nat /\ ClientEventCap \in Nat

LEMMA CallsAre ==
  /\ \A w \in Windows :
       /\ <<w, "start">> \in Client!Job /\ <<w, "stop">> \in Client!Job
       /\ \A k \in {"start", "stop", "idle", "close"} : <<w, k>> \in Client!Call
  /\ \A j \in Client!Job :
       j[1] \in Windows /\ (j = <<j[1], "start">> \/ j = <<j[1], "stop">>) /\ j \in Client!Call
  /\ \A v, w \in Windows : \A k \in {"start", "stop"} :
       /\ <<v, k>> = <<w, "start">> => v = w /\ k = "start"
       /\ <<v, k>> = <<w, "stop">> => v = w /\ k = "stop"
BY DEF Client!Job, Client!Call

(* One call, one job is moved and the others stay.                         *)
LEMMA CallMoves ==
  ASSUME req \in [Client!Call -> ReqRecords], NEW c \in Client!Call,
         NEW k \in {"none", "sent", "opening", "shown", "stopping", "answered"},
         NEW g \in 0 .. MaxGen, req' = [req EXCEPT ![c] = [at |-> k, gen |-> g]]
  PROVE  /\ req' \in [Client!Call -> ReqRecords]
         /\ req'[c].at = k /\ req'[c].gen = g
         /\ \A x \in Client!Call : x # c => req'[x] = req[x]
<1>1. [at |-> k, gen |-> g] \in ReqRecords
  BY DEF ReqRecords
<1> QED
  BY <1>1

LEMMA CallStays ==
  ASSUME req \in [Client!Call -> ReqRecords], NEW c \in Client!Call, NEW k,
         req' = [req EXCEPT ![c].at = k]
  PROVE  req' = [req EXCEPT ![c] = [at |-> k, gen |-> req[c].gen]]
<1>1. req[c] \in ReqRecords
  OBVIOUS
<1>2. [req[c] EXCEPT !.at = k] = [at |-> k, gen |-> req[c].gen]
  BY <1>1 DEF ReqRecords
<1> QED
  BY <1>2

LEMMA JobMoves ==
  ASSUME jobAt \in [Client!Job -> JobPlaces], NEW j \in Client!Job, NEW k \in JobPlaces,
         jobAt' = [jobAt EXCEPT ![j] = k]
  PROVE  /\ jobAt' \in [Client!Job -> JobPlaces] /\ jobAt'[j] = k
         /\ \A x \in Client!Job : x # j => jobAt'[x] = jobAt[x]
OBVIOUS

LEMMA Head1 ==
  ASSUME ClientFacts, NEW j \in Client!Job, jobAt[j] \notin {"none", "gate"}
  PROVE  /\ gate # << >> /\ gate[1] = j /\ Head(gate) = j /\ Len(gate) \in Nat /\ Len(gate) >= 1
         /\ gate \in Seq(Client!Job)
         /\ \A x \in Client!Job : x # j => jobAt[x] \in {"none", "gate"}
<1>1. gate \in Seq(Client!Job) /\ Len(gate) \in Nat /\ GateOK
  BY DEF ClientFacts, ClientTyped, JobsTyped
<1>2. PICK i \in 1 .. Len(gate) : gate[i] = j
  BY <1>1 DEF GateOK
<1>3. i > 1 => jobAt[gate[i]] = "gate"
  BY <1>1 DEF GateOK
<1>4. i = 1
  BY <1>1, <1>2, <1>3
<1>5. ASSUME NEW x \in Client!Job, x # j, jobAt[x] # "none"
      PROVE  jobAt[x] = "gate"
  <2>1. PICK k \in 1 .. Len(gate) : gate[k] = x
    BY <1>1, <1>5 DEF GateOK
  <2>2. k > 1 => jobAt[gate[k]] = "gate"
    BY <1>1 DEF GateOK
  <2> QED
    BY <1>1, <1>2, <1>4, <1>5, <2>1, <2>2
<1> QED
  BY <1>1, <1>2, <1>4, <1>5

LEMMA OneStarts ==
  ASSUME ClientFacts, NEW w \in Windows, StartAt(w) \notin {"none", "gate"}
  PROVE  /\ gate # << >> /\ gate[1] = <<w, "start">> /\ Len(gate) \in Nat /\ Len(gate) >= 1
         /\ \A v \in Windows : v # w => StartAt(v) \in {"none", "gate"} /\ ~starting[v]
         /\ \A v \in Windows : jobAt[<<v, "stop">>] \in {"none", "gate"}
<1>1. <<w, "start">> \in Client!Job /\ jobAt[<<w, "start">>] \notin {"none", "gate"}
  BY CallsAre DEF StartAt
<1>2. /\ gate # << >> /\ gate[1] = <<w, "start">> /\ Len(gate) \in Nat /\ Len(gate) >= 1
      /\ \A x \in Client!Job : x # <<w, "start">> => jobAt[x] \in {"none", "gate"}
  BY <1>1, Head1
<1>3. \A v \in Windows : v # w => StartAt(v) \in {"none", "gate"}
  BY <1>2, CallsAre DEF StartAt
<1>4. \A v \in Windows : v # w => ~starting[v]
  BY <1>3 DEF ClientFacts, GateOK
<1>5. \A v \in Windows : jobAt[<<v, "stop">>] \in {"none", "gate"}
  BY <1>2, CallsAre
<1> QED
  BY <1>2, <1>3, <1>4, <1>5

LEMMA GateRests ==
  ASSUME GateOK, UNCHANGED <<gate, jobAt, capturing, starting>>
  PROVE  GateOK'
BY DEF GateOK, Holding, StartAt

(* A job at its head moves on, the hands stay.                             *)
LEMMA GateKeeps ==
  ASSUME GateOK, gate' = gate, capturing' = capturing, starting' = starting,
         \A i \in 1 .. Len(gate) : gate[i] \in Client!Job,
         \A x \in Client!Job : /\ jobAt'[x] = "none" <=> jobAt[x] = "none"
                               /\ jobAt'[x] = "gate" <=> jobAt[x] = "gate",
         \A w \in Windows :
           \/ StartAt(w)' = StartAt(w)
           \/ StartAt(w)' \in {"processes", "call", "status", "answer", "page"}
  PROVE  GateOK'
<1>1. \A i, k \in 1 .. Len(gate') : gate'[i] = gate'[k] => i = k
  BY DEF GateOK
<1>2. \A j \in Client!Job : jobAt'[j] # "none" => \E i \in 1 .. Len(gate') : gate'[i] = j
  BY DEF GateOK
<1>3. \A i \in 1 .. Len(gate') :
        /\ jobAt'[gate'[i]] # "none"
        /\ i > 1 => jobAt'[gate'[i]] = "gate"
        /\ \A k \in 1 .. Len(gate') : \A w \in Windows :
             /\ gate'[i] = <<w, "start">> /\ gate'[k] = <<w, "stop">>
             /\ jobAt'[gate'[i]] = "gate"
             => k < i
  BY DEF GateOK
<1>4. \A j \in Client!Job : jobAt'[j] = "gate" => ~Holding(j[1])'
  BY DEF GateOK, Holding
<1>5. \A w \in Windows :
        starting'[w] => StartAt(w)' \in {"processes", "call", "status", "answer", "page"}
  BY DEF GateOK
<1> QED
  BY <1>1, <1>2, <1>3, <1>4, <1>5 DEF GateOK

LEMMA ClientInitially ==
  ASSUME Client!ClientAssumption, Client!Init
  PROVE  ClientInv
<1>1. captureSlot["device"] = [phase |-> "Empty", generation |-> 0]
  BY DEF Client!Init, Client!Capture!Init, Client!Capture!NoSlot
<1>2. gate \in Seq(Client!Job) /\ Len(gate) = 0 /\ uiEvents \in Seq(UiEvent) /\ Len(uiEvents) = 0
  BY NoneQueued DEF Client!Init
<1>3. issued = 0 /\ announced = {} /\ generation = 0 /\ clicks = 0 /\ closed = {}
      /\ online = TRUE /\ ending = FALSE
  BY DEF Client!Init, Client!Capture!Init
<1>4. MaxGen \in Nat /\ MaxClick \in Nat /\ ClientEventCap \in Nat
  BY DEF Client!ClientAssumption
<1>5. captureSlot \in [{"device"} -> [phase : {"Empty", "Starting", "Live", "Stopping"},
                                      generation : 0 .. MaxGen]]
  BY <1>4 DEF Client!Init, Client!Capture!Init, Client!Capture!NoSlot
<1>6. /\ req \in [Client!Call -> ReqRecords]
      /\ \A c \in Client!Call : req[c].at = "none" /\ req[c].gen = 0
  BY <1>4 DEF Client!Init, Client!NoCall, ReqRecords
<1>7. /\ jobAt \in [Client!Job -> JobPlaces]
      /\ \A j \in Client!Job : jobAt[j] = "none"
  BY DEF Client!Init, JobPlaces
<1>8. status \in [Client!Job -> [capturing : BOOLEAN, gen : 0 .. MaxGen]]
  BY <1>4 DEF Client!Init, Client!NoStatus
<1>9. /\ capturing \in [Windows -> BOOLEAN] /\ starting \in [Windows -> BOOLEAN]
      /\ opened \in [Windows -> BOOLEAN] /\ shouldStop \in [Windows -> BOOLEAN]
      /\ \A w \in Windows : ~capturing[w] /\ ~starting[w]
      /\ startedGen \in [Windows -> 0 .. issued]
  BY <1>3 DEF Client!Init
<1>10. ClientTyped
  <2>1. ServiceTyped
    <3>1. issued \in 0 .. MaxGen /\ announced \subseteq 1 .. issued
      BY <1>3, <1>4
    <3>2. Len(uiEvents) <= ClientEventCap
      BY <1>2, <1>4
    <3> QED
      BY <1>2, <1>3, <1>5, <3>1, <3>2 DEF ServiceTyped
  <2>2. WindowsTyped
    BY <1>3, <1>4, <1>9 DEF WindowsTyped
  <2>3. JobsTyped
    BY <1>2, <1>7, <1>8, <1>9 DEF JobsTyped
  <2> QED
    BY <1>6, <2>1, <2>2, <2>3 DEF ClientTyped
<1>11. StreamOK /\ EventsOK
  BY <1>1, <1>2, <1>3 DEF StreamOK, EventsOK, StreamPhase
<1>12. GateOK
  <2>1. \A j \in Client!Job : ~Holding(j[1])
    BY <1>9, CallsAre DEF Holding
  <2> QED
    BY <1>2, <1>7, <1>9, <2>1, CallsAre DEF GateOK
<1>14. StartsOK
  BY <1>6, <1>7, <1>9, CallsAre DEF StartsOK, StartAt, StartReq
<1>13. NewestIsKnown /\ ShownEnds /\ SomebodyEnds
  BY <1>1, <1>7, <1>9, CallsAre DEF NewestIsKnown, ShownEnds, SomebodyEnds, StartAt, StreamPhase
<1> QED
  BY <1>10, <1>11, <1>12, <1>13, <1>14 DEF ClientInv

(* The service answers a start.                                            *)
LEMMA ServeStartKeepsClient ==
  ASSUME ClientFacts, NEW w \in Windows, Client!ServeStart(w)
  PROVE  ClientInv'
<1> USE CallsAre DEF Client!serviceVars, Client!deviceVars, Client!windowVars, Client!jobVars,
                     Client!clientVars
<1>1. /\ ClientTyped /\ StreamOK /\ EventsOK /\ GateOK /\ StartsOK /\ NewestIsKnown /\ ShownEnds
      /\ SomebodyEnds /\ MaxGen \in Nat
  BY DEF ClientFacts
<1> DEFINE c == <<w, "start">>
           Is(k, g) == req' = [req EXCEPT ![c] = [at |-> k, gen |-> g]]
<1>2. /\ StartReq(w).at = "sent" /\ StartReq(w).gen = 0 /\ StartAt(w) = "call" /\ c \in Client!Call
      /\ UNCHANGED <<online, ending, uiEvents, capturing, starting, closed, generation, gate,
                     jobAt, opened, shouldStop, startedGen, status, clicks>>
  BY <1>1 DEF Client!ServeStart, StartsOK, StartReq
<1>3. req[c].at = "sent" /\ req[c].gen = 0 /\ req \in [Client!Call -> ReqRecords]
  BY <1>1, <1>2 DEF ClientTyped, StartReq
<1>4. ASSUME req' = [req EXCEPT ![c].at = "answered"]
      PROVE  Is("answered", 0)
  <2>1. req' = [req EXCEPT ![c] = [at |-> "answered", gen |-> req[c].gen]]
    BY <1>2, <1>3, <1>4, CallStays
  <2> QED
    BY <1>3, <2>1
<1>5. GateOK'
  BY <1>1, <1>2, GateRests
<1>6. \/ /\ StreamPhase = "Empty" /\ online /\ issued' = issued + 1 /\ issued < MaxGen
         /\ captureSlot' = [captureSlot EXCEPT !["device"] =
                              [phase |-> "Starting", generation |-> issued']]
         /\ Is("opening", issued') /\ UNCHANGED announced
      \/ /\ UNCHANGED <<captureSlot, issued, announced>>
         /\ \/ ~online /\ Is("answered", 0)
            \/ StreamPhase = "Live" /\ Is("answered", captureSlot["device"].generation)
  BY <1>4 DEF Client!ServeStart, Client!Capture!Open, Client!Capture!NoSlot, Client!Phase, StreamPhase
<1>7. \A v \in Windows : v # w => StartAt(v) \in {"none", "gate"} /\ ~starting[v]
  BY <1>2, OneStarts
<1>10. \A j \in Client!Job : jobAt[j] # "answer"
  BY <1>2, Head1 DEF StartAt
<1>8. CASE /\ StreamPhase = "Empty" /\ online /\ issued' = issued + 1 /\ issued < MaxGen
           /\ captureSlot' = [captureSlot EXCEPT !["device"] =
                                [phase |-> "Starting", generation |-> issued']]
           /\ Is("opening", issued') /\ UNCHANGED announced
  <2>1. /\ req' \in [Client!Call -> ReqRecords]
        /\ req'[c].at = "opening" /\ req'[c].gen = issued'
        /\ \A x \in Client!Call : x # c => req'[x] = req[x]
    <3>1. issued' \in 0 .. MaxGen
      BY <1>1, <1>8 DEF ClientTyped, ServiceTyped
    <3> QED
      BY <1>2, <1>3, <1>8, <3>1, CallMoves
  <2>2. StreamPhase' = "Starting" /\ captureSlot'["device"].generation = issued'
    BY <1>1, <1>8 DEF ClientTyped, ServiceTyped, StreamPhase
  <2>3. ServiceTyped'
    BY <1>1, <1>2, <1>8 DEF ClientTyped, ServiceTyped
  <2>4. ClientTyped'
    <3>1. 0 .. issued \subseteq 0 .. issued'
      BY <1>1, <1>8 DEF ClientTyped, ServiceTyped
    <3>2. WindowsTyped'
      BY <1>1, <1>2, <3>1 DEF ClientTyped, WindowsTyped
    <3>3. startedGen' \in [Windows -> 0 .. issued']
      BY <1>1, <1>2, <3>1 DEF ClientTyped, JobsTyped
    <3>4. JobsTyped'
      BY <1>1, <1>2, <3>3 DEF ClientTyped, JobsTyped
    <3> QED
      BY <2>1, <2>3, <3>2, <3>4 DEF ClientTyped
  <2>5. StreamOK'
    <3>1. issued \in Nat /\ announced \subseteq 1 .. issued
      BY <1>1 DEF ClientTyped, ServiceTyped
    <3>2. StartAt(w)' = "call" /\ StartReq(w)'.at = "opening"
      BY <1>2, <2>1 DEF StartAt, StartReq
    <3> QED
      BY <1>2, <1>8, <2>2, <3>1, <3>2 DEF StreamOK
  <2>6. EventsOK'
    <3>1. issued \in Nat /\ \A i \in 1 .. Len(uiEvents) : uiEvents[i] \in UiEvent
      BY <1>1 DEF ClientTyped, ServiceTyped
    <3>2. \A i \in 1 .. Len(uiEvents) : uiEvents[i].gen \in Nat
      BY <1>1, <3>1 DEF UiEvent
    <3> QED
      BY <1>1, <1>2, <1>8, <3>1, <3>2 DEF EventsOK
  <2>7. StartsOK'
    BY <1>1, <1>2, <1>7, <2>1, <2>2 DEF StartsOK, StartAt, StartReq
  <2>8. NewestIsKnown'
    BY <1>1, <1>2, <1>7, <1>10, <2>2 DEF NewestIsKnown, StartsOK, StartAt
  <2>9. ShownEnds' /\ SomebodyEnds'
    BY <1>1, <1>2, <1>7, <2>2 DEF ShownEnds, SomebodyEnds, StartsOK, StartAt
  <2> QED
    BY <1>5, <2>4, <2>5, <2>6, <2>7, <2>8, <2>9 DEF ClientInv
<1>9. CASE /\ UNCHANGED <<captureSlot, issued, announced>>
           /\ \/ ~online /\ Is("answered", 0)
              \/ StreamPhase = "Live" /\ Is("answered", captureSlot["device"].generation)
  <2>1. PICK g \in {0, issued} : Is("answered", g) /\ (g = 0 /\ StreamPhase = "Live" => ending)
    BY <1>1, <1>9 DEF StreamOK
  <2>2. /\ req' \in [Client!Call -> ReqRecords]
        /\ req'[c].at = "answered" /\ req'[c].gen = g
        /\ \A x \in Client!Call : x # c => req'[x] = req[x]
    <3>1. g \in 0 .. MaxGen
      BY <1>1, <2>1 DEF ClientTyped, ServiceTyped
    <3> QED
      BY <1>2, <1>3, <2>1, <3>1, CallMoves
  <2>3. ClientTyped'
    BY <1>1, <1>2, <1>9, <2>2 DEF ClientTyped, ServiceTyped, WindowsTyped, JobsTyped
  <2>4. StreamPhase' = StreamPhase
    BY <1>9 DEF StreamPhase
  <2>5. StreamOK'
    BY <1>1, <1>2, <1>3, <1>7, <1>9, <2>2, <2>4 DEF StreamOK, StartAt, StartReq
  <2>6. EventsOK'
    BY <1>1, <1>2, <1>9 DEF EventsOK
  <2>7. StartsOK'
    BY <1>1, <1>2, <1>9, <2>1, <2>2, <2>4 DEF StartsOK, StartAt, StartReq
  <2>8. NewestIsKnown' /\ ShownEnds'
    BY <1>1, <1>2, <1>9, <2>4 DEF NewestIsKnown, ShownEnds, EndIsToCome, StartAt
  <2>9. SomebodyEnds'
    BY <1>1, <1>2, <1>9, <2>2, <2>4 DEF SomebodyEnds, StartAt
  <2> QED
    BY <1>5, <2>3, <2>5, <2>6, <2>7, <2>8, <2>9 DEF ClientInv
<1> QED
  BY <1>6, <1>8, <1>9

(* What a step leaves as it is.                                            *)
LEMMA NewestRests ==
  ASSUME NewestIsKnown, UNCHANGED <<capturing, starting, jobAt, generation, issued, status>>,
         StreamPhase' = "Live" => StreamPhase = "Live"
  PROVE  NewestIsKnown'
BY DEF NewestIsKnown, StartAt

LEMMA ShownRests ==
  ASSUME ShownEnds, UNCHANGED <<capturing, starting, jobAt, status>>,
         EndIsToCome => EndIsToCome'
  PROVE  ShownEnds'
BY DEF ShownEnds, StartAt

LEMMA EventSent ==
  ASSUME ClientFacts, NEW e \in UiEvent, Len(uiEvents) < ClientEventCap,
         uiEvents' = Append(uiEvents, e)
  PROVE  /\ uiEvents' \in Seq(UiEvent) /\ Len(uiEvents') <= ClientEventCap
         /\ Len(uiEvents) \in Nat /\ Len(uiEvents') = Len(uiEvents) + 1
         /\ uiEvents'[Len(uiEvents')] = e
         /\ \A i \in 1 .. Len(uiEvents') :
              (i \in 1 .. Len(uiEvents) /\ uiEvents'[i] = uiEvents[i]) \/ uiEvents'[i] = e
         /\ \A i \in 1 .. Len(uiEvents) : i \in 1 .. Len(uiEvents') /\ uiEvents'[i] = uiEvents[i]
<1>1. uiEvents \in Seq(UiEvent) /\ ClientEventCap \in Nat
  BY DEF ClientFacts, ClientTyped, ServiceTyped
<1> QED
  BY <1>1, Appended

LEMMA SendRunningKeepsClient ==
  ASSUME ClientFacts, NEW w \in Windows, Client!SendRunning(w)
  PROVE  ClientInv'
<1> USE CallsAre DEF Client!serviceVars, Client!deviceVars, Client!windowVars, Client!jobVars,
                     Client!clientVars
<1>1. /\ ClientTyped /\ StreamOK /\ EventsOK /\ GateOK /\ StartsOK /\ NewestIsKnown /\ ShownEnds
      /\ SomebodyEnds /\ MaxGen \in Nat /\ issued \in 0 .. MaxGen
      /\ req \in [Client!Call -> ReqRecords]
  BY DEF ClientFacts, ClientTyped, ServiceTyped
<1> DEFINE c == <<w, "start">>
           e == [kind |-> "running", gen |-> issued]
<1>2. /\ StartReq(w).at = "opening" /\ StartReq(w).gen = issued /\ StartAt(w) = "call"
      /\ Len(uiEvents) < ClientEventCap /\ uiEvents' = Append(uiEvents, e)
      /\ req' = [req EXCEPT ![c].at = "shown"]
      /\ UNCHANGED <<captureSlot, issued, announced, online, ending, capturing, starting, closed,
                     generation, gate, jobAt, opened, shouldStop, startedGen, status, clicks>>
  BY <1>1 DEF Client!SendRunning, Client!Push, StartsOK, StartReq
<1>3. req' = [req EXCEPT ![c] = [at |-> "shown", gen |-> issued]]
  <2>1. req' = [req EXCEPT ![c] = [at |-> "shown", gen |-> req[c].gen]]
    BY <1>1, <1>2, CallStays
  <2> QED
    BY <1>2, <2>1 DEF StartReq
<1>4. /\ req' \in [Client!Call -> ReqRecords]
      /\ req'[c].at = "shown" /\ req'[c].gen = issued
      /\ \A x \in Client!Call : x # c => req'[x] = req[x]
  BY <1>1, <1>2, <1>3, CallMoves
<1>5. e \in UiEvent
  BY <1>1 DEF UiEvent
<1>6. /\ uiEvents' \in Seq(UiEvent) /\ Len(uiEvents') <= ClientEventCap
      /\ \A i \in 1 .. Len(uiEvents') :
           (i \in 1 .. Len(uiEvents) /\ uiEvents'[i] = uiEvents[i]) \/ uiEvents'[i] = e
      /\ \A i \in 1 .. Len(uiEvents) : i \in 1 .. Len(uiEvents') /\ uiEvents'[i] = uiEvents[i]
  BY <1>2, <1>5, EventSent
<1>7. StreamPhase' = StreamPhase
  BY <1>2 DEF StreamPhase
<1>8. ClientTyped'
  BY <1>1, <1>2, <1>4, <1>6 DEF ClientTyped, ServiceTyped, WindowsTyped, JobsTyped
<1>9. StreamOK'
  BY <1>1, <1>2, <1>4, <1>7 DEF StreamOK, StartAt, StartReq
<1>10. EventsOK'
  BY <1>1, <1>2, <1>6 DEF EventsOK
<1>11. GateOK'
  BY <1>1, <1>2, GateRests
<1>12. StartsOK'
  BY <1>1, <1>2, <1>4, <1>7 DEF StartsOK, StartAt, StartReq
<1>13. NewestIsKnown' /\ ShownEnds'
  <2>1. EndIsToCome => EndIsToCome'
    BY <1>2, <1>6 DEF EndIsToCome
  <2> QED
    BY <1>1, <1>2, <1>7, <2>1, NewestRests, ShownRests
<1>14. SomebodyEnds'
  BY <1>1, <1>2, <1>4, <1>7 DEF SomebodyEnds, StartAt, StartReq
<1> QED
  BY <1>8, <1>9, <1>10, <1>11, <1>12, <1>13, <1>14 DEF ClientInv

LEMMA StartEndsKeepsClient ==
  ASSUME ClientFacts, NEW w \in Windows, Client!StartEnds(w)
  PROVE  ClientInv'
<1> USE CallsAre DEF Client!serviceVars, Client!deviceVars, Client!windowVars, Client!jobVars,
                     Client!clientVars
<1>1. /\ ClientTyped /\ StreamOK /\ EventsOK /\ GateOK /\ StartsOK /\ NewestIsKnown /\ ShownEnds
      /\ SomebodyEnds /\ MaxGen \in Nat /\ issued \in 0 .. MaxGen
      /\ req \in [Client!Call -> ReqRecords]
  BY DEF ClientFacts, ClientTyped, ServiceTyped
<1> DEFINE c == <<w, "start">>
           mine == captureSlot["device"].generation = StartReq(w).gen /\ StreamPhase = "Starting"
           Is(g) == req' = [req EXCEPT ![c] = [at |-> "answered", gen |-> g]]
<1>2. /\ StartReq(w).at \in {"opening", "shown"} /\ StartReq(w).gen = issued /\ StartAt(w) = "call"
      /\ StreamPhase # "Live" /\ opened[w] /\ \A v \in Windows : ~capturing[v]
      /\ UNCHANGED <<issued, announced, online, ending, uiEvents, capturing, starting, closed,
                     generation, gate, jobAt, opened, shouldStop, startedGen, status, clicks>>
  BY <1>1 DEF Client!StartEnds, Client!Capture!GoLive, Client!Capture!Drop, StartsOK, StartReq
<1>3. ASSUME req' = [req EXCEPT ![c].at = "answered"]
      PROVE  Is(issued)
  <2>1. req' = [req EXCEPT ![c] = [at |-> "answered", gen |-> req[c].gen]]
    BY <1>1, <1>2, <1>3, CallStays
  <2> QED
    BY <1>2, <2>1 DEF StartReq
<1>4. \/ mine /\ Is(issued) /\ captureSlot' = [captureSlot EXCEPT !["device"].phase = "Live"]
      \/ /\ Is(0)
         /\ \/ mine /\ captureSlot' = [captureSlot EXCEPT !["device"] = Client!Capture!NoSlot]
            \/ ~mine /\ captureSlot' = captureSlot
  BY <1>3 DEF Client!StartEnds, Client!Capture!GoLive, Client!Capture!Drop, StreamPhase,
              Client!Phase, StartReq
<1>5. PICK g \in {0, issued} : Is(g)
  BY <1>4
<1>6. /\ req' \in [Client!Call -> ReqRecords]
      /\ req'[c].at = "answered" /\ req'[c].gen = g
      /\ \A x \in Client!Call : x # c => req'[x] = req[x]
  <2>1. g \in 0 .. MaxGen
    BY <1>1
  <2> QED
    BY <1>1, <1>5, <2>1, CallMoves
<1>7. /\ \/ StreamPhase' = "Live" /\ StreamPhase = "Starting" /\ g = issued
            /\ captureSlot'["device"].generation = captureSlot["device"].generation
         \/ StreamPhase' = "Empty" /\ captureSlot'["device"].generation = 0
         \/ StreamPhase # "Starting" /\ captureSlot' = captureSlot
      /\ captureSlot' \in [{"device"} -> [phase : {"Empty", "Starting", "Live", "Stopping"},
                                          generation : 0 .. MaxGen]]
  <2>1. /\ captureSlot \in [{"device"} -> [phase : {"Empty", "Starting", "Live", "Stopping"},
                                           generation : 0 .. MaxGen]]
        /\ captureSlot["device"] \in [phase : {"Empty", "Starting", "Live", "Stopping"},
                                      generation : 0 .. MaxGen]
    BY <1>1 DEF ClientTyped, ServiceTyped
  <2>2. CASE mine /\ Is(issued) /\ captureSlot' = [captureSlot EXCEPT !["device"].phase = "Live"]
    <3>1. g = issued
      <4>1. req'[c] = [at |-> "answered", gen |-> issued]
        BY <1>1, <2>2
      <4> QED
        BY <1>6, <4>1
    <3> QED
      BY <2>1, <2>2, <3>1 DEF StreamPhase
  <2>3. CASE mine /\ captureSlot' = [captureSlot EXCEPT !["device"] = Client!Capture!NoSlot]
    BY <1>1, <2>1, <2>3 DEF Client!Capture!NoSlot, StreamPhase
  <2>4. CASE ~mine /\ captureSlot' = captureSlot
    <3>1. StreamPhase # "Starting"
      BY <1>1, <1>2, <2>4 DEF StreamOK
    <3> QED
      BY <2>1, <2>4, <3>1
  <2> QED
    BY <1>4, <2>2, <2>3, <2>4
<1>8. ClientTyped'
  BY <1>1, <1>2, <1>6, <1>7 DEF ClientTyped, ServiceTyped, WindowsTyped, JobsTyped
<1>9. \/ StreamPhase' = "Live" /\ StreamPhase = "Starting" /\ g = issued
         /\ captureSlot'["device"].generation = captureSlot["device"].generation
      \/ StreamPhase' = "Empty" /\ captureSlot'["device"].generation = 0
      \/ /\ StreamPhase \notin {"Starting", "Live"} /\ StreamPhase' = StreamPhase
         /\ captureSlot'["device"].generation = captureSlot["device"].generation
  BY <1>2, <1>7 DEF StreamPhase
<1>10. StreamOK'
  BY <1>1, <1>2, <1>6, <1>9 DEF StreamOK, StartReq
<1>11. EventsOK'
  BY <1>1, <1>2 DEF EventsOK
<1>12. GateOK'
  BY <1>1, <1>2, GateRests
<1>13. StartsOK'
  <2>1. \A v \in Windows : v # w => StartReq(v).at = "none"
    BY <1>1, <1>2, OneStarts DEF StartsOK
  <2>2. issued # 0 \/ StreamPhase' # "Live"
    BY <1>1, <1>9 DEF StreamOK
  <2> QED
    BY <1>1, <1>2, <1>6, <1>9, <2>1, <2>2 DEF StartsOK, StartAt, StartReq
<1>14. NewestIsKnown'
  <2>1. \A j \in Client!Job : jobAt[j] # "answer"
    BY <1>2, Head1 DEF StartAt
  <2>2. \A v \in Windows : StartAt(v) # "page" /\ StartAt(v) \notin {"status", "answer"}
    BY <1>2, OneStarts
  <2> QED
    BY <1>2, <2>1, <2>2 DEF NewestIsKnown, StartAt
<1>15. ShownEnds'
  <2>1. EndIsToCome => EndIsToCome'
    BY <1>2 DEF EndIsToCome
  <2> QED
    BY <1>1, <1>2, <2>1, ShownRests
<1>16. SomebodyEnds'
  BY <1>2 DEF SomebodyEnds, StartAt
<1> QED
  BY <1>8, <1>10, <1>11, <1>12, <1>13, <1>14, <1>15, <1>16 DEF ClientInv

LEMMA ServeStopKeepsClient ==
  ASSUME ClientFacts, NEW c \in Client!Call, Client!ServeStop(c)
  PROVE  ClientInv'
<1> USE CallsAre DEF Client!serviceVars, Client!deviceVars, Client!windowVars, Client!jobVars,
                     Client!clientVars
<1>1. /\ ClientTyped /\ StreamOK /\ EventsOK /\ GateOK /\ StartsOK /\ NewestIsKnown /\ ShownEnds
      /\ SomebodyEnds /\ MaxGen \in Nat /\ issued \in 0 .. MaxGen
      /\ req \in [Client!Call -> ReqRecords]
      /\ captureSlot \in [{"device"} -> [phase : {"Empty", "Starting", "Live", "Stopping"},
                                         generation : 0 .. MaxGen]]
      /\ captureSlot["device"] \in [phase : {"Empty", "Starting", "Live", "Stopping"},
                                    generation : 0 .. MaxGen]
  BY DEF ClientFacts, ClientTyped, ServiceTyped
<1>2. /\ c[2] # "start" /\ req[c].at = "sent" /\ req[c].gen \in 0 .. MaxGen
      /\ UNCHANGED <<issued, announced, online, ending, uiEvents, capturing, starting, closed,
                     generation, gate, jobAt, opened, shouldStop, startedGen, status, clicks>>
  BY <1>1 DEF Client!ServeStop, Client!Capture!Close, ReqRecords
<1>3. \/ /\ StreamPhase = "Empty" /\ req' = [req EXCEPT ![c].at = "answered"]
         /\ captureSlot' = captureSlot
      \/ /\ StreamPhase \in {"Starting", "Live"}
         /\ captureSlot' = [captureSlot EXCEPT !["device"].phase = "Stopping"]
         /\ req' = [req EXCEPT ![c] =
                      [at |-> "stopping", gen |-> captureSlot["device"].generation]]
  BY DEF Client!ServeStop, Client!Capture!Close, Client!Phase, StreamPhase
<1>4. \E k \in {"answered", "stopping"}, g \in 0 .. MaxGen :
        /\ req' = [req EXCEPT ![c] = [at |-> k, gen |-> g]]
        /\ \/ StreamPhase = "Empty" /\ captureSlot' = captureSlot
           \/ /\ StreamPhase \in {"Starting", "Live"} /\ k = "stopping"
              /\ captureSlot' = [captureSlot EXCEPT !["device"].phase = "Stopping"]
              /\ g = captureSlot["device"].generation
  <2>1. ASSUME StreamPhase = "Empty", req' = [req EXCEPT ![c].at = "answered"],
               captureSlot' = captureSlot
        PROVE  req' = [req EXCEPT ![c] = [at |-> "answered", gen |-> req[c].gen]]
    BY <1>1, <2>1, CallStays
  <2>2. captureSlot["device"].generation \in 0 .. MaxGen
    BY <1>1
  <2> QED
    BY <1>2, <1>3, <2>1, <2>2
<1>5. PICK k \in {"answered", "stopping"}, g \in 0 .. MaxGen :
        /\ req' = [req EXCEPT ![c] = [at |-> k, gen |-> g]]
        /\ \/ StreamPhase = "Empty" /\ captureSlot' = captureSlot
           \/ /\ StreamPhase \in {"Starting", "Live"} /\ k = "stopping"
              /\ captureSlot' = [captureSlot EXCEPT !["device"].phase = "Stopping"]
              /\ g = captureSlot["device"].generation
  BY <1>4
<1>6. /\ req' \in [Client!Call -> ReqRecords]
      /\ req'[c].at = k /\ req'[c].gen = g
      /\ \A x \in Client!Call : x # c => req'[x] = req[x]
  BY <1>1, <1>5, CallMoves
<1>7. /\ captureSlot' \in [{"device"} -> [phase : {"Empty", "Starting", "Live", "Stopping"},
                                          generation : 0 .. MaxGen]]
      /\ captureSlot'["device"].generation = captureSlot["device"].generation
      /\ \/ StreamPhase = "Empty" /\ StreamPhase' = "Empty"
         \/ /\ StreamPhase \in {"Starting", "Live"} /\ StreamPhase' = "Stopping"
            /\ k = "stopping" /\ g = captureSlot["device"].generation
  BY <1>1, <1>5 DEF StreamPhase
<1>8. \A w \in Windows : <<w, "start">> # c /\ StartReq(w)' = StartReq(w)
  <2>1. \A w \in Windows : <<w, "start">>[2] = "start" /\ <<w, "start">> \in Client!Call
    OBVIOUS
  <2> QED
    BY <1>2, <1>6, <2>1 DEF StartReq
<1>9. ClientTyped'
  BY <1>1, <1>2, <1>6, <1>7 DEF ClientTyped, ServiceTyped, WindowsTyped, JobsTyped
<1>10. StreamOK'
  BY <1>1, <1>2, <1>6, <1>7 DEF StreamOK
<1>11. EventsOK'
  BY <1>1, <1>2 DEF EventsOK
<1>12. GateOK'
  BY <1>1, <1>2, GateRests
<1>13. StartsOK'
  BY <1>1, <1>2, <1>7, <1>8 DEF StartsOK, StartAt
<1>14. NewestIsKnown'
  BY <1>1, <1>2, <1>7, NewestRests
<1>15. ShownEnds'
  <2>1. EndIsToCome => EndIsToCome'
    BY <1>2 DEF EndIsToCome
  <2> QED
    BY <1>1, <1>2, <2>1, ShownRests
<1>16. SomebodyEnds'
  BY <1>7 DEF SomebodyEnds
<1> QED
  BY <1>9, <1>10, <1>11, <1>12, <1>13, <1>14, <1>15, <1>16 DEF ClientInv

(* A call is answered, or read, that is none of a start; the slot may go.  *)
LEMMA StreamGoesKeepsClient ==
  ASSUME ClientFacts, req' \in [Client!Call -> ReqRecords], ending' \in BOOLEAN,
         \A w \in Windows : StartReq(w)' = StartReq(w),
         \A c \in Client!Call : req[c].at = "sent" => req'[c] = req[c],
         \/ captureSlot' = [captureSlot EXCEPT !["device"] = Client!Capture!NoSlot]
         \/ /\ captureSlot' = captureSlot
            /\ \/ StreamPhase = "Empty"
               \/ /\ ending' = ending
                  /\ \A c \in Client!Call :
                       req[c].at = "stopping" /\ req[c].gen = captureSlot["device"].generation
                         => req'[c] = req[c],
         UNCHANGED <<issued, announced, online, uiEvents, capturing, starting, closed,
                     generation, gate, jobAt, opened, shouldStop, startedGen, status, clicks>>
  PROVE  ClientInv'
<1>1. /\ ClientTyped /\ StreamOK /\ EventsOK /\ GateOK /\ StartsOK /\ NewestIsKnown /\ ShownEnds
      /\ SomebodyEnds /\ MaxGen \in Nat
      /\ captureSlot \in [{"device"} -> [phase : {"Empty", "Starting", "Live", "Stopping"},
                                         generation : 0 .. MaxGen]]
  BY DEF ClientFacts, ClientTyped, ServiceTyped
<1>2. /\ captureSlot' \in [{"device"} -> [phase : {"Empty", "Starting", "Live", "Stopping"},
                                          generation : 0 .. MaxGen]]
      /\ \/ StreamPhase' = "Empty" /\ captureSlot'["device"].generation = 0
         \/ /\ captureSlot' = captureSlot /\ StreamPhase' = StreamPhase /\ ending' = ending
            /\ \A c \in Client!Call :
                 req[c].at = "stopping" /\ req[c].gen = captureSlot["device"].generation
                   => req'[c] = req[c]
  BY <1>1 DEF Client!Capture!NoSlot, StreamPhase, StreamOK
<1>3. ClientTyped'
  BY <1>1, <1>2 DEF ClientTyped, ServiceTyped, WindowsTyped, JobsTyped
<1>4. StreamOK'
  BY <1>1, <1>2 DEF StreamOK, StartAt
<1>5. EventsOK' /\ GateOK'
  BY <1>1, GateRests DEF EventsOK
<1>6. StartsOK'
  <2>1. StreamPhase' = "Empty" \/ (StreamPhase' = StreamPhase /\ ending' = ending)
    BY <1>2 DEF StreamPhase
  <2>2. ASSUME NEW w \in Windows
        PROVE  StartReq(w)' = StartReq(w) /\ StartAt(w)' = StartAt(w)
    BY DEF StartAt
  <2> QED
    BY <1>1, <2>1, <2>2 DEF StartsOK
<1>7. NewestIsKnown'
  BY <1>1, <1>2, NewestRests
<1>8. ShownEnds'
  <2>1. EndIsToCome => EndIsToCome'
    BY DEF EndIsToCome
  <2> QED
    BY <1>1, <2>1, ShownRests
<1>9. SomebodyEnds'
  BY <1>1, <1>2 DEF SomebodyEnds, StartAt
<1> QED
  BY <1>3, <1>4, <1>5, <1>6, <1>7, <1>8, <1>9 DEF ClientInv

LEMMA StopEndsKeepsClient ==
  ASSUME ClientFacts,
         \/ \E c \in Client!Call : Client!StopEnds(c)
         \/ \E w \in Windows : Client!CloseReturns(w)
         \/ Client!StreamEnds
  PROVE  ClientInv'
<1> USE CallsAre DEF Client!serviceVars, Client!deviceVars, Client!windowVars, Client!jobVars,
                     Client!clientVars
<1>1. /\ StartsOK /\ MaxGen \in Nat /\ req \in [Client!Call -> ReqRecords] /\ ending \in BOOLEAN
  BY DEF ClientFacts, ClientTyped, ServiceTyped
<1>2. /\ UNCHANGED <<issued, announced, online, uiEvents, capturing, starting, closed,
                     generation, gate, jobAt, opened, shouldStop, startedGen, status, clicks>>
      /\ ending' \in BOOLEAN
  BY <1>1 DEF Client!StopEnds, Client!CloseReturns, Client!StreamEnds, Client!Capture!Drop
<1>3. ASSUME NEW c \in Client!Call, NEW k \in {"none", "answered"}, c[2] # "start",
             req' = [req EXCEPT ![c] = [at |-> k, gen |-> 0]], req[c].at # "sent"
      PROVE  /\ req' \in [Client!Call -> ReqRecords]
             /\ \A w \in Windows : StartReq(w)' = StartReq(w)
             /\ \A x \in Client!Call : x # c => req'[x] = req[x]
             /\ \A x \in Client!Call : req[x].at = "sent" => req'[x] = req[x]
  <2>1. /\ req' \in [Client!Call -> ReqRecords]
        /\ \A x \in Client!Call : x # c => req'[x] = req[x]
    <3>1. 0 \in 0 .. MaxGen
      BY <1>1
    <3> QED
      BY <1>1, <1>3, <3>1, CallMoves
  <2>2. \A w \in Windows : <<w, "start">> # c
    <3>1. \A w \in Windows : <<w, "start">>[2] = "start"
      OBVIOUS
    <3> QED
      BY <1>3, <3>1
  <2> QED
    BY <1>3, <2>1, <2>2 DEF StartReq
<1>4. ASSUME NEW c \in Client!Call, Client!StopEnds(c)
      PROVE  ClientInv'
  <2>1. c[2] # "start"
    <3>1. \A w \in Windows : StartReq(w).at # "stopping"
      BY <1>1 DEF StartsOK
    <3>2. ASSUME c[2] = "start"
          PROVE  c = <<c[1], "start">> /\ c[1] \in Windows
      BY <3>2 DEF Client!Call
    <3> QED
      BY <1>4, <3>1, <3>2 DEF Client!StopEnds, StartReq
  <2>2. CASE captureSlot["device"].generation = req[c].gen
    <3>1. req' = req /\ captureSlot' = [captureSlot EXCEPT !["device"] = Client!Capture!NoSlot]
          /\ ending' = ending
      BY <1>4, <2>2 DEF Client!StopEnds, Client!Capture!Drop
    <3> QED
      BY <1>1, <1>2, <3>1, StreamGoesKeepsClient DEF StartReq
  <2>3. CASE captureSlot["device"].generation # req[c].gen
    <3>1. /\ req' = [req EXCEPT ![c] = [at |-> "answered", gen |-> 0]]
          /\ captureSlot' = captureSlot /\ req[c].at = "stopping" /\ ending' = ending
      BY <1>4, <2>3 DEF Client!StopEnds
    <3>2. /\ req' \in [Client!Call -> ReqRecords]
          /\ \A w \in Windows : StartReq(w)' = StartReq(w)
          /\ \A x \in Client!Call : x # c => req'[x] = req[x]
          /\ \A x \in Client!Call : req[x].at = "sent" => req'[x] = req[x]
      BY <1>3, <2>1, <3>1
    <3> QED
      BY <1>1, <1>2, <2>3, <3>1, <3>2, StreamGoesKeepsClient
  <2> QED
    BY <2>2, <2>3
<1>5. ASSUME NEW w \in Windows, Client!CloseReturns(w)
      PROVE  ClientInv'
  <2> DEFINE c == <<w, "close">>
  <2>1. /\ req' = [req EXCEPT ![c] = [at |-> "none", gen |-> 0]] /\ req[c].at = "answered"
        /\ captureSlot' = captureSlot /\ ending' = ending
    BY <1>5 DEF Client!CloseReturns, Client!Taken, Client!NoCall
  <2>2. c \in Client!Call /\ c[2] # "start"
    OBVIOUS
  <2>3. /\ req' \in [Client!Call -> ReqRecords]
        /\ \A v \in Windows : StartReq(v)' = StartReq(v)
        /\ \A x \in Client!Call : x # c => req'[x] = req[x]
        /\ \A x \in Client!Call : req[x].at = "sent" => req'[x] = req[x]
    BY <1>3, <2>1, <2>2
  <2> QED
    BY <1>1, <1>2, <2>1, <2>3, StreamGoesKeepsClient
<1>6. CASE Client!StreamEnds
  <2>1. /\ req' = req
        /\ \/ captureSlot' = [captureSlot EXCEPT !["device"] = Client!Capture!NoSlot]
           \/ captureSlot' = captureSlot /\ StreamPhase = "Empty"
    BY <1>6 DEF Client!StreamEnds, Client!Capture!Drop, Client!Phase, StreamPhase
  <2> QED
    BY <1>1, <1>2, <2>1, StreamGoesKeepsClient DEF StartReq
<1> QED
  BY <1>4, <1>5, <1>6

LEMMA SendStoppedKeepsClient ==
  ASSUME ClientFacts, NEW g \in 1 .. issued, Client!SendStopped(g)
  PROVE  ClientInv'
<1> USE CallsAre DEF Client!serviceVars, Client!deviceVars, Client!windowVars, Client!jobVars,
                     Client!clientVars
<1>1. /\ ClientTyped /\ StreamOK /\ EventsOK /\ GateOK /\ StartsOK /\ NewestIsKnown /\ ShownEnds
      /\ SomebodyEnds /\ MaxGen \in Nat /\ issued \in 0 .. MaxGen /\ announced \subseteq 1 .. issued
  BY DEF ClientFacts, ClientTyped, ServiceTyped
<1> DEFINE e == [kind |-> "stopped", gen |-> g]
<1>2. /\ captureSlot["device"].generation # g /\ announced' = announced \cup {g}
      /\ Len(uiEvents) < ClientEventCap /\ uiEvents' = Append(uiEvents, e)
      /\ UNCHANGED <<captureSlot, issued, req, online, ending, capturing, starting, closed,
                     generation, gate, jobAt, opened, shouldStop, startedGen, status, clicks>>
  BY DEF Client!SendStopped, Client!Capture!Announce, Client!Capture!Gone, Client!Push
<1>3. e \in UiEvent
  BY <1>1 DEF UiEvent
<1>4. /\ uiEvents' \in Seq(UiEvent) /\ Len(uiEvents') <= ClientEventCap
      /\ Len(uiEvents) \in Nat /\ Len(uiEvents') = Len(uiEvents) + 1
      /\ uiEvents'[Len(uiEvents')] = e
      /\ \A i \in 1 .. Len(uiEvents') :
           (i \in 1 .. Len(uiEvents) /\ uiEvents'[i] = uiEvents[i]) \/ uiEvents'[i] = e
      /\ \A i \in 1 .. Len(uiEvents) : i \in 1 .. Len(uiEvents') /\ uiEvents'[i] = uiEvents[i]
  BY <1>2, <1>3, EventSent
<1>5. StreamPhase' = StreamPhase
  BY <1>2 DEF StreamPhase
<1>6. ClientTyped'
  BY <1>1, <1>2, <1>4 DEF ClientTyped, ServiceTyped, WindowsTyped, JobsTyped
<1>7. StreamOK'
  BY <1>1, <1>2, <1>5 DEF StreamOK, StartAt, StartReq
<1>8. EventsOK'
  BY <1>1, <1>2, <1>4 DEF EventsOK
<1>9. GateOK'
  BY <1>1, <1>2, GateRests
<1>10. StartsOK'
  BY <1>1, <1>2, <1>5 DEF StartsOK, StartAt, StartReq
<1>11. NewestIsKnown'
  BY <1>1, <1>2, <1>5, NewestRests
<1>12. ShownEnds'
  <2>1. ASSUME EndIsToCome
        PROVE  EndIsToCome'
    <3>1. CASE g = issued
      <4>1. Len(uiEvents') \in 1 .. Len(uiEvents')
        BY <1>4
      <4> QED
        BY <1>2, <1>4, <2>1, <3>1, <4>1 DEF EndIsToCome
    <3>2. CASE g # issued
      BY <1>2, <1>4, <2>1, <3>2 DEF EndIsToCome
    <3> QED
      BY <3>1, <3>2
  <2> QED
    BY <1>1, <1>2, <2>1, ShownRests
<1>13. SomebodyEnds'
  BY <1>1, <1>2, <1>5 DEF SomebodyEnds, StartAt
<1> QED
  BY <1>6, <1>7, <1>8, <1>9, <1>10, <1>11, <1>12, <1>13 DEF ClientInv

LEMMA DeviceKeepsClient ==
  ASSUME ClientFacts, Client!GoOffline \/ Client!ComeBack
  PROVE  ClientInv'
<1> USE CallsAre DEF Client!serviceVars, Client!deviceVars, Client!windowVars, Client!jobVars,
                     Client!clientVars
<1>1. /\ ClientTyped /\ StreamOK /\ EventsOK /\ GateOK /\ StartsOK /\ NewestIsKnown /\ ShownEnds
      /\ SomebodyEnds /\ MaxGen \in Nat /\ MaxClick \in Nat /\ uiEvents \in Seq(UiEvent)
      /\ Len(uiEvents) \in Nat /\ clicks \in 0 .. MaxClick /\ issued \in Nat
  BY DEF ClientFacts, ClientTyped, ServiceTyped, WindowsTyped
<1> DEFINE e == [kind |-> "offline", gen |-> 0]
<1>2. /\ \/ ending' = TRUE
         \/ ending' = ending /\ online' = TRUE
      /\ UNCHANGED <<captureSlot, issued, announced, req, capturing, starting, closed,
                     generation, gate, jobAt, opened, shouldStop, startedGen, status>>
  BY DEF Client!GoOffline, Client!ComeBack
<1>3. /\ uiEvents' \in Seq(UiEvent) /\ Len(uiEvents') <= ClientEventCap
      /\ \A i \in 1 .. Len(uiEvents) : i \in 1 .. Len(uiEvents') /\ uiEvents'[i] = uiEvents[i]
      /\ EventsOK' /\ online' \in BOOLEAN /\ clicks' \in 0 .. MaxClick
  <2>1. CASE Client!GoOffline
    <3>1. /\ online' = FALSE /\ Len(uiEvents) < ClientEventCap /\ uiEvents' = Append(uiEvents, e)
          /\ clicks' = clicks + 1 /\ clicks < MaxClick
      BY <2>1 DEF Client!GoOffline, Client!Push
    <3>2. e \in UiEvent
      BY <1>1 DEF UiEvent
    <3>3. /\ uiEvents' \in Seq(UiEvent) /\ Len(uiEvents') <= ClientEventCap
          /\ \A i \in 1 .. Len(uiEvents') :
               (i \in 1 .. Len(uiEvents) /\ uiEvents'[i] = uiEvents[i]) \/ uiEvents'[i] = e
          /\ \A i \in 1 .. Len(uiEvents) : i \in 1 .. Len(uiEvents') /\ uiEvents'[i] = uiEvents[i]
      BY <3>1, <3>2, EventSent
    <3>4. EventsOK'
      BY <1>1, <1>2, <3>1, <3>3 DEF EventsOK
    <3>5. clicks' \in 0 .. MaxClick
      BY <1>1, <3>1
    <3>6. online' \in BOOLEAN
      BY <3>1
    <3> QED
      BY <3>3, <3>4, <3>5, <3>6
  <2>2. CASE Client!ComeBack
    <3>1. /\ online' = TRUE /\ uiEvents' = uiEvents /\ clicks' = clicks
          /\ \A i \in 1 .. Len(uiEvents) : uiEvents[i].kind # "offline"
      BY <1>1, <2>2 DEF Client!ComeBack
    <3>2. EventsOK'
      BY <1>1, <1>2, <3>1 DEF EventsOK
    <3> QED
      BY <1>1, <3>1, <3>2 DEF ClientTyped, ServiceTyped
  <2> QED
    BY <2>1, <2>2
<1>4. StreamPhase' = StreamPhase
  BY <1>2 DEF StreamPhase
<1>5. ending' \in BOOLEAN /\ (ending => ending')
  BY <1>1, <1>2 DEF ClientTyped, ServiceTyped
<1>6. ClientTyped'
  BY <1>1, <1>2, <1>3, <1>5 DEF ClientTyped, ServiceTyped, WindowsTyped, JobsTyped
<1>7. StreamOK'
  BY <1>1, <1>2, <1>4 DEF StreamOK, StartAt, StartReq
<1>8. GateOK'
  BY <1>1, <1>2, GateRests
<1>9. StartsOK'
  BY <1>1, <1>2, <1>4, <1>5 DEF StartsOK, StartAt, StartReq
<1>10. NewestIsKnown'
  BY <1>1, <1>2, <1>4, NewestRests
<1>11. ShownEnds'
  <2>1. EndIsToCome => EndIsToCome'
    BY <1>2, <1>3 DEF EndIsToCome
  <2> QED
    BY <1>1, <1>2, <2>1, ShownRests
<1>12. SomebodyEnds'
  BY <1>1, <1>2, <1>4, <1>5 DEF SomebodyEnds, StartAt
<1> QED
  BY <1>3, <1>6, <1>7, <1>8, <1>9, <1>10, <1>11, <1>12 DEF ClientInv

LEMMA StartsRest ==
  ASSUME StartsOK, UNCHANGED <<req, issued, ending, opened>>,
         StreamPhase' = "Live" => StreamPhase = "Live",
         \A w \in Windows : capturing'[w] => capturing[w],
         \A w \in Windows :
           \/ StartAt(w)' = StartAt(w)
           \/ StartAt(w) # "call" /\ StartAt(w)' \notin {"call", "processes"}
           \/ StartAt(w) # "call" /\ StartAt(w)' = "processes" /\ ~capturing[w]
  PROVE  StartsOK'
<1>1. ASSUME NEW w \in Windows
      PROVE  /\ StartReq(w).at # "none" => StartAt(w)' = "call" /\ StartReq(w).at # "stopping"
             /\ StartAt(w)' = "processes" => ~capturing'[w]
             /\ StartAt(w)' = "call" => opened[w] /\ \A v \in Windows : ~capturing'[v]
  BY DEF StartsOK
<1>2. \A w \in Windows : StartReq(w)' = StartReq(w)
  BY DEF StartReq
<1>3. ASSUME NEW w \in Windows
      PROVE  /\ StartReq(w).at = "sent" => StartReq(w).gen = 0
             /\ StartReq(w).at \in {"opening", "shown"} =>
                  StartReq(w).gen = issued' /\ StreamPhase' # "Live"
             /\ StartReq(w).at = "answered" =>
                  /\ StartReq(w).gen \in {0, issued'}
                  /\ StartReq(w).gen = 0 /\ StreamPhase' = "Live" => ending'
  BY DEF StartsOK
<1> QED
  BY <1>1, <1>2, <1>3 DEF StartsOK

LEMMA StatusKeepsClient ==
  ASSUME ClientFacts, NEW j \in Client!Job, Client!AnswerStatus(j)
  PROVE  ClientInv'
<1> USE CallsAre DEF Client!serviceVars, Client!deviceVars, Client!windowVars, Client!jobVars,
                     Client!clientVars
<1>1. /\ ClientTyped /\ StreamOK /\ EventsOK /\ GateOK /\ StartsOK /\ NewestIsKnown /\ ShownEnds
      /\ SomebodyEnds /\ MaxGen \in Nat
      /\ captureSlot["device"] \in [phase : {"Empty", "Starting", "Live", "Stopping"},
                                    generation : 0 .. MaxGen]
      /\ issued \in 0 .. MaxGen /\ jobAt \in [Client!Job -> JobPlaces]
      /\ status \in [Client!Job -> [capturing : BOOLEAN, gen : 0 .. MaxGen]]
  BY DEF ClientFacts, ClientTyped, ServiceTyped, JobsTyped
<1>2. /\ jobAt[j] = "status" /\ jobAt' = [jobAt EXCEPT ![j] = "answer"]
      /\ status' = [status EXCEPT ![j] = Client!TheStatus]
      /\ UNCHANGED <<captureSlot, issued, announced, req, online, ending, uiEvents, capturing,
                     starting, closed, generation, gate, opened, shouldStop, startedGen, clicks>>
  BY DEF Client!AnswerStatus
<1>3. /\ jobAt' \in [Client!Job -> JobPlaces] /\ jobAt'[j] = "answer"
      /\ \A x \in Client!Job : x # j => jobAt'[x] = jobAt[x]
  <2>1. "answer" \in JobPlaces
    BY DEF JobPlaces
  <2> QED
    BY <1>1, <1>2, <2>1, JobMoves
<1>4. /\ Client!TheStatus \in [capturing : BOOLEAN, gen : 0 .. MaxGen]
      /\ Client!TheStatus.gen = issued
      /\ Client!TheStatus.capturing <=> StreamPhase \in {"Starting", "Live"}
  BY <1>1 DEF Client!TheStatus, Client!Phase, StreamPhase, StreamOK
<1>5. /\ status' \in [Client!Job -> [capturing : BOOLEAN, gen : 0 .. MaxGen]]
      /\ status'[j] = Client!TheStatus
      /\ \A x \in Client!Job : x # j => status'[x] = status[x]
  BY <1>1, <1>2, <1>4
<1>6. StreamPhase' = StreamPhase
  BY <1>2 DEF StreamPhase
<1>7. \A w \in Windows : \/ <<w, "start">> # j /\ StartAt(w)' = StartAt(w)
                         \/ <<w, "start">> = j /\ StartAt(w) = "status" /\ StartAt(w)' = "answer"
  BY <1>2, <1>3 DEF StartAt
<1>8. ClientTyped'
  BY <1>1, <1>2, <1>3, <1>5 DEF ClientTyped, ServiceTyped, WindowsTyped, JobsTyped
<1>9. StreamOK'
  BY <1>1, <1>2, <1>6, <1>7 DEF StreamOK, StartReq
<1>10. EventsOK'
  BY <1>1, <1>2 DEF EventsOK
<1>11. GateOK'
  <2>1. gate[1] = j /\ gate # << >> /\ Len(gate) \in Nat /\ gate \in Seq(Client!Job)
    BY <1>2, Head1
  <2>2. \A x \in Client!Job : /\ jobAt'[x] = "none" <=> jobAt[x] = "none"
                              /\ jobAt'[x] = "gate" <=> jobAt[x] = "gate"
    BY <1>2, <1>3
  <2>3. \A i \in 1 .. Len(gate) : gate[i] \in Client!Job
    BY <2>1
  <2> QED
    BY <1>1, <1>2, <1>7, <2>2, <2>3, GateKeeps
<1>12. StartsOK'
  <2>1. \A w \in Windows : capturing'[w] => capturing[w]
    BY <1>2
  <2>2. \A w \in Windows :
          \/ StartAt(w)' = StartAt(w)
          \/ StartAt(w) # "call" /\ StartAt(w)' \notin {"call", "processes"}
    BY <1>7
  <2> QED
    BY <1>1, <1>2, <1>6, <2>1, <2>2, StartsRest
<1>13. NewestIsKnown'
  BY <1>1, <1>2, <1>3, <1>4, <1>5, <1>6, <1>7 DEF NewestIsKnown
<1>14. ShownEnds'
  <2>1. EndIsToCome' <=> EndIsToCome
    BY <1>2 DEF EndIsToCome
  <2>2. StreamPhase \in {"Starting", "Live"} => EndIsToCome
    BY <1>1 DEF StreamOK, EndIsToCome
  <2> QED
    BY <1>1, <1>2, <1>4, <1>5, <1>7, <2>1, <2>2 DEF ShownEnds
<1>15. SomebodyEnds'
  BY <1>1, <1>2, <1>6, <1>7 DEF SomebodyEnds
<1> QED
  BY <1>8, <1>9, <1>10, <1>11, <1>12, <1>13, <1>14, <1>15 DEF ClientInv

(* Jobs come to the gate, go on at its head, and leave.                    *)
LEMMA JobComes ==
  ASSUME ClientFacts, NEW j \in Client!Job, jobAt[j] = "none",
         jobAt' = [jobAt EXCEPT ![j] = "gate"], gate' = Append(gate, j),
         \A w \in Windows : Holding(w)' => Holding(w),
         \A w \in Windows : starting'[w] => starting[w],
         ~Holding(j[1])',
         \A w \in Windows : j = <<w, "stop">> => Holding(w)
  PROVE  /\ GateOK' /\ gate' \in Seq(Client!Job) /\ jobAt' \in [Client!Job -> JobPlaces]
         /\ jobAt'[j] = "gate" /\ \A x \in Client!Job : x # j => jobAt'[x] = jobAt[x]
<1>1. /\ GateOK /\ gate \in Seq(Client!Job) /\ jobAt \in [Client!Job -> JobPlaces]
      /\ Len(gate) \in Nat /\ "gate" \in JobPlaces
  BY DEF ClientFacts, ClientTyped, JobsTyped, JobPlaces
<1>2. /\ jobAt' \in [Client!Job -> JobPlaces]
      /\ jobAt'[j] = "gate" /\ \A x \in Client!Job : x # j => jobAt'[x] = jobAt[x]
  BY <1>1, JobMoves
<1>3. /\ gate' \in Seq(Client!Job) /\ Len(gate') = Len(gate) + 1 /\ gate'[Len(gate) + 1] = j
      /\ \A i \in 1 .. Len(gate) : i \in 1 .. Len(gate') /\ gate'[i] = gate[i]
      /\ \A i \in 1 .. Len(gate) : gate[i] \in Client!Job /\ gate[i] # j
  BY <1>1, Appended DEF GateOK
<1>4. /\ \A i \in 1 .. Len(gate') : i \in 1 .. Len(gate) \/ i = Len(gate) + 1
      /\ \A i \in 1 .. Len(gate) : i < Len(gate) + 1
      /\ Len(gate) + 1 \in 1 .. Len(gate')
  BY <1>1, <1>3
<1>5. \A i, k \in 1 .. Len(gate') : gate'[i] = gate'[k] => i = k
  BY <1>1, <1>3, <1>4 DEF GateOK
<1>6. \A x \in Client!Job : jobAt'[x] # "none" => \E i \in 1 .. Len(gate') : gate'[i] = x
  BY <1>1, <1>2, <1>3, <1>4 DEF GateOK
<1>7. \A i \in 1 .. Len(gate') : /\ jobAt'[gate'[i]] # "none"
                                 /\ i > 1 => jobAt'[gate'[i]] = "gate"
  BY <1>1, <1>2, <1>3, <1>4 DEF GateOK
<1>8. ASSUME NEW i \in 1 .. Len(gate'), NEW k \in 1 .. Len(gate'), NEW w \in Windows,
             gate'[i] = <<w, "start">>, gate'[k] = <<w, "stop">>, jobAt'[gate'[i]] = "gate"
      PROVE  k < i
  <2>1. CASE i \in 1 .. Len(gate) /\ k \in 1 .. Len(gate)
    <3>1. gate[i] = <<w, "start">> /\ gate[k] = <<w, "stop">> /\ jobAt[gate[i]] = "gate"
      BY <1>2, <1>3, <1>8, <2>1
    <3> QED
      BY <1>1, <2>1, <3>1 DEF GateOK
  <2>2. CASE i = Len(gate) + 1
    <3>1. k # i
      BY <1>8
    <3> QED
      BY <1>4, <2>2, <3>1
  <2>3. CASE i \in 1 .. Len(gate) /\ k = Len(gate) + 1
    <3>1. j = <<w, "stop">> /\ jobAt[<<w, "start">>] = "gate" /\ <<w, "start">> \in Client!Job
      BY <1>2, <1>3, <1>8, <2>3, CallsAre
    <3>2. <<w, "start">>[1] = w
      OBVIOUS
    <3> QED
      BY <1>1, <3>1, <3>2 DEF GateOK
  <2> QED
    BY <1>4, <2>1, <2>2, <2>3
<1>9. \A x \in Client!Job : jobAt'[x] = "gate" => ~Holding(x[1])'
  BY <1>1, <1>2, CallsAre DEF GateOK
<1>10. \A w \in Windows :
        starting'[w] => StartAt(w)' \in {"processes", "call", "status", "answer", "page"}
  <2>1. ASSUME NEW w \in Windows, starting'[w]
        PROVE  StartAt(w)' = StartAt(w)
    <3>1. <<w, "start">> # j
      <4>1. <<w, "start">>[1] = w
        OBVIOUS
      <4> QED
        BY <2>1, <4>1 DEF Holding
    <3> QED
      BY <1>2, <3>1, CallsAre DEF StartAt
  <2> QED
    BY <1>1, <2>1 DEF GateOK
<1>11. GateOK'
  BY <1>5, <1>6, <1>7, <1>8, <1>9, <1>10 DEF GateOK
<1> QED
  BY <1>2, <1>3, <1>11

LEMMA JobGoes ==
  ASSUME ClientFacts, NEW j \in Client!Job, gate # << >>, Head(gate) = j, gate' = gate,
         NEW k \in JobPlaces \ {"none", "gate"}, jobAt' = [jobAt EXCEPT ![j] = k],
         \A x \in Client!Job : x # j /\ jobAt[x] = "gate" => ~Holding(x[1])',
         \A w \in Windows :
           starting'[w] => StartAt(w)' \in {"processes", "call", "status", "answer", "page"}
  PROVE  /\ GateOK' /\ jobAt' \in [Client!Job -> JobPlaces] /\ jobAt'[j] = k
         /\ \A x \in Client!Job : x # j => jobAt'[x] = jobAt[x]
<1>1. /\ GateOK /\ gate \in Seq(Client!Job) /\ jobAt \in [Client!Job -> JobPlaces]
      /\ Len(gate) \in Nat
  BY DEF ClientFacts, ClientTyped, JobsTyped
<1>2. /\ jobAt' \in [Client!Job -> JobPlaces]
      /\ jobAt'[j] = k /\ \A x \in Client!Job : x # j => jobAt'[x] = jobAt[x]
  BY <1>1, JobMoves
<1>3. /\ gate[1] = j /\ 1 \in 1 .. Len(gate)
      /\ \A i \in 1 .. Len(gate) : gate[i] \in Client!Job /\ (i > 1 => gate[i] # j)
  BY <1>1 DEF GateOK
<1>4. \A x \in Client!Job : jobAt'[x] # "none" => \E i \in 1 .. Len(gate) : gate[i] = x
  BY <1>1, <1>2, <1>3 DEF GateOK
<1>5. \A i \in 1 .. Len(gate) : /\ jobAt'[gate[i]] # "none"
                                /\ i > 1 => jobAt'[gate[i]] = "gate"
                                /\ jobAt'[gate[i]] = "gate" => jobAt[gate[i]] = "gate"
  BY <1>1, <1>2, <1>3 DEF GateOK
<1>6. \A x \in Client!Job : jobAt'[x] = "gate" => ~Holding(x[1])'
  BY <1>2
<1>7. GateOK'
  BY <1>1, <1>4, <1>5, <1>6 DEF GateOK
<1> QED
  BY <1>2, <1>7

LEMMA JobLeaves ==
  ASSUME ClientFacts, NEW j \in Client!Job, gate # << >>, Head(gate) = j, gate' = Tail(gate),
         jobAt' = [jobAt EXCEPT ![j] = "none"],
         \A w \in Windows : Holding(w)' => Holding(w),
         \A w \in Windows : starting'[w] => starting[w] /\ <<w, "start">> # j
  PROVE  /\ GateOK' /\ gate' \in Seq(Client!Job) /\ jobAt' \in [Client!Job -> JobPlaces]
         /\ jobAt'[j] = "none" /\ \A x \in Client!Job : x # j => jobAt'[x] = jobAt[x]
<1>1. /\ GateOK /\ gate \in Seq(Client!Job) /\ jobAt \in [Client!Job -> JobPlaces]
      /\ Len(gate) \in Nat /\ "none" \in JobPlaces
  BY DEF ClientFacts, ClientTyped, JobsTyped, JobPlaces
<1>2. /\ jobAt' \in [Client!Job -> JobPlaces]
      /\ jobAt'[j] = "none" /\ \A x \in Client!Job : x # j => jobAt'[x] = jobAt[x]
  BY <1>1, JobMoves
<1>3. /\ gate' \in Seq(Client!Job) /\ Len(gate') = Len(gate) - 1 /\ gate[1] = j
      /\ \A i \in 1 .. Len(gate') : gate'[i] = gate[i + 1] /\ i + 1 \in 1 .. Len(gate)
      /\ \A i \in 1 .. Len(gate) : i = 1 \/ (i - 1 \in 1 .. Len(gate') /\ gate'[i - 1] = gate[i])
  BY <1>1, Received
<1>4. \A i \in 1 .. Len(gate') : gate[i + 1] \in Client!Job /\ gate[i + 1] # j /\ i + 1 > 1
  BY <1>1, <1>3 DEF GateOK
<1>5. \A i, k \in 1 .. Len(gate') : gate'[i] = gate'[k] => i = k
  <2>1. \A i, k \in 1 .. Len(gate') : gate'[i] = gate'[k] => i + 1 = k + 1
    BY <1>1, <1>3 DEF GateOK
  <2> QED
    BY <1>1, <1>3, <2>1
<1>6. \A x \in Client!Job : jobAt'[x] # "none" => \E i \in 1 .. Len(gate') : gate'[i] = x
  <2>1. ASSUME NEW x \in Client!Job, jobAt'[x] # "none"
        PROVE  \E i \in 1 .. Len(gate') : gate'[i] = x
    <3>1. PICK i \in 1 .. Len(gate) : gate[i] = x
      BY <1>1, <1>2, <2>1 DEF GateOK
    <3>2. i # 1
      BY <1>2, <1>3, <2>1, <3>1
    <3> QED
      BY <1>3, <3>1, <3>2
  <2> QED
    BY <2>1
<1>7. \A i \in 1 .. Len(gate') : jobAt'[gate'[i]] = jobAt[gate[i + 1]] /\ jobAt'[gate'[i]] = "gate"
  BY <1>1, <1>2, <1>3, <1>4 DEF GateOK
<1>8. ASSUME NEW i \in 1 .. Len(gate'), NEW k \in 1 .. Len(gate'), NEW w \in Windows,
             gate'[i] = <<w, "start">>, gate'[k] = <<w, "stop">>, jobAt'[gate'[i]] = "gate"
      PROVE  k < i
  <2>1. /\ gate[i + 1] = <<w, "start">> /\ gate[k + 1] = <<w, "stop">> /\ jobAt[gate[i + 1]] = "gate"
        /\ i + 1 \in 1 .. Len(gate) /\ k + 1 \in 1 .. Len(gate)
    BY <1>3, <1>7, <1>8
  <2>2. k + 1 < i + 1
    BY <1>1, <2>1 DEF GateOK
  <2> QED
    BY <1>1, <1>3, <2>2
<1>9. \A x \in Client!Job : jobAt'[x] = "gate" => ~Holding(x[1])'
  BY <1>1, <1>2, CallsAre DEF GateOK
<1>10. \A w \in Windows :
        starting'[w] => StartAt(w)' \in {"processes", "call", "status", "answer", "page"}
  BY <1>1, <1>2, CallsAre DEF GateOK, StartAt
<1>11. GateOK'
  BY <1>5, <1>6, <1>7, <1>8, <1>9, <1>10 DEF GateOK
<1> QED
  BY <1>2, <1>3, <1>11

(* A window starts.                                                        *)
LEMMA ClickStartKeepsClient ==
  ASSUME ClientFacts, NEW w \in Windows, Client!ClickStart(w)
  PROVE  ClientInv'
<1> USE CallsAre DEF Client!serviceVars, Client!deviceVars, Client!windowVars, Client!jobVars
<1>1. /\ ClientTyped /\ StreamOK /\ EventsOK /\ GateOK /\ StartsOK /\ NewestIsKnown /\ ShownEnds
      /\ SomebodyEnds /\ MaxClick \in Nat /\ clicks \in 0 .. MaxClick
  BY DEF ClientFacts, ClientTyped, WindowsTyped
<1> DEFINE j == <<w, "start">>
<1>2. /\ ~Holding(w) /\ jobAt[j] = "none" /\ clicks' = clicks + 1 /\ clicks < MaxClick
      /\ jobAt' = [jobAt EXCEPT ![j] = "gate"] /\ gate' = Append(gate, j)
      /\ UNCHANGED <<captureSlot, issued, announced, req, online, ending, uiEvents, capturing,
                     starting, closed, generation, opened, shouldStop, startedGen, status>>
  BY DEF Client!ClickStart, Client!Click, Client!Holds, Holding
<1>3. j \in Client!Job /\ j[1] = w /\ \A v \in Windows : j # <<v, "stop">>
  OBVIOUS
<1>4. ~Holding(w)' /\ \A v \in Windows : Holding(v)' = Holding(v) /\ starting'[v] = starting[v]
  BY <1>2 DEF Holding
<1>5. /\ GateOK' /\ gate' \in Seq(Client!Job) /\ jobAt' \in [Client!Job -> JobPlaces]
      /\ jobAt'[j] = "gate" /\ \A x \in Client!Job : x # j => jobAt'[x] = jobAt[x]
  BY <1>2, <1>3, <1>4, JobComes
<1>6. \A v \in Windows : \/ v # w /\ StartAt(v)' = StartAt(v)
                         \/ v = w /\ StartAt(v) = "none" /\ StartAt(v)' = "gate"
  BY <1>2, <1>3, <1>5 DEF StartAt
<1>7. StreamPhase' = StreamPhase
  BY <1>2 DEF StreamPhase
<1>8. ClientTyped'
  <2>1. clicks' \in 0 .. MaxClick
    BY <1>1, <1>2
  <2> QED
    BY <1>1, <1>2, <1>5, <2>1 DEF ClientTyped, ServiceTyped, WindowsTyped, JobsTyped
<1>9. StreamOK'
  BY <1>1, <1>2, <1>6, <1>7 DEF StreamOK, StartReq
<1>10. EventsOK'
  BY <1>1, <1>2 DEF EventsOK
<1>11. StartsOK'
  <2>1. \A v \in Windows : capturing'[v] => capturing[v]
    BY <1>2
  <2> QED
    BY <1>1, <1>2, <1>6, <1>7, <2>1, StartsRest
<1>12. NewestIsKnown'
  BY <1>1, <1>2, <1>3, <1>5, <1>6, <1>7 DEF NewestIsKnown
<1>13. ShownEnds'
  <2>1. EndIsToCome => EndIsToCome'
    BY <1>2 DEF EndIsToCome
  <2> QED
    BY <1>1, <1>2, <1>6, <2>1 DEF ShownEnds
<1>14. SomebodyEnds'
  BY <1>1, <1>2, <1>6, <1>7 DEF SomebodyEnds
<1> QED
  BY <1>5, <1>8, <1>9, <1>10, <1>11, <1>12, <1>13, <1>14 DEF ClientInv

LEMMA StartTurnKeepsClient ==
  ASSUME ClientFacts, NEW w \in Windows, Client!StartTurn(w)
  PROVE  ClientInv'
<1> USE CallsAre DEF Client!serviceVars, Client!deviceVars, Client!windowVars, Client!jobVars
<1>1. /\ ClientTyped /\ StreamOK /\ EventsOK /\ GateOK /\ StartsOK /\ NewestIsKnown /\ ShownEnds
      /\ SomebodyEnds /\ starting \in [Windows -> BOOLEAN]
      /\ gate \in Seq(Client!Job) /\ Len(gate) \in Nat
  BY DEF ClientFacts, ClientTyped, WindowsTyped, JobsTyped
<1> DEFINE j == <<w, "start">>
<1>2. /\ gate # << >> /\ Head(gate) = j /\ jobAt[j] = "gate"
      /\ UNCHANGED <<captureSlot, issued, announced, req, online, ending, uiEvents, capturing,
                     closed, generation, opened, shouldStop, startedGen, status, clicks>>
      /\ \/ /\ jobAt' = [jobAt EXCEPT ![j] = "none"] /\ gate' = Tail(gate) /\ starting' = starting
         \/ /\ ~capturing[w] /\ starting' = [starting EXCEPT ![w] = TRUE]
            /\ jobAt' = [jobAt EXCEPT ![j] = "processes"] /\ gate' = gate
  BY DEF Client!StartTurn, Client!Turn, Client!Leave, Client!Goto
<1>3. j \in Client!Job /\ j[1] = w /\ StartAt(w) = "gate"
  BY <1>2 DEF StartAt
<1>4. ~starting[w]
  BY <1>1, <1>3 DEF GateOK
<1>5. \E k \in {"none", "processes"} :
        /\ GateOK' /\ gate' \in Seq(Client!Job) /\ jobAt' \in [Client!Job -> JobPlaces]
        /\ jobAt'[j] = k /\ \A x \in Client!Job : x # j => jobAt'[x] = jobAt[x]
        /\ k = "none" => starting' = starting
        /\ k = "processes" => ~capturing[w] /\ starting' = [starting EXCEPT ![w] = TRUE]
  <2>1. CASE jobAt' = [jobAt EXCEPT ![j] = "none"] /\ gate' = Tail(gate) /\ starting' = starting
    <3>1. \A v \in Windows : Holding(v)' = Holding(v)
      BY <1>2, <2>1 DEF Holding
    <3>2. \A v \in Windows : starting'[v] => starting[v] /\ <<v, "start">> # j
      BY <1>4, <2>1
    <3> QED
      BY <1>2, <1>3, <2>1, <3>1, <3>2, JobLeaves
  <2>2. CASE /\ ~capturing[w] /\ starting' = [starting EXCEPT ![w] = TRUE]
             /\ jobAt' = [jobAt EXCEPT ![j] = "processes"] /\ gate' = gate
    <3>1. \A x \in Client!Job : x # j /\ jobAt[x] = "gate" => ~Holding(x[1])'
      <4>1. ASSUME NEW x \in Client!Job, x # j, jobAt[x] = "gate", x[1] = w
            PROVE  FALSE
        <5>1. x = <<w, "stop">>
          BY <4>1
        <5>2. PICK k \in 1 .. Len(gate) : gate[k] = <<w, "stop">>
          BY <1>1, <4>1, <5>1 DEF GateOK
        <5>3. Head(gate) = gate[1] /\ Len(gate) \in Nat \ {0}
          BY <1>1, <1>2, Received
        <5>6. gate[1] = <<w, "start">> /\ 1 \in 1 .. Len(gate) /\ jobAt[gate[1]] = "gate"
          BY <1>2, <5>3
        <5>4. k < 1
          BY <1>1, <5>2, <5>6 DEF GateOK
        <5> QED
          BY <5>2, <5>4
      <4>2. \A x \in Client!Job : x # j /\ jobAt[x] = "gate" => x[1] \in Windows /\ x[1] # w
        BY <4>1
      <4>3. \A v \in Windows : v # w => Holding(v)' = Holding(v)
        BY <1>1, <1>2, <2>2 DEF Holding
      <4> QED
        BY <1>1, <4>2, <4>3 DEF GateOK
    <3>2. "processes" \in JobPlaces \ {"none", "gate"}
      BY DEF JobPlaces
    <3>3. StartAt(w)' = "processes" /\ \A v \in Windows : v # w => StartAt(v)' = StartAt(v)
      <4>1. jobAt \in [Client!Job -> JobPlaces]
        BY <1>1 DEF ClientTyped, JobsTyped
      <4> QED
        BY <1>3, <2>2, <4>1 DEF StartAt
    <3>4. \A v \in Windows :
            starting'[v] => StartAt(v)' \in {"processes", "call", "status", "answer", "page"}
      BY <1>1, <2>2, <3>3 DEF GateOK
    <3>5. gate # << >> /\ Head(gate) = j /\ gate' = gate
          /\ jobAt' = [jobAt EXCEPT ![j] = "processes"]
      BY <1>2, <2>2
    <3>6. /\ GateOK' /\ jobAt' \in [Client!Job -> JobPlaces] /\ jobAt'[j] = "processes"
          /\ \A x \in Client!Job : x # j => jobAt'[x] = jobAt[x]
      BY <1>3, <3>1, <3>2, <3>4, <3>5, JobGoes
    <3> QED
      BY <1>1, <2>2, <3>6
  <2> QED
    BY <1>2, <2>1, <2>2
<1>6. PICK k \in {"none", "processes"} :
        /\ GateOK' /\ gate' \in Seq(Client!Job) /\ jobAt' \in [Client!Job -> JobPlaces]
        /\ jobAt'[j] = k /\ \A x \in Client!Job : x # j => jobAt'[x] = jobAt[x]
        /\ k = "none" => starting' = starting
        /\ k = "processes" => ~capturing[w] /\ starting' = [starting EXCEPT ![w] = TRUE]
  BY <1>5
<1>7. /\ \A v \in Windows : \/ v # w /\ StartAt(v)' = StartAt(v) /\ starting'[v] = starting[v]
                            \/ v = w /\ StartAt(v)' = k
      /\ starting' \in [Windows -> BOOLEAN]
      /\ \A v \in Windows : starting[v] => starting'[v]
  BY <1>1, <1>3, <1>6 DEF StartAt
<1>8. StreamPhase' = StreamPhase
  BY <1>2 DEF StreamPhase
<1>9. ClientTyped'
  BY <1>1, <1>2, <1>6, <1>7 DEF ClientTyped, ServiceTyped, WindowsTyped, JobsTyped
<1>10. StreamOK'
  BY <1>1, <1>2, <1>3, <1>7, <1>8 DEF StreamOK, StartReq
<1>11. EventsOK'
  BY <1>1, <1>2 DEF EventsOK
<1>12. StartsOK'
  <2>1. \A v \in Windows : capturing'[v] => capturing[v]
    BY <1>2
  <2>2. \A v \in Windows :
           \/ StartAt(v)' = StartAt(v)
           \/ StartAt(v) # "call" /\ StartAt(v)' \notin {"call", "processes"}
           \/ StartAt(v) # "call" /\ StartAt(v)' = "processes" /\ ~capturing[v]
    BY <1>3, <1>6, <1>7
  <2> QED
    BY <1>1, <1>2, <1>8, <2>1, <2>2, StartsRest
<1>13. NewestIsKnown'
  BY <1>1, <1>2, <1>3, <1>6, <1>7, <1>8 DEF NewestIsKnown
<1>14. ShownEnds'
  <2>1. EndIsToCome => EndIsToCome'
    BY <1>2 DEF EndIsToCome
  <2> QED
    BY <1>1, <1>2, <1>3, <1>6, <1>7, <2>1 DEF ShownEnds
<1>15. SomebodyEnds'
  BY <1>1, <1>2, <1>3, <1>7, <1>8 DEF SomebodyEnds
<1> QED
  BY <1>6, <1>9, <1>10, <1>11, <1>12, <1>13, <1>14, <1>15 DEF ClientInv

(* What a step of the windows leaves as it is.                             *)
LEMMA ServiceRests ==
  ASSUME ClientFacts, UNCHANGED <<captureSlot, issued, announced, online, ending, uiEvents>>,
         \A v \in Windows : StartAt(v) = "call" /\ StartReq(v).at \in {"opening", "shown"}
                            => StartAt(v)' = "call" /\ StartReq(v)' = StartReq(v),
         \A c \in Client!Call : req[c].at = "stopping" => req'[c] = req[c]
  PROVE  /\ ServiceTyped' /\ StreamOK' /\ EventsOK' /\ StreamPhase' = StreamPhase
         /\ EndIsToCome' <=> EndIsToCome
<1>1. ServiceTyped /\ StreamOK /\ EventsOK
  BY DEF ClientFacts, ClientTyped
<1>2. StreamPhase' = StreamPhase
  BY DEF StreamPhase
<1>3. StreamOK'
  <2>1. StreamPhase = "Starting" =>
          \E w \in Windows : StartAt(w)' = "call" /\ StartReq(w)'.at \in {"opening", "shown"}
    BY <1>1 DEF StreamOK
  <2>2. StreamPhase = "Stopping" =>
          \E c \in Client!Call : req'[c].at = "stopping" /\ req'[c].gen = issued
    BY <1>1 DEF StreamOK
  <2> QED
    BY <1>1, <1>2, <2>1, <2>2 DEF StreamOK
<1>4. ServiceTyped' /\ EventsOK' /\ (EndIsToCome' <=> EndIsToCome)
  BY <1>1 DEF ServiceTyped, EventsOK, EndIsToCome
<1> QED
  BY <1>2, <1>3, <1>4

(* Only this start is past the gate.                                       *)
LEMMA StartIsHead ==
  ASSUME ClientFacts, NEW w \in Windows, StartAt(w) \notin {"none", "gate"}
  PROVE  /\ gate # << >> /\ Head(gate) = <<w, "start">> /\ gate \in Seq(Client!Job)
         /\ \A v \in Windows : v # w => StartAt(v) \in {"none", "gate"} /\ ~starting[v]
         /\ \A x \in Client!Job : x # <<w, "start">> => jobAt[x] \in {"none", "gate"}
         /\ Holding(w) => jobAt[<<w, "stop">>] # "gate"
<1>1. <<w, "start">> \in Client!Job /\ jobAt[<<w, "start">>] \notin {"none", "gate"}
  BY CallsAre DEF StartAt
<1>2. /\ gate # << >> /\ Head(gate) = <<w, "start">> /\ gate \in Seq(Client!Job)
      /\ \A x \in Client!Job : x # <<w, "start">> => jobAt[x] \in {"none", "gate"}
  BY <1>1, Head1
<1>3. \A v \in Windows : v # w => StartAt(v) \in {"none", "gate"} /\ ~starting[v]
  BY OneStarts
<1>4. Holding(w) => jobAt[<<w, "stop">>] # "gate"
  <2>1. <<w, "stop">> \in Client!Job /\ <<w, "stop">>[1] = w
    BY CallsAre
  <2> QED
    BY <2>1 DEF ClientFacts, GateOK
<1> QED
  BY <1>2, <1>3, <1>4

(* A start goes on or leaves: the other windows' jobs stay where they are, *)
(* and no window but its own takes or lets go a hold.                      *)
LEMMA StartGoes ==
  ASSUME ClientFacts, NEW w \in Windows, StartAt(w) \notin {"none", "gate"}, gate' = gate,
         NEW k \in {"call", "status", "answer", "page", "idle"},
         jobAt' = [jobAt EXCEPT ![<<w, "start">>] = k],
         \A v \in Windows : Holding(v)' => Holding(v),
         \A v \in Windows : starting'[v] => starting[v] /\ (k = "idle" => v # w)
  PROVE  /\ GateOK' /\ jobAt' \in [Client!Job -> JobPlaces] /\ StartAt(w)' = k
         /\ \A v \in Windows : v # w => StartAt(v)' = StartAt(v)
         /\ \A x \in Client!Job : x # <<w, "start">> => jobAt'[x] = jobAt[x]
<1> DEFINE j == <<w, "start">>
<1>1. j \in Client!Job /\ k \in JobPlaces \ {"none", "gate"} /\ k \in JobPlaces
  BY CallsAre DEF JobPlaces
<1>2. /\ gate # << >> /\ Head(gate) = j
      /\ \A v \in Windows : v # w => StartAt(v) \in {"none", "gate"} /\ ~starting[v]
  BY StartIsHead
<1>3. jobAt \in [Client!Job -> JobPlaces] /\ GateOK
  BY DEF ClientFacts, ClientTyped, JobsTyped
<1>4. jobAt'[j] = k /\ \A x \in Client!Job : x # j => jobAt'[x] = jobAt[x]
  BY <1>1, <1>3
<1>5. StartAt(w)' = k /\ \A v \in Windows : v # w => StartAt(v)' = StartAt(v)
  BY <1>4, CallsAre DEF StartAt
<1>6. \A x \in Client!Job : x # j /\ jobAt[x] = "gate" => ~Holding(x[1])'
  BY <1>3, CallsAre DEF GateOK
<1>7. \A v \in Windows :
        starting'[v] => StartAt(v)' \in {"processes", "call", "status", "answer", "page"}
  BY <1>2, <1>5
<1>8. GateOK'
  BY <1>1, <1>2, <1>6, <1>7, JobGoes
<1> QED
  BY <1>1, <1>3, <1>4, <1>5, <1>8

LEMMA StartLeaves ==
  ASSUME ClientFacts, NEW w \in Windows, StartAt(w) \notin {"none", "gate"}, gate' = Tail(gate),
         jobAt' = [jobAt EXCEPT ![<<w, "start">>] = "none"],
         \A v \in Windows : Holding(v)' => Holding(v),
         \A v \in Windows : starting'[v] => starting[v], ~starting'[w]
  PROVE  /\ GateOK' /\ jobAt' \in [Client!Job -> JobPlaces] /\ StartAt(w)' = "none"
         /\ gate' \in Seq(Client!Job)
         /\ \A v \in Windows : v # w => StartAt(v)' = StartAt(v)
         /\ \A x \in Client!Job : x # <<w, "start">> => jobAt'[x] = jobAt[x]
<1> DEFINE j == <<w, "start">>
<1>1. j \in Client!Job /\ gate # << >> /\ Head(gate) = j
  BY StartIsHead, CallsAre
<1>2. \A v \in Windows : starting'[v] => starting[v] /\ <<v, "start">> # j
  BY CallsAre
<1>3. /\ GateOK' /\ gate' \in Seq(Client!Job) /\ jobAt' \in [Client!Job -> JobPlaces]
      /\ jobAt'[j] = "none" /\ \A x \in Client!Job : x # j => jobAt'[x] = jobAt[x]
  BY <1>1, <1>2, JobLeaves
<1>4. StartAt(w)' = "none" /\ \A v \in Windows : v # w => StartAt(v)' = StartAt(v)
  BY <1>3, CallsAre DEF StartAt
<1> QED
  BY <1>3, <1>4

(* The processes are known: the first to hold opens the stream.            *)
LEMMA StartCallKeepsClient ==
  ASSUME ClientFacts, NEW w \in Windows, Client!StartCall(w)
  PROVE  ClientInv'
<1> USE CallsAre DEF Client!serviceVars, Client!deviceVars, Client!windowVars, Client!jobVars
<1>1. /\ ClientTyped /\ StreamOK /\ EventsOK /\ GateOK /\ StartsOK /\ NewestIsKnown /\ ShownEnds
      /\ SomebodyEnds /\ req \in [Client!Call -> ReqRecords] /\ MaxGen \in Nat
      /\ WindowsTyped /\ JobsTyped /\ opened \in [Windows -> BOOLEAN]
      /\ startedGen \in [Windows -> 0 .. issued] /\ generation \in 0 .. issued
  BY DEF ClientFacts, ClientTyped, WindowsTyped, JobsTyped
<1> DEFINE j == <<w, "start">>
<1>2. /\ StartAt(w) = "processes" /\ StartReq(w).at = "none"
      /\ UNCHANGED <<captureSlot, issued, announced, online, ending, uiEvents, capturing,
                     starting, closed, generation, shouldStop, status, clicks>>
  BY <1>1 DEF Client!StartCall, Client!Turn, StartAt, StartsOK
<1>3. /\ ~capturing[w]
      /\ \A v \in Windows : v # w => StartAt(v) \in {"none", "gate"} /\ ~starting[v]
      /\ gate \in Seq(Client!Job)
  BY <1>1, <1>2, StartIsHead DEF StartsOK
<1>4. \/ /\ ~starting[w] /\ jobAt' = [jobAt EXCEPT ![j] = "none"] /\ gate' = Tail(gate)
         /\ UNCHANGED <<req, opened, startedGen>>
      \/ /\ starting[w] /\ gate' = gate /\ startedGen' = [startedGen EXCEPT ![w] = generation]
         /\ \/ /\ \E v \in Windows : capturing[v]
               /\ jobAt' = [jobAt EXCEPT ![j] = "status"] /\ req' = req
               /\ opened' = [opened EXCEPT ![w] = FALSE]
            \/ /\ \A v \in Windows : ~capturing[v]
               /\ jobAt' = [jobAt EXCEPT ![j] = "call"]
               /\ req' = [req EXCEPT ![j] = [at |-> "sent", gen |-> 0]]
               /\ opened' = [opened EXCEPT ![w] = TRUE]
  <2>1. Client!Foreign(w) <=> \E v \in Windows : capturing[v]
    BY <1>3 DEF Client!Foreign, Client!Holds
  <2>2. Client!Holds(w) <=> starting[w]
    BY <1>3 DEF Client!Holds
  <2>3. Client!Foreign(w) \in BOOLEAN
    BY DEF Client!Foreign
  <2>4. CASE Client!Foreign(w)
    BY <2>1, <2>2, <2>4 DEF Client!StartCall, Client!Leave, Client!Goto
  <2>5. CASE ~Client!Foreign(w)
    BY <2>1, <2>2, <2>5 DEF Client!StartCall, Client!Leave, Client!Goto, Client!Sent
  <2> QED
    BY <2>4, <2>5
<1>5. \A v \in Windows : Holding(v)' = Holding(v) /\ starting'[v] = starting[v]
  BY <1>2 DEF Holding
<1>6. WindowsTyped'
  BY <1>1, <1>2 DEF WindowsTyped
<1>7. CASE /\ ~starting[w] /\ jobAt' = [jobAt EXCEPT ![j] = "none"] /\ gate' = Tail(gate)
           /\ UNCHANGED <<req, opened, startedGen>>
  <2>1. /\ GateOK' /\ jobAt' \in [Client!Job -> JobPlaces] /\ StartAt(w)' = "none"
        /\ gate' \in Seq(Client!Job)
        /\ \A v \in Windows : v # w => StartAt(v)' = StartAt(v)
        /\ \A x \in Client!Job : x # j => jobAt'[x] = jobAt[x]
    BY <1>2, <1>5, <1>7, StartLeaves
  <2>2. /\ ServiceTyped' /\ StreamOK' /\ EventsOK' /\ StreamPhase' = StreamPhase
        /\ EndIsToCome' <=> EndIsToCome
    <3>1. \A v \in Windows : StartAt(v) = "call" /\ StartReq(v).at \in {"opening", "shown"}
                             => StartAt(v)' = "call" /\ StartReq(v)' = StartReq(v)
      BY <1>2, <1>3
    <3> QED
      BY <1>2, <1>7, <3>1, ServiceRests
  <2>3. ClientTyped'
    BY <1>1, <1>2, <1>6, <1>7, <2>1, <2>2 DEF ClientTyped, JobsTyped
  <2>4. StartsOK'
    <3>1. \A v \in Windows :
             \/ StartAt(v)' = StartAt(v)
             \/ StartAt(v) # "call" /\ StartAt(v)' \notin {"call", "processes"}
      BY <1>2, <2>1
    <3>2. \A v \in Windows : capturing'[v] => capturing[v]
      BY <1>2
    <3> QED
      BY <1>1, <1>2, <1>7, <2>2, <3>1, <3>2, StartsRest
  <2>5. NewestIsKnown'
    BY <1>1, <1>2, <1>7, <2>1, <2>2 DEF NewestIsKnown
  <2>6. ShownEnds'
    BY <1>1, <1>2, <1>7, <2>1, <2>2 DEF ShownEnds
  <2>7. SomebodyEnds'
    BY <1>1, <1>2, <1>7, <2>1, <2>2 DEF SomebodyEnds
  <2> QED
    BY <2>1, <2>2, <2>3, <2>4, <2>5, <2>6, <2>7 DEF ClientInv
<1>9. CASE /\ starting[w] /\ gate' = gate /\ startedGen' = [startedGen EXCEPT ![w] = generation]
           /\ \E v \in Windows : capturing[v]
           /\ jobAt' = [jobAt EXCEPT ![j] = "status"] /\ req' = req
           /\ opened' = [opened EXCEPT ![w] = FALSE]
  <2>1. /\ GateOK' /\ jobAt' \in [Client!Job -> JobPlaces] /\ StartAt(w)' = "status"
        /\ \A v \in Windows : v # w => StartAt(v)' = StartAt(v)
        /\ \A x \in Client!Job : x # j => jobAt'[x] = jobAt[x]
    BY <1>2, <1>5, <1>9, StartGoes
  <2>2. /\ ServiceTyped' /\ StreamOK' /\ EventsOK' /\ StreamPhase' = StreamPhase
        /\ EndIsToCome' <=> EndIsToCome
    <3>1. \A v \in Windows : StartAt(v) = "call" /\ StartReq(v).at \in {"opening", "shown"}
                             => StartAt(v)' = "call" /\ StartReq(v)' = StartReq(v)
      BY <1>2, <1>3
    <3> QED
      BY <1>2, <1>9, <3>1, ServiceRests
  <2>3. /\ opened' \in [Windows -> BOOLEAN] /\ startedGen' \in [Windows -> 0 .. issued']
        /\ \A v \in Windows : v # w => opened'[v] = opened[v]
    BY <1>1, <1>2, <1>9
  <2>4. ClientTyped'
    BY <1>1, <1>2, <1>6, <1>9, <2>1, <2>2, <2>3 DEF ClientTyped, JobsTyped
  <2>5. StartsOK'
    BY <1>1, <1>2, <1>3, <1>9, <2>1, <2>2 DEF StartsOK, StartReq
  <2>6. generation = issued
    BY <1>1, <1>9 DEF NewestIsKnown
  <2>7. NewestIsKnown'
    BY <1>1, <1>2, <1>9, <2>1, <2>2, <2>6 DEF NewestIsKnown
  <2>8. ShownEnds'
    BY <1>1, <1>2, <1>9, <2>1, <2>2 DEF ShownEnds
  <2>9. SomebodyEnds'
    BY <1>2, <1>9 DEF SomebodyEnds
  <2> QED
    BY <2>1, <2>2, <2>4, <2>5, <2>7, <2>8, <2>9 DEF ClientInv
<1>10. CASE /\ starting[w] /\ gate' = gate /\ startedGen' = [startedGen EXCEPT ![w] = generation]
            /\ \A v \in Windows : ~capturing[v]
            /\ jobAt' = [jobAt EXCEPT ![j] = "call"]
            /\ req' = [req EXCEPT ![j] = [at |-> "sent", gen |-> 0]]
            /\ opened' = [opened EXCEPT ![w] = TRUE]
  <2>1. /\ GateOK' /\ jobAt' \in [Client!Job -> JobPlaces] /\ StartAt(w)' = "call"
        /\ \A v \in Windows : v # w => StartAt(v)' = StartAt(v)
        /\ \A x \in Client!Job : x # j => jobAt'[x] = jobAt[x]
    BY <1>2, <1>5, <1>10, StartGoes
  <2>2. /\ req' \in [Client!Call -> ReqRecords]
        /\ req'[j].at = "sent" /\ req'[j].gen = 0
        /\ \A x \in Client!Call : x # j => req'[x] = req[x]
    <3>1. 0 \in 0 .. MaxGen
      BY <1>1
    <3> QED
      BY <1>1, <1>10, <3>1, CallMoves
  <2>3. StartReq(w)' = req'[j] /\ \A v \in Windows : v # w => StartReq(v)' = StartReq(v)
    BY <2>2 DEF StartReq
  <2>4. /\ ServiceTyped' /\ StreamOK' /\ EventsOK' /\ StreamPhase' = StreamPhase
        /\ EndIsToCome' <=> EndIsToCome
    <3>1. \A v \in Windows : StartAt(v) = "call" /\ StartReq(v).at \in {"opening", "shown"}
                             => StartAt(v)' = "call" /\ StartReq(v)' = StartReq(v)
      BY <1>2, <1>3
    <3>2. \A c \in Client!Call : req[c].at = "stopping" => req'[c] = req[c]
      BY <1>2, <2>2 DEF StartReq
    <3> QED
      BY <1>2, <3>1, <3>2, ServiceRests
  <2>5. /\ opened' \in [Windows -> BOOLEAN] /\ startedGen' \in [Windows -> 0 .. issued']
        /\ opened'[w] /\ \A v \in Windows : v # w => opened'[v] = opened[v]
    BY <1>1, <1>2, <1>10
  <2>6. ClientTyped'
    BY <1>1, <1>2, <1>6, <1>10, <2>1, <2>2, <2>4, <2>5 DEF ClientTyped, JobsTyped
  <2>7. StartsOK'
    BY <1>1, <1>2, <1>3, <1>10, <2>1, <2>2, <2>3, <2>4, <2>5 DEF StartsOK
  <2>8. NewestIsKnown'
    BY <1>1, <1>2, <1>10, <2>1, <2>4 DEF NewestIsKnown
  <2>9. ShownEnds'
    BY <1>1, <1>2, <1>10, <2>1, <2>4 DEF ShownEnds
  <2>10. SomebodyEnds'
    BY <2>1, <2>5 DEF SomebodyEnds
  <2> QED
    BY <2>1, <2>4, <2>6, <2>7, <2>8, <2>9, <2>10 DEF ClientInv
<1> QED
  BY <1>4, <1>7, <1>9, <1>10

(* The start of the stream has returned.                                   *)
LEMMA StartReturnsKeepsClient ==
  ASSUME ClientFacts, NEW w \in Windows, Client!StartReturns(w)
  PROVE  ClientInv'
<1> USE CallsAre DEF Client!serviceVars, Client!deviceVars, Client!windowVars, Client!jobVars
<1>1. /\ ClientTyped /\ StreamOK /\ EventsOK /\ GateOK /\ StartsOK /\ NewestIsKnown /\ ShownEnds
      /\ SomebodyEnds /\ req \in [Client!Call -> ReqRecords] /\ MaxGen \in Nat
      /\ WindowsTyped /\ JobsTyped /\ starting \in [Windows -> BOOLEAN]
      /\ startedGen \in [Windows -> 0 .. issued] /\ generation \in 0 .. issued /\ issued \in 0 .. MaxGen
  BY DEF ClientFacts, ClientTyped, ServiceTyped, WindowsTyped, JobsTyped
<1> DEFINE j == <<w, "start">>
<1>2. /\ StartAt(w) = "call" /\ StartReq(w).at = "answered" /\ StartReq(w) = req[j]
      /\ req' = [req EXCEPT ![j] = [at |-> "none", gen |-> 0]]
      /\ UNCHANGED <<captureSlot, issued, announced, online, ending, uiEvents, capturing,
                     closed, opened, shouldStop, status, clicks>>
  BY <1>1 DEF Client!StartReturns, Client!Turn, Client!Taken, Client!NoCall, StartAt, StartReq
<1>3. /\ \A v \in Windows : ~capturing[v]
      /\ \A v \in Windows : v # w => StartAt(v) \in {"none", "gate"} /\ ~starting[v]
      /\ opened[w] /\ gate \in Seq(Client!Job)
      /\ req[j].gen \in {0, issued} /\ (req[j].gen = 0 /\ StreamPhase = "Live" => ending)
  BY <1>1, <1>2, StartIsHead DEF StartsOK
<1>4. /\ req' \in [Client!Call -> ReqRecords] /\ req'[j].at = "none"
      /\ \A x \in Client!Call : x # j => req'[x] = req[x]
  <2>1. 0 \in 0 .. MaxGen
    BY <1>1
  <2> QED
    BY <1>1, <1>2, <2>1, CallMoves
<1>5. StartReq(w)'.at = "none" /\ \A v \in Windows : v # w => StartReq(v)' = StartReq(v)
  BY <1>4 DEF StartReq
<1>6. /\ ServiceTyped' /\ StreamOK' /\ EventsOK' /\ StreamPhase' = StreamPhase
      /\ EndIsToCome' <=> EndIsToCome
  <2>1. \A v \in Windows : StartAt(v) # "call" \/ StartReq(v).at \notin {"opening", "shown"}
    BY <1>2, <1>3
  <2>2. \A c \in Client!Call : req[c].at = "stopping" => req'[c] = req[c]
    BY <1>2, <1>4
  <2> QED
    BY <1>2, <2>1, <2>2, ServiceRests
<1>7. \E k \in {"none", "status", "page"} :
        /\ GateOK' /\ jobAt' \in [Client!Job -> JobPlaces] /\ StartAt(w)' = k
        /\ gate' \in Seq(Client!Job)
        /\ \A v \in Windows : v # w => StartAt(v)' = StartAt(v)
        /\ \A x \in Client!Job : x # j => jobAt'[x] = jobAt[x]
        /\ starting' \in [Windows -> BOOLEAN] /\ \A v \in Windows : starting'[v] => v = w
        /\ startedGen' \in [Windows -> 0 .. issued] /\ generation' \in 0 .. issued
        /\ k = "none" => ~starting'[w] /\ (StreamPhase = "Live" => ending)
        /\ k = "status" => generation' = issued
        /\ k = "page" => ~starting'[w]
  <2>1. CASE /\ req[j].gen = 0 /\ jobAt' = [jobAt EXCEPT ![j] = "none"] /\ gate' = Tail(gate)
             /\ starting' = [starting EXCEPT ![w] = FALSE] /\ UNCHANGED <<generation, startedGen>>
    <3>1. \A v \in Windows : (starting'[v] => starting[v]) /\ (Holding(v)' => Holding(v))
      BY <1>1, <1>2, <2>1 DEF Holding
    <3>2. ~starting'[w] /\ starting' \in [Windows -> BOOLEAN]
      BY <1>1, <2>1
    <3>3. /\ GateOK' /\ jobAt' \in [Client!Job -> JobPlaces] /\ StartAt(w)' = "none"
          /\ gate' \in Seq(Client!Job)
          /\ \A v \in Windows : v # w => StartAt(v)' = StartAt(v)
          /\ \A x \in Client!Job : x # j => jobAt'[x] = jobAt[x]
      BY <1>2, <2>1, <3>1, <3>2, StartLeaves
    <3>4. \A v \in Windows : starting'[v] => v = w
      BY <1>3, <3>1
    <3> QED
      BY <1>1, <1>3, <2>1, <3>2, <3>3, <3>4
  <2>2. CASE /\ req[j].gen # 0 /\ jobAt' = [jobAt EXCEPT ![j] = "status"] /\ gate' = gate
             /\ generation' = req[j].gen /\ startedGen' = [startedGen EXCEPT ![w] = req[j].gen]
             /\ starting' = starting
    <3>1. \A v \in Windows : (starting'[v] => starting[v]) /\ (Holding(v)' => Holding(v))
      BY <1>2, <2>2 DEF Holding
    <3>2. /\ GateOK' /\ jobAt' \in [Client!Job -> JobPlaces] /\ StartAt(w)' = "status"
          /\ \A v \in Windows : v # w => StartAt(v)' = StartAt(v)
          /\ \A x \in Client!Job : x # j => jobAt'[x] = jobAt[x]
      BY <1>2, <2>2, <3>1, StartGoes
    <3>3. req[j].gen = issued /\ issued \in 0 .. issued
      BY <1>1, <1>3, <2>2
    <3>4. startedGen' \in [Windows -> 0 .. issued] /\ generation' \in 0 .. issued
      BY <1>1, <2>2, <3>3
    <3> QED
      BY <1>1, <1>3, <2>2, <3>1, <3>2, <3>3, <3>4
  <2>3. CASE /\ req[j].gen # 0 /\ ~Client!Holds(w) /\ jobAt' = [jobAt EXCEPT ![j] = "page"]
             /\ gate' = gate /\ UNCHANGED <<generation, startedGen, starting>>
    <3>1. \A v \in Windows : (starting'[v] => starting[v]) /\ (Holding(v)' => Holding(v))
      BY <1>2, <2>3 DEF Holding
    <3>2. /\ GateOK' /\ jobAt' \in [Client!Job -> JobPlaces] /\ StartAt(w)' = "page"
          /\ \A v \in Windows : v # w => StartAt(v)' = StartAt(v)
          /\ \A x \in Client!Job : x # j => jobAt'[x] = jobAt[x]
      BY <1>2, <2>3, <3>1, StartGoes
    <3>3. ~starting'[w]
      BY <2>3 DEF Client!Holds
    <3> QED
      BY <1>1, <1>3, <2>3, <3>1, <3>2, <3>3
  <2>4. /\ gate # << >> /\ Head(gate) = j /\ jobAt[j] = "call" /\ req[j].at = "answered"
        /\ \/ /\ req[j].gen = 0 /\ Client!Leave(j)
              /\ starting' = [starting EXCEPT ![w] = FALSE]
              /\ UNCHANGED <<generation, startedGen>>
           \/ /\ req[j].gen # 0 /\ Client!Goto(j, "status")
              /\ generation' = req[j].gen
              /\ startedGen' = [startedGen EXCEPT ![w] = req[j].gen]
              /\ UNCHANGED starting
           \/ /\ req[j].gen # 0 /\ ~Client!Holds(w) /\ jobAt' = [jobAt EXCEPT ![j] = "page"]
              /\ UNCHANGED <<gate, generation, startedGen, starting>>
    BY DEF Client!StartReturns, Client!Turn
  <2> QED
    BY <2>1, <2>2, <2>3, <2>4 DEF Client!Leave, Client!Goto
<1>8. PICK k \in {"none", "status", "page"} :
        /\ GateOK' /\ jobAt' \in [Client!Job -> JobPlaces] /\ StartAt(w)' = k
        /\ gate' \in Seq(Client!Job)
        /\ \A v \in Windows : v # w => StartAt(v)' = StartAt(v)
        /\ \A x \in Client!Job : x # j => jobAt'[x] = jobAt[x]
        /\ starting' \in [Windows -> BOOLEAN] /\ \A v \in Windows : starting'[v] => v = w
        /\ startedGen' \in [Windows -> 0 .. issued] /\ generation' \in 0 .. issued
        /\ k = "none" => ~starting'[w] /\ (StreamPhase = "Live" => ending)
        /\ k = "status" => generation' = issued
        /\ k = "page" => ~starting'[w]
  BY <1>7
<1>9. ClientTyped'
  <2>1. WindowsTyped'
    BY <1>1, <1>2, <1>8 DEF WindowsTyped
  <2>2. JobsTyped'
    BY <1>1, <1>2, <1>8 DEF JobsTyped
  <2> QED
    BY <1>4, <1>6, <2>1, <2>2 DEF ClientTyped
<1>10. StartsOK'
  <2>1. \A v \in Windows : StartReq(v)'.at = "none"
    BY <1>1, <1>3, <1>5 DEF StartsOK
  <2>2. \A v \in Windows : StartAt(v)' \notin {"processes", "call"}
    BY <1>3, <1>8
  <2> QED
    BY <2>1, <2>2 DEF StartsOK
<1>11. NewestIsKnown'
  <2>1. \A x \in Client!Job : jobAt'[x] # "answer"
    BY <1>2, <1>8, StartIsHead DEF StartAt
  <2> QED
    BY <1>2, <1>3, <1>6, <1>8, <2>1 DEF NewestIsKnown
<1>12. ShownEnds'
  BY <1>2, <1>3, <1>8 DEF ShownEnds
<1>13. SomebodyEnds'
  BY <1>2, <1>3, <1>6, <1>8 DEF SomebodyEnds
<1> QED
  BY <1>6, <1>8, <1>9, <1>10, <1>11, <1>12, <1>13 DEF ClientInv

(* The status has come: only one that says capturing makes a window live.  *)
LEMMA ConfirmKeepsClient ==
  ASSUME ClientFacts, NEW w \in Windows, Client!Confirm(w)
  PROVE  ClientInv'
<1> USE CallsAre DEF Client!serviceVars, Client!deviceVars, Client!windowVars, Client!jobVars
<1>1. /\ ClientTyped /\ StreamOK /\ EventsOK /\ GateOK /\ StartsOK /\ NewestIsKnown /\ ShownEnds
      /\ SomebodyEnds /\ req \in [Client!Call -> ReqRecords] /\ MaxGen \in Nat
      /\ WindowsTyped /\ JobsTyped /\ starting \in [Windows -> BOOLEAN]
      /\ capturing \in [Windows -> BOOLEAN]
      /\ startedGen \in [Windows -> 0 .. issued] /\ generation \in 0 .. issued /\ issued \in 0 .. MaxGen
      /\ status \in [Client!Job -> [capturing : BOOLEAN, gen : 0 .. MaxGen]]
  BY DEF ClientFacts, ClientTyped, ServiceTyped, WindowsTyped, JobsTyped
<1> DEFINE j == <<w, "start">>
<1>2. /\ StartAt(w) = "answer" /\ gate' = gate /\ jobAt' = [jobAt EXCEPT ![j] = "page"]
      /\ status' = [status EXCEPT ![j] = [capturing |-> FALSE, gen |-> 0]]
      /\ UNCHANGED <<captureSlot, issued, announced, online, ending, uiEvents, req,
                     closed, opened, shouldStop, startedGen, clicks>>
  BY DEF Client!Confirm, Client!Turn, Client!Goto, Client!NoStatus, StartAt
<1>3. /\ status[j].gen = issued /\ (StreamPhase = "Live" => status[j].capturing)
      /\ StartReq(w).at = "none"
      /\ \A v \in Windows : v # w => StartAt(v) \in {"none", "gate"} /\ ~starting[v]
      /\ \A x \in Client!Job : x # j => jobAt[x] \in {"none", "gate"}
  BY <1>1, <1>2, StartIsHead DEF NewestIsKnown, StartsOK, StartAt
<1>4. /\ generation' \in 0 .. issued
      /\ generation' = generation \/ generation' = issued
      /\ Holding(w) => generation' = issued
      /\ \/ /\ Holding(w) /\ status[j].capturing /\ capturing' = [capturing EXCEPT ![w] = TRUE]
            /\ starting' = [starting EXCEPT ![w] = FALSE]
         \/ /\ ~Holding(w) \/ ~status[j].capturing
            /\ UNCHANGED <<capturing, starting>>
  <2>1. issued >= startedGen[w] /\ issued \in 0 .. issued
    BY <1>1
  <2>2. generation' = IF Holding(w) THEN issued ELSE generation
    BY <1>3, <2>1 DEF Client!Confirm, Client!Holds, Holding
  <2>3. \/ /\ Holding(w) /\ status[j].capturing /\ capturing' = [capturing EXCEPT ![w] = TRUE]
           /\ starting' = [starting EXCEPT ![w] = FALSE]
        \/ /\ ~Holding(w) \/ ~status[j].capturing
           /\ UNCHANGED <<capturing, starting>>
    BY DEF Client!Confirm, Client!Holds, Holding
  <2> QED
    BY <1>1, <2>1, <2>2, <2>3
<1>5. /\ capturing' \in [Windows -> BOOLEAN] /\ starting' \in [Windows -> BOOLEAN]
      /\ \A v \in Windows : v # w => capturing'[v] = capturing[v] /\ starting'[v] = starting[v]
      /\ \A v \in Windows : (capturing[v] => capturing'[v]) /\ (starting'[v] => starting[v])
      /\ capturing'[w] => Holding(w) /\ (capturing[w] \/ (starting[w] /\ status[j].capturing))
      /\ Holding(w) /\ status[j].capturing => capturing'[w] /\ ~starting'[w]
  <2>1. CASE /\ Holding(w) /\ status[j].capturing /\ capturing' = [capturing EXCEPT ![w] = TRUE]
             /\ starting' = [starting EXCEPT ![w] = FALSE]
    <3>1. capturing' \in [Windows -> BOOLEAN] /\ starting' \in [Windows -> BOOLEAN]
      BY <1>1, <2>1
    <3>2. capturing'[w] /\ ~starting'[w]
      BY <1>1, <2>1
    <3>3. \A v \in Windows : v # w => capturing'[v] = capturing[v] /\ starting'[v] = starting[v]
      BY <1>1, <2>1
    <3>4. capturing[w] \/ starting[w]
      BY <2>1 DEF Holding
    <3> QED
      BY <2>1, <3>1, <3>2, <3>3, <3>4
  <2>2. CASE (~Holding(w) \/ ~status[j].capturing) /\ UNCHANGED <<capturing, starting>>
    BY <1>1, <2>2 DEF Holding
  <2> QED
    BY <1>4, <2>1, <2>2
<1>6. \A v \in Windows : Holding(v)' => Holding(v)
  BY <1>5 DEF Holding
<1>7. /\ GateOK' /\ jobAt' \in [Client!Job -> JobPlaces] /\ StartAt(w)' = "page"
      /\ \A v \in Windows : v # w => StartAt(v)' = StartAt(v)
      /\ \A x \in Client!Job : x # j => jobAt'[x] = jobAt[x]
  BY <1>2, <1>5, <1>6, StartGoes
<1>8. /\ ServiceTyped' /\ StreamOK' /\ EventsOK' /\ StreamPhase' = StreamPhase
      /\ EndIsToCome' <=> EndIsToCome
  <2>1. \A v \in Windows : StartAt(v) # "call"
    BY <1>2, <1>3
  <2> QED
    BY <1>2, <2>1, ServiceRests
<1>9. ClientTyped'
  <2>1. WindowsTyped'
    BY <1>1, <1>2, <1>4, <1>5 DEF WindowsTyped
  <2>2. status' \in [Client!Job -> [capturing : BOOLEAN, gen : 0 .. MaxGen]]
    <3>1. [capturing |-> FALSE, gen |-> 0] \in [capturing : BOOLEAN, gen : 0 .. MaxGen]
      BY <1>1
    <3> QED
      BY <1>1, <1>2, <3>1
  <2>3. JobsTyped'
    BY <1>1, <1>2, <1>7, <2>2 DEF JobsTyped
  <2> QED
    BY <1>1, <1>2, <1>8, <2>1, <2>3 DEF ClientTyped
<1>10. StartsOK'
  BY <1>1, <1>2, <1>3, <1>7 DEF StartsOK, StartReq
<1>11. NewestIsKnown'
  <2>1. \A x \in Client!Job : jobAt'[x] # "answer"
    <3>1. jobAt'[j] = "page"
      BY <1>7 DEF StartAt
    <3> QED
      BY <1>3, <1>7, <3>1
  <2>2. ASSUME NEW v \in Windows, capturing'[v]
        PROVE  generation' = issued
    <3>1. CASE v = w
      BY <1>4, <1>5, <2>2, <3>1
    <3>2. CASE v # w
      BY <1>1, <1>4, <1>5, <2>2, <3>2 DEF NewestIsKnown
    <3> QED
      BY <3>1, <3>2
  <2>3. starting'[w] => StreamPhase # "Live"
    BY <1>3, <1>5 DEF Holding
  <2>4. \A v \in Windows : v # w => ~starting'[v]
    BY <1>3, <1>5
  <2> QED
    BY <1>2, <1>7, <1>8, <2>1, <2>2, <2>3, <2>4 DEF NewestIsKnown
<1>12. ShownEnds'
  <2>1. ASSUME NEW v \in Windows, capturing'[v]
        PROVE  EndIsToCome
    <3>1. CASE v = w
      BY <1>1, <1>2, <1>5, <2>1, <3>1 DEF ShownEnds
    <3>2. CASE v # w
      BY <1>1, <1>5, <2>1, <3>2 DEF ShownEnds
    <3> QED
      BY <3>1, <3>2
  <2>2. \A v \in Windows : StartAt(v)' # "answer"
    BY <1>3, <1>7
  <2> QED
    BY <1>8, <2>1, <2>2 DEF ShownEnds
<1>13. SomebodyEnds'
  <2>1. ASSUME NEW v \in Windows, starting[v], generation = issued, StreamPhase = "Live"
        PROVE  capturing'[v]
    BY <1>3, <1>5, <2>1 DEF Holding
  <2>2. \A v \in Windows : opened[v] /\ StartAt(v) \in {"call", "status", "answer", "page"}
                           => opened'[v] /\ StartAt(v)' \in {"call", "status", "answer", "page"}
    BY <1>2, <1>3, <1>7
  <2> QED
    BY <1>1, <1>2, <1>5, <1>8, <2>1, <2>2 DEF SomebodyEnds
<1> QED
  BY <1>7, <1>8, <1>9, <1>10, <1>11, <1>12, <1>13 DEF ClientInv

(* The page is loaded: a window that is not live gives up its start.       *)
LEMMA StartDoneKeepsClient ==
  ASSUME ClientFacts, NEW w \in Windows, Client!StartDone(w)
  PROVE  ClientInv'
<1> USE CallsAre DEF Client!serviceVars, Client!deviceVars, Client!windowVars, Client!jobVars
<1>1. /\ ClientTyped /\ StreamOK /\ EventsOK /\ GateOK /\ StartsOK /\ NewestIsKnown /\ ShownEnds
      /\ SomebodyEnds /\ req \in [Client!Call -> ReqRecords] /\ MaxGen \in Nat
      /\ WindowsTyped /\ JobsTyped /\ starting \in [Windows -> BOOLEAN]
  BY DEF ClientFacts, ClientTyped, WindowsTyped, JobsTyped
<1> DEFINE j == <<w, "start">>
           c == <<w, "idle">>
<1>2. /\ StartAt(w) = "page" /\ starting' = [starting EXCEPT ![w] = FALSE]
      /\ UNCHANGED <<captureSlot, issued, announced, online, ending, uiEvents, capturing,
                     closed, generation, opened, shouldStop, startedGen, status, clicks>>
  BY DEF Client!StartDone, Client!Turn, StartAt
<1>3. /\ \A v \in Windows : v # w => StartAt(v) \in {"none", "gate"} /\ ~starting[v]
      /\ \A x \in Client!Job : x # j => jobAt[x] \in {"none", "gate"}
      /\ gate \in Seq(Client!Job)
  BY <1>2, StartIsHead
<1>4. starting' \in [Windows -> BOOLEAN] /\ \A v \in Windows : ~starting'[v]
  BY <1>1, <1>2, <1>3
<1>5. \A v \in Windows : Holding(v)' => Holding(v)
  BY <1>2, <1>4 DEF Holding
<1>6. \/ /\ jobAt' = [jobAt EXCEPT ![j] = "none"] /\ gate' = Tail(gate) /\ req' = req
         /\ (\E v \in Windows : capturing[v]) \/ ~opened[w]
      \/ /\ jobAt' = [jobAt EXCEPT ![j] = "idle"] /\ gate' = gate
         /\ req[c].at = "none" /\ req' = [req EXCEPT ![c] = [at |-> "sent", gen |-> 0]]
  <2> DEFINE stays == capturing[w] \/ ~opened[w] \/ Client!HeldWithout({w})
  <2>1. stays => ((\E v \in Windows : capturing[v]) \/ ~opened[w])
    BY <1>3 DEF Client!HeldWithout, Client!Holds
  <2>2. Client!StopIfIdle(j, w, stays)
    BY DEF Client!StartDone
  <2> HIDE DEF stays
  <2>3. CASE stays
    BY <2>1, <2>2, <2>3 DEF Client!StopIfIdle, Client!Leave
  <2>4. CASE ~stays
    BY <2>2, <2>4 DEF Client!StopIfIdle, Client!Goto, Client!Sent
  <2> QED
    BY <2>3, <2>4
<1>7. \E k \in {"none", "idle"} :
        /\ GateOK' /\ jobAt' \in [Client!Job -> JobPlaces] /\ StartAt(w)' = k
        /\ gate' \in Seq(Client!Job)
        /\ \A v \in Windows : v # w => StartAt(v)' = StartAt(v)
        /\ \A x \in Client!Job : x # j => jobAt'[x] = jobAt[x]
  <2>1. CASE jobAt' = [jobAt EXCEPT ![j] = "none"] /\ gate' = Tail(gate)
    <3>1. /\ GateOK' /\ jobAt' \in [Client!Job -> JobPlaces] /\ StartAt(w)' = "none"
          /\ gate' \in Seq(Client!Job)
          /\ \A v \in Windows : v # w => StartAt(v)' = StartAt(v)
          /\ \A x \in Client!Job : x # j => jobAt'[x] = jobAt[x]
      BY <1>2, <1>4, <1>5, <2>1, StartLeaves
    <3> QED
      BY <3>1
  <2>2. CASE jobAt' = [jobAt EXCEPT ![j] = "idle"] /\ gate' = gate
    <3>1. /\ GateOK' /\ jobAt' \in [Client!Job -> JobPlaces] /\ StartAt(w)' = "idle"
          /\ \A v \in Windows : v # w => StartAt(v)' = StartAt(v)
          /\ \A x \in Client!Job : x # j => jobAt'[x] = jobAt[x]
      BY <1>2, <1>4, <1>5, <2>2, StartGoes
    <3> QED
      BY <1>3, <2>2, <3>1
  <2> QED
    BY <1>6, <2>1, <2>2
<1>8. PICK k \in {"none", "idle"} :
        /\ GateOK' /\ jobAt' \in [Client!Job -> JobPlaces] /\ StartAt(w)' = k
        /\ gate' \in Seq(Client!Job)
        /\ \A v \in Windows : v # w => StartAt(v)' = StartAt(v)
        /\ \A x \in Client!Job : x # j => jobAt'[x] = jobAt[x]
  BY <1>7
<1>9. /\ req' \in [Client!Call -> ReqRecords]
      /\ \A x \in Client!Call : (req[x].at # "none" => req'[x] = req[x]) /\ (x # c => req'[x] = req[x])
      /\ \/ (\E v \in Windows : capturing[v]) \/ ~opened[w]
         \/ req'[c].at = "sent"
  <2>1. CASE req' = req /\ ((\E v \in Windows : capturing[v]) \/ ~opened[w])
    BY <1>1, <2>1
  <2>2. CASE req[c].at = "none" /\ req' = [req EXCEPT ![c] = [at |-> "sent", gen |-> 0]]
    <3>1. 0 \in 0 .. MaxGen
      BY <1>1
    <3>3. c \in Client!Call
      BY CallsAre
    <3>2. /\ req' \in [Client!Call -> ReqRecords] /\ req'[c].at = "sent"
          /\ \A x \in Client!Call : x # c => req'[x] = req[x]
      BY <1>1, <2>2, <3>1, <3>3, CallMoves
    <3> QED
      BY <2>2, <3>2
  <2> QED
    BY <1>6, <2>1, <2>2
<1>10. \A v \in Windows : StartReq(v)' = StartReq(v)
  <2>1. \A v \in Windows : <<v, "start">> # c
    OBVIOUS
  <2> QED
    BY <1>9, <2>1 DEF StartReq
<1>11. /\ ServiceTyped' /\ StreamOK' /\ EventsOK' /\ StreamPhase' = StreamPhase
       /\ EndIsToCome' <=> EndIsToCome
  <2>1. \A v \in Windows : StartAt(v) # "call"
    BY <1>2, <1>3
  <2>2. \A x \in Client!Call : req[x].at = "stopping" => req'[x] = req[x]
    BY <1>9
  <2> QED
    BY <1>2, <2>1, <2>2, ServiceRests
<1>12. ClientTyped'
  <2>1. WindowsTyped'
    BY <1>1, <1>2, <1>4 DEF WindowsTyped
  <2>2. JobsTyped'
    BY <1>1, <1>2, <1>8 DEF JobsTyped
  <2> QED
    BY <1>9, <1>11, <2>1, <2>2 DEF ClientTyped
<1>13. StartsOK'
  <2>1. \A v \in Windows : StartAt(v)' \notin {"processes", "call"} /\ StartAt(v) # "call"
    BY <1>2, <1>3, <1>8
  <2> QED
    BY <1>1, <1>10, <2>1 DEF StartsOK
<1>14. NewestIsKnown'
  <2>1. \A x \in Client!Job : jobAt'[x] # "answer"
    <3>1. jobAt'[j] = k
      BY <1>8 DEF StartAt
    <3> QED
      BY <1>3, <1>8, <3>1
  <2> QED
    BY <1>1, <1>2, <1>4, <2>1 DEF NewestIsKnown
<1>15. ShownEnds'
  <2>1. \A v \in Windows : capturing[v] => EndIsToCome
    BY <1>1 DEF ShownEnds
  <2> QED
    BY <1>2, <1>4, <1>11, <2>1 DEF ShownEnds
<1>16. SomebodyEnds'
  <2>1. ASSUME StreamPhase = "Live"
        PROVE  \/ ending
               \/ \E v \in Windows : capturing[v]
               \/ \E x \in Client!Call : x[2] # "start" /\ req[x].at = "sent"
               \/ opened[w]
    <3>1. ~starting[w]
      BY <1>1, <1>2, <2>1 DEF NewestIsKnown
    <3> QED
      BY <1>1, <1>3, <2>1, <3>1 DEF SomebodyEnds
  <2>2. opened[w] => \/ \E v \in Windows : capturing[v]
                     \/ \E x \in Client!Call : x[2] # "start" /\ req'[x].at = "sent"
    <3>1. c \in Client!Call /\ c[2] # "start"
      BY CallsAre
    <3> QED
      BY <1>9, <3>1
  <2>3. \A x \in Client!Call : req[x].at = "sent" => req'[x].at = "sent"
    BY <1>9
  <2> QED
    BY <1>2, <1>11, <2>1, <2>2, <2>3 DEF SomebodyEnds
<1> QED
  BY <1>8, <1>11, <1>12, <1>13, <1>14, <1>15, <1>16 DEF ClientInv

(* The idle stop has returned.                                             *)
LEMMA IdleStoppedKeepsClient ==
  ASSUME ClientFacts, NEW w \in Windows, Client!IdleStopped(w)
  PROVE  ClientInv'
<1> USE CallsAre DEF Client!serviceVars, Client!deviceVars, Client!windowVars, Client!jobVars
<1>1. /\ ClientTyped /\ StreamOK /\ EventsOK /\ GateOK /\ StartsOK /\ NewestIsKnown /\ ShownEnds
      /\ SomebodyEnds /\ req \in [Client!Call -> ReqRecords] /\ MaxGen \in Nat
      /\ WindowsTyped /\ JobsTyped
  BY DEF ClientFacts, ClientTyped
<1> DEFINE j == <<w, "start">>
           c == <<w, "idle">>
<1>2. /\ StartAt(w) = "idle" /\ jobAt' = [jobAt EXCEPT ![j] = "none"] /\ gate' = Tail(gate)
      /\ req[c].at = "answered" /\ req' = [req EXCEPT ![c] = [at |-> "none", gen |-> 0]]
      /\ UNCHANGED <<captureSlot, issued, announced, online, ending, uiEvents, capturing, starting,
                     closed, generation, opened, shouldStop, startedGen, status, clicks>>
  BY DEF Client!IdleStopped, Client!Turn, Client!Leave, Client!Taken, Client!NoCall, StartAt
<1>3. ~starting[w]
  BY <1>1, <1>2 DEF GateOK
<1>4. /\ GateOK' /\ jobAt' \in [Client!Job -> JobPlaces] /\ StartAt(w)' = "none"
      /\ gate' \in Seq(Client!Job)
      /\ \A v \in Windows : v # w => StartAt(v)' = StartAt(v)
      /\ \A x \in Client!Job : x # j => jobAt'[x] = jobAt[x]
  <2>1. \A v \in Windows : (Holding(v)' => Holding(v)) /\ (starting'[v] => starting[v])
    BY <1>2 DEF Holding
  <2>2. ~starting'[w]
    BY <1>2, <1>3
  <2> QED
    BY <1>2, <2>1, <2>2, StartLeaves
<1>5. /\ req' \in [Client!Call -> ReqRecords]
      /\ \A x \in Client!Call : x # c => req'[x] = req[x]
      /\ \A x \in Client!Call : req[x].at # "answered" => req'[x] = req[x]
  <2>1. 0 \in 0 .. MaxGen
    BY <1>1
  <2>3. c \in Client!Call
    BY CallsAre
  <2>2. /\ req' \in [Client!Call -> ReqRecords]
        /\ \A x \in Client!Call : x # c => req'[x] = req[x]
    BY <1>1, <1>2, <2>1, <2>3, CallMoves
  <2> QED
    BY <1>2, <2>2
<1>6. \A v \in Windows : StartReq(v)' = StartReq(v)
  <2>1. \A v \in Windows : <<v, "start">> # c
    OBVIOUS
  <2> QED
    BY <1>5, <2>1 DEF StartReq
<1>7. /\ ServiceTyped' /\ StreamOK' /\ EventsOK' /\ StreamPhase' = StreamPhase
      /\ EndIsToCome' <=> EndIsToCome
  <2>1. \A v \in Windows : StartAt(v) = "call" /\ StartReq(v).at \in {"opening", "shown"}
                           => StartAt(v)' = "call" /\ StartReq(v)' = StartReq(v)
    BY <1>2, <1>4, <1>6
  <2>2. \A x \in Client!Call : req[x].at = "stopping" => req'[x] = req[x]
    BY <1>5
  <2> QED
    BY <1>2, <2>1, <2>2, ServiceRests
<1>8. ClientTyped'
  <2>1. WindowsTyped'
    BY <1>1, <1>2 DEF WindowsTyped
  <2>2. JobsTyped'
    BY <1>1, <1>2, <1>4 DEF JobsTyped
  <2> QED
    BY <1>5, <1>7, <2>1, <2>2 DEF ClientTyped
<1>9. StartsOK'
  BY <1>1, <1>2, <1>4, <1>6, <1>7 DEF StartsOK
<1>10. NewestIsKnown'
  <2>1. \A x \in Client!Job : jobAt'[x] = "answer" => jobAt[x] = "answer"
    <3>1. jobAt'[j] = "none"
      BY <1>4 DEF StartAt
    <3> QED
      BY <1>4, <3>1
  <2> QED
    BY <1>1, <1>2, <1>4, <1>7, <2>1 DEF NewestIsKnown
<1>11. ShownEnds'
  BY <1>1, <1>2, <1>4, <1>7 DEF ShownEnds
<1>12. SomebodyEnds'
  <2>1. \A x \in Client!Call : req[x].at = "sent" => req'[x].at = "sent"
    BY <1>5
  <2> QED
    BY <1>1, <1>2, <1>4, <1>7, <2>1 DEF SomebodyEnds
<1> QED
  BY <1>4, <1>7, <1>8, <1>9, <1>10, <1>11, <1>12 DEF ClientInv

(* While a stop is past the gate nobody starts.                            *)
LEMMA StopIsHead ==
  ASSUME ClientFacts, NEW w \in Windows, jobAt[<<w, "stop">>] \notin {"none", "gate"}
  PROVE  /\ \A v \in Windows : StartAt(v) \in {"none", "gate"} /\ ~starting[v]
         /\ \A x \in Client!Job : x # <<w, "stop">> => jobAt[x] \in {"none", "gate"}
         /\ gate # << >> /\ Head(gate) = <<w, "stop">> /\ gate \in Seq(Client!Job)
<1>1. <<w, "stop">> \in Client!Job
  BY CallsAre
<1>2. /\ gate # << >> /\ Head(gate) = <<w, "stop">> /\ gate \in Seq(Client!Job)
      /\ \A x \in Client!Job : x # <<w, "stop">> => jobAt[x] \in {"none", "gate"}
  BY <1>1, Head1
<1>3. \A v \in Windows : StartAt(v) \in {"none", "gate"}
  BY <1>2, CallsAre DEF StartAt
<1>4. \A v \in Windows : ~starting[v]
  BY <1>3 DEF ClientFacts, GateOK
<1> QED
  BY <1>2, <1>3, <1>4

LEMMA StopGoes ==
  ASSUME ClientFacts, NEW w \in Windows, gate # << >>, Head(gate) = <<w, "stop">>,
         \/ gate' = Tail(gate) /\ jobAt' = [jobAt EXCEPT ![<<w, "stop">>] = "none"]
         \/ gate' = gate /\ \E k \in {"call", "status"} :
                              jobAt' = [jobAt EXCEPT ![<<w, "stop">>] = k],
         \A v \in Windows : (Holding(v)' => Holding(v)) /\ (starting'[v] => starting[v])
  PROVE  /\ GateOK' /\ gate' \in Seq(Client!Job) /\ jobAt' \in [Client!Job -> JobPlaces]
         /\ \A v \in Windows : StartAt(v)' = StartAt(v)
         /\ \A x \in Client!Job : x # <<w, "stop">> => jobAt'[x] = jobAt[x]
         /\ jobAt'[<<w, "stop">>] \in {"none", "call", "status"}
<1> DEFINE j == <<w, "stop">>
<1>1. j \in Client!Job /\ \A v \in Windows : <<v, "start">> # j /\ <<v, "start">> \in Client!Job
  BY CallsAre
<1>2. GateOK /\ gate \in Seq(Client!Job) /\ jobAt \in [Client!Job -> JobPlaces]
  BY DEF ClientFacts, ClientTyped, JobsTyped
<1>3. CASE gate' = Tail(gate) /\ jobAt' = [jobAt EXCEPT ![j] = "none"]
  <2>1. /\ GateOK' /\ gate' \in Seq(Client!Job) /\ jobAt' \in [Client!Job -> JobPlaces]
        /\ jobAt'[j] = "none" /\ \A x \in Client!Job : x # j => jobAt'[x] = jobAt[x]
    BY <1>1, <1>3, JobLeaves
  <2>2. \A v \in Windows : StartAt(v)' = StartAt(v)
    BY <1>1, <2>1 DEF StartAt
  <2> QED
    BY <2>1, <2>2
<1>4. ASSUME gate' = gate, NEW k \in {"call", "status"}, jobAt' = [jobAt EXCEPT ![j] = k]
      PROVE  /\ GateOK' /\ gate' \in Seq(Client!Job) /\ jobAt' \in [Client!Job -> JobPlaces]
             /\ \A v \in Windows : StartAt(v)' = StartAt(v)
             /\ \A x \in Client!Job : x # j => jobAt'[x] = jobAt[x]
             /\ jobAt'[j] \in {"none", "call", "status"}
  <2>1. k \in JobPlaces \ {"none", "gate"}
    BY DEF JobPlaces
  <2>2. jobAt'[j] = k /\ \A x \in Client!Job : x # j => jobAt'[x] = jobAt[x]
    BY <1>1, <1>2, <1>4
  <2>3. \A v \in Windows : StartAt(v)' = StartAt(v)
    BY <1>1, <2>2 DEF StartAt
  <2>4. \A x \in Client!Job : x # j /\ jobAt[x] = "gate" => ~Holding(x[1])'
    BY <1>2, CallsAre DEF GateOK
  <2>5. \A v \in Windows :
          starting'[v] => StartAt(v)' \in {"processes", "call", "status", "answer", "page"}
    BY <1>2, <2>3 DEF GateOK
  <2>6. GateOK' /\ jobAt' \in [Client!Job -> JobPlaces]
    BY <1>1, <1>4, <2>1, <2>4, <2>5, JobGoes
  <2> QED
    BY <1>2, <1>4, <2>2, <2>3, <2>6
<1> QED
  BY <1>3, <1>4

(* A stop's turn: its window has let go before.                            *)
LEMMA StopTurnKeepsClient ==
  ASSUME ClientFacts, NEW w \in Windows, Client!StopTurn(w) \/ Client!StopReturns(w)
  PROVE  ClientInv'
<1> USE CallsAre DEF Client!serviceVars, Client!deviceVars, Client!windowVars, Client!jobVars
<1>1. /\ ClientTyped /\ StreamOK /\ EventsOK /\ GateOK /\ StartsOK /\ NewestIsKnown /\ ShownEnds
      /\ SomebodyEnds /\ req \in [Client!Call -> ReqRecords] /\ MaxGen \in Nat
      /\ WindowsTyped /\ JobsTyped
      /\ capturing \in [Windows -> BOOLEAN] /\ starting \in [Windows -> BOOLEAN]
  BY DEF ClientFacts, ClientTyped, WindowsTyped
<1> DEFINE j == <<w, "stop">>
<1>2. /\ gate # << >> /\ Head(gate) = j
      /\ \/ gate' = Tail(gate) /\ jobAt' = [jobAt EXCEPT ![j] = "none"]
         \/ gate' = gate /\ \E k \in {"call", "status"} : jobAt' = [jobAt EXCEPT ![j] = k]
      /\ \/ req' = req
         \/ req[j].at = "answered" /\ req' = [req EXCEPT ![j] = [at |-> "none", gen |-> 0]]
      /\ UNCHANGED <<captureSlot, issued, announced, online, ending, uiEvents,
                     closed, generation, opened, shouldStop, startedGen, status, clicks>>
  <2>1. CASE Client!StopTurn(w)
    BY <2>1 DEF Client!StopTurn, Client!Turn, Client!Goto, Client!Leave
  <2>2. CASE Client!StopReturns(w)
    BY <2>2 DEF Client!StopReturns, Client!Turn, Client!Goto, Client!Taken, Client!NoCall
  <2> QED
    BY <2>1, <2>2
<1>3. capturing' = capturing /\ starting' = starting
  <2>1. CASE Client!StopTurn(w)
    <3>1. jobAt[j] = "gate"
      BY <2>1 DEF Client!StopTurn, Client!Turn
    <3>2. j \in Client!Job /\ j[1] = w
      OBVIOUS
    <3>3. ~Holding(w)
      BY <1>1, <3>1, <3>2 DEF GateOK
    <3>4. capturing' = [v \in Windows |-> capturing[v] /\ v \notin {w}]
      BY <2>1 DEF Client!StopTurn, Client!Unsubscribe
    <3>5. starting' = [v \in Windows |-> starting[v] /\ v \notin {w}]
      BY <2>1 DEF Client!StopTurn, Client!Unsubscribe
    <3>6. ~capturing[w] /\ ~starting[w]
      BY <3>3 DEF Holding
    <3>7. capturing' = capturing
      BY <1>1, <3>4, <3>6
    <3>8. starting' = starting
      BY <1>1, <3>5, <3>6
    <3> QED
      BY <3>7, <3>8
  <2>2. CASE Client!StopReturns(w)
    BY <2>2 DEF Client!StopReturns
  <2> QED
    BY <2>1, <2>2
<1>4. /\ GateOK' /\ gate' \in Seq(Client!Job) /\ jobAt' \in [Client!Job -> JobPlaces]
      /\ \A v \in Windows : StartAt(v)' = StartAt(v)
      /\ \A x \in Client!Job : x # j => jobAt'[x] = jobAt[x]
      /\ jobAt'[j] \in {"none", "call", "status"}
  <2>1. \A v \in Windows : (Holding(v)' => Holding(v)) /\ (starting'[v] => starting[v])
    BY <1>3 DEF Holding
  <2> QED
    BY <1>2, <2>1, StopGoes
<1>5. /\ req' \in [Client!Call -> ReqRecords]
      /\ \A x \in Client!Call : x # j => req'[x] = req[x]
      /\ \A x \in Client!Call : req[x].at # "answered" => req'[x] = req[x]
  <2>1. CASE req' = req
    BY <1>1, <2>1
  <2>2. CASE req[j].at = "answered" /\ req' = [req EXCEPT ![j] = [at |-> "none", gen |-> 0]]
    <3>1. 0 \in 0 .. MaxGen
      BY <1>1
    <3>2. j \in Client!Call
      BY CallsAre
    <3>3. /\ req' \in [Client!Call -> ReqRecords]
          /\ \A x \in Client!Call : x # j => req'[x] = req[x]
      BY <1>1, <2>2, <3>1, <3>2, CallMoves
    <3> QED
      BY <2>2, <3>3
  <2> QED
    BY <1>2, <2>1, <2>2
<1>6. \A v \in Windows : StartReq(v)' = StartReq(v)
  <2>1. \A v \in Windows : <<v, "start">> # j
    OBVIOUS
  <2> QED
    BY <1>5, <2>1 DEF StartReq
<1>7. /\ ServiceTyped' /\ StreamOK' /\ EventsOK' /\ StreamPhase' = StreamPhase
      /\ EndIsToCome' <=> EndIsToCome
  <2>1. \A x \in Client!Call : req[x].at = "stopping" => req'[x] = req[x]
    BY <1>5
  <2> QED
    BY <1>2, <1>4, <1>6, <2>1, ServiceRests
<1>8. ClientTyped'
  <2>1. WindowsTyped'
    BY <1>1, <1>2, <1>3 DEF WindowsTyped
  <2>2. JobsTyped'
    BY <1>1, <1>2, <1>4 DEF JobsTyped
  <2> QED
    BY <1>5, <1>7, <2>1, <2>2 DEF ClientTyped
<1>9. StartsOK'
  BY <1>1, <1>2, <1>3, <1>4, <1>6, <1>7 DEF StartsOK
<1>10. NewestIsKnown'
  <2>1. \A x \in Client!Job : jobAt'[x] = "answer" => jobAt[x] = "answer"
    BY <1>4
  <2> QED
    BY <1>1, <1>2, <1>3, <1>4, <1>7, <2>1 DEF NewestIsKnown
<1>11. ShownEnds'
  BY <1>1, <1>2, <1>3, <1>4, <1>7 DEF ShownEnds
<1>12. SomebodyEnds'
  <2>1. \A x \in Client!Call : req[x].at = "sent" => req'[x].at = "sent"
    BY <1>5
  <2> QED
    BY <1>1, <1>2, <1>3, <1>4, <1>7, <2>1 DEF SomebodyEnds
<1> QED
  BY <1>4, <1>7, <1>8, <1>9, <1>10, <1>11, <1>12 DEF ClientInv

(* The status after a stop: no window is live when the service is not.     *)
LEMMA StopDoneKeepsClient ==
  ASSUME ClientFacts, NEW w \in Windows, Client!StopDone(w)
  PROVE  ClientInv'
<1> USE CallsAre DEF Client!serviceVars, Client!deviceVars, Client!windowVars, Client!jobVars
<1>1. /\ ClientTyped /\ StreamOK /\ EventsOK /\ GateOK /\ StartsOK /\ NewestIsKnown /\ ShownEnds
      /\ SomebodyEnds /\ req \in [Client!Call -> ReqRecords] /\ MaxGen \in Nat
      /\ WindowsTyped /\ JobsTyped /\ generation \in 0 .. issued /\ issued \in 0 .. MaxGen
      /\ capturing \in [Windows -> BOOLEAN] /\ starting \in [Windows -> BOOLEAN]
      /\ status \in [Client!Job -> [capturing : BOOLEAN, gen : 0 .. MaxGen]]
  BY DEF ClientFacts, ClientTyped, ServiceTyped, WindowsTyped, JobsTyped
<1> DEFINE j == <<w, "stop">>
<1>2. /\ gate # << >> /\ Head(gate) = j /\ jobAt[j] = "answer" /\ gate' = Tail(gate)
      /\ jobAt' = [jobAt EXCEPT ![j] = "none"]
      /\ status' = [status EXCEPT ![j] = [capturing |-> FALSE, gen |-> 0]]
      /\ UNCHANGED <<captureSlot, issued, announced, online, ending, uiEvents, req,
                     closed, opened, shouldStop, startedGen, clicks>>
  BY DEF Client!StopDone, Client!Turn, Client!Leave, Client!NoStatus
<1>3. /\ \A v \in Windows : StartAt(v) \in {"none", "gate"} /\ ~starting[v]
      /\ \A x \in Client!Job : x # j => jobAt[x] \in {"none", "gate"}
  BY <1>2, StopIsHead
<1>4. status[j].gen = issued /\ (StreamPhase = "Live" => status[j].capturing)
  BY <1>1, <1>2, CallsAre DEF NewestIsKnown
<1>5. \/ UNCHANGED <<generation, capturing, starting>>
      \/ /\ StreamPhase # "Live" /\ generation' = issued
         /\ capturing' = [v \in Windows |-> capturing[v] /\ v \notin Windows]
         /\ starting' = [v \in Windows |-> starting[v] /\ v \notin Windows]
  BY <1>4 DEF Client!StopDone, Client!Unsubscribe
<1>6. /\ capturing' \in [Windows -> BOOLEAN] /\ starting' \in [Windows -> BOOLEAN]
      /\ \A v \in Windows : (capturing'[v] => capturing[v]) /\ ~starting'[v]
      /\ generation' \in 0 .. issued
      /\ \A v \in Windows : capturing'[v] => generation' = generation
      /\ StreamPhase = "Live" => capturing' = capturing
  <2>1. CASE UNCHANGED <<generation, capturing, starting>>
    BY <1>1, <1>3, <2>1
  <2>2. CASE /\ StreamPhase # "Live" /\ generation' = issued
             /\ capturing' = [v \in Windows |-> capturing[v] /\ v \notin Windows]
             /\ starting' = [v \in Windows |-> starting[v] /\ v \notin Windows]
    <3>1. capturing' \in [Windows -> BOOLEAN] /\ \A v \in Windows : ~capturing'[v]
      BY <1>1, <2>2
    <3>2. starting' \in [Windows -> BOOLEAN] /\ \A v \in Windows : ~starting'[v]
      BY <1>1, <2>2
    <3>3. generation' \in 0 .. issued
      BY <1>1, <2>2
    <3> QED
      BY <2>2, <3>1, <3>2, <3>3
  <2> QED
    BY <1>5, <2>1, <2>2
<1>7. /\ GateOK' /\ gate' \in Seq(Client!Job) /\ jobAt' \in [Client!Job -> JobPlaces]
      /\ \A v \in Windows : StartAt(v)' = StartAt(v)
      /\ \A x \in Client!Job : x # j => jobAt'[x] = jobAt[x]
      /\ jobAt'[j] \in {"none", "call", "status"}
  <2>1. \A v \in Windows : (Holding(v)' => Holding(v)) /\ (starting'[v] => starting[v])
    BY <1>6 DEF Holding
  <2> QED
    BY <1>2, <2>1, StopGoes
<1>8. /\ ServiceTyped' /\ StreamOK' /\ EventsOK' /\ StreamPhase' = StreamPhase
      /\ EndIsToCome' <=> EndIsToCome
  <2>1. \A v \in Windows : StartReq(v)' = StartReq(v)
    BY <1>2 DEF StartReq
  <2>2. \A x \in Client!Call : req[x].at = "stopping" => req'[x] = req[x]
    BY <1>2
  <2> QED
    BY <1>2, <1>7, <2>1, <2>2, ServiceRests
<1>9. ClientTyped'
  <2>1. WindowsTyped'
    BY <1>1, <1>2, <1>6 DEF WindowsTyped
  <2>2. status' \in [Client!Job -> [capturing : BOOLEAN, gen : 0 .. MaxGen]]
    <3>1. [capturing |-> FALSE, gen |-> 0] \in [capturing : BOOLEAN, gen : 0 .. MaxGen]
      BY <1>1
    <3> QED
      BY <1>1, <1>2, <3>1
  <2>3. JobsTyped'
    BY <1>1, <1>2, <1>7, <2>2 DEF JobsTyped
  <2> QED
    BY <1>1, <1>2, <1>8, <2>1, <2>3 DEF ClientTyped
<1>10. StartsOK'
  <2>1. \A v \in Windows : capturing'[v] => capturing[v]
    BY <1>6
  <2> QED
    BY <1>1, <1>2, <1>7, <1>8, <2>1, StartsRest
<1>11. NewestIsKnown'
  <2>1. \A x \in Client!Job : jobAt'[x] # "answer"
    BY <1>3, <1>7
  <2> QED
    BY <1>1, <1>2, <1>6, <2>1 DEF NewestIsKnown
<1>12. ShownEnds'
  BY <1>1, <1>3, <1>6, <1>7, <1>8 DEF ShownEnds
<1>13. SomebodyEnds'
  <2>1. ASSUME StreamPhase = "Live"
        PROVE  \/ ending
               \/ \E v \in Windows : capturing[v]
               \/ \E x \in Client!Call : x[2] # "start" /\ req[x].at = "sent"
    BY <1>1, <1>3, <2>1 DEF SomebodyEnds
  <2> QED
    BY <1>2, <1>6, <1>8, <2>1 DEF SomebodyEnds
<1> QED
  BY <1>7, <1>8, <1>9, <1>10, <1>11, <1>12, <1>13 DEF ClientInv

(* A window lets go.  If it was the last to hold, it stops the stream: if  *)
(* not, another one that captures, or that starts, has to end it.          *)
LEMMA LetsGo ==
  ASSUME ClientFacts, NEW w \in Windows, NEW c \in Client!Call, c[2] # "start",
         capturing' \in [Windows -> BOOLEAN], starting' \in [Windows -> BOOLEAN],
         \A v \in Windows : capturing'[v] <=> capturing[v] /\ v # w,
         \A v \in Windows : starting'[v] <=> starting[v] /\ v # w,
         UNCHANGED <<captureSlot, issued, announced, online, ending, uiEvents, generation,
                     opened, startedGen, status>>,
         closed' \subseteq Windows, clicks' \in 0 .. MaxClick,
         shouldStop' \in [Windows -> BOOLEAN],
         \/ req' = req /\ (Holding(w) => \E v \in Windows : v # w /\ Holding(v))
         \/ req[c].at = "none" /\ req' = [req EXCEPT ![c] = [at |-> "sent", gen |-> 0]],
         GateOK', gate' \in Seq(Client!Job), jobAt' \in [Client!Job -> JobPlaces],
         \A v \in Windows : StartAt(v)' = StartAt(v),
         \A x \in Client!Job : jobAt'[x] = "answer" => jobAt[x] = "answer"
  PROVE  ClientInv'
<1>1. /\ ClientTyped /\ StreamOK /\ EventsOK /\ GateOK /\ StartsOK /\ NewestIsKnown /\ ShownEnds
      /\ SomebodyEnds /\ req \in [Client!Call -> ReqRecords] /\ MaxGen \in Nat
      /\ WindowsTyped /\ JobsTyped
      /\ capturing \in [Windows -> BOOLEAN] /\ starting \in [Windows -> BOOLEAN]
  BY DEF ClientFacts, ClientTyped, WindowsTyped
<1>2. /\ \A v \in Windows : (capturing'[v] => capturing[v]) /\ (starting'[v] => starting[v])
      /\ \A v \in Windows : v # w => (capturing[v] => capturing'[v]) /\ (starting[v] => starting'[v])
  OBVIOUS
<1>3. /\ req' \in [Client!Call -> ReqRecords]
      /\ \A x \in Client!Call : x # c => req'[x] = req[x]
      /\ \A x \in Client!Call : req[x].at # "none" => req'[x] = req[x]
      /\ \/ Holding(w) => \E v \in Windows : v # w /\ Holding(v)
         \/ req'[c].at = "sent"
  <2>1. CASE req' = req /\ (Holding(w) => \E v \in Windows : v # w /\ Holding(v))
    BY <1>1, <2>1
  <2>2. CASE req[c].at = "none" /\ req' = [req EXCEPT ![c] = [at |-> "sent", gen |-> 0]]
    <3>1. 0 \in 0 .. MaxGen
      BY <1>1
    <3>2. /\ req' \in [Client!Call -> ReqRecords] /\ req'[c].at = "sent"
          /\ \A x \in Client!Call : x # c => req'[x] = req[x]
      BY <1>1, <2>2, <3>1, CallMoves
    <3> QED
      BY <2>2, <3>2
  <2> QED
    BY <2>1, <2>2
<1>4. \A v \in Windows : StartReq(v)' = StartReq(v)
  <2>1. ASSUME NEW v \in Windows
        PROVE  <<v, "start">> # c /\ <<v, "start">> \in Client!Call
    <3>1. <<v, "start">>[2] = "start"
      OBVIOUS
    <3> QED
      BY <3>1, CallsAre
  <2> QED
    BY <1>3, <2>1 DEF StartReq
<1>5. /\ ServiceTyped' /\ StreamOK' /\ EventsOK' /\ StreamPhase' = StreamPhase
      /\ EndIsToCome' <=> EndIsToCome
  <2>1. \A x \in Client!Call : req[x].at = "stopping" => req'[x] = req[x]
    BY <1>3
  <2> QED
    BY <1>4, <2>1, ServiceRests
<1>6. ClientTyped'
  <2>1. WindowsTyped'
    BY <1>1, <1>2 DEF WindowsTyped
  <2>2. JobsTyped'
    BY <1>1 DEF JobsTyped
  <2> QED
    BY <1>3, <1>5, <2>1, <2>2 DEF ClientTyped
<1>7. StartsOK'
  BY <1>1, <1>2, <1>4, <1>5 DEF StartsOK
<1>8. NewestIsKnown'
  BY <1>1, <1>2, <1>5 DEF NewestIsKnown
<1>9. ShownEnds'
  BY <1>1, <1>2, <1>5 DEF ShownEnds
<1>10. SomebodyEnds'
  <2>1. SUFFICES ASSUME StreamPhase = "Live"
                 PROVE  SomebodyEnds'
    BY <1>5 DEF SomebodyEnds
  <2>2. CASE req'[c].at = "sent"
    BY <2>2 DEF SomebodyEnds
  <2>3. \A x \in Client!Call : req[x].at = "sent" => req'[x].at = "sent"
    BY <1>3
  <2>4. ASSUME NEW v \in Windows, v # w, Holding(v), generation = issued
        PROVE  SomebodyEnds'
    <3>1. capturing'[v] \/ starting'[v]
      BY <1>2, <2>4 DEF Holding
    <3> QED
      BY <2>4, <3>1 DEF SomebodyEnds
  <2>5. CASE Holding(w) => \E v \in Windows : v # w /\ Holding(v)
    <3>1. ASSUME NEW v \in Windows, capturing[v]
          PROVE  SomebodyEnds'
      <4>1. generation = issued
        BY <1>1, <3>1 DEF NewestIsKnown
      <4>2. \E u \in Windows : u # w /\ Holding(u)
        BY <2>5, <3>1 DEF Holding
      <4> QED
        BY <2>4, <4>1, <4>2
    <3>2. ASSUME NEW v \in Windows, starting[v], generation = issued
          PROVE  SomebodyEnds'
      <4>1. \E u \in Windows : u # w /\ Holding(u)
        BY <2>5, <3>2 DEF Holding
      <4> QED
        BY <2>4, <3>2, <4>1
    <3>3. CASE \/ ending
               \/ \E x \in Client!Call : x[2] # "start" /\ req[x].at = "sent"
               \/ \E v \in Windows :
                    opened[v] /\ StartAt(v) \in {"call", "status", "answer", "page"}
      BY <2>3, <3>3 DEF SomebodyEnds
    <3> QED
      BY <1>1, <2>1, <3>1, <3>2, <3>3 DEF SomebodyEnds
  <2> QED
    BY <1>3, <2>2, <2>5
<1> QED
  BY <1>5, <1>6, <1>7, <1>8, <1>9, <1>10 DEF ClientInv

LEMMA ClickStopKeepsClient ==
  ASSUME ClientFacts, NEW w \in Windows, Client!ClickStop(w)
  PROVE  ClientInv'
<1> USE CallsAre DEF Client!serviceVars, Client!deviceVars
<1>1. /\ JobsTyped /\ WindowsTyped /\ clicks \in 0 .. MaxClick /\ MaxClick \in Nat
  BY DEF ClientFacts, ClientTyped, WindowsTyped
<1> DEFINE j == <<w, "stop">>
<1>2. /\ Holding(w) /\ jobAt[j] = "none" /\ clicks' = clicks + 1 /\ clicks < MaxClick
      /\ jobAt' = [jobAt EXCEPT ![j] = "gate"] /\ gate' = Append(gate, j)
      /\ capturing' = [v \in Windows |-> capturing[v] /\ v \notin {w}]
      /\ starting' = [v \in Windows |-> starting[v] /\ v \notin {w}]
      /\ UNCHANGED <<captureSlot, issued, announced, online, ending, uiEvents, generation,
                     closed, opened, startedGen, status>>
  BY DEF Client!ClickStop, Client!Click, Client!Holds, Client!Unsubscribe, Holding
<1>3. shouldStop' \in [Windows -> BOOLEAN]
  <2>1. shouldStop' = [shouldStop EXCEPT ![w] = ~Client!Foreign(w)]
    BY DEF Client!ClickStop
  <2> QED
    BY <1>1, <2>1 DEF JobsTyped
<1>4. \/ req' = req /\ (Holding(w) => \E v \in Windows : v # w /\ Holding(v))
      \/ req[j].at = "none" /\ req' = [req EXCEPT ![j] = [at |-> "sent", gen |-> 0]]
  <2>1. IF Client!Foreign(w) THEN UNCHANGED req ELSE Client!Sent(j)
    BY DEF Client!ClickStop
  <2>2. Client!Foreign(w) => \E v \in Windows : v # w /\ Holding(v)
    BY DEF Client!Foreign, Client!Holds, Holding
  <2> QED
    BY <2>1, <2>2 DEF Client!Sent
<1>5. /\ ~Holding(w)'
      /\ \A v \in Windows : (Holding(v)' => Holding(v)) /\ (starting'[v] => starting[v])
  BY <1>2 DEF Holding
<1>6. j \in Client!Job /\ j[1] = w /\ \A v \in Windows : j = <<v, "stop">> => v = w
  OBVIOUS
<1>7. /\ GateOK' /\ gate' \in Seq(Client!Job) /\ jobAt' \in [Client!Job -> JobPlaces]
      /\ jobAt'[j] = "gate" /\ \A x \in Client!Job : x # j => jobAt'[x] = jobAt[x]
  <2>1. ~Holding(j[1])'
    BY <1>5, <1>6
  <2>2. \A v \in Windows : j = <<v, "stop">> => Holding(v)
    BY <1>2, <1>6
  <2> QED
    BY <1>2, <1>5, <1>6, <2>1, <2>2, JobComes
<1>8. /\ \A v \in Windows : StartAt(v)' = StartAt(v)
      /\ \A x \in Client!Job : jobAt'[x] = "answer" => jobAt[x] = "answer"
  <2>1. \A v \in Windows : <<v, "start">> # j
    OBVIOUS
  <2> QED
    BY <1>7, <2>1 DEF StartAt
<1>9. closed' \subseteq Windows /\ clicks' \in 0 .. MaxClick
  BY <1>1, <1>2 DEF WindowsTyped
<1>10. j \in Client!Call /\ j[2] # "start"
  BY <1>6, CallsAre
<1>12. /\ capturing' \in [Windows -> BOOLEAN] /\ starting' \in [Windows -> BOOLEAN]
       /\ \A v \in Windows : capturing'[v] <=> capturing[v] /\ v # w
       /\ \A v \in Windows : starting'[v] <=> starting[v] /\ v # w
  <2>1. capturing' \in [Windows -> BOOLEAN] /\ starting' \in [Windows -> BOOLEAN]
    BY <1>2
  <2>2. \A v \in Windows : capturing'[v] <=> capturing[v] /\ v # w
    BY <1>2
  <2>3. \A v \in Windows : starting'[v] <=> starting[v] /\ v # w
    BY <1>2
  <2> QED
    BY <2>1, <2>2, <2>3
<1>13. UNCHANGED <<captureSlot, issued, announced, online, ending, uiEvents, generation,
                   opened, startedGen, status>>
  BY <1>2
<1>14. GateOK' /\ gate' \in Seq(Client!Job) /\ jobAt' \in [Client!Job -> JobPlaces]
  BY <1>7
<1> QED
  BY <1>3, <1>4, <1>8, <1>9, <1>10, <1>12, <1>13, <1>14, LetsGo

LEMMA CloseKeepsClient ==
  ASSUME ClientFacts, NEW w \in Windows, Client!Close({w})
  PROVE  ClientInv'
<1> USE CallsAre DEF Client!serviceVars, Client!deviceVars, Client!jobVars
<1>1. /\ JobsTyped /\ WindowsTyped /\ clicks \in 0 .. MaxClick /\ MaxClick \in Nat /\ GateOK
      /\ gate \in Seq(Client!Job) /\ jobAt \in [Client!Job -> JobPlaces]
  BY DEF ClientFacts, ClientTyped, WindowsTyped, JobsTyped
<1> DEFINE c == <<w, "close">>
<1>2. /\ clicks' = clicks + 1 /\ clicks < MaxClick /\ closed' = closed \cup {w}
      /\ capturing' = [v \in Windows |-> capturing[v] /\ v \notin {w}]
      /\ starting' = [v \in Windows |-> starting[v] /\ v \notin {w}]
      /\ UNCHANGED <<captureSlot, issued, announced, online, ending, uiEvents, generation,
                     gate, jobAt, opened, shouldStop, startedGen, status>>
  BY DEF Client!Close, Client!Unsubscribe
<1>3. \/ req' = req /\ (Holding(w) => \E v \in Windows : v # w /\ Holding(v))
      \/ req[c].at = "none" /\ req' = [req EXCEPT ![c] = [at |-> "sent", gen |-> 0]]
  <2> DEFINE let == {v \in {w} : Client!Holds(v)}
  <2>1. IF let = {} \/ Client!HeldWithout({w})
        THEN UNCHANGED req
        ELSE Client!Sent(<<CHOOSE v \in let : TRUE, "close">>)
    BY DEF Client!Close
  <2>2. CASE ~Client!Holds(w)
    <3>1. let = {} /\ ~Holding(w)
      BY <2>2 DEF Client!Holds, Holding
    <3> QED
      BY <2>1, <3>1
  <2>3. CASE Client!HeldWithout({w})
    <3>1. \E v \in Windows : v # w /\ Holding(v)
      BY <2>3 DEF Client!HeldWithout, Client!Holds, Holding
    <3> QED
      BY <2>1, <2>3, <3>1
  <2>4. CASE Client!Holds(w) /\ ~Client!HeldWithout({w})
    <3>1. let # {} /\ (CHOOSE v \in let : TRUE) = w
      <4>1. let = {w}
        BY <2>4
      <4> QED
        BY <4>1
    <3>2. Client!Sent(c)
      BY <2>1, <2>4, <3>1
    <3> QED
      BY <3>2 DEF Client!Sent
  <2> QED
    BY <2>2, <2>3, <2>4
<1>4. \A v \in Windows : (Holding(v)' => Holding(v)) /\ (starting'[v] => starting[v])
  BY <1>2 DEF Holding
<1>5. \A v \in Windows : StartAt(v)' = StartAt(v)
  BY <1>2 DEF StartAt
<1>6. GateOK'
  <2>1. \A x \in Client!Job : jobAt'[x] = "gate" => ~Holding(x[1])'
    BY <1>1, <1>2, <1>4, CallsAre DEF GateOK
  <2>2. \A v \in Windows :
          starting'[v] => StartAt(v)' \in {"processes", "call", "status", "answer", "page"}
    BY <1>1, <1>4, <1>5 DEF GateOK
  <2> QED
    BY <1>1, <1>2, <2>1, <2>2 DEF GateOK
<1>7. /\ gate' \in Seq(Client!Job) /\ jobAt' \in [Client!Job -> JobPlaces]
      /\ \A x \in Client!Job : jobAt'[x] = "answer" => jobAt[x] = "answer"
  BY <1>1, <1>2
<1>8. closed' \subseteq Windows /\ clicks' \in 0 .. MaxClick
  BY <1>1, <1>2 DEF WindowsTyped
<1>9. shouldStop' \in [Windows -> BOOLEAN]
  BY <1>1, <1>2 DEF JobsTyped
<1>10. c \in Client!Call /\ c[2] # "start"
  BY CallsAre
<1>12. /\ capturing' \in [Windows -> BOOLEAN] /\ starting' \in [Windows -> BOOLEAN]
       /\ \A v \in Windows : capturing'[v] <=> capturing[v] /\ v # w
       /\ \A v \in Windows : starting'[v] <=> starting[v] /\ v # w
  <2>1. capturing' \in [Windows -> BOOLEAN] /\ starting' \in [Windows -> BOOLEAN]
    BY <1>2
  <2>2. \A v \in Windows : capturing'[v] <=> capturing[v] /\ v # w
    BY <1>2
  <2>3. \A v \in Windows : starting'[v] <=> starting[v] /\ v # w
    BY <1>2
  <2> QED
    BY <2>1, <2>2, <2>3
<1> QED
  BY <1>2, <1>3, <1>5, <1>6, <1>7, <1>8, <1>9, <1>10, <1>12, LetsGo

(* An event arrives.  One of an older stream is ignored, the end of the    *)
(* newest one takes every hold away: nothing runs then, or its detach is   *)
(* to come.                                                                *)
LEMMA DeliverKeepsClient ==
  ASSUME ClientFacts, Client!Deliver
  PROVE  ClientInv'
<1> USE CallsAre DEF Client!serviceVars, Client!deviceVars, Client!jobVars
<1>1. /\ ClientTyped /\ StreamOK /\ EventsOK /\ GateOK /\ StartsOK /\ NewestIsKnown /\ ShownEnds
      /\ SomebodyEnds /\ req \in [Client!Call -> ReqRecords] /\ MaxGen \in Nat
      /\ WindowsTyped /\ JobsTyped /\ ServiceTyped
      /\ uiEvents \in Seq(UiEvent) /\ generation \in 0 .. issued /\ issued \in 0 .. MaxGen
      /\ capturing \in [Windows -> BOOLEAN] /\ starting \in [Windows -> BOOLEAN]
  BY DEF ClientFacts, ClientTyped, WindowsTyped, ServiceTyped
<1>2. /\ uiEvents # << >> /\ uiEvents' = Tail(uiEvents)
      /\ UNCHANGED <<captureSlot, issued, announced, online, ending, req, closed, gate, jobAt,
                     opened, shouldStop, startedGen, status, clicks>>
  BY DEF Client!Deliver
<1> DEFINE e == Head(uiEvents)
<1>3. /\ uiEvents[1] = e /\ e \in UiEvent /\ uiEvents' \in Seq(UiEvent)
      /\ Len(uiEvents) \in Nat \ {0} /\ Len(uiEvents') = Len(uiEvents) - 1
      /\ \A i \in 1 .. Len(uiEvents') : uiEvents'[i] = uiEvents[i + 1]
  BY <1>1, <1>2, Received
<1>4. /\ \A i \in 1 .. Len(uiEvents') : i + 1 \in 1 .. Len(uiEvents)
      /\ \A i \in 1 .. Len(uiEvents) :
           i = 1 \/ (i - 1 \in 1 .. Len(uiEvents') /\ uiEvents'[i - 1] = uiEvents[i])
  BY <1>3
<1>5. /\ e.gen \in 0 .. issued /\ e.kind \in {"running", "stopped", "offline"}
      /\ e.kind = "stopped" => e.gen \in announced
      /\ e.kind = "offline" => ~online
  <2>1. 1 \in 1 .. Len(uiEvents) /\ uiEvents[1] = e
    BY <1>3
  <2>2. /\ e.gen <= issued
        /\ e.kind = "stopped" => e.gen \in announced
        /\ e.kind = "offline" => ~online
    BY <1>1, <2>1 DEF EventsOK
  <2>3. e.gen \in 0 .. MaxGen /\ e.kind \in {"running", "stopped", "offline"}
    BY <1>3 DEF UiEvent
  <2>4. e.gen \in 0 .. issued
    BY <1>1, <2>2, <2>3
  <2> QED
    BY <2>2, <2>3, <2>4
<1>6. \/ /\ UNCHANGED <<generation, capturing, starting>>
         /\ \/ \A v \in Windows : ~Holding(v)
            \/ e.gen < generation
      \/ /\ e.kind = "running" /\ generation' = e.gen /\ e.gen >= generation
         /\ UNCHANGED <<capturing, starting>>
      \/ /\ e.kind # "running" /\ generation' = e.gen
         /\ e.kind = "offline" \/ e.gen >= generation
         /\ capturing' = [v \in Windows |-> capturing[v] /\ v \notin Windows]
         /\ starting' = [v \in Windows |-> starting[v] /\ v \notin Windows]
  <2> DEFINE old == (generation = 0 /\ ~Client!Held) \/ e.gen < generation
  <2>1. IF e.kind # "offline" /\ old
        THEN UNCHANGED <<generation, capturing, starting>>
        ELSE /\ generation' = e.gen
             /\ IF e.kind = "running"
                THEN UNCHANGED <<capturing, starting>>
                ELSE Client!Unsubscribe(Windows)
    BY DEF Client!Deliver
  <2>2. old => (\A v \in Windows : ~Holding(v)) \/ e.gen < generation
    BY DEF Client!Held, Client!Holds, Holding
  <2>3. ~old => e.gen >= generation
    BY <1>1, <1>5
  <2> HIDE DEF old
  <2>4. CASE e.kind # "offline" /\ old
    BY <2>1, <2>2, <2>4
  <2>5. CASE e.kind = "running" /\ ~old
    BY <2>1, <2>3, <2>5
  <2>6. CASE e.kind # "running" /\ (e.kind = "offline" \/ ~old)
    BY <2>1, <2>3, <2>6 DEF Client!Unsubscribe
  <2> QED
    BY <1>5, <2>4, <2>5, <2>6
<1>7. StreamPhase' = StreamPhase /\ \A v \in Windows : StartAt(v)' = StartAt(v)
  BY <1>2 DEF StreamPhase, StartAt
<1>8. /\ \A v \in Windows : (capturing'[v] => capturing[v]) /\ (starting'[v] => starting[v])
      /\ \A v \in Windows : Holding(v)' => Holding(v)
      /\ capturing' \in [Windows -> BOOLEAN] /\ starting' \in [Windows -> BOOLEAN]
      /\ generation' \in 0 .. issued
  <2>1. generation' \in 0 .. issued
    BY <1>1, <1>5, <1>6
  <2>2. CASE UNCHANGED <<capturing, starting>>
    BY <1>1, <2>1, <2>2 DEF Holding
  <2>3. CASE /\ capturing' = [v \in Windows |-> capturing[v] /\ v \notin Windows]
             /\ starting' = [v \in Windows |-> starting[v] /\ v \notin Windows]
    <3>1. \A v \in Windows : ~capturing'[v] /\ ~starting'[v]
      BY <2>3
    <3>2. capturing' \in [Windows -> BOOLEAN] /\ starting' \in [Windows -> BOOLEAN]
      BY <2>3
    <3> QED
      BY <2>1, <3>1, <3>2 DEF Holding
  <2> QED
    BY <1>6, <2>2, <2>3
<1>9. ServiceTyped'
  <2>1. Len(uiEvents') <= ClientEventCap
    BY <1>1, <1>3 DEF ServiceTyped, ClientFacts
  <2> QED
    BY <1>1, <1>2, <1>3, <2>1 DEF ServiceTyped
<1>10. ClientTyped'
  <2>1. WindowsTyped'
    BY <1>1, <1>2, <1>8 DEF WindowsTyped
  <2>2. JobsTyped'
    BY <1>1, <1>2 DEF JobsTyped
  <2> QED
    BY <1>1, <1>2, <1>9, <2>1, <2>2 DEF ClientTyped
<1>11. StreamOK'
  BY <1>1, <1>2, <1>7 DEF StreamOK, StartReq
<1>12. EventsOK'
  BY <1>1, <1>2, <1>3, <1>4 DEF EventsOK
<1>13. GateOK'
  <2>1. \A x \in Client!Job : jobAt'[x] = "gate" => ~Holding(x[1])'
    BY <1>1, <1>2, <1>8, CallsAre DEF GateOK
  <2>2. \A v \in Windows :
          starting'[v] => StartAt(v)' \in {"processes", "call", "status", "answer", "page"}
    BY <1>1, <1>7, <1>8 DEF GateOK
  <2> QED
    BY <1>1, <1>2, <2>1, <2>2 DEF GateOK
<1>14. StartsOK'
  <2>1. \A v \in Windows : capturing'[v] => capturing[v]
    BY <1>8
  <2> QED
    BY <1>1, <1>2, <1>7, <2>1, StartsRest
<1>15. ASSUME NEW v \in Windows, Holding(v)', generation = issued
       PROVE  generation' = issued
  <2>1. CASE UNCHANGED <<generation, capturing, starting>>
    BY <1>15, <2>1
  <2>2. CASE e.kind = "running" /\ generation' = e.gen /\ e.gen >= generation
    BY <1>1, <1>5, <1>15, <2>2
  <2>3. CASE /\ capturing' = [u \in Windows |-> capturing[u] /\ u \notin Windows]
             /\ starting' = [u \in Windows |-> starting[u] /\ u \notin Windows]
    <3>1. ~capturing'[v] /\ ~starting'[v]
      BY <2>3
    <3> QED
      BY <1>15, <3>1 DEF Holding
  <2> QED
    BY <1>6, <2>1, <2>2, <2>3
<1>16. NewestIsKnown'
  <2>1. ASSUME NEW v \in Windows, capturing'[v]
        PROVE  generation' = issued'
    <3>1. generation = issued
      BY <1>1, <1>8, <2>1 DEF NewestIsKnown
    <3> QED
      BY <1>2, <1>15, <2>1, <3>1 DEF Holding
  <2>2. ASSUME NEW v \in Windows, starting'[v], StartAt(v)' \in {"status", "answer"}
        PROVE  generation' = issued'
    <3>1. generation = issued
      BY <1>1, <1>7, <1>8, <2>2 DEF NewestIsKnown
    <3> QED
      BY <1>2, <1>15, <2>2, <3>1 DEF Holding
  <2>3. /\ \A v \in Windows : StartAt(v)' = "page" /\ starting'[v] => StreamPhase' # "Live"
        /\ \A x \in Client!Job :
             jobAt'[x] = "answer" =>
               status'[x].gen = issued' /\ (StreamPhase' = "Live" => status'[x].capturing)
    BY <1>1, <1>2, <1>7, <1>8 DEF NewestIsKnown
  <2> QED
    BY <2>1, <2>2, <2>3 DEF NewestIsKnown
<1>17. ShownEnds'
  <2>1. ASSUME NEW v \in Windows, Holding(v)', EndIsToCome, generation = issued
        PROVE  EndIsToCome'
    <3>1. ~(e.kind = "stopped" /\ e.gen = issued)
      BY <1>1, <1>5, <1>6, <1>8, <2>1 DEF Holding
    <3>2. CASE issued \in announced
      <4>1. PICK i \in 1 .. Len(uiEvents) : uiEvents[i] = [kind |-> "stopped", gen |-> issued]
        BY <2>1, <3>2 DEF EndIsToCome
      <4>2. i # 1
        BY <1>3, <3>1, <4>1
      <4>3. i - 1 \in 1 .. Len(uiEvents') /\ uiEvents'[i - 1] = uiEvents[i]
        BY <1>4, <4>2
      <4> QED
        BY <1>2, <2>1, <4>1, <4>3 DEF EndIsToCome
    <3>3. CASE issued \notin announced
      BY <1>2, <2>1, <3>3 DEF EndIsToCome
    <3> QED
      BY <3>2, <3>3
  <2>2. ASSUME NEW v \in Windows, capturing'[v]
        PROVE  EndIsToCome'
    <3>1. EndIsToCome /\ generation = issued
      BY <1>1, <1>8, <2>2 DEF ShownEnds, NewestIsKnown
    <3> QED
      BY <2>1, <2>2, <3>1 DEF Holding
  <2>3. ASSUME NEW v \in Windows, starting'[v], StartAt(v)' = "answer",
               status'[<<v, "start">>].capturing
        PROVE  EndIsToCome'
    <3>1. EndIsToCome /\ generation = issued
      BY <1>1, <1>2, <1>7, <1>8, <2>3 DEF ShownEnds, NewestIsKnown
    <3> QED
      BY <2>1, <2>3, <3>1 DEF Holding
  <2> QED
    BY <2>2, <2>3 DEF ShownEnds
<1>18. SomebodyEnds'
  <2>1. SUFFICES ASSUME StreamPhase = "Live"
                 PROVE  SomebodyEnds'
    BY <1>7 DEF SomebodyEnds
  <2>2. CASE \/ ending
             \/ \E x \in Client!Call : x[2] # "start" /\ req[x].at = "sent"
             \/ \E v \in Windows :
                  opened[v] /\ StartAt(v) \in {"call", "status", "answer", "page"}
    BY <1>2, <1>7, <2>2 DEF SomebodyEnds
  <2>3. ASSUME NEW v \in Windows, Holding(v), generation = issued, ~ending
        PROVE  SomebodyEnds'
    <3>1. issued \notin announced /\ online
      BY <1>1, <2>1, <2>3 DEF StreamOK
    <3>2. capturing' = capturing /\ starting' = starting
      BY <1>1, <1>5, <1>6, <2>3, <3>1
    <3>3. Holding(v)'
      BY <2>3, <3>2 DEF Holding
    <3>4. generation' = issued'
      BY <1>2, <1>15, <2>3, <3>3
    <3> QED
      BY <3>3, <3>4 DEF SomebodyEnds, Holding
  <2>4. ASSUME NEW v \in Windows, capturing[v], ~ending
        PROVE  SomebodyEnds'
    <3>1. generation = issued
      BY <1>1, <2>4 DEF NewestIsKnown
    <3> QED
      BY <2>3, <2>4, <3>1 DEF Holding
  <2> QED
    BY <1>1, <2>1, <2>2, <2>3, <2>4 DEF SomebodyEnds, Holding
<1> QED
  BY <1>10, <1>11, <1>12, <1>13, <1>14, <1>16, <1>17, <1>18 DEF ClientInv

(* What the client holds of the generation may only move towards the       *)
(* newest, and clicks may be counted.                                      *)
LEMMA ClientStands ==
  ASSUME ClientInv,
         UNCHANGED <<captureSlot, issued, announced, online, ending, req, uiEvents, capturing,
                     starting, closed, gate, jobAt, opened, shouldStop, startedGen, status>>,
         clicks' \in 0 .. MaxClick, generation' \in 0 .. issued, ~(generation' < generation)
  PROVE  ClientInv'
<1>1. StreamPhase' = StreamPhase /\ (EndIsToCome' <=> EndIsToCome)
  BY DEF StreamPhase, EndIsToCome
<1>2. generation = issued => generation' = issued
  BY DEF ClientInv, ClientTyped, ServiceTyped
<1>3. ClientTyped'
  BY DEF ClientInv, ClientTyped, ServiceTyped, WindowsTyped, JobsTyped
<1>4. StreamOK'
  BY <1>1 DEF ClientInv, StreamOK, StartAt, StartReq
<1>5. EventsOK'
  BY DEF ClientInv, EventsOK
<1>6. GateOK'
  BY GateRests DEF ClientInv
<1>7. StartsOK'
  BY <1>1 DEF ClientInv, StartsOK, StartAt, StartReq
<1>8. NewestIsKnown'
  BY <1>1, <1>2 DEF ClientInv, NewestIsKnown, StartAt
<1>9. ShownEnds'
  BY <1>1, ShownRests DEF ClientInv
<1>10. SomebodyEnds'
  BY <1>1, <1>2 DEF ClientInv, SomebodyEnds, StartAt
<1> QED
  BY <1>3, <1>4, <1>5, <1>6, <1>7, <1>8, <1>9, <1>10 DEF ClientInv

(* A bind that does not set the generation back.                           *)
BindOK == bind.gen \in 0 .. issued

LEMMA BindKeepsClient ==
  ASSUME Client!ClientAssumption, ClientInv, BindOK,
         Client!Select \/ Client!AnswerBind \/ (Client!BindReturns /\ ~setback')
  PROVE  ClientInv'
<1>1. /\ generation \in 0 .. issued /\ issued \in 0 .. MaxGen /\ clicks \in 0 .. MaxClick
      /\ MaxClick \in Nat
  BY DEF ClientInv, ClientTyped, ServiceTyped, WindowsTyped, Client!ClientAssumption
<1>2. UNCHANGED <<captureSlot, issued, announced, online, ending, req, uiEvents, capturing,
                  starting, closed, gate, jobAt, opened, shouldStop, startedGen, status>>
  BY DEF Client!Select, Client!AnswerBind, Client!BindReturns, Client!serviceVars,
         Client!deviceVars, Client!windowVars, Client!jobVars
<1>3. clicks' \in 0 .. MaxClick
  BY <1>1 DEF Client!Select, Client!AnswerBind, Client!BindReturns
<1>4. generation' \in 0 .. issued /\ ~(generation' < generation)
  <2>1. CASE Client!Select \/ Client!AnswerBind
    <3>1. generation' = generation
      BY <2>1 DEF Client!Select, Client!AnswerBind
    <3> QED
      BY <1>1, <3>1
  <2>2. CASE Client!BindReturns /\ ~setback'
    <3>1. generation' = bind.gen /\ (setback' <=> setback \/ bind.gen < generation)
      BY <2>2 DEF Client!BindReturns
    <3>2. ~(bind.gen < generation)
      BY <2>2, <3>1
    <3> QED
      BY <3>1, <3>2 DEF BindOK
  <2> QED
    BY <2>1, <2>2
<1> QED
  BY <1>2, <1>3, <1>4, ClientStands

LEMMA ClientKept ==
  ASSUME Client!ClientAssumption, ClientInv, BindOK, Client!Next, ~setback'
  PROVE  ClientInv'
<1>1. ClientFacts
  BY DEF ClientFacts, ClientInv, Client!ClientAssumption
<1>2. ASSUME NEW w \in Windows,
             \/ Client!ServeStart(w) \/ Client!SendRunning(w) \/ Client!StartEnds(w)
             \/ Client!ClickStart(w) \/ Client!StartTurn(w) \/ Client!StartCall(w)
             \/ Client!StartReturns(w) \/ Client!Confirm(w) \/ Client!StartDone(w)
             \/ Client!IdleStopped(w)
      PROVE  ClientInv'
  BY <1>1, <1>2, ServeStartKeepsClient, SendRunningKeepsClient, StartEndsKeepsClient,
     ClickStartKeepsClient, StartTurnKeepsClient, StartCallKeepsClient, StartReturnsKeepsClient,
     ConfirmKeepsClient, StartDoneKeepsClient, IdleStoppedKeepsClient
<1>3. ASSUME NEW w \in Windows,
             \/ Client!ClickStop(w) \/ Client!StopTurn(w) \/ Client!StopReturns(w)
             \/ Client!StopDone(w) \/ Client!CloseReturns(w) \/ Client!Close({w})
      PROVE  ClientInv'
  <2>1. CASE Client!CloseReturns(w)
    BY <1>1, <2>1, StopEndsKeepsClient
  <2> QED
    BY <1>1, <1>3, <2>1, ClickStopKeepsClient, StopTurnKeepsClient, StopDoneKeepsClient,
       CloseKeepsClient
<1>4. ASSUME NEW c \in Client!Call, Client!ServeStop(c) \/ Client!StopEnds(c)
      PROVE  ClientInv'
  <2>1. CASE Client!StopEnds(c)
    BY <1>1, <2>1, StopEndsKeepsClient
  <2> QED
    BY <1>1, <1>4, <2>1, ServeStopKeepsClient
<1>5. ASSUME NEW j \in Client!Job, Client!AnswerStatus(j)
      PROVE  ClientInv'
  BY <1>1, <1>5, StatusKeepsClient
<1>6. ASSUME NEW g \in 1 .. issued, Client!SendStopped(g)
      PROVE  ClientInv'
  BY <1>1, <1>6, SendStoppedKeepsClient
<1>7. CASE Client!StreamEnds
  BY <1>1, <1>7, StopEndsKeepsClient
<1>8. CASE Client!GoOffline \/ Client!ComeBack
  BY <1>1, <1>8, DeviceKeepsClient
<1>9. CASE Client!Deliver
  BY <1>1, <1>9, DeliverKeepsClient
<1>10. CASE Client!Select \/ Client!AnswerBind \/ Client!BindReturns
  BY <1>10, BindKeepsClient
<1> QED
  BY <1>2, <1>3, <1>4, <1>5, <1>6, <1>7, <1>8, <1>9, <1>10 DEF Client!Next

(* The status a bind is answered with is of a stream that was opened.      *)
LEMMA BindKept ==
  ASSUME ClientInv, BindOK, Client!Next
  PROVE  BindOK'
<1>1. /\ issued \in Nat /\ bind.gen \in 0 .. issued
      /\ captureSlot["device"].generation \in {0, issued}
  BY DEF ClientInv, ClientTyped, ServiceTyped, StreamOK, StreamPhase, BindOK
<1>2. CASE \/ Client!Select
           \/ Client!AnswerBind
           \/ Client!BindReturns
  BY <1>1, <1>2 DEF Client!Select, Client!AnswerBind, Client!BindReturns, Client!NoBind,
     Client!TheStatus, Client!Phase, Client!serviceVars, BindOK
<1>3. CASE bind' = bind /\ issued' \in {issued, issued + 1}
  BY <1>1, <1>3 DEF BindOK
<1>4. ASSUME NEW w \in Windows,
             \/ Client!ServeStart(w) \/ Client!SendRunning(w) \/ Client!StartEnds(w)
             \/ Client!CloseReturns(w)
      PROVE  bind' = bind /\ issued' \in {issued, issued + 1}
  BY <1>4 DEF Client!ServeStart, Client!SendRunning, Client!StartEnds, Client!CloseReturns,
     Client!Capture!Open, Client!Capture!GoLive, Client!Capture!Drop, Client!clientVars,
     Client!bindVars, Client!serviceVars
<1>5. ASSUME NEW w \in Windows,
             \/ Client!ClickStart(w) \/ Client!StartTurn(w) \/ Client!StartCall(w)
             \/ Client!StartReturns(w) \/ Client!Confirm(w) \/ Client!StartDone(w)
             \/ Client!IdleStopped(w) \/ Client!ClickStop(w) \/ Client!StopTurn(w)
             \/ Client!StopReturns(w) \/ Client!StopDone(w) \/ Client!Close({w})
      PROVE  bind' = bind /\ issued' = issued
  BY <1>5 DEF Client!ClickStart, Client!StartTurn, Client!StartCall, Client!StartReturns,
     Client!Confirm, Client!StartDone, Client!IdleStopped, Client!ClickStop, Client!StopTurn,
     Client!StopReturns, Client!StopDone, Client!Close, Client!bindVars, Client!serviceVars
<1>6. ASSUME NEW c \in Client!Call, Client!ServeStop(c) \/ Client!StopEnds(c)
      PROVE  bind' = bind /\ issued' = issued
  BY <1>6 DEF Client!ServeStop, Client!StopEnds, Client!Capture!Close, Client!Capture!Drop,
     Client!clientVars, Client!bindVars, Client!serviceVars
<1>7. ASSUME \/ \E j \in Client!Job : Client!AnswerStatus(j)
             \/ \E g \in 1 .. issued : Client!SendStopped(g)
             \/ Client!StreamEnds \/ Client!GoOffline \/ Client!ComeBack \/ Client!Deliver
      PROVE  bind' = bind /\ issued' = issued
  BY <1>7 DEF Client!AnswerStatus, Client!SendStopped, Client!StreamEnds, Client!GoOffline,
     Client!ComeBack, Client!Deliver, Client!Capture!Announce, Client!Capture!Drop,
     Client!clientVars, Client!bindVars, Client!serviceVars
<1> QED
  BY <1>2, <1>3, <1>4, <1>5, <1>6, <1>7 DEF Client!Next

(* Nothing is claimed once a bind has set the generation back.             *)
BoundInv == ~setback => ClientInv /\ BindOK

LEMMA ClientAlways == Spec => []BoundInv
<1>1. Client!ClientAssumption
  BY JobAssumptions
<1>2. Init => BoundInv
  <2> SUFFICES ASSUME Init
               PROVE  ClientInv /\ BindOK
    BY DEF BoundInv
  <2>1. ClientInv
    BY <1>1, ClientInitially DEF Init
  <2>2. BindOK
    BY DEF Init, Client!Init, Client!Capture!Init, Client!NoBind, BindOK
  <2> QED
    BY <2>1, <2>2
<1>3. BoundInv /\ [Next]_vars => BoundInv'
  <2> SUFFICES ASSUME BoundInv, [Next]_vars, ~setback'
               PROVE  ClientInv' /\ BindOK'
    BY DEF BoundInv
  <2>1. CASE UNCHANGED clientVars
    <3>1. ClientInv /\ BindOK
      BY <2>1 DEF BoundInv, clientVars
    <3>2. UNCHANGED <<captureSlot, issued, announced, online, ending, req, uiEvents, capturing,
                      starting, closed, gate, jobAt, opened, shouldStop, startedGen, status>>
      BY <2>1 DEF clientVars
    <3>3. generation \in 0 .. issued /\ issued \in Nat /\ clicks \in 0 .. MaxClick
      BY <3>1 DEF ClientInv, ClientTyped, ServiceTyped, WindowsTyped
    <3>4. clicks' \in 0 .. MaxClick /\ generation' \in 0 .. issued /\ ~(generation' < generation)
      BY <2>1, <3>3 DEF clientVars
    <3>5. ClientInv'
      BY <3>1, <3>2, <3>4, ClientStands
    <3>6. BindOK'
      BY <2>1, <3>1 DEF BindOK, clientVars
    <3> QED
      BY <3>5, <3>6
  <2>2. CASE ~setback /\ Client!Next
    <3>1. ClientInv /\ BindOK
      BY <2>2 DEF BoundInv
    <3> QED
      BY <1>1, <2>2, <3>1, ClientKept, BindKept
  <2> QED
    BY <2>1, <2>2 DEF Next, vars
<1> QED
  BY <1>2, <1>3, PTL DEF Spec

(* However clicks, closings and the device's own coming and going overlap: *)
(* with nothing on its way any more, a window shows a capture if and only  *)
(* if there is one; unless a bind has set the generation back (LogClient). *)
THEOREM WindowsShowTheStream == Spec => []WindowsMatchStream
<1>1. BoundInv => WindowsMatchStream
  <2> SUFFICES ASSUME ClientInv, Client!AtRest
               PROVE  (\E w \in Windows : capturing[w]) <=> StreamPhase = "Live"
    BY DEF BoundInv, WindowsMatchStream, Client!WindowsMatchStream, Client!Phase, StreamPhase
  <2>1. ClientTyped /\ StreamOK /\ GateOK /\ ShownEnds /\ SomebodyEnds /\ issued \in 0 .. MaxGen
    BY DEF ClientInv, ClientTyped, ServiceTyped
  <2>2. /\ Len(gate) = 0 /\ Len(uiEvents) = 0 /\ ~ending
        /\ \A c \in Client!Call : req[c].at = "none"
        /\ \A g \in 1 .. issued : captureSlot["device"].generation = g \/ g \in announced
    BY NoneQueued DEF Client!AtRest
  <2>3. \A w \in Windows : StartAt(w) = "none" /\ ~starting[w]
    <3>1. \A j \in Client!Job : jobAt[j] = "none"
      BY <2>1, <2>2 DEF GateOK
    <3>2. \A w \in Windows : StartAt(w) = "none"
      BY <3>1, CallsAre DEF StartAt
    <3> QED
      BY <2>1, <3>2 DEF GateOK
  <2>4. ASSUME NEW w \in Windows, capturing[w]
        PROVE  StreamPhase = "Live"
    <3>1. EndIsToCome
      BY <2>1, <2>4 DEF ShownEnds
    <3>2. issued # 0 /\ issued \notin announced
      BY <2>2, <3>1 DEF EndIsToCome
    <3>3. issued \in 1 .. issued
      BY <2>1, <3>2
    <3>4. captureSlot["device"].generation # 0
      BY <2>2, <3>2, <3>3
    <3>5. StreamPhase \in {"Starting", "Live", "Stopping"}
      BY <2>1, <3>4 DEF StreamOK, StreamPhase, ClientTyped, ServiceTyped
    <3>6. StreamPhase # "Starting"
      BY <2>1, <2>3 DEF StreamOK
    <3>7. StreamPhase # "Stopping"
      BY <2>1, <2>2 DEF StreamOK
    <3> QED
      BY <3>5, <3>6, <3>7
  <2>5. ASSUME StreamPhase = "Live"
        PROVE  \E w \in Windows : capturing[w]
    BY <2>1, <2>2, <2>3, <2>5 DEF SomebodyEnds
  <2> QED
    BY <2>4, <2>5
<1> QED
  BY <1>1, ClientAlways, PTL

-----------------------------------------------------------------------------
(* What a transfer tells last is true of the disk, and an exit is told     *)
(* when all the child wrote has been handed on (Transfer, ProcessRunner).  *)
THEOREM EndsAreTold == Spec => []EndsAreTrue
<1>1. TransferInv => Files!EndIsTrue
  <2> SUFFICES ASSUME TransferInv, NEW t \in Files!Transfers, told[t] \in Files!Terminal
               PROVE  /\ \A e \in Files!ToSet(events) : e.id # t
                      /\ t \in Pulls \ stuck => IF told[t] = "Done" THEN file[t] = "whole"
                                                ELSE file[t] # "partial"
    BY DEF Files!EndIsTrue
  <2>1. /\ EndIsLast(t) /\ FileIsAsTold(t) /\ events \in Seq(TransferEvent)
    BY DEF TransferInv
  <2>2. transferPc[t] \in {"Release", "Ended"} /\ told[t] = outcome[t]
    BY <2>1 DEF EndIsLast
  <2>3. \A e \in Files!ToSet(events) : e.id # t
    BY <2>1 DEF EndIsLast, Files!ToSet
  <2> QED
    BY <2>1, <2>2, <2>3 DEF FileIsAsTold
<1>2. ProcessInv => Process!OutputIsWhole
  BY DEF ProcessInv, ExitIsLast
<1> QED
  BY <1>1, <1>2, TransferAlways, ProcessAlways, PTL DEF EndsAreTrue

(* No failed write and no crash tears the library or, as long as no two    *)
(* are set at once, the settings; the library in memory is that of the     *)
(* file between calls, and the settings agree in memory, in the file and   *)
(* in the services when every call so far has gone through (a value whose  *)
(* write failed stays in memory; CommandLibrary, SettingsStore).           *)
THEOREM DocumentsAreKept == Spec => []DocumentsSurvive
<1>1. LibraryInv => Commands!LibrarySurvives
  BY DEF LibraryInv
<1>2. SettingsInv => Settings!SettingsSurvive
  <2> SUFFICES ASSUME SettingsInv, ~overlapped
               PROVE  Settings!SettingsSurvive
    BY DEF Settings!SettingsSurvive
  <2>1. path # Settings!NoFile => content[path].whole
    BY DEF SettingsInv, FileIsWhole
  <2>2. ASSUME \A t \in Settings!Savers : ~Settings!Under(t), NEW k \in Keys, Sound(k)
        PROVE  cores[k] = memory[k] /\ Settings!Filed(k)
    BY <2>2 DEF SettingsInv, Agrees
  <2> QED
    BY <2>1, <2>2 DEF Settings!SettingsSurvive, Sound
<1> QED
  BY <1>1, <1>2, LibraryAlways, SettingsAlways, PTL DEF DocumentsSurvive
=============================================================================
