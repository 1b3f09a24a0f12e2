---------------------------- MODULE MCJobsAndLogs ----------------------------
(***************************************************************************)
(* The jobs and the lines: the assembler of log records, log windows and   *)
(* the batches of their hits, the capture client of the UI, runs of        *)
(* command groups, transfers, downloads of an update, the child processes  *)
(* below them, and the two documents of the application, the command       *)
(* library and the settings. They share no variable: `focus` picks the one *)
(* that moves (see MCDeviceSessions).                                      *)
(***************************************************************************)
EXTENDS Integers

CONSTANTS
  LogWindows, Capacity, SmallerCapacity, MaxLine, MaxLogCalls,  (* LogWindows     *)
  RepeatedLines,
  MaxHits,                                                      (* HitBatches     *)
  Devices, Steps,                                               (* GroupRun       *)
  Pushes, Pulls, MaxProgress,                                   (* Transfer       *)
  MaxDownload, InstallerSize, DOWNLOAD_ATTEMPTS,                (* UpdateDownload *)
  OutLines, ErrLines, PipeCap, ChanCap, LineCap,                (* ProcessRunner  *)
  Windows, MaxGen, MaxClick, ClientEventCap,                    (* LogClient      *)
  Frames, MaxDepth, MaxCauses,                                  (* LogAssembler   *)
  FirstLibrary, Libraries, MaxCalls,                            (* CommandLibrary *)
  Keys, Values, Calls, Closing,                                 (* SettingsStore  *)
  EventCap, SinkCap   (* of the groups and the transfers, of the batches and the groups *)

VARIABLES
  focus,
  logged, device_from, worker, at, line, skip, prepared, pushed, buf, next_seq, capacity, book,
  call, calls, raced,
  hits, pending, ready, batchSink, dropped, untold,
  run, registered, cancelled, step, pc, senders, progress, forwarding, sink,
  transferPc, ids, killed, file, stuck, lines, outcome, events, told,
  started, slot, stopped, downloadPc, attempt, have, received, open, length, part, dest, stage,
  overtaken,
  mode, child, turn, pipes, wrote, read, pump, chan, drained, got, held, whole, cut, lineChan,
  consumer, token, runnerPc, runOutcome,
  captureSlot, issued, announced, online, ending, req, uiEvents, capturing, starting, closed,
  generation, gate, jobAt, opened, shouldStop, startedGen, status, bind, setback, clicks,
  stacks, todo, header, body, records, short,
  library, disk, libraryTmp, writePc, op, settled, libraryCalls, sent,
  memory, content, path, tmp, savePc, key, text, openFile, cores, exiting, overlapped

(* Libraries: the built-in one, one with gaps in its templates, one that   *)
(* shares ids with others in other groups, and three that are not valid.   *)
Field(n) == [kind |-> "slot", n |-> n]
Text == [kind |-> "text", n |-> 0]
Entry(id, steps) == [id |-> id, legal |-> TRUE, steps |-> steps]
EntryGroup(id, entries) == [id |-> id, entries |-> entries]
Command == Entry("command", <<<<Text>>>>)
Block == Entry("block", <<<<Text, Field(1)>>, <<Text>>, <<Field(1), Field(0)>>>>)
New == Entry("new", <<<<Text>>>>)

DefaultLibrary == <<EntryGroup("g1", <<Command, Block>>)>>

SampleLibraries ==
  {DefaultLibrary,
   <<EntryGroup("g2", <<Entry("command", <<<<Text, Field(2), Field(0), Field(2)>>>>), New>>)>>,
   <<EntryGroup("g1", <<Entry("other", <<<<Field(0)>>>>)>>), EntryGroup("g3", <<New>>)>>,
   <<EntryGroup("g2", <<Command, Command>>)>>,
   <<EntryGroup("g1", <<Entry("blank", <<<<>>>>)>>)>>,
   <<EntryGroup("g1", <<[New EXCEPT !.legal = FALSE]>>)>>}

Log == INSTANCE LogWindows WITH
         Windows <- LogWindows, MaxCalls <- MaxLogCalls, Repeats <- RepeatedLines

Hit == INSTANCE HitBatches WITH sink <- batchSink

Group == INSTANCE GroupRun

Files == INSTANCE Transfer WITH
           pc <- transferPc, registered <- ids, cancelled <- killed

Update == INSTANCE UpdateDownload WITH
            Size <- InstallerSize, pc <- downloadPc, cancelled <- stopped, raced <- overtaken

Process == INSTANCE ProcessRunner WITH
             open <- pipes, lines <- lineChan, cancelled <- token, pc <- runnerPc,
             outcome <- runOutcome

Client == INSTANCE LogClient WITH
            Device <- "device", EventCap <- ClientEventCap,
            slot <- captureSlot, events <- uiEvents, at <- jobAt

Assembler == INSTANCE LogAssembler WITH out <- records, cut <- short

Commands == INSTANCE CommandLibrary WITH
              Default <- FirstLibrary,
              tmp <- libraryTmp, pc <- writePc, calls <- libraryCalls

Settings == INSTANCE SettingsStore WITH
              Tasks <- Calls, pc <- savePc, open <- openFile, raced <- overlapped

ASSUME JobAssumptions ==
  /\ Log!LogAssumption
  /\ Hit!BatchAssumption
  /\ Group!GroupAssumption
  /\ Files!TransferAssumption
  /\ Update!DownloadAssumption
  /\ Process!RunnerAssumption
  /\ Client!ClientAssumption
  /\ Assembler!AssemblerAssumption
  /\ Commands!LibraryAssumption
  /\ Settings!SettingsAssumption

logVars == <<logged, device_from, worker, at, line, skip, prepared, pushed, buf, next_seq,
             capacity, book, call, calls, raced>>
batchVars == <<hits, pending, ready, batchSink, dropped, untold>>
groupVars == <<run, registered, cancelled, step, pc, senders, progress, forwarding, sink>>
transferVars == <<transferPc, ids, killed, file, stuck, lines, outcome, events, told>>
updateVars == <<started, slot, stopped, downloadPc, attempt, have, received, open, length, part,
                dest, stage, overtaken>>
processVars == <<mode, child, turn, pipes, wrote, read, pump, chan, drained, got, held, whole,
                 cut, lineChan, consumer, token, runnerPc, runOutcome>>
clientVars == <<captureSlot, issued, announced, online, ending, req, uiEvents, capturing,
                starting, closed, generation, gate, jobAt, opened, shouldStop, startedGen,
                status, bind, setback, clicks>>
assemblerVars == <<stacks, todo, header, body, records, short>>
libraryVars == <<library, disk, libraryTmp, writePc, op, settled, libraryCalls, sent>>
settingsVars == <<memory, content, path, tmp, savePc, key, text, openFile, cores, exiting,
                  overlapped>>
vars == <<focus, logVars, batchVars, groupVars, transferVars, updateVars, processVars,
          clientVars, assemblerVars, libraryVars, settingsVars>>

Init ==
  /\ focus \in {"log", "batch", "group", "transfer", "update", "process", "client",
               "assembler", "library", "settings"}
  /\ Log!Init /\ Hit!Init /\ Group!Init /\ Files!Init /\ Update!Init
  /\ Process!Init /\ Client!Init /\ Assembler!Init
  /\ Commands!Init /\ Settings!Init
  /\ focus # "transfer" => stuck = {} /\ \A t \in Pulls : file[t] = "old"
  /\ focus # "assembler" => stacks = <<>>
  /\ focus # "process" => mode = "capture"
  /\ focus # "library" => disk = Commands!Missing
  /\ focus # "settings" => path = Settings!NoFile

(* Nothing is claimed of the settings once two calls have been under way   *)
(* at once, nor of the client of the log once a bind has set its           *)
(* generation back; a behaviour goes no further then.                      *)
Next ==
  /\ UNCHANGED focus
  /\ \/ /\ focus = "log" /\ Log!Next
        /\ UNCHANGED <<batchVars, groupVars, transferVars, updateVars, processVars,
                       clientVars, assemblerVars, libraryVars, settingsVars>>
     \/ /\ focus = "batch" /\ Hit!Next
        /\ UNCHANGED <<logVars, groupVars, transferVars, updateVars, processVars,
                       clientVars, assemblerVars, libraryVars, settingsVars>>
     \/ /\ focus = "group" /\ Group!Next
        /\ UNCHANGED <<logVars, batchVars, transferVars, updateVars, processVars,
                       clientVars, assemblerVars, libraryVars, settingsVars>>
     \/ /\ focus = "transfer" /\ Files!Next
        /\ UNCHANGED <<logVars, batchVars, groupVars, updateVars, processVars,
                       clientVars, assemblerVars, libraryVars, settingsVars>>
     \/ /\ focus = "update" /\ Update!Next
        /\ UNCHANGED <<logVars, batchVars, groupVars, transferVars, processVars,
                       clientVars, assemblerVars, libraryVars, settingsVars>>
     \/ /\ focus = "process" /\ Process!Next
        /\ UNCHANGED <<logVars, batchVars, groupVars, transferVars, updateVars,
                       clientVars, assemblerVars, libraryVars, settingsVars>>
     \/ /\ focus = "client" /\ ~setback /\ Client!Next
        /\ UNCHANGED <<logVars, batchVars, groupVars, transferVars, updateVars,
                       processVars, assemblerVars, libraryVars, settingsVars>>
     \/ /\ focus = "assembler" /\ Assembler!Next
        /\ UNCHANGED <<logVars, batchVars, groupVars, transferVars, updateVars,
                       processVars, clientVars, libraryVars, settingsVars>>
     \/ /\ focus = "library" /\ Commands!Next
        /\ UNCHANGED <<logVars, batchVars, groupVars, transferVars, updateVars,
                       processVars, clientVars, assemblerVars, settingsVars>>
     \/ /\ focus = "settings" /\ ~overlapped /\ Settings!Next
        /\ UNCHANGED <<logVars, batchVars, groupVars, transferVars, updateVars,
                       processVars, clientVars, assemblerVars, libraryVars>>

Fairness ==
  /\ WF_batchVars(focus = "batch" /\ Hit!Aggregate)
  /\ WF_batchVars(focus = "batch" /\ Hit!Drain)
  /\ WF_groupVars(focus = "group" /\ Group!RunStep)
  /\ \A d \in Devices : WF_groupVars(focus = "group" /\ Group!DeviceStep(d))
  /\ WF_processVars(focus = "process" /\ Process!ChildStep)
  /\ WF_processVars(focus = "process" /\ Process!RunStep)
  /\ WF_processVars(focus = "process" /\ Process!TakeLine)
  /\ \A p \in {"out", "err"} : WF_processVars(focus = "process" /\ Process!PumpStep(p))

Spec == Init /\ [][Next]_vars /\ Fairness
-----------------------------------------------------------------------------
(* The properties of the modules, under the names the run gives them.      *)

(* Every variable has its type.                                            *)
TypeOK ==
  /\ Log!TypeOK /\ Hit!TypeOK /\ Group!TypeOK /\ Files!TypeOK /\ Update!TypeOK
  /\ Process!TypeOK /\ Client!TypeOK /\ Assembler!TypeOK
  /\ Commands!TypeOK /\ Settings!TypeOK

(* LogAssembler: a record comes out once, with the text that was logged.   *)
RecordsAreWhole == Assembler!RecordsAreWhole

(* LogWindows: resumed logcats leave no double in the ring and no gap but  *)
(* for lines equal in time and text to one it has, and an index is what    *)
(* its filter finds there.                                                 *)
RingIsFollowed == Log!FollowIsGapless /\ Log!IndexIsOfTheRing

(* Transfer: the end of a transfer is told once, and is true of the disk.  *)
(* ProcessRunner: a run that reports an exit has handed on all its child   *)
(* wrote.                                                                  *)
EndsAreTrue == Files!EndIsTrue /\ Process!OutputIsWhole

(* UpdateDownload: Ready means that the whole installer is there.          *)
ReadyIsWhole == Update!ReadyIsWhole

(* HitBatches: a lost batch is told. GroupRun: a run ends, whether the     *)
(* client listens or not. ProcessRunner: so does the run of a child.       *)
EverythingEnds == Hit!LostHitsAreTold /\ Group!RunEnds /\ (focus = "process" => Process!RunReturns)

(* ProcessRunner: a line of stdout is handed on whole.                     *)
LinesAreWhole == Process!LinesAreWhole

(* LogClient: windows show a capture if and only if there is one, as long  *)
(* as no selection of a device has set the generation back.                *)
WindowsMatchStream == Client!WindowsMatchStream

(* CommandLibrary: an import changes what was ticked and nothing else, and *)
(* what is sent has each value where its field stood.                      *)
LibraryDoesAsTold == Commands!ImportMergesSelection /\ Commands!FillIsPerStep

(* CommandLibrary and SettingsStore: no failed write and no crash tears a  *)
(* document. The library in memory is the one of the file between calls;   *)
(* settings keep a new value whose write failed in memory, and agree with  *)
(* the file when no call has failed and none is under way.                 *)
DocumentsSurvive == Commands!LibrarySurvives /\ Settings!SettingsSurvive
=============================================================================
