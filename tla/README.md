# TLA+ models of YoADBTools

YoADBTools is a desktop workbench for Android devices: Rust services behind a
Tauri shell, a Solid UI in front of it. What is hard about it is not the data
but the sessions. For every device there is a log capture, a mirror, a browse
session, a status poller; each is opened and closed by user calls, by the
device going offline and by the exit of the application, all at once, on a
multi-threaded tokio runtime, with one bounded channel carrying everything to
the UI. This directory models those sessions.

## Inventory

Rust core (`src/core`), one crate per service:

| component | state it keeps | operations | what makes it correct |
|---|---|---|---|
| log capture service, `yohu-logsrv/capture.rs` | slot per device (`Starting`/`Live`/`Stopping`, generation, token, handles), last generation, next generation, `Notify` | `start`, `stop`, `detach_device`, `clear`, `status`; internally `abandon_starting`, `release_if_current` | a slot always has an owner that moves it on; each generation ends once and its `Stopped` is delivered; the reported generation never goes back; a Live slot is fed by its own worker and by no other |
| follow worker, `follow.rs` | attempt, resume skip | follow, restart in place, go offline | ends when cancelled; goes offline only while it is current |
| log windows, `windows.rs`, `ring.rs`, `batch.rs` | ring of lines with sequence numbers, hit index per window, batch | `bind`, `latch`, `page`, `prepare`/`commit`, `clear` | a window's hits are lines of the ring that match its filter, in order, each once |
| log assembler, `assembler.rs`, `stack_trace.rs` | header and lines of the open record | `ingest`, `take`, idle flush | a record comes out once, whole, its folded frames filled in |
| task center, `app/.../tasks.rs` | table of tasks, next id | `register`, `finish`, `summary` | a task is finished once; the client ends up showing it |
| event channel and dispatcher, `lib.rs:219`, `events.rs` | one `mpsc` channel of 8192 events | `send().await`, `try_send`, dispatch | the control plane is delivered; its only reader never waits for itself |
| device catalog, `device_catalog.rs`, `domain/catalog.rs` | cached devices, scan gate | `refresh`, offline detach | one scan at a time; a device that comes back keeps its new sessions |
| browse session, `yohu-files/browse.rs`, `browse_runs.rs` | slot per device (`Starting`/`Live`/`Closed`, generation, shell worker), one list token | `attach`, `release`, `detach`, `list`, `drop_workers` | a stale generation never closes or answers for a newer one |
| mirror service, `yohu-mirror/service.rs`, `warm.rs` | slot per device, warm tunnels | `start`, `stop`, `warmup`, `drop_warm`, `note_live` | one session per device; no tunnel is leaked; a Live session is not cancelled by its own start |
| frame pipe, `yohu-mirror/frame.rs` | queue of eight frames, sticky configuration | `push`, `pop`, `reset_content` | what is left after a drop can be decoded |
| status hub, `yohu-adb/status.rs` | polling slot and last status per device | `sync_online`, `set_night`, poll | no sample of a former slot in a newer one; the generation grows |
| adb client, device shell, `yohu-adb` | semaphore, shell process, poison flag | `run`, `exec` | a command's output is never another's |
| file transfer, `yohu-files/transfer.rs`, `transfer_runs.rs` | running transfers | push, pull, cancel | one terminal state; only partial targets are removed |
| command groups, `domain/command/executor.rs`, `group_runs.rs` | running groups | run, cancel | steps in order per device; every result is shown |
| update and download, `yohu-update`, `yohu-download`, `update_runs.rs` | one download, staged installer | check, download, replace, apply | stages arrive in order; a verified file only is applied |
| mirror presentation, `mirror_present/` | stage on or off, Sender of its surface, what is bound; per surface a thread with a window and a command queue; windows by device | `set_active`, `layout`, `attach`, `unbind`, `shutdown` | a stage that is off has no window, one that is on shows the bound session; no window is left behind |
| surface on Linux, `mirror_present/linux/` | decoding seat (decoder, failure, configuration, what it published), ring of sixteen surfaces, one job slot and one canvas | drain, decode, publish, alloc, post, redraw | the page is told what is true of the seat; no picture is decoded over one still wanted; what is posted last is drawn; headers are read as written |
| touches, `control_hand.rs`, `pointer.rs`, `stage.rs` | what the stage shows, whether the hand presses | layout, bind, release, pointer; `inject` in a task of its own | no finger stays down on a device when the hand is gone |
| command library, `domain/command/library.rs`, `library_store.rs` | one document in memory and in a file | load, save, import, fill | an import changes what was ticked; values go where their fields stood; the file is never torn |
| settings, `settings_store.rs`, `settings_apply.rs` | one document in memory and in a file | load, `set`, save at exit | file, memory and services agree |
| runtime, exit, `yohu-runtime`, `exit.rs` | child processes | run, kill tree, atomic write, shutdown | no adb process is left behind |
| log client of the UI, `ui/packages/modules/logs` | holds of windows, per-device gate, generation per device | start, stop, close window, events | a window shown as capturing is served, or a `Stopped` is on its way |
| task store, workbench and view packages | projections of events | | |

Interactions: every service sends `AppEvent`s into the one channel; the
dispatcher forwards them to the UI and closes the tasks of captures and mirrors
on the way. The catalog calls `detach` of capture, mirror and browse when a
device goes offline. The shell's `*_runs` modules connect service calls with
tasks. Exit cancels the root token, of which every session token is a child.
What is hard, over and over: a call decides under a lock, releases it, awaits a
device or a join, and comes back to a slot that others have taken meanwhile; a
device drops out and returns within one of those awaits; events leave a service
in one order and reach the client in another, or find the channel full; a late
stop, release or result of one generation meets the next; a join gives up after
its timeout and aborts whatever it was waiting for.

`PROJECT.json` lists the components with their status, and every hazard with
its line and the properties that watch it.

## Modules

| module | models | composed from |
|---|---|---|
| `CaptureSlot` | abstract: what a device's capture looks like from outside, Empty, Starting(g), Live(g), Stopping(g), Empty, and one end per generation | |
| `CaptureService` | `capture.rs`, the workers it spawns, their join, its end of the channel | implements `CaptureSlot` |
| `LogClient` | `ui/packages/modules/logs`: the capture client of the UI | uses `CaptureSlot` for the service |
| `TaskCenter` | `tasks.rs`, `capture_runs.rs`, the dispatcher of `events.rs`, jobs that own a task, the client's table | uses `CaptureSlot` for the captures |
| `LogAssembler` | `assembler.rs`, `stack_trace.rs`, the idle flush of `follow.rs`: from printed lines to records | |
| `LogWindows` | `follow.rs`, `ring.rs`, `windows.rs`: a line from logcat to the windows | |
| `HitBatches` | `batch.rs` | |
| `BrowseSession` | `browse.rs`, `browse_runs.rs` | |
| `DeviceShell` | `device_shell.rs`: one framed `adb shell -T` | |
| `DeviceCatalog` | `device_catalog.rs`, `catalog.rs` | |
| `StatusHub` | `status.rs` | |
| `MirrorService` | `service.rs`, `slot.rs`, `session.rs`, `warm.rs`, `tunnel.rs` | |
| `FramePipe` | `frame.rs`, the loop that fills it, the decode seat that empties it | |
| `PresentHost` | `mirror_present/mod.rs` and the surface threads of `mirror_present/windows` | |
| `ControlHand` | `control_hand.rs`, `pointer.rs`, the stage of one surface, `inject` and `close_control` of the mirror | |
| `LinuxSeat` | `linux/surface.rs`, `linux/host.rs`: the thread of a surface on Linux with its decoding seat | |
| `VaSurfaces` | `linux/vaapi.rs`: the ring of surfaces, the references and the blits | |
| `H264Headers` | `linux/h264.rs`, the split of a stream into NAL units | |
| `LinuxPaint` | `linux/widget.rs`: the job slot of a surface and the canvas of the GTK thread | |
| `GroupRun` | `executor.rs`, `group_runs.rs` | |
| `Transfer` | `transfer.rs`, `transfer_runs.rs` | |
| `UpdateDownload` | `update_runs.rs`, `yohu-download` | |
| `ProcessRunner` | `process.rs` | |
| `CommandLibrary` | `command/library.rs`, `import.rs`, `library_store.rs`, `persist.rs` | |
| `SettingsStore` | `settings_store.rs`, `settings_apply.rs`, `persist.rs`, the end of `exit.rs` | |
| `MCCaptureService` | two small instances with interchangeable tasks, one with joins that time out, one fair without | `CaptureService`, twice |
| `MCDeviceSessions` | what hangs on a device | `BrowseSession`, `DeviceShell`, `DeviceCatalog`, `StatusHub` |
| `MCMirrorPath` | the way of a picture and of the touches on it | `MirrorService`, `FramePipe`, `ControlHand` |
| `MCJobsAndLogs` | lines and jobs | `LogAssembler`, `LogWindows`, `HitBatches`, `LogClient`, `GroupRun`, `Transfer`, `UpdateDownload`, `ProcessRunner`, `CommandLibrary`, `SettingsStore` |
| `MCAppShell` | the shell of the application and the surface on Linux | `TaskCenter`, `PresentHost`, `LinuxSeat`, `LinuxPaint`, `VaSurfaces`, `H264Headers` |
| `CaptureService_proofs` | types, the inductive invariant with three properties, and that `CaptureService` implements `CaptureSlot` | `CaptureService` |
| `CaptureFollow_proofs` | workers and Live slots | `CaptureService_proofs` |
| `TaskCenter_proofs` | types, and that tasks are finished once | `TaskCenter` |
| `DeviceSessions_proofs` | types and four properties of the sessions of a device | `MCDeviceSessions` |
| `MirrorService_proofs` | types and four properties of sessions and tunnels | `MirrorService` |
| `MirrorPath_proofs` | types, the frames of the pipe and the fingers of the hand | `MCMirrorPath`, `MirrorService_proofs` |
| `JobsAndLogs_proofs` | installers, ends of jobs, documents, and what windows show | `MCJobsAndLogs` |
| `AppShell_proofs` | types, the stage, the seat, the surfaces and the canvas | `MCAppShell`, `TaskCenter_proofs` |

The MC modules check several components in one run. Their variable
`focus` is chosen at the start and says which component moves; the others keep
their initial state. The components of one MC module share no variable, so an
interleaving of two of them is, for a property of one, a behaviour of that one
with stuttering: letting one move at a time loses nothing. Where components do
interact, one module has both sides: the worker and the calls of
`CaptureService`, seat and session in `FramePipe`, dispatcher and owners in
`TaskCenter`, client and service in `LogClient`. What lies on the other side of
a boundary is an environment that may do at any step whatever the neighbour can
do: `Detach` in `DeviceCatalog`, the ends of streams in `MirrorService`, a
device that runs, hangs or is unplugged in `DeviceShell`.

An action is what happens from one lock section, await or thread hand-over to
the next. A call that is inside a function keeps its place in `pc` (or `at`);
what it has copied out of a lock stays in variables of its own, because it may
be stale when used.

### CaptureService and the code

State, one variable each: `captures`, `last_generation`, `next_generation` are
the fields of `Inner` under its mutex; a slot keeps its phase, its generation
and whether its handles are stored. `cancelled` and `root_cancelled` are the
cancellation tokens. `ring` says which generations' lines a device's ring
holds, not which lines. `worker` is the spawned follow task of a generation.
`sink` is the channel with the control-plane events only, `received` what the
client has got. `call` and `pc` are the tasks running the IPC handlers.

An action ends where another task can run in between: at the end of a lock
section, at a `send().await`, at the await of a `Notify` or of a `JoinHandle`.
`start` is `CallStart`, then `Adopt`, `DecideWait` or `Begin` (the three
results of `decide_start`), `RecheckStart` and the sleep, `ClearDevice`,
`CheckCancel`, `ClearRing`, `SendRunning`, `SpawnWorker`, `Publish`, and the
two ways out, `AbandonStart`/`SendAbandoned` and `JoinOwn`. `stop` is
`CallStop`, `NothingToStop`, `DecideStop`, `TakeSlot`, `RecheckStop`,
`JoinWorkers`, `RemoveSlot`, `SendStopped`; `detach_device` adds
`ClearAfterStop`. The worker has `WorkerLine`, `WorkerCancelled`,
`WorkerOffline`, `Release`, `WorkerSend`.

Three details of tokio matter and are in the model. A `Notified` future is
woken by a `notify_waiters` that happens after its *creation*, which precedes
the recheck: so recheck and sleep may be two steps and no wakeup is lost. A
sender that waits for room may be overtaken by one that came later: `Send` has
no queue of senders. An aborted task stops at the await it stands at, so
`JoinOrAbort` may end a worker that follows, that has gone offline, or that
waits in a full channel, but not one that could run on.

### TaskCenter and the code

`inner` and `next` are the table and the counter of `TaskCenter`, `runs` is
`CaptureRuns.tasks`, `sink` the channel with summaries and `Stopped`s,
`sending` the sends that `emit_finish` spawns, `shown` the UI's table, which
every summary replaces. `register` is `Insert`, `Snapshot`, `EmitLossy`: the
table is locked twice and `try_send` comes after. `finish` is `SetDone` (inside
`JobEnds` and `DispatcherSetsDone`) and `EmitFinish`. Captures are taken from
`CaptureSlot`, whose steps `OpenCapture` to `AnnounceCapture` extend with what
the shell does at that moment.

### LogAssembler, LogWindows, HitBatches and the code

`header` and `body` are the fields of `MessageAssembler`, `todo` is what logcat
still has to print: an exception with its causes, the way Java prints it
(`Printed`), and a plain record. `Ingest` takes a line, `IngestSystem` one of
logcat's own, `Take` is the idle flush and the end of the stream. What was
*meant* is computed from the stacks, not from the printed lines.

`buf`, `next_seq`, `capacity` are the fields of `Ring`, `book` the windows with
their filters and indexes, `skip` is `ResumeSkip`, `logged` and `device_from`
stand for the device's own log. A line passes `AdmitLine` (the skip after a
restart), `Prepare` (match under the book's lock), `Push` (the ring's lock) and
`Commit` (the book's lock again). `BindScan`/`BindInsert`, `Release`,
`ClearDevice`/`ClearRing`/`ClearBook` and `SetCapacity` are the client's calls,
each in as many steps as it takes locks. The text of a line is its number, but
for the lines in `Repeats`, which have text and time of the line before them;
two lines share each time stamp, and every other line is a signal for the filter.
`skip_resume` compares what the code compares, time and text.
`raced` remembers the windows whose bind or clear fell between the locks of
one line. `HitBatches` takes over where `Commit` ends: `Note`, `Flush` on full
batch or tick, `SendHits` by `try_send`, `emit_overflow`.

### LogClient and the code

The UI is one thread, so an action is what runs from one await to the next.
`gate` is the promise chain of `runExclusive`; `ClickStart` to `StartDone`,
`ClickStop` to `StopDone`, `Close` and `CloseReturns` are its jobs. The service
behind it is `CaptureSlot` with the answers (`ServeStart`, `ServeStop`,
`AnswerStatus`) on one way and the events (`Deliver`) on another, so that
either may overtake the other. `Select`, `AnswerBind` and `BindReturns` are
`bindSerial`, which runs when a device is selected or comes or goes: it asks for
the status outside the gate and writes the generation of the answer whatever it
has by then; `setback` remembers that this lowered it. `ComeBack` waits until the `DeviceOffline` of
the last disappearance and the detach that goes with it are through.

### BrowseSession, DeviceShell and the code

A generation is a `BrowseSlot` behind an `Arc`, which calls hold on to after
`sessions` has lost it. `attach`: `CallAttach`, `PeekAttach`, `RecheckAttach`
and the sleep, `Begin`, `Open`, `Publish`, or `CloseAbandoned` and
`RemoveAbandoned`. `release` and `detach`: `CallRelease` or `WentOffline`,
`RemoveSlot` if it `Matches`, `CloseSlot`. `list`: `PeekList`, `RecheckList`,
`RunOneshot` or `TakeWorker`, `OpenWorker`, `Exec`, `Restore`, then `LookUp` and
`Finish`. `CallReset`, `Replace`, `DropWorkers` are the change of the adb path.
`DeviceShell` opens one worker: `OpenShell`, `ReadHandshake`, and for each turn
`Exec`, `ReadTurn`; whatever fails goes through `Fail` and `Classify`, which
reads what `Drain` has found on stderr. The device runs scripts in the order
they were written and prints when it likes.

### DeviceCatalog, StatusHub and the code

A refresh is `CallRefresh`, then `JoinScan` (wait on the watch) or `Lead`,
`Scan`, `Reconcile`, `SyncOnline`, `SendChanged`, `SendOffline`, `CloseBrowse`,
`SpawnStops`, `Answer`, `Clear`. A decision in `stopping` runs its stops one
after the other in the background. A session is opened in two steps,
`CheckOnline` (`require_online` of the commands) and, after whatever else happens
in between, `OpenSession`, which may also join what is there or fail; it is the
appearance of the device it was opened in, and may end by itself when that is
gone (`FailSession`). `late` has the sessions opened while the table lacked their
device. In `StatusHub` a slot has one poller (`SampleOk` or `SampleErr`,
`PushSample`, `Tick`); `set_night` is `WriteNight`, `SampleNight`, `UpsertNight`,
`SendNight`. A status is reduced to its night field, the one the
user writes and the poller reads.

### MirrorService, FramePipe, PresentHost, ControlHand and the code

`slot` with its generation and handle, `warm` with its `WarmEntry`, `tunnels`
as adb keeps them. `start` is `CallStart`, `Decide`, `RecheckStart`, `Spawn`,
`PublishHandle`, `AwaitOrphan`, or `Abandon` (`abandon_starting`) when its token
is cancelled before the session is spawned; `Exit` cancels the root token, and
with it every session and warmup, without a stop; `stop` is `CallStop`, `Stop`, `RecheckStop`,
`AwaitHandle`, `RemoveSlot`, `TellStopped`, and for a device that went offline
`DropWarm`. The session is `TakeWarm`, `RecheckWarm`, `CancelWait`,
`DropMismatch`, `Prepare`, `Connect`, `NoteLive`, the media until `StreamEnds`
or `CancelMedia`, `DropTunnel`, `AfterAttempt` (which may try again with H.264 where
HEVC failed), `Release`, `EmitEnd`; a warmup
is `CallWarmup`, `OpenWarm`, `Commit`, `DropStale`.

In `FramePipe` a push of a configuration takes two lock sections and the pop of
the seat may come between them; `select_live_frames` is the catch-up of the
decode seat. In `PresentHost` the fields of `Inner` are variables, the callers
hold a Sender or a binding between their lock sections, and each surface has a
thread (`Begin`, `Step`, `Disconnect`, `Leave`), an unbounded queue `cmds` and
what its stage shows. `slots` is the table of `GeomHost`. `ControlHand` looks
inside one surface: `Layout`, `Bind`, `FirstFrame`, `Release`, `Uninstall` and
`Pointer` are what its thread does, `flight` the tasks spawned by `inject`, and
`Touch` one of them reaching the session of its device, in any order.

### LinuxSeat, VaSurfaces, H264Headers, LinuxPaint and the code

`seat` is what the loop of `linux/surface.rs` keeps, `present_bind` the slot of
`Host` all surfaces write. A turn of the loop is `Step` (one command), `Turn`
(`ensure_decoder` and the drain of the pipe) and `Feed`, once per frame of the
batch. `Decoded` is the choice of `decode_au` between libva and OpenH264; a
frame decodes if the decoder has seen its headers. `VaSurfaces` is a layer
below: `done` has the flags of the slots, `dpb` the references, `job`, `last`,
`painting` the three places where the canvas keeps a blit; `Alloc`, `Decode`,
`NewContext`, `DropDecoder` are those of `vaapi.rs`. `H264Headers` writes
parameter sets and slice headers by the standard's syntax, as bits, one of them
in each initial state; `Parse` reads it the way `parse_sps`,
`parse_pps` and `parse_slice` do, a few elements in a step, and the units of a
stream are split and unescaped (`annexb_nals`, `rbsp`). In `LinuxPaint` the
poster's `SetJob` and `Swap`, and the `Clear`, `Take`, `Recheck` of `redraw`, are
the steps between which the other thread can run.

### GroupRun, Transfer, UpdateDownload, ProcessRunner and the code

`GroupRun`: per device `Check`, `Command`, `Send`, `Gap`; a run ends when its
forwarder sees the channel closed, that is, when `senders` is empty.
`Transfer`: `Begin`, `Recheck`, `Announce`, `Progress`, `StreamEnds`,
`Cleanup`, `Tell`, `Release`. `UpdateDownload`: `part` and `dest` are paths,
files are what they name, and a download goes on with the file it has open;
`Attempt`, `Respond` (fresh or resumed), `Chunk`, `Verified`, `Rename`, `Retry`,
`Clear`. `ProcessRunner`: the three ways to run a child share the pumps;
`mode` picks one. A line of stdout is two pieces, because `read_until` can be
dropped between them by the `select!`.

### CommandLibrary, SettingsStore and the code

Loads, saves and imports of the library run one after the other; `disk` and
`tmp` are its two files, and every step of `atomic_write` may fail or be the
last before a crash. A template is a sequence of tokens; `fill`,
`placeholder_slots`, `apply_import` are the functions of the same names. In
`SettingsStore` every call of `settings.set` is a task of its own: `Take`,
`Put`, `CopyAgain`, `Create`, `Write`, `Rename`, `Apply`. A path names a file,
so two calls at once can write into one `.tmp`. `Shutdown` is the save of the
exit, `Restart` the end of the process and the next `load`.

## Runs

| run | question | result |
|---|---|---|
| `CaptureSlotSafety` | do the slots stay sound under three concurrent calls, and do they follow `CaptureSlot`? Does every call return and every `Stopped` arrive, when joins do not time out? | holds |
| `CaptureLostStop` | does every `Stopped` arrive when they may? | one is lost |
| `CaptureStaleLines` | does a Live ring hold its own stream only? | a line of the former stream enters |
| `TaskCenterStale` | is the last table the client gets the newest? | an older one can be last |
| `TaskCenterMixup` | does a `Stopped` close its own capture's task? | it can close the next one's |
| `DeviceSessions` | do the sessions of a device that comes and goes end by their own generation, and does everybody end up with what is true? | holds |
| `CatalogLateDetach` | does the background stop of an offline device spare what was opened after it came back? | it closes it |
| `MirrorPath` | do starts, stops, sessions and warmups leave no session and no tunnel behind, can the decoder read what the pipe kept, and is every finger lifted? | holds |
| `JobsAndLogs` | are records, indexes, files, documents and ends what they claim to be, and does every job end? | holds |
| `StreamLosesHead` | is a forwarded line a line the child wrote? | the head of one can be lost |
| `AppShell` | are tasks finished once and shown, is the stage what was asked for, and does a picture get from the pipe to the screen on Linux? | holds |
| `SeatMissesConfig` | does every keyframe reach a decoder of Linux with the configuration it was encoded with? | a seat built anew has none |

Properties of `CaptureService`. `SlotHasItsTask`: no slot is stranded in a
transient phase, and a `stop` that comes back from its join finds its own slot
(so the branch "superseded by a newer generation" of `stop` is dead code).
`LiveIsFed`: a Live slot with an open token has a worker. `OneFollower`: two
workers of a device never both follow with open tokens. `StoppedIsUnique`: one
`Stopped` per generation, whoever wins the race to end it.
`GenerationOnlyGrows`: what `status` reports never goes back. `AbstractSlot`:
refinement of `CaptureSlot` under the mapping that hides handles, workers and
calls and sees a generation as announced once its `Stopped` is in the channel.
`FairCallsReturn`, `FairStopIsDelivered`: of the second instance, whose calls
are fair and whose joins never time out; every call returns, and the `Stopped`
of every generation that ended reaches the client. The tasks are a symmetry set:
no action and no property tells them apart, and the temporal properties are of
the second instance, whose own callers are not in that set.

Of `DeviceSessions`. `BrowseKeepsItsSessions`: a browse slot that is not closed is
in the map or in the hands of a call that will close it, and only a release of
its generation, its device or a failed open ends it (`SessionsKeepOwners`); a
list returns the entries of a session nobody had ended (`ListIsCurrent`).
`ShellIsTruthful`: a turn takes no line of another turn for its answer, and a
session falls back to single commands only for a device that rejected the script
on stderr or broke off its handshake without a word there (by ending or by more
noise than it may print), and never because it was cancelled or slow, or, with
stderr read in time, because it was offline.
`OnePoller`: at most one poller with an open token, and one for each online
device. `CatalogIsShown`, `DeviceConverges`: with nothing on its way the client
shows the last scan; the sessions of offline devices go, but those opened after
their device was seen to go, and a cached status does not stay wrong.
`CallsReturn`: attaches, lists and joined refreshes return.

Of `MirrorPath`. `OrphansAreCancelled`: a session that has lost its slot has a
cancelled token. `EndIsToldOnce`: one end event per generation, whoever sends it, a stop, the
session or a start that the exit abandons.
`TunnelsInUseAreUp`: nobody tears down a tunnel in use.
`CancelledWarmupsAreUnused`: the tunnel of a warmup that was dropped is never on
offer again and no session works with it. `FramesDecode`: no keyframe is fed with an
older configuration than its own, and one is dropped for a newer one only.
`FingersFollowTheHand`: when every touch has arrived, a device whose control
channel is open has a finger down only while the hand presses on it.
`PathEnds`: calls return and the seat of a closed pipe ends.

Of `JobsAndLogs`. `RecordsAreWhole`: each record that was not cut short comes
out once, in order, with the text that was logged. `RingIsFollowed`: a resumed
logcat leaves no double in the ring and no gap but for lines that equal a known
one in time and text (`FollowIsGapless`), and the
index of a window is what its filter finds there, whatever was evicted
(`IndexIsOfTheRing`). `WindowsMatchStream`: with
nothing on its way, windows show a capture if and only if there is one, unless a
selection of the device has set the generation back.
`EndsAreTrue`: a transfer tells one end, true of the disk; a process that
reports an exit has handed on all it wrote. `ReadyIsWhole`: an installer
announced as ready is whole. `EverythingEnds`: lost hits are told, group runs
and processes end. `LibraryDoesAsTold`: an import changes
what was ticked and nothing else, and two valid libraries merge into a valid
one (`ImportMergesSelection`); each value stands where its field stood, against a
definition by counting instead of offsets (`FillIsPerStep`). `DocumentsSurvive`:
no failure and no crash tears a file; between calls the library in memory is that
of its file, and the settings agree in memory, file and services but for the keys
of calls that have failed since the last start.

Of `AppShell`. `FinishedOnce`: a task is finished once. `ShellSettles`: the
client gets to see it, and no thread of a former surface of the stage is left.
`StageAtRest`: when all is through, a stage that is off has no surface and one
that is on shows what is bound. `SeatTellsTruth`: when the surface of the page has
done what there was to do, the client is told what is true of its seat.
`PicturesReachTheScreen`: no picture is decoded over one that is on its way to
the screen or referred to, surfaces come back, and the canvas draws what was
posted last. `HeadersAreRead`: what was written into parameter sets and slice
headers is what is read from them, and a stream falls into the units it is made of.

Findings. The seven violation runs are real disagreements with the comments and
documents they quote; `PROJECT.json` has the lines. The lost `Stopped` needs a
channel that is full for three seconds. The stale line needs a `stop` in the
short time between the spawn of the worker and the publication of the slot. The
two of the task center need an unlucky order of two spawned tasks, or of a
start and the dispatcher, and leave a wrong task table on screen. The late
detach needs a device that comes back while the background join of its old
mirror or capture is under way. The lost head needs a turn of stderr between
two reads of one stdout line. The seat without a configuration needs only that
the page is left and entered again while the mirror runs.

### What the models exclude

Where the code has a behaviour that a property would have to call an error, but
no document of the repository says what is right, the property says under which
condition it holds, and the condition is listed here.

* `LogWindows`: a bind between the match and the commit of a line indexes it
  twice, one between match and push may miss it; a clear between push and commit
  leaves a hit of a cleared line; a `logcat -c` racing the clearing of the ring
  lets a resume admit an older line. `IndexIsOfTheRing` and `FollowIsGapless`
  leave such windows (`raced`) out.
  `skip_resume` takes a line for a known one if time, process, tag and text are
  equal. A line that logcat prints again in the same millisecond is one the
  client never sees when a restart falls on it; `FollowIsGapless` asks for
  every line that does not equal a known one.
* `HitBatches`: the note of a loss is sent only when the channel has room after
  a tick; hits that are evicted before they are sent, and those of a batcher
  that is cancelled, are not told.
* `GroupRun`: progress is forwarded by `try_send` and can be lost, although
  `executor.rs:323` calls it reliable; `EverythingEnds` is about the end only.
* `Transfer`: local files are distinct; two pulls to one path would share it. A
  cancel during the recheck is reported as a failure, and a pull that fails
  before its stream removes a file that was there before.
* `UpdateDownload`: a replaced download past its last look at the token can
  still create or rename the `.part` (`raced`), and stages can be overtaken.
* `ProcessRunner`: the last `child.wait()` is outside the reach of the token;
  `EverythingEnds` excludes a child that closed its pipes and hangs.
* `BrowseSession`: a list that took its worker before the adb path changed puts
  it back after `drop_workers` (`browse.rs:558`).
* `MirrorService`: an entry of `warm` carries no owner, and the comment of
  `warm.rs:40`, that the presence of a Busy entry says it is still this warmup's,
  does not hold. A warmup that was dropped while it opened its tunnel and comes
  back when a newer one has the entry removes that entry (`warm.rs:112`, `117`);
  if it was ready, its tunnel stays up with nobody to close it. With three warmups
  one that was not dropped may put its tunnel into an entry made for another
  intent. `CancelledWarmupsAreUnused` is what is left of the promise. A stop may overtake "Starting"; a
  session that is Live before its handle is stored makes `start` return an error.
  The end of a mirror is looked up by device in `events.rs:57`, as that of a
  capture is in `TaskCenterMixup`.
* `PresentHost`: `layout` looks at `active` in one lock section and stores its
  surface in a later one, so that a stage turned off meanwhile keeps it, and two
  callers can make two surfaces; a Bind can be sent after its binding was over;
  an old surface unregisters by device and removes the slot of a newer one, which
  then no longer follows the main window; an Unbind is ignored by a surface laid
  out for another device. `strayed` marks these; `StageAtRest` then promises only
  that no dead window is placed. `OldSurfacesEnd` (a part of
  `ShellSettles`) holds in all behaviours. A
  surface that fails leaves its dead Sender in place until the stage is turned
  off, and its slot if the failure came after `register`.
* `ControlHand`: the tasks of two touches may run in any order, so that an Up
  may overtake its Down; and a layout or a binding that takes the stage to
  another device lifts the hand there, or nowhere, but not on the device it
  presses. `overtaken` and `turned` mark these, and nothing is claimed after.
* `LinuxSeat`: what a surface says after the page has left it is in the slot all
  surfaces share; a layout over a seat that failed in the middle of a video says
  Video or Paused; a binding of a seat that has failed already, or for which
  `decode_au` opens OpenH264 whatever the switch or the failure says, says
  nothing. `strayed` marks these. A failure inside the loop is not drawn
  (`fail` without `sync`) until the next command; the drawing is not modelled.
* `VaSurfaces`: a context that is destroyed takes its surfaces with it while the
  canvas may hold a blit of one (`strayed`), although `vaapi.rs:47` says a
  surface lives until it is put. References have no flag: that they are not
  overwritten holds because of `MaxPlain`, and `Keep * (MaxPlain + 1) + 2` must
  be at most `SURFACES`.
* `H264Headers`: `parse_slice` does not read the flags of
  `ref_pic_list_modification`, nor the operands of every memory management
  operation, and `parse_pps` takes the stop bit for a flag unless it is the last
  of its byte. The slices and parameter sets considered are those without them:
  no scaling lists, no slice groups, I slices or none of these operations.
* `LinuxPaint`: a surface that hides its window after its successor was booted
  leaves it on the page (`strayed`).
* `LogAssembler`: a record that is still being printed when nothing has come for
  100 ms is taken as it is, and the rest of its lines belong to no record
  (`cut`). A stack trace with "Suppressed:" parts is not among those considered.
* `SettingsStore`: two overlapping calls lose an update or write into one
  `.tmp`, and the exit does not wait for calls under way: nothing is claimed
  after either (`raced`). A failed write leaves its value in memory, and file and
  services without it: `SettingsSurvive` leaves out the keys of the calls that
  failed, until the next start.
* `LogClient`: a device that comes back before the event of its going has
  arrived is left out. `bindSerial` writes the generation of an answer that may be
  older than what the events have brought, although `capture-event.ts:2` forbids
  to set it back; a late Stopped of the older stream then closes the windows of
  the newer one. `setback` marks this, and nothing is claimed after.
* `DeviceCatalog`: a command looks at the table (`require_online`) and awaits
  its attach or start later. What it opens after the device has gone from the
  table is not stopped by the refresh that saw it go; `late` marks it, until the
  device is back or the session closed. That the client learns of the last
  status is not claimed: `status.rs:262` sends it by `try_send`.
* `DeviceShell`: the end of a shell is classified by what stderr has brought
  within its time. If that time passes (`DrainTimesOut`), an offline device may be
  taken for one without `-T`; and a handshake that ends with nothing on stderr is
  taken for that of such a device, whatever ended it.

### Bounds

`Serials`: one device. A slot's life touches only its own device, apart from
the generation counter, the channel and the `Notify`; the invariants of
`CaptureService` were also run once with two devices and three generations (8.2
million states) with the same result, and the proofs are for any number.
`Tasks`: three calls in the first instance (an opener, a closer and one more
that waits), two in the fair one. `MaxGen = 2`: a generation and its successor,
which is what a late step can meet. `SinkCap = 1` makes every second send wait,
as 8192 does under a flood. `JoinTimesOut` chooses whether the three seconds of
a join can pass. `CallStart` admits no more openings than there are generations
left, so no call is stopped by the bound halfway.

| in | bounds | what they let happen |
|---|---|---|
| `AppShell`, tasks | `MaxGen`, `MaxTask`, `EventCap` 2; one device, one job | a capture and its successor; a full channel. `MaxTask = 3` was run once (1.1 million states) and passes |
| `AppShell`, stage | two devices, one with sessions; two surfaces, one `layout`, on and off, one session; before, no layout or one of the device without sessions | a surface and its successor alive together, a surface laid out for one device and bound to another |
| `AppShell`, seat | two surfaces, one session, one configuration, one frame, one change of the pause, the switch or the library | a surface that is left and rebuilt in the middle of a session |
| `AppShell`, surfaces | six slots, two references, at most one unreferenced picture in a row | a ring exactly as long as the condition asks; the code has sixteen |
| `AppShell`, headers | numbers 0, 1, 5; a unit of up to four bytes and one of one | codes of one to five bits across byte boundaries, an emulation byte at each place |
| `AppShell`, canvas | two surfaces, two jobs | a job posted in each gap of a redraw, a surface that ends after the next has begun |
| `JobsAndLogs`, library | two calls, six sample libraries of which three are invalid, at most four values | an import into a library just saved, ids shared across groups, gaps and repeats among the fields. Three calls were run once (20 000 states) |
| `JobsAndLogs`, settings | two keys, two values, two calls and the exit, any number of restarts | a call after one that failed or was cut off; a behaviour ends where two calls overlap |
| `DeviceSessions`, browse | one device, two openers, one of them a lister, one ender; `MaxGen`, `MaxTool` 2 | attach against attach, list against release, a changed adb path |
| `DeviceSessions`, shell | `MaxTurn`, `PipeCap`, `HANDSHAKE_LINE_LIMIT` 2 | a turn after one that was cut short; noise before the handshake |
| `DeviceSessions`, catalog | `MaxAppear` 2, `EventCap` 1, two refreshes, `MaxOpens` 1 (2 in `CatalogLateDetach`): sessions of different kinds do not read each other | a device that comes back while stops of its former sessions wait |
| `DeviceSessions`, status | `MaxSlot`, `MaxWrites` 2, `EventCap` 1 | a poller of a former slot, a write between two samples |
| `MirrorPath` | `MaxGen`, `MaxWarm` 2, `MaxTask` 3, one of which the exit takes; pipe of 2, `MaxPts` 3, `MaxConfig` 2 | a session and its successor, a warmup replaced by another; eviction and a change of configuration in a full queue |
| `MirrorPath`, hand | two devices, three touches | a whole press overtaken by a layout, and the next one; with four touches it was run once and passes |
| `JobsAndLogs`, records | two frames, stacks of two, two causes | folded frames of a cause whose cause folds them again |
| `JobsAndLogs`, logs | capacity 3, then 2, `MaxLine` 4, the last of which repeats the one before; two calls of the client; batches: `SinkCap` 1, `MaxHits` 6 | eviction by a line and by a smaller capacity, a full channel twice |
| `JobsAndLogs`, client | two windows, `MaxGen` 2, `MaxClick` 3 (selections of the device included), `EventCap` 2 | a start and a stop queued behind each other while events wait; a status asked for before and answered after a start |
| `JobsAndLogs`, jobs | two devices of two steps; one push, one pull, `MaxProgress` 2; two downloads of size 2, two attempts; a child of 1 + 3 lines, channels of 1 | a full channel inside a run, a resumed and replaced download, a pipe that fills while the other is read |

`CHECK_DEADLOCK FALSE` is set in the runs of `TaskCenter`, of `LinuxSeat` and of
the composed MC modules: with every job over, every bound reached and every session
closed there is nothing left to do, and a component can stop while the one in
`focus` is at rest.

### Fairness

Weak fairness per task: tokio polls every ready task, every lock section is
short and no task holds a lock across an await. `Deliver` and the dispatcher
are fair: their loop ends only when all senders are gone. A weakly fair send is
justified because a waiting sender keeps its place in tokio's queue of permits.
In detail:

* `DeviceSessions`: each caller, refresher, night caller and poller, the stops
  of a decision, `Deliver`; strongly fair is `SampleOk`, a device that answers
  again and again: without it, a device that fails every sample keeps its
  cached status for ever, and nothing is claimed of that.
* `MirrorPath`: each call, one of the sessions, one of the warmups, the seat.
* `JobsAndLogs`: the batcher and its reader, the run of a group and each of its
  devices, a child that is not hung, its pumps and the reader of its lines.
* `AppShell`: one of the steps that `Fairness` of `TaskCenter` lists, one caller
  and one surface of the stage. With a bounded number of steps of each, this
  weaker assumption is enough.

Not fair: calls of the user, a device going offline or coming back, a line
arriving, the exit, an image of the mirror ending, a child that chooses to hang,
and, in `TaskCenter`, a job coming to its end and every step of a capture.

## Proofs

Every theorem is of the specification a run checks, or of a component of it, and
for every value of its constants within one assumption per module. They ask for
natural or positive bounds and capacities only, with these additions:
`JoinTimesOut` and `DrainTimesOut` are Booleans, and a job is no generation in
`CenterAssumption`, since both name owners of tasks; the first library is one of
the libraries and valid, the calls of the settings are finitely many, and the exit
is none of them. Nothing is assumed of the size of `Serials`,
`Tasks`, callers, refreshers, windows and transfers. One theorem has a hypothesis:
that the ring of surfaces is long enough for the stream (`RingIsLongEnough`).

The argument is the same everywhere: an inductive invariant, implied by `Init`
and kept by every action, of which the property is a part or a consequence.
Alone the properties are not inductive, because what makes them true is who has
the right to do what next, and they do not say. Each invariant was given to TLC
before it was proved.

### The capture service

* `TypeCorrect`: `TypeOK`, with `CallOK`, which ties what a call record holds
  to where the call stands (a call past its decision has a device, and a
  generation once it owns one).
* `GenerationsOnlyGrow`, `OneStoppedPerGeneration`, `TransientSlotsHaveTasks`
  from one inductive invariant:
  * `SlotOrder`: slots hold distinct generations, none above the counter, each
    above the last generation of its device. It is why removing a slot, which
    moves `status` from the slot to `last_generation`, never lowers it.
  * `Custody`: the right to send the `Stopped` of a generation is held by one
    party: nobody while a slot holds the generation; then one call, or the
    worker, that removed the slot; then the channel; then the client. It is
    why the three ways to end a generation never report it twice.
  * `Closers`: a transient slot has its task, a task in `stop` past its
    decision has its slot in `Stopping`, and one slot has one closer.

  Each step is first classified by what it does to the slots and to custody
  (open, publish, take, remove, hand over, send, nothing), the classification
  is proved once per action, and the parts of the invariant once per class.
* `OneFollowerPerDevice`, `LiveSlotsAreFed` from `FollowInv`, on top of
  `SlotOrder`: a `start` with an open token still has the slot it opened, alone
  (`OpenersHold`); a slot in `Stopping`, and a generation somebody joins, has its
  token cancelled (`LeftIsCancelled`); a worker with an open token has its slot
  in Live or the `start` about to publish it (`FollowersHaveSlots`), and the
  other way round (`SlotsAreFed`). It is why the abort of a join, and the
  release by a worker, never hit a session that goes on.
* `CaptureServiceImplementsCaptureSlot`: initial states map to initial states,
  each class of step to a step of `CaptureSlot` or to a stutter.

### The task center

* `CenterTypes`: `TypeOK`, with what an owner of a task knows (`SlotOK`).
* `TasksFinishOnce`, `TasksAdvance`: the second is an action property that no run
  checks, a task goes from absent to active to done and no other way.
  `finish` looks at nothing but the id it gets; both hold because a task that can
  still be finished is with one holder only: its owner (`HeldOnce`), the entry of
  a device in `CaptureRuns` (`MappedOnce`), or the dispatcher (`InHand`), and new
  ids are unused (`FreshIds`). That the device may be the wrong one is
  `TaskCenterMixup`; that its task is then finished once is proved.

TLC checked the invariant on 1.95 million states.

### The sessions of a device

The specification of the run `DeviceSessions`, with one invariant for each of its
four components.

* `DeviceTypes`: `TypeOK`, from all four.
* `ShellStaysTruthful` from `ShellInv`: the pipe and stdin are empty when no turn
  runs (`Ready`), in a turn nothing follows a begin line but lines of this turn,
  and nothing at all follows its end line (`Turn`), nothing follows the ready line
  of the handshake (`Handshake`), and every other end costs the process, with no
  turn begun if it was the handshake's (`Told`).
  This is what the comparison of nonces rests on: lines of an earlier
  script cannot stand between the begin and the end of this one.
* `ClientShowsCatalog` from `CatalogInv`: one refresh at a time is between the
  gate's "scanning" and "free" (`Gate`), and the current table is with the leader
  that has to send it, or in the channel with no other behind it, or shown
  (`LastTable`).
* `OnePollerEach` from `HubInv`: slots in use are open, distinct and not
  cancelled (`SlotsOK`), and the poller of a slot that is not cancelled is alive
  and its slot is its device's (`PollersOK`).
* `BrowseKeepsSessions` from `BrowseInv`: what a call holds fits where it stands
  (`CallsFit`); generations are handed out in order, and the one an attach
  is opening is in no other device's entry (`MapOK`); a slot that is not closed is
  in the map or in a hand that will close it (`Owned`). It is an action
  property: that a Live slot is closed only by a release of its generation or a
  detach, that closed slots stay closed, and that a list answers from a
  session nobody had ended.

The first three were checked together, with three turns, three appearances and a
stderr that may be late, on 1.79 million states, the last with two devices and
three generations on 4.5 million.

### The mirror service

`MirrorInv` has two halves that meet in the types only; most steps of one leave
the other at rest.

* `OrphansCancelled` and `EndToldOnce` from `Life`: the end of a session is owed
  by the one who took its slot away, be it a stop, the session or a start that
  abandons it, by nobody else, and by nobody before (`EndsOK`); a session not yet
  spawned is its `start`'s, which has the slot or has been cancelled (`SpawnsOK`).
  That a token is cancelled does not say that the slot is taken: the exit
  cancels them all and takes none.
* `TunnelsInUse` and `CancelledWarmupsUnused` from `TunnelsOK`: a tunnel has one
  holder at most, a session, the entry of the device, a call that takes it down,
  or the warmup that has just opened it. The entry does not name its
  warmup; that it is not of a dropped one is what the invariant adds.
* `MirrorTypes`: `TypeOK`.

TLC checked the invariant with three warmups on 3.35 million states. The run
itself is of `MCMirrorPath`, where these components move one at a time.

### The frames and the touches

`MirrorPath_proofs`, of the specification of the run `MirrorPath`:

* `FramesAreDecodable` from `PipeInv`: what is queued or in a batch has been
  pushed under a configuration that was stored before (`FramesArePushed`); a
  configuration the seat has not got is still to be picked up by it, for the
  flag is up or the seat is about to look (`ConfigComes`); what it feeds without
  looking again came with its configuration (`BatchHasConfig`).
* `FingersAreLifted`: `FingersFollowTheHand` says something only when no touch is
  on its way. The inductive invariant `HandInv` says it of every state: a
  `Down` that no later touch of its device but a `Move` follows
  (`LastTouchIsTrue`), or a finger that is down when nothing but a `Move` is on its
  way (`FingerIsTrue`), is of the hand that presses now. It needs that touches
  are numbered in the order of the hand (`FlightOK`), so that one that overtakes
  none is the oldest of its device, and that a session without a channel has no
  finger down (`NewServer`), so that a channel that opens brings none back.
* `PathTypes`: the types of all three parts, the capacity of the pipe included.

TLC checked `PipeInv` on 46 thousand states.

### Jobs and logs

`JobsAndLogs_proofs`, one invariant per component:

* `InstallerIsWhole` from `UpdateInv`: of the downloads under way only the one in
  the slot has not been cancelled (`OneWriter`); the `.part` is the file
  the newest one has open, with as much in it as it has received (`PartIsOwn`);
  what the newest one has told stays true (`ReadyStays`). 1.34 million states.
* `EndsAreTold` from `TransferInv` and `ProcessInv`. A transfer queues its terminal
  event last (`EndIsLast`) and has cleaned up by then (`FileIsAsTold`). What has left
  a pipe is in the channel of its pump or handed on, two pieces to a line
  (`PiecesAreKept`); a closed pipe has all its child writes (`ChildWritesAll`), a
  pump that has ended has read it all (`PumpsEnd`), and the exit is reported after
  that (`ExitIsLast`). 52 thousand states.
* `DocumentsAreKept` from `LibraryInv` and `SettingsInv`. A library on its way to
  the file is valid and whole. Of the settings, all as long as no two calls
  overlap (`OneAtATime`): the writer has a `.tmp` that is not the file, and puts
  into it what is in memory (`TmpIsWritten`), the file is whole (`FileIsWhole`), and a
  key that no failed call has set is the same in memory, file and services, but
  for the one being set (`Agreement`). 978 thousand states, with three calls.
* `WindowsShowTheStream` from `ClientInv`, which has to speak of what is still on
  its way: every event is of a generation that was issued, and a Stopped of one
  that has ended (`EventsOK`); the jobs of the gate move one at a time (`GateOK`);
  what a window that captures knows is the newest generation (`NewestIsKnown`), and
  if that has ended, its Stopped is among the events (`ShownEnds`); a Live stream
  has somebody who will end it or show it (`SomebodyEnds`). The answers of
  `bindSerial` are of generations that were issued (`BindOK`); all this holds until
  one of them sets the generation back. 894 thousand states, with three
  generations and four clicks.

### The shell of the application

`AppShell_proofs`, of the specification of the run `AppShell`:

* `PicturesGetThrough` from `PaintInv` and `DecoderInv`. The slot of the canvas has
  its newest job or the canvas has it, and a flag that is up is that of a redraw
  on its way (`CanvasFollows`). A surface that is not done has one holder, the
  decoder, the blit, the canvas before or in its painting (`HeldByOne`); references
  have none, and are safe because the cursor has passed no slot since but those
  of the pictures begun and one more (`RefIsBehind`): this is the arithmetic of
  `RingIsLongEnough`, for any length of the ring. 93 and 18 thousand states.
* `StageShowsWhatIsBound` from `PresentInv`: what the queue of the surface makes
  of its stage is what is bound, or a caller on its way will bind it
  (`StageAgrees`); slots name surfaces of their device (`SlotsFollow`, `SlotsAreKept`);
  a stage that is off has no surface (`StageIsOff`). 4.4 million states.
* `SeatTellsTheTruth` from `SeatInv`: a seat has published what fits its decoder and
  its failure (`SeatIs`), and the client was told what the surface of the page
  said last (`ClientWasTold`). 6.2 million states.
* `ShellTypes`: the types of all parts.

### What stays with TLC

The liveness properties and everything that rests on fairness (`FairCallsReturn`,
`FairStopIsDelivered`, `CallsReturn`, `DeviceConverges`, `PathEnds`,
`EverythingEnds`, `ShellSettles`): out of the prover's reach. `LibraryDoesAsTold`,
`RecordsAreWhole` and `HeadersAreRead` compare functions that recurse or fold over
data, and so does `RingIsFollowed` with the indexes of its windows: they would
need induction over data. The types of `MCJobsAndLogs` are checked only as a
whole; the invariants above have those of the components they are about.

## Not modelled

The content of lines, filters and parsing, the export (pure functions and a
file writer, with table tests); the process index, which only
shares the slot token; `latch_window` and `page`, which read; file mutations
(one adb command each); the native drawing, decoding and windowing of three
platforms, and screenshots; codec negotiation, keys and the other control
messages, and `reset_content` of the mirror; job objects
and the killing of process trees; the check of the release feed and the
installer; the values a setting accepts, and the download of a codec that one of
them cancels; the components and other stores of the UI. A panic that poisons a
mutex ends the program and is left out. In `TaskCenter` the table read by
`task.list` at start-up is left out, as is the branch that sends from a thread
without a runtime. Most lines of the repository are of these kinds, of UI
components, styles and tests; the models cover the services that keep state.

## Plan

Done: the capture service with its proofs, the task center, and, in the order
of the first plan, browse sessions, catalog, log windows, mirror, log client,
frame pipe, status hub, groups and transfers; beyond that plan the device shell,
downloads, processes, the stage, the touches, the records and the two documents.

Done, proofs: every safety property of the runs that does not compare functions
over data: the capture service with its refinement, the task center, the
components of `DeviceSessions`, `MirrorPath` and `AppShell`, and of `JobsAndLogs`
the installers, the ends, the documents and the windows.

Left, models: `openh264_acquire`; `reset_content` of the mirror; the decoders of
macOS and Windows.

Left, proofs: `FollowIsGapless` and `IndexIsOfTheRing` of `LogWindows`, which need
the order of sequence numbers in the ring and lemmas about the selection of
subsequences first.
