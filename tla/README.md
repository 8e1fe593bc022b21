# A TLA+ model of CameraMan

CameraMan composes camera sources into one picture and publishes it as a
virtual camera. Its app process renders frames and writes them into a
shared-memory ring; a CMIO system extension, another process, reads the ring
and hands the frames to whatever client uses the virtual camera. This directory
holds TLA+ modules for the parts whose correctness rests on the order of steps
taken by different threads and processes, TLC configurations that check them on
small instances, and TLAPS proofs of what matters most for every instance.

Paths below are relative to the repository root; Rust sources are under `src/`.

## 1. Inventory

| Component | Source | State | Operations | Hard behaviour | What makes it correct |
|---|---|---|---|---|---|
| Slot protocol | `shared_memory_transport/{slot_state_machine,writer,reader,protocol}.rs` | in the mapping: generation, active slot, next sequence, per slot a state word (FREE, READY, WRITING, READING by pid), metadata, bytes, and the consumer fields; in the writer: round-robin cursor; in a reader: generation, last sequence | writer: claim, reset, `send`, `consumer_progress`; reader: `read_latest_borrowed`, release | lock-free, two or more processes, either may die at any step; a writer is restarted on the mapping of its predecessor | a borrowed frame is whole; no slot is lost; a poll is no staler than its first load; what is acknowledged was answered |
| Endpoint lifecycle | `shared_memory_transport/{mapped_backend,validation}.rs`, `transport.rs` | a name, the objects it has linked to, writer locks, the owner fields | `create_writer`, `claim_writer`, `disconnect`, drop, `try_open_reader`, the liveness and reopen checks of `poll_borrowed` | several system calls per operation; crash between any two | the owner is recorded; a live region is not disturbed; readers find the live object |
| Region and frame shapes | `frame.rs`, `media_contract.rs`, `protocol.rs`, `validation.rs`, `frame_transport.rs`, `extension/pixel_buffer.rs` | lengths, strides, offsets | validation of a frame, a region, a slot, a spool file; upload into an output buffer | a region of another build, a file cut short, padded rows | every read is inside what was checked; what is accepted is shown whole |
| Extension process, CMIO stream | `stream_runtime.rs`, `extension/*.rs` | lifecycle state, a run flag and a thread handle; authorized clients; a pool of buffers; a cached format | `start_streaming`, `stop_streaming`, reap, `repair_after_panic`, authorization, `stream_samples` | a thread that ends by itself; contained panics; clients that keep buffers | of two senders a stop joins one; a start or a stop leads on from every state; stop returns and silences; samples flow again |
| Frame pump | `extension/{frame_pump,mod}.rs`, `frame_integrity.rs`, `transport.rs`, `stream_runtime.rs` | last frame, staleness, sequence history, pacer, the stamp of a spool file | `poll_borrowed`, `observe`, `mark_drop`, `mark_stale`, pacing | redelivery after a reopen, restarts, a file replaced while it is read, late loops | discontinuities are flagged; nothing stale is sent; no sleep past a period |
| Render worker | `render_worker.rs`, `app/render_coordination.rs`, `app/self_test.rs`, `media_clock.rs` | a latest-job slot, publish gate, result slot; epoch, revision, fingerprint; the clock's schedule and its one tick | `submit`, `disconnect_output`, `take_result`, `request_render`, `poll_render_result`, `invalidate`, `start`, `stop`, `set_fps`, `take_tick` | jobs replace each other while one runs; output is disconnected while a frame is published; a tick of the schedule before | no result of a superseded epoch is shown; at most one late frame; a self-test ends |
| Capture | `capture.rs`, `app/capture_coordination.rs`, `camera_discovery_worker.rs`, `app/ui.rs` | shared slots (latest frame, error, phase, progress, stop), a process-wide camera lease, watchdogs, backoff; open sources with failure streaks, health | open, read, reconnect, `stall_age`, `reopen`, drop; passes over the selected cameras, retry, discovery | a thread parked in a driver call; late frames; timeouts | one thread per locator in the driver; no ghost frame; a stall is reported; cameras come back |
| File operations | `app/io_worker.rs`, `atomic_file.rs` | ACTIVE, CANCELLED, COMMITTING; a temporary and a final file | `start`, `cancel`, `poll`, `replace_file_atomically_if` | cancel races commit; loss of power | the old or the new file, in agreement with the answer |
| Scene history | `app/scenes.rs`, `scene_commands.rs`, `app/ui_scene.rs` | current scene, bounded undo and redo, named scenes | commit, undo, redo, save, apply, import, migration of locators | the bound; shortcuts in the middle of a drag | one bounded, linear history |
| Scene documents, preferences | `scene_schema.rs`, `app_preferences.rs`, `parser_limits.rs` | files | export, import, save, load, migrations | files of earlier versions; damage; the envelope | what is written is read again as it was |
| Compositor | `layout.rs`, `render.rs`, `source_transform.rs`, `media_contract.rs` | a recycled output frame | cells, fits, crops, rotation, paste paths, preview | fills that are skipped | every pixel is overwritten; reads stay inside the source |
| Packaging and activation | `main/{bundle,signing,typed_plist}.rs`, `provisioning*.rs`, `system_extension.rs`, `app/extension_readiness.rs`, `app_group.rs` | bundles, signatures, the status of a request | bundle, install, launch, `activate`, delegate callbacks | steps that fail half way; answers late or never understood | what may be activated meets the app; a request ends |
| Format negotiation, library pipeline, diagnostics, UI, tools | `format_negotiation.rs`, `pipeline.rs`, `diagnostics.rs`, `benchmarking.rs`, `app/ui*.rs`, `main.rs` | counters, widgets | ranking, reports, drawing | arithmetic | not on the app's path, or nothing reads it back |

How they interact: capture workers fill shared slots that the app polls and the
render worker composes, a scene at a time; the media clock makes the app submit render
jobs; the render worker calls `SharedFrameSink::send`; the extension's
`stream_samples` thread, started and stopped by framework callbacks, polls the ring
(or the spool file) through `FrameTransportReader` and the frame pump and uploads
what it finds into a buffer of its pool; the acknowledgement a reader leaves in the
ring's header is what the app's self-test waits for. Whether app and extension look
for the ring at the same place was decided when they were bundled.

The hazards this code is exposed to are listed, each at its line and with the
properties that would catch it, under `hazards` in `PROJECT.json`.

## 2. Modules

`SlotTransport` - the ring. One writer role and `Readers`, each named by its
pid. Every atomic access another process can tell apart is a step:

| Code | Actions |
|---|---|
| `MappedRegion::claim_writer`, `reset_for_new_writer` | `ClaimWriter`, `ResetActive`, `ResetSlot` |
| `SharedFrameSink::send` | `BeginSend`, `ClaimSlot` / `RefuseSlot` (the last of a sweep is `DropFrame`), `StoreMetadata`, `CopyPayload`, `PublishReady`, `SelectActive` |
| `Drop for MappedRegion`, death | `Disconnect`, `WriterCrash` |
| `SharedFrameReader::try_open_endpoint`, drop, death | `Open`, `Close`, `ReaderCrash` |
| `read_latest_borrowed` | `LoadGeneration`, `LoadActive`, `ClaimForRead`, `Inspect` |
| `Drop for ReadSlotGuard` | `Release` |

`wpc` and `rpc` say where each side is in its straight-line code; `nextSlot`,
`wtry`, `wslot`, `wframe` and `readerGen`, `lastSeq`, `pollGen`, `pollSlot`,
`tries`, `taken` are the locals and fields of the code. Two variables are
history: `selected`, the frame `active_slot` last selected, and `floor`, what
`selected` was when a poll loaded `active_slot`. A local that goes out of scope
takes its initial value again (`ForgetReader`, `ForgetTry`, `EndPoll`, `NextTry`,
`WriterLeaves`), since the code has no such variable any more; `nextSlot` is a field of
the sink and outlives its connections.

A frame is named by its generation and sequence, and the bytes of a slot are
the frame they came from or `Torn`. Three simplifications, each with its reason:

* a slot try (load, liveness test, one or two compare-exchanges) is one step. It
  succeeds or fails on the word found at its last access, and the word is all
  there is to the state of a slot. A failed try is possible for READING and
  WRITING words whether or not the owner lives (`RefusedForWrite`), since the
  compare-exchange may lose to a reader that dies right after;
* the loads a reader makes under its lease are one step: nobody writes the slot
  in the meantime, which is what `NoTornFrame` and the proved `LeaseHeld` say;
* memory is sequentially consistent. The code orders its accesses with release
  stores and acquire loads on the slot words, `active_slot` and the
  generation; weaker orders are not explored.

`LatestFrame` - the abstract mailbox: whole frames are published, selected and
discarded; a reader takes one that is no older than the one selected when it
began, and holds it unchanged until it lets it go. `SlotTransport` is shown to
implement it (`Mailbox`, `ImplementsLatestFrame`).

`AckedTransport` - extends `SlotTransport` with the acknowledgement that goes the
other way: `Acknowledge` (the five stores of a reader, pid cleared first and
stored last), `ResetConsumer` (a new writer clears the fields, between the store
of `active_slot` and the reset of the slots), `SeePid`, `SeeFields`, `RecheckPid`
(`consumer_progress`), each access a step. The slot actions are those of
`SlotTransport`, composed with it: a thread that is inside one of these sequences takes
no slot step. Two variables are history: `answered`, the frames readers have answered
polls with, and `late`, whether since the last writer came a reader has stored what it had
still to acknowledge of an earlier writer's frame.

`EndpointLifecycle` - how both sides find the object. An endpoint is of `kind`
Posix (writer lock in a lock file beside the name) or File (a flock on the mapped
file itself). Every system call of `create_writer` is a step (`Create`, `Exists`,
`OpenExisting`, `CheckLength`, `CheckHeader`, `SetLength`, `Initialize`,
`LockWriter`, `StoreOwner`), as is each of `disconnect` (`ClearOwner`, `Unlock`,
`Unlink`), and a process may die between any two (`Crash`, after which it is
another *life* of the process, which is what pid and start token identify).
Readers: `OpenObject`, `CheckOpened`, `GiveUp`. Header fields that are read together
are stored together, so a crash in the middle of the header's stores is the crash
before the last of them (MAGIC, or the pid).

`StreamSource` - the callbacks of the extension and the threads they start.
`EnterStart` ... `FinishStart` is `start_streaming`, which keeps the lifecycle
mutex; `BeginStop` ... `FinishStop` is `stop_streaming`, which does not;
`Panic`, `PanicAfterReap` and `Repair` are a panic contained by the callback and
its repair; `SeeFlagCleared`, `EndByItself`, `ClearOnExit` and `End` are the
`stream_samples` thread with its exit guard. `Callbacks` are the callbacks that may be
under way at once: any number, since the framework manages the queue they run on
(`clientQueue: nil`, `extension/mod.rs:121-122`) and nothing in the extension keeps them
apart. So a start may come between any two steps of a stop. `overtaken` is history: a stop
found when it was done that a start had come in between, and answered an error.

`ExtensionProcess` - extends `StreamSource` and `FrameShapes` with the process around
it.

| Code | Actions |
|---|---|
| `run`, `create_extension`, relaunch by the system | `AttachStream`, `StartService`, `Relaunch` |
| `connectClient`, `authorizedToStartStream`, `disconnectClient`, `formats`, each with its contained panic | `ConnectClient`, `AuthorizeStart`, `DisconnectClient`, `AskFormats` |
| `startStream`, `stopStream` | `StartStream`, `RunCallback` (the steps of `StreamSource`) |
| `stream_samples` | `EnterLoop`, `FindDue`, `PollFrame`, `SendSample`, `LeaveLoop`, `FinishWorker` |
| the writer's side, the clients | `SendFrame`, `WriterLeaves`, `ReleaseSample` |

A buffer of the pool shows what was drawn last, so that a pixel left over from an
earlier sample is a state. When a sample is due and when a frame is stale belongs to
`StreamPump`; here a frame that is kept may turn stale in any iteration.

`FrameShapes` - lengths and offsets, as operators: `FrameIsValid`, `ViewIsValid`,
`MappedLen`, `SlotOffset`, `HeaderIsValid`, `SlotIsValid`, `SharedViews`, `SpoolFile`,
`SpoolViews`, `DrawnFrom`. A checked operation fails beyond `WordMax`.

`StreamPump` - one iteration after another of `stream_samples`, against a writer that
publishes (`PublishReady`, `StoreActive`, or `WriteFrame` for the spool), stops
(`Disconnect`), dies (`Crash`) and starts again (`Connect`): `Plan` and `Wake` are the
pacer, `PollShared`, `OpenFails`, `StampSpool` and `ReadSpool` the reader with the
classification of what it found, `Send` and `SendFails` the end of the iteration, and
`Tick` lets time pass. A frame carries its age instead of a time stamp, and is stale when
that exceeds the timeout of its rate (`StaleTimeout`: the greater of a fixed time and
`StalePeriods` periods). The monotonic clock does not step back. `client` is
history: what the client has been shown and which flags it was told. A region here is a
mailbox that may step back by one frame, as `LatestFrame` and `StepsBackAtMostOne` say of
the ring.

`RenderWorker` - the worker that renders and publishes. Its mutex is what makes
the steps: each operation of the client is one, and so is each stretch of the
thread between two places where it looks at the shared state or calls the sink.

| Code | Actions |
|---|---|
| `submit`, `disconnect_output`, `take_result`, `has_work`, drop | `Submit`, `DisconnectOutput`, `TakeResult`, `HasWork`, `DropWorker` |
| `next_action` | `Stop`, `Disconnect`, `BeginJob` |
| `run_worker`, rendering a job | `Gate` (first look at the publish gate), `Connect`, `Check` (second look), `Send`, `Report` (with `Merged`) |

A job is its epoch: its frames and layout are data, and its publish flag is read by
`submit` alone. A connect, a send or a composition may fail. `late` (frames sent
since output was disabled) and `owed` (frames sent that no result taken has
accounted for) are history.

`RenderPipeline` - extends `RenderWorker` with the app that uses it and the clock
that drives it:

| Code | Actions |
|---|---|
| `logic`: discovery's answer, `poll_render_result`, the self-test, `take_tick`, the repaint decision | `BeginFrame` (`WakeUp`, `UserInput`), `Discovered`, `PollResult`, `DisconnectPassed`, `DriveWait` / `DriveSubmit` / `DriveTimeOut`, `NoTick` / `TickNoFrames` / `TickSame` / `TickSubmit`, `ScheduleRepaint` |
| `request_render` | `RequestUnselected`, `RequestNoFrames`, `RequestSame`, `RequestSubmit`, reached by `RequestDiscovered`, `RequestCommanded` and the `Tick...` actions |
| `toggle_running`, the output switch, scene edits, the render button, the self-test's buttons, quitting | `StartStreaming`, `StopStreaming`, `SetVirtualOutput`, `RefreshScene`, `Render`, `StartTest`, `CancelTest`, `Quit` |
| `run_clock` | `ClockTick` |

egui calls the app when a repaint was requested (`repaint`) or the user did
something, so that a frame of the app is a walk of `apc` through `logic`, and
forgetting to request a repaint is a state in which nothing happens. A handler is a
step for each time it takes the worker's mutex. What the user does at the end of a
frame is a step from "asleep". Three abstractions: what a request finds of its
sources is a choice (none selected; only cameras and none with a frame; some
missing under StopOutput; whole), as is whether they are the frames of the last
time; of the fingerprint there remains the publish flag, everything else in it
being either those frames or settings whose change invalidates it; and an epoch no
job was submitted with is not left for the next, which nobody can tell from it.
That resolving the sources fails (`render_coordination.rs:92-97`) is left out: the
only failure is a synthetic picture of impossible size. `scene` (the epoch to which the
scene last changed) and `outdated` (the picture shown is of an earlier one) are history.

`CaptureWorker` - the capture threads. Each store to a slot that the poller can see is a
step; a call of the backend (open or read) may never return.

| Code | Actions |
|---|---|
| `wait_for_camera_lease`, drop of the lease | `WaitForLease`, `Ends` |
| opening, its panic and its failure | `BeginOpen`, `Opened`, `OpenFailed`, `OpenPanicked`, `StoreFormat` |
| the read loop | `BeginRead`, `ReadFrame`, `ReadNone`, `ReadFailed`, `StoreLatest`, `ClearError`, `Rest` |
| reconnecting | `CloseSession`, `Backoff` |
| `stall_age` and its parts | `PreFrameElapsed`, `FrameStallAge`, `StallAge` |

A phase carries its age in ticks, which stops counting where no deadline tells it
apart. `seen` is history: which backend call a poll found the worker in.

`CaptureControl` - extends it with the one thread that uses the sources. A pass is
`BeginPass`, `OpenMissing` per missing source, and per camera `BeginPoll`, `PollProgress`,
`PollFormat` / `PollErrorAgain`, `PollLatest`, a step for each lock a poll takes. `Start`,
`Stop`, `Render`, `Select`, `Retry` (guarded by the health vector `Health` whose `Summary`
the row shows), and `StartDiscovery`, `CancelDiscovery`, `DevicesFound`,
`DiscoveryFailed` are what else the app does. Two locators may name one device.

`AtomicFile` - one file that two threads replace: `Reserve`, `WriteAll`, `SyncAll`,
`Decide`, `Rename`, `SyncDirectory`, each of which may fail and then removes the
temporary, and `Killed` and `PowerLost`. After a loss of power a payload that was not
synced is a part of itself, and a rename that was not synced may not have happened.

`FileWorker` - extends it with the operation the user may cancel: `Start`, `Cancel`,
`PollFileOperation`, `Encode`, `CommitIfActive`, `SendResult`, `Restart`, and the saves of the UI
thread `Save`, `Saves`, `Saved`.

`SceneHistory` - the editor. A frame of egui is `NewFrame` (with a camera discovery that
rewrites locators), a shortcut (`UndoShortcut`, `RedoShortcut`, `MoveShortcut`,
`NoShortcut`), a widget (`EditWidget`, `UndoButton`, `RedoButton`, `SaveCurrentScene`,
`ApplyScene`, `ValidateSceneImport`, `AcceptSceneImport`, `NoWidget`) and
`FinishSceneHistory`, which decides with the state of the pointer whether a gesture has
ended. A scene is the order of its sources, a transform of each, and a style.

`Compositor` - the geometry of the picture, as operators: `Cells`, `Placement`, the
sampling maps, the three paste paths (`PastePlain`, `PasteOpaqueContract`,
`PasteGeneric`), which pixels of the output they overwrite (`Overwritten`) and which of
the source they read (`ReadPixels`), when fills are skipped
(`FrameFullyOverwritesCell`, `CellsCoverOutput`), and the preview image.

`SceneComposition` - extends `SceneHistory` and `Compositor`: what becomes of every scene
the editor can reach when any of its sources is missing (`PreparedSources`).

`SceneDocuments` - extends `SceneHistory` with files: `DocumentOf` and `SceneOf`,
`Validated`, `FromJson`, `IntoCurrent`, the migrations `MigrateV1` ... `MigrateV3`,
`SanitizedPreferences`, `MigratedPreferences`, `Loaded` and `Stores`. The envelope of
`parser_limits.rs` is a bound on the number of elements.

`Bundling` - the bundler, a step for each thing it does to a bundle (`RemoveBundle`,
`CopyExecutable`, `WriteExtensionPlist`, `EmbedExtensionProfile`, `SignExtension`,
`VerifyExtension`, `WriteAppPlist`, `SignExecutable`, `EmbedAppProfile`, `SignApp`,
`VerifyApp`), each of which may fail and leave behind what is there. A signature seals the
bundle as it was when it was made.

`ExtensionInstall` - extends it: `CopyToApplications`, `Graft` (an extension of another
build in the bundle), `Launch` with the readiness gates (`Capable`), `Activate`,
`NeedApproval`, `Finish`, `Fail`, `Quit`, `Reboot`. macOS and the user are the environment.

Proofs are in modules of their own, which extend the modules they are about:
`SlotProtocolProofs` (`SlotTransport`, `AckedTransport`), `EndpointProofs`
(`EndpointLifecycle`, `ExtensionInstall`), `ExtensionProcessProofs` (with `StreamSource`
and `FrameShapes`), `StreamPumpProofs`, `RenderPipelineProofs` (with `RenderWorker`),
`CaptureControlProofs` (with `CaptureWorker`), `FileWorkerProofs` (with `AtomicFile`) and
`SceneProofs` (`SceneHistory`, `SceneComposition`, `Compositor`). The inductive invariants
they use are defined in the modules they are about, as conjunctions of named parts, so that
TLC can check them too.

`MC...` modules give the constants of a run and its symmetry sets. Definitions under a
comment *Mutant* are not part of a model: each is a definition with a plausible bug, kept to
show that the property it is paired with in `PROJECT.json` detects that bug.

## 3. Runs

A run's invariant named `...Inv` is the conjunction of the component's type invariant
and its safety invariants, each named in its module.

| Run | Instance | What it shows |
|---|---|---|
| `MCSlotTransport` | 1 reader, 3 slots (the code's number), 2 generations of 4 frames, fair | `TypeOK`, `NoTornFrame`, `NoSlotLeaks`, `FreshFrame`, `ImplementsLatestFrame`, `StepsBackAtMostOne`, `OneReaderNeverDrops`, `LatestIsRead`. Four frames make the ring wrap, so that a slot a reader has loaded is reused; two generations replace the writer in the middle of a poll |
| `MCAckedTransport` | 2 readers, 2 slots, so that the readers can hold both and a frame is dropped, 2 generations of 2 frames and of 1, one reader at most when a writer comes | `AckInv`: an acknowledgement is stored under its lease, of a frame that is neither torn nor stale; what `consumer_progress` reports as of the writer's generation is of a writer some reader was answered by, although readers overwrite each other's acknowledgement; and unless a reader was late with an earlier writer's frame, what it reports is one answered frame |
| `MCAckedTransport_mixed` | 1 reader, 2 slots, 2 generations of 2 frames | *violated*: `AckWasAnswered`, the claim of `reader.rs:177-179`. A reader that is late with the first writer's frame pairs its sequence with the second's generation (section 5) |
| `MCEndpointLifecycle` | both kinds, 2 writers with 2 lives each, 1 reader, 3 objects, 3 generations, fair | `EndpointInv` (the owner is recorded, one POSIX publisher), `LiveRegionUndisturbed`, `ReadersFindWriter` |
| `MCExtensionProcess` | 2 callbacks that overlap, and 2 threads, by themselves; or one callback at a time and 2 threads in the whole process: both transports, 2 clients, 2 buffers of 2x2 pixels in rows of 12 bytes, 4 frames, regions of other capacities and versions cut at any length, leftover spool files; fair | `ProcessInv`, `PictureInv` (slots and uploads stay inside, what is accepted is shown, samples are whole), `StoppedIsSilent`, `RestartRevives`, `StopReturns`, `SamplesFlow` |
| `MCStreamPump` | both transports, 2 generations of 2 frames, the second at the slower of two rates and so with the longer timeout, reads and sends that fail, a loop late by a tick | `PumpInv` (no sleep beyond a period), `NoStaleSample`, `JumpIsFlagged` |
| `MCRenderPipeline_safe` | 3 epochs, 2 sends in one result, compositions that may fail | `PipelineInv`: after output is disabled at most one more frame goes out; merging unread results neither loses nor repeats a sent frame; nothing finished is forgotten; the preview is of the current scene |
| `MCRenderPipeline_live` | 2 epochs, 1 send in a result, compositions that succeed, fair | `DisconnectsEventually`, `LiveIsSent`, `TestEnds` |
| `MCCapture` | 2 sources, one camera under its stable id, open timeout 2 ticks, frame gap 1, fair | `CaptureInv` (one thread per locator inside the driver), `StallIsReported`, `NoGhostFrame`, `CameraReturns`, `LightGoesOut` |
| `MCFileWorker` | 2 threads, 2 pids, 2 attempts, 3 jobs, fair | `FileInv` (never torn, one owner of a temporary, the answer is true), `CompletedSurvives`, `OperationEnds` |
| `MCSceneHistory` | 3 sources, history of 2, one named scene, 3 edits among 2 transforms and 2 styles; compositions with 4 transforms and 7 styles, onto outputs of 7x5 and 2x1 | `SceneInv`, `LinearHistory`; `CompositionInv` (no recycled pixel, reads stay inside, no source refused, the preview is whole); `DocumentsInv` (exports are imported, a restart restores, old files are read) |
| `MCExtensionInstall` | 2 teams, builds signed ad hoc, by an identity without a team or by one with, a wildcard and 2 App Groups, 3 app and 4 extension profiles, fair | `InstallInv` (a bundle that may be activated is whole), `SharesEndpoint`, `RequestEnds` |

`CHECK_DEADLOCK FALSE` is said where the system does come to rest: in `MCSlotTransport`,
`MCAckedTransport`, `MCAckedTransport_mixed` and `MCEndpointLifecycle` all generations may be
used and all processes dead, in `MCExtensionProcess` the process has exited or nobody uses the stream, and in
`MCRenderPipeline_*` the app has quit. The other runs check for deadlock.

Bounds. `MaxGen` bounds the writer generations (2: every stale value a reader or a slot can
hold is of the generation before or older, and older ones are treated the same, by
inequality). `MaxSeq` bounds the frames of a generation, `LastSeq` those of the last one in
`MCAckedTransport` (fewer than before, so that a late sequence is greater than any of the new
generation). There at most one reader is attached when a writer comes (`OneIsAttached`); the
other opens the region before or after, and the proof has no such bound. `MaxLives` bounds how often a writer
process is started, `Objects` the inodes (an unused one is used again, as the kernel does),
`Workers` the threads (an ended thread nobody has a handle to is used again), `Sources` the
incarnations of a capture source (an ended one that is dropped is used again: two let the
thread of a replaced source outlive it). `MaxEpoch` bounds the epochs jobs are submitted
with: a result is compared with the current epoch only, so that one current, one in flight
and one unread (3) are all a state can tell apart. `MaxMerged` bounds the sends an unread
result has collected: 2 is a result merged with another that was sent. `MaxLate` bounds by how
much the sample loop misses a deadline, 1 being a skipped period. `MaxJobs` bounds the
replacements of a file (3: one before, one racing the other), `Attempts` the names a
temporary may take (2: the first is taken), `Pids` the processes (2: an earlier process's
temporary has the name of mine, or not). Overlapping callbacks times all that clients may hold
exceed one graph, so that `MCExtensionProcess` has two `part`s, one chosen at the start of
a behaviour: `StreamSource` alone with two callbacks (three threads of control about one handle:
a start, a stop and the worker) or the whole process with those of `FirstCallback`; the proofs
know of no parts. In `MCStreamPump` a writer has one rate (`OneRatePerWriter`); a change of rate
comes with the next writer. In `MCCapture` a camera has one locator; that two locators of a
device are two leases is in section 5, and the proofs are for any `Locators`. `MaxEdits` bounds the scene edits; 3 exceeds
`HistoryLimit`, so that the oldest entry is dropped. Time-outs and ages are counted in ticks
as far as the deadlines tell them apart. The pixel sizes are the smallest at which a grid does
not divide evenly, a fit leaves bars, a crop is of odd size, and a frame is smaller than its
cell.

Readers and capture sources are symmetric where a configuration says so; no run that checks a
temporal property under fairness uses symmetry, and `Objects` are never symmetric, since one
of them stands for the lock file.

Fairness. In `SlotTransport`, a reader's thread polls on every tick and drops what it has
borrowed, and a writer that has begun to connect or to send goes on (straight-line code
without blocking calls): weak fairness of `ReadStep(r)` and `FinishSend`. In
`EndpointLifecycle`, readers reopen and test liveness periodically (250 and 500 ms),
connecting and leaving once begun go on. In `ExtensionProcess`, a callback that has begun goes
on, a thread looks at the run flag on every frame, and clients release what they are sent;
starting, stopping, ending by itself and panicking are free. In `RenderPipeline` the app's
thread finishes its frames (`AppStep`), the render thread goes on (`Worker`: every blocking
wait of it is for the client) and the clock of a running preview ticks (`ClockTick`). Strong
fairness stands for the world around it: egui honours a requested repaint however often the
user makes it call the app (`WakeUp`), cameras deliver a frame other than the last again and
again (`TickSubmit`), and five seconds pass (`DriveTimeOut`). In `CaptureControl` the threads
and the app's passes go on (`Works`, `Pass`, `Render`); that driver calls come back
(`CallReturns`) and, tried again and again, open a device and deliver a frame (`Opened`,
`ReadFrame`, strong) is the assumption `CameraReturns` is about, and none of the safety
properties needs it. In `FileWorker` the worker runs to its end, and the logic of the app,
which repaints while an operation is active, polls it. In `ExtensionInstall` macOS settles a
request in the end. What the user does is free everywhere.

## 4. What is proved

TLAPS checks every theorem below for all values of the constants that satisfy the assumptions
named in the modules (bounds are natural numbers, the placeholder values are none of the values
they stand beside, and the few a section names). Each safety theorem comes from an inductive
invariant: one lemma says that the initial states satisfy it, one that every step keeps it (a
step of the proof per action, under it the parts the action can disturb), and the property
follows from it. TLC checked each invariant on the instance of section 3 first.

**Slots** (`SlotProtocolProofs`; any set of readers, any number of slots). `Invariance`:
`Spec => []IInv`; from it `TypeCorrect`, `NoTornFrameHolds`, `NoSlotLeaksHolds`. `NoTornFrame` is
not inductive. That the bytes a reader has borrowed stay what they were rests on the slot word:
`LeaseHeld` (a reader inside a lease owns its slot) keeps every writer out, because
`ClaimableForWrite` and `KeptByReset` concede nothing of a living reader; it is itself kept by
`OwnerInside`, its converse, which says that releasing one lease cannot release another. That
the bytes were right when they were leased needs `WholeWhenLeasable`, which `CopyPayload` and
`PublishReady` keep by `FilledSoFar` and `WriterHolds`. `NoSlotLeaks` needs `WritingAccounted`: a
slot is WRITING only while the writer fills it, or from a crash to the point where the reset of
the next writer passes it.

**Order of frames** (the same module). `OrderInvariance`: `OrderInv` is inductive relative to
`IInv`. Sequences of a generation are issued in order and their frames lie along the ring
(`Numbering`, `RingIssued`), the newest is the one in flight (`NewestInFlight`), `active_slot`
names the last one selected (`SelectedIsLast`, `ActiveOrder`), and a reader's `floor` bounds what
a slot it may lease can hold (`ReaderOrder`). From it:

* `FreshFrameHolds` (a poll returns a frame no older than the one selected when it began);
* `StepsBackAtMostOneHolds`;
* `ImplementsLatestFrameHolds`: `SlotTransport` implements `LatestFrame`. `WriterRefines` and
  `ReaderRefines` map every step to a step of the mailbox or a stutter;
* `OneReaderNeverDropsHolds`, for a finite set of readers and at least three slots, which the
  code's ring has (`SLOT_COUNT`): while the writer looks for a slot,
  the only reader can stand in two of them (`OneLease`, `Sweep`), so that the third is free.

**Acknowledgements** (the same module). `ImplementsSlotTransport`: `AckSpec => Spec`, so
that everything proved of the slots holds here. `AckUnderLeaseHolds` and `AckInvHolds`, for any
number of writers. `AckInvariance` adds `AckOrder` (what is acknowledged was borrowed and
published; the writer accesses the fields only while it sends nothing). That a reported
generation is of an answered frame is `GenerationKnown`: a generation other than 0 gets into the
fields, and from them into what has been seen and reported, only from a frame that was answered,
and answers are never taken back (`AnsweredGrows`, `NextGenerationKnown`). That a report is of one
answered frame unless `late` is `ReportIsCurrent`, in three parts that follow a value on its way:
where a pid stands or has been seen, or a reader is past its store of a field, that field is of
this writer's frames (`ConsumerIsCurrent`), so is each field the writer has loaded
(`SeenIsCurrent`), and so is what it reports (`ProgressIsCurrent`). It is proved relative to
`NothingOfItsOwn`: a writer that has just come finds no frame of its own generation. The
condition `late` is where the code's snapshot ends (section 5): the run
`MCAckedTransport_mixed` shows what happens behind it.

**Endpoints** (`EndpointProofs`). `EndpointInvHolds` and `LiveRegionUndisturbedHolds`, from
`EndpointInvariance`: a writer has an object exactly between two of its steps (`ObjectOpen`), an
object under construction has one creator and is not yet ready (`OneCreator`), and a writer past
`LockWriter` holds the lock of its object (`LockHeld`).

**Installation** (the same module; any teams, identities, groups and profiles).
`InstallInvHolds` and `SharesEndpointHolds`, from `InstallInvariance`. What a step of the bundler
leaves for the later ones is said by its place in their order (`Place`, `Passed`): `AppHolds`,
`ExtensionHolds` and `ConfigHolds` say what a bundle contains once a step has passed.
`IsAppBundle` holds of every bundle that is left anywhere, at whatever step the build stopped,
and is kept by copying and grafting. `BuiltIsCapable` concludes from a build that passed its
last step to the gate of the app, `CapableIsOfOneGroup` from the gate to the group both halves
use, and `AppAgrees` carries that group from the launch to the activation. The assumption
`ProfilesAssumption` only says that the groups and teams a profile names are of the
constants `Groups` and `Teams`.

**Extension** (`ExtensionProcessProofs`). `ProcessInvHolds` and `StoppedIsSilentHolds`, from
`ProcessInvariance`, for any number of callbacks that overlap as they like, of threads, clients,
buffers and frames. `SourceOrder` says what start, stop and the threads leave to each other. One
callback at most is inside the mutex (`MutexIsHeld`). A thread that has not ended is known, its
handle in the ivar or with one callback (`WorkersAreKnown`), and while a start holds the handle
of one the ivar is empty: of two senders a stop is joining one (`OnlyStopsHoldAnother`). A state in which something is under way has a callback that will end it, and a stop in
the state Stopping one that still joins whatever runs (`StateIsLeft`). `SourceOrder` is kept by
every step of a callback (`CallbackKeepsOrder`) and of a thread (`WorkerKeepsOrder`);
`ProcessOrder` adds what the process around them knows.

`PictureInvHolds` is likewise for any number of threads and callbacks, and for frames, regions
and files of any size and content. `PictureOrder` says that the medium holds a record whatever it
was cut to (`MediumIsRecord`), that an offered and a kept view are of a frame that was checked
(`OfferIsOfFrame`, `KeptIsWhole`) and that a buffer that is sent shows one frame throughout
(`SamplesAreWhole`); the arithmetic of lengths and offsets (`FrameShapes`) is proved for every
`WordMax`. `MediumAssumption` and `StrideAssumption` say that a frame on the writer's side has
passed `FrameIsValid` and a pool has rows as long as a frame's.

**Pump** (`StreamPumpProofs`; any rates, timeouts and intervals). `PumpInvHolds`: the pacer never
sleeps beyond a period. The arithmetic is in `PeriodsGoneBy` (the rounded division of
`DeadlinePacer::plan` skips what has gone by and not one period more) and `PlanInReach`.
`NoStaleSampleHolds`. `JumpIsFlaggedHolds`, an action property that spans many iterations:
`GapIsTold` relates the frame the client saw last, the one observed last and the flags told in
between, `BufferIsKnown` says that the buffer holds one or the other, and `ClassifyFlags` that a
gap is never classified as none.

**Render pipeline** (`RenderPipelineProofs`). `PipelineInvHolds`, from `PipelineInvariance`. The worker
is proved by itself: `WorkerInv` is kept by each operation of the client (`SubmitKeeps`,
`DisconnectOutputKeeps`, `TakeResultKeeps`, `DropWorkerKeeps`) and each step of the thread
(`WorkerStepKeeps`); the app's steps make at most one of those operations. `AtMostOneLate` needs
`DecidedWhileEnabled`, `NothingForgotten` needs `Collects` (no command is given while something to
collect is not scheduled), and `PreviewIsCurrent` needs `SceneIsPast`.

**Capture** (`CaptureControlProofs`; any sources, locators, devices and time-outs).
`CaptureInvHolds`, `NoGhostFrameHolds` and `StallIsReportedHolds`, from `CaptureOrderHolds`. A
worker in a session has the lease of its locator and is the only one (`LeaseHeld`), and a call that
comes back after a stop was its last (`LastCall`). For what a poll says, `SlotsAgree` relates the
slots a worker stores to one after another to where it is, `GhostHasError` says that a frame of a
session that is over stands beside the error that ended it, `ParkedStays` that a worker found
parked is parked until its call comes back, and that the source which replaced it waits for the
lease all the while, and `PollSees` that what a poll in progress has not reported yet it still can.

**Files** (`FileWorkerProofs`). `FileInvHolds` and `CompletedSurvivesHolds`, from `FileInvariance`.
`FileOrder` says what a thread's temporary holds at each step and whose it is,
`OperationAccounted` ties the job, its state and the channel together, and `UnsyncedIsUntold` that
nobody has been told of a replacement a loss of power could undo.

**Scene history** (`SceneProofs`; any sources, transforms, settings and limit).
`SceneInvHolds` and `LinearHistoryHolds`, from `SceneOrder`, which is `SceneInv` and
`SnapshotOfFrame` (the snapshot taken at the start of a frame is of that frame). The second
reads the two stacks and the scene between them as one line (`Line`): an undo and a redo move the
cursor (`StepBack`, `StepForward`), an entry cuts the line behind the cursor and extends it
(`CutAndExtended`), the limit drops its oldest element (`OldestDropped`), and a migration rewrites
every element (`ShownReplaced`). An undo or redo never drops an entry, because `HistoryFits`
bounds both stacks together.

**Composition** (the same module; any frames, outputs and previews). `CompositionInvHolds`. The
invariant depends on the scene only, so that its proof is one about the compositor, for each
scene `SceneInv` admits:

* the crop of a sanitized transform leaves a valid aperture inside the old one
  (`SanitizedIsValid`, `CropIsAccepted`);
* a paste writes inside its cell and reads inside that aperture (`PlacementFacts`,
  `TransformedWithin`, `UnrotatedWithin`, `ReadsInAperture`), on each of the three paths, and
  one whose destination is the cell overwrites all of it (`OverwrittenIsCell`);
* cells lie in the output (`CellsInOutput`), the area of the first `n` cells of a grid has a
  closed form (`AreaBefore`, `GridArea`), and cells whose areas add up to the output leave out
  none of its pixels (`GridCovers`), which is what `cells_cover_output` takes for granted;
* the preview keeps its limits, its shape and its slice indices (`PreviewHolds`).

The first attempt at `PreviewHolds` failed for a good reason: "to within a pixel" is false of a
frame so flat that its preview would have less than one row, where `preview_dimensions` rounds
up, and `IsScaled` now says so. `GeometryAssumption` is what the code ensures before it composes:
outputs have pixels and frames a contract that validates (`Frame::new_checked_with_contract`),
transforms have been sanitized, and the layout is one of the four. The proof takes `f32`
positions at their exact value, as the model does.

Only model-checked. Liveness (`LatestIsRead`, `ReadersFindWriter`, `RestartRevives`, `StopReturns`,
`SamplesFlow`, `DisconnectsEventually`, `LiveIsSent`, `TestEnds`, `CameraReturns`, `LightGoesOut`,
`OperationEnds`, `RequestEnds`) is out of the prover's reach. So is `DocumentsInv`: it is about
what filters over sequences and records with more or fewer fields compute, for which the prover
has neither the induction nor the encoding; TLC enumerates the documents.

## 5. Where code and documents disagree, and what the models leave to assumptions

The first is a violated run and a finding in `PROJECT.json`; each of the others is stated as an
assumption or an exception of a property, or was met while reading.

Transport. `reader.rs:177-179` says that generation, sequence and heartbeat "become one visible
consumer-progress snapshot". `MCAckedTransport_mixed` shows that they do not across a restart of
the writer. A reader has borrowed a frame of writer 1, which leaves; writer 2 comes to the mapping
and clears the fields; only then does the reader store its acknowledgement of the old frame.
Writer 2 publishes its sequence 0, and `consumer_progress` loads the pid. The reader takes the new
frame and stores pid 0 and generation 2; the writer loads generation 2 and the old sequence 1; the
reader stores the rest and its pid, and the recheck finds the pid it expects (`writer.rs:94-108`).
The report, generation 2 and sequence 1, is of a frame nobody was answered with, or that was not
even sent; the self-test, which compares the sequence with `>=` (`app/self_test.rs:149-150`),
may pass on it. `AckInv` says what is left: a report of this generation means that some reader was
answered by this writer, and only a late reader can mix it. `disconnect` releases the writer lock before it unlinks the
name (`writer.rs:228`), so that a File endpoint may have two publishers and a new writer may
be connected to an object without a name (`architecture.md:798` promises one publisher);
`OnePosixPublisher` speaks of the other kind, and `ReadersFindWriter` of an only publisher whose
object has its name. A writer that dies between the creation of an object and the last store
of its header leaves one that every later writer refuses. `StepsBackAtMostOne` bounds a mild
one: "skips stale frames" (`README.md:327-329`) is true up to one frame.

Extension. `extension/objects.rs:15-19` says that a stop followed by a start "can never leave two
threads calling" `sendSampleBuffer`. Callbacks that overlap leave two, for a while; TLC finds it
with two. A stop clears the flag, and before it takes the handle the old worker ends and a start
reaps it, forces the state to Ready, sets the flag again and keeps the handle of a new worker
(`objects.rs:475-484`, the lifecycle mutex released). The stop takes that handle and joins a
thread nobody has told to end. With the handle gone from the ivar, a second stop clears the flag,
finds no one to join, and answers Ok; a third start sets the flag before the joined worker has
looked at it, and spawns another beside it. The model states what remains true of any overlap,
and proves it: of two senders one is always being joined by a stop (`SecondSenderIsJoined`), and
a stop that answers Ok leaves no sender that another stop is not going to join
(`StoppedIsSilent`). The claim of the comment itself is not a run. The same overlap has two more
effects, which the properties name: a stop that was overtaken waits in its join until the client
stops the stream again (`StopReturns` is of a stop no start overtakes), and when it then finds that
the state is no longer Stopping it answers an error and may leave the state Running without a handle,
where a start answers AlreadyRunning until the next stop (`NeverWedged` excepts it by
`overtaken`). The test `overlapping_client_callbacks_do_not_spawn_or_stop_twice`
(`stream_runtime.rs:330`) exercises `StreamLifecycle` alone, without the flag and the handle, which
are where the overlap shows. A format description that could not be
made is cached as such (`pixel_buffer.rs:10`), so that no sample is made until the process
restarts: the exception in `SamplesFlow`. Each thread makes a pool of its own, so that
clients that keep samples over restarts hold up to six buffers for each.
`CAMERAMAN_MAX_FRAME_BYTES` is read by each process from its own environment: the exception in
`AcceptedIsShown`.

Pump. After a crash of the writer its region is opened again every 500 ms and its last frame
delivered again; `NoStaleSample` shows that it is not taken for fresh. A discontinuity found
in an iteration that sends no sample is lost, and a failed upload reports FramesDropped in
place of a restart: the exceptions in `JumpIsFlagged`. In File mode the stamp is remembered
before the read (`transport.rs:285`), so that a frame whose read fails is not tried again.

Render pipeline. The preview may be started while a self-test runs, though not the other way
round (`self_test.rs:23`): its pattern is published in the live stream, and its end disconnects
until a request finds a new frame. Output switched off and on between two ticks leaves the
fingerprint equal, with the same effect (`LiveIsSent` needs frames that change). A result's
progress reaches the self-test before its epoch is compared
(`render_coordination.rs:166-173`).

Capture. A stall in mid-stream that Retry hands to the successor is compared with the open
budget (`capture.rs:477`), and one shorter than that reads as warm-up: the exception in
`StallIsReported`. Leases are of locators, not devices: a legacy index and a unique id may open
one device twice (`capture.rs:257-259`), and `OneWorkerPerLocator` says no more. The device
stays open while a reconnect backs off (`capture.rs:499`).

Files. When the rename succeeds and the sync of the directory fails, the operation is reported
as failed with the previous file preserved, though it is replaced: `OutcomeIsTrue` says what
Completed and Cancelled mean, and nothing of Failed.

Scenes. Cmd-Z in the middle of a drag loses the drag's edit and keeps the redo stack, and an
edit in the frame of a Cmd-Z is not recorded: the two exceptions of `LinearHistory`.
Cmd-Arrow during a drag records the drag half done. Export checks a scene
with `validate` alone, import also with the envelope of 64 elements, so that a scene with many
sources cannot be imported again (`ExportIsImported` is guarded by the envelope). At 32 scenes
saving another evicts the alphabetically first, which may be the active one;
`active_scene_name` then dangles and preferences are not stored (`app_preferences.rs:145-161`)
until it is cleared: `RestartRestores` speaks of preferences that `Stores` accepts. A scene of
version 1 within preferences that lacks a filter fails the decoding of the whole file (`OldFilesAreRead` reads version 1 from
scene files only), and preferences of version 3 rekey the transforms of selected sources only.

Packaging. `README.md:386` lets a debug build go on unsigned with a warning; `verify_codesign`
(`bundle.rs:99,357`) fails it.

## 6. What is not modelled

* Reuse of a dead reader's pid (`slot_state_machine.rs:78`): `SlotTransport` names each
  reader process once.
* Weak memory, and the width of `u64` sequences and generations (they do not wrap in
  a process's life). The validation of a slot's metadata always passes in `SlotTransport`: the
  writer of this code writes only what the reader accepts; foreign regions are the matter of
  `FrameShapes`.
* In `EndpointLifecycle`: system calls that fail, an existing object of another capacity, the
  intervals of the reader's checks (a due check may come at any time).
* In `RenderPipeline`: `set_fps` and the schedule's revisions (a tick may come at any time
  while the clock runs) and the verdict of the self-test (a choice, whose evidence is
  `AckedTransport`'s).
* In `StreamPump`: a clock that steps back, for which `DeadlinePacer::plan` has a branch
  (`stream_runtime.rs:33-39`); the clock is the monotonic one (`media_time.rs:64-83`).
* In `ExtensionInstall`: service names other than the group and one suffix. The code accepts any
  suffix (`bundle.rs:385-392`), the bundler only writes one.
* In `CaptureWorker`: which format of a camera is chosen, and the one-shot capture of the
  command line (`capture.rs:791-841`).
* Values of pixels and their conversion; rounding of `f32` (taken at its exact value); JSON,
  plists, profiles and signatures as bytes.
* `format_negotiation.rs`, which only the library and its tests use; `pipeline.rs` and the GPU
  experiment, which are not on the app's path; diagnostics and benchmarks, whose counters
  nothing reads back; drawing and localization; the command line and the release tools.

## 7. Plan

What is left, most important first.

Proofs: the parts of `DocumentsInv` that do not need an induction over a list of scenes (one
scene exported and imported again).

Models: the self-test's verdict composed with `AckedTransport`; the schedule of the media clock;
failing system calls in `EndpointLifecycle`.
