--------------------------- MODULE CaptureControl ---------------------------
(***************************************************************************)
(* The app's side of capture: app/capture_coordination.rs, the start and   *)
(* stop of app.rs, the source rows of app/ui.rs and the discovery worker,  *)
(* for a scene of cameras.  One thread runs it all.  A pass over the       *)
(* selected cameras (real_frames) drops and opens sources, then polls them *)
(* one by one; a poll reads the slots one lock at a time while the workers *)
(* go on.                                                                  *)
(***************************************************************************)
EXTENDS CaptureWorker

CONSTANTS Devices,   \* physical cameras
          DeviceOf,  \* the camera a locator stands for
          StableId   \* the locator discovery names a camera by

ASSUME ControlAssumption ==
  /\ DeviceOf \in [Locators -> Devices]
  /\ StableId \in [Devices -> Locators]
  /\ \A d \in Devices : DeviceOf[StableId[d]] = d

VARIABLES running,   \* the preview is started
          selected,  \* camera locators of the scene (selected_sources)
          known,     \* devices the last discovery found (real_devices)
          real,      \* failure streak, 0 or more, of each open source (real_sources)
          discovery, \* a discovery job is awaited (camera_discovery.receiver)
          ui         \* how far the app's thread is in a pass over the cameras

controlVars == <<running, selected, known, real, discovery, ui>>
vars == <<workerVars, controlVars>>

\* device_has_locator and camera_locators_match
Has(d, l) == DeviceOf[l] = d
Matches(a, b) == a = b \/ \E d \in known : Has(d, a) /\ Has(d, b)

Open == DOMAIN real
Runtime(l) == {s \in Open : Matches(thread[s].id, l)}

Reads == {"progress", "format", "error", "latest"} \* a poll of ui.s has begun
Idle == [at |-> "idle", s |-> None, age |-> 0, fps |-> None, todo |-> {}]
Reading(at, s) == ui' = [ui EXCEPT !.at = at, !.s = s]

Init ==
  /\ WorkerInit
  /\ running = FALSE
  /\ \E l \in Locators : selected = {l} \* a stored scene of one camera
  /\ known = {}
  /\ real = [s \in {} |-> 0]
  /\ discovery = FALSE
  /\ ui = Idle

----------------------------------------------------------------------------
(* A pass over the selected cameras *)

\* real_sources.retain, the drop of what it leaves out, and what is pushed.
NoneNew == [s \in {} |-> None]
Replace(keep, new) ==
  /\ real' = [s \in (Open \cap keep) \cup DOMAIN new |-> IF s \in DOMAIN new THEN 0 ELSE real[s]]
  /\ DropAndSpawn(Open \ keep, new)
Retain(keep) == Replace(keep, NoneNew)

\* Start of real_frames: the sources of cameras no longer selected are dropped.
BeginPass(sel) ==
  /\ Retain({s \in Open : \E l \in sel : Matches(thread[s].id, l)})
  /\ ui' = [Idle EXCEPT !.at = "open", !.todo = sel]

\* A selected camera without a source gets one, if the preview runs.
OpenMissing(l) ==
  /\ ui.at = "open" /\ l \in ui.todo
  /\ IF running /\ Runtime(l) = {}
     THEN \E s \in Sources :
            /\ thread[s].at = "unborn"
            /\ Replace(Open, [x \in {s} |-> [id |-> l, stall |-> 0, follows |-> None]])
     ELSE UNCHANGED <<thread, slots, seen, real>>
  /\ ui' = IF ui.todo = {l} THEN [ui EXCEPT !.at = "poll", !.todo = selected]
                            ELSE [ui EXCEPT !.todo = @ \ {l}]
  /\ UNCHANGED <<leases, running, selected, known, discovery>>

\* The poll of one camera is answered: Ok resets its failure streak.
Answered(s, streak) ==
  /\ real' = [real EXCEPT ![s] = streak]
  /\ ui' = IF ui.todo = {} THEN Idle ELSE [Idle EXCEPT !.at = "poll", !.todo = ui.todo]
Fails(s) == Answered(s, 1)

\* latest_frame begins with last_error.
BeginPoll(l) ==
  /\ ui.at = "poll" /\ l \in ui.todo
  /\ IF Runtime(l) = {}
     THEN /\ ui' = IF ui.todo = {l} THEN Idle ELSE [ui EXCEPT !.todo = @ \ {l}]
          /\ UNCHANGED <<real, seen>>
     ELSE \E s \in Runtime(l) :
            /\ seen' = [seen EXCEPT ![s].parked = Overdue(s), ![s].stale = slots[s].latest = "old"]
            /\ IF slots[s].last_error
               THEN /\ real' = [real EXCEPT ![s] = 1]
                    /\ ui' = IF ui.todo = {l} THEN Idle ELSE [ui EXCEPT !.todo = @ \ {l}]
               ELSE /\ ui' = [ui EXCEPT !.at = "progress", !.s = s, !.todo = @ \ {l}]
                    /\ UNCHANGED real
  /\ UNCHANGED <<thread, slots, leases, running, selected, known, discovery>>

\* The phase and its clock; the watchdog of the phases before the first frame.
PollProgress(s) ==
  /\ ui.at = "progress" /\ ui.s = s
  /\ IF OpenStalled(slots[s].phase, PreFrameElapsed(slots[s]))
     THEN Fails(s)
     ELSE /\ IF slots[s].phase = "Streaming"
             THEN ui' = [ui EXCEPT !.at = "format", !.age = slots[s].age]
             ELSE Reading("latest", s)
          /\ UNCHANGED real
  /\ UNCHANGED <<workerVars, running, selected, known, discovery>>

\* frame_stall_age speaks for a negotiated device only ...
PollFormat(s) ==
  /\ ui.at = "format" /\ ui.s = s
  /\ ui' = IF slots[s].format = None THEN [ui EXCEPT !.at = "latest"]
                                 ELSE [ui EXCEPT !.at = "error", !.fps = slots[s].format]
  /\ UNCHANGED <<workerVars, running, selected, known, real, discovery>>

\* ... and leaves the word to an error published meanwhile.
PollErrorAgain(s) ==
  /\ ui.at = "error" /\ ui.s = s
  /\ IF ~slots[s].last_error /\ FrameStalled("Streaming", ui.age, ui.fps)
     THEN Fails(s)
     ELSE Reading("latest", s) /\ UNCHANGED real
  /\ UNCHANGED <<workerVars, running, selected, known, discovery>>

PollLatest(s) ==
  /\ ui.at = "latest" /\ ui.s = s
  /\ Answered(s, 0)
  /\ UNCHANGED <<workerVars, running, selected, known, discovery>>

Polls(s) == PollProgress(s) \/ PollFormat(s) \/ PollErrorAgain(s) \/ PollLatest(s)
Pass == \/ \E l \in Locators : OpenMissing(l) \/ BeginPoll(l)
        \/ \E s \in Sources : Polls(s)

----------------------------------------------------------------------------
(* What the user and the render clock do between two passes *)

\* Mutant: the sources stay open.
StopStreamingOnly == running' = FALSE /\ ui' = Idle /\ UNCHANGED <<thread, slots, seen, real>>

\* stop_streaming
StopStreaming == running' = FALSE /\ Retain({}) /\ ui' = Idle

\* request_render for the selection `sel`; without a camera left the preview stops.
RequestRender(sel) == IF sel # {} THEN BeginPass(sel) /\ UNCHANGED running ELSE StopStreaming

Start ==
  /\ ui.at = "idle" /\ ~running /\ selected # {}
  /\ running' = TRUE
  /\ BeginPass(selected)
  /\ UNCHANGED <<leases, selected, known, discovery>>

Stop ==
  /\ ui.at = "idle" /\ running
  /\ StopStreaming
  /\ UNCHANGED <<leases, selected, known, discovery>>

\* A tick of the media clock, or the render a command has asked for.
Render ==
  /\ ui.at \in {"idle", "render"} /\ running
  /\ RequestRender(selected)
  /\ UNCHANGED <<leases, selected, known, discovery>>

\* A checkbox of a source row: the rows are the known devices by their id, and
\* the selected locators no known device has as its id.
Rows == {StableId[d] : d \in known} \cup selected
Select(l) ==
  /\ ui.at = "idle" /\ l \in Rows
  /\ selected' = IF l \in selected THEN selected \ {l} ELSE selected \cup {l}
  /\ RequestRender(selected')
  /\ UNCHANGED <<leases, known, discovery>>

\* SourceHealthVector of a camera row; the jitter and the acknowledgement of a
\* camera are never judged.
Vector(freshness, drops, reconnect, format) ==
  [freshness |-> freshness, drops |-> drops, reconnect |-> reconnect, format |-> format]
OffHealth == Vector("NotRunning", "Unknown", "NotRequired", "Unknown")
WaitingHealth == Vector("Waiting", "Unknown", "Connected", "Unknown")
ConnectedHealth == Vector("Fresh", "Clear", "Connected", "Negotiated")
RetryingHealth == Vector("Stale", "Recent", "Reconnecting", "Unknown")
StalledHealth == Vector("Stale", "Unknown", "Connected", "Negotiated")

\* SourceHealthVector::summary
Summary(h) ==
  IF h.reconnect = "Reconnecting" \/ h.format = "Mismatch" \/ h.freshness = "Stale" THEN "Retry"
  ELSE IF h.freshness = "NotRunning" THEN "Off"
  ELSE IF h.freshness = "Waiting" \/ h.drops = "Recent" THEN "Waiting" ELSE "Ready"

\* real_source_health of the row of a locator whose source is s.
Health(l, s) ==
  IF l \notin selected \/ ~running THEN OffHealth
  ELSE IF FrameStallAge(slots[s]) > 0 THEN StalledHealth
  ELSE IF real[s] > 0 THEN RetryingHealth
  ELSE IF slots[s].format # None THEN ConnectedHealth ELSE WaitingHealth

\* retry_real_source on a row whose summary is Retry: the replacement is opened by
\* the runtime locator of the source it replaces and inherits its stall.
Retry(d) ==
  LET l == StableId[d]
  IN /\ ui.at = "idle" /\ d \in known
     /\ \E p \in Runtime(l), s \in Sources :
          /\ Summary(Health(l, p)) = "Retry"
          /\ thread[s].at = "unborn"
          /\ Replace(Open \ Runtime(l),
                     [x \in {s} |-> [id |-> thread[p].id, stall |-> StallAge(slots[p]),
                                    follows |-> IF Overdue(p) THEN p ELSE seen[p].follows]])
     /\ ui' = [Idle EXCEPT !.at = "render"]
     /\ UNCHANGED <<leases, running, selected, known, discovery>>

StartDiscovery ==
  /\ ui.at = "idle" /\ ~discovery
  /\ discovery' = TRUE
  /\ UNCHANGED <<workerVars, running, selected, known, real, ui>>

\* The detached thread may still finish; its sender is disconnected.
CancelDiscovery ==
  /\ ui.at = "idle" /\ discovery
  /\ discovery' = FALSE
  /\ UNCHANGED <<workerVars, running, selected, known, real, ui>>

\* migrate_camera_aliases: legacy locators of found devices become their ids.
Migrated(devices) ==
  {IF DeviceOf[l] \in devices THEN StableId[DeviceOf[l]] ELSE l : l \in selected}

\* The answer of a discovery: the sources of devices that are gone are dropped.
FinishDiscovery(keep) ==
  /\ ui.at = "idle" /\ discovery
  /\ discovery' = FALSE
  /\ Retain(keep)
  /\ ui' = IF running THEN [Idle EXCEPT !.at = "render"] ELSE Idle
  /\ UNCHANGED <<leases, running>>

DevicesFound(devices) ==
  /\ selected' = Migrated(devices)
  /\ known' = devices
  /\ FinishDiscovery({s \in Open : DeviceOf[thread[s].id] \in devices})

DiscoveryFailed ==
  /\ known' = {} /\ UNCHANGED selected
  /\ FinishDiscovery({})

Discovers == \/ StartDiscovery \/ CancelDiscovery \/ DiscoveryFailed
             \/ \E devices \in SUBSET Devices : DevicesFound(devices)
User == \/ Start \/ Stop \/ Discovers
        \/ \E l \in Locators : Select(l)
        \/ \E d \in Devices : Retry(d)

\* Time passes for the workers and for the clock a poll has read.
Time ==
  /\ Tick
  /\ ui' = [ui EXCEPT !.age = IF ui.at \in {"format", "error"} THEN Older(@) ELSE @]
  /\ UNCHANGED <<running, selected, known, real, discovery>>

Worker == WorkerStep /\ UNCHANGED controlVars

\* A worker goes on; a driver call comes back in the end, and does not fail or
\* stay empty for ever; the app's thread ends its pass and the clock renders.
WorkerFairness ==
  \A s \in Sources :
    /\ WF_vars(Works(s) /\ UNCHANGED controlVars)
    /\ WF_vars(CallReturns(s) /\ UNCHANGED controlVars)
    /\ SF_vars(Opened(s) /\ UNCHANGED controlVars)
    /\ SF_vars(ReadFrame(s) /\ UNCHANGED controlVars)
Fairness == WorkerFairness /\ WF_vars(Pass) /\ WF_vars(Render)

Next == Worker \/ Pass \/ Render \/ User \/ Time
Spec == Init /\ [][Next]_vars
FairSpec == Spec /\ Fairness

----------------------------------------------------------------------------
(* Properties *)

UiType == [at : {"idle", "render", "open", "poll"} \cup Reads, s : Sources \cup {None},
           age : 0..MaxAge, fps : Rates \cup {None}, todo : SUBSET Locators]

\* Every slot, lease and streak holds a value of its kind.
TypeOK ==
  /\ WorkerTypeOK
  /\ running \in BOOLEAN /\ discovery \in BOOLEAN
  /\ selected \subseteq Locators /\ known \subseteq Devices
  /\ real \in [Open -> 0..1] /\ Open \subseteq Sources
  /\ ui \in UiType

\* Two workers are never inside a session of one locator, however often a camera
\* is stopped, started and retried while an old worker is parked in the driver:
\* the lease of try_acquire_camera_lease outlives its source.
Working(s) == thread[s].device \/ thread[s].at \in Calls
OneWorkerPerLocator ==
  \A s, t \in Sources : Working(s) /\ Working(t) /\ thread[s].id = thread[t].id => s = t

\* A source winds down once the app lets go of it, and it lets go of all of them
\* when the preview stops: after `stop` at most the call the worker was in, or about
\* to make, comes back, and nothing opens a device later (capture.rs:796).
WindsDown ==
  /\ \A s \in Sources : seen[s].late <= 1
  /\ \A s \in Sources : thread[s].at # "unborn" => (s \in Open <=> ~thread[s].stop)
  /\ ~running => Open = {}

\* What holds of the sources of the app and their workers between any two steps.
CaptureInv == TypeOK /\ OneWorkerPerLocator /\ WindsDown

\* The picture a poll hands out is not of a session that was over when the poll
\* began: a reconnecting camera shows its error, not its last frame.
NoGhostFrame ==
  [][\A s \in Sources : PollLatest(s) => ~(seen[s].stale /\ slots[s].latest = "old")]_vars

\* A camera whose driver hangs is shown as stalled: a poll does not answer Ok when
\* its worker sat in one backend call, past every deadline, from the first lock the
\* poll took to the last.  A retry does not hide it: a source that replaced one
\* stalled for longer than the open budget keeps reporting it for as long as that
\* worker is parked in the same call.
HidesStall(s) == seen[s].parked \/ (seen[s].follows # None /\ slots[s].inherited >= OpenTimeout)
StallIsReported == [][\A s \in Sources : PollLatest(s) => ~HidesStall(s)]_vars

\* Once the user lets the app alone, a selected camera shows frames again and again
\* or its worker has ended in a panic it reports, whatever was stopped, retried,
\* parked or failed before.
Shown(l) == \E s \in Runtime(l) : slots[s].latest = "current" /\ ~slots[s].last_error
GaveUp(l) == \E s \in Runtime(l) : thread[s].at = "ended" /\ slots[s].last_error
CameraReturns ==
  \A l \in Locators :
    (<>[][~User]_vars /\ <>[](running /\ l \in selected)) => []<>(Shown(l) \/ GaveUp(l))

\* No camera stays open behind a preview that is off: a device is closed once the
\* call its worker was parked in comes back.
LightGoesOut == <>[]~running => <>[](\A s \in Sources : ~thread[s].device)

----------------------------------------------------------------------------
(* The inductive invariant behind the safety properties. *)

\* A worker in a session has the lease of its locator, and is the only one there.
Session(s) == thread[s].at \notin {"unborn", "lease", "ended"}
LeaseHeld ==
  \A s \in Sources :
    /\ Session(s) => thread[s].id \in leases
    /\ \A t \in Sources : Session(s) /\ Session(t) /\ thread[s].id = thread[t].id => s = t
    /\ thread[s].device => Session(s) /\ thread[s].at \notin {"outer", "open"}
    /\ thread[s].at # "unborn" => thread[s].id # None

\* A call that comes back after a stop was the last one, and the age of a call is
\* that of the one the worker is in.
LastCall ==
  \A s \in Sources :
    /\ seen[s].late > 0 => thread[s].stop /\ thread[s].at \notin Calls
    /\ thread[s].at \notin Calls => seen[s].call = 0
    /\ s \in Open => thread[s].at # "unborn"

\* Where a worker with a reader is shows in its slots: no phase is younger than
\* the call made in it, and a session that is over has left its error.
SlotsAgree ==
  \A s \in Sources : ~thread[s].stop =>
    /\ thread[s].at \in Calls => slots[s].age >= seen[s].call
    /\ thread[s].at = "lease" => slots[s].phase = "AwaitingLease"
    /\ thread[s].at = "open" => slots[s].phase = "Opening"
    /\ thread[s].at \in {"inner", "read", "gotFrame", "gotNone", "clear", "rest"} =>
         slots[s].format # None
    /\ thread[s].at \in {"close", "backoff"} => slots[s].last_error

\* A frame of a session that is over stands beside the error that ended it.
GhostHasError ==
  \A s \in Sources : slots[s].latest = "old" =>
    slots[s].last_error /\ ~thread[s].stop /\ thread[s].at # "clear"

\* What a poll has found parked is parked still, until the call comes back; and a
\* source that replaced a parked one waits for the lease that one has.
ParkedStays ==
  \A s \in Sources :
    /\ seen[s].parked => ~thread[s].stop /\ Overdue(s)
    /\ LET p == seen[s].follows
       IN  p # None => /\ thread[s].at = "lease" /\ ~thread[s].stop
                       /\ thread[p].at \in Calls /\ thread[p].id = thread[s].id

\* What a poll in progress has not reported yet it still can.
PollSees ==
  ui.at \in Reads =>
    LET s == ui.s
    IN  /\ s \in Sources /\ ~seen[s].stale
        /\ ui.at # "progress" => ~(seen[s].follows # None /\ slots[s].inherited >= OpenTimeout)
        /\ seen[s].parked =>
             /\ ui.at # "latest" /\ ~slots[s].last_error
             /\ ui.at \in {"format", "error"} =>
                  slots[s].phase = "Streaming" /\ ui.age >= seen[s].call
             /\ ui.at = "error" => ui.fps = slots[s].format

CaptureOrder ==
  /\ TypeOK /\ LeaseHeld /\ WindsDown /\ LastCall
  /\ SlotsAgree /\ GhostHasError /\ ParkedStays /\ PollSees
=============================================================================
