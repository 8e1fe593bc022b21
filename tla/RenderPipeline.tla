--------------------------- MODULE RenderPipeline ---------------------------
(***************************************************************************)
(* The app's thread over the render worker: request_render,                *)
(* poll_render_result and the epoch (app/render_coordination.rs), start,   *)
(* stop and the output switch (app.rs, app/controller.rs), the driving of  *)
(* the self-test (app/self_test.rs), and the media clock's tick.           *)
(*                                                                         *)
(* egui calls the app for one frame at a time, when a repaint was          *)
(* requested or the user did something, and not otherwise: logic() in a    *)
(* fixed order, then what the user did.  A handler is a step for each time *)
(* it takes the worker's mutex: its other state is the app's alone.  The   *)
(* end of a frame is not a step, so that a command at "asleep" is one at   *)
(* the end of the last frame.                                              *)
(*                                                                         *)
(* What a request finds of the sources is a choice: only cameras and none  *)
(* with a frame, "lacking" some under the policy StopOutput, or "whole";   *)
(* and whether the frames are other ones than the last time.  Of the       *)
(* fingerprint there remains the publish flag: layout and the like change  *)
(* with the scene only, and that invalidates the fingerprint.  Whether the *)
(* self-test passes on a result is a choice: progress is the matter of     *)
(* AckedTransport.                                                         *)
(***************************************************************************)
EXTENDS RenderWorker

VARIABLES
  apc,         \* where the app is in its frame
  repaint,     \* a repaint is scheduled
  tick,        \* the media clock has ticked since take_tick
  running,     \* the preview runs
  wanted,      \* virtual_output_enabled
  sources,     \* "unselected", or what the last request found
  fingerprint, \* last_render_fingerprint
  epoch,       \* render_epoch
  test,        \* virtual_camera_self_test is Running
  (* history *)
  scene,       \* the epoch to which the scene last changed
  outdated     \* the frame last shown was rendered for an earlier scene

past == <<scene, outdated>>
app == <<tick, running, wanted, sources, fingerprint, epoch, test, past>>
vars == <<workerVars, apc, repaint, app>>

AppTypeOK ==
  /\ apc \in {"asleep", "discovered", "poll", "passed", "drive", "tick",
              "schedule", "requesting", "quit"}
  /\ {repaint, tick, running, wanted, test, outdated} \subseteq BOOLEAN
  /\ sources \in {"unselected", "lacking", "whole"}
  /\ fingerprint \in BOOLEAN \cup {None}
  /\ epoch \in Epochs /\ latestEpoch <= epoch

TypeOK == WorkerTypeOK /\ AppTypeOK

(* The media clock as the app's thread sees it.  It runs while the preview does. *)

ClockNew == running = FALSE /\ tick = FALSE

ClockUpdate(on) == running' = on

(* Ticks of an earlier run of the clock are consumed. *)
ClockStart == tick' = FALSE /\ ClockUpdate(TRUE)
ClockStop == ClockUpdate(FALSE) /\ tick' = FALSE

(* take_tick: any number of ticks are one. *)
TakeTick == tick /\ tick' = FALSE

Init ==
  /\ WorkerInit
  /\ apc = "requesting"     \* the constructor's request
  /\ repaint = FALSE
  /\ ClockNew
  /\ wanted \in BOOLEAN
  /\ sources \in {"unselected", "whole"}
  /\ fingerprint = None /\ epoch = 0
  /\ test = FALSE
  /\ scene = 0 /\ outdated = FALSE

-----------------------------------------------------------------------------
(* What several handlers share. *)

(* invalidate_render_epoch, once or several times.  An epoch that no job has *)
(* been submitted with is as good as the next.                               *)
Unused == epoch # latestEpoch
Invalidate ==
  /\ epoch' = IF Unused THEN epoch ELSE epoch + 1
  /\ fingerprint' = None

(* bound: epochs that jobs are submitted with *)
Room == Unused \/ epoch < MaxEpoch

(* stop_streaming *)
Stops ==
  /\ ClockStop
  /\ Invalidate
  /\ DisconnectOutput

(* request_render: its early returns, then the submission. *)

RequestUnselected ==
  /\ sources = "unselected"
  /\ \/ running /\ Stops
     \/ ~running /\ Invalidate /\ UNCHANGED <<running, tick, workerVars>>
  /\ UNCHANGED <<repaint, sources>>

RequestNoFrames ==
  /\ sources # "unselected" /\ sources' = "lacking"
  /\ DisconnectOutput \/ UNCHANGED workerVars   \* StopOutput, or another policy
  /\ UNCHANGED <<repaint, running, fingerprint, epoch>>

Publishes == running /\ wanted /\ sources' = "whole"

(* Neither the frames nor anything else in the fingerprint has changed. *)
RequestSame ==
  /\ sources # "unselected" /\ sources' \in {"lacking", "whole"}
  /\ fingerprint = Publishes
  /\ UNCHANGED <<workerVars, repaint, running, fingerprint, epoch>>

RequestSubmit ==
  /\ sources # "unselected" /\ sources' \in {"lacking", "whole"}
  /\ Submit(epoch, Publishes)
  /\ fingerprint' = Publishes
  /\ repaint' = TRUE
  /\ UNCHANGED <<running, epoch>>

(* A request with force_preview. *)
RequestForced(from, to) ==
  /\ apc = from /\ apc' = to
  /\ \/ RequestUnselected
     \/ (RequestNoFrames \/ RequestSubmit) /\ UNCHANGED tick
  /\ UNCHANGED <<wanted, test, past>>

-----------------------------------------------------------------------------
(* logic() *)

(* poll_camera_discovery has an answer while the preview runs. *)
Discovered ==
  /\ running /\ Room
  /\ apc' = "discovered"
  /\ Invalidate
  /\ UNCHANGED <<workerVars, tick, running, wanted, sources, test, past>>

(* Mutant: results of other epochs are shown. *)
Accepts == result # None /\ result.epoch = epoch

(* poll_render_result *)
PollResult ==
  /\ TakeResult
  /\ \/ /\ test /\ result # None    \* passed
        /\ test' = FALSE /\ apc' = "passed"
     \/ /\ apc' = IF test THEN "drive" ELSE "tick"
        /\ UNCHANGED test
  /\ outdated' = IF Accepts /\ result.rendered THEN result.epoch < scene
                                               ELSE outdated
  /\ fingerprint' = IF Accepts /\ (~result.rendered \/ result.failed)
                    THEN None ELSE fingerprint
  /\ UNCHANGED <<tick, running, wanted, sources, epoch, scene>>

(* egui calls: what was scheduled is forgotten. *)
BeginFrame ==
  /\ apc = "asleep"
  /\ repaint' = FALSE
  /\ Discovered \/ PollResult

WakeUp == repaint /\ BeginFrame
UserInput == BeginFrame

RequestDiscovered == RequestForced("discovered", "poll")

PollDiscovered == apc = "poll" /\ PollResult /\ UNCHANGED repaint

DisconnectPassed ==
  /\ apc = "passed" /\ apc' = "tick"
  /\ DisconnectOutput
  /\ UNCHANGED <<repaint, app>>

(* drive_virtual_camera_self_test *)

(* Mutant: nothing asks egui to come back while the test waits. *)
DriveWaitQuiet ==
  /\ apc = "drive" /\ apc' = "tick"
  /\ UNCHANGED <<workerVars, repaint, app>>

DriveWait ==
  /\ apc = "drive" /\ apc' = "tick"
  /\ repaint' = TRUE
  /\ UNCHANGED <<workerVars, app>>

DriveSubmit ==
  /\ apc = "drive" /\ apc' = "tick"
  /\ Submit(epoch, TRUE)
  /\ repaint' = TRUE
  /\ UNCHANGED app

DriveTimeOut ==
  /\ apc = "drive" /\ apc' = "tick"
  /\ test' = FALSE
  /\ DisconnectOutput
  /\ UNCHANGED <<repaint, tick, running, wanted, sources, fingerprint, epoch,
                 past>>

(* take_tick, and the request of a running preview. *)
NoTick ==
  /\ apc = "tick" /\ apc' = "schedule"
  /\ ~(running /\ tick)
  /\ UNCHANGED <<workerVars, repaint, app>>

RequestTicked(request) ==
  /\ apc = "tick" /\ apc' = "schedule"
  /\ running /\ TakeTick
  /\ request
  /\ UNCHANGED <<wanted, test, past>>

TickNoFrames == RequestTicked(RequestNoFrames)
TickSame == RequestTicked(RequestSame)
TickSubmit == RequestTicked(RequestSubmit)

ScheduleRepaint ==
  /\ apc = "schedule" /\ apc' = "asleep"
  /\ repaint' = (repaint \/ HasWork)
  /\ UNCHANGED <<workerVars, app>>

-----------------------------------------------------------------------------
(* What the user may do. *)

(* toggle_running *)
StartStreaming ==
  /\ apc = "asleep" /\ apc' = "requesting"
  /\ ~running /\ sources # "unselected"
  /\ ClockStart
  /\ UNCHANGED <<workerVars, repaint, wanted, sources, fingerprint, epoch,
                 test, past>>

(* The button that renders a scene once more. *)
Render ==
  /\ apc = "asleep" /\ apc' = "requesting"
  /\ ~running /\ sources # "unselected"
  /\ UNCHANGED <<workerVars, repaint, app>>

StopStreaming ==
  /\ apc = "asleep" /\ apc' = "asleep"
  /\ running /\ Room
  /\ Stops
  /\ UNCHANGED <<repaint, wanted, sources, test, past>>

SetVirtualOutput ==
  /\ apc = "asleep" /\ apc' = "asleep"
  /\ wanted' = ~wanted
  /\ IF wanted THEN DisconnectOutput ELSE UNCHANGED workerVars
  /\ UNCHANGED <<repaint, tick, running, sources, fingerprint, epoch, test,
                 past>>

(* An edit of the scene, then refresh_scene_render. *)
RefreshScene ==
  /\ apc = "asleep" /\ apc' = "requesting"
  /\ Room
  /\ Invalidate
  /\ scene' = epoch'
  /\ sources' \in {"unselected", "whole"}
  /\ UNCHANGED <<workerVars, repaint, tick, running, wanted, test, outdated>>

(* start_virtual_camera_self_test, whose first pattern is due at once. *)
StartTest ==
  /\ apc = "asleep" /\ apc' = "asleep"
  /\ ~running /\ ~test
  /\ test' = TRUE
  /\ Submit(epoch, TRUE)
  /\ repaint' = TRUE
  /\ UNCHANGED <<tick, running, wanted, sources, fingerprint, epoch, past>>

CancelTest ==
  /\ apc = "asleep" /\ apc' = "requesting"
  /\ test /\ Room
  /\ test' = FALSE
  /\ Invalidate
  /\ DisconnectOutput
  /\ UNCHANGED <<repaint, tick, running, wanted, sources, past>>

RequestCommanded == RequestForced("requesting", "asleep")

Quit ==
  /\ apc = "asleep" /\ apc' = "quit"
  /\ DropWorker
  /\ UNCHANGED <<repaint, app>>

Command ==
  \/ StartStreaming \/ StopStreaming \/ SetVirtualOutput \/ RefreshScene
  \/ Render \/ StartTest \/ CancelTest \/ Quit

-----------------------------------------------------------------------------
(* run_clock, which ticks under the mutex that start and stop take. *)

(* Mutant: the tick does not wake egui. *)
ClockTickQuiet ==
  /\ running /\ apc # "quit"
  /\ tick' = TRUE
  /\ UNCHANGED <<workerVars, apc, repaint, running, wanted, sources,
                 fingerprint, epoch, test, past>>

ClockTick ==
  /\ running /\ apc # "quit"
  /\ tick' = TRUE /\ repaint' = TRUE
  /\ UNCHANGED <<workerVars, apc, running, wanted, sources, fingerprint,
                 epoch, test, past>>

(* What the app does without the user, once egui has called it. *)
AppStep ==
  \/ RequestDiscovered \/ PollDiscovered \/ DisconnectPassed
  \/ DriveWait \/ DriveSubmit \/ DriveTimeOut
  \/ NoTick \/ TickNoFrames \/ TickSame \/ TickSubmit \/ ScheduleRepaint
  \/ RequestCommanded

Worker == WorkerStep /\ UNCHANGED <<apc, repaint, app>>

Next ==
  \/ AppStep \/ WakeUp \/ UserInput \/ Command
  \/ ClockTick
  \/ Worker

Spec == Init /\ [][Next]_vars

(* The threads go on and the clock of a running preview ticks.  egui honours *)
(* repaints however busy the user is, cameras deliver new frames again and   *)
(* again, and five seconds pass.                                             *)
Fairness ==
  /\ WF_vars(AppStep) /\ WF_vars(Worker) /\ WF_vars(ClockTick)
  /\ SF_vars(WakeUp) /\ SF_vars(TickSubmit) /\ SF_vars(DriveTimeOut)

FairSpec == Spec /\ Fairness

-----------------------------------------------------------------------------
(* The app never goes to sleep on work whose result nobody would then        *)
(* collect (has_work).                                                       *)
NothingForgotten ==
  apc = "asleep" /\ (pending # None \/ Processing \/ result # None) => repaint

(* A frame rendered for an earlier scene does not overwrite the preview      *)
(* ("an in-flight frame from the previous state cannot overwrite the current *)
(* preview", architecture.md).                                               *)
PreviewIsCurrent == ~outdated

(* What the app, the thread and the result cell agree on at every moment,    *)
(* the frame that the preview shows included.                                *)
PipelineInv ==
  TypeOK /\ AtMostOneLate /\ CountersAgree /\ NothingForgotten /\ PreviewIsCurrent

(* What those rest on: the worker is dropped by quitting alone, a request    *)
(* that finds no selection has an epoch to invalidate, the app gives a       *)
(* command only while what it has to collect is scheduled, and the scene     *)
(* never changed to an epoch that is yet to come.                            *)
StoppedByQuit == stopping => apc = "quit"
EpochToSpare ==
  apc \in {"discovered", "requesting"} /\ sources = "unselected" => Room
Collects ==
  /\ apc \in {"asleep", "requesting"}
  /\ pending # None \/ Processing \/ result # None
  => repaint
SceneIsPast == scene \in Epochs /\ scene <= epoch

PipelineOrder ==
  /\ TypeOK /\ WorkerInv
  /\ StoppedByQuit /\ EpochToSpare /\ Collects /\ SceneIsPast
  /\ PreviewIsCurrent

(* When output is switched off, the preview stopped or the app quit, the     *)
(* sink is disconnected, whatever the thread was doing, unless output is     *)
(* wanted again.                                                             *)
DisconnectsEventually ==
  ~outputEnabled \/ stopping ~> ~connected \/ (outputEnabled /\ ~stopping)

(* A preview that stays on, with its output wanted and its sources whole,    *)
(* goes on publishing, or at least failing to, whatever was switched off and *)
(* on before.                                                                *)
Live == running /\ wanted /\ sources = "whole" /\ apc # "quit"
LiveIsSent == <>[]Live => []<>(wpc = "report" /\ (sent \/ failed \/ ~rendered))

(* A self-test comes to an end, as long as the app does not.                 *)
TestEnds == test ~> ~test \/ apc = "quit"
=============================================================================
