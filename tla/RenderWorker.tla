---------------------------- MODULE RenderWorker ----------------------------
(***************************************************************************)
(* The render worker (render_worker.rs): a cell with the newest job, a     *)
(* publish gate, a cell with the result, all under one mutex, and the      *)
(* thread that renders.  The operations Submit, DisconnectOutput,          *)
(* TakeResult, HasWork and Drop are the client's, who is in RenderPipeline.*)
(*                                                                         *)
(* The thread leaves the mutex while it composes, connects and sends, and  *)
(* looks at the gate twice in between.  The sink is the thread's alone, so *)
(* that disconnecting it is part of the step that decides to.              *)
(*                                                                         *)
(* A job is named by its epoch; its publish flag is read by Submit alone.  *)
(* Not here: pixels, the recycling of frames, the preview image (a scaled  *)
(* copy of the result's frame), target rates, counts of jobs, and the      *)
(* progress of the transport that a result carries.                        *)
(*                                                                         *)
(* A definition under a comment "Mutant" is not part of the model: it is   *)
(* the definition after it with a plausible bug, which a run must detect.  *)
(***************************************************************************)
EXTENDS Naturals

CONSTANTS
  MaxEpoch,    \* bound: render epochs
  MaxMerged,   \* bound: sends one result may account for
  MayNotCompose,   \* TRUE: the compositor may refuse a job's frames
  None         \* no job, no result, no frame

ASSUME RenderBoundsAssumption == {MaxEpoch, MaxMerged} \subseteq Nat \ {0}
                                 /\ MayNotCompose \in BOOLEAN

VARIABLES
  (* WorkerState, under the mutex *)
  pending, result, outputEnabled, latestEpoch, disconnectRequested, stopping,
  (* the thread *)
  wpc,         \* where it is
  job,         \* the job it renders
  rendered,    \* the job's picture could be composed
  failed,      \* transport_error
  sent,        \* virtual_frame_sent
  connected,   \* the sink is
  (* history *)
  late,        \* frames sent since output was last disabled, while it is
  owed         \* frames sent that no result taken has accounted for

mailbox == <<pending, result, outputEnabled, latestEpoch,
             disconnectRequested, stopping>>
thread == <<wpc, job, rendered, failed, sent, connected>>
history == <<late, owed>>
workerVars == <<mailbox, thread, history>>

Epochs == 0..MaxEpoch

(* rendered: the frame is Ok; failed: there is a transport_error *)
Result == [epoch : Epochs, rendered : BOOLEAN, failed : BOOLEAN,
           sent : 0..MaxMerged]

ASSUME NoneAssumption == None \notin Epochs \cup Result

WorkerTypeOK ==
  /\ pending \in Epochs \cup {None}
  /\ result \in Result \cup {None}
  /\ latestEpoch \in Epochs
  /\ {outputEnabled, disconnectRequested, stopping} \subseteq BOOLEAN
  /\ wpc \in {"next", "gate", "connect", "check", "send", "report", "stopped"}
  /\ job \in Epochs \cup {None}
  /\ stopping => pending = None
  /\ {rendered, failed, sent, connected} \subseteq BOOLEAN
  /\ late \in Nat /\ owed \in Nat

WorkerInit ==
  /\ pending = None /\ result = None
  /\ outputEnabled = FALSE /\ latestEpoch = 0
  /\ disconnectRequested = FALSE /\ stopping = FALSE
  /\ wpc = "next" /\ job = None
  /\ rendered = FALSE /\ failed = FALSE /\ sent = FALSE /\ connected = FALSE
  /\ late = 0 /\ owed = 0

-----------------------------------------------------------------------------
(* The client's operations, each under the mutex. *)

Submit(e, publish) ==
  /\ pending' = e
  /\ outputEnabled' = publish
  /\ latestEpoch' = e
  /\ disconnectRequested' =
       (~publish /\ (disconnectRequested \/ outputEnabled))
  /\ late' = IF publish THEN 0 ELSE late
  /\ UNCHANGED <<result, stopping, thread, owed>>

(* Mutant: the gate is closed and the next job is to do the rest. *)
DisconnectOutputGateOnly ==
  /\ outputEnabled' = FALSE
  /\ UNCHANGED <<pending, result, latestEpoch, disconnectRequested, stopping,
                 thread, history>>

DisconnectOutput ==
  /\ outputEnabled' = FALSE
  /\ disconnectRequested' = TRUE
  /\ UNCHANGED <<pending, result, latestEpoch, stopping, thread, history>>

TakeResult ==
  /\ result' = None
  /\ owed' = IF result = None THEN owed ELSE owed - result.sent
  /\ UNCHANGED <<pending, outputEnabled, latestEpoch, disconnectRequested,
                 stopping, thread, late>>

Processing == wpc \notin {"next", "stopped"}

HasWork ==
  Processing \/ pending # None \/ disconnectRequested \/ result # None

(* Drop: the client then waits for the thread to end. *)
DropWorker ==
  /\ stopping' = TRUE
  /\ pending' = None
  /\ UNCHANGED <<result, outputEnabled, latestEpoch, disconnectRequested,
                 thread, history>>

-----------------------------------------------------------------------------
(* The thread. *)

Stop ==
  /\ wpc = "next" /\ stopping
  /\ wpc' = "stopped"
  /\ connected' = FALSE
  /\ UNCHANGED <<mailbox, job, rendered, failed, sent, history>>

Disconnect ==
  /\ wpc = "next" /\ ~stopping /\ disconnectRequested
  /\ disconnectRequested' = FALSE
  /\ connected' = FALSE
  /\ UNCHANGED <<pending, result, outputEnabled, latestEpoch, stopping,
                 wpc, job, rendered, failed, sent, history>>

(* Take the job and compose it, which may fail. *)
BeginJob ==
  /\ wpc = "next" /\ ~stopping /\ ~disconnectRequested /\ pending # None
  /\ result # None => result.sent < MaxMerged
  /\ wpc' = "gate"
  /\ job' = pending
  /\ pending' = None
  /\ rendered' \in {TRUE, ~MayNotCompose}
  /\ UNCHANGED <<result, outputEnabled, latestEpoch, disconnectRequested,
                 stopping, failed, sent, connected, history>>

(* Mutant: only the epoch is looked at. *)
CurrentByEpoch == job = latestEpoch

Current == outputEnabled /\ job = latestEpoch

(* The first look at the gate. *)
Gate ==
  /\ wpc = "gate"
  /\ wpc' = IF ~Current THEN "report" ELSE
            IF ~connected THEN "connect" ELSE
            IF rendered THEN "check" ELSE "report"
  /\ connected' = (connected /\ (Current \/ outputEnabled))
  /\ UNCHANGED <<mailbox, job, rendered, failed, sent, history>>

Connect ==
  /\ wpc = "connect"
  /\ \/ /\ connected' = TRUE
        /\ wpc' = IF rendered THEN "check" ELSE "report"
        /\ UNCHANGED failed
     \/ /\ failed' = TRUE
        /\ wpc' = "report"
        /\ UNCHANGED connected
  /\ UNCHANGED <<mailbox, job, rendered, sent, history>>

(* The second look at the gate, after a connect that may have taken long. *)
Check ==
  /\ wpc = "check"
  /\ wpc' = IF Current THEN "send" ELSE "report"
  /\ UNCHANGED <<mailbox, job, rendered, failed, sent, connected, history>>

Send ==
  /\ wpc = "send"
  /\ wpc' = "report"
  /\ \/ /\ sent' = TRUE
        /\ owed' = owed + 1
        /\ late' = IF outputEnabled THEN late ELSE late + 1
        /\ UNCHANGED <<failed, connected>>
     \/ /\ failed' = TRUE
        /\ connected' = FALSE
        /\ UNCHANGED <<sent, late, owed>>
  /\ UNCHANGED <<mailbox, job, rendered>>

-----------------------------------------------------------------------------
Rendered ==
  [epoch    |-> job,
   rendered |-> rendered,
   failed   |-> failed,
   sent     |-> IF sent THEN 1 ELSE 0]

(* A result nobody has read: its counters go on, its error only within the   *)
(* epoch, its frame not at all.                                              *)
Merged(new, previous) ==
  [new EXCEPT
    !.sent = @ + previous.sent,
    !.failed = @ \/ (previous.epoch = new.epoch /\ previous.failed)]

Report ==
  /\ wpc = "report"
  /\ result' = IF result = None THEN Rendered ELSE Merged(Rendered, result)
  /\ wpc' = "next"
  /\ job' = None /\ rendered' = FALSE /\ failed' = FALSE /\ sent' = FALSE
  /\ UNCHANGED <<pending, outputEnabled, latestEpoch, disconnectRequested,
                 stopping, connected, history>>

WorkerStep ==
  \/ Stop \/ Disconnect \/ BeginJob \/ Gate \/ Connect \/ Check \/ Send
  \/ Report

-----------------------------------------------------------------------------
(* After output has been disabled, at most one frame is sent before it is    *)
(* enabled again: the one the thread had decided to send.                    *)
AtMostOneLate == late <= 1

(* Every frame sent is accounted for once: results that replace each other   *)
(* unread lose none of virtual_frames_sent, and count none twice.            *)
CountersAgree ==
  owed = (IF sent THEN 1 ELSE 0) + (IF result = None THEN 0 ELSE result.sent)

(* What those rest on.  The thread has a job while it is not waiting for one,*)
(* and a frame sent is that job's until it is reported; a send decided on    *)
(* while output was enabled is the first one after it was disabled.          *)
JobInHand == Processing => job # None
SentIsReported == sent => wpc = "report"
DecidedWhileEnabled == outputEnabled \/ wpc = "send" => late = 0
RoomToMerge == Processing /\ result # None => result.sent < MaxMerged

WorkerInv ==
  /\ WorkerTypeOK
  /\ AtMostOneLate /\ CountersAgree
  /\ JobInHand /\ SentIsReported /\ DecidedWhileEnabled /\ RoomToMerge
=============================================================================
