------------------------ MODULE RenderPipelineProofs ------------------------
(***************************************************************************)
(* Proofs about RenderWorker and RenderPipeline, for every number of       *)
(* epochs and of unread sends: what the worker keeps under each operation  *)
(* of its client and each step of its thread, and then what the app keeps, *)
(* whose every step makes at most one of those operations.                 *)
(***************************************************************************)
EXTENDS RenderPipeline, TLAPS

LEMMA InitWorker == WorkerInit => WorkerInv
<1> SUFFICES ASSUME WorkerInit PROVE WorkerInv
  OBVIOUS
<1>1. WorkerTypeOK
  <2>1. pending = None /\ result = None /\ job = None /\ latestEpoch \in Epochs
    BY RenderBoundsAssumption DEF WorkerInit, Epochs
  <2> QED  BY <2>1 DEF WorkerInit, WorkerTypeOK
<1>2. AtMostOneLate /\ CountersAgree
  BY DEF WorkerInit, AtMostOneLate, CountersAgree
<1>3. JobInHand /\ SentIsReported /\ DecidedWhileEnabled /\ RoomToMerge
  BY DEF WorkerInit, JobInHand, SentIsReported, DecidedWhileEnabled,
         RoomToMerge, Processing
<1> QED  BY <1>1, <1>2, <1>3 DEF WorkerInv

(* The client's operations. *)

LEMMA SubmitKeeps ==
  ASSUME WorkerInv, ~stopping, NEW e \in Epochs, NEW publish \in BOOLEAN,
         Submit(e, publish)
  PROVE  WorkerInv'
<1>0. WorkerTypeOK /\ AtMostOneLate /\ CountersAgree /\ JobInHand
       /\ SentIsReported /\ DecidedWhileEnabled /\ RoomToMerge
  BY DEF WorkerInv
<1>1. WorkerTypeOK'
  BY <1>0 DEF Submit, thread, WorkerTypeOK
<1>2. (AtMostOneLate /\ DecidedWhileEnabled)'
  BY <1>0 DEF Submit, thread, AtMostOneLate, DecidedWhileEnabled
<1>3. CountersAgree'
  BY <1>0 DEF Submit, thread, CountersAgree
<1>4. (JobInHand /\ SentIsReported /\ RoomToMerge)'
  BY <1>0 DEF Submit, thread, JobInHand, Processing, SentIsReported, RoomToMerge
<1> QED  BY <1>1, <1>2, <1>3, <1>4 DEF WorkerInv

LEMMA DisconnectOutputKeeps ==
  ASSUME WorkerInv, DisconnectOutput
  PROVE  WorkerInv'
<1>0. WorkerTypeOK /\ AtMostOneLate /\ CountersAgree /\ JobInHand
       /\ SentIsReported /\ DecidedWhileEnabled /\ RoomToMerge
  BY DEF WorkerInv
<1>1. WorkerTypeOK'
  BY <1>0 DEF DisconnectOutput, thread, history, WorkerTypeOK
<1>2. (AtMostOneLate /\ DecidedWhileEnabled)'
  BY <1>0
    DEF DisconnectOutput, thread, history, AtMostOneLate, DecidedWhileEnabled
<1>3. CountersAgree'
  BY <1>0 DEF DisconnectOutput, thread, history, CountersAgree
<1>4. (JobInHand /\ SentIsReported /\ RoomToMerge)'
  BY <1>0
    DEF DisconnectOutput, thread, JobInHand, Processing, SentIsReported,
        RoomToMerge
<1> QED  BY <1>1, <1>2, <1>3, <1>4 DEF WorkerInv

LEMMA TakeResultKeeps ==
  ASSUME WorkerInv, TakeResult
  PROVE  WorkerInv'
<1>0. WorkerTypeOK /\ AtMostOneLate /\ CountersAgree /\ JobInHand
       /\ SentIsReported /\ DecidedWhileEnabled /\ RoomToMerge
  BY DEF WorkerInv
<1>1. WorkerTypeOK'
  BY <1>0 DEF TakeResult, thread, WorkerTypeOK, Result, CountersAgree
<1>2. (AtMostOneLate /\ DecidedWhileEnabled)'
  BY <1>0 DEF TakeResult, thread, AtMostOneLate, DecidedWhileEnabled
<1>3. CountersAgree'
  BY <1>0 DEF TakeResult, thread, CountersAgree, WorkerTypeOK, Result
<1>4. (JobInHand /\ SentIsReported /\ RoomToMerge)'
  BY <1>0
    DEF TakeResult, thread, JobInHand, Processing, SentIsReported, RoomToMerge
<1> QED  BY <1>1, <1>2, <1>3, <1>4 DEF WorkerInv

LEMMA DropWorkerKeeps ==
  ASSUME WorkerInv, DropWorker
  PROVE  WorkerInv'
<1>0. WorkerTypeOK /\ AtMostOneLate /\ CountersAgree /\ JobInHand
       /\ SentIsReported /\ DecidedWhileEnabled /\ RoomToMerge
  BY DEF WorkerInv
<1>1. WorkerTypeOK'
  BY <1>0 DEF DropWorker, thread, history, WorkerTypeOK
<1>2. (AtMostOneLate /\ DecidedWhileEnabled)'
  BY <1>0 DEF DropWorker, thread, history, AtMostOneLate, DecidedWhileEnabled
<1>3. CountersAgree'
  BY <1>0 DEF DropWorker, thread, history, CountersAgree
<1>4. (JobInHand /\ SentIsReported /\ RoomToMerge)'
  BY <1>0
    DEF DropWorker, thread, JobInHand, Processing, SentIsReported, RoomToMerge
<1> QED  BY <1>1, <1>2, <1>3, <1>4 DEF WorkerInv

(* The thread's steps. *)

LEMMA WorkerStepKeeps ==
  ASSUME WorkerInv, WorkerStep
  PROVE  WorkerInv'
<1>0. WorkerTypeOK /\ AtMostOneLate /\ CountersAgree /\ JobInHand
      /\ SentIsReported /\ DecidedWhileEnabled /\ RoomToMerge
  BY DEF WorkerInv
<1>1. CASE Stop
  <2>1. WorkerTypeOK'
    BY <1>0, <1>1 DEF Stop, history, mailbox, WorkerTypeOK
  <2>2. (AtMostOneLate /\ DecidedWhileEnabled)'
    BY <1>0, <1>1 DEF Stop, history, mailbox, AtMostOneLate, DecidedWhileEnabled
  <2>3. CountersAgree'
    BY <1>0, <1>1 DEF Stop, history, mailbox, CountersAgree
  <2>4. (JobInHand /\ SentIsReported /\ RoomToMerge)'
    BY <1>0, <1>1 DEF Stop, JobInHand, Processing, SentIsReported, RoomToMerge
  <2> QED  BY <2>1, <2>2, <2>3, <2>4 DEF WorkerInv
<1>2. CASE Disconnect
  <2>1. WorkerTypeOK'
    BY <1>0, <1>2 DEF Disconnect, history, WorkerTypeOK
  <2>2. (AtMostOneLate /\ DecidedWhileEnabled)'
    BY <1>0, <1>2 DEF Disconnect, history, AtMostOneLate, DecidedWhileEnabled
  <2>3. CountersAgree'
    BY <1>0, <1>2 DEF Disconnect, history, CountersAgree
  <2>4. (JobInHand /\ SentIsReported /\ RoomToMerge)'
    BY <1>0, <1>2
      DEF Disconnect, JobInHand, Processing, SentIsReported, RoomToMerge
  <2> QED  BY <2>1, <2>2, <2>3, <2>4 DEF WorkerInv
<1>3. CASE BeginJob
  <2>1. WorkerTypeOK'
    BY <1>0, <1>3 DEF BeginJob, history, WorkerTypeOK
  <2>2. (AtMostOneLate /\ DecidedWhileEnabled)'
    BY <1>0, <1>3 DEF BeginJob, history, AtMostOneLate, DecidedWhileEnabled
  <2>3. CountersAgree'
    BY <1>0, <1>3 DEF BeginJob, history, CountersAgree
  <2>4. (JobInHand /\ SentIsReported /\ RoomToMerge)'
    BY <1>0, <1>3 DEF BeginJob, JobInHand, SentIsReported, RoomToMerge
  <2> QED  BY <2>1, <2>2, <2>3, <2>4 DEF WorkerInv
<1>4. CASE Gate
  <2>1. WorkerTypeOK'
    BY <1>0, <1>4 DEF Gate, history, mailbox, WorkerTypeOK
  <2>2. (AtMostOneLate /\ DecidedWhileEnabled)'
    BY <1>0, <1>4 DEF Gate, history, mailbox, AtMostOneLate, DecidedWhileEnabled
  <2>3. CountersAgree'
    BY <1>0, <1>4 DEF Gate, history, mailbox, CountersAgree
  <2>4. (JobInHand /\ SentIsReported /\ RoomToMerge)'
    BY <1>0, <1>4
      DEF Gate, mailbox, JobInHand, Processing, SentIsReported, RoomToMerge
  <2> QED  BY <2>1, <2>2, <2>3, <2>4 DEF WorkerInv
<1>5. CASE Connect
  <2>1. WorkerTypeOK'
    BY <1>0, <1>5 DEF Connect, history, mailbox, WorkerTypeOK
  <2>2. (AtMostOneLate /\ DecidedWhileEnabled)'
    BY <1>0, <1>5
      DEF Connect, history, mailbox, AtMostOneLate, DecidedWhileEnabled
  <2>3. CountersAgree'
    BY <1>0, <1>5 DEF Connect, history, mailbox, CountersAgree
  <2>4. (JobInHand /\ SentIsReported /\ RoomToMerge)'
    BY <1>0, <1>5
      DEF Connect, mailbox, JobInHand, Processing, SentIsReported, RoomToMerge
  <2> QED  BY <2>1, <2>2, <2>3, <2>4 DEF WorkerInv
<1>6. CASE Check
  <2>1. WorkerTypeOK'
    BY <1>0, <1>6 DEF Check, history, mailbox, WorkerTypeOK
  <2>2. (AtMostOneLate /\ DecidedWhileEnabled)'
    BY <1>0, <1>6
      DEF Check, Current, history, mailbox, AtMostOneLate, DecidedWhileEnabled
  <2>3. CountersAgree'
    BY <1>0, <1>6 DEF Check, history, mailbox, CountersAgree
  <2>4. (JobInHand /\ SentIsReported /\ RoomToMerge)'
    BY <1>0, <1>6
      DEF Check, mailbox, JobInHand, Processing, SentIsReported, RoomToMerge
  <2> QED  BY <2>1, <2>2, <2>3, <2>4 DEF WorkerInv
<1>7. CASE Send
  <2>1. WorkerTypeOK'
    <3>1. (pending \in Epochs \cup {None})'
      BY <1>0, <1>7 DEF Send, mailbox, WorkerTypeOK
    <3>2. (result \in Result \cup {None})'
      BY <1>0, <1>7 DEF Send, mailbox, WorkerTypeOK
    <3>3. (latestEpoch \in Epochs)'
      BY <1>0, <1>7 DEF Send, mailbox, WorkerTypeOK
    <3>4. ({outputEnabled, disconnectRequested, stopping} \subseteq BOOLEAN)'
      BY <1>0, <1>7 DEF Send, mailbox, WorkerTypeOK
    <3>5. (wpc \in {"next", "gate", "connect", "check", "send", "report",
                   "stopped"})'
      BY <1>7 DEF Send
    <3>6. (job \in Epochs \cup {None})'
      BY <1>0, <1>7 DEF Send, WorkerTypeOK
    <3>7. (stopping => pending = None)'
      BY <1>0, <1>7 DEF Send, mailbox, WorkerTypeOK
    <3>8. ({rendered, failed, sent, connected} \subseteq BOOLEAN)'
      BY <1>0, <1>7 DEF Send, WorkerTypeOK
    <3>9. (late \in Nat /\ owed \in Nat)'
      BY <1>0, <1>7 DEF Send, WorkerTypeOK
    <3> QED  BY <3>1, <3>2, <3>3, <3>4, <3>5, <3>6, <3>7, <3>8, <3>9
               DEF WorkerTypeOK
  <2>2. (AtMostOneLate /\ DecidedWhileEnabled)'
    BY <1>0, <1>7 DEF Send, mailbox, AtMostOneLate, DecidedWhileEnabled
  <2>3. CountersAgree'
    BY <1>0, <1>7
      DEF Send, mailbox, CountersAgree, WorkerTypeOK, SentIsReported, Result
  <2>4. (JobInHand /\ SentIsReported /\ RoomToMerge)'
    BY <1>0, <1>7
      DEF Send, mailbox, JobInHand, Processing, SentIsReported, RoomToMerge
  <2> QED  BY <2>1, <2>2, <2>3, <2>4 DEF WorkerInv
<1>8. CASE Report
  <2>a. Rendered \in Result
    BY <1>0, <1>8, RenderBoundsAssumption
      DEF Rendered, Result, Report, WorkerTypeOK, JobInHand, Processing
  <2>c. ASSUME result # None
        PROVE  /\ Merged(Rendered, result) \in Result
               /\ Merged(Rendered, result).sent = Rendered.sent + result.sent
    <3>1. /\ result \in Result /\ result.sent < MaxMerged
          /\ Rendered.sent \in 0..1
      BY <1>0, <1>8, <2>c
        DEF Report, Rendered, WorkerTypeOK, RoomToMerge, Processing
    <3>2. ASSUME NEW n \in 0..MaxMerged, NEW b \in BOOLEAN
          PROVE  /\ [Rendered EXCEPT !.sent = n, !.failed = b] \in Result
                 /\ [Rendered EXCEPT !.sent = n, !.failed = b].sent = n
      BY <2>a DEF Result
    <3>3. Rendered.sent + result.sent \in 0..MaxMerged
      BY <3>1, RenderBoundsAssumption DEF Result
    <3> QED  BY <3>2, <3>3, Zenon DEF Merged
  <2>1. WorkerTypeOK'
    <3>1. (pending \in Epochs \cup {None})'
      BY <1>0, <1>8 DEF Report, WorkerTypeOK
    <3>2. (result \in Result \cup {None})'
      BY <1>8, <2>a, <2>c DEF Report
    <3>3. (latestEpoch \in Epochs)'
      BY <1>0, <1>8 DEF Report, WorkerTypeOK
    <3>4. ({outputEnabled, disconnectRequested, stopping} \subseteq BOOLEAN)'
      BY <1>0, <1>8 DEF Report, WorkerTypeOK
    <3>5. (wpc \in {"next", "gate", "connect", "check", "send", "report",
                   "stopped"})'
      BY <1>8 DEF Report
    <3>6. (job \in Epochs \cup {None})'
      BY <1>8 DEF Report
    <3>7. (stopping => pending = None)'
      BY <1>0, <1>8 DEF Report, WorkerTypeOK
    <3>8. ({rendered, failed, sent, connected} \subseteq BOOLEAN)'
      BY <1>0, <1>8 DEF Report, WorkerTypeOK
    <3>9. (late \in Nat /\ owed \in Nat)'
      BY <1>0, <1>8 DEF Report, history, WorkerTypeOK
    <3> QED  BY <3>1, <3>2, <3>3, <3>4, <3>5, <3>6, <3>7, <3>8, <3>9
               DEF WorkerTypeOK
  <2>2. (AtMostOneLate /\ DecidedWhileEnabled)'
    BY <1>0, <1>8 DEF Report, history, AtMostOneLate, DecidedWhileEnabled
  <2>3. CountersAgree'
    <3>1. Rendered.sent = IF sent THEN 1 ELSE 0
      BY DEF Rendered
    <3>2. /\ ~sent' /\ owed' = owed /\ result' # None
          /\ result'.sent = Rendered.sent
                            + (IF result = None THEN 0 ELSE result.sent)
      BY <1>8, <2>a, <2>c, NoneAssumption DEF Report, history, Result
    <3> QED
      BY <1>0, <3>1, <3>2 DEF CountersAgree
  <2>4. (JobInHand /\ SentIsReported /\ RoomToMerge)'
    BY <1>8 DEF Report, JobInHand, Processing, SentIsReported, RoomToMerge
  <2> QED  BY <2>1, <2>2, <2>3, <2>4 DEF WorkerInv
<1> QED
  BY <1>1, <1>2, <1>3, <1>4, <1>5, <1>6, <1>7, <1>8 DEF WorkerStep

LEMMA WorkerRests ==
  ASSUME WorkerInv, UNCHANGED workerVars
  PROVE  WorkerInv'
<1>0. WorkerInv /\ UNCHANGED <<mailbox, thread, history>>
  BY DEF workerVars
<1>1. WorkerTypeOK'
  BY <1>0 DEF WorkerInv, thread, mailbox, history, WorkerTypeOK
<1>2. AtMostOneLate'
  BY <1>0 DEF WorkerInv, history, AtMostOneLate
<1>3. CountersAgree'
  BY <1>0 DEF WorkerInv, thread, mailbox, history, CountersAgree
<1>4. JobInHand'
  BY <1>0 DEF WorkerInv, thread, JobInHand, Processing
<1>5. SentIsReported'
  BY <1>0 DEF WorkerInv, thread, SentIsReported
<1>6. DecidedWhileEnabled'
  BY <1>0 DEF WorkerInv, thread, mailbox, history, DecidedWhileEnabled
<1>7. RoomToMerge'
  BY <1>0 DEF WorkerInv, thread, mailbox, RoomToMerge, Processing
<1> QED  BY <1>1, <1>2, <1>3, <1>4, <1>5, <1>6, <1>7 DEF WorkerInv

LEMMA PollIsBoolean ==
  ASSUME AppTypeOK, PollResult
  PROVE  outdated' \in BOOLEAN
<1>1. CASE Accepts /\ result.rendered
  <2>1. (result.epoch < scene) \in BOOLEAN
    OBVIOUS
  <2>2. outdated' = (result.epoch < scene)
    BY <1>1 DEF PollResult
  <2> QED  BY <2>1, <2>2, Zenon
<1>2. CASE ~(Accepts /\ result.rendered)
  <2>1. outdated' = outdated
    BY <1>2 DEF PollResult
  <2> QED  BY <2>1 DEF AppTypeOK
<1> QED  BY <1>1, <1>2

LEMMA InitPipeline == Init => PipelineOrder
<1> SUFFICES ASSUME Init PROVE PipelineOrder
  OBVIOUS
<1>1. WorkerInv
  BY InitWorker DEF Init
<1>2. TypeOK
  <2>1. {repaint, tick, running, wanted, test, outdated} \subseteq BOOLEAN
    BY DEF Init, ClockNew
  <2>2. epoch \in Epochs /\ latestEpoch <= epoch
    BY RenderBoundsAssumption DEF Init, WorkerInit, Epochs
  <2> QED  BY <1>1, <2>1, <2>2 DEF Init, WorkerInv, TypeOK, AppTypeOK
<1>3. StoppedByQuit /\ EpochToSpare /\ Collects
  BY RenderBoundsAssumption
    DEF Init, WorkerInit, StoppedByQuit, EpochToSpare, Room, Collects,
        Processing
<1>4. SceneIsPast /\ PreviewIsCurrent
  BY RenderBoundsAssumption DEF Init, SceneIsPast, PreviewIsCurrent, Epochs
<1> QED  BY <1>1, <1>2, <1>3, <1>4 DEF PipelineOrder

LEMMA NextPipeline == PipelineOrder /\ [Next]_vars => PipelineOrder'
<1> SUFFICES ASSUME PipelineOrder, [Next]_vars PROVE PipelineOrder'
  OBVIOUS
<1>0. /\ AppTypeOK /\ WorkerInv /\ WorkerTypeOK
      /\ StoppedByQuit /\ EpochToSpare
      /\ Collects /\ SceneIsPast /\ PreviewIsCurrent
  BY DEF PipelineOrder, TypeOK
<1>1. CASE RequestDiscovered
  <2>0. WorkerInv'
    BY <1>0, <1>1, DisconnectOutputKeeps, SubmitKeeps, WorkerRests
      DEF RequestDiscovered, RequestForced, RequestUnselected, Stops,
          RequestNoFrames, RequestSubmit, Publishes, AppTypeOK, StoppedByQuit
  <2>1. AppTypeOK'
    <3>1. (epoch \in Epochs /\ latestEpoch <= epoch)'
      BY <1>0, <1>1, RenderBoundsAssumption
        DEF RequestDiscovered, RequestForced, RequestUnselected, Stops,
            ClockUpdate, Invalidate, Unused, DisconnectOutput,
            RequestNoFrames, RequestSubmit, Submit, workerVars, mailbox,
            AppTypeOK, Epochs, EpochToSpare, Room
    <3>2. (fingerprint \in BOOLEAN \cup {None})'
      BY <1>0, <1>1
        DEF RequestDiscovered, RequestForced, RequestUnselected, Stops,
            Invalidate, RequestNoFrames, RequestSubmit, Publishes, AppTypeOK
    <3>3. (/\ {repaint, tick, running, wanted, test, outdated} \subseteq BOOLEAN
           /\ sources \in {"unselected", "lacking", "whole"})'
      BY <1>0, <1>1
        DEF RequestDiscovered, RequestForced, RequestUnselected, Stops,
            ClockStop, ClockUpdate, RequestNoFrames, RequestSubmit, past,
            AppTypeOK
    <3> QED
      BY <1>1, <3>1, <3>2, <3>3 DEF RequestDiscovered, RequestForced, AppTypeOK
  <2>2. (StoppedByQuit /\ EpochToSpare /\ SceneIsPast /\ PreviewIsCurrent)'
    BY <1>0, <1>1
      DEF RequestDiscovered, RequestForced, RequestUnselected, Stops,
          ClockUpdate, Invalidate, DisconnectOutput, RequestNoFrames,
          RequestSubmit, Submit, workerVars, mailbox, past, StoppedByQuit,
          EpochToSpare, SceneIsPast, PreviewIsCurrent, AppTypeOK, Epochs
  <2>3. Collects'
    BY <1>1 DEF RequestDiscovered, RequestForced, Collects
  <2> QED
    BY <2>0, <2>1, <2>2, <2>3 DEF PipelineOrder, TypeOK, WorkerInv
<1>2. CASE RequestCommanded
  <2>0. WorkerInv'
    BY <1>0, <1>2, DisconnectOutputKeeps, SubmitKeeps, WorkerRests
      DEF RequestCommanded, RequestForced, RequestUnselected, Stops,
          RequestNoFrames, RequestSubmit, Publishes, AppTypeOK, StoppedByQuit
  <2>1. AppTypeOK'
    <3>1. (epoch \in Epochs /\ latestEpoch <= epoch)'
      BY <1>0, <1>2, RenderBoundsAssumption
        DEF RequestCommanded, RequestForced, RequestUnselected, Stops,
            ClockUpdate, Invalidate, Unused, DisconnectOutput,
            RequestNoFrames, RequestSubmit, Submit, workerVars, mailbox,
            AppTypeOK, Epochs, EpochToSpare, Room
    <3>2. (fingerprint \in BOOLEAN \cup {None})'
      BY <1>0, <1>2
        DEF RequestCommanded, RequestForced, RequestUnselected, Stops,
            Invalidate, RequestNoFrames, RequestSubmit, Publishes, AppTypeOK
    <3>3. (/\ {repaint, tick, running, wanted, test, outdated} \subseteq BOOLEAN
           /\ sources \in {"unselected", "lacking", "whole"})'
      BY <1>0, <1>2
        DEF RequestCommanded, RequestForced, RequestUnselected, Stops,
            ClockStop, ClockUpdate, RequestNoFrames, RequestSubmit, past,
            AppTypeOK
    <3> QED
      BY <1>2, <3>1, <3>2, <3>3 DEF RequestCommanded, RequestForced, AppTypeOK
  <2>2. (StoppedByQuit /\ EpochToSpare /\ SceneIsPast /\ PreviewIsCurrent)'
    BY <1>0, <1>2
      DEF RequestCommanded, RequestForced, RequestUnselected, Stops,
          ClockUpdate, Invalidate, DisconnectOutput, RequestNoFrames,
          RequestSubmit, Submit, workerVars, mailbox, past, StoppedByQuit,
          EpochToSpare, SceneIsPast, PreviewIsCurrent, AppTypeOK, Epochs
  <2>3. Collects'
    BY <1>0, <1>2
      DEF RequestCommanded, RequestForced, RequestUnselected, Stops,
          DisconnectOutput, RequestNoFrames, RequestSubmit, workerVars,
          mailbox, thread, Collects, Processing
  <2> QED
    BY <2>0, <2>1, <2>2, <2>3 DEF PipelineOrder, TypeOK, WorkerInv
<1>3. CASE PollDiscovered
  <2>0. WorkerInv'
    BY <1>0, <1>3, TakeResultKeeps DEF PollDiscovered, PollResult
  <2>1. AppTypeOK'
    <3>1. outdated' \in BOOLEAN
      BY <1>0, <1>3, PollIsBoolean DEF PollDiscovered
    <3>2. ({repaint, tick, running, wanted, test} \subseteq BOOLEAN)'
      BY <1>0, <1>3 DEF PollDiscovered, PollResult, AppTypeOK
    <3>3. (/\ sources \in {"unselected", "lacking", "whole"}
           /\ fingerprint \in BOOLEAN \cup {None}
           /\ epoch \in Epochs /\ latestEpoch <= epoch)'
      BY <1>0, <1>3 DEF PollDiscovered, PollResult, TakeResult, AppTypeOK
    <3>4. (apc \in {"asleep", "discovered", "poll", "passed", "drive", "tick",
                    "schedule", "requesting", "quit"})'
      BY <1>3 DEF PollDiscovered, PollResult
    <3> QED  BY <3>1, <3>2, <3>3, <3>4 DEF AppTypeOK
  <2>2. (StoppedByQuit /\ EpochToSpare /\ SceneIsPast)'
    BY <1>0, <1>3
      DEF PollDiscovered, PollResult, TakeResult, StoppedByQuit, EpochToSpare,
          SceneIsPast
  <2>3. Collects'
    BY <1>3 DEF PollDiscovered, PollResult, Collects
  <2>4. PreviewIsCurrent'
    BY <1>0, <1>3
      DEF PollDiscovered, PollResult, Accepts, PreviewIsCurrent, SceneIsPast,
          Epochs, AppTypeOK
  <2> QED
    BY <2>0, <2>1, <2>2, <2>3, <2>4 DEF PipelineOrder, TypeOK, WorkerInv
<1>4. CASE DisconnectPassed
  <2>0. WorkerInv'
    BY <1>0, <1>4, DisconnectOutputKeeps DEF DisconnectPassed
  <2>1. AppTypeOK'
    BY <1>0, <1>4 DEF DisconnectPassed, DisconnectOutput, app, past, AppTypeOK
  <2>2. (StoppedByQuit /\ EpochToSpare /\ SceneIsPast /\ PreviewIsCurrent)'
    BY <1>0, <1>4
      DEF DisconnectPassed, DisconnectOutput, app, past, StoppedByQuit,
          EpochToSpare, SceneIsPast, PreviewIsCurrent
  <2>3. Collects'
    BY <1>4 DEF DisconnectPassed, Collects
  <2> QED
    BY <2>0, <2>1, <2>2, <2>3 DEF PipelineOrder, TypeOK, WorkerInv
<1>5. CASE DriveWait
  <2>0. WorkerInv'
    BY <1>0, <1>5, WorkerRests DEF DriveWait
  <2>1. AppTypeOK'
    BY <1>0, <1>5 DEF DriveWait, workerVars, mailbox, app, past, AppTypeOK
  <2>2. (StoppedByQuit /\ EpochToSpare /\ SceneIsPast /\ PreviewIsCurrent)'
    BY <1>0, <1>5
      DEF DriveWait, workerVars, mailbox, app, past, StoppedByQuit,
          EpochToSpare, SceneIsPast, PreviewIsCurrent
  <2>3. Collects'
    BY <1>5 DEF DriveWait, Collects
  <2> QED
    BY <2>0, <2>1, <2>2, <2>3 DEF PipelineOrder, TypeOK, WorkerInv
<1>6. CASE DriveSubmit
  <2>0. WorkerInv'
    BY <1>0, <1>6, SubmitKeeps DEF DriveSubmit, AppTypeOK, StoppedByQuit
  <2>1. AppTypeOK'
    BY <1>0, <1>6 DEF DriveSubmit, Submit, app, past, AppTypeOK, Epochs
  <2>2. (StoppedByQuit /\ EpochToSpare /\ SceneIsPast /\ PreviewIsCurrent)'
    BY <1>0, <1>6
      DEF DriveSubmit, Submit, app, past, StoppedByQuit, EpochToSpare,
          SceneIsPast, PreviewIsCurrent
  <2>3. Collects'
    BY <1>6 DEF DriveSubmit, Collects
  <2> QED
    BY <2>0, <2>1, <2>2, <2>3 DEF PipelineOrder, TypeOK, WorkerInv
<1>7. CASE DriveTimeOut
  <2>0. WorkerInv'
    BY <1>0, <1>7, DisconnectOutputKeeps DEF DriveTimeOut
  <2>1. AppTypeOK'
    BY <1>0, <1>7 DEF DriveTimeOut, DisconnectOutput, past, AppTypeOK
  <2>2. (StoppedByQuit /\ EpochToSpare /\ SceneIsPast /\ PreviewIsCurrent)'
    BY <1>0, <1>7
      DEF DriveTimeOut, DisconnectOutput, past, StoppedByQuit, EpochToSpare,
          SceneIsPast, PreviewIsCurrent
  <2>3. Collects'
    BY <1>7 DEF DriveTimeOut, Collects
  <2> QED
    BY <2>0, <2>1, <2>2, <2>3 DEF PipelineOrder, TypeOK, WorkerInv
<1>8. CASE NoTick
  <2>0. WorkerInv'
    BY <1>0, <1>8, WorkerRests DEF NoTick
  <2>1. AppTypeOK'
    BY <1>0, <1>8 DEF NoTick, workerVars, mailbox, app, past, AppTypeOK
  <2>2. (StoppedByQuit /\ EpochToSpare /\ SceneIsPast /\ PreviewIsCurrent)'
    BY <1>0, <1>8
      DEF NoTick, workerVars, mailbox, app, past, StoppedByQuit, EpochToSpare,
          SceneIsPast, PreviewIsCurrent
  <2>3. Collects'
    BY <1>8 DEF NoTick, Collects
  <2> QED
    BY <2>0, <2>1, <2>2, <2>3 DEF PipelineOrder, TypeOK, WorkerInv
<1>9. CASE TickNoFrames
  <2>0. WorkerInv'
    BY <1>0, <1>9, DisconnectOutputKeeps, WorkerRests
      DEF TickNoFrames, RequestTicked, RequestNoFrames
  <2>1. AppTypeOK'
    BY <1>0, <1>9
      DEF TickNoFrames, RequestTicked, TakeTick, RequestNoFrames,
          DisconnectOutput, workerVars, mailbox, past, AppTypeOK
  <2>2. (StoppedByQuit /\ EpochToSpare /\ SceneIsPast /\ PreviewIsCurrent)'
    BY <1>0, <1>9
      DEF TickNoFrames, RequestTicked, RequestNoFrames, DisconnectOutput,
          workerVars, mailbox, past, StoppedByQuit, EpochToSpare, SceneIsPast,
          PreviewIsCurrent
  <2>3. Collects'
    BY <1>9 DEF TickNoFrames, RequestTicked, Collects
  <2> QED
    BY <2>0, <2>1, <2>2, <2>3 DEF PipelineOrder, TypeOK, WorkerInv
<1>10. CASE TickSame
  <2>0. WorkerInv'
    BY <1>0, <1>10, WorkerRests DEF TickSame, RequestTicked, RequestSame
  <2>1. AppTypeOK'
    BY <1>0, <1>10
      DEF TickSame, RequestTicked, TakeTick, RequestSame, workerVars, mailbox,
          past, AppTypeOK
  <2>2. (StoppedByQuit /\ EpochToSpare /\ SceneIsPast /\ PreviewIsCurrent)'
    BY <1>0, <1>10
      DEF TickSame, RequestTicked, RequestSame, workerVars, mailbox, past,
          StoppedByQuit, EpochToSpare, SceneIsPast, PreviewIsCurrent
  <2>3. Collects'
    BY <1>10 DEF TickSame, RequestTicked, Collects
  <2> QED
    BY <2>0, <2>1, <2>2, <2>3 DEF PipelineOrder, TypeOK, WorkerInv
<1>11. CASE TickSubmit
  <2>0. WorkerInv'
    BY <1>0, <1>11, SubmitKeeps
      DEF TickSubmit, RequestTicked, RequestSubmit, Publishes, AppTypeOK,
          StoppedByQuit
  <2>1. AppTypeOK'
    <3>1. (epoch \in Epochs /\ latestEpoch <= epoch)'
      BY <1>0, <1>11
        DEF TickSubmit, RequestTicked, RequestSubmit, Submit, AppTypeOK,
            Epochs
    <3>2. (fingerprint \in BOOLEAN \cup {None})'
      BY <1>11 DEF TickSubmit, RequestTicked, RequestSubmit, Publishes
    <3>3. (/\ {repaint, tick, running, wanted, test, outdated} \subseteq BOOLEAN
           /\ sources \in {"unselected", "lacking", "whole"})'
      BY <1>0, <1>11
        DEF TickSubmit, RequestTicked, TakeTick, RequestSubmit, past,
            AppTypeOK
    <3> QED
      BY <1>11, <3>1, <3>2, <3>3 DEF TickSubmit, RequestTicked, AppTypeOK
  <2>2. (StoppedByQuit /\ EpochToSpare /\ SceneIsPast /\ PreviewIsCurrent)'
    BY <1>0, <1>11
      DEF TickSubmit, RequestTicked, RequestSubmit, Submit, past,
          StoppedByQuit, EpochToSpare, SceneIsPast, PreviewIsCurrent
  <2>3. Collects'
    BY <1>11 DEF TickSubmit, RequestTicked, Collects
  <2> QED
    BY <2>0, <2>1, <2>2, <2>3 DEF PipelineOrder, TypeOK, WorkerInv
<1>12. CASE ScheduleRepaint
  <2>0. WorkerInv'
    BY <1>0, <1>12, WorkerRests DEF ScheduleRepaint
  <2>1. AppTypeOK'
    BY <1>0, <1>12
      DEF ScheduleRepaint, workerVars, mailbox, app, past, AppTypeOK
  <2>2. (StoppedByQuit /\ EpochToSpare /\ SceneIsPast /\ PreviewIsCurrent)'
    BY <1>0, <1>12
      DEF ScheduleRepaint, workerVars, mailbox, app, past, StoppedByQuit,
          EpochToSpare, SceneIsPast, PreviewIsCurrent
  <2>3. Collects'
    BY <1>12
      DEF ScheduleRepaint, HasWork, workerVars, mailbox, thread, Collects,
          Processing
  <2> QED
    BY <2>0, <2>1, <2>2, <2>3 DEF PipelineOrder, TypeOK, WorkerInv
<1>13. CASE BeginFrame
  <2>0. WorkerInv'
    BY <1>0, <1>13, TakeResultKeeps, WorkerRests
      DEF BeginFrame, Discovered, PollResult
  <2>1. AppTypeOK'
    <3>1. outdated' \in BOOLEAN
      BY <1>0, <1>13, PollIsBoolean DEF BeginFrame, Discovered, past, AppTypeOK
    <3>2. ({repaint, tick, running, wanted, test} \subseteq BOOLEAN)'
      BY <1>0, <1>13 DEF BeginFrame, PollResult, Discovered, AppTypeOK
    <3>3. (/\ sources \in {"unselected", "lacking", "whole"}
           /\ fingerprint \in BOOLEAN \cup {None}
           /\ epoch \in Epochs /\ latestEpoch <= epoch)'
      BY <1>0, <1>13, RenderBoundsAssumption
        DEF BeginFrame, Discovered, PollResult, TakeResult, Invalidate,
            Unused, Room, workerVars, mailbox, AppTypeOK, Epochs
    <3>4. (apc \in {"asleep", "discovered", "poll", "passed", "drive", "tick",
                    "schedule", "requesting", "quit"})'
      BY <1>13 DEF BeginFrame, Discovered, PollResult
    <3> QED  BY <3>1, <3>2, <3>3, <3>4 DEF AppTypeOK
  <2>2. (StoppedByQuit /\ EpochToSpare /\ SceneIsPast)'
    BY <1>0, <1>13
      DEF BeginFrame, Discovered, PollResult, TakeResult, Invalidate, Unused,
          Room, workerVars, mailbox, past, StoppedByQuit, EpochToSpare,
          SceneIsPast, AppTypeOK, Epochs
  <2>3. Collects'
    BY <1>13 DEF BeginFrame, Discovered, PollResult, Collects
  <2>4. PreviewIsCurrent'
    BY <1>0, <1>13
      DEF BeginFrame, Discovered, PollResult, Accepts, past, PreviewIsCurrent,
          SceneIsPast, Epochs, AppTypeOK
  <2> QED
    BY <2>0, <2>1, <2>2, <2>3, <2>4 DEF PipelineOrder, TypeOK, WorkerInv
<1>14. CASE StartStreaming
  <2>0. WorkerInv'
    BY <1>0, <1>14, WorkerRests DEF StartStreaming
  <2>1. AppTypeOK'
    BY <1>0, <1>14
      DEF StartStreaming, ClockStart, ClockUpdate, workerVars, mailbox, past,
          AppTypeOK
  <2>2. (StoppedByQuit /\ EpochToSpare /\ SceneIsPast /\ PreviewIsCurrent)'
    BY <1>0, <1>14
      DEF StartStreaming, workerVars, mailbox, past, StoppedByQuit,
          EpochToSpare, SceneIsPast, PreviewIsCurrent
  <2>3. Collects'
    BY <1>0, <1>14
      DEF StartStreaming, workerVars, mailbox, thread, Collects, Processing
  <2> QED
    BY <2>0, <2>1, <2>2, <2>3 DEF PipelineOrder, TypeOK, WorkerInv
<1>15. CASE Render
  <2>0. WorkerInv'
    BY <1>0, <1>15, WorkerRests DEF Render
  <2>1. AppTypeOK'
    BY <1>0, <1>15 DEF Render, workerVars, mailbox, app, past, AppTypeOK
  <2>2. (StoppedByQuit /\ EpochToSpare /\ SceneIsPast /\ PreviewIsCurrent)'
    BY <1>0, <1>15
      DEF Render, workerVars, mailbox, app, past, StoppedByQuit, EpochToSpare,
          SceneIsPast, PreviewIsCurrent
  <2>3. Collects'
    BY <1>0, <1>15 DEF Render, workerVars, mailbox, thread, Collects, Processing
  <2> QED
    BY <2>0, <2>1, <2>2, <2>3 DEF PipelineOrder, TypeOK, WorkerInv
<1>16. CASE StopStreaming
  <2>0. WorkerInv'
    BY <1>0, <1>16, DisconnectOutputKeeps DEF StopStreaming, Stops
  <2>1. AppTypeOK'
    <3>1. (epoch \in Epochs /\ latestEpoch <= epoch)'
      BY <1>0, <1>16, RenderBoundsAssumption
        DEF StopStreaming, Stops, Invalidate, Unused, Room, DisconnectOutput,
            AppTypeOK, Epochs
    <3>2. (fingerprint \in BOOLEAN \cup {None})'
      BY <1>16 DEF StopStreaming, Stops, Invalidate
    <3>3. (/\ {repaint, tick, running, wanted, test, outdated} \subseteq BOOLEAN
           /\ sources \in {"unselected", "lacking", "whole"})'
      BY <1>0, <1>16
        DEF StopStreaming, Stops, ClockStop, ClockUpdate, past, AppTypeOK
    <3> QED
      BY <1>16, <3>1, <3>2, <3>3 DEF StopStreaming, AppTypeOK
  <2>2. (StoppedByQuit /\ EpochToSpare /\ SceneIsPast /\ PreviewIsCurrent)'
    BY <1>0, <1>16
      DEF StopStreaming, Stops, Invalidate, DisconnectOutput, past,
          StoppedByQuit, EpochToSpare, SceneIsPast, PreviewIsCurrent,
          AppTypeOK, Epochs
  <2>3. Collects'
    BY <1>0, <1>16
      DEF StopStreaming, Stops, DisconnectOutput, thread, Collects, Processing
  <2> QED
    BY <2>0, <2>1, <2>2, <2>3 DEF PipelineOrder, TypeOK, WorkerInv
<1>17. CASE SetVirtualOutput
  <2>0. WorkerInv'
    BY <1>0, <1>17, DisconnectOutputKeeps, WorkerRests DEF SetVirtualOutput
  <2>1. AppTypeOK'
    BY <1>0, <1>17
      DEF SetVirtualOutput, DisconnectOutput, workerVars, mailbox, past,
          AppTypeOK
  <2>2. (StoppedByQuit /\ EpochToSpare /\ SceneIsPast /\ PreviewIsCurrent)'
    BY <1>0, <1>17
      DEF SetVirtualOutput, DisconnectOutput, workerVars, mailbox, past,
          StoppedByQuit, EpochToSpare, SceneIsPast, PreviewIsCurrent
  <2>3. Collects'
    BY <1>0, <1>17
      DEF SetVirtualOutput, DisconnectOutput, workerVars, mailbox, thread,
          Collects, Processing
  <2> QED
    BY <2>0, <2>1, <2>2, <2>3 DEF PipelineOrder, TypeOK, WorkerInv
<1>18. CASE RefreshScene
  <2>0. WorkerInv'
    BY <1>0, <1>18, WorkerRests DEF RefreshScene
  <2>1. AppTypeOK'
    BY <1>0, <1>18, RenderBoundsAssumption
      DEF RefreshScene, Invalidate, Unused, Room, workerVars, mailbox,
          AppTypeOK, Epochs
  <2>2. (StoppedByQuit /\ EpochToSpare /\ SceneIsPast /\ PreviewIsCurrent)'
    BY <1>0, <1>18, RenderBoundsAssumption
      DEF RefreshScene, Invalidate, Unused, Room, workerVars, mailbox,
          StoppedByQuit, EpochToSpare, SceneIsPast, PreviewIsCurrent,
          AppTypeOK, Epochs
  <2>3. Collects'
    BY <1>0, <1>18
      DEF RefreshScene, workerVars, mailbox, thread, Collects, Processing
  <2> QED
    BY <2>0, <2>1, <2>2, <2>3 DEF PipelineOrder, TypeOK, WorkerInv
<1>19. CASE StartTest
  <2>0. WorkerInv'
    BY <1>0, <1>19, SubmitKeeps DEF StartTest, AppTypeOK, StoppedByQuit
  <2>1. AppTypeOK'
    BY <1>0, <1>19 DEF StartTest, Submit, past, AppTypeOK, Epochs
  <2>2. (StoppedByQuit /\ EpochToSpare /\ SceneIsPast /\ PreviewIsCurrent)'
    BY <1>0, <1>19
      DEF StartTest, Submit, past, StoppedByQuit, EpochToSpare, SceneIsPast,
          PreviewIsCurrent
  <2>3. Collects'
    BY <1>19 DEF StartTest, Collects
  <2> QED
    BY <2>0, <2>1, <2>2, <2>3 DEF PipelineOrder, TypeOK, WorkerInv
<1>20. CASE CancelTest
  <2>0. WorkerInv'
    BY <1>0, <1>20, DisconnectOutputKeeps DEF CancelTest
  <2>1. AppTypeOK'
    <3>1. (epoch \in Epochs /\ latestEpoch <= epoch)'
      BY <1>0, <1>20, RenderBoundsAssumption
        DEF CancelTest, Invalidate, Unused, Room, DisconnectOutput, AppTypeOK,
            Epochs
    <3>2. (fingerprint \in BOOLEAN \cup {None})'
      BY <1>20 DEF CancelTest, Invalidate
    <3>3. (/\ {repaint, tick, running, wanted, test, outdated} \subseteq BOOLEAN
           /\ sources \in {"unselected", "lacking", "whole"})'
      BY <1>0, <1>20 DEF CancelTest, past, AppTypeOK
    <3> QED
      BY <1>20, <3>1, <3>2, <3>3 DEF CancelTest, AppTypeOK
  <2>2. (StoppedByQuit /\ EpochToSpare /\ SceneIsPast /\ PreviewIsCurrent)'
    BY <1>0, <1>20
      DEF CancelTest, Invalidate, Unused, Room, DisconnectOutput, past,
          StoppedByQuit, EpochToSpare, SceneIsPast, PreviewIsCurrent,
          AppTypeOK, Epochs
  <2>3. Collects'
    BY <1>0, <1>20
      DEF CancelTest, DisconnectOutput, thread, Collects, Processing
  <2> QED
    BY <2>0, <2>1, <2>2, <2>3 DEF PipelineOrder, TypeOK, WorkerInv
<1>21. CASE Quit
  <2>0. WorkerInv'
    BY <1>0, <1>21, DropWorkerKeeps DEF Quit
  <2>1. AppTypeOK'
    BY <1>0, <1>21 DEF Quit, DropWorker, app, past, AppTypeOK
  <2>2. (StoppedByQuit /\ EpochToSpare /\ SceneIsPast /\ PreviewIsCurrent)'
    BY <1>0, <1>21
      DEF Quit, app, past, StoppedByQuit, EpochToSpare, SceneIsPast,
          PreviewIsCurrent
  <2>3. Collects'
    BY <1>21 DEF Quit, Collects
  <2> QED
    BY <2>0, <2>1, <2>2, <2>3 DEF PipelineOrder, TypeOK, WorkerInv
<1>22. CASE ClockTick
  <2>0. WorkerInv'
    BY <1>0, <1>22, WorkerRests DEF ClockTick
  <2>1. AppTypeOK'
    BY <1>0, <1>22 DEF ClockTick, workerVars, mailbox, past, AppTypeOK
  <2>2. (StoppedByQuit /\ EpochToSpare /\ SceneIsPast /\ PreviewIsCurrent)'
    BY <1>0, <1>22
      DEF ClockTick, workerVars, mailbox, past, StoppedByQuit, EpochToSpare,
          SceneIsPast, PreviewIsCurrent, Room, Unused
  <2>3. Collects'
    BY <1>22 DEF ClockTick, Collects
  <2> QED
    BY <2>0, <2>1, <2>2, <2>3 DEF PipelineOrder, TypeOK, WorkerInv
<1>23. CASE Worker
  <2>0. WorkerInv'
    BY <1>0, <1>23, WorkerStepKeeps DEF Worker
  <2>1. AppTypeOK'
    BY <1>0, <1>23
      DEF Worker, WorkerStep, Stop, Disconnect, BeginJob, Gate, Connect,
          Check, Send, Report, mailbox, app, past, AppTypeOK
  <2>2. (StoppedByQuit /\ EpochToSpare /\ SceneIsPast /\ PreviewIsCurrent)'
    <3>1. UNCHANGED <<latestEpoch, stopping, apc, app>>
      BY <1>23
        DEF Worker, WorkerStep, Stop, Disconnect, BeginJob, Gate, Connect,
            Check, Send, Report, mailbox
    <3> QED  BY <1>0, <3>1
               DEF StoppedByQuit, EpochToSpare, SceneIsPast, PreviewIsCurrent,
                   Room, Unused, app, past
  <2>3. Collects'
    BY <1>0, <1>23
      DEF Worker, WorkerStep, Stop, Disconnect, BeginJob, Gate, Connect,
          Check, Send, Report, mailbox, Collects, Processing
  <2> QED
    BY <2>0, <2>1, <2>2, <2>3 DEF PipelineOrder, TypeOK, WorkerInv
<1>24. CASE UNCHANGED vars
  BY <1>24, WorkerRests
    DEF vars, workerVars, mailbox, thread, history, app, past, PipelineOrder,
        TypeOK, StoppedByQuit, EpochToSpare, Collects, SceneIsPast,
        PreviewIsCurrent, AppTypeOK, WorkerTypeOK, Processing, Room, Unused
<1> QED
  BY <1>1, <1>2, <1>3, <1>4, <1>5, <1>6, <1>7, <1>8, <1>9, <1>10, <1>11, <1>12,
     <1>13, <1>14, <1>15, <1>16, <1>17, <1>18, <1>19, <1>20, <1>21, <1>22,
     <1>23, <1>24
    DEF Next, AppStep, WakeUp, UserInput, Command

(* PipelineInv with what it rests on: the parts of PipelineOrder hold  *)
(* together in every state.                                                  *)
THEOREM PipelineInvariance == Spec => []PipelineOrder
<1> QED  BY InitPipeline, NextPipeline, PTL DEF Spec

(* The app, the thread and the result cell agree, with every number of       *)
(* epochs: one late frame at most, no counter lost, nothing forgotten, and   *)
(* no preview of an earlier scene.                                           *)
THEOREM PipelineInvHolds == Spec => []PipelineInv
<1>1. PipelineOrder => PipelineInv
  BY DEF PipelineOrder, WorkerInv, PipelineInv, Collects, NothingForgotten
<1> QED  BY PipelineInvariance, <1>1, PTL
=============================================================================
