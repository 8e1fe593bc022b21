-------------------------- MODULE ExtensionProcess --------------------------
(***************************************************************************)
(* The extension process around the stream source: how it comes to serve   *)
(* (extension/mod.rs run, create_extension), which clients it lets in      *)
(* (client_authorization.rs and the callbacks of extension/objects.rs,     *)
(* each contained by panic_boundary.rs), and what a worker of the stream   *)
(* sends them: the pixel buffers of its pool (extension/pixel_buffer.rs),  *)
(* uploaded from the frame the transport offers (FrameShapes) and held by  *)
(* the clients for as long as they like.                                   *)
(*                                                                         *)
(* The callbacks and the threads are StreamSource's.  The framework asks   *)
(* for authorization and starts and stops the stream; which client it does *)
(* so for is external.  When a sample is due, which flag goes with it and  *)
(* when a frame is stale belong to StreamPump: here a frame kept may turn  *)
(* stale in any iteration.  A buffer of the pool can always be locked.     *)
(***************************************************************************)
EXTENDS StreamSource, FrameShapes

CONSTANTS
  Clients,
  Signing,                \* what CMIO knows of a client: a function of Clients
  Buffers,                \* a pool's buffers: MAXIMUM_OUTSTANDING_BUFFERS of them
  NoBuffer,
  OutWidth, OutHeight,    \* VIRTUAL_CAMERA_WIDTH and VIRTUAL_CAMERA_HEIGHT
  OutStride,              \* bytes per row of a locked pixel buffer
  Frames,                 \* what a sink may be given
  Leftovers,              \* spool files of earlier boots
  Nothing,                \* no frame, no slot, no file
  Capacity,               \* of a slot: DEFAULT_SLOT_CAPACITY
  Regions,                \* objects found at the endpoint, this writer's or another's
  ReaderLimit,            \* default_frame_limits of this process
  Modes                   \* a subset of {"SharedMemory", "File"}

ASSUME BuffersAssumption == NoBuffer \notin Buffers
ASSUME StrideAssumption ==
  /\ OutWidth \in Nat /\ OutHeight \in Nat
  /\ OutStride \in Nat /\ OutStride >= OutWidth * BytesPerPixel

(* A Frame has passed FrameIsValid, the default capacity is one that maps,   *)
(* and a limit is a usize; of what lies on disk or in a region the fields    *)
(* are numbers, whatever they are.                                           *)
ASSUME MediumAssumption ==
  /\ \A f \in Frames :
       /\ f.width \in Nat \ {0} /\ f.height \in Nat \ {0}
       /\ Nothing \notin {f, SlotMetadata(f), SpoolFile(f)}
  /\ Capacity \in Nat /\ MappedLen(Capacity) # 0
  /\ ReaderLimit \in 1 .. WordMax
  /\ \A file \in Leftovers :
       file.width \in Nat /\ file.height \in Nat /\ file.length \in Nat
  /\ \A region \in Regions : region.capacity \in Nat

VARIABLES
  process,     \* of the extension: being set up, serving, exited
  access,      \* how far each client has come
  format,      \* the cached format description
  medium,      \* the transport: what it offers, and the frame that is of
  fresh,       \* what is offered is new to the running worker
  loop,        \* where each worker is in stream_samples
  last,        \* last_pixel_buffer of each worker
  held,        \* the buffers of each worker's pool that clients hold
  content,     \* what each buffer shows
  sample       \* what the last iteration of a worker came to

sourceVars == vars
clientVars == <<process, access, format>>
poolVars == <<loop, last, held, content, sample>>
all == <<sourceVars, clientVars, medium, fresh, poolVars>>

Shared == medium.mode = "SharedMemory"

ProcessInit ==
  /\ Init
  /\ process = "starting"
  /\ access = [k \in Clients |-> "away"]
  /\ format = "unknown"
  /\ \E mode \in Modes :
       \E left \in {Nothing} \cup (IF mode = "File" THEN Leftovers ELSE {}) :
         medium = [mode |-> mode, offer |-> left, frame |-> Nothing]
  /\ fresh = FALSE
  /\ loop = [w \in Workers |-> "out"]
  /\ last = [w \in Workers |-> NoBuffer]
  /\ held = [w \in Workers |-> {}]
  /\ content = [w \in Workers |-> [b \in Buffers |-> "old"]]
  /\ sample = "none"

-----------------------------------------------------------------------------
(* The process. *)

(* create_extension attaches the stream before CMIO is told of it. *)
AttachStream ==
  /\ process = "starting" /\ Attach
  /\ UNCHANGED <<clientVars, medium, fresh, poolVars>>

(* addStream, addDevice, startService; an error of the first two ends the run. *)
StartService ==
  /\ process = "starting" /\ state = "Ready"
  /\ process' \in {"serving", "exited"}
  /\ UNCHANGED <<sourceVars, access, format, medium, fresh, poolVars>>

(* External: the framework launches the extension again. *)
Relaunch ==
  /\ process = "exited" /\ process' = "starting"
  /\ state' = "Detached"
  /\ UNCHANGED <<mutex, streaming, handle, worker, pc, joining, overtaken, access,
                 format, medium, fresh, poolVars>>

-----------------------------------------------------------------------------
(* The clients, and the callbacks that decide about them. *)

(* authorize_client: a signing id that is there and not blank.  The pid is   *)
(* not looked at.                                                            *)
Authorized(k) == Signing[k] = "signed"

(* A callback that panics answers what its fallback does. *)
Decides(answer) == {answer} \cup (IF MayPanic THEN {FALSE} ELSE {})

ConnectClient(k) ==
  /\ process = "serving" /\ access[k] = "away"
  /\ \E yes \in Decides(Authorized(k)) :
       access' = [access EXCEPT ![k] = IF yes THEN "connected" ELSE "away"]
  /\ UNCHANGED <<sourceVars, process, format, medium, fresh, poolVars>>

AuthorizeStart(k) ==
  /\ process = "serving" /\ access[k] = "connected"
  /\ \E yes \in Decides(Authorized(k)) :
       access' = [access EXCEPT ![k] = IF yes THEN "authorized" ELSE "connected"]
  /\ UNCHANGED <<sourceVars, process, format, medium, fresh, poolVars>>

DisconnectClient(k) ==
  /\ access[k] # "away"
  /\ access' = [access EXCEPT ![k] = "away"]
  /\ UNCHANGED <<sourceVars, process, format, medium, fresh, poolVars>>

(* cached_video_format_description: the first answer is kept, None too. *)
Formats == IF format = "unknown" THEN {"made", "failed"} ELSE {format}

AskFormats ==
  /\ process = "serving"
  /\ format' \in Formats
  /\ UNCHANGED <<sourceVars, process, access, medium, fresh, poolVars>>

(* The framework starts the stream for a client it may start it for. *)
StartStream(c) ==
  /\ process = "serving"
  /\ \E k \in Clients : access[k] = "authorized"
  /\ EnterStart(c)
  /\ UNCHANGED <<clientVars, medium, fresh, poolVars>>

(* A panic in a callback before it has done anything included. *)
RunCallback(c) ==
  /\ process = "serving"
  /\ \/ StartOn(c) \/ BeginStop(c) \/ StopOn(c)
     \/ Panic(c) \/ PanicAfterReap(c) \/ Repair(c)
  /\ UNCHANGED <<clientVars, medium, fresh, poolVars>>

-----------------------------------------------------------------------------
(* The transport.  Sending is one step: what a reader may see of one that is *)
(* under way is SlotTransport's.                                             *)

SendFrame ==
  /\ \E f \in Frames :
       /\ IF Shared THEN SharedSinkAccepts(f, Capacity) ELSE SpoolAccepts(f)
       /\ medium' = [medium EXCEPT !.frame = f,
                                   !.offer = IF Shared THEN SlotMetadata(f) ELSE SpoolFile(f)]
  /\ fresh' = TRUE
  /\ UNCHANGED <<sourceVars, clientVars, poolVars>>

(* disconnect; the spool file stays. *)
WriterLeaves ==
  /\ Shared /\ medium.offer # Nothing
  /\ medium' = [medium EXCEPT !.frame = Nothing, !.offer = Nothing]
  /\ UNCHANGED <<sourceVars, clientVars, fresh, poolVars>>

(* The view a poll of the transport comes to, if any. *)
Views ==
  IF medium.offer = Nothing THEN {}
  ELSE IF Shared THEN SharedViews(medium.offer, Capacity)
                 ELSE SpoolViews(medium.offer, ReaderLimit)

-----------------------------------------------------------------------------
(* stream_samples *)

(* OutputPixelBufferPool::create_pixel_buffer: none beyond the threshold.  A *)
(* buffer comes back to the pool when nobody holds it any more.              *)
Free(w) == Buffers \ (held[w] \cup {last[w]})

(* The stream is retained and the pool made; the reader is new. *)
EnterLoop(w) ==
  /\ worker[w] = "running" /\ loop[w] = "out"
  /\ loop' = [loop EXCEPT ![w] = "in"]
  /\ fresh' = TRUE
  /\ sample' = "none"
  /\ UNCHANGED <<sourceVars, clientVars, medium, last, held, content>>

(* The flag is looked at before the sleep and after it. *)
FindDue(w) ==
  /\ worker[w] = "running" /\ loop[w] = "in" /\ streaming
  /\ loop' = [loop EXCEPT ![w] = "due"]
  /\ UNCHANGED <<sourceVars, clientVars, medium, fresh, last, held, content, sample>>

(* What a buffer shows after create_pixel_buffer has drawn a view into it, or *)
(* the placeholder in its stead: pixels nothing is drawn over are those of    *)
(* the sample it was before.                                                  *)
Drawing(view) ==
  IF ~IsShown(view) \/ DOMAIN DrawnFrom(view, OutWidth, OutHeight)
                          = OutputPixels(OutWidth, OutHeight)
  THEN "whole" ELSE "old"

(* The content of the buffers when those of a set are back in the pool. *)
Returned(w, bs) == [b \in Buffers |-> IF b \in bs THEN "old" ELSE content[w][b]]

(* The frame kept is stale, and its buffer let go. *)
Forget(w) ==
  /\ last' = [last EXCEPT ![w] = NoBuffer]
  /\ content' = [content EXCEPT ![w] = Returned(w, {last[w]} \ held[w])]

(* LatestFrameReader::poll: a new frame is uploaded, unless the clients hold *)
(* every buffer; the one kept may have turned stale.                         *)
PollFrame(w) ==
  /\ worker[w] = "running" /\ loop[w] = "due"
  /\ loop' = [loop EXCEPT ![w] = "polled"]
  /\ \/ \E view \in Views, b \in Free(w) :
          /\ fresh
          /\ \/ /\ last' = [last EXCEPT ![w] = b]
                /\ content' = [content EXCEPT
                                 ![w] = [Returned(w, {last[w]} \ held[w])
                                           EXCEPT ![b] = Drawing(view)]]
             \/ Forget(w)
     \/ /\ ~fresh \/ Views = {} \/ Free(w) = {}
        /\ Forget(w) \/ UNCHANGED <<last, content>>
  /\ fresh' = FALSE
  /\ UNCHANGED <<sourceVars, clientVars, medium, held, sample>>

(* Mutant: without a frame there is no sample. *)
SampleBuffersOfFrames(w) == {last[w]} \ {NoBuffer}

(* The buffer of the sample: the one kept, or one of the pool for the         *)
(* placeholder.                                                               *)
SampleBuffers(w) == IF last[w] # NoBuffer THEN {last[w]} ELSE Free(w)

(* create_sample_buffer and sendSampleBuffer. *)
SendSample(w) ==
  /\ worker[w] = "running" /\ loop[w] = "polled"
  /\ loop' = [loop EXCEPT ![w] = "in"]
  /\ \/ \E b \in SampleBuffers(w) :
          /\ format' \in Formats
          /\ content' = IF b = last[w] THEN content
                        ELSE [content EXCEPT
                                ![w][b] = IF format' = "made" THEN "whole" ELSE "old"]
          /\ held' = [held EXCEPT ![w] = IF format' = "made" THEN @ \cup {b} ELSE @]
          /\ sample' = IF format' = "made" THEN "sent" ELSE "none"
     \/ /\ SampleBuffers(w) = {}
        /\ sample' = "none"
        /\ UNCHANGED <<content, format, held>>
  /\ UNCHANGED <<sourceVars, process, access, medium, fresh, last>>

(* External: the clients let a sample go. *)
ReleaseSample(w, b) ==
  /\ b \in held[w]
  /\ held' = [held EXCEPT ![w] = @ \ {b}]
  /\ content' = [content EXCEPT ![w] = Returned(w, {b} \ {last[w]})]
  /\ UNCHANGED <<sourceVars, clientVars, medium, fresh, loop, last, sample>>

(* Out of the loop: the reader and the pool go before the flag is cleared.   *)
(* What clients still hold of the pool is theirs.                            *)
LeaveLoop(w) ==
  /\ (SeeFlagCleared(w) /\ loop[w] = "in") \/ EndByItself(w)
  /\ loop' = [loop EXCEPT ![w] = "out"]
  /\ last' = [last EXCEPT ![w] = NoBuffer]
  /\ held' = [held EXCEPT ![w] = {}]
  /\ content' = [content EXCEPT ![w] = Returned(w, Buffers)]
  /\ sample' = "none"
  /\ UNCHANGED <<clientVars, medium, fresh>>

FinishWorker(w) ==
  /\ ClearOnExit(w) \/ End(w)
  /\ UNCHANGED <<clientVars, medium, fresh, poolVars>>

-----------------------------------------------------------------------------
WorkerStep(w) ==
  \/ EnterLoop(w) \/ FindDue(w) \/ PollFrame(w) \/ SendSample(w)
  \/ LeaveLoop(w) \/ FinishWorker(w)

ProcessNext ==
  \/ AttachStream \/ StartService \/ Relaunch \/ AskFormats
  \/ SendFrame \/ WriterLeaves
  \/ \E k \in Clients : ConnectClient(k) \/ AuthorizeStart(k) \/ DisconnectClient(k)
  \/ \E c \in Callbacks : StartStream(c) \/ RunCallback(c)
  \/ \E w \in Workers : WorkerStep(w) \/ \E b \in Buffers : ReleaseSample(w, b)

ProcessSpec == ProcessInit /\ [][ProcessNext]_all

(* A callback that has begun runs on, threads run, and clients give back what *)
(* they are sent.  Nothing need be sent, start, stop or fail.                 *)
FairProcessSpec ==
  /\ ProcessSpec
  /\ \A c \in Callbacks :
       /\ WF_all(StartOn(c) /\ RunCallback(c))
       /\ WF_all((StopOn(c) \/ Repair(c)) /\ RunCallback(c))
  /\ \A w \in Workers :
       /\ WF_all(WorkerStep(w))
       /\ \A b \in Buffers : WF_all(ReleaseSample(w, b))

-----------------------------------------------------------------------------
ProcessTypeOK ==
  /\ process \in {"starting", "serving", "exited"}
  /\ access \in [Clients -> {"away", "connected", "authorized"}]
  /\ format \in {"unknown", "made", "failed"}
  /\ medium.mode \in Modes /\ medium.frame \in Frames \cup {Nothing}
  /\ fresh \in BOOLEAN
  /\ loop \in [Workers -> {"out", "in", "due", "polled"}]
  /\ last \in [Workers -> Buffers \cup {NoBuffer}]
  /\ held \in [Workers -> SUBSET Buffers]
  /\ content \in [Workers -> [Buffers -> {"old", "whole"}]]
  /\ sample \in {"none", "sent"}

LoopRuns == \A w \in Workers : loop[w] # "out" => worker[w] = "running"
ClientsAuthorized == \A k \in Clients : access[k] # "away" => Authorized(k)

(* Samples are made only by a worker that runs, and a client that CMIO cannot *)
(* name gets no further than its connection, panics of its callbacks included.*)
ProcessInv ==
  /\ ProcessTypeOK /\ SourceInv
  /\ LoopRuns /\ ClientsAuthorized

(* The slots of a region that is opened lie in it, whatever build left it    *)
(* there and wherever it was cut, and do not overlap.                        *)
SlotsStayInside ==
  /\ HeaderIsValid(NewHeader(Capacity))
  /\ \A region \in {r \in Regions : HeaderIsValid(r)} :
       \A i \in 0 .. region.slots - 1 \cup region.active, j \in 0 .. region.slots - 1 :
         LET bytes == SlotBytes(i, region.capacity)
         IN  /\ bytes \subseteq HeaderBytes .. region.length - 1
             /\ i # j => bytes \cap SlotBytes(j, region.capacity) = {}

(* What an upload reads lies in the slot or in the file, and what it writes  *)
(* in the buffer.                                                            *)
UploadStaysInside ==
  /\ \A view \in Views : \A p \in DOMAIN DrawnFrom(view, OutWidth, OutHeight) :
       LET q == DrawnFrom(view, OutWidth, OutHeight)[p]
       IN  /\ PixelBytes(q, view.stride) \subseteq RowBytes(view, q[2])
           /\ RowBytes(view, q[2]) \subseteq 0 .. medium.offer.length - 1
           /\ PixelBytes(p, OutStride) \subseteq 0 .. OutHeight * OutStride - 1

(* A frame a sink has accepted is what its reader finds and what is shown,   *)
(* unless the spool's reader allows less memory for a frame.                 *)
AcceptedIsShown ==
  LET f == medium.frame
  IN  f # Nothing /\ (Shared \/ ByteLen(f.width, f.height) <= ReaderLimit) =>
        \E view \in Views :
          view.width = f.width /\ view.height = f.height /\ IsShown(view)

(* No pixel of a sample is left over from an earlier one: the pool hands     *)
(* buffers out again, and the upload and the placeholder each draw them all. *)
SamplesAreWhole ==
  \A w \in Workers : \A b \in held[w] : content[w][b] # "old"

(* Whatever the transport offers, what a client is sent is whole and is the  *)
(* frame sent, read and written in bounds.                                   *)
PictureInv == SlotsStayInside /\ UploadStaysInside /\ AcceptedIsShown /\ SamplesAreWhole

(* A stream does not go dark for good because the clients were slow: they    *)
(* may have held every buffer, and once they give them back it sends again,  *)
(* if only the placeholder.  A format description that could not be made is  *)
(* remembered, and no sample is ever made without it.                        *)
SamplesFlow ==
  \A w \in Workers :
    loop[w] = "in" /\ sample = "none" ~>
      sample = "sent" \/ loop[w] = "out" \/ format = "failed"

-----------------------------------------------------------------------------
(* The inductive invariant behind ProcessInv. *)

(* Before the service starts there is neither a callback nor a worker. *)
NothingBeforeService ==
  process # "serving" =>
    /\ state \in {"Detached", "Ready"} /\ handle = NoWorker
    /\ \A c \in Callbacks : pc[c] = "idle"
    /\ \A w \in Workers : Ended(w)

MediumIsRecord ==
  medium = [mode |-> medium.mode, offer |-> medium.offer, frame |-> medium.frame]

ProcessOrder ==
  /\ ProcessTypeOK /\ MediumIsRecord /\ SourceOrder /\ NothingBeforeService
  /\ LoopRuns /\ ClientsAuthorized

(* The inductive invariant behind PictureInv, which does not depend on how   *)
(* the framework runs its callbacks.                                         *)

(* What is offered is of the frame that a sink took, or was left behind.     *)
OfferIsOfFrame ==
  IF medium.frame = Nothing
  THEN medium.offer \in {Nothing} \cup (IF Shared THEN {} ELSE Leftovers)
  ELSE /\ medium.frame \in Frames
       /\ IF Shared
          THEN SharedSinkAccepts(medium.frame, Capacity) /\ medium.offer = SlotMetadata(medium.frame)
          ELSE SpoolAccepts(medium.frame) /\ medium.offer = SpoolFile(medium.frame)

BuffersTypeOK ==
  /\ last \in [Workers -> Buffers \cup {NoBuffer}]
  /\ held \in [Workers -> SUBSET Buffers]
  /\ content \in [Workers -> [Buffers -> {"old", "whole"}]]

(* The buffer kept for the next sample may be sent again as it is. *)
KeptIsWhole == \A w \in Workers : last[w] # NoBuffer => content[w][last[w]] = "whole"

PictureOrder ==
  BuffersTypeOK /\ MediumIsRecord /\ OfferIsOfFrame /\ KeptIsWhole /\ SamplesAreWhole
=============================================================================
