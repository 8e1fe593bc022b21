----------------------------- MODULE StreamPump -----------------------------
(***************************************************************************)
(* The sample loop of the CMIO extension (extension/mod.rs stream_samples) *)
(* with the reader it polls (transport.rs FrameTransportReader), the frame *)
(* it keeps (extension/frame_pump.rs), the integrity history that turns a  *)
(* gap into a discontinuity flag (frame_integrity.rs) and the pacer it     *)
(* sleeps on (stream_runtime.rs DeadlinePacer), against a writer that      *)
(* publishes, stops, crashes and starts again.                             *)
(*                                                                         *)
(* The slot protocol itself is SlotTransport: here a region offers the     *)
(* active frame and, between READY and the store of active_slot, the one   *)
(* being published, which is how a reader comes to step back by one.       *)
(*                                                                         *)
(* Time is counted in ticks.  A frame carries its age, a deadline the      *)
(* ticks left; an age counts until the frame is stale and stays there.     *)
(* The clock is the monotonic one (media_time.rs) and does not step back;  *)
(* what the pacer does if it did is not here.                              *)
(***************************************************************************)
EXTENDS Integers

CONSTANTS
  Modes,       \* the transports under study: "SharedMemory", "File"
  Rates,       \* the periods, in ticks, a writer may announce
  DefaultRate, \* the period before the first frame
  StaleAfter,  \* MINIMUM_STALE_NANOS
  StalePeriods, \* the periods of a frame it may be old at least
  OpenEvery,   \* SHARED_REOPEN_INTERVAL
  CheckEvery,  \* WRITER_LIVENESS_INTERVAL
  MayFail,     \* whether reads, uploads and samples may fail
  MaxGen, MaxSeq, \* bounds: writers, and frames of each
  MaxLate,     \* bound: how late the loop may be for a deadline
  None

ASSUME RatesAssumption ==
  /\ Rates \subseteq Nat \ {0}
  /\ DefaultRate \in Nat \ {0}

ASSUME PumpBoundsAssumption ==
  /\ {StaleAfter, StalePeriods, OpenEvery, CheckEvery, MaxGen, MaxSeq, MaxLate} \subseteq Nat
  /\ MayFail \in BOOLEAN

VARIABLES
  mode,     \* FrameTransportMode, fixed when the extension starts
  up,       \* a writer is connected
  gen,      \* the generation of the last writer that connected
  next,     \* next_sequence of that writer
  linked,   \* the shared object exists at its endpoint
  frame,    \* the active frame, or the spool file's
  fresh,    \* a frame that is READY and not yet active
  reader,   \* FrameTransportReader
  pump,     \* LatestFrameReader: frame kept, staleness, integrity history
  step,     \* where stream_samples is
  pacer,    \* DeadlinePacer: its period, its next deadline
  period,   \* pacing_fps, as a period
  flags,    \* the discontinuity of this iteration's poll, and of its pacing
  client    \* history: what the client has been sent and told

medium == <<mode, up, gen, next, linked, frame, fresh>>
vars == <<medium, reader, pump, step, pacer, period, flags, client>>

Frame == [gen : 1 .. MaxGen, seq : 0 .. MaxSeq, age : Nat, rate : Rates]
Id(f) == <<f.gen, f.seq>>
Ids == (1 .. MaxGen) \X (0 .. MaxSeq)
Cmio == {"SampleDropped", "Time"}

ASSUME NoneAssumption == None \notin Frame \cup Ids

ReaderType ==
  [mapped : {"no", "linked", "unlinked"}, gen : 0 .. MaxGen,
   seq : 0 .. MaxSeq \cup {None}, opened : 0 .. OpenEvery,
   checked : 0 .. CheckEvery, stamp : Ids \cup {None},
   identity : Ids \cup {None}]
PumpType == [last : Frame \cup {None}, stale : BOOLEAN,
             seen : Ids \cup {None}, lapsed : BOOLEAN]
PacerType == [rate : Rates \cup {DefaultRate}, due : Int \cup {None}]
ClientType == [shown : Ids \cup {None}, told : SUBSET Cmio,
               unsent : BOOLEAN, dropped : BOOLEAN]

TypeOK ==
  /\ mode \in Modes
  /\ up \in BOOLEAN /\ linked \in BOOLEAN
  /\ gen \in 0 .. MaxGen
  /\ next \in 0 .. MaxSeq + 1
  /\ frame \in Frame \cup {None} /\ fresh \in Frame \cup {None}
  /\ reader \in ReaderType /\ pump \in PumpType
  /\ step \in {"plan", "sleep", "poll", "read", "send"}
  /\ pacer \in PacerType
  /\ period \in Rates \cup {DefaultRate}
  /\ flags \in SUBSET Cmio
  /\ client \in ClientType

(* FrameTransportReader::new; an interval that was never due is due at once. *)
ReaderNew ==
  [mapped |-> "no", gen |-> 0, seq |-> None, opened |-> OpenEvery,
   checked |-> CheckEvery, stamp |-> None, identity |-> None]

(* FrameIntegrityState::new, and LatestFrameReader::new. *)
IntegrityNew == [seen |-> None, lapsed |-> FALSE]
PumpNew == [last |-> None, stale |-> FALSE,
            seen |-> IntegrityNew.seen, lapsed |-> IntegrityNew.lapsed]

Init ==
  /\ mode \in Modes
  /\ up = FALSE /\ gen = 0 /\ next = 0 /\ linked = FALSE
  /\ frame = None /\ fresh = None
  /\ reader = ReaderNew
  /\ pump = PumpNew
  /\ step = "plan"
  /\ pacer = [rate |-> DefaultRate, due |-> None]
  /\ period = DefaultRate
  /\ flags = {}
  /\ client = [shown |-> None, told |-> {}, unsent |-> FALSE,
               dropped |-> FALSE]

-----------------------------------------------------------------------------
(* The writer. *)

extension == <<reader, pump, step, pacer, period, flags, client>>
Shared == mode = "SharedMemory"

(* A writer connects: it takes over the object a dead one left, emptied, or *)
(* creates one.  The spool keeps the file of the writer before.            *)
Connect ==
  /\ ~up /\ gen < MaxGen
  /\ up' = TRUE /\ gen' = gen + 1 /\ next' = 0
  /\ linked' = Shared
  /\ frame' = IF Shared THEN None ELSE frame
  /\ fresh' = None
  /\ UNCHANGED <<mode, extension>>

Newest(r) == [gen |-> gen, seq |-> next, age |-> 0, rate |-> r]

(* A frame is READY in its slot; the active index still names the one before. *)
PublishReady ==
  /\ Shared /\ up /\ fresh = None /\ next <= MaxSeq
  /\ \E r \in Rates : fresh' = Newest(r)
  /\ next' = next + 1
  /\ UNCHANGED <<mode, up, gen, linked, frame, extension>>

StoreActive ==
  /\ Shared /\ up /\ fresh # None
  /\ frame' = fresh /\ fresh' = None
  /\ UNCHANGED <<mode, up, gen, next, linked, extension>>

(* The spool file is replaced by a rename. *)
WriteFrame ==
  /\ ~Shared /\ up /\ next <= MaxSeq
  /\ \E r \in Rates : frame' = Newest(r)
  /\ next' = next + 1
  /\ UNCHANGED <<mode, up, gen, linked, fresh, extension>>

(* disconnect clears the owner and the generation and unlinks the object; a *)
(* reader keeps what it has mapped.  The spool file stays.                  *)
Disconnect ==
  /\ up /\ up' = FALSE
  /\ linked' = FALSE
  /\ frame' = IF Shared THEN None ELSE frame
  /\ fresh' = None
  /\ reader' = IF reader.mapped = "linked"
                 THEN [reader EXCEPT !.mapped = "unlinked"] ELSE reader
  /\ UNCHANGED <<mode, gen, next, pump, step, pacer, period, flags, client>>

(* A killed writer leaves its object, with its frames, and its spool file. *)
Crash ==
  /\ up /\ up' = FALSE
  /\ UNCHANGED <<mode, gen, next, linked, frame, fresh, extension>>

-----------------------------------------------------------------------------
(* Time. *)

(* stale_timeout_nanos: five periods of a slow writer's frame, in the code. *)
StaleTimeout(f) ==
  IF StalePeriods * f.rate > StaleAfter THEN StalePeriods * f.rate ELSE StaleAfter

Older(f) ==
  IF f = None THEN None
  ELSE [f EXCEPT !.age = IF @ <= StaleTimeout(f) THEN @ + 1 ELSE @]

Later(n, limit) == IF n < limit THEN n + 1 ELSE n

(* From poll to send the loop does not wait, and no time is counted there. *)
Tick ==
  /\ step # "send"
  /\ pacer.due # None => pacer.due > -MaxLate
  /\ frame' = Older(frame) /\ fresh' = Older(fresh)
  /\ pump' = [pump EXCEPT !.last = Older(@)]
  /\ reader' = [reader EXCEPT !.opened = Later(@, OpenEvery),
                              !.checked = Later(@, CheckEvery)]
  /\ pacer' = [pacer EXCEPT !.due = IF @ = None THEN None ELSE @ - 1]
  /\ UNCHANGED <<mode, up, gen, next, linked, step, period, flags, client>>

-----------------------------------------------------------------------------
(* DeadlinePacer::plan. *)

(* Mutant: a change of rate keeps the deadline of the old one. *)
DueKeepsOldRate == IF pacer.due = None THEN 0 ELSE pacer.due

(* The deadline plan starts from: at once on the first call and whenever *)
(* the rate has changed.                                                 *)
Due == IF pacer.due = None \/ period # pacer.rate THEN 0 ELSE pacer.due

(* The periods that have gone by: deadlines stay on the grid they began on. *)
Skipped == IF Due >= 0 THEN 0 ELSE (-Due + period - 1) \div period

Plan ==
  /\ step = "plan" /\ step' = "sleep"
  /\ pacer' = [rate |-> period, due |-> Due + Skipped * period + period]
  /\ flags' = IF Skipped > 0 THEN {"SampleDropped"} ELSE {}
  /\ UNCHANGED <<medium, reader, pump, period, client>>

(* What is left to sleep: the deadline planned lies a period before the next. *)
Remaining == pacer.due - pacer.rate

Wake ==
  /\ step = "sleep" /\ Remaining <= 0
  /\ step' = "poll"
  /\ UNCHANGED <<medium, reader, pump, pacer, period, flags, client>>

-----------------------------------------------------------------------------
(* FrameIntegrityState. *)

(* Mutant: a new writer is noticed by its sequence alone. *)
ClassifyBySequence(seen, lapsed, f) ==
  CASE seen = None           -> IF lapsed THEN "Resumed" ELSE "None"
    [] seen # None /\ f.seq < seen[2]     -> "TimingReset"
    [] seen # None /\ f.seq = seen[2]     -> "FramesDropped"
    [] seen # None /\ f.seq > seen[2] + 1 -> "FramesDropped"
    [] OTHER                 -> IF lapsed THEN "Resumed" ELSE "None"

(* classify_frame_integrity.  Frames are normalized to one format by the   *)
(* compositor, so FormatChanged does not arise, and within a generation     *)
(* timestamps follow the sequence.                                          *)
Classify(seen, lapsed, f) ==
  LET same == seen # None /\ f.gen = seen[1]
  IN  CASE seen # None /\ f.gen # seen[1]    -> "WriterRestarted"
        [] same /\ f.seq < seen[2]           -> "TimingReset"
        [] same /\ f.seq = seen[2]           -> "FramesDropped"
        [] same /\ f.seq > seen[2] + 1       -> "FramesDropped"
        [] OTHER -> IF lapsed THEN "Resumed" ELSE "None"

(* observe, but for the class. *)
Observe(p, f) == [p EXCEPT !.seen = Id(f), !.lapsed = FALSE]

(* mark_stale reports once, until another frame is observed. *)
MarkStale(p) == [p EXCEPT !.lapsed = TRUE]
StaleClass(p) == IF p.lapsed THEN "None" ELSE "BecameStale"

(* frame_is_stale *)
FrameIsStale(f) == f # None /\ f.age > StaleTimeout(f)

(* cmio_discontinuity *)
FlagsOf(discontinuity) ==
  CASE discontinuity = "None"          -> {}
    [] discontinuity = "FramesDropped" -> {"SampleDropped"}
    [] OTHER                           -> Cmio

(* Mutant: the frame is forgotten and its pixel buffer is not. *)
ExpireKeepsBuffer(p, class) ==
  IF ~FrameIsStale(p.last) THEN <<p, class>>
  ELSE <<[(IF p.stale THEN p ELSE MarkStale(p)) EXCEPT !.stale = TRUE],
         IF p.stale THEN class ELSE StaleClass(p)>>

(* The end of poll: a frame kept too long is let go, which is reported once. *)
Expire(p, class) ==
  IF ~FrameIsStale(p.last) THEN <<p, class>>
  ELSE <<[(IF p.stale THEN p ELSE MarkStale(p)) EXCEPT !.last = None, !.stale = TRUE],
         IF p.stale THEN class ELSE StaleClass(p)>>

(* What poll returns: its discontinuity, and the rate to pace the next sample. *)
Finish(p, class) ==
  LET done == Expire(p, class)
  IN  /\ pump' = done[1]
      /\ flags' = flags \cup FlagsOf(done[2])
      /\ period' = IF done[1].last = None THEN DefaultRate ELSE done[1].last.rate
      /\ step' = "send"

(* poll, with the frame the transport handed over: observed, then uploaded   *)
(* into a buffer of the pool, unless the client holds all of those.          *)
Take(f) ==
  LET seen == Observe(pump, f)
  IN  \/ /\ Finish([seen EXCEPT !.last = f, !.stale = FALSE],
                   Classify(pump.seen, pump.lapsed, f))
         /\ UNCHANGED client
      \/ /\ MayFail
         /\ Finish(seen, "FramesDropped")
         /\ client' = [client EXCEPT !.dropped = TRUE]

(* poll, when there is nothing new or the read failed. *)
Keep == Finish(pump, "None") /\ UNCHANGED client

-----------------------------------------------------------------------------
(* FrameTransportReader::poll_borrowed, shared memory. *)

(* writer_is_alive, at most every CheckEvery ticks: a reader whose writer has *)
(* gone is closed, and the endpoint may be opened again at once.              *)
Checked(r) ==
  IF r.mapped = "no" \/ r.checked < CheckEvery THEN r
  ELSE IF r.mapped = "linked" /\ up THEN [r EXCEPT !.checked = 0]
  ELSE [r EXCEPT !.checked = 0, !.mapped = "no", !.opened = OpenEvery]

OpensNow(r) == r.mapped = "no" /\ r.opened = OpenEvery

(* try_open_endpoint, at most every OpenEvery ticks. *)
Opened(r) ==
  IF ~OpensNow(r) THEN r
  ELSE IF ~linked THEN [r EXCEPT !.opened = 0]
  ELSE [r EXCEPT !.opened = 0, !.checked = 0, !.mapped = "linked",
                 !.gen = gen, !.seq = None]

(* read_latest_borrowed notices the generation before it looks for a frame. *)
Noticed(r) ==
  IF r.mapped = "linked" /\ r.gen # gen
    THEN [r EXCEPT !.gen = gen, !.seq = None] ELSE r

(* What a read may find: the active frame, or the one being published when   *)
(* the index was loaded before its slot was taken for it.                    *)
Readable(r) ==
  IF r.mapped # "linked" \/ frame = None THEN {}
  ELSE {f \in {frame, fresh} \ {None} : f.seq # r.seq}

PollShared ==
  LET r == Noticed(Opened(Checked(reader)))
  IN  /\ step = "poll" /\ Shared
      /\ \/ \E f \in Readable(r) :
              reader' = [r EXCEPT !.seq = f.seq] /\ Take(f)
         \/ /\ frame \notin Readable(r) \/ fresh # None
            /\ reader' = r /\ Keep
      /\ UNCHANGED <<medium, pacer>>

OpenFails ==
  /\ MayFail /\ step = "poll" /\ Shared /\ OpensNow(Checked(reader))
  /\ reader' = [Checked(reader) EXCEPT !.opened = 0]
  /\ Keep
  /\ UNCHANGED <<medium, pacer>>

(* The spool: the stamp is remembered before the file is read. *)
StampSpool ==
  LET stamp == IF frame = None THEN None ELSE Id(frame)
  IN  /\ step = "poll" /\ ~Shared
      /\ \/ /\ stamp = reader.stamp
            /\ Keep /\ UNCHANGED reader
         \/ /\ stamp # reader.stamp
            /\ reader' = [reader EXCEPT !.stamp = stamp]
            /\ step' = "read"
            /\ UNCHANGED <<pump, period, flags, client>>
      /\ UNCHANGED <<medium, pacer>>

(* The file may have been replaced since; one frame is delivered once. *)
ReadSpool ==
  /\ step = "read"
  /\ \/ /\ Id(frame) # reader.identity
        /\ reader' = [reader EXCEPT !.identity = Id(frame)]
        /\ Take(frame)
     \/ /\ Id(frame) = reader.identity \/ MayFail
        /\ Keep /\ UNCHANGED reader
  /\ UNCHANGED <<medium, pacer>>

-----------------------------------------------------------------------------
(* The sample. *)

(* The client sees the frame kept, or the placeholder.  The history keeps the *)
(* last frame it was shown and what it has been told since: with a first      *)
(* sample of that frame too, when the flag is of a later one not uploaded.    *)
Send ==
  /\ step = "send" /\ step' = "plan"
  /\ client' =
       IF pump.last # None /\ Id(pump.last) # client.shown
         THEN LET behind == Id(pump.last) # pump.seen
              IN  [shown |-> Id(pump.last), told |-> IF behind THEN flags ELSE {},
                   unsent |-> behind /\ client.unsent, dropped |-> behind]
         ELSE [client EXCEPT !.told = @ \cup flags]
  /\ UNCHANGED <<medium, reader, pump, pacer, period, flags>>

(* No buffer in the pool for a placeholder, or no sample for the buffer: what *)
(* this iteration had to tell is not told.                                    *)
SendFails ==
  /\ MayFail /\ step = "send" /\ step' = "plan"
  /\ client' = [client EXCEPT !.unsent = TRUE]
  /\ UNCHANGED <<medium, reader, pump, pacer, period, flags>>

-----------------------------------------------------------------------------
Writer == \/ Connect \/ PublishReady \/ StoreActive \/ WriteFrame
          \/ Disconnect \/ Crash

Poll == PollShared \/ StampSpool \/ ReadSpool

Next == Writer \/ Tick \/ Plan \/ Wake \/ Poll \/ OpenFails \/ Send \/ SendFails

Spec == Init /\ [][Next]_vars

-----------------------------------------------------------------------------
(* The loop never sleeps longer than one period of the rate it paces, after   *)
(* an overrun or a change of rate included, and never sleeps off the grid.    *)
SleepsWithinPeriod == step = "sleep" => Remaining <= pacer.rate

(* While it is awake the deadline it has is a period off at most.             *)
DeadlineInReach ==
  pacer.due # None => /\ -MaxLate <= pacer.due
                      /\ step # "sleep" => pacer.due <= pacer.rate

(* What holds of the writer, the reader, the pump and the pacer throughout.   *)
PumpInv == TypeOK /\ SleepsWithinPeriod /\ DeadlineInReach

(* A sample never shows a frame older than its stale timeout at its poll: not *)
(* the last one of a dead writer, whose region is opened and read again every *)
(* CheckEvery ticks, nor one a failed upload has left in the buffer.          *)
NoStaleSample ==
  step = "send" /\ pump.last # None => pump.last.age <= StaleTimeout(pump.last)

Changes == client'.shown # client.shown /\ client.shown # None

(* What the client sees does not jump unannounced: before a frame that is not *)
(* the successor of the one it saw last, some sample has carried the flag, of *)
(* a new time line if the writer is another.  Two losses are the code's own:  *)
(* an iteration that sent no sample lost its flag, and a failed upload        *)
(* reports FramesDropped in place of whatever the frame had to report.        *)
JumpAnnounced ==
  Changes /\ ~client.unsent =>
    /\ client'.shown # <<client.shown[1], client.shown[2] + 1>>
         => "SampleDropped" \in client.told \cup flags
    /\ client'.shown[1] # client.shown[1]
         => "Time" \in client.told \cup flags \/ client.dropped

JumpIsFlagged == [][JumpAnnounced]_vars

(* What JumpIsFlagged rests on.  The buffer holds what the client saw last or *)
(* what has just been observed; and from the frame the client saw last to the *)
(* one observed last there is no gap but one it has been told of, is about to *)
(* be told of in this iteration, or one of the code's own two losses.         *)
Told == IF step = "plan" THEN client.told ELSE client.told \cup flags

JustTaken == step = "send" /\ pump.last # None /\ Id(pump.last) = pump.seen

BufferIsKnown ==
  pump.last # None /\ ~client.unsent =>
    Id(pump.last) = client.shown \/ JustTaken

GapIsTold ==
  client.shown # None /\ ~client.unsent =>
    /\ pump.seen # None
    /\ \/ pump.seen = client.shown
       \/ "SampleDropped" \in Told
       \/ JustTaken /\ pump.seen = <<client.shown[1], client.shown[2] + 1>>
    /\ \/ pump.seen[1] = client.shown[1]
       \/ "Time" \in Told
       \/ client.dropped

(* A writer at work has a generation, a spool file that is being read exists, *)
(* and a frame let go for its age is gone from the buffer.                    *)
WriterIsCounted == up => gen # 0
SpoolExists ==
  /\ step = "read" => ~Shared /\ frame # None
  /\ ~Shared /\ frame = None => reader.stamp = None
StaleIsLetGo == pump.stale => pump.last = None

PumpOrder ==
  /\ PumpInv /\ NoStaleSample
  /\ WriterIsCounted /\ SpoolExists /\ StaleIsLetGo
  /\ BufferIsKnown /\ GapIsTold
=============================================================================
