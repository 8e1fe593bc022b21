--------------------------- MODULE AckedTransport ---------------------------
(***************************************************************************)
(* SlotTransport with the acknowledgement that travels the other way: the  *)
(* consumer_* fields of the header.  A reader stores them one by one,      *)
(* between reading a slot's metadata and returning the frame; the writer   *)
(* clears them one by one when it connects, and consumer_progress loads    *)
(* them one by one between two sends.  Each such access is one step; the   *)
(* slot steps are those of SlotTransport, held back while the same thread  *)
(* is inside an acknowledgement, a reset or an observation.                *)
(***************************************************************************)
EXTENDS SlotTransport

(* The consumer_* fields, and what consumer_progress returns.  The         *)
(* heartbeat, a clock reading, stands for the frame acknowledged then.     *)
Progress == [pid : Readers \cup {NoPid}, gen : Nat, seq : Nat, beat : Frame]
NoProgress == [pid |-> NoPid, gen |-> 0, seq |-> 0, beat |-> Torn]

VARIABLES
  consumer,    \* header.consumer_{pid,generation,sequence,heartbeat}
  wack,        \* the writer's next access to it, "none" outside
  rack,        \* each reader's next access to it, "none" outside
  seen,        \* what consumer_progress has loaded so far
  progress,    \* what consumer_progress has just returned
  answered,    \* history: every frame a reader answered a poll with
  late         \* history: since a writer came last, a reader has stored what
               \* it had still to acknowledge of an earlier writer's frame

ackVars == <<consumer, wack, rack, seen, progress, answered, late>>
allVars == <<vars, ackVars>>

ResetAt == {"resetPid", "resetGen", "resetSeq", "resetBeat"}
SeeAt   == {"seeGen", "seeSeq", "seeBeat", "recheck"}
AckAt   == {"pid", "gen", "seq", "beat", "end"}

AckInit ==
  /\ Init
  /\ consumer = NoProgress
  /\ wack = "none" /\ rack = [r \in Readers |-> "none"]
  /\ seen = NoProgress /\ progress = NoProgress
  /\ answered = {} /\ late = FALSE

WriterAt(from, to) == wack = from /\ wack' = to
ReaderAt(r, from, to) == rack[r] = from /\ rack' = [rack EXCEPT ![r] = to]
Store(field, value) == consumer' = [consumer EXCEPT ![field] = value]

-----------------------------------------------------------------------------
(* The slot steps.  active_slot is cleared before the consumer fields, the *)
(* slots after them; a frame is acknowledged before it is returned.        *)

WriterStep ==
  /\ wack = "none"
  /\ SendStep
  /\ wack' = IF wpc = "resetActive" THEN "resetPid" ELSE "none"
  /\ progress' = NoProgress
  /\ late' = (late /\ wpc # "offline")
  /\ UNCHANGED <<consumer, rack, seen, answered>>

WriterStops ==
  /\ \/ wack = "none" /\ Disconnect
     \/ WriterCrash
  /\ wack' = "none"
  /\ seen' = NoProgress /\ progress' = NoProgress
  /\ UNCHANGED <<consumer, rack, answered, late>>

Answers(r) == rpc[r] = "inspect" /\ rpc'[r] = "borrowed"

ReaderStep(r) ==
  /\ rack[r] = "none"
  /\ ReadStep(r) \/ Open(r) \/ Close(r)
  /\ rack' = [rack EXCEPT ![r] = IF Answers(r) THEN "pid" ELSE "none"]
  /\ answered' = IF Answers(r) THEN answered \cup {taken'[r]} ELSE answered
  /\ UNCHANGED <<consumer, wack, seen, progress, late>>

ReaderStops(r) ==
  /\ ReaderCrash(r)
  /\ rack' = [rack EXCEPT ![r] = "none"]
  /\ UNCHANGED <<consumer, wack, seen, progress, answered, late>>

-----------------------------------------------------------------------------
(* reset_for_new_writer: the consumer fields in the order of the code. *)
ResetConsumer ==
  /\ \/ WriterAt("resetPid", "resetGen") /\ Store("pid", NoPid)
     \/ WriterAt("resetGen", "resetSeq") /\ Store("gen", 0)
     \/ WriterAt("resetSeq", "resetBeat") /\ Store("seq", 0)
     \/ WriterAt("resetBeat", "none") /\ Store("beat", Torn)
  /\ UNCHANGED <<vars, rack, seen, progress, answered, late>>

(* Mutant: consumer_pid is stored first and not last. *)
AcknowledgePidFirst(r) ==
  /\ \/ ReaderAt(r, "pid", "gen") /\ Store("pid", r)
     \/ ReaderAt(r, "gen", "seq") /\ Store("gen", taken[r].gen)
     \/ ReaderAt(r, "seq", "beat") /\ Store("seq", taken[r].seq)
     \/ ReaderAt(r, "beat", "none") /\ Store("beat", taken[r])
  /\ late' = (late \/ taken[r].gen # lastGen)
  /\ UNCHANGED <<vars, wack, seen, progress, answered>>

(* read_latest_borrowed: consumer_pid is cleared first and stored last. *)
Acknowledge(r) ==
  /\ \/ ReaderAt(r, "pid", "gen") /\ Store("pid", NoPid)
     \/ ReaderAt(r, "gen", "seq") /\ Store("gen", taken[r].gen)
     \/ ReaderAt(r, "seq", "beat") /\ Store("seq", taken[r].seq)
     \/ ReaderAt(r, "beat", "end") /\ Store("beat", taken[r])
     \/ ReaderAt(r, "end", "none") /\ Store("pid", r)
  /\ late' = (late \/ taken[r].gen # lastGen)
  /\ UNCHANGED <<vars, wack, seen, progress, answered>>

(* consumer_progress: the pid, the three fields, then the pid once more. *)
SeePid ==
  /\ wpc = "idle" /\ wack = "none"
  /\ IF consumer.pid = NoPid
       THEN UNCHANGED <<wack, seen>>
       ELSE wack' = "seeGen" /\ seen' = [NoProgress EXCEPT !.pid = consumer.pid]
  /\ progress' = NoProgress
  /\ UNCHANGED <<vars, consumer, rack, answered, late>>

See(field) == seen' = [seen EXCEPT ![field] = consumer[field]]

SeeFields ==
  /\ \/ WriterAt("seeGen", "seeSeq") /\ See("gen")
     \/ WriterAt("seeSeq", "seeBeat") /\ See("seq")
     \/ WriterAt("seeBeat", "recheck") /\ See("beat")
  /\ UNCHANGED <<vars, consumer, rack, progress, answered, late>>

RecheckPid ==
  /\ WriterAt("recheck", "none")
  /\ progress' = IF consumer.pid = seen.pid THEN seen ELSE NoProgress
  /\ seen' = NoProgress
  /\ UNCHANGED <<vars, consumer, rack, answered, late>>

-----------------------------------------------------------------------------
AckNext ==
  \/ WriterStep \/ WriterStops \/ ResetConsumer
  \/ SeePid \/ SeeFields \/ RecheckPid
  \/ \E r \in Readers : ReaderStep(r) \/ ReaderStops(r) \/ Acknowledge(r)

AckSpec == AckInit /\ [][AckNext]_allVars

(* The acknowledgement fields and both sides' positions in them. *)
AckTypeOK ==
  /\ TypeOK
  /\ consumer \in Progress /\ seen \in Progress /\ progress \in Progress
  /\ wack \in {"none"} \cup ResetAt \cup SeeAt
  /\ rack \in [Readers -> {"none"} \cup AckAt]
  /\ answered \subseteq Frame /\ late \in BOOLEAN

(* The generation and the sequence that consumer_progress reports are those *)
(* of one frame a reader has answered a poll with: "generation/sequence/    *)
(* heartbeat become one visible consumer-progress snapshot" (the comment at *)
(* the stores in reader.rs).  The code breaks this when a writer comes back *)
(* to its mapping.                                                          *)
AckWasAnswered ==
  progress.pid # NoPid /\ progress.gen = writerGen =>
    [gen |-> progress.gen, seq |-> progress.seq] \in answered

(* A report that names the writer's own generation is never about an        *)
(* earlier writer's reader alone: some reader has answered a poll with a    *)
(* frame of this writer.                                                    *)
GenerationWasAnswered ==
  progress.pid # NoPid /\ progress.gen = writerGen =>
    \E f \in answered : f.gen = writerGen

(* The one way to a mixed report: unless a reader was late with an earlier  *)
(* writer's frame, what is reported is of this writer's generation, the     *)
(* sequence is of a frame a reader answered with, and so is the heartbeat,  *)
(* though perhaps of another one.  The self-test compares generation and    *)
(* sequence with what it has published.                                     *)
MixedOnlyWhenLate ==
  progress.pid # NoPid /\ ~late =>
    /\ progress.gen = writerGen
    /\ [gen |-> progress.gen, seq |-> progress.seq] \in answered
    /\ progress.beat \in answered /\ progress.beat.gen = writerGen

(* While a reader stores its acknowledgement the frame it names is still   *)
(* leased to it, whole, in the slot it came from.                          *)
AckUnderLease ==
  \A r \in Readers : rack[r] # "none" =>
    rpc[r] = "borrowed" /\ slot[pollSlot[r]] = Reading(r)
                        /\ data[pollSlot[r]] = taken[r]

(* Storing acknowledgements takes nothing from the slot protocol: what a   *)
(* reader acknowledges, and what another reads meanwhile, is whole, is as  *)
(* fresh as its poll promised, and stays leased until the last store.  What *)
(* the writer sees of it is of its own time, unless a reader was late.      *)
AckInv ==
  /\ AckTypeOK /\ AckUnderLease /\ NoTornFrame /\ FreshFrame
  /\ GenerationWasAnswered /\ MixedOnlyWhenLate

-----------------------------------------------------------------------------
(* The inductive invariant behind it. *)

(* A reader acknowledges what it has borrowed and answered; what has been  *)
(* answered was published, and numbered by this writer or an earlier one.  *)
AnsweredFrames ==
  /\ \A r \in Readers : rack[r] # "none" => rpc[r] = "borrowed"
  /\ \A r \in Readers : rpc[r] = "borrowed" => taken[r] \in answered
  /\ answered \subseteq PublishedFrame
  /\ \A f \in answered : Issued(f)

(* The writer resets the fields before it sends, and looks at them between *)
(* two sends; what it has just seen is gone with its next step.            *)
WriterAtRest ==
  /\ wack \in ResetAt => wpc = "resetSlots" /\ nextSeq = 0
  /\ wack \in SeeAt \/ progress.pid # NoPid => wpc = "idle"

AckOrder == AckTypeOK /\ AnsweredFrames /\ WriterAtRest

(* A generation other than 0 is stored of an answered frame only. *)
GenerationKnown ==
  \A p \in {consumer, seen, progress} :
    p.gen # 0 => \E f \in answered : f.gen = p.gen

(* Unless a reader was late: when the writer has reset the fields, what     *)
(* stands in them is of the frames its readers have answered with, whenever *)
(* a pid stands there or has been seen, or a reader is past its store.      *)
CurrentFrame == {f \in answered : f.gen = lastGen}
OfCurrent(seq) == \E f \in CurrentFrame : f.seq = seq
Past(points) == \E r \in Readers : rack[r] \in points /\ taken[r].gen = lastGen
Visible == consumer.pid # NoPid \/ wack \in SeeAt

ConsumerIsCurrent ==
  /\ wack \in ResetAt \ {"resetPid"} => consumer.pid = NoPid
  /\ wack \notin ResetAt =>
       /\ Visible \/ Past({"seq", "beat", "end"}) => consumer.gen = lastGen
       /\ Visible \/ Past({"beat", "end"}) => OfCurrent(consumer.seq)
       /\ Visible \/ Past({"end"}) => consumer.beat \in CurrentFrame

SeenIsCurrent ==
  /\ wack \in {"seeSeq", "seeBeat", "recheck"} => seen.gen = lastGen
  /\ wack \in {"seeBeat", "recheck"} => OfCurrent(seen.seq)
  /\ wack = "recheck" => seen.beat \in CurrentFrame

ProgressIsCurrent ==
  progress.pid # NoPid =>
    /\ progress.gen = lastGen /\ OfCurrent(progress.seq)
    /\ progress.beat \in CurrentFrame

ReportIsCurrent ==
  Online /\ ~late => ConsumerIsCurrent /\ SeenIsCurrent /\ ProgressIsCurrent
=============================================================================
