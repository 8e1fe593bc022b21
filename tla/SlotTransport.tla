--------------------------- MODULE SlotTransport ---------------------------
(***************************************************************************)
(* The shared-memory frame ring of src/shared_memory_transport: one writer *)
(* role (SharedFrameSink), any number of reader processes                  *)
(* (SharedFrameReader) and one mapping, with crashes of either side.       *)
(*                                                                         *)
(* Every atomic load, store or compare-exchange another process can tell   *)
(* apart is a step of its own.  A slot try (load, liveness test, one or    *)
(* two compare-exchanges) is one step: it succeeds or fails on the word    *)
(* found at its last access, and the word is the slot's complete state.    *)
(* The loads a reader makes under its lease are one step, which is sound   *)
(* because NoTornFrame shows that nobody writes the slot meanwhile.        *)
(* Memory is sequentially consistent.                                      *)
(*                                                                         *)
(* Not here: the consumer_* fields, which never touch a slot               *)
(* (AckedTransport adds them); creation, locking and unlinking of the      *)
(* object, writer_pid and its start token (a writer steps only under the   *)
(* exclusive flock); reuse of a dead reader's pid.                         *)
(*                                                                         *)
(* A definition under a comment "Mutant" is not part of the model: it is   *)
(* the definition after it with a plausible bug, which a run must detect.  *)
(***************************************************************************)
EXTENDS Integers, FiniteSets

CONSTANTS
  Readers,     \* reader processes, each named by its pid
  NoPid,       \* pid 0: nobody
  SlotCount,   \* SLOT_COUNT (3 in the code)
  MaxGen,      \* bound: writer generations
  MaxSeq       \* bound: frames per generation

ASSUME ReadersAssumption == NoPid \notin Readers
ASSUME SlotCountAssumption == SlotCount \in Nat \ {0}
ASSUME BoundsAssumption == MaxGen \in Nat /\ MaxSeq \in Nat

Slots == 0 .. SlotCount - 1
InvalidSlot == -1        \* INVALID_SLOT
NoSequence  == -1        \* Option<u64>::None

(***************************************************************************)
(* A frame is named by its generation and sequence.  The bytes of a slot   *)
(* are the frame they came from, or Torn while a copy is under way.        *)
(***************************************************************************)
Frame == [gen : Nat, seq : Nat \cup {NoSequence}]
Torn == [gen |-> 0, seq |-> NoSequence]

(* The 64-bit slot word: a state and, for READING, the owner's pid. *)
SlotWord == [state : {"FREE", "READY", "WRITING"}, owner : {NoPid}]
              \cup [state : {"READING"}, owner : Readers]
Word(state) == [state |-> state, owner |-> NoPid]
Reading(r) == [state |-> "READING", owner |-> r]

VARIABLES
  writerGen,   \* header.writer_generation, 0 when no writer published one
  active,      \* header.active_slot
  nextSeq,     \* header.next_sequence
  slot,        \* slots[s].state
  meta,        \* slots[s].{generation,sequence,...}
  data,        \* the mapped bytes of slot s
  lastGen,     \* the last generation id handed out (never reused)
  wpc,         \* where the writer is
  nextSlot,    \* SharedFrameSink.next_slot
  wtry,        \* slots tried by claim_slot, or reset by reset_for_new_writer
  wslot,       \* the slot send() claimed
  wframe,      \* the frame send() publishes
  rpc,         \* where each reader is
  readerGen,   \* SharedFrameReader.writer_generation
  lastSeq,     \* SharedFrameReader.last_sequence
  pollGen,     \* read_latest_borrowed: the generation loaded by this try
  pollSlot,    \* ... the active slot loaded by this try
  tries,       \* ... tries already spent
  taken,       \* ... the metadata loaded under the lease
  selected,    \* history: the frame active_slot last selected
  floor        \* history: what was selected when pollSlot was loaded

header == <<writerGen, active, nextSeq, selected>>
ring   == <<slot, meta, data>>
send   == <<nextSlot, wtry, wslot, wframe>>
reader == <<rpc, readerGen, lastSeq, pollGen, pollSlot, tries, taken, floor>>
vars == <<header, ring, lastGen, wpc, send, reader>>

WriterPc == {"offline", "resetActive", "resetSlots", "idle", "claim",
             "metadata", "copy", "publish", "select"}
ReaderPc == {"closed", "idle", "generation", "active", "claim", "inspect",
             "retry", "skip", "borrowed", "dead"}

Init ==
  /\ writerGen = 0 /\ active = InvalidSlot /\ nextSeq = 0 /\ selected = Torn
  /\ slot = [s \in Slots |-> Word("FREE")]
  /\ meta = [s \in Slots |-> Torn]
  /\ data = [s \in Slots |-> Torn]
  /\ lastGen = 0 /\ wpc = "offline"
  /\ nextSlot = 0 /\ wtry = 0 /\ wslot = 0 /\ wframe = Torn
  /\ rpc = [r \in Readers |-> "closed"]
  /\ readerGen = [r \in Readers |-> 0]
  /\ lastSeq = [r \in Readers |-> NoSequence]
  /\ pollGen = [r \in Readers |-> 0]
  /\ pollSlot = [r \in Readers |-> 0]
  /\ tries = [r \in Readers |-> 0]
  /\ taken = [r \in Readers |-> Torn]
  /\ floor = [r \in Readers |-> Torn]

(* kill(pid, 0): a reader's process exists until it crashes. *)
Alive(pid) == pid \in Readers /\ rpc[pid] # "dead"

WriterGoto(from, to) == wpc = from /\ wpc' = to
ReaderGoto(r, from, to) == rpc[r] = from /\ rpc' = [rpc EXCEPT ![r] = to]

-----------------------------------------------------------------------------
(* The writer connects: claim_writer publishes a fresh generation, then    *)
(* reset_for_new_writer clears what an earlier generation left.  A new     *)
(* sink begins at slot 0, one that connects again where it left off.       *)

(* Mutant: the generation is not fresh. *)
ClaimWriterSameGeneration ==
  /\ WriterGoto("offline", "resetActive")
  /\ lastGen < MaxGen
  /\ lastGen' = lastGen + 1
  /\ writerGen' = 1
  /\ nextSlot' \in {0, nextSlot} /\ wtry' = 0
  /\ UNCHANGED <<active, nextSeq, selected, ring, wslot, wframe, reader>>

ClaimWriter ==
  /\ WriterGoto("offline", "resetActive")
  /\ lastGen < MaxGen
  /\ lastGen' = lastGen + 1
  /\ writerGen' = lastGen + 1
  /\ nextSlot' \in {0, nextSlot} /\ wtry' = 0
  /\ UNCHANGED <<active, nextSeq, selected, ring, wslot, wframe, reader>>

(* next_sequence is read by the writer alone: its reset rides along. *)
ResetActive ==
  /\ WriterGoto("resetActive", "resetSlots")
  /\ active' = InvalidSlot
  /\ nextSeq' = 0
  /\ UNCHANGED <<writerGen, selected, ring, lastGen, send, reader>>

(* Mutants: leases are reset too; a half-written slot is kept. *)
KeepsNothing(word) == FALSE
KeepsWriting(word) == word.state = "WRITING"

(* A slot leased by a living reader is left to it; any other becomes FREE. *)
KeptByReset(word) == word.state = "READING" /\ Alive(word.owner)

ResetSlot ==
  /\ wpc = "resetSlots"
  /\ slot' = IF KeptByReset(slot[wtry])
               THEN slot
               ELSE [slot EXCEPT ![wtry] = Word("FREE")]
  /\ IF wtry + 1 < SlotCount
       THEN wtry' = wtry + 1 /\ UNCHANGED wpc
       ELSE wtry' = 0 /\ wpc' = "idle"
  /\ UNCHANGED <<header, meta, data, lastGen, nextSlot, wslot, wframe,
                 reader>>

-----------------------------------------------------------------------------
(* send: claim a slot, write it, make it READY, select it. *)

BeginSend ==
  /\ WriterGoto("idle", "claim")
  /\ nextSeq < MaxSeq
  /\ UNCHANGED <<header, ring, lastGen, send, reader>>

(* Mutants: the owner's liveness is not tested, or never concedes a slot. *)
ClaimsLeased(word) == word.state # "WRITING"
ClaimsUnleased(word) == word.state \in {"FREE", "READY"}

(* try_claim_for_write: FREE, READY, or READING by a reader that is gone. *)
ClaimableForWrite(word) ==
  \/ word.state \in {"FREE", "READY"}
  \/ word.state = "READING" /\ ~Alive(word.owner)

(* Mutant: a published frame is not replaced. *)
RefusesReady(word) == word.state # "FREE"

(* It also fails, even on a dead reader's lease, when the compare-exchange *)
(* lost to that reader and the reader died since.                          *)
RefusedForWrite(word) == word.state \in {"READING", "WRITING"}

Candidate == (nextSlot + wtry) % SlotCount

(* Mutant: the cursor does not wrap around. *)
ClaimSlotNoWrap ==
  /\ WriterGoto("claim", "metadata")
  /\ ClaimableForWrite(slot[Candidate])
  /\ slot' = [slot EXCEPT ![Candidate] = Word("WRITING")]
  /\ wslot' = Candidate
  /\ nextSlot' = Candidate + 1
  /\ wtry' = 0
  /\ UNCHANGED <<header, meta, data, lastGen, wframe, reader>>

ClaimSlot ==
  /\ WriterGoto("claim", "metadata")
  /\ ClaimableForWrite(slot[Candidate])
  /\ slot' = [slot EXCEPT ![Candidate] = Word("WRITING")]
  /\ wslot' = Candidate
  /\ nextSlot' = (Candidate + 1) % SlotCount
  /\ wtry' = 0
  /\ UNCHANGED <<header, meta, data, lastGen, wframe, reader>>

(* All slots are busy: the frame is dropped (DropReason::AllSlotsBusy). *)
DropFrame == wtry' = 0 /\ wpc' = "idle"

(* A slot that is refused is followed by the next, up to SLOT_COUNT of them. *)
RefuseSlot ==
  /\ wpc = "claim"
  /\ RefusedForWrite(slot[Candidate])
  /\ IF wtry + 1 < SlotCount
       THEN wtry' = wtry + 1 /\ UNCHANGED wpc
       ELSE DropFrame
  /\ UNCHANGED <<header, ring, lastGen, nextSlot, wslot, wframe, reader>>

(* Takes the sequence and stores the metadata; the copy may begin at once. *)
StoreMetadata ==
  /\ WriterGoto("metadata", "copy")
  /\ wframe' = [gen |-> writerGen, seq |-> nextSeq]
  /\ nextSeq' = nextSeq + 1
  /\ meta' = [meta EXCEPT ![wslot] = wframe']
  /\ data' = [data EXCEPT ![wslot] = Torn]
  /\ UNCHANGED <<writerGen, active, selected, slot, lastGen, nextSlot, wtry,
                 wslot, reader>>

CopyPayload ==
  /\ WriterGoto("copy", "publish")
  /\ data' = [data EXCEPT ![wslot] = wframe]
  /\ UNCHANGED <<header, slot, meta, lastGen, send, reader>>

PublishReady ==
  /\ WriterGoto("publish", "select")
  /\ slot' = [slot EXCEPT ![wslot] = Word("READY")]
  /\ UNCHANGED <<header, meta, data, lastGen, send, reader>>

(* Mutant: the cursor, already advanced, is stored instead of the slot. *)
SelectActiveCursor ==
  /\ WriterGoto("select", "idle")
  /\ active' = nextSlot
  /\ selected' = wframe
  /\ UNCHANGED <<writerGen, nextSeq, ring, lastGen, send, reader>>

SelectActive ==
  /\ WriterGoto("select", "idle")
  /\ active' = wslot
  /\ selected' = wframe
  /\ UNCHANGED <<writerGen, nextSeq, ring, lastGen, send, reader>>

-----------------------------------------------------------------------------
(* The end of a writer.  Dropping the mapping clears the generation and    *)
(* releases the lock; a crash only releases the lock.                      *)

WriterLeaves ==
  /\ wpc' = "offline"
  /\ wtry' = 0 /\ wslot' = 0 /\ wframe' = Torn
  /\ UNCHANGED <<active, nextSeq, selected, ring, lastGen, reader>>

Disconnect ==
  /\ wpc = "idle"
  /\ writerGen' = 0
  /\ WriterLeaves /\ UNCHANGED nextSlot

WriterCrash ==
  /\ wpc # "offline"
  /\ UNCHANGED writerGen
  /\ WriterLeaves /\ nextSlot' = 0

-----------------------------------------------------------------------------
(* The reader: read_latest_borrowed and the release of the borrowed frame. *)

Open(r) ==
  /\ ReaderGoto(r, "closed", "idle")
  /\ readerGen' = [readerGen EXCEPT ![r] = writerGen]
  /\ lastSeq' = [lastSeq EXCEPT ![r] = NoSequence]
  /\ UNCHANGED <<header, ring, lastGen, wpc, send, pollGen, pollSlot, tries,
                 taken, floor>>

(* Locals that go out of scope take their initial values again. *)
ForgetReader(r) ==
  /\ readerGen' = [readerGen EXCEPT ![r] = 0]
  /\ lastSeq' = [lastSeq EXCEPT ![r] = NoSequence]

ForgetTry(r) ==
  /\ pollGen' = [pollGen EXCEPT ![r] = 0]
  /\ pollSlot' = [pollSlot EXCEPT ![r] = 0]
  /\ taken' = [taken EXCEPT ![r] = Torn]
  /\ floor' = [floor EXCEPT ![r] = Torn]

EndPoll(r) ==
  /\ rpc' = [rpc EXCEPT ![r] = "idle"]
  /\ tries' = [tries EXCEPT ![r] = 0]
  /\ ForgetTry(r)

Close(r) ==
  /\ ReaderGoto(r, "idle", "closed")
  /\ ForgetReader(r)
  /\ UNCHANGED <<header, ring, lastGen, wpc, send, pollGen, pollSlot, tries,
                 taken, floor>>

(* The first load of a try: "idle" starts a poll, "generation" retries. *)
LoadGeneration(r) ==
  /\ rpc[r] \in {"idle", "generation"}
  /\ \/ /\ writerGen = 0
        /\ EndPoll(r)
        /\ UNCHANGED <<readerGen, lastSeq>>
     \/ /\ writerGen # 0
        /\ rpc' = [rpc EXCEPT ![r] = "active"]
        /\ pollGen' = [pollGen EXCEPT ![r] = writerGen]
        /\ readerGen' = [readerGen EXCEPT ![r] = writerGen]
        /\ lastSeq' = [lastSeq EXCEPT ![r] =
                         IF writerGen = readerGen[r] THEN @ ELSE NoSequence]
        /\ UNCHANGED <<pollSlot, tries, taken, floor>>
  /\ UNCHANGED <<header, ring, lastGen, wpc, send>>

(* Mutant: slot 0 is taken for "no frame yet". *)
LoadActiveZero(r) ==
  /\ rpc[r] = "active"
  /\ \/ /\ active \in {InvalidSlot, 0}
        /\ EndPoll(r)
     \/ /\ active \notin {InvalidSlot, 0}
        /\ rpc' = [rpc EXCEPT ![r] = "claim"]
        /\ pollSlot' = [pollSlot EXCEPT ![r] = active]
        /\ floor' = [floor EXCEPT ![r] = selected]
        /\ UNCHANGED <<pollGen, tries, taken>>
  /\ UNCHANGED <<header, ring, lastGen, wpc, send, readerGen, lastSeq>>

LoadActive(r) ==
  /\ rpc[r] = "active"
  /\ \/ /\ active = InvalidSlot
        /\ EndPoll(r)
     \/ /\ active # InvalidSlot
        /\ rpc' = [rpc EXCEPT ![r] = "claim"]
        /\ pollSlot' = [pollSlot EXCEPT ![r] = active]
        /\ floor' = [floor EXCEPT ![r] = selected]
        /\ UNCHANGED <<pollGen, tries, taken>>
  /\ UNCHANGED <<header, ring, lastGen, wpc, send, readerGen, lastSeq>>

(* A try that failed is followed by another, up to SLOT_COUNT of them. *)
NextTry(r) ==
  \/ /\ tries[r] + 1 < SlotCount
     /\ rpc' = [rpc EXCEPT ![r] = "generation"]
     /\ tries' = [tries EXCEPT ![r] = @ + 1]
     /\ ForgetTry(r)
  \/ /\ tries[r] + 1 >= SlotCount
     /\ EndPoll(r)

ClaimForRead(r) ==
  /\ rpc[r] = "claim"
  /\ \/ /\ slot[pollSlot[r]] = Word("READY")
        /\ slot' = [slot EXCEPT ![pollSlot[r]] = Reading(r)]
        /\ rpc' = [rpc EXCEPT ![r] = "inspect"]
        /\ UNCHANGED <<pollGen, pollSlot, tries, taken, floor>>
     \/ /\ slot[pollSlot[r]] # Word("READY")
        /\ NextTry(r)
        /\ UNCHANGED slot
  /\ UNCHANGED <<header, meta, data, lastGen, wpc, send, readerGen, lastSeq>>

(* The metadata under the lease: a slot of another generation is retried,  *)
(* a sequence already returned ends the poll, any other is the answer.     *)
Inspect(r) ==
  LET frame == meta[pollSlot[r]] IN
  /\ rpc[r] = "inspect"
  /\ taken' = [taken EXCEPT ![r] = frame]
  /\ \/ /\ frame.gen # pollGen[r]
        /\ rpc' = [rpc EXCEPT ![r] = "retry"]
        /\ UNCHANGED lastSeq
     \/ /\ frame.gen = pollGen[r] /\ frame.seq = lastSeq[r]
        /\ rpc' = [rpc EXCEPT ![r] = "skip"]
        /\ UNCHANGED lastSeq
     \/ /\ frame.gen = pollGen[r] /\ frame.seq # lastSeq[r]
        /\ rpc' = [rpc EXCEPT ![r] = "borrowed"]
        /\ lastSeq' = [lastSeq EXCEPT ![r] = frame.seq]
  /\ UNCHANGED <<header, ring, lastGen, wpc, send, readerGen, pollGen,
                 pollSlot, tries, floor>>

(* ReadSlotGuard::drop stores READY without looking at the word it replaces. *)
Release(r) ==
  /\ \/ rpc[r] \in {"borrowed", "skip"} /\ EndPoll(r)
     \/ rpc[r] = "retry" /\ NextTry(r)
  /\ slot' = [slot EXCEPT ![pollSlot[r]] = Word("READY")]
  /\ UNCHANGED <<header, meta, data, lastGen, wpc, send, readerGen, lastSeq>>

ReaderCrash(r) ==
  /\ rpc[r] # "dead"
  /\ rpc' = [rpc EXCEPT ![r] = "dead"]
  /\ tries' = [tries EXCEPT ![r] = 0]
  /\ ForgetReader(r)
  /\ ForgetTry(r)
  /\ UNCHANGED <<header, ring, lastGen, wpc, send>>

-----------------------------------------------------------------------------
SendStep ==
  \/ ClaimWriter \/ ResetActive \/ ResetSlot
  \/ BeginSend \/ ClaimSlot \/ RefuseSlot \/ StoreMetadata
  \/ CopyPayload \/ PublishReady \/ SelectActive

ReadStep(r) ==
  \/ LoadGeneration(r) \/ LoadActive(r) \/ ClaimForRead(r) \/ Inspect(r)
  \/ Release(r)

Next ==
  \/ SendStep \/ Disconnect \/ WriterCrash
  \/ \E r \in Readers : ReadStep(r) \/ Open(r) \/ Close(r) \/ ReaderCrash(r)

Spec == Init /\ [][Next]_vars

(***************************************************************************)
(* Fairness.  The stream worker polls on every tick and drops the borrowed *)
(* frame when it has copied it; a writer thread runs its straight-line     *)
(* code to the end.  Sending, observing, connecting and crashing are free. *)
(***************************************************************************)
FinishSend ==
  \/ ResetActive \/ ResetSlot \/ ClaimSlot \/ RefuseSlot
  \/ StoreMetadata \/ CopyPayload \/ PublishReady \/ SelectActive

FairSpec ==
  /\ Spec
  /\ WF_vars(FinishSend)
  /\ \A r \in Readers : WF_vars(ReadStep(r))

-----------------------------------------------------------------------------
Leasing == {"inspect", "retry", "skip", "borrowed"}
Writing == {"metadata", "copy", "publish"}

(* Every variable has its type: slot words, frames, indices and counters   *)
(* of the mapping, and the program counters of both sides.                 *)
TypeOK ==
  /\ writerGen \in Nat /\ lastGen \in Nat /\ nextSeq \in Nat
  /\ active \in Slots \cup {InvalidSlot}
  /\ selected \in Frame
  /\ slot \in [Slots -> SlotWord]
  /\ meta \in [Slots -> Frame] /\ data \in [Slots -> Frame]
  /\ wpc \in WriterPc
  /\ nextSlot \in Slots /\ wtry \in Slots /\ wslot \in Slots
  /\ wframe \in Frame
  /\ rpc \in [Readers -> ReaderPc]
  /\ readerGen \in [Readers -> Nat] /\ pollGen \in [Readers -> Nat]
  /\ lastSeq \in [Readers -> Nat \cup {NoSequence}]
  /\ pollSlot \in [Readers -> Slots]
  /\ tries \in [Readers -> Nat]
  /\ taken \in [Readers -> Frame] /\ floor \in [Readers -> Frame]

(* While a reader answers a poll with a frame, up to the drop of the       *)
(* borrow, the mapped bytes are exactly the frame whose generation and     *)
(* sequence it reports, and the slot is leased to it: no writer, restarted *)
(* or not, touches them (the SAFETY comment of read_latest_borrowed).      *)
NoTornFrame ==
  \A r \in Readers : rpc[r] = "borrowed" =>
    /\ slot[pollSlot[r]] = Reading(r)
    /\ data[pollSlot[r]] = taken[r]

(* A writer that is connected and not writing can claim every slot, except *)
(* those a living reader is really inside of: neither a crashed writer nor *)
(* a crashed reader costs a slot for good.                                 *)
NoSlotLeaks ==
  wpc \in {"idle", "claim"} =>
    \A s \in Slots :
      \/ ClaimableForWrite(slot[s])
      \/ \E r \in Readers :
           slot[s] = Reading(r) /\ pollSlot[r] = s /\ rpc[r] \in Leasing

(* The frame a poll answers with is never older than the one active_slot   *)
(* had selected when the poll loaded it, although the slot may be rewritten *)
(* and the writer restarted between that load and the claim.               *)
NotOlder(f, g) == f.gen > g.gen \/ (f.gen = g.gen /\ f.seq >= g.seq)

FreshFrame ==
  \A r \in Readers : rpc[r] = "borrowed" => NotOlder(taken[r], floor[r])

(* A reader that answers twice in a generation may step back, although the *)
(* README has it "skip stale frames", but only to the frame just before:   *)
(* the one still selected while the writer is between publish_ready and    *)
(* the store of active_slot, its successor having been read from a slot    *)
(* the reader had loaded before the ring wrapped around to it.             *)
StepsBackAtMostOne ==
  [][\A r \in Readers :
       /\ readerGen'[r] = readerGen[r]
       /\ lastSeq[r] # NoSequence /\ lastSeq'[r] # NoSequence
       => lastSeq'[r] >= lastSeq[r] - 1]_vars

(* AllSlotsBusy takes two readers: a single one, alive, restarted behind a *)
(* stale active_slot or crashed inside a lease, is never in the way of     *)
(* all three slots during one send.                                        *)
OneReaderNeverDrops ==
  [][wpc = "claim" /\ wpc' = "idle" => Cardinality(Readers) > 1]_vars

(* When the writer stays connected and stops sending, a reader that stays  *)
(* open answers with the frame that was selected last.                     *)
LatestIsRead ==
  \A r \in Readers :
    <>[](wpc = "idle" /\ active # InvalidSlot) =>
      []<>(\/ rpc[r] \in {"closed", "dead"}
           \/ readerGen[r] = writerGen /\ lastSeq[r] = selected.seq)

-----------------------------------------------------------------------------
(* The inductive invariant behind the safety properties. *)

(* A lease and the slot word agree: a reader inside a lease owns its slot, *)
(* and a living owner is inside that lease.                                *)
LeaseHeld ==
  \A r \in Readers : rpc[r] \in Leasing => slot[pollSlot[r]] = Reading(r)
OwnerInside ==
  \A r \in Readers, s \in Slots :
    slot[s] = Reading(r) /\ rpc[r] # "dead" =>
      rpc[r] \in Leasing /\ pollSlot[r] = s

(* A WRITING slot is the one the writer fills, or one that the reset of    *)
(* the next writer still has ahead of it.                                  *)
WriterHolds == wpc \in Writing => slot[wslot] = Word("WRITING")
WritingAccounted ==
  /\ wpc = "resetActive" => wtry = 0
  /\ \A s \in Slots : slot[s] = Word("WRITING") =>
       \/ wpc \in Writing /\ s = wslot
       \/ wpc \in {"offline", "resetActive"}
       \/ wpc = "resetSlots" /\ s >= wtry

(* The bytes follow the metadata: in step in every slot a reader may lease, *)
(* one step behind in the slot being written.                              *)
WholeWhenLeasable ==
  \A s \in Slots : slot[s].state \in {"READY", "READING"} => data[s] = meta[s]
FilledSoFar ==
  /\ wpc \in {"copy", "publish"} => meta[wslot] = wframe
  /\ wpc = "publish" => data[wslot] = wframe
TakenIsMeta ==
  \A r \in Readers :
    rpc[r] \in {"retry", "skip", "borrowed"} => taken[r] = meta[pollSlot[r]]

IInv ==
  /\ TypeOK
  /\ LeaseHeld /\ OwnerInside /\ WriterHolds /\ WritingAccounted
  /\ WholeWhenLeasable /\ FilledSoFar /\ TakenIsMeta

-----------------------------------------------------------------------------
(* The inductive invariant behind the order of frames.  Frames are ordered *)
(* by generation, then sequence; the writer's next frame is newer than any *)
(* frame in the ring, selected, or seen by a reader.                       *)

Online == wpc \notin {"offline", "resetActive"}
InFlight == wpc \in {"copy", "publish", "select"}
Leasable(s) == slot[s].state \in {"READY", "READING"}
Seen(r) == [gen |-> readerGen[r], seq |-> lastSeq[r]]
PublishedFrame == [gen : 1 .. MaxGen, seq : 0 .. MaxSeq - 1]

(* f is at most one frame ahead of g. *)
OneAhead(f, g) == g.gen > f.gen \/ (g.gen = f.gen /\ f.seq <= g.seq + 1)

(* f was numbered by an earlier writer, or already by this one. *)
Issued(f) ==
  /\ f.gen <= lastGen
  /\ wpc = "resetActive" /\ f.gen = lastGen => f.seq < 0
  /\ Online /\ f.gen = lastGen => f.seq < nextSeq
RingIssued == Issued(selected) /\ \A s \in Slots : Issued(meta[s])

(* The generation published is that of the writer which is there; both     *)
(* numbers stay within their bounds.                                       *)
Numbering ==
  /\ lastGen <= MaxGen /\ writerGen <= lastGen
  /\ wpc # "offline" => writerGen = lastGen /\ lastGen > 0
  /\ Online => nextSeq <= MaxSeq
  /\ wpc \in {"claim", "metadata"} => nextSeq < MaxSeq

(* From its metadata to its selection the writer's frame is the newest, it *)
(* stays in its slot, and readers may lease it before it is selected.      *)
NewestInFlight ==
  InFlight =>
    /\ nextSeq > 0
    /\ wframe = [gen |-> lastGen, seq |-> nextSeq - 1]
    /\ meta[wslot] = wframe
    /\ \A s \in Slots \ {wslot} : NotOlder(wframe, meta[s]) /\ meta[s] # wframe
    /\ wpc = "select" => Leasable(wslot)

(* Once the active slot has been reset, what is selected is the frame just *)
(* before the one in flight, or the last one written.                      *)
SelectedIsLast ==
  Online /\ active # InvalidSlot =>
    selected = [gen |-> lastGen, seq |-> nextSeq - (IF InFlight THEN 2 ELSE 1)]

(* The selected slot holds what was selected, or something newer; nothing  *)
(* a reader can lease is more than one frame ahead of it.                  *)
ActiveOrder ==
  active # InvalidSlot =>
    /\ NotOlder(meta[active], selected)
    /\ \A s \in Slots : Leasable(s) => OneAhead(meta[s], selected)

(* Only published frames can be leased. *)
LeasablePublished ==
  \A s \in Slots : Leasable(s) => meta[s] \in PublishedFrame

(* The frame a reader saw last is at most one ahead of what is selected,   *)
(* and of what it found selected in this poll; the slot it then loaded     *)
(* holds that frame, or a newer one.                                       *)
ReaderOrder(r) ==
  /\ Issued(Seen(r))
  /\ rpc[r] \in {"active", "claim", "inspect"} => pollGen[r] = readerGen[r]
  /\ rpc[r] \in Leasing \cup {"claim"} => NotOlder(meta[pollSlot[r]], floor[r])
  /\ lastSeq[r] # NoSequence =>
       /\ active # InvalidSlot => OneAhead(Seen(r), selected)
       /\ rpc[r] \in {"claim", "inspect"} => OneAhead(Seen(r), floor[r])

OrderInv ==
  /\ Numbering /\ RingIssued /\ NewestInFlight /\ SelectedIsLast
  /\ ActiveOrder /\ LeasablePublished
  /\ \A r \in Readers : ReaderOrder(r)

-----------------------------------------------------------------------------
(* Behind OneReaderNeverDrops: during a sweep active_slot does not change, *)
(* so a single reader can only be met in the slot it was in already and in *)
(* the active one.                                                         *)

OneLease ==
  \A r \in Readers : \A s, t \in Slots :
    slot[s] = Reading(r) /\ slot[t] = Reading(r) => s = t

Sweep ==
  /\ wtry # 0 => wpc \in {"resetSlots", "claim"}
  /\ wpc = "claim" /\ wtry # 0 =>
       /\ \A s \in Slots : slot[s].state = "READING" => s \in {nextSlot, active}
       /\ \A r \in Readers : rpc[r] = "claim" => pollSlot[r] \in {nextSlot, active}
       /\ wtry # 1 => wtry = 2 /\ active = (nextSlot + 1) % SlotCount

-----------------------------------------------------------------------------
(* The ring as a mailbox: the frames in READY and READING slots, and for   *)
(* each reader the bytes it has borrowed.                                  *)
Available == {data[s] : s \in {t \in Slots : slot[t].state \in {"READY", "READING"}}}

Mailbox ==
  INSTANCE LatestFrame
    WITH Frame   <- PublishedFrame,
         Nothing <- Torn,
         frames  <- Available,
         current <- selected,
         held    <- [r \in Readers |->
                       IF rpc[r] = "borrowed" THEN data[pollSlot[r]] ELSE Torn],
         since   <- floor

(* The slot protocol implements the mailbox of whole frames: what a reader *)
(* holds is one published frame, unchanged until it is released.           *)
ImplementsLatestFrame == Mailbox!Spec
=============================================================================
