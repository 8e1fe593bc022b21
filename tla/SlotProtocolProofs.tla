------------------------- MODULE SlotProtocolProofs -------------------------
(***************************************************************************)
(* Proofs about SlotTransport and AckedTransport, for every number of      *)
(* readers, slots, frames and writer generations: first what a slot holds  *)
(* and who may touch it, then the order of the frames it hands over, then  *)
(* the acknowledgements that go the other way.                             *)
(***************************************************************************)
EXTENDS AckedTransport, FiniteSetTheorems, TLAPS

(* Candidate is a slot: the round-robin cursor never leaves the ring. *)
LEMMA ModInRange ==
  ASSUME NEW n \in Nat
  PROVE  n % SlotCount \in Slots
  BY SlotCountAssumption DEF Slots

(* Slot words, so that no later proof opens the encoding. *)
LEMMA WordFacts ==
  /\ \A x \in {"FREE", "READY", "WRITING"} :
       Word(x) \in SlotWord /\ Word(x).state = x
  /\ \A r \in Readers :
       /\ Reading(r) \in SlotWord
       /\ Reading(r).state = "READING" /\ Reading(r).owner = r
  /\ \A w \in SlotWord :
       /\ w.state = "READING" => w.owner \in Readers /\ w = Reading(w.owner)
       /\ w.state # "READING" =>
            w.state \in {"FREE", "READY", "WRITING"} /\ w = Word(w.state)
  BY DEF SlotWord, Word, Reading

LEMMA FrameFacts ==
  /\ Torn \in Frame
  /\ \A g, n \in Nat : [gen |-> g, seq |-> n] \in Frame
  /\ \A f \in Frame : f.gen \in Nat /\ f.seq \in Nat \cup {NoSequence}
  BY DEF Frame, Torn, NoSequence

LEMMA CandidateInSlots ==
  ASSUME TypeOK
  PROVE  Candidate \in Slots /\ (Candidate + 1) % SlotCount \in Slots
<1>1. nextSlot + wtry \in Nat
  BY SlotCountAssumption DEF TypeOK, Slots
<1>2. Candidate \in Slots
  BY <1>1, ModInRange DEF Candidate
<1>3. Candidate + 1 \in Nat
  BY <1>2, SlotCountAssumption DEF Slots
<1> QED  BY <1>2, <1>3, ModInRange

(* What a reader forgets when a try ends, and what that leaves alone. *)
Others(r) ==
  \A q \in Readers \ {r} :
    /\ rpc'[q] = rpc[q] /\ taken'[q] = taken[q]
    /\ pollGen'[q] = pollGen[q] /\ pollSlot'[q] = pollSlot[q]
    /\ floor'[q] = floor[q]

PollTypes ==
  /\ rpc' \in [Readers -> ReaderPc] /\ tries' \in [Readers -> Nat]
  /\ pollGen' \in [Readers -> Nat] /\ pollSlot' \in [Readers -> Slots]
  /\ taken' \in [Readers -> Frame] /\ floor' \in [Readers -> Frame]

LEMMA ForgetTryFacts ==
  ASSUME TypeOK, NEW r \in Readers, ForgetTry(r)
  PROVE  /\ pollGen' \in [Readers -> Nat] /\ pollSlot' \in [Readers -> Slots]
         /\ taken' \in [Readers -> Frame] /\ floor' \in [Readers -> Frame]
         /\ \A q \in Readers \ {r} :
              /\ pollGen'[q] = pollGen[q] /\ pollSlot'[q] = pollSlot[q]
              /\ taken'[q] = taken[q] /\ floor'[q] = floor[q]
  BY SlotCountAssumption, FrameFacts DEF ForgetTry, TypeOK, Slots

LEMMA EndPollFacts ==
  ASSUME TypeOK, NEW r \in Readers, EndPoll(r)
  PROVE  PollTypes /\ Others(r) /\ rpc'[r] = "idle"
<1>1. /\ rpc' \in [Readers -> ReaderPc] /\ tries' \in [Readers -> Nat]
      /\ rpc'[r] = "idle"
      /\ \A q \in Readers \ {r} : rpc'[q] = rpc[q]
  BY DEF EndPoll, TypeOK, ReaderPc
<1>2. ForgetTry(r)
  BY DEF EndPoll
<1> QED  BY <1>1, <1>2, ForgetTryFacts DEF PollTypes, Others

LEMMA NextTryFacts ==
  ASSUME TypeOK, NEW r \in Readers, NextTry(r)
  PROVE  PollTypes /\ Others(r) /\ rpc'[r] \in {"idle", "generation"}
<1>1. CASE EndPoll(r)
  BY <1>1, EndPollFacts
<1>2. CASE /\ rpc' = [rpc EXCEPT ![r] = "generation"]
           /\ tries' = [tries EXCEPT ![r] = @ + 1]
           /\ ForgetTry(r)
  <2>1. /\ rpc' \in [Readers -> ReaderPc] /\ tries' \in [Readers -> Nat]
        /\ rpc'[r] = "generation"
        /\ \A q \in Readers \ {r} : rpc'[q] = rpc[q]
    BY <1>2 DEF TypeOK, ReaderPc
  <2> QED  BY <1>2, <2>1, ForgetTryFacts DEF PollTypes, Others
<1> QED  BY <1>1, <1>2 DEF NextTry

(* A reader that steps outside its lease, or dies, disturbs nothing but    *)
(* the types.                                                              *)
LEMMA StepsAside ==
  ASSUME IInv, NEW r \in Readers, Others(r),
         rpc'[r] \notin Leasing,
         rpc'[r] = "dead" \/ (rpc[r] \notin Leasing /\ rpc[r] # "dead"),
         UNCHANGED <<slot, meta, data, wpc, wslot, wtry, wframe>>
  PROVE  /\ LeaseHeld' /\ OwnerInside' /\ TakenIsMeta'
         /\ WriterHolds' /\ WritingAccounted'
         /\ WholeWhenLeasable' /\ FilledSoFar'
<1>1. LeaseHeld'
  BY DEF IInv, LeaseHeld, Others
<1>2. OwnerInside'
  BY DEF IInv, OwnerInside, Others
<1>3. TakenIsMeta'
  BY DEF IInv, TakenIsMeta, Others, Leasing
<1>4. WriterHolds' /\ WritingAccounted' /\ WholeWhenLeasable' /\ FilledSoFar'
  BY DEF IInv, WriterHolds, WritingAccounted, WholeWhenLeasable, FilledSoFar
<1> QED  BY <1>1, <1>2, <1>3, <1>4

LEMMA InitIInv == Init => IInv
  BY SlotCountAssumption, ReadersAssumption, WordFacts, FrameFacts
  DEF Init, IInv, TypeOK, LeaseHeld, OwnerInside, WriterHolds, WritingAccounted,
      WholeWhenLeasable, FilledSoFar, TakenIsMeta, Slots, InvalidSlot, NoSequence,
      WriterPc, ReaderPc, Leasing, Writing

LEMMA NextIInv == IInv /\ [Next]_vars => IInv'
<1> SUFFICES ASSUME IInv, [Next]_vars PROVE IInv'
  OBVIOUS
<1>0. TypeOK /\ LeaseHeld /\ OwnerInside /\ WriterHolds /\ WritingAccounted
      /\ WholeWhenLeasable /\ FilledSoFar /\ TakenIsMeta
  BY DEF IInv
<1> USE SlotCountAssumption, ReadersAssumption
<1>1. CASE ClaimWriter
  <2>1. TypeOK'
    BY <1>0, <1>1, WordFacts, FrameFacts
      DEF ClaimWriter, WriterGoto, TypeOK, Slots, WriterPc, ReaderPc,
          InvalidSlot, NoSequence, header, ring, send, reader
  <2>2. WriterHolds'
    BY <1>0, <1>1, WordFacts, FrameFacts
      DEF ClaimWriter, WriterGoto, TypeOK, WriterHolds, LeaseHeld, Slots,
          Leasing, Writing, header, ring, send, reader
  <2>3. WritingAccounted'
    BY <1>0, <1>1, WordFacts, FrameFacts
      DEF ClaimWriter, WriterGoto, TypeOK, WritingAccounted, WriterHolds,
          LeaseHeld, Slots, Leasing, Writing, header, ring, send, reader
  <2>4. FilledSoFar'
    BY <1>0, <1>1, WordFacts, FrameFacts
      DEF ClaimWriter, WriterGoto, TypeOK, FilledSoFar, WriterHolds, Slots,
          Writing, header, ring, send, reader
  <2>5. LeaseHeld' /\ OwnerInside' /\ WholeWhenLeasable' /\ TakenIsMeta'
    BY <1>0, <1>1
      DEF ClaimWriter, WriterGoto, LeaseHeld, OwnerInside, WholeWhenLeasable,
          TakenIsMeta, header, ring, send, reader
  <2> QED
    BY <2>1, <2>2, <2>3, <2>4, <2>5 DEF IInv
<1>2. CASE ResetActive
  <2>1. TypeOK'
    BY <1>0, <1>2, WordFacts, FrameFacts
      DEF ResetActive, WriterGoto, TypeOK, Slots, WriterPc, ReaderPc,
          InvalidSlot, NoSequence, header, ring, send, reader
  <2>2. WriterHolds'
    BY <1>0, <1>2, WordFacts, FrameFacts
      DEF ResetActive, WriterGoto, TypeOK, WriterHolds, LeaseHeld, Slots,
          Leasing, Writing, header, ring, send, reader
  <2>3. WritingAccounted'
    BY <1>0, <1>2, WordFacts, FrameFacts
      DEF ResetActive, WriterGoto, TypeOK, WritingAccounted, WriterHolds,
          LeaseHeld, Slots, Leasing, Writing, header, ring, send, reader
  <2>4. FilledSoFar'
    BY <1>0, <1>2, WordFacts, FrameFacts
      DEF ResetActive, WriterGoto, TypeOK, FilledSoFar, WriterHolds, Slots,
          Writing, header, ring, send, reader
  <2>5. LeaseHeld' /\ OwnerInside' /\ WholeWhenLeasable' /\ TakenIsMeta'
    BY <1>0, <1>2
      DEF ResetActive, WriterGoto, LeaseHeld, OwnerInside, WholeWhenLeasable,
          TakenIsMeta, header, ring, send, reader
  <2> QED
    BY <2>1, <2>2, <2>3, <2>4, <2>5 DEF IInv
<1>3. CASE ResetSlot
  <2>1. TypeOK'
    BY <1>0, <1>3, WordFacts, FrameFacts
      DEF ResetSlot, KeptByReset, Alive, WriterGoto, TypeOK, Slots, WriterPc,
          ReaderPc, InvalidSlot, NoSequence, header, ring, send, reader
  <2>2. LeaseHeld'
    BY <1>0, <1>3, WordFacts, FrameFacts
      DEF ResetSlot, KeptByReset, Alive, WriterGoto, TypeOK, LeaseHeld, Slots,
          Leasing, header, ring, send, reader
  <2>3. OwnerInside'
    BY <1>0, <1>3, WordFacts, FrameFacts
      DEF ResetSlot, KeptByReset, Alive, WriterGoto, TypeOK, LeaseHeld,
          OwnerInside, Slots, Leasing, header, ring, send, reader
  <2>4. WriterHolds'
    BY <1>0, <1>3, WordFacts, FrameFacts
      DEF ResetSlot, KeptByReset, Alive, WriterGoto, TypeOK, WriterHolds,
          LeaseHeld, Slots, Leasing, Writing, header, ring, send, reader
  <2>5. WritingAccounted'
    BY <1>0, <1>3, WordFacts, FrameFacts
      DEF ResetSlot, KeptByReset, Alive, WriterGoto, TypeOK, WritingAccounted,
          WriterHolds, LeaseHeld, Slots, Leasing, Writing, header, ring, send,
          reader
  <2>6. WholeWhenLeasable'
    BY <1>0, <1>3, WordFacts, FrameFacts
      DEF ResetSlot, KeptByReset, Alive, WriterGoto, TypeOK,
          WholeWhenLeasable, WriterHolds, FilledSoFar, LeaseHeld, Slots,
          Leasing, Writing, header, ring, send, reader
  <2>7. FilledSoFar'
    BY <1>0, <1>3, WordFacts, FrameFacts
      DEF ResetSlot, KeptByReset, Alive, WriterGoto, TypeOK, FilledSoFar,
          WriterHolds, Slots, Writing, header, ring, send, reader
  <2>8. TakenIsMeta'
    BY <1>0, <1>3
      DEF ResetSlot, KeptByReset, Alive, WriterGoto, TakenIsMeta, header,
          ring, send, reader
  <2> QED
    BY <2>1, <2>2, <2>3, <2>4, <2>5, <2>6, <2>7, <2>8 DEF IInv
<1>4. CASE BeginSend
  <2>1. TypeOK'
    BY <1>0, <1>4, WordFacts, FrameFacts
      DEF BeginSend, WriterGoto, TypeOK, Slots, WriterPc, ReaderPc,
          InvalidSlot, NoSequence, header, ring, send, reader
  <2>2. WriterHolds'
    BY <1>0, <1>4, WordFacts, FrameFacts
      DEF BeginSend, WriterGoto, TypeOK, WriterHolds, LeaseHeld, Slots,
          Leasing, Writing, header, ring, send, reader
  <2>3. WritingAccounted'
    BY <1>0, <1>4, WordFacts, FrameFacts
      DEF BeginSend, WriterGoto, TypeOK, WritingAccounted, WriterHolds,
          LeaseHeld, Slots, Leasing, Writing, header, ring, send, reader
  <2>4. FilledSoFar'
    BY <1>0, <1>4, WordFacts, FrameFacts
      DEF BeginSend, WriterGoto, TypeOK, FilledSoFar, WriterHolds, Slots,
          Writing, header, ring, send, reader
  <2>5. LeaseHeld' /\ OwnerInside' /\ WholeWhenLeasable' /\ TakenIsMeta'
    BY <1>0, <1>4
      DEF BeginSend, WriterGoto, LeaseHeld, OwnerInside, WholeWhenLeasable,
          TakenIsMeta, header, ring, send, reader
  <2> QED
    BY <2>1, <2>2, <2>3, <2>4, <2>5 DEF IInv
<1>5. CASE ClaimSlot
  <2>1. TypeOK'
    BY <1>0, <1>5, WordFacts, FrameFacts, CandidateInSlots
      DEF ClaimSlot, ClaimableForWrite, Alive, WriterGoto, TypeOK, Slots,
          WriterPc, ReaderPc, InvalidSlot, NoSequence, header, ring, send,
          reader
  <2>2. LeaseHeld'
    BY <1>0, <1>5, WordFacts, FrameFacts, CandidateInSlots
      DEF ClaimSlot, ClaimableForWrite, Alive, WriterGoto, TypeOK, LeaseHeld,
          Slots, Leasing, header, ring, send, reader
  <2>3. OwnerInside'
    BY <1>0, <1>5, WordFacts, FrameFacts, CandidateInSlots
      DEF ClaimSlot, ClaimableForWrite, Alive, WriterGoto, TypeOK, LeaseHeld,
          OwnerInside, Slots, Leasing, header, ring, send, reader
  <2>4. WriterHolds'
    BY <1>0, <1>5, WordFacts, FrameFacts, CandidateInSlots
      DEF ClaimSlot, ClaimableForWrite, Alive, WriterGoto, TypeOK,
          WriterHolds, LeaseHeld, Slots, Leasing, Writing, header, ring, send,
          reader
  <2>5. WritingAccounted'
    BY <1>0, <1>5, WordFacts, FrameFacts, CandidateInSlots
      DEF ClaimSlot, ClaimableForWrite, Alive, WriterGoto, TypeOK,
          WritingAccounted, WriterHolds, LeaseHeld, Slots, Leasing, Writing,
          header, ring, send, reader
  <2>6. WholeWhenLeasable'
    BY <1>0, <1>5, WordFacts, FrameFacts, CandidateInSlots
      DEF ClaimSlot, ClaimableForWrite, Alive, WriterGoto, TypeOK,
          WholeWhenLeasable, WriterHolds, FilledSoFar, LeaseHeld, Slots,
          Leasing, Writing, header, ring, send, reader
  <2>7. FilledSoFar'
    BY <1>0, <1>5, WordFacts, FrameFacts, CandidateInSlots
      DEF ClaimSlot, ClaimableForWrite, Alive, WriterGoto, TypeOK,
          FilledSoFar, WriterHolds, Slots, Writing, header, ring, send, reader
  <2>8. TakenIsMeta'
    BY <1>0, <1>5
      DEF ClaimSlot, ClaimableForWrite, Alive, WriterGoto, TakenIsMeta,
          header, ring, send, reader
  <2> QED
    BY <2>1, <2>2, <2>3, <2>4, <2>5, <2>6, <2>7, <2>8 DEF IInv
<1>6. CASE RefuseSlot
  <2>1. TypeOK'
    BY <1>0, <1>6, WordFacts, FrameFacts
      DEF RefuseSlot, DropFrame, TypeOK, Slots, WriterPc, ReaderPc,
          InvalidSlot, NoSequence, header, ring, send, reader
  <2>2. WritingAccounted'
    BY <1>0, <1>6, WordFacts, FrameFacts
      DEF RefuseSlot, DropFrame, TypeOK, WritingAccounted, WriterHolds,
          LeaseHeld, Slots, Leasing, Writing, header, ring, send, reader
  <2>3. WriterHolds' /\ FilledSoFar'
    BY <1>0, <1>6
      DEF RefuseSlot, DropFrame, WriterHolds, FilledSoFar, Writing, ring, send
  <2>4. LeaseHeld' /\ OwnerInside' /\ WholeWhenLeasable' /\ TakenIsMeta'
    BY <1>0, <1>6
      DEF RefuseSlot, DropFrame, LeaseHeld, OwnerInside, WholeWhenLeasable,
          TakenIsMeta, header, ring, send, reader
  <2> QED
    BY <2>1, <2>2, <2>3, <2>4 DEF IInv
<1>7. CASE StoreMetadata
  <2>1. TypeOK'
    BY <1>0, <1>7, WordFacts, FrameFacts
      DEF StoreMetadata, WriterGoto, TypeOK, Slots, WriterPc, ReaderPc,
          InvalidSlot, NoSequence, header, ring, send, reader
  <2>2. WriterHolds'
    BY <1>0, <1>7, WordFacts, FrameFacts
      DEF StoreMetadata, WriterGoto, TypeOK, WriterHolds, LeaseHeld, Slots,
          Leasing, Writing, header, ring, send, reader
  <2>3. WritingAccounted'
    BY <1>0, <1>7, WordFacts, FrameFacts
      DEF StoreMetadata, WriterGoto, TypeOK, WritingAccounted, WriterHolds,
          LeaseHeld, Slots, Leasing, Writing, header, ring, send, reader
  <2>4. WholeWhenLeasable'
    BY <1>0, <1>7, WordFacts, FrameFacts
      DEF StoreMetadata, WriterGoto, TypeOK, WholeWhenLeasable, WriterHolds,
          FilledSoFar, LeaseHeld, Slots, Leasing, Writing, header, ring, send,
          reader
  <2>5. FilledSoFar'
    BY <1>0, <1>7, WordFacts, FrameFacts
      DEF StoreMetadata, WriterGoto, TypeOK, FilledSoFar, WriterHolds, Slots,
          Writing, header, ring, send, reader
  <2>6. TakenIsMeta'
    BY <1>0, <1>7, WordFacts, FrameFacts
      DEF StoreMetadata, WriterGoto, TypeOK, TakenIsMeta, LeaseHeld,
          WriterHolds, Slots, Leasing, Writing, header, ring, send, reader
  <2>7. LeaseHeld' /\ OwnerInside'
    BY <1>0, <1>7
      DEF StoreMetadata, WriterGoto, LeaseHeld, OwnerInside, header, ring,
          send, reader
  <2> QED
    BY <2>1, <2>2, <2>3, <2>4, <2>5, <2>6, <2>7 DEF IInv
<1>8. CASE CopyPayload
  <2>1. TypeOK'
    BY <1>0, <1>8, WordFacts, FrameFacts
      DEF CopyPayload, WriterGoto, TypeOK, Slots, WriterPc, ReaderPc,
          InvalidSlot, NoSequence, header, ring, send, reader
  <2>2. WriterHolds'
    BY <1>0, <1>8, WordFacts, FrameFacts
      DEF CopyPayload, WriterGoto, TypeOK, WriterHolds, LeaseHeld, Slots,
          Leasing, Writing, header, ring, send, reader
  <2>3. WritingAccounted'
    BY <1>0, <1>8, WordFacts, FrameFacts
      DEF CopyPayload, WriterGoto, TypeOK, WritingAccounted, WriterHolds,
          LeaseHeld, Slots, Leasing, Writing, header, ring, send, reader
  <2>4. WholeWhenLeasable'
    BY <1>0, <1>8, WordFacts, FrameFacts
      DEF CopyPayload, WriterGoto, TypeOK, WholeWhenLeasable, WriterHolds,
          FilledSoFar, LeaseHeld, Slots, Leasing, Writing, header, ring, send,
          reader
  <2>5. FilledSoFar'
    BY <1>0, <1>8, WordFacts, FrameFacts
      DEF CopyPayload, WriterGoto, TypeOK, FilledSoFar, WriterHolds, Slots,
          Writing, header, ring, send, reader
  <2>6. LeaseHeld' /\ OwnerInside' /\ TakenIsMeta'
    BY <1>0, <1>8
      DEF CopyPayload, WriterGoto, LeaseHeld, OwnerInside, TakenIsMeta,
          header, ring, send, reader
  <2> QED
    BY <2>1, <2>2, <2>3, <2>4, <2>5, <2>6 DEF IInv
<1>9. CASE PublishReady
  <2>1. TypeOK'
    BY <1>0, <1>9, WordFacts, FrameFacts
      DEF PublishReady, WriterGoto, TypeOK, Slots, WriterPc, ReaderPc,
          InvalidSlot, NoSequence, header, ring, send, reader
  <2>2. LeaseHeld'
    <3>1. slot' = [slot EXCEPT ![wslot] = Word("READY")] /\ UNCHANGED reader
      BY <1>9 DEF PublishReady
    <3>2. slot[wslot] = Word("WRITING")
      BY <1>0, <1>9 DEF PublishReady, WriterGoto, WriterHolds, Writing
    <3>3. \A q \in Readers : rpc[q] \in Leasing => pollSlot[q] # wslot
      BY <1>0, <3>2, WordFacts DEF LeaseHeld, TypeOK
    <3> QED  BY <1>0, <3>1, <3>3 DEF LeaseHeld, TypeOK, reader
  <2>3. OwnerInside'
    BY <1>0, <1>9, WordFacts, FrameFacts
      DEF PublishReady, WriterGoto, TypeOK, LeaseHeld, OwnerInside, Slots,
          Leasing, header, ring, send, reader
  <2>4. WriterHolds'
    BY <1>0, <1>9, WordFacts, FrameFacts
      DEF PublishReady, WriterGoto, TypeOK, WriterHolds, LeaseHeld, Slots,
          Leasing, Writing, header, ring, send, reader
  <2>5. WritingAccounted'
    BY <1>0, <1>9, WordFacts, FrameFacts
      DEF PublishReady, WriterGoto, TypeOK, WritingAccounted, WriterHolds,
          LeaseHeld, Slots, Leasing, Writing, header, ring, send, reader
  <2>6. WholeWhenLeasable'
    BY <1>0, <1>9, WordFacts, FrameFacts
      DEF PublishReady, WriterGoto, TypeOK, WholeWhenLeasable, WriterHolds,
          FilledSoFar, LeaseHeld, Slots, Leasing, Writing, header, ring, send,
          reader
  <2>7. FilledSoFar'
    BY <1>0, <1>9, WordFacts, FrameFacts
      DEF PublishReady, WriterGoto, TypeOK, FilledSoFar, WriterHolds, Slots,
          Writing, header, ring, send, reader
  <2>8. TakenIsMeta'
    BY <1>0, <1>9
      DEF PublishReady, WriterGoto, TakenIsMeta, header, ring, send, reader
  <2> QED
    BY <2>1, <2>2, <2>3, <2>4, <2>5, <2>6, <2>7, <2>8 DEF IInv
<1>10. CASE SelectActive
  <2>1. TypeOK'
    BY <1>0, <1>10, WordFacts, FrameFacts
      DEF SelectActive, WriterGoto, TypeOK, Slots, WriterPc, ReaderPc,
          InvalidSlot, NoSequence, header, ring, send, reader
  <2>2. WriterHolds'
    BY <1>0, <1>10, WordFacts, FrameFacts
      DEF SelectActive, WriterGoto, TypeOK, WriterHolds, LeaseHeld, Slots,
          Leasing, Writing, header, ring, send, reader
  <2>3. WritingAccounted'
    BY <1>0, <1>10, WordFacts, FrameFacts
      DEF SelectActive, WriterGoto, TypeOK, WritingAccounted, WriterHolds,
          LeaseHeld, Slots, Leasing, Writing, header, ring, send, reader
  <2>4. FilledSoFar'
    BY <1>0, <1>10, WordFacts, FrameFacts
      DEF SelectActive, WriterGoto, TypeOK, FilledSoFar, WriterHolds, Slots,
          Writing, header, ring, send, reader
  <2>5. LeaseHeld' /\ OwnerInside' /\ WholeWhenLeasable' /\ TakenIsMeta'
    BY <1>0, <1>10
      DEF SelectActive, WriterGoto, LeaseHeld, OwnerInside, WholeWhenLeasable,
          TakenIsMeta, header, ring, send, reader
  <2> QED
    BY <2>1, <2>2, <2>3, <2>4, <2>5 DEF IInv
<1>11. CASE Disconnect
  <2>1. TypeOK'
    BY <1>0, <1>11, WordFacts, FrameFacts
      DEF Disconnect, WriterLeaves, WriterGoto, TypeOK, Slots, WriterPc,
          ReaderPc, InvalidSlot, NoSequence, header, ring, send, reader
  <2>2. WriterHolds'
    BY <1>0, <1>11, WordFacts, FrameFacts
      DEF Disconnect, WriterLeaves, WriterGoto, TypeOK, WriterHolds,
          LeaseHeld, Slots, Leasing, Writing, header, ring, send, reader
  <2>3. WritingAccounted'
    BY <1>0, <1>11, WordFacts, FrameFacts
      DEF Disconnect, WriterLeaves, WriterGoto, TypeOK, WritingAccounted,
          WriterHolds, LeaseHeld, Slots, Leasing, Writing, header, ring, send,
          reader
  <2>4. FilledSoFar'
    BY <1>0, <1>11, WordFacts, FrameFacts
      DEF Disconnect, WriterLeaves, WriterGoto, TypeOK, FilledSoFar,
          WriterHolds, Slots, Writing, header, ring, send, reader
  <2>5. LeaseHeld' /\ OwnerInside' /\ WholeWhenLeasable' /\ TakenIsMeta'
    BY <1>0, <1>11
      DEF Disconnect, WriterLeaves, WriterGoto, LeaseHeld, OwnerInside,
          WholeWhenLeasable, TakenIsMeta, header, ring, send, reader
  <2> QED
    BY <2>1, <2>2, <2>3, <2>4, <2>5 DEF IInv
<1>12. CASE WriterCrash
  <2>1. TypeOK'
    BY <1>0, <1>12, WordFacts, FrameFacts
      DEF WriterCrash, WriterLeaves, WriterGoto, TypeOK, Slots, WriterPc,
          ReaderPc, InvalidSlot, NoSequence, header, ring, send, reader
  <2>2. WriterHolds'
    BY <1>0, <1>12, WordFacts, FrameFacts
      DEF WriterCrash, WriterLeaves, WriterGoto, TypeOK, WriterHolds,
          LeaseHeld, Slots, Leasing, Writing, header, ring, send, reader
  <2>3. WritingAccounted'
    BY <1>0, <1>12, WordFacts, FrameFacts
      DEF WriterCrash, WriterLeaves, WriterGoto, TypeOK, WritingAccounted,
          WriterHolds, LeaseHeld, Slots, Leasing, Writing, header, ring, send,
          reader
  <2>4. FilledSoFar'
    BY <1>0, <1>12, WordFacts, FrameFacts
      DEF WriterCrash, WriterLeaves, WriterGoto, TypeOK, FilledSoFar,
          WriterHolds, Slots, Writing, header, ring, send, reader
  <2>5. LeaseHeld' /\ OwnerInside' /\ WholeWhenLeasable' /\ TakenIsMeta'
    BY <1>0, <1>12
      DEF WriterCrash, WriterLeaves, WriterGoto, LeaseHeld, OwnerInside,
          WholeWhenLeasable, TakenIsMeta, header, ring, send, reader
  <2> QED
    BY <2>1, <2>2, <2>3, <2>4, <2>5 DEF IInv
<1>13. ASSUME NEW r \in Readers, LoadGeneration(r) PROVE IInv'
  <2>1. /\ PollTypes /\ Others(r)
        /\ readerGen' \in [Readers -> Nat]
        /\ lastSeq' \in [Readers -> Nat \cup {NoSequence}]
        /\ rpc'[r] \in {"idle", "active"}
    <3>1. CASE EndPoll(r) /\ UNCHANGED <<readerGen, lastSeq>>
      BY <1>0, <3>1, EndPollFacts DEF TypeOK
    <3>2. CASE ~(EndPoll(r) /\ UNCHANGED <<readerGen, lastSeq>>)
      <4>1. /\ rpc' = [rpc EXCEPT ![r] = "active"]
            /\ pollGen' = [pollGen EXCEPT ![r] = writerGen]
            /\ readerGen' = [readerGen EXCEPT ![r] = writerGen]
            /\ lastSeq' = [lastSeq EXCEPT ![r] =
                             IF writerGen = readerGen[r] THEN @ ELSE NoSequence]
            /\ UNCHANGED <<pollSlot, tries, taken, floor>>
        BY <1>13, <3>2 DEF LoadGeneration
      <4>2. lastSeq' \in [Readers -> Nat \cup {NoSequence}]
        BY <1>0, <4>1 DEF TypeOK
      <4>3. readerGen' \in [Readers -> Nat] /\ pollGen' \in [Readers -> Nat]
        BY <1>0, <4>1 DEF TypeOK
      <4> QED
        BY <1>0, <4>1, <4>2, <4>3 DEF TypeOK, PollTypes, Others, ReaderPc
    <3> QED  BY <3>1, <3>2
  <2>2. rpc[r] \in {"idle", "generation"}
    BY <1>13 DEF LoadGeneration
  <2>3. UNCHANGED <<header, ring, lastGen, wpc, send>>
    BY <1>13 DEF LoadGeneration
  <2>4. TypeOK'
    BY <1>0, <2>1, <2>3 DEF PollTypes, TypeOK, header, ring, send
  <2> QED
    BY <2>1, <2>2, <2>3, <2>4, StepsAside DEF IInv, Leasing, header, ring, send
<1>14. ASSUME NEW r \in Readers, LoadActive(r) PROVE IInv'
  <2>1. PollTypes /\ Others(r) /\ rpc'[r] \in {"idle", "claim"}
    <3>1. CASE EndPoll(r)
      BY <1>0, <3>1, EndPollFacts
    <3>2. CASE ~EndPoll(r)
      <4>1. /\ active # InvalidSlot
            /\ rpc' = [rpc EXCEPT ![r] = "claim"]
            /\ pollSlot' = [pollSlot EXCEPT ![r] = active]
            /\ floor' = [floor EXCEPT ![r] = selected]
            /\ UNCHANGED <<pollGen, tries, taken>>
        BY <1>14, <3>2 DEF LoadActive
      <4>2. pollSlot' \in [Readers -> Slots] /\ floor' \in [Readers -> Frame]
        BY <1>0, <4>1 DEF TypeOK
      <4> QED
        BY <1>0, <4>1, <4>2 DEF TypeOK, PollTypes, Others, ReaderPc
    <3> QED  BY <3>1, <3>2
  <2>2. rpc[r] = "active"
    BY <1>14 DEF LoadActive
  <2>3. UNCHANGED <<header, ring, lastGen, wpc, send, readerGen, lastSeq>>
    BY <1>14 DEF LoadActive
  <2>4. TypeOK'
    BY <1>0, <2>1, <2>3 DEF PollTypes, TypeOK, header, ring, send
  <2> QED
    BY <2>1, <2>2, <2>3, <2>4, StepsAside DEF IInv, Leasing, header, ring, send
<1>15. ASSUME NEW r \in Readers, ClaimForRead(r) PROVE IInv'
  <2>a. pollSlot[r] \in Slots
    BY <1>0 DEF TypeOK
  <2>b. CASE slot[pollSlot[r]] # Word("READY")
    <3>1. rpc[r] = "claim" /\ NextTry(r) /\ UNCHANGED slot
      BY <1>15, <2>b DEF ClaimForRead
    <3>2. PollTypes /\ Others(r) /\ rpc'[r] \in {"idle", "generation"}
      BY <1>0, <3>1, NextTryFacts
    <3>3. UNCHANGED <<header, meta, data, lastGen, wpc, send, readerGen, lastSeq>>
      BY <1>15 DEF ClaimForRead
    <3>4. TypeOK'
      BY <1>0, <3>1, <3>2, <3>3 DEF PollTypes, TypeOK, header, send
    <3> QED
      BY <3>1, <3>2, <3>3, <3>4, StepsAside DEF IInv, Leasing, header, send
  <2>c. CASE slot[pollSlot[r]] = Word("READY")
    <3>0. /\ slot' = [slot EXCEPT ![pollSlot[r]] = Reading(r)]
          /\ rpc' = [rpc EXCEPT ![r] = "inspect"]
          /\ rpc[r] = "claim"
          /\ UNCHANGED <<tries, meta, data, wpc, wslot, wtry, wframe, pollSlot,
                         pollGen, taken, floor>>
      BY <1>15, <2>c DEF ClaimForRead, send
    <3>1. slot' \in [Slots -> SlotWord] /\ rpc' \in [Readers -> ReaderPc]
      BY <1>0, <3>0, WordFacts DEF TypeOK, ReaderPc
    <3>2. TypeOK'
      BY <1>0, <1>15, <3>0, <3>1 DEF ClaimForRead, TypeOK, header, ring, send
    <3>3. LeaseHeld'
      BY <1>0, <2>a, <2>c, <3>0, WordFacts DEF LeaseHeld, TypeOK, Leasing
    <3>4. OwnerInside'
      BY <1>0, <2>a, <3>0, WordFacts DEF OwnerInside, TypeOK, Leasing
    <3>5. WriterHolds' /\ WritingAccounted'
      BY <1>0, <2>a, <2>c, <3>0, WordFacts
        DEF WriterHolds, WritingAccounted, TypeOK
    <3>6. WholeWhenLeasable'
      BY <1>0, <2>a, <2>c, <3>0, WordFacts DEF WholeWhenLeasable, TypeOK
    <3>7. FilledSoFar' /\ TakenIsMeta'
      BY <1>0, <3>0 DEF FilledSoFar, TakenIsMeta, TypeOK
    <3> QED  BY <3>2, <3>3, <3>4, <3>5, <3>6, <3>7 DEF IInv
  <2> QED  BY <2>b, <2>c
<1>16. ASSUME NEW r \in Readers, Inspect(r) PROVE IInv'
  <2>1. TypeOK'
    <3>1. meta[pollSlot[r]] \in Frame
      BY <1>0 DEF TypeOK
    <3>2. taken' \in [Readers -> Frame]
      BY <1>0, <1>16, <3>1 DEF Inspect, TypeOK
    <3>3. lastSeq' \in [Readers -> Nat \cup {NoSequence}]
      BY <1>0, <1>16, <3>1, FrameFacts DEF Inspect, TypeOK
    <3>4. rpc' \in [Readers -> ReaderPc]
      BY <1>0, <1>16 DEF Inspect, TypeOK, ReaderPc
    <3> QED
      BY <1>0, <1>16, <3>2, <3>3, <3>4 DEF Inspect, TypeOK, header, ring, send
  <2>2. LeaseHeld'
    BY <1>0, <1>16, WordFacts, FrameFacts
      DEF Inspect, TypeOK, LeaseHeld, Slots, Leasing, header, ring, send,
          reader
  <2>3. OwnerInside'
    BY <1>0, <1>16, WordFacts, FrameFacts
      DEF Inspect, TypeOK, LeaseHeld, OwnerInside, Slots, Leasing, header,
          ring, send, reader
  <2>4. TakenIsMeta'
    BY <1>0, <1>16, WordFacts, FrameFacts
      DEF Inspect, TypeOK, TakenIsMeta, LeaseHeld, WriterHolds, Slots,
          Leasing, Writing, header, ring, send, reader
  <2>5. WriterHolds' /\ WritingAccounted' /\ WholeWhenLeasable' /\ FilledSoFar'
    BY <1>0, <1>16
      DEF Inspect, WriterHolds, WritingAccounted, WholeWhenLeasable,
          FilledSoFar, header, ring, send, reader
  <2> QED
    BY <2>1, <2>2, <2>3, <2>4, <2>5 DEF IInv
<1>17. ASSUME NEW r \in Readers, Release(r) PROVE IInv'
  <2>1. /\ rpc[r] \in {"borrowed", "skip", "retry"}
        /\ slot' = [slot EXCEPT ![pollSlot[r]] = Word("READY")]
        /\ UNCHANGED <<header, meta, data, lastGen, wpc, send, readerGen, lastSeq>>
    BY <1>17 DEF Release
  <2>2. PollTypes /\ Others(r) /\ rpc'[r] \in {"idle", "generation"}
    BY <1>0, <1>17, EndPollFacts, NextTryFacts DEF Release
  <2>3. slot[pollSlot[r]] = Reading(r) /\ pollSlot[r] \in Slots
    BY <1>0, <2>1 DEF LeaseHeld, TypeOK, Leasing
  <2>4. slot' \in [Slots -> SlotWord]
    BY <1>0, <2>1, WordFacts DEF TypeOK
  <2>5. TypeOK'
    BY <1>0, <2>1, <2>2, <2>4 DEF PollTypes, TypeOK, header, send
  <2>6. LeaseHeld'
    BY <1>0, <2>1, <2>2, <2>3, WordFacts
      DEF Others, LeaseHeld, TypeOK, Leasing
  <2>7. OwnerInside'
    <3> SUFFICES ASSUME NEW q \in Readers, NEW s \in Slots,
                        slot'[s] = Reading(q), rpc'[q] # "dead"
                 PROVE  rpc'[q] \in Leasing /\ pollSlot'[q] = s
      BY DEF OwnerInside
    <3>1. s # pollSlot[r] /\ slot[s] = Reading(q)
      BY <1>0, <2>1, <2>3, WordFacts DEF TypeOK
    <3>2. q # r
      BY <1>0, <2>1, <3>1 DEF OwnerInside
    <3> QED
      BY <1>0, <2>2, <3>1, <3>2 DEF Others, OwnerInside
  <2>8. WriterHolds' /\ WritingAccounted'
    BY <1>0, <2>1, <2>3, WordFacts
      DEF WriterHolds, WritingAccounted, TypeOK, send
  <2>9. WholeWhenLeasable'
    BY <1>0, <2>1, <2>3, WordFacts DEF WholeWhenLeasable, TypeOK
  <2>10. FilledSoFar' /\ TakenIsMeta'
    BY <1>0, <2>1, <2>2 DEF FilledSoFar, TakenIsMeta, Others, send
  <2> QED
    BY <2>5, <2>6, <2>7, <2>8, <2>9, <2>10 DEF IInv
<1>18. ASSUME NEW r \in Readers, Open(r) PROVE IInv'
  <2>1. TypeOK'
    BY <1>0, <1>18, WordFacts, FrameFacts
      DEF Open, ReaderGoto, TypeOK, Slots, WriterPc, ReaderPc, InvalidSlot,
          NoSequence, header, ring, send, reader
  <2>2. LeaseHeld'
    BY <1>0, <1>18, WordFacts, FrameFacts
      DEF Open, ReaderGoto, TypeOK, LeaseHeld, Slots, Leasing, header, ring,
          send, reader
  <2>3. OwnerInside'
    BY <1>0, <1>18, WordFacts, FrameFacts
      DEF Open, ReaderGoto, TypeOK, LeaseHeld, OwnerInside, Slots, Leasing,
          header, ring, send, reader
  <2>4. TakenIsMeta'
    BY <1>0, <1>18, WordFacts, FrameFacts
      DEF Open, ReaderGoto, TypeOK, TakenIsMeta, LeaseHeld, WriterHolds,
          Slots, Leasing, Writing, header, ring, send, reader
  <2>5. WriterHolds' /\ WritingAccounted' /\ WholeWhenLeasable' /\ FilledSoFar'
    BY <1>0, <1>18
      DEF Open, ReaderGoto, WriterHolds, WritingAccounted, WholeWhenLeasable,
          FilledSoFar, header, ring, send, reader
  <2> QED
    BY <2>1, <2>2, <2>3, <2>4, <2>5 DEF IInv
<1>19. ASSUME NEW r \in Readers, Close(r) PROVE IInv'
  <2>1. /\ rpc[r] = "idle" /\ rpc' = [rpc EXCEPT ![r] = "closed"]
        /\ UNCHANGED <<header, ring, lastGen, wpc, send, pollGen, pollSlot,
                       tries, taken, floor>>
    BY <1>19 DEF Close, ReaderGoto
  <2>2. /\ readerGen' \in [Readers -> Nat]
        /\ lastSeq' \in [Readers -> Nat \cup {NoSequence}]
    BY <1>0, <1>19 DEF Close, ForgetReader, TypeOK
  <2>3. TypeOK'
    BY <1>0, <2>1, <2>2 DEF TypeOK, ReaderPc, header, ring, send
  <2>4. Others(r) /\ rpc'[r] = "closed"
    BY <1>0, <2>1 DEF Others, TypeOK
  <2> QED
    BY <2>1, <2>3, <2>4, StepsAside DEF IInv, Leasing, ring, send
<1>20. ASSUME NEW r \in Readers, ReaderCrash(r) PROVE IInv'
  <2>1. /\ rpc' = [rpc EXCEPT ![r] = "dead"]
        /\ tries' = [tries EXCEPT ![r] = 0]
        /\ ForgetTry(r)
        /\ UNCHANGED <<header, ring, lastGen, wpc, send>>
    BY <1>20 DEF ReaderCrash
  <2>2. /\ readerGen' \in [Readers -> Nat]
        /\ lastSeq' \in [Readers -> Nat \cup {NoSequence}]
    BY <1>0, <1>20 DEF ReaderCrash, ForgetReader, TypeOK
  <2>3. TypeOK'
    BY <1>0, <2>1, <2>2, ForgetTryFacts
      DEF TypeOK, ReaderPc, header, ring, send
  <2>4. Others(r) /\ rpc'[r] = "dead"
    BY <1>0, <2>1, ForgetTryFacts DEF Others, TypeOK
  <2> QED
    BY <2>1, <2>3, <2>4, StepsAside DEF IInv, Leasing, ring, send
<1>21. CASE UNCHANGED vars
  BY <1>0, <1>21
     DEF vars, header, ring, send, reader, IInv, TypeOK, LeaseHeld, OwnerInside,
         WriterHolds, WritingAccounted, WholeWhenLeasable, FilledSoFar,
         TakenIsMeta
<1> QED
  BY <1>1, <1>2, <1>3, <1>4, <1>5, <1>6, <1>7, <1>8, <1>9, <1>10, <1>11,
     <1>12, <1>13, <1>14, <1>15, <1>16, <1>17, <1>18, <1>19, <1>20, <1>21
     DEF Next, SendStep, ReadStep

(* The invariant is inductive, so it holds throughout. *)
THEOREM Invariance == Spec => []IInv
<1>1. Init => IInv
  BY InitIInv
<1>2. IInv /\ [Next]_vars => IInv'
  BY NextIInv
<1> QED  BY <1>1, <1>2, PTL DEF Spec

(* The words, indices and counters of the mapping and of both sides keep   *)
(* their types, whatever the number of readers, slots and generations.     *)
THEOREM TypeCorrect == Spec => []TypeOK
<1>1. IInv => TypeOK
  BY DEF IInv
<1> QED  BY <1>1, Invariance, PTL

LEMMA WholeUnderLease == IInv => NoTornFrame
<1> SUFFICES ASSUME IInv, NEW r \in Readers, rpc[r] = "borrowed"
             PROVE  slot[pollSlot[r]] = Reading(r)
                    /\ data[pollSlot[r]] = taken[r]
  BY DEF NoTornFrame
<1>1. slot[pollSlot[r]] = Reading(r)
  BY DEF IInv, LeaseHeld, Leasing
<1>2. pollSlot[r] \in Slots
  BY DEF IInv, TypeOK
<1>3. data[pollSlot[r]] = meta[pollSlot[r]]
  BY <1>1, <1>2, WordFacts DEF IInv, WholeWhenLeasable
<1>4. taken[r] = meta[pollSlot[r]]
  BY DEF IInv, TakenIsMeta
<1> QED  BY <1>1, <1>3, <1>4

(* read_latest_borrowed never hands out bytes of a frame other than the    *)
(* one it reports, and no writer touches them while they are borrowed.     *)
THEOREM NoTornFrameHolds == Spec => []NoTornFrame
  BY WholeUnderLease, Invariance, PTL

(* Whatever crashed before, a connected writer that is not writing can     *)
(* claim every slot that no living reader is inside of.                    *)
THEOREM NoSlotLeaksHolds == Spec => []NoSlotLeaks
<1>1. IInv => NoSlotLeaks
  <2> SUFFICES ASSUME IInv, wpc \in {"idle", "claim"}, NEW s \in Slots,
                      ~ClaimableForWrite(slot[s])
               PROVE  \E r \in Readers : /\ slot[s] = Reading(r)
                                         /\ pollSlot[r] = s
                                         /\ rpc[r] \in Leasing
    BY DEF NoSlotLeaks
  <2>1. slot[s] \in SlotWord
    BY DEF IInv, TypeOK
  <2>2. slot[s] # Word("WRITING")
    BY DEF IInv, WritingAccounted, Writing
  <2>3. slot[s].state = "READING"
    BY <2>1, <2>2, WordFacts DEF ClaimableForWrite
  <2>4. PICK r \in Readers : slot[s] = Reading(r)
    BY <2>1, <2>3, WordFacts
  <2>5. rpc[r] # "dead"
    BY <2>3, <2>4, WordFacts DEF ClaimableForWrite, Alive
  <2> QED  BY <2>4, <2>5 DEF IInv, OwnerInside
<1> QED  BY <1>1, Invariance, PTL

-----------------------------------------------------------------------------
(***************************************************************************)
(* The order of frames: what a poll answers with is never older than what  *)
(* was selected, the slots implement the mailbox of LatestFrame, and one   *)
(* reader alone never makes the writer drop a frame.                       *)
(***************************************************************************)

(* Generations and sequences are numbers, slots are indices of the ring.   *)
LEMMA OrderTypes ==
  ASSUME TypeOK
  PROVE  /\ \A s \in Slots : meta[s].gen \in Nat /\ meta[s].seq \in Int
         /\ selected.gen \in Nat /\ selected.seq \in Int
         /\ wframe.gen \in Nat /\ wframe.seq \in Int
         /\ \A r \in Readers :
              /\ floor[r].gen \in Nat /\ floor[r].seq \in Int
              /\ readerGen[r] \in Nat /\ lastSeq[r] \in Int
              /\ pollSlot[r] \in Slots
  BY FrameFacts DEF TypeOK, NoSequence

(* The writer's side: one case per action, one step per conjunct.          *)
LEMMA WriterOrder ==
  ASSUME IInv, OrderInv, SendStep \/ Disconnect \/ WriterCrash
  PROVE  OrderInv'
<1>0. /\ TypeOK /\ LeaseHeld /\ WriterHolds
      /\ Numbering /\ RingIssued /\ NewestInFlight /\ SelectedIsLast
      /\ ActiveOrder /\ LeasablePublished /\ \A r \in Readers : ReaderOrder(r)
  BY DEF IInv, OrderInv
<1> USE SlotCountAssumption, ReadersAssumption, BoundsAssumption
<1>1. CASE ClaimWriter
  <2>0. /\ lastGen' = lastGen + 1 /\ lastGen \in Nat /\ wpc' = "resetActive"
        /\ UNCHANGED <<active, nextSeq, selected, meta, reader>>
    BY <1>0, <1>1 DEF ClaimWriter, WriterGoto, TypeOK, ring
  <2>a. ASSUME NEW f, f.gen \in Nat, f.gen <= lastGen
        PROVE  f.gen <= lastGen' /\ f.gen # lastGen'
    BY <2>0, <2>a
  <2>1. Numbering'
    BY <1>0, <1>1, OrderTypes, WordFacts, CandidateInSlots
      DEF ClaimWriter, WriterGoto, Numbering, Online, InFlight,
          TypeOK, InvalidSlot, Slots, header, ring, send, reader
  <2>2. RingIssued'
    <3>1. Issued(selected)'
      BY <1>0, <2>0, <2>a, OrderTypes DEF RingIssued, Issued, Online
    <3>2. ASSUME NEW s \in Slots PROVE Issued(meta[s])'
      BY <1>0, <2>0, <2>a, OrderTypes DEF RingIssued, Issued, Online
    <3> QED  BY <3>1, <3>2 DEF RingIssued
  <2>3. NewestInFlight'
    BY <1>0, <1>1, OrderTypes, WordFacts, CandidateInSlots
      DEF ClaimWriter, WriterGoto, NewestInFlight, InFlight,
          Leasable, TypeOK, InvalidSlot, Slots, header, ring,
          send, reader
  <2>4. SelectedIsLast'
    BY <1>0, <1>1, OrderTypes, WordFacts, CandidateInSlots
      DEF ClaimWriter, WriterGoto, SelectedIsLast, NewestInFlight,
          Numbering, Online, InFlight, TypeOK, InvalidSlot, Slots,
          header, ring, send, reader
  <2>5. ActiveOrder'
    BY <1>0, <1>1, OrderTypes, WordFacts, CandidateInSlots
      DEF ClaimWriter, WriterGoto, ActiveOrder, NotOlder,
          OneAhead, Leasable, RingIssued, Issued, SelectedIsLast,
          NewestInFlight, Numbering, Online, InFlight, TypeOK,
          InvalidSlot, Slots, header, ring, send, reader
  <2>6. LeasablePublished'
    BY <1>0, <1>1, OrderTypes, WordFacts, CandidateInSlots
      DEF ClaimWriter, WriterGoto, LeasablePublished, Leasable,
          NewestInFlight, Numbering, PublishedFrame, Online,
          InFlight, TypeOK, InvalidSlot, Slots, header, ring,
          send, reader
  <2>7. ASSUME NEW r \in Readers PROVE ReaderOrder(r)'
    <3>1. /\ readerGen[r] \in Nat /\ readerGen[r] <= lastGen
          /\ readerGen'[r] = readerGen[r] /\ lastSeq'[r] = lastSeq[r]
      BY <1>0, <2>0, OrderTypes DEF ReaderOrder, Issued, Seen, reader
    <3>2. Issued(Seen(r))'
      BY <2>0, <3>1 DEF Issued, Seen, Online
    <3> QED  BY <1>0, <2>0, <3>2 DEF ReaderOrder, Seen, reader
  <2> QED  BY <2>1, <2>2, <2>3, <2>4, <2>5, <2>6, <2>7 DEF OrderInv
<1>2. CASE ResetActive
  <2>1. Numbering'
    BY <1>0, <1>2, OrderTypes, WordFacts, CandidateInSlots
      DEF ResetActive, WriterGoto, Numbering, Online, InFlight,
          TypeOK, InvalidSlot, Slots, header, ring, send, reader
  <2>2. RingIssued'
    BY <1>0, <1>2, OrderTypes, WordFacts, CandidateInSlots
      DEF ResetActive, WriterGoto, RingIssued, Issued, Online,
          TypeOK, InvalidSlot, Slots, header, ring, send, reader
  <2>3. NewestInFlight'
    BY <1>0, <1>2, OrderTypes, WordFacts, CandidateInSlots
      DEF ResetActive, WriterGoto, NewestInFlight, InFlight,
          Leasable, TypeOK, InvalidSlot, Slots, header, ring,
          send, reader
  <2>4. SelectedIsLast'
    BY <1>0, <1>2, OrderTypes, WordFacts, CandidateInSlots
      DEF ResetActive, WriterGoto, SelectedIsLast, NewestInFlight,
          Numbering, Online, InFlight, TypeOK, InvalidSlot, Slots,
          header, ring, send, reader
  <2>5. ActiveOrder'
    BY <1>0, <1>2, OrderTypes, WordFacts, CandidateInSlots
      DEF ResetActive, WriterGoto, ActiveOrder, NotOlder,
          OneAhead, Leasable, RingIssued, Issued, SelectedIsLast,
          NewestInFlight, Numbering, Online, InFlight, TypeOK,
          InvalidSlot, Slots, header, ring, send, reader
  <2>6. LeasablePublished'
    BY <1>0, <1>2, OrderTypes, WordFacts, CandidateInSlots
      DEF ResetActive, WriterGoto, LeasablePublished, Leasable,
          NewestInFlight, Numbering, PublishedFrame, Online,
          InFlight, TypeOK, InvalidSlot, Slots, header, ring,
          send, reader
  <2>7. \A r \in Readers : ReaderOrder(r)'
    BY <1>0, <1>2, OrderTypes, WordFacts
      DEF ResetActive, WriterGoto, ReaderOrder, Seen, Issued,
          Online, NotOlder, OneAhead, InvalidSlot, NoSequence,
          InFlight, NewestInFlight, RingIssued, Numbering, header,
          ring, send, reader
  <2> QED  BY <2>1, <2>2, <2>3, <2>4, <2>5, <2>6, <2>7 DEF OrderInv
<1>3. CASE ResetSlot
  <2>1. Numbering'
    BY <1>0, <1>3, OrderTypes, WordFacts, CandidateInSlots
      DEF ResetSlot, KeptByReset, Numbering, Online, InFlight,
          TypeOK, InvalidSlot, Slots, header, ring, send, reader
  <2>2. RingIssued'
    BY <1>0, <1>3, OrderTypes, WordFacts, CandidateInSlots
      DEF ResetSlot, KeptByReset, RingIssued, Issued, Online,
          TypeOK, InvalidSlot, Slots, header, ring, send, reader
  <2>3. NewestInFlight'
    BY <1>0, <1>3, OrderTypes, WordFacts, CandidateInSlots
      DEF ResetSlot, KeptByReset, NewestInFlight, InFlight,
          Leasable, TypeOK, InvalidSlot, Slots, header, ring,
          send, reader
  <2>4. SelectedIsLast'
    BY <1>0, <1>3, OrderTypes, WordFacts, CandidateInSlots
      DEF ResetSlot, KeptByReset, SelectedIsLast, NewestInFlight,
          Numbering, Online, InFlight, TypeOK, InvalidSlot, Slots,
          header, ring, send, reader
  <2>5. ActiveOrder'
    BY <1>0, <1>3, OrderTypes, WordFacts, CandidateInSlots
      DEF ResetSlot, KeptByReset, ActiveOrder, NotOlder, OneAhead,
          Leasable, RingIssued, Issued, SelectedIsLast,
          NewestInFlight, Numbering, Online, InFlight, TypeOK,
          InvalidSlot, Slots, header, ring, send, reader
  <2>6. LeasablePublished'
    BY <1>0, <1>3, OrderTypes, WordFacts, CandidateInSlots
      DEF ResetSlot, KeptByReset, LeasablePublished, Leasable,
          NewestInFlight, Numbering, PublishedFrame, Online,
          InFlight, TypeOK, InvalidSlot, Slots, header, ring,
          send, reader
  <2>7. \A r \in Readers : ReaderOrder(r)'
    BY <1>0, <1>3, OrderTypes, WordFacts
      DEF ResetSlot, KeptByReset, ReaderOrder, Seen, Issued,
          Online, NotOlder, OneAhead, InvalidSlot, NoSequence,
          InFlight, NewestInFlight, RingIssued, Numbering, header,
          ring, send, reader
  <2> QED  BY <2>1, <2>2, <2>3, <2>4, <2>5, <2>6, <2>7 DEF OrderInv
<1>4. CASE BeginSend
  <2>1. Numbering'
    BY <1>0, <1>4, OrderTypes, WordFacts, CandidateInSlots
      DEF BeginSend, WriterGoto, Numbering, Online, InFlight,
          TypeOK, InvalidSlot, Slots, header, ring, send, reader
  <2>2. RingIssued'
    BY <1>0, <1>4, OrderTypes, WordFacts, CandidateInSlots
      DEF BeginSend, WriterGoto, RingIssued, Issued, Online,
          TypeOK, InvalidSlot, Slots, header, ring, send, reader
  <2>3. NewestInFlight'
    BY <1>0, <1>4, OrderTypes, WordFacts, CandidateInSlots
      DEF BeginSend, WriterGoto, NewestInFlight, InFlight,
          Leasable, TypeOK, InvalidSlot, Slots, header, ring,
          send, reader
  <2>4. SelectedIsLast'
    BY <1>0, <1>4, OrderTypes, WordFacts, CandidateInSlots
      DEF BeginSend, WriterGoto, SelectedIsLast, NewestInFlight,
          Numbering, Online, InFlight, TypeOK, InvalidSlot, Slots,
          header, ring, send, reader
  <2>5. ActiveOrder'
    BY <1>0, <1>4, OrderTypes, WordFacts, CandidateInSlots
      DEF BeginSend, WriterGoto, ActiveOrder, NotOlder, OneAhead,
          Leasable, RingIssued, Issued, SelectedIsLast,
          NewestInFlight, Numbering, Online, InFlight, TypeOK,
          InvalidSlot, Slots, header, ring, send, reader
  <2>6. LeasablePublished'
    BY <1>0, <1>4, OrderTypes, WordFacts, CandidateInSlots
      DEF BeginSend, WriterGoto, LeasablePublished, Leasable,
          NewestInFlight, Numbering, PublishedFrame, Online,
          InFlight, TypeOK, InvalidSlot, Slots, header, ring,
          send, reader
  <2>7. \A r \in Readers : ReaderOrder(r)'
    BY <1>0, <1>4, OrderTypes, WordFacts
      DEF BeginSend, WriterGoto, ReaderOrder, Seen, Issued,
          Online, NotOlder, OneAhead, InvalidSlot, NoSequence,
          InFlight, NewestInFlight, RingIssued, Numbering, header,
          ring, send, reader
  <2> QED  BY <2>1, <2>2, <2>3, <2>4, <2>5, <2>6, <2>7 DEF OrderInv
<1>5. CASE ClaimSlot
  <2>1. Numbering'
    BY <1>0, <1>5, OrderTypes, WordFacts, CandidateInSlots
      DEF ClaimSlot, WriterGoto, Numbering, Online, InFlight,
          TypeOK, InvalidSlot, Slots, header, ring, send, reader
  <2>2. RingIssued'
    BY <1>0, <1>5, OrderTypes, WordFacts, CandidateInSlots
      DEF ClaimSlot, WriterGoto, RingIssued, Issued, Online,
          TypeOK, InvalidSlot, Slots, header, ring, send, reader
  <2>3. NewestInFlight'
    BY <1>0, <1>5, OrderTypes, WordFacts, CandidateInSlots
      DEF ClaimSlot, WriterGoto, NewestInFlight, InFlight,
          Leasable, TypeOK, InvalidSlot, Slots, header, ring,
          send, reader
  <2>4. SelectedIsLast'
    BY <1>0, <1>5, OrderTypes, WordFacts, CandidateInSlots
      DEF ClaimSlot, WriterGoto, SelectedIsLast, NewestInFlight,
          Numbering, Online, InFlight, TypeOK, InvalidSlot, Slots,
          header, ring, send, reader
  <2>5. ActiveOrder'
    BY <1>0, <1>5, OrderTypes, WordFacts, CandidateInSlots
      DEF ClaimSlot, WriterGoto, ActiveOrder, NotOlder, OneAhead,
          Leasable, RingIssued, Issued, SelectedIsLast,
          NewestInFlight, Numbering, Online, InFlight, TypeOK,
          InvalidSlot, Slots, header, ring, send, reader
  <2>6. LeasablePublished'
    BY <1>0, <1>5, OrderTypes, WordFacts, CandidateInSlots
      DEF ClaimSlot, WriterGoto, LeasablePublished, Leasable,
          NewestInFlight, Numbering, PublishedFrame, Online,
          InFlight, TypeOK, InvalidSlot, Slots, header, ring,
          send, reader
  <2>7. \A r \in Readers : ReaderOrder(r)'
    BY <1>0, <1>5, OrderTypes, WordFacts
      DEF ClaimSlot, WriterGoto, ReaderOrder, Seen, Issued,
          Online, NotOlder, OneAhead, InvalidSlot, NoSequence,
          InFlight, NewestInFlight, RingIssued, Numbering, header,
          ring, send, reader
  <2> QED  BY <2>1, <2>2, <2>3, <2>4, <2>5, <2>6, <2>7 DEF OrderInv
<1>6. CASE RefuseSlot
  <2>1. Numbering'
    BY <1>0, <1>6, OrderTypes, WordFacts, CandidateInSlots
      DEF RefuseSlot, DropFrame, Numbering, Online, InFlight,
          TypeOK, InvalidSlot, Slots, header, ring, send, reader
  <2>2. RingIssued'
    BY <1>0, <1>6, OrderTypes, WordFacts, CandidateInSlots
      DEF RefuseSlot, DropFrame, RingIssued, Issued, Online,
          TypeOK, InvalidSlot, Slots, header, ring, send, reader
  <2>3. NewestInFlight'
    BY <1>0, <1>6, OrderTypes, WordFacts, CandidateInSlots
      DEF RefuseSlot, DropFrame, NewestInFlight, InFlight,
          Leasable, TypeOK, InvalidSlot, Slots, header, ring,
          send, reader
  <2>4. SelectedIsLast'
    BY <1>0, <1>6, OrderTypes, WordFacts, CandidateInSlots
      DEF RefuseSlot, DropFrame, SelectedIsLast, NewestInFlight,
          Numbering, Online, InFlight, TypeOK, InvalidSlot, Slots,
          header, ring, send, reader
  <2>5. ActiveOrder'
    BY <1>0, <1>6, OrderTypes, WordFacts, CandidateInSlots
      DEF RefuseSlot, DropFrame, ActiveOrder, NotOlder, OneAhead,
          Leasable, RingIssued, Issued, SelectedIsLast,
          NewestInFlight, Numbering, Online, InFlight, TypeOK,
          InvalidSlot, Slots, header, ring, send, reader
  <2>6. LeasablePublished'
    BY <1>0, <1>6, OrderTypes, WordFacts, CandidateInSlots
      DEF RefuseSlot, DropFrame, LeasablePublished, Leasable,
          NewestInFlight, Numbering, PublishedFrame, Online,
          InFlight, TypeOK, InvalidSlot, Slots, header, ring,
          send, reader
  <2>7. \A r \in Readers : ReaderOrder(r)'
    BY <1>0, <1>6, OrderTypes, WordFacts
      DEF RefuseSlot, DropFrame, ReaderOrder, Seen, Issued,
          Online, NotOlder, OneAhead, InvalidSlot, NoSequence,
          InFlight, NewestInFlight, RingIssued, Numbering, header,
          ring, send, reader
  <2> QED  BY <2>1, <2>2, <2>3, <2>4, <2>5, <2>6, <2>7 DEF OrderInv
<1>7. CASE StoreMetadata
  <2>0. /\ wpc = "metadata" /\ wpc' = "copy"
        /\ wframe' = [gen |-> lastGen, seq |-> nextSeq]
        /\ nextSeq' = nextSeq + 1 /\ nextSeq \in Nat /\ lastGen \in Nat
        /\ meta' = [meta EXCEPT ![wslot] = wframe']
        /\ wslot \in Slots /\ meta'[wslot] = wframe'
        /\ \A s \in Slots \ {wslot} : meta'[s] = meta[s]
        /\ UNCHANGED <<writerGen, lastGen, active, selected, slot, wslot, reader>>
    BY <1>0, <1>7 DEF StoreMetadata, WriterGoto, TypeOK, Numbering, Online
  <2>a. \A s \in Slots : NotOlder(wframe', meta[s]) /\ meta[s] # wframe'
    BY <1>0, <2>0, OrderTypes DEF RingIssued, Issued, Online, NotOlder
  <2>b. ASSUME NEW s \in Slots, NEW g, g.gen \in Nat, g.seq \in Int,
               NotOlder(meta[s], g)
        PROVE  NotOlder(meta'[s], g)
    BY <2>0, <2>a, <2>b, OrderTypes, <1>0 DEF NotOlder
  <2>1. Numbering'
    BY <1>0, <1>7, OrderTypes, WordFacts, CandidateInSlots
      DEF StoreMetadata, WriterGoto, Numbering, Online, InFlight,
          TypeOK, InvalidSlot, Slots, header, ring, send, reader
  <2>2. RingIssued'
    <3>1. Issued(selected)'
      BY <1>0, <2>0, OrderTypes DEF RingIssued, Issued, Online
    <3>2. ASSUME NEW s \in Slots PROVE Issued(meta[s])'
      BY <1>0, <2>0, OrderTypes DEF RingIssued, Issued, Online
    <3> QED  BY <3>1, <3>2 DEF RingIssued
  <2>3. NewestInFlight'
    BY <2>0, <2>a DEF NewestInFlight
  <2>4. SelectedIsLast'
    BY <1>0, <1>7, OrderTypes, WordFacts, CandidateInSlots
      DEF StoreMetadata, WriterGoto, SelectedIsLast,
          NewestInFlight, Numbering, Online, InFlight, TypeOK,
          InvalidSlot, Slots, header, ring, send, reader
  <2>5. ActiveOrder'
    <3> SUFFICES ASSUME active # InvalidSlot
                 PROVE  /\ NotOlder(meta'[active], selected)
                        /\ \A s \in Slots : Leasable(s) => OneAhead(meta'[s], selected)
      BY <2>0 DEF ActiveOrder, Leasable
    <3>1. active \in Slots
      BY <1>0 DEF TypeOK
    <3>2. NotOlder(meta'[active], selected)
      BY <1>0, <2>b, <3>1, OrderTypes DEF ActiveOrder
    <3>3. ~Leasable(wslot)
      BY <1>0, <2>0, WordFacts DEF WriterHolds, Writing, Leasable
    <3> QED  BY <1>0, <2>0, <3>2, <3>3 DEF ActiveOrder
  <2>6. LeasablePublished'
    BY <1>0, <1>7, OrderTypes, WordFacts, CandidateInSlots
      DEF StoreMetadata, WriterGoto, LeasablePublished, Leasable,
          NewestInFlight, Numbering, PublishedFrame, Online,
          InFlight, TypeOK, InvalidSlot, Slots, header, ring,
          send, reader
  <2>7. ASSUME NEW r \in Readers PROVE ReaderOrder(r)'
    <3>1. Issued(Seen(r))'
      <4>1. readerGen[r] <= lastGen /\ (readerGen[r] = lastGen => lastSeq[r] < nextSeq)
        BY <1>0, <2>0 DEF ReaderOrder, Issued, Seen, Online
      <4>2. lastSeq[r] < nextSeq => lastSeq[r] < nextSeq'
        BY <1>0, <2>0, OrderTypes
      <4> QED  BY <2>0, <4>1, <4>2 DEF Issued, Seen, Online, reader
    <3>2. rpc[r] \in Leasing \cup {"claim"} => NotOlder(meta'[pollSlot[r]], floor[r])
      BY <1>0, <2>b, OrderTypes DEF ReaderOrder
    <3> QED  BY <1>0, <2>0, <3>1, <3>2 DEF ReaderOrder, Seen, reader
  <2> QED  BY <2>1, <2>2, <2>3, <2>4, <2>5, <2>6, <2>7 DEF OrderInv
<1>8. CASE CopyPayload
  <2>1. Numbering'
    BY <1>0, <1>8, OrderTypes, WordFacts, CandidateInSlots
      DEF CopyPayload, WriterGoto, Numbering, Online, InFlight,
          TypeOK, InvalidSlot, Slots, header, ring, send, reader
  <2>2. RingIssued'
    BY <1>0, <1>8, OrderTypes, WordFacts, CandidateInSlots
      DEF CopyPayload, WriterGoto, RingIssued, Issued, Online,
          TypeOK, InvalidSlot, Slots, header, ring, send, reader
  <2>3. NewestInFlight'
    BY <1>0, <1>8, OrderTypes, WordFacts, CandidateInSlots
      DEF CopyPayload, WriterGoto, NewestInFlight, InFlight,
          Leasable, TypeOK, InvalidSlot, Slots, header, ring,
          send, reader
  <2>4. SelectedIsLast'
    BY <1>0, <1>8, OrderTypes, WordFacts, CandidateInSlots
      DEF CopyPayload, WriterGoto, SelectedIsLast, NewestInFlight,
          Numbering, Online, InFlight, TypeOK, InvalidSlot, Slots,
          header, ring, send, reader
  <2>5. ActiveOrder'
    BY <1>0, <1>8, OrderTypes, WordFacts, CandidateInSlots
      DEF CopyPayload, WriterGoto, ActiveOrder, NotOlder,
          OneAhead, Leasable, RingIssued, Issued, SelectedIsLast,
          NewestInFlight, Numbering, Online, InFlight, TypeOK,
          InvalidSlot, Slots, header, ring, send, reader
  <2>6. LeasablePublished'
    BY <1>0, <1>8, OrderTypes, WordFacts, CandidateInSlots
      DEF CopyPayload, WriterGoto, LeasablePublished, Leasable,
          NewestInFlight, Numbering, PublishedFrame, Online,
          InFlight, TypeOK, InvalidSlot, Slots, header, ring,
          send, reader
  <2>7. \A r \in Readers : ReaderOrder(r)'
    BY <1>0, <1>8, OrderTypes, WordFacts
      DEF CopyPayload, WriterGoto, ReaderOrder, Seen, Issued,
          Online, NotOlder, OneAhead, InvalidSlot, NoSequence,
          InFlight, NewestInFlight, RingIssued, Numbering, header,
          ring, send, reader
  <2> QED  BY <2>1, <2>2, <2>3, <2>4, <2>5, <2>6, <2>7 DEF OrderInv
<1>9. CASE PublishReady
  <2>1. Numbering'
    BY <1>0, <1>9, OrderTypes, WordFacts, CandidateInSlots
      DEF PublishReady, WriterGoto, Numbering, Online, InFlight,
          TypeOK, InvalidSlot, Slots, header, ring, send, reader
  <2>2. RingIssued'
    BY <1>0, <1>9, OrderTypes, WordFacts, CandidateInSlots
      DEF PublishReady, WriterGoto, RingIssued, Issued, Online,
          TypeOK, InvalidSlot, Slots, header, ring, send, reader
  <2>3. NewestInFlight'
    BY <1>0, <1>9, OrderTypes, WordFacts, CandidateInSlots
      DEF PublishReady, WriterGoto, NewestInFlight, InFlight,
          Leasable, TypeOK, InvalidSlot, Slots, header, ring,
          send, reader
  <2>4. SelectedIsLast'
    BY <1>0, <1>9, OrderTypes, WordFacts, CandidateInSlots
      DEF PublishReady, WriterGoto, SelectedIsLast,
          NewestInFlight, Numbering, Online, InFlight, TypeOK,
          InvalidSlot, Slots, header, ring, send, reader
  <2>5. ActiveOrder'
    <3> SUFFICES ASSUME active # InvalidSlot
                 PROVE  /\ NotOlder(meta[active], selected)
                        /\ \A s \in Slots : Leasable(s)' => OneAhead(meta[s], selected)
      BY <1>9 DEF PublishReady, header, ActiveOrder
    <3>1. OneAhead(meta[wslot], selected)
      BY <1>0, <1>9, OrderTypes
        DEF PublishReady, WriterGoto, NewestInFlight, SelectedIsLast, InFlight,
            Online, OneAhead, TypeOK
    <3>2. ASSUME NEW s \in Slots, s # wslot PROVE Leasable(s)' = Leasable(s)
      BY <1>0, <1>9, <3>2 DEF PublishReady, Leasable, TypeOK
    <3> QED  BY <1>0, <3>1, <3>2 DEF ActiveOrder
  <2>6. LeasablePublished'
    BY <1>0, <1>9, OrderTypes, WordFacts, CandidateInSlots
      DEF PublishReady, WriterGoto, LeasablePublished, Leasable,
          NewestInFlight, Numbering, PublishedFrame, Online,
          InFlight, TypeOK, InvalidSlot, Slots, header, ring,
          send, reader
  <2>7. \A r \in Readers : ReaderOrder(r)'
    BY <1>0, <1>9, OrderTypes, WordFacts
      DEF PublishReady, WriterGoto, ReaderOrder, Seen, Issued,
          Online, NotOlder, OneAhead, InvalidSlot, NoSequence,
          InFlight, NewestInFlight, RingIssued, Numbering, header,
          ring, send, reader
  <2> QED  BY <2>1, <2>2, <2>3, <2>4, <2>5, <2>6, <2>7 DEF OrderInv
<1>10. CASE SelectActive
  <2>0. /\ wpc = "select" /\ wpc' = "idle" /\ active' = wslot
        /\ selected' = wframe /\ wslot \in Slots
        /\ wframe = [gen |-> lastGen, seq |-> nextSeq - 1]
        /\ meta[wslot] = wframe /\ lastGen \in Nat /\ nextSeq \in Nat
        /\ UNCHANGED <<writerGen, lastGen, nextSeq, slot, meta, wslot, reader>>
    BY <1>0, <1>10
      DEF SelectActive, WriterGoto, NewestInFlight, InFlight, TypeOK, ring, send
  <2>a. ASSUME NEW f, f.gen \in Nat, f.seq \in Int, Issued(f)
        PROVE  OneAhead(f, wframe)
    BY <2>0, <2>a DEF Issued, Online, OneAhead
  <2>1. Numbering'
    BY <1>0, <1>10, OrderTypes, WordFacts, CandidateInSlots
      DEF SelectActive, WriterGoto, Numbering, Online, InFlight,
          TypeOK, InvalidSlot, Slots, header, ring, send, reader
  <2>2. RingIssued'
    <3>1. Issued(selected)'
      BY <2>0 DEF Issued, Online
    <3>2. ASSUME NEW s \in Slots PROVE Issued(meta[s])'
      BY <1>0, <2>0 DEF RingIssued, Issued, Online
    <3> QED  BY <3>1, <3>2 DEF RingIssued
  <2>3. NewestInFlight'
    BY <1>0, <1>10, OrderTypes, WordFacts, CandidateInSlots
      DEF SelectActive, WriterGoto, NewestInFlight, InFlight,
          Leasable, TypeOK, InvalidSlot, Slots, header, ring,
          send, reader
  <2>4. SelectedIsLast'
    BY <1>0, <1>10, OrderTypes, WordFacts, CandidateInSlots
      DEF SelectActive, WriterGoto, SelectedIsLast,
          NewestInFlight, Numbering, Online, InFlight, TypeOK,
          InvalidSlot, Slots, header, ring, send, reader
  <2>5. ActiveOrder'
    <3>1. NotOlder(wframe, wframe)
      BY <2>0 DEF NotOlder
    <3>2. \A s \in Slots : OneAhead(meta[s], wframe)
      BY <1>0, <2>a, OrderTypes DEF RingIssued
    <3> QED  BY <2>0, <3>1, <3>2 DEF ActiveOrder, Leasable
  <2>6. LeasablePublished'
    BY <1>0, <1>10, OrderTypes, WordFacts, CandidateInSlots
      DEF SelectActive, WriterGoto, LeasablePublished, Leasable,
          NewestInFlight, Numbering, PublishedFrame, Online,
          InFlight, TypeOK, InvalidSlot, Slots, header, ring,
          send, reader
  <2>7. ASSUME NEW r \in Readers PROVE ReaderOrder(r)'
    <3>1. Issued(Seen(r))'
      BY <1>0, <2>0 DEF ReaderOrder, Issued, Seen, Online, reader
    <3>2. OneAhead(Seen(r), wframe)
      BY <1>0, <2>a, OrderTypes DEF ReaderOrder, Seen
    <3> QED  BY <1>0, <2>0, <3>1, <3>2 DEF ReaderOrder, Seen, reader
  <2> QED  BY <2>1, <2>2, <2>3, <2>4, <2>5, <2>6, <2>7 DEF OrderInv
<1>11. CASE Disconnect
  <2>1. Numbering'
    BY <1>0, <1>11, OrderTypes, WordFacts, CandidateInSlots
      DEF Disconnect, WriterLeaves, Numbering, Online, InFlight,
          TypeOK, InvalidSlot, Slots, header, ring, send, reader
  <2>2. RingIssued'
    BY <1>0, <1>11, OrderTypes, WordFacts, CandidateInSlots
      DEF Disconnect, WriterLeaves, RingIssued, Issued, Online,
          TypeOK, InvalidSlot, Slots, header, ring, send, reader
  <2>3. NewestInFlight'
    BY <1>0, <1>11, OrderTypes, WordFacts, CandidateInSlots
      DEF Disconnect, WriterLeaves, NewestInFlight, InFlight,
          Leasable, TypeOK, InvalidSlot, Slots, header, ring,
          send, reader
  <2>4. SelectedIsLast'
    BY <1>0, <1>11, OrderTypes, WordFacts, CandidateInSlots
      DEF Disconnect, WriterLeaves, SelectedIsLast,
          NewestInFlight, Numbering, Online, InFlight, TypeOK,
          InvalidSlot, Slots, header, ring, send, reader
  <2>5. ActiveOrder'
    BY <1>0, <1>11, OrderTypes, WordFacts, CandidateInSlots
      DEF Disconnect, WriterLeaves, ActiveOrder, NotOlder,
          OneAhead, Leasable, RingIssued, Issued, SelectedIsLast,
          NewestInFlight, Numbering, Online, InFlight, TypeOK,
          InvalidSlot, Slots, header, ring, send, reader
  <2>6. LeasablePublished'
    BY <1>0, <1>11, OrderTypes, WordFacts, CandidateInSlots
      DEF Disconnect, WriterLeaves, LeasablePublished, Leasable,
          NewestInFlight, Numbering, PublishedFrame, Online,
          InFlight, TypeOK, InvalidSlot, Slots, header, ring,
          send, reader
  <2>7. \A r \in Readers : ReaderOrder(r)'
    BY <1>0, <1>11, OrderTypes, WordFacts
      DEF Disconnect, WriterLeaves, ReaderOrder, Seen, Issued,
          Online, NotOlder, OneAhead, InvalidSlot, NoSequence,
          InFlight, NewestInFlight, RingIssued, Numbering, header,
          ring, send, reader
  <2> QED  BY <2>1, <2>2, <2>3, <2>4, <2>5, <2>6, <2>7 DEF OrderInv
<1>12. CASE WriterCrash
  <2>1. Numbering'
    BY <1>0, <1>12, OrderTypes, WordFacts, CandidateInSlots
      DEF WriterCrash, WriterLeaves, Numbering, Online, InFlight,
          TypeOK, InvalidSlot, Slots, header, ring, send, reader
  <2>2. RingIssued'
    BY <1>0, <1>12, OrderTypes, WordFacts, CandidateInSlots
      DEF WriterCrash, WriterLeaves, RingIssued, Issued, Online,
          TypeOK, InvalidSlot, Slots, header, ring, send, reader
  <2>3. NewestInFlight'
    BY <1>0, <1>12, OrderTypes, WordFacts, CandidateInSlots
      DEF WriterCrash, WriterLeaves, NewestInFlight, InFlight,
          Leasable, TypeOK, InvalidSlot, Slots, header, ring,
          send, reader
  <2>4. SelectedIsLast'
    BY <1>0, <1>12, OrderTypes, WordFacts, CandidateInSlots
      DEF WriterCrash, WriterLeaves, SelectedIsLast,
          NewestInFlight, Numbering, Online, InFlight, TypeOK,
          InvalidSlot, Slots, header, ring, send, reader
  <2>5. ActiveOrder'
    BY <1>0, <1>12, OrderTypes, WordFacts, CandidateInSlots
      DEF WriterCrash, WriterLeaves, ActiveOrder, NotOlder,
          OneAhead, Leasable, RingIssued, Issued, SelectedIsLast,
          NewestInFlight, Numbering, Online, InFlight, TypeOK,
          InvalidSlot, Slots, header, ring, send, reader
  <2>6. LeasablePublished'
    BY <1>0, <1>12, OrderTypes, WordFacts, CandidateInSlots
      DEF WriterCrash, WriterLeaves, LeasablePublished, Leasable,
          NewestInFlight, Numbering, PublishedFrame, Online,
          InFlight, TypeOK, InvalidSlot, Slots, header, ring,
          send, reader
  <2>7. \A r \in Readers : ReaderOrder(r)'
    BY <1>0, <1>12, OrderTypes, WordFacts
      DEF WriterCrash, WriterLeaves, ReaderOrder, Seen, Issued,
          Online, NotOlder, OneAhead, InvalidSlot, NoSequence,
          InFlight, NewestInFlight, RingIssued, Numbering, header,
          ring, send, reader
  <2> QED  BY <2>1, <2>2, <2>3, <2>4, <2>5, <2>6, <2>7 DEF OrderInv
<1> QED
  BY <1>1,<1>2,<1>3,<1>4,<1>5,<1>6,<1>7,<1>8,<1>9,<1>10,<1>11,<1>12 DEF SendStep

(* A reader's step leaves the writer's side and the order of the ring      *)
(* alone: only what that reader has seen and loaded is to be looked at.    *)
LEMMA ReaderKeepsOrder ==
  ASSUME OrderInv, NEW r \in Readers, Others(r),
         \A q \in Readers \ {r} :
           readerGen'[q] = readerGen[q] /\ lastSeq'[q] = lastSeq[q],
         UNCHANGED <<header, meta, lastGen, wpc, send>>,
         \A s \in Slots : Leasable(s)' = Leasable(s),
         wslot \in Slots,
         ReaderOrder(r)'
  PROVE  OrderInv'
<1>1. Numbering' /\ RingIssued' /\ SelectedIsLast'
  BY DEF OrderInv, Numbering, RingIssued, SelectedIsLast, Issued, Online,
         InFlight, header, send
<1>2. NewestInFlight'
  BY DEF OrderInv, NewestInFlight, InFlight, header, send
<1>3. ActiveOrder' /\ LeasablePublished'
  BY DEF OrderInv, ActiveOrder, LeasablePublished, header
<1>4. ASSUME NEW q \in Readers, q # r PROVE ReaderOrder(q)'
  BY <1>4 DEF OrderInv, ReaderOrder, Others, Issued, Online, Seen, header, send
<1> QED  BY <1>1, <1>2, <1>3, <1>4 DEF OrderInv

(* A try or a poll that ends leaves the reader between polls: what it has  *)
(* seen and loaded is then only what it saw last.                          *)
LEMMA EndedTryOrder ==
  ASSUME NEW r \in Readers, ReaderOrder(r),
         rpc'[r] \in {"idle", "generation", "closed", "dead"},
         \/ readerGen'[r] = readerGen[r] /\ lastSeq'[r] = lastSeq[r]
         \/ readerGen'[r] \in Nat /\ readerGen'[r] <= lastGen /\ lastSeq'[r] = NoSequence,
         nextSeq \in Nat,
         UNCHANGED <<header, lastGen, wpc>>
  PROVE  ReaderOrder(r)'
  BY DEF ReaderOrder, Issued, Seen, Online, Leasing, header, NoSequence

(* The readers' side.                                                      *)
LEMMA ReaderOrderKept ==
  ASSUME IInv, OrderInv, NEW r \in Readers,
         ReadStep(r) \/ Open(r) \/ Close(r) \/ ReaderCrash(r)
  PROVE  OrderInv'
<1>0. /\ TypeOK /\ LeaseHeld /\ Numbering /\ RingIssued /\ ActiveOrder
      /\ \A q \in Readers : ReaderOrder(q)
      /\ wslot \in Slots /\ pollSlot[r] \in Slots /\ nextSeq \in Nat
  BY DEF IInv, OrderInv, TypeOK
<1>1. CASE LoadGeneration(r)
  <2>1. UNCHANGED <<header, ring, lastGen, wpc, send>> /\ rpc[r] \in {"idle", "generation"}
    BY <1>1 DEF LoadGeneration
  <2>2. \A s \in Slots : Leasable(s)' = Leasable(s)
    BY <2>1 DEF Leasable, ring
  <2>3. CASE EndPoll(r) /\ UNCHANGED <<readerGen, lastSeq>>
    BY <1>0, <2>1, <2>2, <2>3, EndPollFacts, EndedTryOrder, ReaderKeepsOrder DEF ring
  <2>4. CASE ~(EndPoll(r) /\ UNCHANGED <<readerGen, lastSeq>>)
    <3>1. /\ rpc' = [rpc EXCEPT ![r] = "active"]
          /\ pollGen' = [pollGen EXCEPT ![r] = writerGen]
          /\ readerGen' = [readerGen EXCEPT ![r] = writerGen]
          /\ lastSeq' = [lastSeq EXCEPT ![r] =
                           IF writerGen = readerGen[r] THEN @ ELSE NoSequence]
          /\ UNCHANGED <<pollSlot, tries, taken, floor>>
      BY <1>1, <2>4 DEF LoadGeneration
    <3>2. /\ rpc'[r] = "active" /\ pollGen'[r] = writerGen /\ readerGen'[r] = writerGen
          /\ writerGen = readerGen[r] => lastSeq'[r] = lastSeq[r]
          /\ writerGen # readerGen[r] => lastSeq'[r] = NoSequence
      BY <1>0, <3>1 DEF TypeOK
    <3>3. /\ Others(r)
          /\ \A q \in Readers \ {r} :
               readerGen'[q] = readerGen[q] /\ lastSeq'[q] = lastSeq[q]
      BY <1>0, <3>1 DEF TypeOK, Others
    <3>4. Issued(Seen(r))'
      <4>1. CASE writerGen = readerGen[r]
        BY <1>0, <2>1, <3>2, <4>1 DEF ReaderOrder, Issued, Seen, Online, header
      <4>2. CASE writerGen # readerGen[r]
        BY <1>0, <2>1, <3>2, <4>2
          DEF Numbering, Issued, Seen, Online, NoSequence, header
      <4> QED  BY <4>1, <4>2
    <3>5. lastSeq'[r] # NoSequence => Seen(r)' = Seen(r) /\ lastSeq[r] # NoSequence
      BY <3>2 DEF Seen
    <3>6. ReaderOrder(r)'
      BY <1>0, <2>1, <3>2, <3>4, <3>5 DEF ReaderOrder, Leasing, header
    <3> QED  BY <1>0, <2>1, <2>2, <3>3, <3>6, ReaderKeepsOrder DEF ring
  <2> QED  BY <2>3, <2>4
<1>2. CASE LoadActive(r)
  <2>1. UNCHANGED <<header, ring, lastGen, wpc, send, readerGen, lastSeq>> /\ rpc[r] = "active"
    BY <1>2 DEF LoadActive
  <2>2. \A s \in Slots : Leasable(s)' = Leasable(s)
    BY <2>1 DEF Leasable, ring
  <2>3. CASE EndPoll(r)
    BY <1>0, <2>1, <2>2, <2>3, EndPollFacts, EndedTryOrder, ReaderKeepsOrder DEF ring
  <2>4. CASE ~EndPoll(r)
    <3>1. /\ active # InvalidSlot
          /\ rpc' = [rpc EXCEPT ![r] = "claim"]
          /\ pollSlot' = [pollSlot EXCEPT ![r] = active]
          /\ floor' = [floor EXCEPT ![r] = selected]
          /\ UNCHANGED <<pollGen, tries, taken>>
      BY <1>2, <2>4 DEF LoadActive
    <3>2. /\ rpc'[r] = "claim" /\ pollSlot'[r] = active /\ floor'[r] = selected
          /\ Others(r)
      BY <1>0, <3>1 DEF TypeOK, Others
    <3>3. ReaderOrder(r)'
      BY <1>0, <2>1, <3>1, <3>2
        DEF ReaderOrder, ActiveOrder, Issued, Seen, Online, header, ring
    <3> QED  BY <1>0, <2>1, <2>2, <3>2, <3>3, ReaderKeepsOrder DEF ring
  <2> QED  BY <2>3, <2>4
<1>3. CASE ClaimForRead(r)
  <2>1. UNCHANGED <<header, meta, data, lastGen, wpc, send, readerGen, lastSeq>> /\ rpc[r] = "claim"
    BY <1>3 DEF ClaimForRead
  <2>2. CASE slot[pollSlot[r]] = Word("READY")
    <3>1. /\ slot' = [slot EXCEPT ![pollSlot[r]] = Reading(r)]
          /\ rpc' = [rpc EXCEPT ![r] = "inspect"]
          /\ UNCHANGED <<pollGen, pollSlot, tries, taken, floor>>
      BY <1>3, <2>2 DEF ClaimForRead
    <3>2. \A s \in Slots : Leasable(s)' = Leasable(s)
      BY <1>0, <2>2, <3>1, WordFacts DEF Leasable, TypeOK
    <3>3. rpc'[r] = "inspect" /\ Others(r)
      BY <1>0, <3>1 DEF TypeOK, Others
    <3>4. ReaderOrder(r)'
      BY <1>0, <2>1, <3>1, <3>3
        DEF ReaderOrder, Issued, Seen, Online, header, Leasing
    <3> QED  BY <1>0, <2>1, <3>2, <3>3, <3>4, ReaderKeepsOrder
  <2>3. CASE slot[pollSlot[r]] # Word("READY")
    <3>1. NextTry(r) /\ UNCHANGED slot
      BY <1>3, <2>3 DEF ClaimForRead
    <3>2. \A s \in Slots : Leasable(s)' = Leasable(s)
      BY <3>1 DEF Leasable
    <3> QED  BY <1>0, <2>1, <3>1, <3>2, NextTryFacts, EndedTryOrder, ReaderKeepsOrder
  <2> QED  BY <2>2, <2>3
<1>4. CASE Inspect(r)
  <2>1. /\ rpc[r] = "inspect"
        /\ UNCHANGED <<header, ring, lastGen, wpc, send, readerGen, pollGen,
                       pollSlot, tries, floor>>
    BY <1>4 DEF Inspect
  <2>2. \A s \in Slots : Leasable(s)' = Leasable(s)
    BY <2>1 DEF Leasable, ring
  <2>3. /\ Others(r) /\ rpc'[r] \in {"retry", "skip", "borrowed"}
        /\ \A q \in Readers \ {r} :
             readerGen'[q] = readerGen[q] /\ lastSeq'[q] = lastSeq[q]
    BY <1>0, <1>4 DEF Inspect, TypeOK, Others
  <2>4. \/ lastSeq'[r] = lastSeq[r]
        \/ /\ meta[pollSlot[r]].gen = readerGen[r]
           /\ lastSeq'[r] = meta[pollSlot[r]].seq
    BY <1>0, <1>4 DEF Inspect, ReaderOrder, TypeOK
  <2>5. Leasable(pollSlot[r])
    BY <1>0, <2>1, WordFacts DEF LeaseHeld, Leasing, Leasable
  <2>6. Issued(Seen(r))'
    BY <1>0, <2>1, <2>4 DEF RingIssued, ReaderOrder, Issued, Seen, Online, header
  <2>7. active # InvalidSlot /\ lastSeq'[r] # NoSequence => OneAhead(Seen(r)', selected)
    BY <1>0, <2>1, <2>4, <2>5 DEF ActiveOrder, ReaderOrder, Seen, OneAhead
  <2>8. ReaderOrder(r)'
    BY <1>0, <2>1, <2>3, <2>6, <2>7 DEF ReaderOrder, Leasing, header, ring
  <2> QED  BY <1>0, <2>1, <2>2, <2>3, <2>8, ReaderKeepsOrder DEF ring
<1>5. CASE Release(r)
  <2>1. /\ rpc[r] \in {"borrowed", "skip", "retry"}
        /\ slot' = [slot EXCEPT ![pollSlot[r]] = Word("READY")]
        /\ UNCHANGED <<header, meta, data, lastGen, wpc, send, readerGen, lastSeq>>
    BY <1>5 DEF Release
  <2>2. Others(r) /\ rpc'[r] \in {"idle", "generation"}
    BY <1>0, <1>5, EndPollFacts, NextTryFacts DEF Release
  <2>3. slot[pollSlot[r]] = Reading(r)
    BY <1>0, <2>1 DEF LeaseHeld, Leasing
  <2>4. \A s \in Slots : Leasable(s)' = Leasable(s)
    BY <1>0, <2>1, <2>3, WordFacts DEF Leasable, TypeOK
  <2> QED  BY <1>0, <2>1, <2>2, <2>4, EndedTryOrder, ReaderKeepsOrder
<1>6. CASE Open(r)
  <2>1. /\ UNCHANGED <<header, ring, lastGen, wpc, send, pollGen, pollSlot,
                       tries, taken, floor>>
        /\ rpc' = [rpc EXCEPT ![r] = "idle"]
        /\ readerGen' = [readerGen EXCEPT ![r] = writerGen]
        /\ lastSeq' = [lastSeq EXCEPT ![r] = NoSequence]
    BY <1>6 DEF Open, ReaderGoto
  <2>2. /\ Others(r) /\ rpc'[r] = "idle"
        /\ readerGen'[r] = writerGen /\ lastSeq'[r] = NoSequence
        /\ \A q \in Readers \ {r} :
             readerGen'[q] = readerGen[q] /\ lastSeq'[q] = lastSeq[q]
    BY <1>0, <2>1 DEF TypeOK, Others
  <2>3. writerGen \in Nat /\ writerGen <= lastGen
    BY <1>0 DEF TypeOK, Numbering
  <2>4. ReaderOrder(r)'
    BY <1>0, <2>1, <2>2, <2>3, EndedTryOrder
  <2>5. \A s \in Slots : Leasable(s)' = Leasable(s)
    BY <2>1 DEF Leasable, ring
  <2> QED  BY <1>0, <2>1, <2>2, <2>4, <2>5, ReaderKeepsOrder DEF ring
<1>7. CASE Close(r) \/ ReaderCrash(r)
  <2>1. /\ UNCHANGED <<header, ring, lastGen, wpc, send>>
        /\ ForgetReader(r)
    BY <1>7 DEF Close, ReaderCrash
  <2>2. Others(r) /\ rpc'[r] \in {"closed", "dead"}
    BY <1>0, <1>7, ForgetTryFacts DEF Close, ReaderCrash, ReaderGoto, TypeOK, Others
  <2>3. /\ readerGen'[r] = 0 /\ lastSeq'[r] = NoSequence
        /\ \A q \in Readers \ {r} :
             readerGen'[q] = readerGen[q] /\ lastSeq'[q] = lastSeq[q]
    BY <1>0, <2>1 DEF ForgetReader, TypeOK
  <2>4. 0 <= lastGen
    BY <1>0 DEF TypeOK
  <2>5. ReaderOrder(r)'
    BY <1>0, <2>1, <2>2, <2>3, <2>4, EndedTryOrder
  <2>6. \A s \in Slots : Leasable(s)' = Leasable(s)
    BY <2>1 DEF Leasable, ring
  <2> QED  BY <1>0, <2>1, <2>2, <2>3, <2>5, <2>6, ReaderKeepsOrder DEF ring
<1> QED
  BY <1>1, <1>2, <1>3, <1>4, <1>5, <1>6, <1>7 DEF ReadStep

LEMMA InitOrder == Init => OrderInv
  BY BoundsAssumption, WordFacts
  DEF Init, OrderInv, Numbering, RingIssued, NewestInFlight, SelectedIsLast,
      ActiveOrder, LeasablePublished, ReaderOrder, Issued, Seen, Online,
      InFlight, Leasable, Leasing, Torn, NoSequence

LEMMA NextOrder == IInv /\ OrderInv /\ [Next]_vars => OrderInv'
<1> SUFFICES ASSUME IInv, OrderInv, [Next]_vars PROVE OrderInv'
  OBVIOUS
<1>1. CASE SendStep \/ Disconnect \/ WriterCrash
  BY <1>1, WriterOrder
<1>2. ASSUME NEW r \in Readers,
             ReadStep(r) \/ Open(r) \/ Close(r) \/ ReaderCrash(r)
      PROVE  OrderInv'
  BY <1>2, ReaderOrderKept
<1>3. CASE UNCHANGED vars
  BY <1>3 DEF vars, header, ring, send, reader, OrderInv, Numbering, RingIssued,
     NewestInFlight, SelectedIsLast, ActiveOrder, LeasablePublished,
     ReaderOrder, Issued, Seen, Online, InFlight, Leasable
<1> QED  BY <1>1, <1>2, <1>3 DEF Next

(* Frames keep their order, whatever the number of readers, slots, frames  *)
(* and generations, and whoever crashes.                                   *)
THEOREM OrderInvariance == Spec => [](IInv /\ OrderInv)
<1>1. Init => IInv /\ OrderInv
  BY InitIInv, InitOrder
<1>2. IInv /\ OrderInv /\ [Next]_vars => (IInv /\ OrderInv)'
  BY NextIInv, NextOrder
<1> QED  BY <1>1, <1>2, PTL DEF Spec

LEMMA FreshUnderLease == IInv /\ OrderInv => FreshFrame
  BY DEF IInv, TakenIsMeta, OrderInv, ReaderOrder, Leasing, FreshFrame

(* A poll never answers with a frame older than the one that was selected  *)
(* when it loaded active_slot, although the slot may have been rewritten   *)
(* and the writer restarted before the claim.                              *)
THEOREM FreshFrameHolds == Spec => []FreshFrame
  BY FreshUnderLease, OrderInvariance, PTL

StepsBackAtMostOneNext ==
  \A r \in Readers :
    /\ readerGen'[r] = readerGen[r]
    /\ lastSeq[r] # NoSequence /\ lastSeq'[r] # NoSequence
    => lastSeq'[r] >= lastSeq[r] - 1

(* Within a generation the sequences a reader answers with step back by    *)
(* one at most.                                                            *)
THEOREM StepsBackAtMostOneHolds == Spec => StepsBackAtMostOne
<1>1. ASSUME IInv, OrderInv, [Next]_vars, NEW r \in Readers,
             readerGen'[r] = readerGen[r],
             lastSeq[r] # NoSequence, lastSeq'[r] # NoSequence
      PROVE  lastSeq'[r] >= lastSeq[r] - 1
  <2>0. TypeOK /\ ReaderOrder(r) /\ pollSlot[r] \in Slots /\ lastSeq[r] \in Int
    BY <1>1, OrderTypes DEF IInv, OrderInv
  <2>1. lastSeq'[r] = lastSeq[r] => lastSeq'[r] >= lastSeq[r] - 1
    BY <2>0
  <2>2. CASE Inspect(r) /\ lastSeq'[r] # lastSeq[r]
    <3>1. /\ rpc[r] = "inspect" /\ meta[pollSlot[r]].gen = pollGen[r]
          /\ lastSeq'[r] = meta[pollSlot[r]].seq
      BY <2>0, <2>2 DEF Inspect, TypeOK
    <3>2. NotOlder(meta[pollSlot[r]], floor[r]) /\ OneAhead(Seen(r), floor[r])
          /\ meta[pollSlot[r]].gen = readerGen[r]
      BY <1>1, <2>0, <3>1 DEF ReaderOrder, Leasing
    <3> QED  BY <2>0, <3>1, <3>2, OrderTypes DEF NotOlder, OneAhead, Seen
  <2>3. CASE ~Inspect(r)
    <3>1. lastSeq'[r] = lastSeq[r] \/ lastSeq'[r] = NoSequence
      BY <1>1, <2>0, <2>3
        DEF Next, SendStep, ReadStep, ClaimWriter, ResetActive, ResetSlot,
            BeginSend, ClaimSlot, RefuseSlot, StoreMetadata, CopyPayload,
            PublishReady, SelectActive, Disconnect, WriterCrash, WriterLeaves,
            LoadGeneration, LoadActive, ClaimForRead, Inspect, Release, Open,
            Close, ReaderCrash, ForgetReader, vars, reader, TypeOK
    <3> QED  BY <1>1, <2>1, <3>1
  <2> QED  BY <2>1, <2>2, <2>3
<1>2. IInv /\ OrderInv /\ [Next]_vars => StepsBackAtMostOneNext
  BY <1>1 DEF StepsBackAtMostOneNext
<1> QED  BY <1>2, OrderInvariance, PTL DEF Spec, StepsBackAtMostOne, StepsBackAtMostOneNext

-----------------------------------------------------------------------------
(* The refinement: each step of the slot protocol is a step of the mailbox *)
(* or leaves it as it is.                                                  *)

Held == [r \in Readers |->
           IF rpc[r] = "borrowed" THEN data[pollSlot[r]] ELSE Torn]

LEMMA MailboxStutters ==
  ASSUME UNCHANGED <<Available, selected, Held, floor>>
  PROVE  UNCHANGED Mailbox!vars
  BY DEF Mailbox!vars, Held

(* Frames that nobody holds leave the ring.                                *)
LEMMA MailboxDiscards ==
  ASSUME IInv, OrderInv, UNCHANGED <<data, selected, rpc, pollSlot, floor>>,
         \A s \in Slots : Leasable(s)' => Leasable(s),
         \A r \in Readers : rpc[r] = "borrowed" => Leasable(pollSlot[r])'
  PROVE  Mailbox!Next
<1>1. Available' \subseteq Available
  BY DEF Available, Leasable
<1>2. Held' = Held
  BY DEF Held
<1>3. ASSUME NEW r \in Readers PROVE Held[r] \notin Available \ Available'
  <2>1. CASE rpc[r] = "borrowed"
    <3>1. Held[r] = data[pollSlot[r]] /\ pollSlot[r] \in Slots
      BY <2>1 DEF Held, IInv, TypeOK
    <3>2. data[pollSlot[r]] \in Available'
      BY <2>1, <3>1 DEF Available, Leasable
    <3> QED  BY <3>1, <3>2
  <2>2. CASE rpc[r] # "borrowed"
    <3>1. Held[r] = Torn
      BY <2>2 DEF Held
    <3>2. Torn \notin Available
      BY DEF Available, IInv, WholeWhenLeasable, OrderInv, LeasablePublished,
             Leasable, PublishedFrame, Torn
    <3> QED  BY <3>1, <3>2
  <2> QED  BY <2>1, <2>2
<1>4. Available' = Available \ (Available \ Available')
  BY <1>1
<1>5. Mailbox!Discard
  BY <1>2, <1>3, <1>4 DEF Mailbox!Discard, Held
<1> QED  BY <1>5 DEF Mailbox!Next

(* A try or a poll that ends, in a reader that holds a frame or not.       *)
LEMMA MailboxLetsGo ==
  ASSUME TypeOK, NEW r \in Readers, Others(r), ForgetTry(r),
         rpc'[r] # "borrowed", UNCHANGED <<Available, selected, data>>
  PROVE  Mailbox!Next
<1>1. Held' = [Held EXCEPT ![r] = Torn]
  BY DEF Held, Others
<1>2. floor' = [floor EXCEPT ![r] = Torn]
  BY DEF ForgetTry
<1>3. Mailbox!LetGo(r)
  BY <1>1, <1>2 DEF Mailbox!LetGo, Held
<1> QED  BY <1>3 DEF Mailbox!Next

LEMMA SameLeasable ==
  ASSUME UNCHANGED data, \A s \in Slots : Leasable(s)' = Leasable(s)
  PROVE  Available' = Available
  BY DEF Available, Leasable

(* The writer's steps. *)
LEMMA WriterRefines ==
  ASSUME IInv, OrderInv, SendStep \/ Disconnect \/ WriterCrash
  PROVE  Mailbox!Next \/ UNCHANGED Mailbox!vars
<1>0. /\ TypeOK /\ LeaseHeld /\ WriterHolds /\ FilledSoFar /\ WholeWhenLeasable
      /\ Numbering /\ RingIssued /\ NewestInFlight /\ LeasablePublished
  BY DEF IInv, OrderInv
<1>1. CASE ClaimWriter \/ ResetActive \/ BeginSend \/ RefuseSlot \/ Disconnect \/ WriterCrash
  <2>1. UNCHANGED <<slot, data, selected, rpc, pollSlot, floor>>
    BY <1>1 DEF ClaimWriter, ResetActive, BeginSend, RefuseSlot, Disconnect,
                WriterCrash, WriterLeaves, header, ring, reader
  <2> QED  BY <2>1, MailboxStutters DEF Available, Held
<1>2. CASE ResetSlot
  <2>1. UNCHANGED <<data, selected, rpc, pollSlot, floor>> /\ wtry \in Slots
    BY <1>0, <1>2 DEF ResetSlot, header, reader, TypeOK
  <2>2. \A s \in Slots : \/ slot'[s] = slot[s]
                         \/ slot'[s] = Word("FREE") /\ ~KeptByReset(slot[s])
    BY <1>0, <1>2 DEF ResetSlot, TypeOK
  <2>3. \A s \in Slots : Leasable(s)' => Leasable(s)
    BY <2>2, WordFacts DEF Leasable
  <2>4. ASSUME NEW r \in Readers, rpc[r] = "borrowed" PROVE Leasable(pollSlot[r])'
    <3>1. slot[pollSlot[r]] = Reading(r) /\ pollSlot[r] \in Slots
      BY <1>0, <2>4 DEF LeaseHeld, Leasing, TypeOK
    <3>2. KeptByReset(slot[pollSlot[r]])
      BY <2>4, <3>1, WordFacts DEF KeptByReset, Alive
    <3> QED  BY <2>1, <2>2, <3>1, <3>2, WordFacts DEF Leasable
  <2> QED  BY <2>1, <2>3, <2>4, MailboxDiscards
<1>3. CASE ClaimSlot
  <2>1. /\ UNCHANGED <<data, selected, rpc, pollSlot, floor>>
        /\ Candidate \in Slots /\ ClaimableForWrite(slot[Candidate])
        /\ slot' = [slot EXCEPT ![Candidate] = Word("WRITING")]
    BY <1>0, <1>3, CandidateInSlots DEF ClaimSlot, header, reader
  <2>2. \A s \in Slots : \/ slot'[s] = slot[s]
                         \/ s = Candidate /\ slot'[s] = Word("WRITING")
    BY <1>0, <2>1 DEF TypeOK
  <2>3. \A s \in Slots : Leasable(s)' => Leasable(s)
    BY <2>2, WordFacts DEF Leasable
  <2>4. ASSUME NEW r \in Readers, rpc[r] = "borrowed" PROVE Leasable(pollSlot[r])'
    <3>1. slot[pollSlot[r]] = Reading(r) /\ pollSlot[r] \in Slots
      BY <1>0, <2>4 DEF LeaseHeld, Leasing, TypeOK
    <3>2. ~ClaimableForWrite(slot[pollSlot[r]])
      BY <2>4, <3>1, WordFacts DEF ClaimableForWrite, Alive
    <3> QED  BY <2>1, <2>2, <3>1, <3>2, WordFacts DEF Leasable
  <2> QED  BY <2>1, <2>3, <2>4, MailboxDiscards
<1>4. CASE StoreMetadata \/ CopyPayload
  <2>1. /\ wpc \in Writing /\ wslot \in Slots
        /\ UNCHANGED <<slot, selected, rpc, pollSlot, floor>>
        /\ \E f : data' = [data EXCEPT ![wslot] = f]
    BY <1>0, <1>4 DEF StoreMetadata, CopyPayload, WriterGoto, Writing, header,
                      reader, TypeOK
  <2>2. slot[wslot] = Word("WRITING") /\ ~Leasable(wslot)
    BY <1>0, <2>1, WordFacts DEF WriterHolds, Leasable
  <2>3. \A s \in Slots : Leasable(s) => data'[s] = data[s]
    BY <1>0, <2>1, <2>2 DEF TypeOK
  <2>4. Available' = Available
    BY <2>1, <2>3 DEF Available, Leasable
  <2>5. ASSUME NEW r \in Readers, rpc[r] = "borrowed"
        PROVE  Leasable(pollSlot[r]) /\ pollSlot[r] \in Slots
    BY <1>0, <2>5, WordFacts DEF LeaseHeld, Leasing, TypeOK, Leasable
  <2>6. Held' = Held
    BY <2>1, <2>3, <2>5 DEF Held
  <2> QED  BY <2>1, <2>4, <2>6, MailboxStutters
<1>5. CASE PublishReady
  <2>1. /\ wpc = "publish" /\ wslot \in Slots
        /\ slot' = [slot EXCEPT ![wslot] = Word("READY")]
        /\ UNCHANGED <<data, selected, rpc, pollSlot, floor>>
    BY <1>0, <1>5 DEF PublishReady, WriterGoto, header, reader, TypeOK
  <2>2. slot[wslot] = Word("WRITING") /\ ~Leasable(wslot)
    BY <1>0, <2>1, WordFacts DEF WriterHolds, Writing, Leasable
  <2>3. data[wslot] = wframe
    BY <1>0, <2>1 DEF FilledSoFar
  <2>4. \A s \in Slots : Leasable(s)' <=> Leasable(s) \/ s = wslot
    BY <1>0, <2>1, WordFacts DEF TypeOK, Leasable
  <2>5. Available' = Available \cup {wframe}
    BY <2>1, <2>3, <2>4 DEF Available, Leasable
  <2>6. wframe \in PublishedFrame
    BY <1>0, <2>1, BoundsAssumption
      DEF NewestInFlight, InFlight, Numbering, Online, PublishedFrame, TypeOK
  <2>7. ASSUME NEW g \in Available PROVE NotOlder(wframe, g) /\ wframe # g
    <3>1. PICK s \in Slots : Leasable(s) /\ g = data[s]
      BY DEF Available, Leasable
    <3>2. s # wslot /\ g = meta[s]
      BY <1>0, <2>2, <3>1 DEF WholeWhenLeasable, Leasable
    <3> QED  BY <1>0, <2>1, <3>2 DEF NewestInFlight, InFlight
  <2>8. Held' = Held
    BY <2>1 DEF Held
  <2>9. Mailbox!Publish
    BY <2>1, <2>5, <2>6, <2>7, <2>8
      DEF Mailbox!Publish, Mailbox!NotOlder, NotOlder, Held
  <2> QED  BY <2>9 DEF Mailbox!Next
<1>6. CASE SelectActive
  <2>1. /\ wpc = "select" /\ wslot \in Slots /\ selected' = wframe
        /\ UNCHANGED <<slot, data, rpc, pollSlot, floor>>
    BY <1>0, <1>6 DEF SelectActive, WriterGoto, ring, reader, TypeOK
  <2>2. /\ Leasable(wslot) /\ meta[wslot] = wframe
        /\ wframe = [gen |-> lastGen, seq |-> nextSeq - 1]
    BY <1>0, <2>1 DEF NewestInFlight, InFlight
  <2>3. wframe \in Available
    BY <1>0, <2>1, <2>2 DEF WholeWhenLeasable, Leasable, Available
  <2>4. NotOlder(wframe, selected)
    <3>1. /\ selected.gen <= lastGen
          /\ selected.gen = lastGen => selected.seq < nextSeq
      BY <1>0, <2>1 DEF RingIssued, Issued, Online
    <3>2. /\ wframe.gen = lastGen /\ wframe.seq = nextSeq - 1
          /\ lastGen \in Nat /\ nextSeq \in Nat
          /\ selected.gen \in Nat /\ selected.seq \in Int
      BY <1>0, <2>2, OrderTypes DEF TypeOK
    <3> QED  BY <3>1, <3>2 DEF NotOlder
  <2>5. Available' = Available /\ Held' = Held
    BY <2>1 DEF Available, Held
  <2>6. Mailbox!Point
    BY <2>1, <2>3, <2>4, <2>5
      DEF Mailbox!Point, Mailbox!NotOlder, NotOlder, Held
  <2> QED  BY <2>6 DEF Mailbox!Next
<1> QED  BY <1>1, <1>2, <1>3, <1>4, <1>5, <1>6 DEF SendStep

(* The readers' steps. *)
LEMMA ReaderRefines ==
  ASSUME IInv, OrderInv, NEW r \in Readers,
         ReadStep(r) \/ Open(r) \/ Close(r) \/ ReaderCrash(r)
  PROVE  Mailbox!Next \/ UNCHANGED Mailbox!vars
<1>0. /\ TypeOK /\ LeaseHeld /\ WholeWhenLeasable /\ ReaderOrder(r)
      /\ pollSlot[r] \in Slots
  BY DEF IInv, OrderInv, TypeOK
<1>1. UNCHANGED <<selected, data>>
  BY DEF ReadStep, LoadGeneration, LoadActive, ClaimForRead, Inspect, Release,
         Open, Close, ReaderCrash, header, ring
<1>2. \A s \in Slots : Leasable(s)' = Leasable(s)
  <2>1. CASE ClaimForRead(r) /\ slot[pollSlot[r]] = Word("READY")
    BY <1>0, <2>1, WordFacts DEF ClaimForRead, Leasable, TypeOK
  <2>2. CASE Release(r)
    <3>1. slot[pollSlot[r]] = Reading(r)
      BY <1>0, <2>2 DEF Release, LeaseHeld, Leasing
    <3> QED  BY <1>0, <2>2, <3>1, WordFacts DEF Release, Leasable, TypeOK
  <2>3. CASE ~(ClaimForRead(r) /\ slot[pollSlot[r]] = Word("READY")) /\ ~Release(r)
    <3>1. slot' = slot
      BY <2>3 DEF ReadStep, LoadGeneration, LoadActive, ClaimForRead, Inspect,
                  Open, Close, ReaderCrash, ring
    <3> QED  BY <3>1 DEF Leasable
  <2> QED  BY <2>1, <2>2, <2>3
<1>3. Available' = Available
  BY <1>1, <1>2, SameLeasable
<1>4. ASSUME Others(r), rpc[r] # "borrowed", rpc'[r] # "borrowed" PROVE Held' = Held
  BY <1>1, <1>4 DEF Held, Others
<1>5. CASE EndPoll(r) /\ rpc[r] # "dead"
  BY <1>0, <1>1, <1>3, <1>5, EndPollFacts, MailboxLetsGo DEF EndPoll
<1>6. CASE NextTry(r)
  BY <1>0, <1>1, <1>3, <1>6, NextTryFacts, MailboxLetsGo DEF NextTry, EndPoll
<1>7. CASE LoadGeneration(r) /\ ~EndPoll(r)
  <2>1. /\ rpc[r] \in {"idle", "generation"}
        /\ rpc' = [rpc EXCEPT ![r] = "active"]
        /\ pollGen' = [pollGen EXCEPT ![r] = writerGen]
        /\ UNCHANGED <<pollSlot, taken, floor>>
    BY <1>7 DEF LoadGeneration
  <2>2. Others(r) /\ rpc'[r] = "active"
    BY <1>0, <2>1 DEF TypeOK, Others
  <2> QED  BY <1>1, <1>3, <1>4, <2>1, <2>2, MailboxStutters
<1>8. CASE LoadActive(r) /\ ~EndPoll(r)
  <2>1. /\ rpc[r] = "active" /\ active # InvalidSlot
        /\ rpc' = [rpc EXCEPT ![r] = "claim"]
        /\ pollSlot' = [pollSlot EXCEPT ![r] = active]
        /\ floor' = [floor EXCEPT ![r] = selected]
        /\ UNCHANGED <<pollGen, taken>>
    BY <1>8 DEF LoadActive
  <2>2. Others(r) /\ rpc'[r] = "claim"
    BY <1>0, <2>1 DEF TypeOK, Others
  <2>3. Held' = Held /\ Held[r] = Torn
    BY <1>4, <2>1, <2>2 DEF Held
  <2>4. Mailbox!Poll(r)
    BY <1>1, <1>3, <2>1, <2>3 DEF Mailbox!Poll, Held
  <2> QED  BY <2>4 DEF Mailbox!Next
<1>9. CASE ClaimForRead(r) /\ ~NextTry(r)
  <2>1. /\ rpc[r] = "claim" /\ rpc' = [rpc EXCEPT ![r] = "inspect"]
        /\ UNCHANGED <<pollGen, pollSlot, taken, floor>>
    BY <1>9 DEF ClaimForRead
  <2>2. Others(r) /\ rpc'[r] = "inspect"
    BY <1>0, <2>1 DEF TypeOK, Others
  <2> QED  BY <1>1, <1>3, <1>4, <2>1, <2>2, MailboxStutters
<1>10. CASE Inspect(r)
  <2>1. /\ rpc[r] = "inspect" /\ UNCHANGED <<pollGen, pollSlot, floor>>
        /\ Others(r) /\ rpc'[r] \in {"retry", "skip", "borrowed"}
    BY <1>0, <1>10 DEF Inspect, TypeOK, Others
  <2>2. CASE rpc'[r] # "borrowed"
    BY <1>1, <1>3, <1>4, <2>1, <2>2, MailboxStutters
  <2>3. CASE rpc'[r] = "borrowed"
    <3>1. Leasable(pollSlot[r])
      BY <1>0, <2>1, WordFacts DEF LeaseHeld, Leasing, Leasable
    <3>2. data[pollSlot[r]] = meta[pollSlot[r]] /\ data[pollSlot[r]] \in Available
      BY <1>0, <3>1 DEF WholeWhenLeasable, Leasable, Available
    <3>3. NotOlder(data[pollSlot[r]], floor[r])
      BY <1>0, <2>1, <3>2 DEF ReaderOrder, Leasing
    <3>4. /\ Held[r] = Torn
          /\ Held' = [Held EXCEPT ![r] = data[pollSlot[r]]]
      BY <1>1, <2>1, <2>3 DEF Held, Others
    <3>5. Mailbox!Take(r)
      BY <1>1, <1>3, <2>1, <3>2, <3>3, <3>4
        DEF Mailbox!Take, Mailbox!NotOlder, NotOlder, Held
    <3> QED  BY <3>5 DEF Mailbox!Next
  <2> QED  BY <2>2, <2>3
<1>11. CASE Open(r) \/ Close(r)
  <2>1. /\ rpc[r] \in {"closed", "idle"}
        /\ \E to \in {"closed", "idle"} : rpc' = [rpc EXCEPT ![r] = to]
        /\ UNCHANGED <<pollGen, pollSlot, taken, floor>>
    BY <1>11 DEF Open, Close, ReaderGoto
  <2>2. Others(r) /\ rpc'[r] \in {"closed", "idle"}
    BY <1>0, <2>1 DEF TypeOK, Others
  <2> QED  BY <1>1, <1>3, <1>4, <2>1, <2>2, MailboxStutters
<1>12. CASE ReaderCrash(r)
  <2>1. ForgetTry(r) /\ rpc' = [rpc EXCEPT ![r] = "dead"]
    BY <1>12 DEF ReaderCrash
  <2>2. Others(r) /\ rpc'[r] = "dead"
    BY <1>0, <2>1, ForgetTryFacts DEF TypeOK, Others
  <2> QED  BY <1>0, <1>1, <1>3, <2>1, <2>2, MailboxLetsGo
<1>13. CASE Release(r)
  <2>1. rpc[r] # "dead"
    BY <1>13 DEF Release
  <2> QED  BY <1>5, <1>6, <1>13, <2>1 DEF Release
<1> QED
  <2>1. LoadGeneration(r) \/ LoadActive(r) => rpc[r] # "dead"
    BY DEF LoadGeneration, LoadActive
  <2> QED
    BY <1>5, <1>6, <1>7, <1>8, <1>9, <1>10, <1>11, <1>12, <1>13, <2>1
      DEF ReadStep

(* The slot protocol is the mailbox of whole frames that LatestFrame       *)
(* specifies, seen through the slots: read_latest_borrowed takes one whole *)
(* frame, not older than the one selected, and keeps it until it lets go.  *)
THEOREM ImplementsLatestFrameHolds == Spec => ImplementsLatestFrame
<1>1. Init => Mailbox!Init
  <2> SUFFICES ASSUME Init PROVE Mailbox!Init
    OBVIOUS
  <2>1. Available = {}
    BY WordFacts DEF Init, Available
  <2>2. Held = [r \in Readers |-> Torn]
    BY DEF Init, Held
  <2> QED  BY <2>1, <2>2 DEF Init, Mailbox!Init, Held
<1>2. IInv /\ OrderInv /\ [Next]_vars => [Mailbox!Next]_(Mailbox!vars)
  <2> SUFFICES ASSUME IInv, OrderInv, [Next]_vars
               PROVE  Mailbox!Next \/ UNCHANGED Mailbox!vars
    OBVIOUS
  <2>1. CASE UNCHANGED vars
    <3>1. UNCHANGED <<slot, data, selected, rpc, pollSlot, floor>>
      BY <2>1 DEF vars, header, ring, reader
    <3> QED  BY <3>1, MailboxStutters DEF Available, Held
  <2> QED  BY <2>1, WriterRefines, ReaderRefines DEF Next
<1> QED
  BY <1>1, <1>2, OrderInvariance, PTL
    DEF Spec, ImplementsLatestFrame, Mailbox!Spec

-----------------------------------------------------------------------------
(* With one reader no frame is dropped. *)

LEMMA NextOneLease == IInv /\ OneLease /\ [Next]_vars => OneLease'
<1> SUFFICES ASSUME IInv, OneLease, [Next]_vars PROVE OneLease'
  OBVIOUS
<1>0. TypeOK /\ OwnerInside
  BY DEF IInv
<1>1. CASE UNCHANGED slot
  BY <1>1 DEF OneLease
<1>2. ASSUME NEW t \in Slots, NEW w,
             slot' = [slot EXCEPT ![t] = w], \A r \in Readers : w # Reading(r)
      PROVE  OneLease'
  BY <1>0, <1>2 DEF OneLease, TypeOK
<1>3. CASE ResetSlot
  <2>1. wtry \in Slots /\ \A r \in Readers : Word("FREE") # Reading(r)
    BY <1>0, WordFacts DEF TypeOK
  <2> QED  BY <1>1, <1>2, <1>3, <2>1 DEF ResetSlot
<1>4. CASE ClaimSlot
  <2>1. Candidate \in Slots /\ \A r \in Readers : Word("WRITING") # Reading(r)
    BY <1>0, WordFacts, CandidateInSlots
  <2> QED  BY <1>2, <1>4, <2>1 DEF ClaimSlot
<1>5. CASE PublishReady
  <2>1. wslot \in Slots /\ \A r \in Readers : Word("READY") # Reading(r)
    BY <1>0, WordFacts DEF TypeOK
  <2> QED  BY <1>2, <1>5, <2>1 DEF PublishReady
<1>6. ASSUME NEW r \in Readers, Release(r) PROVE OneLease'
  <2>1. pollSlot[r] \in Slots /\ \A q \in Readers : Word("READY") # Reading(q)
    BY <1>0, WordFacts DEF TypeOK
  <2> QED  BY <1>2, <1>6, <2>1 DEF Release
<1>7. ASSUME NEW r \in Readers, ClaimForRead(r) PROVE OneLease'
  <2>1. CASE slot' = [slot EXCEPT ![pollSlot[r]] = Reading(r)]
    <3>1. rpc[r] = "claim"
      BY <1>7 DEF ClaimForRead
    <3>2. \A s \in Slots : slot[s] # Reading(r)
      BY <1>0, <3>1 DEF OwnerInside, Leasing
    <3>3. \A q \in Readers \ {r} : Reading(q) # Reading(r)
      BY WordFacts
    <3> QED  BY <1>0, <2>1, <3>2, <3>3 DEF OneLease, TypeOK
  <2> QED  BY <1>1, <1>7, <2>1 DEF ClaimForRead
<1> QED
  BY <1>1, <1>3, <1>4, <1>5, <1>6, <1>7
    DEF Next, SendStep, ReadStep, ClaimWriter, ResetActive, BeginSend,
        RefuseSlot, StoreMetadata, CopyPayload, SelectActive, Disconnect,
        WriterCrash, WriterLeaves, LoadGeneration, LoadActive, Inspect, Open,
        Close, ReaderCrash, ring, vars

(* The three slots a sweep tries are different ones.                       *)
LEMMA SweepOffsets ==
  ASSUME NEW n \in Slots, SlotCount >= 2
  PROVE  /\ (n + 0) % SlotCount = n
         /\ (n + 1) % SlotCount # n
         /\ SlotCount >= 3 => (n + 2) % SlotCount \notin {n, (n + 1) % SlotCount}
<1>1. n \in 0 .. SlotCount - 1 /\ SlotCount \in Nat
  BY SlotCountAssumption DEF Slots
<1>2. (n + 0) % SlotCount = n /\ (n + 1) % SlotCount # n
  BY <1>1, Z3
<1>3. SlotCount >= 3 => (n + 2) % SlotCount # n /\ (n + 2) % SlotCount # (n + 1) % SlotCount
  BY <1>1, Z3
<1> QED  BY <1>2, <1>3

(* What a refusal means when there is one reader: it is in that slot and   *)
(* in no other, living or dead, and it is not about to claim one.          *)
LEMMA RefusedByTheReader ==
  ASSUME IInv, OneLease, \A q, r \in Readers : q = r,
         wpc = "claim", NEW c \in Slots, RefusedForWrite(slot[c])
  PROVE  /\ slot[c].state = "READING"
         /\ \A s \in Slots : slot[s].state = "READING" => s = c
         /\ \A r \in Readers : rpc[r] # "claim"
<1>1. TypeOK /\ OwnerInside /\ slot[c] # Word("WRITING")
  BY DEF IInv, WritingAccounted, Writing
<1>2. slot[c].state = "READING"
  BY <1>1, WordFacts DEF RefusedForWrite, TypeOK
<1>3. PICK r \in Readers : slot[c] = Reading(r)
  BY <1>1, <1>2, WordFacts DEF TypeOK
<1>4. ASSUME NEW s \in Slots, slot[s].state = "READING" PROVE s = c
  <2>1. slot[s] = Reading(r)
    BY <1>1, <1>4, WordFacts DEF TypeOK
  <2> QED  BY <1>3, <2>1 DEF OneLease
<1>5. rpc[r] # "claim"
  BY <1>1, <1>3 DEF OwnerInside, Leasing
<1> QED  BY <1>2, <1>4, <1>5

(* In a sweep with one reader, the slots met so far account for it.        *)
LEMMA NextSweep ==
  ASSUME SlotCount >= 3, \A q, r \in Readers : q = r,
         IInv, OneLease, Sweep, [Next]_vars
  PROVE  Sweep' /\ ~(wpc = "claim" /\ wpc' = "idle")
<1>0. TypeOK /\ LeaseHeld
  BY DEF IInv
<1>a. /\ nextSlot \in Slots /\ wtry \in Slots /\ wtry \in Nat
      /\ SlotCount \in Nat /\ SlotCount >= 2
  BY <1>0, SlotCountAssumption DEF TypeOK, Slots
<1>1. CASE RefuseSlot
  <2>1. /\ wpc = "claim" /\ RefusedForWrite(slot[Candidate])
        /\ Candidate \in Slots
        /\ UNCHANGED <<active, slot, nextSlot, rpc, pollSlot>>
    BY <1>0, <1>1, CandidateInSlots DEF RefuseSlot, header, ring, reader
  <2>2. /\ slot[Candidate].state = "READING"
        /\ \A s \in Slots : slot[s].state = "READING" => s = Candidate
        /\ \A r \in Readers : rpc[r] # "claim"
    BY <2>1, RefusedByTheReader
  <2>3. CASE wtry = 0
    <3>1. wtry' = 1 /\ wpc' = "claim"
      BY <1>1, <1>a, <2>1, <2>3 DEF RefuseSlot
    <3>2. Candidate = nextSlot
      BY <1>a, <2>3, SweepOffsets DEF Candidate
    <3> QED  BY <2>1, <2>2, <3>1, <3>2 DEF Sweep
  <2>4. CASE wtry = 1
    <3>1. wtry' = 2 /\ wpc' = "claim"
      BY <1>1, <1>a, <2>1, <2>4 DEF RefuseSlot
    <3>2. Candidate = (nextSlot + 1) % SlotCount /\ Candidate # nextSlot
      BY <1>a, <2>4, SweepOffsets DEF Candidate
    <3>3. Candidate = active
      BY <2>1, <2>2, <2>4, <3>2 DEF Sweep
    <3> QED  BY <2>1, <2>2, <3>1, <3>2, <3>3 DEF Sweep
  <2>5. CASE wtry \notin {0, 1}
    <3>1. /\ active = (nextSlot + 1) % SlotCount
          /\ Candidate = (nextSlot + 2) % SlotCount
          /\ Candidate \in {nextSlot, active}
      BY <2>1, <2>2, <2>5 DEF Sweep, Candidate
    <3> QED  BY <1>a, <3>1, SweepOffsets
  <2> QED  BY <2>3, <2>4, <2>5
<1>2. CASE ~RefuseSlot /\ (SendStep \/ Disconnect \/ WriterCrash)
  <2>1. wpc' = "claim" => wtry' = 0
    BY <1>2
      DEF SendStep, ClaimWriter, ResetActive, ResetSlot, BeginSend, ClaimSlot,
          StoreMetadata, CopyPayload, PublishReady, SelectActive, Disconnect,
          WriterCrash, WriterLeaves, WriterGoto, Sweep, send
  <2>2. wtry' # 0 => wpc' \in {"resetSlots", "claim"}
    BY <1>2
      DEF SendStep, ClaimWriter, ResetActive, ResetSlot, BeginSend, ClaimSlot,
          StoreMetadata, CopyPayload, PublishReady, SelectActive, Disconnect,
          WriterCrash, WriterLeaves, WriterGoto, Sweep, send
  <2>3. ~(wpc = "claim" /\ wpc' = "idle")
    BY <1>2
      DEF SendStep, ClaimWriter, ResetActive, ResetSlot, BeginSend, ClaimSlot,
          StoreMetadata, CopyPayload, PublishReady, SelectActive, Disconnect,
          WriterCrash, WriterLeaves, WriterGoto
  <2> QED  BY <2>1, <2>2, <2>3 DEF Sweep
<1>3. ASSUME NEW r \in Readers,
             ReadStep(r) \/ Open(r) \/ Close(r) \/ ReaderCrash(r)
      PROVE  Sweep' /\ ~(wpc = "claim" /\ wpc' = "idle")
  <2>1. UNCHANGED <<wpc, wtry, nextSlot, active>>
    BY <1>3 DEF ReadStep, LoadGeneration, LoadActive, ClaimForRead, Inspect,
                Release, Open, Close, ReaderCrash, header, send
  <2>2. ASSUME wpc = "claim", wtry # 0, NEW s \in Slots, slot'[s].state = "READING"
        PROVE  s \in {nextSlot, active}
    <3>1. CASE slot[s].state = "READING"
      BY <2>2, <3>1 DEF Sweep
    <3>2. CASE slot[s].state # "READING"
      <4>1. rpc[r] = "claim" /\ pollSlot[r] = s
        BY <1>0, <1>3, <2>2, <3>2, WordFacts
          DEF ReadStep, LoadGeneration, LoadActive, ClaimForRead, Inspect,
              Release, Open, Close, ReaderCrash, ring, TypeOK
      <4> QED  BY <2>2, <4>1 DEF Sweep
    <3> QED  BY <3>1, <3>2
  <2>3. ASSUME wpc = "claim", wtry # 0, NEW q \in Readers, rpc'[q] = "claim"
        PROVE  pollSlot'[q] \in {nextSlot, active}
    <3>0. q = r
      OBVIOUS
    <3>1. CASE LoadActive(r)
      <4>1. pollSlot' = [pollSlot EXCEPT ![r] = active] \/ EndPoll(r)
        BY <3>1 DEF LoadActive
      <4> QED  BY <1>0, <2>3, <3>0, <4>1, EndPollFacts DEF TypeOK
    <3>2. CASE ~LoadActive(r)
      <4>1. rpc[r] = "claim" /\ pollSlot' = pollSlot
        BY <1>0, <1>3, <2>3, <3>0, <3>2, EndPollFacts, NextTryFacts
          DEF ReadStep, LoadGeneration, ClaimForRead, Inspect, Release,
              Open, Close, ReaderCrash, ReaderGoto, TypeOK
      <4> QED  BY <2>3, <3>0, <4>1 DEF Sweep
    <3> QED  BY <3>1, <3>2
  <2> QED  BY <2>1, <2>2, <2>3 DEF Sweep
<1>4. CASE UNCHANGED vars
  BY <1>4 DEF vars, header, ring, send, reader, Sweep
<1> QED  BY <1>1, <1>2, <1>3, <1>4 DEF Next

LEMMA InitSweep == Init => OneLease /\ Sweep
  BY WordFacts DEF Init, OneLease, Sweep

(* With three slots or more it takes two readers to drop a frame: a single *)
(* one, wherever it is or has died, is met in two slots of a sweep at most. *)
THEOREM OneReaderNeverDropsHolds ==
  ASSUME IsFiniteSet(Readers), SlotCount >= 3
  PROVE  Spec => OneReaderNeverDrops
<1>1. CASE \A q, r \in Readers : q = r
  <2>1. Init => IInv /\ OneLease /\ Sweep
    BY InitIInv, InitSweep
  <2>2. IInv /\ OneLease /\ Sweep /\ [Next]_vars => (IInv /\ OneLease /\ Sweep)'
    BY <1>1, NextIInv, NextOneLease, NextSweep
  <2>3. IInv /\ OneLease /\ Sweep /\ [Next]_vars
          => [wpc = "claim" /\ wpc' = "idle" => Cardinality(Readers) > 1]_vars
    BY <1>1, NextSweep
  <2> QED  BY <2>1, <2>2, <2>3, PTL DEF Spec, OneReaderNeverDrops
<1>2. CASE ~ \A q, r \in Readers : q = r
  <2>1. PICK q \in Readers, r \in Readers : q # r
    BY <1>2
  <2>2. Readers # {} /\ ~ \E x : Readers = {x}
    BY <2>1
  <2>3. Cardinality(Readers) # 0 /\ Cardinality(Readers) # 1
    BY <2>2, FS_EmptySet, FS_Singleton
  <2>4. Cardinality(Readers) \in Nat
    BY FS_CardinalityType
  <2>5. Cardinality(Readers) > 1
    BY <2>3, <2>4
  <2>6. [Next]_vars => [wpc = "claim" /\ wpc' = "idle" => Cardinality(Readers) > 1]_vars
    BY <2>5
  <2> QED  BY <2>6, PTL DEF Spec, OneReaderNeverDrops
<1> QED  BY <1>1, <1>2

-----------------------------------------------------------------------------
(***************************************************************************)
(* The acknowledgement disturbs nothing of the slot protocol; and what the *)
(* writer sees of it is true, while one writer stays.                      *)
(***************************************************************************)

(* A step of AckNext is a step of the slot protocol, or none. *)
LEMMA AckStepIsSlotStep == [AckNext]_allVars => [Next]_vars
  BY DEF AckNext, allVars, WriterStep, WriterStops, ReaderStep, ReaderStops,
         ResetConsumer, Acknowledge, SeePid, SeeFields, RecheckPid, Next

(* The acknowledgement takes nothing from the slot protocol: all that is   *)
(* proved of SlotTransport holds while readers acknowledge, writers reset  *)
(* and observe.                                                            *)
THEOREM ImplementsSlotTransport == AckSpec => Spec
<1>1. AckInit => Init
  BY DEF AckInit
<1> QED  BY <1>1, AckStepIsSlotStep, PTL DEF AckSpec, Spec

(* A frame that has its number keeps it: no later frame takes it. *)
LEMMA IssuedKept ==
  ASSUME TypeOK, Numbering, NEW f \in PublishedFrame, Issued(f), [Next]_vars
  PROVE  Issued(f)'
<1>0. /\ f.gen \in Nat /\ f.seq \in Nat /\ lastGen \in Nat /\ nextSeq \in Nat
  BY BoundsAssumption DEF PublishedFrame, TypeOK
<1>1. CASE ClaimWriter
  BY <1>0, <1>1 DEF ClaimWriter, WriterGoto, Issued, Online
<1>2. CASE ResetActive
  BY <1>0, <1>2 DEF ResetActive, WriterGoto, Issued, Online
<1>3. CASE StoreMetadata
  BY <1>0, <1>3 DEF StoreMetadata, WriterGoto, Issued, Online
<1>4. CASE Disconnect \/ WriterCrash
  BY <1>0, <1>4 DEF Disconnect, WriterCrash, WriterLeaves, Issued, Online
<1>5. CASE \/ ResetSlot \/ BeginSend \/ ClaimSlot \/ RefuseSlot
           \/ CopyPayload \/ PublishReady \/ SelectActive
  BY <1>0, <1>5
    DEF ResetSlot, BeginSend, ClaimSlot, RefuseSlot, DropFrame, CopyPayload,
        PublishReady, SelectActive, WriterGoto, Issued, Online, header
<1>6. CASE UNCHANGED <<header, lastGen, wpc>>
  BY <1>6 DEF Issued, Online, header
<1>7. ASSUME NEW r \in Readers, ReadStep(r) \/ Open(r) \/ Close(r) \/ ReaderCrash(r)
      PROVE  UNCHANGED <<header, lastGen, wpc>>
  BY <1>7 DEF ReadStep, LoadGeneration, LoadActive, ClaimForRead, Inspect, Release,
              Open, Close, ReaderCrash
<1> QED  BY <1>1, <1>2, <1>3, <1>4, <1>5, <1>6, <1>7 DEF Next, SendStep, vars

-----------------------------------------------------------------------------
(* What holds of the acknowledgement however often writers come and go.    *)

LEMMA ProgressFacts ==
  /\ NoProgress \in Progress
  /\ \A p \in Progress : /\ p.pid \in Readers \cup {NoPid} /\ p.gen \in Nat
                         /\ p.seq \in Nat /\ p.beat \in Frame
  /\ \A p \in Progress :
       /\ \A x \in Readers \cup {NoPid} : [p EXCEPT !.pid = x] \in Progress
       /\ \A n \in Nat : /\ [p EXCEPT !.gen = n] \in Progress
                         /\ [p EXCEPT !.seq = n] \in Progress
       /\ \A b \in Frame : [p EXCEPT !.beat = b] \in Progress
  BY FrameFacts DEF Progress, NoProgress

(* A borrowed frame is a published one. *)
BorrowedIsPublished ==
  \A r \in Readers :
    rpc[r] = "borrowed" => taken[r] \in PublishedFrame /\ Issued(taken[r])

LEMMA BorrowedPublished == IInv /\ OrderInv => BorrowedIsPublished
<1> SUFFICES ASSUME IInv, OrderInv, NEW r \in Readers, rpc[r] = "borrowed"
             PROVE  taken[r] \in PublishedFrame /\ Issued(taken[r])
  BY DEF BorrowedIsPublished
<1>1. slot[pollSlot[r]] = Reading(r) /\ pollSlot[r] \in Slots
  BY DEF IInv, LeaseHeld, TypeOK, Leasing
<1>2. taken[r] = meta[pollSlot[r]]
  BY DEF IInv, TakenIsMeta
<1>3. Leasable(pollSlot[r])
  BY <1>1, WordFacts DEF Leasable
<1> QED  BY <1>1, <1>2, <1>3 DEF OrderInv, LeasablePublished, RingIssued

LEMMA InitAck == AckInit => AckOrder /\ GenerationKnown /\ ReportIsCurrent
<1> SUFFICES ASSUME AckInit PROVE AckOrder /\ GenerationKnown /\ ReportIsCurrent
  OBVIOUS
<1>1. AckTypeOK
  BY InitIInv, ProgressFacts DEF AckInit, IInv, AckTypeOK
<1>2. AnsweredFrames /\ WriterAtRest /\ GenerationKnown /\ ReportIsCurrent
  BY DEF AckInit, Init, AnsweredFrames, WriterAtRest, GenerationKnown, NoProgress,
         ResetAt, SeeAt, ReportIsCurrent, Online
<1> QED  BY <1>1, <1>2 DEF AckOrder

LEMMA NextAck ==
  ASSUME IInv, OrderInv, AckOrder, [AckNext]_allVars
  PROVE  AckOrder'
<1>0. /\ TypeOK /\ AckTypeOK /\ AnsweredFrames /\ WriterAtRest /\ Numbering
      /\ IInv' /\ OrderInv' /\ TypeOK' /\ [Next]_vars
  BY AckStepIsSlotStep, NextIInv, NextOrder DEF IInv, OrderInv, AckOrder
<1>e. BorrowedIsPublished'
  BY <1>0, BorrowedPublished, PTL
<1>a. \A f \in answered : f \in PublishedFrame /\ Issued(f)'
  BY <1>0, IssuedKept DEF AnsweredFrames
<1>b. SendStep \/ Disconnect \/ WriterCrash \/ UNCHANGED vars => UNCHANGED <<rpc, taken>>
  BY DEF SendStep, ClaimWriter, ResetActive, ResetSlot, BeginSend, ClaimSlot,
         RefuseSlot, StoreMetadata, CopyPayload, PublishReady, SelectActive,
         Disconnect, WriterCrash, WriterLeaves, vars, reader
<1>c. UNCHANGED vars => UNCHANGED <<wpc, nextSeq>>
  BY DEF vars, header
<1>d. ASSUME NEW r \in Readers, ReadStep(r) \/ Open(r) \/ Close(r) \/ ReaderCrash(r)
      PROVE  UNCHANGED <<wpc, nextSeq>>
  BY <1>d DEF ReadStep, LoadGeneration, LoadActive, ClaimForRead, Inspect, Release,
              Open, Close, ReaderCrash, header
<1>1. CASE WriterStep
  <2>1. AckTypeOK'
    BY <1>0, <1>1, ProgressFacts DEF WriterStep, AckTypeOK, ResetAt
  <2>2. AnsweredFrames'
    BY <1>0, <1>1, <1>a, <1>b DEF WriterStep, AnsweredFrames
  <2>3. WriterAtRest'
    BY <1>1
      DEF WriterStep, WriterAtRest, ResetAt, SeeAt, NoProgress, WriterGoto,
          SendStep, ClaimWriter, ResetActive, ResetSlot, BeginSend, ClaimSlot,
          RefuseSlot, StoreMetadata, CopyPayload, PublishReady, SelectActive
  <2> QED  BY <2>1, <2>2, <2>3 DEF AckOrder
<1>2. CASE WriterStops
  <2>1. AckTypeOK'
    BY <1>0, <1>2, ProgressFacts DEF WriterStops, AckTypeOK
  <2>2. AnsweredFrames'
    BY <1>0, <1>2, <1>a, <1>b DEF WriterStops, AnsweredFrames
  <2>3. WriterAtRest'
    BY <1>2 DEF WriterStops, WriterAtRest, ResetAt, SeeAt, NoProgress
  <2> QED  BY <2>1, <2>2, <2>3 DEF AckOrder
<1>3. CASE ResetConsumer
  <2>1. consumer' \in Progress
    BY <1>0, <1>3, FrameFacts
      DEF ResetConsumer, WriterAt, Store, AckTypeOK, Progress
  <2>2. AckTypeOK'
    BY <1>0, <1>3, <2>1 DEF ResetConsumer, WriterAt, AckTypeOK, ResetAt
  <2>3. AnsweredFrames'
    BY <1>0, <1>3, <1>a, <1>b DEF ResetConsumer, AnsweredFrames
  <2>4. WriterAtRest'
    BY <1>0, <1>3, <1>c DEF ResetConsumer, WriterAt, WriterAtRest, ResetAt, SeeAt
  <2> QED  BY <2>2, <2>3, <2>4 DEF AckOrder
<1>4. CASE SeePid
  <2>1. seen' \in Progress
    BY <1>0, <1>4, ProgressFacts DEF SeePid, AckTypeOK
  <2>2. AckTypeOK'
    BY <1>0, <1>4, <2>1, ProgressFacts DEF SeePid, AckTypeOK, SeeAt
  <2>3. AnsweredFrames'
    BY <1>0, <1>4, <1>a, <1>b DEF SeePid, AnsweredFrames
  <2>4. WriterAtRest'
    BY <1>4, <1>c DEF SeePid, WriterAtRest, ResetAt, SeeAt
  <2> QED  BY <2>2, <2>3, <2>4 DEF AckOrder
<1>5. CASE SeeFields
  <2>1. seen' \in Progress
    BY <1>0, <1>5 DEF SeeFields, See, AckTypeOK, Progress
  <2>2. AckTypeOK'
    BY <1>0, <1>5, <2>1 DEF SeeFields, WriterAt, AckTypeOK, SeeAt
  <2>3. AnsweredFrames'
    BY <1>0, <1>5, <1>a, <1>b DEF SeeFields, AnsweredFrames
  <2>4. WriterAtRest'
    BY <1>0, <1>5, <1>c DEF SeeFields, WriterAt, WriterAtRest, ResetAt, SeeAt
  <2> QED  BY <2>2, <2>3, <2>4 DEF AckOrder
<1>6. CASE RecheckPid
  <2>1. AckTypeOK'
    BY <1>0, <1>6, ProgressFacts DEF RecheckPid, WriterAt, AckTypeOK
  <2>2. AnsweredFrames'
    BY <1>0, <1>6, <1>a, <1>b DEF RecheckPid, AnsweredFrames
  <2>3. WriterAtRest'
    BY <1>0, <1>6, <1>c DEF RecheckPid, WriterAt, WriterAtRest, ResetAt, SeeAt
  <2> QED  BY <2>1, <2>2, <2>3 DEF AckOrder
<1>7. ASSUME NEW r \in Readers, ReaderStep(r) PROVE AckOrder'
  <2>1. ReadStep(r) \/ Open(r) \/ Close(r)
    BY <1>7 DEF ReaderStep
  <2>2. Answers(r) => taken'[r] \in PublishedFrame /\ Issued(taken[r])'
    BY <1>e DEF Answers, BorrowedIsPublished
  <2>3. AckTypeOK'
    BY <1>0, <1>7, <2>2, BoundsAssumption
      DEF ReaderStep, AckTypeOK, AckAt, PublishedFrame, Frame
  <2>4. AnsweredFrames'
    <3>1. \A q \in Readers \ {r} : rpc'[q] = rpc[q] /\ taken'[q] = taken[q]
      BY <1>0, <2>1
        DEF ReadStep, LoadGeneration, LoadActive, ClaimForRead, Inspect, Release,
            Open, Close, EndPoll, NextTry, ForgetTry, ReaderGoto, TypeOK
    <3>2. ~Answers(r) => rpc'[r] # "borrowed"
      BY <1>0, <2>1
        DEF Answers, ReadStep, LoadGeneration, LoadActive, ClaimForRead, Inspect,
            Release, Open, Close, EndPoll, NextTry, ReaderGoto, TypeOK
    <3>3. rack' \in [Readers -> {"none"} \cup AckAt]
          /\ (rack'[r] # "none" => Answers(r))
          /\ \A q \in Readers \ {r} : rack'[q] = rack[q]
      BY <1>0, <1>7, <2>3 DEF ReaderStep, AckTypeOK
    <3>4. answered' = IF Answers(r) THEN answered \cup {taken'[r]} ELSE answered
      BY <1>7 DEF ReaderStep
    <3>5. answered' \subseteq PublishedFrame /\ \A f \in answered' : Issued(f)'
      BY <1>a, <2>2, <3>3, <3>4 DEF Issued, Online
    <3>6. \A q \in Readers : /\ rack'[q] # "none" => rpc'[q] = "borrowed"
                             /\ rpc'[q] = "borrowed" => taken'[q] \in answered'
      BY <1>0, <3>1, <3>2, <3>3, <3>4 DEF AnsweredFrames, Answers
    <3> QED  BY <3>5, <3>6 DEF AnsweredFrames
  <2>5. WriterAtRest'
    BY <1>0, <1>7, <1>d, <2>1 DEF ReaderStep, WriterAtRest
  <2> QED  BY <2>3, <2>4, <2>5 DEF AckOrder
<1>8. ASSUME NEW r \in Readers, ReaderStops(r) PROVE AckOrder'
  <2>1. AckTypeOK'
    BY <1>0, <1>8 DEF ReaderStops, AckTypeOK
  <2>2. AnsweredFrames'
    BY <1>0, <1>8, <1>a
      DEF ReaderStops, ReaderCrash, ForgetTry, AnsweredFrames, AckTypeOK, TypeOK
  <2>3. WriterAtRest'
    BY <1>0, <1>8, <1>d DEF ReaderStops, WriterAtRest
  <2> QED  BY <2>1, <2>2, <2>3 DEF AckOrder
<1>9. ASSUME NEW r \in Readers, Acknowledge(r) PROVE AckOrder'
  <2>1. taken[r] \in answered /\ rpc[r] = "borrowed"
    BY <1>0, <1>9 DEF Acknowledge, ReaderAt, AnsweredFrames
  <2>2. taken[r].gen \in Nat /\ taken[r].seq \in Nat /\ taken[r] \in Frame
    BY <1>0, <2>1, BoundsAssumption DEF AnsweredFrames, PublishedFrame, TypeOK
  <2>3. consumer' \in Progress
    BY <1>0, <1>9, <2>2 DEF Acknowledge, Store, AckTypeOK, Progress
  <2>4. AckTypeOK'
    BY <1>0, <1>9, <2>3 DEF Acknowledge, ReaderAt, AckTypeOK, AckAt
  <2>5. AnsweredFrames'
    BY <1>0, <1>9, <1>a, <1>b, <2>1
      DEF Acknowledge, ReaderAt, AnsweredFrames, AckTypeOK
  <2>6. WriterAtRest'
    BY <1>0, <1>9, <1>c DEF Acknowledge, WriterAtRest
  <2> QED  BY <2>4, <2>5, <2>6 DEF AckOrder
<1>10. CASE UNCHANGED allVars
  <2>1. AckTypeOK'
    BY <1>0, <1>10 DEF allVars, ackVars, AckTypeOK
  <2>2. AnsweredFrames'
    BY <1>0, <1>10, <1>a, <1>b DEF allVars, ackVars, AnsweredFrames
  <2>3. WriterAtRest'
    BY <1>0, <1>10, <1>c DEF allVars, ackVars, WriterAtRest
  <2> QED  BY <2>1, <2>2, <2>3 DEF AckOrder
<1> QED  BY <1>1, <1>2, <1>3, <1>4, <1>5, <1>6, <1>7, <1>8, <1>9, <1>10 DEF AckNext
-----------------------------------------------------------------------------
(* What the writer sees. *)

(* No step takes an answer back. *)
LEMMA AnsweredGrows == [AckNext]_allVars => answered \subseteq answered'
  BY DEF AckNext, allVars, ackVars, WriterStep, WriterStops, ReaderStep, ReaderStops,
         ResetConsumer, Acknowledge, SeePid, SeeFields, RecheckPid

(* Whatever overwrites whatever, a generation that is stored is that of an *)
(* answered frame.                                                         *)
LEMMA NextGenerationKnown ==
  ASSUME AckOrder, GenerationKnown, [AckNext]_allVars
  PROVE  GenerationKnown'
<1> DEFINE Known(n) == n # 0 => \E f \in answered : f.gen = n
<1>0. AckTypeOK /\ AnsweredFrames
  BY DEF AckOrder
<1>1. Known(consumer.gen) /\ Known(seen.gen) /\ Known(progress.gen) /\ Known(0)
  BY DEF GenerationKnown
<1>2. Known(NoProgress.gen)
  BY DEF NoProgress
<1>3. SUFFICES Known(consumer'.gen) /\ Known(seen'.gen) /\ Known(progress'.gen)
  BY AnsweredGrows DEF GenerationKnown
<1>4. CASE WriterStep \/ WriterStops \/ SeePid \/ UNCHANGED allVars
  BY <1>1, <1>2, <1>4
    DEF WriterStep, WriterStops, SeePid, NoProgress, allVars, ackVars
<1>5. CASE ResetConsumer
  BY <1>0, <1>1, <1>5 DEF ResetConsumer, WriterAt, Store, AckTypeOK, Progress
<1>6. CASE SeeFields
  BY <1>0, <1>1, <1>6 DEF SeeFields, WriterAt, See, AckTypeOK, Progress
<1>7. CASE RecheckPid
  BY <1>1, <1>2, <1>7 DEF RecheckPid
<1>8. ASSUME NEW r \in Readers, ReaderStep(r) \/ ReaderStops(r)
      PROVE  Known(consumer'.gen) /\ Known(seen'.gen) /\ Known(progress'.gen)
  BY <1>1, <1>8 DEF ReaderStep, ReaderStops
<1>9. ASSUME NEW r \in Readers, Acknowledge(r)
      PROVE  Known(consumer'.gen) /\ Known(seen'.gen) /\ Known(progress'.gen)
  <2>1. taken[r] \in answered
    BY <1>0, <1>9 DEF Acknowledge, ReaderAt, AnsweredFrames
  <2>2. Known(taken[r].gen)
    BY <2>1
  <2>3. consumer'.gen \in {consumer.gen, taken[r].gen}
    BY <1>0, <1>9 DEF Acknowledge, ReaderAt, Store, AckTypeOK, Progress
  <2> QED  BY <1>1, <1>9, <2>2, <2>3 DEF Acknowledge
<1> QED  BY <1>4, <1>5, <1>6, <1>7, <1>8, <1>9 DEF AckNext

(* While a writer resets the fields no reader can have a frame of its own: *)
(* the next frame is its first.                                            *)
LEMMA NothingOfItsOwn ==
  ASSUME AckOrder, Online, wack \in ResetAt
  PROVE  /\ CurrentFrame = {}
         /\ \A r \in Readers : rack[r] # "none" => taken[r].gen # lastGen
<1>1. nextSeq = 0 /\ lastGen \in Nat
  BY DEF AckOrder, WriterAtRest, AckTypeOK, TypeOK
<1>2. ASSUME NEW f \in answered PROVE f.gen # lastGen
  <2>1. f.seq \in Nat /\ Issued(f)
    BY BoundsAssumption DEF AckOrder, AnsweredFrames, PublishedFrame
  <2> QED  BY <1>1, <2>1 DEF Issued
<1>3. CurrentFrame = {}
  BY <1>2 DEF CurrentFrame
<1>4. ASSUME NEW r \in Readers, rack[r] # "none" PROVE taken[r].gen # lastGen
  BY <1>2, <1>4 DEF AckOrder, AnsweredFrames
<1> QED  BY <1>3, <1>4

(* Unless a reader was late, the fields, what has been loaded of them and   *)
(* what is reported stay those of the writer that is there.                 *)
LEMMA NextReportIsCurrent ==
  ASSUME AckOrder, ReportIsCurrent, [AckNext]_allVars, Online', ~late'
  PROVE  ConsumerIsCurrent' /\ SeenIsCurrent' /\ ProgressIsCurrent'
<1> USE DEF ResetAt, SeeAt
<1>0. AckTypeOK /\ WriterAtRest /\ AnsweredFrames
  BY DEF AckOrder
<1>a. Online /\ ~late => ConsumerIsCurrent /\ SeenIsCurrent /\ ProgressIsCurrent
  BY DEF ReportIsCurrent
<1>b. UNCHANGED vars => UNCHANGED <<wpc, lastGen, taken, rpc>> /\ (Online' <=> Online)
  BY DEF vars, reader, Online
<1>1. CASE WriterStep
  <2>1. /\ UNCHANGED <<consumer, rack, seen, answered>> /\ progress'.pid = NoPid
        /\ wack = "none"
    BY <1>1 DEF WriterStep, NoProgress
  <2>2. ProgressIsCurrent' /\ SeenIsCurrent'
    BY <1>1, <2>1 DEF WriterStep, ProgressIsCurrent, SeenIsCurrent
  <2>3. CASE wpc = "resetActive"
    BY <1>1, <2>2, <2>3 DEF WriterStep, ConsumerIsCurrent
  <2>4. CASE wpc # "resetActive"
    <3>1. wack' = "none"
      BY <1>1, <2>4 DEF WriterStep
    <3>2. wpc # "offline" /\ UNCHANGED <<lastGen, taken>>
      BY <1>1
        DEF WriterStep, SendStep, Online, WriterGoto, ClaimWriter, ResetActive, ResetSlot,
            BeginSend, ClaimSlot, RefuseSlot, StoreMetadata, CopyPayload, PublishReady,
            SelectActive, reader
    <3>3. ConsumerIsCurrent
      BY <1>1, <1>a, <2>4, <3>2 DEF WriterStep, Online
    <3>4. UNCHANGED <<CurrentFrame, Visible, Past({"seq", "beat", "end"}),
                      Past({"beat", "end"}), Past({"end"})>>
      BY <2>1, <3>1, <3>2 DEF CurrentFrame, Visible, Past
    <3>5. UNCHANGED OfCurrent(consumer.seq)
      BY <2>1, <3>4 DEF OfCurrent
    <3>6. ConsumerIsCurrent'
      BY <2>1, <3>1, <3>2, <3>3, <3>4, <3>5 DEF ConsumerIsCurrent
    <3> QED  BY <2>2, <3>6
  <2> QED  BY <2>3, <2>4
<1>2. CASE WriterStops
  BY <1>2 DEF WriterStops, Disconnect, WriterCrash, WriterLeaves, Online
<1>3. CASE ResetConsumer
  <2>1. UNCHANGED <<vars, rack, seen, progress, answered, late>> /\ wack \in ResetAt
    BY <1>3 DEF ResetConsumer, WriterAt
  <2>2. Online /\ ~late
    BY <1>b, <2>1
  <2>3. /\ CurrentFrame = {}
        /\ \A r \in Readers : rack[r] # "none" => taken[r].gen # lastGen
    BY <2>1, <2>2, NothingOfItsOwn
  <2>4. progress'.pid = NoPid
    BY <1>0, <2>1 DEF WriterAtRest
  <2>5. wack' \in (ResetAt \ {"resetPid"}) \cup {"none"} /\ consumer'.pid = NoPid
    <3>1. wack # "resetPid" => consumer.pid = NoPid
      BY <1>a, <2>1, <2>2 DEF ConsumerIsCurrent
    <3> QED  BY <1>0, <1>3, <3>1
               DEF ResetConsumer, WriterAt, Store, AckTypeOK, Progress
  <2>6. ~Past({"seq", "beat", "end"})' /\ ~Past({"beat", "end"})' /\ ~Past({"end"})'
    BY <1>b, <2>1, <2>3 DEF Past
  <2>7. ConsumerIsCurrent'
    BY <2>5, <2>6 DEF ConsumerIsCurrent, Visible
  <2> QED  BY <2>4, <2>5, <2>7 DEF SeenIsCurrent, ProgressIsCurrent
<1>4. CASE SeePid \/ SeeFields \/ RecheckPid \/ UNCHANGED allVars
  <2>1. UNCHANGED <<vars, consumer, rack, answered, late>>
    BY <1>4 DEF SeePid, SeeFields, RecheckPid, allVars, ackVars
  <2>2. Online /\ ~late
    BY <1>b, <2>1
  <2>3. ConsumerIsCurrent /\ SeenIsCurrent /\ ProgressIsCurrent
    BY <1>a, <2>2
  <2>4. CurrentFrame' = CurrentFrame /\ UNCHANGED <<lastGen, taken>>
    BY <1>b, <2>1 DEF CurrentFrame
  <2>5. \/ wack' = wack
        \/ Visible /\ wack' \in SeeAt \cup {"none"} /\ wack \notin ResetAt
    BY <1>4 DEF SeePid, SeeFields, RecheckPid, WriterAt, Visible, allVars, ackVars
  <2>6. Visible' => Visible
    BY <2>1, <2>5 DEF Visible
  <2>7. /\ Past({"seq", "beat", "end"})' = Past({"seq", "beat", "end"})
        /\ Past({"beat", "end"})' = Past({"beat", "end"}) /\ Past({"end"})' = Past({"end"})
    BY <2>1, <2>4 DEF Past
  <2>8. OfCurrent(consumer.seq)' <=> OfCurrent(consumer.seq)
    BY <2>1, <2>4 DEF OfCurrent
  <2>9. ConsumerIsCurrent'
    BY <2>1, <2>3, <2>4, <2>5, <2>6, <2>7, <2>8 DEF ConsumerIsCurrent
  <2>10. SeenIsCurrent' /\ ProgressIsCurrent'
    <3>1. CASE SeePid
      BY <2>3, <2>4, <3>1 DEF SeePid, SeenIsCurrent, ProgressIsCurrent, NoProgress
    <3>2. CASE SeeFields
      <4>1. Visible /\ wack \notin ResetAt
        BY <3>2 DEF SeeFields, WriterAt, Visible
      <4>2. /\ consumer.gen = lastGen /\ OfCurrent(consumer.seq)
            /\ consumer.beat \in CurrentFrame
        BY <2>3, <4>1 DEF ConsumerIsCurrent
      <4>3. SeenIsCurrent'
        BY <1>0, <2>1, <2>3, <2>4, <3>2, <4>2
          DEF SeeFields, WriterAt, See, SeenIsCurrent, OfCurrent, AckTypeOK, Progress
      <4> QED  BY <2>3, <2>4, <3>2, <4>3 DEF SeeFields, ProgressIsCurrent, OfCurrent
    <3>3. CASE RecheckPid
      BY <2>3, <2>4, <3>3
        DEF RecheckPid, WriterAt, SeenIsCurrent, ProgressIsCurrent, NoProgress, OfCurrent
    <3>4. CASE UNCHANGED allVars
      BY <2>3, <2>4, <3>4
        DEF allVars, ackVars, SeenIsCurrent, ProgressIsCurrent, OfCurrent
    <3> QED  BY <1>4, <3>1, <3>2, <3>3, <3>4
  <2> QED  BY <2>9, <2>10
<1>5. ASSUME NEW r \in Readers, ReaderStep(r) \/ ReaderStops(r)
      PROVE  ConsumerIsCurrent' /\ SeenIsCurrent' /\ ProgressIsCurrent'
  <2>1. UNCHANGED <<consumer, wack, seen, progress, late>> /\ answered \subseteq answered'
    BY <1>5, AnsweredGrows DEF ReaderStep, ReaderStops
  <2>2. UNCHANGED <<wpc, lastGen>>
        /\ \A q \in Readers \ {r} : taken'[q] = taken[q] /\ rack'[q] = rack[q]
    BY <1>0, <1>5
      DEF ReaderStep, ReaderStops, ReadStep, LoadGeneration, LoadActive, ClaimForRead,
          Inspect, Release, Open, Close, ReaderCrash, EndPoll, NextTry, ForgetTry,
          AckTypeOK, TypeOK
  <2>3. Online /\ ~late
    BY <2>1, <2>2 DEF Online
  <2>4. ConsumerIsCurrent /\ SeenIsCurrent /\ ProgressIsCurrent
    BY <1>a, <2>3
  <2>5. rack'[r] \in {"none", "pid"}
    BY <1>0, <1>5 DEF ReaderStep, ReaderStops, AckTypeOK
  <2>6. /\ Past({"seq", "beat", "end"})' => Past({"seq", "beat", "end"})
        /\ Past({"beat", "end"})' => Past({"beat", "end"})
        /\ Past({"end"})' => Past({"end"})
    BY <2>2, <2>5 DEF Past
  <2>7. CurrentFrame \subseteq CurrentFrame' /\ Visible' = Visible
    BY <2>1, <2>2 DEF CurrentFrame, Visible
  <2>8. /\ OfCurrent(consumer.seq) => OfCurrent(consumer.seq)'
        /\ OfCurrent(seen.seq) => OfCurrent(seen.seq)'
        /\ OfCurrent(progress.seq) => OfCurrent(progress.seq)'
    BY <2>1, <2>7 DEF OfCurrent
  <2>9. ConsumerIsCurrent'
    BY <2>1, <2>2, <2>4, <2>6, <2>7, <2>8 DEF ConsumerIsCurrent
  <2>10. SeenIsCurrent'
    BY <2>1, <2>2, <2>4, <2>7, <2>8 DEF SeenIsCurrent
  <2>11. ProgressIsCurrent'
    BY <2>1, <2>2, <2>4, <2>7, <2>8 DEF ProgressIsCurrent
  <2> QED  BY <2>9, <2>10, <2>11
<1>6. ASSUME NEW r \in Readers, Acknowledge(r)
      PROVE  ConsumerIsCurrent' /\ SeenIsCurrent' /\ ProgressIsCurrent'
  <2>1. UNCHANGED <<vars, wack, seen, progress, answered>> /\ rack[r] # "none"
    BY <1>6 DEF Acknowledge, ReaderAt
  <2>2. Online /\ ~late /\ taken[r].gen = lastGen
    BY <1>6, <1>b, <2>1 DEF Acknowledge
  <2>3. ConsumerIsCurrent /\ SeenIsCurrent /\ ProgressIsCurrent
    BY <1>a, <2>2
  <2>4. wack \notin ResetAt
    BY <2>1, <2>2, NothingOfItsOwn
  <2>5. taken[r] \in CurrentFrame /\ OfCurrent(taken[r].seq)
    BY <1>0, <2>1, <2>2 DEF AnsweredFrames, CurrentFrame, OfCurrent
  <2>6. CurrentFrame' = CurrentFrame /\ UNCHANGED <<lastGen, taken>>
    BY <1>b, <2>1 DEF CurrentFrame
  <2>7. SeenIsCurrent' /\ ProgressIsCurrent'
    BY <2>1, <2>3, <2>6 DEF SeenIsCurrent, ProgressIsCurrent, OfCurrent
  <2>8. \A q \in Readers \ {r} : rack'[q] = rack[q]
    BY <1>0, <1>6 DEF Acknowledge, ReaderAt, AckTypeOK
  <2>9. /\ Past({"seq", "beat", "end"})' => Past({"seq", "beat", "end"}) \/ rack[r] = "gen"
        /\ Past({"beat", "end"})' => Past({"beat", "end"}) \/ rack[r] = "seq"
        /\ Past({"end"})' => Past({"end"}) \/ rack[r] = "beat"
    BY <1>0, <1>6, <2>6, <2>8 DEF Past, Acknowledge, ReaderAt, AckTypeOK
  <2>10. Visible' => Visible \/ rack[r] = "end"
    BY <1>0, <1>6, <2>1 DEF Acknowledge, ReaderAt, Store, Visible, AckTypeOK, Progress
  <2>11. /\ rack[r] \in {"seq", "beat", "end"} => Past({"seq", "beat", "end"})
         /\ rack[r] \in {"beat", "end"} => Past({"beat", "end"})
         /\ rack[r] \in {"end"} => Past({"end"})
    BY <2>2 DEF Past
  <2>12. /\ Visible \/ Past({"seq", "beat", "end"}) => consumer.gen = lastGen
         /\ Visible \/ Past({"beat", "end"}) => OfCurrent(consumer.seq)
         /\ Visible \/ Past({"end"}) => consumer.beat \in CurrentFrame
    BY <2>3, <2>4 DEF ConsumerIsCurrent
  <2>13. /\ rack[r] = "gen" => consumer'.gen = lastGen
         /\ rack[r] # "gen" => consumer'.gen = consumer.gen
         /\ rack[r] = "seq" => consumer'.seq = taken[r].seq
         /\ rack[r] # "seq" => consumer'.seq = consumer.seq
         /\ rack[r] = "beat" => consumer'.beat = taken[r]
         /\ rack[r] # "beat" => consumer'.beat = consumer.beat
    BY <1>0, <1>6, <2>2 DEF Acknowledge, ReaderAt, Store, AckTypeOK, Progress
  <2>14. Visible' \/ Past({"seq", "beat", "end"})' => consumer'.gen = lastGen'
    BY <2>6, <2>9, <2>10, <2>11, <2>12, <2>13
  <2>15. Visible' \/ Past({"beat", "end"})' => OfCurrent(consumer.seq)'
    BY <2>5, <2>6, <2>9, <2>10, <2>11, <2>12, <2>13 DEF OfCurrent
  <2>16. Visible' \/ Past({"end"})' => consumer'.beat \in CurrentFrame'
    BY <2>5, <2>6, <2>9, <2>10, <2>11, <2>12, <2>13
  <2>17. ConsumerIsCurrent'
    BY <2>1, <2>4, <2>14, <2>15, <2>16 DEF ConsumerIsCurrent
  <2> QED  BY <2>7, <2>17
<1> QED  BY <1>1, <1>2, <1>3, <1>4, <1>5, <1>6 DEF AckNext

-----------------------------------------------------------------------------
THEOREM AckInvariance == AckSpec => [](IInv /\ OrderInv /\ AckOrder)
<1>1. AckInit => IInv /\ OrderInv /\ AckOrder
  BY InitIInv, InitOrder, InitAck DEF AckInit
<1>2. IInv /\ OrderInv /\ AckOrder /\ [AckNext]_allVars => (IInv /\ OrderInv /\ AckOrder)'
  BY AckStepIsSlotStep, NextIInv, NextOrder, NextAck
<1> QED  BY <1>1, <1>2, PTL DEF AckSpec

(* While a reader stores its acknowledgement, field by field, the frame it  *)
(* names stays leased to it, whole, however writers and readers come, go    *)
(* and crash.                                                               *)
THEOREM AckUnderLeaseHolds == AckSpec => []AckUnderLease
<1>1. IInv /\ AckOrder => AckUnderLease
  BY WholeUnderLease DEF AckOrder, AnsweredFrames, NoTornFrame, AckUnderLease
<1> QED  BY <1>1, AckInvariance, PTL

(* Of any number of writers and readers: no reader acknowledges a torn or   *)
(* stale frame; a report that names the writer's own generation is about a  *)
(* frame of that writer some reader answered with; and unless a reader was  *)
(* late with an earlier writer's frame, generation and sequence are those   *)
(* of one such frame, although readers store over one another's fields.     *)
THEOREM AckInvHolds == AckSpec => []AckInv
<1> DEFINE Inv == IInv /\ OrderInv /\ AckOrder /\ GenerationKnown /\ ReportIsCurrent
<1>1. AckInit => Inv
  BY InitIInv, InitOrder, InitAck DEF AckInit
<1>2. Inv /\ [AckNext]_allVars => Inv'
  <2> SUFFICES ASSUME Inv, [AckNext]_allVars PROVE Inv'
    OBVIOUS
  <2>1. IInv' /\ OrderInv' /\ AckOrder' /\ GenerationKnown'
    BY AckStepIsSlotStep, NextIInv, NextOrder, NextAck, NextGenerationKnown
  <2>2. ReportIsCurrent'
    BY NextReportIsCurrent DEF ReportIsCurrent
  <2> QED  BY <2>1, <2>2
<1>3. ASSUME Inv PROVE GenerationWasAnswered /\ MixedOnlyWhenLate
  <2>1. progress.pid # NoPid => writerGen = lastGen /\ writerGen # 0 /\ Online
    BY <1>3
      DEF AckOrder, WriterAtRest, OrderInv, Numbering, Online, IInv, TypeOK
  <2>2. GenerationWasAnswered
    BY <1>3, <2>1 DEF GenerationKnown, GenerationWasAnswered
  <2>3. ASSUME progress.pid # NoPid, ~late
        PROVE  /\ progress.gen = writerGen
               /\ [gen |-> progress.gen, seq |-> progress.seq] \in answered
               /\ progress.beat \in answered /\ progress.beat.gen = writerGen
    <3>1. /\ progress.gen = lastGen /\ OfCurrent(progress.seq)
          /\ progress.beat \in CurrentFrame
      BY <1>3, <2>1, <2>3 DEF ReportIsCurrent, ProgressIsCurrent
    <3>2. PICK f \in answered : f.gen = lastGen /\ f.seq = progress.seq
      BY <3>1 DEF OfCurrent, CurrentFrame
    <3>3. f \in PublishedFrame
      BY <1>3 DEF AckOrder, AnsweredFrames
    <3>4. f = [gen |-> progress.gen, seq |-> progress.seq]
      BY <3>1, <3>2, <3>3 DEF PublishedFrame
    <3> QED  BY <2>1, <2>3, <3>1, <3>4 DEF CurrentFrame
  <2> QED  BY <2>2, <2>3 DEF MixedOnlyWhenLate
<1>4. Inv => AckInv
  <2> SUFFICES ASSUME Inv PROVE AckInv
    OBVIOUS
  <2>1. NoTornFrame /\ FreshFrame
    BY WholeUnderLease, FreshUnderLease
  <2>2. AckUnderLease
    BY <2>1 DEF AckOrder, AnsweredFrames, NoTornFrame, AckUnderLease
  <2> QED  BY <1>3, <2>1, <2>2 DEF AckInv, AckOrder
<1> HIDE DEF Inv
<1> QED  BY <1>1, <1>2, <1>4, PTL DEF AckSpec
=============================================================================
