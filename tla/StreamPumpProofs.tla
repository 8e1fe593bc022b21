-------------------------- MODULE StreamPumpProofs --------------------------
(***************************************************************************)
(* Proofs about StreamPump, for every set of rates, every timeout and      *)
(* interval, and every number of writers and frames.                       *)
(***************************************************************************)
EXTENDS StreamPump, TLAPS

(* The pacer skips as many periods as have gone by, and never one more. *)
LEMMA PeriodsGoneBy ==
  ASSUME NEW n \in Nat, NEW p \in Nat \ {0}
  PROVE  /\ (n + p - 1) \div p \in Nat
         /\ ((n + p - 1) \div p) * p <= n + p - 1
         /\ ((n + p - 1) \div p) * p >= n
<1>1. (n + p - 1) \div p \in Int
  OBVIOUS
<1>2. n + p - 1 = p * ((n + p - 1) \div p) + ((n + p - 1) % p)
  OBVIOUS
<1>3. (n + p - 1) % p \in 0 .. p - 1
  OBVIOUS
<1>4. (n + p - 1) \div p \in Nat
  OBVIOUS
<1>5. ((n + p - 1) \div p) * p >= n
  BY <1>1, <1>2, <1>3
<1>6. ((n + p - 1) \div p) * p <= n + p - 1
  OBVIOUS
<1> QED  BY <1>4, <1>5, <1>6

LEMMA IdsOfFrames ==
  ASSUME NEW f \in Frame
  PROVE  Id(f) \in Ids /\ Id(f) # None /\ f # None
  BY NoneAssumption DEF Id, Ids, Frame

(* Whatever is not the next frame of the same writer is flagged, and a new   *)
(* writer as a new time line.                                                *)
LEMMA ClassifyFlags ==
  ASSUME NEW seen \in Ids, NEW lapsed \in BOOLEAN, NEW f \in Frame
  PROVE  LET told == FlagsOf(Classify(seen, lapsed, f))
         IN  /\ Id(f) = <<seen[1], seen[2] + 1>> \/ "SampleDropped" \in told
             /\ Id(f)[1] = seen[1] \/ "Time" \in told
<1>1. seen # None /\ seen = <<seen[1], seen[2]>>
      /\ seen[1] \in 1 .. MaxGen /\ seen[2] \in 0 .. MaxSeq
  BY NoneAssumption DEF Ids
<1>2. f.gen \in 1 .. MaxGen /\ f.seq \in 0 .. MaxSeq
  BY DEF Frame
<1>3. CASE f.gen # seen[1]
  BY <1>1, <1>3 DEF Classify, FlagsOf, Cmio
<1>4. CASE f.gen = seen[1]
  BY <1>1, <1>2 DEF Classify, FlagsOf, Cmio, Id
<1> QED  BY <1>3, <1>4

LEMMA TimeoutIsNat ==
  ASSUME NEW f \in Frame
  PROVE  StaleTimeout(f) \in Nat /\ f.age \in Nat
<1>1. f.rate \in Nat /\ f.age \in Nat /\ StalePeriods \in Nat /\ StaleAfter \in Nat
  BY RatesAssumption, PumpBoundsAssumption DEF Frame
<1>2. StalePeriods * f.rate \in Nat
  BY <1>1
<1> QED  BY <1>1, <1>2 DEF StaleTimeout

(* The end of a poll keeps the frame it was given, and says what it was to   *)
(* say, or lets go of a frame too old and says so.                           *)
LEMMA FinishPump ==
  ASSUME NEW p \in PumpType, NEW class, Finish(p, class),
         p.stale => p.last = None
  PROVE  /\ step' = "send"
         /\ \/ /\ pump' = p /\ flags' = flags \cup FlagsOf(class)
               /\ p.last # None => p.last.age <= StaleTimeout(p.last)
            \/ /\ pump' \in PumpType /\ pump'.last = None
               /\ pump'.seen = p.seen
               /\ p.lapsed \/ flags' = flags \cup Cmio
               /\ flags \subseteq flags' /\ flags' \subseteq flags \cup Cmio
         /\ period' \in Rates \cup {DefaultRate}
<1>1. CASE ~FrameIsStale(p.last)
  <2>1. pump' = p /\ flags' = flags \cup FlagsOf(class) /\ step' = "send"
    BY <1>1 DEF Finish, Expire
  <2>2. p.last # None => p.last.age <= StaleTimeout(p.last)
    BY <1>1, TimeoutIsNat DEF FrameIsStale, PumpType
  <2>3. period' \in Rates \cup {DefaultRate}
    BY DEF Finish, Expire, PumpType, Frame
  <2> QED  BY <2>1, <2>2, <2>3
<1>2. CASE FrameIsStale(p.last)
  <2>0. ~p.stale
    BY <1>2 DEF FrameIsStale
  <2>1. /\ pump' = [MarkStale(p) EXCEPT !.last = None, !.stale = TRUE]
        /\ flags' = flags \cup FlagsOf(StaleClass(p))
        /\ period' = DefaultRate /\ step' = "send"
    BY <1>2, <2>0 DEF Finish, Expire, MarkStale, PumpType
  <2>2. pump' \in PumpType /\ pump'.last = None /\ pump'.seen = p.seen
    BY <2>1 DEF MarkStale, PumpType
  <2>3. flags' = flags \cup IF p.lapsed THEN {} ELSE Cmio
    BY <2>1 DEF StaleClass, FlagsOf
  <2> QED  BY <2>1, <2>2, <2>3
<1> QED  BY <1>1, <1>2

(* What a poll that ends does to the pump, the flags and the client. *)
Polled ==
  /\ pump' \in PumpType /\ step' = "send"
  /\ period' \in Rates \cup {DefaultRate}
  /\ flags' \in SUBSET Cmio /\ client' \in ClientType
  /\ NoStaleSample' /\ StaleIsLetGo' /\ BufferIsKnown' /\ GapIsTold'

LEMMA TakePolls ==
  ASSUME PumpOrder, step \in {"poll", "read"}, NEW f \in Frame, Take(f)
  PROVE  Polled
<1>0. /\ pump \in PumpType /\ client \in ClientType /\ flags \in SUBSET Cmio
      /\ StaleIsLetGo /\ BufferIsKnown /\ GapIsTold
  BY DEF PumpOrder, PumpInv, TypeOK
<1>1. Id(f) \in Ids /\ Id(f) # None /\ f # None
  BY IdsOfFrames
<1> DEFINE o == Observe(pump, f)
<1>2. /\ o \in PumpType /\ o.last = pump.last /\ o.stale = pump.stale
      /\ o.seen = Id(f) /\ ~o.lapsed
  <2>1. ASSUME NEW i \in Ids
        PROVE  LET p == [pump EXCEPT !.seen = i, !.lapsed = FALSE]
               IN  /\ p \in PumpType /\ p.last = pump.last
                   /\ p.stale = pump.stale /\ p.seen = i /\ ~p.lapsed
    BY <1>0 DEF PumpType
  <2> QED  BY <1>1, <2>1 DEF Observe
<1>3. ~JustTaken /\ Told = client.told \cup flags
      /\ Told' = IF step' = "plan" THEN client'.told
                                   ELSE client'.told \cup flags'
  BY DEF JustTaken, Told
<1> HIDE DEF o
<1>4. ASSUME NEW class, Finish([o EXCEPT !.last = f, !.stale = FALSE], class),
             class = Classify(pump.seen, pump.lapsed, f), client' = client
      PROVE  Polled
  <2> DEFINE p == [o EXCEPT !.last = f, !.stale = FALSE]
  <2>1. /\ p \in PumpType /\ p.last = f /\ ~p.stale
        /\ p.seen = Id(f) /\ ~p.lapsed
    BY <1>2 DEF PumpType
  <2> HIDE DEF p
  <2>2. /\ step' = "send"
        /\ \/ /\ pump' = p /\ flags' = flags \cup FlagsOf(class)
              /\ f.age <= StaleTimeout(f)
           \/ /\ pump' \in PumpType /\ pump'.last = None
              /\ pump'.seen = Id(f)
              /\ flags' = flags \cup Cmio
        /\ period' \in Rates \cup {DefaultRate}
    BY <1>1, <1>4, <2>1, FinishPump DEF p
  <2>3. flags \subseteq flags' /\ flags' \in SUBSET Cmio
    BY <1>0, <2>2 DEF FlagsOf, Cmio
  <2>4. pump' \in PumpType /\ pump'.seen = Id(f)
    BY <2>1, <2>2
  <2>5. NoStaleSample' /\ StaleIsLetGo' /\ BufferIsKnown'
    BY <2>1, <2>2 DEF NoStaleSample, StaleIsLetGo, BufferIsKnown, JustTaken
  <2>6. GapIsTold'
    <3> SUFFICES ASSUME client.shown # None, ~client.unsent
                 PROVE  GapIsTold'
      BY <1>4 DEF GapIsTold
    <3>1. pump.seen \in Ids /\ pump.lapsed \in BOOLEAN
      BY <1>0 DEF GapIsTold, PumpType
    <3>2. Told \subseteq Told'
      BY <1>3, <1>4, <2>2
    <3>3. CASE /\ pump' = p /\ flags' = flags \cup FlagsOf(class)
      <4>1. /\ Id(f) = <<pump.seen[1], pump.seen[2] + 1>>
               \/ "SampleDropped" \in Told'
            /\ Id(f)[1] = pump.seen[1] \/ "Time" \in Told'
        BY <1>3, <1>4, <2>2, <3>1, <3>3, ClassifyFlags
      <4>2. JustTaken'
        BY <1>1, <2>1, <2>2, <3>3 DEF JustTaken
      <4>3. \/ pump.seen = client.shown \/ "SampleDropped" \in Told'
        BY <1>0, <1>3, <3>2 DEF GapIsTold
      <4>4. \/ pump.seen[1] = client.shown[1] \/ "Time" \in Told'
            \/ client.dropped
        BY <1>0, <3>2 DEF GapIsTold
      <4> QED  BY <1>1, <1>4, <2>4, <4>1, <4>2, <4>3, <4>4 DEF GapIsTold
    <3>4. CASE flags' = flags \cup Cmio
      BY <1>1, <1>3, <2>2, <2>4, <3>4 DEF GapIsTold, Cmio
    <3> QED  BY <2>2, <3>3, <3>4
  <2> QED  BY <1>0, <1>4, <2>2, <2>3, <2>4, <2>5, <2>6 DEF Polled
<1>5. ASSUME Finish(o, "FramesDropped"),
             client' = [client EXCEPT !.dropped = TRUE]
      PROVE  Polled
  <2>2. /\ step' = "send"
        /\ \/ /\ pump' = o /\ flags' = flags \cup FlagsOf("FramesDropped")
              /\ pump.last # None => pump.last.age <= StaleTimeout(pump.last)
           \/ /\ pump' \in PumpType /\ pump'.last = None
              /\ pump'.seen = Id(f)
              /\ flags' = flags \cup Cmio
        /\ period' \in Rates \cup {DefaultRate}
    BY <1>0, <1>2, <1>5, FinishPump DEF StaleIsLetGo
  <2>3. /\ flags \subseteq flags' /\ flags' \in SUBSET Cmio
        /\ "SampleDropped" \in flags'
    BY <1>0, <2>2 DEF FlagsOf, Cmio
  <2>4. pump' \in PumpType /\ pump'.seen = Id(f)
    BY <1>2, <2>2
  <2>5. /\ client' \in ClientType /\ client'.dropped
        /\ client'.shown = client.shown /\ client'.unsent = client.unsent
    BY <1>0, <1>5 DEF ClientType
  <2>6. NoStaleSample' /\ StaleIsLetGo'
    BY <1>0, <1>2, <2>2 DEF NoStaleSample, StaleIsLetGo
  <2>7. BufferIsKnown'
    BY <1>0, <1>2, <1>3, <2>2, <2>5 DEF BufferIsKnown
  <2>8. GapIsTold'
    BY <1>1, <1>3, <2>2, <2>3, <2>4, <2>5 DEF GapIsTold
  <2> QED  BY <2>2, <2>3, <2>4, <2>5, <2>6, <2>7, <2>8 DEF Polled
<1> QED  BY <1>4, <1>5 DEF Take, o

LEMMA KeepPolls ==
  ASSUME PumpOrder, step \in {"poll", "read"}, Keep
  PROVE  Polled
<1>0. /\ pump \in PumpType /\ client \in ClientType /\ flags \in SUBSET Cmio
      /\ StaleIsLetGo /\ BufferIsKnown /\ GapIsTold
  BY DEF PumpOrder, PumpInv, TypeOK
<1>1. ~JustTaken /\ Told = client.told \cup flags
      /\ Told' = IF step' = "plan" THEN client'.told
                                   ELSE client'.told \cup flags'
  BY DEF JustTaken, Told
<1>2. Finish(pump, "None") /\ client' = client
  BY DEF Keep
<1>3. /\ step' = "send"
      /\ \/ /\ pump' = pump /\ flags' = flags \cup FlagsOf("None")
            /\ pump.last # None => pump.last.age <= StaleTimeout(pump.last)
         \/ /\ pump' \in PumpType /\ pump'.last = None
            /\ pump'.seen = pump.seen
            /\ flags \subseteq flags' /\ flags' \subseteq flags \cup Cmio
      /\ period' \in Rates \cup {DefaultRate}
  BY <1>0, <1>2, FinishPump DEF StaleIsLetGo
<1>4. /\ flags \subseteq flags' /\ flags' \in SUBSET Cmio
      /\ pump' \in PumpType /\ pump'.seen = pump.seen
  BY <1>0, <1>3 DEF FlagsOf
<1>5. NoStaleSample' /\ StaleIsLetGo'
  BY <1>0, <1>3 DEF NoStaleSample, StaleIsLetGo
<1>6. BufferIsKnown'
  BY <1>0, <1>1, <1>2, <1>3 DEF BufferIsKnown
<1>7. GapIsTold'
  BY <1>0, <1>1, <1>2, <1>3 DEF GapIsTold
<1> QED  BY <1>0, <1>2, <1>3, <1>4, <1>5, <1>6, <1>7 DEF Polled

LEMMA PeriodsArePositive ==
  PumpOrder => pacer.rate \in Nat \ {0} /\ period \in Nat \ {0}
  BY RatesAssumption DEF PumpOrder, PumpInv, TypeOK, PacerType

(* A plan leaves a sleep of at most a period. *)
LEMMA PlanInReach ==
  ASSUME PumpOrder, Plan
  PROVE  /\ pacer'.rate = period /\ pacer'.due \in Int
         /\ 0 <= pacer'.due /\ pacer'.due - period <= period
         /\ pacer' \in PacerType
<1>1. pacer.rate \in Nat \ {0} /\ period \in Nat \ {0}
  BY PeriodsArePositive
<1>2. /\ step = "plan" /\ pacer.due \in Int \cup {None} /\ DeadlineInReach
      /\ period \in Rates \cup {DefaultRate}
  BY DEF Plan, PumpOrder, PumpInv, TypeOK, PacerType
<1>3. Due \in Int /\ Due <= period
  BY <1>1, <1>2 DEF Due, DeadlineInReach
<1>4. Skipped * period \in Int /\ Due + Skipped * period \in 0 .. period
  <2>1. CASE Due >= 0
    BY <1>1, <1>3 DEF Skipped
  <2>2. CASE Due < 0
    <3>1. -Due \in Nat
      BY <1>3, <2>2
    <3>2. Skipped = (-Due + period - 1) \div period
      BY <1>3, <2>2 DEF Skipped
    <3> DEFINE q == (-Due + period - 1) \div period
    <3>3. q \in Nat /\ q * period <= -Due + period - 1 /\ q * period >= -Due
      BY <1>1, <3>1, PeriodsGoneBy
    <3> HIDE DEF q
    <3>4. q * period \in Int
      BY <1>1, <3>3
    <3> QED  BY <1>1, <1>3, <3>2, <3>3, <3>4 DEF q
  <2> QED  BY <1>3, <2>1, <2>2
<1> DEFINE d == Due + Skipped * period + period
<1>5. d \in Int /\ period <= d /\ d - period <= period
  BY <1>1, <1>4
<1>6. pacer' = [rate |-> period, due |-> d]
  BY DEF Plan
<1> HIDE DEF d
<1>7. pacer' \in PacerType
  BY <1>2, <1>5, <1>6 DEF PacerType
<1>8. 0 <= d
  BY <1>1, <1>5
<1> QED  BY <1>5, <1>6, <1>7, <1>8

(* What a poll does to the reader before it reads. *)
LEMMA CheckedReads == PumpOrder => Checked(reader) \in ReaderType
<1> SUFFICES ASSUME PumpOrder PROVE Checked(reader) \in ReaderType
  OBVIOUS
<1>1. reader \in ReaderType
  BY DEF PumpOrder, PumpInv, TypeOK
<1>2. 0 \in 0 .. CheckEvery /\ OpenEvery \in 0 .. OpenEvery
  BY PumpBoundsAssumption
<1>3. [reader EXCEPT !.checked = 0] \in ReaderType
  BY <1>1, <1>2 DEF ReaderType
<1>4. [reader EXCEPT !.checked = 0, !.mapped = "no", !.opened = OpenEvery]
        \in ReaderType
  BY <1>1, <1>2 DEF ReaderType
<1> QED  BY <1>1, <1>3, <1>4 DEF Checked

LEMMA ReaderPolls ==
  PumpOrder => Noticed(Opened(Checked(reader))) \in ReaderType
<1> SUFFICES ASSUME PumpOrder
             PROVE  Noticed(Opened(Checked(reader))) \in ReaderType
  OBVIOUS
<1>0. gen \in 0 .. MaxGen /\ 0 \in 0 .. OpenEvery /\ 0 \in 0 .. CheckEvery
  BY PumpBoundsAssumption DEF PumpOrder, PumpInv, TypeOK
<1>1. ASSUME NEW r \in ReaderType PROVE Opened(r) \in ReaderType
  <2>1. [r EXCEPT !.opened = 0] \in ReaderType
    BY <1>0 DEF ReaderType
  <2>2. [r EXCEPT !.opened = 0, !.checked = 0, !.mapped = "linked",
                  !.gen = gen, !.seq = None] \in ReaderType
    BY <1>0 DEF ReaderType
  <2> QED  BY <2>1, <2>2 DEF Opened
<1>2. \A r \in ReaderType : Noticed(r) \in ReaderType
  BY <1>0 DEF ReaderType, Noticed
<1> QED  BY <1>1, <1>2, CheckedReads

LEMMA NextPump == PumpOrder /\ [Next]_vars => PumpOrder'
<1> SUFFICES ASSUME PumpOrder, [Next]_vars PROVE PumpOrder'
  OBVIOUS
<1>0. /\ TypeOK /\ SleepsWithinPeriod /\ DeadlineInReach /\ NoStaleSample
      /\ WriterIsCounted /\ SpoolExists /\ StaleIsLetGo
      /\ BufferIsKnown /\ GapIsTold
  BY DEF PumpOrder, PumpInv
<1>1. CASE Connect
  <2>1. TypeOK'
    <3>1. (/\ mode \in Modes
           /\ gen \in 0 .. MaxGen
           /\ next \in 0 .. MaxSeq + 1
           /\ frame \in Frame \cup {None}
           /\ fresh \in Frame \cup {None}
           /\ reader \in ReaderType
           /\ pump \in PumpType
           /\ step \in {"plan", "sleep", "poll", "read", "send"}
           /\ pacer \in PacerType
           /\ period \in Rates \cup {DefaultRate}
           /\ flags \in SUBSET Cmio
           /\ client \in ClientType)'
      BY <1>0, <1>1, PumpBoundsAssumption DEF Connect, extension, TypeOK
    <3>2. (up \in BOOLEAN /\ linked \in BOOLEAN)'
      BY <1>1 DEF Connect, Shared
    <3> QED  BY <3>1, <3>2 DEF TypeOK
  <2>2. (/\ SleepsWithinPeriod /\ DeadlineInReach /\ NoStaleSample
        /\ StaleIsLetGo /\ BufferIsKnown /\ GapIsTold)'
    BY <1>0, <1>1
      DEF Connect, extension, SleepsWithinPeriod, DeadlineInReach,
          NoStaleSample, StaleIsLetGo, BufferIsKnown, GapIsTold, Remaining,
          JustTaken, Told
  <2>3. WriterIsCounted'
    BY <1>0, <1>1 DEF Connect, WriterIsCounted, TypeOK
  <2>4. SpoolExists'
    BY <1>0, <1>1 DEF Connect, extension, SpoolExists, Shared
  <2> QED
    BY <2>1, <2>2, <2>3, <2>4 DEF PumpOrder, PumpInv
<1>2. CASE PublishReady
  <2>a. \A r \in Rates : Newest(r) \in Frame
    BY <1>0, <1>2, PumpBoundsAssumption
      DEF PublishReady, Newest, Frame, WriterIsCounted, TypeOK
  <2>1. TypeOK'
    <3>1. (/\ mode \in Modes
           /\ up \in BOOLEAN
           /\ linked \in BOOLEAN
           /\ gen \in 0 .. MaxGen
           /\ next \in 0 .. MaxSeq + 1
           /\ reader \in ReaderType
           /\ pump \in PumpType
           /\ step \in {"plan", "sleep", "poll", "read", "send"}
           /\ pacer \in PacerType
           /\ period \in Rates \cup {DefaultRate}
           /\ flags \in SUBSET Cmio
           /\ client \in ClientType)'
      BY <1>0, <1>2, PumpBoundsAssumption DEF PublishReady, extension, TypeOK
    <3>2. (frame \in Frame \cup {None} /\ fresh \in Frame \cup {None})'
      BY <1>0, <1>2, <2>a DEF PublishReady, TypeOK
    <3> QED  BY <3>1, <3>2 DEF TypeOK
  <2>2. (/\ SleepsWithinPeriod /\ DeadlineInReach /\ NoStaleSample
        /\ StaleIsLetGo /\ BufferIsKnown /\ GapIsTold)'
    BY <1>0, <1>2
      DEF PublishReady, extension, SleepsWithinPeriod, DeadlineInReach,
          NoStaleSample, StaleIsLetGo, BufferIsKnown, GapIsTold, Remaining,
          JustTaken, Told
  <2>3. WriterIsCounted'
    BY <1>0, <1>2 DEF PublishReady, WriterIsCounted
  <2>4. SpoolExists'
    BY <1>0, <1>2 DEF PublishReady, extension, SpoolExists, Shared
  <2> QED
    BY <2>1, <2>2, <2>3, <2>4 DEF PumpOrder, PumpInv
<1>3. CASE StoreActive
  <2>1. TypeOK'
    BY <1>0, <1>3 DEF StoreActive, extension, TypeOK
  <2>2. (/\ SleepsWithinPeriod /\ DeadlineInReach /\ NoStaleSample
        /\ StaleIsLetGo /\ BufferIsKnown /\ GapIsTold)'
    BY <1>0, <1>3
      DEF StoreActive, extension, SleepsWithinPeriod, DeadlineInReach,
          NoStaleSample, StaleIsLetGo, BufferIsKnown, GapIsTold, Remaining,
          JustTaken, Told
  <2>3. WriterIsCounted'
    BY <1>0, <1>3 DEF StoreActive, WriterIsCounted
  <2>4. SpoolExists'
    BY <1>0, <1>3 DEF StoreActive, extension, SpoolExists
  <2> QED
    BY <2>1, <2>2, <2>3, <2>4 DEF PumpOrder, PumpInv
<1>4. CASE WriteFrame
  <2>a. \A r \in Rates : Newest(r) \in Frame
    BY <1>0, <1>4, PumpBoundsAssumption
      DEF WriteFrame, Newest, Frame, WriterIsCounted, TypeOK
  <2>1. TypeOK'
    <3>1. (/\ mode \in Modes
           /\ up \in BOOLEAN
           /\ linked \in BOOLEAN
           /\ gen \in 0 .. MaxGen
           /\ next \in 0 .. MaxSeq + 1
           /\ reader \in ReaderType
           /\ pump \in PumpType
           /\ step \in {"plan", "sleep", "poll", "read", "send"}
           /\ pacer \in PacerType
           /\ period \in Rates \cup {DefaultRate}
           /\ flags \in SUBSET Cmio
           /\ client \in ClientType)'
      BY <1>0, <1>4, PumpBoundsAssumption DEF WriteFrame, extension, TypeOK
    <3>2. (frame \in Frame \cup {None} /\ fresh \in Frame \cup {None})'
      BY <1>0, <1>4, <2>a DEF WriteFrame, TypeOK
    <3> QED  BY <3>1, <3>2 DEF TypeOK
  <2>2. (/\ SleepsWithinPeriod /\ DeadlineInReach /\ NoStaleSample
        /\ StaleIsLetGo /\ BufferIsKnown /\ GapIsTold)'
    BY <1>0, <1>4
      DEF WriteFrame, extension, SleepsWithinPeriod, DeadlineInReach,
          NoStaleSample, StaleIsLetGo, BufferIsKnown, GapIsTold, Remaining,
          JustTaken, Told
  <2>3. WriterIsCounted'
    BY <1>0, <1>4 DEF WriteFrame, WriterIsCounted
  <2>4. SpoolExists'
    BY <1>4, <2>a, IdsOfFrames DEF WriteFrame, SpoolExists, Shared
  <2> QED
    BY <2>1, <2>2, <2>3, <2>4 DEF PumpOrder, PumpInv
<1>5. CASE Disconnect
  <2>1. TypeOK'
    <3>1. (/\ mode \in Modes
           /\ up \in BOOLEAN
           /\ linked \in BOOLEAN
           /\ gen \in 0 .. MaxGen
           /\ next \in 0 .. MaxSeq + 1
           /\ frame \in Frame \cup {None}
           /\ fresh \in Frame \cup {None}
           /\ pump \in PumpType
           /\ step \in {"plan", "sleep", "poll", "read", "send"}
           /\ pacer \in PacerType
           /\ period \in Rates \cup {DefaultRate}
           /\ flags \in SUBSET Cmio
           /\ client \in ClientType)'
      BY <1>0, <1>5 DEF Disconnect, TypeOK
    <3>2. (reader \in ReaderType)'
      BY <1>0, <1>5 DEF Disconnect, TypeOK, ReaderType
    <3> QED  BY <3>1, <3>2 DEF TypeOK
  <2>2. (/\ SleepsWithinPeriod /\ DeadlineInReach /\ NoStaleSample
        /\ StaleIsLetGo /\ BufferIsKnown /\ GapIsTold)'
    BY <1>0, <1>5
      DEF Disconnect, SleepsWithinPeriod, DeadlineInReach, NoStaleSample,
          StaleIsLetGo, BufferIsKnown, GapIsTold, Remaining, JustTaken, Told
  <2>3. WriterIsCounted'
    BY <1>5 DEF Disconnect, WriterIsCounted
  <2>4. SpoolExists'
    BY <1>0, <1>5 DEF Disconnect, SpoolExists, Shared
  <2> QED
    BY <2>1, <2>2, <2>3, <2>4 DEF PumpOrder, PumpInv
<1>6. CASE Crash
  <2>1. TypeOK'
    BY <1>0, <1>6 DEF Crash, extension, TypeOK
  <2>2. (/\ SleepsWithinPeriod /\ DeadlineInReach /\ NoStaleSample
        /\ StaleIsLetGo /\ BufferIsKnown /\ GapIsTold)'
    BY <1>0, <1>6
      DEF Crash, extension, SleepsWithinPeriod, DeadlineInReach,
          NoStaleSample, StaleIsLetGo, BufferIsKnown, GapIsTold, Remaining,
          JustTaken, Told
  <2>3. WriterIsCounted'
    BY <1>6 DEF Crash, WriterIsCounted
  <2>4. SpoolExists'
    BY <1>0, <1>6 DEF Crash, extension, SpoolExists, Shared
  <2> QED
    BY <2>1, <2>2, <2>3, <2>4 DEF PumpOrder, PumpInv
<1>7. CASE Tick
  <2>a. /\ Older(frame) \in Frame \cup {None}
        /\ Older(fresh) \in Frame \cup {None}
        /\ frame = None <=> Older(frame) = None
    BY <1>0, IdsOfFrames, PumpBoundsAssumption DEF Older, Frame, TypeOK
  <2>b. /\ Later(reader.opened, OpenEvery) \in 0 .. OpenEvery
        /\ Later(reader.checked, CheckEvery) \in 0 .. CheckEvery
    BY <1>0, PumpBoundsAssumption DEF Later, TypeOK, ReaderType
  <2>c. /\ pacer'.rate = pacer.rate /\ pacer.rate \in Nat \ {0}
        /\ step' = step /\ pacer.due \in Int \cup {None}
        /\ pacer'.due = IF pacer.due = None THEN None ELSE pacer.due - 1
        /\ pacer.due # None => pacer.due > -MaxLate
    BY <1>0, <1>7, PeriodsArePositive DEF Tick, TypeOK, PacerType
  <2>1. TypeOK'
    <3>1. (/\ mode \in Modes
           /\ up \in BOOLEAN
           /\ linked \in BOOLEAN
           /\ gen \in 0 .. MaxGen
           /\ next \in 0 .. MaxSeq + 1
           /\ step \in {"plan", "sleep", "poll", "read", "send"}
           /\ period \in Rates \cup {DefaultRate}
           /\ flags \in SUBSET Cmio
           /\ client \in ClientType)'
      BY <1>0, <1>7 DEF Tick, TypeOK
    <3>2. (frame \in Frame \cup {None} /\ fresh \in Frame \cup {None})'
      BY <1>7, <2>a DEF Tick
    <3>3. (reader \in ReaderType)'
      BY <1>0, <1>7, <2>b DEF Tick, ReaderType, TypeOK
    <3>4. (pump \in PumpType)'
      BY <1>0, <1>7, PumpBoundsAssumption
        DEF Tick, Older, TypeOK, PumpType, Frame
    <3>5. (pacer \in PacerType)'
      BY <1>0, <1>7 DEF Tick, TypeOK, PacerType
    <3> QED  BY <3>1, <3>2, <3>3, <3>4, <3>5 DEF TypeOK
  <2>2. SleepsWithinPeriod'
    <3>1. CASE pacer.due = None
      BY <1>0, <2>c DEF SleepsWithinPeriod, Remaining
    <3>2. CASE pacer.due # None
      BY <1>0, <2>c DEF SleepsWithinPeriod, Remaining
    <3> QED  BY <3>1, <3>2
  <2>3. DeadlineInReach'
    BY <1>0, <2>c, PumpBoundsAssumption DEF DeadlineInReach
  <2>4. NoStaleSample'
    BY <1>7 DEF Tick, NoStaleSample
  <2>5. WriterIsCounted'
    BY <1>0, <1>7 DEF Tick, WriterIsCounted
  <2>6. SpoolExists'
    BY <1>0, <1>7, <2>a DEF Tick, SpoolExists, Shared
  <2>7. StaleIsLetGo'
    BY <1>0, <1>7 DEF Tick, Older, StaleIsLetGo
  <2>8. BufferIsKnown'
    BY <1>0, <1>7 DEF Tick, Older, BufferIsKnown, JustTaken, Id
  <2>9. GapIsTold'
    BY <1>0, <1>7 DEF Tick, GapIsTold, JustTaken, Told
  <2> QED
    BY <2>1, <2>2, <2>3, <2>4, <2>5, <2>6, <2>7, <2>8, <2>9
      DEF PumpOrder, PumpInv
<1>8. CASE Plan
  <2>a. /\ pacer'.rate = period /\ pacer'.due \in Int
        /\ 0 <= pacer'.due /\ pacer'.due - period <= period
        /\ pacer' \in PacerType
    BY <1>8, PlanInReach
  <2>1. TypeOK'
    <3>1. (/\ mode \in Modes
           /\ up \in BOOLEAN
           /\ linked \in BOOLEAN
           /\ gen \in 0 .. MaxGen
           /\ next \in 0 .. MaxSeq + 1
           /\ frame \in Frame \cup {None}
           /\ fresh \in Frame \cup {None}
           /\ reader \in ReaderType
           /\ pump \in PumpType
           /\ step \in {"plan", "sleep", "poll", "read", "send"}
           /\ period \in Rates \cup {DefaultRate}
           /\ client \in ClientType)'
      BY <1>0, <1>8 DEF Plan, medium, TypeOK
    <3>2. (pacer \in PacerType)'
      BY <2>a
    <3>3. (flags \in SUBSET Cmio)'
      BY <1>8 DEF Plan, Cmio
    <3> QED  BY <3>1, <3>2, <3>3 DEF TypeOK
  <2>2. SleepsWithinPeriod'
    BY <2>a DEF SleepsWithinPeriod, Remaining
  <2>3. DeadlineInReach'
    BY <1>8, <2>a, PumpBoundsAssumption DEF Plan, DeadlineInReach
  <2>4. NoStaleSample'
    BY <1>8 DEF Plan, NoStaleSample
  <2>5. (WriterIsCounted /\ SpoolExists)'
    BY <1>0, <1>8 DEF Plan, medium, WriterIsCounted, SpoolExists, Shared
  <2>6. StaleIsLetGo'
    BY <1>0, <1>8 DEF Plan, StaleIsLetGo
  <2>7. BufferIsKnown'
    BY <1>0, <1>8 DEF Plan, BufferIsKnown, JustTaken
  <2>8. GapIsTold'
    BY <1>0, <1>8 DEF Plan, GapIsTold, JustTaken, Told
  <2> QED
    BY <2>1, <2>2, <2>3, <2>4, <2>5, <2>6, <2>7, <2>8 DEF PumpOrder, PumpInv
<1>9. CASE Wake
  <2>a. pacer.rate \in Nat \ {0}
    BY PeriodsArePositive
  <2>1. TypeOK'
    BY <1>0, <1>9 DEF Wake, medium, TypeOK
  <2>2. SleepsWithinPeriod'
    BY <1>9 DEF Wake, SleepsWithinPeriod
  <2>3. DeadlineInReach'
    BY <1>0, <1>9, <2>a DEF Wake, Remaining, DeadlineInReach, TypeOK, PacerType
  <2>4. NoStaleSample'
    BY <1>9 DEF Wake, NoStaleSample
  <2>5. (WriterIsCounted /\ SpoolExists)'
    BY <1>0, <1>9 DEF Wake, medium, WriterIsCounted, SpoolExists, Shared
  <2>6. StaleIsLetGo'
    BY <1>0, <1>9 DEF Wake, StaleIsLetGo
  <2>7. BufferIsKnown'
    BY <1>0, <1>9 DEF Wake, BufferIsKnown, JustTaken
  <2>8. GapIsTold'
    BY <1>0, <1>9 DEF Wake, GapIsTold, JustTaken, Told
  <2> QED
    BY <2>1, <2>2, <2>3, <2>4, <2>5, <2>6, <2>7, <2>8 DEF PumpOrder, PumpInv
<1>10. CASE PollShared
  <2> DEFINE r == Noticed(Opened(Checked(reader)))
  <2>r. r \in ReaderType
    BY ReaderPolls
  <2>f. Readable(r) \subseteq Frame
    BY <1>0 DEF Readable, TypeOK
  <2> HIDE DEF r
  <2>p. /\ step = "poll" /\ Shared /\ UNCHANGED <<medium, pacer>>
        /\ \/ \E f \in Readable(r) :
                reader' = [r EXCEPT !.seq = f.seq] /\ Take(f)
           \/ reader' = r /\ Keep
    BY <1>10 DEF PollShared, r
  <2>a. Polled
    BY <2>f, <2>p, TakePolls, KeepPolls
  <2>1. TypeOK'
    <3>1. (/\ mode \in Modes
           /\ up \in BOOLEAN
           /\ linked \in BOOLEAN
           /\ gen \in 0 .. MaxGen
           /\ next \in 0 .. MaxSeq + 1
           /\ frame \in Frame \cup {None}
           /\ fresh \in Frame \cup {None}
           /\ pacer \in PacerType)'
      BY <1>0, <1>10 DEF PollShared, medium, TypeOK
    <3>2. (reader \in ReaderType)'
      <4>1. \A f \in Frame : [r EXCEPT !.seq = f.seq] \in ReaderType
        BY <2>r DEF ReaderType, Frame
      <4> QED  BY <2>r, <2>f, <2>p, <4>1
    <3>3. (pump \in PumpType)'
      BY <2>a DEF Polled
    <3>4. (step \in {"plan", "sleep", "poll", "read", "send"})'
      BY <2>a DEF Polled
    <3>5. (period \in Rates \cup {DefaultRate})'
      BY <2>a DEF Polled
    <3>6. (flags \in SUBSET Cmio)'
      BY <2>a DEF Polled
    <3>7. (client \in ClientType)'
      BY <2>a DEF Polled
    <3> QED  BY <3>1, <3>2, <3>3, <3>4, <3>5, <3>6, <3>7 DEF TypeOK
  <2>2. SleepsWithinPeriod'
    BY <2>a DEF Polled, SleepsWithinPeriod
  <2>3. DeadlineInReach'
    BY <1>0, <1>10 DEF PollShared, DeadlineInReach
  <2>4. (NoStaleSample /\ StaleIsLetGo /\ BufferIsKnown /\ GapIsTold)'
    BY <2>a DEF Polled
  <2>5. WriterIsCounted'
    BY <1>0, <1>10 DEF PollShared, medium, WriterIsCounted
  <2>6. SpoolExists'
    BY <2>a, <2>p DEF SpoolExists, Shared, Polled, medium
  <2> QED
    BY <2>1, <2>2, <2>3, <2>4, <2>5, <2>6 DEF PumpOrder, PumpInv
<1>11. CASE OpenFails
  <2>a. Polled
    BY <1>11, KeepPolls DEF OpenFails
  <2>1. TypeOK'
    <3>1. (/\ mode \in Modes
           /\ up \in BOOLEAN
           /\ linked \in BOOLEAN
           /\ gen \in 0 .. MaxGen
           /\ next \in 0 .. MaxSeq + 1
           /\ frame \in Frame \cup {None}
           /\ fresh \in Frame \cup {None}
           /\ pacer \in PacerType)'
      BY <1>0, <1>11 DEF OpenFails, medium, TypeOK
    <3>2. (reader \in ReaderType)'
      BY <1>11, CheckedReads, PumpBoundsAssumption DEF OpenFails, ReaderType
    <3>3. (pump \in PumpType)'
      BY <2>a DEF Polled
    <3>4. (step \in {"plan", "sleep", "poll", "read", "send"})'
      BY <2>a DEF Polled
    <3>5. (period \in Rates \cup {DefaultRate})'
      BY <2>a DEF Polled
    <3>6. (flags \in SUBSET Cmio)'
      BY <2>a DEF Polled
    <3>7. (client \in ClientType)'
      BY <2>a DEF Polled
    <3> QED  BY <3>1, <3>2, <3>3, <3>4, <3>5, <3>6, <3>7 DEF TypeOK
  <2>2. SleepsWithinPeriod'
    BY <2>a DEF Polled, SleepsWithinPeriod
  <2>3. DeadlineInReach'
    BY <1>0, <1>11 DEF OpenFails, DeadlineInReach
  <2>4. (NoStaleSample /\ StaleIsLetGo /\ BufferIsKnown /\ GapIsTold)'
    BY <2>a DEF Polled
  <2>5. WriterIsCounted'
    BY <1>0, <1>11 DEF OpenFails, medium, WriterIsCounted
  <2>6. SpoolExists'
    BY <1>11, <2>a DEF OpenFails, SpoolExists, Shared, Polled, medium
  <2> QED
    BY <2>1, <2>2, <2>3, <2>4, <2>5, <2>6 DEF PumpOrder, PumpInv
<1>12. CASE StampSpool
  <2>i. frame # None => Id(frame) \in Ids /\ Id(frame) # None
    BY <1>0, IdsOfFrames DEF TypeOK
  <2>p. /\ step = "poll" /\ ~Shared /\ UNCHANGED <<medium, pacer>>
        /\ \/ Keep /\ UNCHANGED reader
           \/ /\ step' = "read" /\ UNCHANGED <<pump, period, flags, client>>
              /\ reader' = [reader EXCEPT !.stamp = Id(frame)]
              /\ frame # None
    BY <1>0, <1>12 DEF StampSpool, SpoolExists
  <2>a. \/ Polled /\ UNCHANGED reader
        \/ /\ step' = "read" /\ UNCHANGED <<pump, period, flags, client>>
           /\ reader' = [reader EXCEPT !.stamp = Id(frame)]
           /\ frame # None
    BY <2>p, KeepPolls
  <2>1. TypeOK'
    <3>1. (/\ mode \in Modes
           /\ up \in BOOLEAN
           /\ linked \in BOOLEAN
           /\ gen \in 0 .. MaxGen
           /\ next \in 0 .. MaxSeq + 1
           /\ frame \in Frame \cup {None}
           /\ fresh \in Frame \cup {None}
           /\ pacer \in PacerType)'
      BY <1>0, <1>12 DEF StampSpool, medium, TypeOK
    <3>2. (reader \in ReaderType)'
      BY <1>0, <2>a, <2>i DEF ReaderType, TypeOK
    <3>3. (pump \in PumpType)'
      BY <1>0, <2>a DEF Polled, TypeOK
    <3>4. (step \in {"plan", "sleep", "poll", "read", "send"})'
      BY <2>a DEF Polled
    <3>5. (period \in Rates \cup {DefaultRate})'
      BY <1>0, <2>a DEF Polled, TypeOK
    <3>6. (flags \in SUBSET Cmio)'
      BY <1>0, <2>a DEF Polled, TypeOK
    <3>7. (client \in ClientType)'
      BY <1>0, <2>a DEF Polled, TypeOK
    <3> QED  BY <3>1, <3>2, <3>3, <3>4, <3>5, <3>6, <3>7 DEF TypeOK
  <2>2. SleepsWithinPeriod'
    BY <2>a DEF Polled, SleepsWithinPeriod
  <2>3. DeadlineInReach'
    BY <1>0, <2>p DEF DeadlineInReach
  <2>4. NoStaleSample'
    BY <2>a DEF Polled, NoStaleSample
  <2>5. WriterIsCounted'
    BY <1>0, <1>12 DEF StampSpool, medium, WriterIsCounted
  <2>6. SpoolExists'
    BY <1>0, <2>p, <2>a DEF Polled, SpoolExists, Shared, medium
  <2>7. StaleIsLetGo'
    BY <1>0, <2>a DEF Polled, StaleIsLetGo
  <2>8. BufferIsKnown'
    BY <1>0, <2>p, <2>a DEF Polled, BufferIsKnown, JustTaken
  <2>9. GapIsTold'
    BY <1>0, <2>p, <2>a DEF Polled, GapIsTold, JustTaken, Told
  <2> QED
    BY <2>1, <2>2, <2>3, <2>4, <2>5, <2>6, <2>7, <2>8, <2>9
      DEF PumpOrder, PumpInv
<1>13. CASE ReadSpool
  <2>f. frame \in Frame
    BY <1>0, <1>13 DEF ReadSpool, SpoolExists, TypeOK
  <2>a. Polled
    BY <1>13, <2>f, TakePolls, KeepPolls DEF ReadSpool
  <2>1. TypeOK'
    <3>1. (/\ mode \in Modes
           /\ up \in BOOLEAN
           /\ linked \in BOOLEAN
           /\ gen \in 0 .. MaxGen
           /\ next \in 0 .. MaxSeq + 1
           /\ frame \in Frame \cup {None}
           /\ fresh \in Frame \cup {None}
           /\ pacer \in PacerType)'
      BY <1>0, <1>13 DEF ReadSpool, medium, TypeOK
    <3>2. (reader \in ReaderType)'
      BY <1>0, <1>13, <2>f, IdsOfFrames DEF ReadSpool, ReaderType, TypeOK
    <3>3. (pump \in PumpType)'
      BY <2>a DEF Polled
    <3>4. (step \in {"plan", "sleep", "poll", "read", "send"})'
      BY <2>a DEF Polled
    <3>5. (period \in Rates \cup {DefaultRate})'
      BY <2>a DEF Polled
    <3>6. (flags \in SUBSET Cmio)'
      BY <2>a DEF Polled
    <3>7. (client \in ClientType)'
      BY <2>a DEF Polled
    <3> QED  BY <3>1, <3>2, <3>3, <3>4, <3>5, <3>6, <3>7 DEF TypeOK
  <2>2. SleepsWithinPeriod'
    BY <2>a DEF Polled, SleepsWithinPeriod
  <2>3. DeadlineInReach'
    BY <1>0, <1>13 DEF ReadSpool, DeadlineInReach
  <2>4. (NoStaleSample /\ StaleIsLetGo /\ BufferIsKnown /\ GapIsTold)'
    BY <2>a DEF Polled
  <2>5. WriterIsCounted'
    BY <1>0, <1>13 DEF ReadSpool, medium, WriterIsCounted
  <2>6. SpoolExists'
    BY <1>0, <1>13 DEF ReadSpool, SpoolExists, Shared, medium
  <2> QED
    BY <2>1, <2>2, <2>3, <2>4, <2>5, <2>6 DEF PumpOrder, PumpInv
<1>14. CASE Send
  <2>1. TypeOK'
    <3>1. (/\ mode \in Modes
           /\ up \in BOOLEAN
           /\ linked \in BOOLEAN
           /\ gen \in 0 .. MaxGen
           /\ next \in 0 .. MaxSeq + 1
           /\ frame \in Frame \cup {None}
           /\ fresh \in Frame \cup {None}
           /\ reader \in ReaderType
           /\ pump \in PumpType
           /\ step \in {"plan", "sleep", "poll", "read", "send"}
           /\ pacer \in PacerType
           /\ period \in Rates \cup {DefaultRate}
           /\ flags \in SUBSET Cmio)'
      BY <1>0, <1>14 DEF Send, medium, TypeOK
    <3>2. (client \in ClientType)'
      <4>1. pump.last # None => Id(pump.last) \in Ids
        BY <1>0, IdsOfFrames DEF TypeOK, PumpType
      <4> DEFINE behind == Id(pump.last) # pump.seen
      <4>3. client' =
              IF pump.last # None /\ Id(pump.last) # client.shown
                THEN [shown |-> Id(pump.last),
                      told |-> IF behind THEN flags ELSE {},
                      unsent |-> behind /\ client.unsent, dropped |-> behind]
                ELSE [client EXCEPT !.told = client.told \cup flags]
        BY <1>14 DEF Send
      <4> HIDE DEF behind
      <4>4. behind \in BOOLEAN /\ (behind /\ client.unsent) \in BOOLEAN
        BY DEF behind
      <4>5. client \in ClientType /\ flags \in SUBSET Cmio
        BY <1>0 DEF TypeOK
      <4>6. CASE pump.last # None /\ Id(pump.last) # client.shown
        <5>1. (IF behind THEN flags ELSE {}) \in SUBSET Cmio
          BY <4>5
        <5> QED  BY <4>1, <4>3, <4>4, <4>6, <5>1, Zenon DEF ClientType
      <4>7. CASE ~(pump.last # None /\ Id(pump.last) # client.shown)
        <5>1. client' = [client EXCEPT !.told = client.told \cup flags]
          BY <4>3, <4>7, Zenon
        <5> QED  BY <4>5, <5>1 DEF ClientType
      <4> QED  BY <4>6, <4>7
    <3> QED  BY <3>1, <3>2 DEF TypeOK
  <2>2. (SleepsWithinPeriod /\ DeadlineInReach)'
    BY <1>0, <1>14 DEF Send, SleepsWithinPeriod, DeadlineInReach
  <2>3. NoStaleSample'
    BY <1>14 DEF Send, NoStaleSample
  <2>4. (WriterIsCounted /\ SpoolExists)'
    BY <1>0, <1>14 DEF Send, medium, WriterIsCounted, SpoolExists, Shared
  <2>5. StaleIsLetGo'
    BY <1>0, <1>14 DEF Send, StaleIsLetGo
  <2>6. BufferIsKnown'
    BY <1>14 DEF Send, BufferIsKnown
  <2>7. GapIsTold'
    <3>1. CASE pump.last # None /\ Id(pump.last) # client.shown
      <4>1. client.unsent \/ Id(pump.last) = pump.seen
        BY <1>0, <3>1 DEF BufferIsKnown, JustTaken
      <4>2. /\ client'.shown = Id(pump.last) /\ UNCHANGED pump
            /\ client'.unsent = (Id(pump.last) # pump.seen /\ client.unsent)
        BY <1>14, <3>1 DEF Send
      <4>3. ~client'.unsent => Id(pump.last) = pump.seen
        BY <4>1, <4>2
      <4> QED  BY <4>2, <4>3 DEF GapIsTold
    <3>2. CASE ~(pump.last # None /\ Id(pump.last) # client.shown)
      <4>1. /\ client'.shown = client.shown /\ client'.unsent = client.unsent
            /\ client'.told = client.told \cup flags
            /\ client'.dropped = client.dropped
            /\ UNCHANGED pump /\ step = "send" /\ step' = "plan"
        BY <1>14, <3>2 DEF Send
      <4>2. Told' = Told
        BY <4>1 DEF Told
      <4>3. JustTaken /\ client.shown # None /\ ~client.unsent
              => pump.seen = client.shown
        BY <3>2 DEF JustTaken
      <4> QED  BY <1>0, <4>1, <4>2, <4>3 DEF GapIsTold
    <3> QED  BY <3>1, <3>2
  <2> QED
    BY <2>1, <2>2, <2>3, <2>4, <2>5, <2>6, <2>7 DEF PumpOrder, PumpInv
<1>15. CASE SendFails
  <2>1. TypeOK'
    <3>1. (/\ mode \in Modes
           /\ up \in BOOLEAN
           /\ linked \in BOOLEAN
           /\ gen \in 0 .. MaxGen
           /\ next \in 0 .. MaxSeq + 1
           /\ frame \in Frame \cup {None}
           /\ fresh \in Frame \cup {None}
           /\ reader \in ReaderType
           /\ pump \in PumpType
           /\ step \in {"plan", "sleep", "poll", "read", "send"}
           /\ pacer \in PacerType
           /\ period \in Rates \cup {DefaultRate}
           /\ flags \in SUBSET Cmio)'
      BY <1>0, <1>15 DEF SendFails, medium, TypeOK
    <3>2. (client \in ClientType)'
      BY <1>0, <1>15 DEF SendFails, TypeOK, ClientType
    <3> QED  BY <3>1, <3>2 DEF TypeOK
  <2>2. (SleepsWithinPeriod /\ DeadlineInReach)'
    BY <1>0, <1>15 DEF SendFails, SleepsWithinPeriod, DeadlineInReach
  <2>3. NoStaleSample'
    BY <1>15 DEF SendFails, NoStaleSample
  <2>4. (WriterIsCounted /\ SpoolExists)'
    BY <1>0, <1>15 DEF SendFails, medium, WriterIsCounted, SpoolExists, Shared
  <2>5. StaleIsLetGo'
    BY <1>0, <1>15 DEF SendFails, StaleIsLetGo
  <2>6. BufferIsKnown'
    BY <1>15 DEF SendFails, BufferIsKnown
  <2>7. GapIsTold'
    BY <1>15 DEF SendFails, GapIsTold
  <2> QED
    BY <2>1, <2>2, <2>3, <2>4, <2>5, <2>6, <2>7 DEF PumpOrder, PumpInv
<1>16. CASE UNCHANGED vars
  <2>1. TypeOK'
    BY <1>0, <1>16 DEF vars, medium, TypeOK
  <2>2. SleepsWithinPeriod'
    BY <1>0, <1>16 DEF vars, SleepsWithinPeriod, Remaining
  <2>3. DeadlineInReach'
    BY <1>0, <1>16 DEF vars, DeadlineInReach
  <2>4. NoStaleSample'
    BY <1>0, <1>16 DEF vars, NoStaleSample
  <2>5. WriterIsCounted'
    BY <1>0, <1>16 DEF vars, medium, WriterIsCounted
  <2>6. SpoolExists'
    BY <1>0, <1>16 DEF vars, medium, SpoolExists, Shared
  <2>7. StaleIsLetGo'
    BY <1>0, <1>16 DEF vars, StaleIsLetGo
  <2>8. BufferIsKnown'
    BY <1>0, <1>16 DEF vars, BufferIsKnown, JustTaken
  <2>9. GapIsTold'
    BY <1>0, <1>16 DEF vars, GapIsTold, JustTaken, Told
  <2> QED
    BY <2>1, <2>2, <2>3, <2>4, <2>5, <2>6, <2>7, <2>8, <2>9
      DEF PumpOrder, PumpInv
<1> QED
  BY <1>1, <1>2, <1>3, <1>4, <1>5, <1>6, <1>7, <1>8, <1>9, <1>10, <1>11, <1>12,
     <1>13, <1>14, <1>15, <1>16
    DEF Next, Writer, Poll

LEMMA InitPump == Init => PumpOrder
<1> SUFFICES ASSUME Init PROVE PumpOrder
  OBVIOUS
<1>1. reader \in ReaderType
  <2>1. 0 \in 0 .. MaxGen /\ OpenEvery \in 0 .. OpenEvery
        /\ CheckEvery \in 0 .. CheckEvery
    BY PumpBoundsAssumption
  <2> QED  BY <2>1 DEF Init, ReaderNew, ReaderType
<1>2. pump \in PumpType
  BY DEF Init, PumpNew, IntegrityNew, PumpType
<1>3. pacer \in PacerType /\ client \in ClientType
  BY DEF Init, PacerType, ClientType
<1>4. TypeOK
  <2>1. 0 \in 0 .. MaxGen /\ 0 \in 0 .. MaxSeq + 1
    BY PumpBoundsAssumption
  <2>2. /\ mode \in Modes /\ up \in BOOLEAN /\ linked \in BOOLEAN
        /\ gen \in 0 .. MaxGen /\ next \in 0 .. MaxSeq + 1
        /\ frame = None /\ fresh = None /\ step = "plan"
        /\ period = DefaultRate /\ flags = {}
    BY <2>1 DEF Init
  <2> QED
    BY <1>1, <1>2, <1>3, <2>2 DEF TypeOK
<1>5. SleepsWithinPeriod /\ DeadlineInReach /\ NoStaleSample
  BY DEF Init, SleepsWithinPeriod, DeadlineInReach, NoStaleSample
<1>6. WriterIsCounted /\ SpoolExists /\ StaleIsLetGo
  BY DEF Init, PumpNew, ReaderNew, WriterIsCounted, SpoolExists, StaleIsLetGo
<1>7. BufferIsKnown /\ GapIsTold
  BY DEF Init, PumpNew, BufferIsKnown, GapIsTold
<1> QED  BY <1>4, <1>5, <1>6, <1>7 DEF PumpOrder, PumpInv

(* Only a sample that is sent changes what the client has seen. *)
LEMMA OnlySendShows ==
  ASSUME [Next]_vars, client'.shown # client.shown
  PROVE  Send
<1>1. [client EXCEPT !.dropped = TRUE].shown = client.shown
      /\ [client EXCEPT !.unsent = TRUE].shown = client.shown
  OBVIOUS
<1>2. ASSUME NEW f PROVE ~Take(f)
  BY <1>1 DEF Take
<1>3. ~Keep
  BY DEF Keep
<1>4. ~Writer /\ ~Tick /\ ~Plan /\ ~Wake
  BY DEF Writer, Connect, PublishReady, StoreActive, WriteFrame, Disconnect,
         Crash, Tick, Plan, Wake, extension
<1>5. ~Poll /\ ~OpenFails
  BY <1>2, <1>3 DEF Poll, PollShared, StampSpool, ReadSpool, OpenFails
<1>6. ~SendFails
  BY <1>1 DEF SendFails
<1> QED  BY <1>4, <1>5, <1>6 DEF Next, vars

(* A frame the client is shown is the one observed last, unless a sample was *)
(* lost; and what lies between it and the one before has been told.          *)
LEMMA StepAnnounces == PumpOrder /\ [Next]_vars => JumpAnnounced
<1> SUFFICES ASSUME PumpOrder, [Next]_vars, Changes, ~client.unsent
             PROVE  /\ client'.shown # <<client.shown[1], client.shown[2] + 1>>
                         => "SampleDropped" \in client.told \cup flags
                    /\ client'.shown[1] # client.shown[1]
                         => "Time" \in client.told \cup flags \/ client.dropped
  BY DEF JumpAnnounced
<1>1. Send /\ client.shown # None /\ client'.shown # client.shown
  BY OnlySendShows DEF Changes
<1>2. step = "send" /\ pump.last # None /\ client'.shown = Id(pump.last)
  BY <1>1 DEF Send
<1>3. Id(pump.last) = pump.seen
  BY <1>1, <1>2 DEF PumpOrder, BufferIsKnown, JustTaken
<1>4. Told = client.told \cup flags
  BY <1>2 DEF Told
<1>5. /\ pump.seen = <<client.shown[1], client.shown[2] + 1>>
         \/ "SampleDropped" \in Told
      /\ \/ pump.seen[1] = client.shown[1] \/ "Time" \in Told
         \/ client.dropped
  BY <1>1, <1>2, <1>3 DEF PumpOrder, GapIsTold
<1> QED  BY <1>2, <1>3, <1>4, <1>5

(* The parts of PumpOrder hold together in every state. *)
THEOREM PumpInvariance == Spec => []PumpOrder
<1> QED  BY InitPump, NextPump, PTL DEF Spec

(* The loop never sleeps more than a period, whatever the rates, and every   *)
(* state is well typed.                                                      *)
THEOREM PumpInvHolds == Spec => []PumpInv
<1>1. PumpOrder => PumpInv
  BY DEF PumpOrder
<1> QED  BY PumpInvariance, <1>1, PTL

(* No sample shows a frame older than the timeout at its poll. *)
THEOREM NoStaleSampleHolds == Spec => []NoStaleSample
<1>1. PumpOrder => NoStaleSample
  BY DEF PumpOrder
<1> QED  BY PumpInvariance, <1>1, PTL

(* What the client sees does not jump unannounced, through any sequence of   *)
(* writers, losses, failed uploads and frames let go.                        *)
THEOREM JumpIsFlaggedHolds == Spec => JumpIsFlagged
<1> QED  BY PumpInvariance, StepAnnounces, PTL DEF Spec, JumpIsFlagged
=============================================================================
