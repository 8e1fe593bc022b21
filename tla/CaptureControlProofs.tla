------------------------ MODULE CaptureControlProofs ------------------------
(***************************************************************************)
(* Proofs about CaptureControl, for every number of sources, every set of  *)
(* cameras, locators and rates, and all deadlines.                         *)
(***************************************************************************)
EXTENDS CaptureControl, TLAPS

(* The deadlines are numbers, and ages are told apart up to all of them. *)
LEMMA Deadlines ==
  /\ MaxAge \in Nat /\ OpenTimeout \in 0 .. MaxAge
  /\ \A fps \in Rates : FrameGapTimeout(fps) \in Nat
<1>1. ASSUME NEW fps \in Nat
      PROVE  FrameGapTimeout(fps) \in Nat
  <2>1. fps # 0 => FrameGapIntervals \div fps \in Nat
    BY CaptureAssumption
  <2> QED  BY <2>1, CaptureAssumption DEF FrameGapTimeout
<1>2. FrameGapTimeout(1) \in Nat
  BY <1>1
<1>3. MaxAge \in Nat /\ OpenTimeout \in 0 .. MaxAge
  BY <1>2, CaptureAssumption DEF MaxAge
<1> QED  BY <1>1, <1>3, CaptureAssumption

LEMMA Ages ==
  ASSUME NEW a \in 0 .. MaxAge
  PROVE  /\ 0 \in 0 .. MaxAge
         /\ Older(a) \in 0 .. MaxAge /\ Older(a) >= a
         /\ \A b \in 0 .. MaxAge : a >= b => Older(a) >= Older(b)
         /\ \A b \in 0 .. MaxAge : Capped(a + b) \in 0 .. MaxAge /\ Capped(a + b) >= a
                                   /\ Capped(a + b) >= b
  BY Deadlines DEF Older, Capped

----------------------------------------------------------------------------
(* The steps of a worker *)

(* What a step of the worker s leaves alone. *)
StepOf(s) ==
  /\ \A x \in Sources \ {s} :
       /\ thread'[x] = thread[x] /\ slots'[x] = slots[x]
       /\ seen'[x] \in {seen[x], [seen[x] EXCEPT !.follows = None]}
  /\ thread[s].at \in Calls => \A x \in Sources \ {s} : seen'[x].follows # s
  /\ leases \ {thread[s].id} \subseteq leases'
  /\ leases' \subseteq leases \cup {thread[s].id}
  /\ ~Session(s) => leases \subseteq leases'
  /\ Session(s)' => /\ thread'[s].id = thread[s].id
                    /\ Session(s) \/ thread[s].id \notin leases
  /\ seen'[s].stale => seen[s].stale
  /\ UNCHANGED controlVars

(* A worker that has just made a step is in no call, or in a new one. *)
Settled(s) ==
  LET t == thread[s]
      v == slots[s]
      c == seen[s]
  IN  /\ c.call = 0 /\ ~c.parked /\ c.follows = None
      /\ c.late <= 1
      /\ c.late > 0 => t.stop /\ t.at \notin Calls
      /\ t.at # "unborn" => t.id # None /\ (s \in Open <=> ~t.stop)
      /\ s \in Open => t.at # "unborn"
      /\ t.device => Session(s) /\ t.at \notin {"outer", "open"}
      /\ Session(s) => t.id \in leases
      /\ ~t.stop => /\ t.at = "lease" => v.phase = "AwaitingLease"
                    /\ t.at = "open" => v.phase = "Opening"
                    /\ t.at \in {"inner", "read", "gotFrame", "gotNone", "clear", "rest"} =>
                         v.format # None
                    /\ t.at \in {"close", "backoff"} => v.last_error
      /\ v.latest = "old" => v.last_error /\ ~t.stop /\ t.at # "clear"

LEMMA WorkerKeepsOrder ==
  ASSUME CaptureOrder, NEW s \in Sources, StepOf(s), WorkerTypeOK', Settled(s)'
  PROVE  CaptureOrder'
<1>1. /\ running' = running /\ selected' = selected /\ known' = known
      /\ real' = real /\ discovery' = discovery /\ ui' = ui /\ Open' = Open
  BY DEF StepOf, controlVars, Open
<1>2. TypeOK'
  BY <1>1 DEF CaptureOrder, TypeOK
<1>3. ASSUME NEW x \in Sources, x # s
      PROVE  /\ thread'[x] = thread[x] /\ slots'[x] = slots[x]
             /\ seen'[x].call = seen[x].call /\ seen'[x].parked = seen[x].parked
             /\ seen'[x].stale = seen[x].stale /\ seen'[x].late = seen[x].late
             /\ seen'[x].follows \in {seen[x].follows, None}
  BY <1>3 DEF StepOf, CaptureOrder, TypeOK, WorkerTypeOK, SeenType
<1>4. LeaseHeld'
  <2>1. ASSUME NEW x \in Sources
        PROVE  Session(x)' => (thread[x].id \in leases)'
    <3>1. CASE x = s
      BY <3>1 DEF Settled
    <3>2. CASE x # s
      BY <1>3, <3>2 DEF StepOf, CaptureOrder, LeaseHeld, Session
    <3> QED  BY <3>1, <3>2
  <2>2. ASSUME NEW x \in Sources, x # s, Session(x)', Session(s)', thread'[x].id = thread'[s].id
        PROVE  FALSE
    BY <1>3, <2>2 DEF StepOf, CaptureOrder, LeaseHeld, Session
  <2>3. ASSUME NEW x \in Sources, NEW y \in Sources, Session(x)', Session(y)',
               thread'[x].id = thread'[y].id
        PROVE  x = y
    BY <1>3, <2>2, <2>3 DEF CaptureOrder, LeaseHeld, Session
  <2>4. ASSUME NEW x \in Sources
        PROVE  (/\ thread[x].device => Session(x) /\ thread[x].at \notin {"outer", "open"}
                /\ thread[x].at # "unborn" => thread[x].id # None)'
    BY <1>3 DEF CaptureOrder, LeaseHeld, Session, Settled
  <2> QED  BY <2>1, <2>3, <2>4 DEF LeaseHeld
<1>5. WindsDown'
  BY <1>1, <1>3 DEF CaptureOrder, WindsDown, Settled
<1>6. LastCall'
  BY <1>1, <1>3 DEF CaptureOrder, LastCall, Settled
<1>7. SlotsAgree'
  <2>1. ASSUME NEW x \in Sources, ~thread'[x].stop, thread'[x].at \in Calls
        PROVE  slots'[x].age >= seen'[x].call
    <3>1. CASE x = s
      BY <3>1 DEF Settled, WorkerTypeOK, SlotsType, SeenType
    <3>2. CASE x # s
      BY <1>3, <2>1, <3>2 DEF CaptureOrder, SlotsAgree
    <3> QED  BY <3>1, <3>2
  <2> QED  BY <1>3, <2>1 DEF CaptureOrder, SlotsAgree, Settled
<1>8. GhostHasError'
  BY <1>3 DEF CaptureOrder, GhostHasError, Settled
<1>9. ParkedStays'
  <2>1. ASSUME NEW x \in Sources, seen'[x].parked
        PROVE  (~thread[x].stop /\ Overdue(x))'
    <3>1. x # s
      BY <2>1 DEF Settled
    <3> QED  BY <1>3, <2>1, <3>1 DEF CaptureOrder, ParkedStays, Overdue
  <2>2. ASSUME NEW x \in Sources, seen'[x].follows # None
        PROVE  (LET p == seen[x].follows
                IN  /\ thread[x].at = "lease" /\ ~thread[x].stop
                    /\ thread[p].at \in Calls /\ thread[p].id = thread[x].id)'
    <3>1. x # s
      BY <2>2 DEF Settled
    <3>2. seen'[x].follows = seen[x].follows /\ seen[x].follows \in Sources
      BY <1>3, <2>2, <3>1 DEF CaptureOrder, TypeOK, WorkerTypeOK, SeenType
    <3>3. thread[seen[x].follows].at \in Calls
      BY <2>2, <3>2 DEF CaptureOrder, ParkedStays
    <3>4. seen[x].follows # s
      BY <3>1, <3>2, <3>3 DEF StepOf
    <3> QED  BY <1>3, <2>2, <3>1, <3>2, <3>4 DEF CaptureOrder, ParkedStays
  <2> QED  BY <2>1, <2>2 DEF ParkedStays
<1>10. PollSees'
  <2> SUFFICES ASSUME ui.at \in Reads
               PROVE  PollSees'
    BY <1>1 DEF PollSees
  <2>1. ui.s \in Sources
    BY DEF CaptureOrder, PollSees
  <2>2. CASE ui.s = s
    BY <1>1, <2>1, <2>2 DEF CaptureOrder, PollSees, Settled, StepOf
  <2>3. CASE ui.s # s
    BY <1>1, <1>3, <2>1, <2>3 DEF CaptureOrder, PollSees
  <2> QED  BY <2>2, <2>3
<1> QED  BY <1>2, <1>4, <1>5, <1>6, <1>7, <1>8, <1>9, <1>10 DEF CaptureOrder

(* What is known of a worker and of its slots. *)
LEMMA Known ==
  ASSUME CaptureOrder, NEW s \in Sources
  PROVE  /\ thread[s] \in ThreadType /\ slots[s] \in SlotsType /\ seen[s] \in SeenType
         /\ thread[s].at # "lease" => seen[s].follows = None
         /\ thread[s].at \notin Calls =>
              /\ seen[s].call = 0 /\ ~seen[s].parked
              /\ \A x \in Sources : seen[x].follows # s
         /\ thread[s].at = "lease" /\ thread[s].id \notin leases => seen[s].follows = None
         /\ thread[s].stop => s \notin Open
  BY CaptureAssumption DEF CaptureOrder, TypeOK, WorkerTypeOK, SeenType, ParkedStays, LastCall,
     LeaseHeld, Session, Overdue, Calls, WindsDown, Unborn

LEMMA KnownWorker ==
  ASSUME CaptureOrder, NEW s \in Sources
  PROVE  LET t == thread[s]
             v == slots[s]
         IN  /\ seen[s].late > 0 => t.stop /\ t.at \notin Calls
             /\ t.at # "unborn" => t.id # None /\ (s \in Open <=> ~t.stop)
             /\ s \in Open => t.at # "unborn"
             /\ t.device => Session(s) /\ t.at \notin {"outer", "open"}
             /\ Session(s) => t.id \in leases
             /\ ~t.stop => /\ t.at = "lease" => v.phase = "AwaitingLease"
                           /\ t.at = "open" => v.phase = "Opening"
                           /\ t.at \in {"inner", "read", "gotFrame", "gotNone", "clear", "rest"} =>
                                v.format # None
                           /\ t.at \in {"close", "backoff"} => v.last_error
             /\ v.latest = "old" => v.last_error /\ ~t.stop /\ t.at # "clear"
  BY DEF CaptureOrder, LeaseHeld, WindsDown, LastCall, SlotsAgree, GhostHasError

(* A follower forgets a worker whose call is over, and nothing else. *)
LEMMA Forgets ==
  ASSUME CaptureOrder, NEW s \in Sources
  PROVE  /\ Unfollowed(s) \in [Sources -> SeenType]
         /\ \A x \in Sources : /\ Unfollowed(s)[x] \in {seen[x], [seen[x] EXCEPT !.follows = None]}
                              /\ Unfollowed(s)[x].follows \in {seen[x].follows, None}
                              /\ Unfollowed(s)[x].follows # s
  BY CaptureAssumption DEF Unfollowed, CaptureOrder, TypeOK, WorkerTypeOK, SeenType

LEMMA Moves ==
  ASSUME CaptureOrder, NEW s \in Sources, NEW at \in Threads, To(s, at)
  PROVE  /\ thread' \in [Sources -> ThreadType]
         /\ \A x \in Sources \ {s} : thread'[x] = thread[x]
         /\ thread'[s].at = at /\ thread'[s].id = thread[s].id
         /\ thread'[s].stop = thread[s].stop /\ thread'[s].device = thread[s].device
  BY DEF To, CaptureOrder, TypeOK, WorkerTypeOK, ThreadType

LEMMA Stores ==
  ASSUME CaptureOrder, NEW s \in Sources, NEW v \in SlotsType, Store(s, v)
  PROVE  /\ slots' \in [Sources -> SlotsType]
         /\ \A x \in Sources \ {s} : slots'[x] = slots[x]
         /\ thread[s].stop => slots'[s] = slots[s]
         /\ ~thread[s].stop => slots'[s] = v
  BY DEF Store, CaptureOrder, TypeOK, WorkerTypeOK

(* A call that comes back after a stop was the last one. *)
LEMMA Returns ==
  ASSUME CaptureOrder, NEW s \in Sources, thread[s].at \in Calls, Returned(s)
  PROVE  /\ seen' \in [Sources -> SeenType]
         /\ \A x \in Sources \ {s} : seen'[x] \in {seen[x], [seen[x] EXCEPT !.follows = None]}
         /\ \A x \in Sources : seen'[x].follows # s
         /\ seen'[s].call = 0 /\ ~seen'[s].parked /\ seen'[s].follows = None
         /\ seen'[s].stale = seen[s].stale
         /\ seen'[s].late = IF thread[s].stop THEN 1 ELSE 0
<1>1. seen[s] \in SeenType /\ seen[s].late = 0 /\ seen[s].follows = None
  BY Known DEF CaptureOrder, LastCall, Calls, SeenType
<1> DEFINE u == Unfollowed(s)
<1>2. /\ u \in [Sources -> SeenType]
      /\ \A x \in Sources : /\ u[x] \in {seen[x], [seen[x] EXCEPT !.follows = None]}
                           /\ u[x].follows # s
  BY Forgets
<1> HIDE DEF u
<1> DEFINE c == [seen[s] EXCEPT !.call = 0, !.parked = FALSE,
                                !.late = IF thread[s].stop /\ seen[s].late < 2
                                         THEN seen[s].late + 1 ELSE seen[s].late]
<1>3. seen' = [u EXCEPT ![s] = c]
  BY DEF Returned, u
<1>4. c.late = IF thread[s].stop THEN 1 ELSE 0
  BY <1>1 DEF SeenType
<1>5. c \in SeenType /\ c.call = 0 /\ ~c.parked /\ c.follows = None
      /\ c.stale = seen[s].stale
  <2>1. c.late \in 0 .. 2 /\ 0 \in 0 .. MaxAge
    BY <1>4, Deadlines
  <2> QED  BY <1>1, <2>1 DEF SeenType
<1> HIDE DEF c
<1>6. \A x \in Sources \ {s} : seen'[x] = u[x]
  BY <1>2, <1>3
<1>7. seen' \in [Sources -> SeenType] /\ seen'[s] = c
  BY <1>2, <1>3, <1>5
<1> QED  BY <1>2, <1>4, <1>5, <1>6, <1>7, CaptureAssumption

(* A step between two calls leaves what the polls have found alone. *)
LEMMA Unnoticed ==
  ASSUME CaptureOrder, NEW s \in Sources, UNCHANGED seen, thread[s].at \notin Calls,
         thread[s].at # "lease" \/ thread[s].id \notin leases
  PROVE  /\ seen' \in [Sources -> SeenType]
         /\ \A x \in Sources \ {s} : seen'[x] \in {seen[x], [seen[x] EXCEPT !.follows = None]}
         /\ seen'[s].call = 0 /\ ~seen'[s].parked /\ seen'[s].follows = None
         /\ seen'[s].stale = seen[s].stale
         /\ seen'[s].late <= 1
         /\ seen'[s].late > 0 => thread[s].stop
  BY Known DEF CaptureOrder, TypeOK, WorkerTypeOK, LastCall, WindsDown

LEMMA EndsSettles ==
  ASSUME CaptureOrder, NEW s \in Sources, Ends(s), Session(s), thread[s].stop,
         UNCHANGED controlVars
  PROVE  WorkerTypeOK' /\ StepOf(s) /\ Settled(s)'
<1>1. /\ thread[s] \in ThreadType /\ slots[s] \in SlotsType /\ seen[s] \in SeenType
      /\ Open' = Open /\ s \notin Open
  BY Known DEF controlVars, Open
<1>2. /\ thread' \in [Sources -> ThreadType]
      /\ thread'[s] = Unborn
      /\ \A x \in Sources \ {s} : thread'[x] = thread[x]
  BY DEF Ends, CaptureOrder, TypeOK, WorkerTypeOK, ThreadType, Threads, Unborn
<1>3. /\ seen' \in [Sources -> SeenType]
      /\ seen'[s] = Unseen
      /\ \A x \in Sources \ {s} : /\ seen'[x] \in {seen[x], [seen[x] EXCEPT !.follows = None]}
                                 /\ seen'[x].follows # s
  BY Forgets, Deadlines DEF Ends, Unseen, SeenType
<1>4. WorkerTypeOK'
  BY <1>2, <1>3 DEF Ends, CaptureOrder, TypeOK, WorkerTypeOK
<1>5. StepOf(s)
  BY <1>1, <1>2, <1>3 DEF Ends, StepOf, Session, Unborn, Unseen
<1>6. Settled(s)'
  BY <1>1, <1>2, <1>3 DEF Ends, Settled, Session, Unborn, Unseen, CaptureOrder, GhostHasError, Calls
<1> QED  BY <1>4, <1>5, <1>6

LEMMA BeginOpenSettles ==
  ASSUME CaptureOrder, NEW s \in Sources, BeginOpen(s), UNCHANGED controlVars
  PROVE  WorkerTypeOK' /\ StepOf(s) /\ Settled(s)'
<1>1. /\ thread[s] \in ThreadType /\ slots[s] \in SlotsType /\ seen[s] \in SeenType
      /\ Open' = Open
  BY Known DEF controlVars, Open
<1>2. CASE thread[s].stop
  BY <1>2, EndsSettles DEF BeginOpen, Session
<1>3. CASE ~thread[s].stop
  <2>4. /\ thread' \in [Sources -> ThreadType]
        /\ \A x \in Sources \ {s} : thread'[x] = thread[x]
        /\ thread'[s].at = "open"
        /\ thread'[s].id = thread[s].id /\ thread'[s].stop = thread[s].stop
        /\ thread'[s].device = thread[s].device
    BY <1>1, <1>3, Moves DEF BeginOpen, Threads, Calls
  <2>5. /\ thread[s].at \notin Calls /\ UNCHANGED seen
    BY <1>3, <1>1 DEF BeginOpen, Calls
  <2> DEFINE v == Published(slots[s], "Opening")
  <2>6. /\ v \in SlotsType /\ Store(s, v)
        /\ v.phase = "Opening" /\ v.last_error = slots[s].last_error
        /\ v.format = slots[s].format /\ v.latest = slots[s].latest
    BY <1>3, <1>1, Ages DEF BeginOpen, SlotsType, Published, Phases
  <2> HIDE DEF v
  <2>7. WorkerTypeOK'
    BY <1>3, <2>6, Stores, <2>4, <2>5, Unnoticed DEF BeginOpen, CaptureOrder, TypeOK, WorkerTypeOK, ThreadType
  <2>8. StepOf(s)
    BY <1>3, <2>6, Stores, <1>1, <2>4, <2>5, Unnoticed DEF BeginOpen, StepOf, Session, CaptureOrder, TypeOK, WorkerTypeOK, Calls
  <2>9. Settled(s)'
    BY <1>3, <2>6, Stores, <1>1, <2>4, <2>5, Unnoticed, KnownWorker DEF BeginOpen, Settled, Session, SlotsType, Calls, Published, Phases
  <2> QED  BY <2>7, <2>8, <2>9
<1> QED  BY <1>2, <1>3

LEMMA StoreFormatSettles ==
  ASSUME CaptureOrder, NEW s \in Sources, StoreFormat(s), UNCHANGED controlVars
  PROVE  WorkerTypeOK' /\ StepOf(s) /\ Settled(s)'
<1>1. /\ thread[s] \in ThreadType /\ slots[s] \in SlotsType /\ seen[s] \in SeenType
      /\ Open' = Open
  BY Known DEF controlVars, Open
<1>4. /\ thread' \in [Sources -> ThreadType]
      /\ \A x \in Sources \ {s} : thread'[x] = thread[x]
      /\ thread'[s].at = "inner"
      /\ thread'[s].id = thread[s].id /\ thread'[s].stop = thread[s].stop
      /\ thread'[s].device = thread[s].device
  BY <1>1, Moves DEF StoreFormat, Threads
<1>5. /\ thread[s].at \notin Calls /\ UNCHANGED seen
  BY <1>1 DEF StoreFormat, Calls
<1>6. PICK v \in SlotsType :
        /\ Store(s, v)
        /\ v.phase = slots[s].phase /\ v.last_error = slots[s].last_error
        /\ v.format \in Rates /\ v.latest = slots[s].latest
  BY <1>1, Ages DEF StoreFormat, SlotsType
<1>7. WorkerTypeOK'
  BY <1>6, Stores, <1>4, <1>5, Unnoticed DEF StoreFormat, CaptureOrder, TypeOK, WorkerTypeOK, ThreadType
<1>8. StepOf(s)
  BY <1>6, Stores, <1>1, <1>4, <1>5, Unnoticed DEF StoreFormat, StepOf, Session, CaptureOrder, TypeOK, WorkerTypeOK, Calls
<1>9. Settled(s)'
  BY <1>6, Stores, <1>1, <1>4, <1>5, Unnoticed, KnownWorker, CaptureAssumption DEF StoreFormat, Settled, Session, SlotsType, Calls
<1> QED  BY <1>7, <1>8, <1>9

LEMMA BeginReadSettles ==
  ASSUME CaptureOrder, NEW s \in Sources, BeginRead(s), UNCHANGED controlVars
  PROVE  WorkerTypeOK' /\ StepOf(s) /\ Settled(s)'
<1>1. /\ thread[s] \in ThreadType /\ slots[s] \in SlotsType /\ seen[s] \in SeenType
      /\ Open' = Open
  BY Known DEF controlVars, Open
<1>4. /\ thread' \in [Sources -> ThreadType]
      /\ \A x \in Sources \ {s} : thread'[x] = thread[x]
      /\ thread'[s].at = IF thread[s].stop THEN "close" ELSE "read"
      /\ thread'[s].id = thread[s].id /\ thread'[s].stop = thread[s].stop
      /\ thread'[s].device = thread[s].device
  BY <1>1, Moves DEF BeginRead, Threads, Calls
<1>5. /\ thread[s].at \notin Calls /\ UNCHANGED seen
  BY <1>1 DEF BeginRead, Calls
<1>6. slots' = slots
  BY <1>1 DEF BeginRead
<1>7. WorkerTypeOK'
  BY <1>6, <1>4, <1>5, Unnoticed DEF BeginRead, CaptureOrder, TypeOK, WorkerTypeOK, ThreadType
<1>8. StepOf(s)
  BY <1>6, <1>1, <1>4, <1>5, Unnoticed DEF BeginRead, StepOf, Session, CaptureOrder, TypeOK, WorkerTypeOK, Calls
<1>9. Settled(s)'
  BY <1>6, <1>1, <1>4, <1>5, Unnoticed, KnownWorker DEF BeginRead, Settled, Session, SlotsType, Calls
<1> QED  BY <1>7, <1>8, <1>9

LEMMA StoreLatestSettles ==
  ASSUME CaptureOrder, NEW s \in Sources, StoreLatest(s), UNCHANGED controlVars
  PROVE  WorkerTypeOK' /\ StepOf(s) /\ Settled(s)'
<1>1. /\ thread[s] \in ThreadType /\ slots[s] \in SlotsType /\ seen[s] \in SeenType
      /\ Open' = Open
  BY Known DEF controlVars, Open
<1>4. /\ thread' \in [Sources -> ThreadType]
      /\ \A x \in Sources \ {s} : thread'[x] = thread[x]
      /\ thread'[s].at = "clear"
      /\ thread'[s].id = thread[s].id /\ thread'[s].stop = thread[s].stop
      /\ thread'[s].device = thread[s].device
  BY <1>1, Moves DEF StoreLatest, Threads
<1>5. /\ seen' \in [Sources -> SeenType]
      /\ \A x \in Sources \ {s} : seen'[x] = seen[x]
      /\ seen'[s].call = 0 /\ ~seen'[s].parked /\ seen'[s].follows = None
      /\ ~seen'[s].stale
      /\ seen'[s].late <= 1
      /\ seen'[s].late > 0 => thread[s].stop
  <2>1. thread[s].at \notin Calls \cup {"lease"}
    BY DEF StoreLatest, Calls
  <2>2. seen[s].call = 0 /\ ~seen[s].parked /\ seen[s].follows = None /\ seen[s].late <= 1
    BY <2>1, Known DEF CaptureOrder, WindsDown
  <2>3. seen \in [Sources -> SeenType]
    BY DEF CaptureOrder, TypeOK, WorkerTypeOK
  <2> QED  BY <2>2, <2>3, KnownWorker DEF StoreLatest, SeenType
<1> DEFINE v == [slots[s] EXCEPT !.latest = IF thread[s].at = "gotFrame" THEN "current" ELSE "none"]
<1>6. /\ v \in SlotsType /\ Store(s, v)
      /\ v.phase = slots[s].phase /\ v.last_error = slots[s].last_error
      /\ v.format = slots[s].format /\ v.latest # "old"
  BY <1>1, Ages DEF StoreLatest, SlotsType
<1> HIDE DEF v
<1>7. WorkerTypeOK'
  BY <1>6, Stores, <1>4, <1>5 DEF StoreLatest, CaptureOrder, TypeOK, WorkerTypeOK, ThreadType
<1>8. StepOf(s)
  BY <1>6, Stores, <1>1, <1>4, <1>5 DEF StoreLatest, StepOf, Session, CaptureOrder, TypeOK, WorkerTypeOK, Calls
<1>9. Settled(s)'
  BY <1>6, Stores, <1>1, <1>4, <1>5, KnownWorker DEF StoreLatest, Settled, Session, SlotsType, Calls
<1> QED  BY <1>7, <1>8, <1>9

LEMMA ClearErrorSettles ==
  ASSUME CaptureOrder, NEW s \in Sources, ClearError(s), UNCHANGED controlVars
  PROVE  WorkerTypeOK' /\ StepOf(s) /\ Settled(s)'
<1>1. /\ thread[s] \in ThreadType /\ slots[s] \in SlotsType /\ seen[s] \in SeenType
      /\ Open' = Open
  BY Known DEF controlVars, Open
<1>4. /\ thread' \in [Sources -> ThreadType]
      /\ \A x \in Sources \ {s} : thread'[x] = thread[x]
      /\ thread'[s].at = "inner"
      /\ thread'[s].id = thread[s].id /\ thread'[s].stop = thread[s].stop
      /\ thread'[s].device = thread[s].device
  BY <1>1, Moves DEF ClearError, Threads
<1>5. /\ thread[s].at \notin Calls /\ UNCHANGED seen
  BY <1>1 DEF ClearError, Calls
<1> DEFINE v == [slots[s] EXCEPT !.last_error = FALSE]
<1>6. /\ v \in SlotsType /\ Store(s, v)
      /\ v.phase = slots[s].phase /\ v.last_error = FALSE
      /\ v.format = slots[s].format /\ v.latest = slots[s].latest
  BY <1>1, Ages DEF ClearError, SlotsType
<1> HIDE DEF v
<1>7. WorkerTypeOK'
  BY <1>6, Stores, <1>4, <1>5, Unnoticed DEF ClearError, CaptureOrder, TypeOK, WorkerTypeOK, ThreadType
<1>8. StepOf(s)
  BY <1>6, Stores, <1>1, <1>4, <1>5, Unnoticed DEF ClearError, StepOf, Session, CaptureOrder, TypeOK, WorkerTypeOK, Calls
<1>9. Settled(s)'
  BY <1>6, Stores, <1>1, <1>4, <1>5, Unnoticed, KnownWorker DEF ClearError, Settled, Session, SlotsType, Calls
<1> QED  BY <1>7, <1>8, <1>9

LEMMA RestSettles ==
  ASSUME CaptureOrder, NEW s \in Sources, Rest(s), UNCHANGED controlVars
  PROVE  WorkerTypeOK' /\ StepOf(s) /\ Settled(s)'
<1>1. /\ thread[s] \in ThreadType /\ slots[s] \in SlotsType /\ seen[s] \in SeenType
      /\ Open' = Open
  BY Known DEF controlVars, Open
<1>2. CASE thread[s].stop
  BY <1>2, EndsSettles DEF Rest, Session
<1>3. CASE ~thread[s].stop
  <2>4. /\ thread' \in [Sources -> ThreadType]
        /\ \A x \in Sources \ {s} : thread'[x] = thread[x]
        /\ thread'[s].at = "inner"
        /\ thread'[s].id = thread[s].id /\ thread'[s].stop = thread[s].stop
        /\ thread'[s].device = thread[s].device
    BY <1>1, <1>3, Moves DEF Rest, Threads
  <2>5. /\ thread[s].at \notin Calls /\ UNCHANGED seen
    BY <1>3, <1>1 DEF Rest, Calls
  <2>6. slots' = slots
    BY <1>3, <1>1 DEF Rest
  <2>7. WorkerTypeOK'
    BY <1>3, <2>6, <2>4, <2>5, Unnoticed DEF Rest, CaptureOrder, TypeOK, WorkerTypeOK, ThreadType
  <2>8. StepOf(s)
    BY <1>3, <2>6, <1>1, <2>4, <2>5, Unnoticed DEF Rest, StepOf, Session, CaptureOrder, TypeOK, WorkerTypeOK, Calls
  <2>9. Settled(s)'
    BY <1>3, <2>6, <1>1, <2>4, <2>5, Unnoticed, KnownWorker DEF Rest, Settled, Session, SlotsType, Calls
  <2> QED  BY <2>7, <2>8, <2>9
<1> QED  BY <1>2, <1>3

LEMMA CloseSessionSettles ==
  ASSUME CaptureOrder, NEW s \in Sources, CloseSession(s), UNCHANGED controlVars
  PROVE  WorkerTypeOK' /\ StepOf(s) /\ Settled(s)'
<1>1. /\ thread[s] \in ThreadType /\ slots[s] \in SlotsType /\ seen[s] \in SeenType
      /\ Open' = Open
  BY Known DEF controlVars, Open
<1>4. /\ thread' \in [Sources -> ThreadType]
      /\ \A x \in Sources \ {s} : thread'[x] = thread[x]
      /\ thread'[s].at = "backoff"
      /\ thread'[s].id = thread[s].id /\ thread'[s].stop = thread[s].stop
      /\ thread'[s].device = thread[s].device
  BY <1>1, Moves DEF CloseSession, Threads
<1>5. /\ thread[s].at \notin Calls /\ UNCHANGED seen
  BY <1>1 DEF CloseSession, Calls
<1> DEFINE v == [slots[s] EXCEPT !.format = None]
<1>6. /\ v \in SlotsType /\ Store(s, v)
      /\ v.phase = slots[s].phase /\ v.last_error = slots[s].last_error
      /\ v.format = None /\ v.latest = slots[s].latest
  BY <1>1, Ages DEF CloseSession, SlotsType
<1> HIDE DEF v
<1>7. WorkerTypeOK'
  BY <1>6, Stores, <1>4, <1>5, Unnoticed DEF CloseSession, CaptureOrder, TypeOK, WorkerTypeOK, ThreadType
<1>8. StepOf(s)
  BY <1>6, Stores, <1>1, <1>4, <1>5, Unnoticed DEF CloseSession, StepOf, Session, CaptureOrder, TypeOK, WorkerTypeOK, Calls
<1>9. Settled(s)'
  BY <1>6, Stores, <1>1, <1>4, <1>5, Unnoticed, KnownWorker DEF CloseSession, Settled, Session, SlotsType, Calls
<1> QED  BY <1>7, <1>8, <1>9

LEMMA BackoffSettles ==
  ASSUME CaptureOrder, NEW s \in Sources, Backoff(s), UNCHANGED controlVars
  PROVE  WorkerTypeOK' /\ StepOf(s) /\ Settled(s)'
<1>1. /\ thread[s] \in ThreadType /\ slots[s] \in SlotsType /\ seen[s] \in SeenType
      /\ Open' = Open
  BY Known DEF controlVars, Open
<1>2. CASE thread[s].stop
  BY <1>2, EndsSettles DEF Backoff, Session
<1>3. CASE ~thread[s].stop
  <2>4. /\ thread' \in [Sources -> ThreadType]
        /\ \A x \in Sources \ {s} : thread'[x] = thread[x]
        /\ thread'[s].at = "outer"
        /\ thread'[s].id = thread[s].id /\ thread'[s].stop = thread[s].stop
        /\ thread'[s].device = FALSE
    <3>1. PICK t \in ThreadType : /\ t = [thread[s] EXCEPT !.at = "outer", !.device = FALSE]
                              /\ thread' = [thread EXCEPT ![s] = t]
      BY <1>1, <1>3 DEF Backoff, CaptureOrder, TypeOK, WorkerTypeOK, ThreadType, Threads
    <3> QED  BY <1>1, <3>1 DEF CaptureOrder, TypeOK, WorkerTypeOK, ThreadType
  <2>5. /\ thread[s].at \notin Calls /\ UNCHANGED seen
    BY <1>3, <1>1 DEF Backoff, Calls
  <2>6. PICK v \in SlotsType : v = Over(slots[s]) /\ Store(s, v)
    BY <1>3, <1>1, Ages DEF Backoff, SlotsType, Over
  <2>7. WorkerTypeOK'
    BY <1>3, <2>6, Stores, <2>4, <2>5, Unnoticed DEF Backoff, CaptureOrder, TypeOK, WorkerTypeOK, ThreadType
  <2>8. StepOf(s)
    BY <1>3, <2>6, Stores, <1>1, <2>4, <2>5, Unnoticed DEF Backoff, StepOf, Session, CaptureOrder, TypeOK, WorkerTypeOK, Calls
  <2>9. Settled(s)'
    BY <1>3, <2>6, Stores, <1>1, <2>4, <2>5, Unnoticed, KnownWorker DEF Backoff, Settled, Session, SlotsType, Calls, Over
  <2> QED  BY <2>7, <2>8, <2>9
<1> QED  BY <1>2, <1>3

LEMMA OpenedSettles ==
  ASSUME CaptureOrder, NEW s \in Sources, Opened(s), UNCHANGED controlVars
  PROVE  WorkerTypeOK' /\ StepOf(s) /\ Settled(s)'
<1>1. /\ thread[s] \in ThreadType /\ slots[s] \in SlotsType /\ seen[s] \in SeenType
      /\ Open' = Open
  BY Known DEF controlVars, Open
<1>4. /\ thread' \in [Sources -> ThreadType]
      /\ \A x \in Sources \ {s} : thread'[x] = thread[x]
      /\ thread'[s].at = "opened"
      /\ thread'[s].id = thread[s].id /\ thread'[s].stop = thread[s].stop
      /\ thread'[s].device = TRUE
  BY <1>1, CaptureAssumption DEF Opened, CaptureOrder, TypeOK, WorkerTypeOK, ThreadType, Threads
<1>5. /\ thread[s].at \in Calls /\ Returned(s)
  BY Returns DEF Opened, Calls
<1> DEFINE v == Published(slots[s], "AwaitingFirstFrame")
<1>6. /\ v \in SlotsType /\ Store(s, v)
      /\ v.phase = "AwaitingFirstFrame" /\ v.last_error = slots[s].last_error
      /\ v.format = slots[s].format /\ v.latest = slots[s].latest
  BY <1>1, Ages DEF Opened, SlotsType, Published, Phases
<1> HIDE DEF v
<1>7. WorkerTypeOK'
  BY <1>6, Stores, <1>4, <1>5, Returns DEF Opened, CaptureOrder, TypeOK, WorkerTypeOK, ThreadType
<1>8. StepOf(s)
  BY <1>6, Stores, <1>1, <1>4, <1>5, Returns DEF Opened, StepOf, Session, CaptureOrder, TypeOK, WorkerTypeOK, Calls
<1>9. Settled(s)'
  BY <1>6, Stores, <1>1, <1>4, <1>5, Returns, KnownWorker DEF Opened, Settled, Session, SlotsType, Calls, Published, Phases
<1> QED  BY <1>7, <1>8, <1>9

LEMMA OpenFailedSettles ==
  ASSUME CaptureOrder, NEW s \in Sources, OpenFailed(s), UNCHANGED controlVars
  PROVE  WorkerTypeOK' /\ StepOf(s) /\ Settled(s)'
<1>1. /\ thread[s] \in ThreadType /\ slots[s] \in SlotsType /\ seen[s] \in SeenType
      /\ Open' = Open
  BY Known DEF controlVars, Open
<1>4. /\ thread' \in [Sources -> ThreadType]
      /\ \A x \in Sources \ {s} : thread'[x] = thread[x]
      /\ thread'[s].at = "backoff"
      /\ thread'[s].id = thread[s].id /\ thread'[s].stop = thread[s].stop
      /\ thread'[s].device = thread[s].device
  BY <1>1, Moves DEF OpenFailed, Threads
<1>5. /\ thread[s].at \in Calls /\ Returned(s)
  BY Returns DEF OpenFailed, Calls
<1> DEFINE v == [slots[s] EXCEPT !.last_error = TRUE, !.format = None]
<1>6. /\ v \in SlotsType /\ Store(s, v)
      /\ v.phase = slots[s].phase /\ v.last_error = TRUE
      /\ v.format = None /\ v.latest = slots[s].latest
  BY <1>1, Ages DEF OpenFailed, SlotsType
<1> HIDE DEF v
<1>7. WorkerTypeOK'
  BY <1>6, Stores, <1>4, <1>5, Returns DEF OpenFailed, CaptureOrder, TypeOK, WorkerTypeOK, ThreadType
<1>8. StepOf(s)
  BY <1>6, Stores, <1>1, <1>4, <1>5, Returns DEF OpenFailed, StepOf, Session, CaptureOrder, TypeOK, WorkerTypeOK, Calls
<1>9. Settled(s)'
  BY <1>6, Stores, <1>1, <1>4, <1>5, Returns, KnownWorker DEF OpenFailed, Settled, Session, SlotsType, Calls
<1> QED  BY <1>7, <1>8, <1>9

LEMMA OpenPanickedSettles ==
  ASSUME CaptureOrder, NEW s \in Sources, OpenPanicked(s), UNCHANGED controlVars
  PROVE  WorkerTypeOK' /\ StepOf(s) /\ Settled(s)'
<1>1. /\ thread[s] \in ThreadType /\ slots[s] \in SlotsType /\ seen[s] \in SeenType
      /\ Open' = Open
  BY Known DEF controlVars, Open
<1>2. CASE thread[s].stop
  BY <1>2, EndsSettles DEF OpenPanicked, Session
<1>3. CASE ~thread[s].stop
  <2>4. /\ thread' \in [Sources -> ThreadType]
        /\ \A x \in Sources \ {s} : thread'[x] = thread[x]
        /\ thread'[s].at = "ended"
        /\ thread'[s].id = thread[s].id /\ thread'[s].stop = thread[s].stop
        /\ thread'[s].device = thread[s].device
    BY <1>1, <1>3, Moves DEF OpenPanicked, Threads
  <2>5. /\ thread[s].at \in Calls /\ Returned(s)
    BY <1>3, Returns DEF OpenPanicked, Calls
  <2> DEFINE v == [slots[s] EXCEPT !.last_error = TRUE]
  <2>6. /\ v \in SlotsType /\ Store(s, v)
        /\ v.phase = slots[s].phase /\ v.last_error = TRUE
        /\ v.format = slots[s].format /\ v.latest = slots[s].latest
    BY <1>3, <1>1, Ages DEF OpenPanicked, SlotsType
  <2> HIDE DEF v
  <2>7. WorkerTypeOK'
    BY <1>3, <2>6, Stores, <2>4, <2>5, Returns DEF OpenPanicked, CaptureOrder, TypeOK, WorkerTypeOK, ThreadType
  <2>8. StepOf(s)
    BY <1>3, <2>6, Stores, <1>1, <2>4, <2>5, Returns DEF OpenPanicked, StepOf, Session, CaptureOrder, TypeOK, WorkerTypeOK, Calls
  <2>9. Settled(s)'
    BY <1>3, <2>6, Stores, <1>1, <2>4, <2>5, Returns, KnownWorker DEF OpenPanicked, Settled, Session, SlotsType, Calls
  <2> QED  BY <2>7, <2>8, <2>9
<1> QED  BY <1>2, <1>3

LEMMA ReadFrameSettles ==
  ASSUME CaptureOrder, NEW s \in Sources, ReadFrame(s), UNCHANGED controlVars
  PROVE  WorkerTypeOK' /\ StepOf(s) /\ Settled(s)'
<1>1. /\ thread[s] \in ThreadType /\ slots[s] \in SlotsType /\ seen[s] \in SeenType
      /\ Open' = Open
  BY Known DEF controlVars, Open
<1>4. /\ thread' \in [Sources -> ThreadType]
      /\ \A x \in Sources \ {s} : thread'[x] = thread[x]
      /\ thread'[s].at = "gotFrame"
      /\ thread'[s].id = thread[s].id /\ thread'[s].stop = thread[s].stop
      /\ thread'[s].device = thread[s].device
  <2> DEFINE t == [thread[s] EXCEPT !.at = "gotFrame", !.streak = 0]
  <2>1. thread \in [Sources -> ThreadType] /\ thread' = [thread EXCEPT ![s] = t]
    BY DEF ReadFrame, CaptureOrder, TypeOK, WorkerTypeOK
  <2>2. t \in ThreadType /\ t.at = "gotFrame" /\ t.id = thread[s].id
        /\ t.stop = thread[s].stop /\ t.device = thread[s].device
    <3>1. 0 \in 0 .. 2 /\ "gotFrame" \in Threads
      BY DEF Threads
    <3> QED  BY <1>1, <3>1 DEF ThreadType
  <2> HIDE DEF t
  <2> QED  BY <2>1, <2>2
<1>5. /\ thread[s].at \in Calls /\ Returned(s)
  BY Returns DEF ReadFrame, Calls
<1> DEFINE v == Published(slots[s], "Streaming")
<1>6. /\ v \in SlotsType /\ Store(s, v)
      /\ v.phase = "Streaming" /\ v.last_error = slots[s].last_error
      /\ v.format = slots[s].format /\ v.latest = slots[s].latest
  BY <1>1, Ages DEF ReadFrame, SlotsType, Published, Phases
<1> HIDE DEF v
<1>7. WorkerTypeOK'
  BY <1>6, Stores, <1>4, <1>5, Returns DEF ReadFrame, CaptureOrder, TypeOK, WorkerTypeOK, ThreadType
<1>8. StepOf(s)
  BY <1>6, Stores, <1>1, <1>4, <1>5, Returns DEF ReadFrame, StepOf, Session, CaptureOrder, TypeOK, WorkerTypeOK, Calls
<1>9. Settled(s)'
  BY <1>6, Stores, <1>1, <1>4, <1>5, Returns, KnownWorker DEF ReadFrame, Settled, Session, SlotsType, Calls, Published, Phases
<1> QED  BY <1>7, <1>8, <1>9

LEMMA ReadNoneSettles ==
  ASSUME CaptureOrder, NEW s \in Sources, ReadNone(s), UNCHANGED controlVars
  PROVE  WorkerTypeOK' /\ StepOf(s) /\ Settled(s)'
<1>1. /\ thread[s] \in ThreadType /\ slots[s] \in SlotsType /\ seen[s] \in SeenType
      /\ Open' = Open
  BY Known DEF controlVars, Open
<1>4. /\ thread' \in [Sources -> ThreadType]
      /\ \A x \in Sources \ {s} : thread'[x] = thread[x]
      /\ thread'[s].at = "gotNone"
      /\ thread'[s].id = thread[s].id /\ thread'[s].stop = thread[s].stop
      /\ thread'[s].device = thread[s].device
  <2> DEFINE t == [thread[s] EXCEPT !.at = "gotNone", !.streak = 0]
  <2>1. thread \in [Sources -> ThreadType] /\ thread' = [thread EXCEPT ![s] = t]
    BY DEF ReadNone, CaptureOrder, TypeOK, WorkerTypeOK
  <2>2. t \in ThreadType /\ t.at = "gotNone" /\ t.id = thread[s].id
        /\ t.stop = thread[s].stop /\ t.device = thread[s].device
    <3>1. 0 \in 0 .. 2 /\ "gotNone" \in Threads
      BY DEF Threads
    <3> QED  BY <1>1, <3>1 DEF ThreadType
  <2> HIDE DEF t
  <2> QED  BY <2>1, <2>2
<1>5. /\ thread[s].at \in Calls /\ Returned(s)
  BY Returns DEF ReadNone, Calls
<1>6. slots' = slots
  BY <1>1 DEF ReadNone
<1>7. WorkerTypeOK'
  BY <1>6, <1>4, <1>5, Returns DEF ReadNone, CaptureOrder, TypeOK, WorkerTypeOK, ThreadType
<1>8. StepOf(s)
  BY <1>6, <1>1, <1>4, <1>5, Returns DEF ReadNone, StepOf, Session, CaptureOrder, TypeOK, WorkerTypeOK, Calls
<1>9. Settled(s)'
  BY <1>6, <1>1, <1>4, <1>5, Returns, KnownWorker DEF ReadNone, Settled, Session, SlotsType, Calls
<1> QED  BY <1>7, <1>8, <1>9

LEMMA ReadFailedSettles ==
  ASSUME CaptureOrder, NEW s \in Sources, ReadFailed(s), UNCHANGED controlVars
  PROVE  WorkerTypeOK' /\ StepOf(s) /\ Settled(s)'
<1>1. /\ thread[s] \in ThreadType /\ slots[s] \in SlotsType /\ seen[s] \in SeenType
      /\ Open' = Open
  BY Known DEF controlVars, Open
<1>4. /\ thread' \in [Sources -> ThreadType]
      /\ \A x \in Sources \ {s} : thread'[x] = thread[x]
      /\ thread'[s].at \in {"close", "rest"}
      /\ thread'[s].id = thread[s].id /\ thread'[s].stop = thread[s].stop
      /\ thread'[s].device = thread[s].device
  <2>1. PICK t \in ThreadType : /\ t.at \in {"close", "rest"} /\ t.id = thread[s].id
                              /\ t.stop = thread[s].stop /\ t.device = thread[s].device
                              /\ thread' = [thread EXCEPT ![s] = t]
    <3>1. PICK gives_up \in BOOLEAN :
            /\ thread[s].streak = 2 => gives_up
            /\ thread' = [thread EXCEPT ![s] = [thread[s] EXCEPT
                             !.at = IF gives_up THEN "close" ELSE "rest",
                             !.streak = IF gives_up THEN 0 ELSE thread[s].streak + 1]]
      BY <1>1 DEF ReadFailed, CaptureOrder, TypeOK, WorkerTypeOK
    <3>2. thread[s].streak \in 0 .. 2
      BY <1>1 DEF ThreadType
    <3>3. CASE gives_up
      <4>1. 0 \in 0 .. 2
        OBVIOUS
      <4> QED  BY <1>1, <3>1, <3>3, <4>1 DEF ThreadType, Threads
    <3>4. CASE ~gives_up
      <4>1. thread[s].streak + 1 \in 0 .. 2
        BY <3>1, <3>2, <3>4
      <4> QED  BY <1>1, <3>1, <3>4, <4>1 DEF ThreadType, Threads
    <3> QED  BY <3>3, <3>4
  <2> QED  BY <1>1, <2>1 DEF CaptureOrder, TypeOK, WorkerTypeOK, ThreadType
<1>5. /\ thread[s].at \in Calls /\ Returned(s)
  BY Returns DEF ReadFailed, Calls
<1> DEFINE v == [slots[s] EXCEPT !.last_error = TRUE]
<1>6. /\ v \in SlotsType /\ Store(s, v)
      /\ v.phase = slots[s].phase /\ v.last_error = TRUE
      /\ v.format = slots[s].format /\ v.latest = slots[s].latest
  BY <1>1, Ages DEF ReadFailed, SlotsType
<1> HIDE DEF v
<1>7. WorkerTypeOK'
  BY <1>6, Stores, <1>4, <1>5, Returns DEF ReadFailed, CaptureOrder, TypeOK, WorkerTypeOK, ThreadType
<1>8. StepOf(s)
  BY <1>6, Stores, <1>1, <1>4, <1>5, Returns DEF ReadFailed, StepOf, Session, CaptureOrder, TypeOK, WorkerTypeOK, Calls
<1>9. Settled(s)'
  BY <1>6, Stores, <1>1, <1>4, <1>5, Returns, KnownWorker DEF ReadFailed, Settled, Session, SlotsType, Calls
<1> QED  BY <1>7, <1>8, <1>9

LEMMA WaitForLeaseSettles ==
  ASSUME CaptureOrder, NEW s \in Sources, WaitForLease(s), UNCHANGED controlVars
  PROVE  WorkerTypeOK' /\ StepOf(s) /\ Settled(s)'
<1>1. /\ thread[s] \in ThreadType /\ slots[s] \in SlotsType /\ seen[s] \in SeenType
      /\ thread[s].at = "lease" /\ slots' = slots /\ Open' = Open
  BY Known DEF WaitForLease, controlVars, Open
<1>2. CASE thread[s].stop
  <2>1. /\ thread' = [thread EXCEPT ![s] = Unborn] /\ seen' = [seen EXCEPT ![s] = Unseen]
        /\ leases' = leases
    BY <1>2 DEF WaitForLease
  <2>2. Unborn \in ThreadType /\ Unseen \in SeenType
    BY Deadlines DEF Unborn, Unseen, ThreadType, SeenType, Threads
  <2>3. /\ thread' \in [Sources -> ThreadType] /\ thread'[s] = Unborn
        /\ seen' \in [Sources -> SeenType] /\ seen'[s] = Unseen
        /\ \A x \in Sources \ {s} : thread'[x] = thread[x] /\ seen'[x] = seen[x]
    BY <2>1, <2>2 DEF CaptureOrder, TypeOK, WorkerTypeOK
  <2>4. WorkerTypeOK'
    BY <1>1, <2>1, <2>3 DEF CaptureOrder, TypeOK, WorkerTypeOK
  <2>5. StepOf(s)
    BY <1>1, <2>1, <2>3 DEF StepOf, Session, Unborn, Unseen, Calls
  <2>6. Settled(s)'
    BY <1>1, <1>2, <2>3, Known, KnownWorker DEF Settled, Session, Unborn, Unseen, Calls
  <2> QED  BY <2>4, <2>5, <2>6
<1>3. CASE ~thread[s].stop
  <2>1. /\ thread[s].id \notin leases /\ leases' = leases \cup {thread[s].id}
        /\ To(s, "outer") /\ seen' = seen
    BY <1>3 DEF WaitForLease
  <2>2. /\ thread' \in [Sources -> ThreadType]
        /\ \A x \in Sources \ {s} : thread'[x] = thread[x]
        /\ thread'[s].at = "outer"
        /\ thread'[s].id = thread[s].id /\ thread'[s].stop = thread[s].stop
        /\ thread'[s].device = thread[s].device
    BY <2>1, Moves DEF Threads
  <2>3. thread[s].id \in Locators
    BY <1>1, KnownWorker DEF ThreadType
  <2>4. WorkerTypeOK'
    BY <1>1, <2>1, <2>2, <2>3 DEF CaptureOrder, TypeOK, WorkerTypeOK
  <2>5. StepOf(s)
    BY <1>1, <2>1, <2>2 DEF StepOf, Session, Calls
  <2>6. thread[s].at \notin Calls
    BY <1>1 DEF Calls
  <2>7. Settled(s)'
    BY <1>1, <1>3, <2>1, <2>2, <2>6, Unnoticed, KnownWorker DEF Settled, Session, Calls
  <2> QED  BY <2>4, <2>5, <2>7
<1> QED  BY <1>2, <1>3

LEMMA WorkerStepKeepsOrder ==
  ASSUME CaptureOrder, NEW s \in Sources, Works(s) \/ CallReturns(s), UNCHANGED controlVars
  PROVE  CaptureOrder'
<1> SUFFICES WorkerTypeOK' /\ StepOf(s) /\ Settled(s)'
  BY WorkerKeepsOrder
<1>1. CASE Works(s)
  BY <1>1, WaitForLeaseSettles, BeginOpenSettles, StoreFormatSettles, BeginReadSettles,
     StoreLatestSettles, ClearErrorSettles, RestSettles, CloseSessionSettles, BackoffSettles
     DEF Works
<1>2. CASE CallReturns(s)
  BY <1>2, OpenedSettles, OpenFailedSettles, OpenPanickedSettles, ReadFrameSettles,
     ReadNoneSettles, ReadFailedSettles DEF CallReturns
<1> QED  BY <1>1, <1>2

----------------------------------------------------------------------------
(* Time *)

LEMMA TimeKeepsOrder ==
  ASSUME CaptureOrder, Time
  PROVE  CaptureOrder'
<1>1. /\ running' = running /\ selected' = selected /\ known' = known
      /\ real' = real /\ discovery' = discovery /\ Open' = Open
      /\ thread' = thread /\ leases' = leases
  BY DEF Time, Tick, Open
<1>2. /\ ui \in UiType
      /\ slots \in [Sources -> SlotsType] /\ seen \in [Sources -> SeenType]
      /\ thread \in [Sources -> ThreadType]
  BY DEF CaptureOrder, TypeOK, WorkerTypeOK
<1>3. /\ ui' \in UiType
      /\ ui'.at = ui.at /\ ui'.s = ui.s /\ ui'.fps = ui.fps /\ ui'.todo = ui.todo
      /\ ui'.age = IF ui.at \in {"format", "error"} THEN Older(ui.age) ELSE ui.age
  BY <1>2, Ages DEF Time, UiType
<1>4. ASSUME NEW x \in Sources
      PROVE  /\ slots'[x] \in SlotsType
             /\ slots'[x].phase = slots[x].phase /\ slots'[x].format = slots[x].format
             /\ slots'[x].last_error = slots[x].last_error
             /\ slots'[x].latest = slots[x].latest /\ slots'[x].inherited = slots[x].inherited
             /\ slots'[x].age = IF thread[x].at # "unborn" /\ ~thread[x].stop
                               THEN Older(slots[x].age) ELSE slots[x].age
  BY <1>2, Ages DEF Time, Tick, SlotsType
<1>5. ASSUME NEW x \in Sources
      PROVE  /\ seen'[x] \in SeenType
             /\ seen'[x].parked = seen[x].parked /\ seen'[x].stale = seen[x].stale
             /\ seen'[x].late = seen[x].late /\ seen'[x].follows = seen[x].follows
             /\ seen'[x].call = IF thread[x].at \in Calls /\ ~thread[x].stop
                               THEN Older(seen[x].call) ELSE 0
  BY <1>2, Ages, Deadlines DEF Time, Tick, SeenType, Calls
<1>6. /\ slots' \in [Sources -> SlotsType] /\ seen' \in [Sources -> SeenType]
  BY <1>4, <1>5 DEF Time, Tick
<1>7. TypeOK'
  BY <1>1, <1>3, <1>6 DEF CaptureOrder, TypeOK, WorkerTypeOK
<1>8. LeaseHeld' /\ WindsDown' /\ LastCall'
  BY <1>1, <1>5 DEF CaptureOrder, LeaseHeld, WindsDown, LastCall, Session
<1>9. ASSUME NEW x \in Sources, thread[x].at \in Calls, ~thread[x].stop
      PROVE  /\ seen'[x].call >= seen[x].call
             /\ slots'[x].age >= seen'[x].call
             /\ \A a \in 0 .. MaxAge : a >= seen[x].call => Older(a) >= seen'[x].call
  <2>1. seen[x].call \in 0 .. MaxAge /\ slots[x].age \in 0 .. MaxAge
    BY <1>2 DEF SlotsType, SeenType
  <2>2. slots[x].age >= seen[x].call
    BY <1>9 DEF CaptureOrder, SlotsAgree
  <2>3. seen'[x].call = Older(seen[x].call) /\ slots'[x].age = Older(slots[x].age)
    BY <1>4, <1>5, <1>9 DEF Calls
  <2> QED  BY <2>1, <2>2, <2>3, Ages
<1>10. SlotsAgree' /\ GhostHasError'
  BY <1>1, <1>4, <1>9 DEF CaptureOrder, SlotsAgree, GhostHasError
<1>11. ASSUME NEW x \in Sources, seen[x].parked
       PROVE  ~thread[x].stop /\ thread[x].at \in Calls /\ Overdue(x)'
  <2>1. ~thread[x].stop /\ thread[x].at \in Calls /\ Overdue(x)
    BY <1>11 DEF CaptureOrder, ParkedStays, Overdue
  <2>2. seen'[x].call >= seen[x].call /\ seen[x].call \in Nat /\ seen'[x].call \in Nat
    BY <1>2, <1>6, <1>9, <2>1, Deadlines DEF SeenType
  <2>3. slots[x].phase = "Streaming" => slots[x].format \in Rates
    BY <1>2, <2>1 DEF CaptureOrder, SlotsAgree, Calls, SlotsType
  <2> QED  BY <1>1, <1>4, <2>1, <2>2, <2>3, Deadlines DEF Overdue
<1>12. ParkedStays'
  BY <1>1, <1>5, <1>11 DEF CaptureOrder, ParkedStays
<1>13. PollSees'
  <2> SUFFICES ASSUME ui.at \in Reads
               PROVE  PollSees'
    BY <1>3 DEF PollSees
  <2>1. ui.s \in Sources
    BY DEF CaptureOrder, PollSees
  <2>2. ASSUME seen[ui.s].parked, ui.at \in {"format", "error"}
        PROVE  ui'.age >= seen'[ui.s].call
    BY <1>2, <1>3, <1>9, <1>11, <2>1, <2>2 DEF CaptureOrder, PollSees, UiType
  <2> QED  BY <1>3, <1>4, <1>5, <2>1, <2>2 DEF CaptureOrder, PollSees
<1> QED  BY <1>7, <1>8, <1>10, <1>12, <1>13 DEF CaptureOrder

----------------------------------------------------------------------------
(* The app's thread *)

(* What the app's thread may ask of a source it opens. *)
Opening(new) ==
  /\ DOMAIN new \subseteq Sources
  /\ \A s \in DOMAIN new :
       /\ thread[s].at = "unborn" /\ new[s].id \in Locators
       /\ new[s].stall \in 0..MaxAge /\ new[s].follows \in Sources \cup {None}
       /\ new[s].follows # None => /\ thread[new[s].follows].at \in Calls
                                   /\ thread[new[s].follows].id = new[s].id

LEMMA ReplaceKeepsOrder ==
  ASSUME CaptureOrder, NEW keep, NEW new, Opening(new), Replace(keep, new),
         leases' = leases, running' \in BOOLEAN, discovery' \in BOOLEAN,
         selected' \subseteq Locators, known' \subseteq Devices,
         ui' \in UiType, ui'.at \notin Reads,
         ~running' => (Open \cap keep) \cup DOMAIN new = {}
  PROVE  CaptureOrder'
<1>1. /\ slots \in [Sources -> SlotsType] /\ seen \in [Sources -> SeenType]
      /\ thread \in [Sources -> ThreadType] /\ leases \subseteq Locators
      /\ real \in [Open -> 0..1] /\ Open \subseteq Sources
  BY DEF CaptureOrder, TypeOK, WorkerTypeOK
<1> DEFINE gone == Open \ keep
           kept(x) == x \notin DOMAIN new /\ x \notin gone
<1>2. /\ real' \in [(Open \cap keep) \cup DOMAIN new -> 0..1]
      /\ Open' = (Open \cap keep) \cup DOMAIN new /\ Open' \subseteq Sources
  BY <1>1 DEF Replace, Open, Opening
<1>3. /\ thread' = [s \in Sources |->
            IF s \in DOMAIN new THEN [Unborn EXCEPT !.at = "lease", !.id = new[s].id]
            ELSE IF s \in gone THEN Dropped(thread[s]) ELSE thread[s]]
      /\ slots' = [s \in Sources |->
            IF s \in DOMAIN new THEN [NewSlots EXCEPT !.inherited = new[s].stall]
            ELSE IF s \in gone THEN NewSlots ELSE slots[s]]
      /\ seen' = [s \in Sources |->
            IF s \in DOMAIN new THEN [Unseen EXCEPT !.follows = new[s].follows]
            ELSE IF s \in gone THEN Unseen ELSE seen[s]]
  BY DEF Replace, DropAndSpawn
<1> HIDE DEF gone
<1>4. ASSUME NEW x \in DOMAIN new
      PROVE  /\ x \in Sources /\ thread[x].at = "unborn" /\ x \notin Open
             /\ thread'[x] \in ThreadType /\ slots'[x] \in SlotsType /\ seen'[x] \in SeenType
             /\ thread'[x].at = "lease" /\ thread'[x].id = new[x].id /\ new[x].id # None
             /\ ~thread'[x].stop /\ ~thread'[x].device
             /\ slots'[x].phase = "AwaitingLease" /\ slots'[x].latest = "none"
             /\ seen'[x].call = 0 /\ ~seen'[x].parked /\ ~seen'[x].stale /\ seen'[x].late = 0
             /\ seen'[x].follows = new[x].follows
  <2>1. /\ x \in Sources /\ thread[x].at = "unborn" /\ new[x].id \in Locators
        /\ new[x].stall \in 0..MaxAge /\ new[x].follows \in Sources \cup {None}
    BY DEF Opening
  <2>2. x \notin Open
    BY <2>1 DEF CaptureOrder, LastCall
  <2> DEFINE t == [Unborn EXCEPT !.at = "lease", !.id = new[x].id]
             v == [NewSlots EXCEPT !.inherited = new[x].stall]
             c == [Unseen EXCEPT !.follows = new[x].follows]
  <2>3. thread'[x] = t /\ slots'[x] = v /\ seen'[x] = c
    BY <1>3, <2>1
  <2>4. 0 \in 0 .. MaxAge /\ 0 \in 0 .. 2
    BY Deadlines
  <2>5. t \in ThreadType /\ t.at = "lease" /\ t.id = new[x].id /\ ~t.stop /\ ~t.device
    BY <2>1, <2>4 DEF Unborn, ThreadType, Threads
  <2>6. v \in SlotsType /\ v.phase = "AwaitingLease" /\ v.latest = "none"
    BY <2>1, <2>4 DEF NewSlots, SlotsType, Phases
  <2>7. c \in SeenType /\ c.call = 0 /\ ~c.parked /\ ~c.stale /\ c.late = 0
        /\ c.follows = new[x].follows
    BY <2>1, <2>4 DEF Unseen, SeenType
  <2> HIDE DEF t, v, c
  <2> QED  BY <2>1, <2>2, <2>3, <2>5, <2>6, <2>7, CaptureAssumption
<1>5. ASSUME NEW x \in gone, x \notin DOMAIN new
      PROVE  /\ x \in Sources /\ thread[x].at # "unborn" /\ ~thread[x].stop
             /\ thread'[x] \in ThreadType /\ slots'[x] \in SlotsType /\ seen'[x] \in SeenType
             /\ \/ thread'[x].at = "unborn" /\ thread[x].at = "ended"
                \/ thread'[x].at = thread[x].at /\ thread'[x].stop
             /\ thread'[x].at = "unborn" \/ thread'[x].id = thread[x].id
             /\ thread'[x].device => thread[x].device /\ thread'[x].at = thread[x].at
             /\ slots'[x].latest = "none"
             /\ seen'[x].call = 0 /\ ~seen'[x].parked /\ ~seen'[x].stale /\ seen'[x].late = 0
             /\ seen'[x].follows = None
  <2>1. x \in Sources /\ x \in Open /\ thread[x].at # "unborn" /\ ~thread[x].stop
    BY <1>1 DEF gone, CaptureOrder, LastCall, WindsDown
  <2>2. thread'[x] = Dropped(thread[x]) /\ slots'[x] = NewSlots /\ seen'[x] = Unseen
    BY <1>3, <1>5, <2>1
  <2>3. NewSlots \in SlotsType /\ Unseen \in SeenType /\ Unborn \in ThreadType
    BY Deadlines DEF NewSlots, Unseen, Unborn, SlotsType, SeenType, ThreadType, Threads, Phases
  <2>4. /\ slots'[x].latest = "none"
        /\ seen'[x].call = 0 /\ ~seen'[x].parked /\ ~seen'[x].stale /\ seen'[x].late = 0
        /\ seen'[x].follows = None
    BY <2>2 DEF NewSlots, Unseen
  <2>5. CASE thread[x].at = "ended"
    <3>1. thread'[x] = Unborn
      BY <2>2, <2>5 DEF Dropped
    <3>2. thread'[x].at = "unborn" /\ ~thread'[x].device
      BY <3>1 DEF Unborn
    <3> QED  BY <2>1, <2>2, <2>3, <2>4, <2>5, <3>1, <3>2
  <2>6. CASE thread[x].at # "ended"
    <3> DEFINE t == [thread[x] EXCEPT !.stop = TRUE]
    <3>1. thread'[x] = t
      BY <2>2, <2>6 DEF Dropped
    <3>2. t \in ThreadType /\ t.at = thread[x].at /\ t.stop /\ t.id = thread[x].id
          /\ t.device = thread[x].device
      BY <1>1, <2>1 DEF ThreadType
    <3> HIDE DEF t
    <3> QED  BY <2>1, <2>2, <2>3, <2>4, <3>1, <3>2
  <2> QED  BY <2>5, <2>6
<1>6. ASSUME NEW x \in Sources, kept(x)
      PROVE  /\ thread'[x] = thread[x] /\ slots'[x] = slots[x] /\ seen'[x] = seen[x]
             /\ x \in Open' <=> x \in Open
  BY <1>2, <1>3, <1>6 DEF gone
<1>8. ASSUME NEW x \in gone, x \notin DOMAIN new
      PROVE  x \notin Open'
  BY <1>2, <1>8 DEF gone
<1>9. TypeOK'
  <2>1. ASSUME NEW x \in Sources
        PROVE  thread'[x] \in ThreadType /\ slots'[x] \in SlotsType /\ seen'[x] \in SeenType
    BY <1>1, <1>4, <1>5, <1>6
  <2>2. thread' \in [Sources -> ThreadType] /\ slots' \in [Sources -> SlotsType]
        /\ seen' \in [Sources -> SeenType]
    BY <1>3, <2>1
  <2> QED  BY <1>1, <1>2, <2>2 DEF TypeOK, WorkerTypeOK, UiType
<1>10. ASSUME NEW x \in Sources
       PROVE  /\ Session(x)' => Session(x) /\ thread'[x].id = thread[x].id
              /\ thread'[x].device => thread[x].device /\ thread'[x].at = thread[x].at
              /\ thread'[x].at # "unborn" => thread'[x].id # None
  <2>1. thread[x].at # "unborn" => thread[x].id # None
    BY DEF CaptureOrder, LeaseHeld
  <2> QED  BY <1>4, <1>5, <1>6, <2>1 DEF Session
<1>11. LeaseHeld'
  BY <1>10 DEF CaptureOrder, LeaseHeld, Session
<1>12. WindsDown'
  <2>1. ASSUME NEW x \in Sources
        PROVE  seen'[x].late <= 1 /\ (thread'[x].at # "unborn" => (x \in Open' <=> ~thread'[x].stop))
    <3>1. CASE x \in DOMAIN new
      BY <1>2, <1>4, <3>1
    <3>2. CASE x \in gone /\ x \notin DOMAIN new
      BY <1>5, <1>8, <3>2
    <3>3. CASE kept(x)
      BY <1>6, <3>3 DEF CaptureOrder, WindsDown
    <3> QED  BY <3>1, <3>2, <3>3
  <2>2. ~running' => Open' = {}
    BY <1>2
  <2> QED  BY <2>1, <2>2 DEF WindsDown
<1>13. ASSUME NEW x \in Sources
       PROVE  (/\ seen[x].late > 0 => thread[x].stop /\ thread[x].at \notin Calls
               /\ thread[x].at \notin Calls => seen[x].call = 0
               /\ x \in Open => thread[x].at # "unborn")'
  <2>1. CASE x \in DOMAIN new
    BY <1>4, <2>1
  <2>2. CASE x \in gone /\ x \notin DOMAIN new
    BY <1>5, <1>8, <2>2
  <2>3. CASE kept(x)
    BY <1>6, <2>3 DEF CaptureOrder, LastCall
  <2> QED  BY <2>1, <2>2, <2>3
<1>14. LastCall'
  BY <1>13 DEF LastCall
<1>15. ASSUME NEW x \in Sources, ~thread'[x].stop
       PROVE  (/\ thread[x].at \in Calls => slots[x].age >= seen[x].call
               /\ thread[x].at = "lease" => slots[x].phase = "AwaitingLease"
               /\ thread[x].at = "open" => slots[x].phase = "Opening"
               /\ thread[x].at \in {"inner", "read", "gotFrame", "gotNone", "clear", "rest"} =>
                    slots[x].format # None
               /\ thread[x].at \in {"close", "backoff"} => slots[x].last_error)'
  <2>1. CASE x \in DOMAIN new
    BY <1>4, <2>1 DEF Calls
  <2>2. CASE x \in gone /\ x \notin DOMAIN new
    BY <1>5, <1>15, <2>2 DEF Calls
  <2>3. CASE kept(x)
    BY <1>6, <1>15, <2>3 DEF CaptureOrder, SlotsAgree
  <2> QED  BY <2>1, <2>2, <2>3
<1>16. SlotsAgree'
  BY <1>15 DEF SlotsAgree
<1>17. GhostHasError'
  BY <1>4, <1>5, <1>6 DEF CaptureOrder, GhostHasError
<1>18. ASSUME NEW p \in Sources, thread[p].at \in Calls
       PROVE  thread'[p].at \in Calls /\ thread'[p].id = thread[p].id
  <2>1. thread[p].at # "unborn" /\ thread[p].at # "ended"
    BY <1>18 DEF Calls
  <2> QED  BY <1>4, <1>5, <1>6, <1>18, <2>1 DEF Calls
<1>19. ParkedStays'
  <2>1. ASSUME NEW x \in Sources, seen'[x].parked
        PROVE  (~thread[x].stop /\ Overdue(x))'
    <3>1. kept(x)
      BY <1>4, <1>5, <2>1
    <3> QED  BY <1>6, <2>1, <3>1 DEF CaptureOrder, ParkedStays, Overdue
  <2>2. ASSUME NEW x \in Sources, seen'[x].follows # None
        PROVE  (LET p == seen[x].follows
                IN  /\ thread[x].at = "lease" /\ ~thread[x].stop
                    /\ thread[p].at \in Calls /\ thread[p].id = thread[x].id)'
    <3>1. CASE x \in DOMAIN new
      <4>1. new[x].follows \in Sources /\ thread[new[x].follows].at \in Calls
            /\ thread[new[x].follows].id = new[x].id
        BY <1>4, <2>2, <3>1 DEF Opening
      <4> QED  BY <1>4, <1>18, <3>1, <4>1
    <3>2. CASE kept(x)
      <4>1. seen[x].follows \in Sources
        BY <1>1, <1>6, <2>2, <3>2 DEF SeenType
      <4> QED  BY <1>6, <1>18, <2>2, <3>2, <4>1 DEF CaptureOrder, ParkedStays
    <3> QED  BY <1>5, <2>2, <3>1, <3>2
  <2> QED  BY <2>1, <2>2 DEF ParkedStays
<1>20. PollSees'
  BY DEF PollSees
<1> QED  BY <1>9, <1>11, <1>12, <1>14, <1>16, <1>17, <1>19, <1>20 DEF CaptureOrder

LEMMA RetainKeepsOrder ==
  ASSUME CaptureOrder, NEW keep, Retain(keep),
         leases' = leases, running' \in BOOLEAN, discovery' \in BOOLEAN,
         selected' \subseteq Locators, known' \subseteq Devices,
         ui' \in UiType, ui'.at \notin Reads,
         ~running' => Open \cap keep = {}
  PROVE  CaptureOrder'
<1>1. Replace(keep, NoneNew) /\ DOMAIN NoneNew = {}
  BY DEF Retain, NoneNew
<1>2. Opening(NoneNew)
  BY <1>1 DEF Opening
<1> QED  BY <1>1, <1>2, ReplaceKeepsOrder

(* A place of the app's thread outside the reads of a poll. *)
LEMMA Places ==
  ASSUME NEW todo \in SUBSET Locators, NEW at \in {"idle", "render", "open", "poll"}
  PROVE  /\ [Idle EXCEPT !.at = at, !.todo = todo] \in UiType
         /\ [Idle EXCEPT !.at = at, !.todo = todo].at \notin Reads
         /\ [Idle EXCEPT !.at = at] \in UiType
         /\ [Idle EXCEPT !.at = at].at \notin Reads
         /\ Idle \in UiType /\ Idle.at \notin Reads
<1>1. 0 \in 0 .. MaxAge
  BY Deadlines
<1> QED  BY <1>1 DEF Idle, UiType, Reads

LEMMA RequestKeepsOrder ==
  ASSUME CaptureOrder, NEW sel \in SUBSET Locators, RequestRender(sel),
         leases' = leases, discovery' = discovery, selected' \subseteq Locators, known' = known
  PROVE  CaptureOrder'
<1>1. discovery' \in BOOLEAN /\ known' \subseteq Devices /\ running \in BOOLEAN
  BY DEF CaptureOrder, TypeOK
<1>2. CASE sel # {}
  <2>1. BeginPass(sel) /\ running' = running
    BY <1>2 DEF RequestRender
  <2>2. ui' \in UiType /\ ui'.at \notin Reads
    BY <2>1, Places DEF BeginPass
  <2>3. ~running' => Open = {}
    BY <2>1 DEF CaptureOrder, WindsDown
  <2> QED  BY <1>1, <2>1, <2>2, <2>3, RetainKeepsOrder DEF BeginPass
<1>3. CASE sel = {}
  <2>1. running' = FALSE /\ Retain({}) /\ ui' = Idle
    BY <1>3 DEF RequestRender, StopStreaming
  <2>2. ui' \in UiType /\ ui'.at \notin Reads
    BY <2>1, Places
  <2> QED  BY <1>1, <2>1, <2>2, RetainKeepsOrder
<1> QED  BY <1>2, <1>3

(* What a poll leaves alone. *)
AppAlone ==
  /\ thread' = thread /\ slots' = slots /\ leases' = leases
  /\ running' = running /\ selected' = selected /\ known' = known /\ discovery' = discovery

(* What a poll may write down of the calls it finds. *)
OnlyNotices ==
  /\ seen' \in [Sources -> SeenType]
  /\ \A x \in Sources :
       /\ seen'[x].call = seen[x].call /\ seen'[x].late = seen[x].late
       /\ seen'[x].follows = seen[x].follows
       /\ seen'[x].parked => seen[x].parked \/ (Overdue(x) /\ ~thread[x].stop)

(* A step of the app's thread that leaves the workers alone. *)
LEMMA PollKeepsOrder ==
  ASSUME CaptureOrder, AppAlone,
         OnlyNotices,
         real' \in [Open -> 0..1], ui' \in UiType, PollSees'
  PROVE  CaptureOrder'
<1>1. Open' = Open
  BY DEF Open
<1>2. TypeOK'
  BY <1>1 DEF AppAlone, OnlyNotices, CaptureOrder, TypeOK, WorkerTypeOK, UiType
<1>3. LeaseHeld' /\ WindsDown' /\ LastCall' /\ SlotsAgree' /\ GhostHasError'
  BY <1>1 DEF AppAlone, OnlyNotices, CaptureOrder, LeaseHeld, WindsDown, LastCall, SlotsAgree, GhostHasError,
     Session
<1>4. ParkedStays'
  BY DEF AppAlone, OnlyNotices, CaptureOrder, ParkedStays, Overdue
<1> QED  BY <1>2, <1>3, <1>4 DEF CaptureOrder

LEMMA ReadKeepsOrder ==
  ASSUME CaptureOrder, AppAlone, seen' = seen,
         real' \in [Open -> 0..1], ui' \in UiType, PollSees'
  PROVE  CaptureOrder'
<1>1. OnlyNotices
  BY DEF OnlyNotices, CaptureOrder, TypeOK, WorkerTypeOK
<1> QED  BY <1>1, PollKeepsOrder

(* An answered poll is over. *)
LEMMA AnswersAre ==
  ASSUME CaptureOrder, NEW s \in Sources, NEW streak \in 0..1, Answered(s, streak)
  PROVE  real' \in [Open -> 0..1] /\ ui' \in UiType /\ ui'.at \notin Reads
<1>1. ui.todo \in SUBSET Locators /\ real \in [Open -> 0..1]
  BY DEF CaptureOrder, TypeOK, UiType
<1> QED  BY <1>1, Places DEF Answered

LEMMA BeginPollKeepsOrder ==
  ASSUME CaptureOrder, NEW l \in Locators, BeginPoll(l)
  PROVE  CaptureOrder'
<1>1. /\ seen \in [Sources -> SeenType] /\ Open \subseteq Sources
      /\ real \in [Open -> 0..1] /\ ui \in UiType
      /\ AppAlone
  BY DEF AppAlone, BeginPoll, CaptureOrder, TypeOK, WorkerTypeOK, UiType
<1> DEFINE next == IF ui.todo = {l} THEN Idle ELSE [ui EXCEPT !.todo = @ \ {l}]
<1>2. next \in UiType /\ next.at \notin Reads
  <2>1. ui.at = "poll"
    BY DEF BeginPoll
  <2>2. [ui EXCEPT !.todo = ui.todo \ {l}] \in UiType
        /\ [ui EXCEPT !.todo = ui.todo \ {l}].at \notin Reads
    BY <1>1, <2>1 DEF UiType, Reads
  <2> QED  BY <2>2, Places
<1> HIDE DEF next
<1>3. CASE Runtime(l) = {}
  <2>1. ui' = next /\ real' = real /\ seen' = seen
    BY <1>3 DEF BeginPoll, next
  <2> QED  BY <1>1, <1>2, <2>1, ReadKeepsOrder DEF PollSees
<1>4. CASE Runtime(l) # {}
  <2>1. PICK s \in Runtime(l) :
          /\ seen' = [seen EXCEPT ![s].parked = Overdue(s), ![s].stale = slots[s].latest = "old"]
          /\ IF slots[s].last_error
             THEN real' = [real EXCEPT ![s] = 1] /\ ui' = next
             ELSE /\ ui' = [ui EXCEPT !.at = "progress", !.s = s, !.todo = ui.todo \ {l}]
                  /\ real' = real
    BY <1>4 DEF BeginPoll, next
  <2>2. s \in Open /\ s \in Sources /\ ~thread[s].stop
    BY <1>1, <2>1 DEF Runtime, CaptureOrder, WindsDown, LastCall
  <2> DEFINE c == [seen[s] EXCEPT !.parked = Overdue(s), !.stale = slots[s].latest = "old"]
  <2>3. c \in SeenType
    BY <1>1, <2>2 DEF SeenType, Overdue
  <2>4. /\ c.call = seen[s].call /\ c.late = seen[s].late /\ c.follows = seen[s].follows
        /\ c.parked <=> Overdue(s)
        /\ c.stale <=> slots[s].latest = "old"
    BY <1>1, <2>2 DEF SeenType
  <2>5. seen' = [seen EXCEPT ![s] = c]
    BY <1>1, <2>1, <2>2
  <2> HIDE DEF c
  <2>6. OnlyNotices
    BY <1>1, <2>2, <2>3, <2>4, <2>5 DEF OnlyNotices
  <2>7. CASE slots[s].last_error
    <3>1. real' \in [Open -> 0..1] /\ ui' \in UiType /\ ui'.at \notin Reads
      BY <1>1, <1>2, <2>1, <2>2, <2>7
    <3> QED  BY <1>1, <2>6, <3>1, PollKeepsOrder DEF PollSees
  <2>8. CASE ~slots[s].last_error
    <3>1. /\ real' = real /\ ui' \in UiType /\ ui'.at = "progress" /\ ui'.s = s
      <4>1. /\ real' = real
            /\ ui' = [ui EXCEPT !.at = "progress", !.s = s, !.todo = ui.todo \ {l}]
        BY <2>1, <2>8
      <4> QED  BY <1>1, <2>2, <4>1 DEF UiType, Reads
    <3>2. ~seen'[s].stale
      BY <1>1, <2>2, <2>4, <2>5, <2>8 DEF CaptureOrder, GhostHasError
    <3>3. PollSees'
      BY <1>1, <2>2, <2>8, <3>1, <3>2 DEF PollSees, AppAlone
    <3> QED  BY <1>1, <2>6, <3>1, <3>3, PollKeepsOrder
  <2> QED  BY <2>7, <2>8
<1> QED  BY <1>3, <1>4

(* A worker past every deadline is where the watchdogs look. *)
LEMMA ParkedShows ==
  ASSUME CaptureOrder, NEW s \in Sources, seen[s].parked
  PROVE  /\ ~thread[s].stop /\ thread[s].at \in Calls
         /\ slots[s].age \in 0 .. MaxAge /\ slots[s].inherited \in 0 .. MaxAge
         /\ seen[s].call \in 0 .. MaxAge /\ slots[s].age >= seen[s].call
         /\ slots[s].phase # "Streaming" => seen[s].call >= OpenTimeout
         /\ slots[s].phase = "Streaming" => /\ slots[s].format \in Rates
                                            /\ seen[s].call >= FrameGapTimeout(slots[s].format)
<1>1. slots[s] \in SlotsType /\ seen[s] \in SeenType
  BY Known
<1>2. ~thread[s].stop /\ Overdue(s)
  BY DEF CaptureOrder, ParkedStays
<1>3. slots[s].age >= seen[s].call
  BY <1>2 DEF CaptureOrder, SlotsAgree, Overdue
<1>4. slots[s].phase = "Streaming" => slots[s].format \in Rates
  BY <1>1, <1>2 DEF CaptureOrder, SlotsAgree, Overdue, Calls, SlotsType
<1> QED  BY <1>1, <1>2, <1>3, <1>4 DEF Overdue, SlotsType, SeenType

LEMMA PollProgressKeepsOrder ==
  ASSUME CaptureOrder, NEW s \in Sources, PollProgress(s)
  PROVE  CaptureOrder'
<1>1. /\ AppAlone /\ slots' = slots /\ thread' = thread /\ seen' = seen
      /\ ui.at = "progress" /\ ui.s = s /\ ui \in UiType /\ real \in [Open -> 0..1]
      /\ slots[s] \in SlotsType /\ seen \in [Sources -> SeenType]
  BY Known DEF PollProgress, workerVars, AppAlone, CaptureOrder, TypeOK, WorkerTypeOK, UiType
<1> DEFINE stalled == OpenStalled(slots[s].phase, PreFrameElapsed(slots[s]))
<1>2. CASE stalled
  <2>1. Answered(s, 1)
    BY <1>2 DEF PollProgress, Fails
  <2>2. real' \in [Open -> 0..1] /\ ui' \in UiType /\ ui'.at \notin Reads
    BY <2>1, AnswersAre
  <2> QED  BY <1>1, <2>2, ReadKeepsOrder DEF PollSees
<1>3. CASE ~stalled
  <2>1. ~(seen[s].follows # None /\ slots[s].inherited >= OpenTimeout)
    <3> SUFFICES ASSUME seen[s].follows # None, slots[s].inherited >= OpenTimeout
                 PROVE  FALSE
      OBVIOUS
    <3>1. slots[s].phase = "AwaitingLease"
      BY DEF CaptureOrder, ParkedStays, SlotsAgree
    <3>2. slots[s].age \in 0 .. MaxAge /\ slots[s].inherited \in 0 .. MaxAge
      BY <1>1 DEF SlotsType
    <3>3. Capped(slots[s].age + slots[s].inherited) >= OpenTimeout
          /\ Capped(slots[s].age + slots[s].inherited) \in 0 .. MaxAge
      BY <3>2, Deadlines DEF Capped
    <3> QED  BY <1>3, <3>1, <3>3 DEF OpenStalled, PreFrameElapsed
  <2>2. seen[s].parked => slots[s].phase = "Streaming"
    <3> SUFFICES ASSUME seen[s].parked, slots[s].phase # "Streaming"
                 PROVE  FALSE
      OBVIOUS
    <3>1. /\ slots[s].age \in 0 .. MaxAge /\ slots[s].inherited \in 0 .. MaxAge
          /\ slots[s].age >= OpenTimeout
      BY ParkedShows, Deadlines
    <3>2. /\ Capped(slots[s].age + slots[s].inherited) >= OpenTimeout
          /\ Capped(slots[s].age + slots[s].inherited) \in 0 .. MaxAge
      BY <3>1, Deadlines DEF Capped
    <3> QED  BY <1>3, <3>1, <3>2 DEF OpenStalled, PreFrameElapsed
  <2>3. /\ real' = real
        /\ ui' = IF slots[s].phase = "Streaming"
                 THEN [ui EXCEPT !.at = "format", !.age = slots[s].age]
                 ELSE [ui EXCEPT !.at = "latest", !.s = s]
    BY <1>3 DEF PollProgress, Reading
  <2>4. /\ ui' \in UiType /\ ui'.s = s
        /\ slots[s].phase = "Streaming" => ui'.at = "format" /\ ui'.age = slots[s].age
        /\ slots[s].phase # "Streaming" => ui'.at = "latest"
    BY <1>1, <2>3 DEF UiType, Reads, SlotsType
  <2>5. seen[s].parked => ui'.age >= seen[s].call
    BY <2>2, <2>4, ParkedShows
  <2>6. PollSees'
    BY <1>1, <2>1, <2>2, <2>4, <2>5 DEF PollSees, CaptureOrder, Reads
  <2> QED  BY <1>1, <2>3, <2>4, <2>6, ReadKeepsOrder
<1> QED  BY <1>2, <1>3

LEMMA PollFormatKeepsOrder ==
  ASSUME CaptureOrder, NEW s \in Sources, PollFormat(s)
  PROVE  CaptureOrder'
<1>1. /\ AppAlone /\ slots' = slots /\ thread' = thread /\ seen' = seen /\ real' = real
      /\ ui.at = "format" /\ ui.s = s /\ ui \in UiType /\ real \in [Open -> 0..1]
      /\ slots[s] \in SlotsType /\ seen \in [Sources -> SeenType]
      /\ ui' = IF slots[s].format = None THEN [ui EXCEPT !.at = "latest"]
                                         ELSE [ui EXCEPT !.at = "error", !.fps = slots[s].format]
  BY Known DEF PollFormat, workerVars, AppAlone, CaptureOrder, TypeOK, WorkerTypeOK, UiType
<1>2. /\ ui' \in UiType /\ ui'.s = s /\ ui'.age = ui.age
      /\ ui'.at = IF slots[s].format = None THEN "latest" ELSE "error"
      /\ slots[s].format # None => ui'.fps = slots[s].format
  BY <1>1 DEF UiType, Reads, SlotsType
<1>3. seen[s].parked => slots[s].format # None
  BY <1>1, ParkedShows, CaptureAssumption DEF CaptureOrder, PollSees, Reads
<1>4. PollSees'
  BY <1>1, <1>2, <1>3 DEF CaptureOrder, PollSees, Reads
<1> QED  BY <1>1, <1>2, <1>4, ReadKeepsOrder

LEMMA PollErrorAgainKeepsOrder ==
  ASSUME CaptureOrder, NEW s \in Sources, PollErrorAgain(s)
  PROVE  CaptureOrder'
<1>1. /\ AppAlone /\ slots' = slots /\ thread' = thread /\ seen' = seen
      /\ ui.at = "error" /\ ui.s = s /\ ui \in UiType /\ real \in [Open -> 0..1]
      /\ seen \in [Sources -> SeenType]
  BY DEF PollErrorAgain, workerVars, AppAlone, CaptureOrder, TypeOK, WorkerTypeOK, UiType
<1> DEFINE stalled == ~slots[s].last_error /\ FrameStalled("Streaming", ui.age, ui.fps)
<1>2. CASE stalled
  <2>1. Answered(s, 1)
    BY <1>2 DEF PollErrorAgain, Fails
  <2>2. real' \in [Open -> 0..1] /\ ui' \in UiType /\ ui'.at \notin Reads
    BY <2>1, AnswersAre
  <2> QED  BY <1>1, <2>2, ReadKeepsOrder DEF PollSees
<1>3. CASE ~stalled
  <2>1. ~seen[s].parked
    <3> SUFFICES ASSUME seen[s].parked
                 PROVE  FALSE
      OBVIOUS
    <3>1. /\ ~slots[s].last_error /\ slots[s].phase = "Streaming"
          /\ ui.age >= seen[s].call /\ ui.fps = slots[s].format
      BY <1>1 DEF CaptureOrder, PollSees, Reads
    <3>2. /\ slots[s].format \in Rates /\ seen[s].call \in 0 .. MaxAge
          /\ seen[s].call >= FrameGapTimeout(slots[s].format)
      BY <3>1, ParkedShows
    <3>3. ui.age >= FrameGapTimeout(ui.fps)
      BY <1>1, <3>1, <3>2, Deadlines DEF UiType
    <3> QED  BY <1>3, <3>1, <3>3 DEF FrameStalled
  <2>2. ui' \in UiType /\ ui'.at = "latest" /\ ui'.s = s /\ real' = real
    BY <1>1, <1>3 DEF PollErrorAgain, Reading, UiType, Reads
  <2>3. PollSees'
    BY <1>1, <2>1, <2>2 DEF CaptureOrder, PollSees, Reads
  <2> QED  BY <1>1, <2>2, <2>3, ReadKeepsOrder
<1> QED  BY <1>2, <1>3

LEMMA PollLatestKeepsOrder ==
  ASSUME CaptureOrder, NEW s \in Sources, PollLatest(s)
  PROVE  CaptureOrder'
<1>1. /\ AppAlone /\ slots' = slots /\ thread' = thread /\ seen' = seen
      /\ seen \in [Sources -> SeenType]
  BY DEF PollLatest, workerVars, AppAlone, CaptureOrder, TypeOK, WorkerTypeOK
<1>2. real' \in [Open -> 0..1] /\ ui' \in UiType /\ ui'.at \notin Reads
  BY AnswersAre DEF PollLatest
<1> QED  BY <1>1, <1>2, ReadKeepsOrder DEF PollSees

LEMMA OpenMissingKeepsOrder ==
  ASSUME CaptureOrder, NEW l \in Locators, OpenMissing(l)
  PROVE  CaptureOrder'
<1>1. /\ running' = running /\ selected' = selected /\ known' = known
      /\ discovery' = discovery /\ leases' = leases
      /\ running \in BOOLEAN /\ discovery \in BOOLEAN /\ selected \subseteq Locators
      /\ known \subseteq Devices /\ ui \in UiType /\ real \in [Open -> 0..1]
  BY DEF OpenMissing, CaptureOrder, TypeOK, UiType
<1>2. ui' \in UiType /\ ui'.at \notin Reads
  <2>1. ui.at = "open"
    BY DEF OpenMissing
  <2>2. ui' = IF ui.todo = {l} THEN [ui EXCEPT !.at = "poll", !.todo = selected]
                               ELSE [ui EXCEPT !.todo = ui.todo \ {l}]
    BY DEF OpenMissing
  <2>3. CASE ui.todo = {l}
    BY <1>1, <2>2, <2>3 DEF UiType, Reads
  <2>4. CASE ui.todo # {l}
    BY <1>1, <2>1, <2>2, <2>4 DEF UiType, Reads
  <2> QED  BY <2>3, <2>4
<1>3. CASE running /\ Runtime(l) = {}
  <2>1. PICK s \in Sources :
          /\ thread[s].at = "unborn"
          /\ Replace(Open, [x \in {s} |-> [id |-> l, stall |-> 0, follows |-> None]])
    BY <1>3 DEF OpenMissing
  <2> DEFINE new == [x \in {s} |-> [id |-> l, stall |-> 0, follows |-> None]]
  <2>2. Opening(new)
    BY <2>1, Deadlines DEF Opening
  <2>3. Replace(Open, new)
    BY <2>1
  <2> HIDE DEF new
  <2> QED  BY <1>1, <1>2, <1>3, <2>2, <2>3, ReplaceKeepsOrder
<1>4. CASE ~(running /\ Runtime(l) = {})
  <2>1. AppAlone /\ seen' = seen /\ real' = real
    BY <1>1, <1>4 DEF OpenMissing, AppAlone
  <2> QED  BY <1>1, <1>2, <2>1, ReadKeepsOrder DEF PollSees
<1> QED  BY <1>3, <1>4

LEMMA RetryKeepsOrder ==
  ASSUME CaptureOrder, NEW d \in Devices, Retry(d)
  PROVE  CaptureOrder'
<1>1. /\ running' = running /\ selected' = selected /\ known' = known
      /\ discovery' = discovery /\ leases' = leases
      /\ running \in BOOLEAN /\ discovery \in BOOLEAN /\ selected \subseteq Locators
      /\ known \subseteq Devices /\ Open \subseteq Sources
      /\ thread \in [Sources -> ThreadType] /\ slots \in [Sources -> SlotsType]
      /\ seen \in [Sources -> SeenType]
  BY DEF Retry, CaptureOrder, TypeOK, WorkerTypeOK
<1>2. ui' \in UiType /\ ui'.at \notin Reads
  BY Places DEF Retry
<1> DEFINE l == StableId[d]
<1>3. PICK p \in Runtime(l), s \in Sources :
        /\ thread[s].at = "unborn"
        /\ Replace(Open \ Runtime(l),
                   [x \in {s} |-> [id |-> thread[p].id, stall |-> StallAge(slots[p]),
                                  follows |-> IF Overdue(p) THEN p ELSE seen[p].follows]])
  BY DEF Retry
<1> DEFINE new == [x \in {s} |-> [id |-> thread[p].id, stall |-> StallAge(slots[p]),
                                follows |-> IF Overdue(p) THEN p ELSE seen[p].follows]]
<1>4. p \in Open /\ p \in Sources /\ running
  BY <1>1 DEF Runtime, CaptureOrder, WindsDown
<1>5. thread[p].id \in Locators
  <2>1. thread[p].at # "unborn"
    BY <1>4 DEF CaptureOrder, LastCall
  <2> QED  BY <1>1, <1>4, <2>1 DEF CaptureOrder, LeaseHeld, ThreadType
<1>6. StallAge(slots[p]) \in 0 .. MaxAge
  <2>1. slots[p].age \in 0 .. MaxAge /\ slots[p].inherited \in 0 .. MaxAge
    BY <1>1, <1>4 DEF SlotsType
  <2>2. PreFrameElapsed(slots[p]) \in 0 .. MaxAge /\ 0 \in 0 .. MaxAge
    BY <2>1, Deadlines DEF PreFrameElapsed, Capped
  <2> QED  BY <2>1, <2>2 DEF StallAge, FrameStallAge
<1>7. seen[p].follows # None => /\ thread[seen[p].follows].at \in Calls
                                /\ thread[seen[p].follows].id = thread[p].id
  BY <1>4 DEF CaptureOrder, ParkedStays
<1>8. Opening(new)
  BY <1>1, <1>3, <1>4, <1>5, <1>6, <1>7 DEF Opening, Overdue, SeenType
<1>9. Replace(Open \ Runtime(l), new)
  BY <1>3
<1> HIDE DEF new, l
<1> QED  BY <1>1, <1>2, <1>4, <1>8, <1>9, ReplaceKeepsOrder

LEMMA DiscoversKeepsOrder ==
  ASSUME CaptureOrder, Discovers
  PROVE  CaptureOrder'
<1>1. /\ running \in BOOLEAN /\ discovery \in BOOLEAN /\ selected \subseteq Locators
      /\ known \subseteq Devices /\ ui \in UiType /\ real \in [Open -> 0..1]
  BY DEF CaptureOrder, TypeOK, UiType
<1>2. CASE StartDiscovery \/ CancelDiscovery
  <2>1. /\ thread' = thread /\ slots' = slots /\ leases' = leases /\ seen' = seen
        /\ running' = running /\ selected' = selected /\ known' = known
        /\ real' = real /\ ui' = ui /\ discovery' \in BOOLEAN /\ Open' = Open
    BY <1>2 DEF StartDiscovery, CancelDiscovery, workerVars, Open
  <2> QED  BY <2>1 DEF CaptureOrder, TypeOK, WorkerTypeOK, LeaseHeld, WindsDown, LastCall,
              SlotsAgree, GhostHasError, ParkedStays, PollSees, Session, Overdue
<1>3. ASSUME NEW keep, FinishDiscovery(keep), selected' \subseteq Locators, known' \subseteq Devices
      PROVE  CaptureOrder'
  <2>1. /\ discovery' \in BOOLEAN /\ Retain(keep) /\ leases' = leases /\ running' = running
        /\ ui' \in UiType /\ ui'.at \notin Reads
    BY <1>3, Places DEF FinishDiscovery
  <2>2. ~running' => Open \cap keep = {}
    BY <2>1 DEF CaptureOrder, WindsDown
  <2> QED  BY <1>1, <1>3, <2>1, <2>2, RetainKeepsOrder
<1>4. CASE DiscoveryFailed
  BY <1>1, <1>3, <1>4 DEF DiscoveryFailed
<1>5. ASSUME NEW devices \in SUBSET Devices, DevicesFound(devices)
      PROVE  CaptureOrder'
  <2>1. selected' \subseteq Locators /\ known' \subseteq Devices
    BY <1>1, <1>5, ControlAssumption DEF DevicesFound, Migrated
  <2> QED  BY <1>3, <1>5, <2>1 DEF DevicesFound
<1> QED  BY <1>2, <1>4, <1>5 DEF Discovers

LEMMA UserKeepsOrder ==
  ASSUME CaptureOrder, User \/ Render
  PROVE  CaptureOrder'
<1>1. /\ running \in BOOLEAN /\ discovery \in BOOLEAN /\ selected \subseteq Locators
      /\ known \subseteq Devices
  BY DEF CaptureOrder, TypeOK
<1>2. CASE Start
  <2>1. /\ running' = TRUE /\ BeginPass(selected)
        /\ leases' = leases /\ selected' = selected /\ known' = known /\ discovery' = discovery
    BY <1>2 DEF Start
  <2>2. ui' \in UiType /\ ui'.at \notin Reads
    BY <1>1, <2>1, Places DEF BeginPass
  <2> QED  BY <1>1, <2>1, <2>2, RetainKeepsOrder DEF BeginPass
<1>3. CASE Stop
  <2>1. /\ running' = FALSE /\ Retain({}) /\ ui' = Idle
        /\ leases' = leases /\ selected' = selected /\ known' = known /\ discovery' = discovery
    BY <1>3 DEF Stop, StopStreaming
  <2> QED  BY <1>1, <2>1, Places, RetainKeepsOrder
<1>4. CASE Render
  BY <1>1, <1>4, RequestKeepsOrder DEF Render
<1>5. ASSUME NEW l \in Locators, Select(l)
      PROVE  CaptureOrder'
  <2>1. PICK sel \in SUBSET Locators : selected' = sel /\ RequestRender(sel)
    BY <1>1, <1>5 DEF Select
  <2>2. /\ leases' = leases /\ known' = known /\ discovery' = discovery
    BY <1>1, <1>5 DEF Select
  <2> QED  BY <1>1, <2>1, <2>2, RequestKeepsOrder
<1> QED  BY <1>2, <1>3, <1>4, <1>5, DiscoversKeepsOrder, RetryKeepsOrder DEF User

----------------------------------------------------------------------------
(* The theorems *)

LEMMA NextKeepsOrder ==
  ASSUME CaptureOrder, [Next]_vars
  PROVE  CaptureOrder'
<1>1. CASE UNCHANGED vars
  <2>1. /\ thread' = thread /\ slots' = slots /\ leases' = leases /\ seen' = seen
        /\ running' = running /\ selected' = selected /\ known' = known
        /\ real' = real /\ ui' = ui /\ discovery' = discovery /\ Open' = Open
    BY <1>1 DEF vars, workerVars, controlVars, Open
  <2> QED  BY <2>1 DEF CaptureOrder, TypeOK, WorkerTypeOK, LeaseHeld, WindsDown, LastCall,
              SlotsAgree, GhostHasError, ParkedStays, PollSees, Session, Overdue
<1>2. CASE Worker
  BY <1>2, WorkerStepKeepsOrder DEF Worker, WorkerStep
<1>3. CASE Pass
  BY <1>3, OpenMissingKeepsOrder, BeginPollKeepsOrder, PollProgressKeepsOrder,
     PollFormatKeepsOrder, PollErrorAgainKeepsOrder, PollLatestKeepsOrder DEF Pass, Polls
<1>4. CASE Render \/ User
  BY <1>4, UserKeepsOrder
<1>5. CASE Time
  BY <1>5, TimeKeepsOrder
<1> QED  BY <1>1, <1>2, <1>3, <1>4, <1>5 DEF Next

LEMMA InitOrder ==
  ASSUME Init
  PROVE  CaptureOrder
<1>1. /\ thread = [s \in Sources |-> Unborn] /\ slots = [s \in Sources |-> NewSlots]
      /\ seen = [s \in Sources |-> Unseen] /\ leases = {}
      /\ running = FALSE /\ selected \subseteq Locators /\ known = {}
      /\ real = [s \in {} |-> 0] /\ discovery = FALSE /\ ui = Idle /\ Open = {}
  BY DEF Init, WorkerInit, Open
<1>2. /\ Unborn \in ThreadType /\ NewSlots \in SlotsType /\ Unseen \in SeenType
  BY Deadlines DEF NewSlots, Unseen, Unborn, SlotsType, SeenType, ThreadType, Threads, Phases
<1>3. Idle \in UiType /\ Idle.at \notin Reads
  BY Places
<1>4. TypeOK
  BY <1>1, <1>2, <1>3 DEF TypeOK, WorkerTypeOK, UiType
<1>5. ASSUME NEW s \in Sources
      PROVE  /\ thread[s].at = "unborn" /\ ~thread[s].device
             /\ slots[s].latest = "none"
             /\ seen[s].call = 0 /\ ~seen[s].parked /\ ~seen[s].stale
             /\ seen[s].late = 0 /\ seen[s].follows = None
  BY <1>1 DEF Unborn, NewSlots, Unseen
<1>6. LeaseHeld /\ WindsDown /\ LastCall
  BY <1>1, <1>5 DEF LeaseHeld, WindsDown, LastCall, Session
<1>7. SlotsAgree /\ GhostHasError /\ ParkedStays
  BY <1>5 DEF SlotsAgree, GhostHasError, ParkedStays, Calls
<1>8. PollSees
  BY <1>1, <1>3 DEF PollSees
<1> QED  BY <1>4, <1>6, <1>7, <1>8 DEF CaptureOrder

LEMMA CaptureOrderHolds == Spec => []CaptureOrder
<1>1. Init => CaptureOrder
  BY InitOrder
<1>2. CaptureOrder /\ [Next]_vars => CaptureOrder'
  BY NextKeepsOrder
<1> QED  BY <1>1, <1>2, PTL DEF Spec

(* However often a camera is started, stopped, selected, found and retried, *)
(* while its workers sit in driver calls that may never return: no locator  *)
(* is ever opened by two workers at once (the lease of capture.rs outlives  *)
(* the source that asked for it), and a source the app has let go of makes  *)
(* at most one more backend call return and opens nothing again.            *)
THEOREM CaptureInvHolds == Spec => []CaptureInv
<1>1. CaptureOrder => CaptureInv
  <2> SUFFICES ASSUME CaptureOrder
               PROVE  OneWorkerPerLocator
    BY DEF CaptureOrder, CaptureInv
  <2>1. ASSUME NEW s \in Sources, Working(s)
        PROVE  Session(s)
    BY <2>1 DEF CaptureOrder, LeaseHeld, Working, Session, Calls
  <2> QED  BY <2>1 DEF CaptureOrder, LeaseHeld, OneWorkerPerLocator
<1> QED  BY <1>1, CaptureOrderHolds, PTL

(* The frame a poll answers with is not one of a session that was over when *)
(* the poll began: latest_frame looks at the error first, and the error of  *)
(* a session stands as long as its last frame does.                         *)
THEOREM NoGhostFrameHolds == Spec => NoGhostFrame
<1>1. ASSUME CaptureOrder, NEW s \in Sources, PollLatest(s)
      PROVE  ~(seen[s].stale /\ slots[s].latest = "old")
  BY <1>1 DEF CaptureOrder, PollSees, PollLatest, Reads
<1>2. CaptureOrder =>
        [\A s \in Sources : PollLatest(s) => ~(seen[s].stale /\ slots[s].latest = "old")]_vars
  BY <1>1
<1> QED  BY <1>2, CaptureOrderHolds, PTL DEF NoGhostFrame

(* No interleaving of a poll's five locks with the worker and the clock     *)
(* hides a hung driver: a poll does not answer Ok when the worker sat in    *)
(* one backend call, past every deadline, from its first lock to its last,  *)
(* nor does a retry, as long as the worker it replaced is in that call.     *)
THEOREM StallIsReportedHolds == Spec => StallIsReported
<1>1. ASSUME CaptureOrder, NEW s \in Sources, PollLatest(s)
      PROVE  ~HidesStall(s)
  BY <1>1 DEF CaptureOrder, PollSees, PollLatest, Reads, HidesStall
<1>2. CaptureOrder => [\A s \in Sources : PollLatest(s) => ~HidesStall(s)]_vars
  BY <1>1
<1> QED  BY <1>2, CaptureOrderHolds, PTL DEF StallIsReported

=============================================================================
