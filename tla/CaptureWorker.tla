--------------------------- MODULE CaptureWorker ---------------------------
(***************************************************************************)
(* The capture threads of src/capture.rs.  A source is one incarnation of  *)
(* ThreadedNokhwaFrameSource: a worker thread parked, most of its life,    *)
(* inside a backend call that may never return, and the slots it shares    *)
(* with the one thread that polls it.  The lease of a camera locator keeps *)
(* two workers of this process from opening the same locator.              *)
(*                                                                         *)
(* Every store to a slot is a step of its own.  Time is the number of      *)
(* ticks since the phase was published, as far as the deadlines tell it    *)
(* apart; the length of a sleep is a choice.                               *)
(***************************************************************************)
EXTENDS Integers, FiniteSets

CONSTANTS Sources,           \* incarnations of a source
          Locators,          \* the camera ids a source is opened by
          Rates,             \* frame rates a device negotiates
          OpenTimeout,       \* camera_open_timeout(), in ticks
          MinFrameGap,       \* MIN_FRAME_GAP_TIMEOUT, in ticks
          FrameGapIntervals, \* FRAME_GAP_INTERVALS, in ticks of one frame at rate 1
          None

ASSUME CaptureAssumption ==
  /\ OpenTimeout \in Nat /\ MinFrameGap \in Nat \ {0} /\ FrameGapIntervals \in Nat
  /\ Rates \subseteq Nat
  /\ None \notin Sources \cup Locators \cup Rates

VARIABLES thread, \* the workers
          slots,  \* CaptureSlots and the stall each source was built with
          leases, \* ACTIVE_CAMERA_IDS
          seen    \* history: the backend call each worker is in, as the polls found it

workerVars == <<thread, slots, leases, seen>>

Phases == {"AwaitingLease", "Opening", "AwaitingFirstFrame", "Streaming"}
Calls == {"open", "read"}
Threads == {"unborn", "lease", "outer", "opened", "inner", "gotFrame", "gotNone", "clear",
            "rest", "close", "backoff", "ended"} \cup Calls

FrameGapTimeout(fps) ==
  IF fps = 0 \/ FrameGapIntervals \div fps < MinFrameGap THEN MinFrameGap
                                                          ELSE FrameGapIntervals \div fps

\* Ages are told apart up to the longest deadline.
MaxAge == IF OpenTimeout > FrameGapTimeout(1) THEN OpenTimeout ELSE FrameGapTimeout(1)
Capped(age) == IF age < MaxAge THEN age ELSE MaxAge
Older(age) == Capped(age + 1)

Unborn == [at |-> "unborn", id |-> None, stop |-> FALSE, streak |-> 0, device |-> FALSE]
NewSlots == [phase |-> "AwaitingLease", age |-> 0, last_error |-> FALSE, format |-> None,
             latest |-> "none", inherited |-> 0]
Unseen == [call |-> 0, parked |-> FALSE, stale |-> FALSE, late |-> 0, follows |-> None]

WorkerInit ==
  /\ thread = [s \in Sources |-> Unborn]
  /\ slots = [s \in Sources |-> NewSlots]
  /\ leases = {}
  /\ seen = [s \in Sources |-> Unseen]

----------------------------------------------------------------------------
(* The worker thread *)

To(s, at) == thread' = [thread EXCEPT ![s].at = at]

\* A store to the slots; those of a dropped source have no reader left.
Store(s, v) == slots' = IF thread[s].stop THEN slots ELSE [slots EXCEPT ![s] = v]

\* A phase is published together with the moment it began.
Published(v, phase) == [v EXCEPT !.phase = phase, !.age = 0]

\* A session that is over has delivered its last frame.
Over(v) == [v EXCEPT !.latest = IF @ = "current" THEN "old" ELSE @]

Unfollowed(s) == [x \in Sources |-> [seen[x] EXCEPT !.follows = IF @ = s THEN None ELSE @]]

\* Mutant: a stopped worker leaves the lease behind.
EndsHolding(s) ==
  /\ thread' = [thread EXCEPT ![s] = Unborn]
  /\ seen' = [Unfollowed(s) EXCEPT ![s] = Unseen]
  /\ UNCHANGED <<slots, leases>>

\* Leaving the function after a stop drops the open device, then the lease; the
\* source is then free to stand for the next one.
Ends(s) ==
  /\ thread' = [thread EXCEPT ![s] = Unborn]
  /\ leases' = leases \ {thread[s].id}
  /\ seen' = [Unfollowed(s) EXCEPT ![s] = Unseen]
  /\ UNCHANGED slots

\* Mutant: the answer of HashSet::insert is not looked at.
WaitForLeaseNot(s) ==
  /\ thread[s].at = "lease" /\ ~thread[s].stop
  /\ leases' = leases \cup {thread[s].id}
  /\ To(s, "outer")
  /\ UNCHANGED <<slots, seen>>

WaitForLease(s) ==
  /\ thread[s].at = "lease"
  /\ \/ /\ thread[s].stop
        /\ thread' = [thread EXCEPT ![s] = Unborn]
        /\ seen' = [seen EXCEPT ![s] = Unseen]
        /\ UNCHANGED leases
     \/ /\ ~thread[s].stop /\ thread[s].id \notin leases
        /\ leases' = leases \cup {thread[s].id}
        /\ To(s, "outer")
        /\ UNCHANGED seen
  /\ UNCHANGED slots

\* The stop check of the outer loop, then Opening is published and the open called.
BeginOpen(s) ==
  /\ thread[s].at = "outer"
  /\ IF thread[s].stop THEN Ends(s)
     ELSE /\ To(s, "open")
          /\ Store(s, Published(slots[s], "Opening"))
          /\ UNCHANGED <<leases, seen>>

\* A backend call comes back: it is no longer the call an earlier poll found.
Returned(s) ==
  seen' = [Unfollowed(s) EXCEPT ![s] =
             [seen[s] EXCEPT !.call = 0, !.parked = FALSE,
                             !.late = IF thread[s].stop /\ @ < 2 THEN @ + 1 ELSE @]]

Opened(s) ==
  /\ thread[s].at = "open"
  /\ thread' = [thread EXCEPT ![s].at = "opened", ![s].device = TRUE]
  /\ Store(s, Published(slots[s], "AwaitingFirstFrame"))
  /\ Returned(s)
  /\ UNCHANGED leases

OpenFailed(s) ==
  /\ thread[s].at = "open"
  /\ To(s, "backoff")
  /\ Store(s, [slots[s] EXCEPT !.last_error = TRUE, !.format = None])
  /\ Returned(s)
  /\ UNCHANGED leases

OpenPanicked(s) ==
  /\ thread[s].at = "open"
  /\ IF thread[s].stop THEN Ends(s)
     ELSE /\ To(s, "ended")
          /\ Store(s, [slots[s] EXCEPT !.last_error = TRUE])
          /\ leases' = leases \ {thread[s].id}
          /\ Returned(s)

StoreFormat(s) ==
  /\ thread[s].at = "opened"
  /\ To(s, "inner")
  /\ \E fps \in Rates : Store(s, [slots[s] EXCEPT !.format = fps])
  /\ UNCHANGED <<leases, seen>>

BeginRead(s) ==
  /\ thread[s].at = "inner"
  /\ To(s, IF thread[s].stop THEN "close" ELSE "read")
  /\ UNCHANGED <<slots, leases, seen>>

\* Mutant: the error is cleared before the frame is stored.
ReadFrameClears(s) ==
  /\ thread[s].at = "read"
  /\ thread' = [thread EXCEPT ![s].at = "gotFrame", ![s].streak = 0]
  /\ Store(s, [Published(slots[s], "Streaming") EXCEPT !.last_error = FALSE])
  /\ Returned(s)
  /\ UNCHANGED leases

ReadFrame(s) ==
  /\ thread[s].at = "read"
  /\ thread' = [thread EXCEPT ![s].at = "gotFrame", ![s].streak = 0]
  /\ Store(s, Published(slots[s], "Streaming"))
  /\ Returned(s)
  /\ UNCHANGED leases

ReadNone(s) ==
  /\ thread[s].at = "read"
  /\ thread' = [thread EXCEPT ![s].at = "gotNone", ![s].streak = 0]
  /\ Returned(s)
  /\ UNCHANGED <<slots, leases>>

\* The third failed read in a row gives the session up, as a panic does.
ReadFailed(s) ==
  /\ thread[s].at = "read"
  /\ \E gives_up \in BOOLEAN :
       /\ thread[s].streak = 2 => gives_up
       /\ thread' = [thread EXCEPT ![s].at = IF gives_up THEN "close" ELSE "rest",
                                   ![s].streak = IF gives_up THEN 0 ELSE @ + 1]
  /\ Store(s, [slots[s] EXCEPT !.last_error = TRUE])
  /\ Returned(s)
  /\ UNCHANGED leases

\* The frame is stored before the error it ends is cleared.
StoreLatest(s) ==
  /\ thread[s].at \in {"gotFrame", "gotNone"}
  /\ To(s, "clear")
  /\ Store(s, [slots[s] EXCEPT !.latest =
                 IF thread[s].at = "gotFrame" THEN "current" ELSE "none"])
  /\ seen' = [seen EXCEPT ![s].stale = FALSE]
  /\ UNCHANGED leases

ClearError(s) ==
  /\ thread[s].at = "clear"
  /\ To(s, "inner")
  /\ Store(s, [slots[s] EXCEPT !.last_error = FALSE])
  /\ UNCHANGED <<leases, seen>>

\* sleep_until_retry between two failed reads.
Rest(s) ==
  /\ thread[s].at = "rest"
  /\ IF thread[s].stop THEN Ends(s) ELSE To(s, "inner") /\ UNCHANGED <<slots, leases, seen>>

CloseSession(s) ==
  /\ thread[s].at = "close"
  /\ To(s, "backoff")
  /\ Store(s, [slots[s] EXCEPT !.format = None])
  /\ UNCHANGED <<leases, seen>>

\* sleep_until_retry before the next open; the device of the last session is
\* dropped with the loop body, after the sleep.
Backoff(s) ==
  /\ thread[s].at = "backoff"
  /\ IF thread[s].stop THEN Ends(s)
     ELSE /\ thread' = [thread EXCEPT ![s].at = "outer", ![s].device = FALSE]
          /\ Store(s, Over(slots[s]))
          /\ UNCHANGED <<leases, seen>>

CallReturns(s) == \/ Opened(s) \/ OpenFailed(s) \/ OpenPanicked(s)
                  \/ ReadFrame(s) \/ ReadNone(s) \/ ReadFailed(s)

\* The steps of a worker between its backend calls.
Works(s) == \/ WaitForLease(s) \/ BeginOpen(s) \/ StoreFormat(s) \/ BeginRead(s)
            \/ StoreLatest(s) \/ ClearError(s) \/ Rest(s) \/ CloseSession(s) \/ Backoff(s)

WorkerStep == \E s \in Sources : Works(s) \/ CallReturns(s)

\* Time passes; nobody reads the clock of a dropped source.
Tick ==
  LET read(s) == thread[s].at # "unborn" /\ ~thread[s].stop
  IN /\ slots' = [s \in Sources |->
                    [slots[s] EXCEPT !.age = IF read(s) THEN Older(@) ELSE @]]
     /\ seen' = [s \in Sources |->
                   [seen[s] EXCEPT !.call =
                      IF thread[s].at \in Calls /\ read(s) THEN Older(@) ELSE 0]]
     /\ UNCHANGED <<thread, leases>>

----------------------------------------------------------------------------
(* What the reader of the slots concludes *)

OpenStalled(phase, elapsed) == phase # "Streaming" /\ elapsed >= OpenTimeout
FrameStalled(phase, gap, fps) == phase = "Streaming" /\ gap >= FrameGapTimeout(fps)

\* Mutant: the stall of the replaced source is forgotten.
PreFrameElapsedAlone(v) == v.age

\* A lease wait adds the stall inherited from the worker that holds the lease.
PreFrameElapsed(v) == IF v.phase = "AwaitingLease" THEN Capped(v.age + v.inherited) ELSE v.age

FrameStallAge(v) ==
  IF v.format # None /\ ~v.last_error /\ FrameStalled(v.phase, v.age, v.format) THEN v.age ELSE 0

StallAge(v) ==
  IF OpenStalled(v.phase, PreFrameElapsed(v)) THEN PreFrameElapsed(v) ELSE FrameStallAge(v)

\* Drop of a source: the worker is asked to stop and joined by a thread nobody
\* waits for.
Dropped(t) == IF t.at = "ended" THEN Unborn ELSE [t EXCEPT !.stop = TRUE]

\* Drop of the sources in `gone`; reopen_id_with_target for the locators of `new`, a function
\* from the new sources to their locator, the stall they inherit and the worker
\* they replace.
DropAndSpawn(gone, new) ==
  /\ thread' = [s \in Sources |->
       IF s \in DOMAIN new THEN [Unborn EXCEPT !.at = "lease", !.id = new[s].id]
       ELSE IF s \in gone THEN Dropped(thread[s]) ELSE thread[s]]
  /\ slots' = [s \in Sources |->
       IF s \in DOMAIN new THEN [NewSlots EXCEPT !.inherited = new[s].stall]
       ELSE IF s \in gone THEN NewSlots ELSE slots[s]]
  /\ seen' = [s \in Sources |->
       IF s \in DOMAIN new THEN [Unseen EXCEPT !.follows = new[s].follows]
       ELSE IF s \in gone THEN Unseen ELSE seen[s]]

\* The worker has been inside one backend call for longer than any deadline allows.
Overdue(s) ==
  /\ thread[s].at \in Calls
  /\ seen[s].call >= IF slots[s].phase = "Streaming" THEN FrameGapTimeout(slots[s].format)
                                                     ELSE OpenTimeout

ThreadType == [at : Threads, id : Locators \cup {None}, stop : BOOLEAN, streak : 0..2,
               device : BOOLEAN]
SlotsType == [phase : Phases, age : 0..MaxAge, last_error : BOOLEAN,
              format : Rates \cup {None}, latest : {"none", "current", "old"},
              inherited : 0..MaxAge]
SeenType == [call : 0..MaxAge, parked : BOOLEAN, stale : BOOLEAN, late : 0..2,
             follows : Sources \cup {None}]

WorkerTypeOK ==
  /\ thread \in [Sources -> ThreadType]
  /\ slots \in [Sources -> SlotsType]
  /\ leases \subseteq Locators
  /\ seen \in [Sources -> SeenType]
=============================================================================
