---------------------------- MODULE StreamSource ----------------------------
(***************************************************************************)
(* The start and stop callbacks of the extension's StreamSource            *)
(* (extension/objects.rs) over StreamLifecycle (stream_runtime.rs), and    *)
(* the stream_samples threads they spawn and join (extension/mod.rs).      *)
(*                                                                         *)
(* A callback holds the lifecycle mutex for the whole of start_streaming,  *)
(* but stop_streaming lets it go between begin_stop and finish_stop.  The  *)
(* run flag and the worker handle are outside that mutex.  The framework   *)
(* runs the callbacks on a queue of its own (clientQueue: nil), and        *)
(* nothing in the extension keeps them apart: any number may overlap.      *)
(*                                                                         *)
(* Here is one step for every access to the run flag and to the handle;    *)
(* what happens under the lifecycle mutex alone is one step.  Not here:    *)
(* frames, the client authorization callback, and a start without an       *)
(* attached stream, which set_stream's order rules out: the state Faulted  *)
(* is unreachable.                                                         *)
(*                                                                         *)
(* A definition under a comment "Mutant" is not part of the model: it is   *)
(* the definition after it with a plausible bug, which a run must detect.  *)
(***************************************************************************)
EXTENDS Naturals

CONSTANTS
  Callbacks,   \* callbacks that may be under way at once
  Nobody,      \* no callback
  Workers,     \* threads; a finished one that is forgotten may be reused
  NoWorker,
  MayEnd,      \* TRUE: a worker may end by itself (no stream, no pool, panic)
  MayPanic     \* TRUE: a callback may panic (stderr gone, thread not spawned)

ASSUME CallbacksAssumption == Nobody \notin Callbacks
ASSUME WorkersAssumption == NoWorker \notin Workers
ASSUME SwitchesAssumption == MayEnd \in BOOLEAN /\ MayPanic \in BOOLEAN

VARIABLES
  state,       \* StreamLifecycle.state
  mutex,       \* the callback that holds the lifecycle mutex
  streaming,   \* the run flag
  handle,      \* the worker whose JoinHandle is in the ivar
  worker,      \* what each thread is doing
  pc,          \* where each callback is
  joining,     \* the worker each callback has taken the handle of
  overtaken    \* history: since a worker was last kept, a stop found when it
               \* was done that a start had come in between

vars == <<state, mutex, streaming, handle, worker, pc, joining, overtaken>>

States == {"Detached", "Ready", "Starting", "Running", "Stopping"}
Points == {"idle", "reap", "begin", "take", "join", "arm", "spawn", "keep",
           "finish", "disarm", "takeStop", "joinStop", "finishStop", "repair"}

Init ==
  /\ state = "Detached" /\ mutex = Nobody
  /\ streaming = FALSE /\ handle = NoWorker
  /\ worker = [w \in Workers |-> "ended"]
  /\ pc = [c \in Callbacks |-> "idle"]
  /\ joining = [c \in Callbacks |-> NoWorker]
  /\ overtaken = FALSE

(* JoinHandle::is_finished *)
Ended(w) == worker[w] = "ended"
HandleEnded == handle # NoWorker /\ Ended(handle)

Goto(c, from, to) == pc[c] = from /\ pc' = [pc EXCEPT ![c] = to]
Acquire(c) == mutex = Nobody /\ mutex' = c
Leave(c) == mutex = c /\ mutex' = Nobody

(* set_stream, before the service starts. *)
Attach ==
  /\ state = "Detached" /\ mutex = Nobody
  /\ state' = "Ready"
  /\ UNCHANGED <<mutex, streaming, handle, worker, pc, joining, overtaken>>

-----------------------------------------------------------------------------
(* StreamLifecycle::force_ready *)
ForceReady(from) == IF from = "Detached" THEN from ELSE "Ready"

(* reset_after_contained_panic *)
ResetAfterContainedPanic ==
  /\ streaming' = FALSE
  /\ state' = ForceReady(state)

-----------------------------------------------------------------------------
(* start_streaming *)

EnterStart(c) ==
  /\ Goto(c, "idle", "reap")
  /\ Acquire(c)
  /\ UNCHANGED <<state, streaming, handle, worker, joining, overtaken>>

(* begin_start, under the mutex: what it answers in each state. *)
BeginStart(c, from) ==
  \/ /\ from = "Ready"
     /\ state' = "Starting" /\ pc' = [pc EXCEPT ![c] = "take"]
     /\ UNCHANGED mutex
  \/ /\ from # "Ready"    \* AlreadyRunning, or an error
     /\ state' = from /\ pc' = [pc EXCEPT ![c] = "idle"]
     /\ Leave(c)

(* Mutant: a worker that ended by itself is not reaped. *)
ReapFinishedNever(c) ==
  /\ Goto(c, "reap", "begin")
  /\ UNCHANGED <<state, mutex, streaming, handle, worker, joining, overtaken>>

(* reap_finished_worker: take_if(is_finished), then a join that returns.   *)
ReapFinished(c) ==
  /\ pc[c] = "reap"
  /\ \/ /\ HandleEnded
        /\ joining' = [joining EXCEPT ![c] = handle]
        /\ handle' = NoWorker
     \/ /\ ~HandleEnded
        /\ UNCHANGED <<joining, handle>>
  /\ pc' = [pc EXCEPT ![c] = "begin"]
  /\ UNCHANGED <<state, mutex, streaming, worker, overtaken>>

(* begin_start_reaping_finished_worker: after a reap the flag is cleared   *)
(* and the state forced to Ready first.                                    *)
ReapThenBegin(c) ==
  /\ pc[c] = "begin"
  /\ \/ /\ joining[c] # NoWorker
        /\ streaming' = FALSE
        /\ BeginStart(c, ForceReady(state))
     \/ /\ joining[c] = NoWorker
        /\ BeginStart(c, state)
        /\ UNCHANGED streaming
  /\ joining' = [joining EXCEPT ![c] = NoWorker]
  /\ UNCHANGED <<handle, worker, overtaken>>

(* Mutant: the previous worker is forgotten instead of joined. *)
TakePreviousNot(c) ==
  /\ Goto(c, "take", "arm")
  /\ handle' = NoWorker
  /\ UNCHANGED <<state, mutex, streaming, worker, joining, overtaken>>

TakePrevious(c) ==
  /\ Goto(c, "take", IF handle = NoWorker THEN "arm" ELSE "join")
  /\ joining' = [joining EXCEPT ![c] = handle]
  /\ handle' = NoWorker
  /\ UNCHANGED <<state, mutex, streaming, worker, overtaken>>

JoinPrevious(c) ==
  /\ Goto(c, "join", "arm")
  /\ Ended(joining[c])
  /\ joining' = [joining EXCEPT ![c] = NoWorker]
  /\ UNCHANGED <<state, mutex, streaming, handle, worker, overtaken>>

Arm(c) ==
  /\ Goto(c, "arm", "spawn")
  /\ streaming' = TRUE
  /\ UNCHANGED <<state, mutex, handle, worker, joining, overtaken>>

(* Forgotten: no handle to the thread is left anywhere. *)
Forgotten(w) ==
  Ended(w) /\ handle # w /\ \A c \in Callbacks : joining[c] # w

Spawn(c) ==
  /\ Goto(c, "spawn", "keep")
  /\ \E w \in Workers :
       /\ Forgotten(w)
       /\ worker' = [worker EXCEPT ![w] = "running"]
       /\ joining' = [joining EXCEPT ![c] = w]
  /\ UNCHANGED <<state, mutex, streaming, handle, overtaken>>

KeepHandle(c) ==
  /\ Goto(c, "keep", "finish")
  /\ handle' = joining[c]
  /\ joining' = [joining EXCEPT ![c] = NoWorker]
  /\ overtaken' = FALSE
  /\ UNCHANGED <<state, mutex, streaming, worker>>

FinishStart(c) ==
  /\ Goto(c, "finish", "idle")
  /\ Leave(c)
  /\ state' = IF state = "Starting" THEN "Running" ELSE state
  /\ UNCHANGED <<streaming, handle, worker, joining, overtaken>>

-----------------------------------------------------------------------------
(* stop_streaming *)

BeginStop(c) ==
  /\ pc[c] = "idle" /\ mutex = Nobody
  /\ state = "Running"     \* otherwise there is nothing to stop, or an error
  /\ state' = "Stopping"
  /\ pc' = [pc EXCEPT ![c] = "disarm"]
  /\ UNCHANGED <<mutex, streaming, handle, worker, joining, overtaken>>

(* Mutant: the worker is joined without being told to end. *)
DisarmNot(c) ==
  /\ Goto(c, "disarm", "takeStop")
  /\ UNCHANGED <<state, mutex, streaming, handle, worker, joining, overtaken>>

Disarm(c) ==
  /\ Goto(c, "disarm", "takeStop")
  /\ streaming' = FALSE
  /\ UNCHANGED <<state, mutex, handle, worker, joining, overtaken>>

(* Mutant: the handle is dropped, and its worker not joined. *)
TakeForStopNot(c) ==
  /\ Goto(c, "takeStop", "finishStop")
  /\ handle' = NoWorker
  /\ UNCHANGED <<state, mutex, streaming, worker, joining, overtaken>>

TakeForStop(c) ==
  /\ Goto(c, "takeStop", IF handle = NoWorker THEN "finishStop" ELSE "joinStop")
  /\ joining' = [joining EXCEPT ![c] = handle]
  /\ handle' = NoWorker
  /\ UNCHANGED <<state, mutex, streaming, worker, overtaken>>

JoinForStop(c) ==
  /\ Goto(c, "joinStop", "finishStop")
  /\ Ended(joining[c])
  /\ joining' = [joining EXCEPT ![c] = NoWorker]
  /\ UNCHANGED <<state, mutex, streaming, handle, worker, overtaken>>

(* finish_stop answers an error in every state but Stopping. *)
FinishStop(c) ==
  /\ Goto(c, "finishStop", "idle")
  /\ mutex = Nobody
  /\ state' = IF state = "Stopping" THEN "Ready" ELSE state
  /\ overtaken' = (overtaken \/ state # "Stopping")
  /\ UNCHANGED <<mutex, streaming, handle, worker, joining>>

-----------------------------------------------------------------------------
(* A contained panic.  A line cannot be reported, before anything else or  *)
(* after a join, or the thread cannot be spawned; unwinding releases the   *)
(* mutex (which is poisoned, and used all the same) and drops the handle.  *)
Panic(c) ==
  /\ MayPanic
  /\ \/ pc[c] = "idle" /\ UNCHANGED mutex
     \/ pc[c] = "begin" /\ joining[c] # NoWorker /\ Leave(c)
     \/ pc[c] = "join" /\ Ended(joining[c]) /\ Leave(c)
     \/ pc[c] = "spawn" /\ Leave(c)
     \/ pc[c] = "joinStop" /\ Ended(joining[c]) /\ UNCHANGED mutex
  /\ pc' = [pc EXCEPT ![c] = "repair"]
  /\ joining' = [joining EXCEPT ![c] = NoWorker]
  /\ UNCHANGED <<state, streaming, handle, worker, overtaken>>

(* The line that reports a reap comes after begin_start. *)
PanicAfterReap(c) ==
  /\ MayPanic
  /\ Goto(c, "begin", "repair")
  /\ joining[c] # NoWorker
  /\ streaming' = FALSE
  /\ state' = "Starting"
  /\ Leave(c)
  /\ joining' = [joining EXCEPT ![c] = NoWorker]
  /\ UNCHANGED <<handle, worker, overtaken>>

(* repair_after_panic: the reset, under the mutex. *)
Repair(c) ==
  /\ Goto(c, "repair", "idle")
  /\ mutex = Nobody
  /\ ResetAfterContainedPanic
  /\ UNCHANGED <<mutex, handle, worker, joining, overtaken>>

-----------------------------------------------------------------------------
(* stream_samples: the flag is looked at before each sample; however the   *)
(* thread ends, StreamingExit clears the flag on the way out.              *)

SeeFlagCleared(w) ==
  /\ worker[w] = "running" /\ ~streaming
  /\ worker' = [worker EXCEPT ![w] = "exiting"]
  /\ UNCHANGED <<state, mutex, streaming, handle, pc, joining, overtaken>>

EndByItself(w) ==
  /\ MayEnd
  /\ worker[w] = "running"
  /\ worker' = [worker EXCEPT ![w] = "exiting"]
  /\ UNCHANGED <<state, mutex, streaming, handle, pc, joining, overtaken>>

ClearOnExit(w) ==
  /\ worker[w] = "exiting"
  /\ streaming' = FALSE
  /\ worker' = [worker EXCEPT ![w] = "cleared"]
  /\ UNCHANGED <<state, mutex, handle, pc, joining, overtaken>>

End(w) ==
  /\ worker[w] = "cleared"
  /\ worker' = [worker EXCEPT ![w] = "ended"]
  /\ UNCHANGED <<state, mutex, streaming, handle, pc, joining, overtaken>>

-----------------------------------------------------------------------------
StartOn(c) ==
  \/ ReapFinished(c) \/ ReapThenBegin(c) \/ TakePrevious(c) \/ JoinPrevious(c)
  \/ Arm(c) \/ Spawn(c) \/ KeepHandle(c) \/ FinishStart(c)

StopOn(c) ==
  \/ Disarm(c) \/ TakeForStop(c) \/ JoinForStop(c) \/ FinishStop(c)

Run(w) == SeeFlagCleared(w) \/ ClearOnExit(w) \/ End(w)

Next ==
  \/ Attach
  \/ \E c \in Callbacks :
       EnterStart(c) \/ StartOn(c) \/ BeginStop(c) \/ StopOn(c)
         \/ Panic(c) \/ PanicAfterReap(c) \/ Repair(c)
  \/ \E w \in Workers : Run(w) \/ EndByItself(w)

Spec == Init /\ [][Next]_vars

-----------------------------------------------------------------------------
(* The lifecycle, the mutex, the threads and the callbacks' positions.     *)
TypeOK ==
  /\ state \in States
  /\ mutex \in Callbacks \cup {Nobody}
  /\ streaming \in BOOLEAN
  /\ handle \in Workers \cup {NoWorker}
  /\ worker \in [Workers -> {"running", "exiting", "cleared", "ended"}]
  /\ pc \in [Callbacks -> Points]
  /\ joining \in [Callbacks -> Workers \cup {NoWorker}]
  /\ overtaken \in BOOLEAN

(* However callbacks overlap, of two threads that may send samples at once *)
(* a stop under way is waiting for one.  (The code's comment promises more: *)
(* "can never leave two threads calling sendSampleBuffer".  Callbacks that *)
(* overlap break that, for a while.)                                       *)
SecondSenderIsJoined ==
  \A v, w \in Workers :
    worker[v] = "running" /\ worker[w] = "running" /\ v # w =>
      \E c \in Callbacks : pc[c] = "joinStop" /\ joining[c] \in {v, w}

(* With no callback under way, where start would answer AlreadyRunning it  *)
(* still holds the handle by which it can find out that the worker is gone *)
(* and reap it: the stream is wedged, until the client stops it, only if a *)
(* start overtook a stop and the stop has answered an error.               *)
NeverWedged ==
  (\A c \in Callbacks : pc[c] = "idle") /\ state = "Running" =>
    handle # NoWorker \/ overtaken

(* A contained panic does not strand the stream in Starting or Stopping,   *)
(* where start spawns nothing and stop refuses: with no callback under way *)
(* the state is one from which start or stop leads on.                     *)
NotStranded ==
  (\A c \in Callbacks : pc[c] = "idle") =>
    state \in {"Detached", "Ready", "Running"}

(* What the lifecycle state, the flag, the handle and the threads are to   *)
(* each other, however callbacks overlap and whatever a callback, a panic  *)
(* or the end of a worker has left behind.                                 *)
SourceInv == TypeOK /\ SecondSenderIsJoined /\ NeverWedged /\ NotStranded

(* A stop that is still to take this worker's handle, or to join it. *)
Joins(c, w) ==
  \/ pc[c] \in {"disarm", "takeStop"} /\ handle = w
  \/ pc[c] = "joinStop" /\ joining[c] = w

(* When a stop has done and answers Ok, no thread of the stream is left    *)
(* that could send one more sample, whatever panicked or ended before it:  *)
(* none but one that another stop under way is still going to join.        *)
StoppedIsSilent ==
  [][\A c \in Callbacks :
       pc[c] = "finishStop" /\ pc'[c] = "idle" /\ state = "Stopping" =>
         \A w \in Workers :
           ~Ended(w) => \E d \in Callbacks \ {c} : Joins(d, w)]_vars

StartingAt == {"take", "join", "arm", "spawn", "keep", "finish"}
StoppingAt == {"disarm", "takeStop", "joinStop", "finishStop"}

(* A start that comes after the worker ended by itself, while the state    *)
(* says Running and no stop is under way, brings a worker back (or panics  *)
(* and is repaired).                                                       *)
RestartRevives ==
  \A c \in Callbacks :
    /\ pc[c] = "reap" /\ state = "Running" /\ HandleEnded
    /\ \A d \in Callbacks : pc[d] \notin StoppingAt
    ~> pc[c] = "repair" \/ \E w \in Workers : worker[w] = "running"

(* A stop that no start overtakes comes back: it never waits for a worker  *)
(* nobody has told to end.  (One that a start has overtaken joins the new  *)
(* worker, and waits until the client stops the stream again.)             *)
StopReturns ==
  \A c \in Callbacks :
    pc[c] = "joinStop" ~> pc[c] # "joinStop" \/ state \in {"Starting", "Running"}

-----------------------------------------------------------------------------
(* The inductive invariant behind it. *)

(* Who holds the lifecycle mutex. *)
HolderAt == StartingAt \cup {"reap", "begin"}
MutexIsHeld == \A c \in Callbacks : pc[c] \in HolderAt <=> mutex = c

(* A thread that has not ended can be joined: its handle is in the ivar or *)
(* with one callback that waits for it or has just spawned it.             *)
WorkersAreKnown ==
  /\ \A w \in Workers :
       ~Ended(w) => handle = w \/ \E c \in Callbacks : joining[c] = w
  /\ \A c \in Callbacks :
       /\ joining[c] # NoWorker => pc[c] \in {"begin", "join", "keep", "joinStop"}
       /\ pc[c] = "begin" /\ joining[c] # NoWorker =>
            Ended(joining[c]) /\ handle = NoWorker
       /\ pc[c] \in {"join", "keep", "joinStop"} => joining[c] # NoWorker
       /\ pc[c] \in {"join", "arm", "spawn", "keep"} => handle = NoWorker

(* A callback that starts the stream is under way exactly while the state  *)
(* says so, or is to be repaired; a stop is one of those in state Stopping *)
(* and has still to join what runs.  A reap, a stop or a repair accounts   *)
(* for a running state without a worker.                                   *)
Settling(c) ==
  \/ pc[c] \in {"joinStop", "finishStop", "repair"}
  \/ pc[c] = "begin" /\ joining[c] # NoWorker
StateIsLeft ==
  /\ \A c \in Callbacks : pc[c] \in StartingAt => state = "Starting"
  /\ state = "Starting" => \E c \in Callbacks : pc[c] \in StartingAt \cup {"repair"}
  /\ state = "Stopping" => \E c \in Callbacks : pc[c] \in StoppingAt \cup {"repair"}
  /\ state = "Running" \/ (\E c \in Callbacks : pc[c] = "finish") =>
       handle # NoWorker \/ overtaken \/ \E c \in Callbacks : Settling(c)
  /\ state = "Stopping" =>
       \A w \in Workers : ~Ended(w) => \E c \in Callbacks : Joins(c, w)

SourceOrder == TypeOK /\ MutexIsHeld /\ WorkersAreKnown /\ StateIsLeft
=============================================================================
