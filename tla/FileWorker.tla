----------------------------- MODULE FileWorker -----------------------------
(***************************************************************************)
(* app/io_worker.rs: one background file operation at a time, which the    *)
(* user may cancel until it commits, and the UI thread that starts it,     *)
(* cancels it, polls its result and replaces files of its own              *)
(* (app_preferences.rs store, app/scenes.rs export_current_scene).         *)
(***************************************************************************)
EXTENDS AtomicFile

CONSTANTS UI, IO   \* the two threads

ASSUME ThreadsAssumption == Threads = {UI, IO} /\ UI # IO

VARIABLES
  active,    \* the operation IoWorker.active stands for, or 0
  state,     \* its AtomicU8
  channel,   \* the result in the channel of capacity one, or "none"
  outcome,   \* history: what the user was told of each replacement
  cancelled  \* history: the operations whose cancel() returned true

ioVars == <<active, state, channel>>
vars == <<fileVars, ioVars, outcome, cancelled>>

States == {"active", "cancelled", "committing"}
Outcomes == {"Completed", "Cancelled", "Failed"}

TypeOK ==
  /\ FileTypeOK
  /\ active \in 0 .. MaxJobs
  /\ state \in States
  /\ channel \in Outcomes \cup {"none"}
  /\ outcome \in [1 .. MaxJobs -> Outcomes \cup {"none"}]
  /\ cancelled \in SUBSET (1 .. MaxJobs)

Init ==
  /\ FileInit
  /\ active = 0 /\ state = "active" /\ channel = "none"
  /\ outcome = [j \in 1 .. MaxJobs |-> "none"]
  /\ cancelled = {}

-----------------------------------------------------------------------------
(* The UI thread: at work on one thing at a time. *)

Free == at[UI] = "idle"

(* IoWorker::start, for a frame, which is encoded, or diagnostics. *)
Start ==
  /\ Free /\ active = 0
  /\ \E step \in {"encode", "reserve"} : Begin(IO, step)
  /\ active' = jobs + 1 /\ state' = "active" /\ channel' = "none"
  /\ UNCHANGED <<pid, disk, name, replaced, outcome, cancelled>>

(* IoWorker::cancel *)
Cancel ==
  /\ Free /\ active # 0 /\ state = "active"
  /\ state' = "cancelled"
  /\ cancelled' = cancelled \cup {active}
  /\ UNCHANGED <<fileVars, active, channel, outcome>>

(* Mutant: the result of an operation that was cancelled is not taken. *)
PollUnlessCancelled ==
  /\ Free /\ active # 0 /\ channel # "none" /\ state # "cancelled"
  /\ outcome' = [outcome EXCEPT ![active] = channel]
  /\ active' = 0 /\ channel' = "none"
  /\ UNCHANGED <<fileVars, state, cancelled>>

(* IoWorker::poll, and the event poll_file_operation makes of the result. *)
PollFileOperation ==
  /\ Free /\ active # 0 /\ channel # "none"
  /\ outcome' = [outcome EXCEPT ![active] = channel]
  /\ active' = 0 /\ channel' = "none"
  /\ UNCHANGED <<fileVars, state, cancelled>>

(* The UI thread replaces a file itself: preferences, or a scene. *)
Save ==
  /\ Begin(UI, "reserve")
  /\ UNCHANGED <<pid, disk, name, replaced, ioVars, outcome, cancelled>>

Saves ==
  /\ Replace(UI) \/ Decide(UI, TRUE)
  /\ UNCHANGED <<ioVars, outcome, cancelled>>

Saved ==
  /\ at[UI] \in {"ok", "error"}
  /\ outcome' = [outcome EXCEPT
                   ![job[UI]] = IF at[UI] = "ok" THEN "Completed" ELSE "Failed"]
  /\ Goto(UI, "idle")
  /\ UNCHANGED <<pid, jobs, job, name, disk, replaced, ioVars, cancelled>>

-----------------------------------------------------------------------------
(* The worker thread: run_job. *)

(* encode_ppm looks at the state every few chunks. *)
Encode ==
  /\ at[IO] = "encode"
  /\ \/ Goto(IO, "reserve")
     \/ state = "cancelled" /\ Goto(IO, "cancelled")
  /\ UNCHANGED <<pid, jobs, job, name, disk, replaced, ioVars, outcome, cancelled>>

Exports == Replace(IO) /\ UNCHANGED <<ioVars, outcome, cancelled>>

(* Mutant: the commit looks at the state and does not take it. *)
CommitIfSeenActive ==
  /\ Decide(IO, state = "active")
  /\ UNCHANGED <<ioVars, outcome, cancelled>>

(* commit_if_active: the compare-exchange that cancel() races. *)
CommitIfActive ==
  /\ Decide(IO, state = "active")
  /\ state' = IF state = "active" THEN "committing" ELSE state
  /\ UNCHANGED <<active, channel, outcome, cancelled>>

(* What run_job makes of the end of a replacement. *)
OutcomeOf(step) ==
  CASE step = "ok" -> "Completed" [] step = "cancelled" -> "Cancelled"
    [] OTHER -> "Failed"

SendResult ==
  /\ at[IO] \in {"ok", "cancelled", "error"}
  /\ channel' = OutcomeOf(at[IO])
  /\ Goto(IO, "idle")
  /\ UNCHANGED <<pid, jobs, job, name, disk, replaced, active, state, outcome,
                 cancelled>>

(* The next process knows nothing of the operation. *)
Restart ==
  /\ Killed \/ PowerLost
  /\ active' = 0 /\ state' = "active" /\ channel' = "none"
  /\ UNCHANGED <<outcome, cancelled>>

Worker == Encode \/ Exports \/ CommitIfActive \/ SendResult

Next == \/ Start \/ Cancel \/ PollFileOperation \/ Save \/ Saves \/ Saved
        \/ Worker \/ Restart

Spec == Init /\ [][Next]_vars

(* Threads run on; logic polls in every frame, and asks for one while an     *)
(* operation is active.                                                      *)
FairSpec ==
  /\ Spec
  /\ WF_vars(Worker) /\ WF_vars(Saves) /\ WF_vars(Saved)
  /\ WF_vars(PollFileOperation)

-----------------------------------------------------------------------------
(* cancel() and the commit race for one compare-exchange: an operation whose *)
(* cancel() returned true never replaces the file.  What the user is told is *)
(* so: a completed operation has replaced the file, a cancelled one has not. *)
OutcomeIsTrue ==
  /\ cancelled \cap replaced = {}
  /\ \A j \in 1 .. MaxJobs :
       /\ outcome[j] = "Completed" => j \in replaced
       /\ outcome[j] = "Cancelled" => j \notin replaced

(* What atomic_file.rs promises at every step: the path shows one complete   *)
(* payload, no temporary has two owners, whatever is killed, and the outcome *)
(* of an operation agrees with the file.                                     *)
FileInv == TypeOK /\ NeverTorn /\ OneOwner /\ OutcomeIsTrue

(* What the user was told is complete survives a loss of power: the path     *)
(* never goes back from it to an older payload.                              *)
CompletedSurvives ==
  [][file'.job # file.job /\ file'.job \notin replaced' \ replaced
       => file.job = 0 \/ outcome[file.job] # "Completed"]_vars

(* Every operation ends for the user, whatever fails or is cancelled: the    *)
(* next one can be started.                                                  *)
OperationEnds == active # 0 ~> active = 0

-----------------------------------------------------------------------------
(* The inductive invariant behind the outcomes. *)

(* The worker is at the operation that is active, and has passed the       *)
(* compare-exchange once it commits; the UI's own replacement is another.  *)
OperationAccounted ==
  /\ active <= jobs /\ cancelled \subseteq 1 .. jobs
  /\ at[IO] # "idle" => active # 0 /\ job[IO] = active /\ channel = "none"
  /\ channel # "none" => active # 0
  /\ active # 0 => (active \in cancelled <=> state = "cancelled")
  /\ at[IO] \in {"rename", "sync_directory", "ok"} => state = "committing"
  /\ active # 0 /\ state # "committing" => active \notin replaced
  /\ at[UI] # "idle" => job[UI] # active /\ job[UI] \notin cancelled
  /\ at[UI] # "encode"

(* Nobody has been told of a replacement that is still going on; what the  *)
(* channel says is true.                                                   *)
OutcomePending ==
  /\ \A j \in 1 .. MaxJobs : j > jobs => outcome[j] = "none"
  /\ active # 0 => outcome[active] = "none"
  /\ at[UI] # "idle" => outcome[job[UI]] = "none"
  /\ channel = "Completed" => active \in replaced
  /\ channel = "Cancelled" => active \notin replaced

(* What the path would lose to a power failure nobody has been told of.    *)
UnsyncedIsUntold ==
  /\ {file.job, durable.job} \subseteq replaced \cup {0}
  /\ file # durable =>
       /\ file.job \in replaced /\ outcome[file.job] # "Completed"
       /\ channel = "Completed" => active # file.job
       /\ \A t \in Threads : at[t] = "ok" => job[t] # file.job

IInv ==
  /\ TypeOK /\ FileOrder
  /\ OperationAccounted /\ OutcomePending /\ UnsyncedIsUntold /\ OutcomeIsTrue
=============================================================================
