----------------------------- MODULE AtomicFile -----------------------------
(***************************************************************************)
(* atomic_file.rs: one file replaced by way of a temporary beside it.      *)
(*                                                                         *)
(* Two threads of the app replace files: the UI thread (preferences, scene *)
(* export) and the background file worker (frame and diagnostics export).  *)
(* The model lets both name the same file, where their temporaries meet.   *)
(* The process may be killed between two steps, and power may be lost: the *)
(* cache then gives back what was synced, and a rename that was not may or *)
(* may not have happened.                                                  *)
(***************************************************************************)
EXTENDS Integers, FiniteSets

CONSTANTS
  Threads,   \* the threads that replace the file
  Pids,      \* bound: process ids; one may come back
  Attempts,  \* RESERVATION_ATTEMPTS
  MaxJobs    \* bound: replacements ever begun

ASSUME AttemptsAssumption == Attempts \in Nat \ {0}
ASSUME MaxJobsAssumption == MaxJobs \in Nat

VARIABLES
  pid,       \* the process that runs
  jobs,      \* replacements begun so far: the last one's number
  file,      \* what the path shows
  durable,   \* what it shows after a loss of power, unless file does
  temporary, \* the temporaries in the directory, by name
  at,        \* the step of each thread
  job,       \* the replacement each thread is at
  name,      \* the temporary it has reserved
  replaced   \* history: the replacements whose rename was done

disk == <<file, durable, temporary>>
writers == <<at, job, name>>
fileVars == <<pid, jobs, disk, writers, replaced>>

Names == Pids \X (0 .. Attempts - 1)
Payload == [job : 0 .. MaxJobs, full : BOOLEAN, synced : BOOLEAN]
Nothing == [job |-> -1, full |-> FALSE, synced |-> FALSE]
NoName == <<>>
Steps == {"idle", "encode", "reserve", "write", "sync", "decide", "rename",
          "sync_directory", "ok", "cancelled", "error"}

FileTypeOK ==
  /\ pid \in Pids
  /\ jobs \in 0 .. MaxJobs
  /\ file \in Payload /\ durable \in Payload
  /\ temporary \in [Names -> Payload \cup {Nothing}]
  /\ at \in [Threads -> Steps]
  /\ job \in [Threads -> 0 .. MaxJobs]
  /\ name \in [Threads -> Names \cup {NoName}]
  /\ replaced \in SUBSET (1 .. MaxJobs)

FileInit ==
  /\ pid \in Pids
  /\ jobs = 0
  /\ file = [job |-> 0, full |-> TRUE, synced |-> TRUE]
  /\ durable = file
  /\ temporary = [n \in Names |-> Nothing]
  /\ at = [t \in Threads |-> "idle"]
  /\ job = [t \in Threads |-> 0]
  /\ name = [t \in Threads |-> NoName]
  /\ replaced = {}

Goto(t, step) == at' = [at EXCEPT ![t] = step]

(* A thread begins a replacement, at its encoding or at once. *)
Begin(t, step) ==
  /\ at[t] = "idle" /\ jobs < MaxJobs
  /\ jobs' = jobs + 1
  /\ job' = [job EXCEPT ![t] = jobs + 1]
  /\ Goto(t, step)

Removed(t) == [temporary EXCEPT ![name[t]] = Nothing]

(* Any call may fail; what was reserved is removed first. *)
Fails(t, steps) ==
  /\ at[t] \in steps
  /\ temporary' = IF name[t] = NoName THEN temporary ELSE Removed(t)
  /\ name' = [name EXCEPT ![t] = NoName]
  /\ Goto(t, "error")
  /\ UNCHANGED <<pid, jobs, job, file, durable, replaced>>

(* Mutant: create instead of create_new, which empties what is there. *)
(* The first name of this process that nobody has is created, exclusively. *)
Reserve(t) ==
  LET free == {a \in 0 .. Attempts - 1 : temporary[<<pid, a>>] = Nothing}
  IN  /\ at[t] = "reserve"
      /\ \/ free = {} /\ Goto(t, "error") /\ UNCHANGED <<temporary, name>>
         \/ \E a \in free :
              /\ \A b \in free : a <= b
              /\ temporary' =
                   [temporary EXCEPT ![<<pid, a>>] =
                      [job |-> job[t], full |-> FALSE, synced |-> FALSE]]
              /\ name' = [name EXCEPT ![t] = <<pid, a>>]
              /\ Goto(t, "write")
      /\ UNCHANGED <<pid, jobs, job, file, durable, replaced>>

WriteAll(t) ==
  /\ at[t] = "write"
  /\ temporary' = [temporary EXCEPT ![name[t]].job = job[t], ![name[t]].full = TRUE]
  /\ Goto(t, "sync")
  /\ UNCHANGED <<pid, jobs, job, name, file, durable, replaced>>

SyncAll(t) ==
  /\ at[t] = "sync"
  /\ temporary' = [temporary EXCEPT ![name[t]].synced = TRUE]
  /\ Goto(t, "decide")
  /\ UNCHANGED <<pid, jobs, job, name, file, durable, replaced>>

(* should_commit() said yes or no. *)
Decide(t, commit) ==
  /\ at[t] = "decide"
  /\ IF commit
       THEN Goto(t, "rename") /\ UNCHANGED <<temporary, name>>
       ELSE /\ temporary' = Removed(t)
            /\ name' = [name EXCEPT ![t] = NoName]
            /\ Goto(t, "cancelled")
  /\ UNCHANGED <<pid, jobs, job, file, durable, replaced>>

Rename(t) ==
  /\ at[t] = "rename"
  /\ file' = temporary[name[t]]
  /\ temporary' = Removed(t)
  /\ name' = [name EXCEPT ![t] = NoName]
  /\ replaced' = replaced \cup {job[t]}
  /\ Goto(t, "sync_directory")
  /\ UNCHANGED <<pid, jobs, job, durable>>

(* Mutant: success is reported without the sync of the directory. *)
SyncDirectoryNot(t) ==
  /\ at[t] = "sync_directory"
  /\ Goto(t, "ok")
  /\ UNCHANGED <<pid, jobs, job, name, disk, replaced>>

SyncDirectory(t) ==
  /\ at[t] = "sync_directory"
  /\ durable' = file
  /\ Goto(t, "ok")
  /\ UNCHANGED <<pid, jobs, job, name, file, temporary, replaced>>

(* One step of the replacement; the decision is the caller's. *)
Replace(t) ==
  \/ Reserve(t) \/ WriteAll(t) \/ SyncAll(t) \/ Rename(t) \/ SyncDirectory(t)
  \/ Fails(t, {"reserve", "write", "sync", "rename", "sync_directory"})

Dead == /\ at' = [t \in Threads |-> "idle"]
        /\ name' = [t \in Threads |-> NoName]
        /\ pid' \in Pids
        /\ UNCHANGED <<jobs, job, replaced>>

(* The process ends between two steps and another starts. *)
Killed == Dead /\ UNCHANGED disk

(* What a loss of power leaves of a payload. *)
Kept(p) == IF p.synced THEN p ELSE [p EXCEPT !.full = FALSE]

PowerLost ==
  /\ Dead
  /\ \E f \in {file, durable} : file' = Kept(f) /\ durable' = Kept(f)
  /\ temporary' = [n \in Names |-> IF temporary[n] = Nothing THEN Nothing
                                   ELSE Kept(temporary[n])]

-----------------------------------------------------------------------------
(* Whatever step a process is killed at, and with two threads replacing the  *)
(* same file, the path shows one complete payload, also after a loss of power *)
(* (atomic_file.rs: "until the rename succeeds, any previous readable file    *)
(* remains untouched").                                                       *)
NeverTorn == file.full

(* No temporary has two owners, so that nobody renames another's half-written *)
(* payload, whatever a killed process with the same id has left behind.       *)
OneOwner ==
  \A t, u \in Threads : t # u /\ name[t] # NoName => name[t] # name[u]

-----------------------------------------------------------------------------
(* The inductive invariant behind them. *)

Reserved == {"write", "sync", "decide", "rename"}

(* A thread has a temporary from its creation to its rename or removal, it *)
(* holds the payload of the thread's replacement, complete once written    *)
(* and on disk once synced.                                                *)
TemporaryOwned ==
  \A t \in Threads :
    /\ name[t] # NoName <=> at[t] \in Reserved
    /\ at[t] \in Reserved => temporary[name[t]].job = job[t]
    /\ at[t] \in {"sync", "decide", "rename"} => temporary[name[t]].full
    /\ at[t] \in {"decide", "rename"} => temporary[name[t]].synced

(* Only complete, synced payloads are renamed. *)
PathWhole == /\ file.full /\ file.synced
             /\ durable.full /\ durable.synced

(* Replacements are numbered apart; a thread's own has been done from the  *)
(* rename on and not before.                                               *)
JobsNumbered ==
  /\ replaced \subseteq 1 .. jobs
  /\ \A t \in Threads : at[t] # "idle" => job[t] \in 1 .. jobs
  /\ \A t, u \in Threads :
       t # u /\ at[t] # "idle" /\ at[u] # "idle" => job[t] # job[u]
  /\ \A t \in Threads :
       /\ at[t] \in Reserved \cup {"encode", "reserve", "cancelled"} =>
            job[t] \notin replaced
       /\ at[t] \in {"sync_directory", "ok"} => job[t] \in replaced

FileOrder == TemporaryOwned /\ OneOwner /\ PathWhole /\ JobsNumbered
=============================================================================
