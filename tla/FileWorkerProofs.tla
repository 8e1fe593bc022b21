-------------------------- MODULE FileWorkerProofs --------------------------
(***************************************************************************)
(* Proofs about FileWorker and the AtomicFile it replaces files with, for  *)
(* every number of process ids, reservation attempts and replacements.     *)
(***************************************************************************)
EXTENDS FileWorker, TLAPS

LEMMA FileFacts ==
  /\ NoName \notin Names
  /\ Nothing \notin Payload
  /\ \A p \in Payload : p.job \in 0 .. MaxJobs /\ p.full \in BOOLEAN /\ p.synced \in BOOLEAN
  /\ \A j \in 0 .. MaxJobs, f, s \in BOOLEAN :
       [job |-> j, full |-> f, synced |-> s] \in Payload
  /\ \A a \in 0 .. Attempts - 1, p \in Pids : <<p, a>> \in Names
  /\ MaxJobs \in Nat
  BY MaxJobsAssumption DEF Names, NoName, Nothing, Payload

FailingSteps == {"reserve", "write", "sync", "rename", "sync_directory"}

(* Steps of the callers that a replacement begins and ends with.           *)
Begins(t) ==
  /\ \E step \in {"encode", "reserve"} : Begin(t, step)
  /\ UNCHANGED <<pid, disk, name, replaced>>
Ends(t) ==
  /\ \/ at[t] \in {"ok", "cancelled", "error"} /\ Goto(t, "idle")
     \/ at[t] = "encode" /\ (Goto(t, "reserve") \/ Goto(t, "cancelled"))
  /\ UNCHANGED <<pid, jobs, job, name, disk, replaced>>

LEMMA ReplacementKeepsOrder ==
  ASSUME FileTypeOK, FileOrder, NEW t \in Threads,
         \/ Replace(t) \/ \E commit \in BOOLEAN : Decide(t, commit)
         \/ Begins(t) \/ Ends(t)
  PROVE  FileTypeOK' /\ FileOrder'
<1>0. /\ FileTypeOK /\ TemporaryOwned /\ OneOwner /\ PathWhole /\ JobsNumbered
  BY DEF FileOrder
<1>1. CASE Reserve(t)
  <2>0. CASE Goto(t, "error") /\ UNCHANGED <<temporary, name>>
    <3>1. at' = [at EXCEPT ![t] = "error"] /\ at[t] = "reserve"
          /\ UNCHANGED <<pid, jobs, job, file, durable, replaced>>
      BY <1>1, <2>0 DEF Reserve, Goto
    <3>2. FileTypeOK' /\ OneOwner' /\ PathWhole'
      BY <1>0, <2>0, <3>1 DEF FileTypeOK, Steps, OneOwner, PathWhole
    <3>3. TemporaryOwned' /\ JobsNumbered'
      BY <1>0, <2>0, <3>1 DEF TemporaryOwned, JobsNumbered, Reserved
    <3> QED  BY <3>2, <3>3 DEF FileOrder
  <2>a. CASE ~(Goto(t, "error") /\ UNCHANGED <<temporary, name>>)
    <3>1. PICK a \in 0 .. Attempts - 1 :
            /\ temporary[<<pid, a>>] = Nothing
            /\ temporary' = [temporary EXCEPT ![<<pid, a>>] =
                               [job |-> job[t], full |-> FALSE, synced |-> FALSE]]
            /\ name' = [name EXCEPT ![t] = <<pid, a>>]
            /\ at' = [at EXCEPT ![t] = "write"]
      BY <1>1, <2>a DEF Reserve, Goto
    <3>2. at[t] = "reserve" /\ UNCHANGED <<pid, jobs, job, file, durable, replaced>>
      BY <1>1 DEF Reserve
    <3> DEFINE n == <<pid, a>>
               p == [job |-> job[t], full |-> FALSE, synced |-> FALSE]
    <3>3. n \in Names /\ p \in Payload /\ p.job = job[t] /\ n # NoName
      <4>1. job[t] \in 0 .. MaxJobs /\ pid \in Pids
        BY DEF FileTypeOK
      <4>2. n \in Names /\ n # NoName
        BY <4>1 DEF Names, NoName
      <4>3. p \in Payload
        BY <4>1 DEF Payload
      <4> QED  BY <4>2, <4>3
    <3>4. ASSUME NEW u \in Threads PROVE name[u] # n
      <4>1. at[u] \in Reserved => job[u] \in 1 .. jobs
        BY <1>0 DEF JobsNumbered, Reserved
      <4>2. temporary[n].job = -1 /\ -1 \notin 1 .. jobs
        BY <3>1 DEF Nothing
      <4> QED  BY <1>0, <3>3, <4>1, <4>2 DEF TemporaryOwned
    <3> HIDE DEF n, p
    <3>5. FileTypeOK'
      BY <3>1, <3>2, <3>3 DEF FileTypeOK, Steps, n, p
    <3>6. TemporaryOwned'
      BY <1>0, <3>1, <3>2, <3>3, <3>4
        DEF TemporaryOwned, FileTypeOK, Reserved, n
    <3>7. OneOwner'
      BY <1>0, <3>1, <3>4 DEF OneOwner, n
    <3>8. PathWhole' /\ JobsNumbered'
      BY <1>0, <3>1, <3>2 DEF PathWhole, JobsNumbered
    <3> QED  BY <3>5, <3>6, <3>7, <3>8 DEF FileOrder
  <2> QED  BY <2>0, <2>a
<1>2. CASE WriteAll(t)
  <2>0. /\ name[t] \in Names /\ temporary[name[t]] \in Payload
        /\ job[t] \in 0 .. MaxJobs
    BY <1>0, <1>2 DEF WriteAll, TemporaryOwned, FileTypeOK, Reserved, Nothing
  <2>1. FileTypeOK'
    <3>1. temporary' \in [Names -> Payload \cup {Nothing}]
      BY <1>2, <2>0 DEF WriteAll, FileTypeOK, Payload
    <3> QED  BY <1>2, <3>1 DEF WriteAll, Goto, FileTypeOK, Steps
  <2>2. TemporaryOwned'
    BY <1>0, <1>2 DEF WriteAll, Goto, TemporaryOwned, FileTypeOK, Reserved
  <2>3. OneOwner'
    BY <1>0, <1>2 DEF WriteAll, OneOwner
  <2>4. PathWhole'
    BY <1>0, <1>2 DEF WriteAll, PathWhole
  <2>5. JobsNumbered'
    BY <1>0, <1>2 DEF WriteAll, Goto, JobsNumbered, Reserved
  <2> QED  BY <2>1, <2>2, <2>3, <2>4, <2>5 DEF FileOrder
<1>3. CASE SyncAll(t)
  <2>0. /\ name[t] \in Names /\ temporary[name[t]] \in Payload
        /\ job[t] \in 0 .. MaxJobs
    BY <1>0, <1>3 DEF SyncAll, TemporaryOwned, FileTypeOK, Reserved, Nothing
  <2>1. FileTypeOK'
    <3>1. temporary' \in [Names -> Payload \cup {Nothing}]
      BY <1>3, <2>0 DEF SyncAll, FileTypeOK, Payload
    <3> QED  BY <1>3, <3>1 DEF SyncAll, Goto, FileTypeOK, Steps
  <2>2. TemporaryOwned'
    BY <1>0, <1>3 DEF SyncAll, Goto, TemporaryOwned, FileTypeOK, Reserved
  <2>3. OneOwner'
    BY <1>0, <1>3 DEF SyncAll, OneOwner
  <2>4. PathWhole'
    BY <1>0, <1>3 DEF SyncAll, PathWhole
  <2>5. JobsNumbered'
    BY <1>0, <1>3 DEF SyncAll, Goto, JobsNumbered, Reserved
  <2> QED  BY <2>1, <2>2, <2>3, <2>4, <2>5 DEF FileOrder
<1>4. CASE Rename(t)
  <2>0. /\ name[t] \in Names /\ temporary[name[t]] \in Payload
        /\ job[t] \in 0 .. MaxJobs
    BY <1>0, <1>4 DEF Rename, TemporaryOwned, FileTypeOK, Reserved, Nothing
  <2>1. FileTypeOK'
    <3>1. replaced' \in SUBSET (1 .. MaxJobs)
      <4>1. job[t] \in 1 .. jobs /\ jobs \in 0 .. MaxJobs
        BY <1>0, <1>4 DEF Rename, FileTypeOK, JobsNumbered
      <4>2. job[t] \in 1 .. MaxJobs
        BY <4>1, FileFacts
      <4> QED  BY <1>4, <4>2 DEF Rename, FileTypeOK
    <3> QED  BY <1>4, <2>0, <3>1 DEF Rename, Removed, Goto, FileTypeOK, Steps
  <2>2. TemporaryOwned'
    BY <1>0, <1>4
      DEF Rename, Goto, Removed, TemporaryOwned, OneOwner, FileTypeOK,
          Reserved
  <2>3. OneOwner'
    BY <1>0, <1>4 DEF Rename, OneOwner
  <2>4. PathWhole'
    BY <1>0, <1>4 DEF Rename, PathWhole, TemporaryOwned
  <2>5. JobsNumbered'
    BY <1>0, <1>4 DEF Rename, Goto, JobsNumbered, Reserved, FileTypeOK
  <2> QED  BY <2>1, <2>2, <2>3, <2>4, <2>5 DEF FileOrder
<1>5. CASE SyncDirectory(t)
  <2>1. FileTypeOK'
    BY <1>5 DEF SyncDirectory, Goto, FileTypeOK, Steps
  <2>2. TemporaryOwned'
    BY <1>0, <1>5 DEF SyncDirectory, Goto, TemporaryOwned, Reserved
  <2>3. OneOwner'
    BY <1>0, <1>5 DEF SyncDirectory, OneOwner
  <2>4. PathWhole'
    BY <1>0, <1>5 DEF SyncDirectory, PathWhole
  <2>5. JobsNumbered'
    BY <1>0, <1>5 DEF SyncDirectory, Goto, JobsNumbered, Reserved
  <2> QED  BY <2>1, <2>2, <2>3, <2>4, <2>5 DEF FileOrder
<1>6. CASE Fails(t, FailingSteps)
  <2>1. FileTypeOK'
    BY <1>6 DEF Fails, Goto, Removed, FileTypeOK, Steps
  <2>2. TemporaryOwned'
    BY <1>0, <1>6
      DEF Fails, Goto, Removed, TemporaryOwned, OneOwner, FileTypeOK, Reserved
  <2>3. OneOwner'
    BY <1>0, <1>6 DEF Fails, OneOwner
  <2>4. PathWhole'
    BY <1>0, <1>6 DEF Fails, PathWhole
  <2>5. JobsNumbered'
    BY <1>0, <1>6 DEF Fails, FailingSteps, Goto, JobsNumbered, Reserved
  <2> QED  BY <2>1, <2>2, <2>3, <2>4, <2>5 DEF FileOrder
<1>7. CASE \E commit \in BOOLEAN : Decide(t, commit)
  <2>1. FileTypeOK'
    BY <1>7 DEF Decide, Goto, Removed, FileTypeOK, Steps
  <2>2. TemporaryOwned'
    BY <1>0, <1>7
      DEF Decide, Goto, Removed, TemporaryOwned, OneOwner, FileTypeOK,
          Reserved
  <2>3. OneOwner'
    BY <1>0, <1>7 DEF Decide, OneOwner, FileTypeOK
  <2>4. PathWhole'
    BY <1>0, <1>7 DEF Decide, PathWhole
  <2>5. JobsNumbered'
    BY <1>0, <1>7 DEF Decide, Goto, JobsNumbered, Reserved, FileTypeOK
  <2> QED  BY <2>1, <2>2, <2>3, <2>4, <2>5 DEF FileOrder
<1>8. CASE Begins(t)
  <2>1. FileTypeOK'
    BY <1>8, FileFacts DEF Begins, Begin, disk, Goto, FileTypeOK, Steps
  <2>2. TemporaryOwned'
    BY <1>0, <1>8 DEF Begins, Begin, disk, Goto, TemporaryOwned, Reserved
  <2>3. OneOwner'
    BY <1>0, <1>8 DEF Begins, OneOwner
  <2>4. PathWhole'
    BY <1>0, <1>8 DEF Begins, disk, PathWhole
  <2>5. JobsNumbered'
    BY <1>0, <1>8 DEF Begins, Begin, Goto, JobsNumbered, FileTypeOK
  <2> QED  BY <2>1, <2>2, <2>3, <2>4, <2>5 DEF FileOrder
<1>9. CASE Ends(t)
  <2>1. FileTypeOK'
    BY <1>9 DEF Ends, disk, Goto, FileTypeOK, Steps
  <2>2. TemporaryOwned'
    BY <1>0, <1>9 DEF Ends, disk, Goto, TemporaryOwned, FileTypeOK, Reserved
  <2>3. OneOwner'
    BY <1>0, <1>9 DEF Ends, OneOwner
  <2>4. PathWhole'
    BY <1>0, <1>9 DEF Ends, disk, PathWhole
  <2>5. JobsNumbered'
    BY <1>0, <1>9 DEF Ends, Goto, JobsNumbered, Reserved, FileTypeOK
  <2> QED  BY <2>1, <2>2, <2>3, <2>4, <2>5 DEF FileOrder
<1> QED  BY <1>1, <1>2, <1>3, <1>4, <1>5, <1>6, <1>7, <1>8, <1>9
           DEF Replace, FailingSteps

(* The death of the process leaves nobody at a replacement; a loss of power *)
(* leaves of the path what was synced, and both were.                       *)
LEMMA DeathKeepsOrder ==
  ASSUME FileTypeOK, FileOrder, Killed \/ PowerLost
  PROVE  FileTypeOK' /\ FileOrder'
<1>1. /\ at' = [t \in Threads |-> "idle"] /\ name' = [t \in Threads |-> NoName]
      /\ pid' \in Pids /\ UNCHANGED <<jobs, job, replaced>>
  BY DEF Killed, PowerLost, Dead
<1>2. TemporaryOwned' /\ OneOwner' /\ JobsNumbered'
  BY <1>1 DEF FileOrder, TemporaryOwned, OneOwner, JobsNumbered, Reserved
<1>3. PathWhole' /\ file' \in {file, durable} /\ durable' \in {file, durable}
  BY DEF FileOrder, PathWhole, Killed, PowerLost, Kept, disk
<1>4. \A p \in Payload : Kept(p) \in Payload
  BY DEF Kept, Payload
<1>5. temporary' \in [Names -> Payload \cup {Nothing}]
  BY <1>4 DEF Killed, PowerLost, disk, FileTypeOK
<1>6. FileTypeOK'
  BY <1>1, <1>3, <1>5 DEF FileTypeOK, Steps
<1>7. FileOrder'
  BY <1>2, <1>3 DEF FileOrder
<1> QED  BY <1>6, <1>7

(* What the path shows and what is told of it, in the steps of AtomicFile. *)
LEMMA WorkerFacts ==
  /\ Threads = {UI, IO} /\ UI # IO /\ UI \in Threads /\ IO \in Threads
  BY ThreadsAssumption

LEMMA InitFile == Init => IInv
<1> SUFFICES ASSUME Init PROVE IInv
  OBVIOUS
<1>1. /\ file \in Payload /\ durable = file /\ file.job = 0 /\ file.full /\ file.synced
  BY MaxJobsAssumption DEF Init, FileInit, Payload
<1>2. /\ at = [t \in Threads |-> "idle"] /\ name = [t \in Threads |-> NoName]
      /\ job = [t \in Threads |-> 0] /\ active = 0 /\ channel = "none"
      /\ jobs = 0 /\ replaced = {} /\ cancelled = {}
      /\ outcome = [j \in 1 .. MaxJobs |-> "none"]
  BY DEF Init, FileInit
<1>3. TypeOK
  BY <1>1, FileFacts DEF Init, FileInit, TypeOK, FileTypeOK, Steps, States
<1>4. FileOrder
  BY <1>1, <1>2
    DEF FileOrder, TemporaryOwned, OneOwner, PathWhole, JobsNumbered, Reserved
<1>5. OperationAccounted /\ OutcomePending /\ UnsyncedIsUntold /\ OutcomeIsTrue
  BY <1>1, <1>2, WorkerFacts
    DEF OperationAccounted, OutcomePending, UnsyncedIsUntold, OutcomeIsTrue
<1> QED  BY <1>3, <1>4, <1>5 DEF IInv

(* The disk part of every step. *)
LEMMA NextFile ==
  ASSUME FileTypeOK, FileOrder, [Next]_vars
  PROVE  FileTypeOK' /\ FileOrder'
<1>1. CASE \E t \in Threads :
             \/ Replace(t) \/ \E commit \in BOOLEAN : Decide(t, commit)
             \/ Begins(t) \/ Ends(t)
  BY <1>1, ReplacementKeepsOrder
<1>2. CASE Killed \/ PowerLost
  BY <1>2, DeathKeepsOrder
<1>3. CASE UNCHANGED fileVars
  BY <1>3
    DEF fileVars, disk, writers, FileTypeOK, FileOrder, TemporaryOwned,
        OneOwner, PathWhole, JobsNumbered
<1>4. Start => Begins(IO)
  BY DEF Start, Begins
<1>5. Save => Begins(UI)
  BY DEF Save, Begins
<1>6. Saves => Replace(UI) \/ Decide(UI, TRUE)
  BY DEF Saves
<1>7. Saved => Ends(UI)
  BY DEF Saved, Ends
<1>8. Encode => Ends(IO)
  BY DEF Encode, Ends
<1>9. Exports => Replace(IO)
  BY DEF Exports
<1>10. CommitIfActive => \E commit \in BOOLEAN : Decide(IO, commit)
  BY DEF CommitIfActive
<1>11. SendResult => Ends(IO)
  BY DEF SendResult, Ends
<1> QED
  BY <1>1, <1>2, <1>3, <1>4, <1>5, <1>6, <1>7, <1>8, <1>9, <1>10, <1>11,
     WorkerFacts
    DEF Next, Worker, Cancel, PollFileOperation, Restart, vars

-----------------------------------------------------------------------------
(* The worker and the user interface: one case per action.                 *)

(* A rename puts a replacement on the path nobody has been told of, and the *)
(* sync of the directory makes it last before anyone is.                    *)
LEMMA ReplacementIsUntold ==
  ASSUME TypeOK, FileOrder, OperationAccounted, OutcomePending, UnsyncedIsUntold,
         NEW t \in Threads, Replace(t) \/ \E commit \in BOOLEAN : Decide(t, commit),
         UNCHANGED <<active, channel, outcome>>
  PROVE  UnsyncedIsUntold'
<1>0. /\ FileTypeOK /\ TemporaryOwned /\ JobsNumbered
      /\ outcome \in [1 .. MaxJobs -> Outcomes \cup {"none"}]
  BY DEF FileOrder, TypeOK
<1>1. CASE Rename(t)
  <2>1. /\ at[t] = "rename" /\ file' = temporary[name[t]] /\ job' = job
        /\ replaced' = replaced \cup {job[t]} /\ at' = [at EXCEPT ![t] = "sync_directory"]
    BY <1>1 DEF Rename, Goto
  <2>2. file'.job = job[t]
    BY <1>0, <2>1 DEF TemporaryOwned, Reserved
  <2>3. outcome[job[t]] = "none" /\ (channel = "Completed" => active # job[t])
    BY <2>1, WorkerFacts DEF OutcomePending, OperationAccounted
  <2>4. \A u \in Threads : at'[u] = "ok" => job[u] # job[t]
    BY <1>0, <2>1 DEF JobsNumbered
  <2>5. {file'.job, durable'.job} \subseteq replaced' \cup {0}
    BY <1>1, <2>2 DEF Rename, UnsyncedIsUntold
  <2> QED  BY <2>1, <2>2, <2>3, <2>4, <2>5 DEF UnsyncedIsUntold
<1>2. CASE SyncDirectory(t)
  BY <1>2 DEF SyncDirectory, UnsyncedIsUntold
<1>3. CASE ~Rename(t) /\ ~SyncDirectory(t)
  <2>1. UNCHANGED <<file, durable, replaced, job>> /\ \A u \in Threads :
          at'[u] = "ok" => at[u] = "ok"
    BY <1>0, <1>3
      DEF Replace, Reserve, WriteAll, SyncAll, Fails, Decide, Goto, FileTypeOK
  <2> QED  BY <2>1 DEF UnsyncedIsUntold
<1> QED  BY <1>1, <1>2, <1>3

(* Every step, one case per action. *)
LEMMA NextFileInv == IInv /\ [Next]_vars => IInv'
<1> SUFFICES ASSUME IInv, [Next]_vars PROVE IInv'
  OBVIOUS
<1>0. /\ TypeOK /\ FileTypeOK /\ TemporaryOwned /\ OneOwner /\ PathWhole /\ JobsNumbered
      /\ OperationAccounted /\ OutcomePending /\ UnsyncedIsUntold /\ OutcomeIsTrue
      /\ FileTypeOK' /\ FileOrder'
  BY NextFile DEF IInv, FileOrder, TypeOK
<1>1. CASE Start
  <2>1. TypeOK'
    BY <1>0, <1>1 DEF Start, Begin, States, FileTypeOK, TypeOK
  <2>2. OperationAccounted'
    BY <1>0, <1>1, WorkerFacts
      DEF Start, Begin, Goto, OperationAccounted, JobsNumbered, FileTypeOK
  <2>3. OutcomePending'
    BY <1>0, <1>1 DEF Start, Begin, Goto, OutcomePending, FileTypeOK
  <2>4. UnsyncedIsUntold'
    BY <1>0, <1>1 DEF Start, Begin, Goto, UnsyncedIsUntold, disk
  <2>5. OutcomeIsTrue'
    BY <1>0, <1>1 DEF Start, OutcomeIsTrue
  <2> QED  BY <2>1, <2>2, <2>3, <2>4, <2>5, <1>0 DEF IInv
<1>2. CASE Cancel
  <2>1. TypeOK'
    BY <1>0, <1>2 DEF Cancel, States, TypeOK
  <2>2. OperationAccounted'
    BY <1>0, <1>2, FileFacts
      DEF Cancel, OperationAccounted, TypeOK, fileVars, writers
  <2>3. OutcomePending'
    BY <1>0, <1>2 DEF Cancel, OutcomePending, fileVars, writers
  <2>4. UnsyncedIsUntold'
    BY <1>0, <1>2 DEF Cancel, UnsyncedIsUntold, fileVars, disk, writers
  <2>5. OutcomeIsTrue'
    BY <1>0, <1>2 DEF Cancel, OutcomeIsTrue, OperationAccounted, fileVars
  <2> QED  BY <2>1, <2>2, <2>3, <2>4, <2>5, <1>0 DEF IInv
<1>3. CASE PollFileOperation
  <2>1. TypeOK'
    BY <1>0, <1>3, FileFacts DEF PollFileOperation, TypeOK
  <2>2. OperationAccounted'
    BY <1>0, <1>3, WorkerFacts
      DEF PollFileOperation, OperationAccounted, JobsNumbered, FileTypeOK,
          fileVars, writers
  <2>3. OutcomePending'
    BY <1>0, <1>3
      DEF PollFileOperation, OutcomePending, OperationAccounted, FileTypeOK,
          fileVars, writers
  <2>4. UnsyncedIsUntold'
    BY <1>0, <1>3
      DEF PollFileOperation, UnsyncedIsUntold, fileVars, disk, writers
  <2>5. OutcomeIsTrue'
    BY <1>0, <1>3 DEF PollFileOperation, OutcomeIsTrue, OutcomePending, fileVars
  <2> QED  BY <2>1, <2>2, <2>3, <2>4, <2>5, <1>0 DEF IInv
<1>4. CASE Save
  <2>1. TypeOK'
    BY <1>0, <1>4 DEF Save, TypeOK, ioVars
  <2>2. OperationAccounted'
    BY <1>0, <1>4, WorkerFacts
      DEF Save, Begin, Goto, OperationAccounted, TypeOK, FileTypeOK, ioVars
  <2>3. OutcomePending'
    BY <1>0, <1>4 DEF Save, Begin, OutcomePending, FileTypeOK, ioVars
  <2>4. UnsyncedIsUntold'
    BY <1>0, <1>4 DEF Save, Begin, Goto, UnsyncedIsUntold, ioVars, disk
  <2>5. OutcomeIsTrue'
    BY <1>0, <1>4 DEF Save, OutcomeIsTrue
  <2> QED  BY <2>1, <2>2, <2>3, <2>4, <2>5, <1>0 DEF IInv
<1>5. CASE Saves
  <2>1. TypeOK'
    BY <1>0, <1>5 DEF Saves, TypeOK, ioVars
  <2>2. OperationAccounted'
    BY <1>0, <1>5, WorkerFacts
      DEF Saves, Replace, Reserve, WriteAll, SyncAll, Rename, SyncDirectory,
          Fails, Decide, Goto, OperationAccounted, FileTypeOK, ioVars
  <2>3. OutcomePending'
    BY <1>0, <1>5
      DEF Saves, Replace, Reserve, WriteAll, SyncAll, Rename, SyncDirectory,
          Fails, Decide, OutcomePending, OperationAccounted, ioVars
  <2>4. UnsyncedIsUntold'
    BY <1>0, <1>5, ReplacementIsUntold, WorkerFacts DEF Saves, ioVars, FileOrder
  <2>5. OutcomeIsTrue'
    BY <1>0, <1>5
      DEF Saves, Replace, Reserve, WriteAll, SyncAll, Rename, SyncDirectory,
          Fails, Decide, OutcomeIsTrue, OutcomePending, OperationAccounted
  <2> QED  BY <2>1, <2>2, <2>3, <2>4, <2>5, <1>0 DEF IInv
<1>6. CASE Saved
  <2>1. TypeOK'
    BY <1>0, <1>6 DEF Saved, Outcomes, TypeOK, ioVars
  <2>2. OperationAccounted'
    BY <1>0, <1>6 DEF Saved, Goto, OperationAccounted, ioVars
  <2>3. OutcomePending'
    BY <1>0, <1>6
      DEF Saved, Goto, OutcomePending, OperationAccounted, JobsNumbered,
          FileTypeOK, ioVars
  <2>4. UnsyncedIsUntold'
    BY <1>0, <1>6, WorkerFacts DEF Saved, Goto, UnsyncedIsUntold, ioVars, disk
  <2>5. OutcomeIsTrue'
    BY <1>0, <1>6, WorkerFacts DEF Saved, OutcomeIsTrue, JobsNumbered
  <2> QED  BY <2>1, <2>2, <2>3, <2>4, <2>5, <1>0 DEF IInv
<1>7. CASE Encode
  <2>1. TypeOK'
    BY <1>0, <1>7 DEF Encode, TypeOK, ioVars
  <2>2. OperationAccounted'
    BY <1>0, <1>7, WorkerFacts
      DEF Encode, Goto, OperationAccounted, FileTypeOK, ioVars
  <2>3. OutcomePending'
    BY <1>0, <1>7, WorkerFacts
      DEF Encode, Goto, OutcomePending, FileTypeOK, ioVars
  <2>4. UnsyncedIsUntold'
    BY <1>0, <1>7 DEF Encode, Goto, UnsyncedIsUntold, FileTypeOK, ioVars, disk
  <2>5. OutcomeIsTrue'
    BY <1>0, <1>7 DEF Encode, OutcomeIsTrue
  <2> QED  BY <2>1, <2>2, <2>3, <2>4, <2>5, <1>0 DEF IInv
<1>8. CASE Exports
  <2>1. TypeOK'
    BY <1>0, <1>8 DEF Exports, TypeOK, ioVars
  <2>2. OperationAccounted'
    BY <1>0, <1>8, WorkerFacts
      DEF Exports, Replace, Reserve, WriteAll, SyncAll, Rename, SyncDirectory,
          Fails, Goto, OperationAccounted, FileTypeOK, ioVars
  <2>3. OutcomePending'
    BY <1>0, <1>8, WorkerFacts
      DEF Exports, Replace, Reserve, WriteAll, SyncAll, Rename, SyncDirectory,
          Fails, Goto, OutcomePending, OperationAccounted, FileTypeOK, ioVars
  <2>4. UnsyncedIsUntold'
    BY <1>0, <1>8, ReplacementIsUntold, WorkerFacts
      DEF Exports, ioVars, FileOrder
  <2>5. OutcomeIsTrue'
    BY <1>0, <1>8
      DEF Exports, Replace, Reserve, WriteAll, SyncAll, Rename, SyncDirectory,
          Fails, OutcomeIsTrue, OutcomePending, OperationAccounted
  <2> QED  BY <2>1, <2>2, <2>3, <2>4, <2>5, <1>0 DEF IInv
<1>9. CASE CommitIfActive
  <2>1. TypeOK'
    BY <1>0, <1>9 DEF CommitIfActive, States, TypeOK
  <2>2. OperationAccounted'
    BY <1>0, <1>9, WorkerFacts
      DEF CommitIfActive, Decide, Goto, OperationAccounted, FileTypeOK
  <2>3. OutcomePending'
    BY <1>0, <1>9, WorkerFacts
      DEF CommitIfActive, Decide, Goto, OutcomePending, FileTypeOK
  <2>4. UnsyncedIsUntold'
    BY <1>0, <1>9 DEF CommitIfActive, Decide, Goto, UnsyncedIsUntold, FileTypeOK
  <2>5. OutcomeIsTrue'
    BY <1>0, <1>9 DEF CommitIfActive, Decide, OutcomeIsTrue
  <2> QED  BY <2>1, <2>2, <2>3, <2>4, <2>5, <1>0 DEF IInv
<1>10. CASE SendResult
  <2>1. TypeOK'
    BY <1>0, <1>10 DEF SendResult, OutcomeOf, Outcomes, TypeOK
  <2>2. OperationAccounted'
    BY <1>0, <1>10 DEF SendResult, Goto, OperationAccounted, FileTypeOK
  <2>3. OutcomePending'
    BY <1>0, <1>10, WorkerFacts
      DEF SendResult, Goto, OutcomeOf, OutcomePending, OperationAccounted,
          JobsNumbered
  <2>4. UnsyncedIsUntold'
    BY <1>0, <1>10, WorkerFacts
      DEF SendResult, Goto, OutcomeOf, UnsyncedIsUntold, OperationAccounted,
          disk
  <2>5. OutcomeIsTrue'
    BY <1>0, <1>10 DEF SendResult, OutcomeIsTrue
  <2> QED  BY <2>1, <2>2, <2>3, <2>4, <2>5, <1>0 DEF IInv
<1>11. CASE Restart
  <2>1. TypeOK'
    BY <1>0, <1>11, FileFacts DEF Restart, States, TypeOK
  <2>2. OperationAccounted'
    BY <1>0, <1>11, WorkerFacts
      DEF Restart, Killed, PowerLost, Dead, OperationAccounted, FileTypeOK
  <2>3. OutcomePending'
    BY <1>0, <1>11, WorkerFacts
      DEF Restart, Killed, PowerLost, Dead, OutcomePending
  <2>4. UnsyncedIsUntold'
    <3>1. UNCHANGED <<replaced, outcome, job>> /\ channel' = "none"
          /\ \A u \in Threads : at'[u] # "ok"
      BY <1>11 DEF Restart, Killed, PowerLost, Dead
    <3>2. CASE Killed
      BY <1>0, <3>1, <3>2 DEF Killed, disk, UnsyncedIsUntold
    <3>3. CASE PowerLost
      <4>1. file' = durable' /\ file' \in {file, durable}
        BY <1>0, <3>3 DEF PowerLost, Kept, PathWhole
      <4> QED  BY <1>0, <3>1, <4>1 DEF UnsyncedIsUntold
    <3> QED  BY <1>11, <3>2, <3>3 DEF Restart
  <2>5. OutcomeIsTrue'
    BY <1>0, <1>11 DEF Restart, Killed, PowerLost, Dead, OutcomeIsTrue
  <2> QED  BY <2>1, <2>2, <2>3, <2>4, <2>5, <1>0 DEF IInv
<1>12. CASE UNCHANGED vars
  BY <1>0, <1>12
    DEF vars, fileVars, ioVars, disk, writers, IInv, TypeOK,
        OperationAccounted, OutcomePending, UnsyncedIsUntold, OutcomeIsTrue
<1> QED  BY <1>1, <1>2, <1>3, <1>4, <1>5, <1>6, <1>7, <1>8, <1>9, <1>10, <1>11,
            <1>12
           DEF Next, Worker

-----------------------------------------------------------------------------
(* The inductive invariant holds in every behaviour. *)
THEOREM FileInvariance == Spec => []IInv
<1>1. Init => IInv
  BY InitFile
<1>2. IInv /\ [Next]_vars => IInv'
  BY NextFileInv
<1> QED  BY <1>1, <1>2, PTL DEF Spec

(* atomic_file.rs and app/io_worker.rs: whatever is killed, fails or is     *)
(* cancelled at whatever step, the path shows one complete payload, no      *)
(* temporary has two owners, and the outcomes told agree with the file.     *)
THEOREM FileInvHolds == Spec => []FileInv
<1>1. IInv => FileInv
  BY DEF IInv, FileOrder, PathWhole, NeverTorn, FileInv
<1> QED  BY <1>1, FileInvariance, PTL

(* A replacement the user was told is complete is never undone by a loss of *)
(* power: only a later rename takes its place on the path.                  *)
THEOREM CompletedSurvivesHolds == Spec => CompletedSurvives
<1> DEFINE Undone == file'.job # file.job /\ file'.job \notin replaced' \ replaced
           Step   == Undone => file.job = 0 \/ outcome[file.job] # "Completed"
<1>1. ASSUME IInv, [Next]_vars, Undone PROVE outcome[file.job] # "Completed"
  <2>0. /\ TypeOK /\ FileTypeOK /\ TemporaryOwned /\ PathWhole /\ JobsNumbered
        /\ UnsyncedIsUntold
    BY <1>1 DEF IInv, FileOrder, TypeOK
  <2>1. \A t \in Threads : ~Rename(t)
    <3> SUFFICES ASSUME NEW t \in Threads, Rename(t) PROVE FALSE
      OBVIOUS
    <3>1. file'.job = job[t]
      BY <2>0 DEF Rename, TemporaryOwned, Reserved
    <3>2. job[t] \in replaced' \ replaced
      BY <2>0 DEF Rename, JobsNumbered, Reserved
    <3> QED  BY <1>1, <3>1, <3>2
  <2>2. PowerLost
    BY <1>1, <2>1, WorkerFacts
      DEF Next, Start, Cancel, PollFileOperation, Save, Saves, Saved, Worker,
          Encode, Exports, CommitIfActive, SendResult, Restart, Killed,
          Decide, Replace, Reserve, WriteAll, SyncAll, SyncDirectory, Fails,
          vars, fileVars, disk
  <2>3. file' \in {file, durable}
    BY <2>0, <2>2 DEF PowerLost, Kept, PathWhole
  <2>4. file # durable
    BY <1>1, <2>3
  <2> QED  BY <2>0, <2>4 DEF UnsyncedIsUntold
<1>2. IInv /\ [Next]_vars => [Step]_vars
  BY <1>1
<1>3. CompletedSurvives <=> [][Step]_vars
  BY DEF CompletedSurvives
<1> HIDE DEF Step
<1> QED  BY <1>2, <1>3, FileInvariance, PTL DEF Spec
=============================================================================
