---------------------- MODULE ExtensionProcessProofs ----------------------
(***************************************************************************)
(* Proofs about ExtensionProcess and its StreamSource, for every number of *)
(* callbacks, threads, clients, buffers and frames, however the callbacks  *)
(* overlap and whatever panics and ends.                                   *)
(***************************************************************************)
EXTENDS ExtensionProcess, TLAPS

LEMMA InitSource == Init => SourceOrder
  BY CallbacksAssumption, WorkersAssumption
  DEF Init, SourceOrder, TypeOK, States, Points, MutexIsHeld, HolderAt, WorkersAreKnown,
      StateIsLeft, Ended, StartingAt, StoppingAt

(* One step of one callback, whatever the others are doing: who starts the  *)
(* stream, or repairs it, has the mutex to itself.                          *)
LEMMA CallbackKeepsOrder ==
  ASSUME SourceOrder, NEW c \in Callbacks,
         \/ EnterStart(c) \/ StartOn(c) \/ BeginStop(c) \/ StopOn(c)
         \/ Panic(c) \/ PanicAfterReap(c) \/ Repair(c)
  PROVE  SourceOrder'
<1> USE DEF HolderAt, StartingAt, StoppingAt
<1>0. TypeOK /\ MutexIsHeld /\ WorkersAreKnown /\ StateIsLeft
      /\ Nobody \notin Callbacks /\ NoWorker \notin Workers
  BY CallbacksAssumption, WorkersAssumption DEF SourceOrder
<1>1. CASE EnterStart(c)
  <2>1. TypeOK'
    BY <1>0, <1>1
      DEF EnterStart, Goto, Acquire, TypeOK, States, Points
  <2>2. \A e \in Callbacks \ {c} : pc'[e] = pc[e] /\ joining'[e] = joining[e]
    BY <1>0, <1>1
      DEF EnterStart, Goto, Acquire, TypeOK
  <2>3. MutexIsHeld'
    BY <1>0, <1>1, <2>2
      DEF EnterStart, Goto, Acquire, MutexIsHeld, TypeOK
  <2>4. WorkersAreKnown'
    BY <1>0, <1>1, <2>2
      DEF EnterStart, Goto, Acquire, WorkersAreKnown, MutexIsHeld, TypeOK, Ended
  <2>5. StateIsLeft'
    BY <1>0, <1>1, <2>2
      DEF EnterStart, Goto, Acquire, StateIsLeft, Settling, Joins, WorkersAreKnown,
          MutexIsHeld, TypeOK, Ended
  <2> QED  BY <2>1, <2>3, <2>4, <2>5 DEF SourceOrder
<1>2. CASE ReapFinished(c)
  <2>1. TypeOK'
    BY <1>0, <1>2
      DEF ReapFinished, HandleEnded, Ended, TypeOK, States, Points
  <2>2. \A e \in Callbacks \ {c} : pc'[e] = pc[e] /\ joining'[e] = joining[e]
    BY <1>0, <1>2
      DEF ReapFinished, HandleEnded, Ended, TypeOK
  <2>3. MutexIsHeld'
    BY <1>0, <1>2, <2>2
      DEF ReapFinished, HandleEnded, Ended, MutexIsHeld, TypeOK
  <2>4. WorkersAreKnown'
    BY <1>0, <1>2, <2>2
      DEF ReapFinished, HandleEnded, Ended, WorkersAreKnown, MutexIsHeld, TypeOK
  <2>5. StateIsLeft'
    BY <1>0, <1>2, <2>2
      DEF ReapFinished, HandleEnded, Ended, StateIsLeft, Settling, Joins,
          WorkersAreKnown, MutexIsHeld, TypeOK
  <2> QED  BY <2>1, <2>3, <2>4, <2>5 DEF SourceOrder
<1>3. CASE ReapThenBegin(c)
  <2>1. TypeOK'
    BY <1>0, <1>3
      DEF ReapThenBegin, BeginStart, ForceReady, Leave, TypeOK, States, Points
  <2>2. \A e \in Callbacks \ {c} : pc'[e] = pc[e] /\ joining'[e] = joining[e]
    BY <1>0, <1>3
      DEF ReapThenBegin, BeginStart, ForceReady, Leave, TypeOK
  <2>3. MutexIsHeld'
    BY <1>0, <1>3, <2>2
      DEF ReapThenBegin, BeginStart, ForceReady, Leave, MutexIsHeld, TypeOK
  <2>4. WorkersAreKnown'
    BY <1>0, <1>3, <2>2
      DEF ReapThenBegin, BeginStart, ForceReady, Leave, WorkersAreKnown, MutexIsHeld,
          TypeOK, Ended
  <2>5. StateIsLeft'
    BY <1>0, <1>3, <2>2
      DEF ReapThenBegin, BeginStart, ForceReady, Leave, StateIsLeft, Settling, Joins,
          WorkersAreKnown, MutexIsHeld, TypeOK, Ended
  <2> QED  BY <2>1, <2>3, <2>4, <2>5 DEF SourceOrder
<1>4. CASE TakePrevious(c)
  <2>1. TypeOK'
    BY <1>0, <1>4
      DEF TakePrevious, Goto, TypeOK, States, Points
  <2>2. \A e \in Callbacks \ {c} : pc'[e] = pc[e] /\ joining'[e] = joining[e]
    BY <1>0, <1>4
      DEF TakePrevious, Goto, TypeOK
  <2>3. MutexIsHeld'
    BY <1>0, <1>4, <2>2
      DEF TakePrevious, Goto, MutexIsHeld, TypeOK
  <2>4. WorkersAreKnown'
    BY <1>0, <1>4, <2>2
      DEF TakePrevious, Goto, WorkersAreKnown, MutexIsHeld, TypeOK, Ended
  <2>5. StateIsLeft'
    BY <1>0, <1>4, <2>2
      DEF TakePrevious, Goto, StateIsLeft, Settling, Joins, WorkersAreKnown,
          MutexIsHeld, TypeOK, Ended
  <2> QED  BY <2>1, <2>3, <2>4, <2>5 DEF SourceOrder
<1>5. CASE JoinPrevious(c)
  <2>1. TypeOK'
    BY <1>0, <1>5
      DEF JoinPrevious, Goto, Ended, TypeOK, States, Points
  <2>2. \A e \in Callbacks \ {c} : pc'[e] = pc[e] /\ joining'[e] = joining[e]
    BY <1>0, <1>5
      DEF JoinPrevious, Goto, Ended, TypeOK
  <2>3. MutexIsHeld'
    BY <1>0, <1>5, <2>2
      DEF JoinPrevious, Goto, Ended, MutexIsHeld, TypeOK
  <2>4. WorkersAreKnown'
    BY <1>0, <1>5, <2>2
      DEF JoinPrevious, Goto, Ended, WorkersAreKnown, MutexIsHeld, TypeOK
  <2>5. StateIsLeft'
    BY <1>0, <1>5, <2>2
      DEF JoinPrevious, Goto, Ended, StateIsLeft, Settling, Joins, WorkersAreKnown,
          MutexIsHeld, TypeOK
  <2> QED  BY <2>1, <2>3, <2>4, <2>5 DEF SourceOrder
<1>6. CASE Arm(c)
  <2>1. TypeOK'
    BY <1>0, <1>6
      DEF Arm, Goto, TypeOK, States, Points
  <2>2. \A e \in Callbacks \ {c} : pc'[e] = pc[e] /\ joining'[e] = joining[e]
    BY <1>0, <1>6
      DEF Arm, Goto, TypeOK
  <2>3. MutexIsHeld'
    BY <1>0, <1>6, <2>2
      DEF Arm, Goto, MutexIsHeld, TypeOK
  <2>4. WorkersAreKnown'
    BY <1>0, <1>6, <2>2
      DEF Arm, Goto, WorkersAreKnown, MutexIsHeld, TypeOK, Ended
  <2>5. StateIsLeft'
    BY <1>0, <1>6, <2>2
      DEF Arm, Goto, StateIsLeft, Settling, Joins, WorkersAreKnown, MutexIsHeld,
          TypeOK, Ended
  <2> QED  BY <2>1, <2>3, <2>4, <2>5 DEF SourceOrder
<1>7. CASE Spawn(c)
  <2>1. TypeOK'
    BY <1>0, <1>7
      DEF Spawn, Goto, Forgotten, Ended, TypeOK, States, Points
  <2>2. \A e \in Callbacks \ {c} : pc'[e] = pc[e] /\ joining'[e] = joining[e]
    BY <1>0, <1>7
      DEF Spawn, Goto, Forgotten, Ended, TypeOK
  <2>3. MutexIsHeld'
    BY <1>0, <1>7, <2>2
      DEF Spawn, Goto, Forgotten, Ended, MutexIsHeld, TypeOK
  <2>4. WorkersAreKnown'
    BY <1>0, <1>7, <2>2
      DEF Spawn, Goto, Forgotten, Ended, WorkersAreKnown, MutexIsHeld, TypeOK
  <2>5. StateIsLeft'
    BY <1>0, <1>7, <2>2
      DEF Spawn, Goto, Forgotten, Ended, StateIsLeft, Settling, Joins, WorkersAreKnown,
          MutexIsHeld, TypeOK
  <2> QED  BY <2>1, <2>3, <2>4, <2>5 DEF SourceOrder
<1>8. CASE KeepHandle(c)
  <2>1. TypeOK'
    BY <1>0, <1>8
      DEF KeepHandle, Goto, TypeOK, States, Points
  <2>2. \A e \in Callbacks \ {c} : pc'[e] = pc[e] /\ joining'[e] = joining[e]
    BY <1>0, <1>8
      DEF KeepHandle, Goto, TypeOK
  <2>3. MutexIsHeld'
    BY <1>0, <1>8, <2>2
      DEF KeepHandle, Goto, MutexIsHeld, TypeOK
  <2>4. WorkersAreKnown'
    BY <1>0, <1>8, <2>2
      DEF KeepHandle, Goto, WorkersAreKnown, MutexIsHeld, TypeOK, Ended
  <2>5. StateIsLeft'
    BY <1>0, <1>8, <2>2
      DEF KeepHandle, Goto, StateIsLeft, Settling, Joins, WorkersAreKnown, MutexIsHeld,
          TypeOK, Ended
  <2> QED  BY <2>1, <2>3, <2>4, <2>5 DEF SourceOrder
<1>9. CASE FinishStart(c)
  <2>1. TypeOK'
    BY <1>0, <1>9
      DEF FinishStart, Goto, Leave, TypeOK, States, Points
  <2>2. \A e \in Callbacks \ {c} : pc'[e] = pc[e] /\ joining'[e] = joining[e]
    BY <1>0, <1>9
      DEF FinishStart, Goto, Leave, TypeOK
  <2>3. MutexIsHeld'
    BY <1>0, <1>9, <2>2
      DEF FinishStart, Goto, Leave, MutexIsHeld, TypeOK
  <2>4. WorkersAreKnown'
    BY <1>0, <1>9, <2>2
      DEF FinishStart, Goto, Leave, WorkersAreKnown, MutexIsHeld, TypeOK, Ended
  <2>5. StateIsLeft'
    BY <1>0, <1>9, <2>2
      DEF FinishStart, Goto, Leave, StateIsLeft, Settling, Joins, WorkersAreKnown,
          MutexIsHeld, TypeOK, Ended
  <2> QED  BY <2>1, <2>3, <2>4, <2>5 DEF SourceOrder
<1>10. CASE BeginStop(c)
  <2>1. TypeOK'
    BY <1>0, <1>10
      DEF BeginStop, TypeOK, States, Points
  <2>2. \A e \in Callbacks \ {c} : pc'[e] = pc[e] /\ joining'[e] = joining[e]
    BY <1>0, <1>10
      DEF BeginStop, TypeOK
  <2>3. MutexIsHeld'
    BY <1>0, <1>10, <2>2
      DEF BeginStop, MutexIsHeld, TypeOK
  <2>4. WorkersAreKnown'
    BY <1>0, <1>10, <2>2
      DEF BeginStop, WorkersAreKnown, MutexIsHeld, TypeOK, Ended
  <2>5. StateIsLeft'
    BY <1>0, <1>10, <2>2
      DEF BeginStop, StateIsLeft, Settling, Joins, WorkersAreKnown, MutexIsHeld,
          TypeOK, Ended
  <2> QED  BY <2>1, <2>3, <2>4, <2>5 DEF SourceOrder
<1>11. CASE Disarm(c)
  <2>1. TypeOK'
    BY <1>0, <1>11
      DEF Disarm, Goto, TypeOK, States, Points
  <2>2. \A e \in Callbacks \ {c} : pc'[e] = pc[e] /\ joining'[e] = joining[e]
    BY <1>0, <1>11
      DEF Disarm, Goto, TypeOK
  <2>3. MutexIsHeld'
    BY <1>0, <1>11, <2>2
      DEF Disarm, Goto, MutexIsHeld, TypeOK
  <2>4. WorkersAreKnown'
    BY <1>0, <1>11, <2>2
      DEF Disarm, Goto, WorkersAreKnown, MutexIsHeld, TypeOK, Ended
  <2>5. StateIsLeft'
    BY <1>0, <1>11, <2>2
      DEF Disarm, Goto, StateIsLeft, Settling, Joins, WorkersAreKnown, MutexIsHeld,
          TypeOK, Ended
  <2> QED  BY <2>1, <2>3, <2>4, <2>5 DEF SourceOrder
<1>12. CASE TakeForStop(c)
  <2>1. TypeOK'
    BY <1>0, <1>12
      DEF TakeForStop, Goto, TypeOK, States, Points
  <2>2. \A e \in Callbacks \ {c} : pc'[e] = pc[e] /\ joining'[e] = joining[e]
    BY <1>0, <1>12
      DEF TakeForStop, Goto, TypeOK
  <2>3. MutexIsHeld'
    BY <1>0, <1>12, <2>2
      DEF TakeForStop, Goto, MutexIsHeld, TypeOK
  <2>4. WorkersAreKnown'
    BY <1>0, <1>12, <2>2
      DEF TakeForStop, Goto, WorkersAreKnown, MutexIsHeld, TypeOK, Ended
  <2>5. StateIsLeft'
    BY <1>0, <1>12, <2>2
      DEF TakeForStop, Goto, StateIsLeft, Settling, Joins, WorkersAreKnown,
          MutexIsHeld, TypeOK, Ended
  <2> QED  BY <2>1, <2>3, <2>4, <2>5 DEF SourceOrder
<1>13. CASE JoinForStop(c)
  <2>1. TypeOK'
    BY <1>0, <1>13
      DEF JoinForStop, Goto, Ended, TypeOK, States, Points
  <2>2. \A e \in Callbacks \ {c} : pc'[e] = pc[e] /\ joining'[e] = joining[e]
    BY <1>0, <1>13
      DEF JoinForStop, Goto, Ended, TypeOK
  <2>3. MutexIsHeld'
    BY <1>0, <1>13, <2>2
      DEF JoinForStop, Goto, Ended, MutexIsHeld, TypeOK
  <2>4. WorkersAreKnown'
    BY <1>0, <1>13, <2>2
      DEF JoinForStop, Goto, Ended, WorkersAreKnown, MutexIsHeld, TypeOK
  <2>5. StateIsLeft'
    BY <1>0, <1>13, <2>2
      DEF JoinForStop, Goto, Ended, StateIsLeft, Settling, Joins, WorkersAreKnown,
          MutexIsHeld, TypeOK
  <2> QED  BY <2>1, <2>3, <2>4, <2>5 DEF SourceOrder
<1>14. CASE FinishStop(c)
  <2>1. TypeOK'
    BY <1>0, <1>14
      DEF FinishStop, Goto, TypeOK, States, Points
  <2>2. \A e \in Callbacks \ {c} : pc'[e] = pc[e] /\ joining'[e] = joining[e]
    BY <1>0, <1>14
      DEF FinishStop, Goto, TypeOK
  <2>3. MutexIsHeld'
    BY <1>0, <1>14, <2>2
      DEF FinishStop, Goto, MutexIsHeld, TypeOK
  <2>4. WorkersAreKnown'
    BY <1>0, <1>14, <2>2
      DEF FinishStop, Goto, WorkersAreKnown, MutexIsHeld, TypeOK, Ended
  <2>5. StateIsLeft'
    <3>1. /\ \A e \in Callbacks : pc'[e] \notin StartingAt
          /\ pc[c] = "finishStop" /\ UNCHANGED <<handle, worker, joining>>
      BY <1>0, <1>14, <2>2 DEF FinishStop, Goto, MutexIsHeld, TypeOK
    <3>2. CASE state = "Stopping"
      BY <1>14, <3>1, <3>2 DEF FinishStop, StateIsLeft
    <3>3. CASE state # "Stopping"
      <4>1. state' = state /\ overtaken'
        BY <1>14, <3>3 DEF FinishStop
      <4>2. state = "Starting" => \E e \in Callbacks : pc'[e] = "repair"
        BY <1>0, <2>2, <3>1 DEF StateIsLeft
      <4> QED  BY <3>1, <3>3, <4>1, <4>2 DEF StateIsLeft
    <3> QED  BY <3>2, <3>3
  <2> QED  BY <2>1, <2>3, <2>4, <2>5 DEF SourceOrder
<1>15. CASE Panic(c)
  <2>1. TypeOK'
    BY <1>0, <1>15
      DEF Panic, Leave, Ended, TypeOK, States, Points
  <2>2. \A e \in Callbacks \ {c} : pc'[e] = pc[e] /\ joining'[e] = joining[e]
    BY <1>0, <1>15
      DEF Panic, Leave, Ended, TypeOK
  <2>3. MutexIsHeld'
    BY <1>0, <1>15, <2>2
      DEF Panic, Leave, Ended, MutexIsHeld, TypeOK
  <2>4. WorkersAreKnown'
    BY <1>0, <1>15, <2>2
      DEF Panic, Leave, Ended, WorkersAreKnown, MutexIsHeld, TypeOK
  <2>5. StateIsLeft'
    BY <1>0, <1>15, <2>2
      DEF Panic, Leave, Ended, StateIsLeft, Settling, Joins, WorkersAreKnown,
          MutexIsHeld, TypeOK
  <2> QED  BY <2>1, <2>3, <2>4, <2>5 DEF SourceOrder
<1>16. CASE PanicAfterReap(c)
  <2>1. TypeOK'
    BY <1>0, <1>16
      DEF PanicAfterReap, Goto, Leave, TypeOK, States, Points
  <2>2. \A e \in Callbacks \ {c} : pc'[e] = pc[e] /\ joining'[e] = joining[e]
    BY <1>0, <1>16
      DEF PanicAfterReap, Goto, Leave, TypeOK
  <2>3. MutexIsHeld'
    BY <1>0, <1>16, <2>2
      DEF PanicAfterReap, Goto, Leave, MutexIsHeld, TypeOK
  <2>4. WorkersAreKnown'
    BY <1>0, <1>16, <2>2
      DEF PanicAfterReap, Goto, Leave, WorkersAreKnown, MutexIsHeld, TypeOK, Ended
  <2>5. StateIsLeft'
    BY <1>0, <1>16, <2>2
      DEF PanicAfterReap, Goto, Leave, StateIsLeft, Settling, Joins, WorkersAreKnown,
          MutexIsHeld, TypeOK, Ended
  <2> QED  BY <2>1, <2>3, <2>4, <2>5 DEF SourceOrder
<1>17. CASE Repair(c)
  <2>1. TypeOK'
    BY <1>0, <1>17
      DEF Repair, Goto, ResetAfterContainedPanic, ForceReady, TypeOK, States, Points
  <2>2. \A e \in Callbacks \ {c} : pc'[e] = pc[e] /\ joining'[e] = joining[e]
    BY <1>0, <1>17
      DEF Repair, Goto, ResetAfterContainedPanic, ForceReady, TypeOK
  <2>3. MutexIsHeld'
    BY <1>0, <1>17, <2>2
      DEF Repair, Goto, ResetAfterContainedPanic, ForceReady, MutexIsHeld, TypeOK
  <2>4. WorkersAreKnown'
    BY <1>0, <1>17, <2>2
      DEF Repair, Goto, ResetAfterContainedPanic, ForceReady, WorkersAreKnown,
          MutexIsHeld, TypeOK, Ended
  <2>5. StateIsLeft'
    BY <1>0, <1>17, <2>2
      DEF Repair, Goto, ResetAfterContainedPanic, ForceReady, StateIsLeft, Settling,
          Joins, WorkersAreKnown, MutexIsHeld, TypeOK, Ended
  <2> QED  BY <2>1, <2>3, <2>4, <2>5 DEF SourceOrder
<1> QED
  BY <1>1, <1>2, <1>3, <1>4, <1>5, <1>6, <1>7, <1>8, <1>9,
     <1>10, <1>11, <1>12, <1>13, <1>14, <1>15, <1>16, <1>17
    DEF StartOn, StopOn

LEMMA WorkerKeepsOrder ==
  ASSUME SourceOrder, NEW w \in Workers,
         SeeFlagCleared(w) \/ EndByItself(w) \/ ClearOnExit(w) \/ End(w)
  PROVE  SourceOrder'
<1>0. TypeOK /\ MutexIsHeld /\ WorkersAreKnown /\ StateIsLeft
  BY DEF SourceOrder
<1>1. UNCHANGED <<state, mutex, handle, pc, joining, overtaken>>
      /\ \A v \in Workers : ~Ended(v)' => ~Ended(v)
  BY <1>0 DEF SeeFlagCleared, EndByItself, ClearOnExit, End, Ended, TypeOK
<1>2. TypeOK'
  BY <1>0, <1>1 DEF SeeFlagCleared, EndByItself, ClearOnExit, End, TypeOK
<1>3. MutexIsHeld'
  BY <1>0, <1>1 DEF MutexIsHeld
<1>4. \A v \in Workers : Ended(v) => Ended(v)'
  BY <1>0 DEF SeeFlagCleared, EndByItself, ClearOnExit, End, Ended, TypeOK
<1>5. WorkersAreKnown'
  BY <1>0, <1>1, <1>4 DEF WorkersAreKnown, TypeOK
<1>6. StateIsLeft'
  BY <1>0, <1>1 DEF StateIsLeft, Settling, Joins
<1> QED  BY <1>2, <1>3, <1>5, <1>6 DEF SourceOrder

LEMMA SourceUnchanged == SourceOrder /\ UNCHANGED sourceVars => SourceOrder'
  BY DEF sourceVars, vars, SourceOrder, TypeOK, MutexIsHeld, WorkersAreKnown, StateIsLeft,
         Settling, Joins, Ended

(* The threads a callback changes are those it spawns. *)
LEMMA SpawnEnded ==
  ASSUME TypeOK, NEW c \in Callbacks, RunCallback(c), NEW w \in Workers,
         worker[w] = "running"
  PROVE  worker'[w] = "running"
<1>1. CASE Spawn(c)
  BY <1>1 DEF Spawn, Forgotten, Ended, TypeOK
<1>2. CASE UNCHANGED worker
  BY <1>2
<1> QED
  BY <1>1, <1>2
    DEF RunCallback, StartOn, StopOn, ReapFinished, ReapThenBegin, TakePrevious,
        JoinPrevious, Arm, KeepHandle, FinishStart, BeginStop, Disarm, TakeForStop,
        JoinForStop, FinishStop, Panic, PanicAfterReap, Repair

-----------------------------------------------------------------------------
LEMMA InitProcess == ProcessInit => ProcessOrder
<1> SUFFICES ASSUME ProcessInit PROVE ProcessOrder
  OBVIOUS
<1>1. SourceOrder
  BY InitSource DEF ProcessInit
<1>2. /\ medium.mode \in Modes /\ medium.frame \in Frames \cup {Nothing}
      /\ MediumIsRecord
  BY DEF ProcessInit, MediumIsRecord
<1>3. ProcessTypeOK
  BY <1>2 DEF ProcessInit, ProcessTypeOK
<1>4. NothingBeforeService /\ LoopRuns /\ ClientsAuthorized
  BY DEF ProcessInit, Init, NothingBeforeService, Ended, LoopRuns, ClientsAuthorized
<1> QED  BY <1>1, <1>2, <1>3, <1>4 DEF ProcessOrder

LEMMA NextProcess ==
  ASSUME ProcessOrder, [ProcessNext]_all
  PROVE  ProcessOrder'
<1>0. /\ ProcessTypeOK /\ MediumIsRecord /\ SourceOrder /\ NothingBeforeService
      /\ LoopRuns /\ ClientsAuthorized /\ TypeOK
  BY DEF ProcessOrder, SourceOrder
<1>1. CASE AttachStream
  <2>1. ProcessTypeOK'
    BY <1>0, <1>1
      DEF AttachStream, Attach, ProcessTypeOK, clientVars, poolVars,
          sourceVars, vars
  <2>2. MediumIsRecord'
    BY <1>0, <1>1 DEF AttachStream, MediumIsRecord, Attach
  <2>3. SourceOrder'
    BY <1>0, <1>1
      DEF AttachStream, Attach, SourceOrder, TypeOK, States, MutexIsHeld,
          WorkersAreKnown, StateIsLeft, Settling, HolderAt, StartingAt,
          StoppingAt, Ended
  <2>4. NothingBeforeService'
    BY <1>0, <1>1
      DEF AttachStream, Attach, NothingBeforeService, Ended, clientVars,
          sourceVars, vars, TypeOK
  <2>5. LoopRuns'
    BY <1>0, <1>1
      DEF AttachStream, Attach, LoopRuns, ProcessTypeOK, poolVars,
          sourceVars, vars, TypeOK
  <2>6. ClientsAuthorized'
    BY <1>0, <1>1
      DEF AttachStream, ClientsAuthorized, ProcessTypeOK, clientVars
  <2> QED  BY <2>1, <2>2, <2>3, <2>4, <2>5, <2>6 DEF ProcessOrder
<1>2. CASE StartService
  <2>1. ProcessTypeOK'
    BY <1>0, <1>2
      DEF StartService, ProcessTypeOK, clientVars, poolVars, sourceVars,
          vars
  <2>2. MediumIsRecord'
    BY <1>0, <1>2 DEF StartService, MediumIsRecord
  <2>3. SourceOrder'
    BY <1>0, <1>2, SourceUnchanged DEF StartService
  <2>4. NothingBeforeService'
    BY <1>0, <1>2
      DEF StartService, NothingBeforeService, Ended, clientVars,
          sourceVars, vars, TypeOK
  <2>5. LoopRuns'
    BY <1>0, <1>2
      DEF StartService, LoopRuns, ProcessTypeOK, poolVars, sourceVars,
          vars, TypeOK
  <2>6. ClientsAuthorized'
    BY <1>0, <1>2
      DEF StartService, ClientsAuthorized, ProcessTypeOK, clientVars
  <2> QED  BY <2>1, <2>2, <2>3, <2>4, <2>5, <2>6 DEF ProcessOrder
<1>3. CASE Relaunch
  <2>1. ProcessTypeOK'
    BY <1>0, <1>3
      DEF Relaunch, ProcessTypeOK, clientVars, poolVars, sourceVars,
          vars
  <2>2. MediumIsRecord'
    BY <1>0, <1>3 DEF Relaunch, MediumIsRecord
  <2>3. SourceOrder'
    BY <1>0, <1>3
      DEF Relaunch, NothingBeforeService, SourceOrder, TypeOK, States, MutexIsHeld,
          WorkersAreKnown, StateIsLeft, Settling, StartingAt,
          StoppingAt, Ended
  <2>4. NothingBeforeService'
    BY <1>0, <1>3
      DEF Relaunch, NothingBeforeService, Ended, clientVars, sourceVars,
          vars, TypeOK
  <2>5. LoopRuns'
    BY <1>0, <1>3
      DEF Relaunch, LoopRuns, ProcessTypeOK, poolVars, sourceVars, vars,
          TypeOK
  <2>6. ClientsAuthorized'
    BY <1>0, <1>3
      DEF Relaunch, ClientsAuthorized, ProcessTypeOK, clientVars
  <2> QED  BY <2>1, <2>2, <2>3, <2>4, <2>5, <2>6 DEF ProcessOrder
<1>4. CASE AskFormats
  <2>1. ProcessTypeOK'
    BY <1>0, <1>4
      DEF AskFormats, Formats, ProcessTypeOK, clientVars, poolVars,
          sourceVars, vars
  <2>2. MediumIsRecord'
    BY <1>0, <1>4 DEF AskFormats, MediumIsRecord
  <2>3. SourceOrder'
    BY <1>0, <1>4, SourceUnchanged DEF AskFormats
  <2>4. NothingBeforeService'
    BY <1>0, <1>4
      DEF AskFormats, NothingBeforeService, Ended, clientVars,
          sourceVars, vars, TypeOK
  <2>5. LoopRuns'
    BY <1>0, <1>4
      DEF AskFormats, LoopRuns, ProcessTypeOK, poolVars, sourceVars,
          vars, TypeOK
  <2>6. ClientsAuthorized'
    BY <1>0, <1>4
      DEF AskFormats, ClientsAuthorized, ProcessTypeOK, clientVars
  <2> QED  BY <2>1, <2>2, <2>3, <2>4, <2>5, <2>6 DEF ProcessOrder
<1>5. CASE WriterLeaves
  <2>1. ProcessTypeOK'
    BY <1>0, <1>5
      DEF WriterLeaves, ProcessTypeOK, clientVars, poolVars, sourceVars,
          vars
  <2>2. MediumIsRecord'
    BY <1>0, <1>5 DEF WriterLeaves, MediumIsRecord
  <2>3. SourceOrder'
    BY <1>0, <1>5, SourceUnchanged DEF WriterLeaves
  <2>4. NothingBeforeService'
    BY <1>0, <1>5
      DEF WriterLeaves, NothingBeforeService, Ended, clientVars,
          sourceVars, vars, TypeOK
  <2>5. LoopRuns'
    BY <1>0, <1>5
      DEF WriterLeaves, LoopRuns, ProcessTypeOK, poolVars, sourceVars,
          vars, TypeOK
  <2>6. ClientsAuthorized'
    BY <1>0, <1>5
      DEF WriterLeaves, ClientsAuthorized, ProcessTypeOK, clientVars
  <2> QED  BY <2>1, <2>2, <2>3, <2>4, <2>5, <2>6 DEF ProcessOrder
<1>6. ASSUME NEW k \in Clients, ConnectClient(k) PROVE ProcessOrder'
  <2>1. ProcessTypeOK'
    BY <1>0, <1>6
      DEF ConnectClient, Decides, ProcessTypeOK, clientVars, poolVars,
          sourceVars, vars
  <2>2. MediumIsRecord'
    BY <1>0, <1>6 DEF ConnectClient, MediumIsRecord
  <2>3. SourceOrder'
    BY <1>0, <1>6, SourceUnchanged DEF ConnectClient
  <2>4. NothingBeforeService'
    BY <1>0, <1>6
      DEF ConnectClient, NothingBeforeService, Ended, clientVars,
          sourceVars, vars, TypeOK
  <2>5. LoopRuns'
    BY <1>0, <1>6
      DEF ConnectClient, LoopRuns, ProcessTypeOK, poolVars, sourceVars,
          vars, TypeOK
  <2>6. ClientsAuthorized'
    BY <1>0, <1>6
      DEF ConnectClient, Decides, ClientsAuthorized, ProcessTypeOK,
          clientVars
  <2> QED  BY <2>1, <2>2, <2>3, <2>4, <2>5, <2>6 DEF ProcessOrder
<1>7. ASSUME NEW k \in Clients, AuthorizeStart(k) PROVE ProcessOrder'
  <2>1. ProcessTypeOK'
    BY <1>0, <1>7
      DEF AuthorizeStart, Decides, ProcessTypeOK, clientVars, poolVars,
          sourceVars, vars
  <2>2. MediumIsRecord'
    BY <1>0, <1>7 DEF AuthorizeStart, MediumIsRecord
  <2>3. SourceOrder'
    BY <1>0, <1>7, SourceUnchanged DEF AuthorizeStart
  <2>4. NothingBeforeService'
    BY <1>0, <1>7
      DEF AuthorizeStart, NothingBeforeService, Ended, clientVars,
          sourceVars, vars, TypeOK
  <2>5. LoopRuns'
    BY <1>0, <1>7
      DEF AuthorizeStart, LoopRuns, ProcessTypeOK, poolVars, sourceVars,
          vars, TypeOK
  <2>6. ClientsAuthorized'
    BY <1>0, <1>7
      DEF AuthorizeStart, Decides, ClientsAuthorized, ProcessTypeOK,
          clientVars
  <2> QED  BY <2>1, <2>2, <2>3, <2>4, <2>5, <2>6 DEF ProcessOrder
<1>8. ASSUME NEW k \in Clients, DisconnectClient(k) PROVE ProcessOrder'
  <2>1. ProcessTypeOK'
    BY <1>0, <1>8
      DEF DisconnectClient, ProcessTypeOK, clientVars, poolVars,
          sourceVars, vars
  <2>2. MediumIsRecord'
    BY <1>0, <1>8 DEF DisconnectClient, MediumIsRecord
  <2>3. SourceOrder'
    BY <1>0, <1>8, SourceUnchanged DEF DisconnectClient
  <2>4. NothingBeforeService'
    BY <1>0, <1>8
      DEF DisconnectClient, NothingBeforeService, Ended, clientVars,
          sourceVars, vars, TypeOK
  <2>5. LoopRuns'
    BY <1>0, <1>8
      DEF DisconnectClient, LoopRuns, ProcessTypeOK, poolVars,
          sourceVars, vars, TypeOK
  <2>6. ClientsAuthorized'
    BY <1>0, <1>8
      DEF DisconnectClient, ClientsAuthorized, ProcessTypeOK, clientVars
  <2> QED  BY <2>1, <2>2, <2>3, <2>4, <2>5, <2>6 DEF ProcessOrder
<1>9. ASSUME NEW c \in Callbacks, StartStream(c) PROVE ProcessOrder'
  <2>1. ProcessTypeOK'
    BY <1>0, <1>9
      DEF StartStream, EnterStart, ProcessTypeOK, clientVars, poolVars,
          sourceVars, vars
  <2>2. MediumIsRecord'
    BY <1>0, <1>9 DEF StartStream, MediumIsRecord
  <2>3. SourceOrder'
    BY <1>0, <1>9, CallbackKeepsOrder DEF StartStream
  <2>4. NothingBeforeService'
    BY <1>0, <1>9
      DEF StartStream, NothingBeforeService, Ended, clientVars,
          sourceVars, vars, TypeOK
  <2>5. LoopRuns'
    BY <1>0, <1>9
      DEF StartStream, EnterStart, LoopRuns, ProcessTypeOK, poolVars,
          sourceVars, vars, TypeOK
  <2>6. ClientsAuthorized'
    BY <1>0, <1>9
      DEF StartStream, ClientsAuthorized, ProcessTypeOK, clientVars
  <2> QED  BY <2>1, <2>2, <2>3, <2>4, <2>5, <2>6 DEF ProcessOrder
<1>10. ASSUME NEW c \in Callbacks, RunCallback(c) PROVE ProcessOrder'
  <2>1. ProcessTypeOK'
    BY <1>0, <1>10
      DEF RunCallback, StartOn, StopOn, BeginStop, ProcessTypeOK,
          clientVars, poolVars, sourceVars, vars
  <2>2. MediumIsRecord'
    BY <1>0, <1>10 DEF RunCallback, MediumIsRecord
  <2>3. SourceOrder'
    BY <1>0, <1>10, CallbackKeepsOrder DEF RunCallback
  <2>4. NothingBeforeService'
    BY <1>0, <1>10
      DEF RunCallback, NothingBeforeService, Ended, clientVars,
          sourceVars, vars, TypeOK
  <2>5. LoopRuns'
    BY <1>0, <1>10, SpawnEnded
      DEF RunCallback, LoopRuns, ProcessTypeOK, poolVars, sourceVars,
          vars, TypeOK
  <2>6. ClientsAuthorized'
    BY <1>0, <1>10
      DEF RunCallback, ClientsAuthorized, ProcessTypeOK, clientVars
  <2> QED  BY <2>1, <2>2, <2>3, <2>4, <2>5, <2>6 DEF ProcessOrder
<1>11. CASE SendFrame
  <2>1. ProcessTypeOK'
    BY <1>0, <1>11
      DEF SendFrame, ProcessTypeOK, clientVars, poolVars, sourceVars,
          vars
  <2>2. MediumIsRecord'
    BY <1>0, <1>11 DEF SendFrame, MediumIsRecord
  <2>3. SourceOrder'
    BY <1>0, <1>11, SourceUnchanged DEF SendFrame
  <2>4. NothingBeforeService'
    BY <1>0, <1>11
      DEF SendFrame, NothingBeforeService, Ended, clientVars,
          sourceVars, vars, TypeOK
  <2>5. LoopRuns'
    BY <1>0, <1>11
      DEF SendFrame, LoopRuns, ProcessTypeOK, poolVars, sourceVars,
          vars, TypeOK
  <2>6. ClientsAuthorized'
    BY <1>0, <1>11
      DEF SendFrame, ClientsAuthorized, ProcessTypeOK, clientVars
  <2> QED  BY <2>1, <2>2, <2>3, <2>4, <2>5, <2>6 DEF ProcessOrder
<1>12. ASSUME NEW w \in Workers, EnterLoop(w) PROVE ProcessOrder'
  <2>1. ProcessTypeOK'
    BY <1>0, <1>12
      DEF EnterLoop, ProcessTypeOK, clientVars, poolVars, sourceVars,
          vars
  <2>2. MediumIsRecord'
    BY <1>0, <1>12 DEF EnterLoop, MediumIsRecord
  <2>3. SourceOrder'
    BY <1>0, <1>12, SourceUnchanged DEF EnterLoop
  <2>4. NothingBeforeService'
    BY <1>0, <1>12
      DEF EnterLoop, NothingBeforeService, Ended, clientVars,
          sourceVars, vars, TypeOK
  <2>5. LoopRuns'
    BY <1>0, <1>12
      DEF EnterLoop, LoopRuns, ProcessTypeOK, poolVars, sourceVars,
          vars, TypeOK
  <2>6. ClientsAuthorized'
    BY <1>0, <1>12
      DEF EnterLoop, ClientsAuthorized, ProcessTypeOK, clientVars
  <2> QED  BY <2>1, <2>2, <2>3, <2>4, <2>5, <2>6 DEF ProcessOrder
<1>13. ASSUME NEW w \in Workers, FindDue(w) PROVE ProcessOrder'
  <2>1. ProcessTypeOK'
    BY <1>0, <1>13
      DEF FindDue, ProcessTypeOK, clientVars, poolVars, sourceVars, vars
  <2>2. MediumIsRecord'
    BY <1>0, <1>13 DEF FindDue, MediumIsRecord
  <2>3. SourceOrder'
    BY <1>0, <1>13, SourceUnchanged DEF FindDue
  <2>4. NothingBeforeService'
    BY <1>0, <1>13
      DEF FindDue, NothingBeforeService, Ended, clientVars, sourceVars,
          vars, TypeOK
  <2>5. LoopRuns'
    BY <1>0, <1>13
      DEF FindDue, LoopRuns, ProcessTypeOK, poolVars, sourceVars, vars,
          TypeOK
  <2>6. ClientsAuthorized'
    BY <1>0, <1>13
      DEF FindDue, ClientsAuthorized, ProcessTypeOK, clientVars
  <2> QED  BY <2>1, <2>2, <2>3, <2>4, <2>5, <2>6 DEF ProcessOrder
<1>14. ASSUME NEW w \in Workers, PollFrame(w) PROVE ProcessOrder'
  <2>1. ProcessTypeOK'
    <3>1. last' \in [Workers -> Buffers \cup {NoBuffer}]
      BY <1>0, <1>14 DEF PollFrame, Forget, Free, ProcessTypeOK
    <3>2. \A bs : Returned(w, bs) \in [Buffers -> {"old", "whole"}]
      BY <1>0 DEF Returned, ProcessTypeOK
    <3>3. \A view : Drawing(view) \in {"old", "whole"}
      BY DEF Drawing
    <3>4. content' \in [Workers -> [Buffers -> {"old", "whole"}]]
      <4>1. CASE UNCHANGED content \/ Forget(w)
        BY <1>0, <3>2, <4>1 DEF Forget, ProcessTypeOK
      <4>2. CASE \E view \in Views, b \in Free(w) :
                   content' = [content EXCEPT
                                 ![w] = [Returned(w, {last[w]} \ held[w])
                                           EXCEPT ![b] = Drawing(view)]]
        <5>1. PICK view \in Views, b \in Free(w) :
                content' = [content EXCEPT
                              ![w] = [Returned(w, {last[w]} \ held[w])
                                        EXCEPT ![b] = Drawing(view)]]
          BY <4>2
        <5>2. [Returned(w, {last[w]} \ held[w]) EXCEPT ![b] = Drawing(view)]
                \in [Buffers -> {"old", "whole"}]
          BY <3>2, <3>3
        <5> QED  BY <1>0, <5>1, <5>2 DEF ProcessTypeOK
      <4> QED  BY <1>14, <4>1, <4>2 DEF PollFrame
    <3> QED  BY <1>0, <1>14, <3>1, <3>4 DEF PollFrame, ProcessTypeOK, clientVars
  <2>2. MediumIsRecord'
    BY <1>0, <1>14 DEF PollFrame, MediumIsRecord
  <2>3. SourceOrder'
    BY <1>0, <1>14, SourceUnchanged DEF PollFrame
  <2>4. NothingBeforeService'
    BY <1>0, <1>14
      DEF PollFrame, NothingBeforeService, Ended, clientVars,
          sourceVars, vars, TypeOK
  <2>5. LoopRuns'
    BY <1>0, <1>14
      DEF PollFrame, LoopRuns, ProcessTypeOK, poolVars, sourceVars,
          vars, TypeOK
  <2>6. ClientsAuthorized'
    BY <1>0, <1>14
      DEF PollFrame, ClientsAuthorized, ProcessTypeOK, clientVars
  <2> QED  BY <2>1, <2>2, <2>3, <2>4, <2>5, <2>6 DEF ProcessOrder
<1>15. ASSUME NEW w \in Workers, SendSample(w) PROVE ProcessOrder'
  <2>1. ProcessTypeOK'
    <3>1. SampleBuffers(w) \subseteq Buffers
      BY <1>0 DEF SampleBuffers, Free, ProcessTypeOK
    <3>2. format' \in {"unknown", "made", "failed"} /\ sample' \in {"none", "sent"}
      BY <1>0, <1>15 DEF SendSample, Formats, ProcessTypeOK
    <3>3. held' \in [Workers -> SUBSET Buffers]
      BY <1>0, <1>15, <3>1 DEF SendSample, ProcessTypeOK
    <3>4. content' \in [Workers -> [Buffers -> {"old", "whole"}]]
      BY <1>0, <1>15, <3>1 DEF SendSample, ProcessTypeOK
    <3>5. loop' \in [Workers -> {"out", "in", "due", "polled"}]
      BY <1>0, <1>15 DEF SendSample, ProcessTypeOK
    <3> QED
      BY <1>0, <1>15, <3>2, <3>3, <3>4, <3>5 DEF SendSample, ProcessTypeOK
  <2>2. MediumIsRecord'
    BY <1>0, <1>15 DEF SendSample, MediumIsRecord
  <2>3. SourceOrder'
    BY <1>0, <1>15, SourceUnchanged DEF SendSample
  <2>4. NothingBeforeService'
    BY <1>0, <1>15
      DEF SendSample, NothingBeforeService, Ended, clientVars,
          sourceVars, vars, TypeOK
  <2>5. LoopRuns'
    BY <1>0, <1>15
      DEF SendSample, LoopRuns, ProcessTypeOK, poolVars, sourceVars,
          vars, TypeOK
  <2>6. ClientsAuthorized'
    BY <1>0, <1>15
      DEF SendSample, ClientsAuthorized, ProcessTypeOK, clientVars
  <2> QED  BY <2>1, <2>2, <2>3, <2>4, <2>5, <2>6 DEF ProcessOrder
<1>16. ASSUME NEW w \in Workers, LeaveLoop(w) PROVE ProcessOrder'
  <2>1. ProcessTypeOK'
    BY <1>0, <1>16
      DEF LeaveLoop, Returned, ProcessTypeOK, clientVars, poolVars,
          sourceVars, vars
  <2>2. MediumIsRecord'
    BY <1>0, <1>16 DEF LeaveLoop, MediumIsRecord
  <2>3. SourceOrder'
    BY <1>0, <1>16, WorkerKeepsOrder DEF LeaveLoop
  <2>4. NothingBeforeService'
    BY <1>0, <1>16
      DEF LeaveLoop, SeeFlagCleared, EndByItself, NothingBeforeService,
          Ended, clientVars, sourceVars, vars, TypeOK
  <2>5. LoopRuns'
    BY <1>0, <1>16
      DEF LeaveLoop, SeeFlagCleared, EndByItself, LoopRuns,
          ProcessTypeOK, poolVars, sourceVars, vars, TypeOK
  <2>6. ClientsAuthorized'
    BY <1>0, <1>16
      DEF LeaveLoop, ClientsAuthorized, ProcessTypeOK, clientVars
  <2> QED  BY <2>1, <2>2, <2>3, <2>4, <2>5, <2>6 DEF ProcessOrder
<1>17. ASSUME NEW w \in Workers, FinishWorker(w) PROVE ProcessOrder'
  <2>1. ProcessTypeOK'
    BY <1>0, <1>17
      DEF FinishWorker, ProcessTypeOK, clientVars, poolVars, sourceVars,
          vars
  <2>2. MediumIsRecord'
    BY <1>0, <1>17 DEF FinishWorker, MediumIsRecord
  <2>3. SourceOrder'
    BY <1>0, <1>17, WorkerKeepsOrder DEF FinishWorker
  <2>4. NothingBeforeService'
    BY <1>0, <1>17
      DEF FinishWorker, ClearOnExit, End, NothingBeforeService, Ended,
          clientVars, sourceVars, vars, TypeOK
  <2>5. LoopRuns'
    BY <1>0, <1>17
      DEF FinishWorker, ClearOnExit, End, LoopRuns, ProcessTypeOK,
          poolVars, sourceVars, vars, TypeOK
  <2>6. ClientsAuthorized'
    BY <1>0, <1>17
      DEF FinishWorker, ClientsAuthorized, ProcessTypeOK, clientVars
  <2> QED  BY <2>1, <2>2, <2>3, <2>4, <2>5, <2>6 DEF ProcessOrder
<1>18. ASSUME NEW w \in Workers, NEW b \in Buffers, ReleaseSample(w, b) PROVE ProcessOrder'
  <2>1. ProcessTypeOK'
    BY <1>0, <1>18 DEF ReleaseSample, Returned, ProcessTypeOK, clientVars
  <2>2. SourceOrder'
    BY <1>0, <1>18, SourceUnchanged DEF ReleaseSample
  <2> QED
    BY <1>0, <1>18, <2>1, <2>2
      DEF ReleaseSample, ProcessOrder, MediumIsRecord, NothingBeforeService, Ended,
          LoopRuns, ClientsAuthorized, sourceVars, vars, clientVars
<1>19. CASE UNCHANGED all
  <2>1. SourceOrder'
    BY <1>0, <1>19, SourceUnchanged DEF all
  <2> QED
    BY <1>0, <1>19, <2>1
      DEF all, ProcessOrder, ProcessTypeOK, MediumIsRecord, NothingBeforeService, Ended,
          LoopRuns, ClientsAuthorized, sourceVars, vars, clientVars, poolVars
<1> QED
  BY <1>1, <1>2, <1>3, <1>4, <1>5, <1>6, <1>7, <1>8, <1>9, <1>10, <1>11, <1>12, <1>13, <1>14, <1>15, <1>16, <1>17, <1>18, <1>19
    DEF ProcessNext, WorkerStep

-----------------------------------------------------------------------------
THEOREM ProcessInvariance == ProcessSpec => []ProcessOrder
<1>1. ProcessInit => ProcessOrder
  BY InitProcess
<1>2. ProcessOrder /\ [ProcessNext]_all => ProcessOrder'
  BY NextProcess
<1> QED  BY <1>1, <1>2, PTL DEF ProcessSpec

(* A thread that has not ended is the one in the ivar or one a callback is   *)
(* joining or about to keep.  A start that is has the mutex, and the ivar is *)
(* empty: of two threads a stop joins one.                                   *)
LEMMA OnlyStopsHoldAnother == SourceOrder => SecondSenderIsJoined
<1> SUFFICES ASSUME SourceOrder, NEW v \in Workers, NEW w \in Workers,
                    worker[v] = "running", worker[w] = "running", v # w,
                    \A c \in Callbacks : pc[c] = "joinStop" => joining[c] \notin {v, w}
             PROVE  FALSE
  BY DEF SecondSenderIsJoined
<1>1. TypeOK /\ MutexIsHeld /\ WorkersAreKnown
  BY DEF SourceOrder
<1>2. ASSUME NEW u \in {v, w}, NEW c \in Callbacks, joining[c] = u
      PROVE  mutex = c /\ handle = NoWorker
  <2>1. u # NoWorker /\ ~Ended(u)
    BY WorkersAssumption DEF Ended
  <2>2. pc[c] \in {"join", "keep"}
    BY <1>1, <1>2, <2>1 DEF WorkersAreKnown
  <2> QED  BY <1>1, <2>2 DEF WorkersAreKnown, MutexIsHeld, HolderAt, StartingAt
<1>3. \A u \in {v, w} : handle = u \/ \E c \in Callbacks : joining[c] = u
  BY <1>1 DEF WorkersAreKnown, Ended
<1> QED  BY <1>2, <1>3, WorkersAssumption

(* However callbacks overlap, and whatever one of them, a panic or a worker's *)
(* end leaves behind: of two threads that send a stop under way is joining   *)
(* one, a running state has a worker to reap unless a start overtook a stop, *)
(* no state is one that neither start nor stop leaves, and no client gets    *)
(* past its connection without a signing id.                                 *)
THEOREM ProcessInvHolds == ProcessSpec => []ProcessInv
<1>1. ASSUME ProcessOrder PROVE ProcessInv
  <2>1. SourceOrder /\ TypeOK /\ StateIsLeft
    BY <1>1 DEF ProcessOrder, SourceOrder
  <2>2. NeverWedged /\ NotStranded
    BY <2>1 DEF NeverWedged, NotStranded, StateIsLeft, Settling, StartingAt, StoppingAt,
                TypeOK, States
  <2> QED
    BY <1>1, <2>1, <2>2, OnlyStopsHoldAnother
      DEF ProcessOrder, LoopRuns, ClientsAuthorized, ProcessInv, SourceInv
<1> QED  BY <1>1, ProcessInvariance, PTL

(* When a stop answers Ok, every thread of the stream has ended, or another  *)
(* stop under way is still going to join it, however callbacks overlap.      *)
THEOREM StoppedIsSilentHolds == ProcessSpec => StoppedIsSilent
<1> DEFINE Silent == \A c \in Callbacks :
                       pc[c] = "finishStop" /\ pc'[c] = "idle" /\ state = "Stopping" =>
                         \A w \in Workers :
                           ~Ended(w) => \E d \in Callbacks \ {c} : Joins(d, w)
<1>1. SourceOrder => Silent
  BY DEF SourceOrder, StateIsLeft, Joins
<1>2. ProcessOrder => [Silent]_vars
  BY <1>1 DEF ProcessOrder
<1>3. StoppedIsSilent <=> [][Silent]_vars
  BY DEF StoppedIsSilent
<1> HIDE DEF Silent
<1> QED  BY <1>2, <1>3, ProcessInvariance, PTL DEF ProcessSpec
-----------------------------------------------------------------------------
(* Bytes *)

LEMMA Products ==
  ASSUME NEW a \in Nat, NEW b \in Nat, NEW c \in Nat, a <= b
  PROVE  a * c \in Nat /\ b * c \in Nat /\ a * c <= b * c
<1>1. PICK d \in Nat : b = a + d
  <2>1. b - a \in Nat /\ b = a + (b - a)
    OBVIOUS
  <2> QED  BY <2>1
<1>2. a * c \in Nat /\ d * c \in Nat
  OBVIOUS
<1>3. b * c = a * c + d * c
  BY <1>1
<1> QED  BY <1>2, <1>3

LEMMA WholePages ==
  ASSUME NEW n \in Nat, NEW p \in Nat \ {0}
  PROVE  (n \div p) * p \in Nat /\ n < (n \div p) * p + p
<1>1. n \div p \in Nat /\ n < (n \div p) * p + p
  OBVIOUS
<1> QED  BY <1>1

(* A mapping that is not refused holds the header and every slot. *)
LEMMA MappingHoldsSlots ==
  ASSUME NEW capacity \in Nat, MappedLen(capacity) # 0
  PROVE  /\ capacity * SlotCount \in Nat
         /\ capacity * SlotCount + HeaderBytes <= MappedLen(capacity)
         /\ capacity * SlotCount + HeaderBytes + PageBytes - 1 <= WordMax
<1> DEFINE raw == capacity * SlotCount + HeaderBytes + PageBytes - 1
<1>1. capacity * SlotCount \in Nat /\ raw \in Nat
  BY WordAssumption, PageAssumption
<1>2. raw <= WordMax /\ MappedLen(capacity) = (raw \div PageBytes) * PageBytes
  BY DEF MappedLen, Fits
<1> HIDE DEF raw
<1>3. (raw \div PageBytes) * PageBytes \in Nat /\ raw < (raw \div PageBytes) * PageBytes + PageBytes
  BY <1>1, PageAssumption, WholePages
<1> QED  BY <1>1, <1>2, <1>3, WordAssumption, PageAssumption DEF raw

(* Slots lie one behind the other. *)
LEMMA SlotsInARow ==
  ASSUME NEW capacity \in Nat, NEW i \in Nat, NEW j \in Nat, i < j
  PROVE  /\ SlotOffset(i, capacity) \in Nat
         /\ SlotOffset(i, capacity) >= HeaderBytes
         /\ SlotOffset(i, capacity) + capacity <= SlotOffset(j, capacity)
<1>1. i + 1 \in Nat /\ i + 1 <= j
  OBVIOUS
<1>2. (i + 1) * capacity \in Nat /\ (i + 1) * capacity <= j * capacity
  BY <1>1, Products
<1>3. i * capacity \in Nat /\ (i + 1) * capacity = i * capacity + capacity /\ j * capacity \in Nat
  OBVIOUS
<1> QED  BY <1>2, <1>3, WordAssumption DEF SlotOffset

LEMMA SlotsAreInside == SlotsStayInside
<1>1. HeaderIsValid(NewHeader(Capacity))
  BY MediumAssumption, PageAssumption DEF HeaderIsValid, NewHeader
<1>2. ASSUME NEW region \in Regions, HeaderIsValid(region),
             NEW i \in 0 .. region.slots - 1 \cup region.active, NEW j \in 0 .. region.slots - 1
      PROVE  /\ SlotBytes(i, region.capacity) \subseteq HeaderBytes .. region.length - 1
             /\ i # j => SlotBytes(i, region.capacity) \cap SlotBytes(j, region.capacity) = {}
  <2> DEFINE capacity == region.capacity
  <2>1. /\ capacity \in Nat /\ region.length = MappedLen(capacity) /\ MappedLen(capacity) # 0
        /\ i \in Nat /\ i < SlotCount /\ j \in Nat /\ j < SlotCount /\ SlotCount \in Nat
    BY <1>2, MediumAssumption, PageAssumption DEF HeaderIsValid
  <2> HIDE DEF capacity
  <2>2. capacity * SlotCount \in Nat /\ capacity * SlotCount + HeaderBytes <= region.length
    BY <2>1, MappingHoldsSlots
  <2>3. SlotOffset(SlotCount, capacity) = capacity * SlotCount + HeaderBytes
    BY <2>1, WordAssumption DEF SlotOffset
  <2>4. region.length \in Int
    BY <2>1, MappingHoldsSlots, WordAssumption, PageAssumption DEF MappedLen
  <2>5. /\ SlotOffset(i, capacity) \in Nat /\ SlotOffset(i, capacity) >= HeaderBytes
        /\ SlotOffset(i, capacity) + capacity <= region.length
    <3>1. /\ SlotOffset(i, capacity) \in Nat /\ SlotOffset(i, capacity) >= HeaderBytes
          /\ SlotOffset(i, capacity) + capacity <= SlotOffset(SlotCount, capacity)
      BY <2>1, SlotsInARow
    <3> QED  BY <2>1, <2>2, <2>3, <2>4, <3>1, WordAssumption
  <2>6. SlotBytes(i, capacity) \subseteq HeaderBytes .. region.length - 1
    BY <2>1, <2>4, <2>5, WordAssumption DEF SlotBytes
  <2>7. ASSUME i # j
        PROVE  SlotBytes(i, capacity) \cap SlotBytes(j, capacity) = {}
    <3>1. SlotOffset(j, capacity) \in Nat
      BY <2>1, SlotsInARow
    <3>2. CASE i < j
      <4>1. SlotOffset(i, capacity) + capacity <= SlotOffset(j, capacity)
        BY <2>1, <3>2, SlotsInARow
      <4> QED  BY <2>1, <2>5, <3>1, <4>1 DEF SlotBytes
    <3>3. CASE j < i
      <4>1. SlotOffset(j, capacity) + capacity <= SlotOffset(i, capacity)
        BY <2>1, <3>3, SlotsInARow
      <4> QED  BY <2>1, <2>5, <3>1, <4>1 DEF SlotBytes
    <3> QED  BY <2>1, <2>7, <3>2, <3>3
  <2> QED  BY <2>6, <2>7 DEF capacity
<1> QED  BY <1>1, <1>2 DEF SlotsStayInside

-----------------------------------------------------------------------------
(* Views *)

(* The nearest pixel is one of the source. *)
LEMMA NearestIsInside ==
  ASSUME NEW dest \in Nat, NEW sourceSize \in Nat \ {0}, NEW destSize \in Nat
  PROVE  NearestSourceCoordinate(dest, sourceSize, destSize) \in 0 .. sourceSize - 1
<1> DEFINE n == dest * sourceSize
           d == AtLeast(1, destSize)
<1>1. n \in Nat /\ d \in Nat \ {0}
  BY DEF AtLeast
<1> HIDE DEF n, d
<1>2. n \div d \in Nat
  BY <1>1
<1> QED  BY <1>2 DEF NearestSourceCoordinate, AtMost, Minus, AtLeast, n, d

(* A view is not empty, and its rows lie behind one another in what is offered. *)
LEMMA ViewFacts ==
  ASSUME OfferIsOfFrame, NEW view \in Views
  PROVE  /\ view.width \in Nat \ {0} /\ view.height \in Nat \ {0}
         /\ view.stride = view.width * BytesPerPixel
         /\ medium.offer.length = view.height * view.stride
<1> DEFINE offer == medium.offer
<1>1. offer # Nothing
  BY DEF Views
<1>2. /\ view = ViewOf(offer.width, offer.height, offer.colorimetry)
      /\ view.width # 0 /\ view.height # 0
      /\ offer.length = ByteLen(view.width, view.height)
  <2>1. CASE Shared
    BY <1>1, <2>1 DEF Views, SharedViews, SlotIsValid, ViewIsValid, ViewOf
  <2>2. CASE ~Shared
    BY <1>1, <2>2 DEF Views, SpoolViews, FrameIsValid, ViewOf
  <2> QED  BY <2>1, <2>2
<1>3. offer.width \in Nat /\ offer.height \in Nat
  <2>1. CASE medium.frame = Nothing
    BY <1>1, <2>1, MediumAssumption DEF OfferIsOfFrame
  <2>2. CASE medium.frame # Nothing
    BY <2>2, MediumAssumption DEF OfferIsOfFrame, SlotMetadata, SpoolFile
  <2> QED  BY <2>1, <2>2
<1>4. /\ view.width = offer.width /\ view.height = offer.height
      /\ view.stride = view.width * BytesPerPixel
  BY <1>2 DEF ViewOf
<1>5. ByteLen(view.width, view.height) = view.height * view.stride
  BY <1>3, <1>4 DEF ByteLen, BytesPerPixel
<1> QED  BY <1>2, <1>3, <1>4, <1>5

(* What is drawn over is the whole output, out of pixels of the view. *)
LEMMA DrawnPixels ==
  ASSUME OfferIsOfFrame, NEW view \in Views
  PROVE  /\ DOMAIN DrawnFrom(view, OutWidth, OutHeight) = OutputPixels(OutWidth, OutHeight)
         /\ \A p \in OutputPixels(OutWidth, OutHeight) :
              /\ p[1] \in 0 .. OutWidth - 1 /\ p[2] \in 0 .. OutHeight - 1
              /\ DrawnFrom(view, OutWidth, OutHeight)[p][1] \in 0 .. view.width - 1
              /\ DrawnFrom(view, OutWidth, OutHeight)[p][2] \in 0 .. view.height - 1
<1>1. view.width \in Nat \ {0} /\ view.height \in Nat \ {0}
  BY ViewFacts
<1>2. DOMAIN DrawnFrom(view, OutWidth, OutHeight) = OutputPixels(OutWidth, OutHeight)
  BY <1>1 DEF DrawnFrom
<1>3. ASSUME NEW p \in OutputPixels(OutWidth, OutHeight)
      PROVE  /\ p[1] \in 0 .. OutWidth - 1 /\ p[2] \in 0 .. OutHeight - 1
             /\ DrawnFrom(view, OutWidth, OutHeight)[p][1] \in 0 .. view.width - 1
             /\ DrawnFrom(view, OutWidth, OutHeight)[p][2] \in 0 .. view.height - 1
  <2>1. p[1] \in 0 .. OutWidth - 1 /\ p[2] \in 0 .. OutHeight - 1
    BY DEF OutputPixels
  <2>2. CASE view.width = OutWidth /\ view.height = OutHeight
    BY <1>1, <2>1, <2>2 DEF DrawnFrom
  <2>3. CASE ~(view.width = OutWidth /\ view.height = OutHeight)
    <3>1. DrawnFrom(view, OutWidth, OutHeight)[p] =
            <<NearestSourceCoordinate(p[1], view.width, OutWidth),
              NearestSourceCoordinate(p[2], view.height, OutHeight)>>
      BY <1>1, <2>3 DEF DrawnFrom
    <3>2. /\ NearestSourceCoordinate(p[1], view.width, OutWidth) \in 0 .. view.width - 1
          /\ NearestSourceCoordinate(p[2], view.height, OutHeight) \in 0 .. view.height - 1
      <4>1. p[1] \in Nat /\ p[2] \in Nat /\ OutWidth \in Nat /\ OutHeight \in Nat
        BY <2>1, StrideAssumption
      <4> QED  BY <1>1, <4>1, NearestIsInside
    <3> QED  BY <2>1, <3>1, <3>2
  <2> QED  BY <2>2, <2>3
<1> QED  BY <1>2, <1>3

(* A pixel of a row lies in the row, and a row before the end of the rows. *)
LEMMA RowsAreInside ==
  ASSUME NEW x \in Nat, NEW y \in Nat, NEW width \in Nat, NEW height \in Nat, NEW stride \in Nat,
         x < width, y < height, stride >= width * BytesPerPixel
  PROVE  /\ y * stride \in Nat /\ height * stride \in Nat
         /\ x * BytesPerPixel + BytesPerPixel <= width * BytesPerPixel
         /\ y * stride + width * BytesPerPixel <= height * stride
<1>1. y + 1 \in Nat /\ y + 1 <= height
  OBVIOUS
<1>2. (y + 1) * stride \in Nat /\ (y + 1) * stride <= height * stride /\ height * stride \in Nat
  BY <1>1, Products
<1>3. y * stride \in Nat /\ (y + 1) * stride = y * stride + stride
  OBVIOUS
<1>4. x * BytesPerPixel + BytesPerPixel <= width * BytesPerPixel
  BY DEF BytesPerPixel
<1>5. width * BytesPerPixel \in Nat
  BY DEF BytesPerPixel
<1> QED  BY <1>2, <1>3, <1>4, <1>5

LEMMA UploadIsInside == OfferIsOfFrame => UploadStaysInside
<1> SUFFICES ASSUME OfferIsOfFrame, NEW view \in Views,
                    NEW p \in DOMAIN DrawnFrom(view, OutWidth, OutHeight)
             PROVE  LET q == DrawnFrom(view, OutWidth, OutHeight)[p]
                    IN  /\ PixelBytes(q, view.stride) \subseteq RowBytes(view, q[2])
                        /\ RowBytes(view, q[2]) \subseteq 0 .. medium.offer.length - 1
                        /\ PixelBytes(p, OutStride) \subseteq 0 .. OutHeight * OutStride - 1
  BY DEF UploadStaysInside
<1> DEFINE q == DrawnFrom(view, OutWidth, OutHeight)[p]
<1>1. /\ view.width \in Nat \ {0} /\ view.height \in Nat \ {0}
      /\ view.stride = view.width * BytesPerPixel /\ view.stride \in Nat
      /\ medium.offer.length = view.height * view.stride
  BY ViewFacts DEF BytesPerPixel
<1>2. /\ p[1] \in 0 .. OutWidth - 1 /\ p[2] \in 0 .. OutHeight - 1
      /\ q[1] \in 0 .. view.width - 1 /\ q[2] \in 0 .. view.height - 1
  BY DrawnPixels
<1> HIDE DEF q
<1>3. /\ q[1] \in Nat /\ q[2] \in Nat /\ q[1] < view.width /\ q[2] < view.height
      /\ p[1] \in Nat /\ p[2] \in Nat /\ p[1] < OutWidth /\ p[2] < OutHeight
      /\ view.stride >= view.width * BytesPerPixel
  BY <1>1, <1>2, StrideAssumption
<1>4. /\ q[2] * view.stride \in Nat /\ view.height * view.stride \in Nat
      /\ q[1] * BytesPerPixel + BytesPerPixel <= view.width * BytesPerPixel
      /\ q[2] * view.stride + view.width * BytesPerPixel <= view.height * view.stride
  BY <1>1, <1>3, RowsAreInside
<1>5. /\ p[2] * OutStride \in Nat /\ OutHeight * OutStride \in Nat
      /\ p[1] * BytesPerPixel + BytesPerPixel <= OutWidth * BytesPerPixel
      /\ p[2] * OutStride + OutWidth * BytesPerPixel <= OutHeight * OutStride
  BY <1>3, StrideAssumption, RowsAreInside
<1>6. PixelBytes(q, view.stride) \subseteq RowBytes(view, q[2])
  BY <1>1, <1>3, <1>4 DEF PixelBytes, RowBytes, BytesPerPixel
<1>7. RowBytes(view, q[2]) \subseteq 0 .. medium.offer.length - 1
  BY <1>1, <1>3, <1>4 DEF RowBytes, BytesPerPixel
<1>8. PixelBytes(p, OutStride) \subseteq 0 .. OutHeight * OutStride - 1
  BY <1>3, <1>5, StrideAssumption DEF PixelBytes, BytesPerPixel
<1> QED  BY <1>6, <1>7, <1>8 DEF q

(* The checks of a reader pass whatever the checks of a sink let through. *)
LEMMA AcceptedFrameIsShown == OfferIsOfFrame => AcceptedIsShown
<1> SUFFICES ASSUME OfferIsOfFrame, medium.frame # Nothing,
                    Shared \/ ByteLen(medium.frame.width, medium.frame.height) <= ReaderLimit
             PROVE  \E view \in Views : /\ view.width = medium.frame.width
                                        /\ view.height = medium.frame.height
                                        /\ IsShown(view)
  BY DEF AcceptedIsShown
<1> DEFINE f == medium.frame
           bytes == ByteLen(f.width, f.height)
           view == ViewOf(f.width, f.height, "FullOpaque")
<1>1. /\ f \in Frames /\ f.width \in Nat \ {0} /\ f.height \in Nat \ {0}
      /\ f.contract = CanonicalContract(f.width, f.height)
      /\ medium.offer = IF Shared THEN SlotMetadata(f) ELSE SpoolFile(f)
      /\ Shared => bytes <= Capacity
  BY MediumAssumption DEF OfferIsOfFrame, SharedSinkAccepts, SpoolAccepts, IsCanonical
<1>2. medium.offer # Nothing /\ f.contract.colorimetry = "FullOpaque"
  BY <1>1, MediumAssumption DEF CanonicalContract
<1>3. /\ view.width = f.width /\ view.height = f.height
      /\ view.stride = f.width * BytesPerPixel
      /\ view.contract = CanonicalContract(f.width, f.height)
  BY DEF ViewOf, CanonicalContract
<1>4. IsShown(view) /\ ContractIsValid(view.contract, view)
  <2>1. IsShown(view)
    BY <1>3 DEF IsShown
  <2>2. /\ view.contract.square = <<1, 1>>
        /\ view.contract.aperture = [x |-> 0, y |-> 0, width |-> f.width, height |-> f.height]
    BY <1>3 DEF CanonicalContract, Rect
  <2> HIDE DEF view, f
  <2>3. ApertureIsValid(view.contract.aperture, view.width, view.height)
    BY <1>1, <1>3, <2>2 DEF ApertureIsValid, IsEmpty
  <2>4. 0 \notin {view.contract.square[1], view.contract.square[2]}
    BY <2>2
  <2> QED  BY <2>1, <2>3, <2>4 DEF ContractIsValid
<1>5. bytes \in Nat /\ bytes <= WordMax
  <2>1. bytes \in Nat
    BY <1>1 DEF ByteLen, BytesPerPixel
  <2>2. CASE Shared
    <3>1. Capacity * SlotCount \in Nat /\ Capacity * SlotCount + HeaderBytes + PageBytes - 1 <= WordMax
      BY MediumAssumption, MappingHoldsSlots
    <3>2. 1 * Capacity <= SlotCount * Capacity
      BY MediumAssumption, PageAssumption, Products
    <3>3. SlotCount * Capacity = Capacity * SlotCount /\ 1 * Capacity = Capacity
      BY MediumAssumption, PageAssumption
    <3>4. bytes <= Capacity
      BY <1>1, <2>2
    <3> HIDE DEF bytes
    <3>5. Capacity <= WordMax
      BY <3>1, <3>2, <3>3, MediumAssumption, WordAssumption, PageAssumption
    <3> QED  BY <2>1, <3>4, <3>5, MediumAssumption, WordAssumption
  <2>3. CASE ~Shared
    <3> HIDE DEF bytes
    <3> QED  BY <2>1, <2>3, WordAssumption, MediumAssumption DEF bytes
  <2> QED  BY <2>1, <2>2, <2>3
<1>6. RequiredBytes(view.width, view.height, view.stride) = bytes
  BY <1>1, <1>3 DEF RequiredBytes, ByteLen, BytesPerPixel
<1>7. view.width # 0 /\ view.height # 0
  BY <1>1, <1>3
<1>8. CASE Shared
  <2>1. /\ medium.offer.width = f.width /\ medium.offer.height = f.height
        /\ medium.offer.colorimetry = "FullOpaque" /\ medium.offer.length = bytes
    BY <1>1, <1>2, <1>8 DEF SlotMetadata
  <2>2. SlotIsValid(medium.offer, Capacity)
    BY <1>1, <1>5, <1>8, <2>1 DEF SlotIsValid, Fits
  <2>3. ViewIsValid(view.width, view.height, view.stride, bytes)
    BY <1>1, <1>3, <1>5, <1>6, <1>7 DEF ViewIsValid, Fits, BytesPerPixel
  <2>4. view \in Views
    BY <1>2, <1>4, <1>8, <2>1, <2>2, <2>3 DEF Views, SharedViews
  <2> HIDE DEF view
  <2> QED  BY <1>3, <1>4, <2>4
<1>9. CASE ~Shared
  <2>1. /\ medium.offer.width = f.width /\ medium.offer.height = f.height
        /\ medium.offer.colorimetry = "FullOpaque" /\ medium.offer.length = bytes
        /\ medium.offer.version = "ours" /\ medium.offer.bytes = SpoolHeader + bytes
    BY <1>1, <1>2, <1>9 DEF SpoolFile
  <2>2. bytes <= LimitOf(ReaderLimit) /\ LimitOf(ReaderLimit) \in Nat
    BY <1>9, MediumAssumption, WordAssumption DEF LimitOf, AtLeast
  <2>3. FrameIsValid(view.width, view.height, medium.offer.length, ReaderLimit)
    BY <1>3, <1>5, <1>7, <2>1, <2>2 DEF FrameIsValid, Fits
  <2>4. /\ medium.offer.bytes <= LimitOf(ReaderLimit) + SpoolHeader
        /\ medium.offer.bytes >= SpoolHeader
    BY <1>5, <2>1, <2>2, WordAssumption
  <2>5. view \in Views
    BY <1>2, <1>4, <1>9, <2>1, <2>3, <2>4 DEF Views, SpoolViews
  <2> HIDE DEF view
  <2> QED  BY <1>3, <1>4, <2>5
<1> QED  BY <1>8, <1>9

-----------------------------------------------------------------------------
(* The inductive invariant of what clients are sent *)

LEMMA InitPicture == ProcessInit => PictureOrder
<1> SUFFICES ASSUME ProcessInit PROVE PictureOrder
  OBVIOUS
<1>1. /\ medium.frame = Nothing /\ MediumIsRecord
      /\ medium.offer \in {Nothing} \cup (IF medium.mode = "File" THEN Leftovers ELSE {})
  BY DEF ProcessInit, MediumIsRecord
<1>2. OfferIsOfFrame
  BY <1>1 DEF OfferIsOfFrame, Shared
<1>3. BuffersTypeOK /\ KeptIsWhole /\ SamplesAreWhole
  BY DEF ProcessInit, BuffersTypeOK, KeptIsWhole, SamplesAreWhole
<1> QED  BY <1>1, <1>2, <1>3 DEF PictureOrder

(* The transport: a sink that takes a frame offers it. *)
LEMMA SendKeepsOffer ==
  ASSUME MediumIsRecord, OfferIsOfFrame, SendFrame \/ WriterLeaves
  PROVE  MediumIsRecord' /\ OfferIsOfFrame'
<1>1. CASE SendFrame
  <2>1. PICK f \in Frames :
          /\ IF Shared THEN SharedSinkAccepts(f, Capacity) ELSE SpoolAccepts(f)
          /\ medium' = [medium EXCEPT !.frame = f,
                                      !.offer = IF Shared THEN SlotMetadata(f) ELSE SpoolFile(f)]
    BY <1>1 DEF SendFrame
  <2>2. medium' = [mode |-> medium.mode, frame |-> f,
                   offer |-> IF Shared THEN SlotMetadata(f) ELSE SpoolFile(f)]
    BY <2>1 DEF MediumIsRecord
  <2>3. /\ medium'.mode = medium.mode /\ medium'.frame = f
        /\ medium'.offer = IF Shared THEN SlotMetadata(f) ELSE SpoolFile(f)
        /\ MediumIsRecord'
    BY <2>2 DEF MediumIsRecord
  <2>4. f # Nothing
    BY MediumAssumption
  <2> QED  BY <2>1, <2>3, <2>4 DEF OfferIsOfFrame, Shared
<1>2. CASE WriterLeaves
  <2>1. Shared /\ medium' = [mode |-> medium.mode, frame |-> Nothing, offer |-> Nothing]
    BY <1>2 DEF WriterLeaves, MediumIsRecord
  <2> QED  BY <2>1 DEF OfferIsOfFrame, Shared, MediumIsRecord
<1> QED  BY <1>1, <1>2

(* An upload draws over all of the buffer, whatever it showed. *)
LEMMA DrawingIsWhole ==
  ASSUME OfferIsOfFrame, NEW view \in Views
  PROVE  Drawing(view) = "whole"
  BY DrawnPixels DEF Drawing

(* A buffer is back in the pool when neither a client nor the worker has it. *)
LEMMA PollKeepsBuffers ==
  ASSUME BuffersTypeOK, OfferIsOfFrame, KeptIsWhole, SamplesAreWhole, NEW w \in Workers, PollFrame(w)
  PROVE  BuffersTypeOK' /\ KeptIsWhole' /\ SamplesAreWhole'
<1>1. CASE Forget(w)
  BY <1>1, BuffersAssumption
    DEF PollFrame, Forget, Returned, BuffersTypeOK, KeptIsWhole, SamplesAreWhole
<1>2. CASE UNCHANGED <<last, content>>
  BY <1>2 DEF PollFrame, BuffersTypeOK, KeptIsWhole, SamplesAreWhole
<1>3. ASSUME NEW view \in Views, NEW b \in Free(w), last' = [last EXCEPT ![w] = b],
             content' = [content EXCEPT ![w] = [Returned(w, {last[w]} \ held[w])
                                                   EXCEPT ![b] = Drawing(view)]]
      PROVE  BuffersTypeOK' /\ KeptIsWhole' /\ SamplesAreWhole'
  <2>1. Drawing(view) = "whole"
    BY DrawingIsWhole
  <2>2. held' = held
    BY DEF PollFrame
  <2>3. b \in Buffers /\ b \notin held[w] /\ b # last[w] /\ b # NoBuffer
    BY BuffersAssumption DEF Free
  <2> QED  BY <1>3, <2>1, <2>2, <2>3, BuffersAssumption
         DEF Returned, BuffersTypeOK, KeptIsWhole, SamplesAreWhole
<1> QED  BY <1>1, <1>2, <1>3 DEF PollFrame

LEMMA SendKeepsBuffers ==
  ASSUME BuffersTypeOK, KeptIsWhole, SamplesAreWhole, NEW w \in Workers, SendSample(w)
  PROVE  BuffersTypeOK' /\ KeptIsWhole' /\ SamplesAreWhole'
<1>1. last' = last
  BY DEF SendSample
<1>2. ASSUME NEW b \in SampleBuffers(w),
             content' = IF b = last[w] THEN content
                        ELSE [content EXCEPT ![w][b] = IF format' = "made" THEN "whole" ELSE "old"],
             held' = [held EXCEPT ![w] = IF format' = "made" THEN @ \cup {b} ELSE @]
      PROVE  BuffersTypeOK' /\ KeptIsWhole' /\ SamplesAreWhole'
  <2>1. b \in Buffers
    BY DEF SampleBuffers, Free, BuffersTypeOK
  <2>2. CASE b = last[w]
    BY <1>1, <1>2, <2>1, <2>2, BuffersAssumption DEF BuffersTypeOK, KeptIsWhole, SamplesAreWhole
  <2>3. CASE b # last[w]
    <3>1. b \notin held[w]
      BY <2>3 DEF SampleBuffers, Free
    <3> QED  BY <1>1, <1>2, <2>1, <2>3, <3>1, BuffersAssumption
           DEF BuffersTypeOK, KeptIsWhole, SamplesAreWhole
  <2> QED  BY <2>2, <2>3
<1>3. CASE UNCHANGED <<content, held>>
  BY <1>1, <1>3 DEF BuffersTypeOK, KeptIsWhole, SamplesAreWhole
<1> QED  BY <1>2, <1>3 DEF SendSample

LEMMA ReleaseKeepsBuffers ==
  ASSUME BuffersTypeOK, KeptIsWhole, SamplesAreWhole, NEW w \in Workers, NEW b \in Buffers,
         ReleaseSample(w, b)
  PROVE  BuffersTypeOK' /\ KeptIsWhole' /\ SamplesAreWhole'
  BY DEF ReleaseSample, Returned, BuffersTypeOK, KeptIsWhole, SamplesAreWhole

LEMMA LeaveKeepsBuffers ==
  ASSUME BuffersTypeOK, KeptIsWhole, SamplesAreWhole, NEW w \in Workers, LeaveLoop(w)
  PROVE  BuffersTypeOK' /\ KeptIsWhole' /\ SamplesAreWhole'
  BY DEF LeaveLoop, Returned, BuffersTypeOK, KeptIsWhole, SamplesAreWhole

LEMMA NextPicture == PictureOrder /\ [ProcessNext]_all => PictureOrder'
<1> SUFFICES ASSUME PictureOrder, [ProcessNext]_all PROVE PictureOrder'
  OBVIOUS
<1>0. BuffersTypeOK /\ MediumIsRecord /\ OfferIsOfFrame /\ KeptIsWhole /\ SamplesAreWhole
  BY DEF PictureOrder
<1>1. UNCHANGED medium => MediumIsRecord' /\ OfferIsOfFrame'
  BY <1>0 DEF MediumIsRecord, OfferIsOfFrame, Shared
<1>2. UNCHANGED <<last, held, content>> => BuffersTypeOK' /\ KeptIsWhole' /\ SamplesAreWhole'
  BY <1>0 DEF BuffersTypeOK, KeptIsWhole, SamplesAreWhole
<1>3. CASE SendFrame \/ WriterLeaves
  <2>1. UNCHANGED poolVars
    BY <1>3 DEF SendFrame, WriterLeaves
  <2> QED  BY <1>0, <1>2, <1>3, <2>1, SendKeepsOffer DEF poolVars, PictureOrder
<1>4. CASE UNCHANGED <<medium, last, held, content>>
  BY <1>1, <1>2, <1>4 DEF PictureOrder
<1>5. ASSUME NEW w \in Workers, PollFrame(w) PROVE PictureOrder'
  <2>1. UNCHANGED medium
    BY <1>5 DEF PollFrame
  <2> QED  BY <1>0, <1>1, <1>5, <2>1, PollKeepsBuffers DEF PictureOrder
<1>6. ASSUME NEW w \in Workers, SendSample(w) PROVE PictureOrder'
  <2>1. UNCHANGED medium
    BY <1>6 DEF SendSample
  <2> QED  BY <1>0, <1>1, <1>6, <2>1, SendKeepsBuffers DEF PictureOrder
<1>7. ASSUME NEW w \in Workers, LeaveLoop(w) PROVE PictureOrder'
  <2>1. UNCHANGED medium
    BY <1>7 DEF LeaveLoop
  <2> QED  BY <1>0, <1>1, <1>7, <2>1, LeaveKeepsBuffers DEF PictureOrder
<1>8. ASSUME NEW w \in Workers, NEW b \in Buffers, ReleaseSample(w, b) PROVE PictureOrder'
  <2>1. UNCHANGED medium
    BY <1>8 DEF ReleaseSample
  <2> QED  BY <1>0, <1>1, <1>8, <2>1, ReleaseKeepsBuffers DEF PictureOrder
<1>9. ASSUME \/ AttachStream \/ StartService \/ Relaunch \/ AskFormats
             \/ \E k \in Clients : ConnectClient(k) \/ AuthorizeStart(k) \/ DisconnectClient(k)
             \/ \E c \in Callbacks : StartStream(c) \/ RunCallback(c)
             \/ \E w \in Workers : EnterLoop(w) \/ FindDue(w) \/ FinishWorker(w)
             \/ UNCHANGED all
      PROVE  PictureOrder'
  <2>1. UNCHANGED <<medium, last, held, content>>
    BY <1>9 DEF AttachStream, StartService, Relaunch, AskFormats, ConnectClient, AuthorizeStart,
                DisconnectClient, StartStream, RunCallback, EnterLoop, FindDue, FinishWorker,
                all, poolVars
  <2> QED  BY <1>4, <2>1
<1> QED  BY <1>3, <1>5, <1>6, <1>7, <1>8, <1>9 DEF ProcessNext, WorkerStep

(* PictureOrder holds from the first state on, in every step. *)
LEMMA PictureInvariance == ProcessSpec => []PictureOrder
  BY InitPicture, NextPicture, PTL DEF ProcessSpec

(* PictureInv: the slots of any region that passes validation lie apart and   *)
(* inside it, an upload reads inside the slot or the file and writes inside   *)
(* the buffer, a frame a sink took is shown, and no sample holds a pixel of   *)
(* an earlier one, for every size of frames, slots and output and every pool, *)
(* and whatever callbacks overlap (protocol.rs, validation.rs,                *)
(* pixel_buffer.rs, stream_samples).                                          *)
THEOREM PictureInvHolds == ProcessSpec => []PictureInv
<1>1. PictureOrder => PictureInv
  BY SlotsAreInside, UploadIsInside, AcceptedFrameIsShown DEF PictureOrder, PictureInv
<1> QED  BY <1>1, PictureInvariance, PTL
=============================================================================
