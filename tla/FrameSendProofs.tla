-------------------------- MODULE FrameSendProofs --------------------------
(***************************************************************************)
(* One thread at a time prepares the frames of a kind, and so the send     *)
(* manager implements ManualSession.  Both for every number of threads,    *)
(* ports and results, with both dialogs and with frames received, provided *)
(* that the UI thread's Sleep(100) outlasts the entry of the thread begun. *)
(***************************************************************************)
EXTENDS FrameSendTypes

(* OneFramer is kept because of three facts: the UI thread sleeps until a  *)
(* thread it began has decided what to do, an update prepares only what is *)
(* being sent, and a stop goes on only when nothing is prepared.           *)
UiWaitsForEntry == \A w \in Workers :
  worker[w].pc \in {"start", "update", "updatePrepare"} =>
    ui.pc = "sleep" /\ ui.spawned = w

UpdateOfSending == \A w \in Workers :
  At(w, "updatePrepare") => sendStatus[worker[w].kind] = "SENDING"

StopAfterFraming ==
  ui.pc \in {"stopPorts", "stopped"} => sendStatus[StopKind] # "PREPARE"

FramerInv == OneFramer /\ UiWaitsForEntry /\ UpdateOfSending /\ StopAfterFraming

Entering == {"start", "update", "updatePrepare"}

(* Worker w moves, and neither begins nor ends the preparation of frames.  *)
MovesQuietly(w) ==
  /\ \A v \in Workers \ {w} : worker'[v] = worker[v]
  /\ worker[w].pc \in Preparing <=> worker'[w].pc \in Preparing
  /\ worker[w].pc \in Preparing => worker'[w].kind = worker[w].kind
  /\ worker'[w].pc \notin Entering
  /\ sendStatus' = sendStatus
  /\ ui'.pc = ui.pc /\ ui'.todo = ui.todo /\ ui'.spawned = ui.spawned

LEMMA QuietMove ==
  ASSUME FramerInv, NEW w \in Workers, MovesQuietly(w)
  PROVE  FramerInv'
<1> USE DEF MovesQuietly
<1>1. \A v \in Workers :
        worker[v].pc \in Preparing <=> worker'[v].pc \in Preparing
  OBVIOUS
<1>2. \A v \in Workers :
        worker[v].pc \in Preparing => worker'[v].kind = worker[v].kind
  OBVIOUS
<1>3. \A k \in Kind : Framers(k)' = Framers(k)
  BY <1>1, <1>2 DEF Framers
<1>4. OneFramer'
  BY <1>3 DEF FramerInv, OneFramer
<1>5. UiWaitsForEntry'
  BY DEF FramerInv, UiWaitsForEntry, Entering
<1>6. UpdateOfSending'
  BY DEF FramerInv, UpdateOfSending, At, Entering
<1>7. StopAfterFraming'
  BY DEF FramerInv, StopAfterFraming, StopKind
<1> QED
  BY <1>4, <1>5, <1>6, <1>7 DEF FramerInv

(* The UI thread moves while no thread is entering.                        *)
LEMMA UiMove ==
  ASSUME FramerInv, UNCHANGED <<sendStatus, worker>>,
         (\A w \in Workers : worker[w].pc \notin Entering)
           \/ (ui'.pc = ui.pc /\ ui'.spawned = ui.spawned),
         ui'.pc \in {"stopPorts", "stopped"} => sendStatus[StopKind'] # "PREPARE"
  PROVE  FramerInv'
<1>1. OneFramer'
  BY DEF FramerInv, OneFramer, Framers
<1>2. UiWaitsForEntry'
  BY DEF FramerInv, UiWaitsForEntry, Entering
<1>3. UpdateOfSending'
  BY DEF FramerInv, UpdateOfSending, At
<1>4. StopAfterFraming'
  BY DEF StopAfterFraming
<1> QED
  BY <1>1, <1>2, <1>3, <1>4 DEF FramerInv

LEMMA NobodyEnters ==
  ASSUME FramerInv, ui.pc # "sleep"
  PROVE  \A w \in Workers : worker[w].pc \notin Entering
BY DEF FramerInv, UiWaitsForEntry, Entering

(* Every step of a start but three neither begins nor ends a preparation.  *)
LEMMA StartMoves ==
  ASSUME TypeOK, NEW w \in Workers, StartStep(w)
  PROVE  MovesQuietly(w) \/ StartAccepted(w) \/ StartSucceeds(w) \/
           StartFails(w)
<1>1. CASE StartRejected(w)
  BY <1>1
  DEF StartRejected, At, manager, MovesQuietly, Preparing, Entering, TypeOK,
      WorkerTypeOK, UiTypeOK, FinishWorker, IdleWorker
<1>2. CASE StartWithoutResult(w)
  BY <1>2
  DEF StartWithoutResult, At, manager, MovesQuietly, Preparing, Entering,
      TypeOK, WorkerTypeOK, UiTypeOK, FinishWorker, IdleWorker
<1>3. CASE StartNotSaved(w)
  BY <1>3
  DEF StartNotSaved, At, manager, MovesQuietly, Preparing, Entering, TypeOK,
      WorkerTypeOK, UiTypeOK, FinishWorker, IdleWorker
<1>4. CASE NothingToSend(w)
  BY <1>4
  DEF NothingToSend, At, manager, MovesQuietly, Preparing, Entering, TypeOK,
      WorkerTypeOK, UiTypeOK, NextPort
<1>5. CASE NotSampled(w)
  BY <1>5
  DEF NotSampled, At, manager, MovesQuietly, Preparing, Entering, TypeOK,
      WorkerTypeOK, UiTypeOK, FailWith
<1>6. CASE SendPort(w)
  BY <1>6
  DEF SendPort, At, manager, MovesQuietly, Preparing, Entering, TypeOK,
      WorkerTypeOK, UiTypeOK, NextPort
<1>7. CASE SendPortFails(w)
  BY <1>7
  DEF SendPortFails, At, manager, MovesQuietly, Preparing, Entering, TypeOK,
      WorkerTypeOK, UiTypeOK, FailWith
<1>8. CASE SendPortCancelled(w)
  BY <1>8
  DEF SendPortCancelled, At, manager, MovesQuietly, Preparing, Entering,
      TypeOK, WorkerTypeOK, UiTypeOK, FailWith
<1>9. CASE AllPortsSent(w)
  BY <1>9
  DEF AllPortsSent, At, manager, MovesQuietly, Preparing, Entering, TypeOK,
      WorkerTypeOK, UiTypeOK, Goto
<1>10. CASE StartFailsUnderLock(w)
  BY <1>10
  DEF StartFailsUnderLock, At, manager, MovesQuietly, Preparing, Entering,
      TypeOK, WorkerTypeOK, UiTypeOK, Goto
<1> QED
  BY <1>1, <1>2, <1>3, <1>4, <1>5, <1>6, <1>7, <1>8, <1>9, <1>10
  DEF StartStep

(* The same for an update.                                                 *)
LEMMA UpdateMoves ==
  ASSUME TypeOK, NEW w \in Workers, UpdateStep(w)
  PROVE  MovesQuietly(w) \/ UpdateChanged(w) \/ UpdatePrepares(w) \/
           UpdateDone(w)
<1>1. CASE UpdateRejected(w)
  BY <1>1
  DEF UpdateRejected, At, manager, MovesQuietly, Preparing, Entering, TypeOK,
      WorkerTypeOK, UiTypeOK, FinishWorker, IdleWorker
<1>2. CASE UpdateNotSaved(w)
  BY <1>2
  DEF UpdateNotSaved, At, manager, MovesQuietly, Preparing, Entering, TypeOK,
      WorkerTypeOK, UiTypeOK, FinishWorker, IdleWorker
<1>3. CASE UpdateUnchanged(w)
  BY <1>3
  DEF UpdateUnchanged, At, manager, MovesQuietly, Preparing, Entering,
      TypeOK, WorkerTypeOK, UiTypeOK, FinishWorker, IdleWorker
<1>4. CASE NothingToChange(w)
  BY <1>4
  DEF NothingToChange, At, manager, MovesQuietly, Preparing, Entering,
      TypeOK, WorkerTypeOK, UiTypeOK, NextPort
<1>5. CASE ChangePort(w)
  BY <1>5
  DEF ChangePort, At, manager, MovesQuietly, Preparing, Entering, TypeOK,
      WorkerTypeOK, UiTypeOK, NextPort
<1>6. CASE ChangePortFails(w)
  BY <1>6
  DEF ChangePortFails, At, manager, MovesQuietly, Preparing, Entering,
      TypeOK, WorkerTypeOK, UiTypeOK, FailWith
<1>7. CASE ChangePortCancelled(w)
  BY <1>7
  DEF ChangePortCancelled, At, manager, MovesQuietly, Preparing, Entering,
      TypeOK, WorkerTypeOK, UiTypeOK, FailWith
<1>8. CASE AllPortsChanged(w)
  BY <1>8
  DEF AllPortsChanged, At, manager, MovesQuietly, Preparing, Entering,
      TypeOK, WorkerTypeOK, UiTypeOK, Goto
<1> QED
  BY <1>1, <1>2, <1>3, <1>4, <1>5, <1>6, <1>7, <1>8
  DEF UpdateStep

(* A state sequence prepares no manual test.                               *)
LEMMA SequenceMoves ==
  ASSUME TypeOK, NEW w \in Workers, StartStateSequenceTest(w)
  PROVE  MovesQuietly(w)
<1>1. CASE SequenceRejected(w)
  BY <1>1
  DEF SequenceRejected, At, manager, MovesQuietly, Preparing, Entering,
      TypeOK, WorkerTypeOK, UiTypeOK, FailWith
<1>2. CASE SequenceAccepted(w)
  BY <1>2
  DEF SequenceAccepted, At, manager, MovesQuietly, Preparing, Entering,
      TypeOK, WorkerTypeOK, UiTypeOK, Goto
<1>3. CASE ClearSequenceResults(w) /\ Goto(w, "prepare")
  BY <1>3
  DEF ClearSequenceResults, At, manager, MovesQuietly, Preparing, Entering,
      TypeOK, WorkerTypeOK, UiTypeOK, Goto
<1>4. CASE ClearSequenceResults(w) /\ ReturnWith(w, "FAILURE")
  BY <1>4
  DEF ClearSequenceResults, At, manager, MovesQuietly, Preparing, Entering,
      TypeOK, WorkerTypeOK, UiTypeOK, ReturnWith, FailWith
<1>5. CASE PrepareCancelled(w)
  BY <1>5
  DEF PrepareCancelled, At, manager, MovesQuietly, Preparing, Entering,
      TypeOK, WorkerTypeOK, UiTypeOK, TakeCancel, ReturnWith, FailWith
<1>6. CASE FrameState(w)
  BY <1>6
  DEF FrameState, At, manager, MovesQuietly, Preparing, Entering, TypeOK,
      WorkerTypeOK, UiTypeOK, Goto
<1>7. CASE PrepareState(w)
  BY <1>7
  DEF PrepareState, At, manager, MovesQuietly, Preparing, Entering, TypeOK,
      WorkerTypeOK, UiTypeOK
<1>8. CASE FramingCancelled(w)
  BY <1>8
  DEF FramingCancelled, At, manager, MovesQuietly, Preparing, Entering,
      TypeOK, WorkerTypeOK, UiTypeOK, ReturnWith, FailWith
<1>9. CASE PrepareFails(w)
  BY <1>9
  DEF PrepareFails, At, manager, MovesQuietly, Preparing, Entering, TypeOK,
      WorkerTypeOK, UiTypeOK, ReturnWith, FailWith
<1>10. CASE AllPrepared(w)
  BY <1>10
  DEF AllPrepared, At, manager, MovesQuietly, Preparing, Entering, TypeOK,
      WorkerTypeOK, UiTypeOK, ToState
<1>11. CASE StateCancelled(w)
  BY <1>11
  DEF StateCancelled, At, manager, MovesQuietly, Preparing, Entering, TypeOK,
      WorkerTypeOK, UiTypeOK, TakeCancel, ReturnWith, FailWith
<1>12. CASE SendState0(w)
  BY <1>12
  DEF SendState0, At, manager, MovesQuietly, Preparing, Entering, TypeOK,
      WorkerTypeOK, UiTypeOK, Goto
<1>13. CASE UpdateState(w)
  BY <1>13
  DEF UpdateState, At, manager, MovesQuietly, Preparing, Entering, TypeOK,
      WorkerTypeOK, UiTypeOK, Goto
<1>14. CASE SendStateFails(w)
  BY <1>14
  DEF SendStateFails, At, manager, MovesQuietly, Preparing, Entering, TypeOK,
      WorkerTypeOK, UiTypeOK, ReturnWith, FailWith
<1>15. CASE StateSent(w)
  BY <1>15
  DEF StateSent, At, manager, MovesQuietly, Preparing, Entering, TypeOK,
      WorkerTypeOK, UiTypeOK, Goto, SwitchType
<1>16. CASE TimerExpires(w)
  BY <1>16
  DEF TimerExpires, At, manager, MovesQuietly, Preparing, Entering, TypeOK,
      WorkerTypeOK, UiTypeOK, NextState, ToState
<1>17. CASE TimerCancelled(w)
  BY <1>17
  DEF TimerCancelled, At, manager, MovesQuietly, Preparing, Entering, TypeOK,
      WorkerTypeOK, UiTypeOK, TakeCancel, ReturnWith, FailWith
<1>18. CASE TimerTimesOut(w)
  BY <1>18
  DEF TimerTimesOut, At, manager, MovesQuietly, Preparing, Entering, TypeOK,
      WorkerTypeOK, UiTypeOK, ReturnWith, FailWith
<1>19. CASE DIMet(w)
  BY <1>19
  DEF DIMet, At, manager, MovesQuietly, Preparing, Entering, TypeOK,
      WorkerTypeOK, UiTypeOK, NextState, ToState
<1>20. CASE DICancelled(w)
  BY <1>20
  DEF DICancelled, At, manager, MovesQuietly, Preparing, Entering, TypeOK,
      WorkerTypeOK, UiTypeOK, TakeCancel, ReturnWith, FailWith
<1>21. CASE UserSwitched(w)
  BY <1>21
  DEF UserSwitched, At, manager, MovesQuietly, Preparing, Entering, TypeOK,
      WorkerTypeOK, UiTypeOK, NextState, ToState
<1>22. CASE AllStatesSent(w)
  BY <1>22
  DEF AllStatesSent, At, manager, MovesQuietly, Preparing, Entering, TypeOK,
      WorkerTypeOK, UiTypeOK, Goto
<1>23. CASE ExitStopRecv(w)
  BY <1>23
  DEF ExitStopRecv, At, manager, MovesQuietly, Preparing, Entering, TypeOK,
      WorkerTypeOK, UiTypeOK, Goto
<1>24. CASE ExitStopPorts(w)
  BY <1>24
  DEF ExitStopPorts, At, manager, MovesQuietly, Preparing, Entering, TypeOK,
      WorkerTypeOK, UiTypeOK, Goto
<1>25. CASE ExitPortFails(w)
  BY <1>25
  DEF ExitPortFails, At, manager, MovesQuietly, Preparing, Entering, TypeOK,
      WorkerTypeOK, UiTypeOK, Goto
<1>26. CASE PostSequenceResult(w)
  BY <1>26
  DEF PostSequenceResult, At, manager, MovesQuietly, Preparing, Entering,
      TypeOK, WorkerTypeOK, UiTypeOK, FinishWorker, IdleWorker
<1> QED
  BY <1>1, <1>2, <1>3, <1>4, <1>5, <1>6, <1>7, <1>8, <1>9, <1>10, <1>11,
     <1>12, <1>13, <1>14, <1>15, <1>16, <1>17, <1>18, <1>19, <1>20, <1>21,
     <1>22, <1>23, <1>24, <1>25, <1>26
  DEF StartStateSequenceTest, ClearSequenceResults

(* A start prepares only a kind that is stopped.                           *)
LEMMA FramerStartAccepted ==
  ASSUME TypeOK, FramerInv, NEW w \in Workers, StartAccepted(w)
  PROVE  FramerInv'
<1>1. OneFramer'
  BY 
  DEF StartAccepted, TypeOK, ManagerTypeOK, WorkerTypeOK, UiTypeOK,
      FramerInv, OneFramer, UiWaitsForEntry, UpdateOfSending,
      StopAfterFraming, Framers, Preparing, At, StopKind, Startable, Goto
<1>2. UiWaitsForEntry' /\ UpdateOfSending'
  BY 
  DEF StartAccepted, TypeOK, ManagerTypeOK, WorkerTypeOK, UiTypeOK,
      FramerInv, OneFramer, UiWaitsForEntry, UpdateOfSending,
      StopAfterFraming, Framers, Preparing, At, StopKind, Startable, Goto
<1>3. StopAfterFraming'
  BY 
  DEF StartAccepted, TypeOK, ManagerTypeOK, WorkerTypeOK, UiTypeOK,
      FramerInv, OneFramer, UiWaitsForEntry, UpdateOfSending,
      StopAfterFraming, Framers, Preparing, At, StopKind, Startable, Goto
<1> QED
  BY <1>1, <1>2, <1>3 DEF FramerInv

(* The one thread that prepared the kind is done with it.                  *)
LEMMA FramerStartSucceeds ==
  ASSUME TypeOK, FramerInv, NEW w \in Workers, StartSucceeds(w)
  PROVE  FramerInv'
<1>1. OneFramer'
  BY 
  DEF StartSucceeds, TypeOK, ManagerTypeOK, WorkerTypeOK, UiTypeOK,
      FramerInv, OneFramer, UiWaitsForEntry, UpdateOfSending,
      StopAfterFraming, Framers, Preparing, At, StopKind, FinishWorker,
      IdleWorker
<1>2. UiWaitsForEntry' /\ UpdateOfSending'
  BY 
  DEF StartSucceeds, TypeOK, ManagerTypeOK, WorkerTypeOK, UiTypeOK,
      FramerInv, OneFramer, UiWaitsForEntry, UpdateOfSending,
      StopAfterFraming, Framers, Preparing, At, StopKind, FinishWorker,
      IdleWorker
<1>3. StopAfterFraming'
  BY 
  DEF StartSucceeds, TypeOK, ManagerTypeOK, WorkerTypeOK, UiTypeOK,
      FramerInv, OneFramer, UiWaitsForEntry, UpdateOfSending,
      StopAfterFraming, Framers, Preparing, At, StopKind, FinishWorker,
      IdleWorker
<1> QED
  BY <1>1, <1>2, <1>3 DEF FramerInv

(* The same when it failed.                                                *)
LEMMA FramerStartFails ==
  ASSUME TypeOK, FramerInv, NEW w \in Workers, StartFails(w)
  PROVE  FramerInv'
<1>1. OneFramer'
  BY DEF StartFails, FinishWorker, IdleWorker, At, TypeOK, ManagerTypeOK,
         WorkerTypeOK, FramerInv, OneFramer, Framers, Preparing
<1>2. /\ \A v \in Workers \ {w} : worker'[v] = worker[v]
      /\ worker'[w].pc = "idle"
      /\ sendStatus' = [sendStatus EXCEPT ![worker[w].kind] = "STOPPED"]
  BY DEF StartFails, FinishWorker, IdleWorker, TypeOK, WorkerTypeOK
<1>3. ui'.pc = ui.pc /\ ui'.todo = ui.todo /\ ui'.spawned = ui.spawned
  BY DEF StartFails, TypeOK, UiTypeOK
<1>4. UiWaitsForEntry'
  BY <1>2, <1>3 DEF FramerInv, UiWaitsForEntry
<1>5. UpdateOfSending'
  <2> SUFFICES ASSUME NEW v \in Workers, worker'[v].pc = "updatePrepare"
               PROVE  sendStatus'[worker'[v].kind] = "SENDING"
    BY DEF UpdateOfSending, At
  <2>1. v # w /\ worker'[v] = worker[v]
    BY <1>2
  <2>2. sendStatus[worker[v].kind] = "SENDING"
    BY <2>1 DEF FramerInv, UpdateOfSending, At
  <2>3. sendStatus[worker[w].kind] = "PREPARE"
    BY DEF StartFails, At, FramerInv, OneFramer, Framers, Preparing,
           TypeOK, WorkerTypeOK
  <2> QED
    BY <1>2, <2>1, <2>2, <2>3 DEF TypeOK, ManagerTypeOK, WorkerTypeOK
<1>6. StopAfterFraming'
  BY <1>2, <1>3 DEF FramerInv, StopAfterFraming, StopKind, TypeOK, ManagerTypeOK
<1> QED
  BY <1>1, <1>4, <1>5, <1>6 DEF FramerInv

(* The update still holds the mutex, and nothing is prepared.              *)
LEMMA FramerUpdateChanged ==
  ASSUME TypeOK, FramerInv, NEW w \in Workers, UpdateChanged(w)
  PROVE  FramerInv'
<1>1. OneFramer'
  BY 
  DEF UpdateChanged, TypeOK, ManagerTypeOK, WorkerTypeOK, UiTypeOK,
      FramerInv, OneFramer, UiWaitsForEntry, UpdateOfSending,
      StopAfterFraming, Framers, Preparing, At, StopKind, Goto
<1>2. UiWaitsForEntry' /\ UpdateOfSending'
  BY 
  DEF UpdateChanged, TypeOK, ManagerTypeOK, WorkerTypeOK, UiTypeOK,
      FramerInv, OneFramer, UiWaitsForEntry, UpdateOfSending,
      StopAfterFraming, Framers, Preparing, At, StopKind, Goto
<1>3. StopAfterFraming'
  BY 
  DEF UpdateChanged, TypeOK, ManagerTypeOK, WorkerTypeOK, UiTypeOK,
      FramerInv, OneFramer, UiWaitsForEntry, UpdateOfSending,
      StopAfterFraming, Framers, Preparing, At, StopKind, Goto
<1> QED
  BY <1>1, <1>2, <1>3 DEF FramerInv

(* An update prepares only a kind that is being sent.                      *)
LEMMA FramerUpdatePrepares ==
  ASSUME TypeOK, FramerInv, NEW w \in Workers, UpdatePrepares(w)
  PROVE  FramerInv'
<1>1. OneFramer'
  BY 
  DEF UpdatePrepares, TypeOK, ManagerTypeOK, WorkerTypeOK, UiTypeOK,
      FramerInv, OneFramer, UiWaitsForEntry, UpdateOfSending,
      StopAfterFraming, Framers, Preparing, At, StopKind, Goto
<1>2. UiWaitsForEntry' /\ UpdateOfSending'
  BY 
  DEF UpdatePrepares, TypeOK, ManagerTypeOK, WorkerTypeOK, UiTypeOK,
      FramerInv, OneFramer, UiWaitsForEntry, UpdateOfSending,
      StopAfterFraming, Framers, Preparing, At, StopKind, Goto
<1>3. StopAfterFraming'
  BY 
  DEF UpdatePrepares, TypeOK, ManagerTypeOK, WorkerTypeOK, UiTypeOK,
      FramerInv, OneFramer, UiWaitsForEntry, UpdateOfSending,
      StopAfterFraming, Framers, Preparing, At, StopKind, Goto
<1> QED
  BY <1>1, <1>2, <1>3 DEF FramerInv

(* And it is the one thread that did.                                      *)
LEMMA FramerUpdateDone ==
  ASSUME TypeOK, FramerInv, NEW w \in Workers, UpdateDone(w)
  PROVE  FramerInv'
<1>1. OneFramer'
  BY 
  DEF UpdateDone, TypeOK, ManagerTypeOK, WorkerTypeOK, UiTypeOK, FramerInv,
      OneFramer, UiWaitsForEntry, UpdateOfSending, StopAfterFraming, Framers,
      Preparing, At, StopKind, FinishWorker, IdleWorker
<1>2. UiWaitsForEntry' /\ UpdateOfSending'
  BY 
  DEF UpdateDone, TypeOK, ManagerTypeOK, WorkerTypeOK, UiTypeOK, FramerInv,
      OneFramer, UiWaitsForEntry, UpdateOfSending, StopAfterFraming, Framers,
      Preparing, At, StopKind, FinishWorker, IdleWorker
<1>3. StopAfterFraming'
  BY 
  DEF UpdateDone, TypeOK, ManagerTypeOK, WorkerTypeOK, UiTypeOK, FramerInv,
      OneFramer, UiWaitsForEntry, UpdateOfSending, StopAfterFraming, Framers,
      Preparing, At, StopKind, FinishWorker, IdleWorker
<1> QED
  BY <1>1, <1>2, <1>3 DEF FramerInv

(* A stop leaves a kind alone while it is prepared.                        *)
LEMMA FramerStop ==
  ASSUME TypeOK, FramerInv, CallPending, StopStep
  PROVE  FramerInv'
<1>1. CASE StopIdle
  BY <1>1, UiMove, NobodyEnters
  DEF StopIdle, manager, TypeOK, UiTypeOK, FramerInv, StopAfterFraming,
      StopKind
<1>2. CASE StopCancels
  BY <1>2, UiMove, NobodyEnters
  DEF StopCancels, manager, TypeOK, UiTypeOK, FramerInv, StopAfterFraming,
      StopKind, UiGoto
<1>3. CASE StopWaited
  BY <1>3, UiMove, NobodyEnters
  DEF StopWaited, manager, TypeOK, UiTypeOK, FramerInv, StopAfterFraming,
      StopKind, FramingEnded
<1>4. CASE StopPort
  BY <1>4, UiMove, NobodyEnters
  DEF StopPort, manager, TypeOK, UiTypeOK, FramerInv, StopAfterFraming,
      StopKind
<1>5. CASE StopPortFails
  BY <1>5, UiMove, NobodyEnters
  DEF StopPortFails, manager, TypeOK, UiTypeOK, FramerInv, StopAfterFraming,
      StopKind, UiReturn
<1>6. CASE StopUnderLock
  BY <1>6, UiMove, NobodyEnters
  DEF StopUnderLock, manager, TypeOK, UiTypeOK, FramerInv, StopAfterFraming,
      StopKind, UiGoto
<1>7. CASE StopDone
  <2>1. OneFramer'
    BY <1>7, HeadType
    DEF StopDone, TypeOK, ManagerTypeOK, WorkerTypeOK, UiTypeOK, FramerInv,
        OneFramer, UiWaitsForEntry, UpdateOfSending, StopAfterFraming,
        Framers, Preparing, At, StopKind, UiReturn
  <2>2. UiWaitsForEntry' /\ UpdateOfSending'
    BY <1>7, HeadType
    DEF StopDone, TypeOK, ManagerTypeOK, WorkerTypeOK, UiTypeOK, FramerInv,
        OneFramer, UiWaitsForEntry, UpdateOfSending, StopAfterFraming,
        Framers, Preparing, At, StopKind, UiReturn
  <2>3. StopAfterFraming'
    BY <1>7, HeadType
    DEF StopDone, TypeOK, ManagerTypeOK, WorkerTypeOK, UiTypeOK, FramerInv,
        OneFramer, UiWaitsForEntry, UpdateOfSending, StopAfterFraming,
        Framers, Preparing, At, StopKind, UiReturn
  <2> QED
    BY <2>1, <2>2, <2>3
    DEF FramerInv
<1> QED
  BY <1>1, <1>2, <1>3, <1>4, <1>5, <1>6, <1>7
  DEF StopStep

(* Nor does the stop of a sequence touch one.                              *)
LEMMA FramerStopSequence ==
  ASSUME TypeOK, FramerInv, StopStateSequenceTest
  PROVE  FramerInv'
<1>1. CASE StopSequenceChecks
  BY <1>1, UiMove, NobodyEnters
  DEF StopSequenceChecks, manager, TypeOK, UiTypeOK, FramerInv,
      StopAfterFraming, StopKind, UiGoto, UiReturn
<1>2. CASE StopSequenceCancels
  BY <1>2, UiMove, NobodyEnters
  DEF StopSequenceCancels, manager, TypeOK, UiTypeOK, FramerInv,
      StopAfterFraming, StopKind, UiGoto
<1>3. CASE StopSequenceWaited
  BY <1>3, UiMove, NobodyEnters
  DEF StopSequenceWaited, manager, TypeOK, UiTypeOK, FramerInv,
      StopAfterFraming, StopKind, UiReturn
<1> QED
  BY <1>1, <1>2, <1>3
  DEF StopStateSequenceTest

(* The keys change nothing before they call the manager.                   *)
LEMMA FramerKind ==
  ASSUME TypeOK, FramerInv, NEW k \in Kind, KindStep(k)
  PROVE  FramerInv'
<1>1. CASE StopApart(k)
  BY <1>1, UiMove, NobodyEnters
  DEF StopApart, manager, TypeOK, UiTypeOK, FramerInv, StopAfterFraming,
      StopKind, UiOnly, Key, UiFree
<1>2. CASE StartApart(k)
  BY <1>2, UiMove, NobodyEnters
  DEF StartApart, manager, TypeOK, UiTypeOK, FramerInv, StopAfterFraming,
      StopKind, UiOnly, Key, UiFree
<1>3. CASE ModifyValue(k)
  BY <1>3, UiMove, NobodyEnters
  DEF ModifyValue, manager, TypeOK, UiTypeOK, FramerInv, StopAfterFraming,
      StopKind, UiOnly, Key, UiFree
<1>4. CASE OnManualTestResult(k)
  BY <1>4, UiMove, NobodyEnters
  DEF OnManualTestResult, manager, TypeOK, UiTypeOK, FramerInv,
      StopAfterFraming, StopKind, UiOnly, Key, UiFree
<1> QED
  BY <1>1, <1>2, <1>3, <1>4
  DEF KindStep

(* The same for the other keys and messages.                               *)
LEMMA FramerDialog ==
  ASSUME TypeOK, FramerInv, DialogStep
  PROVE  FramerInv'
<1>1. CASE StopTogether
  BY <1>1, UiMove, NobodyEnters
  DEF StopTogether, manager, TypeOK, UiTypeOK, FramerInv, StopAfterFraming,
      StopKind, UiOnly, Key, UiFree
<1>2. CASE StartTogether
  BY <1>2, UiMove, NobodyEnters
  DEF StartTogether, manager, TypeOK, UiTypeOK, FramerInv, StopAfterFraming,
      StopKind, UiOnly, Key, UiFree
<1>3. CASE SetStartMode
  BY <1>3, UiMove, NobodyEnters
  DEF SetStartMode, manager, TypeOK, UiTypeOK, FramerInv, StopAfterFraming,
      StopKind, UiOnly, Key, UiFree
<1>4. CASE StartSequence
  BY <1>4, UiMove, NobodyEnters
  DEF StartSequence, manager, TypeOK, UiTypeOK, FramerInv, StopAfterFraming,
      StopKind, UiOnly, Key, UiFree
<1>5. CASE StopSequence
  BY <1>5, UiMove, NobodyEnters
  DEF StopSequence, manager, TypeOK, UiTypeOK, FramerInv, StopAfterFraming,
      StopKind, UiOnly, Key, UiFree
<1>6. CASE OnTestCompleted
  BY <1>6, UiMove, NobodyEnters
  DEF OnTestCompleted, manager, TypeOK, UiTypeOK, FramerInv,
      StopAfterFraming, StopKind, UiOnly, Key, UiFree
<1>7. CASE ShowPage
  BY <1>7, UiMove, NobodyEnters
  DEF ShowPage, manager, TypeOK, UiTypeOK, FramerInv, StopAfterFraming,
      StopKind, UiOnly, Key, UiFree
<1> QED
  BY <1>1, <1>2, <1>3, <1>4, <1>5, <1>6, <1>7
  DEF DialogStep

(* The UI thread begins one thread and sleeps until that has decided.      *)
LEMMA FramerThread ==
  ASSUME TypeOK, FramerInv, NEW w \in Workers, ThreadStep(w)
  PROVE  FramerInv'
<1>1. CASE OnWhetherSwitch(w) \/ ConfirmSwitch(w)
  <2>1. MovesQuietly(w)
    BY <1>1 DEF OnWhetherSwitch, ConfirmSwitch, At, manager, MovesQuietly,
        Preparing, Entering, TypeOK, WorkerTypeOK, UiTypeOK, Goto
  <2> QED
    BY <2>1, QuietMove
<1>2. CASE Spawn(w)
  <2>1. \A v \in Workers : worker[v].pc \notin Entering
    BY <1>2, NobodyEnters DEF Spawn, Pending
  <2>2. /\ \A v \in Workers \ {w} : worker'[v] = worker[v]
        /\ worker[w].pc = "idle"
        /\ worker'[w].pc \in {"start", "update", "sequence"}
        /\ sendStatus' = sendStatus
    BY <1>2 DEF Spawn, Pending, At, IdleWorker, manager, TypeOK, WorkerTypeOK
  <2>3. ui'.pc = "sleep" /\ ui'.spawned = w
    BY <1>2 DEF Spawn, TypeOK, UiTypeOK
  <2>4. \A k \in Kind : Framers(k)' = Framers(k)
    BY <2>2 DEF Framers, Preparing
  <2>5. OneFramer'
    BY <2>2, <2>4 DEF FramerInv, OneFramer
  <2>6. UiWaitsForEntry' /\ UpdateOfSending' /\ StopAfterFraming'
    BY <2>1, <2>2, <2>3 DEF UiWaitsForEntry, UpdateOfSending, StopAfterFraming,
                            At, Entering
  <2> QED
    BY <2>5, <2>6 DEF FramerInv
<1> QED
  BY <1>1, <1>2 DEF ThreadStep

LEMMA FramerCall ==
  ASSUME SpawnWaits, TypeOK, FramerInv, CallStep
  PROVE  FramerInv'
<1>1. CASE SpawnFails
  BY <1>1, UiMove, NobodyEnters
  DEF SpawnFails, Pending, UiReturn, UiOnly, manager, TypeOK, UiTypeOK
<1>2. CASE WakeUp
  <2>1. \A w \in Workers : worker[w].pc \notin Entering
    BY <1>2, SendAssumption DEF WakeUp, FramerInv, UiWaitsForEntry, Entering
  <2> QED
    BY <1>2, <2>1, UiMove DEF WakeUp, UiOnly, manager, TypeOK, UiTypeOK
<1>3. CASE CallStop
  BY <1>3, UiMove, NobodyEnters
  DEF CallStop, Pending, UiGoto, UiOnly, manager, TypeOK, UiTypeOK
<1> QED
  BY <1>1, <1>2, <1>3 DEF CallStep

LEMMA FramerNext ==
  ASSUME SpawnWaits, TypeOK, CallPending, FramerInv, [Next]_vars
  PROVE  FramerInv'
<1>1. CASE \E w \in Workers : WorkerStep(w)
  BY <1>1, QuietMove, StartMoves, UpdateMoves, SequenceMoves,
     FramerStartAccepted, FramerStartSucceeds, FramerStartFails, FramerUpdateChanged,
     FramerUpdatePrepares, FramerUpdateDone
  DEF WorkerStep, StartManualTestSMV, StartManualTestGoose, UpateManualTestSMV,
      UpateManualTestGoose
<1>2. CASE UiStep
  BY <1>2, FramerKind, FramerDialog, FramerThread, FramerCall DEF UiStep
<1>3. CASE ReceiveStep \/ UNCHANGED vars
  <2>1. UNCHANGED <<sendStatus, worker, ui>>
    BY <1>3 DEF ReceiveStep, FrameReceived, ReceptionStopped, FindManualResult,
                FindSequenceResult, SaveValue, NoValueChanged, vars, manager
  <2> QED
    BY <2>1 DEF FramerInv, OneFramer, UiWaitsForEntry, UpdateOfSending,
                StopAfterFraming, Framers, StopKind, At
<1> QED
  BY <1>1, <1>2, <1>3, FramerStop, FramerStopSequence DEF Next

LEMMA FramerInit ==
  Init => FramerInv
BY DEF Init, UiInit, IdleWorker, FramerInv, OneFramer, UiWaitsForEntry,
       UpdateOfSending, StopAfterFraming, Framers, Preparing, At

(* Every step keeps FramerInv: besides who prepares a kind, that the UI     *)
(* thread sleeps while a thread it began decides what to do, that only     *)
(* what is sent is updated, and that a stop has waited for the framing.    *)
LEMMA FramerInvAlways ==
  ASSUME SpawnWaits
  PROVE  Spec => []FramerInv
<1>1. Init => FramerInv
  BY FramerInit
<1>2. TypeOK /\ CallPending /\ FramerInv /\ [Next]_vars => FramerInv'
  BY FramerNext
<1> QED
  BY <1>1, <1>2, TypeCorrect, PTL DEF Spec

(* Two threads never prepare frames of the same kind at once, and a kind   *)
(* is PREPARE exactly while one does.                                      *)
THEOREM OneFramerAlways ==
  ASSUME SpawnWaits
  PROVE  Spec => []OneFramer
<1>1. FramerInv => OneFramer
  BY DEF FramerInv
<1> QED
  BY <1>1, FramerInvAlways, PTL

-----------------------------------------------------------------------------
(* The refinement: who prepares which kind.                                *)
LEMMA TheFramer ==
  /\ Single({}) = NoThread
  /\ \A w \in Workers : Single({w}) = w
BY DEF Single

LEMMA SameFramers ==
  ASSUME \A k \in Kind : Framers(k)' = Framers(k), sendStatus' = sendStatus
  PROVE  UNCHANGED <<sendStatus, [k \in Kind |-> Framer(k)]>>
BY DEF Framer

LEMMA FramerBegins ==
  ASSUME TypeOK, NEW k \in Kind, NEW w \in Workers,
         Framers(k) = {}, Framers(k)' = {w},
         \A j \in Kind \ {k} : Framers(j)' = Framers(j),
         sendStatus' = [sendStatus EXCEPT ![k] = "PREPARE"]
  PROVE  Session!Begin(k, w)
BY TheFramer DEF Session!Begin, Framer

LEMMA FramerFinishes ==
  ASSUME TypeOK, NEW k \in Kind, NEW w \in Workers,
         Framers(k) = {w}, Framers(k)' = {},
         \A j \in Kind \ {k} : Framers(j)' = Framers(j),
         NEW s \in {"SENDING", "STOPPED"},
         sendStatus' = [sendStatus EXCEPT ![k] = s]
  PROVE  Session!Finish(k)
<1>1. Framer(k) = w /\ Framer(k)' = NoThread
  BY TheFramer DEF Framer
<1>2. \A j \in Kind \ {k} : Framer(j)' = Framer(j)
  BY DEF Framer
<1> QED
  BY <1>1, <1>2, SendAssumption DEF Session!Finish

LEMMA SessionNext ==
  ASSUME TypeOK, CallPending, FramerInv, FramerInv', [Next]_vars
  PROVE  [Session!Next]_<<sendStatus, [k \in Kind |-> Framer(k)]>>
<1>1. ASSUME NEW w \in Workers, MovesQuietly(w)
      PROVE  \A k \in Kind : Framers(k)' = Framers(k)
  BY <1>1 DEF MovesQuietly, Framers
<1>2. ASSUME NEW w \in Workers, StartAccepted(w) \/ UpdatePrepares(w)
      PROVE  Session!Begin(worker[w].kind, w)
  <2>1. /\ worker[w].kind \in Kind /\ worker'[w].kind = worker[w].kind
        /\ \A v \in Workers \ {w} : worker'[v] = worker[v]
        /\ worker[w].pc \notin Preparing /\ worker'[w].pc \in Preparing
        /\ sendStatus[worker[w].kind] # "PREPARE"
        /\ sendStatus' = [sendStatus EXCEPT ![worker[w].kind] = "PREPARE"]
    BY <1>2 DEF StartAccepted, UpdatePrepares, Startable, Goto, At, Preparing,
        TypeOK, WorkerTypeOK, FramerInv, UpdateOfSending
  <2>2. Framers(worker[w].kind) = {} /\ Framers(worker[w].kind)' = {w}
    BY <2>1 DEF FramerInv, OneFramer, Framers
  <2>3. \A j \in Kind \ {worker[w].kind} : Framers(j)' = Framers(j)
    BY <2>1 DEF Framers
  <2> QED
    BY <2>1, <2>2, <2>3, FramerBegins
<1>3. ASSUME NEW w \in Workers,
             StartSucceeds(w) \/ StartFails(w) \/ UpdateDone(w)
      PROVE  \E k \in Kind : Session!Finish(k)
  <2>1. PICK k \in Kind : k = worker[w].kind
    BY DEF TypeOK, WorkerTypeOK
  <2>2. /\ \A v \in Workers \ {w} : worker'[v] = worker[v]
        /\ worker[w].pc \in Preparing /\ worker'[w].pc \notin Preparing
        /\ \E s \in {"SENDING", "STOPPED"} :
             sendStatus' = [sendStatus EXCEPT ![k] = s]
    BY <1>3, <2>1 DEF StartSucceeds, StartFails, UpdateDone, FinishWorker,
        IdleWorker, At, Preparing, TypeOK, WorkerTypeOK
  <2>3. Framers(k) = {w}
    <3>1. w \in Framers(k)
      BY <2>1, <2>2 DEF Framers
    <3>2. \A v \in Framers(k) : v = w
      BY <3>1 DEF FramerInv, OneFramer
    <3> QED
      BY <3>1, <3>2
  <2>4. Framers(k)' = {}
    BY <2>2, <2>3 DEF Framers
  <2>5. \A j \in Kind \ {k} : Framers(j)' = Framers(j)
    BY <2>1, <2>2 DEF Framers
  <2> QED
    BY <2>2, <2>3, <2>4, <2>5, FramerFinishes
<1>4. ASSUME NEW w \in Workers, UpdateChanged(w) \/ ThreadStep(w)
      PROVE  sendStatus' = sendStatus /\ \A k \in Kind : Framers(k)' = Framers(k)
  <2>1. /\ \A v \in Workers \ {w} : worker'[v] = worker[v]
        /\ worker[w].pc \notin Preparing /\ worker'[w].pc \notin Preparing
        /\ sendStatus' = sendStatus
    <3>1. CASE UpdateChanged(w)
      BY <3>1 DEF UpdateChanged, At, Goto, Preparing, TypeOK, WorkerTypeOK
    <3>2. CASE OnWhetherSwitch(w) \/ ConfirmSwitch(w)
      BY <3>2 DEF OnWhetherSwitch, ConfirmSwitch, manager, At, Goto, Preparing,
          TypeOK, WorkerTypeOK
    <3>3. CASE Spawn(w)
      BY <3>3 DEF Spawn, Pending, IdleWorker, manager, At, Preparing, TypeOK,
          WorkerTypeOK
    <3> QED
      BY <1>4, <3>1, <3>2, <3>3 DEF ThreadStep
  <2> QED
    BY <2>1 DEF Framers
<1>5. CASE StopDone
  <2>1. StopKind \in Kind
    BY <1>5, HeadType DEF StopDone, StopKind, TypeOK, UiTypeOK, CallPending
  <2>2. \A k \in Kind : Framers(k)' = Framers(k)
    BY <1>5 DEF StopDone, Framers
  <2>3. Framers(StopKind) = {}
    BY <1>5, <2>1 DEF StopDone, FramerInv, StopAfterFraming, OneFramer
  <2>4. Session!Stop(StopKind)
    BY <1>5, <2>2, <2>3, TheFramer, <2>1 DEF StopDone, Session!Stop, Framer
  <2> QED
    BY <2>1, <2>4 DEF Session!Next
<1>6. CASE StopStep /\ ~StopDone
  BY <1>6, SameFramers
  DEF StopStep, StopIdle, StopCancels, StopWaited, StopPort, StopPortFails,
      StopUnderLock, manager, Framers
<1>7. CASE StopStateSequenceTest \/ CallStep \/ DialogStep
  BY <1>7, SameFramers
  DEF StopStateSequenceTest, StopSequenceChecks, StopSequenceCancels,
      StopSequenceWaited, CallStep, SpawnFails, WakeUp, CallStop, DialogStep,
      StopTogether, StartTogether, SetStartMode, StartSequence, StopSequence,
      OnTestCompleted, ShowPage, UiOnly, manager, Framers
<1>8. CASE (\E k \in Kind : KindStep(k)) \/ ReceiveStep \/ UNCHANGED vars
  BY <1>8, SameFramers
  DEF KindStep, StopApart, StartApart, ModifyValue, OnManualTestResult, UiOnly,
      ReceiveStep, FrameReceived, ReceptionStopped, FindManualResult,
      FindSequenceResult, SaveValue, NoValueChanged, vars, manager, Framers
<1>9. CASE \E w \in Workers : WorkerStep(w)
  <2> SUFFICES ASSUME NEW w \in Workers, WorkerStep(w)
               PROVE  [Session!Next]_<<sendStatus, [k \in Kind |-> Framer(k)]>>
    BY <1>9
  <2>1. worker[w].kind \in Kind
    BY DEF TypeOK, WorkerTypeOK
  <2>2. \/ MovesQuietly(w) \/ UpdateChanged(w)
        \/ StartAccepted(w) \/ UpdatePrepares(w)
        \/ StartSucceeds(w) \/ StartFails(w) \/ UpdateDone(w)
    BY StartMoves, UpdateMoves, SequenceMoves
    DEF WorkerStep, StartManualTestSMV, StartManualTestGoose, UpateManualTestSMV,
        UpateManualTestGoose
  <2>3. CASE MovesQuietly(w) \/ UpdateChanged(w)
    BY <2>3, <1>1, <1>4, SameFramers DEF MovesQuietly
  <2> QED
    BY <2>1, <2>2, <2>3, <1>2, <1>3 DEF Session!Next
<1>10. CASE \E w \in Workers : ThreadStep(w)
  BY <1>10, <1>4, SameFramers
<1> QED
  BY <1>5, <1>6, <1>7, <1>8, <1>9, <1>10 DEF Next, UiStep

LEMMA SessionInit ==
  Init => Session!Init
<1> SUFFICES ASSUME Init PROVE Session!Init
  OBVIOUS
<1>1. \A k \in Kind : Framers(k) = {}
  BY DEF Init, Framers, IdleWorker, Preparing
<1> QED
  BY <1>1, TheFramer DEF Session!Init, Init, Framer

(* The send manager is a manual session: whatever the interleaving, a kind *)
(* is prepared by one thread, which alone ends the preparation, and a stop *)
(* takes effect only while nobody prepares it.                             *)
THEOREM SessionImplemented ==
  ASSUME SpawnWaits
  PROVE  Spec => ImplementsSession
<1>1. Init => FramerInv /\ Session!Init
  BY FramerInit, SessionInit
<1>2. TypeOK /\ CallPending /\ FramerInv /\ [Next]_vars => FramerInv'
  BY FramerNext
<1>3. TypeOK /\ CallPending /\ FramerInv /\ FramerInv' /\ [Next]_vars
        => [Session!Next]_<<sendStatus, [k \in Kind |-> Framer(k)]>>
  BY SessionNext
<1> QED
  BY <1>1, <1>2, <1>3, TypeCorrect, PTL DEF Spec, ImplementsSession, Session!Spec
=============================================================================
