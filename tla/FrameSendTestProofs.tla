------------------------- MODULE FrameSendTestProofs -------------------------
(***************************************************************************)
(* What the user relies on when a test is stopped or followed by another:  *)
(* requests to cancel are withdrawn; with the manual dialog alone, what is *)
(* sent belongs to a test and a stop leaves nothing transmitting; with the *)
(* dialog of the state sequence alone, one sequence runs at a time and     *)
(* leaves nothing behind, and the manager implements SequenceSession.  For *)
(* every number of threads, ports, results and states.                     *)
(***************************************************************************)
EXTENDS FrameSendProofs

-----------------------------------------------------------------------------
(* A request to cancel belongs to the call of the UI thread that waits:    *)
(* the stop of a manual test sets the event of its kind, the stop of a     *)
(* sequence those of the sequence and of SMV.                              *)
OwnRequest(e) ==
  \/ ui.pc = "stopWait" /\ e = StopKind
  \/ ui.pc = "pump" /\ e # "GOOSE"

RequestsOwned == \A e \in Event : event[e] => OwnRequest(e)

LEMMA RequestsFrame ==
  ASSUME RequestsOwned, \A e \in Event : event'[e] => event[e],
         ui'.pc = ui.pc, ui'.todo = ui.todo
  PROVE  RequestsOwned'
BY DEF RequestsOwned, OwnRequest, StopKind

(* The workers take requests and make none.                                *)
LEMMA StartTakes ==
  ASSUME TypeOK, NEW w \in Workers, StartStep(w)
  PROVE  (\A e \in Event : event'[e] => event[e])
           /\ ui'.pc = ui.pc /\ ui'.todo = ui.todo
<1>1. CASE SendPortCancelled(w)
  BY <1>1 DEF SendPortCancelled, Consume, manager, TypeOK, DeviceTypeOK
<1>2. CASE StartFails(w)
  BY <1>2 DEF StartFails, TypeOK, UiTypeOK
<1>3. CASE StartStep(w) /\ ~SendPortCancelled(w) /\ ~StartFails(w)
  BY <1>3 DEF StartStep, StartRejected, StartWithoutResult, StartNotSaved,
      StartAccepted, NothingToSend, NotSampled, SendPort, SendPortFails,
      AllPortsSent, StartSucceeds, StartFailsUnderLock
<1> QED
  BY <1>1, <1>2, <1>3

LEMMA UpdateTakes ==
  ASSUME TypeOK, NEW w \in Workers, UpdateStep(w)
  PROVE  (\A e \in Event : event'[e] => event[e]) /\ ui' = ui
<1>1. CASE ChangePortCancelled(w)
  BY <1>1 DEF ChangePortCancelled, Consume, TypeOK, DeviceTypeOK
<1>2. CASE UpdateStep(w) /\ ~ChangePortCancelled(w)
  BY <1>2 DEF UpdateStep, UpdateRejected, UpdateNotSaved, UpdateUnchanged,
      UpdateChanged, UpdatePrepares, NothingToChange, ChangePort,
      ChangePortFails, AllPortsChanged, UpdateDone
<1> QED
  BY <1>1, <1>2

LEMMA SequenceTakes ==
  ASSUME TypeOK, NEW w \in Workers, StartStateSequenceTest(w)
  PROVE  (\A e \in Event : event'[e] => event[e])
           /\ ui'.pc = ui.pc /\ ui'.todo = ui.todo
<1>1. ASSUME TakeCancel(w)
      PROVE  (\A e \in Event : event'[e] => event[e]) /\ ui' = ui
  BY <1>1 DEF TakeCancel, TypeOK, DeviceTypeOK
<1>2. CASE \/ PrepareCancelled(w) \/ StateCancelled(w) \/ TimerCancelled(w)
           \/ DICancelled(w)
  BY <1>1, <1>2 DEF PrepareCancelled, StateCancelled, TimerCancelled, DICancelled
<1>3. CASE FramingCancelled(w)
  BY <1>3 DEF FramingCancelled, TypeOK, DeviceTypeOK
<1>4. CASE PostSequenceResult(w)
  BY <1>4 DEF PostSequenceResult, TypeOK, UiTypeOK
<1>5. CASE \/ SequenceRejected(w) \/ SequenceAccepted(w) \/ ClearSequenceResults(w)
           \/ FrameState(w) \/ PrepareState(w) \/ PrepareFails(w) \/ AllPrepared(w)
           \/ SendState0(w) \/ UpdateState(w) \/ SendStateFails(w) \/ StateSent(w)
  BY <1>5 DEF SequenceRejected, SequenceAccepted, ClearSequenceResults,
      FrameState, PrepareState, PrepareFails, AllPrepared, SendState0,
      UpdateState, SendStateFails, StateSent
<1>6. CASE \/ TimerExpires(w) \/ TimerTimesOut(w) \/ DIMet(w) \/ UserSwitched(w)
           \/ AllStatesSent(w) \/ ExitStopRecv(w) \/ ExitStopPorts(w)
           \/ ExitPortFails(w)
  BY <1>6 DEF TimerExpires, TimerTimesOut, DIMet, UserSwitched, AllStatesSent,
      ExitStopRecv, ExitStopPorts, ExitPortFails
<1> QED
  BY <1>2, <1>3, <1>4, <1>5, <1>6 DEF StartStateSequenceTest

(* A stop makes its request when there is none, and takes it back.         *)
LEMMA RequestsStop ==
  ASSUME TypeOK, CallPending, RequestsOwned, StopStep
  PROVE  RequestsOwned'
<1>1. CASE StopCancels
  <2>1. \A e \in Event : ~event[e]
    BY <1>1 DEF StopCancels, RequestsOwned, OwnRequest
  <2>2. ui'.pc = "stopWait" /\ StopKind' = StopKind
    BY <1>1 DEF StopCancels, UiGoto, StopKind, TypeOK, UiTypeOK
  <2>3. \A e \in Event : event'[e] => e = StopKind
    BY <1>1, <2>1 DEF StopCancels, TypeOK, DeviceTypeOK
  <2> QED
    BY <2>2, <2>3 DEF RequestsOwned, OwnRequest
<1>2. CASE StopWaited
  <2>1. \A e \in Event : event[e] => e = StopKind
    BY <1>2 DEF StopWaited, RequestsOwned, OwnRequest
  <2>2. \A e \in Event : ~event'[e]
    BY <1>2, <2>1 DEF StopWaited, ResetEvent, TypeOK, DeviceTypeOK
  <2> QED
    BY <2>2 DEF RequestsOwned
<1>3. CASE StopIdle \/ StopPort \/ StopPortFails \/ StopUnderLock \/ StopDone
  BY <1>3 DEF StopIdle, StopPort, StopPortFails, StopUnderLock, StopDone,
      RequestsOwned, OwnRequest
<1> QED
  BY <1>1, <1>2, <1>3 DEF StopStep

LEMMA RequestsStopSequence ==
  ASSUME TypeOK, RequestsOwned, StopStateSequenceTest
  PROVE  RequestsOwned'
<1>1. CASE StopSequenceChecks
  BY <1>1 DEF StopSequenceChecks, RequestsOwned, OwnRequest
<1>2. CASE StopSequenceCancels
  <2>1. \A e \in Event : ~event[e]
    BY <1>2 DEF StopSequenceCancels, RequestsOwned, OwnRequest
  <2>2. ui'.pc = "pump"
    BY <1>2 DEF StopSequenceCancels, UiGoto, TypeOK, UiTypeOK
  <2>3. ~event'["GOOSE"]
    BY <1>2, <2>1 DEF StopSequenceCancels, TypeOK, DeviceTypeOK, Event, Kind
  <2> QED
    BY <2>2, <2>3 DEF RequestsOwned, OwnRequest
<1>3. CASE StopSequenceWaited
  <2>1. ~event["GOOSE"]
    BY <1>3 DEF StopSequenceWaited, RequestsOwned, OwnRequest, Event, Kind
  <2>2. \A e \in Event : ~event'[e]
    BY <1>3, <2>1 DEF StopSequenceWaited, ResetEvent, TypeOK, DeviceTypeOK,
                      Event, Kind
  <2> QED
    BY <2>2 DEF RequestsOwned
<1> QED
  BY <1>1, <1>2, <1>3 DEF StopStateSequenceTest

LEMMA RequestsUi ==
  ASSUME TypeOK, RequestsOwned, UiStep
  PROVE  RequestsOwned'
<1>1. event' = event
  BY DEF UiStep, KindStep, StopApart, StartApart, ModifyValue,
      OnManualTestResult, DialogStep, StopTogether, StartTogether,
      SetStartMode, StartSequence, StopSequence, OnTestCompleted, ShowPage,
      ThreadStep, OnWhetherSwitch, ConfirmSwitch, Spawn, CallStep, SpawnFails,
      WakeUp, CallStop, UiOnly
<1>2. CASE ui.pc \in {"loop", "sleep"}
  BY <1>1, <1>2 DEF RequestsOwned, OwnRequest
<1>3. CASE ui.pc \notin {"loop", "sleep"}
  <2>1. ui'.pc = ui.pc /\ ui'.todo = ui.todo
    BY <1>3 DEF UiStep, KindStep, StopApart, StartApart, ModifyValue,
      OnManualTestResult, DialogStep, StopTogether, StartTogether,
      SetStartMode, StartSequence, StopSequence, OnTestCompleted, ShowPage,
      ThreadStep, OnWhetherSwitch, ConfirmSwitch, Spawn, CallStep, SpawnFails,
      WakeUp, CallStop, Key, UiFree, Pending, TypeOK, UiTypeOK
  <2> QED
    BY <1>1, <2>1, RequestsFrame
<1> QED
  BY <1>2, <1>3

LEMMA RequestsNext ==
  ASSUME TypeOK, CallPending, RequestsOwned, [Next]_vars
  PROVE  RequestsOwned'
<1>1. CASE \E w \in Workers : WorkerStep(w)
  BY <1>1, StartTakes, UpdateTakes, SequenceTakes, RequestsFrame
  DEF WorkerStep, StartManualTestSMV, StartManualTestGoose, UpateManualTestSMV,
      UpateManualTestGoose
<1>2. CASE ReceiveStep \/ UNCHANGED vars
  BY <1>2, RequestsFrame
  DEF ReceiveStep, FrameReceived, ReceptionStopped, FindManualResult,
      FindSequenceResult, SaveValue, NoValueChanged, vars
<1> QED
  BY <1>1, <1>2, RequestsStop, RequestsStopSequence, RequestsUi DEF Next

(* A request to cancel is withdrawn by the stop that made it, whoever took *)
(* it meanwhile: none is left to cancel the next test.                     *)
THEOREM RequestsWithdrawnAlways == Spec => []RequestsWithdrawn
<1>1. Init => RequestsOwned
  BY DEF Init, RequestsOwned
<1>2. TypeOK /\ CallPending /\ RequestsOwned /\ [Next]_vars => RequestsOwned'
  BY RequestsNext
<1>3. TypeOK /\ CallPending /\ RequestsOwned => RequestsWithdrawn
  BY HeadType DEF RequestsOwned, OwnRequest, RequestsWithdrawn, StopKind, Event,
                  Kind, CallPending, TypeOK, UiTypeOK
<1> QED
  BY <1>1, <1>2, <1>3, TypeCorrect, PTL DEF Spec

-----------------------------------------------------------------------------
(* The manual test by itself: the user opens the manual dialog only, so    *)
(* that no thread and no call is one of a state sequence.                  *)
ManualPc == {"idle", "start", "send", "sent", "failed", "failedStop",
             "update", "updatePrepare", "change", "changed"}

ManualAlone ==
  /\ \A w \in Workers : worker[w].pc \in ManualPc
  /\ ui.pc \in {"loop", "sleep", "stop", "stopWait", "stopPorts", "stopped"}
  /\ ui.todo \in Seq([op : {"start", "update", "stop"}, kind : Kind])

(* Worker w takes a step of a start or of an update: it turns on ports of  *)
(* its own kind only, and those only while it prepares.                    *)
ManualMove(w) ==
  /\ \A v \in Workers \ {w} : worker'[v] = worker[v]
  /\ worker'[w].pc \in ManualPc
  /\ ui'.pc = ui.pc /\ ui'.todo = ui.todo /\ ui'.port = ui.port
  /\ \A k \in Kind :
       portOn'[k] \subseteq portOn[k] \/ (At(w, "send") /\ worker[w].kind = k)

(* What is being sent, and by whom, belongs to a manual test.              *)
TestPc == {"send", "sent", "failed", "change", "changed"}

FramingInTest == \A w \in Workers :
  worker[w].pc \in TestPc => curFunctionType = "MANUAL_TEST"

QuietTest(w) ==
  /\ \A v \in Workers \ {w} : worker'[v] = worker[v]
  /\ worker'[w].pc \in TestPc => worker[w].pc \in TestPc
  /\ curFunctionType' = curFunctionType /\ sendStatus' = sendStatus
  /\ ui'.pc = ui.pc /\ ui'.todo = ui.todo

LEMMA StartIsManual ==
  ASSUME TypeOK, NEW w \in Workers, StartStep(w)
  PROVE  ManualMove(w)
<1>1. CASE StartRejected(w)
  BY <1>1
  DEF StartRejected, ManualMove, ManualPc, TypeOK, WorkerTypeOK,
      DeviceTypeOK, UiTypeOK, At, FinishWorker, IdleWorker, manager, device
<1>2. CASE StartWithoutResult(w)
  BY <1>2
  DEF StartWithoutResult, ManualMove, ManualPc, TypeOK, WorkerTypeOK,
      DeviceTypeOK, UiTypeOK, At, FinishWorker, IdleWorker, device
<1>3. CASE StartNotSaved(w)
  BY <1>3
  DEF StartNotSaved, ManualMove, ManualPc, TypeOK, WorkerTypeOK,
      DeviceTypeOK, UiTypeOK, At, FinishWorker, IdleWorker, device
<1>4. CASE StartAccepted(w)
  BY <1>4
  DEF StartAccepted, ManualMove, ManualPc, TypeOK, WorkerTypeOK,
      DeviceTypeOK, UiTypeOK, At, Goto, device
<1>5. CASE NothingToSend(w)
  BY <1>5
  DEF NothingToSend, ManualMove, ManualPc, TypeOK, WorkerTypeOK,
      DeviceTypeOK, UiTypeOK, At, NextPort, manager, device
<1>6. CASE NotSampled(w)
  BY <1>6
  DEF NotSampled, ManualMove, ManualPc, TypeOK, WorkerTypeOK, DeviceTypeOK,
      UiTypeOK, At, FailWith, manager, device
<1>7. CASE SendPort(w)
  BY <1>7
  DEF SendPort, ManualMove, ManualPc, TypeOK, WorkerTypeOK, DeviceTypeOK,
      UiTypeOK, At, NextPort, manager
<1>8. CASE SendPortFails(w)
  BY <1>8
  DEF SendPortFails, ManualMove, ManualPc, TypeOK, WorkerTypeOK,
      DeviceTypeOK, UiTypeOK, At, FailWith, TryStopPort, manager
<1>9. CASE SendPortCancelled(w)
  BY <1>9
  DEF SendPortCancelled, ManualMove, ManualPc, TypeOK, WorkerTypeOK,
      DeviceTypeOK, UiTypeOK, At, FailWith, TryStopPort, manager
<1>10. CASE AllPortsSent(w)
  BY <1>10
  DEF AllPortsSent, ManualMove, ManualPc, TypeOK, WorkerTypeOK,
      DeviceTypeOK, UiTypeOK, At, Goto
<1>11. CASE StartSucceeds(w)
  BY <1>11
  DEF StartSucceeds, ManualMove, ManualPc, TypeOK, WorkerTypeOK,
      DeviceTypeOK, UiTypeOK, At, FinishWorker, IdleWorker, device
<1>12. CASE StartFailsUnderLock(w)
  BY <1>12
  DEF StartFailsUnderLock, ManualMove, ManualPc, TypeOK, WorkerTypeOK,
      DeviceTypeOK, UiTypeOK, At, Goto, device
<1>13. CASE StartFails(w)
  BY <1>13
  DEF StartFails, ManualMove, ManualPc, TypeOK, WorkerTypeOK, DeviceTypeOK,
      UiTypeOK, At, FinishWorker, IdleWorker, device
<1> QED
  BY <1>1, <1>2, <1>3, <1>4, <1>5, <1>6, <1>7, <1>8, <1>9, <1>10, <1>11,
     <1>12, <1>13
  DEF StartStep

LEMMA UpdateIsManual ==
  ASSUME TypeOK, NEW w \in Workers, UpdateStep(w)
  PROVE  ManualMove(w)
<1>1. CASE UpdateRejected(w)
  BY <1>1
  DEF UpdateRejected, ManualMove, ManualPc, TypeOK, WorkerTypeOK,
      DeviceTypeOK, UiTypeOK, At, FinishWorker, IdleWorker, manager, device
<1>2. CASE UpdateNotSaved(w)
  BY <1>2
  DEF UpdateNotSaved, ManualMove, ManualPc, TypeOK, WorkerTypeOK,
      DeviceTypeOK, UiTypeOK, At, FinishWorker, IdleWorker, device
<1>3. CASE UpdateUnchanged(w)
  BY <1>3
  DEF UpdateUnchanged, ManualMove, ManualPc, TypeOK, WorkerTypeOK,
      DeviceTypeOK, UiTypeOK, At, FinishWorker, IdleWorker, device
<1>4. CASE UpdateChanged(w)
  BY <1>4
  DEF UpdateChanged, ManualMove, ManualPc, TypeOK, WorkerTypeOK,
      DeviceTypeOK, UiTypeOK, At, Goto, device
<1>5. CASE UpdatePrepares(w)
  BY <1>5
  DEF UpdatePrepares, ManualMove, ManualPc, TypeOK, WorkerTypeOK,
      DeviceTypeOK, UiTypeOK, At, Goto, device
<1>6. CASE NothingToChange(w)
  BY <1>6
  DEF NothingToChange, ManualMove, ManualPc, TypeOK, WorkerTypeOK,
      DeviceTypeOK, UiTypeOK, At, NextPort, manager, device
<1>7. CASE ChangePort(w)
  BY <1>7
  DEF ChangePort, ManualMove, ManualPc, TypeOK, WorkerTypeOK, DeviceTypeOK,
      UiTypeOK, At, NextPort, manager, device
<1>8. CASE ChangePortFails(w)
  BY <1>8
  DEF ChangePortFails, ManualMove, ManualPc, TypeOK, WorkerTypeOK,
      DeviceTypeOK, UiTypeOK, At, FailWith, manager, device
<1>9. CASE ChangePortCancelled(w)
  BY <1>9
  DEF ChangePortCancelled, ManualMove, ManualPc, TypeOK, WorkerTypeOK,
      DeviceTypeOK, UiTypeOK, At, FailWith, manager, device
<1>10. CASE AllPortsChanged(w)
  BY <1>10
  DEF AllPortsChanged, ManualMove, ManualPc, TypeOK, WorkerTypeOK,
      DeviceTypeOK, UiTypeOK, At, Goto, manager, device
<1>11. CASE UpdateDone(w)
  BY <1>11
  DEF UpdateDone, ManualMove, ManualPc, TypeOK, WorkerTypeOK, DeviceTypeOK,
      UiTypeOK, At, FinishWorker, IdleWorker, device
<1> QED
  BY <1>1, <1>2, <1>3, <1>4, <1>5, <1>6, <1>7, <1>8, <1>9, <1>10, <1>11
  DEF UpdateStep

(* Most steps change neither what is sent nor which test runs.             *)
LEMMA StartInTest ==
  ASSUME TypeOK, NEW w \in Workers, StartStep(w)
  PROVE  \/ QuietTest(w) \/ StartAccepted(w) \/ StartSucceeds(w)
         \/ StartFailsUnderLock(w) \/ StartFails(w)
<1>1. CASE StartRejected(w)
  BY <1>1
  DEF StartRejected, QuietTest, TestPc, TypeOK, WorkerTypeOK, UiTypeOK, At,
      FinishWorker, IdleWorker, manager, device
<1>2. CASE StartWithoutResult(w)
  BY <1>2
  DEF StartWithoutResult, QuietTest, TestPc, TypeOK, WorkerTypeOK, UiTypeOK,
      At, FinishWorker, IdleWorker, device
<1>3. CASE StartNotSaved(w)
  BY <1>3
  DEF StartNotSaved, QuietTest, TestPc, TypeOK, WorkerTypeOK, UiTypeOK, At,
      FinishWorker, IdleWorker, device
<1>4. CASE NothingToSend(w)
  BY <1>4
  DEF NothingToSend, QuietTest, TestPc, TypeOK, WorkerTypeOK, UiTypeOK, At,
      NextPort, manager, device
<1>5. CASE NotSampled(w)
  BY <1>5
  DEF NotSampled, QuietTest, TestPc, TypeOK, WorkerTypeOK, UiTypeOK, At,
      FailWith, manager, device
<1>6. CASE SendPort(w)
  BY <1>6
  DEF SendPort, QuietTest, TestPc, TypeOK, WorkerTypeOK, UiTypeOK, At,
      NextPort, manager
<1>7. CASE SendPortFails(w)
  BY <1>7
  DEF SendPortFails, QuietTest, TestPc, TypeOK, WorkerTypeOK, UiTypeOK, At,
      FailWith, TryStopPort, manager
<1>8. CASE SendPortCancelled(w)
  BY <1>8
  DEF SendPortCancelled, QuietTest, TestPc, TypeOK, WorkerTypeOK, UiTypeOK,
      At, FailWith, TryStopPort, manager
<1>9. CASE AllPortsSent(w)
  BY <1>9
  DEF AllPortsSent, QuietTest, TestPc, TypeOK, WorkerTypeOK, UiTypeOK, At,
      Goto
<1> QED
  BY <1>1, <1>2, <1>3, <1>4, <1>5, <1>6, <1>7, <1>8, <1>9
  DEF StartStep

LEMMA UpdateInTest ==
  ASSUME TypeOK, NEW w \in Workers, UpdateStep(w)
  PROVE  QuietTest(w) \/ UpdatePrepares(w) \/ UpdateDone(w)
<1>1. CASE UpdateRejected(w)
  BY <1>1
  DEF UpdateRejected, QuietTest, TestPc, TypeOK, WorkerTypeOK, UiTypeOK, At,
      FinishWorker, IdleWorker, manager, device
<1>2. CASE UpdateNotSaved(w)
  BY <1>2
  DEF UpdateNotSaved, QuietTest, TestPc, TypeOK, WorkerTypeOK, UiTypeOK, At,
      FinishWorker, IdleWorker, device
<1>3. CASE UpdateUnchanged(w)
  BY <1>3
  DEF UpdateUnchanged, QuietTest, TestPc, TypeOK, WorkerTypeOK, UiTypeOK,
      At, FinishWorker, IdleWorker, device
<1>4. CASE UpdateChanged(w)
  BY <1>4
  DEF UpdateChanged, QuietTest, TestPc, TypeOK, WorkerTypeOK, UiTypeOK, At,
      Goto, device
<1>5. CASE NothingToChange(w)
  BY <1>5
  DEF NothingToChange, QuietTest, TestPc, TypeOK, WorkerTypeOK, UiTypeOK,
      At, NextPort, manager, device
<1>6. CASE ChangePort(w)
  BY <1>6
  DEF ChangePort, QuietTest, TestPc, TypeOK, WorkerTypeOK, UiTypeOK, At,
      NextPort, manager, device
<1>7. CASE ChangePortFails(w)
  BY <1>7
  DEF ChangePortFails, QuietTest, TestPc, TypeOK, WorkerTypeOK, UiTypeOK,
      At, FailWith, manager, device
<1>8. CASE ChangePortCancelled(w)
  BY <1>8
  DEF ChangePortCancelled, QuietTest, TestPc, TypeOK, WorkerTypeOK,
      UiTypeOK, At, FailWith, manager, device
<1>9. CASE AllPortsChanged(w)
  BY <1>9
  DEF AllPortsChanged, QuietTest, TestPc, TypeOK, WorkerTypeOK, UiTypeOK,
      At, Goto, manager, device
<1> QED
  BY <1>1, <1>2, <1>3, <1>4, <1>5, <1>6, <1>7, <1>8, <1>9
  DEF UpdateStep

LEMMA NoSequenceStep ==
  ASSUME ManualAlone, NEW w \in Workers
  PROVE  ~StartStateSequenceTest(w) /\ ~OnWhetherSwitch(w) /\ ~ConfirmSwitch(w)
BY DEF ManualAlone, ManualPc, StartStateSequenceTest, SequenceRejected,
    SequenceAccepted, ClearSequenceResults, PrepareCancelled, FrameState,
    PrepareState, FramingCancelled, PrepareFails, AllPrepared, StateCancelled,
    SendState0, UpdateState, SendStateFails, StateSent, TimerExpires,
    TimerCancelled, TimerTimesOut, DIMet, DICancelled, UserSwitched,
    AllStatesSent, ExitStopRecv, ExitStopPorts, ExitPortFails,
    PostSequenceResult, OnWhetherSwitch, ConfirmSwitch, At

LEMMA ManualWorker ==
  ASSUME TypeOK, ManualAlone, NEW w \in Workers, WorkerStep(w)
  PROVE  (StartStep(w) \/ UpdateStep(w)) /\ ManualMove(w)
BY NoSequenceStep, StartIsManual, UpdateIsManual
DEF WorkerStep, StartManualTestSMV, StartManualTestGoose, UpateManualTestSMV,
    UpateManualTestGoose

(* The UI thread calls what the manual dialog lists.                       *)
LEMMA ManualUi ==
  ASSUME "sequence" \notin Dialogs, TypeOK, CallPending, ManualAlone, UiStep
  PROVE  ManualAlone' /\ UNCHANGED <<curFunctionType, sendStatus, portOn>>
<1> DEFINE ManualCall == [op : {"start", "update", "stop"}, kind : Kind]
<1>1. UNCHANGED <<curFunctionType, sendStatus, portOn>>
  BY DEF UiStep, KindStep, StopApart, StartApart, ModifyValue,
      OnManualTestResult, DialogStep, StopTogether, StartTogether,
      SetStartMode, StartSequence, StopSequence, OnTestCompleted, ShowPage,
      ThreadStep, OnWhetherSwitch, ConfirmSwitch, Spawn, CallStep, SpawnFails,
      WakeUp, CallStop, UiOnly, manager, device
<1>2. ui.page = "manual"
  BY SendAssumption DEF TypeOK, UiTypeOK
<1>3. \A s \in Seq(ManualCall) :
        s # <<>> => Head(s) \in ManualCall /\ Tail(s) \in Seq(ManualCall)
  BY HeadTailProperties
<1>4. ASSUME worker' = worker, ui'.pc \in {"loop", "stop", ui.pc},
             ui'.todo \in Seq(ManualCall)
      PROVE  ManualAlone'
  BY <1>4 DEF ManualAlone
<1>5. \A c, d \in ManualCall : <<c>> \in Seq(ManualCall) /\ <<c, d>> \in Seq(ManualCall)
  OBVIOUS
<1>6. CASE \E k \in Kind : KindStep(k)
  <2> PICK k \in Kind : KindStep(k)
    BY <1>6
  <2>1. worker' = worker /\ ui'.pc = ui.pc
    BY DEF KindStep, StopApart, StartApart, ModifyValue, OnManualTestResult,
           UiOnly, TypeOK, UiTypeOK
  <2>2. \/ ui'.todo = ui.todo
        \/ \E op \in {"start", "update", "stop"} : ui'.todo = <<Call(op, k)>>
    BY DEF KindStep, StopApart, StartApart, ModifyValue, OnManualTestResult,
           TypeOK, UiTypeOK
  <2>3. \A op \in {"start", "update", "stop"} : Call(op, k) \in ManualCall
    BY DEF Call
  <2>4. ui.todo \in Seq(ManualCall)
    BY DEF ManualAlone
  <2>5. ui'.todo \in Seq(ManualCall)
    BY <1>5, <2>2, <2>3, <2>4
  <2> QED
    BY <1>1, <1>4, <2>1, <2>5
<1>7. CASE DialogStep
  <2>1. worker' = worker /\ ui'.pc = ui.pc
    BY <1>7 DEF DialogStep, StopTogether, StartTogether, SetStartMode,
        StartSequence, StopSequence, OnTestCompleted, ShowPage, UiOnly,
        TypeOK, UiTypeOK
  <2>2. \/ ui'.todo = ui.todo
        \/ \E op \in {"start", "stop"} :
             ui'.todo = <<Call(op, "SMV"), Call(op, "GOOSE")>>
    BY <1>2, <1>7 DEF DialogStep, StopTogether, StartTogether, SetStartMode,
        StartSequence, StopSequence, OnTestCompleted, ShowPage, TypeOK, UiTypeOK
  <2>3. ui'.todo \in Seq(ManualCall)
    BY <1>5, <2>2 DEF Call, Kind, ManualAlone
  <2> QED
    BY <1>1, <1>4, <2>1, <2>3
<1>8. CASE \E w \in Workers : Spawn(w)
  <2> PICK w \in Workers : Spawn(w)
    BY <1>8
  <2>1. Head(ui.todo).op \in {"start", "update"}
    BY <1>3 DEF Spawn, Pending, ManualAlone
  <2>2. ui'.pc = "sleep" /\ ui'.todo = ui.todo
    BY DEF Spawn, TypeOK, UiTypeOK
  <2>3. \A v \in Workers : worker'[v].pc \in {worker[v].pc, "start", "update"}
    BY <2>1 DEF Spawn, IdleWorker, TypeOK, WorkerTypeOK
  <2> QED
    BY <1>1, <2>2, <2>3 DEF ManualAlone, ManualPc
<1>9. CASE CallStep
  <2>1. worker' = worker
    BY <1>9 DEF CallStep, SpawnFails, WakeUp, CallStop, UiOnly
  <2>2. ui.todo # <<>>
    BY <1>9 DEF CallStep, SpawnFails, WakeUp, CallStop, Pending, CallPending
  <2>3. ui'.todo \in {ui.todo, Tail(ui.todo)}
    BY <1>9 DEF CallStep, SpawnFails, WakeUp, CallStop, UiReturn, UiGoto,
                TypeOK, UiTypeOK
  <2>4. Head(ui.todo).op \in {"start", "update", "stop"}
    BY <1>3, <2>2 DEF ManualAlone
  <2>5. ui'.pc \in {"loop", "stop"}
    BY <1>9, <2>4 DEF CallStep, SpawnFails, WakeUp, CallStop, UiReturn, UiGoto,
                Pending, TypeOK, UiTypeOK
  <2> QED
    BY <1>1, <1>3, <1>4, <2>1, <2>2, <2>3, <2>5 DEF ManualAlone
<1> QED
  BY <1>1, <1>6, <1>7, <1>8, <1>9, NoSequenceStep DEF UiStep, ThreadStep

LEMMA ManualStop ==
  ASSUME TypeOK, CallPending, ManualAlone, StopStep
  PROVE  ManualAlone'
<1>1. ui.todo # <<>>
  BY DEF StopStep, StopIdle, StopCancels, StopWaited, StopPort, StopPortFails,
      StopUnderLock, StopDone, CallPending
<1>2. Tail(ui.todo) \in Seq([op : {"start", "update", "stop"}, kind : Kind])
  BY <1>1, HeadTailProperties DEF ManualAlone
<1> QED
  BY <1>2 DEF StopStep, StopIdle, StopCancels, StopWaited, StopPort,
      StopPortFails, StopUnderLock, StopDone, UiGoto, UiReturn, ManualAlone,
      TypeOK, UiTypeOK

LEMMA ManualNext ==
  ASSUME "sequence" \notin Dialogs, TypeOK, CallPending, ManualAlone,
         [Next]_vars
  PROVE  ManualAlone'
<1>1. CASE \E w \in Workers : WorkerStep(w)
  BY <1>1, ManualWorker DEF ManualMove, ManualAlone
<1>2. CASE ReceiveStep \/ UNCHANGED vars
  BY <1>2 DEF ReceiveStep, FrameReceived, ReceptionStopped, FindManualResult,
      FindSequenceResult, SaveValue, NoValueChanged, vars, ManualAlone
<1>3. ~StopStateSequenceTest
  BY DEF StopStateSequenceTest, StopSequenceChecks, StopSequenceCancels,
         StopSequenceWaited, ManualAlone
<1> QED
  BY <1>1, <1>2, <1>3, ManualUi, ManualStop DEF Next

-----------------------------------------------------------------------------
TestInv == FramingInTest /\ SentInTest

(* A kind is not sent, nor prepared, when the other ends the test.         *)
LEMMA TestStart ==
  ASSUME TypeOK, FramerInv, TestInv, NEW w \in Workers, StartStep(w)
  PROVE  TestInv'
<1> DEFINE k == worker[w].kind
<1>0. k \in Kind
  BY DEF TypeOK, WorkerTypeOK
<1>1. CASE QuietTest(w)
  BY <1>1 DEF QuietTest, TestInv, FramingInTest, SentInTest, StopKind
<1>2. CASE StartAccepted(w)
  BY <1>2 DEF StartAccepted, TestInv, FramingInTest, SentInTest
<1>3. CASE StartSucceeds(w)
  <2>1. curFunctionType = "MANUAL_TEST"
    BY <1>3 DEF StartSucceeds, TestInv, FramingInTest, TestPc, At
  <2>2. curFunctionType' = curFunctionType
    BY <1>3 DEF StartSucceeds
  <2> QED
    BY <2>1, <2>2 DEF TestInv, FramingInTest, SentInTest
<1>4. CASE StartFailsUnderLock(w)
  <2>1. CASE curFunctionType' = curFunctionType
    <3>1. /\ sendStatus' = sendStatus /\ ui' = ui
          /\ \A v \in Workers : worker'[v].pc \in TestPc => worker[v].pc \in TestPc
      BY <1>4 DEF StartFailsUnderLock, Goto, TestPc, TypeOK, WorkerTypeOK
    <3> QED
      BY <2>1, <3>1 DEF TestInv, FramingInTest, SentInTest, StopKind
  <2>2. CASE curFunctionType' # curFunctionType
    <3>1. sendStatus[OtherKind(k)] = "STOPPED" /\ sendStatus' = sendStatus
      BY <1>4, <2>2 DEF StartFailsUnderLock, TestEnds
    <3>2. w \in Framers(k)
      BY <1>4 DEF StartFailsUnderLock, Framers, Preparing, At
    <3>3. sendStatus[k] = "PREPARE" /\ \A v \in Framers(k) : v = w
      BY <1>0, <3>2 DEF FramerInv, OneFramer
    <3>4. Framers(OtherKind(k)) = {}
      BY <1>0, <3>1 DEF FramerInv, OneFramer, OtherKind, Kind
    <3>5. \A v \in Workers \ {w} : worker[v].pc \notin Preparing
      BY <1>0, <3>3, <3>4 DEF Framers, OtherKind, Kind, TypeOK, WorkerTypeOK
    <3>6. FramingInTest'
      BY <1>4, <3>5 DEF StartFailsUnderLock, Goto, FramingInTest, TestPc,
          Preparing, TypeOK, WorkerTypeOK
    <3>7. SentInTest'
      BY <1>0, <3>1, <3>3 DEF SentInTest, OtherKind, Kind
    <3> QED
      BY <3>6, <3>7 DEF TestInv
  <2> QED
    BY <2>1, <2>2
<1>5. CASE StartFails(w)
  <2>1. /\ curFunctionType' = curFunctionType
        /\ sendStatus' = [sendStatus EXCEPT ![k] = "STOPPED"]
        /\ ui'.pc = ui.pc /\ ui'.todo = ui.todo
        /\ worker' = [worker EXCEPT ![w] = IdleWorker]
    BY <1>5 DEF StartFails, FinishWorker, TypeOK, UiTypeOK
  <2>2. FramingInTest'
    BY <2>1 DEF TestInv, FramingInTest, IdleWorker, TestPc, TypeOK, WorkerTypeOK
  <2>3. SentInTest'
    BY <1>0, <2>1 DEF TestInv, SentInTest, StopKind, TypeOK, ManagerTypeOK
  <2> QED
    BY <2>2, <2>3 DEF TestInv
<1> QED
  BY <1>1, <1>2, <1>3, <1>4, <1>5, StartInTest

(* Only what is sent, and so belongs to a test, is updated.                *)
LEMMA TestUpdate ==
  ASSUME TypeOK, FramerInv, TestInv, NEW w \in Workers, UpdateStep(w)
  PROVE  TestInv'
<1>0. worker[w].kind \in Kind
  BY DEF TypeOK, WorkerTypeOK
<1>1. CASE QuietTest(w)
  BY <1>1 DEF QuietTest, TestInv, FramingInTest, SentInTest, StopKind
<1>2. CASE UpdatePrepares(w) \/ UpdateDone(w)
  <2>1. curFunctionType = "MANUAL_TEST"
    <3>1. CASE UpdatePrepares(w)
      <4>1. ui.pc = "sleep" /\ sendStatus[worker[w].kind] = "SENDING"
        BY <3>1 DEF UpdatePrepares, At, FramerInv, UiWaitsForEntry,
                    UpdateOfSending
      <4> QED
        BY <1>0, <4>1 DEF TestInv, SentInTest
    <3>2. CASE UpdateDone(w)
      BY <3>2 DEF UpdateDone, TestInv, FramingInTest, TestPc, At
    <3> QED
      BY <1>2, <3>1, <3>2
  <2>2. curFunctionType' = curFunctionType
    BY <1>2 DEF UpdatePrepares, UpdateDone
  <2> QED
    BY <2>1, <2>2 DEF TestInv, FramingInTest, SentInTest
<1> QED
  BY <1>1, <1>2, UpdateInTest

(* A stop ends the test when the other kind rests: then the kind stopped   *)
(* is the last to be sent, and it is for StopDone to say that it is not.   *)
LEMMA TestStop ==
  ASSUME TypeOK, CallPending, FramerInv, TestInv, StopStep
  PROVE  TestInv'
<1>1. CASE StopUnderLock
  <2>1. StopKind \in Kind /\ StopKind' = StopKind /\ ui'.pc = "stopped"
    BY <1>1, HeadType DEF StopUnderLock, UiGoto, StopKind, CallPending, TypeOK,
                          UiTypeOK
  <2>2. CASE curFunctionType' = curFunctionType
    BY <1>1, <2>1, <2>2 DEF StopUnderLock, TestInv, FramingInTest, SentInTest
  <2>3. CASE curFunctionType' # curFunctionType
    <3>1. sendStatus[OtherKind(StopKind)] = "STOPPED"
      BY <1>1, <2>3 DEF StopUnderLock, TestEnds
    <3>2. sendStatus[StopKind] # "PREPARE"
      BY <1>1 DEF StopUnderLock, FramerInv, StopAfterFraming
    <3>3. \A j \in Kind : Framers(j) = {}
      BY <2>1, <3>1, <3>2 DEF FramerInv, OneFramer, OtherKind, Kind
    <3>4. \A w \in Workers : worker[w].pc \notin Preparing
      BY <3>3 DEF Framers, TypeOK, WorkerTypeOK
    <3>5. FramingInTest'
      BY <1>1, <3>4 DEF StopUnderLock, FramingInTest, TestPc, Preparing
    <3>6. SentInTest'
      BY <1>1, <2>1, <3>1 DEF StopUnderLock, SentInTest, OtherKind, Kind
    <3> QED
      BY <3>5, <3>6 DEF TestInv
  <2> QED
    BY <2>2, <2>3
<1>2. CASE StopDone
  <2>1. StopKind \in Kind /\ sendStatus' = [sendStatus EXCEPT ![StopKind] = "STOPPED"]
    BY <1>2, HeadType DEF StopDone, StopKind, CallPending, TypeOK
  <2>2. \A k \in Kind : sendStatus'[k] = "SENDING" => curFunctionType = "MANUAL_TEST"
    BY <2>1 DEF TestInv, SentInTest, TypeOK, ManagerTypeOK
  <2> QED
    BY <1>2, <2>2 DEF StopDone, TestInv, FramingInTest, SentInTest
<1>3. CASE StopIdle \/ StopCancels \/ StopWaited \/ StopPort \/ StopPortFails
  <2>1. ui.pc # "stopped" /\ UNCHANGED <<curFunctionType, sendStatus, worker>>
    BY <1>3 DEF StopIdle, StopCancels, StopWaited, StopPort, StopPortFails, manager
  <2> QED
    BY <2>1 DEF TestInv, FramingInTest, SentInTest
<1> QED
  BY <1>1, <1>2, <1>3 DEF StopStep

(* The dialog does nothing while a stop is under way.                      *)
LEMMA NoKeyInStop ==
  ASSUME TypeOK, ManualAlone, UiStep
  PROVE  /\ ui.pc \notin {"stopPorts", "stopped"}
         /\ ui'.pc \notin {"stopPorts", "stopped"}
<1>1. ui.pc \in {"loop", "sleep"}
  BY NoSequenceStep
  DEF ManualAlone, UiStep, KindStep, StopApart, StartApart, ModifyValue,
      OnManualTestResult, DialogStep, StopTogether, StartTogether,
      SetStartMode, StartSequence, StopSequence, OnTestCompleted, ShowPage,
      ThreadStep, Spawn, CallStep, SpawnFails, WakeUp, CallStop, Key, UiFree,
      Pending
<1>2. CASE (\E k \in Kind : KindStep(k)) \/ DialogStep
  BY <1>1, <1>2
  DEF KindStep, StopApart, StartApart, ModifyValue, OnManualTestResult,
      DialogStep, StopTogether, StartTogether, SetStartMode, StartSequence,
      StopSequence, OnTestCompleted, ShowPage, TypeOK, UiTypeOK
<1>3. CASE (\E w \in Workers : Spawn(w)) \/ CallStep
  BY <1>3
  DEF Spawn, CallStep, SpawnFails, WakeUp, CallStop, UiReturn, UiGoto,
      Pending, TypeOK, UiTypeOK
<1> QED
  BY <1>1, <1>2, <1>3, NoSequenceStep DEF UiStep, ThreadStep

(* The keys neither prepare nor send.                                      *)
LEMMA TestUi ==
  ASSUME "sequence" \notin Dialogs, TypeOK, CallPending, ManualAlone, TestInv,
         UiStep
  PROVE  TestInv'
<1>1. UNCHANGED <<curFunctionType, sendStatus>>
  BY ManualUi
<1>2. \A w \in Workers : worker'[w].pc \in TestPc => worker[w].pc \in TestPc
  <2>1. CASE UNCHANGED worker
    BY <2>1
  <2>2. CASE \E w \in Workers : Spawn(w)
    BY <2>2 DEF Spawn, Pending, IdleWorker, TestPc, TypeOK, WorkerTypeOK
  <2> QED
    BY <2>1, <2>2, NoSequenceStep
    DEF UiStep, KindStep, StopApart, StartApart, ModifyValue,
        OnManualTestResult, DialogStep, StopTogether, StartTogether,
        SetStartMode, StartSequence, StopSequence, OnTestCompleted, ShowPage,
        ThreadStep, CallStep, SpawnFails, WakeUp, CallStop, UiOnly
<1> QED
  BY <1>1, <1>2, NoKeyInStop DEF TestInv, FramingInTest, SentInTest

LEMMA TestNext ==
  ASSUME "sequence" \notin Dialogs, TypeOK, CallPending, ManualAlone,
         FramerInv, TestInv, [Next]_vars
  PROVE  TestInv'
<1>1. CASE \E w \in Workers : WorkerStep(w)
  BY <1>1, ManualWorker, TestStart, TestUpdate
<1>2. CASE ReceiveStep \/ UNCHANGED vars
  <2>1. UNCHANGED <<curFunctionType, sendStatus, worker, ui>>
    BY <1>2 DEF ReceiveStep, FrameReceived, ReceptionStopped, FindManualResult,
                FindSequenceResult, SaveValue, NoValueChanged, vars, manager
  <2> QED
    BY <2>1 DEF TestInv, FramingInTest, SentInTest, StopKind
<1>3. ~StopStateSequenceTest
  BY DEF StopStateSequenceTest, StopSequenceChecks, StopSequenceCancels,
         StopSequenceWaited, ManualAlone
<1> QED
  BY <1>1, <1>2, <1>3, TestUi, TestStop DEF Next

-----------------------------------------------------------------------------
(* A stop has switched off the ports it has passed, and nobody switches    *)
(* one on again: only a thread that prepares the kind would.               *)
PortsPassed ==
  /\ ui.pc = "stopPorts" =>
       /\ ui.port >= 1
       /\ \A p \in Ports(StopKind) : p < ui.port => p \notin portOn[StopKind]
  /\ StoppedIsQuiet

LEMMA PassedWorker ==
  ASSUME TypeOK, CallPending, FramerInv, PortsPassed, NEW w \in Workers,
         ManualMove(w)
  PROVE  PortsPassed'
<1>1. CASE ui.pc \in {"stopPorts", "stopped"}
  <2>1. StopKind \in Kind /\ sendStatus[StopKind] # "PREPARE"
    BY <1>1, HeadType DEF CallPending, TypeOK, FramerInv, StopAfterFraming
  <2>2. Framers(StopKind) = {}
    BY <2>1 DEF FramerInv, OneFramer
  <2>3. portOn'[StopKind] \subseteq portOn[StopKind]
    BY <2>1, <2>2 DEF ManualMove, Framers, Preparing, At
  <2>4. StopKind' = StopKind /\ ui'.pc = ui.pc /\ ui'.port = ui.port
    BY DEF ManualMove, StopKind
  <2> QED
    BY <2>3, <2>4 DEF PortsPassed, StoppedIsQuiet
<1>2. CASE ui.pc \notin {"stopPorts", "stopped"}
  BY <1>2 DEF ManualMove, PortsPassed, StoppedIsQuiet
<1> QED
  BY <1>1, <1>2

LEMMA PassedStop ==
  ASSUME TypeOK, CallPending, PortsPassed, StopStep
  PROVE  PortsPassed'
<1>1. CASE StopIdle \/ StopWaited
  <2>1. ui'.pc = "stopPorts" /\ ui'.port = 1
    BY <1>1 DEF StopIdle, StopWaited, TypeOK, UiTypeOK
  <2> QED
    BY <2>1 DEF PortsPassed, StoppedIsQuiet, Ports
<1>2. CASE StopPort
  <2>1. /\ StopKind \in Kind /\ StopKind' = StopKind
        /\ ui.port \in Nat /\ ui'.port = ui.port + 1 /\ ui'.pc = "stopPorts"
    BY <1>2, HeadType DEF StopPort, StopKind, CallPending, TypeOK, UiTypeOK
  <2>2. portOn'[StopKind] = portOn[StopKind] \ {ui.port}
    BY <1>2, <2>1 DEF StopPort, TypeOK, DeviceTypeOK
  <2>3. \A p \in Ports(StopKind) : p \in Nat /\ (p < ui.port + 1 => p < ui.port \/ p = ui.port)
    BY <2>1, SendAssumption DEF Ports
  <2> QED
    BY <1>2, <2>1, <2>2, <2>3 DEF StopPort, PortsPassed, StoppedIsQuiet, Ports
<1>3. CASE StopUnderLock
  <2>1. /\ StopKind \in Kind /\ StopKind' = StopKind /\ portOn' = portOn
        /\ ui'.pc = "stopped" /\ ui.pc = "stopPorts"
        /\ ui.port \in Nat /\ ui.port \notin Ports(StopKind)
    BY <1>3, HeadType DEF StopUnderLock, UiGoto, StopKind, CallPending, TypeOK,
                          UiTypeOK
  <2>2. \A p \in Ports(StopKind) : p < ui.port
    BY <2>1, SendAssumption DEF PortsPassed, Ports
  <2> QED
    BY <2>1, <2>2 DEF PortsPassed, StoppedIsQuiet, Ports
<1>4. CASE StopCancels \/ StopPortFails \/ StopDone
  <2>1. ui'.pc \in {"stopWait", "loop"}
    BY <1>4 DEF StopCancels, StopPortFails, StopDone, UiGoto, UiReturn, TypeOK,
                UiTypeOK
  <2> QED
    BY <2>1 DEF PortsPassed, StoppedIsQuiet
<1> QED
  BY <1>1, <1>2, <1>3, <1>4 DEF StopStep

LEMMA PassedNext ==
  ASSUME "sequence" \notin Dialogs, TypeOK, CallPending, ManualAlone,
         FramerInv, PortsPassed, [Next]_vars
  PROVE  PortsPassed'
<1>1. CASE \E w \in Workers : WorkerStep(w)
  BY <1>1, ManualWorker, PassedWorker
<1>2. CASE UiStep
  <2>1. portOn' = portOn
    BY <1>2, ManualUi
  <2> QED
    BY <1>2, <2>1, NoKeyInStop DEF PortsPassed, StoppedIsQuiet
<1>3. CASE ReceiveStep \/ UNCHANGED vars
  <2>1. UNCHANGED <<portOn, ui>>
    BY <1>3 DEF ReceiveStep, FrameReceived, ReceptionStopped, FindManualResult,
                FindSequenceResult, SaveValue, NoValueChanged, vars, device
  <2> QED
    BY <2>1 DEF PortsPassed, StoppedIsQuiet, StopKind
<1>4. ~StopStateSequenceTest
  BY DEF StopStateSequenceTest, StopSequenceChecks, StopSequenceCancels,
         StopSequenceWaited, ManualAlone
<1> QED
  BY <1>1, <1>2, <1>3, <1>4, PassedStop DEF Next

(* The three together, with the manual dialog alone.                       *)
LEMMA ManualTestKept ==
  ASSUME SpawnWaits, "sequence" \notin Dialogs
  PROVE  Spec => [](FramingIsManualTest /\ SentInTest /\ StoppedIsQuiet)
<1>1. Init => FramerInv /\ ManualAlone /\ TestInv /\ PortsPassed
  <2> SUFFICES ASSUME Init PROVE ManualAlone /\ TestInv /\ PortsPassed
    BY FramerInit
  <2>1. /\ ui.pc = "loop" /\ ui.todo = <<>>
        /\ \A w \in Workers : worker[w].pc = "idle"
        /\ \A k \in Kind : sendStatus[k] = "STOPPED"
    BY DEF Init, UiInit, IdleWorker
  <2>2. ManualAlone
    BY <2>1 DEF ManualAlone, ManualPc
  <2>3. TestInv /\ PortsPassed
    BY <2>1 DEF TestInv, FramingInTest, TestPc, SentInTest, PortsPassed,
                StoppedIsQuiet
  <2> QED
    BY <2>2, <2>3
<1>2. TypeOK /\ CallPending /\ FramerInv /\ [Next]_vars => FramerInv'
  BY FramerNext
<1>3. TypeOK /\ CallPending /\ ManualAlone /\ [Next]_vars => ManualAlone'
  BY ManualNext
<1>4. TypeOK /\ CallPending /\ ManualAlone /\ FramerInv /\ TestInv /\ [Next]_vars
        => TestInv'
  BY TestNext
<1>5. TypeOK /\ CallPending /\ ManualAlone /\ FramerInv /\ PortsPassed /\ [Next]_vars
        => PortsPassed'
  BY PassedNext
<1>6. TestInv /\ PortsPassed
        => FramingIsManualTest /\ SentInTest /\ StoppedIsQuiet
  BY DEF TestInv, FramingInTest, TestPc, FramingIsManualTest, PortsPassed
<1> QED
  BY <1>1, <1>2, <1>3, <1>4, <1>5, <1>6, TypeCorrect, PTL DEF Spec

(* While a thread frames a manual test, the function type says so: no      *)
(* state sequence can begin to use the same ports.                         *)
THEOREM FramingIsManualTestAlways ==
  ASSUME SpawnWaits, "sequence" \notin Dialogs
  PROVE  Spec => []FramingIsManualTest
BY ManualTestKept, PTL

(* What is sent belongs to a manual test in progress, although a kind that *)
(* fails and a kind that is stopped may end the test of the other.         *)
THEOREM SentInTestAlways ==
  ASSUME SpawnWaits, "sequence" \notin Dialogs
  PROVE  Spec => []SentInTest
BY ManualTestKept, PTL

(* A stop that reports success leaves no port of its kind transmitting,    *)
(* although it switches them off one by one without the mutex.             *)
THEOREM StoppedIsQuietAlways ==
  ASSUME SpawnWaits, "sequence" \notin Dialogs
  PROVE  Spec => []StoppedIsQuiet
BY ManualTestKept, PTL

-----------------------------------------------------------------------------
(* The state sequence by itself: the user opens its dialog only.           *)
SequencePc == {"idle", "sequence", "post"} \union InSequence

SequenceAlone ==
  /\ \A w \in Workers : worker[w].pc \in SequencePc
  /\ ui.pc \in {"loop", "sleep", "stopSequence", "setEvents", "pump"}
  /\ ui.todo \in Seq([op : {"sequence", "stopSequence"}, kind : Kind])

(* How many results a sequence has, seen from where its worker is: one for *)
(* each state prepared, and all of them once states are sent.              *)
Sent == {"tested", "waitTime", "waitDI", "ask", "asked", "answered"}

ResultsOf(w) ==
  /\ worker[w].pc \in {"sequence", "clear"} => worker[w].state = 0
  /\ worker[w].pc = "prepare" =>
       seqResults = worker[w].state /\ worker[w].state <= StateCount
  /\ worker[w].pc = "frame" =>
       seqResults = worker[w].state /\ worker[w].state < StateCount
  /\ worker[w].pc = "state" =>
       seqResults = StateCount /\ worker[w].state <= StateCount
  /\ worker[w].pc \in Sent =>
       seqResults = StateCount /\ worker[w].state < StateCount

Results == \A w \in Workers : ResultsOf(w)

(* Reception ends before the ports are stopped.                            *)
ExitIsQuiet == \A w \in Workers : At(w, "exitPorts") => ~recvOn

SequenceInv == SequenceExclusive /\ Results /\ ExitIsQuiet /\ NoTestIsQuiet

(* A step of a sequence that keeps the function type.                      *)
Inner(w) ==
  /\ \A v \in Workers \ {w} : worker'[v] = worker[v]
  /\ worker[w].pc \in InSequence
  /\ worker'[w].pc \in InSequence \union {"post"}
  /\ ResultsOf(w)'
  /\ worker'[w].pc = "exitPorts" => ~recvOn'
  /\ curFunctionType' = curFunctionType
  /\ ui' = ui

(* The steps of a sequence in progress, but the last two.                  *)
LEMMA SequenceSteps ==
  ASSUME TypeOK, NEW w \in Workers, ResultsOf(w), StartStateSequenceTest(w)
  PROVE  \/ Inner(w) \/ SequenceRejected(w) \/ SequenceAccepted(w)
         \/ ExitStopPorts(w) \/ PostSequenceResult(w)
<1>1. CASE ClearSequenceResults(w)
  <2>1. CASE Goto(w, "prepare")
    BY <1>1, <2>1, SendAssumption
    DEF ClearSequenceResults, Goto, At, Inner, ResultsOf, Sent, InSequence,
        TypeOK, WorkerTypeOK
  <2>2. CASE ReturnWith(w, "FAILURE")
    BY <1>1, <2>2
    DEF ClearSequenceResults, ReturnWith, FailWith, At, Inner, ResultsOf, Sent,
        InSequence, TypeOK, WorkerTypeOK
  <2> QED
    BY <1>1, <2>1, <2>2 DEF ClearSequenceResults
<1>2. CASE PrepareCancelled(w)
  BY <1>2, SendAssumption
  DEF PrepareCancelled, TakeCancel, ReturnWith, FailWith, manager, device,
      At, Inner, ResultsOf, Sent, InSequence, TypeOK, ManagerTypeOK,
      WorkerTypeOK
<1>3. CASE FrameState(w)
  BY <1>3, SendAssumption
  DEF FrameState, Goto, manager, device, At, Inner, ResultsOf, Sent,
      InSequence, TypeOK, ManagerTypeOK, WorkerTypeOK
<1>4. CASE PrepareState(w)
  BY <1>4, SendAssumption
  DEF PrepareState, device, At, Inner, ResultsOf, Sent, InSequence, TypeOK,
      ManagerTypeOK, WorkerTypeOK
<1>5. CASE FramingCancelled(w)
  BY <1>5, SendAssumption
  DEF FramingCancelled, ReturnWith, FailWith, device, At, Inner, ResultsOf,
      Sent, InSequence, TypeOK, ManagerTypeOK, WorkerTypeOK
<1>6. CASE PrepareFails(w)
  BY <1>6, SendAssumption
  DEF PrepareFails, ReturnWith, FailWith, device, At, Inner, ResultsOf,
      Sent, InSequence, TypeOK, ManagerTypeOK, WorkerTypeOK
<1>7. CASE AllPrepared(w)
  BY <1>7, SendAssumption
  DEF AllPrepared, ToState, Prepared, manager, At, Inner, ResultsOf, Sent,
      InSequence, TypeOK, ManagerTypeOK, WorkerTypeOK
<1>8. CASE StateCancelled(w)
  BY <1>8, SendAssumption
  DEF StateCancelled, TakeCancel, ReturnWith, FailWith, manager, device, At,
      Inner, ResultsOf, Sent, InSequence, TypeOK, ManagerTypeOK,
      WorkerTypeOK
<1>9. CASE SendState0(w)
  BY <1>9, SendAssumption
  DEF SendState0, Goto, manager, At, Inner, ResultsOf, Sent, InSequence,
      TypeOK, ManagerTypeOK, WorkerTypeOK
<1>10. CASE UpdateState(w)
  BY <1>10, SendAssumption
  DEF UpdateState, Goto, manager, device, At, Inner, ResultsOf, Sent,
      InSequence, TypeOK, ManagerTypeOK, WorkerTypeOK
<1>11. CASE SendStateFails(w)
  BY <1>11, SendAssumption
  DEF SendStateFails, ReturnWith, FailWith, manager, At, Inner, ResultsOf,
      Sent, InSequence, TypeOK, ManagerTypeOK, WorkerTypeOK
<1>12. CASE StateSent(w)
  BY <1>12, SendAssumption
  DEF StateSent, Goto, SwitchType, device, At, Inner, ResultsOf, Sent,
      InSequence, TypeOK, ManagerTypeOK, WorkerTypeOK
<1>13. CASE TimerExpires(w)
  BY <1>13, SendAssumption
  DEF TimerExpires, NextState, ToState, manager, device, At, Inner,
      ResultsOf, Sent, InSequence, TypeOK, ManagerTypeOK, WorkerTypeOK
<1>14. CASE TimerCancelled(w)
  BY <1>14, SendAssumption
  DEF TimerCancelled, TakeCancel, ReturnWith, FailWith, manager, device, At,
      Inner, ResultsOf, Sent, InSequence, TypeOK, ManagerTypeOK,
      WorkerTypeOK
<1>15. CASE TimerTimesOut(w)
  BY <1>15, SendAssumption
  DEF TimerTimesOut, ReturnWith, FailWith, manager, device, At, Inner,
      ResultsOf, Sent, InSequence, TypeOK, ManagerTypeOK, WorkerTypeOK
<1>16. CASE DIMet(w)
  BY <1>16, SendAssumption
  DEF DIMet, NextState, ToState, manager, device, At, Inner, ResultsOf,
      Sent, InSequence, TypeOK, ManagerTypeOK, WorkerTypeOK
<1>17. CASE DICancelled(w)
  BY <1>17, SendAssumption
  DEF DICancelled, TakeCancel, ReturnWith, FailWith, manager, device, At,
      Inner, ResultsOf, Sent, InSequence, TypeOK, ManagerTypeOK,
      WorkerTypeOK
<1>18. CASE UserSwitched(w)
  BY <1>18, SendAssumption
  DEF UserSwitched, NextState, ToState, manager, device, At, Inner,
      ResultsOf, Sent, InSequence, TypeOK, ManagerTypeOK, WorkerTypeOK
<1>19. CASE AllStatesSent(w)
  BY <1>19, SendAssumption
  DEF AllStatesSent, Goto, manager, device, At, Inner, ResultsOf, Sent,
      InSequence, TypeOK, ManagerTypeOK, WorkerTypeOK
<1>20. CASE ExitStopRecv(w)
  BY <1>20, SendAssumption
  DEF ExitStopRecv, Goto, manager, At, Inner, ResultsOf, Sent, InSequence,
      TypeOK, ManagerTypeOK, WorkerTypeOK
<1>21. CASE ExitPortFails(w)
  BY <1>21, SendAssumption
  DEF ExitPortFails, Goto, manager, At, Inner, ResultsOf, Sent, InSequence,
      TypeOK, ManagerTypeOK, WorkerTypeOK
<1> QED
  BY <1>1, <1>2, <1>3, <1>4, <1>5, <1>6, <1>7, <1>8, <1>9, <1>10, <1>11,
     <1>12, <1>13, <1>14, <1>15, <1>16, <1>17, <1>18, <1>19, <1>20, <1>21
  DEF StartStateSequenceTest

LEMMA NoManualStep ==
  ASSUME SequenceAlone, NEW w \in Workers
  PROVE  ~StartStep(w) /\ ~UpdateStep(w)
BY DEF SequenceAlone, SequencePc, InSequence, StartStep, StartRejected,
    StartWithoutResult, StartNotSaved, StartAccepted, NothingToSend, NotSampled,
    SendPort, SendPortFails, SendPortCancelled, AllPortsSent, StartSucceeds,
    StartFailsUnderLock, StartFails, UpdateStep, UpdateRejected, UpdateNotSaved,
    UpdateUnchanged, UpdateChanged, UpdatePrepares, NothingToChange, ChangePort,
    ChangePortFails, ChangePortCancelled, AllPortsChanged, UpdateDone, At

(* The one sequence has the function type and is the only one to touch the *)
(* results, the reception and the ports.                                   *)
LEMMA SequenceStep ==
  ASSUME TypeOK, SequenceAlone, SequenceInv, NEW w \in Workers,
         StartStateSequenceTest(w)
  PROVE  SequenceInv' /\ SequenceAlone'
<1>0. /\ ResultsOf(w)
      /\ \A v \in Workers : worker[v].pc \in InSequence => v \in Sequencers
  BY DEF SequenceInv, Results, Sequencers
<1>1. CASE Inner(w)
  <2>1. curFunctionType = "STATE_SEQUENCE" /\ \A v \in Sequencers : v = w
    BY <1>0, <1>1 DEF Inner, SequenceInv, SequenceExclusive
  <2>2. \A v \in Workers \ {w} : worker'[v] = worker[v] /\ worker[v].pc \notin InSequence
    BY <1>0, <1>1, <2>1 DEF Inner
  <2>3. SequenceExclusive'
    BY <1>1, <2>1, <2>2 DEF Inner, SequenceExclusive, Sequencers
  <2>4. Results'
    BY <1>1, <2>2 DEF Inner, SequenceInv, Results, ResultsOf, InSequence, Sent
  <2>5. ExitIsQuiet' /\ NoTestIsQuiet'
    BY <1>1, <2>1, <2>2 DEF Inner, ExitIsQuiet, NoTestIsQuiet, At, InSequence
  <2>6. SequenceAlone'
    BY <1>1 DEF Inner, SequenceAlone, SequencePc
  <2> QED
    BY <2>3, <2>4, <2>5, <2>6 DEF SequenceInv
<1>2. CASE SequenceRejected(w)
  <2>1. /\ \A v \in Workers \ {w} : worker'[v] = worker[v]
        /\ worker[w].pc = "sequence" /\ worker'[w].pc = "post"
        /\ UNCHANGED <<curFunctionType, seqResults, recvOn, portOn, ui>>
    BY <1>2 DEF SequenceRejected, FailWith, At, manager, device, TypeOK,
                WorkerTypeOK
  <2>2. Sequencers' = Sequencers
    BY <2>1 DEF Sequencers, InSequence
  <2> QED
    BY <2>1, <2>2 DEF SequenceInv, SequenceExclusive, Results, ResultsOf, Sent,
        ExitIsQuiet, NoTestIsQuiet, At, SequenceAlone, SequencePc
<1>3. CASE SequenceAccepted(w)
  <2>1. /\ \A v \in Workers \ {w} : worker'[v] = worker[v]
        /\ worker[w].pc = "sequence" /\ worker'[w].pc = "clear"
        /\ worker'[w].state = worker[w].state
        /\ curFunctionType = "UNKNOWN" /\ curFunctionType' = "STATE_SEQUENCE"
        /\ UNCHANGED <<seqResults, recvOn, portOn, ui>>
    BY <1>3 DEF SequenceAccepted, NoTest, Goto, At, device, TypeOK, WorkerTypeOK
  <2>2. Sequencers = {} /\ Sequencers' = {w}
    BY <2>1 DEF SequenceInv, SequenceExclusive, Sequencers, InSequence
  <2>3. SequenceExclusive'
    BY <2>1, <2>2 DEF SequenceExclusive
  <2>4. Results'
    BY <2>1 DEF SequenceInv, Results, ResultsOf, Sent
  <2>5. ExitIsQuiet' /\ NoTestIsQuiet' /\ SequenceAlone'
    BY <2>1 DEF SequenceInv, ExitIsQuiet, NoTestIsQuiet, At, SequenceAlone,
                SequencePc, InSequence
  <2> QED
    BY <2>3, <2>4, <2>5 DEF SequenceInv
<1>4. CASE ExitStopPorts(w)
  <2>1. /\ \A v \in Workers \ {w} : worker'[v] = worker[v]
        /\ worker[w].pc = "exitPorts" /\ worker'[w].pc = "post"
        /\ portOn' = [k \in Kind |-> portOn[k] \ Ports(k)]
        /\ UNCHANGED <<seqResults, recvOn, ui>>
    BY <1>4 DEF ExitStopPorts, Goto, At, TypeOK, WorkerTypeOK
  <2>2. w \in Sequencers /\ ~recvOn
    BY <2>1 DEF Sequencers, InSequence, SequenceInv, ExitIsQuiet, At
  <2>3. Sequencers' = {}
    BY <2>1, <2>2 DEF SequenceInv, SequenceExclusive, Sequencers, InSequence
  <2>4. SequenceExclusive'
    BY <2>3 DEF SequenceExclusive
  <2>5. Results'
    BY <2>1 DEF SequenceInv, Results, ResultsOf, Sent
  <2>6. ExitIsQuiet' /\ NoTestIsQuiet'
    BY <2>1, <2>2 DEF ExitIsQuiet, NoTestIsQuiet
  <2>7. SequenceAlone'
    BY <2>1 DEF SequenceAlone, SequencePc
  <2> QED
    BY <2>4, <2>5, <2>6, <2>7 DEF SequenceInv
<1>5. CASE PostSequenceResult(w)
  <2>1. /\ \A v \in Workers \ {w} : worker'[v] = worker[v]
        /\ worker[w].pc = "post" /\ worker'[w].pc = "idle"
        /\ UNCHANGED <<curFunctionType, seqResults, recvOn, portOn>>
        /\ ui'.pc = ui.pc /\ ui'.todo = ui.todo
    BY <1>5 DEF PostSequenceResult, FinishWorker, IdleWorker, At, manager,
                device, TypeOK, WorkerTypeOK, UiTypeOK
  <2>2. Sequencers' = Sequencers
    BY <2>1 DEF Sequencers, InSequence
  <2> QED
    BY <2>1, <2>2 DEF SequenceInv, SequenceExclusive, Results, ResultsOf, Sent,
        ExitIsQuiet, NoTestIsQuiet, At, SequenceAlone, SequencePc
<1> QED
  BY <1>0, <1>1, <1>2, <1>3, <1>4, <1>5, SequenceSteps

(* A thread moves between places at which the invariant says the same.     *)
LEMMA SequenceFrame ==
  ASSUME SequenceInv,
         UNCHANGED <<curFunctionType, seqResults, portOn>>, recvOn' => recvOn,
         \A w \in Workers :
           \/ worker'[w] = worker[w]
           \/ worker'[w].pc = "sequence" /\ worker[w].pc = "idle"
                /\ worker'[w].state = 0
           \/ worker'[w].pc \in Sent /\ worker[w].pc \in Sent
                /\ worker'[w].state = worker[w].state
  PROVE  SequenceInv'
<1>1. Sequencers' = Sequencers
  BY DEF Sequencers, InSequence, Sent
<1>2. Results'
  BY DEF SequenceInv, Results, ResultsOf, Sent
<1> QED
  BY <1>1, <1>2 DEF SequenceInv, SequenceExclusive, ExitIsQuiet, NoTestIsQuiet,
                    At, Sent

LEMMA SequenceUi ==
  ASSUME "manual" \notin Dialogs, TypeOK, CallPending, SequenceAlone,
         SequenceInv, UiStep
  PROVE  SequenceInv' /\ SequenceAlone'
<1> DEFINE SequenceCall == [op : {"sequence", "stopSequence"}, kind : Kind]
<1>1. UNCHANGED <<curFunctionType, seqResults, portOn, recvOn>>
  BY DEF UiStep, KindStep, StopApart, StartApart, ModifyValue,
      OnManualTestResult, DialogStep, StopTogether, StartTogether,
      SetStartMode, StartSequence, StopSequence, OnTestCompleted, ShowPage,
      ThreadStep, OnWhetherSwitch, ConfirmSwitch, Spawn, CallStep, SpawnFails,
      WakeUp, CallStop, UiOnly, manager, device
<1>2. ui.page = "sequence"
  BY SendAssumption DEF TypeOK, UiTypeOK
<1>3. \A s \in Seq(SequenceCall) :
        s # <<>> => Head(s) \in SequenceCall /\ Tail(s) \in Seq(SequenceCall)
  BY HeadTailProperties
<1>4. ASSUME worker' = worker, ui'.pc \in {"loop", "stopSequence", ui.pc},
             ui'.todo \in Seq(SequenceCall)
      PROVE  SequenceInv' /\ SequenceAlone'
  BY <1>1, <1>4, SequenceFrame DEF SequenceAlone
<1>5. \A c \in SequenceCall : <<c>> \in Seq(SequenceCall)
  OBVIOUS
<1>6. CASE (\E k \in Kind : KindStep(k)) \/ DialogStep
  <2>1. worker' = worker /\ ui'.pc = ui.pc
    BY <1>6 DEF KindStep, StopApart, StartApart, ModifyValue,
        OnManualTestResult, DialogStep, StopTogether, StartTogether,
        SetStartMode, StartSequence, StopSequence, OnTestCompleted, ShowPage,
        UiOnly, TypeOK, UiTypeOK
  <2>2. \/ ui'.todo = ui.todo
        \/ \E op \in {"sequence", "stopSequence"} : ui'.todo = <<Call(op, "SMV")>>
    BY <1>2, <1>6 DEF KindStep, StopApart, StartApart, ModifyValue,
        OnManualTestResult, DialogStep, StopTogether, StartTogether,
        SetStartMode, StartSequence, StopSequence, OnTestCompleted, ShowPage,
        TypeOK, UiTypeOK
  <2>3. \A op \in {"sequence", "stopSequence"} : Call(op, "SMV") \in SequenceCall
    BY DEF Call, Kind
  <2>4. ui.todo \in Seq(SequenceCall)
    BY DEF SequenceAlone
  <2>5. ui'.todo \in Seq(SequenceCall)
    BY <1>5, <2>2, <2>3, <2>4
  <2> QED
    BY <1>4, <2>1, <2>5
<1>7. CASE \E w \in Workers : ThreadStep(w)
  <2> PICK w \in Workers : ThreadStep(w)
    BY <1>7
  <2>1. CASE Spawn(w)
    <3>1. Head(ui.todo).op = "sequence"
      BY <1>3, <2>1 DEF Spawn, Pending, SequenceAlone
    <3>2. ui'.pc = "sleep" /\ ui'.todo = ui.todo
      BY <2>1 DEF Spawn, TypeOK, UiTypeOK
    <3>3. /\ \A v \in Workers \ {w} : worker'[v] = worker[v]
          /\ worker[w].pc = "idle"
          /\ worker'[w].pc = "sequence" /\ worker'[w].state = 0
      BY <2>1, <3>1 DEF Spawn, At, IdleWorker, TypeOK, WorkerTypeOK
    <3> QED
      BY <1>1, <3>2, <3>3, SequenceFrame DEF SequenceAlone, SequencePc
  <2>2. CASE OnWhetherSwitch(w) \/ ConfirmSwitch(w)
    <3>1. ui'.pc = ui.pc /\ ui'.todo = ui.todo
      BY <2>2 DEF OnWhetherSwitch, ConfirmSwitch, TypeOK, UiTypeOK
    <3>2. /\ \A v \in Workers \ {w} : worker'[v] = worker[v]
          /\ worker[w].pc \in Sent /\ worker'[w].pc \in Sent
          /\ worker'[w].state = worker[w].state
      BY <2>2 DEF OnWhetherSwitch, ConfirmSwitch, Goto, At, Sent, TypeOK,
                  WorkerTypeOK
    <3> QED
      BY <1>1, <3>1, <3>2, SequenceFrame
      DEF SequenceAlone, SequencePc, InSequence, Sent
  <2> QED
    BY <2>1, <2>2 DEF ThreadStep
<1>8. CASE CallStep
  <2>1. worker' = worker
    BY <1>8 DEF CallStep, SpawnFails, WakeUp, CallStop, UiOnly
  <2>2. ui.todo # <<>>
    BY <1>8 DEF CallStep, SpawnFails, WakeUp, CallStop, Pending, CallPending
  <2>3. ui'.todo \in {ui.todo, Tail(ui.todo)}
    BY <1>8 DEF CallStep, SpawnFails, WakeUp, CallStop, UiReturn, UiGoto,
                TypeOK, UiTypeOK
  <2>4. Head(ui.todo).op \in {"sequence", "stopSequence"}
    BY <1>3, <2>2 DEF SequenceAlone
  <2>5. ui'.pc \in {"loop", "stopSequence"}
    BY <1>8, <2>4 DEF CallStep, SpawnFails, WakeUp, CallStop, UiReturn, UiGoto,
                Pending, TypeOK, UiTypeOK
  <2> QED
    BY <1>3, <1>4, <2>1, <2>2, <2>3, <2>5 DEF SequenceAlone
<1> QED
  BY <1>6, <1>7, <1>8 DEF UiStep

LEMMA SequenceStop ==
  ASSUME TypeOK, CallPending, SequenceAlone, SequenceInv, StopStateSequenceTest
  PROVE  SequenceInv' /\ SequenceAlone'
<1>1. UNCHANGED <<curFunctionType, seqResults, portOn, recvOn, worker>>
  BY DEF StopStateSequenceTest, StopSequenceChecks, StopSequenceCancels,
         StopSequenceWaited, manager, device
<1>2. ui.todo # <<>>
  BY DEF StopStateSequenceTest, StopSequenceChecks, StopSequenceCancels,
         StopSequenceWaited, CallPending
<1>3. Tail(ui.todo) \in Seq([op : {"sequence", "stopSequence"}, kind : Kind])
  BY <1>2, HeadTailProperties DEF SequenceAlone
<1>4. /\ ui'.pc \in {"loop", "setEvents", "pump"}
      /\ ui'.todo \in {ui.todo, Tail(ui.todo)}
  BY DEF StopStateSequenceTest, StopSequenceChecks, StopSequenceCancels,
         StopSequenceWaited, UiReturn, UiGoto, TypeOK, UiTypeOK
<1> QED
  BY <1>1, <1>3, <1>4, SequenceFrame DEF SequenceAlone

LEMMA SequenceNext ==
  ASSUME "manual" \notin Dialogs, TypeOK, CallPending, SequenceAlone,
         SequenceInv, [Next]_vars
  PROVE  SequenceInv' /\ SequenceAlone'
<1>1. CASE \E w \in Workers : WorkerStep(w)
  BY <1>1, NoManualStep, SequenceStep
  DEF WorkerStep, StartManualTestSMV, StartManualTestGoose, UpateManualTestSMV,
      UpateManualTestGoose
<1>2. CASE ReceiveStep \/ UNCHANGED vars
  <2>1. /\ UNCHANGED <<curFunctionType, seqResults, portOn, worker, ui>>
        /\ recvOn' => recvOn
    BY <1>2 DEF ReceiveStep, FrameReceived, ReceptionStopped, FindManualResult,
                FindSequenceResult, SaveValue, NoValueChanged, vars, manager,
                device
  <2> QED
    BY <2>1, SequenceFrame DEF SequenceAlone
<1>3. ~StopStep
  BY DEF StopStep, StopIdle, StopCancels, StopWaited, StopPort, StopPortFails,
         StopUnderLock, StopDone, SequenceAlone
<1> QED
  BY <1>1, <1>2, <1>3, SequenceUi, SequenceStop DEF Next

(* The three together, with the dialog of the state sequence alone.        *)
LEMMA StateSequenceKept ==
  ASSUME "manual" \notin Dialogs
  PROVE  Spec => [](SequenceExclusive /\ AllStatesHaveResults /\ NoTestIsQuiet)
<1>1. Init => SequenceAlone /\ SequenceInv
  <2> SUFFICES ASSUME Init PROVE SequenceAlone /\ SequenceInv
    OBVIOUS
  <2>1. /\ ui.pc = "loop" /\ ui.todo = <<>>
        /\ \A w \in Workers : worker[w].pc = "idle"
        /\ ~recvOn /\ \A k \in Kind : portOn[k] = {}
    BY DEF Init, UiInit, IdleWorker
  <2>2. SequenceAlone
    BY <2>1 DEF SequenceAlone, SequencePc
  <2>3. Sequencers = {}
    BY <2>1 DEF Sequencers, InSequence
  <2>4. Results
    BY <2>1 DEF Results, ResultsOf, Sent
  <2> QED
    BY <2>1, <2>2, <2>3, <2>4 DEF SequenceInv, SequenceExclusive, ExitIsQuiet,
                                  NoTestIsQuiet
<1>2. TypeOK /\ CallPending /\ SequenceAlone /\ SequenceInv /\ [Next]_vars
        => SequenceAlone' /\ SequenceInv'
  BY SequenceNext
<1>3. SequenceInv => SequenceExclusive /\ AllStatesHaveResults /\ NoTestIsQuiet
  BY SendAssumption
  DEF SequenceInv, Results, ResultsOf, Sent, AllStatesHaveResults
<1> QED
  BY <1>1, <1>2, <1>3, TypeCorrect, PTL DEF Spec

(* One sequence runs at a time, and the function type is its own from the  *)
(* acceptance until its ports are stopped.                                 *)
THEOREM SequenceExclusiveAlways ==
  ASSUME "manual" \notin Dialogs
  PROVE  Spec => []SequenceExclusive
BY StateSequenceKept, PTL

(* A state that is being sent or waited for has its result, for every      *)
(* number of states and whatever was cancelled or failed before.           *)
THEOREM AllStatesHaveResultsAlways ==
  ASSUME "manual" \notin Dialogs
  PROVE  Spec => []AllStatesHaveResults
BY StateSequenceKept, PTL

(* Without a test nothing transmits and nothing is received.               *)
THEOREM NoTestIsQuietAlways ==
  ASSUME "manual" \notin Dialogs
  PROVE  Spec => []NoTestIsQuiet
BY StateSequenceKept, PTL

-----------------------------------------------------------------------------
(* The state sequence is a SequenceSession.  Where a sequence waits, others *)
(* have been shown the state it sent; while it sends, reception runs; and  *)
(* the receiver has no reason to stop the reception.                       *)
sequenceVars ==
  <<Phase, seqResults, StatesSent, curStateIndex, recvOn, Transmitting>>

Follows(w) ==
  /\ worker[w].pc \in Sent \ {"tested"} => curStateIndex = worker[w].state
  /\ worker[w].pc = "state" /\ worker[w].state > 0 =>
       curStateIndex = worker[w].state - 1
  /\ worker[w].pc \in Sent \union {"state"} => recvOn

FollowInv == receiver.pc # "stop" /\ \A w \in Workers : Follows(w)

OnlyMoves(w) == \A v \in Workers \ {w} : worker'[v] = worker[v]

LEMMA TheSequencer ==
  ASSUME SequenceInv, NEW w \in Workers, worker[w].pc \in InSequence
  PROVE  /\ Sequencers = {w} /\ curFunctionType = "STATE_SEQUENCE"
         /\ Phase = PhaseAt(worker[w].pc)
         /\ StatesSent = IF Phase = "sending" THEN SentAt(worker[w]) ELSE 0
<1>1. w \in Sequencers
  BY DEF Sequencers
<1>2. Sequencers = {w} /\ curFunctionType = "STATE_SEQUENCE"
  BY <1>1 DEF SequenceInv, SequenceExclusive
<1>. QED BY <1>2, TheFramer DEF Phase, StatesSent

(* A step of the sequencer inside its sequence.                            *)
LEMMA InnerMove ==
  ASSUME SequenceInv, NEW w \in Workers, worker[w].pc \in InSequence,
         worker'[w].pc \in InSequence, OnlyMoves(w),
         curFunctionType' = curFunctionType
  PROVE  /\ Phase = PhaseAt(worker[w].pc) /\ Phase' = PhaseAt(worker'[w].pc)
         /\ StatesSent  = IF Phase  = "sending" THEN SentAt(worker[w])  ELSE 0
         /\ StatesSent' = IF Phase' = "sending" THEN SentAt(worker'[w]) ELSE 0
<1>1. Sequencers = {w} /\ curFunctionType = "STATE_SEQUENCE"
  BY TheSequencer
<1>2. Sequencers' = {w}
  BY <1>1 DEF Sequencers, OnlyMoves
<1>. QED BY <1>1, <1>2, TheSequencer, TheFramer DEF Phase, StatesSent

(* Nothing of the session moves.                                           *)
LEMMA SequenceStutters ==
  ASSUME UNCHANGED <<curFunctionType, seqResults, curStateIndex, recvOn, portOn>>,
         Sequencers' = Sequencers,
         \A w \in Sequencers :
           /\ PhaseAt(worker'[w].pc) = PhaseAt(worker[w].pc)
           /\ PhaseAt(worker[w].pc) = "sending" => SentAt(worker'[w]) = SentAt(worker[w])
  PROVE  UNCHANGED sequenceVars
<1>1. Sequencers # {} => Single(Sequencers) \in Sequencers
  BY DEF Single
<1>2. Phase' = Phase
  BY <1>1 DEF Phase
<1>3. StatesSent' = StatesSent
  BY <1>1, <1>2 DEF StatesSent, Phase
<1>. QED BY <1>2, <1>3 DEF sequenceVars, Transmitting

(* Cancelled or failed, in whichever phase: the sequence goes on to end.   *)
LEMMA SequenceGivesUp ==
  ASSUME SequenceInv, NEW w \in Workers, worker[w].pc \in InSequence,
         worker'[w].pc = "exit", OnlyMoves(w), curFunctionType' = curFunctionType,
         UNCHANGED <<curStateIndex, recvOn>>,
         CASE PhaseAt(worker[w].pc) = "preparing" ->
                seqResults' \in {seqResults, seqResults + 1} /\ portOn' = portOn
           [] PhaseAt(worker[w].pc) = "sending" ->
                /\ seqResults' = seqResults
                /\ Transmitting => Transmitting'
                /\ SentAt(worker[w]) > 0 => portOn' = portOn
           [] OTHER -> FALSE
  PROVE  Sequence!Next /\ Follows(w)'
<1>1. /\ Phase = PhaseAt(worker[w].pc) /\ Phase' = "ending" /\ StatesSent' = 0
      /\ StatesSent = IF Phase = "sending" THEN SentAt(worker[w]) ELSE 0
  BY InnerMove DEF InSequence, PhaseAt
<1>2. Follows(w)'
  BY DEF Follows, Sent
<1>3. portOn' = portOn => Transmitting' = Transmitting
  BY DEF Transmitting
<1>4. CASE Phase = "preparing"
  <2>1. Sequence!Abandon
    BY <1>1, <1>3, <1>4 DEF Sequence!Abandon
  <2>. QED BY <1>2, <2>1 DEF Sequence!Next
<1>5. CASE Phase = "sending"
  <2>1. Sequence!StartsPorts
    BY <1>1, <1>3, <1>5 DEF Sequence!StartsPorts
  <2>2. Sequence!Finish
    BY <1>1, <1>5, <2>1 DEF Sequence!Finish
  <2>. QED BY <1>2, <2>2 DEF Sequence!Next
<1>. QED BY <1>1, <1>4, <1>5

LEMMA SequenceEndsEarly ==
  ASSUME TypeOK, SequenceInv, NEW w \in Workers,
         \/ PrepareCancelled(w) \/ FramingCancelled(w) \/ PrepareFails(w)
         \/ StateCancelled(w) \/ SendStateFails(w) \/ TimerCancelled(w)
         \/ TimerTimesOut(w) \/ DICancelled(w) \/ AllStatesSent(w)
  PROVE  Sequence!Next /\ Follows(w)' /\ OnlyMoves(w)
<1>1. ASSUME worker[w].pc \in InSequence, worker'[w].pc = "exit", OnlyMoves(w),
             UNCHANGED <<curFunctionType, curStateIndex, recvOn, portOn>>,
             \/ worker[w].pc \in {"prepare", "frame"}
                  /\ seqResults' \in {seqResults, seqResults + 1}
             \/ worker[w].pc \in {"state", "waitTime", "waitDI"}
                  /\ seqResults' = seqResults
      PROVE  Sequence!Next /\ Follows(w)' /\ OnlyMoves(w)
  <2>1. PhaseAt(worker[w].pc) = IF worker[w].pc \in {"prepare", "frame"}
                                THEN "preparing" ELSE "sending"
    BY <1>1 DEF PhaseAt
  <2>2. Transmitting => Transmitting'
    BY <1>1 DEF Transmitting
  <2>. QED BY <1>1, <2>1, <2>2, SequenceGivesUp
<1>2. CASE PrepareCancelled(w)
  BY <1>1, <1>2 DEF PrepareCancelled, TakeCancel, ReturnWith, FailWith, manager, device, At,
     OnlyMoves, InSequence, TypeOK, WorkerTypeOK
<1>3. CASE FramingCancelled(w)
  BY <1>1, <1>3 DEF FramingCancelled, ReturnWith, FailWith, device, At,
     OnlyMoves, InSequence, TypeOK, WorkerTypeOK
<1>4. CASE PrepareFails(w)
  BY <1>1, <1>4 DEF PrepareFails, ReturnWith, FailWith, device, At,
     OnlyMoves, InSequence, TypeOK, WorkerTypeOK
<1>5. CASE StateCancelled(w)
  BY <1>1, <1>5 DEF StateCancelled, TakeCancel, ReturnWith, FailWith, manager, device, At,
     OnlyMoves, InSequence, TypeOK, WorkerTypeOK
<1>6. CASE TimerCancelled(w)
  BY <1>1, <1>6 DEF TimerCancelled, TakeCancel, ReturnWith, FailWith, manager, device, At,
     OnlyMoves, InSequence, TypeOK, WorkerTypeOK
<1>7. CASE TimerTimesOut(w)
  BY <1>1, <1>7 DEF TimerTimesOut, ReturnWith, FailWith, manager, device, At,
     OnlyMoves, InSequence, TypeOK, WorkerTypeOK
<1>8. CASE DICancelled(w)
  BY <1>1, <1>8 DEF DICancelled, TakeCancel, ReturnWith, FailWith, manager, device, At,
     OnlyMoves, InSequence, TypeOK, WorkerTypeOK
<1>9. CASE AllStatesSent(w)
  BY <1>1, <1>9 DEF AllStatesSent, Goto, manager, device, At,
     OnlyMoves, InSequence, TypeOK, WorkerTypeOK
<1>10. CASE SendStateFails(w)
  <2>1. /\ worker[w].pc = "state" /\ worker'[w].pc = "exit" /\ OnlyMoves(w)
        /\ worker[w].state > 0 => portOn' = portOn
        /\ \A k \in Kind : portOn[k] \subseteq portOn'[k]
        /\ UNCHANGED <<curFunctionType, curStateIndex, recvOn, seqResults>>
    BY <1>10 DEF SendStateFails, ReturnWith, FailWith, manager, At, OnlyMoves,
                Kind, TypeOK, WorkerTypeOK, DeviceTypeOK
  <2>2. PhaseAt(worker[w].pc) = "sending" /\ SentAt(worker[w]) = worker[w].state
    BY <2>1 DEF PhaseAt, SentAt
  <2>3. Transmitting => Transmitting'
    BY <2>1 DEF Transmitting
  <2>. QED BY <2>1, <2>2, <2>3, SequenceGivesUp DEF InSequence
<1>. QED BY <1>2, <1>3, <1>4, <1>5, <1>6, <1>7, <1>8, <1>9, <1>10

(* The steps that lead through a sequence.                                 *)
LEMMA SequencePrepares ==
  ASSUME TypeOK, SequenceInv, NEW w \in Workers,
         \/ ClearSequenceResults(w) \/ FrameState(w) \/ PrepareState(w)
         \/ AllPrepared(w)
  PROVE  (Sequence!Next \/ UNCHANGED sequenceVars) /\ Follows(w)' /\ OnlyMoves(w)
<1>0. ResultsOf(w)
  BY DEF SequenceInv, Results
<1>1. CASE ClearSequenceResults(w)
  <2>1. /\ worker[w].pc = "clear" /\ worker'[w].pc \in {"prepare", "exit"}
        /\ OnlyMoves(w) /\ seqResults' = 0
        /\ UNCHANGED <<curFunctionType, curStateIndex, recvOn, portOn>>
    BY <1>1 DEF ClearSequenceResults, ReturnWith, FailWith, Goto, device, At,
                OnlyMoves, TypeOK, WorkerTypeOK
  <2>2. /\ Phase = "begun" /\ Phase' \in {"preparing", "ending"}
        /\ StatesSent = 0 /\ StatesSent' = 0
    BY <2>1, InnerMove DEF InSequence, PhaseAt
  <2>3. Sequence!Clear
    BY <2>1, <2>2 DEF Sequence!Clear, Transmitting
  <2>. QED BY <2>1, <2>3 DEF Sequence!Next, Follows, Sent
<1>2. CASE FrameState(w)
  <2>1. /\ worker[w].pc = "prepare" /\ worker'[w].pc = "frame" /\ OnlyMoves(w)
        /\ UNCHANGED <<curFunctionType, seqResults, curStateIndex, recvOn, portOn>>
    BY <1>2 DEF FrameState, Goto, manager, device, At, OnlyMoves, TypeOK,
                WorkerTypeOK
  <2>2. UNCHANGED <<Phase, StatesSent>>
    BY <2>1, InnerMove DEF InSequence, PhaseAt
  <2>. QED BY <2>1, <2>2 DEF sequenceVars, Transmitting, Follows, Sent
<1>3. CASE PrepareState(w)
  <2>1. /\ worker[w].pc = "frame" /\ worker'[w].pc = "prepare" /\ OnlyMoves(w)
        /\ seqResults' = seqResults + 1
        /\ UNCHANGED <<curFunctionType, curStateIndex, recvOn, portOn>>
    BY <1>3 DEF PrepareState, device, At, OnlyMoves, TypeOK, WorkerTypeOK
  <2>2. /\ Phase = "preparing" /\ Phase' = "preparing"
        /\ StatesSent = 0 /\ StatesSent' = 0
    BY <2>1, InnerMove DEF InSequence, PhaseAt
  <2>3. seqResults < StateCount
    BY <1>0, <2>1 DEF ResultsOf
  <2>4. Sequence!Prepare
    BY <2>1, <2>2, <2>3 DEF Sequence!Prepare, Transmitting
  <2>. QED BY <2>1, <2>4 DEF Sequence!Next, Follows, Sent
<1>4. CASE AllPrepared(w)
  <2>1. /\ worker[w].pc = "prepare" /\ worker[w].state = StateCount
        /\ worker'[w].pc = "state" /\ worker'[w].state = 0 /\ OnlyMoves(w)
        /\ recvOn' = TRUE
        /\ UNCHANGED <<curFunctionType, seqResults, curStateIndex, portOn>>
    BY <1>4 DEF AllPrepared, Prepared, ToState, manager, At, OnlyMoves, TypeOK,
                WorkerTypeOK
  <2>2. /\ Phase = "preparing" /\ Phase' = "sending"
        /\ StatesSent = 0 /\ StatesSent' = 0
    BY <2>1, InnerMove DEF InSequence, PhaseAt, SentAt
  <2>3. seqResults = StateCount
    BY <1>0, <2>1 DEF ResultsOf
  <2>4. Sequence!Go
    BY <2>1, <2>2, <2>3 DEF Sequence!Go, Transmitting
  <2>. QED BY <2>1, <2>4 DEF Sequence!Next, Follows, Sent
<1>. QED BY <1>1, <1>2, <1>3, <1>4

LEMMA SequenceSends ==
  ASSUME TypeOK, SequenceInv, NEW w \in Workers, Follows(w),
         SendState0(w) \/ UpdateState(w) \/ StateSent(w)
  PROVE  Sequence!Next /\ Follows(w)' /\ OnlyMoves(w)
<1>0. ResultsOf(w) /\ worker[w].state \in Nat
  BY DEF SequenceInv, Results, TypeOK, WorkerTypeOK
<1>1. CASE SendState0(w) \/ UpdateState(w)
  <2>1. /\ worker[w].pc = "state" /\ worker'[w].pc = "tested" /\ OnlyMoves(w)
        /\ worker'[w].state = worker[w].state /\ worker[w].state < StateCount
        /\ worker[w].state > 0 => portOn' = portOn
        /\ \A k \in Kind : portOn[k] \subseteq portOn'[k]
        /\ UNCHANGED <<curFunctionType, seqResults, curStateIndex, recvOn>>
    BY <1>1, SendAssumption
    DEF SendState0, UpdateState, Goto, manager, device, At, OnlyMoves, TypeOK,
        WorkerTypeOK
  <2>2. /\ Phase = "sending" /\ Phase' = "sending"
        /\ StatesSent = worker[w].state /\ StatesSent' = worker[w].state + 1
    BY <2>1, InnerMove DEF InSequence, PhaseAt, SentAt
  <2>3. /\ seqResults = StateCount /\ recvOn
        /\ worker[w].state > 0 => curStateIndex = worker[w].state - 1
    BY <1>0, <2>1 DEF ResultsOf, Follows
  <2>4. Sequence!StartsPorts
    BY <2>1, <2>2 DEF Sequence!StartsPorts, Transmitting
  <2>5. Sequence!Send
    BY <2>1, <2>2, <2>3, <2>4 DEF Sequence!Send
  <2>. QED BY <2>1, <2>3, <2>5 DEF Sequence!Next, Follows, Sent
<1>2. CASE StateSent(w)
  <2>1. /\ worker[w].pc = "tested" /\ worker'[w].pc \in {"waitTime", "waitDI", "ask"}
        /\ OnlyMoves(w) /\ worker'[w].state = worker[w].state
        /\ curStateIndex' = worker[w].state
        /\ UNCHANGED <<curFunctionType, seqResults, recvOn, portOn>>
    BY <1>2 DEF StateSent, SwitchType, Goto, device, At, OnlyMoves, TypeOK,
                WorkerTypeOK
  <2>2. /\ Phase = "sending" /\ Phase' = "sending"
        /\ StatesSent = worker[w].state + 1 /\ StatesSent' = worker[w].state + 1
    BY <2>1, InnerMove DEF InSequence, PhaseAt, SentAt
  <2>3. Sequence!Show
    BY <1>0, <2>1, <2>2 DEF Sequence!Show, Transmitting
  <2>4. recvOn
    BY <2>1 DEF Follows, Sent
  <2>. QED BY <2>1, <2>3, <2>4 DEF Sequence!Next, Follows, Sent
<1>. QED BY <1>1, <1>2

(* The wait is over: the next state is the one after what was shown.       *)
LEMMA SequenceGoesOn ==
  ASSUME TypeOK, SequenceInv, NEW w \in Workers, Follows(w),
         TimerExpires(w) \/ DIMet(w) \/ UserSwitched(w)
  PROVE  UNCHANGED sequenceVars /\ Follows(w)' /\ OnlyMoves(w)
<1>1. /\ worker[w].pc \in {"waitTime", "waitDI", "answered"}
      /\ worker'[w].pc = "state" /\ worker'[w].state = worker[w].state + 1
      /\ worker[w].state \in Nat /\ OnlyMoves(w)
      /\ UNCHANGED <<curFunctionType, seqResults, curStateIndex, recvOn, portOn>>
  BY DEF TimerExpires, DIMet, UserSwitched, NextState, ToState, manager, device,
         At, OnlyMoves, TypeOK, WorkerTypeOK
<1>2. UNCHANGED <<Phase, StatesSent>>
  BY <1>1, InnerMove DEF InSequence, PhaseAt, SentAt
<1>3. curStateIndex = worker[w].state /\ recvOn
  BY <1>1 DEF Follows, Sent
<1>. QED BY <1>1, <1>2, <1>3 DEF sequenceVars, Transmitting, Follows, Sent

LEMMA SequenceBeginsEnds ==
  ASSUME TypeOK, SequenceInv, NEW w \in Workers,
         \/ SequenceRejected(w) \/ SequenceAccepted(w) \/ ExitStopRecv(w)
         \/ ExitStopPorts(w) \/ ExitPortFails(w) \/ PostSequenceResult(w)
  PROVE  (Sequence!Next \/ UNCHANGED sequenceVars) /\ Follows(w)' /\ OnlyMoves(w)
<1>1. CASE SequenceRejected(w) \/ PostSequenceResult(w)
  <2>1. /\ worker[w].pc \in {"sequence", "post"} /\ worker'[w].pc \in {"post", "idle"}
        /\ OnlyMoves(w)
        /\ UNCHANGED <<curFunctionType, seqResults, curStateIndex, recvOn, portOn>>
    <3>1. CASE SequenceRejected(w)
      BY <3>1 DEF SequenceRejected, FailWith, manager, device, At, OnlyMoves,
                  TypeOK, WorkerTypeOK
    <3>2. CASE PostSequenceResult(w)
      BY <3>2 DEF PostSequenceResult, FinishWorker, IdleWorker, manager, device,
                  At, OnlyMoves, TypeOK, WorkerTypeOK
    <3>. QED BY <1>1, <3>1, <3>2
  <2>2. Sequencers' = Sequencers /\ \A v \in Sequencers : worker'[v] = worker[v]
    BY <2>1 DEF Sequencers, InSequence, OnlyMoves
  <2>. QED BY <2>1, <2>2, SequenceStutters DEF Follows, Sent
<1>2. CASE SequenceAccepted(w)
  <2>1. /\ worker[w].pc = "sequence" /\ worker'[w].pc = "clear" /\ OnlyMoves(w)
        /\ curFunctionType = "UNKNOWN" /\ curFunctionType' = "STATE_SEQUENCE"
        /\ UNCHANGED <<seqResults, curStateIndex, recvOn, portOn>>
    BY <1>2 DEF SequenceAccepted, NoTest, Goto, device, At, OnlyMoves, TypeOK,
                WorkerTypeOK
  <2>2. Sequencers = {} /\ ~recvOn /\ ~Transmitting
    BY <2>1 DEF SequenceInv, SequenceExclusive, NoTestIsQuiet, Transmitting
  <2>3. Sequencers' = {w}
    BY <2>1, <2>2 DEF Sequencers, InSequence, OnlyMoves
  <2>4. /\ Phase = "none" /\ Phase' = "begun"
        /\ StatesSent = 0 /\ StatesSent' = 0
    BY <2>1, <2>3, TheFramer DEF Phase, StatesSent, PhaseAt
  <2>5. Sequence!Begin
    BY <2>1, <2>2, <2>4 DEF Sequence!Begin, Transmitting
  <2>. QED BY <2>1, <2>5 DEF Sequence!Next, Follows, Sent
<1>3. CASE ExitStopRecv(w)
  <2>1. /\ worker[w].pc = "exit" /\ worker'[w].pc = "exitPorts" /\ OnlyMoves(w)
        /\ recvOn' = FALSE
        /\ UNCHANGED <<curFunctionType, seqResults, curStateIndex, portOn>>
    BY <1>3 DEF ExitStopRecv, Goto, manager, At, OnlyMoves, TypeOK, WorkerTypeOK
  <2>2. /\ Phase = "ending" /\ Phase' = "ending"
        /\ StatesSent = 0 /\ StatesSent' = 0
    BY <2>1, InnerMove DEF InSequence, PhaseAt
  <2>3. Sequence!StopReceiving
    BY <2>1, <2>2 DEF Sequence!StopReceiving, Transmitting
  <2>. QED BY <2>1, <2>3 DEF Sequence!Next, Follows, Sent
<1>4. CASE ExitStopPorts(w) \/ ExitPortFails(w)
  <2>1. /\ worker[w].pc = "exitPorts" /\ worker'[w].pc = "post" /\ OnlyMoves(w)
        /\ UNCHANGED <<seqResults, curStateIndex, recvOn>>
    BY <1>4 DEF ExitStopPorts, ExitPortFails, Goto, manager, At, OnlyMoves,
                TypeOK, WorkerTypeOK
  <2>2. /\ Sequencers = {w} /\ curFunctionType = "STATE_SEQUENCE"
        /\ Phase = "ending" /\ StatesSent = 0
    BY <2>1, TheSequencer DEF InSequence, PhaseAt
  <2>3. Sequencers' = {} /\ ~recvOn
    BY <2>1, <2>2 DEF Sequencers, InSequence, OnlyMoves, SequenceInv, ExitIsQuiet, At
  <2>4. CASE ExitStopPorts(w)
    <3>1. Phase' = "none" /\ StatesSent' = 0 /\ Transmitting' = FALSE
      BY <2>4 DEF ExitStopPorts, Phase, StatesSent, Transmitting
    <3>2. Sequence!End
      BY <2>1, <2>2, <2>3, <3>1 DEF Sequence!End
    <3>. QED BY <2>1, <3>2 DEF Sequence!Next, Follows, Sent
  <2>5. CASE ExitPortFails(w)
    <3>1. curFunctionType' = "STATE_SEQUENCE"
      BY <2>2, <2>5 DEF ExitPortFails, manager
    <3>2. Phase' = "left" /\ StatesSent' = 0
      BY <2>3, <3>1 DEF Phase, StatesSent
    <3>3. \A k \in Kind : portOn'[k] \subseteq portOn[k]
      BY <2>5 DEF ExitPortFails, TypeOK, DeviceTypeOK, Kind
    <3>4. Transmitting' => Transmitting
      BY <3>3 DEF Transmitting
    <3>5. Sequence!Leave
      BY <2>1, <2>2, <2>3, <3>2, <3>4 DEF Sequence!Leave
    <3>. QED BY <2>1, <3>5 DEF Sequence!Next, Follows, Sent
  <2>. QED BY <1>4, <2>4, <2>5
<1>. QED BY <1>1, <1>2, <1>3, <1>4

LEMMA StepsInSequence ==
  ASSUME NEW w \in Workers, worker[w].pc \notin InSequence,
         StartStateSequenceTest(w)
  PROVE  SequenceRejected(w) \/ SequenceAccepted(w) \/ PostSequenceResult(w)
BY DEF StartStateSequenceTest, ClearSequenceResults, PrepareCancelled, FrameState,
       PrepareState, FramingCancelled, PrepareFails, AllPrepared, StateCancelled,
       SendState0, UpdateState, SendStateFails, StateSent, TimerExpires,
       TimerCancelled, TimerTimesOut, DIMet, DICancelled, UserSwitched,
       AllStatesSent, ExitStopRecv, ExitStopPorts, ExitPortFails, At, InSequence

LEMMA FollowsWorker ==
  ASSUME TypeOK, SequenceInv, FollowInv, NEW w \in Workers,
         StartStateSequenceTest(w)
  PROVE  (Sequence!Next \/ UNCHANGED sequenceVars) /\ FollowInv'
<1>1. Follows(w)
  BY DEF FollowInv
<1>2. (Sequence!Next \/ UNCHANGED sequenceVars) /\ Follows(w)' /\ OnlyMoves(w)
  BY <1>1, SequenceEndsEarly, SequencePrepares, SequenceSends, SequenceGoesOn,
     SequenceBeginsEnds DEF StartStateSequenceTest
<1>3. ASSUME NEW v \in Workers \ {w} PROVE Follows(v)'
  <2>1. worker'[v] = worker[v]
    BY <1>2 DEF OnlyMoves
  <2>2. CASE worker[v].pc \notin InSequence
    BY <2>1, <2>2 DEF Follows, Sent, InSequence
  <2>3. CASE worker[v].pc \in InSequence
    <3>1. Sequencers = {v} /\ curFunctionType = "STATE_SEQUENCE"
      BY <2>3, TheSequencer
    <3>2. worker[w].pc \notin InSequence
      BY <3>1 DEF Sequencers
    <3>3. SequenceRejected(w) \/ SequenceAccepted(w) \/ PostSequenceResult(w)
      BY <3>2, StepsInSequence
    <3>4. UNCHANGED <<curStateIndex, recvOn>>
      BY <3>1, <3>3 DEF SequenceRejected, SequenceAccepted, NoTest,
                        PostSequenceResult, manager, device
    <3>. QED BY <1>1, <2>1, <3>4 DEF FollowInv, Follows
  <2>. QED BY <2>2, <2>3
<1>4. receiver'.pc # "stop"
  <2>1. receiver'.pc = receiver.pc
    BY DEF StartStateSequenceTest, SequenceRejected, SequenceAccepted,
       ClearSequenceResults, PrepareCancelled, FrameState, PrepareState,
       FramingCancelled, PrepareFails, AllPrepared, StateCancelled, SendState0,
       UpdateState, SendStateFails, StateSent, TimerExpires, TimerCancelled,
       TimerTimesOut, DIMet, DICancelled, UserSwitched, AllStatesSent,
       ExitStopRecv, ExitStopPorts, ExitPortFails, PostSequenceResult, TakeCancel,
       TypeOK, ReceiverTypeOK
  <2>. QED BY <2>1 DEF FollowInv
<1>. QED BY <1>2, <1>3, <1>4 DEF FollowInv, OnlyMoves

LEMMA FollowsFrame ==
  ASSUME FollowInv, receiver'.pc # "stop",
         UNCHANGED <<curFunctionType, seqResults, curStateIndex, recvOn, portOn>>,
         \A w \in Workers :
           \/ worker'[w] = worker[w]
           \/ worker'[w].pc = "sequence" /\ worker[w].pc = "idle"
           \/ /\ worker[w].pc \in {"ask", "asked"}
              /\ worker'[w].pc \in {"asked", "answered"}
              /\ worker'[w].state = worker[w].state
  PROVE  UNCHANGED sequenceVars /\ FollowInv'
<1>1. Sequencers' = Sequencers
  BY DEF Sequencers, InSequence
<1>2. ASSUME NEW w \in Sequencers
      PROVE  /\ PhaseAt(worker'[w].pc) = PhaseAt(worker[w].pc)
             /\ PhaseAt(worker[w].pc) = "sending" => SentAt(worker'[w]) = SentAt(worker[w])
  BY <1>2 DEF Sequencers, InSequence, PhaseAt, SentAt
<1>3. UNCHANGED sequenceVars
  BY <1>1, <1>2, SequenceStutters
<1>. QED BY <1>3 DEF FollowInv, Follows, Sent

LEMMA FollowsNext ==
  ASSUME "manual" \notin Dialogs, TypeOK, SequenceAlone, SequenceInv, FollowInv,
         [Next]_vars
  PROVE  [Sequence!Next]_sequenceVars /\ FollowInv'
<1>0. receiver.pc # "stop"
  BY DEF FollowInv
<1>1. CASE \E w \in Workers : WorkerStep(w)
  BY <1>1, NoManualStep, FollowsWorker
  DEF WorkerStep, StartManualTestSMV, StartManualTestGoose, UpateManualTestSMV,
      UpateManualTestGoose
<1>2. CASE ReceiveStep
  <2>1. UNCHANGED <<manager, portOn, worker>>
    BY <1>2 DEF ReceiveStep, FrameReceived, ReceptionStopped, FindManualResult,
                FindSequenceResult, SaveValue, NoValueChanged, device
  <2>2. receiver'.pc # "stop" /\ recvOn' = recvOn
    <3>1. CASE FrameReceived
      <4>1. curFunctionType # "UNKNOWN"
        BY <3>1 DEF FrameReceived, SequenceInv, NoTestIsQuiet
      <4>2. receiver' = [IdleReceiver EXCEPT !.pc = "find", !.seen = curFunctionType]
        BY <3>1, <4>1 DEF FrameReceived
      <4>3. receiver'.pc = "find"
        BY <4>2 DEF IdleReceiver
      <4>4. UNCHANGED device
        BY <3>1 DEF FrameReceived
      <4>. QED BY <4>3, <4>4 DEF device
    <3>2. CASE FindManualResult \/ FindSequenceResult \/ SaveValue \/ NoValueChanged
      <4>1. recvOn' = recvOn
        BY <3>2 DEF FindManualResult, FindSequenceResult, SaveValue, NoValueChanged, device
      <4>2. CASE FindManualResult \/ FindSequenceResult
        <5>1. receiver'.pc = "save"
          BY <4>2 DEF FindManualResult, FindSequenceResult, TypeOK, ReceiverTypeOK
        <5>. QED BY <4>1, <5>1
      <4>3. CASE receiver' = IdleReceiver
        BY <4>1, <4>3 DEF IdleReceiver
      <4>4. CASE receiver' = [receiver EXCEPT !.pc = "find", !.held = 0]
        <5>1. receiver'.pc = "find"
          BY <4>4 DEF TypeOK, ReceiverTypeOK
        <5>. QED BY <4>1, <5>1
      <4>. QED BY <3>2, <4>2, <4>3, <4>4 DEF SaveValue, NoValueChanged
    <3>. QED BY <1>0, <1>2, <3>1, <3>2 DEF ReceiveStep, ReceptionStopped
  <2>. QED BY <2>1, <2>2, FollowsFrame DEF manager
<1>3. CASE UNCHANGED vars \/ StopStateSequenceTest
  BY <1>0, <1>3, FollowsFrame
  DEF vars, manager, device, StopStateSequenceTest, StopSequenceChecks,
      StopSequenceCancels, StopSequenceWaited
<1>4. ~StopStep
  BY DEF StopStep, StopIdle, StopCancels, StopWaited, StopPort, StopPortFails,
         StopUnderLock, StopDone, SequenceAlone
<1>5. CASE UiStep
  <2>1. UNCHANGED <<manager, device, receiver>>
    BY <1>5 DEF UiStep, KindStep, StopApart, StartApart, ModifyValue,
      OnManualTestResult, DialogStep, StopTogether, StartTogether,
      SetStartMode, StartSequence, StopSequence, OnTestCompleted, ShowPage,
      ThreadStep, OnWhetherSwitch, ConfirmSwitch, Spawn, CallStep, SpawnFails,
      WakeUp, CallStop, UiOnly
  <2>2. CASE worker' = worker
    BY <1>0, <2>1, <2>2, FollowsFrame DEF manager, device
  <2>3. ASSUME NEW w \in Workers, ThreadStep(w)
        PROVE  /\ \A v \in Workers \ {w} : worker'[v] = worker[v]
               /\ \/ worker'[w].pc = "sequence" /\ worker[w].pc = "idle"
                  \/ /\ worker[w].pc \in {"ask", "asked"}
                     /\ worker'[w].pc \in {"asked", "answered"}
                     /\ worker'[w].state = worker[w].state
    <3>1. CASE Spawn(w)
      <4>1. Head(ui.todo).op = "sequence"
        <5>1. /\ ui.todo # <<>> /\ Head(ui.todo).op \in {"start", "update", "sequence"}
          BY <3>1 DEF Spawn, Pending
        <5>2. Head(ui.todo) \in [op : {"sequence", "stopSequence"}, kind : Kind]
          BY <5>1, HeadTailProperties DEF SequenceAlone
        <5>. QED BY <5>1, <5>2
      <4>. QED BY <3>1, <4>1 DEF Spawn, At, IdleWorker, TypeOK, WorkerTypeOK
    <3>2. CASE OnWhetherSwitch(w) \/ ConfirmSwitch(w)
      BY <3>2 DEF OnWhetherSwitch, ConfirmSwitch, Goto, At, TypeOK, WorkerTypeOK
    <3>. QED BY <2>3, <3>1, <3>2 DEF ThreadStep
  <2>4. CASE \E w \in Workers : ThreadStep(w)
    BY <1>0, <2>1, <2>3, <2>4, FollowsFrame DEF manager, device
  <2>5. worker' = worker \/ \E w \in Workers : ThreadStep(w)
    BY <1>5 DEF UiStep, KindStep, StopApart, StartApart, ModifyValue,
      OnManualTestResult, DialogStep, StopTogether, StartTogether,
      SetStartMode, StartSequence, StopSequence, OnTestCompleted, ShowPage,
      CallStep, SpawnFails, WakeUp, CallStop, UiOnly
  <2>. QED BY <2>2, <2>4, <2>5
<1>. QED BY <1>1, <1>2, <1>3, <1>4, <1>5 DEF Next

LEMMA SequenceStarts ==
  ASSUME Init
  PROVE  SequenceAlone /\ SequenceInv /\ FollowInv /\ Sequence!Init
<1>1. /\ ui.pc = "loop" /\ ui.todo = <<>>
      /\ \A w \in Workers : worker[w].pc = "idle"
      /\ ~recvOn /\ \A k \in Kind : portOn[k] = {}
  BY DEF Init, UiInit, IdleWorker
<1>2. SequenceAlone
  BY <1>1 DEF SequenceAlone, SequencePc
<1>3. Sequencers = {}
  BY <1>1 DEF Sequencers, InSequence
<1>4. Results
  BY <1>1 DEF Results, ResultsOf, Sent
<1>5. SequenceInv
  BY <1>1, <1>3, <1>4 DEF SequenceInv, SequenceExclusive, ExitIsQuiet,
                          NoTestIsQuiet
<1>6. FollowInv
  BY <1>1 DEF FollowInv, Follows, Sent, Init, IdleReceiver
<1>7. Sequence!Init
  BY <1>1 DEF Sequence!Init, Init, Phase, StatesSent, Transmitting
<1>. QED BY <1>2, <1>5, <1>6, <1>7

(* With the dialog of the state sequence alone, the test is a              *)
(* SequenceSession for every number of threads, ports and states: whatever *)
(* is cancelled, fails or times out, the states are sent in order after    *)
(* all were prepared, the receiver reads the index of the last state or of *)
(* the one before, and the next sequence begins in silence                 *)
(* (FrameSend.cpp:1223-1700).                                              *)
THEOREM SequenceImplemented ==
  ASSUME "manual" \notin Dialogs
  PROVE  Spec => ImplementsSequence
<1>. DEFINE IInv == SequenceAlone /\ SequenceInv /\ FollowInv
<1>1. Init => IInv /\ Sequence!Init
  BY SequenceStarts
<1>2. TypeOK /\ CallPending /\ IInv /\ [Next]_vars
        => IInv' /\ [Sequence!Next]_sequenceVars
  BY SequenceNext, FollowsNext
<1>. QED BY <1>1, <1>2, TypeCorrect, PTL
         DEF Spec, ImplementsSequence, Sequence!Spec, sequenceVars
=============================================================================
