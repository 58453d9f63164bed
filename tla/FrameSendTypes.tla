-------------------------- MODULE FrameSendTypes ---------------------------
(***************************************************************************)
(* Type correctness of the send manager, proved for every number of        *)
(* threads, ports and results.                                             *)
(***************************************************************************)
EXTENDS FrameSend, SequenceTheorems, TLAPS

(* The bounded result vector: adding keeps it a sequence of workers within *)
(* the limit, whoever adds.                                                *)
LEMMA AddResultType ==
  ASSUME NEW S, NEW results \in Seq(S), Len(results) <= MaxResults, NEW w \in S
  PROVE  /\ AddManualTestResult(results, w) \in Seq(S)
         /\ Len(AddManualTestResult(results, w)) <= MaxResults
         /\ Len(AddManualTestResult(results, w)) >= 1
<1>1. CASE Len(results) >= MaxResults
  <2>1. results # <<>>
    BY <1>1, SendAssumption
  <2>2. Tail(results) \in Seq(S) /\ Len(Tail(results)) = Len(results) - 1
    BY <2>1, HeadTailProperties
  <2> QED
    BY <1>1, <2>2, SendAssumption, AppendProperties DEF AddManualTestResult
<1>2. CASE Len(results) < MaxResults
  BY <1>2, SendAssumption, AppendProperties DEF AddManualTestResult
<1> QED
  BY <1>1, <1>2, SendAssumption

(* Releasing a result object changes neither the length nor the type.      *)
LEMMA ReleaseResultType ==
  ASSUME NEW S, NEW results \in Seq(S), NoThread \in S, NEW w
  PROVE  /\ ReleaseResult(results, w) \in Seq(S)
         /\ Len(ReleaseResult(results, w)) = Len(results)
<1>1. DOMAIN results = 1 .. Len(results) /\ Len(results) \in Nat
  OBVIOUS
<1>2. ReleaseResult(results, w) \in [1 .. Len(results) -> S]
  BY <1>1 DEF ReleaseResult
<1> QED
  BY <1>1, <1>2, IsASeq, LenProperties

(* An update without changes deletes the last object again.                *)
LEMMA UnchangedType ==
  ASSUME NEW S, NEW results \in Seq(S), Len(results) <= MaxResults, NEW w \in S,
         NEW added, added = AddManualTestResult(results, w)
  PROVE  /\ SubSeq(added, 1, Len(added) - 1) \in Seq(S)
         /\ Len(SubSeq(added, 1, Len(added) - 1)) <= MaxResults
<1>1. added \in Seq(S) /\ Len(added) <= MaxResults /\ Len(added) >= 1
  BY AddResultType
<1>2. Len(added) \in Nat
  BY <1>1, LenProperties
<1> QED
  BY <1>1, <1>2, SubSeqProperties, SendAssumption

(* What a start puts its result object into.                               *)
LEMMA ClearedType ==
  ASSUME ManagerTypeOK
  PROVE  /\ ClearedResults \in Seq(Workers \union {NoThread})
         /\ Len(ClearedResults) <= MaxResults
         /\ ClearedIndex \in Nat \union {-1}
<1>1. <<>> \in Seq(Workers \union {NoThread}) /\ Len(<<>>) = 0
  BY EmptySeq
<1> QED
  BY <1>1, SendAssumption DEF ManagerTypeOK, ClearedResults, ClearedIndex

-----------------------------------------------------------------------------
(* The ways a worker moves keep its type.                                  *)
LEMMA GotoType ==
  ASSUME WorkerTypeOK, NEW w \in Workers, NEW s \in WorkerPc, Goto(w, s)
  PROVE  WorkerTypeOK'
BY DEF WorkerTypeOK, Goto

LEMMA FinishType ==
  ASSUME WorkerTypeOK, NEW w \in Workers, FinishWorker(w)
  PROVE  WorkerTypeOK'
BY DEF WorkerTypeOK, FinishWorker, IdleWorker, WorkerPc, Kind, ErrorCode

LEMMA NextPortType ==
  ASSUME WorkerTypeOK, NEW w \in Workers, NextPort(w)
  PROVE  WorkerTypeOK'
BY DEF WorkerTypeOK, NextPort

LEMMA FailWithType ==
  ASSUME WorkerTypeOK, NEW w \in Workers, NEW ret \in ErrorCode,
         NEW s \in WorkerPc, FailWith(w, ret, s)
  PROVE  WorkerTypeOK'
BY DEF WorkerTypeOK, FailWith

LEMMA ToStateType ==
  ASSUME WorkerTypeOK, NEW w \in Workers, NEW i \in Nat, ToState(w, i)
  PROVE  WorkerTypeOK'
BY DEF WorkerTypeOK, ToState, WorkerPc

(* The ways the UI thread moves.                                           *)
LEMMA UiGotoType ==
  ASSUME UiTypeOK, NEW pc \in UiPc, UiGoto(pc)
  PROVE  UiTypeOK'
BY DEF UiTypeOK, UiGoto

LEMMA UiReturnType ==
  ASSUME UiTypeOK, ui.todo # <<>>, UiReturn
  PROVE  UiTypeOK' /\ ui'.pc = "loop"
<1>1. Tail(ui.todo) \in Seq([op : Operation, kind : Kind])
  BY HeadTailProperties DEF UiTypeOK
<1> QED
  BY <1>1 DEF UiTypeOK, UiReturn, UiPc

LEMMA HeadType ==
  ASSUME UiTypeOK, ui.todo # <<>>
  PROVE  Head(ui.todo) \in [op : Operation, kind : Kind] /\ StopKind \in Kind
<1>1. Head(ui.todo) \in [op : Operation, kind : Kind]
  BY HeadTailProperties DEF UiTypeOK
<1> QED
  BY <1>1 DEF StopKind

LEMMA CallType ==
  ASSUME NEW op \in Operation, NEW k \in Kind, NEW op2 \in Operation, NEW k2 \in Kind
  PROVE  /\ <<Call(op, k)>> \in Seq([op : Operation, kind : Kind])
         /\ <<Call(op, k), Call(op2, k2)>> \in Seq([op : Operation, kind : Kind])
BY DEF Call

LEMMA SaveReceiverType ==
  ASSUME ReceiverTypeOK,
         \/ receiver' = IdleReceiver
         \/ receiver' = [receiver EXCEPT !.pc = "find", !.held = 0]
  PROVE  ReceiverTypeOK'
<1>1. CASE receiver' = IdleReceiver
  BY <1>1 DEF ReceiverTypeOK, IdleReceiver, FunctionType
<1>2. CASE receiver' = [receiver EXCEPT !.pc = "find", !.held = 0]
  BY <1>2 DEF ReceiverTypeOK
<1> QED
  BY <1>1, <1>2


(* A start keeps the types.                                                *)
LEMMA TypeStart ==
  ASSUME TypeOK, NEW w \in Workers, StartStep(w)
  PROVE  TypeOK'
<1>1. CASE StartRejected(w)
  <2>1. WorkerTypeOK'
    BY <1>1, FinishType
    DEF TypeOK, StartRejected
  <2> QED
    BY <1>1, <2>1
    DEF TypeOK, ManagerTypeOK, DeviceTypeOK, ReceiverTypeOK, UiTypeOK,
        manager, device, StartRejected
<1>2. CASE StartWithoutResult(w)
  <2>1. ManagerTypeOK'
    BY <1>2, ClearedType
    DEF TypeOK, ManagerTypeOK, FunctionType, SendStatus, Kind, WorkerTypeOK,
        StartWithoutResult
  <2>2. WorkerTypeOK'
    BY <1>2, FinishType
    DEF TypeOK, StartWithoutResult
  <2>3. ReceiverTypeOK'
    BY <1>2
    DEF TypeOK, ReceiverTypeOK, FunctionType, Freed, StartWithoutResult,
        SetHeld, ClearedHeld, HeldAfterClear
  <2> QED
    BY <1>2, <2>1, <2>2, <2>3
    DEF TypeOK, DeviceTypeOK, UiTypeOK, device, StartWithoutResult
<1>3. CASE StartNotSaved(w)
  <2>1. ManagerTypeOK'
    BY <1>3, AddResultType, ClearedType
    DEF TypeOK, ManagerTypeOK, FunctionType, SendStatus, Kind, WorkerTypeOK,
        StartNotSaved
  <2>2. WorkerTypeOK'
    BY <1>3, FinishType
    DEF TypeOK, StartNotSaved
  <2>3. ReceiverTypeOK'
    BY <1>3
    DEF TypeOK, ReceiverTypeOK, FunctionType, Freed, StartNotSaved, SetHeld,
        ClearedHeld, HeldAfterClear, HeldAfterAdd, HeldAfterEvict
  <2> QED
    BY <1>3, <2>1, <2>2, <2>3
    DEF TypeOK, DeviceTypeOK, UiTypeOK, device, StartNotSaved
<1>4. CASE StartAccepted(w)
  <2>1. ManagerTypeOK'
    <3>1. /\ manualResults' \in Seq(Workers \union {NoThread})
          /\ Len(manualResults') <= MaxResults
      BY <1>4, AddResultType, ClearedType
      DEF TypeOK, ManagerTypeOK, StartAccepted
    <3>2. sendStatus' \in [Kind -> SendStatus]
      BY <1>4
      DEF TypeOK, ManagerTypeOK, StartAccepted, SendStatus
    <3>3. curStateIndex' \in Nat \union {-1}
      BY <1>4, ClearedType
      DEF TypeOK, ManagerTypeOK, StartAccepted
    <3> QED
      BY <1>4, <3>1, <3>2, <3>3
      DEF TypeOK, ManagerTypeOK, StartAccepted, manager, FunctionType
  <2>2. WorkerTypeOK'
    BY <1>4, GotoType
    DEF TypeOK, StartAccepted, WorkerPc
  <2>3. ReceiverTypeOK'
    BY <1>4
    DEF TypeOK, ReceiverTypeOK, FunctionType, Freed, StartAccepted, SetHeld,
        ClearedHeld, HeldAfterClear, HeldAfterAdd, HeldAfterEvict
  <2> QED
    BY <1>4, <2>1, <2>2, <2>3
    DEF TypeOK, DeviceTypeOK, UiTypeOK, device, StartAccepted
<1>5. CASE NothingToSend(w)
  <2>1. WorkerTypeOK'
    BY <1>5, NextPortType
    DEF TypeOK, NothingToSend
  <2> QED
    BY <1>5, <2>1
    DEF TypeOK, ManagerTypeOK, DeviceTypeOK, ReceiverTypeOK, UiTypeOK,
        manager, device, NothingToSend
<1>6. CASE NotSampled(w)
  <2>1. WorkerTypeOK'
    BY <1>6, FailWithType
    DEF TypeOK, NotSampled, WorkerPc, ErrorCode
  <2> QED
    BY <1>6, <2>1
    DEF TypeOK, ManagerTypeOK, DeviceTypeOK, ReceiverTypeOK, UiTypeOK,
        manager, device, NotSampled
<1>7. CASE SendPort(w)
  <2>1. DeviceTypeOK'
    BY <1>7
    DEF TypeOK, DeviceTypeOK, Event, Kind, WorkerTypeOK, SendPort, At
  <2>2. WorkerTypeOK'
    BY <1>7, NextPortType
    DEF TypeOK, SendPort
  <2> QED
    BY <1>7, <2>1, <2>2
    DEF TypeOK, ManagerTypeOK, ReceiverTypeOK, UiTypeOK, manager, SendPort
<1>8. CASE SendPortFails(w)
  <2>1. DeviceTypeOK'
    BY <1>8
    DEF TypeOK, DeviceTypeOK, Event, Kind, WorkerTypeOK, SendPortFails,
        TryStopPort
  <2>2. WorkerTypeOK'
    BY <1>8, FailWithType
    DEF TypeOK, SendPortFails, WorkerPc, ErrorCode
  <2> QED
    BY <1>8, <2>1, <2>2
    DEF TypeOK, ManagerTypeOK, ReceiverTypeOK, UiTypeOK, manager,
        SendPortFails
<1>9. CASE SendPortCancelled(w)
  <2>1. DeviceTypeOK'
    <3>1. event' \in [Event -> BOOLEAN]
      BY <1>9
      DEF TypeOK, DeviceTypeOK, SendPortCancelled, Consume
    <3>2. portOn' \in [Kind -> SUBSET Nat]
      BY <1>9
      DEF TypeOK, DeviceTypeOK, SendPortCancelled, TryStopPort
    <3> QED
      BY <1>9, <3>1, <3>2
      DEF TypeOK, DeviceTypeOK, SendPortCancelled, device
  <2>2. WorkerTypeOK'
    BY <1>9, FailWithType
    DEF TypeOK, SendPortCancelled, WorkerPc, ErrorCode
  <2> QED
    BY <1>9, <2>1, <2>2
    DEF TypeOK, ManagerTypeOK, ReceiverTypeOK, UiTypeOK, manager,
        SendPortCancelled
<1>10. CASE AllPortsSent(w)
  <2>1. ManagerTypeOK'
    <3>1. /\ manualResults' \in Seq(Workers \union {NoThread})
          /\ Len(manualResults') <= MaxResults
      BY <1>10, ReleaseResultType
      DEF TypeOK, ManagerTypeOK, AllPortsSent
    <3> QED
      BY <1>10, <3>1
      DEF TypeOK, ManagerTypeOK, AllPortsSent, manager
  <2>2. DeviceTypeOK'
    BY <1>10
    DEF TypeOK, DeviceTypeOK, Event, Kind, WorkerTypeOK, AllPortsSent
  <2>3. WorkerTypeOK'
    BY <1>10, GotoType
    DEF TypeOK, AllPortsSent, WorkerPc
  <2> QED
    BY <1>10, <2>1, <2>2, <2>3
    DEF TypeOK, ReceiverTypeOK, UiTypeOK, AllPortsSent
<1>11. CASE StartSucceeds(w)
  <2>1. ManagerTypeOK'
    BY <1>11
    DEF TypeOK, ManagerTypeOK, FunctionType, SendStatus, Kind, WorkerTypeOK,
        StartSucceeds
  <2>2. WorkerTypeOK'
    BY <1>11, FinishType
    DEF TypeOK, StartSucceeds
  <2> QED
    BY <1>11, <2>1, <2>2
    DEF TypeOK, DeviceTypeOK, ReceiverTypeOK, UiTypeOK, device, StartSucceeds
<1>12. CASE StartFailsUnderLock(w)
  <2>1. ManagerTypeOK'
    BY <1>12, ReleaseResultType
    DEF TypeOK, ManagerTypeOK, FunctionType, SendStatus, Kind, WorkerTypeOK,
        StartFailsUnderLock
  <2>2. WorkerTypeOK'
    BY <1>12, GotoType
    DEF TypeOK, StartFailsUnderLock, WorkerPc
  <2> QED
    BY <1>12, <2>1, <2>2
    DEF TypeOK, DeviceTypeOK, ReceiverTypeOK, UiTypeOK, device,
        StartFailsUnderLock
<1>13. CASE StartFails(w)
  <2>1. ManagerTypeOK'
    BY <1>13
    DEF TypeOK, ManagerTypeOK, FunctionType, SendStatus, Kind, WorkerTypeOK,
        StartFails
  <2>2. WorkerTypeOK'
    BY <1>13, FinishType
    DEF TypeOK, StartFails
  <2>3. UiTypeOK'
    BY <1>13
    DEF TypeOK, UiTypeOK, UiPc, Event, Kind, Operation, StartFails,
        WorkerTypeOK
  <2> QED
    BY <1>13, <2>1, <2>2, <2>3
    DEF TypeOK, DeviceTypeOK, ReceiverTypeOK, device, StartFails
<1> QED
  BY <1>1, <1>2, <1>3, <1>4, <1>5, <1>6, <1>7, <1>8, <1>9, <1>10, <1>11, <1>12, <1>13
  DEF StartStep

(* An update keeps the types.                                              *)
LEMMA TypeUpdate ==
  ASSUME TypeOK, NEW w \in Workers, UpdateStep(w)
  PROVE  TypeOK'
<1>1. CASE UpdateRejected(w)
  <2>1. WorkerTypeOK'
    BY <1>1, FinishType
    DEF TypeOK, UpdateRejected
  <2> QED
    BY <1>1, <2>1
    DEF TypeOK, ManagerTypeOK, DeviceTypeOK, ReceiverTypeOK, UiTypeOK,
        manager, device, UpdateRejected
<1>2. CASE UpdateNotSaved(w)
  <2>1. ManagerTypeOK'
    <3>1. /\ manualResults' \in Seq(Workers \union {NoThread})
          /\ Len(manualResults') <= MaxResults
      BY <1>2, AddResultType
      DEF TypeOK, ManagerTypeOK, UpdateNotSaved
    <3> QED
      BY <1>2, <3>1
      DEF TypeOK, ManagerTypeOK, UpdateNotSaved, manager
  <2>2. WorkerTypeOK'
    BY <1>2, FinishType
    DEF TypeOK, UpdateNotSaved
  <2>3. ReceiverTypeOK'
    BY <1>2
    DEF TypeOK, ReceiverTypeOK, FunctionType, Freed, UpdateNotSaved, SetHeld,
        HeldAfterAdd, HeldAfterEvict
  <2> QED
    BY <1>2, <2>1, <2>2, <2>3
    DEF TypeOK, DeviceTypeOK, UiTypeOK, device, UpdateNotSaved
<1>3. CASE UpdateUnchanged(w)
  <2>1. ManagerTypeOK'
    <3>1. /\ manualResults' \in Seq(Workers \union {NoThread})
          /\ Len(manualResults') <= MaxResults
      BY <1>3, UnchangedType
      DEF TypeOK, ManagerTypeOK, UpdateUnchanged
    <3> QED
      BY <1>3, <3>1
      DEF TypeOK, ManagerTypeOK, UpdateUnchanged, manager
  <2>2. WorkerTypeOK'
    BY <1>3, FinishType
    DEF TypeOK, UpdateUnchanged
  <2>3. ReceiverTypeOK'
    BY <1>3
    DEF TypeOK, ReceiverTypeOK, FunctionType, Freed, UpdateUnchanged,
        SetHeld, HeldAfterAdd, HeldAfterEvict
  <2> QED
    BY <1>3, <2>1, <2>2, <2>3
    DEF TypeOK, DeviceTypeOK, UiTypeOK, device, UpdateUnchanged
<1>4. CASE UpdateChanged(w)
  <2>1. ManagerTypeOK'
    <3>1. /\ manualResults' \in Seq(Workers \union {NoThread})
          /\ Len(manualResults') <= MaxResults
      BY <1>4, AddResultType
      DEF TypeOK, ManagerTypeOK, UpdateChanged
    <3> QED
      BY <1>4, <3>1
      DEF TypeOK, ManagerTypeOK, UpdateChanged, manager
  <2>2. WorkerTypeOK'
    BY <1>4, GotoType
    DEF TypeOK, UpdateChanged, WorkerPc
  <2>3. ReceiverTypeOK'
    BY <1>4
    DEF TypeOK, ReceiverTypeOK, FunctionType, Freed, UpdateChanged, SetHeld,
        HeldAfterAdd, HeldAfterEvict
  <2> QED
    BY <1>4, <2>1, <2>2, <2>3
    DEF TypeOK, DeviceTypeOK, UiTypeOK, device, UpdateChanged
<1>5. CASE UpdatePrepares(w)
  <2>1. ManagerTypeOK'
    <3>1. sendStatus' \in [Kind -> SendStatus]
      BY <1>5
      DEF TypeOK, ManagerTypeOK, UpdatePrepares, SendStatus
    <3> QED
      BY <1>5, <3>1
      DEF TypeOK, ManagerTypeOK, UpdatePrepares, manager
  <2>2. WorkerTypeOK'
    BY <1>5, GotoType
    DEF TypeOK, UpdatePrepares, WorkerPc
  <2> QED
    BY <1>5, <2>1, <2>2
    DEF TypeOK, DeviceTypeOK, ReceiverTypeOK, UiTypeOK, device,
        UpdatePrepares
<1>6. CASE NothingToChange(w)
  <2>1. WorkerTypeOK'
    BY <1>6, NextPortType
    DEF TypeOK, NothingToChange
  <2> QED
    BY <1>6, <2>1
    DEF TypeOK, ManagerTypeOK, DeviceTypeOK, ReceiverTypeOK, UiTypeOK,
        manager, device, NothingToChange
<1>7. CASE ChangePort(w)
  <2>1. WorkerTypeOK'
    BY <1>7, NextPortType
    DEF TypeOK, ChangePort
  <2> QED
    BY <1>7, <2>1
    DEF TypeOK, ManagerTypeOK, DeviceTypeOK, ReceiverTypeOK, UiTypeOK,
        manager, device, ChangePort
<1>8. CASE ChangePortFails(w)
  <2>1. WorkerTypeOK'
    BY <1>8, FailWithType
    DEF TypeOK, ChangePortFails, WorkerPc, ErrorCode
  <2> QED
    BY <1>8, <2>1
    DEF TypeOK, ManagerTypeOK, DeviceTypeOK, ReceiverTypeOK, UiTypeOK,
        manager, device, ChangePortFails
<1>9. CASE ChangePortCancelled(w)
  <2>1. DeviceTypeOK'
    <3>1. event' \in [Event -> BOOLEAN]
      BY <1>9
      DEF TypeOK, DeviceTypeOK, ChangePortCancelled, Consume
    <3> QED
      BY <1>9, <3>1
      DEF TypeOK, DeviceTypeOK, ChangePortCancelled, device
  <2>2. WorkerTypeOK'
    BY <1>9, FailWithType
    DEF TypeOK, ChangePortCancelled, WorkerPc, ErrorCode
  <2> QED
    BY <1>9, <2>1, <2>2
    DEF TypeOK, ManagerTypeOK, ReceiverTypeOK, UiTypeOK, manager,
        ChangePortCancelled
<1>10. CASE AllPortsChanged(w)
  <2>1. WorkerTypeOK'
    BY <1>10, GotoType
    DEF TypeOK, AllPortsChanged, WorkerPc
  <2> QED
    BY <1>10, <2>1
    DEF TypeOK, ManagerTypeOK, DeviceTypeOK, ReceiverTypeOK, UiTypeOK,
        manager, device, AllPortsChanged
<1>11. CASE UpdateDone(w)
  <2>1. ManagerTypeOK'
    <3>1. /\ manualResults' \in Seq(Workers \union {NoThread})
          /\ Len(manualResults') <= MaxResults
      BY <1>11, ReleaseResultType
      DEF TypeOK, ManagerTypeOK, UpdateDone
    <3>2. sendStatus' \in [Kind -> SendStatus]
      BY <1>11
      DEF TypeOK, ManagerTypeOK, UpdateDone, SendStatus
    <3> QED
      BY <1>11, <3>1, <3>2
      DEF TypeOK, ManagerTypeOK, UpdateDone, manager
  <2>2. WorkerTypeOK'
    BY <1>11, FinishType
    DEF TypeOK, UpdateDone
  <2> QED
    BY <1>11, <2>1, <2>2
    DEF TypeOK, DeviceTypeOK, ReceiverTypeOK, UiTypeOK, device, UpdateDone
<1> QED
  BY <1>1, <1>2, <1>3, <1>4, <1>5, <1>6, <1>7, <1>8, <1>9, <1>10, <1>11
  DEF UpdateStep

(* The stop of a manual test keeps the types.                              *)
LEMMA TypeStop ==
  ASSUME TypeOK, CallPending, StopStep
  PROVE  TypeOK'
<1>1. CASE StopIdle
  <2>1. UiTypeOK'
    BY <1>1
    DEF TypeOK, UiTypeOK, UiPc, Event, Kind, Operation, StopIdle
  <2> QED
    BY <1>1, <2>1
    DEF TypeOK, ManagerTypeOK, DeviceTypeOK, WorkerTypeOK, ReceiverTypeOK,
        manager, device, StopIdle
<1>2. CASE StopCancels
  <2>1. ManagerTypeOK'
    BY <1>2
    DEF TypeOK, ManagerTypeOK, FunctionType, SendStatus, Kind, WorkerTypeOK,
        StopCancels
  <2>2. DeviceTypeOK'
    <3>1. event' \in [Event -> BOOLEAN]
      BY <1>2
      DEF TypeOK, DeviceTypeOK, StopCancels
    <3> QED
      BY <1>2, <3>1
      DEF TypeOK, DeviceTypeOK, StopCancels, device
  <2>3. UiTypeOK'
    BY <1>2, UiGotoType
    DEF TypeOK, UiTypeOK, UiPc, Event, Kind, Operation, StopCancels
  <2> QED
    BY <1>2, <2>1, <2>2, <2>3
    DEF TypeOK, WorkerTypeOK, ReceiverTypeOK, StopCancels
<1>3. CASE StopWaited
  <2>1. ManagerTypeOK'
    BY <1>3
    DEF TypeOK, ManagerTypeOK, FunctionType, SendStatus, Kind, WorkerTypeOK,
        StopWaited
  <2>2. DeviceTypeOK'
    <3>1. event' \in [Event -> BOOLEAN]
      BY <1>3
      DEF TypeOK, DeviceTypeOK, StopWaited, ResetEvent
    <3> QED
      BY <1>3, <3>1
      DEF TypeOK, DeviceTypeOK, StopWaited, device
  <2>3. UiTypeOK'
    BY <1>3
    DEF TypeOK, UiTypeOK, UiPc, Event, Kind, Operation, StopWaited
  <2> QED
    BY <1>3, <2>1, <2>2, <2>3
    DEF TypeOK, WorkerTypeOK, ReceiverTypeOK, StopWaited
<1>4. CASE StopPort
  <2>1. DeviceTypeOK'
    BY <1>4
    DEF TypeOK, DeviceTypeOK, Event, Kind, WorkerTypeOK, StopPort
  <2>2. UiTypeOK'
    BY <1>4
    DEF TypeOK, UiTypeOK, UiPc, Event, Kind, Operation, StopPort
  <2> QED
    BY <1>4, <2>1, <2>2
    DEF TypeOK, ManagerTypeOK, WorkerTypeOK, ReceiverTypeOK, manager,
        StopPort
<1>5. CASE StopPortFails
  <2>1. UiTypeOK'
    BY <1>5, UiReturnType
    DEF TypeOK, UiTypeOK, UiPc, Event, Kind, Operation, StopPortFails,
        CallPending
  <2> QED
    BY <1>5, <2>1
    DEF TypeOK, ManagerTypeOK, DeviceTypeOK, WorkerTypeOK, ReceiverTypeOK,
        manager, device, StopPortFails
<1>6. CASE StopUnderLock
  <2>1. ManagerTypeOK'
    BY <1>6
    DEF TypeOK, ManagerTypeOK, FunctionType, SendStatus, Kind, WorkerTypeOK,
        StopUnderLock
  <2>2. DeviceTypeOK'
    BY <1>6
    DEF TypeOK, DeviceTypeOK, Event, Kind, WorkerTypeOK, StopUnderLock
  <2>3. UiTypeOK'
    BY <1>6, UiGotoType
    DEF TypeOK, UiTypeOK, UiPc, Event, Kind, Operation, StopUnderLock
  <2> QED
    BY <1>6, <2>1, <2>2, <2>3
    DEF TypeOK, WorkerTypeOK, ReceiverTypeOK, StopUnderLock
<1>7. CASE StopDone
  <2>1. ManagerTypeOK'
    <3>1. sendStatus' \in [Kind -> SendStatus]
      BY <1>7
      DEF TypeOK, ManagerTypeOK, StopDone, SendStatus
    <3> QED
      BY <1>7, <3>1
      DEF TypeOK, ManagerTypeOK, StopDone, manager
  <2>2. UiTypeOK'
    BY <1>7, UiReturnType
    DEF TypeOK, UiTypeOK, UiPc, Event, Kind, Operation, StopDone, CallPending
  <2> QED
    BY <1>7, <2>1, <2>2
    DEF TypeOK, DeviceTypeOK, WorkerTypeOK, ReceiverTypeOK, device, StopDone
<1> QED
  BY <1>1, <1>2, <1>3, <1>4, <1>5, <1>6, <1>7
  DEF StopStep

(* A state sequence keeps the types.                                       *)
LEMMA TypeSequence ==
  ASSUME TypeOK, NEW w \in Workers, StartStateSequenceTest(w)
  PROVE  TypeOK'
<1>1. CASE SequenceRejected(w)
  <2>1. WorkerTypeOK'
    BY <1>1, FailWithType
    DEF TypeOK, SequenceRejected, WorkerPc, ErrorCode
  <2> QED
    BY <1>1, <2>1
    DEF TypeOK, ManagerTypeOK, DeviceTypeOK, ReceiverTypeOK, UiTypeOK,
        manager, device, SequenceRejected
<1>2. CASE SequenceAccepted(w)
  <2>1. ManagerTypeOK'
    BY <1>2
    DEF TypeOK, ManagerTypeOK, FunctionType, SendStatus, Kind, WorkerTypeOK,
        SequenceAccepted
  <2>2. WorkerTypeOK'
    BY <1>2, GotoType
    DEF TypeOK, SequenceAccepted, WorkerPc
  <2> QED
    BY <1>2, <2>1, <2>2
    DEF TypeOK, DeviceTypeOK, ReceiverTypeOK, UiTypeOK, device,
        SequenceAccepted
<1>3. CASE ClearSequenceResults(w)
  <2>1. ManagerTypeOK'
    BY <1>3
    DEF TypeOK, ManagerTypeOK, FunctionType, SendStatus, Kind, WorkerTypeOK,
        ClearSequenceResults
  <2>2. WorkerTypeOK'
    BY <1>3, GotoType, FailWithType
    DEF TypeOK, ClearSequenceResults, ReturnWith, WorkerPc, ErrorCode
  <2>3. ReceiverTypeOK'
    BY <1>3
    DEF TypeOK, ReceiverTypeOK, FunctionType, Freed, ClearSequenceResults,
        HeldAfterClear
  <2> QED
    BY <1>3, <2>1, <2>2, <2>3
    DEF TypeOK, DeviceTypeOK, UiTypeOK, device, ClearSequenceResults
<1>4. CASE PrepareCancelled(w)
  <2>1. DeviceTypeOK'
    <3>1. event' \in [Event -> BOOLEAN]
      BY <1>4
      DEF TypeOK, DeviceTypeOK, PrepareCancelled, TakeCancel
    <3> QED
      BY <1>4, <3>1
      DEF TypeOK, DeviceTypeOK, PrepareCancelled, device, TakeCancel
  <2>2. WorkerTypeOK'
    BY <1>4, FailWithType
    DEF TypeOK, PrepareCancelled, TakeCancel, ReturnWith, WorkerPc, ErrorCode
  <2> QED
    BY <1>4, <2>1, <2>2
    DEF TypeOK, ManagerTypeOK, ReceiverTypeOK, UiTypeOK, manager, TakeCancel,
        PrepareCancelled
<1>5. CASE FrameState(w)
  <2>1. WorkerTypeOK'
    BY <1>5, GotoType
    DEF TypeOK, FrameState, WorkerPc
  <2> QED
    BY <1>5, <2>1
    DEF TypeOK, ManagerTypeOK, DeviceTypeOK, ReceiverTypeOK, UiTypeOK,
        manager, device, FrameState
<1>6. CASE PrepareState(w)
  <2>1. ManagerTypeOK'
    BY <1>6
    DEF TypeOK, ManagerTypeOK, FunctionType, SendStatus, Kind, WorkerTypeOK,
        PrepareState
  <2>2. WorkerTypeOK'
    BY <1>6
    DEF TypeOK, PrepareState, WorkerTypeOK
  <2> QED
    BY <1>6, <2>1, <2>2
    DEF TypeOK, DeviceTypeOK, ReceiverTypeOK, UiTypeOK, device, PrepareState
<1>7. CASE FramingCancelled(w)
  <2>1. ManagerTypeOK'
    BY <1>7
    DEF TypeOK, ManagerTypeOK, FunctionType, SendStatus, Kind, WorkerTypeOK,
        FramingCancelled
  <2>2. DeviceTypeOK'
    <3>1. event' \in [Event -> BOOLEAN]
      BY <1>7
      DEF TypeOK, DeviceTypeOK, FramingCancelled
    <3> QED
      BY <1>7, <3>1
      DEF TypeOK, DeviceTypeOK, FramingCancelled, device
  <2>3. WorkerTypeOK'
    BY <1>7, FailWithType
    DEF TypeOK, FramingCancelled, ReturnWith, WorkerPc, ErrorCode
  <2> QED
    BY <1>7, <2>1, <2>2, <2>3
    DEF TypeOK, ReceiverTypeOK, UiTypeOK, FramingCancelled
<1>8. CASE PrepareFails(w)
  <2>1. ManagerTypeOK'
    BY <1>8
    DEF TypeOK, ManagerTypeOK, FunctionType, SendStatus, Kind, WorkerTypeOK,
        PrepareFails
  <2>2. WorkerTypeOK'
    BY <1>8, FailWithType
    DEF TypeOK, PrepareFails, ReturnWith, WorkerPc, ErrorCode
  <2> QED
    BY <1>8, <2>1, <2>2
    DEF TypeOK, DeviceTypeOK, ReceiverTypeOK, UiTypeOK, device, PrepareFails
<1>9. CASE AllPrepared(w)
  <2>1. DeviceTypeOK'
    BY <1>9
    DEF TypeOK, DeviceTypeOK, Event, Kind, WorkerTypeOK, AllPrepared
  <2>2. WorkerTypeOK'
    BY <1>9, ToStateType
    DEF TypeOK, AllPrepared
  <2> QED
    BY <1>9, <2>1, <2>2
    DEF TypeOK, ManagerTypeOK, ReceiverTypeOK, UiTypeOK, manager, AllPrepared
<1>10. CASE StateCancelled(w)
  <2>1. DeviceTypeOK'
    <3>1. event' \in [Event -> BOOLEAN]
      BY <1>10
      DEF TypeOK, DeviceTypeOK, StateCancelled, TakeCancel
    <3> QED
      BY <1>10, <3>1
      DEF TypeOK, DeviceTypeOK, StateCancelled, device, TakeCancel
  <2>2. WorkerTypeOK'
    BY <1>10, FailWithType
    DEF TypeOK, StateCancelled, TakeCancel, ReturnWith, WorkerPc, ErrorCode
  <2> QED
    BY <1>10, <2>1, <2>2
    DEF TypeOK, ManagerTypeOK, ReceiverTypeOK, UiTypeOK, manager, TakeCancel,
        StateCancelled
<1>11. CASE SendState0(w)
  <2>1. DeviceTypeOK'
    <3>1. portOn' \in [Kind -> SUBSET Nat]
      BY <1>11, SendAssumption
      DEF TypeOK, DeviceTypeOK, SendState0, Kind
    <3> QED
      BY <1>11, <3>1
      DEF TypeOK, DeviceTypeOK, SendState0, device
  <2>2. WorkerTypeOK'
    BY <1>11, GotoType
    DEF TypeOK, SendState0, WorkerPc
  <2> QED
    BY <1>11, <2>1, <2>2
    DEF TypeOK, ManagerTypeOK, ReceiverTypeOK, UiTypeOK, manager, SendState0
<1>12. CASE UpdateState(w)
  <2>1. WorkerTypeOK'
    BY <1>12, GotoType
    DEF TypeOK, UpdateState, WorkerPc
  <2> QED
    BY <1>12, <2>1
    DEF TypeOK, ManagerTypeOK, DeviceTypeOK, ReceiverTypeOK, UiTypeOK,
        manager, device, UpdateState
<1>13. CASE SendStateFails(w)
  <2>1. DeviceTypeOK'
    <3>1. portOn' \in [Kind -> SUBSET Nat]
      BY <1>13, SendAssumption
      DEF TypeOK, DeviceTypeOK, SendStateFails, Kind
    <3> QED
      BY <1>13, <3>1
      DEF TypeOK, DeviceTypeOK, SendStateFails, device
  <2>2. WorkerTypeOK'
    BY <1>13, FailWithType
    DEF TypeOK, SendStateFails, ReturnWith, WorkerPc, ErrorCode
  <2> QED
    BY <1>13, <2>1, <2>2
    DEF TypeOK, ManagerTypeOK, ReceiverTypeOK, UiTypeOK, manager,
        SendStateFails
<1>14. CASE StateSent(w)
  <2>1. ManagerTypeOK'
    BY <1>14
    DEF TypeOK, ManagerTypeOK, FunctionType, SendStatus, Kind, WorkerTypeOK,
        StateSent
  <2>2. WorkerTypeOK'
    BY <1>14, GotoType
    DEF TypeOK, StateSent, WorkerPc, SwitchType, WorkerTypeOK
  <2> QED
    BY <1>14, <2>1, <2>2
    DEF TypeOK, DeviceTypeOK, ReceiverTypeOK, UiTypeOK, device, StateSent
<1>15. CASE TimerExpires(w)
  <2>1. WorkerTypeOK'
    BY <1>15, ToStateType
    DEF TypeOK, TimerExpires, NextState, WorkerTypeOK
  <2> QED
    BY <1>15, <2>1
    DEF TypeOK, ManagerTypeOK, DeviceTypeOK, ReceiverTypeOK, UiTypeOK,
        manager, device, TimerExpires
<1>16. CASE TimerCancelled(w)
  <2>1. DeviceTypeOK'
    <3>1. event' \in [Event -> BOOLEAN]
      BY <1>16
      DEF TypeOK, DeviceTypeOK, TimerCancelled, TakeCancel
    <3> QED
      BY <1>16, <3>1
      DEF TypeOK, DeviceTypeOK, TimerCancelled, device, TakeCancel
  <2>2. WorkerTypeOK'
    BY <1>16, FailWithType
    DEF TypeOK, TimerCancelled, TakeCancel, ReturnWith, WorkerPc, ErrorCode
  <2> QED
    BY <1>16, <2>1, <2>2
    DEF TypeOK, ManagerTypeOK, ReceiverTypeOK, UiTypeOK, manager, TakeCancel,
        TimerCancelled
<1>17. CASE TimerTimesOut(w)
  <2>1. WorkerTypeOK'
    BY <1>17, FailWithType
    DEF TypeOK, TimerTimesOut, ReturnWith, WorkerPc, ErrorCode
  <2> QED
    BY <1>17, <2>1
    DEF TypeOK, ManagerTypeOK, DeviceTypeOK, ReceiverTypeOK, UiTypeOK,
        manager, device, TimerTimesOut
<1>18. CASE DIMet(w)
  <2>1. WorkerTypeOK'
    BY <1>18, ToStateType
    DEF TypeOK, DIMet, NextState, WorkerTypeOK
  <2> QED
    BY <1>18, <2>1
    DEF TypeOK, ManagerTypeOK, DeviceTypeOK, ReceiverTypeOK, UiTypeOK,
        manager, device, DIMet
<1>19. CASE DICancelled(w)
  <2>1. DeviceTypeOK'
    <3>1. event' \in [Event -> BOOLEAN]
      BY <1>19
      DEF TypeOK, DeviceTypeOK, DICancelled, TakeCancel
    <3> QED
      BY <1>19, <3>1
      DEF TypeOK, DeviceTypeOK, DICancelled, device, TakeCancel
  <2>2. WorkerTypeOK'
    BY <1>19, FailWithType
    DEF TypeOK, DICancelled, TakeCancel, ReturnWith, WorkerPc, ErrorCode
  <2> QED
    BY <1>19, <2>1, <2>2
    DEF TypeOK, ManagerTypeOK, ReceiverTypeOK, UiTypeOK, manager, TakeCancel,
        DICancelled
<1>20. CASE UserSwitched(w)
  <2>1. WorkerTypeOK'
    BY <1>20, ToStateType
    DEF TypeOK, UserSwitched, NextState, WorkerTypeOK
  <2> QED
    BY <1>20, <2>1
    DEF TypeOK, ManagerTypeOK, DeviceTypeOK, ReceiverTypeOK, UiTypeOK,
        manager, device, UserSwitched
<1>21. CASE AllStatesSent(w)
  <2>1. WorkerTypeOK'
    BY <1>21, GotoType
    DEF TypeOK, AllStatesSent, WorkerPc
  <2> QED
    BY <1>21, <2>1
    DEF TypeOK, ManagerTypeOK, DeviceTypeOK, ReceiverTypeOK, UiTypeOK,
        manager, device, AllStatesSent
<1>22. CASE ExitStopRecv(w)
  <2>1. DeviceTypeOK'
    BY <1>22
    DEF TypeOK, DeviceTypeOK, Event, Kind, WorkerTypeOK, ExitStopRecv
  <2>2. WorkerTypeOK'
    BY <1>22, GotoType
    DEF TypeOK, ExitStopRecv, WorkerPc
  <2> QED
    BY <1>22, <2>1, <2>2
    DEF TypeOK, ManagerTypeOK, ReceiverTypeOK, UiTypeOK, manager,
        ExitStopRecv
<1>23. CASE ExitStopPorts(w)
  <2>1. ManagerTypeOK'
    BY <1>23
    DEF TypeOK, ManagerTypeOK, FunctionType, SendStatus, Kind, WorkerTypeOK,
        ExitStopPorts
  <2>2. DeviceTypeOK'
    BY <1>23
    DEF TypeOK, DeviceTypeOK, Event, Kind, WorkerTypeOK, ExitStopPorts
  <2>3. WorkerTypeOK'
    BY <1>23, GotoType
    DEF TypeOK, ExitStopPorts, WorkerPc
  <2> QED
    BY <1>23, <2>1, <2>2, <2>3
    DEF TypeOK, ReceiverTypeOK, UiTypeOK, ExitStopPorts
<1>24. CASE ExitPortFails(w)
  <2>1. DeviceTypeOK'
    BY <1>24
    DEF TypeOK, DeviceTypeOK, Event, Kind, WorkerTypeOK, ExitPortFails
  <2>2. WorkerTypeOK'
    BY <1>24, GotoType
    DEF TypeOK, ExitPortFails, WorkerPc
  <2> QED
    BY <1>24, <2>1, <2>2
    DEF TypeOK, ManagerTypeOK, ReceiverTypeOK, UiTypeOK, manager,
        ExitPortFails
<1>25. CASE PostSequenceResult(w)
  <2>1. WorkerTypeOK'
    BY <1>25, FinishType
    DEF TypeOK, PostSequenceResult
  <2>2. UiTypeOK'
    BY <1>25
    DEF TypeOK, UiTypeOK, UiPc, Event, Kind, Operation, PostSequenceResult
  <2> QED
    BY <1>25, <2>1, <2>2
    DEF TypeOK, ManagerTypeOK, DeviceTypeOK, ReceiverTypeOK, manager, device,
        PostSequenceResult
<1> QED
  BY <1>1, <1>2, <1>3, <1>4, <1>5, <1>6, <1>7, <1>8, <1>9, <1>10, <1>11, <1>12, <1>13, <1>14, <1>15, <1>16, <1>17, <1>18, <1>19, <1>20, <1>21, <1>22, <1>23, <1>24, <1>25
  DEF StartStateSequenceTest

(* The stop of a state sequence keeps the types.                           *)
LEMMA TypeStopSequence ==
  ASSUME TypeOK, CallPending, StopStateSequenceTest
  PROVE  TypeOK'
<1>1. CASE StopSequenceChecks
  <2>1. UiTypeOK'
    BY <1>1, UiGotoType, UiReturnType
    DEF TypeOK, UiTypeOK, UiPc, Event, Kind, Operation, StopSequenceChecks,
        CallPending
  <2> QED
    BY <1>1, <2>1
    DEF TypeOK, ManagerTypeOK, DeviceTypeOK, WorkerTypeOK, ReceiverTypeOK,
        manager, device, StopSequenceChecks
<1>2. CASE StopSequenceCancels
  <2>1. DeviceTypeOK'
    <3>1. event' \in [Event -> BOOLEAN]
      BY <1>2
      DEF TypeOK, DeviceTypeOK, StopSequenceCancels
    <3> QED
      BY <1>2, <3>1
      DEF TypeOK, DeviceTypeOK, StopSequenceCancels, device
  <2>2. UiTypeOK'
    BY <1>2, UiGotoType
    DEF TypeOK, UiTypeOK, UiPc, Event, Kind, Operation, StopSequenceCancels
  <2> QED
    BY <1>2, <2>1, <2>2
    DEF TypeOK, ManagerTypeOK, WorkerTypeOK, ReceiverTypeOK, manager,
        StopSequenceCancels
<1>3. CASE StopSequenceWaited
  <2>1. DeviceTypeOK'
    <3>1. event' \in [Event -> BOOLEAN]
      BY <1>3
      DEF TypeOK, DeviceTypeOK, StopSequenceWaited, ResetEvent
    <3> QED
      BY <1>3, <3>1
      DEF TypeOK, DeviceTypeOK, StopSequenceWaited, device
  <2>2. UiTypeOK'
    BY <1>3, UiReturnType
    DEF TypeOK, UiTypeOK, UiPc, Event, Kind, Operation, StopSequenceWaited,
        CallPending
  <2> QED
    BY <1>3, <2>1, <2>2
    DEF TypeOK, ManagerTypeOK, WorkerTypeOK, ReceiverTypeOK, manager,
        StopSequenceWaited
<1> QED
  BY <1>1, <1>2, <1>3
  DEF StopStateSequenceTest

(* The receiver keeps the types.                                           *)
LEMMA TypeReceive ==
  ASSUME TypeOK, ReceiveStep
  PROVE  TypeOK'
<1>1. CASE FrameReceived
  <2>1. ReceiverTypeOK'
    BY <1>1
    DEF TypeOK, ReceiverTypeOK, FunctionType, Freed, FrameReceived,
        IdleReceiver, ManagerTypeOK
  <2> QED
    BY <1>1, <2>1
    DEF TypeOK, ManagerTypeOK, DeviceTypeOK, WorkerTypeOK, UiTypeOK, manager,
        device, FrameReceived
<1>2. CASE ReceptionStopped
  <2>1. DeviceTypeOK'
    BY <1>2
    DEF TypeOK, DeviceTypeOK, Event, Kind, WorkerTypeOK, ReceptionStopped
  <2>2. ReceiverTypeOK'
    BY <1>2
    DEF TypeOK, ReceiverTypeOK, FunctionType, Freed, ReceptionStopped,
        IdleReceiver
  <2> QED
    BY <1>2, <2>1, <2>2
    DEF TypeOK, ManagerTypeOK, WorkerTypeOK, UiTypeOK, manager,
        ReceptionStopped
<1>3. CASE FindManualResult
  <2>1. ReceiverTypeOK'
    BY <1>3, LenProperties
    DEF TypeOK, ReceiverTypeOK, FunctionType, Freed, FindManualResult,
        ManagerTypeOK
  <2> QED
    BY <1>3, <2>1
    DEF TypeOK, ManagerTypeOK, DeviceTypeOK, WorkerTypeOK, UiTypeOK, manager,
        device, FindManualResult
<1>4. CASE FindSequenceResult
  <2>1. ReceiverTypeOK'
    <3>1. receiver'.held \in Nat
      BY <1>4
      DEF TypeOK, ReceiverTypeOK, FindSequenceResult, ManagerTypeOK
    <3> QED
      BY <1>4, <3>1
      DEF TypeOK, ReceiverTypeOK, FindSequenceResult
  <2> QED
    BY <1>4, <2>1
    DEF TypeOK, ManagerTypeOK, DeviceTypeOK, WorkerTypeOK, UiTypeOK, manager,
        device, FindSequenceResult
<1>5. CASE SaveValue
  <2>1. DeviceTypeOK'
    BY <1>5
    DEF TypeOK, DeviceTypeOK, Event, Kind, WorkerTypeOK, SaveValue
  <2>2. ReceiverTypeOK'
    BY <1>5, SaveReceiverType
    DEF TypeOK, SaveValue
  <2> QED
    BY <1>5, <2>1, <2>2
    DEF TypeOK, ManagerTypeOK, WorkerTypeOK, UiTypeOK, manager, SaveValue
<1>6. CASE NoValueChanged
  <2>1. ReceiverTypeOK'
    BY <1>6
    DEF TypeOK, ReceiverTypeOK, FunctionType, Freed, NoValueChanged,
        IdleReceiver
  <2> QED
    BY <1>6, <2>1
    DEF TypeOK, ManagerTypeOK, DeviceTypeOK, WorkerTypeOK, UiTypeOK, manager,
        device, NoValueChanged
<1> QED
  BY <1>1, <1>2, <1>3, <1>4, <1>5, <1>6
  DEF ReceiveStep

(* The keys and messages of a kind keep the types.                         *)
LEMMA TypeKind ==
  ASSUME TypeOK, NEW k \in Kind, KindStep(k)
  PROVE  TypeOK'
<1>1. CASE StopApart(k)
  <2>1. UiTypeOK'
    <3>1. ui'.todo \in Seq([op : Operation, kind : Kind])
      BY <1>1, CallType
      DEF TypeOK, UiTypeOK, StopApart, Operation
    <3> QED
      BY <1>1, <3>1
      DEF TypeOK, UiTypeOK, StopApart
  <2> QED
    BY <1>1, <2>1
    DEF TypeOK, ManagerTypeOK, DeviceTypeOK, WorkerTypeOK, ReceiverTypeOK,
        manager, device, UiOnly, StopApart
<1>2. CASE StartApart(k)
  <2>1. UiTypeOK'
    <3>1. ui'.todo \in Seq([op : Operation, kind : Kind])
      BY <1>2, CallType
      DEF TypeOK, UiTypeOK, StartApart, Operation
    <3> QED
      BY <1>2, <3>1
      DEF TypeOK, UiTypeOK, StartApart
  <2> QED
    BY <1>2, <2>1
    DEF TypeOK, ManagerTypeOK, DeviceTypeOK, WorkerTypeOK, ReceiverTypeOK,
        manager, device, UiOnly, StartApart
<1>3. CASE ModifyValue(k)
  <2>1. UiTypeOK'
    <3>1. ui'.todo \in Seq([op : Operation, kind : Kind])
      BY <1>3, CallType
      DEF TypeOK, UiTypeOK, ModifyValue, Operation
    <3> QED
      BY <1>3, <3>1
      DEF TypeOK, UiTypeOK, ModifyValue
  <2> QED
    BY <1>3, <2>1
    DEF TypeOK, ManagerTypeOK, DeviceTypeOK, WorkerTypeOK, ReceiverTypeOK,
        manager, device, UiOnly, ModifyValue
<1>4. CASE OnManualTestResult(k)
  <2>1. UiTypeOK'
    BY <1>4
    DEF TypeOK, UiTypeOK, UiPc, Event, Kind, Operation, OnManualTestResult
  <2> QED
    BY <1>4, <2>1
    DEF TypeOK, ManagerTypeOK, DeviceTypeOK, WorkerTypeOK, ReceiverTypeOK,
        manager, device, UiOnly, OnManualTestResult
<1> QED
  BY <1>1, <1>2, <1>3, <1>4
  DEF KindStep

(* The other keys and messages keep the types.                             *)
LEMMA TypeDialog ==
  ASSUME TypeOK, DialogStep
  PROVE  TypeOK'
<1>1. CASE StopTogether
  <2>1. UiTypeOK'
    <3>1. ui'.todo \in Seq([op : Operation, kind : Kind])
      BY <1>1, CallType
      DEF TypeOK, UiTypeOK, StopTogether, Operation, Kind
    <3> QED
      BY <1>1, <3>1
      DEF TypeOK, UiTypeOK, StopTogether, Kind
  <2> QED
    BY <1>1, <2>1
    DEF TypeOK, ManagerTypeOK, DeviceTypeOK, WorkerTypeOK, ReceiverTypeOK,
        manager, device, UiOnly, StopTogether
<1>2. CASE StartTogether
  <2>1. UiTypeOK'
    <3>1. ui'.todo \in Seq([op : Operation, kind : Kind])
      BY <1>2, CallType
      DEF TypeOK, UiTypeOK, StartTogether, Operation, Kind
    <3> QED
      BY <1>2, <3>1
      DEF TypeOK, UiTypeOK, StartTogether, Kind
  <2> QED
    BY <1>2, <2>1
    DEF TypeOK, ManagerTypeOK, DeviceTypeOK, WorkerTypeOK, ReceiverTypeOK,
        manager, device, UiOnly, StartTogether
<1>3. CASE SetStartMode
  <2>1. UiTypeOK'
    BY <1>3
    DEF TypeOK, UiTypeOK, UiPc, Event, Kind, Operation, SetStartMode
  <2> QED
    BY <1>3, <2>1
    DEF TypeOK, ManagerTypeOK, DeviceTypeOK, WorkerTypeOK, ReceiverTypeOK,
        manager, device, UiOnly, SetStartMode
<1>4. CASE StartSequence
  <2>1. UiTypeOK'
    <3>1. ui'.todo \in Seq([op : Operation, kind : Kind])
      BY <1>4, CallType
      DEF TypeOK, UiTypeOK, StartSequence, Operation, Kind
    <3> QED
      BY <1>4, <3>1
      DEF TypeOK, UiTypeOK, StartSequence, Kind
  <2> QED
    BY <1>4, <2>1
    DEF TypeOK, ManagerTypeOK, DeviceTypeOK, WorkerTypeOK, ReceiverTypeOK,
        manager, device, UiOnly, StartSequence
<1>5. CASE StopSequence
  <2>1. UiTypeOK'
    <3>1. ui'.todo \in Seq([op : Operation, kind : Kind])
      BY <1>5, CallType
      DEF TypeOK, UiTypeOK, StopSequence, Operation, Kind
    <3> QED
      BY <1>5, <3>1
      DEF TypeOK, UiTypeOK, StopSequence, Kind
  <2> QED
    BY <1>5, <2>1
    DEF TypeOK, ManagerTypeOK, DeviceTypeOK, WorkerTypeOK, ReceiverTypeOK,
        manager, device, UiOnly, StopSequence
<1>6. CASE OnTestCompleted
  <2>1. UiTypeOK'
    BY <1>6
    DEF TypeOK, UiTypeOK, UiPc, Event, Kind, Operation, OnTestCompleted
  <2> QED
    BY <1>6, <2>1
    DEF TypeOK, ManagerTypeOK, DeviceTypeOK, WorkerTypeOK, ReceiverTypeOK,
        manager, device, UiOnly, OnTestCompleted
<1>7. CASE ShowPage
  <2>1. UiTypeOK'
    BY <1>7
    DEF TypeOK, UiTypeOK, UiPc, Event, Kind, Operation, ShowPage
  <2> QED
    BY <1>7, <2>1
    DEF TypeOK, ManagerTypeOK, DeviceTypeOK, WorkerTypeOK, ReceiverTypeOK,
        manager, device, UiOnly, ShowPage
<1> QED
  BY <1>1, <1>2, <1>3, <1>4, <1>5, <1>6, <1>7
  DEF DialogStep

(* Beginning a thread, and the question, keep the types.                   *)
LEMMA TypeThread ==
  ASSUME TypeOK, NEW w \in Workers, ThreadStep(w)
  PROVE  TypeOK'
<1>1. CASE OnWhetherSwitch(w)
  <2>1. WorkerTypeOK'
    BY <1>1, GotoType
    DEF TypeOK, OnWhetherSwitch, WorkerPc
  <2>2. UiTypeOK'
    BY <1>1
    DEF TypeOK, UiTypeOK, UiPc, Event, Kind, Operation, OnWhetherSwitch
  <2> QED
    BY <1>1, <2>1, <2>2
    DEF TypeOK, ManagerTypeOK, DeviceTypeOK, ReceiverTypeOK, manager, device,
        OnWhetherSwitch
<1>2. CASE ConfirmSwitch(w)
  <2>1. WorkerTypeOK'
    BY <1>2, GotoType
    DEF TypeOK, ConfirmSwitch, WorkerPc
  <2>2. UiTypeOK'
    BY <1>2
    DEF TypeOK, UiTypeOK, UiPc, Event, Kind, Operation, ConfirmSwitch
  <2> QED
    BY <1>2, <2>1, <2>2
    DEF TypeOK, ManagerTypeOK, DeviceTypeOK, ReceiverTypeOK, manager, device,
        ConfirmSwitch
<1>3. CASE Spawn(w)
  <2>1. WorkerTypeOK'
    BY <1>3, HeadType
    DEF TypeOK, Spawn, WorkerTypeOK, WorkerPc, Kind, Operation, ErrorCode,
        IdleWorker, Pending
  <2>2. UiTypeOK'
    BY <1>3
    DEF TypeOK, UiTypeOK, UiPc, Event, Kind, Operation, Spawn
  <2> QED
    BY <1>3, <2>1, <2>2
    DEF TypeOK, ManagerTypeOK, DeviceTypeOK, ReceiverTypeOK, manager, device,
        Spawn
<1> QED
  BY <1>1, <1>2, <1>3
  DEF ThreadStep

(* Calls and returns keep the types.                                       *)
LEMMA TypeCall ==
  ASSUME TypeOK, CallPending, CallStep
  PROVE  TypeOK'
<1>1. CASE SpawnFails
  <2>1. UiTypeOK'
    BY <1>1, UiReturnType
    DEF TypeOK, UiTypeOK, UiPc, Event, Kind, Operation, SpawnFails, Pending
  <2> QED
    BY <1>1, <2>1
    DEF TypeOK, ManagerTypeOK, DeviceTypeOK, WorkerTypeOK, ReceiverTypeOK,
        manager, device, UiOnly, SpawnFails
<1>2. CASE WakeUp
  <2>1. UiTypeOK'
    <3>1. ui.todo # <<>>
      BY <1>2
      DEF TypeOK, UiTypeOK, WakeUp, CallPending
    <3>2. Tail(ui.todo) \in Seq([op : Operation, kind : Kind])
      BY <1>2, HeadTailProperties, <3>1
      DEF TypeOK, UiTypeOK, WakeUp
    <3> QED
      BY <1>2, <3>1, <3>2
      DEF TypeOK, UiTypeOK, WakeUp, UiPc
  <2> QED
    BY <1>2, <2>1
    DEF TypeOK, ManagerTypeOK, DeviceTypeOK, WorkerTypeOK, ReceiverTypeOK,
        manager, device, UiOnly, WakeUp
<1>3. CASE CallStop
  <2>1. UiTypeOK'
    BY <1>3, UiGotoType
    DEF TypeOK, UiTypeOK, UiPc, Event, Kind, Operation, CallStop, Pending
  <2> QED
    BY <1>3, <2>1
    DEF TypeOK, ManagerTypeOK, DeviceTypeOK, WorkerTypeOK, ReceiverTypeOK,
        manager, device, UiOnly, CallStop
<1> QED
  BY <1>1, <1>2, <1>3
  DEF CallStep

-----------------------------------------------------------------------------
(* Which steps move the UI thread: not the workers' and not the receiver's.*)
LEMMA WorkersLeaveUi ==
  ASSUME UiTypeOK, NEW w \in Workers, WorkerStep(w)
  PROVE  ui'.pc = ui.pc /\ ui'.todo = ui.todo
<1>1. CASE StartStep(w)
  BY <1>1
  DEF UiTypeOK, StartStep, StartRejected, StartWithoutResult, StartNotSaved,
      StartAccepted, NothingToSend, NotSampled, SendPort, SendPortFails,
      SendPortCancelled, AllPortsSent, StartSucceeds, StartFailsUnderLock,
      StartFails
<1>2. CASE UpdateStep(w)
  BY <1>2
  DEF UiTypeOK, UpdateStep, UpdateRejected, UpdateNotSaved, UpdateUnchanged,
      UpdateChanged, UpdatePrepares, NothingToChange, ChangePort,
      ChangePortFails, ChangePortCancelled, AllPortsChanged, UpdateDone
<1>3. CASE StartStateSequenceTest(w)
  BY <1>3
  DEF UiTypeOK, StartStateSequenceTest, TakeCancel, SequenceRejected,
      SequenceAccepted, ClearSequenceResults, PrepareCancelled, FrameState,
      PrepareState, FramingCancelled, PrepareFails, AllPrepared,
      StateCancelled, SendState0, UpdateState, SendStateFails, StateSent,
      TimerExpires, TimerCancelled, TimerTimesOut, DIMet, DICancelled,
      UserSwitched, AllStatesSent, ExitStopRecv, ExitStopPorts,
      ExitPortFails, PostSequenceResult
<1> QED
  BY <1>1, <1>2, <1>3
  DEF WorkerStep, StartManualTestSMV, StartManualTestGoose,
      UpateManualTestSMV, UpateManualTestGoose

(* A call that runs stays the first of the calls to make.                  *)
LEMMA CallPendingKept ==
  ASSUME TypeOK, CallPending, [Next]_vars
  PROVE  CallPending'
<1> USE DEF CallPending
<1>1. CASE \E w \in Workers : WorkerStep(w)
  BY <1>1, WorkersLeaveUi DEF TypeOK
<1>2. CASE ReceiveStep
  BY <1>2
  DEF ReceiveStep, FrameReceived, ReceptionStopped, FindManualResult,
      FindSequenceResult, SaveValue, NoValueChanged
<1>3. CASE StopStep
  BY <1>3, UiReturnType
  DEF TypeOK, UiTypeOK, UiGoto, StopStep, StopIdle, StopCancels, StopWaited,
      StopPort, StopPortFails, StopUnderLock, StopDone
<1>4. CASE StopStateSequenceTest
  BY <1>4, UiReturnType
  DEF TypeOK, UiTypeOK, UiGoto, StopStateSequenceTest, StopSequenceChecks,
      StopSequenceCancels, StopSequenceWaited
<1>5. CASE UiStep
  <2>1. CASE \E k \in Kind : KindStep(k)
    BY <2>1
    DEF TypeOK, UiTypeOK, Key, UiFree, KindStep, StopApart, StartApart,
        ModifyValue, OnManualTestResult
  <2>2. CASE DialogStep
    BY <2>2
    DEF TypeOK, UiTypeOK, Key, UiFree, DialogStep, StopTogether,
        StartTogether, SetStartMode, StartSequence, StopSequence,
        OnTestCompleted, ShowPage
  <2>3. CASE \E w \in Workers : ThreadStep(w)
    BY <2>3
    DEF TypeOK, UiTypeOK, Pending, ThreadStep, OnWhetherSwitch,
        ConfirmSwitch, Spawn
  <2>4. CASE CallStep
    BY <2>4, UiReturnType
    DEF TypeOK, UiTypeOK, Pending, UiGoto, CallStep, SpawnFails, WakeUp,
        CallStop
  <2> QED
    BY <1>5, <2>1, <2>2, <2>3, <2>4 DEF UiStep
<1>6. CASE UNCHANGED vars
  BY <1>6 DEF vars
<1> QED
  BY <1>1, <1>2, <1>3, <1>4, <1>5, <1>6 DEF Next

LEMMA TypeInit ==
  Init => TypeOK /\ CallPending
<1> SUFFICES ASSUME Init PROVE TypeOK /\ CallPending
  OBVIOUS
<1>1. ManagerTypeOK
  <2>1. <<>> \in Seq(Workers \union {NoThread}) /\ Len(<<>>) = 0
    BY EmptySeq
  <2> QED
    BY <2>1, SendAssumption DEF Init, ManagerTypeOK, FunctionType, SendStatus
<1>2. DeviceTypeOK
  BY DEF Init, DeviceTypeOK
<1>3. WorkerTypeOK
  BY DEF Init, WorkerTypeOK, IdleWorker, WorkerPc, Kind, ErrorCode
<1>4. ReceiverTypeOK
  BY DEF Init, ReceiverTypeOK, IdleReceiver, FunctionType
<1>5. UiTypeOK
  <2>1. <<>> \in Seq([op : Operation, kind : Kind])
    BY EmptySeq
  <2> QED
    BY <2>1 DEF Init, UiInit, UiTypeOK, UiPc
<1>6. CallPending
  BY DEF Init, UiInit, CallPending
<1> QED
  BY <1>1, <1>2, <1>3, <1>4, <1>5, <1>6 DEF TypeOK

LEMMA TypeNext ==
  ASSUME TypeOK, CallPending, [Next]_vars
  PROVE  TypeOK'
<1>1. CASE \E w \in Workers : WorkerStep(w)
  BY <1>1, TypeStart, TypeUpdate, TypeSequence
  DEF WorkerStep, StartManualTestSMV, StartManualTestGoose, UpateManualTestSMV,
      UpateManualTestGoose
<1>2. CASE UiStep
  BY <1>2, TypeKind, TypeDialog, TypeThread, TypeCall DEF UiStep
<1>3. CASE UNCHANGED vars
  BY <1>3 DEF vars, manager, device, TypeOK, ManagerTypeOK, DeviceTypeOK,
              WorkerTypeOK, ReceiverTypeOK, UiTypeOK
<1> QED
  BY <1>1, <1>2, <1>3, TypeStop, TypeStopSequence, TypeReceive DEF Next

(* Every field of the manager, of the threads and of the dialogs keeps its *)
(* type, and at most MAX_TEST_RESULT_COUNT results are kept, whatever the  *)
(* threads and the user do.                                                *)
THEOREM TypeCorrect == Spec => [](TypeOK /\ CallPending)
<1>1. Init => TypeOK /\ CallPending
  BY TypeInit
<1>2. TypeOK /\ CallPending /\ [Next]_vars => (TypeOK /\ CallPending)'
  BY TypeNext, CallPendingKept
<1> QED
  BY <1>1, <1>2, PTL DEF Spec

=============================================================================
