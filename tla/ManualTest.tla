----------------------------- MODULE ManualTest -----------------------------
(***************************************************************************)
(* CFrameSend's manual test: starting, updating and stopping the           *)
(* transmission of SMV or of GOOSE.  Starts and updates run in a worker    *)
(* thread each, the stops in the UI thread.  Every action is one stretch   *)
(* between two points where another thread can see or change the state.    *)
(***************************************************************************)
EXTENDS SendState

IdleWorker == [pc |-> "idle", kind |-> "SMV", port |-> 1, state |-> 0,
               ret |-> "SUCCESS"]
FinishWorker(w) == worker' = [worker EXCEPT ![w] = IdleWorker]

(* Clearing, evicting or deleting changes what the receiver's pointer to a *)
(* manual result is worth.                                                 *)
HoldsManual == receiver.seen = "MANUAL_TEST"
SetHeld(held) ==
  receiver' = IF HoldsManual THEN [receiver EXCEPT !.held = held] ELSE receiver

-----------------------------------------------------------------------------
(* StartManualTestSMV and StartManualTestGoose, up to the Unlock.          *)
Startable(k) == curFunctionType # "STATE_SEQUENCE" /\ sendStatus[k] = "STOPPED"

(* Mutant: the first kind to stop ends the test of both.                   *)
TestEndsAlone(k) == TRUE

(* Kind k stops or fails to start: the test ends if the other kind rests.  *)
TestEnds(k) == sendStatus[OtherKind(k)] = "STOPPED"

StartRejected(w) ==
  /\ At(w, "start") /\ LockFree
  /\ ~Startable(worker[w].kind)
  /\ FinishWorker(w)
  /\ UNCHANGED <<manager, event, device, receiver, ui>>

(* The first start of a test clears the results of the previous one.       *)
ClearedResults == IF curFunctionType = "UNKNOWN" THEN <<>> ELSE manualResults
ClearedIndex   == IF curFunctionType = "UNKNOWN" THEN -1 ELSE curStateIndex
ClearedHeld    == IF curFunctionType = "UNKNOWN"
                  THEN HeldAfterClear(receiver.held) ELSE receiver.held

StartWithoutResult(w) ==    \* the FPGA time cannot be read: no result object
  /\ At(w, "start") /\ LockFree
  /\ Startable(worker[w].kind)
  /\ manualResults' = ClearedResults
  /\ curStateIndex' = ClearedIndex
  /\ SetHeld(ClearedHeld)
  /\ FinishWorker(w)
  /\ UNCHANGED <<criticalFunctionType, curFunctionType, sendStatus, seqResults,
                 event, device, ui>>

StartNotSaved(w) ==         \* the values cannot be copied: the object stays
  /\ At(w, "start") /\ LockFree
  /\ Startable(worker[w].kind)
  /\ manualResults' = AddManualTestResult(ClearedResults, NoThread)
  /\ curStateIndex' = ClearedIndex
  /\ SetHeld(HeldAfterAdd(ClearedHeld, ClearedResults))
  /\ FinishWorker(w)
  /\ UNCHANGED <<criticalFunctionType, curFunctionType, sendStatus, seqResults,
                 event, device, ui>>

StartAccepted(w) ==
  LET k == worker[w].kind
  IN /\ At(w, "start") /\ LockFree
     /\ Startable(k)
     /\ manualResults' = AddManualTestResult(ClearedResults, w)
     /\ curStateIndex' = ClearedIndex + 1
     /\ sendStatus' = [sendStatus EXCEPT ![k] = "PREPARE"]
     /\ curFunctionType' = "MANUAL_TEST"
     /\ SetHeld(HeldAfterAdd(ClearedHeld, ClearedResults))
     /\ Goto(w, "send")
     /\ UNCHANGED <<criticalFunctionType, seqResults, event, device, ui>>

-----------------------------------------------------------------------------
(* __SendSMVCbs and __SendGooseCbs for a manual test: one port after the   *)
(* other; a failing port, and only it, is stopped again.                   *)
NextPort(w) == worker' = [worker EXCEPT ![w].port = @ + 1]
FailWith(w, ret, pc) == worker' = [worker EXCEPT ![w] = [@ EXCEPT !.pc = pc, !.ret = ret]]

NothingToSend(w) ==         \* no control block is bound to the port
  /\ At(w, "send")
  /\ worker[w].port \in Ports(worker[w].kind) \ Bound[worker[w].kind]
  /\ NextPort(w)
  /\ UNCHANGED <<manager, event, device, receiver, ui>>

NotSampled(w) ==            \* __GenVirtualChannelSamples or distribution fails
  /\ At(w, "send")
  /\ worker[w].kind = "SMV" /\ worker[w].port = 1
  /\ FailWith(w, "FAILURE", "failed")
  /\ UNCHANGED <<manager, event, device, receiver, ui>>

SendPort(w) ==
  LET k == worker[w].kind
      p == worker[w].port
  IN /\ At(w, "send")
     /\ p \in Ports(k) \intersect Bound[k]
     /\ ~Cancelled(StartPolls(k))
     /\ portOn' = [portOn EXCEPT ![k] = @ \union {p}]
     /\ NextPort(w)
     /\ UNCHANGED <<manager, event, recvOn, diMet, receiver, ui>>

SendPortFails(w) ==         \* framing or an IOCTRL fails
  LET k == worker[w].kind
      p == worker[w].port
  IN /\ At(w, "send")
     /\ p \in Ports(k) \intersect Bound[k]
     /\ TryStopPort(k, p)
     /\ \E ret \in {"FAILURE", "TOO_MANY_CHANNEL"} : FailWith(w, ret, "failed")
     /\ UNCHANGED <<manager, event, recvOn, diMet, receiver, ui>>

SendPortCancelled(w) ==
  LET k == worker[w].kind
      p == worker[w].port
  IN /\ At(w, "send")
     /\ p \in Ports(k) \intersect Bound[k]
     /\ Cancelled(StartPolls(k))
     /\ Consume(StartPolls(k))
     /\ TryStopPort(k, p)
     /\ FailWith(w, "CANCEL", "failed")
     /\ UNCHANGED <<manager, recvOn, diMet, receiver, ui>>

AllPortsSent(w) ==          \* SetTested, then StartRecvData
  /\ At(w, "send")
  /\ worker[w].port \notin Ports(worker[w].kind)
  /\ manualResults' = ReleaseResult(manualResults, w)
  /\ recvOn' = TRUE
  /\ Goto(w, "sent")
  /\ UNCHANGED <<criticalFunctionType, curFunctionType, sendStatus,
                 curStateIndex, seqResults, event, portOn, diMet, receiver, ui>>

StartSucceeds(w) ==
  /\ At(w, "sent")
  /\ sendStatus' = [sendStatus EXCEPT ![worker[w].kind] = "SENDING"]
  /\ FinishWorker(w)
  /\ UNCHANGED <<criticalFunctionType, curFunctionType, curStateIndex,
                 manualResults, seqResults, event, device, receiver, ui>>

(* The failure path takes the lock for the function type and sets the      *)
(* status after giving it back.                                            *)
StartFailsUnderLock(w) ==
  LET k == worker[w].kind
  IN /\ At(w, "failed") /\ LockFree
     /\ curFunctionType' = IF TestEnds(k) THEN "UNKNOWN" ELSE curFunctionType
     /\ manualResults' = ReleaseResult(manualResults, w)
     /\ Goto(w, "failedStop")
     /\ UNCHANGED <<criticalFunctionType, sendStatus, curStateIndex,
                    seqResults, event, device, receiver, ui>>

StartFails(w) ==            \* the thread then posts WM_MANUAL_TEST_RESULT
  LET k == worker[w].kind
  IN /\ At(w, "failedStop")
     /\ sendStatus' = [sendStatus EXCEPT ![k] = "STOPPED"]
     /\ ui' = IF worker[w].ret = "TOO_MANY_CHANNEL"
              THEN [ui EXCEPT !.posted = @ \union {k}] ELSE ui
     /\ FinishWorker(w)
     /\ UNCHANGED <<criticalFunctionType, curFunctionType, curStateIndex,
                    manualResults, seqResults, event, device, receiver>>

-----------------------------------------------------------------------------
(* UpateManualTestSMV and UpateManualTestGoose.                            *)
UpdateRejected(w) ==        \* not sending, or no result object
  /\ At(w, "update") /\ LockFree
  /\ FinishWorker(w)
  /\ UNCHANGED <<manager, event, device, receiver, ui>>

UpdateNotSaved(w) ==
  /\ At(w, "update") /\ LockFree
  /\ sendStatus[worker[w].kind] = "SENDING"
  /\ manualResults' = AddManualTestResult(manualResults, NoThread)
  /\ SetHeld(HeldAfterAdd(receiver.held, manualResults))
  /\ FinishWorker(w)
  /\ UNCHANGED <<criticalFunctionType, curFunctionType, sendStatus,
                 curStateIndex, seqResults, event, device, ui>>

UpdateUnchanged(w) ==       \* no value changed: the new object is deleted
  LET added == AddManualTestResult(manualResults, w)
  IN /\ At(w, "update") /\ LockFree
     /\ sendStatus[worker[w].kind] = "SENDING"
     /\ manualResults' = SubSeq(added, 1, Len(added) - 1)
     /\ SetHeld(HeldAfterAdd(receiver.held, manualResults))
     /\ FinishWorker(w)
     /\ UNCHANGED <<criticalFunctionType, curFunctionType, sendStatus,
                    curStateIndex, seqResults, event, device, ui>>

UpdateChanged(w) ==         \* keeps the lock until UpdatePrepares
  /\ At(w, "update") /\ LockFree
  /\ sendStatus[worker[w].kind] = "SENDING"
  /\ criticalFunctionType' = w
  /\ manualResults' = AddManualTestResult(manualResults, w)
  /\ SetHeld(HeldAfterAdd(receiver.held, manualResults))
  /\ Goto(w, "updatePrepare")
  /\ UNCHANGED <<curFunctionType, sendStatus, curStateIndex, seqResults, event,
                 device, ui>>

UpdatePrepares(w) ==
  /\ At(w, "updatePrepare")
  /\ curStateIndex' = curStateIndex + 1
  /\ sendStatus' = [sendStatus EXCEPT ![worker[w].kind] = "PREPARE"]
  /\ criticalFunctionType' = NoThread
  /\ Goto(w, "change")
  /\ UNCHANGED <<curFunctionType, manualResults, seqResults, event, device,
                 receiver, ui>>

(* __UpdateSMVSend and __UpdateGooseSend: the first port that fails ends   *)
(* the update; nothing is stopped.                                         *)
NothingToChange(w) ==
  /\ At(w, "change")
  /\ worker[w].port \in Ports(worker[w].kind) \ Bound[worker[w].kind]
  /\ NextPort(w)
  /\ UNCHANGED <<manager, event, device, receiver, ui>>

ChangePort(w) ==
  LET k == worker[w].kind
  IN /\ At(w, "change")
     /\ worker[w].port \in Ports(k) \intersect Bound[k]
     /\ ~Cancelled(UpdatePolls(k))
     /\ NextPort(w)
     /\ UNCHANGED <<manager, event, device, receiver, ui>>

ChangePortFails(w) ==
  LET k == worker[w].kind
  IN /\ At(w, "change")
     /\ worker[w].port \in Ports(k) \intersect Bound[k]
     /\ FailWith(w, "FAILURE", "changed")
     /\ UNCHANGED <<manager, event, device, receiver, ui>>

ChangePortCancelled(w) ==
  LET k == worker[w].kind
  IN /\ At(w, "change")
     /\ worker[w].port \in Ports(k) \intersect Bound[k]
     /\ Cancelled(UpdatePolls(k))
     /\ Consume(UpdatePolls(k))
     /\ FailWith(w, "CANCEL", "changed")
     /\ UNCHANGED <<manager, device, receiver, ui>>

AllPortsChanged(w) ==
  /\ At(w, "change")
  /\ worker[w].port \notin Ports(worker[w].kind)
  /\ Goto(w, "changed")
  /\ UNCHANGED <<manager, event, device, receiver, ui>>

(* Mutant: the status is set under the mutex, as a start does on failure.   *)
UpdateDoneUnderLock(w) ==
  /\ At(w, "changed") /\ LockFree
  /\ manualResults' = ReleaseResult(manualResults, w)
  /\ sendStatus' = [sendStatus EXCEPT ![worker[w].kind] = "SENDING"]
  /\ FinishWorker(w)
  /\ UNCHANGED <<criticalFunctionType, curFunctionType, curStateIndex,
                 seqResults, event, device, receiver, ui>>

UpdateDone(w) ==            \* SetTested(bRet), and sending again either way
  /\ At(w, "changed")
  /\ manualResults' = ReleaseResult(manualResults, w)
  /\ sendStatus' = [sendStatus EXCEPT ![worker[w].kind] = "SENDING"]
  /\ FinishWorker(w)
  /\ UNCHANGED <<criticalFunctionType, curFunctionType, curStateIndex,
                 seqResults, event, device, receiver, ui>>

-----------------------------------------------------------------------------
(* StopManualTestSMV and StopManualTestGoose, in the UI thread.            *)
UiGoto(pc) == ui' = [ui EXCEPT !.pc = pc]
UiReturn   == ui' = [ui EXCEPT !.pc = "loop", !.todo = Tail(@)]
StopKind   == Head(ui.todo).kind

StopIdle ==                 \* nothing is being framed
  /\ ui.pc = "stop" /\ LockFree
  /\ sendStatus[StopKind] # "PREPARE"
  /\ ui' = [ui EXCEPT !.pc = "stopPorts", !.port = 1]
  /\ UNCHANGED <<manager, event, device, worker, receiver>>

StopCancels ==              \* keeps the lock until StopWaited
  /\ ui.pc = "stop" /\ LockFree
  /\ sendStatus[StopKind] = "PREPARE"
  /\ criticalFunctionType' = UI
  /\ event' = [event EXCEPT ![StopKind] = TRUE]
  /\ UiGoto("stopWait")
  /\ UNCHANGED <<curFunctionType, sendStatus, curStateIndex, manualResults,
                 seqResults, device, worker, receiver>>

(* Mutants: the stop does not wait; it does not take its request back.     *)
FramingGoesOn(k) == TRUE
KeepRequest(e)   == event[e]

FramingEnded(k) == sendStatus[k] # "PREPARE"
ResetEvent(e)   == FALSE

StopWaited ==
  /\ ui.pc = "stopWait"
  /\ FramingEnded(StopKind)
  /\ event' = [event EXCEPT ![StopKind] = ResetEvent(StopKind)]
  /\ criticalFunctionType' = NoThread
  /\ ui' = [ui EXCEPT !.pc = "stopPorts", !.port = 1]
  /\ UNCHANGED <<curFunctionType, sendStatus, curStateIndex, manualResults,
                 seqResults, device, worker, receiver>>

(* __StopSMVSend and __StopGooseSend: || stops at the first port that      *)
(* cannot be stopped, and the later ports are not asked.                   *)
StopPort ==
  /\ ui.pc = "stopPorts"
  /\ ui.port \in Ports(StopKind)
  /\ portOn' = [portOn EXCEPT ![StopKind] = @ \ {ui.port}]
  /\ ui' = [ui EXCEPT !.port = @ + 1]
  /\ UNCHANGED <<manager, event, recvOn, diMet, worker, receiver>>

(* Mutant: the ports after the failing one are stopped, and so is the test.*)
StopPortPasses ==
  /\ ui.pc = "stopPorts"
  /\ ui.port \in Ports(StopKind)
  /\ ui' = [ui EXCEPT !.port = @ + 1]
  /\ UNCHANGED <<manager, event, device, worker, receiver>>

StopPortFails ==
  /\ ui.pc = "stopPorts"
  /\ ui.port \in Ports(StopKind)
  /\ UiReturn
  /\ UNCHANGED <<manager, event, device, worker, receiver>>

StopUnderLock ==
  /\ ui.pc = "stopPorts" /\ LockFree
  /\ ui.port \notin Ports(StopKind)
  /\ IF TestEnds(StopKind)
     THEN recvOn' = FALSE /\ curFunctionType' = "UNKNOWN"
     ELSE UNCHANGED <<recvOn, curFunctionType>>
  /\ UiGoto("stopped")
  /\ UNCHANGED <<criticalFunctionType, sendStatus, curStateIndex,
                 manualResults, seqResults, event, portOn, diMet, worker,
                 receiver>>

StopDone ==
  /\ ui.pc = "stopped"
  /\ sendStatus' = [sendStatus EXCEPT ![StopKind] = "STOPPED"]
  /\ UiReturn
  /\ UNCHANGED <<criticalFunctionType, curFunctionType, curStateIndex,
                 manualResults, seqResults, event, device, worker, receiver>>

-----------------------------------------------------------------------------
(* The handlers as a whole.                                                *)
StartStep(w) ==
  \/ StartRejected(w) \/ StartWithoutResult(w) \/ StartNotSaved(w)
  \/ StartAccepted(w)
  \/ NothingToSend(w) \/ NotSampled(w)
  \/ SendPort(w) \/ SendPortFails(w) \/ SendPortCancelled(w)
  \/ AllPortsSent(w) \/ StartSucceeds(w)
  \/ StartFailsUnderLock(w) \/ StartFails(w)

UpdateStep(w) ==
  \/ UpdateRejected(w) \/ UpdateNotSaved(w) \/ UpdateUnchanged(w)
  \/ UpdateChanged(w) \/ UpdatePrepares(w)
  \/ NothingToChange(w) \/ ChangePort(w) \/ ChangePortFails(w) \/ ChangePortCancelled(w)
  \/ AllPortsChanged(w) \/ UpdateDone(w)

StopStep ==
  \/ StopIdle \/ StopCancels \/ StopWaited
  \/ StopPort \/ StopPortFails \/ StopUnderLock \/ StopDone

StartManualTestSMV(w)   == worker[w].kind = "SMV" /\ StartStep(w)
StartManualTestGoose(w) == worker[w].kind = "GOOSE" /\ StartStep(w)
UpateManualTestSMV(w)   == worker[w].kind = "SMV" /\ UpdateStep(w)
UpateManualTestGoose(w) == worker[w].kind = "GOOSE" /\ UpdateStep(w)
=============================================================================
