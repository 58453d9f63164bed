--------------------------- MODULE StateSequence ---------------------------
(***************************************************************************)
(* CFrameSend's state sequence test: one worker thread prepares the frames *)
(* of every state, sends the states one after the other and waits between  *)
(* them for a time, for the received DI values or for the user.            *)
(***************************************************************************)
EXTENDS ManualTest

SwitchType == {"TIME", "DI", "MANUALLY"}

ReturnWith(w, ret) == FailWith(w, ret, "exit")
ToState(w, i) == worker' = [worker EXCEPT ![w] = [@ EXCEPT !.pc = "state", !.state = i]]

(* The auto-reset event m_eventCancelStateSequence is set: Lock(0) takes   *)
(* it.                                                                     *)
SequenceCancelled == event["STATE_SEQUENCE"]

TakeCancel(w) ==
  /\ event' = [event EXCEPT !["STATE_SEQUENCE"] = FALSE]
  /\ ReturnWith(w, "CANCEL")
  /\ UNCHANGED <<manager, device, receiver, ui>>

-----------------------------------------------------------------------------
(* Mutant: only the manual test is looked at.                              *)
NoManualTest == curFunctionType # "MANUAL_TEST"

NoTest == curFunctionType = "UNKNOWN"

SequenceRejected(w) ==      \* another test runs
  /\ At(w, "sequence") /\ LockFree
  /\ ~NoTest
  /\ FailWith(w, "FAILURE", "post")
  /\ UNCHANGED <<manager, event, device, receiver, ui>>

SequenceAccepted(w) ==
  /\ At(w, "sequence") /\ LockFree
  /\ NoTest
  /\ curFunctionType' = "STATE_SEQUENCE"
  /\ Goto(w, "clear")
  /\ UNCHANGED <<criticalFunctionType, sendStatus, curStateIndex,
                 manualResults, seqResults, event, device, receiver, ui>>

(* ClearAllStateSequenceResult, without the lock, and the distribution of  *)
(* the control blocks, which may fail.                                     *)
ClearSequenceResults(w) ==
  /\ At(w, "clear")
  /\ seqResults' = 0
  /\ receiver' = IF receiver.seen = "STATE_SEQUENCE"
                 THEN [receiver EXCEPT !.held = HeldAfterClear(@)]
                 ELSE receiver
  /\ \/ Goto(w, "prepare")
     \/ ReturnWith(w, "FAILURE")
  /\ UNCHANGED <<criticalFunctionType, curFunctionType, sendStatus,
                 curStateIndex, manualResults, event, device, ui>>

-----------------------------------------------------------------------------
(* The frames of state worker[w].state are prepared ahead.  SMV frames     *)
(* equal to an earlier state's are copied; GOOSE frames are made again     *)
(* only when a DO changed: so both polls may be skipped after state 0.     *)
PrepareCancelled(w) ==
  /\ At(w, "prepare") /\ worker[w].state < StateCount
  /\ SequenceCancelled
  /\ TakeCancel(w)

FrameState(w) ==
  /\ At(w, "prepare") /\ worker[w].state < StateCount
  /\ ~SequenceCancelled
  /\ Goto(w, "frame")
  /\ UNCHANGED <<manager, event, device, receiver, ui>>

PrepareState(w) ==
  LET i == worker[w].state
  IN /\ At(w, "frame")
     /\ i = 0 => \A k \in Kind : Bound[k] # {} => ~event[k]
     /\ seqResults' = seqResults + 1
     /\ worker' = [worker EXCEPT ![w].pc = "prepare", ![w].state = i + 1]
     /\ UNCHANGED <<criticalFunctionType, curFunctionType, sendStatus,
                    curStateIndex, manualResults, event, device, receiver, ui>>

FramingCancelled(w) ==
  /\ At(w, "frame")
  /\ \E k \in Kind :
       /\ Bound[k] # {} /\ event[k]
       /\ event' = [event EXCEPT ![k] = FALSE]
  /\ seqResults' = seqResults + 1
  /\ ReturnWith(w, "CANCEL")
  /\ UNCHANGED <<criticalFunctionType, curFunctionType, sendStatus,
                 curStateIndex, manualResults, device, receiver, ui>>

PrepareFails(w) ==
  /\ At(w, "frame")
  /\ seqResults' \in {seqResults, seqResults + 1}
  /\ \E ret \in {"FAILURE", "TOO_MANY_CHANNEL"} : ReturnWith(w, ret)
  /\ UNCHANGED <<criticalFunctionType, curFunctionType, sendStatus,
                 curStateIndex, manualResults, event, device, receiver, ui>>

(* Mutant: the last state is left out.                                     *)
PreparedButOne(w) == worker[w].state >= StateCount - 1
Prepared(w)       == worker[w].state = StateCount

AllPrepared(w) ==           \* StartRecvData, then the first state
  /\ At(w, "prepare") /\ Prepared(w)
  /\ recvOn' = TRUE
  /\ ToState(w, 0)
  /\ UNCHANGED <<manager, event, portOn, diMet, receiver, ui>>

-----------------------------------------------------------------------------
StateCancelled(w) ==
  /\ At(w, "state") /\ worker[w].state < StateCount
  /\ SequenceCancelled
  /\ TakeCancel(w)

(* State 0 starts the ports, SMV before GOOSE, the others change what the  *)
(* ports send.                                                             *)
SendState0(w) ==
  /\ At(w, "state") /\ worker[w].state = 0
  /\ ~SequenceCancelled
  /\ portOn' = [k \in Kind |-> portOn[k] \union (Bound[k] \intersect Ports(k))]
  /\ Goto(w, "tested")
  /\ UNCHANGED <<manager, event, recvOn, diMet, receiver, ui>>

UpdateState(w) ==
  /\ At(w, "state") /\ worker[w].state \in 1 .. StateCount - 1
  /\ ~SequenceCancelled
  /\ Goto(w, "tested")
  /\ UNCHANGED <<manager, event, device, receiver, ui>>

(* A port that cannot send or change ends the loop with a plain break:     *)
(* eRet is still ERROR_CODE_SUCCESS.                                       *)
SendStateFails(w) ==
  /\ At(w, "state") /\ worker[w].state < StateCount
  /\ ~SequenceCancelled
  /\ IF worker[w].state > 0 THEN UNCHANGED portOn
     ELSE \E k \in Kind : \E p \in Bound[k] \intersect Ports(k) :
            portOn' = [portOn EXCEPT
              !["SMV"]   = @ \union {q \in Bound["SMV"] \intersect Ports("SMV") :
                                       k = "GOOSE" \/ q < p},
              !["GOOSE"] = @ \union {q \in Bound["GOOSE"] \intersect Ports("GOOSE") :
                                       k = "GOOSE" /\ q < p}]
  /\ ReturnWith(w, "SUCCESS")
  /\ UNCHANGED <<manager, event, recvOn, diMet, receiver, ui>>

(* Mutant: the index others read is left behind.                           *)
StateSentUnseen(w) ==
  /\ At(w, "tested")
  /\ \E type \in SwitchType :
       Goto(w, CASE type = "TIME" -> "waitTime"
                 [] type = "DI"   -> "waitDI"
                 [] OTHER         -> "ask")
  /\ UNCHANGED <<manager, event, device, receiver, ui>>

(* SetTested and __SetCurStateIndex, then the wait the state asks for.     *)
StateSent(w) ==
  /\ At(w, "tested")
  /\ curStateIndex' = worker[w].state
  /\ \E type \in SwitchType :
       Goto(w, CASE type = "TIME" -> "waitTime"
                 [] type = "DI"   -> "waitDI"
                 [] OTHER         -> "ask")
  /\ UNCHANGED <<criticalFunctionType, curFunctionType, sendStatus,
                 manualResults, seqResults, event, device, receiver, ui>>

NextState(w) == ToState(w, worker[w].state + 1)

(* CHardwareTimer::Wait: the timer, the cancel event or the timeout.       *)
TimerExpires(w) ==
  /\ At(w, "waitTime")
  /\ NextState(w)
  /\ UNCHANGED <<manager, event, device, receiver, ui>>

TimerCancelled(w) ==
  /\ At(w, "waitTime") /\ SequenceCancelled
  /\ TakeCancel(w)

TimerTimesOut(w) ==         \* also IOCTL_TMR_SETPERIOD failing
  /\ At(w, "waitTime")
  /\ ReturnWith(w, "CANCEL")
  /\ UNCHANGED <<manager, event, device, receiver, ui>>

(* The DI loop polls the cancel event before each DI value.                *)
DIMet(w) ==
  /\ At(w, "waitDI") /\ diMet
  /\ ~SequenceCancelled
  /\ NextState(w)
  /\ UNCHANGED <<manager, event, device, receiver, ui>>

DICancelled(w) ==
  /\ At(w, "waitDI") /\ SequenceCancelled
  /\ TakeCancel(w)

(* SendMessage(WM_WHETHER_SWITCH) returns when the user confirmed: see     *)
(* OnWhetherSwitch and ConfirmSwitch in UserInterface.                     *)
UserSwitched(w) ==
  /\ At(w, "answered")
  /\ NextState(w)
  /\ UNCHANGED <<manager, event, device, receiver, ui>>

AllStatesSent(w) ==
  /\ At(w, "state") /\ worker[w].state = StateCount
  /\ Goto(w, "exit")
  /\ UNCHANGED <<manager, event, device, receiver, ui>>

-----------------------------------------------------------------------------
(* ExitHandle: the function type is given back only if every port stopped. *)
ExitStopRecv(w) ==
  /\ At(w, "exit")
  /\ recvOn' = FALSE
  /\ Goto(w, "exitPorts")
  /\ UNCHANGED <<manager, event, portOn, diMet, receiver, ui>>

ExitStopPorts(w) ==
  /\ At(w, "exitPorts")
  /\ portOn' = [k \in Kind |-> portOn[k] \ Ports(k)]
  /\ curFunctionType' = "UNKNOWN"
  /\ Goto(w, "post")
  /\ UNCHANGED <<criticalFunctionType, sendStatus, curStateIndex,
                 manualResults, seqResults, event, recvOn, diMet, receiver, ui>>

(* Mutant: the function type is given back although a port still sends.    *)
ExitPortForgotten(w) ==
  /\ At(w, "exitPorts")
  /\ \E k \in Kind : \E p \in Ports(k) :
       portOn' = [portOn EXCEPT
         !["SMV"]   = {q \in @ : k = "SMV" /\ q >= p},
         !["GOOSE"] = {q \in @ : k = "SMV" \/ q >= p}]
  /\ curFunctionType' = "UNKNOWN"
  /\ Goto(w, "post")
  /\ UNCHANGED <<criticalFunctionType, sendStatus, curStateIndex,
                 manualResults, seqResults, event, recvOn, diMet, receiver, ui>>

ExitPortFails(w) ==
  /\ At(w, "exitPorts")
  /\ \E k \in Kind : \E p \in Ports(k) :
       portOn' = [portOn EXCEPT
         !["SMV"]   = {q \in @ : k = "SMV" /\ q >= p},
         !["GOOSE"] = {q \in @ : k = "SMV" \/ q >= p}]
  /\ Goto(w, "post")
  /\ UNCHANGED <<manager, event, recvOn, diMet, receiver, ui>>

PostSequenceResult(w) ==    \* WM_STATUS_SEQUENCE_RESULT
  /\ At(w, "post")
  /\ ui' = [ui EXCEPT !.posted = @ \union {"STATE_SEQUENCE"}]
  /\ FinishWorker(w)
  /\ UNCHANGED <<manager, event, device, receiver>>

-----------------------------------------------------------------------------
(* StopStateSequenceTest, in the UI thread: it reads the function type     *)
(* without the lock and pumps messages while it waits.                     *)
StopSequenceChecks ==
  /\ ui.pc = "stopSequence"
  /\ IF curFunctionType = "STATE_SEQUENCE" THEN UiGoto("setEvents") ELSE UiReturn
  /\ UNCHANGED <<manager, event, device, worker, receiver>>

(* Mutant: only the framing of SMV is cancelled.                           *)
StopSequenceCancelsFraming ==
  /\ ui.pc = "setEvents"
  /\ event' = [event EXCEPT !["SMV"] = TRUE]
  /\ UiGoto("pump")
  /\ UNCHANGED <<manager, device, worker, receiver>>

StopSequenceCancels ==
  /\ ui.pc = "setEvents"
  /\ event' = [event EXCEPT !["STATE_SEQUENCE"] = TRUE, !["SMV"] = TRUE]
  /\ UiGoto("pump")
  /\ UNCHANGED <<manager, device, worker, receiver>>

StopSequenceWaited ==
  /\ ui.pc = "pump" /\ ~ui.asking
  /\ curFunctionType # "STATE_SEQUENCE"
  /\ event' = [event EXCEPT !["STATE_SEQUENCE"] = ResetEvent("STATE_SEQUENCE"),
                            !["SMV"] = ResetEvent("SMV")]
  /\ UiReturn
  /\ UNCHANGED <<manager, device, worker, receiver>>

StopStateSequenceTest ==
  StopSequenceChecks \/ StopSequenceCancels \/ StopSequenceWaited

StartStateSequenceTest(w) ==
  \/ SequenceRejected(w) \/ SequenceAccepted(w) \/ ClearSequenceResults(w)
  \/ PrepareCancelled(w) \/ FrameState(w) \/ PrepareState(w)
  \/ FramingCancelled(w) \/ PrepareFails(w) \/ AllPrepared(w)
  \/ StateCancelled(w) \/ SendState0(w) \/ UpdateState(w)
  \/ SendStateFails(w) \/ StateSent(w)
  \/ TimerExpires(w) \/ TimerCancelled(w) \/ TimerTimesOut(w)
  \/ DIMet(w) \/ DICancelled(w) \/ UserSwitched(w) \/ AllStatesSent(w)
  \/ ExitStopRecv(w) \/ ExitStopPorts(w) \/ ExitPortFails(w)
  \/ PostSequenceResult(w)
=============================================================================
