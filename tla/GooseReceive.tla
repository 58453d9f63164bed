---------------------------- MODULE GooseReceive ----------------------------
(***************************************************************************)
(* The thread that handles a received GOOSE frame for the tests            *)
(* (CParamConfigGOOSERecv): it reads the function type and the result      *)
(* object to file a changed DI value in, each without holding a lock over  *)
(* the use.                                                                *)
(***************************************************************************)
EXTENDS SendState

IdleReceiver == [pc |-> "idle", seen |-> "UNKNOWN", held |-> 0]

(* Mutant: the frame is handled whether a test runs or not.                *)
FrameHandled ==
  /\ FramesArrive /\ recvOn
  /\ receiver.pc = "idle"
  /\ receiver' = [IdleReceiver EXCEPT !.pc = "find", !.seen = curFunctionType]
  /\ UNCHANGED <<manager, event, device, worker, ui>>

FrameReceived ==            \* GetCurFunctionType
  /\ FramesArrive /\ recvOn
  /\ receiver.pc = "idle"
  /\ receiver' = [IdleReceiver EXCEPT
       !.pc = IF curFunctionType = "UNKNOWN" THEN "stop" ELSE "find",
       !.seen = curFunctionType]
  /\ UNCHANGED <<manager, event, device, worker, ui>>

ReceptionStopped ==         \* no test runs: StopRecvData
  /\ receiver.pc = "stop"
  /\ recvOn' = FALSE
  /\ receiver' = IdleReceiver
  /\ UNCHANGED <<manager, event, portOn, diMet, worker, ui>>

(* LastManualTestResult takes the lock to read the pointer.                *)
FindManualResult ==
  /\ receiver.pc = "find" /\ receiver.seen = "MANUAL_TEST"
  /\ LockFree
  /\ receiver' = [receiver EXCEPT !.pc = "save", !.held = Len(manualResults)]
  /\ UNCHANGED <<manager, event, device, worker, ui>>

(* GetStateSequenceResult(GetCurStateIndex()): an index outside the vector *)
(* (-1 becomes a large unsigned) gives no object.                          *)
FindSequenceResult ==
  /\ receiver.pc = "find" /\ receiver.seen = "STATE_SEQUENCE"
  /\ receiver' = [receiver EXCEPT
       !.pc = "save",
       !.held = IF curStateIndex \in 0 .. seqResults - 1
                THEN curStateIndex + 1 ELSE 0]
  /\ UNCHANGED <<manager, event, device, worker, ui>>

(* SaveRecvValue into the object, the new real time value, and the next    *)
(* changed channel of the frame, if there is one.                          *)
SaveValue ==
  /\ receiver.pc = "save"
  /\ diMet' \in BOOLEAN
  /\ \/ receiver' = IdleReceiver
     \/ receiver' = [receiver EXCEPT !.pc = "find", !.held = 0]
  /\ UNCHANGED <<manager, event, portOn, recvOn, worker, ui>>

NoValueChanged ==
  /\ receiver.pc = "find"
  /\ receiver' = IdleReceiver
  /\ UNCHANGED <<manager, event, device, worker, ui>>

ReceiveStep ==
  \/ FrameReceived \/ ReceptionStopped
  \/ FindManualResult \/ FindSequenceResult \/ SaveValue \/ NoValueChanged
=============================================================================
