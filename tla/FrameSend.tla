----------------------------- MODULE FrameSend -----------------------------
(***************************************************************************)
(* The send manager with the threads around it: the UI thread, the worker  *)
(* threads of the manual test and of the state sequence, and the receiver. *)
(***************************************************************************)
EXTENDS UserInterface, GooseReceive

Init ==
  /\ criticalFunctionType = NoThread
  /\ curFunctionType = "UNKNOWN"
  /\ sendStatus = [k \in Kind |-> "STOPPED"]
  /\ curStateIndex = -1
  /\ manualResults = <<>>
  /\ seqResults = 0
  /\ event = [e \in Event |-> FALSE]
  /\ portOn = [k \in Kind |-> {}]
  /\ recvOn = FALSE
  /\ diMet = FALSE
  /\ worker = [w \in Workers |-> IdleWorker]
  /\ receiver = IdleReceiver
  /\ UiInit

WorkerStep(w) ==
  \/ StartManualTestSMV(w) \/ StartManualTestGoose(w)
  \/ UpateManualTestSMV(w) \/ UpateManualTestGoose(w)
  \/ StartStateSequenceTest(w)

Next ==
  \/ UiStep
  \/ StopStep
  \/ StopStateSequenceTest
  \/ \E w \in Workers : WorkerStep(w)
  \/ ReceiveStep

Spec == Init /\ [][Next]_vars

(* Threads that can run do run; the calls the UI thread makes return when  *)
(* they can.  A user who is asked whether to switch answers; the user's    *)
(* keys and the network are not fair.                                      *)
UiRuns ==
  \/ \E w \in Workers : Spawn(w)
  \/ WakeUp \/ CallStop \/ StopStep \/ StopStateSequenceTest

Fairness ==
  /\ WF_vars(UiRuns)
  /\ \A w \in Workers : SF_vars(WorkerStep(w))
  /\ WF_vars(\E w \in Workers : OnWhetherSwitch(w) \/ ConfirmSwitch(w))

FairSpec == Spec /\ Fairness

(* Devices repeat their GOOSE frames, changed or not, and a frame has      *)
(* finitely many channels.                                                 *)
ReceiveFairSpec == FairSpec /\ WF_vars(ReceiveStep) /\ SF_vars(NoValueChanged)

-----------------------------------------------------------------------------
WorkerPc == {"idle", "start", "send", "sent", "failed", "failedStop",
             "update", "updatePrepare", "change", "changed",
             "sequence", "clear", "prepare", "frame", "state", "tested",
             "waitTime", "waitDI", "ask", "asked", "answered", "exit", "exitPorts", "post"}
UiPc == {"loop", "sleep", "stop", "stopWait", "stopPorts", "stopped",
         "stopSequence", "setEvents", "pump"}

(* The values the fields of CFrameSend, of the threads and of the dialogs  *)
(* may have.                                                               *)
ManagerTypeOK ==
  /\ criticalFunctionType \in Workers \union {UI, NoThread}
  /\ curFunctionType \in FunctionType
  /\ sendStatus \in [Kind -> SendStatus]
  /\ curStateIndex \in Nat \union {-1}
  /\ manualResults \in Seq(Workers \union {NoThread})
  /\ Len(manualResults) <= MaxResults
  /\ seqResults \in Nat

DeviceTypeOK ==
  /\ event \in [Event -> BOOLEAN]
  /\ portOn \in [Kind -> SUBSET Nat]
  /\ recvOn \in BOOLEAN /\ diMet \in BOOLEAN

WorkerTypeOK ==
  worker \in [Workers -> [pc : WorkerPc, kind : Kind, port : Nat, state : Nat,
                          ret : ErrorCode]]

ReceiverTypeOK ==
  receiver \in [pc : {"idle", "stop", "find", "save"},
                seen : FunctionType, held : Nat \union {Freed}]

UiTypeOK ==
  ui \in [pc : UiPc, port : Nat, todo : Seq([op : Operation, kind : Kind]),
          page : Dialogs, mode : {"APART", "TOGETHER"},
          sending : SUBSET Kind, testing : BOOLEAN, asking : BOOLEAN,
          posted : SUBSET Event, spawned : Workers \union {NoThread}]

(* While a call runs, ui.todo starts with it.                              *)
CallPending == ui.pc # "loop" => ui.todo # <<>>

TypeOK == ManagerTypeOK /\ DeviceTypeOK /\ WorkerTypeOK /\ ReceiverTypeOK /\ UiTypeOK

-----------------------------------------------------------------------------
(* The steps in which a worker prepares the frames of a manual test.       *)
Preparing == {"send", "sent", "failed", "failedStop", "change", "changed"}
Framers(k) == {w \in Workers : worker[w].kind = k /\ worker[w].pc \in Preparing}

(* Between accepting a state sequence and giving the function type back.   *)
InSequence == {"clear", "prepare", "frame", "state", "tested", "waitTime",
               "waitDI", "ask", "asked", "answered", "exit", "exitPorts"}
Sequencers == {w \in Workers : worker[w].pc \in InSequence}

AtRest == UiFree /\ ui.posted = {} /\ \A w \in Workers : At(w, "idle")

(* Two threads never prepare frames of the same kind at once: they share   *)
(* the sample buffers and the ports.  And the kind is PREPARE exactly      *)
(* while one does, which is what the stops wait for.                       *)
OneFramer == \A k \in Kind :
  /\ sendStatus[k] = "PREPARE" <=> Framers(k) # {}
  /\ \A v, w \in Framers(k) : v = w

(* While a thread frames a manual test, the function type says so: a state *)
(* sequence, which uses the same ports, cannot begin.                      *)
FramingIsManualTest == \A w \in Workers :
  worker[w].pc \in {"send", "change"} => curFunctionType = "MANUAL_TEST"

(* A request to cancel does not outlive the stop that made it: left over,  *)
(* it would cancel the user's next test.                                   *)
RequestsWithdrawn ==
  /\ \A k \in Kind : event[k] => ui.pc \in {"stopWait", "pump"}
  /\ event["STATE_SEQUENCE"] => ui.pc = "pump"

(* A stop that reports success leaves no port of the kind transmitting,    *)
(* although it stops the ports without the mutex.                          *)
StoppedIsQuiet ==
  ui.pc = "stopped" => portOn[StopKind] \intersect Ports(StopKind) = {}

(* What is being sent belongs to a manual test in progress, which no state *)
(* sequence can interrupt, except while the stop of that kind finishes.    *)
SentInTest == \A k \in Kind :
  sendStatus[k] = "SENDING" =>
    \/ curFunctionType = "MANUAL_TEST"
    \/ ui.pc = "stopped" /\ StopKind = k

(* Seen as who prepares which kind, the manager is a ManualSession.        *)
Single(S) == IF S = {} THEN NoThread ELSE CHOOSE w \in S : TRUE
Framer(k) == Single(Framers(k))

Session == INSTANCE ManualSession WITH
             status <- sendStatus, framer <- [k \in Kind |-> Framer(k)]

ImplementsSession == Session!Spec

(* A stop during an update returns: an update needs no mutex once it       *)
(* prepares.                                                               *)
StopDuringUpdateReturns ==
  \A w \in Workers :
    (ui.pc = "stopWait" /\ worker[w].kind = StopKind
                       /\ worker[w].pc \in {"change", "changed"})
      ~> (ui.pc # "stopWait")

-----------------------------------------------------------------------------
(* One state sequence at a time, and the function type is its own from the *)
(* acceptance to the end, as long as the user has no manual test to stop.  *)
SequenceExclusive ==
  Sequencers # {} =>
    /\ curFunctionType = "STATE_SEQUENCE"
    /\ \A v, w \in Sequencers : v = w

(* While states are sent, the results of all of them exist: the index the  *)
(* receiver reads is never outside the vector.                             *)
AllStatesHaveResults == \A w \in Workers :
  worker[w].pc \in {"tested", "waitTime", "waitDI", "ask", "asked", "answered"}
    => seqResults = StateCount /\ worker[w].state < seqResults

(* Without a test nothing transmits and nothing is received: a sequence    *)
(* gives the function type back last.                                      *)
NoTestIsQuiet ==
  curFunctionType = "UNKNOWN" =>
    ~recvOn /\ \A k \in Kind : portOn[k] \intersect Ports(k) = {}

(* Seen from the one thread in the middle of it, a state sequence is a     *)
(* SequenceSession, whatever is cancelled, fails or times out and whenever *)
(* the receiver reads the index (FrameSend.cpp:1223-1700).                 *)
PhaseAt(pc) == CASE pc = "clear"                  -> "begun"
                 [] pc \in {"prepare", "frame"}   -> "preparing"
                 [] pc \in {"exit", "exitPorts"}  -> "ending"
                 [] OTHER                         -> "sending"

Phase == IF curFunctionType # "STATE_SEQUENCE" THEN "none"
         ELSE IF Sequencers = {} THEN "left"
         ELSE PhaseAt(worker[Single(Sequencers)].pc)

SentAt(w)  == IF w.pc = "state" THEN w.state ELSE w.state + 1
StatesSent == IF Phase = "sending" THEN SentAt(worker[Single(Sequencers)]) ELSE 0

Transmitting == \E k \in Kind : portOn[k] \intersect Ports(k) # {}

Sequence == INSTANCE SequenceSession WITH
              phase <- Phase, results <- seqResults, sent <- StatesSent,
              current <- curStateIndex, receiving <- recvOn, on <- Transmitting

ImplementsSequence == Sequence!Spec

(* The stop of a sequence returns, whatever the sequence waits for, unless *)
(* the sequence ended with a port that could not be stopped.               *)
StopSequenceReturns ==
  ui.pc = "pump" ~>
    ui.pc = "loop" \/ (curFunctionType = "STATE_SEQUENCE" /\ Sequencers = {})

(* When no test runs and frames keep arriving, reception ends, or a test   *)
(* begins.                                                                 *)
ReceptionEnds ==
  (curFunctionType = "UNKNOWN" /\ recvOn) ~> (~recvOn \/ curFunctionType # "UNKNOWN")

-----------------------------------------------------------------------------
(* What comments of the code say and the code does not do.                 *)

(* FrameSend.cpp:2314: a stop during framing cancels the framing and waits *)
(* for it to end.                                                          *)
StopReturns == ui.pc = "stopWait" ~> ui.pc # "stopWait"

(* FrameSend.cpp:2184: when both kinds rest, no manual test is in progress.*)
TestOver ==
  AtRest /\ (\A k \in Kind : sendStatus[k] = "STOPPED")
    => curFunctionType # "MANUAL_TEST"

(* FrameSend.cpp:2034: the mutex keeps the receiver's result object safe   *)
(* from updates.                                                           *)
FiledInLiveObject == receiver.pc = "save" => receiver.held # Freed
=============================================================================
