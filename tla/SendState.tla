----------------------------- MODULE SendState -----------------------------
(***************************************************************************)
(* The state of the send manager CFrameSend (service/datalayer/send) and   *)
(* of the three kinds of thread that touch it: the UI thread, the worker   *)
(* threads CDsmDataLayer starts with AfxBeginThread, and the thread that   *)
(* handles received GOOSE frames.  The handlers are in ManualTest,         *)
(* StateSequence and UserInterface; FrameSend composes them.               *)
(***************************************************************************)
EXTENDS Integers, Sequences, FiniteSets

CONSTANTS
  Workers,      (* worker threads that may be alive at the same time        *)
  UI,           (* the UI thread                                            *)
  NoThread,     (* nobody: no owner, no user, no running worker             *)
  PortCount,    (* [Kind -> Nat]: send ports of a kind, in the order in     *)
                (* which the code visits them                               *)
  Bound,        (* [Kind -> SUBSET Nat]: ports with control blocks bound    *)
  MaxResults,   (* MAX_TEST_RESULT_COUNT                                    *)
  MaxIndex,     (* bound on m_iCurStateIndex: limits the number of tests    *)
  StateCount,   (* states of the configured state sequence                  *)
  SpawnWaits,   (* the Sleep(100) after ResumeThread outlasts the first     *)
                (* critical section of the new thread                       *)
  Dialogs,      (* the test dialogs the user opens                          *)
  FramesArrive  (* the devices under test send GOOSE frames                 *)

Kind == {"SMV", "GOOSE"}
OtherKind(k) == IF k = "SMV" THEN "GOOSE" ELSE "SMV"
Ports(k) == 1 .. PortCount[k]

ASSUME SendAssumption ==
  /\ UI \notin Workers /\ NoThread \notin Workers /\ UI # NoThread
  /\ PortCount \in [Kind -> Nat]
  /\ Bound \in [Kind -> SUBSET Nat]
  /\ MaxResults \in Nat \ {0}
  /\ MaxIndex \in Nat
  /\ StateCount \in Nat \ {0}
  /\ SpawnWaits \in BOOLEAN
  /\ Dialogs \subseteq {"manual", "sequence"} /\ Dialogs # {}
  /\ FramesArrive \in BOOLEAN

VARIABLES
  criticalFunctionType, (* owner of the mutex, or NoThread                  *)
  curFunctionType,      (* m_eCurFunctionType                               *)
  sendStatus,           (* m_eManualTestSMVSendStatus, ...GooseSendStatus   *)
  curStateIndex,        (* m_iCurStateIndex                                 *)
  manualResults,        (* m_vecManualTestResult: for each result object    *)
                        (* the worker that still fills it, or NoThread      *)
  seqResults,           (* size of m_vecStateSequenceResult                 *)
  event,                (* the auto-reset cancel events                     *)
  portOn,               (* ports whose hardware is transmitting, by kind    *)
  recvOn,               (* GOOSE reception is running                       *)
  diMet,                (* the received DI values meet the switch condition *)
  worker,               (* each worker thread: where it is in its handler   *)
  receiver,             (* the thread that handles a received GOOSE frame   *)
  ui                    (* the UI thread and the two dialogs                *)

manager == <<criticalFunctionType, curFunctionType, sendStatus, curStateIndex,
             manualResults, seqResults>>
device  == <<portOn, recvOn, diMet>>
vars    == <<manager, event, device, worker, receiver, ui>>

FunctionType == {"UNKNOWN", "MANUAL_TEST", "STATE_SEQUENCE"}
SendStatus   == {"STOPPED", "PREPARE", "SENDING"}
Event        == Kind \union {"STATE_SEQUENCE"}
ErrorCode    == {"SUCCESS", "FAILURE", "CANCEL", "TOO_MANY_CHANNEL"}

-----------------------------------------------------------------------------
(* The mutex: a thread other than the owner waits.                         *)
LockFree == criticalFunctionType = NoThread

(* A receiver that keeps a pointer to a result object which was deleted.   *)
Freed == -1

(* Results are deleted from under the receiver: held is the position of    *)
(* the object it still points to (0: none).                                *)
HeldAfterClear(held) == IF held = 0 THEN 0 ELSE Freed
HeldAfterEvict(held) == IF held = 1 THEN Freed
                        ELSE IF held > 1 THEN held - 1 ELSE held

(* Mutant: the oldest object stays.                                        *)
AddWithoutLimit(results, w) == Append(results, w)

(* __AddManualTestResult: at the limit the oldest object makes room.       *)
AddManualTestResult(results, w) ==
  IF Len(results) >= MaxResults THEN Append(Tail(results), w)
                                ELSE Append(results, w)
HeldAfterAdd(held, results) ==
  IF Len(results) >= MaxResults THEN HeldAfterEvict(held) ELSE held

(* The worker is done with its result object, if that still exists.        *)
ReleaseResult(results, w) ==
  [i \in DOMAIN results |-> IF results[i] = w THEN NoThread ELSE results[i]]

(* Worker w moves to step s of its handler.                                *)
At(w, s)   == worker[w].pc = s
Goto(w, s) == worker' = [worker EXCEPT ![w].pc = s]

-----------------------------------------------------------------------------
(* One port's part of the start loops, in the port order of the code.  The *)
(* polls a start of kind k makes: framing a GOOSE control block polls the  *)
(* GOOSE event, but SendGooseCbs then polls the SMV event before it sends. *)
StartPolls(k)  == IF k = "SMV" THEN <<"SMV">> ELSE <<"GOOSE", "SMV">>
UpdatePolls(k) == <<k>>

(* The first set event of a sequence of polls, and the events after the    *)
(* successful Lock(0) reset it.                                            *)
Cancelled(polls) == \E i \in DOMAIN polls : event[polls[i]]
FirstSet(polls) ==
  polls[CHOOSE i \in DOMAIN polls :
          event[polls[i]] /\ \A j \in 1 .. i - 1 : ~event[polls[j]]]
Consume(polls) == event' = [event EXCEPT ![FirstSet(polls)] = FALSE]

(* IOCTRL_STOP_SEND on port p may fail, and then the port keeps sending.   *)
TryStopPort(k, p) ==
  \/ portOn' = [portOn EXCEPT ![k] = @ \ {p}]
  \/ UNCHANGED portOn
=============================================================================
