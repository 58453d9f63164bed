---------------------------- MODULE OpticalPower ----------------------------
(***************************************************************************)
(* COpticalPowerManager (service/datalayer/OpticalPower): a gather thread  *)
(* refreshes the optical power of the ports while the light power page is  *)
(* shown.  The page starts and stops it, and resets the statistics, in the *)
(* UI thread; only the thread's own check of m_bIsGathering takes the lock.*)
(***************************************************************************)
EXTENDS Naturals

CONSTANTS
  Gatherers,    (* gather threads that may be alive at the same time        *)
  Resettable,   (* the build has the reset key (SU_FEI)                     *)
  BeginFails    (* AfxBeginThread may fail                                  *)

ASSUME OpticalAssumption == Resettable \in BOOLEAN /\ BeginFails \in BOOLEAN

VARIABLES
  isGathering,  (* m_bIsGathering                                           *)
  stopEvent,    (* m_eventStopGather, auto-reset                            *)
  thread,       (* where each gather thread is                              *)
  page,         (* the light power page is shown                            *)
  ui,           (* where the UI thread is                                   *)
  wasGathering  (* bIsGathering of Reset; FALSE outside                     *)

vars == <<isGathering, stopEvent, thread, page, ui, wasGathering>>

ThreadPc == {"none", "begin", "wait", "refresh", "exit"}
UiPc     == {"loop", "start", "reset", "stop", "stopEvent", "stopWait", "stopped"}

Init ==
  /\ isGathering = FALSE /\ stopEvent = FALSE
  /\ thread = [t \in Gatherers |-> "none"]
  /\ page = FALSE /\ ui = "loop" /\ wasGathering = FALSE

Gathering == {t \in Gatherers : thread[t] \in {"wait", "refresh", "exit"}}

Move(t, from, to) == thread[t] = from /\ thread' = [thread EXCEPT ![t] = to]
Call(from, to)    == ui = from /\ ui' = to

-----------------------------------------------------------------------------
(* __OpticalPowerGatherThread.                                             *)
(* Mutant: the flag is not looked at.                                      *)
AlwaysFirst == TRUE
FirstGatherer == ~isGathering

AlreadyStarted(t) ==
  /\ Move(t, "begin", "none")
  /\ ~FirstGatherer
  /\ UNCHANGED <<isGathering, stopEvent, page, ui, wasGathering>>

BeginGathering(t) ==
  /\ Move(t, "begin", "wait")
  /\ FirstGatherer
  /\ isGathering' = TRUE
  /\ UNCHANGED <<stopEvent, page, ui, wasGathering>>

WaitTimesOut(t) ==          \* Lock(100) fails: the ports are refreshed
  /\ Move(t, "wait", "refresh")
  /\ ~stopEvent
  /\ UNCHANGED <<isGathering, stopEvent, page, ui, wasGathering>>

Refreshed(t) ==             \* __GatherCurOpticalPower of every port
  /\ Move(t, "refresh", "wait")
  /\ UNCHANGED <<isGathering, stopEvent, page, ui, wasGathering>>

StopSeen(t) ==
  /\ Move(t, "wait", "exit")
  /\ stopEvent
  /\ stopEvent' = FALSE
  /\ UNCHANGED <<isGathering, page, ui, wasGathering>>

(* Mutant: the thread returns without passing ExitHandle.                  *)
EndForgotten(t) ==
  /\ Move(t, "exit", "none")
  /\ UNCHANGED <<isGathering, stopEvent, page, ui, wasGathering>>

EndGathering(t) ==          \* without the lock
  /\ Move(t, "exit", "none")
  /\ isGathering' = FALSE
  /\ UNCHANGED <<stopEvent, page, ui, wasGathering>>

GatherThread(t) ==
  \/ AlreadyStarted(t) \/ BeginGathering(t) \/ WaitTimesOut(t) \/ Refreshed(t)
  \/ StopSeen(t) \/ EndGathering(t)

-----------------------------------------------------------------------------
(* The page: OnInitDialog, the reset key and the destructor.               *)
OnInitDialog ==
  /\ Call("loop", "start") /\ ~page
  /\ page' = TRUE
  /\ UNCHANGED <<isGathering, stopEvent, thread, wasGathering>>

OnMenuF6 ==
  /\ Call("loop", "reset") /\ page /\ Resettable
  /\ UNCHANGED <<isGathering, stopEvent, thread, page, wasGathering>>

ClosePage ==
  /\ Call("loop", "stop") /\ page
  /\ page' = FALSE
  /\ UNCHANGED <<isGathering, stopEvent, thread, wasGathering>>

(* StartGatherOpticalPower, from the page or at the end of Reset.          *)
StartGatherOpticalPower(t) ==
  /\ Call("start", "loop") /\ Move(t, "none", "begin")
  /\ wasGathering' = FALSE
  /\ UNCHANGED <<isGathering, stopEvent, page>>

StartFails ==               \* the callers do not look at the result
  /\ Call("start", "loop") /\ BeginFails
  /\ wasGathering' = FALSE
  /\ UNCHANGED <<isGathering, stopEvent, thread, page>>

(* Reset saves the flag, stops, resets the ports and starts again.         *)
SaveGathering ==
  /\ Call("reset", "stop")
  /\ wasGathering' = isGathering
  /\ UNCHANGED <<isGathering, stopEvent, thread, page>>

ResetPorts ==
  /\ page                   \* the stop of a reset, not of ClosePage
  /\ Call("stopped", IF wasGathering THEN "start" ELSE "loop")
  /\ UNCHANGED <<isGathering, stopEvent, thread, page, wasGathering>>

(* StopGatherOpticalPower.                                                 *)
StopChecks ==
  /\ Call("stop", IF isGathering THEN "stopEvent" ELSE "stopped")
  /\ UNCHANGED <<isGathering, stopEvent, thread, page, wasGathering>>

StopSetsEvent ==
  /\ Call("stopEvent", "stopWait")
  /\ stopEvent' = TRUE
  /\ UNCHANGED <<isGathering, thread, page, wasGathering>>

(* Mutant: the stop does not wait.                                         *)
WaitNoLonger   == TRUE
GatheringEnded == ~isGathering

StopWaited ==
  /\ Call("stopWait", "stopped")
  /\ GatheringEnded
  /\ stopEvent' = FALSE
  /\ UNCHANGED <<isGathering, thread, page, wasGathering>>

PageClosed ==
  /\ Call("stopped", "loop") /\ ~page
  /\ UNCHANGED <<isGathering, stopEvent, thread, page, wasGathering>>

UiReturns ==
  \/ \E t \in Gatherers : StartGatherOpticalPower(t)
  \/ StartFails \/ SaveGathering \/ ResetPorts
  \/ StopChecks \/ StopSetsEvent \/ StopWaited \/ PageClosed

Next ==
  \/ OnInitDialog \/ OnMenuF6 \/ ClosePage
  \/ UiReturns
  \/ \E t \in Gatherers : GatherThread(t)

Spec == Init /\ [][Next]_vars

(* The threads run and calls return when they can; the user is not fair.   *)
FairSpec ==
  Spec /\ WF_vars(UiReturns) /\ \A t \in Gatherers : WF_vars(GatherThread(t))

-----------------------------------------------------------------------------
TypeOK ==
  /\ isGathering \in BOOLEAN /\ stopEvent \in BOOLEAN
  /\ thread \in [Gatherers -> ThreadPc]
  /\ page \in BOOLEAN /\ ui \in UiPc /\ wasGathering \in BOOLEAN

(* However often the page is opened or reset, one thread gathers, although *)
(* the flag is cleared without the lock: the flag belongs to that thread.  *)
OneGatherer ==
  /\ isGathering <=> Gathering # {}
  /\ \A s, t \in Gathering : s = t

(* A stop that waits ends only when the gatherer has taken the stop event  *)
(* and is gone: the event cannot be left over to end the next gathering.   *)
StopAnswered == [][StopWaited => Gathering = {} /\ ~stopEvent]_vars

(* Why: between the check and the end of the wait there is a gatherer, and *)
(* until it takes the event it has not ended.                              *)
StopFindsGatherer ==
  /\ ui = "stopEvent" => Gathering # {}
  /\ \A t \in Gatherers : thread[t] = "exit" => ui = "stopWait"
  /\ stopEvent => ui = "stopWait" /\ \E t \in Gatherers : thread[t] \in {"wait", "refresh"}

(* A stop that finds a gatherer returns when no second thread is waiting   *)
(* to begin.                                                               *)
LoneStopReturns ==
  (ui = "stopEvent" /\ \A t \in Gatherers : thread[t] # "begin") ~> ui = "stopped"
=============================================================================
