------------------------- MODULE OpticalPowerProofs -------------------------
(***************************************************************************)
(* One thread gathers, and a stop that waits is answered, whatever the     *)
(* number of gather threads and however often the page is opened or reset. *)
(***************************************************************************)
EXTENDS OpticalPower, TLAPS

IInv == TypeOK /\ OneGatherer /\ StopFindsGatherer

LEMMA GatherThreadKeeps ==
  ASSUME IInv, NEW t \in Gatherers, GatherThread(t)
  PROVE  IInv'
<1> USE DEF IInv, TypeOK, OneGatherer, StopFindsGatherer, Gathering, ThreadPc, Move
<1>1. CASE AlreadyStarted(t)
  BY <1>1 DEF AlreadyStarted
<1>2. CASE BeginGathering(t)
  BY <1>2 DEF BeginGathering, FirstGatherer
<1>3. CASE WaitTimesOut(t)
  BY <1>3 DEF WaitTimesOut
<1>4. CASE Refreshed(t)
  BY <1>4 DEF Refreshed
<1>5. CASE StopSeen(t)
  BY <1>5 DEF StopSeen
<1>6. CASE EndGathering(t)
  BY <1>6 DEF EndGathering
<1> QED
  BY <1>1, <1>2, <1>3, <1>4, <1>5, <1>6 DEF GatherThread

(* A step of the UI thread outside the wait of a stop.                     *)
LEMMA UiMoves ==
  ASSUME IInv, UNCHANGED <<isGathering, stopEvent, thread>>,
         ui \notin {"stopEvent", "stopWait"}, ui' \in UiPc \ {"stopEvent", "stopWait"},
         page' \in BOOLEAN, wasGathering' \in BOOLEAN
  PROVE  IInv'
<1>1. TypeOK'
  BY DEF IInv, TypeOK
<1>2. OneGatherer' /\ Gathering' = Gathering
  BY DEF IInv, OneGatherer, Gathering
<1>3. StopFindsGatherer'
  BY DEF IInv, StopFindsGatherer
<1> QED
  BY <1>1, <1>2, <1>3 DEF IInv

LEMMA UiKeeps ==
  ASSUME IInv, OnInitDialog \/ OnMenuF6 \/ ClosePage \/ UiReturns
  PROVE  IInv'
<1>1. CASE OnInitDialog
  BY <1>1, UiMoves DEF OnInitDialog, Call, UiPc, IInv, TypeOK
<1>2. CASE OnMenuF6
  BY <1>2, UiMoves DEF OnMenuF6, Call, UiPc, IInv, TypeOK
<1>3. CASE ClosePage
  BY <1>3, UiMoves DEF ClosePage, Call, UiPc, IInv, TypeOK
<1>4. CASE StartFails
  BY <1>4, UiMoves DEF StartFails, Call, UiPc, IInv, TypeOK
<1>5. CASE SaveGathering
  BY <1>5, UiMoves DEF SaveGathering, Call, UiPc, IInv, TypeOK
<1>6. CASE ResetPorts
  BY <1>6, UiMoves DEF ResetPorts, Call, UiPc, IInv, TypeOK
<1>7. CASE PageClosed
  BY <1>7, UiMoves DEF PageClosed, Call, UiPc, IInv, TypeOK
<1>8. CASE StopWaited
  BY <1>8 DEF StopWaited, GatheringEnded, Call, UiPc, IInv, TypeOK, OneGatherer,
              StopFindsGatherer, Gathering
<1>9. CASE StopSetsEvent
  BY <1>9 DEF StopSetsEvent, Call, UiPc, IInv, TypeOK, OneGatherer,
              StopFindsGatherer, Gathering
<1>10. CASE StopChecks
  BY <1>10 DEF StopChecks, Call, UiPc, IInv, TypeOK, OneGatherer,
               StopFindsGatherer, Gathering
<1>11. CASE \E t \in Gatherers : StartGatherOpticalPower(t)
  <2> SUFFICES ASSUME NEW t \in Gatherers, StartGatherOpticalPower(t)
               PROVE  IInv'
    BY <1>11
  <2>1. /\ ui = "start" /\ ui' = "loop" /\ UNCHANGED <<isGathering, stopEvent, page>>
        /\ wasGathering' = FALSE
        /\ thread[t] = "none" /\ thread'[t] = "begin"
        /\ \A s \in Gatherers \ {t} : thread'[s] = thread[s]
    BY DEF StartGatherOpticalPower, Call, Move, IInv, TypeOK
  <2>2. TypeOK'
    BY DEF StartGatherOpticalPower, Call, Move, IInv, TypeOK, ThreadPc, UiPc
  <2>3. Gathering' = Gathering
    BY <2>1 DEF Gathering
  <2>4. OneGatherer'
    BY <2>1, <2>3 DEF IInv, OneGatherer
  <2>5. StopFindsGatherer'
    BY <2>1, <2>3 DEF IInv, StopFindsGatherer
  <2> QED
    BY <2>2, <2>4, <2>5 DEF IInv
<1> QED
  BY <1>1, <1>2, <1>3, <1>4, <1>5, <1>6, <1>7, <1>8, <1>9, <1>10, <1>11
  DEF UiReturns

LEMMA OpticalInvariant ==
  Spec => []IInv
<1>1. Init => IInv
  BY DEF Init, IInv, TypeOK, OneGatherer, StopFindsGatherer, Gathering, ThreadPc,
         UiPc
<1>2. IInv /\ [Next]_vars => IInv'
  <2> SUFFICES ASSUME IInv, [Next]_vars PROVE IInv'
    OBVIOUS
  <2>1. CASE UNCHANGED vars
    BY <2>1 DEF vars, IInv, TypeOK, OneGatherer, StopFindsGatherer, Gathering
  <2> QED
    BY <2>1, GatherThreadKeeps, UiKeeps DEF Next
<1> QED
  BY <1>1, <1>2, PTL DEF Spec

(* One thread gathers, and m_bIsGathering is its flag, for any number of   *)
(* gather threads begun.                                                   *)
THEOREM OneGathererAlways ==
  Spec => []OneGatherer
BY OpticalInvariant, PTL DEF IInv

(* A stop that waits ends only with the gatherer gone and the event taken. *)
THEOREM StopIsAnswered ==
  Spec => StopAnswered
<1>1. IInv /\ StopWaited => Gathering = {} /\ ~stopEvent
  BY DEF IInv, OneGatherer, StopFindsGatherer, StopWaited, GatheringEnded, Gathering
<1>2. IInv /\ [Next]_vars => [StopWaited => Gathering = {} /\ ~stopEvent]_vars
  BY <1>1
<1> QED
  BY <1>2, OpticalInvariant, PTL DEF Spec, StopAnswered
=============================================================================
