------------------------------ MODULE DspTasks ------------------------------
(***************************************************************************)
(* The firmware of the DSP (dspsrc/DSM800/src/main.c): four tasks, run by  *)
(* strict priority (loop.tcf: receive 13, send 11, calc40ms 10, calc200ms  *)
(* 9), which hand each other commands and results in global buffers and    *)
(* order themselves with counting semaphores that start at zero.           *)
(***************************************************************************)
EXTENDS Integers, Sequences, FiniteSets

CONSTANTS
  Batch,          (* frames of samples that one harmonics calculation needs *)
  LostPointMode,  (* the firmware is built with _LOST_POINT_MODE            *)
  LinkDepth       (* frames the link holds in each direction                *)

ASSUME DspAssumption ==
  /\ Batch \in Nat \ {0}
  /\ LostPointMode \in BOOLEAN
  /\ LinkDepth \in Nat \ {0}

VARIABLES
  toDsp, toArm,   (* frames on the link, each [code, id]                    *)
  receive,        (* where tskReceive is                                    *)
  calc40,         (* where tskCalc40ms is                                   *)
  calc200,        (* where tskCalc200ms is                                  *)
  send,           (* where tskSend is                                       *)
  sem,            (* counts of the semaphores                               *)
  recvBuf,        (* g_recvBuf: the last command                            *)
  taskFlag,       (* g_tskFlag[1]: what tskCalc40ms is to do                *)
  handed,         (* commands handed to tskCalc40ms and not yet taken       *)
  resFlag,        (* g_resFlag: results to be sent                          *)
  genRT,          (* g_smvGenRT: the request of the last waveform           *)
  sendBuf,        (* g_sendBuf                                              *)
  samples,        (* g_smvCalcData and g_smvCalcData1                       *)
  swap,           (* g_fSmvSwap: the one of the two that is being filled    *)
  cached,         (* g_nSmvCacheCount, in frames                            *)
  firstCalc,      (* fFirstCalc of RealSmvHelper                            *)
  lostPoint       (* g_fSmvLostPoint                                        *)

linkVars   == <<toDsp, toArm>>
bufVars    == <<recvBuf, taskFlag>>
sampleVars == <<samples, swap, cached, firstCalc, lostPoint>>
resultVars == <<resFlag, genRT>>
dspVars    == <<receive, calc40, calc200, send, sem, bufVars, handed,
                resFlag, genRT, sendBuf, sampleVars>>

Semaphore == {0, 1, 2, 5, 7}

CalcCode == {"SMV_DATA", "SMV_GEN", "TIME_DATA"}
Result   == <<"ERROR", "INFO", "SMV_GEN_RT", "MSG_DISP_RT", "SMV_CALC_RT">>
Results  == {Result[i] : i \in DOMAIN Result}

(* What tskReceive answers itself.                                         *)
Answer == [CONFIG |-> "ERROR", INFO |-> "INFO",
           RESET_SMV |-> "SMV_CALC_RT", RESET_TIME |-> "MSG_DISP_RT"]

Command == [code : CalcCode \cup DOMAIN Answer, id : Nat]
Frame   == [code : Results, id : Nat]
Nothing == [code |-> "NONE", id |-> 0]

Post(S)     == [s \in Semaphore |-> IF s \in S THEN sem[s] + 1 ELSE sem[s]]
Pend(s)     == sem[s] > 0 /\ sem' = [sem EXCEPT ![s] = @ - 1]

DspInit ==
  /\ toDsp = <<>> /\ toArm = <<>>
  /\ receive = "receive" /\ calc40 = "pend1" /\ calc200 = "pend2"
  /\ send = "pend0"
  /\ sem = [s \in Semaphore |-> 0]
  /\ recvBuf = Nothing /\ taskFlag = "NONE" /\ handed = <<>>
  /\ resFlag = {} /\ genRT = 0 /\ sendBuf = Nothing
  /\ samples = [b \in {0, 1} |-> [i \in 1..Batch |-> 0]]
  /\ swap = 0 /\ cached = 0 /\ firstCalc = TRUE /\ lostPoint = FALSE

-----------------------------------------------------------------------------
(* tskReceive.  A command for tskCalc40ms stays in g_recvBuf until that    *)
(* task releases SEM7.                                                     *)
CanReceive ==
  \/ receive = "receive" /\ toDsp # <<>>
  \/ receive = "pend7" /\ sem[7] > 0

Dropped(c) == LostPointMode /\ lostPoint /\ c.code = "SMV_DATA"

ReceiveNext == receive = "receive" /\ toDsp # <<>>
               /\ recvBuf' = Head(toDsp) /\ toDsp' = Tail(toDsp)

ReceiveDropped ==
  /\ ReceiveNext
  /\ Dropped(Head(toDsp))
  /\ UNCHANGED <<toArm, receive, taskFlag, calc40, calc200, send, sem, handed,
                 resultVars, sendBuf, sampleVars>>

(* Mutant: the next command is received before tskCalc40ms took this one.  *)
ReceiveCalcAndGoOn ==
  /\ ReceiveNext
  /\ Head(toDsp).code \in CalcCode /\ ~Dropped(Head(toDsp))
  /\ taskFlag' = Head(toDsp).code
  /\ handed' = Append(handed, Head(toDsp))
  /\ sem' = Post({1})
  /\ UNCHANGED <<toArm, receive, calc40, calc200, send, resultVars, sendBuf,
                 sampleVars>>

ReceiveCalc ==
  /\ ReceiveNext
  /\ Head(toDsp).code \in CalcCode /\ ~Dropped(Head(toDsp))
  /\ receive' = "pend7"
  /\ taskFlag' = Head(toDsp).code
  /\ handed' = Append(handed, Head(toDsp))
  /\ sem' = Post({1})
  /\ UNCHANGED <<toArm, calc40, calc200, send, resultVars, sendBuf,
                 sampleVars>>

(* Mutant: SEM7 is not posted for a command that is answered at once.      *)
ReceiveOtherAndWait ==
  /\ ReceiveNext
  /\ Head(toDsp).code \in DOMAIN Answer
  /\ receive' = "pend7"
  /\ cached' = IF Head(toDsp).code = "RESET_SMV" THEN 0 ELSE cached
  /\ resFlag' = resFlag \cup {Answer[Head(toDsp).code]}
  /\ sem' = Post({0})
  /\ UNCHANGED <<toArm, taskFlag, calc40, calc200, send, handed, genRT, sendBuf,
                 samples, swap, firstCalc, lostPoint>>

(* Mutant: RESET_SMV is answered and the samples are kept.                 *)
ReceiveOtherAndKeep ==
  /\ ReceiveNext
  /\ Head(toDsp).code \in DOMAIN Answer
  /\ receive' = "pend7"
  /\ resFlag' = resFlag \cup {Answer[Head(toDsp).code]}
  /\ sem' = Post({7, 0})
  /\ UNCHANGED <<toArm, taskFlag, calc40, calc200, send, handed, genRT, sendBuf,
                 sampleVars>>

(* A result's flag, length and count are set together, and CONFIG leaves   *)
(* the length of a batch alone: the rates it sets do not change in between *)
(* (main.c:172, 322).                                                      *)
ReceiveOther ==
  /\ ReceiveNext
  /\ Head(toDsp).code \in DOMAIN Answer
  /\ receive' = "pend7"
  /\ cached' = IF Head(toDsp).code = "RESET_SMV" THEN 0 ELSE cached
  /\ resFlag' = resFlag \cup {Answer[Head(toDsp).code]}
  /\ sem' = Post({7, 0})
  /\ UNCHANGED <<toArm, taskFlag, calc40, calc200, send, handed, genRT, sendBuf,
                 samples, swap, firstCalc, lostPoint>>

ReceivePend ==
  /\ receive = "pend7" /\ Pend(7)
  /\ receive' = "receive"
  /\ UNCHANGED <<linkVars, calc40, calc200, send, bufVars, handed, resultVars,
                 sendBuf, sampleVars>>

-----------------------------------------------------------------------------
(* tskSend sends the first flagged result, or g_sendBuf as it was when a   *)
(* result that was flagged twice has been sent once.                       *)
CanSend ==
  \/ send = "pend0" /\ sem[0] > 0
  \/ send = "send" /\ Len(toArm) < LinkDepth

FirstResult == Result[CHOOSE i \in DOMAIN Result :
                        /\ Result[i] \in resFlag
                        /\ \A j \in 1..(i-1) : Result[j] \notin resFlag]

FrameOf(r) == [code |-> r, id |-> IF r = "SMV_GEN_RT" THEN genRT ELSE 0]

SendPend ==
  /\ send = "pend0" /\ Pend(0) /\ ~CanReceive
  /\ send' = "send"
  /\ IF resFlag = {} THEN UNCHANGED <<sendBuf, resFlag>>
     ELSE /\ sendBuf' = FrameOf(FirstResult)
          /\ resFlag' = resFlag \ {FirstResult}
  /\ UNCHANGED <<linkVars, receive, calc40, calc200, bufVars, handed, genRT,
                 sampleVars>>

SendExecute ==              \* TSKDSP_execute_Send
  /\ send = "send" /\ Len(toArm) < LinkDepth /\ ~CanReceive
  /\ toArm' = Append(toArm, sendBuf)
  /\ send' = "pend0"
  /\ UNCHANGED <<toDsp, receive, calc40, calc200, sem, bufVars, handed,
                 resultVars, sendBuf, sampleVars>>

-----------------------------------------------------------------------------
(* tskCalc40ms.                                                            *)
CanCalc40 ==
  \/ calc40 = "pend1" /\ sem[1] > 0
  \/ calc40 = "pend5" /\ sem[5] > 0
  \/ calc40 \in CalcCode \cup {"start200", "dispersion"}

Calc40Runs == ~CanReceive /\ ~CanSend

Calc40Pend ==               \* the command code selects the calculation
  /\ Calc40Runs
  /\ calc40 = "pend1" /\ Pend(1)
  /\ calc40' = taskFlag
  /\ UNCHANGED <<linkVars, receive, calc200, send, bufVars, handed, resultVars,
                 sendBuf, sampleVars>>

SmvGenHelper ==
  /\ Calc40Runs
  /\ calc40 = "SMV_GEN"
  /\ genRT' = recvBuf.id
  /\ resFlag' = resFlag \cup {"SMV_GEN_RT"}
  /\ handed' = Tail(handed)
  /\ sem' = Post({7, 0})
  /\ calc40' = "pend1"
  /\ UNCHANGED <<linkVars, receive, calc200, send, bufVars, sendBuf,
                 sampleVars>>

(* A batch that is complete waits for the calculation of the one before.   *)
RealSmvHelper ==
  /\ Calc40Runs
  /\ calc40 = "SMV_DATA"
  /\ samples' = [samples EXCEPT ![swap][cached + 1] = recvBuf.id]
  /\ handed' = Tail(handed)
  /\ IF cached + 1 < Batch
     THEN /\ cached' = cached + 1
          /\ sem' = Post({7}) /\ calc40' = "pend1"
          /\ UNCHANGED <<firstCalc, lostPoint>>
     ELSE /\ firstCalc' = FALSE
          /\ cached' = cached + 1
          /\ lostPoint' = (lostPoint \/ (LostPointMode /\ ~firstCalc))
          /\ sem' = IF LostPointMode /\ ~firstCalc THEN Post({7}) ELSE sem
          /\ calc40' = IF firstCalc THEN "start200" ELSE "pend5"
  /\ UNCHANGED <<linkVars, receive, calc200, send, bufVars, resultVars, sendBuf,
                 swap>>

CalculationDone ==          \* SEM_pend(&SEM5)
  /\ Calc40Runs
  /\ calc40 = "pend5" /\ Pend(5)
  /\ calc40' = "start200"
  /\ UNCHANGED <<linkVars, receive, calc200, send, bufVars, handed, resultVars,
                 sendBuf, sampleVars>>

(* Mutants: the count is not reset; SEM7 is released before the swap.      *)
StartAndKeepCount ==
  /\ Calc40Runs
  /\ calc40 = "start200"
  /\ sem' = Post({2})
  /\ calc40' = "pend1"
  /\ UNCHANGED <<linkVars, receive, calc200, send, bufVars, handed, resultVars,
                 sendBuf, sampleVars>>

StartAndRelease ==
  /\ Calc40Runs
  /\ calc40 = "start200"
  /\ cached' = 0
  /\ sem' = Post({2, 7})
  /\ calc40' = "pend1"
  /\ UNCHANGED <<linkVars, receive, calc200, send, bufVars, handed, resultVars,
                 sendBuf, samples, swap, firstCalc, lostPoint>>

StartCalculation ==         \* SEM_post(&SEM2)
  /\ Calc40Runs
  /\ calc40 = "start200"
  /\ cached' = 0
  /\ sem' = Post({2})
  /\ calc40' = "pend1"
  /\ UNCHANGED <<linkVars, receive, calc200, send, bufVars, handed, resultVars,
                 sendBuf, samples, swap, firstCalc, lostPoint>>

(* The times of a frame are taken; a calculation may follow or not.        *)
MsgDispHelper ==
  /\ Calc40Runs
  /\ calc40 = "TIME_DATA"
  /\ handed' = Tail(handed)
  /\ sem' = Post({7})
  /\ calc40' \in {"pend1", "dispersion"}
  /\ UNCHANGED <<linkVars, receive, calc200, send, bufVars, resultVars, sendBuf,
                 sampleVars>>

MsgDispCalc ==
  /\ Calc40Runs
  /\ calc40 = "dispersion"
  /\ resFlag' = resFlag \cup {"MSG_DISP_RT"}
  /\ sem' = Post({0})
  /\ calc40' = "pend1"
  /\ UNCHANGED <<linkVars, receive, calc200, send, bufVars, handed, genRT,
                 sendBuf, sampleVars>>

-----------------------------------------------------------------------------
(* tskCalc200ms.                                                           *)
Calc200Runs == Calc40Runs /\ ~CanCalc40

Calc200Pend ==
  /\ Calc200Runs
  /\ calc200 = "pend2" /\ Pend(2)
  /\ calc200' = "swap"
  /\ UNCHANGED <<linkVars, receive, calc40, send, bufVars, handed, resultVars,
                 sendBuf, sampleVars>>

(* Mutant: points go on being lost after the buffers were swapped.         *)
SwapAndGoOnLosing ==
  /\ Calc200Runs
  /\ calc200 = "swap"
  /\ swap' = 1 - swap
  /\ sem' = Post({7})
  /\ calc200' = "calculate"
  /\ UNCHANGED <<linkVars, receive, calc40, send, bufVars, handed, resultVars,
                 sendBuf, samples, cached, firstCalc, lostPoint>>

SwapBuffers ==              \* SmvHelper
  /\ Calc200Runs
  /\ calc200 = "swap"
  /\ swap' = 1 - swap
  /\ lostPoint' = FALSE
  /\ sem' = Post({7})
  /\ calc200' = "calculate"
  /\ UNCHANGED <<linkVars, receive, calc40, send, bufVars, handed, resultVars,
                 sendBuf, samples, cached, firstCalc>>

(* Mutant: the end of a calculation is not posted.                         *)
CalculateSilently ==
  /\ Calc200Runs
  /\ calc200 = "calculate"
  /\ calc200' = "report"
  /\ UNCHANGED <<linkVars, receive, calc40, send, sem, bufVars, handed,
                 resultVars, sendBuf, sampleVars>>

SmvDataCalc ==
  /\ Calc200Runs
  /\ calc200 = "calculate"
  /\ sem' = Post({5})
  /\ calc200' = "report"
  /\ UNCHANGED <<linkVars, receive, calc40, send, bufVars, handed, resultVars,
                 sendBuf, sampleVars>>

(* Mutant: the result is flagged and tskSend is not woken.                 *)
ReportSilently ==
  /\ Calc200Runs
  /\ calc200 = "report"
  /\ resFlag' = resFlag \cup {"SMV_CALC_RT"}
  /\ calc200' = "pend2"
  /\ UNCHANGED <<linkVars, receive, calc40, send, sem, bufVars, handed, genRT,
                 sendBuf, sampleVars>>

ReportHarmonics ==
  /\ Calc200Runs
  /\ calc200 = "report"
  /\ resFlag' = resFlag \cup {"SMV_CALC_RT"}
  /\ sem' = Post({0})
  /\ calc200' = "pend2"
  /\ UNCHANGED <<linkVars, receive, calc40, send, bufVars, handed, genRT,
                 sendBuf, sampleVars>>

DspNext ==
  \/ ReceiveDropped \/ ReceiveCalc \/ ReceiveOther \/ ReceivePend
  \/ SendPend \/ SendExecute
  \/ Calc40Pend \/ SmvGenHelper \/ RealSmvHelper \/ CalculationDone
  \/ StartCalculation \/ MsgDispHelper \/ MsgDispCalc
  \/ Calc200Pend \/ SwapBuffers \/ SmvDataCalc \/ ReportHarmonics

-----------------------------------------------------------------------------
DspTypeOK ==
  /\ toDsp \in Seq(Command) /\ Len(toDsp) <= LinkDepth
  /\ toArm \in Seq(Frame) /\ Len(toArm) <= LinkDepth
  /\ receive \in {"receive", "pend7"}
  /\ calc40 \in CalcCode \cup {"pend1", "pend5", "start200", "dispersion"}
  /\ calc200 \in {"pend2", "swap", "calculate", "report"}
  /\ send \in {"pend0", "send"}
  /\ sem \in [Semaphore -> Nat]
  /\ recvBuf \in Command \cup {Nothing}
  /\ taskFlag \in CalcCode \cup {"NONE"} /\ handed \in Seq(Command)
  /\ resFlag \subseteq Results /\ genRT \in Nat
  /\ sendBuf \in Frame \cup {Nothing}
  /\ samples \in [{0, 1} -> [1..Batch -> Nat]]
  /\ swap \in {0, 1} /\ cached \in 0..Batch
  /\ firstCalc \in BOOLEAN /\ lostPoint \in BOOLEAN

(* SEM7 is released once for each command that tskReceive has taken:       *)
(* counted where it is on its way, a release is neither lost (the task     *)
(* would wait for ever) nor doubled (the next command would overwrite this *)
(* one).  The exception is the build with _LOST_POINT_MODE: each batch but *)
(* the first completes with one release too many, when tskCalc40ms turns   *)
(* to wait for the calculation before, and no other step makes or takes    *)
(* back such a surplus (main.c:418, 454, 466, 616).                        *)
Holding == calc40 \in CalcCode \cup {"pend5", "start200"}

Releases ==
  sem[7] + sem[1] + sem[2] + (IF Holding THEN 1 ELSE 0)
    + (IF calc200 = "swap" THEN 1 ELSE 0)

Surplus == Releases - (IF receive = "pend7" THEN 1 ELSE 0)

Overruns == LostPointMode /\ calc40 = "SMV_DATA" /\ calc40' = "pend5"

OneRelease ==
  /\ Surplus = 0
  /\ [][Surplus' = Surplus + (IF Overruns THEN 1 ELSE 0)]_<<sem, receive,
                                                          calc40, calc200>>

(* In both modes no task waits for a semaphore that nobody will post:      *)
(* somebody has the release tskReceive waits for, and a complete batch     *)
(* waits for a calculation that was started (main.c:418-428, 616).         *)
Started == sem[2] > 0 \/ calc200 \in {"swap", "calculate"}

NoStall ==
  /\ receive = "pend7" =>
       \/ sem[7] + sem[1] + sem[2] > 0
       \/ Holding \/ calc200 = "swap"
  /\ calc40 = "pend5" => sem[5] > 0 \/ Started

(* Every result that is flagged has a count of SEM0 of its own, so none    *)
(* stays unsent when tskSend has sent as many as it was woken for, even if *)
(* a result was flagged twice before it was sent (main.c:635, 691, 731).   *)
EveryFlagCounted == Cardinality(resFlag) <= sem[0]

(* Samples are thrown away only while a complete batch waits for the       *)
(* buffers to be swapped, so the loss ends with the swap (main.c:415-463). *)
LossEnds == lostPoint =>
  calc40 \in {"pend5", "start200"} \/ sem[2] > 0 \/ calc200 = "swap"
=============================================================================
