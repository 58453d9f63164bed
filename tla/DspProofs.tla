------------------------------ MODULE DspProofs ------------------------------
(***************************************************************************)
(* The tasks of the DSP, in both modes of the firmware, for every length   *)
(* of batch and of link and for every load: the types are right, no task   *)
(* waits for a semaphore nobody will post, the loss of samples ends, and   *)
(* the releases of SEM7 are conserved but for one too many for each batch  *)
(* that overruns.  Hence until a frame is pressed in, which the mode that  *)
(* blocks never allows, no command is overwritten before it is executed,   *)
(* the harmonics are calculated from samples that followed each other, and *)
(* the tasks implement CommandService.                                     *)
(***************************************************************************)
EXTENDS DspClient, FiniteSetTheorems, SequenceTheorems, TLAPS

(* What the argument needs of the types.                                   *)
Counts ==
  /\ sem \in [Semaphore -> Nat]
  /\ receive \in {"receive", "pend7"}
  /\ calc40 \in CalcCode \cup {"pend1", "pend5", "start200", "dispersion"}
  /\ calc200 \in {"pend2", "swap", "calculate", "report"}

USE DEF Semaphore, bufVars

(* What the two semaphore operations do to the counts.                     *)
LEMMA PostCounts ==
  ASSUME Counts, NEW S, sem' = Post(S)
  PROVE  /\ sem' \in [Semaphore -> Nat]
         /\ \A s \in Semaphore :
              sem'[s] = IF s \in S THEN sem[s] + 1 ELSE sem[s]
BY DEF Counts, Post

LEMMA PendCounts ==
  ASSUME Counts, NEW s \in Semaphore, Pend(s)
  PROVE  /\ sem' \in [Semaphore -> Nat]
         /\ sem[s] > 0 /\ sem'[s] = sem[s] - 1
         /\ \A t \in Semaphore \ {s} : sem'[t] = sem[t]
BY DEF Counts, Pend

-----------------------------------------------------------------------------
(* The types of both modes, and what they rest on.                         *)
USE DEF Semaphore, bufVars, sampleVars, resultVars, linkVars

(* What tskCalc40ms finds: one command for each post of SEM1 that was not  *)
(* taken and one while it executes; room in the batch unless it is full.   *)
Handing ==
  /\ Len(handed) = sem[1] + (IF calc40 \in CalcCode THEN 1 ELSE 0)
  /\ sem[1] > 0 => taskFlag \in CalcCode
  /\ calc40 \notin {"pend5", "start200"} => cached < Batch

(* tskSend does not find SEM0 posted before there is something to send.    *)
FirstSend ==
  sendBuf = Nothing => send = "pend0" /\ (sem[0] > 0 => resFlag # {})

TypeInv == TypeOK /\ Handing /\ FirstSend

clientVars == <<eventVars, callerVars, readerVars, recvData, sampled, paged>>

LEMMA Answers ==
  /\ DOMAIN Answer = {"CONFIG", "INFO", "RESET_SMV", "RESET_TIME"}
  /\ \A c \in DOMAIN Answer : Answer[c] \in Results
  /\ Results = {"ERROR", "INFO", "SMV_GEN_RT", "MSG_DISP_RT", "SMV_CALC_RT"}
<1>1. DOMAIN Answer = {"CONFIG", "INFO", "RESET_SMV", "RESET_TIME"}
  BY DEF Answer
<1>2. DOMAIN Result = 1..5
  BY DEF Result
<1>3. Results = {Result[i] : i \in 1..5}
  BY <1>2 DEF Results
<1>4. /\ Result[1] = "ERROR" /\ Result[2] = "INFO" /\ Result[3] = "SMV_GEN_RT"
      /\ Result[4] = "MSG_DISP_RT" /\ Result[5] = "SMV_CALC_RT"
  BY DEF Result
<1>5. Results = {"ERROR", "INFO", "SMV_GEN_RT", "MSG_DISP_RT", "SMV_CALC_RT"}
  BY <1>3, <1>4
<1>6. \A c \in DOMAIN Answer : Answer[c] \in Results
  BY <1>1, <1>5 DEF Answer
<1>. QED BY <1>1, <1>5, <1>6

(* There is a first flagged result when one is flagged.                    *)
LEMMA FirstFlagged ==
  ASSUME resFlag \subseteq Results, resFlag # {}
  PROVE  FirstResult \in resFlag
<1>. DEFINE First(i) == /\ Result[i] \in resFlag
                        /\ \A j \in 1..(i-1) : Result[j] \notin resFlag
<1>1. DOMAIN Result = 1..5 /\ Results = {Result[i] : i \in 1..5}
  BY DEF Result, Results
<1>2. \E i \in 1..5 : Result[i] \in resFlag
  BY <1>1
<1>3. \E i \in 1..5 : First(i)
  <2>1. CASE Result[1] \in resFlag
    BY <2>1
  <2>2. CASE Result[1] \notin resFlag /\ Result[2] \in resFlag
    BY <2>2
  <2>3. CASE /\ Result[1] \notin resFlag /\ Result[2] \notin resFlag
             /\ Result[3] \in resFlag
    BY <2>3
  <2>4. CASE /\ Result[1] \notin resFlag /\ Result[2] \notin resFlag
             /\ Result[3] \notin resFlag /\ Result[4] \in resFlag
    BY <2>4
  <2>5. CASE /\ Result[1] \notin resFlag /\ Result[2] \notin resFlag
             /\ Result[3] \notin resFlag /\ Result[4] \notin resFlag
    BY <1>2, <2>5
  <2>. QED BY <2>1, <2>2, <2>3, <2>4, <2>5
<1>4. First(CHOOSE i \in DOMAIN Result : First(i))
  BY <1>1, <1>3
<1>. QED BY <1>4 DEF FirstResult

(* Semaphores are counts again after each operation.                       *)
LEMMA PostTypes ==
  ASSUME sem \in [Semaphore -> Nat], NEW S \in SUBSET Semaphore, sem' = Post(S)
  PROVE  /\ sem' \in [Semaphore -> Nat]
         /\ 1 \in S => sem'[1] = sem[1] + 1
         /\ 1 \notin S => sem'[1] = sem[1]
         /\ 0 \notin S => sem'[0] = sem[0]
BY DEF Post

LEMMA TwoPosted ==
  ASSUME sem \in [Semaphore -> Nat], sem' = Post({7, 0})
  PROVE  sem' \in [Semaphore -> Nat] /\ sem'[1] = sem[1]
<1>1. {7, 0} \in SUBSET Semaphore /\ 1 \notin {7, 0}
  OBVIOUS
<1>. QED BY <1>1, PostTypes

LEMMA PendTypes ==
  ASSUME sem \in [Semaphore -> Nat], NEW s \in Semaphore, Pend(s)
  PROVE  /\ sem' \in [Semaphore -> Nat]
         /\ sem[s] > 0 /\ sem'[s] = sem[s] - 1
         /\ \A t \in Semaphore \ {s} : sem'[t] = sem[t]
BY DEF Pend

LEMMA InitTypes == ASSUME Init PROVE TypeInv
<1>. USE DspAssumption DEF Init, DspInit
<1>a. /\ toDsp \in Seq(Command) /\ Len(toDsp) <= LinkDepth
      /\ toArm \in Seq(Frame) /\ Len(toArm) <= LinkDepth
      /\ handed \in Seq(Command)
  OBVIOUS
<1>b. /\ sem \in [Semaphore -> Nat]
      /\ samples \in [{0, 1} -> [1..Batch -> Nat]]
  OBVIOUS
<1>c. /\ receive \in {"receive", "pend7"} /\ send \in {"pend0", "send"}
      /\ calc40 \in CalcCode \cup {"pend1", "pend5", "start200", "dispersion"}
      /\ calc200 \in {"pend2", "swap", "calculate", "report"}
      /\ recvBuf \in Command \cup {Nothing} /\ taskFlag \in CalcCode \cup {"NONE"}
      /\ resFlag \subseteq Results /\ genRT \in Nat
      /\ sendBuf \in Frame \cup {Nothing}
      /\ swap \in {0, 1} /\ cached \in 0..Batch
      /\ firstCalc \in BOOLEAN /\ lostPoint \in BOOLEAN
  OBVIOUS
<1>1. DspTypeOK
  BY <1>a, <1>b, <1>c DEF DspTypeOK
<1>2. TypeOK
  <2>1. recvData \in [1..MaxRequests -> Nat]
    OBVIOUS
  <2>2. /\ request \in 0..MaxRequests /\ calcData \in 0..MaxRequests
        /\ pTmp \in 0..MaxRequests
        /\ sampled \in 0..MaxSamples /\ paged \in 0..MaxPage
    BY ClientAssumption
  <2>. QED BY <1>1, <2>1, <2>2 DEF TypeOK, EventState
<1>3. Handing
  BY DspAssumption DEF Init, DspInit, Handing, CalcCode
<1>4. FirstSend
  BY DEF FirstSend
<1>. QED BY <1>2, <1>3, <1>4 DEF TypeInv

(* The client's variables keep their types in a step of the DSP.           *)
LEMMA ClientKept ==
  ASSUME TypeOK, Watch, UNCHANGED clientVars, DspTypeOK' PROVE TypeOK'
BY DEF TypeOK, Watch, clientVars, eventVars, callerVars, readerVars

LEMMA FirstSendKept ==
  ASSUME TypeInv, DspNext PROVE FirstSend'
<1>a. sem \in [Semaphore -> Nat] /\ FirstSend
  BY DEF TypeInv, TypeOK, DspTypeOK
<1>1. ASSUME UNCHANGED <<sendBuf, send, resFlag>>, sem'[0] = sem[0]
      PROVE  FirstSend'
  BY <1>a, <1>1 DEF FirstSend
<1>2. ASSUME UNCHANGED <<sendBuf, send>>, NEW r, r \in resFlag'
      PROVE  FirstSend'
  BY <1>a, <1>2 DEF FirstSend
<1>3. CASE ReceiveDropped \/ ReceiveCalc \/ ReceivePend
  BY <1>a, <1>1, <1>3, PostTypes, PendTypes
  DEF ReceiveDropped, ReceiveCalc, ReceivePend
<1>4. CASE ReceiveOther \/ SmvGenHelper \/ MsgDispCalc \/ ReportHarmonics
  BY <1>2, <1>4 DEF ReceiveOther, SmvGenHelper, MsgDispCalc, ReportHarmonics
<1>5. CASE SendPend
  <2>1. CASE resFlag = {}
    BY <1>a, <1>5, <2>1 DEF SendPend, Pend, FirstSend
  <2>2. CASE resFlag # {}
    <3>1. FirstResult \in Results
      BY <2>2, FirstFlagged DEF TypeInv, TypeOK, DspTypeOK
    <3>2. sendBuf' # Nothing
      BY <1>5, <2>2, <3>1, Answers DEF SendPend, FrameOf, Nothing
    <3>. QED BY <3>2 DEF FirstSend
  <2>. QED BY <2>1, <2>2
<1>6. CASE SendExecute
  BY <1>a, <1>6 DEF SendExecute, FirstSend
<1>7. CASE Calc40Pend \/ CalculationDone \/ Calc200Pend
  BY <1>a, <1>1, <1>7, PendTypes DEF Calc40Pend, CalculationDone, Calc200Pend
<1>8. CASE RealSmvHelper
  <2>1. UNCHANGED <<sendBuf, send, resFlag>> /\ sem' \in {sem, Post({7})}
    BY <1>8 DEF RealSmvHelper
  <2>. QED BY <1>a, <1>1, <2>1, PostTypes
<1>9. CASE StartCalculation \/ MsgDispHelper \/ SwapBuffers \/ SmvDataCalc
  BY <1>a, <1>1, <1>9, PostTypes
  DEF StartCalculation, MsgDispHelper, SwapBuffers, SmvDataCalc
<1>. QED BY <1>3, <1>4, <1>5, <1>6, <1>7, <1>8, <1>9 DEF DspNext

LEMMA ReceiveTypes ==
  ASSUME TypeInv, Watch, UNCHANGED clientVars,
         ReceiveDropped \/ ReceiveCalc \/ ReceiveOther \/ ReceivePend
  PROVE  TypeOK' /\ Handing'
<1>. USE DEF TypeInv
<1>a. TypeOK /\ DspTypeOK /\ Handing /\ FirstSend
  BY DEF TypeOK
<1>0. ASSUME ReceiveNext
      PROVE  /\ recvBuf' \in Command /\ recvBuf' = Head(toDsp)
             /\ toDsp' \in Seq(Command) /\ Len(toDsp') <= LinkDepth
  BY <1>a, <1>0, DspAssumption DEF ReceiveNext, DspTypeOK
<1>1. CASE ReceiveDropped
  <2>1. DspTypeOK'
    BY <1>a, <1>0, <1>1 DEF ReceiveDropped, DspTypeOK
  <2>2. Handing'
    BY <1>a, <1>1 DEF ReceiveDropped, Handing
  <2>. QED BY <1>a, <2>1, <2>2, ClientKept
<1>2. CASE ReceiveCalc
  <2>1. /\ sem' \in [Semaphore -> Nat]
        /\ sem'[1] = sem[1] + 1
    BY <1>a, <1>2, PostTypes DEF ReceiveCalc, DspTypeOK
  <2>2. /\ handed' \in Seq(Command) /\ Len(handed') = Len(handed) + 1
        /\ taskFlag' \in CalcCode
    BY <1>a, <1>0, <1>2 DEF ReceiveCalc, DspTypeOK
  <2>3. DspTypeOK'
    BY <1>a, <1>0, <1>2, <2>1, <2>2 DEF ReceiveCalc, DspTypeOK
  <2>4. /\ calc40' = calc40 /\ cached' = cached
        /\ sem[1] \in Nat /\ Len(handed) \in Nat
    BY <1>a, <1>2 DEF ReceiveCalc, DspTypeOK
  <2>5. Handing'
    <3>1. Len(handed) = sem[1] + (IF calc40 \in CalcCode THEN 1 ELSE 0)
      BY <1>a DEF Handing
    <3>2. Len(handed)' = sem[1]' + (IF calc40' \in CalcCode THEN 1 ELSE 0)
      BY <2>1, <2>2, <2>4, <3>1
    <3> QED
      BY <1>a, <2>2, <2>4, <3>2 DEF Handing
  <2>. QED BY <1>a, <2>3, <2>5, ClientKept
<1>3. CASE ReceiveOther
  <2>1. /\ sem' \in [Semaphore -> Nat]
        /\ sem'[1] = sem[1]
    <3>1. sem' = Post({7, 0})
      BY <1>3 DEF ReceiveOther
    <3>. QED BY <1>a, <3>1, TwoPosted DEF DspTypeOK
  <2>2. resFlag' \subseteq Results
    <3>1. resFlag' = resFlag \cup {Answer[Head(toDsp).code]}
          /\ Head(toDsp).code \in DOMAIN Answer
      BY <1>3 DEF ReceiveOther
    <3>2. Answer[Head(toDsp).code] \in Results
      BY <3>1, Answers
    <3>. QED BY <1>a, <3>1, <3>2 DEF DspTypeOK
  <2>3. cached' \in 0..Batch /\ (cached < Batch => cached' < Batch)
    <3>1. cached' \in {0, cached}
      BY <1>3 DEF ReceiveOther
    <3>. QED BY <1>a, <3>1, DspAssumption DEF DspTypeOK
  <2>4. ReceiveNext /\ UNCHANGED <<toArm, taskFlag, calc40, calc200, send, handed,
                        genRT, sendBuf, samples, swap, firstCalc, lostPoint>>
        /\ receive' = "pend7"
    BY <1>3 DEF ReceiveOther
  <2>5. DspTypeOK'
    BY <1>a, <1>0, <2>1, <2>2, <2>3, <2>4 DEF DspTypeOK
  <2>6. Handing'
    BY <1>a, <2>1, <2>3, <2>4 DEF Handing
  <2>. QED BY <1>a, <2>5, <2>6, ClientKept
<1>4. CASE ReceivePend
  <2>1. /\ sem' \in [Semaphore -> Nat]
        /\ sem'[1] = sem[1]
    BY <1>a, <1>4, PendTypes DEF ReceivePend, DspTypeOK
  <2>2. DspTypeOK'
    BY <1>a, <1>4, <2>1 DEF ReceivePend, DspTypeOK
  <2>3. Handing'
    BY <1>a, <1>4, <2>1 DEF ReceivePend, Handing
  <2>. QED BY <1>a, <2>2, <2>3, ClientKept
<1>. QED BY <1>1, <1>2, <1>3, <1>4

LEMMA SendTypes ==
  ASSUME TypeInv, Watch, UNCHANGED clientVars, SendPend \/ SendExecute
  PROVE  TypeOK' /\ Handing'
<1>. USE DEF TypeInv
<1>a. TypeOK /\ DspTypeOK /\ Handing /\ FirstSend
  BY DEF TypeOK
<1>1. CASE SendPend
  <2>1. sem' \in [Semaphore -> Nat] /\ sem'[1] = sem[1]
    BY <1>a, <1>1, PendTypes DEF SendPend, DspTypeOK
  <2>2. sendBuf' \in Frame \cup {Nothing} /\ resFlag' \subseteq Results
    <3>1. CASE resFlag = {}
      BY <1>a, <1>1, <3>1 DEF SendPend, DspTypeOK
    <3>2. CASE resFlag # {}
      <4>1. FirstResult \in Results
        BY <1>a, <3>2, FirstFlagged DEF DspTypeOK
      <4>2. FrameOf(FirstResult) \in Frame
        BY <1>a, <4>1 DEF FrameOf, Frame, DspTypeOK
      <4>. QED BY <1>a, <1>1, <3>2, <4>2 DEF SendPend, DspTypeOK
    <3>. QED BY <3>1, <3>2
  <2>3. send' = "send" /\ UNCHANGED <<linkVars, receive, calc40, calc200, bufVars,
                                     handed, genRT, sampleVars>>
    BY <1>1 DEF SendPend
  <2>4. DspTypeOK' /\ Handing'
    BY <1>a, <2>1, <2>2, <2>3 DEF DspTypeOK, Handing
  <2>. QED BY <1>a, <2>4, ClientKept
<1>2. CASE SendExecute
  <2>0. sendBuf \in Frame
    BY <1>a, <1>2 DEF SendExecute, FirstSend, DspTypeOK
  <2>1. toArm' \in Seq(Frame) /\ Len(toArm') <= LinkDepth
    BY <1>a, <1>2, <2>0, DspAssumption DEF SendExecute, DspTypeOK
  <2>2. DspTypeOK'
    BY <1>a, <1>2, <2>1 DEF SendExecute, DspTypeOK
  <2>3. Handing'
    BY <1>a, <1>2 DEF SendExecute, Handing
  <2>. QED BY <1>a, <2>2, <2>3, ClientKept
<1>. QED BY <1>1, <1>2

LEMMA Calc40Types ==
  ASSUME TypeInv, Watch, UNCHANGED clientVars,
         \/ Calc40Pend \/ SmvGenHelper \/ RealSmvHelper \/ CalculationDone
         \/ StartCalculation \/ MsgDispHelper \/ MsgDispCalc
  PROVE  TypeOK' /\ Handing'
<1>. USE DspAssumption DEF TypeInv
<1>a. TypeOK /\ DspTypeOK /\ Handing /\ FirstSend
  BY DEF TypeOK
<1>b. ASSUME calc40 \in CalcCode, handed' = Tail(handed)
      PROVE  handed' \in Seq(Command) /\ Len(handed') = sem[1]
  BY <1>a, <1>b DEF Handing, DspTypeOK
<1>c. Results = {"ERROR", "INFO", "SMV_GEN_RT", "MSG_DISP_RT", "SMV_CALC_RT"}
  BY Answers
<1>1. CASE Calc40Pend
  <2>1. sem' \in [Semaphore -> Nat] /\ sem'[1] = sem[1] - 1 /\ sem[1] > 0
    BY <1>a, <1>1, PendTypes DEF Calc40Pend, DspTypeOK
  <2>2. calc40 = "pend1" /\ calc40' = taskFlag /\ taskFlag \in CalcCode
        /\ UNCHANGED <<taskFlag, handed, cached>>
    BY <1>a, <1>1, <2>1 DEF Calc40Pend, Handing
  <2>3. DspTypeOK'
    BY <1>a, <1>1, <2>1, <2>2 DEF Calc40Pend, DspTypeOK
  <2>4. Handing'
    <3>1. calc40 \notin CalcCode /\ calc40 \notin {"pend5", "start200"}
          /\ calc40' \in CalcCode /\ sem[1] \in Nat
      BY <1>a, <2>2 DEF CalcCode, DspTypeOK
    <3>. QED BY <1>a, <2>1, <2>2, <3>1 DEF Handing
  <2>. QED BY <1>a, <2>3, <2>4, ClientKept
<1>2. CASE SmvGenHelper
  <2>1. sem' = Post({7, 0})
    BY <1>2 DEF SmvGenHelper
  <2>2. sem' \in [Semaphore -> Nat] /\ sem'[1] = sem[1]
    BY <1>a, <2>1, TwoPosted DEF DspTypeOK
  <2>3. calc40 \in CalcCode /\ handed' = Tail(handed) /\ calc40' = "pend1"
    BY <1>2 DEF SmvGenHelper, CalcCode
  <2>4. genRT' \in Nat /\ resFlag' \subseteq Results
    <3>1. recvBuf.id \in Nat
      BY <1>a DEF DspTypeOK, Command, Nothing
    <3>. QED BY <1>a, <1>2, <1>c, <3>1 DEF SmvGenHelper, DspTypeOK
  <2>5. DspTypeOK'
    BY <1>a, <1>b, <1>2, <2>2, <2>3, <2>4 DEF SmvGenHelper, DspTypeOK
  <2>6. Handing'
    BY <1>a, <1>b, <1>2, <2>2, <2>3 DEF SmvGenHelper, Handing, CalcCode
  <2>. QED BY <1>a, <2>5, <2>6, ClientKept
<1>3. CASE RealSmvHelper
  <2>0. samples' = [samples EXCEPT ![swap][cached + 1] = recvBuf.id]
    BY <1>3 DEF RealSmvHelper
  <2>1. /\ calc40 = "SMV_DATA" /\ calc40 \in CalcCode /\ handed' = Tail(handed)
        /\ UNCHANGED <<linkVars, receive, calc200, send, bufVars, resultVars,
                       sendBuf, swap>>
    BY <1>3 DEF RealSmvHelper, CalcCode
  <2>2. /\ handed' \in Seq(Command) /\ Len(handed') = sem[1]
        /\ cached < Batch
    BY <1>a, <1>b, <2>1 DEF Handing
  <2>3. samples' \in [{0, 1} -> [1..Batch -> Nat]]
    <3>1. recvBuf.id \in Nat
      BY <1>a DEF DspTypeOK, Command, Nothing
    <3>. QED BY <1>a, <2>0, <2>2, <3>1 DEF DspTypeOK
  <2>4. CASE cached + 1 < Batch
    <3>1. sem' = Post({7}) /\ calc40' = "pend1" /\ cached' = cached + 1
          /\ firstCalc' \in BOOLEAN /\ lostPoint' \in BOOLEAN
      BY <1>a, <1>3, <2>4 DEF RealSmvHelper, DspTypeOK
    <3>2. sem' \in [Semaphore -> Nat] /\ sem'[1] = sem[1]
      BY <1>a, <3>1, PostTypes DEF DspTypeOK
    <3>3. DspTypeOK'
      <4>1. cached' \in 0..Batch
        BY <1>a, <2>4, <3>1 DEF DspTypeOK
      <4>. QED BY <1>a, <2>1, <2>2, <2>3, <3>1, <3>2, <4>1 DEF DspTypeOK
    <3>4. Handing'
      BY <1>a, <2>1, <2>2, <2>4, <3>1, <3>2 DEF Handing, CalcCode
    <3>. QED BY <1>a, <3>3, <3>4, ClientKept
  <2>5. CASE ~(cached + 1 < Batch)
    <3>1. /\ sem' \in {sem, Post({7})} /\ calc40' \in {"start200", "pend5"}
          /\ cached' = cached + 1
          /\ firstCalc' \in BOOLEAN /\ lostPoint' \in BOOLEAN
      BY <1>a, <1>3, <2>5 DEF RealSmvHelper, DspTypeOK
    <3>2. sem' \in [Semaphore -> Nat] /\ sem'[1] = sem[1]
      BY <1>a, <3>1, PostTypes DEF DspTypeOK
    <3>3. DspTypeOK'
      <4>1. cached' \in 0..Batch
        BY <1>a, <2>2, <3>1 DEF DspTypeOK
      <4>. QED BY <1>a, <2>1, <2>2, <2>3, <3>1, <3>2, <4>1 DEF DspTypeOK
    <3>4. Handing'
      BY <1>a, <2>1, <2>2, <2>5, <3>1, <3>2 DEF Handing, CalcCode
    <3>. QED BY <1>a, <3>3, <3>4, ClientKept
  <2>. QED BY <2>4, <2>5
<1>4. CASE CalculationDone
  <2>1. sem' \in [Semaphore -> Nat] /\ sem'[1] = sem[1]
    BY <1>a, <1>4, PendTypes DEF CalculationDone, DspTypeOK
  <2>2. DspTypeOK'
    BY <1>a, <1>4, <2>1 DEF CalculationDone, DspTypeOK
  <2>3. Handing'
    BY <1>a, <1>4, <2>1 DEF CalculationDone, Handing, CalcCode
  <2>. QED BY <1>a, <2>2, <2>3, ClientKept
<1>5. CASE StartCalculation
  <2>1. sem' \in [Semaphore -> Nat] /\ sem'[1] = sem[1]
    BY <1>a, <1>5, PostTypes DEF StartCalculation, DspTypeOK
  <2>2. DspTypeOK'
    BY <1>a, <1>5, <2>1 DEF StartCalculation, DspTypeOK
  <2>3. Handing'
    BY <1>a, <1>5, <2>1 DEF StartCalculation, Handing, CalcCode
  <2>. QED BY <1>a, <2>2, <2>3, ClientKept
<1>6. CASE MsgDispHelper
  <2>1. sem' \in [Semaphore -> Nat] /\ sem'[1] = sem[1]
    BY <1>a, <1>6, PostTypes DEF MsgDispHelper, DspTypeOK
  <2>2. calc40 \in CalcCode /\ handed' = Tail(handed)
        /\ calc40' \in {"pend1", "dispersion"} /\ calc40 = "TIME_DATA"
    BY <1>6 DEF MsgDispHelper, CalcCode
  <2>3. DspTypeOK'
    <3>1. handed' \in Seq(Command)
      BY <1>b, <2>2
    <3>. QED BY <1>a, <1>6, <2>1, <2>2, <3>1 DEF MsgDispHelper, DspTypeOK
  <2>4. Handing'
    BY <1>a, <1>b, <1>6, <2>1, <2>2 DEF MsgDispHelper, Handing, CalcCode
  <2>. QED BY <1>a, <2>3, <2>4, ClientKept
<1>7. CASE MsgDispCalc
  <2>1. sem' \in [Semaphore -> Nat] /\ sem'[1] = sem[1]
    BY <1>a, <1>7, PostTypes DEF MsgDispCalc, DspTypeOK
  <2>2. resFlag' \subseteq Results
    BY <1>a, <1>7, <1>c DEF MsgDispCalc, DspTypeOK
  <2>3. DspTypeOK'
    BY <1>a, <1>7, <2>1, <2>2 DEF MsgDispCalc, DspTypeOK
  <2>4. Handing'
    BY <1>a, <1>7, <2>1 DEF MsgDispCalc, Handing, CalcCode
  <2>. QED BY <1>a, <2>3, <2>4, ClientKept
<1>. QED BY <1>1, <1>2, <1>3, <1>4, <1>5, <1>6, <1>7

LEMMA Calc200Types ==
  ASSUME TypeInv, Watch, UNCHANGED clientVars,
         Calc200Pend \/ SwapBuffers \/ SmvDataCalc \/ ReportHarmonics
  PROVE  TypeOK' /\ Handing'
<1>. USE DEF TypeInv
<1>a. TypeOK /\ DspTypeOK /\ Handing
  BY DEF TypeOK
<1>b. Results = {"ERROR", "INFO", "SMV_GEN_RT", "MSG_DISP_RT", "SMV_CALC_RT"}
  BY Answers
<1>1. CASE Calc200Pend
  <2>1. sem' \in [Semaphore -> Nat] /\ sem'[1] = sem[1]
    BY <1>a, <1>1, PendTypes DEF Calc200Pend, DspTypeOK
  <2>2. DspTypeOK'
    BY <1>a, <1>1, <2>1 DEF Calc200Pend, DspTypeOK
  <2>3. Handing'
    BY <1>a, <1>1, <2>1 DEF Calc200Pend, Handing
  <2>. QED BY <1>a, <2>2, <2>3, ClientKept
<1>2. CASE SwapBuffers
  <2>1. sem' \in [Semaphore -> Nat] /\ sem'[1] = sem[1]
    BY <1>a, <1>2, PostTypes DEF SwapBuffers, DspTypeOK
  <2>2. swap' \in {0, 1} /\ lostPoint' \in BOOLEAN
    <3>1. swap' = 1 - swap
      BY <1>2 DEF SwapBuffers
    <3>2. lostPoint' \in BOOLEAN
      BY <1>2, Zenon DEF SwapBuffers
    <3>. QED BY <1>a, <3>1, <3>2 DEF DspTypeOK
  <2>3. /\ calc200' = "calculate"
        /\ UNCHANGED <<linkVars, receive, calc40, send, bufVars, handed,
                       resultVars, sendBuf, samples, cached, firstCalc>>
    BY <1>2 DEF SwapBuffers
  <2>4. DspTypeOK'
    BY <1>a, <2>1, <2>2, <2>3 DEF DspTypeOK
  <2>5. Handing'
    BY <1>a, <2>1, <2>3 DEF Handing
  <2>. QED BY <1>a, <2>4, <2>5, ClientKept
<1>3. CASE SmvDataCalc
  <2>1. sem' \in [Semaphore -> Nat] /\ sem'[1] = sem[1]
    BY <1>a, <1>3, PostTypes DEF SmvDataCalc, DspTypeOK
  <2>2. DspTypeOK'
    BY <1>a, <1>3, <2>1 DEF SmvDataCalc, DspTypeOK
  <2>3. Handing'
    BY <1>a, <1>3, <2>1 DEF SmvDataCalc, Handing
  <2>. QED BY <1>a, <2>2, <2>3, ClientKept
<1>4. CASE ReportHarmonics
  <2>1. sem' \in [Semaphore -> Nat] /\ sem'[1] = sem[1]
    BY <1>a, <1>4, PostTypes DEF ReportHarmonics, DspTypeOK
  <2>2. resFlag' \subseteq Results
    BY <1>a, <1>b, <1>4 DEF ReportHarmonics, DspTypeOK
  <2>3. DspTypeOK'
    BY <1>a, <1>4, <2>1, <2>2 DEF ReportHarmonics, DspTypeOK
  <2>4. Handing'
    BY <1>a, <1>4, <2>1 DEF ReportHarmonics, Handing
  <2>. QED BY <1>a, <2>3, <2>4, ClientKept
<1>. QED BY <1>1, <1>2, <1>3, <1>4

(* What a frame put on the link does to the DSP's variables: nothing but   *)
(* that.                                                                   *)
LEMMA Sent ==
  ASSUME TypeInv,
         NEW code \in CalcCode \cup DOMAIN Answer, NEW id \in Nat,
         FrameSend(code, id)
  PROVE  /\ DspTypeOK' /\ Handing' /\ FirstSend'
         /\ pressed' \in BOOLEAN
<1>1. [code |-> code, id |-> id] \in Command
  BY DEF Command
<1>2. toDsp' \in Seq(Command) /\ Len(toDsp') <= LinkDepth /\ toArm' = toArm
  BY <1>1, DspAssumption DEF FrameSend, TypeInv, TypeOK, DspTypeOK
<1>3. DspTypeOK'
  <2>1. DspTypeOK
    BY DEF TypeInv, TypeOK
  <2>. QED BY <1>2, <2>1 DEF DspTypeOK, FrameSend, dspVars
<1>4. Handing' /\ FirstSend'
  BY DEF TypeInv, Handing, FirstSend, FrameSend, dspVars
<1>5. pressed' \in BOOLEAN
  BY DEF FrameSend, Watch
<1>. QED BY <1>3, <1>4, <1>5

LEMMA Quiet ==
  ASSUME TypeInv, UNCHANGED dspVars, UNCHANGED linkVars
  PROVE  DspTypeOK' /\ Handing' /\ FirstSend'
<1>1. DspTypeOK'
  BY DEF TypeInv, TypeOK, DspTypeOK, dspVars
<1>2. Handing' /\ FirstSend'
  BY DEF TypeInv, Handing, FirstSend, dspVars
<1>. QED BY <1>1, <1>2

LEMMA CallerTypes ==
  ASSUME TypeInv, CallerNext PROVE TypeInv'
<1>. USE ClientAssumption
     DEF TypeInv, eventVars, callerVars, readerVars, pageVars, EventState
<1>a. TypeOK
  OBVIOUS
<1>1. CASE Construct
  <2>1. DspTypeOK' /\ Handing' /\ FirstSend'
    BY <1>1, Quiet DEF Construct
  <2>. QED BY <1>a, <1>1, <2>1 DEF Construct, TypeOK
<1>2. CASE GetDspInfo
  <2>1. DspTypeOK' /\ Handing' /\ FirstSend' /\ pressed' \in BOOLEAN
    <3>1. "INFO" \in DOMAIN Answer /\ 0 \in Nat
      BY Answers
    <3>2. CASE FrameSend("INFO", 0)
      BY <3>1, <3>2, Sent
    <3>3. CASE UNCHANGED <<linkVars, dspVars, pressed>>
      BY <1>a, <3>3, Quiet DEF TypeOK
    <3>. QED BY <1>2, <3>2, <3>3 DEF GetDspInfo
  <2>. QED BY <1>a, <1>2, <2>1 DEF GetDspInfo, TypeOK
<1>3. CASE CheckSend
  <2>1. DspTypeOK' /\ Handing' /\ FirstSend'
    BY <1>3, Quiet DEF CheckSend
  <2>. QED BY <1>a, <1>3, <2>1 DEF CheckSend, TypeOK
<1>4. CASE StoreBuffer
  <2>1. DspTypeOK' /\ Handing' /\ FirstSend'
    BY <1>4, Quiet DEF StoreBuffer
  <2>. QED BY <1>a, <1>4, <2>1 DEF StoreBuffer, TypeOK
<1>5. CASE SendGen
  <2>1. DspTypeOK' /\ Handing' /\ FirstSend' /\ pressed' \in BOOLEAN
    <3>1. "SMV_GEN" \in CalcCode /\ request \in Nat
      BY <1>a DEF CalcCode, TypeOK
    <3>. QED BY <1>5, <3>1, Sent DEF SendGen
  <2>. QED BY <1>a, <1>5, <2>1 DEF SendGen, TypeOK
<1>6. CASE SendFails \/ WaitForObject \/ WaitTimesOut \/ Framed
  <2>1. DspTypeOK' /\ Handing' /\ FirstSend'
    BY <1>6, Quiet DEF SendFails, WaitForObject, WaitTimesOut, Framed
  <2>. QED BY <1>a, <1>6, <2>1
           DEF SendFails, WaitForObject, WaitTimesOut, Framed, Destruct, TypeOK
<1>. QED BY <1>1, <1>2, <1>3, <1>4, <1>5, <1>6 DEF CallerNext

LEMMA ReaderTypes ==
  ASSUME TypeInv, ReaderNext PROVE TypeInv'
<1>. USE ClientAssumption
     DEF TypeInv, eventVars, callerVars, readerVars, pageVars, EventState
<1>a. TypeOK
  OBVIOUS
<1>1. CASE ReadFrame
  <2>1. /\ toArm' \in Seq(Frame) /\ Len(toArm') <= LinkDepth
        /\ Head(toArm) \in Frame
    BY <1>a, <1>1, DspAssumption DEF ReadFrame, TypeOK, DspTypeOK
  <2>2. DspTypeOK'
    BY <1>a, <1>1, <2>1 DEF ReadFrame, TypeOK, DspTypeOK, dspVars
  <2>3. Handing' /\ FirstSend'
    BY <1>1 DEF ReadFrame, Handing, FirstSend, dspVars
  <2>4. /\ frame' \in Frame \cup {Nothing} /\ pTmp' \in 0..MaxRequests
        /\ reader' \in {"recv", "iEvent", "copy", "oEvent"}
        /\ (reader' # "recv" => pTmp' # 0)
    BY <1>a, <1>1, <2>1 DEF ReadFrame, ForCaller, TypeOK
  <2>5. UNCHANGED <<eventVars, callerVars, recvData, pageVars>>
    BY <1>1 DEF ReadFrame
  <2>6. TypeOK'
    BY <1>a, <2>2, <2>4, <2>5 DEF TypeOK
  <2>. QED BY <2>3, <2>6
<1>2. CASE SignalSend
  <2>1. DspTypeOK' /\ Handing' /\ FirstSend'
    BY <1>2, Quiet DEF SignalSend
  <2>. QED BY <1>a, <1>2, <2>1 DEF SignalSend, Signal, TypeOK
<1>3. CASE CopyResult
  <2>1. DspTypeOK' /\ Handing' /\ FirstSend'
    BY <1>3, Quiet DEF CopyResult
  <2>2. recvData' \in [1..MaxRequests -> Nat]
    <3>1. frame.id \in Nat
      BY <1>a DEF TypeOK, Frame, Nothing
    <3>. QED BY <1>a, <1>3, <3>1 DEF CopyResult, TypeOK
  <2>. QED BY <1>a, <1>3, <2>1, <2>2 DEF CopyResult, TypeOK
<1>4. CASE SignalReceive
  <2>1. DspTypeOK' /\ Handing' /\ FirstSend'
    BY <1>4, Quiet DEF SignalReceive
  <2>. QED BY <1>a, <1>4, <2>1 DEF SignalReceive, Signal, TypeOK
<1>. QED BY <1>1, <1>2, <1>3, <1>4 DEF ReaderNext

LEMMA PageTypes ==
  ASSUME TypeInv, SendSmv \/ PageSends PROVE TypeInv'
<1>. USE ClientAssumption
     DEF TypeInv, eventVars, callerVars, readerVars, pageVars
<1>a. TypeOK
  OBVIOUS
<1>1. CASE SendSmv
  <2>1. DspTypeOK' /\ Handing' /\ FirstSend' /\ pressed' \in BOOLEAN
    <3>1. "SMV_DATA" \in CalcCode /\ sampled + 1 \in Nat
      BY <1>a DEF CalcCode, TypeOK
    <3>. QED BY <1>1, <3>1, Sent DEF SendSmv
  <2>. QED BY <1>a, <1>1, <2>1 DEF SendSmv, TypeOK
<1>2. CASE PageSends
  <2>1. DspTypeOK' /\ Handing' /\ FirstSend' /\ pressed' \in BOOLEAN
    <3>1. PageCommands \subseteq CalcCode \cup DOMAIN Answer /\ 0 \in Nat
      BY Answers DEF CalcCode
    <3>. QED BY <1>2, <3>1, Sent DEF PageSends
  <2>. QED BY <1>a, <1>2, <2>1 DEF PageSends, TypeOK
<1>. QED BY <1>1, <1>2

LEMMA TypesKept == ASSUME TypeInv, [Next]_vars PROVE TypeInv'
<1>1. CASE DspStep
  <2>1. DspNext /\ Watch /\ UNCHANGED clientVars
    BY <1>1 DEF DspStep, clientVars
  <2>2. FirstSend'
    BY <2>1, FirstSendKept
  <2>3. TypeOK' /\ Handing'
    BY <2>1, ReceiveTypes, SendTypes, Calc40Types, Calc200Types DEF DspNext
  <2>. QED BY <2>2, <2>3 DEF TypeInv
<1>2. CASE UNCHANGED vars
  <2>1. DspTypeOK' /\ Handing' /\ FirstSend'
    BY <1>2, Quiet DEF vars
  <2>. QED BY <1>2, <2>1 DEF TypeInv, TypeOK, vars, eventVars, callerVars,
                             readerVars, pageVars
<1>. QED BY <1>1, <1>2, CallerTypes, ReaderTypes, PageTypes DEF Next

(* Every variable of the DSP and of its client has its type, in both modes *)
(* of the firmware: also where g_recvBuf is overwritten, no batch is       *)
(* overfilled and nothing is sent that was not a result.                   *)
THEOREM DspTypeCorrect == Spec => []TypeOK
<1>1. Init => TypeInv
  BY InitTypes
<1>2. TypeInv /\ [Next]_vars => TypeInv'
  BY TypesKept
<1>3. TypeInv => TypeOK
  BY DEF TypeInv
<1>. QED BY <1>1, <1>2, <1>3, PTL DEF Spec

-----------------------------------------------------------------------------
(* A first batch starts a calculation, and each later one waits for the    *)
(* end of the one before.                                                  *)
Calculating ==
  /\ ~firstCalc /\ calc40 # "start200" => sem[5] > 0 \/ Started
  /\ calc40 = "pend5" => ~firstCalc

StallInv == NoStall /\ Calculating /\ LossEnds

taskVars == <<receive, calc40, calc200, sem, firstCalc, lostPoint>>

LEMMA StallUnchanged == ASSUME StallInv, UNCHANGED taskVars PROVE StallInv'
BY DEF StallInv, NoStall, Calculating, LossEnds, Holding, Started, taskVars

LEMMA ReceiveStalls ==
  ASSUME Counts, StallInv,
         ReceiveDropped \/ ReceiveCalc \/ ReceiveOther \/ ReceivePend
  PROVE  StallInv'
<1>. USE DEF StallInv, NoStall, Calculating, LossEnds, Holding, Started
<1>1. CASE ReceiveDropped
  BY <1>1 DEF ReceiveDropped
<1>2. CASE ReceiveCalc
  <2>1. /\ sem'[1] = sem[1] + 1 /\ sem'[2] = sem[2] /\ sem'[5] = sem[5]
        /\ sem'[7] = sem[7]
        /\ UNCHANGED <<calc40, calc200, firstCalc, lostPoint>>
    BY <1>2, PostCounts DEF ReceiveCalc
  <2>. QED BY <2>1 DEF Counts
<1>3. CASE ReceiveOther
  <2>1. sem' = Post({7, 0}) /\ UNCHANGED <<calc40, calc200, firstCalc, lostPoint>>
    BY <1>3 DEF ReceiveOther
  <2>2. /\ sem'[1] = sem[1] /\ sem'[2] = sem[2] /\ sem'[5] = sem[5]
        /\ sem'[7] = sem[7] + 1
    BY <2>1, PostCounts
  <2>. QED BY <2>1, <2>2 DEF Counts
<1>4. CASE ReceivePend
  <2>1. /\ sem'[1] = sem[1] /\ sem'[2] = sem[2] /\ sem'[5] = sem[5]
        /\ receive' = "receive"
        /\ UNCHANGED <<calc40, calc200, firstCalc, lostPoint>>
    BY <1>4, PendCounts DEF ReceivePend
  <2>. QED BY <2>1
<1>. QED BY <1>1, <1>2, <1>3, <1>4

LEMMA SendStalls ==
  ASSUME Counts, StallInv, SendPend \/ SendExecute PROVE StallInv'
<1>1. CASE SendPend
  <2>1. /\ sem'[1] = sem[1] /\ sem'[2] = sem[2] /\ sem'[5] = sem[5]
        /\ sem'[7] = sem[7]
        /\ UNCHANGED <<receive, calc40, calc200, firstCalc, lostPoint>>
    BY <1>1, PendCounts DEF SendPend
  <2>. QED BY <2>1 DEF StallInv, NoStall, Calculating, LossEnds, Holding, Started
<1>2. CASE SendExecute
  BY <1>2, StallUnchanged DEF SendExecute, taskVars
<1>. QED BY <1>1, <1>2

LEMMA Calc40Stalls ==
  ASSUME Counts, TypeInv, StallInv,
         \/ Calc40Pend \/ SmvGenHelper \/ RealSmvHelper \/ CalculationDone
         \/ StartCalculation \/ MsgDispHelper \/ MsgDispCalc
  PROVE  StallInv'
<1>. USE DEF StallInv, NoStall, Calculating, LossEnds, Holding, Started
<1>1. CASE Calc40Pend
  <2>1. /\ sem[1] > 0 /\ sem'[1] = sem[1] - 1 /\ sem'[2] = sem[2]
        /\ sem'[5] = sem[5] /\ sem'[7] = sem[7]
        /\ calc40 = "pend1" /\ calc40' = taskFlag
        /\ UNCHANGED <<receive, calc200, firstCalc, lostPoint>>
    BY <1>1, PendCounts DEF Calc40Pend
  <2>2. calc40' \in CalcCode /\ calc40' \notin {"pend5", "start200"}
    BY <2>1 DEF TypeInv, Handing, CalcCode
  <2>. QED BY <2>1, <2>2 DEF Counts
<1>2. CASE SmvGenHelper
  <2>1. /\ sem' = Post({7, 0}) /\ calc40 = "SMV_GEN" /\ calc40' = "pend1"
        /\ UNCHANGED <<receive, calc200, firstCalc, lostPoint>>
    BY <1>2 DEF SmvGenHelper
  <2>2. /\ sem'[1] = sem[1] /\ sem'[2] = sem[2] /\ sem'[5] = sem[5]
        /\ sem'[7] = sem[7] + 1
    BY <2>1, PostCounts
  <2>. QED BY <2>1, <2>2 DEF Counts
<1>3. CASE RealSmvHelper
  <2>1. calc40 = "SMV_DATA" /\ UNCHANGED <<receive, calc200>>
    BY <1>3 DEF RealSmvHelper
  <2>2. CASE cached + 1 < Batch
    <3>1. /\ sem'[1] = sem[1] /\ sem'[2] = sem[2] /\ sem'[5] = sem[5]
          /\ sem'[7] = sem[7] + 1 /\ calc40' = "pend1"
          /\ UNCHANGED <<firstCalc, lostPoint>>
      BY <1>3, <2>2, PostCounts DEF RealSmvHelper
    <3>. QED BY <2>1, <3>1 DEF Counts
  <2>3. CASE ~(cached + 1 < Batch)
    <3>1. /\ sem' \in {sem, Post({7})}
          /\ calc40' = IF firstCalc THEN "start200" ELSE "pend5"
          /\ ~firstCalc'
      BY <1>3, <2>3 DEF RealSmvHelper
    <3>2. sem'[2] = sem[2] /\ sem'[5] = sem[5]
      BY <3>1, PostCounts
    <3>. QED BY <2>1, <3>1, <3>2
  <2>. QED BY <2>2, <2>3
<1>4. CASE CalculationDone
  <2>1. /\ sem'[1] = sem[1] /\ sem'[2] = sem[2] /\ sem'[7] = sem[7]
        /\ calc40 = "pend5" /\ calc40' = "start200"
    BY <1>4, PendCounts DEF CalculationDone
  <2>. QED BY <2>1
<1>5. CASE StartCalculation
  <2>1. /\ sem'[1] = sem[1] /\ sem'[2] = sem[2] + 1 /\ sem'[7] = sem[7]
        /\ calc40' = "pend1"
    BY <1>5, PostCounts DEF StartCalculation
  <2>. QED BY <2>1 DEF Counts
<1>6. CASE MsgDispHelper
  <2>1. /\ sem'[1] = sem[1] /\ sem'[2] = sem[2] /\ sem'[5] = sem[5]
        /\ sem'[7] = sem[7] + 1
        /\ calc40 = "TIME_DATA" /\ calc40' \in {"pend1", "dispersion"}
        /\ UNCHANGED <<calc200, firstCalc, lostPoint>>
    BY <1>6, PostCounts DEF MsgDispHelper
  <2>. QED BY <2>1 DEF Counts
<1>7. CASE MsgDispCalc
  <2>1. /\ sem'[1] = sem[1] /\ sem'[2] = sem[2] /\ sem'[5] = sem[5]
        /\ sem'[7] = sem[7]
        /\ calc40 = "dispersion" /\ calc40' = "pend1"
        /\ UNCHANGED <<receive, calc200, firstCalc, lostPoint>>
    BY <1>7, PostCounts DEF MsgDispCalc
  <2>. QED BY <2>1 DEF CalcCode
<1>. QED BY <1>1, <1>2, <1>3, <1>4, <1>5, <1>6, <1>7

LEMMA Calc200Stalls ==
  ASSUME Counts, StallInv,
         Calc200Pend \/ SwapBuffers \/ SmvDataCalc \/ ReportHarmonics
  PROVE  StallInv'
<1>. USE DEF StallInv, NoStall, Calculating, LossEnds, Holding, Started
<1>1. CASE Calc200Pend
  <2>1. /\ sem'[5] = sem[5] /\ calc200' = "swap"
        /\ UNCHANGED <<receive, calc40, firstCalc, lostPoint>>
    BY <1>1, PendCounts DEF Calc200Pend
  <2>. QED BY <2>1
<1>2. CASE SwapBuffers
  <2>1. /\ sem'[7] = sem[7] + 1 /\ sem'[1] = sem[1] /\ sem'[2] = sem[2]
        /\ calc200' = "calculate" /\ ~lostPoint'
        /\ UNCHANGED <<receive, calc40, firstCalc>>
    BY <1>2, PostCounts DEF SwapBuffers
  <2>. QED BY <2>1 DEF Counts
<1>3. CASE SmvDataCalc
  <2>1. /\ sem'[1] = sem[1] /\ sem'[2] = sem[2] /\ sem'[5] = sem[5] + 1
        /\ sem'[7] = sem[7] /\ calc200 = "calculate"
        /\ UNCHANGED <<receive, calc40, firstCalc, lostPoint>>
    BY <1>3, PostCounts DEF SmvDataCalc
  <2>. QED BY <2>1 DEF Counts
<1>4. CASE ReportHarmonics
  <2>1. /\ sem'[1] = sem[1] /\ sem'[2] = sem[2] /\ sem'[5] = sem[5]
        /\ sem'[7] = sem[7] /\ calc200 = "report"
        /\ UNCHANGED <<receive, calc40, firstCalc, lostPoint>>
    BY <1>4, PostCounts DEF ReportHarmonics
  <2>. QED BY <2>1
<1>. QED BY <1>1, <1>2, <1>3, <1>4

LEMMA StallStep ==
  ASSUME TypeInv, StallInv, [Next]_vars PROVE StallInv'
<1>1. Counts
  BY DEF TypeInv, TypeOK, DspTypeOK, Counts
<1>2. CASE DspStep
  BY <1>1, <1>2, ReceiveStalls, SendStalls, Calc40Stalls, Calc200Stalls
  DEF DspStep, DspNext
<1>3. CASE CallerNext
  BY <1>3, StallUnchanged
  DEF CallerNext, Construct, GetDspInfo, CheckSend, StoreBuffer, SendGen,
      SendFails, WaitForObject, WaitTimesOut, Framed, FrameSend, taskVars,
      dspVars
<1>4. CASE ReaderNext
  BY <1>4, StallUnchanged
  DEF ReaderNext, ReadFrame, SignalSend, CopyResult, SignalReceive, taskVars,
      dspVars
<1>5. CASE SendSmv \/ PageSends
  BY <1>5, StallUnchanged DEF SendSmv, PageSends, FrameSend, taskVars, dspVars
<1>6. CASE UNCHANGED vars
  BY <1>6, StallUnchanged DEF vars, taskVars, dspVars
<1>. QED BY <1>2, <1>3, <1>4, <1>5, <1>6 DEF Next

LEMMA StallAlways == Spec => [](TypeInv /\ StallInv)
<1>1. Init => TypeInv /\ StallInv
  <2>1. ASSUME Init PROVE StallInv
    BY <2>1 DEF Init, DspInit, StallInv, NoStall, Calculating, LossEnds
  <2>. QED BY <2>1, InitTypes
<1>2. TypeInv /\ StallInv /\ [Next]_vars => (TypeInv /\ StallInv)'
  BY TypesKept, StallStep
<1>. QED BY <1>1, <1>2, PTL DEF Spec

(* No task of the DSP waits for a semaphore nobody will post, in either    *)
(* mode and for any load (main.c:418-428, 616).                            *)
THEOREM NoStallAlways == Spec => []NoStall
BY StallAlways, PTL DEF StallInv

(* Samples are thrown away only until the buffers are swapped              *)
(* (main.c:415-463).                                                       *)
THEOREM LossAlwaysEnds == Spec => []LossEnds
BY StallAlways, PTL DEF StallInv

-----------------------------------------------------------------------------
(* The releases of SEM7, and what they are counted from.                   *)
relayVars == <<sem, receive, calc40, calc200>>

LEMMA SurplusTyped == ASSUME Counts PROVE Surplus \in Int
BY DEF Counts, Surplus, Releases

(* A release is taken on, not made: the step moves it from one place where *)
(* it is counted to another.                                               *)
LEMMA ReceiveSurplus ==
  ASSUME Counts,
         ReceiveDropped \/ ReceiveCalc \/ ReceiveOther \/ ReceivePend
  PROVE  Surplus' = Surplus /\ UNCHANGED <<calc40, calc200>>
<1>. USE DEF Surplus, Releases, Holding
<1>1. CASE ReceiveDropped
  BY <1>1 DEF ReceiveDropped
<1>2. CASE ReceiveCalc
  <2>1. /\ sem'[1] = sem[1] + 1 /\ sem'[2] = sem[2] /\ sem'[7] = sem[7]
        /\ receive = "receive" /\ receive' = "pend7"
        /\ UNCHANGED <<calc40, calc200>>
    BY <1>2, PostCounts DEF ReceiveCalc, ReceiveNext
  <2>. QED BY <2>1 DEF Counts
<1>3. CASE ReceiveOther
  <2>1. /\ sem' = Post({7, 0}) /\ receive = "receive" /\ receive' = "pend7"
        /\ UNCHANGED <<calc40, calc200>>
    BY <1>3 DEF ReceiveOther, ReceiveNext
  <2>2. sem'[1] = sem[1] /\ sem'[2] = sem[2] /\ sem'[7] = sem[7] + 1
    BY <2>1, PostCounts
  <2>. QED BY <2>1, <2>2 DEF Counts
<1>4. CASE ReceivePend
  <2>1. /\ sem'[1] = sem[1] /\ sem'[2] = sem[2] /\ sem'[7] = sem[7] - 1
        /\ receive = "pend7" /\ receive' = "receive"
        /\ UNCHANGED <<calc40, calc200>>
    BY <1>4, PendCounts DEF ReceivePend
  <2>. QED BY <2>1 DEF Counts
<1>. QED BY <1>1, <1>2, <1>3, <1>4

LEMMA SendSurplus ==
  ASSUME Counts, SendPend \/ SendExecute
  PROVE  Surplus' = Surplus /\ UNCHANGED <<calc40, calc200>>
<1>1. /\ sem'[1] = sem[1] /\ sem'[2] = sem[2] /\ sem'[7] = sem[7]
      /\ UNCHANGED <<receive, calc40, calc200>>
  BY PendCounts DEF SendPend, SendExecute
<1>. QED BY <1>1 DEF Surplus, Releases, Holding

LEMMA Calc40Surplus ==
  ASSUME Counts, Handing,
         \/ Calc40Pend \/ SmvGenHelper \/ RealSmvHelper \/ CalculationDone
         \/ StartCalculation \/ MsgDispHelper \/ MsgDispCalc
  PROVE  Surplus' = Surplus + (IF Overruns THEN 1 ELSE 0)
<1>. USE DEF Surplus, Releases, Holding, Overruns
<1>1. CASE Calc40Pend
  <2>1. /\ sem[1] > 0 /\ sem'[1] = sem[1] - 1 /\ sem'[2] = sem[2]
        /\ sem'[7] = sem[7]
        /\ calc40 = "pend1" /\ calc40' = taskFlag
        /\ UNCHANGED <<receive, calc200>>
    BY <1>1, PendCounts DEF Calc40Pend
  <2>2. calc40' \in CalcCode
    BY <2>1 DEF Handing
  <2>. QED BY <2>1, <2>2 DEF Counts, CalcCode
<1>2. CASE SmvGenHelper
  <2>1. /\ sem' = Post({7, 0}) /\ calc40 = "SMV_GEN" /\ calc40' = "pend1"
        /\ UNCHANGED <<receive, calc200>>
    BY <1>2 DEF SmvGenHelper
  <2>2. sem'[1] = sem[1] /\ sem'[2] = sem[2] /\ sem'[7] = sem[7] + 1
    BY <2>1, PostCounts
  <2>. QED BY <2>1, <2>2 DEF Counts, CalcCode
<1>3. CASE RealSmvHelper
  <2>1. calc40 = "SMV_DATA" /\ UNCHANGED <<receive, calc200>>
    BY <1>3 DEF RealSmvHelper
  <2>2. CASE cached + 1 < Batch
    <3>1. /\ sem'[1] = sem[1] /\ sem'[2] = sem[2] /\ sem'[7] = sem[7] + 1
          /\ calc40' = "pend1"
      BY <1>3, <2>2, PostCounts DEF RealSmvHelper
    <3>. QED BY <2>1, <3>1 DEF Counts, CalcCode
  <2>3. CASE ~(cached + 1 < Batch) /\ LostPointMode /\ ~firstCalc
    <3>1. /\ sem'[1] = sem[1] /\ sem'[2] = sem[2] /\ sem'[7] = sem[7] + 1
          /\ calc40' = "pend5"
      BY <1>3, <2>3, PostCounts DEF RealSmvHelper
    <3>. QED BY <2>1, <2>3, <3>1 DEF Counts, CalcCode
  <2>4. CASE ~(cached + 1 < Batch) /\ ~(LostPointMode /\ ~firstCalc)
    <3>1. /\ sem' = sem /\ calc40' \in {"start200", "pend5"}
          /\ (calc40' = "pend5" => ~LostPointMode)
      BY <1>3, <2>4 DEF RealSmvHelper
    <3>. QED BY <2>1, <3>1 DEF Counts, CalcCode
  <2>. QED BY <2>2, <2>3, <2>4
<1>4. CASE CalculationDone
  <2>1. /\ sem'[1] = sem[1] /\ sem'[2] = sem[2] /\ sem'[7] = sem[7]
        /\ calc40 = "pend5" /\ calc40' = "start200"
        /\ UNCHANGED <<receive, calc200>>
    BY <1>4, PendCounts DEF CalculationDone
  <2>. QED BY <2>1 DEF Counts
<1>5. CASE StartCalculation
  <2>1. /\ sem'[1] = sem[1] /\ sem'[2] = sem[2] + 1 /\ sem'[7] = sem[7]
        /\ calc40 = "start200" /\ calc40' = "pend1"
        /\ UNCHANGED <<receive, calc200>>
    BY <1>5, PostCounts DEF StartCalculation
  <2>. QED BY <2>1 DEF Counts, CalcCode
<1>6. CASE MsgDispHelper
  <2>1. /\ sem'[1] = sem[1] /\ sem'[2] = sem[2] /\ sem'[7] = sem[7] + 1
        /\ calc40 = "TIME_DATA" /\ calc40' \in {"pend1", "dispersion"}
        /\ UNCHANGED <<receive, calc200>>
    BY <1>6, PostCounts DEF MsgDispHelper
  <2>. QED BY <2>1 DEF Counts, CalcCode
<1>7. CASE MsgDispCalc
  <2>1. /\ sem'[1] = sem[1] /\ sem'[2] = sem[2] /\ sem'[7] = sem[7]
        /\ calc40 = "dispersion" /\ calc40' = "pend1"
        /\ UNCHANGED <<receive, calc200>>
    BY <1>7, PostCounts DEF MsgDispCalc
  <2>. QED BY <2>1 DEF Counts, CalcCode
<1>. QED BY <1>1, <1>2, <1>3, <1>4, <1>5, <1>6, <1>7

LEMMA Calc200Surplus ==
  ASSUME Counts, Calc200Pend \/ SwapBuffers \/ SmvDataCalc \/ ReportHarmonics
  PROVE  Surplus' = Surplus /\ UNCHANGED calc40
<1>. USE DEF Surplus, Releases, Holding
<1>1. CASE Calc200Pend
  <2>1. /\ sem'[1] = sem[1] /\ sem'[2] = sem[2] - 1 /\ sem'[7] = sem[7]
        /\ calc200 = "pend2" /\ calc200' = "swap"
        /\ UNCHANGED <<receive, calc40>>
    BY <1>1, PendCounts DEF Calc200Pend
  <2>. QED BY <2>1 DEF Counts
<1>2. CASE SwapBuffers
  <2>1. /\ sem'[1] = sem[1] /\ sem'[2] = sem[2] /\ sem'[7] = sem[7] + 1
        /\ calc200 = "swap" /\ calc200' = "calculate"
        /\ UNCHANGED <<receive, calc40>>
    BY <1>2, PostCounts DEF SwapBuffers
  <2>. QED BY <2>1 DEF Counts
<1>3. CASE SmvDataCalc \/ ReportHarmonics
  <2>1. /\ sem' \in {Post({5}), Post({0})}
        /\ calc200 \in {"calculate", "report"} /\ calc200' \in {"report", "pend2"}
        /\ UNCHANGED <<receive, calc40>>
    BY <1>3 DEF SmvDataCalc, ReportHarmonics
  <2>2. sem'[1] = sem[1] /\ sem'[2] = sem[2] /\ sem'[7] = sem[7]
    BY <2>1, PostCounts
  <2>. QED BY <2>1, <2>2 DEF Counts
<1>. QED BY <1>1, <1>2, <1>3

LEMMA TypesCount == ASSUME TypeInv PROVE Counts
BY DEF TypeInv, TypeOK, DspTypeOK, Counts

(* Every step but those of the firmware leaves it alone.                   *)
LEMMA OnlyDspActs ==
  ASSUME [Next]_vars PROVE DspStep \/ UNCHANGED dspVars
<1>1. CASE CallerNext
  BY <1>1 DEF CallerNext, Construct, GetDspInfo, CheckSend, StoreBuffer, SendGen,
              SendFails, WaitForObject, WaitTimesOut, Framed, FrameSend
<1>2. CASE ReaderNext
  BY <1>2 DEF ReaderNext, ReadFrame, SignalSend, CopyResult, SignalReceive
<1>3. CASE SendSmv \/ PageSends
  BY <1>3 DEF SendSmv, PageSends, FrameSend
<1>. QED BY <1>1, <1>2, <1>3 DEF Next, vars

LEMMA SurplusStep ==
  ASSUME TypeInv, [Next]_vars
  PROVE  /\ [Surplus' = Surplus + (IF Overruns THEN 1 ELSE 0)]_relayVars
         /\ Overruns => DspStep
<1>1. Counts /\ Handing /\ Surplus \in Int
  BY TypesCount, SurplusTyped DEF TypeInv
<1>2. CASE DspStep
  <2>1. UNCHANGED calc40 => ~Overruns
    BY DEF Overruns
  <2>. QED BY <1>1, <1>2, <2>1, ReceiveSurplus, SendSurplus, Calc40Surplus,
              Calc200Surplus DEF DspStep, DspNext
<1>3. CASE UNCHANGED dspVars
  BY <1>3 DEF dspVars, relayVars, Overruns
<1>. QED BY <1>2, <1>3, OnlyDspActs

(* In both modes, for every length of batch, depth of link and load: a     *)
(* release of SEM7 is neither lost nor doubled, except that in lost-point  *)
(* mode each batch that overruns leaves one too many (main.c:418, 616).    *)
THEOREM OneReleaseAlways == Spec => OneRelease
<1>1. Init => TypeInv /\ Surplus = 0
  <2>1. ASSUME Init PROVE Surplus = 0
    BY <2>1 DEF Init, DspInit, Surplus, Releases, Holding, CalcCode
  <2>. QED BY <2>1, InitTypes
<1>2. TypeInv /\ [Next]_vars => TypeInv'
  BY TypesKept
<1>3. TypeInv /\ [Next]_vars
        => [Surplus' = Surplus + (IF Overruns THEN 1 ELSE 0)]_relayVars
  BY SurplusStep
<1>. QED BY <1>1, <1>2, <1>3, PTL DEF Spec, OneRelease, relayVars

-----------------------------------------------------------------------------
(* Every flagged result has a count of SEM0.                               *)
LEMMA FlagsAreFinite ==
  ASSUME resFlag \subseteq Results
  PROVE  IsFiniteSet(resFlag) /\ Cardinality(resFlag) \in Nat
<1>1. IsFiniteSet(Results)
  <2>1. Results = {"ERROR", "INFO", "SMV_GEN_RT", "MSG_DISP_RT", "SMV_CALC_RT"}
    BY Answers
  <2>2. IsFiniteSet({}) /\ \A S, x : IsFiniteSet(S) => IsFiniteSet(S \cup {x})
    BY FS_EmptySet, FS_AddElement
  <2>3. IsFiniteSet({} \cup {"ERROR"})
    BY <2>2
  <2>4. IsFiniteSet({} \cup {"ERROR"} \cup {"INFO"})
    BY <2>2, <2>3
  <2>5. IsFiniteSet({} \cup {"ERROR"} \cup {"INFO"} \cup {"SMV_GEN_RT"})
    BY <2>2, <2>4
  <2>6. IsFiniteSet({} \cup {"ERROR"} \cup {"INFO"} \cup {"SMV_GEN_RT"}
                     \cup {"MSG_DISP_RT"})
    BY <2>2, <2>5
  <2>7. IsFiniteSet({} \cup {"ERROR"} \cup {"INFO"} \cup {"SMV_GEN_RT"}
                     \cup {"MSG_DISP_RT"} \cup {"SMV_CALC_RT"})
    BY <2>2, <2>6
  <2>8. Results = {} \cup {"ERROR"} \cup {"INFO"} \cup {"SMV_GEN_RT"}
                     \cup {"MSG_DISP_RT"} \cup {"SMV_CALC_RT"}
    BY <2>1
  <2>. QED BY <2>7, <2>8
<1>. QED BY <1>1, FS_Subset, FS_CardinalityType

LEMMA FlagsStep ==
  ASSUME TypeInv, EveryFlagCounted, [Next]_vars PROVE EveryFlagCounted'
<1>0. /\ Counts /\ resFlag \subseteq Results /\ sem[0] \in Nat
      /\ IsFiniteSet(resFlag) /\ Cardinality(resFlag) \in Nat
      /\ Cardinality(resFlag) <= sem[0]
  BY TypesCount, FlagsAreFinite
  DEF TypeInv, TypeOK, DspTypeOK, Counts, EveryFlagCounted
<1>1. ASSUME UNCHANGED resFlag, sem'[0] = sem[0] PROVE EveryFlagCounted'
  BY <1>0, <1>1 DEF EveryFlagCounted
<1>2. ASSUME NEW r, resFlag' = resFlag \cup {r}, sem'[0] = sem[0] + 1
      PROVE  EveryFlagCounted'
  <2>1. Cardinality(resFlag \cup {r})
          \in {Cardinality(resFlag), Cardinality(resFlag) + 1}
    BY <1>0, FS_AddElement, Zenon
  <2>. QED BY <1>0, <1>2, <2>1 DEF EveryFlagCounted
<1>3. CASE ReceiveDropped \/ ReceiveCalc \/ ReceivePend
  BY <1>0, <1>1, <1>3, PostCounts, PendCounts
  DEF ReceiveDropped, ReceiveCalc, ReceivePend
<1>4. CASE ReceiveOther \/ SmvGenHelper
  <2>1. /\ sem' = Post({7, 0})
        /\ \E r : resFlag' = resFlag \cup {r}
    BY <1>4 DEF ReceiveOther, SmvGenHelper
  <2>2. sem'[0] = sem[0] + 1
    BY <1>0, <2>1, PostCounts
  <2>. QED BY <1>2, <2>1, <2>2
<1>5. CASE MsgDispCalc \/ ReportHarmonics
  <2>1. /\ sem' = Post({0})
        /\ \E r : resFlag' = resFlag \cup {r}
    BY <1>5 DEF MsgDispCalc, ReportHarmonics
  <2>2. sem'[0] = sem[0] + 1
    BY <1>0, <2>1, PostCounts
  <2>. QED BY <1>2, <2>1, <2>2
<1>6. CASE SendPend
  <2>1. sem[0] > 0 /\ sem'[0] = sem[0] - 1
    BY <1>0, <1>6, PendCounts DEF SendPend
  <2>2. CASE resFlag = {}
    <3>1. resFlag' = {} /\ Cardinality({}) = 0
      BY <1>6, <2>2, FS_EmptySet DEF SendPend
    <3>. QED BY <1>0, <2>1, <3>1 DEF EveryFlagCounted
  <2>3. CASE resFlag # {}
    <3>1. FirstResult \in resFlag /\ resFlag' = resFlag \ {FirstResult}
      BY <1>0, <1>6, <2>3, FirstFlagged DEF SendPend
    <3>2. Cardinality(resFlag') = Cardinality(resFlag) - 1
      BY <1>0, <3>1, FS_RemoveElement
    <3>. QED BY <1>0, <2>1, <3>2 DEF EveryFlagCounted
  <2>. QED BY <2>2, <2>3
<1>7. CASE SendExecute
  BY <1>1, <1>7 DEF SendExecute
<1>8. CASE Calc40Pend \/ CalculationDone \/ Calc200Pend
  BY <1>0, <1>1, <1>8, PendCounts DEF Calc40Pend, CalculationDone, Calc200Pend
<1>9. CASE RealSmvHelper
  <2>1. UNCHANGED resFlag /\ sem' \in {sem, Post({7})}
    BY <1>9 DEF RealSmvHelper
  <2>. QED BY <1>0, <1>1, <2>1, PostCounts
<1>10. CASE StartCalculation \/ MsgDispHelper \/ SwapBuffers \/ SmvDataCalc
  BY <1>0, <1>1, <1>10, PostCounts
  DEF StartCalculation, MsgDispHelper, SwapBuffers, SmvDataCalc
<1>11. CASE UNCHANGED dspVars
  BY <1>1, <1>11 DEF dspVars
<1>. QED BY <1>3, <1>4, <1>5, <1>6, <1>7, <1>8, <1>9, <1>10, <1>11, OnlyDspActs
         DEF DspStep, DspNext

(* No result stays flagged when tskSend has sent as many as it was woken   *)
(* for, whatever is flagged twice (main.c:635, 691, 731).                  *)
THEOREM EveryFlagCountedAlways == Spec => []EveryFlagCounted
<1>1. Init => TypeInv /\ EveryFlagCounted
  <2>1. ASSUME Init PROVE EveryFlagCounted
    BY <2>1, FS_EmptySet DEF Init, DspInit, EveryFlagCounted
  <2>. QED BY <2>1, InitTypes
<1>2. TypeInv /\ EveryFlagCounted /\ [Next]_vars => (TypeInv /\ EveryFlagCounted)'
  BY TypesKept, FlagsStep
<1>. QED BY <1>1, <1>2, PTL DEF Spec

-----------------------------------------------------------------------------
(* A surplus is left only by an overrun, which the mode that blocks never  *)
(* has, nor the other before the second batch; and a frame that came while *)
(* there may be one was noted.                                             *)
SurplusInv ==
  /\ Surplus \in Nat
  /\ Surplus > 0 => LostPointMode /\ ~firstCalc
  /\ lostPoint => LostPointMode
  /\ Pressing => pressed
  /\ pressed => LostPointMode

(* A command is handed over exactly while it waits for tskCalc40ms or is   *)
(* being executed, and it is the one in g_recvBuf and g_tskFlag[1].        *)
HandedOver ==
  /\ handed = IF sem[1] > 0 \/ calc40 \in CalcCode THEN <<recvBuf>> ELSE <<>>
  /\ sem[1] > 0 => recvBuf.code \in CalcCode /\ taskFlag = recvBuf.code
  /\ calc40 \in CalcCode => calc40 = recvBuf.code

(* A sample was taken from the link and is not in the batch yet.           *)
Underway == handed # <<>> /\ recvBuf.code = "SMV_DATA"

(* One complete batch waits for its calculation, and until it is swapped   *)
(* no sample is on its way to the buffer it fills: tskReceive waits, or it *)
(* drops the samples.                                                      *)
Waiting ==
  sem[2] + (IF calc200 = "swap" THEN 1 ELSE 0)
    + (IF calc40 \in {"pend5", "start200"} THEN 1 ELSE 0)

FullInv ==
  /\ Waiting <= 1
  /\ Full => ~Underway /\ (lostPoint \/ Surplus = 0)

Relay    == HandedOver /\ FullInv
RelayInv == SurplusInv /\ (~pressed => Relay)

Sound == TypeInv /\ StallInv /\ RelayInv

LEMMA SoundCounts == ASSUME Sound PROVE Counts
BY TypesCount DEF Sound

LEMMA InitRelay == ASSUME Init PROVE RelayInv
<1>1. Surplus = 0 /\ ~Full /\ Waiting = 0
  BY DEF Init, DspInit, Surplus, Releases, Holding, CalcCode, Full, Swapping,
         Waiting
<1>2. SurplusInv
  BY <1>1 DEF SurplusInv, Init, DspInit, Pressing
<1>3. HandedOver
  BY DEF Init, DspInit, HandedOver, CalcCode
<1>. QED BY <1>1, <1>2, <1>3 DEF RelayInv, Relay, FullInv

(* A batch overruns only after the first, and only in lost-point mode.     *)
LEMMA SurplusKept ==
  ASSUME Sound, [Next]_vars PROVE SurplusInv'
<1>. USE DEF SurplusInv
<1>0. /\ SurplusInv /\ Counts /\ StallInv'
      /\ [Surplus' = Surplus + (IF Overruns THEN 1 ELSE 0)]_relayVars
      /\ Overruns => DspStep
      /\ pressed \in BOOLEAN
  BY SoundCounts, StallStep, SurplusStep DEF Sound, RelayInv, TypeInv, TypeOK
<1>1. firstCalc' => firstCalc
  <2>1. CASE DspStep
    BY <2>1 DEF DspStep, DspNext, ReceiveDropped, ReceiveCalc, ReceiveOther,
                ReceivePend, SendPend, SendExecute, Calc40Pend, SmvGenHelper,
                RealSmvHelper, CalculationDone, StartCalculation, MsgDispHelper,
                MsgDispCalc, Calc200Pend, SwapBuffers, SmvDataCalc,
                ReportHarmonics
  <2>. QED BY <2>1, OnlyDspActs DEF dspVars
<1>2. lostPoint' => lostPoint \/ LostPointMode
  <2>1. CASE DspStep
    BY <2>1 DEF DspStep, DspNext, ReceiveDropped, ReceiveCalc, ReceiveOther,
                ReceivePend, SendPend, SendExecute, Calc40Pend, SmvGenHelper,
                RealSmvHelper, CalculationDone, StartCalculation, MsgDispHelper,
                MsgDispCalc, Calc200Pend, SwapBuffers, SmvDataCalc,
                ReportHarmonics
  <2>. QED BY <2>1, OnlyDspActs DEF dspVars
<1>3. ASSUME Overruns
      PROVE  Surplus' \in Nat /\ (Surplus' > 0 => LostPointMode /\ ~firstCalc')
  <2>1. Surplus' = Surplus + 1 /\ LostPointMode
    <3>1. calc40' # calc40
      BY <1>3 DEF Overruns
    <3>. QED BY <1>0, <1>3, <3>1 DEF Overruns, relayVars
  <2>2. ~firstCalc'
    BY <1>0, <1>3 DEF Overruns, StallInv, Calculating
  <2>. QED BY <1>0, <2>1, <2>2
<1>s. ASSUME ~Overruns PROVE Surplus' = Surplus
  <2>1. CASE UNCHANGED relayVars
    BY <2>1 DEF relayVars, Surplus, Releases, Holding
  <2>. QED BY <1>0, <1>s, <2>1
<1>4. /\ Surplus' \in Nat
      /\ Surplus' > 0 => LostPointMode /\ ~firstCalc'
      /\ lostPoint' => LostPointMode
  BY <1>0, <1>1, <1>2, <1>3, <1>s
<1>5. (Pressing => pressed)' /\ (pressed => LostPointMode)'
  <2>1. CASE Watch
    BY <1>0, <2>1 DEF Watch, Pressing
  <2>2. CASE UNCHANGED <<dspVars, toDsp, pressed>>
    BY <1>0, <2>2 DEF Pressing, dspVars
  <2>3. Watch \/ UNCHANGED <<dspVars, toDsp, pressed>>
    BY DEF Next, DspStep, CallerNext, Construct, GetDspInfo, CheckSend,
           StoreBuffer, SendGen, SendFails, WaitForObject, WaitTimesOut, Framed,
           FrameSend, ReaderNext, ReadFrame, SignalSend, CopyResult,
           SignalReceive, SendSmv, PageSends, vars, pageVars
  <2>. QED BY <2>1, <2>2, <2>3
<1>. QED BY <1>4, <1>5

(* While tskReceive receives, the command before has been executed: it     *)
(* waited for the release, or no frame came before (Pressing).             *)
LEMMA ReceivingIsAlone ==
  ASSUME Sound, ~pressed, receive = "receive", toDsp # <<>>
  PROVE  /\ handed = <<>> /\ ~Underway
         /\ sem[1] = 0 /\ calc40 \notin CalcCode
         /\ Full => lostPoint /\ LostPointMode
<1>1. Counts /\ SurplusInv /\ HandedOver /\ FullInv
  BY SoundCounts DEF Sound, RelayInv, Relay
<1>2. sem[1] = 0 /\ calc40 \notin CalcCode
  <2>1. CASE Surplus = 0
    BY <1>1, <2>1 DEF Counts, Surplus, Releases, Holding
  <2>2. CASE Surplus # 0
    <3>1. handed = <<>>
      BY <1>1, <2>2 DEF SurplusInv, Pressing
    <3>. QED BY <1>1, <3>1 DEF HandedOver, Counts
  <2>. QED BY <2>1, <2>2
<1>3. handed = <<>> /\ ~Underway
  BY <1>1, <1>2 DEF HandedOver, Underway
<1>4. ASSUME Full PROVE lostPoint /\ LostPointMode
  <2>1. CASE Surplus = 0
    BY <1>1, <1>4, <2>1
    DEF Counts, Surplus, Releases, Holding, Full, Swapping, CalcCode
  <2>. QED BY <1>1, <1>4, <2>1 DEF FullInv, SurplusInv
<1>. QED BY <1>2, <1>3, <1>4

(* What tskCalc40ms executes is the one command there is.                  *)
LEMMA ExecutingIsAlone ==
  ASSUME Sound, ~pressed, calc40 \in CalcCode
  PROVE  /\ handed = <<recvBuf>> /\ Tail(handed) = <<>> /\ sem[1] = 0
         /\ calc40 = recvBuf.code
<1>1. HandedOver /\ Counts /\ Handing
  BY SoundCounts DEF Sound, RelayInv, Relay, TypeInv
<1>2. handed = <<recvBuf>> /\ Tail(handed) = <<>> /\ Len(handed) = 1
  BY <1>1 DEF HandedOver
<1>3. sem[1] = 0
  BY <1>1, <1>2 DEF Handing, Counts
<1>. QED BY <1>1, <1>2, <1>3 DEF HandedOver

LEMMA FullKept ==
  ASSUME FullInv, Waiting' = Waiting, Full' <=> Full,
         UNCHANGED lostPoint, Surplus' = Surplus, Full' => ~Underway'
  PROVE  FullInv'
BY DEF FullInv

LEMMA ReceiveRelay ==
  ASSUME Sound, ~pressed,
         ReceiveDropped \/ ReceiveCalc \/ ReceiveOther \/ ReceivePend
  PROVE  Relay'
<1>0. Counts /\ HandedOver /\ FullInv /\ SurplusInv
  BY SoundCounts DEF Sound, RelayInv, Relay
<1>s. Surplus' = Surplus /\ UNCHANGED <<calc40, calc200, lostPoint>>
  BY <1>0, ReceiveSurplus
  DEF ReceiveDropped, ReceiveCalc, ReceiveOther, ReceivePend
<1>2. ASSUME sem'[2] = sem[2], Full => ~Underway' PROVE FullInv'
  BY <1>0, <1>2, <1>s, FullKept DEF Waiting, Full, Swapping
<1>a. ASSUME ReceiveNext
      PROVE  /\ handed = <<>> /\ sem[1] = 0 /\ calc40 \notin CalcCode
             /\ Full => lostPoint /\ LostPointMode
  BY <1>a, ReceivingIsAlone DEF ReceiveNext
<1>3. CASE ReceiveDropped
  <2>1. handed' = <<>> /\ sem' = sem /\ ReceiveNext
    BY <1>3, <1>a DEF ReceiveDropped
  <2>. QED BY <1>2, <1>a, <1>s, <2>1 DEF Relay, HandedOver, Underway
<1>4. CASE ReceiveCalc
  <2>1. /\ ReceiveNext /\ recvBuf'.code \in CalcCode /\ taskFlag' = recvBuf'.code
        /\ handed' = Append(handed, recvBuf')
        /\ ~Dropped(recvBuf')
    BY <1>4 DEF ReceiveCalc, ReceiveNext
  <2>2. handed' = <<recvBuf'>>
    BY <1>a, <2>1
  <2>3. sem'[1] = 1 /\ sem'[2] = sem[2]
    BY <1>0, <1>4, <1>a, <2>1, PostCounts DEF ReceiveCalc
  <2>4. HandedOver'
    BY <1>a, <1>s, <2>1, <2>2, <2>3 DEF HandedOver
  <2>5. Full => ~Underway'
    BY <1>a, <2>1 DEF Dropped, Underway
  <2>. QED BY <1>2, <2>3, <2>4, <2>5 DEF Relay
<1>5. CASE ReceiveOther
  <2>1. handed' = <<>> /\ ReceiveNext /\ sem' = Post({7, 0})
    BY <1>5, <1>a DEF ReceiveOther
  <2>2. sem'[1] = 0 /\ sem'[2] = sem[2]
    BY <1>0, <1>a, <2>1, PostCounts
  <2>. QED BY <1>2, <1>a, <1>s, <2>1, <2>2 DEF Relay, HandedOver, Underway
<1>6. CASE ReceivePend
  <2>1. sem'[1] = sem[1] /\ sem'[2] = sem[2] /\ UNCHANGED <<handed, bufVars>>
    BY <1>0, <1>6, PendCounts DEF ReceivePend
  <2>. QED BY <1>0, <1>2, <1>s, <2>1 DEF Relay, HandedOver, Underway, FullInv
<1>. QED BY <1>3, <1>4, <1>5, <1>6

LEMMA SendRelay ==
  ASSUME Sound, ~pressed, SendPend \/ SendExecute PROVE Relay'
<1>0. Counts /\ HandedOver /\ FullInv
  BY SoundCounts DEF Sound, RelayInv, Relay
<1>1. /\ sem'[1] = sem[1] /\ sem'[2] = sem[2] /\ Surplus' = Surplus
      /\ UNCHANGED <<calc40, calc200, lostPoint, handed, bufVars>>
  BY <1>0, SendSurplus, PendCounts DEF SendPend, SendExecute
<1>2. FullInv'
  BY <1>0, <1>1, FullKept DEF Waiting, Full, Swapping, Underway, FullInv
<1>. QED BY <1>0, <1>1, <1>2 DEF Relay, HandedOver

LEMMA Calc40Relay ==
  ASSUME Sound, ~pressed,
         \/ Calc40Pend \/ SmvGenHelper \/ RealSmvHelper \/ CalculationDone
         \/ StartCalculation \/ MsgDispHelper \/ MsgDispCalc
  PROVE  Relay'
<1>0. Counts /\ HandedOver /\ FullInv /\ SurplusInv /\ Handing
  BY SoundCounts DEF Sound, RelayInv, Relay, TypeInv
<1>s. Surplus' = Surplus + (IF Overruns THEN 1 ELSE 0) /\ Surplus \in Nat
  BY <1>0, Calc40Surplus DEF SurplusInv
<1>1. CASE Calc40Pend
  <2>1. /\ sem[1] > 0 /\ sem'[1] = sem[1] - 1 /\ sem'[2] = sem[2]
        /\ calc40 = "pend1" /\ calc40' = taskFlag
        /\ UNCHANGED <<calc200, handed, bufVars, lostPoint>>
    BY <1>0, <1>1, PendCounts DEF Calc40Pend
  <2>2. calc40' \in CalcCode /\ calc40' = recvBuf.code /\ ~Overruns
    BY <1>0, <2>1 DEF HandedOver, Overruns
  <2>3. HandedOver'
    BY <1>0, <2>1, <2>2 DEF HandedOver
  <2>4. FullInv'
    <3>1. calc40' \notin {"pend5", "start200"} /\ Underway' = Underway
      BY <2>1, <2>2 DEF CalcCode, Underway
    <3>. QED BY <1>0, <1>s, <2>1, <2>2, <3>1, FullKept
             DEF Waiting, Full, Swapping, FullInv
  <2>. QED BY <2>3, <2>4 DEF Relay
<1>2. CASE SmvGenHelper \/ MsgDispHelper
  <2>1. /\ calc40 \in CalcCode /\ calc40 # "SMV_DATA" /\ handed' = Tail(handed)
        /\ calc40' \in {"pend1", "dispersion"}
        /\ sem' \in {Post({7, 0}), Post({7})}
        /\ UNCHANGED <<calc200, bufVars, lostPoint>>
    BY <1>2 DEF SmvGenHelper, MsgDispHelper, CalcCode
  <2>2. sem'[1] = 0 /\ sem'[2] = sem[2] /\ handed' = <<>> /\ ~Overruns
    BY <1>0, <2>1, ExecutingIsAlone, PostCounts DEF Overruns
  <2>3. HandedOver'
    BY <2>1, <2>2 DEF HandedOver, CalcCode
  <2>4. FullInv'
    <3>1. calc40 \notin {"pend5", "start200"} /\ ~Underway'
      BY <2>1, <2>2 DEF CalcCode, Underway
    <3>. QED BY <1>0, <1>s, <2>1, <2>2, <3>1, FullKept
             DEF Waiting, Full, Swapping
  <2>. QED BY <2>3, <2>4 DEF Relay
<1>3. CASE RealSmvHelper
  <2>1. /\ calc40 = "SMV_DATA" /\ handed' = Tail(handed)
        /\ UNCHANGED <<calc200, bufVars>>
        /\ sem' \in {sem, Post({7})}
    BY <1>3 DEF RealSmvHelper
  <2>2. /\ handed = <<recvBuf>> /\ recvBuf.code = "SMV_DATA"
        /\ sem'[1] = 0 /\ sem'[2] = sem[2] /\ handed' = <<>>
    BY <1>0, <2>1, ExecutingIsAlone, PostCounts DEF CalcCode
  <2>3. Underway /\ ~Full /\ ~Underway'
    BY <1>0, <2>2 DEF Underway, FullInv
  <2>4. CASE cached + 1 < Batch
    <3>1. calc40' = "pend1" /\ ~Overruns /\ UNCHANGED lostPoint
      BY <1>3, <2>4 DEF RealSmvHelper, Overruns
    <3>2. FullInv'
      BY <1>0, <1>s, <2>1, <2>2, <2>3, <3>1, FullKept DEF Waiting, Full, Swapping
    <3>. QED BY <2>1, <2>2, <3>1, <3>2 DEF Relay, HandedOver, CalcCode
  <2>5. CASE ~(cached + 1 < Batch)
    <3>1. /\ calc40' \in {"start200", "pend5"}
          /\ calc40' = "pend5" <=> ~firstCalc
          /\ LostPointMode /\ ~firstCalc => lostPoint'
      BY <1>3, <2>5 DEF RealSmvHelper
    <3>2. Waiting' = 1
      BY <1>0, <2>1, <2>2, <2>3, <3>1 DEF Waiting, Full, Swapping, Counts
    <3>3. lostPoint' \/ Surplus' = 0
      BY <1>0, <1>s, <3>1 DEF SurplusInv, Overruns
    <3>. QED BY <2>1, <2>2, <2>3, <3>1, <3>2, <3>3
             DEF Relay, HandedOver, FullInv, CalcCode
  <2>. QED BY <2>4, <2>5
<1>4. CASE CalculationDone
  <2>1. /\ sem'[1] = sem[1] /\ sem'[2] = sem[2]
        /\ calc40 = "pend5" /\ calc40' = "start200" /\ ~Overruns
        /\ UNCHANGED <<calc200, handed, bufVars, lostPoint>>
    BY <1>0, <1>4, PendCounts DEF CalculationDone, Overruns
  <2>2. FullInv'
    BY <1>0, <1>s, <2>1, FullKept DEF Waiting, Full, Swapping, Underway, FullInv
  <2>. QED BY <1>0, <2>1, <2>2 DEF Relay, HandedOver, CalcCode
<1>5. CASE StartCalculation
  <2>1. /\ sem'[1] = sem[1] /\ sem'[2] = sem[2] + 1
        /\ calc40 = "start200" /\ calc40' = "pend1" /\ ~Overruns
        /\ UNCHANGED <<calc200, handed, bufVars, lostPoint>>
    BY <1>0, <1>5, PostCounts DEF StartCalculation, Overruns
  <2>2. Waiting' = Waiting /\ Full /\ Full' /\ Underway' = Underway
    BY <1>0, <2>1 DEF Waiting, Full, Swapping, Underway, Counts
  <2>3. FullInv'
    BY <1>0, <1>s, <2>1, <2>2, FullKept DEF FullInv
  <2>. QED BY <1>0, <2>1, <2>3 DEF Relay, HandedOver, CalcCode
<1>6. CASE MsgDispCalc
  <2>1. /\ sem'[1] = sem[1] /\ sem'[2] = sem[2]
        /\ calc40 = "dispersion" /\ calc40' = "pend1" /\ ~Overruns
        /\ UNCHANGED <<calc200, handed, bufVars, lostPoint>>
    BY <1>0, <1>6, PostCounts DEF MsgDispCalc, Overruns
  <2>2. FullInv'
    BY <1>0, <1>s, <2>1, FullKept DEF Waiting, Full, Swapping, Underway, FullInv
  <2>. QED BY <1>0, <2>1, <2>2 DEF Relay, HandedOver, CalcCode
<1>. QED BY <1>1, <1>2, <1>3, <1>4, <1>5, <1>6

LEMMA Calc200Relay ==
  ASSUME Sound, ~pressed,
         Calc200Pend \/ SwapBuffers \/ SmvDataCalc \/ ReportHarmonics
  PROVE  Relay'
<1>0. Counts /\ HandedOver /\ FullInv
  BY SoundCounts DEF Sound, RelayInv, Relay
<1>s. Surplus' = Surplus /\ UNCHANGED <<calc40, handed, bufVars>>
  BY <1>0, Calc200Surplus
  DEF Calc200Pend, SwapBuffers, SmvDataCalc, ReportHarmonics
<1>u. Underway' = Underway
  BY <1>s DEF Underway
<1>1. CASE Calc200Pend
  <2>1. /\ sem'[1] = sem[1] /\ sem[2] > 0 /\ sem'[2] = sem[2] - 1
        /\ calc200 = "pend2" /\ calc200' = "swap" /\ UNCHANGED lostPoint
    BY <1>0, <1>1, PendCounts DEF Calc200Pend
  <2>2. Waiting' = Waiting /\ Full /\ Full'
    BY <1>0, <1>s, <2>1 DEF Waiting, Full, Swapping, Counts
  <2>3. FullInv'
    BY <1>0, <1>s, <1>u, <2>1, <2>2, FullKept DEF FullInv
  <2>. QED BY <1>0, <1>s, <2>1, <2>3 DEF Relay, HandedOver
<1>2. CASE SwapBuffers
  <2>1. /\ sem'[1] = sem[1] /\ sem'[2] = sem[2]
        /\ calc200 = "swap" /\ calc200' = "calculate"
    BY <1>0, <1>2, PostCounts DEF SwapBuffers
  <2>2. Waiting' = 0 /\ ~Full'
    BY <1>0, <1>s, <2>1 DEF Waiting, Full, Swapping, Counts, FullInv
  <2>. QED BY <1>0, <1>s, <2>1, <2>2 DEF Relay, HandedOver, FullInv
<1>3. CASE SmvDataCalc \/ ReportHarmonics
  <2>1. /\ sem' \in {Post({5}), Post({0})} /\ UNCHANGED lostPoint
        /\ calc200 # "swap" /\ calc200' # "swap"
    BY <1>3 DEF SmvDataCalc, ReportHarmonics
  <2>2. sem'[1] = sem[1] /\ sem'[2] = sem[2]
    BY <1>0, <2>1, PostCounts
  <2>3. FullInv'
    BY <1>0, <1>s, <1>u, <2>1, <2>2, FullKept DEF Waiting, Full, Swapping, FullInv
  <2>. QED BY <1>0, <1>s, <2>2, <2>3 DEF Relay, HandedOver
<1>. QED BY <1>1, <1>2, <1>3

(* Once a frame was pressed in, it stays noted.                            *)
LEMMA PressedStays == ASSUME Sound, [Next]_vars PROVE pressed => pressed'
BY DEF Next, DspStep, Watch, CallerNext, Construct, GetDspInfo, CheckSend,
       StoreBuffer, SendGen, SendFails, WaitForObject, WaitTimesOut, Framed,
       FrameSend, ReaderNext, ReadFrame, SignalSend, CopyResult, SignalReceive,
       SendSmv, PageSends, vars, pageVars

LEMMA SoundStep == ASSUME Sound, [Next]_vars PROVE Sound'
<1>1. TypeInv' /\ StallInv' /\ SurplusInv'
  BY TypesKept, StallStep, SurplusKept DEF Sound
<1>2. ASSUME ~pressed' PROVE Relay'
  <2>1. ~pressed /\ Relay
    BY <1>2, PressedStays DEF Sound, RelayInv
  <2>2. CASE DspStep
    BY <2>1, <2>2, ReceiveRelay, SendRelay, Calc40Relay, Calc200Relay
    DEF DspStep, DspNext
  <2>3. CASE UNCHANGED dspVars
    BY <2>1, <2>3 DEF dspVars, Relay, HandedOver, FullInv, Underway, Full,
                      Swapping, Waiting, Surplus, Releases, Holding
  <2>. QED BY <2>2, <2>3, OnlyDspActs
<1>. QED BY <1>1, <1>2 DEF Sound, RelayInv

LEMMA SoundAlways == Spec => []Sound
<1>1. Init => Sound
  <2>1. ASSUME Init PROVE StallInv
    BY <2>1 DEF Init, DspInit, StallInv, NoStall, Calculating, LossEnds
  <2>. QED BY <2>1, InitTypes, InitRelay DEF Sound
<1>2. Sound /\ [Next]_vars => Sound'
  BY SoundStep
<1>. QED BY <1>1, <1>2, PTL DEF Spec

(* Built to block, no frame is ever pressed in, whatever the load: what    *)
(* holds until then holds always (main.c:23, 616).                         *)
THEOREM BlockingIsNeverPressed == ASSUME ~LostPointMode PROVE Spec => []~pressed
<1>1. Sound => ~pressed
  BY DEF Sound, RelayInv, SurplusInv
<1>. QED BY <1>1, SoundAlways, PTL

(* tskCalc40ms executes the command it was woken for: until a frame is     *)
(* pressed in, g_recvBuf is not overwritten before (main.c:524, 616).      *)
THEOREM OwnCommandAlways == Spec => []OwnCommand
<1>1. Sound => OwnCommand
  <2>1. ASSUME Sound, ~pressed, calc40 \in CalcCode
        PROVE  handed # <<>> /\ recvBuf = Head(handed) /\ calc40 = recvBuf.code
    <3>1. handed = <<recvBuf>> /\ calc40 = recvBuf.code
      BY <2>1, ExecutingIsAlone
    <3>2. <<recvBuf>> # <<>> /\ Head(<<recvBuf>>) = recvBuf
      OBVIOUS
    <3>. QED BY <3>1, <3>2
  <2>. QED BY <2>1 DEF OwnCommand
<1>. QED BY <1>1, SoundAlways, PTL


-----------------------------------------------------------------------------
(* The samples on the link are numbered one after another: n counts those  *)
(* sent before each place of the link q, up to the last one sent.          *)
Numbered(n, q, last) ==
  /\ n \in [0..Len(q) -> Nat] /\ n[Len(q)] = last
  /\ \A i \in 1..Len(q) :
       IF q[i].code = "SMV_DATA" THEN n[i] = n[i-1] + 1 /\ q[i].id = n[i]
       ELSE n[i] = n[i-1]

LEMMA NumberedTail ==
  ASSUME NEW q \in Seq(Command), q # <<>>, NEW last, NEW n, Numbered(n, q, last)
  PROVE  /\ \E m : Numbered(m, Tail(q), last) /\ m[0] = n[1]
         /\ IF Head(q).code = "SMV_DATA" THEN n[1] = n[0] + 1 /\ Head(q).id = n[1]
            ELSE n[1] = n[0]
<1>1. Len(q) \in Nat \ {0} /\ Len(Tail(q)) = Len(q) - 1
  OBVIOUS
<1>2. \A i \in 1..Len(Tail(q)) : Tail(q)[i] = q[i+1]
  BY <1>1
<1>. DEFINE m == [i \in 0..Len(Tail(q)) |-> n[i+1]]
<1>3. m \in [0..Len(Tail(q)) -> Nat] /\ m[Len(Tail(q))] = last /\ m[0] = n[1]
  BY <1>1 DEF Numbered
<1>4. ASSUME NEW i \in 1..Len(Tail(q))
      PROVE  IF Tail(q)[i].code = "SMV_DATA"
             THEN m[i] = m[i-1] + 1 /\ Tail(q)[i].id = m[i]
             ELSE m[i] = m[i-1]
  <2>1. m[i] = n[i+1] /\ m[i-1] = n[i] /\ i + 1 \in 1..Len(q) /\ (i + 1) - 1 = i
    BY <1>1
  <2>. HIDE DEF m
  <2>. QED BY <1>2, <2>1 DEF Numbered
<1>5. Numbered(m, Tail(q), last)
  <2>. HIDE DEF m
  <2>. QED BY <1>3, <1>4 DEF Numbered
<1>6. IF Head(q).code = "SMV_DATA" THEN n[1] = n[0] + 1 /\ Head(q).id = n[1]
      ELSE n[1] = n[0]
  <2>1. 1 \in 1..Len(q) /\ Head(q) = q[1] /\ 1 - 1 = 0
    BY <1>1
  <2>. QED BY <2>1 DEF Numbered
<1>. QED BY <1>3, <1>5, <1>6

LEMMA NumberedAppend ==
  ASSUME NEW q \in Seq(Command), NEW c \in Command, NEW last \in Nat, NEW n,
         Numbered(n, q, last), NEW next,
         next = IF c.code = "SMV_DATA" THEN last + 1 ELSE last,
         c.code = "SMV_DATA" => c.id = next
  PROVE  \E m : Numbered(m, Append(q, c), next) /\ m[0] = n[0]
<1>. DEFINE p == Append(q, c)
<1>1. /\ Len(q) \in Nat /\ Len(p) = Len(q) + 1 /\ p[Len(q) + 1] = c
      /\ \A i \in 1..Len(q) : p[i] = q[i]
  OBVIOUS
<1>2. next \in Nat
  OBVIOUS
<1>. DEFINE m == [i \in 0..(Len(q) + 1) |-> IF i <= Len(q) THEN n[i] ELSE next]
<1>3. m \in [0..(Len(q) + 1) -> Nat] /\ m[Len(q) + 1] = next /\ m[0] = n[0]
      /\ m[Len(q)] = last
  BY <1>1, <1>2 DEF Numbered
<1>4. ASSUME NEW i \in 1..(Len(q) + 1)
      PROVE  IF p[i].code = "SMV_DATA" THEN m[i] = m[i-1] + 1 /\ p[i].id = m[i]
             ELSE m[i] = m[i-1]
  <2>1. CASE i \in 1..Len(q)
    <3>1. p[i] = q[i] /\ m[i] = n[i] /\ m[i-1] = n[i-1]
      BY <1>1, <2>1
    <3>. HIDE DEF m, p
    <3>. QED BY <2>1, <3>1 DEF Numbered
  <2>2. CASE i = Len(q) + 1
    <3>1. i - 1 = Len(q)
      BY <1>1, <2>2
    <3>. HIDE DEF m
    <3>. QED BY <1>1, <1>3, <2>2, <3>1
  <2>. QED BY <1>1, <2>1, <2>2
<1>5. Numbered(m, p, next)
  <2>. HIDE DEF m, p
  <2>. QED BY <1>1, <1>3, <1>4 DEF Numbered
<1>. QED BY <1>3, <1>5

Consecutive(b, n) == \A i \in 1..(n-1) : samples[b][i+1] = samples[b][i] + 1

(* The last sample taken from the link is the one before the first on it.  *)
(* Those that were dropped were taken while a batch waited to be swapped.  *)
InOrder(n) ==
  /\ Numbered(n, toDsp, sampled)
  /\ Underway =>
       recvBuf.id = n[0] /\ (cached > 0 => samples[swap][cached] + 1 = n[0])
  /\ ~Underway /\ ~Full => (cached > 0 => samples[swap][cached] = n[0])

BatchInv ==
  /\ \E n : InOrder(n)
  /\ Consecutive(swap, cached)
  /\ Swapping => cached = 0
  /\ Full => Consecutive(swap, Batch)
  /\ calc200 = "calculate" => Consecutive(1 - swap, Batch)

batchVars == <<toDsp, sampled, handed, recvBuf, sampleVars, sem, calc40, calc200>>

LEMMA BatchUnchanged == ASSUME BatchInv, UNCHANGED batchVars PROVE BatchInv'
BY DEF BatchInv, InOrder, Underway, Consecutive, Swapping, Full, batchVars

(* What is left to show of a step that leaves link, samples and buffers.   *)
LEMMA OrderUnchanged ==
  ASSUME BatchInv, UNCHANGED <<toDsp, sampled, recvBuf, samples, swap, cached>>,
         Underway' <=> Underway, Full' <=> Full
  PROVE  (\E n : InOrder(n))' /\ Consecutive(swap, cached)'
<1>1. PICK n : InOrder(n)
  BY DEF BatchInv
<1>2. InOrder(n)'
  BY <1>1 DEF InOrder
<1>3. Consecutive(swap, cached)'
  BY DEF BatchInv, Consecutive
<1>. QED BY <1>2, <1>3

LEMMA InitBatch == ASSUME Init PROVE BatchInv
<1>. DEFINE n == [i \in 0..0 |-> 0]
<1>1. Len(toDsp) = 0 /\ sampled = 0 /\ cached = 0 /\ ~Underway
  BY DEF Init, DspInit, Underway
<1>2. InOrder(n)
  <2>1. n \in [0..0 -> Nat] /\ n[0] = 0 /\ \A i \in 1..0 : FALSE
    OBVIOUS
  <2>. HIDE DEF n
  <2>. QED BY <1>1, <2>1 DEF InOrder, Numbered
<1>3. ~Full /\ ~Swapping /\ calc200 # "calculate" /\ Consecutive(swap, cached)
  BY <1>1 DEF Init, DspInit, Full, Swapping, Consecutive
<1>. QED BY <1>2, <1>3 DEF BatchInv

LEMMA ReceiveBatch ==
  ASSUME Sound, BatchInv, ~pressed, UNCHANGED <<sampled, paged>>,
         ReceiveDropped \/ ReceiveCalc \/ ReceiveOther \/ ReceivePend
  PROVE  BatchInv'
<1>t. toDsp \in Seq(Command) /\ cached \in 0..Batch /\ Counts
  BY SoundCounts DEF Sound, TypeInv, TypeOK, DspTypeOK
<1>0. PICK n : InOrder(n)
  BY DEF BatchInv
<1>1. ASSUME ReceiveNext
      PROVE  /\ \E m : Numbered(m, toDsp', sampled') /\ m[0] = n[1]
             /\ IF recvBuf'.code = "SMV_DATA"
                THEN n[1] = n[0] + 1 /\ recvBuf'.id = n[1] ELSE n[1] = n[0]
  BY <1>t, <1>0, <1>1, NumberedTail DEF ReceiveNext, InOrder
<1>r. ASSUME ReceiveNext PROVE handed = <<>> /\ ~Underway
  BY <1>r, ReceivingIsAlone DEF ReceiveNext
<1>2. CASE ReceiveDropped
  <2>1. /\ ReceiveNext /\ lostPoint /\ handed' = <<>>
        /\ UNCHANGED <<sem, calc40, calc200, samples, swap, cached>>
    BY <1>2, <1>r DEF ReceiveDropped, Dropped, ReceiveNext
  <2>2. Full /\ Full' /\ ~Underway'
    BY <2>1 DEF Sound, StallInv, LossEnds, Full, Swapping, Underway
  <2>3. PICK m : Numbered(m, toDsp', sampled') /\ m[0] = n[1]
    BY <1>1, <2>1
  <2>4. InOrder(m)'
    BY <2>2, <2>3 DEF InOrder
  <2>. QED BY <2>1, <2>4 DEF BatchInv, Consecutive, Swapping, Full
<1>3. CASE ReceiveCalc
  <2>1. ReceiveNext /\ handed' = Append(handed, Head(toDsp))
        /\ ~Dropped(recvBuf')
        /\ UNCHANGED <<calc40, calc200, samples, swap, cached, lostPoint>>
    BY <1>3 DEF ReceiveCalc, ReceiveNext
  <2>2. handed' # <<>> /\ sem'[2] = sem[2]
    <3>1. handed' = <<Head(toDsp)>>
      BY <1>r, <2>1
    <3>. QED BY <1>t, <1>3, <3>1, PostCounts DEF ReceiveCalc
  <2>3. Full' <=> Full
    BY <2>1, <2>2 DEF Full, Swapping
  <2>4. PICK m : Numbered(m, toDsp', sampled') /\ m[0] = n[1]
    BY <1>1, <2>1
  <2>5. IF recvBuf'.code = "SMV_DATA"
        THEN n[1] = n[0] + 1 /\ recvBuf'.id = n[1] ELSE n[1] = n[0]
    BY <1>1, <2>1
  <2>6. ~Full => (cached > 0 => samples[swap][cached] = n[0])
    BY <1>0, <1>r, <2>1 DEF InOrder
  <2>7. recvBuf'.code = "SMV_DATA" => ~Full
    BY <2>1, ReceivingIsAlone DEF ReceiveNext, Dropped
  <2>8. InOrder(m)'
    BY <2>1, <2>2, <2>3, <2>4, <2>5, <2>6, <2>7 DEF InOrder, Underway
  <2>. QED BY <2>1, <2>2, <2>3, <2>8 DEF BatchInv, Consecutive, Swapping
<1>4. CASE ReceiveOther
  <2>1. /\ ReceiveNext /\ cached' \in {0, cached}
        /\ UNCHANGED <<handed, calc40, calc200, samples, swap>>
        /\ sem' = Post({7, 0}) /\ Head(toDsp).code \in DOMAIN Answer
    BY <1>4 DEF ReceiveOther
  <2>2. sem'[2] = sem[2] /\ ~Underway'
    BY <1>t, <1>r, <2>1, PostCounts DEF Underway
  <2>3. Full' <=> Full
    BY <2>1, <2>2 DEF Full, Swapping
  <2>4. PICK m : Numbered(m, toDsp', sampled') /\ m[0] = n[1]
    BY <1>1, <2>1
  <2>5. n[1] = n[0]
    <3>1. recvBuf'.code # "SMV_DATA"
      BY <2>1, Answers DEF ReceiveNext
    <3>. QED BY <1>1, <2>1, <3>1
  <2>6. ~Full => (cached > 0 => samples[swap][cached] = n[0])
    BY <1>0, <1>r, <2>1 DEF InOrder
  <2>7. InOrder(m)'
    BY <2>1, <2>2, <2>3, <2>4, <2>5, <2>6 DEF InOrder
  <2>8. Consecutive(swap, cached)'
    <3>1. CASE cached' = 0
      BY <3>1 DEF Consecutive
    <3>2. CASE cached' = cached
      BY <2>1, <3>2 DEF BatchInv, Consecutive
    <3>. QED BY <2>1, <3>1, <3>2
  <2>9. Swapping' => cached' = 0
    BY <2>1, <2>2 DEF BatchInv, Swapping
  <2>. QED BY <2>1, <2>3, <2>7, <2>8, <2>9 DEF BatchInv, Consecutive
<1>5. CASE ReceivePend
  <2>1. /\ sem'[2] = sem[2]
        /\ UNCHANGED <<toDsp, sampled, recvBuf, handed, samples, swap, cached,
                       calc40, calc200>>
    BY <1>t, <1>5, PendCounts DEF ReceivePend
  <2>2. (Underway' <=> Underway) /\ (Full' <=> Full)
    BY <2>1 DEF Underway, Full, Swapping
  <2>. QED BY <2>1, <2>2, OrderUnchanged
           DEF BatchInv, Swapping, Consecutive
<1>. QED BY <1>2, <1>3, <1>4, <1>5

LEMMA SendBatch ==
  ASSUME Sound, BatchInv, UNCHANGED <<sampled, paged>>, SendPend \/ SendExecute
  PROVE  BatchInv'
<1>1. CASE SendPend
  <2>1. /\ sem'[2] = sem[2]
        /\ UNCHANGED <<toDsp, sampled, recvBuf, handed, samples, swap, cached,
                       calc40, calc200>>
    BY <1>1, SoundCounts, PendCounts DEF SendPend
  <2>2. (Underway' <=> Underway) /\ (Full' <=> Full)
    BY <2>1 DEF Underway, Full, Swapping
  <2>. QED BY <2>1, <2>2, OrderUnchanged
           DEF BatchInv, Swapping, Consecutive
<1>2. CASE SendExecute
  BY <1>2, BatchUnchanged DEF SendExecute, batchVars
<1>. QED BY <1>1, <1>2

(* The sample is stored after those it followed, and the batch is complete *)
(* with it or goes on.                                                     *)
LEMMA SampleBatch ==
  ASSUME Sound, BatchInv, ~pressed, UNCHANGED <<sampled, paged>>, RealSmvHelper
  PROVE  BatchInv'
<1>t. /\ cached \in 0..Batch /\ Batch \in Nat \ {0} /\ swap \in {0, 1}
      /\ samples \in [{0, 1} -> [1..Batch -> Nat]]
      /\ cached < Batch /\ Counts
  <2>1. calc40 = "SMV_DATA" /\ TypeInv
    BY DEF RealSmvHelper, Sound
  <2>2. cached < Batch
    BY <2>1 DEF TypeInv, Handing
  <2>. QED BY <2>1, <2>2, SoundCounts, DspAssumption DEF TypeInv, TypeOK, DspTypeOK
<1>1. /\ calc40 = "SMV_DATA" /\ handed' = Tail(handed)
      /\ samples' = [samples EXCEPT ![swap][cached + 1] = recvBuf.id]
      /\ cached' = cached + 1
      /\ sem' \in {sem, Post({7})}
      /\ calc40' \in {"pend1", "start200", "pend5"}
      /\ calc40' # "pend1" => cached' = Batch
      /\ UNCHANGED <<toDsp, sampled, recvBuf, swap, calc200>>
  BY <1>t DEF RealSmvHelper
<1>2. /\ handed = <<recvBuf>> /\ recvBuf.code = "SMV_DATA" /\ handed' = <<>>
      /\ cached + 1 \in 1..Batch
  BY <1>t, <1>1, ExecutingIsAlone DEF CalcCode
<1>3. Underway /\ ~Underway' /\ ~Full
  <2>1. Underway /\ ~Underway'
    BY <1>2 DEF Underway
  <2>. QED BY <2>1 DEF Sound, RelayInv, Relay, FullInv
<1>4. ~Swapping /\ ~Swapping'
  BY <1>t, <1>1, <1>3, PostCounts DEF Full, Swapping
<1>5. PICK n : InOrder(n)
  BY DEF BatchInv
<1>6. /\ recvBuf.id = n[0]
      /\ cached > 0 => samples[swap][cached] + 1 = n[0]
      /\ Numbered(n, toDsp, sampled)
  BY <1>3, <1>5 DEF InOrder
<1>7. /\ samples'[swap][cached + 1] = n[0]
      /\ \A i \in 1..cached : samples'[swap][i] = samples[swap][i]
      /\ samples'[1 - swap] = samples[1 - swap]
  BY <1>t, <1>1, <1>2, <1>6
<1>8. InOrder(n)'
  BY <1>1, <1>3, <1>6, <1>7 DEF InOrder
<1>9. Consecutive(swap, cached)'
  <2>1. ASSUME NEW i \in 1..cached
        PROVE  samples'[swap][i+1] = samples'[swap][i] + 1
    <3>1. CASE i = cached
      BY <1>6, <1>7, <3>1
    <3>2. CASE i # cached
      <4>1. i \in 1..(cached - 1) /\ i + 1 \in 1..cached
        BY <1>t, <3>2
      <4>2. samples[swap][i+1] = samples[swap][i] + 1
        BY <4>1 DEF BatchInv, Consecutive
      <4>. QED BY <1>7, <4>1, <4>2
    <3>. QED BY <3>1, <3>2
  <2>2. cached' - 1 = cached /\ swap' = swap
    BY <1>t, <1>1
  <2>. QED BY <2>1, <2>2 DEF Consecutive
<1>10. Full' => Consecutive(swap, Batch)'
  BY <1>1, <1>4, <1>9 DEF Full
<1>11. calc200' = "calculate" => Consecutive(1 - swap, Batch)'
  BY <1>1, <1>7 DEF BatchInv, Consecutive
<1>. QED BY <1>4, <1>8, <1>9, <1>10, <1>11 DEF BatchInv

LEMMA Calc40Batch ==
  ASSUME Sound, BatchInv, ~pressed, UNCHANGED <<sampled, paged>>,
         \/ Calc40Pend \/ SmvGenHelper \/ RealSmvHelper \/ CalculationDone
         \/ StartCalculation \/ MsgDispHelper \/ MsgDispCalc
  PROVE  BatchInv'
<1>t. Counts /\ Handing
  BY SoundCounts DEF Sound, TypeInv
<1>1. CASE Calc40Pend
  <2>1. /\ sem[1] > 0 /\ calc40 = "pend1" /\ sem'[2] = sem[2]
        /\ calc40' = taskFlag
        /\ UNCHANGED <<toDsp, sampled, recvBuf, handed, samples, swap, cached,
                       calc200>>
    BY <1>1, <1>t, PendCounts DEF Calc40Pend
  <2>2. calc40' \notin {"pend5", "start200"}
    BY <1>t, <2>1 DEF Handing, CalcCode
  <2>3. (Underway' <=> Underway) /\ (Full' <=> Full)
    BY <2>1, <2>2 DEF Underway, Full, Swapping
  <2>. QED BY <2>1, <2>3, OrderUnchanged
           DEF BatchInv, Swapping, Consecutive
<1>2. CASE SmvGenHelper \/ MsgDispHelper
  <2>1. /\ calc40 \in CalcCode /\ calc40 # "SMV_DATA" /\ handed' = Tail(handed)
        /\ calc40' \in {"pend1", "dispersion"}
        /\ sem' \in {Post({7, 0}), Post({7})}
        /\ UNCHANGED <<toDsp, sampled, recvBuf, samples, swap, cached, calc200>>
    BY <1>2 DEF SmvGenHelper, MsgDispHelper, CalcCode
  <2>2. sem'[2] = sem[2]
    BY <1>t, <2>1, PostCounts
  <2>3. ~Underway /\ ~Underway'
    <3>1. recvBuf.code # "SMV_DATA"
      BY <2>1, ExecutingIsAlone
    <3>. QED BY <2>1, <3>1 DEF Underway
  <2>4. Full' <=> Full
    BY <2>1, <2>2 DEF Full, Swapping, CalcCode
  <2>. QED BY <2>1, <2>2, <2>3, <2>4, OrderUnchanged
           DEF BatchInv, Swapping, Consecutive
<1>3. CASE RealSmvHelper
  BY <1>3, SampleBatch
<1>4. CASE CalculationDone
  <2>1. /\ sem'[2] = sem[2] /\ calc40 = "pend5" /\ calc40' = "start200"
        /\ UNCHANGED <<toDsp, sampled, recvBuf, handed, samples, swap, cached,
                       calc200>>
    BY <1>4, <1>t, PendCounts DEF CalculationDone
  <2>2. (Underway' <=> Underway) /\ (Full' <=> Full)
    BY <2>1 DEF Underway, Full, Swapping
  <2>. QED BY <2>1, <2>2, OrderUnchanged
           DEF BatchInv, Swapping, Consecutive
<1>5. CASE StartCalculation
  <2>1. /\ calc40 = "start200" /\ calc40' = "pend1" /\ cached' = 0
        /\ sem'[2] = sem[2] + 1
        /\ UNCHANGED <<toDsp, sampled, recvBuf, handed, samples, swap, calc200>>
    BY <1>5, <1>t, PostCounts DEF StartCalculation
  <2>2. Full /\ Full' /\ ~Underway /\ ~Underway'
    <3>1. Full /\ Full' /\ (Underway' <=> Underway)
      BY <1>t, <2>1 DEF Full, Swapping, Underway, Counts
    <3>. QED BY <3>1 DEF Sound, RelayInv, Relay, FullInv
  <2>3. PICK n : InOrder(n)
    BY DEF BatchInv
  <2>4. InOrder(n)'
    BY <2>1, <2>2, <2>3 DEF InOrder
  <2>5. Consecutive(swap, cached)' /\ Consecutive(swap, Batch)'
    BY <2>1 DEF BatchInv, Consecutive, Full
  <2>6. calc200' = "calculate" => Consecutive(1 - swap, Batch)'
    BY <2>1 DEF BatchInv, Consecutive
  <2>. QED BY <2>1, <2>4, <2>5, <2>6 DEF BatchInv
<1>6. CASE MsgDispCalc
  <2>1. /\ sem'[2] = sem[2] /\ calc40 = "dispersion" /\ calc40' = "pend1"
        /\ UNCHANGED <<toDsp, sampled, recvBuf, handed, samples, swap, cached,
                       calc200>>
    BY <1>6, <1>t, PostCounts DEF MsgDispCalc
  <2>2. (Underway' <=> Underway) /\ (Full' <=> Full)
    BY <2>1 DEF Underway, Full, Swapping
  <2>. QED BY <2>1, <2>2, OrderUnchanged
           DEF BatchInv, Swapping, Consecutive
<1>. QED BY <1>1, <1>2, <1>3, <1>4, <1>5, <1>6

(* After the swap no other batch waits, so the new one starts empty.       *)
LEMMA SwapLeavesRoom ==
  ASSUME Sound, ~pressed, SwapBuffers
  PROVE  /\ sem[2] = 0 /\ sem'[2] = 0 /\ calc40 \notin {"pend5", "start200"}
         /\ Full /\ ~Full' /\ ~Underway
<1>1. /\ Counts /\ Waiting <= 1 /\ (Full => ~Underway)
      /\ calc200 = "swap" /\ calc200' = "calculate" /\ calc40' = calc40
  BY SoundCounts DEF SwapBuffers, Sound, RelayInv, Relay, FullInv
<1>2. sem'[2] = sem[2]
  BY <1>1, PostCounts DEF SwapBuffers
<1>3. sem[2] = 0 /\ calc40 \notin {"pend5", "start200"}
  BY <1>1 DEF Waiting, Counts
<1>. QED BY <1>1, <1>2, <1>3 DEF Full, Swapping

LEMMA Calc200Batch ==
  ASSUME Sound, BatchInv, ~pressed, UNCHANGED <<sampled, paged>>,
         Calc200Pend \/ SwapBuffers \/ SmvDataCalc \/ ReportHarmonics
  PROVE  BatchInv'
<1>t. Counts
  BY SoundCounts
<1>1. CASE Calc200Pend
  <2>1. /\ sem[2] > 0 /\ calc200 = "pend2" /\ calc200' = "swap"
        /\ UNCHANGED <<toDsp, sampled, recvBuf, handed, samples, swap, cached,
                       calc40>>
    BY <1>1, <1>t, PendCounts DEF Calc200Pend
  <2>2. (Underway' <=> Underway) /\ Full /\ Full' /\ Swapping
    BY <2>1 DEF Underway, Full, Swapping
  <2>. QED BY <2>1, <2>2, OrderUnchanged
           DEF BatchInv, Consecutive
<1>2. CASE SwapBuffers
  <2>1. /\ calc200 = "swap" /\ calc200' = "calculate" /\ swap' = 1 - swap
        /\ UNCHANGED <<toDsp, sampled, recvBuf, handed, samples, cached, calc40>>
    BY <1>2 DEF SwapBuffers
  <2>2. ~Full' /\ ~Swapping' /\ ~Underway
    BY <1>2, SwapLeavesRoom DEF Full
  <2>3. cached = 0 /\ Consecutive(swap, Batch) /\ swap \in {0, 1}
    BY <2>1 DEF BatchInv, Swapping, Full, Sound, TypeInv, TypeOK, DspTypeOK
  <2>4. PICK n : InOrder(n)
    BY DEF BatchInv
  <2>5. InOrder(n)'
    BY <2>1, <2>2, <2>3, <2>4 DEF InOrder, Underway
  <2>7. Consecutive(swap, cached)'
    BY <2>1, <2>3 DEF Consecutive
  <2>8. Consecutive(1 - swap, Batch)'
    <3>1. 1 - swap' = swap /\ samples' = samples
      BY <2>1, <2>3
    <3>. QED BY <2>3, <3>1 DEF Consecutive
  <2>. QED BY <2>2, <2>5, <2>7, <2>8 DEF BatchInv
<1>3. CASE SmvDataCalc \/ ReportHarmonics
  <2>1. /\ calc200 \in {"calculate", "report"} /\ calc200' \in {"report", "pend2"}
        /\ sem' \in {Post({5}), Post({0})}
        /\ UNCHANGED <<toDsp, sampled, recvBuf, handed, samples, swap, cached,
                       calc40>>
    BY <1>3 DEF SmvDataCalc, ReportHarmonics
  <2>2. sem'[2] = sem[2]
    BY <1>t, <2>1, PostCounts
  <2>3. (Underway' <=> Underway) /\ (Full' <=> Full)
    BY <2>1, <2>2 DEF Underway, Full, Swapping
  <2>. QED BY <2>1, <2>2, <2>3, OrderUnchanged
           DEF BatchInv, Swapping, Consecutive
<1>. QED BY <1>1, <1>2, <1>3

(* The pages put the next sample on the link, or something else.           *)
LEMMA PageBatch ==
  ASSUME TypeInv, BatchInv,
         NEW code \in CalcCode \cup DOMAIN Answer, NEW id \in Nat,
         FrameSend(code, id),
         sampled' = IF code = "SMV_DATA" THEN sampled + 1 ELSE sampled,
         code = "SMV_DATA" => id = sampled'
  PROVE  BatchInv'
<1>. DEFINE c == [code |-> code, id |-> id]
<1>1. /\ c \in Command /\ toDsp \in Seq(Command) /\ sampled \in Nat
      /\ toDsp' = Append(toDsp, c) /\ c.code = code /\ c.id = id
  <2>1. sampled \in Nat
    BY ClientAssumption DEF TypeInv, TypeOK
  <2>. QED BY <2>1 DEF TypeInv, TypeOK, DspTypeOK, Command, FrameSend
<1>2. PICK n : InOrder(n)
  BY DEF BatchInv
<1>u. UNCHANGED dspVars
  BY DEF FrameSend
<1>. HIDE DEF c
<1>3. PICK m : Numbered(m, toDsp', sampled') /\ m[0] = n[0]
  BY <1>1, <1>2, NumberedAppend DEF InOrder
<1>4. InOrder(m)'
  BY <1>2, <1>3, <1>u DEF InOrder, Underway, Full, Swapping, dspVars
<1>. QED BY <1>4, <1>u DEF BatchInv, Consecutive, Swapping, Full, dspVars

LEMMA BatchStep ==
  ASSUME Sound, BatchInv, ~pressed, [Next]_vars PROVE BatchInv'
<1>t. TypeInv
  BY DEF Sound
<1>1. CASE DspStep
  BY <1>1, ReceiveBatch, SendBatch, Calc40Batch, Calc200Batch
  DEF DspStep, DspNext
<1>2. CASE GetDspInfo
  <2>1. CASE FrameSend("INFO", 0)
    BY <1>t, <1>2, <2>1, Answers, PageBatch DEF GetDspInfo
  <2>2. CASE UNCHANGED <<linkVars, dspVars, pressed>>
    BY <1>2, <2>2, BatchUnchanged DEF GetDspInfo, batchVars, dspVars
  <2>. QED BY <1>2, <2>1, <2>2 DEF GetDspInfo
<1>3. CASE SendGen
  <2>1. "SMV_GEN" \in CalcCode /\ request \in Nat
    BY <1>t, ClientAssumption DEF CalcCode, TypeInv, TypeOK
  <2>. QED BY <1>t, <1>3, <2>1, PageBatch DEF SendGen
<1>4. CASE CallerNext /\ ~GetDspInfo /\ ~SendGen
  BY <1>4, BatchUnchanged
  DEF CallerNext, Construct, CheckSend, StoreBuffer, SendFails, WaitForObject,
      WaitTimesOut, Framed, batchVars, dspVars, pageVars
<1>5. CASE ReaderNext
  BY <1>5, BatchUnchanged
  DEF ReaderNext, ReadFrame, SignalSend, CopyResult, SignalReceive, batchVars,
      dspVars, pageVars
<1>6. CASE SendSmv
  <2>1. "SMV_DATA" \in CalcCode /\ sampled + 1 \in Nat
    BY <1>t, ClientAssumption DEF CalcCode, TypeInv, TypeOK
  <2>. QED BY <1>t, <1>6, <2>1, PageBatch DEF SendSmv
<1>7. CASE PageSends
  <2>1. PageCommands \subseteq (CalcCode \cup DOMAIN Answer) \ {"SMV_DATA"}
    BY ClientAssumption, Answers DEF CalcCode
  <2>. QED BY <1>t, <1>7, <2>1, PageBatch DEF PageSends
<1>8. CASE UNCHANGED vars
  BY <1>8, BatchUnchanged DEF vars, batchVars, dspVars, pageVars
<1>. QED BY <1>1, <1>2, <1>3, <1>4, <1>5, <1>6, <1>7, <1>8 DEF Next

BatchSound == Sound /\ (~pressed => BatchInv)

LEMMA BatchAlways == Spec => []BatchSound
<1>1. Init => BatchSound
  <2>1. Init => Sound
    BY InitTypes, InitRelay
    DEF Sound, Init, DspInit, StallInv, NoStall, Calculating, LossEnds
  <2>. QED BY <2>1, InitBatch DEF BatchSound
<1>2. BatchSound /\ [Next]_vars => BatchSound'
  BY SoundStep, BatchStep, PressedStays DEF BatchSound
<1>. QED BY <1>1, <1>2, PTL DEF Spec

(* Until a frame is pressed in, the harmonics are calculated from a batch  *)
(* of samples that followed each other on the link, for every length of a  *)
(* batch, every depth of the link and whatever else is sent, the losses of *)
(* _LOST_POINT_MODE included (main.c:341-432, 446-466).                    *)
THEOREM BatchIntactAlways == Spec => []BatchIntact
<1>1. BatchSound => BatchIntact
  BY DEF BatchSound, BatchInv, BatchIntact, Consecutive
<1>. QED BY <1>1, BatchAlways, PTL

-----------------------------------------------------------------------------
(* The tasks are a CommandService, which is overloaded once a frame is     *)
(* pressed in.                                                             *)
serviceVars == <<toDsp, Executing, Collected, Calculated, genRT, pressed>>

(* The samples at the beginning of a buffer, and one more of them.         *)
LEMMA Prefix ==
  ASSUME NEW n \in Nat \ {0}, NEW s \in [1..n -> Nat], NEW m \in 0..n
  PROVE  /\ s \in Seq(Nat) /\ Len(s) = n
         /\ SubSeq(s, 1, m) \in Seq(Nat) /\ Len(SubSeq(s, 1, m)) = m
         /\ \A i \in 1..m : SubSeq(s, 1, m)[i] = s[i]
         /\ SubSeq(s, 1, n) = s
<1>1. s \in Seq(Nat) /\ Len(s) = n
  OBVIOUS
<1>2. ASSUME NEW k \in 0..n
      PROVE  /\ SubSeq(s, 1, k) \in Seq(Nat) /\ Len(SubSeq(s, 1, k)) = k
             /\ \A i \in 1..k : SubSeq(s, 1, k)[i] = s[i]
  <2>1. \A i \in 1..k : s[i] \in Nat
    OBVIOUS
  <2>. QED BY <1>1, <2>1, SubSeqProperties
<1>3. SubSeq(s, 1, n) = s
  BY <1>1, <1>2, SeqEqual
<1>. QED BY <1>1, <1>2, <1>3

LEMMA PrefixGrows ==
  ASSUME NEW n \in Nat \ {0}, NEW s \in [1..n -> Nat], NEW m \in 0..(n-1),
         NEW v \in Nat, NEW t, t = [s EXCEPT ![m+1] = v]
  PROVE  SubSeq(t, 1, m + 1) = Append(SubSeq(s, 1, m), v)
<1>1. t \in [1..n -> Nat] /\ t[m+1] = v /\ \A i \in 1..m : t[i] = s[i]
  OBVIOUS
<1>. DEFINE a == SubSeq(s, 1, m)  b == SubSeq(t, 1, m + 1)
<1>2. a \in Seq(Nat) /\ Len(a) = m /\ \A i \in 1..m : a[i] = s[i]
  BY Prefix
<1>3. b \in Seq(Nat) /\ Len(b) = m + 1 /\ \A i \in 1..(m + 1) : b[i] = t[i]
  BY <1>1, Prefix
<1>. HIDE DEF a, b
<1>4. /\ Append(a, v) \in Seq(Nat) /\ Len(Append(a, v)) = m + 1
      /\ \A i \in 1..(m + 1) : Append(a, v)[i] = IF i = m + 1 THEN v ELSE a[i]
  BY <1>2, AppendProperties
<1>5. \A i \in 1..(m + 1) : b[i] = Append(a, v)[i]
  BY <1>1, <1>2, <1>3, <1>4
<1>6. b = Append(a, v)
  BY <1>3, <1>4, <1>5, SeqEqual
<1>. QED BY <1>6 DEF a, b

LEMMA TheBatch ==
  ASSUME TypeInv
  PROVE  /\ Collected \in Seq(Nat)
         /\ Len(Collected) = IF Full THEN Batch ELSE cached
<1>1. /\ cached \in 0..Batch /\ Batch \in Nat \ {0}
      /\ samples[swap] \in [1..Batch -> Nat]
  BY DspAssumption DEF TypeInv, TypeOK, DspTypeOK
<1>. QED BY <1>1, Prefix DEF Collected

LEMMA NothingCollected ==
  ASSUME ~Full, cached = 0 PROVE Collected = <<>>
BY SubSeqEmpty DEF Collected

(* The steps inside the tasks that the service does not show.              *)
LEMMA ServiceUnchanged ==
  ASSUME UNCHANGED <<toDsp, handed, samples, swap, cached, genRT, pressed>>,
         Full' <=> Full, calc200' = "calculate" <=> calc200 = "calculate"
  PROVE  UNCHANGED serviceVars
BY DEF serviceVars, Executing, Collected, Calculated

LEMMA ServiceAccepts ==
  ASSUME NEW code \in CalcCode \cup DOMAIN Answer, UNCHANGED pressed,
         NEW id \in 0..(MaxRequests + MaxSamples), FrameSend(code, id)
  PROVE  Service!Next
<1>. DEFINE c == [code |-> code, id |-> id]
<1>1. UNCHANGED <<Executing, Collected, Calculated, genRT>>
  BY DEF FrameSend, dspVars, Executing, Collected, Calculated, Full, Swapping
<1>2. Service!Accept(c)
  BY <1>1 DEF FrameSend, Service!Accept
<1>3. c \in [code : CalcCode \cup DOMAIN Answer, id : 0..(MaxRequests + MaxSamples)]
  OBVIOUS
<1>. QED BY <1>2, <1>3 DEF Service!Next

LEMMA ServiceReceives ==
  ASSUME Sound, ~pressed, UNCHANGED pressed,
         ReceiveDropped \/ ReceiveCalc \/ ReceiveOther \/ ReceivePend
  PROVE  Service!Next \/ UNCHANGED serviceVars
<1>t. Counts /\ TypeInv
  BY SoundCounts DEF Sound
<1>1. CASE ReceivePend
  <2>1. sem'[2] = sem[2]
    BY <1>t, <1>1, PendCounts DEF ReceivePend
  <2>. QED BY <1>1, <2>1, ServiceUnchanged DEF ReceivePend, Full, Swapping
<1>2. ASSUME ReceiveNext
      PROVE  /\ Service!Receive /\ handed = <<>>
             /\ Service!Complete <=> Full
             /\ Full => lostPoint /\ LostPointMode
  <2>1. handed = <<>> /\ (Full => lostPoint /\ LostPointMode)
    BY <1>2, ReceivingIsAlone DEF ReceiveNext
  <2>2. Service!Complete <=> Full
    <3>1. ~Full => cached < Batch
      BY <1>t DEF Full, TypeInv, Handing
    <3>2. cached \in Nat /\ Batch \in Nat
      BY <1>t, DspAssumption DEF TypeInv, TypeOK, DspTypeOK
    <3>. QED BY <1>t, <3>1, <3>2, TheBatch DEF Service!Complete
  <2>3. Service!Receive
    BY <1>2, <2>1
    DEF ReceiveNext, Service!Receive, Executing, Nothing, Service!Nobody
  <2>. QED BY <2>1, <2>2, <2>3
<1>3. CASE ReceiveDropped
  <2>1. /\ ReceiveNext /\ Head(toDsp).code = "SMV_DATA" /\ LostPointMode
        /\ lostPoint
        /\ UNCHANGED <<handed, sem, samples, swap, cached, calc40, calc200, genRT>>
    BY <1>3 DEF ReceiveDropped, Dropped
  <2>2. Service!Complete
    <3>1. Full
      BY <2>1 DEF Sound, StallInv, LossEnds, Full, Swapping
    <3>. QED BY <1>2, <2>1, <3>1
  <2>3. UNCHANGED <<Executing, Collected, Calculated>>
    BY <2>1 DEF Executing, Collected, Calculated, Full, Swapping
  <2>4. Service!Drop
    BY <1>2, <2>1, <2>2, <2>3 DEF Service!Drop
  <2>. QED BY <2>4 DEF Service!Next
<1>4. CASE ReceiveCalc
  <2>1. ReceiveNext /\ Head(toDsp).code \in CalcCode
        /\ handed' = Append(handed, Head(toDsp)) /\ ~Dropped(Head(toDsp))
        /\ UNCHANGED <<samples, swap, cached, calc40, calc200, genRT>>
    BY <1>4 DEF ReceiveCalc
  <2>2. sem'[2] = sem[2]
    BY <1>t, <1>4, PostCounts DEF ReceiveCalc
  <2>3. Executing' = Head(toDsp)
    <3>1. handed' = <<Head(toDsp)>>
      BY <1>2, <2>1
    <3>. QED BY <3>1 DEF Executing
  <2>4. UNCHANGED <<Collected, Calculated>>
    BY <2>1, <2>2 DEF Collected, Calculated, Full, Swapping
  <2>5. Service!Complete => LostPointMode /\ Head(toDsp).code # "SMV_DATA"
    BY <1>2, <2>1 DEF Dropped
  <2>6. Service!Take
    BY <1>2, <2>1, <2>3, <2>4, <2>5 DEF Service!Take, Service!Executed, CalcCode
  <2>. QED BY <2>6 DEF Service!Next
<1>5. CASE ReceiveOther
  <2>1. ReceiveNext /\ Head(toDsp).code \in DOMAIN Answer
        /\ cached' = (IF Head(toDsp).code = "RESET_SMV" THEN 0 ELSE cached)
        /\ UNCHANGED <<handed, samples, swap, calc40, calc200, genRT>>
        /\ sem' = Post({7, 0})
    BY <1>5 DEF ReceiveOther
  <2>2. sem'[2] = sem[2]
    BY <1>t, <2>1, PostCounts
  <2>3. Full' <=> Full
    BY <2>1, <2>2 DEF Full, Swapping
  <2>4. UNCHANGED <<Executing, Calculated>>
    BY <2>1 DEF Executing, Calculated
  <2>5. Collected' = IF Head(toDsp).code = "RESET_SMV" /\ ~Full THEN <<>>
                     ELSE Collected
    <3>1. cached' = 0 /\ ~Full => Collected' = <<>>
      BY <2>3, SubSeqEmpty DEF Collected
    <3>2. cached' = cached \/ Full => Collected' = Collected
      BY <2>1, <2>3 DEF Collected
    <3>. QED BY <2>1, <3>1, <3>2
  <2>6. Service!Answer
    BY <1>2, <2>1, <2>4, <2>5, Answers DEF Service!Answer, Service!Executed
  <2>. QED BY <2>6 DEF Service!Next
<1>. QED BY <1>1, <1>3, <1>4, <1>5

LEMMA ServiceSends ==
  ASSUME Sound, UNCHANGED pressed, SendPend \/ SendExecute
  PROVE  UNCHANGED serviceVars
<1>1. sem'[2] = sem[2]
  BY SoundCounts, PendCounts DEF SendPend, SendExecute
<1>. QED BY <1>1, ServiceUnchanged DEF SendPend, SendExecute, Full, Swapping

(* The command that is executed is the one tskReceive took last.           *)
LEMMA ExecutingIs ==
  ASSUME Sound, ~pressed, calc40 \in CalcCode
  PROVE  /\ Executing = recvBuf /\ recvBuf.code = calc40
         /\ Tail(handed) = <<>>
         /\ calc40 = "SMV_DATA" => ~Full /\ sem[2] = 0
<1>1. handed = <<recvBuf>> /\ Tail(handed) = <<>> /\ recvBuf.code = calc40
  BY ExecutingIsAlone
<1>2. Executing = recvBuf
  BY <1>1 DEF Executing
<1>3. ASSUME calc40 = "SMV_DATA" PROVE ~Full /\ sem[2] = 0
  <2>1. ~Full
    BY <1>1, <1>3 DEF Underway, Sound, RelayInv, Relay, FullInv
  <2>. QED BY <2>1, SoundCounts DEF Counts, Full, Swapping
<1>. QED BY <1>1, <1>2, <1>3

LEMMA ServiceCalculates40 ==
  ASSUME Sound, ~pressed, UNCHANGED pressed,
         \/ Calc40Pend \/ SmvGenHelper \/ RealSmvHelper \/ CalculationDone
         \/ StartCalculation \/ MsgDispHelper \/ MsgDispCalc
  PROVE  Service!Next \/ UNCHANGED serviceVars
<1>t. Counts /\ TypeInv
  BY SoundCounts DEF Sound
<1>1. CASE Calc40Pend
  <2>1. sem'[2] = sem[2] /\ taskFlag \in CalcCode
    BY <1>t, <1>1, PendCounts DEF Calc40Pend, TypeInv, Handing
  <2>2. Full' <=> Full
    BY <1>1, <2>1 DEF Calc40Pend, Full, Swapping, CalcCode
  <2>. QED BY <1>1, <2>2, ServiceUnchanged DEF Calc40Pend
<1>2. ASSUME calc40 \in CalcCode, handed' = Tail(handed), sem'[2] = sem[2],
             calc40' \in {"pend1", "dispersion"}, UNCHANGED calc200
      PROVE  /\ Executing = recvBuf /\ recvBuf.code = calc40
             /\ Executing' = Service!Nobody /\ (Full' <=> Full)
  BY <1>2, ExecutingIs
  DEF Executing, Nothing, Service!Nobody, Full, Swapping, CalcCode
<1>3. CASE SmvGenHelper
  <2>1. /\ calc40 = "SMV_GEN" /\ handed' = Tail(handed) /\ calc40' = "pend1"
        /\ genRT' = recvBuf.id
        /\ UNCHANGED <<toDsp, samples, swap, cached, calc200>>
    BY <1>3 DEF SmvGenHelper
  <2>2. sem'[2] = sem[2]
    BY <1>t, <1>3, PostCounts DEF SmvGenHelper
  <2>3. /\ Executing = recvBuf /\ recvBuf.code = "SMV_GEN"
        /\ Executing' = Service!Nobody /\ (Full' <=> Full)
    BY <1>2, <2>1, <2>2 DEF CalcCode
  <2>4. Service!Generate
    BY <2>1, <2>3 DEF Service!Generate, Collected, Calculated
  <2>. QED BY <2>4 DEF Service!Next
<1>4. CASE MsgDispHelper
  <2>1. /\ calc40 = "TIME_DATA" /\ handed' = Tail(handed)
        /\ calc40' \in {"pend1", "dispersion"}
        /\ UNCHANGED <<toDsp, samples, swap, cached, calc200, genRT>>
    BY <1>4 DEF MsgDispHelper
  <2>2. sem'[2] = sem[2]
    BY <1>t, <1>4, PostCounts DEF MsgDispHelper
  <2>3. /\ Executing = recvBuf /\ recvBuf.code = "TIME_DATA"
        /\ Executing' = Service!Nobody /\ (Full' <=> Full)
    BY <1>2, <2>1, <2>2 DEF CalcCode
  <2>4. Service!Times
    BY <2>1, <2>3 DEF Service!Times, Collected, Calculated
  <2>. QED BY <2>4 DEF Service!Next
<1>5. CASE RealSmvHelper
  <2>1. /\ calc40 = "SMV_DATA" /\ handed' = Tail(handed) /\ sem'[2] = sem[2]
        /\ samples' = [samples EXCEPT ![swap][cached + 1] = recvBuf.id]
        /\ cached' = cached + 1
        /\ UNCHANGED <<toDsp, swap, calc200, genRT>>
        /\ IF cached + 1 < Batch THEN calc40' = "pend1"
           ELSE calc40' \in {"start200", "pend5"}
    BY <1>t, <1>5, PostCounts DEF RealSmvHelper
  <2>2. /\ Executing = recvBuf /\ recvBuf.code = "SMV_DATA"
        /\ Executing' = Service!Nobody /\ ~Full /\ sem[2] = 0 /\ sem'[2] = 0
    BY <2>1, ExecutingIs DEF Executing, Nothing, Service!Nobody, CalcCode
  <2>3. /\ cached \in Nat /\ cached < Batch /\ Batch \in Nat
        /\ swap \in {0, 1} /\ recvBuf.id \in Nat
        /\ samples \in [{0, 1} -> [1..Batch -> Nat]]
    <3>1. recvBuf.id \in Nat
      BY <1>t DEF TypeInv, TypeOK, DspTypeOK, Command, Nothing
    <3>2. cached < Batch
      BY <1>t, <2>1 DEF TypeInv, Handing
    <3>3. cached \in 0..Batch /\ swap \in {0, 1}
          /\ samples \in [{0, 1} -> [1..Batch -> Nat]]
      BY <1>t DEF TypeInv, TypeOK, DspTypeOK
    <3>. QED BY <3>1, <3>2, <3>3, DspAssumption
  <2>4. Full' <=> cached + 1 = Batch
    BY <2>1, <2>2, <2>3 DEF Full, Swapping
  <2>. DEFINE b == samples[swap]
  <2>5. /\ b \in [1..Batch -> Nat] /\ Batch \in Nat \ {0} /\ cached \in 0..(Batch-1)
        /\ samples'[swap] = [b EXCEPT ![cached + 1] = recvBuf.id]
        /\ samples'[swap] \in [1..Batch -> Nat]
        /\ samples'[1 - swap] = samples[1 - swap]
    <3>1. samples' = [samples EXCEPT ![swap] = [samples[swap] EXCEPT ![cached + 1] = recvBuf.id]]
      BY <2>1
    <3>2. b \in [1..Batch -> Nat]
      BY <2>3
    <3>3. samples'[swap] = [b EXCEPT ![cached + 1] = recvBuf.id]
      BY <2>3, <3>1
    <3>4. [b EXCEPT ![cached + 1] = recvBuf.id] \in [1..Batch -> Nat]
      <4>1. recvBuf.id \in Nat
        BY <2>3
      <4>. HIDE DEF b
      <4>. QED BY <3>2, <4>1
    <3>5. 1 - swap \in {0, 1} /\ 1 - swap # swap
      BY <2>3
    <3>6. samples'[1 - swap] = samples[1 - swap]
      BY <2>3, <3>1, <3>5
    <3>7. Batch \in Nat \ {0} /\ cached \in 0..(Batch - 1)
      BY <2>3
    <3>. QED BY <3>2, <3>3, <3>4, <3>6, <3>7
  <2>6. SubSeq(samples'[swap], 1, cached + 1) = Append(SubSeq(b, 1, cached), recvBuf.id)
    <3>. DEFINE t == samples'[swap]
    <3>1. t = [b EXCEPT ![cached + 1] = recvBuf.id]
      BY <2>5
    <3>2. recvBuf.id \in Nat
      BY <2>3
    <3>. HIDE DEF b, t
    <3>3. SubSeq(t, 1, cached + 1) = Append(SubSeq(b, 1, cached), recvBuf.id)
      BY <2>5, <3>1, <3>2, PrefixGrows
    <3>. QED BY <3>3 DEF t
  <2>7. Collected' = SubSeq(samples'[swap], 1, cached + 1)
    <3>1. cached + 1 = Batch =>
            SubSeq(samples'[swap], 1, cached + 1) = samples'[swap]
      BY <2>5, Prefix
    <3>. QED BY <2>1, <2>4, <3>1 DEF Collected
  <2>8. Collected' = Append(Collected, recvBuf.id) /\ Len(Collected) < Batch
    BY <1>t, <2>2, <2>3, <2>6, <2>7, TheBatch DEF Collected
  <2>9. Calculated' = Calculated
    BY <2>1, <2>5 DEF Calculated
  <2>10. Service!Sample
    BY <2>1, <2>2, <2>8, <2>9 DEF Service!Sample
  <2>. QED BY <2>10 DEF Service!Next
<1>6. CASE CalculationDone
  <2>1. sem'[2] = sem[2]
    BY <1>t, <1>6, PendCounts DEF CalculationDone
  <2>. QED BY <1>6, <2>1, ServiceUnchanged DEF CalculationDone, Full, Swapping
<1>7. CASE StartCalculation
  <2>1. /\ calc40 = "start200" /\ sem'[2] = sem[2] + 1 /\ sem[2] \in Nat
        /\ UNCHANGED <<toDsp, handed, samples, swap, calc200, genRT>>
    BY <1>t, <1>7, PostCounts DEF StartCalculation, Counts
  <2>2. Full /\ Full'
    BY <2>1 DEF Full, Swapping
  <2>. QED BY <2>1, <2>2 DEF serviceVars, Executing, Collected, Calculated
<1>8. CASE MsgDispCalc
  <2>1. sem'[2] = sem[2]
    BY <1>t, <1>8, PostCounts DEF MsgDispCalc
  <2>. QED BY <1>8, <2>1, ServiceUnchanged DEF MsgDispCalc, Full, Swapping
<1>. QED BY <1>1, <1>3, <1>4, <1>5, <1>6, <1>7, <1>8

LEMMA ServiceCalculates200 ==
  ASSUME Sound, BatchInv, ~pressed, UNCHANGED pressed,
         Calc200Pend \/ SwapBuffers \/ SmvDataCalc \/ ReportHarmonics
  PROVE  Service!Next \/ UNCHANGED serviceVars
<1>t. Counts /\ TypeInv
  BY SoundCounts DEF Sound
<1>1. CASE Calc200Pend
  <2>1. sem[2] > 0
    BY <1>t, <1>1, PendCounts DEF Calc200Pend
  <2>. QED BY <1>1, <2>1, ServiceUnchanged DEF Calc200Pend, Full, Swapping
<1>2. CASE SwapBuffers
  <2>1. /\ calc200 = "swap" /\ calc200' = "calculate" /\ swap' = 1 - swap
        /\ sem'[2] = sem[2]
        /\ UNCHANGED <<toDsp, handed, samples, cached, calc40, genRT>>
    BY <1>t, <1>2, PostCounts DEF SwapBuffers
  <2>2. cached = 0
    BY <2>1 DEF BatchInv, Swapping
  <2>3. Full /\ ~Full'
    BY <1>2, SwapLeavesRoom
  <2>4. Collected' = <<>>
    BY <2>1, <2>2, <2>3, SubSeqEmpty DEF Collected
  <2>5. Collected = samples[swap] /\ Len(Collected) = Batch
    BY <1>t, <2>3, TheBatch DEF Collected
  <2>6. Calculated = <<>> /\ Calculated' = samples[swap]
    <3>1. swap \in {0, 1}
      BY <1>t DEF TypeInv, TypeOK, DspTypeOK
    <3>. QED BY <2>1, <3>1 DEF Calculated
  <2>7. Service!Start
    BY <2>1, <2>4, <2>5, <2>6 DEF Service!Start, Service!Complete, Executing
  <2>. QED BY <2>7 DEF Service!Next
<1>3. CASE SmvDataCalc
  <2>1. /\ calc200 = "calculate" /\ calc200' = "report" /\ sem'[2] = sem[2]
        /\ UNCHANGED <<toDsp, handed, samples, swap, cached, calc40, genRT>>
    BY <1>t, <1>3, PostCounts DEF SmvDataCalc
  <2>2. Full' <=> Full
    BY <2>1 DEF Full, Swapping
  <2>3. Calculated # <<>> /\ Calculated' = <<>>
    <3>1. samples[1 - swap] \in [1..Batch -> Nat] /\ Batch \in Nat \ {0}
      <4>1. swap \in {0, 1} /\ samples \in [{0, 1} -> [1..Batch -> Nat]]
        BY <1>t DEF TypeInv, TypeOK, DspTypeOK
      <4>2. 1 - swap \in {0, 1}
        BY <4>1
      <4>. QED BY <4>1, <4>2, DspAssumption
    <3>2. Len(samples[1 - swap]) = Batch
      BY <3>1
    <3>3. samples[1 - swap] # <<>>
      BY <3>1, <3>2
    <3>. QED BY <2>1, <3>3 DEF Calculated
  <2>4. Service!Calculate
    BY <2>1, <2>2, <2>3 DEF Service!Calculate, Executing, Collected
  <2>. QED BY <2>4 DEF Service!Next
<1>4. CASE ReportHarmonics
  <2>1. sem'[2] = sem[2]
    BY <1>t, <1>4, PostCounts DEF ReportHarmonics
  <2>. QED BY <1>4, <2>1, ServiceUnchanged DEF ReportHarmonics, Full, Swapping
<1>. QED BY <1>1, <1>2, <1>3, <1>4

(* As long as no frame is pressed in.                                      *)
LEMMA ServicePromises ==
  ASSUME Sound, BatchInv, ~pressed, ~pressed', [Next]_vars
  PROVE  Service!Next \/ UNCHANGED serviceVars
<1>t. /\ request \in 0..(MaxRequests + MaxSamples)
      /\ sampled \in Nat /\ MaxSamples \in Nat /\ MaxRequests \in Nat
  BY ClientAssumption DEF Sound, TypeInv, TypeOK
<1>p. UNCHANGED pressed
  BY DEF Sound, TypeInv, TypeOK, Next, DspStep, Watch, CallerNext, Construct,
         GetDspInfo, CheckSend, StoreBuffer, SendGen, SendFails, WaitForObject,
         WaitTimesOut, Framed, FrameSend, ReaderNext, ReadFrame, SignalSend,
         CopyResult, SignalReceive, SendSmv, PageSends, vars, pageVars
<1>1. CASE DspStep
  BY <1>p, <1>1, ServiceReceives, ServiceSends, ServiceCalculates40,
     ServiceCalculates200 DEF DspStep, DspNext
<1>2. CASE GetDspInfo
  <2>1. CASE FrameSend("INFO", 0)
    <3>1. "INFO" \in DOMAIN Answer /\ 0 \in 0..(MaxRequests + MaxSamples)
      BY <1>t, Answers
    <3>. QED BY <1>p, <2>1, <3>1, ServiceAccepts
  <2>2. CASE UNCHANGED <<linkVars, dspVars, pressed>>
    BY <2>2, ServiceUnchanged DEF dspVars, Full, Swapping
  <2>. QED BY <1>2, <2>1, <2>2 DEF GetDspInfo
<1>3. CASE SendGen
  <2>1. "SMV_GEN" \in CalcCode
    BY DEF CalcCode
  <2>. QED BY <1>3, <1>p, <1>t, <2>1, ServiceAccepts DEF SendGen
<1>4. CASE CallerNext /\ ~GetDspInfo /\ ~SendGen
  BY <1>4, <1>p, ServiceUnchanged
  DEF CallerNext, Construct, CheckSend, StoreBuffer, SendFails, WaitForObject,
      WaitTimesOut, Framed, dspVars, Full, Swapping
<1>5. CASE ReaderNext
  BY <1>5, <1>p, ServiceUnchanged
  DEF ReaderNext, ReadFrame, SignalSend, CopyResult, SignalReceive, dspVars,
      Full, Swapping
<1>6. CASE SendSmv
  <2>1. "SMV_DATA" \in CalcCode /\ sampled + 1 \in 0..(MaxRequests + MaxSamples)
    BY <1>6, <1>t DEF CalcCode, SendSmv
  <2>. QED BY <1>6, <1>p, <2>1, ServiceAccepts DEF SendSmv
<1>7. CASE PageSends
  <2>1. PageCommands \subseteq CalcCode \cup DOMAIN Answer
    BY ClientAssumption, Answers DEF CalcCode
  <2>. QED BY <1>7, <1>p, <1>t, <2>1, ServiceAccepts DEF PageSends
<1>8. CASE UNCHANGED vars
  BY <1>8, <1>p, ServiceUnchanged DEF vars, dspVars, Full, Swapping
<1>. QED BY <1>1, <1>2, <1>3, <1>4, <1>5, <1>6, <1>7, <1>8 DEF Next

(* A frame is pressed in only while a command is executed and another      *)
(* waits.                                                                  *)
LEMMA ServiceOverloads ==
  ASSUME Sound, Sound', pressed', [Next]_vars PROVE Service!Overload
<1>1. LostPointMode
  BY DEF Sound, RelayInv, SurplusInv
<1>2. ASSUME ~pressed PROVE Executing' # Service!Nobody /\ toDsp' # <<>>
  <2>1. Pressing'
    BY <1>2 DEF Next, DspStep, Watch, CallerNext, Construct, GetDspInfo,
                CheckSend, StoreBuffer, SendGen, SendFails, WaitForObject,
                WaitTimesOut, Framed, FrameSend, ReaderNext, ReadFrame,
                SignalSend, CopyResult, SignalReceive, SendSmv, PageSends, vars,
                pageVars
  <2>2. handed' # <<>> /\ toDsp' # <<>> /\ handed' \in Seq(Command)
    BY <2>1 DEF Pressing, Sound, TypeInv, TypeOK, DspTypeOK
  <2>3. Head(handed') \in Command
    BY <2>2
  <2>4. Head(handed').code # "NONE"
    BY <2>3, Answers DEF Command, CalcCode
  <2>. QED BY <2>2, <2>4 DEF Executing, Service!Nobody
<1>. QED BY <1>1, <1>2 DEF Service!Overload

LEMMA ServiceStep ==
  ASSUME BatchSound, [Next]_vars PROVE [Service!Next]_serviceVars
<1>1. Sound'
  BY SoundStep DEF BatchSound
<1>2. CASE pressed'
  BY <1>1, <1>2, ServiceOverloads DEF BatchSound, Service!Next
<1>3. CASE ~pressed'
  BY <1>3, ServicePromises, PressedStays DEF BatchSound
<1>. QED BY <1>2, <1>3

LEMMA ServiceInit == ASSUME Init PROVE Service!Init
<1>1. ~Full /\ cached = 0 /\ calc200 # "calculate" /\ handed = <<>>
      /\ toDsp = <<>> /\ genRT = 0 /\ ~pressed /\ pressed = FALSE
  BY DEF Init, DspInit, Full, Swapping
<1>. QED BY <1>1, NothingCollected
         DEF Service!Init, Service!Nobody, Executing, Calculated, Nothing

(* The DSP is a CommandService in both modes, for every length of a batch, *)
(* every depth of the link and every load: commands are executed one after *)
(* another in the order they were sent, and what is calculated is a whole  *)
(* batch of the samples sent since the last reset; built with              *)
(* _LOST_POINT_MODE it drops samples while a complete batch waits, and     *)
(* promises nothing once a frame is pressed in (main.c:341-481, 518-617).  *)
THEOREM ServiceImplemented == Spec => ImplementsService
<1>1. Init => BatchSound /\ Service!Init
  <2>1. Init => Sound
    BY InitTypes, InitRelay
    DEF Sound, Init, DspInit, StallInv, NoStall, Calculating, LossEnds
  <2>. QED BY <2>1, InitBatch, ServiceInit DEF BatchSound
<1>2. BatchSound /\ [Next]_vars => BatchSound'
  BY SoundStep, BatchStep, PressedStays DEF BatchSound
<1>3. BatchSound /\ [Next]_vars => [Service!Next]_serviceVars
  BY ServiceStep
<1>. QED BY <1>1, <1>2, <1>3, PTL
         DEF Spec, ImplementsService, Service!Spec, Service!vars, serviceVars
=============================================================================
