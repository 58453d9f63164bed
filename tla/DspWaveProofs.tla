---------------------------- MODULE DspWaveProofs ----------------------------
(***************************************************************************)
(* A request for a waveform gets its own one, as long as no request failed *)
(* and the receive pages are silent, whether the firmware was built to     *)
(* block or to lose points.  The frame of a request, and the INFO before   *)
(* it, are followed through the places they pass.                          *)
(***************************************************************************)
EXTENDS DspProofs

USE DEF Semaphore, bufVars, sampleVars, resultVars, linkVars

Ask  == [code |-> "INFO", id |-> 0]
Gen  == [code |-> "SMV_GEN", id |-> request]
Told == [code |-> "INFO", id |-> 0]
Wave == [code |-> "SMV_GEN_RT", id |-> request]

(* Where the request is: 0 nowhere, 1 on the link, 2 handed to tskCalc40ms, *)
(* 3 flagged, 4 in g_sendBuf, 5 on the link back, 6 being delivered.  The  *)
(* INFO is at 0, 1, 2 (flagged), 3 (g_sendBuf) or 4 (the link back), and   *)
(* stays ahead of it.                                                      *)
Ahead(i, g) ==
  /\ g \in {2, 3} => i # 1
  /\ g \in {4, 5} => i \in {0, 4}
  /\ g = 6 => i = 0

OnLinks(i, g) ==
  /\ toDsp = CASE i = 1 /\ g = 1 -> <<Ask, Gen>> [] i = 1 /\ g # 1 -> <<Ask>>
               [] i # 1 /\ g = 1 -> <<Gen>>      [] OTHER -> <<>>
  /\ toArm = CASE i = 4 /\ g = 5 -> <<Told, Wave>> [] i = 4 /\ g # 5 -> <<Told>>
               [] i # 4 /\ g = 5 -> <<Wave>>       [] OTHER -> <<>>

InDsp(i, g) ==
  /\ handed = IF g = 2 THEN <<Gen>> ELSE <<>>
  /\ "INFO" \in resFlag <=> i = 2
  /\ "SMV_GEN_RT" \in resFlag <=> g = 3
  /\ resFlag \subseteq {"INFO", "SMV_GEN_RT"}
  /\ sem[0] = (IF i = 2 THEN 1 ELSE 0) + (IF g = 3 THEN 1 ELSE 0)
  /\ g = 3 => genRT = request
  /\ send = IF i = 3 \/ g = 4 THEN "send" ELSE "pend0"
  /\ i = 3 => sendBuf = Told
  /\ g = 4 => sendBuf = Wave

AtClient(i, g) ==
  /\ reader # "recv" <=> g = 6
  /\ g = 6 => frame = Wave /\ pTmp = request
  /\ g = 6 /\ reader = "oEvent" => recvData[request] = request
  /\ caller # "idle" => request # 0
  /\ g # 0 => caller = "wait" /\ oEvent = "reset"
  /\ caller \in {"idle", "info", "frame"} => i = 0
  /\ caller \in {"info", "check", "store", "send"} => oEvent = "reset"
  /\ caller \in {"send", "wait"} => calcData = request
  /\ caller = "wait" /\ g = 0 =>
       i = 0 /\ recvData[request] = request /\ oEvent = "set"
  /\ caller = "frame" => recvData[request] = request

Pipeline(i, g) ==
  Ahead(i, g) /\ OnLinks(i, g) /\ InDsp(i, g) /\ AtClient(i, g)

(* No samples and times are calculated with.                               *)
NoSamples ==
  /\ sem[2] = 0 /\ calc200 = "pend2"
  /\ calc40 \in {"pend1", "SMV_GEN"}

(* Then the release of SEM7 is handed on in both modes, as it always is in *)
(* the one that blocks (OneRelease).                                       *)
Released ==
  sem[7] + sem[1] + (IF calc40 = "SMV_GEN" THEN 1 ELSE 0)
    = IF receive = "pend7" THEN 1 ELSE 0

Silent == NoSamples /\ Released /\ HandedOver

WaveInv == Undisturbed =>
  Silent /\ \E i \in 0..4, g \in 0..6 : Pipeline(i, g)

LEMMA InitWave == ASSUME Init PROVE WaveInv
<1>1. Pipeline(0, 0)
  BY DEF Init, DspInit, Pipeline, Ahead, OnLinks, InDsp, AtClient
<1>2. Silent
  BY DEF Init, DspInit, Silent, NoSamples, Released, HandedOver, CalcCode
<1>. QED BY <1>1, <1>2 DEF WaveInv

LEMMA WaveIsOwn == ASSUME WaveInv PROVE OwnWaveform
BY DEF WaveInv, OwnWaveform, Pipeline, AtClient

(* A step that starts undisturbed: what is known of it.                    *)
Good == Counts /\ TypeInv /\ Silent

LEMMA SilentIsAlone ==
  ASSUME Good, receive = "receive"
  PROVE  sem[1] = 0 /\ sem[7] = 0 /\ calc40 = "pend1" /\ handed = <<>>
BY DEF Good, Counts, Silent, NoSamples, Released, HandedOver, CalcCode

(* What waits for tskCalc40ms, or is executed, is the request.             *)
LEMMA HandedIsRequest ==
  ASSUME Good, NEW i \in 0..4, NEW g \in 0..6, Pipeline(i, g),
         sem[1] > 0 \/ calc40 = "SMV_GEN"
  PROVE  /\ g = 2 /\ recvBuf = Gen /\ handed = <<recvBuf>>
         /\ sem[1] > 0 => taskFlag = "SMV_GEN"
<1>1. handed = <<recvBuf>> /\ (sem[1] > 0 => taskFlag = recvBuf.code)
  BY DEF Good, Silent, HandedOver, CalcCode
<1>2. g = 2 /\ handed = <<Gen>>
  <2>1. handed # <<>>
    BY <1>1
  <2>. QED BY <2>1 DEF Pipeline, InDsp
<1>3. recvBuf = Gen
  <2>1. handed[1] = recvBuf
    BY <1>1
  <2>2. handed[1] = Gen
    BY <1>2
  <2>. QED BY <2>1, <2>2
<1>. QED BY <1>1, <1>2, <1>3 DEF Gen

LEMMA ReceiveWave ==
  ASSUME Good, NEW i \in 0..4, NEW g \in 0..6, Pipeline(i, g),
         UNCHANGED clientVars, ReceiveCalc \/ ReceiveOther \/ ReceivePend
  PROVE  NoSamples' /\ \E j \in 0..4, h \in 0..6 : Pipeline(j, h)'
<1>. USE DEF clientVars, eventVars, callerVars, readerVars, Pipeline
<1>1. CASE ReceiveCalc
  <2>1. toDsp # <<>> /\ Head(toDsp).code \in CalcCode /\ handed = <<>>
    BY <1>1, SilentIsAlone DEF ReceiveCalc, ReceiveNext, Good
  <2>2. g = 1 /\ i # 1 /\ toDsp = <<Gen>>
    BY <2>1 DEF OnLinks, Ask, Gen, CalcCode
  <2>3. toDsp' = <<>> /\ handed' = <<Gen>>
        /\ UNCHANGED <<toArm, calc40, calc200, send, resFlag, genRT, sendBuf>>
    BY <1>1, <2>1, <2>2 DEF ReceiveCalc, ReceiveNext
  <2>4. sem'[0] = sem[0] /\ sem'[2] = sem[2]
    BY <1>1, PostCounts DEF ReceiveCalc, Good
  <2>5. Pipeline(i, 2)'
    <3>1. Ahead(i, 2)' /\ OnLinks(i, 2)'
      BY <2>2, <2>3 DEF Ahead, OnLinks, Wave, Told
    <3>2. InDsp(i, 2)'
      BY <2>2, <2>3, <2>4 DEF InDsp, Gen, Wave, Told
    <3>3. AtClient(i, 2)'
      BY <2>2, <2>3 DEF AtClient, Wave
    <3>. QED BY <3>1, <3>2, <3>3
  <2>6. NoSamples'
    BY <2>3, <2>4 DEF NoSamples, Silent, Good
  <2>. QED BY <2>5, <2>6
<1>2. CASE ReceiveOther
  <2>1. toDsp # <<>> /\ Head(toDsp).code \in DOMAIN Answer /\ handed = <<>>
    BY <1>2, SilentIsAlone DEF ReceiveOther, ReceiveNext, Good
  <2>2. i = 1 /\ g \in {0, 1} /\ Head(toDsp) = Ask
        /\ Tail(toDsp) = IF g = 1 THEN <<Gen>> ELSE <<>>
    BY <2>1, Answers DEF OnLinks, Ask, Gen, Ahead
  <2>3. /\ toDsp' = IF g = 1 THEN <<Gen>> ELSE <<>>
        /\ handed' = <<>> /\ resFlag' = resFlag \cup {"INFO"}
        /\ sem' = Post({7, 0})
        /\ UNCHANGED <<toArm, calc40, calc200, send, genRT, sendBuf>>
    <3>1. Answer["INFO"] = "INFO"
      BY DEF Answer
    <3>. QED BY <1>2, <2>1, <2>2, <3>1 DEF ReceiveOther, ReceiveNext, Ask
  <2>4. sem'[0] = sem[0] + 1 /\ sem'[2] = sem[2]
    BY <2>3, PostCounts DEF Good
  <2>5. Pipeline(2, g)'
    <3>1. Ahead(2, g)' /\ OnLinks(2, g)'
      BY <2>2, <2>3 DEF Ahead, OnLinks, Wave, Told, Gen
    <3>2. InDsp(2, g)'
      BY <2>1, <2>2, <2>3, <2>4 DEF InDsp, Gen, Wave, Told
    <3>3. AtClient(2, g)'
      BY <2>2, <2>3 DEF AtClient, Wave
    <3>. QED BY <3>1, <3>2, <3>3
  <2>6. NoSamples'
    BY <2>3, <2>4 DEF NoSamples, Silent, Good
  <2>. QED BY <2>2, <2>5, <2>6
<1>3. CASE ReceivePend
  <2>1. /\ sem'[0] = sem[0] /\ sem'[2] = sem[2]
        /\ UNCHANGED <<linkVars, calc40, calc200, send, handed, resultVars, sendBuf>>
    BY <1>3, PendCounts DEF ReceivePend, Good
  <2>2. Pipeline(i, g)'
    BY <2>1 DEF Ahead, OnLinks, InDsp, AtClient, Ask, Gen, Told, Wave
  <2>3. NoSamples'
    BY <2>1 DEF NoSamples, Silent, Good
  <2>. QED BY <2>2, <2>3
<1>. QED BY <1>1, <1>2, <1>3

(* tskSend sends INFO before the waveform.                                 *)
LEMMA InfoFirst ==
  ASSUME resFlag \subseteq {"INFO", "SMV_GEN_RT"}, resFlag # {}
  PROVE  FirstResult = IF "INFO" \in resFlag THEN "INFO" ELSE "SMV_GEN_RT"
<1>. DEFINE First(k) == /\ Result[k] \in resFlag
                        /\ \A j \in 1..(k-1) : Result[j] \notin resFlag
<1>1. /\ DOMAIN Result = 1..5
      /\ Result[1] = "ERROR" /\ Result[2] = "INFO" /\ Result[3] = "SMV_GEN_RT"
      /\ Result[4] = "MSG_DISP_RT" /\ Result[5] = "SMV_CALC_RT"
  BY DEF Result
<1>2. CASE "INFO" \in resFlag
  <2>1. First(2)
    BY <1>1, <1>2
  <2>2. ASSUME NEW k \in 1..5, First(k) PROVE k = 2
    <3>1. k \notin {1, 4, 5}
      BY <1>1, <2>2
    <3>2. k # 3
      BY <1>1, <1>2, <2>2
    <3>. QED BY <3>1, <3>2
  <2>3. (CHOOSE k \in DOMAIN Result : First(k)) = 2
    BY <1>1, <2>1, <2>2
  <2>. QED BY <1>1, <1>2, <2>3 DEF FirstResult
<1>3. CASE "INFO" \notin resFlag
  <2>1. "SMV_GEN_RT" \in resFlag
    BY <1>3
  <2>2. First(3)
    BY <1>1, <1>3, <2>1
  <2>3. ASSUME NEW k \in 1..5, First(k) PROVE k = 3
    BY <1>1, <1>3, <2>3
  <2>4. (CHOOSE k \in DOMAIN Result : First(k)) = 3
    BY <1>1, <2>2, <2>3
  <2>. QED BY <1>1, <1>3, <2>4 DEF FirstResult
<1>. QED BY <1>2, <1>3

LEMMA SendWave ==
  ASSUME Good, NEW i \in 0..4, NEW g \in 0..6, Pipeline(i, g),
         UNCHANGED clientVars, SendPend \/ SendExecute
  PROVE  NoSamples' /\ \E j \in 0..4, h \in 0..6 : Pipeline(j, h)'
<1>. USE DEF clientVars, eventVars, callerVars, readerVars, Pipeline
<1>1. CASE SendPend
  <2>1. /\ send = "pend0" /\ send' = "send"
        /\ sem[0] > 0 /\ sem'[0] = sem[0] - 1 /\ sem'[2] = sem[2]
        /\ UNCHANGED <<linkVars, calc40, calc200, handed, genRT>>
    BY <1>1, PendCounts DEF SendPend, Good
  <2>2. resFlag # {} /\ i # 3 /\ g # 4
    BY <2>1 DEF InDsp
  <2>3. sendBuf' = FrameOf(FirstResult) /\ resFlag' = resFlag \ {FirstResult}
    BY <1>1, <2>2 DEF SendPend
  <2>4. FirstResult = IF i = 2 THEN "INFO" ELSE "SMV_GEN_RT"
    BY <2>2, InfoFirst DEF InDsp
  <2>5. NoSamples'
    BY <2>1 DEF NoSamples, Silent, Good
  <2>6. CASE i = 2
    <3>1. sendBuf' = Told /\ resFlag' = resFlag \ {"INFO"}
      BY <2>3, <2>4, <2>6 DEF FrameOf, Told
    <3>2. Ahead(3, g)' /\ OnLinks(3, g)'
      BY <2>1, <2>2, <2>6 DEF Ahead, OnLinks, Wave, Told, Ask, Gen
    <3>3. InDsp(3, g)'
      BY <2>1, <2>2, <2>6, <3>1 DEF InDsp, Gen, Wave, Told
    <3>4. AtClient(3, g)'
      BY <2>6 DEF AtClient, Wave
    <3>. QED BY <2>5, <3>2, <3>3, <3>4
  <2>7. CASE i # 2
    <3>0. g = 3 /\ genRT = request
      BY <2>2, <2>7 DEF InDsp
    <3>1. sendBuf' = Wave /\ resFlag' = resFlag \ {"SMV_GEN_RT"}
      BY <2>3, <2>4, <2>7, <3>0 DEF FrameOf, Wave
    <3>2. Ahead(i, 4)' /\ OnLinks(i, 4)'
      BY <2>1, <2>2, <2>7, <3>0 DEF Ahead, OnLinks, Wave, Told, Ask, Gen
    <3>3. InDsp(i, 4)'
      BY <2>1, <2>2, <2>7, <3>0, <3>1 DEF InDsp, Gen, Wave, Told
    <3>4. AtClient(i, 4)'
      BY <3>0 DEF AtClient, Wave
    <3>. QED BY <2>5, <3>2, <3>3, <3>4
  <2>. QED BY <2>6, <2>7
<1>2. CASE SendExecute
  <2>1. /\ send = "send" /\ send' = "pend0" /\ toArm' = Append(toArm, sendBuf)
        /\ UNCHANGED <<toDsp, calc40, calc200, sem, handed, resFlag, genRT, sendBuf>>
    BY <1>2 DEF SendExecute
  <2>2. i = 3 \/ g = 4
    BY <2>1 DEF InDsp
  <2>3. NoSamples'
    BY <2>1 DEF NoSamples, Silent, Good
  <2>4. CASE i = 3
    <3>1. g \notin {4, 5, 6} /\ toArm' = <<Told>>
      <4>1. g \notin {4, 5, 6}
        BY <2>4 DEF Ahead
      <4>2. toArm = <<>> /\ sendBuf = Told
        BY <2>4, <4>1 DEF OnLinks, InDsp
      <4>. QED BY <2>1, <4>1, <4>2
    <3>2. Ahead(4, g)' /\ OnLinks(4, g)'
      BY <2>1, <2>4, <3>1 DEF Ahead, OnLinks, Wave, Told, Ask, Gen
    <3>3. InDsp(4, g)'
      BY <2>1, <2>4, <3>1 DEF InDsp, Gen, Wave, Told
    <3>4. AtClient(4, g)'
      BY <2>4 DEF AtClient, Wave
    <3>. QED BY <2>3, <3>2, <3>3, <3>4
  <2>5. CASE i # 3
    <3>1. g = 4 /\ sendBuf = Wave /\ i \in {0, 4}
      BY <2>2, <2>5 DEF Ahead, InDsp
    <3>2. toArm' = IF i = 4 THEN <<Told, Wave>> ELSE <<Wave>>
      BY <2>1, <3>1 DEF OnLinks
    <3>3. Ahead(i, 5)' /\ OnLinks(i, 5)'
      BY <2>1, <3>1, <3>2 DEF Ahead, OnLinks, Wave, Told, Ask, Gen
    <3>4. InDsp(i, 5)'
      BY <2>1, <3>1 DEF InDsp, Gen, Wave, Told
    <3>5. AtClient(i, 5)'
      BY <3>1 DEF AtClient, Wave
    <3>. QED BY <2>3, <3>3, <3>4, <3>5
  <2>. QED BY <2>4, <2>5
<1>. QED BY <1>1, <1>2

(* Of the calculations only the waveform's runs.                           *)
LEMMA CalcWave ==
  ASSUME Good, NEW i \in 0..4, NEW g \in 0..6, Pipeline(i, g),
         UNCHANGED clientVars, Calc40Pend \/ SmvGenHelper
  PROVE  NoSamples' /\ \E j \in 0..4, h \in 0..6 : Pipeline(j, h)'
<1>. USE DEF clientVars, eventVars, callerVars, readerVars, Pipeline
<1>1. CASE Calc40Pend
  <2>1. /\ sem[1] > 0 /\ sem'[0] = sem[0] /\ sem'[2] = sem[2]
        /\ calc40' = taskFlag
        /\ UNCHANGED <<linkVars, calc200, send, handed, resultVars, sendBuf>>
    BY <1>1, PendCounts DEF Calc40Pend, Good
  <2>2. Pipeline(i, g)'
    BY <2>1 DEF Ahead, OnLinks, InDsp, AtClient, Ask, Gen, Told, Wave
  <2>3. NoSamples'
    BY <2>1, HandedIsRequest DEF NoSamples, Silent, Good
  <2>. QED BY <2>2, <2>3
<1>2. CASE SmvGenHelper
  <2>1. g = 2 /\ recvBuf = Gen /\ handed = <<recvBuf>>
    BY <1>2, HandedIsRequest DEF SmvGenHelper
  <2>2. /\ sem' = Post({7, 0}) /\ calc40' = "pend1"
        /\ genRT' = request /\ handed' = <<>>
        /\ resFlag' = resFlag \cup {"SMV_GEN_RT"}
        /\ UNCHANGED <<linkVars, calc200, send, sendBuf>>
    BY <1>2, <2>1 DEF SmvGenHelper, Gen
  <2>3. sem'[0] = sem[0] + 1 /\ sem'[2] = sem[2]
    BY <2>2, PostCounts DEF Good
  <2>4. Ahead(i, 3)' /\ OnLinks(i, 3)'
    BY <2>1, <2>2 DEF Ahead, OnLinks, Wave, Told, Ask, Gen
  <2>5. InDsp(i, 3)'
    BY <2>1, <2>2, <2>3 DEF InDsp, Gen, Wave, Told
  <2>6. AtClient(i, 3)'
    BY <2>1 DEF AtClient, Wave
  <2>7. NoSamples'
    BY <2>2, <2>3 DEF NoSamples, Silent, Good
  <2>. QED BY <2>4, <2>5, <2>6, <2>7
<1>. QED BY <1>1, <1>2

LEMMA DspWave ==
  ASSUME Good, NEW i \in 0..4, NEW g \in 0..6, Pipeline(i, g), DspStep
  PROVE  NoSamples' /\ \E j \in 0..4, h \in 0..6 : Pipeline(j, h)'
<1>1. DspNext /\ UNCHANGED clientVars
  BY DEF DspStep, clientVars
<1>2. ~ReceiveDropped
  BY DEF ReceiveDropped, ReceiveNext, Dropped, Pipeline, OnLinks, Ask, Gen
<1>3. ~(RealSmvHelper \/ CalculationDone \/ StartCalculation \/ MsgDispHelper
        \/ MsgDispCalc)
  BY DEF RealSmvHelper, CalculationDone, StartCalculation, MsgDispHelper,
         MsgDispCalc, NoSamples, Silent, Good
<1>4. ~(Calc200Pend \/ SwapBuffers \/ SmvDataCalc \/ ReportHarmonics)
  BY DEF Calc200Pend, SwapBuffers, SmvDataCalc, ReportHarmonics, Pend,
         NoSamples, Silent, Good
<1>. QED BY <1>1, <1>2, <1>3, <1>4, ReceiveWave, SendWave, CalcWave DEF DspNext

(* The framing thread, unless its request fails.                           *)
LEMMA CallerWave ==
  ASSUME Good, NEW i \in 0..4, NEW g \in 0..6, Pipeline(i, g), CallerNext,
         ~failed'
  PROVE  NoSamples' /\ \E j \in 0..4, h \in 0..6 : Pipeline(j, h)'
<1>. USE DEF eventVars, callerVars, readerVars, pageVars, dspVars, Pipeline
<1>0. NoSamples'
  BY DEF CallerNext, Construct, GetDspInfo, CheckSend, StoreBuffer, SendGen,
         SendFails, WaitForObject, WaitTimesOut, Framed, FrameSend, NoSamples,
         Silent, Good
<1>t. request \in Nat
  BY ClientAssumption DEF Good, TypeInv, TypeOK
<1>g. caller # "wait" => g = 0
  BY DEF AtClient
<1>1. CASE Construct
  <2>1. /\ i = 0 /\ g = 0 /\ caller' = "info" /\ request' = request + 1
        /\ oEvent' = "reset"
        /\ UNCHANGED <<linkVars, dspVars, calcData, readerVars, recvData>>
    BY <1>1, <1>g DEF Construct, AtClient
  <2>2. Ahead(0, 0)' /\ OnLinks(0, 0)' /\ InDsp(0, 0)'
    BY <2>1 DEF Ahead, OnLinks, InDsp
  <2>3. AtClient(0, 0)'
    BY <1>t, <2>1 DEF AtClient
  <2>. QED BY <1>0, <2>2, <2>3
<1>2. CASE GetDspInfo
  <2>1. /\ i = 0 /\ g = 0 /\ caller = "info" /\ caller' = "check"
        /\ UNCHANGED <<dspVars, oEvent, request, calcData, readerVars, recvData>>
    BY <1>2, <1>g DEF GetDspInfo, FrameSend, AtClient
  <2>2. AtClient(0, 0)' /\ AtClient(1, 0)'
    BY <2>1 DEF AtClient, Wave
  <2>3. CASE FrameSend("INFO", 0)
    <3>1. toDsp' = <<Ask>> /\ toArm' = <<>>
      BY <2>1, <2>3 DEF FrameSend, OnLinks, Ask
    <3>2. Ahead(1, 0)' /\ OnLinks(1, 0)' /\ InDsp(1, 0)'
      BY <2>1, <3>1 DEF Ahead, OnLinks, InDsp, Ask, Gen, Told, Wave
    <3>. QED BY <1>0, <2>2, <3>2
  <2>4. CASE UNCHANGED <<linkVars, dspVars, pressed>>
    <3>1. Ahead(0, 0)' /\ OnLinks(0, 0)' /\ InDsp(0, 0)'
      BY <2>1, <2>4 DEF Ahead, OnLinks, InDsp, Ask, Gen, Told, Wave
    <3>. QED BY <1>0, <2>2, <3>1
  <2>. QED BY <1>2, <2>3, <2>4 DEF GetDspInfo
<1>3. CASE CheckSend \/ StoreBuffer
  <2>1. /\ g = 0 /\ caller \in {"check", "store"} /\ caller' \in {"store", "send"}
        /\ caller' = "send" => calcData' = request
        /\ UNCHANGED <<linkVars, dspVars, oEvent, request, readerVars, recvData>>
    BY <1>3, <1>g DEF CheckSend, StoreBuffer
  <2>2. Ahead(i, 0)' /\ OnLinks(i, 0)' /\ InDsp(i, 0)'
    BY <2>1 DEF Ahead, OnLinks, InDsp, Ask, Gen, Told, Wave
  <2>3. AtClient(i, 0)'
    BY <2>1 DEF AtClient, Wave
  <2>. QED BY <1>0, <2>2, <2>3
<1>4. CASE SendGen
  <2>1. /\ g = 0 /\ caller = "send" /\ caller' = "wait"
        /\ toDsp' = Append(toDsp, Gen) /\ toArm' = toArm
        /\ UNCHANGED <<dspVars, oEvent, request, calcData, readerVars, recvData>>
    BY <1>4, <1>g DEF SendGen, FrameSend, Gen
  <2>2. toDsp' = IF i = 1 THEN <<Ask, Gen>> ELSE <<Gen>>
    BY <2>1 DEF OnLinks
  <2>3. Ahead(i, 1)' /\ OnLinks(i, 1)'
    BY <2>1, <2>2 DEF Ahead, OnLinks, Ask, Gen, Told, Wave
  <2>4. InDsp(i, 1)'
    BY <2>1 DEF InDsp, Ask, Gen, Told, Wave
  <2>5. AtClient(i, 1)'
    BY <2>1 DEF AtClient, Wave
  <2>. QED BY <1>0, <2>3, <2>4, <2>5
<1>5. CASE SendFails \/ WaitTimesOut
  BY <1>5 DEF SendFails, WaitTimesOut
<1>6. CASE WaitForObject \/ Framed
  <2>1. /\ caller \in {"wait", "frame"} /\ caller' \in {"frame", "idle"}
        /\ caller' = "frame" => caller = "wait" /\ oEvent = "set"
        /\ UNCHANGED <<linkVars, dspVars, request, calcData, readerVars, recvData>>
    BY <1>6 DEF WaitForObject, Framed
  <2>2. i = 0 /\ g = 0 /\ (caller' = "frame" => recvData[request] = request)
    BY <1>6, <2>1 DEF AtClient, WaitForObject, Framed
  <2>3. Ahead(0, 0)' /\ OnLinks(0, 0)' /\ InDsp(0, 0)'
    BY <2>1, <2>2 DEF Ahead, OnLinks, InDsp, Ask, Gen, Told, Wave
  <2>4. AtClient(0, 0)'
    BY <2>1, <2>2 DEF AtClient, Wave
  <2>. QED BY <1>0, <2>3, <2>4
<1>. QED BY <1>1, <1>2, <1>3, <1>4, <1>5, <1>6 DEF CallerNext

LEMMA ReaderWave ==
  ASSUME Good, NEW i \in 0..4, NEW g \in 0..6, Pipeline(i, g), ReaderNext
  PROVE  NoSamples' /\ \E j \in 0..4, h \in 0..6 : Pipeline(j, h)'
<1>. USE DEF eventVars, callerVars, readerVars, pageVars, dspVars, Pipeline
<1>0. NoSamples'
  BY DEF ReaderNext, ReadFrame, SignalSend, CopyResult, SignalReceive,
         NoSamples, Silent, Good
<1>1. CASE ReadFrame
  <2>1. /\ reader = "recv" /\ toArm # <<>> /\ toArm' = Tail(toArm)
        /\ UNCHANGED <<toDsp, dspVars, eventVars, callerVars, recvData>>
    BY <1>1 DEF ReadFrame
  <2>2. CASE i = 4
    <3>1. Head(toArm) = Told /\ toArm' = IF g = 5 THEN <<Wave>> ELSE <<>>
      BY <2>1, <2>2 DEF OnLinks
    <3>2. UNCHANGED readerVars
      BY <1>1, <3>1 DEF ReadFrame, ForCaller, Told
    <3>3. Ahead(0, g)' /\ OnLinks(0, g)' /\ InDsp(0, g)'
      BY <2>1, <2>2, <3>1 DEF Ahead, OnLinks, InDsp, Ask, Gen, Told, Wave
    <3>4. AtClient(0, g)'
      BY <2>1, <2>2, <3>2 DEF AtClient, Wave
    <3>. QED BY <1>0, <3>3, <3>4
  <2>3. CASE i # 4
    <3>1. g = 5 /\ i = 0 /\ Head(toArm) = Wave /\ toArm' = <<>>
      BY <2>1, <2>3 DEF OnLinks, Ahead
    <3>2. caller = "wait" /\ request # 0 /\ calcData = request /\ oEvent = "reset"
      BY <3>1 DEF AtClient
    <3>3. frame' = Wave /\ pTmp' = request /\ reader' = "iEvent"
      <4>1. ForCaller(Head(toArm))
        <5>1. Head(toArm).code = "SMV_GEN_RT"
          BY <3>1 DEF Wave
        <5>. QED BY <3>2, <5>1 DEF ForCaller
      <4>. QED BY <1>1, <3>1, <3>2, <4>1 DEF ReadFrame
    <3>4. Ahead(0, 6)' /\ OnLinks(0, 6)' /\ InDsp(0, 6)'
      BY <2>1, <3>1 DEF Ahead, OnLinks, InDsp, Ask, Gen, Told, Wave
    <3>5. AtClient(0, 6)'
      BY <2>1, <3>2, <3>3 DEF AtClient, Wave
    <3>. QED BY <1>0, <3>4, <3>5
  <2>. QED BY <2>2, <2>3
<1>2. CASE SignalSend
  <2>1. Ahead(i, g)' /\ OnLinks(i, g)' /\ InDsp(i, g)'
    BY <1>2 DEF SignalSend, Ahead, OnLinks, InDsp, Ask, Gen, Told, Wave
  <2>2. AtClient(i, g)'
    BY <1>2 DEF SignalSend, AtClient, Wave
  <2>. QED BY <1>0, <2>1, <2>2
<1>3. CASE CopyResult
  <2>1. /\ reader = "copy" /\ reader' = "oEvent"
        /\ recvData' = [recvData EXCEPT ![pTmp] = frame.id]
        /\ UNCHANGED <<linkVars, dspVars, eventVars, callerVars, frame, pTmp>>
    BY <1>3 DEF CopyResult
  <2>2. g = 6 /\ frame.id = request /\ pTmp = request /\ caller = "wait"
    BY <2>1 DEF AtClient, Wave
  <2>3. recvData'[request] = request
    <3>1. request \in 1..MaxRequests /\ recvData \in [1..MaxRequests -> Nat]
      BY <2>2, ClientAssumption DEF AtClient, Good, TypeInv, TypeOK
    <3>. QED BY <2>1, <2>2, <3>1
  <2>4. Ahead(i, g)' /\ OnLinks(i, g)' /\ InDsp(i, g)'
    BY <2>1 DEF Ahead, OnLinks, InDsp, Ask, Gen, Told, Wave
  <2>5. AtClient(i, g)'
    BY <2>1, <2>2, <2>3 DEF AtClient, Wave
  <2>. QED BY <1>0, <2>4, <2>5
<1>4. CASE SignalReceive
  <2>1. /\ reader = "oEvent" /\ reader' = "recv" /\ oEvent' = Signal(oEvent)
        /\ UNCHANGED <<linkVars, dspVars, callerVars, recvData>>
    BY <1>4 DEF SignalReceive
  <2>2. /\ g = 6 /\ i = 0 /\ caller = "wait" /\ oEvent' = "set"
        /\ recvData[request] = request
    BY <2>1 DEF AtClient, Ahead, Signal
  <2>3. Ahead(0, 0)' /\ OnLinks(0, 0)' /\ InDsp(0, 0)'
    BY <2>1, <2>2 DEF Ahead, OnLinks, InDsp, Ask, Gen, Told, Wave
  <2>4. AtClient(0, 0)'
    BY <2>1, <2>2 DEF AtClient, Wave
  <2>. QED BY <1>0, <2>3, <2>4
<1>. QED BY <1>1, <1>2, <1>3, <1>4 DEF ReaderNext

(* Only the steps of tskReceive and of the waveform hand on the release.   *)
LEMMA SilentStep ==
  ASSUME Good, NEW i \in 0..4, NEW g \in 0..6, Pipeline(i, g), [Next]_vars
  PROVE  Released' /\ HandedOver'
<1>1. ASSUME UNCHANGED <<receive, calc40, handed, bufVars>>,
             sem'[1] = sem[1], sem'[7] = sem[7]
      PROVE  Released' /\ HandedOver'
  BY <1>1 DEF Good, Silent, Released, HandedOver
<1>2. CASE UNCHANGED dspVars \/ UNCHANGED vars
  BY <1>1, <1>2 DEF vars, dspVars
<1>3. CASE CallerNext \/ ReaderNext \/ SendSmv \/ PageSends
  BY <1>2, <1>3
  DEF CallerNext, Construct, GetDspInfo, CheckSend, StoreBuffer, SendGen,
      SendFails, WaitForObject, WaitTimesOut, Framed, FrameSend, ReaderNext,
      ReadFrame, SignalSend, CopyResult, SignalReceive, SendSmv, PageSends
<1>4. CASE SendPend \/ SendExecute
  <2>1. sem'[1] = sem[1] /\ sem'[7] = sem[7]
    BY <1>4, PendCounts DEF SendPend, SendExecute, Good
  <2>. QED BY <1>1, <1>4, <2>1 DEF SendPend, SendExecute
<1>5. CASE ReceiveCalc
  <2>1. sem[1] = 0 /\ sem[7] = 0 /\ calc40 = "pend1" /\ handed = <<>>
    BY <1>5, SilentIsAlone DEF ReceiveCalc, ReceiveNext
  <2>2. /\ sem'[1] = 1 /\ sem'[7] = 0 /\ receive' = "pend7" /\ calc40' = calc40
        /\ handed' = <<recvBuf'>> /\ recvBuf'.code \in CalcCode
        /\ taskFlag' = recvBuf'.code
    BY <1>5, <2>1, PostCounts DEF ReceiveCalc, ReceiveNext, Good
  <2>. QED BY <2>1, <2>2 DEF Released, HandedOver, CalcCode
<1>6. CASE ReceiveOther
  <2>1. sem[1] = 0 /\ sem[7] = 0 /\ calc40 = "pend1" /\ handed = <<>>
    BY <1>6, SilentIsAlone DEF ReceiveOther, ReceiveNext
  <2>2. /\ sem'[1] = 0 /\ sem'[7] = 1 /\ receive' = "pend7"
        /\ UNCHANGED <<calc40, handed>>
    BY <1>6, <2>1, PostCounts DEF ReceiveOther, Good
  <2>. QED BY <2>1, <2>2 DEF Released, HandedOver, CalcCode
<1>7. CASE ReceivePend
  <2>1. /\ sem'[1] = sem[1] /\ sem'[7] = sem[7] - 1 /\ sem[7] \in Nat
        /\ receive = "pend7" /\ receive' = "receive"
        /\ UNCHANGED <<calc40, handed, bufVars>>
    BY <1>7, PendCounts DEF ReceivePend, Good, Counts
  <2>2. Released'
    BY <2>1 DEF Good, Counts, Silent, Released
  <2>3. HandedOver'
    BY <2>1 DEF Good, Silent, HandedOver
  <2>. QED BY <2>2, <2>3
<1>8. CASE Calc40Pend
  <2>1. /\ sem[1] > 0 /\ sem'[1] = sem[1] - 1 /\ sem'[7] = sem[7]
        /\ calc40 = "pend1" /\ calc40' = taskFlag
        /\ UNCHANGED <<receive, handed, bufVars>>
    BY <1>8, PendCounts DEF Calc40Pend, Good
  <2>2. recvBuf = Gen /\ handed = <<recvBuf>> /\ taskFlag = "SMV_GEN"
    BY <2>1, HandedIsRequest
  <2>3. Released' /\ sem'[1] = 0
    BY <2>1, <2>2 DEF Good, Counts, Silent, Released
  <2>4. HandedOver'
    BY <2>1, <2>2, <2>3 DEF HandedOver, Gen, CalcCode
  <2>. QED BY <2>3, <2>4
<1>9. CASE SmvGenHelper
  <2>1. /\ calc40 = "SMV_GEN" /\ calc40' = "pend1" /\ sem'[1] = sem[1]
        /\ sem'[7] = sem[7] + 1 /\ handed' = Tail(handed)
        /\ UNCHANGED <<receive, bufVars>>
    BY <1>9, PostCounts DEF SmvGenHelper, Good
  <2>2. handed = <<recvBuf>>
    BY <2>1, HandedIsRequest
  <2>3. Released' /\ sem'[1] = 0
    BY <2>1 DEF Good, Counts, Silent, Released
  <2>4. HandedOver'
    BY <2>1, <2>2, <2>3 DEF HandedOver, CalcCode
  <2>. QED BY <2>3, <2>4
<1>10. ~(ReceiveDropped \/ RealSmvHelper \/ CalculationDone \/ StartCalculation
         \/ MsgDispHelper \/ MsgDispCalc \/ Calc200Pend \/ SwapBuffers
         \/ SmvDataCalc \/ ReportHarmonics)
  <2>1. ~ReceiveDropped
    BY DEF ReceiveDropped, ReceiveNext, Dropped, Pipeline, OnLinks, Ask, Gen
  <2>2. sem[2] = 0 /\ calc200 = "pend2" /\ calc40 \in {"pend1", "SMV_GEN"}
    BY DEF Good, Silent, NoSamples
  <2>. QED BY <2>1, <2>2
           DEF RealSmvHelper, CalculationDone, StartCalculation, MsgDispHelper,
               MsgDispCalc, Calc200Pend, SwapBuffers, SmvDataCalc,
               ReportHarmonics, Pend
<1>. QED BY <1>2, <1>3, <1>4, <1>5, <1>6, <1>7, <1>8, <1>9, <1>10
         DEF Next, DspStep, DspNext

LEMMA WaveStep ==
  ASSUME TypeInv, WaveInv, [Next]_vars PROVE WaveInv'
<1>. SUFFICES ASSUME Undisturbed'
              PROVE  Silent' /\ \E j \in 0..4, h \in 0..6 : Pipeline(j, h)'
  BY DEF WaveInv
<1>1. Undisturbed /\ ~SendSmv /\ ~PageSends
  <2>1. sampled \in Nat /\ paged \in Nat
    BY ClientAssumption DEF TypeInv, TypeOK
  <2>2. ~SendSmv /\ ~PageSends
    BY <2>1 DEF SendSmv, PageSends, Undisturbed
  <2>3. UNCHANGED <<sampled, paged>>
    BY <2>2 DEF Next, vars, pageVars, DspStep, CallerNext, Construct, GetDspInfo, CheckSend,
       StoreBuffer, SendGen, SendFails, WaitForObject, WaitTimesOut, Framed,
       ReaderNext, ReadFrame, SignalSend, CopyResult, SignalReceive
  <2>4. failed => failed'
    BY <2>2 DEF Next, vars, callerVars, DspStep, CallerNext, Construct, GetDspInfo,
       CheckSend, StoreBuffer, SendGen, SendFails, WaitForObject, WaitTimesOut,
       Framed, ReaderNext, ReadFrame, SignalSend, CopyResult, SignalReceive
  <2>. QED BY <2>2, <2>3, <2>4 DEF Undisturbed
<1>2. PICK i \in 0..4, g \in 0..6 : Pipeline(i, g)
  BY <1>1 DEF WaveInv
<1>3. Good
  BY <1>1 DEF Good, WaveInv, Counts, TypeInv, TypeOK, DspTypeOK
<1>4. ~failed'
  BY DEF Undisturbed
<1>5. NoSamples' /\ \E j \in 0..4, h \in 0..6 : Pipeline(j, h)'
  <2>1. CASE UNCHANGED vars
    <3>1. Ahead(i, g)' /\ OnLinks(i, g)' /\ InDsp(i, g)' /\ AtClient(i, g)'
      BY <1>2, <2>1 DEF vars, dspVars, callerVars, readerVars, eventVars, Pipeline,
         Ahead, OnLinks, InDsp, AtClient, Ask, Gen, Told, Wave
    <3>2. NoSamples'
      BY <1>3, <2>1 DEF vars, dspVars, NoSamples, Silent, Good
    <3>. QED BY <3>1, <3>2 DEF Pipeline
  <2>. QED BY <1>1, <1>2, <1>3, <1>4, <2>1, DspWave, CallerWave, ReaderWave DEF Next
<1>6. Released' /\ HandedOver'
  BY <1>2, <1>3, SilentStep
<1>. QED BY <1>5, <1>6 DEF Silent

(* While no request failed and the receive pages are silent, a request     *)
(* gets its own waveform, and a result is copied only while its request    *)
(* waits: however many requests are made, and whether the firmware was     *)
(* built to block or to lose points (FrameSend.cpp:907-919, Dsp.cpp:247).  *)
THEOREM OwnWaveformAlways == Spec => []OwnWaveform
<1>. DEFINE IInv == TypeInv /\ WaveInv
<1>1. Init => IInv
  BY InitTypes, InitWave
<1>2. IInv /\ [Next]_vars => IInv'
  BY TypesKept, WaveStep
<1>3. IInv => OwnWaveform
  BY WaveIsOwn
<1>. QED BY <1>1, <1>2, <1>3, PTL DEF Spec
=============================================================================
