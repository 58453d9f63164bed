----------------------------- MODULE DspClient -----------------------------
(***************************************************************************)
(* CDsp (dspclient/dsp/Dsp.cpp) and the thread that frames a manual test   *)
(* or a state sequence, which asks the DSP for the samples of the virtual  *)
(* channels (CFrameSend::__GenVirtualChannelSamples).  Each request has a  *)
(* CDsp and a result buffer of its own on the stack of that thread; the    *)
(* events, the destination pointer and the reading thread are static.      *)
(* There is one framer at a time (OneFramerAlways of FrameSendProofs).     *)
(* The SMV receive pages send the DSP samples, times and settings.         *)
(***************************************************************************)
EXTENDS DspTasks

CONSTANTS
  MaxRequests,   (* bound: waveforms asked for                              *)
  MaxSamples,    (* bound: frames of samples sent by the receive pages      *)
  MaxPage,       (* bound: their other commands                             *)
  MaxLoad,       (* bound: all of these together                            *)
  PageCommands   (* the kinds of their other commands                      *)

ASSUME ClientAssumption ==
  /\ MaxRequests \in Nat /\ MaxSamples \in Nat /\ MaxPage \in Nat
  /\ MaxLoad \in Nat
  /\ PageCommands \subseteq {"CONFIG", "RESET_SMV", "RESET_TIME", "TIME_DATA"}

VARIABLES
  caller,      (* where the framing thread is                               *)
  request,     (* number of its request, the last one made                  *)
  iEvent,      (* m_iEvents[T_SMV_GEN]: set, reset, or its handle closed    *)
  oEvent,      (* m_oEvents[T_SMV_GEN]                                      *)
  calcData,    (* m_pSmvGenCalcData: the request whose buffer; 0 is NULL    *)
  recvData,    (* stDspRecvData of each request: whose waveform is in it    *)
  reader,      (* where ReadDataThread is                                   *)
  frame,       (* the answer it is delivering                               *)
  pTmp,        (* the request whose buffer it copies to                     *)
  failed,      (* a request was not sent or was given up                    *)
  sampled,     (* frames of samples sent                                    *)
  paged,       (* other commands of the pages sent                          *)
  pressed      (* history: a frame came while tskCalc40ms had a command,    *)
               (* and the build and the batches before let it in            *)

eventVars  == <<iEvent, oEvent>>
callerVars == <<caller, request, calcData, failed>>
readerVars == <<reader, frame, pTmp>>
pageVars   == <<sampled, paged, pressed>>
vars == <<linkVars, dspVars, eventVars, callerVars, readerVars, recvData,
          pageVars>>

EventState == {"set", "reset", "closed"}
Signal(e)  == IF e = "closed" THEN e ELSE "set"

Init ==
  /\ DspInit
  /\ caller = "idle" /\ request = 0
  /\ iEvent = "closed" /\ oEvent = "closed"
  /\ calcData = 0 /\ failed = FALSE
  /\ recvData = [r \in 1..MaxRequests |-> 0]
  /\ reader = "recv" /\ frame = Nothing /\ pTmp = 0
  /\ sampled = 0 /\ paged = 0 /\ pressed = FALSE

HasRoom == request + sampled + paged < MaxLoad

(* With _LOST_POINT_MODE (main.c:23) the batches after the first leave     *)
(* releases of SEM7 too many: a frame that comes while tskCalc40ms has a   *)
(* command is then received before the command has been executed.          *)
Pressing == LostPointMode /\ ~firstCalc /\ handed # <<>> /\ toDsp # <<>>
Watch    == pressed' = (pressed \/ Pressing')

(* CDspController::FrameSend; the link accepts a frame when it has room.   *)
FrameSend(code, id) ==
  /\ Len(toDsp) < LinkDepth
  /\ toDsp' = Append(toDsp, [code |-> code, id |-> id])
  /\ UNCHANGED <<toArm, dspVars>>
  /\ Watch

-----------------------------------------------------------------------------
(* The framing thread.  The read thread has run since the receive manager  *)
(* was initialised, so StartRead finds m_fRead set.                        *)
Construct ==
  /\ caller = "idle" /\ request < MaxRequests /\ HasRoom
  /\ caller' = "info"
  /\ request' = request + 1
  /\ iEvent' = "set" /\ oEvent' = "reset"
  /\ UNCHANGED <<linkVars, dspVars, calcData, failed, readerVars, recvData,
                 pageVars>>

GetDspInfo ==               \* its result is not looked at
  /\ caller = "info"
  /\ caller' = "check"
  /\ FrameSend("INFO", 0) \/ UNCHANGED <<linkVars, dspVars, pressed>>
  /\ UNCHANGED <<eventVars, request, calcData, failed, readerVars, recvData,
                 sampled, paged>>

CheckSend ==                \* the event was set by the constructor
  /\ caller = "check"
  /\ iEvent = "set" /\ iEvent' = "reset"
  /\ caller' = "store"
  /\ UNCHANGED <<linkVars, dspVars, oEvent, request, calcData, failed,
                 readerVars, recvData, pageVars>>

StoreBuffer ==
  /\ caller = "store"
  /\ calcData' = request
  /\ caller' = "send"
  /\ UNCHANGED <<linkVars, dspVars, eventVars, request, failed, readerVars,
                 recvData, pageVars>>

SendGen ==
  /\ caller = "send"
  /\ FrameSend("SMV_GEN", request)
  /\ caller' = "wait"
  /\ UNCHANGED <<eventVars, request, calcData, failed, readerVars, recvData,
                 sampled, paged>>

Destruct == iEvent' = "closed" /\ oEvent' = "closed"

SendFails ==                \* SmvGenCalc returns -4
  /\ caller = "send"
  /\ caller' = "idle"
  /\ failed' = TRUE
  /\ Destruct
  /\ UNCHANGED <<linkVars, dspVars, request, calcData, readerVars, recvData,
                 pageVars>>

WaitForObject ==
  /\ caller = "wait"
  /\ oEvent = "set"
  /\ caller' = "frame"
  /\ Destruct
  /\ UNCHANGED <<linkVars, dspVars, request, calcData, failed, readerVars,
                 recvData, pageVars>>

WaitTimesOut ==
  /\ caller = "wait"
  /\ oEvent = "reset"
  /\ caller' = "idle"
  /\ failed' = TRUE
  /\ Destruct
  /\ UNCHANGED <<linkVars, dspVars, request, calcData, readerVars, recvData,
                 pageVars>>

Framed ==                   \* the samples were used; the buffer goes
  /\ caller = "frame"
  /\ caller' = "idle"
  /\ UNCHANGED <<linkVars, dspVars, eventVars, request, calcData, failed,
                 readerVars, recvData, pageVars>>

CallerNext == \/ Construct \/ GetDspInfo \/ CheckSend \/ StoreBuffer \/ SendGen
              \/ SendFails \/ WaitForObject \/ WaitTimesOut \/ Framed

-----------------------------------------------------------------------------
(* ReadDataThread.                                                         *)
ForCaller(f) == f.code = "SMV_GEN_RT" /\ calcData # 0

ReadFrame ==
  /\ reader = "recv"
  /\ toArm # <<>>
  /\ toArm' = Tail(toArm)
  /\ IF ForCaller(Head(toArm))
     THEN frame' = Head(toArm) /\ pTmp' = calcData /\ reader' = "iEvent"
     ELSE UNCHANGED readerVars
  /\ UNCHANGED <<toDsp, dspVars, eventVars, callerVars, recvData, pageVars>>

(* Mutant: both events are set before the result is copied.                *)
SignalBoth ==
  /\ reader = "iEvent"
  /\ iEvent' = Signal(iEvent) /\ oEvent' = Signal(oEvent)
  /\ reader' = "copy"
  /\ UNCHANGED <<linkVars, dspVars, callerVars, frame, pTmp, recvData,
                 pageVars>>

SignalSend ==
  /\ reader = "iEvent"
  /\ iEvent' = Signal(iEvent)
  /\ reader' = "copy"
  /\ UNCHANGED <<linkVars, dspVars, oEvent, callerVars, frame, pTmp, recvData,
                 pageVars>>

CopyResult ==
  /\ reader = "copy"
  /\ recvData' = [recvData EXCEPT ![pTmp] = frame.id]
  /\ reader' = "oEvent"
  /\ UNCHANGED <<linkVars, dspVars, eventVars, callerVars, frame, pTmp,
                 pageVars>>

SignalReceive ==
  /\ reader = "oEvent"
  /\ oEvent' = Signal(oEvent)
  /\ reader' = "recv" /\ frame' = Nothing /\ pTmp' = 0
  /\ UNCHANGED <<linkVars, dspVars, iEvent, callerVars, recvData, pageVars>>

ReaderNext == ReadFrame \/ SignalSend \/ CopyResult \/ SignalReceive

-----------------------------------------------------------------------------
(* The SMV receive pages (SendSmv, SetConfig, ResetCache, SendMsgTime).    *)
SendSmv ==
  /\ sampled < MaxSamples /\ HasRoom
  /\ FrameSend("SMV_DATA", sampled + 1)
  /\ sampled' = sampled + 1
  /\ UNCHANGED <<eventVars, callerVars, readerVars, recvData, paged>>

PageSends ==
  /\ paged < MaxPage /\ HasRoom
  /\ \E c \in PageCommands : FrameSend(c, 0)
  /\ paged' = paged + 1
  /\ UNCHANGED <<eventVars, callerVars, readerVars, recvData, sampled>>

DspStep ==
  /\ DspNext
  /\ Watch
  /\ UNCHANGED <<eventVars, callerVars, readerVars, recvData, sampled, paged>>

Next == DspStep \/ CallerNext \/ ReaderNext \/ SendSmv \/ PageSends

Spec == Init /\ [][Next]_vars

-----------------------------------------------------------------------------
(* Every variable has its type.                                            *)
TypeOK ==
  /\ DspTypeOK
  /\ caller \in {"idle", "info", "check", "store", "send", "wait", "frame"}
  /\ request \in 0..MaxRequests /\ calcData \in 0..MaxRequests
  /\ iEvent \in EventState /\ oEvent \in EventState
  /\ recvData \in [1..MaxRequests -> Nat]
  /\ reader \in {"recv", "iEvent", "copy", "oEvent"}
  /\ frame \in Frame \cup {Nothing} /\ pTmp \in 0..MaxRequests
  /\ (reader # "recv" => pTmp # 0)
  /\ failed \in BOOLEAN
  /\ sampled \in 0..MaxSamples /\ paged \in 0..MaxPage
  /\ pressed \in BOOLEAN

(* As long as no request failed and the receive pages are silent, a        *)
(* request that succeeded holds its own waveform while the samples are     *)
(* used, and a result is copied only to the buffer of the request that     *)
(* waits for it (FrameSend.cpp:907-919, Dsp.cpp:247).                      *)
Undisturbed == ~failed /\ sampled = 0 /\ paged = 0

OwnWaveform == Undisturbed =>
  /\ caller = "frame" => recvData[request] = request
  /\ reader = "copy"  => caller = "wait" /\ pTmp = request

(* Of every request: what WaitForObject returned 0 for is the              *)
(* result of the calculation that was asked for (FrameSend.cpp:905).       *)
ResultOfRequest == caller = "frame" => recvData[request] = request

-----------------------------------------------------------------------------
(* The command that tskCalc40ms has taken is the one it was woken for: no  *)
(* later command has overwritten g_recvBuf or g_tskFlag[1] (main.c:524),   *)
(* always when built to block, and until a frame is pressed in otherwise.  *)
OwnCommand == ~pressed => (calc40 \in CalcCode =>
                handed # <<>> /\ recvBuf = Head(handed) /\ calc40 = recvBuf.code)

(* While the harmonics are calculated their input is a batch of frames     *)
(* that followed each other on the link, in order and none twice, on the   *)
(* same condition: the points lost are lost between two batches, and the   *)
(* buffer that is filled is the other one (main.c:341-432, 446-466).       *)
BatchIntact == ~pressed => (calc200 = "calculate" =>
  \A i \in 1..(Batch-1) : samples[1-swap][i+1] = samples[1-swap][i] + 1)

(* A command that was received is executed as received: the data received  *)
(* is in g_recvBuf, and its code says what is done (main.c:532, 535).      *)
CommandKept == calc40 \in CalcCode => recvBuf = Head(handed)

(* A complete batch waits in the buffer that was filled until the buffers  *)
(* are swapped, although its count is reset before (main.c:424, 446-460).  *)
Swapping == sem[2] > 0 \/ calc200 = "swap"
Full     == Swapping \/ calc40 \in {"pend5", "start200"}

(* Whatever their order, the semaphores and the two buffers make the tasks *)
(* execute one command after another and calculate whole batches, until a  *)
(* frame is pressed in (main.c:341-481, 518-617, 676-736).                 *)
Executing  == IF handed = <<>> THEN Nothing ELSE Head(handed)
Collected  == IF Full THEN samples[swap] ELSE SubSeq(samples[swap], 1, cached)
Calculated == IF calc200 = "calculate" THEN samples[1-swap] ELSE <<>>

Service == INSTANCE CommandService WITH
  Loses    <- LostPointMode,
  Commands <- [code : CalcCode \cup DOMAIN Answer,
               id : 0..(MaxRequests + MaxSamples)],
  queue    <- toDsp,     current  <- Executing,
  batch    <- Collected, input    <- Calculated,
  waveform <- genRT,     overloaded <- pressed

ImplementsService == Service!Spec
=============================================================================
