---------------------------- MODULE RecordProofs ----------------------------
(***************************************************************************)
(* The recording is served and its buffers are kept apart, for any number  *)
(* of receive threads, any buffer size, batch and number of recordings.    *)
(***************************************************************************)
EXTENDS RecordWave, TLAPS

(* Whoever is between lock and unlock owns the lock.                       *)
Locked == {"switch", "turn", "hand", "restart", "put", "copy"}
LockHeld ==
  /\ \A r \in Receivers : receiver[r].pc \in Locked => lock = r
  /\ recorder.pc = "writing" => lock = Recorder

(* What a handler found out before its next step still holds.              *)
Found(r) ==
  /\ receiver[r].pc # "idle" => receiver[r].left >= 1
  /\ receiver[r].pc \in {"turn", "hand", "copy"} => receiver[r].buf \in Buffer
  /\ receiver[r].pc \in {"put", "copy"} => index < Capacity

AllFound ==
  /\ \A r \in Receivers : Found(r)
  /\ page.pc = "stopFlag" => page.seen \in Buffer

IInv == TypeOK /\ LockHeld /\ AllFound

(* While a recording is shown nobody asks to stop, and a thread serves it. *)
Serving ==
  page.pc \in {"started", "dialog"} =>
    /\ ~stopping /\ Allocated
    /\ IF page.begun THEN recorder.pc \in InLoop ELSE recorder.pc = "none"

(* The buffer being saved is pending, and the one turned to is not.        *)
Apart ==
  page.pc \in {"started", "dialog"} =>
    /\ recorder.pc \in {"write", "writing", "written"} =>
         full[recorder.buf] /\ current # recorder.buf
    /\ \A r \in Receivers : receiver[r].pc = "turn" => ~full[receiver[r].buf]

-----------------------------------------------------------------------------
(* The page leaves the lock alone.                                         *)
LEMMA PageKeeps ==
  ASSUME IInv, PageStep \/ PageRuns
  PROVE  IInv'
<1> USE RecordAssumption
    DEF IInv, TypeOK, LockHeld, AllFound, Found, Buffer, Other, PagePc, PageRecord, buffers,
        control, PageGoto
<1>1. CASE StartRecord
  <2> SUFFICES ASSUME NEW made \in BOOLEAN, StartWith(FALSE, made) PROVE IInv'
    BY <1>1 DEF StartRecord
  <2>1. recorder' \in [pc : RecorderPc, buf : Buffer]
    BY DEF StartWith, RecorderPc
  <2>2. recorder'.pc = "writing" => recorder.pc = "writing"
    BY DEF StartWith
  <2>3. filled' \in [Buffer -> -1 .. Capacity]
    BY DEF StartWith
  <2>4. page' \in PageRecord
        /\ page'.pc = "started"
    <3>1. page.recordings + 1 \in 0 .. MaxRecordings
      BY DEF StartWith
    <3>2. (recorder'.pc # "none") \in BOOLEAN
      OBVIOUS
    <3> QED
      BY <3>1, <3>2 DEF StartWith
  <2>5. TypeOK'
    <3>1. (handle \/ made) \in BOOLEAN /\ free' \in Nat
      BY DEF StartWith
    <3>2. UNCHANGED <<mode, full, index, size, total, finished, lock, receiver>>
          /\ current' = 1 /\ stopping' = FALSE /\ handle' = (handle \/ made)
      BY DEF StartWith
    <3>3. TypeOK
      OBVIOUS
    <3>4. current' \in 0 .. 2
      BY <3>2
    <3> HIDE DEF Buffer, PageRecord, IInv, TypeOK
    <3> QED
      BY <2>1, <2>3, <2>4, <3>1, <3>2, <3>3, <3>4 DEF TypeOK
  <2>6. LockHeld'
    BY <2>2 DEF StartWith
  <2>7. AllFound'
    BY <2>4 DEF StartWith
  <2> QED
    BY <2>5, <2>6, <2>7
<1>2. CASE UserStops
  BY <1>2 DEF UserStops
<1>3. CASE CancelQuits
  BY <1>3 DEF CancelQuits
<1>4. CASE SetRecordMode
  BY <1>4 DEF SetRecordMode
<1>5. CASE OnHandleRecordException
  BY <1>5 DEF OnHandleRecordException
<1>6. CASE CancelRecordWave
  <2>1. CASE CancelDiscards
    BY <2>1 DEF CancelDiscards
  <2>2. CASE CancelLeaves
    BY <2>2 DEF CancelLeaves
  <2>3. CASE CancelEnds
    BY <2>3 DEF CancelEnds
  <2> QED
    BY <1>6, <2>1, <2>2, <2>3 DEF CancelRecordWave
<1>7. CASE StopQuits \/ StopTakesSize
  <2>1. CASE StopQuits
    BY <2>1 DEF StopQuits
  <2>2. CASE StopTakesSize
    BY <2>2 DEF StopTakesSize
  <2> QED
    BY <1>7, <2>1, <2>2
<1>8. CASE StopTests
  <2> SUFFICES ASSUME NEW b \in Buffer, NEW s \in PagePc, NEW next \in PagePc,
                      next # "stopFlag", StopTest(b, s, next)
               PROVE  IInv'
    BY <1>8 DEF StopTests
  <2>1. page' \in PageRecord /\ (page'.pc = "stopFlag" => page'.seen \in Buffer)
    <3>1. CASE current = b
      BY <3>1 DEF StopTest
    <3>2. CASE current # b
      BY <3>2 DEF StopTest
    <3> QED
      BY <3>1, <3>2
  <2> QED
    BY <2>1 DEF StopTest
<1>9. CASE StopHandsOver
  BY <1>9 DEF StopHandsOver
<1>10. CASE StopLeaves
  BY <1>10 DEF StopLeaves
<1>11. CASE StopEnds
  BY <1>11 DEF StopEnds
<1>12. CASE StopWaited
  BY <1>12 DEF StopWaited
<1> QED
  BY <1>1, <1>2, <1>3, <1>4, <1>5, <1>6, <1>7, <1>8, <1>9, <1>10, <1>11, <1>12
  DEF PageStep, PageRuns, StopRecordWave

(* A receive thread changes its own record, and works with the lock held.  *)
LEMMA ReceiverKeeps ==
  ASSUME IInv, NEW r \in Receivers, RecordBatch(r) \/ ReceiveStep(r)
  PROVE  IInv'
<1>0. receiver \in [Receivers -> ReceiverRecord] /\ receiver[r] \in ReceiverRecord
  BY DEF IInv, TypeOK
<1> USE RecordAssumption
    DEF IInv, TypeOK, LockHeld, AllFound, Found, Locked, Buffer, Other, ReceiverPc,
        ReceiverRecord, PageRecord, ReceiverGoto, BatchEnds, buffers, control
<1>1. CASE RecordBatch(r)
  <2>1. PICK n \in 1 .. MaxBatch :
          receiver' = [receiver EXCEPT ![r].pc = "frame", ![r].left = n]
    BY <1>1 DEF RecordBatch
  <2>2. /\ receiver'[r] = [receiver[r] EXCEPT !.pc = "frame", !.left = n]
        /\ \A q \in Receivers \ {r} : receiver'[q] = receiver[q]
    BY <2>1
  <2>3. receiver'[r] = [pc |-> "frame", left |-> n, buf |-> receiver[r].buf]
    BY <1>0, <2>2
  <2>4. receiver' \in [Receivers -> ReceiverRecord]
    BY <1>0, <2>1, <2>2, <2>3
  <2>5. UNCHANGED <<mode, current, full, index, size, total, free, stopping, finished,
                    filled, handle, lock, recorder, page>>
    BY <1>1 DEF RecordBatch
  <2>6. TypeOK' /\ LockHeld'
    BY <2>2, <2>3, <2>4, <2>5
  <2>7. AllFound'
    BY <2>2, <2>3, <2>5
  <2> QED
    BY <2>6, <2>7
<1>2. CASE FrameRefused(r)
  <2>1. (page.posted \/ CanWrite) \in BOOLEAN
    BY DEF CanWrite
  <2>2. page' \in PageRecord
        /\ page'.pc = page.pc /\ page'.seen = page.seen
    BY <1>2, <2>1 DEF FrameRefused
  <2>3. /\ receiver'[r] = [pc |-> "idle", left |-> 0, buf |-> 0]
        /\ \A q \in Receivers \ {r} : receiver'[q] = receiver[q]
        /\ receiver' \in [Receivers -> ReceiverRecord]
    BY <1>2 DEF FrameRefused
  <2> QED
    BY <1>2, <2>2, <2>3 DEF FrameRefused
<1>3. CASE FrameTaken(r)
  BY <1>3 DEF FrameTaken, TakenWhen
<1>4. CASE TestOther(r)
  BY <1>4 DEF TestOther
<1>5. CASE TurnToOther(r)
  BY <1>5 DEF TurnToOther
<1>6. CASE HandOver(r)
  BY <1>6 DEF HandOver
<1>7. CASE Restart(r)
  BY <1>7 DEF Restart
<1>8. CASE FindBuffer(r)
  BY <1>8 DEF FindBuffer
<1>9. CASE CopyFrame(r)
  <2> DEFINE b == receiver[r].buf
  <2>1. /\ receiver[r].left >= 1 /\ b \in Buffer /\ index < Capacity /\ lock = r
        /\ \A q \in Receivers \ {r} : receiver[q].pc \notin Locked
    BY <1>9 DEF CopyFrame
  <2>2. index' \in 0 .. Capacity /\ filled' \in [Buffer -> -1 .. Capacity]
    BY <1>9, <2>1 DEF CopyFrame
  <2>3. /\ \A q \in Receivers \ {r} : receiver'[q] = receiver[q]
        /\ receiver'[r] \in ReceiverRecord
        /\ receiver'[r].pc \in {"idle", "frame"}
        /\ receiver'[r].pc = "frame" => receiver'[r].left >= 1
        /\ receiver' \in [Receivers -> ReceiverRecord]
    <3>1. CASE receiver[r].left = 1
      BY <1>9, <3>1 DEF CopyFrame
    <3>2. CASE receiver[r].left # 1
      <4>1. receiver' = [receiver EXCEPT ![r].pc = "frame", ![r].left = @ - 1]
        BY <1>9, <3>2 DEF CopyFrame
      <4>2. receiver[r].left - 1 \in 1 .. MaxBatch
        BY <2>1, <3>2
      <4>3. receiver'[r] = [receiver[r] EXCEPT !.pc = "frame", !.left = receiver[r].left - 1]
        BY <4>1
      <4>5. receiver'[r] = [pc |-> "frame", left |-> receiver[r].left - 1,
                            buf |-> receiver[r].buf]
        BY <1>0, <4>3
      <4>6. /\ \A q \in Receivers \ {r} : receiver'[q] = receiver[q]
            /\ receiver' \in [Receivers -> ReceiverRecord]
        BY <1>0, <4>1, <4>2, <4>5
      <4> QED
        BY <4>2, <4>5, <4>6
    <3> QED
      BY <3>1, <3>2
  <2> QED
    BY <1>9, <2>1, <2>2, <2>3 DEF CopyFrame
<1> QED
  BY <1>1, <1>2, <1>3, <1>4, <1>5, <1>6, <1>7, <1>8, <1>9 DEF ReceiveStep

LEMMA RecorderKeeps ==
  ASSUME IInv, RecorderStep
  PROVE  IInv'
<1> USE RecordAssumption
    DEF IInv, TypeOK, LockHeld, AllFound, Found, Locked, Buffer, Other, RecorderPc,
        RecorderGoto, buffers, control
<1>1. CASE RecordThreadBegins
  BY <1>1 DEF RecordThreadBegins
<1>2. CASE FindPending
  BY <1>2 DEF FindPending
<1>3. CASE WriteBegins
  BY <1>3 DEF WriteBegins
<1>4. CASE WriteEnds
  BY <1>4 DEF WriteEnds
<1>5. CASE FlagCleared
  BY <1>5 DEF FlagCleared
<1>6. CASE LookAtOther
  BY <1>6 DEF LookAtOther
<1>7. CASE LookAtStop
  BY <1>7 DEF LookAtStop
<1>8. CASE FreeBuffers
  BY <1>8 DEF FreeBuffers
<1>9. CASE RecordFinished
  BY <1>9 DEF RecordFinished
<1>10. CASE ResetIndex
  BY <1>10 DEF ResetIndex
<1>11. CASE RecordThreadEnds
  BY <1>11 DEF RecordThreadEnds
<1> QED
  BY <1>1, <1>2, <1>3, <1>4, <1>5, <1>6, <1>7, <1>8, <1>9, <1>10, <1>11
  DEF RecorderStep

LEMMA RecordInvariant ==
  Spec => []IInv
<1>1. Init => IInv
  <2> SUFFICES ASSUME Init PROVE IInv
    OBVIOUS
  <2>1. \A r \in Receivers : receiver[r] = [pc |-> "idle", left |-> 0, buf |-> 0]
    BY DEF Init
  <2>2. TypeOK
    <3>1. filled \in [Buffer -> -1 .. Capacity] /\ full \in [Buffer -> BOOLEAN]
      BY RecordAssumption DEF Init
    <3>2. page \in PageRecord /\ recorder \in [pc : RecorderPc, buf : Buffer]
      BY RecordAssumption DEF Init, PageRecord, PagePc, RecorderPc, Buffer
    <3>3. receiver \in [Receivers -> ReceiverRecord]
      BY RecordAssumption DEF Init, ReceiverRecord, ReceiverPc
    <3>4. /\ mode \in {"QUIT", "RECORD"} /\ lock \in Receivers \cup {NoOwner, Recorder}
          /\ stopping \in BOOLEAN /\ finished \in BOOLEAN /\ handle \in BOOLEAN
      BY DEF Init
    <3>5. /\ current \in 0 .. 2 /\ index \in 0 .. Capacity /\ size \in 0 .. Capacity
          /\ total \in Nat /\ free \in Nat
      BY RecordAssumption DEF Init
    <3> QED
      BY <3>1, <3>2, <3>3, <3>4, <3>5 DEF TypeOK
  <2>3. LockHeld /\ AllFound
    BY <2>1 DEF Init, LockHeld, AllFound, Found, Locked
  <2> QED
    BY <2>2, <2>3 DEF IInv
<1>2. IInv /\ [Next]_vars => IInv'
  <2> SUFFICES ASSUME IInv, [Next]_vars PROVE IInv'
    OBVIOUS
  <2>1. CASE UNCHANGED vars
    BY <2>1 DEF vars, buffers, control, IInv, TypeOK, LockHeld, AllFound, Found
  <2> QED
    BY <2>1, PageKeeps, ReceiverKeeps, RecorderKeeps DEF Next
<1> QED
  BY <1>1, <1>2, PTL DEF Spec

-----------------------------------------------------------------------------
(* With the user slower than the threads: what holds while a recording is  *)
(* shown.  No step of a thread asks to stop or frees a buffer then, and a  *)
(* flag is set or cleared only by those who have the buffer.               *)
LEMMA ServingBegins ==
  ASSUME UserIsSlow, IInv, StartRecord
  PROVE  Serving' /\ Apart'
<1>1. PICK made \in BOOLEAN : StartWith(FALSE, made)
  BY DEF StartRecord
<1>2. /\ recorder.pc \in {"none", "loop"}
      /\ \A r \in Receivers : receiver'[r].pc = "idle"
  BY <1>1 DEF StartWith, AtRest
<1>3. recorder'.pc \in {"none", "loop", "created"}
  BY <1>1, <1>2 DEF StartWith, IInv, TypeOK
<1>4. ~stopping' /\ (page'.begun <=> recorder'.pc # "none")
  BY <1>1 DEF StartWith, IInv, TypeOK, PageRecord
<1>5. Allocated'
  BY <1>1 DEF StartWith, Allocated, IInv, TypeOK
<1> QED
  BY <1>2, <1>3, <1>4, <1>5 DEF Serving, Apart, InLoop

LEMMA PageServes ==
  ASSUME UserIsSlow, IInv, Serving, Apart, PageStep \/ PageRuns
  PROVE  Serving' /\ Apart'
<1> USE DEF IInv, TypeOK, PageRecord, PageGoto, buffers, control
<1>1. CASE StartRecord
  BY <1>1, ServingBegins
<1>2. CASE SetRecordMode
  BY <1>2 DEF SetRecordMode, Serving, Apart, Allocated
<1>3. CASE OnHandleRecordException
  BY <1>3 DEF OnHandleRecordException, Serving, Apart, Allocated
<1>4. CASE UserStops \/ CancelQuits \/ CancelRecordWave \/ StopRecordWave
  <2>1. page'.pc \notin {"started", "dialog"}
    BY <1>4 DEF UserStops, CancelQuits, CancelRecordWave, CancelDiscards, CancelLeaves,
                CancelEnds, StopRecordWave, StopQuits, StopTakesSize, StopTests, StopTest,
                StopHandsOver, StopLeaves, StopEnds, StopWaited
  <2> QED
    BY <2>1 DEF Serving, Apart
<1> QED
  BY <1>1, <1>2, <1>3, <1>4 DEF PageStep, PageRuns

LEMMA ReceiverServes ==
  ASSUME IInv, Serving, Apart, NEW r \in Receivers, RecordBatch(r) \/ ReceiveStep(r)
  PROVE  Serving' /\ Apart'
<1> USE DEF IInv, TypeOK, LockHeld, Locked, AllFound, Found, Buffer, ReceiverRecord,
            PageRecord, ReceiverGoto, BatchEnds, buffers, control
<1>1. page'.pc = page.pc /\ UNCHANGED <<stopping, recorder>> /\ page'.begun = page.begun
  BY DEF RecordBatch, ReceiveStep, FrameRefused, FrameTaken, TakenWhen, TestOther,
         TurnToOther, HandOver, Restart, FindBuffer, CopyFrame
<1>2. Allocated => Allocated'
  <2>1. CASE CopyFrame(r)
    BY <2>1, RecordAssumption DEF CopyFrame, Allocated
  <2>2. CASE ~CopyFrame(r)
    <3>1. UNCHANGED filled
      BY <2>2 DEF RecordBatch, ReceiveStep, FrameRefused, FrameTaken, TakenWhen,
                  TestOther, TurnToOther, HandOver, Restart, FindBuffer
    <3> QED
      BY <3>1 DEF Allocated
  <2> QED
    BY <2>1, <2>2
<1>3. Serving'
  BY <1>1, <1>2 DEF Serving
<1>4. CASE TestOther(r)
  <2>1. UNCHANGED <<full, current>>
        /\ \A q \in Receivers \ {r} : receiver'[q] = receiver[q]
    BY <1>4 DEF TestOther
  <2>2. receiver'[r].pc = "turn" => ~full[receiver'[r].buf]
    BY <1>4 DEF TestOther, Other
  <2> QED
    BY <1>1, <1>3, <2>1, <2>2 DEF Apart
<1>5. receiver[r].pc \in Locked => \A q \in Receivers \ {r} : receiver[q].pc # "turn"
  OBVIOUS
<1>6. CASE TurnToOther(r)
  <2>1. /\ \A q \in Receivers : receiver'[q].pc # "turn"
        /\ UNCHANGED full /\ current' = receiver[r].buf /\ receiver[r].pc = "turn"
    BY <1>6, <1>5 DEF TurnToOther
  <2> QED
    BY <1>1, <1>3, <2>1 DEF Apart
<1>7. CASE HandOver(r)
  <2>1. /\ \A q \in Receivers : receiver'[q].pc # "turn"
        /\ UNCHANGED current
    BY <1>7, <1>5 DEF HandOver
  <2>2. \A b \in Buffer : full[b] => full'[b]
    BY <1>7 DEF HandOver
  <2>3. recorder.buf \in Buffer
    OBVIOUS
  <2> QED
    BY <1>1, <1>3, <2>1, <2>2, <2>3 DEF Apart
<1>8. CASE RecordBatch(r) \/ FrameRefused(r) \/ FrameTaken(r) \/ Restart(r)
           \/ FindBuffer(r) \/ CopyFrame(r)
  <2>1. /\ UNCHANGED <<full, current>>
        /\ \A q \in Receivers : receiver'[q].pc = "turn" => receiver'[q] = receiver[q]
    BY <1>8 DEF RecordBatch, FrameRefused, FrameTaken, TakenWhen, Restart, FindBuffer,
                CopyFrame
  <2> QED
    BY <1>1, <1>3, <2>1 DEF Apart
<1> QED
  BY <1>4, <1>6, <1>7, <1>8 DEF ReceiveStep

LEMMA RecorderServes ==
  ASSUME IInv, Serving, Apart, RecorderStep
  PROVE  Serving' /\ Apart'
<1> USE DEF IInv, TypeOK, Buffer, RecorderGoto, buffers, control
<1>1. UNCHANGED <<page, stopping, current, receiver>>
  BY DEF RecorderStep, RecordThreadBegins, FindPending, WriteBegins, WriteEnds,
         FlagCleared, LookAtOther, LookAtStop, FreeBuffers, RecordFinished,
         ResetIndex, RecordThreadEnds
<1>2. Serving'
  <2>1. CASE FreeBuffers
    BY <2>1 DEF FreeBuffers, Serving, InLoop
  <2> QED
    BY <1>1, <2>1
    DEF RecorderStep, RecordThreadBegins, FindPending, WriteBegins, WriteEnds,
        FlagCleared, LookAtOther, LookAtStop, RecordFinished, ResetIndex,
        RecordThreadEnds, Serving, InLoop, Allocated
<1>3. Apart'
  <2>1. CASE FindPending
    BY <1>1, <2>1 DEF FindPending, Pending, Apart
  <2>2. CASE FlagCleared
    BY <1>1, <2>2 DEF FlagCleared, Apart
  <2>3. CASE ~FindPending /\ ~FlagCleared
    <3>1. UNCHANGED full
          /\ (recorder'.pc \in {"write", "writing", "written"} =>
                /\ recorder.pc \in {"write", "writing", "written"}
                /\ recorder'.buf = recorder.buf)
      BY <2>3 DEF RecorderStep, RecordThreadBegins, WriteBegins, WriteEnds,
                  LookAtOther, LookAtStop, FreeBuffers, RecordFinished, ResetIndex,
                  RecordThreadEnds
    <3> QED
      BY <1>1, <3>1 DEF Apart
  <2> QED
    BY <2>1, <2>2, <2>3
<1> QED
  BY <1>2, <1>3

LEMMA RecordingInvariant ==
  ASSUME UserIsSlow
  PROVE  Spec => [](Serving /\ Apart)
<1>1. Init => Serving /\ Apart
  BY DEF Init, Serving, Apart
<1>2. IInv /\ Serving /\ Apart /\ [Next]_vars => Serving' /\ Apart'
  <2> SUFFICES ASSUME IInv, Serving, Apart, [Next]_vars PROVE Serving' /\ Apart'
    OBVIOUS
  <2>1. CASE UNCHANGED vars
    BY <2>1 DEF vars, buffers, control, Serving, Apart, Allocated
  <2> QED
    BY <2>1, PageServes, ReceiverServes, RecorderServes DEF Next
<1> QED
  BY <1>1, <1>2, RecordInvariant, PTL DEF Spec

-----------------------------------------------------------------------------
(* The types, and with them the sizes of the buffers and of the files, for *)
(* every timing of the page.                                               *)
THEOREM RecordTypeCorrect ==
  Spec => []TypeOK
BY RecordInvariant, PTL DEF IInv

(* A recording that is shown is served until it is stopped or cancelled.   *)
THEOREM RecordingIsServed ==
  ASSUME UserIsSlow
  PROVE  Spec => []RecordingServed
<1>1. Serving => RecordingServed
  BY DEF Serving, RecordingServed
<1> QED
  BY <1>1, RecordingInvariant, PTL

(* The buffer being saved is not being filled, however many threads fill.  *)
THEOREM SavedIsNotFilled ==
  ASSUME UserIsSlow
  PROVE  Spec => []SavedNotFilled
<1>1. Apart => SavedNotFilled
  BY DEF Apart, SavedNotFilled
<1> QED
  BY <1>1, RecordingInvariant, PTL
=============================================================================
