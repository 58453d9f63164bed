----------------------------- MODULE RecordWave -----------------------------
(***************************************************************************)
(* The recording of waves by the receive manager CFrameRecv: the receive   *)
(* threads fill one of two buffers, a record thread writes the full one to *)
(* the SD card, and the page starts, stops and cancels the recording.      *)
(* Only _WritePckToBuf and _Write2File take m_lockRecordWaveRealTimeBuf;   *)
(* the page and the loop of the record thread go without it.  The model is *)
(* of the build with two buffers (DSM_RECORD_WARE_REALTIME, not CHUN_HUA). *)
(***************************************************************************)
EXTENDS Integers, FiniteSets

CONSTANTS
  Receivers,      (* receive threads, one for each port                     *)
  NoOwner,        (* nobody holds the lock                                  *)
  Capacity,       (* frames in a buffer: m_nRecordBufferSize                *)
  MaxBatch,       (* frames the driver hands over at a time                 *)
  FreeSpace,      (* free space of the SD card when a recording begins      *)
  MaxRecordings,  (* bound on the recordings of a behaviour                 *)
  UserIsSlow      (* the page's keys come after the record thread began,    *)
                  (* and it has come to rest before the next recording      *)

Recorder == "record thread"

ASSUME RecordAssumption ==
  /\ NoOwner \notin Receivers /\ Recorder \notin Receivers \cup {NoOwner}
  /\ Capacity \in Nat \ {0} /\ MaxBatch \in Nat \ {0}
  /\ FreeSpace \subseteq Nat /\ \A n \in FreeSpace : n >= Capacity
  /\ MaxRecordings \in Nat
  /\ UserIsSlow \in BOOLEAN

Buffer == {1, 2}
Other(b) == 3 - b

VARIABLES
  mode,       (* m_enCurrentMode: a record mode, or not                     *)
  current,    (* m_nCurrentBufferIndex: the buffer being filled, 0: none    *)
  full,       (* m_bBuffer1Flag, m_bBuffer2Flag: handed to the record thread*)
  index,      (* m_nRecordWaveIndex: fill level of the current buffer       *)
  size,       (* m_nCurrentRecordSize: what the record thread is to write   *)
  total,      (* m_nTotalRecordSize: handed over so far                     *)
  free,       (* m_nSDCardFreeSize                                          *)
  stopping,   (* m_bIsStopRecord                                            *)
  finished,   (* m_bIsFinishRecord                                          *)
  filled,     (* frames in each buffer since it was allocated, -1: freed    *)
  handle,     (* m_hRecordThread is not NULL                                *)
  lock,       (* owner of m_lockRecordWaveRealTimeBuf                       *)
  receiver,   (* each receive thread in its handler                         *)
  recorder,   (* the record thread                                          *)
  page        (* the UI thread and the record page                          *)

buffers == <<current, full, index, size, total, filled>>
control == <<mode, free, stopping, finished, handle>>
vars == <<buffers, control, lock, receiver, recorder, page>>

Allocated == \A b \in Buffer : filled[b] >= 0

Init ==
  /\ mode = "QUIT" /\ current = 0 /\ full = [b \in Buffer |-> FALSE]
  /\ index = 0 /\ size = 0 /\ total = 0 /\ free = 0
  /\ stopping = FALSE /\ finished = FALSE
  /\ handle \in BOOLEAN      \* the constructor does not initialise it
  /\ filled = [b \in Buffer |-> -1]
  /\ lock = NoOwner
  /\ receiver = [r \in Receivers |-> [pc |-> "idle", left |-> 0, buf |-> 0]]
  /\ recorder = [pc |-> "none", buf |-> 1]
  /\ page = [pc |-> "monitor", seen |-> 0, posted |-> FALSE, recordings |-> 0,
             begun |-> FALSE]

-----------------------------------------------------------------------------
(* The page.                                                               *)
PageGoto(s) == page' = [page EXCEPT !.pc = s]

(* Mutant: only while the other buffer is being filled.                    *)
PendingBehind(b) == full[b] /\ current = Other(b)

Pending(b) == full[b] /\ current # b

NothingPending == \A b \in Buffer : ~Pending(b)

(* The record thread does nothing but look at the flags, or is gone.       *)
AtRest ==
  /\ recorder.pc = "none" \/ (recorder.pc = "loop" /\ NothingPending)
  /\ \A r \in Receivers : receiver[r].pc = "idle"

(* The checks of the page, StartRecordNetSmv or its like, and StartRecord: *)
(* a thread is created only when the handle is NULL, and that may fail.    *)
(* page.begun is a history: the recording began with a thread to serve it. *)
StartWith(stop, made) ==
  /\ page.pc = "monitor" /\ ~page.posted /\ page.recordings < MaxRecordings
  /\ UserIsSlow => AtRest
  /\ free' \in FreeSpace
  /\ filled' = [b \in Buffer |-> IF filled[b] < 0 THEN 0 ELSE filled[b]]
  /\ current' = 1
  /\ stopping' = stop
  /\ handle' = (handle \/ made)
  /\ recorder' = IF ~handle /\ made THEN [recorder EXCEPT !.pc = "created"] ELSE recorder
  /\ page' = [page EXCEPT !.pc = "started", !.recordings = @ + 1,
                          !.begun = recorder'.pc # "none"]
  /\ UNCHANGED <<mode, full, index, size, total, finished, lock, receiver>>

(* Mutant: a request to stop is left over from the recording before.       *)
StartStillStopping == \E made \in BOOLEAN : StartWith(stopping, made)

StartRecord == \E made \in BOOLEAN : StartWith(FALSE, made)

SetRecordMode ==            \* after the thread was created
  /\ page.pc = "started"
  /\ mode' = "RECORD"
  /\ PageGoto("dialog")
  /\ UNCHANGED <<buffers, free, stopping, finished, handle, lock, receiver, recorder>>

(* The key that stops, or the message that the card is full.               *)
UserStops ==
  /\ page.pc = "dialog"
  /\ UserIsSlow => recorder.pc # "created"
  /\ PageGoto("stop")
  /\ UNCHANGED <<buffers, control, lock, receiver, recorder>>

OnHandleRecordException ==
  /\ page.posted /\ page.pc \in {"monitor", "dialog"}
  /\ page' = [page EXCEPT !.posted = FALSE,
                          !.pc = IF @ = "dialog" THEN "stop" ELSE @]
  /\ UNCHANGED <<buffers, control, lock, receiver, recorder>>

(* CancelRecordWave, store by store: the card was pulled out.              *)
CancelQuits ==
  /\ page.pc = "dialog"
  /\ UserIsSlow => recorder.pc # "created"
  /\ mode' = "QUIT"
  /\ PageGoto("cancel")
  /\ UNCHANGED <<buffers, free, stopping, finished, handle, lock, receiver, recorder>>

CancelDiscards ==
  /\ page.pc = "cancel"
  /\ size' = 0
  /\ PageGoto("cancelLeave")
  /\ UNCHANGED <<current, full, index, total, filled, control, lock, receiver, recorder>>

CancelLeaves ==
  /\ page.pc = "cancelLeave"
  /\ current' = 0
  /\ PageGoto("cancelEnd")
  /\ UNCHANGED <<full, index, size, total, filled, control, lock, receiver, recorder>>

CancelEnds ==
  /\ page.pc = "cancelEnd"
  /\ stopping' = TRUE
  /\ PageGoto("monitor")
  /\ UNCHANGED <<buffers, mode, free, finished, handle, lock, receiver, recorder>>

CancelRecordWave == CancelDiscards \/ CancelLeaves \/ CancelEnds

(* StopRecordWave, store by store.  The current buffer is read once for    *)
(* each comparison, and may be swapped in between.                         *)
StopQuits ==
  /\ page.pc = "stop"
  /\ mode' = "QUIT"
  /\ PageGoto("stopSize")
  /\ UNCHANGED <<buffers, free, stopping, finished, handle, lock, receiver, recorder>>

StopTakesSize ==
  /\ page.pc = "stopSize"
  /\ size' = index
  /\ PageGoto("stopTest1")
  /\ UNCHANGED <<current, full, index, total, filled, control, lock, receiver, recorder>>

StopTest(b, s, next) ==
  /\ page.pc = s
  /\ IF current = b THEN page' = [page EXCEPT !.pc = "stopFlag", !.seen = b]
     ELSE PageGoto(next)
  /\ UNCHANGED <<buffers, control, lock, receiver, recorder>>

StopTests ==
  StopTest(1, "stopTest1", "stopTest2") \/ StopTest(2, "stopTest2", "stopLeave")

StopHandsOver ==
  /\ page.pc = "stopFlag"
  /\ full' = [full EXCEPT ![page.seen] = TRUE]
  /\ PageGoto("stopLeave")
  /\ UNCHANGED <<current, index, size, total, filled, control, lock, receiver, recorder>>

StopLeaves ==
  /\ page.pc = "stopLeave"
  /\ current' = 0
  /\ PageGoto("stopEnd")
  /\ UNCHANGED <<full, index, size, total, filled, control, lock, receiver, recorder>>

StopEnds ==
  /\ page.pc = "stopEnd"
  /\ stopping' = TRUE
  /\ PageGoto("wait")
  /\ UNCHANGED <<buffers, mode, free, finished, handle, lock, receiver, recorder>>

StopWaited ==               \* while (!m_bIsFinishRecord) Sleep(100)
  /\ page.pc = "wait" /\ finished
  /\ PageGoto("monitor")
  /\ UNCHANGED <<buffers, control, lock, receiver, recorder>>

StopRecordWave ==
  \/ StopQuits \/ StopTakesSize \/ StopTests
  \/ StopHandsOver \/ StopLeaves \/ StopEnds \/ StopWaited

-----------------------------------------------------------------------------
(* A receive thread: _NetRecordWave and _Ft3RecordWave call _WritePckToBuf *)
(* for each frame of the batch, and stop at the first that is not taken.   *)
ReceiverGoto(r, s) == receiver' = [receiver EXCEPT ![r].pc = s]
BatchEnds(r) ==
  receiver' = [receiver EXCEPT ![r] = [pc |-> "idle", left |-> 0, buf |-> 0]]

RecordBatch(r) ==
  /\ receiver[r].pc = "idle"
  /\ mode = "RECORD"
  /\ \E n \in 1 .. MaxBatch :
       receiver' = [receiver EXCEPT ![r].pc = "frame", ![r].left = n]
  /\ UNCHANGED <<buffers, control, lock, recorder, page>>

(* There is a current buffer, and it is allocated.                         *)
CanWrite == \E b \in Buffer : current = b /\ filled[b] >= 0
CardFull == free - Capacity < total

FrameRefused(r) ==
  /\ receiver[r].pc = "frame" /\ lock = NoOwner
  /\ ~(CanWrite /\ ~CardFull)
  /\ page' = [page EXCEPT !.posted = @ \/ CanWrite]
  /\ BatchEnds(r)
  /\ UNCHANGED <<buffers, control, lock, recorder>>

TakenWhen(r, fits) ==
  /\ receiver[r].pc = "frame" /\ lock = NoOwner
  /\ CanWrite /\ ~CardFull
  /\ lock' = r
  /\ ReceiverGoto(r, IF fits THEN "put" ELSE "switch")
  /\ UNCHANGED <<buffers, control, recorder, page>>

(* Mutant: one frame too many.                                             *)
FrameSqueezed(r) == TakenWhen(r, index <= Capacity)

FrameTaken(r) == TakenWhen(r, index < Capacity)

(* The current buffer is full: the other one is taken if it is not pending.*)
(* Mutant: it is taken in any case.                                        *)
TakeOther(r) ==
  /\ receiver[r].pc = "switch"
  /\ IF current # 0
     THEN receiver' = [receiver EXCEPT ![r].pc = "turn", ![r].buf = Other(current)]
     ELSE ReceiverGoto(r, "restart")
  /\ UNCHANGED <<buffers, control, lock, recorder, page>>

TestOther(r) ==
  /\ receiver[r].pc = "switch"
  /\ IF current # 0 /\ ~full[Other(current)]
     THEN receiver' = [receiver EXCEPT ![r].pc = "turn", ![r].buf = Other(current)]
     ELSE ReceiverGoto(r, "restart")
  /\ UNCHANGED <<buffers, control, lock, recorder, page>>

TurnToOther(r) ==
  /\ receiver[r].pc = "turn"
  /\ current' = receiver[r].buf
  /\ ReceiverGoto(r, "hand")
  /\ UNCHANGED <<full, index, size, total, filled, control, lock, recorder, page>>

HandOver(r) ==
  /\ receiver[r].pc = "hand"
  /\ full' = [full EXCEPT ![Other(receiver[r].buf)] = TRUE]
  /\ total' = total + index
  /\ ReceiverGoto(r, "restart")
  /\ UNCHANGED <<current, index, size, filled, control, lock, recorder, page>>

(* Also when the other buffer is pending: then the current one is filled   *)
(* again from its beginning.                                               *)
Restart(r) ==
  /\ receiver[r].pc = "restart"
  /\ size' = index
  /\ index' = 0
  /\ ReceiverGoto(r, "put")
  /\ UNCHANGED <<current, full, total, filled, control, lock, recorder, page>>

FindBuffer(r) ==            \* the index is read again
  /\ receiver[r].pc = "put"
  /\ IF current = 0
     THEN BatchEnds(r) /\ lock' = NoOwner
     ELSE /\ receiver' = [receiver EXCEPT ![r].pc = "copy", ![r].buf = current]
          /\ UNCHANGED lock
  /\ UNCHANGED <<buffers, control, recorder, page>>

CopyFrame(r) ==
  LET b == receiver[r].buf
  IN /\ receiver[r].pc = "copy"
     /\ index' = index + 1
     /\ filled' = IF filled[b] \in 0 .. index
                  THEN [filled EXCEPT ![b] = index + 1] ELSE filled
     /\ lock' = NoOwner
     /\ IF receiver[r].left = 1 THEN BatchEnds(r)
        ELSE receiver' = [receiver EXCEPT ![r].pc = "frame", ![r].left = @ - 1]
     /\ UNCHANGED <<current, full, size, total, control, recorder, page>>

ReceiveStep(r) ==
  \/ FrameRefused(r) \/ FrameTaken(r) \/ TestOther(r) \/ TurnToOther(r)
  \/ HandOver(r) \/ Restart(r) \/ FindBuffer(r) \/ CopyFrame(r)

-----------------------------------------------------------------------------
(* RecordThreadProc.                                                       *)
RecorderGoto(s) == recorder' = [recorder EXCEPT !.pc = s]

RecordThreadBegins ==
  /\ recorder.pc = "created"
  /\ finished' = FALSE
  /\ RecorderGoto("loop")
  /\ UNCHANGED <<buffers, mode, free, stopping, handle, lock, receiver, page>>

FindPending ==              \* buffer 1 is looked at first
  /\ recorder.pc = "loop"
  /\ \E b \in Buffer :
       /\ Pending(b) /\ (b = 2 => ~Pending(1))
       /\ recorder' = [pc |-> "write", buf |-> b]
  /\ UNCHANGED <<buffers, control, lock, receiver, page>>

(* _Write2File, which is called with buffer 1 for both.                    *)
WriteBegins ==
  /\ recorder.pc = "write" /\ lock = NoOwner
  /\ lock' = Recorder
  /\ RecorderGoto("writing")
  /\ UNCHANGED <<buffers, control, receiver, page>>

WriteEnds ==                \* the file may not be writable
  /\ recorder.pc = "writing"
  /\ size' \in {0, size}
  /\ lock' = NoOwner
  /\ RecorderGoto("written")
  /\ UNCHANGED <<current, full, index, total, filled, control, receiver, page>>

FlagCleared ==
  /\ recorder.pc = "written"
  /\ full' = [full EXCEPT ![recorder.buf] = FALSE]
  /\ RecorderGoto("other")
  /\ UNCHANGED <<current, index, size, total, filled, control, lock, receiver, page>>

LookAtOther ==
  /\ recorder.pc = "other"
  /\ IF full[Other(recorder.buf)]
     THEN size' = index /\ RecorderGoto("loop")
     ELSE RecorderGoto("stop") /\ UNCHANGED size
  /\ UNCHANGED <<current, full, index, total, filled, control, lock, receiver, page>>

LookAtStop ==
  /\ recorder.pc = "stop"
  /\ RecorderGoto(IF stopping THEN "free" ELSE "loop")
  /\ UNCHANGED <<buffers, control, lock, receiver, page>>

FreeBuffers ==
  /\ recorder.pc = "free"
  /\ filled' = [b \in Buffer |-> -1]
  /\ RecorderGoto("finish")
  /\ UNCHANGED <<current, full, index, size, total, control, lock, receiver, page>>

RecordFinished ==
  /\ recorder.pc = "finish"
  /\ finished' = TRUE
  /\ RecorderGoto("reset")
  /\ UNCHANGED <<buffers, mode, free, stopping, handle, lock, receiver, page>>

ResetIndex ==               \* without the lock: a frame being copied may undo it
  /\ recorder.pc = "reset"
  /\ index' \in {0} \cup {index : r \in {r \in Receivers : receiver[r].pc = "copy"}}
  /\ RecorderGoto("close")
  /\ UNCHANGED <<current, full, size, total, filled, control, lock, receiver, page>>

RecordThreadEnds ==
  /\ recorder.pc = "close"
  /\ handle' = FALSE
  /\ RecorderGoto("none")
  /\ UNCHANGED <<buffers, mode, free, stopping, finished, lock, receiver, page>>

RecorderStep ==
  \/ RecordThreadBegins \/ FindPending \/ WriteBegins \/ WriteEnds
  \/ FlagCleared \/ LookAtOther \/ LookAtStop \/ FreeBuffers
  \/ RecordFinished \/ ResetIndex \/ RecordThreadEnds

-----------------------------------------------------------------------------
PageStep ==
  \/ StartRecord \/ UserStops \/ CancelQuits

PageRuns ==
  SetRecordMode \/ OnHandleRecordException \/ CancelRecordWave \/ StopRecordWave

Next ==
  \/ PageStep \/ PageRuns
  \/ \E r \in Receivers : RecordBatch(r) \/ ReceiveStep(r)
  \/ RecorderStep

Spec == Init /\ [][Next]_vars

Fairness ==
  /\ WF_vars(PageRuns)
  /\ \A r \in Receivers : SF_vars(ReceiveStep(r))
  /\ SF_vars(RecorderStep)

FairSpec == Spec /\ Fairness

-----------------------------------------------------------------------------
RecorderPc ==
  {"none", "created", "loop", "write", "writing", "written", "other", "stop",
   "free", "finish", "reset", "close"}
ReceiverPc ==
  {"idle", "frame", "switch", "turn", "hand", "restart", "put", "copy"}
PagePc ==
  {"monitor", "started", "dialog", "cancel", "cancelLeave", "cancelEnd", "stop",
   "stopSize", "stopTest1", "stopTest2", "stopFlag", "stopLeave", "stopEnd", "wait"}

ReceiverRecord == [pc : ReceiverPc, left : 0 .. MaxBatch, buf : 0 .. 2]
PageRecord ==
  [pc : PagePc, seen : 0 .. 2, posted : BOOLEAN, recordings : 0 .. MaxRecordings,
   begun : BOOLEAN]

(* Types; the buffers are never filled, nor a file written, beyond their   *)
(* size, although the page and the record thread set the fill level and    *)
(* the size without the lock.                                              *)
TypeOK ==
  /\ mode \in {"QUIT", "RECORD"} /\ current \in 0 .. 2
  /\ full \in [Buffer -> BOOLEAN]
  /\ index \in 0 .. Capacity /\ size \in 0 .. Capacity
  /\ total \in Nat /\ free \in Nat
  /\ stopping \in BOOLEAN /\ finished \in BOOLEAN /\ handle \in BOOLEAN
  /\ filled \in [Buffer -> -1 .. Capacity]
  /\ lock \in Receivers \cup {NoOwner, Recorder}
  /\ receiver \in [Receivers -> ReceiverRecord]
  /\ recorder \in [pc : RecorderPc, buf : Buffer]
  /\ page \in PageRecord

InLoop == {"created", "loop", "write", "writing", "written", "other", "stop"}

(* While the page shows the recording, the thread that began with it or    *)
(* was left over from the one before serves it, and the buffers exist: no  *)
(* stop or cancel of an earlier recording ends it.                         *)
RecordingServed ==
  page.pc = "dialog" /\ page.begun => recorder.pc \in InLoop /\ Allocated

(* The buffer that is being saved is not the one being filled, although    *)
(* the record thread decides which without the lock.                       *)
SavedNotFilled ==
  page.pc \in {"started", "dialog"} /\ recorder.pc \in {"write", "writing", "written"}
    => current # recorder.buf

(* A stop that waits with a buffer still to save, and a thread to save it, *)
(* returns, whichever receive thread or page left it.                      *)
StopWithPendingReturns ==
  page.pc = "wait" /\ recorder.pc # "none" /\ (\E b \in Buffer : full[b])
    ~> page.pc # "wait"
=============================================================================
