--------------------------- MODULE UserInterface ---------------------------
(***************************************************************************)
(* The UI thread: the manual test dialog (CManualSmvGooseSendDlg) and the  *)
(* state sequence dialog (CStateSequenceDlg), the calls they make to       *)
(* CDsmDataLayer, which starts a worker thread for each but the stops, and *)
(* the messages they get back.                                             *)
(***************************************************************************)
EXTENDS StateSequence

Operation == {"start", "update", "stop", "sequence", "stopSequence"}
Call(op, k) == [op |-> op, kind |-> k]

(* GetMessage: no handler is running.  It gives messages sent and posted   *)
(* by other threads before the user's keys.                                *)
UiFree == ui.pc = "loop" /\ ui.todo = <<>> /\ ~ui.asking
Key    == UiFree /\ ui.posted = {} /\ ~ \E w \in Workers : At(w, "ask")

(* Bounds: threads alive at the same time, and tests in a behaviour.       *)
IdleWorkers(n) == Cardinality({w \in Workers : At(w, "idle")}) >= n
MayTest        == curStateIndex < MaxIndex

UiOnly == UNCHANGED <<manager, event, device, worker, receiver>>

-----------------------------------------------------------------------------
(* The send key of kind k.  m_dwSendStatus toggles before the call is made *)
(* and says what the user asked for, not what the manager does.            *)
StopApart(k) ==
  /\ Key /\ ui.page = "manual" /\ ui.mode = "APART" /\ k \in ui.sending
  /\ ui' = [ui EXCEPT !.sending = @ \ {k}, !.todo = <<Call("stop", k)>>]
  /\ UiOnly

StartApart(k) ==
  /\ Key /\ ui.page = "manual" /\ ui.mode = "APART" /\ k \notin ui.sending
  /\ MayTest /\ IdleWorkers(1)
  /\ ui' = [ui EXCEPT !.sending = @ \union {k}, !.todo = <<Call("start", k)>>]
  /\ UiOnly

StopTogether ==
  /\ Key /\ ui.page = "manual" /\ ui.mode = "TOGETHER" /\ ui.sending # {}
  /\ ui' = [ui EXCEPT !.sending = {},
                      !.todo = <<Call("stop", "SMV"), Call("stop", "GOOSE")>>]
  /\ UiOnly

StartTogether ==
  /\ Key /\ ui.page = "manual" /\ ui.mode = "TOGETHER" /\ ui.sending = {}
  /\ MayTest /\ IdleWorkers(2)
  /\ ui' = [ui EXCEPT !.sending = Kind,
                      !.todo = <<Call("start", "SMV"), Call("start", "GOOSE")>>]
  /\ UiOnly

(* A value was edited while the kind is shown as sending.                  *)
ModifyValue(k) ==
  /\ Key /\ ui.page = "manual" /\ k \in ui.sending
  /\ MayTest /\ IdleWorkers(1)
  /\ ui' = [ui EXCEPT !.todo = <<Call("update", k)>>]
  /\ UiOnly

SetStartMode ==             \* ID_MENU_MANUAL_SET, enabled when nothing is sent
  /\ Key /\ ui.page = "manual" /\ ui.sending = {}
  /\ ui' = [ui EXCEPT !.mode = IF @ = "APART" THEN "TOGETHER" ELSE "APART"]
  /\ UiOnly

(* Only the two TOO_MANY codes clear the toggle; other failures do not.    *)
OnManualTestResult(k) ==
  /\ UiFree \/ (ui.pc = "pump")
  /\ k \in ui.posted
  /\ ui' = [ui EXCEPT !.posted = @ \ {k}, !.sending = @ \ {k}]
  /\ UiOnly

-----------------------------------------------------------------------------
(* The test key of the state sequence dialog.                              *)
StartSequence ==
  /\ Key /\ ui.page = "sequence" /\ ~ui.testing
  /\ IdleWorkers(1)
  /\ ui' = [ui EXCEPT !.testing = TRUE, !.todo = <<Call("sequence", "SMV")>>]
  /\ UiOnly

StopSequence ==
  /\ Key /\ ui.page = "sequence" /\ ui.testing
  /\ ui' = [ui EXCEPT !.testing = FALSE,
                      !.todo = <<Call("stopSequence", "SMV")>>]
  /\ UiOnly

OnTestCompleted ==
  /\ UiFree \/ (ui.pc = "pump")
  /\ "STATE_SEQUENCE" \in ui.posted
  /\ ui' = [ui EXCEPT !.posted = @ \ {"STATE_SEQUENCE"}, !.testing = FALSE]
  /\ UiOnly

(* SendMessage from the worker reaches the dialog when the UI thread gets  *)
(* messages; the handler runs a modal dialog until the user confirms.      *)
OnWhetherSwitch(w) ==
  /\ UiFree \/ (ui.pc = "pump" /\ ~ui.asking)
  /\ At(w, "ask")
  /\ ui' = [ui EXCEPT !.asking = TRUE]
  /\ Goto(w, "asked")
  /\ UNCHANGED <<manager, event, device, receiver>>

ConfirmSwitch(w) ==
  /\ ui.asking /\ At(w, "asked")
  /\ ui' = [ui EXCEPT !.asking = FALSE]
  /\ Goto(w, "answered")
  /\ UNCHANGED <<manager, event, device, receiver>>

(* ESC leaves a dialog only when it shows no running test.                 *)
ShowPage ==
  /\ Key
  /\ IF ui.page = "manual" THEN ui.sending = {} ELSE ~ui.testing
  /\ \E page \in Dialogs \ {ui.page} : ui' = [ui EXCEPT !.page = page]
  /\ UiOnly

-----------------------------------------------------------------------------
(* The calls to CDsmDataLayer.  A start, an update or a sequence begins a  *)
(* thread and sleeps so that the thread can copy its parameters.           *)
Pending(ops) == ui.pc = "loop" /\ ui.todo # <<>> /\ Head(ui.todo).op \in ops

Spawn(w) ==
  /\ Pending({"start", "update", "sequence"})
  /\ At(w, "idle")
  /\ worker' = [worker EXCEPT ![w] = [IdleWorker EXCEPT !.pc = Head(ui.todo).op,
                                                  !.kind = Head(ui.todo).kind]]
  /\ ui' = [ui EXCEPT !.pc = "sleep", !.spawned = w]
  /\ UNCHANGED <<manager, event, device, receiver>>

SpawnFails ==               \* AfxBeginThread fails; the dialogs do not look
  /\ Pending({"start", "update", "sequence"})
  /\ UiReturn
  /\ UiOnly

WakeUp ==
  /\ ui.pc = "sleep"
  /\ SpawnWaits =>
       worker[ui.spawned].pc \notin {"start", "update", "updatePrepare", "sequence"}
  /\ ui' = [ui EXCEPT !.pc = "loop", !.todo = Tail(@), !.spawned = NoThread]
  /\ UiOnly

CallStop ==
  /\ Pending({"stop", "stopSequence"})
  /\ UiGoto(Head(ui.todo).op)
  /\ UiOnly

UiInit == \E page \in Dialogs, mode \in {"APART", "TOGETHER"} :
  ui = [pc |-> "loop", port |-> 1, todo |-> <<>>, page |-> page, mode |-> mode,
        sending |-> {}, testing |-> FALSE, asking |-> FALSE, posted |-> {},
        spawned |-> NoThread]

KindStep(k) ==
  StopApart(k) \/ StartApart(k) \/ ModifyValue(k) \/ OnManualTestResult(k)

DialogStep ==
  \/ StopTogether \/ StartTogether \/ SetStartMode
  \/ StartSequence \/ StopSequence \/ OnTestCompleted \/ ShowPage

ThreadStep(w) == OnWhetherSwitch(w) \/ ConfirmSwitch(w) \/ Spawn(w)

CallStep == SpawnFails \/ WakeUp \/ CallStop

UiStep ==
  \/ \E k \in Kind : KindStep(k)
  \/ DialogStep
  \/ \E w \in Workers : ThreadStep(w)
  \/ CallStep
=============================================================================
