# HandSet: a TLA+ model of the relay tester's tests, its reception, its DSP and its optical power page

HandSet is a hand-held tester for digital substations (Windows CE on an ARM, with a DSP beside it). It sends sampled values (SMV) and GOOSE messages to a device under test and records what the device answers. This directory holds TLA+ modules of the parts of the program in which threads, messages and devices meet, the TLC configurations that check them on small instances, and proofs of the main theorems for every size. All source paths below are relative to `src/trunk/src`.

- [1. The system](#1-the-system)
- [2. Modules and their code](#2-modules-and-their-code)
- [3. What the runs check](#3-what-the-runs-check)
- [4. Bounds, fairness, deadlock](#4-bounds-fairness-deadlock)
- [5. What is proved](#5-what-is-proved)
- [6. Findings](#6-findings)
- [7. What is not modelled](#7-what-is-not-modelled)
- [8. Plan](#8-plan)

## 1. The system

| component | state it keeps | operations | acts on |
|---|---|---|---|
| send manager, `CFrameSend` (`service/datalayer/send`) | function type (none, manual test, state sequence), a send status for SMV and one for GOOSE, the result objects, the index of the current state, a mutex, three auto-reset cancel events | start, update and stop of the manual test for each kind; start and stop of a state sequence | send ports, GOOSE reception, DSP |
| ports, `CFrameSendNet`, `CFrameSendFt3` | control blocks bound to the port, frame buffers | prepare, send, change, stop | the FPGA driver |
| `CDsmDataLayer` | none of its own for the tests | begins one worker thread per start, update and sequence; calls the stops in the caller's thread | send manager, dialogs (messages) |
| test dialogs (`main/manual`, `main/statesequence`) | which kinds the user asked to send, whether a sequence runs | keys, results posted to them, the modal question whether to switch to the next state | `CDsmDataLayer` |
| filing of received values, `CParamConfigGOOSERecv::SetChannelRecvValue` | real-time values of the channels | one call for each received GOOSE frame, in the receive thread | result objects of the send manager, reception |
| DSP client, `CDsp` (`dspclient/dsp`) | static events, destination pointer, read thread | ask for a waveform and wait; send samples, times and settings | link to the DSP |
| DSP firmware (`dspsrc/DSM800/src/main.c`) | command and result buffers, two sample buffers, semaphores | four tasks of strict priority: receive, send, 40 ms and 200 ms calculations | link to the ARM |
| optical power, `COpticalPowerManager` and its page | gathering flag, stop event | start, stop, reset; a gather thread | ports |
| receive manager, recording (`service/datalayer/recv/FrameRecv.cpp`) | record mode, two buffers with a flag each, fill level, size to write, the record thread's handle, the lock `m_lockRecordWaveRealTimeBuf` | start, stop and cancel by the page; the receive threads of the ports fill; the record thread saves | SD card, the record page (a posted message when the card is full) |
| receive manager, statistics (`FrameRecv.cpp`, `DataFrameStatistics.h`, `DataGooseFrameStatistics.h`) | current and cached control block, page mode, the statistics of each control block with their locks | receive threads count frames; the page is entered, left, reset, turned to another control block | the statistics pages |
| hardware timer | timer device, expiry event | wait for a time or the cancel event | modelled by its outcomes |
| values, time stamps, parsing, SCL, configuration, other pages, applet, utilities | - | - | not modelled, see section 7 |

### How they interact

The user presses a key; the UI thread calls `CDsmDataLayer`, which begins a thread and sleeps 100 ms "so that the thread can copy its parameters". The thread calls the send manager. For SMV it asks the DSP for the samples of the virtual channels and waits up to a second. It frames the control blocks of each port, hands them to the FPGA, and at the end turns GOOSE reception on. Meanwhile the UI thread may call a stop, which sets a cancel event and spins until the status is no longer PREPARE. The receive thread looks up the last result object with each changed value and files it there. A state sequence frames all its states ahead and then sends them one by one, waiting for a timer, for DI values that the receive thread files, or for the user, whom it asks with `SendMessage`.

### What is hard

- Mutex, function type, send status and results are not protected alike: statuses are set and read without the mutex, the function type is read without it, and pointers to results are used after it was released.
- Cancelling is a set of auto-reset events, polled in the framing loops: a request can be taken by another poll or be left over.
- The stop waits with the mutex held.
- The UI thread pumps messages during one wait and not during another; the worker of a sequence is blocked in `SendMessage` until the UI thread gets messages.
- Ports are visited one after another; each may fail, also while stopping.
- The DSP has one command buffer, one result buffer and one count of releases; its tasks pre-empt each other.
- A request to the DSP can be given up, and its answer comes all the same.
- The recording has one lock, taken by those who copy a frame and by the one who writes the file; the page and the record thread's loop read and write flags, indices and sizes without it.
- Frames are judged by the last counter alone, which a reset, another page, another control block or a dropped batch may have left old.

`PROJECT.json` lists these hazards at their lines, with the properties that would catch each, or a note where the code does not keep what one would want there and no property of a passing run can say it.

### What makes each component correct

- Send manager: one thread frames a kind at a time; what is being sent belongs to a test in progress; a stop that reports success leaves no port transmitting; a cancel request does not outlive its stop; stops return; a sequence is alone, has a result for every state and gives the function type back last.
- Filing: values are filed in live objects, and reception is ended when no test runs and only then.
- DSP: each command is executed once and as received, and the input of the harmonics is a batch of consecutive samples (which the build that ships keeps only until a batch has overrun, section 6); no task waits for ever; losses of samples end; every flagged result is sent; a waveform goes to the request that asked for it.
- Optical power: one thread gathers; a stop that waits is answered; the stop returns.
- Recording: a recording that is shown is served by a thread, and its buffers exist, until it is stopped; the buffer being saved is not the one being filled; nothing is filled or written beyond its size; a stop with a pending buffer returns.
- Statistics: no error is shown that the network did not make; each gap the counters can tell is shown; fewer errors than frames are counted.

## 2. Modules and their code

### Send manager

`SendState` declares the constants, the state of the manager and of the threads around it, and the operators both tests share. `ManualTest`, `StateSequence`, `UserInterface` and `GooseReceive` add the handlers, and `FrameSend` composes them with `Init`, `Next`, the fairness and the properties. `MCFrameSend` gives the constants their values. `ManualSession` and `SequenceSession` are the abstract specifications that `FrameSend` implements: what the manual test promises for each kind, and what the state sequence promises.

| module | code | how it corresponds |
|---|---|---|
| `SendState` | `FrameSend.h`, `FrameSend.cpp`, `FrameSendNet.cpp` | one variable per field; `criticalFunctionType` is the owner of the mutex; `manualResults` is the vector of results, each with the worker that still fills it; `portOn` is what the hardware transmits |
| `ManualTest` | `StartManualTestSMV/Goose`, `UpateManualTestSMV/Goose`, `StopManualTestSMV/Goose` | a worker is a record with a program counter, kind, port, state and return code; a step is what the code does between two places where another thread can matter: the mutex, a poll, a port, a status |
| `StateSequence` | `StartStateSequenceTest`, `StopStateSequenceTest`, `CHardwareTimer::Wait` | preparation of each state, sending, the three kinds of wait, `ExitHandle` |
| `UserInterface` | the two dialogs, `CDsmDataLayer` | keys, toggles, posted messages and `SendMessage`; `ui.todo` are the calls a handler still has to make; `Spawn`, `WakeUp` are `AfxBeginThread` and the `Sleep(100)` |
| `GooseReceive` | `SetChannelRecvValue`, `LastManualTestResult`, `GetStateSequenceResult` | the receiver reads the function type, finds the object, and files the value in three steps |

SMV and GOOSE run the same steps, so that the handlers take the kind as a parameter; where the code differs, the module says so (the GOOSE start polls the event that cancels SMV after its own, `StartPolls`). The SMV start also asks for samples (`NotSampled`). The UTC time, the contents of the frames and the FPGA buffers are left out. `UpdateUnchanged` and `UpdateChanged` stand for the comparison of values that decides whether an update does anything. State 0 of a sequence starts all the ports in one step, because nobody can observe them one by one before the state counts as sent; when a port fails, the ports before it are on.

### DSP

`DspTasks` is the firmware: `receive`, `send`, `calc40`, `calc200` say where each task is, `sem` counts the semaphores, and the guards `~CanReceive`, `Calc40Runs`, `Calc200Runs` are the strict priorities of `loop.cdb` (13, 11, 10, 9). A task's code between two semaphore operations or sends is one step, which a task of higher priority cannot enter except where a step of its own begins. `LostPointMode` is the macro `_LOST_POINT_MODE`, which `main.c:23` defines, so that TRUE is the build that ships; FALSE is the alternative, in which `tskReceive` blocks while a complete batch waits. `Batch` is the number of frames of samples in one calculation (`nSmvCalcCount` over the samples of a frame); it is a constant, see section 7. `recvBuf` and `taskFlag` are the two globals a command leaves behind, `handed` is a history of the commands handed to `tskCalc40ms`, kept to state that they are executed. `swap`, `samples`, `cached` are the two buffers. `CommandService` is the abstract specification of the tasks: commands are executed one at a time and in order, a batch is whole, and while a complete batch waits the service either takes no command or, where it `Loses`, drops the samples. `DspClient` implements it with `Loses` for `LostPointMode`.

In lost-point mode each complete batch after the first turns to wait for the calculation before, done or not, and leaves one release of SEM7 too many (`Overruns`, `Surplus`). As long as no frame comes while `tskCalc40ms` has a command, the surplus does no harm; when one comes, it is received too early and overwrites the command. `pressed` is a history of exactly that: a frame was on the link while a command was handed over and not executed, after the first batch, in the lost-point build. `OwnCommand`, `BatchIntact` and the promise of `CommandService` (`overloaded`) end with it. They are not vacuous before: samples come, batches overrun, points are lost and buffers are swapped any number of times without it. What happens after it is the run `overwritten`.

`DspClient` adds the ARM side: the framing thread that makes a `CDsp`, asks, waits and destroys it; `ReadDataThread`, whose delivery is four steps (read, send event, copy, receive event); and the receive pages that send samples and other commands. An answer carries the number of its request in the model (`id`), which the code does not have; nothing in the actions looks at it. The link holds `LinkDepth` frames in each direction. The timeouts are choices: `WaitTimesOut` can happen whenever the event is not set.

### Optical power

`OpticalPower` models the gather thread, `StartGatherOpticalPower`, `StopGatherOpticalPower`, `Reset` and the page that calls them. Only the check of the flag at the thread's beginning takes the lock.

### Recording

`RecordWave` has three kinds of actors. The page starts (`StartRecord`, then `SetRecordMode`: the thread is created before the mode is set), stops (`StopRecordWave`, which reads the current buffer once for each comparison) and cancels (`CancelQuits`, `CancelRecordWave`), each with one action for each store, as no lock is held; `OnHandleRecordException` is the posted message of a full card. A receive thread handles a batch (`RecordBatch`) frame by frame: `FrameRefused` and `FrameTaken` are the checks of `_WritePckToBuf`, `TestOther`, `TurnToOther`, `HandOver` and `Restart` the change of the buffer, `FindBuffer` and `CopyFrame` the copy, which reads the index of the buffer again. The record thread is `RecordThreadProc` with `_Write2File`: it looks for a pending buffer, writes it under the lock, clears its flag, looks at the other flag and at last at the request to stop. `filled` says which of a buffer's frames are there, and -1 that it was freed. `page.begun` is a history: whether the recording began with a thread.

### Statistics

`FrameStatistics`: a handler of a port reads the mode and the current control block (`HandlerBegins`, or `HandlerSkips` on another page), caches the block (`SetCachedCtrlBlk`), and before each frame compares the cache with what it read (`StillCached`, `BatchDropped`). It then counts the frame, which came in order, after a loss, twice or late (`FrameInOrder`, `FramesLost`, `FrameRepeated`, `FrameLate`). `Verdict` is `ParsingSmpIndex` for SMV and `ParsingStSqNum` for GOOSE. The page's operations are `EnterPage`, `ResetKey`, `SelectItem`, `ClearCachedData`, `ResetLocks`, `ResetFrameStatistics`, `LeavePage` and `ModeQuits`. `since` is a history: what the network did wrong since the last reset, and how many of the gaps the counters can tell (`Evident`). `MCFrameStatistics` adds the symmetry.

### Modules of proofs

`FrameSendTypes` (types), `FrameSendProofs` (one framer, refinement), `FrameSendTestProofs` (the other invariants of the two tests, refinement of `SequenceSession`), `DspProofs` (firmware and types, refinement of `CommandService`), `DspWaveProofs` (waveforms), `OpticalPowerProofs`, `RecordProofs` and `StatisticsProofs`. Operators that come right before a definition with the comment "Mutant" are deliberately wrong versions of it; no specification uses them. They record which error each property detects.

## 3. What the runs check

Twelve runs. State counts are those of TLC with the bounds of section 4.

| run | states | what it shows |
|---|---|---|
| `manual` | 0.19 M | the manual test with two worker threads, two SMV ports and one GOOSE port: `TypeOK`, `OneFramer`, `FramingIsManualTest`, `RequestsWithdrawn`, `StoppedIsQuiet`, `SentInTest`, the refinement `ImplementsSession`, and `StopDuringUpdateReturns` |
| `sequence` | 0.07 M | the state sequence of two states: `SequenceExclusive`, `AllStatesHaveResults`, `NoTestIsQuiet`, the refinement `ImplementsSequence`, `StopSequenceReturns` |
| `receive` | 0.34 M | both dialogs in turn with GOOSE frames arriving: `ReceptionEnds` |
| `optical` | small | the light power page with three gather threads: `OneGatherer`, `StopAnswered`, `LoneStopReturns` |
| `dsp` | 1.4 M | the DSP as it is built (lost-point mode) with client and receive pages: `TypeOK`, `OneRelease`, `OwnCommand`, `BatchIntact`, `OwnWaveform`, `NoStall`, `LossEnds`, `EveryFlagCounted`, the refinement `ImplementsService` |
| `record` | 0.38 M | the recording with two receive threads: the card fills up or is pulled out, the user stops, a second recording follows: `TypeOK` (with the sizes of buffers and files), `RecordingServed`, `SavedNotFilled`, `StopWithPendingReturns` |
| `statistics` | 1.5 M | SMV and GOOSE statistics of two control blocks with one fault of the network: `TypeOK`, `NoFalseAlarm`, `LossesNoticed`, `ErrorsWithinFrames` |
| `stop_deadlock` | violation | `StopReturns` |
| `test_over` | violation | `TestOver` |
| `freed_result` | violation | `FiledInLiveObject` |
| `late_answer` | violation | `ResultOfRequest` |
| `overwritten` | violation | `CommandKept` |

Every property of a passing run has a mutant of the code that violates it.

Some properties are weaker than one would wish, because the code does not keep the stronger one:

- `StopDuringUpdateReturns` says that a stop returns when it interrupts an *update*; when it interrupts a start that fails, it does not (`stop_deadlock`).
- `StopSequenceReturns` excepts a sequence that ended with a port that could not be stopped: it leaves the function type at STATE_SEQUENCE for ever.
- `LoneStopReturns` excepts a second gather thread that has not begun yet. If the page is closed, opened and closed again before that thread ran, it sets the flag while the stop spins, the stop event is used up, and the UI thread waits for ever.
- `SentInTest` excepts the stop of that kind just before it sets its status.
- `OwnWaveform` holds while no request failed and the receive pages are silent: without these the DSP may answer a request twice, because two equal results between two runs of `tskSend` are one flag and two counts, and the second count sends `g_sendBuf` again.
- `OwnCommand` and `BatchIntact` hold, and `ImplementsService` promises something, until a frame is pressed in by a surplus release. Without that condition they do not hold in the build that ships: `CommandKept` is `OwnCommand` without it, and the run `overwritten` violates it. Built to block, no frame is ever pressed in (`BlockingIsNeverPressed`).
- `OneRelease` counts the releases of SEM7 and permits one surplus for each overrun, because the code makes it.
- `EveryFlagCounted` says that a flag has a count of SEM0, not the converse: a count without a flag sends the last frame again.
- `ReceptionEnds` says that reception outlives no test for good, not that the reception of a new test goes on (section 6).
- `ErrorsWithinFrames` is about the counting; a reset is one step because it holds the lock of the statistics, as the counting does.
- `ImplementsSequence` lets the state that others see (`m_iCurStateIndex`) be any state of the sequence before until the first one is sent: the code does not reset it (section 6).
- `RecordingServed` speaks of recordings that began with a thread: `CreateThread` may fail, and the handle is not initialised, so that it may not even be tried.
- `SavedNotFilled` speaks of the time the dialog is shown: a handler that began before the stop may fill a buffer while it is saved.
- `StopWithPendingReturns` excepts a stop with nothing pending: the record thread looks at the request to stop only after it saved a buffer.
- `LossesNoticed` counts evident gaps only, and holds while no frame came late: the counters cannot tell more (section 6).

## 4. Bounds, fairness, deadlock

**Bounds.** `MaxIndex` bounds `m_iCurStateIndex` and so the tests of a behaviour; with 1 there are up to two accepted starts or updates after each other, and every stop may overlap each of them. Two `Workers` are needed for two kinds at once or an update that overlaps a start; a third would wait for the mutex behind the others, and the proofs do not bound them. `MaxResults` is 2 (1 in `receive`) instead of 200, so that eviction happens. Two ports of a kind make "the first is on and the second fails" happen. A sequence of two states has a first state (start) and a later one (update). `receive` uses one worker, one port and one state, because it is a liveness check with four parties.

`Batch` is 2: order inside a batch and the start of the next one show; `MaxSamples` is 6 in `dsp`: three whole batches, the first of which starts at once, the second waits for the first, with points lost, and the third for the second. `MaxRequests` 2 gives a late answer its next request. `LinkDepth` is 1; more only delays. `MaxPage` bounds the other commands, and `MaxLoad` all commands together: six samples alone, or three with two requests and a reset. The same properties also pass in the blocking mode (0.9 M states), with `LinkDepth` 2 and nine samples, with `Batch` 1 and `LinkDepth` 3, and with `Batch` 3 and ten samples; the proofs have no bound. `overwritten` takes `Batch` 1, where the second sample leaves the surplus, and the fourth overwrites the third.

`record`: two receivers share the buffers, `Capacity` 2 makes them full after two frames, and `FreeSpace` 6 lets the card fill up during a recording, so that refusal and the posted message occur. `MaxBatch` is 1: a longer batch only lets one thread go on without a new look at the mode. Two recordings are needed for what one leaves to the next. `UserIsSlow` says that a key comes after the record thread began to run, and that threads have come to rest before the next recording begins: the dialogs are modal, the thread polls each 100 ms or less, and the page sleeps on the way. `TypeOK` is proved without it.

`statistics`: `Rate` 3 lets the counter wrap; two control blocks are a block left and chosen again; three keys are enter, leave, enter, or enter, select, reset; `MaxPublished` 3 bounds the frames when a batch begins, so that a batch of two and a gap may go beyond it. The properties also hold in larger instances with one control block (`Rate` 4, `MaxLoss` 4, two faults, five frames; 2.2 M states). `ReceiveFirst` says that the page does not change what is received in the middle of a handler: the receive threads have priority 108 and the user interface 251, and a smaller number goes first (`thread_priority.h` 16-19). Resets and leaving the page are not restricted by it.

**Symmetry** over control blocks is used in `statistics`, and symmetry over workers in the safety runs that find violations only; no liveness run uses it.

**Fairness** of `FrameSend`: weak for the UI thread's calls (they run when they can), strong for each worker step (a worker that needs the mutex competes with others; the CE scheduler gives it the mutex in the end when it is free again and again), weak for the user answering the question whether to switch, which is modal. The user's keys, the network and the timer's outcome are not fair. `ReceiveFairSpec` adds that received frames are handled, and that a frame has finitely many changed channels (strong fairness of `NoValueChanged`). In `OpticalPower` threads and calls are fair and the user is not. `RecordWave`: weak for what the page does by itself, strong for each receive thread's steps and for the record thread, which compete for a lock; the user, the driver and the card are not fair. The DSP modules and the statistics have no fairness; their properties are safety properties, and `NoStall` states the absence of a lost wake-up as an invariant.

**Deadlock** is not checked where the system really stops: manual tests end with the bound `MaxIndex`; the stop that waits with the mutex held is a real deadlock, and so is a sequence whose port could not be stopped; in the DSP runs the requests, samples and commands run out, in `record` and `statistics` the recordings, frames and keys; and a stop with nothing pending waits for ever. The optical power run checks it.

**The Sleep(100).** `SpawnWaits` says that a thread reaches the end of its first critical section before the call that began it returns. The runs and the proofs of the send manager assume it: the code has no other order between the two (`DsmDataLayer.cpp` 1587, 1655, 1752, 1820, 2145). Without it TLC finds `OneFramer`, `FramingIsManualTest` and `SentInTest` violated (a stop overtakes the start it should stop); the assumption is the code's own.

## 5. What is proved

TLAPS checks the following, for all values of the constants that satisfy the modules' assumptions. Every invariant of every passing run is among them, and so are the three refinements and the action property `StopAnswered`.

| theorem | statement | argument |
|---|---|---|
| `TypeCorrect` (`FrameSendTypes`) | `Spec => []TypeOK` | inductive with `CallPending`: while a call of the UI thread runs, `ui.todo` starts with it; one lemma per module, one step per action |
| `OneFramerAlways` (`FrameSendProofs`) | with `SpawnWaits`, `Spec => []OneFramer` | `OneFramer` alone is not inductive; `FramerInv` (lemma `FramerInvAlways`) adds `UiWaitsForEntry` (the UI thread sleeps until a begun thread has decided), `UpdateOfSending` (only what is sent is updated) and `StopAfterFraming` (a stop passes its wait only when nothing is prepared). `TypeOK` comes from `TypeCorrect` |
| `SessionImplemented` (`FrameSendProofs`) | with `SpawnWaits`, `Spec => ImplementsSession` | the framer of a kind is the worker in a framing step; every step maps to Begin, Finish, Stop or a stutter |
| `RequestsWithdrawnAlways` (`FrameSendTestProofs`) | `Spec => []RequestsWithdrawn`, with both dialogs | `RequestsOwned`: an event that is set belongs to the call of the UI thread that set it and has not returned |
| `FramingIsManualTestAlways`, `SentInTestAlways` | with `SpawnWaits` and no state sequences | `TestInv`, proved with `FramerInv`; `ManualAlone` says that no sequence runs |
| `StoppedIsQuietAlways` | the same | `PortsPassed`: the ports the stop has passed are off, and nobody turns one on, since the stop waited for the framing to end |
| `SequenceExclusiveAlways`, `AllStatesHaveResultsAlways`, `NoTestIsQuietAlways` | with state sequences only | `SequenceInv`: with `SequenceAlone`, the results counted by where the worker is (`Results`), and reception ended before the ports (`ExitIsQuiet`) |
| `SequenceImplemented` (`FrameSendTestProofs`) | with state sequences only, `Spec => ImplementsSequence` | `SequenceInv` is not enough: `FollowInv` adds that where the sequence waits others see the state it sent, that the state before is shown when the next one is sent, that reception runs while it sends, and that the receiver has found a test whenever it handles a frame, so that it does not stop the reception. Only the one worker in a sequence (`TheSequencer`) moves the abstract state |
| `OneReleaseAlways` (`DspProofs`) | both modes, `Spec => OneRelease` | the releases are counted where they can be (SEM7, SEM1, `tskCalc40ms`, SEM2, `tskCalc200ms`); each task's steps are shown to pass them on, and only the step that overruns makes one more |
| `OwnCommandAlways` | both modes | `Sound`. `SurplusInv`: there is a surplus only in lost-point mode after the first batch, and a frame that comes then to a task with a command has been recorded in `pressed`. Until then `HandedOver` ties the command to the one hand that has it, and `FullInv` says that a surplus waits with a complete batch only while points are lost |
| `BlockingIsNeverPressed` | without `_LOST_POINT_MODE`, `Spec => []~pressed` | from `SurplusInv`: for the blocking build the condition of the other theorems always holds |
| `EveryFlagCountedAlways` | both modes | a step adds at most one flag and posts SEM0, and the step that takes a count takes a flag if there is one |
| `DspTypeCorrect` | both modes | with `Handing` (as many commands are handed over as SEM1 and the task say, and there is room for the sample) and `FirstSend` (no result is sent before there is one) |
| `NoStallAlways`, `LossAlwaysEnds` | both modes | `StallInv` adds `Calculating`: after the first batch, SEM5 is posted or the calculation that will post it goes on |
| `BatchIntactAlways` | both modes | `BatchInv`, until a frame is pressed in: the samples on the link are numbered (a counting function over the link, `Numbered`), the buffer being filled ends where the link begins (`InOrder`), and the swapped buffer is complete; points are lost only behind a complete batch, so that none is missing in the middle of one |
| `ServiceImplemented` (`DspProofs`) | both modes, `Spec => ImplementsService` | the queue of the abstract service is the link, its current command is the one `HandedOver` finds in `recvBuf`, its batch is the buffer being filled and, once full, the full one until the swap (`Collected`); a batch counts as started when the buffers are swapped. `Sound` says why no command is taken in between, and why what is dropped comes while a complete batch waits; `BatchInv` says what is in the buffers. The step that presses a frame in maps to `Overload`, and so do all that come after it |
| `OwnWaveformAlways` (`DspWaveProofs`) | both modes | `Pipeline`: while nothing disturbed it, a request is at one of the places from the link to the DSP, over `tskCalc40ms`, the result flags and `g_sendBuf`, to the read thread, the INFO command sent before it stays ahead of it, and the two places determine the state of links, buffers and semaphores. In lost-point mode SEM7 can have more releases than commands, but only because of samples; while the pages are silent there are none (`NoSamples`), and the release is handed on as in the other mode (`Released`) |
| `OneGathererAlways`, `StopIsAnswered` (`OpticalPowerProofs`) | `Spec => []OneGatherer`, `Spec => StopAnswered` | `StopFindsGatherer`: between the check and the end of the wait there is a gatherer, and it does not end before it takes the event |
| `RecordTypeCorrect` (`RecordProofs`) | for any timing of the page | `IInv`: who is in the locked part owns the lock (`LockHeld`), and what a handler found before its next step still holds (`AllFound`): the room for the frame cannot shrink while the lock is held |
| `RecordingIsServed`, `SavedIsNotFilled` | with `UserIsSlow` | `Serving` (no request to stop while a recording is shown) and `Apart` (what is saved is pending, what is turned to is not, for every pair of receive threads) |
| `StatisticsTypeCorrect`, `ErrorsWithinFramesAlways` (`StatisticsProofs`) | always | `Within`: without a frame to compare with, nothing was counted |
| `NoFalseAlarmAlways`, `LossesNoticedAlways` | with `ReceiveFirst` | `HandlersFollow` and `ShownFollows`: while the page shows a block, its statistics are `Tracked`: they hold the last frame that was sent, or none |

The assumptions. `SpawnWaits`, `UserIsSlow` and `ReceiveFirst` are explained in section 4. That one dialog is open at a time is needed because with both a manual stop can end the function type of a running sequence (section 6). No theorem listed for the DSP assumes a build mode, except `BlockingIsNeverPressed`, which is about the other one.

Only model-checked: liveness (`StopDuringUpdateReturns`, `StopSequenceReturns`, `ReceptionEnds`, `LoneStopReturns`, `StopWithPendingReturns`), which TLAPS does not prove under fairness, and the violations.

## 6. Findings

Five disagreements between code and its comments have a run of their own; `PROJECT.json` quotes the comments.

- *The manual stop and a failing start wait for each other* (`FrameSend.cpp:2315`). The stop spins with the mutex held until the status leaves PREPARE; the failure path of the start needs the mutex before it changes the status.
- *A manual test that is over and does not end* (`FrameSend.cpp:2186`). Both starts fail together, each sees the other still PREPARE, the function type stays MANUAL_TEST, and no sequence can start.
- *A value filed in a deleted result* (`FrameSend.cpp:2035`). The mutex protects reading the pointer, not its use.
- *A waveform of another request* (`Dsp.cpp:265`). The answer to a request that timed out completes the next one.
- *A command overwritten before it is executed* (`main.c:418`). In lost-point mode SEM7 is posted twice for the command that completes a batch that has to wait; with the second release `tskReceive` receives while `tskCalc40ms` still has a command to execute.

Further behaviours that the model shows, or that were met while modelling, and that have no run of their own.

Tests:

- The reception of a new test is stopped (`ParamConfigGOOSERecv.cpp:395`): the function type is read before and used after the test began.
- `SendGooseCbs` polls the event that cancels SMV (`FrameSendNet.cpp:657`): a stop of SMV can cancel a GOOSE start, and the SMV start it was meant for goes on.
- A manual stop after a rejected or failed start ends the function type of a running state sequence (`FrameSend.cpp:2348`).
- Ports that were started before the one that failed stay on (`FrameSend.cpp:300`, the comment there says all are stopped).
- An update that changes nothing evicts the oldest result at the limit (`FrameSend.cpp:1800`, 2273); the object may be one that a thread of the other kind still fills (1788).
- A value received before the first state of a sequence is sent is filed under a state of the test before, because `m_iCurStateIndex` is not reset.
- A state that cannot be sent ends the sequence with ERROR_CODE_SUCCESS (`FrameSend.cpp:1479`).
- `WM_STATUS_SEQUENCE_RESULT` of one sequence can clear `m_bTesting` of the next.
- A gather thread that begins after the stop looked at the flag gathers on with the page closed; a reset can stop gathering without starting it again.

DSP:

- A result that is flagged twice before `tskSend` runs is one flag and two counts of SEM0: the last frame in `g_sendBuf` is sent again (`main.c:635`).
- The read thread may copy an answer to the buffer of a request that timed out and whose caller has returned (`Dsp.cpp:279`).
- `fFirstCalc` of `MsgDispHelper` is not static (`main.c:235`): the lost-point code for times never runs.
- `g_resFlag` is set before `g_resLength` (`main.c:691`): a send task that pre-empts in between sends a result of length 0. The model sets flag, length and count at once, so `EveryFlagCounted` is about whole results.

Recording (`FrameRecv.cpp`):

- The second buffer is never saved: `_Write2File` is called with buffer 1 for both (8235).
- A stop can wait for ever: with nothing pending; when the record thread clears the flag between the stop's last two stores; when there is no record thread, since `CreateThread` may fail and `m_hRecordThread` is not initialised.
- When the current buffer is full and the other one still pending, the current one is filled again from its beginning.
- The size to write is one variable: a change of buffers or a stop overwrites it while the buffer before is still pending, and that file is cut or gets more than it has. A file that cannot be opened leaves it as it is (8297).
- After a stop the thread frees the buffers while a handler that began before may still copy into them. With more receive threads and longer batches than a buffer has room for, such handlers fill the buffer that is being saved.
- The record thread can finish with a flag still set (a comment at `FrameRecv.h:1590` has it otherwise); the next recording then begins with a pending buffer.
- `CancelRecordWave` leaves the thread spinning, and does not reset the fill level; `m_nTotalRecordSize` is never reset, so that a later recording finds the card full earlier.

Statistics:

- `ResetData` of GOOSE sets `m_nSqNum` twice and `m_nStNum` never (`DataGooseFrameStatistics.h:196`).
- A new stNum is compared with the last sqNum (`DataGooseFrameStatistics.h:237`, `nStNum == m_nSqNum + 1`; the comment at 239 says that stNum is normal): losses at a change of state are mostly not counted, and an old frame may be counted as lost instead of misordered.
- A gap over the wrap of the sample counter is told as a misorder or a repetition, or not at all when it ends at 0.
- sqNum and stNum that wrap to 1, as the standard has it, are counted as misordered.
- Without the priority of the receive threads a batch that is dropped right after a reset is shown as a loss.

## 7. What is not modelled

- The rest of the receive manager: detection of control blocks, phase check, oscillogram, and the thread that sends samples to the DSP (`DspClient` has its outcomes, the samples on the link). The start and stop of the receive threads: `recvOn` and the receivers stand for them. The builds with one record buffer.
- In the statistics: time stamps, time-to-live, quality, the list of GOOSE changes, and frames with several ASDUs. The code judges each ASDU of a frame by the same counter (`FrameRecv.cpp` 7285, 7319) and counts the frame once; the model has one counter for each frame, so `ErrorsWithinFrames` is about frames of one ASDU.
- `CHardwareTimer` beyond the outcomes of its wait. An expiry left in the event by a cancelled wait ends the next wait early, which is covered because the timer may expire at any time in the model. The FT3 port differs from the network port only in the frames (`FrameSendFt3.cpp` polls the same events).
- The values kept in a result (`ChannelRecvValues`, `StateTestResult`): at most three values of a channel are kept. What is hard there is not in the model: `NextHistoryData` is given a pointer whose object may have been evicted, and then ends the listing early or, when the address was used again, leaves values out; the report page reads values after the lock is released (`main/record/dsmrecord_send.cpp:1226`); `GetChangeTimes` reads without it. The life of the result object itself is modelled (`freed_result`).
- Contents: frames, samples, dispersion and harmonics, GOOSE and SMV parsing, SCL and configuration files. They are sequential code on data, with no state between calls that the tests depend on, and most of their behaviour is the layout of bytes and files.
- `StopRead`, `CDspDataSet`, the STOP_READ and QUIT commands, the two DSP tasks that are created and never given work; `CheckSend`'s timeout cannot happen with one framer at a time, because each `CDsp` creates its event set. Samples that do not fit the buffer (`MAX_SMV_CALC_COUNT`) are dropped by the code; the model's batches divide the buffer.
- CONFIG may change the sampling rate and with it the length of a batch (`main.c` 172, 322), also in the middle of a batch. `Batch` is a constant in the model, so it covers the CONFIG commands that leave the rates alone; those that change them are outside its properties.
- In lost-point mode a command may be overwritten while `tskCalc40ms` copies it; the model takes the copy as one step.
- Other pages of the user interface, applet, utilities, vendored code, the older copy `dspclient1`.

The mapped definitions stand for a small part of the repository's lines. Most of the rest is parsing, configuration, dialogs, XML and library code, where a model would repeat the code and no property would relate two steps of it.

## 8. Plan

Done: the tests with their proofs and their two abstract specifications, the DSP in both build modes with its command service, optical power, the recording, the statistics. What would come next:

1. *Model.* The values of a result with their history, read by the report page while the receive thread files and evicts. The detection of control blocks, which shares the handlers and the cached control block with the statistics. The start and stop of the receive threads, to replace `recvOn`.
2. *Abstract specifications.* A request/answer service that the DSP client implements while nothing disturbs it (`Pipeline` is the mapping), and a recorder that saves what it received, implemented by `RecordWave` under `UserIsSlow`.
3. *Fixes.* Each finding can be tried in the model first: setting STOPPED before the mutex is asked for (`stop_deadlock`, `test_over`), keeping the mutex while a value is filed, numbering the requests to the DSP, posting SEM7 once per batch. The violated property of the run is then the goal, and the proofs show what else must still hold.
