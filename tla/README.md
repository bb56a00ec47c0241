# EGoTouchRev in TLA+

EGoTouchRev is a user-mode driver service for a Himax touch controller and an
active pen on Windows on ARM64. A service process owns the controller, turns its
raw frames into touches and pen positions and reports them as HID input; a
diagnostic App watches it through a named pipe and shared memory.

This directory holds TLA+ models of the service, the TLC configurations that
check them, and proofs for TLAPS. File and line references are to `src/`.

- [Inventory](#inventory): the parts of the system
- [Plan](#plan): the modules and how they compose
- [The modules](#the-modules): what each models and how it corresponds to the code
- [The runs](#the-runs): what TLC checks, with which bounds
- [The proofs](#the-proofs): what TLAPS checks, from which assumptions
- [What the models found](#what-the-models-found)
- [What is not modelled](#what-is-not-modelled)

To check: `tlc -workers 2 -config RuntimeMonitor.cfg MCDeviceRuntime.tla` (and so
on for the pairs listed under *runs* in `PROJECT.json`), and `tlapm
DeviceRuntime_proofs.tla`.

## Inventory

| Component (source) | State it keeps | Operations | Hard behaviours | What makes it correct |
|---|---|---|---|---|
| **Device runtime** (`EGoTouchService/Device/runtime`) | `m_running`, `m_stopReason`, `m_state`, `m_thread`, `m_cmdQueue`, recovery and error counts, debounce | `Start`, `Stop`, `IngestSystemEvent`, `SubmitCommand`; the worker's `WorkerMain` with one handler per phase | three threads write the same atomics as the worker without a common lock; one-slot stop reason; a thread that may be joinable when it is assigned | frames only from a controller that is up; a sleep takes effect; `Stop` returns; a wake is not undone; restarts never end the process |
| **Himax chip** (`Device/himax/HimaxChip.cpp`) | connection state, frame buffers, read policy, idle counters | `Init`, `Deinit`, `HoldReset`, `GetFrame`, `CancelPendingFrameRead` | bring-up that stops half-way; master and slave parts of one frame read at different times; idle entry against touch wake-up; cancelling a pending read | frames are read only after a complete bring-up; parts of a frame belong together; idle only after quiet; sleep is prompt |
| **Himax bus protocol** (`HimaxProtocol.cpp`) | device handles, overlapped events | register reads and writes, `WaitInterrupt`, `CancelPendingIo` | a cancel that comes before the read | a pending wait ends on stop |
| **AFE controller** (`HimaxAfe.cpp`) | `StylusState`: switch request, cooldown, BT heartbeat, debounce | `SendCommand` and its handlers, `ProcessStylusStatus`, `UpdateBtHeartbeat` | `uint32_t` frame numbers that wrap; a request whose command fails or is dropped; pens that come and go meanwhile | requests heal and stay apart; a new pen starts fresh; the service's queued switch is the outstanding one |
| **System state monitor** (`Host/SystemStateMonitor.cpp`) | named manual-reset events, worker thread | `Start`, `Stop`, the wait loop and its callback | an event signalled again during its callback is reset unseen; index order, not time order | no event is lost |
| **Service host** (`source/ServiceHost.cpp`) | the modules, debug mode, configuration | `Start`, `Stop`, the pipe's command handler | teardown while the worker still runs; configuration reload during a frame | nothing is used after its teardown |
| **Service shell** (`source/ServiceShell.cpp`) | service status, stop event | `SvcMain`, `SvcCtrlHandlerEx` | control codes on another thread | a stop request ends the service |
| **IPC pipe** (`Common/source/IpcPipe*.cpp`) | one pipe instance, server thread | `Start`, `Stop`, `ServerLoop`; `Connect`, `Send` | blocking connect and read while stopping | `Stop` returns |
| **Frame channel** (`Common/source/SharedFrameBuffer.cpp`, `ServiceProxy.cpp`, `ConcurrentRingBuffer.h`) | the shared frame, `frameId`, `lockFlag`, frame event, `m_latestFrame`, DVR ring | `Write`, `Read`, `PollLoop`, `GetLatestFrame`, `PushOverwriting`, `GetSnapshot`, `Connect`, `Disconnect` | two processes, no lock the writer respects, weak memory order | a shown frame is recent and complete; none is missed for good; the ring keeps order |
| **Config dirty flag, GUI log sink** (`Common/include`) | shared flag; queue of log lines | `SetDirty`, `CheckAndClear`; `PushRaw`, `DrainNewLines` | lines drained but not sent | display only |
| **BT MCU channels** (`Device/btmcu`, `penevt`, `penpress`) | transports, handshake, newest pressure report | read loops, acknowledgement, `RunHandshake`, `GetPressureStats` | reports on two threads of their own | reports are acknowledged once, in order |
| **Touch frame pipeline** (`Engine`) | baselines, filters, thresholds | sequential per-frame processing | numeric | floating point, see below |
| **Stylus solver** (`Engine/StylusSolver`) | coordinate and tilt filters, life cycle, pressure history | `Process`, `SetBtMcuPressure`; `FindPeak`, `ProjectTo1D`, `Solve` | early returns that leave some filters as they were; a scan whose visited cells hide others; sums beyond 16 bits | each visit of the pen starts over; the peak is one of a region that is no noise; the coordinate lies where the peak is |
| **Touch tracking and gestures** (`Engine/Reporting`) | track ids, slots, gesture phases | `TouchTracker::Process`, `TouchGestureStateMachine::Process` | ids at the limit of the pool; contacts that vanish | live ids are distinct; Down, Move and Up alternate |
| **VHF reporter** (`Device/vhf`) | device handle, last state | `Dispatch`, `Reopen` | reporting that stops while a contact is down | every contact is lifted |
| **Kernel driver** (`KernelDriver`) | protocol information, last AFE command | IOCTL handlers | sequential queue | lengths are checked |
| **App workbench, test tools, installer, spdlog** | - | drawing, export, diagnosis, packaging, logging | - | - |

How they interact: `ServiceHost` starts the pipe server, the monitor, the pen
bridge and the runtime, each with threads of its own, and hands them callbacks.
The monitor calls `DeviceRuntime::IngestSystemEvent` on its thread. The pipe
thread calls `Start` and `Stop` for the App's `StartRuntime` and `StopRuntime`.
The pen threads queue commands with `SubmitCommand` and leave pressure reports
that the worker fetches on every frame. The worker is the only thread that
touches the chip, except for cancellation; it executes the queued commands,
reads frames, lets `AfeController` look at the status table, and calls the frame
callback that writes the shared memory the App polls.

The hazards that follow are in `PROJECT.json`, each at its line, with the
properties that would catch it or the reason why none does yet.

## Plan

The control of the device comes first, then the two places where its data
cross a thread or a process, then what the service reports.

| # | Module | Models | State |
|---|---|---|---|
| 1 | `DeviceRuntime` | the worker and the threads that control it | checked, proved |
| 2 | `RuntimeLifecycle` | abstract: what the runtime promises about phase and controller | `DeviceRuntime` refines it |
| 3 | `FrameChannel` | shared frame, poll thread, window, DVR ring | checked, proved |
| 4 | `AfeStylus` | frequency tracking of a pen | checked, proved |
| 5 | `ChipFrame` | bring-up, 2:1 reading of master and slave, idle entry and exit, cancellation of a pending read; abstract: `ChipOutcomes` | checked, proved; refines `ChipOutcomes` |
| 6 | `Touch` | track ids, gesture slots, HID packets; abstract: `TouchStrokes` | checked, proved; refines `TouchStrokes` |
| 7 | `StylusWindow` | peak search and coordinate of a window, against a declarative definition | checked as part of `Stylus`, proved |
| 8 | `Stylus` | the frames of the pen: their windows, the filters, life cycle and pressure | checked, proved; composed with `StylusWindow` |
| 9 | `ServiceHost` | start and stop of the process: SCM, monitor, pipe, pen channels | checked, proved |

Compositions: `DeviceRuntime` takes the chip by its outcomes and `AfeStylus` the
runtime by its loop, so that each stays within reach; `ChipFrame` refines
`ChipOutcomes`, the outcomes that `DeviceRuntime` takes the chip's operations for.
`ServiceHost` is the process around the runtime and takes it for one flag, that it
exists; `DeviceRuntime` takes the monitor for events that come one at a time in any
order, which is what `ServiceHost`'s monitor does. `Stylus` extends `StylusWindow`: its
frames are windows one after the other, each scanned and solved by the steps of
`StylusWindow`, and `FramesScanWindows` says that nothing else touches them.

What could follow: the touch pipeline's integer steps (peaks and zones), whose
inputs are floating point today, and the handshake of the BT MCU, should the code
come to wait for its answers.

## The modules

Each module declares its constants and their named assumption, its
variables with the field each stands for, one action per step of the code, and
the properties at its end. The few operators marked *Fault* are plausible bugs:
none is used by `Next`; each takes the place of the definition after it to see
that a property notices.

**`DeviceRuntime`** (`DeviceRuntime.cpp`, with the calls it makes into the chip and
receives from `ServiceHost`). The worker's position is `wpc`, that of the control
threads `pc`: *host* (`ServiceHost::Start` and `Stop`), *mon* (the monitor's
callback) and *ipc* (the pipe thread). Every access to `m_state`, `m_stopReason`,
`m_running` or `m_thread` is a step; they are sequentially consistent atomics,
so the steps interleave. A field that only the worker touches changes in the step
of the neighbouring access. `Chip::Init`, `HoldReset` and `Deinit` appear by their
outcomes: `chip` says what the controller itself is in, `conn` what `m_connState`
says, and a bring-up that fails may leave the controller reset with `conn`
unchanged, as the code does. `thread` has three values because a thread that
returned is still joinable, and `OnQuit` and `WorkerReturns` are two steps: in between,
`m_running` says stopped while the worker lives (`DeviceRuntime.cpp:223` to 225), and a `Start`
may already come. A sleep shorter than the debounce and the 500 ms
recovery wait become nondeterminism. Start-up begins with `host` in `Start`; an
IPC `StartRuntime` is the call at `ServiceHost.cpp:394`.

**`RuntimeLifecycle`** is what a user of the runtime may rely on: which phase may
follow which, and that streaming is entered only over a controller that is up,
and never loses it. It begins from the state diagram in
`docs/architecture_redesign.md` and adds the edges the diagram leaves out.
`DeviceRuntime!Lifecycle` maps `phase` to `m_state` and `up` to the controller.

**`FrameChannel`** (debug builds; `SharedFrameBuffer.cpp`, the frame path of `ServiceProxy.cpp`,
`ConcurrentRingBuffer.h`). A frame's content is its number and it is copied block
by block, in any order. The build targets ARM64, and the model has its store
order: the plain stores and the relaxed increment of `frameId` after the release
store of `lockFlag = 1` become visible in any order with it (`LockVisible`,
`BlockVisible`, `IdVisible`), and only the release store of `lockFlag = 0` waits
for them (`WriteUnlock`). The reader's loads of `lockFlag` and `frameId` acquire.
`m_hasNewFrame`, `m_frameMutex`, the auto-reset event and the ring are modelled
as the code uses them; that `Read` looks up `contactCount` again in each turn of its copy
(`SharedFrameBuffer.cpp:323`) is left out, as [below](#what-is-not-modelled); `delivered` is a history of what was pushed.

**`AfeStylus`** (`HimaxAfe.cpp`, with the loop and the providers that feed it). The
frame pipeline `Heartbeat`, `Counted`, `SilenceChecked`, `Confirmed`, then one of
the four cases of `Processed`, follows `UpdateBtHeartbeat` and
`ProcessStylusStatus` in their order, early returns included. Frame numbers are
`0 .. Wrap - 1` and ages are differences modulo `Wrap`. The status table is
arbitrary on every frame, which covers the frames of the slave alone that repeat
it. A command in the queue has the source that `SubmitCommand` is told: the pen's
connections and the service's own switches (built in `ProcessStylusStatus` and
submitted by the loop) are *SystemPolicy*, and what the App sends by `AfeCommand`
(`ServiceHost.cpp:383`) is *External*: `AppCommand` queues any of `AppTypes`, at any time. Both kinds of
`ForceToFreqPoint` run the same handler. A report of the BT MCU is its first frequency,
the only one the decisions compare, and whether either is there, because `UpdateBtHeartbeat`
ignores a report only if both are 0. `switchPolicy` is left out (2 exactly while a pen is
connected).
`sinceSwitch` and `silent` are histories that count real frames, so that the
properties do not speak the code's modular arithmetic.

**`ChipFrame`** (`HimaxChip.cpp`, `HimaxProtocol.cpp`, and as much of the worker's loop
as decides when the chip is used). `pc` is the worker's position. `Init` is the
sequence `InitSteps` of what it does to the reset line, the raw output of each
device, the two channels, the read policy and `m_connState`; `InitFails` is an early
return at any of them, and leaves behind what was done before. `GetFrame` begins
a read (`BeginFrame`), hands it to the driver (`ReadIssue`), and it succeeds, is tried
again or fails; the 2:1 interleaving is `ReadNext`, and what follows a complete
frame, the count of empty frames and idle entry, is one step (`FinishFrame`), as only
the worker looks at it. `EnterIdle` and `NotifyTouchWakeup` may stop half-way: the
policy of one device changed, of the other not. A display-off event is two steps of
the monitor's thread, `SleepCancel` and `SleepStore`. `back_data` is what the code
asks of it: a finger, a pen. `masterAge`, `fresh`, `quiet` and `late` are histories.
As in the code, `Init` resets neither `afe_mode`, nor the idle count, nor the
parity of the frame counter, and recovery calls it with the channels still open.

**`ChipOutcomes`** is what `Init`, `HoldReset` and `Deinit` come to for their caller.
`DeviceRuntime` has exactly these outcomes in its actions of the same names, and
`ChipFrame!Outcomes` maps the reset line and the completed bring-up to `chip`.

**`Touch`** (`TouchTracker.cpp`, `TouchGestureStateMachine.cpp`, `VhfReporter.cpp`). One
frame is three steps of the worker, `Track`, `Gesture` and one of the dispatch
actions; `SetEnabled` comes from the pipe's thread between any two. `Track` is all of
`Process`: matched tracks go on, new contacts take ids in the order of
`AllocateId`'s scan from the seed (`ScanRank`, `NewIds`), missed ones age, are
lifted once and then dropped. Which contact matches which track is a choice, and
so are the offset of a contact from its anchor and the stability of a press:
these are the outcomes of comparing floating point coordinates. `Gesture` is all of
the machine's `Process`: `UpdateSlot` for every id with a contact and every id
without, then the reports, then the expiry of releases. `WriteContacts` cuts the
list at two packets, Ups last, and each packet may fail; `host` is what the
HID host believes. An Up of the tracker does not reach the host as such: the
gesture machine ignores lifted contacts and reports its own.

**`TouchStrokes`** is what a HID host may rely on: an id is pressed, is in every frame
while it is down, and is lifted exactly once before it is pressed again. `Touch!Strokes`
maps a slot in use to a finger that is down.

**`StylusWindow`** (`GridPeakDetector.cpp`, `CoordinateSolver.cpp`). The raster scan of `FindPeak`,
one cell per step (`Skip`, `Visit`), with its visited cells and its best peak, then `Solve`: the
two projections, the triangle interpolation with C++'s division towards zero, the
saturation to `int16_t` and the cast that wraps, each with the width `Half` in place
of 2^15. `NewWindow` is the next frame, whose window may be any of `NextGrids`. The
properties speak of regions, local maxima and raster order and do not mention the scan.

**`Stylus`** (`StylusPipeline.cpp`, `CoorPostProcessor.cpp`) is `Process` around it. A frame that
cannot be read or has no pen is one action (`ParseFailure`, `NoPen`); any other is
`ScanWindow`, one step of `StylusWindow` after the other, and then by its outcome `Unlocated`
(no peak, no coordinate) or `Located`. A register of the post processor is kept as the set of
visits that its value comes from, this one or earlier ones, so that the average of three
points, the IIR filter and the jitter lock are unions; `away` counts the frames
without pen, and the second ages every register. The pressure history holds the age of
each sample and whether it presses; `SetBtMcuPressure` comes from the pen's thread at any
step, during a scan too. The options that the service leaves off and cannot switch on
are [not modelled](#what-is-not-modelled).

**`ServiceHost`** (`ServiceShell.cpp`, `ServiceHost.cpp`, `SystemStateMonitor.cpp`,
`IpcPipe*.cpp`, `BtHidChannel.cpp`). `main` is the thread that starts the modules, waits
and stops them, one step for each change of shared state and one for each join. The
other threads are `control` (the SCM's handler), `monitor`, `server` and one `channel` for
the pen's events and one for its pressure; `app` is the client of the pipe. `pipe` is
the one instance of the named pipe: a client, the dummy connection included, can only
open it while it is listening. `signalled` holds the manual-reset events; the lowest
index is served, and its event is reset after the callback returned. In a console
(`status = "console"`) no status is told and Ctrl-C sets the stop event. A call into the
runtime is the location "call" or "handle". Assumed of the SCM: one
control at a time, a stop only to a service that told it is running;
preshutdown followed by shutdown is not modelled.

**`DeviceRuntimeInv`, `FrameChannelInv`, `AfeStylusInv`, `ChipFrameInv`, `TouchInv`, `StylusInv`,
`StylusWindowInv`, `ServiceHostInv`** hold the inductive invariants by named parts; **`..._proofs`** the theorems;
**`MC...`** name the module that TLC runs. The MC modules extend the invariants, so
that `IInv` can be given to TLC as an invariant of any of the runs.

## The runs

| Run | Module | Question | Bounds |
|---|---|---|---|
| `RuntimeMonitor` | `MCDeviceRuntime` | Do sleep, wake and shutdown events take effect at every interleaving with the worker, and does the runtime implement `RuntimeLifecycle`? | one event of each kind (display off, display on, shutdown), 1 recovery attempt, 2 frame errors, queue of 1 |
| `RuntimeIpc` | `MCDeviceRuntime` | Without a monitor (`ServiceHost.cpp:101`): do the App's starts and stops, with pens coming and going, leave the runtime as they promise? | 2 recovery attempts, 2 frame errors, queue of 2 |
| `FrameChannel` | `MCFrameChannel` | Is a shown frame recent, is none missed for good, does the ring keep order? | 2 blocks, ring of 2, 3 frames |
| `AfeStylus` | `MCAfeStylus` | Do switch requests heal, keep apart and carry their own target, and does a new pen start fresh? | counter of 3 frames, cooldown 2, timeouts 1, 0 and 1, debounce 1, one pen type, one BT and two controller frequencies, queue of 1, the App sends `ClearStatus` and `ForceToFreqPoint` |
| `ChipFrame` | `MCChipFrame` | With a failure possible at every access and sleep at any point: is the controller read only when it is up, are the parts of a frame close together, does idle mode wait for quiet, is sleep prompt? | idle threshold 2, 2 attempts per read |
| `Touch` | `MCTouch` | Does an id name one finger, does every track end with an Up, does the reporter remember what the host holds, are the reports strokes? | 3 fingers, lift-off hold 1, long press 2, packets of 1 contact (so that a frame is cut at 2 of 3) |
| `Stylus` | `MCStylus` | Does each visit of the pen start over, does the scan end with a peak of the definition, and does the coordinate lie in its cell? | 3x3 cells, 7-bit integers; the first frame holds any of 1,027 windows, later ones any of three; lifting timeout 1, button hold 1, 2 pressure samples |
| `ServiceHost` | `MCServiceHost` | Does every stop complete, without a call into a runtime that is gone, and is STOPPED told last? | three of the eight events; both modes, service and console |
| `RuntimeLostWake`, `AfeSilence`, `StylusPeak`, `ServicePipeHang` | as above | violations, see [below](#what-the-models-found) | the smallest that show them |

Safety properties of the passing runs:

- `NoTerminate`, `StoppedIsQuiet`: the std::thread, `m_running` and the phase agree
  whatever sequence of starts, stops and wakes came before.
- `FramesOnlyFromLiveChip`, `AsleepIsDisconnected`: the controller's own state against
  the worker's, through failed bring-ups, recovery and giving up.
- `DisconnectedPenNotTracked`: the pen's last report against what the controller
  tracks, through queue clears, refused commands and re-initialisation.
- `AtMostOneBehind`, `NothingMissed`, `RingKeepsNewest`: what the App holds against
  what the worker wrote. A read may be torn (below), but never by more than a frame.
- `PendingHeals`, `RequestsAreSpaced` (an action property), `SwitchCommandIsCurrent`,
  `NewPenIsFresh`: the switch requests, over the wrap of the frame counter. When the
  worker begins to drain, a switch command of the service is the only one of its kind, of the
  outstanding request and for its target (`SwitchCommandIsCurrent`). It speaks of the service's own
  commands: an App may queue a `ForceToFreqPoint` that belongs to no request, and a
  `ClearStatus` ahead of the switch in the same drain may end the request first.
- `ReadsOnlyWhenUp`, `MasterIsRecent`, `IdleAfterQuiet` (an action property),
  `SleepIsPrompt`: what the worker does to the controller now against all that
  happened to it before, through half-done bring-ups, failed and cancelled reads,
  pens that come and go, idle mode and sleep.
- `OneFingerPerId`, `TrackEndsWithUp` (an action property), `HostContactsRemembered`: ids
  against the tracks and slots they were used for before, and the reporter's one flag
  against what the host was told, over any sequence of frames.
- `VisitStartsOver`: the origin of every value that a point is computed from, and the
  life cycle, after visits that ended in any way.
- `PeakIsFound`, `SolvedInCell`: algorithms against a definition of their result. What the scan
  finds is not the strongest local maximum (`StylusPeak`, below); `PeakIsFound` says what remains:
  it is a local maximum, of a region that is no noise, and none that is the only one of such a region
  has a greater sum around it.
- `RuntimeOutlivesUsers`, `StoppedIsLast`: the order of the process's teardown.

Liveness: `SleepTakesEffect`, `StopReturns`, `CleanWakeTakesEffect`,
`StartTakesEffect`, `NextFrameRepairs`, `SleepDisconnects`, `StopCompletes`;
`ImplementsLifecycle`, `ImplementsOutcomes` and `ImplementsStrokes` are the refinements.

*Why the bounds are enough.* The runtime's counters only decide whether the limit is
reached: one recovery attempt and two frame errors have both cases, and the
attempt after giving up starts from zero again. Events of one kind differ only by
their debounce. With both sleep events, pens and two recovery attempts the safety
invariants of `RuntimeMonitor` were also checked once (8.2 million states). Two
blocks are the least that can be torn, three frames are one more than the ring
holds and give the reader a frame before, during and after its read. A counter of
three frames wraps inside a cooldown, inside a pending request and between two
requests; `Wrap` in the code is 2^32 and only `Cooldown < Wrap` and
`PendingTimeout + 1 < Wrap` matter, which the proofs confirm. An idle threshold of two
has a count that is begun, broken off and completed; two attempts have one that is
tried again and one that is not. The parity of the frame counter stands for the
counter, whose wrap at 2^32 does not change it. Three fingers are one more than fit
two packets of one contact, and let two ids be held while a third is new; the
proofs of `Touch` are for any number. Five of the nine cells of a window hold one of four
signals (below the noise, weak, strong, and one whose sums saturate seven bits); they lie in a
corner, where regions of one to four cells meet, with plateaus, and a region of four counts as
noise. A scan begins without anything of the window before, so that one frame with each of the
1,024 windows is enough for the peak and its cell; the three windows of later frames are the three
outcomes (no peak, no coordinate, a coordinate) that the pipeline tells apart, in any
order. The proofs hold for every size, threshold, width and set of windows. `ServiceHost` has no
counters; the events 0, 6 and 7 are a power event, the shutdown and the resume, the
first, the last but one and the last in the order of service.

*Histories and bounds in guards.* `MaxQueue` bounds `PenReport`, `FrameOk` and `Submit`,
`MaxFrames` bounds `WriteBegin`, and `NextGrids` the windows of later frames. The real queue is a `std::deque` without a bound;
the proofs hold for every `MaxQueue`.

*Deadlock.* `CHECK_DEADLOCK FALSE` is stated because the systems do stop: the service
after `ServiceHost::Stop` (or when std::terminate ended it), the frame channel
when its frames are used up and the App is gone; `AfeStylus` never stops, and has
the statement for the sake of its bounded queue, and so does `ChipFrame`, where a
service that has quit need not be started again. `ServiceHost` ends with its process. `Touch` and `Stylus` are checked for deadlock.

*Fairness.* `DeviceRuntime!FairSpec` has weak fairness for the worker and for each
control thread that is inside a call: a thread that can run is scheduled, which is
all the code relies on; a blocked join is disabled and promised nothing. Events,
requests and pen reports are never forced, and neither is the service's stop. A
bring-up may fail for ever and frames may never come. `FrameChannel!FairSpec` has
weak fairness for a `Write` that began (it never waits) and strong fairness for the
poll and window threads, because both take `m_frameMutex`: Windows' mutex does not
shut a waiter out for ever while it is released again and again. `AfeStylus` has
no liveness property, and no fairness. `ChipFrame!FairSpec` has weak fairness for the
worker: every device access returns, as `PerformSyncIo` relies on the driver for,
and the attempts are counted. Quitting and the App's idle commands, which are
steps of the same thread, are taken out of it: they need never come.
`ServiceHost!FairSpec` has weak fairness for each thread of the service: callbacks
return, `ReadPacket` has a timeout, and searching for the pen's device ends on
stop. `MonitorWake` among signalled events serves the lowest, so that the stop event,
handle 0, is never starved. It also has weak fairness for two actions of the App,
and this is no courtesy: `Stop` joins a thread that may sit in a blocking call, and only the
App ends it. A connected App polls the logs every second (`ServiceProxy.cpp:440`), and one
that is not tries to connect (`ServiceProxy.cpp:150`). Without an App, `ServicePipeHang`
shows what happens. `Touch` and `Stylus` are sequential and have no liveness property.

## The proofs

Checked by tlapm with Z3, Zenon and LS4, for every value of the constants that
satisfies the assumption of the module. No fact is assumed apart from what is listed here.

**`DeviceRuntime_proofs`.** Three theorems hold whatever threads start, stop, wake or
put to sleep, the monitor and the App at once included: `TypeCorrect`, `FramesAreLive` and
`PenIsReleased`. Their invariant is `ReadInv`. Frames come from a live controller because
other threads move the phase to ready or quit only, and every point of the worker that
takes the controller down is out of reach of the phase streaming (`LiveInv`). A
pen is released because of the shape of the queue: behind every `InitStylus` there is a
`DisconnectStylus` (`InitCovered`), and between the drain and the next frame no `Init` comes
that would forget the pen (`NearFrame`).

The other properties are false when calls overlap (below), so they have the
hypothesis `[]CallsDoNotOverlap`: the monitor and the pipe thread are not inside `Start`,
`Stop` or a wake at the same time. It is a condition on behaviours, not on constants: both
may drive the runtime, one call after the other. `OneThreadIsInTurn` shows
that it is met by a service that no App drives and by one whose monitor failed to
start (`ServiceHost.cpp:101`), and `OneThreadIsSafe` and `Refinement` state the properties for these
two with no other hypothesis. Under it `IInv` adds to `ReadInv` what each control
thread knows at each point of `Start` and `Stop` (`ControlInv`, `ThreadInv`), that without
shutdown events a worker only quits when a `Stop` is waiting for it (`QuitInv`),
the phases that each point of the worker can find, as only a wake reaches it from another
thread (`StateInv`), that every way into suspend asks for the reset (`SleepInv`), and what is left
after the worker's end (`QuietInv`; `StoppedIsReturning` is its counterpart for the window before: a worker
that is stopped by `m_running` is past all its work). `StepInv` has one step per action and one lemma per part.
`RestartIsSafe` needs `StartsAreJoined` besides: no App start may follow a shutdown event,
after which nobody joins the worker. `InTurnRefines` maps each action to one of
`RuntimeLifecycle` or to a stutter (`StepRefines`) and uses the invariant to know the phase that
each of the worker's points can see. What two threads that join or assign the same
`std::thread` do to each other is undefined behaviour of the library; the theorems are about
the steps of the model, in which `join` and the assignment are each one step.

**`FrameChannel_proofs`.** `ReadsKeepUp` rests on a bound per block of shared memory
(`BlockInv`: a block is of the frame being written, or of the one before exactly
while its stores are pending) and on the id being taken before the blocks
(`ReadInv`). `WindowMissesNothing` rests on mutual exclusion (`MutexInv`).
`RingIsNewest` relates the ring of any capacity to the history of pushes
(`RingInv`), with small lemmas about remainders because the solver has no theory of
a variable modulus.

**`AfeStylus_proofs`.** `CooldownHolds` needs `CooldownInv`: the age the code computes
modulo `Wrap` is at most the number of frames that really passed, until the
cooldown is over. A wrap makes a long past switch look recent, which only delays a
request, never the reverse; `AgeGrows` is the lemma behind it. A switch that ended
at frame number 0 is taken for none by the code (`lastSwitchFrame == 0`), and the
property says so. `PenFrame` states once what a frame does to the switch and the
histories; the other invariants follow from it.

**`ChipFrame_proofs`.** `IInv` has one part per question: which phase the worker can be
in at each of its points (`PhaseInv`), what `Init` has done when it gets to each step
(`StepInv`) and so what streaming can rely on (`StreamInv`, for `ReadsAreSafe`), which
devices a frame has read (`GotInv`), that an even frame has the master's part
(`MasterInv`, for `MasterKeepsUp`), that the count of empty frames is at most one
ahead of the frames that really were, and zero while a pen is followed (`QuietInv`,
for `IdleIsQuiet`), and that a frame after the sleep request is the last (`LateInv`).
`CoreStep` has one step per action. The type invariant is proved in two parts, flags
and values, because Booleans and arithmetic need different provers. `Refinement`
needs no invariant.

**`Touch_proofs`.** `Types`, `TracksEnd` and `HostRemembered` hold for every configuration;
the second needs that a track past the hold has had its Up (`LiftedInTime`).

`Identities` crosses from the tracker to the gestures, and holds for every number of
fingers, press delay and threshold of stability if `GraceWithinHold`:
`ReleaseFrames <= LiftOffHold + 1`. A slot in use counts the frames without a contact exactly as
its track does (`SlotsKept`), so that its grace is over before the track is dropped and the id
is free for a new finger (`NewIsIdle`). The condition is exact: for each of the holds 0 to 2
with each of the graces 0 to 4 (and a press delay of 1 or 2), TLC finds the property to hold when the
condition does and to fail when it does not. The configuration file allows both (`ReleasePendingFrames`,
`LiftOffHoldFrames`).

`StrokesHold` assumes `Shipped`: presses and releases are reported in the frame they
happen, and the tracker holds a lost contact for at least one frame more. Between frames
every slot in use then has a track that was matched in the last frame (`SlotsTracked`), and no
release is pending (`SlotsSettled`). With any other configuration that was tried TLC finds a
finger that drops out of the reports without an Up, or one that is reported late.

**`StylusWindow_proofs`.** The sums and fills of the model are folds (`Total`,
`FloodFill`). The library's induction theorems take a predicate, which the provers cannot
instantiate, so induction is stated here for a set of numbers or of subsets
(`NatBySet`, `BySubsets`) and applied to the set of those for which the claim holds.
`FloodFillIsLeast` then shows that a fill, from any cell and whatever was visited before, is closed
under free neighbours and the least such set: each round adds a cell or none does any more, and there
are as many rounds as cells. `FillIsRegion` shows that while the visited cells are whole
regions every further fill is a whole region apart from them. So the visited cells stay whole regions
whose peak the scan met (`VisitedAreRegions`), and the peak is the best of the regions' first local
maxima that it met, the first among equals (`PeakIsBest`). A local maximum that is alone in its
region is also the first (`BestIsFound`): that is `PeaksAreFound` when the scan is over.
`LineInCell` is arithmetic: the triangle's division towards zero, the saturation, the cast that wraps
and both edges keep the coordinate within the cell of the line's greatest value, for every line of
integers; `CoordinatesInCell` applies it to the two projections (`SolvedLast`).

**`Stylus_proofs`.** `VisitsStartOver` needs that no register of the post processor is from
before (`FiltersAreFresh`), and that a frame without pen leaves `m_prevValid` false, so that the next
one resets, and the life cycle ended or lifting, so that the next one ends it
(`AbsentIsOver`). `FramesScanWindows` maps every action to a step of `StylusWindow` or to a stutter;
with it the theorems of `StylusWindow_proofs` hold of the pipeline's frames (`FramesAreSolved`).

**`ServiceHost_proofs`.** Each thread lives only between its start and its join
(`MonitorInv`, `ServerInv`, `ChannelInv`), which lie inside the life of the runtime
(`AliveInv`): that is `UsersAreSafe`. `ToldLast` needs that the handler sets the stop event as
its last step (`ShellInv`).

Only model-checked: liveness, because `ENABLED` is out of the prover's reach:
`SleepTakesEffect`, `StopReturns`, `CleanWakeTakesEffect`, `StartTakesEffect`,
`NextFrameRepairs`, `SleepDisconnects` of `ChipFrame` and `StopCompletes`. Every safety
property and every refinement that a passing run checks is stated by a theorem.

## What the models found

Each is a run that expects its violation, with a quotation in `PROJECT.json`.

- `RuntimeLostWake`: waking from suspend leaves a second, pending sleep request
  alone, and the worker falls asleep again with the display on.
- `AfeSilence`: the heartbeat is refreshed on every frame from a stored report, so
  the BT MCU's silence is never noticed.
- `StylusPeak`: a region is filled from its first local maximum in raster order
  (`GridPeakDetector.cpp:84`), and the stronger ones after it are skipped as visited; the header
  promises the "strongest valid peak" (`GridPeakDetector.h:12`).
- `ServicePipeHang`: the dummy connection that is to unblock `ConnectNamedPipe` is tried
  once; a server thread that is between its check of `m_running` and the creation of
  the instance is not woken, and the join waits for a client.

Observed while modelling, in the models but without a run of their own:

- After a shutdown event nobody joins the worker, although the comment at
  `DeviceRuntime.cpp:223` says "allow restart via Start()": a `StartRuntime` that follows
  would assign over its thread (`DeviceRuntime.cpp:51`), and std::terminate ends the process. It
  may come before the worker has returned, too, since `m_running` is already false then. A
  `Stop` joins whatever `m_running` says, and is safe.
- A display-off event between `Stop`'s store and the worker's exchange overwrites the stop
  reason (`DeviceRuntime.cpp:102`), and `Stop` waits for ever in its join. Both need the monitor
  and the App at once: with the two threads `NoTerminate` and `StopReturns` fail in the model.
- So does this: one thread's `Stop` clears `m_running` inside the other's `Start`, whose
  `m_needSuspendDeinit = false` (`DeviceRuntime.cpp:48`) then comes while a worker is on its way into
  suspend and erases the reset it was to make. The worker sleeps over a connected controller:
  `AsleepIsDisconnected` fails. Overlapping calls also break
  `StoppedWorkerIsReturning`, `StoppedIsQuiet` and `ImplementsLifecycle`.
- A release grace more than one frame longer than the lift-off hold gives a new finger the slot of
  the one before, and its gesture goes on (`TouchTracker.cpp:373`, `TouchGestureStateMachine.cpp:101`). The
  shipped configuration is far from it.
- `Read` looks at `lockFlag` only before it copies, so a `Write` that starts during the
  copy is accepted as a mixture; and the relaxed increment of `frameId` can be seen before the
  blocks it announces. `NextFrameRepairs` says that both heal with the next frame.
- A display-off event cancels the pending read before it stores its stop request; a read
  that begins in between is not cancelled. `SleepIsPrompt` bounds the harm: one frame.
- The shutdown event (index 6) is set before the stop event, but the monitor's own stop
  event has handle 0: when the stop overtakes, the shutdown event is never served,
  although `ServiceShell.cpp:66` wants the monitor to see it.
- An event that is signalled during its own callback is reset unseen (`SystemStateMonitor.cpp:178`),
  and events that wait are served by index: display on before display off, whatever
  came last.
- `m_hadTouchLastFrame` is cleared before the all-up packet is written (`VhfReporter.cpp:119`);
  if that write fails the contacts stay down for the host (`allUpLost`). With more
  than ten contacts Ups are the first that are cut.
- A full window of 81 cells counts as noise, although `maxConnected = 81` is commented
  "disabled for bringup (full grid = 9*9)" (`GridPeakDetector.h:25`, `GridPeakDetector.cpp:88`).
- A hovering pen that stays after lifting is reported as gone once the lifting timeout
  is over (`StylusPipeline.cpp:534`), and the first frame with pressure as hovering.
- Frames with a pen that cannot be located never reset the filters; only the second
  frame without a pen does. `m_prevPressure` and the button's hold survive even that.

## What is not modelled

- The touch frame pipeline (baseline, filters, peaks, zones): floating point over whole
  frames, sequential; TLC has nothing to explore there. Likewise, in the stylus
  solver, pressure curves, IIR coefficients, edge compensation and the packet's bits.
- The stylus solver's tilt, calibration and noise rejection. They are off by default
  (`StylusPipeline.h:92`, 168 and 194), and no configuration reaches the service's pipeline:
  `BuildDefaultPipeline` and `ReloadConfig` hand it to the touch processors only (`ServiceHost.cpp:303`
  to 342, 415 to 436), and the App's `LoadConfig` is called on its own copy (`ServiceProxy.cpp:240`),
  as `docs/architecture_redesign.md:252` notes.
- In `Read`, that `contactCount` is looked up again in each turn of the copy
  (`SharedFrameBuffer.cpp:323` to 324): if the writer raises it meanwhile the copy leaves the vector
  that was sized by it, which has no outcomes to enumerate.
- Register values, bus transfers and the bytes of a frame: in `ChipFrame` an access
  succeeds or fails, and a frame shows a finger or a pen or does not.
- Idle mode takes every failed read for a timeout (`HimaxChip.cpp:836`), so a
  controller that dies in idle mode is not recovered before the next sleep or App
  command. `ChipFrame` has this behaviour and no property forbids it, as no document
  promises more.
- The matching of contacts to tracks by cost, the stylus suppression of touches (the
  service merges the stylus into the frame after the pipeline ran, `DeviceRuntime.cpp:310`, so it
  never acts), the rx ghost filter (off by default; it would drop a track without an
  Up), and the legacy `Dispatch`, which nothing calls.
- The configuration file, the dirty flag (nothing calls `CheckAndClear`), log
  draining and pen status packing: pure I/O or display. The content of pipe requests
  other than start, stop, debug mode and the VHF switch.
- The handshake and acknowledgements of the BT MCU: fixed packets that are written, whose answers
  nothing waits for. The frame memory and the pen event handle, which `ServiceHost::Stop` closes
  before the threads that use them have ended.
- The App's auto-discovery over a broken connection (a hazard with a note).
- The command history, snapshots and log text, which decide nothing.
- The kernel driver, the App's drawing and export, the test tools and the installer.
- Data races on a `std::function`, a `std::string` and the joined thread: undefined
  behaviour without outcomes to enumerate; they are listed as hazards with a note.
