---------------------------- MODULE DeviceRuntime ----------------------------
(***************************************************************************)
(* The worker of the touch service and the threads that control it         *)
(* (EGoTouchService/Device/runtime/DeviceRuntime.cpp).                     *)
(*                                                                         *)
(* One worker thread runs WorkerMain; three threads call into the runtime: *)
(* "host" (ServiceHost::Start and ::Stop), "mon" (SystemStateMonitor's     *)
(* callback, IngestSystemEvent) and "ipc" (the pipe server, StartRuntime   *)
(* and StopRuntime).  A pen thread submits stylus commands.  Every access  *)
(* to m_state, m_stopReason, m_running and m_thread is a step of its own;  *)
(* fields only the worker touches while it lives change in the step of the *)
(* neighbouring shared access.                                             *)
(***************************************************************************)
EXTENDS Naturals, Sequences, FiniteSets

CONSTANTS
  Events,          \* the system events the monitor delivers
  IpcRequests,     \* the lifecycle requests the App sends over the pipe
  PenReports,      \* the pen connection reports the BT MCU sends
  AutoMode,        \* m_autoMode
  MaxRecover,      \* recovery attempts before giving up (30 in the code)
  MaxFrameErrors,  \* kMaxConsecutiveFrameErrors (3 in the code)
  MaxQueue         \* bound of the model on m_cmdQueue, unbounded in the code

SleepEvents == {"DisplayOff", "LidOff"}
WakeEvents  == {"DisplayOn", "LidOn", "ResumeAutomatic"}

ASSUME ConstantsOK ==
  /\ Events \subseteq SleepEvents \union WakeEvents \union {"Shutdown"}
  /\ IpcRequests \subseteq {"StartRuntime", "StopRuntime"}
  /\ PenReports \subseteq {"InitStylus", "DisconnectStylus"}
  /\ AutoMode \in BOOLEAN
  /\ MaxRecover \in Nat
  /\ MaxFrameErrors \in Nat \ {0}
  /\ MaxQueue \in Nat

VARIABLES
  running,       \* m_running
  stopReason,    \* m_stopReason
  state,         \* m_state
  thread,        \* m_thread: "none" is not joinable, "done" joinable and returned
  terminated,    \* std::terminate was called
  needDeinit,    \* m_needSuspendDeinit
  recoverCount,  \* m_recoverCount
  frameErrors,   \* m_consecutiveFrameErrors
  queue,         \* m_cmdQueue
  stylus,        \* AfeController::m_stylus.connected
  conn,          \* Chip::m_connState is Connected
  chip,          \* the controller: "held" in reset, "raw", or "inited" by Init
  wpc,           \* where the worker is in WorkerMain
  pc,            \* where each control thread is in Start, Stop or the wake path
  recent,        \* event types ingested less than kEventDebounce ago
  lastEvent,     \* the newest event that passed the debounce
  penLink        \* what the newest pen report said

ctlVars    == <<pc, recent, lastEvent>>
lifeVars   == <<running, thread, terminated>>
countVars  == <<needDeinit, recoverCount, frameErrors>>
chipVars   == <<stylus, conn, chip>>
cmdVars    == <<queue, penLink>>
vars == <<running, stopReason, state, thread, terminated, needDeinit,
          recoverCount, frameErrors, queue, stylus, conn, chip, wpc, pc,
          recent, lastEvent, penLink>>

Controllers == {"host", "mon", "ipc"}

States == {"suspend", "quit", "ready", "streaming", "recover"}

WorkerPoints ==
  {"top", "setSuspend", "setQuit", "clear", "drain", "load",
   "ready", "readyOk", "readyFail", "streaming", "setRecover",
   "recover", "recLimit", "recWait", "recTry", "recOk",
   "suspend", "asleep", "quit", "returning", "dead"}

ControlPoints ==
  {"idle", "setReady", "stop", "join", "stopped", "setQuit",
   "start", "clearReason", "started", "spawn", "gone"}

TypeOK ==
  /\ running \in BOOLEAN
  /\ stopReason \in {"None", "ScreenOff", "Shutdown"}
  /\ state \in States
  /\ thread \in {"none", "running", "done"}
  /\ terminated \in BOOLEAN
  /\ needDeinit \in BOOLEAN
  /\ recoverCount \in 0 .. MaxRecover + 1
  /\ frameErrors \in 0 .. MaxFrameErrors
  /\ queue \in Seq({"InitStylus", "DisconnectStylus", "ForceToFreqPoint"})
  /\ stylus \in BOOLEAN
  /\ conn \in BOOLEAN
  /\ chip \in {"held", "raw", "inited"}
  /\ wpc \in WorkerPoints
  /\ pc \in [Controllers -> ControlPoints]
  /\ recent \subseteq Events
  /\ lastEvent \in Events \union {"none"}
  /\ penLink \in BOOLEAN

Init ==
  /\ running = FALSE
  /\ stopReason = "None"
  /\ state = "quit"
  /\ thread = "none"
  /\ terminated = FALSE
  /\ needDeinit = FALSE
  /\ recoverCount = 0
  /\ frameErrors = 0
  /\ queue = <<>>
  /\ stylus = FALSE
  /\ conn = FALSE
  /\ chip = "raw"
  /\ wpc = "dead"
  /\ pc = [t \in Controllers |-> IF t = "host" THEN "start" ELSE "idle"]
  /\ recent = {}
  /\ lastEvent = "none"
  /\ penLink = FALSE

-----------------------------------------------------------------------------
(* DeviceRuntime::Start and ::Stop, called by any control thread.          *)

Goto(t, from, to) ==
  /\ pc[t] = from
  /\ pc' = [pc EXCEPT ![t] = to]

\* if (m_running.exchange(true)) return false;
StartExchange(t) ==
  /\ Goto(t, "start", IF running THEN "idle" ELSE "clearReason")
  /\ running' = TRUE
  /\ UNCHANGED <<stopReason, state, thread, terminated, countVars, chipVars,
                 cmdVars, wpc, recent, lastEvent>>

\* Fault: Start keeps the stop reason of the run before.
StartKeepsReason(t) ==
  /\ Goto(t, "clearReason", "started")
  /\ UNCHANGED <<stopReason, state, lifeVars, countVars, chipVars, cmdVars, wpc,
                 recent, lastEvent>>

StartClearReason(t) ==
  /\ Goto(t, "clearReason", "started")
  /\ stopReason' = "None"
  /\ UNCHANGED <<state, lifeVars, countVars, chipVars, cmdVars, wpc, recent,
                 lastEvent>>

StartSetReady(t) ==
  /\ Goto(t, "started", "spawn")
  /\ state' = "ready"
  /\ needDeinit' = FALSE
  /\ recoverCount' = 0
  /\ UNCHANGED <<stopReason, lifeVars, frameErrors, chipVars, cmdVars, wpc,
                 recent, lastEvent>>

\* m_thread = std::thread(...): assigning to a joinable thread terminates.
StartSpawn(t) ==
  /\ Goto(t, "spawn", "idle")
  /\ IF thread = "none"
       THEN thread' = "running" /\ wpc' = "top" /\ UNCHANGED terminated
       ELSE terminated' = TRUE /\ UNCHANGED <<thread, wpc>>
  /\ UNCHANGED <<running, stopReason, state, countVars, chipVars, cmdVars,
                 recent, lastEvent>>

StopStore(t) ==
  /\ Goto(t, "stop", "join")
  /\ stopReason' = "Shutdown"
  /\ UNCHANGED <<state, lifeVars, countVars, chipVars, cmdVars, wpc, recent,
                 lastEvent>>

\* Fault: Stop joins only while m_running is set.
StopJoinIfRunning(t) ==
  /\ Goto(t, "join", "stopped")
  /\ running => thread # "running"
  /\ thread' = IF running THEN "none" ELSE thread
  /\ UNCHANGED <<running, stopReason, state, terminated, countVars, chipVars,
                 cmdVars, wpc, recent, lastEvent>>

\* if (m_thread.joinable()) m_thread.join();
StopJoin(t) ==
  /\ Goto(t, "join", "stopped")
  /\ thread # "running"
  /\ thread' = "none"
  /\ UNCHANGED <<running, stopReason, state, terminated, countVars, chipVars,
                 cmdVars, wpc, recent, lastEvent>>

StopClearRunning(t) ==
  /\ Goto(t, "stopped", "setQuit")
  /\ running' = FALSE
  /\ UNCHANGED <<stopReason, state, thread, terminated, countVars, chipVars,
                 cmdVars, wpc, recent, lastEvent>>

\* The monitor only calls Stop as the first half of Stop(); Start().
StopSetQuit(t) ==
  /\ Goto(t, "setQuit", CASE t = "mon"  -> "start"
                          [] t = "host" -> "gone"
                          [] t = "ipc"  -> "idle")
  /\ state' = "quit"
  /\ UNCHANGED <<stopReason, lifeVars, countVars, chipVars, cmdVars, wpc,
                 recent, lastEvent>>

-----------------------------------------------------------------------------
(* IngestSystemEvent, on the monitor's thread.                             *)

\* The worker holds m_mu for the whole of DrainCommands.
QueueLocked == wpc = "drain"

Serving == pc["host"] = "idle"

\* The debounce lets an event through when its type was not seen recently.
Ingest(e) ==
  /\ Serving
  /\ pc["mon"] = "idle"
  /\ ~QueueLocked
  /\ e \notin recent
  /\ recent' = recent \union {e}
  /\ lastEvent' = e

SleepEvent(e) ==
  /\ e \in SleepEvents
  /\ Ingest(e)
  /\ stopReason' = "ScreenOff"
  /\ UNCHANGED <<state, lifeVars, countVars, chipVars, cmdVars, wpc, pc>>

ShutdownEvent(e) ==
  /\ e = "Shutdown"
  /\ Ingest(e)
  /\ stopReason' = "Shutdown"
  /\ UNCHANGED <<state, lifeVars, countVars, chipVars, cmdVars, wpc, pc>>

\* if (m_state.load() == suspend) SetState(ready); else { Stop(); Start(); }
WakeEvent(e) ==
  /\ e \in WakeEvents
  /\ Ingest(e)
  /\ pc' = [pc EXCEPT !["mon"] = IF state = "suspend" THEN "setReady"
                                                      ELSE "stop"]
  /\ UNCHANGED <<stopReason, state, lifeVars, countVars, chipVars, cmdVars,
                 wpc>>

\* Fault: the wake resumes streaming without Chip::Init.
WakeSetStreaming ==
  /\ Goto("mon", "setReady", "idle")
  /\ state' = "streaming"
  /\ UNCHANGED <<stopReason, lifeVars, countVars, chipVars, cmdVars, wpc,
                 recent, lastEvent>>

WakeSetReady ==
  /\ Goto("mon", "setReady", "idle")
  /\ state' = "ready"
  /\ UNCHANGED <<stopReason, lifeVars, countVars, chipVars, cmdVars, wpc,
                 recent, lastEvent>>

\* kEventDebounce has passed since an event of type e was let through.
DebounceExpires(e) ==
  /\ recent' = recent \ {e}
  /\ e \in recent
  /\ UNCHANGED <<running, stopReason, state, thread, terminated, countVars,
                 chipVars, cmdVars, wpc, pc, lastEvent>>

-----------------------------------------------------------------------------
(* ServiceHost: the App's requests and the service's own shutdown.         *)

IpcRequest(r) ==
  /\ Serving
  /\ Goto("ipc", "idle", IF r = "StartRuntime" THEN "start" ELSE "stop")
  /\ UNCHANGED <<stopReason, state, lifeVars, countVars, chipVars, cmdVars,
                 wpc, recent, lastEvent>>

\* ServiceHost::Stop joins the pipe server and the monitor first.
HostStop ==
  /\ pc["mon"] = "idle"
  /\ pc["ipc"] = "idle"
  /\ Goto("host", "idle", "stop")
  /\ UNCHANGED <<stopReason, state, lifeVars, countVars, chipVars, cmdVars,
                 wpc, recent, lastEvent>>

\* PenConnStatus from the BT MCU: SubmitCommand(InitStylus / DisconnectStylus).
PenReport(c) ==
  /\ Serving
  /\ ~QueueLocked
  /\ Len(queue) < MaxQueue
  /\ queue' = Append(queue, c)
  /\ penLink' = (c = "InitStylus")
  /\ UNCHANGED <<stopReason, state, lifeVars, countVars, chipVars, ctlVars,
                 wpc>>

-----------------------------------------------------------------------------
(* WorkerMain.                                                             *)

WGoto(from, to) ==
  /\ wpc = from
  /\ wpc' = to

\* reason = m_stopReason.exchange(None)
TakeReason ==
  /\ WGoto("top", CASE stopReason = "None"      -> "drain"
                    [] stopReason = "ScreenOff" -> "setSuspend"
                    [] stopReason = "Shutdown"  -> "setQuit")
  /\ stopReason' = "None"
  /\ UNCHANGED <<state, lifeVars, countVars, chipVars, cmdVars, ctlVars>>

\* Fault: a sleep request does not ask for the reset.
ConsumeScreenOffNoReset ==
  /\ WGoto("setSuspend", "clear")
  /\ state' = "suspend"
  /\ UNCHANGED <<stopReason, lifeVars, countVars, chipVars, cmdVars, ctlVars>>

ConsumeScreenOff ==
  /\ WGoto("setSuspend", "clear")
  /\ state' = "suspend"
  /\ needDeinit' = TRUE
  /\ UNCHANGED <<stopReason, lifeVars, recoverCount, frameErrors, chipVars,
                 cmdVars, ctlVars>>

ConsumeShutdown ==
  /\ WGoto("setQuit", "clear")
  /\ state' = "quit"
  /\ UNCHANGED <<stopReason, lifeVars, countVars, chipVars, cmdVars, ctlVars>>

\* Fault: the stop reason is cleared again after it was handled.
ClearQueueAndReason ==
  /\ WGoto("clear", "drain")
  /\ queue' = <<>>
  /\ stopReason' = "None"
  /\ UNCHANGED <<state, lifeVars, countVars, chipVars, penLink, ctlVars>>

ClearQueue ==
  /\ WGoto("clear", "drain")
  /\ queue' = <<>>
  /\ UNCHANGED <<stopReason, state, lifeVars, countVars, chipVars, penLink,
                 ctlVars>>

\* AfeController::SendCommand refuses while m_connState is Unconnected; the
\* bus write of InitStylus may fail, that of DisconnectStylus is ignored.
SendCommand(c) ==
  \/ UNCHANGED stylus /\ (c = "DisconnectStylus" => ~conn)
  \/ conn /\ c = "InitStylus" /\ stylus' = TRUE
  \/ conn /\ c = "DisconnectStylus" /\ stylus' = FALSE

DrainCommand ==
  /\ wpc = "drain"
  /\ queue # <<>>
  /\ SendCommand(Head(queue))
  /\ queue' = Tail(queue)
  /\ UNCHANGED <<stopReason, state, lifeVars, countVars, conn, chip, penLink,
                 ctlVars, wpc>>

DrainDone ==
  /\ WGoto("drain", "load")
  /\ queue = <<>>
  /\ UNCHANGED <<stopReason, state, lifeVars, countVars, chipVars, cmdVars,
                 ctlVars>>

\* curState = m_state.load(); switch (curState)
LoadState ==
  /\ WGoto("load", state)
  /\ UNCHANGED <<stopReason, state, lifeVars, countVars, chipVars, cmdVars,
                 ctlVars>>

\* Fault: Chip::Init keeps the stylus state of the connection before.
InitOkKeepsStylus ==
  /\ conn' = TRUE
  /\ chip' = "inited"
  /\ UNCHANGED stylus

\* Chip::Init succeeded: connected, ResetStylusState.
InitOk ==
  /\ conn' = TRUE
  /\ chip' = "inited"
  /\ stylus' = FALSE

\* Chip::Init returned early: m_connState keeps its value, the controller
\* may or may not have been reset.
InitFails ==
  /\ chip' \in {chip, "held", "raw"}
  /\ UNCHANGED <<conn, stylus>>

OnReady ==
  /\ wpc = "ready"
  /\ \/ AutoMode /\ InitOk /\ wpc' = "readyOk"
     \/ AutoMode /\ InitFails /\ wpc' = "readyFail"
     \/ ~AutoMode /\ UNCHANGED chipVars /\ wpc' = "top"
  /\ UNCHANGED <<stopReason, state, lifeVars, countVars, cmdVars, ctlVars>>

ReadyOk ==
  /\ WGoto("readyOk", "top")
  /\ state' = "streaming"
  /\ UNCHANGED <<stopReason, lifeVars, countVars, chipVars, cmdVars, ctlVars>>

\* Fault: OnReady ignores the result of Chip::Init.
ReadyFailStreams ==
  /\ WGoto("readyFail", "top")
  /\ state' = "streaming"
  /\ UNCHANGED <<stopReason, lifeVars, countVars, chipVars, cmdVars, ctlVars>>

ReadyFail ==
  /\ WGoto("readyFail", "top")
  /\ state' = "recover"
  /\ UNCHANGED <<stopReason, lifeVars, countVars, chipVars, cmdVars, ctlVars>>

FrameTimeout ==
  /\ WGoto("streaming", "top")
  /\ UNCHANGED <<stopReason, state, lifeVars, countVars, chipVars, cmdVars,
                 ctlVars>>

FrameError ==
  LET limit == frameErrors + 1 >= MaxFrameErrors IN
  /\ WGoto("streaming", IF limit THEN "setRecover" ELSE "top")
  /\ frameErrors' = IF limit THEN 0 ELSE frameErrors + 1
  /\ UNCHANGED <<stopReason, state, lifeVars, needDeinit, recoverCount,
                 chipVars, cmdVars, ctlVars>>

\* A frame was read; ProcessStylusStatus may ask for a frequency switch.
FrameOk ==
  /\ WGoto("streaming", "top")
  /\ frameErrors' = 0
  /\ \/ UNCHANGED queue
     \/ /\ stylus
        /\ Len(queue) < MaxQueue
        /\ queue' = Append(queue, "ForceToFreqPoint")
  /\ UNCHANGED <<stopReason, state, lifeVars, needDeinit, recoverCount,
                 chipVars, penLink, ctlVars>>

SetRecover ==
  /\ WGoto("setRecover", "top")
  /\ state' = "recover"
  /\ UNCHANGED <<stopReason, lifeVars, countVars, chipVars, cmdVars, ctlVars>>

\* Fault: giving up leaves m_recoverCount where it is.
RecoverCountKept ==
  LET limit == recoverCount + 1 > MaxRecover IN
  /\ WGoto("recover", IF limit THEN "recLimit" ELSE "recWait")
  /\ recoverCount' = recoverCount + 1
  /\ needDeinit' = (limit \/ needDeinit)
  /\ UNCHANGED <<stopReason, state, lifeVars, frameErrors, chipVars, cmdVars,
                 ctlVars>>

\* Fault: giving up suspends without asking for the reset.
RecoverCountNoReset ==
  LET limit == recoverCount + 1 > MaxRecover IN
  /\ WGoto("recover", IF limit THEN "recLimit" ELSE "recWait")
  /\ recoverCount' = IF limit THEN 0 ELSE recoverCount + 1
  /\ UNCHANGED <<stopReason, state, lifeVars, needDeinit, frameErrors, chipVars,
                 cmdVars, ctlVars>>

RecoverCount ==
  LET limit == recoverCount + 1 > MaxRecover IN
  /\ WGoto("recover", IF limit THEN "recLimit" ELSE "recWait")
  /\ recoverCount' = IF limit THEN 0 ELSE recoverCount + 1
  /\ needDeinit' = (limit \/ needDeinit)
  /\ UNCHANGED <<stopReason, state, lifeVars, frameErrors, chipVars, cmdVars,
                 ctlVars>>

RecoverGiveUp ==
  /\ WGoto("recLimit", "top")
  /\ state' = "suspend"
  /\ UNCHANGED <<stopReason, lifeVars, countVars, chipVars, cmdVars, ctlVars>>

\* The 500 ms wait polls m_stopReason.
RecoverWait ==
  /\ WGoto("recWait", IF stopReason = "None" THEN "recTry" ELSE "top")
  /\ UNCHANGED <<stopReason, state, lifeVars, countVars, chipVars, cmdVars,
                 ctlVars>>

\* check_bus() fails, or Init() fails, or both succeed.
RecoverTry ==
  /\ wpc = "recTry"
  /\ \/ UNCHANGED chipVars /\ wpc' = "top"
     \/ InitFails /\ wpc' = "top"
     \/ InitOk /\ wpc' = "recOk"
  /\ UNCHANGED <<stopReason, state, lifeVars, countVars, cmdVars, ctlVars>>

RecoverOk ==
  /\ WGoto("recOk", "top")
  /\ state' = "streaming"
  /\ recoverCount' = 0
  /\ UNCHANGED <<stopReason, lifeVars, needDeinit, frameErrors, chipVars,
                 cmdVars, ctlVars>>

\* Chip::HoldReset; the reset ioctl's result is ignored.
HoldReset ==
  /\ conn' = FALSE
  /\ chip' \in {chip, "held"}
  /\ UNCHANGED stylus

OnSuspend ==
  /\ WGoto("suspend", "asleep")
  /\ IF needDeinit THEN HoldReset ELSE UNCHANGED chipVars
  /\ needDeinit' = FALSE
  /\ UNCHANGED <<stopReason, state, lifeVars, recoverCount, frameErrors,
                 cmdVars, ctlVars>>

\* Fault: OnSuspend waits for a stop request instead of a new state.
SleepUntilStopped ==
  /\ WGoto("asleep", IF stopReason = "None" THEN "suspend" ELSE "top")
  /\ UNCHANGED <<stopReason, state, lifeVars, countVars, chipVars, cmdVars,
                 ctlVars>>

SleepOver ==
  /\ WGoto("asleep", "top")
  /\ UNCHANGED <<stopReason, state, lifeVars, countVars, chipVars, cmdVars,
                 ctlVars>>

\* Chip::Deinit(false): sense-off may fail, half-way through a reset pulse
\* even, and its result is ignored.
Deinit ==
  /\ conn' = FALSE
  /\ chip' \in {chip, "held", "raw"}
  /\ UNCHANGED stylus

\* Fault: the worker leaves without Deinit.
OnQuitNoDeinit ==
  /\ WGoto("quit", "returning")
  /\ running' = FALSE
  /\ UNCHANGED <<stopReason, state, thread, terminated, countVars, chipVars,
                 cmdVars, ctlVars>>

\* OnQuit's Deinit, then m_running.store(false): from here on the worker has
\* only to return, and Start takes it for stopped.
OnQuit ==
  /\ WGoto("quit", "returning")
  /\ IF AutoMode THEN Deinit ELSE UNCHANGED chipVars
  /\ running' = FALSE
  /\ UNCHANGED <<stopReason, state, thread, terminated, countVars, cmdVars,
                 ctlVars>>

WorkerReturns ==
  /\ WGoto("returning", "dead")
  /\ thread' = "done"
  /\ UNCHANGED <<running, stopReason, state, terminated, countVars, chipVars,
                 cmdVars, ctlVars>>

-----------------------------------------------------------------------------

StartStep(t) ==
  \/ StartExchange(t) \/ StartClearReason(t) \/ StartSetReady(t)
  \/ StartSpawn(t)

StopStep(t) ==
  \/ StopStore(t) \/ StopJoin(t) \/ StopClearRunning(t) \/ StopSetQuit(t)

ControlStep(t) ==
  StartStep(t) \/ StopStep(t) \/ (t = "mon" /\ WakeSetReady)

EventStep ==
  \E e \in Events : \/ SleepEvent(e) \/ ShutdownEvent(e) \/ WakeEvent(e)
                    \/ DebounceExpires(e)

ServiceStep ==
  \/ \E r \in IpcRequests : IpcRequest(r)
  \/ \E c \in PenReports : PenReport(c)
  \/ HostStop

WorkerStep ==
  \/ TakeReason \/ ConsumeScreenOff \/ ConsumeShutdown \/ ClearQueue
  \/ DrainCommand \/ DrainDone \/ LoadState
  \/ OnReady \/ ReadyOk \/ ReadyFail
  \/ FrameTimeout \/ FrameError \/ FrameOk \/ SetRecover
  \/ RecoverCount \/ RecoverGiveUp \/ RecoverWait \/ RecoverTry \/ RecoverOk
  \/ OnSuspend \/ SleepOver \/ OnQuit \/ WorkerReturns

\* Nothing runs in a process that std::terminate ended.
Next ==
  /\ ~terminated
  /\ \/ \E t \in Controllers : ControlStep(t)
     \/ EventStep
     \/ ServiceStep
     \/ WorkerStep

Spec == Init /\ [][Next]_vars

\* Operating-system scheduling: a thread that can take a step takes one.
\* Events, requests and pen reports need never come.
FairSpec ==
  /\ Spec
  /\ WF_vars(~terminated /\ WorkerStep)
  /\ \A t \in Controllers : WF_vars(~terminated /\ ControlStep(t))

-----------------------------------------------------------------------------
(* Properties.  OneControlThread says that the monitor and the App do not  *)
(* both drive the lifecycle: either nobody uses the two App requests, or   *)
(* the service runs without a monitor (ServiceHost.cpp:101).               *)

OneControlThread == Events = {} \/ IpcRequests = {}

\* Start never assigns a new std::thread over one that was not joined
\* (DeviceRuntime.cpp:51): restarting the runtime never ends the process.
NoTerminate == ~terminated

\* IsRunning() is false while a worker lives only if that worker has taken the
\* controller down and is about to return (DeviceRuntime.cpp:223-225): what a
\* Start() in that window assigns over is a thread that touches nothing more.
StoppedWorkerIsReturning ==
  thread = "running" /\ ~running => wpc = "returning" /\ ~conn

\* OnStreaming reads frames only from a controller that Init brought up and
\* that nothing has reset or shut down since.
FramesOnlyFromLiveChip == wpc = "streaming" => conn /\ chip = "inited"

\* While the worker sleeps in OnSuspend the controller is disconnected:
\* every way into suspend goes through HoldReset.
AsleepIsDisconnected == wpc = "asleep" => ~conn

\* Once frames flow, a pen that reported its disconnection is not tracked:
\* its DisconnectStylus is still queued, was executed, or Init forgot the pen.
DisconnectedPenNotTracked ==
  wpc = "streaming" /\ stylus /\ ~penLink =>
    \E i \in 1 .. Len(queue) : queue[i] = "DisconnectStylus"

\* After StopRuntime returned and until the next start there is no worker,
\* the state is quit and the controller is disconnected.
StoppedIsQuiet ==
  thread = "none" /\ (\A t \in Controllers : pc[t] \in {"idle", "gone"})
    => ~running /\ state = "quit" /\ ~conn

\* Once the monitor has finished handling a wake event and nothing newer
\* came, the worker does not fall back into suspend because of an older
\* sleep event; only giving up recovery may suspend it.
WakeIsNotUndone ==
  [][(/\ lastEvent \in WakeEvents
      /\ pc["mon"] = "idle"
      /\ state # "suspend"
      /\ state' = "suspend") => wpc = "recLimit"]_vars

\* A display-off or lid-closed event that is not followed by another event
\* ends with a worker that sleeps on a dropped connection, whatever it was
\* doing; whether the reset line went down as well is up to an ioctl whose
\* result HoldReset ignores.
SleepTakesEffect ==
  lastEvent \in SleepEvents /\ thread = "running"
    ~> \/ wpc = "asleep" /\ ~conn
       \/ lastEvent \notin SleepEvents
       \/ pc["host"] # "idle"
       \/ thread # "running"

\* Stop() never waits for ever for the worker.
StopReturns == \A t \in Controllers : pc[t] = "join" ~> pc[t] # "join"

\* Resuming from suspend with no stop request pending brings the worker to
\* Chip::Init, unless something newer happens.
CleanWakeTakesEffect ==
  AutoMode /\ pc["mon"] = "setReady" /\ stopReason = "None"
     /\ wpc \in {"suspend", "asleep"}
    ~> \/ state \in {"streaming", "recover"}
       \/ stopReason # "None"
       \/ pc["host"] # "idle"

\* A start that launches a worker brings it to Chip::Init, unless a stop is
\* requested meanwhile: what an earlier stop left behind cannot undo it.
StartTakesEffect ==
  \A t \in Controllers :
    AutoMode /\ pc[t] = "spawn"
      ~> \/ state \in {"streaming", "recover"}
         \/ \E u \in Controllers : pc[u] = "join"

\* The runtime implements RuntimeLifecycle: m_state only moves along its
\* edges, and streaming is entered only over a controller that is up.
Lifecycle == INSTANCE RuntimeLifecycle WITH phase <- state,
                                            up <- chip = "inited"
ImplementsLifecycle == Lifecycle!Spec
==============================================================================
