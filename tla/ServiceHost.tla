----------------------------- MODULE ServiceHost -----------------------------
(* The service process around the device runtime: ServiceShell's main and     *)
(* control handler threads, ServiceHost's start and stop of its modules, the  *)
(* SystemStateMonitor, the IPC pipe with the App at its other end, and the    *)
(* two HID channels of the BT MCU.  Every thread but the main one calls into  *)
(* DeviceRuntime, which the main thread owns.                                 *)
EXTENDS Integers

CONSTANTS Raised,             \* the named events that are raised, by index
          Discovering         \* the App looks for the service again and again

ASSUME ServiceAssumption == Raised \subseteq 0 .. 7 /\ Discovering \in BOOLEAN

Channels == {"bridge", "reader"}   \* PenEventBridge, PenPressureReader

\* The main thread, in order; "wait" is WaitForStop.
Starting == {"runtime", "monitor", "pipe", "bridge", "reader", "report"}
Stopping == {"stopPipe", "wakePipe", "joinPipe", "stopReader", "joinReader", "stopBridge",
             "joinBridge", "stopMonitor", "joinMonitor", "stopRuntime", "reportStop"}

VARIABLES main, full,         \* full: m_mode = ServiceMode::Full
          status, stopEvent,  \* what the SCM was told; m_stopEvent is signalled
          control,            \* ServiceShell's control handler
          alive,              \* m_deviceRuntime
          signalled, monStop, \* the monitor's named events, and its stop event
          monitor, serving,   \* WorkerLoop, and the index it is at
          serverOn, server,   \* IpcPipeServer: m_running, ServerLoop
          pipe, app,          \* the instance of the pipe; the App's end
          chanOn, channel     \* BtHidChannel: m_running, WorkerFunc

vars == <<main, full, status, stopEvent, control, alive, signalled, monStop, monitor,
          serving, serverOn, server, pipe, app, chanOn, channel>>
shell    == <<status, stopEvent, control>>
monitors == <<signalled, monStop, monitor, serving>>
pipes    == <<serverOn, server, pipe, app>>
channels == <<chanOn, channel>>

\* ReportStatus: in console mode there is no handle.
Told(s) == IF status = "console" THEN "console" ELSE s

Init == /\ main = "runtime" /\ full \in BOOLEAN /\ alive = FALSE
        /\ status \in {"startPending", "console"} /\ stopEvent = FALSE /\ control = "idle"
        /\ signalled = {} /\ monStop = FALSE /\ monitor = "none" /\ serving = 0
        /\ serverOn = FALSE /\ server = "none" /\ pipe = "none" /\ app = "away"
        /\ chanOn = [c \in Channels |-> FALSE] /\ channel = [c \in Channels |-> "none"]

----------------------------------------------------------------------------
\* ServiceHost::Start

StartRuntime == /\ main = "runtime" /\ main' = "monitor" /\ alive' = TRUE
                /\ UNCHANGED <<full, shell, monitors, pipes, channels>>

\* Without its events the monitor is given up and the service goes on.
StartMonitor == /\ main = "monitor" /\ main' = "pipe"
                /\ monitor' \in {"none", "wait"}
                /\ UNCHANGED <<full, shell, alive, signalled, monStop, serving, pipes, channels>>

StartPipe == /\ main = "pipe" /\ main' = IF full THEN "bridge" ELSE "report"
             /\ serverOn' = TRUE /\ server' = "check"
             /\ UNCHANGED <<full, shell, alive, monitors, pipe, app, channels>>

StartChannel(c) == /\ chanOn' = [chanOn EXCEPT ![c] = TRUE]
                   /\ channel' = [channel EXCEPT ![c] = "seek"]
                   /\ UNCHANGED <<full, shell, alive, monitors, pipes>>
StartBridge == main = "bridge" /\ main' = "reader" /\ StartChannel("bridge")
StartReader == main = "reader" /\ main' = "report" /\ StartChannel("reader")

ReportRunning == /\ main = "report" /\ main' = "wait" /\ status' = Told("running")
                 /\ UNCHANGED <<full, stopEvent, control, alive, monitors, pipes, channels>>

----------------------------------------------------------------------------
\* ServiceHost::Stop: the pipe, the pen, the monitor, the runtime

Goes(from, to) == /\ main = from /\ main' = to
                  /\ UNCHANGED <<full, alive>>

WaitForStop == /\ stopEvent /\ Goes("wait", "stopPipe")
               /\ UNCHANGED <<shell, monitors, pipes, channels>>

StopPipe == /\ Goes("stopPipe", "wakePipe") /\ serverOn' = FALSE
            /\ UNCHANGED <<shell, monitors, server, pipe, app, channels>>
\* The dummy connection is made only to an instance that waits for a client.
WakePipe == /\ Goes("wakePipe", "joinPipe")
            /\ pipe' = IF pipe = "listening" THEN "broken" ELSE pipe
            /\ UNCHANGED <<shell, monitors, serverOn, server, app, channels>>
JoinPipe == /\ server = "done" /\ Goes("joinPipe", "stopReader")
            /\ UNCHANGED <<shell, monitors, pipes, channels>>

StopChannel(c) == /\ chanOn' = [chanOn EXCEPT ![c] = FALSE]
                  /\ UNCHANGED <<shell, monitors, pipes, channel>>
\* Fault: the thread is not waited for.
JoinChannelNot(c) == UNCHANGED <<shell, monitors, pipes, channels>>
JoinChannel(c) == /\ channel[c] \in {"none", "done"}
                  /\ UNCHANGED <<shell, monitors, pipes, channels>>
StopReader == Goes("stopReader", "joinReader") /\ StopChannel("reader")
JoinReader == Goes("joinReader", "stopBridge") /\ JoinChannel("reader")
StopBridge == Goes("stopBridge", "joinBridge") /\ StopChannel("bridge")
JoinBridge == Goes("joinBridge", "stopMonitor") /\ JoinChannel("bridge")

StopMonitor == /\ Goes("stopMonitor", "joinMonitor") /\ monStop' = TRUE
               /\ UNCHANGED <<shell, signalled, monitor, serving, pipes, channels>>
JoinMonitor == /\ monitor \in {"none", "done"} /\ Goes("joinMonitor", "stopRuntime")
               /\ UNCHANGED <<shell, monitors, pipes, channels>>

StopRuntime == /\ main = "stopRuntime" /\ main' = "reportStop" /\ alive' = FALSE
               /\ UNCHANGED <<full, shell, monitors, pipes, channels>>
ReportStopped == /\ Goes("reportStop", "end") /\ status' = Told("stopped")
                 /\ UNCHANGED <<stopEvent, control, monitors, pipes, channels>>

----------------------------------------------------------------------------
\* SvcCtrlHandlerEx, on a thread of the SCM, which sends one control at a time
\* and a stop only to a service that runs; and Ctrl-C on the console

SetEvents(s) == signalled' = signalled \cup (s \cap Raised)

ShellStep == UNCHANGED <<main, full, alive, monStop, monitor, serving, pipes, channels>>

\* Stop or shutdown: the monitor's event, the status, the stop event.
ControlStop == /\ status = "running" /\ control = "idle" /\ control' = "report"
               /\ SetEvents({6}) /\ UNCHANGED <<status, stopEvent>> /\ ShellStep
\* Fault: the stop event is set before the SCM is told.
ControlSetFirst == /\ control = "report" /\ control' = "set" /\ stopEvent' = TRUE
                   /\ UNCHANGED <<status, signalled>> /\ ShellStep
ControlReport == /\ control = "report" /\ control' = "set"
                 /\ status' = Told("stopPending") /\ UNCHANGED <<stopEvent, signalled>> /\ ShellStep
ControlSet == /\ control = "set" /\ control' = "idle"
              /\ stopEvent' = TRUE /\ UNCHANGED <<status, signalled>> /\ ShellStep

\* A power event: display on or off, two events each, lid, resume.
ControlPower == /\ status = "running" /\ control = "idle"
                /\ \E s \in {{0, 2}, {1, 3}, {4}, {5}, {7}} : SetEvents(s)
                /\ UNCHANGED shell /\ ShellStep

CtrlC == /\ status = "console" /\ main \in Starting \cup {"wait"} /\ stopEvent' = TRUE
         /\ UNCHANGED <<status, control, signalled>> /\ ShellStep

\* The events have global names: any other process may raise them.
RaisedElsewhere == /\ \E i \in Raised : SetEvents({i})
                   /\ UNCHANGED shell /\ ShellStep

----------------------------------------------------------------------------
\* SystemStateMonitor::WorkerLoop

MonitorStep == UNCHANGED <<main, full, shell, alive, monStop, pipes, channels>>

\* The lowest handle that is signalled is served, and the stop event's is 0.
\* Fault: the stop event's handle is the last.
EndsLast == monStop /\ signalled = {}
Ends     == monStop
MonitorWake ==
    /\ monitor = "wait" /\ UNCHANGED signalled /\ MonitorStep
    /\ \/ Ends /\ monitor' = "done" /\ UNCHANGED serving
       \/ /\ ~Ends /\ monitor' = "call"
          /\ \E i \in signalled : (\A j \in signalled : i <= j) /\ serving' = i
\* The callback, IngestSystemEvent, returns; the event is reset after it.
MonitorReturn == /\ monitor = "call" /\ monitor' = "reset"
                 /\ UNCHANGED <<signalled, serving>> /\ MonitorStep
MonitorReset == /\ monitor = "reset" /\ monitor' = "wait" /\ signalled' = signalled \ {serving}
                /\ UNCHANGED serving /\ MonitorStep

----------------------------------------------------------------------------
\* IpcPipeServer::ServerLoop and the App's end of the pipe

PipeStep == UNCHANGED <<main, full, shell, alive, monitors, serverOn, channels>>

ServerCheck == /\ server = "check" /\ server' = IF serverOn THEN "create" ELSE "done"
               /\ UNCHANGED <<pipe, app>> /\ PipeStep
\* CreateNamedPipe; where it fails the loop ends.
ServerCreate == /\ server = "create"
                /\ \/ server' = "connect" /\ pipe' = "listening"
                   \/ server' = "done" /\ UNCHANGED pipe
                /\ UNCHANGED app /\ PipeStep
\* ConnectNamedPipe blocks until some client has opened the instance.
ServerConnect == /\ server = "connect" /\ pipe # "listening"
                 /\ server' = IF serverOn THEN "read" ELSE "close"
                 /\ UNCHANGED <<pipe, app>> /\ PipeStep
\* ReadFile blocks until there is a request, or no client any more.
ServerRead == /\ server = "read"
              /\ \/ pipe = "broken" /\ server' = "close"
                 \/ pipe = "client" /\ app = "asking" /\ server' = "handle"
              /\ UNCHANGED <<pipe, app>> /\ PipeStep
\* The handler returns and its response is written; m_running is looked at.
ServerReply == /\ server = "handle" /\ server' = IF serverOn THEN "read" ELSE "close"
               /\ app' = IF app = "asking" THEN "idle" ELSE app
               /\ UNCHANGED pipe /\ PipeStep
ServerClose == /\ server = "close" /\ server' = "check" /\ pipe' = "none"
               /\ UNCHANGED app /\ PipeStep

AppStep == UNCHANGED <<main, full, shell, alive, monitors, serverOn, server, channels>>

\* IpcPipeClient: Connect, Send, which blocks for its response, Disconnect.
AppConnect == /\ app = "away" /\ pipe = "listening"
              /\ app' = "idle" /\ pipe' = "client" /\ AppStep
AppSend == /\ app = "idle" /\ pipe = "client" /\ app' = "asking" /\ UNCHANGED pipe /\ AppStep
AppLeave == /\ app # "away" /\ app' = "away"
            /\ pipe' = IF pipe = "client" THEN "broken" ELSE pipe
            /\ AppStep

----------------------------------------------------------------------------
\* BtHidChannel::WorkerFunc

ChannelStep(c, to) == /\ channel' = [channel EXCEPT ![c] = to]
                      /\ UNCHANGED <<main, full, shell, alive, monitors, pipes, chanOn>>
Loops(c) == IF chanOn[c] THEN "read" ELSE "done"

\* The device is opened, or searched for until Stop.
ChannelOpen(c)    == channel[c] = "seek" /\ ChannelStep(c, Loops(c))
ChannelGiveUp(c)  == channel[c] = "seek" /\ ~chanOn[c] /\ ChannelStep(c, "done")
ChannelPacket(c)  == channel[c] = "read" /\ ChannelStep(c, "call")
ChannelTimeout(c) == channel[c] = "read" /\ ChannelStep(c, Loops(c))
\* The callback, SubmitCommand or SetBtMcuPressure, returns.
ChannelReturn(c)  == channel[c] = "call" /\ ChannelStep(c, Loops(c))

----------------------------------------------------------------------------
Main == \/ StartRuntime \/ StartMonitor \/ StartPipe \/ StartBridge \/ StartReader
        \/ ReportRunning \/ WaitForStop \/ StopPipe \/ WakePipe \/ JoinPipe
        \/ StopReader \/ JoinReader \/ StopBridge \/ JoinBridge
        \/ StopMonitor \/ JoinMonitor \/ StopRuntime \/ ReportStopped
Handler == ControlReport \/ ControlSet
Monitor == MonitorWake \/ MonitorReturn \/ MonitorReset
Server == \/ ServerCheck \/ ServerCreate \/ ServerConnect \/ ServerRead
          \/ ServerReply \/ ServerClose
Channel(c) == ChannelGiveUp(c) \/ ChannelTimeout(c) \/ ChannelReturn(c)

Next == \/ Main \/ Handler \/ Monitor \/ Server
        \/ ControlStop \/ ControlPower \/ CtrlC \/ RaisedElsewhere
        \/ AppConnect \/ AppSend \/ AppLeave
        \/ \E c \in Channels : ChannelOpen(c) \/ ChannelPacket(c) \/ Channel(c)

Spec == Init /\ [][Next]_vars

\* Threads run; a connected App polls (ServiceProxy.cpp:440) and one that
\* discovers connects again (ServiceProxy.cpp:150).
FairSpec == /\ Spec
            /\ WF_vars(Main) /\ WF_vars(Handler) /\ WF_vars(Monitor) /\ WF_vars(Server)
            /\ \A c \in Channels : WF_vars(Channel(c))
            /\ WF_vars(AppSend) /\ (Discovering => WF_vars(AppConnect))
            /\ WF_vars(AppLeave /\ pipe # "client")

----------------------------------------------------------------------------
\* Properties

TypeOK == /\ main \in Starting \cup Stopping \cup {"wait", "end"} /\ full \in BOOLEAN
          /\ status \in {"startPending", "console", "running", "stopPending", "stopped"}
          /\ stopEvent \in BOOLEAN /\ control \in {"idle", "report", "set"} /\ alive \in BOOLEAN
          /\ signalled \subseteq 0 .. 7 /\ monStop \in BOOLEAN
          /\ monitor \in {"none", "wait", "call", "reset", "done"} /\ serving \in 0 .. 7
          /\ serverOn \in BOOLEAN
          /\ server \in {"none", "check", "create", "connect", "read", "handle", "close", "done"}
          /\ pipe \in {"none", "listening", "client", "broken"} /\ app \in {"away", "idle", "asking"}
          /\ chanOn \in [Channels -> BOOLEAN]
          /\ channel \in [Channels -> {"none", "seek", "read", "call", "done"}]

\* "The pen channels are stopped first, so that no callback still uses
\* DeviceRuntime" (ServiceHost.cpp:274), and so with the pipe and the monitor.
RuntimeOutlivesUsers ==
    monitor = "call" \/ server = "handle" \/ (\E c \in Channels : channel[c] = "call") => alive

\* The SCM hears of STOPPED (ServiceShell.cpp:45) when no thread is left that
\* would run into the end of the process.
StoppedIsLast ==
    status = "stopped" => /\ monitor \in {"none", "done"} /\ server = "done" /\ ~alive
                          /\ control = "idle"
                          /\ \A c \in Channels : channel[c] \in {"none", "done"}

\* A stop that was asked for completes; the dummy connection of
\* IpcPipeServer::Stop is to unblock the server (IpcPipeServer.cpp:20).
StopCompletes == stopEvent ~> main = "end"
=============================================================================
