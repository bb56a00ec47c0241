-------------------------- MODULE DeviceRuntimeInv --------------------------
(***************************************************************************)
(* The inductive invariants behind the safety properties of DeviceRuntime, *)
(* by named parts.  ReadInv holds whatever threads call into the runtime;  *)
(* IInv holds as long as the monitor and the App call one after the other. *)
(* The proofs are in DeviceRuntime_proofs.                                 *)
(***************************************************************************)
EXTENDS DeviceRuntime

-----------------------------------------------------------------------------
(* Any threads.                                                            *)

LiveChip == conn /\ chip = "inited"

\* Other threads move the phase to ready or quit only, so that what takes the
\* controller down never meets the phase streaming.
LiveInv ==
  /\ state = "streaming" \/ wpc \in {"streaming", "readyOk", "recOk"} => LiveChip
  /\ wpc \in {"ready", "readyOk", "readyFail", "recover", "recLimit", "recWait",
              "recTry", "recOk", "suspend", "asleep", "quit", "returning", "dead",
              "clear"}
       => state # "streaming"

DisconnectQueued == \E i \in 1 .. Len(queue) : queue[i] = "DisconnectStylus"

\* Behind every InitStylus in the queue there is a DisconnectStylus.
InitCovered ==
  \A i \in 1 .. Len(queue) : queue[i] = "InitStylus" =>
    \E j \in i + 1 .. Len(queue) : queue[j] = "DisconnectStylus"

\* No Init, which would forget the pen, stands between the worker and the
\* next frame.
NearFrame == state = "streaming" \/ wpc \in {"streaming", "readyOk", "recOk"}

\* A tracked pen has a DisconnectStylus coming before the next frame.
TrackedCovered == stylus /\ NearFrame => DisconnectQueued

PenInv == ~penLink => InitCovered /\ TrackedCovered

ReadInv == TypeOK /\ LiveInv /\ PenInv

-----------------------------------------------------------------------------
(* Threads that call in turn.                                              *)

\* The monitor and the pipe server are never both in Start, Stop or a wake.
CallsDoNotOverlap == pc["mon"] = "idle" \/ pc["ipc"] = "idle"

\* No start request of the App can follow a shutdown event, whose worker
\* nobody joins.
StartsAreJoined == IpcRequests = {} \/ "Shutdown" \notin Events

\* The monitor and the pipe server start an operation only while the host
\* serves, and the host stops after both.
ControlInv ==
  /\ Events = {} => pc["mon"] = "idle"
  /\ IpcRequests = {} => pc["ipc"] = "idle"
  /\ pc["host"] # "idle" => pc["mon"] = "idle" /\ pc["ipc"] = "idle"
  /\ \A t \in Controllers : pc[t] = "gone" => t = "host"
  /\ \A t \in Controllers : pc[t] = "setReady" => t = "mon"

\* What a control thread knows of the worker thread at each of its points.
ThreadInv ==
  /\ thread = "running" <=> wpc # "dead"
  /\ thread = "running" => running \/ wpc = "returning"
  /\ \A t \in Controllers :
       /\ pc[t] \in {"clearReason", "started", "spawn"}
            => /\ running
               /\ thread = "running" => wpc = "returning"
               /\ StartsAreJoined => thread = "none"
       /\ pc[t] \in {"stopped", "setQuit", "gone"} => thread = "none"
       /\ pc[t] = "setQuit" => ~running
       /\ pc[t] = "start" /\ t # "ipc" => ~running /\ thread = "none"
       /\ pc[t] = "spawn" => state = "ready"
       /\ pc[t] = "setReady" => thread # "none"
  /\ StartsAreJoined => ~terminated

\* Without shutdown events only Stop() asks a worker to quit, and it is
\* waiting.
QuitInv ==
  "Shutdown" \notin Events =>
    /\ \A t \in Controllers :
         pc[t] \in {"started", "spawn"} => stopReason # "Shutdown"
    /\ \/ thread = "running" /\ stopReason # "Shutdown"
          /\ wpc \notin {"setQuit", "quit", "returning"} /\ state # "quit"
       \/ thread = "none"
       \/ \E t \in Controllers : pc[t] = "join"

\* The phase the worker can find at each of its points: only a wake (ready)
\* reaches it from another thread while it lives.
StateInv ==
  /\ wpc \in {"returning", "dead"} => state \in {"quit", "ready"}
  /\ wpc \in {"top", "setSuspend"} => state # "quit"
  /\ wpc = "clear" => state \in {"suspend", "quit", "ready"}
  /\ wpc \in {"suspend", "asleep"} => state \in {"suspend", "ready"}
  /\ wpc \in {"ready", "readyOk", "readyFail"} => state = "ready"
  /\ wpc \in {"streaming", "setRecover"} => state = "streaming"
  /\ wpc \in {"recover", "recLimit", "recWait", "recTry", "recOk"}
       => state = "recover"
  /\ wpc = "quit" => state \in {"quit", "ready"}
  /\ pc["mon"] = "setReady" => state \in {"suspend", "quit"}

\* Every way into suspend asks for the reset, or finds no connection.
SleepInv ==
  /\ wpc = "recLimit" => needDeinit
  /\ state = "suspend" => needDeinit \/ ~conn
  /\ wpc = "suspend" => needDeinit \/ ~conn
  /\ wpc = "asleep" => ~conn

\* A worker that has left OnQuit left the controller disconnected; without a
\* worker only an unfinished Start or Stop keeps m_running or m_state up.
QuietInv ==
  /\ wpc \in {"returning", "dead"} => ~conn
  /\ ~AutoMode =>
       /\ ~conn
       /\ state \notin {"streaming", "recover"}
       /\ wpc \in {"top", "setSuspend", "setQuit", "clear", "drain", "load",
                   "ready", "suspend", "asleep", "quit", "returning", "dead"}
  /\ thread = "none" =>
       /\ \/ ~running
          \/ \E t \in Controllers :
               pc[t] \in {"clearReason", "started", "spawn", "stopped"}
       /\ \/ state = "quit"
          \/ \E t \in Controllers : pc[t] \in {"spawn", "stopped", "setQuit"}

\* Everything that needs the calls to be in turn.
Core == ControlInv /\ ThreadInv /\ QuitInv /\ StateInv /\ SleepInv /\ QuietInv

IInv == ReadInv /\ Core
==============================================================================
