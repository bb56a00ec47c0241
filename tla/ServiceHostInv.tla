--------------------------- MODULE ServiceHostInv ---------------------------
(* The invariant behind RuntimeOutlivesUsers and StoppedIsLast: TLC finds it  *)
(* to hold, ServiceHost_proofs shows that it is inductive.                    *)
EXTENDS ServiceHost

Phases == Starting \cup Stopping \cup {"wait", "end"}
Ended  == {"none", "done"}

\* The runtime is there from its start to the last step of the stop.
AliveInv == alive <=> main \notin {"runtime", "reportStop", "end"}

\* Each thread runs only between its start and its join.
MonitorInv == monitor \notin Ended =>
                  main \in Phases \ {"runtime", "monitor", "stopRuntime", "reportStop", "end"}
ServerInv  == /\ server = "none" => main \in {"runtime", "monitor", "pipe"}
              /\ server \notin Ended => main \in {"bridge", "reader", "report", "wait", "stopPipe",
                                                  "wakePipe", "joinPipe"}
ChannelInv == /\ channel["bridge"] \notin Ended =>
                     main \in {"reader", "report", "wait"} \cup
                              (Stopping \ {"stopMonitor", "joinMonitor", "stopRuntime", "reportStop"})
              /\ channel["reader"] \notin Ended =>
                     main \in {"report", "wait", "stopPipe", "wakePipe", "joinPipe", "stopReader",
                               "joinReader"}

\* The stop event is the handler's last step, and the stop follows it.
ShellInv == /\ status = "console" => control = "idle"
            /\ status \in {"startPending", "running"} => ~stopEvent
            /\ main \in Starting => status \in {"startPending", "console"}
            /\ status = "startPending" => control = "idle"
            /\ control = "set" => status = "stopPending"
            /\ stopEvent /\ status # "console" => control = "idle"
            /\ main \in Stopping \cup {"end"} => stopEvent
            /\ status = "stopped" => main = "end"

IInv == TypeOK /\ AliveInv /\ MonitorInv /\ ServerInv /\ ChannelInv /\ ShellInv
=============================================================================
