------------------------- MODULE ServiceHost_proofs -------------------------
(* What TLC finds of ServiceHost, for every set of events that are raised.    *)
EXTENDS ServiceHostInv, TLAPS

\* The kinds of the variables, in two parts for the two provers.
Flags == /\ full \in BOOLEAN /\ stopEvent \in BOOLEAN /\ alive \in BOOLEAN
         /\ monStop \in BOOLEAN /\ serverOn \in BOOLEAN /\ chanOn \in [Channels -> BOOLEAN]
Values == /\ main \in Starting \cup Stopping \cup {"wait", "end"}
          /\ status \in {"startPending", "console", "running", "stopPending", "stopped"}
          /\ control \in {"idle", "report", "set"}
          /\ signalled \subseteq 0 .. 7 /\ serving \in 0 .. 7
          /\ monitor \in {"none", "wait", "call", "reset", "done"}
          /\ server \in {"none", "check", "create", "connect", "read", "handle", "close", "done"}
          /\ pipe \in {"none", "listening", "client", "broken"}
          /\ app \in {"away", "idle", "asking"}
          /\ channel \in [Channels -> {"none", "seek", "read", "call", "done"}]

\* One step per action.
LEMMA FlagsNext == Flags /\ [Next]_vars => Flags'
<1> SUFFICES ASSUME Flags, [Next]_vars PROVE Flags'
  OBVIOUS
<1>1. CASE StartRuntime
  BY <1>1, Zenon DEF StartRuntime, shell, monitors, pipes, channels, Flags, Channels
<1>2. CASE StartMonitor
  BY <1>2, Zenon DEF StartMonitor, shell, monitors, pipes, channels, Flags, Channels
<1>3. CASE StartPipe
  BY <1>3, Zenon DEF StartPipe, shell, monitors, pipes, channels, Flags, Channels
<1>4. CASE StartBridge
  BY <1>4, Zenon DEF StartBridge, StartChannel, shell, monitors, pipes, channels,
     Flags, Channels
<1>5. CASE StartReader
  BY <1>5, Zenon DEF StartReader, StartChannel, shell, monitors, pipes, channels,
     Flags, Channels
<1>6. CASE ReportRunning
  BY <1>6, Zenon DEF ReportRunning, Told, shell, monitors, pipes, channels, Flags,
     Channels
<1>7. CASE WaitForStop
  BY <1>7, Zenon DEF WaitForStop, Goes, shell, monitors, pipes, channels, Flags,
     Channels
<1>8. CASE StopPipe
  BY <1>8, Zenon DEF StopPipe, Goes, shell, monitors, pipes, channels, Flags, Channels
<1>9. CASE WakePipe
  BY <1>9, Zenon DEF WakePipe, Goes, shell, monitors, pipes, channels, Flags, Channels
<1>10. CASE JoinPipe
  BY <1>10, Zenon DEF JoinPipe, Goes, shell, monitors, pipes, channels, Flags,
     Channels
<1>11. CASE StopReader
  BY <1>11, Zenon DEF StopReader, Goes, StopChannel, shell, monitors, pipes, channels,
     Flags, Channels
<1>12. CASE JoinReader
  BY <1>12, Zenon DEF JoinReader, Goes, JoinChannel, shell, monitors, pipes, channels,
     Flags, Channels
<1>13. CASE StopBridge
  BY <1>13, Zenon DEF StopBridge, Goes, StopChannel, shell, monitors, pipes, channels,
     Flags, Channels
<1>14. CASE JoinBridge
  BY <1>14, Zenon DEF JoinBridge, Goes, JoinChannel, shell, monitors, pipes, channels,
     Flags, Channels
<1>15. CASE StopMonitor
  BY <1>15, Zenon DEF StopMonitor, Goes, shell, monitors, pipes, channels, Flags,
     Channels
<1>16. CASE JoinMonitor
  BY <1>16, Zenon DEF JoinMonitor, Goes, shell, monitors, pipes, channels, Flags,
     Channels
<1>17. CASE StopRuntime
  BY <1>17, Zenon DEF StopRuntime, shell, monitors, pipes, channels, Flags, Channels
<1>18. CASE ReportStopped
  BY <1>18, Zenon DEF ReportStopped, Goes, Told, shell, monitors, pipes, channels,
     Flags, Channels
<1>19. CASE ControlReport
  BY <1>19, Zenon DEF ControlReport, Told, ShellStep, shell, monitors, pipes,
     channels, Flags, Channels
<1>20. CASE ControlSet
  BY <1>20, Zenon DEF ControlSet, ShellStep, shell, monitors, pipes, channels, Flags,
     Channels
<1>21. CASE ControlStop
  BY <1>21, Zenon DEF ControlStop, SetEvents, ShellStep, shell, monitors, pipes,
     channels, Flags, Channels
<1>22. CASE ControlPower
  BY <1>22, Zenon DEF ControlPower, SetEvents, ShellStep, shell, monitors, pipes,
     channels, Flags, Channels
<1>23. CASE CtrlC
  BY <1>23, Zenon DEF CtrlC, ShellStep, shell, monitors, pipes, channels, Flags,
     Channels
<1>24. CASE RaisedElsewhere
  BY <1>24, Zenon DEF RaisedElsewhere, SetEvents, ShellStep, shell, monitors, pipes,
     channels, Flags, Channels
<1>25. CASE MonitorWake
  BY <1>25, Zenon DEF MonitorWake, Ends, MonitorStep, shell, monitors, pipes,
     channels, Flags, Channels
<1>26. CASE MonitorReturn
  BY <1>26, Zenon DEF MonitorReturn, MonitorStep, shell, monitors, pipes, channels,
     Flags, Channels
<1>27. CASE MonitorReset
  BY <1>27, Zenon DEF MonitorReset, MonitorStep, shell, monitors, pipes, channels,
     Flags, Channels
<1>28. CASE ServerCheck
  BY <1>28, Zenon DEF ServerCheck, PipeStep, shell, monitors, pipes, channels, Flags,
     Channels
<1>29. CASE ServerCreate
  BY <1>29, Zenon DEF ServerCreate, PipeStep, shell, monitors, pipes, channels, Flags,
     Channels
<1>30. CASE ServerConnect
  BY <1>30, Zenon DEF ServerConnect, PipeStep, shell, monitors, pipes, channels,
     Flags, Channels
<1>31. CASE ServerRead
  BY <1>31, Zenon DEF ServerRead, PipeStep, shell, monitors, pipes, channels, Flags,
     Channels
<1>32. CASE ServerReply
  BY <1>32, Zenon DEF ServerReply, PipeStep, shell, monitors, pipes, channels, Flags,
     Channels
<1>33. CASE ServerClose
  BY <1>33, Zenon DEF ServerClose, PipeStep, shell, monitors, pipes, channels, Flags,
     Channels
<1>34. CASE AppConnect
  BY <1>34, Zenon DEF AppConnect, AppStep, shell, monitors, pipes, channels, Flags,
     Channels
<1>35. CASE AppSend
  BY <1>35, Zenon DEF AppSend, AppStep, shell, monitors, pipes, channels, Flags,
     Channels
<1>36. CASE AppLeave
  BY <1>36, Zenon DEF AppLeave, AppStep, shell, monitors, pipes, channels, Flags,
     Channels
<1>37. ASSUME NEW c \in Channels, ChannelOpen(c) \/ ChannelPacket(c) \/ Channel(c)
      PROVE  Flags'
  BY <1>37, Zenon DEF ChannelOpen, ChannelPacket, Channel, ChannelGiveUp,
     ChannelTimeout, ChannelReturn, ChannelStep, Loops, shell, monitors, pipes,
     channels, Flags, Channels
<1>38. CASE UNCHANGED vars
  BY <1>38, Zenon DEF vars, shell, monitors, pipes, channels, Flags, Channels
<1>39. QED
  BY <1>1, <1>2, <1>3, <1>4, <1>5, <1>6, <1>7, <1>8, <1>9, <1>10, <1>11, <1>12, <1>13,
     <1>14, <1>15, <1>16, <1>17, <1>18, <1>19, <1>20, <1>21, <1>22, <1>23, <1>24,
     <1>25, <1>26, <1>27, <1>28, <1>29, <1>30, <1>31, <1>32, <1>33, <1>34, <1>35,
     <1>36, <1>37, <1>38 DEF Next, Main, Handler, Monitor, Server

\* Every step keeps the values.
LEMMA ValuesNext == Values /\ [Next]_vars => Values'
<1> SUFFICES ASSUME Values, [Next]_vars PROVE Values'
  OBVIOUS
<1> USE ServiceAssumption
<1>1. CASE StartRuntime
  BY <1>1 DEF StartRuntime, shell, monitors, pipes, channels, Values, Starting,
     Stopping, Channels
<1>2. CASE StartMonitor
  BY <1>2 DEF StartMonitor, shell, monitors, pipes, channels, Values, Starting,
     Stopping, Channels
<1>3. CASE StartPipe
  BY <1>3 DEF StartPipe, shell, monitors, pipes, channels, Values, Starting, Stopping,
     Channels
<1>4. CASE StartBridge
  BY <1>4 DEF StartBridge, StartChannel, shell, monitors, pipes, channels, Values,
     Starting, Stopping, Channels
<1>5. CASE StartReader
  BY <1>5 DEF StartReader, StartChannel, shell, monitors, pipes, channels, Values,
     Starting, Stopping, Channels
<1>6. CASE ReportRunning
  BY <1>6 DEF ReportRunning, Told, shell, monitors, pipes, channels, Values, Starting,
     Stopping, Channels
<1>7. CASE WaitForStop
  BY <1>7 DEF WaitForStop, Goes, shell, monitors, pipes, channels, Values, Starting,
     Stopping, Channels
<1>8. CASE StopPipe
  BY <1>8 DEF StopPipe, Goes, shell, monitors, pipes, channels, Values, Starting,
     Stopping, Channels
<1>9. CASE WakePipe
  BY <1>9 DEF WakePipe, Goes, shell, monitors, pipes, channels, Values, Starting,
     Stopping, Channels
<1>10. CASE JoinPipe
  BY <1>10 DEF JoinPipe, Goes, shell, monitors, pipes, channels, Values, Starting,
     Stopping, Channels
<1>11. CASE StopReader
  BY <1>11 DEF StopReader, Goes, StopChannel, shell, monitors, pipes, channels,
     Values, Starting, Stopping, Channels
<1>12. CASE JoinReader
  BY <1>12 DEF JoinReader, Goes, JoinChannel, shell, monitors, pipes, channels,
     Values, Starting, Stopping, Channels
<1>13. CASE StopBridge
  BY <1>13 DEF StopBridge, Goes, StopChannel, shell, monitors, pipes, channels,
     Values, Starting, Stopping, Channels
<1>14. CASE JoinBridge
  BY <1>14 DEF JoinBridge, Goes, JoinChannel, shell, monitors, pipes, channels,
     Values, Starting, Stopping, Channels
<1>15. CASE StopMonitor
  BY <1>15 DEF StopMonitor, Goes, shell, monitors, pipes, channels, Values, Starting,
     Stopping, Channels
<1>16. CASE JoinMonitor
  BY <1>16 DEF JoinMonitor, Goes, shell, monitors, pipes, channels, Values, Starting,
     Stopping, Channels
<1>17. CASE StopRuntime
  BY <1>17 DEF StopRuntime, shell, monitors, pipes, channels, Values, Starting,
     Stopping, Channels
<1>18. CASE ReportStopped
  BY <1>18 DEF ReportStopped, Goes, Told, shell, monitors, pipes, channels, Values,
     Starting, Stopping, Channels
<1>19. CASE ControlReport
  BY <1>19 DEF ControlReport, Told, ShellStep, shell, monitors, pipes, channels,
     Values, Starting, Stopping, Channels
<1>20. CASE ControlSet
  BY <1>20 DEF ControlSet, ShellStep, shell, monitors, pipes, channels, Values,
     Starting, Stopping, Channels
<1>21. CASE ControlStop
  BY <1>21 DEF ControlStop, SetEvents, ShellStep, shell, monitors, pipes, channels,
     Values, Starting, Stopping, Channels
<1>22. CASE ControlPower
  BY <1>22 DEF ControlPower, SetEvents, ShellStep, shell, monitors, pipes, channels,
     Values, Starting, Stopping, Channels
<1>23. CASE CtrlC
  BY <1>23 DEF CtrlC, ShellStep, shell, monitors, pipes, channels, Values, Starting,
     Stopping, Channels
<1>24. CASE RaisedElsewhere
  BY <1>24 DEF RaisedElsewhere, SetEvents, ShellStep, shell, monitors, pipes,
     channels, Values, Starting, Stopping, Channels
<1>25. CASE MonitorWake
  BY <1>25 DEF MonitorWake, Ends, MonitorStep, shell, monitors, pipes,
     channels, Values, Starting, Stopping, Channels
<1>26. CASE MonitorReturn
  BY <1>26 DEF MonitorReturn, MonitorStep, shell, monitors, pipes, channels, Values,
     Starting, Stopping, Channels
<1>27. CASE MonitorReset
  BY <1>27 DEF MonitorReset, MonitorStep, shell, monitors, pipes, channels, Values,
     Starting, Stopping, Channels
<1>28. CASE ServerCheck
  BY <1>28 DEF ServerCheck, PipeStep, shell, monitors, pipes, channels, Values,
     Starting, Stopping, Channels
<1>29. CASE ServerCreate
  BY <1>29 DEF ServerCreate, PipeStep, shell, monitors, pipes, channels, Values,
     Starting, Stopping, Channels
<1>30. CASE ServerConnect
  BY <1>30 DEF ServerConnect, PipeStep, shell, monitors, pipes, channels, Values,
     Starting, Stopping, Channels
<1>31. CASE ServerRead
  BY <1>31 DEF ServerRead, PipeStep, shell, monitors, pipes, channels, Values,
     Starting, Stopping, Channels
<1>32. CASE ServerReply
  BY <1>32 DEF ServerReply, PipeStep, shell, monitors, pipes, channels, Values,
     Starting, Stopping, Channels
<1>33. CASE ServerClose
  BY <1>33 DEF ServerClose, PipeStep, shell, monitors, pipes, channels, Values,
     Starting, Stopping, Channels
<1>34. CASE AppConnect
  BY <1>34 DEF AppConnect, AppStep, shell, monitors, pipes, channels, Values,
     Starting, Stopping, Channels
<1>35. CASE AppSend
  BY <1>35 DEF AppSend, AppStep, shell, monitors, pipes, channels, Values, Starting,
     Stopping, Channels
<1>36. CASE AppLeave
  BY <1>36 DEF AppLeave, AppStep, shell, monitors, pipes, channels, Values, Starting,
     Stopping, Channels
<1>37. ASSUME NEW c \in Channels, ChannelOpen(c) \/ ChannelPacket(c) \/ Channel(c)
      PROVE  Values'
  BY <1>37 DEF ChannelOpen, ChannelPacket, Channel, ChannelGiveUp, ChannelTimeout,
     ChannelReturn, ChannelStep, Loops, shell, monitors, pipes, channels, Values,
     Starting, Stopping, Channels
<1>38. CASE UNCHANGED vars
  BY <1>38 DEF vars, shell, monitors, pipes, channels, Values, Starting, Stopping,
     Channels
<1>39. QED
  BY <1>1, <1>2, <1>3, <1>4, <1>5, <1>6, <1>7, <1>8, <1>9, <1>10, <1>11, <1>12, <1>13,
     <1>14, <1>15, <1>16, <1>17, <1>18, <1>19, <1>20, <1>21, <1>22, <1>23, <1>24,
     <1>25, <1>26, <1>27, <1>28, <1>29, <1>30, <1>31, <1>32, <1>33, <1>34, <1>35,
     <1>36, <1>37, <1>38 DEF Next, Main, Handler, Monitor, Server

----------------------------------------------------------------------------
Core == AliveInv /\ MonitorInv /\ ServerInv /\ ChannelInv /\ ShellInv

\* The part of the invariant that is not typing.
LEMMA CoreNext == IInv /\ [Next]_vars => Core'
<1> SUFFICES ASSUME IInv, [Next]_vars PROVE Core'
  OBVIOUS
<1>1. CASE StartRuntime
  BY <1>1 DEF StartRuntime, shell, monitors, pipes, channels, IInv, Core, TypeOK,
     AliveInv, MonitorInv, ServerInv, ChannelInv, ShellInv, Phases, Ended, Starting,
     Stopping, Channels
<1>2. CASE StartMonitor
  BY <1>2 DEF StartMonitor, shell, monitors, pipes, channels, IInv, Core, TypeOK,
     AliveInv, MonitorInv, ServerInv, ChannelInv, ShellInv, Phases, Ended, Starting,
     Stopping, Channels
<1>3. CASE StartPipe
  BY <1>3 DEF StartPipe, shell, monitors, pipes, channels, IInv, Core, TypeOK,
     AliveInv, MonitorInv, ServerInv, ChannelInv, ShellInv, Phases, Ended, Starting,
     Stopping, Channels
<1>4. CASE StartBridge
  BY <1>4 DEF StartBridge, StartChannel, shell, monitors, pipes, channels, IInv, Core,
     TypeOK, AliveInv, MonitorInv, ServerInv, ChannelInv, ShellInv, Phases, Ended,
     Starting, Stopping, Channels
<1>5. CASE StartReader
  BY <1>5 DEF StartReader, StartChannel, shell, monitors, pipes, channels, IInv, Core,
     TypeOK, AliveInv, MonitorInv, ServerInv, ChannelInv, ShellInv, Phases, Ended,
     Starting, Stopping, Channels
<1>6. CASE ReportRunning
  BY <1>6 DEF ReportRunning, Told, shell, monitors, pipes, channels, IInv, Core,
     TypeOK, AliveInv, MonitorInv, ServerInv, ChannelInv, ShellInv, Phases, Ended,
     Starting, Stopping, Channels
<1>7. CASE WaitForStop
  BY <1>7 DEF WaitForStop, Goes, shell, monitors, pipes, channels, IInv, Core, TypeOK,
     AliveInv, MonitorInv, ServerInv, ChannelInv, ShellInv, Phases, Ended, Starting,
     Stopping, Channels
<1>8. CASE StopPipe
  BY <1>8 DEF StopPipe, Goes, shell, monitors, pipes, channels, IInv, Core, TypeOK,
     AliveInv, MonitorInv, ServerInv, ChannelInv, ShellInv, Phases, Ended, Starting,
     Stopping, Channels
<1>9. CASE WakePipe
  BY <1>9 DEF WakePipe, Goes, shell, monitors, pipes, channels, IInv, Core, TypeOK,
     AliveInv, MonitorInv, ServerInv, ChannelInv, ShellInv, Phases, Ended, Starting,
     Stopping, Channels
<1>10. CASE JoinPipe
  BY <1>10 DEF JoinPipe, Goes, shell, monitors, pipes, channels, IInv, Core, TypeOK,
     AliveInv, MonitorInv, ServerInv, ChannelInv, ShellInv, Phases, Ended, Starting,
     Stopping, Channels
<1>11. CASE StopReader
  BY <1>11 DEF StopReader, Goes, StopChannel, shell, monitors, pipes, channels, IInv,
     Core, TypeOK, AliveInv, MonitorInv, ServerInv, ChannelInv, ShellInv, Phases,
     Ended, Starting, Stopping, Channels
<1>12. CASE JoinReader
  BY <1>12 DEF JoinReader, Goes, JoinChannel, shell, monitors, pipes, channels, IInv,
     Core, TypeOK, AliveInv, MonitorInv, ServerInv, ChannelInv, ShellInv, Phases,
     Ended, Starting, Stopping, Channels
<1>13. CASE StopBridge
  BY <1>13 DEF StopBridge, Goes, StopChannel, shell, monitors, pipes, channels, IInv,
     Core, TypeOK, AliveInv, MonitorInv, ServerInv, ChannelInv, ShellInv, Phases,
     Ended, Starting, Stopping, Channels
<1>14. CASE JoinBridge
  BY <1>14 DEF JoinBridge, Goes, JoinChannel, shell, monitors, pipes, channels, IInv,
     Core, TypeOK, AliveInv, MonitorInv, ServerInv, ChannelInv, ShellInv, Phases,
     Ended, Starting, Stopping, Channels
<1>15. CASE StopMonitor
  BY <1>15 DEF StopMonitor, Goes, shell, monitors, pipes, channels, IInv, Core,
     TypeOK, AliveInv, MonitorInv, ServerInv, ChannelInv, ShellInv, Phases, Ended,
     Starting, Stopping, Channels
<1>16. CASE JoinMonitor
  BY <1>16 DEF JoinMonitor, Goes, shell, monitors, pipes, channels, IInv, Core,
     TypeOK, AliveInv, MonitorInv, ServerInv, ChannelInv, ShellInv, Phases, Ended,
     Starting, Stopping, Channels
<1>17. CASE StopRuntime
  BY <1>17 DEF StopRuntime, shell, monitors, pipes, channels, IInv, Core, TypeOK,
     AliveInv, MonitorInv, ServerInv, ChannelInv, ShellInv, Phases, Ended, Starting,
     Stopping, Channels
<1>18. CASE ReportStopped
  BY <1>18 DEF ReportStopped, Goes, Told, shell, monitors, pipes, channels, IInv,
     Core, TypeOK, AliveInv, MonitorInv, ServerInv, ChannelInv, ShellInv, Phases,
     Ended, Starting, Stopping, Channels
<1>19. CASE ControlReport
  BY <1>19 DEF ControlReport, Told, ShellStep, shell, monitors, pipes, channels, IInv,
     Core, TypeOK, AliveInv, MonitorInv, ServerInv, ChannelInv, ShellInv, Phases,
     Ended, Starting, Stopping, Channels
<1>20. CASE ControlSet
  BY <1>20 DEF ControlSet, ShellStep, shell, monitors, pipes, channels, IInv, Core,
     TypeOK, AliveInv, MonitorInv, ServerInv, ChannelInv, ShellInv, Phases, Ended,
     Starting, Stopping, Channels
<1>21. CASE ControlStop
  BY <1>21 DEF ControlStop, SetEvents, ShellStep, shell, monitors, pipes, channels,
     IInv, Core, TypeOK, AliveInv, MonitorInv, ServerInv, ChannelInv, ShellInv,
     Phases, Ended, Starting, Stopping, Channels
<1>22. CASE ControlPower
  BY <1>22 DEF ControlPower, SetEvents, ShellStep, shell, monitors, pipes, channels,
     IInv, Core, TypeOK, AliveInv, MonitorInv, ServerInv, ChannelInv, ShellInv,
     Phases, Ended, Starting, Stopping, Channels
<1>23. CASE CtrlC
  BY <1>23 DEF CtrlC, ShellStep, shell, monitors, pipes, channels, IInv, Core, TypeOK,
     AliveInv, MonitorInv, ServerInv, ChannelInv, ShellInv, Phases, Ended, Starting,
     Stopping, Channels
<1>24. CASE RaisedElsewhere
  BY <1>24 DEF RaisedElsewhere, SetEvents, ShellStep, shell, monitors, pipes,
     channels, IInv, Core, TypeOK, AliveInv, MonitorInv, ServerInv, ChannelInv,
     ShellInv, Phases, Ended, Starting, Stopping, Channels
<1>25. CASE MonitorWake
  BY <1>25 DEF MonitorWake, Ends, MonitorStep, shell, monitors, pipes,
     channels, IInv, Core, TypeOK, AliveInv, MonitorInv, ServerInv, ChannelInv,
     ShellInv, Phases, Ended, Starting, Stopping, Channels
<1>26. CASE MonitorReturn
  BY <1>26 DEF MonitorReturn, MonitorStep, shell, monitors, pipes, channels, IInv,
     Core, TypeOK, AliveInv, MonitorInv, ServerInv, ChannelInv, ShellInv, Phases,
     Ended, Starting, Stopping, Channels
<1>27. CASE MonitorReset
  BY <1>27 DEF MonitorReset, MonitorStep, shell, monitors, pipes, channels, IInv,
     Core, TypeOK, AliveInv, MonitorInv, ServerInv, ChannelInv, ShellInv, Phases,
     Ended, Starting, Stopping, Channels
<1>28. CASE ServerCheck
  BY <1>28 DEF ServerCheck, PipeStep, shell, monitors, pipes, channels, IInv, Core,
     TypeOK, AliveInv, MonitorInv, ServerInv, ChannelInv, ShellInv, Phases, Ended,
     Starting, Stopping, Channels
<1>29. CASE ServerCreate
  BY <1>29 DEF ServerCreate, PipeStep, shell, monitors, pipes, channels, IInv, Core,
     TypeOK, AliveInv, MonitorInv, ServerInv, ChannelInv, ShellInv, Phases, Ended,
     Starting, Stopping, Channels
<1>30. CASE ServerConnect
  BY <1>30 DEF ServerConnect, PipeStep, shell, monitors, pipes, channels, IInv, Core,
     TypeOK, AliveInv, MonitorInv, ServerInv, ChannelInv, ShellInv, Phases, Ended,
     Starting, Stopping, Channels
<1>31. CASE ServerRead
  BY <1>31 DEF ServerRead, PipeStep, shell, monitors, pipes, channels, IInv, Core,
     TypeOK, AliveInv, MonitorInv, ServerInv, ChannelInv, ShellInv, Phases, Ended,
     Starting, Stopping, Channels
<1>32. CASE ServerReply
  BY <1>32 DEF ServerReply, PipeStep, shell, monitors, pipes, channels, IInv, Core,
     TypeOK, AliveInv, MonitorInv, ServerInv, ChannelInv, ShellInv, Phases, Ended,
     Starting, Stopping, Channels
<1>33. CASE ServerClose
  BY <1>33 DEF ServerClose, PipeStep, shell, monitors, pipes, channels, IInv, Core,
     TypeOK, AliveInv, MonitorInv, ServerInv, ChannelInv, ShellInv, Phases, Ended,
     Starting, Stopping, Channels
<1>34. CASE AppConnect
  BY <1>34 DEF AppConnect, AppStep, shell, monitors, pipes, channels, IInv, Core,
     TypeOK, AliveInv, MonitorInv, ServerInv, ChannelInv, ShellInv, Phases, Ended,
     Starting, Stopping, Channels
<1>35. CASE AppSend
  BY <1>35 DEF AppSend, AppStep, shell, monitors, pipes, channels, IInv, Core, TypeOK,
     AliveInv, MonitorInv, ServerInv, ChannelInv, ShellInv, Phases, Ended, Starting,
     Stopping, Channels
<1>36. CASE AppLeave
  BY <1>36 DEF AppLeave, AppStep, shell, monitors, pipes, channels, IInv, Core,
     TypeOK, AliveInv, MonitorInv, ServerInv, ChannelInv, ShellInv, Phases, Ended,
     Starting, Stopping, Channels
<1>37. ASSUME NEW c \in Channels, ChannelOpen(c) \/ ChannelPacket(c) \/ Channel(c)
      PROVE  Core'
  BY <1>37 DEF ChannelOpen, ChannelPacket, Channel, ChannelGiveUp, ChannelTimeout,
     ChannelReturn, ChannelStep, Loops, shell, monitors, pipes, channels, IInv, Core,
     TypeOK, AliveInv, MonitorInv, ServerInv, ChannelInv, ShellInv, Phases, Ended,
     Starting, Stopping, Channels
<1>38. CASE UNCHANGED vars
  BY <1>38 DEF vars, shell, monitors, pipes, channels, IInv, Core, TypeOK, AliveInv,
     MonitorInv, ServerInv, ChannelInv, ShellInv, Phases, Ended, Starting, Stopping,
     Channels
<1>39. QED
  BY <1>1, <1>2, <1>3, <1>4, <1>5, <1>6, <1>7, <1>8, <1>9, <1>10, <1>11, <1>12, <1>13,
     <1>14, <1>15, <1>16, <1>17, <1>18, <1>19, <1>20, <1>21, <1>22, <1>23, <1>24,
     <1>25, <1>26, <1>27, <1>28, <1>29, <1>30, <1>31, <1>32, <1>33, <1>34, <1>35,
     <1>36, <1>37, <1>38 DEF Next, Main, Handler, Monitor, Server

\* A process that just started satisfies the invariant.
LEMMA InvInit == Init => IInv
<1> SUFFICES ASSUME Init PROVE IInv
  OBVIOUS
<1>1. Flags
  BY Zenon DEF Init, Flags, Channels
<1>2. Values
  BY DEF Init, Values, Starting, Stopping, Channels
<1>3. AliveInv /\ MonitorInv /\ ServerInv /\ ChannelInv /\ ShellInv
  BY DEF Init, AliveInv, MonitorInv, ServerInv, ChannelInv, ShellInv, Phases, Ended, Starting,
         Stopping, Channels
<1> QED
  BY <1>1, <1>2, <1>3 DEF IInv, TypeOK, Flags, Values

\* The invariant holds in every reachable state, whatever events come and in either mode.
THEOREM Invariance == Spec => []IInv
<1>1. ASSUME IInv, [Next]_vars PROVE IInv'
  <2>1. Flags /\ Values
    BY <1>1 DEF IInv, TypeOK, Flags, Values
  <2>2. TypeOK'
    BY <1>1, <2>1, FlagsNext, ValuesNext DEF TypeOK, Flags, Values
  <2> QED
    BY <1>1, <2>2, CoreNext DEF IInv, Core
<1> QED
  BY <1>1, InvInit, PTL DEF Spec

\* Type correctness, whatever events are raised.
THEOREM Types == Spec => []TypeOK
  BY Invariance, PTL DEF IInv

\* No callback, command or packet is handled without a runtime.
THEOREM UsersAreSafe == Spec => []RuntimeOutlivesUsers
<1>1. IInv => RuntimeOutlivesUsers
  BY DEF IInv, TypeOK, AliveInv, MonitorInv, ServerInv, ChannelInv, RuntimeOutlivesUsers, Phases,
         Ended, Starting, Stopping, Channels
<1> QED
  BY <1>1, Invariance, PTL

\* The SCM is told last.
THEOREM ToldLast == Spec => []StoppedIsLast
<1>1. IInv => StoppedIsLast
  BY DEF IInv, TypeOK, AliveInv, MonitorInv, ServerInv, ChannelInv, ShellInv, StoppedIsLast,
         Phases, Ended, Starting, Stopping, Channels
<1> QED
  BY <1>1, Invariance, PTL
=============================================================================
