------------------------ MODULE DeviceRuntime_proofs ------------------------
(***************************************************************************)
(* Proofs about DeviceRuntime: its types, the frames and the pen for any   *)
(* threads; for threads that call in turn the inductive invariant of       *)
(* DeviceRuntimeInv, the safety properties that follow from it, and that   *)
(* every step is a step of RuntimeLifecycle or a stutter.                  *)
(***************************************************************************)
EXTENDS DeviceRuntimeInv, TLAPS

-----------------------------------------------------------------------------
(* Types.                                                                  *)

\* The initial state is typed.
LEMMA InitTyped == Init => TypeOK
<1> SUFFICES ASSUME Init PROVE TypeOK
  OBVIOUS
<1>1. recoverCount \in 0 .. MaxRecover + 1 /\ frameErrors \in 0 .. MaxFrameErrors
  BY ConstantsOK DEF Init
<1>2. pc \in [Controllers -> ControlPoints]
  BY DEF Init, ControlPoints
<1>3. state \in States /\ wpc \in WorkerPoints
  BY DEF Init, States, WorkerPoints
<1>4. queue \in Seq({"InitStylus", "DisconnectStylus", "ForceToFreqPoint"})
  BY DEF Init
<1>5. QED
  BY <1>1, <1>2, <1>3, <1>4 DEF Init, TypeOK

\* A step of any thread keeps the types.
LEMMA StepTyped == TypeOK /\ [Next]_vars => TypeOK'
<1> SUFFICES ASSUME TypeOK, Next PROVE TypeOK'
  BY DEF TypeOK, vars
<1>1. ASSUME NEW t \in Controllers, StartExchange(t) PROVE TypeOK'
  <2>1. pc' \in [Controllers -> ControlPoints]
    BY <1>1 DEF StartExchange, Goto, TypeOK, ControlPoints
  <2>2. QED
    BY <1>1, <2>1 DEF StartExchange, TypeOK, countVars, chipVars, cmdVars
<1>2. ASSUME NEW t \in Controllers, StartClearReason(t) PROVE TypeOK'
  <2>1. pc' \in [Controllers -> ControlPoints]
    BY <1>2 DEF StartClearReason, Goto, TypeOK, ControlPoints
  <2>2. QED
    BY <1>2, <2>1 DEF StartClearReason, TypeOK, lifeVars, countVars,
       chipVars, cmdVars
<1>3. ASSUME NEW t \in Controllers, StartSetReady(t) PROVE TypeOK'
  <2>1. pc' \in [Controllers -> ControlPoints]
    BY <1>3 DEF StartSetReady, Goto, TypeOK, ControlPoints
  <2>2. recoverCount' \in 0 .. MaxRecover + 1 /\ frameErrors' \in 0 ..
     MaxFrameErrors
    BY <1>3, ConstantsOK DEF StartSetReady, TypeOK
  <2>3. QED
    BY <1>3, <2>1, <2>2 DEF StartSetReady, TypeOK, States, lifeVars,
       chipVars, cmdVars
<1>4. ASSUME NEW t \in Controllers, StartSpawn(t) PROVE TypeOK'
  <2>1. pc' \in [Controllers -> ControlPoints]
    BY <1>4 DEF StartSpawn, Goto, TypeOK, ControlPoints
  <2>2. wpc' \in WorkerPoints
    BY <1>4 DEF StartSpawn, TypeOK, WorkerPoints, States
  <2>3. QED
    BY <1>4, <2>1, <2>2 DEF StartSpawn, TypeOK, countVars, chipVars, cmdVars
<1>5. ASSUME NEW t \in Controllers, StopStore(t) PROVE TypeOK'
  <2>1. pc' \in [Controllers -> ControlPoints]
    BY <1>5 DEF StopStore, Goto, TypeOK, ControlPoints
  <2>2. QED
    BY <1>5, <2>1 DEF StopStore, TypeOK, lifeVars, countVars, chipVars,
       cmdVars
<1>6. ASSUME NEW t \in Controllers, StopJoin(t) PROVE TypeOK'
  <2>1. pc' \in [Controllers -> ControlPoints]
    BY <1>6 DEF StopJoin, Goto, TypeOK, ControlPoints
  <2>2. QED
    BY <1>6, <2>1 DEF StopJoin, TypeOK, countVars, chipVars, cmdVars
<1>7. ASSUME NEW t \in Controllers, StopClearRunning(t) PROVE TypeOK'
  <2>1. pc' \in [Controllers -> ControlPoints]
    BY <1>7 DEF StopClearRunning, Goto, TypeOK, ControlPoints
  <2>2. QED
    BY <1>7, <2>1 DEF StopClearRunning, TypeOK, countVars, chipVars, cmdVars
<1>8. ASSUME NEW t \in Controllers, StopSetQuit(t) PROVE TypeOK'
  <2>1. pc' \in [Controllers -> ControlPoints]
    BY <1>8 DEF StopSetQuit, Goto, Controllers, TypeOK, ControlPoints
  <2>2. QED
    BY <1>8, <2>1 DEF StopSetQuit, TypeOK, States, lifeVars, countVars,
       chipVars, cmdVars
<1>9. ASSUME WakeSetReady PROVE TypeOK'
  <2>1. pc' \in [Controllers -> ControlPoints]
    BY <1>9 DEF WakeSetReady, Goto, Controllers, TypeOK, ControlPoints
  <2>2. QED
    BY <1>9, <2>1 DEF WakeSetReady, TypeOK, States, lifeVars, countVars,
       chipVars, cmdVars
<1>10. ASSUME NEW e \in Events, SleepEvent(e) PROVE TypeOK'
  BY <1>10 DEF SleepEvent, TypeOK, Ingest, lifeVars, countVars, chipVars,
     cmdVars
<1>11. ASSUME NEW e \in Events, ShutdownEvent(e) PROVE TypeOK'
  BY <1>11 DEF ShutdownEvent, TypeOK, Ingest, lifeVars, countVars,
     chipVars, cmdVars
<1>12. ASSUME NEW e \in Events, WakeEvent(e) PROVE TypeOK'
  <2>1. pc' \in [Controllers -> ControlPoints]
    BY <1>12 DEF WakeEvent, Ingest, Controllers, TypeOK, ControlPoints
  <2>2. QED
    BY <1>12, <2>1 DEF WakeEvent, TypeOK, Ingest, lifeVars, countVars,
       chipVars, cmdVars
<1>13. ASSUME NEW e \in Events, DebounceExpires(e) PROVE TypeOK'
  BY <1>13 DEF DebounceExpires, TypeOK, countVars, chipVars, cmdVars
<1>14. ASSUME NEW r \in IpcRequests, IpcRequest(r) PROVE TypeOK'
  <2>1. pc' \in [Controllers -> ControlPoints]
    BY <1>14 DEF IpcRequest, Goto, Controllers, TypeOK, ControlPoints
  <2>2. QED
    BY <1>14, <2>1 DEF IpcRequest, TypeOK, lifeVars, countVars, chipVars,
       cmdVars
<1>15. ASSUME NEW c \in PenReports, PenReport(c) PROVE TypeOK'
  <2>1. queue' \in Seq({"InitStylus", "DisconnectStylus", "ForceToFreqPoint"})
    BY <1>15, ConstantsOK DEF PenReport, TypeOK
  <2>2. QED
    BY <1>15, <2>1 DEF PenReport, TypeOK, ctlVars, lifeVars, countVars,
       chipVars
<1>16. ASSUME HostStop PROVE TypeOK'
  <2>1. pc' \in [Controllers -> ControlPoints]
    BY <1>16 DEF HostStop, Goto, Controllers, TypeOK, ControlPoints
  <2>2. QED
    BY <1>16, <2>1 DEF HostStop, TypeOK, lifeVars, countVars, chipVars,
       cmdVars
<1>17. ASSUME TakeReason PROVE TypeOK'
  <2>1. wpc' \in WorkerPoints
    BY <1>17 DEF TakeReason, WGoto, TypeOK, WorkerPoints, States
  <2>2. QED
    BY <1>17, <2>1 DEF TakeReason, TypeOK, ctlVars, lifeVars, countVars,
       chipVars, cmdVars
<1>18. ASSUME ConsumeScreenOff PROVE TypeOK'
  <2>1. wpc' \in WorkerPoints
    BY <1>18 DEF ConsumeScreenOff, WGoto, TypeOK, WorkerPoints, States
  <2>2. QED
    BY <1>18, <2>1 DEF ConsumeScreenOff, TypeOK, States, ctlVars, lifeVars,
       chipVars, cmdVars
<1>19. ASSUME ConsumeShutdown PROVE TypeOK'
  <2>1. wpc' \in WorkerPoints
    BY <1>19 DEF ConsumeShutdown, WGoto, TypeOK, WorkerPoints, States
  <2>2. QED
    BY <1>19, <2>1 DEF ConsumeShutdown, TypeOK, States, ctlVars, lifeVars,
       countVars, chipVars, cmdVars
<1>20. ASSUME ClearQueue PROVE TypeOK'
  <2>1. wpc' \in WorkerPoints
    BY <1>20 DEF ClearQueue, WGoto, TypeOK, WorkerPoints, States
  <2>2. QED
    BY <1>20, <2>1 DEF ClearQueue, TypeOK, ctlVars, lifeVars, countVars,
       chipVars
<1>21. ASSUME DrainCommand PROVE TypeOK'
  <2>1. stylus' \in BOOLEAN /\ conn' \in BOOLEAN
    BY <1>21 DEF DrainCommand, SendCommand, TypeOK
  <2>2. chip' \in {"held", "raw", "inited"}
    BY <1>21 DEF DrainCommand, SendCommand, TypeOK
  <2>3. QED
    BY <1>21, <2>1, <2>2 DEF DrainCommand, TypeOK, ctlVars, lifeVars,
       countVars
<1>22. ASSUME DrainDone PROVE TypeOK'
  <2>1. wpc' \in WorkerPoints
    BY <1>22 DEF DrainDone, WGoto, TypeOK, WorkerPoints, States
  <2>2. QED
    BY <1>22, <2>1 DEF DrainDone, TypeOK, ctlVars, lifeVars, countVars,
       chipVars, cmdVars
<1>23. ASSUME LoadState PROVE TypeOK'
  <2>1. wpc' \in WorkerPoints
    BY <1>23 DEF LoadState, WGoto, TypeOK, WorkerPoints, States
  <2>2. QED
    BY <1>23, <2>1 DEF LoadState, TypeOK, ctlVars, lifeVars, countVars,
       chipVars, cmdVars
<1>24. ASSUME OnReady PROVE TypeOK'
  <2>1. wpc' \in WorkerPoints
    BY <1>24 DEF OnReady, TypeOK, WorkerPoints, States
  <2>2. stylus' \in BOOLEAN /\ conn' \in BOOLEAN
    BY <1>24 DEF OnReady, InitOk, InitFails, TypeOK, chipVars
  <2>3. chip' \in {"held", "raw", "inited"}
    BY <1>24 DEF OnReady, InitOk, InitFails, TypeOK, chipVars
  <2>4. QED
    BY <1>24, <2>1, <2>2, <2>3 DEF OnReady, TypeOK, ctlVars, lifeVars,
       countVars, chipVars, cmdVars
<1>25. ASSUME ReadyOk PROVE TypeOK'
  <2>1. wpc' \in WorkerPoints
    BY <1>25 DEF ReadyOk, WGoto, TypeOK, WorkerPoints, States
  <2>2. QED
    BY <1>25, <2>1 DEF ReadyOk, TypeOK, States, ctlVars, lifeVars,
       countVars, chipVars, cmdVars
<1>26. ASSUME ReadyFail PROVE TypeOK'
  <2>1. wpc' \in WorkerPoints
    BY <1>26 DEF ReadyFail, WGoto, TypeOK, WorkerPoints, States
  <2>2. QED
    BY <1>26, <2>1 DEF ReadyFail, TypeOK, States, ctlVars, lifeVars,
       countVars, chipVars, cmdVars
<1>27. ASSUME FrameTimeout PROVE TypeOK'
  <2>1. wpc' \in WorkerPoints
    BY <1>27 DEF FrameTimeout, WGoto, TypeOK, WorkerPoints, States
  <2>2. QED
    BY <1>27, <2>1 DEF FrameTimeout, TypeOK, ctlVars, lifeVars, countVars,
       chipVars, cmdVars
<1>28. ASSUME FrameError PROVE TypeOK'
  <2>1. wpc' \in WorkerPoints
    BY <1>28 DEF FrameError, WGoto, TypeOK, WorkerPoints, States
  <2>2. recoverCount' \in 0 .. MaxRecover + 1 /\ frameErrors' \in 0 ..
     MaxFrameErrors
    BY <1>28, ConstantsOK DEF FrameError, TypeOK
  <2>3. QED
    BY <1>28, <2>1, <2>2 DEF FrameError, TypeOK, ctlVars, lifeVars,
       chipVars, cmdVars
<1>29. ASSUME FrameOk PROVE TypeOK'
  <2>1. wpc' \in WorkerPoints
    BY <1>29 DEF FrameOk, WGoto, TypeOK, WorkerPoints, States
  <2>2. recoverCount' \in 0 .. MaxRecover + 1 /\ frameErrors' \in 0 ..
     MaxFrameErrors
    BY <1>29, ConstantsOK DEF FrameOk, TypeOK
  <2>3. QED
    BY <1>29, <2>1, <2>2 DEF FrameOk, TypeOK, ctlVars, lifeVars, chipVars
<1>30. ASSUME SetRecover PROVE TypeOK'
  <2>1. wpc' \in WorkerPoints
    BY <1>30 DEF SetRecover, WGoto, TypeOK, WorkerPoints, States
  <2>2. QED
    BY <1>30, <2>1 DEF SetRecover, TypeOK, States, ctlVars, lifeVars,
       countVars, chipVars, cmdVars
<1>31. ASSUME RecoverCount PROVE TypeOK'
  <2>1. wpc' \in WorkerPoints
    BY <1>31 DEF RecoverCount, WGoto, TypeOK, WorkerPoints, States
  <2>2. recoverCount' \in 0 .. MaxRecover + 1 /\ frameErrors' \in 0 ..
     MaxFrameErrors
    BY <1>31, ConstantsOK DEF RecoverCount, TypeOK
  <2>3. QED
    BY <1>31, <2>1, <2>2 DEF RecoverCount, TypeOK, ctlVars, lifeVars,
       chipVars, cmdVars
<1>32. ASSUME RecoverGiveUp PROVE TypeOK'
  <2>1. wpc' \in WorkerPoints
    BY <1>32 DEF RecoverGiveUp, WGoto, TypeOK, WorkerPoints, States
  <2>2. QED
    BY <1>32, <2>1 DEF RecoverGiveUp, TypeOK, States, ctlVars, lifeVars,
       countVars, chipVars, cmdVars
<1>33. ASSUME RecoverWait PROVE TypeOK'
  <2>1. wpc' \in WorkerPoints
    BY <1>33 DEF RecoverWait, WGoto, TypeOK, WorkerPoints, States
  <2>2. QED
    BY <1>33, <2>1 DEF RecoverWait, TypeOK, ctlVars, lifeVars, countVars,
       chipVars, cmdVars
<1>34. ASSUME RecoverTry PROVE TypeOK'
  <2>1. wpc' \in WorkerPoints
    BY <1>34 DEF RecoverTry, TypeOK, WorkerPoints, States
  <2>2. stylus' \in BOOLEAN /\ conn' \in BOOLEAN
    BY <1>34 DEF RecoverTry, InitOk, InitFails, TypeOK, chipVars
  <2>3. chip' \in {"held", "raw", "inited"}
    BY <1>34 DEF RecoverTry, InitOk, InitFails, TypeOK, chipVars
  <2>4. QED
    BY <1>34, <2>1, <2>2, <2>3 DEF RecoverTry, TypeOK, ctlVars, lifeVars,
       countVars, chipVars, cmdVars
<1>35. ASSUME RecoverOk PROVE TypeOK'
  <2>1. wpc' \in WorkerPoints
    BY <1>35 DEF RecoverOk, WGoto, TypeOK, WorkerPoints, States
  <2>2. recoverCount' \in 0 .. MaxRecover + 1 /\ frameErrors' \in 0 ..
     MaxFrameErrors
    BY <1>35, ConstantsOK DEF RecoverOk, TypeOK
  <2>3. QED
    BY <1>35, <2>1, <2>2 DEF RecoverOk, TypeOK, States, ctlVars, lifeVars,
       chipVars, cmdVars
<1>36. ASSUME OnSuspend PROVE TypeOK'
  <2>1. wpc' \in WorkerPoints
    BY <1>36 DEF OnSuspend, WGoto, TypeOK, WorkerPoints, States
  <2>2. stylus' \in BOOLEAN /\ conn' \in BOOLEAN
    BY <1>36 DEF OnSuspend, HoldReset, TypeOK, chipVars
  <2>3. chip' \in {"held", "raw", "inited"}
    BY <1>36 DEF OnSuspend, HoldReset, TypeOK, chipVars
  <2>4. QED
    BY <1>36, <2>1, <2>2, <2>3 DEF OnSuspend, TypeOK, ctlVars, lifeVars,
       chipVars, cmdVars
<1>37. ASSUME SleepOver PROVE TypeOK'
  <2>1. wpc' \in WorkerPoints
    BY <1>37 DEF SleepOver, WGoto, TypeOK, WorkerPoints, States
  <2>2. QED
    BY <1>37, <2>1 DEF SleepOver, TypeOK, ctlVars, lifeVars, countVars,
       chipVars, cmdVars
<1>38. ASSUME WorkerReturns PROVE TypeOK'
  <2>1. wpc' \in WorkerPoints
    BY <1>38 DEF WorkerReturns, WGoto, TypeOK, WorkerPoints, States
  <2>2. QED
    BY <1>38, <2>1 DEF WorkerReturns, TypeOK, ctlVars, countVars, chipVars,
       cmdVars
<1>39. ASSUME OnQuit PROVE TypeOK'
  <2>1. wpc' \in WorkerPoints
    BY <1>39 DEF OnQuit, WGoto, TypeOK, WorkerPoints, States
  <2>2. stylus' \in BOOLEAN /\ conn' \in BOOLEAN
    BY <1>39 DEF OnQuit, Deinit, TypeOK, chipVars
  <2>3. chip' \in {"held", "raw", "inited"}
    BY <1>39 DEF OnQuit, Deinit, TypeOK, chipVars
  <2>4. QED
    BY <1>39, <2>1, <2>2, <2>3 DEF OnQuit, TypeOK, ctlVars, countVars,
       chipVars, cmdVars
<1>40. QED
  BY <1>1, <1>2, <1>3, <1>4, <1>5, <1>6, <1>7, <1>8, <1>9, <1>10, <1>11,
     <1>12, <1>13, <1>14, <1>15, <1>16, <1>17, <1>18, <1>19, <1>20, <1>21,
     <1>22, <1>23, <1>24, <1>25, <1>26, <1>27, <1>28, <1>29, <1>30, <1>31,
     <1>32, <1>33, <1>34, <1>35, <1>36, <1>37, <1>38, <1>39
     DEF Next, ControlStep, StartStep, StopStep, EventStep, ServiceStep,
        WorkerStep

\* Every variable keeps its type, whatever threads drive the runtime.
THEOREM TypeCorrect == Spec => []TypeOK
<1>1. QED
  BY InitTyped, StepTyped, PTL DEF Spec

-----------------------------------------------------------------------------
(* What any threads leave: the controller is live where frames are read,   *)
(* and a pen that left is released.                                        *)

\* Every step keeps the controller live where frames are or may be read.
LEMMA StepKeepsLive == ASSUME ReadInv, Next PROVE LiveInv'
<1> USE DEF ReadInv, LiveInv, LiveChip
<1>1. ASSUME NEW t \in Controllers, ControlStep(t) PROVE LiveInv'
  <2>1. ASSUME StartStep(t) PROVE LiveInv'
    BY <2>1 DEF StartStep, StartExchange, StartClearReason, StartSetReady,
       StartSpawn, chipVars
  <2>2. ASSUME StopStep(t) \/ WakeSetReady PROVE LiveInv'
    BY <2>2 DEF StopStep, StopStore, StopJoin, StopClearRunning, StopSetQuit,
       WakeSetReady, chipVars
  <2>3. QED
    BY <1>1, <2>1, <2>2 DEF ControlStep
<1>2. ASSUME EventStep \/ ServiceStep PROVE LiveInv'
  BY <1>2 DEF EventStep, SleepEvent, ShutdownEvent, WakeEvent,
     DebounceExpires, ServiceStep, IpcRequest, PenReport, HostStop, chipVars
<1>3. ASSUME WorkerStep PROVE LiveInv'
  <2>1. ASSUME \/ TakeReason \/ ConsumeScreenOff \/ ConsumeShutdown
               \/ ClearQueue \/ DrainDone
        PROVE LiveInv'
    BY <2>1 DEF TakeReason, ConsumeScreenOff, ConsumeShutdown, ClearQueue,
       DrainDone, WGoto, chipVars, TypeOK
  <2>2. ASSUME DrainCommand PROVE LiveInv'
    BY <2>2 DEF DrainCommand
  <2>3. ASSUME LoadState PROVE LiveInv'
    BY <2>3 DEF LoadState, WGoto, chipVars, TypeOK, States
  <2>4. ASSUME OnReady \/ RecoverTry PROVE LiveInv'
    BY <2>4 DEF OnReady, RecoverTry, InitOk, InitFails, chipVars
  <2>5. ASSUME \/ ReadyOk \/ ReadyFail \/ FrameTimeout \/ FrameError
               \/ FrameOk \/ SetRecover
        PROVE LiveInv'
    BY <2>5 DEF ReadyOk, ReadyFail, FrameTimeout, FrameError, FrameOk,
       SetRecover, WGoto, chipVars
  <2>6. ASSUME \/ RecoverCount \/ RecoverGiveUp \/ RecoverWait \/ RecoverOk
               \/ SleepOver
        PROVE LiveInv'
    BY <2>6 DEF RecoverCount, RecoverGiveUp, RecoverWait, RecoverOk,
       SleepOver, WGoto, chipVars
  <2>7. ASSUME OnSuspend \/ OnQuit \/ WorkerReturns PROVE LiveInv'
    BY <2>7 DEF OnSuspend, OnQuit, WorkerReturns, HoldReset, Deinit, WGoto,
       chipVars
  <2>8. QED
    BY <1>3, <2>1, <2>2, <2>3, <2>4, <2>5, <2>6, <2>7 DEF WorkerStep
<1>4. QED
  BY <1>1, <1>2, <1>3 DEF Next

\* A drained command leaves what it found covered, and a pen it connected too.
LEMMA PenDrain == ASSUME ReadInv, DrainCommand PROVE PenInv'
<1> SUFFICES ASSUME ~penLink PROVE InitCovered' /\ TrackedCovered'
  BY DEF PenInv, DrainCommand, cmdVars
<1>1. /\ Len(queue') = Len(queue) - 1
      /\ Len(queue) \in Nat \ {0}
      /\ Len(queue') \in Nat
      /\ \A i \in 1 .. Len(queue') : queue'[i] = queue[i + 1]
  BY DEF DrainCommand, ReadInv, TypeOK
<1>2. InitCovered /\ TrackedCovered
  BY DEF ReadInv, PenInv
<1>3. InitCovered'
  <2> SUFFICES ASSUME NEW i \in 1 .. Len(queue'), queue'[i] = "InitStylus"
               PROVE \E j \in i + 1 .. Len(queue') : queue'[j] = "DisconnectStylus"
    BY DEF InitCovered
  <2>1. queue[i + 1] = "InitStylus" /\ i + 1 \in 1 .. Len(queue)
    BY <1>1
  <2>2. PICK k \in i + 2 .. Len(queue) : queue[k] = "DisconnectStylus"
    BY <1>2, <2>1 DEF InitCovered
  <2>3. queue'[k - 1] = "DisconnectStylus" /\ k - 1 \in i + 1 .. Len(queue')
    BY <1>1, <2>2
  <2>4. QED
    BY <2>3
<1>4. TrackedCovered'
  <2> SUFFICES ASSUME stylus', NearFrame
               PROVE DisconnectQueued'
    BY DEF TrackedCovered, DrainCommand, NearFrame
  <2>1. conn
    BY DEF ReadInv, LiveInv, DrainCommand, LiveChip, NearFrame
  <2>2. \E k \in 2 .. Len(queue) : queue[k] = "DisconnectStylus"
    <3>1. CASE stylus
      <4>1. queue[1] # "DisconnectStylus"
        BY <2>1, <3>1 DEF DrainCommand, SendCommand
      <4>2. PICK k \in 1 .. Len(queue) : queue[k] = "DisconnectStylus"
        BY <1>2, <3>1 DEF TrackedCovered, DisconnectQueued
      <4>3. QED
        BY <1>1, <4>1, <4>2
    <3>2. CASE ~stylus
      <4>1. stylus' # stylus /\ stylus' # FALSE
        BY <3>2
      <4>2. Head(queue) = "InitStylus"
        BY <4>1 DEF DrainCommand, SendCommand
      <4>3. Head(queue) = queue[1]
        BY <1>1 DEF ReadInv, TypeOK
      <4>4. QED
        BY <1>1, <1>2, <4>2, <4>3 DEF InitCovered
    <3>3. QED
      BY <3>1, <3>2
  <2>3. PICK k \in 2 .. Len(queue) : queue[k] = "DisconnectStylus"
    BY <2>2
  <2>4. queue'[k - 1] = "DisconnectStylus" /\ k - 1 \in 1 .. Len(queue')
    BY <1>1, <2>3
  <2>5. QED
    BY <2>4 DEF DisconnectQueued
<1>5. QED
  BY <1>3, <1>4

\* A command appended behind the others covers what they covered.
LEMMA PenAppend ==
  ASSUME ReadInv, ~penLink,
         NEW c \in {"InitStylus", "DisconnectStylus", "ForceToFreqPoint"},
         queue' = Append(queue, c)
  PROVE  /\ c # "InitStylus" => InitCovered'
         /\ DisconnectQueued => DisconnectQueued'
<1>1. /\ Len(queue') = Len(queue) + 1
      /\ Len(queue) \in Nat
      /\ queue'[Len(queue) + 1] = c
      /\ \A i \in 1 .. Len(queue) : queue'[i] = queue[i]
  BY DEF ReadInv, TypeOK
<1>2. ASSUME c # "InitStylus" PROVE InitCovered'
  <2> SUFFICES ASSUME NEW i \in 1 .. Len(queue'), queue'[i] = "InitStylus"
               PROVE \E j \in i + 1 .. Len(queue') : queue'[j] = "DisconnectStylus"
    BY DEF InitCovered
  <2>1. i \in 1 .. Len(queue) /\ queue[i] = "InitStylus"
    BY <1>1, <1>2
  <2>2. PICK k \in i + 1 .. Len(queue) : queue[k] = "DisconnectStylus"
    BY <2>1 DEF ReadInv, PenInv, InitCovered
  <2>3. QED
    BY <1>1, <2>1, <2>2
<1>3. ASSUME DisconnectQueued PROVE DisconnectQueued'
  BY <1>1, <1>3 DEF DisconnectQueued
<1>4. QED
  BY <1>2, <1>3

\* The frequency command of a frame is appended while a pen is tracked.
LEMMA PenFrame == ASSUME ReadInv, FrameOk PROVE PenInv'
<1> SUFFICES ASSUME ~penLink, queue' # queue PROVE InitCovered' /\ TrackedCovered'
  BY DEF ReadInv, PenInv, InitCovered, TrackedCovered, DisconnectQueued,
         NearFrame, FrameOk, WGoto, chipVars
<1>1. stylus /\ queue' = Append(queue, "ForceToFreqPoint") /\ NearFrame
  BY DEF FrameOk, WGoto, NearFrame
<1>2. InitCovered' /\ (DisconnectQueued => DisconnectQueued')
  BY <1>1, PenAppend
<1>3. DisconnectQueued
  BY <1>1 DEF ReadInv, PenInv, TrackedCovered
<1>4. QED
  BY <1>2, <1>3 DEF TrackedCovered

\* A pen report that unlinks the pen appends the DisconnectStylus itself.
LEMMA PenSubmit == ASSUME ReadInv, NEW c \in PenReports, PenReport(c) PROVE PenInv'
<1> SUFFICES ASSUME ~penLink' PROVE InitCovered' /\ TrackedCovered'
  BY DEF PenInv
<1>1. c = "DisconnectStylus" /\ queue' = Append(queue, c)
  BY ConstantsOK DEF PenReport
<1>2. /\ Len(queue') = Len(queue) + 1
      /\ Len(queue) \in Nat
      /\ queue'[Len(queue) + 1] = "DisconnectStylus"
      /\ \A i \in 1 .. Len(queue) : queue'[i] = queue[i]
  BY <1>1 DEF ReadInv, TypeOK
<1>3. InitCovered'
  BY <1>2 DEF InitCovered
<1>4. DisconnectQueued'
  BY <1>2 DEF DisconnectQueued
<1>5. QED
  BY <1>3, <1>4 DEF TrackedCovered

\* A step that leaves the queue and the link alone keeps PenInv if it brings
\* a tracked pen no closer to a frame.
LEMMA PenFrameRule ==
  ASSUME PenInv, UNCHANGED <<queue, penLink>>,
         stylus' => stylus,
         stylus' /\ NearFrame' => NearFrame
  PROVE  PenInv'
<1>1. QED
  BY DEF PenInv, InitCovered, TrackedCovered, DisconnectQueued

\* Every step keeps the pen invariant.
LEMMA StepKeepsPen == ASSUME ReadInv, Next PROVE PenInv'
<1> DEFINE Undisturbed == /\ UNCHANGED <<queue, penLink>>
                          /\ stylus' => stylus
                          /\ stylus' /\ NearFrame' => NearFrame
<1>1. Undisturbed => PenInv'
  BY PenFrameRule DEF ReadInv
<1> USE DEF NearFrame, Undisturbed
<1>2. ASSUME NEW t \in Controllers, ControlStep(t) PROVE PenInv'
  <2>1. ASSUME StartStep(t) PROVE Undisturbed
    BY <2>1 DEF StartStep, StartExchange, StartClearReason, StartSetReady,
       StartSpawn, ReadInv, LiveInv, lifeVars, countVars, chipVars,
          cmdVars
  <2>2. ASSUME StopStep(t) \/ WakeSetReady PROVE Undisturbed
    BY <2>2 DEF StopStep, StopStore, StopJoin, StopClearRunning, StopSetQuit,
       WakeSetReady, lifeVars, countVars, chipVars, cmdVars
  <2>3. QED
    BY <1>1, <1>2, <2>1, <2>2 DEF ControlStep
<1>3. ASSUME EventStep PROVE PenInv'
  BY <1>1, <1>3 DEF EventStep, SleepEvent, ShutdownEvent, WakeEvent,
     DebounceExpires, Ingest, chipVars, cmdVars
<1>4. ASSUME ServiceStep PROVE PenInv'
  <2>1. ASSUME NEW r \in IpcRequests, IpcRequest(r) PROVE PenInv'
    BY <1>1, <2>1 DEF IpcRequest, chipVars, cmdVars
  <2>2. ASSUME HostStop PROVE PenInv'
    BY <1>1, <2>2 DEF HostStop, chipVars, cmdVars
  <2>3. QED
    BY <1>4, <2>1, <2>2, PenSubmit DEF ServiceStep
<1>5. ASSUME WorkerStep PROVE PenInv'
  <2>1. ASSUME TakeReason PROVE Undisturbed
    BY <2>1 DEF TakeReason, WGoto, ReadInv, TypeOK, States, LiveInv, cmdVars,
       chipVars
  <2>2. ASSUME ConsumeScreenOff PROVE Undisturbed
    BY <2>2 DEF ConsumeScreenOff, WGoto, ReadInv, LiveInv, cmdVars,
       chipVars
  <2>3. ASSUME ConsumeShutdown PROVE Undisturbed
    BY <2>3 DEF ConsumeShutdown, WGoto, ReadInv, LiveInv, cmdVars,
       chipVars
  <2>4. ASSUME DrainDone PROVE Undisturbed
    BY <2>4 DEF DrainDone, WGoto, ReadInv, LiveInv, cmdVars, chipVars
  <2>5. ASSUME LoadState PROVE Undisturbed
    BY <2>5 DEF LoadState, WGoto, ReadInv, TypeOK, States, LiveInv, cmdVars,
       chipVars
  <2>6. ASSUME OnReady PROVE Undisturbed
    BY <2>6 DEF OnReady, ReadInv, LiveInv, cmdVars, chipVars, InitOk,
       InitFails
  <2>7. ASSUME ReadyOk PROVE Undisturbed
    BY <2>7 DEF ReadyOk, WGoto, ReadInv, LiveInv, cmdVars, chipVars
  <2>8. ASSUME ReadyFail PROVE Undisturbed
    BY <2>8 DEF ReadyFail, WGoto, ReadInv, LiveInv, cmdVars, chipVars
  <2>9. ASSUME FrameTimeout PROVE Undisturbed
    BY <2>9 DEF FrameTimeout, WGoto, ReadInv, LiveInv, cmdVars, chipVars
  <2>10. ASSUME FrameError PROVE Undisturbed
    BY <2>10 DEF FrameError, WGoto, ReadInv, LiveInv, cmdVars, chipVars
  <2>11. ASSUME SetRecover PROVE Undisturbed
    BY <2>11 DEF SetRecover, WGoto, ReadInv, LiveInv, cmdVars, chipVars
  <2>12. ASSUME RecoverCount PROVE Undisturbed
    BY <2>12 DEF RecoverCount, WGoto, ReadInv, LiveInv, cmdVars, chipVars
  <2>13. ASSUME RecoverGiveUp PROVE Undisturbed
    BY <2>13 DEF RecoverGiveUp, WGoto, ReadInv, LiveInv, cmdVars, chipVars
  <2>14. ASSUME RecoverWait PROVE Undisturbed
    BY <2>14 DEF RecoverWait, WGoto, ReadInv, LiveInv, cmdVars, chipVars
  <2>15. ASSUME RecoverTry PROVE Undisturbed
    BY <2>15 DEF RecoverTry, ReadInv, LiveInv, cmdVars, chipVars, InitOk,
       InitFails
  <2>16. ASSUME RecoverOk PROVE Undisturbed
    BY <2>16 DEF RecoverOk, WGoto, ReadInv, LiveInv, cmdVars, chipVars
  <2>17. ASSUME OnSuspend PROVE Undisturbed
    BY <2>17 DEF OnSuspend, WGoto, ReadInv, LiveInv, cmdVars, chipVars,
       HoldReset
  <2>18. ASSUME SleepOver PROVE Undisturbed
    BY <2>18 DEF SleepOver, WGoto, ReadInv, LiveInv, cmdVars, chipVars
  <2>19. ASSUME OnQuit PROVE Undisturbed
    BY <2>19 DEF OnQuit, WGoto, ReadInv, LiveInv, cmdVars, chipVars,
       Deinit
  <2>20. ASSUME WorkerReturns PROVE Undisturbed
    BY <2>20 DEF WorkerReturns, WGoto, ReadInv, LiveInv, cmdVars, chipVars
  <2>21. ASSUME ClearQueue PROVE PenInv'
    BY <2>21 DEF ClearQueue, WGoto, ReadInv, LiveInv, PenInv,
       InitCovered, TrackedCovered
  <2>22. QED
    BY <1>1, <1>5, <2>1, <2>2, <2>3, <2>4, <2>5, <2>6, <2>7, <2>8, <2>9,
       <2>10, <2>11, <2>12, <2>13, <2>14, <2>15, <2>16, <2>17, <2>18, <2>19,
       <2>20, <2>21, PenDrain, PenFrame DEF WorkerStep
<1>6. QED
  BY <1>2, <1>3, <1>4, <1>5 DEF Next

\* ReadInv holds initially.
LEMMA InitReads == Init => ReadInv
<1> SUFFICES ASSUME Init PROVE ReadInv
  OBVIOUS
<1>1. TypeOK
  BY InitTyped
<1>2. LiveInv /\ PenInv
  BY DEF Init, LiveInv, PenInv, InitCovered, TrackedCovered
<1>3. QED
  BY <1>1, <1>2 DEF ReadInv

\* Every step of any thread keeps it.
LEMMA StepReads == ReadInv /\ [Next]_vars => ReadInv'
<1> SUFFICES ASSUME ReadInv, [Next]_vars PROVE ReadInv'
  OBVIOUS
<1>1. TypeOK'
  BY StepTyped DEF ReadInv
<1>2. CASE Next
  BY <1>1, <1>2, StepKeepsLive, StepKeepsPen DEF ReadInv
<1>3. CASE UNCHANGED vars
  <2>1. LiveInv' /\ PenInv'
    BY <1>3 DEF vars, ReadInv, LiveInv, LiveChip, PenInv, InitCovered,
       TrackedCovered, DisconnectQueued, NearFrame
  <2>2. QED
    BY <1>1, <2>1 DEF ReadInv
<1>4. QED
  BY <1>2, <1>3

\* Frames are read only from a controller that Init brought up and nothing
\* reset since, whatever threads start, stop, wake or put to sleep.
THEOREM FramesAreLive == Spec => []FramesOnlyFromLiveChip
<1>1. ReadInv => FramesOnlyFromLiveChip
  BY DEF ReadInv, LiveInv, LiveChip, FramesOnlyFromLiveChip
<1>2. QED
  BY <1>1, InitReads, StepReads, PTL DEF Spec

\* Whatever threads act and whatever the bus does to the commands, a pen that
\* reported its disconnection is not tracked once its command has been drained.
THEOREM PenIsReleased == Spec => []DisconnectedPenNotTracked
<1>1. ReadInv => DisconnectedPenNotTracked
  BY DEF ReadInv, PenInv, TrackedCovered, NearFrame, DisconnectQueued,
     DisconnectedPenNotTracked
<1>2. QED
  BY <1>1, InitReads, StepReads, PTL DEF Spec

-----------------------------------------------------------------------------
(* The inductive invariant for calls in turn.                              *)

\* Start, Stop and the wake path keep what calls in turn rely on.
LEMMA ControlKeepsCore ==
  ASSUME CallsDoNotOverlap, CallsDoNotOverlap', IInv, NEW t \in Controllers, ControlStep(t)
  PROVE  Core'
<1> USE DEF CallsDoNotOverlap, StartsAreJoined, IInv, ReadInv, Core, TypeOK,
   LiveInv, ControlInv, ThreadInv, QuitInv, StateInv, SleepInv, LiveChip,
   QuietInv, Controllers, States, ControlPoints, WorkerPoints, Serving
<1>1. ASSUME StartExchange(t) PROVE Core'
  BY <1>1 DEF StartExchange, Goto, countVars, chipVars, cmdVars
<1>2. ASSUME StartClearReason(t) PROVE Core'
  BY <1>2 DEF StartClearReason, Goto, lifeVars, countVars, chipVars, cmdVars
<1>3. ASSUME StartSetReady(t) PROVE Core'
  BY <1>3 DEF StartSetReady, Goto, lifeVars, chipVars, cmdVars
<1>4. ASSUME StartSpawn(t) PROVE Core'
  BY <1>4 DEF StartSpawn, Goto, countVars, chipVars, cmdVars
<1>5. ASSUME StopStore(t) PROVE Core'
  BY <1>5 DEF StopStore, Goto, lifeVars, countVars, chipVars, cmdVars
<1>6. ASSUME StopJoin(t) PROVE Core'
  BY <1>6 DEF StopJoin, Goto, countVars, chipVars, cmdVars
<1>7. ASSUME StopClearRunning(t) PROVE Core'
  BY <1>7 DEF StopClearRunning, Goto, countVars, chipVars, cmdVars
<1>8. ASSUME StopSetQuit(t) PROVE Core'
  BY <1>8 DEF StopSetQuit, Goto, lifeVars, countVars, chipVars, cmdVars
<1>9. ASSUME WakeSetReady PROVE Core'
  BY <1>9 DEF WakeSetReady, Goto, lifeVars, countVars, chipVars, cmdVars
<1>10. QED
  BY <1>1, <1>2, <1>3, <1>4, <1>5, <1>6, <1>7, <1>8, <1>9 DEF ControlStep,
     StartStep, StopStep

\* An event on the monitor's thread keeps them too.
LEMMA EventKeepsCore ==
  ASSUME CallsDoNotOverlap, CallsDoNotOverlap', IInv, EventStep
  PROVE  Core'
<1> USE DEF CallsDoNotOverlap, StartsAreJoined, IInv, ReadInv, Core, TypeOK,
   LiveInv, ControlInv, ThreadInv, QuitInv, StateInv, SleepInv, LiveChip,
   QuietInv, Controllers, States, ControlPoints, WorkerPoints, Serving
<1>1. ASSUME NEW e \in Events, SleepEvent(e) PROVE Core'
  BY <1>1 DEF SleepEvent, Ingest, lifeVars, countVars, chipVars, cmdVars
<1>2. ASSUME NEW e \in Events, ShutdownEvent(e) PROVE Core'
  BY <1>2 DEF ShutdownEvent, Ingest, lifeVars, countVars, chipVars, cmdVars
<1>3. ASSUME NEW e \in Events, WakeEvent(e) PROVE Core'
  BY <1>3 DEF WakeEvent, Ingest, lifeVars, countVars, chipVars, cmdVars
<1>4. ASSUME NEW e \in Events, DebounceExpires(e) PROVE Core'
  BY <1>4 DEF DebounceExpires, countVars, chipVars, cmdVars
<1>5. QED
  BY <1>1, <1>2, <1>3, <1>4 DEF EventStep

\* A request of the App, a pen report or the service's own stop keeps them.
LEMMA ServiceKeepsCore ==
  ASSUME CallsDoNotOverlap, CallsDoNotOverlap', IInv, ServiceStep
  PROVE  Core'
<1> USE DEF CallsDoNotOverlap, StartsAreJoined, IInv, ReadInv, Core, TypeOK,
   LiveInv, ControlInv, ThreadInv, QuitInv, StateInv, SleepInv, LiveChip,
   QuietInv, Controllers, States, ControlPoints, WorkerPoints, Serving
<1>1. ASSUME NEW r \in IpcRequests, IpcRequest(r) PROVE Core'
  BY <1>1 DEF IpcRequest, Goto, lifeVars, countVars, chipVars, cmdVars
<1>2. ASSUME NEW c \in PenReports, PenReport(c) PROVE Core'
  BY <1>2 DEF PenReport, ctlVars, lifeVars, countVars, chipVars
<1>3. ASSUME HostStop PROVE Core'
  BY <1>3 DEF HostStop, Goto, lifeVars, countVars, chipVars, cmdVars
<1>4. QED
  BY <1>1, <1>2, <1>3 DEF ServiceStep

\* Every step of the worker keeps them.
LEMMA WorkerKeepsCore ==
  ASSUME CallsDoNotOverlap, CallsDoNotOverlap', IInv, WorkerStep
  PROVE  Core'
<1> USE DEF CallsDoNotOverlap, StartsAreJoined, IInv, ReadInv, Core, TypeOK,
   LiveInv, ControlInv, ThreadInv, QuitInv, StateInv, SleepInv, LiveChip,
   QuietInv, Controllers, States, ControlPoints, WorkerPoints, Serving
<1>1. ASSUME TakeReason PROVE Core'
  BY <1>1 DEF TakeReason, WGoto, ctlVars, lifeVars, countVars, chipVars,
     cmdVars
<1>2. ASSUME ConsumeScreenOff PROVE Core'
  BY <1>2 DEF ConsumeScreenOff, WGoto, ctlVars, lifeVars, chipVars, cmdVars
<1>3. ASSUME ConsumeShutdown PROVE Core'
  BY <1>3 DEF ConsumeShutdown, WGoto, ctlVars, lifeVars, countVars, chipVars,
     cmdVars
<1>4. ASSUME ClearQueue PROVE Core'
  BY <1>4 DEF ClearQueue, WGoto, ctlVars, lifeVars, countVars, chipVars
<1>5. ASSUME DrainCommand PROVE Core'
  BY <1>5 DEF DrainCommand, SendCommand, ctlVars, lifeVars, countVars
<1>6. ASSUME DrainDone PROVE Core'
  BY <1>6 DEF DrainDone, WGoto, ctlVars, lifeVars, countVars, chipVars,
     cmdVars
<1>7. ASSUME LoadState PROVE Core'
  BY <1>7 DEF LoadState, WGoto, ctlVars, lifeVars, countVars, chipVars,
     cmdVars
<1>8. ASSUME OnReady PROVE Core'
  BY <1>8 DEF OnReady, InitOk, InitFails, ctlVars, lifeVars, countVars,
     chipVars, cmdVars
<1>9. ASSUME ReadyOk PROVE Core'
  BY <1>9 DEF ReadyOk, WGoto, ctlVars, lifeVars, countVars, chipVars, cmdVars
<1>10. ASSUME ReadyFail PROVE Core'
  BY <1>10 DEF ReadyFail, WGoto, ctlVars, lifeVars, countVars, chipVars,
     cmdVars
<1>11. ASSUME FrameTimeout PROVE Core'
  BY <1>11 DEF FrameTimeout, WGoto, ctlVars, lifeVars, countVars, chipVars,
     cmdVars
<1>12. ASSUME FrameError PROVE Core'
  BY <1>12 DEF FrameError, WGoto, ctlVars, lifeVars, chipVars, cmdVars
<1>13. ASSUME FrameOk PROVE Core'
  BY <1>13 DEF FrameOk, WGoto, ctlVars, lifeVars, chipVars
<1>14. ASSUME SetRecover PROVE Core'
  BY <1>14 DEF SetRecover, WGoto, ctlVars, lifeVars, countVars, chipVars,
     cmdVars
<1>15. ASSUME RecoverCount PROVE Core'
  BY <1>15 DEF RecoverCount, WGoto, ctlVars, lifeVars, chipVars, cmdVars
<1>16. ASSUME RecoverGiveUp PROVE Core'
  BY <1>16 DEF RecoverGiveUp, WGoto, ctlVars, lifeVars, countVars, chipVars,
     cmdVars
<1>17. ASSUME RecoverWait PROVE Core'
  BY <1>17 DEF RecoverWait, WGoto, ctlVars, lifeVars, countVars, chipVars,
     cmdVars
<1>18. ASSUME RecoverTry PROVE Core'
  BY <1>18 DEF RecoverTry, InitOk, InitFails, ctlVars, lifeVars, countVars,
     chipVars, cmdVars
<1>19. ASSUME RecoverOk PROVE Core'
  BY <1>19 DEF RecoverOk, WGoto, ctlVars, lifeVars, chipVars, cmdVars
<1>20. ASSUME OnSuspend PROVE Core'
  BY <1>20 DEF OnSuspend, WGoto, HoldReset, ctlVars, lifeVars, chipVars,
     cmdVars
<1>21. ASSUME SleepOver PROVE Core'
  BY <1>21 DEF SleepOver, WGoto, ctlVars, lifeVars, countVars, chipVars,
     cmdVars
<1>22. ASSUME OnQuit PROVE Core'
  BY <1>22 DEF OnQuit, WGoto, Deinit, ctlVars, countVars, chipVars, cmdVars
<1>23. ASSUME WorkerReturns PROVE Core'
  BY <1>23 DEF WorkerReturns, WGoto, ctlVars, countVars, chipVars, cmdVars
<1>24. QED
  BY <1>1, <1>2, <1>3, <1>4, <1>5, <1>6, <1>7, <1>8, <1>9, <1>10, <1>11,
     <1>12, <1>13, <1>14, <1>15, <1>16, <1>17, <1>18, <1>19, <1>20, <1>21,
     <1>22, <1>23 DEF WorkerStep

\* IInv holds initially.
LEMMA InitInv == Init => IInv
<1> SUFFICES ASSUME Init PROVE IInv
  OBVIOUS
<1>1. ReadInv
  BY InitReads
<1>2. Core
  BY DEF Init, Core, ControlInv, ThreadInv, QuitInv, StateInv, SleepInv,
     QuietInv, Controllers
<1>3. QED
  BY <1>1, <1>2 DEF IInv

\* Every step keeps it while the calls are in turn.
LEMMA StepInv ==
  IInv /\ CallsDoNotOverlap /\ CallsDoNotOverlap' /\ [Next]_vars => IInv'
<1> SUFFICES ASSUME IInv, CallsDoNotOverlap, CallsDoNotOverlap', [Next]_vars
             PROVE IInv'
  OBVIOUS
<1>1. ReadInv'
  BY StepReads DEF IInv
<1>2. CASE Next
  <2>1. Core'
    BY <1>2, ControlKeepsCore, EventKeepsCore, ServiceKeepsCore,
       WorkerKeepsCore DEF Next
  <2>2. QED
    BY <1>1, <2>1 DEF IInv
<1>3. CASE UNCHANGED vars
  <2>1. Core'
    BY <1>3 DEF vars, IInv, Core, ControlInv, ThreadInv, QuitInv, StateInv,
       SleepInv, QuietInv
  <2>2. QED
    BY <1>1, <2>1 DEF IInv
<1>4. QED
  BY <1>2, <1>3

\* The inductive invariant holds for as long as the monitor and the App do not
\* call into the runtime at the same time.
THEOREM Invariance == Spec /\ []CallsDoNotOverlap => []IInv
<1>1. QED
  BY InitInv, StepInv, PTL DEF Spec

\* A service that no App drives, and one without a monitor, are such.
THEOREM OneThreadIsInTurn ==
  ASSUME OneControlThread PROVE Spec => []CallsDoNotOverlap
<1> DEFINE Inv == /\ pc \in [Controllers -> ControlPoints]
                  /\ Events = {} => pc["mon"] = "idle"
                  /\ IpcRequests = {} => pc["ipc"] = "idle"
<1>1. Init => Inv
  BY DEF Init, Controllers, ControlPoints
<1>2. Inv /\ [Next]_vars => Inv'
  <2> SUFFICES ASSUME Inv, [Next]_vars PROVE Inv'
    OBVIOUS
  <2>1. ASSUME NEW t \in Controllers, ControlStep(t) PROVE Inv'
    BY <2>1 DEF ControlStep, StartStep, StopStep, StartExchange,
       StartClearReason, StartSetReady, StartSpawn, StopStore, StopJoin,
       StopClearRunning, StopSetQuit, WakeSetReady, Goto, Controllers,
       ControlPoints
  <2>2. ASSUME EventStep PROVE Inv'
    BY <2>2 DEF EventStep, SleepEvent, ShutdownEvent, WakeEvent, Ingest,
       DebounceExpires, Controllers, ControlPoints
  <2>3. ASSUME ServiceStep PROVE Inv'
    BY <2>3 DEF ServiceStep, IpcRequest, PenReport, HostStop, Goto, ctlVars,
       Controllers, ControlPoints
  <2>4. ASSUME WorkerStep \/ UNCHANGED vars PROVE Inv'
    <3>1. UNCHANGED pc
      BY <2>4 DEF WorkerStep, TakeReason, ConsumeScreenOff, ConsumeShutdown,
         ClearQueue, DrainCommand, DrainDone, LoadState, OnReady, ReadyOk,
         ReadyFail, FrameTimeout, FrameError, FrameOk, SetRecover,
         RecoverCount, RecoverGiveUp, RecoverWait, RecoverTry, RecoverOk,
         OnSuspend, SleepOver, OnQuit, WorkerReturns, ctlVars, vars
    <3>2. QED
      BY <3>1
  <2>5. QED
    BY <2>1, <2>2, <2>3, <2>4 DEF Next
<1>3. Inv => CallsDoNotOverlap
  BY DEF OneControlThread, CallsDoNotOverlap
<1> HIDE DEF Inv
<1>4. QED
  BY <1>1, <1>2, <1>3, PTL DEF Spec

-----------------------------------------------------------------------------
(* What follows from it.                                                   *)

\* No start of the runtime assigns a thread over one that was not joined,
\* unless an App may ask for a start after a shutdown event.
THEOREM RestartIsSafe ==
  ASSUME StartsAreJoined PROVE Spec /\ []CallsDoNotOverlap => []NoTerminate
<1>1. IInv => NoTerminate
  BY DEF IInv, Core, ThreadInv, NoTerminate
<1>2. QED
  BY <1>1, Invariance, PTL

\* A worker that m_running calls stopped has taken the controller down and has
\* only to return.
THEOREM StoppedIsReturning ==
  Spec /\ []CallsDoNotOverlap => []StoppedWorkerIsReturning
<1>1. IInv => StoppedWorkerIsReturning
  BY DEF IInv, Core, ThreadInv, QuietInv, StoppedWorkerIsReturning
<1>2. QED
  BY <1>1, Invariance, PTL

\* A sleeping worker holds no connected controller.
THEOREM SleepDisconnects == Spec /\ []CallsDoNotOverlap => []AsleepIsDisconnected
<1>1. IInv => AsleepIsDisconnected
  BY DEF IInv, Core, SleepInv, AsleepIsDisconnected
<1>2. QED
  BY <1>1, Invariance, PTL

\* After Stop returned there is no worker, no connection, and the phase is
\* quit.
THEOREM StopIsComplete == Spec /\ []CallsDoNotOverlap => []StoppedIsQuiet
<1>1. IInv => StoppedIsQuiet
  BY DEF IInv, ReadInv, Core, TypeOK, ThreadInv, QuietInv, Controllers,
     StoppedIsQuiet
<1>2. QED
  BY <1>1, Invariance, PTL

\* With a monitor and no App requests, or the reverse, all of it holds.
THEOREM OneThreadIsSafe ==
  ASSUME OneControlThread
  PROVE  Spec => [](/\ NoTerminate /\ StoppedWorkerIsReturning
                    /\ AsleepIsDisconnected /\ StoppedIsQuiet)
<1>1. StartsAreJoined
  BY DEF OneControlThread, StartsAreJoined
<1>2. Spec => []NoTerminate
  BY <1>1, OneThreadIsInTurn, RestartIsSafe, PTL
<1>3. QED
  BY <1>2, OneThreadIsInTurn, StoppedIsReturning, SleepDisconnects,
     StopIsComplete, PTL

-----------------------------------------------------------------------------
(* The runtime implements RuntimeLifecycle.                                *)

\* Each step of the runtime is one step of the life cycle, or none.
LEMMA StepRefines ==
  ASSUME CallsDoNotOverlap, IInv, [Next]_vars
  PROVE  [Lifecycle!Next]_<<state, chip = "inited">>
<1> DEFINE Still == UNCHANGED <<state, chip>>
           Goal  == [Lifecycle!Next]_<<state, chip = "inited">>
<1>1. Still => Goal
  OBVIOUS
<1>2. ASSUME NEW t \in Controllers, ControlStep(t) PROVE Goal
  <2>1. ASSUME StartExchange(t) \/ StartClearReason(t) \/ StartSpawn(t)
        PROVE Still
    BY <2>1 DEF StartExchange, StartClearReason, StartSpawn, chipVars
  <2>2. ASSUME StartSetReady(t) PROVE Goal
    <3>1. state \in {"quit", "ready"}
      <4>1. wpc \in {"returning", "dead"}
        BY <2>2 DEF StartSetReady, Goto, IInv, Core, ThreadInv
      <4>2. QED
        BY <4>1 DEF IInv, Core, StateInv
    <3>2. QED
      BY <2>2, <3>1 DEF StartSetReady, chipVars, Lifecycle!Next,
         Lifecycle!Launch
  <2>3. ASSUME StopStore(t) \/ StopJoin(t) \/ StopClearRunning(t)
        PROVE Still
    BY <2>3 DEF StopStore, StopJoin, StopClearRunning, chipVars
  <2>4. ASSUME StopSetQuit(t) PROVE Goal
    BY <2>4 DEF StopSetQuit, chipVars, Lifecycle!Next, Lifecycle!Quit
  <2>5. ASSUME WakeSetReady PROVE Goal
    BY <2>5 DEF WakeSetReady, Goto, IInv, Core, StateInv, chipVars,
       Lifecycle!Next, Lifecycle!Launch, Lifecycle!Wake
  <2>6. QED
    BY <1>1, <1>2, <2>1, <2>2, <2>3, <2>4, <2>5
       DEF ControlStep, StartStep, StopStep
<1>3. ASSUME EventStep \/ ServiceStep PROVE Still
  BY <1>3 DEF EventStep, SleepEvent, ShutdownEvent, WakeEvent,
     DebounceExpires, ServiceStep, IpcRequest, PenReport, HostStop, chipVars
<1>4. ASSUME WorkerStep PROVE Goal
  <2>1. ASSUME \/ TakeReason \/ ClearQueue \/ DrainCommand \/ DrainDone
               \/ LoadState \/ FrameTimeout \/ FrameError \/ FrameOk
               \/ RecoverCount \/ RecoverWait \/ SleepOver \/ WorkerReturns
        PROVE Still
    BY <2>1 DEF TakeReason, ClearQueue, DrainCommand, DrainDone, LoadState,
       FrameTimeout, FrameError, FrameOk, RecoverCount, RecoverWait,
       SleepOver, WorkerReturns, chipVars
  <2>2. ASSUME ConsumeScreenOff PROVE Goal
    BY <2>2 DEF ConsumeScreenOff, WGoto, IInv, ReadInv, Core, TypeOK, States,
       StateInv, chipVars, Lifecycle!Next, Lifecycle!Sleep
  <2>3. ASSUME ConsumeShutdown PROVE Goal
    BY <2>3 DEF ConsumeShutdown, chipVars, Lifecycle!Next, Lifecycle!Quit
  <2>4. ASSUME OnReady PROVE Goal
    BY <2>4 DEF OnReady, InitOk, InitFails, IInv, Core, StateInv, chipVars,
       Lifecycle!Next, Lifecycle!BringUp, Lifecycle!BringUpFails
  <2>5. ASSUME ReadyOk PROVE Goal
    BY <2>5 DEF ReadyOk, WGoto, IInv, ReadInv, LiveInv, Core, StateInv, LiveChip,
       chipVars, Lifecycle!Next, Lifecycle!Stream
  <2>6. ASSUME ReadyFail \/ SetRecover PROVE Goal
    BY <2>6 DEF ReadyFail, SetRecover, WGoto, IInv, Core, StateInv,
       chipVars, Lifecycle!Next, Lifecycle!Fault
  <2>7. ASSUME RecoverGiveUp PROVE Goal
    BY <2>7 DEF RecoverGiveUp, WGoto, IInv, Core, StateInv, chipVars,
       Lifecycle!Next, Lifecycle!Sleep
  <2>8. ASSUME RecoverTry PROVE Goal
    BY <2>8 DEF RecoverTry, InitOk, InitFails, IInv, Core, StateInv,
       chipVars, Lifecycle!Next, Lifecycle!BringUp, Lifecycle!BringUpFails
  <2>9. ASSUME RecoverOk PROVE Goal
    BY <2>9 DEF RecoverOk, WGoto, IInv, ReadInv, LiveInv, Core, StateInv, LiveChip,
       chipVars, Lifecycle!Next, Lifecycle!Stream
  <2>10. ASSUME OnSuspend PROVE Goal
    BY <2>10 DEF OnSuspend, HoldReset, WGoto, IInv, Core, StateInv,
       chipVars, Lifecycle!Next, Lifecycle!TakeDown
  <2>11. ASSUME OnQuit PROVE Goal
    BY <2>11 DEF OnQuit, Deinit, WGoto, IInv, Core, StateInv, chipVars,
       Lifecycle!Next, Lifecycle!TakeDown
  <2>12. QED
    BY <1>1, <1>4, <2>1, <2>2, <2>3, <2>4, <2>5, <2>6, <2>7, <2>8, <2>9,
       <2>10, <2>11 DEF WorkerStep
<1>5. QED
  BY <1>1, <1>2, <1>3, <1>4 DEF Next, vars

\* m_state only moves along the edges of the life cycle, and streaming is
\* entered only over a controller that is up, while the calls are in turn.
THEOREM InTurnRefines == Spec /\ []CallsDoNotOverlap => ImplementsLifecycle
<1>1. Init => Lifecycle!Init
  BY DEF Init, Lifecycle!Init
<1>2. IInv /\ CallsDoNotOverlap /\ [Next]_vars
        => [Lifecycle!Next]_<<state, chip = "inited">>
  BY StepRefines
<1>3. QED
  BY <1>1, <1>2, Invariance, PTL DEF Spec, ImplementsLifecycle,
     Lifecycle!Spec

\* So a service with one control thread implements the life cycle.
THEOREM Refinement ==
  ASSUME OneControlThread PROVE Spec => ImplementsLifecycle
<1>1. QED
  BY OneThreadIsInTurn, InTurnRefines, PTL
==============================================================================
