--------------------------- MODULE ChipFrame_proofs ---------------------------
(***************************************************************************)
(* Proofs about ChipFrame, for every idle threshold and number of attempts. *)
(***************************************************************************)
EXTENDS ChipFrameInv, TLAPS

USE DEF Devs

\* Init's steps by name.
LEMMA Steps ==
  /\ Len(InitSteps) = 11
  /\ \A i \in 1 .. 11 :
       /\ InitSteps[i] = "assertReset" => i \in {1, 3}
       /\ InitSteps[i] = "releaseReset" => i \in {2, 4}
       /\ InitSteps[i] = "selectMaster" => i = 5
       /\ InitSteps[i] = "selectSlave" => i = 6
       /\ InitSteps[i] = "openMaster" => i = 7
       /\ InitSteps[i] = "openSlave" => i = 8
       /\ InitSteps[i] = "policyMaster" => i = 9
       /\ InitSteps[i] = "policySlave" => i = 10
       /\ InitSteps[i] = "connect" <=> i = 11
BY DEF InitSteps

-----------------------------------------------------------------------------
(* Types.  Of the provers one is good at Booleans, the other at the rest.   *)

FlagsOK ==
  /\ line \in BOOLEAN
  /\ up \in BOOLEAN
  /\ conn \in BOOLEAN
  /\ needReset \in BOOLEAN
  /\ pending \in BOOLEAN
  /\ cancelled \in BOOLEAN
  /\ odd \in BOOLEAN
  /\ stylusActive \in BOOLEAN
  /\ finger \in BOOLEAN
  /\ stylus \in BOOLEAN
  /\ stop \in BOOLEAN
  /\ fresh \in BOOLEAN

ValuesOK ==
  /\ selected \subseteq Devs
  /\ open \subseteq Devs
  /\ policy \in [Devs -> {"none", "normal", "idle"}]
  /\ afeMode \in {"Normal", "Idle"}
  /\ phase \in {"ready", "streaming", "recover", "suspend", "quit"}
  /\ pc \in {"top", "work", "init", "read", "done",
             "hold", "senseOff", "close"}
  /\ step \in 1 .. 11
  /\ reading \in Devs
  /\ tries \in 0 .. MaxAttempts - 1
  /\ got \subseteq Devs
  /\ zeroFrames \in 0 .. IdleThreshold - 1
  /\ mon \in {"idle", "store"}
  /\ masterAge \in 0 .. 2
  /\ quiet \in 0 .. IdleThreshold
  /\ late \in 0 .. 2

\* The type invariant is that of the flags and that of the values.
LEMMA TypeParts == TypeOK <=> FlagsOK /\ ValuesOK
BY Steps DEF TypeOK, FlagsOK, ValuesOK

\* Every step keeps the flags.
LEMMA FlagsStep == FlagsOK /\ [Next]_vars => FlagsOK'
<1> SUFFICES ASSUME FlagsOK, [Next]_vars PROVE FlagsOK'
  OBVIOUS
<1> USE DEF FlagsOK, hwVars, readVars, frameVars, history
<1>1. CASE SleepCancel
  BY <1>1, Zenon DEF SleepCancel
<1>2. CASE SleepStore
  BY <1>2, Zenon DEF SleepStore
<1>3. CASE Wake
  BY <1>3, Zenon DEF Wake
<1>4. CASE Restart
  BY <1>4, Zenon DEF Restart
<1>5. CASE TakeStop
  BY <1>5, Zenon DEF TakeStop, Goto
<1>6. CASE NoStop
  BY <1>6, Zenon DEF NoStop, Goto
<1>7. CASE IdleCommand
  BY <1>7, Zenon DEF IdleCommand, EnterIdle, NotifyTouchWakeup
<1>8. CASE BeginInit
  BY <1>8, Zenon DEF BeginInit, Goto
<1>9. CASE RecoverLater
  BY <1>9, Zenon DEF RecoverLater, Goto
<1>10. CASE RecoverGiveUp
  BY <1>10, Zenon DEF RecoverGiveUp, Goto
<1>11. CASE OnQuit
  BY <1>11, Zenon DEF OnQuit, Goto
<1>12. CASE OnSuspend
  BY <1>12, Zenon DEF OnSuspend
<1>13. CASE HoldLine
  BY <1>13, Zenon DEF HoldLine, Goto, LineLow
<1>14. CASE SenseOff
  <2>1. line' \in BOOLEAN /\ up' \in BOOLEAN
    BY <1>14, Zenon DEF SenseOff, LineLow
  <2> QED
    BY <1>14, <2>1, Zenon DEF SenseOff
<1>15. CASE CloseChannels
  BY <1>15, Zenon DEF CloseChannels, Goto
<1>16. CASE InitAssertReset
  BY <1>16, Zenon DEF InitAssertReset, InitStep, LineLow
<1>17. CASE InitReleaseReset
  BY <1>17, Zenon DEF InitReleaseReset, InitStep
<1>18. ASSUME NEW d \in Devs, InitSelect(d) PROVE FlagsOK'
  BY <1>18, Zenon DEF InitSelect, InitStep, Selecting
<1>19. ASSUME NEW d \in Devs, InitOpen(d) PROVE FlagsOK'
  BY <1>19, Zenon DEF InitOpen, InitStep, Opening
<1>20. ASSUME NEW d \in Devs, InitPolicy(d) PROVE FlagsOK'
  BY <1>20, Zenon DEF InitPolicy, InitStep, Timing
<1>21. CASE InitConnect
  BY <1>21, Zenon DEF InitConnect, Goto
<1>22. CASE InitFails
  BY <1>22, Zenon DEF InitFails, Goto
<1>23. CASE BeginFrame
  BY <1>23, Zenon DEF BeginFrame, Goto, ReadOf
<1>24. CASE ReadIssue
  BY <1>24, Zenon DEF ReadIssue
<1>25. CASE ReadOk
  <2>1. pending' = FALSE /\ cancelled' = FALSE
    BY <1>25, Zenon DEF ReadOk, ReadOf
  <2>2. finger' \in BOOLEAN /\ stylus' \in BOOLEAN
    BY <1>25, Zenon DEF ReadOk
  <2> QED
    BY <1>25, <2>1, <2>2, Zenon DEF ReadOk
<1>26. CASE ReadRetry
  BY <1>26, Zenon DEF ReadRetry
<1>27. CASE ReadFails
  BY <1>27, Zenon DEF ReadFails, ReadOf
<1>28. CASE FinishIdle
  BY <1>28, Zenon DEF FinishIdle, Goto, NotifyTouchWakeup
<1>29. CASE FinishFrame
  <2>1. odd' \in BOOLEAN /\ stylusActive' \in BOOLEAN
    BY <1>29, Zenon DEF FinishFrame
  <2> QED
    BY <1>29, <2>1, Zenon DEF FinishFrame
<1>30. CASE UNCHANGED vars
  BY <1>30, Zenon DEF vars
<1> QED
  BY <1>1, <1>2, <1>3, <1>4, <1>5, <1>6, <1>7, <1>8, <1>9, <1>10, <1>11, <1>12,
     <1>13, <1>14, <1>15, <1>16, <1>17, <1>18, <1>19, <1>20, <1>21, <1>22,
     <1>23, <1>24, <1>25, <1>26, <1>27, <1>28, <1>29, <1>30
     DEF Next, WorkerStep, InitChip, GetFrame

\* Every step keeps the values.
LEMMA ValuesStep == ValuesOK /\ [Next]_vars => ValuesOK'
<1> SUFFICES ASSUME ValuesOK, [Next]_vars PROVE ValuesOK'
  OBVIOUS
<1> USE ConstantsOK DEF ValuesOK, hwVars, readVars, frameVars, history
<1>1. CASE SleepCancel
  BY <1>1 DEF SleepCancel
<1>2. CASE SleepStore
  BY <1>2 DEF SleepStore
<1>3. CASE Wake
  BY <1>3 DEF Wake
<1>4. CASE Restart
  BY <1>4 DEF Restart
<1>5. CASE TakeStop
  BY <1>5 DEF TakeStop, Goto
<1>6. CASE NoStop
  BY <1>6 DEF NoStop, Goto
<1>7. CASE IdleCommand
  BY <1>7 DEF IdleCommand, EnterIdle, NotifyTouchWakeup
<1>8. CASE BeginInit
  BY <1>8 DEF BeginInit, Goto
<1>9. CASE RecoverLater
  BY <1>9 DEF RecoverLater, Goto
<1>10. CASE RecoverGiveUp
  BY <1>10 DEF RecoverGiveUp, Goto
<1>11. CASE OnQuit
  BY <1>11 DEF OnQuit, Goto
<1>12. CASE OnSuspend
  BY <1>12 DEF OnSuspend
<1>13. CASE HoldLine
  BY <1>13 DEF HoldLine, Goto, LineLow
<1>14. CASE SenseOff
  BY <1>14 DEF SenseOff, Goto, LineLow
<1>15. CASE CloseChannels
  BY <1>15 DEF CloseChannels, Goto
<1>16. CASE InitAssertReset
  BY <1>16, Steps DEF InitAssertReset, InitStep, LineLow
<1>17. CASE InitReleaseReset
  BY <1>17, Steps DEF InitReleaseReset, InitStep
<1>18. ASSUME NEW d \in Devs, InitSelect(d) PROVE ValuesOK'
  BY <1>18, Steps DEF InitSelect, InitStep, Selecting
<1>19. ASSUME NEW d \in Devs, InitOpen(d) PROVE ValuesOK'
  BY <1>19, Steps DEF InitOpen, InitStep, Opening
<1>20. ASSUME NEW d \in Devs, InitPolicy(d) PROVE ValuesOK'
  BY <1>20, Steps DEF InitPolicy, InitStep, Timing
<1>21. CASE InitConnect
  BY <1>21 DEF InitConnect, Goto
<1>22. CASE InitFails
  BY <1>22 DEF InitFails, Goto
<1>23. CASE BeginFrame
  BY <1>23 DEF BeginFrame, Goto, ReadOf
<1>24. CASE ReadIssue
  BY <1>24 DEF ReadIssue
<1>25. CASE ReadOk
  <2>1. ReadNext(reading) \in Devs \union {"none"}
    BY Zenon DEF ReadNext
  <2>2. pc' \in {pc, "done"} /\ reading' \in Devs /\ tries' = 0
    BY <1>25, <2>1 DEF ReadOk, ReadOf
  <2> QED
    BY <1>25, <2>2 DEF ReadOk
<1>26. CASE ReadRetry
  BY <1>26 DEF ReadRetry
<1>27. CASE ReadFails
  <2>1. /\ phase' \in {phase, "recover"}
        /\ pc' \in {pc, "top"}
        /\ got' \in {got, {}}
    BY <1>27 DEF ReadFails
  <2>2. reading' = "slave" /\ tries' = 0
    BY <1>27 DEF ReadFails, ReadOf
  <2> QED
    BY <1>27, <2>1, <2>2 DEF ReadFails
<1>28. CASE FinishIdle
  BY <1>28 DEF FinishIdle, Goto, NotifyTouchWakeup
<1>29. CASE FinishFrame
  BY <1>29 DEF FinishFrame, Goto, EnterIdle, ZeroFrames, UpTo
<1>30. CASE UNCHANGED vars
  BY <1>30 DEF vars
<1> QED
  BY <1>1, <1>2, <1>3, <1>4, <1>5, <1>6, <1>7, <1>8, <1>9, <1>10, <1>11, <1>12,
     <1>13, <1>14, <1>15, <1>16, <1>17, <1>18, <1>19, <1>20, <1>21, <1>22,
     <1>23, <1>24, <1>25, <1>26, <1>27, <1>28, <1>29, <1>30
     DEF Next, WorkerStep, InitChip, GetFrame

\* Every step keeps the types.
LEMMA TypeStep == TypeOK /\ [Next]_vars => TypeOK'
BY TypeParts, FlagsStep, ValuesStep, PTL

\* A service that just started has its types.
LEMMA TypeInit == Init => TypeOK
<1>1. Init => FlagsOK
  BY Zenon DEF Init, FlagsOK
<1>2. Init => ValuesOK
  BY ConstantsOK DEF Init, ValuesOK
<1> QED
  BY <1>1, <1>2, TypeParts

\* Every variable keeps its type, whatever fails and whoever interferes.
THEOREM TypeCorrect == Spec => []TypeOK
BY TypeInit, TypeStep, PTL DEF Spec

-----------------------------------------------------------------------------
(* The inductive invariant.                                                *)

\* A service that just started satisfies every part of the invariant.
LEMMA CoreInit == Init => Core
BY Steps DEF Init, Core, PhaseInv, StepInv, StreamInv, GotInv, MasterInv,
             QuietInv, LateInv

\* The sets of devices that a frame has read.
LEMMA BothDevices ==
  /\ \A S \in SUBSET Devs : "master" \in S => S \union {"slave"} = Devs
  /\ {"slave"} \union {"master"} = Devs
  /\ {} \union {"slave"} = {"slave"}
OBVIOUS

\* Each action keeps every part.
LEMMA CoreStep == IInv /\ [Next]_vars => Core'
<1> SUFFICES ASSUME IInv, [Next]_vars PROVE Core'
  OBVIOUS
<1>0. ValuesOK
  BY TypeParts DEF IInv
<1> USE ConstantsOK, <1>0
    DEF IInv, Core, ValuesOK, PhaseInv, StepInv, StreamInv, UpAndOpen, GotInv,
        MasterInv, QuietInv, LateInv, SkipMaster, hwVars, readVars, frameVars,
        history
<1>1. CASE SleepCancel
  BY <1>1 DEF SleepCancel
<1>2. CASE SleepStore
  BY <1>2 DEF SleepStore
<1>3. CASE Wake
  BY <1>3 DEF Wake
<1>4. CASE Restart
  BY <1>4 DEF Restart
<1>5. CASE TakeStop
  BY <1>5 DEF TakeStop, Goto
<1>6. CASE NoStop
  BY <1>6 DEF NoStop, Goto
<1>7. CASE IdleCommand
  BY <1>7 DEF IdleCommand, EnterIdle, NotifyTouchWakeup
<1>8. CASE BeginInit
  BY <1>8 DEF BeginInit, Goto
<1>9. CASE RecoverLater
  BY <1>9 DEF RecoverLater, Goto
<1>10. CASE RecoverGiveUp
  BY <1>10 DEF RecoverGiveUp, Goto
<1>11. CASE OnQuit
  BY <1>11 DEF OnQuit, Goto
<1>12. CASE OnSuspend
  BY <1>12 DEF OnSuspend
<1>13. CASE HoldLine
  BY <1>13 DEF HoldLine, Goto, LineLow
<1>14. CASE SenseOff
  BY <1>14 DEF SenseOff, Goto, LineLow
<1>15. CASE CloseChannels
  BY <1>15 DEF CloseChannels, Goto
<1>16. CASE InitAssertReset
  BY <1>16, Steps DEF InitAssertReset, InitStep, LineLow
<1>17. CASE InitReleaseReset
  BY <1>17, Steps DEF InitReleaseReset, InitStep
<1>18. ASSUME NEW d \in Devs, InitSelect(d) PROVE Core'
  <2>1. CASE d = "master"
    BY <1>18, <2>1, Steps DEF InitSelect, InitStep, Selecting
  <2>2. CASE d = "slave"
    <3>1. step = 6
      BY <1>18, <2>2, Steps DEF InitSelect, InitStep, Selecting
    <3>2. selected' = Devs
      <4>1. "master" \in selected /\ selected \in SUBSET Devs
        BY <1>18, <3>1 DEF InitSelect, InitStep
      <4>2. selected' = selected \union {"slave"}
        BY <1>18, <2>2 DEF InitSelect
      <4> QED
        BY <4>1, <4>2, BothDevices
    <3> QED
      BY <1>18, <3>1, <3>2 DEF InitSelect, InitStep
  <2> QED
    BY <2>1, <2>2
<1>19. ASSUME NEW d \in Devs, InitOpen(d) PROVE Core'
  <2>1. CASE d = "master"
    BY <1>19, <2>1, Steps DEF InitOpen, InitStep, Opening
  <2>2. CASE d = "slave"
    <3>1. step = 8
      BY <1>19, <2>2, Steps DEF InitOpen, InitStep, Opening
    <3>2. open' = Devs
      <4>1. "master" \in open /\ open \in SUBSET Devs
        BY <1>19, <3>1 DEF InitOpen, InitStep
      <4>2. open' = open \union {"slave"}
        BY <1>19, <2>2 DEF InitOpen
      <4> QED
        BY <4>1, <4>2, BothDevices
    <3> QED
      BY <1>19, <3>1, <3>2 DEF InitOpen, InitStep
  <2> QED
    BY <2>1, <2>2
<1>20. ASSUME NEW d \in Devs, InitPolicy(d) PROVE Core'
  BY <1>20, Steps DEF InitPolicy, InitStep, Timing
<1>21. CASE InitConnect
  BY <1>21, Steps DEF InitConnect, Goto
<1>22. CASE InitFails
  BY <1>22, Steps DEF InitFails, Goto
<1>23. CASE BeginFrame
  BY <1>23 DEF BeginFrame, Goto, ReadOf
<1>24. CASE ReadIssue
  BY <1>24 DEF ReadIssue
<1>25. CASE ReadOk
  <2>1. \/ pc' = "done" /\ ReadNext(reading) = "none"
        \/ /\ pc' = "read" /\ reading' = ReadNext(reading)
           /\ ReadNext(reading) # "none"
    BY <1>25 DEF ReadOk, ReadOf
  <2>2. afeMode = "Normal" /\ reading = "slave" /\ ~SkipMaster =>
          ReadNext(reading) = "master"
    BY Zenon DEF ReadNext
  <2>3. afeMode = "Normal" /\ reading = "slave" /\ SkipMaster =>
          ReadNext(reading) = "none"
    BY Zenon DEF ReadNext
  <2>4. afeMode = "Normal" /\ reading = "master" =>
          ReadNext(reading) = "none"
    BY Zenon DEF ReadNext
  <2>5. pc = "read" /\ got' = got \union {reading}
    BY <1>25 DEF ReadOk
  <2>6. UNCHANGED <<afeMode, phase, odd, stylusActive, hwVars, conn, step,
                    zeroFrames, quiet, fresh, late, stop>>
    BY <1>25 DEF ReadOk
  <2>7. masterAge' = IF reading = "master" THEN 0 ELSE masterAge
    BY <1>25 DEF ReadOk
  <2>8. GotInv'
    <3>1. afeMode = "Normal" /\ reading = "master" => got' = Devs
      BY <2>5, BothDevices
    <3>2. afeMode = "Normal" /\ reading = "slave" => got' = {"slave"}
      BY <2>5, BothDevices
    <3>3. CASE afeMode = "Idle"
      BY <2>1, <2>6, <3>3
    <3>4. CASE afeMode = "Normal" /\ reading = "master"
      BY <2>1, <2>4, <2>6, <3>1, <3>4
    <3>5. CASE afeMode = "Normal" /\ reading = "slave"
      BY <2>1, <2>2, <2>3, <2>6, <3>2, <3>5
    <3> QED
      BY <3>3, <3>4, <3>5
  <2>9. MasterInv'
    BY <2>1, <2>2, <2>3, <2>4, <2>5, <2>6, <2>7
  <2> QED
    BY <2>1, <2>5, <2>6, <2>8, <2>9
<1>26. CASE ReadRetry
  BY <1>26 DEF ReadRetry
<1>27. CASE ReadFails
  BY <1>27 DEF ReadFails, ReadOf
<1>28. CASE FinishIdle
  BY <1>28 DEF FinishIdle, Goto, NotifyTouchWakeup
<1>29. CASE FinishFrame
  <2>1. PhaseInv' /\ StepInv' /\ GotInv'
    BY <1>29 DEF FinishFrame, Goto
  <2>2. StreamInv'
    BY <1>29 DEF FinishFrame, Goto, EnterIdle
  <2>3. MasterInv'
    <3>1. pc' = "top" /\ masterAge' = UpTo(2, masterAge)
      BY <1>29 DEF FinishFrame, Goto
    <3>2. ~odd => masterAge = 0
      BY <1>29 DEF FinishFrame, Goto
    <3>3. ~odd => masterAge' = 1
      BY <3>1, <3>2 DEF UpTo
    <3>4. odd' => ~odd
      BY <1>29, Zenon DEF FinishFrame
    <3> QED
      BY <3>1, <3>3, <3>4
  <2>4. QuietInv'
    BY <1>29 DEF FinishFrame, Goto, ZeroFrames, UpTo
  <2>5. LateInv'
    BY <1>29 DEF FinishFrame, Goto, UpTo
  <2> QED
    BY <2>1, <2>2, <2>3, <2>4, <2>5
<1>30. CASE UNCHANGED vars
  BY <1>30 DEF vars
<1> QED
  BY <1>1, <1>2, <1>3, <1>4, <1>5, <1>6, <1>7, <1>8, <1>9, <1>10, <1>11, <1>12,
     <1>13, <1>14, <1>15, <1>16, <1>17, <1>18, <1>19, <1>20, <1>21, <1>22,
     <1>23, <1>24, <1>25, <1>26, <1>27, <1>28, <1>29, <1>30
     DEF Next, WorkerStep, InitChip, GetFrame

\* IInv is an invariant, whatever the threshold and the number of attempts.
THEOREM Invariance == Spec => []IInv
<1>1. Init => IInv
  BY TypeInit, CoreInit DEF IInv
<1>2. IInv /\ [Next]_vars => IInv'
  BY TypeStep, CoreStep DEF IInv
<1> QED
  BY <1>1, <1>2, PTL DEF Spec

-----------------------------------------------------------------------------
(* What follows from it.                                                   *)

\* Frames are only read from a controller that went through all of Init since
\* its last reset: GetFrame runs in streaming only.
THEOREM ReadsAreSafe == Spec => []ReadsOnlyWhenUp
<1>1. IInv => ReadsOnlyWhenUp
  BY DEF IInv, Core, PhaseInv, StreamInv, UpAndOpen, ReadsOnlyWhenUp
<1> QED
  BY <1>1, Invariance, PTL

\* The 2:1 interleaving never leaves the master part two frames behind.
THEOREM MasterKeepsUp == Spec => []MasterIsRecent
<1>1. IInv => MasterIsRecent
  BY DEF IInv, Core, MasterInv, MasterIsRecent
<1> QED
  BY <1>1, Invariance, PTL

\* One more frame at most is processed after the sleep request.
THEOREM SleepComesFirst == Spec => []SleepIsPrompt
<1>1. IInv => SleepIsPrompt
  BY TypeParts DEF IInv, Core, LateInv, SleepIsPrompt, ValuesOK
<1> QED
  BY <1>1, Invariance, PTL

\* GetFrame goes idle only after IdleThreshold frames without input in a row.
THEOREM IdleIsQuiet == Spec => IdleAfterQuiet
<1>1. IInv /\ [Next]_vars =>
        [pc = "done" /\ afeMode = "Normal" /\ afeMode' = "Idle" =>
           quiet' + 1 >= IdleThreshold]_vars
  <2> SUFFICES ASSUME IInv, Next, pc = "done", afeMode = "Normal",
                      afeMode' = "Idle"
               PROVE  quiet' + 1 >= IdleThreshold
    OBVIOUS
  <2>1. ValuesOK
    BY TypeParts DEF IInv
  <2>2. FinishFrame
    <3>1. ~(SleepCancel \/ SleepStore \/ Wake \/ Restart)
      BY DEF SleepCancel, SleepStore, Wake, Restart
    <3>2. ~(TakeStop \/ NoStop \/ IdleCommand \/ BeginInit \/ RecoverLater
              \/ RecoverGiveUp \/ OnQuit \/ OnSuspend)
      BY DEF TakeStop, NoStop, IdleCommand, BeginInit, RecoverLater,
             RecoverGiveUp, OnQuit, OnSuspend, Goto
    <3>3. ~(HoldLine \/ SenseOff \/ CloseChannels)
      BY DEF HoldLine, SenseOff, CloseChannels, Goto
    <3>4. ~InitChip
      BY DEF InitChip, InitAssertReset, InitReleaseReset, InitSelect, InitOpen,
             InitPolicy, InitConnect, InitFails, InitStep, Goto
    <3>5. ~(BeginFrame \/ ReadIssue \/ ReadOk \/ ReadRetry \/ ReadFails
              \/ FinishIdle)
      BY DEF BeginFrame, ReadIssue, ReadOk, ReadRetry, ReadFails, FinishIdle,
             Goto
    <3> QED
      BY <3>1, <3>2, <3>3, <3>4, <3>5 DEF Next, WorkerStep, GetFrame
  <2>3. ~finger /\ ~stylus /\ zeroFrames + 1 >= IdleThreshold
    BY <2>1, <2>2, ConstantsOK DEF FinishFrame, ZeroFrames, ValuesOK
  <2>4. CASE got = Devs
    BY <2>1, <2>2, <2>3, <2>4, ConstantsOK
       DEF FinishFrame, UpTo, ValuesOK, IInv, Core, QuietInv
  <2>5. CASE got # Devs
    BY <2>1, <2>2, <2>3, <2>5, ConstantsOK
       DEF FinishFrame, ValuesOK, IInv, Core, QuietInv, GotInv, SkipMaster
  <2> QED
    BY <2>4, <2>5
<1> QED
  BY <1>1, Invariance, PTL DEF Spec, IdleAfterQuiet

-----------------------------------------------------------------------------
(* The outcomes.                                                           *)

ChipOf == IF up THEN "inited" ELSE IF line THEN "raw" ELSE "held"

\* Every step is an outcome of Init, HoldReset or Deinit, or changes neither the controller nor
\* what m_connState says.
LEMMA OutcomeStep ==
  [Next]_vars => [Outcomes!Next]_<<conn, ChipOf>>
<1> SUFFICES ASSUME [Next]_vars
             PROVE  Outcomes!Next \/ UNCHANGED <<conn, ChipOf>>
  OBVIOUS
<1> USE DEF ChipOf, Outcomes!Next, Outcomes!InitOk, Outcomes!InitFails,
            Outcomes!HoldReset, Outcomes!Deinit, hwVars
<1>1. CASE SleepCancel \/ SleepStore \/ Wake \/ Restart
  BY <1>1 DEF SleepCancel, SleepStore, Wake, Restart
<1>2. CASE TakeStop
  BY <1>2 DEF TakeStop
<1>3. CASE NoStop
  BY <1>3 DEF NoStop
<1>4. CASE IdleCommand
  BY <1>4 DEF IdleCommand
<1>5. CASE BeginInit
  BY <1>5 DEF BeginInit
<1>6. CASE RecoverLater \/ RecoverGiveUp
  BY <1>6 DEF RecoverLater, RecoverGiveUp
<1>7. CASE OnQuit
  BY <1>7 DEF OnQuit
<1>8. CASE OnSuspend
  BY <1>8 DEF OnSuspend
<1>9. CASE HoldLine
  BY <1>9 DEF HoldLine, LineLow
<1>10. CASE SenseOff
  BY <1>10 DEF SenseOff, LineLow
<1>11. CASE CloseChannels
  BY <1>11 DEF CloseChannels
<1>12. CASE InitAssertReset
  BY <1>12 DEF InitAssertReset, LineLow
<1>13. CASE InitReleaseReset
  BY <1>13 DEF InitReleaseReset
<1>14. ASSUME NEW d \in Devs, InitSelect(d) \/ InitOpen(d) \/ InitPolicy(d)
       PROVE  UNCHANGED <<conn, ChipOf>>
  BY <1>14 DEF InitSelect, InitOpen, InitPolicy
<1>15. CASE InitConnect
  BY <1>15 DEF InitConnect
<1>16. CASE InitFails
  BY <1>16 DEF InitFails
<1>17. CASE BeginFrame \/ ReadIssue
  BY <1>17 DEF BeginFrame, ReadIssue
<1>18. CASE ReadOk
  BY <1>18 DEF ReadOk
<1>19. CASE ReadRetry \/ ReadFails
  BY <1>19 DEF ReadRetry, ReadFails
<1>20. CASE FinishIdle
  BY <1>20 DEF FinishIdle
<1>21. CASE FinishFrame
  BY <1>21 DEF FinishFrame
<1>22. CASE UNCHANGED vars
  BY <1>22 DEF vars
<1> QED
  BY <1>1, <1>2, <1>3, <1>4, <1>5, <1>6, <1>7, <1>8, <1>9, <1>10, <1>11, <1>12,
     <1>13, <1>14, <1>15, <1>16, <1>17, <1>18, <1>19, <1>20, <1>21, <1>22
     DEF Next, WorkerStep, InitChip, GetFrame

\* DeviceRuntime takes Init, HoldReset and Deinit for these outcomes, and no
\* step of the controller leads to another.
THEOREM Refinement == Spec => ImplementsOutcomes
<1>1. Init => Outcomes!Init
  BY DEF Init, Outcomes!Init
<1> QED
  BY <1>1, OutcomeStep, PTL
     DEF Spec, ImplementsOutcomes, Outcomes!Spec, ChipOf
==============================================================================
