------------------------------- MODULE Stylus -------------------------------
(* StylusPipeline: the frames of the pen one after the other on the worker    *)
(* thread, each with the scan and the solver of StylusWindow, and between     *)
(* their steps the pressure of the BT MCU from the pen thread.  Of a filter   *)
(* register only where its value comes from is kept: the frames of the pen's  *)
(* present visit or those before it left.                                     *)
EXTENDS StylusWindow, Sequences

CONSTANTS LiftingTimeout,     \* m_liftingTimeout
          ReleaseHold,        \* m_buttonReleaseHoldFrames
          MaxSamples          \* entries of m_btPressureHistory

ASSUME StylusAssumption ==
    /\ LiftingTimeout \in Nat /\ ReleaseHold \in Nat /\ MaxSamples \in Nat \ {0}

Visits     == {"now", "before"}
Origins    == SUBSET Visits   \* {} is a register that was never set
Lifecycles == {"Leave", "Hover", "Contact", "Lifting"}
Stages     == {"solved", "parse", "absent", "noPeak", "unsolved"}
Ages       == 0 .. 2          \* up to 50 ms, up to 100 ms, older
Posts(O)   == [frames : 0 .. 2, initialized : BOOLEAN, jitterLocked : BOOLEAN, history : O,
               prev0 : O, prev1 : O, iir : O, locked : O]
Results    == [stage : Stages, point : Origins, pressed : BOOLEAN, button : BOOLEAN,
               animState : Lifecycles]
Samples    == [age : Ages, down : BOOLEAN]

VARIABLES prevValid,          \* m_prevValid
          post,               \* m_postProcessor
          buttonRelease,      \* m_buttonReleaseCounter
          lifecycle,          \* m_penLifecycle
          liftingFrames,      \* m_liftingFrameCount
          samples,            \* m_btPressureHistory: how old, and whether pressed
          result,             \* m_lastResult
          away                \* history: frames without pen, up to the second

pen  == <<prevValid, post, buttonRelease, lifecycle, liftingFrames, result, away>>
vars == <<windowVars, pen, samples>>

FreshPost    == [frames |-> 0, initialized |-> FALSE, jitterLocked |-> FALSE, history |-> {},
                 prev0 |-> {}, prev1 |-> {}, iir |-> {}, locked |-> {}]
NoResult(s) == [stage |-> s, point |-> {}, pressed |-> FALSE, button |-> FALSE,
                animState |-> "Leave"]

Init == /\ WindowInit
        /\ prevValid = FALSE /\ post = FreshPost
        /\ buttonRelease = 0 /\ lifecycle = "Leave" /\ liftingFrames = 0
        /\ samples = <<>> /\ result = NoResult("absent") /\ away = 2

----------------------------------------------------------------------------
\* The filters of a located pen

\* CoorPostProcessor::Process: three point average, IIR, jitter lock.
Averaged(p) == {"now"} \cup (IF p.frames = 2 THEN p.prev0 \cup p.prev1 ELSE {})
Smoothed(p) == Averaged(p) \cup (IF p.initialized THEN p.iir \cup p.history ELSE {})
Processed(p, moved) == IF p.jitterLocked /\ ~moved THEN p.locked ELSE Smoothed(p)
PostProcess(p, moved) ==
    [frames |-> IF p.frames < 2 THEN p.frames + 1 ELSE 2,
     initialized |-> TRUE, jitterLocked |-> TRUE, history |-> p.history \cup {"now"},
     prev0 |-> Processed(p, moved), prev1 |-> p.prev0,
     iir |-> Smoothed(p), locked |-> Processed(p, moved)]

\* When the pen has gone, what is left in the registers was set before.
Aged(o)     == IF o = {} THEN {} ELSE {"before"}
AgedPost(p) == [p EXCEPT !.history = Aged(@), !.prev0 = Aged(@), !.prev1 = Aged(@),
                         !.iir = Aged(@), !.locked = Aged(@)]

----------------------------------------------------------------------------
\* The pressure and the life cycle

\* The samples of more than 100 ms at the front are dropped; one of the last
\* 50 ms that is not zero presses the pen.
DropOld == \E n \in 0 .. Len(samples) :
              /\ \A i \in 1 .. n : samples[i].age = 2
              /\ n < Len(samples) => samples[n + 1].age < 2
              /\ samples' = SubSeq(samples, n + 1, Len(samples))
Pressed == \E i \in 1 .. Len(samples) : samples[i].age = 0 /\ samples[i].down

UpdatePenLifecycle(valid, down) ==
    \/ /\ lifecycle = "Leave"
       /\ lifecycle' = IF valid THEN "Hover" ELSE "Leave"
       /\ UNCHANGED liftingFrames
    \/ /\ lifecycle = "Hover"
       /\ lifecycle' = IF ~valid THEN "Leave" ELSE IF down THEN "Contact" ELSE "Hover"
       /\ liftingFrames' = IF valid /\ down THEN 0 ELSE liftingFrames
    \/ /\ lifecycle = "Contact"
       /\ lifecycle' = IF down THEN "Contact" ELSE "Lifting"
       /\ liftingFrames' = IF down THEN liftingFrames ELSE 0
    \/ /\ lifecycle = "Lifting"
       /\ lifecycle' = IF down THEN "Contact"
                       ELSE IF ~valid \/ liftingFrames + 1 > LiftingTimeout THEN "Leave"
                       ELSE "Lifting"
       /\ liftingFrames' = IF down THEN 0 ELSE liftingFrames + 1

----------------------------------------------------------------------------
\* Process, by where it returns

\* The scan and the solver.
ScanWindow == Scan /\ UNCHANGED <<pen, samples>>

\* The words of the frame cannot be read: only the post processor is reset.
ParseFailure == /\ next = 0 /\ NewWindow
                /\ prevValid' = FALSE /\ post' = FreshPost
                /\ result' = NoResult("parse")
                /\ UNCHANGED <<buttonRelease, lifecycle, liftingFrames, samples, away>>

\* No pen: the filters are reset from the second frame on.
\* Fault: the frame before is still taken for one with a pen.
NoPenStaysValid ==
    /\ next = 0 /\ NewWindow
    /\ post' = IF away = 0 THEN post ELSE AgedPost(IF prevValid THEN post ELSE FreshPost)
    /\ away' = IF away = 0 THEN 1 ELSE 2
    /\ UpdatePenLifecycle(FALSE, FALSE)
    /\ result' = [NoResult("absent") EXCEPT !.animState = lifecycle']
    /\ UNCHANGED <<prevValid, buttonRelease, samples>>
NoPen == LET kept == IF prevValid THEN post ELSE FreshPost IN
         /\ next = 0 /\ NewWindow
         /\ post' = IF away = 0 THEN kept ELSE AgedPost(kept)
         /\ away' = IF away = 0 THEN 1 ELSE 2
         /\ prevValid' = FALSE
         /\ UpdatePenLifecycle(FALSE, FALSE)
         /\ result' = [NoResult("absent") EXCEPT !.animState = lifecycle']
         /\ UNCHANGED <<buttonRelease, samples>>

\* A window without a peak, or whose peak has no coordinate.
Unlocated == /\ Finished /\ raw \in {<<>>, None} /\ NewWindow
             /\ prevValid' = FALSE /\ away' = 0
             /\ UpdatePenLifecycle(FALSE, FALSE)
             /\ result' = [NoResult(IF peak = None THEN "noPeak" ELSE "unsolved")
                             EXCEPT !.animState = lifecycle']
             /\ UNCHANGED <<post, buttonRelease, samples>>

\* A coordinate: the filters, the pressure, the life cycle, the button.
\* moved: beyond the jitter lock.
Held(pushed) == ~pushed /\ buttonRelease > 0
Located ==
    /\ Finished /\ raw \notin {<<>>, None} /\ NewWindow
    /\ UpdatePenLifecycle(TRUE, Pressed)
    /\ \E moved, pushed \in BOOLEAN :
         /\ post' = PostProcess(post, moved)
         /\ buttonRelease' = IF pushed THEN ReleaseHold
                             ELSE IF Held(pushed) THEN buttonRelease - 1 ELSE 0
         /\ result' = [stage |-> "solved", point |-> Processed(post, moved),
                       pressed |-> Pressed, button |-> pushed \/ Held(pushed),
                       animState |-> lifecycle']
    /\ DropOld
    /\ prevValid' = TRUE /\ away' = 0

----------------------------------------------------------------------------
\* The pen thread and the clock

\* SetBtMcuPressure.
\* Fault: the bound is one late.
TrimmedLate(q) == IF Len(q) > MaxSamples + 1 THEN Tail(q) ELSE q
Trimmed(q)     == IF Len(q) > MaxSamples THEN Tail(q) ELSE q
SetBtMcuPressure ==
    /\ \E down \in BOOLEAN : samples' = Trimmed(Append(samples, [age |-> 0, down |-> down]))
    /\ UNCHANGED <<windowVars, pen>>

\* Time passes: every sample is at least as old as the ones after it.
Tick == /\ \E ages \in [DOMAIN samples -> Ages] :
             /\ \A i \in DOMAIN samples : ages[i] >= samples[i].age
             /\ \A i, j \in DOMAIN samples : i < j => ages[i] >= ages[j]
             /\ samples' = [i \in DOMAIN samples |-> [samples[i] EXCEPT !.age = ages[i]]]
        /\ UNCHANGED <<windowVars, pen>>

Next == ScanWindow \/ ParseFailure \/ NoPen \/ Unlocated \/ Located \/ SetBtMcuPressure \/ Tick

Spec == Init /\ [][Next]_vars

----------------------------------------------------------------------------
\* Properties

TypeOK == /\ prevValid \in BOOLEAN /\ post \in Posts(Origins)
          /\ buttonRelease \in 0 .. ReleaseHold /\ lifecycle \in Lifecycles
          /\ liftingFrames \in 0 .. LiftingTimeout + 1
          /\ samples \in Seq(Samples) /\ Len(samples) <= MaxSamples
          /\ result \in Results /\ away \in 0 .. 2

\* Each visit of the pen starts over: after two frames without pen, and no frame
\* with one between them, the life cycle has ended (StylusPipeline.cpp:508-541)
\* and no later point comes from filters of before (CoorPostProcessor.h:17),
\* whatever could not be read or located in the meantime.
VisitStartsOver == /\ "before" \notin result.point
                   /\ away = 2 => lifecycle = "Leave"
=============================================================================
